SPECIFICATION FairSpec
CONSTANTS
    t1 = t1
    t2 = t2
    r1 = r1
    r2 = r2
    q1 = q1
    q2 = q2
    w1 = w1
    w2 = w2
    w3 = w3
    c1 = c1
    c2 = c2
    NoTable = NoTable
    Idle = Idle
    Unparsed = Unparsed
    NoWriter = NoWriter
    U64Max = 9
    Tables = {t1, t2}
    Rules = {r1, r2}
    Queries = {q1, q2}
    Expand <- MCExpand
    Workers = {w1, w2}
    Configs = {c1}
    MaxPublish = 2
PROPERTIES EveryCallReturns Converges
