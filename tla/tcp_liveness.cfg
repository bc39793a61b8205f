SPECIFICATION FairFilterSpec
CONSTANTS
    k1 = k1
    k2 = k2
    w1 = w1
    w2 = w2
    c1 = c1
    c2 = c2
    c3 = c3
    t1 = t1
    t2 = t2
    r1 = r1
    r2 = r2
    i1 = i1
    i2 = i2
    p6 = p6
    n1 = n1
    a1 = a1
    v1 = v1
    NoTable = NoTable
    Idle = Idle
    Unparsed = Unparsed
    NoConn = NoConn
    NoName = NoName
    NoIdentity = NoIdentity
    NoLabel = NoLabel
    Peers = {NoIdentity}
    Sources = {a1}
    Labels = {v1}
    Names = {n1}
    Identities = {i1, i2, p6}
    Tables = {t1, t2}
    Queries <- MCQueries
    Expand <- MCExpand
    Synthesize <- MCSynthesize
    Conns = {k1, k2}
    Workers = {w1}
    Configs = {c1, c2, c3}
    Chain <- EveryChain
    Rules = {r1}
    Streams <- BothStreams
    Cuts = {16, 60}
    MaxPublish = 1
INVARIANT CountersTally
PROPERTY EveryHeaderSettles
CHECK_DEADLOCK FALSE
