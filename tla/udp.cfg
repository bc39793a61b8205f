SPECIFICATION UdpSpec
CONSTANTS
    d1 = d1
    d2 = d2
    w1 = w1
    w2 = w2
    t1 = t1
    t2 = t2
    r1 = r1
    r2 = r2
    i1 = i1
    i2 = i2
    a1 = a1
    v1 = v1
    NoTable = NoTable
    Idle = Idle
    Unparsed = Unparsed
    NoName = NoName
    NoLabel = NoLabel
    NoLoad = NoLoad
    NoConfig = NoConfig
    NotSent = NotSent
    NoFilter = NoFilter
    Absent = Absent
    Malformed = Malformed
    Sources = {a1}
    Labels = {v1}
    Identities = {i1, i2}
    Tables = {t1, t2}
    Rules = {r1, r2}
    Queries <- MCQueries
    Expand <- MCExpand
    Synthesize <- MCSynthesize
    Configs = {1, 2, 3}
    Workers = {w1, w2}
    Datagrams = {d1, d2}
    Packets <- MCPackets
    Listeners = {"tcp", "udp"}
    Protocol <- MCProtocol
    UdpListener = "udp"
    Updates <- MCUpdates
    MaxUpdates = 3
SYMMETRY Symmetry
INVARIANTS RunsWhatWasLawful TableInForceIsDue BeforeCarrierDenies ForwardedIsLawful DroppedIsJustified UdpCountersTally
CHECK_DEADLOCK FALSE
