SPECIFICATION Spec
CONSTANTS
    a1 = a1
    v1 = v1
    v2 = v2
    NoLabel = NoLabel
    Sources = {a1}
    Labels = {v1, v2}
    Streams <- MCStreams
    Cuts <- MCCuts
INVARIANTS NeedIsAhead LabelIsFirst
PROPERTY ChunkingIrrelevant
CHECK_DEADLOCK FALSE
