SPECIFICATION Spec
CONSTANTS
    v1 = v1
    v2 = v2
    Width = 4
    V4Bits = 1
    V4Base = 2
    UlaBase = 4
    SiteCount = 3
    HashCount = 2
    Labels = {v1, v2}
    NoLabel = NoLabel
    None = None
    Hash <- MCHash
    SiteLists <- MCSiteLists
INVARIANT LabelMeetsWire
CHECK_DEADLOCK FALSE
