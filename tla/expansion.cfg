SPECIFICATION FairSpec
CONSTANTS
    Literals = {"half", "quarter", "next", "top", "any", "!*"}
    Names = {"g", "h", "k"}
    Width = 3
    LowerOf <- MCLowerOf
    Star = "*"
    Empty = ""
    NoScope = NoScope
    AllSites = "!*"
    SiteSpaces <- MCSiteSpaces
    Encode <- MCEncode
    GroupGraphs <- MCGraphs
    RawConfigs <- MCRawConfigs
    ServerNames <- MCServerNames
INVARIANTS WalkIsClosure MergeKeepsCover RulesMeanWhatTheySay
PROPERTY EveryExpansionEnds
CHECK_DEADLOCK FALSE
