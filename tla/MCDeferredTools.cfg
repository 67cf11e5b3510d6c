SPECIFICATION Spec
CONSTANTS
    Definitions <- MCDefinitions
    DeferredNames <- MCDeferredNames
    NamespaceOf <- MCNamespaceOf
    ToolSearch = "tool_search"
    Queries <- MCQueries
    Hits <- MCHits
    EmptyQuery = "empty"
    NotAQuery = "not a string"
    OtherCall = "other tool"
    MaxTurns = 4
    MaxCalls = 2
    MaxRespawns = 1
    MaxParked = 1
CHECK_DEADLOCK FALSE
INVARIANTS TypeOK FoundIsOffered SentOnce
PROPERTIES GrowsWhileUp
