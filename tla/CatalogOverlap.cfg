SPECIFICATION FairSpec
CONSTANTS
    c1 = c1
    u1 = u1
    u2 = u2
    r1 = r1
    r2 = r2
    r3 = r3
    Event <- MCEvent
    Source <- MCSource
    SourceOf <- MCSourceOf
    Priority <- MCPriority
    Version <- MCVersion
    Place <- MCPlace
    Query <- WholeFeeds
    Generated <- MCGenerated
    RejectsEmpty <- MCRejects
    MaxPublish <- MCPublish
    Run = {r1, r2}
    AutoDist = 1
    Window = 2
    Overlap = TRUE
    Reverting = {}
INVARIANTS
    OneMembership
PROPERTIES
    AsOfSettled
    ImplementsLog
    EveryRunEnds
CHECK_DEADLOCK FALSE
