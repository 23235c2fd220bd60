SPECIFICATION Spec
CONSTANTS
    c1 = c1
    u1 = u1
    u2 = u2
    r1 = r1
    r2 = r2
    r3 = r3
    Event <- MCEvent
    Source <- MCSource
    SourceOf <- MCSourceOf
    Priority <- MCPriority
    Version <- MCVersion
    Place <- MCPlace
    Query <- FeedAndSlice
    Generated <- MCGenerated
    RejectsEmpty <- MCRejects
    MaxPublish <- OncePublish
    Run = {r1, r2, r3}
    AutoDist = 1
    Window = 2
    Overlap = TRUE
    Reverting = {}
SYMMETRY RunSymmetry
INVARIANTS
    OneSourcePerCanonical
CHECK_DEADLOCK FALSE
