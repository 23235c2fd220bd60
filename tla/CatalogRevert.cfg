SPECIFICATION Spec
CONSTANTS
    c1 = c1
    u1 = u1
    u2 = u2
    r1 = r1
    r2 = r2
    r3 = r3
    Event <- MCEvent
    Source <- MCSource
    SourceOf <- MCSourceOf
    Priority <- MCPriority
    Version <- MCVersion
    Place <- MCPlace
    Query <- CsnPage
    Generated <- MCGenerated
    RejectsEmpty <- MCRejects
    MaxPublish <- RevertPublish
    Run = {r1, r2, r3}
    AutoDist = 1
    Window = 2
    Overlap = FALSE
    Reverting <- MCUndated
SYMMETRY RunSymmetry
INVARIANTS
    CatalogReflectsLastDelivery
CHECK_DEADLOCK FALSE
