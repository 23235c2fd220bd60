SPECIFICATION FairSpec
CONSTANTS
    p1 = p1  p2 = p2  s1 = s1  P7D = P7D  utc = utc  chile = chile  g1 = g1  g2 = g2
    Proc = {p1, p2}
    Slot = {s1}
    Horizon = {P7D}
    Rendering = {utc}
    Grid = {g1, g2}
    SpecGrid = g1
    None = None
    MaxCalls = 2
    MaxNamed = 1
    MaxRows = 6
    MaxUnusable = 1
    MaxOpen = 1
    MaxCompleteness = 2
    MaxGr = 2
    MaxEtas = 1
    MaxDecl = 1
    MaxBg = 1
    MaxOf <- MCMaxOf
INVARIANTS TypeOK SlotIdempotent LineageConsistent PickedIsIssuable
PROPERTIES EveryCallEnds
CHECK_DEADLOCK FALSE
