\* Two evaluations side by side, interrupted anywhere, assessed while they run.
SPECIFICATION Spec
CONSTANTS
    ev1 = ev1  ev2 = ev2
    strong = strong  weak = weak  edge = edge
    Eval = {ev1, ev2}
    Protocol <- MCProtocol
    Reference <- MCReference
    Event = {strong, weak, edge}
    At <- MCAt
    Grid <- MCGrid
    Region <- MCRegion
    Bins <- MCBins
    MinFolds = 2
    MinEvents = 1
    MinTested = 1
    MaxChanges = 1
    None = None
INVARIANTS TypeOK FoldsArePrefix PromotionComparesWholeRuns
PROPERTIES ScoresMatchForecast
CHECK_DEADLOCK FALSE
