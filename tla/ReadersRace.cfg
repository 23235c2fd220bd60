SPECIFICATION Spec
CONSTANTS
    c1 = c1
    u1 = u1
    u2 = u2
    u3 = u3
    d1 = d1
    k1 = k1
    a1 = a1
    Event <- MCEvent
    Source <- MCSource
    SourceOf <- MCSourceOf
    Priority <- MCPriority
    Version <- MCVersion
    Place <- MCPlace
    Contents <- MCContents
    AutoDist = 0
    MaxClock = 2
    Dataset = {}
    Fold = {k1}
    Client = {}
    Limit = 1
    Delay = 1
    From = 4
    To = 6
    MaxReaders = 1
    None = None
    Mag <- MCMag
    Eta <- MCEta
    Magnitudes = {5, 7}
    BinWidth = 2
    OneMagnitude = 20
    PeakCorrection = 1
    MinEvents = 2
    MinAbove = 1
    MinSpan = 1
    MinPairs = 2
    MinFamily = 2
    MinEtas <- MCMinEtas
    IasWindow = 1
    MinWindows = 1
    Ends = {0, 6, 7}
    MaxLineages = 0
    MaxFits = 0
INVARIANTS
    FoldReadsIdentical
CHECK_DEADLOCK FALSE
