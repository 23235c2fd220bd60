\* Commands race, fail and die while releases are built and revisions classified.
SPECIFICATION FairSpec
CONSTANTS
    slab1 = slab1  slab2 = slab2  chaf = chaf
    p1 = p1  p2 = p2  c1 = c1  c2 = c2
    Slab = {slab1, slab2}
    Fault = {chaf}
    Assets <- MCAssets
    Batches = 2
    Loader = {p1, p2}
    Classifier = {c1, c2}
    Revision = {1, 2, 3}
    Available <- MCAvailable
    Method = {1}
    Limit = 2
    None = None
INVARIANTS TypeOK ReadyIsWhole AssetsHaveOneRun OldestFirst
PROPERTIES BasisFrozen EveryCommandEnds
CHECK_DEADLOCK FALSE
