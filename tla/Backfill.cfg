\* One operator, up to three invocations over [0, 4) or [0, 8); e4 appears
\* late, where it does not change the plan.
SPECIFICATION FairSpec
CONSTANTS
    e1 = e1  e2 = e2  e3 = e3  e4 = e4
    Event = {e1, e2, e3, e4}
    At <- MCAt
    Early = {e1, e2, e3}
    Ends = {4, 8}
    MaxResults = 1
    FetchCap = 2
    MinSlice = 1
    MaxRetries = 2
    MaxStarts = 3
INVARIANTS TypeOK PlanCovers SummaryMatchesRows NothingLost
PROPERTIES NoRefetch CommandEnds
CHECK_DEADLOCK FALSE
