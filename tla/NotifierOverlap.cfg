\* A second job is triggered before the first has pushed; nothing fails.
SPECIFICATION Spec
CONSTANTS
    j1 = j1  j2 = j2
    Event = {1}
    Job = {j1, j2}
    MaxPerRun = 3
    MaxAge = 1
    Limit = 2
    Delay = 0
    Overlap = TRUE
    MaxUpsets = 0
    MaxNow = 2
INVARIANT NoRepeat
CHECK_DEADLOCK FALSE
