\* Jobs one at a time, messages that may be refused, loops and saves that raise,
\* and more events than one poll may send or one answer may hold.
SPECIFICATION FairSpec
CONSTANTS
    j1 = j1  j2 = j2
    Event = {1, 2, 3, 4}
    Job = {j1}
    MaxPerRun = 2
    MaxAge = 0
    Limit = 3
    Delay = 0
    Overlap = FALSE
    MaxUpsets = 1
    MaxNow = 2
INVARIANTS TypeOK NoRepeat
PROPERTIES MarkedForAReason EveryEventSettles
CHECK_DEADLOCK FALSE
