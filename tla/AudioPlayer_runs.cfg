SPECIFICATION FairSpec
CONSTANTS
    Sizes = {0, 3, 9}
    ElementSize = 2
    ElementNum = 3
    PushMax = 2
    FileNum = 2
    PlayTime = 1
    MaxRuns = 2
    MaxFaults = 2
CHECK_DEADLOCK FALSE
INVARIANTS TypeOK FifoIsFaithful 
PROPERTIES StopsAtItsEnd RunEnds
