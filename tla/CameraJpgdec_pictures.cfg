SPECIFICATION FairSpec
CONSTANTS
    Counts = {0, 2, 4}
    INT_MAX = 3
    DEFAULT_REPEAT_NUM = 2
    FileLimit = 4
    MaxCommands = 2
    MaxFaults = 1
CHECK_DEADLOCK FALSE
INVARIANTS TypeOK PicturesInOrder FreedTwiceOnlyEarly
PROPERTIES CompletionIsTrue CommandEnds
