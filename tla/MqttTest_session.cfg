SPECIFICATION FairSpec
CONSTANTS
    MaxRestarts = 1
    MaxFaults = 2
    SessionIds = {1}
    Invalid = 0
    Garbage = 9
    Tests = {"t12", "t16", "t18", "t42"}
    Loop = 2
    MaxCommands = 2
CHECK_DEADLOCK FALSE
INVARIANTS TypeOK ConnectionIsTrue VerdictIsJust
PROPERTIES NobodyWaitsForEver
