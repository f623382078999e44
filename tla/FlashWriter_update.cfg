SPECIFICATION FairSpec
CONSTANTS
    N = 5
    Retry = 3
    SeqMod = 4
    Faults = {"corrupt", "garble", "lose", "slow", "repoll", "cancel", "checksum", "die"}
    MaxFaults = 3
CHECK_DEADLOCK FALSE
INVARIANTS TypeOK TransferIsFaithful TestsStartRight
PROPERTIES UpdateEnds
