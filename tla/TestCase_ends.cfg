CONSTANTS
    Devices = {"dev1"}
    Processes = {"proc"}
    Lines <- MCLines
    StepIds <- MCSteps
    Info <- MCInfo
    Scripts <- MCShortScripts
    Monitors = {"mon"}
    Calls = {"set_fail", "stop", "raise", "start_process", "read_fails"}
    Attempts = 1
    MaxLines = 1
    MaxCalls = 1
    NoTimer = NoTimer
    NoEvent = NoEvent
    NoSource = NoSource
SPECIFICATION FairSpec
PROPERTIES RunEnds
