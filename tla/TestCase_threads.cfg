CONSTANTS
    Devices = {"dev1"}
    Processes = {"proc"}
    Lines <- MCLines
    StepIds <- MCSteps
    Info <- MCInfo
    Scripts <- MCScripts
    Monitors = {"mon"}
    Calls = {"set_fail", "stop", "raise", "add_user_event", "add_monitor", "remove_monitor", "start_process", "stop_process", "open_fails", "read_fails"}
    Attempts = 1
    MaxLines = 1
    MaxCalls = 2
    NoTimer = NoTimer
    NoEvent = NoEvent
    NoSource = NoSource
SPECIFICATION Spec
INVARIANTS TypeOK PassIsEarned FailureKept TestPhaseIsClean NeverStuck NoStrayReader
PROPERTIES AnyOrder
