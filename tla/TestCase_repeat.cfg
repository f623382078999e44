CONSTANTS
    Devices = {"dev1"}
    Processes = {}
    Lines <- MCLines
    StepIds <- MCSteps
    Info <- MCInfo
    Scripts <- MCRepeatScripts
    Monitors = {"mon"}
    Calls = {"set_fail", "skip", "open_fails"}
    Attempts = 2
    MaxLines = 1
    MaxCalls = 1
    NoTimer = NoTimer
    NoEvent = NoEvent
    NoSource = NoSource
SPECIFICATION Spec
INVARIANTS AttemptStartsClean TeardownDone ReportedFailureCounts
PROPERTIES Lifecycle
