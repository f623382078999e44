CONSTANTS
    Devices = {"dev1"}
    Processes = {}
    Lines <- MCLines
    StepIds <- MCSteps
    Info <- MCInfo
    Scripts <- MCPhaseScript
    Monitors = {"mon"}
    Calls = {}
    Attempts = 1
    MaxLines = 1
    MaxCalls = 0
    NoTimer = NoTimer
    NoEvent = NoEvent
    NoSource = NoSource
SPECIFICATION Spec
INVARIANTS TimeoutHitsItsPhase
