SPECIFICATION Spec
CONSTANTS
    MaxTurns = 1
    MaxMessages = 0
    Answers = {"yes"}
    Listening = {}
    Asking = {}
    MaxFaults = 0
    MaxControls = 1
INVARIANT OnlyTimeoutsFail
CHECK_DEADLOCK FALSE
