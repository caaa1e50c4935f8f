SPECIFICATION Spec
CONSTANTS
    MaxTurns = 2
    MaxMessages = 1
    Answers = {"yes"}
    Listening = {1}
    Asking = {1}
    MaxFaults = 1
    MaxControls = 1
INVARIANTS
    DispositionIsTrue CompletedIsJoined StoppedHasCeased AnswersAgree OutcomesAgree
CHECK_DEADLOCK FALSE
