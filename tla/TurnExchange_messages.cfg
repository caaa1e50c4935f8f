SPECIFICATION LiveSpec
CONSTANTS
    MaxTurns = 1
    MaxMessages = 2
    Answers = {"yes"}
    Listening = {1}
    Asking = {}
    MaxFaults = 1
    MaxControls = 2
INVARIANTS
    CallbacksInOrder
PROPERTIES
    TurnsSettle MessagesSettle StopsConverge
CHECK_DEADLOCK FALSE
