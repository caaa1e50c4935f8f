SPECIFICATION LiveSpec
CONSTANTS
  root = root
  child = child
  NoSession = NoSession
  Sessions <- OneSession
  Parent <- OneParent
  MaxTurns = 2
  MaxEpochs = 4
  MaxLeases = 2
  MaxControls = 1
  MaxFaults = 2
  processFailureHoldThreshold = 2
  Events <- SingleEvents
INVARIANTS
  RunningTurnOwned ConsecutiveFailuresHeld LostWorkIsReported
PROPERTIES
  ImplementsTurnQueue ClosingCloses QueuedTurnLeaves
CHECK_DEADLOCK FALSE
