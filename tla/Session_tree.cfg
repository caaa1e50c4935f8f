SPECIFICATION Spec
CONSTANTS
  root = root
  child = child
  NoSession = NoSession
  Sessions <- TwoTier
  Parent <- TwoTierParent
  MaxTurns = 1
  MaxEpochs = 1
  MaxLeases = 1
  MaxControls = 1
  MaxFaults = 0
  processFailureHoldThreshold = 1
  Events <- TreeEvents
INVARIANTS
  ClosedIsSettled CurrentControlMatchesHolds
CHECK_DEADLOCK FALSE
