SPECIFICATION LiveSpec
CONSTANTS
  c1 = c1
  Commands <- One
  MaxLeases = 2
  MaxOutput = 2
  MaxFaults = 2
  Secrets = "revoked"
INVARIANTS
  LaunchedOnce ResultIsTrue ReconciledIsGone SealedIsQuiet
PROPERTIES
  CommandsSettle
CHECK_DEADLOCK FALSE
