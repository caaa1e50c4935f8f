SPECIFICATION LiveSpec
CONSTANTS
  c1 = c1
  Commands <- One
  MaxLeases = 1
  MaxOutput = 0
  MaxFaults = 1
  Secrets = "kept"
PROPERTY ScopesAreReleased
CHECK_DEADLOCK FALSE
