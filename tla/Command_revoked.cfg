SPECIFICATION Spec
CONSTANTS
  c1 = c1
  Commands <- One
  MaxLeases = 1
  MaxOutput = 0
  MaxFaults = 0
  Secrets = "revoked"
INVARIANT RevocationOnlyWithholds
CHECK_DEADLOCK FALSE
