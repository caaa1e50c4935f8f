SPECIFICATION LiveSpec
CONSTANTS
  m1 = m1
  m2 = m2
  c1 = c1
  c2 = c2
  Machine <- One
  Computer <- OneComputer
  Slots = 1
  MaxHosts = 2
  MaxLeases = 1
  MaxStarts = 2
  MaxFaults = 1
  MaxControls = 2
  MaxTransitions = 2
INVARIANTS
  TerminationReadyIsEmpty ReceiptsHold
PROPERTIES
  DrainingEnds
CHECK_DEADLOCK FALSE
