SPECIFICATION Spec
CONSTANTS
  m1 = m1
  m2 = m2
  c1 = c1
  c2 = c2
  Machine <- Two
  Computer <- TwoComputers
  Slots = 1
  MaxHosts = 2
  MaxLeases = 2
  MaxStarts = 2
  MaxFaults = 1
  MaxControls = 0
  MaxTransitions = 0
SYMMETRY Alike
INVARIANTS
  FencedIsGone OneVMPerComputer ActiveIsRecovered WithinSlots
CHECK_DEADLOCK FALSE
