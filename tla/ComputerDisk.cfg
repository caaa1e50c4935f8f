SPECIFICATION LiveSpec
CONSTANTS
    MaxTurns = 2
    MaxBackground = 1
    MaxCheckpoints = 1
    MaxFaults = 1
INVARIANTS
    DurableWorkKept CustodyKept
    OneMachineExecutes ImageThawedOnce DispatchReachesGuest
PROPERTIES
    SavesSettle
    DemandIsServed
CHECK_DEADLOCK FALSE
