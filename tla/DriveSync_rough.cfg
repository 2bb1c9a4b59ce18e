SPECIFICATION Spec
CONSTANTS
  MaxTaps = 2
  MaxKills = 1
  MaxFaults = 1
  OtherPhone = TRUE
INVARIANTS TypeOK ServerMarkKept NeverFlattered
PROPERTY UndoneOnlyIfHeld KeepsItsPromise
CHECK_DEADLOCK FALSE
