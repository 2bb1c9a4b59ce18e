SPECIFICATION Spec
CONSTANTS
  MaxSetups = 2
  MaxTroubles = 1
  Troubles = {"drop", "away"}
  Settled = TRUE
INVARIANT PairingKept
CHECK_DEADLOCK FALSE
