SPECIFICATION FairSpec
CONSTANTS
  MaxAlerts = 2
  MaxTroubles = 1
  Troubles = {"deaf", "fails", "lost", "drop", "restart", "hush", "late"}
INVARIANTS
  TypeOK
  OneVoice
  NeverSilent
PROPERTIES
  Heard
CHECK_DEADLOCK FALSE
