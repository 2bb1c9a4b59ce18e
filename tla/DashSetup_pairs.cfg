SPECIFICATION FairSpec
CONSTANTS
  MaxSetups = 3
  MaxTroubles = 2
  Troubles = {"drop", "away", "press", "expire", "full", "unheard", "late", "keychain", "settings", "kill", "reinstall"}
  Settled = TRUE
INVARIANTS TypeOK NoKeyLost OneRecord
PROPERTIES DonePaired SetupEnds
CHECK_DEADLOCK FALSE
