SPECIFICATION FairSpec
CONSTANTS
  WireIds = {1}
  MaxEvents = 2
  Rings = {1, 2}
  MaxDrives = 1
  MaxTroubles = 1
  Troubles = {"drop", "reboot", "kill", "fault", "wipe"}
  Failing = {"same", "event"}
INVARIANTS TypeOK CursorHonest SyncedDriveComplete
PROPERTIES CatchesUp
CHECK_DEADLOCK FALSE
