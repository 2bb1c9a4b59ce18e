SPECIFICATION Spec
CONSTANTS
  NDrives = 2
  MaxRows = 3
  CheckpointRows = 2
  PageRows = 2
  ReplayCap = 1
  RowBuffer = 2
  ResumeGap = 2
  DroveAt = 2
  MaxKills = 2
  MaxTaps = 1
  MaxFaults = 1
  Faults = {"read", "list", "checkpoint", "store", "ride", "drop"}
  Early = {}
INVARIANTS
  TypeOK
  JournalKept
  RideOwed
PROPERTIES
  StoredForGood
