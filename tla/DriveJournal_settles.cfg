SPECIFICATION FairSpec
CONSTANTS
  NDrives = 2
  MaxRows = 3
  CheckpointRows = 2
  PageRows = 2
  ReplayCap = 1
  RowBuffer = 2
  ResumeGap = 2
  DroveAt = 2
  MaxKills = 1
  MaxTaps = 1
  MaxFaults = 0
  Faults = {}
  Early = {"starting", "behind"}
INVARIANTS
  CancelledStaysGone
  NothingUnheld
PROPERTIES
  EverythingSettles
