SPECIFICATION FairSpec
CONSTANTS
  Drivers = {a, b}
  NDrives = 2
  MaxSignIns = 4
  MaxKills = 2
  Reads = {"answers", "slow", "unknown"}
  Outlives = {}
  None = None
  a = a
  b = b
INVARIANTS TypeOK RowsAreOwners RestoredMeansHeld
PROPERTIES MountsTheOwner HandsOver
CHECK_DEADLOCK FALSE
