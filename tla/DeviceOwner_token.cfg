SPECIFICATION Spec
CONSTANTS
  Drivers = {a, b}
  NDrives = 1
  MaxSignIns = 2
  MaxKills = 0
  Reads = {"answers"}
  Outlives = {"pass"}
  None = None
  a = a
  b = b
INVARIANT PostedAsOwner
CHECK_DEADLOCK FALSE
