\* One item, the whole of its ladder, under a clock that may be set back twice.
SPECIFICATION Spec
CONSTANTS
  Keys = {k1}
  Batch = 1
  MaxAttempts = 3
  FirstDelay = 1
  MaxDelay = 2
  ReclaimAfter = 1
  ReopenAfter = 3
  PurgeAfter = 2
  Never = 99
  ReleaseWaits = {0, 1, 2}
  RetryAfters = {1, 5}
  MaxTime = 7
  MaxSetBacks = 2
  MaxWipes = 1
INVARIANTS TypeOK LadderInv HeldIsInflight AheadOnlyAfterSetBack
PROPERTY KeepsItsPromise
CHECK_DEADLOCK FALSE
