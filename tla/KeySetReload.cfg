SPECIFICATION FairSpec
CONSTANTS
  Goroutines = {g1, g2}
  NoGoroutine = NoGoroutine
  KeySetTTL = 2
  MinReloadInterval = 1
  MaxChanges = 1
  MaxClock = 3
INVARIANTS TypeOK ReloadIsFresh BudgetIsLastCharge EncryptWithinTTL
PROPERTIES SnapshotMonotone CallsReturn
