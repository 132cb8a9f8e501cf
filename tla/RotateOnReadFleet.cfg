SPECIFICATION Spec
CONSTANTS
  NULL = NULL
  Nobody = Nobody
  Materials = {m1, m2}
  MaxVersion = 2
  Versions <- MCVersions
  RequestDays = {1}
  MaxGraceDays = 1
  Day = 2
  MaxClock = 2
  Replicas = {r1, r2}
  Readers = {q1}
  Writers = {w1}
  Values = {x, y}
  KeySetTTL = 1
  MaxSeals = 3
SYMMETRY MCSymmetry
INVARIANTS TypeOK SnapshotsLag
PROPERTIES EncryptReadable FlagMissedByOlder DegradedForADay
