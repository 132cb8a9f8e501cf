SPECIFICATION FairSpec
CONSTANTS
  NULL = NULL
  Nobody = Nobody
  Materials = {m1, m2}
  MaxVersion = 2
  Versions <- MCVersions
  RequestDays = {}
  MaxGraceDays = 1
  Day = 2
  MaxClock = 0
  Replicas = {r1, r2}
  Readers = {q1, q2}
  Writers = {w1}
  Values = {x, y}
  KeySetTTL = 1
  MaxSeals = 3
INVARIANTS ColumnKeepsValue
PROPERTIES CompromisedGone ReadsEnd
