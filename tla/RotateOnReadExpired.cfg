SPECIFICATION Spec
CONSTANTS
  NULL = NULL
  Nobody = Nobody
  Materials = {m1, m2, m3}
  MaxVersion = 3
  Versions <- MCVersions
  RequestDays = {1}
  MaxGraceDays = 1
  Day = 1
  MaxClock = 1
  Replicas = {r1, r2}
  Readers = {q1}
  Writers = {w1}
  Values = {x}
  KeySetTTL = 1
  MaxSeals = 2
SYMMETRY MCSymmetry
PROPERTIES WriteBackReadable
