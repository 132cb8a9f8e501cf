SPECIFICATION FairAdminSpec
CONSTANTS
  NULL = NULL
  m1 = m1  m2 = m2  m3 = m3
  a1 = a1  a2 = a2  p1 = p1  p2 = p2
  Materials = {m1, m2}
  MaxVersion = 2
  Versions <- MCVersions
  RequestDays = {}
  MaxGraceDays = 1
  Day = 1
  MaxClock = 0
  Admins = {a1, a2}
  Booters = {p1, p2}
  EnvKey <- MCOwnEnv
INVARIANTS BootVerdict
PROPERTIES Answered BootDecided
