SPECIFICATION Spec
CONSTANTS
  NULL = NULL
  Sessions = {s1, s2}
  Observers = {o1, o2}
  Firsts = {x, y}
  Seconds = {z}
  Kinds = {"natural_person", "corporation", "service_account", "app"}
  Policies = {"propagate", "swallow"}
  PoolSize = 2
  Capacity <- MCCapacity
  Bodies <- MCBodies
INVARIANTS TypeOK DeadlocksAreSwaps StallsExplained
PROPERTIES
  StoreIsWhole
  ReportedIsStored
  AuditedAtomically
  AfterIsCommitted
  ArchivedOnce
  RequestsEnd
  OvertakenByUpdates
