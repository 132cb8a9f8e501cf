SPECIFICATION Spec
CONSTANTS
  NULL = NULL
  Sessions = {s1, s2}
  Observers = {}
  Firsts = {x, y}
  Seconds = {z, w}
  Kinds = {"natural_person"}
  Policies = {"propagate"}
  PoolSize = 3
  Capacity <- MCCapacity
  Bodies <- MCHalves
PROPERTY NilMembersKept
