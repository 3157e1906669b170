SPECIFICATION Spec
CONSTANTS
  Servers = {s1, s2, s3}
  Callers = {c1, c2}
  alice = alice
  bob = bob
  Root = root
  Bobs = {s3, c2}
  Owner <- MCOwner
  NULL = NULL
CHECK_DEADLOCK FALSE
INVARIANTS TypeOK FailsOnlyToOthers Reachable
PROPERTY QueuedMovesOn
