\* One transition with a raw row, two sockets, a change of the policy.
SPECIFICATION Spec
CONSTANTS
  Runs = {r1}
  MaxCommits = 1
  MaxSockets = 2
  MaxFailures = 0
  MaxChanges = 1
  InitialCapture = TRUE
INVARIANTS OffDiscards
PROPERTIES StoredAtLast
CHECK_DEADLOCK FALSE
