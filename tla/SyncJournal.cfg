\* One run of two transitions, three sockets, one failure; no raw rows.
SPECIFICATION Spec
CONSTANTS
  Runs = {r1}
  MaxCommits = 2
  MaxSockets = 3
  MaxFailures = 1
  MaxChanges = 0
  InitialCapture = FALSE
INVARIANTS TypeOK NothingIsMissed
PROPERTIES DeliversRows
CHECK_DEADLOCK FALSE
