\* Two transitions, two sockets, the policy turned on and off again; no failures.
SPECIFICATION Spec
CONSTANTS
  Runs = {r1}
  MaxCommits = 2
  MaxSockets = 2
  MaxFailures = 0
  MaxChanges = 2
  InitialCapture = FALSE
PROPERTIES OffIsOff
CHECK_DEADLOCK FALSE
