\* Three requests of two users, two runs, and one lost connection.
SPECIFICATION Spec
CONSTANTS
  Revisions = {r1, r2}
  Requests = {q1, q2, q3}
  MaxGeneration = 3
  MaxRuns = 2
  MaxDrops = 1
  NoRun = NoRun
INVARIANTS TypeOK HomeIsRight CloudIsRight
PROPERTIES ActsAsDeployed
SYMMETRY Symmetry
CHECK_DEADLOCK FALSE
