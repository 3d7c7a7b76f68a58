\* A manual and two automatic triggers, one of them sent twice, and two
\* commands of a user; the process never dies.
SPECIFICATION FairSpec
CONSTANTS
  f1 = f1  f2 = f2  t1 = t1  t2 = t2  t3 = t3  a = a  b = b  d = d
  Nodes = {a, d}
  Entry = d
  Kind <- Kinds
  Flows = {f1}
  Triggers = {t1, t2, t3}
  Runs = {r1, r2, r3}
  Commands = {c1, c2}
  FlowOf <- SameFlow
  KeyOf <- RetryKeys
  ModeOf <- FirstManual
  QueueLimit = 1
  MayExpire = {t2}
  Offered = {"step", "continue", "pause", "resume", "cancel"}
  Awaited = {TRUE}
  MaxCommands = 2
  MaxCrashes = 0
  NoRun = NoRun
  NoCommand = NoCommand
INVARIANTS QueueIsSound
PROPERTIES CancelFreezes PauseHolds TriggersServed
CHECK_DEADLOCK FALSE
