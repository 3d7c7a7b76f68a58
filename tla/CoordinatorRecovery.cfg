\* An automatic and a manual flow, two commands of their users, one crash.
SPECIFICATION Spec
CONSTANTS
  f1 = f1  f2 = f2  t1 = t1  t2 = t2  t3 = t3  a = a  b = b  d = d
  Nodes = {a, b}
  Entry = b
  Kind <- Kinds
  Flows = {f1, f2}
  Triggers = {t1, t2}
  Runs = {r1,r2,r3}
  Commands = {c1, c2}
  FlowOf <- TwoFlows
  KeyOf <- OwnKeys
  ModeOf <- FirstManual
  QueueLimit = 1
  MayExpire = {}
  Offered = {"continue", "pause", "resume", "cancel", "fixture"}
  Awaited = {TRUE}
  MaxCommands = 2
  MaxCrashes = 1
  NoRun = NoRun
  NoCommand = NoCommand
INVARIANTS OutboxAgrees NothingIsLost
PROPERTIES EffectsMoveForward LeaseKept
SYMMETRY Symmetry
CHECK_DEADLOCK FALSE
