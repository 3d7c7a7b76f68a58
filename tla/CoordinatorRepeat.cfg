\* One input and a crash between the commit of its run and the mark on its row.
SPECIFICATION Spec
CONSTANTS
  f1 = f1  f2 = f2  t1 = t1  t2 = t2  t3 = t3  a = a  b = b  d = d
  Kind <- Kinds
  Nodes = {a}
  Entry = a
  Flows = {f1}
  Triggers = {t1}
  Runs = {r1, r2, r3}
  Commands = {}
  FlowOf <- SameFlow
  KeyOf <- OwnKeys
  ModeOf <- AllAuto
  QueueLimit = 2
  MayExpire = {}
  Offered = {}
  Awaited = {TRUE}
  MaxCommands = 0
  MaxCrashes = 1
  NoRun = NoRun
  NoCommand = NoCommand
INVARIANTS CallsOncePerInput
CHECK_DEADLOCK FALSE
