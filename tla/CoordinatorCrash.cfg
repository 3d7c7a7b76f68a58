\* Two automatic triggers of one flow, a crash, and a command of a user.
SPECIFICATION FairSpec
CONSTANTS
  f1 = f1  f2 = f2  t1 = t1  t2 = t2  t3 = t3  a = a  b = b  d = d
  Nodes = {a, b}
  Entry = b
  Kind <- Kinds
  Flows = {f1}
  Triggers = {t1, t2}
  Runs = {r1, r2, r3}
  Commands = {c1}
  FlowOf <- SameFlow
  KeyOf <- OwnKeys
  ModeOf <- AllAuto
  QueueLimit = 2
  MayExpire = {t2}
  Offered = {"resume", "pause", "cancel"}
  Awaited = {TRUE}
  MaxCommands = 1
  MaxCrashes = 1
  NoRun = NoRun
  NoCommand = NoCommand
INVARIANTS TypeOK HoldingUnique AtMostOneCall
PROPERTIES DeliversOnce NothingStands
CHECK_DEADLOCK FALSE
