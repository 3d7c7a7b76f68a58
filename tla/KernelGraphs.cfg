\* Every graph of four nodes with a call and a condition, joins of up to three inputs.
SPECIFICATION Spec
CONSTANTS
  Nodes = {1, 2, 3, 4}
  Entry = 1
  Kind <- CallKinds
  Branches = {3}
  Definitions <- Graphs4
  Controls = {}
  MaxJoin = 3
INVARIANTS TypeOK PathsAreKept ReferencesHold
PROPERTIES PastIsFinal
