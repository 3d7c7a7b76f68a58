\* Every graph of four nodes with a call and a timer, under every command a host sends.
SPECIFICATION FairSpec
CONSTANTS
  Nodes = {1, 2, 3, 4}
  Entry = 1
  Kind <- Kinds
  Branches = {}
  Definitions <- Graphs4Up
  Controls = {"pause", "resume", "cancel"}
  MaxJoin = 2
PROPERTIES KeepsContract RunEnds
