------------------------------ MODULE RunSpec ------------------------------
(***************************************************************************)
(* A run as its host sees it: the snapshot that starts it and, at each     *)
(* command, one of the snapshots RunContract allows.  Module Coordinator   *)
(* is built on this contract; module Kernel implements it.                 *)
(***************************************************************************)
EXTENDS RunContract

VARIABLE snap

Init == snap = StartSnap
Next == snap' \in Successors(snap)
Spec == Init /\ [][Next]_snap
=============================================================================
