--------------------------- MODULE MCCoordinator ---------------------------
(***************************************************************************)
(* Instances of Coordinator for TLC: two flows, up to three triggers, runs *)
(* of two or three nodes.                                                  *)
(***************************************************************************)
EXTENDS Coordinator

CONSTANTS f1, f2, t1, t2, t3, a, b, d

SameFlow == [t \in Triggers |-> f1]
TwoFlows == [t \in Triggers |-> IF t = t1 THEN f1 ELSE f2]

OwnKeys == [t \in Triggers |-> t]
\* t3 is sent again by a caller that got no answer for t1.
RetryKeys == [t \in Triggers |-> IF t = t3 THEN t1 ELSE t]

AllAuto == [t \in Triggers |-> "auto"]
FirstManual == [t \in Triggers |-> IF t = t1 THEN "manual" ELSE "auto"]

\* a is an HTTP call or service, b a delay, d pure computation.
Kinds == [n \in Nodes |-> CASE n = a -> "call" [] n = b -> "timer" [] OTHER -> "cpu"]

Symmetry == Permutations(Commands)
=============================================================================
