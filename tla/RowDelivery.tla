---------------------------- MODULE RowDelivery ----------------------------
(***************************************************************************)
(* What the journal promises about the rows of a stream: they are recorded *)
(* one by one at home, delivered to the cloud in any order and once each,  *)
(* and settled at home, never to be sent again, only as far as everything  *)
(* up to there was delivered.                                              *)
(***************************************************************************)
EXTENDS Naturals

CONSTANT Streams

VARIABLES
    recorded,   \* number of rows recorded
    delivered,  \* rows the cloud has
    settled     \* rows that are not sent again

Init ==
    /\ recorded = [s \in Streams |-> 0]
    /\ delivered = [s \in Streams |-> {}]
    /\ settled = [s \in Streams |-> {}]

\* A transition is recorded in one stream or in several.
Record(some) ==
    /\ recorded' = [s \in Streams |-> IF s \in some THEN recorded[s] + 1 ELSE recorded[s]]
    /\ UNCHANGED <<delivered, settled>>

Deliver(s, i) ==
    /\ i \in 1..recorded[s] /\ i \notin delivered[s]
    /\ delivered' = [delivered EXCEPT ![s] = @ \cup {i}]
    /\ UNCHANGED <<recorded, settled>>

Settle(s, n) ==
    /\ 1..n \subseteq delivered[s]
    /\ settled' = [settled EXCEPT ![s] = @ \cup 1..n]
    /\ UNCHANGED <<recorded, delivered>>

Next ==
    \/ \E some \in SUBSET Streams : Record(some)
    \/ \E s \in Streams : \E n \in 1..recorded[s] : Deliver(s, n) \/ Settle(s, n)

Spec == Init /\ [][Next]_<<recorded, delivered, settled>>
=============================================================================
