---------------------------- MODULE FlowLease ----------------------------
(***************************************************************************)
(* What the host promises about the runs of a flow: the flow is held by at *)
(* most one of them, and a run that gave it up never has it again.         *)
(***************************************************************************)
CONSTANTS Flows, Runs, Nobody

VARIABLES
    holder,     \* the run that holds each flow
    retired     \* runs that gave their flow up

Init ==
    /\ holder = [f \in Flows |-> Nobody]
    /\ retired = {}

Acquire(f, r) ==
    /\ holder[f] = Nobody /\ r \notin retired
    /\ \A g \in Flows : holder[g] # r
    /\ holder' = [holder EXCEPT ![f] = r]
    /\ UNCHANGED retired

Release(f) ==
    /\ holder[f] # Nobody
    /\ holder' = [holder EXCEPT ![f] = Nobody]
    /\ retired' = retired \cup {holder[f]}

Next == \E f \in Flows : Release(f) \/ \E r \in Runs : Acquire(f, r)

Spec == Init /\ [][Next]_<<holder, retired>>
=============================================================================
