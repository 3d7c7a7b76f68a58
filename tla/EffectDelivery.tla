-------------------------- MODULE EffectDelivery --------------------------
(***************************************************************************)
(* What the host promises about an effect of a run: the outside world is   *)
(* asked at most once, only after the intent to ask has been stored; an    *)
(* effect whose answer got lost is not asked for again but stays lost until *)
(* somebody settles it; what is settled stays settled.                     *)
(***************************************************************************)
EXTENDS Naturals

CONSTANT Effects

VARIABLES
    phase,  \* where the stored effect is
    made    \* calls made for it

Init ==
    /\ phase = [e \in Effects |-> "absent"]
    /\ made = [e \in Effects |-> 0]

Ask(e) ==
    /\ phase[e] = "absent"
    /\ phase' = [phase EXCEPT ![e] = "asked"] /\ UNCHANGED made

Send(e) ==
    /\ phase[e] = "asked"
    /\ phase' = [phase EXCEPT ![e] = "sent"] /\ UNCHANGED made

Call(e) ==
    /\ phase[e] = "sent" /\ made[e] = 0
    /\ made' = [made EXCEPT ![e] = 1] /\ UNCHANGED phase

Lose(e) ==
    /\ phase[e] = "sent"
    /\ phase' = [phase EXCEPT ![e] = "lost"] /\ UNCHANGED made

\* A timer or a fixture settles an effect that was never sent.
Settle(e) ==
    /\ phase[e] \in {"asked", "sent", "lost"}
    /\ phase' = [phase EXCEPT ![e] = "settled"] /\ UNCHANGED made

Next == \E e \in Effects : Ask(e) \/ Send(e) \/ Call(e) \/ Lose(e) \/ Settle(e)

Spec == Init /\ [][Next]_<<phase, made>>
=============================================================================
