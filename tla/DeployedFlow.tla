---------------------------- MODULE DeployedFlow ----------------------------
(***************************************************************************)
(* What the runtime promises about a flow that is deployed again and again *)
(* while runs of it are under way.  A deployment takes effect at once and  *)
(* only if it is newer than all before it.  Analysis state is a set for    *)
(* each revision and epoch: the run that holds the flow adds itself, at    *)
(* one instant, to the set it began with, and nothing else is touched.     *)
(***************************************************************************)
EXTENDS Integers

CONSTANT Revisions

VARIABLES
    setting,    \* what the flow is at: generation, whether on, revision, epoch
    holders,    \* the run that holds the flow, if there is one
    last,       \* number of the run that began last
    memory      \* who has added to which set

Epochs   == Nat \ {0}
Settings == [generation : Nat, on : BOOLEAN, revision : Revisions, epoch : Epochs]

Init ==
    /\ setting \in [generation : {0}, on : {FALSE}, revision : Revisions, epoch : {1}]
    /\ holders = {}
    /\ last = 0
    /\ memory = {}

\* An epoch that goes on is that of the same revision.
TurnOn ==
    /\ setting'.on
    /\ setting.on /\ setting'.epoch = setting.epoch => setting'.revision = setting.revision

TurnOff == ~setting'.on /\ setting'.revision = setting.revision /\ setting'.epoch = 1

Adopt ==
    /\ setting' \in Settings
    /\ setting'.generation > setting.generation
    /\ TurnOn \/ TurnOff
    /\ UNCHANGED <<holders, last, memory>>

Begin(r) ==
    /\ holders = {}
    /\ last' = last + 1
    /\ holders' = {[id |-> last', revision |-> r, epoch |-> setting.epoch, added |-> FALSE]}
    /\ UNCHANGED <<setting, memory>>

Add(h) ==
    /\ ~h.added
    /\ holders' = {[h EXCEPT !.added = TRUE]}
    /\ memory' = memory \cup {[run |-> h.id, revision |-> h.revision, epoch |-> h.epoch]}
    /\ UNCHANGED <<setting, last>>

End ==
    /\ holders # {} /\ holders' = {}
    /\ UNCHANGED <<setting, last, memory>>

Next == Adopt \/ End \/ (\E h \in holders : Add(h)) \/ \E r \in Revisions : Begin(r)

Spec == Init /\ [][Next]_<<setting, holders, last, memory>>
=============================================================================
