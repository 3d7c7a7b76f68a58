---------------------------- MODULE RunContract ----------------------------
(***************************************************************************)
(* One run of a compiled flow, as the runtime host sees it.                *)
(*                                                                         *)
(* The host never looks inside the execution kernel (packages/core/src/    *)
(* runtime): it hands over a stored snapshot, receives the snapshot that   *)
(* follows, and decides what to schedule from the nodes that are ready,    *)
(* the state of each effect and the two flags.  This module is the set of  *)
(* snapshots that may follow.  Which nodes a finished node readies depends *)
(* on the plan and on data, so it is a choice here; module Kernel computes *)
(* it and is checked to stay within this contract.                         *)
(***************************************************************************)

EXTENDS Naturals

CONSTANTS
    Nodes,      \* the nodes of the compiled flow
    Entry,      \* plan.entryNodeId
    Kind        \* what a node may wait for: "cpu" (nothing), "call", "timer"

ASSUME NodesAssumption ==
    /\ Entry \in Nodes
    /\ Kind \in [Nodes -> {"cpu", "call", "timer"}]

NodeStates == {"idle", "ready", "waiting", "done"}

\* Who settled an effect is kept: a live answer and a fixture differ in the
\* response they carry, and the kernel compares responses.
Settlers == {"live", "fixture"}

EffStates == {"none", "requested", "dispatchStarted", "unknown"} \cup Settlers

\* A node has at most one effect: only `delay` and `effect` nodes wait, and
\* neither waits again when it is resumed.
Snapshots == [node : [Nodes -> NodeStates], eff : [Nodes -> EffStates],
              paused : BOOLEAN, cancelled : BOOLEAN]

StartSnap ==
    [node |-> [n \in Nodes |-> IF n = Entry THEN "ready" ELSE "idle"],
     eff |-> [n \in Nodes |-> "none"],
     paused |-> FALSE, cancelled |-> FALSE]

ReadyNodes(s) ==
    IF s.cancelled THEN {} ELSE {n \in Nodes : s.node[n] = "ready"}

Working(node) == \E n \in Nodes : node[n] \in {"ready", "waiting"}

\* isTerminalStatus of the derived status.
Terminal(s) == s.cancelled \/ \A n \in Nodes : s.node[n] = "done"

\* Node n has finished and the nodes that were idle have been looked at
\* again: each is still idle, is ready, or is over (skipped, or failed by its
\* upstream).  Nodes are left idle only behind a node that still works.
Settled(node, n) ==
    {nd \in [Nodes -> NodeStates] :
        /\ nd[n] = "done"
        /\ \A m \in Nodes \ {n} :
              IF node[m] = "idle" THEN nd[m] \in {"idle", "ready", "done"}
                                  ELSE nd[m] = node[m]
        /\ Working(nd) \/ \A m \in Nodes : nd[m] # "idle"}

Finished(s, n) == {[s EXCEPT !.node = nd] : nd \in Settled(s.node, n)}

Waited(s, n) ==
    {[s EXCEPT !.node[n] = "waiting", !.eff[n] = "requested"] :
        k \in {Kind[n]} \ {"cpu"}}

\* Mutant: a paused run is stepped.
StepOutcomesPaused(s) ==
    IF s.cancelled THEN {}
    ELSE IF ReadyNodes(s) = {} THEN {s}
    ELSE UNION {Finished(s, n) \cup Waited(s, n) : n \in ReadyNodes(s)}
\* The node at the head of the ready queue is evaluated; which one that is
\* follows from the plan's ranks.  A paused run and an empty queue leave the
\* snapshot as it is.  A cancelled run rejects the step: no snapshot follows.
StepOutcomes(s) ==
    IF s.cancelled THEN {}
    ELSE IF s.paused \/ ReadyNodes(s) = {} THEN {s}
    ELSE UNION {Finished(s, n) \cup Waited(s, n) : n \in ReadyNodes(s)}

PauseOutcomes(s) == {[s EXCEPT !.paused = TRUE]}

\* Mutant: a resume takes a cancel back.
ResumeOutcomesUncancel(s) == {[s EXCEPT !.paused = FALSE, !.cancelled = FALSE]}
ResumeOutcomes(s) == IF s.cancelled THEN {} ELSE {[s EXCEPT !.paused = FALSE]}

CancelOutcomes(s) == {[s EXCEPT !.cancelled = TRUE]}

DispatchOutcomes(s, n) ==
    CASE s.eff[n] = "none" -> {}
      [] s.eff[n] = "requested" -> {[s EXCEPT !.eff[n] = "dispatchStarted"]}
      [] OTHER -> {s}

\* Mutant: an answer is accepted after a cancel.
ResolveOutcomesLate(s, n, answer) ==
    IF s.eff[n] \in {"none"} \cup Settlers THEN {}
    ELSE {[s EXCEPT !.eff[n] = answer, !.node[n] = "done"]}
\* Mutant: the last answer wins.
ResolveOutcomesLast(s, n, answer) ==
    IF s.eff[n] = "none" THEN {}
    ELSE {[t EXCEPT !.eff[n] = answer] :
             t \in IF s.node[n] = "waiting" /\ answer # "unknown" THEN Finished(s, n) ELSE {s}}
\* An answer is "live", "fixture" or "unknown".  A settled effect accepts only
\* the response it has; after a cancel the answer is an event and no more.
ResolveOutcomes(s, n, answer) ==
    CASE s.eff[n] = "none" -> {}
      [] s.eff[n] \in Settlers -> IF answer = s.eff[n] THEN {s} ELSE {}
      [] s.eff[n] \notin Settlers \cup {"none"} /\ s.cancelled -> {s}
      [] s.eff[n] \notin Settlers \cup {"none"} /\ ~s.cancelled
           /\ answer = "unknown" -> {[s EXCEPT !.eff[n] = "unknown"]}
      [] OTHER ->
           {[t EXCEPT !.eff[n] = answer] :
               t \in IF s.node[n] = "waiting" THEN Finished(s, n) ELSE {s}}

\* Every snapshot one command may lead to.
Successors(s) ==
    StepOutcomes(s) \cup PauseOutcomes(s) \cup ResumeOutcomes(s) \cup CancelOutcomes(s)
      \cup (UNION {DispatchOutcomes(s, n) : n \in Nodes})
      \cup (UNION {ResolveOutcomes(s, e[1], e[2]) :
                     e \in Nodes \X (Settlers \cup {"unknown"})})

-----------------------------------------------------------------------------
(* Relations between snapshots, for the properties.                        *)

Rank(e) == CASE e = "none" -> 0 [] e = "requested" -> 1 [] e = "dispatchStarted" -> 2
             [] e = "unknown" -> 3 [] OTHER -> 4

\* No effect of t is behind what it is in s, and none is settled differently.
Forward(s, t) ==
    \A n \in Nodes : t.eff[n] = s.eff[n] \/ Rank(t.eff[n]) > Rank(s.eff[n])

\* A cancelled run is as it was, but for the pause flag.
Frozen(s, t) ==
    s.cancelled => t.cancelled /\ t.node = s.node /\ t.eff = s.eff
=============================================================================
