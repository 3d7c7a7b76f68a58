------------------------------- MODULE Kernel -------------------------------
(***************************************************************************)
(* The compiler and the kernel of packages/core: a definition is compiled  *)
(* into a plan; a run of the plan is a value that pure functions take from *)
(* snapshot to snapshot, one command at a time.                            *)
(*                                                                         *)
(* A node finishes, the edges of its ports are resolved, and the nodes     *)
(* that are still idle are looked at again until none of them changes.     *)
(* What a node computes is data: it succeeds or fails as it likes, and a   *)
(* condition takes either branch.                                          *)
(***************************************************************************)
EXTENDS Naturals, FiniteSets, Sequences, SequencesExt

CONSTANTS
    Nodes,          \* nodes, numbered by topoRank
    Entry,          \* entryNodeId
    Kind,           \* what a node waits for: "cpu" (nothing), "call", "timer"
    Branches,       \* the condition nodes
    Definitions,    \* the definitions handed to the compiler
    Controls        \* bound: the control commands users send

ASSUME KernelAssumption ==
    /\ Nodes \subseteq Nat \ {0} /\ IsFiniteSet(Nodes) /\ Entry \in Nodes
    /\ Kind \in [Nodes -> {"cpu", "call", "timer"}]
    /\ Branches \subseteq {n \in Nodes \ {Entry} : Kind[n] = "cpu"}
    /\ Kind[Entry] = "cpu"
    /\ Controls \subseteq {"pause", "resume", "cancel"}

VARIABLES
    plan,   \* the compiled definition the run was started with
    run     \* its ExecutionState

vars == <<plan, run>>

-----------------------------------------------------------------------------
(* Definitions and plans.                                                  *)

SuccessPorts(n) == IF n \in Branches THEN {"true", "false"} ELSE {"success"}
Edges == [from : Nodes, port : {"success", "true", "false", "error"}, to : Nodes]

\* keys is the order of the nodes in the definition.
ASSUME DefinitionsAssumption ==
    \A d \in Definitions :
        /\ d.edges \subseteq Edges
        /\ d.join \in [Nodes -> {"none", "all", "any"}]
        /\ d.keys \in [1..Cardinality(Nodes) -> Nodes]
        /\ \A n \in Nodes : \E i \in DOMAIN d.keys : d.keys[i] = n

\* An edge is named by its ends: a join input that is bound twice to one port is
\* left out.
Into(p, n) == {e \in p.edges : e.to = n}
OutOf(p, n, ports) == {e \in p.edges : e.from = n /\ e.port \in ports}

PortsExist(d) == \A e \in d.edges : e.port \in SuccessPorts(e.from) \cup {"error"}

\* With nodes numbered by their rank, a graph without cycles is one whose edges
\* go up, and a node is reached when edges lead to it.
GraphHolds(d) ==
    /\ \A e \in d.edges : e.from < e.to
    /\ \A n \in Nodes \ {Entry} : Into(d, n) # {}

JoinsHold(d) ==
    /\ Into(d, Entry) = {} /\ d.join[Entry] = "none"
    /\ \A n \in Nodes \ {Entry} : d.join[n] = "none" => Cardinality(Into(d, n)) = 1

Accepts(d) == PortsExist(d) /\ GraphHolds(d) /\ JoinsHold(d)

\* Mutant: the inputs of a join may all be referred to.
AvailabilityUnited(d) ==
    LET available[n \in Nodes] ==
          IF n = Entry THEN [success |-> {}, errors |-> {}]
          ELSE [success |-> UNION {available[e.from].success \cup {e.from} : e \in Into(d, n)},
                errors |-> {}]
    IN  available
\* computeAvailability: the nodes whose output, and whose error, a node may
\* refer to without a default.
Availability(d) ==
    LET available[n \in Nodes] ==
          LET before == {e.from : e \in Into(d, n)}
              onError == \E e \in Into(d, n) : e.port = "error"
          IN  CASE n = Entry -> [success |-> {}, errors |-> {}]
                [] n # Entry /\ d.join[n] # "none" ->
                     [success |-> {m \in Nodes : \A b \in before : m \in available[b].success},
                      errors |-> {}]
                [] OTHER ->
                     [success |-> (UNION {available[b].success : b \in before})
                                    \cup (IF onError THEN {} ELSE before),
                      errors |-> (UNION {available[b].errors : b \in before})
                                    \cup (IF onError THEN before ELSE {})]
    IN  available

Compile(d) == [edges |-> d.edges, join |-> d.join, keys |-> d.keys, available |-> Availability(d)]
Plans == {Compile(d) : d \in {c \in Definitions : Accepts(c)}}

-----------------------------------------------------------------------------
(* Snapshots.                                                              *)

NodeStatuses == {"idle", "ready", "waiting", "completed", "failed", "skipped"}
EdgeStatuses == {"pending", "taken", "skipped", "failed"}
Settlers == {"live", "fixture"}
EffectStatuses == {"none", "requested", "dispatchStarted", "unknown"} \cup Settlers
NoWinner == 0

\* startRun.
Started(p) ==
    [node |-> [n \in Nodes |-> IF n = Entry THEN "ready" ELSE "idle"],
     edge |-> [e \in p.edges |-> "pending"],
     readyQueue |-> {Entry},
     effect |-> [n \in Nodes |-> "none"],
     anyWinner |-> [n \in Nodes |-> NoWinner],
     outputs |-> {},        \* nodes that published their output
     errors |-> {},         \* nodes that published an error
     routed |-> {},         \* nodes with routedError
     paused |-> FALSE, cancelled |-> FALSE]

\* deriveStatus.
Unsettled == {"requested", "dispatchStarted", "unknown"}
Status(s) ==
    LET over == /\ \A n \in Nodes : s.node[n] \in {"completed", "failed", "skipped"}
                /\ \A e \in DOMAIN s.edge : s.edge[e] # "pending"
                /\ \A n \in Nodes : s.effect[n] \notin Unsettled
    IN  CASE s.cancelled -> "cancelled"
          [] ~s.cancelled /\ over ->
               IF \E n \in Nodes \ s.routed : s.node[n] = "failed" THEN "failed" ELSE "completed"
          [] ~s.cancelled /\ ~over /\ s.paused -> "paused"
          [] OTHER ->
               IF s.readyQueue = {} /\ \E n \in Nodes : s.effect[n] \in Unsettled
               THEN "waiting" ELSE "running"

-----------------------------------------------------------------------------
(* Propagation.                                                            *)

\* setEdgeStatus over a set of edges.
Resolve(s, edges, status) ==
    [s EXCEPT !.edge = [e \in DOMAIN @ |-> IF e \in edges THEN status ELSE @[e]]]

Pending(s, edges) == {e \in edges : s.edge[e] = "pending"}

\* inboundStatuses, as a set.
Inbound(p, s, n) == {s.edge[e] : e \in Into(p, n)}

\* Mutant: an ALL does not wait for its other inputs.
CanScheduleEarly(p, s, n) == "taken" \in Inbound(p, s, n)
CanSchedule(p, s, n) ==
    CASE p.join[n] = "none" -> Inbound(p, s, n) = {"taken"}
      [] p.join[n] = "all" -> "pending" \notin Inbound(p, s, n)
      [] p.join[n] = "any" ->
           "taken" \in Inbound(p, s, n) \/ "pending" \notin Inbound(p, s, n)

\* Mutant: one skipped input skips a join.
ShouldSkipAny(p, s, n) == "skipped" \in Inbound(p, s, n)
ShouldSkip(p, s, n) == Inbound(p, s, n) = {"skipped"}

ShouldFailUpstream(p, s, n) ==
    "failed" \in Inbound(p, s, n) /\ "pending" \notin Inbound(p, s, n)

\* Mutant: a skipped node leaves its edges pending.
SkipNodeAlone(p, s, n) == [s EXCEPT !.node[n] = "skipped"]
\* skipOutgoing.
SkipNode(p, s, n) ==
    Resolve([s EXCEPT !.node[n] = "skipped"],
            Pending(s, OutOf(p, n, SuccessPorts(n) \cup {"error"})), "skipped")

\* failOutgoing.
FailOutgoing(p, s, n) ==
    Resolve(Resolve(s, Pending(s, OutOf(p, n, SuccessPorts(n))), "failed"),
            Pending(s, OutOf(p, n, {"error"})), "skipped")

\* takeErrorRoute.
TakeErrorRoute(p, s, n) ==
    Resolve(Resolve(s, Pending(s, OutOf(p, n, SuccessPorts(n))), "skipped"),
            Pending(s, OutOf(p, n, {"error"})), "taken")

\* UPSTREAM_FAILED.
FailNode(p, s, n) ==
    LET failed == [s EXCEPT !.node[n] = "failed"]
    IN  IF OutOf(p, n, {"error"}) # {} THEN TakeErrorRoute(p, failed, n)
                                       ELSE FailOutgoing(p, failed, n)

\* selectAnyWinner: edges are ordered by their source, and a winner stays.
Winner(p, s, n) ==
    LET taken == {e.from : e \in {t \in Into(p, n) : s.edge[t] = "taken"}}
    IN  CASE s.anyWinner[n] # NoWinner -> s.anyWinner[n]
          [] s.anyWinner[n] = NoWinner /\ taken = {} -> NoWinner
          [] OTHER -> Min(taken)

Enqueue(s, n) == [s EXCEPT !.node[n] = "ready", !.readyQueue = @ \cup {n}]

Schedule(p, s, n) ==
    IF p.join[n] # "any" THEN Enqueue(s, n)
    ELSE IF Winner(p, s, n) = NoWinner THEN s
    ELSE Enqueue([s EXCEPT !.anyWinner[n] = Winner(p, s, n)], n)

\* Mutant: nodes that are not idle are looked at too.
VisitAgain(p, s, n) ==
    CASE ShouldSkip(p, s, n) -> SkipNode(p, s, n)
      [] ShouldFailUpstream(p, s, n) -> FailNode(p, s, n)
      [] OTHER -> IF CanSchedule(p, s, n) THEN Schedule(p, s, n) ELSE s
\* One turn of the loop of refreshIdleNodes.
Visit(p, s, n) ==
    CASE s.node[n] # "idle" -> s
      [] s.node[n] = "idle" /\ ShouldSkip(p, s, n) -> SkipNode(p, s, n)
      [] s.node[n] = "idle" /\ ShouldFailUpstream(p, s, n) -> FailNode(p, s, n)
      [] OTHER -> IF CanSchedule(p, s, n) THEN Schedule(p, s, n) ELSE s

\* One pass of it over the nodes.  A snapshot is bound by a set so that TLC
\* computes it once.
Pass(p, s) ==
    LET visited[i \in 0..Len(p.keys)] ==
          IF i = 0 THEN s
          ELSE CHOOSE t \in {Visit(p, u, p.keys[i]) : u \in {visited[i - 1]}} : TRUE
    IN  visited[Len(p.keys)]

\* Mutant: the idle nodes are looked at once.
RefreshOnce(p, s) == Pass(p, s)
\* refreshIdleNodes.  A pass that changes something takes a node out of
\* "idle", so that as many passes as there are nodes reach the fixpoint.
Refresh(p, s) ==
    LET passed[i \in 0..Len(p.keys)] ==
          IF i = 0 THEN s ELSE CHOOSE t \in {Pass(p, u) : u \in {passed[i - 1]}} : TRUE
    IN  passed[Len(p.keys)]

-----------------------------------------------------------------------------
(* The outcome of a node.                                                  *)

\* applyComplete: the node activated one of its ports.
Complete(p, s, n, port) ==
    LET done == [s EXCEPT !.node[n] = "completed", !.readyQueue = @ \ {n}, !.outputs = @ \cup {n}]
        taken == OutOf(p, n, {port})
        skipped == OutOf(p, n, SuccessPorts(n) \cup {"error"}) \ taken
    IN  Refresh(p, Resolve(Resolve(done, taken, "taken"), skipped, "skipped"))

\* Mutant: a failure is called routed whether it has a route or not.
FailMarked(p, s, n) ==
    Refresh(p, FailOutgoing(p, [s EXCEPT !.node[n] = "failed", !.readyQueue = @ \ {n},
                                         !.routed = @ \cup {n}], n))
\* applyFail.
Fail(p, s, n) ==
    LET failed == [s EXCEPT !.node[n] = "failed", !.readyQueue = @ \ {n}]
        route == OutOf(p, n, {"error"})
    IN  Refresh(p,
          IF route = {} THEN FailOutgoing(p, failed, n)
          ELSE Resolve(Resolve([failed EXCEPT !.routed = @ \cup {n}, !.errors = @ \cup {n}],
                               OutOf(p, n, SuccessPorts(n)), "skipped"),
                       route, "taken"))

\* Mutant: the node stays in the queue.
WaitQueued(s, n) == [s EXCEPT !.node[n] = "waiting", !.effect[n] = "requested"]
\* applyWait.
Wait(s, n) ==
    [s EXCEPT !.node[n] = "waiting", !.readyQueue = @ \ {n}, !.effect[n] = "requested"]

Ended(p, s, n) == {Fail(p, s, n)} \cup {Complete(p, s, n, port) : port \in SuccessPorts(n)}

-----------------------------------------------------------------------------
(* Commands.                                                               *)

\* stepRun: the node of the lowest rank is started.  The entry is a core.input,
\* which publishes the input of the run; definitions that bind it inputs, so that
\* it can do nothing but fail, are left out.
Step ==
    /\ ~run.cancelled
    /\ IF run.paused \/ run.readyQueue = {} THEN run' = run
       ELSE LET n == Min(run.readyQueue)
            IN  run' \in CASE n = Entry -> {Complete(plan, run, n, "success")}
                           [] n # Entry /\ Kind[n] = "cpu" -> Ended(plan, run, n)
                           [] OTHER -> {Fail(plan, run, n), Wait(run, n)}
    /\ UNCHANGED plan

Pause ==
    /\ "pause" \in Controls
    /\ run' = [run EXCEPT !.paused = TRUE]
    /\ UNCHANGED plan

Resume ==
    /\ "resume" \in Controls /\ ~run.cancelled
    /\ run' = [run EXCEPT !.paused = FALSE]
    /\ UNCHANGED plan

Cancel ==
    /\ "cancel" \in Controls
    /\ run' = [run EXCEPT !.cancelled = TRUE, !.readyQueue = {}]
    /\ UNCHANGED plan

\* applyDispatch.
DispatchStarted(n) ==
    /\ run.effect[n] # "none"
    /\ run' = IF run.effect[n] = "requested"
              THEN [run EXCEPT !.effect[n] = "dispatchStarted"] ELSE run
    /\ UNCHANGED plan

\* Mutant: an answer resumes its node also after a cancel.
SettleLate(n, answer) ==
    /\ run.effect[n] \in Unsettled
    /\ LET settled == [run EXCEPT !.effect[n] = answer]
       IN  run' \in IF run.node[n] = "waiting" THEN Ended(plan, settled, n) ELSE {settled}
    /\ UNCHANGED plan
\* applyResolved with a success or a failure.
Settle(n, answer) ==
    /\ run.effect[n] # "none"
    /\ run.effect[n] \in Settlers => run.effect[n] = answer
    /\ IF run.effect[n] \in Settlers \/ run.cancelled THEN run' = run
       ELSE LET settled == [run EXCEPT !.effect[n] = answer]
            IN  run' \in IF run.node[n] = "waiting" THEN Ended(plan, settled, n) ELSE {settled}
    /\ UNCHANGED plan

\* applyResolved with a result that is unknown.
LeaveUnknown(n) ==
    /\ run.effect[n] \in Unsettled
    /\ run' = IF run.cancelled THEN run ELSE [run EXCEPT !.effect[n] = "unknown"]
    /\ UNCHANGED plan

Init ==
    /\ plan \in Plans
    /\ run = Started(plan)

Next ==
    \/ Step \/ Pause \/ Resume \/ Cancel
    \/ \E n \in Nodes :
          \/ DispatchStarted(n) \/ LeaveUnknown(n)
          \/ \E answer \in Settlers : Settle(n, answer)

Spec == Init /\ [][Next]_vars

\* A driver steps the run until nothing is ready and its host brings the answers.
Fairness ==
    /\ WF_vars(Step)
    /\ \A n \in Nodes : WF_vars(\E answer \in Settlers : Settle(n, answer))

FairSpec == Spec /\ Fairness

-----------------------------------------------------------------------------
(* Properties.                                                             *)

TypeOK ==
    /\ plan \in Plans
    /\ run.node \in [Nodes -> NodeStatuses]
    /\ run.edge \in [plan.edges -> EdgeStatuses]
    /\ run.readyQueue = IF run.cancelled THEN {} ELSE {n \in Nodes : run.node[n] = "ready"}
    /\ run.effect \in [Nodes -> EffectStatuses]
    /\ run.anyWinner \in [Nodes -> Nodes \cup {NoWinner}]
    /\ run.outputs \subseteq Nodes /\ run.errors \subseteq Nodes /\ run.routed \subseteq Nodes
    /\ run.paused \in BOOLEAN /\ run.cancelled \in BOOLEAN

\* A run never sits there with nothing to wait for: while it is not over a node
\* is ready or an effect has no answer.  Nodes that wait for each other's edges
\* would be found by no test that does not draw their graph.
NoStall ==
    Status(run) \in {"running", "waiting", "paused"} =>
        \/ \E n \in Nodes : run.node[n] = "ready"
        \/ \E n \in Nodes : run.node[n] = "waiting" /\ run.effect[n] \in Unsettled

\* Started is what a node is that was taken from the queue or stands in it.
Began(n) ==
    \/ run.node[n] \in {"ready", "waiting", "completed"}
    \/ run.node[n] = "failed" /\ (n \in run.routed \/ run.effect[n] # "none")

\* A node is started on the paths that lead to it: a regular node when its edge
\* was taken, an ALL when every path has come to an end and none of them failed,
\* an ANY by the path that is its winner.
StartsOnPath ==
    \A n \in Nodes \ {Entry} : Began(n) =>
        LET in == Inbound(plan, run, n)
        IN  CASE plan.join[n] = "none" -> in = {"taken"}
              [] plan.join[n] = "all" -> "taken" \in in /\ in \subseteq {"taken", "skipped"}
              [] plan.join[n] = "any" ->
                   \E e \in Into(plan, n) : run.edge[e] = "taken" /\ run.anyWinner[n] = e.from

\* A node is skipped when, and as soon as, no path leads to it any more.
SkippedIffUnreached ==
    \A n \in Nodes \ {Entry} :
        run.node[n] = "skipped" <=> Inbound(plan, run, n) = {"skipped"}

\* A run is completed only when each failure in it was taken over by an error
\* route.
CompletedIsHandled ==
    Status(run) = "completed" =>
        \A n \in Nodes : run.node[n] = "failed" =>
            \E e \in OutOf(plan, n, {"error"}) : run.edge[e] = "taken"

\* Nodes are started, skipped and failed along the paths that were taken, and
\* the propagation never leaves a run with nothing to wait for.
PathsAreKept == NoStall /\ StartsOnPath /\ SkippedIffUnreached /\ CompletedIsHandled

\* The nodes failed because of a failure before them, and not by themselves.
FailedUpstream(n) == run.node[n] = "failed" /\ "failed" \in Inbound(plan, run, n)

\* What the compiler calls available has been published when a node becomes
\* ready, whatever branch, join or error route led there.  The error routes of
\* nodes that failed because of a failure before them are left out: see
\* ReferencesResolve.
Available(n) ==
    /\ plan.available[n].success \subseteq run.outputs
    /\ plan.available[n].errors \subseteq run.errors
ReferencesHold ==
    (\A n \in Nodes : FailedUpstream(n) => OutOf(plan, n, {"error"}) = {}) =>
        \A n \in Nodes : run.node[n] = "ready" => Available(n)

\* A resolved edge, the winner of an ANY, a published output and the end of a
\* node are final.
PastIsFinal ==
    [][/\ \A e \in plan.edges : run.edge[e] # "pending" => run'.edge[e] = run.edge[e]
       /\ \A n \in Nodes : run.anyWinner[n] # NoWinner => run'.anyWinner[n] = run.anyWinner[n]
       /\ \A n \in Nodes : run.node[n] \in {"completed", "failed", "skipped"} =>
              run'.node[n] = run.node[n]
       /\ run.outputs \subseteq run'.outputs]_vars

\* Every run ends when its effects are answered, unless its user pauses it
\* again and again.
RunEnds == <>(Status(run) \in {"completed", "failed", "cancelled"}) \/ []<>run.paused

\* The kernel implements the contract the host is built on.
Contract == INSTANCE RunSpec WITH
    snap <- [node |-> [n \in Nodes |-> IF run.node[n] \in {"completed", "failed", "skipped"}
                                       THEN "done" ELSE run.node[n]],
             eff |-> run.effect, paused |-> run.paused, cancelled |-> run.cancelled]

KeepsContract == Contract!Spec

-----------------------------------------------------------------------------
(* What the repository's documents say and the code does not keep: TLC     *)
(* refutes each of these over the graphs of MCKernel.                      *)

\* plan/core-plan.md:310: the first input of an ANY that is taken is its winner,
\* and the ANY runs once.
AnyFires ==
    \A n \in Nodes : plan.join[n] = "any" /\ ~run.cancelled =>
        ("taken" \in Inbound(plan, run, n) => run.anyWinner[n] # NoWinner)

\* plan/core-plan.md:311 and scheduler.ts: when a transition takes several edges
\* into an ANY, the order of the edges names the winner, and nothing else.
TiesFollowEdges ==
    [][\A n \in Nodes :
          plan.join[n] = "any" /\ run.anyWinner[n] = NoWinner /\ run'.anyWinner[n] # NoWinner =>
              run'.anyWinner[n] = Winner(plan, [run' EXCEPT !.anyWinner[n] = NoWinner], n)]_vars

\* plan/core-plan.md:214: an output or an error that a node may require is there
\* when the node can run.
ReferencesResolve == \A n \in Nodes : run.node[n] = "ready" => Available(n)
=============================================================================
