---------------------------- MODULE Kernel_proofs ----------------------------
(***************************************************************************)
(* For every set of definitions the compiler accepts: a run never stalls,  *)
(* nodes start on the paths that lead to them, and the past is final.      *)
(*                                                                         *)
(* The invariant says of a snapshot what each node's edges are by what the *)
(* node is (EdgesFollow), what its inputs were when it was started,        *)
(* skipped or failed (PathsFollow), what it published and awaits, and that *)
(* no idle node is left that propagation would still move (Fixed).  The    *)
(* passes of refreshIdleNodes keep the first parts and reach the last one  *)
(* because each of them that changes anything takes a node out of idle.    *)
(***************************************************************************)
EXTENDS Kernel, SequenceLemmas

\* A node that is over, and one that was not taken from the queue.
Over == {"completed", "failed", "skipped"}

Route(p, n) == OutOf(p, n, {"error"})

\* What the edges of a node are, by what the node is.
Outcomes(p, status, e) ==
    CASE status = "skipped" -> {"skipped"}
      [] status = "completed" -> IF e.port = "error" THEN {"skipped"} ELSE {"taken", "skipped"}
      [] status = "failed" -> IF Route(p, e.from) = {} THEN {"failed"}
                              ELSE IF e.port = "error" THEN {"taken"} ELSE {"skipped"}
      [] OTHER -> {"pending"}

\* A path leads to a node.
OnPath(p, s, n) ==
    LET in == Inbound(p, s, n)
    IN  CASE p.join[n] = "none" -> in = {"taken"}
          [] p.join[n] = "all" -> "taken" \in in /\ in \subseteq {"taken", "skipped"}
          [] p.join[n] = "any" ->
               \E e \in Into(p, n) : s.edge[e] = "taken" /\ s.anyWinner[n] = e.from

SkippedIn(p, s, n) == Inbound(p, s, n) = {"skipped"}
FailedIn(p, s, n) == "failed" \in Inbound(p, s, n) /\ "pending" \notin Inbound(p, s, n)

Snapshot(p) ==
    [node : [Nodes -> NodeStatuses], edge : [p.edges -> EdgeStatuses],
     readyQueue : SUBSET Nodes, effect : [Nodes -> EffectStatuses],
     anyWinner : [Nodes -> Nodes \cup {NoWinner}],
     outputs : SUBSET Nodes, errors : SUBSET Nodes, routed : SUBSET Nodes,
     paused : BOOLEAN, cancelled : BOOLEAN]

QueueHolds(s) ==
    s.readyQueue = IF s.cancelled THEN {} ELSE {n \in Nodes : s.node[n] = "ready"}

EdgesFollow(p, s) == \A e \in p.edges : s.edge[e] \in Outcomes(p, s.node[e.from], e)

\* What the paths into a node are, by what the node is.
PathFollows(p, s, n) ==
    \/ s.node[n] = "idle"
    \/ s.node[n] = "skipped" /\ SkippedIn(p, s, n)
    \/ s.node[n] = "failed" /\ FailedIn(p, s, n) /\ s.effect[n] = "none" /\ n \notin s.routed
    \/ s.node[n] \in {"ready", "waiting", "completed", "failed"} /\ OnPath(p, s, n)

PathsFollow(p, s) ==
    /\ s.node[Entry] \in {"ready", "completed"}
    /\ \A n \in Nodes \ {Entry} : PathFollows(p, s, n)

\* What a node has published.
NodePublished(p, s, n) ==
    /\ n \in s.outputs <=> s.node[n] = "completed"
    /\ n \in s.routed => n \in s.errors /\ s.node[n] = "failed" /\ Route(p, n) # {}
    /\ s.node[n] = "failed" /\ Route(p, n) # {} => n \in s.routed \/ FailedIn(p, s, n)

Published(p, s) == \A n \in Nodes : NodePublished(p, s, n)

\* What a node waits for, and what it has before it is started.
EffectFollows(s, n) ==
    /\ s.node[n] = "waiting" <=> s.effect[n] \in Unsettled
    /\ s.node[n] \in {"idle", "ready"} => s.effect[n] = "none"
    /\ s.node[n] = "idle" => s.anyWinner[n] = NoWinner

EffectsFollow(s) == \A n \in Nodes : EffectFollows(s, n)

Sound(p, s) ==
    /\ s \in Snapshot(p) /\ QueueHolds(s) /\ EdgesFollow(p, s) /\ PathsFollow(p, s)
    /\ Published(p, s) /\ EffectsFollow(s)

\* No idle node would be skipped, failed or scheduled.
Quiet(p, s, n) ==
    s.node[n] = "idle" =>
        ~ShouldSkip(p, s, n) /\ ~ShouldFailUpstream(p, s, n) /\ ~CanSchedule(p, s, n)
Fixed(p, s) == \A n \in Nodes : Quiet(p, s, n)

-----------------------------------------------------------------------------
(* What the compiler accepts.                                              *)

\* The facts of a plan the proofs use.
PlanHolds(p) ==
    /\ p.edges \subseteq Edges
    /\ p.join \in [Nodes -> {"none", "all", "any"}]
    /\ p.keys \in [1..Cardinality(Nodes) -> Nodes]
    /\ \A n \in Nodes : \E i \in DOMAIN p.keys : p.keys[i] = n
    /\ \A e \in p.edges : e.port \in SuccessPorts(e.from) \cup {"error"} /\ e.from < e.to
    /\ Into(p, Entry) = {} /\ p.join[Entry] = "none"
    /\ \A n \in Nodes \ {Entry} : Into(p, n) # {}
    /\ \A n \in Nodes \ {Entry} : p.join[n] = "none" => \E e : Into(p, n) = {e}

LEMMA EdgesFinite == IsFiniteSet(Edges)
<1> DEFINE P == {"success", "true", "false", "error"}
           T == Nodes \X (P \X Nodes)
           f == [e \in Edges |-> <<e.from, <<e.port, e.to>>>>]
<1>1. IsFiniteSet(P)
  <2>1. IsFiniteSet({} \cup {"success"})
    BY FS_EmptySet, FS_AddElement
  <2>2. IsFiniteSet(({} \cup {"success"}) \cup {"true"})
    BY <2>1, FS_AddElement
  <2>3. IsFiniteSet((({} \cup {"success"}) \cup {"true"}) \cup {"false"})
    BY <2>2, FS_AddElement
  <2>4. IsFiniteSet(((({} \cup {"success"}) \cup {"true"}) \cup {"false"}) \cup {"error"})
    BY <2>3, FS_AddElement
  <2>5. P = ((({} \cup {"success"}) \cup {"true"}) \cup {"false"}) \cup {"error"}
    OBVIOUS
  <2> QED BY <2>4, <2>5
<1>2. IsFiniteSet(P \X Nodes)
  BY <1>1, KernelAssumption, FS_Product
<1>3. IsFiniteSet(T)
  BY <1>2, KernelAssumption, FS_Product
<1>4. f \in [Edges -> T]
  BY DEF Edges
<1>5. \A a, b \in Edges : f[a] = f[b] => a = b
  BY DEF Edges
<1>6. f \in Injection(Edges, T)
  BY <1>4, <1>5 DEF Injection, IsInjective
<1> QED BY <1>3, <1>6, FS_Injection

\* A plan is a definition that passed the compiler's checks.
LEMMA PlanFacts == ASSUME NEW p \in Plans PROVE PlanHolds(p)
<1>1. PICK d \in Definitions : Accepts(d) /\ p = Compile(d)
  BY DEF Plans
<1>2. p.edges = d.edges /\ p.join = d.join /\ p.keys = d.keys
  BY <1>1 DEF Compile
<1>3. \A n \in Nodes : Into(p, n) = Into(d, n)
  BY <1>2 DEF Into
<1>4. /\ d.edges \subseteq Edges
      /\ d.join \in [Nodes -> {"none", "all", "any"}]
      /\ d.keys \in [1..Cardinality(Nodes) -> Nodes]
      /\ \A n \in Nodes : \E i \in DOMAIN d.keys : d.keys[i] = n
  BY DefinitionsAssumption
<1>5. /\ \A e \in p.edges : e.port \in SuccessPorts(e.from) \cup {"error"} /\ e.from < e.to
      /\ Into(p, Entry) = {} /\ p.join[Entry] = "none"
      /\ \A n \in Nodes \ {Entry} : Into(p, n) # {}
  BY <1>1, <1>2, <1>3, KernelAssumption DEF Accepts, PortsExist, GraphHolds, JoinsHold
<1>6. ASSUME NEW n \in Nodes \ {Entry}, p.join[n] = "none" PROVE \E e : Into(p, n) = {e}
  <2>1. Cardinality(Into(p, n)) = 1
    BY <1>1, <1>2, <1>3, <1>6 DEF Accepts, JoinsHold
  <2>2. Into(p, n) \in SUBSET Edges
    BY <1>2, <1>4 DEF Into
  <2>3. IsFiniteSet(Into(p, n))
    BY <2>2, EdgesFinite, FS_Subset
  <2> QED BY <2>1, <2>3, FS_Singleton
<1> QED BY <1>2, <1>4, <1>5, <1>6 DEF PlanHolds
-----------------------------------------------------------------------------
(* What the steps of propagation do to a snapshot.                         *)

\* The fields of a snapshot beside its nodes, its edges and its winners.
Rest(s, t) ==
    /\ t.effect = s.effect /\ t.paused = s.paused /\ t.cancelled = s.cancelled
    /\ t.outputs = s.outputs

LEMMA SnapshotFields ==
  ASSUME NEW p, NEW s \in Snapshot(p)
  PROVE  /\ s.node \in [Nodes -> NodeStatuses] /\ s.edge \in [p.edges -> EdgeStatuses]
         /\ s.readyQueue \in SUBSET Nodes /\ s.effect \in [Nodes -> EffectStatuses]
         /\ s.anyWinner \in [Nodes -> Nodes \cup {NoWinner}]
         /\ s.outputs \in SUBSET Nodes /\ s.errors \in SUBSET Nodes /\ s.routed \in SUBSET Nodes
         /\ s.paused \in BOOLEAN /\ s.cancelled \in BOOLEAN
         /\ DOMAIN s.edge = p.edges /\ DOMAIN s.node = Nodes
BY DEF Snapshot

LEMMA ResolveFields ==
  ASSUME NEW p, NEW s \in Snapshot(p), NEW edges, NEW status \in EdgeStatuses,
         NEW t, t = Resolve(s, edges, status)
  PROVE  /\ t \in Snapshot(p)
         /\ \A e \in p.edges : t.edge[e] = IF e \in edges THEN status ELSE s.edge[e]
         /\ t.node = s.node /\ t.readyQueue = s.readyQueue /\ t.anyWinner = s.anyWinner
         /\ t.errors = s.errors /\ t.routed = s.routed /\ Rest(s, t)
<1> DEFINE after == [e \in DOMAIN s.edge |-> IF e \in edges THEN status ELSE s.edge[e]]
<1>1. t = [s EXCEPT !.edge = after]
  BY DEF Resolve
<1>2. after \in [p.edges -> EdgeStatuses] /\ \A e \in p.edges :
         after[e] = IF e \in edges THEN status ELSE s.edge[e]
  BY SnapshotFields
<1> HIDE DEF after
<1> QED BY <1>1, <1>2 DEF Snapshot, Rest

\* A node that is not over has only pending edges.
LEMMA OpenPending ==
  ASSUME NEW p, NEW s, EdgesFollow(p, s), NEW n \in Nodes, s.node[n] \notin Over
  PROVE  \A e \in p.edges : e.from = n => s.edge[e] = "pending"
BY DEF EdgesFollow, Outcomes, Over

\* An edge leaves its node by one of its ports.
LEMMA PortEdges ==
  ASSUME NEW p, PlanHolds(p), NEW n \in Nodes
  PROVE  \A e \in p.edges :
           /\ e \in OutOf(p, n, SuccessPorts(n) \cup {"error"}) <=> e.from = n
           /\ e \in OutOf(p, n, SuccessPorts(n)) <=> e.from = n /\ e.port # "error"
           /\ e \in Route(p, n) <=> e.from = n /\ e.port = "error"
<1> TAKE e \in p.edges
<1>1. e.from = n => e.port \in SuccessPorts(n) \cup {"error"}
  BY DEF PlanHolds
<1>2. "error" \notin SuccessPorts(n)
  BY DEF SuccessPorts
<1> QED BY <1>1, <1>2 DEF OutOf, Route

LEMMA SkipFields ==
  ASSUME NEW p, PlanHolds(p), NEW s \in Snapshot(p), EdgesFollow(p, s),
         NEW n \in Nodes, s.node[n] \notin Over, NEW t, t = SkipNode(p, s, n)
  PROVE  /\ t \in Snapshot(p)
         /\ t.node = [s.node EXCEPT ![n] = "skipped"]
         /\ \A e \in p.edges : t.edge[e] = IF e.from = n THEN "skipped" ELSE s.edge[e]
         /\ t.readyQueue = s.readyQueue /\ t.anyWinner = s.anyWinner
         /\ t.errors = s.errors /\ t.routed = s.routed /\ Rest(s, t)
<1> DEFINE u == [s EXCEPT !.node[n] = "skipped"]
<1>1. /\ u \in Snapshot(p) /\ u.node = [s.node EXCEPT ![n] = "skipped"] /\ u.edge = s.edge
      /\ u.readyQueue = s.readyQueue /\ u.anyWinner = s.anyWinner
      /\ u.errors = s.errors /\ u.routed = s.routed /\ Rest(s, u)
  BY DEF Snapshot, NodeStatuses, Rest
<1> DEFINE E == Pending(s, OutOf(p, n, SuccessPorts(n) \cup {"error"}))
<1>2. t = Resolve(u, E, "skipped")
  BY DEF SkipNode
<1>3. \A e \in p.edges : e \in E <=> e.from = n
  <2>1. \A e \in p.edges : e.from = n => s.edge[e] = "pending"
    BY OpenPending
  <2>2. \A e \in p.edges : e \in OutOf(p, n, SuccessPorts(n) \cup {"error"}) <=> e.from = n
    BY PortEdges
  <2> QED BY <2>1, <2>2 DEF Pending
<1>4. "skipped" \in EdgeStatuses
  BY DEF EdgeStatuses
<1> HIDE DEF u, E
<1>5. /\ t \in Snapshot(p)
      /\ \A e \in p.edges : t.edge[e] = IF e \in E THEN "skipped" ELSE u.edge[e]
      /\ t.node = u.node /\ t.readyQueue = u.readyQueue /\ t.anyWinner = u.anyWinner
      /\ t.errors = u.errors /\ t.routed = u.routed /\ Rest(u, t)
  BY <1>1, <1>2, <1>4, ResolveFields
<1> QED BY <1>1, <1>3, <1>5 DEF Rest

\* The edges of a node that failed: to its error route, or failed themselves.
FailedEdge(p, e) ==
    IF Route(p, e.from) = {} THEN "failed" ELSE IF e.port = "error" THEN "taken" ELSE "skipped"

LEMMA FailOutgoingFields ==
  ASSUME NEW p, PlanHolds(p), NEW s \in Snapshot(p), NEW n \in Nodes,
         \A e \in p.edges : e.from = n => s.edge[e] = "pending",
         Route(p, n) = {}, NEW t, t = FailOutgoing(p, s, n)
  PROVE  /\ t \in Snapshot(p)
         /\ \A e \in p.edges : t.edge[e] = IF e.from = n THEN FailedEdge(p, e) ELSE s.edge[e]
         /\ t.node = s.node /\ t.readyQueue = s.readyQueue /\ t.anyWinner = s.anyWinner
         /\ t.errors = s.errors /\ t.routed = s.routed /\ Rest(s, t)
<1> DEFINE E == Pending(s, OutOf(p, n, SuccessPorts(n)))
           R == Pending(s, OutOf(p, n, {"error"}))
           u == Resolve(s, E, "failed")
<1>1. "failed" \in EdgeStatuses /\ "skipped" \in EdgeStatuses
  BY DEF EdgeStatuses
<1>2. \A e \in p.edges : e \in E <=> e.from = n
  <2> TAKE e \in p.edges
  <2>1. e.from = n => e.port \in SuccessPorts(n) \cup {"error"}
    BY DEF PlanHolds
  <2>2. ~ (e.from = n /\ e.port = "error")
    BY DEF Route, OutOf
  <2> QED BY <2>1, <2>2 DEF Pending, OutOf
<1>3. R = {}
  BY DEF Route, Pending
<1>4. /\ u \in Snapshot(p)
      /\ \A e \in p.edges : u.edge[e] = IF e \in E THEN "failed" ELSE s.edge[e]
      /\ u.node = s.node /\ u.readyQueue = s.readyQueue /\ u.anyWinner = s.anyWinner
      /\ u.errors = s.errors /\ u.routed = s.routed /\ Rest(s, u)
  BY <1>1, ResolveFields
<1>5. t = Resolve(u, R, "skipped")
  BY DEF FailOutgoing
<1> HIDE DEF E, R, u
<1>6. /\ t \in Snapshot(p)
      /\ \A e \in p.edges : t.edge[e] = IF e \in R THEN "skipped" ELSE u.edge[e]
      /\ t.node = u.node /\ t.readyQueue = u.readyQueue /\ t.anyWinner = u.anyWinner
      /\ t.errors = u.errors /\ t.routed = u.routed /\ Rest(u, t)
  BY <1>1, <1>4, <1>5, ResolveFields
<1>7. \A e \in p.edges : t.edge[e] = IF e.from = n THEN FailedEdge(p, e) ELSE s.edge[e]
  BY <1>2, <1>3, <1>4, <1>6 DEF FailedEdge
<1> QED BY <1>4, <1>6, <1>7 DEF Rest

\* The edges of a node that failed and has an error route.
LEMMA RoutedFields ==
  ASSUME NEW p, PlanHolds(p), NEW s \in Snapshot(p), NEW n \in Nodes,
         \A e \in p.edges : e.from = n => s.edge[e] = "pending",
         Route(p, n) # {}, NEW E, NEW R,
         \A e \in p.edges : e \in E <=> e.from = n /\ e.port # "error",
         \A e \in p.edges : e \in R <=> e.from = n /\ e.port = "error",
         NEW t, t = Resolve(Resolve(s, E, "skipped"), R, "taken")
  PROVE  /\ t \in Snapshot(p)
         /\ \A e \in p.edges : t.edge[e] = IF e.from = n THEN FailedEdge(p, e) ELSE s.edge[e]
         /\ t.node = s.node /\ t.readyQueue = s.readyQueue /\ t.anyWinner = s.anyWinner
         /\ t.errors = s.errors /\ t.routed = s.routed /\ Rest(s, t)
<1> DEFINE u == Resolve(s, E, "skipped")
<1>1. "taken" \in EdgeStatuses /\ "skipped" \in EdgeStatuses
  BY DEF EdgeStatuses
<1>2. /\ u \in Snapshot(p)
      /\ \A e \in p.edges : u.edge[e] = IF e \in E THEN "skipped" ELSE s.edge[e]
      /\ u.node = s.node /\ u.readyQueue = s.readyQueue /\ u.anyWinner = s.anyWinner
      /\ u.errors = s.errors /\ u.routed = s.routed /\ Rest(s, u)
  BY <1>1, ResolveFields
<1>3. t = Resolve(u, R, "taken")
  OBVIOUS
<1> HIDE DEF u
<1>4. /\ t \in Snapshot(p)
      /\ \A e \in p.edges : t.edge[e] = IF e \in R THEN "taken" ELSE u.edge[e]
      /\ t.node = u.node /\ t.readyQueue = u.readyQueue /\ t.anyWinner = u.anyWinner
      /\ t.errors = u.errors /\ t.routed = u.routed /\ Rest(u, t)
  BY <1>1, <1>2, <1>3, ResolveFields
<1>5. \A e \in p.edges : t.edge[e] = IF e.from = n THEN FailedEdge(p, e) ELSE s.edge[e]
  BY <1>2, <1>4 DEF FailedEdge
<1> QED BY <1>2, <1>4, <1>5 DEF Rest

LEMMA FailNodeFields ==
  ASSUME NEW p, PlanHolds(p), NEW s \in Snapshot(p), EdgesFollow(p, s),
         NEW n \in Nodes, s.node[n] \notin Over, NEW t, t = FailNode(p, s, n)
  PROVE  /\ t \in Snapshot(p)
         /\ t.node = [s.node EXCEPT ![n] = "failed"]
         /\ \A e \in p.edges : t.edge[e] = IF e.from = n THEN FailedEdge(p, e) ELSE s.edge[e]
         /\ t.readyQueue = s.readyQueue /\ t.anyWinner = s.anyWinner
         /\ t.errors = s.errors /\ t.routed = s.routed /\ Rest(s, t)
<1>1. PICK u : u = [s EXCEPT !.node[n] = "failed"]
  OBVIOUS
<1>2. /\ u \in Snapshot(p) /\ u.node = [s.node EXCEPT ![n] = "failed"] /\ u.edge = s.edge
      /\ u.readyQueue = s.readyQueue /\ u.anyWinner = s.anyWinner
      /\ u.errors = s.errors /\ u.routed = s.routed /\ Rest(s, u)
  BY <1>1 DEF Snapshot, NodeStatuses, Rest
<1>3. \A e \in p.edges : e.from = n => u.edge[e] = "pending"
  <2>1. \A e \in p.edges : e.from = n => s.edge[e] = "pending"
    BY OpenPending
  <2> QED BY <1>2, <2>1
<1>4. CASE Route(p, n) = {}
  <2>1. t = FailOutgoing(p, u, n)
    BY <1>1, <1>4 DEF FailNode, Route
  <2>2. /\ t \in Snapshot(p)
        /\ \A e \in p.edges : t.edge[e] = IF e.from = n THEN FailedEdge(p, e) ELSE u.edge[e]
        /\ t.node = u.node /\ t.readyQueue = u.readyQueue /\ t.anyWinner = u.anyWinner
        /\ t.errors = u.errors /\ t.routed = u.routed /\ Rest(u, t)
    BY <1>2, <1>3, <1>4, <2>1, FailOutgoingFields
  <2> QED BY <1>2, <2>2 DEF Rest
<1>5. CASE Route(p, n) # {}
  <2>1. PICK E, R : /\ E = Pending(u, OutOf(p, n, SuccessPorts(n)))
                    /\ R = Pending(u, OutOf(p, n, {"error"}))
    OBVIOUS
  <2>2. t = Resolve(Resolve(u, E, "skipped"), R, "taken")
    BY <1>1, <1>5, <2>1 DEF FailNode, Route, TakeErrorRoute
  <2>3. /\ \A e \in p.edges : e \in E <=> e.from = n /\ e.port # "error"
        /\ \A e \in p.edges : e \in R <=> e.from = n /\ e.port = "error"
    <3>1. \A e \in p.edges :
            /\ e \in OutOf(p, n, SuccessPorts(n)) <=> e.from = n /\ e.port # "error"
            /\ e \in Route(p, n) <=> e.from = n /\ e.port = "error"
      BY PortEdges
    <3>2. \A e \in p.edges : e.from = n => u.edge[e] = "pending"
      BY <1>3
    <3> QED BY <2>1, <3>1, <3>2 DEF Pending, Route
  <2>4. /\ t \in Snapshot(p)
        /\ \A e \in p.edges : t.edge[e] = IF e.from = n THEN FailedEdge(p, e) ELSE u.edge[e]
        /\ t.node = u.node /\ t.readyQueue = u.readyQueue /\ t.anyWinner = u.anyWinner
        /\ t.errors = u.errors /\ t.routed = u.routed /\ Rest(u, t)
    BY <1>2, <1>3, <1>5, <2>2, <2>3, RoutedFields
  <2> QED BY <1>2, <2>4 DEF Rest
<1> QED BY <1>4, <1>5

\* applyFail before the idle nodes are looked at again.
FailedState(p, s, n) ==
    LET failed == [s EXCEPT !.node[n] = "failed", !.readyQueue = @ \ {n}]
        route == OutOf(p, n, {"error"})
    IN  IF route = {} THEN FailOutgoing(p, failed, n)
        ELSE Resolve(Resolve([failed EXCEPT !.routed = @ \cup {n}, !.errors = @ \cup {n}],
                             OutOf(p, n, SuccessPorts(n)), "skipped"),
                     route, "taken")

LEMMA FailedStateFields ==
  ASSUME NEW p, PlanHolds(p), NEW s \in Snapshot(p), EdgesFollow(p, s),
         NEW n \in Nodes, s.node[n] \notin Over, NEW t, t = FailedState(p, s, n)
  PROVE  /\ t \in Snapshot(p)
         /\ t.node = [s.node EXCEPT ![n] = "failed"]
         /\ \A e \in p.edges : t.edge[e] = IF e.from = n THEN FailedEdge(p, e) ELSE s.edge[e]
         /\ t.readyQueue = s.readyQueue \ {n} /\ t.anyWinner = s.anyWinner /\ Rest(s, t)
         /\ Route(p, n) = {} => t.errors = s.errors /\ t.routed = s.routed
         /\ Route(p, n) # {} => t.errors = s.errors \cup {n} /\ t.routed = s.routed \cup {n}
<1>1. PICK u : u = [s EXCEPT !.node[n] = "failed", !.readyQueue = @ \ {n}]
  OBVIOUS
<1>2. /\ u \in Snapshot(p) /\ u.node = [s.node EXCEPT ![n] = "failed"] /\ u.edge = s.edge
      /\ u.readyQueue = s.readyQueue \ {n} /\ u.anyWinner = s.anyWinner
      /\ u.errors = s.errors /\ u.routed = s.routed /\ Rest(s, u)
  BY <1>1 DEF Snapshot, NodeStatuses, Rest
<1>3. \A e \in p.edges : e.from = n => u.edge[e] = "pending"
  <2>1. \A e \in p.edges : e.from = n => s.edge[e] = "pending"
    BY OpenPending
  <2> QED BY <1>2, <2>1
<1>4. CASE Route(p, n) = {}
  <2>1. t = FailOutgoing(p, u, n)
    BY <1>1, <1>4 DEF FailedState, Route
  <2>2. /\ t \in Snapshot(p)
        /\ \A e \in p.edges : t.edge[e] = IF e.from = n THEN FailedEdge(p, e) ELSE u.edge[e]
        /\ t.node = u.node /\ t.readyQueue = u.readyQueue /\ t.anyWinner = u.anyWinner
        /\ t.errors = u.errors /\ t.routed = u.routed /\ Rest(u, t)
    BY <1>2, <1>3, <1>4, <2>1, FailOutgoingFields
  <2> QED BY <1>2, <1>4, <2>2 DEF Rest
<1>5. CASE Route(p, n) # {}
  <2>1. PICK E, R, v : /\ E = OutOf(p, n, SuccessPorts(n)) /\ R = OutOf(p, n, {"error"})
                       /\ v = [u EXCEPT !.routed = @ \cup {n}, !.errors = @ \cup {n}]
    OBVIOUS
  <2>2. t = Resolve(Resolve(v, E, "skipped"), R, "taken")
    BY <1>1, <1>5, <2>1 DEF FailedState, Route
  <2>3. /\ \A e \in p.edges : e \in E <=> e.from = n /\ e.port # "error"
        /\ \A e \in p.edges : e \in R <=> e.from = n /\ e.port = "error"
    <3> SUFFICES ASSUME NEW e \in p.edges
                 PROVE  /\ e \in E <=> e.from = n /\ e.port # "error"
                        /\ e \in R <=> e.from = n /\ e.port = "error"
      OBVIOUS
    <3>1. /\ e \in OutOf(p, n, SuccessPorts(n)) <=> e.from = n /\ e.port # "error"
          /\ e \in Route(p, n) <=> e.from = n /\ e.port = "error"
      BY PortEdges
    <3> QED BY <2>1, <3>1 DEF Route
  <2>4. /\ v \in Snapshot(p) /\ v.node = u.node /\ v.edge = u.edge
        /\ v.readyQueue = u.readyQueue /\ v.anyWinner = u.anyWinner /\ Rest(u, v)
        /\ v.errors = u.errors \cup {n} /\ v.routed = u.routed \cup {n}
    BY <1>2, <2>1 DEF Snapshot, Rest
  <2>5. /\ t \in Snapshot(p)
        /\ \A e \in p.edges : t.edge[e] = IF e.from = n THEN FailedEdge(p, e) ELSE v.edge[e]
        /\ t.node = v.node /\ t.readyQueue = v.readyQueue /\ t.anyWinner = v.anyWinner
        /\ t.errors = v.errors /\ t.routed = v.routed /\ Rest(v, t)
    BY <1>3, <1>5, <2>2, <2>3, <2>4, RoutedFields
  <2> QED BY <1>2, <1>5, <2>4, <2>5 DEF Rest
<1> QED BY <1>4, <1>5

\* applyComplete before the idle nodes are looked at again.
CompletedState(p, s, n, port) ==
    LET done == [s EXCEPT !.node[n] = "completed", !.readyQueue = @ \ {n}, !.outputs = @ \cup {n}]
        taken == OutOf(p, n, {port})
        skipped == OutOf(p, n, SuccessPorts(n) \cup {"error"}) \ taken
    IN  Resolve(Resolve(done, taken, "taken"), skipped, "skipped")

LEMMA CompletedStateFields ==
  ASSUME NEW p, PlanHolds(p), NEW s \in Snapshot(p), EdgesFollow(p, s),
         NEW n \in Nodes, s.node[n] \notin Over, NEW port \in SuccessPorts(n),
         NEW t, t = CompletedState(p, s, n, port)
  PROVE  /\ t \in Snapshot(p)
         /\ t.node = [s.node EXCEPT ![n] = "completed"]
         /\ \A e \in p.edges : t.edge[e] =
               IF e.from = n THEN IF e.port = port THEN "taken" ELSE "skipped" ELSE s.edge[e]
         /\ t.readyQueue = s.readyQueue \ {n} /\ t.anyWinner = s.anyWinner
         /\ t.errors = s.errors /\ t.routed = s.routed
         /\ t.outputs = s.outputs \cup {n} /\ t.effect = s.effect
         /\ t.paused = s.paused /\ t.cancelled = s.cancelled
<1>1. PICK u : u = [s EXCEPT !.node[n] = "completed", !.readyQueue = @ \ {n},
                             !.outputs = @ \cup {n}]
  OBVIOUS
<1>2. /\ u \in Snapshot(p) /\ u.node = [s.node EXCEPT ![n] = "completed"] /\ u.edge = s.edge
      /\ u.readyQueue = s.readyQueue \ {n} /\ u.anyWinner = s.anyWinner
      /\ u.errors = s.errors /\ u.routed = s.routed /\ u.outputs = s.outputs \cup {n}
      /\ u.effect = s.effect /\ u.paused = s.paused /\ u.cancelled = s.cancelled
  BY <1>1 DEF Snapshot, NodeStatuses
<1>3. PICK T, K : /\ T = OutOf(p, n, {port})
                  /\ K = OutOf(p, n, SuccessPorts(n) \cup {"error"}) \ T
  OBVIOUS
<1>4. /\ \A e \in p.edges : e \in T <=> e.from = n /\ e.port = port
      /\ \A e \in p.edges : e \in K <=> e.from = n /\ e.port # port
  <2>1. \A e \in p.edges : e \in T <=> e.from = n /\ e.port = port
    BY <1>3 DEF OutOf
  <2>2. \A e \in p.edges : e \in OutOf(p, n, SuccessPorts(n) \cup {"error"}) <=> e.from = n
    BY PortEdges
  <2> QED BY <1>3, <2>1, <2>2
<1>5. PICK v : v = Resolve(u, T, "taken")
  OBVIOUS
<1>6. t = Resolve(v, K, "skipped")
  BY <1>1, <1>3, <1>5 DEF CompletedState
<1>7. "taken" \in EdgeStatuses /\ "skipped" \in EdgeStatuses
  BY DEF EdgeStatuses
<1>8. /\ v \in Snapshot(p)
      /\ \A e \in p.edges : v.edge[e] = IF e \in T THEN "taken" ELSE u.edge[e]
      /\ v.node = u.node /\ v.readyQueue = u.readyQueue /\ v.anyWinner = u.anyWinner
      /\ v.errors = u.errors /\ v.routed = u.routed /\ Rest(u, v)
  BY <1>2, <1>5, <1>7, ResolveFields
<1>9. /\ t \in Snapshot(p)
      /\ \A e \in p.edges : t.edge[e] = IF e \in K THEN "skipped" ELSE v.edge[e]
      /\ t.node = v.node /\ t.readyQueue = v.readyQueue /\ t.anyWinner = v.anyWinner
      /\ t.errors = v.errors /\ t.routed = v.routed /\ Rest(v, t)
  BY <1>6, <1>7, <1>8, ResolveFields
<1>10. \A e \in p.edges : t.edge[e] =
         IF e.from = n THEN IF e.port = port THEN "taken" ELSE "skipped" ELSE s.edge[e]
  BY <1>2, <1>4, <1>8, <1>9
<1> QED BY <1>2, <1>8, <1>9, <1>10 DEF Rest

\* A node becomes ready: by its winner, when it is an ANY.
LEMMA ScheduleFields ==
  ASSUME NEW p, PlanHolds(p), NEW s \in Snapshot(p), NEW n \in Nodes,
         s.anyWinner[n] = NoWinner,
         p.join[n] = "any" => \E e \in Into(p, n) : s.edge[e] = "taken",
         NEW t, t = Schedule(p, s, n)
  PROVE  /\ t \in Snapshot(p)
         /\ t.node = [s.node EXCEPT ![n] = "ready"] /\ t.edge = s.edge
         /\ t.readyQueue = s.readyQueue \cup {n}
         /\ \A m \in Nodes \ {n} : t.anyWinner[m] = s.anyWinner[m]
         /\ p.join[n] = "any" =>
               \E e \in Into(p, n) : s.edge[e] = "taken" /\ t.anyWinner[n] = e.from
         /\ t.errors = s.errors /\ t.routed = s.routed /\ Rest(s, t)
<1>1. ASSUME NEW u \in Snapshot(p), t = Enqueue(u, n)
      PROVE  /\ t \in Snapshot(p)
             /\ t.node = [u.node EXCEPT ![n] = "ready"] /\ t.edge = u.edge
             /\ t.readyQueue = u.readyQueue \cup {n} /\ t.anyWinner = u.anyWinner
             /\ t.errors = u.errors /\ t.routed = u.routed /\ Rest(u, t)
  <2>1. t = [u EXCEPT !.node[n] = "ready", !.readyQueue = @ \cup {n}]
    BY <1>1 DEF Enqueue
  <2>2. /\ u.node \in [Nodes -> NodeStatuses] /\ u.readyQueue \in SUBSET Nodes
    BY <1>1, SnapshotFields
  <2>3. PICK node, queue : /\ node = [u.node EXCEPT ![n] = "ready"]
                           /\ queue = u.readyQueue \cup {n}
    OBVIOUS
  <2>4. node \in [Nodes -> NodeStatuses] /\ queue \in SUBSET Nodes
    BY <2>2, <2>3 DEF NodeStatuses
  <2>5. t = [u EXCEPT !.node = node, !.readyQueue = queue]
    BY <2>1, <2>3
  <2> QED BY <1>1, <2>3, <2>4, <2>5 DEF Snapshot, Rest
<1>2. CASE p.join[n] # "any"
  <2>1. t = Enqueue(s, n)
    BY <1>2 DEF Schedule
  <2> QED BY <1>1, <1>2, <2>1
<1>3. CASE p.join[n] = "any"
  <2>1. PICK taken : taken = {e.from : e \in {x \in Into(p, n) : s.edge[x] = "taken"}}
    OBVIOUS
  <2>2. taken # {} /\ taken \in SUBSET Nodes /\ taken \in SUBSET Nat
    <3>1. \A e \in Into(p, n) : e.from \in Nodes
      BY DEF Into, PlanHolds, Edges
    <3>2. taken # {}
      BY <1>3, <2>1
    <3>3. taken \in SUBSET Nodes
      BY <2>1, <3>1
    <3> QED BY <3>2, <3>3, KernelAssumption
  <2>3. Min(taken) \in taken
    BY <2>2, MinType
  <2>4. Winner(p, s, n) = Min(taken)
    BY <2>1, <2>2 DEF Winner
  <2>5. PICK w \in Nodes : w = Winner(p, s, n) /\ w \in taken
    BY <2>2, <2>3, <2>4
  <2>6. w # NoWinner
    BY KernelAssumption DEF NoWinner
  <2>7. PICK u : u = [s EXCEPT !.anyWinner[n] = w]
    OBVIOUS
  <2>8. t = Enqueue(u, n)
    BY <1>3, <2>5, <2>6, <2>7 DEF Schedule
  <2>9. /\ u \in Snapshot(p) /\ u.node = s.node /\ u.edge = s.edge
        /\ u.readyQueue = s.readyQueue /\ u.anyWinner = [s.anyWinner EXCEPT ![n] = w]
        /\ u.errors = s.errors /\ u.routed = s.routed /\ Rest(s, u)
    BY <2>7 DEF Snapshot, Rest
  <2>10. /\ t \in Snapshot(p)
         /\ t.node = [u.node EXCEPT ![n] = "ready"] /\ t.edge = u.edge
         /\ t.readyQueue = u.readyQueue \cup {n} /\ t.anyWinner = u.anyWinner
         /\ t.errors = u.errors /\ t.routed = u.routed /\ Rest(u, t)
    BY <1>1, <2>8, <2>9
  <2>11. \A m \in Nodes \ {n} : t.anyWinner[m] = s.anyWinner[m]
    BY <2>9, <2>10, SnapshotFields
  <2>12. t.anyWinner[n] = w
    BY <2>9, <2>10, SnapshotFields
  <2>13. \E e \in Into(p, n) : s.edge[e] = "taken" /\ t.anyWinner[n] = e.from
    BY <2>1, <2>5, <2>12
  <2> QED BY <2>9, <2>10, <2>11, <2>13 DEF Rest
<1> QED BY <1>2, <1>3

-----------------------------------------------------------------------------
(* A node moves, and its edges with it.                                    *)

EdgesKept(p, s, t) == \A e \in p.edges : s.edge[e] # "pending" => t.edge[e] = s.edge[e]
WinnersKept(s, t) ==
    \A n \in Nodes : s.anyWinner[n] # NoWinner => t.anyWinner[n] = s.anyWinner[n]

\* Where no edge is pending, what leads to a node stays as it is.
LEMMA PathsKept ==
  ASSUME NEW p, PlanHolds(p), NEW s, NEW t, EdgesKept(p, s, t), WinnersKept(s, t), NEW n \in Nodes
  PROVE  /\ SkippedIn(p, s, n) => SkippedIn(p, t, n)
         /\ FailedIn(p, s, n) => FailedIn(p, t, n)
         /\ OnPath(p, s, n) => OnPath(p, t, n)
<1>1. Into(p, n) \subseteq p.edges
  BY DEF Into
<1>2. "pending" \notin Inbound(p, s, n) => Inbound(p, t, n) = Inbound(p, s, n)
  BY <1>1 DEF Inbound, EdgesKept
<1>3. (SkippedIn(p, s, n) => SkippedIn(p, t, n)) /\ (FailedIn(p, s, n) => FailedIn(p, t, n))
  BY <1>2 DEF SkippedIn, FailedIn
<1>4. p.join[n] \in {"none", "all", "any"}
  BY DEF PlanHolds
<1>5. ASSUME OnPath(p, s, n) PROVE OnPath(p, t, n)
  <2>1. CASE p.join[n] = "none"
    BY <1>2, <1>5, <2>1 DEF OnPath
  <2>2. CASE p.join[n] = "all"
    BY <1>2, <1>5, <2>2 DEF OnPath
  <2>3. CASE p.join[n] = "any"
    <3>1. PICK e \in Into(p, n) : s.edge[e] = "taken" /\ s.anyWinner[n] = e.from
      BY <1>5, <2>3 DEF OnPath
    <3>2. e.from \in Nodes /\ e.from # NoWinner
      BY <1>1, KernelAssumption DEF PlanHolds, Edges, NoWinner
    <3>3. t.edge[e] = "taken" /\ t.anyWinner[n] = e.from
      BY <1>1, <3>1, <3>2 DEF EdgesKept, WinnersKept
    <3> QED BY <2>3, <3>3 DEF OnPath
  <2> QED BY <1>4, <2>1, <2>2, <2>3
<1> QED BY <1>3, <1>5

\* Node n moves to a status and its edges become what they are for it.
EdgesMove(p, s, t, n, status) ==
    /\ t.node = [s.node EXCEPT ![n] = status]
    /\ \A e \in p.edges : IF e.from = n THEN t.edge[e] \in Outcomes(p, status, e)
                                        ELSE t.edge[e] = s.edge[e]

LEMMA EdgesMoved ==
  ASSUME NEW p, PlanHolds(p), NEW s \in Snapshot(p), EdgesFollow(p, s), NEW t,
         NEW n \in Nodes, s.node[n] \notin Over, NEW status, EdgesMove(p, s, t, n, status)
  PROVE  EdgesFollow(p, t) /\ EdgesKept(p, s, t)
<1>1. \A e \in p.edges : e.from \in Nodes
  BY DEF PlanHolds, Edges
<1>2. \A m \in Nodes : t.node[m] = IF m = n THEN status ELSE s.node[m]
  BY SnapshotFields DEF EdgesMove
<1>3. EdgesFollow(p, t)
  BY <1>1, <1>2 DEF EdgesFollow, EdgesMove
<1>4. \A e \in p.edges : e.from = n => s.edge[e] = "pending"
  BY OpenPending
<1>5. EdgesKept(p, s, t)
  BY <1>4 DEF EdgesKept, EdgesMove
<1> QED BY <1>3, <1>5

\* The other nodes stay on their paths when one moves.
LEMMA PathsMoved ==
  ASSUME NEW p, PlanHolds(p), NEW s \in Snapshot(p), PathsFollow(p, s), NEW t,
         EdgesKept(p, s, t), WinnersKept(s, t), NEW n \in Nodes,
         \A m \in Nodes \ {n} : /\ t.node[m] = s.node[m] /\ t.effect[m] = s.effect[m]
                                /\ m \in t.routed <=> m \in s.routed,
         n = Entry => t.node[n] \in {"ready", "completed"},
         n # Entry => PathFollows(p, t, n)
  PROVE  PathsFollow(p, t)
<1>1. t.node[Entry] \in {"ready", "completed"}
  BY KernelAssumption DEF PathsFollow
<1>2. ASSUME NEW m \in Nodes \ {Entry} PROVE PathFollows(p, t, m)
  <2>1. CASE m = n
    BY <1>2, <2>1
  <2>2. CASE m # n
    <3>1. PathFollows(p, s, m)
      BY DEF PathsFollow
    <3>2. /\ SkippedIn(p, s, m) => SkippedIn(p, t, m)
          /\ FailedIn(p, s, m) => FailedIn(p, t, m)
          /\ OnPath(p, s, m) => OnPath(p, t, m)
      BY PathsKept
    <3>3. /\ t.node[m] = s.node[m] /\ t.effect[m] = s.effect[m]
          /\ m \in t.routed <=> m \in s.routed
      BY <2>2
    <3> QED BY <3>1, <3>2, <3>3 DEF PathFollows
  <2> QED BY <2>1, <2>2
<1> QED BY <1>1, <1>2 DEF PathsFollow

\* So does what they have published.
LEMMA PublishedMoved ==
  ASSUME NEW p, PlanHolds(p), NEW s \in Snapshot(p), Published(p, s), NEW t,
         EdgesKept(p, s, t), WinnersKept(s, t), NEW n \in Nodes,
         \A m \in Nodes \ {n} : /\ t.node[m] = s.node[m]
                                /\ m \in t.outputs <=> m \in s.outputs
                                /\ m \in t.routed <=> m \in s.routed
                                /\ m \in s.errors => m \in t.errors,
         NodePublished(p, t, n)
  PROVE  Published(p, t)
<1>1. ASSUME NEW m \in Nodes PROVE NodePublished(p, t, m)
  <2>1. CASE m = n
    BY <2>1
  <2>2. CASE m # n
    <3>1. NodePublished(p, s, m) /\ (FailedIn(p, s, m) => FailedIn(p, t, m))
      BY PathsKept DEF Published
    <3>2. /\ t.node[m] = s.node[m]
          /\ m \in t.outputs <=> m \in s.outputs
          /\ m \in t.routed <=> m \in s.routed
          /\ m \in s.errors => m \in t.errors
      BY <2>2
    <3> QED BY <3>1, <3>2 DEF NodePublished
  <2> QED BY <2>1, <2>2
<1> QED BY <1>1 DEF Published

\* The edges into a node do not leave it.
LEMMA InboundMoved ==
  ASSUME NEW p, PlanHolds(p), NEW s, NEW t, NEW n \in Nodes,
         \A e \in p.edges : e.from # n => t.edge[e] = s.edge[e]
  PROVE  /\ Inbound(p, t, n) = Inbound(p, s, n)
         /\ \A e \in Into(p, n) : t.edge[e] = s.edge[e]
<1>1. \A e \in Into(p, n) : e \in p.edges /\ e.from # n
  <2> SUFFICES ASSUME NEW e \in Into(p, n) PROVE e \in p.edges /\ e.from # n
    OBVIOUS
  <2>1. e \in p.edges /\ e.to = n
    BY DEF Into
  <2>2. e.from < e.to /\ e.from \in Nat /\ e.to \in Nat
    BY <2>1, KernelAssumption DEF PlanHolds, Edges
  <2> QED BY <2>1, <2>2
<1> QED BY <1>1 DEF Inbound

-----------------------------------------------------------------------------
(* One turn of refreshIdleNodes keeps a snapshot sound.                    *)

\* What propagation never takes back.
Later(p, s, t) ==
    /\ EdgesKept(p, s, t) /\ WinnersKept(s, t) /\ Rest(s, t)
    /\ t.errors = s.errors /\ t.routed = s.routed
    /\ \A n \in Nodes : IF s.node[n] = "idle" THEN t.node[n] \in {"idle", "ready", "skipped", "failed"}
                                              ELSE t.node[n] = s.node[n]

\* An idle node becomes something else, and nothing else happens but to its edges.
IdleMoves(p, s, t, n, status) ==
    /\ EdgesMove(p, s, t, n, status) /\ Rest(s, t)
    /\ \A m \in Nodes \ {n} : t.anyWinner[m] = s.anyWinner[m]
    /\ t.errors = s.errors /\ t.routed = s.routed

\* Node n came to the status by the paths that lead to it.
Leads(p, t, n, status) ==
    /\ PathFollows(p, t, n)
    /\ status = "failed" => FailedIn(p, t, n)

LEMMA IdleMoved ==
  ASSUME NEW p, PlanHolds(p), NEW s, Sound(p, s), NEW n \in Nodes, s.node[n] = "idle",
         NEW status \in {"ready", "skipped", "failed"},
         NEW t \in Snapshot(p), IdleMoves(p, s, t, n, status), QueueHolds(t),
         Inbound(p, t, n) = Inbound(p, s, n) => Leads(p, t, n, status)
  PROVE  Sound(p, t) /\ Later(p, s, t) /\ t.node[n] = status
<1>1. /\ s \in Snapshot(p) /\ EdgesFollow(p, s) /\ PathsFollow(p, s) /\ Published(p, s)
      /\ EffectsFollow(s)
  BY DEF Sound
<1>2. \A m \in Nodes : t.node[m] = IF m = n THEN status ELSE s.node[m]
  BY <1>1, SnapshotFields DEF IdleMoves, EdgesMove
<1>3. EdgesFollow(p, t) /\ EdgesKept(p, s, t)
  BY <1>1, EdgesMoved DEF IdleMoves, Over
<1>4. s.anyWinner[n] = NoWinner /\ s.effect[n] = "none"
  BY <1>1 DEF EffectsFollow, EffectFollows
<1>5. WinnersKept(s, t)
  BY <1>4 DEF IdleMoves, WinnersKept
<1>6. n # Entry
  BY <1>1 DEF PathsFollow
<1>7. Inbound(p, t, n) = Inbound(p, s, n)
  BY InboundMoved DEF IdleMoves, EdgesMove
<1>8. PathsFollow(p, t)
  <2>1. \A m \in Nodes \ {n} : /\ t.node[m] = s.node[m] /\ t.effect[m] = s.effect[m]
                               /\ m \in t.routed <=> m \in s.routed
    BY <1>2 DEF IdleMoves, Rest
  <2>2. PathFollows(p, t, n)
    BY <1>7 DEF Leads
  <2> QED BY <1>1, <1>3, <1>5, <1>6, <2>1, <2>2, PathsMoved
<1>9. Published(p, t)
  <2>1. \A m \in Nodes \ {n} : /\ t.node[m] = s.node[m]
                               /\ m \in t.outputs <=> m \in s.outputs
                               /\ m \in t.routed <=> m \in s.routed
                               /\ m \in s.errors => m \in t.errors
    BY <1>2 DEF IdleMoves, Rest
  <2>2. NodePublished(p, s, n)
    BY <1>1 DEF Published
  <2>3. n \notin t.outputs /\ n \notin t.routed
    BY <2>2 DEF NodePublished, IdleMoves, Rest
  <2>4. NodePublished(p, t, n)
    BY <1>2, <1>7, <2>3 DEF NodePublished, Leads
  <2> QED BY <1>1, <1>3, <1>5, <2>1, <2>4, PublishedMoved
<1>10. EffectsFollow(t)
  <2>1. t.effect = s.effect
    BY DEF IdleMoves, Rest
  <2>2. ASSUME NEW m \in Nodes PROVE EffectFollows(t, m)
    <3>1. EffectFollows(s, m)
      BY <1>1 DEF EffectsFollow
    <3>2. CASE m = n
      BY <1>2, <1>4, <2>1, <3>2 DEF EffectFollows, Unsettled
    <3>3. CASE m # n
      BY <1>2, <2>1, <3>1, <3>3 DEF EffectFollows, IdleMoves
    <3> QED BY <3>2, <3>3
  <2> QED BY <2>2 DEF EffectsFollow
<1>11. Later(p, s, t)
  BY <1>2, <1>3, <1>5 DEF Later, IdleMoves
<1> QED BY <1>2, <1>3, <1>8, <1>9, <1>10, <1>11 DEF Sound

LEMMA SkipSound ==
  ASSUME NEW p, PlanHolds(p), NEW s, Sound(p, s), NEW n \in Nodes, s.node[n] = "idle",
         ShouldSkip(p, s, n), NEW t, t = SkipNode(p, s, n)
  PROVE  Sound(p, t) /\ Later(p, s, t) /\ t.node[n] = "skipped"
<1>1. s \in Snapshot(p) /\ EdgesFollow(p, s) /\ QueueHolds(s) /\ s.node[n] \notin Over
  BY DEF Sound, Over
<1>2. /\ t \in Snapshot(p)
      /\ t.node = [s.node EXCEPT ![n] = "skipped"]
      /\ \A e \in p.edges : t.edge[e] = IF e.from = n THEN "skipped" ELSE s.edge[e]
      /\ t.readyQueue = s.readyQueue /\ t.anyWinner = s.anyWinner
      /\ t.errors = s.errors /\ t.routed = s.routed /\ Rest(s, t)
  BY <1>1, SkipFields
<1>3. IdleMoves(p, s, t, n, "skipped")
  BY <1>2 DEF IdleMoves, EdgesMove, Outcomes
<1>4. \A m \in Nodes : t.node[m] = IF m = n THEN "skipped" ELSE s.node[m]
  BY <1>1, <1>2, SnapshotFields
<1>5. QueueHolds(t)
  <2>1. {m \in Nodes : t.node[m] = "ready"} = {m \in Nodes : s.node[m] = "ready"}
    BY <1>4
  <2> QED BY <1>1, <1>2, <2>1 DEF QueueHolds, Rest
<1>6. Inbound(p, t, n) = Inbound(p, s, n) => Leads(p, t, n, "skipped")
  BY <1>4 DEF ShouldSkip, PathFollows, SkippedIn, Leads
<1>7. t \in Snapshot(p) /\ "skipped" \in {"ready", "skipped", "failed"}
  BY <1>2
<1> QED BY <1>3, <1>5, <1>6, <1>7, IdleMoved

LEMMA FailNodeSound ==
  ASSUME NEW p, PlanHolds(p), NEW s, Sound(p, s), NEW n \in Nodes, s.node[n] = "idle",
         ShouldFailUpstream(p, s, n), NEW t, t = FailNode(p, s, n)
  PROVE  Sound(p, t) /\ Later(p, s, t) /\ t.node[n] = "failed"
<1>1. s \in Snapshot(p) /\ EdgesFollow(p, s) /\ QueueHolds(s) /\ s.node[n] \notin Over
  BY DEF Sound, Over
<1>2. /\ t \in Snapshot(p)
      /\ t.node = [s.node EXCEPT ![n] = "failed"]
      /\ \A e \in p.edges : t.edge[e] = IF e.from = n THEN FailedEdge(p, e) ELSE s.edge[e]
      /\ t.readyQueue = s.readyQueue /\ t.anyWinner = s.anyWinner
      /\ t.errors = s.errors /\ t.routed = s.routed /\ Rest(s, t)
  BY <1>1, FailNodeFields
<1>3. IdleMoves(p, s, t, n, "failed")
  BY <1>2 DEF IdleMoves, EdgesMove, Outcomes, FailedEdge
<1>4. \A m \in Nodes : t.node[m] = IF m = n THEN "failed" ELSE s.node[m]
  BY <1>1, <1>2, SnapshotFields
<1>5. QueueHolds(t)
  <2>1. {m \in Nodes : t.node[m] = "ready"} = {m \in Nodes : s.node[m] = "ready"}
    BY <1>4
  <2> QED BY <1>1, <1>2, <2>1 DEF QueueHolds, Rest
<1>6. s.effect[n] = "none" /\ n \notin s.routed
  BY DEF Sound, EffectsFollow, EffectFollows, Published, NodePublished
<1>7. Inbound(p, t, n) = Inbound(p, s, n) => FailedIn(p, t, n)
  BY DEF ShouldFailUpstream, FailedIn
<1>8. Inbound(p, t, n) = Inbound(p, s, n) => Leads(p, t, n, "failed")
  BY <1>2, <1>4, <1>6, <1>7 DEF PathFollows, Rest, Leads
<1>9. t \in Snapshot(p) /\ "failed" \in {"ready", "skipped", "failed"}
  BY <1>2
<1> QED BY <1>3, <1>5, <1>8, <1>9, IdleMoved

\* A node that may be scheduled and is neither skipped nor failed is on a path.
LEMMA PathLeads ==
  ASSUME NEW p, PlanHolds(p), NEW s \in Snapshot(p), NEW n \in Nodes \ {Entry},
         CanSchedule(p, s, n), ~ShouldSkip(p, s, n), ~ShouldFailUpstream(p, s, n)
  PROVE  /\ p.join[n] = "none" => Inbound(p, s, n) = {"taken"}
         /\ p.join[n] = "all" => /\ "taken" \in Inbound(p, s, n)
                                 /\ Inbound(p, s, n) \subseteq {"taken", "skipped"}
         /\ p.join[n] = "any" => \E e \in Into(p, n) : s.edge[e] = "taken"
<1>1. Inbound(p, s, n) # {} /\ Inbound(p, s, n) \subseteq EdgeStatuses
  <2>1. Into(p, n) # {} /\ Into(p, n) \subseteq p.edges
    BY DEF PlanHolds, Into
  <2> QED BY <2>1, SnapshotFields DEF Inbound
<1>2. "pending" \notin Inbound(p, s, n) =>
        "taken" \in Inbound(p, s, n) /\ Inbound(p, s, n) \subseteq {"taken", "skipped"}
  BY <1>1 DEF ShouldSkip, ShouldFailUpstream, EdgeStatuses
<1>3. p.join[n] = "any" => "taken" \in Inbound(p, s, n)
  BY <1>2 DEF CanSchedule
<1>4. p.join[n] = "any" => \E e \in Into(p, n) : s.edge[e] = "taken"
  BY <1>3 DEF Inbound
<1> QED BY <1>2, <1>4 DEF CanSchedule

LEMMA ScheduleSound ==
  ASSUME NEW p, PlanHolds(p), NEW s, Sound(p, s), ~s.cancelled,
         NEW n \in Nodes, s.node[n] = "idle",
         CanSchedule(p, s, n), ~ShouldSkip(p, s, n), ~ShouldFailUpstream(p, s, n),
         NEW t, t = Schedule(p, s, n)
  PROVE  Sound(p, t) /\ Later(p, s, t) /\ t.node[n] = "ready"
<1>1. /\ s \in Snapshot(p) /\ EdgesFollow(p, s) /\ QueueHolds(s) /\ s.node[n] \notin Over
      /\ s.anyWinner[n] = NoWinner /\ n # Entry
  BY DEF Sound, Over, EffectsFollow, EffectFollows, PathsFollow
<1>2. /\ p.join[n] = "none" => Inbound(p, s, n) = {"taken"}
      /\ p.join[n] = "all" => /\ "taken" \in Inbound(p, s, n)
                              /\ Inbound(p, s, n) \subseteq {"taken", "skipped"}
      /\ p.join[n] = "any" => \E e \in Into(p, n) : s.edge[e] = "taken"
  BY <1>1, PathLeads
<1>3. /\ t \in Snapshot(p)
      /\ t.node = [s.node EXCEPT ![n] = "ready"] /\ t.edge = s.edge
      /\ t.readyQueue = s.readyQueue \cup {n}
      /\ \A m \in Nodes \ {n} : t.anyWinner[m] = s.anyWinner[m]
      /\ p.join[n] = "any" =>
            \E e \in Into(p, n) : s.edge[e] = "taken" /\ t.anyWinner[n] = e.from
      /\ t.errors = s.errors /\ t.routed = s.routed /\ Rest(s, t)
  BY <1>1, <1>2, ScheduleFields
<1>4. \A e \in p.edges : e.from = n => s.edge[e] = "pending"
  BY <1>1, OpenPending
<1>5. IdleMoves(p, s, t, n, "ready")
  BY <1>3, <1>4 DEF IdleMoves, EdgesMove, Outcomes
<1>6. \A m \in Nodes : t.node[m] = IF m = n THEN "ready" ELSE s.node[m]
  BY <1>1, <1>3, SnapshotFields
<1>7. QueueHolds(t)
  <2>1. {m \in Nodes : t.node[m] = "ready"} = {m \in Nodes : s.node[m] = "ready"} \cup {n}
    BY <1>6
  <2> QED BY <1>1, <1>3, <2>1 DEF QueueHolds, Rest
<1>8. p.join[n] \in {"none", "all", "any"}
  BY DEF PlanHolds
<1>9. ASSUME Inbound(p, t, n) = Inbound(p, s, n) PROVE OnPath(p, t, n)
  <2>1. CASE p.join[n] = "none"
    BY <1>2, <1>9, <2>1 DEF OnPath
  <2>2. CASE p.join[n] = "all"
    BY <1>2, <1>9, <2>2 DEF OnPath
  <2>3. CASE p.join[n] = "any"
    BY <1>3, <2>3 DEF OnPath
  <2> QED BY <1>8, <2>1, <2>2, <2>3
<1>10. Inbound(p, t, n) = Inbound(p, s, n) => Leads(p, t, n, "ready")
  BY <1>6, <1>9 DEF PathFollows, Leads
<1>11. t \in Snapshot(p) /\ "ready" \in {"ready", "skipped", "failed"}
  BY <1>3
<1>12. t.node[n] = "ready"
  BY <1>6
<1>13. Sound(p, t) /\ Later(p, s, t)
  BY <1>5, <1>7, <1>10, <1>11, IdleMoved
<1> QED BY <1>12, <1>13

\* A turn leaves everything as it is, or takes its node out of idle.
LEMMA VisitSound ==
  ASSUME NEW p, PlanHolds(p), NEW s, Sound(p, s), ~s.cancelled, NEW n \in Nodes,
         NEW t, t = Visit(p, s, n)
  PROVE  /\ Sound(p, t) /\ Later(p, s, t)
         /\ \/ t = s /\ Quiet(p, s, n)
            \/ s.node[n] = "idle" /\ t.node[n] # "idle" /\ ~Quiet(p, s, n)
<1>1. Later(p, s, s)
  BY DEF Later, EdgesKept, WinnersKept, Rest
<1>2. CASE s.node[n] # "idle"
  <2>1. t = s
    BY <1>2 DEF Visit
  <2> QED BY <1>1, <1>2, <2>1 DEF Quiet
<1>3. CASE s.node[n] = "idle" /\ ShouldSkip(p, s, n)
  <2>1. t = SkipNode(p, s, n)
    BY <1>3 DEF Visit, ShouldSkip, ShouldFailUpstream
  <2> QED BY <1>3, <2>1, SkipSound DEF Quiet
<1>4. CASE s.node[n] = "idle" /\ ~ShouldSkip(p, s, n) /\ ShouldFailUpstream(p, s, n)
  <2>1. t = FailNode(p, s, n)
    BY <1>4 DEF Visit
  <2> QED BY <1>4, <2>1, FailNodeSound DEF Quiet
<1>5. CASE s.node[n] = "idle" /\ ~ShouldSkip(p, s, n) /\ ~ShouldFailUpstream(p, s, n)
  <2>1. t = IF CanSchedule(p, s, n) THEN Schedule(p, s, n) ELSE s
    BY <1>5 DEF Visit
  <2>2. CASE CanSchedule(p, s, n)
    <3>1. t = Schedule(p, s, n)
      BY <2>1, <2>2
    <3> QED BY <1>5, <2>2, <3>1, ScheduleSound DEF Quiet
  <2>3. CASE ~CanSchedule(p, s, n)
    <3>1. t = s
      BY <2>1, <2>3
    <3> QED BY <1>1, <1>5, <2>3, <3>1 DEF Quiet
  <2> QED BY <2>2, <2>3
<1> QED BY <1>2, <1>3, <1>4, <1>5

-----------------------------------------------------------------------------
(* One pass of refreshIdleNodes over the nodes.                            *)

\* What holds of 0 and goes from each number to the next holds up to n.
LEMMA UpTo ==
  ASSUME NEW n \in Nat, NEW T, 0 \in T, \A i \in 1..n : i - 1 \in T => i \in T
  PROVE  \A i \in 0..n : i \in T
<1> SUFFICES ASSUME {i \in 0..n : i \notin T} # {} PROVE FALSE
  OBVIOUS
<1>1. PICK k \in {i \in 0..n : i \notin T} : \A j \in {i \in 0..n : i \notin T} : k <= j
  <2>1. {i \in 0..n : i \notin T} \in SUBSET Nat
    OBVIOUS
  <2> QED BY <2>1, Least
<1>2. k \in 1..n /\ k - 1 \in 0..n /\ k - 1 < k
  BY <1>1
<1>3. k - 1 \in T
  BY <1>1, <1>2
<1> QED BY <1>1, <1>2, <1>3

\* The functions G[1], G[2], ... one after the other, from s.
Chain(f, s, G, n) == f[0] = s /\ \A i \in 1..n : f[i] = G[i][f[i - 1]]

LEMMA ChainExists ==
  ASSUME NEW S, NEW n \in Nat, NEW s \in S, NEW G, \A i \in 1..n : G[i] \in [S -> S]
  PROVE  \E f \in [0..n -> S] : Chain(f, s, G, n)
<1> DEFINE T == {k \in Nat : k <= n => \E f \in [0..k -> S] : Chain(f, s, G, k)}
<1>1. 0 \in T
  <2>1. [i \in 0..0 |-> s] \in [0..0 -> S] /\ Chain([i \in 0..0 |-> s], s, G, 0)
    BY DEF Chain
  <2> QED BY <2>1
<1>2. ASSUME NEW k \in 1..n, k - 1 \in T PROVE k \in T
  <2>1. PICK f \in [0..(k - 1) -> S] : Chain(f, s, G, k - 1)
    BY <1>2
  <2>2. k - 1 \in 0..(k - 1) /\ k \in Nat
    OBVIOUS
  <2>3. G[k][f[k - 1]] \in S
    BY <2>1, <2>2
  <2>4. PICK g : g = [i \in 0..k |-> IF i = k THEN G[k][f[k - 1]] ELSE f[i]]
    OBVIOUS
  <2>5. g \in [0..k -> S]
    BY <2>1, <2>3, <2>4
  <2>6. g[0] = s
    BY <2>1, <2>4 DEF Chain
  <2>7. ASSUME NEW i \in 1..k PROVE g[i] = G[i][g[i - 1]]
    <3>1. g[i - 1] = f[i - 1]
      BY <2>4, <2>7
    <3>2. CASE i = k
      BY <2>4, <3>1, <3>2
    <3>3. CASE i # k
      <4>1. i \in 1..(k - 1)
        BY <3>3
      <4>2. f[i] = G[i][f[i - 1]]
        BY <2>1, <4>1 DEF Chain
      <4> QED BY <2>4, <3>1, <3>3, <4>2
    <3> QED BY <3>2, <3>3
  <2> QED BY <2>5, <2>6, <2>7 DEF Chain
<1>3. \A i \in 0..n : i \in T
  <2> HIDE DEF T
  <2> QED BY <1>1, <1>2, UpTo
<1> QED BY <1>3

\* The snapshots propagation goes through.
States(p) == {s \in Snapshot(p) : Sound(p, s) /\ ~s.cancelled}

LEMMA VisitState ==
  ASSUME NEW p, PlanHolds(p), NEW s \in States(p), NEW n \in Nodes
  PROVE  Visit(p, s, n) \in States(p)
<1>1. PICK t : t = Visit(p, s, n)
  OBVIOUS
<1>2. Sound(p, t) /\ Later(p, s, t)
  BY <1>1, VisitSound DEF States
<1> QED BY <1>1, <1>2 DEF States, Sound, Later, Rest

\* v[i] is the snapshot after the first i turns of a pass.
Visited(p, s, v) ==
    v = [i \in 0..Len(p.keys) |->
           IF i = 0 THEN s
           ELSE CHOOSE t \in {Visit(p, u, p.keys[i]) : u \in {v[i - 1]}} : TRUE]

LEMMA KeysFacts ==
  ASSUME NEW p, PlanHolds(p)
  PROVE  /\ Len(p.keys) = Cardinality(Nodes) /\ Len(p.keys) \in Nat /\ DOMAIN p.keys = 1..Len(p.keys)
         /\ \A i \in 1..Len(p.keys) : p.keys[i] \in Nodes
         /\ \A n \in Nodes : \E i \in 1..Len(p.keys) : p.keys[i] = n
<1>1. Cardinality(Nodes) \in Nat
  BY KernelAssumption, FS_CardinalityType
<1>2. p.keys \in Seq(Nodes) /\ Len(p.keys) = Cardinality(Nodes)
  <2>1. p.keys \in [1..Cardinality(Nodes) -> Nodes]
    BY DEF PlanHolds
  <2> QED BY <1>1, <2>1
<1> QED BY <1>1, <1>2 DEF PlanHolds

LEMMA VisitedExists ==
  ASSUME NEW p, PlanHolds(p), NEW s \in States(p)
  PROVE  \E v : Visited(p, s, v)
<1> DEFINE n == Len(p.keys)
           G == [i \in 1..n |-> [u \in States(p) |-> Visit(p, u, p.keys[i])]]
<1>1. n \in Nat /\ \A i \in 1..n : p.keys[i] \in Nodes
  BY KeysFacts
<1>2. \A i \in 1..n : G[i] \in [States(p) -> States(p)]
  BY <1>1, VisitState
<1>3. \A i \in 1..n : \A u \in States(p) : G[i][u] = Visit(p, u, p.keys[i])
  OBVIOUS
<1> HIDE DEF n, G
<1>4. PICK f \in [0..n -> States(p)] : Chain(f, s, G, n)
  BY <1>1, <1>2, ChainExists
<1>5. ASSUME NEW i \in 0..n
      PROVE f[i] = IF i = 0 THEN s
                   ELSE CHOOSE t \in {Visit(p, u, p.keys[i]) : u \in {f[i - 1]}} : TRUE
  <2>1. CASE i = 0
    BY <1>4, <2>1 DEF Chain
  <2>2. CASE i # 0
    <3>1. i \in 1..n /\ i - 1 \in 0..n
      BY <1>1, <2>2
    <3>2. f[i] = Visit(p, f[i - 1], p.keys[i])
      BY <1>3, <1>4, <3>1 DEF Chain
    <3>3. {Visit(p, u, p.keys[i]) : u \in {f[i - 1]}} = {f[i]}
      BY <3>2
    <3> QED BY <2>2, <3>3
  <2> QED BY <2>1, <2>2
<1>6. f = [i \in 0..n |-> IF i = 0 THEN s
                          ELSE CHOOSE t \in {Visit(p, u, p.keys[i]) : u \in {f[i - 1]}} : TRUE]
  BY <1>4, <1>5
<1> QED BY <1>6 DEF Visited, n

\* A pass is the turns one after the other.
LEMMA PassVisits ==
  ASSUME NEW p, PlanHolds(p), NEW s \in States(p)
  PROVE  \E v : /\ v[0] = s /\ Pass(p, s) = v[Len(p.keys)]
                /\ \A i \in 1..Len(p.keys) : v[i] = Visit(p, v[i - 1], p.keys[i])
<1> DEFINE v == CHOOSE v : Visited(p, s, v)
<1>1. Pass(p, s) = v[Len(p.keys)]
  BY DEF Pass, Visited
<1>2. Visited(p, s, v)
  BY VisitedExists
<1> HIDE DEF v
<1>3. Len(p.keys) \in Nat
  BY KeysFacts
<1>4. v[0] = s
  BY <1>2, <1>3 DEF Visited
<1>5. ASSUME NEW i \in 1..Len(p.keys) PROVE v[i] = Visit(p, v[i - 1], p.keys[i])
  <2>1. i \in 0..Len(p.keys) /\ i # 0
    BY <1>3
  <2>2. v[i] = CHOOSE t \in {Visit(p, u, p.keys[i]) : u \in {v[i - 1]}} : TRUE
    BY <1>2, <2>1 DEF Visited
  <2>3. {Visit(p, u, p.keys[i]) : u \in {v[i - 1]}} = {Visit(p, v[i - 1], p.keys[i])}
    OBVIOUS
  <2> QED BY <2>2, <2>3
<1> QED BY <1>1, <1>4, <1>5

Idle(s) == {n \in Nodes : s.node[n] = "idle"}

LEMMA LaterSelf == ASSUME NEW p, NEW s PROVE Later(p, s, s)
BY DEF Later, EdgesKept, WinnersKept, Rest

LEMMA LaterOn ==
  ASSUME NEW p, NEW s, NEW t, NEW u, Later(p, s, t), Later(p, t, u)
  PROVE  Later(p, s, u)
<1>1. EdgesKept(p, s, u)
  BY DEF Later, EdgesKept
<1>2. WinnersKept(s, u)
  BY DEF Later, WinnersKept
<1>3. Rest(s, u) /\ u.errors = s.errors /\ u.routed = s.routed
  BY DEF Later, Rest
<1>4. \A n \in Nodes : IF s.node[n] = "idle" THEN u.node[n] \in {"idle", "ready", "skipped", "failed"}
                                             ELSE u.node[n] = s.node[n]
  BY DEF Later
<1> QED BY <1>1, <1>2, <1>3, <1>4 DEF Later

LEMMA LaterIdle ==
  ASSUME NEW p, NEW s, NEW t, Later(p, s, t) PROVE Idle(t) \subseteq Idle(s)
BY DEF Later, Idle

\* A pass keeps a snapshot sound; it changes nothing, and then nothing is left
\* to change, or takes a node out of idle.
LEMMA PassSound ==
  ASSUME NEW p, PlanHolds(p), NEW s \in States(p), NEW t, t = Pass(p, s)
  PROVE  /\ t \in States(p) /\ Later(p, s, t)
         /\ Idle(t) = Idle(s) => t = s /\ Fixed(p, s)
         /\ Fixed(p, s) => t = s
<1> DEFINE n == Len(p.keys)
<1>1. PICK v : /\ v[0] = s /\ t = v[n]
               /\ \A i \in 1..n : v[i] = Visit(p, v[i - 1], p.keys[i])
  BY PassVisits
<1>2. n \in Nat /\ \A i \in 1..n : p.keys[i] \in Nodes
  BY KeysFacts
<1> DEFINE Holds(i) == /\ v[i] \in States(p) /\ Later(p, s, v[i])
                       /\ Idle(v[i]) = Idle(s) => /\ v[i] = s
                                                  /\ \A j \in 1..i : Quiet(p, s, p.keys[j])
                       /\ Fixed(p, s) => v[i] = s
           T == {i \in 0..n : Holds(i)}
<1>3. 0 \in T
  BY <1>1, <1>2, LaterSelf
<1>4. ASSUME NEW i \in 1..n, i - 1 \in T PROVE i \in T
  <2>1. PICK u, k : u = v[i - 1] /\ k = p.keys[i]
    OBVIOUS
  <2>2. /\ u \in States(p) /\ Later(p, s, u) /\ k \in Nodes
        /\ Idle(u) = Idle(s) => u = s /\ \A j \in 1..(i - 1) : Quiet(p, s, p.keys[j])
        /\ Fixed(p, s) => u = s
    BY <1>2, <1>4, <2>1
  <2>3. PICK w : w = Visit(p, u, k) /\ w = v[i]
    BY <1>1, <2>1
  <2>4. Sound(p, u) /\ ~u.cancelled
    BY <2>2 DEF States
  <2>5. /\ Sound(p, w) /\ Later(p, u, w)
        /\ \/ w = u /\ Quiet(p, u, k)
           \/ u.node[k] = "idle" /\ w.node[k] # "idle" /\ ~Quiet(p, u, k)
    <3>1. k \in Nodes /\ w = Visit(p, u, k)
      BY <2>2, <2>3
    <3> HIDE DEF T, n
    <3> QED BY <2>4, <3>1, VisitSound
  <2>6. w \in States(p)
    BY <2>2, <2>3, VisitState
  <2>7. Later(p, s, w)
    BY <2>2, <2>5, LaterOn
  <2>8. Idle(w) \subseteq Idle(u) /\ Idle(u) \subseteq Idle(s)
    BY <2>2, <2>5, LaterIdle
  <2>9. ASSUME Idle(w) = Idle(s) PROVE w = s /\ \A j \in 1..i : Quiet(p, s, p.keys[j])
    <3>1. Idle(u) = Idle(s) /\ Idle(w) = Idle(u)
      BY <2>8, <2>9
    <3>2. ~ (u.node[k] = "idle" /\ w.node[k] # "idle")
      BY <2>2, <3>1 DEF Idle
    <3>3. w = u /\ Quiet(p, u, k)
      BY <2>5, <3>2
    <3>4. u = s /\ \A j \in 1..(i - 1) : Quiet(p, s, p.keys[j])
      BY <2>2, <3>1
    <3>5. \A j \in 1..i : j = i \/ j \in 1..(i - 1)
      BY <1>2
    <3> QED BY <2>1, <3>3, <3>4, <3>5
  <2>10. ASSUME Fixed(p, s) PROVE w = s
    <3>1. u = s /\ Quiet(p, u, k)
      BY <2>2, <2>10 DEF Fixed
    <3> QED BY <2>5, <3>1
  <2> QED BY <1>2, <2>3, <2>6, <2>7, <2>9, <2>10
<1>5. \A i \in 0..n : i \in T
  <2> HIDE DEF T, n
  <2> QED BY <1>2, <1>3, <1>4, UpTo
<1>6. Holds(n)
  BY <1>2, <1>5
<1>7. (\A j \in 1..n : Quiet(p, s, p.keys[j])) => Fixed(p, s)
  BY KeysFacts DEF Fixed
<1> QED BY <1>1, <1>6, <1>7

-----------------------------------------------------------------------------
(* The passes reach the fixpoint.                                          *)

\* w[i] is the snapshot after the first i passes.
Passed(p, s, w) ==
    w = [i \in 0..Len(p.keys) |->
           IF i = 0 THEN s ELSE CHOOSE t \in {Pass(p, u) : u \in {w[i - 1]}} : TRUE]

LEMMA PassedExists ==
  ASSUME NEW p, PlanHolds(p), NEW s \in States(p)
  PROVE  \E w : Passed(p, s, w)
<1> DEFINE n == Len(p.keys)
           G == [i \in 1..n |-> [u \in States(p) |-> Pass(p, u)]]
<1>1. n \in Nat
  BY KeysFacts
<1>2. \A u \in States(p) : Pass(p, u) \in States(p)
  <2> TAKE u \in States(p)
  <2>1. PICK t : t = Pass(p, u)
    OBVIOUS
  <2>2. t \in States(p)
    BY <2>1, PassSound
  <2> QED BY <2>1, <2>2
<1>3. \A i \in 1..n : G[i] \in [States(p) -> States(p)]
  BY <1>2
<1>4. \A i \in 1..n : \A u \in States(p) : G[i][u] = Pass(p, u)
  OBVIOUS
<1> HIDE DEF n, G
<1>5. PICK f \in [0..n -> States(p)] : Chain(f, s, G, n)
  BY <1>1, <1>3, ChainExists
<1>6. ASSUME NEW i \in 0..n
      PROVE f[i] = IF i = 0 THEN s ELSE CHOOSE t \in {Pass(p, u) : u \in {f[i - 1]}} : TRUE
  <2>1. CASE i = 0
    BY <1>5, <2>1 DEF Chain
  <2>2. CASE i # 0
    <3>1. i \in 1..n /\ i - 1 \in 0..n
      BY <1>1, <2>2
    <3>2. f[i] = Pass(p, f[i - 1])
      BY <1>4, <1>5, <3>1 DEF Chain
    <3>3. {Pass(p, u) : u \in {f[i - 1]}} = {f[i]}
      BY <3>2
    <3> QED BY <2>2, <3>3
  <2> QED BY <2>1, <2>2
<1>7. f = [i \in 0..n |-> IF i = 0 THEN s
                          ELSE CHOOSE t \in {Pass(p, u) : u \in {f[i - 1]}} : TRUE]
  BY <1>5, <1>6
<1> QED BY <1>7 DEF Passed, n

LEMMA RefreshPasses ==
  ASSUME NEW p, PlanHolds(p), NEW s \in States(p)
  PROVE  \E w : /\ w[0] = s /\ Refresh(p, s) = w[Len(p.keys)]
                /\ \A i \in 1..Len(p.keys) : w[i] = Pass(p, w[i - 1])
<1> DEFINE w == CHOOSE w : Passed(p, s, w)
<1>1. Refresh(p, s) = w[Len(p.keys)]
  BY DEF Refresh, Passed
<1>2. Passed(p, s, w)
  BY PassedExists
<1> HIDE DEF w
<1>3. Len(p.keys) \in Nat
  BY KeysFacts
<1>4. w[0] = s
  BY <1>2, <1>3 DEF Passed
<1>5. ASSUME NEW i \in 1..Len(p.keys) PROVE w[i] = Pass(p, w[i - 1])
  <2>1. i \in 0..Len(p.keys) /\ i # 0
    BY <1>3
  <2>2. w[i] = CHOOSE t \in {Pass(p, u) : u \in {w[i - 1]}} : TRUE
    BY <1>2, <2>1 DEF Passed
  <2>3. {Pass(p, u) : u \in {w[i - 1]}} = {Pass(p, w[i - 1])}
    OBVIOUS
  <2> QED BY <2>2, <2>3
<1> QED BY <1>1, <1>4, <1>5

\* refreshIdleNodes keeps a snapshot sound and leaves no idle node that would
\* still move.
LEMMA RefreshSound ==
  ASSUME NEW p, PlanHolds(p), NEW s \in States(p), NEW t, t = Refresh(p, s)
  PROVE  t \in States(p) /\ Later(p, s, t) /\ Fixed(p, t)
<1> DEFINE n == Len(p.keys)
<1>1. PICK w : w[0] = s /\ t = w[n] /\ \A i \in 1..n : w[i] = Pass(p, w[i - 1])
  BY RefreshPasses
<1>2. n \in Nat /\ n = Cardinality(Nodes)
  BY KeysFacts
<1>3. \A u : IsFiniteSet(Idle(u)) /\ Cardinality(Idle(u)) \in Nat
  <2> TAKE u
  <2>1. Idle(u) \in SUBSET Nodes
    BY DEF Idle
  <2>2. IsFiniteSet(Idle(u))
    BY <2>1, KernelAssumption, FS_Subset
  <2> QED BY <2>2, FS_CardinalityType
<1>4. Cardinality(Idle(s)) < n
  <2>1. Idle(s) \in SUBSET Nodes /\ Entry \in Nodes /\ Entry \notin Idle(s)
    BY KernelAssumption DEF Idle, States, Sound, PathsFollow
  <2>2. Cardinality(Idle(s)) <= n /\ Cardinality(Idle(s)) # n
    BY <1>2, <2>1, KernelAssumption, FS_Subset
  <2> QED BY <1>2, <1>3, <2>2
<1> DEFINE Holds(i) == /\ w[i] \in States(p) /\ Later(p, s, w[i])
                       /\ \/ Fixed(p, w[i])
                          \/ Cardinality(Idle(w[i])) + i <= Cardinality(Idle(s))
           T == {i \in 0..n : Holds(i)}
<1>5. 0 \in T
  BY <1>1, <1>2, <1>3, LaterSelf
<1>6. ASSUME NEW i \in 1..n, i - 1 \in T PROVE i \in T
  <2>1. PICK u, v : u = w[i - 1] /\ v = Pass(p, u) /\ v = w[i]
    BY <1>1
  <2>2. /\ u \in States(p) /\ Later(p, s, u)
        /\ \/ Fixed(p, u)
           \/ Cardinality(Idle(u)) + (i - 1) <= Cardinality(Idle(s))
    BY <1>6, <2>1
  <2>3. /\ v \in States(p) /\ Later(p, u, v)
        /\ Idle(v) = Idle(u) => v = u /\ Fixed(p, u)
        /\ Fixed(p, u) => v = u
    <3>1. u \in States(p) /\ v = Pass(p, u)
      BY <2>1, <2>2
    <3> HIDE DEF T, n
    <3> QED BY <3>1, PassSound
  <2>4. Later(p, s, v)
    BY <2>2, <2>3, LaterOn
  <2>5. CASE Fixed(p, u)
    BY <1>2, <2>1, <2>3, <2>4, <2>5
  <2>6. CASE ~Fixed(p, u)
    <3>1. Idle(v) # Idle(u) /\ Idle(v) \in SUBSET Idle(u)
      BY <2>3, <2>6, LaterIdle
    <3>2. /\ Cardinality(Idle(v)) <= Cardinality(Idle(u))
          /\ Cardinality(Idle(v)) # Cardinality(Idle(u))
      BY <1>3, <3>1, FS_Subset
    <3>3. Cardinality(Idle(v)) + 1 <= Cardinality(Idle(u))
      BY <1>3, <3>2
    <3>4. Cardinality(Idle(v)) + i <= Cardinality(Idle(s))
      BY <1>2, <1>3, <2>2, <2>6, <3>3
    <3> QED BY <1>2, <2>1, <2>3, <2>4, <3>4
  <2> QED BY <2>5, <2>6
<1>7. \A i \in 0..n : i \in T
  <2> HIDE DEF T, n
  <2> QED BY <1>2, <1>5, <1>6, UpTo
<1>8. Holds(n)
  BY <1>2, <1>7
<1>9. Fixed(p, w[n])
  <2>1. ~ (Cardinality(Idle(w[n])) + n <= Cardinality(Idle(s)))
    <3> HIDE DEF n
    <3>1. Cardinality(Idle(w[n])) \in Nat /\ Cardinality(Idle(s)) \in Nat
      BY <1>3
    <3> QED BY <1>2, <1>4, <3>1
  <2> QED BY <1>8, <2>1
<1> QED BY <1>1, <1>8, <1>9

-----------------------------------------------------------------------------
(* A node ends.                                                            *)

\* Node n was taken from the queue, or its effect was answered.
Taken(p, s, n) ==
    /\ s \in Snapshot(p) /\ QueueHolds(s) /\ EdgesFollow(p, s) /\ PathsFollow(p, s)
    /\ Published(p, s) /\ ~s.cancelled
    /\ s.node[n] \in {"ready", "waiting"} /\ s.effect[n] \notin Unsettled
    /\ \A m \in Nodes \ {n} : EffectFollows(s, m)

\* Node n ends, and nothing else happens but to its edges and what it publishes.
NodeEnds(p, s, t, n, status) ==
    /\ EdgesMove(p, s, t, n, status)
    /\ t.readyQueue = s.readyQueue \ {n} /\ t.anyWinner = s.anyWinner
    /\ t.effect = s.effect /\ t.paused = s.paused /\ t.cancelled = s.cancelled
    /\ s.outputs \subseteq t.outputs
    /\ \A m \in Nodes \ {n} : /\ m \in t.outputs <=> m \in s.outputs
                              /\ m \in t.routed <=> m \in s.routed
                              /\ m \in s.errors => m \in t.errors
    /\ NodePublished(p, t, n)

LEMMA EndMoved ==
  ASSUME NEW p, PlanHolds(p), NEW s, NEW n \in Nodes, Taken(p, s, n),
         NEW status \in {"completed", "failed"}, n = Entry => status = "completed",
         NEW t \in Snapshot(p), NodeEnds(p, s, t, n, status)
  PROVE  t \in States(p) /\ EdgesKept(p, s, t)
<1>1. /\ s \in Snapshot(p) /\ EdgesFollow(p, s) /\ PathsFollow(p, s) /\ Published(p, s)
      /\ QueueHolds(s) /\ ~s.cancelled /\ s.node[n] \notin Over
  BY DEF Taken, Over
<1>2. \A m \in Nodes : t.node[m] = IF m = n THEN status ELSE s.node[m]
  BY <1>1, SnapshotFields DEF NodeEnds, EdgesMove
<1>3. EdgesFollow(p, t) /\ EdgesKept(p, s, t)
  BY <1>1, EdgesMoved DEF NodeEnds
<1>4. WinnersKept(s, t)
  BY DEF NodeEnds, WinnersKept
<1>5. QueueHolds(t)
  <2>1. {m \in Nodes : t.node[m] = "ready"} = {m \in Nodes : s.node[m] = "ready"} \ {n}
    BY <1>2
  <2> QED BY <1>1, <2>1 DEF QueueHolds, NodeEnds
<1>6. PathsFollow(p, t)
  <2>1. ASSUME n # Entry PROVE PathFollows(p, t, n)
    <3>1. PathFollows(p, s, n) /\ s.node[n] \in {"ready", "waiting"}
      BY <1>1, <2>1 DEF PathsFollow, Taken
    <3>2. OnPath(p, s, n)
      BY <3>1 DEF PathFollows
    <3>3. OnPath(p, t, n)
      BY <1>3, <1>4, <3>2, PathsKept
    <3> QED BY <1>2, <3>3 DEF PathFollows
  <2>2. n = Entry => t.node[n] \in {"ready", "completed"}
    BY <1>2
  <2>3. \A m \in Nodes \ {n} : /\ t.node[m] = s.node[m] /\ t.effect[m] = s.effect[m]
                               /\ m \in t.routed <=> m \in s.routed
    BY <1>2 DEF NodeEnds
  <2> QED BY <1>1, <1>3, <1>4, <2>1, <2>2, <2>3, PathsMoved
<1>7. Published(p, t)
  <2>1. \A m \in Nodes \ {n} : /\ t.node[m] = s.node[m]
                               /\ m \in t.outputs <=> m \in s.outputs
                               /\ m \in t.routed <=> m \in s.routed
                               /\ m \in s.errors => m \in t.errors
    BY <1>2 DEF NodeEnds
  <2>2. NodePublished(p, t, n)
    BY DEF NodeEnds
  <2> QED BY <1>1, <1>3, <1>4, <2>1, <2>2, PublishedMoved
<1>8. EffectsFollow(t)
  <2>1. ASSUME NEW m \in Nodes PROVE EffectFollows(t, m)
    <3>1. CASE m = n
      BY <1>2, <3>1 DEF EffectFollows, NodeEnds, Taken
    <3>2. CASE m # n
      BY <1>2, <3>2 DEF EffectFollows, NodeEnds, Taken
    <3> QED BY <3>1, <3>2
  <2> QED BY <2>1 DEF EffectsFollow
<1>9. ~t.cancelled
  BY <1>1 DEF NodeEnds
<1> QED BY <1>3, <1>5, <1>6, <1>7, <1>8, <1>9 DEF States, Sound

\* What the end of a node and the propagation after it never take back.
Ends(p, s, t, n) ==
    /\ EdgesKept(p, s, t) /\ WinnersKept(s, t)
    /\ t.effect = s.effect /\ t.paused = s.paused /\ t.cancelled = s.cancelled
    /\ s.outputs \subseteq t.outputs
    /\ t.node[n] \in {"completed", "failed"}
    /\ \A m \in Nodes \ {n} :
          IF s.node[m] = "idle" THEN t.node[m] \in {"idle", "ready", "skipped", "failed"}
                                ELSE t.node[m] = s.node[m]

LEMMA EndSound ==
  ASSUME NEW p, PlanHolds(p), NEW s, NEW n \in Nodes, Taken(p, s, n),
         NEW status \in {"completed", "failed"}, n = Entry => status = "completed",
         NEW u \in Snapshot(p), NodeEnds(p, s, u, n, status),
         NEW t, t = Refresh(p, u)
  PROVE  Sound(p, t) /\ Fixed(p, t) /\ Ends(p, s, t, n)
<1>1. u \in States(p) /\ EdgesKept(p, s, u)
  BY EndMoved
<1>2. t \in States(p) /\ Later(p, u, t) /\ Fixed(p, t)
  BY <1>1, RefreshSound
<1>3. \A m \in Nodes : u.node[m] = IF m = n THEN status ELSE s.node[m]
  <2>1. s \in Snapshot(p)
    BY DEF Taken
  <2> QED BY <2>1, SnapshotFields DEF NodeEnds, EdgesMove
<1>4. EdgesKept(p, s, t)
  BY <1>1, <1>2 DEF Later, EdgesKept
<1>5. WinnersKept(s, t)
  BY <1>2 DEF Later, WinnersKept, NodeEnds
<1>6. /\ t.effect = s.effect /\ t.paused = s.paused /\ t.cancelled = s.cancelled
      /\ s.outputs \subseteq t.outputs
  BY <1>2 DEF Later, NodeEnds, Rest
<1>7. t.node[n] \in {"completed", "failed"}
  BY <1>2, <1>3 DEF Later
<1>8. \A m \in Nodes \ {n} :
         IF s.node[m] = "idle" THEN t.node[m] \in {"idle", "ready", "skipped", "failed"}
                               ELSE t.node[m] = s.node[m]
  BY <1>2, <1>3 DEF Later
<1>9. Ends(p, s, t, n)
  BY <1>4, <1>5, <1>6, <1>7, <1>8 DEF Ends
<1> QED BY <1>2, <1>9 DEF States

LEMMA CompleteSound ==
  ASSUME NEW p, PlanHolds(p), NEW s, NEW n \in Nodes, Taken(p, s, n),
         NEW port \in SuccessPorts(n), NEW t, t = Complete(p, s, n, port)
  PROVE  Sound(p, t) /\ Fixed(p, t) /\ Ends(p, s, t, n) /\ t.node[n] = "completed"
<1>1. PICK u : u = CompletedState(p, s, n, port)
  OBVIOUS
<1>2. t = Refresh(p, u)
  BY <1>1 DEF Complete, CompletedState
<1>3. /\ s \in Snapshot(p) /\ EdgesFollow(p, s) /\ s.node[n] \notin Over /\ Published(p, s)
  BY DEF Taken, Over
<1>4. /\ u \in Snapshot(p)
      /\ u.node = [s.node EXCEPT ![n] = "completed"]
      /\ \A e \in p.edges : u.edge[e] =
            IF e.from = n THEN IF e.port = port THEN "taken" ELSE "skipped" ELSE s.edge[e]
      /\ u.readyQueue = s.readyQueue \ {n} /\ u.anyWinner = s.anyWinner
      /\ u.errors = s.errors /\ u.routed = s.routed
      /\ u.outputs = s.outputs \cup {n} /\ u.effect = s.effect
      /\ u.paused = s.paused /\ u.cancelled = s.cancelled
  BY <1>1, <1>3, CompletedStateFields
<1>5. port # "error"
  BY DEF SuccessPorts
<1>6. EdgesMove(p, s, u, n, "completed")
  BY <1>4, <1>5 DEF EdgesMove, Outcomes
<1>7. u.node[n] = "completed"
  BY <1>3, <1>4, SnapshotFields
<1>8. NodePublished(p, u, n)
  <2>1. NodePublished(p, s, n) /\ s.node[n] # "failed"
    BY <1>3 DEF Published, Over
  <2> QED BY <1>4, <1>7, <2>1 DEF NodePublished
<1>9. NodeEnds(p, s, u, n, "completed")
  BY <1>4, <1>6, <1>8 DEF NodeEnds
<1>10. "completed" \in {"completed", "failed"}
  OBVIOUS
<1>11. Sound(p, t) /\ Fixed(p, t) /\ Ends(p, s, t, n)
  BY <1>2, <1>4, <1>9, <1>10, EndSound
<1>12. u \in States(p)
  BY <1>4, <1>9, <1>10, EndMoved
<1>13. Later(p, u, t)
  BY <1>2, <1>12, RefreshSound
<1> QED BY <1>7, <1>11, <1>13 DEF Later

LEMMA FailSound ==
  ASSUME NEW p, PlanHolds(p), NEW s, NEW n \in Nodes, n # Entry, Taken(p, s, n),
         NEW t, t = Fail(p, s, n)
  PROVE  Sound(p, t) /\ Fixed(p, t) /\ Ends(p, s, t, n)
<1>1. PICK u : u = FailedState(p, s, n)
  OBVIOUS
<1>2. t = Refresh(p, u)
  BY <1>1 DEF Fail, FailedState
<1>3. /\ s \in Snapshot(p) /\ EdgesFollow(p, s) /\ s.node[n] \notin Over /\ Published(p, s)
  BY DEF Taken, Over
<1>4. /\ u \in Snapshot(p)
      /\ u.node = [s.node EXCEPT ![n] = "failed"]
      /\ \A e \in p.edges : u.edge[e] = IF e.from = n THEN FailedEdge(p, e) ELSE s.edge[e]
      /\ u.readyQueue = s.readyQueue \ {n} /\ u.anyWinner = s.anyWinner /\ Rest(s, u)
      /\ Route(p, n) = {} => u.errors = s.errors /\ u.routed = s.routed
      /\ Route(p, n) # {} => u.errors = s.errors \cup {n} /\ u.routed = s.routed \cup {n}
  BY <1>1, <1>3, FailedStateFields
<1>5. EdgesMove(p, s, u, n, "failed")
  BY <1>4 DEF EdgesMove, Outcomes, FailedEdge
<1>6. u.node[n] = "failed"
  BY <1>3, <1>4, SnapshotFields
<1>7. NodePublished(p, u, n)
  <2>1. NodePublished(p, s, n) /\ s.node[n] # "failed" /\ s.node[n] # "completed"
    BY <1>3 DEF Published, Over
  <2>2. u.outputs = s.outputs
    BY <1>4 DEF Rest
  <2> QED BY <1>4, <1>6, <2>1, <2>2 DEF NodePublished
<1>8. NodeEnds(p, s, u, n, "failed")
  BY <1>4, <1>5, <1>7 DEF NodeEnds, Rest
<1>9. "failed" \in {"completed", "failed"}
  OBVIOUS
<1> QED BY <1>2, <1>4, <1>8, <1>9, EndSound

LEMMA EndedSound ==
  ASSUME NEW p, PlanHolds(p), NEW s, NEW n \in Nodes, n # Entry, Taken(p, s, n),
         NEW t \in Ended(p, s, n)
  PROVE  Sound(p, t) /\ Fixed(p, t) /\ Ends(p, s, t, n)
<1>1. CASE t = Fail(p, s, n)
  BY <1>1, FailSound
<1>2. ASSUME NEW port \in SuccessPorts(n), t = Complete(p, s, n, port)
      PROVE  Sound(p, t) /\ Fixed(p, t) /\ Ends(p, s, t, n)
  BY <1>2, CompleteSound
<1> QED BY <1>1, <1>2 DEF Ended

-----------------------------------------------------------------------------
(* The other changes of a snapshot.                                        *)

LEMMA FixedSame ==
  ASSUME NEW p, NEW s, NEW t, Fixed(p, s), t.edge = s.edge,
         \A n \in Nodes : t.node[n] = "idle" => s.node[n] = "idle"
  PROVE  Fixed(p, t)
<1>1. ASSUME NEW n \in Nodes PROVE Quiet(p, t, n)
  <2>1. Inbound(p, t, n) = Inbound(p, s, n)
    BY DEF Inbound
  <2>2. Quiet(p, s, n)
    BY DEF Fixed
  <2> QED BY <2>1, <2>2 DEF Quiet, ShouldSkip, ShouldFailUpstream, CanSchedule
<1> QED BY <1>1 DEF Fixed

\* The nodes stay what they are: the flags change, or what is known of an effect
\* that has no answer.
NodesStay(s, t) ==
    /\ t.node = s.node /\ t.edge = s.edge /\ t.anyWinner = s.anyWinner
    /\ t.outputs = s.outputs /\ t.errors = s.errors /\ t.routed = s.routed
    /\ \A n \in Nodes : \/ t.effect[n] = s.effect[n]
                        \/ t.effect[n] \in Unsettled /\ s.effect[n] \in Unsettled

LEMMA StaySound ==
  ASSUME NEW p, PlanHolds(p), NEW s, Sound(p, s), Fixed(p, s),
         NEW t \in Snapshot(p), NodesStay(s, t), QueueHolds(t)
  PROVE  Sound(p, t) /\ Fixed(p, t)
<1>1. EdgesFollow(p, t)
  BY DEF Sound, EdgesFollow, NodesStay
<1>2. \A n \in Nodes : Inbound(p, t, n) = Inbound(p, s, n)
  BY DEF Inbound, NodesStay
<1>3. PathsFollow(p, t)
  <2>1. ASSUME NEW n \in Nodes \ {Entry} PROVE PathFollows(p, t, n)
    <3>1. PathFollows(p, s, n)
      BY DEF Sound, PathsFollow
    <3>2. OnPath(p, s, n) => OnPath(p, t, n)
      BY <1>2 DEF OnPath, NodesStay
    <3>3. (SkippedIn(p, s, n) => SkippedIn(p, t, n)) /\ (FailedIn(p, s, n) => FailedIn(p, t, n))
      BY <1>2 DEF SkippedIn, FailedIn
    <3>4. s.effect[n] = "none" => t.effect[n] = "none"
      BY DEF NodesStay, Unsettled
    <3> QED BY <3>1, <3>2, <3>3, <3>4 DEF PathFollows, NodesStay
  <2> QED BY <2>1 DEF Sound, PathsFollow, NodesStay
<1>4. Published(p, t)
  <2>1. ASSUME NEW n \in Nodes PROVE NodePublished(p, t, n)
    <3>1. NodePublished(p, s, n)
      BY DEF Sound, Published
    <3>2. FailedIn(p, s, n) => FailedIn(p, t, n)
      BY <1>2 DEF FailedIn
    <3> QED BY <3>1, <3>2 DEF NodePublished, NodesStay
  <2> QED BY <2>1 DEF Published
<1>5. EffectsFollow(t)
  <2>1. ASSUME NEW n \in Nodes PROVE EffectFollows(t, n)
    <3>1. EffectFollows(s, n)
      BY DEF Sound, EffectsFollow
    <3>2. \/ t.effect[n] = s.effect[n]
          \/ t.effect[n] \in Unsettled /\ s.effect[n] \in Unsettled
      BY DEF NodesStay
    <3>3. "none" \notin Unsettled
      BY DEF Unsettled
    <3> QED BY <3>1, <3>2, <3>3 DEF EffectFollows, NodesStay
  <2> QED BY <2>1 DEF EffectsFollow
<1>6. Fixed(p, t)
  BY FixedSame DEF NodesStay
<1> QED BY <1>1, <1>3, <1>4, <1>5, <1>6 DEF Sound

\* A node leaves the queue and waits for its effect.
LEMMA WaitSound ==
  ASSUME NEW p, PlanHolds(p), NEW s, Sound(p, s), Fixed(p, s), ~s.cancelled,
         NEW n \in Nodes, n # Entry, s.node[n] = "ready", NEW t, t = Wait(s, n)
  PROVE  Sound(p, t) /\ Fixed(p, t)
<1>1. /\ s \in Snapshot(p) /\ EdgesFollow(p, s) /\ PathsFollow(p, s) /\ Published(p, s)
      /\ QueueHolds(s) /\ EffectsFollow(s) /\ s.node[n] \notin Over
  BY DEF Sound, Over
<1>2. /\ t.node = [s.node EXCEPT ![n] = "waiting"] /\ t.readyQueue = s.readyQueue \ {n}
      /\ t.effect = [s.effect EXCEPT ![n] = "requested"] /\ t.edge = s.edge
      /\ t.anyWinner = s.anyWinner /\ t.outputs = s.outputs /\ t.errors = s.errors
      /\ t.routed = s.routed /\ t.paused = s.paused /\ t.cancelled = s.cancelled
  BY <1>1 DEF Wait, Snapshot
<1>3. t \in Snapshot(p)
  <2>1. t = [node |-> t.node, edge |-> t.edge, readyQueue |-> t.readyQueue, effect |-> t.effect,
             anyWinner |-> t.anyWinner, outputs |-> t.outputs, errors |-> t.errors,
             routed |-> t.routed, paused |-> t.paused, cancelled |-> t.cancelled]
    BY <1>1 DEF Wait, Snapshot
  <2>2. t.node \in [Nodes -> NodeStatuses] /\ t.effect \in [Nodes -> EffectStatuses]
    BY <1>1, <1>2, SnapshotFields DEF NodeStatuses, EffectStatuses
  <2>3. t.readyQueue \in SUBSET Nodes
    BY <1>1, <1>2, SnapshotFields
  <2> QED BY <1>1, <1>2, <2>1, <2>2, <2>3, SnapshotFields DEF Snapshot
<1>4. \A m \in Nodes : /\ t.node[m] = IF m = n THEN "waiting" ELSE s.node[m]
                       /\ t.effect[m] = IF m = n THEN "requested" ELSE s.effect[m]
  BY <1>1, <1>2, SnapshotFields
<1>5. EdgesMove(p, s, t, n, "waiting")
  <2>1. \A e \in p.edges : e.from = n => s.edge[e] = "pending"
    BY <1>1, OpenPending
  <2> QED BY <1>2, <2>1 DEF EdgesMove, Outcomes
<1>6. EdgesFollow(p, t) /\ EdgesKept(p, s, t) /\ WinnersKept(s, t)
  BY <1>1, <1>2, <1>5, EdgesMoved DEF WinnersKept
<1>7. QueueHolds(t)
  <2>1. {m \in Nodes : t.node[m] = "ready"} = {m \in Nodes : s.node[m] = "ready"} \ {n}
    BY <1>4
  <2> QED BY <1>1, <1>2, <2>1 DEF QueueHolds
<1>8. PathsFollow(p, t)
  <2>1. PathFollows(p, t, n)
    <3>1. OnPath(p, s, n)
      BY <1>1 DEF PathsFollow, PathFollows
    <3>2. OnPath(p, t, n)
      BY <1>6, <3>1, PathsKept
    <3> QED BY <1>4, <3>2 DEF PathFollows
  <2>2. \A m \in Nodes \ {n} : /\ t.node[m] = s.node[m] /\ t.effect[m] = s.effect[m]
                               /\ m \in t.routed <=> m \in s.routed
    BY <1>2, <1>4
  <2> QED BY <1>1, <1>6, <2>1, <2>2, PathsMoved
<1>9. Published(p, t)
  <2>1. \A m \in Nodes \ {n} : /\ t.node[m] = s.node[m]
                               /\ m \in t.outputs <=> m \in s.outputs
                               /\ m \in t.routed <=> m \in s.routed
                               /\ m \in s.errors => m \in t.errors
    BY <1>2, <1>4
  <2>2. NodePublished(p, t, n)
    BY <1>1, <1>2, <1>4 DEF Published, NodePublished
  <2> QED BY <1>1, <1>6, <2>1, <2>2, PublishedMoved
<1>10. EffectsFollow(t)
  <2>1. ASSUME NEW m \in Nodes PROVE EffectFollows(t, m)
    <3>1. CASE m = n
      BY <1>4, <3>1 DEF EffectFollows, Unsettled
    <3>2. CASE m # n
      BY <1>1, <1>2, <1>4, <3>2 DEF EffectsFollow, EffectFollows
    <3> QED BY <3>1, <3>2
  <2> QED BY <2>1 DEF EffectsFollow
<1>11. Fixed(p, t)
  <2>1. \A m \in Nodes : t.node[m] = "idle" => s.node[m] = "idle"
    BY <1>4
  <2>2. Fixed(p, s) /\ t.edge = s.edge
    BY <1>2
  <2> QED BY <2>1, <2>2, FixedSame
<1> QED BY <1>3, <1>6, <1>7, <1>8, <1>9, <1>10, <1>11 DEF Sound

\* startRun.
LEMMA StartedSound ==
  ASSUME NEW p, PlanHolds(p), NEW s, s = Started(p)
  PROVE  Sound(p, s) /\ Fixed(p, s)
<1>1. s \in Snapshot(p)
  BY KernelAssumption DEF Started, Snapshot, NodeStatuses, EdgeStatuses, EffectStatuses, NoWinner
<1>2. /\ \A n \in Nodes : /\ s.node[n] = IF n = Entry THEN "ready" ELSE "idle"
                          /\ s.effect[n] = "none" /\ s.anyWinner[n] = NoWinner
      /\ \A e \in p.edges : s.edge[e] = "pending"
      /\ s.readyQueue = {Entry} /\ s.outputs = {} /\ s.errors = {} /\ s.routed = {}
      /\ ~s.cancelled
  BY DEF Started
<1>3. QueueHolds(s)
  <2>1. {n \in Nodes : s.node[n] = "ready"} = {Entry}
    BY <1>2, KernelAssumption
  <2> QED BY <1>2, <2>1 DEF QueueHolds
<1>4. EdgesFollow(p, s)
  <2>1. \A e \in p.edges : s.node[e.from] \in {"ready", "idle"}
    BY <1>2 DEF PlanHolds, Edges
  <2> QED BY <1>2, <2>1 DEF EdgesFollow, Outcomes
<1>5. PathsFollow(p, s)
  BY <1>2, KernelAssumption DEF PathsFollow, PathFollows
<1>6. Published(p, s)
  BY <1>2 DEF Published, NodePublished
<1>7. EffectsFollow(s)
  BY <1>2 DEF EffectsFollow, EffectFollows, Unsettled
<1>8. ASSUME NEW n \in Nodes PROVE Quiet(p, s, n)
  <2>1. CASE n = Entry
    BY <1>2, <2>1 DEF Quiet
  <2>2. CASE n # Entry
    <3>1. Into(p, n) # {} /\ Into(p, n) \subseteq p.edges
      BY <2>2 DEF PlanHolds, Into
    <3>2. Inbound(p, s, n) = {"pending"}
      BY <1>2, <3>1 DEF Inbound
    <3>3. p.join[n] \in {"none", "all", "any"}
      BY DEF PlanHolds
    <3> QED BY <3>2, <3>3 DEF Quiet, ShouldSkip, ShouldFailUpstream, CanSchedule
  <2> QED BY <2>1, <2>2
<1>9. Fixed(p, s)
  BY <1>8 DEF Fixed
<1> QED BY <1>1, <1>3, <1>4, <1>5, <1>6, <1>7, <1>9 DEF Sound

-----------------------------------------------------------------------------
(* Every command keeps the run sound and leaves nothing to propagate.      *)

IInv == plan \in Plans /\ Sound(plan, run) /\ Fixed(plan, run)

LEMMA InitIInv == Init => IInv
<1> SUFFICES ASSUME Init PROVE IInv
  OBVIOUS
<1>1. plan \in Plans /\ run = Started(plan)
  BY DEF Init
<1>2. PlanHolds(plan)
  BY <1>1, PlanFacts
<1>3. Sound(plan, run) /\ Fixed(plan, run)
  BY <1>1, <1>2, StartedSound
<1> QED BY <1>1, <1>3 DEF IInv

\* A node at the head of the queue ends, or waits.
LEMMA StepTo ==
  ASSUME IInv, Step
  PROVE  \/ run' = run
         \/ \E n \in Nodes :
               /\ ~run.cancelled /\ ~run.paused /\ run.node[n] = "ready" /\ Taken(plan, run, n)
               /\ \/ Sound(plan, run') /\ Fixed(plan, run') /\ Ends(plan, run, run', n)
                  \/ n # Entry /\ Kind[n] \in {"call", "timer"} /\ run' = Wait(run, n)
<1>1. PlanHolds(plan) /\ Sound(plan, run) /\ Fixed(plan, run) /\ ~run.cancelled
  BY PlanFacts DEF IInv, Step
<1>2. CASE run.paused \/ run.readyQueue = {}
  BY <1>2 DEF Step
<1>3. CASE ~run.paused /\ run.readyQueue # {}
  <2>1. PICK n : n = Min(run.readyQueue)
    OBVIOUS
  <2>2. run.readyQueue = {m \in Nodes : run.node[m] = "ready"}
    BY <1>1 DEF Sound, QueueHolds
  <2>3. n \in run.readyQueue
    <3>1. run.readyQueue \in SUBSET Nat
      BY <2>2, KernelAssumption
    <3> QED BY <1>3, <2>1, <3>1, MinType
  <2>4. n \in Nodes /\ run.node[n] = "ready"
    BY <2>2, <2>3
  <2>5. Taken(plan, run, n)
    <3>1. run.effect[n] = "none"
      BY <1>1, <2>4 DEF Sound, EffectsFollow, EffectFollows
    <3> QED BY <1>1, <2>4, <3>1 DEF Sound, EffectsFollow, Taken, Unsettled
  <2>6. run' \in CASE n = Entry -> {Complete(plan, run, n, "success")}
                   [] n # Entry /\ Kind[n] = "cpu" -> Ended(plan, run, n)
                   [] OTHER -> {Fail(plan, run, n), Wait(run, n)}
    BY <1>3, <2>1 DEF Step
  <2>7. \/ Sound(plan, run') /\ Fixed(plan, run') /\ Ends(plan, run, run', n)
        \/ n # Entry /\ Kind[n] \in {"call", "timer"} /\ run' = Wait(run, n)
    <3>1. CASE n = Entry
      <4>1. "success" \in SuccessPorts(n)
        BY <3>1, KernelAssumption DEF SuccessPorts
      <4>2. run' = Complete(plan, run, n, "success")
        BY <2>6, <3>1
      <4> QED BY <1>1, <2>4, <2>5, <4>1, <4>2, CompleteSound
    <3>2. CASE n # Entry /\ Kind[n] = "cpu"
      <4>1. run' \in Ended(plan, run, n)
        BY <2>6, <3>2
      <4> QED BY <1>1, <2>4, <2>5, <3>2, <4>1, EndedSound
    <3>3. CASE n # Entry /\ Kind[n] # "cpu"
      <4>1. run' \in {Fail(plan, run, n), Wait(run, n)}
        BY <2>6, <3>3
      <4>2. CASE run' = Fail(plan, run, n)
        BY <1>1, <2>4, <2>5, <3>3, <4>2, FailSound
      <4>3. CASE run' = Wait(run, n)
        BY <2>4, <3>3, <4>3, KernelAssumption
      <4> QED BY <4>1, <4>2, <4>3
    <3> QED BY <3>1, <3>2, <3>3
  <2> QED BY <1>1, <1>3, <2>4, <2>5, <2>7
<1> QED BY <1>2, <1>3

\* A snapshot whose effect of n was answered.
Answered(s, n, answer) == [s EXCEPT !.effect[n] = answer]

\* An answer ends the node that waits for it.
LEMMA SettleTo ==
  ASSUME IInv, NEW n \in Nodes, NEW answer \in Settlers, Settle(n, answer)
  PROVE  \/ run' = run
         \/ /\ ~run.cancelled /\ run.node[n] = "waiting" /\ run.effect[n] \in Unsettled
            /\ Taken(plan, Answered(run, n, answer), n)
            /\ Sound(plan, run') /\ Fixed(plan, run')
            /\ Ends(plan, Answered(run, n, answer), run', n)
<1>1. PlanHolds(plan) /\ Sound(plan, run) /\ run \in Snapshot(plan)
  BY PlanFacts DEF IInv, Sound
<1>2. CASE run.effect[n] \in Settlers \/ run.cancelled
  BY <1>2 DEF Settle
<1>3. CASE run.effect[n] \notin Settlers /\ ~run.cancelled
  <2>1. run.effect[n] \in EffectStatuses /\ run.effect[n] # "none"
    BY <1>1, SnapshotFields DEF Settle
  <2>2. run.effect[n] \in Unsettled
    BY <1>3, <2>1 DEF EffectStatuses, Unsettled
  <2>3. run.node[n] = "waiting" /\ n # Entry
    BY <1>1, <2>2 DEF Sound, EffectsFollow, EffectFollows, PathsFollow
  <2>4. PICK s : s = Answered(run, n, answer)
    OBVIOUS
  <2>5. /\ s \in Snapshot(plan) /\ s.node = run.node /\ s.edge = run.edge
        /\ s.readyQueue = run.readyQueue /\ s.anyWinner = run.anyWinner
        /\ s.outputs = run.outputs /\ s.errors = run.errors /\ s.routed = run.routed
        /\ s.cancelled = run.cancelled /\ s.effect = [run.effect EXCEPT ![n] = answer]
    BY <1>1, <2>4 DEF Answered, Snapshot, EffectStatuses
  <2>6. \A m \in Nodes : s.effect[m] = IF m = n THEN answer ELSE run.effect[m]
    BY <1>1, <2>5, SnapshotFields
  <2>7. Taken(plan, s, n)
    <3>1. QueueHolds(s) /\ EdgesFollow(plan, s)
      BY <1>1, <2>5 DEF Sound, QueueHolds, EdgesFollow
    <3>2. \A m \in Nodes : Inbound(plan, s, m) = Inbound(plan, run, m)
      BY <2>5 DEF Inbound
    <3>3. PathsFollow(plan, s)
      <4>1. ASSUME NEW m \in Nodes \ {Entry} PROVE PathFollows(plan, s, m)
        <5>1. PathFollows(plan, run, m)
          BY <1>1 DEF Sound, PathsFollow
        <5>2. OnPath(plan, run, m) => OnPath(plan, s, m)
          BY <2>5, <3>2 DEF OnPath
        <5>3. /\ SkippedIn(plan, run, m) => SkippedIn(plan, s, m)
              /\ FailedIn(plan, run, m) => FailedIn(plan, s, m)
          BY <3>2 DEF SkippedIn, FailedIn
        <5>4. m # n \/ run.node[m] = "waiting"
          BY <2>3
        <5> QED BY <2>5, <2>6, <5>1, <5>2, <5>3, <5>4 DEF PathFollows
      <4> QED BY <1>1, <2>5, <4>1 DEF Sound, PathsFollow
    <3>4. Published(plan, s)
      <4>1. ASSUME NEW m \in Nodes PROVE NodePublished(plan, s, m)
        <5>1. NodePublished(plan, run, m)
          BY <1>1 DEF Sound, Published
        <5>2. FailedIn(plan, run, m) => FailedIn(plan, s, m)
          BY <3>2 DEF FailedIn
        <5> QED BY <2>5, <5>1, <5>2 DEF NodePublished
      <4> QED BY <4>1 DEF Published
    <3>5. \A m \in Nodes \ {n} : EffectFollows(s, m)
      BY <1>1, <2>5, <2>6 DEF Sound, EffectsFollow, EffectFollows
    <3>6. s.effect[n] \notin Unsettled
      BY <2>6 DEF Settlers, Unsettled
    <3> QED BY <1>3, <2>3, <2>5, <3>1, <3>3, <3>4, <3>5, <3>6 DEF Taken
  <2>8. run' \in Ended(plan, s, n)
    BY <1>3, <2>3, <2>4 DEF Settle, Answered
  <2>9. Sound(plan, run') /\ Fixed(plan, run') /\ Ends(plan, s, run', n)
    BY <1>1, <2>3, <2>7, <2>8, EndedSound
  <2> QED BY <1>3, <2>2, <2>3, <2>4, <2>7, <2>9
<1> QED BY <1>2, <1>3

\* The other commands leave the nodes as they are.
LEMMA StayTo ==
  ASSUME IInv, Pause \/ Resume \/ Cancel \/ \E n \in Nodes : DispatchStarted(n) \/ LeaveUnknown(n)
  PROVE  NodesStay(run, run') /\ run' \in Snapshot(plan) /\ QueueHolds(run') /\ plan' = plan
<1>1. run \in Snapshot(plan) /\ QueueHolds(run)
  BY DEF IInv, Sound
<1>2. CASE Pause
  BY <1>1, <1>2 DEF Pause, NodesStay, Snapshot, QueueHolds
<1>3. CASE Resume
  BY <1>1, <1>3 DEF Resume, NodesStay, Snapshot, QueueHolds
<1>4. CASE Cancel
  BY <1>1, <1>4 DEF Cancel, NodesStay, Snapshot, QueueHolds
<1>5. ASSUME NEW n \in Nodes, NEW status \in {"dispatchStarted", "unknown"},
             run.effect[n] \in Unsettled, run' = [run EXCEPT !.effect[n] = status], plan' = plan
      PROVE  NodesStay(run, run') /\ run' \in Snapshot(plan) /\ QueueHolds(run') /\ plan' = plan
  <2>1. /\ run' \in Snapshot(plan) /\ run'.node = run.node /\ run'.edge = run.edge
        /\ run'.readyQueue = run.readyQueue /\ run'.anyWinner = run.anyWinner
        /\ run'.outputs = run.outputs /\ run'.errors = run.errors /\ run'.routed = run.routed
        /\ run'.cancelled = run.cancelled /\ run'.effect = [run.effect EXCEPT ![n] = status]
    BY <1>1, <1>5 DEF Snapshot, EffectStatuses
  <2>2. \A m \in Nodes : run'.effect[m] = IF m = n THEN status ELSE run.effect[m]
    BY <1>1, <2>1, SnapshotFields
  <2>3. status \in Unsettled
    BY DEF Unsettled
  <2>4. NodesStay(run, run')
    BY <1>5, <2>1, <2>2, <2>3 DEF NodesStay
  <2> QED BY <1>1, <1>5, <2>1, <2>4 DEF QueueHolds
<1>6. ASSUME run' = run, plan' = plan
      PROVE  NodesStay(run, run') /\ run' \in Snapshot(plan) /\ QueueHolds(run') /\ plan' = plan
  BY <1>1, <1>6 DEF NodesStay
<1>7. ASSUME NEW n \in Nodes, DispatchStarted(n)
      PROVE  NodesStay(run, run') /\ run' \in Snapshot(plan) /\ QueueHolds(run') /\ plan' = plan
  <2>1. CASE run.effect[n] = "requested"
    <3>1. run.effect[n] \in Unsettled /\ plan' = plan
          /\ run' = [run EXCEPT !.effect[n] = "dispatchStarted"]
      BY <1>7, <2>1 DEF DispatchStarted, Unsettled
    <3> QED BY <1>5, <3>1
  <2>2. CASE run.effect[n] # "requested"
    BY <1>6, <1>7, <2>2 DEF DispatchStarted
  <2> QED BY <2>1, <2>2
<1>8. ASSUME NEW n \in Nodes, LeaveUnknown(n)
      PROVE  NodesStay(run, run') /\ run' \in Snapshot(plan) /\ QueueHolds(run') /\ plan' = plan
  <2>1. CASE ~run.cancelled
    <3>1. run.effect[n] \in Unsettled /\ plan' = plan
          /\ run' = [run EXCEPT !.effect[n] = "unknown"]
      BY <1>8, <2>1 DEF LeaveUnknown
    <3> QED BY <1>5, <3>1
  <2>2. CASE run.cancelled
    BY <1>6, <1>8, <2>2 DEF LeaveUnknown
  <2> QED BY <2>1, <2>2
<1> QED BY <1>2, <1>3, <1>4, <1>7, <1>8

LEMMA PlanStays == Next => plan' = plan
BY DEF Next, Step, Pause, Resume, Cancel, DispatchStarted, LeaveUnknown, Settle

LEMMA NextIInv == IInv /\ [Next]_vars => IInv'
<1> SUFFICES ASSUME IInv, [Next]_vars PROVE IInv'
  OBVIOUS
<1>1. plan \in Plans /\ PlanHolds(plan) /\ Sound(plan, run) /\ Fixed(plan, run)
  BY PlanFacts DEF IInv
<1>2. plan' = plan
  BY PlanStays DEF vars
<1>3. ASSUME run' = run PROVE IInv'
  BY <1>1, <1>2, <1>3 DEF IInv
<1>4. ASSUME Sound(plan, run'), Fixed(plan, run') PROVE IInv'
  BY <1>1, <1>2, <1>4 DEF IInv
<1>5. CASE Step
  <2>1. ASSUME NEW n \in Nodes, ~run.cancelled, run.node[n] = "ready", n # Entry,
               run' = Wait(run, n)
        PROVE  IInv'
    <3>1. Sound(plan, run') /\ Fixed(plan, run')
      BY <1>1, <2>1, WaitSound
    <3> QED BY <1>4, <3>1
  <2> QED BY <1>3, <1>4, <1>5, <2>1, StepTo
<1>6. CASE Pause \/ Resume \/ Cancel \/ \E n \in Nodes : DispatchStarted(n) \/ LeaveUnknown(n)
  <2>1. NodesStay(run, run') /\ run' \in Snapshot(plan) /\ QueueHolds(run')
    BY <1>6, StayTo
  <2>2. Sound(plan, run') /\ Fixed(plan, run')
    BY <1>1, <2>1, StaySound
  <2> QED BY <1>4, <2>2
<1>7. ASSUME NEW n \in Nodes, NEW answer \in Settlers, Settle(n, answer) PROVE IInv'
  BY <1>3, <1>4, <1>7, SettleTo
<1>8. CASE vars' = vars
  BY <1>3, <1>8 DEF vars
<1> QED BY <1>5, <1>6, <1>7, <1>8 DEF Next

LEMMA IInvHolds == Spec => []IInv
<1>1. Init => IInv
  BY InitIInv
<1>2. IInv /\ [Next]_vars => IInv'
  BY NextIInv
<1> QED BY <1>1, <1>2, PTL DEF Spec

-----------------------------------------------------------------------------
(* The theorems about paths.                                               *)

\* The state of a run keeps its types, and the ready queue holds exactly the
\* nodes that are ready, for every definition the compiler accepts.
THEOREM TypeCorrect == Spec => []TypeOK
<1>1. IInv => TypeOK
  BY SnapshotFields DEF IInv, Sound, QueueHolds, TypeOK
<1> QED BY <1>1, IInvHolds, PTL

\* Where the nodes before a node are over, its edges are resolved, and the node
\* is not idle any more.
LEMMA NoneIdle ==
  ASSUME NEW p, PlanHolds(p), NEW s, Sound(p, s), Fixed(p, s), NEW n \in Nodes,
         \A m \in Nodes : m < n => s.node[m] \in Over
  PROVE  s.node[n] # "idle"
<1> SUFFICES ASSUME s.node[n] = "idle" PROVE FALSE
  OBVIOUS
<1>1. n # Entry
  BY DEF Sound, PathsFollow
<1>2. Into(p, n) # {} /\ Into(p, n) \subseteq p.edges
  BY <1>1 DEF PlanHolds, Into
<1>3. ASSUME NEW e \in Into(p, n) PROVE s.edge[e] \in {"taken", "skipped", "failed"}
  <2>1. e \in p.edges /\ e.from \in Nodes /\ e.from < n
    BY <1>2, <1>3 DEF PlanHolds, Into, Edges
  <2>2. s.node[e.from] \in Over /\ s.edge[e] \in Outcomes(p, s.node[e.from], e)
    BY <2>1 DEF Sound, EdgesFollow
  <2> QED BY <2>2 DEF Over, Outcomes
<1>4. Inbound(p, s, n) # {} /\ Inbound(p, s, n) \subseteq {"taken", "skipped", "failed"}
  BY <1>2, <1>3 DEF Inbound
<1>5. ~ShouldSkip(p, s, n) /\ ~ShouldFailUpstream(p, s, n) /\ ~CanSchedule(p, s, n)
  BY DEF Fixed, Quiet
<1>6. "failed" \notin Inbound(p, s, n) /\ "pending" \notin Inbound(p, s, n)
  BY <1>4, <1>5 DEF ShouldFailUpstream
<1>7. Inbound(p, s, n) # {"skipped"}
  BY <1>5 DEF ShouldSkip
<1>8. p.join[n] = "none"
  <2>1. p.join[n] \in {"none", "all", "any"}
    BY DEF PlanHolds
  <2> QED BY <1>5, <1>6, <2>1 DEF CanSchedule
<1>9. PICK e : Into(p, n) = {e}
  BY <1>1, <1>8 DEF PlanHolds
<1>10. Inbound(p, s, n) = {s.edge[e]}
  BY <1>9 DEF Inbound
<1>11. Inbound(p, s, n) = {"taken"}
  BY <1>4, <1>6, <1>7, <1>10
<1> QED BY <1>5, <1>8, <1>11 DEF CanSchedule

\* Where nothing is ready and nothing waits, every node is over: the lowest idle
\* node would have only resolved edges, and propagation would move it.
LEMMA NothingIdle ==
  ASSUME NEW p, PlanHolds(p), NEW s, Sound(p, s), Fixed(p, s),
         \A n \in Nodes : s.node[n] \notin {"ready", "waiting"}
  PROVE  \A n \in Nodes : s.node[n] \in Over
<1>1. \A n \in Nodes : s.node[n] \in Over \cup {"idle"}
  <2> TAKE n \in Nodes
  <2>1. s.node[n] \in NodeStatuses /\ s.node[n] # "waiting" /\ s.node[n] # "ready"
    BY SnapshotFields DEF Sound
  <2> QED BY <2>1 DEF NodeStatuses, Over
<1>2. Idle(s) = {}
  <2> SUFFICES ASSUME Idle(s) # {} PROVE FALSE
    OBVIOUS
  <2>1. Idle(s) \in SUBSET Nat
    BY KernelAssumption DEF Idle
  <2>2. PICK n \in Idle(s) : \A m \in Idle(s) : n <= m
    BY <2>1, Least
  <2>3. \A m \in Nodes : m < n => s.node[m] \in Over
    <3> SUFFICES ASSUME NEW m \in Nodes, m < n PROVE s.node[m] \in Over
      OBVIOUS
    <3>1. n \in Nat /\ m \in Nat
      BY <2>1, KernelAssumption
    <3>2. m \notin Idle(s)
      BY <2>2, <3>1
    <3> QED BY <1>1, <3>2 DEF Idle
  <2>4. n \in Nodes /\ s.node[n] = "idle"
    BY DEF Idle
  <2> QED BY <2>3, <2>4, NoneIdle
<1> QED BY <1>1, <1>2 DEF Idle

LEMMA WorkGoesOn == IInv => NoStall
<1> SUFFICES ASSUME IInv, Status(run) \in {"running", "waiting", "paused"},
                    ~ \E n \in Nodes : run.node[n] = "ready",
                    ~ \E n \in Nodes : run.node[n] = "waiting" /\ run.effect[n] \in Unsettled
             PROVE  FALSE
  BY DEF NoStall
<1>1. PlanHolds(plan) /\ Sound(plan, run) /\ Fixed(plan, run) /\ run \in Snapshot(plan)
  BY PlanFacts DEF IInv, Sound
<1>2. \A n \in Nodes : run.effect[n] \notin Unsettled /\ run.node[n] \notin {"ready", "waiting"}
  BY <1>1 DEF Sound, EffectsFollow, EffectFollows
<1>3. \A n \in Nodes : run.node[n] \in {"completed", "failed", "skipped"}
  BY <1>1, <1>2, NothingIdle DEF Over
<1>4. \A e \in DOMAIN run.edge : run.edge[e] # "pending"
  <2> SUFFICES ASSUME NEW e \in plan.edges PROVE run.edge[e] # "pending"
    BY <1>1, SnapshotFields
  <2>1. e.from \in Nodes
    BY <1>1 DEF PlanHolds, Edges
  <2>2. run.node[e.from] \in {"completed", "failed", "skipped"}
    BY <1>3, <2>1
  <2>3. run.edge[e] \in Outcomes(plan, run.node[e.from], e)
    BY <1>1 DEF Sound, EdgesFollow
  <2> QED BY <2>2, <2>3 DEF Outcomes
<1>5. Status(run) \in {"cancelled", "failed", "completed"}
  <2>1. CASE run.cancelled
    BY <2>1 DEF Status
  <2>2. CASE ~run.cancelled
    BY <1>2, <1>3, <1>4, <2>2 DEF Status
  <2> QED BY <2>1, <2>2
<1> QED BY <1>5

LEMMA StartedOnPath == IInv => StartsOnPath
<1> SUFFICES ASSUME IInv, NEW n \in Nodes \ {Entry}, Began(n) PROVE OnPath(plan, run, n)
  BY DEF StartsOnPath, OnPath
<1>1. PathFollows(plan, run, n)
  BY DEF IInv, Sound, PathsFollow
<1> QED BY <1>1 DEF PathFollows, Began

LEMMA SkippedUnreached == IInv => SkippedIffUnreached
<1> SUFFICES ASSUME IInv, NEW n \in Nodes \ {Entry}
             PROVE  run.node[n] = "skipped" <=> SkippedIn(plan, run, n)
  BY DEF SkippedIffUnreached, SkippedIn
<1>1. PathFollows(plan, run, n) /\ Quiet(plan, run, n) /\ PlanHolds(plan)
  BY PlanFacts DEF IInv, Sound, PathsFollow, Fixed
<1>2. ASSUME SkippedIn(plan, run, n) PROVE ~OnPath(plan, run, n) /\ ~FailedIn(plan, run, n)
  <2>1. ~FailedIn(plan, run, n)
    BY <1>2 DEF SkippedIn, FailedIn
  <2>2. "taken" \notin Inbound(plan, run, n)
    BY <1>2 DEF SkippedIn
  <2>3. ~ \E e \in Into(plan, n) : run.edge[e] = "taken"
    BY <2>2 DEF Inbound
  <2>4. plan.join[n] \in {"none", "all", "any"}
    BY <1>1 DEF PlanHolds
  <2>5. ~OnPath(plan, run, n)
    <3>1. CASE plan.join[n] = "none"
      BY <2>2, <3>1 DEF OnPath
    <3>2. CASE plan.join[n] = "all"
      BY <2>2, <3>2 DEF OnPath
    <3>3. CASE plan.join[n] = "any"
      BY <2>3, <3>3 DEF OnPath
    <3> QED BY <2>4, <3>1, <3>2, <3>3
  <2> QED BY <2>1, <2>5
<1>3. run.node[n] = "skipped" => SkippedIn(plan, run, n)
  BY <1>1 DEF PathFollows
<1>4. SkippedIn(plan, run, n) => run.node[n] # "idle"
  BY <1>1 DEF Quiet, ShouldSkip, SkippedIn
<1> QED BY <1>1, <1>2, <1>3, <1>4 DEF PathFollows

LEMMA HandledFailures == IInv => CompletedIsHandled
<1> SUFFICES ASSUME IInv, Status(run) = "completed", NEW n \in Nodes, run.node[n] = "failed"
             PROVE  \E e \in OutOf(plan, n, {"error"}) : run.edge[e] = "taken"
  BY DEF CompletedIsHandled
<1>1. ~run.cancelled
  BY DEF Status
<1>2. ~ \E m \in Nodes \ run.routed : run.node[m] = "failed"
  BY <1>1 DEF Status
<1>3. n \in run.routed
  BY <1>2
<1>4. Route(plan, n) # {} /\ EdgesFollow(plan, run)
  BY <1>3 DEF IInv, Sound, Published, NodePublished
<1>5. PICK e \in Route(plan, n) : TRUE
  BY <1>4
<1>6. e \in plan.edges /\ e.from = n /\ e.port = "error"
  BY <1>5 DEF Route, OutOf
<1>7. run.edge[e] \in Outcomes(plan, "failed", e)
  BY <1>4, <1>6 DEF EdgesFollow
<1>8. run.edge[e] = "taken"
  BY <1>4, <1>6, <1>7 DEF Outcomes
<1> QED BY <1>5, <1>8 DEF Route

\* Nodes are started, skipped and failed along the paths that were taken, a
\* completed run has no failure that was not taken over, and a run that is not
\* over has a node that is ready or an effect without an answer: the
\* propagation of refreshIdleNodes leaves nothing behind, whatever the graph and
\* the order of its nodes.
THEOREM PathsHold == Spec => []PathsAreKept
<1>1. IInv => PathsAreKept
  BY WorkGoesOn, StartedOnPath, SkippedUnreached, HandledFailures DEF PathsAreKept
<1> QED BY <1>1, IInvHolds, PTL

\* What a command never takes back.
Final(p, s, t) ==
    /\ \A e \in p.edges : s.edge[e] # "pending" => t.edge[e] = s.edge[e]
    /\ \A n \in Nodes : s.anyWinner[n] # NoWinner => t.anyWinner[n] = s.anyWinner[n]
    /\ \A n \in Nodes : s.node[n] \in {"completed", "failed", "skipped"} =>
           t.node[n] = s.node[n]
    /\ s.outputs \subseteq t.outputs

LEMMA EndsFinal ==
  ASSUME NEW p, NEW s, NEW t, NEW n \in Nodes, Ends(p, s, t, n),
         s.node[n] \in {"ready", "waiting"}
  PROVE  Final(p, s, t)
<1>1. \A m \in Nodes : s.node[m] \in {"completed", "failed", "skipped"} =>
         t.node[m] = s.node[m]
  <2> TAKE m \in Nodes
  <2>1. CASE m = n
    BY <2>1
  <2>2. CASE m # n
    BY <2>2 DEF Ends
  <2> QED BY <2>1, <2>2
<1> QED BY <1>1 DEF Ends, EdgesKept, WinnersKept, Final

LEMMA NextFinal == IInv /\ [Next]_vars => Final(plan, run, run')
<1> SUFFICES ASSUME IInv, [Next]_vars PROVE Final(plan, run, run')
  OBVIOUS
<1>1. ASSUME run' = run PROVE Final(plan, run, run')
  BY <1>1 DEF Final
<1>2. ASSUME NodesStay(run, run') PROVE Final(plan, run, run')
  BY <1>2 DEF NodesStay, Final
<1>3. CASE Step
  <2>1. ASSUME NEW n \in Nodes, run.node[n] = "ready", run' = Wait(run, n)
        PROVE  Final(plan, run, run')
    <3>1. run \in Snapshot(plan)
      BY DEF IInv, Sound
    <3>2. /\ run'.edge = run.edge /\ run'.anyWinner = run.anyWinner
          /\ run'.outputs = run.outputs /\ run'.node = [run.node EXCEPT ![n] = "waiting"]
      BY <2>1, <3>1 DEF Wait, Snapshot
    <3>3. \A m \in Nodes \ {n} : run'.node[m] = run.node[m]
      BY <3>1, <3>2, SnapshotFields
    <3> QED BY <2>1, <3>2, <3>3 DEF Final
  <2> QED BY <1>1, <1>3, <2>1, StepTo, EndsFinal
<1>4. CASE Pause \/ Resume \/ Cancel \/ \E n \in Nodes : DispatchStarted(n) \/ LeaveUnknown(n)
  BY <1>2, <1>4, StayTo
<1>5. ASSUME NEW n \in Nodes, NEW answer \in Settlers, Settle(n, answer)
      PROVE  Final(plan, run, run')
  <2>1. CASE run' = run
    BY <1>1, <2>1
  <2>2. PICK s : s = Answered(run, n, answer)
    OBVIOUS
  <2>3. CASE run.node[n] = "waiting" /\ Ends(plan, s, run', n)
    <3>1. s.node = run.node /\ s.edge = run.edge /\ s.anyWinner = run.anyWinner
          /\ s.outputs = run.outputs
      BY <2>2 DEF Answered, IInv, Sound, Snapshot
    <3>2. Final(plan, s, run')
      BY <2>3, <3>1, EndsFinal
    <3> QED BY <3>1, <3>2 DEF Final
  <2> QED BY <1>5, <2>1, <2>2, <2>3, SettleTo
<1>6. CASE vars' = vars
  BY <1>1, <1>6 DEF vars
<1> QED BY <1>3, <1>4, <1>5, <1>6 DEF Next

\* A resolved edge, the winner of an ANY, a published output and the end of a
\* node stay what they are, whatever command comes.
THEOREM PastStays == Spec => PastIsFinal
<1>1. IInv /\ [Next]_vars =>
        [/\ \A e \in plan.edges : run.edge[e] # "pending" => run'.edge[e] = run.edge[e]
         /\ \A n \in Nodes : run.anyWinner[n] # NoWinner => run'.anyWinner[n] = run.anyWinner[n]
         /\ \A n \in Nodes : run.node[n] \in {"completed", "failed", "skipped"} =>
                run'.node[n] = run.node[n]
         /\ run.outputs \subseteq run'.outputs]_vars
  BY NextFinal DEF Final
<1> QED BY <1>1, IInvHolds, PTL DEF Spec, PastIsFinal

-----------------------------------------------------------------------------
(* References.                                                             *)

\* What computeAvailability says of node n, from what f says of the others.
AvailableAt(d, f, n) ==
    LET before == {e.from : e \in Into(d, n)}
        onError == \E e \in Into(d, n) : e.port = "error"
    IN  CASE n = Entry -> [success |-> {}, errors |-> {}]
          [] n # Entry /\ d.join[n] # "none" ->
               [success |-> {m \in Nodes : \A b \in before : m \in f[b].success},
                errors |-> {}]
          [] OTHER ->
               [success |-> (UNION {f[b].success : b \in before})
                              \cup (IF onError THEN {} ELSE before),
                errors |-> (UNION {f[b].errors : b \in before})
                              \cup (IF onError THEN before ELSE {})]

\* It depends on the nodes before n alone.
LEMMA AvailableBefore ==
  ASSUME NEW p, PlanHolds(p), NEW n \in Nodes, NEW f, NEW g,
         \A m \in Nodes : m < n => f[m] = g[m]
  PROVE  AvailableAt(p, f, n) = AvailableAt(p, g, n)
<1> DEFINE before == {e.from : e \in Into(p, n)}
<1>1. \A b \in before : f[b] = g[b]
  <2> SUFFICES ASSUME NEW e \in Into(p, n) PROVE f[e.from] = g[e.from]
    OBVIOUS
  <2>1. e.from \in Nodes /\ e.from < n
    BY DEF Into, PlanHolds, Edges
  <2> QED BY <2>1
<1>2. /\ {f[b].success : b \in before} = {g[b].success : b \in before}
      /\ {f[b].errors : b \in before} = {g[b].errors : b \in before}
      /\ {m \in Nodes : \A b \in before : m \in f[b].success}
           = {m \in Nodes : \A b \in before : m \in g[b].success}
  <2> HIDE DEF before
  <2> QED BY <1>1
<1> QED BY <1>2 DEF AvailableAt

\* A node with a single edge adds the node before it.
LEMMA AvailableOne ==
  ASSUME NEW p, NEW f, NEW n, n # Entry, p.join[n] = "none", NEW e, Into(p, n) = {e}
  PROVE  /\ e.port = "error" =>
              /\ AvailableAt(p, f, n).success = f[e.from].success
              /\ AvailableAt(p, f, n).errors = f[e.from].errors \cup {e.from}
         /\ e.port # "error" =>
              /\ AvailableAt(p, f, n).success = f[e.from].success \cup {e.from}
              /\ AvailableAt(p, f, n).errors = f[e.from].errors
<1>1. PICK before : before = {x.from : x \in Into(p, n)}
  OBVIOUS
<1>2. before = {e.from}
  BY <1>1
<1>3. (\E x \in Into(p, n) : x.port = "error") <=> e.port = "error"
  OBVIOUS
<1>4. PICK S, E : S = {f[b].success : b \in before} /\ E = {f[b].errors : b \in before}
  OBVIOUS
<1>5. S = {f[e.from].success} /\ E = {f[e.from].errors}
  BY <1>2, <1>4
<1>8. UNION S = f[e.from].success /\ UNION E = f[e.from].errors
  BY <1>5
<1>6. CASE e.port = "error"
  <2>1. AvailableAt(p, f, n) = [success |-> (UNION S) \cup {}, errors |-> (UNION E) \cup before]
    BY <1>1, <1>3, <1>4, <1>6 DEF AvailableAt
  <2>2. /\ AvailableAt(p, f, n).success = (UNION S) \cup {}
        /\ AvailableAt(p, f, n).errors = (UNION E) \cup before
    BY <2>1
  <2>3. AvailableAt(p, f, n).success = f[e.from].success
    BY <1>8, <2>2
  <2>4. AvailableAt(p, f, n).errors = f[e.from].errors \cup {e.from}
    <3>1. (UNION E) \cup before = f[e.from].errors \cup {e.from}
      BY <1>2, <1>8
    <3> QED BY <2>2, <3>1
  <2> QED BY <1>6, <2>3, <2>4
<1>7. CASE e.port # "error"
  <2>1. AvailableAt(p, f, n) = [success |-> (UNION S) \cup before, errors |-> (UNION E) \cup {}]
    BY <1>1, <1>3, <1>4, <1>7 DEF AvailableAt
  <2>2. /\ AvailableAt(p, f, n).success = (UNION S) \cup before
        /\ AvailableAt(p, f, n).errors = (UNION E) \cup {}
    BY <2>1
  <2>3. AvailableAt(p, f, n).success = f[e.from].success \cup {e.from}
    <3>1. (UNION S) \cup before = f[e.from].success \cup {e.from}
      BY <1>2, <1>8
    <3> QED BY <2>2, <3>1
  <2>4. AvailableAt(p, f, n).errors = f[e.from].errors
    BY <1>8, <2>2
  <2> QED BY <1>7, <2>3, <2>4
<1> QED BY <1>6, <1>7

LEMMA Bounded ==
  ASSUME NEW S \in SUBSET Nat, IsFiniteSet(S)
  PROVE  \E k \in Nat : \A x \in S : x <= k
<1>1. PICK n \in Nat : ExistsBijection(1..n, S)
  BY FS_CardinalityType
<1>2. PICK f \in [1..n -> S] : \A x \in S : \E i \in 1..n : f[i] = x
  BY <1>1 DEF ExistsBijection, Bijection, Surjection
<1> DEFINE T == {i \in Nat : i <= n => \E k \in Nat : \A j \in 1..i : f[j] <= k}
<1>3. 0 \in T
  OBVIOUS
<1>4. ASSUME NEW i \in 1..n, i - 1 \in T PROVE i \in T
  <2>1. PICK k \in Nat : \A j \in 1..(i - 1) : f[j] <= k
    BY <1>4
  <2>2. f[i] \in Nat /\ \A j \in 1..n : f[j] \in Nat
    BY <1>2
  <2>3. PICK m \in Nat : m >= k /\ m >= f[i]
    BY <2>2
  <2>4. ASSUME NEW j \in 1..i PROVE f[j] <= m
    <3>1. CASE j = i
      BY <2>3, <3>1
    <3>2. CASE j # i
      <4>1. j \in 1..(i - 1) /\ j \in 1..n
        BY <3>2
      <4> QED BY <2>1, <2>2, <2>3, <4>1
    <3> QED BY <3>1, <3>2
  <2> QED BY <2>4
<1>5. n \in T
  <2> HIDE DEF T
  <2>1. \A i \in 0..n : i \in T
    BY <1>3, <1>4, UpTo
  <2> QED BY <1>1, <2>1
<1>6. PICK k \in Nat : \A j \in 1..n : f[j] <= k
  BY <1>5
<1> QED BY <1>2, <1>6

\* f is the function computeAvailability returns.
AvailabilityOf(p, f) == f = [n \in Nodes |-> AvailableAt(p, f, n)]

LEMMA AvailabilityExists ==
  ASSUME NEW p, PlanHolds(p) PROVE \E f : AvailabilityOf(p, f)
<1>1. Nodes \in SUBSET Nat /\ \A n \in Nodes : n # 0
  BY KernelAssumption
<1>2. PICK k \in Nat : \A n \in Nodes : n <= k
  BY <1>1, KernelAssumption, Bounded
<1> DEFINE Fits(f, i) == /\ DOMAIN f = Nodes /\ f = [n \in Nodes |-> f[n]]
                         /\ \A n \in Nodes : n <= i => f[n] = AvailableAt(p, f, n)
           T == {i \in Nat : \E f : Fits(f, i)}
<1>3. 0 \in T
  <2>1. Fits([n \in Nodes |-> 0], 0)
    BY <1>1
  <2> QED BY <2>1
<1>4. ASSUME NEW i \in 1..k, i - 1 \in T PROVE i \in T
  <2>1. PICK f : Fits(f, i - 1)
    BY <1>4
  <2>2. PICK g : g = [n \in Nodes |-> IF n = i THEN AvailableAt(p, f, n) ELSE f[n]]
    OBVIOUS
  <2>3. ASSUME NEW n \in Nodes, n <= i PROVE g[n] = AvailableAt(p, g, n)
    <3>1. \A m \in Nodes : m < n => f[m] = g[m]
      BY <1>1, <2>2, <2>3
    <3>2. AvailableAt(p, f, n) = AvailableAt(p, g, n)
      BY <3>1, AvailableBefore
    <3>3. CASE n = i
      BY <2>2, <3>2, <3>3
    <3>4. CASE n # i
      <4>1. n <= i - 1
        BY <1>1, <2>3, <3>4
      <4>2. f[n] = AvailableAt(p, f, n)
        BY <2>1, <4>1
      <4> QED BY <2>2, <3>2, <3>4, <4>2
    <3> QED BY <3>3, <3>4
  <2>4. DOMAIN g = Nodes /\ g = [n \in Nodes |-> g[n]]
    BY <2>2
  <2>5. Fits(g, i)
    BY <2>3, <2>4
  <2> QED BY <2>5
<1>5. k \in T
  <2> HIDE DEF T
  <2>1. \A i \in 0..k : i \in T
    BY <1>3, <1>4, UpTo
  <2> QED BY <2>1
<1>6. PICK f : Fits(f, k)
  BY <1>5
<1>7. \A n \in Nodes : f[n] = AvailableAt(p, f, n)
  BY <1>2, <1>6
<1>8. f = [n \in Nodes |-> AvailableAt(p, f, n)]
  BY <1>6, <1>7
<1> QED BY <1>8 DEF AvailabilityOf

\* What a plan calls available.
LEMMA PlanAvailable ==
  ASSUME NEW p \in Plans
  PROVE  \A n \in Nodes : p.available[n] = AvailableAt(p, p.available, n)
<1>1. PICK d \in Definitions : Accepts(d) /\ p = Compile(d)
  BY DEF Plans
<1>2. p.edges = d.edges /\ p.join = d.join /\ p.available = Availability(d)
  BY <1>1 DEF Compile
<1>3. \A n \in Nodes : Into(p, n) = Into(d, n)
  BY <1>2 DEF Into
<1>4. PICK f : AvailabilityOf(p, f)
  BY PlanFacts, AvailabilityExists
<1>5. \A n \in Nodes : AvailableAt(d, f, n) = AvailableAt(p, f, n)
  <2> TAKE n \in Nodes
  <2>1. Into(p, n) = Into(d, n) /\ p.join[n] = d.join[n]
    BY <1>2, <1>3
  <2> QED BY <2>1 DEF AvailableAt
<1>6. AvailabilityOf(d, f)
  BY <1>4, <1>5 DEF AvailabilityOf
<1> DEFINE c == CHOOSE c : AvailabilityOf(d, c)
<1>7. Availability(d) = c
  BY DEF Availability, AvailabilityOf, AvailableAt
<1>8. AvailabilityOf(d, c)
  BY <1>6
<1> HIDE DEF c
<1>9. \A n \in Nodes : c[n] = AvailableAt(d, c, n)
  BY <1>8 DEF AvailabilityOf
<1>10. \A n \in Nodes : AvailableAt(d, c, n) = AvailableAt(p, c, n)
  <2> TAKE n \in Nodes
  <2>1. Into(p, n) = Into(d, n) /\ p.join[n] = d.join[n]
    BY <1>2, <1>3
  <2> QED BY <2>1 DEF AvailableAt
<1> QED BY <1>2, <1>7, <1>9, <1>10

\* No error route leaves a node that failed because of a failure before it.
NoneUnrouted == \A n \in Nodes : FailedUpstream(n) => OutOf(plan, n, {"error"}) = {}

\* Node n came to run, or may.
OnItsPath(n) == n = Entry \/ OnPath(plan, run, n)

\* The node an edge that was taken comes from came to run, and has published its
\* output, or its error when the edge is its error route.
LEMMA TakenFrom ==
  ASSUME IInv, NoneUnrouted, NEW e \in plan.edges, run.edge[e] = "taken"
  PROVE  /\ e.from \in Nodes /\ OnItsPath(e.from)
         /\ IF e.port = "error" THEN e.from \in run.errors ELSE e.from \in run.outputs
<1>1. PlanHolds(plan) /\ Sound(plan, run)
  BY PlanFacts DEF IInv
<1>2. PICK b : b = e.from
  OBVIOUS
<1>3. b \in Nodes
  BY <1>1, <1>2 DEF PlanHolds, Edges
<1>4. "taken" \in Outcomes(plan, run.node[b], e)
  BY <1>1, <1>2 DEF Sound, EdgesFollow
<1>5. \/ run.node[b] = "completed" /\ e.port # "error"
      \/ run.node[b] = "failed" /\ Route(plan, b) # {} /\ e.port = "error"
  BY <1>2, <1>4 DEF Outcomes
<1>6. NodePublished(plan, run, b)
  BY <1>1, <1>3 DEF Sound, Published
<1>7. b # Entry => PathFollows(plan, run, b)
  BY <1>1, <1>3 DEF Sound, PathsFollow
<1>8. CASE run.node[b] = "completed" /\ e.port # "error"
  <2>1. b \in run.outputs
    BY <1>6, <1>8 DEF NodePublished
  <2>2. OnItsPath(b)
    BY <1>7, <1>8 DEF PathFollows, OnItsPath
  <2> QED BY <1>2, <1>3, <1>8, <2>1, <2>2
<1>9. CASE run.node[b] = "failed" /\ Route(plan, b) # {} /\ e.port = "error"
  <2>1. ~FailedIn(plan, run, b)
    BY <1>3, <1>9 DEF NoneUnrouted, FailedUpstream, FailedIn, Route
  <2>2. b \in run.errors
    BY <1>6, <1>9, <2>1 DEF NodePublished
  <2>3. OnItsPath(b)
    BY <1>7, <1>9, <2>1 DEF PathFollows, OnItsPath
  <2> QED BY <1>2, <1>3, <1>9, <2>2, <2>3
<1> QED BY <1>5, <1>8, <1>9

\* An edge that was taken leads into every node on its path, and into one with
\* a single edge that edge.
LEMMA TakenInto ==
  ASSUME IInv, NEW n \in Nodes, n # Entry, OnPath(plan, run, n)
  PROVE  \E e \in Into(plan, n) :
            /\ run.edge[e] = "taken"
            /\ plan.join[n] = "none" => Into(plan, n) = {e}
<1>1. PlanHolds(plan)
  BY PlanFacts DEF IInv
<1>2. plan.join[n] \in {"none", "all", "any"}
  BY <1>1 DEF PlanHolds
<1>3. CASE plan.join[n] = "none"
  <2>1. PICK e : Into(plan, n) = {e}
    BY <1>1, <1>3 DEF PlanHolds
  <2>2. Inbound(plan, run, n) = {"taken"}
    BY <1>3 DEF OnPath
  <2>3. run.edge[e] = "taken"
    BY <2>1, <2>2 DEF Inbound
  <2> QED BY <2>1, <2>3
<1>4. CASE plan.join[n] = "all"
  <2>1. "taken" \in Inbound(plan, run, n)
    BY <1>4 DEF OnPath
  <2> QED BY <1>4, <2>1 DEF Inbound
<1>5. CASE plan.join[n] = "any"
  BY <1>5 DEF OnPath
<1> QED BY <1>2, <1>3, <1>4, <1>5

\* What is available to a node that came to run has been published.
LEMMA PathAvailable ==
  ASSUME IInv, NoneUnrouted
  PROVE  \A n \in Nodes : OnItsPath(n) => Available(n)
<1> DEFINE Bad == {n \in Nodes : OnItsPath(n) /\ ~Available(n)}
<1> SUFFICES ASSUME Bad # {} PROVE FALSE
  OBVIOUS
<1>1. Bad \in SUBSET Nat /\ Nodes \in SUBSET Nat
  BY KernelAssumption
<1>2. PICK n \in Bad : \A m \in Bad : n <= m
  BY <1>1, Least
<1>3. n \in Nodes /\ OnItsPath(n) /\ ~Available(n)
  OBVIOUS
<1>4. \A m \in Nodes : m < n /\ OnItsPath(m) => Available(m)
  <2> SUFFICES ASSUME NEW m \in Nodes, m < n, OnItsPath(m), ~Available(m) PROVE FALSE
    OBVIOUS
  <2>1. n <= m /\ m \in Nat /\ n \in Nat
    BY <1>1, <1>2, <1>3
  <2> QED BY <2>1
<1> HIDE DEF Bad
<1>5. PlanHolds(plan) /\ plan \in Plans
  BY PlanFacts DEF IInv
<1>6. PICK a : a = plan.available
  OBVIOUS
<1>7. a[n] = AvailableAt(plan, a, n)
  BY <1>3, <1>5, <1>6, PlanAvailable
<1>8. CASE n = Entry
  <2>1. a[n] = [success |-> {}, errors |-> {}]
    BY <1>7, <1>8 DEF AvailableAt
  <2> QED BY <1>3, <1>6, <2>1 DEF Available
<1>9. CASE n # Entry
  <2>1. PICK e \in Into(plan, n) :
          /\ run.edge[e] = "taken"
          /\ plan.join[n] = "none" => Into(plan, n) = {e}
    BY <1>3, <1>9, TakenInto DEF OnItsPath
  <2>2. e \in plan.edges /\ e.from < n
    BY <1>5, <2>1 DEF Into, PlanHolds
  <2>3. PICK b : b = e.from
    OBVIOUS
  <2>4. /\ b \in Nodes /\ OnItsPath(b)
        /\ IF e.port = "error" THEN b \in run.errors ELSE b \in run.outputs
    BY <2>1, <2>2, <2>3, TakenFrom
  <2>5. a[b].success \subseteq run.outputs /\ a[b].errors \subseteq run.errors
    BY <1>4, <1>6, <2>2, <2>3, <2>4 DEF Available
  <2>6. CASE plan.join[n] # "none"
    <3>1. a[n] = [success |-> {m \in Nodes : \A c \in {x.from : x \in Into(plan, n)} :
                                                m \in a[c].success},
                  errors |-> {}]
      BY <1>7, <1>9, <2>6 DEF AvailableAt
    <3>2. b \in {x.from : x \in Into(plan, n)}
      BY <2>1, <2>3
    <3>3. a[n].success \subseteq a[b].success /\ a[n].errors = {}
      BY <3>1, <3>2
    <3> QED BY <1>3, <1>6, <2>5, <3>3 DEF Available
  <2>7. CASE plan.join[n] = "none"
    <3>1. Into(plan, n) = {e}
      BY <2>1, <2>7
    <3>2. /\ e.port = "error" => /\ a[n].success = a[b].success
                                 /\ a[n].errors = a[b].errors \cup {b}
          /\ e.port # "error" => /\ a[n].success = a[b].success \cup {b}
                                 /\ a[n].errors = a[b].errors
      BY <1>7, <1>9, <2>3, <2>7, <3>1, AvailableOne
    <3>6. a[n].success \subseteq run.outputs /\ a[n].errors \subseteq run.errors
      <4>2. CASE e.port = "error"
        <5>1. a[n].success = a[b].success /\ a[n].errors = a[b].errors \cup {b}
          BY <3>2, <4>2
        <5>2. b \in run.errors
          BY <2>4, <4>2
        <5> QED BY <2>5, <5>1, <5>2
      <4>3. CASE e.port # "error"
        <5>1. a[n].success = a[b].success \cup {b} /\ a[n].errors = a[b].errors
          BY <3>2, <4>3
        <5>2. b \in run.outputs
          BY <2>4, <4>3
        <5> QED BY <2>5, <5>1, <5>2
      <4> QED BY <4>2, <4>3
    <3> QED BY <1>3, <1>6, <3>6 DEF Available
  <2> QED BY <2>6, <2>7
<1> QED BY <1>8, <1>9

\* What the compiler calls available to a node has been published when the node
\* is ready, through whatever branches, joins and error routes it was reached,
\* and for graphs of any size (computeAvailability against propagate.ts).
THEOREM ReferencesAreThere == Spec => []ReferencesHold
<1>1. IInv => ReferencesHold
  <2> SUFFICES ASSUME IInv, NoneUnrouted, NEW n \in Nodes, run.node[n] = "ready"
               PROVE  Available(n)
    BY DEF ReferencesHold, NoneUnrouted
  <2>1. OnItsPath(n)
    BY DEF IInv, Sound, PathsFollow, PathFollows, OnItsPath
  <2> QED BY <2>1, PathAvailable
<1> QED BY <1>1, IInvHolds, PTL

-----------------------------------------------------------------------------
(* The kernel implements the contract the host is built on.                *)

\* A run as its host sees it.
Seen(s) ==
    [node |-> [n \in Nodes |-> IF s.node[n] \in Over THEN "done" ELSE s.node[n]],
     eff |-> s.effect, paused |-> s.paused, cancelled |-> s.cancelled]

LEMMA SeenFields ==
  ASSUME NEW s
  PROVE  /\ \A n \in Nodes : Seen(s).node[n] = IF s.node[n] \in Over THEN "done" ELSE s.node[n]
         /\ DOMAIN Seen(s).node = Nodes
         /\ Seen(s).eff = s.effect /\ Seen(s).paused = s.paused /\ Seen(s).cancelled = s.cancelled
BY DEF Seen

LEMMA SeenRecord ==
  ASSUME NEW s, NEW nd, nd = Seen(s).node
  PROVE  Seen(s) = [node |-> nd, eff |-> s.effect, paused |-> s.paused, cancelled |-> s.cancelled]
BY DEF Seen

\* Nothing but the node states tells the two apart.
LEMMA SeenNodes ==
  ASSUME NEW s, NEW t, s.node = t.node
  PROVE  Seen(s).node = Seen(t).node
BY DEF Seen

\* The end of a node, with what it readied, is one the contract allows.
LEMMA EndsFinished ==
  ASSUME NEW p, PlanHolds(p), NEW s, s \in Snapshot(p), NEW t, Sound(p, t), Fixed(p, t),
         NEW n \in Nodes, s.node[n] \in {"ready", "waiting"}, Ends(p, s, t, n)
  PROVE  Seen(t) \in Contract!Finished(Seen(s), n)
<1>1. PICK nd : nd = Seen(t).node
  OBVIOUS
<1>2. t \in Snapshot(p)
  BY DEF Sound
<1>3. \A m \in Nodes : nd[m] = IF t.node[m] \in Over THEN "done" ELSE t.node[m]
  BY <1>1, SeenFields
<1>4. nd \in [Nodes -> Contract!NodeStates]
  <2>1. nd = [m \in Nodes |-> IF t.node[m] \in Over THEN "done" ELSE t.node[m]]
    BY <1>1 DEF Seen
  <2>2. \A m \in Nodes : t.node[m] \in NodeStatuses
    BY <1>2, SnapshotFields
  <2> QED BY <2>1, <2>2 DEF Contract!NodeStates, NodeStatuses, Over
<1>5. nd[n] = "done"
  BY <1>3 DEF Ends, Over
<1>6. ASSUME NEW m \in Nodes \ {n}
      PROVE  IF Seen(s).node[m] = "idle" THEN nd[m] \in {"idle", "ready", "done"}
                                         ELSE nd[m] = Seen(s).node[m]
  <2>1. Seen(s).node[m] = IF s.node[m] \in Over THEN "done" ELSE s.node[m]
    BY SeenFields
  <2>2. IF s.node[m] = "idle" THEN t.node[m] \in {"idle", "ready", "skipped", "failed"}
                              ELSE t.node[m] = s.node[m]
    BY DEF Ends
  <2> QED BY <1>3, <2>1, <2>2 DEF Over
<1>7. Contract!Working(nd) \/ \A m \in Nodes : nd[m] # "idle"
  <2>1. CASE \A m \in Nodes : t.node[m] \notin {"ready", "waiting"}
    <3>1. \A m \in Nodes : t.node[m] \in Over
      BY <2>1, NothingIdle
    <3> QED BY <1>3, <3>1
  <2>2. CASE \E m \in Nodes : t.node[m] \in {"ready", "waiting"}
    <3>1. PICK m \in Nodes : t.node[m] \in {"ready", "waiting"}
      BY <2>2
    <3>2. nd[m] \in {"ready", "waiting"}
      BY <1>3, <3>1 DEF Over
    <3> QED BY <3>2 DEF Contract!Working
  <2> QED BY <2>1, <2>2
<1>8. nd \in Contract!Settled(Seen(s).node, n)
  BY <1>4, <1>5, <1>6, <1>7 DEF Contract!Settled
<1>9. Seen(t) = [Seen(s) EXCEPT !.node = nd]
  <2>1. PICK od : od = Seen(s).node
    OBVIOUS
  <2>2. Seen(s) = [node |-> od, eff |-> s.effect, paused |-> s.paused, cancelled |-> s.cancelled]
    BY <2>1, SeenRecord
  <2>3. Seen(t) = [node |-> nd, eff |-> t.effect, paused |-> t.paused, cancelled |-> t.cancelled]
    BY <1>1, SeenRecord
  <2>4. t.effect = s.effect /\ t.paused = s.paused /\ t.cancelled = s.cancelled
    BY DEF Ends
  <2> QED BY <2>2, <2>3, <2>4
<1> QED BY <1>8, <1>9 DEF Contract!Finished

\* Every command leads to a snapshot the contract allows, or to the same.
LEMMA NextContract ==
  IInv /\ [Next]_vars => Seen(run') \in Contract!Successors(Seen(run)) \/ Seen(run') = Seen(run)
<1> SUFFICES ASSUME IInv, [Next]_vars
             PROVE  Seen(run') \in Contract!Successors(Seen(run)) \/ Seen(run') = Seen(run)
  OBVIOUS
<1>1. PlanHolds(plan) /\ Sound(plan, run) /\ run \in Snapshot(plan)
  BY PlanFacts DEF IInv, Sound
<1>2. PICK c : c = Seen(run)
  OBVIOUS
<1>3. /\ \A n \in Nodes : c.node[n] = IF run.node[n] \in Over THEN "done" ELSE run.node[n]
      /\ c.eff = run.effect /\ c.paused = run.paused /\ c.cancelled = run.cancelled
  BY <1>2, SeenFields
<1> DEFINE Is(x, nd, eff, paused, cancelled) ==
             x = [node |-> nd, eff |-> eff, paused |-> paused, cancelled |-> cancelled]
<1>15. Is(c, c.node, run.effect, run.paused, run.cancelled)
  BY <1>2, SeenRecord
<1>16. PICK d : d = Seen(run')
  OBVIOUS
<1>17. /\ Is(d, d.node, run'.effect, run'.paused, run'.cancelled)
       /\ run'.node = run.node => d.node = c.node
  BY <1>2, <1>16, SeenRecord, SeenNodes
<1>4. /\ Contract!StepOutcomes(c) \subseteq Contract!Successors(c)
      /\ Contract!PauseOutcomes(c) \subseteq Contract!Successors(c)
      /\ Contract!ResumeOutcomes(c) \subseteq Contract!Successors(c)
      /\ Contract!CancelOutcomes(c) \subseteq Contract!Successors(c)
  BY DEF Contract!Successors
<1>5. \A n \in Nodes : Contract!DispatchOutcomes(c, n) \subseteq Contract!Successors(c)
  BY DEF Contract!Successors
<1>6. \A n \in Nodes, answer \in Contract!Settlers \cup {"unknown"} :
         Contract!ResolveOutcomes(c, n, answer) \subseteq Contract!Successors(c)
  <2> TAKE n \in Nodes, answer \in Contract!Settlers \cup {"unknown"}
  <2>1. PICK e : e = <<n, answer>>
    OBVIOUS
  <2>2. e \in Nodes \X (Contract!Settlers \cup {"unknown"}) /\ e[1] = n /\ e[2] = answer
    BY <2>1
  <2> QED BY <2>2 DEF Contract!Successors
<1>7. CASE Step
  <2>1. CASE run' = run
    BY <2>1
  <2>2. ASSUME NEW n \in Nodes, ~run.cancelled, ~run.paused, run.node[n] = "ready",
               \/ Sound(plan, run') /\ Fixed(plan, run') /\ Ends(plan, run, run', n)
               \/ n # Entry /\ Kind[n] \in {"call", "timer"} /\ run' = Wait(run, n)
        PROVE  Seen(run') \in Contract!StepOutcomes(c)
    <3>1. n \in Contract!ReadyNodes(c) /\ ~c.cancelled /\ ~c.paused
      BY <1>3, <2>2 DEF Contract!ReadyNodes, Over
    <3>2. Contract!Finished(c, n) \cup Contract!Waited(c, n) \subseteq Contract!StepOutcomes(c)
      BY <3>1 DEF Contract!StepOutcomes
    <3>3. CASE Sound(plan, run') /\ Fixed(plan, run') /\ Ends(plan, run, run', n)
      <4>1. Seen(run') \in Contract!Finished(c, n)
        BY <1>1, <1>2, <2>2, <3>3, EndsFinished
      <4> QED BY <3>2, <4>1
    <3>4. CASE n # Entry /\ Kind[n] \in {"call", "timer"} /\ run' = Wait(run, n)
      <4>1. /\ run'.node = [run.node EXCEPT ![n] = "waiting"]
            /\ run'.effect = [run.effect EXCEPT ![n] = "requested"]
            /\ run'.paused = run.paused /\ run'.cancelled = run.cancelled
        BY <1>1, <3>4 DEF Wait, Snapshot
      <4>2. [m \in Nodes |-> IF run'.node[m] \in Over THEN "done" ELSE run'.node[m]]
              = [c.node EXCEPT ![n] = "waiting"]
        <5>1. c.node = [m \in Nodes |-> IF run.node[m] \in Over THEN "done" ELSE run.node[m]]
          BY <1>2 DEF Seen
        <5>2. \A m \in Nodes : run'.node[m] = IF m = n THEN "waiting" ELSE run.node[m]
          BY <1>1, <4>1, SnapshotFields
        <5> QED BY <5>1, <5>2 DEF Over
      <4>3. Seen(run') = [c EXCEPT !.node[n] = "waiting", !.eff[n] = "requested"]
        <5>1. d.node = [c.node EXCEPT ![n] = "waiting"]
          BY <1>16, <4>2 DEF Seen
        <5>2. PICK f : f = [c.node EXCEPT ![n] = "waiting"]
          OBVIOUS
        <5>3. PICK g : g = [run.effect EXCEPT ![n] = "requested"]
          OBVIOUS
        <5>4. PICK k : k = [c EXCEPT !.node = f]
          OBVIOUS
        <5>5. k = [node |-> f, eff |-> run.effect, paused |-> run.paused,
                   cancelled |-> run.cancelled]
          BY <1>15, <5>4
        <5>6. [k EXCEPT !.eff = g] = [node |-> f, eff |-> g, paused |-> run.paused,
                                      cancelled |-> run.cancelled]
          BY <5>5
        <5>7. [c EXCEPT !.node = f, !.eff = g] = [k EXCEPT !.eff = g]
          BY <5>4
        <5>8. c.eff = run.effect
          BY <1>3
        <5>9. [c EXCEPT !.node[n] = "waiting", !.eff[n] = "requested"]
                = [c EXCEPT !.node = [c.node EXCEPT ![n] = "waiting"],
                            !.eff = [c.eff EXCEPT ![n] = "requested"]]
          BY SMT
        <5>10. d = [node |-> f, eff |-> g, paused |-> run.paused, cancelled |-> run.cancelled]
          BY <1>17, <4>1, <5>1, <5>2, <5>3
        <5> QED BY <1>16, <5>2, <5>3, <5>6, <5>7, <5>8, <5>9, <5>10
      <4>4. Kind[n] \in {Kind[n]} \ {"cpu"}
        BY <3>4
      <4>5. Seen(run') \in Contract!Waited(c, n)
        BY <4>3, <4>4 DEF Contract!Waited
      <4> QED BY <3>2, <4>5
    <3> QED BY <2>2, <3>3, <3>4
  <2> QED BY <1>2, <1>4, <1>7, <2>1, <2>2, StepTo
<1>8. CASE Pause
  <2>1. Seen(run') = [c EXCEPT !.paused = TRUE]
    <3>1. /\ run'.node = run.node /\ run'.effect = run.effect
          /\ run'.paused = TRUE /\ run'.cancelled = run.cancelled
      BY <1>1, <1>8 DEF Pause, Snapshot
    <3> QED BY <1>15, <1>16, <1>17, <3>1
  <2> QED BY <1>2, <1>4, <2>1 DEF Contract!PauseOutcomes
<1>9. CASE Resume
  <2>1. Seen(run') = [c EXCEPT !.paused = FALSE]
    <3>1. /\ run'.node = run.node /\ run'.effect = run.effect
          /\ run'.paused = FALSE /\ run'.cancelled = run.cancelled
      BY <1>1, <1>9 DEF Resume, Snapshot
    <3> QED BY <1>15, <1>16, <1>17, <3>1
  <2>2. ~c.cancelled
    BY <1>3, <1>9 DEF Resume
  <2> QED BY <1>2, <1>4, <2>1, <2>2 DEF Contract!ResumeOutcomes
<1>10. CASE Cancel
  <2>1. Seen(run') = [c EXCEPT !.cancelled = TRUE]
    <3>1. /\ run'.node = run.node /\ run'.effect = run.effect
          /\ run'.cancelled = TRUE /\ run'.paused = run.paused
      BY <1>1, <1>10 DEF Cancel, Snapshot
    <3> QED BY <1>15, <1>16, <1>17, <3>1
  <2> QED BY <1>2, <1>4, <2>1 DEF Contract!CancelOutcomes
<1>11. ASSUME NEW n \in Nodes, DispatchStarted(n)
       PROVE  Seen(run') \in Contract!Successors(Seen(run)) \/ Seen(run') = Seen(run)
  <2>1. CASE run.effect[n] = "requested"
    <3>1. Seen(run') = [c EXCEPT !.eff[n] = "dispatchStarted"]
      BY <1>1, <1>2, <1>11, <2>1 DEF DispatchStarted, Seen, Snapshot
    <3> QED BY <1>2, <1>3, <1>5, <2>1, <3>1 DEF Contract!DispatchOutcomes
  <2>2. CASE run.effect[n] # "requested"
    BY <1>11, <2>2 DEF DispatchStarted
  <2> QED BY <2>1, <2>2
<1>12. ASSUME NEW n \in Nodes, LeaveUnknown(n)
       PROVE  Seen(run') \in Contract!Successors(Seen(run)) \/ Seen(run') = Seen(run)
  <2>1. CASE ~run.cancelled
    <3>1. Seen(run') = [c EXCEPT !.eff[n] = "unknown"]
      BY <1>1, <1>2, <1>12, <2>1 DEF LeaveUnknown, Seen, Snapshot
    <3>2. c.eff[n] \notin Contract!Settlers \cup {"none"} /\ ~c.cancelled
      BY <1>3, <1>12, <2>1 DEF LeaveUnknown, Unsettled, Contract!Settlers
    <3>3. Seen(run') \in Contract!ResolveOutcomes(c, n, "unknown")
      BY <3>1, <3>2 DEF Contract!ResolveOutcomes, Contract!Settlers
    <3> QED BY <1>2, <1>6, <3>3
  <2>2. CASE run.cancelled
    BY <1>12, <2>2 DEF LeaveUnknown
  <2> QED BY <2>1, <2>2
<1>13. ASSUME NEW n \in Nodes, NEW answer \in Settlers, Settle(n, answer)
       PROVE  Seen(run') \in Contract!Successors(Seen(run)) \/ Seen(run') = Seen(run)
  <2>1. CASE run' = run
    BY <2>1
  <2>2. PICK s : s = Answered(run, n, answer)
    OBVIOUS
  <2>3. CASE /\ ~run.cancelled /\ run.node[n] = "waiting" /\ run.effect[n] \in Unsettled
             /\ Taken(plan, s, n) /\ Sound(plan, run') /\ Fixed(plan, run')
             /\ Ends(plan, s, run', n)
    <3>1. s.node = run.node /\ s.effect = [run.effect EXCEPT ![n] = answer]
          /\ s.paused = run.paused /\ s.cancelled = run.cancelled
      BY <1>1, <2>2 DEF Answered, Snapshot
    <3>2. Seen(run') \in Contract!Finished(Seen(s), n)
      <4>1. s \in Snapshot(plan) /\ s.node[n] \in {"ready", "waiting"}
        BY <2>3 DEF Taken
      <4> QED BY <1>1, <2>3, <4>1, EndsFinished
    <3>3. Seen(s) = [c EXCEPT !.eff[n] = answer]
      BY <1>2, <3>1 DEF Seen
    <3>4. Seen(s).node = c.node
      BY <1>2, <3>1 DEF Seen
    <3>5. PICK nd \in Contract!Settled(c.node, n) : Seen(run') = [Seen(s) EXCEPT !.node = nd]
      BY <3>2, <3>4 DEF Contract!Finished
    <3>6. PICK t : t = [c EXCEPT !.node = nd]
      OBVIOUS
    <3>7. t \in Contract!Finished(c, n)
      BY <3>5, <3>6 DEF Contract!Finished
    <3>8. Seen(run') = [t EXCEPT !.eff[n] = answer]
      BY <1>2, <3>3, <3>5, <3>6 DEF Seen
    <3>9. c.eff[n] \notin Contract!Settlers \cup {"none"} /\ ~c.cancelled /\ c.node[n] = "waiting"
      BY <1>3, <2>3 DEF Unsettled, Contract!Settlers, Over
    <3>10. answer \in Contract!Settlers /\ answer # "unknown"
      BY DEF Settlers, Contract!Settlers
    <3>11. Seen(run') \in Contract!ResolveOutcomes(c, n, answer)
      BY <3>7, <3>8, <3>9, <3>10 DEF Contract!ResolveOutcomes
    <3> QED BY <1>2, <1>6, <3>10, <3>11
  <2> QED BY <1>13, <2>1, <2>2, <2>3, SettleTo
<1>14. CASE vars' = vars
  BY <1>14 DEF vars
<1> QED BY <1>7, <1>8, <1>9, <1>10, <1>11, <1>12, <1>13, <1>14 DEF Next

LEMMA InitContract == Init => Seen(run) = Contract!StartSnap
<1> SUFFICES ASSUME Init PROVE Seen(run) = Contract!StartSnap
  OBVIOUS
<1>1. PICK nd : nd = Seen(run).node
  OBVIOUS
<1>2. /\ run.node = [n \in Nodes |-> IF n = Entry THEN "ready" ELSE "idle"]
      /\ run.effect = [n \in Nodes |-> "none"]
      /\ run.paused = FALSE /\ run.cancelled = FALSE
  BY DEF Init, Started
<1>3. nd = [n \in Nodes |-> IF n = Entry THEN "ready" ELSE "idle"]
  <2>1. nd = [n \in Nodes |-> IF run.node[n] \in Over THEN "done" ELSE run.node[n]]
    BY <1>1 DEF Seen
  <2> QED BY <1>2, <2>1 DEF Over
<1>4. Seen(run) = [node |-> nd, eff |-> run.effect, paused |-> run.paused, cancelled |-> run.cancelled]
  BY <1>1, SeenRecord
<1> QED BY <1>2, <1>3, <1>4 DEF Contract!StartSnap

\* The kernel implements RunSpec, the contract module Coordinator is built on:
\* what the host assumes of a step, an answer or a control command is what
\* propagation does on every graph (commands/apply.ts over propagate.ts).
THEOREM ContractKept == Spec => KeepsContract
<1>1. Init => Contract!Init
  <2>1. Seen(run) = [node |-> [n \in Nodes |-> IF run.node[n] \in {"completed", "failed", "skipped"}
                                               THEN "done" ELSE run.node[n]],
                     eff |-> run.effect, paused |-> run.paused, cancelled |-> run.cancelled]
    BY DEF Seen, Over
  <2> QED BY <2>1, InitContract DEF Contract!Init
<1>2. IInv /\ [Next]_vars =>
        [Contract!Next]_([node |-> [n \in Nodes |-> IF run.node[n] \in {"completed", "failed", "skipped"}
                                                    THEN "done" ELSE run.node[n]],
                          eff |-> run.effect, paused |-> run.paused, cancelled |-> run.cancelled])
  BY NextContract DEF Seen, Over, Contract!Next
<1> QED BY <1>1, <1>2, IInvHolds, PTL DEF Spec, KeepsContract, Contract!Spec
=============================================================================
