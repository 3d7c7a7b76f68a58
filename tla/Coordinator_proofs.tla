------------------------- MODULE Coordinator_proofs -------------------------
(***************************************************************************)
(* Theorems about the host of module Coordinator, for any finite sets of   *)
(* nodes and runs and for any flows, triggers, commands and bounds: what a *)
(* command does to a snapshot, the types, the lease of a flow, one call    *)
(* for each effect, the agreement of outbox and snapshot, what no step     *)
(* undoes, what a pause holds back, what serves the queue, what is taken   *)
(* up again after a crash, and that the host implements FlowLease and      *)
(* EffectDelivery.                                                         *)
(*                                                                         *)
(* Each invariant relates the store to the one handler and the inbox: what *)
(* is owed to a run is in a message, and what a handler has read is still  *)
(* so when it writes.                                                      *)
(***************************************************************************)
EXTENDS Coordinator, SequenceLemmas

-----------------------------------------------------------------------------
(* What every command does to a snapshot, for every set of nodes: it stays *)
(* a snapshot, a run that is over stays over, effects move forward only    *)
(* and a cancelled run is frozen.                                          *)

\* A node that has not been evaluated has asked for nothing.  Without it a
\* step could ask a second time.
WellFormed(s) ==
    /\ s \in Snapshots
    /\ \A n \in Nodes : s.node[n] \in {"idle", "ready"} => s.eff[n] = "none"

\* While a run is paused its ready nodes are left as they are.
Held(s, t) ==
    s.paused /\ t.paused => \A n \in ReadyNodes(s) : t.node[n] = "ready"

Allowed(s, t) ==
    /\ WellFormed(t)
    /\ Terminal(s) => Terminal(t)
    /\ Forward(s, t)
    /\ Held(s, t)

\* A run starts as a snapshot that is not over and asked for nothing.
LEMMA StartSnapType ==
  /\ WellFormed(StartSnap)
  /\ ~ Terminal(StartSnap)
  /\ \A n \in Nodes : StartSnap.eff[n] = "none"
BY NodesAssumption DEF StartSnap, WellFormed, Snapshots, NodeStates, EffStates,
   Settlers, Terminal

\* Finishing a node that was evaluated or is being evaluated changes nodes
\* alone, and readies only nodes that were idle.
LEMMA FinishedType ==
  ASSUME NEW s, WellFormed(s), NEW n \in Nodes, s.node[n] # "done",
         NEW t \in Finished(s, n)
  PROVE  /\ WellFormed(t)
         /\ t.eff = s.eff /\ t.cancelled = s.cancelled /\ t.paused = s.paused
         /\ t.node[n] = "done"
         /\ \A m \in Nodes \ {n} : s.node[m] = "ready" => t.node[m] = "ready"
<1>1. PICK nd \in Settled(s.node, n) : t = [s EXCEPT !.node = nd]
  BY DEF Finished
<1>2. /\ nd \in [Nodes -> NodeStates]
      /\ nd[n] = "done"
      /\ \A m \in Nodes \ {n} : nd[m] \in {"idle", "ready"} => s.node[m] \in {"idle", "ready"}
      /\ \A m \in Nodes \ {n} : s.node[m] = "ready" => nd[m] = "ready"
  BY <1>1 DEF Settled
<1> QED BY <1>1, <1>2 DEF WellFormed, Snapshots

\* A node that waits has asked, for the first time.
LEMMA WaitedType ==
  ASSUME NEW s, WellFormed(s), NEW n \in ReadyNodes(s), NEW t \in Waited(s, n)
  PROVE  WellFormed(t) /\ Forward(s, t) /\ t.cancelled = s.cancelled
<1>1. t = [s EXCEPT !.node[n] = "waiting", !.eff[n] = "requested"]
  BY DEF Waited
<1>2. n \in Nodes /\ s.node[n] = "ready" /\ s.eff[n] = "none"
  BY DEF ReadyNodes, WellFormed
<1>3. WellFormed(t) /\ t.cancelled = s.cancelled
  BY <1>1, <1>2 DEF WellFormed, Snapshots, NodeStates, EffStates
<1>4. Forward(s, t)
  <2> SUFFICES ASSUME NEW m \in Nodes
               PROVE  t.eff[m] = s.eff[m] \/ Rank(t.eff[m]) > Rank(s.eff[m])
    BY DEF Forward
  <2>1. CASE m = n
    BY <1>1, <1>2, <2>1 DEF Rank, WellFormed, Snapshots
  <2>2. CASE m # n
    BY <1>1, <1>2, <2>2 DEF WellFormed, Snapshots
  <2> QED BY <2>1, <2>2
<1> QED BY <1>3, <1>4

\* A snapshot is an allowed successor of itself.
LEMMA AllowedSelf ==
  ASSUME NEW s, WellFormed(s) PROVE Allowed(s, s) /\ Frozen(s, s)
BY DEF Allowed, Forward, Frozen, Held, ReadyNodes

\* The step command.
LEMMA StepAllowed ==
  ASSUME NEW s, WellFormed(s), NEW t \in StepOutcomes(s)
  PROVE  Allowed(s, t) /\ Frozen(s, t)
<1>1. CASE t = s
  BY <1>1, AllowedSelf
<1>2. CASE t # s
  <2>1. ~ s.cancelled /\ Held(s, t)
    BY <1>2 DEF StepOutcomes, Held
  <2>2. PICK n \in ReadyNodes(s) : t \in Finished(s, n) \cup Waited(s, n)
    BY <1>2 DEF StepOutcomes
  <2>3. n \in Nodes /\ s.node[n] = "ready" /\ ~ Terminal(s)
    BY <2>1, <2>2 DEF ReadyNodes, Terminal
  <2>4. CASE t \in Finished(s, n)
    BY <2>1, <2>3, <2>4, FinishedType DEF Allowed, Forward, Frozen
  <2>5. CASE t \in Waited(s, n)
    BY <2>1, <2>2, <2>3, <2>5, WaitedType DEF Allowed, Frozen
  <2> QED BY <2>2, <2>4, <2>5
<1> QED BY <1>1, <1>2

\* The pause, resume and cancel commands.
LEMMA ControlAllowed ==
  ASSUME NEW s, WellFormed(s),
         NEW t \in PauseOutcomes(s) \cup ResumeOutcomes(s) \cup CancelOutcomes(s)
  PROVE  Allowed(s, t) /\ Frozen(s, t)
<1>1. CASE t \in PauseOutcomes(s)
  BY <1>1 DEF PauseOutcomes, Allowed, Held, ReadyNodes, WellFormed, Snapshots, Forward, Frozen, Terminal
<1>2. CASE t \in ResumeOutcomes(s)
  <2>1. ~ s.cancelled /\ t = [s EXCEPT !.paused = FALSE]
    BY <1>2 DEF ResumeOutcomes
  <2> QED BY <2>1 DEF Allowed, Held, WellFormed, Snapshots, Forward, Frozen, Terminal
<1>3. CASE t \in CancelOutcomes(s)
  BY <1>3 DEF CancelOutcomes, Allowed, Held, ReadyNodes, WellFormed, Snapshots, Forward, Frozen, Terminal
<1> QED BY <1>1, <1>2, <1>3

\* The dispatchStarted command.
LEMMA DispatchAllowed ==
  ASSUME NEW s, WellFormed(s), NEW n \in Nodes, NEW t \in DispatchOutcomes(s, n)
  PROVE  /\ Allowed(s, t) /\ t.eff[n] \notin {"none", "requested"}
         /\ t.paused = s.paused /\ t.cancelled = s.cancelled /\ t.node = s.node
<1>1. s.eff[n] \in EffStates /\ s.eff[n] # "none"
  BY DEF DispatchOutcomes, WellFormed, Snapshots
<1>2. CASE s.eff[n] # "requested"
  BY <1>1, <1>2, AllowedSelf DEF DispatchOutcomes
<1>3. CASE s.eff[n] = "requested"
  <2>1. t = [s EXCEPT !.eff[n] = "dispatchStarted"]
    BY <1>3 DEF DispatchOutcomes
  <2>2. t \in Snapshots /\ t.node = s.node /\ t.eff[n] = "dispatchStarted"
    BY <2>1 DEF WellFormed, Snapshots, EffStates
  <2>3. \A m \in Nodes : m # n => t.eff[m] = s.eff[m]
    BY <2>1 DEF WellFormed, Snapshots
  <2>4. WellFormed(t)
    BY <1>1, <2>2, <2>3 DEF WellFormed
  <2>5. Forward(s, t)
    BY <1>3, <2>2, <2>3 DEF Forward, Rank
  <2>6. t.cancelled = s.cancelled /\ t.paused = s.paused
    BY <2>1 DEF WellFormed, Snapshots
  <2> QED BY <2>2, <2>4, <2>5, <2>6 DEF Allowed, Held, ReadyNodes, Terminal
<1> QED BY <1>2, <1>3

\* The commands that settle an effect.
LEMMA ResolveAllowed ==
  ASSUME NEW s, WellFormed(s), NEW n \in Nodes,
         NEW answer \in Settlers \cup {"unknown"}, NEW t \in ResolveOutcomes(s, n, answer)
  PROVE  Allowed(s, t) /\ Frozen(s, t)
<1>1. s.eff[n] \in EffStates /\ s.eff[n] # "none"
  BY DEF ResolveOutcomes, WellFormed, Snapshots, Settlers
<1>2. CASE s.eff[n] \in Settlers \/ s.cancelled
  BY <1>1, <1>2, AllowedSelf DEF ResolveOutcomes, Settlers
<1>3. CASE s.eff[n] \notin Settlers /\ ~ s.cancelled
  <2>1. CASE answer = "unknown"
    <3>1. t = [s EXCEPT !.eff[n] = "unknown"]
      BY <1>1, <1>3, <2>1 DEF ResolveOutcomes, Settlers
    <3>2. /\ t \in Snapshots /\ t.node = s.node /\ t.eff[n] = "unknown"
          /\ \A m \in Nodes : m # n => t.eff[m] = s.eff[m]
      BY <3>1 DEF WellFormed, Snapshots, EffStates
    <3>3. s.eff[n] \in {"requested", "dispatchStarted", "unknown"}
      BY <1>1, <1>3 DEF EffStates
    <3>4. Forward(s, t)
      BY <3>2, <3>3 DEF Forward, Rank
    <3>5. t.cancelled = s.cancelled
      BY <3>1 DEF WellFormed, Snapshots
    <3>6. Held(s, t)
      BY <3>2 DEF Held, ReadyNodes
    <3> QED BY <1>1, <1>3, <3>2, <3>4, <3>5, <3>6 DEF Allowed, WellFormed, Frozen, Terminal
  <2>2. CASE answer # "unknown"
    <3>1. PICK u \in IF s.node[n] = "waiting" THEN Finished(s, n) ELSE {s} :
                t = [u EXCEPT !.eff[n] = answer]
      BY <1>1, <1>3, <2>2 DEF ResolveOutcomes
    <3>2. /\ WellFormed(u) /\ u.eff = s.eff /\ u.cancelled = s.cancelled
          /\ u.node[n] \notin {"idle", "ready"} /\ s.node[n] # "ready"
          /\ \A m \in Nodes : s.node[m] = "ready" => u.node[m] = "ready"
      <4>1. CASE s.node[n] = "waiting"
        BY <3>1, <4>1, FinishedType
      <4>2. CASE s.node[n] # "waiting"
        BY <1>1, <3>1, <4>2 DEF WellFormed
      <4> QED BY <4>1, <4>2
    <3>3. /\ t \in Snapshots /\ t.node = u.node /\ t.eff[n] = answer
          /\ \A m \in Nodes : m # n => t.eff[m] = s.eff[m]
          /\ t.cancelled = s.cancelled
      BY <3>1, <3>2 DEF WellFormed, Snapshots, EffStates
    <3>4. WellFormed(t)
      BY <3>2, <3>3 DEF WellFormed
    <3>5. s.eff[n] \in {"requested", "dispatchStarted", "unknown"} /\ answer \in Settlers
      BY <1>1, <1>3, <2>2 DEF EffStates
    <3>6. Forward(s, t)
      BY <3>3, <3>5 DEF Forward, Rank, Settlers
    <3>7. Terminal(s) => Terminal(t)
      <4>1. SUFFICES ASSUME Terminal(s) PROVE Terminal(t)
        OBVIOUS
      <4>2. u = s
        BY <1>3, <3>1, <4>1 DEF Terminal
      <4> QED BY <1>3, <3>3, <4>1, <4>2 DEF Terminal
    <3>8. Held(s, t)
      BY <3>2, <3>3 DEF Held, ReadyNodes
    <3> QED BY <1>3, <3>4, <3>6, <3>7, <3>8 DEF Allowed, Frozen
  <2> QED BY <2>1, <2>2
<1> QED BY <1>2, <1>3

\* A node that is being evaluated can be finished, whatever the others are.
LEMMA FinishedExists ==
  ASSUME NEW s, WellFormed(s), NEW n \in Nodes
  PROVE  Finished(s, n) # {}
<1> DEFINE nd == [m \in Nodes |-> IF m = n \/ s.node[m] = "idle" THEN "done" ELSE s.node[m]]
<1>1. nd \in [Nodes -> NodeStates]
  BY DEF WellFormed, Snapshots, NodeStates
<1>2. nd[n] = "done" /\ \A m \in Nodes : nd[m] # "idle"
  OBVIOUS
<1>3. \A m \in Nodes \ {n} : IF s.node[m] = "idle" THEN nd[m] \in {"idle", "ready", "done"}
                                                  ELSE nd[m] = s.node[m]
  OBVIOUS
<1> HIDE DEF nd
<1>4. nd \in Settled(s.node, n)
  BY <1>1, <1>2, <1>3 DEF Settled
<1> QED BY <1>4 DEF Finished

\* A step evaluates a ready node of a run that goes on.  What it asks for is a
\* call or a timer, and what was asked for before stays asked for.
LEMMA StepAsks ==
  ASSUME NEW s, WellFormed(s)
  PROVE  /\ \A t \in StepOutcomes(s) :
              /\ t.paused = s.paused
              /\ \A n \in Nodes : t.eff[n] = "requested" =>
                    s.eff[n] = "requested" \/ Kind[n] \in {"call", "timer"}
         /\ ~ s.cancelled => StepOutcomes(s) # {}
<1>1. ASSUME NEW t \in StepOutcomes(s)
      PROVE  /\ t.paused = s.paused
             /\ \A n \in Nodes : t.eff[n] = "requested" =>
                   s.eff[n] = "requested" \/ Kind[n] \in {"call", "timer"}
  <2>1. CASE t = s
    BY <2>1
  <2>2. CASE t # s
    <3>1. PICK m \in ReadyNodes(s) : t \in Finished(s, m) \cup Waited(s, m)
      BY <2>2 DEF StepOutcomes
    <3>2. m \in Nodes /\ s.node[m] = "ready"
      BY <3>1 DEF ReadyNodes
    <3>3. CASE t \in Finished(s, m)
      BY <3>2, <3>3, FinishedType
    <3>4. CASE t \in Waited(s, m)
      <4>1. /\ t = [s EXCEPT !.node[m] = "waiting", !.eff[m] = "requested"]
            /\ Kind[m] \in {"call", "timer"}
        BY <3>2, <3>4, NodesAssumption DEF Waited
      <4> QED BY <3>2, <4>1 DEF WellFormed, Snapshots
    <3> QED BY <3>1, <3>3, <3>4
  <2> QED BY <2>1, <2>2
<1>2. ASSUME ~ s.cancelled PROVE StepOutcomes(s) # {}
  <2>1. CASE s.paused \/ ReadyNodes(s) = {}
    BY <1>2, <2>1 DEF StepOutcomes
  <2>2. CASE ~ s.paused /\ ReadyNodes(s) # {}
    <3>1. PICK m \in ReadyNodes(s) : m \in Nodes
      BY <2>2 DEF ReadyNodes
    <3>2. Finished(s, m) # {}
      BY <3>1, FinishedExists
    <3> QED BY <1>2, <2>2, <3>1, <3>2 DEF StepOutcomes
  <2> QED BY <2>1, <2>2
<1> QED BY <1>1, <1>2

\* An answer asks for nothing.  It settles its effect unless the run is
\* cancelled, and an effect that was asked for accepts a live one.
LEMMA ResolveAsks ==
  ASSUME NEW s, WellFormed(s), NEW n \in Nodes, NEW answer \in Settlers \cup {"unknown"}
  PROVE  /\ \A t \in ResolveOutcomes(s, n, answer) :
              /\ t.paused = s.paused
              /\ s.cancelled \/ t.eff[n] \notin {"none", "requested"}
              /\ \A m \in Nodes : t.eff[m] = "requested" => s.eff[m] = "requested"
         /\ s.eff[n] = "requested" => ResolveOutcomes(s, n, answer) # {}
<1>1. s.eff[n] \in EffStates /\ s.eff \in [Nodes -> EffStates]
  BY DEF WellFormed, Snapshots
<1>2. ASSUME NEW t \in ResolveOutcomes(s, n, answer)
      PROVE  /\ t.paused = s.paused
             /\ s.cancelled \/ t.eff[n] \notin {"none", "requested"}
             /\ \A m \in Nodes : t.eff[m] = "requested" => s.eff[m] = "requested"
  <2>1. s.eff[n] # "none"
    BY DEF ResolveOutcomes, Settlers
  <2>2. CASE s.eff[n] \in Settlers \/ s.cancelled
    <3>1. t = s
      BY <2>1, <2>2 DEF ResolveOutcomes, Settlers
    <3> QED BY <2>2, <3>1 DEF Settlers
  <2>3. CASE s.eff[n] \notin Settlers /\ ~ s.cancelled /\ answer = "unknown"
    <3>1. t = [s EXCEPT !.eff[n] = "unknown"]
      BY <2>1, <2>3 DEF ResolveOutcomes
    <3> QED BY <1>1, <3>1 DEF WellFormed, Snapshots
  <2>4. CASE s.eff[n] \notin Settlers /\ ~ s.cancelled /\ answer # "unknown"
    <3>1. PICK u \in IF s.node[n] = "waiting" THEN Finished(s, n) ELSE {s} :
                t = [u EXCEPT !.eff[n] = answer]
      BY <2>1, <2>4 DEF ResolveOutcomes
    <3>2. u.eff = s.eff /\ u.paused = s.paused /\ u \in Snapshots
      <4>1. CASE s.node[n] = "waiting"
        BY <3>1, <4>1, FinishedType DEF WellFormed
      <4>2. CASE s.node[n] # "waiting"
        BY <3>1, <4>2 DEF WellFormed
      <4> QED BY <4>1, <4>2
    <3> QED BY <1>1, <2>4, <3>1, <3>2 DEF Snapshots, Settlers
  <2> QED BY <2>2, <2>3, <2>4
<1>3. ASSUME s.eff[n] = "requested" PROVE ResolveOutcomes(s, n, answer) # {}
  <2>1. (IF s.node[n] = "waiting" THEN Finished(s, n) ELSE {s}) # {}
    BY FinishedExists
  <2>2. CASE s.cancelled \/ answer = "unknown"
    BY <1>3, <2>2 DEF ResolveOutcomes, Settlers
  <2>3. CASE ~ s.cancelled /\ answer # "unknown"
    <3>1. ResolveOutcomes(s, n, answer) =
             {[t EXCEPT !.eff[n] = answer] :
                 t \in IF s.node[n] = "waiting" THEN Finished(s, n) ELSE {s}}
      BY <1>3, <2>3 DEF ResolveOutcomes, Settlers
    <3> QED BY <2>1, <3>1
  <2> QED BY <2>2, <2>3
<1> QED BY <1>2, <1>3

\* One command, whatever it is, leaves a well-formed snapshot of which nothing
\* is undone: an ended run is not revived, an effect is not asked for again, a
\* run that is not over only becomes so.
THEOREM CommandsAllowed ==
  ASSUME NEW s, WellFormed(s), NEW t \in Successors(s)
  PROVE  Allowed(s, t)
<1>1. CASE t \in StepOutcomes(s)
  BY <1>1, StepAllowed
<1>2. CASE t \in PauseOutcomes(s) \cup ResumeOutcomes(s) \cup CancelOutcomes(s)
  BY <1>2, ControlAllowed
<1>3. CASE \E n \in Nodes : t \in DispatchOutcomes(s, n)
  <2>1. PICK n \in Nodes : t \in DispatchOutcomes(s, n)
    BY <1>3
  <2> QED BY <2>1, DispatchAllowed
<1>4. CASE \E e \in Nodes \X (Settlers \cup {"unknown"}) : t \in ResolveOutcomes(s, e[1], e[2])
  BY <1>4, ResolveAllowed
<1> QED BY <1>1, <1>2, <1>3, <1>4 DEF Successors

-----------------------------------------------------------------------------
(* The types.  To know that a handler finds the run its message names, the *)
(* messages in the inbox and in pending_inbox, the timers and the handler  *)
(* are known to name stored runs, and the host's own steps to name runs    *)
(* that are automatic.                                                     *)

Own(m) == m.kind = "step" /\ m.id = NoCommand
Known ==
    {m \in Message : \/ m.kind = "start_run"
                     \/ Exists(m.run) /\ (Own(m) => run[m.run].mode = "auto")}
KnownAnswers == {m \in EngineMessage : Exists(m.run)}
KnownEffects == {e \in Runs \X Nodes : Exists(e[1])}

Located ==
    /\ inbox \in Seq(Known)
    /\ pending \in Seq(KnownAnswers)
    /\ armed \subseteq KnownEffects
    /\ handler.at \in {"mark", "execute", "await", "drop"} => Exists(handler.run)

RowsWellFormed == \A r \in Runs : Exists(r) => WellFormed(run[r].snap)

TypeInv == TypeOK /\ Located /\ RowsWellFormed

\* The message in hand.
LEMMA HeadType ==
  ASSUME TypeInv, NEW kinds, Taking(kinds)
  PROVE  /\ Head(inbox) \in Known
         /\ Head(inbox).kind \in kinds
         /\ Tail(inbox) \in Seq(Known)
         /\ handler = Idle
BY HeadTailProperties DEF TypeInv, Located, Taking

\* A message that is not a trigger names a stored run and one of its nodes.
LEMMA CommandType ==
  ASSUME TypeInv, NEW m \in Known, m.kind # "start_run"
  PROVE  /\ m.run \in Runs /\ m.node \in Nodes /\ Exists(m.run)
         /\ run[m.run] \in RunRow /\ WellFormed(run[m.run].snap)
         /\ m.id # NoCommand /\ m.answer # "clock" => Recorded(m) \in CommandRow
<1>1. m \in Message \ StartMessage /\ Exists(m.run)
  BY DEF Known, Message, StartMessage
<1>2. m.run \in Runs /\ m.node \in Nodes
  BY <1>1 DEF Message, EngineMessage
<1>3. m.id # NoCommand /\ m.answer # "clock" => Recorded(m) \in CommandRow
  <2>1. CASE m \in EngineMessage
    BY <2>1 DEF EngineMessage, Recorded, Payload, CommandRow
  <2>2. CASE m \notin EngineMessage
    BY <1>1, <2>2 DEF Message, Recorded, Payload, CommandRow
  <2> QED BY <2>1, <2>2
<1> QED BY <1>1, <1>2, <1>3 DEF TypeInv, TypeOK, RowsWellFormed, Exists

\* Runs are never removed, and never taken back from automatic to manual.
Stays ==
    \A r \in Runs : Exists(r) =>
        Exists(r)' /\ (run[r].mode = "auto" => run'[r].mode = "auto")

\* What named stored runs goes on naming stored runs.
LEMMA KnownStays ==
  ASSUME Stays
  PROVE  /\ \A q \in Seq(Known) : q \in Seq(Known')
         /\ \A q \in Seq(KnownAnswers) : q \in Seq(KnownAnswers')
         /\ KnownEffects \subseteq KnownEffects'
<1>1. Known \subseteq Known'
  BY DEF Known, Stays, Message, EngineMessage, StartMessage
<1>2. KnownAnswers \subseteq KnownAnswers'
  BY DEF KnownAnswers, Stays, EngineMessage
<1>3. KnownEffects \subseteq KnownEffects'
  BY DEF KnownEffects, Stays
<1> QED BY <1>1, <1>2, <1>3, SeqMonotonic

\* The messages the host makes.
LEMMA MessageTypes ==
  ASSUME NEW r \in Runs, NEW n \in Nodes, Exists(r)
  PROVE  /\ run[r].mode = "auto" => HostStep(r) \in Known
         /\ Dispatch(r, n) \in Known
         /\ \A tag \in {"resolve", "unknown", "timer", "clock"} :
              \A answer \in {"live", "unknown", "clock"} :
                 EngineCommand(tag, r, n, answer) \in KnownAnswers \cap Known
         /\ TimerDue(r, n) \in Seq(Known)
<1>1. run[r].mode = "auto" => HostStep(r) \in Known
  BY NodesAssumption DEF HostStep, Command, Known, Message, UserKinds
<1>2. Dispatch(r, n) \in Known
  BY DEF Dispatch, Command, Known, Own, Message
<1>3. \A tag \in {"resolve", "unknown", "timer", "clock"} :
        \A answer \in {"live", "unknown", "clock"} :
           EngineCommand(tag, r, n, answer) \in KnownAnswers \cap Known
  BY DEF EngineCommand, Command, Known, Own, KnownAnswers, Message, EngineMessage, EngineIds
<1>4. TimerDue(r, n) \in Seq(Known)
  BY <1>3 DEF TimerDue
<1> QED BY <1>1, <1>2, <1>3, <1>4

LEMMA StartType ==
  ASSUME NEW t \in Triggers, NEW void \in BOOLEAN
  PROVE  Start(t, void) \in Known
BY DEF Start, Known, Message, StartMessage

\* The sequences the host puts together, over any set that holds their parts.
LEMMA DispatchesOver ==
  ASSUME NEW S, NEW r, NEW calling \in SUBSET Nodes, \A n \in calling : Dispatch(r, n) \in S
  PROVE  DispatchesFor(r, calling) \in Seq(S)
<1> DEFINE nodes == SetToSeq(calling)
<1>1. nodes \in Seq(calling)
  BY CoordinatorAssumption, FS_Subset, ListType
<1>2. Len(nodes) \in Nat /\ DOMAIN nodes = 1..Len(nodes) /\ \A i \in 1..Len(nodes) : nodes[i] \in calling
  BY <1>1
<1> HIDE DEF nodes
<1>3. [i \in 1..Len(nodes) |-> Dispatch(r, nodes[i])] \in [1..Len(nodes) -> S]
  BY <1>2
<1>4. [i \in 1..Len(nodes) |-> Dispatch(r, nodes[i])] \in Seq(S)
  BY <1>2, <1>3, SeqDef
<1> QED BY <1>2, <1>4 DEF DispatchesFor, nodes

LEMMA NextQueuedOver ==
  ASSUME order \in Seq(Triggers), NEW rows, NEW f, NEW S, \A t \in Triggers : Start(t, TRUE) \in S
  PROVE  NextQueued(rows, f) \in Seq(S)
<1> DEFINE waiting == {i \in DOMAIN order : order[i] \in Queued(rows, f)}
<1>1. CASE waiting = {}
  BY <1>1 DEF NextQueued
<1>2. CASE waiting # {}
  <2>1. waiting \in SUBSET Nat /\ \A i \in waiting : order[i] \in Triggers
    OBVIOUS
  <2>2. order[Min(waiting)] \in Triggers
    BY <1>2, <2>1, MinType
  <2>3. NextQueued(rows, f) = <<Start(order[Min(waiting)], TRUE)>>
    BY <1>2 DEF NextQueued
  <2> QED BY <2>2, <2>3, SingletonType
<1> QED BY <1>1, <1>2

LEMMA WithoutPendingOver ==
  ASSUME NEW S, pending \in Seq(S), NEW id
  PROVE  WithoutPending(id) \in Seq(S)
<1> DEFINE at == {i \in 1..Len(pending) : pending[i].id = id}
<1>1. CASE at = {}
  BY <1>1 DEF WithoutPending, RemoveFirstMatch
<1>2. CASE at # {}
  <2>1. Min(at) \in 1..Len(pending)
    <3>1. at \in SUBSET Nat
      OBVIOUS
    <3>2. Min(at) \in at
      BY <1>2, <3>1, MinType
    <3> QED BY <3>2
  <2>2. WithoutPending(id) = RemoveAt(pending, Min(at))
    BY <1>2 DEF WithoutPending, RemoveFirstMatch, SelectInSeq
  <2>3. RemoveAt(pending, Min(at)) \in Seq(S)
    <3> HIDE DEF at
    <3>1. SubSeq(pending, 1, Min(at) - 1) \in Seq(S)
      BY <2>1
    <3>2. SubSeq(pending, Min(at) + 1, Len(pending)) \in Seq(S)
      BY <2>1
    <3> QED BY <3>1, <3>2 DEF RemoveAt
  <2> QED BY <2>2, <2>3
<1> QED BY <1>1, <1>2

LEMMA MarkLostOver ==
  ASSUME NEW S, \A e \in LostDispatches :
                   Open(e[1]) => EngineCommand("unknown", e[1], e[2], "unknown") \in S
  PROVE  MarkLost \in Seq(S)
<1> DEFINE T == {e \in LostDispatches : Open(e[1])}
           lost == SetToSeq(T)
<1>1. T \subseteq Runs \X Nodes
  BY DEF LostDispatches
<1>2. IsFiniteSet(T)
  BY <1>1, CoordinatorAssumption, FS_Product, FS_Subset
<1>3. lost \in Seq(T)
  BY <1>2, ListType
<1>4. Len(lost) \in Nat /\ DOMAIN lost = 1..Len(lost) /\ \A i \in 1..Len(lost) : lost[i] \in T
  <2> HIDE DEF T, lost
  <2> QED BY <1>3
<1>5. [i \in 1..Len(lost) |-> EngineCommand("unknown", lost[i][1], lost[i][2], "unknown")]
        \in [1..Len(lost) -> S]
  <2> HIDE DEF lost
  <2> QED BY <1>4
<1>6. MarkLost = [i \in 1..Len(lost) |-> EngineCommand("unknown", lost[i][1], lost[i][2], "unknown")]
  BY <1>4 DEF MarkLost
<1> HIDE DEF lost
<1> QED BY <1>4, <1>5, <1>6, SeqDef

LEMMA ResumedOver ==
  ASSUME NEW S, NEW r, NEW due,
         \A n \in Nodes : Dispatch(r, n) \in S /\ TimerDue(r, n) \in Seq(S),
         CanAutoStep(run[r]) => HostStep(r) \in S
  PROVE  Resumed(r, due) \in Seq(S)
<1> DEFINE unsent == {n \in Nodes : <<r, n>> \in Unsent}
           late == {n \in unsent : <<r, n>> \in due}
           calling == {n \in unsent : Kind[n] = "call"}
           timers == SetToSeq(late)
           rings == [i \in DOMAIN timers |-> TimerDue(r, timers[i])]
<1>1. DispatchesFor(r, calling) \in Seq(S) /\ StepFor(r, run[r]) \in Seq(S)
  <2>1. DispatchesFor(r, calling) \in Seq(S)
    BY DispatchesOver
  <2>2. StepFor(r, run[r]) \in Seq(S)
    BY SingletonType DEF StepFor
  <2> QED BY <2>1, <2>2
<1>2. late \subseteq Nodes /\ IsFiniteSet(late)
  BY CoordinatorAssumption, FS_Subset
<1>3. timers \in Seq(late)
  BY <1>2, ListType
<1>4. /\ Len(timers) \in Nat /\ DOMAIN timers = 1..Len(timers)
      /\ \A i \in 1..Len(timers) : timers[i] \in Nodes
  <2> HIDE DEF timers, late
  <2> QED BY <1>2, <1>3
<1>5. rings \in Seq(Seq(S))
  <2>1. rings \in [1..Len(timers) -> Seq(S)]
    <3> HIDE DEF timers
    <3> QED BY <1>4
  <2> HIDE DEF rings, timers
  <2> QED BY <1>4, <2>1, SeqDef
<1>6. FlattenSeq(rings) \in Seq(S)
  <2> HIDE DEF rings
  <2> QED BY <1>5, FlattenType
<1>7. Resumed(r, due) = DispatchesFor(r, calling) \o FlattenSeq(rings) \o StepFor(r, run[r])
  BY DEF Resumed
<1> HIDE DEF rings, calling
<1> QED BY <1>1, <1>6, <1>7

LEMMA RecoverOver ==
  ASSUME NEW S, NEW due, Recover(due), pending \in Seq(S), MarkLost \in Seq(S),
         \A r \in Runs : Open(r) => Resumed(r, due) \in Seq(S)
  PROVE  inbox' \in Seq(S)
<1> DEFINE T == {r \in Runs : Open(r)}
           open == SetToSeq(T)
           parts == [i \in DOMAIN open |-> Resumed(open[i], due)]
<1>1. open \in Seq(T)
  BY CoordinatorAssumption, FS_Subset, ListType
<1>2. /\ Len(open) \in Nat /\ DOMAIN open = 1..Len(open)
      /\ \A i \in 1..Len(open) : open[i] \in T
  <2> HIDE DEF open, T
  <2> QED BY <1>1
<1>3. parts \in Seq(Seq(S))
  <2>1. parts \in [1..Len(open) -> Seq(S)]
    <3> HIDE DEF open
    <3> QED BY <1>2
  <2> HIDE DEF parts, open, T
  <2> QED BY <1>2, <2>1, SeqDef
<1>4. FlattenSeq(parts) \in Seq(S)
  <2> HIDE DEF parts
  <2> QED BY <1>3, FlattenType
<1>5. inbox' = pending \o MarkLost \o FlattenSeq(parts)
  BY DEF Recover
<1> HIDE DEF parts
<1> QED BY <1>4, <1>5

LEMMA DispatchesType ==
  ASSUME NEW r \in Runs, Exists(r), NEW calling \in SUBSET Nodes
  PROVE  DispatchesFor(r, calling) \in Seq(Known)
BY DispatchesOver, MessageTypes

LEMMA StepForType ==
  ASSUME NEW r \in Runs, Exists(r)
  PROVE  StepFor(r, run[r]) \in Seq(Known)
<1>1. CanAutoStep(run[r]) => HostStep(r) \in Known
  BY NodesAssumption, MessageTypes DEF CanAutoStep
<1> QED BY <1>1 DEF StepFor

LEMMA NextQueuedType ==
  ASSUME TypeInv, NEW rows, NEW f
  PROVE  NextQueued(rows, f) \in Seq(Known)
BY NextQueuedOver, StartType DEF TypeInv, TypeOK

LEMMA ExpireType ==
  ASSUME NEW rows \in [Triggers -> Row], NEW f
  PROVE  ExpireQueued(rows, f) \in [Triggers -> Row]
<1> SUFFICES ASSUME NEW t \in Triggers PROVE ExpireQueued(rows, f)[t] \in Row
  BY DEF ExpireQueued
<1>1. CASE t \in Queued(rows, f) \cap overdue
  <2>1. rows[t] \in Row /\ rows[t].status = "queued"
    BY <1>1 DEF Queued
  <2> QED BY <1>1, <2>1 DEF ExpireQueued, Row
<1>2. CASE t \notin Queued(rows, f) \cap overdue
  BY <1>2 DEF ExpireQueued
<1> QED BY <1>1, <1>2

LEMMA WithoutPendingType ==
  ASSUME TypeInv, NEW id
  PROVE  WithoutPending(id) \in Seq(KnownAnswers)
BY WithoutPendingOver DEF TypeInv, Located

\* afterPersist leaves rows, messages and timers of the right types.
LEMMA AfterPersistType ==
  ASSUME TypeInv, Stays, NEW rows \in [Triggers -> Row], NEW rest \in Seq(Known),
         NEW r \in Runs, Exists(r), NEW row, row.snap \in Snapshots,
         NEW requests \in SUBSET Nodes, row = run'[r],
         AfterPersist(rows, rest, r, row, requests)
  PROVE  /\ trigger' \in [Triggers -> Row]
         /\ inbox' \in Seq(Known')
         /\ armed' \subseteq KnownEffects'
<1> DEFINE calling == {n \in requests : Kind[n] = "call"}
           timing == {n \in requests : Kind[n] = "timer"}
           left == ExpireQueued(rows, row.flow)
<1>1. rest \in Seq(Known') /\ armed \subseteq KnownEffects'
  BY KnownStays DEF TypeInv, Located
<1>2. CASE Terminal(row.snap)
  <2>1. trigger' = left /\ armed' = armed /\ inbox' = rest \o NextQueued(left, row.flow)
    BY <1>2 DEF AfterPersist
  <2>2. NextQueued(left, row.flow) \in Seq(Known')
    BY NextQueuedType, KnownStays
  <2> QED BY <1>1, <2>1, <2>2, ExpireType
<1>3. CASE ~ Terminal(row.snap)
  <2>1. /\ trigger' = rows
        /\ inbox' = rest \o (IF row.snap.paused THEN <<>> ELSE DispatchesFor(r, calling))
                         \o StepFor(r, row)
        /\ armed' = armed \cup {<<r, n>> : n \in timing}
    BY <1>3 DEF AfterPersist
  <2>2. armed' \subseteq KnownEffects'
    <3>1. \A n \in timing : <<r, n>> \in KnownEffects
      BY DEF KnownEffects
    <3> HIDE DEF timing
    <3> QED BY <1>1, <2>1, <3>1, KnownStays
  <2>3. DispatchesFor(r, calling) \in Seq(Known') /\ StepFor(r, row) \in Seq(Known')
    <3>1. DispatchesFor(r, calling) \in Seq(Known')
      BY DispatchesType, KnownStays
    <3>2. CanAutoStep(row) => HostStep(r) \in Known'
      BY NodesAssumption DEF CanAutoStep, HostStep, Command, Known, Message, UserKinds,
         Stays, Exists
    <3> QED BY <3>1, <3>2 DEF StepFor
  <2>4. inbox' \in Seq(Known')
    <3> HIDE DEF calling
    <3> QED BY <1>1, <2>1, <2>3
  <2> QED BY <2>1, <2>2, <2>4
<1> QED BY <1>2, <1>3

\* A commit stores a row for a stored run and what its message says.
LEMMA CommitType ==
  ASSUME TypeInv, NEW m \in Known, m.kind # "start_run",
         NEW row \in RunRow, WellFormed(row.snap), Commit(m, row),
         run[m.run].mode = "auto" => row.mode = "auto"
  PROVE  /\ run' \in [Runs -> RunRow \cup {NoRun}]
         /\ outbox' \in [Runs -> [Nodes -> EffStates]]
         /\ commands' \subseteq CommandRow
         /\ RowsWellFormed'
         /\ Stays
<1>1. /\ m.run \in Runs
      /\ m.id # NoCommand /\ m.answer # "clock" => Recorded(m) \in CommandRow
  BY CommandType
<1>2. run' = [run EXCEPT ![m.run] = row] /\ outbox' = [outbox EXCEPT ![m.run] = row.snap.eff]
  BY DEF Commit
<1>3. row.snap.eff \in [Nodes -> EffStates]
  BY DEF WellFormed, Snapshots
<1>4. commands' \subseteq CommandRow
  BY <1>1 DEF Commit, TypeInv, TypeOK
<1>5. RowsWellFormed' /\ Stays
  BY <1>1, <1>2, NoRunAssumption DEF TypeInv, TypeOK, RowsWellFormed, Exists, Stays
<1> QED BY <1>1, <1>2, <1>3, <1>4, <1>5 DEF TypeInv, TypeOK

\* TypeInv of the next state, from its parts.
LEMMA TypeInvParts ==
  ASSUME inbox' \in Seq(Known'), pending' \in Seq(KnownAnswers'),
         armed' \subseteq KnownEffects', handler' \in Handlers,
         handler'.at \in {"mark", "execute", "await", "drop"} => Exists(handler.run)',
         RowsWellFormed',
         trigger' \in [Triggers -> Row], order' \in Seq(Triggers),
         overdue' \subseteq Triggers, run' \in [Runs -> RunRow \cup {NoRun}],
         outbox' \in [Runs -> [Nodes -> EffStates]],
         commands' \subseteq CommandRow, proc' \in {"up", "fatal", "down"},
         arrivals' \in [triggers : SUBSET Triggers, commands : Nat], crashes' \in Nat,
         calls' \in [Runs -> [Nodes -> Nat]]
  PROVE  TypeInv'
<1>1. inbox' \in Seq(Message)
  BY SeqMonotonic DEF Known
<1>2. pending' \in Seq(EngineMessage)
  BY SeqMonotonic DEF KnownAnswers
<1>3. armed' \subseteq Runs \X Nodes
  BY DEF KnownEffects
<1> QED BY <1>1, <1>2, <1>3 DEF TypeInv, TypeOK, Located

\* What is left alone keeps its type.
LEMMA Untouched ==
  ASSUME TypeInv
  PROVE  /\ UNCHANGED run => Stays /\ RowsWellFormed'
         /\ Stays /\ UNCHANGED inbox => inbox' \in Seq(Known')
         /\ Stays /\ UNCHANGED pending => pending' \in Seq(KnownAnswers')
         /\ Stays /\ UNCHANGED armed => armed' \subseteq KnownEffects'
         /\ Stays /\ UNCHANGED handler =>
              /\ handler' \in Handlers
              /\ handler'.at \in {"mark", "execute", "await", "drop"} => Exists(handler.run)'
         /\ Stays /\ handler' = Idle =>
              /\ handler' \in Handlers
              /\ handler'.at \in {"mark", "execute", "await", "drop"} => Exists(handler.run)'
<1>1. UNCHANGED run => Stays /\ RowsWellFormed'
  BY DEF Stays, Exists, TypeInv, RowsWellFormed
<1>2. ASSUME Stays PROVE /\ UNCHANGED inbox => inbox' \in Seq(Known')
                         /\ UNCHANGED pending => pending' \in Seq(KnownAnswers')
                         /\ UNCHANGED armed => armed' \subseteq KnownEffects'
  BY <1>2, KnownStays DEF TypeInv, Located
<1>3. ASSUME Stays, UNCHANGED handler
      PROVE  /\ handler' \in Handlers
             /\ handler'.at \in {"mark", "execute", "await", "drop"} => Exists(handler.run)'
  <2>1. handler \in Handlers
    BY DEF TypeInv, TypeOK
  <2>2. ASSUME handler.at \in {"mark", "execute", "await", "drop"}
        PROVE  Exists(handler.run)'
    <3>1. handler.run \in Runs /\ Exists(handler.run)
      BY <2>1, <2>2 DEF Handlers, Idle, TypeInv, Located
    <3> QED BY <1>3, <3>1 DEF Stays, Exists
  <2> QED BY <1>3, <2>1, <2>2
<1>4. handler' = Idle => /\ handler' \in Handlers
                         /\ handler'.at \notin {"mark", "execute", "await", "drop"}
  BY DEF Handlers, Idle
<1> QED BY <1>1, <1>2, <1>3, <1>4

\* A message that is discarded or refused leaves the types alone.
LEMMA DropsHeadType ==
  ASSUME TypeInv, NEW kinds, Taking(kinds), inbox' = Tail(inbox),
         proc' \in {"up", "fatal", "down"},
         UNCHANGED <<stored, handler, armed, history>>
  PROVE  TypeInv'
<1>1. Stays
  BY Untouched DEF stored
<1>2. inbox' \in Seq(Known')
  BY <1>1, HeadType, KnownStays
<1> QED BY <1>1, <1>2, Untouched, TypeInvParts DEF stored, history, TypeInv, TypeOK

LEMMA DiscardType ==
  ASSUME TypeInv, NEW kinds, Taking(kinds), Discard PROVE TypeInv'
BY DropsHeadType DEF Discard, TypeInv, TypeOK

LEMMA RefuseType ==
  ASSUME TypeInv, NEW kinds, Taking(kinds), NEW m, Refuse(m) PROVE TypeInv'
BY DropsHeadType DEF Refuse, TypeInv, TypeOK

-----------------------------------------------------------------------------
(* One lemma for each action that changes more than the inbox.             *)

LEMMA InsertTriggerType ==
  ASSUME TypeInv, NEW t \in Triggers, Admitted(t), InsertTrigger(t)
  PROVE  trigger' \in [Triggers -> Row] /\ order' \in Seq(Triggers)
<1>1. trigger[t] \in Row /\ trigger[t].status \in {"absent", "queued"}
  BY DEF Admitted, TypeInv, TypeOK
<1>2. [trigger[t] EXCEPT !.status = "queued"] \in Row
  BY <1>1 DEF Row
<1>3. trigger' = [trigger EXCEPT ![t] = [trigger[t] EXCEPT !.status = "queued"]]
  BY DEF InsertTrigger
<1> QED BY <1>2, <1>3 DEF InsertTrigger, TypeInv, TypeOK

LEMMA TakeTriggerType ==
  ASSUME TypeInv, QueueTrigger \/ AcceptTrigger
  PROVE  TypeInv'
<1> DEFINE t == Head(inbox).trigger
<1>1. Taking({"start_run"}) /\ Admitted(t) /\ InsertTrigger(t) /\ inbox' = Tail(inbox)
  BY DEF QueueTrigger, AcceptTrigger
<1>2. t \in Triggers /\ Tail(inbox) \in Seq(Known)
  <2>1. Head(inbox) \in Known /\ Head(inbox).kind = "start_run" /\ Tail(inbox) \in Seq(Known)
    BY <1>1, HeadType
  <2> QED BY <2>1 DEF Known, Message, StartMessage, EngineMessage, UserKinds
<1>3. trigger' \in [Triggers -> Row] /\ order' \in Seq(Triggers)
  BY <1>1, <1>2, InsertTriggerType
<1>4. UNCHANGED <<overdue, run, outbox, pending, commands, proc, armed, history>>
  BY DEF QueueTrigger, AcceptTrigger
<1>5. Stays /\ inbox' \in Seq(Known')
  BY <1>1, <1>2, <1>4, Untouched, KnownStays
<1>6. /\ handler' \in Handlers
      /\ handler'.at \in {"mark", "execute", "await", "drop"} => Exists(handler.run)'
  <2>1. CASE QueueTrigger
    BY <1>5, <2>1, Untouched DEF QueueTrigger
  <2>2. CASE AcceptTrigger
    <3>1. handler' = [at |-> "begin", trigger |-> t]
      BY <2>2 DEF AcceptTrigger
    <3> QED BY <1>2, <3>1 DEF Handlers
  <2> QED BY <2>1, <2>2
<1> QED BY <1>3, <1>4, <1>5, <1>6, Untouched, TypeInvParts DEF history, TypeInv, TypeOK

LEMMA BeginStartType ==
  ASSUME TypeInv, BeginStart
  PROVE  TypeInv'
<1>1. PICK r \in Runs : ~ Exists(r) /\ r = CHOOSE q \in Runs : ~ Exists(q)
  BY DEF BeginStart
<1>2. PICK t \in Triggers : t = handler.trigger
  BY DEF BeginStart, TypeInv, TypeOK, Handlers, Idle
<1> DEFINE row == [flow |-> FlowOf[t], trigger |-> t, mode |-> ModeOf[t],
                   snap |-> StartSnap, applied |-> {}]
<1>3. row \in RunRow /\ WellFormed(row.snap)
  BY StartSnapType, CoordinatorAssumption DEF RunRow, WellFormed
<1>4. run' = [run EXCEPT ![r] = row] /\ outbox' = [outbox EXCEPT ![r] = row.snap.eff]
      /\ handler' = [at |-> "mark", trigger |-> t, run |-> r]
  BY <1>1, <1>2 DEF BeginStart
<1> HIDE DEF row
<1>5. run' \in [Runs -> RunRow \cup {NoRun}] /\ outbox' \in [Runs -> [Nodes -> EffStates]]
  BY <1>1, <1>3, <1>4 DEF TypeInv, TypeOK, WellFormed, Snapshots
<1>6. Stays /\ RowsWellFormed' /\ Exists(r)'
  BY <1>1, <1>3, <1>4, NoRunAssumption DEF Stays, Exists, RowsWellFormed, TypeInv, TypeOK
<1>7. handler' \in Handlers /\ Exists(handler.run)'
  BY <1>4, <1>6 DEF Handlers, Exists
<1>8. UNCHANGED <<trigger, order, overdue, pending, commands, proc, inbox, armed, history>>
  BY DEF BeginStart
<1> QED BY <1>5, <1>6, <1>7, <1>8, Untouched, TypeInvParts DEF history, TypeInv, TypeOK

LEMMA MarkStartedType ==
  ASSUME TypeInv, MarkStarted
  PROVE  TypeInv'
<1> DEFINE t == handler.trigger
           r == handler.run
<1>1. t \in Triggers /\ r \in Runs /\ Exists(r)
  BY DEF MarkStarted, TypeInv, TypeOK, Located, Handlers, Idle
<1>2. UNCHANGED <<order, overdue, run, outbox, pending, commands, proc, history>>
      /\ handler' = Idle /\ AfterPersist(Started(t, r), inbox, r, run[r], {})
  BY DEF MarkStarted
<1> HIDE DEF t, r
<1>3. Started(t, r) \in [Triggers -> Row]
  BY <1>1 DEF Started, Row, TypeInv, TypeOK
<1>4. Stays /\ run[r].snap \in Snapshots /\ inbox \in Seq(Known)
  BY <1>1, <1>2, Untouched DEF TypeInv, RowsWellFormed, WellFormed, Located
<1>5. trigger' \in [Triggers -> Row] /\ inbox' \in Seq(Known') /\ armed' \subseteq KnownEffects'
  BY <1>1, <1>2, <1>3, <1>4, AfterPersistType
<1> QED BY <1>2, <1>4, <1>5, Untouched, TypeInvParts DEF history, TypeInv, TypeOK

\* A user's command leads to a snapshot the contract allows.
LEMMA OutcomesAllowed ==
  ASSUME NEW m \in Known, m.kind \in UserKinds, NEW row \in RunRow,
         WellFormed(row.snap), NEW s \in Outcomes(m, row)
  PROVE  Allowed(row.snap, s) /\ Frozen(row.snap, s)
<1>1. m.node \in Nodes
  BY DEF Known, Message, StartMessage, EngineMessage, UserKinds
<1>2. CASE m.kind \in {"step", "continue"}
  BY <1>2, StepAllowed DEF Outcomes
<1>3. CASE m.kind \in {"pause", "resume", "cancel"}
  BY <1>3, ControlAllowed DEF Outcomes
<1>4. CASE m.kind = "fixture"
  <2>1. s = row.snap \/ s \in ResolveOutcomes(row.snap, m.node, "fixture")
    BY <1>4 DEF Outcomes
  <2> QED BY <1>1, <2>1, AllowedSelf, ResolveAllowed DEF Settlers
<1> QED BY <1>2, <1>3, <1>4 DEF UserKinds

LEMMA HandleCommandType ==
  ASSUME TypeInv, HandleCommand
  PROVE  TypeInv'
<1>1. Taking(UserKinds)
  BY DEF HandleCommand
<1>2. PICK m \in Known : m = Head(inbox) /\ m.kind \in UserKinds
  BY <1>1, HeadType
<1>3. PICK old \in RunRow : old = run[m.run]
  BY <1>2, CommandType DEF UserKinds
<1>4. m.kind # "start_run" /\ m.run \in Runs /\ Exists(m.run) /\ WellFormed(old.snap)
  BY <1>2, <1>3, CommandType DEF UserKinds
<1>5. PICK s \in Outcomes(m, old) :
         LET row == [old EXCEPT !.snap = s,
                                !.mode = IF m.kind = "continue" THEN "auto" ELSE @,
                                !.applied = Remembered(m, old)]
         IN  /\ Commit(m, row)
             /\ AfterPersist(trigger, Tail(inbox), m.run, row, Requests(m, old.snap, s))
  BY <1>2, <1>3 DEF HandleCommand
<1> DEFINE row == [old EXCEPT !.snap = s,
                              !.mode = IF m.kind = "continue" THEN "auto" ELSE @,
                              !.applied = Remembered(m, old)]
<1>6. WellFormed(s)
  BY <1>2, <1>4, <1>5, OutcomesAllowed DEF Allowed
<1>7. Remembered(m, old) \subseteq CommandRow
  <2>1. m.id # NoCommand => Recorded(m) \in CommandRow
    <3>1. m.answer # "clock"
      BY <1>2 DEF Known, Message, StartMessage, EngineMessage, UserKinds
    <3> QED BY <1>2, <1>4, <3>1, CommandType
  <2> QED BY <1>3, <2>1 DEF Remembered, RunRow
<1>8. row \in RunRow /\ row.snap = s /\ (old.mode = "auto" => row.mode = "auto")
  BY <1>3, <1>6, <1>7 DEF RunRow, WellFormed
<1> HIDE DEF row
<1>9. Commit(m, row) /\ AfterPersist(trigger, Tail(inbox), m.run, row, Requests(m, old.snap, s))
  BY <1>5 DEF row
<1>10. /\ run' \in [Runs -> RunRow \cup {NoRun}] /\ outbox' \in [Runs -> [Nodes -> EffStates]]
       /\ commands' \subseteq CommandRow /\ RowsWellFormed' /\ Stays
  BY <1>3, <1>4, <1>6, <1>8, <1>9, CommitType
<1>11. trigger' \in [Triggers -> Row] /\ inbox' \in Seq(Known') /\ armed' \subseteq KnownEffects'
  <2>1. Tail(inbox) \in Seq(Known) /\ trigger \in [Triggers -> Row] /\ row.snap \in Snapshots
    BY <1>1, <1>6, <1>8, HeadType DEF TypeInv, TypeOK, WellFormed
  <2>2. Requests(m, old.snap, s) \in SUBSET Nodes
    BY DEF Requests, Requested
  <2>3. row = run'[m.run]
    BY <1>4, <1>8, <1>9 DEF Commit, TypeInv, TypeOK
  <2> QED BY <1>4, <1>9, <1>10, <2>1, <2>2, <2>3, AfterPersistType
<1>12. UNCHANGED <<order, overdue, pending, proc, handler, arrivals, crashes, calls>>
  BY DEF HandleCommand
<1> QED BY <1>10, <1>11, <1>12, Untouched, TypeInvParts DEF TypeInv, TypeOK

LEMMA StartDispatchType ==
  ASSUME TypeInv, StartDispatch
  PROVE  TypeInv'
<1>1. Taking({"dispatch"})
  BY DEF StartDispatch
<1>2. PICK m \in Known : m = Head(inbox) /\ m.kind = "dispatch"
  BY <1>1, HeadType
<1>3. PICK old \in RunRow : old = run[m.run]
  BY <1>2, CommandType
<1>4. m.run \in Runs /\ m.node \in Nodes /\ Exists(m.run) /\ WellFormed(old.snap)
  BY <1>2, <1>3, CommandType
<1>5. PICK s \in DispatchOutcomes(old.snap, m.node) : Commit(m, [old EXCEPT !.snap = s])
  BY <1>2, <1>3 DEF StartDispatch
<1>6. WellFormed(s)
  BY <1>4, <1>5, DispatchAllowed DEF Allowed
<1>7. /\ [old EXCEPT !.snap = s] \in RunRow /\ [old EXCEPT !.snap = s].snap = s
      /\ [old EXCEPT !.snap = s].mode = old.mode
  BY <1>3, <1>6 DEF RunRow, WellFormed
<1>8. /\ run' \in [Runs -> RunRow \cup {NoRun}] /\ outbox' \in [Runs -> [Nodes -> EffStates]]
      /\ commands' \subseteq CommandRow /\ RowsWellFormed' /\ Stays
  BY <1>2, <1>3, <1>5, <1>6, <1>7, CommitType
<1>9. /\ handler' \in Handlers
      /\ handler'.at \in {"mark", "execute", "await", "drop"} => Exists(handler.run)'
  <2>1. handler' = [at |-> "execute", run |-> m.run, node |-> m.node]
    BY <1>2 DEF StartDispatch
  <2>2. Exists(m.run)'
    BY <1>4, <1>8 DEF Stays
  <2> QED BY <1>4, <2>1, <2>2 DEF Handlers, Exists
<1>10. inbox' = Tail(inbox) /\ UNCHANGED <<trigger, order, overdue, pending, proc, armed, history>>
  BY DEF StartDispatch
<1>11. inbox' \in Seq(Known')
  BY <1>1, <1>8, <1>10, HeadType, KnownStays
<1> QED BY <1>8, <1>9, <1>10, <1>11, Untouched, TypeInvParts DEF history, TypeInv, TypeOK

LEMMA ExecuteType ==
  ASSUME TypeInv, Execute
  PROVE  TypeInv'
<1>1. PICK r \in Runs, n \in Nodes : handler = [at |-> "execute", run |-> r, node |-> n]
  BY DEF Execute, TypeInv, TypeOK, Handlers, Idle
<1>2. /\ calls' = [calls EXCEPT ![r][n] = @ + 1]
      /\ handler' = [at |-> "await", run |-> r, node |-> n]
      /\ UNCHANGED <<stored, proc, inbox, armed, arrivals, crashes>>
  BY <1>1 DEF Execute
<1>3. calls' \in [Runs -> [Nodes -> Nat]]
  BY <1>1, <1>2 DEF TypeInv, TypeOK
<1>4. Exists(r)' /\ Stays
  BY <1>1, <1>2, Untouched DEF stored, TypeInv, Located, Exists
<1>5. handler' \in Handlers /\ Exists(handler.run)'
  BY <1>1, <1>2, <1>4 DEF Handlers, Exists
<1> QED BY <1>2, <1>3, <1>4, <1>5, Untouched, TypeInvParts DEF stored, TypeInv, TypeOK

LEMMA AnswerType ==
  ASSUME TypeInv, Answer
  PROVE  TypeInv'
<1>1. PICK r \in Runs, n \in Nodes : handler = [at |-> "await", run |-> r, node |-> n] /\ Exists(r)
  BY DEF Answer, TypeInv, TypeOK, Located, Handlers, Idle
<1>2. PICK answer \in {"live", "unknown"} :
         /\ pending' = IF HasPending(r, n) THEN pending
                       ELSE Append(pending, EngineCommand("resolve", r, n, answer))
         /\ inbox' = Append(inbox, EngineCommand("resolve", r, n, answer))
  BY <1>1 DEF Answer
<1>3. EngineCommand("resolve", r, n, answer) \in KnownAnswers \cap Known
  BY <1>1, MessageTypes
<1>4. UNCHANGED <<trigger, order, overdue, run, outbox, commands, proc, armed, history>>
      /\ handler' = Idle
  BY DEF Answer
<1>5. inbox' \in Seq(Known) /\ pending' \in Seq(KnownAnswers)
  BY <1>2, <1>3 DEF TypeInv, Located
<1>6. Stays /\ inbox' \in Seq(Known') /\ pending' \in Seq(KnownAnswers')
  BY <1>4, <1>5, Untouched, KnownStays
<1> QED BY <1>4, <1>6, Untouched, TypeInvParts DEF history, TypeInv, TypeOK

\* A command of the engine's own leads to a snapshot the contract allows.
LEMMA EngineOutcomesAllowed ==
  ASSUME TypeInv, NEW m \in Known, m.kind = "core_command", NEW s \in EngineOutcomes(m)
  PROVE  Allowed(run[m.run].snap, s) /\ Frozen(run[m.run].snap, s)
<1>1. m.answer \in {"live", "unknown", "clock"}
  BY DEF Known, Message, StartMessage, EngineMessage, UserKinds
<1>2. m.node \in Nodes /\ WellFormed(run[m.run].snap)
  BY CommandType
<1>3. CASE m.answer = "clock"
  BY <1>2, <1>3, AllowedSelf DEF EngineOutcomes
<1>4. CASE m.answer # "clock"
  BY <1>1, <1>2, <1>4, ResolveAllowed DEF EngineOutcomes, Settlers
<1> QED BY <1>3, <1>4

LEMMA HandleCoreCommandType ==
  ASSUME TypeInv, HandleCoreCommand
  PROVE  TypeInv'
<1>1. Taking({"core_command"})
  BY DEF HandleCoreCommand
<1>2. PICK m \in Known : m = Head(inbox) /\ m.kind = "core_command"
  BY <1>1, HeadType
<1>3. PICK old \in RunRow : old = run[m.run]
  BY <1>2, CommandType
<1>4. m.run \in Runs /\ Exists(m.run) /\ m.id \in EngineIds
  <2>1. m \in EngineMessage
    BY <1>2 DEF Known, Message, StartMessage, UserKinds
  <2> QED BY <1>2, <2>1, CommandType DEF EngineMessage
<1>5. PICK s \in EngineOutcomes(m) : Commit(m, [old EXCEPT !.snap = s])
  BY <1>2, <1>3 DEF HandleCoreCommand
<1>6. WellFormed(s)
  BY <1>2, <1>5, EngineOutcomesAllowed DEF Allowed
<1>7. /\ [old EXCEPT !.snap = s] \in RunRow /\ [old EXCEPT !.snap = s].snap = s
      /\ [old EXCEPT !.snap = s].mode = old.mode
  BY <1>3, <1>6 DEF RunRow, WellFormed
<1>8. /\ run' \in [Runs -> RunRow \cup {NoRun}] /\ outbox' \in [Runs -> [Nodes -> EffStates]]
      /\ commands' \subseteq CommandRow /\ RowsWellFormed' /\ Stays
  BY <1>2, <1>3, <1>5, <1>6, <1>7, CommitType
<1>9. /\ handler' \in Handlers
      /\ handler'.at \in {"mark", "execute", "await", "drop"} => Exists(handler.run)'
  <2>1. handler' = [at |-> "drop", id |-> m.id, run |-> m.run]
    BY <1>2 DEF HandleCoreCommand
  <2>2. Exists(m.run)'
    BY <1>4, <1>8 DEF Stays
  <2> QED BY <1>4, <2>1, <2>2 DEF Handlers, Exists
<1>10. inbox' = Tail(inbox) /\ UNCHANGED <<trigger, order, overdue, pending, proc, armed, history>>
  BY DEF HandleCoreCommand
<1>11. inbox' \in Seq(Known')
  BY <1>1, <1>8, <1>10, HeadType, KnownStays
<1> QED BY <1>8, <1>9, <1>10, <1>11, Untouched, TypeInvParts DEF history, TypeInv, TypeOK

LEMMA DropPendingType ==
  ASSUME TypeInv, DropPending
  PROVE  TypeInv'
<1>1. PICK r \in Runs : r = handler.run /\ Exists(r)
  BY DEF DropPending, TypeInv, TypeOK, Located, Handlers, Idle
<1>2. /\ pending' = WithoutPending(handler.id) /\ handler' = Idle
      /\ AfterPersist(trigger, inbox, r, run[r], {})
      /\ UNCHANGED <<order, overdue, run, outbox, commands, proc, history>>
  BY <1>1 DEF DropPending
<1>3. Stays /\ pending' \in Seq(KnownAnswers')
  BY <1>2, Untouched, WithoutPendingType, KnownStays
<1>4. run[r].snap \in Snapshots /\ inbox \in Seq(Known) /\ trigger \in [Triggers -> Row]
  BY <1>1 DEF TypeInv, TypeOK, RowsWellFormed, WellFormed, Located
<1>5. trigger' \in [Triggers -> Row] /\ inbox' \in Seq(Known') /\ armed' \subseteq KnownEffects'
  BY <1>1, <1>2, <1>3, <1>4, AfterPersistType
<1> QED BY <1>2, <1>3, <1>5, Untouched, TypeInvParts DEF history, TypeInv, TypeOK

LEMMA RepeatCoreCommandType ==
  ASSUME TypeInv, RepeatCoreCommand
  PROVE  TypeInv'
<1>1. /\ Taking({"core_command"}) /\ inbox' = Tail(inbox)
      /\ pending' = WithoutPending(Head(inbox).id)
      /\ UNCHANGED <<trigger, order, overdue, run, outbox, commands, proc, handler, armed, history>>
  BY DEF RepeatCoreCommand
<1>2. Stays /\ pending' \in Seq(KnownAnswers') /\ inbox' \in Seq(Known')
  BY <1>1, Untouched, WithoutPendingType, KnownStays, HeadType
<1> QED BY <1>1, <1>2, Untouched, TypeInvParts DEF history, TypeInv, TypeOK

\* What arrives from outside is a message about a stored run.
LEMMA OutsideType ==
  ASSUME TypeInv, Outside \/ (\E r \in Runs, n \in Nodes : TimerFires(r, n)) \/ Die
  PROVE  TypeInv'
<1>1. ASSUME NEW t \in Triggers, NEW awaited \in Awaited, SendTrigger(t, awaited)
      PROVE  TypeInv'
  <2>1. Start(t, ~ awaited) \in Known
    BY StartType
  <2>2. /\ arrivals' = [arrivals EXCEPT !.triggers = @ \cup {t}]
        /\ inbox' = Append(inbox, Start(t, ~ awaited))
        /\ UNCHANGED <<stored, proc, handler, armed, crashes, calls, applies>>
    BY <1>1 DEF SendTrigger
  <2>3. Stays /\ inbox' \in Seq(Known')
    <3>1. Stays
      BY <2>2, Untouched DEF stored
    <3>2. inbox' \in Seq(Known)
      BY <2>1, <2>2 DEF TypeInv, Located
    <3> QED BY <3>1, <3>2, KnownStays
  <2>4. arrivals' \in [triggers : SUBSET Triggers, commands : Nat]
    BY <2>2 DEF TypeInv, TypeOK
  <2> QED BY <2>2, <2>3, <2>4, Untouched, TypeInvParts DEF stored, TypeInv, TypeOK
<1>2. ASSUME NEW kind \in UserKinds, NEW c \in Commands, NEW r \in Runs, NEW n \in Nodes,
             NEW awaited \in Awaited, SendCommand(kind, c, r, n, awaited)
      PROVE  TypeInv'
  <2> DEFINE m == Command(kind, c, r, n, IF kind = "fixture" THEN "fixture" ELSE "none", ~ awaited)
  <2>1. m \in Known
    BY <1>2, CoordinatorAssumption DEF SendCommand, Command, Known, Own, Message
  <2>2. /\ arrivals' = [arrivals EXCEPT !.commands = @ + 1]
        /\ inbox' = Append(inbox, m)
        /\ UNCHANGED <<stored, proc, handler, armed, crashes, calls, applies>>
    BY <1>2 DEF SendCommand
  <2> HIDE DEF m
  <2>3. Stays /\ inbox' \in Seq(Known')
    <3>1. Stays
      BY <2>2, Untouched DEF stored
    <3>2. inbox' \in Seq(Known)
      BY <2>1, <2>2 DEF TypeInv, Located
    <3> QED BY <3>1, <3>2, KnownStays
  <2>4. arrivals' \in [triggers : SUBSET Triggers, commands : Nat]
    <3>1. arrivals \in [triggers : SUBSET Triggers, commands : Nat]
      BY DEF TypeInv, TypeOK
    <3> QED BY <2>2, <3>1
  <2> QED BY <2>2, <2>3, <2>4, Untouched, TypeInvParts DEF stored, TypeInv, TypeOK
<1>3. ASSUME NEW r \in Runs, NEW n \in Nodes, TimerFires(r, n)
      PROVE  TypeInv'
  <2>1. /\ Exists(r) /\ armed' = armed \ {<<r, n>>} /\ inbox' = inbox \o TimerDue(r, n)
        /\ UNCHANGED <<stored, proc, handler, history>>
    BY <1>3 DEF TimerFires, TypeInv, Located, KnownEffects
  <2>2. TimerDue(r, n) \in Seq(Known) /\ inbox \in Seq(Known)
    BY <2>1, MessageTypes DEF TypeInv, Located
  <2>3. Stays /\ inbox' \in Seq(Known') /\ armed' \subseteq KnownEffects'
    BY <2>1, <2>2, Untouched, KnownStays DEF stored, TypeInv, Located
  <2> QED BY <2>1, <2>3, Untouched, TypeInvParts DEF stored, history, TypeInv, TypeOK
<1>4. ASSUME NEW t \in Triggers, TtlPasses(t)
      PROVE  TypeInv'
  <2>1. /\ overdue' = overdue \cup {t}
        /\ UNCHANGED <<trigger, order, run, outbox, pending, commands, volatile, history>>
    BY <1>4 DEF TtlPasses
  <2> QED BY <2>1, Untouched, TypeInvParts DEF volatile, history, TypeInv, TypeOK
<1>5. ASSUME GoDown, crashes' \in Nat
      PROVE  TypeInv'
  <2>1. /\ proc' = "down" /\ inbox' = <<>> /\ handler' = Idle /\ armed' = {}
        /\ UNCHANGED <<stored, arrivals, calls, applies>>
    BY <1>5 DEF GoDown
  <2> QED BY <1>5, <2>1, Untouched, TypeInvParts DEF stored, TypeInv, TypeOK
<1>6. Crash \/ Die => GoDown /\ crashes' \in Nat
  BY DEF Crash, Die, TypeInv, TypeOK
<1> QED BY <1>1, <1>2, <1>3, <1>4, <1>5, <1>6, CoordinatorAssumption DEF Outside, UserKinds

\* What recovery puts into the inbox.
LEMMA MarkLostType == MarkLost \in Seq(Known)
<1> SUFFICES ASSUME NEW e \in LostDispatches, Open(e[1])
             PROVE  EngineCommand("unknown", e[1], e[2], "unknown") \in Known
  BY MarkLostOver
<1>1. e[1] \in Runs /\ e[2] \in Nodes /\ Exists(e[1])
  BY DEF LostDispatches, Open
<1> QED BY <1>1, MessageTypes

LEMMA ResumedType ==
  ASSUME NEW r \in Runs, Exists(r), NEW due
  PROVE  Resumed(r, due) \in Seq(Known)
<1>1. \A n \in Nodes : Dispatch(r, n) \in Known /\ TimerDue(r, n) \in Seq(Known)
  BY MessageTypes
<1>2. CanAutoStep(run[r]) => HostStep(r) \in Known
  BY NodesAssumption, MessageTypes DEF CanAutoStep
<1> QED BY <1>1, <1>2, ResumedOver


LEMMA RecoverType ==
  ASSUME TypeInv, NEW due, Recover(due)
  PROVE  TypeInv'
<1>1. /\ armed' \subseteq Unsent /\ proc' = "up"
      /\ UNCHANGED <<trigger, order, overdue, run, pending, commands, handler, history>>
  BY DEF Recover
<1>2. pending \in Seq(Known)
  <2>1. KnownAnswers \subseteq Known
    BY DEF Known, Own, KnownAnswers, EngineMessage, Message
  <2> QED BY <2>1, SeqMonotonic DEF TypeInv, Located
<1>3. inbox' \in Seq(Known)
  BY <1>2, MarkLostType, ResumedType, RecoverOver DEF Open
<1>4. Stays /\ inbox' \in Seq(Known')
  BY <1>1, <1>3, Untouched, KnownStays
<1>5. armed' \subseteq KnownEffects'
  <2>1. Unsent \subseteq KnownEffects
    BY DEF Unsent, KnownEffects, Open
  <2> QED BY <1>1, <1>4, <2>1, KnownStays
<1>6. outbox' \in [Runs -> [Nodes -> EffStates]]
  <2>1. outbox \in [Runs -> [Nodes -> EffStates]]
    BY DEF TypeInv, TypeOK
  <2> QED BY <2>1 DEF Recover, EffStates
<1> QED BY <1>1, <1>4, <1>5, <1>6, Untouched, TypeInvParts DEF history, TypeInv, TypeOK

-----------------------------------------------------------------------------

LEMMA InitType == Init => TypeInv
<1> SUFFICES ASSUME Init PROVE TypeInv
  OBVIOUS
<1>1. \A r \in Runs : ~ Exists(r)
  BY DEF Init, Exists
<1>2. TypeOK
  BY DEF Init, TypeOK, Row, EffStates, Handlers, Idle
<1>3. Located
  BY DEF Init, Located, Idle
<1> QED BY <1>1, <1>2, <1>3 DEF TypeInv, RowsWellFormed

LEMMA NextType == TypeInv /\ [Next]_vars => TypeInv'
<1> SUFFICES ASSUME TypeInv, [Next]_vars PROVE TypeInv'
  OBVIOUS
<1>1. CASE AnswerDuplicate \/ RepeatCommand \/ SkipDispatch
  BY <1>1, DiscardType DEF AnswerDuplicate, RepeatCommand, SkipDispatch
<1>2. CASE RefuseTrigger \/ RefuseCommand \/ RefuseCoreCommand
  BY <1>2, RefuseType DEF RefuseTrigger, RefuseCommand, RefuseCoreCommand
<1>3. CASE QueueTrigger \/ AcceptTrigger
  BY <1>3, TakeTriggerType
<1>4. CASE BeginStart \/ MarkStarted
  BY <1>4, BeginStartType, MarkStartedType
<1>5. CASE HandleCommand
  BY <1>5, HandleCommandType
<1>6. CASE StartDispatch \/ Execute \/ Answer
  BY <1>6, StartDispatchType, ExecuteType, AnswerType
<1>7. CASE HandleCoreCommand \/ DropPending \/ RepeatCoreCommand
  BY <1>7, HandleCoreCommandType, DropPendingType, RepeatCoreCommandType
<1>8. CASE Outside \/ (\E r \in Runs, n \in Nodes : TimerFires(r, n)) \/ Die
  BY <1>8, OutsideType
<1>9. CASE RecoverSome
  BY <1>9, RecoverType DEF RecoverSome
<1>10. CASE UNCHANGED vars
  BY <1>10, Untouched, TypeInvParts DEF vars, stored, volatile, history, TypeInv, TypeOK
<1> QED BY <1>1, <1>2, <1>3, <1>4, <1>5, <1>6, <1>7, <1>8, <1>9, <1>10 DEF Next, Handle

\* The rows of the store, the messages and the handler's progress have their
\* types in every behaviour.  What makes it inductive is that every message,
\* saved answer, timer and handler names a run that is stored.
THEOREM TypeCorrect == Spec => []TypeOK
<1>1. Spec => []TypeInv
  BY InitType, NextType, PTL DEF Spec
<1>2. TypeInv => TypeOK
  BY DEF TypeInv
<1> QED BY <1>1, <1>2, PTL

-----------------------------------------------------------------------------
(* What a step does to the stored runs.                                    *)

\* A stored run stays, keeps its flow, its trigger and the commands applied to
\* it, and moves as one command of the kernel lets it; no run appears.
Advances ==
    \A r \in Runs :
        /\ Exists(r)' <=> Exists(r)
        /\ Exists(r) => /\ run'[r].flow = run[r].flow
                        /\ run'[r].trigger = run[r].trigger
                        /\ run[r].applied \subseteq run'[r].applied
                        /\ Allowed(run[r].snap, run'[r].snap)
                        /\ Frozen(run[r].snap, run'[r].snap)

LEMMA UnchangedAdvances ==
  ASSUME TypeInv, UNCHANGED run PROVE Advances
BY AllowedSelf DEF TypeInv, RowsWellFormed, Advances, Exists

LEMMA CommitAdvances ==
  ASSUME TypeInv, NEW m \in Known, m.kind # "start_run",
         NEW row \in RunRow, row.flow = run[m.run].flow, row.trigger = run[m.run].trigger,
         run[m.run].applied \subseteq row.applied,
         Allowed(run[m.run].snap, row.snap), Frozen(run[m.run].snap, row.snap),
         Commit(m, row)
  PROVE  Advances
<1>1. m.run \in Runs /\ Exists(m.run)
  BY CommandType
<1>2. run' = [run EXCEPT ![m.run] = row] /\ run \in [Runs -> RunRow \cup {NoRun}]
  BY DEF Commit, TypeInv, TypeOK
<1> SUFFICES ASSUME NEW r \in Runs
             PROVE  /\ Exists(r)' <=> Exists(r)
                    /\ Exists(r) => /\ run'[r].flow = run[r].flow
                                    /\ run'[r].trigger = run[r].trigger
                                    /\ run[r].applied \subseteq run'[r].applied
                                    /\ Allowed(run[r].snap, run'[r].snap)
                                    /\ Frozen(run[r].snap, run'[r].snap)
  BY DEF Advances
<1>3. CASE r = m.run
  BY <1>1, <1>2, <1>3, NoRunAssumption DEF Exists
<1>4. CASE r # m.run
  BY <1>2, <1>4, AllowedSelf DEF Exists, TypeInv, RowsWellFormed
<1> QED BY <1>3, <1>4

\* The three actions that commit a row: the message and the row committed.
LEMMA Commits ==
  ASSUME TypeInv, HandleCommand \/ StartDispatch \/ HandleCoreCommand
  PROVE  \E m \in Known, row \in RunRow :
            /\ m = Head(inbox) /\ m.kind # "start_run"
            /\ row.flow = run[m.run].flow /\ row.trigger = run[m.run].trigger
            /\ run[m.run].applied \subseteq row.applied
            /\ Allowed(run[m.run].snap, row.snap) /\ Frozen(run[m.run].snap, row.snap)
            /\ StartDispatch => /\ row.snap.eff[m.node] \notin {"none", "requested"}
                                /\ ~ row.snap.paused /\ ~ row.snap.cancelled
                                /\ Terminal(row.snap) => Terminal(run[m.run].snap)
            /\ Commit(m, row)
<1>1. CASE HandleCommand
  <2>1. Taking(UserKinds) /\ ~ StartDispatch
    BY <1>1 DEF HandleCommand, StartDispatch, Taking, UserKinds
  <2>2. PICK m \in Known : m = Head(inbox) /\ m.kind \in UserKinds
    BY <2>1, HeadType
  <2>3. PICK old \in RunRow : old = run[m.run]
    BY <2>2, CommandType DEF UserKinds
  <2>4. WellFormed(old.snap) /\ m.kind # "start_run"
    BY <2>2, <2>3, CommandType DEF UserKinds
  <2>5. PICK s \in Outcomes(m, old) :
           Commit(m, [old EXCEPT !.snap = s,
                                 !.mode = IF m.kind = "continue" THEN "auto" ELSE @,
                                 !.applied = Remembered(m, old)])
    BY <1>1, <2>2, <2>3 DEF HandleCommand
  <2> DEFINE row == [old EXCEPT !.snap = s,
                                !.mode = IF m.kind = "continue" THEN "auto" ELSE @,
                                !.applied = Remembered(m, old)]
  <2>6. Allowed(old.snap, s) /\ Frozen(old.snap, s)
    BY <2>2, <2>4, <2>5, OutcomesAllowed
  <2>7. Remembered(m, old) \subseteq CommandRow /\ old.applied \subseteq Remembered(m, old)
    <3>1. m.answer # "clock"
      BY <2>2 DEF Known, Message, StartMessage, EngineMessage, UserKinds
    <3>2. m.id # NoCommand => Recorded(m) \in CommandRow
      BY <2>4, <3>1, CommandType
    <3> QED BY <2>3, <3>2 DEF Remembered, RunRow
  <2>8. /\ row \in RunRow /\ row.snap = s /\ row.flow = old.flow /\ row.trigger = old.trigger
        /\ old.applied \subseteq row.applied
    BY <2>3, <2>6, <2>7 DEF RunRow, Allowed, WellFormed
  <2>9. Commit(m, row)
    BY <2>5
  <2> HIDE DEF row
  <2> QED BY <2>1, <2>2, <2>3, <2>4, <2>6, <2>8, <2>9
<1>2. CASE StartDispatch
  <2>1. Taking({"dispatch"})
    BY <1>2 DEF StartDispatch
  <2>2. PICK m \in Known : m = Head(inbox) /\ m.kind = "dispatch"
    BY <2>1, HeadType
  <2>3. PICK old \in RunRow : old = run[m.run]
    BY <2>2, CommandType
  <2>4. WellFormed(old.snap) /\ m.node \in Nodes
    BY <2>2, <2>3, CommandType
  <2>5. PICK s \in DispatchOutcomes(old.snap, m.node) :
           ~ old.snap.paused /\ ~ old.snap.cancelled /\ Commit(m, [old EXCEPT !.snap = s])
    BY <1>2, <2>2, <2>3 DEF StartDispatch
  <2>6. /\ Allowed(old.snap, s) /\ Frozen(old.snap, s) /\ s.eff[m.node] \notin {"none", "requested"}
        /\ ~ s.paused /\ ~ s.cancelled /\ (Terminal(s) => Terminal(old.snap))
    BY <2>4, <2>5, DispatchAllowed DEF Frozen, Terminal
  <2> DEFINE row == [old EXCEPT !.snap = s]
  <2>7. /\ row \in RunRow /\ row.snap = s /\ row.flow = old.flow /\ row.trigger = old.trigger
        /\ old.applied \subseteq row.applied
    BY <2>3, <2>6 DEF RunRow, Allowed, WellFormed
  <2>8. Commit(m, row)
    BY <2>5
  <2> HIDE DEF row
  <2> QED BY <2>2, <2>3, <2>6, <2>7, <2>8
<1>3. CASE HandleCoreCommand
  <2>1. Taking({"core_command"}) /\ ~ StartDispatch
    BY <1>3 DEF HandleCoreCommand, StartDispatch, Taking
  <2>2. PICK m \in Known : m = Head(inbox) /\ m.kind = "core_command"
    BY <2>1, HeadType
  <2>3. PICK old \in RunRow : old = run[m.run]
    BY <2>2, CommandType
  <2>4. PICK s \in EngineOutcomes(m) : Commit(m, [old EXCEPT !.snap = s])
    BY <1>3, <2>2, <2>3 DEF HandleCoreCommand
  <2>5. Allowed(old.snap, s) /\ Frozen(old.snap, s)
    BY <2>2, <2>3, <2>4, EngineOutcomesAllowed
  <2> DEFINE row == [old EXCEPT !.snap = s]
  <2>6. /\ row \in RunRow /\ row.snap = s /\ row.flow = old.flow /\ row.trigger = old.trigger
        /\ old.applied \subseteq row.applied
    BY <2>3, <2>5 DEF RunRow, Allowed, WellFormed
  <2>7. Commit(m, row)
    BY <2>4
  <2> HIDE DEF row
  <2> QED BY <2>1, <2>2, <2>3, <2>5, <2>6, <2>7
<1> QED BY <1>1, <1>2, <1>3

\* The actions that touch no stored run.
Elsewhere ==
    \/ AnswerDuplicate \/ RefuseTrigger \/ QueueTrigger \/ AcceptTrigger \/ MarkStarted
    \/ RepeatCommand \/ RefuseCommand \/ SkipDispatch \/ Execute \/ Answer
    \/ DropPending \/ RepeatCoreCommand \/ RefuseCoreCommand
    \/ (\E r \in Runs, n \in Nodes : TimerFires(r, n)) \/ Die \/ RecoverSome \/ Outside
    \/ UNCHANGED vars

LEMMA NextCases ==
  [Next]_vars <=> Elsewhere \/ BeginStart \/ HandleCommand \/ StartDispatch \/ HandleCoreCommand
BY DEF Next, Handle, Elsewhere

LEMMA ElsewhereRuns == Elsewhere => UNCHANGED run
BY DEF Elsewhere, AnswerDuplicate, RefuseTrigger, QueueTrigger, AcceptTrigger, MarkStarted,
   RepeatCommand, RefuseCommand, SkipDispatch, Execute, Answer, DropPending,
   RepeatCoreCommand, RefuseCoreCommand, TimerFires, Die, RecoverSome, Recover, Outside,
   SendTrigger, SendCommand, TtlPasses, Crash, GoDown, Discard, Refuse, stored, vars

\* Every step but the start of a run advances the stored runs.
LEMMA StepAdvances ==
  ASSUME TypeInv, [Next]_vars, ~ BeginStart PROVE Advances
<1>1. CASE Elsewhere
  BY <1>1, ElsewhereRuns, UnchangedAdvances
<1>2. CASE HandleCommand \/ StartDispatch \/ HandleCoreCommand
  BY <1>2, Commits, CommitAdvances
<1> QED BY <1>1, <1>2, NextCases

\* The start of a run stores one, for the trigger in hand, where none was.
LEMMA BeginStartRuns ==
  ASSUME TypeInv, BeginStart
  PROVE  \E r \in Runs :
            /\ ~ Exists(r) /\ handler.trigger \in Triggers
            /\ run'[r].flow = FlowOf[handler.trigger] /\ run'[r].snap = StartSnap
            /\ run'[r].trigger = handler.trigger
            /\ handler' = [at |-> "mark", trigger |-> handler.trigger, run |-> r]
            /\ \A q \in Runs : q # r => run'[q] = run[q] /\ outbox'[q] = outbox[q]
            /\ outbox'[r] = StartSnap.eff
            /\ Exists(r)'
<1>1. PICK r \in Runs : ~ Exists(r) /\ r = CHOOSE q \in Runs : ~ Exists(q)
  BY DEF BeginStart
<1>2. PICK t \in Triggers : t = handler.trigger
  BY DEF BeginStart, TypeInv, TypeOK, Handlers, Idle
<1> DEFINE row == [flow |-> FlowOf[t], trigger |-> t, mode |-> ModeOf[t],
                   snap |-> StartSnap, applied |-> {}]
<1>3. run' = [run EXCEPT ![r] = row] /\ outbox' = [outbox EXCEPT ![r] = StartSnap.eff]
  BY <1>1, <1>2 DEF BeginStart
<1>4. row \in RunRow
  BY StartSnapType, CoordinatorAssumption DEF RunRow, WellFormed
<1>5. run \in [Runs -> RunRow \cup {NoRun}] /\ outbox \in [Runs -> [Nodes -> EffStates]]
  BY DEF TypeInv, TypeOK
<1>6. Exists(r)'
  <2> HIDE DEF row
  <2> QED BY <1>3, <1>4, <1>5, NoRunAssumption DEF Exists
<1>7. handler' = [at |-> "mark", trigger |-> t, run |-> r]
  BY <1>1, <1>2 DEF BeginStart
<1> QED BY <1>1, <1>2, <1>3, <1>5, <1>6, <1>7

-----------------------------------------------------------------------------
(* The lease of a flow.  HoldingUnique is not inductive: a run that is      *)
(* about to be stored has to find its flow still free.                     *)

LeaseInv ==
    /\ HoldingUnique
    /\ handler.at = "begin" => HoldingRuns(FlowOf[handler.trigger]) = {}

\* Runs that only advance take no flow.
LEMMA AdvancesHolding ==
  ASSUME Advances
  PROVE  /\ HoldingUnique => HoldingUnique'
         /\ \A f : HoldingRuns(f) = {} => HoldingRuns(f)' = {}
<1>1. \A r \in Runs : Open(r)' => Open(r) /\ run'[r].flow = run[r].flow
  BY DEF Advances, Allowed, Open
<1>2. HoldingUnique => HoldingUnique'
  BY <1>1 DEF HoldingUnique
<1>3. \A f : HoldingRuns(f) = {} => HoldingRuns(f)' = {}
  BY <1>1 DEF HoldingRuns
<1> QED BY <1>2, <1>3

\* Only AcceptTrigger begins a start, and only BeginStart takes it on.
LEMMA HandlerMoves ==
  ASSUME TypeInv, [Next]_vars
  PROVE  /\ handler'.at = "begin" => AcceptTrigger \/ UNCHANGED handler
         /\ handler'.at = "mark" => BeginStart \/ UNCHANGED handler
<1>1. handler \in Handlers
  BY DEF TypeInv, TypeOK
<1>2. ASSUME Elsewhere, ~ AcceptTrigger, ~ UNCHANGED handler
      PROVE  handler' = Idle \/ handler'.at = "await"
  <2>1. CASE Execute
    <3>1. handler' = [handler EXCEPT !.at = "await"] /\ handler.at = "execute"
      BY <2>1 DEF Execute
    <3> QED BY <1>1, <3>1 DEF Handlers, Idle
  <2>2. CASE ~ Execute
    BY <1>2, <2>2 DEF Elsewhere, AnswerDuplicate, RefuseTrigger, QueueTrigger, MarkStarted,
       RepeatCommand, RefuseCommand, SkipDispatch, Answer, DropPending,
       RepeatCoreCommand, RefuseCoreCommand, TimerFires, Die, RecoverSome, Recover, Outside,
       SendTrigger, SendCommand, TtlPasses, Crash, GoDown, Discard, Refuse, vars, volatile
  <2> QED BY <2>1, <2>2
<1>3. CASE Elsewhere
  <2>1. AcceptTrigger => handler'.at = "begin"
    BY DEF AcceptTrigger
  <2> QED BY <1>2, <1>3, <2>1 DEF Idle
<1>4. CASE BeginStart \/ HandleCommand \/ StartDispatch \/ HandleCoreCommand
  <2>1. CASE HandleCommand
    BY <2>1 DEF HandleCommand
  <2>2. BeginStart => handler'.at = "mark"
    BY DEF BeginStart
  <2>3. StartDispatch => handler'.at = "execute"
    BY DEF StartDispatch
  <2>4. HandleCoreCommand => handler'.at = "drop"
    BY DEF HandleCoreCommand
  <2> QED BY <1>4, <2>1, <2>2, <2>3, <2>4
<1> QED BY <1>3, <1>4, NextCases

LEMMA LeaseStep == TypeInv /\ LeaseInv /\ [Next]_vars => LeaseInv'
<1> SUFFICES ASSUME TypeInv, LeaseInv, [Next]_vars PROVE LeaseInv'
  OBVIOUS
<1>1. CASE BeginStart
  <2>1. PICK r \in Runs :
           /\ handler.trigger \in Triggers /\ run'[r].flow = FlowOf[handler.trigger]
           /\ \A q \in Runs : q # r => run'[q] = run[q]
    BY <1>1, BeginStartRuns
  <2>2. HoldingRuns(FlowOf[handler.trigger]) = {}
    BY <1>1 DEF LeaseInv, BeginStart
  <2>3. \A q \in Runs : q # r /\ Open(q)' => Open(q) /\ run'[q].flow = run[q].flow
    BY <2>1 DEF Open, Exists
  <2>4. \A q \in Runs : q # r /\ Open(q)' => run'[q].flow # run'[r].flow
    BY <2>1, <2>2, <2>3 DEF HoldingRuns
  <2>5. HoldingUnique'
    BY <2>3, <2>4 DEF HoldingUnique, LeaseInv
  <2>6. handler'.at # "begin"
    BY <1>1 DEF BeginStart
  <2> QED BY <2>5, <2>6 DEF LeaseInv
<1>2. CASE ~ BeginStart
  <2>1. Advances
    BY <1>2, StepAdvances
  <2>2. HoldingUnique'
    BY <2>1, AdvancesHolding DEF LeaseInv
  <2>3. ASSUME handler'.at = "begin" PROVE HoldingRuns(FlowOf[handler.trigger])' = {}
    <3>1. CASE AcceptTrigger
      <4>1. /\ HoldingRuns(FlowOf[Head(inbox).trigger]) = {}
            /\ handler' = [at |-> "begin", trigger |-> Head(inbox).trigger]
            /\ UNCHANGED run
        BY <3>1 DEF AcceptTrigger
      <4> QED BY <4>1 DEF HoldingRuns, Open, Exists
    <3>2. CASE UNCHANGED handler
      <4>1. HoldingRuns(FlowOf[handler.trigger]) = {}
        BY <2>3, <3>2 DEF LeaseInv
      <4>2. HoldingRuns(FlowOf[handler.trigger])' = {}
        <5>1. PICK t : t = handler.trigger /\ t = handler'.trigger
          BY <3>2
        <5>2. HoldingRuns(FlowOf[t])' = {}
          BY <2>1, <4>1, <5>1, AdvancesHolding
        <5> QED BY <5>1, <5>2 DEF HoldingRuns
      <4> QED BY <4>2
    <3> QED BY <2>3, <3>1, <3>2, HandlerMoves
  <2> QED BY <2>2, <2>3 DEF LeaseInv
<1> QED BY <1>1, <1>2

LEMMA TypeInvariant == Spec => []TypeInv
BY InitType, NextType, PTL DEF Spec

\* A flow has one live run at most, however many flows, runs and triggers there
\* are and wherever the process dies.
THEOREM OneRunPerFlow == Spec => []HoldingUnique
<1>1. Init => LeaseInv
  BY DEF Init, LeaseInv, HoldingUnique, Open, Exists, Idle
<1>2. Spec => []LeaseInv
  BY <1>1, LeaseStep, TypeInvariant, PTL DEF Spec
<1>3. LeaseInv => HoldingUnique
  BY DEF LeaseInv
<1> QED BY <1>2, <1>3, PTL

-----------------------------------------------------------------------------
(* One call for each effect.  AtMostOneCall is not inductive: the outbox    *)
(* row of an effect that may still be called has to show that it was not    *)
(* called, and it does because it agrees with the snapshot, whose effects   *)
(* only move forward.                                                       *)

Uncalled == {"none", "requested"}

CallsInv ==
    /\ OutboxAgrees
    /\ \A r \in Runs, n \in Nodes :
          /\ ~ Exists(r) => outbox[r][n] = "none"
          /\ outbox[r][n] \in Uncalled => calls[r][n] = 0
          /\ calls[r][n] <= 1
    /\ handler.at = "execute" =>
          /\ calls[handler.run][handler.node] = 0
          /\ outbox[handler.run][handler.node] \notin Uncalled
          /\ ~ run[handler.run].snap.paused /\ ~ run[handler.run].snap.cancelled

LEMMA ElsewhereCalls ==
  ASSUME Elsewhere, ~ Execute, ~ RecoverSome
  PROVE  /\ UNCHANGED <<run, outbox, calls>>
         /\ UNCHANGED handler \/ handler' = Idle \/ handler'.at = "begin"
<1>1. CASE AnswerDuplicate \/ RefuseTrigger \/ RepeatCommand \/ RefuseCommand \/ SkipDispatch
           \/ RefuseCoreCommand
  BY <1>1 DEF AnswerDuplicate, RefuseTrigger, RepeatCommand, RefuseCommand, SkipDispatch,
     RefuseCoreCommand, Discard, Refuse, stored, history
<1>2. CASE QueueTrigger \/ RepeatCoreCommand \/ MarkStarted \/ Answer \/ DropPending
  BY <1>2 DEF QueueTrigger, RepeatCoreCommand, MarkStarted, Answer, DropPending, history
<1>3. CASE AcceptTrigger
  BY <1>3 DEF AcceptTrigger, history
<1>4. CASE \E r \in Runs, n \in Nodes : TimerFires(r, n)
  BY <1>4 DEF TimerFires, stored, history
<1>5. CASE Die \/ Crash
  BY <1>5 DEF Die, Crash, GoDown, stored
<1>6. CASE Outside /\ ~ Crash
  BY <1>6 DEF Outside, SendTrigger, SendCommand, TtlPasses, stored, volatile, history
<1>7. CASE UNCHANGED vars
  BY <1>7 DEF vars, stored, volatile, history
<1> QED BY <1>1, <1>2, <1>3, <1>4, <1>5, <1>6, <1>7 DEF Elsewhere

\* The call itself.
LEMMA ExecuteCalls ==
  ASSUME TypeInv, CallsInv, Execute
  PROVE  CallsInv'
<1>1. PICK r \in Runs, n \in Nodes : handler = [at |-> "execute", run |-> r, node |-> n]
  BY DEF Execute, TypeInv, TypeOK, Handlers, Idle
<1>2. /\ calls' = [calls EXCEPT ![r][n] = @ + 1]
      /\ handler' = [at |-> "await", run |-> r, node |-> n]
      /\ UNCHANGED <<run, outbox>>
  BY <1>1 DEF Execute, stored
<1>3. calls[r][n] = 0 /\ outbox[r][n] \notin Uncalled
  BY <1>1 DEF CallsInv
<1>4. calls \in [Runs -> [Nodes -> Nat]]
  BY DEF TypeInv, TypeOK
<1>5. \A q \in Runs, k \in Nodes :
         calls'[q][k] = IF q = r /\ k = n THEN 1 ELSE calls[q][k]
  BY <1>2, <1>3, <1>4
<1>6. OutboxAgrees'
  BY <1>2 DEF OutboxAgrees, Exists, CallsInv
<1> QED BY <1>2, <1>3, <1>5, <1>6 DEF CallsInv, Exists

\* Recovery marks rows "unknown" that were "dispatchStarted" alone.
LEMMA RecoverCalls ==
  ASSUME TypeInv, CallsInv, RecoverSome
  PROVE  CallsInv'
<1>1. /\ outbox' = [r \in Runs |-> [n \in Nodes |->
                      IF <<r, n>> \in LostDispatches /\ ~Open(r)
                      THEN "unknown" ELSE outbox[r][n]]]
      /\ UNCHANGED <<run, handler, calls>>
  BY DEF RecoverSome, Recover, history
<1>2. \A r \in Runs, n \in Nodes :
         \/ outbox'[r][n] = outbox[r][n]
         \/ outbox'[r][n] = "unknown" /\ outbox[r][n] = "dispatchStarted" /\ ~ Open(r)
  BY <1>1 DEF LostDispatches
<1>3. ASSUME NEW r \in Runs, NEW n \in Nodes,
             outbox'[r][n] = "unknown", outbox[r][n] = "dispatchStarted", ~ Open(r)
      PROVE  /\ Exists(r) /\ Terminal(run[r].snap)
             /\ run[r].snap.eff[n] = "dispatchStarted"
  BY <1>3 DEF CallsInv, OutboxAgrees, Open
<1>4. OutboxAgrees'
  <2> SUFFICES ASSUME NEW r \in Runs, NEW n \in Nodes, Exists(r)
               PROVE  \/ outbox'[r][n] = run[r].snap.eff[n]
                      \/ /\ outbox'[r][n] = "unknown" /\ Terminal(run[r].snap)
                         /\ run[r].snap.eff[n] = "dispatchStarted"
    BY <1>1 DEF OutboxAgrees, Exists
  <2> QED BY <1>2, <1>3 DEF CallsInv, OutboxAgrees
<1>5. \A r \in Runs, n \in Nodes :
         /\ ~ Exists(r)' => outbox'[r][n] = "none"
         /\ outbox'[r][n] \in Uncalled => calls'[r][n] = 0
         /\ calls'[r][n] <= 1
  BY <1>1, <1>2, <1>3 DEF CallsInv, Uncalled, Exists
<1>6. ASSUME handler'.at = "execute"
      PROVE  /\ calls'[handler'.run][handler'.node] = 0
             /\ outbox'[handler'.run][handler'.node] \notin Uncalled
             /\ ~ run'[handler'.run].snap.paused /\ ~ run'[handler'.run].snap.cancelled
  <2>1. PICK r \in Runs, n \in Nodes : handler.run = r /\ handler.node = n
    BY <1>1, <1>6 DEF TypeInv, TypeOK, Handlers, Idle
  <2>2. outbox'[r][n] \notin Uncalled
    BY <1>1, <1>2, <1>6, <2>1 DEF CallsInv, Uncalled
  <2> QED BY <1>1, <1>6, <2>1, <2>2 DEF CallsInv
<1> QED BY <1>4, <1>5, <1>6 DEF CallsInv

LEMMA BeginStartCalls ==
  ASSUME TypeInv, CallsInv, BeginStart
  PROVE  CallsInv'
<1>1. PICK r \in Runs :
         /\ ~ Exists(r) /\ Exists(r)' /\ run'[r].snap = StartSnap
         /\ \A q \in Runs : q # r => run'[q] = run[q] /\ outbox'[q] = outbox[q]
         /\ outbox'[r] = StartSnap.eff
  BY BeginStartRuns
<1>2. handler'.at = "mark" /\ calls' = calls
  BY DEF BeginStart, history
<1>3. \A n \in Nodes : outbox'[r][n] = "none" /\ calls'[r][n] = 0
  BY <1>1, <1>2, StartSnapType DEF CallsInv, Uncalled
<1>4. OutboxAgrees'
  BY <1>1 DEF CallsInv, OutboxAgrees, Exists
<1> QED BY <1>1, <1>2, <1>3, <1>4 DEF CallsInv, Exists

\* A commit writes the effects of the snapshot to the outbox.
LEMMA CommitCalls ==
  ASSUME TypeInv, CallsInv, HandleCommand \/ StartDispatch \/ HandleCoreCommand
  PROVE  CallsInv'
<1>1. PICK m \in Known, row \in RunRow :
         /\ m = Head(inbox) /\ m.kind # "start_run"
         /\ Allowed(run[m.run].snap, row.snap)
         /\ StartDispatch => /\ row.snap.eff[m.node] \notin Uncalled
                             /\ ~ row.snap.paused /\ ~ row.snap.cancelled
         /\ Commit(m, row)
  BY Commits DEF Uncalled
<1>2. m.run \in Runs /\ m.node \in Nodes /\ Exists(m.run) /\ WellFormed(run[m.run].snap)
  BY <1>1, CommandType
<1>3. PICK r \in Runs : r = m.run
  BY <1>2
<1>4. /\ run' = [run EXCEPT ![r] = row] /\ outbox' = [outbox EXCEPT ![r] = row.snap.eff]
      /\ run \in [Runs -> RunRow \cup {NoRun}] /\ outbox \in [Runs -> [Nodes -> EffStates]]
  BY <1>1, <1>3 DEF Commit, TypeInv, TypeOK
<1>5. calls' = calls
  BY DEF HandleCommand, StartDispatch, HandleCoreCommand, history
<1>6. OutboxAgrees'
  BY <1>4 DEF CallsInv, OutboxAgrees, Exists
<1>7. ASSUME NEW n \in Nodes, row.snap.eff[n] \in Uncalled PROVE calls[r][n] = 0
  <2>1. run[r].snap.eff[n] \in Uncalled
    <3>1. Forward(run[r].snap, row.snap) /\ run[r].snap.eff[n] \in EffStates
      BY <1>1, <1>2, <1>3 DEF Allowed, WellFormed, Snapshots
    <3> QED BY <1>7, <3>1 DEF Forward, Rank, Uncalled, EffStates, Settlers
  <2>2. outbox[r][n] \in Uncalled
    BY <1>2, <1>3, <2>1 DEF CallsInv, OutboxAgrees, Uncalled
  <2> QED BY <2>2 DEF CallsInv
<1>8. \A q \in Runs, n \in Nodes :
         /\ ~ Exists(q)' => outbox'[q][n] = "none"
         /\ outbox'[q][n] \in Uncalled => calls'[q][n] = 0
         /\ calls'[q][n] <= 1
  <2>1. Exists(r)'
    BY <1>4, NoRunAssumption DEF Exists
  <2>2. \A q \in Runs : q # r => run'[q] = run[q] /\ outbox'[q] = outbox[q]
    BY <1>4
  <2>3. outbox'[r] = row.snap.eff
    BY <1>4
  <2> QED BY <1>5, <1>7, <2>1, <2>2, <2>3 DEF CallsInv, Exists
<1>9. ASSUME handler'.at = "execute"
      PROVE  /\ calls'[handler'.run][handler'.node] = 0
             /\ outbox'[handler'.run][handler'.node] \notin Uncalled
             /\ ~ run'[handler'.run].snap.paused /\ ~ run'[handler'.run].snap.cancelled
  <2>1. StartDispatch
    <3>1. ~ HandleCoreCommand
      BY <1>9 DEF HandleCoreCommand
    <3>2. ~ HandleCommand
      <4>1. HandleCommand => Taking(UserKinds) /\ handler' = handler
        BY DEF HandleCommand
      <4>2. Taking(UserKinds) => handler = Idle
        BY DEF Taking
      <4> QED BY <1>9, <4>1, <4>2 DEF Idle
    <3> QED BY <3>1, <3>2
  <2>2. /\ handler' = [at |-> "execute", run |-> r, node |-> m.node]
        /\ outbox[r][m.node] = "requested"
    BY <1>1, <1>3, <2>1 DEF StartDispatch
  <2>3. calls[r][m.node] = 0
    BY <1>2, <2>2 DEF CallsInv, Uncalled
  <2>4. outbox'[r][m.node] = row.snap.eff[m.node] /\ run'[r] = row
    BY <1>4
  <2> QED BY <1>1, <1>5, <2>1, <2>2, <2>3, <2>4
<1> QED BY <1>6, <1>8, <1>9 DEF CallsInv

LEMMA CallsStep == TypeInv /\ CallsInv /\ [Next]_vars => CallsInv'
<1> SUFFICES ASSUME TypeInv, CallsInv, [Next]_vars PROVE CallsInv'
  OBVIOUS
<1>1. CASE BeginStart
  BY <1>1, BeginStartCalls
<1>2. CASE HandleCommand \/ StartDispatch \/ HandleCoreCommand
  BY <1>2, CommitCalls
<1>3. CASE Execute
  BY <1>3, ExecuteCalls
<1>4. CASE RecoverSome
  BY <1>4, RecoverCalls
<1>5. CASE Elsewhere /\ ~ Execute /\ ~ RecoverSome
  <2>1. /\ UNCHANGED <<run, outbox, calls>>
        /\ UNCHANGED handler \/ handler' = Idle \/ handler'.at = "begin"
    BY <1>5, ElsewhereCalls
  <2>2. OutboxAgrees'
    BY <2>1 DEF CallsInv, OutboxAgrees, Exists
  <2>3. handler'.at = "execute" => UNCHANGED handler
    BY <2>1 DEF Idle
  <2> QED BY <2>1, <2>2, <2>3 DEF CallsInv, Exists
<1> QED BY <1>1, <1>2, <1>3, <1>4, <1>5, NextCases

LEMMA InitCalls == Init => CallsInv
BY DEF Init, CallsInv, OutboxAgrees, Exists, Idle, Uncalled

LEMMA CallsInvariant == Spec => []CallsInv
BY InitCalls, CallsStep, TypeInvariant, PTL DEF Spec

\* An adapter is called at most once for an effect, through any number of
\* crashes, pauses, resumes and repeated commands.
THEOREM OneCallPerEffect == Spec => []AtMostOneCall
<1>1. CallsInv => AtMostOneCall
  BY DEF CallsInv, AtMostOneCall
<1> QED BY <1>1, CallsInvariant, PTL

\* The dispatcher, which reads the outbox, and the kernel, which reads the
\* snapshot, agree on every effect.
THEOREM OutboxFollowsRun == Spec => []OutboxAgrees
<1>1. CallsInv => OutboxAgrees
  BY DEF CallsInv
<1> QED BY <1>1, CallsInvariant, PTL

-----------------------------------------------------------------------------
(* What no step undoes.                                                    *)

\* Stored runs move as the kernel's contract allows, and a start stores a run
\* where none was.
LEMMA RunsMove ==
  ASSUME TypeInv, [Next]_vars, NEW r \in Runs, Exists(r)
  PROVE  /\ Forward(run[r].snap, run'[r].snap) /\ Frozen(run[r].snap, run'[r].snap)
         /\ Held(run[r].snap, run'[r].snap)
<1>1. CASE BeginStart
  <2>1. run'[r] = run[r]
    BY <1>1, BeginStartRuns
  <2> QED BY <2>1, AllowedSelf DEF Allowed, TypeInv, RowsWellFormed
<1>2. CASE ~ BeginStart
  BY <1>2, StepAdvances DEF Advances, Allowed
<1> QED BY <1>1, <1>2

\* No effect is asked for again and no settled answer changes.
THEOREM EffectsForward == Spec => EffectsMoveForward
<1>1. TypeInv /\ [Next]_vars =>
        [\A r \in Runs : Exists(r) => Forward(run[r].snap, run'[r].snap)]_vars
  BY RunsMove
<1> QED BY <1>1, TypeInvariant, PTL DEF Spec, EffectsMoveForward

\* Only Execute calls an adapter, and for the effect in hand.
LEMMA CallsMade ==
  ASSUME TypeInv, [Next]_vars, NEW r \in Runs, calls'[r] # calls[r]
  PROVE  Execute /\ handler.at = "execute" /\ handler.run = r
<1>1. CASE Execute
  <2>1. PICK q \in Runs, n \in Nodes : handler = [at |-> "execute", run |-> q, node |-> n]
    BY <1>1 DEF Execute, TypeInv, TypeOK, Handlers, Idle
  <2>2. calls' = [calls EXCEPT ![q][n] = @ + 1] /\ calls \in [Runs -> [Nodes -> Nat]]
    BY <1>1, <2>1 DEF Execute, TypeInv, TypeOK
  <2>3. q = r
    BY <2>2
  <2> QED BY <1>1, <2>1, <2>3
<1>2. CASE RecoverSome \/ BeginStart \/ HandleCommand \/ StartDispatch \/ HandleCoreCommand
  <2>1. calls' = calls
    BY <1>2 DEF RecoverSome, Recover, BeginStart, HandleCommand, StartDispatch,
       HandleCoreCommand, history
  <2> QED BY <2>1
<1>3. CASE Elsewhere /\ ~ Execute /\ ~ RecoverSome
  BY <1>3, ElsewhereCalls
<1> QED BY <1>1, <1>2, <1>3, NextCases

\* A cancelled run is left alone by everything that reaches it late.
THEOREM CancelIsFinal == Spec => CancelFreezes
<1>1. TypeInv /\ CallsInv /\ [Next]_vars =>
        [\A r \in Runs : Exists(r) =>
           /\ Frozen(run[r].snap, run'[r].snap)
           /\ run[r].snap.cancelled => calls'[r] = calls[r]]_vars
  BY RunsMove, CallsMade DEF CallsInv
<1> QED BY <1>1, TypeInvariant, CallsInvariant, PTL DEF Spec, CancelFreezes

\* While a run stays paused nothing in the inbox evaluates its ready nodes or
\* calls an adapter for it.
THEOREM PauseIsKept == Spec => PauseHolds
<1>1. TypeInv /\ CallsInv /\ [Next]_vars =>
        [\A r \in Runs : Exists(r) /\ run[r].snap.paused /\ run'[r].snap.paused =>
           /\ \A n \in ReadyNodes(run[r].snap) : run'[r].snap.node[n] = "ready"
           /\ calls'[r] = calls[r]]_vars
  BY RunsMove, CallsMade DEF CallsInv, Held
<1> QED BY <1>1, TypeInvariant, CallsInvariant, PTL DEF Spec, PauseHolds
-----------------------------------------------------------------------------
(* Commands.  A command is applied when it is recorded: a fixture in its    *)
(* run's snapshot, every other one in runtime_commands, both in the         *)
(* transaction of the transition and never taken out again.                 *)

AppliedInv ==
    /\ applies \in Seq(CommandRow) /\ IsInjective(applies)
    /\ \A i \in DOMAIN applies :
          IF applies[i].payload[1] = "fixture"
          THEN \E r \in Runs : /\ r = applies[i].payload[2] /\ Exists(r)
                               /\ applies[i] \in run[r].applied
          ELSE applies[i] \in commands

\* What is applied is a command of a user, under an id that was not used.
LEMMA HandleCommandApplies ==
  ASSUME TypeInv, HandleCommand
  PROVE  \E m \in Known :
            LET old == run[m.run]
            IN  /\ m = Head(inbox) /\ m.kind \in UserKinds /\ m.answer # "clock"
                /\ Fresh(m)
                /\ run' = [run EXCEPT ![m.run] = run'[m.run]]
                /\ run'[m.run].applied = Remembered(m, old)
                /\ commands' = IF m.id = NoCommand \/ \E c \in commands : c.id = m.id
                               THEN commands ELSE commands \cup {Recorded(m)}
                /\ applies' = IF m.id # NoCommand /\ Recorded(m) \notin old.applied
                              THEN Append(applies, Recorded(m)) ELSE applies
<1>1. Taking(UserKinds)
  BY DEF HandleCommand
<1>2. PICK m \in Known : m = Head(inbox) /\ m.kind \in UserKinds
  BY <1>1, HeadType
<1>3. m.answer # "clock" /\ m.run \in Runs /\ run[m.run] \in RunRow
  <2>1. m.answer # "clock"
    BY <1>2 DEF Known, Message, StartMessage, EngineMessage, UserKinds
  <2> QED BY <1>2, <2>1, CommandType DEF UserKinds
<1>4. PICK s \in Outcomes(m, run[m.run]) :
         Commit(m, [run[m.run] EXCEPT !.snap = s,
                              !.mode = IF m.kind = "continue" THEN "auto" ELSE @,
                              !.applied = Remembered(m, run[m.run])])
  BY <1>2 DEF HandleCommand
<1> DEFINE row == [run[m.run] EXCEPT !.snap = s,
                              !.mode = IF m.kind = "continue" THEN "auto" ELSE @,
                              !.applied = Remembered(m, run[m.run])]
<1>5. row.applied = Remembered(m, run[m.run])
  BY <1>3 DEF RunRow
<1>6. Commit(m, row)
  BY <1>4
<1> HIDE DEF row
<1>7. run' = [run EXCEPT ![m.run] = row] /\ run'[m.run] = row
  BY <1>3, <1>6 DEF Commit, TypeInv, TypeOK
<1>8. commands' = IF m.id = NoCommand \/ \E c \in commands : c.id = m.id
                  THEN commands ELSE commands \cup {Recorded(m)}
  BY <1>3, <1>6 DEF Commit
<1>9. /\ Fresh(m)
      /\ applies' = IF m.id # NoCommand /\ Recorded(m) \notin run[m.run].applied
                    THEN Append(applies, Recorded(m)) ELSE applies
  BY <1>2 DEF HandleCommand
<1> QED BY <1>2, <1>3, <1>5, <1>7, <1>8, <1>9

\* A command that was applied before is not new.
LEMMA AppliedIsKnown ==
  ASSUME TypeInv, AppliedInv, NEW m \in Known, m.kind \in UserKinds, Fresh(m),
         m.id # NoCommand, Recorded(m) \notin run[m.run].applied,
         NEW i \in DOMAIN applies
  PROVE  applies[i] # Recorded(m)
<1> SUFFICES ASSUME applies[i] = Recorded(m) PROVE FALSE
  OBVIOUS
<1>1. /\ applies[i].id = m.id /\ applies[i].payload[1] = m.kind
      /\ applies[i].payload[2] = m.run
  BY DEF Recorded, Payload
<1>2. CASE m.kind = "fixture"
  BY <1>1, <1>2 DEF AppliedInv
<1>3. CASE m.kind # "fixture"
  <2>1. applies[i] \in commands
    BY <1>1, <1>3 DEF AppliedInv
  <2>2. \A c \in commands : c.id # m.id
    BY <1>3 DEF Fresh, Decision
  <2> QED BY <1>1, <2>1, <2>2
<1> QED BY <1>2, <1>3

\* No step takes a record back.
LEMMA RecordsStay ==
  ASSUME TypeInv, [Next]_vars
  PROVE  /\ commands \subseteq commands'
         /\ \A r \in Runs : Exists(r) => Exists(r)' /\ run[r].applied \subseteq run'[r].applied
         /\ HandleCommand \/ UNCHANGED applies
<1>1. CASE BeginStart
  <2>1. UNCHANGED <<commands, applies>>
    BY <1>1 DEF BeginStart, history
  <2>2. \A r \in Runs : Exists(r) => run'[r] = run[r]
    BY <1>1, BeginStartRuns
  <2> QED BY <2>1, <2>2 DEF Exists
<1>2. CASE HandleCommand \/ StartDispatch \/ HandleCoreCommand
  <2>1. Advances
    BY <1>2, Commits, CommitAdvances
  <2>2. commands \subseteq commands'
    BY <1>2, Commits DEF Commit
  <2>3. HandleCommand \/ UNCHANGED applies
    BY <1>2 DEF StartDispatch, HandleCoreCommand, history
  <2> QED BY <2>1, <2>2, <2>3 DEF Advances
<1>3. CASE Elsewhere
  <2>1. UNCHANGED <<run, commands, applies>>
    BY <1>3, ElsewhereRuns DEF Elsewhere, AnswerDuplicate, RefuseTrigger, QueueTrigger,
       AcceptTrigger, MarkStarted, RepeatCommand, RefuseCommand, SkipDispatch, Execute, Answer,
       DropPending, RepeatCoreCommand, RefuseCoreCommand, TimerFires, Die, RecoverSome, Recover,
       Outside, SendTrigger, SendCommand, TtlPasses, Crash, GoDown, Discard, Refuse, stored,
       history, vars
  <2> QED BY <2>1 DEF Exists
<1> QED BY <1>1, <1>2, <1>3, NextCases

LEMMA AppliedStep == TypeInv /\ AppliedInv /\ [Next]_vars => AppliedInv'
<1> SUFFICES ASSUME TypeInv, AppliedInv, [Next]_vars PROVE AppliedInv'
  OBVIOUS
<1>1. \A i \in DOMAIN applies :
         IF applies[i].payload[1] = "fixture"
         THEN \E r \in Runs : /\ r = applies[i].payload[2] /\ Exists(r)'
                              /\ applies[i] \in run'[r].applied
         ELSE applies[i] \in commands'
  BY RecordsStay DEF AppliedInv
<1>2. CASE UNCHANGED applies
  BY <1>1, <1>2 DEF AppliedInv, Exists
<1>3. CASE HandleCommand /\ ~ UNCHANGED applies
  <2>1. PICK m \in Known :
           /\ m.kind \in UserKinds /\ m.answer # "clock" /\ Fresh(m)
           /\ run'[m.run].applied = Remembered(m, run[m.run])
           /\ commands' = IF m.id = NoCommand \/ \E c \in commands : c.id = m.id
                          THEN commands ELSE commands \cup {Recorded(m)}
           /\ m.id # NoCommand /\ Recorded(m) \notin run[m.run].applied
           /\ applies' = Append(applies, Recorded(m))
    BY <1>3, HandleCommandApplies
  <2>2. m.run \in Runs /\ Exists(m.run) /\ Recorded(m) \in CommandRow
    BY <2>1, CommandType DEF UserKinds
  <2>3. \A i \in DOMAIN applies : applies[i] # Recorded(m)
    BY <2>1, AppliedIsKnown
  <2>4. /\ applies \in Seq(CommandRow) /\ IsInjective(applies)
        /\ Len(applies) \in Nat /\ DOMAIN applies = 1..Len(applies)
    BY DEF AppliedInv
  <2>5. /\ applies' \in Seq(CommandRow) /\ DOMAIN applies' = 1..(Len(applies) + 1)
        /\ \A i \in DOMAIN applies : applies'[i] = applies[i]
        /\ applies'[Len(applies) + 1] = Recorded(m)
    BY <2>1, <2>2, <2>4
  <2>6. IsInjective(applies')
    BY <2>3, <2>4, <2>5 DEF IsInjective
  <2>7. Recorded(m).payload[1] = m.kind /\ Recorded(m).payload[2] = m.run /\ Recorded(m).id = m.id
    BY DEF Recorded, Payload
  <2>8. IF m.kind = "fixture"
        THEN Exists(m.run)' /\ Recorded(m) \in run'[m.run].applied
        ELSE Recorded(m) \in commands'
    <3>1. CASE m.kind = "fixture"
      BY <2>1, <2>2, <3>1, RecordsStay DEF Remembered
    <3>2. CASE m.kind # "fixture"
      BY <2>1, <3>2 DEF Fresh, Decision
    <3> QED BY <3>1, <3>2
  <2>9. \A i \in DOMAIN applies' : i \in DOMAIN applies \/ i = Len(applies) + 1
    BY <2>4, <2>5
  <2>10. \A i \in DOMAIN applies' :
           IF applies'[i].payload[1] = "fixture"
           THEN \E r \in Runs : /\ r = applies'[i].payload[2] /\ Exists(r)'
                                /\ applies'[i] \in run'[r].applied
           ELSE applies'[i] \in commands'
    BY <1>1, <2>2, <2>5, <2>7, <2>8, <2>9
  <2> QED BY <2>5, <2>6, <2>10 DEF AppliedInv, Exists
<1> QED BY <1>2, <1>3, RecordsStay

LEMMA AppliedInvariant == Spec => []AppliedInv
<1>1. Init => AppliedInv
  BY DEF Init, AppliedInv, IsInjective
<1> QED BY <1>1, AppliedStep, TypeInvariant, PTL DEF Spec

-----------------------------------------------------------------------------
(* The queue of a flow.  QueueIsSound is not inductive: between two steps a *)
(* queued row may be waiting for a message in the inbox or for the handler  *)
(* in hand to come to its end, and a run may be stored before its row says  *)
(* so.  All of it is lost when the process dies, and the theorem is about   *)
(* the behaviours in which it does not.                                     *)

Present == {t \in Triggers : trigger[t].status # "absent"}

\* What will look at the queue of f again: a queued row's own message, its
\* handler, or the end of a handler that works on a run of f.
Comes(f) ==
    \/ \E m \in StartMessage : m.trigger \in Queued(trigger, f) /\ Has(inbox, m)
    \/ handler.at = "begin" /\ FlowOf[handler.trigger] = f
    \/ handler.at \in {"mark", "drop"} /\ run[handler.run].flow = f

Listed == \A t \in Present : Has(order, t)
KeysDiffer == \A t \in Present : SameKey(t) \subseteq {t}
RunsAreMarked ==
    /\ OneRunPerTrigger
    /\ \A r \in Runs : Exists(r) =>
          \/ trigger[run[r].trigger].status = "started"
          \/ handler.at = "mark" /\ handler.run = r
    /\ handler.at \in {"begin", "mark"} => trigger[handler.trigger].status = "queued"
    /\ handler.at = "mark" => /\ handler.trigger = run[handler.run].trigger
                              /\ FlowOf[handler.trigger] = run[handler.run].flow
Served == \A f \in Flows : Queued(trigger, f) # {} => HoldingRuns(f) # {} \/ Comes(f)

QueueInv == Listed /\ KeysDiffer /\ RunsAreMarked /\ Served

\* afterPersist lets queued rows expire and changes no other.
LEMMA AfterPersistRows ==
  ASSUME NEW rows \in [Triggers -> Row], NEW rest, NEW r, NEW row, NEW requests,
         AfterPersist(rows, rest, r, row, requests)
  PROVE  /\ \A t \in Triggers : \/ trigger'[t] = rows[t]
                                \/ /\ rows[t].status = "queued" /\ FlowOf[t] = row.flow
                                   /\ trigger'[t].status = "expired"
         /\ \A f : f # row.flow => Queued(trigger', f) = Queued(rows, f)
<1>1. \A t \in Triggers : \/ trigger'[t] = rows[t]
                          \/ /\ rows[t].status = "queued" /\ FlowOf[t] = row.flow
                             /\ trigger'[t].status = "expired"
  <2> TAKE t \in Triggers
  <2>1. trigger' = ExpireQueued(rows, row.flow) \/ trigger' = rows
    BY DEF AfterPersist
  <2>2. CASE t \in Queued(rows, row.flow) \cap overdue
    <3>1. rows[t] \in Row /\ rows[t].status = "queued" /\ FlowOf[t] = row.flow
      BY <2>2 DEF Queued
    <3>2. [rows[t] EXCEPT !.status = "expired"].status = "expired"
      BY <3>1 DEF Row
    <3> QED BY <2>1, <2>2, <3>1, <3>2 DEF ExpireQueued
  <2>3. CASE t \notin Queued(rows, row.flow) \cap overdue
    BY <2>1, <2>3 DEF ExpireQueued
  <2> QED BY <2>2, <2>3
<1> QED BY <1>1 DEF Queued

\* What afterPersist leaves in the inbox, and that a flow whose run is over has
\* its oldest queued row woken.
LEMMA AfterPersistServes ==
  ASSUME TypeInv, NEW rows \in [Triggers -> Row], NEW rest \in Seq(Known),
         NEW r \in Runs, Exists(r), NEW row, row.snap \in Snapshots, row = run'[r], Exists(r)',
         NEW requests \in SUBSET Nodes, UNCHANGED order,
         \A t \in Triggers : rows[t].status = "queued" => Has(order, t),
         inbox' \in Seq(Message),
         AfterPersist(rows, rest, r, row, requests)
  PROVE  /\ \A m : Has(rest, m) => Has(inbox', m)
         /\ Queued(trigger', row.flow) # {} =>
              \/ HoldingRuns(row.flow)' # {}
              \/ \E m \in StartMessage : /\ m.trigger \in Queued(trigger', row.flow)
                                         /\ Has(inbox', m)
<1> DEFINE calling == {n \in requests : Kind[n] = "call"}
           left == ExpireQueued(rows, row.flow)
           waiting == {i \in DOMAIN order : order[i] \in Queued(left, row.flow)}
<1>1. CASE Terminal(row.snap)
  <2>1. trigger' = left /\ inbox' = rest \o NextQueued(left, row.flow)
    BY <1>1 DEF AfterPersist
  <2>2. NextQueued(left, row.flow) \in Seq(Known)
    BY NextQueuedType
  <2>3. \A m : Has(rest, m) \/ Has(NextQueued(left, row.flow), m) => Has(inbox', m)
    BY <2>1, <2>2, HasConcat
  <2>4. ASSUME NEW t \in Queued(left, row.flow)
        PROVE  \E m \in StartMessage : m.trigger \in Queued(left, row.flow) /\ Has(inbox', m)
    <3>1. t \in Triggers /\ left[t].status = "queued"
      BY <2>4 DEF Queued
    <3>2. rows[t].status = "queued"
      <4>1. trigger'[t] = rows[t] \/ trigger'[t].status = "expired"
        BY <3>1, AfterPersistRows
      <4> HIDE DEF left
      <4> QED BY <2>1, <3>1, <4>1
    <3>3. PICK i \in DOMAIN order : order[i] = t
      BY <3>1, <3>2 DEF Has
    <3>4. waiting \in SUBSET Nat /\ waiting # {}
      <4> HIDE DEF left
      <4> QED BY <2>4, <3>3 DEF TypeInv, TypeOK
    <3>5. Min(waiting) \in waiting
      BY <3>4, MinType
    <3>6. NextQueued(left, row.flow) = <<Start(order[Min(waiting)], TRUE)>>
      BY <3>4 DEF NextQueued
    <3>7. PICK u : u = order[Min(waiting)] /\ u \in Queued(left, row.flow)
      BY <3>5
    <3>8. Start(u, TRUE) \in StartMessage /\ Start(u, TRUE).trigger = u
      BY <3>7 DEF Start, StartMessage, Queued
    <3>9. Has(inbox', Start(u, TRUE))
      <4>1. NextQueued(left, row.flow) = <<Start(u, TRUE)>>
        BY <3>6, <3>7
      <4>2. Has(NextQueued(left, row.flow), Start(u, TRUE))
        BY <4>1, HasOne
      <4> QED BY <2>3, <4>2
    <3> QED BY <3>7, <3>8, <3>9
  <2> QED BY <2>1, <2>3, <2>4
<1>2. CASE ~ Terminal(row.snap)
  <2>1. HoldingRuns(row.flow)' # {}
    BY <1>2 DEF HoldingRuns, Open
  <2>2. inbox' = rest \o (IF row.snap.paused THEN <<>> ELSE DispatchesFor(r, calling))
                      \o StepFor(r, row)
    BY <1>2 DEF AfterPersist
  <2>3. DispatchesFor(r, calling) \in Seq(Known)
    BY DispatchesType
  <2>4. StepFor(r, row) \in Seq(Message)
    <3>1. HostStep(r) \in Message
      BY NodesAssumption DEF HostStep, Command, Message, UserKinds
    <3> QED BY <3>1 DEF StepFor
  <2>5. rest \in Seq(Message) /\ DispatchesFor(r, calling) \in Seq(Message)
    BY <2>3, SeqMonotonic DEF Known
  <2>6. \A m : Has(rest, m) => Has(inbox', m)
    <3> TAKE m
    <3> HIDE DEF calling
    <3>1. PICK p \in Seq(Message) :
             p = IF row.snap.paused THEN <<>> ELSE DispatchesFor(r, calling)
      <4>1. <<>> \in Seq(Message)
        OBVIOUS
      <4> QED BY <2>5, <4>1
    <3>2. inbox' = (rest \o p) \o StepFor(r, row) /\ rest \o p \in Seq(Message)
      BY <2>2, <2>5, <3>1
    <3>3. Has(rest, m) => Has(rest \o p, m)
      BY <2>5, <3>1, HasConcat
    <3>4. Has(rest \o p, m) => Has((rest \o p) \o StepFor(r, row), m)
      BY <2>4, <3>2, HasConcat
    <3> QED BY <3>2, <3>3, <3>4
  <2> QED BY <2>1, <2>6
<1> QED BY <1>1, <1>2

\* While a start is in hand nothing else touches what it works on.
LEMMA InHand ==
  ASSUME TypeInv, [Next]_vars, proc # "down", proc' # "down", handler.at \in {"begin", "mark"}
  PROVE  BeginStart \/ MarkStarted \/ UNCHANGED <<trigger, order, run, inbox, handler>>
<1>1. handler # Idle /\ ~ Quiet /\ \A kinds : ~ Taking(kinds)
  BY DEF Idle, Quiet, Taking
<1>2. CASE Handle
  BY <1>1, <1>2 DEF Handle, AnswerDuplicate, RefuseTrigger, QueueTrigger, AcceptTrigger,
     HandleCommand, RepeatCommand, RefuseCommand, SkipDispatch, StartDispatch, Execute,
     HandleCoreCommand, DropPending, RepeatCoreCommand, RefuseCoreCommand
<1>3. ~ Answer /\ ~ Die /\ ~ RecoverSome /\ ~ Crash
  BY <1>1 DEF Answer, Die, RecoverSome, Recover, Crash, GoDown
<1>4. \A r \in Runs, n \in Nodes : ~ TimerFires(r, n)
  BY <1>1 DEF TimerFires
<1>5. CASE Outside
  BY <1>1, <1>3, <1>5 DEF Outside, SendTrigger, SendCommand, TtlPasses, volatile
<1>6. CASE UNCHANGED vars
  BY <1>6 DEF vars, stored, volatile
<1> QED BY <1>2, <1>3, <1>4, <1>5, <1>6 DEF Next

\* How the rows of the inbox table change: one is inserted, the row in hand is
\* marked, queued rows expire.
LEMMA RowsMove ==
  ASSUME TypeInv, RunsAreMarked, [Next]_vars
  PROVE  \/ /\ QueueTrigger \/ AcceptTrigger
            /\ \E t \in Triggers :
                  /\ t = Head(inbox).trigger /\ SameKey(t) \subseteq {t} /\ Admitted(t)
                  /\ trigger'[t].status = "queued"
                  /\ \A u \in Triggers \ {t} : trigger'[u] = trigger[u]
                  /\ order' = IF trigger[t].status = "absent" THEN Append(order, t) ELSE order
         \/ /\ UNCHANGED order
            /\ \A t \in Triggers :
                  \/ trigger'[t] = trigger[t]
                  \/ trigger[t].status = "queued" /\ trigger'[t].status = "expired"
                  \/ /\ MarkStarted /\ t = handler.trigger
                     /\ trigger[t].status = "queued" /\ trigger'[t].status = "started"
            /\ MarkStarted => trigger'[handler.trigger].status = "started"
<1>0. trigger \in [Triggers -> Row]
  BY DEF TypeInv, TypeOK
<1>1. CASE QueueTrigger \/ AcceptTrigger
  <2>1. PICK t : t = Head(inbox).trigger
    OBVIOUS
  <2>2. Taking({"start_run"}) /\ SameKey(t) \subseteq {t} /\ Admitted(t) /\ InsertTrigger(t)
    BY <1>1, <2>1 DEF QueueTrigger, AcceptTrigger
  <2>3. t \in Triggers
    <3>1. Head(inbox) \in Known /\ Head(inbox).kind = "start_run"
      BY <2>2, HeadType
    <3> QED BY <2>1, <3>1 DEF Known, Message, StartMessage, EngineMessage, UserKinds
  <2>4. /\ trigger' = [trigger EXCEPT ![t].status = "queued"] /\ trigger[t] \in Row
        /\ order' = IF trigger[t].status = "absent" THEN Append(order, t) ELSE order
    BY <1>0, <2>2, <2>3 DEF InsertTrigger
  <2>5. trigger'[t].status = "queued" /\ \A u \in Triggers \ {t} : trigger'[u] = trigger[u]
    BY <1>0, <2>3, <2>4 DEF Row
  <2> QED BY <1>1, <2>1, <2>2, <2>3, <2>4, <2>5
<1>2. CASE MarkStarted
  <2>1. PICK t \in Triggers, r \in Runs :
           t = handler.trigger /\ r = handler.run /\ Started(t, r) \in [Triggers -> Row]
    <3>1. handler.trigger \in Triggers /\ handler.run \in Runs
      BY <1>2 DEF MarkStarted, TypeInv, TypeOK, Handlers, Idle
    <3> QED BY <1>0, <3>1 DEF Started, Row
  <2>2. /\ AfterPersist(Started(t, r), inbox, r, run[r], {}) /\ UNCHANGED order
        /\ trigger[t].status = "queued"
    BY <1>2, <2>1 DEF MarkStarted, RunsAreMarked
  <2>3. Started(t, r)[t].status = "started" /\ \A u \in Triggers \ {t} : Started(t, r)[u] = trigger[u]
    BY <1>0, <2>1 DEF Started
  <2>4. \A u \in Triggers : \/ trigger'[u] = Started(t, r)[u]
                            \/ /\ Started(t, r)[u].status = "queued"
                               /\ trigger'[u].status = "expired"
    BY <2>1, <2>2, AfterPersistRows
  <2> QED BY <1>2, <2>1, <2>2, <2>3, <2>4
<1>3. CASE HandleCommand \/ DropPending
  <2>1. ~ MarkStarted /\ UNCHANGED order
    <3>1. HandleCommand => Taking(UserKinds) /\ UNCHANGED order
      BY DEF HandleCommand
    <3>2. Taking(UserKinds) => handler.at # "mark"
      BY DEF Taking, Idle
    <3>3. DropPending => handler.at # "mark" /\ UNCHANGED order
      BY DEF DropPending
    <3> QED BY <1>3, <3>1, <3>2, <3>3 DEF MarkStarted
  <2>2. \E rest, r, row, requests : AfterPersist(trigger, rest, r, row, requests)
    BY <1>3 DEF HandleCommand, DropPending
  <2> QED BY <1>0, <2>1, <2>2, AfterPersistRows
<1>4. CASE BeginStart \/ StartDispatch \/ HandleCoreCommand
           \/ (Elsewhere /\ ~ QueueTrigger /\ ~ AcceptTrigger /\ ~ MarkStarted /\ ~ DropPending)
  <2>1. UNCHANGED <<trigger, order>>
    BY <1>4 DEF BeginStart, StartDispatch, HandleCoreCommand, Elsewhere, AnswerDuplicate,
       RefuseTrigger, RepeatCommand, RefuseCommand, SkipDispatch, Execute, Answer,
       RepeatCoreCommand, RefuseCoreCommand, TimerFires, Die, RecoverSome, Recover,
       Outside, SendTrigger, SendCommand, TtlPasses, Crash, GoDown, Discard, Refuse, stored, vars
  <2>2. ~ MarkStarted
    <3>1. BeginStart => ~ MarkStarted
      BY DEF BeginStart, MarkStarted
    <3>2. StartDispatch \/ HandleCoreCommand => ~ MarkStarted
      BY DEF StartDispatch, HandleCoreCommand, MarkStarted, Taking, Idle
    <3> QED BY <1>4, <3>1, <3>2
  <2> QED BY <2>1, <2>2
<1> QED BY <1>1, <1>2, <1>3, <1>4, NextCases DEF Elsewhere

LEMMA ListedStep ==
  ASSUME TypeInv, RunsAreMarked, Listed, KeysDiffer, [Next]_vars
  PROVE  Listed' /\ KeysDiffer'
<1>1. CASE \E t \in Triggers :
                  /\ SameKey(t) \subseteq {t}
                  /\ trigger'[t].status = "queued"
                  /\ \A u \in Triggers \ {t} : trigger'[u] = trigger[u]
                  /\ order' = IF trigger[t].status = "absent" THEN Append(order, t) ELSE order
  <2>1. PICK t \in Triggers :
           /\ SameKey(t) \subseteq {t} /\ trigger'[t].status = "queued"
           /\ \A u \in Triggers \ {t} : trigger'[u] = trigger[u]
           /\ order' = IF trigger[t].status = "absent" THEN Append(order, t) ELSE order
    BY <1>1
  <2>2. order \in Seq(Triggers)
    BY DEF TypeInv, TypeOK
  <2>3. \A u : Has(order', u) <=> Has(order, u) \/ (u = t /\ trigger[t].status = "absent")
    <3>1. CASE trigger[t].status = "absent"
      BY <2>1, <2>2, <3>1, HasAppend
    <3>2. CASE trigger[t].status # "absent"
      BY <2>1, <3>2
    <3> QED BY <3>1, <3>2
  <2>4. Listed'
    BY <2>1, <2>3 DEF Listed, Present
  <2>5. \A u, w \in Triggers :
           /\ trigger'[u].status # "absent" /\ trigger'[w].status # "absent"
           /\ FlowOf[u] = FlowOf[w] /\ KeyOf[u] = KeyOf[w]
           => u = w
    BY <2>1 DEF KeysDiffer, SameKey, Present
  <2> QED BY <2>4, <2>5 DEF KeysDiffer, SameKey, Present
<1>2. CASE /\ UNCHANGED order
           /\ \A t \in Triggers : trigger'[t].status # "absent" => trigger[t].status # "absent"
  BY <1>2 DEF Listed, KeysDiffer, SameKey, Present, Has
<1> QED BY <1>1, <1>2, RowsMove

LEMMA MarkedStep ==
  ASSUME TypeInv, RunsAreMarked, [Next]_vars, proc # "down", proc' # "down"
  PROVE  RunsAreMarked'
<1>1. \A t \in Triggers : trigger[t].status = "started" => trigger'[t].status = "started"
  BY RowsMove DEF Admitted
<1>2. CASE BeginStart
  <2>1. PICK r \in Runs :
           /\ ~ Exists(r) /\ Exists(r)' /\ run'[r].trigger = handler.trigger
           /\ run'[r].flow = FlowOf[handler.trigger]
           /\ handler.trigger \in Triggers
           /\ handler'.at = "mark" /\ handler'.run = r /\ handler'.trigger = handler.trigger
           /\ \A q \in Runs : q # r => run'[q] = run[q]
    BY <1>2, BeginStartRuns
  <2>2. trigger[handler.trigger].status = "queued" /\ handler.at = "begin" /\ UNCHANGED trigger
    BY <1>2 DEF RunsAreMarked, BeginStart
  <2>3. \A q \in Runs : Exists(q) => trigger[run[q].trigger].status = "started"
    BY <2>2 DEF RunsAreMarked
  <2>4. \A q \in Runs : q # r /\ Exists(q)' =>
           Exists(q) /\ run'[q].trigger = run[q].trigger /\ run[q].trigger # handler.trigger
    BY <2>1, <2>2, <2>3 DEF Exists
  <2>5. OneRunPerTrigger'
    BY <2>1, <2>4 DEF RunsAreMarked, OneRunPerTrigger
  <2> QED BY <2>1, <2>2, <2>3, <2>4, <2>5 DEF RunsAreMarked
<1>3. CASE ~ BeginStart
  <2>1. Advances
    BY <1>3, StepAdvances
  <2>2. OneRunPerTrigger'
    BY <2>1 DEF RunsAreMarked, OneRunPerTrigger, Advances
  <2>3. ASSUME NEW r \in Runs, Exists(r)'
        PROVE  trigger'[run'[r].trigger].status = "started" \/ (handler'.at = "mark" /\ handler'.run = r)
    <3>1. Exists(r) /\ run'[r].trigger = run[r].trigger /\ run[r].trigger \in Triggers
      BY <2>1, <2>3 DEF Advances, TypeInv, TypeOK, RunRow, Exists
    <3>2. CASE trigger[run[r].trigger].status = "started"
      BY <1>1, <3>1, <3>2
    <3>3. CASE handler.at = "mark" /\ handler.run = r
      <4>1. MarkStarted \/ UNCHANGED handler
        BY <1>3, <3>3, InHand
      <4>2. CASE MarkStarted
        <5>1. handler.trigger = run[r].trigger
          BY <3>3 DEF RunsAreMarked
        <5>2. trigger'[handler.trigger].status = "started"
          <6>1. ~ QueueTrigger /\ ~ AcceptTrigger
            BY <3>3 DEF QueueTrigger, AcceptTrigger, Taking, Idle
          <6> QED BY <4>2, <6>1, RowsMove
        <5> QED BY <3>1, <5>1, <5>2
      <4> QED BY <3>3, <4>1, <4>2
    <3> QED BY <3>1, <3>2, <3>3 DEF RunsAreMarked
  <2>4. handler'.at \in {"begin", "mark"} =>
           /\ trigger'[handler'.trigger].status = "queued"
           /\ handler'.at = "mark" => /\ handler'.trigger = run'[handler'.run].trigger
                                      /\ FlowOf[handler'.trigger] = run'[handler'.run].flow
    <3> SUFFICES ASSUME handler'.at \in {"begin", "mark"}
                 PROVE  /\ trigger'[handler'.trigger].status = "queued"
                        /\ handler'.at = "mark" =>
                             /\ handler'.trigger = run'[handler'.run].trigger
                             /\ FlowOf[handler'.trigger] = run'[handler'.run].flow
      OBVIOUS
    <3>1. CASE UNCHANGED handler
      <4>1. UNCHANGED <<trigger, run>>
        <5>1. ~ MarkStarted
          BY <3>1 DEF MarkStarted, Idle
        <5> QED BY <1>3, <3>1, <5>1, InHand
      <4> QED BY <3>1, <4>1 DEF RunsAreMarked
    <3>2. CASE AcceptTrigger
      <4>1. /\ handler'.at = "begin" /\ handler'.trigger = Head(inbox).trigger
            /\ Taking({"start_run"})
        BY <3>2 DEF AcceptTrigger
      <4>2. trigger'[Head(inbox).trigger].status = "queued"
        <5>1. Head(inbox).trigger \in Triggers
          <6>1. Head(inbox) \in Known /\ Head(inbox).kind = "start_run"
            BY <4>1, HeadType
          <6> QED BY <6>1 DEF Known, Message, StartMessage, EngineMessage, UserKinds
        <5>2. trigger' = [trigger EXCEPT ![Head(inbox).trigger].status = "queued"]
          BY <3>2 DEF AcceptTrigger, InsertTrigger
        <5> QED BY <5>1, <5>2 DEF TypeInv, TypeOK, Row
      <4> QED BY <4>1, <4>2
    <3> QED BY <1>3, <3>1, <3>2, HandlerMoves
  <2> QED BY <2>2, <2>3, <2>4 DEF RunsAreMarked
<1> QED BY <1>2, <1>3

\* What keeps the queue of a flow served.
LEMMA StillServed ==
  ASSUME Served, NEW f \in Flows, Queued(trigger', f) \subseteq Queued(trigger, f),
         HoldingRuns(f) # {} => HoldingRuns(f)' # {},
         \A m \in StartMessage : m.trigger \in Queued(trigger, f) /\ Has(inbox, m) =>
                                 m.trigger \in Queued(trigger', f) /\ Has(inbox', m),
         handler.at \notin {"begin", "mark", "drop"} \/ UNCHANGED <<handler, run>>
  PROVE  Queued(trigger', f) # {} => HoldingRuns(f)' # {} \/ Comes(f)'
BY DEF Served, Comes, Queued

\* The message in hand is taken out and the rest stays.
LEMMA TailHas ==
  ASSUME TypeInv, NEW kinds, Taking(kinds), NEW m, Has(inbox, m), m # Head(inbox)
  PROVE  Has(Tail(inbox), m)
BY HasTail DEF Taking, TypeInv, TypeOK

\* A trigger in hand whose row is queued is started or waits for a run.
LEMMA TriggerServed ==
  ASSUME TypeInv, KeysDiffer, Served,
         AnswerDuplicate \/ RefuseTrigger \/ QueueTrigger \/ AcceptTrigger
  PROVE  Served'
<1> DEFINE t == Head(inbox).trigger
<1>1. Taking({"start_run"}) /\ inbox' = Tail(inbox) /\ UNCHANGED run
  BY DEF AnswerDuplicate, RefuseTrigger, QueueTrigger, AcceptTrigger, Discard, Refuse, stored
<1>2. Head(inbox) \in StartMessage /\ t \in Triggers /\ handler = Idle
  <2>1. Head(inbox) \in Known /\ Head(inbox).kind = "start_run" /\ handler = Idle
    BY <1>1, HeadType
  <2> QED BY <2>1 DEF Known, Message, StartMessage, EngineMessage, UserKinds
<1>3. \A f : HoldingRuns(f)' = HoldingRuns(f)
  BY <1>1 DEF HoldingRuns, Open, Exists
<1>4. \A m \in StartMessage : Has(inbox, m) /\ m.trigger # t => Has(inbox', m)
  BY <1>1, TailHas
<1>5. handler.at = "idle"
  BY <1>2 DEF Idle
<1> HIDE DEF t
<1>6. CASE AnswerDuplicate \/ RefuseTrigger
  <2>1. UNCHANGED trigger
    BY <1>6 DEF AnswerDuplicate, RefuseTrigger, Discard, Refuse, stored
  <2>2. trigger[t].status # "queued"
    <3> SUFFICES ASSUME trigger[t].status = "queued" PROVE FALSE
      OBVIOUS
    <3>1. SameKey(t) \ {t} = {}
      BY <1>2 DEF KeysDiffer, Present
    <3> QED BY <1>6, <3>1 DEF AnswerDuplicate, RefuseTrigger, t
  <2>3. \A f : t \notin Queued(trigger, f)
    BY <2>2 DEF Queued
  <2> SUFFICES ASSUME NEW f \in Flows
               PROVE  Queued(trigger', f) # {} => HoldingRuns(f)' # {} \/ Comes(f)'
    BY DEF Served, Queued
  <2> QED BY <1>3, <1>4, <1>5, <2>1, <2>3, StillServed
<1>7. CASE QueueTrigger \/ AcceptTrigger
  <2>1. trigger' = [trigger EXCEPT ![t].status = "queued"] /\ trigger \in [Triggers -> Row]
    BY <1>7 DEF QueueTrigger, AcceptTrigger, InsertTrigger, TypeInv, TypeOK, t
  <2>2. \A f : f # FlowOf[t] => Queued(trigger', f) = Queued(trigger, f)
    BY <1>2, <2>1 DEF Queued, Row
  <2> SUFFICES ASSUME NEW f \in Flows
               PROVE  Queued(trigger', f) # {} => HoldingRuns(f)' # {} \/ Comes(f)'
    BY DEF Served, Queued
  <2>3. CASE f # FlowOf[t]
    <3>1. \A m \in StartMessage : m.trigger \in Queued(trigger, f) => m.trigger # t
      BY <2>3 DEF Queued
    <3> QED BY <1>3, <1>4, <1>5, <2>2, <2>3, <3>1, StillServed
  <2>4. CASE f = FlowOf[t]
    <3>1. CASE QueueTrigger
      BY <1>3, <2>4, <3>1 DEF QueueTrigger, t
    <3>2. CASE AcceptTrigger
      <4>1. handler' = [at |-> "begin", trigger |-> t]
        BY <3>2 DEF AcceptTrigger, t
      <4> QED BY <2>4, <4>1 DEF Comes
    <3> QED BY <1>7, <3>1, <3>2
  <2> QED BY <2>3, <2>4
<1> QED BY <1>6, <1>7

\* A handler that ends with afterPersist looks at the queue of its run's flow.
Ending(rows, rest, r, requests) ==
    /\ AfterPersist(rows, rest, r, run'[r], requests)
    /\ Exists(r) /\ run'[r].flow = run[r].flow
    /\ \A q \in Runs \ {r} : run'[q] = run[q]
    /\ \A t \in Triggers : rows[t].status = "queued" => trigger[t] = rows[t]
    /\ \A m \in StartMessage : Has(inbox, m) => Has(rest, m)
    /\ \A f : f # run[r].flow => Queued(rows, f) = Queued(trigger, f)
    /\ handler.at \in {"mark", "drop"} => handler.run = r
    /\ handler.at # "begin" /\ UNCHANGED order

LEMMA PersistServed ==
  ASSUME TypeInv, Listed, RunsAreMarked, Served, [Next]_vars,
         HandleCommand \/ DropPending \/ MarkStarted
  PROVE  Served'
<1>0. TypeInv'
  BY NextType
<1>1. PICK rows \in [Triggers -> Row], rest \in Seq(Known), r \in Runs, requests \in SUBSET Nodes :
         Ending(rows, rest, r, requests)
  <2>1. CASE HandleCommand
    <3>1. Taking(UserKinds)
      BY <2>1 DEF HandleCommand
    <3>2. PICK m \in Known : m = Head(inbox) /\ m.kind \in UserKinds
      BY <3>1, HeadType
    <3>3. /\ m.run \in Runs /\ Exists(m.run) /\ m.kind # "start_run" /\ handler.at = "idle"
          /\ Tail(inbox) \in Seq(Known)
      BY <3>1, <3>2, CommandType, HeadType DEF UserKinds, Idle
    <3>4. PICK s, row :
             /\ Commit(m, row)
             /\ AfterPersist(trigger, Tail(inbox), m.run, row, Requests(m, run[m.run].snap, s))
      BY <2>1, <3>2 DEF HandleCommand
    <3>5. run' = [run EXCEPT ![m.run] = row] /\ run'[m.run] = row
      BY <3>3, <3>4 DEF Commit, TypeInv, TypeOK
    <3>6. run'[m.run].flow = run[m.run].flow
      <4>1. Advances
        BY <2>1, Commits, CommitAdvances
      <4> QED BY <3>3, <4>1 DEF Advances
    <3>7. \A k \in StartMessage : Has(inbox, k) => Has(Tail(inbox), k)
      BY <3>1, <3>2, <3>3, TailHas DEF StartMessage
    <3>8. UNCHANGED order /\ trigger \in [Triggers -> Row]
      BY <2>1 DEF HandleCommand, TypeInv, TypeOK
    <3>9. Requests(m, run[m.run].snap, s) \in SUBSET Nodes
      BY DEF Requests, Requested
    <3>10. \A q \in Runs \ {m.run} : run'[q] = run[q]
      BY <3>5 DEF TypeInv, TypeOK
    <3>11. \A f : Queued(trigger, f) = Queued(trigger, f)
      OBVIOUS
    <3>12. Ending(trigger, Tail(inbox), m.run, Requests(m, run[m.run].snap, s))
      BY <3>3, <3>4, <3>5, <3>6, <3>7, <3>8, <3>10, <3>11 DEF Ending
    <3> QED BY <3>3, <3>8, <3>9, <3>12
  <2>2. CASE DropPending
    <3>1. handler.run \in Runs /\ Exists(handler.run)
      BY <2>2 DEF DropPending, TypeInv, TypeOK, Located, Handlers, Idle
    <3>2. /\ AfterPersist(trigger, inbox, handler.run, run[handler.run], {})
          /\ UNCHANGED <<order, run>> /\ handler.at = "drop"
      BY <2>2 DEF DropPending
    <3>3. Ending(trigger, inbox, handler.run, {})
      BY <3>1, <3>2 DEF Ending
    <3> QED BY <3>1, <3>3 DEF TypeInv, TypeOK, Located
  <2>3. CASE MarkStarted
    <3>1. PICK t \in Triggers, r \in Runs : t = handler.trigger /\ r = handler.run /\ Exists(r)
      BY <2>3 DEF MarkStarted, TypeInv, TypeOK, Located, Handlers, Idle
    <3>2. /\ AfterPersist(Started(t, r), inbox, r, run[r], {})
          /\ UNCHANGED <<order, run>> /\ handler.at = "mark"
      BY <2>3, <3>1 DEF MarkStarted
    <3>3. /\ Started(t, r) \in [Triggers -> Row] /\ Started(t, r)[t].status = "started"
          /\ \A u \in Triggers \ {t} : Started(t, r)[u] = trigger[u]
      BY <3>1 DEF Started, Row, TypeInv, TypeOK
    <3>4. FlowOf[t] = run[r].flow
      BY <3>1, <3>2 DEF RunsAreMarked
    <3>5. \A f : f # run[r].flow => Queued(Started(t, r), f) = Queued(trigger, f)
      BY <3>3, <3>4 DEF Queued
    <3>6. \A u \in Triggers : Started(t, r)[u].status = "queued" => trigger[u] = Started(t, r)[u]
      BY <3>3
    <3>7. Ending(Started(t, r), inbox, r, {})
      BY <3>1, <3>2, <3>5, <3>6 DEF Ending
    <3> QED BY <3>1, <3>3, <3>7 DEF TypeInv, Located
  <2> QED BY <2>1, <2>2, <2>3
<1>2. \A t \in Triggers : rows[t].status = "queued" => Has(order, t)
  BY <1>1 DEF Listed, Present, Ending
<1>3. Exists(r)' /\ run'[r].snap \in Snapshots /\ inbox' \in Seq(Message)
  <2>1. Exists(r)'
    BY <1>1, RecordsStay DEF Ending
  <2> QED BY <1>0, <1>1, <2>1 DEF TypeInv, RowsWellFormed, WellFormed, TypeOK
<1>4. PICK row : row = run'[r]
  OBVIOUS
<1>5. /\ \A m : Has(rest, m) => Has(inbox', m)
      /\ Queued(trigger', row.flow) # {} =>
           \/ HoldingRuns(row.flow)' # {}
           \/ \E m \in StartMessage : /\ m.trigger \in Queued(trigger', row.flow)
                                      /\ Has(inbox', m)
  <2>1. AfterPersist(rows, rest, r, row, requests) /\ Exists(r) /\ UNCHANGED order
    BY <1>1, <1>4 DEF Ending
  <2> QED BY <1>2, <1>3, <1>4, <2>1, AfterPersistServes
<1> SUFFICES ASSUME NEW f \in Flows
             PROVE  Queued(trigger', f) # {} => HoldingRuns(f)' # {} \/ Comes(f)'
  BY DEF Served, Queued
<1>6. CASE f = run[r].flow
  <2>1. f = row.flow
    BY <1>1, <1>4, <1>6 DEF Ending
  <2> QED BY <1>5, <2>1 DEF Comes
<1>7. CASE f # run[r].flow
  <2>1. Queued(trigger', f) = Queued(trigger, f)
    <3>1. AfterPersist(rows, rest, r, row, requests) /\ row.flow # f
      BY <1>1, <1>4, <1>7 DEF Ending
    <3>2. Queued(trigger', f) = Queued(rows, f)
      BY <3>1, AfterPersistRows
    <3> QED BY <1>1, <1>7, <3>2 DEF Ending
  <2>2. HoldingRuns(f) # {} => HoldingRuns(f)' # {}
    BY <1>1, <1>7 DEF HoldingRuns, Open, Exists, Ending
  <2>3. \A m \in StartMessage : Has(inbox, m) => Has(inbox', m)
    BY <1>1, <1>5 DEF Ending
  <2>4. Comes(f) => \E m \in StartMessage : m.trigger \in Queued(trigger, f) /\ Has(inbox, m)
    BY <1>1, <1>7 DEF Comes, Ending
  <2> QED BY <2>1, <2>2, <2>3, <2>4 DEF Served, Comes
<1> QED BY <1>6, <1>7

\* The steps that leave rows and runs alone keep what will look at the queue.
LEMMA QuietServed ==
  ASSUME TypeInv, Served, UNCHANGED <<trigger, run>>,
         \A m \in StartMessage : Has(inbox, m) => Has(inbox', m),
         handler.at \notin {"begin", "mark", "drop"} \/ UNCHANGED handler
  PROVE  Served'
<1>1. \A f : HoldingRuns(f)' = HoldingRuns(f)
  BY DEF HoldingRuns, Open, Exists
<1> SUFFICES ASSUME NEW f \in Flows
             PROVE  Queued(trigger', f) # {} => HoldingRuns(f)' # {} \/ Comes(f)'
  BY DEF Served, Queued
<1> QED BY <1>1, StillServed

\* The message in hand is no trigger, and all that is done is to take it out.
LEMMA TakenServed ==
  ASSUME TypeInv, NEW kinds, Taking(kinds), "start_run" \notin kinds, inbox' = Tail(inbox)
  PROVE  /\ \A m \in StartMessage : Has(inbox, m) => Has(inbox', m)
         /\ handler.at = "idle"
<1>1. Head(inbox).kind # "start_run" /\ handler.at = "idle"
  BY HeadType DEF Idle
<1> QED BY <1>1, TailHas DEF StartMessage

LEMMA ServedStep ==
  ASSUME TypeInv, Listed, KeysDiffer, RunsAreMarked, Served, [Next]_vars,
         proc # "down", proc' # "down"
  PROVE  Served'
<1>1. CASE AnswerDuplicate \/ RefuseTrigger \/ QueueTrigger \/ AcceptTrigger
  BY <1>1, TriggerServed
<1>2. CASE HandleCommand \/ DropPending \/ MarkStarted
  BY <1>2, PersistServed
<1>3. CASE BeginStart
  <2>1. PICK r \in Runs :
           /\ ~ Exists(r) /\ run'[r].flow = FlowOf[handler.trigger] /\ run'[r].snap = StartSnap
           /\ \A q \in Runs : q # r => run'[q] = run[q]
           /\ Exists(r)'
    BY <1>3, BeginStartRuns
  <2>2. ~ Terminal(StartSnap)
    BY NodesAssumption DEF Terminal, StartSnap
  <2>3. UNCHANGED <<trigger, inbox>> /\ handler.at = "begin"
    BY <1>3 DEF BeginStart
  <2> SUFFICES ASSUME NEW f \in Flows, Queued(trigger, f) # {}
               PROVE  HoldingRuns(f)' # {} \/ Comes(f)'
    BY <2>3 DEF Served, Queued
  <2>4. CASE f = FlowOf[handler.trigger]
    BY <2>1, <2>2, <2>4 DEF HoldingRuns, Open
  <2>5. CASE f # FlowOf[handler.trigger]
    <3>1. HoldingRuns(f) # {} => HoldingRuns(f)' # {}
      BY <2>1 DEF HoldingRuns, Open, Exists
    <3>2. Comes(f) => \E m \in StartMessage : m.trigger \in Queued(trigger, f) /\ Has(inbox, m)
      BY <2>3, <2>5 DEF Comes
    <3> QED BY <2>3, <3>1, <3>2 DEF Served, Comes, Queued
  <2> QED BY <2>4, <2>5
<1>4. CASE HandleCoreCommand \/ StartDispatch
  <2>1. PICK m \in Known, row \in RunRow :
           /\ m = Head(inbox) /\ m.kind # "start_run" /\ row.flow = run[m.run].flow
           /\ StartDispatch => (Terminal(row.snap) => Terminal(run[m.run].snap))
           /\ Commit(m, row)
    BY <1>4, Commits
  <2>2. m.run \in Runs /\ run' = [run EXCEPT ![m.run] = row]
    BY <2>1, CommandType DEF Commit
  <2>3. /\ run'[m.run] = row /\ row # NoRun /\ \A q \in Runs \ {m.run} : run'[q] = run[q]
    BY <2>2, NoRunAssumption DEF TypeInv, TypeOK
  <2>4. PICK kinds : Taking(kinds) /\ "start_run" \notin kinds
    <3>1. HandleCoreCommand => Taking({"core_command"})
      BY DEF HandleCoreCommand
    <3>2. StartDispatch => Taking({"dispatch"})
      BY DEF StartDispatch
    <3> QED BY <1>4, <3>1, <3>2
  <2>5. UNCHANGED trigger /\ inbox' = Tail(inbox)
    BY <1>4 DEF HandleCoreCommand, StartDispatch
  <2>6. (\A k \in StartMessage : Has(inbox, k) => Has(inbox', k)) /\ handler.at = "idle"
    BY <2>4, <2>5, TakenServed
  <2> SUFFICES ASSUME NEW f \in Flows, Queued(trigger, f) # {}
               PROVE  HoldingRuns(f)' # {} \/ Comes(f)'
    BY <2>5 DEF Served, Queued
  <2>7. Comes(f) => Comes(f)'
    BY <2>5, <2>6 DEF Comes, Queued
  <2>8. CASE HandleCoreCommand /\ f = row.flow
    <3>1. handler'.at = "drop" /\ handler'.run = m.run
      BY <2>1, <2>8 DEF HandleCoreCommand
    <3> QED BY <2>3, <2>8, <3>1 DEF Comes
  <2>9. CASE StartDispatch \/ f # row.flow
    <3>1. ASSUME NEW r \in HoldingRuns(f) PROVE r \in HoldingRuns(f)'
      <4>1. CASE r = m.run
        BY <2>1, <2>3, <2>9, <3>1, <4>1 DEF HoldingRuns, Open, Exists
      <4>2. CASE r # m.run
        BY <2>3, <3>1, <4>2 DEF HoldingRuns, Open, Exists
      <4> QED BY <4>1, <4>2
    <3> QED BY <2>7, <3>1 DEF Served
  <2> QED BY <1>4, <2>8, <2>9
<1>5. CASE RepeatCommand \/ RefuseCommand \/ SkipDispatch \/ RepeatCoreCommand \/ RefuseCoreCommand
  <2>1. UNCHANGED <<trigger, run>> /\ inbox' = Tail(inbox)
    BY <1>5 DEF RepeatCommand, RefuseCommand, SkipDispatch, RepeatCoreCommand,
       RefuseCoreCommand, Discard, Refuse, stored
  <2>2. PICK kinds : Taking(kinds) /\ "start_run" \notin kinds
    <3>1. RepeatCommand \/ RefuseCommand => Taking(UserKinds) /\ "start_run" \notin UserKinds
      BY DEF RepeatCommand, RefuseCommand, UserKinds
    <3>2. SkipDispatch => Taking({"dispatch"})
      BY DEF SkipDispatch
    <3>3. RepeatCoreCommand \/ RefuseCoreCommand => Taking({"core_command"})
      BY DEF RepeatCoreCommand, RefuseCoreCommand
    <3> QED BY <1>5, <3>1, <3>2, <3>3
  <2> QED BY <2>1, <2>2, TakenServed, QuietServed
<1>6. CASE Execute \/ UNCHANGED vars
  <2>1. UNCHANGED <<trigger, run, inbox>> /\ (handler.at = "execute" \/ UNCHANGED handler)
    BY <1>6 DEF Execute, vars, stored, volatile
  <2> QED BY <2>1, QuietServed
<1>7. CASE Answer \/ (\E r \in Runs, n \in Nodes : TimerFires(r, n)) \/ Outside
  <2>1. UNCHANGED <<trigger, run>>
    BY <1>7 DEF Answer, TimerFires, Outside, SendTrigger, SendCommand, TtlPasses, Crash,
       GoDown, stored
  <2>2. handler.at = "await" \/ UNCHANGED handler
    BY <1>7 DEF Answer, TimerFires, Outside, SendTrigger, SendCommand, TtlPasses, Crash,
       GoDown, volatile
  <2>3. inbox \in Seq(Message)
    BY DEF TypeInv, TypeOK
  <2>4. \A m \in StartMessage : Has(inbox, m) => Has(inbox', m)
    <3>1. inbox' \in Seq(Message)
      BY NextType DEF TypeInv, TypeOK
    <3>2. CASE UNCHANGED inbox
      BY <3>2 DEF Has
    <3>3. CASE \E m \in Message : inbox' = Append(inbox, m)
      BY <2>3, <3>3, HasAppend
    <3>4. CASE \E r \in Runs, n \in Nodes : TimerFires(r, n)
      <4>1. PICK r \in Runs, n \in Nodes : <<r, n>> \in armed /\ inbox' = inbox \o TimerDue(r, n)
        BY <3>4 DEF TimerFires
      <4>2. Exists(r)
        BY <4>1 DEF TypeInv, Located, KnownEffects
      <4>3. TimerDue(r, n) \in Seq(Message)
        BY <4>2, MessageTypes, SeqMonotonic DEF Known
      <4> QED BY <2>3, <4>1, <4>3, HasConcat
    <3>5. CASE Answer
      <4>1. PICK answer \in {"live", "unknown"} :
               inbox' = Append(inbox, EngineCommand("resolve", handler.run, handler.node, answer))
        BY <3>5 DEF Answer
      <4>2. PICK r \in Runs, n \in Nodes : r = handler.run /\ n = handler.node /\ Exists(r)
        BY <3>5 DEF Answer, TypeInv, TypeOK, Located, Handlers, Idle
      <4>3. EngineCommand("resolve", r, n, answer) \in Message
        BY <4>2, MessageTypes DEF Known
      <4> QED BY <3>3, <4>1, <4>2, <4>3
    <3>6. CASE Outside
      <4>1. UNCHANGED inbox \/ \E m : inbox' = Append(inbox, m)
        BY <3>6 DEF Outside, SendTrigger, SendCommand, TtlPasses, Crash, GoDown, volatile
      <4>2. ASSUME NEW m, inbox' = Append(inbox, m) PROVE m \in Message
        <5>1. Len(inbox) \in Nat /\ inbox'[Len(inbox) + 1] = m /\ Len(inbox') = Len(inbox) + 1
          BY <2>3, <4>2
        <5> QED BY <3>1, <5>1
      <4> QED BY <3>2, <3>3, <4>1, <4>2
    <3> QED BY <1>7, <3>4, <3>5, <3>6
  <2> QED BY <2>1, <2>2, <2>4, QuietServed
<1>8. ~ Die /\ ~ RecoverSome
  BY DEF Die, GoDown, RecoverSome, Recover
<1> QED BY <1>1, <1>2, <1>3, <1>4, <1>5, <1>6, <1>7, <1>8 DEF Next, Handle

LEMMA QueueStep ==
  TypeInv /\ QueueInv /\ [Next]_vars /\ proc # "down" /\ proc' # "down" => QueueInv'
BY ListedStep, MarkedStep, ServedStep DEF QueueInv

\* What a flow's queue promises: no key is started twice, and a queued trigger
\* waits only for a run that holds its flow (enqueueStart, startNextQueued,
\* markTriggerStarted), as long as the process does not die.
THEOREM QueueSound == Spec /\ [](proc # "down") => []QueueIsSound
<1>1. Init => QueueInv
  BY DEF Init, QueueInv, Listed, Present, KeysDiffer, RunsAreMarked, OneRunPerTrigger,
     Exists, Served, Queued, Idle
<1>2. TypeInv /\ QueueInv => QueueIsSound
  <2> SUFFICES ASSUME TypeInv, QueueInv PROVE QueueIsSound
    OBVIOUS
  <2>1. QueueMoves
    <3> SUFFICES ASSUME handler = Idle, inbox = <<>>, NEW f \in Flows, Queued(trigger, f) # {}
                 PROVE  HoldingRuns(f) # {}
      BY DEF QueueMoves
    <3>1. ~ Comes(f)
      BY DEF Comes, Has, Idle
    <3> QED BY <3>1 DEF QueueInv, Served
  <2> QED BY <2>1 DEF QueueInv, RunsAreMarked, QueueIsSound
<1> DEFINE Alive == proc # "down"
<1>3. TypeInv /\ QueueInv /\ [Next]_vars /\ Alive /\ Alive' => QueueInv'
  BY QueueStep
<1>4. proc # "down" => Alive
  OBVIOUS
<1> HIDE DEF Alive
<1> QED BY <1>1, <1>2, <1>3, <1>4, TypeInvariant, PTL DEF Spec

-----------------------------------------------------------------------------
(* Nothing is forgotten.  NothingForgotten speaks of a host with nothing to *)
(* do; the invariant says, for every state, where each wake-up is: in the   *)
(* inbox, among the armed timers, or with the handler whose end will look   *)
(* at the run.  That a timer's command is not taken for a repeated one      *)
(* needs the first part, that every request can be served the second.       *)

TimerCommand(r, n) == EngineCommand("timer", r, n, "live")

Asked(r, n) ==
    \/ Kind[n] = "call" /\ Has(inbox, Dispatch(r, n))
    \/ Kind[n] = "timer" /\ (<<r, n>> \in armed \/ Has(inbox, TimerCommand(r, n)))
Woken(r) ==
    Has(inbox, HostStep(r)) \/ (handler.at \in {"mark", "drop"} /\ handler.run = r)

Going(r) == Open(r) /\ ~run[r].snap.paused
Attended(r) ==
    Going(r) => /\ \A n \in Requested(run[r].snap) : Asked(r, n)
                /\ CanAutoStep(run[r]) => Woken(r)

TimersTold ==
    \A r \in Runs, n \in Nodes : Recorded(TimerCommand(r, n)) \in commands =>
        Exists(r) /\ (run[r].snap.cancelled \/ run[r].snap.eff[n] \notin {"none", "requested"})
RequestsFit == \A r \in Runs : Exists(r) => \A n \in Requested(run[r].snap) : Kind[n] # "cpu"
Awake == proc # "down" => \A r \in Runs : Attended(r)

WakeInv == TimersTold /\ RequestsFit /\ Awake

\* What a command may ask for, and when it may leave a run going.
LEMMA OutcomesAsk ==
  ASSUME NEW m \in Known, m.kind \in UserKinds, NEW row \in RunRow,
         WellFormed(row.snap), NEW s \in Outcomes(m, row)
  PROVE  /\ \A n \in Nodes : s.eff[n] = "requested" =>
               row.snap.eff[n] = "requested" \/ Kind[n] \in {"call", "timer"}
         /\ ~ s.paused => m.kind = "resume" \/ ~ row.snap.paused
<1>1. m.node \in Nodes
  BY DEF Known, Message, StartMessage, EngineMessage, UserKinds
<1>2. CASE m.kind \in {"step", "continue"}
  BY <1>2, StepAsks DEF Outcomes
<1>3. CASE m.kind \in {"pause", "resume", "cancel"}
  BY <1>3 DEF Outcomes, PauseOutcomes, ResumeOutcomes, CancelOutcomes, WellFormed, Snapshots
<1>4. CASE m.kind = "fixture"
  <2>1. s = row.snap \/ s \in ResolveOutcomes(row.snap, m.node, "fixture")
    BY <1>4 DEF Outcomes
  <2> QED BY <1>1, <2>1, ResolveAsks DEF Settlers
<1> QED BY <1>2, <1>3, <1>4 DEF UserKinds

\* An engine command asks for nothing and pauses and resumes nothing.
LEMMA EngineAsks ==
  ASSUME TypeInv, NEW m \in Known, m.kind = "core_command", NEW s \in EngineOutcomes(m)
  PROVE  /\ s.paused = run[m.run].snap.paused
         /\ \A n \in Nodes : s.eff[n] = "requested" => run[m.run].snap.eff[n] = "requested"
         /\ m.answer # "clock" =>
               run[m.run].snap.cancelled \/ s.eff[m.node] \notin {"none", "requested"}
<1>1. m.answer \in {"live", "unknown", "clock"}
  BY DEF Known, Message, StartMessage, EngineMessage, UserKinds
<1>2. m.node \in Nodes /\ WellFormed(run[m.run].snap)
  BY CommandType
<1>3. CASE m.answer = "clock"
  BY <1>2, <1>3 DEF EngineOutcomes
<1>4. CASE m.answer # "clock"
  <2>1. s \in ResolveOutcomes(run[m.run].snap, m.node, m.answer)
    BY <1>4 DEF EngineOutcomes
  <2>2. m.answer \in Settlers \cup {"unknown"}
    BY <1>1, <1>4 DEF Settlers
  <2> QED BY <1>2, <2>1, <2>2, ResolveAsks
<1> QED BY <1>3, <1>4

\* A dispatch asks for nothing.
LEMMA DispatchAsks ==
  ASSUME NEW s, WellFormed(s), NEW n \in Nodes, NEW t \in DispatchOutcomes(s, n), NEW m \in Nodes
  PROVE  t.eff[m] = "requested" => s.eff[m] = "requested" /\ m # n
<1>1. (t = s /\ s.eff[n] # "requested") \/ t = [s EXCEPT !.eff[n] = "dispatchStarted"]
  BY DEF DispatchOutcomes
<1> QED BY <1>1 DEF WellFormed, Snapshots

\* The dispatches of a set of calls are all there.
LEMMA DispatchesHave ==
  ASSUME NEW r, NEW calling \in SUBSET Nodes, NEW n \in calling
  PROVE  Has(DispatchesFor(r, calling), Dispatch(r, n))
<1> DEFINE nodes == SetToSeq(calling)
<1>1. Has(nodes, n)
  BY CoordinatorAssumption, FS_Subset, ListHas
<1>2. PICK i \in DOMAIN nodes : nodes[i] = n
  BY <1>1 DEF Has
<1>3. DispatchesFor(r, calling) = [j \in DOMAIN nodes |-> Dispatch(r, nodes[j])]
  BY DEF DispatchesFor
<1> HIDE DEF nodes
<1> QED BY <1>2, <1>3 DEF Has

\* What afterPersist schedules for a run that goes on.
LEMMA AfterPersistSends ==
  ASSUME TypeInv, NEW rows, NEW rest \in Seq(Known), NEW r \in Runs, Exists(r), NEW row,
         NEW requests \in SUBSET Nodes, AfterPersist(rows, rest, r, row, requests)
  PROVE  /\ \A m : Has(rest, m) => Has(inbox', m)
         /\ armed \subseteq armed'
         /\ ~ Terminal(row.snap) /\ ~ row.snap.paused =>
              /\ \A n \in requests : Kind[n] = "call" => Has(inbox', Dispatch(r, n))
              /\ \A n \in requests : Kind[n] = "timer" => <<r, n>> \in armed'
              /\ CanAutoStep(row) => Has(inbox', HostStep(r))
<1> DEFINE calling == {n \in requests : Kind[n] = "call"}
           timing == {n \in requests : Kind[n] = "timer"}
           left == ExpireQueued(rows, row.flow)
<1>1. CASE Terminal(row.snap)
  <2>1. inbox' = rest \o NextQueued(left, row.flow) /\ armed' = armed
    BY <1>1 DEF AfterPersist
  <2>2. NextQueued(left, row.flow) \in Seq(Known)
    BY NextQueuedType
  <2> QED BY <1>1, <2>1, <2>2, HasConcat
<1>2. CASE ~ Terminal(row.snap)
  <2>1. PICK p : p = IF row.snap.paused THEN <<>> ELSE DispatchesFor(r, calling)
    OBVIOUS
  <2>2. /\ inbox' = rest \o p \o StepFor(r, row)
        /\ armed' = armed \cup {<<r, n>> : n \in timing}
    BY <1>2, <2>1 DEF AfterPersist
  <2>3. p \in Seq(Message) /\ rest \in Seq(Message)
    <3>1. DispatchesFor(r, calling) \in Seq(Known)
      BY DispatchesType
    <3>2. DispatchesFor(r, calling) \in Seq(Message) /\ rest \in Seq(Message)
      BY <3>1, SeqMonotonic DEF Known
    <3> HIDE DEF calling
    <3> QED BY <2>1, <3>2
  <2>4. StepFor(r, row) \in Seq(Message)
    <3>1. HostStep(r) \in Message
      BY NodesAssumption DEF HostStep, Command, Message, UserKinds
    <3> QED BY <3>1 DEF StepFor
  <2>5. \A m : Has(rest, m) \/ Has(p, m) \/ Has(StepFor(r, row), m) => Has(inbox', m)
    <3> TAKE m
    <3>1. rest \o p \in Seq(Message)
      BY <2>3
    <3>2. Has(rest \o p, m) \/ Has(StepFor(r, row), m) => Has(inbox', m)
      BY <2>2, <2>4, <3>1, HasConcat
    <3> QED BY <2>3, <3>2, HasConcat
  <2>6. CanAutoStep(row) => Has(inbox', HostStep(r))
    BY <2>5, HasOne DEF StepFor
  <2>7. ASSUME ~ row.snap.paused, NEW n \in requests, Kind[n] = "call"
        PROVE  Has(inbox', Dispatch(r, n))
    <3>1. Has(DispatchesFor(r, calling), Dispatch(r, n))
      BY <2>7, DispatchesHave
    <3> HIDE DEF calling
    <3> QED BY <2>1, <2>5, <2>7, <3>1
  <2> QED BY <2>2, <2>5, <2>6, <2>7
<1> QED BY <1>1, <1>2

\* The three commits, as the wake-ups see them.
LEMMA UserCommit ==
  ASSUME TypeInv, HandleCommand
  PROVE  \E m \in Known, row \in RunRow :
            /\ m = Head(inbox) /\ m.kind \in UserKinds /\ m.run \in Runs /\ Exists(m.run)
            /\ row.snap \in Outcomes(m, run[m.run])
            /\ run' = [run EXCEPT ![m.run] = row] /\ run'[m.run] = row
            /\ commands' \subseteq commands \cup {Recorded(m)}
            /\ AfterPersist(trigger, Tail(inbox), m.run, row,
                            Requests(m, run[m.run].snap, row.snap))
<1>1. Taking(UserKinds)
  BY DEF HandleCommand
<1>2. PICK m \in Known : m = Head(inbox) /\ m.kind \in UserKinds
  BY <1>1, HeadType
<1>3. PICK old \in RunRow : old = run[m.run]
  BY <1>2, CommandType DEF UserKinds
<1>4. WellFormed(old.snap) /\ m.kind # "start_run" /\ m.run \in Runs /\ Exists(m.run)
  BY <1>2, <1>3, CommandType DEF UserKinds
<1>5. PICK s \in Outcomes(m, old) :
         LET row == [old EXCEPT !.snap = s,
                                !.mode = IF m.kind = "continue" THEN "auto" ELSE @,
                                !.applied = Remembered(m, old)]
         IN  /\ Commit(m, row)
             /\ AfterPersist(trigger, Tail(inbox), m.run, row, Requests(m, old.snap, s))
  BY <1>2, <1>3 DEF HandleCommand
<1> DEFINE row == [old EXCEPT !.snap = s,
                              !.mode = IF m.kind = "continue" THEN "auto" ELSE @,
                              !.applied = Remembered(m, old)]
<1>6. Remembered(m, old) \subseteq CommandRow
  <2>1. m.answer # "clock"
    BY <1>2 DEF Known, Message, StartMessage, EngineMessage, UserKinds
  <2>2. m.id # NoCommand => Recorded(m) \in CommandRow
    BY <1>4, <2>1, CommandType
  <2> QED BY <1>3, <2>2 DEF Remembered, RunRow
<1>7. s \in Snapshots
  BY <1>2, <1>3, <1>4, <1>5, OutcomesAllowed DEF Allowed, WellFormed
<1>8. row \in RunRow /\ row.snap = s
  BY <1>3, <1>6, <1>7 DEF RunRow
<1>9. Commit(m, row) /\ AfterPersist(trigger, Tail(inbox), m.run, row, Requests(m, old.snap, s))
  BY <1>5
<1> HIDE DEF row
<1>10. run' = [run EXCEPT ![m.run] = row] /\ commands' \subseteq commands \cup {Recorded(m)}
  BY <1>9 DEF Commit
<1>11. run'[m.run] = row
  BY <1>4, <1>10 DEF TypeInv, TypeOK
<1> QED BY <1>2, <1>3, <1>4, <1>5, <1>8, <1>9, <1>10, <1>11

LEMMA CoreCommit ==
  ASSUME TypeInv, HandleCoreCommand
  PROVE  \E m \in Known :
            /\ Taking({"core_command"}) /\ m = Head(inbox) /\ m.kind = "core_command"
            /\ m.run \in Runs /\ Exists(m.run)
            /\ run'[m.run].snap \in EngineOutcomes(m)
            /\ run' = [run EXCEPT ![m.run] = run'[m.run]]
            /\ commands' \subseteq commands \cup {Recorded(m)}
            /\ inbox' = Tail(inbox) /\ UNCHANGED armed
            /\ handler'.at = "drop" /\ handler'.run = m.run
<1>1. Taking({"core_command"})
  BY DEF HandleCoreCommand
<1>2. PICK m \in Known : m = Head(inbox) /\ m.kind = "core_command"
  BY <1>1, HeadType
<1>3. PICK old \in RunRow : old = run[m.run]
  BY <1>2, CommandType
<1>4. m.run \in Runs /\ Exists(m.run)
  BY <1>2, CommandType
<1>5. PICK s \in EngineOutcomes(m) : Commit(m, [old EXCEPT !.snap = s])
  BY <1>2, <1>3 DEF HandleCoreCommand
<1> DEFINE row == [old EXCEPT !.snap = s]
<1>6. row.snap = s
  BY <1>3 DEF RunRow
<1>7. Commit(m, row)
  BY <1>5
<1> HIDE DEF row
<1>8. run' = [run EXCEPT ![m.run] = row] /\ commands' \subseteq commands \cup {Recorded(m)}
  BY <1>7 DEF Commit
<1>9. run'[m.run] = row
  BY <1>4, <1>8 DEF TypeInv, TypeOK
<1>10. /\ inbox' = Tail(inbox) /\ UNCHANGED armed
       /\ handler'.at = "drop" /\ handler'.run = m.run
  BY <1>2 DEF HandleCoreCommand
<1> QED BY <1>1, <1>2, <1>4, <1>5, <1>6, <1>8, <1>9, <1>10

LEMMA DispatchCommit ==
  ASSUME TypeInv, StartDispatch
  PROVE  \E m \in Known :
            /\ Taking({"dispatch"}) /\ m = Head(inbox) /\ m.kind = "dispatch"
            /\ m.run \in Runs /\ m.node \in Nodes /\ Exists(m.run)
            /\ run'[m.run].snap \in DispatchOutcomes(run[m.run].snap, m.node)
            /\ run'[m.run].mode = run[m.run].mode
            /\ run' = [run EXCEPT ![m.run] = run'[m.run]]
            /\ commands' \subseteq commands \cup {Recorded(m)}
            /\ inbox' = Tail(inbox) /\ UNCHANGED armed
<1>1. Taking({"dispatch"})
  BY DEF StartDispatch
<1>2. PICK m \in Known : m = Head(inbox) /\ m.kind = "dispatch"
  BY <1>1, HeadType
<1>3. PICK old \in RunRow : old = run[m.run]
  BY <1>2, CommandType
<1>4. m.run \in Runs /\ m.node \in Nodes /\ Exists(m.run)
  BY <1>2, CommandType
<1>5. PICK s \in DispatchOutcomes(old.snap, m.node) : Commit(m, [old EXCEPT !.snap = s])
  BY <1>2, <1>3 DEF StartDispatch
<1> DEFINE row == [old EXCEPT !.snap = s]
<1>6. row.snap = s /\ row.mode = old.mode
  BY <1>3 DEF RunRow
<1>7. Commit(m, row)
  BY <1>5
<1> HIDE DEF row
<1>8. run' = [run EXCEPT ![m.run] = row] /\ commands' \subseteq commands \cup {Recorded(m)}
  BY <1>7 DEF Commit
<1>9. run'[m.run] = row
  BY <1>4, <1>8 DEF TypeInv, TypeOK
<1>10. inbox' = Tail(inbox) /\ UNCHANGED armed
  BY DEF StartDispatch
<1> QED BY <1>1, <1>2, <1>3, <1>4, <1>5, <1>6, <1>8, <1>9, <1>10

LEMMA ElsewhereCommands == Elsewhere => UNCHANGED commands
BY DEF Elsewhere, AnswerDuplicate, RefuseTrigger, QueueTrigger, AcceptTrigger, MarkStarted,
   RepeatCommand, RefuseCommand, SkipDispatch, Execute, Answer, DropPending,
   RepeatCoreCommand, RefuseCoreCommand, TimerFires, Die, RecoverSome, Recover, Outside,
   SendTrigger, SendCommand, TtlPasses, Crash, GoDown, Discard, Refuse, stored, vars

\* A timer's command is recorded with the transition that settles its effect.
LEMMA TimersToldStep ==
  ASSUME TypeInv, TimersTold, [Next]_vars
  PROVE  TimersTold'
<1> SUFFICES ASSUME NEW r \in Runs, NEW n \in Nodes, Recorded(TimerCommand(r, n)) \in commands'
             PROVE  /\ Exists(r)'
                    /\ run'[r].snap.cancelled \/ run'[r].snap.eff[n] \notin {"none", "requested"}
  BY DEF TimersTold, Recorded, TimerCommand, EngineCommand, Command, Payload
<1>1. CASE Recorded(TimerCommand(r, n)) \in commands
  <2>1. Exists(r) /\ (run[r].snap.cancelled \/ run[r].snap.eff[n] \notin {"none", "requested"})
    BY <1>1 DEF TimersTold
  <2>2. Exists(r)' /\ Forward(run[r].snap, run'[r].snap) /\ Frozen(run[r].snap, run'[r].snap)
    BY <2>1, RecordsStay, RunsMove
  <2>3. WellFormed(run[r].snap)
    BY <2>1 DEF TypeInv, RowsWellFormed
  <2> QED BY <2>1, <2>2, <2>3 DEF Forward, Frozen, Rank, WellFormed, Snapshots, EffStates, Settlers
<1>2. CASE Recorded(TimerCommand(r, n)) \notin commands
  <2>1. TimerCommand(r, n).kind = "core_command" /\ TimerCommand(r, n).run = r
        /\ TimerCommand(r, n).node = n /\ TimerCommand(r, n).answer = "live"
    BY DEF TimerCommand, EngineCommand, Command
  <2>2. ASSUME NEW m, Recorded(m) = Recorded(TimerCommand(r, n))
        PROVE  m.kind = "core_command" /\ m.run = r /\ m.node = n /\ m.answer = "live"
    <3>1. Payload(m) = Payload(TimerCommand(r, n))
      BY <2>2 DEF Recorded
    <3> QED BY <2>1, <3>1 DEF Payload
  <2>3. CASE HandleCommand \/ StartDispatch
    <3>1. PICK m : m.kind # "core_command" /\ commands' \subseteq commands \cup {Recorded(m)}
      <4>1. HandleCommand => \E m : m.kind \in UserKinds /\ commands' \subseteq commands \cup {Recorded(m)}
        BY UserCommit
      <4>2. StartDispatch => \E m : m.kind = "dispatch" /\ commands' \subseteq commands \cup {Recorded(m)}
        BY DispatchCommit
      <4> QED BY <2>3, <4>1, <4>2 DEF UserKinds
    <3> QED BY <1>2, <2>2, <3>1
  <2>4. CASE HandleCoreCommand
    <3>1. PICK m \in Known :
             /\ m.kind = "core_command" /\ Exists(m.run) /\ m.run \in Runs
             /\ run'[m.run].snap \in EngineOutcomes(m)
             /\ commands' \subseteq commands \cup {Recorded(m)}
      BY <2>4, CoreCommit
    <3>2. m.run = r /\ m.node = n /\ m.answer # "clock"
      BY <1>2, <2>2, <3>1
    <3>3. run[r].snap.cancelled \/ run'[r].snap.eff[n] \notin {"none", "requested"}
      BY <3>1, <3>2, EngineAsks
    <3> QED BY <3>1, <3>2, <3>3, RecordsStay, RunsMove DEF Frozen
  <2>5. CASE BeginStart
    BY <1>2, <2>5 DEF BeginStart
  <2> QED BY <1>2, <2>3, <2>4, <2>5, NextCases, ElsewhereCommands
<1> QED BY <1>1, <1>2

\* Only a step asks, and only for what its node may wait for.
LEMMA RequestsFitStep ==
  ASSUME TypeInv, RequestsFit, [Next]_vars
  PROVE  RequestsFit'
<1> SUFFICES ASSUME NEW r \in Runs, Exists(r)', NEW n \in Nodes, run'[r].snap.eff[n] = "requested"
             PROVE  Kind[n] # "cpu"
  BY DEF RequestsFit, Requested, Exists
<1>1. CASE Exists(r) /\ run[r].snap.eff[n] = "requested"
  BY <1>1 DEF RequestsFit, Requested
<1>2. CASE ~ (Exists(r) /\ run[r].snap.eff[n] = "requested")
  <2>1. CASE Elsewhere
    BY <1>2, <2>1, ElsewhereRuns DEF Exists
  <2>2. CASE BeginStart
    BY <1>2, <2>2, BeginStartRuns, StartSnapType DEF Exists
  <2>3. CASE HandleCommand
    <3>1. PICK m \in Known, row \in RunRow :
             /\ m.kind \in UserKinds /\ m.run \in Runs /\ Exists(m.run)
             /\ row.snap \in Outcomes(m, run[m.run])
             /\ run' = [run EXCEPT ![m.run] = row] /\ run'[m.run] = row
      BY <2>3, UserCommit
    <3>2. r = m.run
      BY <1>2, <3>1 DEF Exists, TypeInv, TypeOK
    <3>3. run[m.run] \in RunRow /\ WellFormed(run[m.run].snap)
      BY <3>1, CommandType DEF UserKinds
    <3> QED BY <1>2, <3>1, <3>2, <3>3, OutcomesAsk
  <2>4. CASE HandleCoreCommand
    <3>1. PICK m \in Known :
             /\ m.kind = "core_command" /\ m.run \in Runs /\ Exists(m.run)
             /\ run'[m.run].snap \in EngineOutcomes(m)
             /\ run' = [run EXCEPT ![m.run] = run'[m.run]]
      BY <2>4, CoreCommit
    <3>2. r = m.run
      BY <1>2, <3>1 DEF Exists, TypeInv, TypeOK
    <3> QED BY <1>2, <3>1, <3>2, EngineAsks
  <2>5. CASE StartDispatch
    <3>1. PICK m \in Known :
             /\ m.kind = "dispatch" /\ m.run \in Runs /\ Exists(m.run) /\ m.node \in Nodes
             /\ run'[m.run].snap \in DispatchOutcomes(run[m.run].snap, m.node)
             /\ run' = [run EXCEPT ![m.run] = run'[m.run]]
      BY <2>5, DispatchCommit
    <3>2. r = m.run
      BY <1>2, <3>1 DEF Exists, TypeInv, TypeOK
    <3>3. WellFormed(run[r].snap)
      BY <3>1, <3>2 DEF TypeInv, RowsWellFormed
    <3> QED BY <1>2, <3>1, <3>2, <3>3, DispatchAsks
  <2> QED BY <2>1, <2>2, <2>3, <2>4, <2>5, NextCases
<1> QED BY <1>1, <1>2

\* A run that is left as it is stays attended when its wake-ups stay.
LEMMA AttendedKept ==
  ASSUME NEW r \in Runs, Attended(r), run'[r] = run[r],
         Going(r) =>
           /\ \A n \in Requested(run[r].snap) :
                 /\ Has(inbox, Dispatch(r, n)) => Has(inbox', Dispatch(r, n))
                 /\ <<r, n>> \in armed \/ Has(inbox, TimerCommand(r, n))
                       => <<r, n>> \in armed' \/ Has(inbox', TimerCommand(r, n))
           /\ Woken(r) => Woken(r)'
  PROVE  Attended(r)'
<1>1. Going(r)' <=> Going(r)
  BY DEF Going, Open, Exists
<1>2. ASSUME NEW n \in Requested(run[r].snap), Going(r), Asked(r, n) PROVE Asked(r, n)'
  BY <1>2 DEF Asked
<1> QED BY <1>1, <1>2 DEF Attended

\* The steps that lose no wake-up and change no run.
LEMMA AllAttended ==
  ASSUME Awake, proc # "down", UNCHANGED run,
         \A m : Has(inbox, m) /\ m.kind # "start_run" => Has(inbox', m),
         \A r \in Runs, n \in Nodes :
            <<r, n>> \in armed => <<r, n>> \in armed' \/ Has(inbox', TimerCommand(r, n)),
         handler.at \notin {"mark", "drop"} \/ UNCHANGED handler
  PROVE  Awake'
<1> SUFFICES ASSUME NEW r \in Runs PROVE Attended(r)'
  BY DEF Awake
<1>1. HostStep(r).kind # "start_run"
  BY DEF HostStep, Command
<1>2. \A n : Dispatch(r, n).kind # "start_run" /\ TimerCommand(r, n).kind # "start_run"
  BY DEF Dispatch, TimerCommand, EngineCommand, Command
<1>3. Woken(r) => Woken(r)'
  BY <1>1 DEF Woken
<1>4. Attended(r)
  BY DEF Awake
<1> QED BY <1>2, <1>3, <1>4, AttendedKept DEF Requested

\* A message about another run, taken out of the inbox, was no wake-up.
LEMMA OthersAttended ==
  ASSUME TypeInv, Awake, NEW kinds, Taking(kinds), NEW m, m = Head(inbox),
         NEW r \in Runs, r # m.run \/ m.kind = "start_run", run'[r] = run[r],
         \A k : Has(Tail(inbox), k) => Has(inbox', k), armed \subseteq armed'
  PROVE  Attended(r)'
<1>1. Attended(r) /\ ~ (handler.at \in {"mark", "drop"})
  BY DEF Awake, Taking, Idle
<1>2. HostStep(r) # m
  BY DEF HostStep, Command
<1>3. \A n : Dispatch(r, n) # m /\ TimerCommand(r, n) # m
  BY DEF Dispatch, TimerCommand, EngineCommand, Command
<1>4. \A k : Has(inbox, k) /\ k # m => Has(inbox', k)
  BY TailHas
<1>5. Woken(r) => Woken(r)'
  BY <1>1, <1>2, <1>4 DEF Woken
<1> QED BY <1>1, <1>3, <1>4, <1>5, AttendedKept

\* The message in hand is taken out, its run is left as it is, and the message
\* was no wake-up of it.
LEMMA UselessAttended ==
  ASSUME TypeInv, Awake, NEW kinds, Taking(kinds), NEW m, m = Head(inbox),
         UNCHANGED <<run, armed>>, inbox' = Tail(inbox), proc # "down",
         \A r \in Runs : Going(r) =>
            /\ m # HostStep(r)
            /\ \A n \in Requested(run[r].snap) : m # Dispatch(r, n) /\ m # TimerCommand(r, n)
  PROVE  Awake'
<1> SUFFICES ASSUME NEW r \in Runs PROVE Attended(r)'
  BY DEF Awake
<1>1. Attended(r) /\ ~ (handler.at \in {"mark", "drop"})
  BY DEF Awake, Taking, Idle
<1>2. \A k : Has(inbox, k) /\ k # m => Has(inbox', k)
  BY TailHas
<1>3. Going(r) /\ Woken(r) => Woken(r)'
  BY <1>1, <1>2 DEF Woken
<1> QED BY <1>1, <1>2, <1>3, AttendedKept

\* What recovery asks for on behalf of a run: every call that was not sent,
\* every timer that is due, and the next step.
LEMMA ResumedHas ==
  ASSUME NEW r \in Runs, Exists(r), NEW due, NEW n \in Nodes
  PROVE  /\ <<r, n>> \in Unsent /\ Kind[n] = "call" => Has(Resumed(r, due), Dispatch(r, n))
         /\ <<r, n>> \in Unsent \cap due => Has(Resumed(r, due), TimerCommand(r, n))
         /\ CanAutoStep(run[r]) => Has(Resumed(r, due), HostStep(r))
<1> DEFINE unsent == {k \in Nodes : <<r, k>> \in Unsent}
           late == {k \in unsent : <<r, k>> \in due}
           calling == {k \in unsent : Kind[k] = "call"}
           timers == SetToSeq(late)
           rings == [i \in DOMAIN timers |-> TimerDue(r, timers[i])]
<1>1. DispatchesFor(r, calling) \in Seq(Known) /\ StepFor(r, run[r]) \in Seq(Known)
  BY DispatchesType, StepForType
<1>2. late \subseteq Nodes /\ IsFiniteSet(late)
  BY CoordinatorAssumption, FS_Subset
<1>3. timers \in Seq(late) /\ \A k \in late : Has(timers, k)
  BY <1>2, ListType, ListHas
<1>4. /\ Len(timers) \in Nat /\ DOMAIN timers = 1..Len(timers)
      /\ \A i \in 1..Len(timers) : timers[i] \in Nodes
  <2> HIDE DEF timers, late
  <2> QED BY <1>2, <1>3
<1>5. \A i \in 1..Len(timers) : TimerDue(r, timers[i]) \in Seq(Known)
  <2> HIDE DEF timers
  <2> QED BY <1>4, MessageTypes
<1>6. rings \in Seq(Seq(Known))
  <2>1. rings \in [1..Len(timers) -> Seq(Known)]
    <3> HIDE DEF timers
    <3> QED BY <1>4, <1>5
  <2> HIDE DEF rings, timers
  <2> QED BY <1>4, <2>1, SeqDef
<1>7. FlattenSeq(rings) \in Seq(Known)
  <2> HIDE DEF rings
  <2> QED BY <1>6, FlattenType
<1>8. Resumed(r, due) = DispatchesFor(r, calling) \o FlattenSeq(rings) \o StepFor(r, run[r])
  BY DEF Resumed
<1>9. \A m : \/ Has(DispatchesFor(r, calling), m) \/ Has(FlattenSeq(rings), m)
             \/ Has(StepFor(r, run[r]), m)
             => Has(Resumed(r, due), m)
  <2> HIDE DEF rings, calling
  <2> TAKE m
  <2>1. PICK p, q, w :
           p = DispatchesFor(r, calling) /\ q = FlattenSeq(rings) /\ w = StepFor(r, run[r])
    OBVIOUS
  <2>2. p \in Seq(Known) /\ q \in Seq(Known) /\ p \o q \in Seq(Known) /\ w \in Seq(Known)
    BY <1>1, <1>7, <2>1
  <2>3. Resumed(r, due) = (p \o q) \o w
    BY <1>8, <2>1
  <2>4. Has(p \o q, m) \/ Has(w, m) => Has((p \o q) \o w, m)
    BY <2>2, HasConcat
  <2>5. Has(p, m) \/ Has(q, m) => Has(p \o q, m)
    BY <2>2, HasConcat
  <2> QED BY <2>1, <2>3, <2>4, <2>5
<1>10. <<r, n>> \in Unsent /\ Kind[n] = "call" => Has(Resumed(r, due), Dispatch(r, n))
  <2>1. n \in calling => Has(DispatchesFor(r, calling), Dispatch(r, n))
    BY DispatchesHave
  <2> QED BY <1>9, <2>1
<1>11. ASSUME <<r, n>> \in Unsent \cap due PROVE Has(Resumed(r, due), TimerCommand(r, n))
  <2>1. PICK i \in DOMAIN timers : timers[i] = n
    BY <1>3, <1>11 DEF Has
  <2>2. i \in DOMAIN rings /\ rings[i] = TimerDue(r, n)
    <3> HIDE DEF timers
    <3> QED BY <2>1
  <2>3. TimerDue(r, n)[2] = TimerCommand(r, n) /\ 2 \in DOMAIN TimerDue(r, n)
    BY DEF TimerDue, TimerCommand
  <2>4. Has(rings[i], TimerCommand(r, n))
    <3> HIDE DEF rings
    <3> QED BY <2>2, <2>3 DEF Has
  <2>5. Has(FlattenSeq(rings), TimerCommand(r, n))
    <3> HIDE DEF rings
    <3> QED BY <1>6, <2>2, <2>4, FlattenHas
  <2> QED BY <1>9, <2>5
<1>12. CanAutoStep(run[r]) => Has(Resumed(r, due), HostStep(r))
  <2>1. CanAutoStep(run[r]) => Has(StepFor(r, run[r]), HostStep(r))
    BY HasOne DEF StepFor
  <2> QED BY <1>9, <2>1
<1> QED BY <1>10, <1>11, <1>12

\* After a recovery every open run that is not paused is attended again.
LEMMA RecoverAttends ==
  ASSUME TypeInv, RequestsFit, NEW due, Recover(due)
  PROVE  Awake'
<1> DEFINE S == {r \in Runs : Open(r)}
           open == SetToSeq(S)
           parts == [i \in DOMAIN open |-> Resumed(open[i], due)]
<1>1. open \in Seq(S) /\ \A r \in S : Has(open, r)
  BY CoordinatorAssumption, FS_Subset, ListType, ListHas
<1>2. /\ Len(open) \in Nat /\ DOMAIN open = 1..Len(open)
      /\ \A i \in 1..Len(open) : open[i] \in S
  <2> HIDE DEF open, S
  <2> QED BY <1>1
<1>3. \A i \in 1..Len(open) : Resumed(open[i], due) \in Seq(Known)
  <2> HIDE DEF open
  <2> QED BY <1>2, ResumedType DEF Open
<1>4. parts \in Seq(Seq(Known))
  <2>1. parts \in [1..Len(open) -> Seq(Known)]
    <3> HIDE DEF open
    <3> QED BY <1>2, <1>3
  <2> HIDE DEF parts, open, S
  <2> QED BY <1>2, <2>1, SeqDef
<1>5. FlattenSeq(parts) \in Seq(Known)
  <2> HIDE DEF parts
  <2> QED BY <1>4, FlattenType
<1>6. /\ inbox' = pending \o MarkLost \o FlattenSeq(parts)
      /\ armed' = {e \in Unsent : Kind[e[2]] = "timer"} \ due
      /\ UNCHANGED run
  BY DEF Recover
<1>7. pending \o MarkLost \in Seq(Known)
  <2>1. KnownAnswers \subseteq Known
    BY DEF Known, Own, KnownAnswers, EngineMessage, Message
  <2>2. pending \in Seq(Known)
    BY <2>1, SeqMonotonic DEF TypeInv, Located
  <2> QED BY <2>2, MarkLostType
<1>8. \A m : Has(FlattenSeq(parts), m) => Has(inbox', m)
  <2> HIDE DEF parts
  <2> QED BY <1>5, <1>6, <1>7, HasConcat
<1> SUFFICES ASSUME NEW r \in Runs, Going(r)
             PROVE  /\ \A n \in Requested(run[r].snap) : Asked(r, n)'
                    /\ CanAutoStep(run[r]) => Woken(r)'
  BY <1>6 DEF Awake, Attended, Going, Open, Exists
<1>9. \A m : Has(Resumed(r, due), m) => Has(inbox', m)
  <2>1. PICK i \in DOMAIN open : open[i] = r
    BY <1>1 DEF Has, Going
  <2>2. i \in DOMAIN parts /\ parts[i] = Resumed(r, due)
    <3> HIDE DEF open
    <3> QED BY <2>1
  <2> HIDE DEF parts
  <2> QED BY <1>4, <1>8, <2>2, FlattenHas
<1> HIDE DEF parts, open, S
<1>10. ASSUME NEW n \in Requested(run[r].snap) PROVE Asked(r, n)'
  <2>1. n \in Nodes /\ <<r, n>> \in Unsent
    BY DEF Requested, Unsent, Going
  <2>2. Kind[n] \in {"call", "timer"}
    BY <2>1, NodesAssumption DEF RequestsFit, Going, Open
  <2>3. CASE Kind[n] = "call"
    BY <1>9, <2>1, <2>3, ResumedHas DEF Asked, Going, Open
  <2>4. CASE Kind[n] = "timer" /\ <<r, n>> \in due
    BY <1>9, <2>1, <2>4, ResumedHas DEF Asked, Going, Open
  <2>5. CASE Kind[n] = "timer" /\ <<r, n>> \notin due
    <3>1. <<r, n>> \in armed'
      BY <1>6, <2>1, <2>5
    <3> QED BY <2>5, <3>1 DEF Asked
  <2> QED BY <2>2, <2>3, <2>4, <2>5
<1>11. CanAutoStep(run[r]) => Woken(r)'
  BY <1>9, ResumedHas, NodesAssumption DEF Woken, Going, Open
<1> QED BY <1>10, <1>11

\* A command of the user, or the host's own step.
LEMMA UserAttends ==
  ASSUME TypeInv, Awake, RequestsFit, RequestsFit', HandleCommand
  PROVE  Awake'
<1>1. PICK m \in Known, row \in RunRow :
         /\ m = Head(inbox) /\ m.kind \in UserKinds /\ m.run \in Runs /\ Exists(m.run)
         /\ row.snap \in Outcomes(m, run[m.run])
         /\ run' = [run EXCEPT ![m.run] = row] /\ run'[m.run] = row
         /\ AfterPersist(trigger, Tail(inbox), m.run, row,
                         Requests(m, run[m.run].snap, row.snap))
  BY UserCommit
<1>2. Taking(UserKinds) /\ Tail(inbox) \in Seq(Known) /\ ~ (handler.at \in {"mark", "drop"})
  BY HeadType DEF HandleCommand, Taking, Idle
<1>3. Requests(m, run[m.run].snap, row.snap) \in SUBSET Nodes
  BY DEF Requests, Requested
<1>4. /\ \A k : Has(Tail(inbox), k) => Has(inbox', k)
      /\ armed \subseteq armed'
      /\ ~ Terminal(row.snap) /\ ~ row.snap.paused =>
           /\ \A n \in Requests(m, run[m.run].snap, row.snap) :
                 Kind[n] = "call" => Has(inbox', Dispatch(m.run, n))
           /\ \A n \in Requests(m, run[m.run].snap, row.snap) :
                 Kind[n] = "timer" => <<m.run, n>> \in armed'
           /\ CanAutoStep(row) => Has(inbox', HostStep(m.run))
  BY <1>1, <1>2, <1>3, AfterPersistSends
<1> SUFFICES ASSUME NEW r \in Runs PROVE Attended(r)'
  BY DEF Awake
<1>5. CASE r # m.run
  <2>1. run'[r] = run[r]
    BY <1>1, <1>5 DEF TypeInv, TypeOK
  <2> QED BY <1>1, <1>2, <1>4, <1>5, <2>1, OthersAttended
<1>6. CASE r = m.run
  <2> SUFFICES ASSUME Going(r)' PROVE /\ \A n \in Requested(row.snap) : Asked(r, n)'
                                      /\ CanAutoStep(row) => Woken(r)'
    BY <1>1, <1>6 DEF Attended
  <2>1. ~ Terminal(row.snap) /\ ~ row.snap.paused
    BY <1>1, <1>6 DEF Going, Open
  <2>2. run[r] \in RunRow /\ WellFormed(run[r].snap)
    BY <1>1, <1>6, CommandType DEF UserKinds
  <2>3. Allowed(run[r].snap, row.snap) /\ (m.kind = "resume" \/ ~ run[r].snap.paused)
    BY <1>1, <1>6, <2>1, <2>2, OutcomesAllowed, OutcomesAsk
  <2>4. CanAutoStep(row) => Woken(r)'
    BY <1>4, <1>6, <2>1 DEF Woken
  <2>5. ASSUME NEW n \in Requested(row.snap) PROVE Asked(r, n)'
    <3>1. n \in Nodes /\ Kind[n] \in {"call", "timer"}
      BY <1>1, <1>6, NodesAssumption DEF Requested, RequestsFit, Going, Open
    <3>2. CASE n \in Requests(m, run[m.run].snap, row.snap)
      BY <1>4, <1>6, <2>1, <3>1, <3>2 DEF Asked
    <3>3. CASE n \notin Requests(m, run[m.run].snap, row.snap)
      <4>1. n \in Requested(run[r].snap) /\ Going(r)
        BY <1>1, <1>6, <2>1, <2>3, <3>3 DEF Requests, Going, Open, Allowed
      <4>2. Asked(r, n)
        BY <1>2, <4>1 DEF Awake, Attended, Taking
      <4>3. Dispatch(r, n) # m /\ TimerCommand(r, n) # m
        BY <1>1 DEF Dispatch, TimerCommand, EngineCommand, Command, UserKinds
      <4>4. \A k : Has(inbox, k) /\ k # m => Has(inbox', k)
        BY <1>1, <1>2, <1>4, TailHas
      <4> QED BY <1>4, <4>2, <4>3, <4>4 DEF Asked
    <3> QED BY <3>2, <3>3
  <2> QED BY <2>4, <2>5
<1> QED BY <1>5, <1>6

\* The intent of a call is stored: the effect is no longer waiting to be sent.
LEMMA DispatchAttends ==
  ASSUME TypeInv, Awake, StartDispatch
  PROVE  Awake'
<1>1. PICK m \in Known :
         /\ Taking({"dispatch"}) /\ m = Head(inbox) /\ m.kind = "dispatch"
         /\ m.run \in Runs /\ m.node \in Nodes /\ Exists(m.run)
         /\ run'[m.run].snap \in DispatchOutcomes(run[m.run].snap, m.node)
         /\ run'[m.run].mode = run[m.run].mode
         /\ run' = [run EXCEPT ![m.run] = run'[m.run]]
         /\ inbox' = Tail(inbox) /\ UNCHANGED armed
  BY DispatchCommit
<1> SUFFICES ASSUME NEW r \in Runs PROVE Attended(r)'
  BY DEF Awake
<1>2. CASE r # m.run
  <2>1. run'[r] = run[r]
    BY <1>1, <1>2 DEF TypeInv, TypeOK
  <2> QED BY <1>1, <1>2, <2>1, OthersAttended
<1>3. CASE r = m.run
  <2>1. PICK s, t : s = run[r].snap /\ t = run'[r].snap
    OBVIOUS
  <2>2. WellFormed(s) /\ t \in DispatchOutcomes(s, m.node)
    BY <1>1, <1>3, <2>1 DEF TypeInv, RowsWellFormed
  <2>3. Allowed(s, t) /\ t.paused = s.paused /\ t.cancelled = s.cancelled /\ t.node = s.node
    BY <1>1, <2>2, DispatchAllowed
  <2>4. Going(r)' => Going(r)
    BY <1>1, <1>3, <2>1, <2>3 DEF Going, Open, Allowed
  <2>5. CanAutoStep(run'[r]) => CanAutoStep(run[r])
    <3>1. run'[r].mode = run[r].mode
      BY <1>1, <1>3
    <3>2. ReadyNodes(t) = ReadyNodes(s)
      BY <2>3 DEF ReadyNodes
    <3> QED BY <2>1, <2>3, <3>1, <3>2 DEF CanAutoStep
  <2>6. \A k : Has(inbox, k) /\ k # m => Has(inbox', k)
    BY <1>1, TailHas
  <2>7. HostStep(r) # m /\ ~ (handler.at \in {"mark", "drop"})
    BY <1>1 DEF HostStep, Command, Taking, Idle
  <2>8. ASSUME NEW n \in Requested(t), Going(r) PROVE Asked(r, n)'
    <3>1. n \in Requested(s) /\ n # m.node
      BY <1>1, <2>2, DispatchAsks DEF Requested
    <3>2. Dispatch(r, n) # m /\ TimerCommand(r, n) # m
      BY <1>1, <3>1 DEF Dispatch, TimerCommand, EngineCommand, Command
    <3>3. Asked(r, n)
      BY <1>1, <2>1, <2>8, <3>1 DEF Awake, Attended, Taking
    <3> QED BY <1>1, <2>6, <3>2, <3>3 DEF Asked
  <2>9. Going(r) /\ CanAutoStep(run[r]) => Woken(r)'
    BY <1>1, <2>6, <2>7 DEF Awake, Attended, Taking, Woken
  <2> QED BY <2>1, <2>4, <2>5, <2>8, <2>9 DEF Attended
<1> QED BY <1>2, <1>3

\* An answer or a timer's command: the handler's end looks at the run again.
LEMMA CoreAttends ==
  ASSUME TypeInv, Awake, HandleCoreCommand
  PROVE  Awake'
<1>1. PICK m \in Known :
         /\ Taking({"core_command"}) /\ m = Head(inbox) /\ m.kind = "core_command"
         /\ m.run \in Runs /\ Exists(m.run)
         /\ run'[m.run].snap \in EngineOutcomes(m)
         /\ run' = [run EXCEPT ![m.run] = run'[m.run]]
         /\ inbox' = Tail(inbox) /\ UNCHANGED armed
         /\ handler'.at = "drop" /\ handler'.run = m.run
  BY CoreCommit
<1> SUFFICES ASSUME NEW r \in Runs PROVE Attended(r)'
  BY DEF Awake
<1>2. CASE r # m.run
  <2>1. run'[r] = run[r]
    BY <1>1, <1>2 DEF TypeInv, TypeOK
  <2> QED BY <1>1, <1>2, <2>1, OthersAttended
<1>3. CASE r = m.run
  <2> SUFFICES ASSUME Going(r)', NEW n \in Requested(run'[r].snap) PROVE Asked(r, n)'
    BY <1>1, <1>3 DEF Attended, Woken
  <2>1. Allowed(run[r].snap, run'[r].snap)
    BY <1>1, <1>3, EngineOutcomesAllowed
  <2>2. /\ run'[r].snap.paused = run[r].snap.paused
        /\ \A k \in Nodes : run'[r].snap.eff[k] = "requested" => run[r].snap.eff[k] = "requested"
        /\ m.answer # "clock" =>
              run[r].snap.cancelled \/ run'[r].snap.eff[m.node] \notin {"none", "requested"}
    BY <1>1, <1>3, EngineAsks
  <2>3. Going(r) /\ n \in Nodes /\ n \in Requested(run[r].snap)
    BY <1>1, <1>3, <2>1, <2>2 DEF Going, Open, Allowed, Requested
  <2>4. Asked(r, n)
    BY <1>1, <2>3 DEF Awake, Attended, Taking
  <2>5. Dispatch(r, n) # m
    BY <1>1 DEF Dispatch, Command
  <2>6. TimerCommand(r, n) # m
    <3> SUFFICES ASSUME TimerCommand(r, n) = m PROVE FALSE
      OBVIOUS
    <3>1. m.node = n /\ m.answer = "live"
      BY DEF TimerCommand, EngineCommand, Command
    <3> QED BY <2>2, <2>3, <3>1 DEF Going, Open, Terminal, Requested
  <2>7. \A k : Has(inbox, k) /\ k # m => Has(inbox', k)
    BY <1>1, TailHas
  <2> QED BY <1>1, <2>4, <2>5, <2>6, <2>7 DEF Asked
<1> QED BY <1>2, <1>3

\* A message that is discarded or refused was no wake-up that counts: not the
\* step of a run that goes on, the dispatch of an effect that may still be sent,
\* or the command of a timer whose effect is open.
LEMMA RefusedAttends ==
  ASSUME TypeInv, OutboxAgrees, TimersTold, Awake,
         RepeatCommand \/ RefuseCommand \/ SkipDispatch \/ RepeatCoreCommand \/ RefuseCoreCommand
  PROVE  Awake'
<1>1. PICK m : m = Head(inbox)
  OBVIOUS
<1>2. PICK kinds : Taking(kinds)
  BY DEF RepeatCommand, RefuseCommand, SkipDispatch, RepeatCoreCommand, RefuseCoreCommand
<1>3. UNCHANGED <<run, armed>> /\ inbox' = Tail(inbox) /\ proc # "down"
  BY <1>2 DEF RepeatCommand, RefuseCommand, SkipDispatch, RepeatCoreCommand,
     RefuseCoreCommand, Discard, Refuse, stored, Taking
<1>4. ASSUME NEW r \in Runs, Going(r)
      PROVE  /\ m # HostStep(r)
             /\ \A n \in Requested(run[r].snap) : m # Dispatch(r, n) /\ m # TimerCommand(r, n)
  <2>1. ~ run[r].snap.paused /\ ~ run[r].snap.cancelled /\ ~ Terminal(run[r].snap)
        /\ WellFormed(run[r].snap) /\ Exists(r)
    BY <1>4 DEF Going, Open, Terminal, TypeInv, RowsWellFormed
  <2>2. m # HostStep(r)
    <3> SUFFICES ASSUME m = HostStep(r) PROVE FALSE
      OBVIOUS
    <3>1. m.kind = "step" /\ m.id = NoCommand /\ m.run = r
      BY DEF HostStep, Command
    <3>2. RepeatCommand \/ RefuseCommand
      BY <1>1, <3>1 DEF SkipDispatch, RepeatCoreCommand, RefuseCoreCommand, Taking
    <3>3. Fresh(m)
      BY <3>1 DEF Fresh, Decision
    <3>4. Outcomes(m, run[r]) = StepOutcomes(run[r].snap)
      BY <3>1 DEF Outcomes
    <3>5. StepOutcomes(run[r].snap) # {}
      BY <2>1, StepAsks
    <3> QED BY <1>1, <3>1, <3>2, <3>3, <3>4, <3>5 DEF RepeatCommand, RefuseCommand
  <2>3. ASSUME NEW n \in Requested(run[r].snap), m = Dispatch(r, n) PROVE FALSE
    <3>1. m.kind = "dispatch" /\ m.run = r /\ m.node = n /\ n \in Nodes
      BY <2>3 DEF Dispatch, Command, Requested
    <3>2. SkipDispatch
      BY <1>1, <3>1 DEF RepeatCommand, RefuseCommand, RepeatCoreCommand, RefuseCoreCommand,
         Taking, UserKinds
    <3>3. outbox[r][n] = "requested"
      BY <2>1, <2>3, <3>1 DEF OutboxAgrees, Requested
    <3> QED BY <1>1, <2>1, <3>1, <3>2, <3>3 DEF SkipDispatch
  <2>4. ASSUME NEW n \in Requested(run[r].snap), m = TimerCommand(r, n) PROVE FALSE
    <3>1. m.kind = "core_command" /\ m.run = r /\ m.node = n /\ m.answer = "live" /\ n \in Nodes
      BY <2>4 DEF TimerCommand, EngineCommand, Command, Requested
    <3>2. RepeatCoreCommand \/ RefuseCoreCommand
      BY <1>1, <3>1 DEF RepeatCommand, RefuseCommand, SkipDispatch, Taking, UserKinds
    <3>3. CASE RepeatCoreCommand
      <4>1. Recorded(m) \in commands
        BY <1>1, <3>3 DEF RepeatCoreCommand, Decision
      <4> QED BY <2>1, <2>4, <3>1, <4>1 DEF TimersTold, Requested
    <3>4. CASE RefuseCoreCommand
      <4>1. ResolveOutcomes(run[r].snap, n, "live") = {}
        BY <1>1, <3>1, <3>4 DEF RefuseCoreCommand, EngineOutcomes
      <4>2. run[r].snap.eff[n] = "requested"
        BY <2>4 DEF Requested
      <4>3. "live" \in Settlers \cup {"unknown"}
        BY DEF Settlers
      <4> QED BY <2>1, <3>1, <4>1, <4>2, <4>3, ResolveAsks
    <3> QED BY <3>2, <3>3, <3>4
  <2> QED BY <2>2, <2>3, <2>4
<1> QED BY <1>1, <1>2, <1>3, <1>4, UselessAttended

\* The end of a handler looks at the run it worked on.
LEMMA EndAttends ==
  ASSUME TypeInv, Awake, MarkStarted \/ DropPending
  PROVE  Awake'
<1>1. PICK r \in Runs :
         /\ r = handler.run /\ Exists(r) /\ handler.at \in {"mark", "drop"}
         /\ \E rows : AfterPersist(rows, inbox, r, run[r], {})
         /\ UNCHANGED run /\ proc # "down"
  BY DEF MarkStarted, DropPending, TypeInv, TypeOK, Located, Handlers, Idle
<1>2. /\ \A m : Has(inbox, m) => Has(inbox', m)
      /\ armed \subseteq armed'
      /\ Going(r) => (CanAutoStep(run[r]) => Has(inbox', HostStep(r)))
  <2>1. inbox \in Seq(Known)
    BY DEF TypeInv, Located
  <2>2. PICK rows, row : row = run[r] /\ AfterPersist(rows, inbox, r, row, {})
    BY <1>1
  <2>3. {} \in SUBSET Nodes
    OBVIOUS
  <2>4. /\ \A m : Has(inbox, m) => Has(inbox', m)
        /\ armed \subseteq armed'
        /\ ~ Terminal(row.snap) /\ ~ row.snap.paused =>
             (CanAutoStep(row) => Has(inbox', HostStep(r)))
    BY <1>1, <2>1, <2>2, <2>3, AfterPersistSends
  <2> QED BY <2>2, <2>4 DEF Going, Open
<1> SUFFICES ASSUME NEW q \in Runs PROVE Attended(q)'
  BY DEF Awake
<1>3. Attended(q) /\ run'[q] = run[q]
  BY <1>1 DEF Awake
<1>4. Going(q) => \A n \in Requested(run[q].snap) : Asked(q, n)'
  BY <1>2, <1>3 DEF Attended, Asked
<1>5. Going(q) /\ CanAutoStep(run[q]) => Has(inbox', HostStep(q))
  BY <1>1, <1>2, <1>3 DEF Attended, Woken
<1>6. Going(q)' <=> Going(q)
  BY <1>3 DEF Going, Open, Exists
<1> QED BY <1>3, <1>4, <1>5, <1>6 DEF Attended, Woken

\* The steps of the outside world, the adapter and the timers take nothing away.
LEMMA PassiveAttends ==
  ASSUME TypeInv, Awake, proc # "down",
         \/ Execute \/ Answer \/ (\E r \in Runs, n \in Nodes : TimerFires(r, n))
         \/ (Outside /\ ~ Crash) \/ UNCHANGED vars
  PROVE  Awake'
<1>1. UNCHANGED run /\ (handler.at \notin {"mark", "drop"} \/ UNCHANGED handler)
  BY DEF Execute, Answer, TimerFires, Outside, SendTrigger, SendCommand, TtlPasses,
     stored, volatile, vars
<1>2. inbox \in Seq(Message)
  BY DEF TypeInv, TypeOK
<1>3. CASE \E r \in Runs, n \in Nodes : TimerFires(r, n)
  <2>1. PICK r \in Runs, n \in Nodes :
           /\ <<r, n>> \in armed /\ armed' = armed \ {<<r, n>>}
           /\ inbox' = inbox \o TimerDue(r, n)
    BY <1>3 DEF TimerFires
  <2>2. TimerDue(r, n) \in Seq(Message)
    <3>1. Exists(r)
      BY <2>1 DEF TypeInv, Located, KnownEffects
    <3> QED BY <3>1, MessageTypes, SeqMonotonic DEF Known
  <2>3. \A m : Has(inbox, m) \/ Has(TimerDue(r, n), m) => Has(inbox', m)
    BY <1>2, <2>1, <2>2, HasConcat
  <2>4. Has(TimerDue(r, n), TimerCommand(r, n))
    <3>1. TimerDue(r, n)[2] = TimerCommand(r, n) /\ 2 \in DOMAIN TimerDue(r, n)
      BY DEF TimerDue, TimerCommand
    <3> QED BY <3>1 DEF Has
  <2>5. \A q \in Runs, k \in Nodes :
           <<q, k>> \in armed => <<q, k>> \in armed' \/ (q = r /\ k = n)
    BY <2>1
  <2> QED BY <1>1, <2>3, <2>4, <2>5, AllAttended
<1>4. CASE ~ \E r \in Runs, n \in Nodes : TimerFires(r, n)
  <2>1. UNCHANGED armed /\ (UNCHANGED inbox \/ \E m : inbox' = Append(inbox, m))
    BY <1>4 DEF Execute, Answer, Outside, SendTrigger, SendCommand, TtlPasses, volatile, vars
  <2>2. \A m : Has(inbox, m) => Has(inbox', m)
    <3>1. CASE UNCHANGED inbox
      BY <3>1
    <3>2. CASE \E d : inbox' = Append(inbox, d)
      <4>1. PICK d : inbox' = Append(inbox, d)
        BY <3>2
      <4>2. \A i \in DOMAIN inbox : i \in DOMAIN inbox' /\ inbox'[i] = inbox[i]
        BY <1>2, <4>1
      <4> QED BY <4>2 DEF Has
    <3> QED BY <2>1, <3>1, <3>2
  <2> QED BY <1>1, <2>1, <2>2, AllAttended
<1> QED BY <1>3, <1>4

LEMMA AwakeStep ==
  ASSUME TypeInv, OutboxAgrees, WakeInv, RequestsFit', [Next]_vars
  PROVE  Awake'
<1> USE DEF WakeInv
<1>1. CASE AnswerDuplicate \/ RefuseTrigger \/ QueueTrigger \/ AcceptTrigger
  <2>1. PICK m : m = Head(inbox) /\ m.kind = "start_run"
    BY <1>1, HeadType DEF AnswerDuplicate, RefuseTrigger, QueueTrigger, AcceptTrigger
  <2>2. /\ Taking({"start_run"}) /\ inbox' = Tail(inbox) /\ UNCHANGED <<run, armed>>
    BY <1>1 DEF AnswerDuplicate, RefuseTrigger, QueueTrigger, AcceptTrigger, Discard, Refuse, stored
  <2> SUFFICES ASSUME NEW r \in Runs PROVE Attended(r)'
    BY DEF Awake
  <2> QED BY <2>1, <2>2, OthersAttended
<1>2. CASE BeginStart
  <2>1. PICK r \in Runs :
           /\ run'[r].snap = StartSnap /\ handler'.at = "mark" /\ handler'.run = r
           /\ \A q \in Runs : q # r => run'[q] = run[q]
    BY <1>2, BeginStartRuns
  <2>2. UNCHANGED <<inbox, armed>> /\ handler.at = "begin" /\ proc # "down"
    BY <1>2 DEF BeginStart
  <2> SUFFICES ASSUME NEW q \in Runs PROVE Attended(q)'
    BY DEF Awake
  <2>3. CASE q = r
    <3>1. Requested(run'[q].snap) = {}
      BY <2>1, <2>3, StartSnapType DEF Requested
    <3> QED BY <2>1, <2>3, <3>1 DEF Attended, Woken
  <2>4. CASE q # r
    <3>1. Attended(q) /\ run'[q] = run[q] /\ (Woken(q) => Woken(q)')
      BY <2>1, <2>2, <2>4 DEF Awake, Woken
    <3> QED BY <2>2, <3>1, AttendedKept
  <2> QED BY <2>3, <2>4
<1>3. CASE HandleCommand \/ StartDispatch \/ HandleCoreCommand \/ MarkStarted \/ DropPending
  BY <1>3, UserAttends, DispatchAttends, CoreAttends, EndAttends
<1>4. CASE RepeatCommand \/ RefuseCommand \/ SkipDispatch \/ RepeatCoreCommand \/ RefuseCoreCommand
  BY <1>4, RefusedAttends
<1>5. CASE proc' = "down"
  BY <1>5 DEF Awake
<1>6. CASE RecoverSome
  BY <1>6, RecoverAttends DEF RecoverSome
<1>7. CASE /\ \/ Execute \/ Answer \/ (\E r \in Runs, n \in Nodes : TimerFires(r, n))
              \/ (Outside /\ ~ Crash) \/ UNCHANGED vars
           /\ proc' # "down"
  <2>1. proc # "down"
    BY <1>7 DEF Execute, Answer, TimerFires, Outside, SendTrigger, SendCommand, TtlPasses,
       volatile, vars
  <2> QED BY <1>7, <2>1, PassiveAttends
<1>8. Crash \/ Die => proc' = "down"
  BY DEF Crash, Die, GoDown
<1> QED BY <1>1, <1>2, <1>3, <1>4, <1>5, <1>6, <1>7, <1>8 DEF Next, Handle

LEMMA WakeStep == TypeInv /\ OutboxAgrees /\ WakeInv /\ [Next]_vars => WakeInv'
BY TimersToldStep, RequestsFitStep, AwakeStep DEF WakeInv

\* Whatever crashed, was paused or came twice: when the host has nothing to do,
\* no request is left unsent, no timer unarmed and no automatic run unstepped,
\* no manual run is stepped by the host, and no command was applied twice.
THEOREM TakenUpAgain == Spec => []NothingIsLost
<1>1. Init => WakeInv
  BY DEF Init, WakeInv, TimersTold, RequestsFit, Awake, Attended, Going, Open, Exists
<1>2. WakeInv => NothingForgotten
  <2> SUFFICES ASSUME WakeInv, proc = "up", handler = Idle, inbox = <<>>,
                      NEW r \in Runs, Open(r), ~run[r].snap.paused
               PROVE  /\ \A n \in Requested(run[r].snap) : Kind[n] = "timer" /\ <<r, n>> \in armed
                      /\ ~CanAutoStep(run[r])
    BY DEF NothingForgotten
  <2>1. \A m : ~ Has(inbox, m)
    BY DEF Has
  <2> QED BY <2>1 DEF WakeInv, Awake, Attended, Going, Asked, Woken, Idle
<1>3. TypeInv => ManualWaits
  <2> SUFFICES ASSUME TypeInv, NEW i \in DOMAIN inbox,
                      inbox[i].kind = "step", inbox[i].id = NoCommand
               PROVE  run[inbox[i].run].mode = "auto"
    BY DEF ManualWaits
  <2>1. inbox[i] \in Known
    BY DEF TypeInv, Located
  <2> QED BY <2>1 DEF Known, Own
<1>4. AppliedInv => AppliedOnce
  BY DEF AppliedInv, AppliedOnce
<1>5. TypeInv /\ WakeInv /\ AppliedInv => NothingIsLost
  BY <1>2, <1>3, <1>4 DEF NothingIsLost
<1> QED BY <1>1, <1>5, WakeStep, TypeInvariant, OutboxFollowsRun, AppliedInvariant, PTL DEF Spec

-----------------------------------------------------------------------------
(* The refinement of EffectDelivery.  A command moves one effect, and one   *)
(* phase on.  That an effect is never lost before it was sent, and that it   *)
(* is still as it was stored when the adapter is called, is an invariant of  *)
(* the host: an unknown result comes only from a call that was dispatched.   *)

Sent(r, n) == run[r].snap.eff[n] \notin Uncalled

Fine ==
    {m \in Message : m.kind = "core_command" /\ m.answer = "unknown" =>
                        Exists(m.run) /\ Sent(m.run, m.node)}

SentInv ==
    /\ inbox \in Seq(Fine) /\ pending \in Seq(Fine)
    /\ handler.at = "execute" => run[handler.run].snap.eff[handler.node] = "dispatchStarted"
    /\ handler.at = "await" => Sent(handler.run, handler.node)

MovesOn(a, b) ==
    \/ a = "none" /\ b = "requested"
    \/ a = "requested" /\ b = "dispatchStarted"
    \/ a = "dispatchStarted" /\ b = "unknown"
    \/ a \in {"requested", "dispatchStarted", "unknown"} /\ b \in Settlers

OneMoves(s, t) ==
    t.eff = s.eff \/ \E n \in Nodes : /\ MovesOn(s.eff[n], t.eff[n])
                                      /\ t.eff = [s.eff EXCEPT ![n] = t.eff[n]]

LEMMA StepMoves ==
  ASSUME NEW s, WellFormed(s), NEW t \in StepOutcomes(s)
  PROVE  OneMoves(s, t)
<1>1. CASE t = s
  BY <1>1 DEF OneMoves
<1>2. CASE t # s
  <2>1. PICK n \in ReadyNodes(s) : t \in Finished(s, n) \cup Waited(s, n)
    BY <1>2 DEF StepOutcomes
  <2>2. n \in Nodes /\ s.node[n] = "ready" /\ s.eff[n] = "none"
    BY <2>1 DEF ReadyNodes, WellFormed
  <2>3. CASE t \in Finished(s, n)
    BY <2>2, <2>3, FinishedType DEF OneMoves
  <2>4. CASE t \in Waited(s, n)
    <3>1. t = [s EXCEPT !.node[n] = "waiting", !.eff[n] = "requested"]
      BY <2>4 DEF Waited
    <3>2. t.eff = [s.eff EXCEPT ![n] = "requested"] /\ t.eff[n] = "requested"
      BY <2>2, <3>1 DEF WellFormed, Snapshots
    <3> QED BY <2>2, <3>2 DEF OneMoves, MovesOn
  <2> QED BY <2>1, <2>3, <2>4
<1> QED BY <1>1, <1>2

\* An answer settles its effect or loses it; it can lose only what was sent.
LEMMA ResolveMoves ==
  ASSUME NEW s, WellFormed(s), NEW n \in Nodes, NEW answer \in Settlers \cup {"unknown"},
         NEW t \in ResolveOutcomes(s, n, answer), answer = "unknown" => s.eff[n] \notin Uncalled
  PROVE  OneMoves(s, t)
<1>1. s.eff[n] \in EffStates /\ s.eff[n] # "none" /\ s.eff \in [Nodes -> EffStates]
  BY DEF ResolveOutcomes, WellFormed, Snapshots, Settlers
<1>2. CASE s.eff[n] \in Settlers \/ s.cancelled
  <2>1. t = s
    BY <1>1, <1>2 DEF ResolveOutcomes, Settlers
  <2> QED BY <2>1 DEF OneMoves
<1>3. CASE s.eff[n] \notin Settlers /\ ~ s.cancelled /\ answer = "unknown"
  <2>1. t = [s EXCEPT !.eff[n] = "unknown"]
    BY <1>1, <1>3 DEF ResolveOutcomes, Settlers
  <2>2. t.eff = [s.eff EXCEPT ![n] = "unknown"] /\ t.eff[n] = "unknown"
    BY <1>1, <2>1 DEF WellFormed, Snapshots
  <2>3. s.eff[n] = "dispatchStarted" \/ s.eff[n] = "unknown"
    BY <1>1, <1>3 DEF EffStates, Uncalled
  <2>4. s.eff[n] = "unknown" => t.eff = s.eff
    BY <1>1, <2>2
  <2> QED BY <2>2, <2>3, <2>4 DEF OneMoves, MovesOn
<1>4. CASE s.eff[n] \notin Settlers /\ ~ s.cancelled /\ answer # "unknown"
  <2>1. PICK u \in IF s.node[n] = "waiting" THEN Finished(s, n) ELSE {s} :
              t = [u EXCEPT !.eff[n] = answer]
    BY <1>1, <1>4 DEF ResolveOutcomes
  <2>2. u.eff = s.eff /\ u \in Snapshots
    <3>1. CASE s.node[n] = "waiting"
      BY <2>1, <3>1, FinishedType DEF WellFormed
    <3>2. CASE s.node[n] # "waiting"
      BY <2>1, <3>2 DEF WellFormed
    <3> QED BY <3>1, <3>2
  <2>3. t.eff = [s.eff EXCEPT ![n] = answer] /\ t.eff[n] = answer
    BY <1>1, <2>1, <2>2 DEF Snapshots
  <2>4. s.eff[n] \in {"requested", "dispatchStarted", "unknown"} /\ answer \in Settlers
    BY <1>1, <1>4 DEF EffStates
  <2> QED BY <2>3, <2>4 DEF OneMoves, MovesOn
<1> QED BY <1>2, <1>3, <1>4

LEMMA DispatchMoves ==
  ASSUME NEW s, WellFormed(s), NEW n \in Nodes, NEW t \in DispatchOutcomes(s, n)
  PROVE  OneMoves(s, t) /\ (s.eff[n] = "requested" => t.eff[n] = "dispatchStarted")
<1>1. CASE s.eff[n] = "requested"
  <2>1. t = [s EXCEPT !.eff[n] = "dispatchStarted"]
    BY <1>1 DEF DispatchOutcomes
  <2>2. t.eff = [s.eff EXCEPT ![n] = "dispatchStarted"] /\ t.eff[n] = "dispatchStarted"
    BY <2>1 DEF WellFormed, Snapshots
  <2> QED BY <1>1, <2>2 DEF OneMoves, MovesOn
<1>2. CASE s.eff[n] # "requested"
  BY <1>2 DEF DispatchOutcomes, OneMoves
<1> QED BY <1>1, <1>2

\* Every commit moves one effect of its run.
LEMMA CommitMoves ==
  ASSUME TypeInv, SentInv, HandleCommand \/ HandleCoreCommand \/ StartDispatch
  PROVE  \E r \in Runs :
            /\ Exists(r) /\ Exists(r)' /\ run' = [run EXCEPT ![r] = run'[r]]
            /\ OneMoves(run[r].snap, run'[r].snap)
<1>1. CASE HandleCommand
  <2>1. PICK m \in Known, row \in RunRow :
           /\ m.kind \in UserKinds /\ m.run \in Runs /\ Exists(m.run)
           /\ row.snap \in Outcomes(m, run[m.run])
           /\ run' = [run EXCEPT ![m.run] = row] /\ run'[m.run] = row
    BY <1>1, UserCommit
  <2>2. PICK s, t : s = run[m.run].snap /\ t = row.snap
    OBVIOUS
  <2>3. WellFormed(s) /\ m.node \in Nodes
    BY <2>1, <2>2, CommandType DEF UserKinds
  <2>4. CASE m.kind \in {"step", "continue"}
    BY <2>1, <2>2, <2>3, <2>4, StepMoves, NoRunAssumption DEF Outcomes, Exists
  <2>5. CASE m.kind \in {"pause", "resume", "cancel"}
    <3>1. t.eff = s.eff
      BY <2>1, <2>2, <2>3, <2>5 DEF Outcomes, PauseOutcomes, ResumeOutcomes, CancelOutcomes,
         WellFormed, Snapshots
    <3> QED BY <2>1, <2>2, <3>1, NoRunAssumption DEF OneMoves, Exists
  <2>6. CASE m.kind = "fixture"
    <3>1. t = s \/ t \in ResolveOutcomes(s, m.node, "fixture")
      BY <2>1, <2>2, <2>6 DEF Outcomes
    <3>2. OneMoves(s, t)
      BY <2>3, <3>1, ResolveMoves DEF OneMoves, Settlers
    <3> QED BY <2>1, <2>2, <3>2, NoRunAssumption DEF Exists
  <2> QED BY <2>1, <2>4, <2>5, <2>6 DEF UserKinds
<1>2. CASE HandleCoreCommand
  <2>1. PICK m \in Known :
           /\ Taking({"core_command"}) /\ m = Head(inbox) /\ m.kind = "core_command"
           /\ m.run \in Runs /\ Exists(m.run)
           /\ run'[m.run].snap \in EngineOutcomes(m)
           /\ run' = [run EXCEPT ![m.run] = run'[m.run]]
    BY <1>2, CoreCommit
  <2>2. PICK s, t : s = run[m.run].snap /\ t = run'[m.run].snap
    OBVIOUS
  <2>3. WellFormed(s) /\ m.node \in Nodes /\ m \in Fine
    <3>1. m \in Fine
      BY <2>1, HeadTailProperties DEF SentInv, Taking
    <3> QED BY <2>1, <2>2, <3>1, CommandType
  <2>4. m.answer \in {"live", "unknown", "clock"}
    BY <2>1 DEF Known, Message, StartMessage, EngineMessage, UserKinds
  <2>5. OneMoves(s, t)
    <3>1. CASE m.answer = "clock"
      BY <2>1, <2>2, <3>1 DEF EngineOutcomes, OneMoves
    <3>2. CASE m.answer # "clock"
      <4>1. t \in ResolveOutcomes(s, m.node, m.answer) /\ m.answer \in Settlers \cup {"unknown"}
        BY <2>1, <2>2, <2>4, <3>2 DEF EngineOutcomes, Settlers
      <4>2. m.answer = "unknown" => s.eff[m.node] \notin Uncalled
        BY <2>1, <2>2, <2>3 DEF Fine, Sent
      <4> QED BY <2>3, <4>1, <4>2, ResolveMoves
    <3> QED BY <3>1, <3>2
  <2>6. Exists(m.run)'
    BY <1>2, <2>1, Commits, CommitAdvances DEF Advances
  <2> QED BY <2>1, <2>2, <2>5, <2>6
<1>3. CASE StartDispatch
  <2>1. PICK m \in Known :
           /\ m.run \in Runs /\ m.node \in Nodes /\ Exists(m.run)
           /\ run'[m.run].snap \in DispatchOutcomes(run[m.run].snap, m.node)
           /\ run' = [run EXCEPT ![m.run] = run'[m.run]]
    BY <1>3, DispatchCommit
  <2>2. WellFormed(run[m.run].snap)
    BY <2>1 DEF TypeInv, RowsWellFormed
  <2>3. Exists(m.run)'
    BY <1>3, <2>1, Commits, CommitAdvances DEF Advances
  <2> QED BY <2>1, <2>2, <2>3, DispatchMoves
<1> QED BY <1>1, <1>2, <1>3

\* What was sent stays sent.
LEMMA FineStays ==
  ASSUME TypeInv, [Next]_vars
  PROVE  /\ \A r \in Runs, n \in Nodes : Exists(r) /\ Sent(r, n) => Exists(r)' /\ Sent(r, n)'
         /\ \A q \in Seq(Fine) : q \in Seq(Fine')
<1>1. ASSUME NEW r \in Runs, NEW n \in Nodes, Exists(r), Sent(r, n)
      PROVE  Exists(r)' /\ Sent(r, n)'
  <2>1. Exists(r)' /\ Forward(run[r].snap, run'[r].snap)
    BY <1>1, RecordsStay, RunsMove
  <2>2. WellFormed(run[r].snap)
    BY <1>1 DEF TypeInv, RowsWellFormed
  <2> QED BY <1>1, <2>1, <2>2
       DEF Sent, Forward, Rank, Uncalled, WellFormed, Snapshots, EffStates, Settlers
<1>2. Fine \subseteq Fine'
  <2>1. ASSUME NEW m \in Message, m.kind = "core_command" PROVE m.run \in Runs /\ m.node \in Nodes
    BY <2>1 DEF Message, StartMessage, EngineMessage, UserKinds
  <2> QED BY <1>1, <2>1 DEF Fine
<1> QED BY <1>1, <1>2, SeqMonotonic

\* The messages that are no lost results.
LEMMA FineMessages ==
  /\ \A t \in Triggers, void \in BOOLEAN : Start(t, void) \in Fine
  /\ \A r \in Runs : HostStep(r) \in Fine
  /\ \A r \in Runs, n \in Nodes : Dispatch(r, n) \in Fine /\ TimerDue(r, n) \in Seq(Fine)
<1>1. \A t \in Triggers, void \in BOOLEAN : Start(t, void) \in Fine
  BY DEF Start, Fine, Message, StartMessage
<1>2. \A r \in Runs : HostStep(r) \in Fine
  BY NodesAssumption DEF HostStep, Command, Fine, Message, UserKinds
<1>3. \A r \in Runs, n \in Nodes : Dispatch(r, n) \in Fine
  BY DEF Dispatch, Command, Fine, Message
<1>4. ASSUME NEW r \in Runs, NEW n \in Nodes PROVE TimerDue(r, n) \in Seq(Fine)
  <2>1. EngineCommand("clock", r, n, "clock") \in Fine /\ EngineCommand("timer", r, n, "live") \in Fine
    BY DEF EngineCommand, Command, Fine, Message, EngineMessage, EngineIds
  <2> QED BY <2>1 DEF TimerDue
<1> QED BY <1>1, <1>2, <1>3, <1>4

\* afterPersist adds no result.
LEMMA AfterPersistFine ==
  ASSUME TypeInv, NEW rows, NEW rest \in Seq(Fine), NEW r \in Runs, NEW row,
         NEW requests \in SUBSET Nodes, AfterPersist(rows, rest, r, row, requests)
  PROVE  inbox' \in Seq(Fine)
<1> DEFINE calling == {n \in requests : Kind[n] = "call"}
           left == ExpireQueued(rows, row.flow)
<1>1. CASE Terminal(row.snap)
  <2>1. inbox' = rest \o NextQueued(left, row.flow)
    BY <1>1 DEF AfterPersist
  <2>2. NextQueued(left, row.flow) \in Seq(Fine)
    BY FineMessages, NextQueuedOver DEF TypeInv, TypeOK
  <2> QED BY <2>1, <2>2
<1>2. CASE ~ Terminal(row.snap)
  <2>1. inbox' = rest \o (IF row.snap.paused THEN <<>> ELSE DispatchesFor(r, calling))
                      \o StepFor(r, row)
    BY <1>2 DEF AfterPersist
  <2>2. DispatchesFor(r, calling) \in Seq(Fine)
    BY FineMessages, DispatchesOver
  <2>3. StepFor(r, row) \in Seq(Fine)
    BY FineMessages, SingletonType DEF StepFor
  <2> HIDE DEF calling
  <2> QED BY <2>1, <2>2, <2>3
<1> QED BY <1>1, <1>2

\* Where the results in the inbox come from.
LEMMA InboxFine ==
  ASSUME TypeInv, OutboxAgrees, SentInv, [Next]_vars
  PROVE  inbox' \in Seq(Fine)
<1>0. <<>> \in Seq(Fine)
  OBVIOUS
<1>1. inbox \in Seq(Fine) /\ pending \in Seq(Fine)
  BY DEF SentInv
<1>2. ASSUME NEW kinds, Taking(kinds) PROVE Tail(inbox) \in Seq(Fine)
  BY <1>1, <1>2, HeadTailProperties DEF Taking
<1>3. CASE \/ AnswerDuplicate \/ RefuseTrigger \/ QueueTrigger \/ AcceptTrigger
           \/ RepeatCommand \/ RefuseCommand \/ SkipDispatch \/ RepeatCoreCommand \/ RefuseCoreCommand
           \/ StartDispatch \/ HandleCoreCommand
  <2>1. inbox' = Tail(inbox) /\ \E kinds : Taking(kinds)
    BY <1>3 DEF AnswerDuplicate, RefuseTrigger, QueueTrigger, AcceptTrigger, RepeatCommand,
       RefuseCommand, SkipDispatch, RepeatCoreCommand, RefuseCoreCommand, StartDispatch,
       HandleCoreCommand, Discard, Refuse
  <2> QED BY <1>2, <2>1
<1>4. CASE HandleCommand
  <2>1. PICK m, row, requests, s : /\ m.run \in Runs /\ requests = Requests(m, run[m.run].snap, s)
                                /\ AfterPersist(trigger, Tail(inbox), m.run, row, requests)
    BY <1>4, UserCommit
  <2>2. requests \in SUBSET Nodes
    BY <2>1 DEF Requests, Requested
  <2>3. Tail(inbox) \in Seq(Fine)
    BY <1>2, <1>4 DEF HandleCommand
  <2> QED BY <2>1, <2>2, <2>3, AfterPersistFine
<1>5. CASE MarkStarted \/ DropPending
  <2>1. \E r \in Runs : \E rows : AfterPersist(rows, inbox, r, run[r], {})
    <3>1. PICK r : r = handler.run /\ handler.at \in {"mark", "drop"}
      BY <1>5 DEF MarkStarted, DropPending
    <3>2. r \in Runs
      BY <3>1 DEF TypeInv, TypeOK, Handlers, Idle
    <3>3. \E rows : AfterPersist(rows, inbox, r, run[r], {})
      BY <1>5, <3>1 DEF MarkStarted, DropPending
    <3> QED BY <3>2, <3>3
  <2>0. PICK r \in Runs : \E rows : AfterPersist(rows, inbox, r, run[r], {})
    BY <2>1
  <2>2. PICK rows, row, requests : requests = {} /\ AfterPersist(rows, inbox, r, row, requests)
    BY <2>0
  <2>3. requests \in SUBSET Nodes
    BY <2>2
  <2> QED BY <1>1, <2>2, <2>3, AfterPersistFine
<1>6. CASE Answer
  <2>1. PICK answer \in {"live", "unknown"} :
           /\ inbox' = Append(inbox, EngineCommand("resolve", handler.run, handler.node, answer))
           /\ handler.at = "await"
    BY <1>6 DEF Answer
  <2>2. PICK r \in Runs, n \in Nodes :
           r = handler.run /\ n = handler.node /\ Exists(r) /\ Sent(r, n)
    BY <2>1 DEF TypeInv, TypeOK, Located, Handlers, Idle, SentInv
  <2>3. EngineCommand("resolve", r, n, answer) \in Fine
    BY <2>2 DEF EngineCommand, Command, Fine, Message, EngineMessage, EngineIds
  <2> QED BY <1>1, <2>1, <2>2, <2>3
<1>7. CASE \E r \in Runs, n \in Nodes : TimerFires(r, n)
  <2>1. PICK r \in Runs, n \in Nodes : inbox' = inbox \o TimerDue(r, n)
    BY <1>7 DEF TimerFires
  <2> QED BY <1>1, <2>1, FineMessages
<1>8. CASE Outside
  <2>1. CASE \E t \in Triggers, awaited \in Awaited : SendTrigger(t, awaited)
    <3>1. PICK t \in Triggers : \E awaited : inbox' = Append(inbox, Start(t, ~ awaited))
      BY <2>1 DEF SendTrigger
    <3>2. \A awaited : Start(t, ~ awaited) \in Fine
      BY FineMessages
    <3> QED BY <1>1, <3>1, <3>2
  <2>2. CASE \E kind \in Offered, c \in Commands, r \in Runs, n \in Nodes, awaited \in Awaited :
                SendCommand(kind, c, r, n, awaited)
    <3>1. PICK m : inbox' = Append(inbox, m) /\ m.kind \in Offered
      BY <2>2 DEF SendCommand, Command
    <3>2. m \in Message
      <4>1. inbox' \in Seq(Message) /\ inbox \in Seq(Message)
        BY NextType DEF TypeInv, TypeOK
      <4>2. Len(inbox) + 1 \in DOMAIN inbox' /\ inbox'[Len(inbox) + 1] = m
        BY <3>1, <4>1
      <4> QED BY <4>1, <4>2
    <3>3. m \in Fine
      BY <3>1, <3>2, CoordinatorAssumption DEF Fine
    <3> QED BY <1>1, <3>1, <3>3
  <2>3. CASE (\E t \in Triggers : TtlPasses(t)) \/ Crash
    <3>1. inbox' = inbox \/ inbox' = <<>>
      BY <2>3 DEF TtlPasses, Crash, GoDown, volatile
    <3> QED BY <1>1, <1>0, <3>1, Zenon
  <2> QED BY <1>8, <2>1, <2>2, <2>3 DEF Outside
<1>9. CASE RecoverSome
  <2>1. PICK due : Recover(due)
    BY <1>9 DEF RecoverSome
  <2>2. MarkLost \in Seq(Fine)
    <3> SUFFICES ASSUME NEW e \in LostDispatches, Open(e[1])
                 PROVE  EngineCommand("unknown", e[1], e[2], "unknown") \in Fine
      BY MarkLostOver
    <3>1. PICK r \in Runs, n \in Nodes : e[1] = r /\ e[2] = n /\ outbox[r][n] = "dispatchStarted"
      BY DEF LostDispatches
    <3>2. Exists(r) /\ Sent(r, n)
      BY <3>1 DEF OutboxAgrees, Open, Sent, Uncalled
    <3>3. EngineCommand("unknown", r, n, "unknown") \in Fine
      BY <3>2 DEF EngineCommand, Command, Fine, Message, EngineMessage, EngineIds
    <3> QED BY <3>1, <3>3
  <2>3. \A r \in Runs : Resumed(r, due) \in Seq(Fine)
    BY FineMessages, ResumedOver
  <2> QED BY <1>1, <2>1, <2>2, <2>3, RecoverOver
<1>10. CASE BeginStart \/ Execute \/ Die \/ UNCHANGED vars
  <2>1. inbox' = inbox \/ inbox' = <<>>
    BY <1>10 DEF BeginStart, Execute, Die, GoDown, vars, volatile
  <2> QED BY <1>1, <1>0, <2>1, Zenon
<1> QED BY <1>3, <1>4, <1>5, <1>6, <1>7, <1>8, <1>9, <1>10 DEF Next, Handle

LEMMA PendingFine ==
  ASSUME TypeInv, SentInv, [Next]_vars
  PROVE  pending' \in Seq(Fine)
<1>1. pending \in Seq(Fine)
  BY DEF SentInv
<1>2. CASE DropPending \/ RepeatCoreCommand
  BY <1>1, <1>2, WithoutPendingOver DEF DropPending, RepeatCoreCommand
<1>3. CASE Answer
  <2>1. PICK answer \in {"live", "unknown"} :
           /\ \/ UNCHANGED pending
              \/ pending' = Append(pending, EngineCommand("resolve", handler.run, handler.node, answer))
           /\ handler.at = "await"
    BY <1>3 DEF Answer
  <2>2. PICK r \in Runs, n \in Nodes :
           r = handler.run /\ n = handler.node /\ Exists(r) /\ Sent(r, n)
    BY <2>1 DEF TypeInv, TypeOK, Located, Handlers, Idle, SentInv
  <2>3. EngineCommand("resolve", r, n, answer) \in Fine
    BY <2>2 DEF EngineCommand, Command, Fine, Message, EngineMessage, EngineIds
  <2> QED BY <1>1, <2>1, <2>2, <2>3
<1>4. CASE ~ DropPending /\ ~ RepeatCoreCommand /\ ~ Answer
  <2>1. UNCHANGED pending
    BY <1>4 DEF Next, Handle, AnswerDuplicate, RefuseTrigger, QueueTrigger, AcceptTrigger,
       BeginStart, MarkStarted, HandleCommand, RepeatCommand, RefuseCommand, SkipDispatch,
       StartDispatch, Execute, HandleCoreCommand, RefuseCoreCommand, TimerFires, Die,
       RecoverSome, Recover, Outside, SendTrigger, SendCommand, TtlPasses, Crash, GoDown,
       Discard, Refuse, stored, vars
  <2> QED BY <1>1, <2>1
<1> QED BY <1>2, <1>3, <1>4

\* While an adapter call is prepared or awaited no run changes.
LEMMA CallInHand ==
  ASSUME TypeInv, [Next]_vars, handler'.at \in {"execute", "await"}
  PROVE  StartDispatch \/ (UNCHANGED run /\ (UNCHANGED handler \/ Execute))
<1>1. CASE Elsewhere
  <2>1. UNCHANGED run
    BY <1>1, ElsewhereRuns
  <2>2. UNCHANGED handler \/ Execute
    <3>1. RecoverSome => UNCHANGED handler
      BY DEF RecoverSome, Recover
    <3>2. handler' # Idle /\ handler'.at # "begin"
      BY DEF Idle
    <3> QED BY <1>1, <3>1, <3>2, ElsewhereCalls
  <2> QED BY <2>1, <2>2
<1>2. CASE BeginStart \/ HandleCommand \/ HandleCoreCommand
  <2>1. HandleCommand => handler' = Idle
    BY DEF HandleCommand, Taking
  <2> QED BY <1>2, <2>1 DEF BeginStart, HandleCoreCommand, Idle
<1> QED BY <1>1, <1>2, NextCases

LEMMA SentStep == TypeInv /\ OutboxAgrees /\ SentInv /\ [Next]_vars => SentInv'
<1> SUFFICES ASSUME TypeInv, OutboxAgrees, SentInv, [Next]_vars PROVE SentInv'
  OBVIOUS
<1>1. inbox' \in Seq(Fine') /\ pending' \in Seq(Fine')
  BY InboxFine, PendingFine, FineStays
<1>2. ASSUME handler'.at = "execute"
      PROVE  run'[handler'.run].snap.eff[handler'.node] = "dispatchStarted"
  <2>1. CASE StartDispatch
    <3>1. PICK m \in Known :
             /\ m = Head(inbox) /\ m.run \in Runs /\ m.node \in Nodes /\ Exists(m.run)
             /\ run'[m.run].snap \in DispatchOutcomes(run[m.run].snap, m.node)
      BY <2>1, DispatchCommit
    <3>2. /\ handler'.run = m.run /\ handler'.node = m.node
          /\ outbox[m.run][m.node] = "requested"
      BY <2>1, <3>1 DEF StartDispatch
    <3>3. run[m.run].snap.eff[m.node] = "requested" /\ WellFormed(run[m.run].snap)
      BY <3>1, <3>2 DEF OutboxAgrees, TypeInv, RowsWellFormed
    <3> QED BY <3>1, <3>2, <3>3, DispatchMoves
  <2>2. CASE ~ StartDispatch
    <3>1. ~ Execute
      <4>1. Execute => handler'.at = "await"
        BY DEF Execute, TypeInv, TypeOK, Handlers, Idle
      <4> QED BY <1>2, <4>1
    <3> QED BY <1>2, <2>2, <3>1, CallInHand DEF SentInv
  <2> QED BY <2>1, <2>2
<1>3. ASSUME handler'.at = "await" PROVE Sent(handler.run, handler.node)'
  <2>1. ~ StartDispatch
    BY <1>3 DEF StartDispatch
  <2>2. CASE Execute
    <3>1. PICK r \in Runs, n \in Nodes : handler = [at |-> "execute", run |-> r, node |-> n]
      BY <2>2 DEF Execute, TypeInv, TypeOK, Handlers, Idle
    <3>2. handler'.run = r /\ handler'.node = n /\ UNCHANGED run
      BY <2>2, <3>1 DEF Execute, stored
    <3> QED BY <3>1, <3>2 DEF SentInv, Sent, Uncalled
  <2>3. CASE ~ Execute
    BY <1>3, <2>1, <2>3, CallInHand DEF SentInv, Sent
  <2> QED BY <2>2, <2>3
<1> QED BY <1>1, <1>2, <1>3 DEF SentInv

LEMMA SentInvariant == Spec => []SentInv
<1>1. Init => SentInv
  BY DEF Init, SentInv, Idle
<1> QED BY <1>1, SentStep, TypeInvariant, OutboxFollowsRun, PTL DEF Spec

\* The stored phase of an effect, as Delivery has it, and its calls.
EffPhase(x) ==
    CASE x = "none" -> "absent"
      [] x = "requested" -> "asked"
      [] x = "dispatchStarted" -> "sent"
      [] x = "unknown" -> "lost"
      [] OTHER -> "settled"

PhaseAt(r, n) == IF ~Exists(r) THEN "absent" ELSE EffPhase(run[r].snap.eff[n])

Phase == [e \in Runs \X Nodes |->
            IF ~Exists(e[1]) THEN "absent"
            ELSE CASE run[e[1]].snap.eff[e[2]] = "none" -> "absent"
                   [] run[e[1]].snap.eff[e[2]] = "requested" -> "asked"
                   [] run[e[1]].snap.eff[e[2]] = "dispatchStarted" -> "sent"
                   [] run[e[1]].snap.eff[e[2]] = "unknown" -> "lost"
                   [] OTHER -> "settled"]

Made == [e \in Runs \X Nodes |-> calls[e[1]][e[2]]]

LEMMA PhaseIs ==
  /\ Phase = [e \in Runs \X Nodes |-> PhaseAt(e[1], e[2])]
  /\ Phase' = [e \in Runs \X Nodes |-> PhaseAt(e[1], e[2])']
BY DEF Phase, PhaseAt, EffPhase, Exists

\* A function on pairs that changes at one of them.
DifferAtPair(A, B, f, g, a, b) ==
    /\ a \in A /\ b \in B
    /\ f = [e \in A \X B |-> f[e]] /\ g = [e \in A \X B |-> g[e]]
    /\ \A q \in A, k \in B : q # a \/ k # b => g[<<q, k>>] = f[<<q, k>>]

LEMMA ChangedAtPair ==
  ASSUME NEW A, NEW B, NEW f, NEW g, NEW a, NEW b, DifferAtPair(A, B, f, g, a, b)
  PROVE  g = [f EXCEPT ![<<a, b>>] = g[<<a, b>>]]
<1>1. \A q \in A, k \in B : q # a \/ k # b => g[<<q, k>>] = f[<<q, k>>]
  BY DEF DifferAtPair
<1>2. ASSUME NEW e \in A \X B, e # <<a, b>> PROVE g[e] = f[e]
  <2>1. PICK q \in A, k \in B : e = <<q, k>>
    OBVIOUS
  <2>2. q # a \/ k # b
    BY <1>2, <2>1
  <2> QED BY <1>1, <2>1, <2>2
<1>3. <<a, b>> \in A \X B
  BY DEF DifferAtPair
<1>4. f = [e \in A \X B |-> f[e]] /\ g = [e \in A \X B |-> g[e]]
  BY DEF DifferAtPair
<1>5. PICK x : x = <<a, b>>
  OBVIOUS
<1>6. g = [f EXCEPT ![x] = g[x]]
  BY <1>2, <1>3, <1>4, <1>5
<1> QED BY <1>5, <1>6

\* The steps of Delivery in terms of its mapped variables.
LEMMA DeliverySteps ==
  ASSUME NEW e \in Runs \X Nodes
  PROVE  /\ Phase[e] = "absent" /\ Phase' = [Phase EXCEPT ![e] = "asked"] /\ UNCHANGED Made
              => Delivery!Ask(e)
         /\ Phase[e] = "asked" /\ Phase' = [Phase EXCEPT ![e] = "sent"] /\ UNCHANGED Made
              => Delivery!Send(e)
         /\ Phase[e] = "sent" /\ Phase' = [Phase EXCEPT ![e] = "lost"] /\ UNCHANGED Made
              => Delivery!Lose(e)
         /\ Phase[e] \in {"asked", "sent", "lost"} /\ Phase' = [Phase EXCEPT ![e] = "settled"]
              /\ UNCHANGED Made => Delivery!Settle(e)
         /\ Phase[e] = "sent" /\ Made[e] = 0 /\ Made' = [Made EXCEPT ![e] = 1] /\ UNCHANGED Phase
              => Delivery!Call(e)
BY DEF Phase, Made, Delivery!Ask, Delivery!Send, Delivery!Lose, Delivery!Settle, Delivery!Call

\* An effect that moves on takes a step of Delivery.
LEMMA MoveDelivers ==
  ASSUME NEW r \in Runs, NEW n \in Nodes, Exists(r), Exists(r)', UNCHANGED Made,
         MovesOn(run[r].snap.eff[n], run'[r].snap.eff[n]),
         Phase' = [Phase EXCEPT ![<<r, n>>] = PhaseAt(r, n)']
  PROVE  Delivery!Next
<1> DEFINE e == <<r, n>>
<1>1. PICK a, b : a = run[r].snap.eff[n] /\ b = run'[r].snap.eff[n]
  OBVIOUS
<1>2. e \in Runs \X Nodes /\ Phase[e] = EffPhase(a) /\ PhaseAt(r, n)' = EffPhase(b)
  BY <1>1, PhaseIs DEF PhaseAt
<1>3. MovesOn(a, b)
  BY <1>1
<1>4. \/ EffPhase(a) = "absent" /\ EffPhase(b) = "asked"
      \/ EffPhase(a) = "asked" /\ EffPhase(b) = "sent"
      \/ EffPhase(a) = "sent" /\ EffPhase(b) = "lost"
      \/ EffPhase(a) \in {"asked", "sent", "lost"} /\ EffPhase(b) = "settled"
  BY <1>3 DEF MovesOn, EffPhase, Settlers
<1>5. Phase' = [Phase EXCEPT ![e] = EffPhase(b)]
  BY <1>2
<1> HIDE DEF e
<1>6. Delivery!Ask(e) \/ Delivery!Send(e) \/ Delivery!Lose(e) \/ Delivery!Settle(e)
  BY <1>2, <1>4, <1>5, DeliverySteps
<1> QED BY <1>2, <1>6 DEF Delivery!Next

LEMMA DeliveryStep ==
  ASSUME TypeInv, CallsInv, SentInv, [Next]_vars
  PROVE  [Delivery!Next]_<<Phase, Made>>
<1>1. CASE HandleCommand \/ HandleCoreCommand \/ StartDispatch
  <2>1. PICK r \in Runs :
           /\ Exists(r) /\ Exists(r)' /\ run' = [run EXCEPT ![r] = run'[r]]
           /\ OneMoves(run[r].snap, run'[r].snap)
    BY <1>1, CommitMoves
  <2>2. UNCHANGED Made
    BY <1>1 DEF HandleCommand, HandleCoreCommand, StartDispatch, history, Made
  <2>3. \A q \in Runs : q # r => run'[q] = run[q]
    BY <2>1 DEF TypeInv, TypeOK
  <2>4. \A q \in Runs, n \in Nodes : q # r => PhaseAt(q, n)' = PhaseAt(q, n)
    BY <2>3 DEF PhaseAt, Exists
  <2>5. CASE run'[r].snap.eff = run[r].snap.eff
    <3>1. \A n \in Nodes : PhaseAt(r, n)' = PhaseAt(r, n)
      BY <2>1, <2>5 DEF PhaseAt
    <3>2. UNCHANGED Phase
      BY <2>4, <3>1, PhaseIs
    <3> QED BY <2>2, <3>2
  <2>6. CASE run'[r].snap.eff # run[r].snap.eff
    <3>1. PICK n \in Nodes :
             /\ MovesOn(run[r].snap.eff[n], run'[r].snap.eff[n])
             /\ run'[r].snap.eff = [run[r].snap.eff EXCEPT ![n] = run'[r].snap.eff[n]]
      BY <2>1, <2>6 DEF OneMoves
    <3>2. \A k \in Nodes : k # n => run'[r].snap.eff[k] = run[r].snap.eff[k]
      BY <2>1, <3>1 DEF TypeInv, RowsWellFormed, WellFormed, Snapshots
    <3>3. \A k \in Nodes : k # n => PhaseAt(r, k)' = PhaseAt(r, k)
      BY <2>1, <3>2 DEF PhaseAt
    <3>4. Phase' = [Phase EXCEPT ![<<r, n>>] = PhaseAt(r, n)']
      <4>1. /\ Phase = [e \in Runs \X Nodes |-> Phase[e]]
            /\ Phase' = [e \in Runs \X Nodes |-> Phase'[e]]
        BY PhaseIs
      <4>2. \A q \in Runs, k \in Nodes :
               Phase[<<q, k>>] = PhaseAt(q, k) /\ Phase'[<<q, k>>] = PhaseAt(q, k)'
        BY PhaseIs
      <4>3. \A q \in Runs, k \in Nodes : q # r \/ k # n => Phase'[<<q, k>>] = Phase[<<q, k>>]
        BY <2>4, <3>3, <4>2
      <4>4. Phase' = [Phase EXCEPT ![<<r, n>>] = Phase'[<<r, n>>]]
        <5>1. DifferAtPair(Runs, Nodes, Phase, Phase', r, n)
          BY <4>1, <4>3 DEF DifferAtPair
        <5> QED BY <5>1, ChangedAtPair
      <4> QED BY <4>2, <4>4
    <3> QED BY <2>1, <2>2, <3>1, <3>4, MoveDelivers
  <2> QED BY <2>5, <2>6
<1>2. CASE BeginStart
  <2>1. PICK r \in Runs :
           /\ ~ Exists(r) /\ run'[r].snap = StartSnap
           /\ \A q \in Runs : q # r => run'[q] = run[q]
    BY <1>2, BeginStartRuns
  <2>2. \A n \in Nodes : PhaseAt(r, n)' = PhaseAt(r, n)
    BY <2>1, StartSnapType DEF PhaseAt, EffPhase
  <2>3. \A q \in Runs, n \in Nodes : PhaseAt(q, n)' = PhaseAt(q, n)
    BY <2>1, <2>2 DEF PhaseAt, Exists
  <2>4. UNCHANGED Phase
    BY <2>3, PhaseIs
  <2>5. UNCHANGED Made
    BY <1>2 DEF BeginStart, history, Made
  <2> QED BY <2>4, <2>5
<1>3. CASE Execute
  <2>1. PICK r \in Runs, n \in Nodes : handler = [at |-> "execute", run |-> r, node |-> n]
    BY <1>3 DEF Execute, TypeInv, TypeOK, Handlers, Idle
  <2>2. /\ calls' = [calls EXCEPT ![r][n] = @ + 1] /\ UNCHANGED run
        /\ calls \in [Runs -> [Nodes -> Nat]] /\ calls[r][n] = 0
    BY <1>3, <2>1 DEF Execute, stored, TypeInv, TypeOK, CallsInv
  <2>3. Made[<<r, n>>] = 0 /\ Made' = [Made EXCEPT ![<<r, n>>] = 1]
    <3>1. calls'[r][n] = 1 /\ \A q \in Runs, k \in Nodes : q # r \/ k # n => calls'[q][k] = calls[q][k]
      BY <2>2
    <3>2. /\ Made = [e \in Runs \X Nodes |-> Made[e]]
          /\ Made' = [e \in Runs \X Nodes |-> Made'[e]]
      BY DEF Made
    <3>3. \A q \in Runs, k \in Nodes :
             Made[<<q, k>>] = calls[q][k] /\ Made'[<<q, k>>] = calls'[q][k]
      BY DEF Made
    <3>4. \A q \in Runs, k \in Nodes : q # r \/ k # n => Made'[<<q, k>>] = Made[<<q, k>>]
      BY <3>1, <3>3
    <3>5. Made' = [Made EXCEPT ![<<r, n>>] = Made'[<<r, n>>]]
      <4>1. DifferAtPair(Runs, Nodes, Made, Made', r, n)
        BY <2>1, <3>2, <3>4 DEF DifferAtPair
      <4> QED BY <4>1, ChangedAtPair
    <3>6. Made[<<r, n>>] = calls[r][n] /\ Made'[<<r, n>>] = calls'[r][n]
      BY <2>1, <3>3
    <3>7. Made[<<r, n>>] = 0 /\ Made'[<<r, n>>] = 1
      BY <2>2, <3>1, <3>6
    <3> QED BY <3>5, <3>7
  <2>4. Phase[<<r, n>>] = "sent"
    <3>1. run[r].snap.eff[n] = "dispatchStarted"
      BY <2>1 DEF SentInv
    <3>2. Exists(r)
      BY <2>1 DEF CallsInv, OutboxAgrees, Uncalled
    <3> QED BY <3>1, <3>2, PhaseIs DEF PhaseAt, EffPhase
  <2>5. UNCHANGED Phase
    BY <2>2 DEF Phase, Exists
  <2>6. Delivery!Call(<<r, n>>)
    BY <2>3, <2>4, <2>5, DeliverySteps
  <2> QED BY <2>6 DEF Delivery!Next
<1>4. CASE Elsewhere /\ ~ Execute
  <2>1. UNCHANGED <<run, calls>>
    BY <1>4, ElsewhereCalls, ElsewhereRuns DEF RecoverSome, Recover, history
  <2> QED BY <2>1 DEF Phase, Made, Exists
<1> QED BY <1>1, <1>2, <1>3, <1>4, NextCases

\* The host implements EffectDelivery: the world is asked at most once for an
\* effect, after the intent was stored, and what is lost or settled stays so.
THEOREM DeliveryRefined == Spec => DeliversOnce
<1>1. Init => Delivery!Init
  BY DEF Init, Delivery!Init, Exists
<1> QED BY <1>1, DeliveryStep, TypeInvariant, CallsInvariant, SentInvariant, PTL
     DEF Spec, DeliversOnce, Delivery!Spec, Phase, Made

-----------------------------------------------------------------------------
(* The refinement of FlowLease.  The start of a run acquires its flow, the  *)
(* commit that ends a run releases it, and nothing else touches either.     *)

Holder == [f \in Flows |-> IF HoldingRuns(f) = {} THEN NoRun
                           ELSE CHOOSE r \in HoldingRuns(f) : TRUE]
Retired == {r \in Runs : Exists(r) /\ ~Open(r)}

\* The steps of Lease in terms of its mapped variables.
LEMMA LeaseSteps ==
  ASSUME NEW f \in Flows, NEW r \in Runs
  PROVE  /\ Holder[f] = NoRun /\ r \notin Retired /\ (\A g \in Flows : Holder[g] # r)
              /\ Holder' = [Holder EXCEPT ![f] = r] /\ UNCHANGED Retired
              => Lease!Next
         /\ Holder[f] = r /\ r # NoRun /\ Holder' = [Holder EXCEPT ![f] = NoRun]
              /\ Retired' = Retired \cup {r}
              => Lease!Next
<1>1. Holder[f] = NoRun /\ r \notin Retired /\ (\A g \in Flows : Holder[g] # r)
        /\ Holder' = [Holder EXCEPT ![f] = r] /\ UNCHANGED Retired
        => Lease!Acquire(f, r)
  BY DEF Holder, Retired, Lease!Acquire
<1>2. Holder[f] = r /\ r # NoRun /\ Holder' = [Holder EXCEPT ![f] = NoRun]
        /\ Retired' = Retired \cup {r}
        => Lease!Release(f)
  <2>1. Holder[f] # NoRun /\ Holder' = [Holder EXCEPT ![f] = NoRun]
          /\ Retired' = Retired \cup {Holder[f]} => Lease!Release(f)
    BY DEF Holder, Retired, Lease!Release
  <2> QED BY <2>1
<1> QED BY <1>1, <1>2 DEF Lease!Next

LEMMA ChooseOnly ==
  ASSUME NEW S, NEW r \in S, \A q \in S : q = r
  PROVE  S # {} /\ (CHOOSE q \in S : TRUE) = r
<1>1. (CHOOSE q \in S : TRUE) \in S
  OBVIOUS
<1> QED BY <1>1

\* The holder of a flow is the run that holds it.
LEMMA HolderIs ==
  ASSUME HoldingUnique
  PROVE  /\ \A f \in Flows : HoldingRuns(f) = {} => Holder[f] = NoRun
         /\ \A f \in Flows, r \in Runs : Open(r) /\ run[r].flow = f => Holder[f] = r
         /\ \A f \in Flows, r \in Runs : Holder[f] = r => Open(r)
<1>1. \A f \in Flows : HoldingRuns(f) = {} => Holder[f] = NoRun
  BY DEF Holder
<1>2. ASSUME NEW f \in Flows, NEW r \in Runs, Open(r), run[r].flow = f PROVE Holder[f] = r
  <2>1. r \in HoldingRuns(f) /\ \A q \in HoldingRuns(f) : q = r
    BY <1>2 DEF HoldingRuns, HoldingUnique
  <2> QED BY <2>1, ChooseOnly DEF Holder
<1>3. ASSUME NEW f \in Flows, NEW r \in Runs, Holder[f] = r PROVE Open(r)
  <2>1. HoldingRuns(f) # {}
    BY <1>1, <1>3, CoordinatorAssumption
  <2>2. PICK q \in Runs : Open(q) /\ run[q].flow = f
    BY <2>1 DEF HoldingRuns
  <2> QED BY <1>2, <1>3, <2>2
<1> QED BY <1>1, <1>2, <1>3

\* Who holds a flow follows from which runs are open, and for which flow.
LEMMA HolderSame ==
  ASSUME NEW f \in Flows,
         \A r \in Runs : Open(r)' /\ run'[r].flow = f <=> Open(r) /\ run[r].flow = f
  PROVE  Holder'[f] = Holder[f]
<1>1. HoldingRuns(f)' = HoldingRuns(f)
  BY DEF HoldingRuns
<1> QED BY <1>1 DEF Holder

LEMMA LeaseRefinedStep ==
  ASSUME TypeInv, LeaseInv, LeaseInv', [Next]_vars
  PROVE  [Lease!Next]_<<Holder, Retired>>
<1>0. /\ HoldingUnique /\ HoldingUnique'
      /\ Holder = [f \in Flows |-> Holder[f]] /\ Holder' = [f \in Flows |-> Holder'[f]]
  BY DEF LeaseInv, Holder
<1>1. CASE BeginStart
  <2>1. PICK r \in Runs, t \in Triggers :
           /\ ~ Exists(r) /\ Exists(r)' /\ t = handler.trigger
           /\ run'[r].flow = FlowOf[t] /\ run'[r].snap = StartSnap
           /\ \A q \in Runs : q # r => run'[q] = run[q]
    BY <1>1, BeginStartRuns
  <2>2. PICK f \in Flows : f = FlowOf[t]
    BY CoordinatorAssumption
  <2>3. HoldingRuns(f) = {}
    BY <1>1, <2>1, <2>2 DEF LeaseInv, BeginStart
  <2>4. Open(r)' /\ ~ Open(r)
    BY <2>1, StartSnapType, NodesAssumption DEF Open, Terminal, StartSnap
  <2>5. \A q \in Runs : q # r => (Open(q)' <=> Open(q)) /\ (Exists(q)' <=> Exists(q))
    BY <2>1 DEF Open, Exists
  <2>6. Holder[f] = NoRun /\ (\A g \in Flows : Holder[g] # r) /\ r \notin Retired
    BY <1>0, <2>1, <2>3, <2>4, HolderIs DEF Retired
  <2>7. Holder'[f] = r
    <3>1. r \in HoldingRuns(f)' /\ \A q \in HoldingRuns(f)' : q = r
      BY <1>0, <2>1, <2>2, <2>4 DEF HoldingRuns, HoldingUnique
    <3> QED BY <3>1, ChooseOnly DEF Holder
  <2>8. ASSUME NEW g \in Flows, g # f PROVE Holder'[g] = Holder[g]
    BY <2>1, <2>2, <2>4, <2>5, <2>8, HolderSame
  <2>9. Holder' = [Holder EXCEPT ![f] = r]
    BY <1>0, <2>7, <2>8
  <2>10. UNCHANGED Retired
    BY <2>1, <2>4, <2>5 DEF Retired
  <2> QED BY <2>6, <2>9, <2>10, LeaseSteps
<1>2. CASE ~ BeginStart /\ \A r \in Runs : Open(r)' <=> Open(r)
  <2>1. Advances
    BY <1>2, StepAdvances
  <2>2. \A f \in Flows : Holder'[f] = Holder[f]
    <3> SUFFICES ASSUME NEW f \in Flows PROVE Holder'[f] = Holder[f]
      OBVIOUS
    <3>1. \A r \in Runs : Open(r)' /\ run'[r].flow = f <=> Open(r) /\ run[r].flow = f
      BY <1>2, <2>1 DEF Advances, Open
    <3> QED BY <3>1, HolderSame
  <2>3. UNCHANGED Holder
    BY <1>0, <2>2
  <2>4. UNCHANGED Retired
    BY <1>2, <2>1 DEF Retired, Advances
  <2> QED BY <2>3, <2>4
<1>3. CASE ~ BeginStart /\ \E r \in Runs : ~ (Open(r)' <=> Open(r))
  <2>1. Advances
    BY <1>3, StepAdvances
  <2>2. PICK r \in Runs : Open(r) /\ ~ Open(r)'
    BY <1>3, <2>1 DEF Advances, Allowed, Open
  <2>3. PICK f \in Flows : f = run[r].flow /\ f = run'[r].flow
    BY <2>1, <2>2 DEF Advances, Open, Exists, TypeInv, TypeOK, RunRow
  <2>4. \A q \in Runs : q # r => run'[q] = run[q]
    <3>1. ~ Elsewhere
      BY <2>2, ElsewhereRuns DEF Open, Exists
    <3>2. PICK m, row : Commit(m, row)
      BY <1>3, <3>1, NextCases, Commits
    <3>3. \A q \in Runs : q # m.run => run'[q] = run[q]
      BY <3>2 DEF Commit, TypeInv, TypeOK
    <3>4. r = m.run
      BY <2>2, <3>3 DEF Open, Exists
    <3> QED BY <3>3, <3>4
  <2>5. \A q \in Runs : q # r => (Open(q)' <=> Open(q)) /\ (Exists(q)' <=> Exists(q))
    BY <2>4 DEF Open, Exists
  <2>6. Holder[f] = r /\ r # NoRun
    BY <1>0, <2>2, <2>3, HolderIs, CoordinatorAssumption
  <2>7. Holder'[f] = NoRun
    <3>1. HoldingRuns(f)' = {}
      BY <1>0, <2>2, <2>3, <2>4, <2>5 DEF HoldingRuns, HoldingUnique
    <3> QED BY <3>1 DEF Holder
  <2>8. ASSUME NEW g \in Flows, g # f PROVE Holder'[g] = Holder[g]
    BY <2>2, <2>3, <2>4, <2>5, <2>8, HolderSame
  <2>9. Holder' = [Holder EXCEPT ![f] = NoRun]
    BY <1>0, <2>7, <2>8
  <2>10. Retired' = Retired \cup {r}
    BY <2>1, <2>2, <2>5 DEF Retired, Advances, Open
  <2> QED BY <2>6, <2>9, <2>10, LeaseSteps
<1> QED BY <1>1, <1>2, <1>3

\* The host implements FlowLease: a flow passes from one run to the next and no
\* run that gave it up has it again.
THEOREM LeaseRefined == Spec => LeaseKept
<1>1. Init => Lease!Init
  BY DEF Init, Lease!Init, HoldingRuns, Open, Exists
<1>2. Init => LeaseInv
  BY DEF Init, LeaseInv, HoldingUnique, Open, Exists, Idle
<1> QED BY <1>1, <1>2, LeaseStep, LeaseRefinedStep, TypeInvariant, PTL
     DEF Spec, LeaseKept, Lease!Spec, Holder, Retired
=============================================================================
