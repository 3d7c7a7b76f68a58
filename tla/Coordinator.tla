---------------------------- MODULE Coordinator ----------------------------
(***************************************************************************)
(* The runtime host of apps/runtime/src/coordinator: one inbox, one        *)
(* message handled at a time, every transition of a live run stored in     *)
(* SQLite before anything is scheduled, and a recovery that rebuilds the   *)
(* inbox from the database after the process died.                         *)
(*                                                                         *)
(* Handlers are synchronous JavaScript except for the adapter call, so     *)
(* triggers, commands and timers reach the inbox only when it has run dry  *)
(* or while an adapter call is awaited (Quiet).  A handler that writes the *)
(* database in several transactions is several steps here, one for each    *)
(* write, because the process may die between them.                        *)
(*                                                                         *)
(* Dry runs are not in this module: every run is a live run.               *)
(***************************************************************************)
EXTENDS RunContract, FiniteSets, Sequences, SequencesExt

CONSTANTS
    Flows,          \* flows with an active deployment
    Triggers,       \* trigger ids; every sender mints a fresh one
    Runs,           \* run ids, minted by beginStart
    Commands,       \* command ids chosen by users
    FlowOf,         \* the flow a trigger starts
    KeyOf,          \* its idempotency key
    ModeOf,         \* its progression mode, "auto" or "manual"
    QueueLimit,     \* QUEUE_LIMIT
    MayExpire,      \* bound: the triggers whose TTL may pass while queued
    Offered,        \* bound: the kinds of command users send
    Awaited,        \* bound: which senders await the outcome: a set of BOOLEANs
    MaxCommands,    \* bound: commands that reach the inbox
    MaxCrashes,     \* bound: crashes of the process
    NoRun,
    NoCommand

ASSUME CoordinatorAssumption ==
    /\ FlowOf \in [Triggers -> Flows]
    /\ ModeOf \in [Triggers -> {"auto", "manual"}]
    /\ QueueLimit \in Nat /\ MaxCommands \in Nat /\ MaxCrashes \in Nat
    /\ NoRun \notin Runs /\ NoCommand \notin Commands
    /\ Offered \subseteq {"step", "continue", "pause", "resume", "cancel", "fixture"}
    /\ IsFiniteSet(Runs) /\ IsFiniteSet(Nodes)

VARIABLES
    trigger,    \* trigger_inbox: status and run of each row
    order,      \* the rows of trigger_inbox in created_at order
    overdue,    \* rows whose expires_at is in the past
    run,        \* run_snapshots, with the commands the kernel has applied
    outbox,     \* effect_outbox: the status of each effect
    pending,    \* pending_inbox, in created_at order
    commands,   \* runtime_commands: the ids and payloads recorded
    proc,       \* "up", "fatal" (an unhandled rejection is pending) or "down"
    inbox,      \* the queue of inbox.ts
    handler,    \* how far the message in hand has got
    armed,      \* the timers of timer/scheduler.ts
    arrivals,   \* triggers sent, and the number of commands sent
    crashes,    \* crashes so far
    calls,      \* history: adapter calls made for each effect
    applies     \* history: the users' commands applied, in order

stored == <<trigger, order, overdue, run, outbox, pending, commands>>
volatile == <<proc, inbox, handler, armed>>
history == <<arrivals, crashes, calls, applies>>
vars == <<stored, volatile, history>>

-----------------------------------------------------------------------------
(* Messages and rows.                                                      *)

Row == [status : {"absent", "queued", "expired"}, run : {NoRun}]
         \cup [status : {"started"}, run : Runs]

UserKinds == {"step", "continue", "pause", "resume", "cancel", "fixture"}
EngineIds == {"resolve", "unknown", "timer", "clock"} \X Runs \X Nodes

\* What runtime_commands keeps of a message.
CommandRow ==
    [id : Commands, payload : UserKinds \X Runs \X Nodes \X {"none", "fixture"}]
      \cup [id : EngineIds,
            payload : {"core_command"} \X Runs \X Nodes \X {"live", "unknown"}]

\* The trigger of a run is not stored by the host; properties speak of it.
RunRow == [flow : Flows, trigger : Triggers, mode : {"auto", "manual"},
           snap : Snapshots, applied : SUBSET CommandRow]

ASSUME NoRunAssumption == NoRun \notin RunRow

StartMessage == [kind : {"start_run"}, trigger : Triggers, void : BOOLEAN]
EngineMessage ==
    [kind : {"core_command"}, id : EngineIds, run : Runs, node : Nodes,
     answer : {"live", "unknown", "clock"}, void : {TRUE}]
Message ==
    StartMessage \cup EngineMessage
      \cup [kind : UserKinds, id : Commands \cup {NoCommand}, run : Runs,
            node : Nodes, answer : {"none", "fixture"}, void : BOOLEAN]
      \cup [kind : {"dispatch"}, id : {NoCommand}, run : Runs, node : Nodes,
            answer : {"none"}, void : {TRUE}]

\* A void message is one nobody awaits: a throw in its handler is an
\* unhandled rejection, and Node ends the process.
Start(t, void) == [kind |-> "start_run", trigger |-> t, void |-> void]

Command(kind, id, r, n, answer, void) ==
    [kind |-> kind, id |-> id, run |-> r, node |-> n, answer |-> answer,
     void |-> void]

HostStep(r) == Command("step", NoCommand, r, Entry, "none", TRUE)
Dispatch(r, n) == Command("dispatch", NoCommand, r, n, "none", TRUE)

\* The commands the host gives its engine: resolve:<e>, unknown:<e>,
\* timer:<e> and clock:<e>:<time>.
EngineCommand(tag, r, n, answer) ==
    Command("core_command", <<tag, r, n>>, r, n, answer, TRUE)

TimerDue(r, n) ==
    <<EngineCommand("clock", r, n, "clock"), EngineCommand("timer", r, n, "live")>>

Payload(m) == <<m.kind, m.run, m.node, m.answer>>
Recorded(m) == [id |-> m.id, payload |-> Payload(m)]

Decision(m) ==
    IF m.id = NoCommand \/ \A c \in commands : c.id # m.id THEN "fresh"
    ELSE IF Recorded(m) \in commands THEN "duplicate" ELSE "conflict"

-----------------------------------------------------------------------------
(* Reading the store.                                                      *)

Exists(r) == run[r] # NoRun
Open(r) == Exists(r) /\ ~Terminal(run[r].snap)
\* Mutant: a run that waits for an answer does not hold its flow.
HoldingRunsBusy(f) ==
    {r \in Runs : Open(r) /\ run[r].flow = f /\ ReadyNodes(run[r].snap) # {}}
HoldingRuns(f) == {r \in Runs : Open(r) /\ run[r].flow = f}

Queued(rows, f) == {t \in Triggers : rows[t].status = "queued" /\ FlowOf[t] = f}

SameKey(t) ==
    {u \in Triggers : /\ trigger[u].status # "absent"
                      /\ FlowOf[u] = FlowOf[t] /\ KeyOf[u] = KeyOf[t]}

ExpireQueued(rows, f) ==
    [t \in Triggers |-> IF t \in Queued(rows, f) \cap overdue
                        THEN [rows[t] EXCEPT !.status = "expired"] ELSE rows[t]]

\* Mutant: one row too many is skipped.
NextQueuedSkipping(rows, f) ==
    LET waiting == {i \in DOMAIN order : order[i] \in Queued(rows, f)}
    IN  IF Cardinality(waiting) < 2 THEN <<>> ELSE <<Start(order[Max(waiting)], TRUE)>>
\* The oldest queued row of the flow, as a sequence of at most one message.
NextQueued(rows, f) ==
    LET waiting == {i \in DOMAIN order : order[i] \in Queued(rows, f)}
    IN  IF waiting = {} THEN <<>> ELSE <<Start(order[Min(waiting)], TRUE)>>

HasPending(r, n) == \E i \in DOMAIN pending : pending[i].id = <<"resolve", r, n>>
WithoutPending(id) == RemoveFirstMatch(pending, LAMBDA m : m.id = id)

Requested(s) == {n \in Nodes : s.eff[n] = "requested"}
\* Mutant: the mode of the run is not looked at.
CanAutoStepAny(row) == ~row.snap.paused /\ ReadyNodes(row.snap) # {}
CanAutoStep(row) ==
    row.mode = "auto" /\ ~row.snap.paused /\ ReadyNodes(row.snap) # {}
StepFor(r, row) == IF CanAutoStep(row) THEN <<HostStep(r)>> ELSE <<>>

\* Dispatches for a set of effects; the set is a singleton but for a resume.
DispatchesFor(r, calling) ==
    LET nodes == SetToSeq(calling) IN [i \in DOMAIN nodes |-> Dispatch(r, nodes[i])]

-----------------------------------------------------------------------------
(* The shape of a handler.                                                 *)

Idle == [at |-> "idle"]
Handlers ==
    {Idle} \cup [at : {"begin"}, trigger : Triggers]
      \cup [at : {"mark"}, trigger : Triggers, run : Runs]
      \cup [at : {"execute", "await"}, run : Runs, node : Nodes]
      \cup [at : {"drop"}, id : EngineIds, run : Runs]
Quiet == handler.at = "await" \/ (handler = Idle /\ inbox = <<>>)

Taking(kinds) ==
    proc # "down" /\ handler = Idle /\ inbox # <<>> /\ Head(inbox).kind \in kinds

\* The handler returns without a write.
Discard ==
    /\ inbox' = Tail(inbox)
    /\ UNCHANGED <<stored, proc, handler, armed, history>>

\* The handler throws a HostError.
Refuse(m) ==
    /\ inbox' = Tail(inbox)
    /\ proc' = IF m.void THEN "fatal" ELSE proc
    /\ UNCHANGED <<stored, handler, armed, history>>

\* Mutant: a row that is in the outbox is not written again.
CommitNewEffects(m, row) ==
    /\ run' = [run EXCEPT ![m.run] = row]
    /\ outbox' = [outbox EXCEPT ![m.run] =
                    [n \in Nodes |-> IF @[n] = "none" THEN row.snap.eff[n] ELSE @[n]]]
    /\ commands' = commands
\* persistTransition: snapshot, outbox and command in one transaction.
Commit(m, row) ==
    /\ run' = [run EXCEPT ![m.run] = row]
    /\ outbox' = [outbox EXCEPT ![m.run] = row.snap.eff]
    /\ commands' = IF m.id = NoCommand \/ m.answer = "clock"
                      \/ \E c \in commands : c.id = m.id
                   THEN commands ELSE commands \cup {Recorded(m)}

\* afterPersist: rows is trigger_inbox as the handler left it, rest what is
\* left of the inbox, requests the effects to publish.
AfterPersist(rows, rest, r, row, requests) ==
    LET calling == {n \in requests : Kind[n] = "call"}
        timing == {n \in requests : Kind[n] = "timer"}
        left == ExpireQueued(rows, row.flow)
    IN  IF Terminal(row.snap)
        THEN /\ trigger' = left
             /\ inbox' = rest \o NextQueued(left, row.flow)
             /\ armed' = armed
        ELSE /\ trigger' = rows
             /\ inbox' = rest \o (IF row.snap.paused THEN <<>>
                                  ELSE DispatchesFor(r, calling)) \o StepFor(r, row)
             /\ armed' = armed \cup {<<r, n>> : n \in timing}

-----------------------------------------------------------------------------
(* handle-start.ts.                                                        *)

\* Mutant: a row that has left the queue is taken again.
AdmittedAgain(t) ==
    \/ trigger[t].status # "absent"
    \/ Cardinality(Queued(trigger, FlowOf[t])) < QueueLimit
\* The row is known, or is new and its flow's queue has room.
Admitted(t) ==
    \/ trigger[t].status = "queued"
    \/ trigger[t].status = "absent" /\ Cardinality(Queued(trigger, FlowOf[t])) < QueueLimit

InsertTrigger(t) ==
    /\ trigger' = [trigger EXCEPT ![t].status = "queued"]
    /\ order' = IF trigger[t].status = "absent" THEN Append(order, t) ELSE order

\* The key is known under another trigger id with the same payload, or the
\* row has left the queue: nothing is started and nothing is queued.
AnswerDuplicate ==
    /\ Taking({"start_run"})
    /\ LET t == Head(inbox).trigger
           others == SameKey(t) \ {t}
       IN  \/ \E u \in others : ModeOf[u] = ModeOf[t]
           \/ others = {} /\ trigger[t].status \in {"started", "expired"}
    /\ Discard

\* CONFLICT or QUEUE_FULL.
RefuseTrigger ==
    /\ Taking({"start_run"})
    /\ LET t == Head(inbox).trigger
           others == SameKey(t) \ {t}
       IN  \/ others # {} /\ \A u \in others : ModeOf[u] # ModeOf[t]
           \/ others = {} /\ trigger[t].status = "absent" /\ ~Admitted(t)
    /\ Refuse(Head(inbox))

QueueTrigger ==
    /\ Taking({"start_run"})
    /\ LET t == Head(inbox).trigger
       IN  /\ SameKey(t) \subseteq {t} /\ Admitted(t)
           /\ HoldingRuns(FlowOf[t]) # {}
           /\ InsertTrigger(t)
    /\ inbox' = Tail(inbox)
    /\ UNCHANGED <<overdue, run, outbox, pending, commands, proc, handler, armed, history>>

AcceptTrigger ==
    /\ Taking({"start_run"})
    /\ LET t == Head(inbox).trigger
       IN  /\ SameKey(t) \subseteq {t} /\ Admitted(t)
           /\ HoldingRuns(FlowOf[t]) = {}
           /\ InsertTrigger(t)
           /\ handler' = [at |-> "begin", trigger |-> t]
    /\ inbox' = Tail(inbox)
    /\ UNCHANGED <<overdue, run, outbox, pending, commands, proc, armed, history>>

\* beginStart up to its commit: a run under a fresh id.
BeginStart ==
    /\ proc # "down" /\ handler.at = "begin"
    /\ \E r \in Runs : ~Exists(r)
    /\ LET t == handler.trigger
           r == CHOOSE r \in Runs : ~Exists(r)
           row == [flow |-> FlowOf[t], trigger |-> t, mode |-> ModeOf[t],
                   snap |-> StartSnap, applied |-> {}]
       IN  /\ run' = [run EXCEPT ![r] = row]
           /\ outbox' = [outbox EXCEPT ![r] = row.snap.eff]
           /\ handler' = [at |-> "mark", trigger |-> t, run |-> r]
    /\ UNCHANGED <<trigger, order, overdue, pending, commands, proc, inbox, armed, history>>

\* Mutant: the row does not name its run.
StartedUnnamed(t, r) == [trigger EXCEPT ![t].status = "started"]
\* markTriggerStarted.
Started(t, r) == [trigger EXCEPT ![t] = [status |-> "started", run |-> r]]

\* The mark, a transaction of its own, and afterPersist.
MarkStarted ==
    /\ proc # "down" /\ handler.at = "mark"
    /\ LET r == handler.run
       IN  AfterPersist(Started(handler.trigger, r), inbox, r, run[r], {})
    /\ handler' = Idle
    /\ UNCHANGED <<order, overdue, run, outbox, pending, commands, proc, history>>

-----------------------------------------------------------------------------
(* handle-control.ts and the fixture command of handle-dry-run.ts.         *)

\* The snapshots that may follow a command on a run.
Outcomes(m, row) ==
    CASE m.kind \in {"step", "continue"} -> StepOutcomes(row.snap)
      [] m.kind = "pause" -> PauseOutcomes(row.snap)
      [] m.kind = "resume" -> ResumeOutcomes(row.snap)
      [] m.kind = "cancel" -> CancelOutcomes(row.snap)
      [] m.kind = "fixture" ->
            IF \E c \in row.applied : c.id = m.id
            THEN IF Recorded(m) \in row.applied THEN {row.snap} ELSE {}
            ELSE ResolveOutcomes(row.snap, m.node, "fixture")

\* The kernel remembers the commands it applied, and product steps are not
\* commands to it.
Remembered(m, row) ==
    IF m.id = NoCommand \/ m.kind \in {"step", "continue"} THEN row.applied
    ELSE row.applied \cup {Recorded(m)}

\* Mutant: a resume publishes nothing again.
RequestsNew(m, before, after) == Requested(after) \ Requested(before)
\* A resume publishes every request that was not sent.
Requests(m, before, after) ==
    IF m.kind = "resume" THEN Requested(after)
    ELSE Requested(after) \ Requested(before)

\* Mutant: a repeated command is handled again.
FreshAgain(m) == m.kind = "fixture" \/ Decision(m) # "conflict"
\* Commands are told apart by runtime_commands before the run is read; a
\* fixture goes straight to the kernel.
Fresh(m) == m.kind = "fixture" \/ Decision(m) = "fresh"

HandleCommand ==
    /\ Taking(UserKinds)
    /\ LET m == Head(inbox)
           old == run[m.run]
       IN  /\ Fresh(m)
           /\ \E s \in Outcomes(m, old) :
                LET row == [old EXCEPT !.snap = s,
                                       !.mode = IF m.kind = "continue" THEN "auto" ELSE @,
                                       !.applied = Remembered(m, old)]
                IN  /\ Commit(m, row)
                    /\ AfterPersist(trigger, Tail(inbox), m.run, row,
                                    Requests(m, old.snap, s))
           /\ applies' = IF m.id # NoCommand /\ Recorded(m) \notin old.applied
                         THEN Append(applies, Recorded(m)) ELSE applies
    /\ UNCHANGED <<order, overdue, pending, proc, handler, arrivals, crashes, calls>>

RepeatCommand ==
    /\ Taking(UserKinds)
    /\ ~Fresh(Head(inbox)) /\ Decision(Head(inbox)) = "duplicate"
    /\ Discard

\* CONFLICT, or the kernel's rejection.  A fixture for an effect that another
\* fixture settled is rejected when the two responses differ.
RefuseCommand ==
    /\ Taking(UserKinds)
    /\ LET m == Head(inbox)
           old == run[m.run]
       IN  \/ ~Fresh(m) /\ Decision(m) = "conflict"
           \/ Fresh(m) /\ Outcomes(m, old) = {}
           \/ m.kind = "fixture" /\ old.snap.eff[m.node] = "fixture"
                 /\ Recorded(m) \notin old.applied
    /\ Refuse(Head(inbox))

-----------------------------------------------------------------------------
(* handle-effect.ts.                                                       *)

\* Paused, cancelled, or no longer in the outbox as requested.
SkipDispatch ==
    /\ Taking({"dispatch"})
    /\ LET m == Head(inbox)
       IN  \/ run[m.run].snap.paused \/ run[m.run].snap.cancelled
           \/ outbox[m.run][m.node] # "requested"
    /\ Discard

\* Mutant: the adapter is called without dispatchStarted having been stored.
StartDispatchUnsaved ==
    /\ Taking({"dispatch"})
    /\ ~run[Head(inbox).run].snap.paused /\ ~run[Head(inbox).run].snap.cancelled
    /\ outbox[Head(inbox).run][Head(inbox).node] = "requested"
    /\ handler' = [at |-> "execute", run |-> Head(inbox).run, node |-> Head(inbox).node]
    /\ inbox' = Tail(inbox)
    /\ UNCHANGED <<stored, proc, armed, history>>
\* dispatchStarted is committed before the adapter is called.
StartDispatch ==
    /\ Taking({"dispatch"})
    /\ LET m == Head(inbox)
           old == run[m.run]
       IN  /\ ~old.snap.paused /\ ~old.snap.cancelled
           /\ outbox[m.run][m.node] = "requested"
           /\ \E s \in DispatchOutcomes(old.snap, m.node) :
                Commit(m, [old EXCEPT !.snap = s])
           /\ handler' = [at |-> "execute", run |-> m.run, node |-> m.node]
    /\ inbox' = Tail(inbox)
    /\ UNCHANGED <<trigger, order, overdue, pending, proc, armed, history>>

Execute ==
    /\ proc # "down" /\ handler.at = "execute"
    /\ calls' = [calls EXCEPT ![handler.run][handler.node] = @ + 1]
    /\ handler' = [handler EXCEPT !.at = "await"]
    /\ UNCHANGED <<stored, proc, inbox, armed, arrivals, crashes, applies>>

\* enqueueResolved: the answer is saved, then handled as a message.
Answer ==
    /\ proc = "up" /\ handler.at = "await"
    /\ \E answer \in {"live", "unknown"} :
         LET r == handler.run
             n == handler.node
             m == EngineCommand("resolve", r, n, answer)
         IN  /\ pending' = IF HasPending(r, n) THEN pending ELSE Append(pending, m)
             /\ inbox' = Append(inbox, m)
    /\ handler' = Idle
    /\ UNCHANGED <<trigger, order, overdue, run, outbox, commands, proc, armed, history>>

\* An answer settles its effect; advancing the clock changes no node.
EngineOutcomes(m) ==
    IF m.answer = "clock" THEN {run[m.run].snap}
    ELSE ResolveOutcomes(run[m.run].snap, m.node, m.answer)

HandleCoreCommand ==
    /\ Taking({"core_command"})
    /\ LET m == Head(inbox)
       IN  /\ Decision(m) = "fresh"
           /\ \E s \in EngineOutcomes(m) : Commit(m, [run[m.run] EXCEPT !.snap = s])
           /\ handler' = [at |-> "drop", id |-> m.id, run |-> m.run]
    /\ inbox' = Tail(inbox)
    /\ UNCHANGED <<trigger, order, overdue, pending, proc, armed, history>>

\* deletePending, a transaction of its own, and afterPersist.
DropPending ==
    /\ proc # "down" /\ handler.at = "drop"
    /\ pending' = WithoutPending(handler.id)
    /\ AfterPersist(trigger, inbox, handler.run, run[handler.run], {})
    /\ handler' = Idle
    /\ UNCHANGED <<order, overdue, run, outbox, commands, proc, history>>

\* Mutant: the row of an answer that is already applied is kept.
RepeatCoreCommandKeeping ==
    Taking({"core_command"}) /\ Decision(Head(inbox)) = "duplicate" /\ Discard
RepeatCoreCommand ==
    /\ Taking({"core_command"})
    /\ Decision(Head(inbox)) = "duplicate"
    /\ pending' = WithoutPending(Head(inbox).id)
    /\ inbox' = Tail(inbox)
    /\ UNCHANGED <<trigger, order, overdue, run, outbox, commands, proc, handler, armed, history>>

\* INVALID: the row of pending_inbox stays.
RefuseCoreCommand ==
    /\ Taking({"core_command"})
    /\ Decision(Head(inbox)) # "duplicate" /\ EngineOutcomes(Head(inbox)) = {}
    /\ Refuse(Head(inbox))

-----------------------------------------------------------------------------
(* What reaches the host from outside.                                     *)

\* The cloud, Home Assistant, device and time triggers send void messages;
\* the local HTTP route awaits the outcome.
SendTrigger(t, awaited) ==
    /\ proc = "up" /\ Quiet
    /\ t \notin arrivals.triggers
    /\ arrivals' = [arrivals EXCEPT !.triggers = @ \cup {t}]
    /\ inbox' = Append(inbox, Start(t, ~awaited))
    /\ UNCHANGED <<stored, proc, handler, armed, crashes, calls, applies>>

SendCommand(kind, c, r, n, awaited) ==
    /\ proc = "up" /\ Quiet /\ Exists(r)
    /\ IF kind = "fixture" THEN run[r].snap.eff[n] # "none" ELSE n = Entry
    /\ arrivals.commands < MaxCommands
    /\ arrivals' = [arrivals EXCEPT !.commands = @ + 1]
    /\ inbox' = Append(inbox, Command(kind, c, r, n,
                       IF kind = "fixture" THEN "fixture" ELSE "none", ~awaited))
    /\ UNCHANGED <<stored, proc, handler, armed, crashes, calls, applies>>

TimerFires(r, n) ==
    /\ proc = "up" /\ Quiet
    /\ <<r, n>> \in armed
    /\ armed' = armed \ {<<r, n>>}
    /\ inbox' = inbox \o TimerDue(r, n)
    /\ UNCHANGED <<stored, proc, handler, history>>

\* Rows expire in the order they were stored.
TtlPasses(t) ==
    /\ t \in MayExpire \ overdue /\ trigger[t].status = "queued"
    /\ \A u \in Queued(trigger, FlowOf[t]) :
          (\E i, j \in DOMAIN order : i < j /\ order[i] = u /\ order[j] = t)
            => u \in overdue
    /\ overdue' = overdue \cup {t}
    /\ UNCHANGED <<trigger, order, run, outbox, pending, commands, volatile, history>>

\* Death of the process, whatever the cause.
GoDown ==
    /\ proc' = "down" /\ inbox' = <<>> /\ handler' = Idle /\ armed' = {}
    /\ UNCHANGED <<stored, arrivals, calls, applies>>

Crash ==
    /\ proc # "down" /\ crashes < MaxCrashes
    /\ crashes' = crashes + 1
    /\ GoDown

\* An unhandled rejection ends the process once the microtasks have run.
Die ==
    /\ proc = "fatal" /\ Quiet
    /\ GoDown
    /\ UNCHANGED crashes

-----------------------------------------------------------------------------
(* recovery.ts.                                                            *)

\* Effects whose call may have been made and whose answer was not saved.
LostDispatches ==
    {e \in Runs \X Nodes : /\ outbox[e[1]][e[2]] = "dispatchStarted"
                          /\ ~HasPending(e[1], e[2])}

MarkLost ==
    LET lost == SetToSeq({e \in LostDispatches : Open(e[1])})
    IN  [i \in DOMAIN lost |-> EngineCommand("unknown", lost[i][1], lost[i][2], "unknown")]

\* Requested effects of the open runs that may go on.
Unsent ==
    {e \in Runs \X Nodes : /\ Open(e[1]) /\ ~run[e[1]].snap.paused
                          /\ run[e[1]].snap.eff[e[2]] = "requested"}

\* Mutant: an automatic run is not stepped after a restart.
ResumedUnstepped(r, due) ==
    DispatchesFor(r, {n \in Nodes : <<r, n>> \in Unsent /\ Kind[n] = "call"})
Resumed(r, due) ==
    LET unsent == {n \in Nodes : <<r, n>> \in Unsent}
        timers == SetToSeq({n \in unsent : <<r, n>> \in due})
    IN  DispatchesFor(r, {n \in unsent : Kind[n] = "call"})
          \o FlattenSeq([i \in DOMAIN timers |-> TimerDue(r, timers[i])])
          \o StepFor(r, run[r])

\* recoverHost, run before anything else reaches the inbox.  due: the timers
\* whose time has passed.  The lost dispatches of a terminal run are written
\* to its outbox rows only.
Recover(due) ==
    /\ proc = "down"
    /\ outbox' = [r \in Runs |-> [n \in Nodes |->
                     IF <<r, n>> \in LostDispatches /\ ~Open(r)
                     THEN "unknown" ELSE outbox[r][n]]]
    /\ LET open == SetToSeq({r \in Runs : Open(r)})
       IN  inbox' = pending \o MarkLost
                      \o FlattenSeq([i \in DOMAIN open |-> Resumed(open[i], due)])
    /\ armed' = {e \in Unsent : Kind[e[2]] = "timer"} \ due
    /\ proc' = "up"
    /\ UNCHANGED <<trigger, order, overdue, run, pending, commands, handler, history>>

-----------------------------------------------------------------------------

Init ==
    /\ trigger = [t \in Triggers |-> [status |-> "absent", run |-> NoRun]]
    /\ order = <<>> /\ overdue = {}
    /\ run = [r \in Runs |-> NoRun]
    /\ outbox = [r \in Runs |-> [n \in Nodes |-> "none"]]
    /\ pending = <<>> /\ commands = {}
    /\ proc = "up" /\ inbox = <<>> /\ handler = Idle /\ armed = {}
    /\ arrivals = [triggers |-> {}, commands |-> 0] /\ crashes = 0
    /\ calls = [r \in Runs |-> [n \in Nodes |-> 0]]
    /\ applies = <<>>

\* The host's own steps; the rest is the outside world.
Handle ==
    \/ AnswerDuplicate \/ RefuseTrigger \/ QueueTrigger \/ AcceptTrigger
    \/ BeginStart \/ MarkStarted
    \/ HandleCommand \/ RepeatCommand \/ RefuseCommand
    \/ SkipDispatch \/ StartDispatch \/ Execute
    \/ HandleCoreCommand \/ DropPending \/ RepeatCoreCommand \/ RefuseCoreCommand

RecoverSome ==
    \E due \in SUBSET {e \in Unsent : Kind[e[2]] = "timer"} : Recover(due)

Outside ==
    \/ \E t \in Triggers, awaited \in Awaited : SendTrigger(t, awaited)
    \/ \E kind \in Offered, c \in Commands, r \in Runs, n \in Nodes, awaited \in Awaited :
          SendCommand(kind, c, r, n, awaited)
    \/ \E t \in Triggers : TtlPasses(t)
    \/ Crash

Next ==
    \/ Handle \/ Answer \/ (\E r \in Runs, n \in Nodes : TimerFires(r, n))
    \/ Die \/ RecoverSome \/ Outside

Spec == Init /\ [][Next]_vars

\* The event loop runs the inbox dry, timers fire, adapter calls end (every
\* one has a timeout) and the supervisor restarts a dead process.  Nothing is
\* assumed of the outside world.
Fairness ==
    /\ WF_vars(Handle) /\ WF_vars(Answer)
    /\ \A r \in Runs, n \in Nodes : WF_vars(TimerFires(r, n))
    /\ WF_vars(Die) /\ WF_vars(RecoverSome)

FairSpec == Spec /\ Fairness

-----------------------------------------------------------------------------
(* Properties.                                                             *)

\* The rows of the store, the messages and the handler's progress have the
\* types the code gives them; a started row names its run, and only answers are
\* kept in pending_inbox.
TypeOK ==
    /\ trigger \in [Triggers -> Row]
    /\ order \in Seq(Triggers)
    /\ overdue \subseteq Triggers
    /\ run \in [Runs -> RunRow \cup {NoRun}]
    /\ outbox \in [Runs -> [Nodes -> EffStates]]
    /\ pending \in Seq(EngineMessage)
    /\ commands \subseteq CommandRow
    /\ proc \in {"up", "fatal", "down"}
    /\ inbox \in Seq(Message)
    /\ handler \in Handlers
    /\ armed \subseteq Runs \X Nodes
    /\ arrivals \in [triggers : SUBSET Triggers, commands : Nat]
    /\ crashes \in Nat
    /\ calls \in [Runs -> [Nodes -> Nat]]

\* Each flow has at most one live run that is not over, whatever the process
\* died in the middle of: the check of holdingRun (handle-start.ts) and the
\* commit of the new run are separate transactions, and no database
\* constraint backs them.
HoldingUnique ==
    \A r, q \in Runs : Open(r) /\ Open(q) /\ run[r].flow = run[q].flow => r = q

\* An adapter is called at most once for an effect, across crashes, pauses and
\* resumes that publish the effect again: handleDispatch calls only after it
\* moved the outbox row out of "requested", and nothing moves it back.
AtMostOneCall == \A r \in Runs, n \in Nodes : calls[r][n] <= 1

\* The outbox row of an effect says what the run's snapshot says, so that the
\* dispatcher (which trusts the outbox) and the kernel (which trusts the
\* snapshot) agree on what may still be called.  A row may only be ahead, as
\* "unknown" after a lost dispatch of a run that is over.
OutboxAgrees ==
    \A r \in Runs, n \in Nodes :
        Exists(r) => \/ outbox[r][n] = run[r].snap.eff[n]
                     \/ /\ outbox[r][n] = "unknown" /\ Terminal(run[r].snap)
                        /\ run[r].snap.eff[n] = "dispatchStarted"

\* When the host has nothing to do, nothing that should be going on has been
\* forgotten: no call is left unsent, every requested timer is armed and no
\* automatic run sits on a ready node, but for paused runs.  The wake-ups are
\* spread over afterPersist, handleResume, the timers and recovery.
NothingForgotten ==
    proc = "up" /\ handler = Idle /\ inbox = <<>> =>
        \A r \in Runs : Open(r) /\ ~run[r].snap.paused =>
            /\ \A n \in Requested(run[r].snap) : Kind[n] = "timer" /\ <<r, n>> \in armed
            /\ ~CanAutoStep(run[r])

\* While the process has never died, a queued trigger waits only for a run of
\* its flow: when the host has nothing to do and no run holds the flow, the
\* queue of the flow is empty.
QueueMoves ==
    handler = Idle /\ inbox = <<>> =>
        \A f \in Flows : Queued(trigger, f) # {} => HoldingRuns(f) # {}

\* One accepted trigger starts at most one run: a redelivery under the same
\* key, the wake-up of a queued row and the row's first delivery may all be in
\* the inbox together.
OneRunPerTrigger ==
    \A r, q \in Runs : Exists(r) /\ Exists(q) /\ run[r].trigger = run[q].trigger => r = q

\* The queue of a flow moves, and starts what it holds once.
QueueIsSound == QueueMoves /\ OneRunPerTrigger

\* A command the user sends again under its id is applied at most once, also
\* when the first delivery was followed by a crash: the command is recorded
\* in the transaction of the transition.
AppliedOnce == IsInjective(applies)

\* The nodes of a manual run are started by its user alone: the host never
\* holds a step of its own for it, not after a crash, a resume or an answer
\* that made nodes ready (handleContinue is the one way to automatic).
ManualWaits ==
    \A i \in DOMAIN inbox :
        inbox[i].kind = "step" /\ inbox[i].id = NoCommand => run[inbox[i].run].mode = "auto"

\* What is stored is taken up again after a crash, no more and no less of it:
\* nothing is forgotten, repeated, or done in place of the user.
NothingIsLost == NothingForgotten /\ ManualWaits /\ AppliedOnce

\* An effect moves forward only: a lost or unknown result is never asked for
\* again, and the answer an effect was settled with is final.
EffectsMoveForward ==
    [][\A r \in Runs : Exists(r) => Forward(run[r].snap, run'[r].snap)]_vars

\* Once a run is cancelled its nodes and effects stay as they are and no
\* adapter is called for it, whatever was on its way: steps, dispatches, timers
\* and answers that reach it late.
CancelFreezes ==
    [][\A r \in Runs : Exists(r) =>
         /\ Frozen(run[r].snap, run'[r].snap)
         /\ run[r].snap.cancelled => calls'[r] = calls[r]]_vars

\* While a run is paused none of its ready nodes is evaluated and no adapter is
\* called for it, though the dispatches and steps of before the pause are
\* still in the inbox and answers still come in.
PauseHolds ==
    [][\A r \in Runs : Exists(r) /\ run[r].snap.paused /\ run'[r].snap.paused =>
         /\ \A n \in ReadyNodes(run[r].snap) : run'[r].snap.node[n] = "ready"
         /\ calls'[r] = calls[r]]_vars

\* An automatic run ends unless its user pauses it or one of its effects is
\* left unknown: no wake-up is lost for good, crashes included.
RunEnds ==
    \A r \in Runs :
        Open(r) /\ run[r].mode = "auto"
          ~> Exists(r) /\ \/ Terminal(run[r].snap)
                          \/ run[r].snap.paused
                          \/ \E n \in Nodes : run[r].snap.eff[n] = "unknown"

\* A saved answer is applied in the end and its row removed, across crashes.
AnswersApplied ==
    \A r \in Runs, n \in Nodes : HasPending(r, n) ~> ~HasPending(r, n)

\* No run and no answer is left standing.
NothingStands == RunEnds /\ AnswersApplied

\* A queued trigger is started or expires in the end, when the runs before it
\* end.
TriggersServed ==
    \A t \in Triggers :
        trigger[t].status = "queued"
          ~> \/ trigger[t].status # "queued"
             \/ \E r \in HoldingRuns(FlowOf[t]) :
                   \/ run[r].snap.paused \/ run[r].mode = "manual"
                   \/ \E n \in Nodes : run[r].snap.eff[n] = "unknown"

-----------------------------------------------------------------------------
(* The abstract specifications the host implements.                        *)

Delivery == INSTANCE EffectDelivery WITH
    Effects <- Runs \X Nodes,
    phase <- [e \in Runs \X Nodes |->
                IF ~Exists(e[1]) THEN "absent"
                ELSE CASE run[e[1]].snap.eff[e[2]] = "none" -> "absent"
                       [] run[e[1]].snap.eff[e[2]] = "requested" -> "asked"
                       [] run[e[1]].snap.eff[e[2]] = "dispatchStarted" -> "sent"
                       [] run[e[1]].snap.eff[e[2]] = "unknown" -> "lost"
                       [] OTHER -> "settled"],
    made <- [e \in Runs \X Nodes |-> calls[e[1]][e[2]]]

Lease == INSTANCE FlowLease WITH
    Nobody <- NoRun,
    holder <- [f \in Flows |-> IF HoldingRuns(f) = {} THEN NoRun
                               ELSE CHOOSE r \in HoldingRuns(f) : TRUE],
    retired <- {r \in Runs : Exists(r) /\ ~Open(r)}

\* The host implements EffectDelivery: the world is asked once for each effect,
\* after the intent was stored, through crashes, pauses and repeated publishing.
DeliversOnce == Delivery!Spec

\* The host implements FlowLease: a flow passes from run to run, and no answer,
\* timer or command that reaches a run late brings it back.
LeaseKept == Lease!Spec

-----------------------------------------------------------------------------
(* What the repository's documents say and the code does not keep.  The    *)
(* run CoordinatorRepeat finds the first violated; the README tells how    *)
(* the second comes to be.                                                 *)

\* plan/product-plan.md:1043: after a restart the host goes on without repeated
\* external work.  For one accepted input an adapter is called at most once for
\* each node.
CallsOncePerInput ==
    \A r, q \in Runs, n \in Nodes :
        /\ r # q /\ Exists(r) /\ Exists(q) /\ run[r].trigger = run[q].trigger
        => calls[r][n] + calls[q][n] <= 1

\* plan/product-plan.md:525: flows go on independently of each other.  The host
\* does not bring the process down over one flow while another flow's run is
\* open.
FlowsIndependent ==
    [][proc = "up" /\ proc' = "fatal" =>
         \A r \in Runs : Open(r) =>
            inbox[1].kind # "start_run" /\ run[r].flow = run[inbox[1].run].flow]_vars
=============================================================================
