----------------------------- MODULE SyncJournal -----------------------------
(***************************************************************************)
(* How what a runtime has recorded reaches the cloud: numbered rows of a   *)
(* journal in SQLite, sent over a socket that drops, stored in PostgreSQL  *)
(* and acknowledged; the projection of runs the cloud shows; and the       *)
(* policy that turns the capture of raw payloads on and off.               *)
(*                                                                         *)
(* The messages of a socket are handled one after the other, each to its   *)
(* last await.  The messages of a socket that was lost are handled all the *)
(* same, next to those of the socket that follows it.                      *)
(***************************************************************************)
EXTENDS Integers, FiniteSets, Sequences

CONSTANTS
    Runs,            \* runs the runtime carries out
    MaxCommits,      \* bound on the transitions of each run
    MaxSockets,      \* bound on the sockets that are opened
    MaxFailures,     \* bound on the failures of handlers of the cloud
    MaxChanges,      \* bound on the changes of the policy
    InitialCapture   \* whether capture is on in the beginning

VARIABLES
    committed,       \* run -> number of its events in the runtime's store
    publishing,      \* the run, if any, whose transition is to be published
    journal,         \* stream -> rows of summary_journal, by sync_seq
    capture,         \* capture_raw of local_data_policy
    socket,          \* number of the last socket
    open,            \* it is open at the runtime
    up,              \* socket -> messages for the cloud
    down,            \* messages of the cloud on the open socket
    hub,             \* socket the cloud sends to, and 0 when there is none
    handler,         \* socket -> how far the cloud is with a message
    stored,          \* stream -> sync_seq of the rows of sync_journal
    cursor,          \* stream -> last_acked of sync_cursors
    summary,         \* run -> last_seq of run_summaries, 0 without a row
    policy,          \* defaultCaptureRaw of site_data_policies
    pushes,          \* changes of the policy that are being sent
    changes,         \* number of changes that were made
    failures,        \* number of handlers that failed
    clean,           \* history: none did on the last socket
    before,          \* history: run -> events before capture was turned on
    lapsed           \* history: runs whose last transition got no summary row

runtime == <<committed, publishing, journal, capture, before, lapsed>>
link    == <<socket, open, up, down, hub, clean>>
tables  == <<stored, cursor, summary>>
wish    == <<policy, pushes, changes>>
vars    == <<runtime, link, handler, tables, wish, failures>>

ASSUME SyncAssumption ==
    /\ Runs # {}
    /\ {MaxCommits, MaxSockets, MaxFailures, MaxChanges} \subseteq Nat
    /\ InitialCapture \in BOOLEAN

Streams == {"summary", "raw"}
Sockets == 1..MaxSockets

Rows      == [run : Runs, last : Nat, acked : BOOLEAN, tombstone : BOOLEAN]
UpHello   == [type : {"hello"}]
UpRun     == [type : {"run.summary"}, run : Runs, last : Nat]
UpBatch   == [type : {"batch"}, stream : Streams, seq : Nat, run : Runs,
              last : Nat, tombstone : BOOLEAN]
UpMessages == UpHello \cup UpRun \cup UpBatch
Acks       == [type : {"ack"}, stream : Streams, seq : Nat]
Policies   == [type : {"desired.data"}, capture : BOOLEAN]
Handlers   == [at : {"idle", "hello", "observations", "cursor", "pending", "write",
                     "upsert"},
               message : UpHello \cup UpBatch, last : Nat, capture : BOOLEAN]
Pushes     == [change : 1..MaxChanges, at : {"policy", "observations"},
               capture : BOOLEAN]

TypeOK ==
    /\ committed \in [Runs -> Nat]
    /\ publishing \in {{}} \cup {{r} : r \in Runs}
    /\ journal \in [Streams -> Seq(Rows)]
    /\ capture \in BOOLEAN
    /\ socket \in 0..MaxSockets
    /\ open \in BOOLEAN
    /\ up \in [Sockets -> Seq(UpMessages)]
    /\ down \in Seq(Acks \cup Policies)
    /\ hub \in 0..MaxSockets
    /\ handler \in [Sockets -> Handlers]
    /\ stored \in [Streams -> SUBSET Nat]
    /\ cursor \in [Streams -> Nat]
    /\ summary \in [Runs -> Nat]
    /\ policy \in BOOLEAN
    /\ pushes \subseteq Pushes
    /\ changes \in 0..MaxChanges
    /\ failures \in 0..MaxFailures
    /\ clean \in BOOLEAN
    /\ before \in [Runs -> Nat]
    /\ lapsed \subseteq Runs

Hello == [type |-> "hello"]
Idle  == [at |-> "idle", message |-> Hello, last |-> 0, capture |-> FALSE]

Init ==
    /\ committed = [r \in Runs |-> 0]
    /\ publishing = {}
    /\ journal = [s \in Streams |-> <<>>]
    /\ capture = InitialCapture
    /\ socket = 0
    /\ open = FALSE
    /\ up = [g \in Sockets |-> <<>>]
    /\ down = <<>>
    /\ hub = 0
    /\ handler = [g \in Sockets |-> Idle]
    /\ stored = [s \in Streams |-> {}]
    /\ cursor = [s \in Streams |-> 0]
    /\ summary = [r \in Runs |-> 0]
    /\ policy = InitialCapture
    /\ pushes = {}
    /\ changes = 0
    /\ failures = 0
    /\ clean = TRUE
    /\ before = [r \in Runs |-> 0]
    /\ lapsed = {}
-----------------------------------------------------------------------------
(***************************************************************************)
(* The runtime.                                                            *)
(***************************************************************************)

\* Mutant: the mark of an emptied row is left out.
BatchBare(s, i, row) == [type |-> "batch", stream |-> s, seq |-> i, run |-> row.run,
                         last |-> row.last]
\* The message of a row.
Batch(s, i, row) == [type |-> "batch", stream |-> s, seq |-> i, run |-> row.run,
                     last |-> row.last, tombstone |-> row.tombstone]

Send(messages) ==
    up' = IF open THEN [up EXCEPT ![socket] = @ \o messages] ELSE up

\* The runtime is one thread: a transition is published in the call that committed
\* it, and nothing else is done before that is over.
Free == publishing = {}

\* A transition is committed to the runtime's store.
Commit(r) ==
    /\ Free
    /\ committed[r] < MaxCommits
    /\ committed' = [committed EXCEPT ![r] = @ + 1]
    /\ publishing' = {r}
    /\ UNCHANGED <<journal, capture, before, lapsed, link, handler, tables, wish,
                   failures>>

\* The streams a transition is to have a row of: the flow is one that allows raw rows.
Wanted == IF capture THEN Streams ELSE {"summary"}

\* The summary of the run, all its events in it, is sent; then the row of each
\* stream in "written" is appended to the journal and sent.
Records(r, written, told) ==
    LET row == [run |-> r, last |-> committed[r], acked |-> FALSE, tombstone |-> FALSE]
        sent(s) == IF s \in written THEN <<Batch(s, Len(journal[s]) + 1, row)>> ELSE <<>>
    IN
    /\ r \in publishing
    /\ publishing' = {}
    /\ journal' = [s \in Streams |-> IF s \in written THEN Append(journal[s], row)
                                     ELSE journal[s]]
    /\ lapsed' = IF "summary" \in written THEN lapsed \ {r} ELSE lapsed \cup {r}
    /\ Send((IF told THEN <<[type |-> "run.summary", run |-> r, last |-> committed[r]]>>
             ELSE <<>>) \o sent("summary") \o sent("raw"))
    /\ UNCHANGED <<committed, capture, before, socket, open, down, hub, clean, handler,
                   tables, wish, failures>>

\* afterCommit, to its end.
Publish(r) == Records(r, Wanted, TRUE)

\* afterCommit, with an error it swallows (the summary's row comes after its message);
\* or the runtime dies before the end of it, which is this and a Disconnect.
\* Nothing publishes the transition again.
Lapse(r) ==
    \E written \in (SUBSET Wanted) \ {Wanted}, told \in BOOLEAN :
        /\ "summary" \in written => told
        /\ Records(r, written, told)

\* Rows that were not acknowledged lose their payload and keep their number.
Emptied(rows) ==
    [i \in DOMAIN rows |-> IF rows[i].acked THEN rows[i]
                           ELSE [rows[i] EXCEPT !.tombstone = TRUE]]

\* retainLocal, every minute: it empties the raw rows whatever the policy.
Retain ==
    /\ Free
    /\ journal' = [journal EXCEPT !["raw"] = Emptied(@)]
    /\ UNCHANGED <<committed, publishing, capture, before, lapsed, link, handler, tables, wish, failures>>

\* Mutant: nothing is sent again.
NothingUnacked(s, rows) == <<>>
\* Mutant: only the last row is sent again.
LastUnacked(s, rows) ==
    IF rows # <<>> /\ ~rows[Len(rows)].acked
    THEN <<Batch(s, Len(rows), rows[Len(rows)])>>
    ELSE <<>>
\* What is sent when a socket is opened.  Acknowledged rows come
\* first: each acknowledgement is for all rows up to a number.
Unacked(s, rows) ==
    LET acked == CHOOSE n \in 0..Len(rows) : \A i \in 1..Len(rows) :
                     rows[i].acked <=> i <= n
    IN [i \in 1..(Len(rows) - acked) |-> Batch(s, acked + i, rows[acked + i])]

Gated == IF capture THEN journal["raw"] ELSE Emptied(journal["raw"])

\* A socket is opened: hello, and then what was not acknowledged.
Connect ==
    /\ Free
    /\ ~open
    /\ socket < MaxSockets
    /\ socket' = socket + 1
    /\ open' = TRUE
    /\ clean' = TRUE
    /\ journal' = [journal EXCEPT !["raw"] = Gated]
    /\ up' = [up EXCEPT ![socket + 1] =
                <<Hello>> \o Unacked("summary", journal["summary"])
                          \o Unacked("raw", Gated)]
    /\ UNCHANGED <<committed, publishing, capture, before, lapsed, down, hub, handler,
                   tables, wish, failures>>

\* What was on its way is lost in part.  The last socket is kept.
Disconnect ==
    /\ open
    /\ socket < MaxSockets
    /\ open' = FALSE
    /\ \E n \in 0..Len(up[socket]) : up' = [up EXCEPT ![socket] = SubSeq(@, 1, n)]
    /\ down' = <<>>
    /\ UNCHANGED <<runtime, socket, hub, clean, handler, tables, wish, failures>>

Receive(m) ==
    /\ Free
    /\ open
    /\ down # <<>>
    /\ m = Head(down)
    /\ down' = Tail(down)

\* An acknowledgement is for all rows up to its number.
ReceiveAck(m) ==
    /\ Receive(m)
    /\ m \in Acks
    /\ journal' = [journal EXCEPT ![m.stream] =
                     [i \in DOMAIN @ |-> IF i <= m.seq THEN [@[i] EXCEPT !.acked = TRUE]
                                         ELSE @[i]]]
    /\ UNCHANGED <<committed, publishing, capture, before, lapsed, socket, open, up, hub,
                   clean, handler, tables, wish, failures>>

\* Mutant: the rows are left as they are.
RawLeft == journal["raw"]
\* What applyCaptureGate and retainLocal leave of the raw rows.
RawAfterPolicy == Emptied(journal["raw"])

ReceivePolicy(m) ==
    /\ Receive(m)
    /\ m \in Policies
    /\ capture' = m.capture
    /\ before' = IF m.capture /\ ~capture THEN committed ELSE before
    /\ journal' = [journal EXCEPT !["raw"] = RawAfterPolicy]
    /\ UNCHANGED <<committed, publishing, lapsed, socket, open, up, hub, clean, handler,
                   tables, wish, failures>>
-----------------------------------------------------------------------------
(***************************************************************************)
(* The cloud.                                                              *)
(***************************************************************************)

\* sendToRuntime: a socket of the hub that is already dead takes the message.
SendDown(m) ==
    down' = IF open /\ hub = socket THEN Append(down, m) ELSE down

\* The socket's close is seen.
Close(g) ==
    /\ hub = g
    /\ g # 0
    /\ ~(open /\ g = socket)
    /\ hub' = 0
    /\ UNCHANGED <<runtime, socket, open, up, down, clean, handler, tables, wish,
                   failures>>

Goes(g, state) == handler' = [handler EXCEPT ![g] = state]

At(g, place) == handler[g].at = place

Waits(g, m) ==
    /\ At(g, "idle")
    /\ up[g] # <<>>
    /\ m = Head(up[g])

Take(g, m) ==
    /\ Waits(g, m)
    /\ up' = [up EXCEPT ![g] = Tail(@)]

\* The socket is put into the hub.
TakeHello(g) ==
    /\ Take(g, Hello)
    /\ ~(open /\ hub = socket /\ g # socket)
    /\ hub' = g
    /\ Goes(g, [Idle EXCEPT !.at = "hello"])
    /\ UNCHANGED <<runtime, socket, open, down, clean, tables, wish, failures>>

\* A hello that was handled late puts a lost socket into the hub, and the open
\* one is closed as the one it replaces.
LateHello(g) ==
    /\ Waits(g, Hello)
    /\ open /\ hub = socket /\ g # socket
    /\ socket < MaxSockets
    /\ hub' = g
    /\ open' = FALSE
    /\ down' = <<>>
    /\ \E n \in 0..Len(up[socket]) :
         up' = [up EXCEPT ![g] = Tail(@), ![socket] = SubSeq(@, 1, n)]
    /\ Goes(g, [Idle EXCEPT !.at = "hello"])
    /\ UNCHANGED <<runtime, socket, clean, tables, wish, failures>>

ReadPolicy(g) ==
    /\ At(g, "hello")
    /\ Goes(g, [handler[g] EXCEPT !.at = "observations", !.capture = policy])
    /\ UNCHANGED <<runtime, link, tables, wish, failures>>

SendPolicy(g) ==
    /\ At(g, "observations")
    /\ SendDown([type |-> "desired.data", capture |-> handler[g].capture])
    /\ Goes(g, Idle)
    /\ UNCHANGED <<runtime, socket, open, up, hub, clean, tables, wish, failures>>

\* Mutant: an older summary replaces a newer one.
UpsertAny(m) == [summary EXCEPT ![m.run] = m.last]
\* A summary that is older than the one that is there changes nothing.
Upsert(m) == [summary EXCEPT ![m.run] = IF @ <= m.last THEN m.last ELSE @]

TakeRunSummary(g, m) ==
    /\ Take(g, m)
    /\ m.type = "run.summary"
    /\ summary' = Upsert(m)
    /\ UNCHANGED <<runtime, socket, open, down, hub, clean, handler, stored, cursor,
                   wish, failures>>

\* A row that is there already is not looked at again.
TakeBatch(g, m) ==
    /\ Take(g, m)
    /\ m.type = "batch"
    /\ IF m.seq \in stored[m.stream]
       THEN UNCHANGED <<stored, handler>>
       ELSE /\ stored' = [stored EXCEPT ![m.stream] = @ \cup {m.seq}]
            /\ Goes(g, [Idle EXCEPT !.at = "cursor", !.message = m])
    /\ UNCHANGED <<runtime, socket, open, down, hub, clean, cursor, summary, wish,
                   failures>>

ReadCursor(g) ==
    /\ At(g, "cursor")
    /\ Goes(g, [handler[g] EXCEPT !.at = "pending",
                                  !.last = cursor[handler[g].message.stream]])
    /\ UNCHANGED <<runtime, link, tables, wish, failures>>

\* After the acknowledgement, the row of a summary is projected.
Acknowledged(m) ==
    IF m.stream = "summary" THEN [Idle EXCEPT !.at = "upsert", !.message = m] ELSE Idle

\* Mutant: the last row that is there is taken for the last of all.
UpToLast(s, last, n) == last <= n /\ \A i \in stored[s] : i <= n
\* n is the number up to which all rows are there.
Contiguous(s, last, n) ==
    /\ last <= n
    /\ (last + 1)..n \subseteq stored[s]
    /\ n + 1 \notin stored[s]

ReadPending(g) ==
    LET m    == handler[g].message
        last == handler[g].last
    IN
    /\ At(g, "pending")
    /\ \E n \in {last} \cup stored[m.stream] :
         /\ Contiguous(m.stream, last, n)
         /\ Goes(g, IF n = last THEN Acknowledged(m)
                    ELSE [handler[g] EXCEPT !.at = "write", !.last = n])
    /\ UNCHANGED <<runtime, link, tables, wish, failures>>

WriteCursor(g) ==
    LET m == handler[g].message IN
    /\ At(g, "write")
    /\ cursor' = [cursor EXCEPT ![m.stream] = handler[g].last]
    /\ SendDown([type |-> "ack", stream |-> m.stream, seq |-> handler[g].last])
    /\ Goes(g, Acknowledged(m))
    /\ UNCHANGED <<runtime, socket, open, up, hub, clean, stored, summary, wish,
                   failures>>

Project(g) ==
    /\ At(g, "upsert")
    /\ summary' = Upsert(handler[g].message)
    /\ Goes(g, Idle)
    /\ UNCHANGED <<runtime, link, stored, cursor, wish, failures>>

\* A query fails: the rest of the handling is dropped, the socket stays.
Fail(g) ==
    /\ failures < MaxFailures
    /\ failures' = failures + 1
    /\ clean' = (clean /\ g # socket)
    /\ \/ /\ handler[g].at # "idle"
          /\ Goes(g, Idle)
          /\ UNCHANGED up
       \/ /\ \E m \in {up[g][i] : i \in DOMAIN up[g]} \ {Hello} : Take(g, m)
          /\ UNCHANGED handler
    /\ UNCHANGED <<runtime, socket, open, down, hub, tables, wish>>

\* The cloud dies and is started again.
Restart ==
    /\ failures < MaxFailures
    /\ socket < MaxSockets
    /\ failures' = failures + 1
    /\ open' = FALSE
    /\ up' = [g \in Sockets |-> <<>>]
    /\ down' = <<>>
    /\ hub' = 0
    /\ handler' = [g \in Sockets |-> Idle]
    /\ pushes' = {}
    /\ UNCHANGED <<runtime, socket, clean, tables, policy, changes>>

\* A user changes the policy, and it is sent to the runtime.
ChangePolicy(wanted) ==
    /\ changes < MaxChanges
    /\ changes' = changes + 1
    /\ policy' = wanted
    /\ pushes' = pushes \cup {[change |-> changes + 1, at |-> "policy", capture |-> FALSE]}
    /\ UNCHANGED <<runtime, link, handler, tables, failures>>

PushReads(p) ==
    /\ p \in pushes
    /\ p.at = "policy"
    /\ pushes' = (pushes \ {p}) \cup
                   {[p EXCEPT !.at = "observations", !.capture = policy]}
    /\ UNCHANGED <<runtime, link, handler, tables, policy, changes, failures>>

PushSends(p) ==
    /\ p \in pushes
    /\ p.at = "observations"
    /\ SendDown([type |-> "desired.data", capture |-> p.capture])
    /\ pushes' = pushes \ {p}
    /\ UNCHANGED <<runtime, socket, open, up, hub, clean, handler, tables, policy,
                   changes, failures>>
-----------------------------------------------------------------------------
AfterCommit == \E r \in publishing : Publish(r) \/ Lapse(r)

RuntimeReceives == \E m \in {down[i] : i \in DOMAIN down} : ReceiveAck(m) \/ ReceivePolicy(m)

TakeMessage(g) ==
    \E m \in {up[g][i] : i \in DOMAIN up[g]} : TakeRunSummary(g, m) \/ TakeBatch(g, m)

Handle(g) ==
    \/ TakeHello(g)
    \/ LateHello(g)
    \/ ReadPolicy(g)
    \/ SendPolicy(g)
    \/ TakeMessage(g)
    \/ ReadCursor(g)
    \/ ReadPending(g)
    \/ WriteCursor(g)
    \/ Project(g)

Push == \E p \in pushes : PushReads(p) \/ PushSends(p)

Next ==
    \/ \E r \in Runs : Commit(r)
    \/ AfterCommit
    \/ Retain
    \/ Connect
    \/ Disconnect
    \/ RuntimeReceives
    \/ \E g \in Sockets : Handle(g) \/ Close(g) \/ Fail(g)
    \/ Restart
    \/ \E wanted \in BOOLEAN : ChangePolicy(wanted)
    \/ Push

\* The call that committed a transition goes on (coordinator/commit.ts), the runtime
\* opens a socket again and again (gateway/client.ts), and the messages of each
\* socket are handled in turn (runtime/ws.ts).
Fairness ==
    /\ WF_vars(AfterCommit)
    /\ WF_vars(Connect)
    /\ \A g \in Sockets : WF_vars(Handle(g))

Spec == Init /\ [][Next]_vars /\ Fairness
-----------------------------------------------------------------------------
(***************************************************************************)
(* Properties.                                                             *)
(***************************************************************************)

\* An acknowledgement is never for a row the cloud does not have, though it is
\* for all rows up to a number, and rows before that number may have been lost
\* or have failed on one socket while later ones arrived on another
\* (data/streams.ts, store/sync-journal.ts).
AckedIsStored ==
    \A s \in Streams :
        /\ \A i \in DOMAIN journal[s] : journal[s][i].acked => i \in stored[s]
        /\ 1..cursor[s] \subseteq stored[s]

Quiet ==
    /\ Free
    /\ down = <<>>
    /\ pushes = {}
    /\ \A g \in Sockets : up[g] = <<>> /\ At(g, "idle")

\* When nothing is under way on a socket on which no handler has failed, the
\* cloud has every row of both streams, whatever was lost on earlier sockets.
RowsArrive ==
    Quiet /\ open /\ clean => \A s \in Streams : stored[s] = DOMAIN journal[s]

\* As long as no handler fails, the summary the cloud then shows of a run is never
\* older than a row of the run, though those of an earlier socket are handled after
\* newer ones; it is the one of the run's last transition, unless that transition
\* got no row (coordinator/commit.ts:42, gateway/summary.ts).
SummariesArrive ==
    Quiet /\ open /\ failures = 0 =>
        \A r \in Runs :
            /\ \A i \in DOMAIN journal["summary"] :
                   journal["summary"][i].run = r => journal["summary"][i].last <= summary[r]
            /\ summary[r] <= committed[r]
            /\ r \in lapsed \/ summary[r] = committed[r]

\* What is acknowledged was stored, and rows and summaries arrive.
NothingIsMissed == AckedIsStored /\ RowsArrive /\ SummariesArrive

\* While capture is off, no raw payload waits to be sent (data/publish-raw.ts).
OffDiscards ==
    ~capture => \A i \in DOMAIN journal["raw"] :
                    journal["raw"][i].acked \/ journal["raw"][i].tombstone

\* Each row is stored at last, unless a handler fails on the last socket.
StoredAtLast ==
    \A s \in Streams, i \in 1..(MaxCommits * Cardinality(Runs)) :
        i \in DOMAIN journal[s] ~> i \in stored[s] \/ ~clean

-----------------------------------------------------------------------------
(* The abstract specification the journal implements. *)

Delivery == INSTANCE RowDelivery WITH
    recorded <- [s \in Streams |-> Len(journal[s])],
    delivered <- stored,
    settled <- [s \in Streams |-> {i \in DOMAIN journal[s] : journal[s][i].acked}]

\* The journal implements RowDelivery: over sockets that are lost, handlers that are
\* late and a cursor that is read before it is written, a row is delivered once, none
\* that was not recorded, and rows are settled as far as all were delivered
\* (store/sync-journal.ts, data/streams.ts).
DeliversRows == Delivery!Spec

-----------------------------------------------------------------------------
(* Said of the journal, and not so. *)

\* plan/product-plan.md:1008: after a reconnect the summaries are made up for without
\* a gap.  A transition without a row is not sent again, and the cloud keeps showing
\* what the run was before it (coordinator/commit.ts:42, gateway/summary.ts:38-41).
SummariesRecover == Quiet /\ open /\ failures = 0 => summary = committed

\* A row that was stored is shown, though its first projection failed: the row is
\* skipped as a duplicate when it is sent again (flows/journal.ts:26).
ProjectionRecovers ==
    Quiet /\ open /\ clean => \A i \in DOMAIN journal["summary"] :
        journal["summary"][i].last <= summary[journal["summary"][i].run]

\* plan/product-plan.md:1025: when capture was turned off while the runtime was
\* offline, its raw payloads are not sent when it connects again.
OffIsOff ==
    [][Connect /\ ~policy =>
         \A i \in DOMAIN up'[socket'] :
            LET m == up'[socket'][i] IN m \in UpBatch /\ m.stream = "raw" => m.tombstone]_vars

\* data/push.ts:2: the runtime is sent the latest policy.
PolicyArrives == Quiet /\ open /\ changes > 0 /\ failures = 0 => capture = policy

\* data/publish-raw.ts:2: only the events after capture was turned on are sent.
NotRetroactive ==
    [][\A r \in Runs : Publish(r) /\ capture => before[r] = 0]_vars
=============================================================================
