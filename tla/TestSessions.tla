---------------------------- MODULE TestSessions ----------------------------
(***************************************************************************)
(* How the cloud starts a run: a test of a draft, the replay of an earlier *)
(* run, or a live run of the deployed revision.  A test is sent to the     *)
(* runtime first and then entered in three tables, the last of which       *)
(* remembers the answer for a request that is repeated with its key; the   *)
(* runtime reports the run meanwhile.                                      *)
(***************************************************************************)
EXTENDS Naturals, FiniteSets, SequencesExt

CONSTANTS
    StartKeys,       \* idempotency keys
    MaxStarts,       \* bound on the requests
    RunEnd,          \* last_seq of a run that has ended
    MaxLost          \* bound on the sockets that lose what was sent and on the restarts of the API

VARIABLES
    start,           \* request -> how far it is; its number is also its run
    remembered,      \* flow_idempotency: key -> source and run, where there is a row
    tested,          \* test_sessions: runs with a row
    rows,            \* run_summaries: run -> last_seq, where there is a row
    flowOn,          \* the last deployment of the flow is active
    wire,            \* what was sent to the runtime: runs, and Off
    home,            \* runs of the runtime: run -> last_seq
    homeOn,          \* the runtime has the deployment
    reported,        \* run -> last_seq of the last summary that arrived
    lost, restarts   \* counters of the bounds

startVars == <<start, remembered, tested, rows, flowOn, wire, home, homeOn, reported,
               lost, restarts>>

Starts == 1..MaxStarts
Off    == 0
Draft  == 0          \* a source: the draft, or else the run that is replayed

ASSUME StartsAssumption ==
    /\ StartKeys # {}
    /\ MaxStarts \in Nat /\ MaxLost \in Nat
    /\ RunEnd \in Nat \ {0}

StartsTypeOK ==
    /\ start \in [Starts ->
          [at : {"none", "send", "session", "row", "remember", "flow",
                 "answered", "refused", "cut"},
           live : BOOLEAN, key : StartKeys, source : {Draft} \cup Starts,
           run : {0} \cup Starts, beside : SUBSET Starts]]
    /\ DOMAIN remembered \subseteq StartKeys
    /\ \A k \in DOMAIN remembered :
          remembered[k] \in [source : {Draft} \cup Starts, run : Starts]
    /\ tested \subseteq Starts
    /\ DOMAIN rows \subseteq Starts /\ \A r \in DOMAIN rows : rows[r] \in 0..RunEnd
    /\ DOMAIN home \subseteq Starts /\ \A r \in DOMAIN home : home[r] \in 1..RunEnd
    /\ reported \in [Starts -> 0..RunEnd]
    /\ wire \in Seq({Off} \cup Starts)
    /\ flowOn \in BOOLEAN /\ homeOn \in BOOLEAN
    /\ lost \in 0..MaxLost /\ restarts \in 0..MaxLost /\ lost + restarts <= MaxLost

StartsInit ==
    /\ start = [q \in Starts |-> [at |-> "none", live |-> FALSE, key |-> CHOOSE k \in StartKeys : TRUE,
                                  source |-> Draft, run |-> 0, beside |-> {}]]
    /\ remembered = << >> /\ tested = {} /\ rows = << >>
    /\ flowOn = TRUE /\ homeOn = TRUE
    /\ wire = << >> /\ home = << >>
    /\ reported = [q \in Starts |-> 0]
    /\ lost = 0 /\ restarts = 0

Underway(q) == start[q].at \notin {"none", "answered", "refused", "cut"}
MovesOn(q, at) == start' = [start EXCEPT ![q].at = at]
Replies(q, r) == start' = [start EXCEPT ![q].at = "answered", ![q].run = r]
Fresh(q) == start[q].at = "none" /\ \A i \in 1..(q - 1) : start[i].at # "none"

-----------------------------------------------------------------------------
(* A test. *)

\* recallIdempotency: the answer of the key, a refusal if it is of another
\* request, or the way to go.  All rows are of one kind: no other request than
\* a test is remembered.
Recall(q, k, source) ==
    /\ Fresh(q) /\ source \in {Draft} \cup 1..(q - 1)
    /\ start' = [start EXCEPT ![q] =
          [at |-> IF k \notin DOMAIN remembered THEN "send"
                  ELSE IF remembered[k].source = source THEN "answered" ELSE "refused",
           live |-> FALSE, key |-> k, source |-> source,
           run |-> IF k \in DOMAIN remembered /\ remembered[k].source = source
                   THEN remembered[k].run ELSE 0,
           beside |-> {i \in Starts : Underway(i) /\ start[i].key = k}]]
    /\ UNCHANGED <<remembered, tested, rows, flowOn, wire, home, homeOn, reported, lost, restarts>>

\* resolveArtifact: a run is replayed from its test session, or from the revision
\* it ran, which the draft of a test is not.
Resolves(q) ==
    LET r == start[q].source
    IN  r = Draft \/ (r \in DOMAIN rows /\ (r \in tested \/ start[r].live))

\* run.start is sent, unless the runtime is offline.
SendTest(q) ==
    /\ start[q].at = "send"
    /\ \/ Resolves(q) /\ wire' = Append(wire, q) /\ MovesOn(q, "session")
       \/ MovesOn(q, "refused") /\ UNCHANGED wire
    /\ UNCHANGED <<remembered, tested, rows, flowOn, home, homeOn, reported, lost, restarts>>

InsertSession(q) ==
    /\ start[q].at = "session"
    /\ tested' = tested \cup {q} /\ MovesOn(q, "row")
    /\ UNCHANGED <<remembered, rows, flowOn, wire, home, homeOn, reported, lost, restarts>>

\* upsertRunSummary: the row does not go back.
Upsert(r, seq) ==
    rows' = [s \in {r} \cup DOMAIN rows |->
                IF s = r /\ (r \notin DOMAIN rows \/ rows[r] <= seq) THEN seq ELSE rows[s]]

\* insertAcceptedRun: as if a summary without events had come.
InsertAccepted(q) ==
    /\ start[q].at = "row"
    /\ Upsert(q, 0) /\ MovesOn(q, "remember")
    /\ UNCHANGED <<remembered, tested, flowOn, wire, home, homeOn, reported, lost, restarts>>

\* putIdempotency: the first answer of a key stays.
PutIdempotency(q) ==
    /\ start[q].at = "remember"
    /\ LET k == start[q].key IN
         remembered' = [l \in {k} \cup DOMAIN remembered |->
            IF l \in DOMAIN remembered THEN remembered[l]
            ELSE [source |-> start[q].source, run |-> q]]
    /\ Replies(q, q)
    /\ UNCHANGED <<tested, rows, flowOn, wire, home, homeOn, reported, lost, restarts>>

-----------------------------------------------------------------------------
(* A live run, and the end of the deployment. *)

\* startLiveRun reads the deployment ...
AskLive(q, k) ==
    /\ Fresh(q) /\ flowOn
    /\ start' = [start EXCEPT ![q] = [at |-> "flow", live |-> TRUE, key |-> k,
                                      source |-> Draft, run |-> 0, beside |-> {}]]
    /\ UNCHANGED <<remembered, tested, rows, flowOn, wire, home, homeOn, reported, lost, restarts>>

\* ... and sends run.start.
SendLive(q) ==
    /\ start[q].at = "flow"
    /\ \/ wire' = Append(wire, q) /\ MovesOn(q, "answered")
       \/ MovesOn(q, "refused") /\ UNCHANGED wire
    /\ UNCHANGED <<remembered, tested, rows, flowOn, home, homeOn, reported, lost, restarts>>

\* The flow is deactivated meanwhile.
Deactivated ==
    /\ flowOn /\ flowOn' = FALSE
    /\ wire' = Append(wire, Off)
    /\ UNCHANGED <<start, remembered, tested, rows, home, homeOn, reported, lost, restarts>>

-----------------------------------------------------------------------------
(* The runtime and the way to it and back. *)

\* startFromCloud: a test is a run of the number the cloud gave it, and a live
\* run starts although the deployment is off by now.
StartFromCloud ==
    /\ wire # << >> /\ wire' = Tail(wire)
    /\ IF Head(wire) = Off
       THEN homeOn' = FALSE /\ UNCHANGED home
       ELSE home' = [r \in {Head(wire)} \cup DOMAIN home |->
                        IF r = Head(wire) THEN 1 ELSE home[r]] /\ UNCHANGED homeOn
    /\ UNCHANGED <<start, remembered, tested, rows, flowOn, reported, lost, restarts>>

\* The socket dies: what was sent last, or all of it, never arrives, and nothing is sent
\* again.
LosesWire ==
    /\ lost + restarts < MaxLost
    /\ \E n \in 0..(Len(wire) - 1) : wire' = SubSeq(wire, 1, n)
    /\ lost' = lost + 1
    /\ UNCHANGED <<start, remembered, tested, rows, flowOn, home, homeOn, reported, restarts>>

GoesOn(r) ==
    /\ r \in DOMAIN home /\ home[r] < RunEnd
    /\ home' = [home EXCEPT ![r] = @ + 1]
    /\ UNCHANGED <<start, remembered, tested, rows, flowOn, wire, homeOn, reported, lost, restarts>>

\* The next summary of the run arrives (SyncJournal).
Arrives(r) ==
    /\ r \in DOMAIN home /\ reported[r] < home[r]
    /\ reported' = [reported EXCEPT ![r] = @ + 1]
    /\ Upsert(r, reported[r] + 1)
    /\ UNCHANGED <<start, remembered, tested, flowOn, wire, home, homeOn, lost, restarts>>

\* The API restarts: the requests it was at end.
ApiRestarts ==
    /\ lost + restarts < MaxLost /\ \E q \in Starts : Underway(q)
    /\ restarts' = restarts + 1
    /\ start' = [q \in Starts |-> IF Underway(q) THEN [start[q] EXCEPT !.at = "cut"] ELSE start[q]]
    /\ UNCHANGED <<remembered, tested, rows, flowOn, wire, home, homeOn, reported, lost>>

StartsNext ==
    \/ \E q \in Starts, k \in StartKeys :
          AskLive(q, k) \/ \E source \in {Draft} \cup Starts : Recall(q, k, source)
    \/ \E q \in Starts :
          \/ SendTest(q) \/ InsertSession(q) \/ InsertAccepted(q) \/ PutIdempotency(q)
          \/ SendLive(q) \/ GoesOn(q) \/ Arrives(q)
    \/ Deactivated \/ StartFromCloud \/ LosesWire \/ ApiRestarts

StartsSpec == StartsInit /\ [][StartsNext]_startVars

-----------------------------------------------------------------------------
\* What is answered can be looked up and replayed: the run has its row, and its
\* session.
AnsweredIsKnown ==
    \A q \in Starts : start[q].at = "answered" /\ ~start[q].live =>
        start[q].run \in DOMAIN rows /\ start[q].run \in tested

\* A row shows the last summary that arrived, also when the summary was faster
\* than the row of the accepted run.
RowsAreCurrent == \A r \in DOMAIN rows : rows[r] = reported[r]

\* A key gives two runs only to requests that were made at once, or when the API
\* went down under one of them.
StraysHaveCause ==
    \A q \in Starts : start[q].at = "answered" /\ ~start[q].live =>
        \A i \in Starts : /\ i # start[q].run /\ i \in DOMAIN home
                          /\ ~start[i].live /\ start[i].key = start[q].key
            => \/ start[i].at = "cut"
               \/ \E j \in Starts : i \in start[j].beside \/ j \in start[i].beside

(***************************************************************************)
(* A test that is answered exists for all who ask about it, what is shown  *)
(* of it does not go back, and a repeated request does not run it again.   *)
(***************************************************************************)
SessionsHold == AnsweredIsKnown /\ RowsAreCurrent /\ StraysHaveCause

-----------------------------------------------------------------------------
(* None of the following is so: see README. *)

\* The same key and the same body give the same answer.
SameKeySameAnswer ==
    \A q, i \in Starts :
        /\ start[q].at = "answered" /\ start[i].at = "answered"
        /\ ~start[q].live /\ ~start[i].live
        /\ start[q].key = start[i].key /\ start[q].source = start[i].source
        => start[q].run = start[i].run

\* A test that was accepted runs.
AcceptedRuns ==
    \A q \in Starts : start[q].at = "answered" /\ wire = << >> => start[q].run \in DOMAIN home \/ start[q].live

\* A run that is shown can be replayed, once its request is over.
ShownCanReplay == \A r \in DOMAIN rows : Underway(r) \/ start[r].live \/ r \in tested

\* No live run is asked for after the flow was deactivated.
LiveRunsAreActive ==
    \A i, j \in DOMAIN wire : i < j /\ wire[i] = Off => wire[j] = Off \/ ~start[wire[j]].live
=============================================================================
