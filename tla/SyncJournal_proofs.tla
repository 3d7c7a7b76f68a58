------------------------- MODULE SyncJournal_proofs -------------------------
(***************************************************************************)
(* For any number of runs, rows, sockets and failures: the types, and that *)
(* an acknowledgement is never for a row the cloud does not have; that     *)
(* every row arrives where no handler failed; and that no raw row waits    *)
(* while capture is off.                                                   *)
(*                                                                         *)
(* Acknowledgements are on their way while sockets come and go, so the     *)
(* invariant speaks of every place a number can be: the cursor, what a     *)
(* handler has read of it, the messages to the runtime and the rows.       *)
(* A row the cloud does not have is itself in such a place: on its way on  *)
(* the socket that is open, or in the hands of a handler (ArriveInv).      *)
(* With them the journal implements RowDelivery.                           *)
(***************************************************************************)
EXTENDS SyncJournal, SequenceLemmas, TLAPS

\* What a row of the journal says is well typed once it is sent.
LEMMA BatchType ==
    ASSUME NEW s \in Streams, NEW i \in Nat, NEW row \in Rows
    PROVE  Batch(s, i, row) \in UpBatch
BY DEF Batch, UpBatch, Rows

\* Emptied rows are rows.
LEMMA EmptiedType ==
    ASSUME NEW rows \in Seq(Rows)
    PROVE  /\ Emptied(rows) \in Seq(Rows)
           /\ Len(Emptied(rows)) = Len(rows)
           /\ \A i \in 1..Len(rows) : Emptied(rows)[i].acked = rows[i].acked
<1>1. \A i \in 1..Len(rows) : rows[i] \in Rows
    OBVIOUS
<1>2. \A row \in Rows : [row EXCEPT !.tombstone = TRUE] \in Rows
    BY DEF Rows
<1>3. Emptied(rows) = [i \in 1..Len(rows) |-> IF rows[i].acked THEN rows[i]
                                             ELSE [rows[i] EXCEPT !.tombstone = TRUE]]
    BY DEF Emptied
<1>4. \A i \in 1..Len(rows) : Emptied(rows)[i] \in Rows
    BY <1>1, <1>2, <1>3
<1>5. Emptied(rows) \in Seq(Rows) /\ Len(Emptied(rows)) = Len(rows)
    BY <1>3, <1>4, Len(rows) \in Nat
<1>6. \A i \in 1..Len(rows) : Emptied(rows)[i].acked = rows[i].acked
    BY <1>1, <1>3 DEF Rows
<1> QED BY <1>5, <1>6

\* The acknowledged rows of a journal are its first ones.
AckedFirst(rows) ==
    \E n \in 0..Len(rows) : \A i \in 1..Len(rows) : rows[i].acked <=> i <= n

\* What is sent again are messages of rows.
LEMMA UnackedType ==
    ASSUME NEW s \in Streams, NEW rows \in Seq(Rows), AckedFirst(rows)
    PROVE  Unacked(s, rows) \in Seq(UpMessages)
<1> DEFINE P(n) == \A i \in 1..Len(rows) : rows[i].acked <=> i <= n
           acked == CHOOSE n \in 0..Len(rows) : P(n)
<1>1. acked \in 0..Len(rows)
    BY DEF AckedFirst
<1>2. PICK k \in 0..Len(rows) : k = acked
    BY <1>1
<1>3. \A i \in 1..(Len(rows) - k) : Batch(s, k + i, rows[k + i]) \in UpMessages
    <2> SUFFICES ASSUME NEW i \in 1..(Len(rows) - k)
                 PROVE  Batch(s, k + i, rows[k + i]) \in UpMessages
        OBVIOUS
    <2>1. k + i \in 1..Len(rows)
        OBVIOUS
    <2>2. rows[k + i] \in Rows /\ k + i \in Nat
        BY <2>1
    <2> QED BY <2>2, BatchType DEF UpMessages
<1>4. [i \in 1..(Len(rows) - k) |-> Batch(s, k + i, rows[k + i])] \in Seq(UpMessages)
    <2>1. Len(rows) - k \in Nat
        OBVIOUS
    <2> HIDE DEF acked
    <2> QED BY <1>3, <2>1
<1> QED BY <1>2, <1>4 DEF Unacked

\* What an acknowledgement makes of the rows of its stream.
AckUpTo(rows, n) ==
    [i \in DOMAIN rows |-> IF i <= n THEN [rows[i] EXCEPT !.acked = TRUE] ELSE rows[i]]

LEMMA AckType ==
    ASSUME NEW rows \in Seq(Rows), NEW n \in Nat, AckedFirst(rows)
    PROVE  /\ AckUpTo(rows, n) \in Seq(Rows)
           /\ Len(AckUpTo(rows, n)) = Len(rows)
           /\ AckedFirst(AckUpTo(rows, n))
           /\ \A i \in 1..Len(rows) : AckUpTo(rows, n)[i].acked <=> rows[i].acked \/ i <= n
<1> DEFINE new == AckUpTo(rows, n)
<1>1. \A i \in 1..Len(rows) : rows[i] \in Rows
    OBVIOUS
<1>2. \A row \in Rows : [row EXCEPT !.acked = TRUE] \in Rows
    BY DEF Rows
<1>3. new = [i \in 1..Len(rows) |-> IF i <= n THEN [rows[i] EXCEPT !.acked = TRUE]
                                    ELSE rows[i]]
    BY DEF AckUpTo
<1>4. \A i \in 1..Len(rows) : new[i] \in Rows
    BY <1>1, <1>2, <1>3
<1>5. new \in Seq(Rows) /\ Len(new) = Len(rows)
    BY <1>3, <1>4, Len(rows) \in Nat
<1>6. \A i \in 1..Len(rows) : new[i].acked <=> rows[i].acked \/ i <= n
    BY <1>1, <1>3 DEF Rows
<1>7. AckedFirst(new)
    <2> HIDE DEF new
    <2>1. PICK k \in 0..Len(rows) : \A i \in 1..Len(rows) : rows[i].acked <=> i <= k
        BY DEF AckedFirst
    <2>2. CASE n <= k
        <3>1. \A i \in 1..Len(new) : new[i].acked <=> i <= k
            BY <1>5, <1>6, <2>1, <2>2
        <3> QED BY <1>5, <3>1 DEF AckedFirst
    <2>3. CASE k < n /\ n <= Len(rows)
        <3>1. \A i \in 1..Len(new) : new[i].acked <=> i <= n
            BY <1>5, <1>6, <2>1, <2>3
        <3> QED BY <1>5, <2>3, <3>1 DEF AckedFirst
    <2>4. CASE Len(rows) < n
        <3>1. \A i \in 1..Len(new) : new[i].acked <=> i <= Len(rows)
            BY <1>5, <1>6, <2>1, <2>4
        <3> QED BY <1>5, <3>1, Len(rows) \in 0..Len(rows) DEF AckedFirst
    <2> QED BY <2>2, <2>3, <2>4
<1> QED BY <1>5, <1>6, <1>7

\* Emptying keeps what was acknowledged first.
LEMMA EmptiedFirst ==
    ASSUME NEW rows \in Seq(Rows), AckedFirst(rows)
    PROVE  AckedFirst(Emptied(rows))
BY EmptiedType DEF AckedFirst

\* A new row is not acknowledged.
LEMMA AppendFirst ==
    ASSUME NEW rows \in Seq(Rows), NEW row \in Rows, ~row.acked, AckedFirst(rows)
    PROVE  AckedFirst(Append(rows, row))
<1>1. PICK k \in 0..Len(rows) : \A i \in 1..Len(rows) : rows[i].acked <=> i <= k
    BY DEF AckedFirst
<1>2. Len(Append(rows, row)) = Len(rows) + 1 /\ k \in 0..Len(Append(rows, row))
    OBVIOUS
<1>3. \A i \in 1..(Len(rows) + 1) : Append(rows, row)[i].acked <=> i <= k
    <2> TAKE i \in 1..(Len(rows) + 1)
    <2>1. CASE i = Len(rows) + 1
        BY <2>1
    <2>2. CASE i \in 1..Len(rows)
        BY <1>1, <2>2
    <2> QED BY <2>1, <2>2
<1> QED BY <1>2, <1>3 DEF AckedFirst
-----------------------------------------------------------------------------
\* Every number that may become an acknowledgement stands for rows that are
\* stored, and what is acknowledged are the first rows.
AckInv ==
    /\ \A s \in Streams : AckedFirst(journal[s])
    /\ \A s \in Streams : \A i \in 1..Len(journal[s]) :
           journal[s][i].acked => i \in stored[s]
    /\ \A s \in Streams : 1..cursor[s] \subseteq stored[s]
    /\ \A i \in 1..Len(down) :
           down[i] \in Acks => 1..down[i].seq \subseteq stored[down[i].stream]
    /\ \A g \in Sockets :
           handler[g].at \in {"cursor", "pending", "write", "upsert"} =>
               handler[g].message \in UpBatch
    /\ \A g \in Sockets :
           handler[g].at \in {"pending", "write"} =>
               1..handler[g].last \subseteq stored[handler[g].message.stream]

\* The messages of a socket after some of them were taken or lost.
LEMMA PrefixType ==
    ASSUME NEW S, NEW q \in Seq(S), NEW n \in 0..Len(q)
    PROVE  SubSeq(q, 1, n) \in Seq(S)
OBVIOUS

LEMMA HeadTail ==
    ASSUME NEW S, NEW q \in Seq(S), q # <<>>
    PROVE  Head(q) \in S /\ Tail(q) \in Seq(S)
OBVIOUS

\* What is sent down is typed, and adds the message at most.
LEMMA SendDownType ==
    ASSUME TypeOK, NEW m \in Acks \cup Policies, SendDown(m)
    PROVE  /\ down' \in Seq(Acks \cup Policies)
           /\ \A i \in 1..Len(down') : down'[i] = m \/ \E j \in 1..Len(down) : down'[i] = down[j]
<1>1. down \in Seq(Acks \cup Policies)
    BY DEF TypeOK
<1>2. CASE down' = down
    BY <1>1, <1>2
<1>3. CASE down' = Append(down, m)
    <2>1. down' \in Seq(Acks \cup Policies)
        BY <1>1, <1>3
    <2>2. \A i \in 1..Len(down) : down'[i] = down[i]
        BY <1>1, <1>3
    <2>3. Len(down') = Len(down) + 1 /\ down'[Len(down) + 1] = m
        BY <1>1, <1>3
    <2>4. Len(down) \in Nat
        BY <1>1
    <2>5. \A i \in 1..(Len(down) + 1) : i \in 1..Len(down) \/ i = Len(down) + 1
        BY <2>4
    <2> QED BY <2>1, <2>2, <2>3, <2>5
<1> QED BY <1>2, <1>3 DEF SendDown

\* A transition that is committed is published next; nothing else has changed.
LEMMA CommitKeeps ==
    ASSUME NEW r \in Runs, Commit(r)
    PROVE  /\ publishing = {} /\ publishing' = {r}
           /\ committed' = [committed EXCEPT ![r] = @ + 1]
           /\ UNCHANGED <<journal, capture, before, lapsed, link, handler, tables, wish,
                          failures>>
BY DEF Commit, Free

\* What is published writes rows of some streams, and sends them.
LEMMA AfterCommitRecords ==
    ASSUME TypeOK, AfterCommit
    PROVE  \E r \in Runs, written \in SUBSET Streams, told \in BOOLEAN :
               Records(r, written, told)
<1>1. PICK r \in publishing : Publish(r) \/ Lapse(r)
    BY DEF AfterCommit
<1>2. r \in Runs /\ Wanted \in SUBSET Streams
    BY DEF TypeOK, Wanted, Streams
<1>3. PICK told : told = TRUE
    OBVIOUS
<1>4. CASE Publish(r)
    <2>1. Records(r, Wanted, told)
        BY <1>3, <1>4 DEF Publish
    <2> QED BY <1>2, <1>3, <2>1
<1>5. CASE Lapse(r)
    <2>1. PICK written \in (SUBSET Wanted) \ {Wanted}, heard \in BOOLEAN :
              Records(r, written, heard)
        BY <1>5 DEF Lapse
    <2> QED BY <1>2, <2>1
<1> QED BY <1>1, <1>4, <1>5

LEMMA RecordsKeep ==
    ASSUME NEW r, NEW written, NEW told, Records(r, written, told)
    PROVE  UNCHANGED <<committed, capture, before, socket, open, down, hub, clean, handler,
                       stored, cursor, summary, policy, pushes, changes, failures>>
BY DEF Records, tables, wish

LEMMA AfterCommitKeeps ==
    ASSUME TypeOK, AfterCommit
    PROVE  UNCHANGED <<committed, capture, before, socket, open, down, hub, clean, handler,
                       stored, cursor, summary, policy, pushes, changes, failures>>
BY AfterCommitRecords, RecordsKeep

\* What is published of a transition: a row of the streams that are written.
LEMMA RecordRows ==
    ASSUME TypeOK, NEW r \in Runs, NEW written \in SUBSET Streams, NEW told \in BOOLEAN,
           Records(r, written, told)
    PROVE  \E row \in Rows :
               /\ row = [run |-> r, last |-> committed[r], acked |-> FALSE, tombstone |-> FALSE]
               /\ row.run = r /\ row.last = committed[r] /\ ~row.acked
               /\ \A s \in Streams : journal'[s] = IF s \in written THEN Append(journal[s], row)
                                                   ELSE journal[s]
               /\ DOMAIN journal' = Streams
<1> DEFINE row == [run |-> r, last |-> committed[r], acked |-> FALSE, tombstone |-> FALSE]
<1>1. row \in Rows
    BY DEF Rows, TypeOK
<1>2. journal' = [s \in Streams |-> IF s \in written THEN Append(journal[s], row)
                                    ELSE journal[s]]
    BY DEF Records
<1>3. row.run = r /\ row.last = committed[r] /\ ~row.acked
    OBVIOUS
<1>4. /\ \A s \in Streams : journal'[s] = IF s \in written THEN Append(journal[s], row)
                                             ELSE journal[s]
      /\ DOMAIN journal' = Streams
    <2> HIDE DEF row
    <2> QED BY <1>2
<1> QED BY <1>1, <1>3, <1>4

\* A row of a stream, if it is written, and the message that carries it.
Sent(r, written, s) ==
    IF s \in written
    THEN <<Batch(s, Len(journal[s]) + 1, [run |-> r, last |-> committed[r], acked |-> FALSE,
                                          tombstone |-> FALSE])>>
    ELSE <<>>

\* What is sent of a transition.
Told(r, written, told) ==
    (IF told THEN <<[type |-> "run.summary", run |-> r, last |-> committed[r]]>> ELSE <<>>)
      \o Sent(r, written, "summary") \o Sent(r, written, "raw")

LEMMA RecordMessages ==
    ASSUME TypeOK, NEW r \in Runs, NEW written \in SUBSET Streams, NEW told \in BOOLEAN,
           Records(r, written, told)
    PROVE  /\ Send(Told(r, written, told))
           /\ Told(r, written, told) \in Seq(UpMessages)
           /\ \A e : Has(Told(r, written, told), e) <=>
                  \/ told /\ e = [type |-> "run.summary", run |-> r, last |-> committed[r]]
                  \/ Has(Sent(r, written, "summary"), e)
                  \/ Has(Sent(r, written, "raw"), e)
           /\ \A s \in Streams : Sent(r, written, s) \in Seq(UpBatch)
<1> DEFINE first == [type |-> "run.summary", run |-> r, last |-> committed[r]]
           row == [run |-> r, last |-> committed[r], acked |-> FALSE, tombstone |-> FALSE]
           a == IF told THEN <<first>> ELSE <<>>
<1>1. Send(Told(r, written, told))
    BY DEF Records, Told, Sent
<1>2. first \in UpMessages /\ row \in Rows
    BY DEF UpMessages, UpRun, Rows, TypeOK
<1>3. ASSUME NEW s \in Streams
      PROVE  Sent(r, written, s) \in Seq(UpBatch) /\ Sent(r, written, s) \in Seq(UpMessages)
    <2>1. Len(journal[s]) + 1 \in Nat
        BY DEF TypeOK
    <2>2. PICK m \in UpBatch : m = Batch(s, Len(journal[s]) + 1, row)
        BY <1>2, <2>1, BatchType
    <2>3. Sent(r, written, s) = IF s \in written THEN <<m>> ELSE <<>>
        BY <2>2 DEF Sent
    <2>4. m \in UpMessages
        BY DEF UpMessages
    <2> QED BY <2>3, <2>4
<1>4. "summary" \in Streams /\ "raw" \in Streams
    BY DEF Streams
<1>5. a \in Seq(UpMessages) /\ \A e : Has(a, e) <=> told /\ e = first
    <2> HIDE DEF first
    <2>1. CASE told
        BY <1>2, <2>1, HasOne
    <2>2. CASE ~told
        <3>1. a = <<>>
            BY <2>2
        <3>2. DOMAIN a = {} /\ a \in Seq(UpMessages)
            BY <3>1
        <3> HIDE DEF a
        <3> QED BY <2>2, <3>2 DEF Has
    <2> QED BY <2>1, <2>2
<1>6. PICK b \in Seq(UpMessages) : b = Sent(r, written, "summary")
    BY <1>3, <1>4
<1>7. PICK c \in Seq(UpMessages) : c = Sent(r, written, "raw")
    BY <1>3, <1>4
<1>8. Told(r, written, told) = (a \o b) \o c
    BY <1>6, <1>7 DEF Told
<1> HIDE DEF a, first
<1>9. a \o b \in Seq(UpMessages)
    BY <1>5
<1>10. /\ \A e : Has(a \o b, e) <=> Has(a, e) \/ Has(b, e)
       /\ \A e : Has((a \o b) \o c, e) <=> Has(a \o b, e) \/ Has(c, e)
    BY <1>5, <1>9, HasConcat
<1>11. (a \o b) \o c \in Seq(UpMessages)
    BY <1>9
<1> QED BY <1>1, <1>3, <1>5, <1>6, <1>7, <1>8, <1>10, <1>11 DEF first

LEMMA InitInv == Init => TypeOK /\ AckInv
<1> SUFFICES ASSUME Init PROVE TypeOK /\ AckInv
    OBVIOUS
<1> USE SyncAssumption DEF Init
<1>1. Idle \in Handlers
    BY DEF Idle, Hello, Handlers, UpHello
<1>2. handler \in [Sockets -> Handlers] /\ up \in [Sockets -> Seq(UpMessages)]
    BY <1>1
<1>3. journal \in [Streams -> Seq(Rows)] /\ \A s \in Streams : journal[s] = <<>>
    OBVIOUS
<1>4. TypeOK
    <2>1. MaxSockets \in Nat /\ MaxChanges \in Nat /\ MaxFailures \in Nat
        OBVIOUS
    <2>2. /\ socket \in 0..MaxSockets /\ hub \in 0..MaxSockets
          /\ changes \in 0..MaxChanges /\ failures \in 0..MaxFailures
        BY <2>1
    <2>3. down \in Seq(Acks \cup Policies) /\ pushes \subseteq Pushes
        OBVIOUS
    <2>4. stored \in [Streams -> SUBSET Nat] /\ cursor \in [Streams -> Nat]
        OBVIOUS
    <2>5. committed \in [Runs -> Nat] /\ summary \in [Runs -> Nat] /\ before \in [Runs -> Nat]
        OBVIOUS
    <2>6. capture \in BOOLEAN /\ policy \in BOOLEAN /\ open \in BOOLEAN /\ clean \in BOOLEAN
        OBVIOUS
    <2>7. publishing \in {{}} \cup {{r} : r \in Runs} /\ lapsed \subseteq Runs
        OBVIOUS
    <2> QED BY ONLY <1>2, <1>3, <2>2, <2>3, <2>4, <2>5, <2>6, <2>7 DEF TypeOK
<1>5. \A s \in Streams : AckedFirst(journal[s])
    BY <1>3 DEF AckedFirst
<1>6. \A g \in Sockets : handler[g].at = "idle"
    BY DEF Idle
<1>7. \A s \in Streams : cursor[s] = 0 /\ 1..cursor[s] = {} /\ Len(journal[s]) = 0
    BY <1>3
<1>8. AckInv
    BY <1>5, <1>6, <1>7 DEF AckInv
<1> QED BY <1>4, <1>8

\* The types of the runtime's rows and of the sockets.
LEMMA TypeStep == TypeOK /\ AckInv /\ [Next]_vars => TypeOK'
<1> SUFFICES ASSUME TypeOK, AckInv, [Next]_vars PROVE TypeOK'
    OBVIOUS
<1> USE SyncAssumption DEF TypeOK
<1>first. \A s \in Streams : journal[s] \in Seq(Rows) /\ AckedFirst(journal[s])
    BY DEF AckInv
<1>up. ASSUME NEW g \in Sockets
       PROVE  up[g] \in Seq(UpMessages)
    OBVIOUS
<1>idle. Idle \in Handlers /\ [Idle EXCEPT !.at = "hello"] \in Handlers
    BY DEF Idle, Hello, Handlers, UpHello
<1>goes. ASSUME NEW g \in Sockets, NEW h \in Handlers, Goes(g, h)
         PROVE  handler' \in [Sockets -> Handlers]
    BY <1>goes DEF Goes
<1>take. ASSUME NEW g \in Sockets, NEW m, Take(g, m)
         PROVE  m \in UpMessages /\ up' \in [Sockets -> Seq(UpMessages)]
    <2>1. Head(up[g]) \in UpMessages /\ Tail(up[g]) \in Seq(UpMessages)
        BY <1>up, <1>take, HeadTail DEF Take, Waits
    <2> QED BY <1>take, <2>1 DEF Take, Waits
<1>upsert. ASSUME NEW m, m.run \in Runs, m.last \in Nat
           PROVE  Upsert(m) \in [Runs -> Nat]
    BY <1>upsert DEF Upsert
<1>acknowledged. ASSUME NEW m \in UpBatch
                 PROVE  Acknowledged(m) \in Handlers
    BY <1>idle DEF Acknowledged, Idle, Handlers
<1>1. ASSUME NEW r \in Runs, Commit(r) PROVE TypeOK'
    <2>1. committed' \in [Runs -> Nat]
        <3>1. committed' = [committed EXCEPT ![r] = committed[r] + 1]
            BY <1>1, CommitKeeps
        <3>2. committed[r] + 1 \in Nat
            OBVIOUS
        <3> QED BY <3>1, <3>2
    <2>2. publishing' \in {{}} \cup {{k} : k \in Runs}
        BY <1>1, CommitKeeps
    <2> QED BY <1>1, <2>1, <2>2, CommitKeeps DEF link, tables, wish
<1>1a. ASSUME NEW r \in Runs, NEW written \in SUBSET Streams, NEW told \in BOOLEAN,
              Records(r, written, told)
       PROVE  TypeOK'
    <2>1. PICK row \in Rows : \A s \in Streams : journal'[s] = IF s \in written
                                     THEN Append(journal[s], row) ELSE journal[s]
        <3> HIDE DEF TypeOK
        <3> QED BY <1>1a, RecordRows
    <2>2. ASSUME NEW s \in Streams PROVE journal'[s] \in Seq(Rows)
        <3>1. PICK q \in Seq(Rows) : q = journal[s]
            BY <1>first
        <3>2. Append(q, row) \in Seq(Rows)
            OBVIOUS
        <3> QED BY <2>1, <3>1, <3>2
    <2>3. journal' \in [Streams -> Seq(Rows)]
        BY <1>1a, <2>2 DEF Records
    <2>4. PICK messages \in Seq(UpMessages) : Send(messages)
        BY <1>1a, RecordMessages
    <2>5. up' \in [Sockets -> Seq(UpMessages)]
        <3>1. CASE socket \in Sockets
            <4>1. up[socket] \o messages \in Seq(UpMessages)
                BY <3>1
            <4> QED BY <2>4, <3>1, <4>1 DEF Send
        <3>2. CASE socket \notin Sockets
            BY <2>4, <3>2 DEF Send
        <3> QED BY <3>1, <3>2
    <2>6. publishing' \in {{}} \cup {{k} : k \in Runs} /\ lapsed' \subseteq Runs
        BY <1>1a DEF Records
    <2> QED BY <1>1a, <2>3, <2>5, <2>6, RecordsKeep
<1>2. CASE Retain
    BY <1>2, <1>first, EmptiedType DEF Retain, link, tables, wish, Streams
<1>3. CASE Connect
    <2>1. Gated \in Seq(Rows) /\ AckedFirst(Gated)
        BY <1>first, EmptiedType, EmptiedFirst DEF Gated, Streams
    <2>2. Unacked("summary", journal["summary"]) \in Seq(UpMessages)
        BY <1>first, UnackedType DEF Streams
    <2>3. Unacked("raw", Gated) \in Seq(UpMessages)
        BY <2>1, UnackedType DEF Streams
    <2>4. <<Hello>> \in Seq(UpMessages)
        BY DEF Hello, UpMessages, UpHello
    <2>4a. \A a, b, c \in Seq(UpMessages) : a \o b \o c \in Seq(UpMessages)
        OBVIOUS
    <2>5. PICK messages \in Seq(UpMessages) :
              messages = <<Hello>> \o Unacked("summary", journal["summary"])
                                   \o Unacked("raw", Gated)
        BY ONLY <2>2, <2>3, <2>4, <2>4a
    <2>6. up' = [up EXCEPT ![socket + 1] = messages]
        BY <1>3, <2>5 DEF Connect
    <2>7. up' \in [Sockets -> Seq(UpMessages)]
        BY <2>6
    <2>8. journal' \in [Streams -> Seq(Rows)]
        BY <1>3, <2>1 DEF Connect
    <2>9. socket' \in 0..MaxSockets
        BY <1>3 DEF Connect
    <2> QED BY <1>3, <2>7, <2>8, <2>9 DEF Connect, tables, wish
<1>4. CASE Disconnect
    <2>1. \A n \in 0..Len(up[socket]) :
              socket \in Sockets => SubSeq(up[socket], 1, n) \in Seq(UpMessages)
        BY PrefixType
    <2>2. PICK n \in 0..Len(up[socket]) : up' = [up EXCEPT ![socket] = SubSeq(@, 1, n)]
        BY <1>4 DEF Disconnect
    <2>3. up' \in [Sockets -> Seq(UpMessages)]
        BY <2>1, <2>2
    <2>4. down' \in Seq(Acks \cup Policies)
        BY <1>4 DEF Disconnect
    <2> QED BY <1>4, <2>3, <2>4 DEF Disconnect, runtime, tables, wish
<1>5. ASSUME NEW m, ReceiveAck(m) PROVE TypeOK'
    <2>1. m \in Acks /\ down' \in Seq(Acks \cup Policies)
        BY <1>5, HeadTail DEF ReceiveAck, Receive
    <2>2. m.stream \in Streams /\ m.seq \in Nat
        BY <2>1 DEF Acks
    <2>3. journal' = [journal EXCEPT ![m.stream] = AckUpTo(journal[m.stream], m.seq)]
        BY <1>5 DEF ReceiveAck, AckUpTo
    <2>4. journal' \in [Streams -> Seq(Rows)]
        BY <1>first, <2>2, <2>3, AckType
    <2> QED BY <1>5, <2>1, <2>4 DEF ReceiveAck, tables, wish
<1>6. ASSUME NEW m, ReceivePolicy(m) PROVE TypeOK'
    <2>1. m \in Policies /\ down' \in Seq(Acks \cup Policies)
        BY <1>6, HeadTail DEF ReceivePolicy, Receive
    <2>2. capture' \in BOOLEAN /\ before' \in [Runs -> Nat]
        BY <1>6, <2>1 DEF ReceivePolicy, Policies
    <2>3. journal' \in [Streams -> Seq(Rows)]
        BY <1>6, <1>first, EmptiedType DEF ReceivePolicy, RawAfterPolicy, Streams
    <2> QED BY <1>6, <2>1, <2>2, <2>3 DEF ReceivePolicy, tables, wish
<1>7. ASSUME NEW g \in Sockets, Handle(g) PROVE TypeOK'
    <2>1. CASE TakeHello(g)
        <3>1. up' \in [Sockets -> Seq(UpMessages)]
            BY <1>take, <2>1 DEF TakeHello
        <3>2. handler' \in [Sockets -> Handlers]
            BY <1>goes, <1>idle, <2>1 DEF TakeHello
        <3>3. hub' \in 0..MaxSockets
            BY <2>1 DEF TakeHello, Sockets
        <3> QED BY <2>1, <3>1, <3>2, <3>3 DEF TakeHello, runtime, tables, wish
    <2>2. CASE LateHello(g)
        <3>1. PICK n \in 0..Len(up[socket]) :
                  up' = [up EXCEPT ![g] = Tail(@), ![socket] = SubSeq(@, 1, n)]
            BY <2>2 DEF LateHello
        <3>2. Tail(up[g]) \in Seq(UpMessages)
            BY <1>up, <2>2, HeadTail DEF LateHello, Waits
        <3>3. socket \in Sockets => SubSeq(up[socket], 1, n) \in Seq(UpMessages)
            BY PrefixType
        <3>4. up' \in [Sockets -> Seq(UpMessages)]
            <4>1. g # socket
                BY <2>2 DEF LateHello
            <4> QED BY <3>1, <3>2, <3>3, <4>1
        <3>5. handler' \in [Sockets -> Handlers]
            BY <1>goes, <1>idle, <2>2 DEF LateHello
        <3>6. down' \in Seq(Acks \cup Policies)
            BY <2>2 DEF LateHello
        <3>7. hub' \in 0..MaxSockets
            BY <2>2 DEF LateHello, Sockets
        <3> QED BY <2>2, <3>4, <3>5, <3>6, <3>7 DEF LateHello, runtime, tables, wish
    <2>3. CASE ReadPolicy(g)
        <3>1. [handler[g] EXCEPT !.at = "observations", !.capture = policy] \in Handlers
            BY DEF Handlers
        <3>2. handler' \in [Sockets -> Handlers]
            BY <1>goes, <2>3, <3>1 DEF ReadPolicy
        <3> QED BY <2>3, <3>2 DEF ReadPolicy, runtime, link, tables, wish
    <2>4. CASE SendPolicy(g)
        <3>1. [type |-> "desired.data", capture |-> handler[g].capture] \in Policies
            BY DEF Handlers, Policies
        <3>2. down' \in Seq(Acks \cup Policies)
            BY <2>4, <3>1, SendDownType DEF SendPolicy
        <3>3. handler' \in [Sockets -> Handlers]
            BY <1>goes, <1>idle, <2>4 DEF SendPolicy
        <3> QED BY <2>4, <3>2, <3>3 DEF SendPolicy, runtime, tables, wish
    <2>5. ASSUME NEW m, TakeRunSummary(g, m) PROVE TypeOK'
        <3>1. m \in UpMessages /\ up' \in [Sockets -> Seq(UpMessages)]
            BY <1>take, <2>5 DEF TakeRunSummary
        <3>2. m \in UpRun
            BY <2>5, <3>1 DEF TakeRunSummary, UpMessages, UpHello, UpBatch
        <3>3. summary' \in [Runs -> Nat]
            BY <1>upsert, <2>5, <3>2 DEF TakeRunSummary, UpRun
        <3> QED BY <2>5, <3>1, <3>3 DEF TakeRunSummary, runtime, wish
    <2>6. ASSUME NEW m, TakeBatch(g, m) PROVE TypeOK'
        <3>1. m \in UpMessages /\ up' \in [Sockets -> Seq(UpMessages)]
            BY <1>take, <2>6 DEF TakeBatch
        <3>2. m \in UpBatch
            BY <2>6, <3>1 DEF TakeBatch, UpMessages, UpHello, UpRun
        <3>3. [Idle EXCEPT !.at = "cursor", !.message = m] \in Handlers
            BY <1>idle, <3>2 DEF Idle, Handlers
        <3>4. CASE m.seq \in stored[m.stream]
            BY <2>6, <3>1, <3>4 DEF TakeBatch, runtime, wish
        <3>5. CASE m.seq \notin stored[m.stream]
            <4>1. handler' \in [Sockets -> Handlers]
                BY <1>goes, <2>6, <3>3, <3>5 DEF TakeBatch
            <4>2. stored' = [stored EXCEPT ![m.stream] = @ \cup {m.seq}]
                BY <2>6, <3>5 DEF TakeBatch
            <4>3. m.stream \in Streams /\ m.seq \in Nat
                BY <3>2 DEF UpBatch
            <4>4. stored[m.stream] \cup {m.seq} \in SUBSET Nat
                BY <4>3
            <4>5. stored' \in [Streams -> SUBSET Nat]
                BY <4>2, <4>3, <4>4
            <4> QED BY <2>6, <3>1, <4>1, <4>5 DEF TakeBatch, runtime, wish
        <3> QED BY <3>4, <3>5
    <2>7. CASE ReadCursor(g)
        <3>1. handler[g].message.stream \in Streams
            BY <2>7 DEF AckInv, ReadCursor, At, UpBatch
        <3>2. [handler[g] EXCEPT !.at = "pending",
                                 !.last = cursor[handler[g].message.stream]] \in Handlers
            BY <3>1 DEF Handlers
        <3>3. handler' \in [Sockets -> Handlers]
            BY <1>goes, <2>7, <3>2 DEF ReadCursor
        <3> QED BY <2>7, <3>3 DEF ReadCursor, runtime, link, tables, wish
    <2>8. CASE ReadPending(g)
        <3>1. handler[g].message \in UpBatch
            BY <2>8 DEF AckInv, ReadPending, At
        <3>2. PICK n \in {handler[g].last} \cup stored[handler[g].message.stream] :
                  /\ Contiguous(handler[g].message.stream, handler[g].last, n)
                  /\ Goes(g, IF n = handler[g].last THEN Acknowledged(handler[g].message)
                             ELSE [handler[g] EXCEPT !.at = "write", !.last = n])
            BY ONLY <2>8 DEF ReadPending
        <3>3. n \in Nat
            <4>1. handler[g].last \in Nat
                BY DEF Handlers
            <4>2. handler[g].message.stream \in Streams
                BY <3>1 DEF UpBatch
            <4> QED BY <4>1, <4>2
        <3>4. [handler[g] EXCEPT !.at = "write", !.last = n] \in Handlers
            BY <3>3 DEF Handlers
        <3>5. handler' \in [Sockets -> Handlers]
            BY <1>acknowledged, <1>goes, <3>1, <3>2, <3>4
        <3> QED BY <2>8, <3>5 DEF ReadPending, runtime, link, tables, wish
    <2>9. CASE WriteCursor(g)
        <3>1. handler[g].message \in UpBatch
            BY <2>9 DEF AckInv, WriteCursor, At
        <3>2. handler[g].last \in Nat /\ handler[g].message.stream \in Streams
            BY <3>1 DEF Handlers, UpBatch
        <3>3. cursor' \in [Streams -> Nat]
            BY <2>9, <3>2 DEF WriteCursor
        <3>4. [type |-> "ack", stream |-> handler[g].message.stream,
               seq |-> handler[g].last] \in Acks
            BY <3>2 DEF Acks
        <3>5. down' \in Seq(Acks \cup Policies)
            BY <2>9, <3>4, SendDownType DEF WriteCursor
        <3>6. handler' \in [Sockets -> Handlers]
            BY <1>acknowledged, <1>goes, <2>9, <3>1 DEF WriteCursor
        <3> QED BY <2>9, <3>3, <3>5, <3>6 DEF WriteCursor, runtime, wish
    <2>10. CASE Project(g)
        <3>1. handler[g].message \in UpBatch
            BY <2>10 DEF AckInv, Project, At
        <3>2. summary' \in [Runs -> Nat]
            BY <1>upsert, <2>10, <3>1 DEF Project, UpBatch
        <3>3. handler' \in [Sockets -> Handlers]
            BY <1>goes, <1>idle, <2>10 DEF Project
        <3> QED BY <2>10, <3>2, <3>3 DEF Project, runtime, link, wish
    <2> HIDE DEF TypeOK
    <2>11. CASE TakeMessage(g)
        <3>1. PICK m : TakeRunSummary(g, m) \/ TakeBatch(g, m)
            BY ONLY <2>11 DEF TakeMessage
        <3> QED BY ONLY <2>5, <2>6, <3>1
    <2> QED BY ONLY <1>7, <2>1, <2>2, <2>3, <2>4, <2>7, <2>8, <2>9, <2>10, <2>11 DEF Handle
<1>8. ASSUME NEW g \in Sockets, Close(g) PROVE TypeOK'
    <2>1. hub' \in 0..MaxSockets
        BY ONLY <1>8, SyncAssumption DEF Close
    <2>2. UNCHANGED <<committed, publishing, journal, capture, before, lapsed, socket, open, up, down, clean, handler,
                      stored, cursor, summary, policy, pushes, changes, failures>>
        BY ONLY <1>8 DEF Close, runtime, tables, wish
    <2> QED BY <2>1, <2>2
<1>9. ASSUME NEW g \in Sockets, Fail(g) PROVE TypeOK'
    <2>1. failures' \in 0..MaxFailures /\ clean' \in BOOLEAN
        BY <1>9 DEF Fail
    <2>2. CASE Goes(g, Idle) /\ UNCHANGED up
        <3>1. handler' \in [Sockets -> Handlers]
            BY <1>goes, <1>idle, <2>2
        <3> QED BY <1>9, <2>1, <2>2, <3>1 DEF Fail, runtime, tables, wish
    <2>3. ASSUME NEW m, Take(g, m), UNCHANGED handler PROVE TypeOK'
        <3>1. up' \in [Sockets -> Seq(UpMessages)]
            BY <1>take, <2>3
        <3> QED BY <1>9, <2>1, <2>3, <3>1 DEF Fail, runtime, tables, wish
    <2> HIDE DEF TypeOK
    <2> QED BY <1>9, <2>2, <2>3 DEF Fail
<1>10. CASE Restart
    <2>1. /\ handler' \in [Sockets -> Handlers]
          /\ up' \in [Sockets -> Seq(UpMessages)]
          /\ down' \in Seq(Acks \cup Policies)
        BY <1>10, <1>idle DEF Restart
    <2>2. failures' \in 0..MaxFailures /\ hub' \in 0..MaxSockets /\ pushes' \subseteq Pushes
        BY <1>10 DEF Restart
    <2> QED BY <1>10, <2>1, <2>2 DEF Restart, runtime, tables
<1>11. ASSUME NEW wanted \in BOOLEAN, ChangePolicy(wanted) PROVE TypeOK'
    <2>1. changes' \in 0..MaxChanges /\ changes + 1 \in 1..MaxChanges
        <3>1. changes \in 0..MaxChanges /\ changes < MaxChanges /\ changes' = changes + 1
            BY <1>11 DEF ChangePolicy
        <3>2. changes \in Int /\ MaxChanges \in Int
            BY <3>1, SyncAssumption
        <3> HIDE DEF TypeOK
        <3> QED BY <3>1, <3>2
    <2>2. [change |-> changes + 1, at |-> "policy", capture |-> FALSE] \in Pushes
        BY <2>1 DEF Pushes
    <2>3. pushes' \subseteq Pushes
        BY <1>11, <2>2 DEF ChangePolicy
    <2> QED BY <1>11, <2>1, <2>3 DEF ChangePolicy, runtime, link, tables
<1>12. ASSUME NEW p \in pushes, PushReads(p) PROVE TypeOK'
    <2>1. [p EXCEPT !.at = "observations", !.capture = policy] \in Pushes
        BY DEF Pushes
    <2>2. pushes' \subseteq Pushes
        BY <1>12, <2>1 DEF PushReads
    <2> QED BY <1>12, <2>2 DEF PushReads, runtime, link, tables
<1>13. ASSUME NEW p \in pushes, PushSends(p) PROVE TypeOK'
    <2>1. [type |-> "desired.data", capture |-> p.capture] \in Policies
        BY DEF Pushes, Policies
    <2>2. down' \in Seq(Acks \cup Policies)
        BY <1>13, <2>1, SendDownType DEF PushSends
    <2>3. pushes' \subseteq Pushes
        BY <1>13 DEF PushSends
    <2> QED BY <1>13, <2>2, <2>3 DEF PushSends, runtime, tables
<1>14. CASE UNCHANGED vars
    BY <1>14 DEF vars, runtime, link, tables, wish
<1> HIDE DEF TypeOK
<1> QED BY <1>1, <1>1a, <1>2, <1>3, <1>4, <1>5, <1>6, <1>7, <1>8, <1>9, <1>10, <1>11, <1>12,
           <1>13, <1>14, AfterCommitRecords DEF Next, RuntimeReceives, Push
-----------------------------------------------------------------------------
\* The parts of AckInv, for steps that disturb one of them only.
RowsInv == \A s \in Streams :
    /\ AckedFirst(journal[s])
    /\ \A i \in 1..Len(journal[s]) : journal[s][i].acked => i \in stored[s]
CursorInv == \A s \in Streams : 1..cursor[s] \subseteq stored[s]
DownInv == \A i \in 1..Len(down) :
    down[i] \in Acks => 1..down[i].seq \subseteq stored[down[i].stream]
HandlerInv == \A g \in Sockets :
    /\ handler[g].at \in {"cursor", "pending", "write", "upsert"} =>
           handler[g].message \in UpBatch
    /\ handler[g].at \in {"pending", "write"} =>
           1..handler[g].last \subseteq stored[handler[g].message.stream]

LEMMA Parts == AckInv <=> RowsInv /\ CursorInv /\ DownInv /\ HandlerInv
BY DEF AckInv, RowsInv, CursorInv, DownInv, HandlerInv

LEMMA PartsNext == AckInv' <=> RowsInv' /\ CursorInv' /\ DownInv' /\ HandlerInv'
BY DEF AckInv, RowsInv, CursorInv, DownInv, HandlerInv

\* A step that keeps the rows, and loses none of what is stored.
LEMMA KeepsRows ==
    ASSUME TypeOK, RowsInv, UNCHANGED journal, \A s \in Streams : stored[s] \subseteq stored'[s]
    PROVE  RowsInv'
BY DEF TypeOK, RowsInv, AckedFirst

LEMMA KeepsCursor ==
    ASSUME TypeOK, CursorInv, UNCHANGED cursor, \A s \in Streams : stored[s] \subseteq stored'[s]
    PROVE  CursorInv'
BY DEF CursorInv

LEMMA KeepsDown ==
    ASSUME TypeOK, DownInv, \A s \in Streams : stored[s] \subseteq stored'[s],
           \A i \in 1..Len(down') : \E j \in 1..Len(down) : down'[i] = down[j]
    PROVE  DownInv'
<1> SUFFICES ASSUME NEW i \in 1..Len(down'), down'[i] \in Acks
             PROVE  1..down'[i].seq \subseteq stored'[down'[i].stream]
    BY DEF DownInv
<1>1. PICK j \in 1..Len(down) : down'[i] = down[j]
    OBVIOUS
<1> QED BY <1>1 DEF DownInv, Acks

\* One handler goes to a state that is sound; the others stay.
LEMMA KeepsHandlers ==
    ASSUME TypeOK, HandlerInv, NEW g \in Sockets, NEW h, Goes(g, h),
           \A s \in Streams : stored[s] \subseteq stored'[s],
           h.at \in {"cursor", "pending", "write", "upsert"} => h.message \in UpBatch,
           h.at \in {"pending", "write"} => 1..h.last \subseteq stored'[h.message.stream]
    PROVE  HandlerInv'
<1> SUFFICES ASSUME NEW k \in Sockets
             PROVE  /\ handler'[k].at \in {"cursor", "pending", "write", "upsert"} =>
                           handler'[k].message \in UpBatch
                    /\ handler'[k].at \in {"pending", "write"} =>
                           1..handler'[k].last \subseteq stored'[handler'[k].message.stream]
    BY DEF HandlerInv
<1>1. handler'[k] = IF k = g THEN h ELSE handler[k]
    BY DEF Goes, TypeOK
<1>2. CASE k = g
    BY <1>1, <1>2
<1>3. CASE k # g
    BY <1>1, <1>3 DEF HandlerInv, UpBatch
<1> QED BY <1>2, <1>3

\* All handlers stay.
LEMMA KeepsAllHandlers ==
    ASSUME HandlerInv, UNCHANGED handler, \A s \in Streams : stored[s] \subseteq stored'[s]
    PROVE  HandlerInv'
BY DEF HandlerInv, UpBatch

LEMMA AckStep == TypeOK /\ AckInv /\ [Next]_vars => AckInv'
<1> SUFFICES ASSUME TypeOK, AckInv, [Next]_vars PROVE AckInv'
    OBVIOUS
<1>inv. RowsInv /\ CursorInv /\ DownInv /\ HandlerInv
    BY Parts
<1>first. \A s \in Streams : journal[s] \in Seq(Rows) /\ AckedFirst(journal[s])
    BY <1>inv DEF TypeOK, RowsInv
<1>none. down' = <<>> => \A i \in 1..Len(down') : \E j \in 1..Len(down) : down'[i] = down[j]
    OBVIOUS
<1>same. UNCHANGED down => \A i \in 1..Len(down') : \E j \in 1..Len(down) : down'[i] = down[j]
    OBVIOUS
<1>kept. UNCHANGED stored => \A s \in Streams : stored[s] \subseteq stored'[s]
    OBVIOUS
<1>tail. ASSUME NEW m, Receive(m)
         PROVE  \A i \in 1..Len(down') : \E j \in 1..Len(down) : down'[i] = down[j]
    <2>1. down \in Seq(Acks \cup Policies) /\ down # <<>> /\ down' = Tail(down)
        BY <1>tail DEF Receive, TypeOK
    <2>2. Len(down') = Len(down) - 1 /\ \A i \in 1..Len(down') : down'[i] = down[i + 1]
        BY <2>1
    <2>3. \A i \in 1..Len(down') : i + 1 \in 1..Len(down)
        BY <2>1, <2>2
    <2> QED BY <2>2, <2>3
<1>policy. ASSUME NEW m \in Policies, SendDown(m), UNCHANGED stored PROVE DownInv'
    <2>1. \A i \in 1..Len(down') : down'[i] = m \/ \E j \in 1..Len(down) : down'[i] = down[j]
        BY <1>policy, SendDownType
    <2>2. m \notin Acks
        BY DEF Policies, Acks
    <2> QED BY <1>inv, <1>policy, <2>1, <2>2 DEF DownInv
<1>idle. Idle.at = "idle" /\ [Idle EXCEPT !.at = "hello"].at = "hello"
    BY DEF Idle
<1>acknowledged. ASSUME NEW m \in UpBatch
                 PROVE  /\ Acknowledged(m).at \in {"idle", "upsert"}
                        /\ Acknowledged(m).at = "upsert" => Acknowledged(m).message \in UpBatch
    BY DEF Acknowledged, Idle
<1>1. ASSUME NEW r \in Runs, Commit(r) PROVE AckInv'
    <2>1. UNCHANGED <<journal, stored, cursor, down, handler>>
        BY <1>1, CommitKeeps DEF link, tables
    <2> QED BY <1>inv, <1>same, <2>1, KeepsRows, KeepsCursor, KeepsDown, KeepsAllHandlers,
               PartsNext
<1>1a. ASSUME NEW r \in Runs, NEW written \in SUBSET Streams, NEW told \in BOOLEAN,
              Records(r, written, told)
       PROVE  AckInv'
    <2>1. PICK row \in Rows : /\ ~row.acked
                              /\ \A s \in Streams : journal'[s] \in {journal[s], Append(journal[s], row)}
        <3>1. PICK row \in Rows : /\ ~row.acked
                                  /\ \A s \in Streams : journal'[s] = IF s \in written
                                         THEN Append(journal[s], row) ELSE journal[s]
            BY <1>1a, RecordRows
        <3> QED BY <3>1
    <2>2. UNCHANGED <<stored, cursor, down, handler>>
        BY <1>1a, RecordsKeep
    <2>3. RowsInv'
        <3> SUFFICES ASSUME NEW s \in Streams
                     PROVE  /\ AckedFirst(journal'[s])
                            /\ \A i \in 1..Len(journal'[s]) : journal'[s][i].acked => i \in stored'[s]
            BY DEF RowsInv, AckedFirst
        <3>1. CASE journal'[s] = journal[s]
            BY <1>inv, <2>2, <3>1 DEF RowsInv
        <3>2. CASE journal'[s] = Append(journal[s], row)
            <4>1. AckedFirst(Append(journal[s], row))
                BY <1>first, <2>1, AppendFirst
            <4>2. \A i \in 1..Len(Append(journal[s], row)) :
                      i \in 1..Len(journal[s]) \/ Append(journal[s], row)[i] = row
                BY <1>first
            <4>3. \A i \in 1..Len(journal[s]) : Append(journal[s], row)[i] = journal[s][i]
                BY <1>first
            <4> QED BY <1>inv, <2>1, <2>2, <3>2, <4>1, <4>2, <4>3 DEF RowsInv
        <3> QED BY <2>1, <3>1, <3>2
    <2> QED BY <1>inv, <1>same, <2>2, <2>3, KeepsCursor, KeepsDown, KeepsAllHandlers, PartsNext
<1>empty. ASSUME UNCHANGED stored, journal' \in {journal, [journal EXCEPT !["raw"] = Emptied(@)]}
          PROVE  RowsInv'
    <2> SUFFICES ASSUME NEW s \in Streams
                 PROVE  /\ AckedFirst(journal'[s])
                        /\ \A i \in 1..Len(journal'[s]) : journal'[s][i].acked => i \in stored'[s]
        BY DEF RowsInv, AckedFirst
    <2>1. journal'[s] = journal[s] \/ journal'[s] = Emptied(journal[s])
        BY <1>empty DEF TypeOK
    <2>2. CASE journal'[s] = journal[s]
        BY <1>inv, <1>empty, <2>2 DEF RowsInv
    <2>3. CASE journal'[s] = Emptied(journal[s])
        BY <1>inv, <1>first, <1>empty, <2>3, EmptiedType, EmptiedFirst DEF RowsInv
    <2> QED BY <2>1, <2>2, <2>3
<1>2. CASE Retain
    <2>1. RowsInv' /\ UNCHANGED <<stored, cursor, down, handler>>
        BY <1>2, <1>empty DEF Retain, link, tables
    <2> QED BY <1>inv, <1>same, <2>1, KeepsCursor, KeepsDown, KeepsAllHandlers, PartsNext
<1>3. CASE Connect
    <2>1. UNCHANGED <<stored, cursor, down, handler>>
        BY <1>3 DEF Connect, tables
    <2>2. journal' \in {journal, [journal EXCEPT !["raw"] = Emptied(@)]}
        BY <1>3 DEF Connect, Gated, TypeOK
    <2>3. RowsInv'
        BY <1>empty, <2>1, <2>2
    <2> QED BY <1>inv, <1>same, <2>1, <2>3, KeepsCursor, KeepsDown, KeepsAllHandlers, PartsNext
<1>4. CASE Disconnect
    <2>1. UNCHANGED <<journal, stored, cursor, handler>> /\ down' = <<>>
        BY <1>4 DEF Disconnect, runtime, tables
    <2> QED BY <1>inv, <1>none, <2>1, KeepsRows, KeepsCursor, KeepsDown, KeepsAllHandlers,
               PartsNext
<1>5. ASSUME NEW m, ReceiveAck(m) PROVE AckInv'
    <2>1. m \in Acks /\ Receive(m) /\ UNCHANGED <<stored, cursor, handler>>
        BY <1>5 DEF ReceiveAck, tables
    <2>2. m.stream \in Streams /\ m.seq \in Nat
        BY <2>1 DEF Acks
    <2>3. 1..m.seq \subseteq stored[m.stream]
        <3>1. down \in Seq(Acks \cup Policies) /\ down # <<>> /\ m = Head(down)
            BY <2>1 DEF Receive, TypeOK
        <3>2. 1 \in 1..Len(down) /\ down[1] = m
            BY <3>1
        <3> QED BY <1>inv, <2>1, <3>2 DEF DownInv
    <2>4. journal' = [journal EXCEPT ![m.stream] = AckUpTo(journal[m.stream], m.seq)]
        BY <1>5 DEF ReceiveAck, AckUpTo
    <2>5. RowsInv'
        <3> SUFFICES ASSUME NEW s \in Streams
                     PROVE  /\ AckedFirst(journal'[s])
                            /\ \A i \in 1..Len(journal'[s]) : journal'[s][i].acked => i \in stored'[s]
            BY DEF RowsInv, AckedFirst
        <3>1. CASE s # m.stream
            <4>1. journal'[s] = journal[s]
                BY <2>4, <3>1 DEF TypeOK
            <4> QED BY <1>inv, <2>1, <4>1 DEF RowsInv
        <3>2. CASE s = m.stream
            <4>1. journal'[s] = AckUpTo(journal[s], m.seq)
                BY <2>4, <3>2 DEF TypeOK
            <4>2. /\ AckedFirst(journal'[s]) /\ Len(journal'[s]) = Len(journal[s])
                  /\ \A i \in 1..Len(journal[s]) :
                         journal'[s][i].acked <=> journal[s][i].acked \/ i <= m.seq
                BY <1>first, <2>2, <4>1, AckType
            <4>3. ASSUME NEW i \in 1..Len(journal[s]), journal'[s][i].acked
                  PROVE  i \in stored'[s]
                <5>1. journal[s][i].acked \/ i \in 1..m.seq
                    BY <2>2, <4>2, <4>3
                <5> QED BY <1>inv, <2>1, <2>3, <3>2, <5>1 DEF RowsInv
            <4> QED BY <4>2, <4>3
        <3> QED BY <3>1, <3>2
    <2> QED BY <1>inv, <1>tail, <2>1, <2>5, KeepsCursor, KeepsDown, KeepsAllHandlers, PartsNext
<1>6. ASSUME NEW m, ReceivePolicy(m) PROVE AckInv'
    <2>1. Receive(m) /\ UNCHANGED <<stored, cursor, handler>>
        BY <1>6 DEF ReceivePolicy, tables
    <2>2. journal' \in {journal, [journal EXCEPT !["raw"] = Emptied(@)]}
        BY <1>6 DEF ReceivePolicy, RawAfterPolicy
    <2>3. RowsInv'
        BY <1>empty, <2>1, <2>2
    <2> QED BY <1>inv, <1>tail, <2>1, <2>3, KeepsCursor, KeepsDown, KeepsAllHandlers, PartsNext
<1>7. ASSUME NEW g \in Sockets, Handle(g) PROVE AckInv'
    <2>1. CASE TakeHello(g)
        <3>1. UNCHANGED <<journal, stored, cursor, down>> /\ Goes(g, [Idle EXCEPT !.at = "hello"])
            BY <2>1 DEF TakeHello, runtime, tables
        <3>2. HandlerInv'
            BY <1>idle, <1>inv, <3>1, KeepsHandlers
        <3> QED BY <1>inv, <1>same, <3>1, <3>2, KeepsRows, KeepsCursor, KeepsDown, PartsNext
    <2>2. CASE LateHello(g)
        <3>1. /\ UNCHANGED <<journal, stored, cursor>> /\ down' = <<>>
              /\ Goes(g, [Idle EXCEPT !.at = "hello"])
            BY <2>2 DEF LateHello, runtime, tables
        <3>2. HandlerInv'
            BY <1>idle, <1>inv, <3>1, KeepsHandlers
        <3> QED BY <1>inv, <1>none, <3>1, <3>2, KeepsRows, KeepsCursor, KeepsDown, PartsNext
    <2>3. CASE ReadPolicy(g)
        <3>1. /\ UNCHANGED <<journal, stored, cursor, down>>
              /\ Goes(g, [handler[g] EXCEPT !.at = "observations", !.capture = policy])
            BY <2>3 DEF ReadPolicy, runtime, link, tables
        <3>2. [handler[g] EXCEPT !.at = "observations", !.capture = policy].at = "observations"
            BY DEF TypeOK, Handlers
        <3>3. HandlerInv'
            BY <1>inv, <3>1, <3>2, KeepsHandlers
        <3> QED BY <1>inv, <1>same, <3>1, <3>3, KeepsRows, KeepsCursor, KeepsDown, PartsNext
    <2>4. CASE SendPolicy(g)
        <3>1. UNCHANGED <<journal, stored, cursor>> /\ Goes(g, Idle)
            BY <2>4 DEF SendPolicy, runtime, tables
        <3>2. HandlerInv'
            BY <1>idle, <1>inv, <3>1, KeepsHandlers
        <3>3. [type |-> "desired.data", capture |-> handler[g].capture] \in Policies
            BY DEF TypeOK, Handlers, Policies
        <3>4. DownInv'
            BY <1>policy, <2>4, <3>1, <3>3 DEF SendPolicy
        <3> QED BY <1>inv, <3>1, <3>2, <3>4, KeepsRows, KeepsCursor, PartsNext
    <2>5. ASSUME NEW m, TakeRunSummary(g, m) PROVE AckInv'
        <3>1. UNCHANGED <<journal, stored, cursor, down, handler>>
            BY <2>5 DEF TakeRunSummary, runtime
        <3> QED BY <1>inv, <1>same, <3>1, KeepsRows, KeepsCursor, KeepsDown,
                   KeepsAllHandlers, PartsNext
    <2>6. ASSUME NEW m, TakeBatch(g, m) PROVE AckInv'
        <3>1. UNCHANGED <<journal, cursor, down>>
            BY <2>6 DEF TakeBatch, runtime
        <3>2. CASE m.seq \in stored[m.stream]
            <4>1. UNCHANGED <<stored, handler>>
                BY <2>6, <3>2 DEF TakeBatch
            <4> QED BY <1>inv, <1>same, <3>1, <4>1, KeepsRows, KeepsCursor, KeepsDown,
                       KeepsAllHandlers, PartsNext
        <3>3. CASE m.seq \notin stored[m.stream]
            <4>1. /\ stored' = [stored EXCEPT ![m.stream] = @ \cup {m.seq}]
                  /\ Goes(g, [Idle EXCEPT !.at = "cursor", !.message = m])
                BY <2>6, <3>3 DEF TakeBatch
            <4>2. m \in UpBatch
                <5>1. up[g] \in Seq(UpMessages) /\ up[g] # <<>> /\ m = Head(up[g])
                    BY <2>6 DEF TakeBatch, Take, Waits, TypeOK
                <5>2. m \in UpMessages
                    BY <5>1, HeadTail
                <5> QED BY <2>6, <5>2 DEF TakeBatch, UpMessages, UpHello, UpRun
            <4>3. \A s \in Streams : stored[s] \subseteq stored'[s]
                BY <4>1 DEF TypeOK
            <4>4. /\ [Idle EXCEPT !.at = "cursor", !.message = m].at = "cursor"
                  /\ [Idle EXCEPT !.at = "cursor", !.message = m].message = m
                BY DEF Idle
            <4>5. HandlerInv'
                BY <1>inv, <4>1, <4>2, <4>3, <4>4, KeepsHandlers
            <4> QED BY <1>inv, <1>same, <3>1, <4>3, <4>5, KeepsRows, KeepsCursor, KeepsDown,
                       PartsNext
        <3> QED BY <3>2, <3>3
    <2>7. CASE ReadCursor(g)
        <3> DEFINE h == [handler[g] EXCEPT !.at = "pending",
                                           !.last = cursor[handler[g].message.stream]]
        <3>1. UNCHANGED <<journal, stored, cursor, down>> /\ Goes(g, h)
            BY <2>7 DEF ReadCursor, runtime, link, tables
        <3>2. handler[g].message \in UpBatch /\ handler[g].message.stream \in Streams
            BY <1>inv, <2>7 DEF HandlerInv, ReadCursor, At, UpBatch
        <3>3. /\ h.at = "pending" /\ h.message = handler[g].message
              /\ h.last = cursor[handler[g].message.stream]
            BY DEF TypeOK, Handlers
        <3>4. 1..h.last \subseteq stored'[h.message.stream]
            BY <1>inv, <3>1, <3>2, <3>3 DEF CursorInv
        <3>5. HandlerInv'
            <4> HIDE DEF h
            <4> QED BY <1>inv, <1>kept, <3>1, <3>2, <3>3, <3>4, KeepsHandlers
        <3> QED BY <1>inv, <1>same, <3>1, <3>5, KeepsRows, KeepsCursor, KeepsDown, PartsNext
    <2>8. CASE ReadPending(g)
        <3>1. /\ handler[g].message \in UpBatch /\ handler[g].last \in Nat
              /\ 1..handler[g].last \subseteq stored[handler[g].message.stream]
            BY <1>inv, <2>8 DEF HandlerInv, ReadPending, At, TypeOK, Handlers
        <3>2. PICK n \in {handler[g].last} \cup stored[handler[g].message.stream] :
                  /\ Contiguous(handler[g].message.stream, handler[g].last, n)
                  /\ Goes(g, IF n = handler[g].last THEN Acknowledged(handler[g].message)
                             ELSE [handler[g] EXCEPT !.at = "write", !.last = n])
            BY ONLY <2>8 DEF ReadPending
        <3>3. UNCHANGED <<journal, stored, cursor, down>>
            BY <2>8 DEF ReadPending, runtime, link, tables
        <3>4. n \in Nat
            BY <3>1, <3>2 DEF TypeOK, UpBatch
        <3>5. 1..n \subseteq stored[handler[g].message.stream]
            BY <3>1, <3>2, <3>4 DEF Contiguous
        <3>6. HandlerInv'
            <4>1. CASE n = handler[g].last
                BY <1>acknowledged, <1>inv, <1>kept, <3>1, <3>2, <3>3, <4>1, KeepsHandlers
            <4>2. CASE n # handler[g].last
                <5> DEFINE h == [handler[g] EXCEPT !.at = "write", !.last = n]
                <5>1. Goes(g, h)
                    BY <3>2, <4>2
                <5>2. h.at = "write" /\ h.message = handler[g].message /\ h.last = n
                    BY DEF TypeOK, Handlers
                <5> HIDE DEF h
                <5> QED BY <1>inv, <1>kept, <3>1, <3>3, <3>5, <5>1, <5>2, KeepsHandlers
            <4> QED BY <4>1, <4>2
        <3> QED BY <1>inv, <1>same, <3>3, <3>6, KeepsRows, KeepsCursor, KeepsDown, PartsNext
    <2>9. CASE WriteCursor(g)
        <3> DEFINE message == handler[g].message
                   ack == [type |-> "ack", stream |-> message.stream, seq |-> handler[g].last]
        <3>1. /\ message \in UpBatch /\ message.stream \in Streams /\ handler[g].last \in Nat
              /\ 1..handler[g].last \subseteq stored[message.stream]
            BY <1>inv, <2>9 DEF HandlerInv, WriteCursor, At, TypeOK, Handlers, UpBatch
        <3>2. /\ UNCHANGED <<journal, stored>> /\ Goes(g, Acknowledged(message))
              /\ cursor' = [cursor EXCEPT ![message.stream] = handler[g].last]
              /\ SendDown(ack)
            BY <2>9 DEF WriteCursor, runtime
        <3>3. CursorInv'
            <4> SUFFICES ASSUME NEW s \in Streams PROVE 1..cursor'[s] \subseteq stored'[s]
                BY DEF CursorInv
            <4> HIDE DEF message
            <4>1. cursor'[s] = IF s = message.stream THEN handler[g].last ELSE cursor[s]
                BY <3>2 DEF TypeOK
            <4> QED BY <1>inv, <3>1, <3>2, <4>1 DEF CursorInv
        <3>4. DownInv'
            <4>1. ack \in Acks
                BY <3>1 DEF Acks
            <4>2. ack.stream = message.stream /\ ack.seq = handler[g].last
                OBVIOUS
            <4> HIDE DEF ack, message
            <4>3. \A i \in 1..Len(down') :
                      down'[i] = ack \/ \E j \in 1..Len(down) : down'[i] = down[j]
                BY <3>2, <4>1, SendDownType
            <4> QED BY <1>inv, <3>1, <3>2, <4>2, <4>3 DEF DownInv
        <3>5. HandlerInv'
            <4> HIDE DEF message
            <4> QED BY <1>acknowledged, <1>inv, <1>kept, <3>1, <3>2, KeepsHandlers
        <3> QED BY <1>inv, <1>kept, <3>2, <3>3, <3>4, <3>5, KeepsRows, PartsNext
    <2>10. CASE Project(g)
        <3>1. UNCHANGED <<journal, stored, cursor, down>> /\ Goes(g, Idle)
            BY <2>10 DEF Project, runtime, link
        <3>2. HandlerInv'
            BY <1>idle, <1>inv, <3>1, KeepsHandlers
        <3> QED BY <1>inv, <1>same, <3>1, <3>2, KeepsRows, KeepsCursor, KeepsDown, PartsNext
    <2> QED BY <1>7, <2>1, <2>2, <2>3, <2>4, <2>5, <2>6, <2>7, <2>8, <2>9, <2>10
        DEF Handle, TakeMessage
<1>8. ASSUME NEW g \in Sockets, Close(g) PROVE AckInv'
    <2>1. UNCHANGED <<journal, stored, cursor, down, handler>>
        BY <1>8 DEF Close, runtime, tables
    <2> QED BY <1>inv, <1>same, <2>1, KeepsRows, KeepsCursor, KeepsDown, KeepsAllHandlers,
               PartsNext
<1>9. ASSUME NEW g \in Sockets, Fail(g) PROVE AckInv'
    <2>1. UNCHANGED <<journal, stored, cursor, down>>
        BY <1>9 DEF Fail, runtime, tables
    <2>2. Goes(g, Idle) \/ UNCHANGED handler
        BY <1>9 DEF Fail
    <2>3. HandlerInv'
        BY <1>idle, <1>inv, <1>kept, <2>1, <2>2, KeepsHandlers, KeepsAllHandlers
    <2> QED BY <1>inv, <1>same, <2>1, <2>3, KeepsRows, KeepsCursor, KeepsDown, PartsNext
<1>10. CASE Restart
    <2>1. /\ UNCHANGED <<journal, stored, cursor>> /\ down' = <<>>
          /\ handler' = [g \in Sockets |-> Idle]
        BY <1>10 DEF Restart, runtime, tables
    <2>2. HandlerInv'
        BY <1>idle, <2>1 DEF HandlerInv
    <2> QED BY <1>inv, <1>none, <2>1, <2>2, KeepsRows, KeepsCursor, KeepsDown, PartsNext
<1>11. ASSUME NEW wanted \in BOOLEAN, ChangePolicy(wanted) PROVE AckInv'
    <2>1. UNCHANGED <<journal, stored, cursor, down, handler>>
        BY <1>11 DEF ChangePolicy, runtime, link, tables
    <2> QED BY <1>inv, <1>same, <2>1, KeepsRows, KeepsCursor, KeepsDown, KeepsAllHandlers,
               PartsNext
<1>12. ASSUME NEW p \in pushes, PushReads(p) PROVE AckInv'
    <2>1. UNCHANGED <<journal, stored, cursor, down, handler>>
        BY <1>12 DEF PushReads, runtime, link, tables
    <2> QED BY <1>inv, <1>same, <2>1, KeepsRows, KeepsCursor, KeepsDown, KeepsAllHandlers,
               PartsNext
<1>13. ASSUME NEW p \in pushes, PushSends(p) PROVE AckInv'
    <2>1. UNCHANGED <<journal, stored, cursor, handler>>
        BY <1>13 DEF PushSends, runtime, tables
    <2>2. [type |-> "desired.data", capture |-> p.capture] \in Policies
        BY DEF TypeOK, Pushes, Policies
    <2>3. DownInv'
        BY <1>13, <1>policy, <2>1, <2>2 DEF PushSends
    <2> QED BY <1>inv, <2>1, <2>3, KeepsRows, KeepsCursor, KeepsAllHandlers, PartsNext
<1>14. CASE UNCHANGED vars
    <2>1. UNCHANGED <<journal, stored, cursor, down, handler>>
        BY <1>14 DEF vars, runtime, link, tables
    <2> QED BY <1>inv, <1>same, <2>1, KeepsRows, KeepsCursor, KeepsDown, KeepsAllHandlers,
               PartsNext
<1> QED BY <1>1, <1>1a, <1>2, <1>3, <1>4, <1>5, <1>6, <1>7, <1>8, <1>9, <1>10, <1>11, <1>12,
           <1>13, <1>14, AfterCommitRecords DEF Next, RuntimeReceives, Push

\* The invariant holds in every state.
LEMMA Invariant == Spec => [](TypeOK /\ AckInv)
<1>1. Init => TypeOK /\ AckInv
    BY InitInv
<1>2. TypeOK /\ AckInv /\ [Next]_vars => (TypeOK /\ AckInv)'
    BY TypeStep, AckStep
<1> QED BY <1>1, <1>2, PTL DEF Spec

\* The tables, the messages on the sockets and what handlers hold are typed.
THEOREM TypeCorrect == Spec => []TypeOK
BY Invariant, PTL

\* However sockets drop, handlers of old sockets run beside those of new ones
\* and queries fail, the runtime counts no row as delivered that the cloud does
\* not have (ackJournal, ackStream).
THEOREM AckIsHonest == Spec => []AckedIsStored
<1>1. TypeOK /\ AckInv => AckedIsStored
    BY DEF TypeOK, AckInv, AckedIsStored
<1> QED BY <1>1, Invariant, PTL
-----------------------------------------------------------------------------
(***************************************************************************)
(* That everything arrives.  The rows of the journal only grow, what is on *)
(* its way or stored stands for one of them, and on a clean socket every   *)
(* row that is not stored is still on its way; until a handler fails, a    *)
(* summary that is stored is projected or in a handler's hands.            *)
(***************************************************************************)

\* A handler that holds a row.
Busy == {"cursor", "pending", "write", "upsert"}

\* A message says what the runtime has committed.
Known(m) ==
    /\ m \in UpRun => m.last <= committed[m.run]
    /\ m \in UpBatch => /\ m.seq \in 1..Len(journal[m.stream])
                        /\ m.run = journal[m.stream][m.seq].run
                        /\ m.last = journal[m.stream][m.seq].last

\* What the rows, the messages, the handlers and the tables say was committed.
RowsKnown == \A s \in Streams : \A i \in 1..Len(journal[s]) :
                 journal[s][i].last <= committed[journal[s][i].run]
MessagesKnown == \A g \in Sockets : \A j \in 1..Len(up[g]) : Known(up[g][j])
HandlersKnown == \A g \in Sockets : handler[g].at \in Busy => Known(handler[g].message)
StoredKnown == \A s \in Streams : stored[s] \subseteq 1..Len(journal[s])
SummaryKnown == \A r \in Runs : summary[r] <= committed[r]

\* The last transition of each run has its row, unless it is still to be published or
\* its publication failed.
LastRow == \A r \in Runs : committed[r] > 0 /\ r \notin publishing \cup lapsed =>
    \E i \in 1..Len(journal["summary"]) :
        journal["summary"][i].run = r /\ journal["summary"][i].last = committed[r]

\* A row is among the messages of a socket.
Carried(s, i) == \E j \in 1..Len(up[socket]) :
    up[socket][j] \in UpBatch /\ up[socket][j].stream = s /\ up[socket][j].seq = i

OnTheWay == open /\ clean => \A s \in Streams : \A i \in 1..Len(journal[s]) :
                                 i \in stored[s] \/ Carried(s, i)

\* A row is in the hands of a handler.
Held(s, i) == \E g \in Sockets :
    handler[g].at \in Busy /\ handler[g].message.stream = s /\ handler[g].message.seq = i

InHand == failures = 0 => \A i \in stored["summary"] :
    \/ journal["summary"][i].last <= summary[journal["summary"][i].run]
    \/ Held("summary", i)

CleanStart == (failures = 0 => clean) /\ (open => socket \in Sockets)

ArriveInv == /\ RowsKnown /\ MessagesKnown /\ HandlersKnown /\ StoredKnown /\ SummaryKnown
             /\ LastRow /\ OnTheWay /\ InHand /\ CleanStart

\* The rows say the same in the next state.
SameRows == \A s \in Streams :
    /\ Len(journal'[s]) = Len(journal[s])
    /\ \A i \in 1..Len(journal[s]) :
           journal'[s][i].run = journal[s][i].run /\ journal'[s][i].last = journal[s][i].last

LEMMA EmptiedSame ==
    ASSUME TypeOK, journal' = [journal EXCEPT !["raw"] = Emptied(@)]
    PROVE  SameRows
<1> SUFFICES ASSUME NEW s \in Streams
             PROVE  /\ Len(journal'[s]) = Len(journal[s])
                    /\ \A i \in 1..Len(journal[s]) :
                          /\ journal'[s][i].run = journal[s][i].run
                          /\ journal'[s][i].last = journal[s][i].last
    BY DEF SameRows
<1>1. journal[s] \in Seq(Rows)
    BY DEF TypeOK
<1>2. CASE s = "raw"
    <2>1. journal'[s] = Emptied(journal[s])
        BY <1>2 DEF TypeOK
    <2>2. \A i \in 1..Len(journal[s]) : journal[s][i] \in Rows
        BY <1>1
    <2>3. \A i \in 1..Len(journal[s]) : Emptied(journal[s])[i] =
              IF journal[s][i].acked THEN journal[s][i] ELSE [journal[s][i] EXCEPT !.tombstone = TRUE]
        BY <1>1 DEF Emptied
    <2>4. Len(Emptied(journal[s])) = Len(journal[s])
        BY <1>1, EmptiedType
    <2>5. \A row \in Rows : LET new == [row EXCEPT !.tombstone = TRUE] IN
                               new.run = row.run /\ new.last = row.last
        BY DEF Rows
    <2>6. \A i \in 1..Len(journal[s]) :
              /\ Emptied(journal[s])[i].run = journal[s][i].run
              /\ Emptied(journal[s])[i].last = journal[s][i].last
        BY <2>2, <2>3, <2>5
    <2> QED BY <2>1, <2>4, <2>6
<1>3. CASE s # "raw"
    BY <1>3 DEF TypeOK
<1> QED BY <1>2, <1>3

LEMMA AckSame ==
    ASSUME TypeOK, AckInv, NEW m, ReceiveAck(m)
    PROVE  SameRows
<1> SUFFICES ASSUME NEW s \in Streams
             PROVE  /\ Len(journal'[s]) = Len(journal[s])
                    /\ \A i \in 1..Len(journal[s]) :
                          /\ journal'[s][i].run = journal[s][i].run
                          /\ journal'[s][i].last = journal[s][i].last
    BY DEF SameRows
<1>1. journal[s] \in Seq(Rows) /\ AckedFirst(journal[s])
    BY DEF TypeOK, AckInv
<1>2. m \in Acks /\ m.stream \in Streams /\ m.seq \in Nat
    BY DEF ReceiveAck, Acks
<1>3. journal' = [journal EXCEPT ![m.stream] = AckUpTo(journal[m.stream], m.seq)]
    BY DEF ReceiveAck, AckUpTo
<1>4. CASE s = m.stream
    <2>1. journal'[s] = AckUpTo(journal[s], m.seq)
        BY <1>3, <1>4 DEF TypeOK
    <2>2. \A i \in 1..Len(journal[s]) : journal[s][i] \in Rows
        BY <1>1
    <2>3. \A i \in 1..Len(journal[s]) : AckUpTo(journal[s], m.seq)[i] =
              IF i <= m.seq THEN [journal[s][i] EXCEPT !.acked = TRUE] ELSE journal[s][i]
        BY <1>1 DEF AckUpTo
    <2>4. Len(AckUpTo(journal[s], m.seq)) = Len(journal[s])
        BY <1>1, <1>2, AckType
    <2> QED BY <2>1, <2>2, <2>3, <2>4 DEF Rows
<1>5. CASE s # m.stream
    BY <1>3, <1>5 DEF TypeOK
<1> QED BY <1>4, <1>5

\* Only a transition is committed, and only its publication adds rows.
LEMMA RowsStay ==
    ASSUME TypeOK, AckInv, [Next]_vars
    PROVE  \/ \E r \in Runs : Commit(r)
           \/ AfterCommit
           \/ UNCHANGED <<committed, publishing, lapsed>> /\ SameRows
<1> USE DEF runtime, link, tables, wish
<1>same. UNCHANGED journal => SameRows
    BY DEF SameRows
<1>2. CASE Retain
    BY <1>2, EmptiedSame DEF Retain
<1>3. CASE Connect
    <2>1. journal' = journal \/ journal' = [journal EXCEPT !["raw"] = Emptied(@)]
        BY <1>3 DEF Connect, Gated, TypeOK
    <2> QED BY <1>3, <1>same, <2>1, EmptiedSame DEF Connect
<1>4. CASE Disconnect
    BY <1>4, <1>same DEF Disconnect
<1>5. ASSUME NEW m, ReceiveAck(m) PROVE UNCHANGED <<committed, publishing, lapsed>> /\ SameRows
    BY <1>5, AckSame DEF ReceiveAck
<1>6. ASSUME NEW m, ReceivePolicy(m) PROVE UNCHANGED <<committed, publishing, lapsed>> /\ SameRows
    BY <1>6, EmptiedSame DEF ReceivePolicy, RawAfterPolicy
<1>7. ASSUME NEW g \in Sockets, Handle(g)
      PROVE  UNCHANGED <<committed, publishing, lapsed, journal>>
    BY <1>7 DEF Handle, TakeHello, LateHello, ReadPolicy, SendPolicy, TakeMessage,
                TakeRunSummary, TakeBatch, ReadCursor, ReadPending, WriteCursor, Project
<1>8. ASSUME NEW g \in Sockets, Close(g)
      PROVE  UNCHANGED <<committed, publishing, lapsed, journal>>
    BY <1>8 DEF Close
<1>9. ASSUME NEW g \in Sockets, Fail(g)
      PROVE  UNCHANGED <<committed, publishing, lapsed, journal>>
    BY <1>9 DEF Fail
<1>10. CASE Restart
    BY <1>10, <1>same DEF Restart
<1>11. ASSUME NEW wanted \in BOOLEAN, ChangePolicy(wanted)
      PROVE  UNCHANGED <<committed, publishing, lapsed, journal>>
    BY <1>11 DEF ChangePolicy
<1>12. CASE Push
    BY <1>12, <1>same DEF Push, PushReads, PushSends
<1>13. CASE UNCHANGED vars
    BY <1>13, <1>same DEF vars
<1> QED BY <1>same, <1>2, <1>3, <1>4, <1>5, <1>6, <1>7, <1>8, <1>9, <1>10, <1>11, <1>12, <1>13
        DEF Next, RuntimeReceives

\* The next state has all that was committed, the rows and what was stored.
Older ==
    /\ \A r \in Runs : committed[r] <= committed'[r]
    /\ \A s \in Streams :
           /\ Len(journal[s]) <= Len(journal'[s])
           /\ \A i \in 1..Len(journal[s]) : /\ journal'[s][i].run = journal[s][i].run
                                            /\ journal'[s][i].last = journal[s][i].last
           /\ stored[s] \subseteq stored'[s]

LEMMA CommitOlder ==
    ASSUME TypeOK, NEW r \in Runs, Commit(r)
    PROVE  Older
<1>1. committed' = [committed EXCEPT ![r] = @ + 1] /\ UNCHANGED <<journal, stored>>
    BY CommitKeeps DEF tables
<1>2. \A k \in Runs : committed[k] <= committed'[k]
    <2>1. \A k \in Runs : committed[k] \in Nat /\ committed'[k] \in {committed[k], committed[k] + 1}
        BY <1>1 DEF TypeOK
    <2> QED BY <2>1
<1>3. \A s \in Streams : Len(journal[s]) \in Nat
    BY DEF TypeOK
<1> QED BY <1>1, <1>2, <1>3 DEF Older

LEMMA RecordsOlder ==
    ASSUME TypeOK, NEW r \in Runs, NEW written \in SUBSET Streams, NEW told \in BOOLEAN,
           Records(r, written, told)
    PROVE  Older
<1>1. PICK row \in Rows : \A s \in Streams :
          journal'[s] = IF s \in written THEN Append(journal[s], row) ELSE journal[s]
    BY RecordRows
<1>2. \A k \in Runs : committed[k] <= committed'[k]
    BY RecordsKeep DEF TypeOK
<1>3. UNCHANGED stored
    BY RecordsKeep
<1>4. ASSUME NEW s \in Streams
      PROVE  /\ Len(journal[s]) <= Len(journal'[s])
             /\ \A i \in 1..Len(journal[s]) : /\ journal'[s][i].run = journal[s][i].run
                                              /\ journal'[s][i].last = journal[s][i].last
    <2>1. journal[s] \in Seq(Rows)
        BY DEF TypeOK
    <2>2. journal'[s] = journal[s] \/ journal'[s] = Append(journal[s], row)
        BY <1>1
    <2>3. CASE journal'[s] = journal[s]
        BY <2>1, <2>3
    <2>4. CASE journal'[s] = Append(journal[s], row)
        <3>1. \A i \in 1..Len(journal[s]) : journal'[s][i] = journal[s][i]
            BY <2>1, <2>4
        <3> QED BY <2>1, <2>4, <3>1
    <2> QED BY <2>2, <2>3, <2>4
<1> QED BY <1>2, <1>3, <1>4 DEF Older

\* Rows are stored one at a time.
LEMMA StoredMoves ==
    ASSUME TypeOK, [Next]_vars
    PROVE  UNCHANGED stored \/ \E g \in Sockets, m \in UpBatch : TakeBatch(g, m)
<1> USE DEF runtime, link, tables, wish
<1>1. ASSUME NEW g \in Sockets, NEW m, TakeBatch(g, m) PROVE m \in UpBatch
    <2>1. up[g] \in Seq(UpMessages) /\ up[g] # <<>> /\ m = Head(up[g])
        BY <1>1 DEF TakeBatch, Take, Waits, TypeOK
    <2>2. m \in UpMessages
        BY <2>1, HeadTail
    <2> QED BY <1>1, <2>2 DEF TakeBatch, UpMessages, UpHello, UpRun
<1>2. ASSUME NEW g \in Sockets, Handle(g)
      PROVE  UNCHANGED stored \/ \E m : TakeBatch(g, m)
    BY <1>2 DEF Handle, TakeHello, LateHello, ReadPolicy, SendPolicy, TakeMessage,
                TakeRunSummary, ReadCursor, ReadPending, WriteCursor, Project
<1>3. ASSUME NEW g \in Sockets, Close(g) \/ Fail(g) PROVE UNCHANGED stored
    BY <1>3 DEF Close, Fail
<1>4. AfterCommit => UNCHANGED stored
    BY AfterCommitKeeps
<1> QED BY <1>1, <1>2, <1>3, <1>4 DEF Next, Commit, Retain, Connect, Disconnect, RuntimeReceives,
        ReceiveAck, ReceivePolicy, Restart, ChangePolicy, Push, PushReads, PushSends, vars

LEMMA StoredGrows ==
    ASSUME TypeOK, [Next]_vars
    PROVE  \A s \in Streams : stored[s] \subseteq stored'[s]
<1>1. ASSUME NEW g \in Sockets, NEW m \in UpBatch, TakeBatch(g, m)
      PROVE  \A s \in Streams : stored[s] \subseteq stored'[s]
    <2>1. stored' \in {stored, [stored EXCEPT ![m.stream] = @ \cup {m.seq}]}
        BY <1>1 DEF TakeBatch
    <2> QED BY <2>1 DEF TypeOK
<1> QED BY <1>1, StoredMoves

LEMMA AllOlder ==
    ASSUME TypeOK, AckInv, [Next]_vars
    PROVE  Older
<1>1. CASE \E r \in Runs : Commit(r)
    BY <1>1, CommitOlder
<1>1a. CASE AfterCommit
    BY <1>1a, AfterCommitRecords, RecordsOlder
<1>2. CASE UNCHANGED committed /\ SameRows
    <2>1. \A s \in Streams : Len(journal[s]) \in Nat
        BY DEF TypeOK
    <2>2. \A r \in Runs : committed[r] <= committed'[r]
        BY <1>2 DEF TypeOK
    <2> QED BY <1>2, <2>1, <2>2, StoredGrows DEF SameRows, Older
<1> QED BY <1>1, <1>1a, <1>2, RowsStay

\* Known, of the next state.
KnownNext(m) ==
    /\ m \in UpRun => m.last <= committed'[m.run]
    /\ m \in UpBatch => /\ m.seq \in 1..Len(journal'[m.stream])
                        /\ m.run = journal'[m.stream][m.seq].run
                        /\ m.last = journal'[m.stream][m.seq].last

\* What is known stays known.
LEMMA KnownStays ==
    ASSUME TypeOK, TypeOK', Older, NEW m \in UpMessages, Known(m)
    PROVE  KnownNext(m)
<1>1. CASE m \in UpRun
    <2>1. m.run \in Runs /\ m.last \in Nat /\ m \notin UpBatch
        BY <1>1 DEF UpRun, UpBatch
    <2>2. committed[m.run] \in Nat /\ committed'[m.run] \in Nat
        BY <2>1 DEF TypeOK
    <2> QED BY <1>1, <2>1, <2>2 DEF Known, KnownNext, Older
<1>2. CASE m \in UpBatch
    <2>1. m.stream \in Streams /\ m \notin UpRun
        BY <1>2 DEF UpRun, UpBatch
    <2>2. Len(journal[m.stream]) \in Nat /\ Len(journal'[m.stream]) \in Nat
        <3>1. journal[m.stream] \in Seq(Rows)
            BY <2>1 DEF TypeOK
        <3>2. journal'[m.stream] \in Seq(Rows)
            BY <2>1 DEF TypeOK
        <3> QED BY <3>1, <3>2
    <2>3. m.seq \in 1..Len(journal[m.stream])
        BY <1>2 DEF Known
    <2> QED BY <1>2, <2>1, <2>2, <2>3 DEF Known, KnownNext, Older
<1>3. CASE m \in UpHello
    BY <1>3 DEF UpHello, UpRun, UpBatch, KnownNext
<1> QED BY <1>1, <1>2, <1>3 DEF UpMessages

\* The rows of a run are of its transitions.
LEMMA RowsKnownStep ==
    ASSUME TypeOK, TypeOK', AckInv, RowsKnown, [Next]_vars
    PROVE  RowsKnown'
<1> SUFFICES ASSUME NEW s \in Streams, NEW i \in 1..Len(journal'[s])
             PROVE  journal'[s][i].last <= committed'[journal'[s][i].run]
    BY DEF RowsKnown
<1>1. journal[s] \in Seq(Rows) /\ \A k \in 1..Len(journal[s]) : journal[s][k] \in Rows
    BY DEF TypeOK
<1>2. ASSUME i \in 1..Len(journal[s])
      PROVE  journal'[s][i].last <= committed'[journal'[s][i].run]
    <2>1. PICK row \in Rows : row = journal[s][i]
        BY <1>1, <1>2
    <2>2. row.run \in Runs /\ row.last \in Nat /\ row.last <= committed[row.run]
        BY <1>2, <2>1 DEF Rows, RowsKnown
    <2>3. journal'[s][i].run = row.run /\ journal'[s][i].last = row.last
        BY <1>2, <2>1, AllOlder DEF Older
    <2>4. committed[row.run] \in Nat /\ committed'[row.run] \in Nat
        BY <2>2 DEF TypeOK
    <2>5. committed[row.run] <= committed'[row.run]
        BY <2>2, AllOlder DEF Older
    <2> QED BY <2>2, <2>3, <2>4, <2>5
<1>3. ASSUME NEW r \in Runs, NEW written \in SUBSET Streams, NEW told \in BOOLEAN,
             Records(r, written, told)
      PROVE  journal'[s][i].last <= committed'[journal'[s][i].run]
    <2>1. PICK row \in Rows :
              /\ row.run = r /\ row.last = committed[r]
              /\ \A k \in Streams : journal'[k] = IF k \in written THEN Append(journal[k], row)
                                                  ELSE journal[k]
        BY <1>3, RecordRows
    <2>2. journal'[s] = journal[s] \/ journal'[s] = Append(journal[s], row)
        BY <2>1
    <2>3. i \in 1..Len(journal[s]) \/ journal'[s][i] = row
        BY <1>1, <2>2
    <2>4. committed'[r] = committed[r] /\ committed[r] \in Nat
        BY <1>3, RecordsKeep DEF TypeOK
    <2> QED BY <1>2, <2>1, <2>3, <2>4
<1>4. CASE SameRows
    BY <1>2, <1>4 DEF SameRows
<1>5. ASSUME NEW r \in Runs, Commit(r)
      PROVE  journal'[s][i].last <= committed'[journal'[s][i].run]
    BY <1>2, <1>5, CommitKeeps
<1> QED BY <1>3, <1>4, <1>5, AfterCommitRecords, RowsStay

\* The last row of each run.
LEMMA LastRowStep ==
    ASSUME TypeOK, AckInv, LastRow, [Next]_vars
    PROVE  LastRow'
<1> SUFFICES ASSUME NEW r \in Runs, committed'[r] > 0, r \notin publishing' \cup lapsed'
             PROVE  \E i \in 1..Len(journal'["summary"]) :
                        /\ journal'["summary"][i].run = r
                        /\ journal'["summary"][i].last = committed'[r]
    BY DEF LastRow
<1>1. "summary" \in Streams /\ journal["summary"] \in Seq(Rows)
    BY DEF TypeOK, Streams
<1>2. ASSUME committed'[r] = committed[r], r \notin publishing \cup lapsed
      PROVE  \E i \in 1..Len(journal'["summary"]) :
                        /\ journal'["summary"][i].run = r
                        /\ journal'["summary"][i].last = committed'[r]
    <2>1. PICK i \in 1..Len(journal["summary"]) :
              journal["summary"][i].run = r /\ journal["summary"][i].last = committed[r]
        BY <1>2 DEF LastRow
    <2>2. i \in 1..Len(journal'["summary"])
        <3>1. Len(journal["summary"]) <= Len(journal'["summary"])
            BY <1>1, AllOlder DEF Older
        <3>2. Len(journal["summary"]) \in Nat
            BY <1>1
        <3>3. Len(journal'["summary"]) \in Nat
            BY <1>1, TypeStep DEF TypeOK
        <3> QED BY <3>1, <3>2, <3>3
    <2>3. journal'["summary"][i].run = r /\ journal'["summary"][i].last = committed'[r]
        BY <1>1, <1>2, <2>1, AllOlder DEF Older
    <2> QED BY <2>2, <2>3
<1>3. ASSUME NEW k \in Runs, Commit(k)
      PROVE  \E i \in 1..Len(journal'["summary"]) :
                        /\ journal'["summary"][i].run = r
                        /\ journal'["summary"][i].last = committed'[r]
    <2>1. publishing = {} /\ publishing' = {k} /\ lapsed' = lapsed
        BY <1>3, CommitKeeps
    <2>2. k # r
        BY <2>1
    <2>3. committed'[r] = committed[r]
        BY <1>3, <2>2, CommitKeeps DEF TypeOK
    <2> QED BY <1>2, <2>1, <2>3
<1>4. ASSUME NEW k \in Runs, NEW written \in SUBSET Streams, NEW told \in BOOLEAN,
             Records(k, written, told)
      PROVE  \E i \in 1..Len(journal'["summary"]) :
                        /\ journal'["summary"][i].run = r
                        /\ journal'["summary"][i].last = committed'[r]
    <2>1. PICK row \in Rows :
              /\ row.run = k /\ row.last = committed[k]
              /\ \A s \in Streams : journal'[s] = IF s \in written THEN Append(journal[s], row)
                                                  ELSE journal[s]
        BY <1>4, RecordRows
    <2>2. committed' = committed
        BY <1>4, RecordsKeep
    <2>3. /\ k \in publishing
          /\ lapsed' = IF "summary" \in written THEN lapsed \ {k} ELSE lapsed \cup {k}
        BY <1>4 DEF Records
    <2>4. CASE k = r
        <3>1. "summary" \in written
            BY <2>3, <2>4
        <3>2. journal'["summary"] = Append(journal["summary"], row)
            BY <1>1, <2>1, <3>1
        <3>3. /\ Len(journal'["summary"]) = Len(journal["summary"]) + 1
              /\ journal'["summary"][Len(journal["summary"]) + 1] = row
              /\ Len(journal["summary"]) + 1 \in 1..Len(journal'["summary"])
            BY <1>1, <3>2
        <3> QED BY <2>1, <2>2, <2>4, <3>3
    <2>5. CASE k # r
        <3>1. publishing = {k}
            BY <2>3 DEF TypeOK
        <3> QED BY <1>2, <2>2, <2>3, <2>5, <3>1
    <2> QED BY <2>4, <2>5
<1> QED BY <1>2, <1>3, <1>4, AfterCommitRecords, RowsStay

\* What is left of a queue was in it.
LEMMA PrefixFrom ==
    ASSUME NEW S, NEW q \in Seq(S), NEW n \in 0..Len(q)
    PROVE  \A j \in 1..Len(SubSeq(q, 1, n)) : \E i \in 1..Len(q) : SubSeq(q, 1, n)[j] = q[i]
<1>1. Len(SubSeq(q, 1, n)) = n /\ \A j \in 1..n : SubSeq(q, 1, n)[j] = q[j]
    OBVIOUS
<1>2. \A j \in 1..n : j \in 1..Len(q)
    OBVIOUS
<1> QED BY <1>1, <1>2

LEMMA TailFrom ==
    ASSUME NEW S, NEW q \in Seq(S), q # <<>>
    PROVE  /\ \A j \in 1..Len(Tail(q)) : \E i \in 1..Len(q) : Tail(q)[j] = q[i]
           /\ \A i \in 1..Len(q) : q[i] = Head(q) \/ \E j \in 1..Len(Tail(q)) : Tail(q)[j] = q[i]
<1>1. Len(Tail(q)) = Len(q) - 1 /\ \A j \in 1..Len(Tail(q)) : Tail(q)[j] = q[j + 1]
    OBVIOUS
<1>2. \A j \in 1..Len(Tail(q)) : j + 1 \in 1..Len(q)
    BY <1>1
<1>3. \A i \in 1..Len(q) : i = 1 \/ (i - 1 \in 1..Len(Tail(q)) /\ (i - 1) + 1 = i)
    BY <1>1
<1>4. Head(q) = q[1]
    OBVIOUS
<1>5. ASSUME NEW i \in 1..Len(q)
      PROVE  q[i] = Head(q) \/ \E j \in 1..Len(Tail(q)) : Tail(q)[j] = q[i]
    <2>1. CASE i = 1
        BY <1>4, <2>1
    <2>2. CASE i # 1
        <3>1. PICK j \in 1..Len(Tail(q)) : j + 1 = i
            BY <1>3, <2>2
        <3> QED BY <1>1, <3>1
    <2> QED BY <2>1, <2>2
<1> QED BY <1>1, <1>2, <1>5

\* Only the runtime adds messages, and it takes none away.
UpFrom == \A g \in Sockets : \A j \in 1..Len(up'[g]) : \E i \in 1..Len(up[g]) : up'[g][j] = up[g][i]

LEMMA TakeFrom ==
    ASSUME TypeOK, NEW g \in Sockets, NEW m, Take(g, m)
    PROVE  UpFrom /\ m \in UpMessages /\ \E i \in 1..Len(up[g]) : m = up[g][i]
<1>1. up[g] \in Seq(UpMessages) /\ up[g] # <<>> /\ m = Head(up[g])
    BY DEF Take, Waits, TypeOK
<1>2. \A k \in Sockets : up'[k] = IF k = g THEN Tail(up[g]) ELSE up[k]
    BY DEF Take, TypeOK
<1>3. UpFrom
    <2>1. \A j \in 1..Len(Tail(up[g])) : \E i \in 1..Len(up[g]) : Tail(up[g])[j] = up[g][i]
        BY <1>1, TailFrom
    <2> SUFFICES ASSUME NEW k \in Sockets, NEW j \in 1..Len(up'[k])
                 PROVE  \E i \in 1..Len(up[k]) : up'[k][j] = up[k][i]
        BY DEF UpFrom
    <2>2. CASE k = g
        <3>1. up'[k] = Tail(up[g])
            BY <1>2, <2>2
        <3> QED BY <2>1, <2>2, <3>1
    <2>3. CASE k # g
        <3>1. up'[k] = up[k]
            BY <1>2, <2>3
        <3> QED BY <3>1
    <2> QED BY <2>2, <2>3
<1>4. 1 \in 1..Len(up[g]) /\ m = up[g][1]
    BY <1>1
<1> QED BY <1>1, <1>3, <1>4, HeadTail

LEMMA UpMoves ==
    ASSUME TypeOK, [Next]_vars
    PROVE  AfterCommit \/ Connect \/ UpFrom
<1> USE DEF runtime, link, tables, wish
<1>same. UNCHANGED up => UpFrom
    BY DEF UpFrom
<1>prefix. ASSUME NEW n \in 0..Len(up[socket]), up' = [up EXCEPT ![socket] = SubSeq(@, 1, n)]
           PROVE  UpFrom
    <2>1. CASE socket \in Sockets
        <3>1. up[socket] \in Seq(UpMessages)
            BY <2>1 DEF TypeOK
        <3>2. \A k \in Sockets : up'[k] = IF k = socket THEN SubSeq(up[socket], 1, n) ELSE up[k]
            BY <1>prefix, <2>1 DEF TypeOK
        <3>3. \A j \in 1..Len(SubSeq(up[socket], 1, n)) :
                  \E i \in 1..Len(up[socket]) : SubSeq(up[socket], 1, n)[j] = up[socket][i]
            BY <3>1, PrefixFrom
        <3> SUFFICES ASSUME NEW k \in Sockets, NEW j \in 1..Len(up'[k])
                     PROVE  \E i \in 1..Len(up[k]) : up'[k][j] = up[k][i]
            BY DEF UpFrom
        <3>4. CASE k = socket
            <4>1. up'[k] = SubSeq(up[socket], 1, n)
                BY <3>2, <3>4
            <4> QED BY <3>3, <3>4, <4>1
        <3>5. CASE k # socket
            <4>1. up'[k] = up[k]
                BY <3>2, <3>5
            <4> QED BY <4>1
        <3> QED BY <3>4, <3>5
    <2>2. CASE socket \notin Sockets
        <3>1. up' = up
            BY <1>prefix, <2>2 DEF TypeOK
        <3> QED BY <1>same, <3>1
    <2> QED BY <2>1, <2>2
<1>1. CASE Retain \/ \E r \in Runs : Commit(r)
    BY <1>1, <1>same DEF Retain, Commit
<1>2. CASE Disconnect
    BY <1>2, <1>prefix DEF Disconnect
<1>3. CASE RuntimeReceives
    BY <1>3, <1>same DEF RuntimeReceives, ReceiveAck, ReceivePolicy
<1>4. ASSUME NEW g \in Sockets, Handle(g) PROVE UpFrom
    <2>1. CASE TakeHello(g)
        BY <2>1, TakeFrom DEF TakeHello
    <2>2. CASE LateHello(g)
        <3>1. PICK n \in 0..Len(up[socket]) :
                  up' = [up EXCEPT ![g] = Tail(@), ![socket] = SubSeq(@, 1, n)]
            BY <2>2 DEF LateHello
        <3>2. up[g] \in Seq(UpMessages) /\ up[g] # <<>> /\ g # socket
            BY <2>2 DEF LateHello, Waits, TypeOK
        <3>3. socket \in Sockets => up[socket] \in Seq(UpMessages)
            BY DEF TypeOK
        <3>4. \A k \in Sockets : up'[k] = IF k = g THEN Tail(up[g])
                                          ELSE IF k = socket THEN SubSeq(up[socket], 1, n)
                                          ELSE up[k]
            BY <3>1, <3>2 DEF TypeOK
        <3> SUFFICES ASSUME NEW k \in Sockets, NEW j \in 1..Len(up'[k])
                     PROVE  \E i \in 1..Len(up[k]) : up'[k][j] = up[k][i]
            BY DEF UpFrom
        <3>5. CASE k = g
            <4>1. up'[k] = Tail(up[g])
                BY <3>4, <3>5
            <4>2. \A l \in 1..Len(Tail(up[g])) :
                      \E i \in 1..Len(up[g]) : Tail(up[g])[l] = up[g][i]
                BY <3>2, TailFrom
            <4> QED BY <3>5, <4>1, <4>2
        <3>6. CASE k = socket
            <4>1. up'[k] = SubSeq(up[socket], 1, n)
                BY <3>2, <3>4, <3>6
            <4>2. \A l \in 1..Len(SubSeq(up[socket], 1, n)) :
                      \E i \in 1..Len(up[socket]) : SubSeq(up[socket], 1, n)[l] = up[socket][i]
                BY <3>3, <3>6, PrefixFrom
            <4> QED BY <3>6, <4>1, <4>2
        <3>7. CASE k # g /\ k # socket
            <4>1. up'[k] = up[k]
                BY <3>4, <3>7
            <4> QED BY <4>1
        <3> QED BY <3>5, <3>6, <3>7
    <2>3. CASE TakeMessage(g)
        BY <2>3, TakeFrom DEF TakeMessage, TakeRunSummary, TakeBatch
    <2> QED BY <1>4, <1>same, <2>1, <2>2, <2>3
        DEF Handle, ReadPolicy, SendPolicy, ReadCursor, ReadPending, WriteCursor, Project
<1>5. ASSUME NEW g \in Sockets, Close(g) PROVE UpFrom
    BY <1>5, <1>same DEF Close
<1>6. ASSUME NEW g \in Sockets, Fail(g) PROVE UpFrom
    BY <1>6, <1>same, TakeFrom DEF Fail
<1>7. CASE Restart
    BY <1>7 DEF Restart, UpFrom
<1>8. CASE UNCHANGED up
    BY <1>8, <1>same
<1> QED BY <1>1, <1>2, <1>3, <1>4, <1>5, <1>6, <1>7, <1>8
    DEF Next, ChangePolicy, Push, PushReads, PushSends, vars

\* What is sent again are the rows that are not acknowledged, all of them.
LEMMA UnackedRows ==
    ASSUME NEW s \in Streams, NEW rows \in Seq(Rows), AckedFirst(rows)
    PROVE  /\ \A j \in 1..Len(Unacked(s, rows)) : \E i \in 1..Len(rows) :
                  Unacked(s, rows)[j] = Batch(s, i, rows[i])
           /\ \A i \in 1..Len(rows) : ~rows[i].acked =>
                  \E j \in 1..Len(Unacked(s, rows)) : Unacked(s, rows)[j] = Batch(s, i, rows[i])
<1> DEFINE P(n) == \A i \in 1..Len(rows) : rows[i].acked <=> i <= n
           acked == CHOOSE n \in 0..Len(rows) : P(n)
<1>1. acked \in 0..Len(rows) /\ P(acked)
    BY DEF AckedFirst
<1>2. PICK k \in 0..Len(rows) : k = acked
    BY <1>1
<1>3. \A i \in 1..Len(rows) : rows[i].acked <=> i <= k
    BY <1>1, <1>2
<1>4. Unacked(s, rows) = [i \in 1..(Len(rows) - k) |-> Batch(s, k + i, rows[k + i])]
    BY <1>2 DEF Unacked
<1>5. Len(Unacked(s, rows)) = Len(rows) - k
    <2>1. Len(rows) - k \in Nat
        OBVIOUS
    <2> QED BY <1>4, <2>1
<1>6. \A j \in 1..(Len(rows) - k) : k + j \in 1..Len(rows)
    OBVIOUS
<1>7. ASSUME NEW i \in 1..Len(rows), ~rows[i].acked
      PROVE  \E j \in 1..Len(Unacked(s, rows)) : Unacked(s, rows)[j] = Batch(s, i, rows[i])
    <2>1. i - k \in 1..(Len(rows) - k) /\ k + (i - k) = i
        BY <1>3, <1>7
    <2>2. PICK j \in 1..(Len(rows) - k) : k + j = i
        BY <2>1
    <2> QED BY <1>4, <1>5, <2>2
<1> QED BY <1>4, <1>5, <1>6, <1>7

\* The message of a row, for every row of the next state.
LEMMA RowMessage ==
    ASSUME TypeOK', NEW s \in Streams, NEW i \in 1..Len(journal'[s]), NEW m,
           m = Batch(s, i, journal'[s][i])
    PROVE  m \in UpBatch /\ m.stream = s /\ m.seq = i /\ KnownNext(m)
<1>1. journal'[s] \in Seq(Rows)
    BY DEF TypeOK
<1>2. PICK row \in Rows : row = journal'[s][i]
    BY <1>1
<1>3. m = [type |-> "batch", stream |-> s, seq |-> i, run |-> row.run,
           last |-> row.last, tombstone |-> row.tombstone]
    BY <1>2 DEF Batch
<1>4. /\ m.stream = s /\ m.seq = i /\ m.run = row.run /\ m.last = row.last
      /\ m.type = "batch"
    BY <1>3
<1>5. m \in UpBatch
    BY <1>3, i \in Nat DEF UpBatch, Rows
<1>6. m \notin UpRun
    BY <1>4 DEF UpRun
<1> QED BY <1>2, <1>4, <1>5, <1>6 DEF KnownNext

\* What is sent of a transition: its summary and its rows.
LEMMA RecordsSend ==
    ASSUME TypeOK, TypeOK', NEW r \in Runs, NEW written \in SUBSET Streams, NEW told \in BOOLEAN,
           Records(r, written, told)
    PROVE  \E messages \in Seq(UpMessages) :
              /\ Send(messages)
              /\ \A j \in 1..Len(messages) : KnownNext(messages[j])
              /\ \A s \in Streams :
                    \/ journal'[s] = journal[s]
                    \/ /\ Len(journal'[s]) = Len(journal[s]) + 1
                       /\ \E j \in 1..Len(messages) :
                             /\ messages[j] \in UpBatch /\ messages[j].stream = s
                             /\ messages[j].seq = Len(journal[s]) + 1
<1>1. PICK messages \in Seq(UpMessages) : messages = Told(r, written, told)
    BY RecordMessages
<1>2. PICK first : first = [type |-> "run.summary", run |-> r, last |-> committed[r]]
    OBVIOUS
<1>3. \A e : Has(messages, e) <=> \/ told /\ e = first
                                  \/ Has(Sent(r, written, "summary"), e)
                                  \/ Has(Sent(r, written, "raw"), e)
    BY <1>1, <1>2, RecordMessages
<1>4. KnownNext(first)
    <2>1. committed[r] \in Nat /\ committed' = committed
        BY RecordsKeep DEF TypeOK
    <2>2. first.run = r /\ first.last = committed[r] /\ first \notin UpBatch
        BY <1>2 DEF UpBatch
    <2> QED BY <2>1, <2>2 DEF KnownNext
<1>5. PICK row \in Rows :
          /\ row = [run |-> r, last |-> committed[r], acked |-> FALSE, tombstone |-> FALSE]
          /\ \A s \in Streams : journal'[s] = IF s \in written THEN Append(journal[s], row)
                                              ELSE journal[s]
    BY RecordRows
<1>6. ASSUME NEW s \in Streams, s \in written
      PROVE  /\ Len(journal'[s]) = Len(journal[s]) + 1
             /\ \E m \in UpBatch : /\ m.stream = s /\ m.seq = Len(journal[s]) + 1
                                   /\ KnownNext(m) /\ Sent(r, written, s) = <<m>>
    <2>1. journal[s] \in Seq(Rows) /\ journal'[s] = Append(journal[s], row)
        BY <1>5, <1>6 DEF TypeOK
    <2>2. PICK i : i = Len(journal[s]) + 1
        OBVIOUS
    <2>3. Len(journal'[s]) = i /\ i \in 1..i /\ journal'[s][i] = row
        BY <2>1, <2>2
    <2>4. PICK m : m = Batch(s, i, row)
        OBVIOUS
    <2>5. m \in UpBatch /\ m.stream = s /\ m.seq = i /\ KnownNext(m)
        BY <2>3, <2>4, RowMessage
    <2>6. Sent(r, written, s) = <<m>>
        BY <1>5, <1>6, <2>2, <2>4 DEF Sent
    <2> QED BY <2>2, <2>3, <2>5, <2>6
<1>7. ASSUME NEW s \in Streams, NEW e, Has(Sent(r, written, s), e)
      PROVE  KnownNext(e)
    <2>1. s \in written
        <3>1. SUFFICES ASSUME s \notin written PROVE FALSE
            OBVIOUS
        <3>2. Sent(r, written, s) = <<>>
            BY <3>1 DEF Sent
        <3>3. DOMAIN Sent(r, written, s) = {}
            BY <3>2
        <3> QED BY <1>7, <3>3 DEF Has
    <2>2. PICK m \in UpBatch : KnownNext(m) /\ Sent(r, written, s) = <<m>>
        BY <1>6, <2>1
    <2>3. e = m
        BY <1>7, <2>2, HasOne
    <2> QED BY <2>2, <2>3
<1>8. DOMAIN messages = 1..Len(messages)
    OBVIOUS
<1>9. \A j \in 1..Len(messages) : KnownNext(messages[j])
    <2> TAKE j \in 1..Len(messages)
    <2>1. Has(messages, messages[j])
        BY <1>8 DEF Has
    <2>2. "summary" \in Streams /\ "raw" \in Streams
        BY DEF Streams
    <2> QED BY <1>3, <1>4, <1>7, <2>1, <2>2
<1>10. ASSUME NEW s \in Streams, s \in written
       PROVE  /\ Len(journal'[s]) = Len(journal[s]) + 1
              /\ \E j \in 1..Len(messages) :
                    /\ messages[j] \in UpBatch /\ messages[j].stream = s
                    /\ messages[j].seq = Len(journal[s]) + 1
    <2>1. PICK m \in UpBatch : /\ m.stream = s /\ m.seq = Len(journal[s]) + 1
                               /\ Sent(r, written, s) = <<m>>
        BY <1>6, <1>10
    <2>2. Has(Sent(r, written, s), m)
        BY <2>1, HasOne
    <2>3. Has(messages, m)
        BY <1>3, <2>2 DEF Streams
    <2>4. PICK j \in 1..Len(messages) : messages[j] = m
        BY <1>8, <2>3 DEF Has
    <2> QED BY <1>6, <1>10, <2>1, <2>4
<1>11. \A s \in Streams :
           \/ journal'[s] = journal[s]
           \/ /\ Len(journal'[s]) = Len(journal[s]) + 1
              /\ \E j \in 1..Len(messages) :
                    /\ messages[j] \in UpBatch /\ messages[j].stream = s
                    /\ messages[j].seq = Len(journal[s]) + 1
    BY <1>5, <1>10
<1>12. Send(messages)
    BY <1>1, RecordMessages
<1> QED BY <1>9, <1>11, <1>12

\* What is sent when a socket is opened stands for rows, and for every row that
\* is not acknowledged.
LEMMA ConnectSends ==
    ASSUME TypeOK, TypeOK', AckInv, Connect
    PROVE  /\ socket' \in Sockets
           /\ \A g \in Sockets : g # socket' => up'[g] = up[g]
           /\ \A j \in 1..Len(up'[socket']) : KnownNext(up'[socket'][j])
           /\ \A s \in Streams : \A i \in 1..Len(journal'[s]) :
                 ~journal'[s][i].acked =>
                     \E j \in 1..Len(up'[socket']) :
                         /\ up'[socket'][j] \in UpBatch
                         /\ up'[socket'][j].stream = s /\ up'[socket'][j].seq = i
<1> DEFINE a == <<Hello>>
           b == Unacked("summary", journal["summary"])
           c == Unacked("raw", Gated)
<1>1. "summary" \in Streams /\ "raw" \in Streams
    BY DEF Streams
<1>2. journal'["summary"] = journal["summary"] /\ journal'["raw"] = Gated
    BY DEF Connect, TypeOK, Streams
<1>3. \A s \in Streams : journal[s] \in Seq(Rows) /\ AckedFirst(journal[s])
    BY DEF TypeOK, AckInv
<1>4. Gated \in Seq(Rows) /\ AckedFirst(Gated)
    BY <1>1, <1>3, EmptiedType, EmptiedFirst DEF Gated
<1>5. b \in Seq(UpMessages) /\ c \in Seq(UpMessages) /\ a \in Seq(UpMessages)
    <2>1. b \in Seq(UpMessages)
        BY <1>1, <1>3, UnackedType
    <2>2. c \in Seq(UpMessages)
        BY <1>1, <1>4, UnackedType
    <2>3. a \in Seq(UpMessages)
        BY DEF Hello, UpMessages, UpHello
    <2> QED BY <2>1, <2>2, <2>3
<1>6. socket' = socket + 1 /\ socket' \in Sockets
    BY SyncAssumption DEF Connect, Sockets, TypeOK
<1>7. up' = [up EXCEPT ![socket + 1] = a \o b \o c]
    BY DEF Connect
<1>8. \A g \in Sockets : g # socket' => up'[g] = up[g]
    BY <1>6, <1>7 DEF TypeOK
<1>9. up'[socket'] = a \o b \o c
    BY <1>6, <1>7 DEF TypeOK
<1>10. \A j \in 1..Len(b) : \E i \in 1..Len(journal'["summary"]) :
           b[j] = Batch("summary", i, journal'["summary"][i])
    <2>1. \A j \in 1..Len(b) : \E i \in 1..Len(journal["summary"]) :
             b[j] = Batch("summary", i, journal["summary"][i])
        BY <1>1, <1>3, UnackedRows
    <2> QED BY <1>2, <2>1
<1>11. \A j \in 1..Len(c) : \E i \in 1..Len(journal'["raw"]) :
           c[j] = Batch("raw", i, journal'["raw"][i])
    BY <1>1, <1>2, <1>4, UnackedRows
<1>12. KnownNext(Hello)
    BY DEF KnownNext, Hello, UpRun, UpBatch
<1>13. \A i \in 1..Len(journal'["summary"]) : ~journal'["summary"][i].acked =>
           \E j \in 1..Len(b) : b[j] = Batch("summary", i, journal'["summary"][i])
    <2>1. \A i \in 1..Len(journal["summary"]) : ~journal["summary"][i].acked =>
              \E j \in 1..Len(b) : b[j] = Batch("summary", i, journal["summary"][i])
        BY <1>1, <1>3, UnackedRows
    <2> HIDE DEF b
    <2> QED BY <1>2, <2>1
<1>14. \A i \in 1..Len(journal'["raw"]) : ~journal'["raw"][i].acked =>
           \E j \in 1..Len(c) : c[j] = Batch("raw", i, journal'["raw"][i])
    BY <1>1, <1>2, <1>4, UnackedRows
<1>15. \A j \in 1..Len(b) : KnownNext(b[j])
    BY <1>1, <1>10, RowMessage
<1>16. \A j \in 1..Len(c) : KnownNext(c[j])
    BY <1>1, <1>11, RowMessage
<1>17. Len(a) = 1 /\ a[1] = Hello
    OBVIOUS
<1> HIDE DEF a, b, c
<1>con. \A x, y \in Seq(UpMessages) : x \o y \in Seq(UpMessages)
    OBVIOUS
<1>18. PICK q \in Seq(UpMessages) : q = up'[socket'] /\ q = (a \o b) \o c
    BY <1>5, <1>9, <1>con
<1>dom. DOMAIN q = 1..Len(q) /\ DOMAIN b = 1..Len(b) /\ DOMAIN c = 1..Len(c)
    BY <1>5
<1>19. \A e : Has(q, e) <=> e = Hello \/ Has(b, e) \/ Has(c, e)
    <2>1. a \o b \in Seq(UpMessages)
        BY <1>5, <1>con
    <2>2. \A e : Has(a \o b, e) <=> Has(a, e) \/ Has(b, e)
        BY <1>5, HasConcat
    <2>3. \A e : Has(a, e) <=> e = Hello
        BY HasOne DEF a
    <2>4. \A e : Has((a \o b) \o c, e) <=> Has(a \o b, e) \/ Has(c, e)
        BY <1>5, <2>1, HasConcat
    <2> QED BY <1>18, <2>2, <2>3, <2>4
<1>20. \A j \in 1..Len(q) : KnownNext(q[j])
    <2> TAKE j \in 1..Len(q)
    <2>1. Has(q, q[j])
        BY <1>dom DEF Has
    <2>2. q[j] = Hello \/ (\E k \in 1..Len(b) : b[k] = q[j]) \/ \E k \in 1..Len(c) : c[k] = q[j]
        BY <1>dom, <1>19, <2>1 DEF Has
    <2> QED BY <1>12, <1>15, <1>16, <2>2
<1>21. ASSUME NEW s \in Streams, NEW i \in 1..Len(journal'[s]), ~journal'[s][i].acked
       PROVE  \E j \in 1..Len(q) : q[j] \in UpBatch /\ q[j].stream = s /\ q[j].seq = i
    <2> DEFINE d == Batch(s, i, journal'[s][i])
    <2>1. d \in UpBatch /\ d.stream = s /\ d.seq = i
        BY RowMessage
    <2>2. (\E j \in 1..Len(b) : b[j] = d) \/ \E j \in 1..Len(c) : c[j] = d
        BY <1>13, <1>14, <1>21 DEF Streams
    <2> HIDE DEF d
    <2>3. Has(q, d)
        BY <1>dom, <1>19, <2>2 DEF Has
    <2>4. PICK j \in 1..Len(q) : q[j] = d
        BY <1>dom, <2>3 DEF Has
    <2> QED BY <2>1, <2>4
<1>22. \A j \in 1..Len(up'[socket']) : KnownNext(up'[socket'][j])
    BY <1>18, <1>20
<1>23. \A s \in Streams : \A i \in 1..Len(journal'[s]) : ~journal'[s][i].acked =>
           \E j \in 1..Len(up'[socket']) :
               /\ up'[socket'][j] \in UpBatch
               /\ up'[socket'][j].stream = s /\ up'[socket'][j].seq = i
    <2> TAKE s \in Streams
    <2> TAKE i \in 1..Len(journal'[s])
    <2>1. ~journal'[s][i].acked =>
              \E j \in 1..Len(q) : q[j] \in UpBatch /\ q[j].stream = s /\ q[j].seq = i
        BY <1>21
    <2>2. q = up'[socket']
        BY <1>18
    <2> QED BY ONLY <2>1, <2>2
<1> QED BY <1>6, <1>8, <1>22, <1>23

\* Every message on a socket says what was committed.
LEMMA MessagesKnownStep ==
    ASSUME TypeOK, TypeOK', AckInv, MessagesKnown, [Next]_vars
    PROVE  MessagesKnown'
<1> SUFFICES ASSUME NEW g \in Sockets, NEW j \in 1..Len(up'[g])
             PROVE  KnownNext(up'[g][j])
    BY DEF MessagesKnown, Known, KnownNext
<1>1. Older
    BY AllOlder
<1>2. \A k \in Sockets : \A i \in 1..Len(up[k]) : up[k][i] \in UpMessages /\ Known(up[k][i])
    BY DEF TypeOK, MessagesKnown
<1>3. \A k \in Sockets : \A i \in 1..Len(up[k]) : KnownNext(up[k][i])
    BY <1>1, <1>2, KnownStays
<1>4. CASE UpFrom
    BY <1>3, <1>4 DEF UpFrom
<1>5. CASE Connect
    <2>1. g # socket' => up'[g] = up[g]
        BY <1>5, ConnectSends
    <2>2. \A i \in 1..Len(up'[socket']) : KnownNext(up'[socket'][i])
        BY <1>5, ConnectSends
    <2> QED BY <1>3, <2>1, <2>2
<1>6. ASSUME NEW r \in Runs, NEW written \in SUBSET Streams, NEW told \in BOOLEAN,
             Records(r, written, told)
      PROVE  KnownNext(up'[g][j])
    <2>1. PICK messages \in Seq(UpMessages) :
              Send(messages) /\ \A i \in 1..Len(messages) : KnownNext(messages[i])
        BY <1>6, RecordsSend
    <2>2. up[g] \in Seq(UpMessages)
        BY DEF TypeOK
    <2>3. up'[g] = up[g] \/ up'[g] = up[g] \o messages
        BY <2>1 DEF Send, TypeOK
    <2>4. CASE up'[g] = up[g]
        BY <1>3, <2>4
    <2>5. CASE up'[g] = up[g] \o messages
        <3>1. DOMAIN up[g] = 1..Len(up[g]) /\ DOMAIN messages = 1..Len(messages)
            BY <2>1, <2>2
        <3>2. PICK e : e = up'[g][j]
            OBVIOUS
        <3>3. up'[g] \in Seq(UpMessages)
            BY DEF TypeOK
        <3>4. Has(up[g] \o messages, e)
            <4>1. DOMAIN up'[g] = 1..Len(up'[g])
                BY <3>3
            <4>2. Has(up'[g], e)
                BY <3>2, <4>1 DEF Has
            <4> QED BY <2>5, <4>2
        <3>5. Has(up[g], e) \/ Has(messages, e)
            BY <2>1, <2>2, <3>4, HasConcat
        <3> QED BY <1>3, <2>1, <3>1, <3>2, <3>5 DEF Has
    <2> QED BY <2>3, <2>4, <2>5
<1> QED BY <1>4, <1>5, <1>6, AfterCommitRecords, UpMoves

\* A handler holds what it held, or a row it has just taken from its socket.
HandlersFrom == \A g \in Sockets : handler'[g].at \in Busy =>
    \/ handler[g].at \in Busy /\ handler'[g].message = handler[g].message
    \/ \E i \in 1..Len(up[g]) : handler'[g].message = up[g][i]

LEMMA GoesFrom ==
    ASSUME TypeOK, NEW g \in Sockets, NEW h, Goes(g, h),
           \/ h.at \notin Busy
           \/ handler[g].at \in Busy /\ h.message = handler[g].message
           \/ \E i \in 1..Len(up[g]) : h.message = up[g][i]
    PROVE  HandlersFrom
<1> SUFFICES ASSUME NEW k \in Sockets, handler'[k].at \in Busy
             PROVE  \/ handler[k].at \in Busy /\ handler'[k].message = handler[k].message
                    \/ \E i \in 1..Len(up[k]) : handler'[k].message = up[k][i]
    BY DEF HandlersFrom
<1>1. handler'[k] = IF k = g THEN h ELSE handler[k]
    BY DEF Goes, TypeOK
<1>2. CASE k = g
    <2>1. handler'[k] = h
        BY <1>1, <1>2
    <2> QED BY <1>2, <2>1
<1>3. CASE k # g
    <2>1. handler'[k] = handler[k]
        BY <1>1, <1>3
    <2> QED BY <2>1
<1> QED BY <1>2, <1>3

LEMMA HandlersMove ==
    ASSUME TypeOK, AckInv, [Next]_vars
    PROVE  HandlersFrom
<1> USE DEF runtime, link, tables, wish
<1>same. UNCHANGED handler => HandlersFrom
    BY DEF HandlersFrom
<1>idle. Idle.at \notin Busy /\ [Idle EXCEPT !.at = "hello"].at \notin Busy
    BY DEF Idle, Busy
<1>acknowledged. ASSUME NEW m
                 PROVE  Acknowledged(m).at \notin Busy \/ Acknowledged(m).message = m
    BY DEF Acknowledged, Idle, Busy
<1>1. ASSUME NEW g \in Sockets, Handle(g) PROVE HandlersFrom
    <2>1. CASE TakeHello(g) \/ LateHello(g)
        <3>1. Goes(g, [Idle EXCEPT !.at = "hello"])
            BY <2>1 DEF TakeHello, LateHello
        <3> QED BY <1>idle, <3>1, GoesFrom
    <2>2. CASE ReadPolicy(g)
        <3>1. Goes(g, [handler[g] EXCEPT !.at = "observations", !.capture = policy])
            BY <2>2 DEF ReadPolicy
        <3>2. [handler[g] EXCEPT !.at = "observations", !.capture = policy].at \notin Busy
            BY DEF TypeOK, Handlers, Busy
        <3> QED BY <3>1, <3>2, GoesFrom
    <2>3. CASE SendPolicy(g) \/ Project(g)
        <3>1. Goes(g, Idle)
            BY <2>3 DEF SendPolicy, Project
        <3> QED BY <1>idle, <3>1, GoesFrom
    <2>4. CASE TakeMessage(g)
        <3>1. CASE UNCHANGED handler
            BY <1>same, <3>1
        <3>2. ASSUME NEW m, TakeBatch(g, m), Goes(g, [Idle EXCEPT !.at = "cursor", !.message = m])
              PROVE  HandlersFrom
            <4>1. [Idle EXCEPT !.at = "cursor", !.message = m].message = m
                BY DEF Idle
            <4>2. \E i \in 1..Len(up[g]) : m = up[g][i]
                BY <3>2, TakeFrom DEF TakeBatch
            <4> QED BY <3>2, <4>1, <4>2, GoesFrom
        <3> QED BY <2>4, <3>1, <3>2 DEF TakeMessage, TakeRunSummary, TakeBatch
    <2>5. CASE ReadCursor(g)
        <3> DEFINE h == [handler[g] EXCEPT !.at = "pending",
                                           !.last = cursor[handler[g].message.stream]]
        <3>1. Goes(g, h) /\ handler[g].at \in Busy
            BY <2>5 DEF ReadCursor, At, Busy
        <3>2. h.message = handler[g].message
            BY DEF TypeOK, Handlers
        <3> HIDE DEF h
        <3> QED BY <3>1, <3>2, GoesFrom
    <2>6. CASE ReadPending(g)
        <3>1. PICK n : Goes(g, IF n = handler[g].last THEN Acknowledged(handler[g].message)
                               ELSE [handler[g] EXCEPT !.at = "write", !.last = n])
            BY <2>6 DEF ReadPending
        <3>2. handler[g].at \in Busy
            BY <2>6 DEF ReadPending, At, Busy
        <3>3. CASE n = handler[g].last
            <4>1. Goes(g, Acknowledged(handler[g].message))
                BY <3>1, <3>3
            <4> QED BY <1>acknowledged, <3>2, <4>1, GoesFrom
        <3>4. CASE n # handler[g].last
            <4> DEFINE h == [handler[g] EXCEPT !.at = "write", !.last = n]
            <4>1. Goes(g, h)
                BY <3>1, <3>4
            <4>2. h.message = handler[g].message
                BY DEF TypeOK, Handlers
            <4> HIDE DEF h
            <4> QED BY <3>2, <4>1, <4>2, GoesFrom
        <3> QED BY <3>3, <3>4
    <2>7. CASE WriteCursor(g)
        <3>1. Goes(g, Acknowledged(handler[g].message)) /\ handler[g].at \in Busy
            BY <2>7 DEF WriteCursor, At, Busy
        <3> QED BY <1>acknowledged, <3>1, GoesFrom
    <2> QED BY <1>1, <2>1, <2>2, <2>3, <2>4, <2>5, <2>6, <2>7 DEF Handle
<1>2. ASSUME NEW g \in Sockets, Fail(g) PROVE HandlersFrom
    BY <1>2, <1>idle, <1>same, GoesFrom DEF Fail
<1>3. CASE Restart
    <2>1. \A g \in Sockets : handler'[g] = Idle
        BY <1>3 DEF Restart
    <2> QED BY <1>idle, <2>1 DEF HandlersFrom
<1>4. CASE UNCHANGED handler
    BY <1>4, <1>same
<1>5. AfterCommit => UNCHANGED handler
    BY AfterCommitKeeps
<1> QED BY <1>1, <1>2, <1>3, <1>4, <1>5 DEF Next, Commit, Retain, Connect, Disconnect,
        RuntimeReceives, ReceiveAck, ReceivePolicy, Close, ChangePolicy, Push, PushReads,
        PushSends, vars

\* What a handler holds is a row, and says what was committed.
LEMMA HandlersKnownStep ==
    ASSUME TypeOK, TypeOK', AckInv, MessagesKnown, HandlersKnown, [Next]_vars
    PROVE  HandlersKnown'
<1> SUFFICES ASSUME NEW g \in Sockets, handler'[g].at \in Busy
             PROVE  KnownNext(handler'[g].message)
    BY DEF HandlersKnown, Known, KnownNext
<1>1. Older
    BY AllOlder
<1>2. CASE handler[g].at \in Busy /\ handler'[g].message = handler[g].message
    <2>1. handler[g].message \in UpMessages /\ Known(handler[g].message)
        BY <1>2 DEF TypeOK, Handlers, UpMessages, HandlersKnown
    <2> QED BY <1>1, <1>2, <2>1, KnownStays
<1>3. CASE \E i \in 1..Len(up[g]) : handler'[g].message = up[g][i]
    <2>1. PICK i \in 1..Len(up[g]) : handler'[g].message = up[g][i]
        BY <1>3
    <2>2. up[g][i] \in UpMessages /\ Known(up[g][i])
        BY DEF TypeOK, MessagesKnown
    <2> QED BY <1>1, <2>1, <2>2, KnownStays
<1> QED BY <1>2, <1>3, HandlersMove DEF HandlersFrom

\* What is stored are rows.
LEMMA StoredKnownStep ==
    ASSUME TypeOK, TypeOK', AckInv, MessagesKnown, StoredKnown, [Next]_vars
    PROVE  StoredKnown'
<1>1. Older
    BY AllOlder
<1>2. \A s \in Streams : stored[s] \subseteq 1..Len(journal'[s])
    <2> TAKE s \in Streams
    <2>1. Len(journal[s]) \in Nat /\ Len(journal'[s]) \in Nat
        BY DEF TypeOK
    <2>2. Len(journal[s]) <= Len(journal'[s])
        BY <1>1 DEF Older
    <2> QED BY <2>1, <2>2 DEF StoredKnown
<1>3. CASE UNCHANGED stored
    BY <1>2, <1>3 DEF StoredKnown
<1>4. ASSUME NEW g \in Sockets, NEW m \in UpBatch, TakeBatch(g, m)
      PROVE  StoredKnown'
    <2>1. stored' \in {stored, [stored EXCEPT ![m.stream] = @ \cup {m.seq}]}
        BY <1>4 DEF TakeBatch
    <2>2. m \in UpMessages /\ \E i \in 1..Len(up[g]) : m = up[g][i]
        BY <1>4, TakeFrom DEF TakeBatch
    <2>3. Known(m)
        BY <2>2 DEF MessagesKnown
    <2>4. KnownNext(m)
        BY <1>1, <2>2, <2>3, KnownStays
    <2>5. m.seq \in 1..Len(journal'[m.stream])
        BY <2>4 DEF KnownNext
    <2>6. \A s \in Streams : stored'[s] \subseteq stored[s] \cup (IF s = m.stream THEN {m.seq} ELSE {})
        BY <2>1 DEF TypeOK
    <2> QED BY <1>2, <2>5, <2>6 DEF StoredKnown
<1> QED BY <1>3, <1>4, StoredMoves

\* A message that says what was committed is not ahead of it.
LEMMA KnownLast ==
    ASSUME TypeOK, RowsKnown, NEW m \in UpRun \cup UpBatch, Known(m)
    PROVE  m.run \in Runs /\ m.last \in Nat /\ m.last <= committed[m.run]
<1>1. CASE m \in UpRun
    BY <1>1 DEF UpRun, Known
<1>2. CASE m \in UpBatch
    BY <1>2 DEF UpBatch, Known, RowsKnown
<1> QED BY <1>1, <1>2

\* Summaries are projected from messages and from the rows handlers hold.
LEMMA SummaryMoves ==
    ASSUME TypeOK, AckInv, MessagesKnown, HandlersKnown, [Next]_vars
    PROVE  \/ UNCHANGED summary
           \/ \E m \in UpRun \cup UpBatch : Known(m) /\ summary' = Upsert(m)
<1> USE DEF runtime, link, tables, wish
<1>1. ASSUME NEW g \in Sockets, NEW m, TakeRunSummary(g, m)
      PROVE  m \in UpRun /\ Known(m) /\ summary' = Upsert(m)
    <2>1. m \in UpMessages /\ \E i \in 1..Len(up[g]) : m = up[g][i]
        BY <1>1, TakeFrom DEF TakeRunSummary
    <2>2. Known(m)
        BY <2>1 DEF MessagesKnown
    <2>3. m \in UpRun
        BY <1>1, <2>1 DEF TakeRunSummary, UpMessages, UpHello, UpBatch
    <2> QED BY <1>1, <2>2, <2>3 DEF TakeRunSummary
<1>2. ASSUME NEW g \in Sockets, Project(g)
      PROVE  \E m \in UpBatch : Known(m) /\ summary' = Upsert(m)
    <2>1. handler[g].at = "upsert" /\ summary' = Upsert(handler[g].message)
        BY <1>2 DEF Project, At
    <2>2. handler[g].message \in UpBatch
        BY <2>1 DEF AckInv
    <2>3. Known(handler[g].message)
        BY <2>1 DEF HandlersKnown, Busy
    <2> QED BY <2>1, <2>2, <2>3
<1>3. ASSUME NEW g \in Sockets, Handle(g)
      PROVE  UNCHANGED summary \/ Project(g) \/ \E m : TakeRunSummary(g, m)
    BY <1>3 DEF Handle, TakeHello, LateHello, ReadPolicy, SendPolicy, TakeMessage, TakeBatch,
                ReadCursor, ReadPending, WriteCursor
<1>4. ASSUME NEW g \in Sockets, Close(g) \/ Fail(g) PROVE UNCHANGED summary
    BY <1>4 DEF Close, Fail
<1>5. ASSUME NEW g \in Sockets, Handle(g)
      PROVE  \/ UNCHANGED summary
             \/ \E m \in UpRun \cup UpBatch : Known(m) /\ summary' = Upsert(m)
    BY <1>1, <1>2, <1>3, <1>5
<1>6. CASE UNCHANGED summary
    BY <1>6
<1>7. AfterCommit => UNCHANGED summary
    BY AfterCommitKeeps
<1> QED BY <1>4, <1>5, <1>6, <1>7 DEF Next, Commit, Retain, Connect, Disconnect, RuntimeReceives,
        ReceiveAck, ReceivePolicy, Restart, ChangePolicy, Push, PushReads, PushSends, vars

\* The summaries the cloud shows are not ahead of the runtime, and never go back.
LEMMA SummaryKnownStep ==
    ASSUME TypeOK, TypeOK', AckInv, RowsKnown, MessagesKnown, HandlersKnown, SummaryKnown,
           [Next]_vars
    PROVE  SummaryKnown' /\ \A r \in Runs : summary[r] <= summary'[r]
<1>1. \A r \in Runs : /\ committed[r] <= committed'[r] /\ committed[r] \in Nat
                      /\ committed'[r] \in Nat /\ summary[r] \in Nat /\ summary'[r] \in Nat
                      /\ summary[r] <= committed[r]
    BY AllOlder DEF Older, TypeOK, SummaryKnown
<1>2. CASE UNCHANGED summary
    BY <1>1, <1>2 DEF SummaryKnown
<1>3. ASSUME NEW m \in UpRun \cup UpBatch, Known(m), summary' = Upsert(m)
      PROVE  SummaryKnown' /\ \A r \in Runs : summary[r] <= summary'[r]
    <2>1. m.run \in Runs /\ m.last \in Nat /\ m.last <= committed[m.run]
        BY <1>3, KnownLast
    <2>2. \A r \in Runs : summary'[r] = IF r = m.run /\ summary[r] <= m.last THEN m.last
                                        ELSE summary[r]
        BY <1>3, <2>1 DEF Upsert, TypeOK
    <2>3. ASSUME NEW r \in Runs
          PROVE  summary'[r] <= committed'[r] /\ summary[r] <= summary'[r]
        <3>1. CASE r = m.run /\ summary[r] <= m.last
            <4>1. summary'[r] = m.last
                BY <2>2, <3>1
            <4> QED BY <1>1, <2>1, <3>1, <4>1
        <3>2. CASE ~(r = m.run /\ summary[r] <= m.last)
            <4>1. summary'[r] = summary[r]
                BY <2>2, <3>2
            <4> QED BY <1>1, <4>1
        <3> QED BY <3>1, <3>2
    <2> QED BY <2>3 DEF SummaryKnown
<1> QED BY <1>2, <1>3, SummaryMoves

\* The number of failures, the sockets and whether the last one is clean.
LEMMA CleanStartStep ==
    ASSUME TypeOK, TypeOK', AckInv, CleanStart, [Next]_vars
    PROVE  CleanStart' /\ (failures' = 0 => failures = 0)
<1> USE DEF runtime, link, tables, wish
<1>1. CASE Connect
    <2>1. socket' \in Sockets
        BY <1>1, ConnectSends
    <2> QED BY <1>1, <2>1 DEF Connect, CleanStart
<1>2. ASSUME NEW g \in Sockets, Fail(g)
      PROVE  CleanStart' /\ (failures' = 0 => failures = 0)
    <2>1. failures' = failures + 1 /\ failures \in Nat /\ UNCHANGED <<open, socket>>
        BY <1>2, SyncAssumption DEF Fail, TypeOK
    <2> QED BY <2>1 DEF CleanStart
<1>3. CASE Restart
    <2>1. failures' = failures + 1 /\ failures \in Nat /\ ~open'
        BY <1>3, SyncAssumption DEF Restart, TypeOK
    <2> QED BY <2>1 DEF CleanStart
<1>4. CASE UNCHANGED <<failures, clean, socket>> /\ (open' => open)
    BY <1>4 DEF CleanStart
<1>5. ASSUME NEW g \in Sockets, Handle(g)
      PROVE  UNCHANGED <<failures, clean, socket>> /\ (open' => open)
    <2>1. CASE LateHello(g)
        BY <2>1 DEF LateHello
    <2>2. CASE TakeHello(g) \/ ReadPolicy(g) \/ SendPolicy(g)
        BY <2>2 DEF TakeHello, ReadPolicy, SendPolicy
    <2>3. CASE TakeMessage(g)
        BY <2>3 DEF TakeMessage, TakeRunSummary, TakeBatch
    <2>4. CASE ReadCursor(g) \/ Project(g)
        BY <2>4 DEF ReadCursor, Project
    <2>5. CASE ReadPending(g)
        BY <2>5 DEF ReadPending
    <2>6. CASE WriteCursor(g)
        BY <2>6 DEF WriteCursor
    <2> QED BY <1>5, <2>1, <2>2, <2>3, <2>4, <2>5, <2>6 DEF Handle
<1>6. ASSUME NEW g \in Sockets, Close(g)
      PROVE  UNCHANGED <<failures, clean, socket>> /\ (open' => open)
    BY <1>6 DEF Close
<1>7. CASE AfterCommit \/ \E r \in Runs : Commit(r)
    BY <1>4, <1>7, AfterCommitKeeps, CommitKeeps
<1>8. CASE RuntimeReceives
    BY <1>4, <1>8 DEF RuntimeReceives, ReceiveAck, ReceivePolicy
<1>9. CASE Push
    BY <1>4, <1>9 DEF Push, PushReads, PushSends
<1>10. CASE Retain \/ Disconnect \/ (\E wanted \in BOOLEAN : ChangePolicy(wanted)) \/ UNCHANGED vars
    BY <1>4, <1>10 DEF Retain, Disconnect, ChangePolicy, vars
<1> QED BY <1>1, <1>2, <1>3, <1>4, <1>5, <1>6, <1>7, <1>8, <1>9, <1>10 DEF Next

\* What is carried stays carried, when what leaves the socket is stored.
LEMMA CarriedKept ==
    ASSUME TypeOK, OnTheWay, UNCHANGED <<socket, open, clean>>, socket \in Sockets,
           \A s \in Streams : Len(journal'[s]) = Len(journal[s]) /\ stored[s] \subseteq stored'[s],
           \A j \in 1..Len(up[socket]) :
               \/ \E k \in 1..Len(up'[socket]) : up'[socket][k] = up[socket][j]
               \/ up[socket][j] \notin UpBatch
               \/ up[socket][j].seq \in stored'[up[socket][j].stream]
    PROVE  OnTheWay'
<1> SUFFICES ASSUME open', clean', NEW s \in Streams, NEW i \in 1..Len(journal'[s])
             PROVE  i \in stored'[s] \/ Carried(s, i)'
    BY DEF OnTheWay
<1>1. i \in stored[s] \/ Carried(s, i)
    BY DEF OnTheWay
<1>2. CASE i \in stored[s]
    BY <1>2
<1>3. CASE Carried(s, i)
    <2>1. PICK j \in 1..Len(up[socket]) :
              up[socket][j] \in UpBatch /\ up[socket][j].stream = s /\ up[socket][j].seq = i
        BY <1>3 DEF Carried
    <2>2. CASE \E k \in 1..Len(up'[socket]) : up'[socket][k] = up[socket][j]
        <3>1. PICK k \in 1..Len(up'[socket]) : up'[socket][k] = up[socket][j]
            BY <2>2
        <3>2. up'[socket'] = up'[socket]
            OBVIOUS
        <3>3. /\ up'[socket][k] \in UpBatch
              /\ up'[socket][k].stream = s /\ up'[socket][k].seq = i
            BY <2>1, <3>1
        <3> QED BY <3>2, <3>3 DEF Carried
    <2>3. CASE up[socket][j].seq \in stored'[up[socket][j].stream]
        BY <2>1, <2>3
    <2> QED BY <2>1, <2>2, <2>3
<1> QED BY <1>1, <1>2, <1>3

\* On a clean socket each row is stored or on its way.
LEMMA OnTheWayStep ==
    ASSUME TypeOK, TypeOK', AckInv, AckInv', OnTheWay, CleanStart, [Next]_vars
    PROVE  OnTheWay'
<1> USE DEF runtime, link, tables, wish
<1>grows. \A s \in Streams : stored[s] \subseteq stored'[s]
    BY StoredGrows
<1>off. ~open' \/ ~clean' => OnTheWay'
    BY DEF OnTheWay
<1>same. ASSUME SameRows, UNCHANGED <<socket, open, clean, up>> PROVE OnTheWay'
    <2>1. CASE open
        <3>1. socket \in Sockets
            BY <2>1 DEF CleanStart
        <3>2. up'[socket] = up[socket]
            BY <1>same
        <3>3. \A j \in 1..Len(up[socket]) :
                  \E k \in 1..Len(up'[socket]) : up'[socket][k] = up[socket][j]
            BY <3>2
        <3> QED BY <1>grows, <1>same, <3>1, <3>3, CarriedKept DEF SameRows
    <2>2. CASE ~open
        BY <1>off, <1>same, <2>2
    <2> QED BY <2>1, <2>2
<1>journal. UNCHANGED journal => SameRows
    BY DEF SameRows
<1>take. ASSUME NEW g \in Sockets, NEW m, Take(g, m), UNCHANGED <<journal, socket, open, clean>>,
                m \notin UpBatch \/ m.seq \in stored'[m.stream] \/ (clean' => g # socket)
         PROVE  OnTheWay'
    <2>1. CASE open /\ clean
        <3>1. socket \in Sockets
            BY <2>1 DEF CleanStart
        <3>2. SameRows
            BY <1>take, <1>journal
        <3>3. CASE g = socket
            <4>1. up[g] \in Seq(UpMessages) /\ up[g] # <<>> /\ m = Head(up[g])
                BY <1>take DEF Take, Waits, TypeOK
            <4>2. up'[g] = Tail(up[g])
                BY <1>take DEF Take, TypeOK
            <4>3. \A j \in 1..Len(up[g]) :
                      up[g][j] = m \/ \E k \in 1..Len(up'[g]) : up'[g][k] = up[g][j]
                BY <4>1, <4>2, TailFrom
            <4> QED BY <1>grows, <1>take, <2>1, <3>1, <3>2, <3>3, <4>3, CarriedKept DEF SameRows
        <3>4. CASE g # socket
            <4>1. up'[socket] = up[socket]
                BY <1>take, <3>1, <3>4 DEF Take, TypeOK
            <4>2. \A j \in 1..Len(up[socket]) :
                      \E k \in 1..Len(up'[socket]) : up'[socket][k] = up[socket][j]
                BY <4>1
            <4> QED BY <1>grows, <1>take, <3>1, <3>2, <4>2, CarriedKept DEF SameRows
        <3> QED BY <3>3, <3>4
    <2>2. CASE ~(open /\ clean)
        BY <1>off, <1>take, <2>2
    <2> QED BY <2>1, <2>2
<1>0. ASSUME NEW r \in Runs, Commit(r) PROVE OnTheWay'
    BY <1>0, <1>journal, <1>same, CommitKeeps
<1>1. ASSUME NEW r \in Runs, NEW written \in SUBSET Streams, NEW told \in BOOLEAN,
             Records(r, written, told)
      PROVE  OnTheWay'
    <2> SUFFICES ASSUME open', clean', NEW s \in Streams, NEW i \in 1..Len(journal'[s])
                 PROVE  i \in stored'[s] \/ Carried(s, i)'
        BY DEF OnTheWay
    <2>1. UNCHANGED <<socket, open, clean, stored>> /\ open /\ clean /\ socket \in Sockets
        BY <1>1, RecordsKeep DEF CleanStart
    <2>2. PICK messages \in Seq(UpMessages) :
              /\ Send(messages)
              /\ \/ journal'[s] = journal[s]
                 \/ /\ Len(journal'[s]) = Len(journal[s]) + 1
                    /\ \E j \in 1..Len(messages) :
                          /\ messages[j] \in UpBatch /\ messages[j].stream = s
                          /\ messages[j].seq = Len(journal[s]) + 1
        BY <1>1, RecordsSend
    <2>3. up[socket] \in Seq(UpMessages) /\ up'[socket] = up[socket] \o messages
        BY <2>1, <2>2 DEF Send, TypeOK
    <2>4. \A e : Has(up'[socket], e) <=> Has(up[socket], e) \/ Has(messages, e)
        BY <2>2, <2>3, HasConcat
    <2>5. up'[socket] \in Seq(UpMessages) /\ up'[socket'] = up'[socket]
        BY <2>1 DEF TypeOK
    <2>6. /\ DOMAIN up'[socket] = 1..Len(up'[socket]) /\ DOMAIN up[socket] = 1..Len(up[socket])
          /\ DOMAIN messages = 1..Len(messages)
        BY <2>2, <2>3, <2>5
    <2>7. ASSUME NEW e, Has(up'[socket], e), e \in UpBatch, e.stream = s, e.seq = i
          PROVE  Carried(s, i)'
        <3>1. PICK j \in 1..Len(up'[socket]) : up'[socket][j] = e
            BY <2>6, <2>7 DEF Has
        <3>2. /\ up'[socket'][j] \in UpBatch /\ up'[socket'][j].stream = s
              /\ up'[socket'][j].seq = i /\ j \in 1..Len(up'[socket'])
            BY <2>5, <2>7, <3>1
        <3> QED BY <3>2 DEF Carried
    <2>8. CASE i \in 1..Len(journal[s])
        <3>1. i \in stored[s] \/ Carried(s, i)
            BY <2>1, <2>8 DEF OnTheWay
        <3>2. CASE i \in stored[s]
            BY <2>1, <3>2
        <3>3. CASE Carried(s, i)
            <4>1. PICK j \in 1..Len(up[socket]) :
                      up[socket][j] \in UpBatch /\ up[socket][j].stream = s /\ up[socket][j].seq = i
                BY <3>3 DEF Carried
            <4>2. Has(up'[socket], up[socket][j])
                BY <2>4, <2>6 DEF Has
            <4> QED BY <2>7, <4>1, <4>2
        <3> QED BY <3>1, <3>2, <3>3
    <2>9. CASE i \notin 1..Len(journal[s])
        <3>1. Len(journal[s]) \in Nat
            BY DEF TypeOK
        <3>2. i = Len(journal[s]) + 1 /\ Len(journal'[s]) = Len(journal[s]) + 1
            BY <2>2, <2>9, <3>1
        <3>3. PICK j \in 1..Len(messages) :
                  /\ messages[j] \in UpBatch /\ messages[j].stream = s
                  /\ messages[j].seq = Len(journal[s]) + 1
            BY <2>2, <2>9
        <3>4. Has(up'[socket], messages[j])
            BY <2>4, <2>6 DEF Has
        <3> QED BY <2>7, <3>2, <3>3, <3>4
    <2> QED BY <2>8, <2>9
<1>2. CASE Connect
    <2> SUFFICES ASSUME NEW s \in Streams, NEW i \in 1..Len(journal'[s])
                 PROVE  i \in stored'[s] \/ Carried(s, i)'
        BY DEF OnTheWay
    <2>1. CASE journal'[s][i].acked
        BY <2>1 DEF AckInv
    <2>2. CASE ~journal'[s][i].acked
        BY <1>2, <2>2, ConnectSends DEF Carried
    <2> QED BY <2>1, <2>2
<1>3. CASE Retain
    <2>1. SameRows
        BY <1>3, EmptiedSame DEF Retain
    <2> QED BY <1>3, <1>same, <2>1 DEF Retain
<1>4. CASE Disconnect \/ Restart
    BY <1>4, <1>off DEF Disconnect, Restart
<1>5. CASE RuntimeReceives
    <2>1. UNCHANGED <<socket, open, clean, up>>
        BY <1>5 DEF RuntimeReceives, ReceiveAck, ReceivePolicy
    <2>2. SameRows
        BY <1>5, AckSame, EmptiedSame DEF RuntimeReceives, ReceivePolicy, RawAfterPolicy
    <2> QED BY <1>same, <2>1, <2>2
<1>6. ASSUME NEW g \in Sockets, Handle(g) PROVE OnTheWay'
    <2>1. CASE TakeHello(g)
        <3>1. Hello \notin UpBatch
            BY DEF Hello, UpBatch
        <3> QED BY <1>take, <2>1, <3>1 DEF TakeHello
    <2>2. CASE LateHello(g)
        BY <1>off, <2>2 DEF LateHello
    <2>3. ASSUME NEW m, TakeRunSummary(g, m) PROVE OnTheWay'
        <3>1. m \notin UpBatch
            BY <2>3 DEF TakeRunSummary, UpBatch
        <3> QED BY <1>take, <2>3, <3>1 DEF TakeRunSummary
    <2>4. ASSUME NEW m, TakeBatch(g, m) PROVE OnTheWay'
        <3>1. m \in UpMessages /\ m.type = "batch"
            BY <2>4, TakeFrom DEF TakeBatch
        <3>2. m.stream \in Streams
            BY <3>1 DEF UpMessages, UpHello, UpRun, UpBatch
        <3>3. m.seq \in stored'[m.stream]
            <4>1. CASE m.seq \in stored[m.stream]
                BY <1>grows, <3>2, <4>1
            <4>2. CASE m.seq \notin stored[m.stream]
                BY <2>4, <3>2, <4>2 DEF TakeBatch, TypeOK
            <4> QED BY <4>1, <4>2
        <3> QED BY <1>take, <2>4, <3>3 DEF TakeBatch
    <2>5. CASE ReadPolicy(g) \/ SendPolicy(g) \/ ReadCursor(g) \/ ReadPending(g)
               \/ WriteCursor(g) \/ Project(g)
        <3>1. UNCHANGED <<journal, socket, open, clean, up>>
            BY <2>5 DEF ReadPolicy, SendPolicy, ReadCursor, ReadPending, WriteCursor, Project
        <3> QED BY <1>journal, <1>same, <3>1
    <2> QED BY <1>6, <2>1, <2>2, <2>3, <2>4, <2>5 DEF Handle, TakeMessage
<1>7. ASSUME NEW g \in Sockets, Close(g) PROVE OnTheWay'
    <2>1. UNCHANGED <<journal, socket, open, clean, up>>
        BY <1>7 DEF Close
    <2> QED BY <1>journal, <1>same, <2>1
<1>8. ASSUME NEW g \in Sockets, Fail(g) PROVE OnTheWay'
    <2>1. UNCHANGED <<journal, socket, open>> /\ clean' = (clean /\ g # socket)
        BY <1>8 DEF Fail
    <2>2. CASE ~clean'
        BY <1>off, <2>2
    <2>3. CASE clean' /\ UNCHANGED up
        <3>1. clean' = clean
            BY <2>1, <2>3 DEF TypeOK
        <3> QED BY <1>journal, <1>same, <2>1, <2>3, <3>1
    <2>4. ASSUME NEW m, clean', Take(g, m) PROVE OnTheWay'
        <3>1. clean' = clean /\ g # socket
            BY <2>1, <2>4 DEF TypeOK
        <3> QED BY <1>take, <2>1, <2>4, <3>1
    <2> QED BY <1>8, <2>2, <2>3, <2>4 DEF Fail
<1>9. CASE (\E wanted \in BOOLEAN : ChangePolicy(wanted)) \/ Push \/ UNCHANGED vars
    <2>1. UNCHANGED <<journal, socket, open, clean, up>>
        BY <1>9 DEF ChangePolicy, Push, PushReads, PushSends, vars
    <2> QED BY <1>journal, <1>same, <2>1
<1> QED BY AfterCommitRecords, <1>0, <1>1, <1>2, <1>3, <1>4, <1>5, <1>6, <1>7, <1>8, <1>9 DEF Next

\* A handler keeps the row of a summary until it is projected.
LEMMA HeldStays ==
    ASSUME TypeOK, AckInv, failures' = failures, [Next]_vars, NEW g \in Sockets,
           handler[g].at \in Busy, handler[g].message.stream = "summary"
    PROVE  \/ handler'[g].at \in Busy /\ handler'[g].message = handler[g].message
           \/ handler[g].at = "upsert" /\ summary' = Upsert(handler[g].message)
<1> USE DEF runtime, link, tables, wish
<1> DEFINE Kept == handler'[g].at \in Busy /\ handler'[g].message = handler[g].message
<1>same. UNCHANGED handler => Kept
    OBVIOUS
<1>not. ~At(g, "idle") /\ ~At(g, "hello") /\ ~At(g, "observations")
    BY DEF At, Busy
<1>acknowledged. /\ Acknowledged(handler[g].message).at \in Busy
                 /\ Acknowledged(handler[g].message).message = handler[g].message
    BY DEF Acknowledged, Idle, Busy
<1>goes. ASSUME NEW k \in Sockets, NEW h, Goes(k, h),
                k = g => h.at \in Busy /\ h.message = handler[g].message
         PROVE  Kept
    <2>1. handler'[g] = IF g = k THEN h ELSE handler[g]
        BY <1>goes DEF Goes, TypeOK
    <2>2. CASE k = g
        <3>1. handler'[g] = h
            BY <2>1, <2>2
        <3> QED BY <1>goes, <2>2, <3>1
    <2>3. CASE k # g
        <3>1. handler'[g] = handler[g]
            BY <2>1, <2>3
        <3> QED BY <3>1
    <2> QED BY <2>2, <2>3
<1> HIDE DEF Kept
<1>1. ASSUME NEW k \in Sockets, Handle(k)
      PROVE  Kept \/ (handler[g].at = "upsert" /\ summary' = Upsert(handler[g].message))
    <2>1. CASE TakeHello(k) \/ LateHello(k)
        <3>1. Goes(k, [Idle EXCEPT !.at = "hello"]) /\ At(k, "idle")
            BY <2>1 DEF TakeHello, LateHello, Take, Waits
        <3>2. k # g
            BY <1>not, <3>1
        <3> QED BY <1>goes, <3>1, <3>2
    <2>2. CASE ReadPolicy(k)
        <3>1. Goes(k, [handler[k] EXCEPT !.at = "observations", !.capture = policy])
            BY <2>2 DEF ReadPolicy
        <3>2. k # g
            BY <1>not, <2>2 DEF ReadPolicy
        <3> QED BY <1>goes, <3>1, <3>2
    <2>3. CASE SendPolicy(k)
        <3>1. Goes(k, Idle)
            BY <2>3 DEF SendPolicy
        <3>2. k # g
            BY <1>not, <2>3 DEF SendPolicy
        <3> QED BY <1>goes, <3>1, <3>2
    <2>4. CASE Project(k)
        <3>1. Goes(k, Idle)
            BY <2>4 DEF Project
        <3>2. CASE k = g
            BY <2>4, <3>2 DEF Project, At
        <3>3. CASE k # g
            BY <1>goes, <3>1, <3>3
        <3> QED BY <3>2, <3>3
    <2>5. CASE TakeMessage(k)
        <3>1. CASE UNCHANGED handler
            BY <1>same, <3>1
        <3>2. ASSUME NEW m, TakeBatch(k, m), Goes(k, [Idle EXCEPT !.at = "cursor", !.message = m])
              PROVE  Kept
            <4>1. k # g
                BY <1>not, <3>2 DEF TakeBatch, Take, Waits
            <4> QED BY <1>goes, <3>2, <4>1
        <3> QED BY <2>5, <3>1, <3>2 DEF TakeMessage, TakeRunSummary, TakeBatch
    <2>6. CASE ReadCursor(k)
        <3> DEFINE h == [handler[k] EXCEPT !.at = "pending",
                                           !.last = cursor[handler[k].message.stream]]
        <3>1. Goes(k, h)
            BY <2>6 DEF ReadCursor
        <3>2. h.at = "pending" /\ h.message = handler[k].message
            BY DEF TypeOK, Handlers
        <3> HIDE DEF h
        <3> QED BY <1>goes, <3>1, <3>2 DEF Busy
    <2>7. CASE ReadPending(k)
        <3>1. PICK n : Goes(k, IF n = handler[k].last THEN Acknowledged(handler[k].message)
                               ELSE [handler[k] EXCEPT !.at = "write", !.last = n])
            BY <2>7 DEF ReadPending
        <3>2. CASE n = handler[k].last
            <4>1. Goes(k, Acknowledged(handler[k].message))
                BY <3>1, <3>2
            <4> QED BY <1>acknowledged, <1>goes, <4>1
        <3>3. CASE n # handler[k].last
            <4> DEFINE h == [handler[k] EXCEPT !.at = "write", !.last = n]
            <4>1. Goes(k, h)
                BY <3>1, <3>3
            <4>2. h.at = "write" /\ h.message = handler[k].message
                BY DEF TypeOK, Handlers
            <4> HIDE DEF h
            <4> QED BY <1>goes, <4>1, <4>2 DEF Busy
        <3> QED BY <3>2, <3>3
    <2>8. CASE WriteCursor(k)
        <3>1. Goes(k, Acknowledged(handler[k].message))
            BY <2>8 DEF WriteCursor
        <3> QED BY <1>acknowledged, <1>goes, <3>1
    <2> QED BY <1>1, <2>1, <2>2, <2>3, <2>4, <2>5, <2>6, <2>7, <2>8 DEF Handle
<1>2. ASSUME NEW k \in Sockets, Close(k) PROVE Kept
    BY <1>2, <1>same DEF Close
<1>3. failures \in Int /\ failures + 1 # failures
    BY SyncAssumption DEF TypeOK
<1>4. ASSUME NEW k \in Sockets, Fail(k) PROVE FALSE
    BY <1>3, <1>4 DEF Fail
<1>5. CASE Restart
    BY <1>3, <1>5 DEF Restart
<1>6. CASE UNCHANGED handler
    BY <1>6, <1>same
<1>7. CASE Retain \/ Connect \/ Disconnect \/ RuntimeReceives
    BY <1>6, <1>7 DEF Retain, Connect, Disconnect, RuntimeReceives, ReceiveAck, ReceivePolicy
<1>8. CASE (\E r \in Runs : Commit(r)) \/ AfterCommit \/ \E wanted \in BOOLEAN : ChangePolicy(wanted)
    BY <1>6, <1>8, AfterCommitKeeps DEF Commit, ChangePolicy
<1>9. CASE Push \/ UNCHANGED vars
    BY <1>6, <1>9 DEF Push, PushReads, PushSends, vars
<1>10. CASE \E k \in Sockets : Handle(k) \/ Close(k) \/ Fail(k)
    BY <1>1, <1>2, <1>4, <1>10 DEF Kept
<1> QED BY <1>5, <1>7, <1>8, <1>9, <1>10 DEF Next

\* A row that is taken is in the handler's hands.
LEMMA TakenIsHeld ==
    ASSUME TypeOK, NEW g \in Sockets, NEW m \in UpBatch, TakeBatch(g, m),
           m.seq \notin stored[m.stream]
    PROVE  /\ handler'[g].at \in Busy /\ handler'[g].message = m
           /\ stored' = [stored EXCEPT ![m.stream] = @ \cup {m.seq}]
<1>1. Goes(g, [Idle EXCEPT !.at = "cursor", !.message = m])
    BY DEF TakeBatch
<1>2. handler'[g] = [Idle EXCEPT !.at = "cursor", !.message = m]
    BY <1>1 DEF Goes, TypeOK
<1> QED BY <1>2 DEF TakeBatch, Idle, Busy

\* Until a handler fails, a summary that is stored is projected or held.
LEMMA InHandStep ==
    ASSUME TypeOK, TypeOK', AckInv, RowsKnown, MessagesKnown, HandlersKnown, StoredKnown,
           SummaryKnown, InHand, CleanStart, [Next]_vars
    PROVE  InHand'
<1> DEFINE run(i) == journal["summary"][i].run
           last(i) == journal["summary"][i].last
           Done(i) == last(i) <= summary[run(i)]
<1>1. SUFFICES ASSUME failures' = 0, NEW i \in stored'["summary"]
               PROVE  journal'["summary"][i].last <= summary'[journal'["summary"][i].run]
                      \/ Held("summary", i)'
    BY DEF InHand
<1>2. failures = 0 /\ "summary" \in Streams
    BY <1>1, CleanStartStep DEF Streams
<1>3. \A r \in Runs : summary[r] <= summary'[r] /\ summary[r] \in Nat /\ summary'[r] \in Nat
    BY SummaryKnownStep DEF TypeOK
<1>4. CASE i \in stored["summary"]
    <2>1. i \in 1..Len(journal["summary"])
        BY <1>2, <1>4 DEF StoredKnown
    <2>2. /\ journal'["summary"][i].run = run(i) /\ journal'["summary"][i].last = last(i)
          /\ run(i) \in Runs /\ last(i) \in Nat
        <3>1. journal["summary"][i] \in Rows
            <4>1. PICK rows \in Seq(Rows) : rows = journal["summary"]
                BY <1>2 DEF TypeOK
            <4> QED BY <2>1, <4>1
        <3> QED BY <1>2, <2>1, <3>1, AllOlder DEF Older, Rows
    <2>3. Done(i) \/ Held("summary", i)
        BY <1>2, <1>4 DEF InHand
    <2>4. CASE Done(i)
        <3> HIDE DEF run, last
        <3>1. last(i) <= summary'[run(i)]
            BY <1>3, <2>2, <2>4
        <3> QED BY <2>2, <3>1
    <2>5. CASE Held("summary", i)
        <3>1. PICK g \in Sockets : /\ handler[g].at \in Busy
                                   /\ handler[g].message.stream = "summary"
                                   /\ handler[g].message.seq = i
            BY <2>5 DEF Held
        <3>2. CASE handler'[g].at \in Busy /\ handler'[g].message = handler[g].message
            BY <3>1, <3>2 DEF Held
        <3>3. CASE handler[g].at = "upsert" /\ summary' = Upsert(handler[g].message)
            <4>1. PICK m \in UpBatch : m = handler[g].message
                BY <3>3 DEF AckInv
            <4>2. m.run = run(i) /\ m.last = last(i)
                BY <3>1, <4>1 DEF HandlersKnown, Known
            <4>3. summary' = Upsert(m)
                BY <3>3, <4>1
            <4> HIDE DEF run, last
            <4>4. last(i) <= summary'[run(i)]
                <5>1. summary'[run(i)] = IF summary[run(i)] <= last(i) THEN last(i)
                                         ELSE summary[run(i)]
                    BY <2>2, <4>2, <4>3 DEF Upsert, TypeOK
                <5>2. summary[run(i)] \in Nat
                    BY <1>3, <2>2
                <5> QED BY <2>2, <5>1, <5>2
            <4> QED BY <2>2, <4>4
        <3> QED BY <1>1, <1>2, <3>1, <3>2, <3>3, HeldStays
    <2> QED BY <2>3, <2>4, <2>5
<1>5. CASE i \notin stored["summary"]
    <2>1. PICK g \in Sockets, m \in UpBatch : TakeBatch(g, m)
        BY <1>5, StoredMoves
    <2>2. m.seq \notin stored[m.stream]
        BY <1>5, <2>1 DEF TakeBatch
    <2>3. /\ handler'[g].at \in Busy /\ handler'[g].message = m
          /\ stored' = [stored EXCEPT ![m.stream] = @ \cup {m.seq}]
        BY <2>1, <2>2, TakenIsHeld
    <2>4. m.stream = "summary" /\ m.seq = i
        BY <1>2, <1>5, <2>3 DEF TypeOK
    <2> QED BY <2>3, <2>4 DEF Held
<1> QED BY <1>4, <1>5

LEMMA ArriveInit == Init => ArriveInv
<1> SUFFICES ASSUME Init PROVE ArriveInv
    OBVIOUS
<1> USE DEF Init
<1>1. \A s \in Streams : Len(journal[s]) = 0 /\ stored[s] = {}
    OBVIOUS
<1>2. \A g \in Sockets : Len(up[g]) = 0 /\ handler[g].at \notin Busy
    BY DEF Idle, Busy
<1>3. \A r \in Runs : committed[r] = 0 /\ summary[r] = 0
    OBVIOUS
<1>4. "summary" \in Streams
    BY DEF Streams
<1>5. RowsKnown /\ MessagesKnown /\ HandlersKnown /\ StoredKnown
    BY <1>1, <1>2 DEF RowsKnown, MessagesKnown, HandlersKnown, StoredKnown
<1>6. SummaryKnown /\ LastRow
    BY <1>3 DEF SummaryKnown, LastRow
<1>7. OnTheWay /\ InHand /\ CleanStart
    BY <1>1, <1>4 DEF OnTheWay, InHand, CleanStart
<1> QED BY <1>5, <1>6, <1>7 DEF ArriveInv

LEMMA ArriveStep ==
    TypeOK /\ TypeOK' /\ AckInv /\ AckInv' /\ ArriveInv /\ [Next]_vars => ArriveInv'
<1> SUFFICES ASSUME TypeOK, TypeOK', AckInv, AckInv', ArriveInv, [Next]_vars PROVE ArriveInv'
    OBVIOUS
<1>1. /\ RowsKnown /\ MessagesKnown /\ HandlersKnown /\ StoredKnown /\ SummaryKnown
      /\ LastRow /\ OnTheWay /\ InHand /\ CleanStart
    BY DEF ArriveInv
<1>2. RowsKnown' /\ MessagesKnown' /\ HandlersKnown' /\ StoredKnown' /\ SummaryKnown'
    BY <1>1, RowsKnownStep, MessagesKnownStep, HandlersKnownStep, StoredKnownStep,
       SummaryKnownStep
<1>3. LastRow' /\ OnTheWay' /\ InHand' /\ CleanStart'
    BY <1>1, LastRowStep, OnTheWayStep, InHandStep, CleanStartStep
<1> QED BY <1>2, <1>3 DEF ArriveInv

LEMMA ArriveInvariant == Spec => [](TypeOK /\ AckInv /\ ArriveInv)
<1>1. Init => TypeOK /\ AckInv /\ ArriveInv
    BY InitInv, ArriveInit
<1>2. TypeOK /\ AckInv /\ ArriveInv /\ [Next]_vars => (TypeOK /\ AckInv /\ ArriveInv)'
    BY TypeStep, AckStep, ArriveStep
<1> QED BY <1>1, <1>2, PTL DEF Spec

\* When nothing is under way, the cloud has every row of both streams, if no
\* handler failed on the open socket; if none ever did, it shows of each run what
\* the newest row of the run says or something newer, and the run's last transition
\* unless that got no row.  What is sent when a socket is opened and what is taken
\* beside it, of sockets that were lost, leave no gap, and a transition whose
\* publication failed or was cut off by a crash costs its own summary only
\* (onOpen, unackedJournal, appendJournal, afterCommit, upsertRunSummary).  What
\* counts as delivered was stored.
THEOREM NothingMissed == Spec => []NothingIsMissed
<1>1. ASSUME TypeOK, AckInv, ArriveInv PROVE RowsArrive /\ SummariesArrive
    <2>1. ASSUME Quiet, open, clean, NEW s \in Streams
          PROVE  stored[s] = DOMAIN journal[s]
        <3>1. socket \in Sockets
            BY <1>1, <2>1 DEF ArriveInv, CleanStart
        <3>2. Len(up[socket]) = 0
            BY <2>1, <3>1 DEF Quiet
        <3>3. \A i \in 1..Len(journal[s]) : ~Carried(s, i)
            BY <3>2 DEF Carried
        <3>4. \A i \in 1..Len(journal[s]) : i \in stored[s]
            BY <1>1, <2>1, <3>3 DEF ArriveInv, OnTheWay
        <3>5. stored[s] \subseteq 1..Len(journal[s])
            BY <1>1 DEF ArriveInv, StoredKnown
        <3>6. DOMAIN journal[s] = 1..Len(journal[s])
            BY <1>1 DEF TypeOK
        <3> QED BY <3>4, <3>5, <3>6
    <2>2. ASSUME Quiet, open, failures = 0, NEW r \in Runs
          PROVE  /\ \A i \in DOMAIN journal["summary"] :
                        journal["summary"][i].run = r => journal["summary"][i].last <= summary[r]
                 /\ summary[r] <= committed[r]
                 /\ r \in lapsed \/ summary[r] = committed[r]
        <3>1. clean /\ "summary" \in Streams
            BY <1>1, <2>2 DEF ArriveInv, CleanStart, Streams
        <3>2. /\ summary[r] \in Nat /\ committed[r] \in Nat /\ summary[r] <= committed[r]
            BY <1>1 DEF TypeOK, ArriveInv, SummaryKnown
        <3>3. ASSUME NEW i \in DOMAIN journal["summary"], journal["summary"][i].run = r
              PROVE  journal["summary"][i].last <= summary[r]
            <4>1. i \in stored["summary"]
                BY <2>1, <2>2, <3>1
            <4>2. ~Held("summary", i)
                BY <2>2 DEF Held, Quiet, At, Busy
            <4> QED BY <1>1, <2>2, <3>3, <4>1, <4>2 DEF ArriveInv, InHand
        <3>4. CASE committed[r] > 0 /\ r \notin lapsed
            <4>1. publishing = {}
                BY <2>2 DEF Quiet, Free
            <4>2. PICK i \in 1..Len(journal["summary"]) :
                      /\ journal["summary"][i].run = r
                      /\ journal["summary"][i].last = committed[r]
                BY <1>1, <3>4, <4>1 DEF ArriveInv, LastRow
            <4>3. DOMAIN journal["summary"] = 1..Len(journal["summary"])
                BY <1>1, <3>1 DEF TypeOK
            <4>4. committed[r] <= summary[r]
                BY <3>3, <4>2, <4>3
            <4> QED BY <3>2, <3>3, <4>4
        <3>5. CASE ~(committed[r] > 0)
            BY <3>2, <3>3, <3>5
        <3> QED BY <3>2, <3>3, <3>4, <3>5
    <2>3. RowsArrive
        BY <2>1 DEF RowsArrive
    <2>4. SummariesArrive
        BY <2>2 DEF SummariesArrive
    <2> QED BY <2>3, <2>4
<1>2. AckedIsStored /\ RowsArrive /\ SummariesArrive => NothingIsMissed
    BY DEF NothingIsMissed
<1> QED BY <1>1, <1>2, ArriveInvariant, AckIsHonest, PTL
-----------------------------------------------------------------------------
\* While capture is off each row that waits is empty.
LEMMA EmptiedAll ==
    ASSUME NEW rows \in Seq(Rows), NEW i \in DOMAIN Emptied(rows)
    PROVE  Emptied(rows)[i].acked \/ Emptied(rows)[i].tombstone
<1>1. i \in 1..Len(rows) /\ rows[i] \in Rows
    BY DEF Emptied
<1>2. Emptied(rows)[i] = IF rows[i].acked THEN rows[i] ELSE [rows[i] EXCEPT !.tombstone = TRUE]
    BY <1>1 DEF Emptied
<1> QED BY <1>1, <1>2 DEF Rows

\* An acknowledgement leaves an empty row empty.
LEMMA AckKeepsEmpty ==
    ASSUME NEW rows \in Seq(Rows), NEW n \in Nat, NEW i \in DOMAIN rows,
           rows[i].acked \/ rows[i].tombstone
    PROVE  AckUpTo(rows, n)[i].acked \/ AckUpTo(rows, n)[i].tombstone
<1>1. rows[i] \in Rows
    OBVIOUS
<1>2. AckUpTo(rows, n)[i] = IF i <= n THEN [rows[i] EXCEPT !.acked = TRUE] ELSE rows[i]
    BY DEF AckUpTo
<1> QED BY <1>1, <1>2 DEF Rows

LEMMA OffStep ==
    ASSUME TypeOK, TypeOK', AckInv, OffDiscards, [Next]_vars
    PROVE  OffDiscards'
<1> USE DEF runtime, link, tables, wish
<1> DEFINE raw == journal["raw"]
<1>type. "raw" \in Streams /\ raw \in Seq(Rows)
    BY DEF TypeOK, Streams
<1>same. UNCHANGED capture /\ journal'["raw"] = journal["raw"] => OffDiscards'
    BY DEF OffDiscards
<1>empty. ASSUME journal'["raw"] = Emptied(raw) PROVE OffDiscards'
    BY <1>empty, <1>type, EmptiedAll DEF OffDiscards
<1>1. ASSUME NEW r \in Runs, Commit(r) PROVE OffDiscards'
    BY <1>1, <1>same, CommitKeeps
<1>1a. CASE AfterCommit
    <2>1. PICK r \in publishing : Publish(r) \/ Lapse(r)
        BY <1>1a DEF AfterCommit
    <2>2. PICK written \in SUBSET Wanted, told \in BOOLEAN : Records(r, written, told)
        BY <2>1 DEF Publish, Lapse
    <2>3. capture' = capture
        BY <2>2, RecordsKeep
    <2>4. CASE capture
        BY <2>3, <2>4 DEF OffDiscards
    <2>5. CASE ~capture
        <3>1. "raw" \notin written
            BY <2>2, <2>5 DEF Wanted
        <3>2. journal'["raw"] = journal["raw"]
            BY <1>type, <2>2, <3>1 DEF Records
        <3> QED BY <1>same, <2>3, <3>2
    <2> QED BY <2>4, <2>5
<1>2. CASE Retain
    BY <1>2, <1>empty, <1>type DEF Retain, TypeOK
<1>3. CASE Connect
    <2>1. journal'["raw"] = Gated /\ capture' = capture
        BY <1>3, <1>type DEF Connect, TypeOK
    <2>2. CASE capture
        BY <2>1, <2>2 DEF OffDiscards
    <2>3. CASE ~capture
        BY <1>empty, <2>1, <2>3 DEF Gated
    <2> QED BY <2>2, <2>3
<1>4. ASSUME NEW m, ReceiveAck(m) PROVE OffDiscards'
    <2>1. m \in Acks /\ m.seq \in Nat /\ capture' = capture
        BY <1>4 DEF ReceiveAck, Acks
    <2>2. journal' = [journal EXCEPT ![m.stream] = AckUpTo(journal[m.stream], m.seq)]
        BY <1>4 DEF ReceiveAck, AckUpTo
    <2>3. CASE m.stream = "raw"
        <3>1. journal'["raw"] = AckUpTo(raw, m.seq)
            BY <1>type, <2>2, <2>3 DEF TypeOK
        <3>2. DOMAIN AckUpTo(raw, m.seq) = DOMAIN raw
            BY DEF AckUpTo
        <3> QED BY <1>type, <2>1, <3>1, <3>2, AckKeepsEmpty DEF OffDiscards
    <2>4. CASE m.stream # "raw"
        BY <1>same, <1>type, <2>1, <2>2, <2>4 DEF TypeOK
    <2> QED BY <2>3, <2>4
<1>5. ASSUME NEW m, ReceivePolicy(m) PROVE OffDiscards'
    BY <1>5, <1>empty, <1>type DEF ReceivePolicy, RawAfterPolicy, TypeOK
<1>6. ASSUME NEW g \in Sockets, Handle(g) PROVE UNCHANGED <<capture, journal>>
    BY <1>6 DEF Handle, TakeHello, LateHello, ReadPolicy, SendPolicy, TakeMessage,
                TakeRunSummary, TakeBatch, ReadCursor, ReadPending, WriteCursor, Project
<1>7. ASSUME NEW g \in Sockets, Close(g) PROVE UNCHANGED <<capture, journal>>
    BY <1>7 DEF Close
<1>8. ASSUME NEW g \in Sockets, Fail(g) PROVE UNCHANGED <<capture, journal>>
    BY <1>8 DEF Fail
<1>9. CASE Disconnect \/ Restart \/ (\E wanted \in BOOLEAN : ChangePolicy(wanted))
           \/ Push \/ UNCHANGED vars
    BY <1>9, <1>same DEF Disconnect, Restart, ChangePolicy, Push, PushReads, PushSends, vars
<1> QED BY <1>same, <1>1, <1>1a, <1>2, <1>3, <1>4, <1>5, <1>6, <1>7, <1>8, <1>9
    DEF Next, RuntimeReceives

\* While capture is off, no raw payload waits to be sent: what turning it off
\* left is emptied, and nothing is written after it (applyCaptureGate,
\* publishRawBatch).
THEOREM RawIsDiscarded == Spec => []OffDiscards
<1>1. Init => OffDiscards
    BY DEF Init, OffDiscards, Streams
<1>2. TypeOK /\ TypeOK' /\ AckInv /\ OffDiscards /\ [Next]_vars => OffDiscards'
    BY OffStep
<1> QED BY <1>1, <1>2, Invariant, PTL DEF Spec
-----------------------------------------------------------------------------
(***************************************************************************)
(* The refinement of RowDelivery.  A publication records, a row that is    *)
(* stored is delivered, an acknowledgement that arrives settles; sockets,  *)
(* cursors, policies and retention are none of its steps.                  *)
(***************************************************************************)
Recorded == [s \in Streams |-> Len(journal[s])]
Settled  == [s \in Streams |-> {i \in DOMAIN journal[s] : journal[s][i].acked}]

\* The steps of Delivery in terms of its mapped variables.
LEMMA RecordIs ==
    ASSUME NEW some \in SUBSET Streams,
           Recorded' = [s \in Streams |-> IF s \in some THEN Recorded[s] + 1 ELSE Recorded[s]],
           UNCHANGED <<stored, Settled>>
    PROVE  Delivery!Next
BY DEF Recorded, Settled, Delivery!Next, Delivery!Record

LEMMA DeliverIs ==
    ASSUME NEW s \in Streams, NEW i \in 1..Recorded[s], i \notin stored[s],
           stored' = [stored EXCEPT ![s] = @ \cup {i}], UNCHANGED <<Recorded, Settled>>
    PROVE  Delivery!Next
BY DEF Recorded, Settled, Delivery!Next, Delivery!Deliver

LEMMA SettleIs ==
    ASSUME NEW s \in Streams, NEW n \in 1..Recorded[s], 1..n \subseteq stored[s],
           Settled' = [Settled EXCEPT ![s] = @ \cup 1..n], UNCHANGED <<Recorded, stored>>
    PROVE  Delivery!Next
BY DEF Recorded, Settled, Delivery!Next, Delivery!Settle

\* What is mapped of a stream, row by row.
LEMMA MappedAre ==
    ASSUME TypeOK
    PROVE  /\ Recorded = [s \in Streams |-> Recorded[s]]
           /\ Settled = [s \in Streams |-> Settled[s]]
           /\ \A s \in Streams : /\ journal[s] \in Seq(Rows) /\ Recorded[s] = Len(journal[s])
                                 /\ Recorded[s] \in Nat /\ Settled[s] \subseteq 1..Recorded[s]
                                 /\ \A i \in 1..Recorded[s] : i \in Settled[s] <=> journal[s][i].acked
<1>1. ASSUME NEW s \in Streams
      PROVE  /\ journal[s] \in Seq(Rows) /\ Recorded[s] = Len(journal[s])
             /\ Recorded[s] \in Nat /\ Settled[s] \subseteq 1..Recorded[s]
             /\ \A i \in 1..Recorded[s] : i \in Settled[s] <=> journal[s][i].acked
    <2>1. journal[s] \in Seq(Rows) /\ DOMAIN journal[s] = 1..Len(journal[s])
          /\ Len(journal[s]) \in Nat
        BY DEF TypeOK
    <2> QED BY <2>1 DEF Recorded, Settled
<1> QED BY <1>1 DEF Recorded, Settled

LEMMA MappedNext ==
    ASSUME TypeOK'
    PROVE  /\ Recorded' = [s \in Streams |-> Recorded'[s]]
           /\ Settled' = [s \in Streams |-> Settled'[s]]
           /\ \A s \in Streams : /\ journal'[s] \in Seq(Rows) /\ Recorded'[s] = Len(journal'[s])
                                 /\ Recorded'[s] \in Nat /\ Settled'[s] \subseteq 1..Recorded'[s]
                                 /\ \A i \in 1..Recorded'[s] : i \in Settled'[s] <=> journal'[s][i].acked
<1>1. ASSUME NEW s \in Streams
      PROVE  /\ journal'[s] \in Seq(Rows) /\ Recorded'[s] = Len(journal'[s])
             /\ Recorded'[s] \in Nat /\ Settled'[s] \subseteq 1..Recorded'[s]
             /\ \A i \in 1..Recorded'[s] : i \in Settled'[s] <=> journal'[s][i].acked
    <2>1. journal'[s] \in Seq(Rows) /\ DOMAIN journal'[s] = 1..Len(journal'[s])
          /\ Len(journal'[s]) \in Nat
        BY DEF TypeOK
    <2> QED BY <2>1 DEF Recorded, Settled
<1> QED BY <1>1 DEF Recorded, Settled

LEMMA RecordsRecord ==
    ASSUME TypeOK, TypeOK', NEW r \in Runs, NEW some \in SUBSET Streams, NEW told \in BOOLEAN,
           Records(r, some, told)
    PROVE  Delivery!Next
<1>1. PICK row \in Rows :
          /\ ~row.acked
          /\ \A s \in Streams : journal'[s] = IF s \in some THEN Append(journal[s], row)
                                              ELSE journal[s]
    BY RecordRows
<1>3. ASSUME NEW s \in Streams
      PROVE  journal'[s] = IF s \in some THEN Append(journal[s], row) ELSE journal[s]
    BY <1>1
<1>4. ASSUME NEW s \in Streams
      PROVE  /\ Recorded'[s] = (IF s \in some THEN Recorded[s] + 1 ELSE Recorded[s])
             /\ Settled'[s] = Settled[s]
    <2>1. CASE s \in some
        <3>1. /\ Len(journal'[s]) = Len(journal[s]) + 1
              /\ journal'[s][Len(journal[s]) + 1] = row
              /\ \A i \in 1..Len(journal[s]) : journal'[s][i] = journal[s][i]
            <4>1. PICK q \in Seq(Rows) : q = journal[s]
                BY MappedAre
            <4>2. journal'[s] = Append(q, row)
                BY <1>3, <2>1, <4>1
            <4>3. /\ Len(Append(q, row)) = Len(q) + 1 /\ Append(q, row)[Len(q) + 1] = row
                  /\ \A i \in 1..Len(q) : Append(q, row)[i] = q[i]
                OBVIOUS
            <4> QED BY <4>1, <4>2, <4>3
        <3>2. Recorded'[s] = Recorded[s] + 1
            BY <3>1, MappedAre, MappedNext
        <3>3. \A i \in 1..Recorded[s] : i \in Settled'[s] <=> i \in Settled[s]
            <4> SUFFICES ASSUME NEW i \in 1..Recorded[s] PROVE i \in Settled'[s] <=> i \in Settled[s]
                OBVIOUS
            <4>1. i \in 1..Recorded'[s]
                BY <3>2, MappedAre
            <4>2. journal'[s][i] = journal[s][i]
                BY <3>1, MappedAre
            <4> QED BY <4>1, <4>2, MappedAre, MappedNext
        <3>4. Recorded[s] + 1 \notin Settled'[s]
            BY <1>1, <3>1, <3>2, MappedAre, MappedNext
        <3>5. Settled'[s] \subseteq 1..(Recorded[s] + 1) /\ Settled[s] \subseteq 1..Recorded[s]
              /\ Recorded[s] \in Nat
            BY <3>2, MappedAre, MappedNext
        <3>6. \A i \in 1..(Recorded[s] + 1) : i \in 1..Recorded[s] \/ i = Recorded[s] + 1
            BY <3>5
        <3>7. \A i : i \in Settled'[s] <=> i \in Settled[s]
            <4>1. ASSUME NEW i, i \in Settled'[s] PROVE i \in Settled[s]
                BY <3>3, <3>4, <3>5, <3>6, <4>1
            <4>2. ASSUME NEW i, i \in Settled[s] PROVE i \in Settled'[s]
                BY <3>3, <3>5, <4>2
            <4> QED BY <4>1, <4>2
        <3>8. Settled'[s] = Settled[s]
            BY <3>7, <3>5
        <3> QED BY <2>1, <3>2, <3>8
    <2>2. CASE s \notin some
        BY <1>3, <2>2 DEF Recorded, Settled
    <2> QED BY <2>1, <2>2
<1>5. Recorded' = [s \in Streams |-> IF s \in some THEN Recorded[s] + 1 ELSE Recorded[s]]
    BY <1>4, MappedNext
<1>6. UNCHANGED Settled
    BY <1>4, MappedAre, MappedNext
<1>7. UNCHANGED stored
    BY RecordsKeep
<1> QED BY <1>5, <1>6, <1>7, RecordIs

LEMMA AckSettles ==
    ASSUME TypeOK, TypeOK', AckInv, StoredKnown, NEW m, ReceiveAck(m)
    PROVE  Delivery!Next \/ UNCHANGED <<Recorded, stored, Settled>>
<1>1. m \in Acks /\ m.stream \in Streams /\ m.seq \in Nat
    BY DEF ReceiveAck, Acks
<1>2. PICK t \in Streams : t = m.stream
    BY <1>1
<1>3. PICK n \in Nat : n = m.seq
    BY <1>1
<1>4. 1..n \subseteq stored[t]
    <2>1. down \in Seq(Acks \cup Policies) /\ down # <<>> /\ m = Head(down)
        BY DEF ReceiveAck, Receive, TypeOK
    <2>2. 1 \in 1..Len(down) /\ down[1] = m
        BY <2>1
    <2> QED BY <1>1, <1>2, <1>3, <2>2 DEF AckInv
<1>5. n <= Recorded[t]
    <2>1. n = 0 \/ n \in 1..n
        BY <1>3
    <2>2. stored[t] \subseteq 1..Recorded[t] /\ Recorded[t] \in Nat
        BY MappedAre DEF StoredKnown
    <2> QED BY <1>4, <2>1, <2>2
<1>6. journal' = [journal EXCEPT ![t] = AckUpTo(journal[t], n)]
    BY <1>2, <1>3 DEF ReceiveAck, AckUpTo
<1>7. UNCHANGED stored
    BY DEF ReceiveAck, tables
<1>8. journal'[t] = AckUpTo(journal[t], n) /\ \A s \in Streams : s # t => journal'[s] = journal[s]
    BY <1>6 DEF TypeOK
<1>9. /\ Recorded'[t] = Recorded[t]
      /\ \A i \in 1..Recorded[t] : journal'[t][i].acked <=> journal[t][i].acked \/ i <= n
    <2>1. journal[t] \in Seq(Rows) /\ AckedFirst(journal[t])
        BY MappedAre DEF AckInv
    <2>2. /\ Len(AckUpTo(journal[t], n)) = Len(journal[t])
          /\ \A i \in 1..Len(journal[t]) :
                 AckUpTo(journal[t], n)[i].acked <=> journal[t][i].acked \/ i <= n
        BY <2>1, AckType
    <2>3. Recorded[t] = Len(journal[t])
        BY MappedAre
    <2>4. Recorded'[t] = Len(journal'[t])
        BY MappedNext
    <2>5. journal'[t] = AckUpTo(journal[t], n)
        BY <1>8
    <2> HIDE DEF AckUpTo
    <2>6. Recorded'[t] = Recorded[t]
        BY <2>2, <2>3, <2>4, <2>5
    <2>7. \A i \in 1..Recorded[t] : journal'[t][i].acked <=> journal[t][i].acked \/ i <= n
        BY <2>2, <2>3, <2>5
    <2> QED BY <2>6, <2>7
<1>10. Settled'[t] = Settled[t] \cup 1..n
    <2>1. \A i \in 1..Recorded[t] : i \in Settled'[t] <=> i \in Settled[t] \/ i <= n
        BY <1>9, MappedAre, MappedNext
    <2>2. Settled'[t] \subseteq 1..Recorded[t] /\ Settled[t] \subseteq 1..Recorded[t]
          /\ Recorded[t] \in Nat
        BY <1>9, MappedAre, MappedNext
    <2> QED BY <1>5, <2>1, <2>2
<1>11. \A s \in Streams : s # t => Recorded'[s] = Recorded[s] /\ Settled'[s] = Settled[s]
    BY <1>8 DEF Recorded, Settled
<1>12. UNCHANGED Recorded
    BY <1>9, <1>11, MappedAre, MappedNext
<1>13. Settled' = [Settled EXCEPT ![t] = @ \cup 1..n]
    BY <1>10, <1>11, MappedAre, MappedNext
<1>14. CASE n = 0
    <2>1. Settled'[t] = Settled[t]
        BY <1>10, <1>14
    <2>2. UNCHANGED Settled
        BY <1>11, <2>1, MappedAre, MappedNext
    <2> QED BY <1>7, <1>12, <2>2
<1>15. CASE n # 0
    <2>1. n \in 1..Recorded[t]
        BY <1>5, <1>15, MappedAre
    <2> QED BY <1>4, <1>7, <1>12, <1>13, <2>1, SettleIs
<1> QED BY <1>14, <1>15

LEMMA BatchDelivers ==
    ASSUME TypeOK, MessagesKnown, NEW g \in Sockets, NEW m \in UpBatch, TakeBatch(g, m)
    PROVE  Delivery!Next \/ UNCHANGED <<Recorded, stored, Settled>>
<1>1. UNCHANGED <<Recorded, Settled>>
    BY DEF TakeBatch, runtime, Recorded, Settled
<1>2. CASE m.seq \in stored[m.stream]
    BY <1>1, <1>2 DEF TakeBatch
<1>3. CASE m.seq \notin stored[m.stream]
    <2>1. \E i \in 1..Len(up[g]) : m = up[g][i]
        BY TakeFrom DEF TakeBatch
    <2>2. m.stream \in Streams /\ m.seq \in 1..Recorded[m.stream]
        BY <2>1, MappedAre DEF MessagesKnown, Known, UpBatch
    <2>3. stored' = [stored EXCEPT ![m.stream] = @ \cup {m.seq}]
        BY <1>3 DEF TakeBatch
    <2> QED BY <1>1, <1>3, <2>2, <2>3, DeliverIs
<1> QED BY <1>2, <1>3

LEMMA EmptiedSettles ==
    ASSUME TypeOK, TypeOK', journal' = [journal EXCEPT !["raw"] = Emptied(@)]
    PROVE  UNCHANGED <<Recorded, Settled>>
<1>1. ASSUME NEW s \in Streams PROVE Recorded'[s] = Recorded[s] /\ Settled'[s] = Settled[s]
    <2>1. CASE s = "raw"
        <3>1. journal'[s] = Emptied(journal[s])
            BY <2>1 DEF TypeOK
        <3>2. /\ Len(journal'[s]) = Len(journal[s])
              /\ \A i \in 1..Len(journal[s]) : journal'[s][i].acked = journal[s][i].acked
            BY <3>1, EmptiedType, MappedAre
        <3>3. Recorded'[s] = Recorded[s]
            BY <3>2, MappedAre, MappedNext
        <3>4. \A i \in 1..Recorded[s] : i \in Settled'[s] <=> i \in Settled[s]
            BY <3>2, <3>3, MappedAre, MappedNext
        <3>5. Settled'[s] \subseteq 1..Recorded[s] /\ Settled[s] \subseteq 1..Recorded[s]
            BY <3>3, MappedAre, MappedNext
        <3> QED BY <3>3, <3>4, <3>5
    <2>2. CASE s # "raw"
        <3>1. journal'[s] = journal[s]
            BY <2>2 DEF TypeOK
        <3> QED BY <3>1 DEF Recorded, Settled
    <2> QED BY <2>1, <2>2
<1> QED BY <1>1, MappedAre, MappedNext

LEMMA DeliveryStep ==
    ASSUME TypeOK, TypeOK', AckInv, ArriveInv, [Next]_vars
    PROVE  Delivery!Next \/ UNCHANGED <<Recorded, stored, Settled>>
<1> USE DEF runtime, link, tables, wish
<1>same. UNCHANGED journal => UNCHANGED <<Recorded, Settled>>
    BY DEF Recorded, Settled
<1>1. CASE AfterCommit
    BY <1>1, AfterCommitRecords, RecordsRecord
<1>1a. ASSUME NEW r \in Runs, Commit(r) PROVE UNCHANGED <<journal, stored>>
    BY <1>1a, CommitKeeps
<1>2. ASSUME NEW m, ReceiveAck(m) PROVE Delivery!Next \/ UNCHANGED <<Recorded, stored, Settled>>
    BY <1>2, AckSettles DEF ArriveInv
<1>3. ASSUME NEW g \in Sockets, NEW m \in UpBatch, TakeBatch(g, m)
      PROVE  Delivery!Next \/ UNCHANGED <<Recorded, stored, Settled>>
    BY <1>3, BatchDelivers DEF ArriveInv
<1>4. CASE UNCHANGED <<journal, stored>>
    BY <1>4, <1>same
<1>5. CASE Retain
    BY <1>5, EmptiedSettles DEF Retain
<1>6. CASE Connect
    <2>1. journal' = journal \/ journal' = [journal EXCEPT !["raw"] = Emptied(@)]
        BY <1>6 DEF Connect, Gated, TypeOK
    <2>2. UNCHANGED <<Recorded, Settled>>
        BY <1>same, <2>1, EmptiedSettles
    <2> QED BY <1>6, <2>2 DEF Connect
<1>7. ASSUME NEW m, ReceivePolicy(m) PROVE UNCHANGED <<Recorded, stored, Settled>>
    BY <1>7, EmptiedSettles DEF ReceivePolicy, RawAfterPolicy
<1>8. ASSUME NEW g \in Sockets, Handle(g), UNCHANGED stored PROVE UNCHANGED <<journal, stored>>
    BY <1>8 DEF Handle, TakeHello, LateHello, ReadPolicy, SendPolicy, TakeMessage,
                TakeRunSummary, TakeBatch, ReadCursor, ReadPending, WriteCursor, Project
<1>9. ASSUME NEW g \in Sockets, Close(g) \/ Fail(g) PROVE UNCHANGED <<journal, stored>>
    BY <1>9 DEF Close, Fail
<1>10. CASE Disconnect \/ Restart \/ (\E wanted \in BOOLEAN : ChangePolicy(wanted)) \/ Push
            \/ UNCHANGED vars
    BY <1>4, <1>10 DEF Disconnect, Restart, ChangePolicy, Push, PushReads, PushSends, vars
<1>11. UNCHANGED stored \/ \E g \in Sockets, m \in UpBatch : TakeBatch(g, m)
    BY StoredMoves
<1> HIDE DEF runtime, link, tables, wish
<1> QED BY <1>1, <1>1a, <1>2, <1>3, <1>4, <1>5, <1>6, <1>7, <1>8, <1>9, <1>10, <1>11
        DEF Next, RuntimeReceives

LEMMA DeliveryStarts == Init => Delivery!Init
<1> SUFFICES ASSUME Init PROVE Delivery!Init
    OBVIOUS
<1>1. \A s \in Streams : journal[s] = <<>>
    BY DEF Init
<1>2. Recorded = [s \in Streams |-> 0] /\ Settled = [s \in Streams |-> {}]
    BY <1>1 DEF Recorded, Settled
<1>3. stored = [s \in Streams |-> {}]
    BY DEF Init
<1> QED BY <1>2, <1>3 DEF Delivery!Init, Recorded, Settled

\* The journal implements RowDelivery: whatever sockets are lost, overlap or fail, a
\* row is delivered once and none that was not recorded, and what was settled at home
\* stays so and is never ahead of what was delivered (appendJournal, ackJournal).
THEOREM DeliveryRefined == Spec => DeliversRows
<1>1. TypeOK /\ TypeOK' /\ AckInv /\ ArriveInv /\ [Next]_vars =>
        Delivery!Next \/ UNCHANGED <<Recorded, stored, Settled>>
    BY DeliveryStep
<1> QED BY <1>1, ArriveInvariant, DeliveryStarts, PTL
    DEF Spec, DeliversRows, Delivery!Spec, Recorded, Settled
=============================================================================
