--------------------------- MODULE Studio_proofs ---------------------------
(***************************************************************************)
(* Theorems about what a person does in the web pages: starting tests,     *)
(* editing, the test runs themselves, and connecting a device.  Each has   *)
(* an inductive invariant of its own; module Services_proofs puts them     *)
(* together with those of the other services.                              *)
(***************************************************************************)
EXTENDS MCServices, SequenceLemmas

-----------------------------------------------------------------------------
(***************************************************************************)
(* Starting runs.  What a key remembers is the run of a request that has   *)
(* been answered; and of two tests of one key that were both sent, the     *)
(* later one came while the first was under way, since a key is remembered *)
(* from the first answer on.                                               *)
(***************************************************************************)
Inserting == {"session", "row", "remember"}

\* The test of this request was not refused, cut off or answered from what was remembered.
WasSent(q) ==
    ~start[q].live /\ (start[q].at \in Inserting \cup {"send"}
                       \/ (start[q].at = "answered" /\ start[q].run = q))

OrderInv == \A q \in Starts, i \in Starts : i < q /\ start[i].at = "none" => start[q].at = "none"

InsertedInv ==
    \A q \in Starts :
        /\ start[q].at = "flow" => start[q].live
        /\ start[q].at \in Inserting \cup {"send"} => ~start[q].live
        /\ start[q].at \in {"row", "remember"} => q \in tested
        /\ start[q].at = "remember" => q \in DOMAIN rows

RememberedInv ==
    \A k \in DOMAIN remembered :
        LET r == remembered[k].run IN
        /\ r \in tested /\ r \in DOMAIN rows
        /\ ~start[r].live /\ start[r].at = "answered" /\ start[r].run = r /\ start[r].key = k

AnsweredInv ==
    \A q \in Starts : start[q].at = "answered" /\ ~start[q].live =>
        LET r == start[q].run IN
        /\ r \in Starts /\ r \in tested /\ r \in DOMAIN rows
        /\ ~start[r].live /\ start[r].at = "answered" /\ start[r].run = r
        /\ start[r].key = start[q].key /\ start[q].key \in DOMAIN remembered

HomeInv ==
    \A q \in Starts : q \in DOMAIN home \/ q \in ToSet(wire) =>
        /\ start[q].at # "none"
        /\ start[q].live \/ start[q].at \in Inserting \cup {"cut"}
           \/ (start[q].at = "answered" /\ start[q].run = q)

ReportedInv ==
    \A q \in Starts : IF q \in DOMAIN rows THEN rows[q] = reported[q] ELSE reported[q] = 0

OverlapInv ==
    \A q \in Starts, i \in Starts :
        i < q /\ WasSent(i) /\ WasSent(q) /\ start[i].key = start[q].key => i \in start[q].beside

StartsInv ==
    /\ StartsTypeOK /\ OrderInv /\ InsertedInv /\ RememberedInv /\ AnsweredInv /\ HomeInv
    /\ ReportedInv /\ OverlapInv

StartRow == [at : {"none", "send", "session", "row", "remember", "flow",
                   "answered", "refused", "cut"},
             live : BOOLEAN, key : StartKeys, source : {Draft} \cup Starts,
             run : {0} \cup Starts, beside : SUBSET Starts]
KeyRow   == [source : {Draft} \cup Starts, run : Starts]

LEMMA StartsTypes ==
  StartsTypeOK <=>
    /\ start \in [Starts -> StartRow]
    /\ DOMAIN remembered \subseteq StartKeys
    /\ \A k \in DOMAIN remembered : remembered[k] \in KeyRow
    /\ tested \subseteq Starts
    /\ DOMAIN rows \subseteq Starts /\ \A r \in DOMAIN rows : rows[r] \in 0..RunEnd
    /\ DOMAIN home \subseteq Starts /\ \A r \in DOMAIN home : home[r] \in 1..RunEnd
    /\ reported \in [Starts -> 0..RunEnd]
    /\ wire \in Seq({Off} \cup Starts)
    /\ flowOn \in BOOLEAN /\ homeOn \in BOOLEAN
    /\ lost \in 0..MaxLost /\ restarts \in 0..MaxLost /\ lost + restarts <= MaxLost
BY DEF StartsTypeOK, StartRow, KeyRow

LEMMA StartsStart == StartsInit => StartsInv
<1> SUFFICES ASSUME StartsInit PROVE StartsInv
  OBVIOUS
<1>1. (CHOOSE k \in StartKeys : TRUE) \in StartKeys
  BY StartsAssumption
<1>2. start \in [Starts -> StartRow] /\ \A q \in Starts : start[q].at = "none"
  BY <1>1 DEF StartsInit, StartRow
<1>3. DOMAIN remembered = {} /\ DOMAIN rows = {} /\ DOMAIN home = {} /\ ToSet(wire) = {}
  BY DEF StartsInit, ToSet
<1>4. StartsTypeOK
  BY <1>2, <1>3, StartsAssumption, StartsTypes DEF StartsInit
<1>5. OrderInv /\ InsertedInv /\ AnsweredInv /\ OverlapInv
  BY <1>2 DEF OrderInv, InsertedInv, AnsweredInv, OverlapInv, WasSent, Inserting
<1>6. RememberedInv /\ HomeInv /\ ReportedInv
  BY <1>3, StartsAssumption DEF RememberedInv, HomeInv, ReportedInv, StartsInit
<1> QED BY <1>4, <1>5, <1>6 DEF StartsInv

\* What is appended to the wire is on it, and what was.
LEMMA WireGets ==
  ASSUME wire \in Seq({Off} \cup Starts), NEW e \in {Off} \cup Starts
  PROVE  /\ Append(wire, e) \in Seq({Off} \cup Starts)
         /\ ToSet(Append(wire, e)) = ToSet(wire) \cup {e}
<1>1. /\ DOMAIN wire = 1..Len(wire) /\ Len(wire) \in Nat
      /\ DOMAIN Append(wire, e) = 1..(Len(wire) + 1)
      /\ \A i \in 1..Len(wire) : Append(wire, e)[i] = wire[i]
      /\ Append(wire, e)[Len(wire) + 1] = e
  OBVIOUS
<1>2. Append(wire, e) \in Seq({Off} \cup Starts)
  OBVIOUS
<1>3. ASSUME NEW x \in ToSet(Append(wire, e)) PROVE x \in ToSet(wire) \cup {e}
  BY <1>1 DEF ToSet
<1>4. ASSUME NEW x \in ToSet(wire) \cup {e} PROVE x \in ToSet(Append(wire, e))
  BY <1>1 DEF ToSet
<1> QED BY <1>2, <1>3, <1>4

\* A request goes on: its test is not forgotten by what the invariant says of the others.
LEMMA RequestMoves ==
  ASSUME StartsInv, NEW q \in Starts, NEW s \in StartRow,
         start' = [start EXCEPT ![q] = s],
         start[q].at \in Inserting \cup {"send", "flow"},
         s.at # "none", s.live = start[q].live, s.key = start[q].key, s.beside = start[q].beside,
         WasSent(q)' => WasSent(q)
  PROVE  /\ start' \in [Starts -> StartRow] /\ OrderInv' /\ OverlapInv'
         /\ \A i \in Starts : i # q => start'[i] = start[i]
         /\ start'[q] = s
<1>1. start \in [Starts -> StartRow]
  BY StartsTypes DEF StartsInv
<1>2. /\ start' \in [Starts -> StartRow] /\ start'[q] = s
      /\ \A i \in Starts : i # q => start'[i] = start[i]
  BY <1>1
<1>3. OrderInv'
  BY <1>2 DEF StartsInv, OrderInv, Inserting
<1>4. \A i \in Starts : /\ WasSent(i)' => WasSent(i)
                        /\ start'[i].key = start[i].key /\ start'[i].beside = start[i].beside
  BY <1>2 DEF WasSent
<1>5. OverlapInv'
  BY <1>4 DEF StartsInv, OverlapInv
<1> QED BY <1>2, <1>3, <1>5

\* What is remembered and answered stands while requests that are under way go on.
LEMMA AnswersStand ==
  ASSUME StartsInv, remembered' = remembered, tested \subseteq tested',
         DOMAIN rows \subseteq DOMAIN rows',
         \A i \in Starts : start[i].at = "answered" => start'[i] = start[i],
         \A i \in Starts : start'[i].at = "answered" /\ ~start'[i].live => start[i].at = "answered"
  PROVE  RememberedInv' /\ AnsweredInv'
<1>1. \A k \in DOMAIN remembered : remembered[k].run \in Starts
  BY StartsTypes DEF StartsInv, KeyRow
<1>2. RememberedInv'
  BY <1>1 DEF StartsInv, RememberedInv
<1>3. ASSUME NEW i \in Starts, start'[i].at = "answered", ~start'[i].live
      PROVE  LET r == start'[i].run IN
             /\ r \in Starts /\ r \in tested' /\ r \in DOMAIN rows'
             /\ ~start'[r].live /\ start'[r].at = "answered" /\ start'[r].run = r
             /\ start'[r].key = start'[i].key /\ start'[i].key \in DOMAIN remembered'
  BY <1>3 DEF StartsInv, AnsweredInv
<1> QED BY <1>2, <1>3 DEF AnsweredInv

\* A row never goes back, and shows the last summary that arrived.
LEMMA UpsertKeeps ==
  ASSUME StartsInv, NEW q \in Starts, NEW n \in 0..RunEnd, Upsert(q, n),
         \/ n = 0 /\ reported' = reported
         \/ n = reported[q] + 1 /\ reported' = [reported EXCEPT ![q] = n]
  PROVE  /\ DOMAIN rows' = {q} \cup DOMAIN rows /\ \A r \in DOMAIN rows' : rows'[r] \in 0..RunEnd
         /\ reported' \in [Starts -> 0..RunEnd]
         /\ ReportedInv'
<1>1. /\ reported \in [Starts -> 0..RunEnd] /\ DOMAIN rows \subseteq Starts
      /\ \A r \in DOMAIN rows : rows[r] \in 0..RunEnd
  BY StartsTypes DEF StartsInv
<1>2. RunEnd \in Nat
  BY StartsAssumption
<1>3. /\ DOMAIN rows' = {q} \cup DOMAIN rows
      /\ \A r \in DOMAIN rows : r # q => rows'[r] = rows[r]
      /\ rows'[q] = IF q \notin DOMAIN rows \/ rows[q] <= n THEN n ELSE rows[q]
  BY DEF Upsert
<1>4. IF q \in DOMAIN rows THEN rows[q] = reported[q] ELSE reported[q] = 0
  BY DEF StartsInv, ReportedInv
<1>5. reported' \in [Starts -> 0..RunEnd] /\ \A r \in Starts : r # q => reported'[r] = reported[r]
  BY <1>1
<1>6. reported'[q] = IF n = 0 /\ reported' = reported THEN reported[q] ELSE n
  BY <1>1
<1>7. rows'[q] = reported'[q]
  BY <1>1, <1>2, <1>3, <1>4, <1>6
<1>8. \A r \in DOMAIN rows' : rows'[r] \in 0..RunEnd
  BY <1>1, <1>3
<1>9. ReportedInv'
  BY <1>3, <1>5, <1>7 DEF StartsInv, ReportedInv
<1> QED BY <1>3, <1>5, <1>8, <1>9

LEMMA StartsKept ==
  ASSUME StartsInv, [StartsNext]_startVars
  PROVE  StartsInv'
<1> DEFINE Kept ==
        /\ start' \in [Starts -> StartRow]
        /\ DOMAIN remembered' \subseteq StartKeys
        /\ \A k \in DOMAIN remembered' : remembered'[k] \in KeyRow
        /\ tested' \subseteq Starts
        /\ DOMAIN rows' \subseteq Starts /\ \A r \in DOMAIN rows' : rows'[r] \in 0..RunEnd
        /\ DOMAIN home' \subseteq Starts /\ \A r \in DOMAIN home' : home'[r] \in 1..RunEnd
        /\ reported' \in [Starts -> 0..RunEnd]
        /\ wire' \in Seq({Off} \cup Starts)
        /\ flowOn' \in BOOLEAN /\ homeOn' \in BOOLEAN
        /\ lost' \in 0..MaxLost /\ restarts' \in 0..MaxLost /\ lost' + restarts' <= MaxLost
        /\ OrderInv' /\ InsertedInv' /\ RememberedInv' /\ AnsweredInv' /\ HomeInv'
        /\ ReportedInv' /\ OverlapInv'
<1>t. /\ start \in [Starts -> StartRow]
      /\ DOMAIN remembered \subseteq StartKeys
      /\ \A k \in DOMAIN remembered : remembered[k] \in KeyRow
      /\ tested \subseteq Starts
      /\ DOMAIN rows \subseteq Starts /\ \A r \in DOMAIN rows : rows[r] \in 0..RunEnd
      /\ DOMAIN home \subseteq Starts /\ \A r \in DOMAIN home : home[r] \in 1..RunEnd
      /\ reported \in [Starts -> 0..RunEnd]
      /\ wire \in Seq({Off} \cup Starts)
      /\ flowOn \in BOOLEAN /\ homeOn \in BOOLEAN
      /\ lost \in 0..MaxLost /\ restarts \in 0..MaxLost /\ lost + restarts <= MaxLost
  BY StartsTypes DEF StartsInv
<1>i. /\ OrderInv /\ InsertedInv /\ RememberedInv /\ AnsweredInv /\ HomeInv
      /\ ReportedInv /\ OverlapInv
  BY DEF StartsInv
<1>n. RunEnd \in Nat /\ RunEnd # 0 /\ MaxLost \in Nat /\ MaxStarts \in Nat
  BY StartsAssumption
<1>m. \A r \in DOMAIN remembered : /\ remembered[r].run \in Starts
                                   /\ remembered[r].source \in {Draft} \cup Starts
  BY <1>t DEF KeyRow
<1>r. \A q \in Starts : start[q] \in StartRow
  BY <1>t
<1>1. CASE UNCHANGED startVars
  BY <1>1 DEF startVars, StartsInv, StartsTypeOK, OrderInv, InsertedInv, RememberedInv, AnsweredInv,
              HomeInv, ReportedInv, OverlapInv, WasSent
<1>2. ASSUME NEW q \in Starts, NEW k \in StartKeys, AskLive(q, k) PROVE Kept
  <2>1. /\ UNCHANGED <<remembered, tested, rows, flowOn, wire, home, homeOn, reported, lost, restarts>>
        /\ start[q].at = "none" /\ \A i \in 1..(q - 1) : start[i].at # "none"
    BY <1>2 DEF AskLive, Fresh
  <2>2. PICK s \in StartRow : /\ start' = [start EXCEPT ![q] = s]
                              /\ s.at = "flow" /\ s.live
    <3> DEFINE s == [at |-> "flow", live |-> TRUE, key |-> k, source |-> Draft, run |-> 0,
                     beside |-> {}]
    <3>1. s \in StartRow
      BY DEF StartRow
    <3> QED BY <3>1, <1>2 DEF AskLive
  <2>3. /\ start' \in [Starts -> StartRow] /\ start'[q] = s
        /\ \A i \in Starts : i # q => start'[i] = start[i]
    BY <1>t, <2>2
  <2>4. OrderInv'
    BY <1>i, <2>1, <2>2, <2>3 DEF OrderInv, Starts
  <2>5. InsertedInv'
    BY <1>i, <2>1, <2>2, <2>3 DEF InsertedInv, Inserting
  <2>6. RememberedInv' /\ AnsweredInv'
    BY <2>1, <2>2, <2>3, AnswersStand
  <2>7. HomeInv'
    BY <1>i, <2>1, <2>2, <2>3 DEF HomeInv
  <2>8. OverlapInv'
    BY <1>i, <2>2, <2>3 DEF OverlapInv, WasSent
  <2> QED BY <1>t, <1>i, <2>1, <2>3, <2>4, <2>5, <2>6, <2>7, <2>8 DEF ReportedInv
<1>3. ASSUME NEW q \in Starts, NEW k \in StartKeys, NEW source \in {Draft} \cup Starts,
             Recall(q, k, source)
      PROVE  Kept
  <2>1. /\ UNCHANGED <<remembered, tested, rows, flowOn, wire, home, homeOn, reported, lost, restarts>>
        /\ start[q].at = "none" /\ \A i \in 1..(q - 1) : start[i].at # "none"
    BY <1>3 DEF Recall, Fresh
  <2>2. PICK s : s = [at |-> IF k \notin DOMAIN remembered THEN "send"
                  ELSE IF remembered[k].source = source THEN "answered" ELSE "refused",
           live |-> FALSE, key |-> k, source |-> source,
           run |-> IF k \in DOMAIN remembered /\ remembered[k].source = source
                   THEN remembered[k].run ELSE 0,
           beside |-> {i \in Starts : Underway(i) /\ start[i].key = k}]
    OBVIOUS
  <2>3. start' = [start EXCEPT ![q] = s]
    BY <1>3, <2>2 DEF Recall
  <2>4. s \in StartRow /\ ~s.live /\ s.key = k /\ s.at # "none"
        /\ s.beside = {i \in Starts : Underway(i) /\ start[i].key = k}
    BY <1>m, <2>2 DEF StartRow
  <2>5. \/ s.at = "send" /\ k \notin DOMAIN remembered
        \/ s.at = "answered" /\ k \in DOMAIN remembered /\ s.run = remembered[k].run
        \/ s.at = "refused"
    BY <2>2
  <2>6. /\ start' \in [Starts -> StartRow] /\ start'[q] = s
        /\ \A i \in Starts : i # q => start'[i] = start[i]
    BY <1>t, <2>3, <2>4
  <2>7. OrderInv'
    BY <1>i, <2>1, <2>4, <2>6 DEF OrderInv, Starts
  <2>8. InsertedInv'
    BY <1>i, <2>1, <2>4, <2>5, <2>6 DEF InsertedInv, Inserting
  <2>9. RememberedInv'
    BY <1>i, <1>m, <2>1, <2>6 DEF RememberedInv
  <2>10. AnsweredInv'
    BY <1>i, <1>m, <2>1, <2>4, <2>5, <2>6 DEF AnsweredInv, RememberedInv
  <2>11. HomeInv'
    BY <1>i, <2>1, <2>6 DEF HomeInv
  <2>12. ASSUME NEW i \in Starts, WasSent(i)', start'[i].key = k, i # q, s.at = "send"
         PROVE  i \in s.beside
    <3>1. WasSent(i) /\ start[i].key = k
      BY <2>6, <2>12 DEF WasSent
    <3>2. start[i].at # "answered"
      BY <1>i, <2>5, <2>12, <3>1 DEF AnsweredInv, WasSent
    <3> QED BY <2>4, <3>1, <3>2 DEF WasSent, Underway, Inserting
  <2>13. ~(s.at = "answered" /\ s.run = q)
    BY <1>i, <1>m, <2>1, <2>5 DEF RememberedInv
  <2>14. \A i \in Starts : i > q => start[i].at = "none"
    BY <1>i, <2>1 DEF OrderInv
  <2>15. ASSUME NEW j \in Starts, NEW i \in Starts, i < j, WasSent(i)', WasSent(j)',
                start'[i].key = start'[j].key
         PROVE  i \in start'[j].beside
    <3>1. i # j
      BY <2>15 DEF Starts
    <3>2. CASE j = q
      <4>1. s.at = "send"
        BY <2>4, <2>5, <2>6, <2>13, <2>15, <3>2 DEF WasSent, Inserting
      <4> QED BY <2>4, <2>6, <2>12, <2>15, <3>1, <3>2, <4>1
    <3>3. CASE i = q
      <4>1. start'[j].at = "none"
        BY <2>6, <2>14, <2>15, <3>1, <3>3 DEF Starts
      <4> QED BY <2>15, <4>1 DEF WasSent, Inserting
    <3>4. CASE i # q /\ j # q
      BY <1>i, <2>6, <2>15, <3>4 DEF WasSent, OverlapInv
    <3> QED BY <3>2, <3>3, <3>4
  <2>16. OverlapInv'
    BY <2>15 DEF OverlapInv
  <2> QED BY <1>t, <1>i, <2>1, <2>6, <2>7, <2>8, <2>9, <2>10, <2>11, <2>16 DEF ReportedInv
<1>4. ASSUME NEW q \in Starts, SendTest(q) PROVE Kept
  <2>1. /\ UNCHANGED <<remembered, tested, rows, flowOn, home, homeOn, reported, lost, restarts>>
        /\ start[q].at = "send" /\ ~start[q].live
    BY <1>4, <1>i DEF SendTest, InsertedInv
  <2>2. PICK at \in {"session", "refused"} :
           /\ start' = [start EXCEPT ![q] = [start[q] EXCEPT !.at = at]]
           /\ \/ at = "session" /\ wire' = Append(wire, q)
              \/ wire' = wire
    BY <1>4, <1>t DEF SendTest, MovesOn
  <2>3. PICK s : s = [start[q] EXCEPT !.at = at]
    OBVIOUS
  <2>4. /\ s \in StartRow /\ s.at = at /\ s.live = start[q].live /\ s.key = start[q].key
        /\ s.beside = start[q].beside
    BY <1>r, <2>3 DEF StartRow
  <2>5. start' = [start EXCEPT ![q] = s]
    BY <2>2, <2>3
  <2>6. start'[q] = s
    BY <1>t, <2>5
  <2>7. WasSent(q)' => WasSent(q)
    BY <2>1, <2>2, <2>4, <2>6 DEF WasSent, Inserting
  <2>8. /\ start' \in [Starts -> StartRow] /\ OrderInv' /\ OverlapInv'
        /\ \A i \in Starts : i # q => start'[i] = start[i]
    BY <2>1, <2>2, <2>4, <2>5, <2>7, RequestMoves DEF Inserting
  <2>9. InsertedInv'
    BY <1>i, <2>1, <2>2, <2>4, <2>6, <2>8 DEF InsertedInv, Inserting
  <2>10. RememberedInv' /\ AnsweredInv'
    BY <2>1, <2>2, <2>4, <2>6, <2>8, AnswersStand
  <2>11. wire' \in Seq({Off} \cup Starts) /\ ToSet(wire') \subseteq ToSet(wire) \cup {q}
         /\ (at = "refused" => wire' = wire)
    BY <1>t, <2>2, WireGets
  <2>12. HomeInv'
    <3>1. q \notin DOMAIN home /\ q \notin ToSet(wire)
      BY <1>i, <2>1 DEF HomeInv, Inserting
    <3> QED BY <1>i, <2>1, <2>2, <2>4, <2>6, <2>8, <2>11, <3>1 DEF HomeInv, Inserting
  <2> QED BY <1>t, <1>i, <2>1, <2>8, <2>9, <2>10, <2>11, <2>12 DEF ReportedInv
<1>5. ASSUME NEW q \in Starts, InsertSession(q) PROVE Kept
  <2>1. /\ UNCHANGED <<remembered, rows, flowOn, wire, home, homeOn, reported, lost, restarts>>
        /\ start[q].at = "session" /\ ~start[q].live /\ tested' = tested \cup {q}
    BY <1>5, <1>i DEF InsertSession, InsertedInv, Inserting
  <2>2. PICK s : s = [start[q] EXCEPT !.at = "row"]
    OBVIOUS
  <2>3. /\ s \in StartRow /\ s.at = "row" /\ s.live = start[q].live /\ s.key = start[q].key
        /\ s.beside = start[q].beside
    BY <1>r, <2>2 DEF StartRow
  <2>4. start' = [start EXCEPT ![q] = s]
    BY <1>t, <1>5, <2>2 DEF InsertSession, MovesOn
  <2>5. WasSent(q)
    BY <2>1 DEF WasSent, Inserting
  <2>6. /\ start' \in [Starts -> StartRow] /\ OrderInv' /\ OverlapInv' /\ start'[q] = s
        /\ \A i \in Starts : i # q => start'[i] = start[i]
    BY <2>1, <2>3, <2>4, <2>5, RequestMoves DEF Inserting
  <2>7. InsertedInv'
    BY <1>i, <2>1, <2>3, <2>6 DEF InsertedInv, Inserting
  <2>8. RememberedInv' /\ AnsweredInv'
    BY <2>1, <2>3, <2>6, AnswersStand
  <2>9. HomeInv'
    BY <1>i, <2>1, <2>3, <2>6 DEF HomeInv, Inserting
  <2> QED BY <1>t, <1>i, <2>1, <2>6, <2>7, <2>8, <2>9 DEF ReportedInv
<1>6. ASSUME NEW q \in Starts, InsertAccepted(q) PROVE Kept
  <2>1. /\ UNCHANGED <<remembered, tested, flowOn, wire, home, homeOn, reported, lost, restarts>>
        /\ start[q].at = "row" /\ ~start[q].live /\ Upsert(q, 0)
    BY <1>6, <1>i DEF InsertAccepted, InsertedInv, Inserting
  <2>2. PICK s : s = [start[q] EXCEPT !.at = "remember"]
    OBVIOUS
  <2>3. /\ s \in StartRow /\ s.at = "remember" /\ s.live = start[q].live /\ s.key = start[q].key
        /\ s.beside = start[q].beside
    BY <1>r, <2>2 DEF StartRow
  <2>4. start' = [start EXCEPT ![q] = s]
    BY <1>t, <1>6, <2>2 DEF InsertAccepted, MovesOn
  <2>5. WasSent(q)
    BY <2>1 DEF WasSent, Inserting
  <2>6. /\ start' \in [Starts -> StartRow] /\ OrderInv' /\ OverlapInv' /\ start'[q] = s
        /\ \A i \in Starts : i # q => start'[i] = start[i]
    BY <2>1, <2>3, <2>4, <2>5, RequestMoves DEF Inserting
  <2>z. PICK n \in 0..RunEnd : n = 0
    BY <1>n
  <2>7. /\ DOMAIN rows' = {q} \cup DOMAIN rows /\ \A r \in DOMAIN rows' : rows'[r] \in 0..RunEnd
        /\ ReportedInv'
    BY <2>1, <2>z, UpsertKeeps
  <2>8. InsertedInv'
    BY <1>i, <2>1, <2>3, <2>6, <2>7 DEF InsertedInv, Inserting
  <2>9. RememberedInv' /\ AnsweredInv'
    BY <2>1, <2>3, <2>6, <2>7, AnswersStand
  <2>10. HomeInv'
    BY <1>i, <2>1, <2>3, <2>6 DEF HomeInv, Inserting
  <2> QED BY <1>t, <1>i, <2>1, <2>6, <2>7, <2>8, <2>9, <2>10
<1>7. ASSUME NEW q \in Starts, PutIdempotency(q) PROVE Kept
  <2>1. /\ UNCHANGED <<tested, rows, flowOn, wire, home, homeOn, reported, lost, restarts>>
        /\ start[q].at = "remember" /\ ~start[q].live /\ q \in tested /\ q \in DOMAIN rows
    BY <1>7, <1>i DEF PutIdempotency, InsertedInv, Inserting
  <2>2. PICK s : s = [start[q] EXCEPT !.at = "answered", !.run = q]
    OBVIOUS
  <2>3. /\ s \in StartRow /\ s.at = "answered" /\ s.live = start[q].live /\ s.key = start[q].key
        /\ s.beside = start[q].beside /\ s.run = q
    <3>1. PICK k \in StartRow : k = start[q]
      BY <1>r
    <3>2. PICK a \in StartRow : a = [k EXCEPT !.at = "answered"]
      BY DEF StartRow
    <3>3. s = [a EXCEPT !.run = q]
      BY <2>2, <3>1, <3>2 DEF StartRow
    <3>4. a.at = "answered" /\ a.live = k.live /\ a.key = k.key /\ a.beside = k.beside
      BY <3>2 DEF StartRow
    <3> QED BY <3>1, <3>3, <3>4 DEF StartRow
  <2>4. start' = [start EXCEPT ![q] = s]
    BY <1>t, <1>7, <2>2 DEF PutIdempotency, Replies
  <2>5. WasSent(q)
    BY <2>1 DEF WasSent, Inserting
  <2>6. /\ start' \in [Starts -> StartRow] /\ OrderInv' /\ OverlapInv' /\ start'[q] = s
        /\ \A i \in Starts : i # q => start'[i] = start[i]
    BY <2>1, <2>3, <2>4, <2>5, RequestMoves DEF Inserting
  <2>7. PICK k \in StartKeys : k = start[q].key
    BY <1>t DEF StartRow
  <2>8. start[q].source \in {Draft} \cup Starts
    BY <1>t DEF StartRow
  <2>9. remembered' = [l \in {k} \cup DOMAIN remembered |->
            IF l \in DOMAIN remembered THEN remembered[l] ELSE [source |-> start[q].source, run |-> q]]
    BY <1>7, <2>7 DEF PutIdempotency
  <2>10. /\ DOMAIN remembered' = {k} \cup DOMAIN remembered
         /\ \A l \in DOMAIN remembered : remembered'[l] = remembered[l]
         /\ k \notin DOMAIN remembered => remembered'[k] = [source |-> start[q].source, run |-> q]
    BY <2>9
  <2>11. \A l \in DOMAIN remembered' : remembered'[l] \in KeyRow
    BY <1>t, <2>8, <2>10 DEF KeyRow
  <2>12. InsertedInv'
    BY <1>i, <2>1, <2>3, <2>6 DEF InsertedInv, Inserting
  <2>13. k \notin DOMAIN remembered => remembered'[k].run = q
    BY <2>10
  <2>14. RememberedInv'
    BY <1>i, <1>m, <2>1, <2>3, <2>6, <2>7, <2>10, <2>13 DEF RememberedInv
  <2>15. AnsweredInv'
    BY <1>i, <2>1, <2>3, <2>6, <2>7, <2>10 DEF AnsweredInv
  <2>16. HomeInv'
    BY <1>i, <2>1, <2>3, <2>6 DEF HomeInv, Inserting
  <2> QED BY <1>t, <1>i, <2>1, <2>6, <2>10, <2>11, <2>12, <2>14, <2>15, <2>16 DEF ReportedInv
<1>8. ASSUME NEW q \in Starts, SendLive(q) PROVE Kept
  <2>1. /\ UNCHANGED <<remembered, tested, rows, flowOn, home, homeOn, reported, lost, restarts>>
        /\ start[q].at = "flow" /\ start[q].live
    BY <1>8, <1>i DEF SendLive, InsertedInv
  <2>2. PICK at \in {"answered", "refused"} :
           /\ start' = [start EXCEPT ![q] = [start[q] EXCEPT !.at = at]]
           /\ wire' = Append(wire, q) \/ wire' = wire
    BY <1>8, <1>t DEF SendLive, MovesOn
  <2>3. PICK s : s = [start[q] EXCEPT !.at = at]
    OBVIOUS
  <2>4. /\ s \in StartRow /\ s.at = at /\ s.live = start[q].live /\ s.key = start[q].key
        /\ s.beside = start[q].beside
    BY <1>r, <2>3 DEF StartRow
  <2>5. start' = [start EXCEPT ![q] = s]
    BY <2>2, <2>3
  <2>6. start'[q] = s
    BY <1>t, <2>5
  <2>7. WasSent(q)' => WasSent(q)
    BY <2>1, <2>2, <2>4, <2>6 DEF WasSent, Inserting
  <2>8. /\ start' \in [Starts -> StartRow] /\ OrderInv' /\ OverlapInv'
        /\ \A i \in Starts : i # q => start'[i] = start[i]
    BY <2>1, <2>2, <2>4, <2>5, <2>7, RequestMoves DEF Inserting
  <2>9. InsertedInv'
    BY <1>i, <2>1, <2>2, <2>4, <2>6, <2>8 DEF InsertedInv, Inserting
  <2>10. RememberedInv' /\ AnsweredInv'
    BY <2>1, <2>2, <2>4, <2>6, <2>8, AnswersStand
  <2>11. wire' \in Seq({Off} \cup Starts) /\ ToSet(wire') \subseteq ToSet(wire) \cup {q}
    BY <1>t, <2>2, WireGets
  <2>12. HomeInv'
    BY <1>i, <2>1, <2>2, <2>4, <2>6, <2>8, <2>11 DEF HomeInv, Inserting
  <2> QED BY <1>t, <1>i, <2>1, <2>8, <2>9, <2>10, <2>11, <2>12 DEF ReportedInv
<1>9. ASSUME Deactivated PROVE Kept
  <2>1. /\ UNCHANGED <<start, remembered, tested, rows, home, homeOn, reported, lost, restarts>>
        /\ flowOn' = FALSE /\ wire' = Append(wire, Off)
    BY <1>9 DEF Deactivated
  <2>2. wire' \in Seq({Off} \cup Starts) /\ ToSet(wire') = ToSet(wire) \cup {Off}
    BY <1>t, <2>1, WireGets
  <2>3. \A q \in Starts : q # Off
    BY DEF Starts, Off
  <2>4. HomeInv'
    BY <1>i, <2>1, <2>2, <2>3 DEF HomeInv
  <2> QED BY <1>t, <1>i, <2>1, <2>2, <2>4 DEF OrderInv, InsertedInv, RememberedInv, AnsweredInv,
             ReportedInv, OverlapInv, WasSent
<1>10. ASSUME StartFromCloud PROVE Kept
  <2>1. /\ UNCHANGED <<start, remembered, tested, rows, flowOn, reported, lost, restarts>>
        /\ wire # << >> /\ wire' = Tail(wire)
    BY <1>10 DEF StartFromCloud
  <2>2. Head(wire) \in {Off} \cup Starts /\ Head(wire) \in ToSet(wire)
        /\ Tail(wire) \in Seq({Off} \cup Starts)
    BY <1>t, <2>1 DEF ToSet
  <2>3. ToSet(Tail(wire)) \subseteq ToSet(wire)
    <3>1. /\ Len(wire) \in Nat /\ Len(Tail(wire)) = Len(wire) - 1 /\ DOMAIN wire = 1..Len(wire)
          /\ DOMAIN Tail(wire) = 1..(Len(wire) - 1)
          /\ \A i \in 1..(Len(wire) - 1) : Tail(wire)[i] = wire[i + 1] /\ i + 1 \in 1..Len(wire)
      BY <1>t, <2>1
    <3> QED BY <3>1 DEF ToSet
  <2>4. /\ DOMAIN home' \subseteq DOMAIN home \cup (ToSet(wire) \cap Starts)
        /\ \A r \in DOMAIN home' : home'[r] \in 1..RunEnd
        /\ homeOn' \in BOOLEAN
    <3>1. CASE Head(wire) = Off
      BY <1>t, <1>10, <3>1 DEF StartFromCloud
    <3>2. CASE Head(wire) # Off
      <4>1. PICK z \in Starts : z = Head(wire)
        BY <2>2, <3>2
      <4>2. /\ home' = [r \in {z} \cup DOMAIN home |-> IF r = z THEN 1 ELSE home[r]]
            /\ homeOn' = homeOn
        BY <1>10, <3>2, <4>1 DEF StartFromCloud
      <4> QED BY <1>t, <1>n, <2>2, <4>1, <4>2
    <3> QED BY <3>1, <3>2
  <2>5. HomeInv'
    BY <1>i, <2>1, <2>3, <2>4 DEF HomeInv
  <2> QED BY <1>t, <1>i, <2>1, <2>2, <2>4, <2>5 DEF OrderInv, InsertedInv, RememberedInv, AnsweredInv,
             ReportedInv, OverlapInv, WasSent
<1>11. ASSUME LosesWire PROVE Kept
  <2>1. /\ UNCHANGED <<start, remembered, tested, rows, flowOn, home, homeOn, reported, restarts>>
        /\ lost' = lost + 1 /\ lost + restarts < MaxLost
    BY <1>11 DEF LosesWire
  <2>2. PICK n \in 0..(Len(wire) - 1) : wire' = SubSeq(wire, 1, n)
    BY <1>11 DEF LosesWire
  <2>3. wire' \in Seq({Off} \cup Starts) /\ ToSet(wire') \subseteq ToSet(wire)
    <3>1. n \in Nat /\ n <= Len(wire) /\ Len(wire) \in Nat
      BY <1>t, <2>2
    <3>2. /\ wire' \in Seq({Off} \cup Starts) /\ Len(wire') = n
          /\ \A i \in 1..n : wire'[i] = wire[i]
      BY <1>t, <2>2, <3>1
    <3>3. \A i \in 1..n : i \in 1..Len(wire)
      BY <3>1
    <3> QED BY <1>t, <3>1, <3>2, <3>3 DEF ToSet
  <2>4. HomeInv'
    BY <1>i, <2>1, <2>3 DEF HomeInv
  <2>5. lost' \in 0..MaxLost /\ restarts' \in 0..MaxLost /\ lost' + restarts' <= MaxLost
    BY <1>t, <1>n, <2>1
  <2> QED BY <1>t, <1>i, <2>1, <2>3, <2>4, <2>5 DEF OrderInv, InsertedInv, RememberedInv, AnsweredInv,
             ReportedInv, OverlapInv, WasSent
<1>12. ASSUME NEW r \in Starts, GoesOn(r) PROVE Kept
  <2>1. /\ UNCHANGED <<start, remembered, tested, rows, flowOn, wire, homeOn, reported, lost, restarts>>
        /\ r \in DOMAIN home /\ home[r] < RunEnd /\ home' = [home EXCEPT ![r] = home[r] + 1]
    BY <1>12 DEF GoesOn
  <2>2. DOMAIN home' = DOMAIN home /\ \A i \in DOMAIN home : home'[i] \in 1..RunEnd
    BY <1>t, <1>n, <2>1
  <2>3. HomeInv'
    BY <1>i, <2>1, <2>2 DEF HomeInv
  <2> QED BY <1>t, <1>i, <2>1, <2>2, <2>3 DEF OrderInv, InsertedInv, RememberedInv, AnsweredInv,
             ReportedInv, OverlapInv, WasSent
<1>13. ASSUME NEW r \in Starts, Arrives(r) PROVE Kept
  <2>1. /\ UNCHANGED <<start, remembered, tested, flowOn, wire, home, homeOn, lost, restarts>>
        /\ r \in DOMAIN home /\ reported[r] < home[r]
        /\ reported' = [reported EXCEPT ![r] = reported[r] + 1]
        /\ Upsert(r, reported[r] + 1)
    BY <1>13 DEF Arrives
  <2>2. PICK n \in 0..RunEnd : n = reported[r] + 1
    BY <1>t, <1>n, <2>1
  <2>3. /\ DOMAIN rows' = {r} \cup DOMAIN rows /\ \A i \in DOMAIN rows' : rows'[i] \in 0..RunEnd
        /\ reported' \in [Starts -> 0..RunEnd] /\ ReportedInv'
    BY <2>1, <2>2, UpsertKeeps
  <2>4. RememberedInv' /\ AnsweredInv'
    BY <2>1, <2>3, AnswersStand
  <2> QED BY <1>t, <1>i, <2>1, <2>3, <2>4 DEF OrderInv, InsertedInv, HomeInv, OverlapInv, WasSent
<1>14. ASSUME ApiRestarts PROVE Kept
  <2>1. /\ UNCHANGED <<remembered, tested, rows, flowOn, wire, home, homeOn, reported, lost>>
        /\ restarts' = restarts + 1 /\ lost + restarts < MaxLost
        /\ start' = [q \in Starts |-> IF Underway(q) THEN [start[q] EXCEPT !.at = "cut"] ELSE start[q]]
    BY <1>14 DEF ApiRestarts
  <2>2. ASSUME NEW q \in Starts
        PROVE  /\ start'[q] \in StartRow
               /\ start'[q].live = start[q].live /\ start'[q].key = start[q].key
               /\ start'[q].beside = start[q].beside
               /\ ~Underway(q) => start'[q] = start[q]
               /\ Underway(q) => start'[q].at = "cut"
    BY <1>r, <2>1 DEF StartRow
  <2>3. start' \in [Starts -> StartRow]
    BY <2>1, <2>2
  <2>4. OrderInv'
    BY <1>i, <2>2 DEF OrderInv, Underway
  <2>5. InsertedInv'
    BY <1>i, <2>1, <2>2 DEF InsertedInv, Underway, Inserting
  <2>6. RememberedInv' /\ AnsweredInv'
    BY <2>1, <2>2, AnswersStand DEF Underway
  <2>7. HomeInv'
    BY <1>i, <2>1, <2>2 DEF HomeInv, Underway, Inserting
  <2>8. \A q \in Starts : WasSent(q)' => WasSent(q)
    BY <2>2 DEF WasSent, Inserting
  <2>9. OverlapInv'
    BY <1>i, <2>2, <2>8 DEF OverlapInv
  <2>10. lost' \in 0..MaxLost /\ restarts' \in 0..MaxLost /\ lost' + restarts' <= MaxLost
    BY <1>t, <1>n, <2>1
  <2> QED BY <1>t, <1>i, <2>1, <2>3, <2>4, <2>5, <2>6, <2>7, <2>9, <2>10 DEF ReportedInv
<1>15. Kept => StartsInv'
  BY StartsTypes DEF StartsInv, StartsTypeOK, StartRow, KeyRow
<1> HIDE DEF Kept
<1> QED
  BY <1>1, <1>2, <1>3, <1>4, <1>5, <1>6, <1>7, <1>8, <1>9, <1>10, <1>11, <1>12, <1>13, <1>14,
     <1>15 DEF StartsNext

LEMMA StartsSound == ASSUME StartsInv PROVE SessionsHold /\ StartsTypeOK
<1>1. AnsweredIsKnown
  BY DEF StartsInv, AnsweredInv, AnsweredIsKnown
<1>2. RowsAreCurrent
  BY StartsTypes DEF StartsInv, ReportedInv, RowsAreCurrent
<1>3. ASSUME NEW q \in Starts, start[q].at = "answered", ~start[q].live,
             NEW i \in Starts, i # start[q].run, i \in DOMAIN home, ~start[i].live,
             start[i].key = start[q].key, start[i].at # "cut"
      PROVE  \E j \in Starts : i \in start[j].beside \/ j \in start[i].beside
  <2>1. PICK r \in Starts : r = start[q].run /\ WasSent(r) /\ start[r].key = start[i].key
    BY <1>3 DEF StartsInv, AnsweredInv, WasSent
  <2>2. WasSent(i)
    BY <1>3 DEF StartsInv, HomeInv, WasSent
  <2>3. i < r \/ r < i
    BY <1>3, <2>1 DEF Starts
  <2> QED BY <2>1, <2>2, <2>3 DEF StartsInv, OverlapInv
<1>4. StraysHaveCause
  BY <1>3 DEF StraysHaveCause
<1> QED BY <1>1, <1>2, <1>4 DEF SessionsHold, StartsInv

-----------------------------------------------------------------------------
(***************************************************************************)
(* Editing.  A page works with versions it was told of.  A page that is    *)
(* alone (no other one saves, each of its clicks waited for the one before *)
(* and no chain was cut off) has one chain under way at most, and knows    *)
(* the versions of the server but while that chain has yet to read them.   *)
(***************************************************************************)
Saving(i) == job[i].kind \in {"save", "deploy"}

SavedInv ==
    /\ Len(saved) # 0
    /\ \A v \in 2..Len(saved) : saved[v].by \in DOMAIN job

ChainInv ==
    \A j \in DOMAIN job :
        /\ job[j].at \in {"draft", "editor", "revise", "insert"} => Saving(j)
        /\ job[j].wrote <= Len(saved)
        /\ job[j].at = "insert" => job[j].ref >= job[j].wrote

FreshInv ==
    \A r \in DOMAIN revisions :
        /\ revisions[r].by \in DOMAIN job
        /\ job[revisions[r].by].at \in {"deploy", "wait", "over", "lost"}
        /\ revisions[r].draft >= job[revisions[r].by].wrote

ToldInv ==
    /\ \A p \in Pages : tab[p].detail.draft \in told[p] /\ 1 \in told[p]
    /\ \A j \in DOMAIN job : IF job[j].at = "rest" THEN job[j].detail.draft \in 1..Len(saved)
                             ELSE job[j].detail.draft \in told[job[j].page]

PageAlone(p) ==
    losses = 0 /\ \A i \in DOMAIN job : IF job[i].page = p THEN job[i].beside = {} ELSE ~Saving(i)

Knows(d) == d.draft = Len(saved) /\ d.editor = editorVersion

OneChain(p) ==
    \A i \in DOMAIN job, j \in DOMAIN job :
        job[i].page = p /\ job[j].page = p /\ Running(i) /\ Running(j) => i = j

ChainKnows(p) ==
    \A j \in DOMAIN job : job[j].page = p =>
        /\ job[j].at # "conflict"
        /\ job[j].at \in {"rename", "draft"} => Knows(job[j].detail)
        /\ job[j].at = "editor" => job[j].detail.editor = editorVersion
        /\ job[j].at = "rest" => job[j].detail.draft = Len(saved)

PageKnows(p) ==
    (\A j \in DOMAIN job : job[j].page = p => job[j].at \notin {"editor", "flow", "rest"})
        => Knows(tab[p].detail)

AloneInv == \A p \in Pages : PageAlone(p) => OneChain(p) /\ ChainKnows(p) /\ PageKnows(p)

EditingInv ==
    /\ EditingTypeOK /\ SavedInv /\ ChainInv /\ FreshInv /\ ToldInv /\ AloneInv /\ LossIsInformed

SaveRow == [text : SUBSET Edits, by : Jobs \cup {0}]
RevRow  == [draft : Nat, by : Jobs]
TabRow  == [text : SUBSET Edits, detail : Details, answered : Nat]
JobRow  == [at : {"rename", "draft", "editor", "flow", "rest", "revise", "insert",
                  "deploy", "wait", "over", "conflict", "lost"},
            kind : Kinds, page : Pages, text : SUBSET Edits, detail : Details,
            beside : SUBSET Jobs, wrote : Nat, ref : Nat]

LEMMA EditingTypes ==
  EditingTypeOK <=>
    /\ saved \in Seq(SaveRow) /\ editorVersion \in Nat
    /\ revisions \in Seq(RevRow) /\ deployments \in Seq(Nat)
    /\ tab \in [Pages -> TabRow]
    /\ job \in Seq(JobRow) /\ Len(job) <= MaxJobs
    /\ losses \in 0..MaxLosses
    /\ told \in [Pages -> SUBSET (1..Len(saved))]
BY DEF EditingTypeOK, SaveRow, RevRow, TabRow, JobRow

\* The versions of a new flow, and those of an answer.
LEMMA NewDetailType == NewDetail \in Details /\ NewDetail.draft = 1
BY DEF NewDetail, Details

\* A chain goes on: the others stand, and a page that is alone was.
LEMMA ChainMoves ==
  ASSUME EditingInv, NEW j \in DOMAIN job, NEW s \in JobRow, job' = [job EXCEPT ![j] = s],
         s.page = job[j].page, s.kind = job[j].kind, s.beside = job[j].beside,
         Running(j), losses' = 0 => losses = 0
  PROVE  /\ job' \in Seq(JobRow) /\ Len(job') = Len(job) /\ DOMAIN job' = DOMAIN job
         /\ job'[j] = s /\ \A i \in DOMAIN job : i # j => job'[i] = job[i]
         /\ \A i \in DOMAIN job : /\ job'[i].page = job[i].page
                                  /\ Saving(i)' <=> Saving(i)
         /\ \A p \in Pages : PageAlone(p)' =>
               /\ PageAlone(p) /\ OneChain(p)' /\ ChainKnows(p) /\ PageKnows(p)
               /\ p = job[j].page =>
                     \A i \in DOMAIN job : i # j /\ job[i].page = p => ~Running(i)
<1>1. job \in Seq(JobRow)
  BY EditingTypes DEF EditingInv
<1>2. /\ job' \in Seq(JobRow) /\ Len(job') = Len(job) /\ DOMAIN job' = DOMAIN job
      /\ job'[j] = s /\ \A i \in DOMAIN job : i # j => job'[i] = job[i]
  BY <1>1
<1>3. \A i \in DOMAIN job : /\ job'[i].page = job[i].page /\ job'[i].beside = job[i].beside
                            /\ job'[i].kind = job[i].kind
  BY <1>2
<1>4. \A i \in DOMAIN job : Saving(i)' <=> Saving(i)
  BY <1>3 DEF Saving
<1>5. ASSUME NEW p \in Pages, PageAlone(p)'
      PROVE  /\ PageAlone(p) /\ OneChain(p)' /\ ChainKnows(p) /\ PageKnows(p)
             /\ p = job[j].page =>
                   \A i \in DOMAIN job : i # j /\ job[i].page = p => ~Running(i)
  <2>1. PageAlone(p)
    BY <1>2, <1>3, <1>4, <1>5 DEF PageAlone
  <2>2. OneChain(p) /\ ChainKnows(p) /\ PageKnows(p)
    BY <2>1 DEF EditingInv, AloneInv
  <2>3. \A i \in DOMAIN job : Running(i)' => Running(i)
    BY <1>2 DEF Running
  <2>4. OneChain(p)'
    BY <1>2, <1>3, <2>2, <2>3 DEF OneChain
  <2> QED BY <2>1, <2>2, <2>4 DEF OneChain
<1> QED BY <1>2, <1>3, <1>4, <1>5

LEMMA EditingStarts == EditingInit => EditingInv
<1> SUFFICES ASSUME EditingInit PROVE EditingInv
  OBVIOUS
<1>1. saved = <<[text |-> {}, by |-> 0]>> /\ Len(saved) = 1 /\ saved \in Seq(SaveRow)
  <2>1. [text |-> {}, by |-> 0] \in SaveRow
    BY DEF SaveRow
  <2> QED BY <2>1, SingletonType DEF EditingInit
<1>2. tab \in [Pages -> TabRow] /\ \A p \in Pages : tab[p].detail = NewDetail
  BY NewDetailType DEF EditingInit, TabRow
<1>3. DOMAIN job = {} /\ DOMAIN revisions = {} /\ job \in Seq(JobRow) /\ Len(job) = 0
      /\ revisions \in Seq(RevRow) /\ deployments \in Seq(Nat)
  BY DEF EditingInit
<1>z. told \in [Pages -> SUBSET (1..Len(saved))] /\ losses \in 0..MaxLosses /\ editorVersion \in Nat
      /\ Len(job) <= MaxJobs
  <2>1. {1} \in SUBSET (1..Len(saved))
    BY <1>1
  <2> QED BY <1>3, <2>1, EditingAssumption DEF EditingInit
<1>4. EditingTypeOK
  BY <1>1, <1>2, <1>3, <1>z, EditingTypes
<1>5. SavedInv /\ ChainInv /\ FreshInv /\ ToldInv
  BY <1>1, <1>2, <1>3, NewDetailType DEF SavedInv, ChainInv, FreshInv, ToldInv, EditingInit
<1>6. AloneInv
  BY <1>1, <1>2, <1>3 DEF AloneInv, OneChain, ChainKnows, PageKnows, Knows, NewDetail, EditingInit
<1>7. LossIsInformed
  BY <1>1 DEF LossIsInformed
<1> QED BY <1>4, <1>5, <1>6, <1>7 DEF EditingInv

\* The revision a rollback takes.
LEMMA PreviousType ==
  ASSUME NEW p \in Pages, tab \in [Pages -> TabRow]
  PROVE  PreviousRevision(p) \in Nat
<1> DEFINE n == tab[p].detail.revisions
           d == tab[p].detail.deployed
           others == 1..n \ {d}
<1>1. n \in Nat /\ d \in Nat
  BY DEF TabRow, Details
<1>2. CASE others = {}
  BY <1>2 DEF PreviousRevision
<1>3. CASE others # {}
  <2>1. \E r \in others : \A q \in others : q <= r
    <3>1. CASE n # d
      <4>1. n \in others
        BY <1>1, <1>3, <3>1
      <4> QED BY <1>1, <4>1
    <3>2. CASE n = d
      <4>1. n - 1 \in others /\ \A q \in others : q <= n - 1
        BY <1>1, <1>3, <3>2
      <4> QED BY <4>1
    <3> QED BY <3>1, <3>2
  <2>2. (CHOOSE r \in others : \A q \in others : q <= r) \in others
    BY <2>1
  <2>3. PreviousRevision(p) \in others
    BY <1>3, <2>2 DEF PreviousRevision
  <2> QED BY <1>1, <2>3
<1> QED BY <1>2, <1>3

\* A chain ends.
LEMMA ChainEnds ==
  ASSUME EditingInv, NEW j \in DOMAIN job, NEW at \in {"over", "conflict", "lost"}, Ends(j, at)
  PROVE  \E s \in JobRow :
            /\ job' = [job EXCEPT ![j] = s]
            /\ s.page = job[j].page /\ s.kind = job[j].kind /\ s.beside = job[j].beside
            /\ s.wrote = job[j].wrote /\ s.ref = job[j].ref
            /\ s.at = at /\ s.detail = NewDetail
<1>1. job[j] \in JobRow
  BY EditingTypes DEF EditingInv
<1>0. PICK a : a = [job[j] EXCEPT !.at = at]
  OBVIOUS
<1>2. /\ a \in JobRow /\ a = [job[j] EXCEPT !.at = at]
      /\ a.page = job[j].page /\ a.kind = job[j].kind /\ a.beside = job[j].beside
      /\ a.wrote = job[j].wrote /\ a.ref = job[j].ref /\ a.at = at
  BY <1>0, <1>1 DEF JobRow
<1>3. PICK s : s = [a EXCEPT !.text = {}, !.detail = NewDetail]
  OBVIOUS
<1>4. /\ s \in JobRow
      /\ s.page = a.page /\ s.kind = a.kind /\ s.beside = a.beside
      /\ s.wrote = a.wrote /\ s.ref = a.ref /\ s.at = a.at /\ s.detail = NewDetail
  <2>1. PICK b : b = [a EXCEPT !.text = {}]
    OBVIOUS
  <2>2. /\ b \in JobRow
        /\ b.page = a.page /\ b.kind = a.kind /\ b.beside = a.beside
        /\ b.wrote = a.wrote /\ b.ref = a.ref /\ b.at = a.at
    BY <1>2, <2>1 DEF JobRow
  <2>3. s = [b EXCEPT !.detail = NewDetail]
    BY <1>3, <2>1
  <2> QED BY <2>2, <2>3, NewDetailType DEF JobRow
<1>5. s = [job[j] EXCEPT !.at = at, !.text = {}, !.detail = NewDetail]
  BY <1>2, <1>3
<1>6. job' = [job EXCEPT ![j] = s]
  BY <1>5 DEF Ends
<1> QED BY <1>2, <1>4, <1>6

\* What is typed into a page changes nothing of this.
LEMMA TextOnly ==
  ASSUME EditingInv,
         UNCHANGED <<saved, editorVersion, revisions, deployments, job, losses, told>>,
         \A q \in Pages : tab'[q].detail = tab[q].detail
  PROVE  SavedInv' /\ ChainInv' /\ FreshInv' /\ ToldInv' /\ AloneInv' /\ LossIsInformed'
<1>1. SavedInv' /\ ChainInv' /\ FreshInv'
  BY DEF EditingInv, SavedInv, ChainInv, FreshInv, Saving
<1>2. LossIsInformed'
  BY DEF EditingInv, LossIsInformed
<1>3. ToldInv'
  BY DEF EditingInv, ToldInv
<1>4. ASSUME NEW p \in Pages, PageAlone(p)'
      PROVE  OneChain(p)' /\ ChainKnows(p)' /\ PageKnows(p)'
  <2>1. PageAlone(p)
    BY <1>4 DEF PageAlone, Saving
  <2>2. OneChain(p) /\ ChainKnows(p) /\ PageKnows(p)
    BY <2>1 DEF EditingInv, AloneInv
  <2> QED BY <2>2 DEF OneChain, ChainKnows, PageKnows, Knows, Running
<1>5. AloneInv'
  BY <1>4 DEF AloneInv
<1> QED BY <1>1, <1>2, <1>3, <1>5

LEMMA LossStays ==
  ASSUME EditingInv, saved' = saved, \A q \in Pages : told[q] \subseteq told'[q],
         \A i \in DOMAIN job : job'[i].page = job[i].page
  PROVE  LossIsInformed'
<1> SUFFICES ASSUME NEW v \in 2..Len(saved), NEW e \in saved[v - 1].text \ saved[v].text
             PROVE  \E u \in told'[job'[saved[v].by].page] : e \in saved[u].text
  BY DEF LossIsInformed
<1>1. PICK i \in DOMAIN job : i = saved[v].by
  BY DEF EditingInv, SavedInv
<1>2. job[i].page \in Pages /\ job'[i].page = job[i].page
  <2>1. job[i] \in JobRow
    BY EditingTypes DEF EditingInv
  <2> QED BY <2>1 DEF JobRow
<1>3. \E u \in told[job[i].page] : e \in saved[u].text
  BY <1>1 DEF EditingInv, LossIsInformed
<1> QED BY <1>1, <1>2, <1>3

\* A chain goes on that writes nothing to the server.
LEMMA ChainOnly ==
  ASSUME EditingInv, NEW j \in DOMAIN job, NEW s \in JobRow, job' = [job EXCEPT ![j] = s],
         s.page = job[j].page, s.kind = job[j].kind, s.beside = job[j].beside,
         s.wrote = job[j].wrote, Running(j), losses' = 0 => losses = 0,
         UNCHANGED <<saved, editorVersion, revisions, told>>,
         \A q \in Pages : tab'[q].detail = tab[q].detail,
         s.at \in {"rest", "insert", "over", "lost", "conflict"},
         s.at = "rest" => job[j].at = "flow" /\ s.detail.draft = Len(saved),
         s.at = "insert" => job[j].at = "revise" /\ s.ref >= s.wrote,
         s.at = "conflict" => job[j].at \in {"draft", "editor"} /\ ~PageAlone(job[j].page),
         s.at \in {"over", "lost"} => job[j].at \notin {"editor", "flow", "rest"} \/ losses' # 0,
         s.at # "rest" => s.detail.draft \in told[job[j].page]
  PROVE  /\ SavedInv' /\ ChainInv' /\ FreshInv' /\ ToldInv' /\ AloneInv' /\ LossIsInformed'
         /\ job' \in Seq(JobRow) /\ Len(job') = Len(job)
<1>1. /\ job' \in Seq(JobRow) /\ Len(job') = Len(job) /\ DOMAIN job' = DOMAIN job
      /\ job'[j] = s /\ \A i \in DOMAIN job : i # j => job'[i] = job[i]
      /\ \A i \in DOMAIN job : /\ job'[i].page = job[i].page
                               /\ Saving(i)' <=> Saving(i)
      /\ \A q \in Pages : PageAlone(q)' =>
            /\ PageAlone(q) /\ OneChain(q)' /\ ChainKnows(q) /\ PageKnows(q)
            /\ q = job[j].page =>
                  \A i \in DOMAIN job : i # j /\ job[i].page = q => ~Running(i)
  BY ChainMoves
<1>2. SavedInv'
  BY <1>1 DEF EditingInv, SavedInv
<1>3. ChainInv'
  BY <1>1 DEF EditingInv, ChainInv
<1>4. FreshInv'
  BY <1>1 DEF EditingInv, FreshInv
<1>5. ToldInv'
  <2>1. Len(saved) \in 1..Len(saved)
    BY EditingTypes DEF EditingInv, SavedInv
  <2> QED BY <1>1, <2>1 DEF EditingInv, ToldInv
<1>6. LossIsInformed'
  BY <1>1, LossStays
<1>7. ASSUME NEW q \in Pages, PageAlone(q)'
      PROVE  OneChain(q)' /\ ChainKnows(q)' /\ PageKnows(q)'
  <2>1. PageAlone(q) /\ OneChain(q)' /\ ChainKnows(q) /\ PageKnows(q)
    BY <1>1, <1>7
  <2>2. ChainKnows(q)'
    BY <1>1, <2>1 DEF ChainKnows, Knows
  <2>3. losses' = 0
    BY <1>7 DEF PageAlone
  <2>4. PageKnows(q)'
    BY <1>1, <2>1, <2>3 DEF PageKnows, Knows
  <2> QED BY <2>1, <2>2, <2>4
<1>8. AloneInv'
  BY <1>7 DEF AloneInv
<1> QED BY <1>1, <1>2, <1>3, <1>4, <1>5, <1>6, <1>8

LEMMA EditingKept ==
  ASSUME EditingInv, [EditingNext]_editingVars
  PROVE  EditingInv'
<1> DEFINE Kept ==
        /\ saved' \in Seq(SaveRow) /\ editorVersion' \in Nat
        /\ revisions' \in Seq(RevRow) /\ deployments' \in Seq(Nat)
        /\ tab' \in [Pages -> TabRow]
        /\ job' \in Seq(JobRow) /\ Len(job') <= MaxJobs
        /\ losses' \in 0..MaxLosses
        /\ told' \in [Pages -> SUBSET (1..Len(saved'))]
        /\ SavedInv' /\ ChainInv' /\ FreshInv' /\ ToldInv' /\ AloneInv' /\ LossIsInformed'
<1>t. /\ saved \in Seq(SaveRow) /\ editorVersion \in Nat
      /\ revisions \in Seq(RevRow) /\ deployments \in Seq(Nat)
      /\ tab \in [Pages -> TabRow]
      /\ job \in Seq(JobRow) /\ Len(job) <= MaxJobs
      /\ losses \in 0..MaxLosses
      /\ told \in [Pages -> SUBSET (1..Len(saved))]
  BY EditingTypes DEF EditingInv
<1>i. SavedInv /\ ChainInv /\ FreshInv /\ ToldInv /\ AloneInv /\ LossIsInformed
  BY DEF EditingInv
<1>n. MaxJobs \in Nat /\ MaxLosses \in Nat
  BY EditingAssumption
<1>r. /\ Len(saved) \in Nat /\ DOMAIN saved = 1..Len(saved) /\ 1 \in 1..Len(saved)
      /\ Len(job) \in Nat /\ DOMAIN job = 1..Len(job)
      /\ \A j \in DOMAIN job : job[j] \in JobRow
      /\ \A p \in Pages : tab[p] \in TabRow
      /\ \A v \in DOMAIN saved : saved[v] \in SaveRow
  BY <1>t, <1>i DEF SavedInv
<1>p. \A j \in DOMAIN job : job[j].page \in Pages
  BY <1>r DEF JobRow
<1>1. CASE UNCHANGED editingVars
  <2>1. UNCHANGED <<saved, editorVersion, revisions, deployments, tab, job, losses, told>>
    BY <1>1 DEF editingVars, editingServer
  <2>2. Kept
    BY <1>t, <2>1, TextOnly
  <2> QED BY <2>2, EditingTypes DEF EditingInv, EditingTypeOK, SaveRow, RevRow, TabRow, JobRow
<1>2. ASSUME NEW p \in Pages, NEW e \in Edits, Edit(p, e) PROVE Kept
  <2>1. /\ UNCHANGED <<saved, editorVersion, revisions, deployments, job, losses, told>>
        /\ tab' = [tab EXCEPT ![p].text = tab[p].text \cup {e}]
    BY <1>2 DEF Edit, editingServer
  <2>2. PICK r : r = [tab[p] EXCEPT !.text = tab[p].text \cup {e}]
    OBVIOUS
  <2>3. r \in TabRow /\ r.detail = tab[p].detail
    BY <1>r, <2>2 DEF TabRow
  <2>4. tab' = [tab EXCEPT ![p] = r]
    BY <1>t, <2>1, <2>2
  <2>5. tab' \in [Pages -> TabRow] /\ \A q \in Pages : tab'[q].detail = tab[q].detail
    BY <1>t, <2>3, <2>4
  <2> QED BY <1>t, <2>1, <2>5, TextOnly
<1>3. ASSUME NEW p \in Pages, NEW kind \in Kinds, Click(p, kind) PROVE Kept
  <2>1. UNCHANGED <<saved, editorVersion, revisions, deployments, tab, losses, told>>
        /\ Len(job) < MaxJobs
    BY <1>3 DEF Click, editingServer
  <2>2. PICK s : s = [at |-> First(kind), kind |-> kind, page |-> p, text |-> tab[p].text,
           detail |-> tab[p].detail, wrote |-> 0,
           beside |-> {i \in DOMAIN job : Running(i) /\ job[i].page = p},
           ref |-> IF kind = "rollback" THEN PreviousRevision(p) ELSE 0]
    OBVIOUS
  <2>3. job' = Append(job, s)
    BY <1>3, <2>2 DEF Click
  <2>4. /\ First(kind) \in {"flow", "deploy", "rename", "draft"}
        /\ First(kind) = "draft" => kind \in {"save", "deploy"}
    BY DEF First, Kinds
  <2>5. s \in JobRow
    <3>1. {i \in DOMAIN job : Running(i) /\ job[i].page = p} \in SUBSET Jobs
      BY <1>t, <1>n, <1>r DEF Jobs
    <3>2. tab[p].text \in SUBSET Edits /\ tab[p].detail \in Details
      BY <1>r DEF TabRow
    <3>3. (IF kind = "rollback" THEN PreviousRevision(p) ELSE 0) \in Nat
      BY <1>t, PreviousType
    <3> QED BY <2>2, <2>4, <3>1, <3>2, <3>3 DEF JobRow
  <2>6. /\ s.page = p /\ s.at = First(kind) /\ s.kind = kind /\ s.wrote = 0
        /\ s.detail = tab[p].detail
        /\ s.beside = {i \in DOMAIN job : Running(i) /\ job[i].page = p}
    BY <2>2
  <2>7. PICK m \in Nat : m = Len(job) + 1
    BY <1>r
  <2>8. /\ job' \in Seq(JobRow) /\ Len(job') = m /\ DOMAIN job' = DOMAIN job \cup {m}
        /\ m \notin DOMAIN job /\ job'[m] = s /\ \A i \in DOMAIN job : job'[i] = job[i]
    BY <1>t, <1>r, <2>3, <2>5, <2>7
  <2>9. SavedInv' /\ FreshInv'
    BY <1>i, <2>1, <2>8 DEF SavedInv, FreshInv
  <2>10. ChainInv'
    <3>1. ASSUME NEW i \in DOMAIN job'
          PROVE  /\ job'[i].at \in {"draft", "editor", "revise", "insert"} => Saving(i)'
                 /\ job'[i].wrote <= Len(saved)
                 /\ job'[i].at = "insert" => job'[i].ref >= job'[i].wrote
      <4>1. CASE i = m
        BY <1>r, <2>4, <2>6, <2>8, <4>1 DEF Saving
      <4>2. CASE i # m
        BY <1>i, <2>8, <4>2 DEF ChainInv, Saving
      <4> QED BY <4>1, <4>2
    <3> QED BY <2>1, <3>1 DEF ChainInv
  <2>11. ToldInv'
    BY <1>i, <2>1, <2>4, <2>6, <2>8 DEF ToldInv
  <2>12. ASSUME NEW q \in Pages, PageAlone(q)'
         PROVE  OneChain(q)' /\ ChainKnows(q)' /\ PageKnows(q)'
    <3>1. PageAlone(q)
      BY <2>1, <2>8, <2>12 DEF PageAlone, Saving
    <3>2. OneChain(q) /\ ChainKnows(q) /\ PageKnows(q)
      BY <1>i, <3>1 DEF AloneInv
    <3>3. CASE q # p
      BY <2>1, <2>6, <2>8, <3>2, <3>3 DEF OneChain, ChainKnows, PageKnows, Knows, Running
    <3>4. CASE q = p
      <4>1. s.beside = {}
        BY <2>6, <2>8, <2>12, <3>4 DEF PageAlone
      <4>2. \A i \in DOMAIN job : job[i].page = q => ~Running(i)
        BY <2>6, <3>4, <4>1
      <4>3. Knows(tab[q].detail)
        BY <3>2, <4>2 DEF PageKnows, Running
      <4>4. Knows(tab[q].detail)' /\ Knows(s.detail)'
        BY <2>1, <2>6, <3>4, <4>3 DEF Knows
      <4>5. OneChain(q)'
        BY <2>8, <4>2 DEF OneChain, Running
      <4>6. ChainKnows(q)'
        BY <2>1, <2>4, <2>6, <2>8, <3>2, <4>4 DEF ChainKnows, Knows
      <4> QED BY <4>4, <4>5, <4>6 DEF PageKnows
    <3> QED BY <3>3, <3>4
  <2>13. AloneInv'
    BY <2>12 DEF AloneInv
  <2>14. LossIsInformed'
    <3>1. \A v \in 2..Len(saved) : saved[v].by \in DOMAIN job
      BY <1>i DEF SavedInv
    <3>2. \A v \in 2..Len(saved) : job'[saved[v].by].page = job[saved[v].by].page
      BY <2>8, <3>1
    <3> QED BY <1>i, <2>1, <3>2 DEF LossIsInformed
  <2> QED BY <1>t, <1>n, <1>r, <2>1, <2>7, <2>8, <2>9, <2>10, <2>11, <2>13, <2>14
<1>4. ASSUME NEW j \in DOMAIN job, Show(j) PROVE Kept
  <2>1. /\ UNCHANGED <<saved, editorVersion, revisions, deployments, losses>>
        /\ job[j].at = "rest"
    BY <1>4 DEF Show, editingServer
  <2>2. PICK p \in Pages : p = job[j].page
    BY <1>p
  <2>3. PICK d : d = Answer(j)
    OBVIOUS
  <2>4. d \in Details /\ d.draft = job[j].detail.draft /\ d.editor = editorVersion
    <3>1. job[j].detail \in Details
      BY <1>r DEF JobRow
    <3>2. Deployed \in Nat /\ Len(revisions) \in Nat
      BY <1>t DEF Deployed, Last
    <3> QED BY <1>t, <2>3, <3>1, <3>2 DEF Answer, Details
  <2>5. d.draft \in 1..Len(saved)
    BY <1>i, <2>1, <2>4 DEF ToldInv
  <2>6. PICK t : t = [tab[p] EXCEPT !.detail = d,
                          !.text = IF job[j].kind = "load" THEN saved[d.draft].text ELSE tab[p].text]
    OBVIOUS
  <2>7. t \in TabRow /\ t.detail = d
    <3>1. saved[d.draft].text \in SUBSET Edits
      BY <1>r, <2>5 DEF SaveRow
    <3> QED BY <1>r, <2>4, <2>6, <3>1 DEF TabRow
  <2>8. tab' = [tab EXCEPT ![p] = t] /\ told' = [told EXCEPT ![p] = told[p] \cup {d.draft}]
    BY <1>t, <1>4, <2>2, <2>3, <2>6 DEF Show
  <2>9. /\ tab' \in [Pages -> TabRow] /\ tab'[p] = t /\ \A q \in Pages : q # p => tab'[q] = tab[q]
        /\ told' \in [Pages -> SUBSET (1..Len(saved))]
        /\ d.draft \in told'[p] /\ \A q \in Pages : told[q] \subseteq told'[q]
    BY <1>t, <2>5, <2>7, <2>8
  <2>10. PICK s \in JobRow :
            /\ job' = [job EXCEPT ![j] = s]
            /\ s.page = job[j].page /\ s.kind = job[j].kind /\ s.beside = job[j].beside
            /\ s.wrote = job[j].wrote
            /\ \/ s.at = "revise" /\ s.detail = job[j].detail /\ s.kind = "deploy"
               \/ s.at = "over" /\ s.detail = NewDetail
    <3>1. CASE job[j].kind = "deploy"
      <4>1. PICK s : s = [job[j] EXCEPT !.at = "revise"]
        OBVIOUS
      <4>2. job' = [job EXCEPT ![j] = s]
        BY <1>t, <1>4, <3>1, <4>1 DEF Show, Moves
      <4>3. /\ s \in JobRow /\ s.page = job[j].page /\ s.kind = job[j].kind
            /\ s.beside = job[j].beside /\ s.wrote = job[j].wrote
            /\ s.at = "revise" /\ s.detail = job[j].detail
        BY <1>r, <4>1 DEF JobRow
      <4> QED BY <3>1, <4>2, <4>3
    <3>2. CASE job[j].kind # "deploy"
      BY <1>4, <3>2, ChainEnds DEF Show
    <3> QED BY <3>1, <3>2
  <2>11. Running(j)
    BY <2>1 DEF Running
  <2>12. /\ job' \in Seq(JobRow) /\ Len(job') = Len(job) /\ DOMAIN job' = DOMAIN job
         /\ job'[j] = s /\ \A i \in DOMAIN job : i # j => job'[i] = job[i]
         /\ \A i \in DOMAIN job : /\ job'[i].page = job[i].page
                                  /\ Saving(i)' <=> Saving(i)
         /\ \A q \in Pages : PageAlone(q)' =>
               /\ PageAlone(q) /\ OneChain(q)' /\ ChainKnows(q) /\ PageKnows(q)
               /\ q = job[j].page =>
                     \A i \in DOMAIN job : i # j /\ job[i].page = q => ~Running(i)
    BY <2>1, <2>10, <2>11, ChainMoves
  <2>13. SavedInv' /\ FreshInv'
    BY <1>i, <2>1, <2>10, <2>12 DEF SavedInv, FreshInv
  <2>14. ChainInv'
    <3>1. Saving(j)' <=> s.kind \in {"save", "deploy"}
      BY <2>12 DEF Saving
    <3> QED BY <1>i, <2>1, <2>10, <2>12, <3>1 DEF ChainInv
  <2>15. ToldInv'
    <3>1. \A q \in Pages : tab'[q].detail.draft \in told'[q] /\ 1 \in told'[q]
      BY <1>i, <2>7, <2>9 DEF ToldInv
    <3>2. s.at # "rest" /\ s.detail.draft \in told'[s.page]
      BY <2>2, <2>4, <2>9, <2>10, <3>1, NewDetailType
    <3>3. ASSUME NEW i \in DOMAIN job
          PROVE  IF job'[i].at = "rest" THEN job'[i].detail.draft \in 1..Len(saved')
                 ELSE job'[i].detail.draft \in told'[job'[i].page]
      BY <1>i, <1>p, <2>1, <2>9, <2>12, <3>2 DEF ToldInv
    <3> QED BY <2>12, <3>1, <3>3 DEF ToldInv
  <2>16. ASSUME NEW q \in Pages, PageAlone(q)'
         PROVE  OneChain(q)' /\ ChainKnows(q)' /\ PageKnows(q)'
    <3>1. OneChain(q)' /\ ChainKnows(q) /\ PageKnows(q)
      BY <2>12, <2>16
    <3>2. ChainKnows(q)'
      BY <2>1, <2>10, <2>12, <3>1 DEF ChainKnows, Knows
    <3>3. CASE q = p
      <4>1. d.draft = Len(saved)
        BY <2>1, <2>2, <2>4, <3>1, <3>3 DEF ChainKnows
      <4>2. Knows(tab[q].detail)'
        BY <2>1, <2>4, <2>7, <2>9, <3>3, <4>1 DEF Knows
      <4> QED BY <3>1, <3>2, <4>2 DEF PageKnows
    <3>4. CASE q # p
      <4>1. \A i \in DOMAIN job : job[i].page = q => job'[i] = job[i]
        BY <2>2, <2>12, <3>4
      <4>2. tab'[q] = tab[q]
        BY <2>9, <3>4
      <4>3. PageKnows(q)'
        BY <2>1, <2>12, <3>1, <4>1, <4>2 DEF PageKnows, Knows
      <4> QED BY <3>1, <3>2, <4>3
    <3> QED BY <3>3, <3>4
  <2>17. AloneInv'
    BY <2>16 DEF AloneInv
  <2>18. LossIsInformed'
    BY <2>1, <2>9, <2>12, LossStays
  <2> QED BY <1>t, <1>n, <1>r, <2>1, <2>9, <2>12, <2>13, <2>14, <2>15, <2>17, <2>18
<1>5. ASSUME NEW j \in DOMAIN job, RenameFlow(j) PROVE Kept
  <2>1. /\ UNCHANGED <<saved, editorVersion, revisions, deployments, losses, told>>
        /\ job[j].at = "rename" /\ Ends(j, "over")
    BY <1>5 DEF RenameFlow, editingServer
  <2>2. PICK p \in Pages : p = job[j].page
    BY <1>p
  <2>3. PICK d \in Details : d = job[j].detail
    BY <1>r DEF JobRow
  <2>4. PICK t : t = [tab[p] EXCEPT !.detail = d]
    OBVIOUS
  <2>5. t \in TabRow /\ t.detail = d
    BY <1>r, <2>4 DEF TabRow
  <2>6. tab' = [tab EXCEPT ![p] = t]
    BY <1>t, <1>5, <2>2, <2>3, <2>4 DEF RenameFlow
  <2>7. tab' \in [Pages -> TabRow] /\ tab'[p] = t /\ \A q \in Pages : q # p => tab'[q] = tab[q]
    BY <1>t, <2>5, <2>6
  <2>8. PICK s \in JobRow :
            /\ job' = [job EXCEPT ![j] = s]
            /\ s.page = job[j].page /\ s.kind = job[j].kind /\ s.beside = job[j].beside
            /\ s.wrote = job[j].wrote /\ s.at = "over" /\ s.detail = NewDetail
    BY <2>1, ChainEnds
  <2>9. Running(j)
    BY <2>1 DEF Running
  <2>10. /\ job' \in Seq(JobRow) /\ Len(job') = Len(job) /\ DOMAIN job' = DOMAIN job
         /\ job'[j] = s /\ \A i \in DOMAIN job : i # j => job'[i] = job[i]
         /\ \A i \in DOMAIN job : /\ job'[i].page = job[i].page
                                  /\ Saving(i)' <=> Saving(i)
         /\ \A q \in Pages : PageAlone(q)' =>
               /\ PageAlone(q) /\ OneChain(q)' /\ ChainKnows(q) /\ PageKnows(q)
               /\ q = job[j].page =>
                     \A i \in DOMAIN job : i # j /\ job[i].page = q => ~Running(i)
    BY <2>1, <2>8, <2>9, ChainMoves
  <2>11. SavedInv' /\ ChainInv' /\ FreshInv'
    BY <1>i, <2>1, <2>8, <2>10 DEF SavedInv, ChainInv, FreshInv
  <2>12. ToldInv'
    <3>1. d.draft \in told[p] /\ NewDetail.draft \in told[p]
      BY <1>i, <2>1, <2>2, <2>3, NewDetailType DEF ToldInv
    <3> QED BY <1>i, <2>1, <2>2, <2>5, <2>7, <2>8, <2>10, <3>1 DEF ToldInv
  <2>13. LossIsInformed'
    BY <2>1, <2>10, LossStays
  <2>14. ASSUME NEW q \in Pages, PageAlone(q)'
         PROVE  OneChain(q)' /\ ChainKnows(q)' /\ PageKnows(q)'
    <3>1. OneChain(q)' /\ ChainKnows(q) /\ PageKnows(q)
      BY <2>10, <2>14
    <3>2. ChainKnows(q)'
      BY <2>1, <2>8, <2>10, <3>1 DEF ChainKnows, Knows
    <3>3. CASE q = p
      <4>1. Knows(d)
        BY <2>1, <2>2, <2>3, <3>1, <3>3 DEF ChainKnows
      <4>2. Knows(tab[q].detail)'
        BY <2>1, <2>5, <2>7, <3>3, <4>1 DEF Knows
      <4> QED BY <3>1, <3>2, <4>2 DEF PageKnows
    <3>4. CASE q # p
      <4>1. \A i \in DOMAIN job : job[i].page = q => job'[i] = job[i]
        BY <2>2, <2>10, <3>4
      <4>2. tab'[q] = tab[q]
        BY <2>7, <3>4
      <4>3. PageKnows(q)'
        BY <2>1, <2>10, <3>1, <4>1, <4>2 DEF PageKnows, Knows
      <4> QED BY <3>1, <3>2, <4>3
    <3> QED BY <3>3, <3>4
  <2>15. AloneInv'
    BY <2>14 DEF AloneInv
  <2> QED BY <1>t, <2>1, <2>7, <2>10, <2>11, <2>12, <2>13, <2>15
<1>6. ASSUME NEW j \in DOMAIN job, WaitDeployment(j) PROVE Kept
  <2>1. UNCHANGED <<saved, editorVersion, revisions, deployments, losses, told>> /\ job[j].at = "wait"
    BY <1>6 DEF WaitDeployment, editingServer
  <2>2. PICK at \in {"over", "lost"} : Ends(j, at)
    BY <1>6 DEF WaitDeployment
  <2>3. PICK s \in JobRow :
            /\ job' = [job EXCEPT ![j] = s]
            /\ s.page = job[j].page /\ s.kind = job[j].kind /\ s.beside = job[j].beside
            /\ s.wrote = job[j].wrote /\ s.at = at /\ s.detail = NewDetail
    BY <2>2, ChainEnds
  <2>4. tab' \in [Pages -> TabRow] /\ \A q \in Pages : tab'[q].detail = tab[q].detail
    <3>1. CASE tab' = tab
      BY <1>t, <3>1
    <3>2. CASE tab' = [tab EXCEPT ![job[j].page].answered = job[j].ref]
      <4>1. PICK p \in Pages : p = job[j].page
        BY <1>p
      <4>2. PICK n \in Nat : n = job[j].ref
        BY <1>r DEF JobRow
      <4>3. PICK t : t = [tab[p] EXCEPT !.answered = n]
        OBVIOUS
      <4>4. t \in TabRow /\ t.detail = tab[p].detail
        BY <1>r, <4>3 DEF TabRow
      <4>5. tab' = [tab EXCEPT ![p] = t]
        BY <1>t, <3>2, <4>1, <4>2, <4>3
      <4> QED BY <1>t, <4>4, <4>5
    <3> QED BY <1>6, <3>1, <3>2 DEF WaitDeployment
  <2>5. NewDetail.draft \in told[job[j].page]
    BY <1>i, <1>p, NewDetailType DEF ToldInv
  <2>6. Running(j)
    BY <2>1 DEF Running
  <2>7. /\ SavedInv' /\ ChainInv' /\ FreshInv' /\ ToldInv' /\ AloneInv' /\ LossIsInformed'
        /\ job' \in Seq(JobRow) /\ Len(job') = Len(job)
    BY <2>1, <2>2, <2>3, <2>4, <2>5, <2>6, ChainOnly
  <2> QED BY <1>t, <2>1, <2>4, <2>7
<1>7. ASSUME NEW j \in DOMAIN job, Lose(j) PROVE Kept
  <2>1. /\ UNCHANGED <<saved, editorVersion, revisions, deployments, tab, told>>
        /\ job[j].at \in {"editor", "flow", "rest"} /\ losses' = losses + 1 /\ losses < MaxLosses
        /\ Ends(j, "lost")
    BY <1>7 DEF Lose, editingServer
  <2>2. losses' \in 0..MaxLosses /\ losses' # 0
    BY <1>t, <1>n, <2>1
  <2>3. PICK s \in JobRow :
            /\ job' = [job EXCEPT ![j] = s]
            /\ s.page = job[j].page /\ s.kind = job[j].kind /\ s.beside = job[j].beside
            /\ s.wrote = job[j].wrote /\ s.at = "lost" /\ s.detail = NewDetail
    BY <2>1, ChainEnds
  <2>4. NewDetail.draft \in told[job[j].page]
    BY <1>i, <1>p, NewDetailType DEF ToldInv
  <2>5. Running(j)
    BY <2>1 DEF Running
  <2>6. /\ SavedInv' /\ ChainInv' /\ FreshInv' /\ ToldInv' /\ AloneInv' /\ LossIsInformed'
        /\ job' \in Seq(JobRow) /\ Len(job') = Len(job)
    BY <2>1, <2>2, <2>3, <2>4, <2>5, ChainOnly
  <2> QED BY <1>t, <2>1, <2>2, <2>6
<1>8. ASSUME NEW j \in DOMAIN job, ReadDraft(j) PROVE Kept
  <2>1. /\ UNCHANGED <<saved, editorVersion, revisions, deployments, tab, losses, told>>
        /\ job[j].at = "flow"
    BY <1>8 DEF ReadDraft, editingServer
  <2>2. PICK d : d = [job[j].detail EXCEPT !.draft = Len(saved)]
    OBVIOUS
  <2>3. d \in Details /\ d.draft = Len(saved)
    <3>1. job[j].detail \in Details
      BY <1>r DEF JobRow
    <3> QED BY <1>r, <2>2, <3>1 DEF Details
  <2>4. PICK a : a = [job[j] EXCEPT !.at = "rest"]
    OBVIOUS
  <2>5. /\ a \in JobRow /\ a.page = job[j].page /\ a.kind = job[j].kind
        /\ a.beside = job[j].beside /\ a.wrote = job[j].wrote /\ a.at = "rest"
        /\ a.detail = job[j].detail
    BY <1>r, <2>4 DEF JobRow
  <2>6. PICK s : s = [a EXCEPT !.detail = d]
    OBVIOUS
  <2>7. /\ s \in JobRow /\ s.page = job[j].page /\ s.kind = job[j].kind
        /\ s.beside = job[j].beside /\ s.wrote = job[j].wrote /\ s.at = "rest"
        /\ s.detail.draft = Len(saved)
    BY <2>3, <2>5, <2>6 DEF JobRow
  <2>8. s = [job[j] EXCEPT !.at = "rest", !.detail.draft = Len(saved)]
    BY <1>r, <2>2, <2>4, <2>5, <2>6
  <2>9. job' = [job EXCEPT ![j] = s]
    BY <1>t, <1>8, <2>8 DEF ReadDraft
  <2>10. Running(j)
    BY <2>1 DEF Running
  <2>11. /\ SavedInv' /\ ChainInv' /\ FreshInv' /\ ToldInv' /\ AloneInv' /\ LossIsInformed'
         /\ job' \in Seq(JobRow) /\ Len(job') = Len(job)
    BY <2>1, <2>7, <2>9, <2>10, ChainOnly
  <2> QED BY <1>t, <2>1, <2>11
<1>9. ASSUME NEW j \in DOMAIN job, CreateRevision(j) PROVE Kept
  <2>1. /\ UNCHANGED <<saved, editorVersion, revisions, deployments, tab, losses, told>>
        /\ job[j].at = "revise"
    BY <1>9 DEF CreateRevision, editingServer
  <2>2. PICK s \in JobRow :
            /\ job' = [job EXCEPT ![j] = s]
            /\ s.page = job[j].page /\ s.kind = job[j].kind /\ s.beside = job[j].beside
            /\ s.wrote = job[j].wrote
            /\ \/ s.at = "insert" /\ s.ref = Len(saved) /\ s.detail = job[j].detail
               \/ s.at = "lost" /\ s.detail = NewDetail
    <3>1. CASE job' = [job EXCEPT ![j].at = "insert", ![j].ref = Len(saved)]
      <4>1. PICK a : a = [job[j] EXCEPT !.at = "insert"]
        OBVIOUS
      <4>2. /\ a \in JobRow /\ a.page = job[j].page /\ a.kind = job[j].kind
            /\ a.beside = job[j].beside /\ a.wrote = job[j].wrote /\ a.at = "insert"
            /\ a.detail = job[j].detail
        BY <1>r, <4>1 DEF JobRow
      <4>3. PICK s : s = [a EXCEPT !.ref = Len(saved)]
        OBVIOUS
      <4>4. /\ s \in JobRow /\ s.page = job[j].page /\ s.kind = job[j].kind
            /\ s.beside = job[j].beside /\ s.wrote = job[j].wrote /\ s.at = "insert"
            /\ s.ref = Len(saved) /\ s.detail = job[j].detail
        BY <1>r, <4>2, <4>3 DEF JobRow
      <4>5. job' = [job EXCEPT ![j] = s]
        BY <1>t, <3>1, <4>1, <4>3
      <4> QED BY <4>4, <4>5
    <3>2. CASE Ends(j, "lost")
      BY <3>2, ChainEnds
    <3> QED BY <1>9, <3>1, <3>2 DEF CreateRevision
  <2>3. NewDetail.draft \in told[job[j].page] /\ job[j].detail.draft \in told[job[j].page]
        /\ job[j].wrote <= Len(saved)
    BY <1>i, <1>p, <2>1, NewDetailType DEF ToldInv, ChainInv
  <2>4. Running(j)
    BY <2>1 DEF Running
  <2>5. /\ SavedInv' /\ ChainInv' /\ FreshInv' /\ ToldInv' /\ AloneInv' /\ LossIsInformed'
         /\ job' \in Seq(JobRow) /\ Len(job') = Len(job)
    BY <1>r, <2>1, <2>2, <2>3, <2>4, ChainOnly
  <2> QED BY <1>t, <2>1, <2>5
<1>10. ASSUME NEW j \in DOMAIN job, SaveEditor(j) PROVE Kept
  <2>1. /\ UNCHANGED <<saved, revisions, deployments, tab, losses, told>> /\ job[j].at = "editor"
    BY <1>10 DEF SaveEditor
  <2>2. CASE job[j].detail.editor # editorVersion
    <3>1. editorVersion' = editorVersion /\ Ends(j, "conflict")
      BY <1>10, <2>2 DEF SaveEditor
    <3>2. PICK s \in JobRow :
            /\ job' = [job EXCEPT ![j] = s]
            /\ s.page = job[j].page /\ s.kind = job[j].kind /\ s.beside = job[j].beside
            /\ s.wrote = job[j].wrote /\ s.at = "conflict" /\ s.detail = NewDetail
      BY <3>1, ChainEnds
    <3>3. ~PageAlone(job[j].page)
      BY <1>i, <1>p, <2>1, <2>2 DEF AloneInv, ChainKnows
    <3>4. NewDetail.draft \in told[job[j].page]
      BY <1>i, <1>p, NewDetailType DEF ToldInv
    <3>5. Running(j)
      BY <2>1 DEF Running
    <3>6. /\ SavedInv' /\ ChainInv' /\ FreshInv' /\ ToldInv' /\ AloneInv' /\ LossIsInformed'
          /\ job' \in Seq(JobRow) /\ Len(job') = Len(job)
      BY <2>1, <3>1, <3>2, <3>3, <3>4, <3>5, ChainOnly
    <3> QED BY <1>t, <2>1, <3>1, <3>6
  <2>3. CASE job[j].detail.editor = editorVersion
    <3>1. editorVersion' = editorVersion + 1 /\ Moves(j, "flow")
      BY <1>10, <2>3 DEF SaveEditor
    <3>2. PICK s : s = [job[j] EXCEPT !.at = "flow"]
      OBVIOUS
    <3>3. /\ s \in JobRow /\ s.page = job[j].page /\ s.kind = job[j].kind
          /\ s.beside = job[j].beside /\ s.wrote = job[j].wrote /\ s.at = "flow"
          /\ s.detail = job[j].detail
      BY <1>r, <3>2 DEF JobRow
    <3>4. job' = [job EXCEPT ![j] = s]
      BY <1>t, <3>1, <3>2 DEF Moves
    <3>5. Running(j)
      BY <2>1 DEF Running
    <3>6. /\ job' \in Seq(JobRow) /\ Len(job') = Len(job) /\ DOMAIN job' = DOMAIN job
          /\ job'[j] = s /\ \A i \in DOMAIN job : i # j => job'[i] = job[i]
          /\ \A i \in DOMAIN job : /\ job'[i].page = job[i].page
                                   /\ Saving(i)' <=> Saving(i)
          /\ \A q \in Pages : PageAlone(q)' =>
                /\ PageAlone(q) /\ OneChain(q)' /\ ChainKnows(q) /\ PageKnows(q)
                /\ q = job[j].page =>
                      \A i \in DOMAIN job : i # j /\ job[i].page = q => ~Running(i)
      BY <2>1, <3>3, <3>4, <3>5, ChainMoves
    <3>7. SavedInv' /\ ChainInv' /\ FreshInv'
      BY <1>i, <2>1, <3>3, <3>6 DEF SavedInv, ChainInv, FreshInv
    <3>8. ToldInv'
      BY <1>i, <2>1, <3>3, <3>6 DEF ToldInv
    <3>9. LossIsInformed'
      BY <2>1, <3>6, LossStays
    <3>10. ASSUME NEW q \in Pages, PageAlone(q)'
           PROVE  OneChain(q)' /\ ChainKnows(q)' /\ PageKnows(q)'
      <4>1. /\ PageAlone(q) /\ OneChain(q)' /\ ChainKnows(q)
            /\ q = job[j].page =>
                  \A i \in DOMAIN job : i # j /\ job[i].page = q => ~Running(i)
        BY <3>6, <3>10
      <4>2. q = job[j].page
        BY <1>i, <2>1, <4>1 DEF PageAlone, ChainInv
      <4>3. ChainKnows(q)'
        BY <2>1, <3>3, <3>6, <4>1, <4>2 DEF ChainKnows, Running
      <4>4. PageKnows(q)'
        BY <3>3, <3>6, <4>2 DEF PageKnows
      <4> QED BY <4>1, <4>3, <4>4
    <3>11. AloneInv'
      BY <3>10 DEF AloneInv
    <3> QED BY <1>t, <2>1, <3>1, <3>6, <3>7, <3>8, <3>9, <3>11
  <2> QED BY <2>2, <2>3
<1>11. ASSUME NEW j \in DOMAIN job, SaveDraft(j) PROVE Kept
  <2>1. /\ UNCHANGED <<editorVersion, revisions, deployments, tab, losses, told>>
        /\ job[j].at = "draft"
    BY <1>11 DEF SaveDraft
  <2>2. CASE job[j].detail.draft # Len(saved)
    <3>1. saved' = saved /\ Ends(j, "conflict")
      BY <1>11, <2>2 DEF SaveDraft
    <3>2. PICK s \in JobRow :
            /\ job' = [job EXCEPT ![j] = s]
            /\ s.page = job[j].page /\ s.kind = job[j].kind /\ s.beside = job[j].beside
            /\ s.wrote = job[j].wrote /\ s.at = "conflict" /\ s.detail = NewDetail
      BY <3>1, ChainEnds
    <3>3. ~PageAlone(job[j].page)
      BY <1>i, <1>p, <2>1, <2>2 DEF AloneInv, ChainKnows, Knows
    <3>4. NewDetail.draft \in told[job[j].page]
      BY <1>i, <1>p, NewDetailType DEF ToldInv
    <3>5. Running(j)
      BY <2>1 DEF Running
    <3>6. /\ SavedInv' /\ ChainInv' /\ FreshInv' /\ ToldInv' /\ AloneInv' /\ LossIsInformed'
          /\ job' \in Seq(JobRow) /\ Len(job') = Len(job)
      BY <2>1, <3>1, <3>2, <3>3, <3>4, <3>5, ChainOnly
    <3> QED BY <1>t, <2>1, <3>1, <3>6
  <2>3. CASE job[j].detail.draft = Len(saved)
    <3>1. PICK e : e = [text |-> job[j].text, by |-> j]
      OBVIOUS
    <3>2. e \in SaveRow /\ e.by = j
      <4>1. job[j].text \in SUBSET Edits /\ j \in Jobs
        BY <1>t, <1>n, <1>r DEF JobRow, Jobs
      <4> QED BY <3>1, <4>1 DEF SaveRow
    <3>3. saved' = Append(saved, e)
      BY <1>11, <2>3, <3>1 DEF SaveDraft
    <3>4. PICK n \in Nat : n = Len(saved) + 1
      BY <1>r
    <3>5. /\ saved' \in Seq(SaveRow) /\ Len(saved') = n /\ saved'[n] = e
          /\ \A v \in 1..Len(saved) : saved'[v] = saved[v]
          /\ \A v \in 1..n : v # n => v \in 1..Len(saved)
          /\ 1..Len(saved) \subseteq 1..n
      BY <1>t, <1>r, <3>2, <3>3, <3>4
    <3>6. PICK a : a = [job[j] EXCEPT !.at = "editor"]
      OBVIOUS
    <3>7. /\ a \in JobRow /\ a.page = job[j].page /\ a.kind = job[j].kind
          /\ a.beside = job[j].beside /\ a.at = "editor" /\ a.detail = job[j].detail
      BY <1>r, <3>6 DEF JobRow
    <3>8. PICK s : s = [a EXCEPT !.wrote = n]
      OBVIOUS
    <3>9. /\ s \in JobRow /\ s.page = job[j].page /\ s.kind = job[j].kind
          /\ s.beside = job[j].beside /\ s.wrote = n /\ s.at = "editor"
          /\ s.detail = job[j].detail
      BY <3>4, <3>7, <3>8 DEF JobRow
    <3>10. job' = [job EXCEPT ![j] = s]
      BY <1>t, <1>11, <2>3, <3>4, <3>6, <3>8 DEF SaveDraft
    <3>11. Running(j)
      BY <2>1 DEF Running
    <3>12. /\ job' \in Seq(JobRow) /\ Len(job') = Len(job) /\ DOMAIN job' = DOMAIN job
           /\ job'[j] = s /\ \A i \in DOMAIN job : i # j => job'[i] = job[i]
           /\ \A i \in DOMAIN job : /\ job'[i].page = job[i].page
                                    /\ Saving(i)' <=> Saving(i)
           /\ \A q \in Pages : PageAlone(q)' =>
                 /\ PageAlone(q) /\ OneChain(q)' /\ ChainKnows(q) /\ PageKnows(q)
                 /\ q = job[j].page =>
                       \A i \in DOMAIN job : i # j /\ job[i].page = q => ~Running(i)
      BY <2>1, <3>9, <3>10, <3>11, ChainMoves
    <3>13. SavedInv'
      <4>1. ASSUME NEW v \in 2..n PROVE saved'[v].by \in DOMAIN job'
        <5>1. CASE v = n
          BY <3>2, <3>5, <3>12, <5>1
        <5>2. CASE v # n
          BY <1>i, <1>r, <3>4, <3>5, <3>12, <5>2 DEF SavedInv
        <5> QED BY <5>1, <5>2
      <4> QED BY <3>4, <3>5, <4>1 DEF SavedInv
    <3>14. ChainInv'
      <4>1. Saving(j)
        BY <1>i, <2>1 DEF ChainInv
      <4>2. ASSUME NEW i \in DOMAIN job
            PROVE  /\ job'[i].at \in {"draft", "editor", "revise", "insert"} => Saving(i)'
                   /\ job'[i].wrote <= n
                   /\ job'[i].at = "insert" => job'[i].ref >= job'[i].wrote
        <5>1. CASE i = j
          BY <3>4, <3>9, <3>12, <4>1, <5>1
        <5>2. CASE i # j
          <6>1. job[i].wrote \in Nat /\ job[i].wrote <= Len(saved)
            BY <1>i, <1>r DEF ChainInv, JobRow
          <6> QED BY <1>i, <1>r, <3>4, <3>12, <5>2, <6>1 DEF ChainInv
        <5> QED BY <5>1, <5>2
      <4> QED BY <3>5, <3>12, <4>2 DEF ChainInv
    <3>15. FreshInv'
      BY <1>i, <2>1, <3>12 DEF FreshInv
    <3>16. ToldInv'
      BY <1>i, <2>1, <3>5, <3>9, <3>12 DEF ToldInv
    <3>17. told' \in [Pages -> SUBSET (1..Len(saved'))]
      BY <1>t, <2>1, <3>5
    <3>18. LossIsInformed'
      <4> SUFFICES ASSUME NEW v \in 2..n, NEW x \in saved'[v - 1].text \ saved'[v].text
                   PROVE  \E u \in told[job'[saved'[v].by].page] : x \in saved'[u].text
        BY <2>1, <3>5 DEF LossIsInformed
      <4>1. v - 1 \in 1..Len(saved) /\ saved'[v - 1] = saved[v - 1]
        BY <3>4, <3>5
      <4>2. CASE v = n
        <5>1. job'[saved'[v].by].page = job[j].page
          BY <3>2, <3>5, <3>12, <4>2
        <5>2. v - 1 \in told[job[j].page]
          <6>1. job[j].detail.draft \in told[job[j].page]
            BY <1>i, <2>1 DEF ToldInv
          <6>2. v - 1 = Len(saved)
            BY <1>r, <3>4, <4>2
          <6> QED BY <2>3, <6>1, <6>2
        <5> QED BY <5>1, <5>2
      <4>3. CASE v # n
        <5>1. v \in 2..Len(saved) /\ saved'[v] = saved[v]
          BY <1>r, <3>4, <3>5, <4>3
        <5>2. PICK i \in DOMAIN job : i = saved[v].by
          BY <1>i, <5>1 DEF SavedInv
        <5>3. PICK u \in told[job[i].page] : x \in saved[u].text
          BY <1>i, <4>1, <5>1, <5>2 DEF LossIsInformed
        <5>4. u \in 1..Len(saved)
          BY <1>t, <1>p
        <5>5. job'[saved'[v].by].page = job[i].page /\ saved'[u] = saved[u]
          BY <3>5, <3>12, <5>1, <5>2, <5>4
        <5> QED BY <5>3, <5>5
      <4> QED BY <4>2, <4>3
    <3>19. ASSUME NEW q \in Pages, PageAlone(q)'
           PROVE  OneChain(q)' /\ ChainKnows(q)' /\ PageKnows(q)'
      <4>1. /\ PageAlone(q) /\ OneChain(q)' /\ ChainKnows(q)
            /\ q = job[j].page =>
                  \A i \in DOMAIN job : i # j /\ job[i].page = q => ~Running(i)
        BY <3>12, <3>19
      <4>2. q = job[j].page
        BY <1>i, <2>1, <4>1 DEF PageAlone, ChainInv
      <4>3. job[j].detail.editor = editorVersion
        BY <2>1, <4>1, <4>2 DEF ChainKnows, Knows
      <4>4. ChainKnows(q)'
        BY <2>1, <3>9, <3>12, <4>1, <4>2, <4>3 DEF ChainKnows, Running
      <4>5. PageKnows(q)'
        BY <3>9, <3>12, <4>2 DEF PageKnows
      <4> QED BY <4>1, <4>4, <4>5
    <3>20. AloneInv'
      BY <3>19 DEF AloneInv
    <3> QED BY <1>t, <2>1, <3>5, <3>12, <3>13, <3>14, <3>15, <3>16, <3>17, <3>18, <3>20
  <2> QED BY <2>2, <2>3
<1>12. ASSUME NEW j \in DOMAIN job, NEW at \in {"deploy", "wait"}, NEW n \in Nat,
             job[j].at \in {"insert", "deploy"},
             job' = [job EXCEPT ![j].at = at, ![j].ref = n],
             UNCHANGED <<saved, editorVersion, tab, losses, told>>
       PROVE  /\ job' \in Seq(JobRow) /\ Len(job') = Len(job) /\ DOMAIN job' = DOMAIN job
              /\ job'[j].at = at /\ job'[j].wrote = job[j].wrote
              /\ \A i \in DOMAIN job : i # j => job'[i] = job[i]
              /\ SavedInv' /\ ChainInv' /\ ToldInv' /\ AloneInv' /\ LossIsInformed'
  <2>1. PICK a : a = [job[j] EXCEPT !.at = at]
    OBVIOUS
  <2>2. /\ a \in JobRow /\ a.page = job[j].page /\ a.kind = job[j].kind
        /\ a.beside = job[j].beside /\ a.at = at /\ a.detail = job[j].detail
        /\ a.wrote = job[j].wrote
    BY <1>r, <2>1 DEF JobRow
  <2>3. PICK s : s = [a EXCEPT !.ref = n]
    OBVIOUS
  <2>4. /\ s \in JobRow /\ s.page = job[j].page /\ s.kind = job[j].kind
        /\ s.beside = job[j].beside /\ s.wrote = job[j].wrote /\ s.at = at
        /\ s.detail = job[j].detail
    BY <2>2, <2>3 DEF JobRow
  <2>5. job' = [job EXCEPT ![j] = s]
    BY <1>t, <1>12, <2>1, <2>3
  <2>6. Running(j)
    BY <1>12 DEF Running
  <2>7. /\ job' \in Seq(JobRow) /\ Len(job') = Len(job) /\ DOMAIN job' = DOMAIN job
        /\ job'[j] = s /\ \A i \in DOMAIN job : i # j => job'[i] = job[i]
        /\ \A i \in DOMAIN job : /\ job'[i].page = job[i].page
                                 /\ Saving(i)' <=> Saving(i)
        /\ \A q \in Pages : PageAlone(q)' =>
              /\ PageAlone(q) /\ OneChain(q)' /\ ChainKnows(q) /\ PageKnows(q)
              /\ q = job[j].page =>
                    \A i \in DOMAIN job : i # j /\ job[i].page = q => ~Running(i)
    <3>1. UNCHANGED losses
      BY <1>12
    <3> QED BY <2>4, <2>5, <2>6, <3>1, ChainMoves
  <2>8. SavedInv' /\ ChainInv' /\ ToldInv'
    BY <1>i, <1>12, <2>4, <2>7 DEF SavedInv, ChainInv, ToldInv
  <2>9. LossIsInformed'
    BY <1>12, <2>7, LossStays
  <2>10. ASSUME NEW q \in Pages, PageAlone(q)'
         PROVE  OneChain(q)' /\ ChainKnows(q)' /\ PageKnows(q)'
    <3>1. /\ PageAlone(q) /\ OneChain(q)' /\ ChainKnows(q) /\ PageKnows(q)
      BY <2>7, <2>10
    <3>2. ChainKnows(q)'
      BY <1>12, <2>4, <2>7, <3>1 DEF ChainKnows, Knows
    <3>3. PageKnows(q)'
      BY <1>12, <2>4, <2>7, <3>1 DEF PageKnows, Knows
    <3> QED BY <3>1, <3>2, <3>3
  <2>11. AloneInv'
    BY <2>10 DEF AloneInv
  <2> QED BY <2>4, <2>7, <2>8, <2>9, <2>11
<1>13. ASSUME NEW j \in DOMAIN job, InsertRevision(j) PROVE Kept
  <2>1. /\ UNCHANGED <<saved, editorVersion, deployments, tab, losses, told>>
        /\ job[j].at = "insert"
    BY <1>13 DEF InsertRevision
  <2>2. PICK n \in Nat : n = Len(revisions) + 1
    BY <1>t
  <2>3. /\ job' \in Seq(JobRow) /\ Len(job') = Len(job) /\ DOMAIN job' = DOMAIN job
        /\ job'[j].at = "deploy" /\ job'[j].wrote = job[j].wrote
        /\ \A i \in DOMAIN job : i # j => job'[i] = job[i]
        /\ SavedInv' /\ ChainInv' /\ ToldInv' /\ AloneInv' /\ LossIsInformed'
    BY <1>12, <1>13, <2>1, <2>2 DEF InsertRevision
  <2>4. PICK e : e = [draft |-> job[j].ref, by |-> j]
    OBVIOUS
  <2>5. e \in RevRow /\ e.by = j /\ e.draft = job[j].ref
    <3>1. job[j].ref \in Nat /\ j \in Jobs
      BY <1>t, <1>n, <1>r DEF JobRow, Jobs
    <3> QED BY <2>4, <3>1 DEF RevRow
  <2>6. revisions' = Append(revisions, e)
    BY <1>13, <2>4 DEF InsertRevision
  <2>7. /\ revisions' \in Seq(RevRow) /\ revisions'[n] = e
        /\ DOMAIN revisions' = DOMAIN revisions \cup {n}
        /\ \A i \in DOMAIN revisions : revisions'[i] = revisions[i]
    BY <1>t, <2>2, <2>5, <2>6
  <2>8. FreshInv'
    <3>1. ASSUME NEW i \in DOMAIN revisions'
          PROVE  /\ revisions'[i].by \in DOMAIN job'
                 /\ job'[revisions'[i].by].at \in {"deploy", "wait", "over", "lost"}
                 /\ revisions'[i].draft >= job'[revisions'[i].by].wrote
      <4>1. CASE i = n
        BY <1>i, <2>1, <2>3, <2>5, <2>7, <4>1 DEF ChainInv
      <4>2. CASE i \in DOMAIN revisions /\ i # n
        BY <1>i, <2>1, <2>3, <2>7, <4>2 DEF FreshInv
      <4> QED BY <2>7, <4>1, <4>2
    <3> QED BY <3>1 DEF FreshInv
  <2> QED BY <1>t, <2>1, <2>3, <2>7, <2>8
<1>14. ASSUME NEW j \in DOMAIN job, DeployRevision(j) PROVE Kept
  <2>1. /\ UNCHANGED <<saved, editorVersion, revisions, tab, losses, told>>
        /\ job[j].at = "deploy" /\ deployments' = Append(deployments, job[j].ref)
    BY <1>14 DEF DeployRevision
  <2>2. PICK n \in Nat : n = Len(deployments) + 1
    BY <1>t
  <2>3. /\ job' \in Seq(JobRow) /\ Len(job') = Len(job) /\ DOMAIN job' = DOMAIN job
        /\ job'[j].at = "wait" /\ job'[j].wrote = job[j].wrote
        /\ \A i \in DOMAIN job : i # j => job'[i] = job[i]
        /\ SavedInv' /\ ChainInv' /\ ToldInv' /\ AloneInv' /\ LossIsInformed'
    BY <1>12, <1>14, <2>1, <2>2 DEF DeployRevision
  <2>4. deployments' \in Seq(Nat)
    <3>1. job[j].ref \in Nat
      BY <1>r DEF JobRow
    <3> QED BY <1>t, <2>1, <3>1
  <2>5. FreshInv'
    BY <1>i, <2>1, <2>3 DEF FreshInv
  <2> QED BY <1>t, <2>1, <2>3, <2>4, <2>5
<1>15. Kept => EditingInv'
  BY EditingTypes DEF EditingInv, EditingTypeOK, SaveRow, RevRow, TabRow, JobRow
<1> HIDE DEF Kept
<1> QED
  BY <1>1, <1>2, <1>3, <1>4, <1>5, <1>6, <1>7, <1>8, <1>9, <1>10, <1>11, <1>13, <1>14, <1>15
     DEF EditingNext

LEMMA EditingSound == ASSUME EditingInv PROVE EditingHolds /\ EditingTypeOK
<1>1. RevisionsAreFresh
  BY DEF EditingInv, FreshInv, RevisionsAreFresh
<1>2. ASSUME NEW j \in DOMAIN job, job[j].at = "conflict", ~ (losses > 0),
             \A i \in DOMAIN job : job[i].page # job[j].page => ~Saving(i)
      PROVE  \E i \in DOMAIN job : job[i].page = job[j].page /\ job[i].beside # {}
  <2>1. job[j].page \in Pages
    <3>1. job[j] \in JobRow
      BY EditingTypes DEF EditingInv
    <3> QED BY <3>1 DEF JobRow
  <2>2. losses = 0
    BY <1>2, EditingTypes, EditingAssumption DEF EditingInv
  <2>3. ~PageAlone(job[j].page)
    BY <1>2, <2>1 DEF EditingInv, AloneInv, ChainKnows
  <2> QED BY <1>2, <2>2, <2>3 DEF PageAlone
<1>3. ConflictsHaveCause
  BY <1>2 DEF ConflictsHaveCause, Saving
<1> QED BY <1>1, <1>3 DEF EditingHolds, EditingInv

-----------------------------------------------------------------------------
(***************************************************************************)
(* Test runs.  A command that was applied has done its work, so that one   *)
(* the driver asks for has not been applied yet: while a test has anything *)
(* to do by itself, a message that was not applied is in the inbox.        *)
(***************************************************************************)
ReadyOnce(s) ==
    /\ \A i \in DOMAIN s.ready : s.effect[s.ready[i]] = "none"
    /\ \A i \in DOMAIN s.ready, j \in DOMAIN s.ready : s.ready[i] = s.ready[j] => i = j

EffectsFit(s, b) ==
    \A n \in Nodes :
        /\ s.effect[n] # "resolved" => s.as[n] = "none"
        /\ ~IsTimer(n) => s.due[n] = 0
        /\ b.added[n] # "simulated"

KeptIn(s) ==
    s.there => \A n \in Nodes :
        (\A k \in After[n] : s.effect[k] = "resolved") <=> (s.effect[n] # "none" \/ Has(s.ready, n))

\* A message that answers, and a command that was applied, are right about the test.
Timely(s, m) ==
    /\ m.kind = "timer" =>
          /\ m.as = "simulated" /\ s.effect[m.node] # "none" /\ s.due[m.node] <= s.clock
    /\ m.kind = "fixture" =>
          /\ m.as # "none" /\ m.as # "simulated" /\ s.effect[m.node] # "none"
          /\ s.due[m.node] <= s.clock /\ Since(m.node) <= s.clock
    /\ m.kind = "manual" =>
          /\ m.as \in {"fixture", "other"} /\ s.effect[m.node] # "none"
          /\ m = Manual(m.node, m.as)
    /\ m.kind \in {"timer", "fixture", "manual"} => m.node \in Nodes

AppliedIn(s, A) ==
    \A c \in A :
        /\ c.kind \in {"clock", "timer", "fixture", "manual"}
        /\ c.kind = "clock" => c.time <= s.clock
        /\ c.kind # "clock" => c.node \in Nodes /\ s.effect[c.node] = "resolved"

TimeKept(s, A) ==
    \A n \in Nodes :
        /\ s.as[n] = "simulated" => s.when[n] >= s.due[n]
        /\ s.as[n] = "fixture" /\ Manual(n, "fixture") \notin A =>
              s.when[n] >= s.due[n] /\ s.when[n] >= Since(n)

\* The test has something to do by itself.
HasToDo(s, b) ==
    /\ s.there /\ s.auto /\ b.kept /\ ~Over(s) /\ ~s.paused
    /\ \A n \in Pending(s) : Says(b, n) # "none" \/ IsTimer(n)

StartInv ==
    IF test.there THEN \A i \in DOMAIN mail : mail[i].kind # "start"
    ELSE /\ mail = << >> \/ mail = <<Order("start")>>
         /\ test.ready = << >> /\ \A n \in Nodes : test.effect[n] = "none"
         /\ ~test.paused /\ applied = {}

KeepsGoing == host = "up" /\ HasToDo(test, bundle) => \E i \in DOMAIN mail : mail[i] \notin applied

DryInv ==
    /\ DryTypeOK /\ StartInv /\ KeepsGoing
    /\ ReadyOnce(test) /\ EffectsFit(test, bundle) /\ KeptIn(test)
    /\ \A i \in DOMAIN mail : Timely(test, mail[i])
    /\ AppliedIn(test, applied) /\ TimeKept(test, applied)

TestRow   == [there : BOOLEAN, auto : BOOLEAN, paused : BOOLEAN, clock : Nat,
              ready : Seq(Nodes), effect : [Nodes -> {"none", "requested", "resolved"}],
              due : [Nodes -> Nat], as : [Nodes -> Responses], when : [Nodes -> Nat]]
BundleRow == [kept : BOOLEAN, added : [Nodes -> Responses]]

LEMMA DryTypes ==
  DryTypeOK <=>
    /\ test \in TestRow /\ bundle \in BundleRow
    /\ applied \subseteq Messages /\ mail \in Seq(Messages)
    /\ host \in {"up", "failing", "down"}
    /\ orders \in 0..MaxOrders /\ cuts \in 0..MaxCuts
BY DEF DryTypeOK, TestRow, BundleRow

\* A finite set of numbers can be listed in order.
LEMMA OrderExists ==
  ASSUME NEW S \in SUBSET Nat, IsFiniteSet(S)
  PROVE  \E q \in [1..Cardinality(S) -> S] : \A i \in DOMAIN q, j \in DOMAIN q : i < j => q[i] < q[j]
<1> DEFINE Ordered(T, q) == /\ q \in [1..Cardinality(T) -> T]
                            /\ \A i \in DOMAIN q, j \in DOMAIN q : i < j => q[i] < q[j]
           Bad == {n \in Nat : \E T \in SUBSET Nat : /\ IsFiniteSet(T) /\ Cardinality(T) = n
                                                    /\ ~\E q : Ordered(T, q)}
<1>1. ASSUME Bad # {} PROVE FALSE
  <2>1. PICK n \in Bad : \A k \in Bad : n <= k
    BY <1>1, Least
  <2>2. PICK T \in SUBSET Nat : IsFiniteSet(T) /\ Cardinality(T) = n /\ ~\E q : Ordered(T, q)
    BY <2>1
  <2>3. n \in Nat
    BY <2>1
  <2>4. n # 0
    <3>1. SUFFICES ASSUME n = 0 PROVE FALSE
      OBVIOUS
    <3>2. T = {}
      BY <2>2, <3>1, FS_EmptySet
    <3>3. PICK q : q = << >>
      OBVIOUS
    <3>4. q \in [1..Cardinality(T) -> T] /\ DOMAIN q = {}
      BY <2>2, <3>1, <3>2, <3>3
    <3> QED BY <2>2, <3>4
  <2>5. T # {}
    BY <2>2, <2>4, FS_EmptySet
  <2>6. PICK m \in T : \A x \in T : m <= x
    BY <2>5, Least
  <2>7. IsFiniteSet(T \ {m}) /\ Cardinality(T \ {m}) = n - 1
    BY <2>2, <2>6, FS_RemoveElement
  <2>8. n - 1 \in Nat /\ n - 1 \notin Bad
    BY <2>1, <2>3, <2>4
  <2>9. PICK q : Ordered(T \ {m}, q)
    BY <2>7, <2>8
  <2>10. q \in [1..(n - 1) -> T \ {m}] /\ DOMAIN q = 1..(n - 1)
         /\ \A i \in 1..(n - 1), j \in 1..(n - 1) : i < j => q[i] < q[j]
    BY <2>7, <2>9
  <2>11. PICK p : p = [i \in 1..n |-> IF i = 1 THEN m ELSE q[i - 1]]
    OBVIOUS
  <2>12. \A i \in 1..n : i # 1 => i - 1 \in 1..(n - 1)
    BY <2>3
  <2>13. p \in [1..n -> T] /\ DOMAIN p = 1..n
    BY <2>6, <2>10, <2>11, <2>12
  <2>14. ASSUME NEW i \in 1..n, NEW j \in 1..n, i < j PROVE p[i] < p[j]
    <3>1. j # 1 /\ p[j] = q[j - 1] /\ q[j - 1] \in T \ {m}
      BY <2>3, <2>10, <2>11, <2>12, <2>14
    <3>2. CASE i = 1
      <4>1. p[i] = m /\ m \in Nat /\ q[j - 1] \in Nat /\ m <= q[j - 1] /\ q[j - 1] # m
        BY <2>2, <2>6, <2>11, <3>1, <3>2
      <4> QED BY <3>1, <4>1
    <3>3. CASE i # 1
      <4>1. p[i] = q[i - 1]
        BY <2>11, <3>3
      <4>2. i - 1 \in 1..(n - 1) /\ j - 1 \in 1..(n - 1) /\ i - 1 < j - 1
        BY <2>3, <2>12, <2>14, <3>1, <3>3
      <4> QED BY <2>10, <3>1, <4>1, <4>2
    <3> QED BY <3>2, <3>3
  <2>15. Ordered(T, p)
    BY <2>2, <2>13, <2>14
  <2> QED BY <2>2, <2>15
<1>2. Cardinality(S) \in Nat
  BY FS_CardinalityType
<1> QED BY <1>1, <1>2

\* The list holds the nodes of the set, each once.
LEMMA InOrderIs ==
  ASSUME NEW S \in SUBSET Nodes
  PROVE  /\ InOrder(S) \in Seq(S) /\ InOrder(S) \in Seq(Nodes)
         /\ \A n : Has(InOrder(S), n) <=> n \in S
         /\ \A i \in DOMAIN InOrder(S), j \in DOMAIN InOrder(S) :
               InOrder(S)[i] = InOrder(S)[j] => i = j
         /\ \A i \in DOMAIN InOrder(S) : InOrder(S)[i] \in S
<1> DEFINE q == InOrder(S)
           k == Cardinality(S)
<1>1. IsFiniteSet(S) /\ S \in SUBSET Nat
  BY DryAssumption, FS_Subset
<1>2. k \in Nat
  BY <1>1, FS_CardinalityType
<1>3. q \in [1..k -> S] /\ \A i \in DOMAIN q, j \in DOMAIN q : i < j => q[i] < q[j]
  BY <1>1, OrderExists DEF InOrder
<1>4. DOMAIN q = 1..k /\ q \in Seq(S) /\ Len(q) = k
  BY <1>2, <1>3
<1>5. \A i \in DOMAIN q, j \in DOMAIN q : q[i] = q[j] => i = j
  <2> SUFFICES ASSUME NEW i \in 1..k, NEW j \in 1..k, q[i] = q[j], i # j PROVE FALSE
    BY <1>4
  <2>1. i < j \/ j < i
    BY <1>2
  <2>2. q[i] < q[j] \/ q[j] < q[i]
    BY <1>3, <1>4, <2>1
  <2>3. q[i] \in Nat /\ q[j] \in Nat
    BY <1>1, <1>3
  <2> QED BY <2>2, <2>3
<1>6. q \in Injection(1..k, S)
  BY <1>3, <1>4, <1>5 DEF Injection, IsInjective
<1>7. Cardinality(1..k) = k
  BY <1>2, FS_Interval
<1>8. q \in Surjection(1..k, S)
  BY <1>1, <1>6, <1>7, FS_Injection
<1>9. \A n : Has(q, n) <=> n \in S
  BY <1>3, <1>4, <1>8 DEF Surjection, Has
<1>10. q \in Seq(Nodes)
  BY <1>2, <1>3, <1>4, SeqDef
<1> QED BY <1>3, <1>4, <1>5, <1>9, <1>10

LEMMA MessageTypes ==
  /\ \A t \in Nat : Clock(t) \in Messages /\ Clock(t).kind = "clock" /\ Clock(t).time = t
  /\ \A n \in Nodes : Timer(n) \in Messages /\ Timer(n).kind = "timer" /\ Timer(n).node = n
                      /\ Timer(n).as = "simulated"
  /\ \A n \in Nodes, as \in Responses :
        /\ Fixture(n, as) \in Messages /\ Fixture(n, as).kind = "fixture"
        /\ Fixture(n, as).node = n /\ Fixture(n, as).as = as
        /\ Manual(n, as) \in Messages /\ Manual(n, as).kind = "manual"
        /\ Manual(n, as).node = n /\ Manual(n, as).as = as
  /\ \A kind \in {"start", "step", "continue", "pause", "resume"} :
        Order(kind) \in Messages /\ Order(kind).kind = kind
BY DEF Clock, Timer, Fixture, Manual, Order, Messages, Responses

\* What a driver asks for is in its order of messages, and nothing else.
LEMMA NextCommandsAre ==
  ASSUME NEW s \in TestRow, NEW b \in BundleRow
  PROVE  /\ NextCommands(s, b) \in Seq(Messages)
         /\ \A m : Has(NextCommands(s, b), m) <=>
               \/ DueTimes(s, b) # {} /\ m = Clock(Min(DueTimes(s, b)))
               \/ \E n \in DueTimers(s) : m = Timer(n)
               \/ \E n \in DueFixtures(s, b) : m = Fixture(n, Says(b, n))
         /\ DueTimes(s, b) # {} => /\ Min(DueTimes(s, b)) \in Nat
                                   /\ Min(DueTimes(s, b)) > s.clock
<1> DEFINE ofClock    == NextClock(s, b)
           timers   == InOrder(DueTimers(s))
           fixtures == InOrder(DueFixtures(s, b))
           ofTimers    == [i \in DOMAIN timers |-> Timer(timers[i])]
           ofFixtures == [i \in DOMAIN fixtures |-> Fixture(fixtures[i], Says(b, fixtures[i]))]
<1>1. DueTimers(s) \in SUBSET Nodes /\ DueFixtures(s, b) \in SUBSET Nodes
  BY DEF DueTimers, DueFixtures, Pending
<1>2. \A n \in Nodes : Says(b, n) \in Responses
  BY DEF Says, BundleRow, Responses
<1>3. /\ timers \in Seq(DueTimers(s)) /\ \A n : Has(timers, n) <=> n \in DueTimers(s)
      /\ fixtures \in Seq(DueFixtures(s, b)) /\ \A n : Has(fixtures, n) <=> n \in DueFixtures(s, b)
  BY <1>1, InOrderIs
<1>4. /\ DOMAIN timers = 1..Len(timers) /\ Len(timers) \in Nat
      /\ DOMAIN fixtures = 1..Len(fixtures) /\ Len(fixtures) \in Nat
      /\ \A i \in 1..Len(timers) : timers[i] \in Nodes
      /\ \A i \in 1..Len(fixtures) : fixtures[i] \in Nodes
  BY <1>1, <1>3
<1>5. ofTimers \in Seq(Messages)
  <2>1. \A i \in 1..Len(timers) : ofTimers[i] \in Messages
    BY <1>4, MessageTypes
  <2>2. ofTimers \in [1..Len(timers) -> Messages]
    BY <1>4, <2>1
  <2> QED BY <1>4, <2>2, SeqDef
<1>6. ofFixtures \in Seq(Messages)
  <2>1. \A i \in 1..Len(fixtures) : ofFixtures[i] \in Messages
    BY <1>2, <1>4, MessageTypes
  <2>2. ofFixtures \in [1..Len(fixtures) -> Messages]
    BY <1>4, <2>1
  <2> QED BY <1>4, <2>2, SeqDef
<1>7. \A m : Has(ofTimers, m) <=> \E n \in DueTimers(s) : m = Timer(n)
  <2>1. ASSUME NEW m, Has(ofTimers, m) PROVE \E n \in DueTimers(s) : m = Timer(n)
    BY <1>3, <1>4, <2>1 DEF Has
  <2>2. ASSUME NEW n \in DueTimers(s) PROVE Has(ofTimers, Timer(n))
    <3>1. PICK i \in DOMAIN timers : timers[i] = n
      BY <1>3 DEF Has
    <3> QED BY <3>1 DEF Has
  <2> QED BY <2>1, <2>2
<1>8. \A m : Has(ofFixtures, m) <=> \E n \in DueFixtures(s, b) : m = Fixture(n, Says(b, n))
  <2>1. ASSUME NEW m, Has(ofFixtures, m) PROVE \E n \in DueFixtures(s, b) : m = Fixture(n, Says(b, n))
    BY <1>3, <1>4, <2>1 DEF Has
  <2>2. ASSUME NEW n \in DueFixtures(s, b) PROVE Has(ofFixtures, Fixture(n, Says(b, n)))
    <3>1. PICK i \in DOMAIN fixtures : fixtures[i] = n
      BY <1>3 DEF Has
    <3> QED BY <3>1 DEF Has
  <2> QED BY <2>1, <2>2
<1>9. DueTimes(s, b) \in SUBSET Nat
  <2>1. \A n \in Nodes : s.due[n] \in Nat /\ Since(n) \in Nat
    BY DryAssumption DEF TestRow, Since
  <2> QED BY <2>1 DEF DueTimes, Pending
<1>10. DueTimes(s, b) # {} => /\ Min(DueTimes(s, b)) \in Nat
                              /\ Min(DueTimes(s, b)) > s.clock
  <2>1. DueTimes(s, b) # {} => Min(DueTimes(s, b)) \in DueTimes(s, b)
    BY <1>9, MinType
  <2> QED BY <1>9, <2>1 DEF DueTimes
<1>11. /\ ofClock \in Seq(Messages)
       /\ \A m : Has(ofClock, m) <=> DueTimes(s, b) # {} /\ m = Clock(Min(DueTimes(s, b)))
  <2>1. CASE DueTimes(s, b) = {}
    <3>1. ofClock = << >>
      BY <2>1 DEF NextClock
    <3> QED BY <2>1, <3>1 DEF Has
  <2>2. CASE DueTimes(s, b) # {}
    <3>1. PICK c \in Messages : c = Clock(Min(DueTimes(s, b)))
      BY <1>10, <2>2, MessageTypes
    <3>2. ofClock = <<c>>
      BY <2>2, <3>1 DEF NextClock
    <3> QED BY <2>2, <3>1, <3>2, SingletonType, HasOne
  <2> QED BY <2>1, <2>2
<1>12. NextCommands(s, b) = (ofClock \o ofTimers) \o ofFixtures
  BY DEF NextCommands
<1>x. PICK x \in Seq(Messages) : x = ofClock
  BY <1>11
<1>y. PICK y \in Seq(Messages) : y = ofTimers
  BY <1>5
<1>z. x \o y \in Seq(Messages)
  OBVIOUS
<1>13. PICK p \in Seq(Messages) : p = x \o y
  BY <1>z
<1>14. \A m : Has(p, m) <=> Has(ofClock, m) \/ Has(ofTimers, m)
  <2>1. \A m : Has(p, m) <=> Has(x, m) \/ Has(y, m)
    BY <1>13, HasConcat
  <2> QED BY <1>x, <1>y, <2>1
<1>15. PICK q \in Seq(Messages) : q = ofFixtures
  BY <1>6
<1>16. NextCommands(s, b) = p \o q
  BY <1>12, <1>13, <1>15, <1>x, <1>y
<1>17. /\ NextCommands(s, b) \in Seq(Messages)
       /\ \A m : Has(NextCommands(s, b), m) <=> Has(p, m) \/ Has(q, m)
  BY <1>16, HasConcat
<1> HIDE DEF ofClock, ofTimers, ofFixtures
<1> QED BY <1>7, <1>8, <1>10, <1>11, <1>14, <1>15, <1>17

LEMMA StepsAre ==
  ASSUME NEW s
  PROVE  /\ Steps(s) \in Seq(Messages)
         /\ \A m : Has(Steps(s), m) <=> CanAutoStep(s) /\ m = Order("step")
<1>1. CASE CanAutoStep(s)
  <2>1. PICK c \in Messages : c = Order("step")
    BY MessageTypes
  <2>2. Steps(s) = <<c>>
    BY <1>1, <2>1 DEF Steps
  <2> QED BY <1>1, <2>1, <2>2, SingletonType, HasOne
<1>2. CASE ~CanAutoStep(s)
  <2>1. Steps(s) = << >>
    BY <1>2 DEF Steps
  <2> QED BY <1>2, <2>1 DEF Has
<1> QED BY <1>1, <1>2

\* What is sent after a transition, and when a run is taken up again.
LEMMA FollowIs ==
  ASSUME NEW s \in TestRow, NEW b \in BundleRow
  PROVE  /\ Follow(s, b) \in Seq(Messages)
         /\ \A m : Has(Follow(s, b), m) <=> ~Over(s) /\ (Has(NextCommands(s, b), m) \/ Has(Steps(s), m))
<1>1. NextCommands(s, b) \in Seq(Messages) /\ Steps(s) \in Seq(Messages)
  BY NextCommandsAre, StepsAre
<1>2. CASE Over(s)
  <2>1. Follow(s, b) = << >>
    BY <1>2 DEF Follow
  <2> QED BY <1>2, <2>1 DEF Has
<1>3. CASE ~Over(s)
  <2>1. Follow(s, b) = NextCommands(s, b) \o Steps(s)
    BY <1>3 DEF Follow
  <2> QED BY <1>1, <1>3, <2>1, HasConcat
<1> QED BY <1>2, <1>3

\* What the driver asks for is right when it asks.
LEMMA FollowTimely ==
  ASSUME NEW s \in TestRow, NEW b \in BundleRow, EffectsFit(s, b),
         NEW m, Has(NextCommands(s, b), m) \/ Has(Steps(s), m)
  PROVE  Timely(s, m) /\ m.kind # "start"
<1>0. \A n \in Nodes : s.due[n] \in Nat /\ s.effect[n] \in {"none", "requested", "resolved"}
  BY DEF TestRow
<1>1. CASE Has(Steps(s), m)
  BY <1>1, StepsAre, MessageTypes DEF Timely
<1>2. CASE DueTimes(s, b) # {} /\ m = Clock(Min(DueTimes(s, b)))
  <2>1. m.kind = "clock"
    BY <1>2, NextCommandsAre, MessageTypes
  <2> QED BY <2>1 DEF Timely
<1>3. ASSUME NEW n \in DueTimers(s), m = Timer(n) PROVE Timely(s, m) /\ m.kind # "start"
  <2>1. n \in Nodes /\ s.effect[n] = "requested" /\ s.due[n] <= s.clock
    BY DEF DueTimers, Pending
  <2> QED BY <1>3, <2>1, MessageTypes DEF Timely
<1>4. ASSUME NEW n \in DueFixtures(s, b), m = Fixture(n, Says(b, n))
      PROVE  Timely(s, m) /\ m.kind # "start"
  <2>1. /\ n \in Nodes /\ s.effect[n] = "requested" /\ Says(b, n) # "none"
        /\ Since(n) <= s.clock /\ (IsTimer(n) => s.due[n] <= s.clock)
    BY DEF DueFixtures, Pending
  <2>2. Says(b, n) \in Responses /\ Says(b, n) # "simulated"
    BY <2>1 DEF Says, BundleRow, Responses, EffectsFit
  <2>3. s.due[n] <= s.clock
    <3>1. s.clock \in Nat
      BY DEF TestRow
    <3> QED BY <2>1, <3>1 DEF EffectsFit
  <2> QED BY <1>4, <2>1, <2>2, <2>3, MessageTypes DEF Timely
<1> QED BY <1>1, <1>2, <1>3, <1>4, NextCommandsAre

\* A test that has something to do asks for what was not applied.
LEMMA AsksForMore ==
  ASSUME NEW s \in TestRow, NEW b \in BundleRow, NEW A, HasToDo(s, b), KeptIn(s), AppliedIn(s, A)
  PROVE  \E m : (Has(NextCommands(s, b), m) \/ Has(Steps(s), m)) /\ m \notin A
<1>0. /\ \A n \in Nodes : s.due[n] \in Nat /\ s.effect[n] \in {"none", "requested", "resolved"}
      /\ s.clock \in Nat /\ \A n \in Nodes : Since(n) \in Nat
  BY DryAssumption DEF TestRow, Since
<1>1. CASE s.ready # << >>
  <2>1. Has(Steps(s), Order("step"))
    BY <1>1, StepsAre DEF HasToDo, CanAutoStep
  <2>2. Order("step") \notin A
    BY MessageTypes DEF AppliedIn
  <2> QED BY <2>1, <2>2
<1>2. CASE s.ready = << >>
  <2>1. {n \in Nodes : s.effect[n] # "resolved"} # {}
    BY <1>2 DEF HasToDo, Over
  <2>2. PICK n \in Nodes : /\ s.effect[n] # "resolved"
                          /\ \A k \in Nodes : s.effect[k] # "resolved" => n <= k
    <3>1. {k \in Nodes : s.effect[k] # "resolved"} \in SUBSET Nat
      BY DryAssumption
    <3> QED BY <2>1, <3>1, Least
  <2>3. \A k \in After[n] : s.effect[k] = "resolved"
    <3>1. \A k \in After[n] : k \in Nodes /\ k \in Nat /\ n \in Nat /\ k < n
      BY DryAssumption
    <3> QED BY <2>2, <3>1
  <2>4. s.effect[n] = "requested"
    <3>1. ~Has(s.ready, n)
      BY <1>2 DEF Has
    <3> QED BY <1>0, <2>2, <2>3, <3>1 DEF KeptIn, HasToDo
  <2>5. n \in Pending(s)
    BY <2>4 DEF Pending
  <2>6. CASE DueTimes(s, b) # {}
    <3>1. PICK t \in Nat : t = Min(DueTimes(s, b)) /\ t > s.clock
      BY <2>6, NextCommandsAre
    <3>2. Clock(t) \notin A
      BY <1>0, <3>1, MessageTypes DEF AppliedIn
    <3> QED BY <2>6, <3>1, <3>2, NextCommandsAre
  <2>7. CASE DueTimes(s, b) = {}
    <3>1. IsTimer(n) => ~(s.due[n] > s.clock)
      BY <2>5, <2>7 DEF DueTimes
    <3>2. Says(b, n) # "none" => ~(Since(n) > s.clock)
      BY <2>5, <2>7 DEF DueTimes
    <3>3. CASE IsTimer(n)
      <4>1. n \in DueTimers(s)
        BY <1>0, <2>5, <3>1, <3>3 DEF DueTimers
      <4>2. Timer(n) \notin A
        BY <2>4, MessageTypes DEF AppliedIn
      <4> QED BY <4>1, <4>2, NextCommandsAre
    <3>4. CASE ~IsTimer(n)
      <4>1. Says(b, n) # "none"
        BY <2>5, <3>4 DEF HasToDo
      <4>2. n \in DueFixtures(s, b)
        BY <1>0, <2>5, <3>2, <3>4, <4>1 DEF DueFixtures
      <4>3. Fixture(n, Says(b, n)) \notin A
        <5>1. Says(b, n) \in Responses
          BY DEF Says, BundleRow, Responses
        <5> QED BY <2>4, <5>1, MessageTypes DEF AppliedIn
      <4> QED BY <4>2, <4>3, NextCommandsAre
    <3> QED BY <3>3, <3>4
  <2> QED BY <2>6, <2>7
<1> QED BY <1>1, <1>2

\* What is right stays right while only the clock goes on and the flags change.
LEMMA TestGoesOn ==
  ASSUME NEW s \in TestRow, NEW q \in TestRow,
         q.there = s.there, q.ready = s.ready, q.effect = s.effect, q.due = s.due,
         q.as = s.as, q.when = s.when, q.clock >= s.clock
  PROVE  /\ ReadyOnce(s) => ReadyOnce(q)
         /\ \A b : EffectsFit(s, b) => EffectsFit(q, b)
         /\ KeptIn(s) => KeptIn(q)
         /\ \A A : TimeKept(s, A) => TimeKept(q, A)
         /\ \A m : Timely(s, m) => Timely(q, m)
         /\ \A A \in SUBSET Messages : AppliedIn(s, A) => AppliedIn(q, A)
<1>0. /\ s.clock \in Nat /\ q.clock \in Nat
      /\ \A n \in Nodes : s.due[n] \in Nat /\ Since(n) \in Nat
  BY DryAssumption DEF TestRow, Since
<1>1. ReadyOnce(s) => ReadyOnce(q)
  BY DEF ReadyOnce
<1>2. \A b : EffectsFit(s, b) => EffectsFit(q, b)
  BY DEF EffectsFit
<1>3. KeptIn(s) => KeptIn(q)
  BY DEF KeptIn
<1>4. \A A : TimeKept(s, A) => TimeKept(q, A)
  BY DEF TimeKept
<1>5. ASSUME NEW m, Timely(s, m) PROVE Timely(q, m)
  <2>1. m.node \in Nodes /\ s.due[m.node] <= s.clock => q.due[m.node] <= q.clock
    BY <1>0
  <2>2. m.node \in Nodes /\ Since(m.node) <= s.clock => Since(m.node) <= q.clock
    BY <1>0
  <2> QED BY <1>5, <2>1, <2>2 DEF Timely
<1>6. ASSUME NEW A \in SUBSET Messages, AppliedIn(s, A) PROVE AppliedIn(q, A)
  <2>1. \A c \in A : c.time \in Nat
    BY DEF Messages
  <2>2. \A c \in A : c.kind = "clock" => c.time <= q.clock
    BY <1>0, <1>6, <2>1 DEF AppliedIn
  <2> QED BY <1>6, <2>2 DEF AppliedIn
<1> QED BY <1>1, <1>2, <1>3, <1>4, <1>5, <1>6

\* A node starts.
LEMMA StepGoesOn ==
  ASSUME NEW s \in TestRow, ~s.paused, s.ready # << >>, ReadyOnce(s),
         NEW b, EffectsFit(s, b), KeptIn(s), s.there
  PROVE  /\ Stepped(s) \in TestRow /\ Stepped(s).there
         /\ Stepped(s).clock = s.clock
         /\ ReadyOnce(Stepped(s)) /\ EffectsFit(Stepped(s), b) /\ KeptIn(Stepped(s))
         /\ \A A : TimeKept(s, A) => TimeKept(Stepped(s), A)
         /\ \A m : Timely(s, m) => Timely(Stepped(s), m)
         /\ \A A : AppliedIn(s, A) => AppliedIn(Stepped(s), A)
<1>0. /\ s.clock \in Nat /\ s.ready \in Seq(Nodes)
      /\ s.effect \in [Nodes -> {"none", "requested", "resolved"}]
      /\ s.due \in [Nodes -> Nat] /\ s.as \in [Nodes -> Responses] /\ s.when \in [Nodes -> Nat]
      /\ s.there \in BOOLEAN /\ s.auto \in BOOLEAN /\ s.paused \in BOOLEAN
  BY DEF TestRow
<1>1. PICK n \in Nodes : n = Head(s.ready)
  BY <1>0
<1>2. PICK d \in Nat : d = IF IsTimer(n) THEN s.clock + Delay[n] ELSE 0
  BY <1>0, DryAssumption
<1>t. Tail(s.ready) \in Seq(Nodes)
  BY <1>0
<1>l. PICK rest \in Seq(Nodes) : rest = Tail(s.ready)
  BY <1>t
<1>3. PICK x : x = [s EXCEPT !.ready = rest]
  OBVIOUS
<1>4. /\ x \in TestRow /\ x.ready = rest /\ x.there = s.there /\ x.clock = s.clock
      /\ x.effect = s.effect /\ x.due = s.due /\ x.as = s.as /\ x.when = s.when
      /\ x.auto = s.auto /\ x.paused = s.paused
  BY <1>0, <1>3 DEF TestRow
<1>5. PICK y : y = [x EXCEPT !.effect = [s.effect EXCEPT ![n] = "requested"]]
  OBVIOUS
<1>6. /\ y \in TestRow /\ y.ready = rest /\ y.there = s.there /\ y.clock = s.clock
      /\ y.effect = [s.effect EXCEPT ![n] = "requested"]
      /\ y.due = s.due /\ y.as = s.as /\ y.when = s.when
      /\ y.auto = s.auto /\ y.paused = s.paused
  BY <1>0, <1>4, <1>5 DEF TestRow
<1>7. PICK q : q = [y EXCEPT !.due = [s.due EXCEPT ![n] = d]]
  OBVIOUS
<1>8. /\ q \in TestRow /\ q.ready = rest /\ q.there = s.there /\ q.clock = s.clock
      /\ q.effect = [s.effect EXCEPT ![n] = "requested"]
      /\ q.due = [s.due EXCEPT ![n] = d] /\ q.as = s.as /\ q.when = s.when
      /\ q.auto = s.auto /\ q.paused = s.paused
  BY <1>0, <1>6, <1>7 DEF TestRow
<1>9. Stepped(s) = q
  <2>1. Stepped(s) = [s EXCEPT !.ready = Tail(@), !.effect[n] = "requested", !.due[n] = d]
    BY <1>1, <1>2 DEF Stepped
  <2> QED BY <1>l, <1>3, <1>4, <1>5, <1>6, <1>7, <2>1
<1>10. /\ DOMAIN s.ready = 1..Len(s.ready) /\ Len(s.ready) \in Nat /\ Len(s.ready) # 0
       /\ DOMAIN q.ready = 1..(Len(s.ready) - 1)
       /\ \A i \in DOMAIN q.ready : i + 1 \in DOMAIN s.ready /\ q.ready[i] = s.ready[i + 1]
       /\ s.ready[1] = n /\ 1 \in DOMAIN s.ready
  <2>1. PICK queue \in Seq(Nodes) : queue = s.ready /\ queue # << >>
    BY <1>0
  <2>2. /\ DOMAIN queue = 1..Len(queue) /\ Len(queue) \in Nat /\ Len(queue) # 0
        /\ DOMAIN Tail(queue) = 1..(Len(queue) - 1)
        /\ \A i \in DOMAIN Tail(queue) : i + 1 \in DOMAIN queue /\ Tail(queue)[i] = queue[i + 1]
        /\ Head(queue) = queue[1] /\ 1 \in DOMAIN queue
    BY <2>1
  <2>3. q.ready = Tail(queue) /\ n = Head(queue)
    BY <1>1, <1>l, <1>8, <2>1
  <2> QED BY <2>1, <2>2, <2>3
<1>11. s.effect[n] = "none" /\ s.as[n] = "none" /\ Has(s.ready, n)
  BY <1>10 DEF ReadyOnce, EffectsFit, Has
<1>12. \A i \in DOMAIN q.ready : q.ready[i] # n /\ q.ready[i] \in Nodes
  <2>1. ASSUME NEW i \in DOMAIN q.ready PROVE q.ready[i] # n /\ q.ready[i] \in Nodes
    <3>1. q.ready[i] \in Nodes
      BY <1>8
    <3>2. i + 1 # 1 /\ i + 1 \in DOMAIN s.ready
      BY <1>10
    <3>3. s.ready[i + 1] # s.ready[1]
      BY <1>10, <3>2 DEF ReadyOnce
    <3> QED BY <1>10, <3>1, <3>3
  <2> QED BY <2>1
<1>13. /\ q.effect[n] = "requested" /\ q.due[n] = d
       /\ \A m \in Nodes : m # n => q.effect[m] = s.effect[m] /\ q.due[m] = s.due[m]
  BY <1>0, <1>8
<1>14. ReadyOnce(q)
  <2>1. ASSUME NEW i \in DOMAIN q.ready PROVE q.effect[q.ready[i]] = "none"
    <3>1. s.effect[s.ready[i + 1]] = "none"
      BY <1>10 DEF ReadyOnce
    <3> QED BY <1>10, <1>12, <1>13, <3>1
  <2>2. ASSUME NEW i \in DOMAIN q.ready, NEW j \in DOMAIN q.ready, q.ready[i] = q.ready[j]
        PROVE  i = j
    <3>1. i + 1 = j + 1
      BY <1>10, <2>2 DEF ReadyOnce
    <3> QED BY <1>10, <3>1
  <2> QED BY <2>1, <2>2 DEF ReadyOnce
<1>15. EffectsFit(q, b)
  <2>1. ASSUME NEW m \in Nodes
        PROVE  /\ q.effect[m] # "resolved" => q.as[m] = "none"
               /\ ~IsTimer(m) => q.due[m] = 0
               /\ b.added[m] # "simulated"
    <3>1. CASE m = n
      BY <1>2, <1>8, <1>11, <1>13, <3>1 DEF EffectsFit
    <3>2. CASE m # n
      BY <1>8, <1>13, <3>2 DEF EffectsFit
    <3> QED BY <3>1, <3>2
  <2> QED BY <2>1 DEF EffectsFit
<1>16. \A m \in Nodes : q.effect[m] = "resolved" <=> s.effect[m] = "resolved"
  BY <1>11, <1>13
<1>17. KeptIn(q)
  <2>1. ASSUME NEW m \in Nodes
        PROVE  (\A k \in After[m] : q.effect[k] = "resolved")
                  <=> (q.effect[m] # "none" \/ Has(q.ready, m))
    <3>1. After[m] \subseteq Nodes
      BY DryAssumption
    <3>2. (\A k \in After[m] : q.effect[k] = "resolved")
             <=> (s.effect[m] # "none" \/ Has(s.ready, m))
      BY <1>16, <3>1 DEF KeptIn
    <3>3. CASE m = n
      BY <1>11, <1>13, <3>2, <3>3
    <3>4. CASE m # n
      <4>1. Has(s.ready, m) => Has(q.ready, m)
        BY <1>0, <1>1, <1>l, <1>8, <3>4, HasTail
      <4>2. Has(q.ready, m) => Has(s.ready, m)
        BY <1>10 DEF Has
      <4> QED BY <1>13, <3>2, <3>4, <4>1, <4>2
    <3> QED BY <3>3, <3>4
  <2> QED BY <2>1 DEF KeptIn
<1>18. \A A : TimeKept(s, A) => TimeKept(q, A)
  <2>1. \A m \in Nodes : q.as[m] # "none" => m # n
    BY <1>8, <1>11
  <2> QED BY <1>8, <1>13, <2>1 DEF TimeKept
<1>19. ASSUME NEW m, Timely(s, m) PROVE Timely(q, m)
  <2>1. CASE m.kind \in {"timer", "fixture", "manual"}
    <3>1. m.node \in Nodes /\ m.node # n
      BY <1>11, <1>19, <2>1 DEF Timely
    <3> QED BY <1>8, <1>13, <1>19, <3>1 DEF Timely
  <2>2. CASE m.kind \notin {"timer", "fixture", "manual"}
    BY <2>2 DEF Timely
  <2> QED BY <2>1, <2>2
<1>20. \A A : AppliedIn(s, A) => AppliedIn(q, A)
  BY <1>8, <1>16 DEF AppliedIn
<1> QED BY <1>8, <1>9, <1>14, <1>15, <1>17, <1>18, <1>19, <1>20

\* An effect is answered.
LEMMA AnswerGoesOn ==
  ASSUME NEW n \in Nodes, NEW as \in Responses, test \in TestRow, test.there,
         test.effect[n] = "requested", ReadyOnce(test), NEW b, EffectsFit(test, b), KeptIn(test)
  PROVE  /\ Resolved(n, as) \in TestRow /\ Resolved(n, as).there
         /\ Resolved(n, as).effect[n] = "resolved" /\ Resolved(n, as).as[n] = as
         /\ Resolved(n, as).when[n] = test.clock
         /\ \A k \in Nodes : k # n => /\ Resolved(n, as).as[k] = test.as[k]
                                      /\ Resolved(n, as).when[k] = test.when[k]
         /\ Resolved(n, as).due = test.due /\ Resolved(n, as).clock = test.clock
         /\ ReadyOnce(Resolved(n, as)) /\ EffectsFit(Resolved(n, as), b)
         /\ KeptIn(Resolved(n, as))
         /\ \A m : Timely(test, m) => Timely(Resolved(n, as), m)
         /\ \A A : AppliedIn(test, A) => AppliedIn(Resolved(n, as), A)
<1>0. /\ test.clock \in Nat /\ test.ready \in Seq(Nodes)
      /\ test.effect \in [Nodes -> {"none", "requested", "resolved"}]
      /\ test.due \in [Nodes -> Nat] /\ test.as \in [Nodes -> Responses]
      /\ test.when \in [Nodes -> Nat]
      /\ test.there \in BOOLEAN /\ test.auto \in BOOLEAN /\ test.paused \in BOOLEAN
  BY DEF TestRow
<1>1. PICK x : x = [test EXCEPT !.effect = [test.effect EXCEPT ![n] = "resolved"]]
  OBVIOUS
<1>2. /\ x \in TestRow /\ x.effect = [test.effect EXCEPT ![n] = "resolved"]
      /\ x.ready = test.ready /\ x.there = test.there /\ x.clock = test.clock
      /\ x.due = test.due /\ x.as = test.as /\ x.when = test.when
      /\ x.auto = test.auto /\ x.paused = test.paused
  BY <1>0, <1>1 DEF TestRow
<1>3. PICK y : y = [x EXCEPT !.as = [test.as EXCEPT ![n] = as]]
  OBVIOUS
<1>4. /\ y \in TestRow /\ y.effect = [test.effect EXCEPT ![n] = "resolved"]
      /\ y.as = [test.as EXCEPT ![n] = as]
      /\ y.ready = test.ready /\ y.there = test.there /\ y.clock = test.clock
      /\ y.due = test.due /\ y.when = test.when
      /\ y.auto = test.auto /\ y.paused = test.paused
  BY <1>0, <1>2, <1>3 DEF TestRow
<1>5. PICK s : s = [y EXCEPT !.when = [test.when EXCEPT ![n] = test.clock]]
  OBVIOUS
<1>6. /\ s \in TestRow /\ s.effect = [test.effect EXCEPT ![n] = "resolved"]
      /\ s.as = [test.as EXCEPT ![n] = as] /\ s.when = [test.when EXCEPT ![n] = test.clock]
      /\ s.ready = test.ready /\ s.there = test.there /\ s.clock = test.clock
      /\ s.due = test.due /\ s.auto = test.auto /\ s.paused = test.paused
  BY <1>0, <1>4, <1>5 DEF TestRow
<1>7. s = [test EXCEPT !.effect[n] = "resolved", !.as[n] = as, !.when[n] = test.clock]
  BY <1>1, <1>2, <1>3, <1>4, <1>5
<1>8. PICK next \in SUBSET Nodes :
         next = {m \in Nodes : n \in After[m] /\ \A k \in After[m] : s.effect[k] = "resolved"}
  OBVIOUS
<1>9. PICK list : list = InOrder(next)
  OBVIOUS
<1>10. /\ list \in Seq(Nodes) /\ \A m : Has(list, m) <=> m \in next
       /\ \A i \in DOMAIN list, j \in DOMAIN list : list[i] = list[j] => i = j
       /\ \A i \in DOMAIN list : list[i] \in next
  BY <1>9, InOrderIs
<1>c. test.ready \o list \in Seq(Nodes)
  BY <1>0, <1>10
<1>11. PICK ready \in Seq(Nodes) : ready = test.ready \o list
  BY <1>c
<1>12. PICK q : q = [s EXCEPT !.ready = ready]
  OBVIOUS
<1>13. /\ q \in TestRow /\ q.effect = [test.effect EXCEPT ![n] = "resolved"]
       /\ q.as = [test.as EXCEPT ![n] = as] /\ q.when = [test.when EXCEPT ![n] = test.clock]
       /\ q.ready = ready /\ q.there = test.there /\ q.clock = test.clock
       /\ q.due = test.due /\ q.auto = test.auto /\ q.paused = test.paused
  BY <1>0, <1>6, <1>12 DEF TestRow
<1>14. Resolved(n, as) = q
  BY <1>6, <1>7, <1>8, <1>9, <1>11, <1>12 DEF Resolved
<1>15. /\ q.effect[n] = "resolved" /\ q.as[n] = as /\ q.when[n] = test.clock
       /\ \A m \in Nodes : m # n => /\ q.effect[m] = test.effect[m] /\ q.as[m] = test.as[m]
                                    /\ q.when[m] = test.when[m]
  <2>1. q.effect[n] = "resolved" /\ \A m \in Nodes : m # n => q.effect[m] = test.effect[m]
    BY <1>0, <1>13
  <2>2. q.as[n] = as /\ \A m \in Nodes : m # n => q.as[m] = test.as[m]
    <3>1. PICK was \in [Nodes -> Responses] : was = test.as
      BY <1>0
    <3>2. PICK becomes : becomes = [was EXCEPT ![n] = as]
      OBVIOUS
    <3>3. becomes[n] = as /\ \A m \in Nodes : m # n => becomes[m] = was[m]
      BY <3>1, <3>2
    <3>4. q.as = becomes
      BY <1>13, <3>1, <3>2
    <3> QED BY <3>1, <3>3, <3>4
  <2>3. q.when[n] = test.clock /\ \A m \in Nodes : m # n => q.when[m] = test.when[m]
    BY <1>0, <1>13
  <2> QED BY <2>1, <2>2, <2>3
<1>16. \A m \in Nodes : After[m] \subseteq Nodes /\ \A k \in After[m] : k # m
  <2>1. \A m \in Nodes : After[m] \subseteq Nodes /\ \A k \in After[m] : k < m
    BY DryAssumption
  <2>2. \A m \in Nodes : m \in Nat
    BY DryAssumption
  <2> QED BY <2>1, <2>2
<1>17. \A m \in next : m \in Nodes /\ m # n /\ test.effect[m] = "none" /\ ~Has(test.ready, m)
  <2>1. ASSUME NEW m \in next
        PROVE  m \in Nodes /\ m # n /\ test.effect[m] = "none" /\ ~Has(test.ready, m)
    <3>1. m \in Nodes /\ n \in After[m] /\ n # m
      BY <1>8, <1>16
    <3>2. ~ \A k \in After[m] : test.effect[k] = "resolved"
      BY <3>1
    <3> QED BY <1>0, <3>1, <3>2 DEF KeptIn
  <2> QED BY <2>1
<1>18. /\ DOMAIN test.ready = 1..Len(test.ready) /\ Len(test.ready) \in Nat
       /\ DOMAIN list = 1..Len(list) /\ Len(list) \in Nat
       /\ DOMAIN ready = 1..(Len(test.ready) + Len(list))
       /\ \A i \in 1..Len(test.ready) : ready[i] = test.ready[i]
       /\ \A i \in DOMAIN ready : i \notin 1..Len(test.ready) =>
             i - Len(test.ready) \in DOMAIN list /\ ready[i] = list[i - Len(test.ready)]
  <2>1. PICK left \in Seq(Nodes) : left = test.ready
    BY <1>0
  <2>2. PICK right \in Seq(Nodes) : right = list
    BY <1>10
  <2>3. ready = left \o right
    BY <1>11, <2>1, <2>2
  <2>4. /\ DOMAIN left = 1..Len(left) /\ Len(left) \in Nat /\ DOMAIN right = 1..Len(right) /\ Len(right) \in Nat
        /\ DOMAIN ready = 1..(Len(left) + Len(right))
    BY <2>3
  <2>5. \A i \in 1..Len(left) : ready[i] = left[i]
    BY <2>3, <2>4
  <2>6. ASSUME NEW i \in DOMAIN ready, i \notin 1..Len(left)
        PROVE  i - Len(left) \in DOMAIN right /\ ready[i] = right[i - Len(left)]
    BY <2>3, <2>4, <2>6
  <2> QED BY <2>1, <2>2, <2>4, <2>5, <2>6
<1>19. \A i \in 1..Len(test.ready) : /\ test.effect[test.ready[i]] = "none"
                                     /\ test.ready[i] \in Nodes /\ Has(test.ready, test.ready[i])
  <2>1. \A i \in 1..Len(test.ready) : test.ready[i] \in Nodes
    BY <1>0
  <2>2. \A i \in 1..Len(test.ready) : test.effect[test.ready[i]] = "none"
    BY <1>18 DEF ReadyOnce
  <2>3. \A i \in 1..Len(test.ready) : Has(test.ready, test.ready[i])
    BY <1>18 DEF Has
  <2> QED BY <2>1, <2>2, <2>3
<1>20. ReadyOnce(q)
  <2>1. ASSUME NEW i \in DOMAIN ready PROVE q.effect[ready[i]] = "none"
    <3>1. CASE i \in 1..Len(test.ready)
      BY <1>15, <1>18, <1>19, <3>1
    <3>2. CASE i \notin 1..Len(test.ready)
      <4>1. ready[i] \in next
        BY <1>10, <1>18, <3>2
      <4> QED BY <1>15, <1>17, <4>1
    <3> QED BY <3>1, <3>2
  <2>2. ASSUME NEW i \in DOMAIN ready, NEW j \in DOMAIN ready, ready[i] = ready[j] PROVE i = j
    <3>1. CASE i \in 1..Len(test.ready) /\ j \in 1..Len(test.ready)
      BY <1>18, <2>2, <3>1 DEF ReadyOnce
    <3>2. CASE i \notin 1..Len(test.ready) /\ j \notin 1..Len(test.ready)
      <4>1. i - Len(test.ready) = j - Len(test.ready)
        BY <1>10, <1>18, <2>2, <3>2
      <4> QED BY <1>18, <4>1
    <3>3. CASE i \in 1..Len(test.ready) /\ j \notin 1..Len(test.ready)
      <4>1. ready[j] \in next /\ Has(test.ready, ready[i])
        BY <1>10, <1>18, <1>19, <3>3
      <4> QED BY <1>17, <2>2, <4>1
    <3>4. CASE i \notin 1..Len(test.ready) /\ j \in 1..Len(test.ready)
      <4>1. ready[i] \in next /\ Has(test.ready, ready[j])
        BY <1>10, <1>18, <1>19, <3>4
      <4> QED BY <1>17, <2>2, <4>1
    <3> QED BY <3>1, <3>2, <3>3, <3>4
  <2> QED BY <1>13, <2>1, <2>2 DEF ReadyOnce
<1>21. EffectsFit(q, b)
  <2>1. ASSUME NEW m \in Nodes
        PROVE  /\ q.effect[m] # "resolved" => q.as[m] = "none"
               /\ ~IsTimer(m) => q.due[m] = 0
               /\ b.added[m] # "simulated"
    <3>1. /\ test.effect[m] # "resolved" => test.as[m] = "none"
          /\ ~IsTimer(m) => test.due[m] = 0
          /\ b.added[m] # "simulated"
      BY DEF EffectsFit
    <3>2. q.due[m] = test.due[m]
      BY <1>13
    <3>3. q.effect[m] # "resolved" => q.as[m] = "none"
      BY <1>15, <3>1
    <3> QED BY <3>1, <3>2, <3>3
  <2> QED BY <2>1 DEF EffectsFit
<1>22. KeptIn(q)
  <2>1. ASSUME NEW m \in Nodes
        PROVE  (\A k \in After[m] : q.effect[k] = "resolved")
                  <=> (q.effect[m] # "none" \/ Has(q.ready, m))
    <3>1. Has(q.ready, m) <=> Has(test.ready, m) \/ m \in next
      BY <1>0, <1>10, <1>11, <1>13, HasConcat
    <3>2. q.effect[m] # "none" <=> test.effect[m] # "none"
      BY <1>15
    <3>3. (\A k \in After[m] : test.effect[k] = "resolved")
             <=> (test.effect[m] # "none" \/ Has(test.ready, m))
      BY DEF KeptIn
    <3>4. CASE n \in After[m]
      <4>1. ~(test.effect[m] # "none" \/ Has(test.ready, m))
        BY <3>3, <3>4
      <4>2. m \in next <=> \A k \in After[m] : q.effect[k] = "resolved"
        BY <1>6, <1>8, <1>13, <3>4
      <4> QED BY <3>1, <3>2, <4>1, <4>2
    <3>5. CASE n \notin After[m]
      <4>1. \A k \in After[m] : q.effect[k] = test.effect[k]
        BY <1>15, <1>16, <3>5
      <4>2. m \notin next
        BY <1>8, <3>5
      <4> QED BY <3>1, <3>2, <3>3, <4>1, <4>2
    <3> QED BY <3>4, <3>5
  <2> QED BY <2>1 DEF KeptIn
<1>23. ASSUME NEW m, Timely(test, m) PROVE Timely(q, m)
  <2>1. CASE m.kind \in {"timer", "fixture", "manual"}
    <3>1. m.node \in Nodes /\ q.effect[m.node] # "none"
      BY <1>15, <1>23, <2>1 DEF Timely
    <3> QED BY <1>13, <1>23, <3>1 DEF Timely
  <2>2. CASE m.kind \notin {"timer", "fixture", "manual"}
    BY <2>2 DEF Timely
  <2> QED BY <2>1, <2>2
<1>24. \A A : AppliedIn(test, A) => AppliedIn(q, A)
  BY <1>13, <1>15 DEF AppliedIn
<1> QED BY <1>13, <1>14, <1>15, <1>20, <1>21, <1>22, <1>23, <1>24

\* What is sent after a transition is right, and goes on with the test.
LEMMA SendsRight ==
  ASSUME NEW s \in TestRow, NEW b \in BundleRow, NEW A \in SUBSET Messages,
         EffectsFit(s, b), KeptIn(s), AppliedIn(s, A),
         NEW rest \in Seq(Messages),
         \A i \in DOMAIN rest : Timely(s, rest[i]) /\ rest[i].kind # "start"
  PROVE  /\ rest \o Follow(s, b) \in Seq(Messages)
         /\ \A i \in DOMAIN (rest \o Follow(s, b)) :
               /\ Timely(s, (rest \o Follow(s, b))[i])
               /\ (rest \o Follow(s, b))[i].kind # "start"
         /\ HasToDo(s, b) => \E i \in DOMAIN (rest \o Follow(s, b)) : (rest \o Follow(s, b))[i] \notin A
<1>1. PICK more \in Seq(Messages) : more = Follow(s, b)
  BY FollowIs
<1>2. rest \o more \in Seq(Messages)
  OBVIOUS
<1>3. PICK box \in Seq(Messages) : box = rest \o more
  BY <1>2
<1>4. \A m : Has(box, m) <=> Has(rest, m) \/ Has(more, m)
  BY <1>3, HasConcat
<1>5. \A m : Has(more, m) <=> ~Over(s) /\ (Has(NextCommands(s, b), m) \/ Has(Steps(s), m))
  BY <1>1, FollowIs
<1>6. ASSUME NEW i \in DOMAIN box PROVE Timely(s, box[i]) /\ box[i].kind # "start"
  <2>1. Has(box, box[i])
    BY DEF Has
  <2>2. CASE Has(rest, box[i])
    BY <2>2 DEF Has
  <2>3. CASE Has(more, box[i])
    BY <1>5, <2>3, FollowTimely
  <2> QED BY <1>4, <2>1, <2>2, <2>3
<1>7. ASSUME HasToDo(s, b) PROVE \E i \in DOMAIN box : box[i] \notin A
  <2>1. PICK m : (Has(NextCommands(s, b), m) \/ Has(Steps(s), m)) /\ m \notin A
    BY <1>7, AsksForMore
  <2>2. Has(box, m)
    BY <1>4, <1>5, <1>7, <2>1 DEF HasToDo
  <2> QED BY <2>1, <2>2 DEF Has
<1> QED BY <1>1, <1>3, <1>6, <1>7

\* What is right of a test, the inbox apart.
RightOf(s, b, A) ==
    /\ s \in TestRow /\ b \in BundleRow /\ A \subseteq Messages /\ s.there
    /\ ReadyOnce(s) /\ EffectsFit(s, b) /\ KeptIn(s) /\ AppliedIn(s, A) /\ TimeKept(s, A)

\* A message is right, and does not start a test.
RightAsk(s, m) == m \in Messages /\ Timely(s, m) /\ m.kind # "start"

LEMMA InvIsRight ==
  ASSUME DryInv, test.there
  PROVE  /\ RightOf(test, bundle, applied)
         /\ mail \in Seq(Messages) /\ \A i \in DOMAIN mail : RightAsk(test, mail[i])
<1>1. DryTypeOK /\ StartInv
  BY DEF DryInv
<1>2. \A i \in DOMAIN mail : mail[i].kind # "start"
  BY <1>1 DEF StartInv
<1>3. \A i \in DOMAIN mail : mail[i] \in Messages
  BY <1>1, DryTypes
<1> QED BY <1>1, <1>2, <1>3, DryTypes DEF DryInv, RightOf, RightAsk

LEMMA RightIsInv ==
  ASSUME RightOf(test, bundle, applied)', (mail \in Seq(Messages))',
         \A i \in DOMAIN mail' : RightAsk(test, mail[i])',
         (host = "up" /\ HasToDo(test, bundle) => \E i \in DOMAIN mail : mail[i] \notin applied)',
         (host \in {"up", "failing", "down"} /\ orders \in 0..MaxOrders /\ cuts \in 0..MaxCuts)'
  PROVE  DryInv'
<1>1. DryTypeOK'
  BY DEF RightOf, DryTypeOK, TestRow, BundleRow
<1>2. StartInv'
  BY DEF RightOf, RightAsk, StartInv
<1>3. KeepsGoing'
  BY DEF KeepsGoing
<1> QED BY <1>1, <1>2, <1>3 DEF RightOf, RightAsk, DryInv

LEMMA TailIs ==
  ASSUME NEW S, NEW q \in Seq(S), q # << >>
  PROVE  /\ Tail(q) \in Seq(S) /\ \A i \in DOMAIN Tail(q) : Has(q, Tail(q)[i])
         /\ Head(q) \in S /\ 1 \in DOMAIN q /\ q[1] = Head(q) /\ Has(q, Head(q))
<1>1. Tail(q) \in Seq(S) /\ Head(q) \in S /\ 1 \in DOMAIN q /\ q[1] = Head(q)
  OBVIOUS
<1>2. \A i \in DOMAIN Tail(q) : i + 1 \in DOMAIN q /\ Tail(q)[i] = q[i + 1]
  OBVIOUS
<1> QED BY <1>1, <1>2 DEF Has

\* A transition that keeps what is right of the test keeps the invariant.
LEMMA CommitKeeps ==
  ASSUME DryInv, test.there, mail # << >>,
         NEW s, NEW more, Commits(s, more), RightOf(s, bundle', applied \cup more),
         \A m : Timely(test, m) => Timely(s, m)
  PROVE  DryInv'
<1>1. /\ test' = s /\ applied' = applied \cup more
      /\ mail' = Tail(mail) \o Follow(s, bundle') /\ UNCHANGED <<host, orders, cuts>>
  BY DEF Commits
<1>2. /\ mail \in Seq(Messages) /\ \A i \in DOMAIN mail : RightAsk(test, mail[i])
  BY InvIsRight
<1>3. PICK rest \in Seq(Messages) : rest = Tail(mail)
  BY <1>2, TailIs
<1>4. \A i \in DOMAIN rest : RightAsk(test, rest[i])
  BY <1>2, <1>3, TailIs DEF Has
<1>5. PICK b \in BundleRow : b = bundle'
  BY DEF RightOf
<1>6. PICK A \in SUBSET Messages : A = applied \cup more
  BY DEF RightOf
<1>7. /\ mail' \in Seq(Messages)
      /\ \A i \in DOMAIN mail' : Timely(s, mail'[i]) /\ mail'[i].kind # "start"
      /\ HasToDo(s, b) => \E i \in DOMAIN mail' : mail'[i] \notin A
  <2>1. \A i \in DOMAIN rest : Timely(s, rest[i]) /\ rest[i].kind # "start"
    BY <1>4 DEF RightAsk
  <2>2. EffectsFit(s, b) /\ KeptIn(s) /\ AppliedIn(s, A) /\ s \in TestRow
    BY <1>5, <1>6 DEF RightOf
  <2> QED BY <1>1, <1>3, <1>5, <2>1, <2>2, SendsRight
<1>8. \A i \in DOMAIN mail' : RightAsk(test', mail'[i])
  <2>1. \A i \in DOMAIN mail' : mail'[i] \in Messages
    BY <1>7
  <2> QED BY <1>1, <1>7, <2>1 DEF RightAsk
<1>9. /\ DryTypeOK /\ host' = host /\ orders' = orders /\ cuts' = cuts
  BY <1>1 DEF DryInv
<1>10. RightOf(test, bundle, applied)'
  BY <1>1
<1>11. host' \in {"up", "failing", "down"} /\ orders' \in 0..MaxOrders /\ cuts' \in 0..MaxCuts
  BY <1>9, DryTypes
<1> QED BY <1>1, <1>5, <1>6, <1>7, <1>8, <1>10, <1>11, RightIsInv

\* The test stands where it was; the inbox is emptied, or loses its first message.
LEMMA InboxKeeps ==
  ASSUME DryInv, test.there, test' = test, applied' = applied,
         RightOf(test, bundle', applied),
         \/ mail' = << >> /\ host' = "down"
         \/ mail # << >> /\ mail' = Tail(mail) /\ host' = "failing"
         \/ mail # << >> /\ mail' = Tail(mail) /\ host' = host /\ Head(mail) \in applied
            /\ bundle' = bundle,
         orders' \in 0..MaxOrders, cuts' \in 0..MaxCuts
  PROVE  DryInv'
<1>1. /\ mail \in Seq(Messages) /\ \A i \in DOMAIN mail : RightAsk(test, mail[i])
  BY InvIsRight
<1>2. mail' \in Seq(Messages) /\ \A i \in DOMAIN mail' : RightAsk(test, mail'[i])
  <2>1. CASE mail' = << >>
    BY <2>1
  <2>2. CASE mail # << >> /\ mail' = Tail(mail)
    BY <1>1, <2>2, TailIs DEF Has
  <2> QED BY <2>1, <2>2
<1>3. (host = "up" /\ HasToDo(test, bundle) => \E i \in DOMAIN mail : mail[i] \notin applied)'
  <2>1. SUFFICES ASSUME host' = "up", HasToDo(test', bundle')
                 PROVE  \E i \in DOMAIN mail' : mail'[i] \notin applied'
    OBVIOUS
  <2>2. /\ mail # << >> /\ mail' = Tail(mail) /\ host = "up" /\ Head(mail) \in applied
        /\ HasToDo(test, bundle)
    BY <2>1
  <2>3. PICK i \in DOMAIN mail : mail[i] \notin applied
    BY <2>2 DEF DryInv, KeepsGoing
  <2>4. Has(mail, mail[i]) /\ mail[i] # Head(mail)
    BY <2>2, <2>3 DEF Has
  <2>5. Has(Tail(mail), mail[i])
    BY <1>1, <2>2, <2>4, HasTail
  <2> QED BY <2>2, <2>3, <2>5 DEF Has
<1>4. host' \in {"up", "failing", "down"}
  <2>1. host \in {"up", "failing", "down"}
    BY DryTypes DEF DryInv
  <2> QED BY <2>1
<1>5. RightOf(test, bundle, applied)'
  OBVIOUS
<1>6. \A i \in DOMAIN mail' : RightAsk(test, mail[i])'
  BY <1>2
<1> QED BY <1>2, <1>3, <1>4, <1>5, <1>6, RightIsInv

\* A handler that is not the one of "start" runs for a test that is there.
LEMMA TakesOfTest ==
  ASSUME DryInv, NEW kinds, Takes(kinds), "start" \notin kinds
  PROVE  /\ test.there /\ mail # << >> /\ Head(mail).kind \in kinds
         /\ RightAsk(test, Head(mail)) /\ RightOf(test, bundle, applied)
<1>1. mail # << >> /\ Head(mail).kind \in kinds
  BY DEF Takes
<1>2. test.there
  <2>1. SUFFICES ASSUME ~test.there PROVE FALSE
    OBVIOUS
  <2>2. mail = <<Order("start")>>
    BY <1>1, <2>1 DEF DryInv, StartInv
  <2>3. PICK c : c = Order("start")
    OBVIOUS
  <2>4. Head(mail) = c
    BY <2>2, <2>3
  <2> QED BY <1>1, <2>3, <2>4, MessageTypes
<1>3. RightAsk(test, Head(mail)) /\ RightOf(test, bundle, applied)
  <2>1. mail \in Seq(Messages) /\ \A i \in DOMAIN mail : RightAsk(test, mail[i])
    BY <1>2, InvIsRight
  <2>2. 1 \in DOMAIN mail /\ mail[1] = Head(mail)
    BY <1>1, <2>1, TailIs
  <2> QED BY <1>2, <2>1, <2>2, InvIsRight
<1> QED BY <1>1, <1>2, <1>3

LEMMA DryStarts == DryInit => DryInv
<1> SUFFICES ASSUME DryInit PROVE DryInv
  OBVIOUS
<1>1. PICK none \in [Nodes -> {"none", "requested", "resolved"}] : none = [n \in Nodes |-> "none"]
  OBVIOUS
<1>2. PICK silent \in [Nodes -> Responses] : silent = [n \in Nodes |-> "none"]
  BY DEF Responses
<1>3. PICK zero \in [Nodes -> Nat] : zero = [n \in Nodes |-> 0]
  OBVIOUS
<1>e. << >> \in Seq(Nodes)
  OBVIOUS
<1>4. PICK empty \in Seq(Nodes) : empty = << >>
  BY <1>e
<1>5. test = [there |-> FALSE, auto |-> TRUE, paused |-> FALSE, clock |-> 0, ready |-> empty,
              effect |-> none, due |-> zero, as |-> silent, when |-> zero]
  BY <1>1, <1>2, <1>3, <1>4 DEF DryInit
<1>6. /\ test \in TestRow /\ ~test.there /\ ~test.paused /\ test.ready = << >>
      /\ test.effect = none /\ test.due = zero /\ test.as = silent /\ test.when = zero
  BY <1>4, <1>5 DEF TestRow
<1>7. bundle = [kept |-> FALSE, added |-> silent]
  BY <1>2 DEF DryInit
<1>8. bundle \in BundleRow /\ bundle.added = silent
  BY <1>7 DEF BundleRow
<1>9. PICK c \in Messages : c = Order("start")
  BY MessageTypes
<1>10. mail = <<c>> /\ c.kind = "start" /\ applied = {} /\ host = "up" /\ orders = 0 /\ cuts = 0
  BY <1>9, MessageTypes DEF DryInit
<1>11. DryTypeOK
  BY <1>6, <1>8, <1>10, DryTypes, DryAssumption
<1>12. StartInv
  BY <1>1, <1>6, <1>9, <1>10 DEF StartInv
<1>13. KeepsGoing
  BY <1>6 DEF KeepsGoing, HasToDo
<1>14. ReadyOnce(test) /\ EffectsFit(test, bundle) /\ KeptIn(test)
  BY <1>1, <1>2, <1>3, <1>6, <1>8 DEF ReadyOnce, EffectsFit, KeptIn
<1>15. \A i \in DOMAIN mail : Timely(test, mail[i])
  BY <1>10 DEF Timely
<1>16. AppliedIn(test, applied) /\ TimeKept(test, applied)
  BY <1>2, <1>6, <1>10 DEF AppliedIn, TimeKept
<1> QED BY <1>11, <1>12, <1>13, <1>14, <1>15, <1>16 DEF DryInv

\* A test that has just begun.
LEMMA BegunIs ==
  ASSUME DryInv, ~test.there, NEW auto \in BOOLEAN, NEW b \in BundleRow,
         b.added = bundle.added
  PROVE  RightOf(Begun(auto), b, applied) /\ applied = {}
<1>0. /\ test \in TestRow /\ bundle \in BundleRow /\ applied = {} /\ ~test.paused
      /\ \A n \in Nodes : test.effect[n] = "none" /\ test.as[n] = "none"
      /\ \A n \in Nodes : ~IsTimer(n) => test.due[n] = 0
      /\ \A n \in Nodes : bundle.added[n] # "simulated"
  BY DryTypes DEF DryInv, StartInv, EffectsFit
<1>1. PICK first \in SUBSET Nodes : first = {n \in Nodes : After[n] = {}}
  OBVIOUS
<1>2. PICK list : list = InOrder(first)
  OBVIOUS
<1>3. /\ list \in Seq(Nodes) /\ \A m : Has(list, m) <=> m \in first
      /\ \A i \in DOMAIN list, j \in DOMAIN list : list[i] = list[j] => i = j
      /\ \A i \in DOMAIN list : list[i] \in first
  BY <1>2, InOrderIs
<1>4. PICK x : x = [test EXCEPT !.there = TRUE]
  OBVIOUS
<1>5. /\ x \in TestRow /\ x.there /\ x.effect = test.effect /\ x.due = test.due
      /\ x.as = test.as /\ x.when = test.when /\ x.clock = test.clock
  BY <1>0, <1>4 DEF TestRow
<1>6. PICK y : y = [x EXCEPT !.auto = auto]
  OBVIOUS
<1>7. /\ y \in TestRow /\ y.there /\ y.effect = test.effect /\ y.due = test.due
      /\ y.as = test.as /\ y.when = test.when /\ y.clock = test.clock
  BY <1>5, <1>6 DEF TestRow
<1>8. PICK s : s = [y EXCEPT !.ready = list]
  OBVIOUS
<1>9. /\ s \in TestRow /\ s.there /\ s.effect = test.effect /\ s.due = test.due
      /\ s.as = test.as /\ s.when = test.when /\ s.clock = test.clock /\ s.ready = list
  BY <1>3, <1>7, <1>8 DEF TestRow
<1>10. Begun(auto) = s
  BY <1>1, <1>2, <1>4, <1>6, <1>8 DEF Begun
<1>11. \A i \in DOMAIN list : list[i] \in Nodes
  BY <1>1, <1>3
<1>12. ReadyOnce(s)
  BY <1>0, <1>3, <1>9, <1>11 DEF ReadyOnce
<1>13. EffectsFit(s, b)
  BY <1>0, <1>9 DEF EffectsFit
<1>14. KeptIn(s)
  <2>1. ASSUME NEW n \in Nodes
        PROVE  (\A k \in After[n] : s.effect[k] = "resolved")
                  <=> (s.effect[n] # "none" \/ Has(s.ready, n))
    <3>1. After[n] \subseteq Nodes
      BY DryAssumption
    <3>2. \A k \in After[n] : s.effect[k] # "resolved"
      BY <1>0, <1>9, <3>1
    <3>3. Has(s.ready, n) <=> After[n] = {}
      BY <1>1, <1>3, <1>9
    <3> QED BY <1>0, <1>9, <3>2, <3>3
  <2> QED BY <2>1 DEF KeptIn
<1>15. AppliedIn(s, applied) /\ TimeKept(s, applied)
  BY <1>0, <1>9 DEF AppliedIn, TimeKept
<1> QED BY <1>0, <1>9, <1>10, <1>12, <1>13, <1>14, <1>15 DEF RightOf

\* The two ways in which a test starts.
LEMMA BeginKeeps ==
  ASSUME DryInv, NEW auto \in BOOLEAN, DryStart(auto) \/ DryStartCut(auto)
  PROVE  DryInv'
<1>1. /\ mail # << >> /\ Head(mail).kind = "start" /\ test' = Begun(auto) /\ applied' = applied
      /\ orders' = orders /\ host \in {"up", "failing"}
  BY DEF DryStart, DryStartCut, Takes
<1>2. ~test.there
  <2>1. SUFFICES ASSUME test.there PROVE FALSE
    OBVIOUS
  <2>2. mail \in Seq(Messages) /\ \A i \in DOMAIN mail : RightAsk(test, mail[i])
    BY <2>1, InvIsRight
  <2>3. 1 \in DOMAIN mail /\ mail[1] = Head(mail)
    BY <1>1, <2>2, TailIs
  <2> QED BY <1>1, <2>2, <2>3 DEF RightAsk
<1>t. /\ bundle \in BundleRow /\ applied \in SUBSET Messages /\ orders \in 0..MaxOrders
      /\ cuts \in 0..MaxCuts
  BY DryTypes DEF DryInv
<1>3. CASE DryStart(auto)
  <2>1. /\ bundle' = [bundle EXCEPT !.kept = TRUE]
        /\ mail' = Tail(mail) \o Follow(Begun(auto), bundle') /\ UNCHANGED <<host, cuts>>
    BY <1>3 DEF DryStart
  <2>2. PICK b \in BundleRow : b = bundle' /\ b.added = bundle.added
    <3>1. PICK c : c = [bundle EXCEPT !.kept = TRUE]
      OBVIOUS
    <3>2. c \in BundleRow /\ c.added = bundle.added
      BY <1>t, <3>1 DEF BundleRow
    <3> QED BY <2>1, <3>1, <3>2
  <2>3. PICK s : s = Begun(auto)
    OBVIOUS
  <2>4. RightOf(s, b, applied) /\ applied = {}
    BY <1>2, <2>2, <2>3, BegunIs
  <2>e. << >> \in Seq(Messages)
    OBVIOUS
  <2>5. PICK rest \in Seq(Messages) : rest = << >>
    BY <2>e
  <2>6. mail = <<Order("start")>>
    BY <1>1, <1>2 DEF DryInv, StartInv
  <2>7. Tail(mail) = rest
    BY <2>5, <2>6
  <2>8. /\ mail' \in Seq(Messages)
        /\ \A i \in DOMAIN mail' : Timely(s, mail'[i]) /\ mail'[i].kind # "start"
        /\ HasToDo(s, b) => \E i \in DOMAIN mail' : mail'[i] \notin applied
    <3>1. \A i \in DOMAIN rest : Timely(s, rest[i]) /\ rest[i].kind # "start"
      BY <2>5
    <3>2. EffectsFit(s, b) /\ KeptIn(s) /\ AppliedIn(s, applied) /\ s \in TestRow
      BY <2>4 DEF RightOf
    <3>3. mail' = rest \o Follow(s, b)
      BY <2>1, <2>2, <2>3, <2>7
    <3> QED BY <1>t, <3>1, <3>2, <3>3, SendsRight
  <2>9. \A i \in DOMAIN mail' : RightAsk(test', mail'[i])
    <3>1. \A i \in DOMAIN mail' : mail'[i] \in Messages
      BY <2>8
    <3> QED BY <1>1, <2>3, <2>8, <3>1 DEF RightAsk
  <2>10. host' \in {"up", "failing", "down"} /\ orders' \in 0..MaxOrders /\ cuts' \in 0..MaxCuts
    BY <1>1, <1>t, <2>1
  <2> QED BY <1>1, <2>2, <2>3, <2>4, <2>8, <2>9, <2>10, RightIsInv
<1>4. CASE DryStartCut(auto)
  <2>1. /\ bundle' = bundle /\ mail' = << >> /\ host' = "down" /\ cuts' = cuts + 1 /\ cuts < MaxCuts
    BY <1>4 DEF DryStartCut
  <2>2. PICK s : s = Begun(auto)
    OBVIOUS
  <2>3. RightOf(s, bundle, applied)
    BY <1>2, <1>t, <2>2, BegunIs
  <2>4. cuts' \in 0..MaxCuts
    BY <1>t, <2>1, DryAssumption
  <2>5. mail' \in Seq(Messages) /\ DOMAIN mail' = {}
    BY <2>1
  <2> QED BY <1>1, <1>t, <2>1, <2>2, <2>3, <2>4, <2>5, RightIsInv
<1> QED BY <1>1, <1>3, <1>4

\* A command is taken as answered: the test waits for its effect, or has this answer.
LEMMA AnswerKeeps ==
  ASSUME DryInv, test.there, mail # << >>, NEW c \in Messages, RightAsk(test, c), Answers(c),
         c.kind \in {"timer", "fixture", "manual"}, RightOf(test, bundle', applied)
  PROVE  DryInv'
<1>t. /\ test \in TestRow /\ applied \in SUBSET Messages /\ orders \in 0..MaxOrders
      /\ cuts \in 0..MaxCuts
  BY DryTypes DEF DryInv
<1>n. PICK n \in Nodes : n = c.node
  BY DEF RightAsk, Timely
<1>as. PICK as \in Responses : as = c.as
  BY DEF Messages
<1>1. CASE test.effect[n] = "none" \/ (test.effect[n] = "resolved" /\ test.as[n] # as)
  <2>1. Throws
    BY <1>n, <1>as, <1>1 DEF Answers
  <2>2. /\ test' = test /\ applied' = applied /\ mail' = Tail(mail) /\ host' = "failing"
        /\ orders' = orders /\ cuts' = cuts
    BY <2>1 DEF Throws
  <2> QED BY <1>t, <2>2, InboxKeeps
<1>2. CASE test.effect[n] = "resolved" /\ test.as[n] = as
  <2>1. Commits(test, {c})
    BY <1>n, <1>as, <1>2 DEF Answers
  <2>2. AppliedIn(test, applied \cup {c})
    BY <1>n, <1>2 DEF RightOf, AppliedIn
  <2>3. TimeKept(test, applied \cup {c})
    BY DEF RightOf, TimeKept
  <2>4. RightOf(test, bundle', applied \cup {c})
    BY <2>2, <2>3 DEF RightOf
  <2> QED BY <2>1, <2>4, CommitKeeps
<1>3. CASE test.effect[n] = "requested"
  <2>1. PICK s : s = Resolved(n, as)
    OBVIOUS
  <2>2. Commits(s, {c})
    BY <1>n, <1>as, <1>3, <2>1 DEF Answers
  <2>3. /\ s \in TestRow /\ s.there
        /\ s.effect[n] = "resolved" /\ s.as[n] = as /\ s.when[n] = test.clock
        /\ \A k \in Nodes : k # n => s.as[k] = test.as[k] /\ s.when[k] = test.when[k]
        /\ s.due = test.due
        /\ ReadyOnce(s) /\ EffectsFit(s, bundle') /\ KeptIn(s)
        /\ \A m : Timely(test, m) => Timely(s, m)
        /\ AppliedIn(s, applied)
    <3>1. PICK b : b = bundle'
      OBVIOUS
    <3>2. /\ ReadyOnce(test) /\ EffectsFit(test, b) /\ KeptIn(test)
          /\ AppliedIn(test, applied)
      BY <3>1 DEF RightOf
    <3>3. /\ s \in TestRow /\ s.there
          /\ s.effect[n] = "resolved" /\ s.as[n] = as /\ s.when[n] = test.clock
          /\ \A k \in Nodes : k # n => s.as[k] = test.as[k] /\ s.when[k] = test.when[k]
          /\ s.due = test.due
      <4>1. s \in TestRow /\ s.there /\ s.effect[n] = "resolved" /\ s.due = test.due
        BY <1>t, <1>3, <2>1, <3>2, AnswerGoesOn
      <4>2. s.as[n] = as /\ s.when[n] = test.clock
        BY <1>t, <1>3, <2>1, <3>2, AnswerGoesOn
      <4>3. \A k \in Nodes : k # n => s.as[k] = test.as[k] /\ s.when[k] = test.when[k]
        <5>1. \A k \in Nodes : k # n => /\ Resolved(n, as).as[k] = test.as[k]
                                        /\ Resolved(n, as).when[k] = test.when[k]
          BY <1>t, <1>3, <3>2, AnswerGoesOn
        <5> QED BY <2>1, <5>1
      <4> QED BY <4>1, <4>2, <4>3
    <3>4. ReadyOnce(s) /\ EffectsFit(s, b) /\ KeptIn(s)
      BY <1>t, <1>3, <2>1, <3>2, AnswerGoesOn
    <3>5. /\ \A m : Timely(test, m) => Timely(s, m)
          /\ \A A : AppliedIn(test, A) => AppliedIn(s, A)
      BY <1>t, <1>3, <2>1, <3>2, AnswerGoesOn
    <3> QED BY <3>1, <3>2, <3>3, <3>4, <3>5
  <2>4. AppliedIn(s, applied \cup {c})
    BY <1>n, <2>3 DEF AppliedIn
  <2>5. TimeKept(s, applied \cup {c})
    <3>1. ASSUME NEW k \in Nodes
          PROVE  /\ s.as[k] = "simulated" => s.when[k] >= s.due[k]
                 /\ s.as[k] = "fixture" /\ Manual(k, "fixture") \notin applied \cup {c} =>
                       s.when[k] >= s.due[k] /\ s.when[k] >= Since(k)
      <4>1. CASE k # n
        BY <2>3, <4>1 DEF RightOf, TimeKept
      <4>2. CASE k = n
        <5>1. test.clock \in Nat /\ test.due[n] \in Nat /\ Since(n) \in Nat
          BY <1>t, DryAssumption DEF TestRow, Since
        <5>2. CASE c.kind = "timer"
          <6>1. as = "simulated" /\ test.due[n] <= test.clock
            BY <1>n, <1>as, <5>2 DEF RightAsk, Timely
          <6> QED BY <2>3, <4>2, <5>1, <6>1
        <5>3. CASE c.kind = "fixture"
          <6>1. as # "simulated" /\ test.due[n] <= test.clock /\ Since(n) <= test.clock
            BY <1>n, <1>as, <5>3 DEF RightAsk, Timely
          <6> QED BY <2>3, <4>2, <5>1, <6>1
        <5>4. CASE c.kind = "manual"
          <6>1. as \in {"fixture", "other"} /\ c = Manual(n, as)
            BY <1>n, <1>as, <5>4 DEF RightAsk, Timely
          <6> QED BY <2>3, <4>2, <6>1
        <5> QED BY <5>2, <5>3, <5>4
      <4> QED BY <4>1, <4>2
    <3> QED BY <3>1 DEF TimeKept
  <2>6. RightOf(s, bundle', applied \cup {c})
    BY <2>3, <2>4, <2>5 DEF RightOf
  <2> QED BY <2>2, <2>3, <2>6, CommitKeeps
<1>4. test.effect[n] \in {"none", "requested", "resolved"}
  BY <1>t DEF TestRow
<1> QED BY <1>1, <1>2, <1>3, <1>4

LEMMA DryKept ==
  ASSUME DryInv, [DryNext]_dryVars
  PROVE  DryInv'
<1>t. /\ test \in TestRow /\ bundle \in BundleRow /\ applied \in SUBSET Messages
      /\ mail \in Seq(Messages) /\ host \in {"up", "failing", "down"}
      /\ orders \in 0..MaxOrders /\ cuts \in 0..MaxCuts
  BY DryTypes DEF DryInv
<1>1. CASE UNCHANGED dryVars
  BY <1>1 DEF dryVars, DryInv, DryTypeOK, StartInv, KeepsGoing, RightOf
<1>2. ASSUME NEW auto \in BOOLEAN, DryStart(auto) \/ DryStartCut(auto) PROVE DryInv'
  BY <1>2, BeginKeeps
<1>3. CASE Step
  <2>1. Takes({"step", "continue"}) /\ bundle' = bundle
    BY <1>3 DEF Step
  <2>2. test.there /\ mail # << >> /\ RightOf(test, bundle, applied)
    BY <2>1, TakesOfTest
  <2>3. PICK x : x = Stepped(test)
    OBVIOUS
  <2>4. PICK auto \in BOOLEAN : auto = (x.auto \/ Head(mail).kind = "continue")
    OBVIOUS
  <2>5. PICK s : s = [x EXCEPT !.auto = auto]
    OBVIOUS
  <2>6. Commits(s, {})
    BY <1>3, <2>3, <2>4, <2>5 DEF Step
  <2>7. RightOf(x, bundle, applied) /\ \A m : Timely(test, m) => Timely(x, m)
    <3>1. CASE test.paused \/ test.ready = << >>
      <4>1. x = test
        BY <2>3, <3>1 DEF Stepped
      <4> QED BY <2>2, <4>1
    <3>2. CASE ~test.paused /\ test.ready # << >>
      BY <2>2, <2>3, <3>2, StepGoesOn DEF RightOf
    <3> QED BY <3>1, <3>2
  <2>8. /\ s \in TestRow /\ s.there = x.there /\ s.ready = x.ready /\ s.effect = x.effect
        /\ s.due = x.due /\ s.as = x.as /\ s.when = x.when /\ s.clock = x.clock
        /\ x.clock \in Nat /\ x \in TestRow
    BY <2>5, <2>7 DEF RightOf, TestRow
  <2>9. RightOf(s, bundle, applied) /\ \A m : Timely(x, m) => Timely(s, m)
    <3>1. s.clock >= x.clock
      BY <2>8
    <3> QED BY <1>t, <2>7, <2>8, <3>1, TestGoesOn DEF RightOf
  <2>10. RightOf(s, bundle', applied \cup {})
    <3>1. applied \cup {} = applied
      OBVIOUS
    <3> QED BY <2>1, <2>9, <3>1
  <2> QED BY <2>2, <2>6, <2>7, <2>9, <2>10, CommitKeeps
<1>4. CASE Pause
  <2>1. Takes({"pause", "resume"}) /\ bundle' = bundle
    BY <1>4 DEF Pause
  <2>2. test.there /\ mail # << >> /\ RightOf(test, bundle, applied)
    BY <2>1, TakesOfTest
  <2>3. PICK paused \in BOOLEAN : paused = (Head(mail).kind = "pause")
    OBVIOUS
  <2>4. PICK s : s = [test EXCEPT !.paused = paused]
    OBVIOUS
  <2>5. Commits(s, {})
    BY <1>4, <2>3, <2>4 DEF Pause
  <2>6. /\ s \in TestRow /\ s.there = test.there /\ s.ready = test.ready /\ s.effect = test.effect
        /\ s.due = test.due /\ s.as = test.as /\ s.when = test.when /\ s.clock = test.clock
        /\ test.clock \in Nat
    BY <1>t, <2>4 DEF TestRow
  <2>7. RightOf(s, bundle, applied) /\ \A m : Timely(test, m) => Timely(s, m)
    <3>1. s.clock >= test.clock
      BY <2>6
    <3> QED BY <1>t, <2>2, <2>6, <3>1, TestGoesOn DEF RightOf
  <2>8. RightOf(s, bundle', applied \cup {})
    <3>1. applied \cup {} = applied
      OBVIOUS
    <3> QED BY <2>1, <2>7, <3>1
  <2> QED BY <2>2, <2>5, <2>7, <2>8, CommitKeeps
<1>5. CASE AdvanceClock
  <2>1. Takes({"clock"}) /\ bundle' = bundle
    BY <1>5 DEF AdvanceClock
  <2>2. /\ test.there /\ mail # << >> /\ RightOf(test, bundle, applied)
        /\ Head(mail).kind = "clock"
    BY <2>1, TakesOfTest
  <2>3. PICK c \in Messages : c = Head(mail)
    BY <1>t, <2>2, TailIs
  <2>4. c.time \in Nat /\ test.clock \in Nat
    BY <1>t DEF Messages, TestRow
  <2>5. CASE c \in applied
    <3>1. Returns
      BY <1>5, <2>3, <2>5 DEF AdvanceClock
    <3>2. /\ mail' = Tail(mail) /\ test' = test /\ applied' = applied /\ host' = host
          /\ orders' = orders /\ cuts' = cuts
      BY <3>1 DEF Returns
    <3> QED BY <1>t, <2>1, <2>2, <2>3, <2>5, <3>2, InboxKeeps
  <2>6. CASE c \notin applied /\ c.time < test.clock
    <3>1. Throws
      BY <1>5, <2>3, <2>6 DEF AdvanceClock
    <3>2. /\ mail' = Tail(mail) /\ test' = test /\ applied' = applied /\ host' = "failing"
          /\ orders' = orders /\ cuts' = cuts
      BY <3>1 DEF Throws
    <3> QED BY <1>t, <2>1, <2>2, <3>2, InboxKeeps
  <2>7. CASE c \notin applied /\ ~(c.time < test.clock)
    <3>1. PICK time \in Nat : time = c.time
      BY <2>4
    <3>2. PICK s : s = [test EXCEPT !.clock = time]
      OBVIOUS
    <3>3. Commits(s, {c})
      BY <1>5, <2>3, <2>7, <3>1, <3>2 DEF AdvanceClock
    <3>4. /\ s \in TestRow /\ s.there = test.there /\ s.ready = test.ready
          /\ s.effect = test.effect /\ s.due = test.due /\ s.as = test.as /\ s.when = test.when
          /\ s.clock = time
      BY <1>t, <3>2 DEF TestRow
    <3>5. RightOf(s, bundle, applied) /\ \A m : Timely(test, m) => Timely(s, m)
      <4>1. s.clock >= test.clock
        BY <2>4, <2>7, <3>1, <3>4
      <4> QED BY <1>t, <2>2, <3>4, <4>1, TestGoesOn DEF RightOf
    <3>6. AppliedIn(s, applied \cup {c})
      <4>1. c.time <= s.clock /\ c.kind = "clock"
        BY <2>2, <2>3, <3>1, <3>4
      <4> QED BY <3>5, <4>1 DEF RightOf, AppliedIn
    <3>7. TimeKept(s, applied \cup {c})
      BY <3>5 DEF RightOf, TimeKept
    <3>8. RightOf(s, bundle', applied \cup {c})
      BY <2>1, <3>5, <3>6, <3>7 DEF RightOf
    <3> QED BY <2>2, <3>3, <3>5, <3>8, CommitKeeps
  <2> QED BY <2>5, <2>6, <2>7
<1>6. CASE Resolve
  <2>1. Takes({"timer", "fixture"}) /\ bundle' = bundle
    BY <1>6 DEF Resolve
  <2>2. /\ test.there /\ mail # << >> /\ RightOf(test, bundle, applied)
        /\ Head(mail).kind \in {"timer", "fixture"} /\ RightAsk(test, Head(mail))
    BY <2>1, TakesOfTest
  <2>3. PICK c \in Messages : c = Head(mail)
    BY <1>t, <2>2, TailIs
  <2>4. CASE c \in applied
    <3>1. Returns
      BY <1>6, <2>3, <2>4 DEF Resolve
    <3>2. /\ mail' = Tail(mail) /\ test' = test /\ applied' = applied /\ host' = host
          /\ orders' = orders /\ cuts' = cuts
      BY <3>1 DEF Returns
    <3> QED BY <1>t, <2>1, <2>2, <2>3, <2>4, <3>2, InboxKeeps
  <2>5. CASE c \notin applied
    <3>1. Answers(c)
      BY <1>6, <2>3, <2>5 DEF Resolve
    <3> QED BY <2>1, <2>2, <2>3, <3>1, AnswerKeeps
  <2> QED BY <2>4, <2>5
<1>7. ASSUME Takes({"manual"}), AddFixture(Head(mail))
      PROVE  /\ test.there /\ mail # << >> /\ RightOf(test, bundle', applied)
             /\ Head(mail).kind = "manual" /\ RightAsk(test, Head(mail))
  <2>1. /\ test.there /\ mail # << >> /\ RightOf(test, bundle, applied)
        /\ Head(mail).kind = "manual" /\ RightAsk(test, Head(mail))
    BY <1>7, TakesOfTest
  <2>2. PICK c \in Messages : c = Head(mail)
    BY <1>t, <2>1, TailIs
  <2>3. PICK n \in Nodes : n = c.node
    BY <2>1, <2>2 DEF RightAsk, Timely
  <2>4. PICK as \in Responses : as = c.as /\ as # "simulated"
    BY <2>1, <2>2 DEF RightAsk, Timely, Responses
  <2>5. CASE bundle' = bundle
    BY <2>1, <2>5
  <2>6. CASE bundle' # bundle
    <3>1. bundle' = [bundle EXCEPT !.added[n] = as]
      BY <1>7, <2>2, <2>3, <2>4, <2>6 DEF AddFixture
    <3>2. bundle.added \in [Nodes -> Responses]
      BY <1>t DEF BundleRow
    <3>3. PICK more \in [Nodes -> Responses] : more = [bundle.added EXCEPT ![n] = as]
      BY <3>2
    <3>4. PICK b : b = [bundle EXCEPT !.added = more]
      OBVIOUS
    <3>5. b \in BundleRow /\ b.added = more /\ bundle' = b
      BY <1>t, <3>1, <3>3, <3>4 DEF BundleRow
    <3>6. \A k \in Nodes : more[k] # "simulated"
      BY <2>1, <2>4, <3>2, <3>3 DEF RightOf, EffectsFit
    <3>7. EffectsFit(test, b)
      BY <2>1, <3>5, <3>6 DEF RightOf, EffectsFit
    <3> QED BY <2>1, <3>5, <3>7 DEF RightOf
  <2> QED BY <2>1, <2>5, <2>6
<1>8. CASE HandleFixture
  <2>1. Takes({"manual"}) /\ AddFixture(Head(mail)) /\ Answers(Head(mail))
    BY <1>8 DEF HandleFixture
  <2>2. PICK c \in Messages : c = Head(mail)
    BY <1>t, <1>7, <2>1, TailIs
  <2> QED BY <1>7, <2>1, <2>2, AnswerKeeps
<1>9. CASE HandleFixtureCut
  <2>1. /\ Takes({"manual"}) /\ AddFixture(Head(mail)) /\ mail' = << >> /\ host' = "down"
        /\ cuts' = cuts + 1 /\ cuts < MaxCuts
        /\ test' = test /\ applied' = applied /\ orders' = orders
    BY <1>9 DEF HandleFixtureCut
  <2>2. cuts' \in 0..MaxCuts
    BY <1>t, <2>1, DryAssumption
  <2> QED BY <1>t, <1>7, <2>1, <2>2, InboxKeeps
<1>10. ASSUME NEW m, Send(m), RightAsk(test, m) PROVE DryInv'
  <2>1. /\ test.there /\ orders < MaxOrders /\ orders' = orders + 1 /\ mail' = Append(mail, m)
        /\ test' = test /\ bundle' = bundle /\ applied' = applied /\ host' = host /\ cuts' = cuts
    BY <1>10 DEF Send
  <2>2. RightOf(test, bundle, applied) /\ \A i \in DOMAIN mail : RightAsk(test, mail[i])
    BY <2>1, InvIsRight
  <2>3. PICK c \in Messages : c = m
    BY <1>10 DEF RightAsk
  <2>4. /\ mail' \in Seq(Messages)
        /\ \A i \in DOMAIN mail : i \in DOMAIN mail' /\ mail'[i] = mail[i]
        /\ \A i \in DOMAIN mail' : i \in DOMAIN mail \/ mail'[i] = c
    BY <1>t, <2>1, <2>3
  <2>5. \A i \in DOMAIN mail' : RightAsk(test, mail'[i])
    BY <1>10, <2>2, <2>3, <2>4
  <2>6. orders' \in 0..MaxOrders
    BY <1>t, <2>1, DryAssumption
  <2>7. (host = "up" /\ HasToDo(test, bundle) => \E i \in DOMAIN mail : mail[i] \notin applied)'
    <3>1. host = "up" /\ HasToDo(test, bundle) => \E i \in DOMAIN mail : mail[i] \notin applied
      BY DEF DryInv, KeepsGoing
    <3> QED BY <2>1, <2>4, <3>1
  <2>8. RightOf(test, bundle, applied)' /\ \A i \in DOMAIN mail' : RightAsk(test, mail[i])'
    BY <2>1, <2>2, <2>5
  <2> QED BY <1>t, <2>1, <2>4, <2>6, <2>7, <2>8, RightIsInv
<1>11. ASSUME NEW kind \in {"step", "continue", "pause", "resume"}, Command(kind) PROVE DryInv'
  <2>1. PICK m : m = Order(kind)
    OBVIOUS
  <2>2. RightAsk(test, m)
    BY <2>1, MessageTypes DEF RightAsk, Timely
  <2> QED BY <1>10, <1>11, <2>1, <2>2 DEF Command
<1>12. ASSUME NEW n \in Nodes, NEW as \in {"fixture", "other"}, FixtureByHand(n, as) PROVE DryInv'
  <2>1. PICK m : m = Manual(n, as)
    OBVIOUS
  <2>2. as \in Responses
    BY DEF Responses
  <2>3. m \in Messages /\ m.kind = "manual" /\ m.node = n /\ m.as = as
    BY <2>1, <2>2, MessageTypes
  <2>4. test.effect[n] # "none" /\ Send(m)
    BY <1>12, <2>1 DEF FixtureByHand
  <2>5. RightAsk(test, m)
    BY <2>1, <2>3, <2>4 DEF RightAsk, Timely
  <2> QED BY <1>10, <2>4, <2>5
<1>13. CASE GoesDown
  <2>1. /\ mail' = << >> /\ host' = "down" /\ test' = test /\ bundle' = bundle
        /\ applied' = applied /\ orders' = orders
    BY <1>13 DEF GoesDown
  <2>2. cuts' \in 0..MaxCuts
    BY <1>t, <1>13, DryAssumption DEF GoesDown
  <2>3. CASE test.there
    <3>1. RightOf(test, bundle', applied)
      BY <2>1, <2>3, InvIsRight
    <3> QED BY <1>t, <2>1, <2>2, <2>3, <3>1, InboxKeeps
  <2>4. CASE ~test.there
    <3>1. mail' \in Seq(Messages) /\ DOMAIN mail' = {}
      BY <2>1
    <3>2. DryTypeOK'
      BY <1>t, <2>1, <2>2, <3>1 DEF DryTypeOK, TestRow, BundleRow
    <3>3. StartInv'
      BY <2>1, <2>4 DEF DryInv, StartInv
    <3>4. KeepsGoing'
      BY <2>1 DEF KeepsGoing
    <3> QED BY <2>1, <3>1, <3>2, <3>3, <3>4 DEF DryInv
  <2> QED BY <2>3, <2>4
<1>14. CASE Recover
  <2>1. /\ mail' = Recovered /\ host' = "up" /\ test' = test /\ bundle' = bundle
        /\ applied' = applied /\ orders' = orders /\ cuts' = cuts
    BY <1>14 DEF Recover
  <2>2. CASE ~test.there
    <3>1. mail' = << >>
      BY <2>1, <2>2 DEF Recovered
    <3>2. mail' \in Seq(Messages) /\ DOMAIN mail' = {}
      BY <3>1
    <3>3. DryTypeOK'
      BY <1>t, <2>1, <3>2 DEF DryTypeOK, TestRow, BundleRow
    <3>4. StartInv'
      BY <2>1, <2>2, <3>1 DEF DryInv, StartInv
    <3>5. KeepsGoing'
      BY <2>1, <2>2 DEF KeepsGoing, HasToDo
    <3> QED BY <2>1, <3>2, <3>3, <3>4, <3>5 DEF DryInv
  <2>3. CASE test.there
    <3>1. RightOf(test, bundle, applied)
      BY <2>3, InvIsRight
    <3>2. /\ NextCommands(test, bundle) \in Seq(Messages) /\ Steps(test) \in Seq(Messages)
          /\ << >> \in Seq(Messages)
      <4>1. << >> \in Seq(Messages)
        OBVIOUS
      <4> QED BY <1>t, <4>1, NextCommandsAre, StepsAre
    <3>3. PICK first \in Seq(Messages) : first = IF test.auto THEN NextCommands(test, bundle) ELSE << >>
      BY <3>2
    <3>4. PICK second \in Seq(Messages) : second = Steps(test)
      BY <3>2
    <3>5. first \o second \in Seq(Messages)
      OBVIOUS
    <3>6. PICK box \in Seq(Messages) : box = first \o second
      BY <3>5
    <3>7. \A m : Has(box, m) <=> Has(first, m) \/ Has(second, m)
      BY <3>6, HasConcat
    <3>8. mail' = IF Over(test) THEN << >> ELSE box
      BY <2>1, <2>3, <3>3, <3>4, <3>6 DEF Recovered
    <3>9. \A m : Has(first, m) => Has(NextCommands(test, bundle), m)
      BY <3>3 DEF Has
    <3>10. ASSUME NEW i \in DOMAIN box PROVE RightAsk(test, box[i])
      <4>1. Has(box, box[i])
        BY DEF Has
      <4>2. Has(NextCommands(test, bundle), box[i]) \/ Has(Steps(test), box[i])
        BY <3>4, <3>7, <3>9, <4>1
      <4>3. Timely(test, box[i]) /\ box[i].kind # "start"
        BY <1>t, <3>1, <4>2, FollowTimely DEF RightOf
      <4> QED BY <4>3 DEF RightAsk
    <3>11. mail' \in Seq(Messages) /\ \A i \in DOMAIN mail' : RightAsk(test, mail'[i])
      <4>1. CASE Over(test)
        BY <3>8, <4>1
      <4>2. CASE ~Over(test)
        BY <3>8, <3>10, <4>2
      <4> QED BY <4>1, <4>2
    <3>12. ASSUME HasToDo(test, bundle) PROVE \E i \in DOMAIN mail' : mail'[i] \notin applied
      <4>1. PICK m : (Has(NextCommands(test, bundle), m) \/ Has(Steps(test), m)) /\ m \notin applied
        BY <1>t, <3>1, <3>12, AsksForMore DEF RightOf
      <4>2. Has(box, m)
        BY <3>3, <3>4, <3>7, <3>12, <4>1 DEF HasToDo
      <4>3. mail' = box
        BY <3>8, <3>12 DEF HasToDo
      <4> QED BY <4>1, <4>2, <4>3 DEF Has
    <3>13. (host = "up" /\ HasToDo(test, bundle) => \E i \in DOMAIN mail : mail[i] \notin applied)'
      BY <2>1, <3>12
    <3>14. RightOf(test, bundle, applied)' /\ \A i \in DOMAIN mail' : RightAsk(test, mail[i])'
      BY <2>1, <3>1, <3>11
    <3> QED BY <1>t, <2>1, <3>11, <3>13, <3>14, RightIsInv
  <2> QED BY <2>2, <2>3
<1> QED
  BY <1>1, <1>2, <1>3, <1>4, <1>5, <1>6, <1>8, <1>9, <1>11, <1>12, <1>13, <1>14 DEF DryNext

LEMMA DrySound == ASSUME DryInv PROVE DryRunHolds /\ DryTypeOK
<1>1. KeepsTime
  BY DEF DryInv, TimeKept, KeepsTime
<1>2. NeverIdles
  <2>1. SUFFICES ASSUME test.there, test.auto, bundle.kept, host = "up", mail = << >>,
                        ~Over(test), ~test.paused,
                        ~ \E n \in Pending(test) : Says(bundle, n) = "none" /\ ~IsTimer(n)
                 PROVE  FALSE
    BY DEF NeverIdles
  <2>2. HasToDo(test, bundle)
    BY <2>1 DEF HasToDo
  <2>3. \E i \in DOMAIN mail : mail[i] \notin applied
    BY <2>1, <2>2 DEF DryInv, KeepsGoing
  <2> QED BY <2>1, <2>3
<1>3. NodesAreKept
  <2>1. \A n \in Nodes : n \in ToSet(test.ready) <=> Has(test.ready, n)
    BY DEF ToSet, Has
  <2> QED BY <2>1 DEF DryInv, KeptIn, NodesAreKept
<1> QED BY <1>1, <1>2, <1>3 DEF DryRunHolds, DryInv

-----------------------------------------------------------------------------
(***************************************************************************)
(* Connecting devices.  A token belongs to one dialog, which waits for one *)
(* request at a time.  While nothing else drives its flow and no request   *)
(* of it was given up, that one request alone moves it: so what is on its  *)
(* way, kept under the token, or shown by the dialog is the form the flow  *)
(* is at.  A flow that was begun has no token until its first form is kept.*)
(***************************************************************************)
FlowRow   == [at : Nat, is : {"open", "external", "entry", "gone"}, found : BOOLEAN]
KeptRow   == [flow : Nat, step : Nat, known : BOOLEAN]
AskRow    == [from : Dialogs, kind : AskKinds, token : Nat, filled : Nat, decoded : Nat,
              met : Nat, flow : Nat,
              at : {"sent", "calling", "heard", "collecting", "result", "over", "lost"},
              says : {"none", "form", "pick", "done", "entry", "abort", "external", "error"},
              step : Nat, options : SUBSET Nat, devices : SUBSET Nat,
              waited : BOOLEAN, late : BOOLEAN, cut : BOOLEAN]
DialogRow == [token : Nat, step : Nat, options : SUBSET Nat, busy : BOOLEAN,
              told : {"none", "done", "error"}, last : Nat]

IntegrationTypes ==
    /\ configFlow \in Seq(FlowRow)
    /\ pendingFlows \in Seq(KeptRow)
    /\ asked \in Seq(AskRow)
    /\ dialog \in [Dialogs -> DialogRow]
    /\ reboots \in Nat
    /\ deviceRows \subseteq devicesMade /\ devicesMade \subseteq Nat

\* What is named is there.
NamesInv ==
    /\ \A t \in DOMAIN pendingFlows : pendingFlows[t].flow \in DOMAIN configFlow
    /\ \A r \in DOMAIN asked :
          /\ asked[r].token \in DOMAIN pendingFlows \cup {0}
          /\ asked[r].flow \in DOMAIN configFlow \cup {0}
          /\ asked[r].options \subseteq DOMAIN pendingFlows
    /\ \A p \in Dialogs :
          /\ dialog[p].token \in DOMAIN pendingFlows \cup {0}
          /\ dialog[p].options \subseteq DOMAIN pendingFlows

\* What is there of a request as it goes.
OfKind(a) ==
    /\ a.kind = "list" => a.token = 0 /\ a.at \in {"sent", "result", "over", "lost"}
                          /\ a.says \in {"none", "pick"}
    /\ a.kind \in {"look", "fill"} => a.token # 0
    /\ a.met # 0 => a.kind = "fill"

OfStage(a) ==
    /\ a.at = "sent" => a.flow = 0 /\ (a.kind = "begin" => a.token = 0)
    /\ a.at \in {"sent", "calling", "lost"} => a.says = "none" /\ a.met = 0
    /\ a.at = "calling" => (a.flow # 0 <=> a.token # 0)
    /\ a.at = "heard" => a.flow # 0 /\ a.says \in {"form", "entry", "abort", "external", "error"}
    /\ a.at = "heard" /\ a.token = 0 => a.says = "form"
    /\ a.says \in {"form", "done", "entry"} => a.flow # 0
    /\ a.says = "entry" => a.at = "heard"
    /\ a.says = "done" => a.at \in {"collecting", "result", "over"}
    /\ a.at = "collecting" => a.says = "done"
    /\ a.at = "result" => a.says \in {"form", "pick", "done", "error"}

OfFlow(a) ==
    /\ a.token # 0 /\ a.flow # 0 => pendingFlows[a.token].flow = a.flow
    /\ a.says \in {"entry", "done"} => configFlow[a.flow].is = "entry"
    /\ a.says = "done" /\ a.at # "collecting" => a.devices \subseteq deviceRows

RowsInv == \A r \in DOMAIN asked : OfKind(asked[r]) /\ OfStage(asked[r]) /\ OfFlow(asked[r])

\* A flow that was begun has no token until its first form is kept.
IsNew(a) == a.at = "heard" /\ a.token = 0
NewInv ==
    /\ \A r \in DOMAIN asked : IsNew(asked[r]) =>
          /\ asked[r].step = configFlow[asked[r].flow].at /\ ~configFlow[asked[r].flow].found
          /\ \A t \in DOMAIN pendingFlows : pendingFlows[t].flow # asked[r].flow
    /\ \A q, r \in DOMAIN asked :
          IsNew(asked[q]) /\ IsNew(asked[r]) /\ asked[q].flow = asked[r].flow => q = r

\* One request at a time is waited for.
IsActive(a) == a.at \in {"sent", "calling", "heard", "collecting", "result"}
WaitInv ==
    /\ \A r \in DOMAIN asked :
          /\ IsActive(asked[r]) /\ ~asked[r].late => asked[r].waited
          /\ asked[r].waited => asked[r].at # "over"
          /\ asked[r].waited /\ asked[r].kind # "list" => dialog[asked[r].from].busy
          /\ asked[r].waited /\ asked[r].kind = "fill" => dialog[asked[r].from].token = asked[r].token
          /\ asked[r].waited /\ asked[r].kind \in {"begin", "look"} => dialog[asked[r].from].token = 0
    /\ \A q, r \in DOMAIN asked :
          /\ asked[q].waited /\ asked[q].kind # "list"
          /\ asked[r].waited /\ asked[r].kind # "list"
          /\ asked[q].from = asked[r].from
          => q = r

OutcomeInv ==
    \A p \in Dialogs :
        /\ dialog[p].busy => dialog[p].told = "none"
        /\ dialog[p].told = "done" =>
              /\ dialog[p].last \in DOMAIN asked
              /\ asked[dialog[p].last].at = "over" /\ asked[dialog[p].last].says = "done"

\* A token is one dialog's.
Owns(p, t) ==
    /\ t # 0
    /\ \/ dialog[p].token = t
       \/ t \in dialog[p].options
       \/ \E r \in DOMAIN asked : asked[r].from = p /\ (asked[r].token = t \/ t \in asked[r].options)

OwnInv == \A p, q \in Dialogs, t \in DOMAIN pendingFlows : Owns(p, t) /\ Owns(q, t) => p = q

\* What is known of the flow of a token that is not disturbed.
FlowOf(t)  == configFlow[pendingFlows[t].flow]
IsAt(t, step) == FlowOf(t).at = step /\ pendingFlows[t].known /\ pendingFlows[t].step = step
Spent(t)   == ~pendingFlows[t].known \/ FlowOf(t).is # "open"

Fits(a) ==
    /\ a.at = "sent" /\ a.kind = "fill" => Spent(a.token) \/ IsAt(a.token, a.filled)
    /\ a.at = "calling" /\ a.kind = "fill" =>
          \/ FlowOf(a.token).is # "open"
          \/ a.filled = FlowOf(a.token).at /\ a.decoded = a.filled
    /\ a.at = "heard" => IF a.says = "form" THEN a.step = FlowOf(a.token).at
                         ELSE FlowOf(a.token).is # "open"
    /\ a.at = "result" /\ a.says = "form" => IsAt(a.token, a.step)
    /\ a.at = "result" /\ a.says = "error" /\ a.kind = "fill" => Spent(a.token)
    /\ a.met # 0 => a.filled = a.met /\ a.decoded = a.met

Shows(d) ==
    ~d.busy => \/ d.told # "error" /\ IsAt(d.token, d.step)
               \/ (d.told = "error" \/ reboots # 0) /\ Spent(d.token)

CurrentInv ==
    /\ \A r \in DOMAIN asked :
          asked[r].token # 0 /\ Undisturbed(asked[r].token) => Fits(asked[r])
    /\ \A p \in Dialogs : dialog[p].token # 0 /\ Undisturbed(dialog[p].token) => Shows(dialog[p])

IntegrationInv ==
    /\ IntegrationTypes /\ NamesInv /\ RowsInv /\ NewInv /\ WaitInv /\ OutcomeInv /\ OwnInv
    /\ CurrentInv

\* Nothing was asked for yet.
LEMMA IntegrationStarts == IntegrationInit => IntegrationInv
<1> SUFFICES ASSUME IntegrationInit PROVE IntegrationInv
  OBVIOUS
<1>1. /\ configFlow = << >> /\ devicesMade = {} /\ deviceRows = {}
      /\ pendingFlows = << >> /\ asked = << >> /\ reboots = 0
      /\ \A p \in Dialogs : dialog[p] = [token |-> 0, step |-> 0, options |-> {}, busy |-> FALSE,
                                         told |-> "none", last |-> 0]
  BY DEF IntegrationInit
<1>2. << >> \in Seq(FlowRow) /\ << >> \in Seq(KeptRow) /\ << >> \in Seq(AskRow)
  OBVIOUS
<1>3. dialog \in [Dialogs -> DialogRow]
  BY DEF IntegrationInit, DialogRow
<1>4. IntegrationTypes
  BY <1>1, <1>2, <1>3 DEF IntegrationTypes
<1>5. NamesInv /\ RowsInv /\ NewInv /\ WaitInv /\ OutcomeInv /\ OwnInv /\ CurrentInv
  BY <1>1 DEF NamesInv, RowsInv, NewInv, WaitInv, OutcomeInv, OwnInv, CurrentInv
<1> QED BY <1>4, <1>5 DEF IntegrationInv

\* What a step leaves in the tables: flows keep the tokens they have, and what ended of a
\* flow does not begin again.
TablesGo ==
    /\ configFlow' \in Seq(FlowRow) /\ pendingFlows' \in Seq(KeptRow)
    /\ deviceRows \subseteq deviceRows' /\ deviceRows' \subseteq devicesMade' /\ devicesMade' \subseteq Nat
    /\ \A t \in DOMAIN pendingFlows :
          t \in DOMAIN pendingFlows' /\ pendingFlows'[t].flow = pendingFlows[t].flow
    /\ \A t \in DOMAIN pendingFlows' : pendingFlows'[t].flow \in DOMAIN configFlow'
    /\ \A f \in DOMAIN configFlow :
          /\ f \in DOMAIN configFlow' /\ configFlow'[f].found = configFlow[f].found
          /\ configFlow[f].is = "entry" => configFlow'[f].is = "entry"
          /\ configFlow[f].is # "open" => configFlow'[f].is # "open"

\* A token that is undisturbed was so before.
LEMMA UndisturbedBefore ==
  ASSUME NEW t \in DOMAIN pendingFlows, TablesGo,
         \A q \in DOMAIN asked :
            /\ q \in DOMAIN asked'
            /\ asked[q].token = t => asked'[q].token = t
            /\ asked[q].late => asked'[q].late
            /\ asked[q].cut => asked'[q].cut,
         Undisturbed(t)'
  PROVE  Undisturbed(t)
BY DEF Undisturbed, TablesGo

\* The one request that drives a token that is undisturbed, and the dialog waits for it.
LEMMA AloneIsWaited ==
  ASSUME IntegrationInv, NEW r \in DOMAIN asked, IsActive(asked[r]), asked[r].token # 0,
         Undisturbed(asked[r].token)
  PROVE  /\ \A q \in DOMAIN asked :
               IsActive(asked[q]) /\ asked[q].token = asked[r].token => q = r
         /\ \A p \in Dialogs : dialog[p].token = asked[r].token => dialog[p].busy
<1>1. \A q \in DOMAIN asked :
         /\ asked[q].token = asked[r].token => ~asked[q].late
         /\ asked[q] \in AskRow
  BY DEF Undisturbed, IntegrationInv, IntegrationTypes
<1>2. \A q \in DOMAIN asked : IsActive(asked[q]) /\ asked[q].token = asked[r].token =>
         asked[q].waited /\ asked[q].kind # "list"
  BY <1>1 DEF IntegrationInv, WaitInv, RowsInv, OfKind
<1>3. asked[r].token \in DOMAIN pendingFlows
  BY DEF IntegrationInv, NamesInv
<1>4. \A q \in DOMAIN asked : asked[q].token = asked[r].token => asked[q].from = asked[r].from
  <2>1. \A q \in DOMAIN asked : asked[q].from \in Dialogs
    BY <1>1 DEF AskRow
  <2> QED BY <1>3, <2>1 DEF IntegrationInv, OwnInv, Owns
<1>5. ASSUME NEW p \in Dialogs, dialog[p].token = asked[r].token PROVE dialog[p].busy
  <2>1. asked[r].from \in Dialogs
    BY <1>1 DEF AskRow
  <2>2. p = asked[r].from
    BY <1>3, <1>5, <2>1 DEF IntegrationInv, OwnInv, Owns
  <2> QED BY <1>2, <2>2 DEF IntegrationInv, WaitInv
<1> QED BY <1>2, <1>4, <1>5 DEF IntegrationInv, WaitInv

\* The tokens, but for the one the step is about, and their flows are as they were.
TokensStay(tk) ==
    /\ \A t \in DOMAIN pendingFlows : t # tk => pendingFlows'[t] = pendingFlows[t]
    /\ \A f \in DOMAIN configFlow :
          (tk # 0 => pendingFlows[tk].flow # f) => configFlow'[f].at = configFlow[f].at

\* What is known of the flows stays known: of the other tokens for nothing happens to
\* them, of the one the step is about for nobody else drives it.
LEMMA CurrentStays ==
  ASSUME IntegrationInv, TablesGo, NEW r \in Nat, NEW tk, TokensStay(tk),
         reboots' = reboots,
         tk # 0 => r \in DOMAIN asked /\ IsActive(asked[r]) /\ asked[r].token = tk,
         \A q \in DOMAIN asked :
            /\ q \in DOMAIN asked'
            /\ asked[q].token # 0 => asked'[q].token = asked[q].token
            /\ asked[q].late => asked'[q].late
            /\ asked[q].cut => asked'[q].cut,
         \A q \in DOMAIN asked' : q # r => q \in DOMAIN asked /\ asked'[q] = asked[q],
         \A b \in AskRow : r \in DOMAIN asked' /\ asked'[r] = b /\ b.token # 0
                              /\ Undisturbed(b.token)' => Fits(b)',
         \A d \in DialogRow : \A p \in Dialogs :
            dialog'[p] = d /\ d.token # 0 /\ Undisturbed(d.token)' =>
               \/ /\ d.token = dialog[p].token /\ d.step = dialog[p].step
                  /\ d.busy = dialog[p].busy /\ d.told = dialog[p].told
               \/ Shows(d)',
         asked' \in Seq(AskRow), dialog' \in [Dialogs -> DialogRow]
  PROVE  CurrentInv'
<1>t. /\ asked \in Seq(AskRow) /\ dialog \in [Dialogs -> DialogRow]
      /\ pendingFlows \in Seq(KeptRow) /\ configFlow \in Seq(FlowRow)
      /\ \A q \in DOMAIN asked : asked[q].token \in DOMAIN pendingFlows \cup {0}
      /\ \A p \in Dialogs : dialog[p].token \in DOMAIN pendingFlows \cup {0}
      /\ \A t \in DOMAIN pendingFlows : pendingFlows[t].flow \in DOMAIN configFlow
  BY DEF IntegrationInv, IntegrationTypes, NamesInv
<1>1. \A t \in DOMAIN pendingFlows : Undisturbed(t)' => Undisturbed(t)
  <2>1. \A t \in DOMAIN pendingFlows : t # 0
    BY <1>t
  <2> QED BY <2>1, UndisturbedBefore
<1>2. ASSUME NEW t \in DOMAIN pendingFlows, t # tk, Undisturbed(t)'
      PROVE  /\ pendingFlows'[t] = pendingFlows[t]
             /\ FlowOf(t)'.at = FlowOf(t).at /\ (FlowOf(t).is # "open" => FlowOf(t)'.is # "open")
  <2>1. pendingFlows'[t] = pendingFlows[t] /\ pendingFlows[t].flow \in DOMAIN configFlow
    BY <1>t, <1>2 DEF TokensStay
  <2>2. ASSUME tk # 0 PROVE pendingFlows[tk].flow # pendingFlows[t].flow
    <3>1. tk \in DOMAIN pendingFlows
      BY <1>t, <2>2
    <3> QED BY <1>1, <1>2, <3>1 DEF Undisturbed
  <2> QED BY <2>1, <2>2 DEF TokensStay, TablesGo, FlowOf
<1>3. ASSUME NEW q \in DOMAIN asked', NEW a \in AskRow, a = asked'[q], a.token # 0,
             Undisturbed(a.token)'
      PROVE  Fits(a)'
  <2>1. CASE q = r
    BY <1>3, <2>1
  <2>2. CASE q # r
    <3>1. a = asked[q] /\ q \in DOMAIN asked
      BY <1>3, <2>2
    <3>2. a.token \in DOMAIN pendingFlows
      BY <1>t, <1>3, <3>1
    <3>3. Undisturbed(a.token)
      BY <1>1, <1>3, <3>2
    <3>4. Fits(a)
      BY <1>3, <3>1, <3>3 DEF IntegrationInv, CurrentInv
    <3>5. CASE a.token # tk
      <4>1. /\ pendingFlows'[a.token] = pendingFlows[a.token]
            /\ FlowOf(a.token)'.at = FlowOf(a.token).at
            /\ FlowOf(a.token).is # "open" => FlowOf(a.token)'.is # "open"
        BY <1>2, <1>3, <3>2, <3>5
      <4> QED BY <3>4, <4>1 DEF Fits, IsAt, Spent
    <3>6. CASE a.token = tk
      <4>1. ~IsActive(a)
        BY <1>3, <2>2, <3>1, <3>3, <3>6, AloneIsWaited
      <4> QED BY <3>4, <4>1 DEF Fits, IsActive
    <3> QED BY <3>5, <3>6
  <2> QED BY <2>1, <2>2
<1>4. ASSUME NEW p \in Dialogs, NEW d \in DialogRow, d = dialog'[p], d.token # 0,
             Undisturbed(d.token)'
      PROVE  Shows(d)'
  <2>1. CASE /\ d.token = dialog[p].token /\ d.step = dialog[p].step
             /\ d.busy = dialog[p].busy /\ d.told = dialog[p].told
    <3>1. d.token \in DOMAIN pendingFlows
      BY <1>t, <1>4, <2>1
    <3>2. Undisturbed(d.token)
      BY <1>1, <1>4, <3>1
    <3>3. Shows(d)
      <4>1. Shows(dialog[p])
        BY <1>4, <2>1, <3>2 DEF IntegrationInv, CurrentInv
      <4> QED BY <2>1, <4>1 DEF Shows
    <3>4. CASE d.token # tk
      <4>1. /\ pendingFlows'[d.token] = pendingFlows[d.token]
            /\ FlowOf(d.token)'.at = FlowOf(d.token).at
            /\ FlowOf(d.token).is # "open" => FlowOf(d.token)'.is # "open"
        BY <1>2, <1>4, <3>1, <3>4
      <4> QED BY <3>3, <4>1 DEF Shows, IsAt, Spent
    <3>5. CASE d.token = tk
      <4>1. d.busy
        BY <1>4, <2>1, <3>2, <3>5, AloneIsWaited
      <4> QED BY <4>1 DEF Shows
    <3> QED BY <3>4, <3>5
  <2> QED BY <1>4, <2>1
<1>5. \A q \in DOMAIN asked' : asked'[q] \in AskRow
  OBVIOUS
<1>6. \A p \in Dialogs : dialog'[p] \in DialogRow
  OBVIOUS
<1> QED BY <1>3, <1>4, <1>5, <1>6 DEF CurrentInv

\* What is said of a request that nothing happens to stays so.
LEMMA RowStays ==
  ASSUME IntegrationInv, TablesGo, NEW q \in DOMAIN asked, NEW a \in AskRow, a = asked[q]
  PROVE  /\ OfKind(a) /\ OfStage(a) /\ OfFlow(a)'
         /\ a.token \in DOMAIN pendingFlows' \cup {0} /\ a.flow \in DOMAIN configFlow' \cup {0}
         /\ a.options \subseteq DOMAIN pendingFlows'
<1>1. OfKind(a) /\ OfStage(a) /\ OfFlow(a)
  BY DEF IntegrationInv, RowsInv
<1>2. /\ a.token \in DOMAIN pendingFlows \cup {0} /\ a.flow \in DOMAIN configFlow \cup {0}
      /\ a.options \subseteq DOMAIN pendingFlows
  BY DEF IntegrationInv, NamesInv
<1>3. a.token # 0 /\ a.flow # 0 => pendingFlows'[a.token].flow = a.flow
  BY <1>1, <1>2 DEF OfFlow, TablesGo
<1>4. a.says \in {"entry", "done"} => a.flow # 0
  BY <1>1 DEF OfStage
<1>5. a.says \in {"entry", "done"} => configFlow'[a.flow].is = "entry"
  BY <1>1, <1>2, <1>4 DEF OfFlow, TablesGo
<1>6. a.says = "done" /\ a.at # "collecting" => a.devices \subseteq deviceRows'
  BY <1>1 DEF OfFlow, TablesGo
<1>7. OfFlow(a)'
  BY <1>3, <1>5, <1>6 DEF OfFlow
<1> QED BY <1>1, <1>2, <1>7 DEF TablesGo

\* A request that was asked for and a flow without a token.
LEMMA NewStays ==
  ASSUME IntegrationInv, TablesGo, NEW tk, TokensStay(tk), NEW q \in DOMAIN asked,
         tk # 0 => tk \in DOMAIN pendingFlows,
         IsNew(asked[q]),
         \A t \in DOMAIN pendingFlows' \ DOMAIN pendingFlows : pendingFlows'[t].flow # asked[q].flow
  PROVE  /\ asked[q].step = configFlow'[asked[q].flow].at
         /\ ~configFlow'[asked[q].flow].found
         /\ \A t \in DOMAIN pendingFlows' : pendingFlows'[t].flow # asked[q].flow
<1>1. /\ asked[q].step = configFlow[asked[q].flow].at /\ ~configFlow[asked[q].flow].found
      /\ \A t \in DOMAIN pendingFlows : pendingFlows[t].flow # asked[q].flow
  BY DEF IntegrationInv, NewInv
<1>2. asked[q].flow \in DOMAIN configFlow
  BY DEF IntegrationInv, RowsInv, OfStage, IsNew, NamesInv
<1> QED BY <1>1, <1>2 DEF TokensStay, TablesGo
\* The runtime or Home Assistant takes a request a stage further.
LEMMA RequestGoesOn ==
  ASSUME IntegrationInv, TablesGo, UNCHANGED <<dialog, reboots>>,
         NEW r \in DOMAIN asked, NEW a \in AskRow, NEW b \in AskRow, a = asked[r],
         asked' = [asked EXCEPT ![r] = b],
         NEW tk, TokensStay(tk), tk # 0 => a.token = tk,
         IsActive(a), IsActive(b), OfKind(b), OfStage(b), OfFlow(b)',
         b.from = a.from, b.kind = a.kind, b.waited = a.waited, b.late = a.late, a.cut => b.cut,
         a.token # 0 => b.token = a.token,
         b.flow \in DOMAIN configFlow' \cup {0},
         b.token = a.token \/ b.token \in DOMAIN pendingFlows' \ DOMAIN pendingFlows,
         \A t \in b.options : t \in a.options \/ t \in DOMAIN pendingFlows' \ DOMAIN pendingFlows,
         \A q \in DOMAIN asked : q # r /\ IsNew(asked[q]) =>
            /\ \A t \in DOMAIN pendingFlows' \ DOMAIN pendingFlows :
                  pendingFlows'[t].flow # asked[q].flow
            /\ IsNew(b) => b.flow # asked[q].flow,
         IsNew(b) => /\ b.step = configFlow'[b.flow].at /\ ~configFlow'[b.flow].found
                     /\ \A t \in DOMAIN pendingFlows' : pendingFlows'[t].flow # b.flow,
         b.token # 0 /\ Undisturbed(b.token)' => Fits(b)'
  PROVE  IntegrationInv'
<1>t. /\ asked \in Seq(AskRow) /\ dialog \in [Dialogs -> DialogRow]
      /\ pendingFlows \in Seq(KeptRow) /\ configFlow \in Seq(FlowRow)
      /\ reboots \in Nat
      /\ \A p \in Dialogs : dialog[p] \in DialogRow
      /\ \A q \in DOMAIN asked : q \in Nat /\ asked[q] \in AskRow
  BY DEF IntegrationInv, IntegrationTypes
<1>i. NamesInv /\ RowsInv /\ NewInv /\ WaitInv /\ OutcomeInv /\ OwnInv
  BY DEF IntegrationInv
<1>1. /\ asked' \in Seq(AskRow) /\ DOMAIN asked' = DOMAIN asked /\ asked'[r] = b
      /\ \A q \in DOMAIN asked : q # r => asked'[q] = asked[q]
      /\ dialog' = dialog /\ reboots' = reboots
  BY <1>t
<1>2. IntegrationTypes'
  BY <1>t, <1>1 DEF IntegrationTypes, TablesGo
<1>3. NamesInv'
  <2>1. \A t \in DOMAIN pendingFlows' : pendingFlows'[t].flow \in DOMAIN configFlow'
    BY DEF TablesGo
  <2>2. ASSUME NEW q \in DOMAIN asked'
        PROVE  /\ asked'[q].token \in DOMAIN pendingFlows' \cup {0}
               /\ asked'[q].flow \in DOMAIN configFlow' \cup {0}
               /\ asked'[q].options \subseteq DOMAIN pendingFlows'
    <3>1. CASE q = r
      <4>1. /\ a.token \in DOMAIN pendingFlows \cup {0} /\ a.options \subseteq DOMAIN pendingFlows
        BY <1>i DEF NamesInv
      <4>2. DOMAIN pendingFlows \subseteq DOMAIN pendingFlows'
        BY DEF TablesGo
      <4> QED BY <1>1, <3>1, <4>1, <4>2
    <3>2. CASE q # r
      BY <1>t, <1>1, <2>2, <3>2, RowStays
    <3> QED BY <3>1, <3>2
  <2>3. \A p \in Dialogs : /\ dialog'[p].token \in DOMAIN pendingFlows' \cup {0}
                           /\ dialog'[p].options \subseteq DOMAIN pendingFlows'
    BY <1>i, <1>1 DEF NamesInv, TablesGo
  <2> QED BY <2>1, <2>2, <2>3 DEF NamesInv
<1>4. RowsInv'
  <2>1. ASSUME NEW q \in DOMAIN asked, q # r, NEW c \in AskRow, c = asked[q]
        PROVE  OfKind(c) /\ OfStage(c) /\ OfFlow(c)'
    BY <2>1, RowStays
  <2> QED BY <1>t, <1>1, <2>1 DEF RowsInv, OfKind, OfStage, OfFlow
<1>5. NewInv'
  <2>1. ASSUME NEW q \in DOMAIN asked, q # r, IsNew(asked[q])
        PROVE  /\ asked[q].step = configFlow'[asked[q].flow].at
               /\ ~configFlow'[asked[q].flow].found
               /\ \A t \in DOMAIN pendingFlows' : pendingFlows'[t].flow # asked[q].flow
    <3>1. tk # 0 => tk \in DOMAIN pendingFlows
      BY <1>i DEF NamesInv
    <3> QED BY <2>1, <3>1, NewStays
  <2>2. \A q \in DOMAIN asked' : IsNew(asked'[q]) =>
          /\ asked'[q].step = configFlow'[asked'[q].flow].at /\ ~configFlow'[asked'[q].flow].found
          /\ \A t \in DOMAIN pendingFlows' : pendingFlows'[t].flow # asked'[q].flow
    BY <1>1, <2>1
  <2>3. ASSUME NEW p \in DOMAIN asked, NEW q \in DOMAIN asked, IsNew(asked'[p]), IsNew(asked'[q]),
               asked'[p].flow = asked'[q].flow, p # q
        PROVE  FALSE
    <3>1. CASE p # r /\ q # r
      BY <1>i, <1>1, <2>3, <3>1 DEF NewInv
    <3>2. CASE p = r \/ q = r
      BY <1>1, <2>3, <3>2
    <3> QED BY <3>1, <3>2
  <2> QED BY <1>1, <2>2, <2>3 DEF NewInv, IsNew
<1>6. WaitInv'
  <2>1. \A q \in DOMAIN asked :
          /\ asked'[q].from = asked[q].from /\ asked'[q].kind = asked[q].kind
          /\ asked'[q].waited = asked[q].waited /\ asked'[q].late = asked[q].late
          /\ IsActive(asked'[q]) => IsActive(asked[q])
          /\ asked[q].waited => asked'[q].at # "over"
    BY <1>i, <1>1 DEF WaitInv, IsActive
  <2>2. \A q \in DOMAIN asked : asked[q].kind = "fill" => asked'[q].token = asked[q].token
    BY <1>i, <1>1 DEF RowsInv, OfKind
  <2> QED BY <1>i, <1>1, <2>1, <2>2 DEF WaitInv, IsActive
<1>7. OutcomeInv'
  <2>1. \A q \in DOMAIN asked : asked[q].at = "over" => q # r
    BY DEF IsActive
  <2> QED BY <1>i, <1>1, <2>1 DEF OutcomeInv
<1>8. OwnInv'
  <2>1. ASSUME NEW p \in Dialogs, NEW t, Owns(p, t)'
        PROVE  Owns(p, t) \/ (p = a.from /\ t \notin DOMAIN pendingFlows)
    BY <1>1, <2>1 DEF Owns
  <2>2. ASSUME NEW p \in Dialogs, NEW t, Owns(p, t) PROVE t \in DOMAIN pendingFlows
    BY <1>i, <2>2 DEF Owns, NamesInv
  <2> QED BY <1>i, <2>1, <2>2 DEF OwnInv
<1>9. CurrentInv'
  <2>1. tk # 0 => r \in DOMAIN asked /\ IsActive(asked[r]) /\ asked[r].token = tk
    OBVIOUS
  <2>2. \A q \in DOMAIN asked :
            /\ q \in DOMAIN asked'
            /\ asked[q].token # 0 => asked'[q].token = asked[q].token
            /\ asked[q].late => asked'[q].late
            /\ asked[q].cut => asked'[q].cut
    BY <1>1
  <2>3. \A q \in DOMAIN asked' : q # r => q \in DOMAIN asked /\ asked'[q] = asked[q]
    BY <1>1
  <2>4. ASSUME NEW c \in AskRow, r \in DOMAIN asked', asked'[r] = c, c.token # 0,
               Undisturbed(c.token)'
        PROVE  Fits(c)'
    <3>1. c = b
      BY <1>1, <2>4
    <3> QED BY <2>4, <3>1
  <2>5. ASSUME NEW d \in DialogRow, NEW p \in Dialogs, dialog'[p] = d, d.token # 0,
               Undisturbed(d.token)'
        PROVE  d = dialog[p] \/ Shows(d)'
    BY <1>1, <2>5
  <2>6. r \in Nat
    BY <1>t
  <2> QED BY <1>1, <1>t, <2>1, <2>2, <2>3, <2>4, <2>5, <2>6, CurrentStays
<1> QED BY <1>2, <1>3, <1>4, <1>5, <1>6, <1>7, <1>8, <1>9 DEF IntegrationInv

\* What a request keeps as it goes on.
Carries(a, b) ==
    /\ IsActive(a) /\ IsActive(b) /\ OfKind(b) /\ OfStage(b) /\ OfFlow(b)'
    /\ b.from = a.from /\ b.kind = a.kind /\ b.waited = a.waited /\ b.late = a.late
    /\ a.cut => b.cut
    /\ a.token # 0 => b.token = a.token

\* The flow, the token and the options it has are those it had or new ones.
Names(a, b) ==
    /\ b.flow \in DOMAIN configFlow' \cup {0}
    /\ b.token = a.token \/ b.token \in DOMAIN pendingFlows' \ DOMAIN pendingFlows
    /\ \A t \in b.options : t \in a.options \/ t \in DOMAIN pendingFlows' \ DOMAIN pendingFlows

\* The flows that were begun and have no token yet are still nobody's.
OthersStayNew(r, b) ==
    \A q \in DOMAIN asked : q # r /\ IsNew(asked[q]) =>
        /\ \A t \in DOMAIN pendingFlows' \ DOMAIN pendingFlows :
              pendingFlows'[t].flow # asked[q].flow
        /\ IsNew(b) => b.flow # asked[q].flow

\* So is the flow of this one, if it was begun just now.
NewIsNobodys(b) ==
    IsNew(b) => /\ b.step = configFlow'[b.flow].at /\ ~configFlow'[b.flow].found
                /\ \A t \in DOMAIN pendingFlows' : pendingFlows'[t].flow # b.flow

\* A step of a request, which touches no row but its own and no token but tk.
RequestStep(r, a, b, tk) ==
    /\ TablesGo /\ UNCHANGED <<dialog, reboots>>
    /\ r \in DOMAIN asked /\ a \in AskRow /\ b \in AskRow /\ a = asked[r]
    /\ asked' = [asked EXCEPT ![r] = b]
    /\ TokensStay(tk) /\ (tk # 0 => a.token = tk)
    /\ Carries(a, b) /\ Names(a, b) /\ OthersStayNew(r, b) /\ NewIsNobodys(b)
    /\ b.token # 0 /\ Undisturbed(b.token)' => Fits(b)'

LEMMA AskMoves ==
  ASSUME IntegrationInv, NEW r, NEW a, NEW b, NEW tk, RequestStep(r, a, b, tk)
  PROVE  IntegrationInv'
<1>g. /\ TablesGo /\ UNCHANGED <<dialog, reboots>>
      /\ r \in DOMAIN asked /\ a \in AskRow /\ b \in AskRow /\ a = asked[r]
      /\ asked' = [asked EXCEPT ![r] = b]
      /\ TokensStay(tk) /\ (tk # 0 => a.token = tk)
      /\ Carries(a, b) /\ Names(a, b) /\ OthersStayNew(r, b) /\ NewIsNobodys(b)
      /\ b.token # 0 /\ Undisturbed(b.token)' => Fits(b)'
  BY DEF RequestStep
<1>1. /\ IsActive(a) /\ IsActive(b) /\ OfKind(b) /\ OfStage(b) /\ OfFlow(b)'
      /\ b.from = a.from /\ b.kind = a.kind /\ b.waited = a.waited /\ b.late = a.late
      /\ a.cut => b.cut
      /\ a.token # 0 => b.token = a.token
  BY <1>g DEF Carries
<1>2. /\ b.flow \in DOMAIN configFlow' \cup {0}
      /\ b.token = a.token \/ b.token \in DOMAIN pendingFlows' \ DOMAIN pendingFlows
      /\ \A t \in b.options : t \in a.options \/ t \in DOMAIN pendingFlows' \ DOMAIN pendingFlows
  BY <1>g DEF Names
<1>3. \A q \in DOMAIN asked : q # r /\ IsNew(asked[q]) =>
        /\ \A t \in DOMAIN pendingFlows' \ DOMAIN pendingFlows :
              pendingFlows'[t].flow # asked[q].flow
        /\ IsNew(b) => b.flow # asked[q].flow
  BY <1>g DEF OthersStayNew
<1>4. IsNew(b) => /\ b.step = configFlow'[b.flow].at /\ ~configFlow'[b.flow].found
                  /\ \A t \in DOMAIN pendingFlows' : pendingFlows'[t].flow # b.flow
  BY <1>g DEF NewIsNobodys
<1> QED BY <1>g, <1>1, <1>2, <1>3, <1>4, RequestGoesOn

\* The flows that were found are put behind the tokens that are there.
LEMMA FoundAreStored ==
  ASSUME IntegrationInv, pendingFlows' = pendingFlows \o Stored(SetToSeq(Found))
  PROVE  /\ pendingFlows' \in Seq(KeptRow) /\ Cardinality(Found) \in Nat
         /\ DOMAIN pendingFlows' = 1..(Len(pendingFlows) + Cardinality(Found))
         /\ DOMAIN pendingFlows = 1..Len(pendingFlows) /\ Len(pendingFlows) \in Nat
         /\ \A t \in DOMAIN pendingFlows : pendingFlows'[t] = pendingFlows[t]
         /\ \A t \in DOMAIN pendingFlows' \ DOMAIN pendingFlows : pendingFlows'[t].flow \in Found
<1> DEFINE n  == Cardinality(Found)
           fs == SetToSeq(Found)
<1>t. configFlow \in Seq(FlowRow) /\ pendingFlows \in Seq(KeptRow)
  BY DEF IntegrationInv, IntegrationTypes
<1>1. DOMAIN configFlow = 1..Len(configFlow) /\ Len(configFlow) \in Nat
  BY <1>t
<1>2. IsFiniteSet(Found)
  <2>1. IsFiniteSet(1..Len(configFlow))
    BY <1>1, FS_Interval
  <2>2. Found \subseteq 1..Len(configFlow)
    BY <1>1 DEF Found
  <2> QED BY <2>1, <2>2, FS_Subset
<1>3. n \in Nat /\ ExistsBijection(1..n, Found)
  BY <1>2, FS_CardinalityType
<1>4. PICK g \in [1..n -> Found] : IsInjective(g)
  BY <1>3 DEF ExistsBijection, Bijection, Injection, IsInjective
<1>5. fs \in [1..n -> Found]
  BY <1>4 DEF SetToSeq
<1>6. Len(fs) = n /\ fs \in Seq(Found)
  <2>1. fs \in Seq(Found)
    BY <1>2, ListType
  <2>2. DOMAIN fs = 1..n /\ DOMAIN fs = 1..Len(fs) /\ Len(fs) \in Nat
    BY <1>5, <2>1
  <2> QED BY <1>3, <2>1, <2>2
<1>7. Found \subseteq Nat
  BY <1>1 DEF Found
<1>8. /\ Stored(fs) \in Seq(KeptRow) /\ Len(Stored(fs)) = n
      /\ \A i \in 1..n : Stored(fs)[i].flow \in Found
  <2>1. Stored(fs) = [i \in 1..n |-> [flow |-> fs[i], step |-> 0, known |-> TRUE]]
    BY <1>6 DEF Stored
  <2>2. \A i \in 1..n : fs[i] \in Found /\ fs[i] \in Nat
    BY <1>5, <1>7
  <2>3. \A i \in 1..n : [flow |-> fs[i], step |-> 0, known |-> TRUE] \in KeptRow
    BY <2>2 DEF KeptRow
  <2>4. Stored(fs) \in [1..n -> KeptRow]
    BY <2>1, <2>3
  <2>5. \A i \in 1..n : Stored(fs)[i].flow = fs[i]
    BY <2>1
  <2>6. Stored(fs) \in Seq(KeptRow) /\ DOMAIN Stored(fs) = 1..n
    BY <1>3, <2>4, FunctionIsSeq
  <2>7. DOMAIN Stored(fs) = 1..Len(Stored(fs)) /\ Len(Stored(fs)) \in Nat
    BY <2>6
  <2> QED BY <1>3, <2>2, <2>5, <2>6, <2>7
<1>9. Len(pendingFlows) \in Nat /\ DOMAIN pendingFlows = 1..Len(pendingFlows)
  BY <1>t
<1>10. /\ pendingFlows' \in Seq(KeptRow) /\ DOMAIN pendingFlows' = 1..(Len(pendingFlows) + n)
       /\ \A t \in DOMAIN pendingFlows : pendingFlows'[t] = pendingFlows[t]
       /\ \A i \in 1..n : pendingFlows'[Len(pendingFlows) + i] = Stored(fs)[i]
  BY <1>t, <1>3, <1>8, <1>9
<1>11. ASSUME NEW t \in DOMAIN pendingFlows' \ DOMAIN pendingFlows
       PROVE  pendingFlows'[t].flow \in Found
  <2>1. t - Len(pendingFlows) \in 1..n /\ t = Len(pendingFlows) + (t - Len(pendingFlows))
    BY <1>3, <1>9, <1>10, <1>11
  <2> QED BY <1>8, <1>10, <2>1
<1> QED BY <1>3, <1>9, <1>10, <1>11

\* So everything else stays: the new tokens are of flows that were found, and no flow that
\* was begun is one of those.
LEMMA FoundGoOn ==
  ASSUME IntegrationInv, pendingFlows' = pendingFlows \o Stored(SetToSeq(Found)),
         UNCHANGED <<configFlow, devicesMade, deviceRows>>
  PROVE  /\ TablesGo /\ TokensStay(0)
         /\ \A q \in DOMAIN asked : IsNew(asked[q]) =>
               \A t \in DOMAIN pendingFlows' \ DOMAIN pendingFlows :
                  pendingFlows'[t].flow # asked[q].flow
<1>t. /\ configFlow \in Seq(FlowRow)
      /\ deviceRows \subseteq devicesMade /\ devicesMade \subseteq Nat
      /\ \A t \in DOMAIN pendingFlows : pendingFlows[t].flow \in DOMAIN configFlow
  BY DEF IntegrationInv, IntegrationTypes, NamesInv
<1>1. /\ pendingFlows' \in Seq(KeptRow)
      /\ DOMAIN pendingFlows \subseteq DOMAIN pendingFlows'
      /\ \A t \in DOMAIN pendingFlows : pendingFlows'[t] = pendingFlows[t]
      /\ \A t \in DOMAIN pendingFlows' \ DOMAIN pendingFlows : pendingFlows'[t].flow \in Found
  BY FoundAreStored
<1>2. Found \subseteq DOMAIN configFlow /\ \A f \in Found : configFlow[f].found
  BY DEF Found
<1>3. TablesGo
  BY <1>t, <1>1, <1>2 DEF TablesGo
<1>4. TokensStay(0)
  BY <1>1 DEF TokensStay
<1>5. \A q \in DOMAIN asked : IsNew(asked[q]) => ~configFlow[asked[q].flow].found
  BY DEF IntegrationInv, NewInv
<1> QED BY <1>1, <1>2, <1>3, <1>4, <1>5

\* Where the tables stay as they are.
LEMMA TablesAreKept ==
  ASSUME IntegrationInv, UNCHANGED <<configFlow, devicesMade, deviceRows, pendingFlows>>
  PROVE  TablesGo /\ TokensStay(0) /\ DOMAIN pendingFlows' = DOMAIN pendingFlows
BY DEF TablesGo, TokensStay, IntegrationInv, IntegrationTypes, NamesInv

\* The runtime takes a request up.
LEMMA HandlingKeeps ==
  ASSUME IntegrationInv, NEW r \in DOMAIN asked, HandleIntegrate(r)
  PROVE  IntegrationInv'
<1>0. PICK a : a = asked[r]
  OBVIOUS
<1>r. a \in AskRow
  BY <1>0 DEF IntegrationInv, IntegrationTypes
<1>t. /\ asked \in Seq(AskRow)
      /\ pendingFlows \in Seq(KeptRow) /\ configFlow \in Seq(FlowRow)
      /\ DOMAIN pendingFlows = 1..Len(pendingFlows) /\ Len(pendingFlows) \in Nat
      /\ DOMAIN configFlow = 1..Len(configFlow) /\ Len(configFlow) \in Nat
  BY DEF IntegrationInv, IntegrationTypes
<1>a. /\ a.at = "sent" /\ a.flow = 0 /\ a.says = "none" /\ a.met = 0
      /\ a.kind = "begin" => a.token = 0
      /\ UNCHANGED <<configFlow, devicesMade, deviceRows>>
      /\ UNCHANGED <<dialog, reboots>>
      /\ OfKind(a) /\ OfStage(a) /\ OfFlow(a)
  BY <1>0 DEF HandleIntegrate, IntegrationInv, RowsInv, OfStage
<1>b. IsActive(a) /\ ~IsNew(a)
  BY <1>a DEF IsActive, IsNew
<1>1. CASE Offers(r) /\ a.kind \in {"list", "begin"}
  <2>s. /\ pendingFlows' = pendingFlows \o Stored(SetToSeq(Found))
        /\ asked' = [asked EXCEPT ![r].at = "result", ![r].says = "pick",
                                  ![r].options = NewTokens(Cardinality(Found))]
    BY <1>1 DEF Offers
  <2>a. /\ Cardinality(Found) \in Nat
        /\ DOMAIN pendingFlows' = 1..(Len(pendingFlows) + Cardinality(Found))
    BY <2>s, FoundAreStored
  <2>b. PICK o : o = NewTokens(Cardinality(Found))
    OBVIOUS
  <2>c. o \in SUBSET Nat /\ o \subseteq DOMAIN pendingFlows' \ DOMAIN pendingFlows
    BY <1>t, <2>a, <2>b DEF NewTokens
  <2>1. PICK b \in AskRow :
           /\ asked' = [asked EXCEPT ![r] = b]
           /\ b.at = "result" /\ b.says = "pick" /\ b.options = o
           /\ b.from = a.from /\ b.kind = a.kind /\ b.waited = a.waited /\ b.late = a.late
           /\ b.cut = a.cut /\ b.token = a.token /\ b.flow = a.flow /\ b.met = a.met
    <3>1. PICK b : b = [a EXCEPT !.at = "result", !.says = "pick", !.options = o]
      OBVIOUS
    <3>2. asked' = [asked EXCEPT ![r] = b]
      BY <1>0, <2>s, <2>b, <3>1
    <3>3. /\ b \in AskRow
          /\ b.at = "result" /\ b.says = "pick" /\ b.options = o
          /\ b.from = a.from /\ b.kind = a.kind /\ b.waited = a.waited /\ b.late = a.late
          /\ b.cut = a.cut /\ b.token = a.token /\ b.flow = a.flow /\ b.met = a.met
      BY <1>r, <2>c, <3>1 DEF AskRow
    <3> QED BY <3>2, <3>3
  <2>2. /\ TablesGo /\ TokensStay(0)
        /\ \A q \in DOMAIN asked : IsNew(asked[q]) =>
               \A t \in DOMAIN pendingFlows' \ DOMAIN pendingFlows :
                  pendingFlows'[t].flow # asked[q].flow
    BY <1>a, <2>s, FoundGoOn
  <2>3. \A t \in b.options : t \in DOMAIN pendingFlows' \ DOMAIN pendingFlows
    BY <2>c, <2>1
  <2>4. IsActive(b) /\ OfKind(b) /\ OfStage(b) /\ OfFlow(b)' /\ ~IsNew(b) /\ Fits(b)'
    BY <1>1, <1>a, <2>1 DEF IsActive, OfKind, OfStage, OfFlow, IsNew, Fits
  <2>carries. Carries(a, b)
    BY <1>0, <1>r, <1>a, <1>b, <2>1, <2>2, <2>3, <2>4 DEF Carries
  <2>names. Names(a, b)
    BY <1>0, <1>r, <1>a, <1>b, <2>1, <2>2, <2>3, <2>4 DEF Names
  <2>others. OthersStayNew(r, b) /\ NewIsNobodys(b)
    BY <1>0, <1>r, <1>a, <1>b, <2>1, <2>2, <2>3, <2>4 DEF OthersStayNew, NewIsNobodys
  <2>step. RequestStep(r, a, b, 0)
    <3>1. TablesGo /\ TokensStay(0) /\ UNCHANGED <<dialog, reboots>>
      BY <1>0, <1>r, <1>a, <1>b, <2>1, <2>2, <2>3, <2>4
    <3>2. r \in DOMAIN asked /\ a \in AskRow /\ b \in AskRow /\ a = asked[r]
      BY <1>0, <1>r, <1>a, <1>b, <2>1, <2>2, <2>3, <2>4
    <3>3. asked' = [asked EXCEPT ![r] = b]
      BY <1>0, <1>r, <1>a, <1>b, <2>1, <2>2, <2>3, <2>4
    <3>4. b.token # 0 /\ Undisturbed(b.token)' => Fits(b)'
      BY <1>0, <1>r, <1>a, <1>b, <2>1, <2>2, <2>3, <2>4
    <3> QED BY <3>1, <3>2, <3>3, <3>4, <2>carries, <2>names, <2>others DEF RequestStep
  <2> QED BY <2>step, AskMoves
<1>2. CASE a.kind = "begin" /\ Cardinality(Found) = 1 /\ Attaches(r)
  <2>s. /\ pendingFlows' = pendingFlows \o Stored(SetToSeq(Found))
        /\ asked' = [asked EXCEPT ![r].at = "calling", ![r].flow = CHOOSE f \in Found : TRUE,
                                  ![r].token = Len(pendingFlows) + 1]
    BY <1>2 DEF Attaches
  <2>0. PICK g, t : g = (CHOOSE f \in Found : TRUE) /\ t = Len(pendingFlows) + 1
    OBVIOUS
  <2>a. DOMAIN pendingFlows' = 1..(Len(pendingFlows) + 1)
    BY <1>2, <2>s, FoundAreStored
  <2>b. t \in DOMAIN pendingFlows' \ DOMAIN pendingFlows /\ t \in Nat /\ t # 0
    BY <1>t, <2>0, <2>a
  <2>c. \A i \in DOMAIN pendingFlows' \ DOMAIN pendingFlows : pendingFlows'[i].flow \in Found
    BY <2>s, FoundAreStored
  <2>d. pendingFlows'[t].flow = g /\ g \in Found
    <3>1. IsFiniteSet(Found)
      <4>1. IsFiniteSet(1..Len(configFlow))
        BY <1>t, FS_Interval
      <4>2. Found \subseteq 1..Len(configFlow)
        BY <1>t DEF Found
      <4> QED BY <4>1, <4>2, FS_Subset
    <3>2. PICK h : Found = {h}
      BY <1>2, <3>1, FS_Singleton
    <3>3. g = h
      BY <2>0, <3>2
    <3> QED BY <2>b, <2>c, <3>2, <3>3
  <2>e. g \in DOMAIN configFlow /\ g \in Nat /\ g # 0
    BY <1>t, <2>d DEF Found
  <2>1. PICK b \in AskRow :
           /\ asked' = [asked EXCEPT ![r] = b]
           /\ b.at = "calling" /\ b.says = a.says /\ b.options = a.options
           /\ b.from = a.from /\ b.kind = a.kind /\ b.waited = a.waited /\ b.late = a.late
           /\ b.cut = a.cut /\ b.token = t /\ b.flow = g /\ b.met = a.met
    <3>1. PICK b : b = [a EXCEPT !.at = "calling", !.flow = g, !.token = t]
      OBVIOUS
    <3>2. asked' = [asked EXCEPT ![r] = b]
      <4>1. asked' = [asked EXCEPT ![r].at = "calling", ![r].flow = g, ![r].token = t]
        BY <2>s, <2>0, Zenon
      <4> QED BY <1>0, <3>1, <4>1
    <3>3. /\ b \in AskRow
          /\ b.at = "calling" /\ b.says = a.says /\ b.options = a.options
          /\ b.from = a.from /\ b.kind = a.kind /\ b.waited = a.waited /\ b.late = a.late
          /\ b.cut = a.cut /\ b.token = t /\ b.flow = g /\ b.met = a.met
      BY <1>r, <2>b, <2>e, <3>1 DEF AskRow
    <3> QED BY <3>2, <3>3
  <2>2. /\ TablesGo /\ TokensStay(0)
        /\ \A q \in DOMAIN asked : IsNew(asked[q]) =>
               \A i \in DOMAIN pendingFlows' \ DOMAIN pendingFlows :
                  pendingFlows'[i].flow # asked[q].flow
    BY <1>a, <2>s, FoundGoOn
  <2>3. a.token = 0
    BY <1>2, <1>a
  <2>4. IsActive(b) /\ OfKind(b) /\ OfStage(b) /\ OfFlow(b)' /\ ~IsNew(b) /\ Fits(b)'
    BY <1>2, <1>a, <2>1, <2>b, <2>d, <2>e DEF IsActive, OfKind, OfStage, OfFlow, IsNew, Fits
  <2>5. b.flow \in DOMAIN configFlow'
    BY <1>a, <2>1, <2>e
  <2>6. b.token \in DOMAIN pendingFlows' \ DOMAIN pendingFlows /\ \A i \in b.options : i \in a.options
    BY <2>1, <2>b
  <2>carries. Carries(a, b)
    BY <1>0, <1>r, <1>a, <1>b, <2>1, <2>2, <2>3, <2>4, <2>5, <2>6 DEF Carries
  <2>names. Names(a, b)
    BY <1>0, <1>r, <1>a, <1>b, <2>1, <2>2, <2>3, <2>4, <2>5, <2>6 DEF Names
  <2>others. OthersStayNew(r, b) /\ NewIsNobodys(b)
    BY <1>0, <1>r, <1>a, <1>b, <2>1, <2>2, <2>3, <2>4, <2>5, <2>6 DEF OthersStayNew, NewIsNobodys
  <2>step. RequestStep(r, a, b, 0)
    <3>1. TablesGo /\ TokensStay(0) /\ UNCHANGED <<dialog, reboots>>
      BY <1>0, <1>r, <1>a, <1>b, <2>1, <2>2, <2>3, <2>4, <2>5, <2>6
    <3>2. r \in DOMAIN asked /\ a \in AskRow /\ b \in AskRow /\ a = asked[r]
      BY <1>0, <1>r, <1>a, <1>b, <2>1, <2>2, <2>3, <2>4, <2>5, <2>6
    <3>3. asked' = [asked EXCEPT ![r] = b]
      BY <1>0, <1>r, <1>a, <1>b, <2>1, <2>2, <2>3, <2>4, <2>5, <2>6
    <3>4. b.token # 0 /\ Undisturbed(b.token)' => Fits(b)'
      BY <1>0, <1>r, <1>a, <1>b, <2>1, <2>2, <2>3, <2>4, <2>5, <2>6
    <3> QED BY <3>1, <3>2, <3>3, <3>4, <2>carries, <2>names, <2>others DEF RequestStep
  <2> QED BY <2>step, AskMoves
<1>3. CASE /\ a.kind = "begin" /\ Found = {}
           /\ asked' = [asked EXCEPT ![r].at = "calling"] /\ UNCHANGED pendingFlows
  <2>1. PICK b \in AskRow :
           /\ asked' = [asked EXCEPT ![r] = b]
           /\ b.at = "calling" /\ b.says = a.says /\ b.options = a.options
           /\ b.from = a.from /\ b.kind = a.kind /\ b.waited = a.waited /\ b.late = a.late
           /\ b.cut = a.cut /\ b.token = a.token /\ b.flow = a.flow /\ b.met = a.met
    <3>1. PICK b : b = [a EXCEPT !.at = "calling"]
      OBVIOUS
    <3>2. asked' = [asked EXCEPT ![r] = b]
      BY <1>0, <1>3, <3>1
    <3>3. /\ b \in AskRow
          /\ b.at = "calling" /\ b.says = a.says /\ b.options = a.options
          /\ b.from = a.from /\ b.kind = a.kind /\ b.waited = a.waited /\ b.late = a.late
          /\ b.cut = a.cut /\ b.token = a.token /\ b.flow = a.flow /\ b.met = a.met
      BY <1>r, <3>1 DEF AskRow
    <3> QED BY <3>2, <3>3
  <2>2. TablesGo /\ TokensStay(0) /\ DOMAIN pendingFlows' = DOMAIN pendingFlows
    BY <1>3, <1>a, TablesAreKept
  <2>4. IsActive(b) /\ OfKind(b) /\ OfStage(b) /\ OfFlow(b)' /\ ~IsNew(b) /\ Fits(b)'
    BY <1>3, <1>a, <2>1 DEF IsActive, OfKind, OfStage, OfFlow, IsNew, Fits
  <2>carries. Carries(a, b)
    BY <1>0, <1>r, <1>a, <1>b, <2>1, <2>2, <2>4 DEF Carries
  <2>names. Names(a, b)
    BY <1>0, <1>r, <1>a, <1>b, <2>1, <2>2, <2>4 DEF Names
  <2>others. OthersStayNew(r, b) /\ NewIsNobodys(b)
    BY <1>0, <1>r, <1>a, <1>b, <2>1, <2>2, <2>4 DEF OthersStayNew, NewIsNobodys
  <2>step. RequestStep(r, a, b, 0)
    <3>1. TablesGo /\ TokensStay(0) /\ UNCHANGED <<dialog, reboots>>
      BY <1>0, <1>r, <1>a, <1>b, <2>1, <2>2, <2>4
    <3>2. r \in DOMAIN asked /\ a \in AskRow /\ b \in AskRow /\ a = asked[r]
      BY <1>0, <1>r, <1>a, <1>b, <2>1, <2>2, <2>4
    <3>3. asked' = [asked EXCEPT ![r] = b]
      BY <1>0, <1>r, <1>a, <1>b, <2>1, <2>2, <2>4
    <3>4. b.token # 0 /\ Undisturbed(b.token)' => Fits(b)'
      BY <1>0, <1>r, <1>a, <1>b, <2>1, <2>2, <2>4
    <3> QED BY <3>1, <3>2, <3>3, <3>4, <2>carries, <2>names, <2>others DEF RequestStep
  <2> QED BY <2>step, AskMoves
<1>4. CASE a.kind \in {"look", "fill"} /\ Continues(r)
  <2>s. UNCHANGED pendingFlows
    BY <1>4 DEF Continues
  <2>2. TablesGo /\ TokensStay(0) /\ DOMAIN pendingFlows' = DOMAIN pendingFlows
    BY <1>a, <2>s, TablesAreKept
  <2>k. a.token # 0 /\ a.token \in DOMAIN pendingFlows
    BY <1>0, <1>4, <1>a DEF OfKind, IntegrationInv, NamesInv
  <2>3. CASE Stands(a.token) = 0
    <3>1. ~pendingFlows[a.token].known
      <4>1. pendingFlows[a.token].flow \in DOMAIN configFlow
        BY <2>k DEF IntegrationInv, NamesInv
      <4> QED BY <1>t, <2>3, <2>k, <4>1 DEF Stands
    <3>2. PICK b \in AskRow :
             /\ asked' = [asked EXCEPT ![r] = b]
             /\ b.at = "result" /\ b.says = "error" /\ b.options = a.options
             /\ b.from = a.from /\ b.kind = a.kind /\ b.waited = a.waited /\ b.late = a.late
             /\ b.cut = a.cut /\ b.token = a.token /\ b.flow = a.flow /\ b.met = a.met
      <4>1. PICK b : b = [a EXCEPT !.at = "result", !.says = "error"]
        OBVIOUS
      <4>2. asked' = [asked EXCEPT ![r] = b]
        BY <1>0, <1>4, <2>3, <4>1 DEF Continues
      <4>3. /\ b \in AskRow
            /\ b.at = "result" /\ b.says = "error" /\ b.options = a.options
            /\ b.from = a.from /\ b.kind = a.kind /\ b.waited = a.waited /\ b.late = a.late
            /\ b.cut = a.cut /\ b.token = a.token /\ b.flow = a.flow /\ b.met = a.met
        BY <1>r, <4>1 DEF AskRow
      <4> QED BY <4>2, <4>3
    <3>3. IsActive(b) /\ OfKind(b) /\ OfStage(b) /\ OfFlow(b)' /\ ~IsNew(b)
      BY <1>4, <1>a, <3>2 DEF IsActive, OfKind, OfStage, OfFlow, IsNew
    <3>4. Fits(b)'
      BY <1>a, <2>s, <3>1, <3>2 DEF Fits, Spent
    <3>carries. Carries(a, b)
      BY <1>0, <1>r, <1>a, <1>b, <2>2, <3>2, <3>3, <3>4 DEF Carries
    <3>names. Names(a, b)
      BY <1>0, <1>r, <1>a, <1>b, <2>2, <3>2, <3>3, <3>4 DEF Names
    <3>others. OthersStayNew(r, b) /\ NewIsNobodys(b)
      BY <1>0, <1>r, <1>a, <1>b, <2>2, <3>2, <3>3, <3>4 DEF OthersStayNew, NewIsNobodys
    <3>step. RequestStep(r, a, b, 0)
      <4>1. TablesGo /\ TokensStay(0) /\ UNCHANGED <<dialog, reboots>>
        BY <1>0, <1>r, <1>a, <1>b, <2>2, <3>2, <3>3, <3>4
      <4>2. r \in DOMAIN asked /\ a \in AskRow /\ b \in AskRow /\ a = asked[r]
        BY <1>0, <1>r, <1>a, <1>b, <2>2, <3>2, <3>3, <3>4
      <4>3. asked' = [asked EXCEPT ![r] = b]
        BY <1>0, <1>r, <1>a, <1>b, <2>2, <3>2, <3>3, <3>4
      <4>4. b.token # 0 /\ Undisturbed(b.token)' => Fits(b)'
        BY <1>0, <1>r, <1>a, <1>b, <2>2, <3>2, <3>3, <3>4
      <4> QED BY <4>1, <4>2, <4>3, <4>4, <3>carries, <3>names, <3>others DEF RequestStep
    <3> QED BY <3>step, AskMoves
  <2>4. CASE Stands(a.token) # 0
    <3>0. PICK f, d : /\ f = Stands(a.token)
                      /\ d = IF a.kind = "fill" THEN pendingFlows[a.token].step ELSE 0
      OBVIOUS
    <3>1. /\ f = pendingFlows[a.token].flow /\ f \in DOMAIN configFlow /\ f \in Nat /\ f # 0
          /\ pendingFlows[a.token].known /\ d \in Nat
      <4>1. pendingFlows[a.token].flow \in DOMAIN configFlow
        BY <2>k DEF IntegrationInv, NamesInv
      <4>2. pendingFlows[a.token] \in KeptRow
        BY <1>t, <2>k
      <4> QED BY <1>t, <2>4, <2>k, <3>0, <4>1, <4>2 DEF Stands, KeptRow
    <3>2. PICK b \in AskRow :
             /\ asked' = [asked EXCEPT ![r] = b]
             /\ b.at = "calling" /\ b.says = a.says /\ b.options = a.options
             /\ b.from = a.from /\ b.kind = a.kind /\ b.waited = a.waited /\ b.late = a.late
             /\ b.cut = a.cut /\ b.token = a.token /\ b.flow = f /\ b.met = a.met
             /\ b.decoded = d /\ b.filled = a.filled
      <4>1. PICK b : b = [a EXCEPT !.at = "calling", !.flow = f, !.decoded = d]
        OBVIOUS
      <4>2. asked' = [asked EXCEPT ![r] = b]
        BY <1>0, <1>4, <2>4, <3>0, <4>1 DEF Continues
      <4>3. /\ b \in AskRow
            /\ b.at = "calling" /\ b.says = a.says /\ b.options = a.options
            /\ b.from = a.from /\ b.kind = a.kind /\ b.waited = a.waited /\ b.late = a.late
            /\ b.cut = a.cut /\ b.token = a.token /\ b.flow = f /\ b.met = a.met
            /\ b.decoded = d /\ b.filled = a.filled
        BY <1>r, <3>1, <4>1 DEF AskRow
      <4> QED BY <4>2, <4>3
    <3>3. IsActive(b) /\ OfKind(b) /\ OfStage(b) /\ OfFlow(b)' /\ ~IsNew(b)
      BY <1>4, <1>a, <2>k, <2>s, <3>1, <3>2 DEF IsActive, OfKind, OfStage, OfFlow, IsNew
    <3>4. ASSUME Undisturbed(a.token)' PROVE Fits(b)'
      <4>1. \A q \in DOMAIN asked :
              /\ q \in DOMAIN asked' /\ asked'[q].token = asked[q].token
              /\ asked'[q].late = asked[q].late /\ asked'[q].cut = asked[q].cut
        BY <1>0, <1>t, <3>2
      <4>2. Undisturbed(a.token)
        BY <2>2, <2>k, <3>4, <4>1, UndisturbedBefore
      <4>3. Fits(a)
        BY <1>0, <2>k, <4>2 DEF IntegrationInv, CurrentInv
      <4> QED BY <1>a, <2>s, <3>0, <3>1, <3>2, <4>3 DEF Fits, Spent, IsAt, FlowOf
    <3>5. b.flow \in DOMAIN configFlow'
      BY <1>a, <3>1, <3>2
    <3>carries. Carries(a, b)
      BY <1>0, <1>r, <1>a, <1>b, <2>2, <3>2, <3>3, <3>4, <3>5 DEF Carries
    <3>names. Names(a, b)
      BY <1>0, <1>r, <1>a, <1>b, <2>2, <3>2, <3>3, <3>4, <3>5 DEF Names
    <3>others. OthersStayNew(r, b) /\ NewIsNobodys(b)
      BY <1>0, <1>r, <1>a, <1>b, <2>2, <3>2, <3>3, <3>4, <3>5 DEF OthersStayNew, NewIsNobodys
    <3>step. RequestStep(r, a, b, 0)
      <4>1. TablesGo /\ TokensStay(0) /\ UNCHANGED <<dialog, reboots>>
        BY <1>0, <1>r, <1>a, <1>b, <2>2, <3>2, <3>3, <3>4, <3>5
      <4>2. r \in DOMAIN asked /\ a \in AskRow /\ b \in AskRow /\ a = asked[r]
        BY <1>0, <1>r, <1>a, <1>b, <2>2, <3>2, <3>3, <3>4, <3>5
      <4>3. asked' = [asked EXCEPT ![r] = b]
        BY <1>0, <1>r, <1>a, <1>b, <2>2, <3>2, <3>3, <3>4, <3>5
      <4>4. b.token # 0 /\ Undisturbed(b.token)' => Fits(b)'
        BY <1>0, <1>r, <1>a, <1>b, <2>2, <3>2, <3>3, <3>4, <3>5
      <4> QED BY <4>1, <4>2, <4>3, <4>4, <3>carries, <3>names, <3>others DEF RequestStep
    <3> QED BY <3>step, AskMoves
  <2> QED BY <2>3, <2>4
<1> QED BY <1>0, <1>1, <1>2, <1>3, <1>4 DEF HandleIntegrate
\* The fields of a request that stay as it goes on.
Same(b, a) ==
    /\ b.from = a.from /\ b.kind = a.kind /\ b.waited = a.waited /\ b.late = a.late
    /\ b.options = a.options /\ b.filled = a.filled /\ b.decoded = a.decoded

\* Where the tables stay, all that matters is the request itself.
LEMMA RequestAlone ==
  ASSUME IntegrationInv, UNCHANGED <<configFlow, pendingFlows, dialog, reboots, devicesMade>>,
         deviceRows \subseteq deviceRows', deviceRows' \subseteq devicesMade,
         NEW r \in DOMAIN asked, NEW a \in AskRow, NEW b \in AskRow, a = asked[r],
         asked' = [asked EXCEPT ![r] = b],
         IsActive(a), IsActive(b), OfKind(b), OfStage(b), OfFlow(b)', ~IsNew(b), Same(b, a),
         a.cut => b.cut, b.token = a.token, b.flow \in DOMAIN configFlow \cup {0},
         a.token # 0 /\ Undisturbed(a.token) /\ ~b.cut /\ Fits(a) => Fits(b)
  PROVE  IntegrationInv'
<1>t. /\ asked \in Seq(AskRow) /\ pendingFlows \in Seq(KeptRow) /\ configFlow \in Seq(FlowRow)
      /\ devicesMade \subseteq Nat
      /\ \A t \in DOMAIN pendingFlows : pendingFlows[t].flow \in DOMAIN configFlow
      /\ asked[r].token \in DOMAIN pendingFlows \cup {0}
  BY DEF IntegrationInv, IntegrationTypes, NamesInv
<1>1. TablesGo /\ TokensStay(0)
  BY <1>t DEF TablesGo, TokensStay
<1>2. ASSUME b.token # 0, Undisturbed(b.token)' PROVE Fits(b)'
  <2>1. \A q \in DOMAIN asked :
          /\ q \in DOMAIN asked' /\ asked'[q].token = asked[q].token
          /\ asked[q].late => asked'[q].late
          /\ asked[q].cut => asked'[q].cut
    BY <1>t DEF Same
  <2>2. a.token \in DOMAIN pendingFlows
    BY <1>t, <1>2
  <2>3. Undisturbed(a.token)
    BY <1>1, <1>2, <2>1, <2>2, UndisturbedBefore
  <2>4. asked'[r] = b
    BY <1>t
  <2>5. ~b.cut
    BY <1>t, <1>2, <2>4 DEF Undisturbed
  <2>6. Fits(a)
    BY <1>2, <2>3 DEF IntegrationInv, CurrentInv
  <2>7. Fits(b)
    BY <1>2, <2>3, <2>5, <2>6
  <2> QED BY <2>7 DEF Fits, Spent, IsAt, FlowOf
<1>3. /\ b.from = a.from /\ b.kind = a.kind /\ b.waited = a.waited /\ b.late = a.late
      /\ b.options = a.options
  BY DEF Same
<1>4. \A q \in DOMAIN asked : q # r /\ IsNew(asked[q]) =>
            /\ \A t \in DOMAIN pendingFlows' \ DOMAIN pendingFlows :
                  pendingFlows'[t].flow # asked[q].flow
            /\ IsNew(b) => b.flow # asked[q].flow
  OBVIOUS
<1>carries. Carries(a, b)
  BY <1>1, <1>2, <1>3, <1>4 DEF Carries
<1>names. Names(a, b)
  BY <1>1, <1>2, <1>3, <1>4 DEF Names
<1>others. OthersStayNew(r, b) /\ NewIsNobodys(b)
  BY <1>1, <1>2, <1>3, <1>4 DEF OthersStayNew, NewIsNobodys
<1>step. RequestStep(r, a, b, 0)
  <2>1. TablesGo /\ TokensStay(0) /\ UNCHANGED <<dialog, reboots>>
    BY <1>1, <1>2, <1>3, <1>4
  <2>2. r \in DOMAIN asked /\ a \in AskRow /\ b \in AskRow /\ a = asked[r]
    BY <1>1, <1>2, <1>3, <1>4
  <2>3. asked' = [asked EXCEPT ![r] = b]
    BY <1>1, <1>2, <1>3, <1>4
  <2>4. b.token # 0 /\ Undisturbed(b.token)' => Fits(b)'
    BY <1>1, <1>2, <1>3, <1>4
  <2> QED BY <2>1, <2>2, <2>3, <2>4, <1>carries, <1>names, <1>others DEF RequestStep
<1> QED BY <1>step, AskMoves

\* The devices a flow made are those that have their row since.
LEMMA CollectingKeeps ==
  ASSUME IntegrationInv, NEW r \in DOMAIN asked, CollectDevices(r)
  PROVE  IntegrationInv'
<1>0. PICK a : a = asked[r]
  OBVIOUS
<1>r. a \in AskRow /\ deviceRows \subseteq devicesMade
  BY <1>0 DEF IntegrationInv, IntegrationTypes
<1>a. /\ a.at = "collecting" /\ OfKind(a) /\ OfStage(a) /\ OfFlow(a)
      /\ a.flow \in DOMAIN configFlow \cup {0}
      /\ deviceRows' = devicesMade
      /\ UNCHANGED <<configFlow, pendingFlows, dialog, reboots, devicesMade>>
  BY <1>0 DEF CollectDevices, IntegrationInv, RowsInv, NamesInv
<1>d. PICK d : d = devicesMade \ a.devices
  OBVIOUS
<1>1. asked' = [asked EXCEPT ![r].at = "result", ![r].devices = d]
  BY <1>0, <1>d DEF CollectDevices
<1>n. d \in SUBSET Nat
  BY <1>d DEF IntegrationInv, IntegrationTypes
<1>2. PICK b : b = [a EXCEPT !.at = "result", !.devices = d]
  OBVIOUS
<1>3. asked' = [asked EXCEPT ![r] = b]
  BY <1>0, <1>1, <1>2
<1>4. /\ b \in AskRow /\ Same(b, a) /\ b.at = "result" /\ b.says = a.says /\ b.devices = d
      /\ b.cut = a.cut /\ b.token = a.token /\ b.flow = a.flow /\ b.met = a.met
  BY <1>r, <1>n, <1>2 DEF AskRow, Same
<1>5. /\ IsActive(a) /\ IsActive(b) /\ OfKind(b) /\ OfStage(b) /\ ~IsNew(b)
      /\ Fits(a) => Fits(b)
  BY <1>a, <1>4 DEF IsActive, OfKind, OfStage, IsNew, Fits, Same
<1>6. OfFlow(b)'
  BY <1>a, <1>d, <1>4 DEF OfFlow
<1> QED BY <1>0, <1>r, <1>a, <1>3, <1>4, <1>5, <1>6, RequestAlone

\* A request the runtime gave up on disturbs its token.
LEMMA CuttingKeeps ==
  ASSUME IntegrationInv, NEW r \in DOMAIN asked, RestTimesOut(r)
  PROVE  IntegrationInv'
<1>0. PICK a : a = asked[r]
  OBVIOUS
<1>r. a \in AskRow /\ deviceRows \subseteq devicesMade
  BY <1>0 DEF IntegrationInv, IntegrationTypes
<1>a. /\ a.at \in {"calling", "heard"} /\ OfKind(a) /\ OfStage(a) /\ OfFlow(a)
      /\ a.flow \in DOMAIN configFlow \cup {0}
      /\ UNCHANGED <<configFlow, pendingFlows, dialog, reboots, devicesMade, deviceRows>>
  BY <1>0 DEF RestTimesOut, IntegrationInv, RowsInv, NamesInv
<1>2. PICK b : b = [a EXCEPT !.at = "result", !.says = "error", !.cut = TRUE]
  OBVIOUS
<1>3. asked' = [asked EXCEPT ![r] = b]
  BY <1>0, <1>2 DEF RestTimesOut
<1>4. /\ b \in AskRow /\ Same(b, a) /\ b.at = "result" /\ b.says = "error"
      /\ b.cut /\ b.token = a.token /\ b.flow = a.flow /\ b.met = a.met
  BY <1>r, <1>2 DEF AskRow, Same
<1>5. IsActive(a) /\ IsActive(b) /\ OfKind(b) /\ OfStage(b) /\ ~IsNew(b)
  BY <1>a, <1>4 DEF IsActive, OfKind, OfStage, IsNew, Same
<1>6. OfFlow(b)'
  BY <1>a, <1>4 DEF OfFlow
<1> QED BY <1>0, <1>r, <1>a, <1>3, <1>4, <1>5, <1>6, RequestAlone

\* What Home Assistant answers without changing the flow.
LEMMA HearingKeeps ==
  ASSUME IntegrationInv, NEW r \in DOMAIN asked, NEW a \in AskRow, a = asked[r],
         UNCHANGED <<configFlow, pendingFlows, dialog, reboots, devicesMade, deviceRows>>,
         a.at = "calling", a.flow # 0,
         NEW says \in {"form", "external", "error"}, NEW step \in Nat,
         IF says = "form" THEN step = configFlow[a.flow].at
         ELSE configFlow[a.flow].is # "open",
         Hears(r, a.flow, says, step)
  PROVE  IntegrationInv'
<1>r. a \in AskRow /\ deviceRows \subseteq devicesMade /\ configFlow \in Seq(FlowRow)
  BY DEF IntegrationInv, IntegrationTypes
<1>a. OfKind(a) /\ OfStage(a) /\ OfFlow(a) /\ a.flow \in DOMAIN configFlow
  BY DEF IntegrationInv, RowsInv, NamesInv
<1>m. PICK m : m = IF a.kind = "fill" /\ configFlow[a.flow].is = "open"
                   THEN configFlow[a.flow].at ELSE 0
  OBVIOUS
<1>n. m \in Nat
  <2>1. configFlow[a.flow] \in FlowRow
    BY <1>r, <1>a
  <2> QED BY <1>m, <2>1 DEF FlowRow
<1>2. PICK b : b = [a EXCEPT !.at = "heard", !.flow = a.flow, !.says = says, !.step = step, !.met = m]
  OBVIOUS
<1>3. asked' = [asked EXCEPT ![r] = b]
  BY <1>m, <1>2 DEF Hears
<1>4. /\ b \in AskRow /\ Same(b, a) /\ b.at = "heard" /\ b.says = says /\ b.step = step
      /\ b.cut = a.cut /\ b.token = a.token /\ b.flow = a.flow /\ b.met = m
  BY <1>r, <1>n, <1>2 DEF AskRow, Same
<1>5. a.token # 0 /\ pendingFlows[a.token].flow = a.flow
  BY <1>a DEF OfStage, OfFlow
<1>6. IsActive(a) /\ IsActive(b) /\ OfKind(b) /\ OfStage(b) /\ ~IsNew(b)
  BY <1>a, <1>m, <1>4, <1>5 DEF IsActive, OfKind, OfStage, IsNew, Same
<1>7. OfFlow(b)'
  BY <1>a, <1>4 DEF OfFlow
<1>8. Fits(a) => Fits(b)
  BY <1>m, <1>4, <1>5 DEF Fits, FlowOf, Same
<1> QED BY <1>r, <1>a, <1>3, <1>4, <1>6, <1>7, <1>8, RequestAlone

\* Home Assistant shows a flow as it is.
LEMMA ShowingKeeps ==
  ASSUME IntegrationInv, NEW r \in DOMAIN asked, HaShows(r)
  PROVE  IntegrationInv'
<1>0. PICK a : a = asked[r]
  OBVIOUS
<1>r. a \in AskRow /\ configFlow \in Seq(FlowRow)
  BY <1>0 DEF IntegrationInv, IntegrationTypes
<1>a. /\ a.at = "calling" /\ a.flow # 0
      /\ \/ configFlow[a.flow].is = "open" /\ Hears(r, a.flow, "form", configFlow[a.flow].at)
         \/ configFlow[a.flow].is = "external" /\ Hears(r, a.flow, "external", 0)
         \/ ~InProgress(a.flow) /\ Hears(r, a.flow, "error", 0)
      /\ UNCHANGED <<configFlow, pendingFlows, dialog, reboots, devicesMade, deviceRows>>
  BY <1>0 DEF HaShows
<1>b. configFlow[a.flow] \in FlowRow
  BY <1>0, <1>r, <1>a DEF IntegrationInv, NamesInv
<1>c. configFlow[a.flow].at \in Nat
  BY <1>b DEF FlowRow
<1>1. CASE configFlow[a.flow].is = "open" /\ Hears(r, a.flow, "form", configFlow[a.flow].at)
  BY <1>0, <1>r, <1>a, <1>c, <1>1, HearingKeeps
<1>2. CASE configFlow[a.flow].is = "external" /\ Hears(r, a.flow, "external", 0)
  BY <1>0, <1>r, <1>a, <1>2, HearingKeeps
<1>3. CASE ~InProgress(a.flow) /\ Hears(r, a.flow, "error", 0)
  <2>1. configFlow[a.flow].is # "open"
    BY <1>3 DEF InProgress
  <2> QED BY <1>0, <1>r, <1>a, <1>3, <2>1, HearingKeeps
<1> QED BY <1>a, <1>1, <1>2, <1>3
\* What a form that was sent does to its flow.
LEMMA DrivingKeeps ==
  ASSUME IntegrationInv, NEW r \in DOMAIN asked, NEW a \in AskRow, a = asked[r],
         UNCHANGED <<pendingFlows, dialog, reboots, devicesMade, deviceRows>>,
         a.at = "calling", a.kind = "fill", a.flow # 0, configFlow[a.flow].is = "open",
         NEW c \in FlowRow, configFlow' = [configFlow EXCEPT ![a.flow] = c],
         c.found = configFlow[a.flow].found,
         NEW says \in {"form", "entry", "abort", "external"}, NEW step \in Nat,
         IF says = "form" THEN step = c.at ELSE c.is # "open",
         says = "entry" => c.is = "entry",
         Hears(r, a.flow, says, step)
  PROVE  IntegrationInv'
<1>t. /\ asked \in Seq(AskRow) /\ pendingFlows \in Seq(KeptRow) /\ configFlow \in Seq(FlowRow)
      /\ deviceRows \subseteq devicesMade /\ devicesMade \subseteq Nat
      /\ \A t \in DOMAIN pendingFlows : pendingFlows[t].flow \in DOMAIN configFlow
      /\ a.token \in DOMAIN pendingFlows \cup {0}
  BY DEF IntegrationInv, IntegrationTypes, NamesInv
<1>a. OfKind(a) /\ OfStage(a) /\ OfFlow(a) /\ a.flow \in DOMAIN configFlow
  BY DEF IntegrationInv, RowsInv, NamesInv
<1>m. PICK m : m = configFlow[a.flow].at
  OBVIOUS
<1>n. m \in Nat
  <2>1. configFlow[a.flow] \in FlowRow
    BY <1>t, <1>a
  <2> QED BY <1>m, <2>1 DEF FlowRow
<1>2. PICK b : b = [a EXCEPT !.at = "heard", !.flow = a.flow, !.says = says, !.step = step, !.met = m]
  OBVIOUS
<1>3. asked' = [asked EXCEPT ![r] = b]
  BY <1>m, <1>2 DEF Hears
<1>4. /\ b \in AskRow /\ Same(b, a) /\ b.at = "heard" /\ b.says = says /\ b.step = step
      /\ b.cut = a.cut /\ b.token = a.token /\ b.flow = a.flow /\ b.met = m
  <2>1. b \in AskRow
    <3>0. PICK d, f : d = [a EXCEPT !.at = "heard", !.flow = f] /\ f = a.flow
      OBVIOUS
    <3>1. d = [a EXCEPT !.at = "heard", !.flow = a.flow]
      BY <3>0
    <3>2. d \in AskRow
      <4>1. f \in Nat /\ a \in AskRow
        BY <3>0 DEF AskRow
      <4>2. d = [a EXCEPT !.at = "heard", !.flow = f]
        BY <3>0
      <4> QED BY ONLY <4>1, <4>2 DEF AskRow
    <3>3. b = [d EXCEPT !.says = says, !.step = step, !.met = m]
      BY <1>2, <3>1, Zenon
    <3> QED BY <1>n, <3>2, <3>3 DEF AskRow
  <2> QED BY <1>2, <2>1 DEF AskRow, Same
<1>5. a.token # 0 /\ a.token \in DOMAIN pendingFlows /\ pendingFlows[a.token].flow = a.flow
  BY <1>t, <1>a DEF OfStage, OfFlow
<1>6. IsActive(a) /\ IsActive(b) /\ OfKind(b) /\ OfStage(b) /\ ~IsNew(b)
  BY <1>a, <1>4, <1>5 DEF IsActive, OfKind, OfStage, IsNew, Same
<1>7. /\ configFlow' \in Seq(FlowRow) /\ DOMAIN configFlow' = DOMAIN configFlow
      /\ configFlow'[a.flow] = c
      /\ \A f \in DOMAIN configFlow : f # a.flow => configFlow'[f] = configFlow[f]
  BY <1>t, <1>a
<1>8. TablesGo
  BY <1>t, <1>7 DEF TablesGo
<1>9. TokensStay(a.token)
  BY <1>5, <1>7 DEF TokensStay
<1>10. OfFlow(b)'
  BY <1>4, <1>5, <1>7 DEF OfFlow
<1>11. ASSUME Undisturbed(a.token)' PROVE Fits(b)'
  <2>1. \A q \in DOMAIN asked :
          /\ q \in DOMAIN asked' /\ asked'[q].token = asked[q].token
          /\ asked[q].late => asked'[q].late
          /\ asked[q].cut => asked'[q].cut
    BY <1>t, <1>3, <1>4 DEF Same
  <2>2. Undisturbed(a.token)
    BY <1>5, <1>8, <1>11, <2>1, UndisturbedBefore
  <2>3. Fits(a)
    BY <1>5, <2>2 DEF IntegrationInv, CurrentInv
  <2> QED BY <1>m, <1>4, <1>5, <1>7, <2>3 DEF Fits, FlowOf, Same
<1>12. /\ b.from = a.from /\ b.kind = a.kind /\ b.waited = a.waited /\ b.late = a.late
       /\ b.options = a.options
  BY <1>4 DEF Same
<1>13. \A q \in DOMAIN asked : q # r /\ IsNew(asked[q]) =>
             /\ \A t \in DOMAIN pendingFlows' \ DOMAIN pendingFlows :
                   pendingFlows'[t].flow # asked[q].flow
             /\ IsNew(b) => b.flow # asked[q].flow
  BY <1>6
<1>14. /\ b.flow \in DOMAIN configFlow' /\ b.token = a.token /\ b.cut = a.cut
       /\ UNCHANGED <<dialog, reboots>> /\ b \in AskRow
  BY <1>a, <1>4, <1>7
<1>15. b.token # 0 /\ Undisturbed(b.token)' => Fits(b)'
  BY <1>11, <1>14
<1>16. \A t \in b.options : t \in a.options
  BY <1>12
<1>carries. Carries(a, b)
  BY <1>3, <1>6, <1>8, <1>9, <1>10, <1>12, <1>13, <1>14, <1>15, <1>16 DEF Carries
<1>names. Names(a, b)
  BY <1>3, <1>6, <1>8, <1>9, <1>10, <1>12, <1>13, <1>14, <1>15, <1>16 DEF Names
<1>others. OthersStayNew(r, b) /\ NewIsNobodys(b)
  BY <1>3, <1>6, <1>8, <1>9, <1>10, <1>12, <1>13, <1>14, <1>15, <1>16 DEF OthersStayNew, NewIsNobodys
<1>step. RequestStep(r, a, b, a.token)
  <2>1. TablesGo /\ TokensStay(a.token) /\ UNCHANGED <<dialog, reboots>>
    BY <1>3, <1>6, <1>8, <1>9, <1>10, <1>12, <1>13, <1>14, <1>15, <1>16
  <2>2. r \in DOMAIN asked /\ a \in AskRow /\ b \in AskRow /\ a = asked[r]
    BY <1>3, <1>6, <1>8, <1>9, <1>10, <1>12, <1>13, <1>14, <1>15, <1>16
  <2>3. asked' = [asked EXCEPT ![r] = b]
    BY <1>3, <1>6, <1>8, <1>9, <1>10, <1>12, <1>13, <1>14, <1>15, <1>16
  <2>4. b.token # 0 /\ Undisturbed(b.token)' => Fits(b)'
    BY <1>3, <1>6, <1>8, <1>9, <1>10, <1>12, <1>13, <1>14, <1>15, <1>16
  <2> QED BY <2>1, <2>2, <2>3, <2>4, <1>carries, <1>names, <1>others DEF RequestStep
<1> QED BY <1>step, AskMoves

\* Home Assistant takes a form: nobody else drives the flow of an undisturbed token, so the
\* form that comes back is the one the flow is at.
LEMMA TakingKeeps ==
  ASSUME IntegrationInv, NEW r \in DOMAIN asked, HaTakes(r)
  PROVE  IntegrationInv'
<1>0. PICK a : a = asked[r]
  OBVIOUS
<1>r. a \in AskRow /\ configFlow \in Seq(FlowRow)
  BY <1>0 DEF IntegrationInv, IntegrationTypes
<1>a. /\ a.at = "calling" /\ a.kind = "fill"
      /\ UNCHANGED <<pendingFlows, dialog, reboots, devicesMade, deviceRows>>
  BY <1>0 DEF HaTakes
<1>b. a.flow # 0 /\ a.flow \in DOMAIN configFlow
  BY <1>0, <1>a DEF IntegrationInv, RowsInv, OfKind, OfStage, NamesInv
<1>k. PICK k : k = configFlow[a.flow]
  OBVIOUS
<1>c. k \in FlowRow /\ k.at \in Nat /\ k.at + 1 \in Nat
  <2>1. k \in FlowRow
    BY <1>r, <1>b, <1>k
  <2> QED BY <2>1 DEF FlowRow
<1>1. CASE /\ k.is = "open" /\ Hears(r, a.flow, "form", k.at + 1)
           /\ configFlow' = [configFlow EXCEPT ![a.flow].at = @ + 1]
  <2>1. PICK c : c = [k EXCEPT !.at = k.at + 1]
    OBVIOUS
  <2>2. c \in FlowRow /\ c.at = k.at + 1 /\ c.found = k.found
    BY <1>c, <2>1 DEF FlowRow
  <2>3. configFlow' = [configFlow EXCEPT ![a.flow] = c]
    BY <1>1, <1>k, <2>1
  <2> QED BY <1>0, <1>r, <1>a, <1>b, <1>c, <1>k, <1>1, <2>2, <2>3, DrivingKeeps
<1>2. ASSUME NEW says \in {"entry", "abort", "external"}, NEW state \in {"entry", "gone", "external"},
             says = "entry" => state = "entry",
             k.is = "open", Hears(r, a.flow, says, 0), FlowIs(a.flow, state)
      PROVE  IntegrationInv'
  <2>1. PICK c : c = [k EXCEPT !.is = state]
    OBVIOUS
  <2>2. c \in FlowRow /\ c.is = state /\ c.found = k.found
    BY <1>c, <2>1 DEF FlowRow
  <2>3. configFlow' = [configFlow EXCEPT ![a.flow] = c]
    BY <1>2, <1>k, <2>1 DEF FlowIs
  <2> QED BY <1>0, <1>r, <1>a, <1>b, <1>k, <1>2, <2>2, <2>3, DrivingKeeps
<1>3. CASE k.is = "open" /\ Hears(r, a.flow, "form", k.at) /\ UNCHANGED configFlow
  BY <1>0, <1>r, <1>a, <1>b, <1>c, <1>k, <1>3, HearingKeeps
<1>4. CASE k.is # "open" /\ Hears(r, a.flow, "error", 0) /\ UNCHANGED configFlow
  BY <1>0, <1>r, <1>a, <1>b, <1>k, <1>4, HearingKeeps
<1>5. \/ /\ k.is = "open" /\ Hears(r, a.flow, "form", k.at + 1)
         /\ configFlow' = [configFlow EXCEPT ![a.flow].at = @ + 1]
      \/ k.is = "open" /\ Hears(r, a.flow, "entry", 0) /\ FlowIs(a.flow, "entry")
      \/ k.is = "open" /\ Hears(r, a.flow, "form", k.at) /\ UNCHANGED configFlow
      \/ k.is = "open" /\ Hears(r, a.flow, "abort", 0) /\ FlowIs(a.flow, "gone")
      \/ k.is = "open" /\ Hears(r, a.flow, "external", 0) /\ FlowIs(a.flow, "external")
      \/ k.is # "open" /\ Hears(r, a.flow, "error", 0) /\ UNCHANGED configFlow
  BY <1>0, <1>k DEF HaTakes
<1> QED BY <1>1, <1>2, <1>3, <1>4, <1>5

\* A flow that is begun is nobody else's.
LEMMA BeginningKeeps ==
  ASSUME IntegrationInv, NEW r \in DOMAIN asked, HaBegins(r)
  PROVE  IntegrationInv'
<1>0. PICK a : a = asked[r]
  OBVIOUS
<1>t. /\ a \in AskRow /\ asked \in Seq(AskRow) /\ pendingFlows \in Seq(KeptRow)
      /\ configFlow \in Seq(FlowRow)
      /\ deviceRows \subseteq devicesMade /\ devicesMade \subseteq Nat
      /\ \A t \in DOMAIN pendingFlows : pendingFlows[t].flow \in DOMAIN configFlow
  BY <1>0 DEF IntegrationInv, IntegrationTypes, NamesInv
<1>a. /\ a.at = "calling" /\ a.flow = 0 /\ OfKind(a) /\ OfStage(a)
      /\ UNCHANGED <<pendingFlows, dialog, reboots, devicesMade, deviceRows>>
  BY <1>0 DEF HaBegins, IntegrationInv, RowsInv
<1>f. PICK f : f = Len(configFlow) + 1
  OBVIOUS
<1>1. PICK c : c = [at |-> 1, is |-> "open", found |-> FALSE]
  OBVIOUS
<1>2. c \in FlowRow /\ c.at = 1 /\ ~c.found
  BY <1>1 DEF FlowRow
<1>3. /\ f \in Nat /\ f # 0 /\ f \notin DOMAIN configFlow
      /\ configFlow' \in Seq(FlowRow) /\ DOMAIN configFlow' = DOMAIN configFlow \cup {f}
      /\ configFlow'[f] = c
      /\ \A g \in DOMAIN configFlow : configFlow'[g] = configFlow[g]
  <2>1. configFlow' = Append(configFlow, c)
    BY <1>0, <1>1 DEF HaBegins
  <2>2. DOMAIN configFlow = 1..Len(configFlow) /\ Len(configFlow) \in Nat
    BY <1>t
  <2> QED BY <1>t, <1>f, <1>2, <2>1, <2>2
<1>4. PICK b : b = [a EXCEPT !.at = "heard", !.flow = f, !.says = "form", !.step = 1]
  OBVIOUS
<1>5. asked' = [asked EXCEPT ![r] = b]
  BY <1>0, <1>f, <1>4 DEF HaBegins
<1>6. /\ b \in AskRow /\ Same(b, a) /\ b.at = "heard" /\ b.says = "form" /\ b.step = 1
      /\ b.cut = a.cut /\ b.token = a.token /\ b.flow = f /\ b.met = a.met
  BY <1>t, <1>3, <1>4 DEF AskRow, Same
<1>7. a.token = 0 /\ a.kind # "fill"
  BY <1>a DEF OfStage, OfKind
<1>8. IsActive(a) /\ IsActive(b) /\ OfKind(b) /\ OfStage(b) /\ IsNew(b)
  BY <1>a, <1>3, <1>6, <1>7 DEF IsActive, OfKind, OfStage, IsNew, Same
<1>9. TablesGo /\ TokensStay(0)
  BY <1>t, <1>a, <1>3 DEF TablesGo, TokensStay
<1>10. OfFlow(b)'
  BY <1>6, <1>7 DEF OfFlow
<1>11. \A q \in DOMAIN asked : q # r /\ IsNew(asked[q]) =>
             /\ \A t \in DOMAIN pendingFlows' \ DOMAIN pendingFlows :
                   pendingFlows'[t].flow # asked[q].flow
             /\ IsNew(b) => b.flow # asked[q].flow
  <2>1. ASSUME NEW q \in DOMAIN asked, IsNew(asked[q]) PROVE asked[q].flow \in DOMAIN configFlow
    BY <2>1 DEF IntegrationInv, NamesInv, RowsInv, OfStage, IsNew
  <2> QED BY <1>a, <1>3, <1>6, <2>1
<1>12. /\ b.step = configFlow'[b.flow].at /\ ~configFlow'[b.flow].found
       /\ \A t \in DOMAIN pendingFlows' : pendingFlows'[t].flow # b.flow
  BY <1>t, <1>a, <1>2, <1>3, <1>6
<1>13. /\ b.from = a.from /\ b.kind = a.kind /\ b.waited = a.waited /\ b.late = a.late
       /\ b.options = a.options /\ b.flow \in DOMAIN configFlow'
       /\ b.token = a.token /\ b.token = 0 /\ a.token = 0 /\ b.cut = a.cut
       /\ a \in AskRow /\ b \in AskRow /\ UNCHANGED <<dialog, reboots>>
  BY <1>t, <1>a, <1>3, <1>6, <1>7 DEF Same
<1>carries. Carries(a, b)
  BY <1>0, <1>5, <1>8, <1>9, <1>10, <1>11, <1>12, <1>13 DEF Carries
<1>names. Names(a, b)
  BY <1>0, <1>5, <1>8, <1>9, <1>10, <1>11, <1>12, <1>13 DEF Names
<1>others. OthersStayNew(r, b) /\ NewIsNobodys(b)
  BY <1>0, <1>5, <1>8, <1>9, <1>10, <1>11, <1>12, <1>13 DEF OthersStayNew, NewIsNobodys
<1>step. RequestStep(r, a, b, 0)
  <2>1. TablesGo /\ TokensStay(0) /\ UNCHANGED <<dialog, reboots>>
    BY <1>0, <1>5, <1>8, <1>9, <1>10, <1>11, <1>12, <1>13
  <2>2. r \in DOMAIN asked /\ a \in AskRow /\ b \in AskRow /\ a = asked[r]
    BY <1>0, <1>5, <1>8, <1>9, <1>10, <1>11, <1>12, <1>13
  <2>3. asked' = [asked EXCEPT ![r] = b]
    BY <1>0, <1>5, <1>8, <1>9, <1>10, <1>11, <1>12, <1>13
  <2>4. b.token # 0 /\ Undisturbed(b.token)' => Fits(b)'
    BY <1>0, <1>5, <1>8, <1>9, <1>10, <1>11, <1>12, <1>13
  <2> QED BY <2>1, <2>2, <2>3, <2>4, <1>carries, <1>names, <1>others DEF RequestStep
<1> QED BY <1>step, AskMoves
\* What was heard of a flow is kept under its token.
LEMMA StoringKeeps ==
  ASSUME IntegrationInv, NEW r \in DOMAIN asked, NEW a \in AskRow, a = asked[r],
         UNCHANGED <<configFlow, dialog, reboots, devicesMade, deviceRows>>,
         a.at = "heard", a.token # 0,
         NEW k \in KeptRow, pendingFlows' = [pendingFlows EXCEPT ![a.token] = k], k.flow = a.flow,
         NEW b \in AskRow, asked' = [asked EXCEPT ![r] = b],
         Same(b, a), b.token = a.token, b.flow = a.flow, b.cut = a.cut, b.met = a.met,
         \/ a.says = "form" /\ k.step = a.step /\ k.known
               /\ b.at = "result" /\ b.says = "form" /\ b.step = a.step
         \/ a.says = "entry" /\ b.at = "collecting" /\ b.says = "done"
         \/ a.says # "form" /\ ~k.known /\ b.at = "result" /\ b.says = "error"
  PROVE  IntegrationInv'
<1>t. /\ asked \in Seq(AskRow) /\ pendingFlows \in Seq(KeptRow) /\ configFlow \in Seq(FlowRow)
      /\ deviceRows \subseteq devicesMade /\ devicesMade \subseteq Nat
      /\ \A t \in DOMAIN pendingFlows : pendingFlows[t].flow \in DOMAIN configFlow
      /\ a.token \in DOMAIN pendingFlows
  BY DEF IntegrationInv, IntegrationTypes, NamesInv
<1>a. OfKind(a) /\ OfStage(a) /\ OfFlow(a)
  BY DEF IntegrationInv, RowsInv
<1>b. /\ a.flow # 0 /\ pendingFlows[a.token].flow = a.flow /\ a.flow \in DOMAIN configFlow
      /\ a.says = "entry" => configFlow[a.flow].is = "entry"
  <2>1. a.flow # 0 /\ a.flow \in DOMAIN configFlow \cup {0}
    BY <1>a DEF OfStage, IntegrationInv, NamesInv
  <2> QED BY <1>a, <2>1 DEF OfFlow
<1>1. /\ pendingFlows' \in Seq(KeptRow) /\ DOMAIN pendingFlows' = DOMAIN pendingFlows
      /\ pendingFlows'[a.token] = k
      /\ \A t \in DOMAIN pendingFlows : t # a.token => pendingFlows'[t] = pendingFlows[t]
  BY <1>t
<1>2. /\ b.from = a.from /\ b.kind = a.kind /\ b.waited = a.waited /\ b.late = a.late
      /\ b.options = a.options /\ b.filled = a.filled /\ b.decoded = a.decoded
  BY DEF Same
<1>3. TablesGo
  <2>1. \A t \in DOMAIN pendingFlows :
           t \in DOMAIN pendingFlows' /\ pendingFlows'[t].flow = pendingFlows[t].flow
    BY <1>b, <1>1
  <2>2. \A t \in DOMAIN pendingFlows' : pendingFlows'[t].flow \in DOMAIN configFlow
    BY <1>t, <1>1, <2>1
  <2> QED BY <1>t, <1>1, <2>1, <2>2 DEF TablesGo
<1>4. TokensStay(a.token)
  BY <1>1 DEF TokensStay
<1>5. IsActive(a) /\ IsActive(b) /\ OfKind(b) /\ OfStage(b) /\ ~IsNew(b)
  BY <1>a, <1>b, <1>2 DEF IsActive, OfKind, OfStage, IsNew
<1>6. OfFlow(b)'
  BY <1>b, <1>1 DEF OfFlow
<1>7. ASSUME Undisturbed(b.token)' PROVE Fits(b)'
  <2>1. \A q \in DOMAIN asked :
          /\ q \in DOMAIN asked' /\ asked'[q].token = asked[q].token
          /\ asked[q].late => asked'[q].late
          /\ asked[q].cut => asked'[q].cut
    BY <1>t, <1>2
  <2>2. Undisturbed(a.token)
    BY <1>t, <1>3, <1>7, <2>1, UndisturbedBefore
  <2>3. Fits(a)
    BY <2>2 DEF IntegrationInv, CurrentInv
  <2>4. FlowOf(a.token)' = FlowOf(a.token)
    BY <1>b, <1>1 DEF FlowOf
  <2>5. b.at # "result" \/ b.says # "form" \/ IsAt(b.token, b.step)'
    BY <1>1, <2>3, <2>4 DEF Fits, IsAt
  <2>6. b.at # "result" \/ b.says # "error" \/ Spent(b.token)'
    BY <1>1 DEF Spent
  <2> QED BY <1>2, <2>3, <2>5, <2>6 DEF Fits
<1>8. \A q \in DOMAIN asked : q # r /\ IsNew(asked[q]) =>
            /\ \A t \in DOMAIN pendingFlows' \ DOMAIN pendingFlows :
                  pendingFlows'[t].flow # asked[q].flow
            /\ IsNew(b) => b.flow # asked[q].flow
  BY <1>1, <1>5
<1>9. b.flow \in DOMAIN configFlow' /\ UNCHANGED <<dialog, reboots>> /\ \A t \in b.options : t \in a.options
  BY <1>b, <1>2
<1>carries. Carries(a, b)
  BY <1>2, <1>3, <1>4, <1>5, <1>6, <1>7, <1>8, <1>9 DEF Carries
<1>names. Names(a, b)
  BY <1>2, <1>3, <1>4, <1>5, <1>6, <1>7, <1>8, <1>9 DEF Names
<1>others. OthersStayNew(r, b) /\ NewIsNobodys(b)
  BY <1>2, <1>3, <1>4, <1>5, <1>6, <1>7, <1>8, <1>9 DEF OthersStayNew, NewIsNobodys
<1>step. RequestStep(r, a, b, a.token)
  <2>1. TablesGo /\ TokensStay(a.token) /\ UNCHANGED <<dialog, reboots>>
    BY <1>2, <1>3, <1>4, <1>5, <1>6, <1>7, <1>8, <1>9
  <2>2. r \in DOMAIN asked /\ a \in AskRow /\ b \in AskRow /\ a = asked[r]
    BY <1>2, <1>3, <1>4, <1>5, <1>6, <1>7, <1>8, <1>9
  <2>3. asked' = [asked EXCEPT ![r] = b]
    BY <1>2, <1>3, <1>4, <1>5, <1>6, <1>7, <1>8, <1>9
  <2>4. b.token # 0 /\ Undisturbed(b.token)' => Fits(b)'
    BY <1>2, <1>3, <1>4, <1>5, <1>6, <1>7, <1>8, <1>9
  <2> QED BY <2>1, <2>2, <2>3, <2>4, <1>carries, <1>names, <1>others DEF RequestStep
<1> QED BY <1>step, AskMoves

\* What was heard becomes the answer.
LEMMA MappingKeeps ==
  ASSUME IntegrationInv, NEW r \in DOMAIN asked, MapFlow(r)
  PROVE  IntegrationInv'
<1>0. PICK a : a = asked[r]
  OBVIOUS
<1>r. a \in AskRow
  BY <1>0 DEF IntegrationInv, IntegrationTypes
<1>t. /\ asked \in Seq(AskRow) /\ pendingFlows \in Seq(KeptRow) /\ configFlow \in Seq(FlowRow)
      /\ deviceRows \subseteq devicesMade /\ devicesMade \subseteq Nat
      /\ \A t \in DOMAIN pendingFlows : pendingFlows[t].flow \in DOMAIN configFlow
      /\ a.token \in DOMAIN pendingFlows \cup {0}
  BY <1>0 DEF IntegrationInv, IntegrationTypes, NamesInv
<1>a. /\ a.at = "heard" /\ OfKind(a) /\ OfStage(a) /\ OfFlow(a) /\ a.flow \in DOMAIN configFlow
      /\ a.flow # 0 /\ a.flow \in Nat /\ a.step \in Nat
      /\ a.token = 0 => a.says = "form"
      /\ UNCHANGED <<configFlow, dialog, reboots, devicesMade, deviceRows>>
  BY <1>0, <1>r DEF MapFlow, IntegrationInv, RowsInv, NamesInv, OfStage, AskRow
<1>k. PICK k : k = StoreForm(a)
  OBVIOUS
<1>s. k \in KeptRow /\ k.flow = a.flow /\ k.step = a.step /\ k.known
  BY <1>a, <1>k DEF StoreForm, KeptRow
<1>1. CASE /\ a.says = "form" /\ a.token # 0
           /\ pendingFlows' = [pendingFlows EXCEPT ![a.token] = StoreForm(a)]
           /\ asked' = [asked EXCEPT ![r].at = "result"]
  <2>1. PICK b : b = [a EXCEPT !.at = "result"]
    OBVIOUS
  <2>2. asked' = [asked EXCEPT ![r] = b]
    BY <1>0, <1>1, <2>1
  <2>3. /\ b \in AskRow /\ Same(b, a) /\ b.at = "result" /\ b.says = a.says /\ b.step = a.step
        /\ b.cut = a.cut /\ b.token = a.token /\ b.flow = a.flow /\ b.met = a.met
    BY <1>r, <2>1 DEF AskRow, Same
  <2>4. pendingFlows' = [pendingFlows EXCEPT ![a.token] = k] /\ a.token # 0
    BY <1>1, <1>k
  <2>5. /\ a.says = "form" /\ k.step = a.step /\ k.known /\ k.flow = a.flow
        /\ b.at = "result" /\ b.says = "form" /\ b.step = a.step
    BY <1>1, <1>s, <2>3
  <2> QED BY <1>0, <1>r, <1>a, <1>s, <2>2, <2>3, <2>4, <2>5, StoringKeeps
<1>2. CASE /\ a.says = "form" /\ a.token = 0
           /\ pendingFlows' = Append(pendingFlows, StoreForm(a))
           /\ asked' = [asked EXCEPT ![r].at = "result", ![r].token = Len(pendingFlows) + 1]
  <2>0. PICK t : t = Len(pendingFlows) + 1
    OBVIOUS
  <2>a. /\ t \in Nat /\ t # 0 /\ t \notin DOMAIN pendingFlows
        /\ pendingFlows' \in Seq(KeptRow) /\ DOMAIN pendingFlows' = DOMAIN pendingFlows \cup {t}
        /\ pendingFlows'[t] = k
        /\ \A i \in DOMAIN pendingFlows : pendingFlows'[i] = pendingFlows[i]
    <3>1. DOMAIN pendingFlows = 1..Len(pendingFlows) /\ Len(pendingFlows) \in Nat
      BY <1>t
    <3>2. pendingFlows' = Append(pendingFlows, k)
      BY <1>2, <1>k
    <3> QED BY <1>t, <1>s, <2>0, <3>1, <3>2
  <2>1. PICK b : b = [a EXCEPT !.at = "result", !.token = t]
    OBVIOUS
  <2>2. asked' = [asked EXCEPT ![r] = b]
    BY <1>0, <1>2, <2>0, <2>1
  <2>3. /\ b \in AskRow /\ Same(b, a) /\ b.at = "result" /\ b.says = a.says /\ b.step = a.step
        /\ b.cut = a.cut /\ b.token = t /\ b.flow = a.flow /\ b.met = a.met
    BY <1>r, <2>a, <2>1 DEF AskRow, Same
  <2>b. a.kind # "fill" /\ a.kind # "look" /\ a.met = 0 /\ IsNew(a)
    BY <1>2, <1>a DEF OfKind, IsNew
  <2>4. IsActive(a) /\ IsActive(b) /\ OfKind(b) /\ OfStage(b) /\ ~IsNew(b)
    BY <1>2, <1>a, <2>a, <2>b, <2>3 DEF IsActive, OfKind, OfStage, IsNew, Same
  <2>5. TablesGo /\ TokensStay(0)
    BY <1>t, <1>a, <1>s, <2>a DEF TablesGo, TokensStay
  <2>6. OfFlow(b)'
    BY <1>2, <1>s, <2>a, <2>3 DEF OfFlow
  <2>7. /\ a.step = configFlow[a.flow].at
        /\ \A q \in DOMAIN asked : q # r /\ IsNew(asked[q]) => asked[q].flow # a.flow
    BY <1>0, <2>b DEF IntegrationInv, NewInv
  <2>8. Fits(b)'
    BY <1>a, <1>2, <1>s, <2>a, <2>b, <2>3, <2>7 DEF Fits, IsAt, FlowOf
  <2>9. \A q \in DOMAIN asked : q # r /\ IsNew(asked[q]) =>
             /\ \A i \in DOMAIN pendingFlows' \ DOMAIN pendingFlows :
                   pendingFlows'[i].flow # asked[q].flow
             /\ IsNew(b) => b.flow # asked[q].flow
    BY <1>s, <2>a, <2>4, <2>7
  <2>10. /\ b.from = a.from /\ b.kind = a.kind /\ b.waited = a.waited /\ b.late = a.late
         /\ b.options = a.options /\ b.flow \in DOMAIN configFlow' /\ b.cut = a.cut
         /\ b.token \in DOMAIN pendingFlows' \ DOMAIN pendingFlows /\ a.token = 0
         /\ UNCHANGED <<dialog, reboots>> /\ b \in AskRow
    BY <1>2, <1>a, <2>a, <2>3 DEF Same
  <2>carries. Carries(a, b)
    BY <1>0, <1>r, <2>2, <2>4, <2>5, <2>6, <2>8, <2>9, <2>10 DEF Carries
  <2>names. Names(a, b)
    BY <1>0, <1>r, <2>2, <2>4, <2>5, <2>6, <2>8, <2>9, <2>10 DEF Names
  <2>others. OthersStayNew(r, b) /\ NewIsNobodys(b)
    BY <1>0, <1>r, <2>2, <2>4, <2>5, <2>6, <2>8, <2>9, <2>10 DEF OthersStayNew, NewIsNobodys
  <2>step. RequestStep(r, a, b, 0)
    <3>1. TablesGo /\ TokensStay(0) /\ UNCHANGED <<dialog, reboots>>
      BY <1>0, <1>r, <2>2, <2>4, <2>5, <2>6, <2>8, <2>9, <2>10
    <3>2. r \in DOMAIN asked /\ a \in AskRow /\ b \in AskRow /\ a = asked[r]
      BY <1>0, <1>r, <2>2, <2>4, <2>5, <2>6, <2>8, <2>9, <2>10
    <3>3. asked' = [asked EXCEPT ![r] = b]
      BY <1>0, <1>r, <2>2, <2>4, <2>5, <2>6, <2>8, <2>9, <2>10
    <3>4. b.token # 0 /\ Undisturbed(b.token)' => Fits(b)'
      BY <1>0, <1>r, <2>2, <2>4, <2>5, <2>6, <2>8, <2>9, <2>10
    <3> QED BY <3>1, <3>2, <3>3, <3>4, <2>carries, <2>names, <2>others DEF RequestStep
  <2> QED BY <2>step, AskMoves
<1>3. CASE /\ a.says \in {"entry", "abort", "external"} /\ a.token # 0
           /\ pendingFlows' = [pendingFlows EXCEPT ![a.token].known = FALSE]
           /\ asked' = [asked EXCEPT ![r].at = IF a.says = "entry" THEN "collecting" ELSE "result",
                                    ![r].says = IF a.says = "entry" THEN "done" ELSE "error",
                                    ![r].devices = IF a.says = "entry" THEN deviceRows ELSE {}]
  <2>0. PICK at, says, devices : /\ at = IF a.says = "entry" THEN "collecting" ELSE "result"
                                 /\ says = IF a.says = "entry" THEN "done" ELSE "error"
                                 /\ devices = IF a.says = "entry" THEN deviceRows ELSE {}
    OBVIOUS
  <2>d. devices \in SUBSET Nat
    BY <1>t, <2>0
  <2>e. at \in {"collecting", "result"} /\ says \in {"done", "error"}
    BY <2>0
  <2>1. PICK b : b = [a EXCEPT !.at = at, !.says = says, !.devices = devices]
    OBVIOUS
  <2>2. asked' = [asked EXCEPT ![r] = b]
    BY <1>0, <1>3, <2>0, <2>1
  <2>3. /\ b \in AskRow /\ Same(b, a) /\ b.at = at /\ b.says = says /\ b.step = a.step
        /\ b.cut = a.cut /\ b.token = a.token /\ b.flow = a.flow /\ b.met = a.met
    BY <1>r, <2>d, <2>e, <2>1 DEF AskRow, Same
  <2>c. PICK c : c = [pendingFlows[a.token] EXCEPT !.known = FALSE]
    OBVIOUS
  <2>4. pendingFlows' = [pendingFlows EXCEPT ![a.token] = c]
    BY <1>3, <2>c
  <2>5. c \in KeptRow /\ ~c.known /\ c.flow = a.flow
    <3>1. pendingFlows[a.token] \in KeptRow
      BY <1>t, <1>3
    <3>2. pendingFlows[a.token].flow = a.flow
      BY <1>3, <1>a DEF OfFlow
    <3> QED BY <2>c, <3>1, <3>2 DEF KeptRow
  <2>6. \/ a.says = "entry" /\ b.at = "collecting" /\ b.says = "done"
        \/ a.says # "form" /\ ~c.known /\ b.at = "result" /\ b.says = "error"
    BY <1>3, <2>0, <2>3, <2>5
  <2>7. a.token # 0
    BY <1>3
  <2> QED BY <1>0, <1>r, <1>a, <2>2, <2>3, <2>4, <2>5, <2>6, <2>7, StoringKeeps
<1>4. CASE a.says = "error" /\ asked' = [asked EXCEPT ![r].at = "result"] /\ UNCHANGED pendingFlows
  <2>1. PICK b : b = [a EXCEPT !.at = "result"]
    OBVIOUS
  <2>2. asked' = [asked EXCEPT ![r] = b]
    BY <1>0, <1>4, <2>1
  <2>3. /\ b \in AskRow /\ Same(b, a) /\ b.at = "result" /\ b.says = a.says /\ b.step = a.step
        /\ b.cut = a.cut /\ b.token = a.token /\ b.flow = a.flow /\ b.met = a.met
    BY <1>r, <2>1 DEF AskRow, Same
  <2>4. IsActive(a) /\ IsActive(b) /\ OfKind(b) /\ OfStage(b) /\ ~IsNew(b)
    BY <1>4, <1>a, <2>3 DEF IsActive, OfKind, OfStage, IsNew, Same
  <2>5. OfFlow(b)'
    BY <1>4, <1>a, <2>3 DEF OfFlow, OfStage
  <2>6. Fits(a) => Fits(b)
    BY <1>4, <1>a, <2>3 DEF Fits, Spent, Same
  <2> QED BY <1>0, <1>r, <1>t, <1>a, <1>4, <2>2, <2>3, <2>4, <2>5, <2>6, RequestAlone
<1>5. \/ /\ a.says = "form" /\ a.token # 0
         /\ pendingFlows' = [pendingFlows EXCEPT ![a.token] = StoreForm(a)]
         /\ asked' = [asked EXCEPT ![r].at = "result"]
      \/ /\ a.says = "form" /\ a.token = 0
         /\ pendingFlows' = Append(pendingFlows, StoreForm(a))
         /\ asked' = [asked EXCEPT ![r].at = "result", ![r].token = Len(pendingFlows) + 1]
      \/ /\ a.says \in {"entry", "abort", "external"}
         /\ pendingFlows' = IF a.token = 0 THEN pendingFlows
                            ELSE [pendingFlows EXCEPT ![a.token].known = FALSE]
         /\ asked' = [asked EXCEPT ![r].at = IF a.says = "entry" THEN "collecting" ELSE "result",
                                   ![r].says = IF a.says = "entry" THEN "done" ELSE "error",
                                   ![r].devices = IF a.says = "entry" THEN deviceRows ELSE {}]
      \/ a.says = "error" /\ asked' = [asked EXCEPT ![r].at = "result"] /\ UNCHANGED pendingFlows
  BY <1>0 DEF MapFlow
<1> QED BY <1>a, <1>1, <1>2, <1>3, <1>4, <1>5
\* What happens in Home Assistant by itself, and what the runtime hears of it.
LEMMA WorldKeeps ==
  ASSUME IntegrationInv, TablesGo, TokensStay(0),
         UNCHANGED <<asked, dialog, pendingFlows, reboots>>
  PROVE  IntegrationInv'
<1>t. /\ asked \in Seq(AskRow) /\ dialog \in [Dialogs -> DialogRow] /\ reboots \in Nat
      /\ \A p \in Dialogs : dialog[p] \in DialogRow
      /\ \A q \in DOMAIN asked : q \in Nat /\ asked[q] \in AskRow
  BY DEF IntegrationInv, IntegrationTypes
<1>i. NamesInv /\ RowsInv /\ NewInv /\ WaitInv /\ OutcomeInv /\ OwnInv
  BY DEF IntegrationInv
<1>1. IntegrationTypes'
  BY <1>t DEF IntegrationTypes, TablesGo
<1>2. ASSUME NEW q \in DOMAIN asked, NEW a \in AskRow, a = asked[q]
      PROVE  /\ OfKind(a) /\ OfStage(a) /\ OfFlow(a)'
             /\ a.token \in DOMAIN pendingFlows' \cup {0} /\ a.flow \in DOMAIN configFlow' \cup {0}
             /\ a.options \subseteq DOMAIN pendingFlows'
  BY <1>2, RowStays
<1>3. NamesInv'
  BY <1>i, <1>t, <1>2 DEF NamesInv, TablesGo
<1>4. RowsInv'
  BY <1>t, <1>2 DEF RowsInv, OfKind, OfStage, OfFlow
<1>5. NewInv'
  <2>1. ASSUME NEW q \in DOMAIN asked, IsNew(asked[q])
        PROVE  /\ asked[q].step = configFlow'[asked[q].flow].at
               /\ ~configFlow'[asked[q].flow].found
               /\ \A t \in DOMAIN pendingFlows' : pendingFlows'[t].flow # asked[q].flow
    BY <2>1, NewStays
  <2> QED BY <1>i, <2>1 DEF NewInv, IsNew
<1>6. WaitInv' /\ OutcomeInv'
  BY <1>i DEF WaitInv, IsActive, OutcomeInv
<1>7. OwnInv'
  BY <1>i DEF OwnInv, Owns
<1>8. CurrentInv'
  <2>1. 0 \in Nat /\ 0 \notin DOMAIN asked
    BY <1>t
  <2> QED BY <1>t, <2>1, CurrentStays
<1> QED BY <1>1, <1>3, <1>4, <1>5, <1>6, <1>7, <1>8 DEF IntegrationInv

\* A flow that was found has no token yet.
LEMMA FindingKeeps == ASSUME IntegrationInv, HaFinds PROVE IntegrationInv'
<1>t. /\ configFlow \in Seq(FlowRow) /\ pendingFlows \in Seq(KeptRow)
      /\ deviceRows \subseteq devicesMade /\ devicesMade \subseteq Nat
      /\ \A t \in DOMAIN pendingFlows : pendingFlows[t].flow \in DOMAIN configFlow
      /\ UNCHANGED <<devicesMade, deviceRows, pendingFlows, asked, dialog, reboots>>
  BY DEF IntegrationInv, IntegrationTypes, NamesInv, HaFinds
<1>1. PICK c : c = [at |-> 1, is |-> "open", found |-> TRUE]
  OBVIOUS
<1>2. c \in FlowRow /\ configFlow' = Append(configFlow, c)
  BY <1>1 DEF FlowRow, HaFinds
<1>3. /\ configFlow' \in Seq(FlowRow) /\ DOMAIN configFlow \subseteq DOMAIN configFlow'
      /\ \A f \in DOMAIN configFlow : configFlow'[f] = configFlow[f]
  BY <1>t, <1>2
<1>4. TablesGo /\ TokensStay(0)
  BY <1>t, <1>3 DEF TablesGo, TokensStay
<1> QED BY <1>t, <1>4, WorldKeeps

\* A flow that ends elsewhere is not open any more.
LEMMA ReturningKeeps ==
  ASSUME IntegrationInv, NEW f \in DOMAIN configFlow, HaReturns(f) PROVE IntegrationInv'
<1>t. /\ configFlow \in Seq(FlowRow) /\ pendingFlows \in Seq(KeptRow)
      /\ deviceRows \subseteq devicesMade /\ devicesMade \subseteq Nat
      /\ \A t \in DOMAIN pendingFlows : pendingFlows[t].flow \in DOMAIN configFlow
      /\ UNCHANGED <<devicesMade, deviceRows, pendingFlows, asked, dialog, reboots>>
      /\ configFlow[f].is = "external"
  BY DEF IntegrationInv, IntegrationTypes, NamesInv, HaReturns
<1>1. PICK state \in {"entry", "gone"} : configFlow' = [configFlow EXCEPT ![f].is = state]
  BY DEF HaReturns, FlowIs
<1>2. PICK c : c = [configFlow[f] EXCEPT !.is = state]
  OBVIOUS
<1>3. c \in FlowRow /\ c.is = state /\ c.found = configFlow[f].found /\ c.at = configFlow[f].at
  <2>1. configFlow[f] \in FlowRow
    BY <1>t
  <2> QED BY <1>2, <2>1 DEF FlowRow
<1>4. configFlow' = [configFlow EXCEPT ![f] = c]
  BY <1>1, <1>2
<1>5. /\ configFlow' \in Seq(FlowRow) /\ DOMAIN configFlow = DOMAIN configFlow'
      /\ configFlow'[f] = c
      /\ \A g \in DOMAIN configFlow : g # f => configFlow'[g] = configFlow[g]
  BY <1>t, <1>3, <1>4
<1>6. TablesGo
  BY <1>t, <1>3, <1>5 DEF TablesGo
<1>7. TokensStay(0)
  BY <1>t, <1>3, <1>5 DEF TokensStay
<1> QED BY <1>t, <1>6, <1>7, WorldKeeps

\* A device appears in Home Assistant, or in the runtime's table.
LEMMA SettingUpKeeps ==
  ASSUME IntegrationInv, NEW f \in DOMAIN configFlow, HaSetsUp(f) \/ TakesStateRow(f)
  PROVE  IntegrationInv'
<1>t. /\ configFlow \in Seq(FlowRow) /\ pendingFlows \in Seq(KeptRow)
      /\ deviceRows \subseteq devicesMade /\ devicesMade \subseteq Nat
      /\ \A t \in DOMAIN pendingFlows : pendingFlows[t].flow \in DOMAIN configFlow
      /\ f \in Nat
  BY DEF IntegrationInv, IntegrationTypes, NamesInv
<1>1. /\ deviceRows \subseteq deviceRows' /\ deviceRows' \subseteq devicesMade'
      /\ devicesMade' \subseteq Nat
      /\ UNCHANGED <<configFlow, pendingFlows, asked, dialog, reboots>>
  BY <1>t DEF HaSetsUp, TakesStateRow
<1>2. TablesGo /\ TokensStay(0)
  BY <1>t, <1>1 DEF TablesGo, TokensStay
<1> QED BY <1>1, <1>2, WorldKeeps

\* A request is sent.
LEMMA AskingKeeps ==
  ASSUME IntegrationInv, NEW p \in Dialogs, NEW kind \in AskKinds, NEW token \in Nat,
         Ask(p, kind, token),
         \/ kind = "list" /\ token = 0
         \/ kind = "begin" /\ token = 0 /\ dialog[p].token = 0 /\ ~dialog[p].busy
         \/ kind = "look" /\ token \in dialog[p].options /\ dialog[p].token = 0 /\ ~dialog[p].busy
         \/ kind = "fill" /\ token = dialog[p].token /\ token # 0 /\ ~dialog[p].busy
  PROVE  IntegrationInv'
<1>t. /\ asked \in Seq(AskRow) /\ dialog \in [Dialogs -> DialogRow] /\ reboots \in Nat
      /\ pendingFlows \in Seq(KeptRow) /\ configFlow \in Seq(FlowRow)
      /\ DOMAIN pendingFlows = 1..Len(pendingFlows)
      /\ \A q \in Dialogs : dialog[q] \in DialogRow
      /\ \A q \in DOMAIN asked : q \in Nat /\ asked[q] \in AskRow
  BY DEF IntegrationInv, IntegrationTypes
<1>i. NamesInv /\ RowsInv /\ NewInv /\ WaitInv /\ OutcomeInv /\ OwnInv
  BY DEF IntegrationInv
<1>u. UNCHANGED <<configFlow, devicesMade, deviceRows, pendingFlows, reboots>>
  BY DEF Ask
<1>d. /\ dialog[p].token \in Nat /\ dialog[p].step \in Nat
      /\ dialog[p].token \in DOMAIN pendingFlows \cup {0}
      /\ dialog[p].options \subseteq DOMAIN pendingFlows
  BY <1>t, <1>i DEF DialogRow, NamesInv
<1>e. token \in DOMAIN pendingFlows \cup {0} /\ (kind \in {"look", "fill"} => token # 0)
  BY <1>t, <1>d
<1>1. PICK n : n = Len(asked) + 1
  OBVIOUS
<1>f. PICK filled \in Nat : filled = IF kind = "fill" THEN dialog[p].step ELSE 0
  BY <1>d
<1>2. PICK b : b = [from |-> p, kind |-> kind, token |-> token, decoded |-> 0, met |-> 0, flow |-> 0,
           filled |-> filled, at |-> "sent",
           says |-> "none", step |-> 0, options |-> {}, devices |-> {},
           waited |-> TRUE, late |-> FALSE, cut |-> FALSE]
  OBVIOUS
<1>3. /\ b \in AskRow /\ b.from = p /\ b.kind = kind /\ b.token = token /\ b.met = 0 /\ b.flow = 0
      /\ b.filled = filled /\ b.at = "sent" /\ b.says = "none" /\ b.options = {} /\ b.waited
      /\ ~b.late /\ ~b.cut
  BY <1>2 DEF AskRow
<1>4. /\ n \in Nat /\ n \notin DOMAIN asked /\ asked' \in Seq(AskRow)
      /\ DOMAIN asked' = DOMAIN asked \cup {n} /\ asked'[n] = b
      /\ \A q \in DOMAIN asked : asked'[q] = asked[q]
  <2>1. asked' = Append(asked, b)
    BY <1>f, <1>2 DEF Ask
  <2>2. DOMAIN asked = 1..Len(asked) /\ Len(asked) \in Nat
    BY <1>t
  <2> QED BY <1>t, <1>1, <1>3, <2>1, <2>2
<1>5. PICK d \in DialogRow :
        /\ dialog' = [dialog EXCEPT ![p] = d]
        /\ d.token = dialog[p].token /\ d.step = dialog[p].step /\ d.options = dialog[p].options
        /\ d.last = dialog[p].last
        /\ IF kind = "list" THEN d = dialog[p] ELSE d.busy /\ d.told = "none"
  <2>1. CASE kind = "list"
    <3>1. dialog' = [dialog EXCEPT ![p] = dialog[p]]
      BY <1>t, <2>1 DEF Ask
    <3> QED BY <1>t, <2>1, <3>1
  <2>2. CASE kind # "list"
    <3>1. PICK d : d = [dialog[p] EXCEPT !.busy = TRUE, !.told = "none"]
      OBVIOUS
    <3>2. dialog' = [dialog EXCEPT ![p] = d]
      BY <2>2, <3>1 DEF Ask
    <3>3. dialog[p] \in DialogRow
      BY <1>t
    <3>4. /\ d \in DialogRow
          /\ d.token = dialog[p].token /\ d.step = dialog[p].step /\ d.options = dialog[p].options
          /\ d.last = dialog[p].last /\ d.busy /\ d.told = "none"
      BY <3>1, <3>3 DEF DialogRow
    <3> QED BY <2>2, <3>2, <3>4
  <2> QED BY <2>1, <2>2
<1>6. /\ dialog' \in [Dialogs -> DialogRow] /\ dialog'[p] = d
      /\ \A q \in Dialogs : q # p => dialog'[q] = dialog[q]
  BY <1>t, <1>5
<1>7. TablesGo /\ TokensStay(0) /\ DOMAIN pendingFlows' = DOMAIN pendingFlows
  BY <1>u, TablesAreKept
<1>8. IntegrationTypes'
  BY <1>t, <1>u, <1>4, <1>6, <1>7 DEF IntegrationTypes, TablesGo
<1>9. NamesInv'
  <2>1. ASSUME NEW q \in DOMAIN asked'
        PROVE  /\ asked'[q].token \in DOMAIN pendingFlows' \cup {0}
               /\ asked'[q].flow \in DOMAIN configFlow' \cup {0}
               /\ asked'[q].options \subseteq DOMAIN pendingFlows'
    <3>1. CASE q \in DOMAIN asked
      BY <1>t, <1>4, <1>7, <3>1, RowStays
    <3>2. CASE q = n
      BY <1>e, <1>3, <1>4, <1>7, <3>2
    <3> QED BY <1>4, <2>1, <3>1, <3>2
  <2>2. \A q \in Dialogs : /\ dialog'[q].token \in DOMAIN pendingFlows' \cup {0}
                           /\ dialog'[q].options \subseteq DOMAIN pendingFlows'
    BY <1>i, <1>5, <1>6, <1>7 DEF NamesInv
  <2> QED BY <1>7, <2>1, <2>2 DEF NamesInv, TablesGo
<1>10. RowsInv'
  <2>1. ASSUME NEW q \in DOMAIN asked, NEW c \in AskRow, c = asked[q]
        PROVE  OfKind(c) /\ OfStage(c) /\ OfFlow(c)'
    BY <1>7, <2>1, RowStays
  <2>2. OfKind(b) /\ OfStage(b) /\ OfFlow(b)'
    BY <1>e, <1>3 DEF OfKind, OfStage, OfFlow
  <2> QED BY <1>t, <1>4, <2>1, <2>2 DEF RowsInv, OfKind, OfStage, OfFlow
<1>11. NewInv'
  <2>1. ASSUME NEW q \in DOMAIN asked, IsNew(asked[q])
        PROVE  /\ asked[q].step = configFlow'[asked[q].flow].at
               /\ ~configFlow'[asked[q].flow].found
               /\ \A t \in DOMAIN pendingFlows' : pendingFlows'[t].flow # asked[q].flow
    BY <1>7, <2>1, NewStays
  <2>2. ~IsNew(b)
    BY <1>3 DEF IsNew
  <2> QED BY <1>i, <1>4, <2>1, <2>2 DEF NewInv, IsNew
<1>12. WaitInv'
  <2>1. ASSUME NEW q \in DOMAIN asked, asked[q].waited, asked[q].kind # "list", kind # "list"
        PROVE  asked[q].from # p
    BY <1>i, <2>1 DEF WaitInv
  <2>2. ASSUME NEW q \in DOMAIN asked'
        PROVE  /\ IsActive(asked'[q]) /\ ~asked'[q].late => asked'[q].waited
               /\ asked'[q].waited => asked'[q].at # "over"
               /\ asked'[q].waited /\ asked'[q].kind # "list" => dialog'[asked'[q].from].busy
               /\ asked'[q].waited /\ asked'[q].kind = "fill" =>
                     dialog'[asked'[q].from].token = asked'[q].token
               /\ asked'[q].waited /\ asked'[q].kind \in {"begin", "look"} =>
                     dialog'[asked'[q].from].token = 0
    <3>1. CASE q \in DOMAIN asked
      <4>1. asked[q].from \in Dialogs
        BY <1>t, <3>1 DEF AskRow
      <4> QED BY <1>i, <1>4, <1>5, <1>6, <2>1, <3>1, <4>1 DEF WaitInv, IsActive
    <3>2. CASE q = n
      BY <1>3, <1>4, <1>5, <1>6, <3>2
    <3> QED BY <1>4, <2>2, <3>1, <3>2
  <2>3. ASSUME NEW i \in DOMAIN asked', NEW j \in DOMAIN asked',
               asked'[i].waited, asked'[i].kind # "list",
               asked'[j].waited, asked'[j].kind # "list", asked'[i].from = asked'[j].from
        PROVE  i = j
    <3>1. CASE i \in DOMAIN asked /\ j \in DOMAIN asked
      BY <1>i, <1>4, <2>3, <3>1 DEF WaitInv
    <3>2. CASE i = n \/ j = n
      BY <1>3, <1>4, <2>1, <2>3, <3>2
    <3> QED BY <1>4, <3>1, <3>2
  <2> QED BY <2>2, <2>3 DEF WaitInv, IsActive
<1>13. OutcomeInv'
  <2>1. ASSUME NEW q \in Dialogs
        PROVE  /\ dialog'[q].busy => dialog'[q].told = "none"
               /\ dialog'[q].told = "done" =>
                     /\ dialog'[q].last \in DOMAIN asked'
                     /\ asked'[dialog'[q].last].at = "over" /\ asked'[dialog'[q].last].says = "done"
    <3>1. dialog'[q] = dialog[q] \/ (dialog'[q].busy /\ dialog'[q].told = "none")
      BY <1>5, <1>6
    <3> QED BY <1>i, <1>4, <3>1 DEF OutcomeInv
  <2> QED BY <2>1 DEF OutcomeInv
<1>14. OwnInv'
  <2>1. ASSUME NEW q \in Dialogs, NEW t, Owns(q, t)' PROVE Owns(q, t)
    <3>1. dialog'[q].token = dialog[q].token /\ dialog'[q].options = dialog[q].options
      BY <1>5, <1>6
    <3>2. ASSUME NEW x \in DOMAIN asked', asked'[x].from = q, asked'[x].token = t \/ t \in asked'[x].options,
                 t # 0
          PROVE  Owns(q, t)
      <4>1. CASE x \in DOMAIN asked
        BY <1>4, <3>2, <4>1 DEF Owns
      <4>2. CASE x = n
        BY <1>3, <1>4, <3>2, <4>2 DEF Owns
      <4> QED BY <1>4, <3>2, <4>1, <4>2
    <3> QED BY <2>1, <3>1, <3>2 DEF Owns
  <2> QED BY <1>i, <1>7, <2>1 DEF OwnInv
<1>15. CurrentInv'
  <2>1. \A q \in DOMAIN asked :
          /\ q \in DOMAIN asked' /\ asked'[q].token = asked[q].token
          /\ asked[q].late => asked'[q].late
          /\ asked[q].cut => asked'[q].cut
    BY <1>4
  <2>2. ASSUME token # 0, Undisturbed(token)' PROVE Fits(b)'
    <3>1. Undisturbed(token)
      BY <1>7, <1>e, <2>1, <2>2, UndisturbedBefore
    <3>2. CASE kind = "fill"
      <4>1. Shows(dialog[p])
        BY <3>1, <2>2, <3>2 DEF IntegrationInv, CurrentInv
      <4> QED BY <1>u, <1>3, <1>f, <3>2, <4>1 DEF Shows, Fits, IsAt, Spent, FlowOf
    <3>3. CASE kind # "fill"
      BY <1>3, <3>3 DEF Fits
    <3> QED BY <3>2, <3>3
  <2>3. ASSUME NEW c \in AskRow, n \in DOMAIN asked', asked'[n] = c, c.token # 0, Undisturbed(c.token)'
        PROVE  Fits(c)'
    <3>1. c = b
      BY <1>4, <2>3
    <3> QED BY <1>3, <2>2, <2>3, <3>1
  <2>4. ASSUME NEW c \in DialogRow, NEW q \in Dialogs, dialog'[q] = c, c.token # 0,
               Undisturbed(c.token)'
        PROVE  \/ /\ c.token = dialog[q].token /\ c.step = dialog[q].step
                  /\ c.busy = dialog[q].busy /\ c.told = dialog[q].told
               \/ Shows(c)'
    BY <1>5, <1>6, <2>4 DEF Shows
  <2>5. \A q \in DOMAIN asked' : q # n => q \in DOMAIN asked /\ asked'[q] = asked[q]
    BY <1>4
  <2>6. n \in Nat /\ reboots' = reboots
    BY <1>4, <1>u
  <2> QED BY <1>4, <1>6, <1>7, <2>1, <2>3, <2>4, <2>5, <2>6, CurrentStays
<1> QED BY <1>8, <1>9, <1>10, <1>11, <1>12, <1>13, <1>14, <1>15 DEF IntegrationInv
\* The dialog takes an answer, or does not wait for it any longer: b is what becomes of the
\* request, and d of the dialog.
IsTold(r, a, b, p, d) ==
    /\ UNCHANGED <<configFlow, devicesMade, deviceRows, pendingFlows, reboots>>
    /\ a = asked[r] /\ p = a.from
    /\ asked' = [asked EXCEPT ![r] = b] /\ dialog' = [dialog EXCEPT ![p] = d]
    /\ b.from = a.from /\ b.kind = a.kind /\ b.token = a.token /\ b.flow = a.flow
    /\ b.cut = a.cut /\ b.options \subseteq a.options /\ ~b.waited /\ (a.late => b.late)
    /\ OfKind(b) /\ OfStage(b) /\ OfFlow(b) /\ (IsNew(b) => IsNew(a) /\ b.step = a.step)
    /\ b.at = a.at \/ (a.at # "over" /\ b.at = "over")
    /\ IsActive(b) => b.late
    /\ b.at = a.at => b.says = a.says
    /\ d.token \in {dialog[p].token, a.token, 0}
    /\ d.options \subseteq dialog[p].options \cup a.options
    /\ \/ a.waited /\ a.kind # "list"
       \/ d.busy = dialog[p].busy /\ d.token = dialog[p].token
    /\ d.busy => d.told = "none"
    /\ d.told = "done" => \/ d.last = r /\ b.at = "over" /\ b.says = "done"
                          \/ dialog[p].told = "done" /\ d.last = dialog[p].last
    /\ b.token # 0 /\ Undisturbed(b.token)' => Fits(b)
    /\ d.token # 0 /\ Undisturbed(d.token)' =>
          \/ /\ d.token = dialog[p].token /\ d.step = dialog[p].step
             /\ d.busy = dialog[p].busy /\ d.told = dialog[p].told
          \/ Shows(d)

LEMMA DialogHears ==
  ASSUME IntegrationInv, NEW r \in DOMAIN asked, NEW p \in Dialogs,
         NEW a \in AskRow, NEW b \in AskRow, NEW d \in DialogRow, IsTold(r, a, b, p, d)
  PROVE  IntegrationInv'
<1> USE DEF IsTold
<1>t. /\ asked \in Seq(AskRow) /\ dialog \in [Dialogs -> DialogRow] /\ reboots \in Nat
      /\ pendingFlows \in Seq(KeptRow) /\ configFlow \in Seq(FlowRow)
      /\ \A q \in Dialogs : dialog[q] \in DialogRow
      /\ \A q \in DOMAIN asked : q \in Nat /\ asked[q] \in AskRow
  BY DEF IntegrationInv, IntegrationTypes
<1>i. NamesInv /\ RowsInv /\ NewInv /\ WaitInv /\ OutcomeInv /\ OwnInv
  BY DEF IntegrationInv
<1>1. /\ asked' \in Seq(AskRow) /\ DOMAIN asked' = DOMAIN asked /\ asked'[r] = b
      /\ \A q \in DOMAIN asked : q # r => asked'[q] = asked[q]
      /\ dialog' \in [Dialogs -> DialogRow] /\ dialog'[p] = d
      /\ \A q \in Dialogs : q # p => dialog'[q] = dialog[q]
  BY <1>t
<1>2. TablesGo /\ TokensStay(0) /\ DOMAIN pendingFlows' = DOMAIN pendingFlows
  BY TablesAreKept
<1>3. IntegrationTypes'
  BY <1>t, <1>1, <1>2 DEF IntegrationTypes, TablesGo
<1>4. NamesInv'
  <2>1. ASSUME NEW q \in DOMAIN asked'
        PROVE  /\ asked'[q].token \in DOMAIN pendingFlows' \cup {0}
               /\ asked'[q].flow \in DOMAIN configFlow' \cup {0}
               /\ asked'[q].options \subseteq DOMAIN pendingFlows'
    BY <1>i, <1>1, <1>2, <2>1 DEF NamesInv
  <2>2. \A q \in Dialogs : /\ dialog'[q].token \in DOMAIN pendingFlows' \cup {0}
                           /\ dialog'[q].options \subseteq DOMAIN pendingFlows'
    BY <1>i, <1>1, <1>2 DEF NamesInv
  <2> QED BY <1>2, <2>1, <2>2 DEF NamesInv, TablesGo
<1>5. RowsInv'
  <2>1. ASSUME NEW q \in DOMAIN asked, NEW c \in AskRow, c = asked[q]
        PROVE  OfKind(c) /\ OfStage(c) /\ OfFlow(c)'
    BY <1>2, <2>1, RowStays
  <2>2. OfFlow(b)'
    BY DEF OfFlow
  <2> QED BY <1>t, <1>1, <2>1, <2>2 DEF RowsInv, OfKind, OfStage, OfFlow
<1>6. NewInv'
  <2>1. \A q \in DOMAIN asked : IsNew(asked'[q]) =>
           IsNew(asked[q]) /\ asked'[q].step = asked[q].step /\ asked'[q].flow = asked[q].flow
    BY <1>1
  <2>2. ASSUME NEW q \in DOMAIN asked, IsNew(asked[q])
        PROVE  /\ asked[q].step = configFlow'[asked[q].flow].at
               /\ ~configFlow'[asked[q].flow].found
               /\ \A t \in DOMAIN pendingFlows' : pendingFlows'[t].flow # asked[q].flow
    BY <1>2, <2>2, NewStays
  <2>3. \A q \in DOMAIN asked' : IsNew(asked'[q]) =>
          /\ asked'[q].step = configFlow'[asked'[q].flow].at /\ ~configFlow'[asked'[q].flow].found
          /\ \A t \in DOMAIN pendingFlows' : pendingFlows'[t].flow # asked'[q].flow
    BY <1>1, <2>1, <2>2
  <2>4. \A i, j \in DOMAIN asked' :
          IsNew(asked'[i]) /\ IsNew(asked'[j]) /\ asked'[i].flow = asked'[j].flow => i = j
    BY <1>i, <1>1, <2>1 DEF NewInv
  <2> QED BY <2>3, <2>4 DEF NewInv, IsNew
<1>7. WaitInv'
  <2>1. \A q \in DOMAIN asked : asked'[q].waited => q # r /\ asked'[q] = asked[q] /\ asked[q].waited
    BY <1>1
  <2>2. ASSUME NEW q \in DOMAIN asked, asked'[q].waited, asked[q].kind # "list"
        PROVE  /\ dialog'[asked[q].from].busy = dialog[asked[q].from].busy
               /\ dialog'[asked[q].from].token = dialog[asked[q].from].token
    <3>1. asked[q].from \in Dialogs
      BY <1>t DEF AskRow
    <3>2. CASE asked[q].from # p
      BY <1>1, <3>1, <3>2
    <3>3. CASE asked[q].from = p
      <4>1. ~ (a.waited /\ a.kind # "list")
        BY <1>i, <2>1, <2>2, <3>3 DEF WaitInv
      <4> QED BY <1>1, <3>3, <4>1
    <3> QED BY <3>2, <3>3
  <2>3. ASSUME NEW q \in DOMAIN asked'
        PROVE  /\ IsActive(asked'[q]) /\ ~asked'[q].late => asked'[q].waited
               /\ asked'[q].waited => asked'[q].at # "over"
               /\ asked'[q].waited /\ asked'[q].kind # "list" => dialog'[asked'[q].from].busy
               /\ asked'[q].waited /\ asked'[q].kind = "fill" =>
                     dialog'[asked'[q].from].token = asked'[q].token
               /\ asked'[q].waited /\ asked'[q].kind \in {"begin", "look"} =>
                     dialog'[asked'[q].from].token = 0
    BY <1>i, <1>1, <2>1, <2>2 DEF WaitInv, IsActive
  <2>4. \A i, j \in DOMAIN asked' :
          /\ asked'[i].waited /\ asked'[i].kind # "list"
          /\ asked'[j].waited /\ asked'[j].kind # "list"
          /\ asked'[i].from = asked'[j].from
          => i = j
    BY <1>i, <1>1, <2>1 DEF WaitInv
  <2> QED BY <2>3, <2>4 DEF WaitInv, IsActive
<1>8. OutcomeInv'
  <2>1. ASSUME NEW q \in Dialogs
        PROVE  /\ dialog'[q].busy => dialog'[q].told = "none"
               /\ dialog'[q].told = "done" =>
                     /\ dialog'[q].last \in DOMAIN asked'
                     /\ asked'[dialog'[q].last].at = "over" /\ asked'[dialog'[q].last].says = "done"
    <3>1. ASSUME dialog[q].told = "done"
          PROVE  /\ dialog[q].last \in DOMAIN asked
                 /\ asked'[dialog[q].last].at = "over" /\ asked'[dialog[q].last].says = "done"
      <4>1. /\ dialog[q].last \in DOMAIN asked
            /\ asked[dialog[q].last].at = "over" /\ asked[dialog[q].last].says = "done"
        BY <1>i, <3>1 DEF OutcomeInv
      <4> QED BY <1>1, <4>1
    <3>2. CASE q = p
      BY <1>1, <3>1, <3>2
    <3>3. CASE q # p
      BY <1>i, <1>1, <3>1, <3>3 DEF OutcomeInv
    <3> QED BY <3>2, <3>3
  <2> QED BY <2>1 DEF OutcomeInv
<1>9. OwnInv'
  <2>1. ASSUME NEW q \in Dialogs, NEW t, Owns(q, t)' PROVE Owns(q, t)
    BY <1>1, <2>1 DEF Owns
  <2> QED BY <1>i, <1>2, <2>1 DEF OwnInv
<1>10. CurrentInv'
  <2>1. \A q \in DOMAIN asked :
          /\ q \in DOMAIN asked'
          /\ asked[q].token # 0 => asked'[q].token = asked[q].token
          /\ asked[q].late => asked'[q].late
          /\ asked[q].cut => asked'[q].cut
    BY <1>1
  <2>2. ASSUME NEW c \in AskRow, r \in DOMAIN asked', asked'[r] = c, c.token # 0, Undisturbed(c.token)'
        PROVE  Fits(c)'
    <3>1. c = b
      BY <1>1, <2>2
    <3>2. Fits(b)
      BY <2>2, <3>1
    <3> QED BY <3>1, <3>2 DEF Fits, Spent, IsAt, FlowOf
  <2>3. ASSUME NEW c \in DialogRow, NEW q \in Dialogs, dialog'[q] = c, c.token # 0,
               Undisturbed(c.token)'
        PROVE  \/ /\ c.token = dialog[q].token /\ c.step = dialog[q].step
                  /\ c.busy = dialog[q].busy /\ c.told = dialog[q].told
               \/ Shows(c)'
    <3>1. CASE q # p
      BY <1>1, <2>3, <3>1
    <3>2. CASE q = p
      <4>1. c = d
        BY <1>1, <2>3, <3>2
      <4>2. Shows(d) => Shows(d)'
        BY DEF Shows, Spent, IsAt, FlowOf
      <4> QED BY <2>3, <3>2, <4>1, <4>2
    <3> QED BY <3>1, <3>2
  <2>4. \A q \in DOMAIN asked' : q # r => q \in DOMAIN asked /\ asked'[q] = asked[q]
    BY <1>1
  <2>5. r \in Nat /\ reboots' = reboots
    BY <1>t
  <2> QED BY <1>1, <1>2, <2>1, <2>2, <2>3, <2>4, <2>5, CurrentStays
<1> QED BY <1>3, <1>4, <1>5, <1>6, <1>7, <1>8, <1>9, <1>10 DEF IntegrationInv

\* The dialog takes the answer it waited for: a form is the one its flow is at, an error
\* leaves a token that is spent.
LEMMA AcceptingKeeps ==
  ASSUME IntegrationInv, NEW r \in DOMAIN asked, AcceptIntegrated(r)
  PROVE  IntegrationInv'
<1>0. PICK a : a = asked[r]
  OBVIOUS
<1>r. a \in AskRow /\ dialog \in [Dialogs -> DialogRow] /\ asked \in Seq(AskRow)
  BY <1>0 DEF IntegrationInv, IntegrationTypes
<1>p. PICK p \in Dialogs : p = a.from
  BY <1>r DEF AskRow
<1>a. /\ a.at = "result" /\ OfKind(a) /\ OfStage(a) /\ OfFlow(a)
      /\ a.waited /\ a.kind # "list" => dialog[p].busy
      /\ a.waited /\ a.kind = "fill" => dialog[p].token = a.token
      /\ a.waited /\ a.kind \in {"begin", "look"} => dialog[p].token = 0
      /\ dialog[p].busy => dialog[p].told = "none"
      /\ IsActive(a) /\ (~a.late => a.waited)
      /\ UNCHANGED <<configFlow, devicesMade, deviceRows, pendingFlows, reboots>>
  BY <1>0, <1>p DEF AcceptIntegrated, IntegrationInv, RowsInv, WaitInv, OutcomeInv, IsActive
<1>f. a.token # 0 /\ Undisturbed(a.token) => Fits(a)
  BY <1>0 DEF IntegrationInv, CurrentInv
<1>2. PICK b : b = [a EXCEPT !.at = "over", !.waited = FALSE, !.options = {}, !.step = 0]
  OBVIOUS
<1>3. asked' = [asked EXCEPT ![r] = b]
  BY <1>0, <1>2 DEF AcceptIntegrated
<1>4. /\ b \in AskRow /\ b.at = "over" /\ ~b.waited /\ b.options = {} /\ b.step = 0
      /\ b.from = a.from /\ b.kind = a.kind /\ b.token = a.token /\ b.flow = a.flow
      /\ b.says = a.says /\ b.met = a.met /\ b.filled = a.filled /\ b.decoded = a.decoded
      /\ b.late = a.late /\ b.cut = a.cut /\ b.devices = a.devices
  BY <1>r, <1>2 DEF AskRow
<1>5. OfKind(b) /\ OfStage(b) /\ OfFlow(b) /\ ~IsNew(b) /\ ~IsActive(b) /\ (Fits(a) => Fits(b))
  BY <1>a, <1>4 DEF OfKind, OfStage, OfFlow, IsNew, IsActive, Fits
<1>6. ASSUME NEW t \in DOMAIN pendingFlows, Undisturbed(t)' PROVE Undisturbed(t)
  <2>1. TablesGo
    BY <1>a, TablesAreKept
  <2>2. \A q \in DOMAIN asked :
          /\ q \in DOMAIN asked' /\ asked'[q].token = asked[q].token
          /\ asked[q].late => asked'[q].late
          /\ asked[q].cut => asked'[q].cut
    BY <1>0, <1>r, <1>3, <1>4
  <2> QED BY <1>6, <2>1, <2>2, UndisturbedBefore
<1>7. a.token \in DOMAIN pendingFlows \cup {0}
  BY <1>0 DEF IntegrationInv, NamesInv
<1>8. b.token # 0 /\ Undisturbed(b.token)' => Fits(b)
  BY <1>4, <1>5, <1>6, <1>7, <1>f
<1>9. dialog[p] \in DialogRow /\ a.options \in SUBSET Nat /\ r \in Nat /\ a.token \in Nat /\ a.step \in Nat
  <2>1. a.options \in SUBSET Nat /\ a.token \in Nat /\ a.step \in Nat
    BY <1>r DEF AskRow
  <2>2. dialog[p] \in DialogRow /\ r \in Nat
    BY <1>r
  <2> QED BY <2>1, <2>2
<1>10. \E d \in DialogRow :
          /\ dialog' = [dialog EXCEPT ![p] = d]
          /\ d.token \in {dialog[p].token, a.token, 0}
          /\ d.options \subseteq dialog[p].options \cup a.options
          /\ \/ a.waited /\ a.kind # "list"
             \/ d.busy = dialog[p].busy /\ d.token = dialog[p].token
          /\ d.busy => d.told = "none"
          /\ d.told = "done" => \/ d.last = r /\ b.at = "over" /\ b.says = "done"
                                \/ dialog[p].told = "done" /\ d.last = dialog[p].last
          /\ d.token # 0 /\ Undisturbed(d.token)' =>
                \/ /\ d.token = dialog[p].token /\ d.step = dialog[p].step
                   /\ d.busy = dialog[p].busy /\ d.told = dialog[p].told
                \/ Shows(d)
  <2>1. CASE ~a.waited
    <3>1. dialog' = [dialog EXCEPT ![p] = dialog[p]]
      BY <1>0, <1>r, <2>1 DEF AcceptIntegrated
    <3> QED BY <1>9, <1>a, <3>1
  <2>2. CASE a.waited /\ a.says = "form"
    <3>1. PICK d : d = [dialog[p] EXCEPT !.token = a.token, !.step = a.step, !.busy = FALSE, !.last = r]
      OBVIOUS
    <3>2. dialog' = [dialog EXCEPT ![p] = d]
      BY <1>0, <1>p, <2>2, <3>1 DEF AcceptIntegrated, Applies
    <3>3. /\ d \in DialogRow /\ d.token = a.token /\ d.step = a.step /\ ~d.busy
          /\ d.options = dialog[p].options /\ d.told = dialog[p].told
      BY <1>9, <3>1 DEF DialogRow
    <3>4. a.kind # "list" /\ d.told = "none"
      BY <1>a, <2>2, <3>3 DEF OfKind
    <3>5. d.token # 0 /\ Undisturbed(d.token)' => Shows(d)
      BY <1>a, <1>f, <1>6, <1>7, <2>2, <3>3, <3>4 DEF Fits, Shows
    <3> QED BY <2>2, <3>2, <3>3, <3>4, <3>5
  <2>3. CASE a.waited /\ a.says = "pick" /\ a.kind = "list"
    <3>1. PICK d : d = [dialog[p] EXCEPT !.token = @, !.step = @, !.busy = @, !.options = a.options]
      OBVIOUS
    <3>b. dialog[p].busy \in BOOLEAN
      BY <1>9 DEF DialogRow
    <3>2. dialog' = [dialog EXCEPT ![p] = d]
      BY <1>0, <1>p, <2>3, <3>1, <3>b DEF AcceptIntegrated, Applies
    <3>3. /\ d \in DialogRow /\ d.token = dialog[p].token /\ d.step = dialog[p].step
          /\ d.busy = dialog[p].busy /\ d.options = a.options /\ d.told = dialog[p].told
          /\ d.last = dialog[p].last
      BY <1>9, <3>1 DEF DialogRow
    <3> QED BY <1>a, <3>2, <3>3
  <2>4. CASE a.waited /\ a.says = "pick" /\ a.kind # "list"
    <3>1. PICK d : d = [dialog[p] EXCEPT !.token = 0, !.step = 0, !.busy = FALSE, !.options = a.options]
      OBVIOUS
    <3>2. dialog' = [dialog EXCEPT ![p] = d]
      BY <1>0, <1>p, <2>4, <3>1 DEF AcceptIntegrated, Applies
    <3>3. /\ d \in DialogRow /\ d.token = 0 /\ ~d.busy /\ d.options = a.options
          /\ d.told = dialog[p].told
      BY <1>9, <3>1 DEF DialogRow
    <3> QED BY <1>a, <2>4, <3>2, <3>3
  <2>5. CASE a.waited /\ a.says = "done"
    <3>1. PICK d : d = [dialog[p] EXCEPT !.token = 0, !.step = 0, !.busy = FALSE, !.told = "done",
                                         !.last = r]
      OBVIOUS
    <3>2. dialog' = [dialog EXCEPT ![p] = d]
      BY <1>0, <1>p, <2>5, <3>1 DEF AcceptIntegrated, Applies
    <3>3. /\ d \in DialogRow /\ d.token = 0 /\ ~d.busy /\ d.options = dialog[p].options
          /\ d.told = "done" /\ d.last = r
      BY <1>9, <3>1 DEF DialogRow
    <3>4. a.kind # "list"
      BY <1>a, <2>5 DEF OfKind
    <3> QED BY <1>4, <2>5, <3>2, <3>3, <3>4
  <2>6. CASE a.waited /\ a.says = "error"
    <3>1. PICK d : d = [dialog[p] EXCEPT !.busy = FALSE, !.told = "error"]
      OBVIOUS
    <3>2. dialog' = [dialog EXCEPT ![p] = d]
      BY <1>0, <1>p, <2>6, <3>1 DEF AcceptIntegrated, Applies
    <3>3. /\ d \in DialogRow /\ d.token = dialog[p].token /\ ~d.busy
          /\ d.options = dialog[p].options /\ d.told = "error"
      BY <1>9, <3>1 DEF DialogRow
    <3>4. a.kind # "list"
      BY <1>a, <2>6 DEF OfKind
    <3>5. d.token # 0 => a.kind = "fill" /\ d.token = a.token
      BY <1>a, <1>r, <2>6, <3>3, <3>4 DEF AskRow, AskKinds
    <3>6. d.token # 0 /\ Undisturbed(d.token)' => Shows(d)
      BY <1>a, <1>f, <1>6, <1>7, <2>6, <3>3, <3>5 DEF Fits, Shows
    <3> QED BY <2>6, <3>2, <3>3, <3>4, <3>6
  <2> QED BY <1>a, <2>1, <2>2, <2>3, <2>4, <2>5, <2>6 DEF OfStage
<1>11. PICK d \in DialogRow :
          /\ dialog' = [dialog EXCEPT ![p] = d]
          /\ d.token \in {dialog[p].token, a.token, 0}
          /\ d.options \subseteq dialog[p].options \cup a.options
          /\ \/ a.waited /\ a.kind # "list"
             \/ d.busy = dialog[p].busy /\ d.token = dialog[p].token
          /\ d.busy => d.told = "none"
          /\ d.told = "done" => \/ d.last = r /\ b.at = "over" /\ b.says = "done"
                                \/ dialog[p].told = "done" /\ d.last = dialog[p].last
          /\ d.token # 0 /\ Undisturbed(d.token)' =>
                \/ /\ d.token = dialog[p].token /\ d.step = dialog[p].step
                   /\ d.busy = dialog[p].busy /\ d.told = dialog[p].told
                \/ Shows(d)
  BY <1>10
<1>12. /\ b.options \subseteq a.options /\ (a.late => b.late) /\ (IsActive(b) => b.late)
       /\ (IsNew(b) => IsNew(a) /\ b.step = a.step)
       /\ (b.at = a.at \/ (a.at # "over" /\ b.at = "over")) /\ (b.at = a.at => b.says = a.says)
  BY <1>a, <1>4, <1>5
<1>14. UNCHANGED <<configFlow, devicesMade, deviceRows, pendingFlows, reboots>>
  BY <1>a
<1>15. /\ a = asked[r] /\ p = a.from /\ asked' = [asked EXCEPT ![r] = b]
       /\ dialog' = [dialog EXCEPT ![p] = d] /\ b \in AskRow /\ d \in DialogRow
  BY <1>0, <1>p, <1>3, <1>4, <1>11
<1>16. /\ b.from = a.from /\ b.kind = a.kind /\ b.token = a.token /\ b.flow = a.flow
       /\ b.cut = a.cut /\ b.options \subseteq a.options /\ ~b.waited /\ (a.late => b.late)
       /\ OfKind(b) /\ OfStage(b) /\ OfFlow(b) /\ (IsNew(b) => IsNew(a) /\ b.step = a.step)
       /\ (b.at = a.at \/ (a.at # "over" /\ b.at = "over")) /\ (IsActive(b) => b.late)
       /\ (b.at = a.at => b.says = a.says)
  BY <1>4, <1>5, <1>12
<1>17. b.token # 0 /\ Undisturbed(b.token)' => Fits(b)
  BY <1>8
<1>18. d.busy => d.told = "none"
  BY <1>11
<1>19. /\ d.token \in {dialog[p].token, a.token, 0}
       /\ d.options \subseteq dialog[p].options \cup a.options
       /\ \/ a.waited /\ a.kind # "list"
          \/ d.busy = dialog[p].busy /\ d.token = dialog[p].token
       /\ d.told = "done" => \/ d.last = r /\ b.at = "over" /\ b.says = "done"
                             \/ dialog[p].told = "done" /\ d.last = dialog[p].last
       /\ d.token # 0 /\ Undisturbed(d.token)' =>
            \/ /\ d.token = dialog[p].token /\ d.step = dialog[p].step
               /\ d.busy = dialog[p].busy /\ d.told = dialog[p].told
            \/ Shows(d)
  BY <1>11
<1>20. IsTold(r, a, b, p, d)
  BY <1>14, <1>15, <1>16, <1>17, <1>18, <1>19 DEF IsTold
<1> QED BY <1>r, <1>15, <1>20, DialogHears

\* The dialog gives a request up.  What it drives is disturbed from then on.
LEMMA GivingUpKeeps ==
  ASSUME IntegrationInv, NEW r \in DOMAIN asked, AskTimesOut(r)
  PROVE  IntegrationInv'
<1>0. PICK a : a = asked[r]
  OBVIOUS
<1>r. a \in AskRow /\ dialog \in [Dialogs -> DialogRow] /\ asked \in Seq(AskRow)
  BY <1>0 DEF IntegrationInv, IntegrationTypes
<1>p. PICK p \in Dialogs : p = a.from
  BY <1>r DEF AskRow
<1>a. /\ a.waited /\ a.at # "over" /\ OfKind(a) /\ OfStage(a) /\ OfFlow(a)
      /\ a.kind # "list" => dialog[p].busy
      /\ a.kind = "fill" => dialog[p].token = a.token
      /\ a.kind \in {"begin", "look"} => dialog[p].token = 0
      /\ dialog[p].busy => dialog[p].told = "none"
      /\ UNCHANGED <<configFlow, devicesMade, deviceRows, pendingFlows, reboots>>
  BY <1>0, <1>p DEF AskTimesOut, IntegrationInv, RowsInv, WaitInv, OutcomeInv
<1>2. PICK b : b = [a EXCEPT !.waited = FALSE, !.late = TRUE]
  OBVIOUS
<1>3. asked' = [asked EXCEPT ![r] = b]
  BY <1>0, <1>2 DEF AskTimesOut
<1>4. /\ b \in AskRow /\ b.at = a.at /\ ~b.waited /\ b.options = a.options /\ b.step = a.step
      /\ b.from = a.from /\ b.kind = a.kind /\ b.token = a.token /\ b.flow = a.flow
      /\ b.says = a.says /\ b.met = a.met /\ b.late /\ b.cut = a.cut /\ b.devices = a.devices
  BY <1>r, <1>2 DEF AskRow
<1>5. OfKind(b) /\ OfStage(b) /\ OfFlow(b) /\ (IsNew(b) => IsNew(a))
  BY <1>a, <1>4 DEF OfKind, OfStage, OfFlow, IsNew
<1>6. ~ Undisturbed(b.token)'
  <2>1. r \in DOMAIN asked' /\ asked'[r] = b
    BY <1>r, <1>3
  <2> QED BY <1>4, <2>1 DEF Undisturbed
<1>9. dialog[p] \in DialogRow
  BY <1>r
<1>10. \E d \in DialogRow :
          /\ dialog' = [dialog EXCEPT ![p] = d]
          /\ d.token = dialog[p].token
          /\ d.options \subseteq dialog[p].options
          /\ \/ a.kind # "list"
             \/ d.busy = dialog[p].busy /\ d.token = dialog[p].token
          /\ d.busy => d.told = "none"
          /\ d.told = "done" => dialog[p].told = "done" /\ d.last = dialog[p].last
          /\ d.token # 0 /\ Undisturbed(d.token)' =>
                /\ d.token = dialog[p].token /\ d.step = dialog[p].step
                /\ d.busy = dialog[p].busy /\ d.told = dialog[p].told
  <2>1. CASE a.kind = "list"
    <3>1. PICK d : d = [dialog[p] EXCEPT !.options = {}]
      OBVIOUS
    <3>2. dialog' = [dialog EXCEPT ![p] = d]
      BY <1>0, <1>p, <2>1, <3>1 DEF AskTimesOut
    <3>3. /\ d \in DialogRow /\ d.token = dialog[p].token /\ d.step = dialog[p].step
          /\ d.busy = dialog[p].busy /\ d.options = {} /\ d.told = dialog[p].told
          /\ d.last = dialog[p].last
      BY <1>9, <3>1 DEF DialogRow
    <3> QED BY <1>a, <3>2, <3>3
  <2>2. CASE a.kind # "list"
    <3>1. PICK d : d = [dialog[p] EXCEPT !.busy = FALSE, !.told = "error"]
      OBVIOUS
    <3>2. dialog' = [dialog EXCEPT ![p] = d]
      BY <1>0, <1>p, <2>2, <3>1 DEF AskTimesOut
    <3>3. /\ d \in DialogRow /\ d.token = dialog[p].token /\ ~d.busy
          /\ d.options = dialog[p].options /\ d.told = "error"
      BY <1>9, <3>1 DEF DialogRow
    <3>4. d.token # 0 => d.token = b.token
      BY <1>a, <1>r, <1>4, <2>2, <3>3 DEF AskRow, AskKinds
    <3> QED BY <1>6, <2>2, <3>2, <3>3, <3>4
  <2> QED BY <2>1, <2>2
<1>11. PICK d \in DialogRow :
          /\ dialog' = [dialog EXCEPT ![p] = d]
          /\ d.token = dialog[p].token
          /\ d.options \subseteq dialog[p].options
          /\ \/ a.kind # "list"
             \/ d.busy = dialog[p].busy /\ d.token = dialog[p].token
          /\ d.busy => d.told = "none"
          /\ d.told = "done" => dialog[p].told = "done" /\ d.last = dialog[p].last
          /\ d.token # 0 /\ Undisturbed(d.token)' =>
                /\ d.token = dialog[p].token /\ d.step = dialog[p].step
                /\ d.busy = dialog[p].busy /\ d.told = dialog[p].told
  BY <1>10
<1>12. /\ b.options \subseteq a.options /\ (a.late => b.late) /\ (IsActive(b) => b.late)
       /\ (IsNew(b) => IsNew(a) /\ b.step = a.step)
       /\ (b.at = a.at \/ (a.at # "over" /\ b.at = "over")) /\ (b.at = a.at => b.says = a.says)
       /\ (b.token # 0 /\ Undisturbed(b.token)' => Fits(b))
  BY <1>a, <1>4, <1>5, <1>6
<1>13. /\ d.token \in {dialog[p].token, a.token, 0}
       /\ d.options \subseteq dialog[p].options \cup a.options
       /\ \/ a.waited /\ a.kind # "list"
          \/ d.busy = dialog[p].busy /\ d.token = dialog[p].token
       /\ d.told = "done" => \/ d.last = r /\ b.at = "over" /\ b.says = "done"
                             \/ dialog[p].told = "done" /\ d.last = dialog[p].last
       /\ d.token # 0 /\ Undisturbed(d.token)' =>
            \/ /\ d.token = dialog[p].token /\ d.step = dialog[p].step
               /\ d.busy = dialog[p].busy /\ d.told = dialog[p].told
            \/ Shows(d)
  BY <1>a, <1>11
<1>14. UNCHANGED <<configFlow, devicesMade, deviceRows, pendingFlows, reboots>>
  BY <1>a
<1>15. /\ a = asked[r] /\ p = a.from /\ asked' = [asked EXCEPT ![r] = b]
       /\ dialog' = [dialog EXCEPT ![p] = d] /\ b \in AskRow /\ d \in DialogRow
  BY <1>0, <1>p, <1>3, <1>4, <1>11
<1>16. /\ b.from = a.from /\ b.kind = a.kind /\ b.token = a.token /\ b.flow = a.flow
       /\ b.cut = a.cut /\ b.options \subseteq a.options /\ ~b.waited /\ (a.late => b.late)
       /\ OfKind(b) /\ OfStage(b) /\ OfFlow(b) /\ (IsNew(b) => IsNew(a) /\ b.step = a.step)
       /\ (b.at = a.at \/ (a.at # "over" /\ b.at = "over")) /\ (IsActive(b) => b.late)
       /\ (b.at = a.at => b.says = a.says)
  BY <1>4, <1>5, <1>12
<1>17. b.token # 0 /\ Undisturbed(b.token)' => Fits(b)
  BY <1>12
<1>18. d.busy => d.told = "none"
  BY <1>11
<1>20. IsTold(r, a, b, p, d)
  BY <1>14, <1>15, <1>16, <1>17, <1>18, <1>13 DEF IsTold
<1> QED BY <1>r, <1>15, <1>20, DialogHears

\* Back at the catalog the dialog shows no flow; nobody waited, so none comes back.
LEMMA GoingBackKeeps ==
  ASSUME IntegrationInv, NEW p \in Dialogs, BackToStart(p)
  PROVE  IntegrationInv'
<1>r. dialog \in [Dialogs -> DialogRow] /\ dialog[p] \in DialogRow /\ asked \in Seq(AskRow)
  BY DEF IntegrationInv, IntegrationTypes
<1>i. NamesInv /\ RowsInv /\ NewInv /\ WaitInv /\ OutcomeInv /\ OwnInv /\ CurrentInv
  BY DEF IntegrationInv
<1>1. PICK d : d = [dialog[p] EXCEPT !.token = 0, !.step = 0, !.told = "none"]
  OBVIOUS
<1>2. /\ dialog' = [dialog EXCEPT ![p] = d] /\ ~dialog[p].busy
      /\ UNCHANGED <<configFlow, devicesMade, deviceRows, pendingFlows, asked, reboots>>
  BY <1>1 DEF BackToStart
<1>3. /\ d \in DialogRow /\ d.token = 0 /\ d.busy = dialog[p].busy /\ d.options = dialog[p].options
      /\ d.told = "none"
  BY <1>r, <1>1 DEF DialogRow
<1>4. /\ dialog' \in [Dialogs -> DialogRow] /\ dialog'[p] = d
      /\ \A q \in Dialogs : q # p => dialog'[q] = dialog[q]
  BY <1>r, <1>2, <1>3
<1>5. IntegrationTypes'
  BY <1>2, <1>4 DEF IntegrationInv, IntegrationTypes
<1>6. NamesInv'
  <2>1. \A q \in Dialogs : /\ dialog'[q].token \in DOMAIN pendingFlows \cup {0}
                           /\ dialog'[q].options \subseteq DOMAIN pendingFlows
    BY <1>i, <1>3, <1>4 DEF NamesInv
  <2> QED BY <1>i, <1>2, <2>1 DEF NamesInv
<1>7. RowsInv' /\ NewInv'
  BY <1>i, <1>2 DEF RowsInv, OfKind, OfStage, OfFlow, NewInv, IsNew
<1>8. WaitInv'
  <2>1. ASSUME NEW r \in DOMAIN asked, asked[r].waited, asked[r].kind # "list"
        PROVE  asked[r].from \in Dialogs /\ asked[r].from # p
    <3>1. asked[r] \in AskRow
      BY <1>r
    <3>2. asked[r].from \in Dialogs
      BY <3>1 DEF AskRow
    <3> QED BY <1>i, <1>2, <2>1, <3>2 DEF WaitInv
  <2>2. ASSUME NEW r \in DOMAIN asked
        PROVE  /\ IsActive(asked[r]) /\ ~asked[r].late => asked[r].waited
               /\ asked[r].waited => asked[r].at # "over"
               /\ asked[r].waited /\ asked[r].kind # "list" => dialog'[asked[r].from].busy
               /\ asked[r].waited /\ asked[r].kind = "fill" =>
                     dialog'[asked[r].from].token = asked[r].token
               /\ asked[r].waited /\ asked[r].kind \in {"begin", "look"} =>
                     dialog'[asked[r].from].token = 0
    BY <1>i, <1>4, <2>1 DEF WaitInv
  <2> QED BY <1>i, <1>2, <2>2 DEF WaitInv, IsActive
<1>9. OutcomeInv'
  <2>1. ASSUME NEW q \in Dialogs
        PROVE  /\ dialog'[q].busy => dialog'[q].told = "none"
               /\ dialog'[q].told = "done" =>
                     /\ dialog'[q].last \in DOMAIN asked
                     /\ asked[dialog'[q].last].at = "over" /\ asked[dialog'[q].last].says = "done"
    BY <1>i, <1>3, <1>4 DEF OutcomeInv
  <2> QED BY <1>2, <2>1 DEF OutcomeInv
<1>10. OwnInv'
  <2>1. ASSUME NEW q \in Dialogs, NEW t, Owns(q, t)' PROVE Owns(q, t)
    BY <1>2, <1>3, <1>4, <2>1 DEF Owns
  <2> QED BY <1>i, <1>2, <2>1 DEF OwnInv
<1>11. CurrentInv'
  <2>1. \A t \in DOMAIN pendingFlows : Undisturbed(t)' => Undisturbed(t)
    BY <1>2 DEF Undisturbed
  <2>2. ASSUME NEW r \in DOMAIN asked, asked[r].token # 0, Undisturbed(asked[r].token)'
        PROVE  Fits(asked[r])'
    <3>1. Undisturbed(asked[r].token)
      BY <1>i, <1>2, <2>1, <2>2 DEF NamesInv
    <3>2. Fits(asked[r])
      BY <1>i, <2>2, <3>1 DEF CurrentInv
    <3> QED BY <1>2, <3>2 DEF Fits, Spent, IsAt, FlowOf
  <2>3. ASSUME NEW q \in Dialogs, NEW c, c = dialog'[q], c.token # 0, Undisturbed(c.token)'
        PROVE  Shows(c)'
    <3>1. q # p /\ c = dialog[q]
      BY <1>3, <1>4, <2>3
    <3>2. Undisturbed(c.token)
      BY <1>i, <1>2, <2>1, <2>3, <3>1 DEF NamesInv
    <3>3. Shows(c)
      BY <1>i, <2>3, <3>1, <3>2 DEF CurrentInv
    <3> QED BY <1>2, <3>3 DEF Shows, Spent, IsAt, FlowOf
  <2>4. ASSUME NEW q \in Dialogs, (dialog[q].token # 0)', Undisturbed(dialog[q].token)'
        PROVE  Shows(dialog[q])'
    <3>1. PICK c : c = dialog'[q]
      OBVIOUS
    <3>2. c.token # 0 /\ Undisturbed(c.token)'
      BY <2>4, <3>1 DEF Undisturbed
    <3>3. Shows(c)'
      BY <2>3, <3>1, <3>2
    <3> QED BY <3>1, <3>3 DEF Shows, Spent, IsAt, FlowOf
  <2>5. ASSUME NEW r \in DOMAIN asked', (asked[r].token # 0)', Undisturbed(asked[r].token)'
        PROVE  Fits(asked[r])'
    <3>1. r \in DOMAIN asked /\ asked[r].token # 0 /\ asked'[r] = asked[r]
      BY <1>2, <2>5
    <3>2. Undisturbed(asked[r].token)'
      BY <2>5
    <3> QED BY <2>2, <3>1, <3>2
  <2> QED BY <2>4, <2>5 DEF CurrentInv
<1> QED BY <1>5, <1>6, <1>7, <1>8, <1>9, <1>10, <1>11 DEF IntegrationInv

\* After a restart the runtime knows no token: what a dialog shows of one is spent, and
\* of what was asked only the end of what was over is left.
LEMMA RebootingKeeps ==
  ASSUME IntegrationInv, RuntimeReboots
  PROVE  IntegrationInv'
<1>t. /\ asked \in Seq(AskRow) /\ dialog \in [Dialogs -> DialogRow] /\ reboots \in Nat
      /\ pendingFlows \in Seq(KeptRow) /\ configFlow \in Seq(FlowRow)
  BY DEF IntegrationInv, IntegrationTypes
<1>i. NamesInv /\ RowsInv /\ NewInv /\ WaitInv /\ OutcomeInv /\ OwnInv /\ CurrentInv
  BY DEF IntegrationInv
<1>a. /\ UNCHANGED <<configFlow, devicesMade, deviceRows, dialog>> /\ reboots' = reboots + 1
      /\ pendingFlows' = [t \in DOMAIN pendingFlows |-> [pendingFlows[t] EXCEPT !.known = FALSE]]
      /\ asked' = [r \in DOMAIN asked |->
                      IF asked[r].at = "over" THEN asked[r]
                      ELSE [asked[r] EXCEPT !.at = "lost", !.says = "none", !.filled = 0,
                                            !.decoded = 0, !.met = 0, !.flow = 0, !.step = 0,
                                            !.options = {}, !.devices = {}]]
  BY DEF RuntimeReboots
<1>b. /\ configFlow' = configFlow /\ devicesMade' = devicesMade /\ deviceRows' = deviceRows
      /\ dialog' = dialog /\ reboots' = reboots + 1
  BY <1>a
<1>1. /\ DOMAIN pendingFlows' = DOMAIN pendingFlows
      /\ \A t \in DOMAIN pendingFlows : /\ pendingFlows'[t].flow = pendingFlows[t].flow
                                        /\ ~pendingFlows'[t].known /\ pendingFlows'[t] \in KeptRow
  <2>1. ASSUME NEW t \in DOMAIN pendingFlows
        PROVE  /\ pendingFlows'[t].flow = pendingFlows[t].flow
               /\ ~pendingFlows'[t].known /\ pendingFlows'[t] \in KeptRow
    <3>1. PICK k : k = pendingFlows[t]
      OBVIOUS
    <3>2. k \in KeptRow
      BY <1>t, <3>1
    <3>3. pendingFlows'[t] = [k EXCEPT !.known = FALSE]
      BY <1>a, <3>1
    <3> QED BY <3>1, <3>2, <3>3 DEF KeptRow
  <2> QED BY <1>a, <2>1
<1>2. pendingFlows' \in Seq(KeptRow)
  <2>1. PICK n \in Nat : DOMAIN pendingFlows = 1..n
    BY <1>t
  <2>2. pendingFlows' \in [1..n -> KeptRow]
    BY <1>a, <1>1, <2>1
  <2> QED BY <2>1, <2>2, SeqDef
<1>3. ASSUME NEW r \in DOMAIN asked, asked[r].at # "over"
      PROVE  /\ asked'[r] \in AskRow
             /\ asked'[r].at = "lost" /\ asked'[r].says = "none" /\ asked'[r].met = 0
             /\ asked'[r].flow = 0 /\ asked'[r].options = {}
             /\ asked'[r].from = asked[r].from /\ asked'[r].kind = asked[r].kind
             /\ asked'[r].token = asked[r].token /\ asked'[r].waited = asked[r].waited
             /\ asked'[r].late = asked[r].late /\ asked'[r].cut = asked[r].cut
  <2>1. PICK a : a = asked[r]
    OBVIOUS
  <2>2. a \in AskRow
    BY <1>t, <2>1
  <2>3. PICK b : b = [a EXCEPT !.at = "lost", !.says = "none", !.filled = 0,
                               !.decoded = 0, !.met = 0, !.flow = 0, !.step = 0,
                               !.options = {}, !.devices = {}]
    OBVIOUS
  <2>4. asked'[r] = b
    BY <1>a, <1>3, <2>1, <2>3
  <2>5. /\ b \in AskRow /\ b.at = "lost" /\ b.says = "none" /\ b.met = 0 /\ b.flow = 0
        /\ b.options = {} /\ b.from = a.from /\ b.kind = a.kind /\ b.token = a.token
        /\ b.waited = a.waited /\ b.late = a.late /\ b.cut = a.cut
    BY <2>2, <2>3 DEF AskRow
  <2> QED BY <2>1, <2>4, <2>5
<1>4. \A r \in DOMAIN asked : asked[r].at = "over" => asked'[r] = asked[r]
  BY <1>a
<1>5. DOMAIN asked' = DOMAIN asked /\ \A r \in DOMAIN asked : asked'[r] \in AskRow
  <2>1. DOMAIN asked' = DOMAIN asked
    BY <1>a
  <2>2. \A r \in DOMAIN asked : asked[r] \in AskRow
    BY <1>t
  <2> QED BY <2>1, <2>2, <1>3, <1>4
<1>6. asked' \in Seq(AskRow)
  <2>1. PICK n \in Nat : DOMAIN asked = 1..n
    BY <1>t
  <2>2. asked' \in [1..n -> AskRow]
    BY <1>a, <1>5, <2>1
  <2> QED BY <2>1, <2>2, SeqDef
<1>7. \A r \in DOMAIN asked :
         /\ asked'[r].from = asked[r].from /\ asked'[r].kind = asked[r].kind
         /\ asked'[r].token = asked[r].token /\ asked'[r].waited = asked[r].waited
         /\ asked'[r].late = asked[r].late /\ asked'[r].cut = asked[r].cut
         /\ asked'[r].options \subseteq asked[r].options
         /\ asked'[r].at \in {"over", "lost"} /\ (asked'[r].at = "over" => asked[r].at = "over")
         /\ asked'[r].flow \in {asked[r].flow, 0}
  BY <1>3, <1>4
<1>8. IntegrationTypes'
  BY <1>t, <1>b, <1>2, <1>6 DEF IntegrationInv, IntegrationTypes
<1>9. NamesInv'
  <2>1. ASSUME NEW r \in DOMAIN asked'
        PROVE  /\ asked'[r].token \in DOMAIN pendingFlows' \cup {0}
               /\ asked'[r].flow \in DOMAIN configFlow' \cup {0}
               /\ asked'[r].options \subseteq DOMAIN pendingFlows'
    BY <1>i, <1>b, <1>1, <1>5, <1>7, <2>1 DEF NamesInv
  <2>2. \A t \in DOMAIN pendingFlows' : pendingFlows'[t].flow \in DOMAIN configFlow'
    BY <1>i, <1>b, <1>1 DEF NamesInv
  <2>3. \A p \in Dialogs : /\ dialog'[p].token \in DOMAIN pendingFlows' \cup {0}
                           /\ dialog'[p].options \subseteq DOMAIN pendingFlows'
    BY <1>i, <1>b, <1>1 DEF NamesInv
  <2> QED BY <2>1, <2>2, <2>3 DEF NamesInv
<1>10. RowsInv'
  <2>1. ASSUME NEW r \in DOMAIN asked, NEW b, b = asked'[r]
        PROVE  OfKind(b) /\ OfStage(b) /\ OfFlow(b)'
    <3>1. OfKind(asked[r]) /\ OfStage(asked[r]) /\ OfFlow(asked[r])
      BY <1>i DEF RowsInv
    <3>2. CASE asked[r].at = "over"
      <4>1. b = asked[r]
        BY <1>4, <2>1, <3>2
      <4>2. asked[r].token # 0 => asked[r].token \in DOMAIN pendingFlows
        BY <1>i DEF NamesInv
      <4>3. OfFlow(b)'
        BY <1>b, <1>1, <3>1, <4>1, <4>2 DEF OfFlow
      <4> QED BY <3>1, <4>1, <4>3
    <3>3. CASE asked[r].at # "over"
      BY <1>3, <2>1, <3>1, <3>3 DEF OfKind, OfStage, OfFlow
    <3> QED BY <3>2, <3>3
  <2> QED BY <1>5, <2>1 DEF RowsInv, OfKind, OfStage, OfFlow
<1>11. NewInv'
  <2>1. \A r \in DOMAIN asked' : ~IsNew(asked'[r])
    BY <1>5, <1>7 DEF IsNew
  <2> QED BY <2>1 DEF NewInv, IsNew
<1>12. WaitInv'
  <2>1. ASSUME NEW r \in DOMAIN asked'
        PROVE  /\ ~IsActive(asked'[r])
               /\ asked'[r].waited => asked'[r].at # "over"
               /\ asked'[r].waited /\ asked'[r].kind # "list" => dialog'[asked'[r].from].busy
               /\ asked'[r].waited /\ asked'[r].kind = "fill" =>
                     dialog'[asked'[r].from].token = asked'[r].token
               /\ asked'[r].waited /\ asked'[r].kind \in {"begin", "look"} =>
                     dialog'[asked'[r].from].token = 0
    <3>1. r \in DOMAIN asked /\ dialog' = dialog
      BY <1>b, <1>5, <2>1
    <3>2. /\ asked[r].waited => asked[r].at # "over"
          /\ asked[r].waited /\ asked[r].kind # "list" => dialog[asked[r].from].busy
          /\ asked[r].waited /\ asked[r].kind = "fill" =>
                dialog[asked[r].from].token = asked[r].token
          /\ asked[r].waited /\ asked[r].kind \in {"begin", "look"} =>
                dialog[asked[r].from].token = 0
      BY <1>i, <3>1 DEF WaitInv
    <3> QED BY <1>7, <3>1, <3>2 DEF IsActive
  <2>2. \A q, r \in DOMAIN asked' :
          /\ asked'[q].waited /\ asked'[q].kind # "list"
          /\ asked'[r].waited /\ asked'[r].kind # "list"
          /\ asked'[q].from = asked'[r].from
          => q = r
    BY <1>i, <1>5, <1>7 DEF WaitInv
  <2> QED BY <2>1, <2>2 DEF WaitInv, IsActive
<1>13. OutcomeInv'
  <2>1. ASSUME NEW p \in Dialogs, dialog[p].told = "done"
        PROVE  /\ dialog[p].last \in DOMAIN asked'
               /\ asked'[dialog[p].last].at = "over" /\ asked'[dialog[p].last].says = "done"
    <3>1. /\ dialog[p].last \in DOMAIN asked
          /\ asked[dialog[p].last].at = "over" /\ asked[dialog[p].last].says = "done"
      BY <1>i, <2>1 DEF OutcomeInv
    <3> QED BY <1>4, <1>5, <3>1
  <2> QED BY <1>i, <1>b, <2>1 DEF OutcomeInv
<1>14. OwnInv'
  <2>1. ASSUME NEW p \in Dialogs, NEW t, Owns(p, t)' PROVE Owns(p, t)
    <3>1. dialog'[p] = dialog[p]
      BY <1>b
    <3> QED BY <1>5, <1>7, <2>1, <3>1 DEF Owns
  <2> QED BY <1>i, <1>1, <2>1 DEF OwnInv
<1>15. CurrentInv'
  <2>1. \A t \in DOMAIN pendingFlows : Undisturbed(t)' => Undisturbed(t)
    BY <1>1, <1>5, <1>7 DEF Undisturbed
  <2>2. ASSUME NEW r \in DOMAIN asked', (asked[r].token # 0)', Undisturbed(asked[r].token)'
        PROVE  Fits(asked[r])'
    <3>1. PICK b : b = asked'[r]
      OBVIOUS
    <3>2. b.at \in {"over", "lost"} /\ r \in DOMAIN asked
      BY <1>5, <1>7, <3>1
    <3>3. b.met # 0 => b.filled = b.met /\ b.decoded = b.met
      <4>1. CASE asked[r].at # "over"
        BY <1>3, <3>1, <3>2, <4>1
      <4>2. CASE asked[r].at = "over"
        <5>1. b = asked[r] /\ b.token # 0 /\ b.token \in DOMAIN pendingFlows
          BY <1>i, <1>4, <2>2, <3>1, <3>2, <4>2 DEF NamesInv
        <5>2. Undisturbed(b.token)'
          BY <2>2, <3>1
        <5>3. Fits(b)
          BY <1>i, <2>1, <3>2, <5>1, <5>2 DEF CurrentInv
        <5> QED BY <5>3 DEF Fits
      <4> QED BY <4>1, <4>2
    <3> QED BY <3>1, <3>2, <3>3 DEF Fits
  <2>3. ASSUME NEW p \in Dialogs, (dialog[p].token # 0)'
        PROVE  Shows(dialog[p])'
    <3>1. dialog'[p] = dialog[p] /\ dialog[p].token \in DOMAIN pendingFlows
      BY <1>i, <1>b, <2>3 DEF NamesInv
    <3>2. reboots' # 0
      BY <1>t, <1>b
    <3> QED BY <1>1, <3>1, <3>2 DEF Shows, Spent
  <2> QED BY <2>2, <2>3 DEF CurrentInv
<1> QED BY <1>8, <1>9, <1>10, <1>11, <1>12, <1>13, <1>14, <1>15 DEF IntegrationInv

\* Every step keeps it.
LEMMA IntegrationKept ==
  ASSUME IntegrationInv, [IntegrationNext]_integrationVars
  PROVE  IntegrationInv'
<1>k. /\ {"list", "begin", "look", "fill"} \subseteq AskKinds /\ 0 \in Nat
      /\ \A p \in Dialogs : dialog[p].token \in Nat /\ dialog[p].options \subseteq Nat
  <2>1. \A p \in Dialogs : dialog[p] \in DialogRow
    BY DEF IntegrationInv, IntegrationTypes
  <2> QED BY <2>1 DEF AskKinds, DialogRow
<1>1. ASSUME NEW p \in Dialogs, OpenDialog(p) \/ Pick(p) \/ Submit(p) \/ BackToStart(p)
      PROVE  IntegrationInv'
  <2>1. CASE OpenDialog(p)
    <3>1. Ask(p, "list", 0)
      BY <2>1 DEF OpenDialog
    <3> QED BY <1>k, <3>1, AskingKeeps
  <2>2. CASE Pick(p)
    <3>1. dialog[p].token = 0 /\ ~dialog[p].busy /\ Ask(p, "begin", 0)
      BY <2>2 DEF Pick
    <3> QED BY <1>k, <3>1, AskingKeeps
  <2>3. CASE Submit(p)
    <3>1. dialog[p].token # 0 /\ ~dialog[p].busy /\ Ask(p, "fill", dialog[p].token)
      BY <2>3 DEF Submit
    <3> QED BY <1>k, <3>1, AskingKeeps
  <2>4. CASE BackToStart(p)
    BY <2>4, GoingBackKeeps
  <2> QED BY <1>1, <2>1, <2>2, <2>3, <2>4
<1>2. ASSUME NEW p \in Dialogs, NEW t \in dialog[p].options, Discover(p, t)
      PROVE  IntegrationInv'
  <2>1. /\ t \in dialog[p].options /\ dialog[p].token = 0 /\ ~dialog[p].busy /\ t \in Nat
        /\ Ask(p, "look", t)
    BY <1>k, <1>2 DEF Discover
  <2> QED BY <1>k, <2>1, AskingKeeps
<1>3. ASSUME NEW r \in DOMAIN asked,
             \/ AcceptIntegrated(r) \/ AskTimesOut(r)
             \/ HandleIntegrate(r) \/ MapFlow(r) \/ CollectDevices(r) \/ RestTimesOut(r)
             \/ HaBegins(r) \/ HaShows(r) \/ HaTakes(r)
      PROVE  IntegrationInv'
  BY <1>3, AcceptingKeeps, GivingUpKeeps, HandlingKeeps, MappingKeeps, CollectingKeeps,
     CuttingKeeps, BeginningKeeps, ShowingKeeps, TakingKeeps
<1>4. ASSUME NEW f \in DOMAIN configFlow, HaReturns(f) \/ HaSetsUp(f) \/ TakesStateRow(f)
      PROVE  IntegrationInv'
  <2>1. f \in Nat
    BY DEF IntegrationInv, IntegrationTypes
  <2> QED BY <1>4, <2>1, ReturningKeeps, SettingUpKeeps
<1>5. CASE UNCHANGED integrationVars
  <2>0. UNCHANGED <<configFlow, devicesMade, deviceRows, pendingFlows, asked, dialog, reboots>>
    BY <1>5 DEF integrationVars
  <2>1. IntegrationTypes' /\ NamesInv'
    BY <2>0 DEF IntegrationInv, IntegrationTypes, NamesInv
  <2>2. RowsInv'
    BY <2>0 DEF IntegrationInv, RowsInv, OfKind, OfStage, OfFlow
  <2>3. NewInv' /\ WaitInv'
    BY <2>0 DEF IntegrationInv, NewInv, IsNew, WaitInv, IsActive
  <2>4. OutcomeInv' /\ OwnInv'
    BY <2>0 DEF IntegrationInv, OutcomeInv, OwnInv, Owns
  <2>5. CurrentInv'
    <3>1. \A t : (Undisturbed(t)' <=> Undisturbed(t)) /\ (Spent(t)' <=> Spent(t))
      BY <2>0 DEF Undisturbed, Spent, FlowOf
    <3>2. \A a : Fits(a)' <=> Fits(a)
      BY <2>0 DEF Fits, Spent, IsAt, FlowOf
    <3>3. \A d : Shows(d)' <=> Shows(d)
      BY <2>0 DEF Shows, Spent, IsAt, FlowOf
    <3> QED BY <2>0, <3>1, <3>2, <3>3 DEF IntegrationInv, CurrentInv
  <2> QED BY <2>1, <2>2, <2>3, <2>4, <2>5 DEF IntegrationInv
<1> QED BY <1>1, <1>2, <1>3, <1>4, <1>5, RebootingKeeps, FindingKeeps DEF IntegrationNext

\* What the dialogs promise of it.
LEMMA IntegrationSound ==
  ASSUME IntegrationInv
  PROVE  IntegrationHolds
<1>t. /\ asked \in Seq(AskRow) /\ dialog \in [Dialogs -> DialogRow] /\ reboots \in Nat
      /\ NamesInv /\ RowsInv /\ OutcomeInv /\ CurrentInv
  BY DEF IntegrationInv, IntegrationTypes
<1>1. FormIsCurrent
  <2>1. ASSUME NEW p \in Dialogs, dialog[p].token # 0, ~dialog[p].busy, dialog[p].told # "error",
               reboots = 0, Undisturbed(dialog[p].token)
        PROVE  IsAt(dialog[p].token, dialog[p].step)
    BY <1>t, <2>1 DEF CurrentInv, Shows
  <2> QED BY <2>1 DEF FormIsCurrent, IsAt, FlowOf
<1>2. ValuesFit
  <2>1. ASSUME NEW r \in DOMAIN asked, asked[r].met # 0, Undisturbed(asked[r].token)
        PROVE  asked[r].filled = asked[r].met /\ asked[r].decoded = asked[r].met
    <3>1. asked[r].token # 0
      BY <1>t, <2>1 DEF RowsInv, OfKind
    <3> QED BY <1>t, <2>1, <3>1 DEF CurrentInv, Fits
  <2> QED BY <2>1 DEF ValuesFit
<1>3. DoneIsDone
  BY <1>t DEF DoneIsDone, OutcomeInv, RowsInv, OfFlow
<1>4. AnswersKeepFlow
  BY <1>t DEF AnswersKeepFlow, RowsInv, OfFlow, OfStage
<1> QED BY <1>1, <1>2, <1>3, <1>4 DEF IntegrationHolds

\* The numbers of flows, forms and requests stay within their bounds, and so do those that
\* requests and dialogs remember.
FlowsFit ==
    /\ Len(configFlow) <= MaxFlows
    /\ \A f \in DOMAIN configFlow : configFlow[f].at \in 1..Forms
    /\ devicesMade \subseteq DOMAIN configFlow
KeptFit == \A t \in DOMAIN pendingFlows : pendingFlows[t].step \in 0..Forms
NumbersFit(a) ==
    /\ a.filled \in 0..Forms /\ a.decoded \in 0..Forms /\ a.met \in 0..Forms /\ a.step \in 0..Forms
    /\ a.devices \subseteq Flows
AsksFit == Len(asked) <= MaxAsks /\ \A r \in DOMAIN asked : NumbersFit(asked[r])
DialogFits(d) == d.step \in 0..Forms /\ d.last \in 0..MaxAsks
DialogsFit == \A p \in Dialogs : DialogFits(dialog[p])

IntegrationBounds == FlowsFit /\ KeptFit /\ AsksFit /\ DialogsFit /\ reboots <= MaxTroubles

\* So the flows, tokens and requests that are named are within them, too.
LEMMA IntegrationTyped ==
  ASSUME IntegrationInv, IntegrationBounds
  PROVE  IntegrationTypeOK
<1>t. /\ configFlow \in Seq(FlowRow) /\ pendingFlows \in Seq(KeptRow) /\ asked \in Seq(AskRow)
      /\ dialog \in [Dialogs -> DialogRow] /\ reboots \in Nat
      /\ deviceRows \subseteq devicesMade /\ devicesMade \subseteq Nat
  BY DEF IntegrationInv, IntegrationTypes
<1>d. /\ DOMAIN configFlow = 1..Len(configFlow) /\ Len(configFlow) \in Nat
      /\ DOMAIN pendingFlows = 1..Len(pendingFlows) /\ Len(pendingFlows) \in Nat
      /\ DOMAIN asked = 1..Len(asked) /\ Len(asked) \in Nat
  BY <1>t
<1>e. \A f \in DOMAIN configFlow : f \in Flows
  BY <1>d, IntegrationAssumption DEF IntegrationBounds, FlowsFit, Flows
<1>f. Flows \cup {0} = 0..MaxFlows
  BY IntegrationAssumption DEF Flows
<1> DEFINE CF == [at : 1..Forms, is : {"open", "external", "entry", "gone"}, found : BOOLEAN]
           PF == [flow : Flows, step : 0..Forms, known : BOOLEAN]
           AF == [from : Dialogs, kind : AskKinds, token : 0..Len(pendingFlows), filled : 0..Forms,
                  decoded : 0..Forms, met : 0..Forms, flow : 0..MaxFlows,
                  at : {"sent", "calling", "heard", "collecting", "result", "over", "lost"},
                  says : {"none", "form", "pick", "done", "entry", "abort", "external", "error"},
                  step : 0..Forms, options : SUBSET DOMAIN pendingFlows, devices : SUBSET Flows,
                  waited : BOOLEAN, late : BOOLEAN, cut : BOOLEAN]
           DF == [token : 0..Len(pendingFlows), step : 0..Forms,
                  options : SUBSET DOMAIN pendingFlows, busy : BOOLEAN,
                  told : {"none", "done", "error"}, last : 0..MaxAsks]
<1>1. configFlow \in Seq(CF)
  <2>1. ASSUME NEW f \in 1..Len(configFlow) PROVE configFlow[f] \in CF
    <3>1. PICK c : c = configFlow[f]
      OBVIOUS
    <3>2. c \in FlowRow /\ c.at \in 1..Forms
      BY <1>t, <1>d, <3>1 DEF IntegrationBounds, FlowsFit
    <3>3. c \in CF
      BY <3>2 DEF FlowRow
    <3> QED BY <3>1, <3>3
  <2> HIDE DEF CF
  <2>2. configFlow \in [1..Len(configFlow) -> CF]
    BY <1>t, <1>d, <2>1
  <2> QED BY <1>d, <2>2, FunctionIsSeq
<1>2. pendingFlows \in Seq(PF)
  <2>1. ASSUME NEW t \in 1..Len(pendingFlows) PROVE pendingFlows[t] \in PF
    <3>1. PICK c : c = pendingFlows[t]
      OBVIOUS
    <3>2. c \in KeptRow /\ c.step \in 0..Forms /\ c.flow \in Flows
      <4>1. c \in KeptRow
        BY <1>t, <1>d, <3>1
      <4>2. t \in DOMAIN pendingFlows
        BY <1>d
      <4>3. c.step \in 0..Forms
        BY <3>1, <4>2 DEF IntegrationBounds, KeptFit
      <4>4. c.flow \in DOMAIN configFlow
        BY <3>1, <4>2 DEF IntegrationInv, NamesInv
      <4> QED BY <1>e, <4>1, <4>3, <4>4
    <3>3. c \in PF
      BY <3>2 DEF KeptRow
    <3> QED BY <3>1, <3>3
  <2> HIDE DEF PF
  <2>2. pendingFlows \in [1..Len(pendingFlows) -> PF]
    BY <1>t, <1>d, <2>1
  <2> QED BY <1>d, <2>2, FunctionIsSeq
<1>g. DOMAIN pendingFlows \cup {0} = 0..Len(pendingFlows)
  BY <1>d
<1>3. asked \in Seq(AF)
  <2>1. ASSUME NEW r \in 1..Len(asked) PROVE asked[r] \in AF
    <3>1. PICK a : a = asked[r]
      OBVIOUS
    <3>2. a \in AskRow /\ NumbersFit(a)
      BY <1>t, <1>d, <3>1 DEF IntegrationBounds, AsksFit
    <3>3. a.token \in 0..Len(pendingFlows) /\ a.options \subseteq DOMAIN pendingFlows
      BY <1>d, <1>g, <3>1 DEF IntegrationInv, NamesInv
    <3>4. a.flow \in 0..MaxFlows
      BY <1>d, <1>e, <1>f, <3>1 DEF IntegrationInv, NamesInv
    <3>5. a \in AF
      BY <3>2, <3>3, <3>4 DEF AskRow, NumbersFit
    <3> QED BY <3>1, <3>5
  <2> HIDE DEF AF
  <2>2. asked \in [1..Len(asked) -> AF]
    BY <1>t, <1>d, <2>1
  <2> QED BY <1>d, <2>2, FunctionIsSeq
<1>4. dialog \in [Dialogs -> DF]
  <2>1. ASSUME NEW p \in Dialogs PROVE dialog[p] \in DF
    <3>1. PICK d : d = dialog[p]
      OBVIOUS
    <3>2. d \in DialogRow /\ DialogFits(d)
      BY <1>t, <3>1 DEF IntegrationBounds, DialogsFit
    <3>3. d.token \in 0..Len(pendingFlows) /\ d.options \subseteq DOMAIN pendingFlows
      BY <1>g, <3>1 DEF IntegrationInv, NamesInv
    <3>4. d \in DF
      BY <3>2, <3>3 DEF DialogRow, DialogFits
    <3> QED BY <3>1, <3>4
  <2> HIDE DEF DF
  <2> QED BY <1>t, <2>1
<1>5. /\ Len(configFlow) <= MaxFlows /\ Len(asked) <= MaxAsks /\ reboots \in 0..MaxTroubles
      /\ devicesMade \subseteq DOMAIN configFlow
  BY <1>t, IntegrationAssumption DEF IntegrationBounds, FlowsFit, AsksFit
<1> QED BY <1>t, <1>1, <1>2, <1>3, <1>4, <1>5 DEF IntegrationTypeOK

LEMMA BoundsStart == ASSUME IntegrationInit PROVE IntegrationBounds
<1>1. /\ configFlow = << >> /\ devicesMade = {} /\ pendingFlows = << >> /\ asked = << >>
      /\ reboots = 0
      /\ \A p \in Dialogs : dialog[p].step = 0 /\ dialog[p].last = 0
  BY DEF IntegrationInit
<1> QED BY <1>1, IntegrationAssumption DEF IntegrationBounds, FlowsFit, KeptFit, AsksFit, DialogsFit, DialogFits

\* What a restart or a wait that is too long leaves of the bound.
LEMMA TroublesCount ==
  ASSUME IntegrationInv, Troubles < MaxTroubles
  PROVE  reboots + 1 <= MaxTroubles
<1>1. asked \in Seq(AskRow) /\ reboots \in Nat
  BY DEF IntegrationInv, IntegrationTypes
<1>2. IsFiniteSet(DOMAIN asked)
  <2>1. DOMAIN asked = 1..Len(asked) /\ Len(asked) \in Nat
    BY <1>1
  <2> QED BY <2>1, FS_Interval
<1>3. /\ Cardinality({q \in DOMAIN asked : asked[q].late /\ asked[q].at # "lost"}) \in Nat
      /\ Cardinality({q \in DOMAIN asked : asked[q].cut}) \in Nat
  BY <1>2, FS_Subset, FS_CardinalityType
<1> QED BY <1>1, <1>3, IntegrationAssumption DEF Troubles

\* A request that changes.
LEMMA RowFits ==
  ASSUME IntegrationInv, AsksFit, NEW r \in DOMAIN asked, NEW b, asked' = [asked EXCEPT ![r] = b],
         NumbersFit(b)
  PROVE  AsksFit'
<1>1. asked \in Seq(AskRow) /\ DOMAIN asked = 1..Len(asked) /\ Len(asked) \in Nat
  BY DEF IntegrationInv, IntegrationTypes
<1>2. Len(asked') = Len(asked) /\ DOMAIN asked' = DOMAIN asked
  BY <1>1
<1>3. \A q \in DOMAIN asked' : asked'[q] = b \/ (q \in DOMAIN asked /\ asked'[q] = asked[q])
  BY <1>1
<1> QED BY <1>2, <1>3 DEF AsksFit, NumbersFit

LEMMA DialogSteps ==
  ASSUME IntegrationInv, DialogsFit, NEW p \in Dialogs, NEW d, dialog' = [dialog EXCEPT ![p] = d],
         DialogFits(d)
  PROVE  DialogsFit'
<1>1. dialog \in [Dialogs -> DialogRow]
  BY DEF IntegrationInv, IntegrationTypes
<1>2. \A q \in Dialogs : dialog'[q] = d \/ dialog'[q] = dialog[q]
  BY <1>1
<1> QED BY <1>2 DEF DialogsFit, DialogFits

LEMMA BoundsStay ==
  ASSUME IntegrationBounds
  PROVE  /\ UNCHANGED <<configFlow, devicesMade>> => FlowsFit'
         /\ UNCHANGED pendingFlows => KeptFit'
         /\ UNCHANGED asked => AsksFit'
         /\ UNCHANGED dialog => DialogsFit'
         /\ FlowsFit /\ KeptFit /\ AsksFit /\ DialogsFit /\ reboots <= MaxTroubles
BY DEF IntegrationBounds, FlowsFit, KeptFit, AsksFit, NumbersFit, DialogsFit, DialogFits

LEMMA AskBounds ==
  ASSUME IntegrationInv, IntegrationBounds, NEW p \in Dialogs, NEW kind \in AskKinds, NEW token \in Nat,
         Ask(p, kind, token)
  PROVE  IntegrationBounds'
<1>1. PICK a : a = [from |-> p, kind |-> kind, token |-> token, decoded |-> 0, met |-> 0, flow |-> 0,
           filled |-> IF kind = "fill" THEN dialog[p].step ELSE 0, at |-> "sent",
           says |-> "none", step |-> 0, options |-> {}, devices |-> {},
           waited |-> TRUE, late |-> FALSE, cut |-> FALSE]
  OBVIOUS
<1>2. asked' = Append(asked, a) /\ Len(asked) < MaxAsks
  BY <1>1 DEF Ask
<1>3. asked \in Seq(AskRow) /\ dialog \in [Dialogs -> DialogRow] /\ Len(asked) \in Nat
  BY DEF IntegrationInv, IntegrationTypes
<1>4. /\ a.decoded = 0 /\ a.met = 0 /\ a.step = 0 /\ a.devices = {}
      /\ a.filled = 0 \/ a.filled = dialog[p].step
  BY <1>1
<1>5. NumbersFit(a)
  BY <1>4, IntegrationAssumption DEF NumbersFit, IntegrationBounds, DialogsFit, DialogFits
<1>6. AsksFit'
  <2>1. Len(asked') = Len(asked) + 1 /\ Len(asked') <= MaxAsks
    BY <1>2, <1>3, IntegrationAssumption
  <2>2. \A q \in DOMAIN asked' : asked'[q] = a \/ (q \in DOMAIN asked /\ asked'[q] = asked[q])
    BY <1>2, <1>3
  <2> QED BY <1>5, <2>1, <2>2 DEF IntegrationBounds, AsksFit, NumbersFit
<1>7. DialogsFit'
  <2>1. \A q \in Dialogs : dialog'[q].step = dialog[q].step /\ dialog'[q].last = dialog[q].last
    BY <1>3 DEF Ask, DialogRow
  <2> QED BY <2>1 DEF IntegrationBounds, DialogsFit, DialogFits
<1>8. UNCHANGED <<configFlow, devicesMade, pendingFlows, reboots>>
  BY DEF Ask
<1> QED BY <1>6, <1>7, <1>8, BoundsStay DEF IntegrationBounds

LEMMA AcceptBounds ==
  ASSUME IntegrationInv, IntegrationBounds, NEW r \in DOMAIN asked, AcceptIntegrated(r)
  PROVE  IntegrationBounds'
<1>0. PICK a : a = asked[r]
  OBVIOUS
<1>r. /\ a \in AskRow /\ asked \in Seq(AskRow) /\ dialog \in [Dialogs -> DialogRow]
      /\ r \in 1..Len(asked) /\ Len(asked) \in Nat
  BY <1>0 DEF IntegrationInv, IntegrationTypes
<1>n. NumbersFit(a) /\ r \in 0..MaxAsks
  BY <1>0, <1>r, IntegrationAssumption DEF IntegrationBounds, AsksFit
<1>1. PICK b : b = [a EXCEPT !.at = "over", !.waited = FALSE, !.options = {}, !.step = 0]
  OBVIOUS
<1>2. asked' = [asked EXCEPT ![r] = b]
  BY <1>0, <1>1 DEF AcceptIntegrated
<1>3. b.filled = a.filled /\ b.decoded = a.decoded /\ b.met = a.met /\ b.step = 0 /\ b.devices = a.devices
  BY <1>r, <1>1 DEF AskRow
<1>4. AsksFit'
  <2>1. NumbersFit(b)
    BY <1>n, <1>3, IntegrationAssumption DEF NumbersFit
  <2> QED BY <1>2, <2>1, RowFits, BoundsStay
<1>5. DialogsFit'
  <2>1. CASE a.waited
    <3>1. PICK p : p = a.from
      OBVIOUS
    <3>2. PICK c : c = dialog[p]
      OBVIOUS
    <3>3. PICK d : d = Applies(p, r)
      OBVIOUS
    <3>4. p \in Dialogs /\ dialog' = [dialog EXCEPT ![p] = d]
      BY <1>0, <1>r, <2>1, <3>1, <3>3 DEF AcceptIntegrated, AskRow
    <3>5. c \in DialogRow /\ DialogFits(c)
      BY <1>r, <3>2, <3>4, BoundsStay DEF DialogsFit
    <3>6. d = CASE a.says = "form" ->
                      [c EXCEPT !.token = a.token, !.step = a.step, !.busy = FALSE, !.last = r]
                [] a.says = "pick" ->
                      [c EXCEPT !.token = IF a.kind = "list" THEN @ ELSE 0,
                                !.step = IF a.kind = "list" THEN @ ELSE 0,
                                !.busy = @ /\ a.kind = "list", !.options = a.options]
                [] a.says = "done" ->
                      [c EXCEPT !.token = 0, !.step = 0, !.busy = FALSE, !.told = "done", !.last = r]
                [] OTHER -> [c EXCEPT !.busy = FALSE, !.told = "error"]
      BY <1>0, <3>2, <3>3, Zenon DEF Applies
    <3>7. /\ d.step = a.step \/ d.step = c.step \/ d.step = 0
          /\ d.last = r \/ d.last = c.last
      <4>1. CASE a.says = "form"
        <5>1. d = [c EXCEPT !.token = a.token, !.step = a.step, !.busy = FALSE, !.last = r]
          BY <3>6, <4>1
        <5> QED BY <3>5, <5>1 DEF DialogRow
      <4>2. CASE a.says = "pick"
        <5>1. d = [c EXCEPT !.token = IF a.kind = "list" THEN @ ELSE 0,
                            !.step = IF a.kind = "list" THEN @ ELSE 0,
                            !.busy = @ /\ a.kind = "list", !.options = a.options]
          BY <3>6, <4>2
        <5> QED BY <3>5, <5>1 DEF DialogRow
      <4>3. CASE a.says = "done"
        <5>1. d = [c EXCEPT !.token = 0, !.step = 0, !.busy = FALSE, !.told = "done", !.last = r]
          BY <3>6, <4>3
        <5> QED BY <3>5, <5>1 DEF DialogRow
      <4>4. CASE a.says \notin {"form", "pick", "done"}
        <5>1. d = [c EXCEPT !.busy = FALSE, !.told = "error"]
          BY <3>6, <4>4
        <5> QED BY <3>5, <5>1 DEF DialogRow
      <4> QED BY <4>1, <4>2, <4>3, <4>4
    <3>8. DialogFits(d)
      BY <1>n, <3>5, <3>7, IntegrationAssumption DEF DialogFits, NumbersFit
    <3> QED BY <3>4, <3>8, DialogSteps, BoundsStay
  <2>2. CASE ~a.waited
    BY <1>0, <2>2, BoundsStay DEF AcceptIntegrated
  <2> QED BY <2>1, <2>2
<1>6. UNCHANGED <<configFlow, devicesMade, pendingFlows, reboots>>
  BY DEF AcceptIntegrated
<1> QED BY <1>4, <1>5, <1>6, BoundsStay DEF IntegrationBounds

LEMMA LateBounds ==
  ASSUME IntegrationInv, IntegrationBounds, NEW r \in DOMAIN asked, AskTimesOut(r)
  PROVE  IntegrationBounds'
<1>0. PICK a : a = asked[r]
  OBVIOUS
<1>r. a \in AskRow /\ asked \in Seq(AskRow) /\ dialog \in [Dialogs -> DialogRow] /\ a.from \in Dialogs
  <2>1. a \in AskRow /\ asked \in Seq(AskRow) /\ dialog \in [Dialogs -> DialogRow]
    BY <1>0 DEF IntegrationInv, IntegrationTypes
  <2> QED BY <2>1 DEF AskRow
<1>1. PICK b : b = [a EXCEPT !.waited = FALSE, !.late = TRUE]
  OBVIOUS
<1>2. asked' = [asked EXCEPT ![r] = b]
  BY <1>0, <1>1 DEF AskTimesOut
<1>3. b.filled = a.filled /\ b.decoded = a.decoded /\ b.met = a.met /\ b.step = a.step /\ b.devices = a.devices
  BY <1>r, <1>1 DEF AskRow
<1>4. AsksFit'
  <2>1. NumbersFit(a)
    BY <1>0 DEF IntegrationBounds, AsksFit
  <2> QED BY <2>1, <1>2, <1>3, RowFits, BoundsStay DEF NumbersFit
<1>5. DialogsFit'
  <2>1. \A q \in Dialogs : dialog'[q].step = dialog[q].step /\ dialog'[q].last = dialog[q].last
    <3>1. dialog' = IF a.kind = "list" THEN [dialog EXCEPT ![a.from].options = {}]
                    ELSE [dialog EXCEPT ![a.from].busy = FALSE, ![a.from].told = "error"]
      BY <1>0 DEF AskTimesOut
    <3> QED BY <1>r, <3>1 DEF DialogRow
  <2> QED BY <2>1, BoundsStay DEF DialogsFit, DialogFits
<1>6. UNCHANGED <<configFlow, devicesMade, pendingFlows, reboots>>
  BY DEF AskTimesOut
<1> QED BY <1>4, <1>5, <1>6, BoundsStay DEF IntegrationBounds

LEMMA BackBounds ==
  ASSUME IntegrationInv, IntegrationBounds, NEW p \in Dialogs, BackToStart(p)
  PROVE  IntegrationBounds'
<1>1. dialog \in [Dialogs -> DialogRow]
  BY DEF IntegrationInv, IntegrationTypes
<1>2. \A q \in Dialogs : (dialog'[q].step = dialog[q].step \/ dialog'[q].step = 0)
                         /\ dialog'[q].last = dialog[q].last
  BY <1>1 DEF BackToStart, DialogRow
<1>3. DialogsFit'
  BY <1>2, BoundsStay, IntegrationAssumption DEF DialogsFit, DialogFits
<1>4. UNCHANGED <<configFlow, devicesMade, pendingFlows, asked, reboots>>
  BY DEF BackToStart
<1> QED BY <1>3, <1>4, BoundsStay DEF IntegrationBounds

LEMMA HandleBounds ==
  ASSUME IntegrationInv, IntegrationBounds, NEW r \in DOMAIN asked, HandleIntegrate(r)
  PROVE  IntegrationBounds'
<1>0. PICK a : a = asked[r]
  OBVIOUS
<1>r. a \in AskRow /\ NumbersFit(a) /\ pendingFlows \in Seq(KeptRow)
  BY <1>0 DEF IntegrationInv, IntegrationTypes, IntegrationBounds, AsksFit
<1>a. UNCHANGED <<configFlow, devicesMade, deviceRows, dialog, reboots>>
  BY DEF HandleIntegrate
<1>1. ASSUME pendingFlows' = pendingFlows \o Stored(SetToSeq(Found)) PROVE KeptFit'
  <2>1. IsFiniteSet(Found)
    <3>1. DOMAIN configFlow = 1..Len(configFlow) /\ Len(configFlow) \in Nat
      BY DEF IntegrationInv, IntegrationTypes
    <3>2. IsFiniteSet(1..Len(configFlow))
      BY <3>1, FS_Interval
    <3>3. Found \subseteq 1..Len(configFlow)
      BY <3>1 DEF Found
    <3> QED BY <3>2, <3>3, FS_Subset
  <2>2. PICK fs : fs = SetToSeq(Found)
    OBVIOUS
  <2>3. fs \in Seq(Found) /\ Len(fs) \in Nat
    BY <2>1, <2>2, ListType
  <2>4. PICK new : new = Stored(fs)
    OBVIOUS
  <2>5. new = [i \in 1..Len(fs) |-> [flow |-> fs[i], step |-> 0, known |-> TRUE]]
    BY <2>4 DEF Stored
  <2>6. /\ new \in [1..Len(fs) -> {new[i] : i \in 1..Len(fs)}]
        /\ \A i \in 1..Len(fs) : new[i].step = 0
    BY <2>5
  <2>7. new \in Seq({new[i] : i \in 1..Len(fs)}) /\ DOMAIN new = 1..Len(fs)
    BY <2>3, <2>6, FunctionIsSeq
  <2>8. Len(new) = Len(fs)
    BY <2>3, <2>7
  <2>9. pendingFlows' = pendingFlows \o new
    BY <1>1, <2>2, <2>4
  <2>10. \A t \in DOMAIN pendingFlows' :
           \/ t \in DOMAIN pendingFlows /\ pendingFlows'[t] = pendingFlows[t]
           \/ pendingFlows'[t].step = 0
    <3> SUFFICES ASSUME NEW t \in DOMAIN pendingFlows', t \notin DOMAIN pendingFlows
                 PROVE  pendingFlows'[t].step = 0
      BY <1>r, <2>9, <2>7, <2>8
    <3>1. t - Len(pendingFlows) \in 1..Len(fs) /\ pendingFlows'[t] = new[t - Len(pendingFlows)]
      BY <1>r, <2>3, <2>7, <2>8, <2>9
    <3> QED BY <2>6, <3>1
  <2> QED BY <2>10, BoundsStay, IntegrationAssumption DEF KeptFit
<1>2. ASSUME NEW b, asked' = [asked EXCEPT ![r] = b],
             b.filled = a.filled, b.met = a.met, b.step = a.step, b.devices = a.devices,
             b.decoded \in 0..Forms
      PROVE  AsksFit'
  <2>1. NumbersFit(b)
    BY <1>r, <1>2 DEF NumbersFit
  <2> QED BY <1>2, <2>1, RowFits, BoundsStay
<1>3. CASE Offers(r)
  <2>1. PICK o : o = NewTokens(Cardinality(Found))
    OBVIOUS
  <2>2. PICK b : b = [a EXCEPT !.at = "result", !.says = "pick", !.options = o]
    OBVIOUS
  <2>3. asked' = [asked EXCEPT ![r] = b]
    BY <1>0, <1>3, <2>1, <2>2 DEF Offers
  <2>4. b.filled = a.filled /\ b.decoded = a.decoded /\ b.met = a.met /\ b.step = a.step /\ b.devices = a.devices
    BY <1>r, <2>2 DEF AskRow
  <2>5. AsksFit'
    BY <1>r, <1>2, <2>3, <2>4 DEF NumbersFit
  <2>6. KeptFit'
    BY <1>1, <1>3 DEF Offers
  <2> QED BY <1>a, <2>5, <2>6, BoundsStay DEF IntegrationBounds
<1>4. CASE Attaches(r)
  <2>1. PICK one, t : one = (CHOOSE f \in Found : TRUE) /\ t = Len(pendingFlows) + 1
    OBVIOUS
  <2>2. PICK b : b = [a EXCEPT !.at = "calling", !.flow = one, !.token = t]
    OBVIOUS
  <2>s. asked' = [asked EXCEPT ![r].at = "calling", ![r].flow = CHOOSE f \in Found : TRUE,
                              ![r].token = Len(pendingFlows) + 1]
    BY <1>4 DEF Attaches
  <2>t. asked' = [asked EXCEPT ![r].at = "calling", ![r].flow = one, ![r].token = t]
    BY <2>s, <2>1, Zenon
  <2>3. asked' = [asked EXCEPT ![r] = b]
    BY <1>0, <2>t, <2>2
  <2>4. b.filled = a.filled /\ b.decoded = a.decoded /\ b.met = a.met /\ b.step = a.step /\ b.devices = a.devices
    BY <1>r, <2>2 DEF AskRow
  <2>5. AsksFit'
    BY <1>r, <1>2, <2>3, <2>4 DEF NumbersFit
  <2>6. KeptFit'
    BY <1>1, <1>4 DEF Attaches
  <2> QED BY <1>a, <2>5, <2>6, BoundsStay DEF IntegrationBounds
<1>5. CASE asked' = [asked EXCEPT ![r].at = "calling"] /\ UNCHANGED pendingFlows
  <2>2. PICK b : b = [a EXCEPT !.at = "calling"]
    OBVIOUS
  <2>3. asked' = [asked EXCEPT ![r] = b]
    BY <1>0, <1>5, <2>2
  <2>4. b.filled = a.filled /\ b.decoded = a.decoded /\ b.met = a.met /\ b.step = a.step /\ b.devices = a.devices
    BY <1>r, <2>2 DEF AskRow
  <2>5. AsksFit'
    BY <1>r, <1>2, <2>3, <2>4 DEF NumbersFit
  <2> QED BY <1>a, <1>5, <2>5, BoundsStay DEF IntegrationBounds
<1>6. CASE a.kind \in {"look", "fill"} /\ Continues(r)
  <2>1. PICK flow : flow = Stands(a.token)
    OBVIOUS
  <2>2. PICK k : k = IF a.kind = "fill" THEN pendingFlows[a.token].step ELSE 0
    OBVIOUS
  <2>3. UNCHANGED pendingFlows
    BY <1>6 DEF Continues
  <2>4. asked' = IF flow = 0 THEN [asked EXCEPT ![r].at = "result", ![r].says = "error"]
                 ELSE [asked EXCEPT ![r].at = "calling", ![r].flow = flow, ![r].decoded = k]
    BY <1>0, <1>6, <2>1, <2>2 DEF Continues
  <2>5. k \in 0..Forms
    <3>1. CASE a.kind = "fill"
      <4>1. a.token \in DOMAIN pendingFlows
        BY <1>0, <3>1 DEF IntegrationInv, NamesInv, RowsInv, OfKind
      <4> QED BY <2>2, <3>1, <4>1, BoundsStay DEF KeptFit
    <3>2. CASE a.kind # "fill"
      BY <2>2, <3>2, IntegrationAssumption
    <3> QED BY <3>1, <3>2
  <2>6. PICK b : b = IF flow = 0 THEN [a EXCEPT !.at = "result", !.says = "error"]
                     ELSE [a EXCEPT !.at = "calling", !.flow = flow, !.decoded = k]
    OBVIOUS
  <2>7. asked' = [asked EXCEPT ![r] = b]
    BY <1>0, <2>4, <2>6
  <2>8. /\ b.filled = a.filled /\ b.met = a.met /\ b.step = a.step /\ b.devices = a.devices
        /\ b.decoded = a.decoded \/ b.decoded = k
    BY <1>r, <2>6 DEF AskRow
  <2>9. AsksFit'
    BY <1>r, <1>2, <2>5, <2>7, <2>8 DEF NumbersFit
  <2> QED BY <1>a, <2>3, <2>9, BoundsStay DEF IntegrationBounds
<1> QED BY <1>0, <1>3, <1>4, <1>5, <1>6 DEF HandleIntegrate

LEMMA MapBounds ==
  ASSUME IntegrationInv, IntegrationBounds, NEW r \in DOMAIN asked, MapFlow(r)
  PROVE  IntegrationBounds'
<1>0. PICK a : a = asked[r]
  OBVIOUS
<1>r. /\ a \in AskRow /\ NumbersFit(a) /\ pendingFlows \in Seq(KeptRow)
      /\ deviceRows \subseteq Flows /\ {} \subseteq Flows
  <2>1. /\ a \in AskRow /\ NumbersFit(a) /\ pendingFlows \in Seq(KeptRow)
        /\ deviceRows \subseteq devicesMade /\ configFlow \in Seq(FlowRow)
        /\ devicesMade \subseteq DOMAIN configFlow /\ Len(configFlow) <= MaxFlows
    BY <1>0 DEF IntegrationInv, IntegrationTypes, IntegrationBounds, AsksFit, FlowsFit
  <2>2. DOMAIN configFlow \subseteq Flows
    BY <2>1, IntegrationAssumption DEF Flows
  <2> QED BY <2>1, <2>2
<1>a. UNCHANGED <<configFlow, devicesMade, deviceRows, dialog, reboots>>
  BY DEF MapFlow
<1>f. PICK form : form = StoreForm(a)
  OBVIOUS
<1>s. form.step = a.step /\ form \in KeptRow
  BY <1>r, <1>f DEF StoreForm, AskRow, KeptRow
<1>1. ASSUME NEW b, asked' = [asked EXCEPT ![r] = b],
             b.filled = a.filled, b.decoded = a.decoded, b.met = a.met, b.step = a.step,
             b.devices = a.devices \/ b.devices = deviceRows \/ b.devices = {}
      PROVE  AsksFit'
  <2>1. NumbersFit(b)
    BY <1>r, <1>1 DEF NumbersFit
  <2> QED BY <1>1, <2>1, RowFits, BoundsStay
<1>2. AsksFit'
  <2>1. CASE a.says \in {"form", "error"} /\ asked' = [asked EXCEPT ![r].at = "result"]
    <3>1. PICK b : b = [a EXCEPT !.at = "result"]
      OBVIOUS
    <3>2. asked' = [asked EXCEPT ![r] = b]
      BY <1>0, <2>1, <3>1
    <3>3. /\ b.filled = a.filled /\ b.decoded = a.decoded /\ b.met = a.met /\ b.step = a.step
          /\ b.devices = a.devices
      BY <1>r, <3>1 DEF AskRow
    <3> QED BY <1>1, <3>2, <3>3
  <2>2. ASSUME NEW t, asked' = [asked EXCEPT ![r].at = "result", ![r].token = t] PROVE AsksFit'
    <3>1. PICK b : b = [a EXCEPT !.at = "result", !.token = t]
      OBVIOUS
    <3>2. asked' = [asked EXCEPT ![r] = b]
      BY <1>0, <2>2, <3>1
    <3>3. /\ b.filled = a.filled /\ b.decoded = a.decoded /\ b.met = a.met /\ b.step = a.step
          /\ b.devices = a.devices
      BY <1>r, <3>1 DEF AskRow
    <3> QED BY <1>1, <3>2, <3>3
  <2>3. ASSUME NEW at, NEW says, NEW devices, devices = deviceRows \/ devices = {},
               asked' = [asked EXCEPT ![r].at = at, ![r].says = says, ![r].devices = devices]
        PROVE  AsksFit'
    <3>1. PICK b : b = [a EXCEPT !.at = at, !.says = says, !.devices = devices]
      OBVIOUS
    <3>2. asked' = [asked EXCEPT ![r] = b]
      BY <1>0, <2>3, <3>1
    <3>3. /\ b.filled = a.filled /\ b.decoded = a.decoded /\ b.met = a.met /\ b.step = a.step
          /\ b.devices = devices
      BY <1>r, <3>1 DEF AskRow
    <3> QED BY <1>1, <2>3, <3>2, <3>3
  <2>4. PICK t, at, says, devices :
           /\ t = Len(pendingFlows) + 1
           /\ at = (IF a.says = "entry" THEN "collecting" ELSE "result")
           /\ says = (IF a.says = "entry" THEN "done" ELSE "error")
           /\ devices = (IF a.says = "entry" THEN deviceRows ELSE {})
    OBVIOUS
  <2>5. \/ asked' = [asked EXCEPT ![r].at = "result"] /\ a.says \in {"form", "error"}
        \/ asked' = [asked EXCEPT ![r].at = "result", ![r].token = t]
        \/ asked' = [asked EXCEPT ![r].at = at, ![r].says = says, ![r].devices = devices]
    BY <1>0, <2>4 DEF MapFlow
  <2>6. devices = deviceRows \/ devices = {}
    BY <2>4
  <2>7. CASE asked' = [asked EXCEPT ![r].at = at, ![r].says = says, ![r].devices = devices]
    BY <2>3, <2>6, <2>7
  <2>8. CASE asked' = [asked EXCEPT ![r].at = "result", ![r].token = t]
    BY <2>2, <2>8
  <2> QED BY <2>1, <2>5, <2>7, <2>8
<1>3. KeptFit'
  <2>1. CASE a.token # 0 /\ pendingFlows' = [pendingFlows EXCEPT ![a.token] = form]
    <3>1. \A t \in DOMAIN pendingFlows' :
             \/ pendingFlows'[t] = form
             \/ t \in DOMAIN pendingFlows /\ pendingFlows'[t] = pendingFlows[t]
      BY <1>r, <2>1
    <3> QED BY <1>r, <1>s, <3>1, BoundsStay DEF KeptFit, NumbersFit
  <2>2. CASE pendingFlows' = Append(pendingFlows, form)
    <3>1. \A t \in DOMAIN pendingFlows' :
             \/ pendingFlows'[t] = form
             \/ t \in DOMAIN pendingFlows /\ pendingFlows'[t] = pendingFlows[t]
      BY <1>r, <2>2
    <3> QED BY <1>r, <1>s, <3>1, BoundsStay DEF KeptFit, NumbersFit
  <2>3. CASE pendingFlows' = IF a.token = 0 THEN pendingFlows
                             ELSE [pendingFlows EXCEPT ![a.token].known = FALSE]
    <3>1. PICK no : no = FALSE
      OBVIOUS
    <3>2. CASE a.token = 0
      BY <2>3, <3>2, BoundsStay
    <3>3. CASE a.token # 0
      <4>1. pendingFlows' = [pendingFlows EXCEPT ![a.token].known = no]
        BY <2>3, <3>1, <3>3
      <4>2. \A t \in DOMAIN pendingFlows : pendingFlows[t] \in KeptRow
        BY <1>r
      <4>3. \A t \in DOMAIN pendingFlows' :
               t \in DOMAIN pendingFlows /\ pendingFlows'[t].step = pendingFlows[t].step
        BY <4>1, <4>2 DEF KeptRow
      <4> QED BY <4>3, BoundsStay DEF KeptFit
    <3> QED BY <3>2, <3>3
  <2>4. \/ a.token # 0 /\ pendingFlows' = [pendingFlows EXCEPT ![a.token] = form]
        \/ pendingFlows' = Append(pendingFlows, form)
        \/ pendingFlows' = IF a.token = 0 THEN pendingFlows
                           ELSE [pendingFlows EXCEPT ![a.token].known = FALSE]
        \/ UNCHANGED pendingFlows
    BY <1>0, <1>f, Zenon DEF MapFlow
  <2> QED BY <2>1, <2>2, <2>3, <2>4, BoundsStay
<1> QED BY <1>a, <1>2, <1>3, BoundsStay DEF IntegrationBounds

LEMMA CollectBounds ==
  ASSUME IntegrationInv, IntegrationBounds, NEW r \in DOMAIN asked,
         CollectDevices(r) \/ RestTimesOut(r)
  PROVE  IntegrationBounds'
<1>0. PICK a : a = asked[r]
  OBVIOUS
<1>r. a \in AskRow /\ NumbersFit(a) /\ devicesMade \subseteq Flows
  <2>1. /\ a \in AskRow /\ NumbersFit(a) /\ configFlow \in Seq(FlowRow)
        /\ devicesMade \subseteq DOMAIN configFlow /\ Len(configFlow) <= MaxFlows
    BY <1>0 DEF IntegrationInv, IntegrationTypes, IntegrationBounds, AsksFit, FlowsFit
  <2>2. DOMAIN configFlow \subseteq Flows
    BY <2>1, IntegrationAssumption DEF Flows
  <2> QED BY <2>1, <2>2
<1>a. UNCHANGED <<configFlow, devicesMade, pendingFlows, dialog, reboots>>
  BY DEF CollectDevices, RestTimesOut
<1>1. CASE CollectDevices(r)
  <2>1. PICK d : d = devicesMade \ a.devices
    OBVIOUS
  <2>2. PICK b : b = [a EXCEPT !.at = "result", !.devices = d]
    OBVIOUS
  <2>3. asked' = [asked EXCEPT ![r] = b]
    BY <1>0, <1>1, <2>1, <2>2 DEF CollectDevices
  <2>4. /\ b.filled = a.filled /\ b.decoded = a.decoded /\ b.met = a.met /\ b.step = a.step
        /\ b.devices = d
    BY <1>r, <2>2 DEF AskRow
  <2>5. NumbersFit(b)
    BY <1>r, <2>1, <2>4 DEF NumbersFit
  <2> QED BY <1>a, <2>3, <2>5, RowFits, BoundsStay DEF IntegrationBounds
<1>2. CASE RestTimesOut(r)
  <2>2. PICK b : b = [a EXCEPT !.at = "result", !.says = "error", !.cut = TRUE]
    OBVIOUS
  <2>3. asked' = [asked EXCEPT ![r] = b]
    BY <1>0, <1>2, <2>2 DEF RestTimesOut
  <2>4. /\ b.filled = a.filled /\ b.decoded = a.decoded /\ b.met = a.met /\ b.step = a.step
        /\ b.devices = a.devices
    BY <1>r, <2>2 DEF AskRow
  <2>5. NumbersFit(b)
    BY <1>r, <2>4 DEF NumbersFit
  <2> QED BY <1>a, <2>3, <2>5, RowFits, BoundsStay DEF IntegrationBounds
<1> QED BY <1>1, <1>2

\* What was on its way is forgotten, and the restart is counted.
LEMMA RebootBounds ==
  ASSUME IntegrationInv, IntegrationBounds, RuntimeReboots
  PROVE  IntegrationBounds'
<1>t. /\ asked \in Seq(AskRow) /\ pendingFlows \in Seq(KeptRow)
      /\ UNCHANGED <<configFlow, devicesMade, dialog>>
  BY DEF RuntimeReboots, IntegrationInv, IntegrationTypes
<1>1. reboots' <= MaxTroubles
  BY TroublesCount DEF RuntimeReboots
<1>2. KeptFit'
  <2>1. \A t \in DOMAIN pendingFlows : pendingFlows[t] \in KeptRow
    BY <1>t
  <2>2. PICK no : no = FALSE
    OBVIOUS
  <2>3. pendingFlows' = [t \in DOMAIN pendingFlows |-> [pendingFlows[t] EXCEPT !.known = no]]
    BY <2>2 DEF RuntimeReboots
  <2>4. \A t \in DOMAIN pendingFlows' :
           t \in DOMAIN pendingFlows /\ pendingFlows'[t].step = pendingFlows[t].step
    BY <2>1, <2>3 DEF KeptRow
  <2> QED BY <2>4, BoundsStay DEF KeptFit
<1>3. AsksFit'
  <2>1. PICK empty : empty = {}
    OBVIOUS
  <2>2. asked' = [r \in DOMAIN asked |->
                    IF asked[r].at = "over" THEN asked[r]
                    ELSE [asked[r] EXCEPT !.at = "lost", !.says = "none", !.filled = 0,
                                          !.decoded = 0, !.met = 0, !.flow = 0, !.step = 0,
                                          !.options = empty, !.devices = empty]]
    BY <2>1 DEF RuntimeReboots
  <2>d. DOMAIN asked = 1..Len(asked) /\ Len(asked) \in Nat
    BY <1>t
  <2>3. DOMAIN asked' = DOMAIN asked /\ DOMAIN asked = 1..Len(asked) /\ Len(asked) \in Nat
    BY <2>d DEF RuntimeReboots
  <2>4. ASSUME NEW r \in DOMAIN asked PROVE NumbersFit(asked'[r])
    <3>1. PICK a : a = asked[r]
      OBVIOUS
    <3>2. PICK b : b = [a EXCEPT !.at = "lost", !.says = "none", !.filled = 0,
                                 !.decoded = 0, !.met = 0, !.flow = 0, !.step = 0,
                                 !.options = empty, !.devices = empty]
      OBVIOUS
    <3>3. asked'[r] = IF a.at = "over" THEN a ELSE b
      BY <2>2, <3>1, <3>2
    <3>4. a \in AskRow /\ NumbersFit(a)
      BY <1>t, <3>1, BoundsStay DEF AsksFit
    <3>5. b.filled = 0 /\ b.decoded = 0 /\ b.met = 0 /\ b.step = 0 /\ b.devices = {}
      BY <2>1, <3>2, <3>4 DEF AskRow
    <3>6. NumbersFit(b)
      BY <3>5, IntegrationAssumption DEF NumbersFit
    <3> QED BY <3>3, <3>4, <3>6
  <2>5. Len(asked') = Len(asked)
    <3>1. asked' \in [1..Len(asked) -> {asked'[r] : r \in DOMAIN asked}]
      BY <2>2, <2>3
    <3>2. asked' \in Seq({asked'[r] : r \in DOMAIN asked})
      BY <2>3, <3>1, FunctionIsSeq
    <3> QED BY <2>3, <3>2
  <2> QED BY <2>3, <2>4, <2>5, BoundsStay DEF AsksFit, NumbersFit
<1> QED BY <1>t, <1>1, <1>2, <1>3, BoundsStay DEF IntegrationBounds

\* A flow that changes keeps its place.
LEMMA FlowFits ==
  ASSUME IntegrationInv, FlowsFit, NEW f \in DOMAIN configFlow, NEW c, c.at \in 1..Forms,
         configFlow' = [configFlow EXCEPT ![f] = c], UNCHANGED devicesMade
  PROVE  FlowsFit'
<1>1. configFlow \in Seq(FlowRow)
  BY DEF IntegrationInv, IntegrationTypes
<1>2. Len(configFlow') = Len(configFlow) /\ DOMAIN configFlow' = DOMAIN configFlow
  BY <1>1
<1>3. \A g \in DOMAIN configFlow : configFlow'[g] = c \/ configFlow'[g] = configFlow[g]
  BY <1>1
<1> QED BY <1>2, <1>3 DEF FlowsFit

LEMMA FlowComes ==
  ASSUME IntegrationInv, FlowsFit, Len(configFlow) < MaxFlows, NEW c, c.at = 1,
         configFlow' = Append(configFlow, c), UNCHANGED devicesMade
  PROVE  FlowsFit'
<1>1. configFlow \in Seq(FlowRow) /\ Len(configFlow) \in Nat /\ DOMAIN configFlow = 1..Len(configFlow)
  BY DEF IntegrationInv, IntegrationTypes
<1>2. /\ Len(configFlow') = Len(configFlow) + 1 /\ DOMAIN configFlow \subseteq DOMAIN configFlow'
      /\ \A g \in DOMAIN configFlow' :
            configFlow'[g] = c \/ (g \in DOMAIN configFlow /\ configFlow'[g] = configFlow[g])
  BY <1>1
<1>3. 1 \in 1..Forms /\ Len(configFlow) + 1 <= MaxFlows
  BY <1>1, IntegrationAssumption
<1> QED BY <1>2, <1>3 DEF FlowsFit

LEMMA FlowEnds ==
  ASSUME IntegrationInv, FlowsFit, NEW f \in DOMAIN configFlow, NEW state, FlowIs(f, state),
         UNCHANGED devicesMade
  PROVE  FlowsFit'
<1>1. PICK k, c : k = configFlow[f] /\ c = [k EXCEPT !.is = state]
  OBVIOUS
<1>2. k \in FlowRow /\ k.at \in 1..Forms
  BY <1>1 DEF IntegrationInv, IntegrationTypes, FlowsFit
<1>3. configFlow' = [configFlow EXCEPT ![f] = c] /\ c.at \in 1..Forms
  BY <1>1, <1>2 DEF FlowIs, FlowRow
<1> QED BY <1>3, FlowFits

\* What is heard is of a form.
LEMMA HearBounds ==
  ASSUME IntegrationInv, IntegrationBounds, NEW r \in DOMAIN asked, NEW f, NEW says,
         NEW step \in 0..Forms, Hears(r, f, says, step),
         asked[r].kind = "fill" => f \in DOMAIN configFlow
  PROVE  AsksFit'
<1>0. PICK a : a = asked[r]
  OBVIOUS
<1>r. a \in AskRow /\ NumbersFit(a)
  BY <1>0 DEF IntegrationInv, IntegrationTypes, IntegrationBounds, AsksFit
<1>m. PICK m : m = IF a.kind = "fill" /\ configFlow[f].is = "open" THEN configFlow[f].at ELSE 0
  OBVIOUS
<1>1. m \in 0..Forms
  <2>1. a.kind = "fill" => configFlow[f].at \in 1..Forms
    BY <1>0, BoundsStay DEF FlowsFit
  <2> QED BY <1>m, <2>1, IntegrationAssumption
<1>2. PICK b : b = [a EXCEPT !.at = "heard", !.flow = f, !.says = says, !.step = step, !.met = m]
  OBVIOUS
<1>3. asked' = [asked EXCEPT ![r] = b]
  BY <1>0, <1>m, <1>2 DEF Hears
<1>4. /\ b.filled = a.filled /\ b.decoded = a.decoded /\ b.met = m /\ b.step = step
      /\ b.devices = a.devices
  BY <1>r, <1>2 DEF AskRow
<1>5. NumbersFit(b)
  BY <1>r, <1>1, <1>4 DEF NumbersFit
<1> QED BY <1>3, <1>5, RowFits, BoundsStay

LEMMA HaBounds ==
  ASSUME IntegrationInv, IntegrationBounds, NEW r \in DOMAIN asked,
         HaBegins(r) \/ HaShows(r) \/ HaTakes(r)
  PROVE  IntegrationBounds'
<1>0. PICK a : a = asked[r]
  OBVIOUS
<1>r. a \in AskRow /\ NumbersFit(a) /\ configFlow \in Seq(FlowRow)
  BY <1>0 DEF IntegrationInv, IntegrationTypes, IntegrationBounds, AsksFit
<1>z. 0 \in 0..Forms /\ 1 \in 0..Forms
  BY IntegrationAssumption
<1>a. UNCHANGED <<devicesMade, pendingFlows, dialog, reboots>>
  BY DEF HaBegins, HaShows, HaTakes
<1>1. CASE HaBegins(r)
  <2>1. PICK f : f = Len(configFlow) + 1
    OBVIOUS
  <2>2. PICK b : b = [a EXCEPT !.at = "heard", !.flow = f, !.says = "form", !.step = 1]
    OBVIOUS
  <2>3. asked' = [asked EXCEPT ![r] = b]
    BY <1>0, <1>1, <2>1, <2>2 DEF HaBegins
  <2>4. /\ b.filled = a.filled /\ b.decoded = a.decoded /\ b.met = a.met /\ b.step = 1
        /\ b.devices = a.devices
    BY <1>r, <2>2 DEF AskRow
  <2>5. NumbersFit(b)
    BY <1>r, <1>z, <2>4 DEF NumbersFit
  <2>6. PICK c : c = [at |-> 1, is |-> "open", found |-> FALSE]
    OBVIOUS
  <2>7. c.at = 1 /\ Len(configFlow) < MaxFlows /\ configFlow' = Append(configFlow, c)
    BY <1>1, <2>6 DEF HaBegins
  <2>8. FlowsFit'
    BY <1>a, <2>7, FlowComes, BoundsStay
  <2> QED BY <1>a, <2>3, <2>5, <2>8, RowFits, BoundsStay DEF IntegrationBounds
<1>2. CASE HaShows(r)
  <2>1. a.kind # "fill" /\ a.flow # 0 /\ a.flow \in DOMAIN configFlow
    BY <1>0, <1>2 DEF HaShows, IntegrationInv, NamesInv
  <2>2. configFlow[a.flow].at \in 0..Forms
    BY <2>1, BoundsStay DEF FlowsFit
  <2>3. \/ Hears(r, a.flow, "form", configFlow[a.flow].at)
        \/ Hears(r, a.flow, "external", 0) \/ Hears(r, a.flow, "error", 0)
    BY <1>0, <1>2 DEF HaShows
  <2>4. AsksFit'
    BY <1>0, <1>z, <2>1, <2>2, <2>3, HearBounds
  <2>5. UNCHANGED configFlow
    BY <1>2 DEF HaShows
  <2> QED BY <1>a, <2>4, <2>5, BoundsStay DEF IntegrationBounds
<1>3. CASE HaTakes(r)
  <2>1. a.kind = "fill" /\ a.at = "calling" /\ a.flow \in DOMAIN configFlow
    BY <1>0, <1>3 DEF HaTakes, IntegrationInv, RowsInv, OfKind, OfStage, NamesInv
  <2>k. PICK k : k = configFlow[a.flow]
    OBVIOUS
  <2>2. k.at \in 1..Forms /\ k \in FlowRow
    BY <1>r, <2>1, <2>k, BoundsStay DEF FlowsFit
  <2>3. CASE /\ k.at < Forms /\ Hears(r, a.flow, "form", k.at + 1)
             /\ configFlow' = [configFlow EXCEPT ![a.flow].at = @ + 1]
    <3>1. PICK c : c = [k EXCEPT !.at = k.at + 1]
      OBVIOUS
    <3>2. configFlow' = [configFlow EXCEPT ![a.flow] = c] /\ c.at = k.at + 1
      BY <2>2, <2>3, <2>k, <3>1 DEF FlowRow
    <3>3. k.at + 1 \in 1..Forms /\ k.at + 1 \in 0..Forms
      BY <2>2, <2>3, IntegrationAssumption
    <3>4. FlowsFit'
      BY <1>a, <2>1, <3>2, <3>3, FlowFits, BoundsStay
    <3>5. AsksFit'
      BY <1>0, <2>1, <2>3, <3>3, HearBounds
    <3> QED BY <1>a, <3>4, <3>5, BoundsStay DEF IntegrationBounds
  <2>4. ASSUME NEW says, NEW state, Hears(r, a.flow, says, 0), FlowIs(a.flow, state)
        PROVE  IntegrationBounds'
    <3>1. FlowsFit'
      BY <1>a, <2>1, <2>4, FlowEnds, BoundsStay
    <3>2. AsksFit'
      BY <1>0, <1>z, <2>1, <2>4, HearBounds
    <3> QED BY <1>a, <3>1, <3>2, BoundsStay DEF IntegrationBounds
  <2>5. ASSUME NEW says, NEW step \in 0..Forms, Hears(r, a.flow, says, step), UNCHANGED configFlow
        PROVE  IntegrationBounds'
    <3>1. AsksFit'
      BY <1>0, <2>1, <2>5, HearBounds
    <3> QED BY <1>a, <2>5, <3>1, BoundsStay DEF IntegrationBounds
  <2>6. k.at \in 0..Forms
    BY <2>2
  <2>7. \/ /\ k.at < Forms /\ Hears(r, a.flow, "form", k.at + 1)
           /\ configFlow' = [configFlow EXCEPT ![a.flow].at = @ + 1]
        \/ Hears(r, a.flow, "entry", 0) /\ FlowIs(a.flow, "entry")
        \/ Hears(r, a.flow, "form", k.at) /\ UNCHANGED configFlow
        \/ Hears(r, a.flow, "abort", 0) /\ FlowIs(a.flow, "gone")
        \/ Hears(r, a.flow, "external", 0) /\ FlowIs(a.flow, "external")
        \/ Hears(r, a.flow, "error", 0) /\ UNCHANGED configFlow
    BY <1>0, <1>3, <2>k DEF HaTakes
  <2> QED BY <1>z, <2>3, <2>4, <2>5, <2>6, <2>7
<1> QED BY <1>1, <1>2, <1>3

\* What Home Assistant does by itself.
LEMMA WorldBounds ==
  ASSUME IntegrationInv, IntegrationBounds,
         \/ HaFinds
         \/ \E f \in DOMAIN configFlow : HaReturns(f) \/ HaSetsUp(f) \/ TakesStateRow(f)
  PROVE  IntegrationBounds'
<1>a. UNCHANGED <<pendingFlows, asked, dialog, reboots>>
  BY DEF HaFinds, HaReturns, HaSetsUp, TakesStateRow
<1>1. FlowsFit'
  <2>1. CASE HaFinds
    <3>1. PICK c : c = [at |-> 1, is |-> "open", found |-> TRUE]
      OBVIOUS
    <3>2. c.at = 1 /\ Len(configFlow) < MaxFlows /\ configFlow' = Append(configFlow, c)
          /\ UNCHANGED devicesMade
      BY <2>1, <3>1 DEF HaFinds
    <3> QED BY <3>2, FlowComes, BoundsStay
  <2>2. ASSUME NEW f \in DOMAIN configFlow, HaReturns(f) PROVE FlowsFit'
    <3>1. PICK state \in {"entry", "gone"} : FlowIs(f, state)
      BY <2>2 DEF HaReturns
    <3>2. UNCHANGED devicesMade
      BY <2>2 DEF HaReturns
    <3> QED BY <3>1, <3>2, FlowEnds, BoundsStay
  <2>3. ASSUME NEW f \in DOMAIN configFlow, HaSetsUp(f) PROVE FlowsFit'
    BY <2>3, BoundsStay DEF HaSetsUp, FlowsFit
  <2>4. ASSUME NEW f \in DOMAIN configFlow, TakesStateRow(f) PROVE FlowsFit'
    BY <2>4, BoundsStay DEF TakesStateRow
  <2> QED BY <2>1, <2>2, <2>3, <2>4
<1> QED BY <1>a, <1>1, BoundsStay DEF IntegrationBounds

LEMMA BoundsKept ==
  ASSUME IntegrationInv, IntegrationBounds, [IntegrationNext]_integrationVars
  PROVE  IntegrationBounds'
<1>k. /\ {"list", "begin", "look", "fill"} \subseteq AskKinds /\ 0 \in Nat
      /\ \A p \in Dialogs : dialog[p].token \in Nat /\ dialog[p].options \subseteq Nat
  <2>1. \A p \in Dialogs : dialog[p] \in DialogRow
    BY DEF IntegrationInv, IntegrationTypes
  <2> QED BY <2>1 DEF AskKinds, DialogRow
<1>1. ASSUME NEW p \in Dialogs, OpenDialog(p) \/ Pick(p) \/ Submit(p) \/ BackToStart(p)
      PROVE  IntegrationBounds'
  <2>1. CASE OpenDialog(p)
    BY <1>k, <2>1, AskBounds DEF OpenDialog
  <2>2. CASE Pick(p)
    BY <1>k, <2>2, AskBounds DEF Pick
  <2>3. CASE Submit(p)
    BY <1>k, <2>3, AskBounds DEF Submit
  <2>4. CASE BackToStart(p)
    BY <2>4, BackBounds
  <2> QED BY <1>1, <2>1, <2>2, <2>3, <2>4
<1>2. ASSUME NEW p \in Dialogs, NEW t \in dialog[p].options, Discover(p, t)
      PROVE  IntegrationBounds'
  <2>1. t \in Nat /\ Ask(p, "look", t)
    BY <1>k, <1>2 DEF Discover
  <2> QED BY <1>k, <2>1, AskBounds
<1>3. ASSUME NEW r \in DOMAIN asked,
             \/ AcceptIntegrated(r) \/ AskTimesOut(r)
             \/ HandleIntegrate(r) \/ MapFlow(r) \/ CollectDevices(r) \/ RestTimesOut(r)
             \/ HaBegins(r) \/ HaShows(r) \/ HaTakes(r)
      PROVE  IntegrationBounds'
  BY <1>3, AcceptBounds, LateBounds, HandleBounds, MapBounds, CollectBounds, HaBounds
<1>5. CASE UNCHANGED integrationVars
  BY <1>5, BoundsStay DEF integrationVars, IntegrationBounds
<1> QED BY <1>1, <1>2, <1>3, <1>5, RebootBounds, WorldBounds DEF IntegrationNext
=============================================================================
