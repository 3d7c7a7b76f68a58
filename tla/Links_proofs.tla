---------------------------- MODULE Links_proofs ----------------------------
(***************************************************************************)
(* Theorems about the connections of module MCLinks, for any bounds: over  *)
(* each of them, what one side knows of the other is so.  Each connection  *)
(* has an inductive invariant of its own, about what is on its way; the    *)
(* theorems about `Spec' put them together at the end.                     *)
(***************************************************************************)
EXTENDS MCLinks, SequenceLemmas

-----------------------------------------------------------------------------
(* The connection of a runtime.                                            *)

\* Stepwise: a socket whose token is looked up still has its hello, unless it is
\* closed; so by the time it is known it has entered the hub or will.
HelloWaits ==
    \A s \in Links : auth[s] = "pending" /\ (here[s] = "open" \/ s \in dead)
        => waiting[s] # << >>

GatewayInv ==
    /\ GatewayTypeOK
    /\ waiting \in [Links -> Seq({"hello", "heartbeat"})]
    /\ client.generation <= last
    /\ HelloWaits /\ HubSpeaks

ClientRow == [at : {"off", "waiting", "connecting", "open"}, generation : 0..MaxSockets]
MarkRow   == [online : BOOLEAN, generation : 0..MaxSockets, unseen : 0..SilentAfter]

LEMMA ClientUpdates ==
  ASSUME NEW r \in ClientRow, NEW a \in {"off", "waiting", "connecting", "open"}
  PROVE  /\ [r EXCEPT !.at = a] \in ClientRow
         /\ [r EXCEPT !.at = a].generation = r.generation
         /\ r.generation \in 0..MaxSockets
BY DEF ClientRow

LEMMA MarkUpdates ==
  ASSUME NEW r \in MarkRow
  PROVE  /\ \A b \in BOOLEAN : [r EXCEPT !.online = b] \in MarkRow
         /\ \A u \in 0..SilentAfter : [r EXCEPT !.unseen = u] \in MarkRow
         /\ [r EXCEPT !.online = TRUE, !.unseen = 0] \in MarkRow
         /\ [r EXCEPT !.unseen = IF @ < SilentAfter THEN @ + 1 ELSE @] \in MarkRow
         /\ r.online \in BOOLEAN
<1>1. r.unseen \in 0..3 /\ (r.unseen < 3 => r.unseen + 1 \in 0..3)
  BY DEF MarkRow, SilentAfter
<1>2. [r EXCEPT !.unseen = IF @ < SilentAfter THEN @ + 1 ELSE @] \in MarkRow
  <2>1. CASE r.unseen < 3
    <3>1. [r EXCEPT !.unseen = IF @ < SilentAfter THEN @ + 1 ELSE @] = [r EXCEPT !.unseen = @ + 1]
      BY <2>1 DEF SilentAfter
    <3> QED BY <1>1, <2>1, <3>1 DEF MarkRow, SilentAfter
  <2>2. CASE ~(r.unseen < 3)
    BY <1>1, <2>2 DEF MarkRow, SilentAfter
  <2> QED BY <2>1, <2>2
<1>3. /\ \A b \in BOOLEAN : [r EXCEPT !.online = b] \in MarkRow
      /\ \A u \in 0..SilentAfter : [r EXCEPT !.unseen = u] \in MarkRow
      /\ r.online \in BOOLEAN
  BY DEF MarkRow
<1>4. [r EXCEPT !.online = TRUE, !.unseen = 0] \in MarkRow
  <2> DEFINE q == [r EXCEPT !.online = TRUE]
  <2>1. [r EXCEPT !.online = TRUE, !.unseen = 0] = [q EXCEPT !.unseen = 0]
    BY Zenon
  <2>2. 0 \in 0..SilentAfter
    BY DEF SilentAfter
  <2>3. q \in MarkRow
    BY <1>3
  <2>4. [q EXCEPT !.unseen = 0] \in MarkRow
    BY <2>2, <2>3 DEF MarkRow
  <2> QED BY <2>1, <2>4
<1> QED BY <1>2, <1>3, <1>4

LEMMA GatewayTypes ==
  GatewayTypeOK /\ waiting \in [Links -> Seq({"hello", "heartbeat"})] <=>
    /\ client \in ClientRow /\ last \in 0..MaxSockets
    /\ here \in [Links -> {"none", "open", "closed"}]
    /\ there \in [Links -> {"none", "open", "closing", "closed"}]
    /\ dead \subseteq Links
    /\ gen \in [Links -> 0..MaxSockets]
    /\ auth \in [Links -> {"pending", "known", "gone"}]
    /\ waiting \in [Links -> Seq({"hello", "heartbeat"})]
    /\ handling \in [Links -> {"none", "hello", "heartbeat"}]
    /\ hub \in 0..MaxSockets
    /\ mark \in MarkRow
    /\ leaving \subseteq 0..MaxSockets
    /\ faults \in 0..MaxFaults
BY DEF GatewayTypeOK, ClientRow, MarkRow

LEMMA GatewayStarts == GatewayInit => GatewayInv
<1> SUFFICES ASSUME GatewayInit PROVE GatewayInv
  OBVIOUS
<1>1. /\ 0 \in 0..MaxSockets /\ 0 \in 0..MaxFaults /\ << >> \in Seq({"hello", "heartbeat"})
      /\ SilentAfter \in 0..SilentAfter
  BY GatewayAssumption DEF SilentAfter
<1>2. GatewayTypeOK /\ waiting \in [Links -> Seq({"hello", "heartbeat"})]
  BY <1>1, GatewayTypes DEF GatewayInit, ClientRow, MarkRow
<1>3. client.generation <= last
  BY DEF GatewayInit
<1>4. HelloWaits /\ HubSpeaks
  BY DEF GatewayInit, HelloWaits, HubSpeaks
<1> QED BY <1>2, <1>3, <1>4 DEF GatewayInv

\* The messages of a socket.
LEMMA MessagesType ==
  ASSUME NEW q \in Seq({"hello", "heartbeat"})
  PROVE  /\ \A n \in 0..Len(q) : SubSeq(q, 1, n) \in Seq({"hello", "heartbeat"})
         /\ Append(q, "heartbeat") \in Seq({"hello", "heartbeat"})
         /\ Append(q, "heartbeat") # << >>
         /\ q # << >> => Head(q) \in {"hello", "heartbeat"} /\ Tail(q) \in Seq({"hello", "heartbeat"})
         /\ <<"hello">> \in Seq({"hello", "heartbeat"}) /\ <<"hello">> # << >>
OBVIOUS

LEMMA GatewayType ==
  GatewayInv /\ [GatewayNext]_gatewayVars =>
    /\ GatewayTypeOK' /\ waiting' \in [Links -> Seq({"hello", "heartbeat"})]
    /\ client'.generation <= last'
<1> SUFFICES ASSUME GatewayInv, [GatewayNext]_gatewayVars
             PROVE  /\ GatewayTypeOK' /\ waiting' \in [Links -> Seq({"hello", "heartbeat"})]
                    /\ client'.generation <= last'
  OBVIOUS
<1> DEFINE Goal ==
      /\ client' \in ClientRow /\ last' \in 0..MaxSockets
      /\ here' \in [Links -> {"none", "open", "closed"}]
      /\ there' \in [Links -> {"none", "open", "closing", "closed"}]
      /\ dead' \subseteq Links
      /\ gen' \in [Links -> 0..MaxSockets]
      /\ auth' \in [Links -> {"pending", "known", "gone"}]
      /\ waiting' \in [Links -> Seq({"hello", "heartbeat"})]
      /\ handling' \in [Links -> {"none", "hello", "heartbeat"}]
      /\ hub' \in 0..MaxSockets
      /\ mark' \in MarkRow
      /\ leaving' \subseteq 0..MaxSockets
      /\ faults' \in 0..MaxFaults
      /\ client'.generation <= last'
<1>t. /\ client \in ClientRow /\ last \in 0..MaxSockets
      /\ here \in [Links -> {"none", "open", "closed"}]
      /\ there \in [Links -> {"none", "open", "closing", "closed"}]
      /\ dead \subseteq Links
      /\ gen \in [Links -> 0..MaxSockets]
      /\ auth \in [Links -> {"pending", "known", "gone"}]
      /\ waiting \in [Links -> Seq({"hello", "heartbeat"})]
      /\ handling \in [Links -> {"none", "hello", "heartbeat"}]
      /\ hub \in 0..MaxSockets
      /\ mark \in MarkRow
      /\ leaving \subseteq 0..MaxSockets
      /\ faults \in 0..MaxFaults
      /\ client.generation <= last /\ client.generation \in 0..MaxSockets
  BY GatewayTypes, ClientUpdates DEF GatewayInv
<1>c. MaxSockets \in Nat /\ MaxFaults \in Nat /\ Links \in SUBSET (0..MaxSockets)
  BY GatewayAssumption DEF Links
<1>f. faults < MaxFaults => faults + 1 \in 0..MaxFaults
  BY <1>t, <1>c
<1>0. ASSUME UNCHANGED gatewayVars PROVE Goal
  BY <1>0, <1>t DEF gatewayVars, clientVars, socketVars, cloudVars, rowVars
<1>1. ASSUME Connect PROVE Goal
  <2>1. client'.generation = client.generation + 1 /\ client'.at = "connecting" /\ last' = last + 1
    BY <1>1 DEF Connect
  <2>2. last' \in 0..MaxSockets /\ client'.generation \in 0..MaxSockets
        /\ client'.generation <= last'
    BY <1>1, <1>t, <1>c, <2>1 DEF Connect
  <2>3. client' \in ClientRow
    BY <1>1, <2>1, <2>2 DEF Connect, ClientRow
  <2> QED BY <1>1, <1>t, <2>2, <2>3 DEF Connect, socketVars, cloudVars, rowVars
<1>2. ASSUME Opens PROVE Goal
  <2>1. client' \in ClientRow /\ client'.generation = client.generation
    BY <1>2, <1>t, ClientUpdates DEF Opens
  <2>2. waiting' \in [Links -> Seq({"hello", "heartbeat"})]
    BY <1>2, <1>t, MessagesType DEF Opens
  <2> QED BY <1>2, <1>t, <2>1, <2>2 DEF Opens, rowVars
<1>3. ASSUME RuntimeStops PROVE Goal
  <2>1. client' \in ClientRow /\ client'.generation <= last /\ last' = last
    BY <1>3, <1>t, <1>c DEF RuntimeStops, ClientRow
  <2> QED BY <1>3, <1>t, <1>f, <2>1 DEF RuntimeStops, cloudVars, rowVars
<1>4. ASSUME Tick PROVE Goal
  <2>1. mark' \in MarkRow
    BY <1>4, <1>t, MarkUpdates DEF Tick
  <2>2. waiting' \in [Links -> Seq({"hello", "heartbeat"})]
    BY <1>4, <1>t, MessagesType DEF Tick
  <2> QED BY <1>4, <1>t, <2>1, <2>2 DEF Tick, clientVars, socketVars
<1>5. ASSUME Expires PROVE Goal
  BY <1>5, <1>t, MarkUpdates DEF Expires, clientVars, socketVars, cloudVars
<1>6. ASSUME CloudRestarts PROVE Goal
  <2>1. << >> \in Seq({"hello", "heartbeat"})
    OBVIOUS
  <2> QED BY <1>6, <1>t, <1>c, <1>f, <2>1 DEF CloudRestarts, clientVars
<1>h. ASSUME NEW s \in Links, HereCloses(s)
      PROVE  /\ client' \in ClientRow /\ client'.generation <= last'
             /\ here' \in [Links -> {"none", "open", "closed"}]
             /\ UNCHANGED <<last, gen, auth, handling, hub, mark, leaving>>
  BY <1>h, <1>t, ClientUpdates DEF HereCloses, rowVars
<1>7. ASSUME NEW s \in Links, SeesClose(s) \/ GivesUp(s) PROVE Goal
  BY <1>7, <1>h, <1>t DEF SeesClose, GivesUp
<1>8. ASSUME NEW s \in Links, TakesIdentity(s) PROVE Goal
  BY <1>8, <1>h, <1>t, <1>f DEF TakesIdentity
<1>9. ASSUME NEW s \in Links, Drop(s) PROVE Goal
  <2>1. waiting' \in [Links -> Seq({"hello", "heartbeat"})]
    BY <1>9, <1>t, MessagesType DEF Drop
  <2> QED BY <1>9, <1>h, <1>t, <1>f, <2>1 DEF Drop
<1>10. ASSUME NEW s \in Links, GoesDead(s) PROVE Goal
  BY <1>10, <1>t, <1>f DEF GoesDead, clientVars, cloudVars, rowVars
<1>11. ASSUME NEW s \in Links, Authenticates(s) PROVE Goal
  BY <1>11, <1>t DEF Authenticates, clientVars, socketVars, rowVars
<1>12. ASSUME NEW s \in Links, Takes(s) PROVE Goal
  <2>1. /\ waiting' \in [Links -> Seq({"hello", "heartbeat"})]
        /\ handling' \in [Links -> {"none", "hello", "heartbeat"}]
    BY <1>12, <1>t, MessagesType DEF Takes
  <2>2. there' \in [Links -> {"none", "open", "closing", "closed"}] /\ hub' \in 0..MaxSockets
    BY <1>12, <1>t, <1>c DEF Takes, BindHub
  <2> QED BY <1>12, <1>t, <2>1, <2>2 DEF Takes, clientVars, rowVars
<1>13. ASSUME NEW s \in Links, MarksHello(s) PROVE Goal
  <2>1. mark' \in MarkRow
    BY <1>13, <1>t DEF MarksHello, MarkRow, SilentAfter
  <2> QED BY <1>13, <1>t, <2>1 DEF MarksHello, clientVars, socketVars
<1>14. ASSUME NEW s \in Links, Touches(s) PROVE Goal
  BY <1>14, <1>t, MarkUpdates DEF Touches, clientVars, socketVars
<1>15. ASSUME NEW s \in Links, MessageFails(s) PROVE Goal
  BY <1>15, <1>t, <1>f DEF MessageFails, clientVars, socketVars, rowVars
<1>16. ASSUME NEW s \in Links, HearsClose(s) PROVE Goal
  <2>1. hub' \in 0..MaxSockets /\ leaving' \subseteq 0..MaxSockets
    <3>1. CASE auth[s] = "known" /\ hub = s
      <4>1. hub' = 0 /\ leaving' = leaving \cup {gen[s]}
        BY <1>16, <3>1 DEF HearsClose, Detaches
      <4>2. gen[s] \in 0..MaxSockets /\ 0 \in 0..MaxSockets
        BY <1>t, <1>c
      <4> QED BY <1>t, <4>1, <4>2
    <3>2. CASE ~(auth[s] = "known" /\ hub = s)
      BY <1>16, <1>t, <3>2 DEF HearsClose, Detaches
    <3> QED BY <3>1, <3>2
  <2> QED BY <1>16, <1>t, <2>1 DEF HearsClose, clientVars
<1>17. ASSUME NEW g \in leaving, MarksOffline(g) PROVE Goal
  BY <1>17, <1>t, MarkUpdates DEF MarksOffline, clientVars, socketVars, cloudVars
<1>18. Goal
  BY <1>0, <1>1, <1>2, <1>3, <1>4, <1>5, <1>6, <1>7, <1>8, <1>9, <1>10, <1>11, <1>12,
     <1>13, <1>14, <1>15, <1>16, <1>17 DEF GatewayNext
<1> QED BY <1>18 DEF GatewayTypeOK, ClientRow, MarkRow

\* A socket that is heard of, at either end.
Heard(s) == here[s] = "open" \/ s \in dead

LEMMA HubKept ==
  GatewayInv /\ [GatewayNext]_gatewayVars => HelloWaits' /\ HubSpeaks'
<1> SUFFICES ASSUME GatewayInv, [GatewayNext]_gatewayVars PROVE HelloWaits' /\ HubSpeaks'
  OBVIOUS
<1> DEFINE Goal(s) ==
      /\ auth'[s] = "pending" /\ Heard(s)' => waiting'[s] # << >>
      /\ there'[s] = "open" /\ auth'[s] = "known" /\ waiting'[s] = << >> /\ Heard(s)' => hub' = s
<1>t. /\ here \in [Links -> {"none", "open", "closed"}]
      /\ there \in [Links -> {"none", "open", "closing", "closed"}]
      /\ dead \subseteq Links
      /\ auth \in [Links -> {"pending", "known", "gone"}]
      /\ waiting \in [Links -> Seq({"hello", "heartbeat"})]
      /\ hub \in 0..MaxSockets
  BY GatewayTypes DEF GatewayInv
<1>i. /\ \A s \in Links : auth[s] = "pending" /\ Heard(s) => waiting[s] # << >>
      /\ \A s \in Links : there[s] = "open" /\ auth[s] = "known" /\ waiting[s] = << >> /\ Heard(s)
             => hub = s
  BY DEF GatewayInv, HelloWaits, HubSpeaks, Heard
<1>k. SUFFICES ASSUME NEW s \in Links PROVE Goal(s)
  BY DEF HelloWaits, HubSpeaks, Heard
<1>u. ASSUME UNCHANGED <<here, there, dead, auth, waiting, hub>> PROVE Goal(s)
  BY <1>u, <1>i DEF Heard
<1>0. ASSUME UNCHANGED gatewayVars PROVE Goal(s)
  BY <1>0, <1>u DEF gatewayVars, clientVars, socketVars, cloudVars, rowVars
<1>1. ASSUME Connect \/ Expires PROVE Goal(s)
  BY <1>1, <1>u DEF Connect, Expires, clientVars, socketVars, cloudVars, rowVars
<1>2. ASSUME Opens PROVE Goal(s)
  <2>1. CASE s = last
    BY <1>2, <1>t, <2>1, MessagesType DEF Opens
  <2>2. CASE s # last
    BY <1>2, <1>t, <1>i, <2>2 DEF Opens, Heard, rowVars
  <2> QED BY <2>1, <2>2
<1>3. ASSUME RuntimeStops PROVE Goal(s)
  <2>1. Heard(s)' => Heard(s)
    BY <1>3, <1>t DEF RuntimeStops, Heard
  <2> QED BY <1>3, <1>i, <2>1 DEF RuntimeStops, cloudVars
<1>4. ASSUME Tick PROVE Goal(s)
  <2>1. waiting'[s] = << >> => waiting[s] = << >>
    BY <1>4, <1>t, MessagesType DEF Tick
  <2> QED BY <1>4, <1>i, <2>1 DEF Tick, socketVars, Heard
<1>5. ASSUME CloudRestarts PROVE Goal(s)
  BY <1>5 DEF CloudRestarts
<1>h. ASSUME NEW r \in Links, HereCloses(r), UNCHANGED dead PROVE Heard(s)' => Heard(s)
  BY <1>h, <1>t DEF HereCloses, Heard
<1>6. ASSUME NEW r \in Links, SeesClose(r) \/ GivesUp(r) \/ TakesIdentity(r) PROVE Goal(s)
  BY <1>6, <1>h, <1>i DEF SeesClose, GivesUp, TakesIdentity, HereCloses
<1>7. ASSUME NEW r \in Links, Drop(r) PROVE Goal(s)
  <2>1. CASE s = r
    BY <1>7, <1>t, <2>1 DEF Drop, HereCloses, Heard
  <2>2. CASE s # r
    BY <1>7, <1>h, <1>t, <1>i, <2>2 DEF Drop, HereCloses
  <2> QED BY <2>1, <2>2
<1>8. ASSUME NEW r \in Links, GoesDead(r) PROVE Goal(s)
  BY <1>8, <1>t, <1>i DEF GoesDead, cloudVars, Heard
<1>9. ASSUME NEW r \in Links, Authenticates(r) PROVE Goal(s)
  BY <1>9, <1>t, <1>i DEF Authenticates, socketVars, Heard
<1>10. ASSUME NEW r \in Links, Takes(r) PROVE Goal(s)
  <2>1. /\ there' = [t \in Links |->
                      IF t = hub /\ t # r /\ there[t] = "open" THEN "closing" ELSE there[t]]
        /\ hub' = r /\ auth' = auth /\ auth[r] = "known" /\ (Heard(s)' <=> Heard(s))
    BY <1>10 DEF Takes, BindHub, Heard
  <2>2. s # r => waiting'[s] = waiting[s]
    BY <1>10, <1>t DEF Takes
  <2>3. CASE s = r
    BY <2>1, <2>3
  <2>4. CASE s # r
    BY <1>i, <1>t, <2>1, <2>2, <2>4
  <2> QED BY <2>3, <2>4
<1>11. ASSUME NEW r \in Links, MarksHello(r) \/ Touches(r) \/ MessageFails(r) PROVE Goal(s)
  BY <1>11, <1>u DEF MarksHello, Touches, MessageFails, clientVars, socketVars, rowVars
<1>12. ASSUME NEW r \in Links, HearsClose(r) PROVE Goal(s)
  BY <1>12, <1>t, <1>i DEF HearsClose, Detaches, Heard
<1>13. ASSUME NEW g \in leaving, MarksOffline(g) PROVE Goal(s)
  BY <1>13, <1>u DEF MarksOffline, clientVars, socketVars, cloudVars
<1> QED BY <1>0, <1>1, <1>2, <1>3, <1>4, <1>5, <1>6, <1>7, <1>8, <1>9, <1>10, <1>11, <1>12,
           <1>13 DEF GatewayNext

LEMMA GatewayKept ==
  ASSUME GatewayInv, [GatewayNext]_gatewayVars PROVE GatewayInv'
BY GatewayType, HubKept DEF GatewayInv

-----------------------------------------------------------------------------
(* The devices of a house.                                                 *)

Asking(r) == \E i \in DOMAIN asks : asks[i].id = r
Called(r) == \E q \in calling : q.id = r

\* A request is on its way, called, or carried out, never two of these; and what
\* will be answered with success was carried out.
OnceEach ==
    \A r \in Requests :
        /\ carried[r] \in 0..1
        /\ request[r].at = "new" => carried[r] = 0 /\ ~Asking(r) /\ ~Called(r)
        /\ Asking(r) => carried[r] = 0 /\ ~Called(r)
        /\ Called(r) => carried[r] = 0
        /\ request[r].at = "writing" \/ request[r] = Over("ok") => carried[r] = 1

AsksApart  == \A i, j \in DOMAIN asks : asks[i].id = asks[j].id => i = j
CallsApart == \A p, q \in calling : p.id = q.id => p = q

Says(m) == m.type = "reply" /\ m.ok => carried[m.to.id] = 1

RepliesAreTrue ==
    /\ \A i \in DOMAIN tells : Says(tells[i])
    /\ writer.at = "accepting" => Says(writer.reply)

CatalogInv == CatalogTypeOK /\ OnceEach /\ AsksApart /\ CallsApart /\ RepliesAreTrue

Told == Replies \cup Snapshots
RequestRow ==
    [at : {"new", "waiting"}] \cup [at : {"writing"}, reply : Replies]
    \cup [at : {"done"}, result : {"ok", "refused", "offline"}]
WriterRow ==
    {Idle} \cup [at : {"replacing"}, left : SUBSET Devices, rows : [Devices -> Rows]]
    \cup [at : {"accepting"}, reply : Replies]

LEMMA CatalogTypes ==
  CatalogTypeOK <=>
    /\ home \in [Devices -> Rows] /\ shown \in [Devices -> Rows]
    /\ request \in [Requests -> RequestRow]
    /\ calling \subseteq Asked /\ asks \in Seq(Asked)
    /\ tells \in Seq(Told)
    /\ writer \in WriterRow
    /\ linked \in BOOLEAN
    /\ carried \in [Requests -> 0..2]
    /\ mishaps \in 0..MaxMishaps
BY DEF CatalogTypeOK, RequestRow, WriterRow, Told

LEMMA RowUpdates ==
  /\ NoRow \in Rows /\ NewRow \in Rows
  /\ \A r \in Rows : Reading(r) \in Rows
  /\ \A r \in Rows : r # NoRow => [r EXCEPT !.up = FALSE] \in Rows
<1>1. NoRow \in Rows /\ NewRow \in Rows
  BY DEF NoRow, NewRow, Rows, States
<1>2. ASSUME NEW r \in Rows PROVE Reading(r) \in Rows
  <2> DEFINE q == [r EXCEPT !.up = TRUE]
  <2>1. Reading(r) = [q EXCEPT !.state = (@ + 1) % 3]
    BY Zenon DEF Reading
  <2>2. q \in [up : BOOLEAN, state : -1..2]
    <3>1. r \in [up : BOOLEAN, state : -1..2]
      <4>1. r = NoRow => r.up \in BOOLEAN /\ r.state \in -1..2 /\ r = [up |-> r.up, state |-> r.state]
        BY DEF NoRow
      <4>2. r # NoRow => r \in [up : BOOLEAN, state : 0..2]
        BY DEF Rows, States
      <4> QED BY <4>1, <4>2
    <3>2. \A b \in BOOLEAN : [r EXCEPT !.up = b] \in [up : BOOLEAN, state : -1..2]
      BY <3>1
    <3> QED BY <3>2
  <2>3. \A k \in -1..2 : (k + 1) % 3 \in 0..2
    OBVIOUS
  <2> HIDE DEF q
  <2>4. [q EXCEPT !.state = (@ + 1) % 3] \in [up : BOOLEAN, state : 0..2]
    BY <2>2, <2>3
  <2> QED BY <2>1, <2>4 DEF Rows, States
<1>3. ASSUME NEW r \in Rows, r # NoRow PROVE [r EXCEPT !.up = FALSE] \in Rows
  BY <1>3 DEF Rows
<1> QED BY <1>1, <1>2, <1>3

LEMMA AskedParts ==
  ASSUME NEW q \in Asked
  PROVE  q.id \in Requests /\ q.kind \in Kinds /\ q.device \in Devices
BY DEF Asked

LEMMA ReplyParts ==
  ASSUME NEW m \in Replies
  PROVE  m.type = "reply" /\ m.to \in Asked /\ m.ok \in BOOLEAN /\ m.row \in Rows
BY DEF Replies

LEMMA SnapshotParts ==
  ASSUME NEW m \in Snapshots
  PROVE  m.type = "snapshot" /\ m.rows \in [Devices -> Rows]
BY DEF Snapshots

LEMMA ToldParts ==
  ASSUME NEW m \in Told
  PROVE  /\ m.type = "snapshot" => m \in Snapshots
         /\ m.type # "snapshot" => m \in Replies
BY ReplyParts, SnapshotParts DEF Told

LEMMA WrittenType ==
  ASSUME shown \in [Devices -> Rows], NEW m \in Replies
  PROVE  Written(m) \in [Devices -> Rows]
BY RowUpdates, ReplyParts, AskedParts DEF Written

LEMMA OutcomeType ==
  ASSUME home \in [Devices -> Rows], NEW q \in Asked
  PROVE  Outcome(q) \in Rows
BY RowUpdates, AskedParts DEF Outcome, Created, Acted, Renamed, Removed

\* What is told behind a reply is the table; what a reply says is that its request
\* was carried out, or not.
LEMMA TellType ==
  ASSUME tells \in Seq(Told), NEW q \in Asked, NEW ok \in BOOLEAN,
         NEW rows \in [Devices -> Rows], Tell(q, ok, rows)
  PROVE  /\ tells' \in Seq(Told)
         /\ \A m : Has(tells', m) => \/ Has(tells, m) \/ m \in Snapshots
                                     \/ m \in Replies /\ m.to = q /\ m.ok = ok
<1> DEFINE reply    == [type |-> "reply", to |-> q, ok |-> ok,
                        row |-> IF ok THEN rows[q.device] ELSE NoRow]
           snapshot == [type |-> "snapshot", rows |-> rows]
<1>1. reply \in Replies /\ snapshot \in Snapshots /\ reply.to = q /\ reply.ok = ok
  BY RowUpdates, AskedParts DEF Replies, Snapshots
<1>2. reply \in Told /\ snapshot \in Told
  BY <1>1 DEF Told
<1>3. \/ tells' = tells
      \/ tells' = tells \o <<snapshot, reply>>
      \/ tells' = Append(tells, reply)
  BY DEF Tell
<1> HIDE DEF reply, snapshot
<1>4. CASE tells' = tells
  BY <1>4
<1>5. CASE tells' = tells \o <<snapshot, reply>>
  <2>1. <<snapshot, reply>> \in Seq(Told)
    BY <1>2
  <2>2. \A m : Has(<<snapshot, reply>>, m) => m = snapshot \/ m = reply
    BY DEF Has
  <2>3. \A m : Has(tells', m) <=> Has(tells, m) \/ Has(<<snapshot, reply>>, m)
    BY <1>5, <2>1, HasConcat
  <2>4. tells' \in Seq(Told)
    BY <1>5, <2>1
  <2> QED BY <1>1, <2>2, <2>3, <2>4
<1>6. CASE tells' = Append(tells, reply)
  <2>1. \A m : Has(tells', m) <=> Has(tells, m) \/ m = reply
    BY <1>2, <1>6, HasAppend
  <2> QED BY <1>1, <1>2, <1>6, <2>1
<1> QED BY <1>3, <1>4, <1>5, <1>6

LEMMA CatalogStarts == CatalogInit => CatalogInv
<1> SUFFICES ASSUME CatalogInit PROVE CatalogInv
  OBVIOUS
<1>1. [up |-> TRUE, state |-> 0] \in Rows /\ NoRow \in Rows
  BY RowUpdates DEF NewRow
<1>2. CatalogTypeOK
  BY <1>1, CatalogAssumption, CatalogTypes DEF CatalogInit, RequestRow, WriterRow
<1>3. /\ asks = << >> /\ calling = {} /\ tells = << >> /\ writer.at = "idle"
      /\ \A r \in Requests : request[r].at = "new" /\ carried[r] = 0
  BY DEF CatalogInit, Idle
<1>4. OnceEach
  <2>1. \A r \in Requests : request[r] # Over("ok")
    BY <1>3 DEF Over
  <2> QED BY <1>3, <2>1 DEF OnceEach, Asking, Called
<1>5. AsksApart /\ CallsApart /\ RepliesAreTrue
  BY <1>3 DEF AsksApart, CallsApart, RepliesAreTrue
<1> QED BY <1>2, <1>4, <1>5 DEF CatalogInv

LEMMA CatalogType == CatalogInv /\ [CatalogNext]_catalogVars => CatalogTypeOK'
<1> SUFFICES ASSUME CatalogInv, [CatalogNext]_catalogVars PROVE CatalogTypeOK'
  OBVIOUS
<1> DEFINE Goal ==
      /\ home' \in [Devices -> Rows] /\ shown' \in [Devices -> Rows]
      /\ request' \in [Requests -> RequestRow]
      /\ calling' \subseteq Asked /\ asks' \in Seq(Asked)
      /\ tells' \in Seq(Told)
      /\ writer' \in WriterRow
      /\ linked' \in BOOLEAN
      /\ carried' \in [Requests -> 0..2]
      /\ mishaps' \in 0..MaxMishaps
<1>t. /\ home \in [Devices -> Rows] /\ shown \in [Devices -> Rows]
      /\ request \in [Requests -> RequestRow]
      /\ calling \subseteq Asked /\ asks \in Seq(Asked)
      /\ tells \in Seq(Told)
      /\ writer \in WriterRow
      /\ linked \in BOOLEAN
      /\ carried \in [Requests -> 0..2]
      /\ mishaps \in 0..MaxMishaps
  BY CatalogTypes DEF CatalogInv
<1>c. /\ \A r \in Requests : carried[r] + 1 \in 0..2
      /\ mishaps < MaxMishaps => mishaps + 1 \in 0..MaxMishaps
  BY <1>t, CatalogAssumption DEF CatalogInv, OnceEach
<1>o. /\ \A w \in {"ok", "refused", "offline"} : Over(w) \in RequestRow
      /\ [at |-> "waiting"] \in RequestRow
      /\ \A m \in Replies : [at |-> "writing", reply |-> m] \in RequestRow
  BY DEF Over, RequestRow
<1>r. ASSUME NEW q \in Asked, CarryOut(q) \/ Refuse(q)
      PROVE  /\ home' \in [Devices -> Rows] /\ tells' \in Seq(Told)
             /\ carried' \in [Requests -> 0..2]
  <2>1. CASE CarryOut(q)
    <3>1. home' \in [Devices -> Rows]
      BY <1>t, <2>1, OutcomeType, AskedParts DEF CarryOut
    <3>2. tells' \in Seq(Told)
      BY <1>t, <2>1, <3>1, TellType DEF CarryOut
    <3>3. carried' \in [Requests -> 0..2]
      BY <1>t, <1>c, <2>1, AskedParts DEF CarryOut
    <3> QED BY <3>1, <3>2, <3>3
  <2>2. CASE Refuse(q)
    BY <1>t, <2>2, TellType DEF Refuse
  <2> QED BY <1>r, <2>1, <2>2
<1>0. ASSUME UNCHANGED catalogVars PROVE Goal
  BY <1>0, <1>t DEF catalogVars
<1>1. ASSUME TakesMessage PROVE Goal
  <2>1. tells # << >> /\ tells' = Tail(tells) /\ tells' \in Seq(Told) /\ Head(tells) \in Told
    BY <1>1, <1>t DEF TakesMessage
  <2>2. CASE Head(tells).type = "snapshot"
    <3>1. Head(tells).rows \in [Devices -> Rows]
      BY <2>1, <2>2, ToldParts, SnapshotParts
    <3>2. writer' \in WriterRow /\ shown' = shown
      BY <1>1, <2>2, <3>1 DEF TakesMessage, WriterRow
    <3> QED BY <1>1, <1>t, <2>1, <3>2 DEF TakesMessage
  <2>3. CASE Head(tells).type # "snapshot"
    <3>1. Head(tells) \in Replies
      BY <2>1, <2>3, ToldParts
    <3>2. writer' \in WriterRow
      BY <1>1, <2>3, <3>1 DEF TakesMessage, WriterRow
    <3>3. shown' \in [Devices -> Rows]
      BY <1>1, <1>t, <2>3, <3>1, WrittenType DEF TakesMessage
    <3> QED BY <1>1, <1>t, <2>1, <3>2, <3>3 DEF TakesMessage
  <2> QED BY <2>2, <2>3
<1>w. /\ writer.at = "replacing" =>
           writer \in [at : {"replacing"}, left : SUBSET Devices, rows : [Devices -> Rows]]
      /\ writer.at = "accepting" => writer.reply \in Replies
  BY <1>t DEF WriterRow, Idle
<1>2. ASSUME ReplacesOne PROVE Goal
  <2>1. writer \in [at : {"replacing"}, left : SUBSET Devices, rows : [Devices -> Rows]]
    BY <1>2, <1>w DEF ReplacesOne
  <2>2. (CHOOSE x \in writer.left : TRUE) \in writer.left
    BY <1>2 DEF ReplacesOne
  <2>3. PICK d \in writer.left : /\ shown' = [shown EXCEPT ![d] = writer.rows[d]]
                                 /\ writer' = [writer EXCEPT !.left = @ \ {d}]
    BY <1>2, <2>2 DEF ReplacesOne
  <2>4. shown' \in [Devices -> Rows] /\ writer' \in WriterRow
    BY <1>t, <2>1, <2>3 DEF WriterRow
  <2> QED BY <1>2, <1>t, <2>4 DEF ReplacesOne
<1>3. ASSUME HidesOthers PROVE Goal
  <2>1. shown' \in [Devices -> Rows]
    BY <1>3, <1>t, RowUpdates DEF HidesOthers
  <2> QED BY <1>3, <1>t, <2>1 DEF HidesOthers, WriterRow
<1>4. ASSUME Accepts PROVE Goal
  <2>1. writer.reply \in Replies
    BY <1>4, <1>w DEF Accepts
  <2>2. request' \in [Requests -> RequestRow]
    BY <1>4, <1>t, <1>o, <2>1 DEF Accepts
  <2> QED BY <1>4, <1>t, <2>2 DEF Accepts, WriterRow
<1>5. ASSUME TakesRequest PROVE Goal
  <2>1. Head(asks) \in Asked /\ asks' \in Seq(Asked)
    BY <1>5, <1>t DEF TakesRequest
  <2>2. /\ home' \in [Devices -> Rows] /\ tells' \in Seq(Told)
        /\ carried' \in [Requests -> 0..2] /\ calling' \subseteq Asked
    BY <1>5, <1>t, <1>r, <2>1 DEF TakesRequest
  <2> QED BY <1>5, <1>t, <2>1, <2>2 DEF TakesRequest
<1>6. ASSUME Reports PROVE Goal
  <2>1. [type |-> "snapshot", rows |-> home] \in Told
    BY <1>t DEF Told, Snapshots
  <2> QED BY <1>6, <1>t, <2>1 DEF Reports
<1>7. ASSUME Drops PROVE Goal
  <2>1. asks' \in Seq(Asked) /\ tells' \in Seq(Told)
    BY <1>7, <1>t DEF Drops
  <2> QED BY <1>7, <1>t, <1>c, <2>1 DEF Drops
<1>8. ASSUME Reconnects PROVE Goal
  BY <1>8, <1>t DEF Reconnects
<1>9. ASSUME NEW d \in Devices, Changes(d) PROVE Goal
  <2>1. home' \in [Devices -> Rows]
    BY <1>9, <1>t, RowUpdates DEF Changes, Exists
  <2>2. [type |-> "snapshot", rows |-> home'] \in Told
    BY <2>1 DEF Told, Snapshots
  <2>3. tells' \in Seq(Told)
    BY <1>9, <1>t, <2>2 DEF Changes
  <2> QED BY <1>9, <1>t, <1>c, <2>1, <2>3 DEF Changes
<1>10. ASSUME NEW q \in calling, CallReturns(q) \/ CallFails(q) PROVE Goal
  <2>1. q \in Asked /\ (CarryOut(q) \/ Refuse(q))
    BY <1>10, <1>t DEF CallReturns, CallFails
  <2>2. /\ home' \in [Devices -> Rows] /\ tells' \in Seq(Told)
        /\ carried' \in [Requests -> 0..2]
    BY <1>r, <2>1
  <2> QED BY <1>10, <1>t, <2>2 DEF CallReturns, CallFails
<1>11. ASSUME NEW r \in Requests, TimesOut(r) PROVE Goal
  BY <1>11, <1>t, <1>o DEF TimesOut
<1>12. ASSUME NEW r \in Requests, WritesAgain(r) PROVE Goal
  <2>1. request[r].reply \in Replies
    BY <1>12, <1>t DEF WritesAgain, RequestRow
  <2> QED BY <1>12, <1>t, <1>o, <2>1, WrittenType DEF WritesAgain
<1>13. ASSUME NEW r \in Requests, NEW kind \in Kinds, NEW d \in Devices, Asks(r, kind, d)
       PROVE  Goal
  <2>1. [id |-> r, kind |-> kind, device |-> d] \in Asked
    BY DEF Asked
  <2>2. request' \in [Requests -> RequestRow] /\ asks' \in Seq(Asked)
    <3>1. CASE linked
      <4>1. /\ asks' = Append(asks, [id |-> r, kind |-> kind, device |-> d])
            /\ request' = [request EXCEPT ![r] = [at |-> "waiting"]]
        BY <1>13, <3>1 DEF Asks
      <4>2. request' \in [Requests -> RequestRow]
        BY <1>t, <1>o, <4>1
      <4>3. asks' \in Seq(Asked)
        BY <1>t, <2>1, <4>1
      <4> QED BY <4>2, <4>3
    <3>2. CASE ~linked
      BY <1>13, <1>t, <1>o, <3>2 DEF Asks
    <3> QED BY <3>1, <3>2
  <2> QED BY <1>13, <1>t, <2>2 DEF Asks
<1>14. Goal
  BY <1>0, <1>1, <1>2, <1>3, <1>4, <1>5, <1>6, <1>7, <1>8, <1>9, <1>10, <1>11, <1>12, <1>13
     DEF CatalogNext
<1> QED BY <1>14 DEF CatalogTypeOK, RequestRow, WriterRow, Told

\* What follows the first request is of others.
LEMMA AsksTail ==
  ASSUME asks \in Seq(Asked), AsksApart, asks # << >>, asks' = Tail(asks)
  PROVE  /\ Asking(Head(asks).id) /\ Head(asks) \in Asked
         /\ \A r : Asking(r)' => Asking(r) /\ r # Head(asks).id
         /\ AsksApart'
<1>1. /\ Len(asks) \in Nat \ {0} /\ DOMAIN asks = 1..Len(asks) /\ DOMAIN asks' = 1..(Len(asks) - 1)
      /\ \A i \in DOMAIN asks' : asks'[i] = asks[i + 1] /\ i + 1 \in DOMAIN asks /\ i + 1 # 1
      /\ 1 \in DOMAIN asks /\ Head(asks) = asks[1] /\ Head(asks) \in Asked
  OBVIOUS
<1>2. \A r : Asking(r)' => Asking(r) /\ r # Head(asks).id
  BY <1>1 DEF Asking, AsksApart
<1>3. AsksApart'
  <2> SUFFICES ASSUME NEW i \in DOMAIN asks', NEW j \in DOMAIN asks', asks'[i].id = asks'[j].id
               PROVE  i = j
    BY DEF AsksApart
  <2>1. i + 1 = j + 1
    BY <1>1 DEF AsksApart
  <2> QED BY <1>1, <2>1
<1> QED BY <1>1, <1>2, <1>3 DEF Asking

\* A request that was not carried out yet is carried out, once, or refused.
LEMMA CarriedOnce ==
  ASSUME CatalogTypeOK, OnceEach, RepliesAreTrue, NEW q \in Asked, carried[q.id] = 0,
         CarryOut(q) \/ Refuse(q), home' \in [Devices -> Rows], UNCHANGED writer
  PROVE  /\ carried' \in [Requests -> 0..1]
         /\ \A r \in Requests : r # q.id => carried'[r] = carried[r]
         /\ RepliesAreTrue'
<1>t. /\ home \in [Devices -> Rows] /\ tells \in Seq(Told) /\ carried \in [Requests -> 0..1]
      /\ writer \in WriterRow /\ q.id \in Requests
  BY CatalogTypes, AskedParts DEF OnceEach
<1> DEFINE True(m) == m.type = "reply" /\ m.ok => carried'[m.to.id] = 1
<1>1. /\ \A m : Has(tells, m) => (m.type = "reply" /\ m.ok => carried[m.to.id] = 1)
      /\ writer.at = "accepting" => (writer.reply.ok => carried[writer.reply.to.id] = 1)
      /\ writer.at = "accepting" => writer.reply \in Replies
      /\ \A m : Has(tells, m) => m \in Told
  BY <1>t, ReplyParts DEF RepliesAreTrue, Says, Has, WriterRow, Idle
<1>2. \A r \in Requests : carried[r] = 1 => r # q.id
  OBVIOUS
<1>r. \A m \in Replies : m.to.id \in Requests
  BY ReplyParts, AskedParts
<1>3. CASE CarryOut(q)
  <2>1. carried' = [carried EXCEPT ![q.id] = 1] /\ Tell(q, TRUE, home')
    <3>1. carried' = [carried EXCEPT ![q.id] = carried[q.id] + 1]
      BY <1>3 DEF CarryOut
    <3>2. carried[q.id] + 1 = 1
      OBVIOUS
    <3> QED BY <1>3, <3>1, <3>2 DEF CarryOut
  <2>2. \A m : Has(tells', m) => \/ Has(tells, m) \/ m \in Snapshots
                                 \/ m \in Replies /\ m.to = q
    BY <1>t, <2>1, TellType
  <2>3. \A m : Has(tells', m) => True(m)
    BY <1>t, <1>1, <1>2, <1>r, <2>1, <2>2, ToldParts, SnapshotParts
  <2>4. \A i \in DOMAIN tells' : Says(tells[i])'
    BY <2>3 DEF Has, Says
  <2>5. (writer.at = "accepting" => Says(writer.reply))'
    BY <1>t, <1>1, <1>2, <1>r, <2>1 DEF Says
  <2> QED BY <1>t, <2>1, <2>4, <2>5 DEF RepliesAreTrue
<1>4. CASE Refuse(q)
  <2>1. UNCHANGED carried /\ Tell(q, FALSE, home)
    BY <1>4 DEF Refuse
  <2>2. \A m : Has(tells', m) => \/ Has(tells, m) \/ m \in Snapshots
                                 \/ m \in Replies /\ m.ok = FALSE
    BY <1>t, <2>1, TellType
  <2>3. \A m : Has(tells', m) => True(m)
    BY <1>1, <2>1, <2>2, SnapshotParts
  <2>4. \A i \in DOMAIN tells' : Says(tells[i])'
    BY <2>3 DEF Has, Says
  <2>5. (writer.at = "accepting" => Says(writer.reply))'
    BY <1>1, <2>1 DEF Says
  <2> QED BY <1>t, <2>1, <2>4, <2>5 DEF RepliesAreTrue
<1> QED BY <1>3, <1>4

LEMMA CatalogKept ==
  ASSUME CatalogInv, [CatalogNext]_catalogVars PROVE CatalogInv'
<1> DEFINE Once   == OnceEach' /\ AsksApart' /\ CallsApart'
           Rest   == Once /\ RepliesAreTrue'
<1>t. /\ home \in [Devices -> Rows]
      /\ request \in [Requests -> RequestRow]
      /\ calling \subseteq Asked /\ asks \in Seq(Asked)
      /\ tells \in Seq(Told)
      /\ writer \in WriterRow
      /\ carried \in [Requests -> 0..2]
  BY CatalogTypes DEF CatalogInv
<1>i. /\ OnceEach /\ AsksApart /\ CallsApart /\ RepliesAreTrue
  BY DEF CatalogInv
<1>y. home' \in [Devices -> Rows] /\ CatalogTypeOK'
  BY CatalogType, CatalogTypes DEF CatalogInv, CatalogTypeOK
<1>w. writer.at = "accepting" => writer.reply \in Replies
  BY <1>t DEF WriterRow, Idle
<1>u. /\ UNCHANGED <<request, calling, asks, carried>> => Once
      /\ UNCHANGED <<tells, writer, carried>> => RepliesAreTrue'
  BY <1>i DEF OnceEach, AsksApart, CallsApart, RepliesAreTrue, Asking, Called, Says
<1>0. ASSUME UNCHANGED catalogVars PROVE Rest
  BY <1>0, <1>u DEF catalogVars
<1>1. ASSUME TakesMessage PROVE Rest
  <2>1. /\ tells # << >> /\ tells' = Tail(tells) /\ UNCHANGED carried
        /\ \/ writer'.at = "replacing"
           \/ writer'.at = "accepting" /\ writer'.reply = Head(tells)
    BY <1>1 DEF TakesMessage
  <2>2. /\ \A i \in DOMAIN tells' : i + 1 \in DOMAIN tells /\ tells'[i] = tells[i + 1]
        /\ 1 \in DOMAIN tells /\ Head(tells) = tells[1]
    BY <1>t, <2>1
  <2>3. RepliesAreTrue'
    BY <1>i, <2>1, <2>2 DEF RepliesAreTrue, Says
  <2> QED BY <1>1, <1>u, <2>3 DEF TakesMessage
<1>2. ASSUME ReplacesOne \/ HidesOthers PROVE Rest
  <2>1. writer'.at # "accepting" /\ UNCHANGED <<tells, carried>>
    BY <1>2, <1>t DEF ReplacesOne, HidesOthers, WriterRow, Idle
  <2>2. RepliesAreTrue'
    BY <1>i, <2>1 DEF RepliesAreTrue, Says
  <2> QED BY <1>2, <1>u, <2>2 DEF ReplacesOne, HidesOthers
<1>3. ASSUME Accepts PROVE Rest
  <2>1. /\ writer' = Idle /\ UNCHANGED <<tells, carried, calling, asks>>
        /\ writer.reply \in Replies /\ Says(writer.reply)
    BY <1>3, <1>i, <1>w DEF Accepts, RepliesAreTrue
  <2> DEFINE m == writer.reply
             r == m.to.id
  <2>2. \/ request' = request
        \/ request' = [request EXCEPT ![r] = Over("refused")]
        \/ request' = [request EXCEPT ![r] = [at |-> "writing", reply |-> m]] /\ m.ok
    BY <1>3 DEF Accepts
  <2>3. m.type = "reply" /\ r \in Requests
    BY <2>1, ReplyParts, AskedParts
  <2>4. m.ok => carried[r] = 1
    BY <2>1, <2>3 DEF Says
  <2> HIDE DEF m, r
  <2>5. OnceEach'
    <3> SUFFICES ASSUME NEW k \in Requests
                 PROVE  (/\ carried[k] \in 0..1
                         /\ request[k].at = "new" => carried[k] = 0 /\ ~Asking(k) /\ ~Called(k)
                         /\ Asking(k) => carried[k] = 0 /\ ~Called(k)
                         /\ Called(k) => carried[k] = 0
                         /\ request[k].at = "writing" \/ request[k] = Over("ok") => carried[k] = 1)'
      BY DEF OnceEach
    <3>1. /\ carried[k] \in 0..1
          /\ request[k].at = "new" => carried[k] = 0 /\ ~Asking(k) /\ ~Called(k)
          /\ Asking(k) => carried[k] = 0 /\ ~Called(k)
          /\ Called(k) => carried[k] = 0
          /\ request[k].at = "writing" \/ request[k] = Over("ok") => carried[k] = 1
      BY <1>i DEF OnceEach
    <3>2. carried' = carried /\ (Asking(k)' <=> Asking(k)) /\ (Called(k)' <=> Called(k))
      BY <2>1 DEF Asking, Called
    <3>3. \/ request'[k] = request[k]
          \/ request'[k] = Over("refused")
          \/ request'[k].at = "writing" /\ k = r /\ m.ok
      BY <1>t, <2>2, <2>3
    <3>4. /\ Over("refused").at = "done" /\ Over("refused").result = "refused"
          /\ Over("ok").at = "done" /\ Over("ok").result = "ok"
      BY DEF Over
    <3>5. CASE request'[k] = request[k]
      BY <3>1, <3>2, <3>5
    <3>6. CASE request'[k] = Over("refused")
      BY <3>1, <3>2, <3>4, <3>6
    <3>7. CASE request'[k].at = "writing" /\ k = r /\ m.ok
      BY <2>4, <3>1, <3>2, <3>4, <3>7
    <3> QED BY <3>3, <3>5, <3>6, <3>7
  <2>6. AsksApart' /\ CallsApart'
    BY <1>i, <2>1 DEF AsksApart, CallsApart
  <2>7. RepliesAreTrue'
    BY <1>i, <2>1 DEF RepliesAreTrue, Says, Idle
  <2> QED BY <2>5, <2>6, <2>7
<1>4. ASSUME TakesRequest PROVE Rest
  <2> DEFINE q == Head(asks)
  <2>1. asks # << >> /\ asks' = Tail(asks) /\ UNCHANGED <<request, writer>>
    BY <1>4 DEF TakesRequest
  <2>2. /\ Asking(q.id) /\ q \in Asked /\ q.id \in Requests
        /\ \A r : Asking(r)' => Asking(r) /\ r # q.id
        /\ AsksApart'
    BY <1>i, <1>t, <2>1, AsksTail, AskedParts
  <2>3. carried[q.id] = 0 /\ ~Called(q.id) /\ request[q.id].at # "new"
    BY <1>i, <2>2 DEF OnceEach
  <2>4. request[q.id].at # "writing" /\ request[q.id] # Over("ok")
    BY <1>i, <2>2, <2>3 DEF OnceEach
  <2>5. CASE calling' = calling \cup {q} /\ UNCHANGED <<tells, carried>>
    <3>1. \A r \in Requests : Called(r)' => Called(r) \/ r = q.id
      BY <2>5 DEF Called
    <3>2. OnceEach'
      BY <1>i, <2>1, <2>2, <2>3, <2>5, <3>1 DEF OnceEach
    <3>3. CallsApart'
      BY <1>i, <2>3, <2>5 DEF CallsApart, Called
    <3> QED BY <1>u, <2>1, <2>2, <2>5, <3>2, <3>3
  <2>6. CASE (CarryOut(q) \/ Refuse(q)) /\ UNCHANGED calling
    <3> HIDE DEF q
    <3>1. /\ carried' \in [Requests -> 0..1] /\ RepliesAreTrue'
          /\ \A r \in Requests : r # q.id => carried'[r] = carried[r]
      BY <1>i, <1>y, <2>1, <2>2, <2>3, <2>6, CarriedOnce DEF CatalogInv
    <3>2. OnceEach'
      BY <1>i, <2>1, <2>2, <2>3, <2>4, <2>6, <3>1 DEF OnceEach, Called
    <3>3. CallsApart'
      BY <1>i, <2>6 DEF CallsApart
    <3> QED BY <2>2, <3>1, <3>2, <3>3
  <2> QED BY <1>4, <2>5, <2>6 DEF TakesRequest
<1>5. ASSUME Reports PROVE Rest
  <2>1. RepliesAreTrue'
    BY <1>5, <1>i DEF Reports, RepliesAreTrue, Says, Idle
  <2> QED BY <1>5, <1>u, <2>1 DEF Reports
<1>6. ASSUME Drops PROVE Rest
  <2>1. asks' = << >> /\ UNCHANGED <<request, calling, carried, writer>>
    BY <1>6 DEF Drops
  <2>2. \A i \in DOMAIN tells' : i \in DOMAIN tells /\ tells'[i] = tells[i]
    BY <1>6, <1>t DEF Drops
  <2>3. RepliesAreTrue'
    BY <1>i, <2>1, <2>2 DEF RepliesAreTrue, Says
  <2>4. /\ \A i \in DOMAIN asks' : FALSE
        /\ \A r \in Requests : ~Asking(r)' /\ (Called(r)' <=> Called(r))
    BY <2>1 DEF Asking, Called
  <2>5. OnceEach'
    BY <1>i, <2>1, <2>4 DEF OnceEach
  <2>6. AsksApart'
    BY <2>4 DEF AsksApart
  <2>7. CallsApart'
    BY <1>i, <2>1 DEF CallsApart
  <2> QED BY <2>3, <2>5, <2>6, <2>7
<1>7. ASSUME Reconnects PROVE Rest
  BY <1>7, <1>u DEF Reconnects
<1>8. ASSUME NEW d \in Devices, Changes(d) PROVE Rest
  <2>1. /\ UNCHANGED <<request, calling, asks, carried, writer>>
        /\ tells' = tells \/ tells' = Append(tells, [type |-> "snapshot", rows |-> home'])
    BY <1>8 DEF Changes
  <2>2. \A i \in DOMAIN tells' : \/ i \in DOMAIN tells /\ tells'[i] = tells[i]
                                 \/ tells'[i].type = "snapshot"
    <3> DEFINE m == [type |-> "snapshot", rows |-> home']
    <3>1. m.type = "snapshot" /\ (tells' = tells \/ tells' = Append(tells, m))
      BY <2>1
    <3> HIDE DEF m
    <3>2. CASE tells' = tells
      BY <3>2
    <3>3. CASE tells' = Append(tells, m)
      BY <1>t, <3>1, <3>3
    <3> QED BY <3>1, <3>2, <3>3
  <2>3. RepliesAreTrue'
    BY <1>i, <2>1, <2>2 DEF RepliesAreTrue, Says
  <2> QED BY <1>u, <2>1, <2>3
<1>9. ASSUME NEW q \in calling, CallReturns(q) \/ CallFails(q) PROVE Rest
  <2>1. /\ q \in Asked /\ q.id \in Requests /\ (CarryOut(q) \/ Refuse(q))
        /\ calling' = calling \ {q} /\ UNCHANGED <<request, asks, writer>>
    BY <1>9, <1>t, AskedParts DEF CallReturns, CallFails
  <2>2. Called(q.id) /\ \A r : Called(r)' => Called(r) /\ r # q.id
    BY <1>i, <2>1 DEF Called, CallsApart
  <2>3. /\ carried[q.id] = 0 /\ ~Asking(q.id) /\ request[q.id].at # "new"
        /\ request[q.id].at # "writing" /\ request[q.id] # Over("ok")
    BY <1>i, <2>1, <2>2 DEF OnceEach
  <2>4. /\ carried' \in [Requests -> 0..1] /\ RepliesAreTrue'
        /\ \A r \in Requests : r # q.id => carried'[r] = carried[r]
    BY <1>i, <1>y, <2>1, <2>3, CarriedOnce DEF CatalogInv
  <2>5. OnceEach'
    BY <1>i, <2>1, <2>2, <2>3, <2>4 DEF OnceEach, Asking
  <2>6. AsksApart' /\ CallsApart'
    BY <1>i, <2>1 DEF AsksApart, CallsApart
  <2> QED BY <2>4, <2>5, <2>6
<1>10. ASSUME NEW r \in Requests, TimesOut(r) \/ WritesAgain(r) PROVE Rest
  <2>1. /\ UNCHANGED <<calling, asks, carried, tells, writer>>
        /\ \/ request' = [request EXCEPT ![r] = Over("offline")]
           \/ request' = [request EXCEPT ![r] = Over("ok")] /\ request[r].at = "writing"
    BY <1>10 DEF TimesOut, WritesAgain
  <2>0. Over("offline") # Over("ok") /\ Over("offline").at = "done" /\ Over("ok").at = "done"
    BY DEF Over
  <2>2. OnceEach'
    <3>1. CASE request' = [request EXCEPT ![r] = Over("offline")]
      BY <1>i, <1>t, <2>0, <2>1, <3>1 DEF OnceEach, Asking, Called
    <3>2. CASE request' = [request EXCEPT ![r] = Over("ok")] /\ request[r].at = "writing"
      BY <1>i, <1>t, <2>0, <2>1, <3>2 DEF OnceEach, Asking, Called
    <3> QED BY <2>1, <3>1, <3>2
  <2>3. AsksApart' /\ CallsApart'
    BY <1>i, <2>1 DEF AsksApart, CallsApart
  <2> QED BY <1>u, <2>1, <2>2, <2>3
<1>11. ASSUME NEW r \in Requests, NEW kind \in Kinds, NEW d \in Devices, Asks(r, kind, d)
       PROVE  Rest
  <2> DEFINE q == [id |-> r, kind |-> kind, device |-> d]
  <2>1. UNCHANGED <<calling, carried, tells, writer>> /\ request[r].at = "new"
    BY <1>11 DEF Asks
  <2>2. carried[r] = 0 /\ ~Asking(r) /\ ~Called(r)
    BY <1>i, <2>1 DEF OnceEach
  <2>3. CASE request' = [request EXCEPT ![r] = Over("offline")] /\ UNCHANGED asks
    <3>1. OnceEach'
      BY <1>i, <1>t, <2>1, <2>3 DEF OnceEach, Asking, Called, Over
    <3>2. AsksApart' /\ CallsApart'
      BY <1>i, <2>1, <2>3 DEF AsksApart, CallsApart
    <3> QED BY <1>u, <2>1, <3>1, <3>2
  <2>4. CASE request' = [request EXCEPT ![r] = [at |-> "waiting"]] /\ asks' = Append(asks, q)
    <3>1. /\ Len(asks) \in Nat /\ DOMAIN asks = 1..Len(asks) /\ DOMAIN asks' = 1..(Len(asks) + 1)
          /\ \A i \in DOMAIN asks : asks'[i] = asks[i]
          /\ asks'[Len(asks) + 1].id = r
      BY <1>t, <2>4
    <3>2. \A i \in DOMAIN asks' : \/ i \in DOMAIN asks /\ asks'[i].id = asks[i].id /\ asks[i].id # r
                                  \/ i = Len(asks) + 1 /\ asks'[i].id = r
      BY <2>2, <3>1 DEF Asking
    <3>3. AsksApart'
      BY <1>i, <3>2 DEF AsksApart
    <3>4. \A k : Asking(k)' => Asking(k) \/ k = r
      BY <3>2 DEF Asking
    <3>5. OnceEach'
      BY <1>i, <1>t, <2>1, <2>2, <2>4, <3>4 DEF OnceEach, Called, Over
    <3>6. CallsApart'
      BY <1>i, <2>1 DEF CallsApart
    <3> QED BY <1>u, <2>1, <3>3, <3>5, <3>6
  <2> QED BY <1>11, <2>3, <2>4 DEF Asks
<1>12. Rest
  BY <1>0, <1>1, <1>2, <1>3, <1>4, <1>5, <1>6, <1>7, <1>8, <1>9, <1>10, <1>11 DEF CatalogNext
<1> QED BY <1>12, <1>y DEF CatalogInv

LEMMA CatalogSound == ASSUME CatalogInv PROVE AnswersAreTrue
BY DEF CatalogInv, OnceEach, AnswersAreTrue

-----------------------------------------------------------------------------
(* The link to Home Assistant.                                             *)

SockRow   == [at : {"none", "connecting", "open", "lost", "closed"}, of : 0..MaxHandles,
              feed : BOOLEAN, up : Seq(Commands), down : Seq(Messages)]
HandleRow == [status : Statuses, snapshotDone : BOOLEAN, subscribed : BOOLEAN, stopped : BOOLEAN,
              known : 0..(MaxChanges + 1), synced : 0..(MaxChanges + 1), sock : 0..MaxSocks,
              waits : BOOLEAN]
StartRow  == [trigger : Triggers, at : 1..(MaxChanges + 1),
              from : 0..(MaxChanges + 1), synced : 0..(MaxChanges + 1)]

HaTyped ==
    /\ house \in Seq(Levels) /\ Len(house) \in 1..(MaxChanges + 1)
    /\ handle \in [Handles -> HandleRow]
    /\ ha \in Handles
    /\ sock \in [Socks -> SockRow]
    /\ shownHa \in Statuses
    /\ starts \subseteq StartRow
    /\ hiccups \in 0..MaxHiccups

IsAuth(m)   == m.type \in {"auth_required", "auth_ok", "auth_invalid"}
IsStates(m) == m.type = "result" /\ m.of.cmd = "states"
IsEvent(m)  == m.type = "event"

Auth      == [cmd |-> "auth"]
GetStates == [cmd |-> "states"]
Subscribe == [cmd |-> "subscribe"]

\* What is on its way over a socket comes in turn: authentication, which is alone;
\* the states, before which nothing arrives; and the events, each newer than those
\* before it, than the states, and than what is known once there are states.
InSession(s, done, known, present) ==
    /\ s.at \in {"none", "connecting", "closed"} => s.down = << >>
    /\ s.at = "connecting" => s.up = << >> /\ ~done
    /\ s.at # "open" => ~s.feed
    /\ s.up \in {<< >>, <<Auth>>, <<GetStates, Subscribe>>, <<Subscribe>>}
    /\ s.up # << >> => ~s.feed
    /\ s.up \in {<<Auth>>, <<GetStates, Subscribe>>} => s.down = << >> /\ ~done
    /\ \A j \in 1..Len(s.down) :
          /\ IsAuth(s.down[j]) => Len(s.down) = 1 /\ s.up = << >> /\ ~s.feed /\ ~done
          /\ IsStates(s.down[j]) => j = 1 /\ ~done /\ s.down[j].at <= present
          /\ IsEvent(s.down[j]) =>
               /\ s.up = << >> /\ s.down[j].at <= present
               /\ done => known < s.down[j].at
               /\ \A i \in 1..(j - 1) : IsStates(s.down[i]) \/ IsEvent(s.down[i])
                      => s.down[i].at < s.down[j].at

\* A socket over which something may still be taken is the one its connector has.
Live(l)  == sock[l].at \in {"connecting", "open", "lost"}
Done(l)  == Live(l) /\ handle[sock[l].of].snapshotDone
Known(l) == IF Live(l) THEN handle[sock[l].of].known ELSE 0

Sessions == \A l \in Socks : InSession(sock[l], Done(l), Known(l), Len(house))

OneSock ==
    /\ \A l \in Socks : Live(l) => sock[l].of \in 1..ha /\ handle[sock[l].of].sock = l
    /\ \A h \in Handles :
          /\ h <= ha => handle[h].sock \in Socks
          /\ h > ha => handle[h] = NewHandle
          /\ handle[h].waits => h <= ha /\ sock[handle[h].sock].at = "closed"

\* What is known was known since the states came.
KnownSince ==
    \A h \in Handles :
        /\ handle[h].synced <= handle[h].known /\ handle[h].known <= Len(house)
        /\ handle[h].status = "ready" => handle[h].snapshotDone

HaInv == HaTyped /\ OneSock /\ Sessions /\ KnownSince /\ StartsAreNews

LEMMA CommandKinds ==
  /\ Auth \in Commands /\ GetStates \in Commands /\ Subscribe \in Commands
  /\ Auth.cmd = "auth" /\ GetStates.cmd = "states" /\ Subscribe.cmd = "subscribe"
BY DEF Auth, GetStates, Subscribe, Commands

\* The commands that wait, and what remains when one is carried out.
LEMMA CommandsInTurn ==
  /\ \A q \in {<< >>, <<Auth>>, <<GetStates, Subscribe>>, <<Subscribe>>} :
        q # << >> =>
          \/ Head(q) = Auth /\ Tail(q) = << >> /\ q = <<Auth>>
          \/ Head(q) = GetStates /\ Tail(q) = <<Subscribe>> /\ q = <<GetStates, Subscribe>>
          \/ Head(q) = Subscribe /\ Tail(q) = << >> /\ q = <<Subscribe>>
  /\ <<Auth>> # << >> /\ <<GetStates, Subscribe>> # << >> /\ <<Subscribe>> # << >>
  /\ <<Subscribe>> \notin {<<Auth>>, <<GetStates, Subscribe>>}
  /\ << >> \o <<Auth>> = <<Auth>> /\ << >> \o <<GetStates, Subscribe>> = <<GetStates, Subscribe>>
<1>1. <<Subscribe>> # <<Auth>>
  <2>1. <<Subscribe>>[1] # <<Auth>>[1]
    BY CommandKinds
  <2> QED BY <2>1
<1> QED BY <1>1

LEMMA MessageParts ==
  ASSUME NEW m \in Messages
  PROVE  /\ m.type \in {"auth_required", "auth_ok", "auth_invalid", "result", "event"}
         /\ m.type = "result" => /\ m.of \in Commands /\ m.ok \in BOOLEAN
                                 /\ m.at \in 0..(MaxChanges + 1)
         /\ m.type = "event" => m.at \in 1..(MaxChanges + 1)
BY DEF Messages

LEMMA SockParts ==
  ASSUME NEW s \in SockRow
  PROVE  /\ s.at \in {"none", "connecting", "open", "lost", "closed"} /\ s.of \in 0..MaxHandles
         /\ s.feed \in BOOLEAN /\ s.up \in Seq(Commands) /\ s.down \in Seq(Messages)
BY DEF SockRow

LEMMA HandleParts ==
  ASSUME NEW x \in HandleRow
  PROVE  /\ x.status \in Statuses /\ x.snapshotDone \in BOOLEAN /\ x.subscribed \in BOOLEAN
         /\ x.stopped \in BOOLEAN /\ x.known \in 0..(MaxChanges + 1)
         /\ x.synced \in 0..(MaxChanges + 1) /\ x.sock \in 0..MaxSocks /\ x.waits \in BOOLEAN
BY DEF HandleRow

\* The present moves on.
LEMMA SessionLater ==
  ASSUME NEW s \in SockRow, NEW d, NEW k, NEW n \in Nat, NEW p \in Nat, n <= p,
         InSession(s, d, k, n)
  PROVE  InSession(s, d, k, p)
<1>1. \A j \in 1..Len(s.down) : /\ IsStates(s.down[j]) => s.down[j].at \in Nat
                                /\ IsEvent(s.down[j]) => s.down[j].at \in Nat
  BY SockParts, MessageParts, HaAssumption DEF IsStates, IsEvent
<1> QED BY <1>1 DEF InSession

\* Before there are states it does not matter what is known.
LEMMA SessionUndone ==
  ASSUME NEW s, NEW d, NEW k, NEW n, NEW e, InSession(s, d, k, n)
  PROVE  InSession(s, FALSE, e, n)
BY DEF InSession

\* A message is taken.
LEMMA SessionTail ==
  ASSUME NEW s \in SockRow, NEW d, NEW k, NEW n, InSession(s, d, k, n), s.down # << >>,
         NEW t \in SockRow, t.at = s.at, t.feed = s.feed, t.up = s.up, t.down = Tail(s.down)
  PROVE  InSession(t, d, k, n)
<1>1. /\ Len(s.down) \in Nat \ {0} /\ Len(t.down) = Len(s.down) - 1
      /\ \A j \in 1..Len(t.down) : /\ j + 1 \in 1..Len(s.down) /\ t.down[j] = s.down[j + 1]
  BY SockParts
<1>0. ASSUME NEW j \in 1..Len(t.down) PROVE j + 1 # 1 /\ Len(s.down) # 1
  <2> DEFINE a == Len(s.down)
             b == Len(t.down)
  <2>1. a \in Nat /\ b = a - 1 /\ j \in 1..b
    BY <1>1
  <2> HIDE DEF a, b
  <2>2. j + 1 # 1 /\ a # 1
    BY <2>1
  <2> QED BY <2>2 DEF a
<1>2. s.at # "connecting" /\ s.at # "none" /\ s.at # "closed"
      /\ s.up \notin {<<Auth>>, <<GetStates, Subscribe>>}
  BY DEF InSession
<1>3. ASSUME NEW j \in 1..Len(t.down)
      PROVE  /\ ~IsAuth(t.down[j]) /\ ~IsStates(t.down[j])
             /\ IsEvent(t.down[j]) =>
                  /\ t.up = << >> /\ t.down[j].at <= n
                  /\ d => k < t.down[j].at
                  /\ \A i \in 1..(j - 1) : IsStates(t.down[i]) \/ IsEvent(t.down[i])
                         => t.down[i].at < t.down[j].at
  <2>1. ~IsAuth(t.down[j]) /\ ~IsStates(t.down[j])
    BY <1>0, <1>1 DEF InSession
  <2>2. \A i \in 1..(j - 1) : /\ i \in 1..Len(t.down) /\ i + 1 \in 1..((j + 1) - 1)
                              /\ t.down[i] = s.down[i + 1]
    BY <1>1
  <2>3. j + 1 \in 1..Len(s.down) /\ t.down[j] = s.down[j + 1]
    BY <1>1
  <2> QED BY <2>1, <2>2, <2>3 DEF InSession
<1> QED BY <1>2, <1>3 DEF InSession

\* The states were taken: everything behind them is newer.
LEMMA SessionStates ==
  ASSUME NEW s \in SockRow, NEW d, NEW k, NEW n, InSession(s, d, k, n), s.down # << >>,
         IsStates(Head(s.down)),
         NEW t \in SockRow, t.at = s.at, t.feed = s.feed, t.up = s.up, t.down = Tail(s.down)
  PROVE  InSession(t, TRUE, Head(s.down).at, n) /\ Head(s.down).at <= n
<1>1. /\ Len(s.down) \in Nat \ {0} /\ Len(t.down) = Len(s.down) - 1
      /\ \A j \in 1..Len(t.down) : /\ j + 1 \in 1..Len(s.down) /\ t.down[j] = s.down[j + 1]
                                   /\ 1 \in 1..((j + 1) - 1)
      /\ Head(s.down) = s.down[1] /\ 1 \in 1..Len(s.down)
  BY SockParts
<1>2. InSession(t, d, k, n)
  BY SessionTail
<1>3. \A j \in 1..Len(t.down) : IsEvent(t.down[j]) => Head(s.down).at < t.down[j].at
  BY <1>1 DEF InSession
<1>4. \A j \in 1..Len(t.down) : ~IsAuth(t.down[j]) /\ ~IsStates(t.down[j])
  <2>1. \A j \in 1..Len(t.down) : j + 1 # 1 /\ Len(s.down) # 1
    BY <1>1
  <2> QED BY <1>1, <2>1 DEF InSession
<1>5. s.at # "connecting" /\ t.up \notin {<<Auth>>, <<GetStates, Subscribe>>}
  BY DEF InSession
<1>6. Head(s.down).at <= n
  BY <1>1 DEF InSession
<1> QED BY <1>2, <1>3, <1>4, <1>5, <1>6 DEF InSession

\* An event was taken: those behind it are newer still.
LEMMA SessionEvent ==
  ASSUME NEW s \in SockRow, NEW d, NEW k, NEW n, InSession(s, d, k, n), s.down # << >>,
         IsEvent(Head(s.down)),
         NEW t \in SockRow, t.at = s.at, t.feed = s.feed, t.up = s.up, t.down = Tail(s.down)
  PROVE  /\ InSession(t, d, Head(s.down).at, n) /\ Head(s.down).at <= n
         /\ d => k < Head(s.down).at
<1>1. /\ Len(s.down) \in Nat \ {0} /\ Len(t.down) = Len(s.down) - 1
      /\ \A j \in 1..Len(t.down) : /\ j + 1 \in 1..Len(s.down) /\ t.down[j] = s.down[j + 1]
                                   /\ 1 \in 1..((j + 1) - 1)
      /\ Head(s.down) = s.down[1] /\ 1 \in 1..Len(s.down)
  BY SockParts
<1>2. InSession(t, d, k, n)
  BY SessionTail
<1>3. \A j \in 1..Len(t.down) : IsEvent(t.down[j]) => Head(s.down).at < t.down[j].at
  BY <1>1 DEF InSession
<1>4. Head(s.down).at <= n /\ (d => k < Head(s.down).at)
  BY <1>1 DEF InSession
<1> QED BY <1>2, <1>3, <1>4 DEF InSession

\* The socket is lost with the end of what was on its way, or closed.
LEMMA SessionLost ==
  ASSUME NEW s \in SockRow, NEW d, NEW k, NEW n, InSession(s, d, k, n),
         NEW c \in 0..Len(s.down),
         NEW t \in SockRow, t.at \in {"lost", "closed"}, ~t.feed, t.up \in {<< >>, s.up},
         t.down = SubSeq(s.down, 1, c), t.at = "closed" => c = 0
  PROVE  InSession(t, d, k, n)
<1>1. /\ Len(s.down) \in Nat /\ Len(t.down) = c
      /\ \A j \in 1..Len(t.down) : j \in 1..Len(s.down) /\ t.down[j] = s.down[j]
      /\ c = 0 => t.down = << >>
  BY SockParts
<1>2. s.down = << >> => t.down = << >>
  BY <1>1, SockParts
<1>3. \A j \in 1..Len(t.down) : IsAuth(t.down[j]) => Len(t.down) = 1
  BY <1>1 DEF InSession
<1>4. ASSUME NEW j \in 1..Len(t.down)
      PROVE  /\ IsAuth(t.down[j]) => Len(t.down) = 1 /\ t.up = << >> /\ ~t.feed /\ ~d
             /\ IsStates(t.down[j]) => j = 1 /\ ~d /\ t.down[j].at <= n
             /\ IsEvent(t.down[j]) =>
                  /\ t.up = << >> /\ t.down[j].at <= n
                  /\ d => k < t.down[j].at
                  /\ \A i \in 1..(j - 1) : IsStates(t.down[i]) \/ IsEvent(t.down[i])
                         => t.down[i].at < t.down[j].at
  <2>1. j \in 1..Len(s.down) /\ t.down[j] = s.down[j]
    BY <1>1
  <2>2. \A i \in 1..(j - 1) : t.down[i] = s.down[i]
    BY <1>1
  <2> QED BY <1>3, <2>1, <2>2 DEF InSession
<1> QED BY <1>1, <1>2, <1>4 DEF InSession

\* A message is sent.
LEMMA SessionAppend ==
  ASSUME NEW s \in SockRow, NEW d, NEW k, NEW n, InSession(s, d, k, n), s.at = "open",
         NEW m \in Messages, NEW t \in SockRow, t.at = "open", t.up \in {s.up, << >>},
         t.up # << >> => ~t.feed,
         t.down = Append(s.down, m),
         ~IsAuth(m), ~IsStates(m), s.up \notin {<<Auth>>, <<GetStates, Subscribe>>},
         \A j \in 1..Len(s.down) : ~IsAuth(s.down[j]),
         IsEvent(m) => /\ s.up = << >> /\ m.at <= n
                       /\ d => k < m.at
                       /\ \A i \in 1..Len(s.down) : IsStates(s.down[i]) \/ IsEvent(s.down[i])
                              => s.down[i].at < m.at
  PROVE  InSession(t, d, k, n)
<1>1. /\ Len(s.down) \in Nat /\ Len(t.down) = Len(s.down) + 1
      /\ \A j \in 1..Len(s.down) : t.down[j] = s.down[j]
      /\ t.down[Len(s.down) + 1] = m
  BY SockParts
<1>2. ASSUME NEW j \in 1..Len(t.down)
      PROVE  /\ ~IsAuth(t.down[j])
             /\ IsStates(t.down[j]) => j = 1 /\ ~d /\ t.down[j].at <= n
             /\ IsEvent(t.down[j]) =>
                  /\ t.up = << >> /\ t.down[j].at <= n
                  /\ d => k < t.down[j].at
                  /\ \A i \in 1..(j - 1) : IsStates(t.down[i]) \/ IsEvent(t.down[i])
                         => t.down[i].at < t.down[j].at
  <2>1. CASE j \in 1..Len(s.down)
    <3>1. \A i \in 1..(j - 1) : t.down[i] = s.down[i]
      BY <1>1, <2>1
    <3>2. t.down[j] = s.down[j]
      BY <1>1, <2>1
    <3> QED BY <2>1, <3>1, <3>2 DEF InSession
  <2>2. CASE j = Len(s.down) + 1
    <3>1. \A i \in 1..(j - 1) : i \in 1..Len(s.down) /\ t.down[i] = s.down[i]
      BY <1>1, <2>2
    <3> QED BY <1>1, <2>2, <3>1
  <2> QED BY <1>1, <2>1, <2>2
<1> QED BY <1>2 DEF InSession

\* A step over socket l: what it leaves of the socket and of its connector.
OverSock(l) ==
    /\ UNCHANGED <<house, ha>>
    /\ \A k \in Socks \ {l} : sock'[k] = sock[k]
    /\ \A g \in Handles \ {sock[l].of} : handle'[g] = handle[g]
    /\ sock'[l].of = sock[l].of /\ sock'[l].at \in {"open", "lost", "closed"}
    /\ LET x == handle'[sock[l].of]
       IN  /\ x.sock = l
           /\ x.waits => sock'[l].at = "closed"
           /\ x.synced <= x.known /\ x.known <= Len(house)
           /\ x.status = "ready" => x.snapshotDone
           /\ InSession(sock'[l], sock'[l].at # "closed" /\ x.snapshotDone, x.known, Len(house))

LEMMA LiveParts ==
  ASSUME HaInv, NEW l \in Socks, Live(l)
  PROVE  /\ sock[l].of \in Handles /\ sock[l].of <= ha /\ handle[sock[l].of].sock = l
         /\ ~handle[sock[l].of].waits
         /\ \A k \in Socks \ {l} : Live(k) => sock[k].of # sock[l].of
         /\ InSession(sock[l], handle[sock[l].of].snapshotDone, handle[sock[l].of].known, Len(house))
<1>1. sock[l].of \in 1..ha /\ handle[sock[l].of].sock = l /\ 1..ha \subseteq Handles
  BY HaAssumption DEF HaInv, OneSock, HaTyped, Handles
<1>2. ~handle[sock[l].of].waits
  BY <1>1 DEF HaInv, OneSock, Live
<1>3. \A k \in Socks \ {l} : Live(k) => sock[k].of # sock[l].of
  BY <1>1 DEF HaInv, OneSock
<1>4. InSession(sock[l], Done(l), Known(l), Len(house))
  BY DEF HaInv, Sessions
<1>5. InSession(sock[l], handle[sock[l].of].snapshotDone, handle[sock[l].of].known, Len(house))
  BY <1>4 DEF Done, Known, InSession
<1>6. ha \in Nat /\ sock[l].of \in Nat
  BY <1>1, HaAssumption DEF HaInv, HaTyped, Handles
<1> QED BY <1>1, <1>2, <1>3, <1>5, <1>6

LEMMA OverSockKeeps ==
  ASSUME HaInv, HaTyped', NEW l \in Socks, Live(l), OverSock(l)
  PROVE  OneSock' /\ Sessions' /\ KnownSince'
<1> DEFINE h == sock[l].of
           x == handle'[h]
<1>1. /\ h \in Handles /\ h <= ha /\ handle[h].sock = l /\ ~handle[h].waits
      /\ \A k \in Socks \ {l} : Live(k) => sock[k].of # h
  BY LiveParts
<1>2. /\ UNCHANGED <<house, ha>>
      /\ \A k \in Socks \ {l} : sock'[k] = sock[k]
      /\ \A g \in Handles \ {h} : handle'[g] = handle[g]
      /\ sock'[l].of = h /\ sock'[l].at \in {"open", "lost", "closed"}
      /\ x.sock = l
      /\ x.waits => sock'[l].at = "closed"
      /\ x.synced <= x.known /\ x.known <= Len(house)
      /\ x.status = "ready" => x.snapshotDone
      /\ InSession(sock'[l], sock'[l].at # "closed" /\ x.snapshotDone, x.known, Len(house))
  BY DEF OverSock
<1>3. OneSock /\ Sessions /\ KnownSince /\ \A k \in Socks : Live(k) => sock[k].of \in Handles
  BY LiveParts DEF HaInv
<1> HIDE DEF h, x
<1>4. OneSock'
  <2>1. ASSUME NEW k \in Socks, Live(k)' PROVE (sock[k].of \in 1..ha /\ handle[sock[k].of].sock = k)'
    <3>1. CASE k = l
      <4>1. h \in 1..ha
        BY <1>1, <1>3 DEF OneSock, h
      <4> QED BY <1>2, <3>1, <4>1 DEF x
    <3>2. CASE k # l
      <4>1. Live(k) /\ sock'[k] = sock[k]
        BY <1>2, <2>1, <3>2 DEF Live
      <4> QED BY <1>1, <1>2, <1>3, <3>2, <4>1 DEF OneSock
    <3> QED BY <3>1, <3>2
  <2>2. ASSUME NEW g \in Handles
        PROVE  (/\ g <= ha => handle[g].sock \in Socks
                /\ g > ha => handle[g] = NewHandle
                /\ handle[g].waits => g <= ha /\ sock[handle[g].sock].at = "closed")'
    <3>1. CASE g = h
      <4>1. h \in Nat /\ ha \in Nat
        BY <1>1, HaAssumption DEF HaInv, HaTyped, Handles
      <4>2. g <= ha' /\ ~(g > ha')
        BY <1>1, <1>2, <3>1, <4>1
      <4> QED BY <1>2, <3>1, <4>2 DEF x
    <3>2. CASE g # h
      <4>1. handle'[g] = handle[g] /\ ha' = ha
        BY <1>2, <3>2
      <4>2. handle[g].waits => g <= ha /\ handle[g].sock \in Socks /\ handle[g].sock # l
        BY <1>3 DEF OneSock, Live
      <4> QED BY <1>2, <1>3, <4>1, <4>2 DEF OneSock
    <3> QED BY <3>1, <3>2
  <2> QED BY <2>1, <2>2 DEF OneSock
<1>5. Sessions'
  <2> SUFFICES ASSUME NEW k \in Socks PROVE InSession(sock[k], Done(k), Known(k), Len(house))'
    BY DEF Sessions
  <2>1. CASE k = l
    <3>1. CASE sock'[l].at = "closed"
      BY <1>2, <2>1, <3>1 DEF InSession, Done, Live, Known
    <3>2. CASE sock'[l].at # "closed"
      BY <1>2, <2>1, <3>2 DEF InSession, Done, Live, Known, x
    <3> QED BY <3>1, <3>2
  <2>2. CASE k # l
    <3>1. sock'[k] = sock[k] /\ house' = house
      BY <1>2, <2>2
    <3>2. Live(k)' <=> Live(k)
      BY <3>1 DEF Live
    <3>3. Live(k) => handle'[sock[k].of] = handle[sock[k].of]
      BY <1>1, <1>2, <1>3, <2>2
    <3>4. InSession(sock[k], Done(k), Known(k), Len(house))
      BY <1>3 DEF Sessions
    <3>5. CASE Live(k)
      BY <3>1, <3>2, <3>3, <3>4, <3>5 DEF InSession, Done, Known
    <3>6. CASE ~Live(k)
      BY <3>1, <3>2, <3>4, <3>6 DEF InSession, Done, Known
    <3> QED BY <3>5, <3>6
  <2> QED BY <2>1, <2>2
<1>6. KnownSince'
  BY <1>2, <1>3 DEF KnownSince, x
<1> QED BY <1>4, <1>5, <1>6

LEMMA ConsumeFields ==
  ASSUME sock \in [Socks -> SockRow], NEW l \in Socks, NEW more \in Seq(Commands),
         sock[l].down # << >>, Consume(l, more)
  PROVE  /\ sock' \in [Socks -> SockRow]
         /\ \A k \in Socks \ {l} : sock'[k] = sock[k]
         /\ sock'[l].at = sock[l].at /\ sock'[l].of = sock[l].of /\ sock'[l].feed = sock[l].feed
         /\ sock'[l].up = sock[l].up \o more /\ sock'[l].down = Tail(sock[l].down)
<1>1. Tail(sock[l].down) \in Seq(Messages) /\ sock[l].up \o more \in Seq(Commands)
  BY SockParts
<1> QED BY <1>1 DEF Consume, SockRow

LEMMA StatusFields ==
  ASSUME handle \in [Handles -> HandleRow], NEW h \in Handles, NEW st \in Statuses,
         SetStatus(h, st)
  PROVE  /\ handle' \in [Handles -> HandleRow] /\ shownHa' \in Statuses
         /\ \A g \in Handles \ {h} : handle'[g] = handle[g]
         /\ handle'[h] = [handle[h] EXCEPT !.status = st]
         /\ handle'[h].status = st /\ handle'[h].sock = handle[h].sock
         /\ handle'[h].waits = handle[h].waits /\ handle'[h].known = handle[h].known
         /\ handle'[h].synced = handle[h].synced
         /\ handle'[h].snapshotDone = handle[h].snapshotDone
BY DEF SetStatus, HandleRow

LEMMA NextSockType ==
  ASSUME SocksLeft PROVE NextSock \in Socks /\ sock[NextSock].at = "none"
<1> DEFINE T == {l \in Socks : sock[l].at = "none"}
<1>1. T \in SUBSET Nat /\ T # {}
  BY HaAssumption DEF SocksLeft, Socks
<1>2. PICK l \in T : \A k \in T : l <= k
  BY <1>1, Least
<1>3. \A k \in 1..(l - 1) : k \in Socks /\ ~(l <= k)
  BY <1>1, HaAssumption DEF Socks
<1>4. l \in Socks /\ sock[l].at = "none" /\ \A k \in 1..(l - 1) : sock[k].at # "none"
  BY <1>2, <1>3
<1> QED BY <1>4 DEF NextSock

LEMMA OpenedFields ==
  ASSUME NEW h \in 0..MaxHandles
  PROVE  /\ Opened(h) \in SockRow /\ NoSock \in SockRow
         /\ Opened(h).at = "connecting" /\ Opened(h).of = h
         /\ Opened(h).up = << >> /\ Opened(h).down = << >> /\ ~Opened(h).feed
         /\ NoSock.at = "none" /\ NoSock.up = << >> /\ NoSock.down = << >> /\ ~NoSock.feed
<1>1. 0 \in 0..MaxHandles /\ << >> \in Seq(Commands) /\ << >> \in Seq(Messages)
  BY HaAssumption
<1>2. NoSock \in SockRow
  BY <1>1 DEF NoSock, SockRow
<1>3. NoSock.at = "none" /\ NoSock.up = << >> /\ NoSock.down = << >> /\ ~NoSock.feed
  BY DEF NoSock
<1>4. /\ Opened(h) \in SockRow
      /\ Opened(h).at = "connecting" /\ Opened(h).of = h /\ Opened(h).up = NoSock.up
      /\ Opened(h).down = NoSock.down /\ Opened(h).feed = NoSock.feed
  BY <1>2 DEF Opened, SockRow
<1> QED BY <1>2, <1>3, <1>4

LEMMA HaStarts == HaInit => HaInv
<1> SUFFICES ASSUME HaInit PROVE HaInv
  OBVIOUS
<1>1. /\ 1 \in Handles /\ 1 \in Socks /\ 0 \in 0..MaxHandles /\ 1 \in 0..MaxHandles
      /\ 0 \in 0..MaxSocks /\ 1 \in 0..MaxSocks /\ 0 \in 0..(MaxChanges + 1) /\ 0 \in 0..MaxHiccups
      /\ Handles \in SUBSET Nat /\ 1 \in 1..(MaxChanges + 1) /\ "connecting" \in Statuses
      /\ \A h \in Handles : h <= 1 => h = 1
  BY HaAssumption DEF Handles, Socks, Statuses
<1>2. NewHandle \in HandleRow /\ [NewHandle EXCEPT !.sock = 1] \in HandleRow
  BY <1>1 DEF NewHandle, HandleRow
<1>3. NoSock \in SockRow /\ Opened(1) \in SockRow
  BY <1>1, OpenedFields
<1>4. house \in Seq(Levels) /\ Len(house) = 1
  <2>1. [state |-> 1, bright |-> 0] \in Levels
    BY DEF Levels, Nothing
  <2> QED BY <2>1 DEF HaInit
<1>5. HaTyped
  BY <1>1, <1>2, <1>3, <1>4 DEF HaInit, HaTyped
<1>6. /\ \A l \in Socks : sock[l] = IF l = 1 THEN Opened(1) ELSE NoSock
      /\ \A h \in Handles : handle[h] = IF h = 1 THEN [NewHandle EXCEPT !.sock = 1] ELSE NewHandle
      /\ ha = 1
  BY DEF HaInit
<1> DEFINE x1 == [NewHandle EXCEPT !.sock = 1]
<1>7. /\ \A x \in {NewHandle, x1} :
            x.status = "connecting" /\ ~x.snapshotDone /\ x.known = 0 /\ x.synced = 0 /\ ~x.waits
      /\ x1.sock = 1
  BY DEF NewHandle
<1> HIDE DEF x1
<1>8. /\ \A h \in Handles : handle[h] \in {NewHandle, x1} /\ (h # 1 => handle[h] = NewHandle)
      /\ handle[1].sock = 1
  BY <1>1, <1>6, <1>7 DEF x1
<1>12. \A l \in Socks : sock[l] = NoSock \/ (l = 1 /\ sock[l] = Opened(1))
  BY <1>6
<1>13. ASSUME NEW l \in Socks PROVE Live(l) => l = 1 /\ sock[l].of = 1
  <2>1. CASE sock[l] = NoSock
    <3>1. sock[l].at = "none"
      BY <1>1, <2>1, OpenedFields
    <3> QED BY <3>1 DEF Live
  <2>2. CASE l = 1 /\ sock[l] = Opened(1)
    <3>1. sock[l].of = 1
      BY <1>1, <2>2, OpenedFields
    <3> QED BY <2>2, <3>1
  <2> QED BY <1>12, <2>1, <2>2
<1>14. ASSUME NEW l \in Socks
       PROVE  /\ sock[l].down = << >> /\ sock[l].up = << >> /\ ~sock[l].feed
              /\ sock[l].at \in {"none", "connecting"}
  <2>1. CASE sock[l] = NoSock
    BY <1>1, <2>1, OpenedFields
  <2>2. CASE sock[l] = Opened(1)
    BY <1>1, <2>2, OpenedFields
  <2> QED BY <1>12, <2>1, <2>2
<1>9. OneSock
  <2>1. ASSUME NEW h \in Handles
        PROVE  /\ h <= ha => handle[h].sock \in Socks
               /\ h > ha => handle[h] = NewHandle
               /\ ~handle[h].waits
    <3>1. ~handle[h].waits
      BY <1>7, <1>8
    <3>2. CASE h = 1
      BY <1>1, <1>6, <1>8, <3>1, <3>2
    <3>3. CASE h # 1
      <4>1. ~(h <= ha)
        BY <1>1, <1>6, <3>3
      <4> QED BY <1>8, <3>1, <3>3, <4>1
    <3> QED BY <3>2, <3>3
  <2>2. ASSUME NEW l \in Socks, Live(l) PROVE sock[l].of \in 1..ha /\ handle[sock[l].of].sock = l
    <3>1. l = 1 /\ sock[l].of = 1
      BY <1>13, <2>2
    <3>2. 1 \in 1..ha
      BY <1>6
    <3> QED BY <1>8, <3>1, <3>2
  <2> QED BY <2>1, <2>2 DEF OneSock
<1>10. Sessions
  <2> SUFFICES ASSUME NEW l \in Socks PROVE InSession(sock[l], Done(l), Known(l), Len(house))
    BY DEF Sessions
  <2>1. ~Done(l)
    <3>1. CASE Live(l)
      <4>1. sock[l].of = 1 /\ ~handle[1].snapshotDone
        BY <1>1, <1>7, <1>8, <1>13, <3>1
      <4> QED BY <4>1 DEF Done
    <3>2. CASE ~Live(l)
      BY <3>2 DEF Done
    <3> QED BY <3>1, <3>2
  <2>2. /\ sock[l].down = << >> /\ sock[l].up = << >> /\ ~sock[l].feed
        /\ \A j \in 1..Len(sock[l].down) : FALSE
    <3>1. sock[l].down = << >> /\ sock[l].up = << >> /\ ~sock[l].feed
      BY <1>14
    <3>2. \A j \in 1..Len(<< >>) : FALSE
      OBVIOUS
    <3> QED BY <3>1, <3>2
  <2> QED BY <1>14, <2>1, <2>2 DEF InSession
<1>11. KnownSince
  <2>1. \A h \in Handles : handle[h].known = 0 /\ handle[h].synced = 0 /\ handle[h].status # "ready"
    BY <1>7, <1>8
  <2> QED BY <1>4, <2>1 DEF KnownSince
<1> QED BY <1>5, <1>9, <1>10, <1>11 DEF HaInv, HaInit, StartsAreNews

\* Only the socket moves.
LEMMA LinkOnly ==
  ASSUME HaInv, NEW l \in Socks, Live(l), UNCHANGED <<house, ha, handle>>,
         \A k \in Socks \ {l} : sock'[k] = sock[k],
         sock'[l].of = sock[l].of, sock'[l].at \in {"open", "lost"},
         InSession(sock'[l], handle[sock[l].of].snapshotDone, handle[sock[l].of].known, Len(house))
  PROVE  OverSock(l)
<1>1. sock[l].of \in Handles /\ handle[sock[l].of].sock = l /\ ~handle[sock[l].of].waits
  BY LiveParts
<1>2. \A g \in Handles : handle'[g] = handle[g]
  OBVIOUS
<1>3. sock'[l].at # "closed"
  OBVIOUS
<1>4. LET x == handle[sock[l].of]
      IN  x.synced <= x.known /\ x.known <= Len(house) /\ (x.status = "ready" => x.snapshotDone)
  BY <1>1 DEF HaInv, KnownSince
<1>5. InSession(sock'[l], sock'[l].at # "closed" /\ handle[sock[l].of].snapshotDone,
                handle[sock[l].of].known, Len(house))
  BY <1>3 DEF InSession
<1>6. handle' = handle /\ house' = house /\ ha' = ha
  OBVIOUS
<1> QED BY <1>1, <1>2, <1>4, <1>5, <1>6 DEF OverSock

LEMMA AcceptedKeeps ==
  ASSUME HaInv, NEW l \in Socks, Accepted(l)
  PROVE  HaTyped' /\ Live(l) /\ OverSock(l) /\ starts' = starts
<1> DEFINE h == sock[l].of
           m == [type |-> "auth_required"]
           t == sock'[l]
<1>1. Live(l)
  BY DEF Accepted, Live
<1>2. InSession(sock[l], handle[h].snapshotDone, handle[h].known, Len(house))
  BY <1>1, LiveParts
<1>3. m \in Messages /\ IsAuth(m) /\ ~IsStates(m) /\ ~IsEvent(m) /\ <<m>> \in Seq(Messages)
  <2>1. m \in Messages /\ m.type = "auth_required"
    BY DEF Messages
  <2> QED BY <2>1 DEF IsAuth, IsStates, IsEvent
<1>4. sock \in [Socks -> SockRow] /\ sock[l] \in SockRow
  BY DEF HaInv, HaTyped
<1>5. sock' = [sock EXCEPT ![l].at = "open", ![l].down = <<m>>]
  BY DEF Accepted
<1> HIDE DEF m
<1>6. /\ sock' \in [Socks -> SockRow] /\ \A k \in Socks \ {l} : sock'[k] = sock[k]
      /\ t.at = "open" /\ t.of = h /\ t.down = <<m>> /\ t.up = sock[l].up /\ t.feed = sock[l].feed
  BY <1>3, <1>4, <1>5 DEF SockRow
<1> HIDE DEF t, h
<1>7. t.up = << >> /\ ~t.feed /\ ~handle[h].snapshotDone
  BY <1>2, <1>6 DEF InSession, Accepted
<1>8. Len(t.down) = 1 /\ \A j \in 1..Len(t.down) : t.down[j] = m
  BY <1>6
<1>9. InSession(t, handle[h].snapshotDone, handle[h].known, Len(house))
  BY <1>3, <1>6, <1>7, <1>8, CommandsInTurn DEF InSession
<1>10. UNCHANGED <<house, handle, ha, shownHa, starts, hiccups>>
  BY DEF Accepted
<1>11. HaTyped'
  BY <1>6, <1>10 DEF HaInv, HaTyped
<1>12. OverSock(l)
  BY <1>1, <1>6, <1>9, <1>10, LinkOnly DEF t, h
<1> QED BY <1>1, <1>10, <1>11, <1>12

LEMMA ServesKeeps ==
  ASSUME HaInv, NEW l \in Socks, Serves(l)
  PROVE  HaTyped' /\ Live(l) /\ OverSock(l) /\ starts' = starts
<1> DEFINE h == sock[l].of
           t == sock'[l]
           c == Head(sock[l].up)
<1>1. Live(l) /\ sock[l].at = "open" /\ sock[l].up # << >>
  BY DEF Serves, Live
<1>2. InSession(sock[l], handle[h].snapshotDone, handle[h].known, Len(house))
  BY <1>1, LiveParts
<1>3. sock \in [Socks -> SockRow] /\ sock[l] \in SockRow /\ Len(house) \in 0..(MaxChanges + 1)
      /\ hiccups \in 0..MaxHiccups
  BY DEF HaInv, HaTyped
<1>4. PICK ok \in (IF hiccups < MaxHiccups THEN BOOLEAN ELSE {TRUE}) :
        LET answer == IF c.cmd = "auth" THEN [type |-> IF ok THEN "auth_ok" ELSE "auth_invalid"]
                      ELSE [type |-> "result", of |-> c, ok |-> ok,
                            at |-> IF c.cmd = "states" THEN Len(house) ELSE 0]
        IN  /\ sock' = [sock EXCEPT ![l].up = Tail(@), ![l].down = Append(@, answer),
                                    ![l].feed = @ \/ (c.cmd = "subscribe" /\ ok)]
            /\ hiccups' = IF ok THEN hiccups ELSE hiccups + 1
  BY DEF Serves
<1> DEFINE answer == IF c.cmd = "auth" THEN [type |-> IF ok THEN "auth_ok" ELSE "auth_invalid"]
                     ELSE [type |-> "result", of |-> c, ok |-> ok,
                           at |-> IF c.cmd = "states" THEN Len(house) ELSE 0]
           f == sock[l].feed \/ (c.cmd = "subscribe" /\ ok)
<1>5. c \in Commands /\ Tail(sock[l].up) \in Seq(Commands) /\ ok \in BOOLEAN /\ f \in BOOLEAN
  <2>1. sock[l].up \in Seq(Commands) /\ sock[l].up # << >>
    BY <1>1, <1>3, SockParts
  <2>2. c \in Commands /\ Tail(sock[l].up) \in Seq(Commands)
    BY <2>1
  <2>3. ok \in BOOLEAN
    BY <1>4
  <2>4. f \in BOOLEAN
    OBVIOUS
  <2> QED BY <2>2, <2>3, <2>4
<1>6. answer \in Messages
  <2>1. CASE c.cmd = "auth"
    BY <2>1 DEF Messages
  <2>2. CASE c.cmd # "auth"
    <3>1. (IF c.cmd = "states" THEN Len(house) ELSE 0) \in 0..(MaxChanges + 1)
      <4>1. 0 \in 0..(MaxChanges + 1)
        BY HaAssumption
      <4> QED BY <1>3, <4>1
    <3> DEFINE p == IF c.cmd = "states" THEN Len(house) ELSE 0
    <3>2. answer = [type |-> "result", of |-> c, ok |-> ok, at |-> p]
      BY <2>2
    <3>3. c \in Commands /\ ok \in BOOLEAN /\ p \in 0..(MaxChanges + 1)
      BY <1>5, <3>1
    <3> HIDE DEF answer, p, c
    <3> QED BY <3>2, <3>3 DEF Messages
  <2> QED BY <2>1, <2>2
<1>7. /\ c.cmd = "auth" => IsAuth(answer) /\ ~IsStates(answer) /\ ~IsEvent(answer)
      /\ c.cmd = "states" => ~IsAuth(answer) /\ IsStates(answer) /\ ~IsEvent(answer)
                             /\ answer.at = Len(house)
      /\ c.cmd = "subscribe" => ~IsAuth(answer) /\ ~IsStates(answer) /\ ~IsEvent(answer)
  <2>1. c.cmd = "auth" => answer.type \in {"auth_ok", "auth_invalid"}
    OBVIOUS
  <2>2. c.cmd # "auth" => answer.type = "result" /\ answer.of = c
                          /\ answer.at = IF c.cmd = "states" THEN Len(house) ELSE 0
    OBVIOUS
  <2> HIDE DEF answer, c
  <2> QED BY <2>1, <2>2 DEF IsAuth, IsStates, IsEvent
<1>8. sock' = [sock EXCEPT ![l].up = Tail(@), ![l].down = Append(@, answer), ![l].feed = f]
  BY <1>4
<1> HIDE DEF answer, f
<1>9. Append(sock[l].down, answer) \in Seq(Messages)
  BY <1>3, <1>6, SockParts
<1>10. /\ sock' \in [Socks -> SockRow] /\ \A k \in Socks \ {l} : sock'[k] = sock[k]
       /\ t.at = sock[l].at /\ t.of = h /\ t.down = Append(sock[l].down, answer)
       /\ t.up = Tail(sock[l].up) /\ t.feed = f
  BY <1>3, <1>5, <1>8, <1>9 DEF SockRow
<1>11. t \in SockRow /\ sock[l].down \in Seq(Messages)
  BY <1>3, <1>10, SockParts
<1>12. \/ c = Auth /\ t.up = << >> /\ sock[l].up = <<Auth>>
       \/ c = GetStates /\ t.up = <<Subscribe>> /\ sock[l].up = <<GetStates, Subscribe>>
       \/ c = Subscribe /\ t.up = << >> /\ sock[l].up = <<Subscribe>>
  BY <1>1, <1>2, <1>10, CommandsInTurn DEF InSession
<1>13. ~sock[l].feed
  BY <1>1, <1>2 DEF InSession
<1> HIDE DEF t, h, c
<1>14. InSession(t, handle[h].snapshotDone, handle[h].known, Len(house))
  <2>1. CASE c \in {Auth, GetStates}
    <3>1. sock[l].down = << >> /\ ~handle[h].snapshotDone
      BY <1>2, <1>12, <2>1, CommandsInTurn, CommandKinds DEF InSession
    <3>2. ~f
      BY <1>13, <2>1, CommandKinds DEF f
    <3>3. Len(t.down) = 1 /\ \A j \in 1..Len(t.down) : j = 1 /\ t.down[j] = answer
      BY <1>10, <3>1
    <3>4. t.up \in {<< >>, <<Subscribe>>} /\ t.at = "open"
      BY <1>1, <1>10, <1>12, <2>1, CommandKinds
    <3>5. \A j \in 1..(1 - 1) : FALSE
      OBVIOUS
    <3>6. CASE c = Auth
      <4>1. t.up = << >>
        BY <1>12, <3>6, CommandKinds
      <4> QED BY <1>7, <1>10, <3>1, <3>2, <3>3, <3>4, <3>6, <4>1, CommandsInTurn, CommandKinds
               DEF InSession
    <3>7. CASE c = GetStates
      <4>1. Len(house) <= Len(house)
        BY <1>3
      <4> QED BY <1>7, <1>10, <3>1, <3>2, <3>3, <3>4, <3>7, <4>1, CommandsInTurn, CommandKinds
               DEF InSession
    <3> QED BY <2>1, <3>6, <3>7
  <2>2. CASE c = Subscribe
    <3>1. /\ ~IsAuth(answer) /\ ~IsStates(answer) /\ ~IsEvent(answer)
          /\ t.up = << >> /\ sock[l].up = <<Subscribe>>
      BY <1>7, <1>12, <2>2, CommandKinds
    <3>2. sock[l].up \notin {<<Auth>>, <<GetStates, Subscribe>>} /\ sock[l].up # << >>
      BY <3>1, CommandsInTurn
    <3>3. \A j \in 1..Len(sock[l].down) : ~IsAuth(sock[l].down[j])
      BY <1>2, <3>2 DEF InSession
    <3> QED BY <1>1, <1>2, <1>3, <1>6, <1>10, <1>11, <3>1, <3>2, <3>3, SessionAppend
  <2> QED BY <1>12, <2>1, <2>2
<1>15. UNCHANGED <<house, handle, ha, shownHa, starts>>
  BY DEF Serves
<1>16. hiccups' \in 0..MaxHiccups
  <2>1. CASE ok
    BY <1>3, <1>4, <2>1
  <2>2. CASE ~ok
    <3>1. hiccups < MaxHiccups
      BY <1>4, <2>2
    <3> QED BY <1>3, <1>4, <2>2, <3>1, HaAssumption
  <2> QED BY <2>1, <2>2
<1>17. HaTyped'
  BY <1>10, <1>15, <1>16 DEF HaInv, HaTyped
<1>18. OverSock(l)
  BY <1>1, <1>10, <1>14, <1>15, LinkOnly DEF t, h
<1> QED BY <1>1, <1>15, <1>17, <1>18

LEMMA LosesSockKeeps ==
  ASSUME HaInv, NEW l \in Socks, LosesSock(l)
  PROVE  HaTyped' /\ Live(l) /\ OverSock(l) /\ starts' = starts
<1> DEFINE h == sock[l].of
           t == sock'[l]
<1>1. Live(l)
  BY DEF LosesSock, Live
<1>2. InSession(sock[l], handle[h].snapshotDone, handle[h].known, Len(house))
  BY <1>1, LiveParts
<1>3. sock \in [Socks -> SockRow] /\ sock[l] \in SockRow /\ hiccups \in 0..MaxHiccups
      /\ sock[l].down \in Seq(Messages)
  BY SockParts DEF HaInv, HaTyped
<1>4. PICK n \in 0..Len(sock[l].down) :
        sock' = [sock EXCEPT ![l].at = "lost", ![l].feed = FALSE, ![l].up = << >>,
                             ![l].down = SubSeq(@, 1, n)]
  BY DEF LosesSock
<1>5. SubSeq(sock[l].down, 1, n) \in Seq(Messages) /\ << >> \in Seq(Commands)
  BY <1>3
<1>6. PICK b : b = FALSE
  OBVIOUS
<1>7. sock' = [sock EXCEPT ![l].at = "lost", ![l].feed = b, ![l].up = << >>,
                           ![l].down = SubSeq(@, 1, n)]
  BY <1>4, <1>6, Zenon
<1>8. b \in BOOLEAN
  BY <1>6
<1>9. /\ sock' \in [Socks -> SockRow] /\ \A k \in Socks \ {l} : sock'[k] = sock[k]
      /\ t.at = "lost" /\ t.of = h /\ t.feed = b /\ t.up = << >>
      /\ t.down = SubSeq(sock[l].down, 1, n)
  BY <1>3, <1>5, <1>7, <1>8 DEF SockRow
<1>10. t \in SockRow /\ ~t.feed
  BY <1>6, <1>9
<1> HIDE DEF t, h
<1>11. InSession(t, handle[h].snapshotDone, handle[h].known, Len(house))
  BY <1>2, <1>3, <1>9, <1>10, SessionLost
<1>12. UNCHANGED <<house, handle, ha, shownHa, starts>> /\ hiccups' \in 0..MaxHiccups
  BY <1>3, HaAssumption DEF LosesSock
<1>13. HaTyped'
  BY <1>9, <1>12 DEF HaInv, HaTyped
<1>14. OverSock(l)
  BY <1>1, <1>9, <1>11, <1>12, LinkOnly DEF t, h
<1> QED BY <1>1, <1>12, <1>13, <1>14

LEMMA TailOfOne ==
  ASSUME NEW S, NEW q \in Seq(S), Len(q) = 1
  PROVE  Tail(q) = << >>
<1>1. Tail(q) \in Seq(S) /\ Len(Tail(q)) = 0
  <2>1. q # << >>
    OBVIOUS
  <2> QED BY <2>1
<1> QED BY <1>1, EmptySeq

\* The connector is told something over its socket: the socket and the connector move.
LEMMA TakingMoves ==
  ASSUME HaInv, NEW l \in Socks, Live(l), UNCHANGED <<house, ha, hiccups>>,
         sock' \in [Socks -> SockRow], handle' \in [Handles -> HandleRow], shownHa' \in Statuses,
         \A k \in Socks \ {l} : sock'[k] = sock[k],
         \A g \in Handles \ {sock[l].of} : handle'[g] = handle[g],
         sock'[l].of = sock[l].of, sock'[l].at \in {"open", "lost", "closed"},
         handle'[sock[l].of].sock = l,
         handle'[sock[l].of].waits => sock'[l].at = "closed",
         handle'[sock[l].of].synced <= handle'[sock[l].of].known,
         handle'[sock[l].of].known <= Len(house),
         handle'[sock[l].of].status = "ready" => handle'[sock[l].of].snapshotDone,
         InSession(sock'[l], sock'[l].at # "closed" /\ handle'[sock[l].of].snapshotDone,
                   handle'[sock[l].of].known, Len(house)),
         starts' \subseteq StartRow
  PROVE  HaTyped' /\ OverSock(l)
<1>1. HaTyped'
  BY DEF HaInv, HaTyped
<1>2. OverSock(l)
  BY DEF OverSock
<1> QED BY <1>1, <1>2

\* What is known of a socket something may be taken from.
LEMMA TakenFrom ==
  ASSUME HaInv, NEW l \in Socks, sock[l].down # << >>
  PROVE  /\ Live(l) /\ sock[l].at \in {"open", "lost"} /\ sock[l].of \in Handles
         /\ InSession(sock[l], handle[sock[l].of].snapshotDone, handle[sock[l].of].known, Len(house))
         /\ handle[sock[l].of].sock = l /\ ~handle[sock[l].of].waits
         /\ handle[sock[l].of].synced <= handle[sock[l].of].known
         /\ handle[sock[l].of].known <= Len(house)
         /\ handle[sock[l].of].status = "ready" => handle[sock[l].of].snapshotDone
         /\ sock \in [Socks -> SockRow] /\ sock[l] \in SockRow /\ handle \in [Handles -> HandleRow]
         /\ starts \subseteq StartRow /\ shownHa \in Statuses
         /\ sock[l].down \in Seq(Messages) /\ sock[l].up \in Seq(Commands)
         /\ Head(sock[l].down) = sock[l].down[1] /\ 1 \in 1..Len(sock[l].down)
         /\ Head(sock[l].down) \in Messages
<1>1. InSession(sock[l], Done(l), Known(l), Len(house))
  BY DEF HaInv, Sessions
<1>2. sock \in [Socks -> SockRow] /\ sock[l] \in SockRow /\ handle \in [Handles -> HandleRow]
      /\ starts \subseteq StartRow /\ shownHa \in Statuses
  BY DEF HaInv, HaTyped
<1>3. sock[l].at \in {"open", "lost"}
  BY <1>1, <1>2, SockParts DEF InSession
<1>4. Live(l)
  BY <1>3 DEF Live
<1>5. sock[l].down \in Seq(Messages) /\ sock[l].up \in Seq(Commands)
  BY <1>2, SockParts
<1>6. /\ Head(sock[l].down) = sock[l].down[1] /\ 1 \in 1..Len(sock[l].down)
      /\ Head(sock[l].down) \in Messages
  BY <1>5
<1>7. sock[l].of \in Handles /\ handle[sock[l].of].sock = l /\ ~handle[sock[l].of].waits
      /\ InSession(sock[l], handle[sock[l].of].snapshotDone, handle[sock[l].of].known, Len(house))
  BY <1>4, LiveParts
<1>8. /\ handle[sock[l].of].synced <= handle[sock[l].of].known
      /\ handle[sock[l].of].known <= Len(house)
      /\ handle[sock[l].of].status = "ready" => handle[sock[l].of].snapshotDone
  BY <1>7 DEF HaInv, KnownSince
<1> QED BY <1>2, <1>3, <1>4, <1>5, <1>6, <1>7, <1>8

\* A message of the authentication is alone, and answered by the commands that follow.
LEMMA AuthStep ==
  ASSUME HaInv, NEW l \in Socks, sock[l].down # << >>, IsAuth(Head(sock[l].down)),
         NEW st \in Statuses \ {"ready"}, SetStatus(sock[l].of, st),
         NEW more \in {<<Auth>>, <<GetStates, Subscribe>>}, Consume(l, more),
         UNCHANGED <<house, ha, starts, hiccups>>
  PROVE  HaTyped' /\ Live(l) /\ OverSock(l) /\ starts' = starts
<1> DEFINE h == sock[l].of
           t == sock'[l]
           x == handle'[h]
<1>1. /\ Live(l) /\ sock[l].at \in {"open", "lost"} /\ h \in Handles
      /\ InSession(sock[l], handle[h].snapshotDone, handle[h].known, Len(house))
      /\ handle[h].sock = l /\ ~handle[h].waits
      /\ handle[h].synced <= handle[h].known /\ handle[h].known <= Len(house)
      /\ sock \in [Socks -> SockRow] /\ handle \in [Handles -> HandleRow]
      /\ starts \subseteq StartRow
      /\ sock[l].down \in Seq(Messages) /\ sock[l].up \in Seq(Commands)
      /\ Head(sock[l].down) = sock[l].down[1] /\ 1 \in 1..Len(sock[l].down)
  BY TakenFrom
<1>2. Len(sock[l].down) = 1 /\ sock[l].up = << >> /\ ~sock[l].feed /\ ~handle[h].snapshotDone
  BY <1>1 DEF InSession
<1>3. more \in Seq(Commands) /\ more \in {<<Auth>>, <<GetStates, Subscribe>>}
      /\ << >> \o more = more
  <2>1. <<Auth>> \in Seq(Commands) /\ <<GetStates, Subscribe>> \in Seq(Commands)
    BY CommandKinds
  <2> QED BY <2>1, CommandsInTurn
<1>4. /\ sock' \in [Socks -> SockRow] /\ \A k \in Socks \ {l} : sock'[k] = sock[k]
      /\ t.at = sock[l].at /\ t.of = h /\ t.feed = sock[l].feed
      /\ t.up = sock[l].up \o more /\ t.down = Tail(sock[l].down)
  BY <1>1, <1>3, ConsumeFields
<1>5. Tail(sock[l].down) = << >>
  BY <1>1, <1>2, TailOfOne
<1>6. /\ handle' \in [Handles -> HandleRow] /\ shownHa' \in Statuses
      /\ \A g \in Handles \ {h} : handle'[g] = handle[g]
      /\ x.status = st /\ x.sock = handle[h].sock
      /\ x.waits = handle[h].waits /\ x.known = handle[h].known
      /\ x.synced = handle[h].synced /\ x.snapshotDone = handle[h].snapshotDone
  BY <1>1, StatusFields
<1> HIDE DEF t, x, h
<1>7. \A j \in 1..Len(t.down) : FALSE
  BY <1>4, <1>5
<1>8. InSession(t, t.at # "closed" /\ x.snapshotDone, x.known, Len(house))
  <2>1. ~x.snapshotDone
    BY <1>2, <1>6
  <2> QED BY <1>1, <1>2, <1>3, <1>4, <1>5, <1>7, <2>1 DEF InSession
<1>9. x.waits = FALSE
  BY <1>1, <1>6, HandleParts
<1>10. /\ x.sock = l /\ x.status # "ready"
       /\ x.synced <= x.known /\ x.known <= Len(house) /\ t.at \in {"open", "lost", "closed"}
  BY <1>1, <1>4, <1>6
<1>11. HaTyped' /\ OverSock(l)
  BY <1>1, <1>4, <1>6, <1>8, <1>9, <1>10, TakingMoves DEF h, t, x
<1> QED BY <1>1, <1>11

LEMMA TakesAuthRequiredKeeps ==
  ASSUME HaInv, NEW l \in Socks, TakesAuthRequired(l)
  PROVE  HaTyped' /\ Live(l) /\ OverSock(l) /\ starts' = starts
<1>1. sock[l].down # << >> /\ IsAuth(Head(sock[l].down))
  BY DEF TakesAuthRequired, IsAuth
<1>2. "authenticating" \in Statuses \ {"ready"} /\ SetStatus(sock[l].of, "authenticating")
  BY DEF TakesAuthRequired, Statuses
<1>3. Consume(l, <<Auth>>) /\ UNCHANGED <<house, ha, starts, hiccups>>
  BY DEF TakesAuthRequired, Auth
<1> QED BY <1>1, <1>2, <1>3, AuthStep

LEMMA TakesAuthOkKeeps ==
  ASSUME HaInv, NEW l \in Socks, TakesAuthOk(l)
  PROVE  HaTyped' /\ Live(l) /\ OverSock(l) /\ starts' = starts
<1>1. sock[l].down # << >> /\ IsAuth(Head(sock[l].down))
  BY DEF TakesAuthOk, IsAuth
<1>2. "synchronizing" \in Statuses \ {"ready"} /\ SetStatus(sock[l].of, "synchronizing")
  BY DEF TakesAuthOk, Statuses
<1>3. Consume(l, <<GetStates, Subscribe>>) /\ UNCHANGED <<house, ha, starts, hiccups>>
  BY DEF TakesAuthOk, GetStates, Subscribe
<1> QED BY <1>1, <1>2, <1>3, AuthStep

LEMMA TakesAuthInvalidKeeps ==
  ASSUME HaInv, NEW l \in Socks, TakesAuthInvalid(l)
  PROVE  HaTyped' /\ Live(l) /\ OverSock(l) /\ starts' = starts
<1> DEFINE h == sock[l].of
           t == sock'[l]
           x == handle'[h]
<1>0. sock[l].down # << >> /\ UNCHANGED <<house, ha, starts, hiccups>> /\ SetStatus(h, "error")
      /\ "error" \in Statuses
  BY DEF TakesAuthInvalid, Statuses
<1>1. /\ Live(l) /\ h \in Handles
      /\ InSession(sock[l], handle[h].snapshotDone, handle[h].known, Len(house))
      /\ handle[h].sock = l /\ ~handle[h].waits
      /\ handle[h].synced <= handle[h].known /\ handle[h].known <= Len(house)
      /\ sock \in [Socks -> SockRow] /\ sock[l] \in SockRow /\ handle \in [Handles -> HandleRow]
      /\ starts \subseteq StartRow /\ sock[l].down \in Seq(Messages)
  BY <1>0, TakenFrom
<1>2. PICK b : b = FALSE
  OBVIOUS
<1>3. sock' = [sock EXCEPT ![l].at = "closed", ![l].up = << >>, ![l].down = << >>, ![l].feed = b]
  BY <1>2, Zenon DEF TakesAuthInvalid
<1>4. b \in BOOLEAN /\ << >> \in Seq(Commands) /\ << >> \in Seq(Messages)
  <2>1. b \in BOOLEAN
    BY <1>2
  <2>2. << >> \in Seq(Commands) /\ << >> \in Seq(Messages)
    OBVIOUS
  <2> QED BY <2>1, <2>2
<1>5. /\ sock' \in [Socks -> SockRow] /\ \A k \in Socks \ {l} : sock'[k] = sock[k]
      /\ t.at = "closed" /\ t.of = h /\ t.feed = b /\ t.up = << >> /\ t.down = << >>
  BY <1>1, <1>3, <1>4 DEF SockRow
<1>6. /\ handle' \in [Handles -> HandleRow] /\ shownHa' \in Statuses
      /\ \A g \in Handles \ {h} : handle'[g] = handle[g]
      /\ x.status = "error" /\ x.sock = handle[h].sock
      /\ x.waits = handle[h].waits /\ x.known = handle[h].known
      /\ x.synced = handle[h].synced /\ x.snapshotDone = handle[h].snapshotDone
  BY <1>0, <1>1, StatusFields
<1> HIDE DEF t, x, h
<1>7. InSession(t, t.at # "closed" /\ x.snapshotDone, x.known, Len(house))
  <2>1. ~t.feed
    BY <1>2, <1>5
  <2>2. \A j \in 1..Len(t.down) : FALSE
    BY <1>5
  <2> QED BY <1>5, <2>1, <2>2 DEF InSession
<1>8. /\ x.sock = l /\ x.status # "ready"
      /\ x.synced <= x.known /\ x.known <= Len(house)
  BY <1>1, <1>6
<1>9. HaTyped' /\ OverSock(l)
  BY <1>0, <1>1, <1>5, <1>6, <1>7, <1>8, TakingMoves DEF h, t, x
<1> QED BY <1>0, <1>1, <1>9

\* A message is taken and nothing sent.
LEMMA ConsumeOne ==
  ASSUME HaInv, NEW l \in Socks, sock[l].down # << >>, Consume(l, << >>)
  PROVE  /\ sock' \in [Socks -> SockRow]
         /\ \A k \in Socks \ {l} : sock'[k] = sock[k]
         /\ sock'[l] \in SockRow
         /\ sock'[l].at = sock[l].at /\ sock'[l].of = sock[l].of /\ sock'[l].feed = sock[l].feed
         /\ sock'[l].up = sock[l].up /\ sock'[l].down = Tail(sock[l].down)
<1>1. sock \in [Socks -> SockRow] /\ sock[l].up \in Seq(Commands)
  BY TakenFrom
<1>2. << >> \in Seq(Commands)
  OBVIOUS
<1>3. sock[l].up \o << >> = sock[l].up
  BY <1>1, ConcatEmptySeq
<1> QED BY <1>1, <1>2, <1>3, ConsumeFields

LEMMA TakesStatesKeeps ==
  ASSUME HaInv, NEW l \in Socks, TakesStates(l)
  PROVE  HaTyped' /\ Live(l) /\ OverSock(l) /\ starts' = starts
<1> DEFINE h == sock[l].of
           m == Head(sock[l].down)
           t == sock'[l]
           x == handle'[h]
           n == Len(house)
<1>0. sock[l].down # << >> /\ IsStates(m) /\ Consume(l, << >>)
      /\ UNCHANGED <<house, ha, starts, hiccups>>
  BY DEF TakesStates, Result, IsStates
<1>1. /\ Live(l) /\ sock[l].at \in {"open", "lost"} /\ h \in Handles
      /\ InSession(sock[l], handle[h].snapshotDone, handle[h].known, n)
      /\ handle[h].sock = l /\ ~handle[h].waits
      /\ handle[h].synced <= handle[h].known /\ handle[h].known <= n
      /\ (handle[h].status = "ready" => handle[h].snapshotDone)
      /\ sock[l] \in SockRow /\ handle \in [Handles -> HandleRow]
      /\ starts \subseteq StartRow /\ shownHa \in Statuses /\ m \in Messages
  BY <1>0, TakenFrom
<1>2. /\ sock' \in [Socks -> SockRow] /\ \A k \in Socks \ {l} : sock'[k] = sock[k]
      /\ t \in SockRow /\ t.at = sock[l].at /\ t.of = h /\ t.feed = sock[l].feed
      /\ t.up = sock[l].up /\ t.down = Tail(sock[l].down)
  BY <1>0, ConsumeOne
<1>3. m.at \in 0..(MaxChanges + 1)
  BY <1>0, <1>1, MessageParts DEF IsStates
<1>4. InSession(t, handle[h].snapshotDone, handle[h].known, n)
  BY <1>0, <1>1, <1>2, SessionTail
<1>5. InSession(t, TRUE, m.at, n) /\ m.at <= n
  BY <1>0, <1>1, <1>2, SessionStates
<1>6. t.at \in {"open", "lost"}
  BY <1>1, <1>2
<1>7. CASE ~m.ok
  <2>1. UNCHANGED <<handle, shownHa>>
    BY <1>7 DEF TakesStates
  <2>2. x = handle[h] /\ handle' = handle /\ shownHa' = shownHa
    BY <2>1
  <2> HIDE DEF t, x, h
  <2>3. InSession(t, t.at # "closed" /\ x.snapshotDone, x.known, n)
    BY <1>4, <1>6, <2>2 DEF InSession
  <2>4. HaTyped' /\ OverSock(l)
    BY <1>0, <1>1, <1>2, <1>6, <2>2, <2>3, TakingMoves DEF h, t, x
  <2> QED BY <1>0, <1>1, <2>4
<1>8. CASE m.ok
  <2> DEFINE st == IF handle[h].subscribed THEN "ready" ELSE handle[h].status
             done == [handle[h] EXCEPT !.known = m.at, !.synced = m.at,
                        !.snapshotDone = TRUE,
                        !.status = IF handle[h].subscribed THEN "ready" ELSE @]
  <2>1. handle' = [handle EXCEPT ![h] = done]
        /\ shownHa' = IF handle[h].subscribed THEN "ready" ELSE shownHa
    BY <1>8 DEF TakesStates
  <2>2. PICK b : b = TRUE
    OBVIOUS
  <2>3. done = [handle[h] EXCEPT !.known = m.at, !.synced = m.at, !.snapshotDone = b, !.status = st]
    BY <2>2, Zenon
  <2>4. handle[h] \in HandleRow /\ st \in Statuses /\ b \in BOOLEAN
    <3>1. handle[h] \in HandleRow
      BY <1>1
    <3>2. handle[h].status \in Statuses /\ "ready" \in Statuses
      BY <3>1, HandleParts DEF Statuses
    <3>3. b \in BOOLEAN
      BY <2>2
    <3> QED BY <3>1, <3>2, <3>3
  <2> HIDE DEF done, st
  <2>5. /\ done \in HandleRow /\ done.known = m.at /\ done.synced = m.at /\ done.snapshotDone = b
        /\ done.sock = handle[h].sock /\ done.waits = handle[h].waits
    BY <1>3, <2>3, <2>4 DEF HandleRow
  <2>6. /\ handle' \in [Handles -> HandleRow] /\ x = done
        /\ \A g \in Handles \ {h} : handle'[g] = handle[g]
    BY <1>1, <2>1, <2>5
  <2>7. shownHa' \in Statuses
    BY <1>1, <2>1 DEF Statuses
  <2> HIDE DEF t, x, h, n, m
  <2>8. x.snapshotDone /\ ~x.waits /\ x.sock = l /\ x.known = m.at /\ x.synced = m.at
    BY <1>1, <2>2, <2>5, <2>6
  <2>9. InSession(t, t.at # "closed" /\ x.snapshotDone, x.known, n)
    BY <1>5, <1>6, <2>8 DEF InSession
  <2>10. x.synced <= x.known /\ x.known <= n
    BY <1>3, <1>5, <2>8
  <2>11. HaTyped' /\ OverSock(l)
    BY <1>0, <1>1, <1>2, <1>6, <2>6, <2>7, <2>8, <2>9, <2>10, TakingMoves DEF h, t, x, n
  <2> QED BY <1>0, <1>1, <2>11
<1>9. m.ok \/ ~m.ok
  OBVIOUS
<1> QED BY <1>7, <1>8, <1>9

LEMMA TakesSubscriptionKeeps ==
  ASSUME HaInv, NEW l \in Socks, TakesSubscription(l)
  PROVE  HaTyped' /\ Live(l) /\ OverSock(l) /\ starts' = starts
<1> DEFINE h == sock[l].of
           t == sock'[l]
           x == handle'[h]
           n == Len(house)
<1>0. sock[l].down # << >> /\ Consume(l, << >>) /\ UNCHANGED <<house, ha, starts, hiccups>>
  BY DEF TakesSubscription, Result
<1>1. /\ Live(l) /\ sock[l].at \in {"open", "lost"} /\ h \in Handles
      /\ InSession(sock[l], handle[h].snapshotDone, handle[h].known, n)
      /\ handle[h].sock = l /\ ~handle[h].waits
      /\ handle[h].synced <= handle[h].known /\ handle[h].known <= n
      /\ (handle[h].status = "ready" => handle[h].snapshotDone)
      /\ sock[l] \in SockRow /\ handle \in [Handles -> HandleRow]
      /\ starts \subseteq StartRow /\ shownHa \in Statuses
  BY <1>0, TakenFrom
<1>2. /\ sock' \in [Socks -> SockRow] /\ \A k \in Socks \ {l} : sock'[k] = sock[k]
      /\ t \in SockRow /\ t.at = sock[l].at /\ t.of = h /\ t.feed = sock[l].feed
      /\ t.up = sock[l].up /\ t.down = Tail(sock[l].down)
  BY <1>0, ConsumeOne
<1>3. InSession(t, handle[h].snapshotDone, handle[h].known, n)
  BY <1>0, <1>1, <1>2, SessionTail
<1>4. t.at \in {"open", "lost"}
  BY <1>1, <1>2
<1>5. PICK b : b = TRUE
  OBVIOUS
<1>6. b \in BOOLEAN /\ handle[h] \in HandleRow /\ "ready" \in Statuses
  <2>1. b \in BOOLEAN
    BY <1>5
  <2> QED BY <1>1, <2>1 DEF Statuses
<1>7. \/ /\ handle[h].snapshotDone
         /\ handle' = [handle EXCEPT ![h].subscribed = b, ![h].status = "ready"]
         /\ shownHa' = "ready"
      \/ /\ handle' = [handle EXCEPT ![h].subscribed = b] /\ shownHa' = shownHa
  BY <1>5, Zenon DEF TakesSubscription
<1>8. /\ handle' \in [Handles -> HandleRow] /\ shownHa' \in Statuses
      /\ \A g \in Handles \ {h} : handle'[g] = handle[g]
      /\ x.sock = handle[h].sock /\ x.waits = handle[h].waits /\ x.known = handle[h].known
      /\ x.synced = handle[h].synced /\ x.snapshotDone = handle[h].snapshotDone
      /\ x.status = handle[h].status \/ handle[h].snapshotDone
  <2>1. CASE /\ handle[h].snapshotDone
             /\ handle' = [handle EXCEPT ![h].subscribed = b, ![h].status = "ready"]
             /\ shownHa' = "ready"
    BY <1>1, <1>6, <2>1 DEF HandleRow
  <2>2. CASE handle' = [handle EXCEPT ![h].subscribed = b] /\ shownHa' = shownHa
    BY <1>1, <1>6, <2>2 DEF HandleRow
  <2> QED BY <1>7, <2>1, <2>2
<1> HIDE DEF t, x, h, n
<1>9. InSession(t, t.at # "closed" /\ x.snapshotDone, x.known, n)
  <2>1. InSession(t, x.snapshotDone, x.known, n)
    BY <1>3, <1>8
  <2> QED BY <1>4, <2>1 DEF InSession
<1>10. /\ x.sock = l /\ ~x.waits /\ x.synced <= x.known /\ x.known <= n
       /\ (x.status = "ready" => x.snapshotDone)
  BY <1>1, <1>8
<1>11. HaTyped' /\ OverSock(l)
  BY <1>0, <1>1, <1>2, <1>4, <1>8, <1>9, <1>10, TakingMoves DEF h, t, x, n
<1> QED BY <1>0, <1>1, <1>11

LEMMA HearsHaCloseKeeps ==
  ASSUME HaInv, NEW l \in Socks, HearsHaClose(l)
  PROVE  HaTyped' /\ Live(l) /\ OverSock(l) /\ starts' = starts
<1> DEFINE h == sock[l].of
           t == sock'[l]
           x == handle'[h]
           n == Len(house)
<1>0. /\ sock[l].at = "lost" /\ sock[l].down = << >> /\ UNCHANGED <<house, ha, starts, hiccups>>
      /\ sock' = [sock EXCEPT ![l].at = "closed"]
  BY DEF HearsHaClose
<1>1. Live(l)
  BY <1>0 DEF Live
<1>2. /\ h \in Handles /\ InSession(sock[l], handle[h].snapshotDone, handle[h].known, n)
      /\ handle[h].sock = l
  BY <1>1, LiveParts
<1>3. /\ handle[h].synced <= handle[h].known /\ handle[h].known <= n
      /\ handle[h].status = "ready" => handle[h].snapshotDone
  BY <1>2 DEF HaInv, KnownSince
<1>4. /\ sock \in [Socks -> SockRow] /\ sock[l] \in SockRow /\ handle \in [Handles -> HandleRow]
      /\ handle[h] \in HandleRow /\ starts \subseteq StartRow /\ shownHa \in Statuses
  BY <1>2 DEF HaInv, HaTyped
<1>5. /\ sock' \in [Socks -> SockRow] /\ \A k \in Socks \ {l} : sock'[k] = sock[k]
      /\ t \in SockRow /\ t.at = "closed" /\ t.of = h /\ t.feed = sock[l].feed
      /\ t.up = sock[l].up /\ t.down = sock[l].down
  BY <1>0, <1>4 DEF SockRow
<1>6. PICK b : b = TRUE
  OBVIOUS
<1>7. \/ /\ handle' = [handle EXCEPT ![h].status = "disconnected", ![h].waits = b]
         /\ shownHa' = "disconnected"
      \/ handle' = handle /\ shownHa' = shownHa
  BY <1>6, Zenon DEF HearsHaClose
<1>8. b \in BOOLEAN /\ "disconnected" \in Statuses
  <2>1. b \in BOOLEAN
    BY <1>6
  <2> QED BY <2>1 DEF Statuses
<1>9. /\ handle' \in [Handles -> HandleRow] /\ shownHa' \in Statuses
      /\ \A g \in Handles \ {h} : handle'[g] = handle[g]
      /\ x.sock = handle[h].sock /\ x.known = handle[h].known
      /\ x.synced = handle[h].synced /\ x.snapshotDone = handle[h].snapshotDone
      /\ x.status = handle[h].status \/ x.status = "disconnected"
  <2>1. CASE /\ handle' = [handle EXCEPT ![h].status = "disconnected", ![h].waits = b]
             /\ shownHa' = "disconnected"
    BY <1>2, <1>4, <1>8, <2>1 DEF HandleRow
  <2>2. CASE handle' = handle /\ shownHa' = shownHa
    BY <1>4, <2>2
  <2> QED BY <1>7, <2>1, <2>2
<1> HIDE DEF t, x, h, n
<1>10. InSession(t, t.at # "closed" /\ x.snapshotDone, x.known, n)
  <2>1. ~t.feed /\ t.up = sock[l].up /\ t.down = << >>
    BY <1>0, <1>2, <1>5 DEF InSession
  <2>2. \A j \in 1..Len(t.down) : FALSE
    BY <2>1
  <2>3. t.up \in {<< >>, <<Auth>>, <<GetStates, Subscribe>>, <<Subscribe>>}
    BY <1>2, <1>5 DEF InSession
  <2> QED BY <1>5, <2>1, <2>2, <2>3 DEF InSession
<1>11. /\ x.sock = l /\ x.synced <= x.known /\ x.known <= n
       /\ (x.status = "ready" => x.snapshotDone)
  BY <1>2, <1>3, <1>9
<1>12. HaTyped' /\ OverSock(l)
  BY <1>0, <1>1, <1>4, <1>5, <1>9, <1>10, <1>11, TakingMoves DEF h, t, x, n
<1> QED BY <1>0, <1>1, <1>12

\* The one step that starts something: what it starts is news.
LEMMA TakesEventKeeps ==
  ASSUME HaInv, NEW l \in Socks, TakesEvent(l)
  PROVE  HaTyped' /\ Live(l) /\ OverSock(l) /\ StartsAreNews'
<1> DEFINE h == sock[l].of
           m == Head(sock[l].down)
           t == sock'[l]
           x == handle'[h]
           n == Len(house)
<1>0. sock[l].down # << >> /\ IsEvent(m) /\ Consume(l, << >>)
      /\ UNCHANGED <<house, ha, shownHa, hiccups>>
  BY DEF TakesEvent, IsEvent
<1>1. /\ Live(l) /\ sock[l].at \in {"open", "lost"} /\ h \in Handles
      /\ InSession(sock[l], handle[h].snapshotDone, handle[h].known, n)
      /\ handle[h].sock = l /\ ~handle[h].waits
      /\ handle[h].synced <= handle[h].known /\ handle[h].known <= n
      /\ (handle[h].status = "ready" => handle[h].snapshotDone)
      /\ sock[l] \in SockRow /\ handle \in [Handles -> HandleRow]
      /\ starts \subseteq StartRow /\ shownHa \in Statuses /\ m \in Messages
  BY <1>0, TakenFrom
<1>2. /\ sock' \in [Socks -> SockRow] /\ \A k \in Socks \ {l} : sock'[k] = sock[k]
      /\ t \in SockRow /\ t.at = sock[l].at /\ t.of = h /\ t.feed = sock[l].feed
      /\ t.up = sock[l].up /\ t.down = Tail(sock[l].down)
  BY <1>0, ConsumeOne
<1>3. m.at \in 1..(MaxChanges + 1)
  BY <1>0, <1>1, MessageParts DEF IsEvent
<1>4. InSession(t, handle[h].snapshotDone, handle[h].known, n)
  BY <1>0, <1>1, <1>2, SessionTail
<1>5. /\ InSession(t, handle[h].snapshotDone, m.at, n) /\ m.at <= n
      /\ handle[h].snapshotDone => handle[h].known < m.at
  BY <1>0, <1>1, <1>2, SessionEvent
<1>6. t.at \in {"open", "lost"}
  BY <1>1, <1>2
<1>7. StartsAreNews
  BY DEF HaInv
<1>8. CASE handle[h].status # "ready"
  <2>1. UNCHANGED <<handle, starts>>
    BY <1>8 DEF TakesEvent
  <2>2. x = handle[h] /\ handle' = handle /\ shownHa' = shownHa /\ starts' = starts
    BY <1>0, <2>1
  <2>3. StartsAreNews'
    BY <1>7, <2>2 DEF StartsAreNews
  <2> HIDE DEF t, x, h
  <2>4. InSession(t, t.at # "closed" /\ x.snapshotDone, x.known, n)
    BY <1>4, <1>6, <2>2 DEF InSession
  <2>5. HaTyped' /\ OverSock(l)
    BY <1>0, <1>1, <1>2, <1>6, <2>2, <2>4, TakingMoves DEF h, t, x
  <2> QED BY <1>1, <2>3, <2>5
<1>9. CASE handle[h].status = "ready"
  <2>1. starts' = starts \cup Started(h, m.at) /\ handle' = [handle EXCEPT ![h].known = m.at]
    BY <1>9 DEF TakesEvent
  <2>2. /\ handle[h].known < m.at /\ handle[h].synced <= handle[h].known
        /\ handle[h].known \in 0..(MaxChanges + 1) /\ handle[h].synced \in 0..(MaxChanges + 1)
    BY <1>1, <1>5, <1>9, HandleParts
  <2>3. \A s \in Started(h, m.at) :
            /\ s.at = m.at /\ s.from = handle[h].known /\ s.synced = handle[h].synced
            /\ s \in StartRow
    <3> SUFFICES ASSUME NEW s \in Started(h, m.at)
                 PROVE  /\ s.at = m.at /\ s.from = handle[h].known /\ s.synced = handle[h].synced
                        /\ s \in StartRow
      OBVIOUS
    <3>1. PICK g \in Triggers : s = [trigger |-> g, at |-> m.at, from |-> handle[h].known,
                                     synced |-> handle[h].synced]
      BY DEF Started, Matching
    <3>2. s.at = m.at /\ s.from = handle[h].known /\ s.synced = handle[h].synced
      BY <3>1
    <3>3. s \in StartRow
      BY <1>3, <2>2, <3>1 DEF StartRow
    <3> QED BY <3>2, <3>3
  <2>4. starts' \subseteq StartRow
    BY <1>1, <2>1, <2>3
  <2>5. StartsAreNews'
    <3> SUFFICES ASSUME NEW s \in starts' PROVE s.synced <= s.from /\ s.from < s.at
      BY DEF StartsAreNews
    <3>1. CASE s \in starts
      BY <1>7, <3>1 DEF StartsAreNews
    <3>2. CASE s \in Started(h, m.at)
      BY <2>2, <2>3, <3>2
    <3> QED BY <2>1, <3>1, <3>2
  <2>6. m.at \in 0..(MaxChanges + 1)
    BY <1>3
  <2>7. /\ handle' \in [Handles -> HandleRow] /\ x.known = m.at /\ x.sock = handle[h].sock
        /\ x.waits = handle[h].waits /\ x.status = handle[h].status
        /\ x.synced = handle[h].synced /\ x.snapshotDone = handle[h].snapshotDone
        /\ \A g \in Handles \ {h} : handle'[g] = handle[g]
    BY <1>1, <2>1, <2>6 DEF HandleRow
  <2> HIDE DEF t, x, h, n, m
  <2>8. InSession(t, t.at # "closed" /\ x.snapshotDone, x.known, n)
    BY <1>5, <1>6, <2>7 DEF InSession
  <2>9. x.synced <= x.known /\ x.known <= n /\ ~x.waits /\ x.sock = l
        /\ (x.status = "ready" => x.snapshotDone)
    BY <1>1, <1>3, <1>5, <2>2, <2>7
  <2>10. shownHa' \in Statuses
    BY <1>0, <1>1
  <2>11. HaTyped' /\ OverSock(l)
    BY <1>0, <1>1, <1>2, <1>6, <2>4, <2>7, <2>8, <2>9, <2>10, TakingMoves DEF h, t, x, n
  <2> QED BY <1>1, <2>5, <2>11
<1> QED BY <1>8, <1>9

\* Every step over one socket.
LEMMA OverSockSteps ==
  ASSUME HaInv, NEW l \in Socks, Accepted(l) \/ Serves(l) \/ LosesSock(l) \/ TakesFrom(l)
  PROVE  HaInv'
<1>1. /\ HaTyped' /\ Live(l) /\ OverSock(l)
      /\ starts' = starts \/ StartsAreNews'
  <2>1. CASE Accepted(l)
    BY <2>1, AcceptedKeeps
  <2>2. CASE Serves(l)
    BY <2>2, ServesKeeps
  <2>3. CASE LosesSock(l)
    BY <2>3, LosesSockKeeps
  <2>4. CASE TakesAuthRequired(l)
    BY <2>4, TakesAuthRequiredKeeps
  <2>5. CASE TakesAuthOk(l)
    BY <2>5, TakesAuthOkKeeps
  <2>6. CASE TakesAuthInvalid(l)
    BY <2>6, TakesAuthInvalidKeeps
  <2>7. CASE TakesStates(l)
    BY <2>7, TakesStatesKeeps
  <2>8. CASE TakesSubscription(l)
    BY <2>8, TakesSubscriptionKeeps
  <2>9. CASE TakesEvent(l)
    BY <2>9, TakesEventKeeps
  <2>10. CASE HearsHaClose(l)
    BY <2>10, HearsHaCloseKeeps
  <2> QED BY <2>1, <2>2, <2>3, <2>4, <2>5, <2>6, <2>7, <2>8, <2>9, <2>10 DEF TakesFrom
<1>2. OneSock' /\ Sessions' /\ KnownSince'
  BY <1>1, OverSockKeeps
<1>3. StartsAreNews'
  BY <1>1 DEF HaInv, StartsAreNews
<1> QED BY <1>1, <1>2, <1>3 DEF HaInv

LEMMA EntityChangesKeeps ==
  ASSUME HaInv, NEW v \in Levels, EntityChanges(v)
  PROVE  HaInv'
<1> DEFINE n == Len(house)
           m == [type |-> "event", at |-> n + 1]
<1>1. /\ house' = Append(house, v) /\ n <= MaxChanges
      /\ sock' = [l \in Socks |-> IF sock[l].feed /\ sock[l].at = "open"
                                  THEN [sock[l] EXCEPT !.down = Append(@, m)] ELSE sock[l]]
      /\ UNCHANGED <<handle, ha, shownHa, starts, hiccups>>
  BY DEF EntityChanges
<1>2. /\ house \in Seq(Levels) /\ n \in 1..(MaxChanges + 1) /\ sock \in [Socks -> SockRow]
  BY DEF HaInv, HaTyped
<1>3. house' \in Seq(Levels) /\ Len(house') = n + 1 /\ n + 1 \in 1..(MaxChanges + 1)
  <2>1. house' \in Seq(Levels) /\ Len(house') = n + 1
    BY <1>1, <1>2
  <2> HIDE DEF n
  <2>2. n + 1 \in 1..(MaxChanges + 1)
    BY <1>1, <1>2, HaAssumption
  <2> QED BY <2>1, <2>2
<1>4. m \in Messages /\ IsEvent(m) /\ ~IsAuth(m) /\ ~IsStates(m) /\ m.at = n + 1
  <2>1. m \in Messages /\ m.type = "event" /\ m.at = n + 1
    BY <1>3 DEF Messages
  <2> QED BY <2>1 DEF IsEvent, IsAuth, IsStates
<1> HIDE DEF n, m
<1>5. ASSUME NEW l \in Socks
      PROVE  /\ sock'[l] \in SockRow /\ sock'[l].at = sock[l].at /\ sock'[l].of = sock[l].of
             /\ sock'[l].up = sock[l].up /\ sock'[l].feed = sock[l].feed
             /\ IF sock[l].feed /\ sock[l].at = "open"
                THEN sock'[l].down = Append(sock[l].down, m)
                ELSE sock'[l] = sock[l]
  <2>1. sock[l] \in SockRow /\ sock[l].down \in Seq(Messages)
    BY <1>2, SockParts
  <2>2. Append(sock[l].down, m) \in Seq(Messages)
    BY <1>4, <2>1
  <2>3. CASE sock[l].feed /\ sock[l].at = "open"
    <3>1. sock'[l] = [sock[l] EXCEPT !.down = Append(sock[l].down, m)]
      BY <1>1, <2>3
    <3> QED BY <2>1, <2>2, <2>3, <3>1 DEF SockRow
  <2>4. CASE ~(sock[l].feed /\ sock[l].at = "open")
    <3>1. sock'[l] = sock[l]
      BY <1>1, <2>4
    <3> QED BY <2>1, <2>4, <3>1
  <2> QED BY <2>3, <2>4
<1>6. HaTyped'
  <2>1. sock' \in [Socks -> SockRow]
    <3>1. sock' = [l \in Socks |-> sock'[l]]
      BY <1>1
    <3> QED BY <1>5, <3>1
  <2> QED BY <1>1, <1>3, <2>1 DEF HaInv, HaTyped
<1>7. OneSock'
  BY <1>1, <1>5 DEF HaInv, OneSock, Live
<1>8. Sessions'
  <2> SUFFICES ASSUME NEW l \in Socks PROVE InSession(sock[l], Done(l), Known(l), Len(house))'
    BY DEF Sessions
  <2> DEFINE s == sock[l]
             t == sock'[l]
             d == Done(l)
             k == Known(l)
  <2>1. Live(l)' <=> Live(l)
    BY <1>5 DEF Live
  <2>2. (Done(l)' <=> d) /\ Known(l)' = k
    BY <1>1, <1>5, <2>1 DEF Done, Known
  <2>3. s \in SockRow /\ s.down \in Seq(Messages) /\ n \in Nat /\ n + 1 \in Nat /\ n <= n + 1
    BY <1>2, SockParts
  <2>4. InSession(s, d, k, n)
    BY DEF HaInv, Sessions, n
  <2>5. k <= n
    <3>1. CASE Live(l)
      BY <3>1, LiveParts DEF HaInv, KnownSince, Known, n
    <3>2. CASE ~Live(l)
      BY <1>2, <3>2 DEF Known
    <3> QED BY <3>1, <3>2
  <2>6. k \in Nat
    <3>1. CASE Live(l)
      <4>1. handle[sock[l].of] \in HandleRow
        BY <3>1, LiveParts DEF HaInv, HaTyped
      <4> QED BY <3>1, <4>1, HandleParts, HaAssumption DEF Known
    <3>2. CASE ~Live(l)
      BY <3>2 DEF Known
    <3> QED BY <3>1, <3>2
  <2> HIDE DEF s, t, d, k
  <2>7. InSession(s, d, k, n + 1)
    BY <2>3, <2>4, SessionLater
  <2>8. CASE s.feed /\ s.at = "open"
    <3>1. t.down = Append(s.down, m) /\ t \in SockRow /\ t.at = "open" /\ t.up = s.up
      BY <1>5, <2>8 DEF s, t
    <3>2. /\ s.up = << >> /\ s.up \notin {<<Auth>>, <<GetStates, Subscribe>>}
          /\ \A j \in 1..Len(s.down) : ~IsAuth(s.down[j])
      BY <2>4, <2>8, CommandsInTurn DEF InSession
    <3>3. \A i \in 1..Len(s.down) : IsStates(s.down[i]) \/ IsEvent(s.down[i]) => s.down[i].at < m.at
      <4> SUFFICES ASSUME NEW i \in 1..Len(s.down), IsStates(s.down[i]) \/ IsEvent(s.down[i])
                   PROVE  s.down[i].at < m.at
        OBVIOUS
      <4>1. s.down[i].at <= n
        BY <2>4 DEF InSession
      <4>2. s.down[i] \in Messages
        BY <2>3
      <4>3. s.down[i].at \in 0..(MaxChanges + 1)
        BY <4>2, MessageParts, HaAssumption DEF IsStates, IsEvent
      <4> QED BY <1>4, <2>3, <4>1, <4>3
    <3>4. m.at <= n + 1 /\ k < m.at
      BY <1>4, <2>3, <2>5, <2>6
    <3>5. InSession(t, d, k, n + 1)
      BY <1>4, <2>3, <2>7, <2>8, <3>1, <3>2, <3>3, <3>4, SessionAppend
    <3> QED BY <1>3, <2>2, <3>5 DEF t, InSession
  <2>9. CASE ~(s.feed /\ s.at = "open")
    <3>1. t = s
      BY <1>5, <2>9 DEF s, t
    <3> QED BY <1>3, <2>2, <2>7, <3>1 DEF t, InSession
  <2> QED BY <2>8, <2>9
<1>9. KnownSince'
  <2> SUFFICES ASSUME NEW h \in Handles
               PROVE  (/\ handle[h].synced <= handle[h].known /\ handle[h].known <= Len(house)
                       /\ handle[h].status = "ready" => handle[h].snapshotDone)'
    BY DEF KnownSince
  <2>1. /\ handle[h].synced <= handle[h].known /\ handle[h].known <= n
        /\ handle[h].status = "ready" => handle[h].snapshotDone
    BY DEF HaInv, KnownSince, n
  <2>2. handle[h].known \in 0..(MaxChanges + 1)
    BY HandleParts DEF HaInv, HaTyped
  <2>3. handle[h].known <= n + 1
    BY <1>2, <2>1, <2>2
  <2> QED BY <1>1, <1>3, <2>1, <2>3
<1>10. StartsAreNews'
  BY <1>1 DEF HaInv, StartsAreNews
<1> QED BY <1>6, <1>7, <1>8, <1>9, <1>10 DEF HaInv

LEMMA ReportsHaKeeps ==
  ASSUME HaInv, ReportsHa \/ UNCHANGED haVars
  PROVE  HaInv'
<1>1. UNCHANGED <<house, handle, ha, sock, starts, hiccups>>
  BY DEF ReportsHa, haVars
<1>2. shownHa' \in Statuses
  <2>1. handle[ha].status \in Statuses /\ shownHa \in Statuses
    BY HandleParts DEF HaInv, HaTyped
  <2> QED BY <2>1 DEF ReportsHa, haVars
<1>3. HaTyped'
  BY <1>1, <1>2 DEF HaInv, HaTyped
<1>4. OneSock' /\ KnownSince' /\ StartsAreNews'
  BY <1>1 DEF HaInv, OneSock, KnownSince, StartsAreNews, Live
<1>5. Sessions'
  BY <1>1 DEF HaInv, Sessions, InSession, Done, Known, Live
<1> QED BY <1>3, <1>4, <1>5 DEF HaInv

\* A socket just opened has nothing on its way.
LEMMA OpenedSession ==
  ASSUME NEW h \in 0..MaxHandles, NEW k, NEW n
  PROVE  InSession(Opened(h), FALSE, k, n)
<1>1. /\ Opened(h).at = "connecting" /\ Opened(h).up = << >> /\ Opened(h).down = << >>
      /\ ~Opened(h).feed
  BY OpenedFields
<1>2. \A j \in 1..Len(Opened(h).down) : FALSE
  BY <1>1
<1> QED BY <1>1, <1>2 DEF InSession

LEMMA ReopensStopped ==
  ASSUME HaInv, NEW h \in Handles, Reopens(h), handle[h].stopped
  PROVE  HaInv'
<1>1. PICK b : b = FALSE
  OBVIOUS
<1>2. handle' = [handle EXCEPT ![h].waits = b] /\ UNCHANGED <<sock, shownHa, house, ha, starts, hiccups>>
  BY <1>1, Zenon DEF Reopens
<1>3. handle \in [Handles -> HandleRow] /\ b \in BOOLEAN
  <2>1. b \in BOOLEAN
    BY <1>1
  <2> QED BY <2>1 DEF HaInv, HaTyped
<1>4. /\ handle' \in [Handles -> HandleRow]
      /\ \A g \in Handles :
            /\ handle'[g].sock = handle[g].sock /\ handle'[g].known = handle[g].known
            /\ handle'[g].synced = handle[g].synced /\ handle'[g].status = handle[g].status
            /\ handle'[g].snapshotDone = handle[g].snapshotDone
      /\ \A g \in Handles \ {h} : handle'[g] = handle[g]
      /\ handle'[h].waits = b
  BY <1>2, <1>3 DEF HandleRow
<1>5. HaTyped'
  BY <1>2, <1>4 DEF HaInv, HaTyped
<1>6. KnownSince' /\ StartsAreNews'
  BY <1>2, <1>4 DEF HaInv, KnownSince, StartsAreNews
<1>7. \A l \in Socks : Live(l) => sock[l].of \in Handles
  BY LiveParts
<1>8. \A l \in Socks : (Live(l)' <=> Live(l)) /\ sock'[l] = sock[l]
  BY <1>2 DEF Live
<1>9. OneSock'
  <2>1. ASSUME NEW l \in Socks, Live(l)' PROVE (sock[l].of \in 1..ha /\ handle[sock[l].of].sock = l)'
    <3>1. Live(l) /\ sock[l].of \in Handles /\ sock[l].of \in 1..ha /\ handle[sock[l].of].sock = l
      BY <1>7, <1>8, <2>1 DEF HaInv, OneSock
    <3>2. ha' = ha
      BY <1>2
    <3> QED BY <1>4, <1>8, <3>1, <3>2
  <2>2. ASSUME NEW g \in Handles
        PROVE  (/\ g <= ha => handle[g].sock \in Socks
                /\ g > ha => handle[g] = NewHandle
                /\ handle[g].waits => g <= ha /\ sock[handle[g].sock].at = "closed")'
    <3>1. /\ g <= ha => handle[g].sock \in Socks
          /\ g > ha => handle[g] = NewHandle
          /\ handle[g].waits => g <= ha /\ sock[handle[g].sock].at = "closed"
      BY DEF HaInv, OneSock
    <3>2. ha' = ha /\ sock' = sock
      BY <1>2
    <3>3. CASE g = h
      <4>1. handle[h].waits
        BY DEF Reopens
      <4>2. h <= ha
        BY <3>1, <3>3, <4>1
      <4>3. ~(h > ha)
        BY <4>2, HaAssumption DEF HaInv, HaTyped, Handles
      <4>4. ~handle'[h].waits
        BY <1>1, <1>4
      <4> QED BY <1>4, <3>1, <3>2, <3>3, <4>2, <4>3, <4>4
    <3>4. CASE g # h
      BY <1>4, <3>1, <3>2, <3>4
    <3> QED BY <3>3, <3>4
  <2> QED BY <2>1, <2>2 DEF OneSock
<1>10. Sessions'
  <2> SUFFICES ASSUME NEW l \in Socks PROVE InSession(sock[l], Done(l), Known(l), Len(house))'
    BY DEF Sessions
  <2>1. (Done(l)' <=> Done(l)) /\ Known(l)' = Known(l)
    BY <1>4, <1>7, <1>8 DEF Done, Known
  <2>2. InSession(sock[l], Done(l), Known(l), Len(house))
    BY DEF HaInv, Sessions
  <2>3. house' = house
    BY <1>2
  <2> QED BY <1>8, <2>1, <2>2, <2>3 DEF InSession
<1> QED BY <1>5, <1>6, <1>9, <1>10 DEF HaInv

LEMMA ReopensKeeps ==
  ASSUME HaInv, NEW h \in Handles, Reopens(h), ~handle[h].stopped
  PROVE  HaInv'
<1> DEFINE x == handle'[h]
<1>0. PICK q : q = NextSock
  OBVIOUS
<1>1. PICK b : b = FALSE
  OBVIOUS
<1>2. /\ handle[h].waits /\ SocksLeft
      /\ handle' = [handle EXCEPT ![h] =
            [@ EXCEPT !.waits = b, !.status = "connecting", !.snapshotDone = b,
                      !.subscribed = b, !.sock = q]]
      /\ shownHa' = "connecting"
      /\ sock' = [sock EXCEPT ![q] = Opened(h)]
      /\ UNCHANGED <<house, ha, starts, hiccups>>
  <2>1. handle' = [handle EXCEPT ![h] =
            [@ EXCEPT !.waits = FALSE, !.status = "connecting", !.snapshotDone = FALSE,
                      !.subscribed = FALSE, !.sock = q]]
    BY <1>0, Zenon DEF Reopens
  <2>2. handle' = [handle EXCEPT ![h] =
            [@ EXCEPT !.waits = b, !.status = "connecting", !.snapshotDone = b,
                      !.subscribed = b, !.sock = q]]
    BY <1>1, <2>1, Zenon
  <2>3. /\ handle[h].waits /\ SocksLeft /\ shownHa' = "connecting"
        /\ sock' = [sock EXCEPT ![q] = Opened(h)] /\ UNCHANGED <<house, ha, starts, hiccups>>
    BY <1>0 DEF Reopens
  <2> QED BY <2>2, <2>3
<1>3. q \in Socks /\ sock[q].at = "none"
  BY <1>0, <1>2, NextSockType
<1>4. /\ handle \in [Handles -> HandleRow] /\ sock \in [Socks -> SockRow] /\ "connecting" \in Statuses
      /\ h \in 0..MaxHandles /\ q \in 0..MaxSocks /\ Socks \subseteq 0..MaxSocks
  BY <1>3, HaAssumption DEF HaInv, HaTyped, Statuses, Handles, Socks
<1>5. b \in BOOLEAN
  BY <1>1
<1>6. /\ handle' \in [Handles -> HandleRow]
      /\ x.waits = b /\ x.snapshotDone = b /\ x.status = "connecting" /\ x.sock = q
      /\ x.known = handle[h].known /\ x.synced = handle[h].synced
      /\ \A g \in Handles \ {h} : handle'[g] = handle[g]
  BY <1>2, <1>4, <1>5 DEF HandleRow
<1>7. /\ sock' \in [Socks -> SockRow] /\ sock'[q] = Opened(h)
      /\ \A k \in Socks \ {q} : sock'[k] = sock[k]
      /\ sock'[q].at = "connecting" /\ sock'[q].of = h
  BY <1>2, <1>3, <1>4, OpenedFields
<1>8. HaTyped'
  BY <1>2, <1>4, <1>6, <1>7 DEF HaInv, HaTyped
<1>9. h <= ha /\ sock[handle[h].sock].at = "closed"
  BY <1>2 DEF HaInv, OneSock
<1>10. ha \in Nat /\ h \in Nat /\ ~(h > ha) /\ h \in 1..ha
  BY <1>9, HaAssumption DEF HaInv, HaTyped, Handles
<1>11. \A k \in Socks : Live(k) => sock[k].of \in Handles /\ sock[k].of # h /\ k # q
  BY <1>3, <1>9, LiveParts DEF Live
<1>12. \A k \in Socks \ {q} : Live(k)' <=> Live(k)
  BY <1>7 DEF Live
<1>13. Live(q)'
  BY <1>7 DEF Live
<1> HIDE DEF x
<1>14. OneSock'
  <2>1. ASSUME NEW l \in Socks, Live(l)' PROVE (sock[l].of \in 1..ha /\ handle[sock[l].of].sock = l)'
    <3>1. CASE l = q
      BY <1>2, <1>6, <1>7, <1>10, <3>1 DEF x
    <3>2. CASE l # q
      <4>1. /\ Live(l) /\ sock[l].of \in Handles /\ sock[l].of # h
            /\ sock[l].of \in 1..ha /\ handle[sock[l].of].sock = l
        BY <1>11, <1>12, <2>1, <3>2 DEF HaInv, OneSock
      <4>2. ha' = ha /\ sock'[l] = sock[l]
        BY <1>2, <1>7, <3>2
      <4> QED BY <1>6, <4>1, <4>2
    <3> QED BY <3>1, <3>2
  <2>2. ASSUME NEW g \in Handles
        PROVE  (/\ g <= ha => handle[g].sock \in Socks
                /\ g > ha => handle[g] = NewHandle
                /\ handle[g].waits => g <= ha /\ sock[handle[g].sock].at = "closed")'
    <3>1. /\ g <= ha => handle[g].sock \in Socks
          /\ g > ha => handle[g] = NewHandle
          /\ handle[g].waits => g <= ha /\ sock[handle[g].sock].at = "closed"
      BY DEF HaInv, OneSock
    <3>2. ha' = ha
      BY <1>2
    <3>3. CASE g = h
      <4>1. ~handle'[h].waits /\ handle'[h].sock \in Socks
        BY <1>1, <1>3, <1>6 DEF x
      <4> QED BY <1>10, <3>2, <3>3, <4>1
    <3>4. CASE g # h
      <4>1. handle'[g] = handle[g]
        BY <1>6, <3>4
      <4>2. handle[g].waits => handle[g].sock \in Socks \ {q}
        BY <1>3, <3>1
      <4> QED BY <1>7, <3>1, <3>2, <4>1, <4>2
    <3> QED BY <3>3, <3>4
  <2> QED BY <2>1, <2>2 DEF OneSock
<1>15. Sessions'
  <2> SUFFICES ASSUME NEW l \in Socks PROVE InSession(sock[l], Done(l), Known(l), Len(house))'
    BY DEF Sessions
  <2>0. house' = house
    BY <1>2
  <2>1. CASE l = q
    <3>1. ~Done(q)'
      BY <1>1, <1>6, <1>7 DEF Done, x
    <3>2. InSession(Opened(h), FALSE, Known(q)', Len(house))
      BY <1>4, OpenedSession
    <3> QED BY <1>7, <2>0, <2>1, <3>1, <3>2 DEF InSession
  <2>2. CASE l # q
    <3>1. (Live(l)' <=> Live(l)) /\ sock'[l] = sock[l]
      BY <1>7, <1>12, <2>2
    <3>2. Live(l) => handle'[sock[l].of] = handle[sock[l].of]
      BY <1>6, <1>11
    <3>3. (Done(l)' <=> Done(l)) /\ Known(l)' = Known(l)
      BY <3>1, <3>2 DEF Done, Known
    <3>4. InSession(sock[l], Done(l), Known(l), Len(house))
      BY DEF HaInv, Sessions
    <3> QED BY <2>0, <3>1, <3>3, <3>4 DEF InSession
  <2> QED BY <2>1, <2>2
<1>16. KnownSince'
  <2> SUFFICES ASSUME NEW g \in Handles
               PROVE  (/\ handle[g].synced <= handle[g].known /\ handle[g].known <= Len(house)
                       /\ handle[g].status = "ready" => handle[g].snapshotDone)'
    BY DEF KnownSince
  <2>1. /\ handle[g].synced <= handle[g].known /\ handle[g].known <= Len(house)
        /\ handle[g].status = "ready" => handle[g].snapshotDone
    BY DEF HaInv, KnownSince
  <2>2. house' = house
    BY <1>2
  <2>3. CASE g = h
    BY <1>6, <2>1, <2>2, <2>3 DEF x
  <2>4. CASE g # h
    BY <1>6, <2>1, <2>2, <2>4
  <2> QED BY <2>3, <2>4
<1>17. StartsAreNews'
  BY <1>2 DEF HaInv, StartsAreNews
<1> QED BY <1>8, <1>14, <1>15, <1>16, <1>17 DEF HaInv

LEMMA StartHaKeeps ==
  ASSUME HaInv, StartHa
  PROVE  HaInv'
<1>0. PICK q : q = NextSock
  OBVIOUS
<1> DEFINE o == handle[ha].sock
           e == ha + 1
           cut == [sock[o] EXCEPT !.at = "lost", !.up = << >>, !.feed = FALSE]
<1>1. /\ ha < MaxHandles /\ SocksLeft /\ ha' = e /\ shownHa' = "connecting"
      /\ UNCHANGED <<house, starts, hiccups>>
  BY DEF StartHa
<1>2. q \in Socks /\ sock[q].at = "none"
  BY <1>0, <1>1, NextSockType
<1>3. /\ handle \in [Handles -> HandleRow] /\ sock \in [Socks -> SockRow] /\ "connecting" \in Statuses
      /\ ha \in Handles /\ ha \in Nat /\ e \in Handles /\ e # ha /\ e \in 0..MaxHandles /\ e \in Nat
      /\ 1..ha \subseteq 1..e /\ e \in 1..e /\ 1..e \subseteq Handles /\ e \notin 1..ha
      /\ q \in 0..MaxSocks
  BY <1>1, <1>2, HaAssumption DEF HaInv, HaTyped, Statuses, Handles, Socks
<1>4. o \in Socks /\ handle[e] = NewHandle
  BY <1>3 DEF HaInv, OneSock
<1>5. PICK b : b = TRUE
  OBVIOUS
<1>6. PICK f : f = FALSE
  OBVIOUS
<1>7. b \in BOOLEAN /\ f \in BOOLEAN /\ ~f
  BY <1>5, <1>6
<1>8. handle' = [handle EXCEPT ![ha].stopped = b, ![e].sock = q]
  BY <1>0, <1>5, Zenon DEF StartHa
<1>9. cut = [sock[o] EXCEPT !.at = "lost", !.up = << >>, !.feed = f]
  BY <1>6, Zenon
<1>10. sock' = [sock EXCEPT ![q] = Opened(e),
                            ![o] = IF sock[o].at \in {"connecting", "open"}
                                   THEN [@ EXCEPT !.at = "lost", !.up = << >>, !.feed = FALSE] ELSE @]
  BY <1>0 DEF StartHa
<1>11. /\ cut \in SockRow /\ cut.at = "lost" /\ cut.up = << >> /\ cut.feed = f
       /\ cut.down = sock[o].down /\ cut.of = sock[o].of
  <2>1. sock[o] \in SockRow /\ << >> \in Seq(Commands)
    BY <1>3, <1>4
  <2> HIDE DEF cut
  <2> QED BY <1>7, <1>9, <2>1 DEF SockRow
<1>12. /\ sock'[q] = Opened(e)
       /\ o # q => sock'[o] = IF sock[o].at \in {"connecting", "open"} THEN cut ELSE sock[o]
       /\ \A k \in Socks \ {q, o} : sock'[k] = sock[k]
  <2>1. sock'[q] = Opened(e)
    BY <1>2, <1>3, <1>10
  <2>2. o # q => sock'[o] = IF sock[o].at \in {"connecting", "open"} THEN cut ELSE sock[o]
    BY <1>3, <1>4, <1>10
  <2>3. \A k \in Socks \ {q, o} : sock'[k] = sock[k]
    BY <1>3, <1>10
  <2> QED BY <2>1, <2>2, <2>3
<1>13. Opened(e) \in SockRow /\ Opened(e).at = "connecting" /\ Opened(e).of = e
  BY <1>3, OpenedFields
<1> HIDE DEF o, e, cut
<1>14. sock' \in [Socks -> SockRow]
  <2>1. \A k \in Socks : sock'[k] \in SockRow
    BY <1>3, <1>11, <1>12, <1>13
  <2>2. sock' = [k \in Socks |-> sock'[k]]
    BY <1>3, <1>10
  <2> QED BY <2>1, <2>2
<1>15. /\ handle' \in [Handles -> HandleRow]
       /\ \A g \in Handles :
             /\ handle'[g].sock = IF g = e THEN q ELSE handle[g].sock
             /\ handle'[g].known = handle[g].known /\ handle'[g].synced = handle[g].synced
             /\ handle'[g].status = handle[g].status /\ handle'[g].waits = handle[g].waits
             /\ handle'[g].snapshotDone = handle[g].snapshotDone
       /\ \A g \in Handles \ {ha, e} : handle'[g] = handle[g]
  BY <1>3, <1>7, <1>8 DEF HandleRow
<1>16. HaTyped'
  BY <1>1, <1>3, <1>14, <1>15 DEF HaInv, HaTyped
<1>17. ASSUME NEW k \in Socks, Live(k)
       PROVE  /\ k # q /\ sock[k].of \in 1..ha /\ sock[k].of \in Handles /\ sock[k].of # e
              /\ handle[sock[k].of].sock = k
  BY <1>2, <1>3, <1>17 DEF HaInv, OneSock, Live
<1>18. ASSUME NEW k \in Socks, k # q
       PROVE  /\ sock'[k].of = sock[k].of /\ sock'[k].down = sock[k].down
              /\ sock[k].at = "closed" => sock'[k].at = "closed"
              /\ (Live(k)' <=> Live(k))
              /\ sock'[k] = sock[k] \/ (sock'[k].at = "lost" /\ sock'[k].up = << >> /\ ~sock'[k].feed)
  <2>1. CASE sock'[k] = sock[k]
    BY <2>1 DEF Live
  <2>2. CASE k = o /\ sock[o].at \in {"connecting", "open"} /\ sock'[o] = cut
    BY <1>7, <1>11, <2>2 DEF Live
  <2> QED BY <1>12, <1>18, <2>1, <2>2
<1>19. Live(q)' /\ sock'[q].of = e
  BY <1>12, <1>13 DEF Live
<1>20. OneSock'
  <2>1. ASSUME NEW l \in Socks, Live(l)' PROVE (sock[l].of \in 1..ha /\ handle[sock[l].of].sock = l)'
    <3>1. CASE l = q
      BY <1>1, <1>3, <1>15, <1>19, <3>1
    <3>2. CASE l # q
      BY <1>1, <1>3, <1>15, <1>17, <1>18, <2>1, <3>2
    <3> QED BY <3>1, <3>2
  <2>2. ASSUME NEW g \in Handles
        PROVE  (/\ g <= ha => handle[g].sock \in Socks
                /\ g > ha => handle[g] = NewHandle
                /\ handle[g].waits => g <= ha /\ sock[handle[g].sock].at = "closed")'
    <3>1. /\ g <= ha => handle[g].sock \in Socks
          /\ g > ha => handle[g] = NewHandle
          /\ handle[g].waits => g <= ha /\ sock[handle[g].sock].at = "closed"
      BY DEF HaInv, OneSock
    <3>2. CASE g = e
      <4>1. ~handle'[e].waits
        BY <1>3, <1>4, <1>15 DEF NewHandle
      <4>2. ~(e > e) /\ handle'[e].sock = q
        BY <1>3, <1>15
      <4> QED BY <1>1, <1>2, <3>2, <4>1, <4>2
    <3>3. CASE g # e
      <4>1. g \in Nat /\ (g <= e <=> g <= ha) /\ (g > e => g > ha /\ g # ha)
        BY <1>3, <3>3, HaAssumption DEF Handles, e
      <4>2. handle'[g].sock = handle[g].sock /\ handle'[g].waits = handle[g].waits
            /\ (g > e => handle'[g] = handle[g])
        BY <1>15, <3>3, <4>1
      <4>3. handle[g].waits => g <= ha /\ handle[g].sock \in Socks /\ handle[g].sock # q
        BY <1>2, <3>1
      <4>4. handle[g].waits => sock'[handle[g].sock].at = "closed"
        BY <1>18, <3>1, <4>3
      <4> QED BY <1>1, <3>1, <4>1, <4>2, <4>3, <4>4
    <3> QED BY <3>2, <3>3
  <2> QED BY <2>1, <2>2 DEF OneSock
<1>21. Sessions'
  <2> SUFFICES ASSUME NEW l \in Socks PROVE InSession(sock[l], Done(l), Known(l), Len(house))'
    BY DEF Sessions
  <2>0. house' = house
    BY <1>1
  <2>1. CASE l = q
    <3>1. ~Done(q)'
      <4>1. ~handle'[e].snapshotDone
        BY <1>3, <1>4, <1>15 DEF NewHandle
      <4> QED BY <1>19, <4>1 DEF Done
    <3>2. InSession(Opened(e), FALSE, Known(q)', Len(house))
      BY <1>3, OpenedSession
    <3> QED BY <1>12, <2>0, <2>1, <3>1, <3>2 DEF InSession
  <2>2. CASE l # q
    <3>1. /\ sock'[l].of = sock[l].of /\ sock'[l].down = sock[l].down
          /\ (Live(l)' <=> Live(l))
          /\ sock'[l] = sock[l] \/ (sock'[l].at = "lost" /\ sock'[l].up = << >> /\ ~sock'[l].feed)
      BY <1>18, <2>2
    <3>2. Live(l) => sock[l].of \in Handles
      BY <1>17
    <3>3. (Done(l)' <=> Done(l)) /\ Known(l)' = Known(l)
      BY <1>15, <3>1, <3>2 DEF Done, Known
    <3>4. InSession(sock[l], Done(l), Known(l), Len(house))
      BY DEF HaInv, Sessions
    <3>5. CASE sock'[l] = sock[l]
      BY <2>0, <3>3, <3>4, <3>5 DEF InSession
    <3>6. CASE sock'[l].at = "lost" /\ sock'[l].up = << >> /\ ~sock'[l].feed
      <4>1. sock[l] \in SockRow /\ sock'[l] \in SockRow /\ sock[l].down \in Seq(Messages)
        BY <1>3, <1>14, SockParts
      <4>2. SubSeq(sock[l].down, 1, Len(sock[l].down)) = sock[l].down
            /\ Len(sock[l].down) \in 0..Len(sock[l].down)
        BY <4>1, SubSeqFull
      <4>3. InSession(sock'[l], Done(l), Known(l), Len(house))
        BY <3>1, <3>4, <3>6, <4>1, <4>2, SessionLost
      <4> QED BY <2>0, <3>3, <4>3 DEF InSession
    <3> QED BY <3>1, <3>5, <3>6
  <2> QED BY <2>1, <2>2
<1>22. KnownSince'
  BY <1>1, <1>15 DEF HaInv, KnownSince
<1>23. StartsAreNews'
  BY <1>1 DEF HaInv, StartsAreNews
<1> QED BY <1>16, <1>20, <1>21, <1>22, <1>23 DEF HaInv

LEMMA HaKept == HaInv /\ [HaNext]_haVars => HaInv'
<1> SUFFICES ASSUME HaInv, [HaNext]_haVars PROVE HaInv'
  OBVIOUS
<1>1. CASE StartHa
  BY <1>1, StartHaKeeps
<1>2. CASE ReportsHa \/ UNCHANGED haVars
  BY <1>2, ReportsHaKeeps
<1>3. CASE \E v \in Levels : EntityChanges(v)
  BY <1>3, EntityChangesKeeps
<1>4. CASE \E l \in Socks : Accepted(l) \/ Serves(l) \/ LosesSock(l) \/ TakesFrom(l)
  BY <1>4, OverSockSteps
<1>5. CASE \E h \in Handles : Reopens(h)
  BY <1>5, ReopensKeeps, ReopensStopped
<1> QED BY <1>1, <1>2, <1>3, <1>4, <1>5 DEF HaNext

LEMMA HaSound == HaInv => HaTypeOK /\ StartsAreNews
<1> SUFFICES ASSUME HaInv PROVE HaTypeOK
  BY DEF HaInv
<1>1. ASSUME NEW l \in Socks
      PROVE  /\ sock[l].at \in {"none", "connecting", "open", "lost", "closed"}
             /\ sock[l].of \in 0..MaxHandles /\ sock[l].feed \in BOOLEAN
             /\ sock[l].up \in Seq(Commands) /\ sock[l].down \in Seq(Messages)
  BY SockParts DEF HaInv, HaTyped
<1> QED BY <1>1 DEF HaInv, HaTyped, HaTypeOK, HandleRow, StartRow

-----------------------------------------------------------------------------
(* The page of a run.                                                      *)

\* Summaries come in turn, stored at once or later.
InTurn == \A n \in Arrived : 1..(n - 1) \subseteq Arrived

\* What a read of the stream found joins on to what was written: reads may be
\* written in any order.
ReadsJoin ==
    \A items \in reads :
        /\ items # {} /\ items \subseteq journal
        /\ \A n \in items : \A m \in 1..(n - 1) : m \in items \cup written \cup late

RunPageInv ==
    /\ RunPageTypeOK
    /\ InTurn /\ ReadsJoin /\ NoGaps
    /\ stream = "new" => reads = {}
    /\ cursor \in written \cup {0}

LEMMA Greatest ==
  ASSUME NEW n \in Nat, NEW T \in SUBSET (0..n), T # {}
  PROVE  Max(T) \in T /\ \A y \in T : y <= Max(T)
<1> DEFINE D == {n - x : x \in T}
<1>0. \A x \in T : x \in Nat /\ n - x \in Nat
  OBVIOUS
<1>1. D \in SUBSET Nat /\ D # {}
  <2>1. D \in SUBSET Nat
    BY <1>0
  <2>2. PICK x : x \in T
    OBVIOUS
  <2>3. n - x \in D
    BY <2>2
  <2> QED BY <2>1, <2>3
<1>2. PICK d \in D : \A y \in D : d <= y
  BY <1>1, Least
<1>3. PICK x \in T : d = n - x
  OBVIOUS
<1>4. ASSUME NEW y \in T PROVE x >= y
  <2>1. d <= n - y
    BY <1>2
  <2> QED BY <1>0, <1>3, <2>1
<1>5. Max(T) \in T /\ \A y \in T : Max(T) >= y
  BY <1>4 DEF Max
<1> QED BY <1>5

LEMMA RunPageStarts == RunPageInit => RunPageInv
<1> SUFFICES ASSUME RunPageInit PROVE RunPageInv
  OBVIOUS
<1>1. Cardinality({}) = 0
  BY FS_EmptySet
<1>2. RunPageTypeOK
  BY <1>1, RunPageAssumption DEF RunPageInit, RunPageTypeOK, Summaries
<1>3. InTurn /\ ReadsJoin /\ NoGaps
  BY DEF RunPageInit, InTurn, ReadsJoin, NoGaps, Arrived
<1> QED BY <1>2, <1>3 DEF RunPageInit, RunPageInv

LEMMA RunPageType ==
  RunPageInv /\ [RunPageNext]_runPageVars => RunPageTypeOK'
<1> SUFFICES ASSUME RunPageInv, [RunPageNext]_runPageVars PROVE RunPageTypeOK'
  OBVIOUS
<1>t. /\ journal \subseteq Summaries /\ late \subseteq Summaries /\ unprojected \subseteq journal
      /\ row \in 0..MaxSummaries
      /\ emptied \subseteq journal /\ minSeq \in Summaries
      /\ stream \in {"new", "open", "mute", "closed"}
      /\ cursor \in 0..MaxSummaries
      /\ reads \subseteq SUBSET Summaries /\ Cardinality(reads) <= MaxReads
      /\ written \subseteq Summaries
      /\ polls \subseteq 0..MaxSummaries /\ Cardinality(polls) <= MaxPolls
      /\ onPage \in 0..MaxSummaries
  BY DEF RunPageInv, RunPageTypeOK
<1>c. /\ MaxSummaries \in Nat /\ 0 \in 0..MaxSummaries /\ MaxReads \in Nat /\ MaxPolls \in Nat
      /\ Summaries \in SUBSET (0..MaxSummaries) /\ Summaries \in SUBSET Nat
  BY RunPageAssumption DEF Summaries
<1>f. IsFiniteSet(reads) /\ IsFiniteSet(polls)
  <2>1. IsFiniteSet(0..MaxSummaries) /\ IsFiniteSet(Summaries)
    <3>1. IsFiniteSet(0..MaxSummaries)
      BY <1>c, FS_Interval
    <3> QED BY <1>c, <3>1, FS_Subset
  <2>2. IsFiniteSet(SUBSET Summaries)
    BY <2>1, FS_SUBSET
  <2> QED BY <1>t, <2>1, <2>2, FS_Subset
<1>m. \A T \in SUBSET Summaries : T # {} => Max(T) \in T /\ Min(T) \in T
  BY <1>c, Greatest, MinType
<1>0. CASE UNCHANGED runPageVars
  BY <1>0, <1>t DEF runPageVars, RunPageTypeOK
<1>1. ASSUME NEW n \in Summaries, Stores(n) PROVE RunPageTypeOK'
  BY <1>1, <1>t DEF Stores, RunPageTypeOK
<1>2. ASSUME NEW n \in Summaries, StoreFails(n) PROVE RunPageTypeOK'
  BY <1>2, <1>t DEF StoreFails, RunPageTypeOK
<1>3. ASSUME NEW n \in Summaries, Projects(n) PROVE RunPageTypeOK'
  <2>1. {row, n} \in SUBSET (0..MaxSummaries) /\ {row, n} # {}
    BY <1>t, <1>c
  <2>2. row' \in 0..MaxSummaries
    BY <1>3, <1>c, <2>1, Greatest DEF Projects
  <2> QED BY <1>3, <1>t, <2>2 DEF Projects, RunPageTypeOK
<1>4. ASSUME NEW n \in Summaries, Retains(n) PROVE RunPageTypeOK'
  <2>1. emptied' \subseteq journal /\ journal' = journal
    BY <1>4, <1>t DEF Retains
  <2>2. minSeq' \in Summaries
    BY <1>4, <1>t, <1>m DEF Retains
  <2> QED BY <1>4, <1>t, <2>1, <2>2 DEF Retains, RunPageTypeOK
<1>5. ASSUME OpensStream PROVE RunPageTypeOK'
  <2>1. Found(0) \subseteq Summaries
    BY <1>t DEF Found
  <2>2. {0} \cup Found(0) \in SUBSET (0..MaxSummaries) /\ {0} \cup Found(0) # {}
    BY <1>c, <2>1
  <2>3. cursor' \in 0..MaxSummaries
    BY <1>5, <1>c, <2>2, Greatest DEF OpensStream
  <2>4. polls' \subseteq 0..MaxSummaries /\ Cardinality(polls') <= MaxPolls
    BY <1>5, <1>t DEF OpensStream
  <2> QED BY <1>5, <1>t, <2>1, <2>3, <2>4 DEF OpensStream, RunPageTypeOK
<1>6. ASSUME StreamReads PROVE RunPageTypeOK'
  <2>1. Found(cursor) \subseteq Summaries
    BY <1>t DEF Found
  <2>2. /\ Cardinality(reads) \in Nat
        /\ \/ Cardinality(reads \cup {Found(cursor)}) = Cardinality(reads)
           \/ Cardinality(reads \cup {Found(cursor)}) = Cardinality(reads) + 1
    BY <1>f, FS_AddElement, FS_CardinalityType
  <2>3. reads' \subseteq SUBSET Summaries /\ Cardinality(reads') <= MaxReads
    <3>1. CASE UNCHANGED reads
      BY <1>t, <3>1
    <3>2. CASE Cardinality(reads) < MaxReads /\ reads' = reads \cup {Found(cursor)}
      <4>1. reads' \subseteq SUBSET Summaries
        BY <1>t, <2>1, <3>2
      <4>2. Cardinality(reads) + 1 <= MaxReads
        BY <1>c, <2>2, <3>2
      <4>3. Cardinality(reads') = Cardinality(reads) \/ Cardinality(reads') = Cardinality(reads) + 1
        BY <2>2, <3>2
      <4> QED BY <1>c, <1>t, <2>2, <4>1, <4>2, <4>3
    <3> QED BY <1>6, <3>1, <3>2 DEF StreamReads
  <2> QED BY <1>6, <1>t, <2>3 DEF StreamReads, RunPageTypeOK
<1>7. ASSUME NEW items \in reads, Writes(items) PROVE RunPageTypeOK'
  <2>1. items # {} /\ items \in SUBSET Summaries
    BY <1>t DEF RunPageInv, ReadsJoin
  <2>2. cursor' \in 0..MaxSummaries
    BY <1>7, <1>c, <1>m, <2>1 DEF Writes
  <2>3. Cardinality(reads) \in Nat /\ Cardinality(reads \ {items}) = Cardinality(reads) - 1
    BY <1>f, FS_RemoveElement, FS_CardinalityType
  <2>4. reads' \subseteq SUBSET Summaries /\ Cardinality(reads') <= MaxReads
    BY <1>7, <1>t, <1>c, <2>3 DEF Writes
  <2>5. polls' \subseteq 0..MaxSummaries /\ Cardinality(polls') <= MaxPolls
    BY <1>7, <1>t DEF Writes
  <2> QED BY <1>7, <1>t, <2>1, <2>2, <2>4, <2>5 DEF Writes, RunPageTypeOK
<1>8. ASSUME StreamBreaks PROVE RunPageTypeOK'
  <2>1. Cardinality({}) = 0
    BY FS_EmptySet
  <2> QED BY <1>8, <1>t, <1>c, <2>1 DEF StreamBreaks, RunPageTypeOK
<1>9. ASSUME Polls PROVE RunPageTypeOK'
  BY <1>9, <1>t DEF Polls, RunPageTypeOK
<1>10. ASSUME NEW v \in polls, Applies(v) PROVE RunPageTypeOK'
  <2>1. Cardinality(polls) \in Nat /\ Cardinality(polls \ {v}) = Cardinality(polls) - 1
    BY <1>f, FS_RemoveElement, FS_CardinalityType
  <2>2. polls' \subseteq 0..MaxSummaries /\ Cardinality(polls') <= MaxPolls
    BY <1>10, <1>t, <1>c, <2>1 DEF Applies
  <2> QED BY <1>10, <1>t, <2>2 DEF Applies, RunPageTypeOK
<1> QED BY <1>0, <1>1, <1>2, <1>3, <1>4, <1>5, <1>6, <1>7, <1>8, <1>9, <1>10 DEF RunPageNext

LEMMA RunPageKept ==
  ASSUME RunPageInv, [RunPageNext]_runPageVars PROVE RunPageInv'
<1> DEFINE Rest == InTurn' /\ ReadsJoin' /\ NoGaps' /\ (stream' = "new" => reads' = {})
                   /\ cursor' \in written' \cup {0}
<1>t. /\ journal \subseteq Summaries /\ late \subseteq Summaries
      /\ cursor \in 0..MaxSummaries
      /\ reads \subseteq SUBSET Summaries /\ written \subseteq Summaries
  BY DEF RunPageInv, RunPageTypeOK
<1>i. /\ InTurn /\ ReadsJoin /\ NoGaps
      /\ stream = "new" => reads = {}
      /\ cursor \in written \cup {0}
  BY DEF RunPageInv
<1>c. /\ MaxSummaries \in Nat
      /\ Summaries \in SUBSET (0..MaxSummaries) /\ Summaries \in SUBSET (Nat \ {0})
      /\ \A n \in Summaries : 1..(n - 1) \in SUBSET Summaries
  BY RunPageAssumption DEF Summaries
<1>u. UNCHANGED <<journal, late, stream, cursor, reads, written>> => Rest
  BY <1>i DEF InTurn, ReadsJoin, NoGaps, Arrived
<1>0. ASSUME UNCHANGED runPageVars PROVE Rest
  BY <1>0, <1>u DEF runPageVars
<1>1. ASSUME NEW n \in Summaries, Stores(n) PROVE Rest
  <2>1. journal' = journal \cup {n} /\ UNCHANGED <<late, stream, cursor, reads, written>>
        /\ (n \in late \/ 1..(n - 1) \subseteq Arrived)
    BY <1>1 DEF Stores
  <2>2. InTurn'
    BY <1>i, <2>1 DEF InTurn, Arrived
  <2>3. ReadsJoin' /\ NoGaps'
    BY <1>i, <2>1 DEF ReadsJoin, NoGaps
  <2> QED BY <1>i, <2>1, <2>2, <2>3
<1>2. ASSUME NEW n \in Summaries, StoreFails(n) PROVE Rest
  <2>1. late' = late \cup {n} /\ UNCHANGED <<journal, stream, cursor, reads, written>>
        /\ 1..(n - 1) \subseteq Arrived
    BY <1>2 DEF StoreFails
  <2>2. InTurn'
    BY <1>i, <2>1 DEF InTurn, Arrived
  <2>3. ReadsJoin' /\ NoGaps'
    BY <1>i, <2>1 DEF ReadsJoin, NoGaps
  <2> QED BY <1>i, <2>1, <2>2, <2>3
<1>3. ASSUME NEW n \in Summaries, Projects(n) \/ Retains(n) PROVE Rest
  BY <1>3, <1>u DEF Projects, Retains
<1>4. ASSUME Polls PROVE Rest
  BY <1>4, <1>u DEF Polls
<1>5. ASSUME NEW v \in polls, Applies(v) PROVE Rest
  BY <1>5, <1>u DEF Applies
<1>6. ASSUME OpensStream PROVE Rest
  <2>1. /\ stream' = "open" /\ written' = Found(0) /\ cursor' = Max({0} \cup Found(0))
        /\ UNCHANGED <<journal, late, reads>> /\ reads = {}
    BY <1>6, <1>i DEF OpensStream
  <2>2. Found(0) = journal
    <3>1. \A n \in journal : n > 0
      BY <1>t, <1>c
    <3> QED BY <3>1 DEF Found
  <2>3. {0} \cup Found(0) \in SUBSET (0..MaxSummaries) /\ {0} \cup Found(0) # {}
    <3>1. 0 \in 0..MaxSummaries /\ journal \in SUBSET (0..MaxSummaries)
      BY <1>t, <1>c
    <3> QED BY <2>2, <3>1
  <2>4. cursor' \in written' \cup {0}
    BY <1>c, <2>1, <2>3, Greatest
  <2>5. NoGaps'
    BY <1>i, <2>1, <2>2 DEF NoGaps, InTurn, Arrived
  <2>6. InTurn' /\ ReadsJoin'
    BY <1>i, <2>1 DEF InTurn, ReadsJoin, Arrived
  <2> QED BY <2>1, <2>4, <2>5, <2>6
<1>7. ASSUME StreamReads PROVE Rest
  <2>1. CASE UNCHANGED reads
    <3>1. UNCHANGED <<journal, late, reads, written, cursor>> /\ (stream' = stream \/ stream' = "mute")
      BY <1>7, <2>1 DEF StreamReads
    <3> QED BY <1>i, <3>1 DEF InTurn, ReadsJoin, NoGaps, Arrived
  <2>2. CASE reads' = reads \cup {Found(cursor)} /\ Found(cursor) # {} /\ UNCHANGED stream
    <3>1. UNCHANGED <<journal, late, written, cursor>> /\ stream = "open"
      BY <1>7 DEF StreamReads
    <3>2. ASSUME NEW n \in Found(cursor), NEW m \in 1..(n - 1)
          PROVE  m \in Found(cursor) \cup written \cup late
      <4>1. n \in journal /\ n \in Summaries /\ m \in Summaries
        BY <1>t, <1>c DEF Found
      <4>2. m \in journal \/ m \in late
        BY <1>i, <4>1 DEF InTurn, Arrived
      <4>3. CASE m \in journal /\ ~(m > cursor)
        <5>1. cursor \in written /\ cursor # 0 /\ m \in Nat /\ m <= cursor
          BY <1>i, <1>t, <1>c, <4>1, <4>3
        <5>2. m = cursor \/ m \in 1..(cursor - 1)
          BY <1>t, <1>c, <4>1, <5>1
        <5> QED BY <1>i, <5>1, <5>2 DEF NoGaps
      <4> QED BY <4>2, <4>3 DEF Found
    <3>3. Found(cursor) \subseteq journal
      BY DEF Found
    <3>4. ReadsJoin'
      BY <1>i, <2>2, <3>1, <3>2, <3>3 DEF ReadsJoin
    <3>5. InTurn' /\ NoGaps'
      BY <1>i, <3>1 DEF InTurn, NoGaps, Arrived
    <3> QED BY <1>i, <2>2, <3>1, <3>4, <3>5
  <2> QED BY <1>7, <2>1, <2>2 DEF StreamReads
<1>8. ASSUME NEW items \in reads, Writes(items) PROVE Rest
  <2>1. /\ stream' = stream /\ written' = written \cup items /\ cursor' = Max(items)
        /\ reads' = reads \ {items} /\ UNCHANGED <<journal, late>> /\ stream # "new"
    BY <1>8 DEF Writes
  <2>2. items # {} /\ items \in SUBSET (0..MaxSummaries)
    BY <1>i, <1>t, <1>c DEF ReadsJoin
  <2>3. cursor' \in items
    BY <1>c, <2>1, <2>2, Greatest
  <2>4. NoGaps' /\ ReadsJoin'
    BY <1>i, <2>1 DEF NoGaps, ReadsJoin
  <2>5. InTurn'
    BY <1>i, <2>1 DEF InTurn, Arrived
  <2> QED BY <2>1, <2>3, <2>4, <2>5
<1>9. ASSUME StreamBreaks PROVE Rest
  <2>1. /\ stream' = "closed" /\ reads' = {} /\ cursor' = 0 /\ written' = {}
        /\ UNCHANGED <<journal, late>>
    BY <1>9 DEF StreamBreaks
  <2> QED BY <1>i, <2>1 DEF InTurn, ReadsJoin, NoGaps, Arrived
<1>10. Rest
  BY <1>0, <1>1, <1>2, <1>3, <1>4, <1>5, <1>6, <1>7, <1>8, <1>9 DEF RunPageNext
<1> QED BY <1>10, RunPageType DEF RunPageInv

LEMMA RunPageSound == ASSUME RunPageInv PROVE StreamIsWhole
<1>1. /\ journal \in SUBSET (Nat \ {0}) /\ written \in SUBSET Nat /\ NoGaps
      /\ cursor \in written \cup {0} /\ cursor \in Nat
  BY RunPageAssumption DEF RunPageInv, RunPageTypeOK, Summaries
<1>2. CatchesUp
  <2> SUFFICES ASSUME Found(cursor) = {}, NEW m \in journal PROVE m \in written \cup late
    BY DEF CatchesUp
  <2>1. m <= cursor
    BY <1>1 DEF Found
  <2>2. cursor \in written /\ (m = cursor \/ m \in 1..(cursor - 1))
    BY <1>1, <2>1
  <2> QED BY <1>1, <2>2 DEF NoGaps
<1> QED BY <1>1, <1>2 DEF StreamIsWhole

-----------------------------------------------------------------------------
(* The connections together.                                               *)

PicturesInv == GatewayInv /\ CatalogInv /\ HaInv /\ RunPageInv /\ part \in Parts

\* A step is one of one connection, and leaves the others alone.
LEMMA LinksMove ==
  ASSUME [Next]_vars
  PROVE  /\ [GatewayNext]_gatewayVars
         /\ [CatalogNext]_catalogVars
         /\ [HaNext]_haVars
         /\ [RunPageNext]_runPageVars
         /\ part' = part
<1>1. CASE UNCHANGED vars
  BY <1>1 DEF vars
<1>2. CASE /\ UNCHANGED part /\ part = "gateway" /\ GatewayNext
           /\ UNCHANGED <<catalogVars, haVars, runPageVars>>
  BY <1>2
<1>3. CASE /\ UNCHANGED part /\ part = "catalog" /\ CatalogNext
           /\ UNCHANGED <<gatewayVars, haVars, runPageVars>>
  BY <1>3
<1>4. CASE /\ UNCHANGED part /\ part = "ha" /\ HaNext
           /\ UNCHANGED <<gatewayVars, catalogVars, runPageVars>>
  BY <1>4
<1>5. CASE /\ UNCHANGED part /\ part = "page" /\ RunPageNext
           /\ UNCHANGED <<gatewayVars, catalogVars, haVars>>
  BY <1>5
<1> QED BY <1>1, <1>2, <1>3, <1>4, <1>5 DEF Next

LEMMA PicturesStart == Init => PicturesInv
BY GatewayStarts, CatalogStarts, HaStarts, RunPageStarts DEF Init, PicturesInv

LEMMA PicturesMove == PicturesInv /\ [Next]_vars => PicturesInv'
<1> SUFFICES ASSUME PicturesInv, [Next]_vars PROVE PicturesInv'
  OBVIOUS
<1>1. GatewayInv'
  BY LinksMove, GatewayKept DEF PicturesInv
<1>2. CatalogInv'
  BY LinksMove, CatalogKept DEF PicturesInv
<1>3. HaInv'
  BY LinksMove, HaKept DEF PicturesInv
<1>4. RunPageInv'
  BY LinksMove, RunPageKept DEF PicturesInv
<1>5. part' \in Parts
  BY LinksMove DEF PicturesInv
<1> QED BY <1>1, <1>2, <1>3, <1>4, <1>5 DEF PicturesInv

\* The sockets, the messages on their way over them, the tables and what handlers hold keep
\* their types, for any number of sockets, requests, summaries, lost links and refusals.
THEOREM LinksType == Spec => []LinksTypeOK
<1>1. PicturesInv => LinksTypeOK
  <2> SUFFICES ASSUME PicturesInv PROVE LinksTypeOK
    OBVIOUS
  <2>1. GatewayTypeOK
    BY DEF PicturesInv, GatewayInv
  <2>2. CatalogTypeOK
    BY DEF PicturesInv, CatalogInv
  <2>3. HaTypeOK
    BY HaSound DEF PicturesInv
  <2>4. RunPageTypeOK
    BY DEF PicturesInv, RunPageInv
  <2> QED BY <2>1, <2>2, <2>3, <2>4 DEF PicturesInv, LinksTypeOK
<1> QED BY <1>1, PicturesStart, PicturesMove, PTL DEF Spec

\* A socket that is open and has introduced itself is the one the hub holds, whatever sockets
\* overlap and whichever closes late; a request about a device that is answered with success
\* was carried out, and none is carried out twice; what Home Assistant starts a run for is
\* newer than what the connector knew, and that no older than what the last synchronisation
\* brought; and the stream of a run leaves out only summaries that came late, and when it
\* finds no more, the page was told of all the others.
THEOREM PicturesKept == Spec => []PicturesAreTrue
<1>1. PicturesInv => PicturesAreTrue
  <2> SUFFICES ASSUME PicturesInv PROVE PicturesAreTrue
    OBVIOUS
  <2>1. HubSpeaks
    BY DEF PicturesInv, GatewayInv
  <2>2. AnswersAreTrue
    BY CatalogSound DEF PicturesInv
  <2>3. StartsAreNews
    BY HaSound DEF PicturesInv
  <2>4. StreamIsWhole
    BY RunPageSound DEF PicturesInv
  <2> QED BY <2>1, <2>2, <2>3, <2>4 DEF PicturesAreTrue
<1> QED BY <1>1, PicturesStart, PicturesMove, PTL DEF Spec
=============================================================================
