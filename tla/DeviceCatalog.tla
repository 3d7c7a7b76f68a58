--------------------------- MODULE DeviceCatalog ---------------------------
(***************************************************************************)
(* The devices of a house: the table the runtime keeps, the copy of it the *)
(* cloud shows, and the requests of users, which the cloud hands to the    *)
(* runtime and waits for with a timer.                                     *)
(*                                                                         *)
(* The copy is written by three hands that do not wait for each other: a   *)
(* snapshot, device by device; the reply to a request; and the request,    *)
(* once it has its reply.                                                  *)
(***************************************************************************)
EXTENDS Integers, Sequences

CONSTANTS
    Devices,         \* ids of devices
    HubDevices,      \* those that Home Assistant has, and is awaited for
    MaxRequests,     \* bound on the requests of users
    MaxMishaps       \* bound on lost connections and changes nobody asked for

ASSUME CatalogAssumption == Devices # {} /\ MaxRequests \in Nat /\ MaxMishaps \in Nat

VARIABLES
    home,            \* device -> row of the runtime's table `devices'
    shown,           \* device -> row of the cloud's table `site_devices'
    request,         \* request -> how far it is
    calling,         \* requests for which the runtime awaits Home Assistant
    asks,            \* requests on their way to the runtime
    tells,           \* messages of the runtime not yet handled
    writer,          \* how far the cloud is with a message
    linked,          \* the socket is open
    carried,         \* history: request -> times it was carried out
    mishaps          \* lost connections and changes so far

catalogVars == <<home, shown, request, calling, asks, tells, writer, linked, carried,
                 mishaps>>

Requests == 1..MaxRequests
Kinds  == {"create", "act", "update", "delete", "integrate", "detail"}
States == 0..2                                \* readings that are told apart
NoRow  == [up |-> FALSE, state |-> -1]        \* the table has no such row
Rows   == [up : BOOLEAN, state : States] \cup {NoRow}
Exists(d) == home[d] # NoRow

First     == CHOOSE d \in Devices : TRUE
Asked     == [id : Requests, kind : Kinds, device : Devices]
Replies   == [type : {"reply"}, to : Asked, ok : BOOLEAN, row : Rows]
Snapshots == [type : {"snapshot"}, rows : [Devices -> Rows]]
Idle      == [at |-> "idle"]

CatalogTypeOK ==
    /\ home \in [Devices -> Rows] /\ shown \in [Devices -> Rows]
    /\ request \in [Requests ->
          [at : {"new", "waiting"}] \cup [at : {"writing"}, reply : Replies]
          \cup [at : {"done"}, result : {"ok", "refused", "offline"}]]
    /\ calling \subseteq Asked /\ asks \in Seq(Asked)
    /\ tells \in Seq(Replies \cup Snapshots)
    /\ writer \in {Idle} \cup [at : {"replacing"}, left : SUBSET Devices, rows : [Devices -> Rows]]
                 \cup [at : {"accepting"}, reply : Replies]
    /\ linked \in BOOLEAN
    /\ carried \in [Requests -> 0..2]
    /\ mishaps \in 0..MaxMishaps

CatalogInit ==
    /\ home = [d \in Devices |-> IF d = First THEN [up |-> TRUE, state |-> 0] ELSE NoRow]
    /\ shown = [d \in Devices |-> NoRow]
    /\ request = [r \in Requests |-> [at |-> "new"]]
    /\ calling = {} /\ asks = << >> /\ tells = << >> /\ writer = Idle
    /\ linked = TRUE
    /\ carried = [r \in Requests |-> 0]
    /\ mishaps = 0

-----------------------------------------------------------------------------
(* The cloud: a request, and the runtime's messages. *)

Over(result) == [at |-> "done", result |-> result]

\* A request is refused without a socket.  Otherwise it is pending under a new
\* id, its timer runs, and the runtime is told.
Asks(r, kind, d) ==
    /\ request[r].at = "new"
    /\ \A q \in 1..(r - 1) : request[q].at # "new"
    /\ kind = "detail" => d = First
    /\ IF linked
       THEN /\ request' = [request EXCEPT ![r] = [at |-> "waiting"]]
            /\ asks' = Append(asks, [id |-> r, kind |-> kind, device |-> d])
       ELSE request' = [request EXCEPT ![r] = Over("offline")] /\ UNCHANGED asks
    /\ UNCHANGED <<home, shown, calling, tells, writer, linked, carried, mishaps>>

\* Mutant: a status that is not in the contract.
TimesOutNamed(r) ==
    /\ request[r].at = "waiting"
    /\ request' = [request EXCEPT ![r] = Over("timeout")]
    /\ UNCHANGED <<home, shown, calling, asks, tells, writer, linked, carried, mishaps>>

\* The timer of a request that is pending.
TimesOut(r) ==
    /\ request[r].at = "waiting"
    /\ request' = [request EXCEPT ![r] = Over("offline")]
    /\ UNCHANGED <<home, shown, calling, asks, tells, writer, linked, carried, mishaps>>

\* What a reply does to the copy.
Written(m) ==
    IF ~m.ok THEN shown
    ELSE IF m.to.kind = "delete" THEN [shown EXCEPT ![m.to.device] = NoRow]
    ELSE IF m.row = NoRow THEN shown
    ELSE [shown EXCEPT ![m.to.device] = m.row]

\* The next message: a snapshot is begun, a reply is written.
TakesMessage ==
    /\ writer = Idle
    /\ tells # << >>
    /\ tells' = Tail(tells)
    /\ LET m == Head(tells)
       IN  IF m.type = "snapshot"
           THEN /\ writer' = [at |-> "replacing", rows |-> m.rows,
                              left |-> {d \in Devices : m.rows[d] # NoRow}]
                /\ UNCHANGED shown
           ELSE /\ writer' = [at |-> "accepting", reply |-> m]
                /\ shown' = Written(m)
    /\ UNCHANGED <<home, request, calling, asks, linked, carried, mishaps>>

\* replaceSiteDevices: one row after the other, in the order of the snapshot ...
ReplacesOne ==
    /\ writer.at = "replacing"
    /\ writer.left # {}
    /\ LET d == CHOOSE x \in writer.left : TRUE
       IN  /\ shown' = [shown EXCEPT ![d] = writer.rows[d]]
           /\ writer' = [writer EXCEPT !.left = @ \ {d}]
    /\ UNCHANGED <<home, request, calling, asks, tells, linked, carried, mishaps>>

\* Mutant: what the snapshot does not name stays as it is.
HidesNone ==
    /\ writer.at = "replacing"
    /\ writer.left = {}
    /\ writer' = Idle
    /\ UNCHANGED <<home, shown, request, calling, asks, tells, linked, carried, mishaps>>

\* ... and what the snapshot does not name is unavailable.
HidesOthers ==
    /\ writer.at = "replacing"
    /\ writer.left = {}
    /\ shown' = [d \in Devices |->
          IF writer.rows[d] = NoRow /\ shown[d] # NoRow THEN [shown[d] EXCEPT !.up = FALSE]
          ELSE shown[d]]
    /\ writer' = Idle
    /\ UNCHANGED <<home, request, calling, asks, tells, linked, carried, mishaps>>

\* accept...: the reply goes to the request that is pending, if it is; the timer
\* is cleared.
Accepts ==
    /\ writer.at = "accepting"
    /\ LET m == writer.reply
           r == m.to.id
       IN  request' =
              IF request[r].at # "waiting" THEN request
              ELSE IF ~m.ok THEN [request EXCEPT ![r] = Over("refused")]
              ELSE [request EXCEPT ![r] = [at |-> "writing", reply |-> m]]
    /\ writer' = Idle
    /\ UNCHANGED <<home, shown, calling, asks, tells, linked, carried, mishaps>>

\* The request writes the reply once more, and answers the user.
WritesAgain(r) ==
    /\ request[r].at = "writing"
    /\ shown' = Written(request[r].reply)
    /\ request' = [request EXCEPT ![r] = Over("ok")]
    /\ UNCHANGED <<home, calling, asks, tells, writer, linked, carried, mishaps>>

-----------------------------------------------------------------------------
(* The runtime. *)

Reading(row) == [row EXCEPT !.up = TRUE, !.state = (@ + 1) % 3]
NewRow == [up |-> TRUE, state |-> 0]

\* A device of that name is used again; an action sets the reading; a name is
\* set; a row is removed.
Created(row) == IF row = NoRow THEN NewRow ELSE row
Acted(row)   == Reading(row)
Renamed(row) == Reading(row)
Removed      == NoRow

\* What a request that is carried out leaves of its device.
Outcome(q) ==
    LET row == home[q.device]
    IN  CASE q.kind \in {"create", "integrate"} -> Created(row)
          [] q.kind = "act"    -> Acted(row)
          [] q.kind = "update" -> Renamed(row)
          [] q.kind = "delete" -> Removed
          [] OTHER -> row

\* What the handlers ask of the device first.
AdmitsAction(d) == Exists(d) /\ home[d].up
AdmitsUpdate(d) == Exists(d)
AdmitsDelete(d) == Exists(d)

Admits(q) ==
    /\ q.kind = "act"       => AdmitsAction(q.device)
    /\ q.kind = "update"    => AdmitsUpdate(q.device)
    /\ q.kind = "delete"    => AdmitsDelete(q.device)
    /\ q.kind = "integrate" => q.device \in HubDevices

\* A reply, behind the table as it is now if it has changed.
Tell(q, ok, rows) ==
    LET reply    == [type |-> "reply", to |-> q, ok |-> ok,
                     row |-> IF ok THEN rows[q.device] ELSE NoRow]
        snapshot == [type |-> "snapshot", rows |-> rows]
    IN  tells' = IF ~linked THEN tells
                 ELSE IF ok /\ q.kind # "detail" THEN tells \o <<snapshot, reply>>
                 ELSE Append(tells, reply)

CarryOut(q) ==
    /\ home' = [home EXCEPT ![q.device] = Outcome(q)]
    /\ carried' = [carried EXCEPT ![q.id] = @ + 1]
    /\ Tell(q, TRUE, home')

Refuse(q) ==
    /\ Tell(q, FALSE, home)
    /\ UNCHANGED <<home, carried>>

\* A request arrives.  What concerns the runtime alone is done at once.
TakesRequest ==
    /\ asks # << >>
    /\ asks' = Tail(asks)
    /\ LET q == Head(asks)
       IN  IF ~Admits(q) THEN Refuse(q) /\ UNCHANGED calling
           ELSE IF q.device \in HubDevices /\ q.kind # "detail"
           THEN calling' = calling \cup {q} /\ UNCHANGED <<home, tells, carried>>
           ELSE CarryOut(q) /\ UNCHANGED calling
    /\ UNCHANGED <<shown, request, writer, linked, mishaps>>

\* Home Assistant has done it.  An action or a name finds no row if the device
\* was deleted in the meantime.
CallReturns(q) ==
    /\ q \in calling
    /\ calling' = calling \ {q}
    /\ IF q.kind \in {"act", "update"} /\ ~Exists(q.device)
       THEN Refuse(q) ELSE CarryOut(q)
    /\ UNCHANGED <<shown, request, asks, writer, linked, mishaps>>

\* Home Assistant refuses, or does not answer in time.
CallFails(q) ==
    /\ q \in calling
    /\ calling' = calling \ {q}
    /\ Refuse(q)
    /\ UNCHANGED <<shown, request, asks, writer, linked, mishaps>>

\* A device of Home Assistant appears, changes, or is gone when the hub is asked
\* for its entities.  Each is reported.
Changes(d) ==
    /\ d \in HubDevices
    /\ mishaps < MaxMishaps
    /\ \E row \in IF Exists(d) THEN {Reading(home[d]), [home[d] EXCEPT !.up = FALSE]} ELSE {NewRow} :
          home' = [home EXCEPT ![d] = row]
    /\ tells' = IF linked THEN Append(tells, [type |-> "snapshot", rows |-> home']) ELSE tells
    /\ mishaps' = mishaps + 1
    /\ UNCHANGED <<shown, request, calling, asks, writer, linked, carried>>

\* reportAll, every five seconds.
Reports ==
    /\ linked
    /\ tells = << >>
    /\ writer = Idle
    /\ tells' = <<[type |-> "snapshot", rows |-> home]>>
    /\ UNCHANGED <<home, shown, request, calling, asks, writer, linked, carried, mishaps>>

\* The connection is lost with what is on its way; what has arrived is handled.
Drops ==
    /\ linked
    /\ mishaps < MaxMishaps
    /\ mishaps' = mishaps + 1
    /\ linked' = FALSE
    /\ asks' = << >>
    /\ \E n \in 0..Len(tells) : tells' = SubSeq(tells, 1, n)
    /\ UNCHANGED <<home, shown, request, calling, writer, carried>>

Reconnects ==
    /\ ~linked
    /\ linked' = TRUE
    /\ UNCHANGED <<home, shown, request, calling, asks, tells, writer, carried, mishaps>>

CatalogNext ==
    \/ TakesMessage \/ ReplacesOne \/ HidesOthers \/ Accepts \/ TakesRequest \/ Reports \/ Drops \/ Reconnects
    \/ \E d \in Devices : Changes(d)
    \/ \E q \in calling : CallReturns(q) \/ CallFails(q)
    \/ \E r \in Requests :
          \/ TimesOut(r) \/ WritesAgain(r)
          \/ \E kind \in Kinds, d \in Devices : Asks(r, kind, d)

\* Timers, promise chains, calls with a timeout, and the interval of the report.
CatalogFairness ==
    /\ WF_catalogVars(TakesMessage \/ ReplacesOne \/ HidesOthers \/ Accepts)
    /\ WF_catalogVars(Reports)
    /\ WF_catalogVars(Reconnects)
    /\ WF_catalogVars(\E q \in calling : CallReturns(q) \/ CallFails(q))
    /\ \A r \in Requests : WF_catalogVars(TimesOut(r) \/ WritesAgain(r))

CatalogSpec == CatalogInit /\ [][CatalogNext]_catalogVars /\ CatalogFairness

-----------------------------------------------------------------------------
(***************************************************************************)
(* What a user is told has happened: a request answered with success was   *)
(* carried out at home, once, and none is carried out twice, whatever      *)
(* replies are late and whatever connections are lost.                     *)
(***************************************************************************)
AnswersAreTrue ==
    \A r \in Requests :
        /\ carried[r] <= 1
        /\ request[r] = Over("ok") => carried[r] = 1

(***************************************************************************)
(* What is shown comes to agree with the house: when nobody asks for       *)
(* anything any more, the rows shown as available are the ones available   *)
(* at home, with their states, although a request that writes its reply a  *)
(* second time may undo a newer snapshot or bring a deleted row back.      *)
(***************************************************************************)
Available(rows) == {d \in Devices : rows[d].up}

ShownAgrees ==
    <>[](/\ Available(shown) = Available(home)
         /\ \A d \in Available(home) : shown[d] = home[d])
=============================================================================
