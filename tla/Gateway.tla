------------------------------ MODULE Gateway ------------------------------
(***************************************************************************)
(* The connection of a runtime: the client that opens a socket, says hello *)
(* and beats every 15 seconds, and opens another when that one is closed;  *)
(* the hub of the cloud, which holds the socket it sends to; and the mark  *)
(* `online' of the runtime's registration, which hellos, heartbeats, closed*)
(* sockets and silence write, each in a query of its own.                  *)
(*                                                                         *)
(* A socket has an end at each side.  The messages of a socket are handled *)
(* one after the other, also after it was closed, and beside those of      *)
(* other sockets.                                                          *)
(***************************************************************************)
EXTENDS Integers, Sequences

CONSTANTS
    MaxSockets,      \* bound on the sockets the client opens
    MaxFaults,       \* bound on lost sockets, crashes and failed queries
    MaxWaiting       \* bound on the messages that wait at a socket

ASSUME GatewayAssumption == MaxSockets \in Nat /\ MaxFaults \in Nat

VARIABLES
    client,          \* state of the client and its counter of connections
    last,            \* number of the last socket
    here,            \* socket -> its end at the runtime
    there,           \* socket -> its end at the cloud
    dead,            \* sockets on which nothing passes any more, unnoticed
    gen,             \* socket -> generation the client gave it
    auth,            \* socket -> the look at its token
    waiting,         \* socket -> messages not yet handled
    handling,        \* socket -> the message whose query is awaited
    hub,             \* the socket the cloud sends to, 0 when there is none
    mark,            \* row of runtime_registrations
    leaving,         \* generations of the offline updates under way
    faults           \* number of faults so far

clientVars  == <<client, last>>
socketVars  == <<here, there, dead, gen>>
cloudVars   == <<auth, waiting, handling, hub>>
rowVars     == <<mark, leaving>>
gatewayVars == <<clientVars, socketVars, cloudVars, rowVars, faults>>

Links == 1..MaxSockets

\* What the cloud forgets after three of the client's intervals.
SilentAfter == 3

GatewayTypeOK ==
    /\ client \in [at : {"off", "waiting", "connecting", "open"}, generation : 0..MaxSockets]
    /\ last \in 0..MaxSockets
    /\ here \in [Links -> {"none", "open", "closed"}]
    /\ there \in [Links -> {"none", "open", "closing", "closed"}]
    /\ dead \subseteq Links
    /\ gen \in [Links -> 0..MaxSockets]
    /\ auth \in [Links -> {"pending", "known", "gone"}]
    /\ \A s \in Links : waiting[s] \in Seq({"hello", "heartbeat"})
    /\ handling \in [Links -> {"none", "hello", "heartbeat"}]
    /\ hub \in 0..MaxSockets
    /\ mark \in [online : BOOLEAN, generation : 0..MaxSockets, unseen : 0..SilentAfter]
    /\ leaving \subseteq 0..MaxSockets
    /\ faults \in 0..MaxFaults

GatewayInit ==
    /\ client = [at |-> "off", generation |-> 0]
    /\ last = 0
    /\ here = [s \in Links |-> "none"]
    /\ there = [s \in Links |-> "none"]
    /\ dead = {}
    /\ gen = [s \in Links |-> 0]
    /\ auth = [s \in Links |-> "gone"]
    /\ waiting = [s \in Links |-> << >>]
    /\ handling = [s \in Links |-> "none"]
    /\ hub = 0
    /\ mark = [online |-> FALSE, generation |-> 0, unseen |-> SilentAfter]
    /\ leaving = {}
    /\ faults = 0

-----------------------------------------------------------------------------
(* The client. *)

\* The process starts, or the second after a close is over: connect().
Connect ==
    /\ client.at \in {"off", "waiting"}
    /\ last < MaxSockets
    /\ client' = [at |-> "connecting", generation |-> client.generation + 1]
    /\ last' = last + 1
    /\ UNCHANGED <<socketVars, cloudVars, rowVars, faults>>

\* The socket opens: the cloud looks up the token, the client says hello.
Opens ==
    /\ client.at = "connecting"
    /\ client' = [client EXCEPT !.at = "open"]
    /\ here' = [here EXCEPT ![last] = "open"]
    /\ there' = [there EXCEPT ![last] = "open"]
    /\ gen' = [gen EXCEPT ![last] = client.generation]
    /\ auth' = [auth EXCEPT ![last] = "pending"]
    /\ waiting' = [waiting EXCEPT ![last] = <<"hello">>]
    /\ UNCHANGED <<last, dead, handling, hub, rowVars, faults>>

\* The client's end of a socket closes; it connects again a second later.
HereCloses(s) ==
    /\ here' = [here EXCEPT ![s] = "closed"]
    /\ client' = [client EXCEPT !.at = "waiting"]
    /\ UNCHANGED <<last, gen, auth, handling, hub, rowVars>>

\* A close of the cloud arrives.
SeesClose(s) ==
    /\ here[s] = "open"
    /\ there[s] \in {"closing", "closed"}
    /\ s \notin dead
    /\ HereCloses(s)
    /\ UNCHANGED <<there, dead, waiting, faults>>

\* setIdentity() closes the socket to open one under the new token.
TakesIdentity(s) ==
    /\ here[s] = "open"
    /\ faults < MaxFaults
    /\ HereCloses(s)
    /\ faults' = faults + 1
    /\ UNCHANGED <<there, dead, waiting>>

\* The connection is lost with the last of what was sent.
Drop(s) ==
    /\ here[s] = "open"
    /\ s \notin dead
    /\ faults < MaxFaults
    /\ \E n \in 0..Len(waiting[s]) :
          waiting' = [waiting EXCEPT ![s] = SubSeq(waiting[s], 1, n)]
    /\ HereCloses(s)
    /\ faults' = faults + 1
    /\ UNCHANGED <<there, dead>>

\* Nothing passes any more, and nobody notices.
GoesDead(s) ==
    /\ here[s] = "open"
    /\ s \notin dead
    /\ faults < MaxFaults
    /\ dead' = dead \cup {s}
    /\ faults' = faults + 1
    /\ UNCHANGED <<clientVars, here, there, gen, cloudVars, rowVars>>

\* The client's transport gives up on such a socket: error, then close.
GivesUp(s) ==
    /\ here[s] = "open"
    /\ s \in dead
    /\ HereCloses(s)
    /\ UNCHANGED <<there, dead, waiting, faults>>

\* The runtime stops.  Its sockets are closed, or, when power is cut, they are
\* dead; what was on its way is lost then.
RuntimeStops ==
    /\ client.at # "off"
    /\ faults < MaxFaults
    /\ client' = [at |-> "off", generation |-> 0]
    /\ here' = [s \in Links |-> IF here[s] = "open" THEN "closed" ELSE here[s]]
    /\ dead' \in {dead, dead \cup {s \in Links : here[s] = "open"}}
    /\ faults' = faults + 1
    /\ UNCHANGED <<last, there, gen, cloudVars, rowVars>>

\* Fifteen seconds pass: the interval of the open socket sends a heartbeat.
\* What was sent fifteen seconds ago has been handled (Prompt).
Prompt == \A s \in Links :
    /\ handling[s] = "none"
    /\ auth[s] # "pending"
    /\ waiting[s] = << >>

Tick ==
    /\ Prompt
    /\ leaving = {}
    /\ waiting' = [s \in Links |->
          IF /\ here[s] = "open" /\ there[s] # "closed" /\ s \notin dead
             /\ Len(waiting[s]) < MaxWaiting
          THEN Append(waiting[s], "heartbeat") ELSE waiting[s]]
    /\ mark' = [mark EXCEPT !.unseen = IF @ < SilentAfter THEN @ + 1 ELSE @]
    /\ UNCHANGED <<clientVars, socketVars, auth, handling, hub, leaving, faults>>

-----------------------------------------------------------------------------
(* The cloud. *)

\* The token is known: the close of the socket is listened to, and the messages
\* that waited for the identity are queued.
Authenticates(s) ==
    /\ auth[s] = "pending"
    /\ auth' = [auth EXCEPT ![s] = "known"]
    /\ UNCHANGED <<clientVars, socketVars, waiting, handling, hub, rowVars, faults>>

\* Mutant: the socket that is replaced stays open.
BindHubKeepsBoth(s) ==
    /\ hub' = s
    /\ UNCHANGED there

\* attachRuntime: the socket enters the hub, and one it replaces is closed.
BindHub(s) ==
    /\ hub' = s
    /\ there' = [t \in Links |->
          IF t = hub /\ t # s /\ there[t] = "open" THEN "closing" ELSE there[t]]

\* A hello or a heartbeat is taken up, whether or not its socket is still open.
Takes(s) ==
    /\ auth[s] = "known"
    /\ handling[s] = "none"
    /\ waiting[s] # << >>
    /\ BindHub(s)
    /\ handling' = [handling EXCEPT ![s] = Head(waiting[s])]
    /\ waiting' = [waiting EXCEPT ![s] = Tail(@)]
    /\ UNCHANGED <<clientVars, here, dead, gen, auth, rowVars, faults>>

\* markRuntimeHello
MarksHello(s) ==
    /\ handling[s] = "hello"
    /\ mark' = [online |-> TRUE, generation |-> gen[s], unseen |-> 0]
    /\ handling' = [handling EXCEPT ![s] = "none"]
    /\ UNCHANGED <<clientVars, socketVars, auth, waiting, hub, leaving, faults>>

\* Mutant: a heartbeat notes the time only.
TouchesTime(s) ==
    /\ handling[s] = "heartbeat"
    /\ mark' = [mark EXCEPT !.unseen = 0]
    /\ handling' = [handling EXCEPT ![s] = "none"]
    /\ UNCHANGED <<clientVars, socketVars, auth, waiting, hub, leaving, faults>>

\* touchRuntime
Touches(s) ==
    /\ handling[s] = "heartbeat"
    /\ mark' = [mark EXCEPT !.online = TRUE, !.unseen = 0]
    /\ handling' = [handling EXCEPT ![s] = "none"]
    /\ UNCHANGED <<clientVars, socketVars, auth, waiting, hub, leaving, faults>>

\* The query fails, which nobody hears of.
MessageFails(s) ==
    /\ handling[s] # "none"
    /\ faults < MaxFaults
    /\ handling' = [handling EXCEPT ![s] = "none"]
    /\ faults' = faults + 1
    /\ UNCHANGED <<clientVars, socketVars, auth, waiting, hub, rowVars>>

\* detachRuntime leaves the hub to whoever holds it now.
Detaches(s) == hub = s

\* The close of a socket is noticed at the cloud.
HearsClose(s) ==
    /\ there[s] \in {"open", "closing"}
    /\ here[s] = "closed"
    /\ there' = [there EXCEPT ![s] = "closed"]
    /\ IF auth[s] = "known" /\ Detaches(s)
       THEN /\ hub' = 0
            /\ leaving' = leaving \cup {gen[hub]}
       ELSE UNCHANGED <<hub, leaving>>
    /\ UNCHANGED <<clientVars, here, dead, gen, auth, waiting, handling, mark, faults>>

\* markRuntimeOffline, for the generation that left
MarksOffline(g) ==
    /\ g \in leaving
    /\ leaving' = leaving \ {g}
    /\ mark' = [mark EXCEPT !.online = mark.generation # g /\ @]
    /\ UNCHANGED <<clientVars, socketVars, cloudVars, faults>>

\* expireSilentRuntimes
Expires ==
    /\ mark.online
    /\ mark.unseen = SilentAfter
    /\ mark' = [mark EXCEPT !.online = FALSE]
    /\ UNCHANGED <<clientVars, socketVars, cloudVars, leaving, faults>>

\* The cloud's process ends and starts again: hub, queues and sockets are gone.
CloudRestarts ==
    /\ faults < MaxFaults
    /\ faults' = faults + 1
    /\ there' = [s \in Links |-> IF there[s] = "none" THEN "none" ELSE "closed"]
    /\ auth' = [s \in Links |-> "gone"]
    /\ waiting' = [s \in Links |-> << >>]
    /\ handling' = [s \in Links |-> "none"]
    /\ hub' = 0
    /\ leaving' = {}
    /\ UNCHANGED <<clientVars, here, dead, gen, mark>>

GatewayNext ==
    \/ Connect \/ Opens \/ RuntimeStops \/ Tick \/ Expires \/ CloudRestarts
    \/ \E s \in Links :
          \/ SeesClose(s) \/ TakesIdentity(s) \/ Drop(s) \/ GoesDead(s) \/ GivesUp(s)
          \/ Authenticates(s) \/ Takes(s) \/ MarksHello(s) \/ Touches(s)
          \/ MessageFails(s) \/ HearsClose(s)
    \/ \E g \in leaving : MarksOffline(g)

\* Timers, closes and promise chains.
GatewayFairness ==
    /\ WF_gatewayVars(client.at = "waiting" /\ Connect)
    /\ WF_gatewayVars(Opens)
    /\ WF_gatewayVars(Tick)
    /\ WF_gatewayVars(Expires)
    /\ \A s \in Links :
          /\ WF_gatewayVars(SeesClose(s) \/ GivesUp(s))
          /\ WF_gatewayVars(Authenticates(s))
          /\ WF_gatewayVars(Takes(s) \/ MarksHello(s) \/ Touches(s))
          /\ WF_gatewayVars(s \notin dead /\ HearsClose(s))
    /\ \A g \in 0..MaxSockets : WF_gatewayVars(MarksOffline(g))

GatewaySpec == GatewayInit /\ [][GatewayNext]_gatewayVars /\ GatewayFairness

-----------------------------------------------------------------------------
(* sendToRuntime: what the cloud sends reaches the runtime. *)
Reaches(s) == s # 0 /\ hub = s /\ there[s] = "open" /\ here[s] = "open" /\ s \notin dead

\* The model has no socket left to open.
Exhausted == last = MaxSockets /\ client.at = "waiting"

(***************************************************************************)
(* Every socket that is open at the cloud and has been heard of is the one *)
(* the hub holds, so that no two of them speak for the runtime and the     *)
(* close of an old socket takes nothing from a new one, whatever message   *)
(* is handled late.                                                        *)
(***************************************************************************)
HubSpeaks ==
    \A s \in Links :
        /\ there[s] = "open" /\ auth[s] = "known" /\ waiting[s] = << >>
        /\ here[s] = "open" \/ s \in dead
        => hub = s

(***************************************************************************)
(* A runtime that runs is reached again and shown online in the end,       *)
(* although late messages of a lost socket close the one that follows it,  *)
(* and late offline updates of an earlier life carry the same generation.  *)
(***************************************************************************)
ComesBack ==
    <>[](client.at # "off" /\ ~Exhausted) => <>[](Reaches(last) /\ mark.online)

(***************************************************************************)
(* A runtime that stopped for good is shown offline in the end, although   *)
(* its last messages are handled after its socket was closed, and although *)
(* the cloud may never hear of the close.                                  *)
(***************************************************************************)
GoesOffline ==
    <>[](client.at = "off") => <>[](~mark.online)

RuntimeIsShown == ComesBack /\ GoesOffline
=============================================================================
