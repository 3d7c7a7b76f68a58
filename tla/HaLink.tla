------------------------------- MODULE HaLink -------------------------------
(***************************************************************************)
(* The link to Home Assistant.  A connector opens a socket, authenticates, *)
(* asks for all states and for the events, is ready once it has the states *)
(* and its subscription, and opens another socket when that one closes.    *)
(* When the owner saves another address the connector is stopped and a new *)
(* one started, beside the last messages of the old one.                   *)
(*                                                                         *)
(* One entity stands for all: `house' holds what Home Assistant has made   *)
(* of it, and what a connector knows of it is a place in that sequence.    *)
(***************************************************************************)
EXTENDS Integers, Sequences

CONSTANTS
    MaxHandles,      \* bound on the connectors started
    MaxSocks,        \* bound on the sockets they open
    MaxChanges,      \* bound on the changes of the entity
    MaxHiccups       \* bound on lost sockets and refusals

ASSUME HaAssumption ==
    /\ MaxHandles \in Nat \ {0} /\ MaxSocks \in Nat \ {0}
    /\ MaxChanges \in Nat /\ MaxHiccups \in Nat

VARIABLES
    house,           \* states of the entity, the last one is the present one
    handle,          \* connector -> its state
    ha,              \* the connector the runtime uses
    sock,            \* socket -> its state, and what is on its way
    shownHa,         \* the status last reported to the cloud
    starts,          \* history: runs started by a change
    hiccups

haVars == <<house, handle, ha, sock, shownHa, starts, hiccups>>

Handles == 1..MaxHandles
Socks   == 1..MaxSocks
Nothing == 0                                  \* no number: unknown, unavailable
Levels  == [state : {Nothing, 1, 2}, bright : 0..1]
Triggers == {"ha.state_changed", "device.changed", "brightness"}

Statuses == {"connecting", "authenticating", "synchronizing", "ready", "disconnected", "error"}
Commands == {[cmd |-> c] : c \in {"auth", "states", "subscribe"}}
Messages == [type : {"auth_required", "auth_ok", "auth_invalid"}]
            \cup [type : {"result"}, of : Commands, ok : BOOLEAN, at : 0..(MaxChanges + 1)]
            \cup [type : {"event"}, at : 1..(MaxChanges + 1)]

HaTypeOK ==
    /\ house \in Seq(Levels)
    /\ handle \in [Handles ->
          [status : Statuses, snapshotDone : BOOLEAN, subscribed : BOOLEAN, stopped : BOOLEAN,
           known : 0..(MaxChanges + 1), synced : 0..(MaxChanges + 1), sock : 0..MaxSocks,
           waits : BOOLEAN]]
    /\ ha \in Handles
    /\ \A l \in Socks :
          /\ sock[l].at \in {"none", "connecting", "open", "lost", "closed"}
          /\ sock[l].of \in 0..MaxHandles /\ sock[l].feed \in BOOLEAN
          /\ sock[l].up \in Seq(Commands) /\ sock[l].down \in Seq(Messages)
    /\ shownHa \in Statuses
    /\ starts \subseteq [trigger : Triggers, at : 1..(MaxChanges + 1),
                         from : 0..(MaxChanges + 1), synced : 0..(MaxChanges + 1)]
    /\ hiccups \in 0..MaxHiccups

NoSock    == [at |-> "none", of |-> 0, feed |-> FALSE, up |-> << >>, down |-> << >>]
NewHandle == [status |-> "connecting", snapshotDone |-> FALSE, subscribed |-> FALSE,
              stopped |-> FALSE, known |-> 0, synced |-> 0, sock |-> 0, waits |-> FALSE]
Opened(h) == [NoSock EXCEPT !.at = "connecting", !.of = h]
NextSock  == CHOOSE l \in Socks : sock[l].at = "none" /\ \A k \in 1..(l - 1) : sock[k].at # "none"
SocksLeft == \E l \in Socks : sock[l].at = "none"

HaInit ==
    /\ house = <<[state |-> 1, bright |-> 0]>>
    /\ handle = [h \in Handles |-> IF h = 1 THEN [NewHandle EXCEPT !.sock = 1] ELSE NewHandle]
    /\ ha = 1
    /\ sock = [l \in Socks |-> IF l = 1 THEN Opened(1) ELSE NoSock]
    /\ shownHa = "connecting"
    /\ starts = {}
    /\ hiccups = 0

-----------------------------------------------------------------------------
(* What a change starts.  p is the state known before, Nothing included. *)

Recovers(p) == p.state = Nothing

\* matchHaNumericTrigger
MatchNumeric(p, n) == n.state # p.state /\ ~Recovers(p) /\ n.state # Nothing

\* matchDeviceTrigger, for the key of the state and for that of an attribute,
\* whose former value an event of Home Assistant does not carry.
MatchDevice(p, n)    == MatchNumeric(p, n)
MatchAttribute(p, n) == ~Recovers(p)

Matching(p, n) == {t \in Triggers :
    CASE t = "ha.state_changed" -> MatchNumeric(p, n)
      [] t = "device.changed"   -> MatchDevice(p, n)
      [] OTHER                  -> MatchAttribute(p, n)}

\* onEvent: runs are started, for what h knew and what version at says.
Started(h, at) ==
    LET p == house[handle[h].known]
    IN  {[trigger |-> t, at |-> at, from |-> handle[h].known, synced |-> handle[h].synced] :
            t \in Matching(p, house[at])}

-----------------------------------------------------------------------------
(* Home Assistant. *)

\* The entity becomes unavailable, takes another number, or its attribute another.
EntityChanges(v) ==
    /\ Len(house) <= MaxChanges
    /\ LET last == house[Len(house)]
       IN  \/ v = [last EXCEPT !.state = Nothing] /\ v # last
           \/ v = [last EXCEPT !.state = IF @ = 1 THEN 2 ELSE 1]
           \/ v = [last EXCEPT !.bright = 1 - @]
    /\ house' = Append(house, v)
    /\ sock' = [l \in Socks |->
          IF sock[l].feed /\ sock[l].at = "open"
          THEN [sock[l] EXCEPT !.down = Append(@, [type |-> "event", at |-> Len(house) + 1])]
          ELSE sock[l]]
    /\ UNCHANGED <<handle, ha, shownHa, starts, hiccups>>

Accepted(l) ==
    /\ sock[l].at = "connecting"
    /\ sock' = [sock EXCEPT ![l].at = "open", ![l].down = <<[type |-> "auth_required"]>>]
    /\ UNCHANGED <<house, handle, ha, shownHa, starts, hiccups>>

\* The next command is carried out, or refused.
Serves(l) ==
    /\ sock[l].at = "open"
    /\ sock[l].up # << >>
    /\ \E ok \in IF hiccups < MaxHiccups THEN BOOLEAN ELSE {TRUE} :
          LET c == Head(sock[l].up)
              answer == IF c.cmd = "auth" THEN [type |-> IF ok THEN "auth_ok" ELSE "auth_invalid"]
                        ELSE [type |-> "result", of |-> c, ok |-> ok,
                              at |-> IF c.cmd = "states" THEN Len(house) ELSE 0]
          IN  /\ sock' = [sock EXCEPT ![l].up = Tail(@),
                                      ![l].down = Append(@, answer),
                                      ![l].feed = @ \/ (c.cmd = "subscribe" /\ ok)]
              /\ hiccups' = IF ok THEN hiccups ELSE hiccups + 1
    /\ UNCHANGED <<house, handle, ha, shownHa, starts>>

\* The connection is lost, and some of what was on its way with it.
LosesSock(l) ==
    /\ sock[l].at \in {"connecting", "open"}
    /\ hiccups < MaxHiccups
    /\ hiccups' = hiccups + 1
    /\ \E n \in 0..Len(sock[l].down) :
          sock' = [sock EXCEPT ![l].at = "lost", ![l].feed = FALSE, ![l].up = << >>,
                               ![l].down = SubSeq(@, 1, n)]
    /\ UNCHANGED <<house, handle, ha, shownHa, starts>>

-----------------------------------------------------------------------------
(* The connector. *)

\* setStatus reports the status of this connector, whichever is in use.
SetStatus(h, status) ==
    /\ handle' = [handle EXCEPT ![h].status = status]
    /\ shownHa' = status

Consume(l, more) == sock' = [sock EXCEPT ![l].down = Tail(@), ![l].up = @ \o more]

TakesAuthRequired(l) ==
    /\ sock[l].down # << >> /\ Head(sock[l].down).type = "auth_required"
    /\ SetStatus(sock[l].of, "authenticating")
    /\ Consume(l, <<[cmd |-> "auth"]>>)
    /\ UNCHANGED <<house, ha, starts, hiccups>>

TakesAuthOk(l) ==
    /\ sock[l].down # << >> /\ Head(sock[l].down).type = "auth_ok"
    /\ SetStatus(sock[l].of, "synchronizing")
    /\ Consume(l, <<[cmd |-> "states"], [cmd |-> "subscribe"]>>)
    /\ UNCHANGED <<house, ha, starts, hiccups>>

\* The socket is closed for good, and no other is opened.
TakesAuthInvalid(l) ==
    /\ sock[l].down # << >> /\ Head(sock[l].down).type = "auth_invalid"
    /\ SetStatus(sock[l].of, "error")
    /\ sock' = [sock EXCEPT ![l].at = "closed", ![l].up = << >>, ![l].down = << >>, ![l].feed = FALSE]
    /\ UNCHANGED <<house, ha, starts, hiccups>>

Result(l, cmd) ==
    /\ sock[l].down # << >>
    /\ Head(sock[l].down).type = "result"
    /\ Head(sock[l].down).of.cmd = cmd

\* The states: everything is known as it is, and nothing is started.
TakesStates(l) ==
    /\ Result(l, "states")
    /\ LET h == sock[l].of
           m == Head(sock[l].down)
       IN  IF ~m.ok THEN UNCHANGED <<handle, shownHa>>
           ELSE LET done == [handle[h] EXCEPT !.known = m.at, !.synced = m.at,
                                              !.snapshotDone = TRUE,
                                              !.status = IF handle[h].subscribed THEN "ready" ELSE @]
                IN  /\ handle' = [handle EXCEPT ![h] = done]
                    /\ shownHa' = IF handle[h].subscribed THEN "ready" ELSE shownHa
    /\ Consume(l, << >>)
    /\ UNCHANGED <<house, ha, starts, hiccups>>

\* The answer to the subscription, whatever it says.
TakesSubscription(l) ==
    /\ Result(l, "subscribe")
    /\ LET h == sock[l].of
       IN  IF handle[h].snapshotDone
           THEN /\ handle' = [handle EXCEPT ![h].subscribed = TRUE, ![h].status = "ready"]
                /\ shownHa' = "ready"
           ELSE /\ handle' = [handle EXCEPT ![h].subscribed = TRUE]
                /\ UNCHANGED shownHa
    /\ Consume(l, << >>)
    /\ UNCHANGED <<house, ha, starts, hiccups>>

\* An event is looked at by a connector that is ready.
TakesEvent(l) ==
    /\ sock[l].down # << >> /\ Head(sock[l].down).type = "event"
    /\ LET h == sock[l].of
           n == Head(sock[l].down).at
       IN  IF handle[h].status # "ready" THEN UNCHANGED <<handle, starts>>
           ELSE /\ starts' = starts \cup Started(h, n)
                /\ handle' = [handle EXCEPT ![h].known = n]
    /\ Consume(l, << >>)
    /\ UNCHANGED <<house, ha, shownHa, hiccups>>

\* Mutant: only a link that was ready is opened again.
HearsReadyClose(l) ==
    /\ sock[l].at = "lost" /\ sock[l].down = << >>
    /\ sock' = [sock EXCEPT ![l].at = "closed"]
    /\ LET h == sock[l].of
       IN  IF handle[h].sock = l /\ ~handle[h].stopped /\ handle[h].status # "error"
           THEN /\ handle' = [handle EXCEPT ![h].status = "disconnected",
                                            ![h].waits = handle[h].status = "ready"]
                /\ shownHa' = "disconnected"
           ELSE UNCHANGED <<handle, shownHa>>
    /\ UNCHANGED <<house, ha, starts, hiccups>>

\* The close of the connector's socket; it waits two seconds.
HearsHaClose(l) ==
    /\ sock[l].at = "lost" /\ sock[l].down = << >>
    /\ sock' = [sock EXCEPT ![l].at = "closed"]
    /\ LET h == sock[l].of
       IN  IF handle[h].sock = l /\ ~handle[h].stopped /\ handle[h].status # "error"
           THEN /\ handle' = [handle EXCEPT ![h].status = "disconnected", ![h].waits = TRUE]
                /\ shownHa' = "disconnected"
           ELSE UNCHANGED <<handle, shownHa>>
    /\ UNCHANGED <<house, ha, starts, hiccups>>

\* connect(), when they are over; not by a connector that was stopped.
Reopens(h) ==
    /\ handle[h].waits
    /\ IF handle[h].stopped
       THEN /\ handle' = [handle EXCEPT ![h].waits = FALSE]
            /\ UNCHANGED <<sock, shownHa>>
       ELSE /\ SocksLeft
            /\ handle' = [handle EXCEPT ![h] =
                  [@ EXCEPT !.waits = FALSE, !.status = "connecting", !.snapshotDone = FALSE,
                            !.subscribed = FALSE, !.sock = NextSock]]
            /\ shownHa' = "connecting"
            /\ sock' = [sock EXCEPT ![NextSock] = Opened(h)]
    /\ UNCHANGED <<house, ha, starts, hiccups>>

\* startHa: the connector is stopped, and another one started.
\* What Home Assistant has sent is still taken.
StartHa ==
    /\ ha < MaxHandles
    /\ SocksLeft
    /\ ha' = ha + 1
    /\ LET l == handle[ha].sock
       IN  sock' = [sock EXCEPT
              ![NextSock] = Opened(ha + 1),
              ![l] = IF sock[l].at \in {"connecting", "open"}
                     THEN [@ EXCEPT !.at = "lost", !.up = << >>, !.feed = FALSE] ELSE @]
    /\ handle' = [handle EXCEPT ![ha].stopped = TRUE, ![ha + 1].sock = NextSock]
    /\ shownHa' = "connecting"
    /\ UNCHANGED <<house, starts, hiccups>>

\* reportAll, every five seconds
ReportsHa ==
    /\ shownHa # handle[ha].status
    /\ shownHa' = handle[ha].status
    /\ UNCHANGED <<house, handle, ha, sock, starts, hiccups>>

TakesFrom(l) ==
    \/ TakesAuthRequired(l) \/ TakesAuthOk(l) \/ TakesAuthInvalid(l) \/ TakesStates(l)
    \/ TakesSubscription(l) \/ TakesEvent(l)
    \/ HearsHaClose(l)

HaNext ==
    \/ StartHa \/ ReportsHa 
    \/ \E v \in Levels : EntityChanges(v)
    \/ \E l \in Socks : Accepted(l) \/ Serves(l) \/ LosesSock(l) \/ TakesFrom(l)
    \/ \E h \in Handles : Reopens(h)

\* Home Assistant answers what arrives; messages are taken, timers fire.
HaFairness ==
    /\ WF_haVars(ReportsHa)
    /\ \A l \in Socks : WF_haVars(Accepted(l) \/ Serves(l)) /\ WF_haVars(TakesFrom(l))
    /\ \A h \in Handles : WF_haVars(Reopens(h))

HaSpec == HaInit /\ [][HaNext]_haVars /\ HaFairness

-----------------------------------------------------------------------------
(***************************************************************************)
(* What starts a run is news: it is compared with what was known since the *)
(* link was last synchronised, never with what was known before, and what  *)
(* the synchronisation itself brought starts nothing, whatever sockets     *)
(* were lost and whichever connectors overlap.                             *)
(***************************************************************************)
StartsAreNews ==
    \A s \in starts : s.synced <= s.from /\ s.from < s.at

(***************************************************************************)
(* The link comes back and is shown as it is, unless Home Assistant        *)
(* refuses the token or the states.                                        *)
(***************************************************************************)
Refused(l) == handle[ha].status = "synchronizing" /\ sock[l].up = << >> /\ sock[l].down = << >>

LinkComesBack ==
    <>[](/\ handle[ha].status # "error"
         /\ ~Refused(handle[ha].sock)
         /\ ~(handle[ha].waits /\ ~SocksLeft)) =>
    <>[](handle[ha].status = "ready" /\ shownHa = "ready")

(***************************************************************************)
(* Promises of the plan that the code does not keep, see README: ready is  *)
(* told only with a subscription; a value that follows "unavailable" starts*)
(* nothing; a change of another attribute is no change of the value.       *)
(***************************************************************************)
ReadyIsSubscribed == \A h \in Handles : handle[h].status = "ready" /\ sock[handle[h].sock].at = "open"
                        => sock[handle[h].sock].feed
RecoveryStartsNothing == \A s \in starts : house[s.at - 1].state # Nothing
AttributesApart == \A s \in starts : s.trigger = "brightness" => house[s.at].bright # house[s.from].bright
=============================================================================
