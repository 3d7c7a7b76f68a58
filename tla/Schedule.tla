------------------------------ MODULE Schedule ------------------------------
(***************************************************************************)
(* Triggers that wait for a time: of the day, or before or after the sun   *)
(* rises or sets.  A tick looks at the triggers of the active artifacts,   *)
(* remembers in memory when each is due, and starts a run when it is; what *)
(* was started is told apart by a key in the inbox.  The times of the sun  *)
(* are read from Home Assistant, which names the next one only.            *)
(*                                                                         *)
(* A unit of time is longer than the interval of the ticks; all days are   *)
(* equally long, and the sun keeps its time.                               *)
(***************************************************************************)
EXTENDS Integers, FiniteSets

CONSTANTS
    Day,             \* units of a day
    Grace,           \* units after it is due in which a trigger still starts
    TimeOfDay,       \* of the schedule
    DaysOn,          \* days on which it is on
    SunAt,           \* time of day of the sun's event
    Offset,          \* of the two triggers of the sun: before it, and after it
    RefreshEvery,    \* units for which the time of the sun is kept
    MaxTime,         \* bound on the time
    Artifacts,       \* what is deployed, one after the other
    MaxBreaks        \* bound on restarts and deployments

VARIABLES
    now,
    up,              \* the runtime runs
    ticked,          \* it has ticked at this time
    active,          \* the artifact of the flow, 0 when it is off
    pending,         \* key -> what is remembered
    sun,             \* the time of the sun that is kept, and since when
    inbox,           \* keys of the triggers accepted
    learnt,          \* history: dues a tick has found, by key
    breaks

scheduleVars == <<now, up, ticked, active, pending, sun, inbox, learnt, breaks>>

Never     == 0 - 1 - Offset
Bindings  == {"schedule", "before", "after"}
Keys      == Artifacts \X Bindings
Forgotten == [due |-> Never, fired |-> FALSE]
NoSun     == [next |-> Never, since |-> Never]

\* What is due differs by more than the offset of a trigger and the grace together.
ASSUME ScheduleAssumption ==
    /\ Day \in Nat \ {0} /\ Grace \in Nat \ {0} /\ Offset \in Nat /\ Offset + Grace < Day
    /\ TimeOfDay \in 0..(Day - 1) /\ SunAt \in 0..(Day - 1)
    /\ DaysOn \subseteq 0..6 /\ DaysOn # {}
    /\ RefreshEvery \in Nat /\ MaxTime \in Nat /\ MaxBreaks \in Nat
    /\ 1 \in Artifacts /\ 0 \notin Artifacts

ScheduleTypeOK ==
    /\ now \in 0..MaxTime
    /\ up \in BOOLEAN /\ ticked \in BOOLEAN
    /\ active \in Artifacts \cup {0}
    /\ pending \in [Keys -> [due : Int, fired : BOOLEAN]]
    /\ sun \in [next : Int, since : Int]
    /\ inbox \subseteq Keys \X Int
    /\ learnt \subseteq Keys \X Int
    /\ breaks \in 0..MaxBreaks

ScheduleInit ==
    /\ now = 0 /\ up = TRUE /\ ticked = FALSE
    /\ active = 1
    /\ pending = [k \in Keys |-> Forgotten]
    /\ sun = NoSun
    /\ inbox = {} /\ learnt = {}
    /\ breaks = 0

-----------------------------------------------------------------------------
(* When a trigger is due. *)

Earliest(S) == CHOOSE t \in S : \A u \in S : t <= u
Week == 0..((MaxTime \div Day) + 7)

\* nextLocalOccurrence: today's, or that of the next day it is on, if it is late.  That
\* of yesterday is not looked at, although it may be in its grace.
ScheduleDues == {d * Day + TimeOfDay : d \in {e \in Week : e % 7 \in DaysOn}}
Today        == (now \div Day) * Day
ScheduleDue  == Earliest({t \in ScheduleDues : t >= Today /\ t + Grace > now})

SunDue(b) ==
    IF sun.next = Never THEN Never
    ELSE IF b = "before" THEN sun.next - Offset ELSE sun.next + Offset

DueOf(b) == IF b = "schedule" THEN ScheduleDue ELSE SunDue(b)

\* Mutant: what is due is asked for again at each tick.
TrackAnew(k) ==
    LET cur  == pending[k]
        next == DueOf(k[2])
    IN  IF next = Never \/ next + Grace <= now THEN cur
        ELSE IF cur.fired /\ cur.due = next THEN cur
        ELSE [due |-> next, fired |-> FALSE]

\* track: what is remembered stays until it has fired or is too late.
Track(k) ==
    LET cur  == pending[k]
        next == DueOf(k[2])
    IN  IF cur # Forgotten /\ ~cur.fired /\ now < cur.due + Grace THEN cur
        ELSE IF next = Never \/ next + Grace <= now THEN cur
        ELSE IF cur.fired /\ cur.due = next THEN cur
        ELSE [due |-> next, fired |-> FALSE]

Fires(item) == item # Forgotten /\ ~item.fired /\ item.due <= now /\ now < item.due + Grace

-----------------------------------------------------------------------------
\* tickTimeTriggers; what belongs to no active artifact is forgotten.
TickTimeTriggers ==
    /\ up /\ ~ticked
    /\ ticked' = TRUE
    /\ LET item == [k \in Keys |-> IF k[1] = active THEN Track(k) ELSE Forgotten]
           fire == {k \in Keys : Fires(item[k])}
       IN  /\ pending' = [k \in Keys |-> IF k \in fire THEN [item[k] EXCEPT !.fired = TRUE] ELSE item[k]]
           /\ inbox' = inbox \cup {<<k, item[k].due>> : k \in fire}
           /\ learnt' = {<<k, DueOf(k[2])>> : k \in {j \in Keys : j[1] = active /\ DueOf(j[2]) # Never}}
                        \cup {x \in learnt : x[1][1] = active}
    /\ UNCHANGED <<now, up, active, sun, breaks>>

\* refresh of the time of the sun, when the one that is kept is old and Home
\* Assistant can be reached.
RefreshSun ==
    /\ up
    /\ sun.since = Never \/ now - sun.since >= RefreshEvery
    /\ sun' = [next |-> Earliest({d * Day + SunAt : d \in Week} \cap (now + 1)..(now + Day)),
               since |-> now]
    /\ UNCHANGED <<now, up, ticked, active, pending, inbox, learnt, breaks>>

TimePasses ==
    /\ now < MaxTime
    /\ up => ticked
    /\ now' = now + 1
    /\ ticked' = FALSE
    /\ UNCHANGED <<up, active, pending, sun, inbox, learnt, breaks>>

StopsRuntime ==
    /\ up
    /\ breaks < MaxBreaks
    /\ breaks' = breaks + 1
    /\ up' = FALSE
    /\ pending' = [k \in Keys |-> Forgotten]
    /\ sun' = NoSun
    /\ learnt' = {}
    /\ UNCHANGED <<now, ticked, active, inbox>>

StartsRuntime ==
    /\ ~up
    /\ up' = TRUE
    /\ ticked' = FALSE
    /\ UNCHANGED <<now, active, pending, sun, inbox, learnt, breaks>>

\* A deployment or a deactivation reaches the runtime.
Deploys(a) ==
    /\ up
    /\ a # active
    /\ breaks < MaxBreaks
    /\ breaks' = breaks + 1
    /\ active' = a
    /\ ticked' = FALSE
    /\ UNCHANGED <<now, up, pending, sun, inbox, learnt>>

ScheduleNext ==
    \/ TickTimeTriggers \/ RefreshSun \/ TimePasses \/ StopsRuntime \/ StartsRuntime
    \/ \E a \in Artifacts \cup {0} : Deploys(a)

ScheduleSpec == ScheduleInit /\ [][ScheduleNext]_scheduleVars

-----------------------------------------------------------------------------
(***************************************************************************)
(* Nothing that is due is missed.  When the runtime ticks in time, a       *)
(* flow's schedule of today has been started, also by a runtime that has   *)
(* been restarted or has got the flow since the time it was due.  And so   *)
(* has each time a tick of this version has found since the start, the sun *)
(* included, although midnight has passed or Home Assistant names the time *)
(* of the next day by then.                                                *)
(***************************************************************************)
InTime(due) == due <= now /\ now < due + Grace

DueIsStarted ==
    up /\ ticked /\ active # 0 =>
        /\ \A due \in {t \in ScheduleDues : t >= Today /\ InTime(t)} :
              <<<<active, "schedule">>, due>> \in inbox
        /\ \A x \in learnt : x[1][1] = active /\ InTime(x[2]) => x \in inbox

-----------------------------------------------------------------------------
(* Not kept. *)

(***************************************************************************)
(* A schedule that is in its grace has been started, also by a runtime     *)
(* that was restarted in between.  It is not so after midnight, when the   *)
(* time of yesterday is not looked for: see README.                        *)
(***************************************************************************)
GraceCoversRestart ==
    up /\ ticked /\ active # 0 =>
        \A due \in {t \in ScheduleDues : InTime(t)} :
            <<<<active, "schedule">>, due>> \in inbox

(***************************************************************************)
(* What is due is started once, whatever is deployed meanwhile; and a      *)
(* restart in time makes up for a time of the sun.  Neither is so: see     *)
(* README.                                                                 *)
(***************************************************************************)
OncePerDue ==
    \A x \in inbox, y \in inbox : x[1][2] = y[1][2] /\ x[2] = y[2] => x = y

RestartMakesUp ==
    up /\ ticked /\ active # 0 /\ sun.next # Never =>
        \A d \in Week : InTime(d * Day + SunAt + Offset) /\ now > 0 =>
            \E a \in Artifacts : <<<<a, "after">>, d * Day + SunAt + Offset>> \in inbox
=============================================================================
