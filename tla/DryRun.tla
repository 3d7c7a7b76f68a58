------------------------------ MODULE DryRun ------------------------------
(***************************************************************************)
(* A test run in the runtime.  Its effects are not carried out: a driver   *)
(* looks at the run after each transition, moves its clock to the next     *)
(* time anything is due, and answers timers and effects from fixtures,     *)
(* all through messages in the inbox of the host (Coordinator).  The run   *)
(* is kept in the database before its fixtures are, and a handler that     *)
(* throws ends the process.                                                *)
(***************************************************************************)
EXTENDS Naturals, FiniteSets, FiniteSetsExt, SequencesExt

CONSTANTS
    Nodes,           \* nodes of the flow, all with an effect: 1 .. n
    Delay,           \* node -> how long its timer is, 0 if it is no timer
    After,           \* node -> nodes that come before it
    NotBefore,       \* node -> when its fixture answers, 0 if that does not matter
    Fixed,           \* nodes whose fixture fits
    MaxOrders,       \* bound on what the user does
    MaxCuts          \* bound on the power cuts

VARIABLES
    test,            \* the row of the run
    bundle,          \* test_sessions: whether the run has a row, and what was added to it
    applied,         \* commands applied to the run, by their id
    mail,            \* the inbox, in memory
    host,            \* "up", "failing" (a rejection is pending) or "down"
    orders, cuts     \* counters of the bounds

dryVars == <<test, bundle, applied, mail, host, orders, cuts>>

\* Commands, by what their ids are made of.
Clock(t)      == [kind |-> "clock", node |-> 0, time |-> t, as |-> "none"]
Timer(n)      == [kind |-> "timer", node |-> n, time |-> 0, as |-> "simulated"]
Fixture(n, as) == [kind |-> "fixture", node |-> n, time |-> 0, as |-> as]
Manual(n, as) == [kind |-> "manual", node |-> n, time |-> 0, as |-> as]
Order(kind)   == [kind |-> kind, node |-> 0, time |-> 0, as |-> "none"]
Responses     == {"none", "simulated", "fixture", "other"}

Messages == [kind : {"clock", "timer", "fixture", "manual", "start", "step", "continue",
                     "pause", "resume"},
             node : {0} \cup Nodes, time : Nat, as : Responses]

\* A flow: what comes before a node is listed before it.
ASSUME DryAssumption ==
    /\ Nodes \subseteq Nat /\ IsFiniteSet(Nodes)
    /\ Delay \in [Nodes -> Nat] /\ NotBefore \in [Nodes -> Nat]
    /\ After \in [Nodes -> SUBSET Nodes] /\ \A n \in Nodes : \A k \in After[n] : k < n
    /\ Fixed \subseteq Nodes
    /\ MaxOrders \in Nat /\ MaxCuts \in Nat

DryTypeOK ==
    /\ test \in [there : BOOLEAN, auto : BOOLEAN, paused : BOOLEAN, clock : Nat,
                 ready : Seq(Nodes), effect : [Nodes -> {"none", "requested", "resolved"}],
                 due : [Nodes -> Nat], as : [Nodes -> Responses],
                 when : [Nodes -> Nat]]
    /\ bundle \in [kept : BOOLEAN, added : [Nodes -> Responses]]
    /\ applied \subseteq Messages
    /\ mail \in Seq(Messages)
    /\ host \in {"up", "failing", "down"}
    /\ orders \in 0..MaxOrders /\ cuts \in 0..MaxCuts

DryInit ==
    /\ test = [there |-> FALSE, auto |-> TRUE, paused |-> FALSE, clock |-> 0, ready |-> << >>,
               effect |-> [n \in Nodes |-> "none"], due |-> [n \in Nodes |-> 0],
               as |-> [n \in Nodes |-> "none"], when |-> [n \in Nodes |-> 0]]
    /\ bundle = [kept |-> FALSE, added |-> [n \in Nodes |-> "none"]]
    /\ applied = {}
    /\ mail = <<Order("start")>>
    /\ host = "up"
    /\ orders = 0 /\ cuts = 0

-----------------------------------------------------------------------------
(* The driver. *)

Pending(s)  == {n \in Nodes : s.effect[n] = "requested"}
IsTimer(n)  == Delay[n] > 0
Over(s)     == s.there /\ s.ready = << >> /\ \A n \in Nodes : s.effect[n] = "resolved"
InOrder(S)  ==
    CHOOSE q \in [1..Cardinality(S) -> S] : \A i \in DOMAIN q, j \in DOMAIN q : i < j => q[i] < q[j]

\* What the fixtures say of a node: the first of them that fits is taken.
Says(b, n) == IF ~b.kept THEN "none" ELSE IF n \in Fixed THEN "fixture" ELSE b.added[n]
Since(n)   == IF n \in Fixed THEN NotBefore[n] ELSE 0

\* nextClockAdvance: the next time a timer or a fixture is due.
DueTimes(s, b) ==
    {t \in {s.due[n] : n \in {m \in Pending(s) : IsTimer(m)}}
           \cup {Since(n) : n \in {m \in Pending(s) : Says(b, m) # "none"}} : t > s.clock}
NextClock(s, b) == IF DueTimes(s, b) = {} THEN << >> ELSE <<Clock(Min(DueTimes(s, b)))>>

\* collectCommands: the clock, the timers that are due, and the fixtures.
DueTimers(s) == {n \in Pending(s) : IsTimer(n) /\ s.due[n] <= s.clock}
DueFixtures(s, b) ==
    {n \in Pending(s) : /\ Says(b, n) # "none" /\ Since(n) <= s.clock
                        /\ IsTimer(n) => s.due[n] <= s.clock}
NextCommands(s, b) ==
    LET timers   == InOrder(DueTimers(s))
        fixtures == InOrder(DueFixtures(s, b))
    IN  NextClock(s, b) \o [i \in DOMAIN timers |-> Timer(timers[i])]
        \o [i \in DOMAIN fixtures |-> Fixture(fixtures[i], Says(b, fixtures[i]))]

CanAutoStep(s) == s.auto /\ ~s.paused /\ s.ready # << >>
Steps(s) == IF CanAutoStep(s) THEN <<Order("step")>> ELSE << >>

\* afterPersist of a run that is not over: the driver first, then the next step.
Follow(s, b) == IF Over(s) THEN << >> ELSE NextCommands(s, b) \o Steps(s)

-----------------------------------------------------------------------------
(* The handlers.  Each takes the first message. *)

Takes(kinds) ==
    /\ host \in {"up", "failing"} /\ mail # << >> /\ Head(mail).kind \in kinds

\* commitTransition and afterPersist.
Commits(s, command) ==
    /\ test' = s /\ applied' = applied \cup command
    /\ mail' = Tail(mail) \o Follow(s, bundle')
    /\ UNCHANGED <<host, orders, cuts>>

\* The handler returns without a transition, ...
Returns == mail' = Tail(mail) /\ UNCHANGED <<test, applied, host, orders, cuts>>

\* ... or throws: nobody takes the rejection.
Throws == mail' = Tail(mail) /\ host' = "failing" /\ UNCHANGED <<test, applied, orders, cuts>>

Begun(auto) == [test EXCEPT !.there = TRUE, !.auto = auto,
                            !.ready = InOrder({n \in Nodes : After[n] = {}})]

\* handleDryStart: the run, then the fixtures, then what follows ...
DryStart(auto) ==
    /\ Takes({"start"})
    /\ test' = Begun(auto) /\ bundle' = [bundle EXCEPT !.kept = TRUE]
    /\ mail' = Tail(mail) \o Follow(Begun(auto), bundle')
    /\ UNCHANGED <<applied, host, orders, cuts>>

\* ... unless the power is cut between the two.
DryStartCut(auto) ==
    /\ Takes({"start"}) /\ cuts < MaxCuts
    /\ test' = Begun(auto)
    /\ mail' = << >> /\ host' = "down" /\ cuts' = cuts + 1
    /\ UNCHANGED <<bundle, applied, orders>>

\* handleStep, handleContinue: the next node asks for its effect.
Stepped(s) ==
    IF s.paused \/ s.ready = << >> THEN s
    ELSE LET n == Head(s.ready)
         IN  [s EXCEPT !.ready = Tail(@), !.effect[n] = "requested",
                       !.due[n] = IF IsTimer(n) THEN s.clock + Delay[n] ELSE 0]
Step ==
    /\ Takes({"step", "continue"}) /\ UNCHANGED bundle
    /\ Commits([Stepped(test) EXCEPT !.auto = @ \/ Head(mail).kind = "continue"], {})

Pause ==
    /\ Takes({"pause", "resume"}) /\ UNCHANGED bundle
    /\ Commits([test EXCEPT !.paused = Head(mail).kind = "pause"], {})

\* clock.advanced: a command that was applied is a duplicate, a time that is past an
\* error.
AdvanceClock ==
    /\ Takes({"clock"}) /\ UNCHANGED bundle
    /\ LET c == Head(mail) IN
         IF c \in applied THEN Returns
         ELSE IF c.time < test.clock THEN Throws
         ELSE Commits([test EXCEPT !.clock = c.time], {c})

\* effect.resolved: the nodes that waited for it become ready.
Resolved(n, as) ==
    LET s == [test EXCEPT !.effect[n] = "resolved", !.as[n] = as, !.when[n] = test.clock]
        next == {m \in Nodes : /\ n \in After[m]
                               /\ \A k \in After[m] : s.effect[k] = "resolved"}
    IN  [s EXCEPT !.ready = @ \o InOrder(next)]

Answers(c) ==
    IF test.effect[c.node] = "none" \/ (test.effect[c.node] = "resolved" /\ test.as[c.node] # c.as)
    THEN Throws
    ELSE Commits(IF test.effect[c.node] = "resolved" THEN test ELSE Resolved(c.node, c.as), {c})

Resolve ==
    /\ Takes({"timer", "fixture"}) /\ UNCHANGED bundle
    /\ IF Head(mail) \in applied THEN Returns ELSE Answers(Head(mail))

\* handleFixture: what the user says is added to the fixtures, and then applied ...
AddFixture(c) ==
    bundle' = IF bundle.kept /\ bundle.added[c.node] = "none"
              THEN [bundle EXCEPT !.added[c.node] = c.as] ELSE bundle

HandleFixture == Takes({"manual"}) /\ AddFixture(Head(mail)) /\ Answers(Head(mail))

\* ... unless the power is cut between the two.
HandleFixtureCut ==
    /\ Takes({"manual"}) /\ cuts < MaxCuts
    /\ AddFixture(Head(mail))
    /\ mail' = << >> /\ host' = "down" /\ cuts' = cuts + 1
    /\ UNCHANGED <<test, applied, orders>>

-----------------------------------------------------------------------------
(* The user, and the process. *)

\* commandFromCloud: a command for a run the page shows.
Send(m) ==
    /\ host = "up" /\ test.there /\ ~Over(test) /\ orders < MaxOrders
    /\ orders' = orders + 1
    /\ mail' = Append(mail, m)
    /\ UNCHANGED <<test, bundle, applied, host, cuts>>

Command(kind) == Send(Order(kind))
FixtureByHand(n, as) == test.effect[n] # "none" /\ Send(Manual(n, as))

\* Node ends a process with a rejection nobody took; or the power is cut.
GoesDown ==
    /\ host # "down"
    /\ host = "up" => cuts < MaxCuts /\ test.there /\ cuts' = cuts + 1
    /\ host = "failing" => UNCHANGED cuts
    /\ host' = "down" /\ mail' = << >>
    /\ UNCHANGED <<test, bundle, applied, orders>>

\* Mutant: only the steps are taken up.
RecoveredSteps == IF test.there /\ ~Over(test) THEN Steps(test) ELSE << >>

\* resumeOpenRuns: the driver of a run that goes by itself, and its next step.
Recovered ==
    IF test.there /\ ~Over(test)
    THEN (IF test.auto THEN NextCommands(test, bundle) ELSE << >>) \o Steps(test)
    ELSE << >>

Recover ==
    /\ host = "down" /\ host' = "up"
    /\ mail' = Recovered
    /\ UNCHANGED <<test, bundle, applied, orders, cuts>>

DryNext ==
    \/ \E auto \in BOOLEAN : DryStart(auto) \/ DryStartCut(auto)
    \/ Step \/ Pause \/ AdvanceClock \/ Resolve \/ HandleFixture \/ HandleFixtureCut
    \/ \E kind \in {"step", "continue", "pause", "resume"} : Command(kind)
    \/ \E n \in Nodes, as \in {"fixture", "other"} : FixtureByHand(n, as)
    \/ GoesDown \/ Recover

DrySpec == DryInit /\ [][DryNext]_dryVars

-----------------------------------------------------------------------------
\* The driver answers nothing before its time, although it looks at the run when it
\* sends the answer and not when that is handled.
KeepsTime ==
    \A n \in Nodes :
        /\ test.as[n] = "simulated" => test.when[n] >= test.due[n]
        /\ test.as[n] = "fixture" /\ Manual(n, "fixture") \notin applied =>
              test.when[n] >= test.due[n] /\ test.when[n] >= Since(n)

\* A run that goes by itself and has nothing to do is over, paused, or waits for an
\* effect without a fixture; whatever threw, was cut off or was done by hand.
NeverIdles ==
    test.there /\ test.auto /\ bundle.kept /\ host = "up" /\ mail = << >> =>
        Over(test) \/ test.paused \/ \E n \in Pending(test) : Says(bundle, n) = "none" /\ ~IsTimer(n)

\* A run never loses a node: one that may start is waiting to, or did.
NodesAreKept ==
    test.there => \A n \in Nodes :
        (\A k \in After[n] : test.effect[k] = "resolved")
            <=> (test.effect[n] # "none" \/ n \in ToSet(test.ready))

(***************************************************************************)
(* A test run that has its fixtures gets to its end by itself, in the order*)
(* of its own clock.                                                       *)
(***************************************************************************)
DryRunHolds == KeepsTime /\ NeverIdles /\ NodesAreKept

-----------------------------------------------------------------------------
(* None of the following is so: see README. *)

\* Nodes that are ready start before the clock moves or an effect is answered.
ReadyFirst ==
    [][test'.clock # test.clock \/ test'.effect # test.effect =>
          \/ test.ready = << >> \/ test.paused
          \/ \E n \in Nodes : test'.effect[n] = "requested" /\ test.effect[n] = "none"]_dryVars

\* A test by itself does not end the process.
TestIsHarmless == orders = 0 => host # "failing"

\* A run that goes by itself has its fixtures.
SessionIsKept == test.there /\ host = "up" => bundle.kept
=============================================================================
