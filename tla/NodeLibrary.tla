---------------------------- MODULE NodeLibrary ----------------------------
(***************************************************************************)
(* What the nodes of a run compute, and what one run leaves to the next.   *)
(* The flow takes a mean of its last readings, compares, asks for an alert *)
(* or waits, and joins the two ways.  A run is stepped node by node, each  *)
(* step stored with what the mean remembers.  Control in general is the    *)
(* kernel's (Kernel), queues and recovery are the host's (Coordinator).    *)
(***************************************************************************)
EXTENDS Naturals, FiniteSets, SequencesExt

CONSTANTS
    WindowSize,      \* readings the mean is taken of
    Definitions,     \* the flows that are looked at
    Slots,           \* places for runs, given again when a run is over
    MaxCounted       \* bound on the readings that are counted

VARIABLES
    definition,      \* the flow
    runs,            \* the last run of each place: what it read, computed and asked for
    again,           \* the reading of a run whose trigger was not marked
    row,             \* what the mean remembers, in the table of node states
    counted          \* the readings that live runs counted, in order

libraryVars == <<definition, runs, again, row, counted>>

\* JSON values as far as a node tells them apart.  Numbers are even, so that the mean
\* of two is whole.
Number(n) == [is |-> "number", n |-> n]
List(items) == [is |-> "list", items |-> items]
Missing == [is |-> "missing"]
Readings == {Number(0), Number(4), Missing}
Numbers == 0..4

NoTrigger == [is |-> "none"]

\* A flow: the operator and the right side of its condition, whether the left is the mean
\* or the reading, the default of a reading without the path, and the join.
Comparison(operator, left, right, default, join) ==
    [operator |-> operator, left |-> left, right |-> right, default |-> default, join |-> join]

Modes == {"live", "dryRun"}
Places == {"mean", "condition", "true", "false", "alert", "delay", "join",
           "completed", "failed", "cancelled"}
Ended == {"completed", "failed", "cancelled"}

\* startRun.
StartedRun(mode, reading, initial) ==
    [mode |-> mode, reading |-> reading, initial |-> initial, at |-> "mean",
     because |-> "none", mean |-> Missing, upTo |-> 0, port |-> "none", outputs |-> {},
     edge |-> [x \in {"alert", "delay"} |-> "pending"], joined |-> {}]
NoRun == [StartedRun("dryRun", Missing, << >>) EXCEPT !.at = "cancelled"]

\* A window holds something, and the default of a path is a reading if it is a number.
ASSUME LibraryAssumption ==
    /\ WindowSize \in Nat \ {0} /\ MaxCounted \in Nat
    /\ \A d \in Definitions :
          d.default.is = "number" => \E n \in Numbers : d.default = Number(n)

NodeLibraryTypeOK ==
    /\ definition \in Definitions
    /\ again \in Readings \cup {NoTrigger}
    /\ \A r \in Slots :
          /\ runs[r].mode \in Modes /\ runs[r].at \in Places /\ runs[r].reading \in Readings
          /\ runs[r].initial \in Seq(Numbers) /\ runs[r].because \in Places \cup {"none"}
          /\ runs[r].outputs \cup runs[r].joined \subseteq {"alert", "delay"}
          /\ runs[r].edge \in [{"alert", "delay"} -> {"pending", "taken", "skipped"}]
    /\ row \in Seq(Numbers) /\ Len(row) <= WindowSize
    /\ counted \in Seq(Numbers)

NodeLibraryInit ==
    /\ definition \in Definitions
    /\ runs = [r \in Slots |-> NoRun] /\ again = NoTrigger /\ row = << >> /\ counted = << >>

-----------------------------------------------------------------------------
(* What nodes compute. *)

\* A path that is not there has its default, if it has one.
LookupBinding(value) == IF value = Missing THEN definition.default ELSE value

\* The last numbers of what is remembered and the new one.
Window(history, value) ==
    LET all == Append(history, value)
    IN  SubSeq(all, IF Len(all) > WindowSize THEN Len(all) - WindowSize + 1 ELSE 1, Len(all))

Mean(window) == FoldSeq(LAMBDA n, sum : n + sum, 0, window) \div Len(window)

IsOrdered(operator, left, right) ==
    CASE operator = "gt"  -> left > right
      [] operator = "gte" -> left >= right
      [] operator = "lt"  -> left < right
      [] operator = "lte" -> left <= right

\* The port a condition activates; values that its operator is not for make it fail.
EvaluateCondition(operator, left, right) ==
    LET Port(holds) == IF holds THEN "true" ELSE "false" IN
    CASE operator \in {"in", "notIn"} ->
            IF right.is # "list" THEN "failed"
            ELSE Port((left \in right.items) = (operator = "in"))
      [] operator \in {"isTrue", "isFalse"} ->
            IF left.is # "boolean" THEN "failed" ELSE Port(left.b = (operator = "isTrue"))
      [] operator \in {"eq", "neq"} -> Port((left = right) = (operator = "eq"))
      [] OTHER ->
            IF left.is # "number" \/ right.is # "number" THEN "failed"
            ELSE Port(IsOrdered(operator, left.n, right.n))

\* A join reads the inputs whose edges were taken, or the one that won; every input
\* that is read must have an output to take, or the node fails.
InputNamesForStart(edge) ==
    LET taken == {x \in DOMAIN edge : edge[x] = "taken"}
    IN  IF definition.join = "all" THEN taken ELSE {CHOOSE x \in taken : TRUE}
ResolvesInputs(names, outputs) == names \subseteq outputs

-----------------------------------------------------------------------------
(* Runs. *)

Holds(r) == runs[r].mode = "live" /\ runs[r].at \notin Ended

\* Mutant: an open run does not keep the next one from starting.
FlowIsAlwaysFree == TRUE

FlowIsFree == ~\E r \in Slots : Holds(r)

\* A trigger starts a live run with what is remembered, one at a time.  The run is stored
\* before its trigger is marked; when the process dies in between, the trigger is
\* still queued, and is the next to start.
StartLive(r, reading, isMarked) ==
    /\ FlowIsFree /\ runs[r].at \in Ended /\ Len(counted) < MaxCounted
    /\ again # NoTrigger => reading = again
    /\ runs' = [runs EXCEPT ![r] = StartedRun("live", reading, row)]
    /\ again' = IF isMarked THEN NoTrigger ELSE reading
    /\ UNCHANGED <<definition, row, counted>>

\* A dry run starts with nothing and beside the others.
StartDry(r, reading) ==
    /\ runs[r].at \in Ended
    /\ runs' = [runs EXCEPT ![r] = StartedRun("dryRun", reading, << >>)]
    /\ UNCHANGED <<definition, again, row, counted>>

MovesTo(r, place) == runs' = [runs EXCEPT ![r].at = place]

\* Of a run that is over it is kept how it ended.
RunEndsAs(r, how, joined) ==
    runs' = [runs EXCEPT ![r] = [NoRun EXCEPT !.at = how, !.joined = joined,
                !.port = IF how = "completed" THEN runs[r].port ELSE "none",
                !.because = IF how = "failed" THEN runs[r].at ELSE "none"]]
Fails(r) == RunEndsAs(r, "failed", {})

\* A dry run's state is proposed and never stored.
StepMean(r) ==
    LET value  == LookupBinding(runs[r].reading)
        window == Window(runs[r].initial, value.n)
    IN  /\ runs[r].at = "mean"
        /\ IF value.is # "number" THEN Fails(r) /\ UNCHANGED <<row, counted>>
           ELSE /\ runs' = [runs EXCEPT ![r].at = "condition", ![r].mean = Number(Mean(window)),
                              ![r].upTo = Len(counted) + 1]
                /\ IF runs[r].mode = "live"
                   THEN row' = window /\ counted' = Append(counted, value.n)
                   ELSE UNCHANGED <<row, counted>>
        /\ UNCHANGED <<definition, again>>

LeftOf(r) == IF definition.left = "mean" THEN runs[r].mean ELSE LookupBinding(runs[r].reading)

\* The way that is not taken is skipped.
StepCondition(r) ==
    LET port == IF LeftOf(r) = Missing THEN "failed"
                ELSE EvaluateCondition(definition.operator, LeftOf(r), definition.right) IN
    /\ runs[r].at = "condition"
    /\ IF port = "failed" THEN Fails(r)
       ELSE runs' = [runs EXCEPT ![r].at = port, ![r].port = port,
                         ![r].edge[IF port = "true" THEN "delay" ELSE "alert"] = "skipped"]
    /\ UNCHANGED <<definition, again, row, counted>>

\* The one asks for an external effect, the other for a timer.
StepEffect(r) ==
    /\ \/ runs[r].at = "true" /\ MovesTo(r, "alert")
       \/ runs[r].at = "false" /\ MovesTo(r, "delay")
    /\ UNCHANGED <<definition, again, row, counted>>

\* The answer goes to the node that waits for it; a timer's is never a failure.
CompleteFromResponse(r, isSuccess) ==
    LET node == runs[r].at IN
    /\ node = "alert" \/ (node = "delay" /\ isSuccess)
    /\ IF isSuccess
       THEN runs' = [runs EXCEPT ![r].at = "join", ![r].outputs = @ \cup {node},
                         ![r].edge[node] = "taken"]
       ELSE Fails(r)
    /\ UNCHANGED <<definition, again, row, counted>>

\* The last node of the flow.
StepJoin(r) ==
    LET names == InputNamesForStart(runs[r].edge) IN
    /\ runs[r].at = "join"
    /\ IF ResolvesInputs(names, runs[r].outputs) THEN RunEndsAs(r, "completed", names) ELSE Fails(r)
    /\ UNCHANGED <<definition, again, row, counted>>

CancelRun(r) ==
    /\ runs[r].at \notin Ended /\ RunEndsAs(r, "cancelled", {})
    /\ UNCHANGED <<definition, again, row, counted>>

NodeLibraryNext ==
    \/ \E r \in Slots, reading \in Readings :
          StartDry(r, reading) \/ \E isMarked \in BOOLEAN : StartLive(r, reading, isMarked)
    \/ \E r \in Slots :
          \/ StepMean(r) \/ StepCondition(r) \/ StepEffect(r) \/ StepJoin(r)
          \/ \E isSuccess \in BOOLEAN : CompleteFromResponse(r, isSuccess)
          \/ CancelRun(r)

NodeLibrarySpec == NodeLibraryInit /\ [][NodeLibraryNext]_libraryVars

-----------------------------------------------------------------------------
(* What holds. *)

\* What is remembered is the last readings that were counted, whatever became of the
\* runs that counted them and however often a trigger was started.
LastOnes(n) == SubSeq(counted, IF n > WindowSize THEN n - WindowSize + 1 ELSE 1, n)
RowIsLastReadings == row = LastOnes(Len(counted))

\* The mean of a live run is that of the readings up to its own, and of a dry run that
\* of its own reading.
MeansAreOfReadings ==
    \A r \in Slots : runs[r].mean # Missing =>
        runs[r].mean = IF runs[r].mode = "live" THEN Number(Mean(LastOnes(runs[r].upTo)))
                       ELSE LookupBinding(runs[r].reading)

\* A run fails for its data or for an answer: a join finds what it reads.
JoinsFindTheirInputs ==
    \A r \in Slots :
        /\ runs[r].because \in {"none", "mean", "condition", "alert"}
        /\ runs[r].at = "completed" =>
              runs[r].joined = IF runs[r].port = "true" THEN {"alert"} ELSE {"delay"}

NodeLibraryHolds == RowIsLastReadings /\ MeansAreOfReadings /\ JoinsFindTheirInputs
=============================================================================
