---------------------------- MODULE Integration ----------------------------
(***************************************************************************)
(* Connecting a device: a dialog of the web application walks through the  *)
(* forms of a config flow of Home Assistant.  The dialog holds a token, the*)
(* runtime knows the flow a token stands for and the options of its last   *)
(* form, and Home Assistant knows how far the flow is.  The API gives every*)
(* request 25 seconds, the runtime gives Home Assistant 20; what was       *)
(* started goes on without them.  Fields, names and texts are left out; the*)
(* cloud's own rows of the devices are those of DeviceCatalog.             *)
(***************************************************************************)
EXTENDS Naturals, FiniteSets, SequencesExt

CONSTANTS
    Dialogs,         \* open dialogs
    Forms,           \* forms a flow has
    MaxFlows,        \* bound on the flows of Home Assistant
    MaxAsks,         \* bound on the requests
    MaxTroubles      \* bound on the requests that take too long and on restarts

\* A flow has a first form.
ASSUME IntegrationAssumption ==
    /\ Forms \in Nat \ {0}
    /\ MaxFlows \in Nat /\ MaxAsks \in Nat /\ MaxTroubles \in Nat

VARIABLES
    configFlow,      \* the flows: how far each is, and whether Home Assistant found it
    devicesMade,     \* flows whose device has states in Home Assistant
    deviceRows,      \* flows whose device the runtime has a row of
    pendingFlows,    \* the runtime's pending flows, in the order they were stored
    asked,           \* the requests
    dialog,          \* dialog -> what it shows
    reboots          \* restarts of the runtime so far

integrationVars ==
    <<configFlow, devicesMade, deviceRows, pendingFlows, asked, dialog, reboots>>

AskKinds == {"list", "begin", "look", "fill"}
Flows == 1..MaxFlows

IntegrationTypeOK ==
    /\ configFlow \in Seq([at : 1..Forms, is : {"open", "external", "entry", "gone"},
                         found : BOOLEAN])
    /\ Len(configFlow) <= MaxFlows
    /\ devicesMade \subseteq DOMAIN configFlow /\ deviceRows \subseteq devicesMade
    /\ pendingFlows \in Seq([flow : Flows, step : 0..Forms, known : BOOLEAN])
    /\ asked \in Seq(
          [from : Dialogs, kind : AskKinds, token : 0..Len(pendingFlows), filled : 0..Forms,
           decoded : 0..Forms, met : 0..Forms, flow : 0..MaxFlows,
           at : {"sent", "calling", "heard", "collecting", "result", "over", "lost"},
           says : {"none", "form", "pick", "done", "entry", "abort", "external", "error"},
           step : 0..Forms, options : SUBSET DOMAIN pendingFlows, devices : SUBSET Flows,
           waited : BOOLEAN, late : BOOLEAN, cut : BOOLEAN])
    /\ Len(asked) <= MaxAsks
    /\ dialog \in [Dialogs -> [token : 0..Len(pendingFlows), step : 0..Forms,
                               options : SUBSET DOMAIN pendingFlows, busy : BOOLEAN,
                               told : {"none", "done", "error"}, last : 0..MaxAsks]]
    /\ reboots \in 0..MaxTroubles

IntegrationInit ==
    /\ configFlow = << >> /\ devicesMade = {} /\ deviceRows = {}
    /\ pendingFlows = << >> /\ asked = << >> /\ reboots = 0
    /\ dialog = [p \in Dialogs |-> [token |-> 0, step |-> 0, options |-> {}, busy |-> FALSE,
                                    told |-> "none", last |-> 0]]

InProgress(f) == configFlow[f].is \in {"open", "external"}
Found == {f \in DOMAIN configFlow : configFlow[f].found /\ InProgress(f)}

\* The flow a token stands for, which is none when the runtime does not know it.
Stands(t) == IF t # 0 /\ pendingFlows[t].known THEN pendingFlows[t].flow ELSE 0

-----------------------------------------------------------------------------
(* The dialog and the API. *)

\* Answers that took too long, though the runtime was there, and restarts so far.
Troubles ==
    Cardinality({q \in DOMAIN asked : asked[q].late /\ asked[q].at # "lost"})
        + Cardinality({q \in DOMAIN asked : asked[q].cut}) + reboots

\* A dialog asks for one thing at a time, but for the list it asks for when it opens.
Ask(p, kind, token) ==
    /\ Len(asked) < MaxAsks
    /\ asked' = Append(asked,
          [from |-> p, kind |-> kind, token |-> token, decoded |-> 0, met |-> 0, flow |-> 0,
           filled |-> IF kind = "fill" THEN dialog[p].step ELSE 0, at |-> "sent",
           says |-> "none", step |-> 0, options |-> {}, devices |-> {},
           waited |-> TRUE, late |-> FALSE, cut |-> FALSE])
    /\ dialog' = IF kind = "list" THEN dialog
                 ELSE [dialog EXCEPT ![p].busy = TRUE, ![p].told = "none"]
    /\ UNCHANGED <<configFlow, devicesMade, deviceRows, pendingFlows, reboots>>

OpenDialog(p) == ~(\E r \in DOMAIN asked : asked[r].from = p) /\ Ask(p, "list", 0)
Pick(p) == ~dialog[p].busy /\ dialog[p].token = 0 /\ Ask(p, "begin", 0)
Discover(p, t) == ~dialog[p].busy /\ dialog[p].token = 0 /\ t \in dialog[p].options /\ Ask(p, "look", t)
Submit(p) == ~dialog[p].busy /\ dialog[p].token # 0 /\ Ask(p, "fill", dialog[p].token)

\* Back to the catalog; the flow stays open.
BackToStart(p) ==
    /\ ~dialog[p].busy /\ dialog[p].token # 0
    /\ dialog' = [dialog EXCEPT ![p].token = 0, ![p].step = 0, ![p].told = "none"]
    /\ UNCHANGED <<configFlow, devicesMade, deviceRows, pendingFlows, asked, reboots>>

\* A form replaces the one that is shown, an error leaves it.
Applies(p, r) ==
    CASE asked[r].says = "form" ->
            [dialog[p] EXCEPT !.token = asked[r].token, !.step = asked[r].step, !.busy = FALSE,
                              !.last = r]
      [] asked[r].says = "pick" ->
            [dialog[p] EXCEPT !.token = IF asked[r].kind = "list" THEN @ ELSE 0,
                              !.step = IF asked[r].kind = "list" THEN @ ELSE 0,
                              !.busy = @ /\ asked[r].kind = "list", !.options = asked[r].options]
      [] asked[r].says = "done" ->
            [dialog[p] EXCEPT !.token = 0, !.step = 0, !.busy = FALSE, !.told = "done", !.last = r]
      [] OTHER ->
            [dialog[p] EXCEPT !.busy = FALSE, !.told = "error"]

\* An answer nobody waits for any more is dropped.
AcceptIntegrated(r) ==
    /\ asked[r].at = "result"
    /\ asked' = [asked EXCEPT ![r].at = "over", ![r].waited = FALSE, ![r].options = {}, ![r].step = 0]
    /\ dialog' = IF asked[r].waited
                 THEN [dialog EXCEPT ![asked[r].from] = Applies(asked[r].from, r)]
                 ELSE dialog
    /\ UNCHANGED <<configFlow, devicesMade, deviceRows, pendingFlows, reboots>>

AskTimesOut(r) ==
    /\ asked[r].waited
    /\ asked[r].at # "lost" => Troubles < MaxTroubles
    /\ asked' = [asked EXCEPT ![r].waited = FALSE, ![r].late = TRUE]
    /\ dialog' = IF asked[r].kind = "list"
                 THEN [dialog EXCEPT ![asked[r].from].options = {}]
                 ELSE [dialog EXCEPT ![asked[r].from].busy = FALSE, ![asked[r].from].told = "error"]
    /\ UNCHANGED <<configFlow, devicesMade, deviceRows, pendingFlows, reboots>>

-----------------------------------------------------------------------------
(* The runtime. *)

Stored(fs) == [i \in 1..Len(fs) |-> [flow |-> fs[i], step |-> 0, known |-> TRUE]]
NewTokens(n) == Len(pendingFlows) + 1..Len(pendingFlows) + n

\* The flows Home Assistant found are offered under new tokens.
Offers(r) ==
    /\ pendingFlows' = pendingFlows \o Stored(SetToSeq(Found))
    /\ asked' = [asked EXCEPT ![r].at = "result", ![r].says = "pick",
                              ![r].options = NewTokens(Cardinality(Found))]

\* The one flow that was found is taken up, or a new one begun.
Attaches(r) ==
    /\ pendingFlows' = pendingFlows \o Stored(SetToSeq(Found))
    /\ asked' = [asked EXCEPT ![r].at = "calling", ![r].flow = CHOOSE f \in Found : TRUE,
                              ![r].token = Len(pendingFlows) + 1]

\* The values of a form are decoded with the options of the last one of the token.
Continues(r) ==
    LET flow == Stands(asked[r].token) IN
    /\ asked' = IF flow = 0
                THEN [asked EXCEPT ![r].at = "result", ![r].says = "error"]
                ELSE [asked EXCEPT ![r].at = "calling", ![r].flow = flow,
                        ![r].decoded = IF asked[r].kind = "fill" THEN pendingFlows[asked[r].token].step ELSE 0]
    /\ UNCHANGED pendingFlows

HandleIntegrate(r) ==
    /\ asked[r].at = "sent"
    /\ \/ asked[r].kind = "list" /\ Offers(r)
       \/ asked[r].kind = "begin" /\ Cardinality(Found) > 1 /\ Offers(r)
       \/ asked[r].kind = "begin" /\ Cardinality(Found) = 1 /\ Attaches(r)
       \/ /\ asked[r].kind = "begin" /\ Found = {}
          /\ asked' = [asked EXCEPT ![r].at = "calling"] /\ UNCHANGED pendingFlows
       \/ asked[r].kind \in {"look", "fill"} /\ Continues(r)
    /\ UNCHANGED <<configFlow, devicesMade, deviceRows, dialog, reboots>>

\* Mutant: the options of the first form stay.
StoreFormFirst(a) ==
    [flow |-> a.flow, known |-> TRUE,
     step |-> IF a.token = 0 THEN a.step ELSE pendingFlows[a.token].step]

StoreForm(a) == [flow |-> a.flow, step |-> a.step, known |-> TRUE]

\* What Home Assistant answered: a form is kept under the token of the flow, a new one
\* if it has none, and what ends the flow ends the token.
MapFlow(r) ==
    LET a == asked[r] IN
    /\ a.at = "heard"
    /\ \/ /\ a.says = "form" /\ a.token # 0
          /\ pendingFlows' = [pendingFlows EXCEPT ![a.token] = StoreForm(a)]
          /\ asked' = [asked EXCEPT ![r].at = "result"]
       \/ /\ a.says = "form" /\ a.token = 0
          /\ pendingFlows' = Append(pendingFlows, StoreForm(a))
          /\ asked' = [asked EXCEPT ![r].at = "result", ![r].token = Len(pendingFlows) + 1]
       \/ /\ a.says \in {"entry", "abort", "external"}
          /\ pendingFlows' = IF a.token = 0 THEN pendingFlows ELSE [pendingFlows EXCEPT ![a.token].known = FALSE]
          /\ asked' = [asked EXCEPT ![r].at = IF a.says = "entry" THEN "collecting" ELSE "result",
                                    ![r].says = IF a.says = "entry" THEN "done" ELSE "error",
                                    ![r].devices = IF a.says = "entry" THEN deviceRows ELSE {}]
       \/ /\ a.says = "error"
          /\ asked' = [asked EXCEPT ![r].at = "result"] /\ UNCHANGED pendingFlows
    /\ UNCHANGED <<configFlow, devicesMade, deviceRows, dialog, reboots>>

\* The states are read, and what has no row yet gets one; rows that were not there
\* when the flow ended are the devices it made.  Eight readings without one end it too.
CollectDevices(r) ==
    LET before == asked[r].devices IN
    /\ asked[r].at = "collecting"
    /\ deviceRows' = devicesMade
    /\ asked' = [asked EXCEPT ![r].at = "result", ![r].devices = devicesMade \ before]
    /\ UNCHANGED <<configFlow, devicesMade, pendingFlows, dialog, reboots>>

\* Home Assistant did not answer in time; the runtime says that it failed.
RestTimesOut(r) ==
    /\ asked[r].at \in {"calling", "heard"}
    /\ Troubles < MaxTroubles
    /\ asked' = [asked EXCEPT ![r].at = "result", ![r].says = "error", ![r].cut = TRUE]
    /\ UNCHANGED <<configFlow, devicesMade, deviceRows, pendingFlows, dialog, reboots>>

\* The tokens are in memory, and so is what the runtime was doing.
RuntimeReboots ==
    /\ Troubles < MaxTroubles /\ reboots' = reboots + 1
    /\ pendingFlows' = [t \in DOMAIN pendingFlows |-> [pendingFlows[t] EXCEPT !.known = FALSE]]
    /\ asked' = [r \in DOMAIN asked |->
                    IF asked[r].at = "over" THEN asked[r]
                    ELSE [asked[r] EXCEPT !.at = "lost", !.says = "none", !.filled = 0,
                                          !.decoded = 0, !.met = 0, !.flow = 0, !.step = 0,
                                          !.options = {}, !.devices = {}]]
    /\ UNCHANGED <<configFlow, devicesMade, deviceRows, dialog>>

-----------------------------------------------------------------------------
(* Home Assistant. *)

Hears(r, f, says, step) ==
    asked' = [asked EXCEPT ![r].at = "heard", ![r].flow = f, ![r].says = says, ![r].step = step,
                           ![r].met = IF asked[r].kind = "fill" /\ configFlow[f].is = "open"
                                      THEN configFlow[f].at ELSE 0]

FlowIs(f, state) == configFlow' = [configFlow EXCEPT ![f].is = state]

\* A flow is begun.
HaBegins(r) ==
    /\ asked[r].at = "calling" /\ asked[r].flow = 0 /\ Len(configFlow) < MaxFlows
    /\ configFlow' = Append(configFlow, [at |-> 1, is |-> "open", found |-> FALSE])
    /\ asked' = [asked EXCEPT ![r].at = "heard", ![r].flow = Len(configFlow) + 1,
                              ![r].says = "form", ![r].step = 1]
    /\ UNCHANGED <<devicesMade, deviceRows, pendingFlows, dialog, reboots>>

\* A flow is looked at.
HaShows(r) ==
    LET f == asked[r].flow IN
    /\ asked[r].at = "calling" /\ f # 0 /\ asked[r].kind # "fill"
    /\ \/ configFlow[f].is = "open" /\ Hears(r, f, "form", configFlow[f].at)
       \/ configFlow[f].is = "external" /\ Hears(r, f, "external", 0)
       \/ ~InProgress(f) /\ Hears(r, f, "error", 0)
    /\ UNCHANGED <<configFlow, devicesMade, deviceRows, pendingFlows, dialog, reboots>>

\* A form is taken: the next one comes, or the same again, or the flow ends, or the
\* person has to go elsewhere.
HaTakes(r) ==
    LET f == asked[r].flow IN
    /\ asked[r].at = "calling" /\ asked[r].kind = "fill"
    /\ \/ /\ configFlow[f].is = "open" /\ configFlow[f].at < Forms
          /\ Hears(r, f, "form", configFlow[f].at + 1)
          /\ configFlow' = [configFlow EXCEPT ![f].at = @ + 1]
       \/ /\ configFlow[f].is = "open" /\ configFlow[f].at = Forms
          /\ Hears(r, f, "entry", 0) /\ FlowIs(f, "entry")
       \/ /\ configFlow[f].is = "open"
          /\ \/ Hears(r, f, "form", configFlow[f].at) /\ UNCHANGED configFlow
             \/ Hears(r, f, "abort", 0) /\ FlowIs(f, "gone")
             \/ Hears(r, f, "external", 0) /\ FlowIs(f, "external")
       \/ /\ configFlow[f].is # "open"
          /\ Hears(r, f, "error", 0) /\ UNCHANGED configFlow
    /\ UNCHANGED <<devicesMade, deviceRows, pendingFlows, dialog, reboots>>

\* A device is found in the network, and a flow begun for it.
HaFinds ==
    /\ Len(configFlow) < MaxFlows
    /\ configFlow' = Append(configFlow, [at |-> 1, is |-> "open", found |-> TRUE])
    /\ UNCHANGED <<devicesMade, deviceRows, pendingFlows, asked, dialog, reboots>>

\* What was done elsewhere ends the flow.
HaReturns(f) ==
    /\ configFlow[f].is = "external" /\ \E state \in {"entry", "gone"} : FlowIs(f, state)
    /\ UNCHANGED <<devicesMade, deviceRows, pendingFlows, asked, dialog, reboots>>

\* The device of a flow gets its states, and the runtime hears of them.
HaSetsUp(f) ==
    /\ configFlow[f].is = "entry" /\ f \notin devicesMade
    /\ devicesMade' = devicesMade \cup {f}
    /\ UNCHANGED <<configFlow, deviceRows, pendingFlows, asked, dialog, reboots>>

TakesStateRow(f) ==
    /\ f \in devicesMade \ deviceRows /\ deviceRows' = deviceRows \cup {f}
    /\ UNCHANGED <<configFlow, devicesMade, pendingFlows, asked, dialog, reboots>>

-----------------------------------------------------------------------------
IntegrationNext ==
    \/ \E p \in Dialogs : OpenDialog(p) \/ Pick(p) \/ Submit(p) \/ BackToStart(p)
    \/ \E p \in Dialogs : \E t \in dialog[p].options : Discover(p, t)
    \/ \E r \in DOMAIN asked :
          \/ AcceptIntegrated(r) \/ AskTimesOut(r)
          \/ HandleIntegrate(r) \/ MapFlow(r) \/ CollectDevices(r) \/ RestTimesOut(r)
          \/ HaBegins(r) \/ HaShows(r) \/ HaTakes(r)
    \/ RuntimeReboots \/ HaFinds
    \/ \E f \in DOMAIN configFlow : HaReturns(f) \/ HaSetsUp(f) \/ TakesStateRow(f)

IntegrationSpec == IntegrationInit /\ [][IntegrationNext]_integrationVars

-----------------------------------------------------------------------------
(* What holds. *)

\* Nothing but this token drives its flow, and no request of it was given up on.
Undisturbed(t) ==
    /\ \A u \in DOMAIN pendingFlows : u # t => pendingFlows[u].flow # pendingFlows[t].flow
    /\ \A q \in DOMAIN asked : asked[q].token = t => ~asked[q].late /\ ~asked[q].cut

\* The form a dialog shows is the one the flow is at, and the runtime can read it,
\* though three keep it apart.
FormIsCurrent ==
    \A p \in Dialogs :
        LET shown == dialog[p] IN
        /\ shown.token # 0 /\ ~shown.busy /\ shown.told # "error"
        /\ reboots = 0 /\ Undisturbed(shown.token)
        => /\ configFlow[pendingFlows[shown.token].flow].at = shown.step
           /\ pendingFlows[shown.token].known /\ pendingFlows[shown.token].step = shown.step

\* Values reach the form they were filled in for, and are read as its options.
ValuesFit ==
    \A r \in DOMAIN asked :
        asked[r].met # 0 /\ Undisturbed(asked[r].token)
            => asked[r].filled = asked[r].met /\ asked[r].decoded = asked[r].met

\* A dialog that is told of success has a flow that succeeded, and the devices it is
\* told of are in the runtime's table.
DoneIsDone ==
    \A p \in Dialogs : dialog[p].told = "done" =>
        LET last == asked[dialog[p].last]
        IN  configFlow[last.flow].is = "entry" /\ last.devices \subseteq deviceRows

\* A token never comes to stand for another flow than the one it was given for.
AnswersKeepFlow ==
    \A r \in DOMAIN asked :
        asked[r].says \in {"form", "done"} /\ asked[r].token # 0 /\ asked[r].at # "heard"
            => pendingFlows[asked[r].token].flow = asked[r].flow

IntegrationHolds == FormIsCurrent /\ ValuesFit /\ DoneIsDone /\ AnswersKeepFlow

(***************************************************************************)
(* What one may think, and is not so.                                      *)
(***************************************************************************)

\* Values always reach the form they were filled in for: after an answer that came too
\* late the dialog shows the form before, and sends it to the next one.
ValuesAlwaysFit ==
    \A r \in DOMAIN asked : asked[r].met # 0 => asked[r].filled = asked[r].met

\* The devices a dialog is told of are those of its flow: a device that was heard of
\* before the flow's end was is not named, and one of another flow is.
DoneNamesItsOwn ==
    \A p \in Dialogs : dialog[p].told = "done" =>
        asked[dialog[p].last].devices = {asked[dialog[p].last].flow}
=============================================================================
