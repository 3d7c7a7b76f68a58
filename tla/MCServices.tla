------------------------------- MODULE MCServices -------------------------------
(***************************************************************************)
(* Services of the cloud, of the web pages and of the runtime that share no*)
(* state, each checked by itself: `part' says which one a behaviour is of. *)
(***************************************************************************)
EXTENDS Pairing, Access, Editing, Schedule, McpLink, TestSessions, DryRun, Drawing,
        Integration, NodeLibrary

VARIABLE part

vars == <<pairingVars, accessVars, editingVars, scheduleVars, mcpVars, startVars, dryVars,
          drawingVars, integrationVars, libraryVars, part>>

Parts == {"pairing", "access", "editing", "schedule", "mcp", "starts", "dry",
          "drawing", "connect", "nodes"}

\* The flow of the test run: two timers, one after a node with a fixture.
TestDelay     == <<0, 0, 2, 1>>
TestAfter     == <<{}, {}, {1}, {1}>>
TestNotBefore == <<0, 1, 0, 0>>

\* Flows whose condition is of numbers, of a list, of truth, and of unlike values.
TestDefinitions ==
    {Comparison("gt", "mean", Number(1), Missing, "any"),
     Comparison("notIn", "reading", List({Number(0)}), Number(0), "all"),
     Comparison("isTrue", "reading", Missing, Missing, "any")}

ServicesTypeOK ==
    /\ part \in Parts
    /\ part = "pairing"  => PairingTypeOK
    /\ part = "access"   => AccessTypeOK
    /\ part = "editing"  => EditingTypeOK
    /\ part = "schedule" => ScheduleTypeOK
    /\ part = "mcp"      => McpTypeOK
    /\ part = "starts"   => StartsTypeOK
    /\ part = "dry"      => DryTypeOK
    /\ part = "drawing"  => DrawingTypeOK
    /\ part = "connect"  => IntegrationTypeOK
    /\ part = "nodes"    => NodeLibraryTypeOK

Init ==
    /\ PairingInit /\ AccessInit /\ EditingInit /\ ScheduleInit /\ McpInit /\ StartsInit
    /\ DryInit /\ DrawingInit /\ IntegrationInit /\ NodeLibraryInit
    /\ part \in Parts
    /\ part # "nodes" => definition = CHOOSE d \in Definitions : TRUE

\* The other parts stand still.
Only(p) ==
    /\ part = p /\ UNCHANGED part
    /\ p # "pairing"  => UNCHANGED pairingVars
    /\ p # "access"   => UNCHANGED accessVars
    /\ p # "editing"  => UNCHANGED editingVars
    /\ p # "schedule" => UNCHANGED scheduleVars
    /\ p # "mcp"      => UNCHANGED mcpVars
    /\ p # "starts"   => UNCHANGED startVars
    /\ p # "dry"      => UNCHANGED dryVars
    /\ p # "drawing"  => UNCHANGED drawingVars
    /\ p # "connect"  => UNCHANGED integrationVars
    /\ p # "nodes"    => UNCHANGED libraryVars

Next ==
    \/ Only("pairing")  /\ PairingNext
    \/ Only("access")   /\ AccessNext
    \/ Only("editing")  /\ EditingNext
    \/ Only("schedule") /\ ScheduleNext
    \/ Only("mcp")      /\ McpNext
    \/ Only("starts")   /\ StartsNext
    \/ Only("dry")      /\ DryNext
    \/ Only("drawing")  /\ DrawingNext
    \/ Only("connect")  /\ IntegrationNext
    \/ Only("nodes")    /\ NodeLibraryNext

Spec == Init /\ [][Next]_vars

-----------------------------------------------------------------------------
(***************************************************************************)
(* Who is who: a runtime speaks for the site it was paired with, and a     *)
(* person or a token acts where it may.                                    *)
(***************************************************************************)
IdentityHolds ==
    /\ part = "pairing" => PairingHolds
    /\ part = "access"  => AccessHolds

(***************************************************************************)
(* What a person does to a flow: what is drawn stays whole, and edits,     *)
(* deployments, tests and live runs leave the rows they were answered with.*)
(***************************************************************************)
StudioHolds ==
    /\ part = "drawing" => DrawingHolds
    /\ part = "editing" => EditingHolds
    /\ part = "starts"  => SessionsHold

(***************************************************************************)
(* What the services of the house promise: a due time is started, a server *)
(* that is shown as ready has a session the runtime has not closed, and a  *)
(* dialog that connects a device is answered with what its own flow came   *)
(* to.                                                                     *)
(***************************************************************************)
HouseHolds ==
    /\ part = "schedule" => DueIsStarted
    /\ part = "mcp"      => ReadyIsOpen
    /\ part = "connect"  => IntegrationHolds

(***************************************************************************)
(* What runs compute: a test goes as its fixtures and its clock say, and a *)
(* mean is that of the readings it should remember.                        *)
(***************************************************************************)
TestsHold == part = "dry" => DryRunHolds
NodesHold == part = "nodes" => NodeLibraryHolds
=============================================================================
