----------------------------- MODULE Deployment -----------------------------
(***************************************************************************)
(* How one flow is deployed: the requests of the cloud API that number a   *)
(* deployment and send it, the runtime that activates, refuses or ignores  *)
(* it, the results that travel back, and the analysis state that the runs  *)
(* of the flow load and store under the revision and epoch they began in.  *)
(*                                                                         *)
(* Every table is keyed by the flow, so one flow is modelled.  A step of a *)
(* request ends where its code awaits the database; the runtime handles a  *)
(* message without awaiting anything.                                      *)
(***************************************************************************)
EXTENDS Integers, FiniteSets, Sequences

CONSTANTS
    Revisions,       \* revisions that can be deployed
    Requests,        \* HTTP requests that are made, each at most once
    MaxGeneration,   \* bound on the generations that are given out
    MaxRuns,         \* bound on the runs that are asked for
    MaxDrops,        \* bound on lost connections
    NoRun            \* no run holds the flow

VARIABLES
    exists,          \* the row of flow_drafts is there
    rows,            \* deployments: generation -> revision and status
    request,         \* how far the requests have got
    online,          \* a socket is open and registered in the hub
    down,            \* messages on their way to the runtime, in order
    results,         \* activation.result messages not yet handled
    pointer,         \* the row of active_deployments
    run,             \* the run that holds the flow
    queue,           \* accepted triggers that wait for the flow
    state,           \* node_states: which runs' inputs the rows hold
    started,         \* number of runs that were started
    drops,           \* number of connections that were lost
    accepted,        \* history: deployments the runtime has carried out
    wrote            \* history: runs that have updated the analysis state

cloud   == <<exists, rows, request>>
link    == <<online, down, results, drops>>
runs    == <<run, queue, state, started, wrote>>
runtime == <<pointer, accepted>>
vars    == <<cloud, link, runs, runtime>>

ASSUME DeploymentAssumption ==
    /\ Revisions # {}
    /\ MaxGeneration \in Nat
    /\ MaxRuns \in Nat
    /\ MaxDrops \in Nat

Generations == Nat \ {0}
Epochs      == Nat \ {0}
RunIds      == Nat \ {0}

Statuses == {"requested", "active", "inactive", "failed"}
Kinds    == {"deploy", "deactivate", "delete"}
Stages   == {"new", "read", "numbered", "inserted", "withdraw", "remove", "done"}

RequestRecords == [stage : Stages, kind : Kinds, revision : Revisions,
                   keep : BOOLEAN, generation : Nat]
Deployments == [generation : Generations, revision : Revisions,
                off : BOOLEAN, keep : BOOLEAN]
Starts      == [revision : Revisions]
Results     == [generation : Generations,
                status : {"active", "inactive", "failed", "ignored"}]
Pointers    == [known : BOOLEAN, active : BOOLEAN, revision : Revisions,
                generation : Nat, epoch : Epochs]
RunRecords  == [id : RunIds, revision : Revisions, epoch : Epochs,
                read : SUBSET RunIds, updated : BOOLEAN]
StateRows   == [revision : Revisions, epoch : Epochs, seen : SUBSET RunIds]
Writes      == [run : RunIds, revision : Revisions, epoch : Epochs]

ASSUME NoRunAssumption == NoRun \notin RunRecords

TypeOK ==
    /\ exists \in BOOLEAN
    /\ DOMAIN rows \subseteq Generations
    /\ rows \in [DOMAIN rows -> [revision : Revisions, status : Statuses]]
    /\ request \in [Requests -> RequestRecords]
    /\ online \in BOOLEAN
    /\ down \in Seq(Deployments \cup Starts)
    /\ results \subseteq Results
    /\ pointer \in Pointers
    /\ run \in RunRecords \cup {NoRun}
    /\ queue \in Seq([revision : Revisions, epoch : Epochs])
    /\ state \subseteq StateRows
    /\ started \in Nat
    /\ drops \in 0..MaxDrops
    /\ accepted \subseteq Deployments
    /\ wrote \subseteq Writes

SomeRevision == CHOOSE r \in Revisions : TRUE

\* A request that has nothing to remember.
Blank(stage) == [stage |-> stage, kind |-> "deploy", revision |-> SomeRevision,
                 keep |-> FALSE, generation |-> 0]

Init ==
    /\ exists = TRUE
    /\ rows = <<>>
    /\ request = [q \in Requests |-> Blank("new")]
    /\ online = TRUE
    /\ down = <<>>
    /\ results = {}
    /\ pointer = [known |-> FALSE, active |-> FALSE, revision |-> SomeRevision,
                  generation |-> 0, epoch |-> 1]
    /\ run = NoRun
    /\ queue = <<>>
    /\ state = {}
    /\ started = 0
    /\ drops = 0
    /\ accepted = {}
    /\ wrote = {}
-----------------------------------------------------------------------------
(***************************************************************************)
(* The cloud API.                                                          *)
(***************************************************************************)

\* getFlow shows the deployment with the greatest generation.
Latest(g) == g \in DOMAIN rows /\ \A h \in DOMAIN rows : h <= g

\* A revision is shown as active.
ShownActive(revision) ==
    \E g \in DOMAIN rows : Latest(g) /\ rows[g] = [revision |-> revision, status |-> "active"]

\* COALESCE(MAX(generation), 0).
LastGeneration(g) == IF DOMAIN rows = {} THEN g = 0 ELSE Latest(g)

At(q, stage) == request[q].stage = stage

Move(q, stage) ==
    request' = [request EXCEPT ![q] = IF stage = "done" THEN Blank("done")
                                      ELSE [@ EXCEPT !.stage = stage]]

\* Keeping the state is for the revision that was deployed last, in whatever
\* way that ended.
Deploy(q, r, keep) ==
    /\ At(q, "new")
    /\ exists
    /\ keep => \E g \in DOMAIN rows : Latest(g) /\ rows[g].revision = r
    /\ request' = [request EXCEPT ![q] = [@ EXCEPT !.stage = "read", !.kind = "deploy",
                                                   !.revision = r, !.keep = keep]]
    /\ UNCHANGED <<exists, rows, link, runs, runtime>>

Deactivate(q, r) ==
    /\ At(q, "new")
    /\ exists
    /\ ShownActive(r)
    /\ request' = [request EXCEPT ![q] =
                      [@ EXCEPT !.stage = "read", !.kind = "deactivate", !.revision = r]]
    /\ UNCHANGED <<exists, rows, link, runs, runtime>>

\* A flow whose latest deployment is not active is removed at once.
Delete(q) ==
    /\ At(q, "new")
    /\ exists
    /\ \/ \E r \in Revisions :
            /\ ShownActive(r)
            /\ request' = [request EXCEPT ![q] =
                              [@ EXCEPT !.stage = "read", !.kind = "delete", !.revision = r]]
       \/ /\ \A r \in Revisions : ~ShownActive(r)
          /\ request' = [request EXCEPT ![q] = [@ EXCEPT !.stage = "remove", !.kind = "delete"]]
    /\ UNCHANGED <<exists, rows, link, runs, runtime>>

\* The revisions of a deleted flow are gone with it: 404.
ReadMax(q) ==
    /\ At(q, "read")
    /\ IF exists
       THEN \E last \in 0..(MaxGeneration - 1) :
              /\ LastGeneration(last)
              /\ request' = [request EXCEPT ![q].stage = "numbered",
                                            ![q].generation = last + 1]
       ELSE Move(q, "done")
    /\ UNCHANGED <<exists, rows, link, runs, runtime>>

\* The row must have a flow, and its generation must not be taken.
InsertDeployment(q) ==
    LET g == request[q].generation IN
    /\ At(q, "numbered")
    /\ IF exists /\ g \notin DOMAIN rows
       THEN /\ rows' = [h \in DOMAIN rows \cup {g} |->
                          IF h = g THEN [revision |-> request[q].revision,
                                         status |-> "requested"]
                          ELSE rows[h]]
            /\ Move(q, "inserted")
       ELSE /\ Move(q, "done")
            /\ UNCHANGED rows
    /\ UNCHANGED <<exists, link, runs, runtime>>

Desired(q) == [generation |-> request[q].generation,
               revision |-> request[q].revision,
               off |-> request[q].kind # "deploy",
               keep |-> request[q].kind = "deploy" /\ request[q].keep]

\* A deployment that cannot be sent keeps its row, a deactivation does not.
SendDesired(q) ==
    /\ At(q, "inserted")
    /\ IF online
       THEN /\ down' = Append(down, Desired(q))
            /\ Move(q, IF request[q].kind = "delete" THEN "remove" ELSE "done")
       ELSE /\ Move(q, IF request[q].kind = "deploy" THEN "done" ELSE "withdraw")
            /\ UNCHANGED down
    /\ UNCHANGED <<exists, rows, online, results, drops, runs, runtime>>

WithdrawRow(q) ==
    LET kept == DOMAIN rows \ {request[q].generation} IN
    /\ At(q, "withdraw")
    /\ rows' = [g \in kept |-> rows[g]]
    /\ Move(q, "done")
    /\ UNCHANGED <<exists, link, runs, runtime>>

RemoveFlow(q) ==
    /\ At(q, "remove")
    /\ exists' = FALSE
    /\ rows' = <<>>
    /\ Move(q, "done")
    /\ UNCHANGED <<link, runs, runtime>>

\* Mutant: the status of the runtime is stored as it comes.
ResultStatusRaw(status) == status
ResultStatus(status) == IF status \in {"active", "inactive"} THEN status ELSE "failed"

\* The result of a row that is gone changes nothing.
HandleResult(m) ==
    /\ m \in results
    /\ results' = results \ {m}
    /\ rows' = IF m.generation \in DOMAIN rows
               THEN [rows EXCEPT ![m.generation].status = ResultStatus(m.status)]
               ELSE rows
    /\ UNCHANGED <<exists, request, online, down, drops, runs, runtime>>

\* The runs that were started or will be.
Asked == started + Len(queue) + Cardinality({i \in DOMAIN down : down[i] \in Starts})

\* A user starts the flow by hand.
StartLiveRun(r) ==
    /\ ShownActive(r)
    /\ online
    /\ Asked < MaxRuns
    /\ down' = Append(down, [revision |-> r])
    /\ UNCHANGED <<cloud, online, results, drops, runs, runtime>>
-----------------------------------------------------------------------------
(***************************************************************************)
(* The runtime: deployments.                                               *)
(***************************************************************************)

\* Mutant: every deployment is carried out when it arrives.
IgnoredNever(m) == FALSE
\* A deployment older than the one the flow has been brought to is ignored.
\* The statements of activatePointer and deactivatePointer test this once more,
\* in the same synchronous call.
Ignored(m) == pointer.known /\ pointer.generation > m.generation

\* Nothing is known of the epochs of a flow that is not active.
NextEpoch == IF pointer.active THEN pointer.epoch + 1 ELSE 1

ResolveEpoch(m) ==
    IF m.keep /\ pointer.active /\ pointer.revision = m.revision
    THEN pointer.epoch
    ELSE NextEpoch

Activated(m) == [known |-> TRUE, active |-> TRUE, revision |-> m.revision,
                 generation |-> m.generation, epoch |-> ResolveEpoch(m)]

\* Mutant: turning off does not store the generation.
DeactivatedForgetting(m) == [pointer EXCEPT !.active = FALSE]
\* A flow without a row is not given one.
Deactivated(m) ==
    IF pointer.known
    THEN [pointer EXCEPT !.active = FALSE, !.generation = m.generation]
    ELSE pointer

Reply(m, status) ==
    results' = results \cup {[generation |-> m.generation, status |-> status]}

IsDeployment(m) == m \in Deployments

Receive(m) ==
    /\ online
    /\ down # <<>>
    /\ m = Head(down)
    /\ down' = Tail(down)

\* Mutant: what is ignored is not answered.
IgnoreDeploymentSilently(m) ==
    /\ Receive(m)
    /\ IsDeployment(m)
    /\ Ignored(m)
    /\ UNCHANGED <<cloud, online, results, drops, runs, runtime>>
IgnoreDeployment(m) ==
    /\ Receive(m)
    /\ IsDeployment(m)
    /\ Ignored(m)
    /\ Reply(m, "ignored")
    /\ UNCHANGED <<cloud, online, drops, runs, runtime>>

TurnOff(m) ==
    /\ Receive(m)
    /\ IsDeployment(m)
    /\ m.off
    /\ ~Ignored(m)
    /\ pointer' = Deactivated(m)
    /\ accepted' = accepted \cup {m}
    /\ Reply(m, "inactive")
    /\ UNCHANGED <<cloud, online, drops, runs>>

Activate(m) ==
    /\ Receive(m)
    /\ IsDeployment(m)
    /\ ~m.off
    /\ ~Ignored(m)
    /\ pointer' = Activated(m)
    /\ accepted' = accepted \cup {m}
    /\ Reply(m, "active")
    /\ UNCHANGED <<cloud, online, drops, runs>>

\* A connection is missing, a catalog is of another version, an MCP server is
\* not ready, or the definition does not compile.
RefuseDeployment(m) ==
    /\ Receive(m)
    /\ IsDeployment(m)
    /\ ~m.off
    /\ ~Ignored(m)
    /\ Reply(m, "failed")
    /\ UNCHANGED <<cloud, online, drops, runs, runtime>>
-----------------------------------------------------------------------------
(***************************************************************************)
(* The runtime: runs and their analysis state.                             *)
(***************************************************************************)

\* Of a deployment that is not active the first epoch is taken.
CurrentEpoch == IF pointer.active THEN pointer.epoch ELSE 1

RowsOf(revision, epoch) ==
    {row \in state : row.revision = revision /\ row.epoch = epoch}

Remembered(revision, epoch) == UNION {row.seen : row \in RowsOf(revision, epoch)}

\* A run loads the state of its revision in the epoch of the moment.
Begin(revision) ==
    /\ run = NoRun
    /\ run' = [id |-> started + 1, revision |-> revision, epoch |-> CurrentEpoch,
               read |-> Remembered(revision, CurrentEpoch), updated |-> FALSE]
    /\ started' = started + 1

\* A trigger starts a run, or is queued under its revision.
Accept(revision) ==
    /\ \/ Begin(revision) /\ UNCHANGED queue
       \/ /\ run # NoRun
          /\ queue' = Append(queue, [revision |-> revision, epoch |-> CurrentEpoch])
          /\ UNCHANGED <<run, started>>
    /\ UNCHANGED <<state, wrote>>

\* A manual start names its revision, whatever is active when it arrives.
StartFromCloud(m) ==
    /\ Receive(m)
    /\ m \in Starts
    /\ Accept(m.revision)
    /\ UNCHANGED <<cloud, online, results, drops, runtime>>

\* A trigger of time, Home Assistant or a device starts what is active.
FireTrigger ==
    /\ pointer.active
    /\ Asked < MaxRuns
    /\ Accept(pointer.revision)
    /\ UNCHANGED <<cloud, link, runtime>>

\* Mutant: the state is stored under what is deployed now.
UpdateStateCurrent ==
    /\ run # NoRun
    /\ ~run.updated
    /\ state' = (state \ RowsOf(run.revision, CurrentEpoch)) \cup
                  {[revision |-> run.revision, epoch |-> CurrentEpoch,
                    seen |-> run.read \cup {run.id}]}
    /\ run' = [run EXCEPT !.updated = TRUE]
    /\ wrote' = wrote \cup {[run |-> run.id, revision |-> run.revision,
                             epoch |-> run.epoch]}
    /\ UNCHANGED <<cloud, link, queue, started, runtime>>
\* node.stateUpdated: what the run has loaded, and its own input.
UpdateState ==
    /\ run # NoRun
    /\ ~run.updated
    /\ state' = (state \ RowsOf(run.revision, run.epoch)) \cup
                  {[revision |-> run.revision, epoch |-> run.epoch,
                    seen |-> run.read \cup {run.id}]}
    /\ run' = [run EXCEPT !.updated = TRUE]
    /\ wrote' = wrote \cup {[run |-> run.id, revision |-> run.revision,
                             epoch |-> run.epoch]}
    /\ UNCHANGED <<cloud, link, queue, started, runtime>>

EndRun ==
    /\ run # NoRun
    /\ run' = NoRun
    /\ UNCHANGED <<cloud, link, queue, state, started, wrote, runtime>>

StartQueued ==
    /\ queue # <<>>
    /\ Begin(Head(queue).revision)
    /\ queue' = Tail(queue)
    /\ UNCHANGED <<cloud, link, state, wrote, runtime>>
-----------------------------------------------------------------------------
(***************************************************************************)
(* The connection.  What is on its way when it is lost may be lost.        *)
(***************************************************************************)

Disconnect ==
    /\ online
    /\ drops < MaxDrops
    /\ online' = FALSE
    /\ down' = <<>>
    /\ \E kept \in SUBSET results : results' = kept
    /\ drops' = drops + 1
    /\ UNCHANGED <<cloud, runs, runtime>>

Reconnect ==
    /\ ~online
    /\ online' = TRUE
    /\ UNCHANGED <<cloud, down, results, drops, runs, runtime>>

MakeRequest(q) ==
    \/ \E r \in Revisions, keep \in BOOLEAN : Deploy(q, r, keep)
    \/ \E r \in Revisions : Deactivate(q, r)
    \/ Delete(q)

Continue(q) ==
    \/ ReadMax(q)
    \/ InsertDeployment(q)
    \/ SendDesired(q)
    \/ WithdrawRow(q)
    \/ RemoveFlow(q)

HandleMessage ==
    \E m \in {down[i] : i \in DOMAIN down} :
        \/ IgnoreDeployment(m)
        \/ TurnOff(m)
        \/ Activate(m)
        \/ RefuseDeployment(m)
        \/ StartFromCloud(m)

ResultArrives == \E m \in results : HandleResult(m)

Next ==
    \/ \E q \in Requests : MakeRequest(q) \/ Continue(q)
    \/ ResultArrives
    \/ \E r \in Revisions : StartLiveRun(r)
    \/ HandleMessage
    \/ FireTrigger
    \/ UpdateState
    \/ EndRun
    \/ StartQueued
    \/ Disconnect
    \/ Reconnect

Spec == Init /\ [][Next]_vars
-----------------------------------------------------------------------------
(***************************************************************************)
(* Properties.                                                             *)
(***************************************************************************)

\* In whatever order deployments arrive, the flow is as the newest of those the
\* runtime has carried out left it: a late one never takes effect over it
\* (deploy/activate.ts).
Matches(m) ==
    /\ pointer.generation = m.generation
    /\ pointer.active = ~m.off
    /\ ~m.off => pointer.revision = m.revision

NewestWins ==
    accepted # {} => \E m \in accepted :
        /\ pointer.known
        /\ Matches(m)
        /\ \A other \in accepted : other.generation <= m.generation

\* What the cloud shows of a deployment is what it did at home: "active" and
\* "inactive" are shown only after the runtime got there, and unless the
\* runtime has moved on, it is still there (runtime/inbound.ts).
ShownIsTrue ==
    \A g \in DOMAIN rows :
        rows[g].status \in {"active", "inactive"} =>
            /\ pointer.known
            /\ pointer.generation >= g
            /\ pointer.generation = g =>
                 /\ pointer.active = (rows[g].status = "active")
                 /\ pointer.active => pointer.revision = rows[g].revision

\* Analysis state is neither lost nor mixed: under a revision and an epoch there
\* is exactly what the runs that began in them have stored, however the flow was
\* redeployed while they ran (store/node-states.ts).
StatesAreWhole ==
    \A w \in wrote :
        Remembered(w.revision, w.epoch) =
            {v.run : v \in {u \in wrote : u.revision = w.revision /\ u.epoch = w.epoch}}

\* At home the newest deployment stands, and so does the state of each epoch.
HomeIsRight == NewestWins /\ StatesAreWhole

\* When everything that was sent has been handled, and no connection was lost,
\* every deployment has been decided: none is left as "requested", whichever of
\* them overtook another (flows/deploy-revision.ts, runtime/inbound.ts).
Quiet ==
    /\ \A q \in Requests : request[q].stage \in {"new", "done"}
    /\ down = <<>>
    /\ results = {}

AllDecided ==
    Quiet /\ drops = 0 => \A g \in DOMAIN rows : rows[g].status # "requested"

\* What the cloud shows of deployments is true, and decided in the end.
CloudIsRight == ShownIsTrue /\ AllDecided

-----------------------------------------------------------------------------
(* The abstract specification the runtime implements. *)

Flow == INSTANCE DeployedFlow WITH
    setting <- [generation |-> pointer.generation, on |-> pointer.active,
                revision |-> pointer.revision, epoch |-> CurrentEpoch],
    holders <- {[id |-> h.id, revision |-> h.revision, epoch |-> h.epoch, added |-> h.updated] :
                    h \in {run} \ {NoRun}},
    last <- started,
    memory <- UNION {{[run |-> i, revision |-> row.revision, epoch |-> row.epoch] :
                         i \in row.seen} : row \in state}

\* The runtime implements DeployedFlow: deployments take effect one after the other,
\* each newer than those before it; and though a run loads analysis state when it
\* begins and stores it later, with deployments in between, it adds itself to what
\* is remembered then (deploy/activate.ts, store/node-states.ts).
ActsAsDeployed == Flow!Spec

-----------------------------------------------------------------------------
(* Said of deployments, and not so. *)

\* docs/product/04-editor-and-runs.md:47: an active flow is turned off before it
\* is deleted.  When nothing is under way and the flow is active at home, what is
\* shown last may be a later deployment that failed, and the flow stays active.
DeletedIsOff ==
    [][\A q \in Requests : Delete(q) /\ Quiet /\ pointer.active =>
                              ~(At(q, "remove"))']_vars

\* plan/product-plan.md:492: a deployment that does not keep the state starts
\* with an empty one.
ResetStartsEmpty ==
    [][\A m \in {down[i] : i \in DOMAIN down} :
         Activate(m) /\ ~m.keep => RowsOf(pointer'.revision, pointer'.epoch) = {}]_vars

\* docs/product/06-dry-run.md:71: what was queued keeps the epoch it was
\* accepted in.
QueueKeepsEpoch ==
    [][StartQueued => run'.epoch = Head(queue).epoch]_vars
=============================================================================
