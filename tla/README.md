# Howling: models, checks and proofs

Howling runs small automation flows at home. A *flow* is drawn in the web
editor, compiled by `packages/core`, deployed by the cloud API (`apps/api`) to a
*runtime* (`apps/runtime`, a Node process with a SQLite file on a box in the
house) and executed there: a trigger starts a *run*, nodes compute or ask the
outside world for *effects* (an HTTP or Home Assistant call, a timer), and the
state of the run is stored at each transition so that a crash loses nothing and
repeats nothing. This directory holds TLA+ modules of that program, TLC
configurations that check them, and theorems that TLAPS checks.

## 1. Inventory

| Component | State it keeps | Operations | Properties that make it correct | Module |
| --- | --- | --- | --- | --- |
| Execution kernel, `packages/core/src/runtime` | none; a run is a value `ExecutionState` | `startRun`, `stepRun`, `applyCommand` (pause, resume, cancel, dispatchStarted, effect.resolve, clock.advance) | a run never stalls; nodes start only on the paths that lead to them; what is decided is final; a run ends | `Kernel` |
| Compiler, `packages/core/src/compiler` | none | `compileWorkflow`: shape, graph, joins, references, plan | what it lets a node refer to is there when the node runs | `Kernel`, `Drawing` |
| Node library, `packages/core/src/nodes` | none | mean, condition, map, alert, delay, joins | a mean is that of the last readings; a join finds what it reads | `NodeLibrary` |
| Core drivers, `packages/core/src/drivers` | none | live, dry run, virtual clock | a test gets to its end in the order of its clock | `DryRun`, `Kernel` |
| Runtime host, `apps/runtime/src/coordinator` | an inbox and the message in hand, in memory | `start_run`, `step`, `continue`, `pause`, `resume`, `cancel`, `fixture`, `core_command`, `dispatch`; recovery at boot | one open run per flow; at most one call per effect; nothing is forgotten; pauses hold; cancels are final | `Coordinator` |
| Runtime store, `apps/runtime/src/store` | SQLite: `trigger_inbox`, `run_snapshots`, `effect_outbox`, `pending_inbox`, `runtime_commands`, ... | one transaction per write | rows of different tables agree | `Coordinator`, `SyncJournal` |
| Timer scheduler, `apps/runtime/src/timer` | armed timers, in memory | `schedule`, fire, `stop` | every requested timer fires once | `Coordinator` |
| Deployment, `apps/runtime/src/deploy`, `apps/api/src/flows` | in the cloud: rows of `deployments` numbered by generation; at home: active revision, generation and state epoch per flow | `deployRevision`, `deactivateFlow`, `deleteFlow`, `setDeploymentStatus`; `activateArtifact` | the newest deployment wins in whatever order they arrive; what is shown is what happened | `Deployment` |
| Analysis state, `apps/runtime/src/store/node-states.ts` | remembered values per revision, epoch and node | loaded when a run begins, stored when a node updates it | neither lost nor mixed, when a flow is redeployed and from run to run | `Deployment`, `NodeLibrary` |
| Sync journal, `apps/runtime/src/store/sync-journal.ts`, `apps/api/src/data` | numbered rows, acknowledgement marks; in the cloud: rows received, one cursor per stream, the projection of runs | append, send, send again, acknowledge, empty | what is acknowledged is stored; what is recorded arrives; capture off means off | `SyncJournal` |
| Gateway and hub, `apps/runtime/src/gateway`, `apps/api/src/runtime` | a socket on each side, the hub, the registration with its generation and online mark | connect, hello, heartbeat, close, silence, restart | one socket speaks for a runtime; what is shown online can be reached | `Gateway` |
| Devices, `apps/runtime/src/devices`, `apps/api/src/devices` | a table at home and a copy in the cloud; pending requests with timers | create, act, rename, delete, integrate, detail; snapshots, the report every 5 s | what a user is told was done once; the copy comes to agree | `DeviceCatalog`, `Integration` |
| Home Assistant connector, `apps/runtime/src/ha` | sockets of a connector and its successor, what it last knew of an entity | authenticate, get states, subscribe, events, reconnect, replace | a run is started by news only; the link comes back | `HaLink` |
| MCP connector, `apps/runtime/src/mcp` | files, rows, sessions, reloads and authorisations under way | save, reload, authorise, call | what is shown as ready has a session the runtime has not closed | `McpLink` |
| Time triggers, `apps/runtime/src/triggers` | what is due and has fired, in memory | tick, refresh of the sun | what is due today is started, also after a restart; what was learnt is, also after midnight | `Schedule` |
| Pairing, `apps/runtime/src/setup`, `apps/api/src/pairings` | codes, claims, a token file, an identity row | offer, claim, poll, acknowledge | a token is lost only to another claim of its code, and goes with its identity unless it was cut off from it | `Pairing` |
| Logins, sites, tokens, `apps/api/src/auth`, `sites`, `tokens` | login states, users, sites, memberships, sessions, tokens | callback, provisioning, issue, revoke, authenticate | who has a session has a site; a revoked token serves nobody | `Access` |
| Flows, drafts, revisions, `apps/api/src/flows`, `apps/web/src/pages/editor-page.tsx` | versions of drafts and positions, revisions, deployments, and what pages hold of them | save, deploy, roll back, rename, load | edits are not dropped behind the back of who made them | `Editing` |
| Editor canvas, `apps/web/src/lib/flow-model.ts`, `flow-edges.ts` | the definition a page holds | add, connect, remove, bind, repair | no edge or binding dangles; saving repairs and does not change | `Drawing` |
| Test sessions and live starts, `apps/api/src/flows/start-*.ts` | sessions, run rows, idempotency rows | start, replay, start live | an answered test exists; rows do not go back | `TestSessions` |
| Dry runs in the runtime, `apps/runtime/src/coordinator/handle-dry-run.ts` | the run, its fixtures, its clock | start, step, fixture, clock, recovery | a test with its fixtures gets to its end by itself | `DryRun` |
| Page of a run, `apps/web/src/run`, `apps/api/src/flows/events.ts` | an event stream with a cursor, polls | stream, poll, retention | the stream has no gaps; the page ends with the truth | `RunPage` |
| Migrations, secrets, contracts, infrastructure | files, schemas | | not of this kind | |

How they interact. The host is the only caller of the kernel. Messages reach its
inbox from the gateway (`gateway/control.ts`), the local HTTP routes
(`http/run-routes.ts`), the triggers of Home Assistant, devices and time, the
timer scheduler, and the host itself (`coordinator/follow-up.ts`). The gateway
and hub carry `run.start`, `run.step`, deployments, requests about devices, and
in the other direction the journal, snapshots of the devices and statuses. The
web pages see the cloud's tables only.

What is hard in this code:

* *Ordering in one process.* Handlers are synchronous but for the awaited
  adapter call, during which everything from outside may be appended; what a
  handler schedules is handled after what is in the inbox already, when the run
  may have been paused, cancelled or finished.
* *Crash.* A handler writes in several transactions, and an adapter call is none
  of them. Recovery has to rebuild the inbox from what was stored.
* *Propagation.* A node that ends resolves edges, and idle nodes are looked at
  until nothing changes: branches, ALL, ANY, errors with and without a route.
* *Rejected promises.* Most senders discard the promise of `enqueue`; a handler
  that throws then ends the process (`unhandledRejection` has no handler).
* *Queries that are not one.* The API writes most things in two or three queries
  with awaits between them, for requests that run beside each other, and the
  messages of a lost socket are handled beside those of the next one.
* *Two memories of one thing.* A page and the API, the API and the runtime, the
  runtime and Home Assistant keep copies of each other's state, written by
  replies, by periodic reports and by events, each on a way of its own.

`PROJECT.json` lists each hazard at its line with the properties that cover it.

## 2. Modules

| Module | What it models |
| --- | --- |
| `RunContract` | the kernel as the host relies on it: the set of snapshots a command may lead to |
| `Coordinator` | the host, its store, the timers, crash and recovery |
| `EffectDelivery`, `FlowLease` | abstract: what the host promises about an effect and about the runs of a flow |
| `DeployedFlow`, `RowDelivery` | abstract: what the runtime promises about a flow that is deployed while it runs, and the journal about the rows of a stream |
| `Kernel` | compiler checks and kernel: plans, edges, joins, propagation, commands |
| `RunSpec` | `RunContract` as a specification of its own, which `Kernel` implements |
| `Deployment` | the deployment of one flow, from the requests of the API to the epoch a run stores its state under |
| `SyncJournal` | the journal of a runtime, its sockets, the cloud's tables, and the capture policy |
| `Gateway` | the connections of a runtime, the hub, and the online mark |
| `DeviceCatalog` | devices at home, their copy in the cloud, and requests about them |
| `HaLink` | the link to Home Assistant and the runs its events start |
| `RunPage` | the page of one run, its stream and its polls |
| `Pairing`, `Access` | how a runtime comes by its credential; logins, sites, tokens |
| `Editing`, `Drawing` | pages that save and deploy one flow; what is drawn in a page |
| `TestSessions`, `DryRun` | a test in the cloud; a test in the runtime |
| `Schedule` | triggers of the time of day and of the sun |
| `McpLink` | connections to MCP servers |
| `Integration` | the dialog that connects a device |
| `NodeLibrary` | what nodes compute and remember |
| `MCCoordinator`, `MCKernel`, `MCDeployment`, `MCSyncJournal`, `MCLinks`, `MCServices` | the instances TLC checks |
| `SequenceLemmas` | lemmas about the least member of a set, and the lists and concatenations the models use |
| `Coordinator_proofs`, `Kernel_proofs`, `Deployment_proofs`, `SyncJournal_proofs` | the proofs about the modules of these names; `Coordinator_proofs` begins with those about `RunContract` |
| `Links_proofs` | the proofs about the parts of `MCLinks`, one after the other, and all of them together |
| `Studio_proofs`, `Services_proofs` | the proofs about the parts of `MCServices`: `TestSessions`, `Editing`, `DryRun` and `Integration`; then the others, and all of them together |

The host and the kernel meet in `RunContract`. `Coordinator` takes from it any snapshot a
command may lead to, so what holds of the host holds for every compiled flow
whose kernel keeps the contract; that the kernel keeps it is the refinement
`KeepsContract` of `Kernel`, checked over all graphs of four nodes and proved for
every definition the compiler accepts (`ContractKept`).

`MCLinks` and `MCServices` each put several components that share no state into
one run: the variable `part` says which of them a behaviour is of, the others
stand still, and each property says of each part what it promises. The first
holds the parts with liveness properties, the second those without.

### Coordinator

| Variable | Code |
| --- | --- |
| `trigger`, `order`, `overdue` | rows of `trigger_inbox`: status and run; `created_at` order; `expires_at` has passed |
| `run` | `run_snapshots`: flow, mode, snapshot, and the command ids in it (`commandDigests`) |
| `outbox` | `effect_outbox` |
| `pending` | `pending_inbox`: answers that were saved before they are handled |
| `commands` | `runtime_commands`: ids and payloads |
| `inbox`, `handler` | the queue of `inbox.ts` and how far the message in hand has got |
| `proc` | up; up with an unhandled rejection pending (`fatal`); down |
| `armed` | the timers of `timer/scheduler.ts` |
| `arrivals`, `crashes` | bounds on the environment |
| `calls`, `applies` | history: adapter calls, and the users' commands applied |

One step is one transaction, since the process may die between two: a start is
`AcceptTrigger` (the row), `BeginStart` (the commit of the run) and `MarkStarted`
(the row again, and `afterPersist`); a dispatch is `StartDispatch` (the commit of
dispatchStarted), `Execute` (the call) and `Answer` (the answer saved and
enqueued); a core command is `HandleCoreCommand` and `DropPending`. A command of a
user is one step, `HandleCommand`, since it writes once and then only enqueues.
Handlers that return early or throw are steps of their own (`AnswerDuplicate`,
`RefuseTrigger`, `SkipDispatch`, `RepeatCommand`, `RefuseCommand`,
`RepeatCoreCommand`, `RefuseCoreCommand`).

What reaches the inbox from outside is constrained by `Quiet`: JavaScript is not
preempted, so a sender runs only when the inbox has run dry or while an adapter
call is awaited. `Recover` is one step: nothing is awaited between the start of
the gateway (`main.ts:78`) and `recoverHost` (`main.ts:235`), so nothing arrives
in between.

Messages carry `void` when nobody awaits them. The local HTTP routes await
(`SendTrigger(t, TRUE)`); the cloud, Home Assistant, device and time senders and
the host's own follow-ups do not.

Abstractions: every sender mints a fresh trigger id, so a trigger arrives once
under its id and again only under the id of a retry with the same key. A clock
command is a commit that changes no node. A snapshot keeps, per node, whether it
is idle, ready, waiting or over, the status of its effect (and whether a live
answer or a fixture settled it, because the kernel compares answers), and the
two flags; which nodes a node makes ready is a choice.

### Kernel

`plan` is the compiled definition; `run` its `ExecutionState` with the node
statuses, edge statuses, ready queue, effects, ANY winners, published outputs and
errors, routed errors and the two flags; `Status` is `deriveStatus`. Nodes are
numbered by `topoRank`, so that the queue is a set whose least member is next;
`keys` is the order of the nodes in the definition, which is the order in which
`refreshIdleNodes` visits them. The fixpoint of `refreshIdleNodes` is as many
passes as there are nodes, because each pass that changes anything takes a node
out of `idle`. What a node computes is data: it succeeds or fails as it likes.

Left out of the definitions: a join with two inputs bound to one port, and an
entry with bound inputs, which can only fail. The edges of a join are ordered
like their source nodes. The digests by which the kernel recognises a repeated
command are in `Coordinator` (`applied`), where commands are repeated.

### Deployment

| Variable | Code |
| --- | --- |
| `exists`, `rows` | the row of `flow_drafts`; `deployments` of the flow, by generation |
| `request` | the HTTP requests, each up to the await it has reached |
| `online`, `down`, `results` | the socket; `desired.deployment` and `run.start` on it; `activation.result` not yet handled |
| `pointer` | the row of `active_deployments` (`store/artifacts.ts`): active, revision, generation, epoch |
| `run`, `queue` | the open run of the flow with the revision, the epoch and the state it loaded; the triggers that wait |
| `state` | `node_states`: which runs' inputs are in the values of a revision and epoch |
| `started`, `drops` | bounds on the environment |
| `accepted`, `wrote` | history: deployments carried out; which run stored what under which revision and epoch |

A request is as many steps as it awaits: `Deploy`, `Deactivate` or `Delete` is the
look at the flow, then `ReadMax` and `InsertDeployment` (two queries, so that two
users may draw the same number, of whom one gets an error), `SendDesired`, and
`WithdrawRow` or `RemoveFlow`. The runtime handles a message without awaiting:
`IgnoreDeployment`, `TurnOff`, `Activate`, `RefuseDeployment`, `StartFromCloud`.
Results are a set, since the messages of a lost socket are handled beside those
of the next. A lost connection takes what is on its way down and any part of what
is on its way up.

Abstractions: every table is keyed by the flow, so there is one flow. Why a
deployment is refused (a connection missing, a catalog of another version, an MCP
server not ready, a definition that does not compile) is a choice. The value a
node remembers is the set of runs whose input is in it. A run is begin, store,
end; what is between is `Coordinator`. Idempotency records and authorisation are
left out.

### SyncJournal

| Variable | Code |
| --- | --- |
| `committed` | the number of events of each run in the runtime's store |
| `publishing` | the run whose transition was committed and whose `afterCommit` has not ended |
| `journal` | `summary_journal`, one sequence per stream; the index is `sync_seq` |
| `capture` | `capture_raw` of the runtime's policy |
| `socket`, `open`, `up`, `down` | the sockets the runtime opened, and what is on its way on them |
| `hub` | the socket the cloud sends to (`runtime/hub.ts`) |
| `handler` | for each socket, the await which the handling of a message has reached |
| `stored`, `cursor`, `summary` | `sync_journal`, `sync_cursors.last_acked`, `run_summaries.last_seq` |
| `policy`, `pushes` | `site_data_policies`; the pushes of a changed policy that await |
| `changes`, `failures` | bounds on the environment |
| `clean`, `before`, `lapsed` | history: no handler failed on the last socket; what was committed when capture was turned on; the runs whose last transition got no row |

`Connect` is the handler of a socket's `open` event: the hello, the summaries not
acknowledged, the raw rows under the policy at hand. `Commit` is the transaction of
a transition and nothing else; its rows are appended and sent by `afterCommit`, a step
of its own: `Publish` is `publishRunSummary` and `publishRunRaw` to their end, `Lapse`
any part of them that an error, which is swallowed, or the death of the process
leaves. Nothing publishes a transition again; the next one of the run is published
with all events of the run. Between `Commit` and its `afterCommit` the runtime does
nothing else (`Free`), since it is one call of one thread, while sockets drop and the
cloud goes on. On the cloud's side the promise chain of
`ws.ts` gives each socket one handler at a time, and a lost socket's chain is run
to its end next to that of the next socket: that is where messages overtake each
other. `Fail` is a rejected query, which `.catch(() => undefined)` swallows;
`Restart` ends the API process.

Abstractions: one site with one runtime; each commit is summarised as the number
of its run's events; the observe stream is left out, which is a journal like the
summary; heartbeats, which put a socket in the hub as a hello does, are in
`Gateway`; retention of the cloud is left out; the cursor and the `acked_at` marks of
the rows up to it are one step.

### Gateway

| Variable | Code |
| --- | --- |
| `client`, `last`, `here` | `gateway/client.ts`: its state, its counter of connections, its ends of the sockets |
| `there`, `auth`, `waiting`, `handling` | `runtime/ws.ts`: the other ends, the look-up of the token, the promise chain and the message whose query is awaited |
| `hub`, `mark` | `runtime/hub.ts`; the row of `runtime_registrations` |
| `leaving` | offline updates of closed sockets under way |
| `gen`, `dead`, `faults` | the generation a socket was given; sockets on which nothing passes, unnoticed; bound |

A hello is `Takes`, `BindHub` (with the close of the socket it replaces) and
`MarksHello`; a heartbeat is the same with `Touches`; a close is `HearsClose`
and `MarksOffline`. `Tick` is the interval of the client and the growing age of
`last_seen`; `Expires` is the sweep for silent runtimes. What the messages do
otherwise is in `Deployment`, `SyncJournal` and `DeviceCatalog`.

### DeviceCatalog

`home` is the runtime's table `devices`, `shown` the cloud's `site_devices`;
`request` is a user's request with its timer (`devices/act.ts`, `mutate.ts` of
the API), `asks` and `tells` what is on its way, `calling` the requests for
which Home Assistant is awaited, `writer` how far the cloud is with a message.
The copy is written by three hands that do not wait for each other: a snapshot,
row by row (`ReplacesOne`, `HidesOthers`), the reply (`TakesMessage`) and the
request once it has its reply (`WritesAgain`). A name and an action change the
reading of a row alike; entities are not classified.

### HaLink

`house` is the sequence of states of one entity, `handle` the connectors (one,
and the one that replaces it when the owner saves another address), `sock` their
sockets with what is on its way, `shownHa` the status that was reported,
`starts` the runs that were started. What a connector knows is a place in
`house`. Calls of services are in `Coordinator` (`Execute`, `Answer`); the
correlation of requests and `get_services` are left out.

### RunPage

`journal`, `late`, `unprojected`, `row`, `emptied` and `minSeq` are the cloud's
tables for one run; `stream`, `cursor`, `reads` and `written` the event stream
(`flows/events.ts`), whose timer begins a read without waiting for the one
before; `polls` and `onPage` the page (`use-run-stream.ts`). Summaries are
stored one at a time, retention runs once, and asking and the query it makes are
one step.

### Pairing and Access

In `Pairing` a claim is three queries (`ClaimPairing`, `Registers`, `Issues`); a
poll is answered with the token (`PollTakes`), which the runtime writes to its
file, acknowledges (`AckReads`, `AckMarks`), and only then stores the identity that
goes with it (`TakesCredential`): `code`, `claim`, `poll`, `ack`, `disk` and `session` hold
the places in between. Codes and claims run side by side, as nothing in the code
keeps them from it: the setup page asks for another code while one is polled, and
claims of one code or for one site overlap. `torn` remembers that a token waited
for its identity when the runtime stopped or another token was taken, `crossed` the
claims that met an earlier one for their site. In `Access` a callback of the
OpenID provider is a query at a time (`callback`), beside others; a call with a
token looks the token up and is served later (`call`).

### Editing and Drawing

In `Editing` `saved`, `editorVersion`, `revisions` and `deployments` are the tables,
`tab` is what a page holds, and `job` the chains of requests that clicks have
begun: the draft and the positions are saved, the flow is read again, and, as
the button has it, frozen, deployed and waited for. At most `MaxAtOnce` chains
run beside each other; a chain is cut off after the draft was saved and before
the page knows, and a page is loaded again only when none of its chains runs.
Other writers of drafts (tools of the cloud's MCP server) are left out. Four
clicks with one deployment were checked as well.

`Drawing` holds the `FlowDefinition` of a page: `Added`, `Connected`, `Without`,
`Repaired` are `addNode`, `connectNodes`, `removeNodes`, `repairBindings`, and
`Compiles` is what the compiler accepts. Configuration, paths, outputs typed by
hand and drafts from elsewhere are left out.

### TestSessions and DryRun

`TestSessions` is the cloud's side of a test: `start` is a request with how far it
is, `remembered`, `tested` and `rows` the three tables it is entered in after it
was sent (`wire`), `home` and `reported` the runtime's runs and what the cloud
heard of them. A revision as a source is like the draft, and summaries come in
order (`SyncJournal`). `DryRun` is the runtime's side: `test` is the row of the
run, `bundle` its fixtures, `mail` the inbox, `applied` the command ids of the
run. `Follow` is `afterPersist`, with the driver's commands (`NextCommands`) before
the next step. Cancels, unknown results, failing nodes and fixtures that do not
match are left out; the flow has four nodes, two of them timers.

### Schedule

`pending` is what `triggers/time.ts` remembers by artifact and binding, `sun` the
time that was read of Home Assistant, which names the next one only, `inbox` the
keys of the triggers accepted. Time is in units longer than the interval of the
ticks, so that a tick falls in each; all days are equally long. The time of a
schedule is looked for from today on (`nextLocalOccurrence`), so that after midnight
yesterday's is known only to a runtime that remembers it (`pending`).

### McpLink

`config`, `bearer` and `connRow` are files and rows, `opened` the map of sessions,
`client` the sessions, which may end by themselves without anyone being told
(`SessionEnds`), `reload` the reloads, which nothing keeps from overlapping
(`ClosesNext`, `ClearsAll`, `OpensNext`, `IsOpened`, `IsRefused`), `oauth` and
`exchange` authorisations, `mcpCall` the calls of tools. The framing of JSON-RPC
and the contents of catalogs are left out.

### Integration

`configFlow`, `devicesMade` are Home Assistant's, `pendingFlows` and `deviceRows` the
runtime's (`integrate.ts`), `asked` the requests with their two timeouts, `dialog`
the web dialog. Fields and texts, restarts of Home Assistant, flows it gives up
by itself, and the repeated look for discovered flows are left out.

### NodeLibrary

One shape of flow (mean, condition, alert or delay, join) with one `definition` out
of several, stepped node by node: `runs` are the runs in hand, `row` is what the
mean remembers in `node_states`, `again` a trigger whose run was stored without
its mark, `counted` the readings in the order live runs counted them. Since such
a trigger starts again (see `CoordinatorRepeat`), its reading may be counted
twice. A map and the input pass values on; schemas and the order of object keys
are left out.

## 3. What the runs check

`CHECK_DEADLOCK FALSE` is in every run but those of the kernel: the house may stop
sending triggers, users may stop making requests, and arrivals, requests, commits
and sockets are bounded. A plan of the kernel always has a command left that is
accepted.

| Run | Question | States, time |
| --- | --- | --- |
| `CoordinatorCrash` | With two automatic triggers of one flow, one crash at any step and a command: is the flow held by one open run (`HoldingUnique`), is each effect called at most once (`AtMostOneCall`) and does the host implement `EffectDelivery` (`DeliversOnce`)? `NothingStands`: do runs end (`RunEnds`) and are saved answers applied (`AnswersApplied`)? | 123,108, 90 s |
| `CoordinatorQueue` | Three triggers, one of them a retry with the key of another, a queue of one and two commands, no crash: `QueueIsSound` (`QueueMoves`: a queued trigger waits for a reason; `OneRunPerTrigger`), `CancelFreezes`, `PauseHolds`, and every queued trigger is served (`TriggersServed`) | 252,254, 65 s |
| `CoordinatorRecovery` | A manual and an automatic flow, every command but `step`, fixtures included, ids used twice, one crash: `OutboxAgrees`, `NothingIsLost` (`NothingForgotten`, `ManualWaits`, `AppliedOnce`), `EffectsMoveForward`, and the host implements `FlowLease` (`LeaseKept`) | 831,151, 80 s |
| `KernelGraphs` | Every graph of four nodes with a call and a condition, joins of two and three inputs, in each of the 24 orders of its nodes: `PathsAreKept` (`NoStall`, `StartsOnPath`, `SkippedIffUnreached`, `CompletedIsHandled`), `ReferencesHold`, `PastIsFinal` | 443,424, 27 s |
| `KernelContract` | Every graph of four nodes with a call and a timer under pause, resume, cancel, answers, fixtures and unknown results: the kernel implements `RunSpec` (`KeepsContract`) and its runs end (`RunEnds`) | 43,208, 18 s |
| `Deployment` | Three requests of any kind by users who do not know of each other, two revisions, three generations, two runs of either origin, one lost connection: `HomeIsRight` (`NewestWins`, `StatesAreWhole`), `CloudIsRight` (`ShownIsTrue`, `AllDecided`), and the runtime implements `DeployedFlow` (`ActsAsDeployed`) | 866,739, 25 s |
| `SyncJournal` | Two transitions of a run, three sockets, one failed query or restart of the cloud: `NothingIsMissed` (`AckedIsStored`, `RowsArrive`; `SummariesArrive`: what is shown of a run is its newest row, and its last transition unless the publication of that failed or was cut off), and the journal implements `RowDelivery` (`DeliversRows`) | 1,131,552, 30 s |
| `SyncCapture` | Capture on, one transition, two sockets, one change of the policy: `OffDiscards`, and under fairness every row is stored at last (`StoredAtLast`) | 147,276, 25 s |
| `Links` | The connections over which sides keep pictures of each other. `PicturesAreTrue`: the hub holds the socket that was heard of (`HubSpeaks`); a request answered with success was carried out at home, once (`AnswersAreTrue`); what Home Assistant's events start is news (`StartsAreNews`); the stream of a run has no gaps (`StreamIsWhole`). Under fairness: a runtime that runs is reached and shown online, one that stopped is shown offline (`GatewayIsShown`); the devices shown agree with those at home (`CatalogShownAgrees`); the link to Home Assistant comes back (`HaLinkComesBack`); the page shows the run (`RunPageSettles`) | 899,421, 145 s |
| `Services` | `IdentityHolds`: token and identity go together but for a stop or a second code in between, and no token is lost but to a second claim of its code (`PairingHolds`); sessions have sites, sites have one owner, revoked tokens are refused (`AccessHolds`). `StudioHolds`: nothing drawn dangles and repairing keeps what compiles (`DrawingHolds`); who drops an edit was told of it, revisions are fresh, conflicts have a cause (`EditingHolds`); answered tests are known, rows are current (`SessionsHold`). `HouseHolds`: what is due today or was learnt is started (`DueIsStarted`); what is shown as ready has a session the runtime has not closed (`ReadyIsOpen`); a dialog and its flow agree (`IntegrationHolds`). `TestsHold`: a test keeps time, never idles and loses no node. `NodesHold`: what is remembered is the last readings, a mean is of them, a join finds its inputs | 2,799,676, 125 s |

The bounds. Two triggers of one flow give a run and a queued row, which is all
that the lease and the queue tell apart; the third trigger fills the queue and
repeats a key. Two nodes give each run a call or a timer followed by another
node, so that an answer readies work. One crash suffices for the order of two
transactions, and recovery is entered from every state the crash can leave;
the state it starts from is the store, so a second crash adds only what recovery
itself stored. (Two crashes without commands were checked too, while the
model was written, with the same result.) Four nodes are the least that hold a branch,
its join and a node behind the join, or two failures that meet; ties need five
(see below). Three requests are a deployment, one that overtakes it, and a
deactivation or deletion between them; two runs are one that stores its state
before a redeployment and one after. Three sockets let a message of the first be
handled after one of the third, and leave a last socket on which nothing is lost;
two transitions leave a gap in the numbers when the first row is lost.

In `Links`: three sockets with two faults are a lost socket, one that is dead
unnoticed and the one that follows; two devices, one of Home Assistant and one
of the runtime alone, and two requests with one loss let a reply be late and a
snapshot come between a reply and its second write; two connectors and three
sockets are the replaced one, its successor and a reconnection; two reads of a
stream overtake each other, and three summaries leave one between two. In
`Services`: two codes and two claims, each claim of either code and for either of two
sites, are two claims of one code, two for one site, and a token that is taken while
another waits for its identity; two
people with three callbacks are a first login in two windows and another
person's; two pages and three clicks are a save between another's save and
deployment; two days and a half with a restart and a deployment let the sun's
next time change under a trigger that is remembered, and the schedule is due in the
last unit of a day with a grace of two, which crosses midnight, into days on which it is
on and off; three reloads of two
connections overlap pairwise and leave one more; three starts with one key are
two at once and a retry; two orders and a cut fall between any two messages of a
test; four nodes with five edits hold a branch with its join, and remove a node
whose number is given again; two dialogs and three requests meet
in one flow of two forms; three counted readings are one more than the window.

Fairness. `Handle`: the event loop runs the inbox dry. `Answer`: every adapter call
has a timeout (`ha/client.ts:84`, `:235`, `:258`, `mcp/adapter.ts:69-78`).
`TimerFires`: `setTimeout`. `RecoverSome`: the container has `restart:
unless-stopped` (`infra/pi4/compose.yaml:7`, `:19`). `Die`: Node ends after an
unhandled rejection. Nothing is assumed of users, triggers, expiry or crashes. In
`Kernel`, `Step`: a driver steps until nothing is ready; `Settle`: the host brings
answers. Liveness properties except for what a user does name their exceptions:
a paused run, a manual run, and an effect whose result is unknown wait for a
person. In `SyncJournal`, `AfterCommit`: a call that committed goes
on to its end or dies; `Connect`: the client opens a socket one second after
the last one closed (`gateway/client.ts:96`); `Handle` of each socket: the promise
chain of `ws.ts:74` goes on whether a message was handled or failed. Nothing is
assumed of commits, lost sockets, the hub's notice of a close, or policies.
`Deployment` has no liveness property: what is lost is not sent again.

In `Gateway`, `Connect` and `Opens` as above; `Tick`: the client beats every 15
seconds, and what was sent 15 seconds ago has been handled (`Prompt`); `Expires`:
the sweep of silent runtimes is an interval; `SeesClose`, `GivesUp`,
`HearsClose`: a close arrives, or the transport of the client gives up, but the
cloud need not hear of a dead socket; the model's last socket (`Exhausted`) is
excepted. In `DeviceCatalog`, the promise chain, the report every five seconds,
the reconnection, calls with a timeout, and the timers of requests. In `HaLink`,
Home Assistant answers what arrives, messages are taken, the connector opens
another socket after two seconds, and the status is reported every five;
`LinkComesBack` excepts a token or a request for the states that Home Assistant
refuses. In `RunPage`, the page asks every second whether it has a stream or
not, queries return, and the runtime sends again what was not stored. Nothing
is assumed of users, lost sockets, restarts, or changes at home.

### Where the documents and the code differ

Each of these runs finds a violation of what the repository says of itself; the
quotation is in `PROJECT.json`.

| Run | What happens |
| --- | --- |
| `CoordinatorRepeat` | The commit of a new run and the mark on its trigger are two transactions. After a crash between them the trigger is still queued, and it is started again when the run ends: its calls are made a second time. |
| `SyncOff` | A policy that turned capture off while the runtime was offline is sent after the hello has been handled; what waits was sent right behind the hello. |

The following properties are stated in the modules as well. They are in no
configuration; TLC refutes each one when it is named in a configuration of its
module, or of `MCLinks` and `MCServices`, with their bounds but for `AttemptsFinish`
(`MaxAttempts` 2), `NoLostUpdate` (`MaxJobs` 4), `RollbackGoesBack` (`MaxDeploys` 3),
`AddingKeepsEntry` (`MaxEdits` 6), `DoneNamesItsOwn` (`MaxAsks` 4) and `TestIsHarmless`
(`NotBefore` 0 for all). Some of them are what a document says, others what one
may take for granted:

| Property | What happens |
| --- | --- |
| `Coordinator!TriggersServed`, with a crash | Recovery does not look at queued triggers. If the run that held the flow ended right before the crash, the trigger waits until another run of the flow ends, and its expiry is not noted. |
| `Coordinator!AnswersApplied`, with fixtures | A fixture settles an effect whose call is awaited; the answer is rejected, and the handler throws before it deletes the saved row. Each boot replays the row and is ended by it. |
| `Coordinator!FlowsIndependent` | A cancel is handled before a step that the host has enqueued for the same run. The step is rejected, its promise is discarded, and the process dies with another flow's run open. |
| `Kernel!AnyFires` | An ANY with one failed and one taken input fails: `shouldFailUpstream` is asked before `canSchedule`. |
| `Kernel!TiesFollowEdges` | Two nodes fail in one cascade and both take an error route into an ANY. If the ANY stands between them in the definition it is looked at between them, and the first edge taken wins, whatever the order of the edges. |
| `Kernel!ReferencesResolve` | A node that fails because of a failure before it takes its error route without publishing an error, and the compiler counts the output of the failed node before it as available on that route. |
| `Deployment!ResetStartsEmpty` | A flow that is not active shows no deployment to `resolveEpoch`, so epochs are numbered from one again after a deactivation, and a deployment with a reset finds what the revision stored before. |
| `Deployment!DeletedIsOff` | `deleteFlow` turns a flow off only if its latest deployment is shown as active (`delete.ts:24`). After a redeployment that failed, the flow still runs at home, and it is deleted without being turned off. |
| `Deployment!QueueKeepsEpoch` | A queued trigger loads the state of the epoch current when it is started, not of the one it was accepted in (`docs/product/06-dry-run.md:71`). |
| `SyncJournal!SummariesRecover` | A transition is committed and `afterCommit` fails or is cut off before the row is appended. No row waits, the next socket has nothing to send, and the summary of a run that is over stays as it was. `plan/product-plan.md:1008` says that summaries are made up for after a reconnect without gaps. |
| `SyncJournal!ProjectionRecovers` | A query that fails between a row and its projection leaves the row stored and the summary old; sent again, the row is skipped as a duplicate. |
| `SyncJournal!PolicyArrives` | A push reads the policy and then awaits the observations; a push with a newer policy may be sent in between, and the older one arrives last. |
| `SyncJournal!NotRetroactive` | After capture was turned on in the middle of a run, the raw rows of its next commit cover its earlier events too. |
| `Pairing!AlwaysAgree` | The runtime writes the token to its file, acknowledges it, and then stores the identity. If it stops in between it starts with the new token and the old identity, and the cloud closes each of its sockets. (Two codes whose tokens are taken before either identity is stored come to the same: the file may keep the token of one and the table the identity of the other.) |
| `Pairing!CodeIsUsedOnce` | Two claims both read a code as pending before either writes it, and both are carried out. The runtime gets the token of the one that issued last; if both are for one site, the site knows the token of the one that registered last, which may be the other; if not, the other's site waits for a runtime that never comes. `plan/product-plan.md:336` says that a code serves once. |
| `Access!OneSiteEach` | A person who logs in for the first time in two windows is looked up by both callbacks before either has made a site, and is given two. |
| `HaLink!ReadyIsSubscribed` | Any answer to the subscription is taken for one: a connector whose subscription was refused is shown as ready and hears nothing. |
| `HaLink!RecoveryStartsNothing` | A change between the states and the subscription is not heard of. If it was to `unavailable`, the value that follows is compared with the one before and starts a run (`plan/product-plan.md:512` says it does not). |
| `HaLink!AttributesApart` | An event carries no former value of an attribute, so a trigger on an attribute starts a run when only the state has changed. |
| `Schedule!GraceCoversRestart` | A runtime that is started after midnight looks for the time of today and later ones. Yesterday's, shortly before midnight, is in its grace and is not started. The comment at `triggers/due.ts:17` says that the grace makes up for restarts. |
| `Schedule!OncePerDue` | The key of a due time names the artifact: a flow that is redeployed within the grace of a due time is started again for it. |
| `Schedule!RestartMakesUp` | Home Assistant names the next rise or set of the sun only. A runtime that restarts after it, but before an offset trigger is due, does not learn of it. |
| `McpLink!ReadyAnswers` | The process of a server exits. Nothing listens for it: its session stays in the map and its row ready, and a deployment that needs it is accepted. |
| `McpLink!NoneIsLeft` | Reloads overlap: the one that empties the map last forgets sessions which another has opened since, and they stay open. |
| `McpLink!LatestIsUsed` | The configurations are read when the map is emptied; a reload that read an older one may open its session last. |
| `McpLink!CallsAreReached` | Saving one connection closes the sessions of all: the call of another server's tool has an unknown result. |
| `McpLink!AttemptsFinish` | The exchange of an earlier authorisation clears the one that is pending now. |
| `Editing!NoLostUpdate` | A page that reads the flow after its chain takes the draft's new version but keeps its own text; its next save drops what another page has saved, without the conflict of `plan/product-plan.md:975`. |
| `Editing!DeploysItsOwn` | `createRevision` reads the draft again: a click deploys what another page has saved since. |
| `Editing!RenamingIsHarmless` | After a renaming the page takes back what it held when it was clicked, an older version; its next save is refused, although `store.ts:78` says that renaming disturbs no open editor. |
| `Editing!SavesRecover` | A chain that is cut off after the draft was saved leaves the page with the version before: it is refused until it is loaded again. |
| `Editing!RollbackGoesBack` | The button deploys the newest revision but the one deployed (`toolbar.tsx:118`), which after a rollback is the one that was rolled back. |
| `Editing!LastIsShown` | Of two deployments that are waited for, the one that is decided last is shown, be it the earlier one. |
| `TestSessions!SameKeySameAnswer` | The key is remembered after the run was sent: two requests made at once both run, and each is answered with its own run (`plan/product-plan.md:388`). |
| `TestSessions!AcceptedRuns` | `run.start` was sent over a socket that was dead: the test is answered, and never runs. |
| `TestSessions!ShownCanReplay` | A request that is cut off after it was sent leaves a run that is reported and shown but has no session to be replayed from. |
| `TestSessions!LiveRunsAreActive` | A live run is sent after the flow was deactivated in between. |
| `RunPage!ShownGoesForward` | A read of the row that was overtaken brings back what was shown before. |
| `RunPage!StreamSaysAll` | A summary that is stored out of turn is behind the cursor of the stream and is not told; a stream that retention has passed by says nothing any more. |
| `DryRun!TestIsHarmless` | Each look at the run sends the clock to the next due time while the messages of an earlier look still wait. An earlier time is handled after a later one, is rejected, nobody takes the rejection, and the process ends. |
| `DryRun!ReadyFirst` | The driver's messages are enqueued before the next step: the clock moves while nodes are ready. |
| `DryRun!SessionIsKept` | The run is committed before its fixtures; after a cut between the two it is recovered without them. |
| `Drawing!AddingConnects` | A node that is pressed after others is connected with the last one (`flow-canvas.tsx:153`), but not a second input, not a join with fewer nodes before it than names, and a condition behind another branch's mean does not compile. |
| `Drawing!AddingKeepsEntry` | `addNode` sets the entry to the first node, also when it was another one. |
| `Drawing!ValidationFindsMissing` | A condition whose mean was removed has nothing to compare, and validation (`toolbar.tsx:49`) passes it. |
| `Integration!ValuesAlwaysFit` | After an answer that came too late the dialog shows the form before, and sends its values to the next one. |
| `Integration!DoneNamesItsOwn` | The devices a dialog is told of are those whose rows are new: one that was heard of earlier is not named, and one of another flow is. |

Others were seen in traces and are stated by no property: a trigger that arrives
during an adapter call may overtake a queued one, because the wake-up of the
queue is appended behind it (`follow-up.ts:52`); and the refusal of a trigger
over the queue limit is itself a discarded rejection (`handle-start.ts:47`), the
same end as for `FlowsIndependent`. Read in the source: a row that is sent again
and is stored already is not acknowledged again unless a later row arrives
(`streams.ts`); a deployment that was not decided is not taken up again after a
reconnect (`plan/product-plan.md:454` says it is); and `retainLocal` empties raw
rows that wait every minute even while capture is on (`retain.ts:52`).

## 4. What is proved

Every theorem holds for any sets and bounds that fit the named assumptions on the
constants, and of `Spec` without its fairness. The assumptions:

* `NodesAssumption`, `CoordinatorAssumption`, `NoRunAssumption` (of `Coordinator` and of
  `Deployment`): runs and nodes are finite sets, limits are naturals, the marker of an
  absent row is not a row.
* `KernelAssumption`, `DefinitionsAssumption`: the entry of a flow is no call and no
  branch, and a definition lists all its nodes and has edges between them. What
  the compiler rejects is not assumed away: `Plans` are what it accepts.
* `DeploymentAssumption`, `SyncAssumption`, `PairingAssumption`, `AccessAssumption`,
  `McpAssumption`, `StartsAssumption`, `EditingAssumption`, `GatewayAssumption`,
  `CatalogAssumption`, `HaAssumption`, `RunPageAssumption`: there is a revision, a run, a
  site, a token, a server, a key, a device, a connector and its socket, a summary; bounds
  are naturals.
* `DrawingAssumption`, `IntegrationAssumption`: a drawing has room for a node, a flow
  that connects a device has a first form; bounds are naturals.
* `LibraryAssumption`: a window has room for a reading, and a default that is a
  number is one.
* `DryAssumption`: the nodes of a test are numbered along its edges, which the
  compiler's acyclic graphs can be; due times are naturals.
* `ScheduleAssumption`: an offset and the grace together are less than a day.
  The grace is five minutes (`triggers/time.ts`), an offset at most 720.

| Theorem | What it says |
| --- | --- |
| `Coordinator_proofs!CommandsAllowed` | each snapshot a command may lead to is well formed, keeps a run that is over over, and moves effects forward only |
| `Coordinator_proofs!TypeCorrect` | `Spec => []TypeOK` |
| `Coordinator_proofs!OneRunPerFlow` | `Spec => []HoldingUnique` |
| `Coordinator_proofs!OneCallPerEffect` | `Spec => []AtMostOneCall` |
| `Coordinator_proofs!OutboxFollowsRun` | `Spec => []OutboxAgrees` |
| `Coordinator_proofs!EffectsForward` | `Spec => EffectsMoveForward` |
| `Coordinator_proofs!CancelIsFinal` | `Spec => CancelFreezes` |
| `Coordinator_proofs!PauseIsKept` | `Spec => PauseHolds` |
| `Coordinator_proofs!QueueSound` | `Spec /\ [](proc # "down") => []QueueIsSound`: as in the run that checks it, the process does not die |
| `Coordinator_proofs!TakenUpAgain` | `Spec => []NothingIsLost`, with crashes |
| `Coordinator_proofs!DeliveryRefined` | `Spec => DeliversOnce`: the host implements `EffectDelivery` |
| `Coordinator_proofs!LeaseRefined` | `Spec => LeaseKept`: the host implements `FlowLease` |
| `Kernel_proofs!TypeCorrect` | `Spec => []TypeOK` |
| `Kernel_proofs!PathsHold` | `Spec => []PathsAreKept` |
| `Kernel_proofs!PastStays` | `Spec => PastIsFinal` |
| `Kernel_proofs!ReferencesAreThere` | `Spec => []ReferencesHold` |
| `Kernel_proofs!ContractKept` | `Spec => KeepsContract`: the kernel implements `RunSpec` |
| `Deployment_proofs!TypeCorrect` | `Spec => []TypeOK` |
| `Deployment_proofs!HomeKept` | `Spec => []HomeIsRight`, from `NewestDeploymentWins` and `StateIsWhole` |
| `Deployment_proofs!ShownRight` | `Spec => []CloudIsRight` |
| `Deployment_proofs!FlowRefined` | `Spec => ActsAsDeployed`: the runtime implements `DeployedFlow` |
| `SyncJournal_proofs!TypeCorrect` | `Spec => []TypeOK` |
| `SyncJournal_proofs!NothingMissed` | `Spec => []NothingIsMissed`, with `AckIsHonest` |
| `SyncJournal_proofs!RawIsDiscarded` | `Spec => []OffDiscards` |
| `SyncJournal_proofs!DeliveryRefined` | `Spec => DeliversRows`: the journal implements `RowDelivery` |
| `Links_proofs!LinksType` | `Spec => []LinksTypeOK` |
| `Links_proofs!PicturesKept` | `Spec => []PicturesAreTrue` |
| `Services_proofs!IdentityIsKept` | `Spec => []IdentityHolds`, however many codes are polled and claims made at a time |
| `Services_proofs!HouseIsKept` | `Spec => []HouseHolds` |
| `Services_proofs!TestsGoOn` | `Spec => []TestsHold` |
| `Services_proofs!ReadingsAreCounted` | `Spec => []NodesHold` |
| `Services_proofs!StudioIsKept` | `Spec => []StudioHolds`: drawing, editing and tests |
| `Services_proofs!SessionsAreKept`, `Services_proofs!EditsAreKept` | the parts of it about tests and about editing |
| `Services_proofs!ServicesType` | `Spec => []ServicesTypeOK` |

Together the host and the kernel give one statement: what is proved of the host
holds of every flow the compiler accepts, since the host is proved against
`RunContract` and the kernel is proved to keep it.

### The host

`TypeOK` alone is not inductive: a handler reads the run a message names, so the
messages in the inbox and in `pending_inbox` must name runs that exist, and stored
snapshots must be well formed (`TypeInv`).

`HoldingUnique` is not inductive, since between the check of `holdingRun` and the
commit of the new run there is a step. `LeaseInv` adds that a handler which is about
to commit a run finds its flow free; it holds because every other step lets runs
only advance (`Advances`: a stored run stays, keeps its flow, moves as the kernel
lets it, and what is over stays over), and because the inbox is serial
(`BeginsOnce`). That a step lets a lease pass and never return is `LeaseRefined`.

`AtMostOneCall` needs to know why a call is the first. `CallsInv` says that the
outbox agrees with the snapshot, that an effect which is not yet dispatched has
no calls, and that the effect a handler is about to call has been marked and not
been called. `EffectsForward` and `CancelIsFinal` follow from what one command may do,
`CommandsAllowed`, and, for the calls of a cancelled run, from `CallsInv`; `PauseIsKept`
adds that an adapter is called for a run only by the handler of a dispatch, which
looks at the pause first. `DeliveryRefined` reads the state of an effect from the
outbox, the calls and the saved answers, and shows for each step of the host the
one of `EffectDelivery` it is, most of them none.

`QueueInv` says what serves a queued trigger: the run that holds its flow, or the
message in the inbox or in hand which looks at the queue. It fails when that
message is lost with the process, which is why the theorem is about behaviours in
which the process lives; with a crash TLC refutes it (see `TriggersServed` above).
`WakeInv` says of each thing the host owes to a run that goes on (a request to send,
a step to take) that the message is in the inbox or in hand which will do it,
while the process lives; recovery makes those messages anew from the store.
`AppliedInv` says that a command which was applied is recorded, and so is refused
when its id is used again. `SentInv`, for the refinement, says that an unknown
result is only ever heard of an effect that was dispatched.

### The kernel

The invariant `IInv` says of each node how its edges stand by what the node is
(`EdgesFollow`), what its edges were when it started, was skipped or failed
(`PathsFollow`), what it published (`Published`) and awaits (`EffectsFollow`), and that
no idle node is left that propagation would still move (`Fixed`). A pass over the
nodes keeps all but the last; `Fixed` is reached because a pass that changes
anything takes a node out of idle, so that as many passes as there are nodes
are enough: the proof counts the idle nodes. That a run does not stall takes the
least idle node in the order of an acyclic graph, and `ReferencesAreThere` an
induction along it: what the compiler counts as available behind a node was
published on each way to it. Induction over an operator is out of the
provers' reach, so both are by the least counterexample (`Least`).

### Deployments and the journal

`NewestWins` of the deployments holds only if the runtime has a row to store a
generation in: a deactivation of a flow without a row is answered and forgotten,
and an older deployment would then be activated after it. `KnownInv` says why that
does not happen: a deactivation is sent for a flow that is shown as active, a row
is shown as active after the runtime said so, and the runtime never drops its
row; the four conjuncts follow that knowledge through rows, results, requests and
messages. `Numbered` adds that generations start with one, and `NewestInv` that the
pointer is the greatest of what was carried out. `StateInv` is why state is whole:
the open run, which alone holds its flow, has loaded exactly what its revision
and epoch remember, and nobody else stores until it has. `OnceInv`, for `CloudIsRight`:
a generation that was given is owned by one request, and is in the message down, in
the result on its way up, or told in its row, unless a connection was lost.

`AckInv` follows a number from the table to the mark it ends in: the cursor, what
a handler read of it and is about to write, the acknowledgements on their way down,
and the rows at home, each of them a number up to which the cloud has every row
(`RowsInv`, `CursorInv`, `HandlerInv`, `DownInv`). The cursor may go back, when the
handler of a lost socket writes the number it read before; that is sound because
rows stay stored. Acknowledged rows are also the first rows of a stream, which
makes the `CHOOSE` in `Unacked` well defined. `ArriveInv` says of a row the cloud does
not have where it is: before the cursor of the socket that is open, in a message
on its way, or with the handler, unless a handler of that socket failed. Of a run whose last transition is neither being
published nor lapsed it says that its newest row is of that transition (`LastRow`).

Two refinements put the same in terms of what a user sees. `DeployedFlow` has one
instant for a deployment and one for what a run adds to the analysis state;
`Deployment` has a run that reads when it begins and writes later, and messages that
overtake each other. `FlowRefined` needs of a deployment that is carried out that it
is newer than all before (`Ahead`, from `OnceInv` and `KnownInv`), and of a run that
stores that what it read is what is remembered still (`StateInv`); an epoch goes on
only for the revision that is active. `RowDelivery` has no sockets and no cursor: a row
is delivered once, and settled no further than everything was delivered.
`DeliveryRefined` follows from `AckInv`, and from `ArriveInv` that nothing is stored
that was not recorded.

### The links

* *Gateway* (`GatewayInv`): a socket whose token is looked up still has its hello to
  take, unless it is closed (`HelloWaits`); so whoever is known and has nothing left
  to take has entered the hub.
* *Devices* (`CatalogInv`): a request is on its way, called at home or carried out, and
  never two of these (`OnceEach`); what waits to be answered with success was
  carried out (`RepliesAreTrue`). A second write is of a reply, not of the request.
* *Home Assistant* (`HaInv`): a socket over which something may still be taken is the
  one its connector has (`OneSock`), and what is on its way over it comes in turn
  (`Sessions`): the authentication, alone; the states, before which nothing
  else arrives; then events, each newer than those before it and than what is known. Events
  that were sent before the states came are on their way behind them, which is
  why a connector that is ready never takes an event older than its states.
* *The page of a run* (`RunPageInv`): summaries arrive in turn, and each read that is
  under way joins on to what was written before it (`ReadsJoin`), so that reads may
  be written in any order.

### The services

Each service has an invariant of its own that the others' steps do not touch.

* *Pairing* (`PairingInv`): while nothing was cut off, one token at most waits for its
  identity, and it is the one in the file (`PollInv`); a code that is acknowledged
  holds a token that was stored, or one of several claims that were let in on it (`CodeInv`), so
  that what is overwritten or forgotten was stored or shared its code (`DoneInv`); and
  what a site knows is never older than a claim that met no other for it (`SiteInv`).
* *Access* (`AccessInv`): whoever is past a query finds what the query was to make sure
  of; the owner of a site that a callback made is that callback's person.
* *Nodes* (`LibraryInv`): one live run is under way at most, so what it loaded is what
  is remembered when it counts; which way it went can be read from its edges.
* *MCP* (`McpInv`): a row says ready only while the session it was written for is in the
  map and the runtime has not closed it, or while some reload has still to open the connection, or all of them.
* *Times* (`ScheduleInv`): a schedule that is remembered is the first of its times from today
  on that is not over, or was one (`PlanInv`); what a tick has learnt was started,
  is over, is what waits, or, of the sun, is of the day after (`LearntInv`); one day's rise is never due before the
  last one's grace ends, which is where the assumption comes in.
* *Starts* (`StartsInv`): of two tests of one key that were both sent, the later request
  came while the first was under way.
* *Drawing* (`DrawingInv`): there is one node for an id; edges lead from nodes that are
  there to nodes that are, one comes in at a place, at a port that its target has;
  and bindings are to nodes that are there, but for the first input and the first
  mean, which may be bound before they are added. Every edit keeps that. So a
  repair finds no edge to drop, and what it makes of such a binding it would make
  again. What a node reaches, and what is available at a node, are computed step by
  step; the proofs count nodes to say that what is reached is the least set no
  edge leads out of. A map after the last node follows what the edge to it leaves, and
  nothing follows the map, so all other nodes have available what they had: that
  is `ChainsCompile`.
* *Editing* (`EditingInv`): a page that is alone knows the versions of the server but
  while its one chain has yet to read them.
* *Test runs* (`DryInv`): what the driver asks for was not applied yet, and while a test
  has something to do by itself, a message for it is in the inbox: the least node
  that is not resolved is the one something is pending for.
* *Connecting* (`IntegrationInv`): a token is one dialog's, which waits for one request
  at a time; while nothing else drives its flow and no request of it was given up,
  that request alone moves it, so what is on its way, kept or shown is the form
  the flow is at. A flow that was begun has no token until its first form is kept.
  For the types there is `IntegrationBounds`: each flow, token and request that is
  named is one of those that were made, and no more are made than the bounds allow.

### What is only checked

Every invariant and every action property of a passing run is proved; what stays
with TLC is liveness: `NothingStands` and `TriggersServed` of the host, `RunEnds` of the
kernel, `StoredAtLast` of the journal, and `GatewayIsShown`, `CatalogShownAgrees`,
`HaLinkComesBack` and `RunPageSettles` of the links. The prover handles neither `ENABLED`
nor fairness. Of what a recursion computes, only what a counting argument or the least
counterexample reaches is proved; induction over data is out of its reach.

One form is avoided in the modules because the parser of the proof system reads
it otherwise than TLC does: `UNION S \cup T` is written with parentheses.

## 5. What is not modelled

* A SQLite failure in the middle of a commit (`halted` in `coordinator/commit.ts`);
  transactions are atomic and durable. Migrations run before anything else.
* Dry runs in `Coordinator`: they are driven by fixtures, share the inbox only, and
  have a module of their own.
* The wall clock of live runs. The kernel rejects a logical time that goes
  backwards; with the clock set back, the clock command of a timer may be
  rejected. Changes between summer and winter time in `Schedule`.
* What nodes other than the mean and the condition compute, templates, schemas,
  wording of errors, the classification of Home Assistant's entities.
* Retention: what the runtime purges after its period, and the cloud after its
  own, but for the summaries that `RunPage` loses to it.
* The correlation of requests of the Home Assistant client, one map of pending
  promises by number; framing and catalogs of MCP.
* The tools of the cloud's own MCP server: they call the functions that the HTTP
  routes call. Lists, charts and analytics, which are queries. Pages without
  state of their own, secrets, contracts, infrastructure, and test code.

## 6. Plan

Done: `RunContract`, `Coordinator` with its abstract specifications and the proofs of
its safety; `Kernel`; `Deployment` and `SyncJournal` with the proofs of their central
invariants; then the links (`Gateway`, `DeviceCatalog`, `HaLink`, `RunPage`) and the
services (`Pairing` to `NodeLibrary`).

Then the proofs of the host's queue, wake-ups, pauses and refinements, of `Kernel` with
its contract, of what is shown of deployments and what arrives, and of the services; then
of the links (`PicturesAreTrue`), of what is drawn, and of the types of all parts; and
the abstract specifications of `Deployment` and `SyncJournal` with their refinements.

Next:

* The composition of `Gateway` with `Deployment` and `SyncJournal`, which each have
  sockets of their own: one socket that is late in all of them.
* What a recursion computes beyond counting: that the values nodes compute are
  those of the order the compiler gives, for every graph.
