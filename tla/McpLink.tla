------------------------------ MODULE McpLink ------------------------------
(***************************************************************************)
(* The runtime's connections to MCP servers.  A connection has a           *)
(* configuration and a token in files, a row in the database, and, once it *)
(* has been opened, a session in the map the adapter looks into.  A reload *)
(* closes all sessions one after the other, forgets them, and opens those  *)
(* of all configurations again, one after the other.  Nothing keeps a      *)
(* reload from beginning while another one is under way: each saved        *)
(* configuration and each token from an authorisation begins one.          *)
(***************************************************************************)
EXTENDS Integers, FiniteSets

CONSTANTS
    Conns,           \* ids of connections
    McpCalls,        \* calls of tools by runs
    MaxReloads,      \* bound on reloads
    MaxSessions,     \* bound on sessions
    MaxSaved,        \* bound on configurations saved
    MaxAttempts,     \* bound on authorisations begun
    MaxFailed        \* bound on servers that refuse, sessions that end and restarts

VARIABLES
    phase,           \* of the boot
    config,          \* connection -> version of its configuration file, 0: none
    bearer,          \* connection -> authorisation its token file is of, 0: none
    connRow,         \* connection -> status and digest in connection_configs
    oauth,           \* connection -> authorisation that is pending, 0: none
    opened,          \* the map: connection -> session, 0: none
    client,          \* session -> its state
    reload,          \* reload -> how far it is
    exchange,        \* authorisations whose code is being exchanged
    mcpCall,         \* call -> how far it is
    attempts, slips \* so far

mcpVars == <<phase, config, bearer, connRow, oauth, opened, client, reload, exchange,
             mcpCall, attempts, slips>>

Sessions == 1..MaxSessions
Reloads  == 1..MaxReloads
Attempts == 1..MaxAttempts
AnyConn  == CHOOSE c \in Conns : TRUE
RowFor   == [status : {"none", "configured", "ready", "error"}, digest : 0..MaxSessions]
Row(status, digest) == [status |-> status, digest |-> digest]

ASSUME McpAssumption ==
    /\ Conns # {}
    /\ MaxReloads \in Nat /\ MaxSessions \in Nat /\ MaxSaved \in Nat
    /\ MaxAttempts \in Nat /\ MaxFailed \in Nat

McpTypeOK ==
    /\ phase \in {"recovering", "starting", "serving"}
    /\ config \in [Conns -> 0..MaxSaved]
    /\ bearer \in [Conns -> 0..MaxAttempts] /\ oauth \in [Conns -> 0..MaxAttempts]
    /\ connRow \in [Conns -> RowFor]
    /\ opened \in [Conns -> 0..MaxSessions]
    /\ client \in [Sessions ->
          [conn : Conns, version : 0..MaxSaved, bearer : 0..MaxAttempts,
           at : {"none", "opening", "open", "ended", "closed"}]]
    /\ reload \in [Reloads ->
          [at : {"none", "closing", "opening", "over"}, visited : SUBSET Conns,
           left : SUBSET (Conns \X (1..MaxSaved)), sess : 0..MaxSessions]]
    /\ exchange \subseteq Conns \X Attempts
    /\ mcpCall \in [McpCalls -> [at : {"new", "running", "succeeded", "unknown"}, sess : 0..MaxSessions]]
    /\ attempts \in 0..MaxAttempts /\ slips \in 0..MaxFailed

NoSession == [conn |-> AnyConn, version |-> 0, bearer |-> 0, at |-> "none"]
NoReload  == [at |-> "none", visited |-> {}, left |-> {}, sess |-> 0]

McpInit ==
    /\ phase = "recovering"
    /\ config = [c \in Conns |-> 0] /\ bearer = [c \in Conns |-> 0]
    /\ connRow = [c \in Conns |-> Row("none", 0)]
    /\ oauth = [c \in Conns |-> 0]
    /\ opened = [c \in Conns |-> 0]
    /\ client = [s \in Sessions |-> NoSession]
    /\ reload = [r \in Reloads |-> NoReload]
    /\ exchange = {}
    /\ mcpCall = [k \in McpCalls |-> [at |-> "new", sess |-> 0]]
    /\ attempts = 0 /\ slips = 0

-----------------------------------------------------------------------------
(* A reload. *)

FreeReloads  == {r \in Reloads : reload[r].at = "none"}
FreeSessions == {s \in Sessions : client[s].at = "none"}
NextFree(S)  == CHOOSE x \in S : \A y \in S : x <= y

\* Whoever begins a reload.
Begins ==
    /\ FreeReloads # {}
    /\ reload' = [reload EXCEPT ![NextFree(FreeReloads)].at = "closing"]

\* closeAll: the next session in the map is closed.  A connection that has
\* been looked at is not looked at again, even if it has another session now.
ClosesNext(r, c) ==
    /\ reload[r].at = "closing"
    /\ opened[c] # 0 /\ c \notin reload[r].visited
    /\ client' = [client EXCEPT ![opened[c]].at = "closed"]
    /\ reload' = [reload EXCEPT ![r].visited = @ \cup {c}]
    /\ UNCHANGED <<phase, config, bearer, connRow, oauth, opened, exchange, mcpCall, attempts, slips>>

\* The map is emptied, and the configurations of all connections are read.
ClearsAll(r) ==
    /\ reload[r].at = "closing"
    /\ \A c \in Conns : opened[c] # 0 => c \in reload[r].visited
    /\ opened' = [c \in Conns |-> 0]
    /\ reload' = [q \in Reloads |->
          IF q = r THEN [reload[r] EXCEPT !.at = "opening", !.visited = {},
                            !.left = {<<c, config[c]>> : c \in {d \in Conns : config[d] # 0}}]
          ELSE [reload[q] EXCEPT !.visited = {}]]
    /\ UNCHANGED <<phase, config, bearer, connRow, oauth, client, exchange, mcpCall, attempts, slips>>

\* openMcpConnection, with the token as it is now.
OpensNext(r, c) ==
    /\ reload[r].at = "opening" /\ reload[r].sess = 0
    /\ FreeSessions # {}
    /\ \E x \in reload[r].left :
          /\ x[1] = c
          /\ LET s == NextFree(FreeSessions)
             IN  /\ client' = [client EXCEPT ![s] =
                        [conn |-> c, version |-> x[2], bearer |-> bearer[c], at |-> "opening"]]
                 /\ reload' = [reload EXCEPT ![r].sess = s, ![r].left = @ \ {x}]
    /\ UNCHANGED <<phase, config, bearer, connRow, oauth, opened, exchange, mcpCall, attempts, slips>>

\* It has listed its tools: map and row are written.
IsOpened(r) ==
    /\ reload[r].sess # 0
    /\ LET s == reload[r].sess
           c == client[s].conn
       IN  /\ client' = [client EXCEPT ![s].at = "open"]
           /\ opened' = [opened EXCEPT ![c] = s]
           /\ connRow' = [connRow EXCEPT ![c] = Row("ready", s)]
    /\ reload' = [reload EXCEPT ![r].sess = 0]
    /\ UNCHANGED <<phase, config, bearer, oauth, exchange, mcpCall, attempts, slips>>

\* Mutant: a connection that cannot be opened keeps its row.
IsRefusedSilently(r) ==
    /\ reload[r].sess # 0
    /\ slips < MaxFailed
    /\ slips' = slips + 1
    /\ client' = [client EXCEPT ![reload[r].sess].at = "closed"]
    /\ reload' = [reload EXCEPT ![r].sess = 0]
    /\ UNCHANGED <<phase, config, bearer, connRow, oauth, opened, exchange, mcpCall, attempts>>

\* It cannot be opened: its row says so, whatever the map holds.
IsRefused(r) ==
    /\ reload[r].sess # 0
    /\ slips < MaxFailed
    /\ slips' = slips + 1
    /\ client' = [client EXCEPT ![reload[r].sess].at = "closed"]
    /\ connRow' = [connRow EXCEPT ![client[reload[r].sess].conn] = Row("error", 0)]
    /\ reload' = [reload EXCEPT ![r].sess = 0]
    /\ UNCHANGED <<phase, config, bearer, oauth, opened, exchange, mcpCall, attempts>>

\* The one of the boot is waited for before the setup pages are served.
EndsReload(r) ==
    /\ reload[r].at = "opening" /\ reload[r].sess = 0 /\ reload[r].left = {}
    /\ reload' = [reload EXCEPT ![r].at = "over"]
    /\ phase' = IF phase = "starting" THEN "serving" ELSE phase
    /\ UNCHANGED <<config, bearer, connRow, oauth, opened, client, exchange, mcpCall, attempts, slips>>

-----------------------------------------------------------------------------
(* The boot, the setup pages and the authorisation. *)

\* host.recover and waitIdle are over.
BootReloads ==
    /\ phase = "recovering"
    /\ phase' = "starting"
    /\ Begins
    /\ UNCHANGED <<config, bearer, connRow, oauth, opened, client, exchange, mcpCall, attempts, slips>>

\* POST /v1/setup/mcp
SavesConfig(c) ==
    /\ phase = "serving"
    /\ \E v \in 1..MaxSaved :
          /\ \A d \in Conns : config[d] < v
          /\ \A w \in 1..(v - 1) : \E d \in Conns : config[d] >= w
          /\ config' = [config EXCEPT ![c] = v]
    /\ connRow' = [connRow EXCEPT ![c] = Row("configured", 0)]
    /\ Begins
    /\ UNCHANGED <<phase, bearer, oauth, opened, client, exchange, mcpCall, attempts, slips>>

\* POST .../oauth/start: what was pending is overwritten.
StartMcpOauth(c) ==
    /\ phase = "serving" /\ config[c] # 0
    /\ attempts < MaxAttempts
    /\ attempts' = attempts + 1
    /\ oauth' = [oauth EXCEPT ![c] = attempts + 1]
    /\ UNCHANGED <<phase, config, bearer, connRow, opened, client, reload, exchange, mcpCall, slips>>

\* The code arrives, from the page or from the cloud, and is exchanged.
FinishMcpOauth(c) ==
    /\ oauth[c] # 0
    /\ exchange' = exchange \cup {<<c, oauth[c]>>}
    /\ UNCHANGED <<phase, config, bearer, connRow, oauth, opened, client, reload, mcpCall, attempts, slips>>

\* The token is written, and what is pending now is cleared.
Exchanged(x) ==
    /\ x \in exchange
    /\ exchange' = exchange \ {x}
    /\ bearer' = [bearer EXCEPT ![x[1]] = x[2]]
    /\ oauth' = [oauth EXCEPT ![x[1]] = 0]
    /\ Begins
    /\ UNCHANGED <<phase, config, connRow, opened, client, mcpCall, attempts, slips>>

ExchangeFails(x) ==
    /\ x \in exchange
    /\ exchange' = exchange \ {x}
    /\ UNCHANGED <<phase, config, bearer, connRow, oauth, opened, client, reload, mcpCall, attempts, slips>>

\* The process ends: its sessions, its map and its reloads with it.
McpRestarts ==
    /\ slips < MaxFailed
    /\ slips' = slips + 1
    /\ phase' = "recovering"
    /\ opened' = [c \in Conns |-> 0]
    /\ client' = [s \in Sessions |->
          IF client[s].at \in {"opening", "open", "ended"} THEN [client[s] EXCEPT !.at = "closed"] ELSE client[s]]
    /\ reload' = [r \in Reloads |-> IF reload[r].at = "none" THEN NoReload ELSE [NoReload EXCEPT !.at = "over"]]
    /\ exchange' = {}
    /\ mcpCall' = [k \in McpCalls |->
          IF mcpCall[k].at = "running" THEN [mcpCall[k] EXCEPT !.at = "unknown"] ELSE mcpCall[k]]
    /\ UNCHANGED <<config, bearer, connRow, oauth, attempts>>

\* The process of a stdio server exits, or the server is gone.  Nobody listens to the
\* client for it: the map, the row and the snapshot stay as they are.
SessionEnds(s) ==
    /\ client[s].at = "open"
    /\ slips < MaxFailed
    /\ slips' = slips + 1
    /\ client' = [client EXCEPT ![s].at = "ended"]
    /\ UNCHANGED <<phase, config, bearer, connRow, oauth, opened, reload, exchange, mcpCall, attempts>>

-----------------------------------------------------------------------------
(* A call of a tool. *)

\* execute: without a session it is unknown whether the tool was called.
ExecutesTool(k, c) ==
    /\ mcpCall[k].at = "new" /\ connRow[c].status # "none"
    /\ mcpCall' = [mcpCall EXCEPT ![k] =
          [at |-> IF opened[c] = 0 THEN "unknown" ELSE "running", sess |-> opened[c]]]
    /\ UNCHANGED <<phase, config, bearer, connRow, oauth, opened, client, reload, exchange, attempts, slips>>

\* Over HTTP a closed session answers as well.
ToolAnswers(k) ==
    /\ mcpCall[k].at = "running" /\ client[mcpCall[k].sess].at \in {"open", "closed"}
    /\ mcpCall' = [mcpCall EXCEPT ![k].at = "succeeded"]
    /\ UNCHANGED <<phase, config, bearer, connRow, oauth, opened, client, reload, exchange, attempts, slips>>

\* The tool is not there or has changed, fails, or takes longer than 8 seconds;
\* or its session was closed or has ended.
ToolIsLost(k) ==
    /\ mcpCall[k].at = "running"
    /\ \/ client[mcpCall[k].sess].at \in {"closed", "ended"} /\ UNCHANGED slips
       \/ client[mcpCall[k].sess].at = "open" /\ slips < MaxFailed /\ slips' = slips + 1
    /\ mcpCall' = [mcpCall EXCEPT ![k].at = "unknown"]
    /\ UNCHANGED <<phase, config, bearer, connRow, oauth, opened, client, reload, exchange, attempts>>

McpNext ==
    \/ BootReloads \/ McpRestarts
    \/ \E r \in Reloads :
          \/ ClearsAll(r) \/ IsOpened(r) \/ IsRefused(r) \/ EndsReload(r)
          \/ \E c \in Conns : ClosesNext(r, c) \/ OpensNext(r, c)
    \/ \E s \in Sessions : SessionEnds(s)
    \/ \E c \in Conns : SavesConfig(c) \/ StartMcpOauth(c) \/ FinishMcpOauth(c)
    \/ \E x \in exchange : Exchanged(x) \/ ExchangeFails(x)
    \/ \E k \in McpCalls : ToolAnswers(k) \/ ToolIsLost(k) \/ \E c \in Conns : ExecutesTool(k, c)

McpSpec == McpInit /\ [][McpNext]_mcpVars

-----------------------------------------------------------------------------
\* snapshotOf, for the cloud; assertMcpReady, for a deployment.
SnapshotOf(c) ==
    IF opened[c] # 0 THEN "ready"
    ELSE IF connRow[c].status = "error" THEN "error" ELSE "configured"
AssertMcpReady(c) == connRow[c].status = "ready"

AtRest == phase = "serving" /\ \A r \in Reloads : reload[r].at \in {"none", "over"}

(***************************************************************************)
(* A deployment is accepted only for connections that are shown as ready   *)
(* and have a session the runtime has not closed, with the tools the row   *)
(* was written for: when all reloads are over, however they overlapped and *)
(* whichever of their servers refused.  Whether the server still answers   *)
(* is another matter.                                                      *)
(***************************************************************************)
ReadyIsOpen ==
    AtRest => \A c \in Conns : AssertMcpReady(c) =>
        /\ SnapshotOf(c) = "ready"
        /\ client[opened[c]].at \in {"open", "ended"}
        /\ connRow[c].digest = opened[c]

(***************************************************************************)
(* What the code does not keep, see README: what is ready can be called;   *)
(* sessions the map has lost are closed; the configuration saved last is   *)
(* the one in use; a call fails for a reason of its own server; an         *)
(* authorisation can be finished.                                          *)
(***************************************************************************)
ReadyAnswers ==
    AtRest => \A c \in Conns : AssertMcpReady(c) => client[opened[c]].at = "open"
NoneIsLeft ==
    AtRest => \A s \in Sessions : client[s].at = "open" => opened[client[s].conn] = s
LatestIsUsed ==
    AtRest => \A c \in Conns : opened[c] # 0 =>
        client[opened[c]].version = config[c] /\ client[opened[c]].bearer = bearer[c]
CallsAreReached ==
    slips = 0 => \A k \in McpCalls : mcpCall[k].at # "unknown"
AttemptsFinish ==
    [][\A c \in Conns : oauth[c] # 0 /\ oauth'[c] = 0 => bearer'[c] = oauth[c]]_mcpVars
=============================================================================
