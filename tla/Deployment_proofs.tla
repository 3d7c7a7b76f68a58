-------------------------- MODULE Deployment_proofs --------------------------
(***************************************************************************)
(* For any number of revisions, requests, generations and runs: the types, *)
(* that analysis state is neither lost nor mixed, that the newest          *)
(* deployment wins, and that what the cloud shows of one is true.          *)
(*                                                                         *)
(* A run that has not stored its state yet still holds exactly what its    *)
(* revision and epoch remember, because it alone holds the flow: that, and *)
(* that what is remembered is what was stored, is the invariant.  A        *)
(* deployment off is sent only for a flow that was active once, so that    *)
(* the runtime has a row to store its generation in (KnownInv).            *)
(* A generation is owned by one request and travels, is answered or is     *)
(* told in its row, unless a connection was lost (OnceInv).                *)
(* With them the runtime implements DeployedFlow.                          *)
(***************************************************************************)
EXTENDS Deployment, TLAPS

LEMMA HeadTail ==
    ASSUME NEW S, NEW q \in Seq(S), q # <<>>
    PROVE  Head(q) \in S /\ Tail(q) \in Seq(S)
OBVIOUS

LEMMA InitType == Init => TypeOK
<1> SUFFICES ASSUME Init PROVE TypeOK
    OBVIOUS
<1>1. SomeRevision \in Revisions
    BY DeploymentAssumption DEF SomeRevision
<1>2. request \in [Requests -> RequestRecords]
    BY <1>1 DEF Init, Blank, RequestRecords, Stages, Kinds
<1>3. rows = <<>> /\ DOMAIN rows = {}
    BY DEF Init
<1>4. rows \in [DOMAIN rows -> [revision : Revisions, status : Statuses]]
    BY <1>3
<1>5. pointer \in Pointers
    BY <1>1 DEF Init, Pointers, Epochs
<1> QED BY <1>2, <1>3, <1>4, <1>5, DeploymentAssumption DEF Init, TypeOK
-----------------------------------------------------------------------------
\* A request that has been given a generation was given one above zero.
Numbered == \A q \in Requests :
    request[q].stage \in {"numbered", "inserted", "withdraw"} => request[q].generation # 0

LEMMA InitNumbered == Init => Numbered
BY DEF Init, Blank, Numbered

LEMMA BlankType ==
    ASSUME NEW stage \in Stages
    PROVE  Blank(stage) \in RequestRecords
<1>1. SomeRevision \in Revisions
    BY DeploymentAssumption DEF SomeRevision
<1> QED BY <1>1 DEF Blank, RequestRecords, Kinds

\* One request changes; it is typed and numbered.
LEMMA RequestStep ==
    ASSUME TypeOK, Numbered, NEW q \in Requests, NEW new \in RequestRecords,
           request' = [request EXCEPT ![q] = new],
           new.stage \in {"numbered", "inserted", "withdraw"} => new.generation # 0
    PROVE  request' \in [Requests -> RequestRecords] /\ Numbered'
BY DEF TypeOK, Numbered

LEMMA MoveStep ==
    ASSUME TypeOK, Numbered, NEW q \in Requests, NEW stage \in Stages, Move(q, stage),
           stage \in {"numbered", "inserted", "withdraw"} => request[q].generation # 0
    PROVE  request' \in [Requests -> RequestRecords] /\ Numbered'
<1>1. CASE stage = "done"
    <2>1. Blank("done") \in RequestRecords /\ Blank("done").stage = "done"
        BY BlankType DEF Stages, Blank
    <2>2. request' = [request EXCEPT ![q] = Blank("done")]
        BY <1>1 DEF Move
    <2> QED BY <2>1, <2>2, RequestStep
<1>2. CASE stage # "done"
    <2> DEFINE new == [request[q] EXCEPT !.stage = stage]
    <2>1. request' = [request EXCEPT ![q] = new]
        BY <1>2 DEF Move
    <2>2. new \in RequestRecords /\ new.stage = stage /\ new.generation = request[q].generation
        BY DEF TypeOK, RequestRecords
    <2> HIDE DEF new
    <2> QED BY <2>1, <2>2, RequestStep
<1> QED BY <1>1, <1>2

LEMMA ReceiveType ==
    ASSUME TypeOK, NEW m, Receive(m)
    PROVE  m \in Deployments \cup Starts /\ down' \in Seq(Deployments \cup Starts)
BY HeadTail DEF TypeOK, Receive

LEMMA ReplyType ==
    ASSUME TypeOK, NEW m \in Deployments, NEW status \in {"active", "inactive", "failed", "ignored"},
           Reply(m, status)
    PROVE  results' \subseteq Results
BY DEF TypeOK, Reply, Deployments, Results

LEMMA EpochType ==
    ASSUME TypeOK
    PROVE  NextEpoch \in Epochs /\ CurrentEpoch \in Epochs
BY DEF TypeOK, Pointers, NextEpoch, CurrentEpoch, Epochs

LEMMA RememberedType ==
    ASSUME TypeOK, NEW r, NEW e
    PROVE  Remembered(r, e) \in SUBSET RunIds
BY DEF TypeOK, Remembered, RowsOf, StateRows

LEMMA BeginType ==
    ASSUME TypeOK, NEW r \in Revisions, Begin(r)
    PROVE  run' \in RunRecords /\ started' \in Nat
<1>1. started + 1 \in RunIds /\ started' = started + 1
    BY DEF TypeOK, RunIds, Begin
<1> QED BY <1>1, EpochType, RememberedType DEF TypeOK, Begin, RunRecords

LEMMA AcceptType ==
    ASSUME TypeOK, NEW r \in Revisions, Accept(r)
    PROVE  /\ run' \in RunRecords \cup {NoRun} /\ started' \in Nat
           /\ queue' \in Seq([revision : Revisions, epoch : Epochs])
           /\ UNCHANGED <<state, wrote>>
<1>1. CASE Begin(r) /\ UNCHANGED queue
    BY <1>1, BeginType DEF Accept, TypeOK
<1>2. CASE queue' = Append(queue, [revision |-> r, epoch |-> CurrentEpoch])
           /\ UNCHANGED <<run, started>>
    <2>1. [revision |-> r, epoch |-> CurrentEpoch] \in [revision : Revisions, epoch : Epochs]
        BY EpochType
    <2>2. queue' \in Seq([revision : Revisions, epoch : Epochs])
        BY <1>2, <2>1 DEF TypeOK
    <2> QED BY <1>2, <2>2 DEF Accept, TypeOK
<1> QED BY <1>1, <1>2 DEF Accept
-----------------------------------------------------------------------------
LEMMA TypeStep == TypeOK /\ Numbered /\ [Next]_vars => TypeOK' /\ Numbered'
<1> SUFFICES ASSUME TypeOK, Numbered, [Next]_vars PROVE TypeOK' /\ Numbered'
    OBVIOUS
<1>same. UNCHANGED request => Numbered'
    BY DEF Numbered
<1>1. ASSUME NEW q \in Requests, NEW r \in Revisions, NEW keep \in BOOLEAN, Deploy(q, r, keep)
      PROVE  TypeOK' /\ Numbered'
    <2> DEFINE new == [request[q] EXCEPT !.stage = "read", !.kind = "deploy",
                                         !.revision = r, !.keep = keep]
    <2>1. new \in RequestRecords /\ new.stage = "read" /\ request' = [request EXCEPT ![q] = new]
        BY <1>1 DEF Deploy, TypeOK, RequestRecords, Stages, Kinds
    <2> HIDE DEF new
    <2>2. request' \in [Requests -> RequestRecords] /\ Numbered'
        BY <2>1, RequestStep
    <2> QED BY <1>1, <2>2 DEF Deploy, TypeOK, link, runs, runtime
<1>2. ASSUME NEW q \in Requests, NEW r \in Revisions, Deactivate(q, r)
      PROVE  TypeOK' /\ Numbered'
    <2> DEFINE new == [request[q] EXCEPT !.stage = "read", !.kind = "deactivate", !.revision = r]
    <2>1. new \in RequestRecords /\ new.stage = "read" /\ request' = [request EXCEPT ![q] = new]
        BY <1>2 DEF Deactivate, TypeOK, RequestRecords, Stages, Kinds
    <2> HIDE DEF new
    <2>2. request' \in [Requests -> RequestRecords] /\ Numbered'
        BY <2>1, RequestStep
    <2> QED BY <1>2, <2>2 DEF Deactivate, TypeOK, link, runs, runtime
<1>3. ASSUME NEW q \in Requests, Delete(q)
      PROVE  TypeOK' /\ Numbered'
    <2>1. PICK new \in RequestRecords :
              new.stage \in {"read", "remove"} /\ request' = [request EXCEPT ![q] = new]
        <3>1. ASSUME NEW r \in Revisions
              PROVE  /\ [request[q] EXCEPT !.stage = "read", !.kind = "delete", !.revision = r]
                           \in RequestRecords
                     /\ [request[q] EXCEPT !.stage = "read", !.kind = "delete",
                                           !.revision = r].stage = "read"
            BY DEF TypeOK, RequestRecords, Stages, Kinds
        <3>2. /\ [request[q] EXCEPT !.stage = "remove", !.kind = "delete"] \in RequestRecords
              /\ [request[q] EXCEPT !.stage = "remove", !.kind = "delete"].stage = "remove"
            BY DEF TypeOK, RequestRecords, Stages, Kinds
        <3> QED BY <1>3, <3>1, <3>2 DEF Delete
    <2>2. request' \in [Requests -> RequestRecords] /\ Numbered'
        BY <2>1, RequestStep
    <2> QED BY <1>3, <2>2 DEF Delete, TypeOK, link, runs, runtime
<1>4. ASSUME NEW q \in Requests, ReadMax(q) PROVE TypeOK' /\ Numbered'
    <2>1. CASE exists
        <3>1. PICK last \in 0..(MaxGeneration - 1) :
                  request' = [request EXCEPT ![q].stage = "numbered", ![q].generation = last + 1]
            BY <1>4, <2>1 DEF ReadMax
        <3> DEFINE new == [request[q] EXCEPT !.stage = "numbered", !.generation = last + 1]
        <3>2. last + 1 \in Nat /\ last + 1 # 0
            BY DeploymentAssumption
        <3>3. new \in RequestRecords /\ new.generation # 0
            BY <3>2 DEF TypeOK, RequestRecords, Stages
        <3>4. request' = [request EXCEPT ![q] = new]
            BY <3>1 DEF TypeOK, RequestRecords
        <3> HIDE DEF new
        <3>5. request' \in [Requests -> RequestRecords] /\ Numbered'
            BY <3>3, <3>4, RequestStep
        <3> QED BY <1>4, <3>5 DEF ReadMax, TypeOK, link, runs, runtime
    <2>2. CASE ~exists
        <3>1. request' \in [Requests -> RequestRecords] /\ Numbered'
            BY <1>4, <2>2, MoveStep DEF ReadMax, Stages
        <3> QED BY <1>4, <3>1 DEF ReadMax, TypeOK, link, runs, runtime
    <2> QED BY <2>1, <2>2
<1>5. ASSUME NEW q \in Requests, InsertDeployment(q) PROVE TypeOK' /\ Numbered'
    <2>1. request[q].generation # 0 /\ request[q].generation \in Generations
        BY <1>5 DEF InsertDeployment, At, Numbered, TypeOK, RequestRecords, Generations
    <2>2. CASE exists /\ request[q].generation \notin DOMAIN rows
        <3>1. request' \in [Requests -> RequestRecords] /\ Numbered'
            BY <1>5, <2>1, <2>2, MoveStep DEF InsertDeployment, Stages
        <3>2. rows' = [h \in DOMAIN rows \cup {request[q].generation} |->
                         IF h = request[q].generation
                         THEN [revision |-> request[q].revision, status |-> "requested"]
                         ELSE rows[h]]
            BY <1>5, <2>2 DEF InsertDeployment
        <3>3. request[q].revision \in Revisions
            BY DEF TypeOK, RequestRecords
        <3>4. /\ DOMAIN rows' \subseteq Generations
              /\ rows' \in [DOMAIN rows' -> [revision : Revisions, status : Statuses]]
            BY <2>1, <3>2, <3>3 DEF TypeOK, Statuses
        <3> QED BY <1>5, <3>1, <3>4 DEF InsertDeployment, TypeOK, link, runs, runtime
    <2>3. CASE ~(exists /\ request[q].generation \notin DOMAIN rows)
        <3>1. Move(q, "done") /\ UNCHANGED rows
            BY <1>5, <2>3 DEF InsertDeployment
        <3>2. request' \in [Requests -> RequestRecords] /\ Numbered'
            BY <3>1, MoveStep DEF Stages
        <3> QED BY <1>5, <3>1, <3>2 DEF InsertDeployment, TypeOK, link, runs, runtime
    <2> QED BY <2>2, <2>3
<1>6. ASSUME NEW q \in Requests, SendDesired(q) PROVE TypeOK' /\ Numbered'
    <2>1. request[q].generation # 0 /\ request[q].generation \in Generations
        BY <1>6 DEF SendDesired, At, Numbered, TypeOK, RequestRecords, Generations
    <2>2. Desired(q) \in Deployments
        BY <2>1 DEF Desired, Deployments, TypeOK, RequestRecords
    <2>3. down' \in Seq(Deployments \cup Starts)
        <3>1. Append(down, Desired(q)) \in Seq(Deployments \cup Starts)
            BY <2>2 DEF TypeOK
        <3>2. down' \in {down, Append(down, Desired(q))}
            BY <1>6 DEF SendDesired
        <3> QED BY <3>1, <3>2 DEF TypeOK
    <2>4. PICK stage \in {"remove", "done", "withdraw"} : Move(q, stage)
        BY <1>6 DEF SendDesired
    <2>5. request' \in [Requests -> RequestRecords] /\ Numbered'
        BY <2>1, <2>4, MoveStep DEF Stages
    <2> QED BY <1>6, <2>3, <2>5 DEF SendDesired, TypeOK, runs, runtime
<1>7. ASSUME NEW q \in Requests, WithdrawRow(q) PROVE TypeOK' /\ Numbered'
    <2>1. request' \in [Requests -> RequestRecords] /\ Numbered'
        BY <1>7, MoveStep DEF WithdrawRow, Stages
    <2>2. rows' = [g \in DOMAIN rows \ {request[q].generation} |-> rows[g]]
        BY <1>7 DEF WithdrawRow
    <2>3. /\ DOMAIN rows' \subseteq Generations
          /\ rows' \in [DOMAIN rows' -> [revision : Revisions, status : Statuses]]
        BY <2>2 DEF TypeOK
    <2> QED BY <1>7, <2>1, <2>3 DEF WithdrawRow, TypeOK, link, runs, runtime
<1>8. ASSUME NEW q \in Requests, RemoveFlow(q) PROVE TypeOK' /\ Numbered'
    <2>1. request' \in [Requests -> RequestRecords] /\ Numbered'
        BY <1>8, MoveStep DEF RemoveFlow, Stages
    <2>2. rows' = <<>> /\ exists' = FALSE
        BY <1>8 DEF RemoveFlow
    <2>3. /\ DOMAIN rows' \subseteq Generations
          /\ rows' \in [DOMAIN rows' -> [revision : Revisions, status : Statuses]]
        BY <2>2
    <2> QED BY <1>8, <2>1, <2>2, <2>3 DEF RemoveFlow, TypeOK, link, runs, runtime
<1>9. ASSUME NEW m \in results, HandleResult(m) PROVE TypeOK' /\ Numbered'
    <2>1. UNCHANGED request /\ results' \subseteq Results
        BY <1>9 DEF HandleResult, TypeOK
    <2>2. ResultStatus(m.status) \in Statuses
        BY DEF ResultStatus, Statuses
    <2>3. /\ DOMAIN rows' \subseteq Generations
          /\ rows' \in [DOMAIN rows' -> [revision : Revisions, status : Statuses]]
        BY <1>9, <2>2 DEF HandleResult, TypeOK
    <2> QED BY <1>9, <1>same, <2>1, <2>3 DEF HandleResult, TypeOK, runs, runtime
<1>10. ASSUME NEW r \in Revisions, StartLiveRun(r) PROVE TypeOK' /\ Numbered'
    <2>1. [revision |-> r] \in Starts
        BY DEF Starts
    <2>2. down' \in Seq(Deployments \cup Starts)
        BY <1>10, <2>1 DEF StartLiveRun, TypeOK
    <2> QED BY <1>10, <1>same, <2>2 DEF StartLiveRun, TypeOK, cloud, runs, runtime
<1>11. ASSUME NEW m, IgnoreDeployment(m) PROVE TypeOK' /\ Numbered'
    <2>1. down' \in Seq(Deployments \cup Starts) /\ results' \subseteq Results
        BY <1>11, ReceiveType, ReplyType DEF IgnoreDeployment, IsDeployment
    <2> QED BY <1>11, <1>same, <2>1 DEF IgnoreDeployment, TypeOK, cloud, runs, runtime
<1>12. ASSUME NEW m, TurnOff(m) PROVE TypeOK' /\ Numbered'
    <2>1. down' \in Seq(Deployments \cup Starts) /\ results' \subseteq Results
        BY <1>12, ReceiveType, ReplyType DEF TurnOff, IsDeployment
    <2>2. m \in Deployments /\ m.generation \in Nat
        BY <1>12 DEF TurnOff, IsDeployment, Deployments, Generations
    <2>3. pointer' \in Pointers /\ accepted' \subseteq Deployments
        BY <1>12, <2>2 DEF TurnOff, Deactivated, TypeOK, Pointers
    <2> QED BY <1>12, <1>same, <2>1, <2>3 DEF TurnOff, TypeOK, cloud, runs
<1>13. ASSUME NEW m, Activate(m) PROVE TypeOK' /\ Numbered'
    <2>1. down' \in Seq(Deployments \cup Starts) /\ results' \subseteq Results
        BY <1>13, ReceiveType, ReplyType DEF Activate, IsDeployment
    <2>2. m \in Deployments /\ m.generation \in Nat /\ m.revision \in Revisions
        BY <1>13 DEF Activate, IsDeployment, Deployments, Generations
    <2>3. ResolveEpoch(m) \in Epochs
        BY EpochType DEF ResolveEpoch, TypeOK, Pointers
    <2>4. pointer' \in Pointers /\ accepted' \subseteq Deployments
        BY <1>13, <2>2, <2>3 DEF Activate, Activated, TypeOK, Pointers
    <2> QED BY <1>13, <1>same, <2>1, <2>4 DEF Activate, TypeOK, cloud, runs
<1>14. ASSUME NEW m, RefuseDeployment(m) PROVE TypeOK' /\ Numbered'
    <2>1. down' \in Seq(Deployments \cup Starts) /\ results' \subseteq Results
        BY <1>14, ReceiveType, ReplyType DEF RefuseDeployment, IsDeployment
    <2> QED BY <1>14, <1>same, <2>1 DEF RefuseDeployment, TypeOK, cloud, runs, runtime
<1>15. ASSUME NEW m, StartFromCloud(m) PROVE TypeOK' /\ Numbered'
    <2>1. m.revision \in Revisions /\ down' \in Seq(Deployments \cup Starts)
        BY <1>15, ReceiveType DEF StartFromCloud, Starts
    <2>2. /\ run' \in RunRecords \cup {NoRun} /\ started' \in Nat
          /\ queue' \in Seq([revision : Revisions, epoch : Epochs])
          /\ UNCHANGED <<state, wrote>>
        BY <1>15, <2>1, AcceptType DEF StartFromCloud
    <2> QED BY <1>15, <1>same, <2>1, <2>2 DEF StartFromCloud, TypeOK, cloud, runtime
<1>16. CASE FireTrigger
    <2>1. /\ run' \in RunRecords \cup {NoRun} /\ started' \in Nat
          /\ queue' \in Seq([revision : Revisions, epoch : Epochs])
          /\ UNCHANGED <<state, wrote>>
        BY <1>16, AcceptType DEF FireTrigger, TypeOK, Pointers
    <2> QED BY <1>16, <1>same, <2>1 DEF FireTrigger, TypeOK, cloud, link, runtime
<1>17. CASE UpdateState
    <2>1. run \in RunRecords
        BY <1>17 DEF UpdateState, TypeOK
    <2>2. [revision |-> run.revision, epoch |-> run.epoch, seen |-> run.read \cup {run.id}]
              \in StateRows
        BY <2>1 DEF RunRecords, StateRows
    <2>3. state' \subseteq StateRows
        BY <1>17, <2>2 DEF UpdateState, TypeOK
    <2>4. run' \in RunRecords
        BY <1>17, <2>1 DEF UpdateState, RunRecords
    <2>5. wrote' \subseteq Writes
        BY <1>17, <2>1 DEF UpdateState, TypeOK, RunRecords, Writes
    <2> QED BY <1>17, <1>same, <2>3, <2>4, <2>5 DEF UpdateState, TypeOK, cloud, link, runtime
<1>18. CASE EndRun
    BY <1>18, <1>same DEF EndRun, TypeOK, cloud, link, runtime
<1>19. CASE StartQueued
    <2>1. /\ Head(queue) \in [revision : Revisions, epoch : Epochs]
          /\ queue' \in Seq([revision : Revisions, epoch : Epochs])
        BY <1>19, HeadTail DEF StartQueued, TypeOK
    <2>2. run' \in RunRecords /\ started' \in Nat
        BY <1>19, <2>1, BeginType DEF StartQueued
    <2> QED BY <1>19, <1>same, <2>1, <2>2 DEF StartQueued, TypeOK, cloud, link, runtime
<1>20. CASE Disconnect
    <2>1. down' \in Seq(Deployments \cup Starts) /\ results' \subseteq Results
        BY <1>20 DEF Disconnect, TypeOK
    <2>2. drops < MaxDrops /\ drops' = drops + 1 /\ online' = FALSE
        BY <1>20 DEF Disconnect
    <2>3. drops' \in 0..MaxDrops
        BY <2>2, DeploymentAssumption DEF TypeOK
    <2> QED BY <1>20, <1>same, <2>1, <2>2, <2>3 DEF Disconnect, TypeOK, cloud, runs, runtime
<1>21. CASE Reconnect
    BY <1>21, <1>same DEF Reconnect, TypeOK, cloud, runs, runtime
<1>22. CASE UNCHANGED vars
    BY <1>22, <1>same DEF vars, TypeOK, cloud, link, runs, runtime
<1> QED
    BY <1>1, <1>2, <1>3, <1>4, <1>5, <1>6, <1>7, <1>8, <1>9, <1>10, <1>11, <1>12, <1>13,
       <1>14, <1>15, <1>16, <1>17, <1>18, <1>19, <1>20, <1>21, <1>22
    DEF Next, MakeRequest, Continue, HandleMessage, ResultArrives-----------------------------------------------------------------------------
\* The runs that have stored their state under a revision and an epoch.
Writers(r, e) == {v.run : v \in {u \in wrote : u.revision = r /\ u.epoch = e}}

\* What is remembered is what was stored; and until the run that holds the flow
\* stores its state, it holds what is remembered.
StateInv ==
    /\ \A r \in Revisions, e \in Epochs : Remembered(r, e) = Writers(r, e)
    /\ run # NoRun /\ ~run.updated => run.read = Remembered(run.revision, run.epoch)

LEMMA InitState == Init => StateInv
BY DEF Init, StateInv, Remembered, RowsOf, Writers

\* Steps of the deployment leave the state and its runs alone.
LEMMA KeepsState ==
    ASSUME StateInv, UNCHANGED <<run, state, wrote>>
    PROVE  StateInv'
BY DEF StateInv, Remembered, RowsOf, Writers

\* A run that begins reads what is remembered.
LEMMA BeginKeeps ==
    ASSUME TypeOK, StateInv, NEW r \in Revisions, Begin(r), UNCHANGED <<state, wrote>>
    PROVE  StateInv'
<1>1. \A q, e : Remembered(q, e)' = Remembered(q, e) /\ Writers(q, e)' = Writers(q, e)
    BY DEF Remembered, RowsOf, Writers
<1>2. run' = [id |-> started + 1, revision |-> r, epoch |-> CurrentEpoch,
              read |-> Remembered(r, CurrentEpoch), updated |-> FALSE]
    BY DEF Begin
<1>3. run'.read = Remembered(run'.revision, run'.epoch)
    BY <1>2
<1> QED BY <1>1, <1>3 DEF StateInv

LEMMA AcceptKeeps ==
    ASSUME TypeOK, StateInv, NEW r \in Revisions, Accept(r)
    PROVE  StateInv'
BY BeginKeeps, KeepsState DEF Accept

\* A run that stores its state adds itself to what it has read.
LEMMA UpdateKeeps ==
    ASSUME TypeOK, StateInv, UpdateState
    PROVE  StateInv'
<1>1. run \in RunRecords /\ run.read = Remembered(run.revision, run.epoch)
    BY DEF UpdateState, TypeOK, StateInv
<1>2. PICK r \in Revisions, e \in Epochs : r = run.revision /\ e = run.epoch
    BY <1>1 DEF RunRecords
<1>3. PICK i : i = run.id
    OBVIOUS
<1>4. PICK new : new = [revision |-> r, epoch |-> e, seen |-> run.read \cup {i}]
    OBVIOUS
<1>5. /\ state' = (state \ RowsOf(r, e)) \cup {new}
      /\ wrote' = wrote \cup {[run |-> i, revision |-> r, epoch |-> e]}
      /\ run' = [run EXCEPT !.updated = TRUE]
    BY <1>2, <1>3, <1>4 DEF UpdateState
<1>6. ASSUME NEW q \in Revisions, NEW f \in Epochs
      PROVE  Remembered(q, f)' = Writers(q, f)'
    <2>1. CASE q = r /\ f = e
        <3>1. RowsOf(q, f)' = {new}
            BY <1>4, <1>5, <2>1 DEF RowsOf
        <3>2. Remembered(q, f)' = run.read \cup {i}
            BY <1>4, <3>1 DEF Remembered
        <3>3. Writers(q, f)' = Writers(q, f) \cup {i}
            <4>1. PICK w : w = [run |-> i, revision |-> r, epoch |-> e]
                OBVIOUS
            <4>2. w.run = i /\ w.revision = r /\ w.epoch = e
                BY <4>1
            <4>3. wrote' = wrote \cup {w}
                BY <1>5, <4>1
            <4>4. {u \in wrote' : u.revision = q /\ u.epoch = f}
                      = {u \in wrote : u.revision = q /\ u.epoch = f} \cup {w}
                BY <2>1, <4>2, <4>3
            <4> QED BY <4>2, <4>4 DEF Writers
        <3>4. run.read = Writers(q, f)
            BY <1>1, <1>2, <2>1 DEF StateInv
        <3> QED BY <3>2, <3>3, <3>4
    <2>2. CASE ~(q = r /\ f = e)
        <3>1. RowsOf(q, f)' = RowsOf(q, f)
            BY <1>4, <1>5, <2>2 DEF RowsOf
        <3>2. Remembered(q, f)' = Remembered(q, f)
            BY <3>1 DEF Remembered
        <3>3. Writers(q, f)' = Writers(q, f)
            BY <1>5, <2>2 DEF Writers
        <3> QED BY <3>2, <3>3 DEF StateInv
    <2> QED BY <2>1, <2>2
<1>7. run'.updated = TRUE
    BY <1>1, <1>5 DEF RunRecords
<1> QED BY <1>6, <1>7 DEF StateInv

LEMMA StateStep == TypeOK /\ StateInv /\ [Next]_vars => StateInv'
<1> SUFFICES ASSUME TypeOK, StateInv, [Next]_vars PROVE StateInv'
    OBVIOUS
<1>1. ASSUME NEW q \in Requests, MakeRequest(q) \/ Continue(q) PROVE StateInv'
    BY <1>1, KeepsState
    DEF MakeRequest, Deploy, Deactivate, Delete, Continue, ReadMax, InsertDeployment,
        SendDesired, WithdrawRow, RemoveFlow, runs
<1>2. CASE ResultArrives
    BY <1>2, KeepsState DEF ResultArrives, HandleResult, runs
<1>3. ASSUME NEW r \in Revisions, StartLiveRun(r) PROVE StateInv'
    BY <1>3, KeepsState DEF StartLiveRun, runs
<1>4. CASE HandleMessage
    <2>1. ASSUME NEW m, IgnoreDeployment(m) \/ TurnOff(m) \/ Activate(m) \/ RefuseDeployment(m)
          PROVE  StateInv'
        BY <2>1, KeepsState DEF IgnoreDeployment, TurnOff, Activate, RefuseDeployment, runs
    <2>2. ASSUME NEW m, StartFromCloud(m) PROVE StateInv'
        BY <2>2, AcceptKeeps DEF StartFromCloud, Starts
    <2> QED BY <1>4, <2>1, <2>2 DEF HandleMessage
<1>5. CASE FireTrigger
    BY <1>5, AcceptKeeps DEF FireTrigger, TypeOK, Pointers
<1>6. CASE UpdateState
    BY <1>6, UpdateKeeps
<1>7. CASE EndRun
    BY <1>7 DEF EndRun, StateInv, Remembered, RowsOf, Writers
<1>8. CASE StartQueued
    <2>1. Head(queue) \in [revision : Revisions, epoch : Epochs]
        BY <1>8, HeadTail DEF StartQueued, TypeOK
    <2>2. Head(queue).revision \in Revisions
        BY <2>1
    <2> QED BY <1>8, <2>2, BeginKeeps DEF StartQueued
<1>9. CASE Disconnect \/ Reconnect \/ UNCHANGED vars
    BY <1>9, KeepsState DEF Disconnect, Reconnect, vars, runs
<1> QED BY <1>1, <1>2, <1>3, <1>4, <1>5, <1>6, <1>7, <1>8, <1>9 DEF Next

-----------------------------------------------------------------------------
\* Nothing turns a flow off that the runtime has never heard of: what is shown as
\* active, and every deactivation that follows from it, comes from a result.
RowsKnown == \A g \in DOMAIN rows : rows[g].status = "active" => pointer.known
ResultsKnown == \A m \in results : m.status = "active" => pointer.known
RequestsKnown == \A q \in Requests :
    request[q].kind # "deploy" /\ request[q].stage \in {"read", "numbered", "inserted"} =>
        pointer.known
DownKnown == \A i \in 1..Len(down) : down[i] \in Deployments /\ down[i].off => pointer.known

KnownInv == RowsKnown /\ ResultsKnown /\ RequestsKnown /\ DownKnown

\* The row of the flow is as the newest deployment that was carried out left it.
NewestInv ==
    /\ \A m \in accepted : m.generation <= pointer.generation
    /\ accepted # {} => pointer.known /\ \E m \in accepted : Matches(m)

LEMMA InitKnown == Init => KnownInv /\ NewestInv
BY DEF Init, Blank, KnownInv, RowsKnown, ResultsKnown, RequestsKnown, DownKnown, NewestInv

\* A request is moved on, and stays of its kind.
LEMMA MoveKnown ==
    ASSUME TypeOK, RequestsKnown, UNCHANGED pointer, NEW q \in Requests, NEW stage, Move(q, stage),
           stage \in {"numbered", "inserted"} =>
               request[q].stage \in {"read", "numbered", "inserted"},
           stage # "read"
    PROVE  RequestsKnown'
<1> SUFFICES ASSUME NEW p \in Requests, request'[p].kind # "deploy",
                    request'[p].stage \in {"read", "numbered", "inserted"}
             PROVE  pointer.known
    BY DEF RequestsKnown
<1>1. CASE p # q
    BY <1>1 DEF Move, TypeOK, RequestsKnown
<1>2. CASE p = q /\ stage = "done"
    <2>1. request'[p] = Blank("done")
        BY <1>2 DEF Move, TypeOK
    <2> QED BY <2>1 DEF Blank
<1>3. CASE p = q /\ stage # "done"
    <2>1. request'[p] = [request[q] EXCEPT !.stage = stage]
        BY <1>3 DEF Move, TypeOK
    <2>2. request'[p].stage = stage /\ request'[p].kind = request[q].kind
        BY <2>1 DEF TypeOK, RequestRecords
    <2> QED BY <2>2 DEF RequestsKnown
<1> QED BY <1>1, <1>2, <1>3

\* Once the flow has a row at the runtime it keeps it.
LEMMA Keeps == ASSUME KnownInv, pointer'.known PROVE KnownInv'
BY DEF KnownInv, RowsKnown, ResultsKnown, RequestsKnown, DownKnown

LEMMA KnownStep == TypeOK /\ Numbered /\ KnownInv /\ [Next]_vars => KnownInv'
<1> SUFFICES ASSUME TypeOK, Numbered, KnownInv, [Next]_vars PROVE KnownInv'
    OBVIOUS
<1>inv. RowsKnown /\ ResultsKnown /\ RequestsKnown /\ DownKnown
    BY DEF KnownInv
<1>rows. UNCHANGED <<rows, pointer>> => RowsKnown'
    BY <1>inv DEF RowsKnown
<1>results. UNCHANGED <<results, pointer>> => ResultsKnown'
    BY <1>inv DEF ResultsKnown
<1>requests. UNCHANGED <<request, pointer>> => RequestsKnown'
    BY <1>inv DEF RequestsKnown
<1>down. UNCHANGED <<down, pointer>> => DownKnown'
    BY <1>inv DEF DownKnown
<1>shown. ASSUME NEW r, ShownActive(r) PROVE pointer.known
    BY <1>inv, <1>shown DEF ShownActive, RowsKnown
<1>tail. ASSUME NEW m, Receive(m), UNCHANGED pointer PROVE DownKnown'
    <2>1. down \in Seq(Deployments \cup Starts) /\ down # <<>> /\ down' = Tail(down)
        BY <1>tail DEF Receive, TypeOK
    <2>2. \A i \in 1..Len(down') : i + 1 \in 1..Len(down) /\ down'[i] = down[i + 1]
        BY <2>1
    <2> QED BY <1>inv, <1>tail, <2>2 DEF DownKnown
<1>1. ASSUME NEW q \in Requests, NEW r \in Revisions, NEW keep \in BOOLEAN, Deploy(q, r, keep)
      PROVE  KnownInv'
    <2>1. RequestsKnown'
        BY <1>1, <1>inv DEF Deploy, RequestsKnown, TypeOK, RequestRecords, runtime
    <2> QED BY <1>1, <1>rows, <1>results, <1>down, <2>1 DEF Deploy, KnownInv, link, runtime
<1>2. ASSUME NEW q \in Requests, NEW r \in Revisions, Deactivate(q, r) PROVE KnownInv'
    <2>1. pointer'.known
        BY <1>2, <1>shown DEF Deactivate, runtime
    <2> QED BY <2>1, Keeps
<1>3. ASSUME NEW q \in Requests, Delete(q) PROVE KnownInv'
    <2>1. CASE \E r \in Revisions : ShownActive(r)
        <3>1. pointer'.known
            BY <1>3, <1>shown, <2>1 DEF Delete, runtime
        <3> QED BY <3>1, Keeps
    <2>2. CASE \A r \in Revisions : ~ShownActive(r)
        <3>1. request' = [request EXCEPT ![q] = [@ EXCEPT !.stage = "remove", !.kind = "delete"]]
            BY <1>3, <2>2 DEF Delete
        <3>2. RequestsKnown'
            BY <1>3, <1>inv, <3>1 DEF Delete, RequestsKnown, TypeOK, RequestRecords, runtime
        <3> QED BY <1>3, <1>rows, <1>results, <1>down, <3>2 DEF Delete, KnownInv, link, runtime
    <2> QED BY <2>1, <2>2
<1>4. ASSUME NEW q \in Requests, ReadMax(q) PROVE KnownInv'
    <2>1. CASE exists
        <3>1. PICK last \in 0..(MaxGeneration - 1) :
                  request' = [request EXCEPT ![q].stage = "numbered", ![q].generation = last + 1]
            BY <1>4, <2>1 DEF ReadMax
        <3>2. \A p \in Requests : p # q => request'[p] = request[p]
            BY <3>1 DEF TypeOK
        <3>3. request'[q].kind = request[q].kind /\ request[q].stage = "read"
            BY <1>4, <3>1 DEF ReadMax, At, TypeOK, RequestRecords
        <3>4. RequestsKnown'
            BY <1>4, <1>inv, <3>2, <3>3 DEF ReadMax, RequestsKnown, runtime
        <3> QED BY <1>4, <1>rows, <1>results, <1>down, <3>4 DEF ReadMax, KnownInv, link, runtime
    <2>2. CASE ~exists
        <3>1. RequestsKnown'
            BY <1>4, <1>inv, <2>2, MoveKnown DEF ReadMax, runtime
        <3> QED BY <1>4, <1>rows, <1>results, <1>down, <3>1 DEF ReadMax, KnownInv, link, runtime
    <2> QED BY <2>1, <2>2
<1>5. ASSUME NEW q \in Requests, InsertDeployment(q) PROVE KnownInv'
    <2>1. RequestsKnown'
        BY <1>5, <1>inv, MoveKnown DEF InsertDeployment, At, runtime
    <2>2. \A g \in DOMAIN rows' : rows'[g].status = "active" => g \in DOMAIN rows /\ rows'[g] = rows[g]
        BY <1>5 DEF InsertDeployment
    <2>3. RowsKnown'
        BY <1>5, <1>inv, <2>2 DEF InsertDeployment, RowsKnown, runtime
    <2> QED BY <1>5, <1>results, <1>down, <2>1, <2>3 DEF InsertDeployment, KnownInv, link, runtime
<1>6. ASSUME NEW q \in Requests, SendDesired(q) PROVE KnownInv'
    <2>1. PICK stage \in {"remove", "done", "withdraw"} : Move(q, stage)
        BY <1>6 DEF SendDesired
    <2>2. RequestsKnown'
        BY <1>6, <1>inv, <2>1, MoveKnown DEF SendDesired, runtime
    <2>3. Desired(q).off => pointer.known
        BY <1>6, <1>inv DEF SendDesired, At, Desired, RequestsKnown
    <2>4. DownKnown'
        <3>1. CASE UNCHANGED down
            BY <1>6, <1>down, <3>1 DEF SendDesired, runtime
        <3>2. CASE down' = Append(down, Desired(q))
            <4>1. Len(down') = Len(down) + 1 /\ Len(down) \in Nat /\ down'[Len(down) + 1] = Desired(q)
                BY <3>2 DEF TypeOK
            <4>2. \A i \in 1..Len(down) : down'[i] = down[i]
                BY <3>2 DEF TypeOK
            <4>3. \A i \in 1..Len(down') : i \in 1..Len(down) \/ i = Len(down) + 1
                BY <4>1
            <4> QED BY <1>6, <1>inv, <2>3, <4>1, <4>2, <4>3 DEF SendDesired, DownKnown, runtime
        <3> QED BY <1>6, <3>1, <3>2 DEF SendDesired
    <2> QED BY <1>6, <1>rows, <1>results, <2>2, <2>4 DEF SendDesired, KnownInv, runtime
<1>7. ASSUME NEW q \in Requests, WithdrawRow(q) PROVE KnownInv'
    <2>1. RequestsKnown'
        BY <1>7, <1>inv, MoveKnown DEF WithdrawRow, runtime
    <2>2. RowsKnown'
        BY <1>7, <1>inv DEF WithdrawRow, RowsKnown, runtime
    <2> QED BY <1>7, <1>results, <1>down, <2>1, <2>2 DEF WithdrawRow, KnownInv, link, runtime
<1>8. ASSUME NEW q \in Requests, RemoveFlow(q) PROVE KnownInv'
    <2>1. RequestsKnown'
        BY <1>8, <1>inv, MoveKnown DEF RemoveFlow, runtime
    <2>2. RowsKnown'
        BY <1>8 DEF RemoveFlow, RowsKnown
    <2> QED BY <1>8, <1>results, <1>down, <2>1, <2>2 DEF RemoveFlow, KnownInv, link, runtime
<1>9. ASSUME NEW m \in results, HandleResult(m) PROVE KnownInv'
    <2>1. UNCHANGED <<pointer, request, down>> /\ results' \subseteq results
        BY <1>9 DEF HandleResult, runtime
    <2>2. ResultsKnown'
        BY <1>inv, <2>1 DEF ResultsKnown
    <2>3. RowsKnown'
        <3>1. CASE m.status = "active"
            BY <1>inv, <2>1, <3>1 DEF ResultsKnown, RowsKnown
        <3>2. CASE m.status # "active"
            <4>1. ResultStatus(m.status) # "active"
                BY <3>2 DEF ResultStatus
            <4> QED BY <1>9, <1>inv, <2>1, <4>1 DEF HandleResult, RowsKnown, TypeOK
        <3> QED BY <3>1, <3>2
    <2> QED BY <1>requests, <1>down, <2>1, <2>2, <2>3 DEF KnownInv
<1>10. ASSUME NEW r \in Revisions, StartLiveRun(r) PROVE KnownInv'
    <2>1. pointer'.known
        BY <1>10, <1>shown DEF StartLiveRun, runtime
    <2> QED BY <2>1, Keeps
<1>11. ASSUME NEW m, IgnoreDeployment(m) \/ RefuseDeployment(m) PROVE KnownInv'
    <2>1. UNCHANGED <<pointer, rows, request>> /\ Receive(m)
        BY <1>11 DEF IgnoreDeployment, RefuseDeployment, cloud, runtime
    <2>2. ResultsKnown'
        BY <1>11, <1>inv, <2>1 DEF IgnoreDeployment, RefuseDeployment, Reply, ResultsKnown
    <2> QED BY <1>rows, <1>requests, <1>tail, <2>1, <2>2 DEF KnownInv
<1>12. ASSUME NEW m, TurnOff(m) PROVE KnownInv'
    <2>1. m.off /\ m \in Deployments /\ Receive(m)
        BY <1>12 DEF TurnOff, IsDeployment
    <2>2. down \in Seq(Deployments \cup Starts) /\ 1 \in 1..Len(down) /\ down[1] = m
        BY <2>1 DEF Receive, TypeOK
    <2>3. pointer.known
        BY <1>inv, <2>1, <2>2 DEF DownKnown
    <2>4. pointer'.known
        BY <1>12, <2>3 DEF TurnOff, Deactivated, TypeOK, Pointers
    <2> QED BY <2>4, Keeps
<1>13. ASSUME NEW m, Activate(m) PROVE KnownInv'
    <2>1. pointer'.known
        BY <1>13 DEF Activate, Activated
    <2> QED BY <2>1, Keeps
<1>14. ASSUME NEW m, StartFromCloud(m) PROVE KnownInv'
    BY <1>14, <1>rows, <1>results, <1>requests, <1>tail DEF StartFromCloud, KnownInv, cloud, runtime
<1>15. CASE FireTrigger \/ UpdateState \/ EndRun \/ StartQueued \/ Reconnect \/ UNCHANGED vars
    BY <1>15, <1>rows, <1>results, <1>requests, <1>down
    DEF FireTrigger, UpdateState, EndRun, StartQueued, Reconnect, vars, KnownInv, cloud, link, runtime
<1>16. CASE Disconnect
    <2>1. UNCHANGED <<pointer, rows, request>> /\ down' = <<>> /\ results' \subseteq results
        BY <1>16 DEF Disconnect, cloud, runtime
    <2>2. ResultsKnown' /\ DownKnown'
        BY <1>inv, <2>1 DEF ResultsKnown, DownKnown
    <2> QED BY <1>rows, <1>requests, <2>1, <2>2 DEF KnownInv
<1> QED
    BY <1>1, <1>2, <1>3, <1>4, <1>5, <1>6, <1>7, <1>8, <1>9, <1>10, <1>11, <1>12, <1>13,
       <1>14, <1>15, <1>16
    DEF Next, MakeRequest, Continue, HandleMessage, ResultArrives

LEMMA NewestStep == TypeOK /\ KnownInv /\ NewestInv /\ [Next]_vars => NewestInv'
<1> SUFFICES ASSUME TypeOK, KnownInv, NewestInv, [Next]_vars PROVE NewestInv'
    OBVIOUS
<1>same. UNCHANGED runtime => NewestInv'
    BY DEF NewestInv, Matches, runtime
<1>new. ASSUME NEW m \in Deployments, ~Ignored(m), pointer'.known, Matches(m)',
               accepted' = accepted \cup {m}
        PROVE  NewestInv'
    <2>1. pointer'.generation = m.generation
        BY <1>new DEF Matches
    <2>2. m.generation \in Nat /\ pointer.generation \in Nat
          /\ \A other \in accepted : other.generation \in Nat
        BY DEF TypeOK, Deployments, Generations, Pointers
    <2>3. \A other \in accepted : other.generation <= m.generation
        <3>1. CASE accepted = {}
            BY <3>1
        <3>2. CASE accepted # {}
            <4>1. pointer.generation <= m.generation
                BY <1>new, <2>2, <3>2 DEF NewestInv, Ignored
            <4> QED BY <2>2, <4>1 DEF NewestInv
        <3> QED BY <3>1, <3>2
    <2>4. \A other \in accepted' : other.generation <= pointer'.generation
        BY <1>new, <2>1, <2>2, <2>3
    <2> QED BY <1>new, <2>4 DEF NewestInv
<1>1. ASSUME NEW m, TurnOff(m) PROVE NewestInv'
    <2>1. m.off /\ m \in Deployments /\ Receive(m) /\ ~Ignored(m)
        BY <1>1 DEF TurnOff, IsDeployment
    <2>2. down \in Seq(Deployments \cup Starts) /\ 1 \in 1..Len(down) /\ down[1] = m
        BY <2>1 DEF Receive, TypeOK
    <2>3. pointer.known
        BY <2>1, <2>2 DEF KnownInv, DownKnown
    <2>4. /\ pointer' = [pointer EXCEPT !.active = FALSE, !.generation = m.generation]
          /\ accepted' = accepted \cup {m}
        BY <1>1, <2>3 DEF TurnOff, Deactivated
    <2>5. pointer'.known /\ Matches(m)'
        BY <2>1, <2>3, <2>4 DEF Matches, TypeOK, Pointers
    <2> QED BY <1>new, <2>1, <2>4, <2>5
<1>2. ASSUME NEW m, Activate(m) PROVE NewestInv'
    <2>1. ~m.off /\ m \in Deployments /\ ~Ignored(m) /\ accepted' = accepted \cup {m}
        BY <1>2 DEF Activate, IsDeployment
    <2>2. pointer'.known /\ Matches(m)'
        BY <1>2, <2>1 DEF Activate, Activated, Matches
    <2> QED BY <1>new, <2>1, <2>2
<1>3. ASSUME NEW q \in Requests, MakeRequest(q) \/ Continue(q) PROVE UNCHANGED runtime
    BY <1>3 DEF MakeRequest, Deploy, Deactivate, Delete, Continue, ReadMax, InsertDeployment,
                SendDesired, WithdrawRow, RemoveFlow
<1>4. ASSUME NEW m, IgnoreDeployment(m) \/ RefuseDeployment(m) \/ StartFromCloud(m)
      PROVE  UNCHANGED runtime
    BY <1>4 DEF IgnoreDeployment, RefuseDeployment, StartFromCloud
<1>5. CASE ResultArrives \/ FireTrigger \/ UpdateState \/ EndRun \/ StartQueued \/ Disconnect
           \/ Reconnect \/ UNCHANGED vars
    BY <1>5, <1>same
    DEF ResultArrives, HandleResult, FireTrigger, UpdateState, EndRun, StartQueued, Disconnect,
        Reconnect, vars
<1>6. ASSUME NEW r \in Revisions, StartLiveRun(r) PROVE UNCHANGED runtime
    BY <1>6 DEF StartLiveRun
<1> QED BY <1>same, <1>1, <1>2, <1>3, <1>4, <1>5, <1>6 DEF Next, HandleMessage

-----------------------------------------------------------------------------
(***************************************************************************)
(* What the cloud shows is true.  CloudIsRight is not inductive: it rests  *)
(* on a generation being used once.  The row of a generation belongs to    *)
(* the request that inserted it until the deployment is sent; from then on *)
(* the generation is in the message, in the result and in what was carried *)
(* out, one after the other, and a row is withdrawn only before.           *)
(***************************************************************************)

Owner(q) == request[q].stage \in {"inserted", "withdraw"}
Number(q) == request[q].generation

Travels(g) == \E i \in 1..Len(down) : down[i] \in Deployments /\ down[i].generation = g
Answered(g) == \E m \in results : m.generation = g
CarriedOut(g) == \E m \in accepted : m.generation = g
Unused(g) == ~Travels(g) /\ ~Answered(g) /\ ~CarriedOut(g)

\* The status "active" (on) or "inactive" of generation g is true of the runtime.
Told(g, on) ==
    /\ pointer.known /\ pointer.generation >= g
    /\ pointer.generation = g =>
         /\ pointer.active = on
         /\ on /\ g \in DOMAIN rows => pointer.revision = rows[g].revision

Fits(m) ==
    /\ ~Answered(m.generation) /\ ~CarriedOut(m.generation)
    /\ exists => m.generation \in DOMAIN rows
    /\ m.generation \in DOMAIN rows => rows[m.generation].revision = m.revision

GoneWithFlow == ~exists => DOMAIN rows = {}
OwnersKeep ==
    \A q \in Requests : Owner(q) =>
        /\ Unused(Number(q))
        /\ exists => /\ Number(q) \in DOMAIN rows
                     /\ rows[Number(q)].revision = request[q].revision
OwnersDiffer ==
    \A p, q \in Requests : Owner(p) /\ Owner(q) /\ Number(p) = Number(q) => p = q
FreeUnused == \A g \in Generations : exists /\ g \notin DOMAIN rows => Unused(g)
MessagesFit == \A i \in 1..Len(down) : down[i] \in Deployments => Fits(down[i])
MessagesDiffer ==
    \A i, j \in 1..Len(down) :
        /\ down[i] \in Deployments /\ down[j] \in Deployments
        /\ down[i].generation = down[j].generation
        => i = j
ResultsTrue ==
    \A m \in results : /\ m.status = "active" => Told(m.generation, TRUE)
                       /\ m.status = "inactive" => Told(m.generation, FALSE)
RowsTrue ==
    \A g \in DOMAIN rows : /\ rows[g].status = "active" => Told(g, TRUE)
                           /\ rows[g].status = "inactive" => Told(g, FALSE)
PointerCarriedOut == pointer.known => CarriedOut(pointer.generation)
Decided(g) ==
    \/ rows[g].status # "requested" \/ Travels(g) \/ Answered(g)
    \/ \E q \in Requests : Owner(q) /\ Number(q) = g
UnlessDropped == drops = 0 => online /\ \A g \in DOMAIN rows : Decided(g)

OnceInv ==
    /\ GoneWithFlow /\ OwnersKeep /\ OwnersDiffer /\ FreeUnused /\ MessagesFit
    /\ MessagesDiffer /\ ResultsTrue /\ RowsTrue /\ PointerCarriedOut /\ UnlessDropped

LEMMA InitOnce == Init => OnceInv
<1> SUFFICES ASSUME Init PROVE OnceInv
    OBVIOUS
<1>1. DOMAIN rows = {} /\ down = <<>> /\ results = {} /\ accepted = {} /\ ~pointer.known /\ online
    BY DEF Init
<1>2. \A q \in Requests : ~Owner(q)
    BY DEF Init, Blank, Owner
<1>3. \A g : Unused(g)
    BY <1>1 DEF Unused, Travels, Answered, CarriedOut
<1> QED
    BY <1>1, <1>2, <1>3
    DEF OnceInv, GoneWithFlow, OwnersKeep, OwnersDiffer, FreeUnused, MessagesFit, MessagesDiffer,
        ResultsTrue, RowsTrue, PointerCarriedOut, UnlessDropped

\* A request that is moved on: the others stay as they are.
LEMMA MoveOwns ==
    ASSUME TypeOK, NEW q \in Requests, NEW stage, Move(q, stage)
    PROVE  /\ \A p \in Requests : p # q => request'[p] = request[p]
           /\ stage \notin {"inserted", "withdraw"} => ~Owner(q)'
           /\ stage # "done" => /\ request'[q].generation = request[q].generation
                                /\ request'[q].revision = request[q].revision
                                /\ request'[q].stage = stage
<1>1. \A p \in Requests : p # q => request'[p] = request[p]
    BY DEF Move, TypeOK
<1>2. CASE stage = "done"
    <2>1. request'[q] = Blank("done")
        BY <1>2 DEF Move, TypeOK
    <2> QED BY <1>1, <1>2, <2>1 DEF Blank, Owner
<1>3. CASE stage # "done"
    <2>1. request'[q] = [request[q] EXCEPT !.stage = stage]
        BY <1>3 DEF Move, TypeOK
    <2>2. /\ request'[q].stage = stage /\ request'[q].generation = request[q].generation
          /\ request'[q].revision = request[q].revision
        BY <2>1 DEF TypeOK, RequestRecords
    <2> QED BY <1>1, <2>2 DEF Owner
<1> QED BY <1>2, <1>3

\* A step of a request that neither gains nor loses a row.
LEMMA SameOwners ==
    ASSUME OnceInv, UNCHANGED <<exists, rows, link, runtime>>,
           \A q \in Requests : /\ Owner(q)' <=> Owner(q)
                               /\ Owner(q) => /\ request'[q].generation = request[q].generation
                                              /\ request'[q].revision = request[q].revision
    PROVE  OnceInv'
<1>1. /\ \A g : /\ (Travels(g)' <=> Travels(g)) /\ (Answered(g)' <=> Answered(g))
                /\ (CarriedOut(g)' <=> CarriedOut(g)) /\ (Unused(g)' <=> Unused(g))
      /\ \A m : Fits(m)' <=> Fits(m)
    BY DEF Travels, Answered, CarriedOut, Unused, Fits, link, runtime
<1>2. \A g : (Told(g, TRUE)' <=> Told(g, TRUE)) /\ (Told(g, FALSE)' <=> Told(g, FALSE))
    BY DEF Told, runtime
<1>3. OwnersKeep' /\ OwnersDiffer'
    BY <1>1 DEF OnceInv, OwnersKeep, OwnersDiffer, Number
<1>4. UnlessDropped'
    BY <1>1 DEF OnceInv, UnlessDropped, Decided, Number, link
<1> QED
    BY <1>1, <1>2, <1>3, <1>4
    DEF OnceInv, GoneWithFlow, FreeUnused, MessagesFit, MessagesDiffer, ResultsTrue, RowsTrue,
        PointerCarriedOut, link, runtime

LEMMA RequestOnce ==
    ASSUME TypeOK, OnceInv, NEW q \in Requests, MakeRequest(q) \/ ReadMax(q)
    PROVE  OnceInv'
<1>1. UNCHANGED <<exists, rows, link, runtime>>
    BY DEF MakeRequest, Deploy, Deactivate, Delete, ReadMax
<1>2. \A p \in Requests : p # q => request'[p] = request[p]
    <2>1. CASE MakeRequest(q)
        BY <2>1 DEF MakeRequest, Deploy, Deactivate, Delete, TypeOK
    <2>2. CASE ReadMax(q)
        BY <2>2, MoveOwns DEF ReadMax, TypeOK
    <2> QED BY <2>1, <2>2
<1>3. ~Owner(q) /\ ~Owner(q)'
    <2>1. request[q] \in RequestRecords /\ request \in [Requests -> RequestRecords]
        BY DEF TypeOK
    <2>2. ~Owner(q)
        BY DEF Owner, MakeRequest, Deploy, Deactivate, Delete, ReadMax, At
    <2>3. CASE MakeRequest(q)
        <3>1. request'[q].stage \in {"read", "remove"}
            BY <2>1, <2>3 DEF MakeRequest, Deploy, Deactivate, Delete, RequestRecords
        <3> QED BY <2>2, <3>1 DEF Owner
    <2>4. CASE ReadMax(q) /\ exists
        <3>1. request'[q].stage = "numbered"
            BY <2>1, <2>4 DEF ReadMax, RequestRecords
        <3> QED BY <2>2, <3>1 DEF Owner
    <2>5. CASE ReadMax(q) /\ ~exists
        <3>1. Move(q, "done")
            BY <2>5 DEF ReadMax
        <3> QED BY <2>2, <3>1, MoveOwns
    <2> QED BY <2>3, <2>4, <2>5
<1> QED BY <1>1, <1>2, <1>3, SameOwners DEF Owner

\* A new row takes a generation that nothing speaks of.
LEMMA InsertOnce ==
    ASSUME TypeOK, Numbered, OnceInv, NEW q \in Requests, InsertDeployment(q)
    PROVE  OnceInv'
<1> DEFINE g == request[q].generation
<1>1. g \in Generations /\ request[q].stage = "numbered" /\ ~Owner(q)
    BY DEF InsertDeployment, At, Numbered, TypeOK, RequestRecords, Generations, Owner
<1>2. CASE exists /\ g \notin DOMAIN rows
    <2>1. /\ rows' = [h \in DOMAIN rows \cup {g} |->
                        IF h = g THEN [revision |-> request[q].revision, status |-> "requested"]
                        ELSE rows[h]]
          /\ Move(q, "inserted") /\ UNCHANGED <<exists, link, runtime>>
        BY <1>2 DEF InsertDeployment
    <2>2. /\ DOMAIN rows' = DOMAIN rows \cup {g}
          /\ rows'[g].revision = request[q].revision /\ rows'[g].status = "requested"
          /\ \A h \in DOMAIN rows : h # g /\ rows'[h] = rows[h]
        BY <1>2, <2>1
    <2>3. /\ \A p \in Requests : p # q => request'[p] = request[p]
          /\ request'[q].generation = g /\ request'[q].revision = request[q].revision
          /\ request'[q].stage = "inserted"
        BY <2>1, MoveOwns
    <2>4. Unused(g)
        BY <1>1, <1>2 DEF OnceInv, FreeUnused
    <2>5. \A h : /\ (Travels(h)' <=> Travels(h)) /\ (Answered(h)' <=> Answered(h))
                 /\ (CarriedOut(h)' <=> CarriedOut(h)) /\ (Unused(h)' <=> Unused(h))
        BY <2>1 DEF Travels, Answered, CarriedOut, Unused, link, runtime
    <2> HIDE DEF g
    <2>6. \A h, on : h # g => (Told(h, on) => Told(h, on)')
        BY <2>1, <2>2 DEF Told, runtime
    <2>7. OwnersKeep' /\ OwnersDiffer'
        <3>1. \A p \in Requests : p # q /\ Owner(p)' => Owner(p) /\ Number(p) # g
            BY <1>2, <2>3 DEF OnceInv, OwnersKeep, Owner
        <3>2. OwnersKeep'
            <4> SUFFICES ASSUME NEW p \in Requests, Owner(p)'
                         PROVE  /\ Unused(Number(p))'
                                /\ exists' => /\ Number(p)' \in DOMAIN rows'
                                              /\ rows'[Number(p)'].revision = request'[p].revision
                BY DEF OwnersKeep
            <4>1. CASE p = q
                BY <2>2, <2>3, <2>4, <2>5, <4>1 DEF Number, Unused, Travels, Answered, CarriedOut
            <4>2. CASE p # q
                <5>1. Number(p)' = Number(p) /\ Owner(p) /\ request'[p] = request[p]
                    BY <2>3, <3>1, <4>2 DEF Number
                <5>2. Unused(Number(p)) /\ Number(p) \in DOMAIN rows
                      /\ rows[Number(p)].revision = request[p].revision
                    BY <1>2, <5>1 DEF OnceInv, OwnersKeep
                <5>3. Unused(Number(p))'
                    <6>1. PICK h : h = Number(p) /\ h = Number(p)'
                        BY <5>1
                    <6>2. Unused(h)'
                        BY <2>5, <5>2, <6>1
                    <6> QED BY <6>1, <6>2 DEF Unused, Travels, Answered, CarriedOut
                <5> QED BY <2>2, <5>1, <5>2, <5>3
            <4> QED BY <4>1, <4>2
        <3>3. OwnersDiffer'
            BY <2>3, <3>1 DEF OnceInv, OwnersDiffer, Number, Owner
        <3> QED BY <3>2, <3>3
    <2>8. FreeUnused'
        BY <2>1, <2>2, <2>5 DEF OnceInv, FreeUnused
    <2>9. MessagesFit' /\ MessagesDiffer'
        <3>1. \A i \in 1..Len(down) : down[i] \in Deployments => down[i].generation # g
            BY <2>4 DEF Unused, Travels
        <3>2. \A m : m.generation # g /\ Fits(m) => Fits(m)'
            BY <2>1, <2>2, <2>5 DEF Fits
        <3> QED BY <2>1, <3>1, <3>2 DEF OnceInv, MessagesFit, MessagesDiffer, link
    <2>10. ResultsTrue'
        <3>1. \A m \in results : m.generation # g
            BY <2>4 DEF Unused, Answered
        <3> QED BY <2>1, <2>6, <3>1 DEF OnceInv, ResultsTrue, link
    <2>11. RowsTrue'
        BY <2>2, <2>6 DEF OnceInv, RowsTrue
    <2>12. UnlessDropped'
        <3>1. ASSUME drops' = 0, NEW h \in DOMAIN rows' PROVE Decided(h)'
            <4>1. CASE h = g
                BY <2>3, <4>1 DEF Decided, Owner, Number
            <4>2. CASE h # g
                <5>1. h \in DOMAIN rows /\ Decided(h)
                    BY <2>1, <2>2, <3>1, <4>2 DEF OnceInv, UnlessDropped, link
                <5>2. \A p \in Requests : Owner(p) => Owner(p)' /\ Number(p)' = Number(p)
                    BY <1>1, <2>3 DEF Owner, Number
                <5> QED BY <2>2, <2>5, <5>1, <5>2 DEF Decided
            <4> QED BY <4>1, <4>2
        <3> QED BY <2>1, <3>1 DEF OnceInv, UnlessDropped, link
    <2> QED
        BY <1>2, <2>1, <2>5, <2>7, <2>8, <2>9, <2>10, <2>11, <2>12
        DEF OnceInv, GoneWithFlow, PointerCarriedOut, runtime
<1>3. CASE ~(exists /\ g \notin DOMAIN rows)
    <2>1. Move(q, "done") /\ UNCHANGED <<exists, rows, link, runtime>>
        BY <1>3 DEF InsertDeployment
    <2>2. ~Owner(q)' /\ \A p \in Requests : p # q => request'[p] = request[p]
        BY <2>1, MoveOwns
    <2> QED BY <1>1, <2>1, <2>2, SameOwners DEF Owner
<1> QED BY <1>2, <1>3

\* A deployment on its way is the only one of its generation.
LEMMA SendOnce ==
    ASSUME TypeOK, Numbered, OnceInv, NEW q \in Requests, SendDesired(q)
    PROVE  OnceInv'
<1> DEFINE g == request[q].generation
           d == Desired(q)
<1>1. g \in Generations /\ Owner(q) /\ Number(q) = g /\ UNCHANGED <<exists, rows, results, drops, online, runtime>>
    BY DEF SendDesired, At, Numbered, TypeOK, RequestRecords, Generations, Owner, Number
<1>2. d \in Deployments /\ d.generation = g /\ d.revision = request[q].revision
    BY <1>1 DEF Desired, Deployments, TypeOK, RequestRecords
<1>3. Unused(g) /\ (exists => g \in DOMAIN rows /\ rows[g].revision = request[q].revision)
    BY <1>1 DEF OnceInv, OwnersKeep
<1>4. \A p \in Requests : p # q => request'[p] = request[p]
    BY MoveOwns DEF SendDesired
<1>5. \A p \in Requests : p # q /\ Owner(p) => Number(p) # g
    BY <1>1 DEF OnceInv, OwnersDiffer
<1>6. \A h, on : Told(h, on)' <=> Told(h, on)
    BY <1>1 DEF Told, runtime
<1>7. \A h : (Answered(h)' <=> Answered(h)) /\ (CarriedOut(h)' <=> CarriedOut(h))
    BY <1>1 DEF Answered, CarriedOut, runtime
<1>8. GoneWithFlow' /\ ResultsTrue' /\ RowsTrue' /\ PointerCarriedOut'
    BY <1>1, <1>6, <1>7 DEF OnceInv, GoneWithFlow, ResultsTrue, RowsTrue, PointerCarriedOut, runtime
<1> HIDE DEF g, d
<1>9. CASE online
    <2>1. down' = Append(down, d) /\ ~Owner(q)'
        BY <1>9, MoveOwns DEF SendDesired, d
    <2>2. /\ Len(down') = Len(down) + 1 /\ down'[Len(down) + 1] = d /\ Len(down) \in Nat
          /\ \A i \in 1..Len(down) : down'[i] = down[i]
        BY <2>1 DEF TypeOK
    <2>3. \A i \in 1..Len(down') : i \in 1..Len(down) \/ i = Len(down) + 1
        BY <2>2
    <2>4. \A i \in 1..Len(down) : i \in 1..Len(down')
        BY <2>2
    <2>5. Len(down) + 1 \in 1..Len(down')
        BY <2>2
    <2>6. \A h : Travels(h)' <=> Travels(h) \/ h = g
        BY <1>2, <2>2, <2>3, <2>4, <2>5 DEF Travels
    <2>7. \A h : h # g => (Unused(h)' <=> Unused(h))
        BY <1>7, <2>6 DEF Unused
    <2>8. \A p \in Requests : Owner(p)' => Owner(p) /\ p # q /\ Number(p)' = Number(p)
        BY <1>4, <2>1 DEF Owner, Number
    <2>9. OwnersKeep'
        <3> SUFFICES ASSUME NEW p \in Requests, Owner(p)'
                     PROVE  /\ Unused(Number(p))'
                            /\ exists' => /\ Number(p)' \in DOMAIN rows'
                                          /\ rows'[Number(p)'].revision = request'[p].revision
            BY DEF OwnersKeep
        <3>1. PICK h : h = Number(p) /\ h = Number(p)' /\ h # g
            BY <1>5, <2>8
        <3>2. Unused(h) /\ (exists => h \in DOMAIN rows /\ rows[h].revision = request[p].revision)
            BY <2>8, <3>1 DEF OnceInv, OwnersKeep
        <3>3. Unused(h)'
            BY <2>7, <3>1, <3>2
        <3>4. Unused(Number(p))'
            BY <3>1, <3>3 DEF Unused, Travels, Answered, CarriedOut
        <3> QED BY <1>1, <1>4, <2>8, <3>1, <3>2, <3>4
    <2>10. OwnersDiffer'
        BY <2>8 DEF OnceInv, OwnersDiffer
    <2>11. FreeUnused'
        BY <1>1, <1>3, <2>7 DEF OnceInv, FreeUnused
    <2>12. Fits(d) /\ \A m : Fits(m) => Fits(m)'
        <3>1. exists \/ g \notin DOMAIN rows
            BY DEF OnceInv, GoneWithFlow
        <3> QED BY <1>1, <1>2, <1>3, <1>7, <3>1 DEF Fits, Unused
    <2>13. MessagesFit'
        BY <2>2, <2>3, <2>12 DEF OnceInv, MessagesFit
    <2>14. MessagesDiffer'
        <3>1. \A i \in 1..Len(down) : down[i] \in Deployments => down[i].generation # g
            BY <1>3 DEF Unused, Travels
        <3> QED BY <1>2, <2>2, <2>3, <3>1 DEF OnceInv, MessagesDiffer
    <2>15. UnlessDropped'
        <3>1. ASSUME NEW h, Decided(h) PROVE Decided(h)'
            <4>1. CASE h = g
                BY <2>6, <4>1 DEF Decided
            <4>2. CASE h # g
                BY <1>1, <1>4, <1>7, <2>6, <3>1, <4>2 DEF Decided, Owner, Number
            <4> QED BY <4>1, <4>2
        <3> QED BY <1>1, <3>1 DEF OnceInv, UnlessDropped
    <2> QED BY <1>8, <2>9, <2>10, <2>11, <2>13, <2>14, <2>15 DEF OnceInv
<1>10. CASE ~online
    <2>1. /\ UNCHANGED down /\ drops # 0
          /\ Move(q, "done") \/ Move(q, "withdraw")
        BY <1>10 DEF SendDesired, OnceInv, UnlessDropped
    <2>2. \A h : (Travels(h)' <=> Travels(h)) /\ (Unused(h)' <=> Unused(h))
        BY <1>7, <2>1 DEF Travels, Unused
    <2>3. \A m : Fits(m)' <=> Fits(m)
        BY <1>1, <1>7 DEF Fits
    <2>4. \A p \in Requests : Owner(p)' =>
             Owner(p) /\ Number(p)' = Number(p) /\ request'[p].revision = request[p].revision
        <3>1. CASE Move(q, "done")
            BY <1>4, <3>1, MoveOwns DEF Owner, Number
        <3>2. CASE Move(q, "withdraw")
            BY <1>1, <1>4, <3>2, MoveOwns DEF Owner, Number
        <3> QED BY <2>1, <3>1, <3>2
    <2>5. OwnersKeep'
        <3> SUFFICES ASSUME NEW p \in Requests, Owner(p)'
                     PROVE  /\ Unused(Number(p))'
                            /\ exists' => /\ Number(p)' \in DOMAIN rows'
                                          /\ rows'[Number(p)'].revision = request'[p].revision
            BY DEF OwnersKeep
        <3>1. PICK h : h = Number(p) /\ h = Number(p)'
            BY <2>4
        <3>2. Unused(h)'
            BY <2>2, <2>4, <3>1 DEF OnceInv, OwnersKeep
        <3>3. Unused(Number(p))'
            BY <3>1, <3>2 DEF Unused, Travels, Answered, CarriedOut
        <3> QED BY <1>1, <2>4, <3>1, <3>3 DEF OnceInv, OwnersKeep
    <2>6. OwnersDiffer'
        BY <2>4 DEF OnceInv, OwnersDiffer
    <2> QED
        BY <1>1, <1>8, <2>1, <2>2, <2>3, <2>5, <2>6
        DEF OnceInv, FreeUnused, MessagesFit, MessagesDiffer, UnlessDropped
<1> QED BY <1>9, <1>10

\* A row is withdrawn only while nothing speaks of its generation.
LEMMA WithdrawOnce ==
    ASSUME TypeOK, OnceInv, NEW q \in Requests, WithdrawRow(q)
    PROVE  OnceInv'
<1> DEFINE g == request[q].generation
<1>1. /\ rows' = [h \in DOMAIN rows \ {g} |-> rows[h]]
      /\ Owner(q) /\ Number(q) = g /\ Move(q, "done") /\ UNCHANGED <<exists, link, runtime>>
    BY DEF WithdrawRow, At, Owner, Number
<1>2. Unused(g)
    BY <1>1 DEF OnceInv, OwnersKeep
<1>3. DOMAIN rows' = DOMAIN rows \ {g} /\ \A h \in DOMAIN rows' : rows'[h] = rows[h]
    BY <1>1
<1>4. \A p \in Requests : p # q => request'[p] = request[p] /\ (Owner(p) => Number(p) # g)
    BY <1>1, MoveOwns DEF OnceInv, OwnersDiffer
<1>5. ~Owner(q)'
    BY <1>1, MoveOwns
<1>6. \A h : /\ (Travels(h)' <=> Travels(h)) /\ (Answered(h)' <=> Answered(h))
             /\ (CarriedOut(h)' <=> CarriedOut(h)) /\ (Unused(h)' <=> Unused(h))
    BY <1>1 DEF Travels, Answered, CarriedOut, Unused, link, runtime
<1> HIDE DEF g
<1>7. \A h, on : Told(h, on) => Told(h, on)'
    BY <1>1, <1>3 DEF Told, runtime
<1>8. \A p \in Requests : Owner(p)' => Owner(p) /\ p # q
    BY <1>4, <1>5 DEF Owner
<1>9. OwnersKeep'
    <2> SUFFICES ASSUME NEW p \in Requests, Owner(p)'
                 PROVE  /\ Unused(Number(p))'
                        /\ exists' => /\ Number(p)' \in DOMAIN rows'
                                      /\ rows'[Number(p)'].revision = request'[p].revision
        BY DEF OwnersKeep
    <2>1. PICK h : h = Number(p) /\ h = Number(p)' /\ h # g
        BY <1>4, <1>8 DEF Number
    <2>2. Unused(h)'
        BY <1>6, <1>8, <2>1 DEF OnceInv, OwnersKeep
    <2>3. Unused(Number(p))'
        BY <2>1, <2>2 DEF Unused, Travels, Answered, CarriedOut
    <2> QED BY <1>1, <1>3, <1>4, <1>8, <2>1, <2>3 DEF OnceInv, OwnersKeep
<1>10. OwnersDiffer'
    BY <1>4, <1>8 DEF OnceInv, OwnersDiffer, Number
<1>11. FreeUnused'
    BY <1>1, <1>2, <1>3, <1>6 DEF OnceInv, FreeUnused
<1>12. MessagesFit' /\ MessagesDiffer'
    <2>1. \A i \in 1..Len(down) : down[i] \in Deployments => down[i].generation # g
        BY <1>2 DEF Unused, Travels
    <2>2. \A m : m.generation # g /\ Fits(m) => Fits(m)'
        BY <1>1, <1>3, <1>6 DEF Fits
    <2> QED BY <1>1, <2>1, <2>2 DEF OnceInv, MessagesFit, MessagesDiffer, link
<1>13. ResultsTrue' /\ RowsTrue'
    BY <1>1, <1>3, <1>7 DEF OnceInv, ResultsTrue, RowsTrue, link
<1>14. UnlessDropped'
    <2>1. ASSUME drops' = 0, NEW h \in DOMAIN rows' PROVE Decided(h)'
        <3>1. Decided(h) /\ h # g
            BY <1>1, <1>3, <2>1 DEF OnceInv, UnlessDropped, link
        <3>2. \A p \in Requests : Owner(p) /\ Number(p) = h => Owner(p)' /\ Number(p)' = h
            BY <1>1, <1>4, <3>1 DEF Owner, Number
        <3> QED BY <1>3, <1>6, <3>1, <3>2 DEF Decided
    <2> QED BY <1>1, <2>1 DEF OnceInv, UnlessDropped, link
<1> QED
    BY <1>1, <1>3, <1>6, <1>9, <1>10, <1>11, <1>12, <1>13, <1>14
    DEF OnceInv, GoneWithFlow, PointerCarriedOut, runtime

LEMMA RemoveOnce ==
    ASSUME TypeOK, OnceInv, NEW q \in Requests, RemoveFlow(q)
    PROVE  OnceInv'
<1>1. /\ DOMAIN rows' = {} /\ ~exists' /\ Move(q, "done") /\ UNCHANGED <<link, runtime>>
      /\ request[q].stage = "remove"
    BY DEF RemoveFlow, At
<1>2. ~Owner(q)' /\ \A p \in Requests : p # q => request'[p] = request[p]
    BY <1>1, MoveOwns
<1>3. \A h : /\ (Answered(h)' <=> Answered(h)) /\ (CarriedOut(h)' <=> CarriedOut(h))
             /\ (Unused(h)' <=> Unused(h))
    BY <1>1 DEF Travels, Answered, CarriedOut, Unused, link, runtime
<1>4. \A h, on : Told(h, on) => Told(h, on)'
    BY <1>1 DEF Told, runtime
<1>5. OwnersKeep' /\ OwnersDiffer'
    <2>1. \A p \in Requests : Owner(p)' => Owner(p) /\ Number(p)' = Number(p)
        BY <1>2 DEF Owner, Number
    <2>2. ASSUME NEW p \in Requests, Owner(p)' PROVE Unused(Number(p))'
        <3>1. PICK h : h = Number(p) /\ h = Number(p)'
            BY <2>1, <2>2
        <3>2. Unused(h)'
            BY <1>3, <2>1, <2>2, <3>1 DEF OnceInv, OwnersKeep
        <3> QED BY <3>1, <3>2 DEF Unused, Travels, Answered, CarriedOut
    <2> QED BY <1>1, <2>1, <2>2 DEF OnceInv, OwnersKeep, OwnersDiffer
<1>6. MessagesFit' /\ MessagesDiffer'
    BY <1>1, <1>3 DEF OnceInv, MessagesFit, MessagesDiffer, Fits, link
<1> QED
    BY <1>1, <1>3, <1>4, <1>5, <1>6
    DEF OnceInv, GoneWithFlow, FreeUnused, ResultsTrue, RowsTrue, PointerCarriedOut,
        UnlessDropped, link, runtime

\* A result is shown as it is told.
LEMMA ResultOnce ==
    ASSUME TypeOK, OnceInv, NEW m \in results, HandleResult(m)
    PROVE  OnceInv'
<1> DEFINE g == m.generation
<1>1. /\ results' = results \ {m} /\ UNCHANGED <<exists, request, online, down, drops, runtime>>
      /\ rows' = IF g \in DOMAIN rows
                 THEN [rows EXCEPT ![g].status = ResultStatus(m.status)] ELSE rows
    BY DEF HandleResult
<1>2. /\ DOMAIN rows' = DOMAIN rows
      /\ \A h \in DOMAIN rows : rows'[h].revision = rows[h].revision
      /\ \A h \in DOMAIN rows : h # g => rows'[h] = rows[h]
      /\ g \in DOMAIN rows => rows'[g].status = ResultStatus(m.status)
    BY <1>1 DEF TypeOK
<1>3. \A h : /\ (Travels(h)' <=> Travels(h)) /\ (CarriedOut(h)' <=> CarriedOut(h))
             /\ (Answered(h)' => Answered(h)) /\ (Answered(h) /\ h # g => Answered(h)')
    BY <1>1 DEF Travels, Answered, CarriedOut, runtime
<1>4. \A h : Unused(h) => Unused(h)'
    BY <1>3 DEF Unused
<1>5. \A h, on : Told(h, on) <=> Told(h, on)'
    BY <1>1, <1>2 DEF Told, runtime
<1>6. OwnersKeep' /\ OwnersDiffer'
    <2>1. \A p \in Requests : /\ (Owner(p)' <=> Owner(p)) /\ Number(p)' = Number(p)
                              /\ request'[p] = request[p]
        BY <1>1 DEF Owner, Number
    <2>2. ASSUME NEW p \in Requests, Owner(p)'
          PROVE  /\ Unused(Number(p))'
                 /\ exists' => /\ Number(p)' \in DOMAIN rows'
                               /\ rows'[Number(p)'].revision = request'[p].revision
        <3>1. PICK h : h = Number(p) /\ h = Number(p)'
            BY <2>1
        <3>2. Unused(h)'
            BY <1>4, <2>1, <2>2, <3>1 DEF OnceInv, OwnersKeep
        <3>3. Unused(Number(p))'
            BY <3>1, <3>2 DEF Unused, Travels, Answered, CarriedOut
        <3> QED BY <1>1, <1>2, <2>1, <2>2, <3>1, <3>3 DEF OnceInv, OwnersKeep
    <2> QED BY <2>1, <2>2 DEF OnceInv, OwnersKeep, OwnersDiffer
<1>7. FreeUnused'
    BY <1>1, <1>2, <1>4 DEF OnceInv, FreeUnused
<1>8. MessagesFit' /\ MessagesDiffer'
    BY <1>1, <1>2, <1>3 DEF OnceInv, MessagesFit, MessagesDiffer, Fits
<1>9. ResultsTrue'
    BY <1>1, <1>5 DEF OnceInv, ResultsTrue
<1>10. RowsTrue'
    <2>1. ASSUME NEW h \in DOMAIN rows'
          PROVE  /\ rows'[h].status = "active" => Told(h, TRUE)
                 /\ rows'[h].status = "inactive" => Told(h, FALSE)
        <3>1. CASE h = g
            BY <1>2, <3>1 DEF OnceInv, ResultsTrue, ResultStatus
        <3>2. CASE h # g
            BY <1>2, <3>2 DEF OnceInv, RowsTrue
        <3> QED BY <3>1, <3>2
    <2> QED BY <1>5, <2>1 DEF RowsTrue
<1>11. UnlessDropped'
    <2>1. ASSUME drops' = 0, NEW h \in DOMAIN rows' PROVE Decided(h)'
        <3>1. Decided(h)
            BY <1>1, <1>2, <2>1 DEF OnceInv, UnlessDropped
        <3>2. CASE h = g
            BY <1>2, <3>2 DEF Decided, ResultStatus
        <3>3. CASE h # g
            BY <1>1, <1>2, <1>3, <3>1, <3>3 DEF Decided, Owner, Number
        <3> QED BY <3>2, <3>3
    <2> QED BY <1>1, <2>1 DEF OnceInv, UnlessDropped
<1> QED
    BY <1>1, <1>2, <1>3, <1>6, <1>7, <1>8, <1>9, <1>10, <1>11
    DEF OnceInv, GoneWithFlow, PointerCarriedOut, runtime

LEMMA StartsApart == \A m \in Starts : m \notin Deployments
<1>1. \A m \in Starts : DOMAIN m = {"revision"}
    BY DEF Starts
<1>2. \A m \in Deployments : "generation" \in DOMAIN m
    BY DEF Deployments
<1> QED BY <1>1, <1>2

\* The message that is received is no longer on its way, and none like it is.
LEMMA ReceiveOnce ==
    ASSUME TypeOK, OnceInv, NEW m, Receive(m)
    PROVE  /\ \A h : Travels(h)' => Travels(h)
           /\ \A h : Travels(h) => Travels(h)' \/ (m \in Deployments /\ h = m.generation)
           /\ m \in Deployments => /\ Fits(m) /\ Travels(m.generation)
                                   /\ \A i \in 1..Len(down') :
                                        down'[i] \in Deployments => down'[i].generation # m.generation
           /\ \A i \in 1..Len(down') : \E j \in 1..Len(down) : down'[i] = down[j]
           /\ MessagesDiffer'
<1>1. /\ down \in Seq(Deployments \cup Starts) /\ down # <<>> /\ down' = Tail(down)
      /\ m = Head(down)
    BY DEF Receive, TypeOK
<1>d. MessagesDiffer /\ MessagesFit
    BY DEF OnceInv
<1>2. /\ down[1] = m /\ 1 \in 1..Len(down)
      /\ \A i \in 1..Len(down') : i + 1 \in 1..Len(down) /\ down'[i] = down[i + 1] /\ i + 1 # 1
      /\ \A i \in 1..Len(down) : i # 1 => i - 1 \in 1..Len(down') /\ down'[i - 1] = down[i]
    BY <1>1
<1>3. \A h : Travels(h)' => Travels(h)
    BY <1>2 DEF Travels
<1>4. ASSUME NEW h, Travels(h) PROVE Travels(h)' \/ (m \in Deployments /\ h = m.generation)
    <2>1. PICK i \in 1..Len(down) : down[i] \in Deployments /\ down[i].generation = h
        BY <1>4 DEF Travels
    <2>2. CASE i = 1
        BY <1>2, <2>1, <2>2
    <2>3. CASE i # 1
        BY <1>2, <2>1, <2>3 DEF Travels
    <2> QED BY <2>2, <2>3
<1>5. ASSUME m \in Deployments
      PROVE  /\ Fits(m) /\ Travels(m.generation)
             /\ \A i \in 1..Len(down') :
                  down'[i] \in Deployments => down'[i].generation # m.generation
    <2>1. Fits(m)
        BY <1>2, <1>5, <1>d DEF MessagesFit
    <2>2. Travels(m.generation)
        BY <1>2, <1>5 DEF Travels
    <2>3. ASSUME NEW i \in 1..Len(down'), down'[i] \in Deployments
          PROVE  down'[i].generation # m.generation
        <3>1. PICK k \in 1..Len(down) : down[k] = down'[i] /\ k # 1
            BY <1>2
        <3>2. down[k].generation = down[1].generation => k = 1
            BY <1>2, <1>5, <1>d, <2>3, <3>1 DEF MessagesDiffer
        <3> QED BY <1>2, <3>1, <3>2
    <2> QED BY <2>1, <2>2, <2>3
<1>6. MessagesDiffer'
    <2> SUFFICES ASSUME NEW i \in 1..Len(down'), NEW j \in 1..Len(down'),
                        down'[i] \in Deployments, down'[j] \in Deployments,
                        down'[i].generation = down'[j].generation
                 PROVE  i = j
        BY DEF MessagesDiffer
    <2>1. PICK k \in 1..Len(down) : k = i + 1 /\ down[k] = down'[i]
        BY <1>2
    <2>2. PICK l \in 1..Len(down) : l = j + 1 /\ down[l] = down'[j]
        BY <1>2
    <2>3. k = l
        BY <1>d, <2>1, <2>2 DEF MessagesDiffer
    <2> QED BY <2>1, <2>2, <2>3
<1> QED BY <1>2, <1>3, <1>4, <1>5, <1>6

\* A deployment is answered: its generation passes from the message to the result.
LEMMA ReplyOnce ==
    ASSUME TypeOK, OnceInv, NEW m \in Deployments, NEW status, Receive(m), Reply(m, status),
           UNCHANGED <<cloud, drops, online>>, accepted' \subseteq accepted \cup {m},
           \A h \in Nat, on \in BOOLEAN : Told(h, on) => Told(h, on)',
           status = "active" => Told(m.generation, TRUE)',
           status = "inactive" => Told(m.generation, FALSE)',
           PointerCarriedOut'
    PROVE  OnceInv'
<1> DEFINE g == m.generation
<1>1. /\ \A h : Travels(h)' => Travels(h)
      /\ \A h : Travels(h) => Travels(h)' \/ h = g
      /\ Fits(m) /\ Travels(g)
      /\ \A i \in 1..Len(down') : down'[i] \in Deployments => down'[i].generation # g
      /\ \A i \in 1..Len(down') : \E j \in 1..Len(down) : down'[i] = down[j]
      /\ MessagesDiffer'
    BY ReceiveOnce
<1>2. results' = results \cup {[generation |-> g, status |-> status]}
    BY DEF Reply
<1>3. \A h : /\ Answered(h)' <=> (Answered(h) \/ h = g)
             /\ CarriedOut(h)' => (CarriedOut(h) \/ h = g)
    <2>1. \A h : Answered(h)' <=> (Answered(h) \/ h = g)
        <3>0. [generation |-> g, status |-> status].generation = g
            OBVIOUS
        <3>1. PICK x : x = [generation |-> g, status |-> status] /\ x.generation = g
            BY <3>0, Zenon
        <3>2. results' = results \cup {x}
            BY <1>2, <3>1
        <3> HIDE DEF g
        <3> QED BY <3>1, <3>2 DEF Answered
    <2>2. \A h : CarriedOut(h)' => (CarriedOut(h) \/ h = g)
        BY DEF CarriedOut
    <2> QED BY <2>1, <2>2
<1>4. ~Unused(g)
    BY <1>1 DEF Unused
<1>5. \A h : h # g /\ Unused(h) => Unused(h)'
    BY <1>1, <1>3 DEF Unused
<1> HIDE DEF g
<1>6. UNCHANGED <<exists, rows, request>> /\ \A h \in DOMAIN rows : h \in Nat
    BY DEF cloud, TypeOK, Generations
<1>7. OwnersKeep' /\ OwnersDiffer'
    <2>1. \A p \in Requests : (Owner(p)' <=> Owner(p)) /\ Number(p)' = Number(p)
        BY <1>6 DEF Owner, Number
    <2>2. ASSUME NEW p \in Requests, Owner(p)' PROVE Unused(Number(p))'
        <3>1. PICK h : h = Number(p) /\ h = Number(p)'
            BY <2>1
        <3>2. Unused(h) /\ h # g
            BY <1>4, <2>1, <2>2, <3>1 DEF OnceInv, OwnersKeep
        <3>3. Unused(h)'
            BY <1>5, <3>2
        <3> QED BY <3>1, <3>3 DEF Unused, Travels, Answered, CarriedOut
    <2> QED BY <1>6, <2>1, <2>2 DEF OnceInv, OwnersKeep, OwnersDiffer
<1>8. FreeUnused'
    BY <1>4, <1>5, <1>6 DEF OnceInv, FreeUnused
<1>9. MessagesFit'
    <2>1. \A d : Fits(d) /\ d.generation # g => Fits(d)'
        BY <1>3, <1>6 DEF Fits
    <2> QED BY <1>1, <2>1 DEF OnceInv, MessagesFit
<1>10. ResultsTrue'
    <2> SUFFICES ASSUME NEW x \in results'
                 PROVE  /\ x.status = "active" => Told(x.generation, TRUE)'
                        /\ x.status = "inactive" => Told(x.generation, FALSE)'
        BY DEF ResultsTrue, Told
    <2>1. CASE x \in results
        <3>1. x.generation \in Nat
            BY <2>1 DEF TypeOK, Results, Generations
        <3> QED BY <2>1, <3>1 DEF OnceInv, ResultsTrue
    <2>2. CASE x = [generation |-> g, status |-> status]
        BY <2>2 DEF g
    <2> QED BY <1>2, <2>1, <2>2
<1>11. RowsTrue'
    BY <1>6 DEF OnceInv, RowsTrue
<1>12. UnlessDropped'
    <2>1. ASSUME NEW h, Decided(h) PROVE Decided(h)'
        BY <1>1, <1>3, <1>6, <2>1 DEF Decided, Owner, Number
    <2> QED BY <1>6, <2>1 DEF OnceInv, UnlessDropped
<1> QED
    BY <1>1, <1>6, <1>7, <1>8, <1>9, <1>10, <1>11, <1>12 DEF OnceInv, GoneWithFlow

\* What is carried out is ahead of all that was.
LEMMA Ahead ==
    ASSUME TypeOK, OnceInv, NEW m \in Deployments, Receive(m), ~Ignored(m)
    PROVE  pointer.known => pointer.generation < m.generation
<1>1. ~CarriedOut(m.generation)
    BY ReceiveOnce DEF Fits
<1>2. pointer.known => pointer.generation <= m.generation /\ pointer.generation # m.generation
    BY <1>1 DEF Ignored, TypeOK, Pointers, Deployments, Generations, OnceInv, PointerCarriedOut
<1> QED BY <1>2 DEF TypeOK, Pointers, Deployments, Generations

LEMMA AnswerOnce ==
    ASSUME TypeOK, KnownInv, OnceInv, NEW m,
           IgnoreDeployment(m) \/ RefuseDeployment(m) \/ TurnOff(m) \/ Activate(m)
    PROVE  OnceInv'
<1>1. m \in Deployments /\ Receive(m) /\ UNCHANGED <<cloud, online, drops>>
    BY DEF IgnoreDeployment, RefuseDeployment, TurnOff, Activate, IsDeployment
<1>2. m.generation \in Nat /\ \A h \in DOMAIN rows : h \in Nat
    BY <1>1 DEF Deployments, Generations, TypeOK
<1>3. CASE IgnoreDeployment(m) \/ RefuseDeployment(m)
    <2>1. UNCHANGED <<pointer, accepted>> /\ \E status \in {"ignored", "failed"} : Reply(m, status)
        BY <1>3 DEF IgnoreDeployment, RefuseDeployment, runtime
    <2>2. \A h, on : Told(h, on) => Told(h, on)'
        BY <1>1, <2>1 DEF Told, cloud
    <2>3. PointerCarriedOut'
        BY <2>1 DEF OnceInv, PointerCarriedOut, CarriedOut
    <2> QED BY <1>1, <2>1, <2>2, <2>3, ReplyOnce
<1>4. CASE TurnOff(m)
    <2>1. ~Ignored(m) /\ m.off /\ accepted' = accepted \cup {m} /\ Reply(m, "inactive")
        BY <1>4 DEF TurnOff
    <2>2. pointer.known
        <3>1. down \in Seq(Deployments \cup Starts) /\ 1 \in 1..Len(down) /\ down[1] = m
            BY <1>1 DEF Receive, TypeOK
        <3> QED BY <1>1, <2>1, <3>1 DEF KnownInv, DownKnown
    <2>3. pointer.generation < m.generation
        BY <1>1, <2>1, <2>2, Ahead
    <2>4. pointer'.known /\ ~pointer'.active /\ pointer'.generation = m.generation
          /\ pointer'.active \in BOOLEAN
        BY <1>4, <2>2 DEF TurnOff, Deactivated, TypeOK, Pointers
    <2>5. ASSUME NEW h \in Nat, NEW on \in BOOLEAN, Told(h, on) PROVE Told(h, on)'
        <3>1. h <= pointer.generation
            BY <2>5 DEF Told
        <3> QED BY <1>2, <2>3, <2>4, <3>1 DEF Told, TypeOK, Pointers
    <2>6. Told(m.generation, FALSE)'
        BY <1>2, <2>4 DEF Told
    <2>7. PointerCarriedOut'
        BY <2>1, <2>4 DEF PointerCarriedOut, CarriedOut
    <2> QED BY <1>1, <2>1, <2>5, <2>6, <2>7, ReplyOnce
<1>5. CASE Activate(m)
    <2>1. ~Ignored(m) /\ accepted' = accepted \cup {m} /\ Reply(m, "active")
        BY <1>5 DEF Activate
    <2>2. pointer.known => pointer.generation < m.generation
        BY <1>1, <2>1, Ahead
    <2>3. /\ pointer'.known /\ pointer'.active = TRUE /\ pointer'.generation = m.generation
          /\ pointer'.revision = m.revision
        BY <1>5 DEF Activate, Activated
    <2>4. ASSUME NEW h \in Nat, NEW on \in BOOLEAN, Told(h, on) PROVE Told(h, on)'
        <3>1. pointer.known /\ h <= pointer.generation
            BY <2>4 DEF Told
        <3> QED BY <1>2, <2>2, <2>3, <3>1 DEF Told, TypeOK, Pointers
    <2>5. m.generation \in DOMAIN rows => rows[m.generation].revision = m.revision
        BY <1>1, ReceiveOnce DEF Fits
    <2>6. Told(m.generation, TRUE)'
        BY <1>1, <1>2, <2>3, <2>5 DEF Told, cloud
    <2>7. PointerCarriedOut'
        BY <2>1, <2>3 DEF PointerCarriedOut, CarriedOut
    <2> QED BY <1>1, <2>1, <2>4, <2>6, <2>7, ReplyOnce
<1> QED BY <1>3, <1>4, <1>5

LEMMA OnceStep == TypeOK /\ Numbered /\ KnownInv /\ OnceInv /\ [Next]_vars => OnceInv'
<1> SUFFICES ASSUME TypeOK, Numbered, KnownInv, OnceInv, [Next]_vars PROVE OnceInv'
    OBVIOUS
<1>1. ASSUME NEW q \in Requests, MakeRequest(q) \/ Continue(q) PROVE OnceInv'
    BY <1>1, RequestOnce, InsertOnce, SendOnce, WithdrawOnce, RemoveOnce DEF Continue
<1>2. CASE ResultArrives
    BY <1>2, ResultOnce DEF ResultArrives
<1>3. ASSUME NEW m, IgnoreDeployment(m) \/ RefuseDeployment(m) \/ TurnOff(m) \/ Activate(m)
      PROVE  OnceInv'
    BY <1>3, AnswerOnce
<1>4. ASSUME UNCHANGED <<exists, rows, request, online, results, drops, pointer, accepted>>,
             \A h : Travels(h)' <=> Travels(h), MessagesFit', MessagesDiffer'
      PROVE  OnceInv'
    <2>1. /\ \A h : /\ (Answered(h)' <=> Answered(h)) /\ (CarriedOut(h)' <=> CarriedOut(h))
                    /\ (Unused(h)' <=> Unused(h))
        BY <1>4 DEF Answered, CarriedOut, Unused
    <2>2. \A h, on : Told(h, on)' <=> Told(h, on)
        BY <1>4 DEF Told
    <2>3. OwnersKeep' /\ OwnersDiffer'
        BY <1>4, <2>1 DEF OnceInv, OwnersKeep, OwnersDiffer, Owner, Number
    <2>4. UnlessDropped'
        BY <1>4, <2>1 DEF OnceInv, UnlessDropped, Decided, Owner, Number
    <2> QED
        BY <1>4, <2>1, <2>2, <2>3, <2>4
        DEF OnceInv, GoneWithFlow, FreeUnused, ResultsTrue, RowsTrue, PointerCarriedOut
<1>5. ASSUME NEW r \in Revisions, StartLiveRun(r) PROVE OnceInv'
    <2>1. /\ down' = Append(down, [revision |-> r]) /\ [revision |-> r] \in Starts
          /\ UNCHANGED <<exists, rows, request, online, results, drops, pointer, accepted>>
        BY <1>5 DEF StartLiveRun, Starts, cloud, runtime
    <2>2. [revision |-> r] \notin Deployments
        BY <2>1, StartsApart
    <2>3. PICK x : x = [revision |-> r]
        OBVIOUS
    <2>4. /\ Len(down') = Len(down) + 1 /\ down'[Len(down) + 1] = x /\ Len(down) \in Nat
          /\ \A i \in 1..Len(down) : down'[i] = down[i]
        BY <2>1, <2>3 DEF TypeOK
    <2>5. /\ \A i \in 1..Len(down') : i \in 1..Len(down) \/ i = Len(down) + 1
          /\ \A i \in 1..Len(down) : i \in 1..Len(down')
        BY <2>4
    <2>6. \A i \in 1..Len(down') : down'[i] \in Deployments => i \in 1..Len(down) /\ down'[i] = down[i]
        BY <2>2, <2>3, <2>4, <2>5
    <2>7. \A h : Travels(h)' <=> Travels(h)
        BY <2>4, <2>5, <2>6 DEF Travels
    <2>8. MessagesFit' /\ MessagesDiffer'
        BY <2>1, <2>6 DEF OnceInv, MessagesFit, MessagesDiffer, Fits, Answered, CarriedOut
    <2> QED BY <1>4, <2>1, <2>7, <2>8
<1>6. ASSUME NEW m, StartFromCloud(m) PROVE OnceInv'
    <2>1. /\ Receive(m) /\ m \in Starts
          /\ UNCHANGED <<exists, rows, request, online, results, drops, pointer, accepted>>
        BY <1>6 DEF StartFromCloud, cloud, runtime
    <2>2. /\ \A h : Travels(h)' <=> Travels(h)
          /\ \A i \in 1..Len(down') : \E j \in 1..Len(down) : down'[i] = down[j]
          /\ MessagesDiffer'
        BY <2>1, ReceiveOnce, StartsApart
    <2>3. MessagesFit'
        BY <2>1, <2>2 DEF OnceInv, MessagesFit, Fits, Answered, CarriedOut
    <2> QED BY <1>4, <2>1, <2>2, <2>3
<1>7. CASE FireTrigger \/ UpdateState \/ EndRun \/ StartQueued \/ UNCHANGED vars
    <2>1. UNCHANGED <<cloud, link, runtime>>
        BY <1>7 DEF FireTrigger, UpdateState, EndRun, StartQueued, vars
    <2> QED BY <2>1, SameOwners DEF cloud, Owner
<1>8. CASE Reconnect \/ Disconnect
    <2>1. /\ UNCHANGED <<exists, rows, request, pointer, accepted>> /\ results' \subseteq results
          /\ \A h : Travels(h)' => Travels(h)
          /\ \A i \in 1..Len(down') : i \in 1..Len(down) /\ down'[i] = down[i]
        <3>1. CASE Reconnect
            BY <3>1 DEF Reconnect, Travels, cloud, runtime
        <3>2. CASE Disconnect
            BY <3>2 DEF Disconnect, Travels, cloud, runtime
        <3> QED BY <1>8, <3>1, <3>2
    <2>2. \A h : /\ Answered(h)' => Answered(h)
                 /\ (CarriedOut(h)' <=> CarriedOut(h)) /\ (Unused(h) => Unused(h)')
        BY <2>1 DEF Answered, CarriedOut, Unused
    <2>3. \A h, on : Told(h, on)' <=> Told(h, on)
        BY <2>1 DEF Told
    <2>4. OwnersKeep' /\ OwnersDiffer'
        BY <2>1, <2>2 DEF OnceInv, OwnersKeep, OwnersDiffer, Owner, Number
    <2>5. MessagesFit' /\ MessagesDiffer'
        BY <2>1, <2>2 DEF OnceInv, MessagesFit, MessagesDiffer, Fits
    <2>6. UnlessDropped'
        <3>1. CASE Reconnect
            <4>1. online' = TRUE /\ UNCHANGED <<drops, down, results>>
                BY <3>1 DEF Reconnect
            <4>2. \A h : Answered(h)' <=> Answered(h)
                BY <4>1 DEF Answered
            <4>3. \A h : Travels(h)' <=> Travels(h)
                BY <4>1 DEF Travels
            <4> QED BY <2>1, <4>1, <4>2, <4>3 DEF OnceInv, UnlessDropped, Decided, Owner, Number
        <3>2. CASE Disconnect
            <4>1. drops' # 0
                BY <3>2, DeploymentAssumption DEF Disconnect, TypeOK
            <4> QED BY <4>1 DEF UnlessDropped
        <3> QED BY <1>8, <3>1, <3>2
    <2> QED
        BY <2>1, <2>2, <2>3, <2>4, <2>5, <2>6
        DEF OnceInv, GoneWithFlow, FreeUnused, ResultsTrue, RowsTrue, PointerCarriedOut
<1> QED
    BY <1>1, <1>2, <1>3, <1>5, <1>6, <1>7, <1>8 DEF Next, HandleMessage

IInv == TypeOK /\ Numbered /\ StateInv /\ KnownInv /\ NewestInv /\ OnceInv

LEMMA Invariant == Spec => []IInv
<1>1. Init => IInv
    BY InitType, InitNumbered, InitState, InitKnown, InitOnce DEF IInv
<1>2. IInv /\ [Next]_vars => IInv'
    BY TypeStep, StateStep, KnownStep, NewestStep, OnceStep DEF IInv
<1> QED BY <1>1, <1>2, PTL DEF Spec

\* The cloud's rows, the messages under way and the runtime's tables are typed.
THEOREM TypeCorrect == Spec => []TypeOK
<1>1. IInv => TypeOK
    BY DEF IInv
<1> QED BY <1>1, Invariant, PTL

\* Analysis state is neither lost nor mixed: under a revision and an epoch stands
\* what the runs that began in them have stored, however the flow is redeployed,
\* turned off or deleted while they run (loadNodeStates, applyStateUpdate).
THEOREM StateIsWhole == Spec => []StatesAreWhole
<1>1. IInv => StatesAreWhole
    BY DEF IInv, TypeOK, StateInv, StatesAreWhole, Writers, Writes
<1> QED BY <1>1, Invariant, PTL

\* In whatever order deployments and deactivations arrive, the flow is as the
\* newest of those that were carried out left it (activateArtifact).
THEOREM NewestDeploymentWins == Spec => []NewestWins
<1>1. IInv => NewestWins
    <2> SUFFICES ASSUME IInv, accepted # {}
                 PROVE  \E m \in accepted : /\ pointer.known /\ Matches(m)
                                            /\ \A other \in accepted :
                                                   other.generation <= m.generation
        BY DEF NewestWins
    <2>1. PICK m \in accepted : Matches(m)
        BY DEF IInv, NewestInv
    <2>2. pointer.known /\ \A other \in accepted : other.generation <= pointer.generation
        BY DEF IInv, NewestInv
    <2> QED BY <2>1, <2>2 DEF Matches
<1> QED BY <1>1, Invariant, PTL

\* At home the newest deployment stands, and the state of each revision and epoch.
THEOREM HomeKept == Spec => []HomeIsRight
<1>1. NewestWins /\ StatesAreWhole => HomeIsRight
    BY DEF HomeIsRight
<1> QED BY <1>1, NewestDeploymentWins, StateIsWhole, PTL

\* What the cloud shows of a deployment is what it did at home, in whatever
\* order requests, messages, results and lost connections come; and while no
\* connection was lost none is left undecided (inbound.ts, deploy-revision.ts).
THEOREM ShownRight == Spec => []CloudIsRight
<1>1. IInv => ShownIsTrue
    BY DEF IInv, OnceInv, RowsTrue, Told, ShownIsTrue
<1>2. IInv => AllDecided
    <2> SUFFICES ASSUME IInv, Quiet, drops = 0, NEW g \in DOMAIN rows, rows[g].status = "requested"
                 PROVE  FALSE
        BY DEF AllDecided
    <2>1. Decided(g)
        BY DEF IInv, OnceInv, UnlessDropped
    <2>2. \A q \in Requests : ~Owner(q)
        BY DEF Quiet, Owner
    <2>3. ~Travels(g) /\ ~Answered(g)
        BY DEF Quiet, Travels, Answered
    <2> QED BY <2>1, <2>2, <2>3 DEF Decided
<1>3. IInv => CloudIsRight
    BY <1>1, <1>2 DEF CloudIsRight
<1> QED BY <1>3, Invariant, PTL
-----------------------------------------------------------------------------
(***************************************************************************)
(* The refinement of DeployedFlow.  A deployment that is carried out       *)
(* adopts a setting, a run that begins, stores its state and ends is the   *)
(* holder that begins, adds itself and ends; all other steps are none.     *)
(***************************************************************************)
Setting == [generation |-> pointer.generation, on |-> pointer.active,
            revision |-> pointer.revision, epoch |-> CurrentEpoch]
Holders == {[id |-> h.id, revision |-> h.revision, epoch |-> h.epoch, added |-> h.updated] :
               h \in {run} \ {NoRun}}
Entry(i, row) == [run |-> i, revision |-> row.revision, epoch |-> row.epoch]
Memory == UNION {{Entry(i, row) : i \in row.seen} : row \in state}

\* A flow the runtime knows nothing of is as it was in the beginning.
UnknownInv == ~pointer.known => pointer.generation = 0

LEMMA UnknownStep == ASSUME TypeOK, UnknownInv, [Next]_vars PROVE UnknownInv'
<1>1. CASE UNCHANGED pointer
    BY <1>1 DEF UnknownInv
<1>2. ASSUME NEW m, TurnOff(m), pointer.known PROVE UnknownInv'
    <2>1. PICK off : off = FALSE
        OBVIOUS
    <2>2. pointer' = [pointer EXCEPT !.active = off, !.generation = m.generation]
        BY <1>2, <2>1 DEF TurnOff, Deactivated
    <2>3. pointer'.known = pointer.known
        BY <2>2 DEF TypeOK, Pointers
    <2> QED BY <1>2, <2>3 DEF UnknownInv
<1>3. ASSUME NEW m, TurnOff(m), ~pointer.known PROVE UnknownInv'
    BY <1>1, <1>3 DEF TurnOff, Deactivated
<1>4. ASSUME NEW m, Activate(m) PROVE UnknownInv'
    <2>1. pointer'.known = TRUE
        BY <1>4 DEF Activate, Activated
    <2> QED BY <2>1 DEF UnknownInv
<1> QED BY <1>1, <1>2, <1>3, <1>4
    DEF Next, MakeRequest, Deploy, Deactivate, Delete, Continue, ReadMax, InsertDeployment,
        SendDesired, WithdrawRow, RemoveFlow, ResultArrives, HandleResult, StartLiveRun,
        HandleMessage, IgnoreDeployment, RefuseDeployment, StartFromCloud, FireTrigger,
        UpdateState, EndRun, StartQueued, Disconnect, Reconnect, vars, runtime

\* The steps of Flow in terms of its mapped variables.
LEMMA AdoptIs ==
    ASSUME Setting' \in Flow!Settings, Setting'.generation > Setting.generation,
           \/ /\ Setting'.on
              /\ Setting.on /\ Setting'.epoch = Setting.epoch =>
                    Setting'.revision = Setting.revision
           \/ ~Setting'.on /\ Setting'.revision = Setting.revision /\ Setting'.epoch = 1,
           UNCHANGED <<Holders, started, Memory>>
    PROVE  Flow!Next
BY DEF Setting, Holders, Memory, Entry, Flow!Next, Flow!Adopt, Flow!TurnOn, Flow!TurnOff,
       Flow!Settings, Flow!Epochs

LEMMA BeginIs ==
    ASSUME NEW r \in Revisions, Holders = {}, started' = started + 1,
           Holders' = {[id |-> started', revision |-> r, epoch |-> Setting.epoch,
                        added |-> FALSE]},
           UNCHANGED <<Setting, Memory>>
    PROVE  Flow!Next
BY DEF Setting, Holders, Memory, Entry, Flow!Next, Flow!Begin

LEMMA AddIs ==
    ASSUME NEW h \in Holders, ~h.added, Holders' = {[h EXCEPT !.added = TRUE]},
           Memory' = Memory \cup {[run |-> h.id, revision |-> h.revision, epoch |-> h.epoch]},
           UNCHANGED <<Setting, started>>
    PROVE  Flow!Next
BY DEF Setting, Holders, Memory, Entry, Flow!Next, Flow!Add

LEMMA EndIs ==
    ASSUME Holders # {}, Holders' = {}, UNCHANGED <<Setting, started, Memory>>
    PROVE  Flow!Next
BY DEF Setting, Holders, Memory, Entry, Flow!Next, Flow!End

\* What is mapped depends on five variables.
LEMMA FlowSame ==
    /\ UNCHANGED pointer => UNCHANGED Setting
    /\ UNCHANGED run => UNCHANGED Holders
    /\ UNCHANGED state => UNCHANGED Memory
BY DEF Setting, CurrentEpoch, Holders, Memory, Entry

LEMMA HoldersAre ==
    /\ run = NoRun => Holders = {}
    /\ run # NoRun => Holders = {[id |-> run.id, revision |-> run.revision, epoch |-> run.epoch,
                                  added |-> run.updated]}
BY DEF Holders

LEMMA BeginRefined ==
    ASSUME TypeOK, NEW r \in Revisions, Begin(r), UNCHANGED <<pointer, state>>
    PROVE  Flow!Next
<1>1. /\ run = NoRun /\ started' = started + 1
      /\ run' = [id |-> started + 1, revision |-> r, epoch |-> CurrentEpoch,
                 read |-> Remembered(r, CurrentEpoch), updated |-> FALSE]
    BY DEF Begin
<1>2. run' \in RunRecords
    BY BeginType
<1>3. run' # NoRun
    BY <1>2, NoRunAssumption
<1>4. Holders = {}
    BY <1>1, HoldersAre
<1>5. Holders' = {[id |-> run'.id, revision |-> run'.revision, epoch |-> run'.epoch,
                   added |-> run'.updated]}
    BY <1>3 DEF Holders
<1>6. /\ run'.id = started' /\ run'.revision = r /\ run'.epoch = Setting.epoch
      /\ run'.updated = FALSE
    BY <1>1 DEF Setting
<1>7. Holders' = {[id |-> started', revision |-> r, epoch |-> Setting.epoch, added |-> FALSE]}
    BY <1>5, <1>6
<1> QED BY <1>1, <1>4, <1>7, FlowSame, BeginIs

LEMMA AcceptRefined ==
    ASSUME TypeOK, NEW r \in Revisions, Accept(r), UNCHANGED pointer
    PROVE  Flow!Next \/ UNCHANGED <<Setting, Holders, started, Memory>>
<1>1. CASE Begin(r)
    BY <1>1, BeginRefined DEF Accept
<1>2. CASE UNCHANGED <<run, started>>
    BY <1>2, FlowSame DEF Accept
<1> QED BY <1>1, <1>2 DEF Accept

LEMMA AdoptRefined ==
    ASSUME TypeOK, TypeOK', Numbered, KnownInv, OnceInv, UnknownInv, NEW m, TurnOff(m) \/ Activate(m)
    PROVE  Flow!Next
<1>1. m \in Deployments /\ Receive(m) /\ ~Ignored(m) /\ UNCHANGED runs
    BY DEF TurnOff, Activate, IsDeployment
<1>2. UNCHANGED <<Holders, started, Memory>>
    BY <1>1, FlowSame DEF runs
<1>3. Setting' \in Flow!Settings
    BY EpochType DEF TypeOK, Pointers, Setting, Flow!Settings, Flow!Epochs, Epochs, CurrentEpoch
<1>4. pointer.generation < m.generation
    <2>1. CASE pointer.known
        BY <1>1, <2>1, Ahead
    <2>2. CASE ~pointer.known
        BY <1>1, <2>2 DEF UnknownInv, Deployments, Generations
    <2> QED BY <2>1, <2>2
<1>5. CASE Activate(m)
    <2>1. pointer' = [known |-> TRUE, active |-> TRUE, revision |-> m.revision,
                      generation |-> m.generation, epoch |-> ResolveEpoch(m)]
        BY <1>5 DEF Activate, Activated
    <2>2. /\ Setting'.on = TRUE /\ Setting'.generation = m.generation
          /\ Setting'.revision = m.revision /\ Setting'.epoch = ResolveEpoch(m)
        BY <2>1 DEF Setting, CurrentEpoch
    <2>3. Setting.on /\ ResolveEpoch(m) = Setting.epoch => m.revision = Setting.revision
        BY DEF Setting, CurrentEpoch, ResolveEpoch, NextEpoch, TypeOK, Pointers, Epochs
    <2>4. Setting'.generation > Setting.generation
        BY <1>1, <1>4, <2>2 DEF Setting, TypeOK, Pointers, Deployments, Generations
    <2> QED BY <1>2, <1>3, <2>2, <2>3, <2>4, AdoptIs
<1>6. CASE TurnOff(m)
    <2>1. pointer.known
        <3>1. 1 \in 1..Len(down) /\ down[1] = m
            BY <1>1 DEF Receive, TypeOK
        <3> QED BY <1>1, <1>6, <3>1 DEF KnownInv, DownKnown, TurnOff
    <2>2. pointer' = [pointer EXCEPT !.active = FALSE, !.generation = m.generation]
        BY <1>6, <2>1 DEF TurnOff, Deactivated
    <2>3. /\ pointer'.active = FALSE /\ pointer'.generation = m.generation
          /\ pointer'.revision = pointer.revision
        BY <2>2 DEF TypeOK, Pointers
    <2>4. /\ Setting'.on = FALSE /\ Setting'.generation = m.generation
          /\ Setting'.revision = Setting.revision /\ Setting'.epoch = 1
        BY <2>3 DEF Setting, CurrentEpoch
    <2>5. Setting'.generation > Setting.generation
        BY <1>1, <1>4, <2>4 DEF Setting, TypeOK, Pointers, Deployments, Generations
    <2> QED BY <1>2, <1>3, <2>4, <2>5, AdoptIs
<1> QED BY <1>5, <1>6

\* A row that replaces what was remembered, with what was and one more.
LEMMA MemoryGrows ==
    ASSUME NEW r, NEW e, NEW i, NEW new, new.revision = r, new.epoch = e,
           new.seen = Remembered(r, e) \cup {i},
           state' = (state \ RowsOf(r, e)) \cup {new}
    PROVE  Memory' = Memory \cup {[run |-> i, revision |-> r, epoch |-> e]}
<1>1. ASSUME NEW x \in Memory' PROVE x \in Memory \cup {[run |-> i, revision |-> r, epoch |-> e]}
    <2>1. PICK row \in state' : \E j \in row.seen : x = Entry(j, row)
        BY <1>1 DEF Memory
    <2>2. PICK j \in row.seen : x = Entry(j, row)
        BY <2>1
    <2>3. CASE row \in state
        BY <2>2, <2>3 DEF Memory
    <2>4. CASE row = new
        <3>1. x = [run |-> j, revision |-> r, epoch |-> e]
            BY <2>2, <2>4 DEF Entry
        <3>2. CASE j \in Remembered(r, e)
            <4>1. PICK old \in RowsOf(r, e) : j \in old.seen
                BY <3>2 DEF Remembered
            <4>2. old \in state /\ x = Entry(j, old)
                BY <3>1, <4>1 DEF RowsOf, Entry
            <4> QED BY <4>1, <4>2 DEF Memory
        <3>3. CASE j = i
            BY <3>1, <3>3
        <3> QED BY <2>2, <2>4, <3>2, <3>3
    <2> QED BY <2>3, <2>4
<1>2. new \in state'
    OBVIOUS
<1>3. ASSUME NEW x \in Memory PROVE x \in Memory'
    <2>1. PICK row \in state : \E j \in row.seen : x = Entry(j, row)
        BY <1>3 DEF Memory
    <2>2. PICK j \in row.seen : x = Entry(j, row)
        BY <2>1
    <2>3. CASE row \in RowsOf(r, e)
        <3>1. j \in new.seen
            BY <2>2, <2>3 DEF Remembered
        <3>2. x = Entry(j, new)
            BY <2>2, <2>3 DEF RowsOf, Entry
        <3> QED BY <1>2, <3>1, <3>2 DEF Memory
    <2>4. CASE row \notin RowsOf(r, e)
        <3>1. row \in state'
            BY <2>4
        <3> QED BY <2>2, <3>1 DEF Memory
    <2> QED BY <2>3, <2>4
<1>4. [run |-> i, revision |-> r, epoch |-> e] \in Memory'
    <2>1. i \in new.seen /\ Entry(i, new) = [run |-> i, revision |-> r, epoch |-> e]
        BY DEF Entry
    <2> QED BY <1>2, <2>1 DEF Memory
<1> QED BY <1>1, <1>3, <1>4

LEMMA AddRefined ==
    ASSUME TypeOK, StateInv, UpdateState
    PROVE  Flow!Next
<1>1. run # NoRun /\ run \in RunRecords /\ run.updated = FALSE
      /\ run.read = Remembered(run.revision, run.epoch)
    BY DEF UpdateState, TypeOK, StateInv, RunRecords
<1>2. PICK h : h = [id |-> run.id, revision |-> run.revision, epoch |-> run.epoch,
                    added |-> run.updated]
    OBVIOUS
<1>3. h.id = run.id /\ h.revision = run.revision /\ h.epoch = run.epoch /\ h.added = FALSE
    BY <1>1, <1>2
<1>4. Holders = {h}
    BY <1>1, <1>2, HoldersAre
<1>5. PICK on : on = TRUE
    OBVIOUS
<1>6. run' = [run EXCEPT !.updated = on]
    BY <1>5 DEF UpdateState
<1>7. run' \in RunRecords /\ run'.id = run.id /\ run'.revision = run.revision
      /\ run'.epoch = run.epoch /\ run'.updated = on
    BY <1>1, <1>5, <1>6 DEF RunRecords
<1>8. Holders' = {[id |-> run'.id, revision |-> run'.revision, epoch |-> run'.epoch,
                   added |-> run'.updated]}
    <2>1. run' # NoRun
        BY <1>7, NoRunAssumption
    <2> QED BY <2>1 DEF Holders
<1>9. [h EXCEPT !.added = on] = [id |-> run.id, revision |-> run.revision, epoch |-> run.epoch,
                                 added |-> on]
    BY <1>2
<1>10. Holders' = {[h EXCEPT !.added = TRUE]}
    BY <1>5, <1>7, <1>8, <1>9
<1>11. PICK new : new = [revision |-> run.revision, epoch |-> run.epoch,
                         seen |-> run.read \cup {run.id}]
    OBVIOUS
<1>12. state' = (state \ RowsOf(run.revision, run.epoch)) \cup {new}
    BY <1>11 DEF UpdateState
<1>13. Memory' = Memory \cup {[run |-> run.id, revision |-> run.revision, epoch |-> run.epoch]}
    <2>1. new.revision = run.revision /\ new.epoch = run.epoch
          /\ new.seen = Remembered(run.revision, run.epoch) \cup {run.id}
        BY <1>1, <1>11
    <2> QED BY <1>12, <2>1, MemoryGrows
<1>14. UNCHANGED <<Setting, started>>
    BY FlowSame DEF UpdateState, runtime
<1> QED BY <1>3, <1>4, <1>10, <1>13, <1>14, AddIs

LEMMA FlowRefinedStep ==
    ASSUME IInv, TypeOK', UnknownInv, [Next]_vars
    PROVE  Flow!Next \/ UNCHANGED <<Setting, Holders, started, Memory>>
<1> USE DEF IInv
<1>1. CASE UNCHANGED <<pointer, run, started, state>>
    BY <1>1, FlowSame
<1>2. ASSUME NEW m, TurnOff(m) \/ Activate(m) PROVE Flow!Next
    BY <1>2, AdoptRefined
<1>3. ASSUME NEW m, StartFromCloud(m) PROVE Flow!Next \/ UNCHANGED <<Setting, Holders, started, Memory>>
    BY <1>3, AcceptRefined DEF StartFromCloud, Starts, runtime
<1>4. CASE FireTrigger
    BY <1>4, AcceptRefined DEF FireTrigger, TypeOK, Pointers, runtime
<1>5. CASE UpdateState
    BY <1>5, AddRefined
<1>6. CASE EndRun
    <2>1. Holders # {} /\ run' = NoRun
        BY <1>6, HoldersAre DEF EndRun
    <2>2. Holders' = {}
        BY <2>1 DEF Holders
    <2>3. UNCHANGED <<Setting, started, Memory>>
        BY <1>6, FlowSame DEF EndRun, runtime
    <2> QED BY <2>1, <2>2, <2>3, EndIs
<1>7. CASE StartQueued
    <2>1. Head(queue) \in [revision : Revisions, epoch : Epochs]
        BY <1>7, HeadTail DEF StartQueued, TypeOK
    <2>2. Head(queue).revision \in Revisions
        BY <2>1
    <2> QED BY <1>7, <2>2, BeginRefined DEF StartQueued, runtime
<1> QED BY <1>1, <1>2, <1>3, <1>4, <1>5, <1>6, <1>7
    DEF Next, MakeRequest, Deploy, Deactivate, Delete, Continue, ReadMax, InsertDeployment,
        SendDesired, WithdrawRow, RemoveFlow, ResultArrives, HandleResult, StartLiveRun,
        HandleMessage, IgnoreDeployment, RefuseDeployment, Disconnect, Reconnect, vars, runtime, runs

LEMMA FlowStarts == Init => Flow!Init /\ UnknownInv
<1> SUFFICES ASSUME Init PROVE Flow!Init /\ UnknownInv
    OBVIOUS
<1>1. SomeRevision \in Revisions
    BY DeploymentAssumption DEF SomeRevision
<1>2. pointer.generation = 0 /\ pointer.active = FALSE /\ pointer.revision = SomeRevision
    BY DEF Init
<1>3. CurrentEpoch = 1
    BY <1>2 DEF CurrentEpoch
<1>4. Setting \in [generation : {0}, on : {FALSE}, revision : Revisions, epoch : {1}]
    BY <1>1, <1>2, <1>3 DEF Setting
<1>5. Holders = {} /\ Memory = {} /\ started = 0
    BY HoldersAre DEF Init, Memory
<1> QED BY <1>2, <1>4, <1>5 DEF Flow!Init, Setting, Holders, Memory, Entry, UnknownInv

\* The runtime implements DeployedFlow: deployments take effect one after the other,
\* each newer than all before it, and a run that loads analysis state when it begins
\* and stores it after any number of deployments adds itself, at that instant, to
\* what its revision and epoch remember (activateArtifact, applyStateUpdate).
THEOREM FlowRefined == Spec => ActsAsDeployed
<1>1. Spec => []TypeOK
    BY TypeCorrect
<1>2. IInv /\ TypeOK' /\ UnknownInv /\ [Next]_vars =>
        Flow!Next \/ UNCHANGED <<Setting, Holders, started, Memory>>
    BY FlowRefinedStep
<1>3. TypeOK /\ UnknownInv /\ [Next]_vars => UnknownInv'
    BY UnknownStep
<1> QED BY <1>1, <1>2, <1>3, Invariant, FlowStarts, PTL
    DEF Spec, ActsAsDeployed, Flow!Spec, Setting, Holders, Memory, Entry
=============================================================================
