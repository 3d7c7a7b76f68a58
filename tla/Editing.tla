------------------------------ MODULE Editing ------------------------------
(***************************************************************************)
(* Two pages that edit one flow.  A page keeps the text of the flow and    *)
(* what getFlow told it last; a button starts a chain of requests with what*)
(* the page held at the click: the draft is saved and the positions of the *)
(* nodes, the flow is read again, and, as the button has it, the draft is  *)
(* made a revision, the revision is deployed, and the deployment is waited *)
(* for.  The chains of two clicks, also of one page, run beside each other.*)
(***************************************************************************)
EXTENDS Naturals, FiniteSets, SequencesExt

CONSTANTS
    Pages,           \* pages that have the flow open
    Edits,           \* changes of the flow
    MaxJobs,         \* bound on the clicks
    MaxDeploys,      \* bound on the clicks that deploy or rename
    MaxAtOnce,       \* bound on the chains that run beside each other
    MaxLosses        \* bound on the chains that are cut off

VARIABLES
    saved,           \* flow_drafts: the row is the last, its version the length
    editorVersion,   \* version of editor_documents
    revisions,       \* flow_revisions: the version frozen, and the chain it is of
    deployments,     \* deployments: the revision of each, by generation
    tab,             \* page -> its state
    job,             \* the chains, in the order of the clicks: how far each is
    losses,          \* chains cut off so far
    told             \* history: page -> versions of the draft it was told of

editingServer == <<saved, editorVersion, revisions, deployments>>
editingVars   == <<editingServer, tab, job, losses, told>>

Jobs  == 1..MaxJobs
Kinds == {"load", "save", "deploy", "rollback", "rename"}

\* What getFlow answers.
Details == [draft : Nat, editor : Nat, revisions : Nat, deployed : Nat]
NewDetail == [draft |-> 1, editor |-> 1, revisions |-> 0, deployed |-> 0]

ASSUME EditingAssumption == MaxJobs \in Nat /\ MaxLosses \in Nat

EditingTypeOK ==
    /\ saved \in Seq([text : SUBSET Edits, by : Jobs \cup {0}])
    /\ editorVersion \in Nat
    /\ revisions \in Seq([draft : Nat, by : Jobs])
    /\ deployments \in Seq(Nat)
    /\ tab \in [Pages -> [text : SUBSET Edits, detail : Details, answered : Nat]]
    /\ job \in Seq(
          [at : {"rename", "draft", "editor", "flow", "rest", "revise", "insert",
                 "deploy", "wait", "over", "conflict", "lost"},
           kind : Kinds, page : Pages, text : SUBSET Edits, detail : Details,
           beside : SUBSET Jobs, wrote : Nat, ref : Nat])
    /\ Len(job) <= MaxJobs
    /\ losses \in 0..MaxLosses
    /\ told \in [Pages -> SUBSET (1..Len(saved))]

\* A flow that was just created, open in every page.
EditingInit ==
    /\ saved = <<[text |-> {}, by |-> 0]>>
    /\ editorVersion = 1
    /\ revisions = << >> /\ deployments = << >>
    /\ tab = [p \in Pages |-> [text |-> {}, detail |-> NewDetail, answered |-> 0]]
    /\ job = << >>
    /\ losses = 0
    /\ told = [p \in Pages |-> {1}]

-----------------------------------------------------------------------------
(* The page. *)

Running(j) == job[j].at \notin {"over", "conflict", "lost"}
Moves(j, at) == job' = [job EXCEPT ![j].at = at]
Ends(j, at) == job' = [job EXCEPT ![j] = [@ EXCEPT !.at = at, !.text = {}, !.detail = NewDetail]]

\* A page that is being loaded shows nothing to click.
Shown(p) == ~\E i \in DOMAIN job : Running(i) /\ job[i].page = p /\ job[i].kind = "load"

\* A change of the text.
Edit(p, e) ==
    /\ Shown(p) /\ e \notin tab[p].text
    /\ tab' = [tab EXCEPT ![p].text = @ \cup {e}]
    /\ UNCHANGED <<editingServer, job, losses, told>>

\* The newest revision but the one that is deployed, as far as the page was told.
PreviousRevision(p) ==
    LET others == 1..tab[p].detail.revisions \ {tab[p].detail.deployed}
    IN  IF others = {} THEN 0 ELSE CHOOSE r \in others : \A q \in others : q <= r

First(kind) ==
    CASE kind = "load" -> "flow" [] kind = "rollback" -> "deploy" [] kind = "rename" -> "rename"
      [] OTHER -> "draft"

\* A click, or the page is loaded again.
Click(p, kind) ==
    /\ Len(job) < MaxJobs
    /\ Shown(p) /\ Cardinality({i \in DOMAIN job : Running(i)}) < MaxAtOnce
    /\ kind = "rollback" => PreviousRevision(p) # 0
    /\ kind \in {"deploy", "rename"} =>
          Cardinality({i \in DOMAIN job : job[i].kind \in {"deploy", "rename"}}) < MaxDeploys
    /\ kind = "load" => ~\E i \in DOMAIN job : Running(i) /\ job[i].page = p
    /\ job' = Append(job,
          [at |-> First(kind), kind |-> kind, page |-> p, text |-> tab[p].text,
           detail |-> tab[p].detail, wrote |-> 0,
           beside |-> {i \in DOMAIN job : Running(i) /\ job[i].page = p},
           ref |-> IF kind = "rollback" THEN PreviousRevision(p) ELSE 0])
    /\ UNCHANGED <<editingServer, tab, losses, told>>

\* The name is written, which no version counts; and the page takes what it held at
\* the click, with the new name.
RenameFlow(j) ==
    /\ job[j].at = "rename"
    /\ tab' = [tab EXCEPT ![job[j].page].detail = job[j].detail]
    /\ Ends(j, "over")
    /\ UNCHANGED <<editingServer, losses, told>>

\* waitDeployment looks every second until the deployment is decided, which the
\* page shows, and gives up after forty.
WaitDeployment(j) ==
    /\ job[j].at = "wait"
    /\ \/ tab' = [tab EXCEPT ![job[j].page].answered = job[j].ref] /\ Ends(j, "over")
       \/ UNCHANGED tab /\ Ends(j, "lost")
    /\ UNCHANGED <<editingServer, losses, told>>

\* A request or its answer is lost, and with it the rest of the chain: after the
\* draft was saved, and before the page knows.  (Before and after that, the click
\* was in vain, or a shorter one.)
Lose(j) ==
    /\ job[j].at \in {"editor", "flow", "rest"} /\ job[j].kind # "load"
    /\ losses < MaxLosses
    /\ losses' = losses + 1
    /\ Ends(j, "lost")
    /\ UNCHANGED <<editingServer, tab, told>>

-----------------------------------------------------------------------------
(* The API. *)

\* Mutant: the version is counted, not compared.
SaveDraftAny(j) ==
    /\ job[j].at = "draft"
    /\ saved' = Append(saved, [text |-> job[j].text, by |-> j])
    /\ job' = [job EXCEPT ![j].at = "editor", ![j].wrote = Len(saved) + 1]
    /\ UNCHANGED <<editorVersion, revisions, deployments, tab, losses, told>>

\* saveDraft: the row is written if its version is the one the page knows.
SaveDraft(j) ==
    /\ job[j].at = "draft"
    /\ IF job[j].detail.draft = Len(saved)
       THEN /\ saved' = Append(saved, [text |-> job[j].text, by |-> j])
            /\ job' = [job EXCEPT ![j].at = "editor", ![j].wrote = Len(saved) + 1]
       ELSE UNCHANGED saved /\ Ends(j, "conflict")
    /\ UNCHANGED <<editorVersion, revisions, deployments, tab, losses, told>>

\* saveEditor, likewise.
SaveEditor(j) ==
    /\ job[j].at = "editor"
    /\ IF job[j].detail.editor = editorVersion
       THEN editorVersion' = editorVersion + 1 /\ Moves(j, "flow")
       ELSE UNCHANGED editorVersion /\ Ends(j, "conflict")
    /\ UNCHANGED <<saved, revisions, deployments, tab, losses, told>>

\* getFlow reads the draft ...
ReadDraft(j) ==
    /\ job[j].at = "flow"
    /\ job' = [job EXCEPT ![j].at = "rest", ![j].detail.draft = Len(saved)]
    /\ UNCHANGED <<editingServer, tab, losses, told>>

\* ... and then the positions, the last deployment and the revisions.
Deployed == IF deployments = << >> THEN 0 ELSE Last(deployments)

Answer(j) == [job[j].detail EXCEPT !.editor = editorVersion,
                                   !.revisions = Len(revisions),
                                   !.deployed = Deployed]

\* ... which the page takes by setDetail, and with it the text when it is loaded.
\* (Between the last query and setDetail nothing depends on either.)
Show(j) ==
    /\ job[j].at = "rest"
    /\ LET p == job[j].page IN
         /\ tab' = [tab EXCEPT ![p] =
                [@ EXCEPT !.detail = Answer(j),
                          !.text = IF job[j].kind = "load"
                                   THEN saved[Answer(j).draft].text ELSE tab[p].text]]
         /\ told' = [told EXCEPT ![p] = @ \cup {Answer(j).draft}]
    /\ IF job[j].kind = "deploy" THEN Moves(j, "revise") ELSE Ends(j, "over")
    /\ UNCHANGED <<editingServer, losses>>

\* createRevision reads the draft, whoever saved it; it may not compile ...
CreateRevision(j) ==
    /\ job[j].at = "revise"
    /\ \/ job' = [job EXCEPT ![j].at = "insert", ![j].ref = Len(saved)]
       \/ Ends(j, "lost")
    /\ UNCHANGED <<editingServer, tab, losses, told>>

\* ... and inserts the revision.
InsertRevision(j) ==
    /\ job[j].at = "insert"
    /\ revisions' = Append(revisions, [draft |-> job[j].ref, by |-> j])
    /\ job' = [job EXCEPT ![j].at = "deploy", ![j].ref = Len(revisions) + 1]
    /\ UNCHANGED <<saved, editorVersion, deployments, tab, losses, told>>

\* deployRevision
DeployRevision(j) ==
    /\ job[j].at = "deploy"
    /\ deployments' = Append(deployments, job[j].ref)
    /\ job' = [job EXCEPT ![j].at = "wait", ![j].ref = Len(deployments) + 1]
    /\ UNCHANGED <<saved, editorVersion, revisions, tab, losses, told>>

EditingNext ==
    \/ \E p \in Pages, e \in Edits : Edit(p, e)
    \/ \E p \in Pages, kind \in Kinds : Click(p, kind)
    \/ \E j \in DOMAIN job :
          \/ Show(j) \/ RenameFlow(j) \/ WaitDeployment(j) \/ Lose(j) \/ SaveDraft(j) \/ SaveEditor(j)
          \/ ReadDraft(j) \/ CreateRevision(j) \/ InsertRevision(j)
          \/ DeployRevision(j)

EditingSpec == EditingInit /\ [][EditingNext]_editingVars

-----------------------------------------------------------------------------
\* A page that drops what another one saved had been told of it: a draft it was
\* answered had it.
LossIsInformed ==
    \A v \in 2..Len(saved) : \A e \in saved[v - 1].text \ saved[v].text :
        \E u \in told[job[saved[v].by].page] : e \in saved[u].text

\* A revision is no older than what was saved by the click that asked for it, and
\* it is a draft that somebody saved as a whole.
RevisionsAreFresh == \A r \in DOMAIN revisions : revisions[r].draft >= job[revisions[r].by].wrote

\* A conflict has a cause: another page that saves, two clicks of this page of which
\* one did not wait for the other, or a chain that was cut off.  A page by itself
\* that waits for each of its clicks is never refused.
ConflictsHaveCause ==
    \A j \in DOMAIN job : job[j].at = "conflict" =>
        \/ losses > 0
        \/ \E i \in DOMAIN job : /\ job[i].page # job[j].page
                                 /\ job[i].kind \in {"save", "deploy"}
        \/ \E i \in DOMAIN job : job[i].page = job[j].page /\ job[i].beside # {}

(***************************************************************************)
(* Edits are not lost behind the back of who made them, nor is a user      *)
(* refused without a reason, whatever two pages and two clicks do at once. *)
(***************************************************************************)
EditingHolds == LossIsInformed /\ RevisionsAreFresh /\ ConflictsHaveCause

-----------------------------------------------------------------------------
(* None of the following is so: see README. *)

\* A saved edit stays, since edits are only added.
NoLostUpdate == \A v \in 2..Len(saved) : saved[v - 1].text \subseteq saved[v].text

\* What a click deploys is what it saved.
DeploysItsOwn == \A r \in DOMAIN revisions : revisions[r].draft = job[revisions[r].by].wrote

\* A renaming does not make a save of the same page fail.
RenamingIsHarmless ==
    \A j \in DOMAIN job : job[j].at = "conflict" /\ losses = 0 =>
        \E i \in DOMAIN job \ {j} :
            /\ job[i].kind \in {"save", "deploy"}
            /\ job[i].page # job[j].page \/ i \in job[j].beside \/ j \in job[i].beside

\* Without another page a user is never refused.
SavesRecover ==
    \A j \in DOMAIN job : job[j].at = "conflict" =>
        \E i \in DOMAIN job : job[i].kind # "load" /\ job[i].page # job[j].page

\* A rollback deploys the revision that was deployed before the last one.
RollbackGoesBack ==
    \A d \in DOMAIN deployments : \A j \in DOMAIN job :
        job[j].kind = "rollback" /\ job[j].at \in {"wait", "over"} /\ job[j].ref = d /\ d > 1 =>
            d > 2 /\ deployments[d] = deployments[d - 2]

\* The status a page shows is the one of the last deployment it asked for.
LastIsShown ==
    \A j \in DOMAIN job :
        /\ job[j].kind \in {"deploy", "rollback"} /\ job[j].at = "over"
        => tab[job[j].page].answered >= job[j].ref
=============================================================================
