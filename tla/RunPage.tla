------------------------------ MODULE RunPage ------------------------------
(***************************************************************************)
(* The page of one run.  The summaries of the run arrive in the cloud as   *)
(* rows of the journal, each followed by the row of the run.  The page has *)
(* a stream open, for which the API reads the journal every second after   *)
(* the last row it wrote, and asks for the row of the run every second and *)
(* whenever the stream says that there is a summary.  None of these reads  *)
(* waits for the one before.                                               *)
(***************************************************************************)
EXTENDS Naturals, FiniteSets, FiniteSetsExt

CONSTANTS
    MaxSummaries,    \* summaries of the run
    MaxReads,        \* bound on the reads of the stream that are under way
    MaxPolls,        \* bound on the reads of the page that are under way
    MaxSlips         \* bound on the summaries that are not stored at first

ASSUME RunPageAssumption ==
    MaxSummaries \in Nat \ {0} /\ MaxReads \in Nat /\ MaxPolls \in Nat /\ MaxSlips \in Nat

VARIABLES
    journal,         \* sync_journal: the summaries stored
    late,            \* summaries that were not stored when they came
    unprojected,     \* stored, the row of the run does not have them yet
    row,             \* run_summaries: last_seq
    emptied,         \* tombstones: what is older than the retention
    minSeq,          \* sync_cursors.min_seq
    stream,          \* the page's EventSource: "new", "open", "mute" or "closed"
    cursor,          \* the last row the stream wrote, by its own account
    reads,           \* what the reads of the stream found
    written,         \* summaries the page was told of by its stream
    polls,           \* what the reads of the page found
    onPage           \* last_seq of the run on the page

runPageVars == <<journal, late, unprojected, row, emptied, minSeq, stream, cursor, reads, written, polls, onPage>>

Summaries == 1..MaxSummaries

RunPageTypeOK ==
    /\ journal \subseteq Summaries /\ late \subseteq Summaries
    /\ unprojected \subseteq journal
    /\ row \in 0..MaxSummaries
    /\ emptied \subseteq journal /\ minSeq \in Summaries
    /\ stream \in {"new", "open", "mute", "closed"}
    /\ cursor \in 0..MaxSummaries
    /\ reads \subseteq SUBSET Summaries /\ Cardinality(reads) <= MaxReads
    /\ written \subseteq Summaries
    /\ polls \subseteq 0..MaxSummaries /\ Cardinality(polls) <= MaxPolls
    /\ onPage \in 0..MaxSummaries

RunPageInit ==
    /\ journal = {} /\ late = {} /\ unprojected = {}
    /\ row = 0 /\ emptied = {} /\ minSeq = 1
    /\ stream = "new" /\ cursor = 0 /\ reads = {} /\ written = {}
    /\ polls = {} /\ onPage = 0

-----------------------------------------------------------------------------
(* The cloud. *)

Arrived == journal \cup late

\* appendSummaryBatch, one after another: the row is inserted ...
Stores(n) ==
    /\ n \notin journal /\ unprojected = {}
    /\ n \in late \/ 1..(n - 1) \subseteq Arrived
    /\ journal' = journal \cup {n} /\ unprojected' = unprojected \cup {n}
    /\ UNCHANGED <<late, row, emptied, minSeq, stream, cursor, reads, written, polls, onPage>>

\* ... which may fail, and then the runtime sends it again later.
StoreFails(n) ==
    /\ unprojected = {} /\ n \notin Arrived /\ 1..(n - 1) \subseteq Arrived /\ Cardinality(late) < MaxSlips
    /\ late' = late \cup {n}
    /\ UNCHANGED <<journal, unprojected, row, emptied, minSeq, stream, cursor, reads, written, polls, onPage>>

\* ... and upsertRunSummary brings the row of the run forward.
Projects(n) ==
    /\ n \in unprojected
    /\ unprojected' = unprojected \ {n}
    /\ row' = Max({row, n})
    /\ UNCHANGED <<journal, late, emptied, minSeq, stream, cursor, reads, written, polls, onPage>>

\* retainCloud, when the owner asks for it, empties the rows of a time before;
\* min_seq is the first of the rest.  (Once, in this model.)
Retains(n) ==
    /\ emptied = {} /\ n \in journal \ unprojected
    /\ emptied' = emptied \cup {m \in journal : m <= n}
    /\ minSeq' = IF journal \ emptied' = {} THEN minSeq ELSE Min(journal \ emptied')
    /\ UNCHANGED <<journal, late, unprojected, row, stream, cursor, reads, written, polls, onPage>>

\* readRunEvents: a cursor that retention has passed by is refused.
Resync(after) == after > 0 /\ after + 1 < minSeq
Found(after) == {n \in journal : n > after}

\* sendEventStream: the page is told of all there is; it was sent the row, too.
OpensStream ==
    /\ stream = "new" /\ stream' = "open"
    /\ written' = Found(0)
    /\ cursor' = Max({0} \cup Found(0))
    /\ \/ UNCHANGED polls
       \/ Cardinality(polls \cup {row}) <= MaxPolls /\ polls' = polls \cup {row}
    /\ UNCHANGED <<journal, late, unprojected, row, emptied, minSeq, reads, onPage>>

\* The timer of the stream: a read is begun.
StreamReads ==
    /\ stream = "open" /\ Cardinality(reads) < MaxReads
    /\ IF Resync(cursor)
       THEN stream' = "mute" /\ UNCHANGED reads
       ELSE Found(cursor) # {} /\ reads' = reads \cup {Found(cursor)} /\ UNCHANGED stream
    /\ UNCHANGED <<journal, late, unprojected, row, emptied, minSeq, cursor, written, polls, onPage>>

\* writeItems: what a read found is written, and the page asks for the row.
Writes(items) ==
    /\ items \in reads /\ stream \in {"open", "mute"}
    /\ reads' = reads \ {items}
    /\ written' = written \cup items
    /\ cursor' = Max(items)
    /\ \/ UNCHANGED polls
       \/ Cardinality(polls \cup {row}) <= MaxPolls /\ polls' = polls \cup {row}
    /\ UNCHANGED <<journal, late, unprojected, row, emptied, minSeq, stream, onPage>>

-----------------------------------------------------------------------------
(* The page. *)

\* The stream fails: the page closes it and does not open another.
StreamBreaks ==
    /\ stream \in {"open", "mute"} /\ stream' = "closed"
    /\ reads' = {} /\ cursor' = 0 /\ written' = {}
    /\ UNCHANGED <<journal, late, unprojected, row, emptied, minSeq, polls, onPage>>

\* Mutant: the page asks only when it has no stream.
PollsWithout ==
    /\ stream = "closed"
    /\ Cardinality(polls \cup {row}) <= MaxPolls
    /\ polls' = polls \cup {row}
    /\ UNCHANGED <<journal, late, unprojected, row, emptied, minSeq, stream, cursor, reads, written, onPage>>

\* The timer of the page: the row is read ...
Polls ==
    /\ Cardinality(polls \cup {row}) <= MaxPolls
    /\ polls' = polls \cup {row}
    /\ UNCHANGED <<journal, late, unprojected, row, emptied, minSeq, stream, cursor, reads, written, onPage>>

\* ... and shown when it comes, be it after a newer one.
Applies(v) ==
    /\ v \in polls /\ polls' = polls \ {v}
    /\ onPage' = v
    /\ UNCHANGED <<journal, late, unprojected, row, emptied, minSeq, stream, cursor, reads, written>>

RunPageNext ==
    \/ \E n \in Summaries : Stores(n) \/ StoreFails(n) \/ Projects(n)
    \/ \E items \in reads : Writes(items)
    \/ \E v \in polls : Applies(v)
    \/ \E n \in Summaries : Retains(n)
    \/ OpensStream \/ StreamReads \/ StreamBreaks \/ Polls

\* The timer of the page runs, queries return and the runtime sends again what was
\* not stored.
RunPageFairness ==
    /\ WF_runPageVars(\E n \in Summaries : Stores(n))
    /\ WF_runPageVars(\E n \in Summaries : Projects(n))
    /\ WF_runPageVars(Polls)
    /\ \A v \in 0..MaxSummaries : WF_runPageVars(Applies(v))

RunPageSpec == RunPageInit /\ [][RunPageNext]_runPageVars /\ RunPageFairness

-----------------------------------------------------------------------------
\* The stream leaves nothing out but what was stored out of turn: whoever was told of a summary was told of those before it.
NoGaps ==
    \A n \in written : \A m \in 1..(n - 1) : m \in written \cup late

\* The stream catches up: when there is nothing to read, the page was told of all.
CatchesUp == stream = "open" /\ Found(cursor) = {} => journal \subseteq written \cup late

(***************************************************************************)
(* The stream of a run is whole, however its reads overtake each other.    *)
(***************************************************************************)
StreamIsWhole == NoGaps /\ CatchesUp

\* In the end the page shows the run as the cloud has it, although a read that
\* was overtaken can bring back what was shown before.
PageSettles == <>[](onPage = MaxSummaries)

-----------------------------------------------------------------------------
(* None of the following is so: see README. *)

\* What the page shows does not go back.
ShownGoesForward == [][onPage' >= onPage]_onPage

\* A stream that is open says everything.
StreamSaysAll == (stream # "closed") ~> (written = Summaries \/ stream = "closed")
=============================================================================
