--------------------------- MODULE StatusTracker ---------------------------
(***************************************************************************)
(* The submission service (apps/submission): the upload handler, which     *)
(* stores a submission, publishes submission.queued and only then tracks   *)
(* it, and the four consumers that keep the in-memory status tracker up to *)
(* date from run.started, run.completed, score.updated and                 *)
(* submission.failed.  Each tracker method is one critical section.        *)
(*                                                                         *)
(* Four readers, four topics: nothing orders the messages of a run but     *)
(* that none of them exists before its submission was queued.  The readers *)
(* commit in the background, so that after a restart any message read by   *)
(* the last process may be read again.                                     *)
(***************************************************************************)
EXTENDS Integers

CONSTANTS
    Submissions,
    Runs,
    Contestants,
    ContestantOf,    \* who uploads a submission
    SubmissionOf,    \* the submission a run is of
    MaxRestarts,     \* bound: restarts of the service in a behaviour
    None

ASSUME ConstantsAssumption ==
    /\ ContestantOf \in [Submissions -> Contestants]
    /\ SubmissionOf \in [Runs -> Submissions]
    /\ MaxRestarts \in Nat
    /\ None \notin Submissions \cup Runs \cup Contestants

States == {"queued", "running", "completed", "failed"}

\* A tracker entry; its score is named by the run it is of.
Entry == [contestantID : Contestants \cup {None}, status : States,
          runID : Runs \cup {None}, score : Runs \cup {None}]

ASSUME EntryAssumption == None \notin Entry

Started(r) == [topic |-> "run.started", of |-> r]
Completed(r) == [topic |-> "run.completed", of |-> r]
Scored(r) == [topic |-> "score.updated", of |-> r]
Failed(s) == [topic |-> "submission.failed", of |-> s]

Topics == {"run.started", "run.completed", "score.updated", "submission.failed"}

Messages == {Started(r) : r \in Runs} \cup {Completed(r) : r \in Runs}
            \cup {Scored(r) : r \in Runs} \cup {Failed(s) : s \in Submissions}

VARIABLES
    upload,      \* how far the handler is with each submission
    queued,      \* submissions published to submission.queued
    entries,     \* Tracker.entries
    starting,    \* the run.started being handled, between Set and SetRunID
    consumed,    \* messages this process has read
    committed,   \* messages whose offset is committed
    restarts

vars == <<upload, queued, entries, starting, consumed, committed, restarts>>

Init ==
    /\ upload = [s \in Submissions |-> "new"]
    /\ queued = {}
    /\ entries = [s \in Submissions |-> None]
    /\ starting = None
    /\ consumed = {} /\ committed = {}
    /\ restarts = 0

---------------------------------------------------------------------------
(* The tracker *)

\* Mutant: an empty contestant id overwrites the one that is known.
Set_Overwrite(s, contestant, status) ==
    [entries EXCEPT ![s] =
        IF @ = None
        THEN [contestantID |-> contestant, status |-> status, runID |-> None, score |-> None]
        ELSE [@ EXCEPT !.status = status, !.contestantID = contestant]]

\* Set, which stores an entry or updates it.
Set(s, contestant, status) ==
    [entries EXCEPT ![s] =
        IF @ = None
        THEN [contestantID |-> contestant, status |-> status, runID |-> None, score |-> None]
        ELSE [@ EXCEPT !.status = status,
                       !.contestantID = IF contestant # None THEN contestant
                                        ELSE entries[s].contestantID]]

\* Mutant: the two ids are swapped.
SetRunID_Swapped(s, r) ==
    [entries EXCEPT ![s] = IF @ = None THEN @ ELSE [@ EXCEPT !.runID = s]]

\* SetRunID, which updates an entry that there is.
SetRunID(s, r) ==
    [entries EXCEPT ![s] = IF @ = None THEN @ ELSE [@ EXCEPT !.runID = r]]

\* Mutant: an entry whose run is not known yet matches every run.
HasRun_Unknown(s, r) == entries[s] # None /\ entries[s].runID \in {r, None}

\* The loop over the entries in UpdateByRunID and UpdateScoreByRunID.
HasRun(s, r) == entries[s] # None /\ entries[s].runID = r

\* The loop stops at the first entry that matches, in no particular order.
UpdateByRunID(r) ==
    \/ /\ \A s \in Submissions : ~HasRun(s, r)
       /\ UNCHANGED entries
    \/ \E s \in Submissions :
        /\ HasRun(s, r)
        /\ entries' = [entries EXCEPT ![s].status = "completed"]

UpdateScoreByRunID(r) ==
    \/ /\ \A s \in Submissions : ~HasRun(s, r)
       /\ UNCHANGED entries
    \/ \E s \in Submissions :
        /\ HasRun(s, r)
        /\ entries' = [entries EXCEPT ![s].score = r]

---------------------------------------------------------------------------
(* The upload handler: validation and storage change nothing here, and a *)
(* request that they refuse leaves no trace.                             *)

\* Publish of submission.queued; an error is logged and the handler goes on.
Publish(s, ok) ==
    /\ upload[s] = "new"
    /\ upload' = [upload EXCEPT ![s] = "published"]
    /\ queued' = IF ok THEN queued \cup {s} ELSE queued
    /\ UNCHANGED <<entries, starting, consumed, committed, restarts>>

\* tracker.Set and the 202 response.
Track(s) ==
    /\ upload[s] = "published"
    /\ upload' = [upload EXCEPT ![s] = "accepted"]
    /\ entries' = Set(s, ContestantOf[s], "queued")
    /\ UNCHANGED <<queued, starting, consumed, committed, restarts>>

---------------------------------------------------------------------------
(* The consumers *)

\* A message can be read once it may exist, if it was neither read nor committed.
CanRead(m, s) == s \in queued /\ m \notin consumed \cup committed

\* consumeStarted: Set ...
ConsumeStarted(r) ==
    /\ starting = None
    /\ CanRead(Started(r), SubmissionOf[r])
    /\ entries' = Set(SubmissionOf[r], None, "running")
    /\ starting' = r
    /\ UNCHANGED <<upload, queued, consumed, committed, restarts>>

\* ... then SetRunID, and the commit.
ConsumeStartedRunID ==
    /\ starting # None
    /\ entries' = SetRunID(SubmissionOf[starting], starting)
    /\ consumed' = consumed \cup {Started(starting)}
    /\ starting' = None
    /\ UNCHANGED <<upload, queued, committed, restarts>>

ConsumeCompleted(r) ==
    /\ CanRead(Completed(r), SubmissionOf[r])
    /\ UpdateByRunID(r)
    /\ consumed' = consumed \cup {Completed(r)}
    /\ UNCHANGED <<upload, queued, starting, committed, restarts>>

ConsumeScore(r) ==
    /\ CanRead(Scored(r), SubmissionOf[r])
    /\ UpdateScoreByRunID(r)
    /\ consumed' = consumed \cup {Scored(r)}
    /\ UNCHANGED <<upload, queued, starting, committed, restarts>>

ConsumeFailed(s) ==
    /\ CanRead(Failed(s), s)
    /\ entries' = Set(s, None, "failed")
    /\ consumed' = consumed \cup {Failed(s)}
    /\ UNCHANGED <<upload, queued, starting, committed, restarts>>

\* The commit loop of one of the four readers (CommitInterval: one second).
Commit(topic) ==
    /\ committed' = committed \cup {m \in consumed : m.topic = topic}
    /\ committed' # committed
    /\ UNCHANGED <<upload, queued, entries, starting, consumed, restarts>>

\* The service dies and starts again with an empty tracker.  A handler that had not
\* answered never will.
Restart ==
    /\ restarts < MaxRestarts
    /\ restarts' = restarts + 1
    /\ entries' = [s \in Submissions |-> None]
    /\ upload' = [s \in Submissions |-> IF upload[s] = "new" THEN "new" ELSE "lost"]
    /\ starting' = None
    /\ consumed' = {}
    /\ UNCHANGED <<queued, committed>>

Next ==
    \/ \E s \in Submissions, ok \in BOOLEAN : Publish(s, ok)
    \/ \E s \in Submissions : Track(s) \/ ConsumeFailed(s)
    \/ \E r \in Runs : ConsumeStarted(r) \/ ConsumeCompleted(r) \/ ConsumeScore(r)
    \/ ConsumeStartedRunID
    \/ \E topic \in Topics : Commit(topic)
    \/ Restart

Spec == Init /\ [][Next]_vars

---------------------------------------------------------------------------
(* Properties *)

TypeOK ==
    /\ upload \in [Submissions -> {"new", "published", "accepted", "lost"}]
    /\ queued \subseteq Submissions
    /\ entries \in [Submissions -> Entry \cup {None}]
    /\ starting \in Runs \cup {None}
    /\ consumed \subseteq Messages /\ committed \subseteq Messages
    /\ restarts \in 0..MaxRestarts

\* A client that was answered 202 by this process finds its submission, with its own
\* contestant, whichever consumers were ahead of the handler's Set
\* (upload.go:128-140, tracker.go:40-52).
AcceptedIsFound ==
    \A s \in Submissions :
        upload[s] = "accepted" =>
            entries[s] # None /\ entries[s].contestantID = ContestantOf[s]

\* The status, the run and the score of a submission are its own, and are there
\* because of messages that were read: completed because one of its runs is, with a
\* run id and a score of runs that have started and scored (tracker.go:80-103).
ReportsItsOwnRuns ==
    \A s \in Submissions :
        entries[s] # None =>
            /\ entries[s].runID # None =>
                 SubmissionOf[entries[s].runID] = s /\ Started(entries[s].runID) \in consumed
            /\ entries[s].score # None =>
                 SubmissionOf[entries[s].score] = s /\ Scored(entries[s].score) \in consumed
            /\ entries[s].status = "completed" =>
                 \E r \in Runs : SubmissionOf[r] = s /\ Completed(r) \in consumed

\* The comment on UpdateByRunID (tracker.go:79): it sets the status for a submission
\* given its run_id.  With run.started and run.completed of its only run both
\* handled, and no restart or failure, an accepted submission is not left running.
CompletedIsShown ==
    \A s \in Submissions, r \in Runs :
        /\ restarts = 0 /\ upload[s] = "accepted" /\ starting = None
        /\ SubmissionOf[r] = s /\ \A q \in Runs : SubmissionOf[q] = s => q = r
        /\ {Started(r), Completed(r)} \subseteq consumed /\ Failed(s) \notin consumed
        => entries[s].status # "running"

=============================================================================
