------------------------------ MODULE Ingester ------------------------------
(***************************************************************************)
(* The ingester process (apps/ingester): the window manager composed with  *)
(* the two Kafka readers that feed it, the ticker that flushes completed   *)
(* runs to TimescaleDB and to run.completed, and the crash of the process. *)
(*                                                                         *)
(* A topic has six partitions and its messages are spread over them        *)
(* without regard to their key, so a reader may deliver any message that   *)
(* is not committed and that it has not delivered since it was assigned    *)
(* the partition.  A rebalance of the group assigns it anew: what is not   *)
(* committed by then is delivered once more, to the same process, and is   *)
(* another event for the window manager.  A message that has not been      *)
(* delivered may as well not have been produced yet.                       *)
(* The telemetry reader commits in the background, once a second; the      *)
(* run.started reader commits each message before it fetches the next.     *)
(*                                                                         *)
(* Not modelled: messages that do not unmarshal (the telemetry loop skips  *)
(* them, kafka.go:84-87) and the ranges of the metrics, which are          *)
(* functions of the events of a report.                                    *)
(***************************************************************************)
EXTENDS WindowManager, FiniteSets

CONSTANTS
    Messages,       \* messages of telemetry.raw
    MessageOf,      \* the message of which an event is a delivery
    MaxRestarts,    \* bound: restarts of the process in a behaviour
    MaxRebalances   \* bound: rebalances of the telemetry group

\* The type of a RunSnapshot.
Snapshots == [window : Events, run : Runs, contestantID : Contestants \cup {None},
              events : SUBSET Events]

ASSUME IngesterAssumption ==
    /\ MessageOf \in [Events -> Messages]
    /\ \A e, f \in Events : MessageOf[e] = MessageOf[f] => RunOf[e] = RunOf[f]
    /\ MaxRestarts \in Nat /\ MaxRebalances \in Nat
    /\ None \notin Snapshots

VARIABLES
    unread,             \* telemetry the reader has still to deliver
    pending,            \* telemetry recorded, its offset not committed yet
    committed,          \* telemetry whose offset is committed
    committing,         \* the run.started message about to be committed
    startedCommitted,   \* run.started messages whose offset is committed
    outbox,             \* snapshots flushCompleted has still to deal with
    sending,            \* the one whose Insert is done and whose Publish is next
    db,                 \* rows of run_metrics
    completedTopic,     \* messages of run.completed
    unpublished,        \* snapshots whose Publish returned an error
    restarts,           \* restarts so far
    rebalances          \* rebalances of the telemetry group so far

telemetryVars == <<unread, pending, committed, rebalances>>
startedVars == <<committing, startedCommitted>>
kafkaVars == <<telemetryVars, startedVars>>
flushVars == <<outbox, sending, db, completedTopic, unpublished>>
ingesterVars == <<managerVars, kafkaVars, flushVars, restarts>>

IngesterInit ==
    /\ Init
    /\ unread = Messages /\ pending = {} /\ committed = {}
    /\ committing = None /\ startedCommitted = {}
    /\ outbox = {} /\ sending = None
    /\ db = {} /\ completedTopic = {} /\ unpublished = {}
    /\ restarts = 0 /\ rebalances = 0

---------------------------------------------------------------------------
(* The telemetry loop *)

\* FetchMessage, and AddEvent up to the release of m.mu.
FetchTelemetry(e) ==
    /\ MessageOf[e] \in unread
    /\ unread' = unread \ {MessageOf[e]}
    /\ AddEventFind(e) \/ AddEventOpen(e)
    /\ UNCHANGED <<pending, committed, rebalances, startedVars, flushVars, restarts>>

\* The rest of AddEvent, and CommitMessages, which only queues the offset.
RecordTelemetry ==
    /\ AddEventRecord
    /\ pending' = pending \cup {MessageOf[adder.event]}
    /\ UNCHANGED <<unread, committed, rebalances, startedVars, flushVars, restarts>>

\* The commit loop of the reader (CommitInterval: one second).
CommitTelemetry ==
    /\ pending # {}
    /\ committed' = committed \cup pending
    /\ pending' = {}
    /\ UNCHANGED <<managerVars, unread, rebalances, startedVars, flushVars, restarts>>

\* The group is rebalanced under the process, as after a missed heartbeat.  The
\* commit loop sends what is queued, and drops it if that fails; the reader starts
\* again at the committed offsets, and the windows know nothing of it.
Rebalance(ok) ==
    /\ rebalances < MaxRebalances
    /\ rebalances' = rebalances + 1
    /\ committed' = IF ok THEN committed \cup pending ELSE committed
    /\ pending' = {}
    /\ unread' = Messages \ committed'
    /\ UNCHANGED <<managerVars, startedVars, flushVars, restarts>>

---------------------------------------------------------------------------
(* The run.started loop *)

\* FetchMessage, and SetContestantID up to the release of m.mu.  After a rebalance a
\* message whose commit failed may come again.
FetchStarted(r) ==
    /\ r \notin announced \/ rebalances > 0
    /\ r \notin startedCommitted /\ committing = None
    /\ SetContestantIDStore(r)
    /\ UNCHANGED <<kafkaVars, flushVars, restarts>>

\* SetContestantID returns; the commit is next.
SetContestant ==
    /\ SetContestantIDUpdate
    /\ committing' = setter.run
    /\ UNCHANGED <<telemetryVars, startedCommitted, flushVars, restarts>>

\* CommitMessages, whose error is discarded.
CommitStarted(ok) ==
    /\ committing # None
    /\ startedCommitted' = IF ok THEN startedCommitted \cup {committing} ELSE startedCommitted
    /\ committing' = None
    /\ UNCHANGED <<managerVars, telemetryVars, flushVars, restarts>>

---------------------------------------------------------------------------
(* The ticker's goroutine: flushCompleted *)

FlushBegin ==
    /\ outbox = {} /\ sending = None
    /\ CheckCompletedLock
    /\ UNCHANGED <<kafkaVars, flushVars, restarts>>

FlushTake(r) ==
    /\ CheckCompletedTake(r)
    /\ outbox' = outbox \cup {Snapshot(r, windows[r])}
    /\ UNCHANGED <<kafkaVars, sending, db, completedTopic, unpublished, restarts>>

FlushScan ==
    /\ (\E r \in Runs : CheckCompletedSkip(r)) \/ CheckCompletedUnlock
    /\ UNCHANGED <<kafkaVars, flushVars, restarts>>

\* Mutant: an error of Insert ends the work on the snapshot.
Insert_Continue(s, ok) ==
    /\ ~scanning /\ sending = None /\ s \in outbox
    /\ db' = IF ok THEN db \cup {s} ELSE db
    /\ sending' = IF ok THEN s ELSE None
    /\ outbox' = outbox \ {s}
    /\ UNCHANGED <<managerVars, kafkaVars, completedTopic, unpublished, restarts>>

\* writer.Insert of the next snapshot: an error is logged and no more.
Insert(s, ok) ==
    /\ ~scanning /\ sending = None /\ s \in outbox
    /\ db' = IF ok THEN db \cup {s} ELSE db
    /\ sending' = s
    /\ outbox' = outbox \ {s}
    /\ UNCHANGED <<managerVars, kafkaVars, completedTopic, unpublished, restarts>>

\* publisher.Publish of the same snapshot: an error is logged and no more.
Publish(ok) ==
    /\ sending # None
    /\ completedTopic' = IF ok THEN completedTopic \cup {sending} ELSE completedTopic
    /\ unpublished' = IF ok THEN unpublished ELSE unpublished \cup {sending}
    /\ sending' = None
    /\ UNCHANGED <<managerVars, kafkaVars, outbox, db, restarts>>

---------------------------------------------------------------------------
\* Time passes.
Clock == Tick /\ UNCHANGED <<kafkaVars, flushVars, restarts>>

\* The process dies at any point and is started again: what is committed, inserted
\* and published stays, and the readers resume from the committed offsets.
Crash ==
    /\ restarts < MaxRestarts
    /\ restarts' = restarts + 1
    /\ Restart
    /\ unread' = Messages \ committed /\ pending' = {} /\ committing' = None
    /\ outbox' = {} /\ sending' = None
    /\ UNCHANGED <<committed, rebalances, startedCommitted, db, completedTopic, unpublished>>

IngesterNext ==
    \/ \E e \in Events : FetchTelemetry(e)
    \/ RecordTelemetry
    \/ CommitTelemetry
    \/ \E ok \in BOOLEAN : Rebalance(ok)
    \/ \E r \in Runs : FetchStarted(r)
    \/ SetContestant
    \/ \E ok \in BOOLEAN : CommitStarted(ok)
    \/ FlushBegin
    \/ \E r \in Runs : FlushTake(r)
    \/ FlushScan
    \/ \E s \in outbox, ok \in BOOLEAN : Insert(s, ok)
    \/ \E ok \in BOOLEAN : Publish(ok)
    \/ Clock
    \/ Crash

IngesterSafety == IngesterInit /\ [][IngesterNext]_ingesterVars

\* The goroutines of a live process are scheduled and the calls they make return;
\* the clock advances.  Nothing says that telemetry or run.started ever arrive, or
\* that a crash happens.
Fairness ==
    /\ WF_ingesterVars(RecordTelemetry)
    /\ WF_ingesterVars(FlushBegin)
    /\ WF_ingesterVars((\E r \in Runs : FlushTake(r)) \/ FlushScan)
    /\ WF_ingesterVars(\E s \in outbox, ok \in BOOLEAN : Insert(s, ok))
    /\ WF_ingesterVars(\E ok \in BOOLEAN : Publish(ok))
    /\ WF_ingesterVars(Clock)

IngesterSpec == IngesterSafety /\ Fairness

---------------------------------------------------------------------------
(* Properties *)

IngesterTypeOK ==
    /\ TypeOK
    /\ unread \subseteq Messages /\ pending \subseteq Messages /\ committed \subseteq Messages
    /\ committing \in Runs \cup {None} /\ startedCommitted \subseteq Runs
    /\ outbox \subseteq Snapshots /\ sending \in Snapshots \cup {None}
    /\ db \subseteq Snapshots /\ completedTopic \subseteq Snapshots
    /\ unpublished \subseteq Snapshots
    /\ restarts \in 0..MaxRestarts /\ rebalances \in 0..MaxRebalances

\* Without a restart no delivery is counted in two messages of run.completed, nor in
\* a published report and in a window that is still to be published
\* (window.go:153, kafka.go:96-121).
PublishedOnce ==
    restarts = 0 =>
        /\ \A s, t \in completedTopic : s # t => s.events \cap t.events = {}
        /\ \A s \in completedTopic : \A w \in Live : s.events \cap heap[w].counted = {}

\* A telemetry message counts again only where it was delivered again, because its
\* offset was not committed in time: the reports that count it are at most one for
\* each process and each rebalance (kafka.go:41, 89-90).
RecountedByRedelivery ==
    \A m \in Messages :
        Cardinality({s \in completedTopic : \E e \in s.events : MessageOf[e] = m})
            <= 1 + restarts + rebalances

\* What a message of run.completed says of the events of its window is exact, but for
\* one event at most: without a restart, of the telemetry committed for a window that
\* is not live, all but one event is in a report that is published, about to be, or
\* failed to be (kafka.go:89-90, 96-121).
CommittedIsReported ==
    restarts = 0 =>
        \A e, f \in {x \in Events : MessageOf[x] \in committed \cup pending} :
            LET Missing(x, w) ==
                    /\ x \in heap[w].counted /\ w \notin Live
                    /\ \A s \in outbox \cup {sending} \cup completedTopic \cup unpublished :
                           s # None => x \notin s.events
            IN \A w \in Events : Missing(e, w) /\ Missing(f, w) => e = f

\* An event that a live window has counted is reported in the end: its report is
\* published or its Publish fails, or the process restarts (window.go:141-172,
\* kafka.go:61-70, 96-121).
CountedIsReported ==
    \A e \in Events, n \in 0..MaxRestarts :
        restarts = n /\ (\E w \in Live : e \in heap[w].counted)
            ~> \/ restarts # n
               \/ \E s \in completedTopic \cup unpublished : e \in s.events

=============================================================================
