---------------------------- MODULE ScoreBoards ----------------------------
(***************************************************************************)
(* The two services that keep scores in Redis, and the topic between them: *)
(*   - the scorer (apps/scorer) reads run.completed, upserts the           *)
(*     contestant's score into a sorted set of its own and publishes       *)
(*     score.updated;                                                      *)
(*   - the leaderboard (apps/leaderboard) seeds another sorted set at its  *)
(*     start, reads score.updated and writes to that set, and reads it     *)
(*     with Top50 for the snapshot of a client.                            *)
(*                                                                         *)
(* A message is named by its run: contestant, score and metrics are        *)
(* functions of the run.  Topics are unordered.  The scorer never commits  *)
(* an offset, so that a restart reads all of run.completed again.  The     *)
(* leaderboard commits what it has read once a second, whether it has      *)
(* handled it or not: after a crash, what was read since the last commit   *)
(* is read again, and the rest is not.  Top50 reads the scores and then    *)
(* the metrics, in two calls; one reader stands for all of them, which     *)
(* change nothing.                                                         *)
(***************************************************************************)
EXTENDS Integers

CONSTANTS
    Runs,            \* the runs of run.completed
    Contestants,
    ContestantOf,    \* contestant of a run
    ScoreOf,         \* what scoring.Calculate gives for a run
    DemoScore,       \* what SeedDemoData gives a name; NoScore for the others
    CallsFail,       \* whether a call to Redis or Kafka may return an error
    MaxRestarts,     \* bound: restarts of the two services in a behaviour
    None             \* no job, no metrics

\* The score of a member that is not in a sorted set.
NoScore == -1

ASSUME ConstantsAssumption ==
    /\ ContestantOf \in [Runs -> Contestants]
    /\ ScoreOf \in [Runs -> Nat]
    /\ DemoScore \in [Contestants -> Nat \cup {NoScore}]
    /\ CallsFail \in BOOLEAN
    /\ MaxRestarts \in Nat
    /\ None \notin Runs

VARIABLES
    taken,       \* runs this scorer process has fetched
    job,         \* the run the scorer is at, and the call it makes next
    best,        \* tradebench:leaderboard
    metrics,     \* tradebench:metrics:*, by the run the values are of
    upserted,    \* runs whose ZADD GT has reached Redis (history)
    lost,        \* runs of which a ZADD GT has not (history)
    unread,      \* copies of each run's score.updated not read yet
    reading,     \* the run the leaderboard is at
    uncommitted, \* runs read by the leaderboard since it last committed
    board,       \* leaderboard:top
    boardMetrics,\* leaderboard:top:metrics:*
    top,         \* whether a Top50 is between its two reads
    ranged,      \* the scores it has read
    overtaken,   \* contestants written to since it read them (history)
    restarts

scorerVars == <<taken, job, best, metrics, upserted, lost>>
topVars == <<top, ranged, overtaken>>
boardVars == <<reading, uncommitted, board, boardMetrics, topVars>>
vars == <<scorerVars, unread, boardVars, restarts>>

Steps == {"upsert", "metrics", "publish"}

Errors == IF CallsFail THEN BOOLEAN ELSE {FALSE}

NoScores == [c \in Contestants |-> NoScore]

\* SeedDemoData at the start of the leaderboard: scores without metrics, when the set is
\* empty.  An error is logged or dropped.
SeedDemoData(error) ==
    IF board = NoScores /\ ~error THEN DemoScore ELSE board

Init ==
    /\ taken = {} /\ job = None
    /\ best = NoScores
    /\ metrics = [c \in Contestants |-> None]
    /\ upserted = {} /\ lost = {}
    /\ unread = [r \in Runs |-> 0]
    /\ reading = None /\ uncommitted = {}
    /\ board \in IF CallsFail THEN {DemoScore, NoScores} ELSE {DemoScore}
    /\ boardMetrics = [c \in Contestants |-> None]
    /\ top = "idle" /\ ranged = NoScores /\ overtaken = {}
    /\ restarts = 0

---------------------------------------------------------------------------
(* The scorer *)

\* FetchMessage and Calculate.
FetchCompleted(r) ==
    /\ job = None /\ r \notin taken
    /\ taken' = taken \cup {r}
    /\ job' = [run |-> r, next |-> "upsert"]
    /\ UNCHANGED <<best, metrics, upserted, lost, unread, boardVars, restarts>>

\* Mutant: ZADD without the flag.
ZAddGT_Plain(r) == [best EXCEPT ![ContestantOf[r]] = ScoreOf[r]]

\* Mutant: ZADD with the flag NX, which adds members and raises none.
ZAddGT_NX(r) ==
    IF best[ContestantOf[r]] = NoScore
    THEN [best EXCEPT ![ContestantOf[r]] = ScoreOf[r]] ELSE best

\* ZADD GT: a member is added, or raised to a greater score.
ZAddGT(r) ==
    IF ScoreOf[r] > best[ContestantOf[r]]
    THEN [best EXCEPT ![ContestantOf[r]] = ScoreOf[r]] ELSE best

\* Upsert up to the answer to ZADD, which counts the members added and not those
\* raised: only a new member goes on to the metrics hash.
Upsert(error) ==
    /\ job # None /\ job.next = "upsert"
    /\ best' = ZAddGT(job.run)
    /\ upserted' = upserted \cup {job.run}
    /\ job' = [job EXCEPT !.next =
                 IF best[ContestantOf[job.run]] = NoScore /\ ~error THEN "metrics" ELSE "publish"]
    /\ UNCHANGED <<taken, metrics, lost, unread, boardVars, restarts>>

\* The ZADD never reaches Redis: the error is logged and the loop goes on.
UpsertFails ==
    /\ CallsFail
    /\ job # None /\ job.next = "upsert"
    /\ lost' = lost \cup {job.run}
    /\ job' = [job EXCEPT !.next = "publish"]
    /\ UNCHANGED <<taken, best, metrics, upserted, unread, boardVars, restarts>>

\* Mutant: the hash is given the contestant where it should be given the run's metrics.
SetMetrics_Swapped(error) ==
    /\ job # None /\ job.next = "metrics"
    /\ metrics' = IF error THEN metrics
                  ELSE [metrics EXCEPT ![ContestantOf[job.run]] = ContestantOf[job.run]]
    /\ job' = [job EXCEPT !.next = "publish"]
    /\ UNCHANGED <<taken, best, upserted, lost, unread, boardVars, restarts>>

\* The HSET of Upsert.
SetMetrics(error) ==
    /\ job # None /\ job.next = "metrics"
    /\ metrics' = IF error THEN metrics ELSE [metrics EXCEPT ![ContestantOf[job.run]] = job.run]
    /\ job' = [job EXCEPT !.next = "publish"]
    /\ UNCHANGED <<taken, best, upserted, lost, unread, boardVars, restarts>>

\* Publish of score.updated, whose error is logged; the loop goes on without a commit.
PublishScore(error) ==
    /\ job # None /\ job.next = "publish"
    /\ unread' = IF error THEN unread ELSE [unread EXCEPT ![job.run] = @ + 1]
    /\ job' = None
    /\ UNCHANGED <<taken, best, metrics, upserted, lost, boardVars, restarts>>

\* The scorer restarts, from the first offset again.
RestartScorer ==
    /\ restarts < MaxRestarts
    /\ restarts' = restarts + 1
    /\ taken' = {} /\ job' = None
    /\ UNCHANGED <<best, metrics, upserted, lost, unread, boardVars>>

---------------------------------------------------------------------------
(* The leaderboard *)

\* ReadMessage: the message is as good as committed before it is handled.
ReadScore(r) ==
    /\ reading = None /\ unread[r] > 0
    /\ unread' = [unread EXCEPT ![r] = @ - 1]
    /\ reading' = r
    /\ uncommitted' = uncommitted \cup {r}
    /\ UNCHANGED <<scorerVars, board, boardMetrics, topVars, restarts>>

\* A row that is written while a Top50 is between its reads (history).
Overtakes(r) == IF top = "ranged" THEN overtaken \cup {ContestantOf[r]} ELSE overtaken

\* Mutant: the score and the metrics are written by two calls, the second of which fails.
UpdateScore_Split(error) ==
    /\ reading # None
    /\ board' = [board EXCEPT ![ContestantOf[reading]] = ScoreOf[reading]]
    /\ boardMetrics' = IF error THEN boardMetrics
                       ELSE [boardMetrics EXCEPT ![ContestantOf[reading]] = reading]
    /\ overtaken' = Overtakes(reading)
    /\ reading' = None
    /\ UNCHANGED <<scorerVars, unread, uncommitted, top, ranged, restarts>>

\* UpdateScore: ZADD and HSET in one MULTI.  The broadcast that follows changes no
\* state of this module.
UpdateScore(error) ==
    /\ reading # None
    /\ IF error THEN UNCHANGED <<board, boardMetrics, overtaken>>
       ELSE /\ board' = [board EXCEPT ![ContestantOf[reading]] = ScoreOf[reading]]
            /\ boardMetrics' = [boardMetrics EXCEPT ![ContestantOf[reading]] = reading]
            /\ overtaken' = Overtakes(reading)
    /\ reading' = None
    /\ UNCHANGED <<scorerVars, unread, uncommitted, top, ranged, restarts>>

\* The commit loop of the reader.
CommitScores ==
    /\ uncommitted # {}
    /\ uncommitted' = {}
    /\ UNCHANGED <<scorerVars, unread, reading, board, boardMetrics, topVars, restarts>>

\* Top50 reads the scores.
RangeScores ==
    /\ top = "idle"
    /\ top' = "ranged" /\ ranged' = board
    /\ UNCHANGED <<scorerVars, unread, reading, uncommitted, board, boardMetrics, overtaken,
                   restarts>>

\* The row of a name that Top50 found a score of, and whose HGETALL it sends now.  The error
\* of the pipeline is dropped: without an answer the row is returned without metrics.
TopRow(c, answered) ==
    [score |-> ranged[c], metrics |-> IF answered THEN boardMetrics[c] ELSE None]

\* Top50 reads the metrics and returns the rows, which the leaderboard does not keep.
ReturnRows ==
    /\ top = "ranged"
    /\ top' = "idle" /\ ranged' = NoScores /\ overtaken' = {}
    /\ UNCHANGED <<scorerVars, unread, reading, uncommitted, board, boardMetrics, restarts>>

\* The leaderboard restarts, seeds an empty set and reads again what it had not committed.
RestartBoard(error) ==
    /\ restarts < MaxRestarts
    /\ restarts' = restarts + 1
    /\ unread' = [r \in Runs |-> IF r \in uncommitted THEN unread[r] + 1 ELSE unread[r]]
    /\ uncommitted' = {} /\ reading' = None
    /\ board' = SeedDemoData(error)
    /\ top' = "idle" /\ ranged' = NoScores /\ overtaken' = {}
    /\ UNCHANGED <<scorerVars, boardMetrics>>

Next ==
    \/ \E r \in Runs : FetchCompleted(r)
    \/ \E error \in Errors : Upsert(error)
    \/ UpsertFails
    \/ \E error \in Errors : SetMetrics(error)
    \/ \E error \in Errors : PublishScore(error)
    \/ RestartScorer
    \/ \E r \in Runs : ReadScore(r)
    \/ \E error \in Errors : UpdateScore(error)
    \/ CommitScores
    \/ RangeScores
    \/ ReturnRows
    \/ \E error \in Errors : RestartBoard(error)

Spec == Init /\ [][Next]_vars

---------------------------------------------------------------------------
(* Properties *)

TypeOK ==
    /\ taken \subseteq Runs /\ upserted \subseteq Runs /\ lost \subseteq Runs
    /\ job \in [run : Runs, next : Steps] \cup {None}
    /\ best \in [Contestants -> Nat \cup {NoScore}]
    /\ metrics \in [Contestants -> Runs \cup {None}]
    /\ unread \in [Runs -> Nat]
    /\ reading \in Runs \cup {None} /\ uncommitted \subseteq Runs
    /\ board \in [Contestants -> Nat \cup {NoScore}]
    /\ boardMetrics \in [Contestants -> Runs \cup {None}]
    /\ top \in {"idle", "ranged"} /\ ranged \in [Contestants -> Nat \cup {NoScore}]
    /\ overtaken \subseteq Contestants
    /\ restarts \in 0..MaxRestarts

UpsertedOf(c) == {r \in upserted : ContestantOf[r] = c}

\* Upsert keeps the best score only (scorer redis.go:31-37): however the runs are
\* ordered, replayed after a restart or failed in part, the score of a contestant is
\* the greatest of the runs that reached Redis.
BestOfUpserted ==
    \A c \in Contestants :
        /\ \A r \in UpsertedOf(c) : ScoreOf[r] <= best[c]
        /\ best[c] # NoScore => \E r \in UpsertedOf(c) : ScoreOf[r] = best[c]

\* What Top50 returns (leaderboard redis.go:53-86), though it reads scores and metrics in
\* two calls while the consumer writes, drops the error of the second and may find seeded
\* names: a row combines two runs only if it was written between the two reads, and then two
\* runs of its own contestant; it is without metrics only if their read was not answered or
\* the score is a seeded one.
TopRowsOfOneRun ==
    \A c \in Contestants, answered \in BOOLEAN :
        top = "ranged" /\ ranged[c] # NoScore =>
            LET row == TopRow(c, answered) IN
            IF row.metrics = None THEN answered => row.score = DemoScore[c]
            ELSE /\ ContestantOf[row.metrics] = c
                 /\ ScoreOf[row.metrics] = row.score \/ c \in overtaken

\* A score is recorded before it is announced (scorer kafka.go:80-93): the leaderboard
\* is never ahead of the scorer's own set, but for a run whose upsert failed and that
\* was announced all the same.  A score without metrics is a seeded one, of no run.
BoardNotAhead ==
    \A c \in Contestants :
        IF boardMetrics[c] = None THEN board[c] \in {NoScore, DemoScore[c]}
        ELSE board[c] <= best[c] \/ boardMetrics[c] \in lost

\* The comment in Upsert (scorer redis.go:43): when the score is updated the metrics
\* hash is updated as well.  Between two runs, with no error and no restart, the
\* metrics are those of the best score.
MetricsOfBest ==
    ~CallsFail /\ restarts = 0 /\ job = None =>
        \A c \in Contestants : metrics[c] # None => ScoreOf[metrics[c]] = best[c]

=============================================================================
