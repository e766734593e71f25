# TradeBench in TLA+

TradeBench runs trading bots of contestants in containers, drives load at them, measures them
and ranks them. It is a set of Go services under `apps/` that talk over Kafka, with Redis,
TimescaleDB and MinIO behind them and a browser in front. No service shares memory with
another; inside a service a handful of goroutines share maps under mutexes, channels and a
semaphore. This directory models the parts of it whose correctness depends on the order of
steps: what happens between two locks, between a write and a publish, between a publish and a
commit, and what a crash leaves.

Paths in comments are those of the component a module names in its header; `src/` is the
repository.

## The system

```
 browser --POST--> gateway --> submission --submission.queued--> sandbox --run.started--> bots
    ^                              ^                                 |                      |
    |                              |<-- run.started, run.completed --+        telemetry.events
    |                              |    score.updated, submission.failed                    |
    |                              |                                                        v
    +--websocket-- leaderboard <--score.updated-- scorer <--run.completed-- ingester <------+
```

All topics have six partitions, and the writers use the `LeastBytes` balancer, which spreads
messages over them without regard to their key: **nothing orders two messages, even of one
run**. Every module takes that as given.

| Component | State | Operations | What is hard |
|---|---|---|---|
| submission (`apps/submission`) | tracker: submission → contestant, status, run, score; in memory | upload: store, publish, `Set(queued)`; four consumers: `Set`, `SetRunID`, `UpdateByRunID`, `UpdateScoreByRunID`; `GET` | the handler tracks after it has published; four topics in any order; status and run id set in two critical sections; restart forgets all |
| sandbox (`apps/sandbox`) | containers, timers, a semaphore of `SANDBOX_MAX_CONCURRENT` slots, the committed offset | fetch, pull, create, copy, start, health check, publish, terminate after the run | every call can fail with a container up; workers commit out of order; timers die with the process |
| bots (`apps/bots`) | runs in progress, a semaphore, a telemetry channel per run | read `run.started`, drive orders for the duration, publish telemetry without acknowledgement | committed before it is done; load that outlives the container or the window |
| ingester (`apps/ingester`) | a window per run (histogram, counters, fills), contestant ids; in memory | `AddEvent`, `SetContestantID`, `CheckCompleted`, `Validate`; flush: insert, publish | three goroutines and two kinds of lock; offsets committed while the data is in memory; a replay that must agree with an engine it did not see |
| scorer (`apps/scorer`) | `tradebench:leaderboard`, metrics hashes in Redis | read `run.completed`, `ZADD GT`, `HSET`, publish `score.updated` | never commits, so every restart replays all runs |
| leaderboard (`apps/leaderboard`) | `leaderboard:top`, metrics hashes; the hub's set of clients and their channels | read `score.updated`, update, broadcast; register, snapshot, unregister | commits before it has handled; snapshot against updates; slow clients; several goroutines that unregister one client |
| browser (`apps/frontend`) | entries of the leaderboard; the status of a submission, an interval and a timeout in refs | apply snapshot and updates; reconnect; submit, poll, time out, reset | answers that arrive late, of a submission the form has left |
| gateway (`apps/gateway`) | a token bucket per contestant | authenticate, limit, forward | polls and posts draw on one bucket |

What makes each correct, in a sentence:

- *window manager*: each event given to it is in exactly one report, and a report names its
  contestant;
- *ingester*: what is committed to Kafka, or counted, is reported, and once for each time that it is
  delivered;
- *scorer*: its set holds the best score of each contestant, whatever is replayed;
- *leaderboard stores*: a score is shown with its own metrics, unless it was written while it was
  read, and is recorded first;
- *hub and view*: a browser that is connected and up to date shows what Redis holds; one that is not
  is disconnected; no channel is closed twice;
- *submission*: a client that was answered 202 finds its submission, with its own contestant and its
  own run;
- *sandbox*: every container has someone to terminate it; every submission is handled, or one of a
  bounded number that a crash skipped, or waits for a call that hangs;
- *bots*: every run is driven, once unless a commit went back or came after a rebalance; its orders
  meet its container and its answers the window; every event reaches the topic or is lost by the
  writer alone;
- *fill validator*: a correct engine is judged wrong only for a cause that can be named;
- *formula*: a score is within 0 and 100, and a better run scores no less;
- *submission form*: it shows the submission it is of, and does not spin forever.

## Modules

| Module | Models | Composes |
|---|---|---|
| `RunLedger` | what the window manager promises: abstract specification | – |
| `WindowManager` | `window.go` | implements `RunLedger` |
| `Ingester` | `consumer/kafka.go`, `db/timescale.go`, `publisher/kafka.go` | drives `WindowManager` (EXTENDS) |
| `ScoreBoards` | the loops and Redis stores of scorer and leaderboard and the topic between them | two services |
| `BoardView` | leaderboard consumer, hub, websocket handler, `useLeaderboard.ts` | consumer, Redis, hub, connections, browser |
| `StatusTracker` | upload handler, tracker, four consumers | – |
| `Sandbox` | loop, workers, timers | – |
| `BotFleet` | the loop, semaphore and commits of the bots; the clock of a run | bots, the sandbox's timer |
| `FillValidator` | `correctness/orderbook.go`, `correctness/validator.go` | – |
| `BotRun` | the workers of one run, its telemetry channel, publisher and topic, the fill list | bots, a contestant's engine, `FillValidator` (EXTENDS) |
| `Formula` | `scoring/formula.go` | – ; gives `MCScoreBoards` its scores |
| `SubmitFlow` | `useSubmitCode.ts`, the buttons of `SubmitForm.tsx`, the gateway's limiter | browser, gateway, submission service |
| `…Proofs` | theorems about the module of that name, `IngesterProofs` also about `WindowManager`, `BotRunProofs` about `FillValidator`, `ScoreBoardsProofs` about `Formula` | – |
| `MC…` | constants for TLC | – |

Operators named `X_Y` (`CheckCompletedTake_Keep`) are mutants: what `X` would be with a
plausible bug. No specification uses them. Each property is violated when one of them takes
the place of its `X`, so that none of the properties holds whatever the code does.

### WindowManager and RunLedger

The unit of a step is a critical section. `AddEvent` has two, under `m.mu` and `w.mu`:
`AddEventFind`/`AddEventOpen`, then `AddEventRecord`. `SetContestantID` likewise has
`SetContestantIDStore` and `SetContestantIDUpdate`. `CheckCompleted` holds `m.mu` throughout
and is one step per window it visits (`Lock`, `Take` or `Skip` for each run, `Unlock`), in any
order, as Go ranges over a map.

A window is a pointer in Go that `AddEvent` may hold after the map has forgotten it. It is named
by the event that opened it; `heap` keeps forgotten windows, `windows` is the map. Histogram,
counters and fill list are functions of the events recorded, so `counted` stands for them all,
and a report holds that set. Ages advance by `Tick` and stop at `Due`, beyond which the code
tells no ages apart.

`RunLedger` has no windows and no locks: an event is added, counted, and reported with all those
counted for its run; an event whose `AddEvent` is in progress while its run is reported may be
dropped. `ImplementsLedger` says that the manager does just this, under the mapping
`ledgerStatus`, `ledgerAdding`, `ledgerLate`.

### Ingester

Adds to the manager the two readers with their commits (the telemetry reader in the background
once a second, the other after each message), the ticker's flush (`Insert`, then `Publish`, each
of which may fail), a rebalance of the telemetry group under the process, and a crash at any point.
An event of the manager is one delivery: `MessageOf` names the message it is of. `unread` is what
the reader has still to deliver; a message leaves it when it is fetched, and comes back if its
offset is not committed when the group is rebalanced (`Rebalance`; the offsets that are queued are
sent then, and that may fail) or the process is restarted (`Crash`). The windows know nothing of a
rebalance, so that a message delivered twice is two events, in one window or in two. `run.started`
may come again too, once there was a rebalance, if its commit failed. A message that is never
delivered stands for one lost or not yet sent. A publish that returns an error is taken not to have
reached the broker.

### ScoreBoards

Scorer: `FetchCompleted`, `Upsert` (one `ZADD GT`, and the test of its answer), `SetMetrics`,
`PublishScore`. Leaderboard: `ReadScore`, `UpdateScore` (a transaction), `CommitScores`. A
failing call may or may not have had its effect. Metrics are named by the run they are of.
The handler of the leaderboard reads by `Top50`, which is two calls: `RangeScores` takes the scores,
and `TopRow` is the row made of them when the metrics are read, at any later moment until
`ReturnRows`; `overtaken` keeps whose rows were written in between. `SeedDemoData` puts scores
without metrics into an empty set when the leaderboard starts.
The scorer commits nothing, so a restart reads every run again; the leaderboard commits
what it has read. Copies of one `score.updated` read since the last commit are kept as a set:
after a crash, at least one is read again.

### BoardView

`UpdateScore`, then `BroadcastJSON`, which blocks on a full channel. The hub is one goroutine
and each case of its `select` a step. The handler is cut where another goroutine can come in
between: upgrade, `Register`, the read of the scores, the read of the metrics with the write of
the snapshot, the start of the two goroutines. A client whose channel is full misses the message
and gets a goroutine that waits to unregister it. Contestants are fewer than 50, so that
`Top50` returns them all. The hook's reconnect is another connection.

### StatusTracker

`Publish` and `Track` are the two halves of the handler; each consumer is one step, but for
`consumeStarted`, which calls `Set` and `SetRunID` separately. The four readers commit in the
background, each for itself, and a restart empties the tracker and reads again what was not
committed. `submission.failed` is an input of this module, although no message of it is ever
sent (see below).

### Sandbox

`Fetch` and `Dispatch` are the loop before and after the semaphore; a worker is one step per
call of `process` that can fail. `BootContainer` stands for the calls once the container exists
(copy, start, inspect, health checks), all of which lead to the teardown. A container survives
the process and keeps its name. The broker keeps the last offset it is sent. Durations are left
out: a timer fires at any time. The pull and the calls of Docker run under a context without a
deadline: `Hang` is such a call that never returns, and its worker keeps its slot until the process
is restarted.

### BotFleet

`ReadMessage` is two steps: `Fetch` gets the next run, and `CommitRead` commits it and returns it
to the loop; `CommitReadFails` is the error of that commit, after which the message is gone. A crash
or a rebalance may come in between, and then the next process fetches the run too; `exposed` names
such runs. `Dispatch` passes the semaphore; `CommitAndRelease` commits the message a second time
when the run is over. The partition may pass to another process, with the death of the first
(`Crash`, which is also what SIGTERM does: the context is cancelled) or without (`Rebalance`: the
first goes on with what it has).

Time is counted in periods of a bot's ticker and is written as what is left of it: of a run, of
its container, of a request; and of the time an event has waited for room in the telemetry channel
(`held`): `Answer` ends the request and `HandOver` is the send to the channel, which has no timeout
in the code. A ticker has a channel of capacity one, so a tick that falls into a
long request waits for its end (`tick` = "early", if it is from before the end of the run: the code
compares the time of the tick, not of the moment). `Pass` is not enabled while a bot has a tick it
could take, or a request the client has given up: those take no time. `MaxHeld` bounds the wait for
the channel in the model; `BotRun` has the channel and the publisher that makes room in it.

### FillValidator and BotRun

`FillValidator` holds operators only: the replay's book as two sequences of price levels, and
`Validate`, whose loop is a recursive function of the number of turns (`Replay`). `sort.Slice` is
any permutation that leaves nothing before a smaller one (`Sort`). `BotRun` says which events there
can be. A worker stamps an
order, calls the engine, makes an event of the answer and waits for room in the channel. The engine
is the contestant's and external; it is a correct one here, which makes every fill judged wrong
a matter of the path from it to the verdict. The model keeps for each order what the engine hit
(`hit`), which is what the verdict is compared with.

Some things the code does that this leaves out: two orders with the same nanosecond; a message
that Kafka delivers twice. Some it shows, without a property: the replay's book never gives up a
resting order that was filled, so that an unfilled market order is judged wrong when the engine's
book was empty and the replay's is not; an answer without `correct_fill` counts as filled.

### Formula

Floats are integers of fixed scales, which make every term exact. `MCScoreBoards` takes its
scores from it: a worse and a better run of one contestant.

### SubmitFlow

Calls of `submitCode` are numbered; each goes through its token, its post, and its polls. A poll
is answered by what was true at some moment on its way, and may be answered at any time after. The
two refs are set and cleared together and are one variable, but the intervals and timeouts they
name are kept apart from them, since they may be overwritten. `Tick` is a second: every interval
polls and the bucket fills. With `GLOBAL_RPM` 100 a request takes 3 of what 5 come back each
second. One form per contestant is assumed; the submission service (`Advance`) is external.

## Runs

| Run | Instance and bounds | Shows |
|---|---|---|
| `window_manager` | 2 runs, 3 + 1 events, `DurationSecs` 1, `GraceSecs` 2 | all the invariants of the manager, `FirstReportNamesContestant`, `ImplementsLedger` |
| `ingester` | 1 run, 3 messages, each delivered once | `CommittedIsReported`; with fairness `CountedIsReported` |
| `ingester_crash` | 1 run, 1 message, delivered up to twice to a process; 1 restart, 1 rebalance | `PublishedOnce`, `RecountedByRedelivery` |
| `score_boards` | a worse and a better run of one contestant, and a seeded name; 2 restarts; calls fail | `BestOfUpserted`, `TopRowsOfOneRun`, `BoardNotAhead` |
| `board_view` | 3 runs, 2 of one contestant, 1 connection, channels of capacity 1 | `ChannelsClosedOnce`, `ViewIsCurrent`; with fairness `MissedIsClosed` |
| `status_tracker` | 2 submissions, one run twice and one never; 1 restart | `AcceptedIsFound`, `ReportsItsOwnRuns` |
| `sandbox` | 3 submissions, 2 slots, 1 restart | `ContainersAreOwned`, `TimersHaveContainers`, `CrashesSkipFew`; with fairness `FetchedIsHandled` |
| `bot_fleet` | 2 runs, 1 slot, a run of 2 ticks, a request of up to 2, a wait for the channel of up to 1, a container of 2 more; 1 crash or rebalance | `PromptRunsMeetContainer`, `LastAnswerBounded`, `BegunTwiceIsExplained`, `NoRunVanishes`; with fairness `NoneHeldForGood` |
| `bot_run` | 2 bots, 3 orders out of 5 kinds on two prices, a channel of capacity 1, 1 fault | `WrongFillsHaveACause`, `FirstLevelIsBest`, `EventsAreConserved`; with fairness `RunDrains` |
| `submit_flow` | 2 calls, 2 polls of a call on their way at once, a timeout of 3 s, a burst of 4 requests | `OnlyLateAnswersConfuse`, `PollsLeaveTokens`; with fairness `FormSettles` |

The type invariants of `WindowManager`, `ScoreBoards`, `BoardView`, `StatusTracker`, `Sandbox` and
`BotRun` are checked with them; those of `Ingester`, `BotFleet` and `SubmitFlow` are proved.

Why the bounds are enough to be of use: a race of the manager needs one event that opens a window,
one that is between its sections when the window is reported, and one that comes after; the other
run shows that nothing leaks across runs. Three deliveries of one message, to two processes, are as
many as one restart and one rebalance allow. Two of the runs of `score_boards` and `board_view` are
of one contestant, the least with an order to get wrong. Channels of capacity 1 are full after one
message, so that with three messages a client is dropped twice over. Three submissions on two slots
have one waiting while two are committed in either order. One restart separates a first process from
one that finds what it left. Two runs on one slot of the bots have one that waits while its
container is counted down, and that is committed before the one it waits for, whose own commit then
puts the offset back. A run of two ticks and a request of two are the least with a tick that was due
in time, waits behind a request and is sent after the end. With one slot no two runs of a process
end out of order; the four invariants of the run are proved for any number of slots and runs. In the
deployed system a request may take 50 ticks and a container outlives its run by 300. Three orders
are the least for a wrong verdict: one that rests, one that hits it, and one that comes between. A
second call of `submitCode` is what a late answer of the first can disturb. `MaxRestarts`,
`MaxRebalances`, `MaxMoves`, `MaxHeld`, `MaxOrders`, `MaxFaults`, `MaxCalls`, `MaxOut`, `Last` and
the sizes of the sets are bounds of the models; `MaxConcurrent`, `SendCap`, `BroadcastCap`,
`ChannelCap`, `DurationSecs`, `GraceSecs`, `Duration`, `Grace`, `ClientTimeout`, `Timeout` and
`Burst` are parameters of the code, made small. The theorems below have none of these bounds.

`bot_run` and `submit_flow` are checked without deadlock: a run ends, and a form that was left, or
has no calls left, has nothing to do.

### Where the code and its comments disagree

Two runs check what a comment says and end in a counterexample.

| Run | Says | Does |
|---|---|---|
| `score_metrics` | scorer `redis.go:43`: "The score was updated (or added), so update the metrics hash as well" | `ZADD` answers with members *added*: on a better second run the metrics stay those of the first |
| `tracker_completed` | `tracker.go:79`: `UpdateByRunID` sets the status for a submission given its run_id | handled before `run.started` it finds nothing, and the submission stays running |

Others were met on the way and are part of the models, without a run of their own:

- `window.go:122-123` says that the mapping of contestants "survives event ordering races".
  `CheckCompleted` deletes it at 154, between the two sections of `SetContestantID` or before a
  straggler's second window: a report with an empty contestant. `FirstReportNamesContestant` is
  what holds.
- `window.go:169-170` promises that stragglers are ingested before completion. An event looked
  up before and recorded after the report is in no report. `AtMostOneLost` bounds this to one
  event of a window, and `RunLedger` has it as `Drop`. And `LastAnswerBounded` allows answers long
  after the 2 s that the ingester waits: the client's timeout is 5 s, the tick that waited
  behind a request sends one more, and a full channel may hold that tick up for any time.
- `Readme.md:21` has the leaderboard's scores updated with `GT`; the leaderboard's own set is
  written without it (`redis.go:42`), and a later, worse run lowers the score shown.
- `Readme.md:53` says of `run.completed` "All telemetry persisted". `flushCompleted` logs an
  error of `Insert` and publishes all the same (`consumer/kafka.go:103`).
- `Readme.md:131` allows 4 concurrent sandboxes; the slot is free when `process` returns, a minute
  or more before its container is terminated.
- `docs/api-contract.md:95-96` answers a running submission with its run id; between `Set` and
  `SetRunID` it has none (submission `consumer/kafka.go:130-131`).
- The sandbox's writer is made with a topic (`publisher/kafka.go:37`) and `PublishFailed` gives
  its message another one (66): kafka-go refuses such a message, so that `submission.failed`,
  announced by the comment at `consumer/kafka.go:97`, is never sent.
- `useSubmitCode.ts:102-103` sets the timeout "so the UI doesn't spin forever". An answer
  "running" that arrives after the timeout sets the status back when nothing is left to poll or to
  time out. An answer that arrives after a new call was made shows the score of the old one, or
  ends the wait of the new one, so that calls meet and the refs lose an interval that nobody
  clears. `FormSettles` and `OnlyLateAnswersConfuse` say that this takes a late answer.
- `formula.go:10` says that anything worse than the baselines scores zero, 100 TPS among them
  (13); `throughputComponent` gives a lower throughput its share of 1000.

## Fairness

Only what the scheduling of goroutines and the timeouts of calls justify, and what is named as an
assumption where the code has no timeout; nothing makes a message, a submission or a browser arrive,
and nothing makes a crash happen.

- `Ingester`: weak fairness of the second section of `AddEvent`, of the flush (ticker, scan,
  `Insert`, `Publish`) and of the clock. A goroutine that can take an uncontended mutex does; a
  call returns with or without an error. Which of the two is not constrained. That `Insert` and
  `Publish` return at all is an assumption: the code gives them no deadline of its own.
- `Sandbox`: of each worker whose call does not hang, and of `Dispatch`. Which calls hang is not
  constrained: the pull and Docker have no deadline, so `FetchedIsHandled` says what such a call
  costs, its submission and its slot, and that the loop stops when all slots are lost so.
- `BoardView`: of the hub, of the goroutines that unregister, of the handler's reads and writes,
  of the writer, and of a reader whose connection is closed. That a write to a websocket returns
  rests on the browser reading or TCP giving up: the code sets no write deadline.
- `BotFleet`: of the steps of each loop, of those of each run's goroutine, and of time, which
  stands still only for what the client's timeout, an idle bot or the channel will end. That
  `CommitMessages` returns, with or without an error, and that the channel has room in the end are
  assumptions: the code sets no limit to either (`RunDrains` is about the channel).
- `BotRun`: of the end of a request, of each worker's return, of the hand-over to a channel with
  room, of the publisher and of the close. Nothing makes an engine answer.
- `SubmitFlow`: of each request ending, in an answer or an error, of the timeout and of time.
  Browsers and the gateway's `WriteTimeout` end requests; nothing makes a submission advance.

## Proofs

TLAPS proves the following for every value of the constants, from the assumptions the modules
name (`ConstantsAssumption`, `IngesterAssumption`, `EntryAssumption`: functions have their
domains, bounds are natural numbers, `None` is none of the values it stands in for). Every type
invariant, every safety invariant and every action property that the passing runs check is a
theorem.

| Module | Theorems | Argument |
|---|---|---|
| `IngesterProofs`, of `WindowManager` | types, `OpenerReported`, `ContestantAgreement`, `EventsReportedOnce`, `AtMostOneLost`, `FirstReportNamesContestant`, `ImplementsLedger` | one inductive invariant in three layers, below |
| `IngesterProofs`, of `Ingester` | types, `PublishedOnce`, `CommittedIsReported`, `RecountedByRedelivery`, `ImplementsLedger` for the whole process | `DrivesManager`: every step of the process is one of the manager or leaves it alone, so the manager's invariant carries over; `Delivery` adds that each snapshot is waiting, on its way, published or failed; `Recounts`, below, what earlier processes published and how often this one was given a message |
| `ScoreBoardsProofs` | types, `BestOfUpserted`, `TopRowsOfOneRun`, `BoardNotAhead` | by a strengthening with the messages on their way: what is announced was upserted or lost; and by `Keys`: both keys of a name are of one run, or the score is seeded, and a `Top50` between its reads knows every score that was not written since |
| `StatusTrackerProofs` | types, `AcceptedIsFound`, `ReportsItsOwnRuns` | `Set` never overwrites a known contestant, field by field |
| `SandboxProofs` | types, `ContainersAreOwned`, `TimersHaveContainers`, `CrashesSkipFew` | `Handover`, how a container passes from worker to timer; `Order`, that submissions are fetched in order, so that what a crash skips is what the workers held |
| `BoardViewProofs` | types, `ChannelsClosedOnce`, `ViewIsCurrent` | a client is registered once, before anything asks for its removal; `FedAgree`, below, what is still on its way to a view |
| `BotFleetProofs` | types, `LastAnswerBounded`, `PromptRunsMeetContainer`, `BegunTwiceIsExplained`, `NoRunVanishes` | `Once`: a process drives a run once; `Timing` and `Outlived` for the clock, `ReadOnce` and `Gapless` for the offsets, `Counts` for what a crash takes; below |
| `SubmitFlowProofs` | types, `OnlyLateAnswersConfuse`, `PollsLeaveTokens` | `Known`: only calls that were made have a stage, a submission or polls; `Submitting`: while a call waits for its token or post, the refs are null and the form says so |
| `BotRunProofs`, of `FillValidator` | `ReplayKeepsBestFirst`, `CrossingFillIsCorrect`, `CorrectFillCrosses`, for every list of events | induction over the turns of the loop, below |
| `BotRunProofs`, of `BotRun` | types, `EventsAreConserved`, `FirstLevelIsBest`, `WrongFillsHaveACause` | `Conserved`: the places of an event do not overlap and are counted; `Engine`: what was hit was there to be hit; the theorems on lists do the rest, below |
| `ScoreBoardsProofs`, of `Formula` | `ScoreIsInRange`, `BetterRunsScoreMore` | case by case over the thresholds; so `clamp` never changes a score |

**The invariant of the window manager.** None of its properties is inductive. `AtMostOneLost`
needs to know that the call between its sections is the only one that can still write to a
reported window, and that nothing of that window was lost before (`LossIsPending`); that needs
every window that holds events, or is held, to be live or reported (`ForgottenIsReported`), each
event to be in one window (`CountedOnce`) and the opener to come first (`OpenerFirst`).
All of it rests on where the pointers held by the map, the scan and the calls point (`Layout`).
`Naming` adds where the contestant of a run is known. The layers are proved in this order, one
step per action, each from those before.

`ImplementsLedger` is proved step by step: the section under `m.mu` is `Begin`; the section under
`w.mu` is `Count`, or `Drop` if the window was reported meanwhile; taking a window is `Report`;
every other step leaves the ledger as it is.

**`CrashesSkipFew`** bounds what out-of-order commits cost: at most `MaxConcurrent - 1`
submissions per crash. The committed offset is that of a submission some worker has handled;
the unhandled ones before it are in the hands of other workers, of which there are fewer than
slots. The next process starts after the offset and cannot touch them.

**The clock of a run.** `Timing` relates what is left of a run to what a bot is doing: a tick
from before the end is taken less than one client's timeout after it, since the request it waited
for began before; and a request is at most a timeout old. `LastAnswerBounded` is the sum of the two,
with the wait for the channel in between.
For `PromptRunsMeetContainer`, `Outlived` compares a run with its container: at the start a prompt
one has a timeout more, both lose one with each tick, and no order is sent a timeout after the end,
unless the channel held its bot up for as long.

**`BegunTwiceIsExplained`.** `ReadOnce` says of every run that no commit put back and no loss of
the partition caught between fetch and commit: it was begun once at most, and is then behind the
committed offset, so that no later process is given it; if a loop is at it and has still to commit
it, that loop's process holds the partition. `Counts` adds that each loss of the partition without a
crash exposes one run at most: the one its loop is at.

**`NoRunVanishes`.** The loop reads without gaps, so a run behind the reader was taken by a
process, or dropped by an error; a process gives up a run by driving it or by a crash. A run
behind the committed offset was behind the reader of some process when it was committed. The
runs in hand are those in slots and one that waits, which is the bound on what a crash takes.

**`PollsLeaveTokens`** holds since one interval is running at most, until an answer comes late, and
a second gives back what one poll takes (the assumption `Cost <= Refill`).

**`RecountedByRedelivery`** is not inductive: a restart empties `reports`, and with it what told the
messages of this process from those of others. `Recounts` adds up, for a telemetry message, the
messages of `run.completed` that count it and are of earlier processes, and its deliveries to this
one: together at most `restarts + rebalances`, and one more once the reader has no longer to deliver
it. A fetch uses that one up, a restart or a rebalance that brings the message back pays for it.
Within a process each report that counts the message counts a delivery of its own
(`OneForEachDelivery`, from `EventsReportedOnce`), so that a restart turns no more into earlier ones
than it had deliveries.

**`ViewIsCurrent`** speaks of a moment when nothing is on its way. `FedAgree` speaks of all: put
what a connection is still to be sent in a line (`Coming`: its channel, the hub's, the message
announced). The last of a contestant in that line, if any, is of the run that Redis holds; if there
is none, Redis holds what the scores read for the snapshot say, and once the snapshot is written
what the view shows. It holds of connections that have missed nothing, and of contestants whose
last `UpdateScore` did not fail (`stale`). Registering before the snapshot is read is what carries
the step from the line to the scores; that the hub and the writer keep the order carries the others.

**The validator, for every list.** The loop is a recursive function, and its values are known only once
it is shown to exist: `LoopTurns` does so, by induction over the set of turns for which there is
such a function. `NatInductionOnSet` is the form of induction that makes this possible: it asks for
a set instead of a predicate. In the same way `OrderOfKeys` shows that keys that differ can be put in
order, which is what makes `Sort` mean something. From there:

- `LoopKeepsBook`: after each turn each side is strictly best first and has no empty level, so that
  the first level is the best price and an empty side is one without orders;
- `OrderRests`: a limit order rests from its turn until a cancel of its id;
- `LoopHasSources`: what rests was put there by an event before and, if no two limit orders share
  an id, was not cancelled since: `RemoveOrder` takes the first order of an id on each side only, which
  is enough because no level lists an order twice (`BookOnce`) and no order rests at two prices.

`CrossingFillIsCorrect` and `CorrectFillCrosses` together say what the validator computes, on lists
without two limit orders of one id: a fill is correct if and only if a limit order of the other side
that it crosses was sent before it and not cancelled in between. With shared ids the second says less: an
order that a cancel left behind may count. Both ask that no two events have the same stamp.

**The run.** `WrongFillsHaveACause` is the first of these theorems read backwards: the order that
the engine hit is one that the fill crosses (`Engine`, which is inductive: it needs that a worker
that waits for an answer has sent nothing since, so that an order of its own that it hit is an
earlier one); if the fill is wrong, that order is not on the list, or later, or cancelled.
`EventsAreConserved` counts places, so `Conserved` says in addition that they do not overlap and
that a channel lists no event twice.

Only model-checked are the liveness properties (`CountedIsReported`, `FetchedIsHandled`,
`MissedIsClosed`, `NoneHeldForGood`, `RunDrains`, `FormSettles`): fairness is out of the
prover's reach. Not proved either is the ratio that `Validate` returns, as a number; nor are the
names of contestants in `run.completed` across restarts, of which no property speaks.

## Not modelled

- Messages that do not unmarshal: every loop skips them. Identifiers, JSON, logs.
- Numbers: histograms, percentiles, rates, the rounding of floats. A report is the set of its
  events; the correctness of a run is the sets of fills counted and judged correct.
- The puller's temporary directories, which a failed pull leaves behind (`puller/minio.go:50-63`).
- Ranks beyond 50, file validation, object storage. Of the gateway: signing and
  verifying tokens, routing and the websocket proxy, which keep no state; the limit on submissions
  is a refusal of `PostFails`.
- More than one replica of a service. The charts allow ten of the sandbox and five of
  the ingester, whose windows would then be split; of the bots, `BotFleet` has one after another.
- Rebalances under a live process of the groups of sandbox, scorer, leaderboard and submission: what
  is not committed is then read again by the same process. `Ingester` and `BotFleet` have them; in
  the others a restart is what has messages read again.
- The order of the messages of one partition in `Ingester`: each is committed for itself.
- What the code does and no property forbids: the hazards in `PROJECT.json` that have a note name
  it, among them the rows of `run_metrics` that miss when `Insert` fails, and the telemetry that a
  crash of the ingester loses.
- What the list of components in `PROJECT.json` marks as not modelled, with the reason there.

## What is left

In the order of what matters most.

1. `Pipeline`: one submission through all services, each reduced to what its module promises,
   and an abstract specification of its life (queued, running, completed or failed). It would take
   up the names of contestants across crashes (`run.started` is committed when its id is only in
   memory) and the submission that failed and is never told so.
2. `IngesterReplicas`: two ingesters in one consumer group. What of the manager's promises
   survives when the telemetry of a run is split.
3. `Validate` on a market order that was not filled, and on lists with events of the same stamp.

## Running

`tlc -config MCWindowManager.cfg MCWindowManager.tla`, and so on for each `.cfg`: those named
`…Violation.cfg` end in a counterexample. `tlapm IngesterProofs.tla` checks a module of proofs, the
longest of them in some minutes. The instances finish in seconds to three minutes on two workers.
