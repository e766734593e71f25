------------------------------ MODULE BotFleet ------------------------------
(***************************************************************************)
(* The bots service (apps/bots) and the containers it drives: a loop that  *)
(* fetches run.started and commits it, a semaphore of MaxConcurrent slots, *)
(* and for each run a goroutine that drives orders for Duration, closes    *)
(* its telemetry channel and commits the message once more.                *)
(*                                                                         *)
(* Runs are the messages 1, 2, ... of one partition, whose broker keeps    *)
(* the last offset it is sent.  The process that holds the partition may   *)
(* lose it, by a crash or by a rebalance of the group; the next one reads  *)
(* from the committed offset, and a process that lost it without a crash   *)
(* goes on with the runs it has in hand, and commits them.                 *)
(*                                                                         *)
(* The unit of time is the period of a bot's ticker.  All times are left   *)
(* to go, so that no clock is needed: of a run, of the container that the  *)
(* sandbox terminates Grace after a run that started at once, and of a     *)
(* request that the HTTP client gives up.  A bot may wait for room in the  *)
(* telemetry channel, for any time; BotRun has the publisher that makes    *)
(* it.  The bots of a run differ only in when their tickers start; the one *)
(* that is last stands for all.                                            *)
(***************************************************************************)
EXTENDS Integers, FiniteSets

CONSTANTS
    Last,            \* the runs are 1..Last
    MaxConcurrent,   \* BOTS_MAX_CONCURRENT_RUNS
    Duration,        \* duration_secs of a run, in ticks
    Grace,           \* the 30 s a container outlives its run, in ticks
    ClientTimeout,   \* the 5 s after which the HTTP client gives up, in ticks
    MaxHeld,         \* bound: ticks that a bot waits for room in the channel
    MaxMoves         \* bound: times the partition passes to another process

ASSUME ConstantsAssumption ==
    /\ Last \in Nat
    /\ MaxConcurrent \in Nat \ {0}
    /\ Duration \in Nat \ {0}
    /\ Grace \in Nat
    /\ ClientTimeout \in Nat \ {0}
    /\ MaxHeld \in Nat
    /\ MaxMoves \in Nat

Runs == 1..Last
Processes == 0..MaxMoves
Drives == Processes \X Runs

VARIABLES
    published,    \* runs 1..published have been started by the sandbox
    container,    \* time until the container of a run is terminated; 0 is gone
    owner,        \* the process that holds the partition
    position,     \* the last run it has fetched
    committed,    \* the committed offset: the last run not to be read again
    waiting,      \* the run the loop of a process is at, or 0
    reading,      \* processes at a run that ReadMessage has yet to commit
    bot,          \* what the goroutine of a run is doing
    left,         \* time until the end of a run, negative afterwards
    tick,         \* the tick in the ticker's channel, before or after the end
    call,         \* time a request has taken so far
    held          \* time the last event of a bot has waited for the channel

VARIABLES         \* history
    prompt,       \* drives that began early enough for their container
    begun,        \* how often a run was begun
    rewound,      \* runs a commit has put back behind the committed offset
    exposed,      \* runs fetched and not committed when the partition was lost
    driven,       \* runs driven to their end
    cut,          \* runs in the hands of a process that crashed
    dropped,      \* runs whose commit failed, so that ReadMessage gave an error
    crashed       \* processes that crashed

brokerVars == <<owner, position, committed>>
loopVars == <<waiting, reading>>
driveVars == <<bot, left, tick, call, held>>
historyVars == <<prompt, begun, rewound, exposed, driven, cut, dropped, crashed>>
vars == <<published, container, brokerVars, loopVars, driveVars, historyVars>>

\* The runs in whose goroutines process p holds a slot of the semaphore.
Holding(p) == {r \in Runs : bot[<<p, r>>] # "none"}
\* All it would lose by a crash.
InHand(p) == Holding(p) \cup ({waiting[p]} \ {0})

Init ==
    /\ published = 0 /\ container = [r \in Runs |-> 0]
    /\ owner = 0 /\ position = 0 /\ committed = 0
    /\ waiting = [p \in Processes |-> 0] /\ reading = {}
    /\ bot = [d \in Drives |-> "none"]
    /\ left = [d \in Drives |-> 0]
    /\ tick = [d \in Drives |-> "none"]
    /\ call = [d \in Drives |-> 0] /\ held = [d \in Drives |-> 0]
    /\ prompt = {} /\ begun = [r \in Runs |-> 0]
    /\ rewound = {} /\ exposed = {} /\ driven = {} /\ cut = {} /\ dropped = {}
    /\ crashed = {}

---------------------------------------------------------------------------
(* The sandbox *)

\* run.started is published, and the timer of the container set.
StartRun ==
    /\ published < Last
    /\ published' = published + 1
    /\ container' = [container EXCEPT ![published + 1] = Duration + Grace]
    /\ UNCHANGED <<brokerVars, loopVars, driveVars, historyVars>>

---------------------------------------------------------------------------
(* The loop of the consumer *)

\* ReadMessage fetches the next run.
Fetch ==
    /\ waiting[owner] = 0
    /\ position < published
    /\ position' = position + 1
    /\ waiting' = [waiting EXCEPT ![owner] = position + 1]
    /\ reading' = reading \cup {owner}
    /\ UNCHANGED <<published, container, owner, committed, driveVars, historyVars>>

\* The broker is sent an offset, and keeps it though it be before the one it has.
SendOffset(r) ==
    /\ committed' = r
    /\ rewound' = rewound \cup (r + 1 .. committed)

CommitRead_Later(p) ==     \* mutant: FetchMessage, the commit left to the end of the run
    /\ p \in reading
    /\ reading' = reading \ {p}
    /\ UNCHANGED <<published, container, brokerVars, waiting, driveVars, historyVars>>

\* ReadMessage commits the run, whoever holds the partition by then, and returns it.
CommitRead(p) ==
    /\ p \in reading
    /\ reading' = reading \ {p}
    /\ SendOffset(waiting[p])
    /\ UNCHANGED <<published, container, owner, position, waiting, driveVars, prompt, begun,
                   exposed, driven, cut, dropped, crashed>>

\* The commit returns an error, its effect at the broker unknown: so does
\* ReadMessage, and the loop goes on to the next run.
CommitReadFails(p) ==
    /\ p \in reading
    /\ reading' = reading \ {p}
    /\ waiting' = [waiting EXCEPT ![p] = 0]
    /\ SendOffset(waiting[p]) \/ UNCHANGED <<committed, rewound>>
    /\ dropped' = dropped \cup {waiting[p]}
    /\ UNCHANGED <<published, container, owner, position, driveVars, prompt, begun, exposed,
                   driven, cut, crashed>>

Dispatch_Sheds(p) ==     \* mutant: the select has a default, a run without a slot is left
    LET r == waiting[p] IN
    /\ r # 0 /\ p \notin reading
    /\ waiting' = [waiting EXCEPT ![p] = 0]
    /\ IF Cardinality(Holding(p)) < MaxConcurrent
       THEN bot' = [bot EXCEPT ![<<p, r>>] = "idle"] ELSE UNCHANGED bot
    /\ UNCHANGED <<published, container, brokerVars, reading, left, tick, call, held,
                   historyVars>>

\* A slot is free: the goroutine of the run starts, and fixes its end.
Dispatch(p) ==
    LET r == waiting[p] IN
    /\ r # 0 /\ p \notin reading
    /\ Cardinality(Holding(p)) < MaxConcurrent
    /\ waiting' = [waiting EXCEPT ![p] = 0]
    /\ bot' = [bot EXCEPT ![<<p, r>>] = "idle"]
    /\ left' = [left EXCEPT ![<<p, r>>] = Duration]
    /\ prompt' = IF container[r] >= Duration + ClientTimeout
                 THEN prompt \cup {<<p, r>>} ELSE prompt
    /\ begun' = [begun EXCEPT ![r] = @ + 1]
    /\ UNCHANGED <<published, container, brokerVars, reading, tick, call, held, rewound,
                   exposed, driven, cut, dropped, crashed>>

---------------------------------------------------------------------------
(* The goroutine of a run *)

\* A tick from before the end: an order is sent.
SendOrder(d) ==
    /\ bot[d] = "idle" /\ tick[d] = "early"
    /\ bot' = [bot EXCEPT ![d] = "calling"]
    /\ tick' = [tick EXCEPT ![d] = "none"]
    /\ UNCHANGED <<published, container, brokerVars, loopVars, left, call, held, historyVars>>

\* The order is answered, or given up, and its telemetry is offered to the channel.
Answer(d) ==
    /\ bot[d] = "calling"
    /\ bot' = [bot EXCEPT ![d] = "handing"]
    /\ call' = [call EXCEPT ![d] = 0] /\ held' = [held EXCEPT ![d] = 0]
    /\ UNCHANGED <<published, container, brokerVars, loopVars, left, tick, historyVars>>

\* The channel takes the event.
HandOver(d) ==
    /\ bot[d] = "handing"
    /\ bot' = [bot EXCEPT ![d] = "idle"]
    /\ UNCHANGED <<published, container, brokerVars, loopVars, left, tick, call, held,
                   historyVars>>

\* A tick from after the end: the bot returns, and the channel is closed.
Finish(d) ==
    /\ bot[d] = "idle" /\ tick[d] = "late"
    /\ bot' = [bot EXCEPT ![d] = "closing"]
    /\ tick' = [tick EXCEPT ![d] = "none"]
    /\ left' = [left EXCEPT ![d] = 0] /\ held' = [held EXCEPT ![d] = 0]
    /\ driven' = driven \cup {d[2]}
    /\ UNCHANGED <<published, container, brokerVars, loopVars, call, prompt, begun, rewound,
                   exposed, cut, dropped, crashed>>

CommitAndRelease_InOrder(d) ==     \* mutant: waits for the offset before its own
    /\ bot[d] = "closing"
    /\ committed = d[2] - 1
    /\ bot' = [bot EXCEPT ![d] = "none"]
    /\ committed' = d[2]
    /\ UNCHANGED <<published, container, owner, position, loopVars, left, tick, call, held,
                   historyVars>>

\* CommitMessages(m), whose error is only logged; the slot is given back.
CommitAndRelease(d) ==
    /\ bot[d] = "closing"
    /\ bot' = [bot EXCEPT ![d] = "none"]
    /\ SendOffset(d[2]) \/ UNCHANGED <<committed, rewound>>
    /\ UNCHANGED <<published, container, owner, position, loopVars, left, tick, call, held,
                   prompt, begun, exposed, driven, cut, dropped, crashed>>

---------------------------------------------------------------------------
(* Time, and the loss of the partition *)

Running(d) == bot[d] \in {"idle", "calling", "handing"}

MayPass_Patient ==     \* mutant: an http.Client without a Timeout
    \A d \in Drives :
        /\ bot[d] = "handing" => held[d] < MaxHeld
        /\ bot[d] = "idle" => tick[d] = "none"

\* The http client gives a request up in time, and a bot takes a tick that is
\* there when it is idle.  Nothing but MaxHeld ends the wait for the channel.
MayPass ==
    \A d \in Drives :
        /\ bot[d] = "calling" => call[d] < ClientTimeout
        /\ bot[d] = "handing" => held[d] < MaxHeld
        /\ bot[d] = "idle" => tick[d] = "none"

Pass_OneMore ==     \* mutant: a bot takes one more tick after the end
    /\ MayPass
    /\ container' = [r \in Runs |-> IF container[r] = 0 THEN 0 ELSE container[r] - 1]
    /\ left' = [d \in Drives |-> IF Running(d) THEN left[d] - 1 ELSE left[d]]
    /\ tick' = [d \in Drives |->
                  IF ~ Running(d) \/ tick[d] # "none" THEN tick[d]
                  ELSE IF left[d] >= 0 THEN "early" ELSE "late"]
    /\ call' = [d \in Drives |-> IF bot[d] = "calling" THEN call[d] + 1 ELSE call[d]]
    /\ held' = [d \in Drives |-> IF bot[d] = "handing" THEN held[d] + 1 ELSE held[d]]
    /\ UNCHANGED <<published, brokerVars, loopVars, bot, historyVars>>

\* One period of the tickers.  A ticker whose channel is full drops its tick.
Pass ==
    /\ MayPass
    /\ container' = [r \in Runs |-> IF container[r] = 0 THEN 0 ELSE container[r] - 1]
    /\ left' = [d \in Drives |-> IF Running(d) THEN left[d] - 1 ELSE left[d]]
    /\ tick' = [d \in Drives |->
                  IF ~ Running(d) \/ tick[d] # "none" THEN tick[d]
                  ELSE IF left[d] - 1 >= 0 THEN "early" ELSE "late"]
    /\ call' = [d \in Drives |-> IF bot[d] = "calling" THEN call[d] + 1 ELSE call[d]]
    /\ held' = [d \in Drives |-> IF bot[d] = "handing" THEN held[d] + 1 ELSE held[d]]
    /\ UNCHANGED <<published, brokerVars, loopVars, bot, historyVars>>

\* The next process takes over at the committed offset.
Move ==
    /\ owner < MaxMoves
    /\ owner' = owner + 1
    /\ position' = committed

\* The group is rebalanced: the old process goes on with what it has fetched.  A run that it
\* has not committed is fetched by the next one too.
Rebalance ==
    /\ Move
    /\ exposed' = IF owner \in reading THEN exposed \cup {waiting[owner]} ELSE exposed
    /\ UNCHANGED <<published, committed, container, loopVars, driveVars, prompt, begun,
                   rewound, driven, cut, dropped, crashed>>

\* The process stops or is killed, with all its runs.
Crash ==
    /\ Move
    /\ waiting' = [waiting EXCEPT ![owner] = 0] /\ reading' = reading \ {owner}
    /\ bot' = [d \in Drives |-> IF d[1] = owner THEN "none" ELSE bot[d]]
    /\ left' = [d \in Drives |-> IF d[1] = owner THEN 0 ELSE left[d]]
    /\ tick' = [d \in Drives |-> IF d[1] = owner THEN "none" ELSE tick[d]]
    /\ call' = [d \in Drives |-> IF d[1] = owner THEN 0 ELSE call[d]]
    /\ held' = [d \in Drives |-> IF d[1] = owner THEN 0 ELSE held[d]]
    /\ cut' = cut \cup InHand(owner)
    /\ crashed' = crashed \cup {owner}
    /\ UNCHANGED <<published, committed, container, prompt, begun, rewound, exposed,
                   driven, dropped>>

---------------------------------------------------------------------------
Loop(p) == CommitRead(p) \/ CommitReadFails(p) \/ Dispatch(p)

Drive(d) == SendOrder(d) \/ Answer(d) \/ HandOver(d) \/ Finish(d) \/ CommitAndRelease(d)

Next ==
    \/ StartRun
    \/ Fetch
    \/ \E p \in Processes : Loop(p)
    \/ \E d \in Drives : Drive(d)
    \/ Pass
    \/ Rebalance
    \/ Crash

Spec == Init /\ [][Next]_vars

\* A goroutine that can go on does, and time passes.  That CommitMessages returns, with or
\* without an error, and that the channel has room in the end are assumed: the code sets no
\* limit to either.  A slot is waited for until it is free.
Fairness ==
    /\ \A p \in Processes : WF_vars(Loop(p))
    /\ \A d \in Drives : WF_vars(Drive(d))
    /\ WF_vars(Pass)

FairSpec == Spec /\ Fairness

---------------------------------------------------------------------------
(* Properties *)

TypeOK ==
    /\ published \in 0..Last
    /\ container \in [Runs -> 0..(Duration + Grace)]
    /\ owner \in Processes
    /\ position \in 0..Last /\ committed \in 0..Last
    /\ waiting \in [Processes -> {0} \cup Runs]
    /\ reading \subseteq {p \in Processes : waiting[p] # 0}
    /\ bot \in [Drives -> {"none", "idle", "calling", "handing", "closing"}]
    /\ left \in [Drives -> Int]
    /\ tick \in [Drives -> {"none", "early", "late"}]
    /\ call \in [Drives -> 0..ClientTimeout] /\ held \in [Drives -> 0..MaxHeld]
    /\ prompt \subseteq Drives
    /\ begun \in [Runs -> Nat]
    /\ rewound \subseteq Runs /\ exposed \subseteq Runs /\ driven \subseteq Runs
    /\ cut \subseteq Runs /\ dropped \subseteq Runs
    /\ crashed \subseteq Processes

\* A run that got its slot while its container had the whole run and the time
\* of one request before it sends no order to a terminated container, unless the
\* event before was held up by a full channel: the tick that a long request kept
\* waiting is the last (consumer/kafka.go:95, orchestrator.go:54-63, sandbox
\* consumer/kafka.go:146).
PromptRunsMeetContainer ==
    \A d \in prompt :
        bot[d] = "idle" /\ tick[d] = "early" => container[d[2]] + held[d] > 0

\* However slow the contestant, the last answer of a run comes less than two
\* client timeouts after its end, and the time that the event before was held up by
\* a full channel: one timeout for the request the end falls into, one for the tick
\* that waited behind it (orchestrator.go:53-63, bot.go:31).
LastAnswerBounded ==
    \A d \in Drives : bot[d] = "calling" => left[d] + held[d] > -2 * ClientTimeout

\* A run is begun twice only if the commit of an earlier run put the committed
\* offset back before it, or the partition was lost between its fetch and its
\* commit; and each loss without a crash does that to one run at most
\* (consumer/kafka.go:76, 111).
BegunTwiceIsExplained ==
    /\ \A r \in Runs : begun[r] > 1 => r \in rewound \cup exposed
    /\ Cardinality(exposed) + Cardinality(crashed) <= owner

\* A run that is committed, or behind the reader, was driven to its end, is in
\* the hands of a process, or is accounted for by an error of its commit or by
\* a crash; and a crash takes no more than the slots and the one that waits
\* (consumer/kafka.go:76-97).
NoRunVanishes ==
    /\ \A r \in Runs : r <= committed \/ r <= position =>
          \/ r \in driven \cup dropped \cup cut
          \/ \E p \in Processes : r \in InHand(p)
    /\ Cardinality(cut) <= (MaxConcurrent + 1) * Cardinality(crashed)

\* No run stays in the hands of a process for good, so that none keeps its slot
\* or is left waiting for one: by NoRunVanishes, it was driven to its end unless
\* its process crashed or its commit failed.  With Last runs in all, it is enough to say that the
\* hands are empty again and again (consumer/kafka.go:95-98, 111).
NoneHeldForGood == []<>(\A p \in Processes : InHand(p) = {})
=============================================================================
