--------------------------- MODULE BotFleetProofs ---------------------------
(***************************************************************************)
(* Proofs about the bots service, for any number of runs, slots and        *)
(* processes, and for any lengths of a run, of the grace of its container  *)
(* and of the client's timeout.                                            *)
(***************************************************************************)
EXTENDS BotFleet, FiniteSetTheorems, TLAPS

\* A drive is a process and a run (consumer/kafka.go:97).
LEMMA DriveParts ==
    /\ \A d \in Drives : d[1] \in Processes /\ d[2] \in Runs
    /\ \A p \in Processes, r \in Runs : <<p, r>> \in Drives
BY DEF Drives

\* What a commit puts back are runs (consumer/kafka.go:76, 111).
LEMMA Offsets ==
    \A r \in Runs, c \in 0..Last : r \in 0..Last /\ (r + 1 .. c) \subseteq Runs
BY ConstantsAssumption DEF Runs

\* An offset that is sent is one of a run, and so is what it puts back (consumer/kafka.go:76, 111).
LEMMA SentOffsets ==
    ASSUME TypeOK, NEW r \in Runs, SendOffset(r) \/ UNCHANGED <<committed, rewound>>
    PROVE  committed' \in 0..Last /\ rewound' \subseteq Runs
<1>1. r \in 0..Last /\ (r + 1 .. committed) \subseteq Runs
  BY Offsets DEF TypeOK
<1>2. QED
  BY <1>1 DEF TypeOK, SendOffset

\* The types, and that no request takes longer than the client allows (consumer/kafka.go:73-116).
THEOREM TypeCorrect == Spec => []TypeOK
<1> USE ConstantsAssumption
<1>1. Init => TypeOK
  BY DEF Init, TypeOK, Runs, Processes
<1>2. TypeOK /\ [Next]_vars => TypeOK'
  <2> SUFFICES ASSUME TypeOK, [Next]_vars PROVE TypeOK'
    OBVIOUS
  <2> USE DEF TypeOK, brokerVars, loopVars, driveVars, historyVars
  <2>1. CASE StartRun
    <3>1. published' \in 0..Last /\ Duration + Grace \in 0..(Duration + Grace)
      BY <2>1 DEF StartRun
    <3>2. container' \in [Runs -> 0..(Duration + Grace)]
      BY <2>1, <3>1 DEF StartRun
    <3>3. QED
      BY <2>1, <3>1, <3>2 DEF StartRun
  <2>2. CASE Fetch
    <3>1. position + 1 \in Runs /\ position + 1 # 0
      BY <2>2 DEF Fetch, Runs
    <3>2. position' \in 0..Last
      BY <2>2, <3>1 DEF Fetch, Runs
    <3>3. waiting' \in [Processes -> {0} \cup Runs]
      BY <2>2, <3>1 DEF Fetch
    <3>4. reading' \subseteq {p \in Processes : waiting'[p] # 0}
      BY <2>2, <3>1 DEF Fetch
    <3>5. QED
      BY <2>2, <3>2, <3>3, <3>4 DEF Fetch
  <2>3. ASSUME NEW p \in Processes, CommitRead(p) \/ CommitReadFails(p) PROVE TypeOK'
    <3>1. waiting[p] \in Runs
      BY <2>3 DEF CommitRead, CommitReadFails
    <3>2. committed' \in 0..Last /\ rewound' \subseteq Runs
      BY <2>3, <3>1, SentOffsets DEF CommitRead, CommitReadFails
    <3>3. CASE CommitRead(p)
      BY <3>2, <3>3 DEF CommitRead
    <3>4. CASE CommitReadFails(p)
      BY <3>1, <3>2, <3>4 DEF CommitReadFails
    <3>5. QED
      BY <2>3, <3>3, <3>4
  <2>4. ASSUME NEW p \in Processes, Dispatch(p) PROVE TypeOK'
    <3>1. <<p, waiting[p]>> \in Drives
      BY <2>4, DriveParts DEF Dispatch
    <3>2. QED
      BY <2>4, <3>1 DEF Dispatch
  <2>5. ASSUME NEW d \in Drives, SendOrder(d) PROVE TypeOK'
    BY <2>5 DEF SendOrder
  <2>6. ASSUME NEW d \in Drives, Answer(d) \/ HandOver(d) PROVE TypeOK'
    BY <2>6 DEF Answer, HandOver
  <2>7. ASSUME NEW d \in Drives, Finish(d) PROVE TypeOK'
    <3>1. d[2] \in Runs
      BY DriveParts
    <3>2. QED
      BY <2>7, <3>1 DEF Finish
  <2>8. ASSUME NEW d \in Drives, CommitAndRelease(d) PROVE TypeOK'
    <3>1. d[2] \in Runs
      BY DriveParts
    <3>2. committed' \in 0..Last /\ rewound' \subseteq Runs
      BY <2>8, <3>1, SentOffsets DEF CommitAndRelease
    <3>3. bot' \in [Drives -> {"none", "idle", "calling", "handing", "closing"}]
      BY <2>8 DEF CommitAndRelease
    <3>4. /\ UNCHANGED <<published, container, owner, position, waiting, reading>>
          /\ UNCHANGED <<left, tick, call, held>>
          /\ UNCHANGED <<prompt, begun, exposed, driven, cut, dropped, crashed>>
      BY <2>8 DEF CommitAndRelease
    <3>5. QED
      BY <3>2, <3>3, <3>4
  <2>9. CASE Pass
    BY <2>9 DEF Pass, MayPass, Running
  <2>10. CASE Rebalance
    <3>1. owner' \in Processes /\ position' \in 0..Last
      BY <2>10 DEF Rebalance, Move, Processes
    <3>2. exposed' \subseteq Runs
      BY <2>10 DEF Rebalance
    <3>3. QED
      BY <2>10, <3>1, <3>2 DEF Rebalance
  <2>11. CASE Crash
    <3>1. owner' \in Processes /\ position' \in 0..Last
      BY <2>11 DEF Crash, Move, Processes
    <3>2. /\ waiting' \in [Processes -> {0} \cup Runs]
          /\ reading' \subseteq {p \in Processes : waiting'[p] # 0}
      BY <2>11 DEF Crash
    <3>3. /\ bot' \in [Drives -> {"none", "idle", "calling", "handing", "closing"}]
          /\ tick' \in [Drives -> {"none", "early", "late"}]
      BY <2>11 DEF Crash
    <3>4. /\ left' \in [Drives -> Int]
          /\ call' \in [Drives -> 0..ClientTimeout] /\ held' \in [Drives -> 0..MaxHeld]
      BY <2>11 DEF Crash
    <3>5. InHand(owner) \subseteq Runs
      BY DEF InHand, Holding
    <3>6. cut' \subseteq Runs /\ crashed' \subseteq Processes
      BY <2>11, <3>5 DEF Crash
    <3>7. QED
      BY <2>11, <3>1, <3>2, <3>3, <3>4, <3>6 DEF Crash
  <2>12. CASE UNCHANGED vars
    BY <2>12 DEF vars
  <2>13. QED
    BY <2>1, <2>2, <2>3, <2>4, <2>5, <2>6, <2>7, <2>8, <2>9, <2>10, <2>11, <2>12
    DEF Next, Loop, Drive
<1>3. QED
  BY <1>1, <1>2, PTL DEF Spec

---------------------------------------------------------------------------
(* A process drives a run at most once. *)

\* The drives a process has begun are of runs its reader has passed, and none is of the
\* run it is at.
Once ==
    /\ \A p \in Processes : waiting[p] # 0 =>
          p <= owner /\ (p = owner => waiting[p] <= position)
    /\ \A p \in Processes, r \in Runs :
          bot[<<p, r>>] # "none" \/ <<p, r>> \in prompt =>
             /\ waiting[p] # r
             /\ p <= owner
             /\ p = owner => r <= position

\* A reader goes forward, and a process that lost the partition reads no more
\* (consumer/kafka.go:76-97).
LEMMA OnceInvariant == Spec => []Once
<1> USE ConstantsAssumption
<1>1. Init => Once
  BY DriveParts DEF Init, Once, Runs
<1>2. TypeOK /\ Once /\ [Next]_vars => Once'
  <2> SUFFICES ASSUME TypeOK, Once, [Next]_vars PROVE Once'
    OBVIOUS
  <2> USE DEF TypeOK, Once, brokerVars, loopVars, driveVars, historyVars
  <2>1. CASE StartRun
    BY <2>1 DEF StartRun
  <2>2. CASE Fetch
    BY <2>2 DEF Fetch, Runs, Processes
  <2>3. ASSUME NEW p \in Processes, CommitRead(p) \/ CommitReadFails(p) PROVE Once'
    <3>1. /\ UNCHANGED <<bot, prompt, owner, position>>
          /\ waiting' = waiting \/ waiting' = [waiting EXCEPT ![p] = 0]
      BY <2>3 DEF CommitRead, CommitReadFails
    <3>2. 0 \notin Runs
      BY DEF Runs
    <3>3. \A q \in Processes : waiting'[q] = 0 \/ waiting'[q] = waiting[q]
      BY <3>1
    <3>4. QED
      BY <3>1, <3>2, <3>3
  <2>4. ASSUME NEW p \in Processes, Dispatch(p) PROVE Once'
    <3>1. /\ waiting[p] \in Runs /\ <<p, waiting[p]>> \in Drives
          /\ bot[<<p, waiting[p]>>] = "none"
      BY <2>4, DriveParts DEF Dispatch
    <3>2. ASSUME NEW q \in Processes, NEW r \in Runs, <<q, r>> # <<p, waiting[p]>>
          PROVE  bot'[<<q, r>>] = bot[<<q, r>>]
                 /\ (<<q, r>> \in prompt' => <<q, r>> \in prompt)
      BY <2>4, <3>1, <3>2, DriveParts DEF Dispatch
    <3>3. waiting' = [waiting EXCEPT ![p] = 0] /\ UNCHANGED <<owner, position>>
      BY <2>4 DEF Dispatch
    <3>4. waiting[p] # 0 /\ 0 \notin Runs
      BY <2>4 DEF Dispatch, Runs
    <3>5. \A q \in Processes : waiting'[q] # 0 => waiting'[q] = waiting[q]
      BY <3>3
    <3>6. ASSUME NEW q \in Processes, NEW r \in Runs,
                 bot'[<<q, r>>] # "none" \/ <<q, r>> \in prompt'
          PROVE  waiting'[q] # r /\ q <= owner /\ (q = owner => r <= position)
      <4>1. CASE q = p /\ r = waiting[p]
        BY <4>1, <3>3, <3>4
      <4>2. CASE <<q, r>> # <<p, waiting[p]>>
        BY <4>2, <3>2, <3>3, <3>4, <3>5, <3>6
      <4>3. QED
        BY <4>1, <4>2
    <3>7. QED
      BY <3>3, <3>5, <3>6
  <2>5. ASSUME NEW d \in Drives, SendOrder(d) PROVE Once'
    BY <2>5, DriveParts DEF SendOrder
  <2>6. ASSUME NEW d \in Drives, Answer(d) \/ HandOver(d) PROVE Once'
    BY <2>6, DriveParts DEF Answer, HandOver
  <2>7. ASSUME NEW d \in Drives, Finish(d) PROVE Once'
    BY <2>7, DriveParts DEF Finish
  <2>8. ASSUME NEW d \in Drives, CommitAndRelease(d) PROVE Once'
    BY <2>8, DriveParts DEF CommitAndRelease
  <2>9. CASE Pass
    BY <2>9 DEF Pass
  <2>10. CASE Rebalance
    BY <2>10 DEF Rebalance, Move, Processes
  <2>11. CASE Crash
    <3>1. owner' = owner + 1 /\ UNCHANGED prompt
      BY <2>11 DEF Crash, Move
    <3>2. \A p \in Processes : waiting'[p] \in {0, waiting[p]}
      BY <2>11 DEF Crash
    <3>3. \A p \in Processes, r \in Runs :
             bot'[<<p, r>>] # "none" => bot[<<p, r>>] # "none"
      BY <2>11, DriveParts DEF Crash
    <3>4. ASSUME NEW p \in Processes, waiting'[p] # 0
          PROVE  p <= owner' /\ (p = owner' => waiting'[p] <= position')
      BY <3>1, <3>2, <3>4 DEF Processes
    <3>5. ASSUME NEW p \in Processes, NEW r \in Runs,
                 bot'[<<p, r>>] # "none" \/ <<p, r>> \in prompt'
          PROVE  waiting'[p] # r /\ p <= owner' /\ (p = owner' => r <= position')
      <4>1. waiting[p] # r /\ p <= owner
        BY <3>1, <3>3, <3>5
      <4>2. r # 0 /\ p < owner'
        BY <3>1, <4>1 DEF Runs, Processes
      <4>3. QED
        BY <3>1, <3>2, <4>1, <4>2 DEF Processes
    <3>6. QED
      BY <3>4, <3>5
  <2>12. CASE UNCHANGED vars
    BY <2>12 DEF vars
  <2>13. QED
    BY <2>1, <2>2, <2>3, <2>4, <2>5, <2>6, <2>7, <2>8, <2>9, <2>10, <2>11, <2>12
    DEF Next, Loop, Drive
<1>3. QED
  BY <1>1, <1>2, TypeCorrect, PTL DEF Spec

---------------------------------------------------------------------------
(* Time. *)

\* What is left of the run when a request began: a tick that waits is one that came
\* after the request before it began and before the end, and has waited for the rest of
\* that request and for the channel.
Timing ==
    \A d \in Drives :
        /\ ~ Running(d) => tick[d] = "none" /\ call[d] = 0
        /\ bot[d] \in {"idle", "handing"} =>
              /\ call[d] = 0
              /\ tick[d] = "early" => left[d] + held[d] > -ClientTimeout
        /\ bot[d] = "calling" =>
              /\ left[d] + call[d] + held[d] > -ClientTimeout
              /\ tick[d] = "early" => left[d] + call[d] > 0

\* When the requests of a bot begin, against the end of its run
\* (orchestrator.go:46-63, bot.go:31).
LEMMA TimingInvariant == Spec => []Timing
<1> USE ConstantsAssumption
<1>1. Init => Timing
  BY DEF Init, Timing, Running
<1>2. TypeOK /\ Once /\ Timing /\ [Next]_vars => Timing'
  <2> SUFFICES ASSUME TypeOK, Once, Timing, [Next]_vars PROVE Timing'
    OBVIOUS
  <2> USE DEF TypeOK, Timing, Running, brokerVars, loopVars, driveVars, historyVars
  <2>1. CASE StartRun
    BY <2>1 DEF StartRun
  <2>2. ASSUME NEW p \in Processes, Fetch \/ CommitRead(p) \/ CommitReadFails(p) PROVE Timing'
    BY <2>2 DEF Fetch, CommitRead, CommitReadFails
  <2>3. ASSUME NEW p \in Processes, Dispatch(p) PROVE Timing'
    <3>1. <<p, waiting[p]>> \in Drives
      BY <2>3, DriveParts DEF Dispatch
    <3>2. bot[<<p, waiting[p]>>] = "none"
      BY <2>3 DEF Dispatch, Once
    <3>3. QED
      BY <2>3, <3>1, <3>2 DEF Dispatch
  <2>4. ASSUME NEW d \in Drives, SendOrder(d) PROVE Timing'
    BY <2>4 DEF SendOrder
  <2>5. ASSUME NEW d \in Drives, Answer(d) \/ HandOver(d) PROVE Timing'
    BY <2>5 DEF Answer, HandOver
  <2>6. ASSUME NEW d \in Drives, Finish(d) PROVE Timing'
    BY <2>6 DEF Finish
  <2>7. ASSUME NEW d \in Drives, CommitAndRelease(d) PROVE Timing'
    BY <2>7 DEF CommitAndRelease
  <2>8. CASE Pass
    BY <2>8 DEF Pass, MayPass
  <2>9. CASE Rebalance
    BY <2>9 DEF Rebalance, Move
  <2>10. CASE Crash
    BY <2>10 DEF Crash, Move
  <2>11. CASE UNCHANGED vars
    BY <2>11 DEF vars
  <2>12. QED
    BY <2>1, <2>2, <2>3, <2>4, <2>5, <2>6, <2>7, <2>8, <2>9, <2>10, <2>11 DEF Next, Loop, Drive
<1>3. QED
  BY <1>1, <1>2, TypeCorrect, OnceInvariant, PTL DEF Spec

\* The last answer of a run comes less than two client timeouts after its end, and the
\* wait of one event for the channel (orchestrator.go:53-63, bot.go:31).
THEOREM AnswersAreBounded == Spec => []LastAnswerBounded
<1>1. TypeOK /\ Timing => LastAnswerBounded
  BY ConstantsAssumption DEF TypeOK, Timing, LastAnswerBounded
<1>2. QED
  BY <1>1, TypeCorrect, TimingInvariant, PTL

---------------------------------------------------------------------------
(* The container of a run. *)

\* What is read, committed or in hand has been published.
Known ==
    /\ position <= published /\ committed <= published
    /\ \A p \in Processes : waiting[p] <= published
    /\ \A d \in Drives : bot[d] # "none" => d[2] <= published

\* Only runs that the sandbox has started are in the system (consumer/kafka.go:76).
LEMMA KnownInvariant == Spec => []Known
<1> USE ConstantsAssumption
<1>1. Init => Known
  BY DEF Init, Known
<1>2. TypeOK /\ Known /\ [Next]_vars => Known'
  <2> SUFFICES ASSUME TypeOK, Known, [Next]_vars PROVE Known'
    OBVIOUS
  <2> USE DEF TypeOK, Known, brokerVars, loopVars, driveVars, historyVars
  <2>1. CASE StartRun
    <3>1. /\ \A p \in Processes : waiting[p] \in Int
          /\ \A d \in Drives : d[2] \in Int
          /\ published \in Int /\ position \in Int /\ committed \in Int
      BY DriveParts DEF Runs
    <3>2. published' = published + 1 /\ UNCHANGED <<position, committed, waiting, bot>>
      BY <2>1 DEF StartRun
    <3> QED
      <4> HIDE DEF TypeOK
      <4> QED BY <3>1, <3>2
  <2>2. CASE Fetch
    BY <2>2 DEF Fetch, Runs
  <2>3. ASSUME NEW p \in Processes, CommitRead(p) \/ CommitReadFails(p) PROVE Known'
    BY <2>3 DEF CommitRead, CommitReadFails, SendOffset
  <2>4. ASSUME NEW p \in Processes, Dispatch(p) PROVE Known'
    <3>1. <<p, waiting[p]>> \in Drives
      BY <2>4, DriveParts DEF Dispatch
    <3>2. QED
      BY <2>4, <3>1 DEF Dispatch
  <2>5. ASSUME NEW d \in Drives, SendOrder(d) \/ Answer(d) \/ HandOver(d) \/ Finish(d)
        PROVE  Known'
    BY <2>5 DEF SendOrder, Answer, HandOver, Finish
  <2>6. ASSUME NEW d \in Drives, CommitAndRelease(d) PROVE Known'
    BY <2>6 DEF CommitAndRelease, SendOffset
  <2>7. CASE Pass
    BY <2>7 DEF Pass
  <2>8. CASE Rebalance
    BY <2>8 DEF Rebalance, Move
  <2>9. CASE Crash
    BY <2>9 DEF Crash, Move
  <2>10. CASE UNCHANGED vars
    BY <2>10 DEF vars
  <2>11. QED
    BY <2>1, <2>2, <2>3, <2>4, <2>5, <2>6, <2>7, <2>8, <2>9, <2>10 DEF Next, Loop, Drive
<1>3. QED
  BY <1>1, <1>2, TypeCorrect, PTL DEF Spec

\* The container of a prompt run is there until a request sent at the last tick is over.
Outlived ==
    \A d \in prompt : Running(d) => container[d[2]] >= left[d] + ClientTimeout

\* A run that got its slot in time sends nothing to a terminated container, unless the
\* channel held it up: the two countdowns, of the run and of its container, keep their
\* distance (orchestrator.go:30, 53-63, sandbox consumer/kafka.go:145-147).
THEOREM PromptRunsAreServed == Spec => []PromptRunsMeetContainer
<1> USE ConstantsAssumption
<1>1. Init => Outlived
  BY DEF Init, Outlived
<1>2. TypeOK /\ Once /\ Known /\ Outlived /\ [Next]_vars => Outlived'
  <2> SUFFICES ASSUME TypeOK, Once, Known, Outlived, [Next]_vars PROVE Outlived'
    OBVIOUS
  <2> USE DEF TypeOK, Outlived, Running, brokerVars, loopVars, driveVars, historyVars
  <2>1. CASE StartRun
    <3>1. \A d \in prompt : Running(d) => container'[d[2]] = container[d[2]]
      BY <2>1, DriveParts DEF StartRun, Known
    <3>2. QED
      BY <2>1, <3>1 DEF StartRun
  <2>2. ASSUME NEW p \in Processes, Fetch \/ CommitRead(p) \/ CommitReadFails(p)
        PROVE  Outlived'
    BY <2>2 DEF Fetch, CommitRead, CommitReadFails
  <2>3. ASSUME NEW p \in Processes, Dispatch(p) PROVE Outlived'
    <3>1. /\ waiting[p] \in Runs /\ <<p, waiting[p]>> \in Drives
          /\ <<p, waiting[p]>> \notin prompt
      BY <2>3, DriveParts DEF Dispatch, Once
    <3>2. QED
      BY <2>3, <3>1 DEF Dispatch
  <2>4. ASSUME NEW d \in Drives, SendOrder(d) \/ Answer(d) \/ HandOver(d) PROVE Outlived'
    BY <2>4 DEF SendOrder, Answer, HandOver
  <2>5. ASSUME NEW d \in Drives, Finish(d) \/ CommitAndRelease(d) PROVE Outlived'
    BY <2>5 DEF Finish, CommitAndRelease
  <2>6. CASE Pass
    BY <2>6, DriveParts DEF Pass
  <2>7. CASE Rebalance
    BY <2>7 DEF Rebalance, Move
  <2>8. CASE Crash
    BY <2>8 DEF Crash, Move
  <2>9. CASE UNCHANGED vars
    BY <2>9 DEF vars
  <2>10. QED
    BY <2>1, <2>2, <2>3, <2>4, <2>5, <2>6, <2>7, <2>8, <2>9 DEF Next, Loop, Drive
<1>3. TypeOK /\ Timing /\ Outlived => PromptRunsMeetContainer
  <2> SUFFICES ASSUME TypeOK, Timing, Outlived,
                      NEW d \in prompt, bot[d] = "idle", tick[d] = "early"
               PROVE  container[d[2]] + held[d] > 0
    BY DEF PromptRunsMeetContainer
  <2>1. d \in Drives /\ d[2] \in Runs
    BY DriveParts DEF TypeOK
  <2>2. /\ container[d[2]] \in Int /\ held[d] \in Int /\ left[d] \in Int
    BY <2>1 DEF TypeOK
  <2>3. container[d[2]] >= left[d] + ClientTimeout
    BY DEF Outlived, Running
  <2>4. left[d] + held[d] > -ClientTimeout
    BY <2>1 DEF Timing
  <2>5. QED
    BY <2>2, <2>3, <2>4
<1>4. QED
  BY <1>1, <1>2, <1>3, TypeCorrect, OnceInvariant, TimingInvariant, KnownInvariant, PTL DEF Spec

---------------------------------------------------------------------------
(* Runs that are begun twice, and runs that are lost. *)

\* A run that no commit has put back and no loss of the partition has exposed was fetched by
\* one process, once, and lies behind the committed offset and the reader, but for the one
\* whose commit is on its way, and whose process still holds the partition.
ReadOnce ==
    \A r \in Runs : r \notin rewound \cup exposed =>
        /\ begun[r] <= 1
        /\ begun[r] = 1 => r <= committed /\ r <= position
        /\ \A p \in Processes : waiting[p] = r =>
              /\ begun[r] = 0
              /\ r <= position
              /\ IF p \in reading THEN p = owner ELSE r <= committed
              /\ \A q \in Processes : waiting[q] = r => q = p

\* What was behind the committed offset is there still, or was put back (consumer/kafka.go:76, 111).
LEMMA PutBack ==
    ASSUME TypeOK, NEW n \in Runs, SendOffset(n) \/ UNCHANGED <<committed, rewound>>
    PROVE  \A r \in Runs : r \notin rewound' => r \notin rewound /\ (r <= committed => r <= committed')
<1>1. CASE UNCHANGED <<committed, rewound>>
  BY <1>1
<1>2. CASE SendOffset(n)
  <2>1. /\ committed' = n /\ n \in Int /\ committed \in Int
        /\ rewound' = rewound \cup (n + 1 .. committed)
    BY <1>2, ConstantsAssumption DEF SendOffset, TypeOK, Runs
  <2>2. ASSUME NEW r \in Int, r \notin n + 1 .. committed, r <= committed PROVE r <= n
    BY <2>1, <2>2
  <2>3. Runs \subseteq Int
    BY DEF Runs
  <2>4. QED
    BY <2>1, <2>2, <2>3
<1>3. QED
  BY <1>1, <1>2

\* A run stays behind the offset, at which the next process starts, unless a commit puts
\* that back or the partition is lost before its own commit (consumer/kafka.go:76, 111).
LEMMA ReadOnceInvariant == Spec => []ReadOnce
<1> USE ConstantsAssumption
<1>1. Init => ReadOnce
  BY DEF Init, ReadOnce, Runs
<1>2. TypeOK /\ ReadOnce /\ [Next]_vars => ReadOnce'
  <2> SUFFICES ASSUME TypeOK, ReadOnce, [Next]_vars PROVE ReadOnce'
    OBVIOUS
  <2> USE DEF TypeOK, ReadOnce, brokerVars, loopVars, driveVars, historyVars
  <2>1. CASE StartRun \/ Pass
    BY <2>1 DEF StartRun, Pass
  <2>2. CASE Fetch
    <3>1. position + 1 \in Runs /\ ~ (position + 1 <= position)
      BY <2>2 DEF Fetch, Runs
    <3>2. position + 1 \notin rewound \cup exposed =>
             begun[position + 1] = 0 /\ \A q \in Processes : waiting[q] # position + 1
      BY <3>1
    <3>3. \A r \in Runs : r # 0 /\ (r <= position => r <= position + 1)
      BY DEF Runs
    <3>4. /\ waiting' = [waiting EXCEPT ![owner] = position + 1]
          /\ reading' = reading \cup {owner} /\ position' = position + 1
          /\ waiting[owner] = 0
          /\ UNCHANGED <<begun, committed, rewound, exposed, owner>>
      BY <2>2 DEF Fetch
    <3>5. \A q \in Processes : q # owner => waiting'[q] = waiting[q] /\ (q \in reading' <=> q \in reading)
      BY <3>4
    <3>6. waiting'[owner] = position + 1 /\ owner \in reading'
      BY <3>4
    <3>7. QED
      BY <3>1, <3>2, <3>3, <3>4, <3>5, <3>6
  <2>3. ASSUME NEW p \in Processes, CommitRead(p) PROVE ReadOnce'
    <3>1. /\ waiting[p] \in Runs /\ committed' = waiting[p] /\ reading' = reading \ {p}
          /\ UNCHANGED <<begun, position, waiting, owner, exposed>>
      BY <2>3 DEF CommitRead, SendOffset
    <3>2. \A r \in Runs : r \notin rewound' => r \notin rewound /\ (r <= committed => r <= committed')
      BY <2>3, <3>1, PutBack DEF CommitRead
    <3>3. waiting[p] <= committed'
      BY <3>1 DEF Runs
    <3>4. QED
      BY <3>1, <3>2, <3>3
  <2>4. ASSUME NEW p \in Processes, CommitReadFails(p) PROVE ReadOnce'
    <3>1. /\ waiting[p] \in Runs /\ waiting' = [waiting EXCEPT ![p] = 0]
          /\ reading' = reading \ {p} /\ UNCHANGED <<begun, position, owner, exposed>>
      BY <2>4 DEF CommitReadFails
    <3>2. \A r \in Runs : r \notin rewound' => r \notin rewound /\ (r <= committed => r <= committed')
      BY <2>4, <3>1, PutBack DEF CommitReadFails
    <3>3. \A q \in Processes, r \in Runs :
             waiting'[q] = r => waiting[q] = r /\ (q \in reading' <=> q \in reading)
      BY <3>1 DEF Runs
    <3>4. QED
      BY <3>1, <3>2, <3>3
  <2>5. ASSUME NEW p \in Processes, Dispatch(p) PROVE ReadOnce'
    <3>1. /\ waiting' = [waiting EXCEPT ![p] = 0] /\ begun' = [begun EXCEPT ![waiting[p]] = @ + 1]
          /\ waiting[p] \in Runs /\ p \notin reading
          /\ UNCHANGED <<committed, position, rewound, exposed, owner, reading>>
      BY <2>5 DEF Dispatch
    <3>2. \A q \in Processes, r \in Runs : waiting'[q] = r => q # p /\ waiting[q] = r
      BY <3>1 DEF Runs
    <3>3. \A r \in Runs : begun'[r] = IF r = waiting[p] THEN begun[r] + 1 ELSE begun[r]
      BY <3>1
    <3>4. QED
      BY <3>1, <3>2, <3>3
  <2>6. ASSUME NEW d \in Drives, SendOrder(d) \/ Answer(d) \/ HandOver(d) \/ Finish(d)
        PROVE  ReadOnce'
    BY <2>6 DEF SendOrder, Answer, HandOver, Finish
  <2>7. ASSUME NEW d \in Drives, CommitAndRelease(d) PROVE ReadOnce'
    <3>1. d[2] \in Runs
      BY DriveParts
    <3>2. \A r \in Runs : r \notin rewound' => r \notin rewound /\ (r <= committed => r <= committed')
      BY <2>7, <3>1, PutBack DEF CommitAndRelease
    <3>3. UNCHANGED <<begun, waiting, reading, position, owner, exposed>>
      BY <2>7 DEF CommitAndRelease
    <3>4. QED
      BY <3>2, <3>3
  <2>8. CASE Rebalance
    <3>1. /\ position' = committed /\ UNCHANGED <<begun, waiting, reading, committed, rewound>>
          /\ exposed' = IF owner \in reading THEN exposed \cup {waiting[owner]} ELSE exposed
      BY <2>8 DEF Rebalance, Move
    <3>2. QED
      BY <3>1
  <2>9. CASE Crash
    <3>1. /\ position' = committed /\ UNCHANGED <<begun, committed, rewound, exposed>>
          /\ reading' = reading \ {owner} /\ waiting' = [waiting EXCEPT ![owner] = 0]
      BY <2>9 DEF Crash, Move
    <3>2. \A q \in Processes, r \in Runs : waiting'[q] = r => q # owner /\ waiting[q] = r
      BY <3>1 DEF Runs
    <3>3. QED
      BY <3>1, <3>2
  <2>10. CASE UNCHANGED vars
    BY <2>10 DEF vars
  <2>11. QED
    BY <2>1, <2>2, <2>3, <2>4, <2>5, <2>6, <2>7, <2>8, <2>9, <2>10 DEF Next, Loop, Drive
<1>3. QED
  BY <1>1, <1>2, TypeCorrect, PTL DEF Spec

\* What became of a run that a process has read.
Accounted(r) ==
    \/ r \in driven \cup dropped \cup cut
    \/ \E p \in Processes : waiting[p] = r \/ bot[<<p, r>>] # "none"

\* Runs are read in order, so that those accounted for are the first ones, and the
\* offsets are among them.
Gapless ==
    /\ \A r \in Runs : Accounted(r) => \A s \in 1..r : Accounted(s)
    /\ \A r \in Runs : r <= committed \/ r <= position => Accounted(r)
    /\ \A d \in Drives : bot[d] = "closing" => d[2] \in driven

\* No step loses a run that a process has in hand, but a crash, which is on record
\* (consumer/kafka.go:73-116).
LEMMA StillAccounted ==
    ASSUME TypeOK, Gapless, [Next]_vars, NEW r \in Runs, Accounted(r)
    PROVE  Accounted(r)'
<1> USE ConstantsAssumption
        DEF TypeOK, Gapless, Accounted, brokerVars, loopVars, driveVars, historyVars
<1>1. CASE StartRun \/ Pass
  BY <1>1 DEF StartRun, Pass
<1>2. CASE Fetch
  <2>1. r # 0 /\ waiting[owner] = 0 /\ waiting' = [waiting EXCEPT ![owner] = position + 1]
    BY <1>2 DEF Fetch, Runs
  <2>2. \A p \in Processes : waiting[p] = r => waiting'[p] = r
    BY <2>1
  <2>3. UNCHANGED <<bot, driven, dropped, cut>>
    BY <1>2 DEF Fetch
  <2>4. QED
    BY <2>2, <2>3
<1>3. ASSUME NEW p \in Processes, CommitRead(p) \/ CommitReadFails(p) PROVE Accounted(r)'
  <2>1. CASE CommitRead(p)
    BY <2>1 DEF CommitRead
  <2>2. CASE CommitReadFails(p)
    <3>1. /\ waiting' = [waiting EXCEPT ![p] = 0] /\ dropped' = dropped \cup {waiting[p]}
          /\ UNCHANGED <<bot, driven, cut>>
      BY <2>2 DEF CommitReadFails
    <3>2. \A q \in Processes : waiting[q] = r => waiting'[q] = r \/ r \in dropped'
      BY <3>1
    <3>3. QED
      BY <3>1, <3>2
  <2>3. QED
    BY <1>3, <2>1, <2>2
<1>4. ASSUME NEW p \in Processes, Dispatch(p) PROVE Accounted(r)'
  BY <1>4, DriveParts DEF Dispatch
<1>5. ASSUME NEW d \in Drives, SendOrder(d) \/ Answer(d) \/ HandOver(d) PROVE Accounted(r)'
  BY <1>5, DriveParts DEF SendOrder, Answer, HandOver
<1>6. ASSUME NEW d \in Drives, Finish(d) PROVE Accounted(r)'
  BY <1>6, DriveParts DEF Finish
<1>7. ASSUME NEW d \in Drives, CommitAndRelease(d) PROVE Accounted(r)'
  <2>1. d[2] \in driven /\ UNCHANGED <<waiting, driven, dropped, cut>>
    BY <1>7 DEF CommitAndRelease
  <2>2. ASSUME NEW p \in Processes, bot[<<p, r>>] # "none" PROVE Accounted(r)'
    <3>1. CASE <<p, r>> = d
      BY <2>1, <3>1
    <3>2. CASE <<p, r>> # d
      BY <1>7, <2>2, <3>2, DriveParts DEF CommitAndRelease
    <3>3. QED
      BY <3>1, <3>2
  <2>3. QED
    BY <2>1, <2>2
<1>8. CASE Rebalance
  BY <1>8 DEF Rebalance, Move
<1>9. CASE Crash
  <2>1. /\ cut' = cut \cup InHand(owner) /\ driven' = driven /\ dropped' = dropped
        /\ \A p \in Processes : p # owner => waiting'[p] = waiting[p]
        /\ \A d \in Drives : d[1] # owner => bot'[d] = bot[d]
    BY <1>9 DEF Crash
  <2>2. CASE r \in driven \cup dropped \cup cut
    BY <2>1, <2>2
  <2>3. ASSUME NEW p \in Processes, waiting[p] = r \/ bot[<<p, r>>] # "none"
        PROVE  Accounted(r)'
    <3>1. CASE p = owner
      <4>1. r # 0
        BY DEF Runs
      <4>2. r \in InHand(owner)
        BY <2>3, <3>1, <4>1 DEF InHand, Holding
      <4>3. QED
        BY <2>1, <4>2
    <3>2. CASE p # owner
      BY <2>1, <2>3, <3>2, DriveParts
    <3>3. QED
      BY <3>1, <3>2
  <2>4. QED
    BY <2>2, <2>3
<1>10. CASE UNCHANGED vars
  BY <1>10 DEF vars
<1>11. QED
  BY <1>1, <1>2, <1>3, <1>4, <1>5, <1>6, <1>7, <1>8, <1>9, <1>10 DEF Next, Loop, Drive

\* The runs are read one after the other, from an offset that is one of a run already
\* accounted for (consumer/kafka.go:76, 111).
LEMMA GaplessInvariant == Spec => []Gapless
<1> USE ConstantsAssumption
<1>1. Init => Gapless
  <2>1. ASSUME Init, NEW r \in Runs PROVE ~ Accounted(r) /\ ~ (r <= 0)
    <3>1. r # 0 /\ ~ (r <= 0) /\ \A p \in Processes : bot[<<p, r>>] = "none"
      BY <2>1, DriveParts DEF Init, Runs
    <3>2. QED
      BY <2>1, <3>1 DEF Init, Accounted
  <2>2. QED
    BY <2>1 DEF Init, Gapless
<1>2. TypeOK /\ Gapless /\ [Next]_vars => Gapless'
  <2> SUFFICES ASSUME TypeOK, Gapless, [Next]_vars PROVE Gapless'
    OBVIOUS
  <2>0. \A r \in Runs : Accounted(r) => Accounted(r)'
    BY StillAccounted
  <2>1. ASSUME \A r \in Runs : Accounted(r)' => Accounted(r),
               UNCHANGED <<committed, position>>
        PROVE  Gapless!1' /\ Gapless!2'
    <3>1. \A r \in Runs : \A s \in 1..r : s \in Runs
      BY DEF Runs
    <3>2. QED
      BY <2>0, <2>1, <3>1 DEF Gapless
  <2> USE DEF brokerVars, loopVars, driveVars, historyVars
  <2>2. ASSUME UNCHANGED <<waiting, bot, driven, dropped, cut, committed, position>>
        PROVE  Gapless'
    BY <2>2 DEF Gapless, Accounted
  <2>3. CASE Fetch
    <3>1. PICK n \in Runs : n = position + 1
      BY <2>3 DEF Fetch, TypeOK, Runs
    <3>2. /\ position' = n /\ committed' = committed
          /\ UNCHANGED <<bot, driven>>
          /\ n - 1 = position /\ committed \in 0..Last
      BY <2>3, <3>1 DEF Fetch, TypeOK
    <3>3. Accounted(n)' /\ \A r \in Runs : Accounted(r)' => Accounted(r) \/ r = n
      <4>1. /\ owner \in Processes /\ UNCHANGED <<bot, driven, dropped, cut>>
            /\ waiting' = [waiting EXCEPT ![owner] = n]
            /\ waiting \in [Processes -> {0} \cup Runs]
        BY <2>3, <3>1 DEF Fetch, TypeOK
      <4>2. /\ waiting'[owner] = n
            /\ \A p \in Processes : waiting'[p] \in {waiting[p], n}
        BY <4>1
      <4>3. QED
        BY <4>1, <4>2 DEF Accounted
    <3>4. \A s \in 1..n : s \in Runs /\ (s = n \/ s <= position)
      BY <3>1 DEF TypeOK, Runs
    <3>5. \A s \in 1..n : Accounted(s)'
      BY <2>0, <3>3, <3>4 DEF Gapless
    <3>6. \A r \in Runs : Accounted(r)' => \A s \in 1..r : Accounted(s)'
      <4>1. SUFFICES ASSUME NEW r \in Runs, Accounted(r)', NEW s \in 1..r
                     PROVE  Accounted(s)'
        OBVIOUS
      <4>2. s \in Runs
        BY DEF Runs
      <4>3. CASE r = n
        BY <3>5, <4>3
      <4>4. CASE Accounted(r)
        BY <2>0, <4>2, <4>4 DEF Gapless
      <4>5. QED
        BY <3>3, <4>1, <4>3, <4>4
    <3>7. \A r \in Runs : r <= committed' \/ r <= position' => Accounted(r)'
      <4>1. SUFFICES ASSUME NEW r \in Runs, r <= committed' \/ r <= position'
                     PROVE  Accounted(r)'
        OBVIOUS
      <4>2. CASE r <= committed
        BY <2>0, <4>2 DEF Gapless
      <4>3. CASE r \in 1..n
        BY <3>5, <4>3
      <4>4. QED
        BY <3>2, <4>1, <4>2, <4>3 DEF Runs
    <3>8. QED
      BY <2>3, <3>2, <3>6, <3>7 DEF Gapless
  <2>4. ASSUME NEW p \in Processes, Dispatch(p) PROVE Gapless'
    <3>1. /\ waiting[p] \in Runs /\ <<p, waiting[p]>> \in Drives
          /\ bot' = [bot EXCEPT ![<<p, waiting[p]>>] = "idle"]
          /\ waiting' = [waiting EXCEPT ![p] = 0]
          /\ UNCHANGED <<driven, dropped, cut, committed, position>>
      BY <2>4, DriveParts DEF Dispatch, TypeOK
    <3>2. \A r \in Runs : Accounted(r)' => Accounted(r)
      <4>1. SUFFICES ASSUME NEW r \in Runs, NEW q \in Processes,
                            waiting'[q] = r \/ bot'[<<q, r>>] # "none"
                     PROVE  Accounted(r)
        BY <3>1 DEF Accounted
      <4>2. CASE <<q, r>> = <<p, waiting[p]>>
        BY <4>2 DEF Accounted
      <4>3. CASE <<q, r>> # <<p, waiting[p]>>
        <5>1. waiting'[q] = r => waiting[q] = r
          BY <3>1 DEF TypeOK, Runs
        <5>2. bot'[<<q, r>>] # "none" => bot[<<q, r>>] # "none"
          BY <3>1, <4>3, DriveParts DEF TypeOK
        <5>3. QED
          BY <4>1, <5>1, <5>2 DEF Accounted
      <4>4. QED
        BY <4>2, <4>3
    <3>3. QED
      BY <2>1, <3>1, <3>2 DEF Gapless, TypeOK
  <2>5. ASSUME NEW d \in Drives, SendOrder(d) \/ Answer(d) \/ HandOver(d) PROVE Gapless'
    <3>1. \A e \in Drives : (bot'[e] # "none" <=> bot[e] # "none")
                            /\ (bot'[e] = "closing" => bot[e] = "closing")
      BY <2>5 DEF SendOrder, Answer, HandOver, TypeOK
    <3>2. UNCHANGED <<waiting, driven, dropped, cut, committed, position>>
      BY <2>5 DEF SendOrder, Answer, HandOver
    <3>3. QED
      BY <2>1, <3>1, <3>2, DriveParts DEF Gapless, Accounted
  <2>6. ASSUME NEW d \in Drives, Finish(d) PROVE Gapless'
    <3>1. \A e \in Drives : (bot'[e] # "none" <=> bot[e] # "none")
                            /\ (bot'[e] = "closing" => bot[e] = "closing" \/ e = d)
      BY <2>6 DEF Finish, TypeOK
    <3>2. /\ UNCHANGED <<waiting, dropped, cut, committed, position>>
          /\ driven' = driven \cup {d[2]} /\ bot[d] # "none"
      BY <2>6 DEF Finish
    <3>3. \A r \in Runs : Accounted(r)' => Accounted(r)
      <4>1. Accounted(d[2])
        <5>1. ASSUME NEW q \in Processes, NEW r \in Runs, d = <<q, r>>
              PROVE  Accounted(d[2])
          BY <3>2, <5>1 DEF Accounted
        <5>2. QED
          BY <5>1 DEF Drives
      <4>2. QED
        BY <3>1, <3>2, <4>1, DriveParts DEF Accounted
    <3>4. QED
      BY <2>1, <3>1, <3>2, <3>3 DEF Gapless
  <2>7. ASSUME NEW d \in Drives, CommitAndRelease(d) PROVE Gapless'
    <3>1. /\ d[2] \in Runs /\ d[2] \in driven
          /\ committed' \in {committed, d[2]}
          /\ UNCHANGED <<waiting, position, driven, dropped, cut>>
      BY <2>7, DriveParts DEF CommitAndRelease, SendOffset, Gapless
    <3>2. \A e \in Drives : bot'[e] # "none" => bot'[e] = bot[e]
      BY <2>7 DEF CommitAndRelease, TypeOK
    <3>3. \A r \in Runs : Accounted(r)' => Accounted(r)
      BY <3>1, <3>2, DriveParts DEF Accounted
    <3>4. \A r \in Runs : \A s \in 1..r : s \in Runs
      BY DEF Runs
    <3>5. Gapless!1'
      BY <2>0, <3>3, <3>4 DEF Gapless
    <3>6. \A r \in Runs : r <= committed' \/ r <= position' => Accounted(r)'
      <4>1. \A r \in 1..d[2] : r \in Runs /\ Accounted(r)
        BY <3>1, <3>4 DEF Gapless, Accounted
      <4>2. \A r \in Runs : r <= d[2] => r \in 1..d[2]
        BY <3>1 DEF Runs
      <4>3. QED
        BY <2>0, <3>1, <4>1, <4>2 DEF Gapless
    <3>7. QED
      BY <3>1, <3>2, <3>5, <3>6 DEF Gapless
  <2>8. CASE Rebalance
    <3>1. position' = committed /\ UNCHANGED <<waiting, bot, driven, dropped, cut, committed>>
      BY <2>8 DEF Rebalance, Move
    <3>2. QED
      BY <3>1 DEF Gapless, Accounted
  <2>9. CASE Crash
    <3>1. /\ position' = committed /\ UNCHANGED <<driven, dropped, committed>>
          /\ cut' = cut \cup InHand(owner)
      BY <2>9 DEF Crash, Move
    <3>2. /\ \A e \in Drives : bot'[e] # "none" => bot'[e] = bot[e]
          /\ \A p \in Processes : waiting'[p] # 0 => waiting'[p] = waiting[p]
      BY <2>9 DEF Crash, TypeOK
    <3>3. \A r \in Runs : r \in InHand(owner) => Accounted(r)
      BY DEF Accounted, InHand, Holding, TypeOK
    <3>4. \A r \in Runs : r # 0
      BY DEF Runs
    <3>5. \A r \in Runs : Accounted(r)' => Accounted(r)
      <4>1. \A r \in Runs, p \in Processes :
               waiting'[p] = r \/ bot'[<<p, r>>] # "none"
               => waiting[p] = r \/ bot[<<p, r>>] # "none"
        BY <3>2, <3>4, DriveParts
      <4>2. QED
        BY <3>1, <3>3, <4>1 DEF Accounted
    <3>6. \A r \in Runs : \A s \in 1..r : s \in Runs
      BY DEF Runs
    <3>7. QED
      BY <2>0, <3>1, <3>2, <3>5, <3>6 DEF Gapless
  <2>10. CASE StartRun \/ Pass \/ UNCHANGED vars
    BY <2>2, <2>10 DEF StartRun, Pass, vars
  <2>11. ASSUME NEW p \in Processes, CommitRead(p) \/ CommitReadFails(p) PROVE Gapless'
    <3>1. /\ waiting[p] \in Runs /\ committed' \in {committed, waiting[p]}
          /\ UNCHANGED <<bot, position, driven, cut>>
          /\ waiting'[p] \in {waiting[p], 0} /\ dropped' \in {dropped, dropped \cup {waiting[p]}}
          /\ \A q \in Processes : q # p => waiting'[q] = waiting[q]
      BY <2>11 DEF CommitRead, CommitReadFails, SendOffset, TypeOK
    <3>2. \A r \in Runs : r # 0 /\ \A s \in 1..r : s \in Runs
      BY DEF Runs
    <3>3. Accounted(waiting[p])
      BY <3>1 DEF Accounted
    <3>4. \A r \in Runs : Accounted(r)' => Accounted(r)
      BY <3>1, <3>2, <3>3 DEF Accounted
    <3>5. Gapless!1'
      BY <2>0, <3>2, <3>4 DEF Gapless
    <3>6. \A r \in Runs : r <= committed' \/ r <= position' => Accounted(r)'
      <4>1. \A r \in 1..waiting[p] : r \in Runs /\ Accounted(r)
        BY <3>1, <3>2, <3>3 DEF Gapless
      <4>2. \A r \in Runs : r <= waiting[p] => r \in 1..waiting[p]
        BY <3>1 DEF Runs
      <4>3. QED
        BY <2>0, <3>1, <4>1, <4>2 DEF Gapless
    <3>7. QED
      BY <3>1, <3>5, <3>6 DEF Gapless
  <2>12. QED
    BY <2>3, <2>4, <2>5, <2>6, <2>7, <2>8, <2>9, <2>10, <2>11 DEF Next, Loop, Drive
<1>3. QED
  BY <1>1, <1>2, TypeCorrect, PTL DEF Spec
---------------------------------------------------------------------------
(* What a crash costs. *)

\* Sets of runs and of processes are counted by natural numbers.
LEMMA Counting ==
    ASSUME NEW S, S \subseteq Runs \/ S \subseteq Processes
    PROVE  IsFiniteSet(S) /\ Cardinality(S) \in Nat
<1>1. IsFiniteSet(Runs) /\ IsFiniteSet(Processes)
  BY FS_Interval, ConstantsAssumption DEF Runs, Processes
<1>2. IsFiniteSet(S)
  BY <1>1, FS_Subset
<1>3. QED
  BY <1>2, FS_CardinalityType

\* The sum that bounds the runs of a union.
LEMMA UnionCounted ==
    ASSUME NEW S \in SUBSET Runs, NEW T \in SUBSET Runs
    PROVE  Cardinality(S \cup T) <= Cardinality(S) + Cardinality(T)
<1>1. /\ IsFiniteSet(S) /\ IsFiniteSet(T) /\ IsFiniteSet(S \cap T)
      /\ Cardinality(S) \in Nat /\ Cardinality(T) \in Nat
      /\ Cardinality(S \cap T) \in Nat
  BY Counting
<1>2. Cardinality(S \cup T) = Cardinality(S) + Cardinality(T) - Cardinality(S \cap T)
  BY <1>1, FS_Union
<1>3. QED
  BY <1>1, <1>2

\* One crash more, in the product that bounds what is cut.
LEMMA OneCrashMore ==
    ASSUME NEW n \in Nat, NEW m \in Nat
    PROVE  (m + 1) * (n + 1) = (m + 1) * n + m + 1 /\ (m + 1) * n \in Nat
OBVIOUS

\* No process has more goroutines than slots, each crash is of another process, and each
\* other loss of the partition exposes one run at most.
Counts ==
    /\ Cardinality(exposed) + Cardinality(crashed) <= owner
    /\ \A p \in Processes : Cardinality(Holding(p)) <= MaxConcurrent
    /\ \A p \in crashed : p < owner
    /\ Cardinality(cut) <= (MaxConcurrent + 1) * Cardinality(crashed)

\* A crash costs at most the runs that hold a slot and the one that waits for one
\* (consumer/kafka.go:95-114).
LEMMA CountsInvariant == Spec => []Counts
<1> USE ConstantsAssumption
<1>1. Init => Counts
  <2> SUFFICES ASSUME Init PROVE Counts
    OBVIOUS
  <2>1. /\ cut = {} /\ crashed = {} /\ exposed = {} /\ owner = 0
        /\ \A p \in Processes : Holding(p) = {}
    BY DriveParts DEF Init, Holding
  <2>2. QED
    BY <2>1, FS_EmptySet DEF Counts
<1>2. TypeOK /\ TypeOK' /\ Counts /\ [Next]_vars => Counts'
  <2> SUFFICES ASSUME TypeOK, TypeOK', Counts, [Next]_vars PROVE Counts'
    OBVIOUS
  <2> USE DEF brokerVars, loopVars, driveVars, historyVars
  <2>0. \A p \in Processes : /\ Holding(p) \in SUBSET Runs /\ Holding(p)' \in SUBSET Runs
                             /\ Cardinality(Holding(p)) \in Nat
                             /\ Cardinality(Holding(p)') \in Nat
                             /\ IsFiniteSet(Holding(p))
    BY Counting DEF Holding
  <2>1. ASSUME \A p \in Processes : Holding(p)' \subseteq Holding(p),
               UNCHANGED <<owner, cut, crashed, exposed>>
        PROVE  Counts'
    <3>1. \A p \in Processes : Cardinality(Holding(p)') <= Cardinality(Holding(p))
      BY <2>0, <2>1, FS_Subset
    <3>2. \A p \in Processes : Cardinality(Holding(p)') <= MaxConcurrent
      BY <2>0, <3>1 DEF Counts
    <3>3. QED
      BY <2>1, <3>2 DEF Counts
  <2>2. CASE \/ StartRun \/ Fetch \/ Pass \/ UNCHANGED vars
             \/ \E p \in Processes : CommitRead(p) \/ CommitReadFails(p)
    <3>1. UNCHANGED <<bot, owner, cut, crashed, exposed>>
      BY <2>2 DEF StartRun, Fetch, CommitRead, CommitReadFails, Pass, vars
    <3>2. QED
      BY <2>1, <3>1 DEF Holding
  <2>3. ASSUME NEW p \in Processes, Dispatch(p) PROVE Counts'
    <3>1. /\ waiting[p] \in Runs /\ <<p, waiting[p]>> \in Drives
          /\ bot' = [bot EXCEPT ![<<p, waiting[p]>>] = "idle"]
          /\ Cardinality(Holding(p)) < MaxConcurrent
          /\ UNCHANGED <<owner, cut, crashed, exposed>>
      BY <2>3, DriveParts DEF Dispatch, TypeOK
    <3>2. ASSUME NEW q \in Processes
          PROVE  Holding(q)' = IF q = p THEN Holding(p) \cup {waiting[p]} ELSE Holding(q)
      BY <3>1, DriveParts DEF Holding, TypeOK
    <3>3. /\ Cardinality(Holding(p) \cup {waiting[p]}) <= Cardinality(Holding(p)) + 1
          /\ Cardinality(Holding(p) \cup {waiting[p]}) \in Nat
      <4>1. Cardinality(Holding(p) \cup {waiting[p]}) =
               IF waiting[p] \in Holding(p) THEN Cardinality(Holding(p))
               ELSE Cardinality(Holding(p)) + 1
        BY <2>0, FS_AddElement
      <4>2. QED
        BY <2>0, <4>1
    <3>4. ASSUME NEW q \in Processes PROVE Cardinality(Holding(q)') <= MaxConcurrent
      <4>1. CASE q = p
        <5>1. Holding(q)' = Holding(p) \cup {waiting[p]}
          BY <3>2, <4>1
        <5>2. Cardinality(Holding(q)') <= Cardinality(Holding(p)) + 1
          BY <3>3, <5>1
        <5>3. QED
          BY <2>0, <3>1, <5>2
      <4>2. CASE q # p
        <5>1. Holding(q)' = Holding(q)
          BY <3>2, <4>2
        <5>2. QED
          BY <5>1 DEF Counts
      <4>3. QED
        BY <4>1, <4>2
    <3>5. QED
      BY <3>1, <3>4 DEF Counts
  <2>4. ASSUME NEW d \in Drives, Drive(d) PROVE Counts'
    <3>1. /\ UNCHANGED <<owner, cut, crashed, exposed>>
          /\ \A e \in Drives : bot'[e] # "none" => bot[e] # "none"
      BY <2>4 DEF Drive, SendOrder, Answer, HandOver, Finish, CommitAndRelease, TypeOK
    <3>2. QED
      BY <2>1, <3>1, DriveParts DEF Holding
  <2>5. CASE Rebalance
    <3>1. /\ owner' = owner + 1 /\ UNCHANGED <<bot, cut, crashed>>
          /\ \A p \in crashed : p \in Int /\ owner \in Int
      BY <2>5 DEF Rebalance, Move, TypeOK, Processes
    <3>2. Cardinality(exposed') <= Cardinality(exposed) + 1
      <4>1. exposed' = exposed \/ \E r : exposed' = exposed \cup {r}
        BY <2>5 DEF Rebalance
      <4>2. IsFiniteSet(exposed) /\ Cardinality(exposed) \in Nat
        BY Counting DEF TypeOK
      <4>3. QED
        BY <4>1, <4>2, FS_AddElement
    <3>3. /\ Cardinality(exposed) \in Nat /\ Cardinality(exposed') \in Nat
          /\ Cardinality(crashed) \in Nat /\ owner \in Int
      <4>1. /\ exposed \in SUBSET Runs /\ exposed' \in SUBSET Runs
            /\ crashed \in SUBSET Processes /\ owner \in Int
        BY DEF TypeOK, Processes
      <4>2. QED
        BY <4>1, Counting
    <3>4. Cardinality(exposed') + Cardinality(crashed') <= owner'
      BY <3>1, <3>2, <3>3 DEF Counts
    <3>5. QED
      BY <3>1, <3>4 DEF Counts, Holding
  <2>6. CASE Crash
    <3>1. /\ owner' = owner + 1 /\ owner \in Processes
          /\ crashed' = crashed \cup {owner}
          /\ cut' = cut \cup InHand(owner) /\ exposed' = exposed
          /\ \A e \in Drives : bot'[e] # "none" => bot[e] # "none"
      BY <2>6 DEF Crash, Move, TypeOK
    <3>2. \A p \in Processes : Cardinality(Holding(p)') <= MaxConcurrent
      <4>1. \A p \in Processes : Holding(p)' \subseteq Holding(p)
        BY <3>1, DriveParts DEF Holding
      <4>2. \A p \in Processes : Cardinality(Holding(p)') <= Cardinality(Holding(p))
        BY <2>0, <4>1, FS_Subset
      <4>3. QED
        BY <2>0, <4>2 DEF Counts
    <3>3. /\ \A p \in crashed' : p < owner'
          /\ Cardinality(crashed') = Cardinality(crashed) + 1
          /\ Cardinality(crashed) \in Nat
      <4>1. /\ crashed \subseteq Processes /\ owner \notin crashed
            /\ \A p \in crashed \cup {owner} : p < owner + 1
        BY <3>1 DEF Counts, TypeOK, Processes
      <4>2. IsFiniteSet(crashed) /\ Cardinality(crashed) \in Nat
        BY <4>1, Counting
      <4>3. QED
        BY <3>1, <4>1, <4>2, FS_AddElement
    <3>4. InHand(owner) \in SUBSET Runs /\ Cardinality(InHand(owner)) <= MaxConcurrent + 1
      <4>1. /\ {waiting[owner]} \ {0} \in SUBSET Runs
            /\ {waiting[owner]} \ {0} \subseteq {waiting[owner]}
        BY <3>1 DEF TypeOK
      <4>2. Cardinality({waiting[owner]} \ {0}) <= 1
        <5>1. CASE waiting[owner] = 0
          <6>1. {waiting[owner]} \ {0} = {}
            BY <5>1
          <6>2. QED
            BY <6>1, FS_EmptySet
        <5>2. CASE waiting[owner] # 0
          <6>1. {waiting[owner]} \ {0} = {waiting[owner]}
            BY <5>2
          <6>2. QED
            BY <6>1, FS_EmptySet, FS_AddElement, {} \cup {waiting[owner]} = {waiting[owner]}
        <5>3. QED
          BY <5>1, <5>2
      <4>3. Cardinality(InHand(owner)) <= Cardinality(Holding(owner))
                                          + Cardinality({waiting[owner]} \ {0})
        BY <2>0, <3>1, <4>1, UnionCounted DEF InHand
      <4>4. InHand(owner) \in SUBSET Runs
        BY <2>0, <3>1, <4>1 DEF InHand
      <4>5. /\ Cardinality({waiting[owner]} \ {0}) \in Nat
            /\ Cardinality(InHand(owner)) \in Nat
        BY <4>1, <4>4, Counting
      <4>6. QED
        BY <2>0, <3>1, <4>2, <4>3, <4>4, <4>5 DEF Counts
    <3>5. Cardinality(cut') <= (MaxConcurrent + 1) * Cardinality(crashed')
      <4>1. cut \in SUBSET Runs /\ cut' \in SUBSET Runs
        BY DEF TypeOK
      <4>2. /\ Cardinality(cut) \in Nat /\ Cardinality(InHand(owner)) \in Nat
            /\ Cardinality(cut') \in Nat
        BY <3>4, <4>1, Counting
      <4>3. Cardinality(cut') <= Cardinality(cut) + Cardinality(InHand(owner))
        BY <3>1, <3>4, <4>1, UnionCounted
      <4>4. /\ (MaxConcurrent + 1) * (Cardinality(crashed) + 1)
                 = (MaxConcurrent + 1) * Cardinality(crashed) + MaxConcurrent + 1
            /\ (MaxConcurrent + 1) * Cardinality(crashed) \in Nat
        BY <3>3, OneCrashMore
      <4>5. Cardinality(cut) <= (MaxConcurrent + 1) * Cardinality(crashed)
        BY DEF Counts
      <4>6. QED
        BY <3>3, <3>4, <4>2, <4>3, <4>4, <4>5
    <3>6. Cardinality(exposed') + Cardinality(crashed') <= owner'
      <4>1. Cardinality(exposed) \in Nat /\ owner \in Int
        BY Counting DEF TypeOK, Processes
      <4>2. QED
        BY <3>1, <3>3, <4>1 DEF Counts
    <3>7. QED
      BY <3>2, <3>3, <3>5, <3>6 DEF Counts
  <2>7. QED
    BY <2>2, <2>3, <2>4, <2>5, <2>6 DEF Next, Loop
<1>3. QED
  BY <1>1, <1>2, TypeCorrect, PTL DEF Spec

\* No run that was read is lost without a failed commit or a crash, whatever the number
\* of runs, slots and processes, and a crash costs at most the slots and one
\* (consumer/kafka.go:76-116).
THEOREM RunsAreAccountedFor == Spec => []NoRunVanishes
<1>1. TypeOK /\ Gapless /\ Counts => NoRunVanishes
  <2> SUFFICES ASSUME TypeOK, Gapless, Counts PROVE NoRunVanishes
    OBVIOUS
  <2>1. ASSUME NEW r \in Runs, NEW p \in Processes, waiting[p] = r \/ bot[<<p, r>>] # "none"
        PROVE  r \in InHand(p)
    BY <2>1, ConstantsAssumption DEF InHand, Holding, Runs
  <2>2. \A r \in Runs : Accounted(r) => \/ r \in driven \cup dropped \cup cut
                                        \/ \E p \in Processes : r \in InHand(p)
    BY <2>1 DEF Accounted
  <2>3. QED
    BY <2>2 DEF NoRunVanishes, Gapless, Counts
<1>2. QED
  BY <1>1, TypeCorrect, GaplessInvariant, CountsInvariant, PTL

\* A run is begun twice only if a commit put the offset back before it or the partition was
\* lost between its fetch and its commit, and a loss does that to one run at most
\* (consumer/kafka.go:76, 111).
THEOREM BegunTwiceHasACause == Spec => []BegunTwiceIsExplained
<1>1. TypeOK /\ ReadOnce /\ Counts => BegunTwiceIsExplained
  <2> SUFFICES ASSUME TypeOK, ReadOnce, Counts PROVE BegunTwiceIsExplained
    OBVIOUS
  <2>1. \A r \in Runs : begun[r] > 1 => r \in rewound \cup exposed
    BY DEF TypeOK, ReadOnce
  <2>2. QED
    BY <2>1 DEF BegunTwiceIsExplained, Counts
<1>2. QED
  BY <1>1, TypeCorrect, ReadOnceInvariant, CountsInvariant, PTL

=============================================================================
