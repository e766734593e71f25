--------------------------- MODULE SandboxProofs ---------------------------
(***************************************************************************)
(* Proofs about the sandbox service, for any number of submissions, slots  *)
(* and restarts.                                                           *)
(***************************************************************************)
EXTENDS Sandbox, FiniteSetTheorems, TLAPS

\* The types (consumer/kafka.go:68-153, docker.go:36-72).
THEOREM TypeCorrect == Safety => []TypeOK
<1> USE ConstantsAssumption DEF Submissions, Steps
<1>1. Init => TypeOK
  BY DEF Init, TypeOK
<1>2. TypeOK /\ [Next]_vars => TypeOK'
  <2> SUFFICES ASSUME TypeOK, [Next]_vars PROVE TypeOK'
    OBVIOUS
  <2> USE DEF TypeOK, Working, Goto, TerminateSandbox
  <2>1. CASE Fetch
    BY <2>1 DEF Fetch
  <2>2. CASE Dispatch
    BY <2>2 DEF Dispatch
  <2>3. ASSUME NEW s \in Submissions, NEW ok \in BOOLEAN,
               Pull(s, ok) \/ CreateContainer(s, ok) \/ BootContainer(s, ok)
        PROVE  TypeOK'
    BY <2>3 DEF Pull, CreateContainer, BootContainer
  <2>4. ASSUME NEW s \in Submissions, NEW ok \in BOOLEAN,
               Teardown(s, ok) \/ PublishFailed(s) \/ CommitAndRelease(s, ok), s \notin hung
        PROVE  TypeOK'
    <3>1. CASE Teardown(s, ok)
      BY <3>1 DEF Teardown
    <3>2. CASE PublishFailed(s)
      BY <3>2 DEF PublishFailed
    <3>3. CASE CommitAndRelease(s, ok)
      BY <2>4, <3>3 DEF CommitAndRelease
    <3>4. QED
      BY <2>4, <3>1, <3>2, <3>3
  <2>5. ASSUME NEW s \in Submissions, NEW ok \in BOOLEAN, PublishStarted(s, ok) PROVE TypeOK'
    BY <2>5 DEF PublishStarted
  <2>6. ASSUME NEW s \in Submissions, NEW ok \in BOOLEAN, Expire(s, ok) PROVE TypeOK'
    BY <2>6 DEF Expire
  <2>7. CASE Restart
    BY <2>7 DEF Restart
  <2>8. ASSUME NEW s \in Submissions, Hang(s) PROVE TypeOK'
    BY <2>8 DEF Hang
  <2>9. CASE UNCHANGED vars
    BY <2>9 DEF vars
  <2>10. QED
    BY <2>1, <2>2, <2>3, <2>4, <2>5, <2>6, <2>7, <2>8, <2>9 DEF Next, Work
<1>3. QED
  BY <1>1, <1>2, PTL DEF Safety

\* What a worker and a timer never share: a submission is given to a worker once in
\* the life of a process, and has a timer only when its worker is done with the container.
Handover ==
    /\ waiting # 0 => waiting = position
    /\ \A s \in Submissions :
        /\ s > position \/ s = waiting => worker[s] = "none" /\ s \notin timers
        /\ worker[s] \notin {"none", "commit"} => s \notin timers
        /\ worker[s] \in {"boot", "teardown", "publish"} => s \in containers

IInv == Handover /\ ContainersAreOwned /\ timers \subseteq containers

\* What hands a container over from its worker to its timer (consumer/kafka.go:121-152,
\* docker.go:36-69).
LEMMA Invariance == Safety => []IInv
<1> USE ConstantsAssumption DEF Submissions
<1>1. Init => IInv
  BY DEF Init, IInv, Handover, ContainersAreOwned
<1>2. TypeOK /\ IInv /\ [Next]_vars => IInv'
  <2> SUFFICES ASSUME TypeOK, IInv, [Next]_vars PROVE IInv'
    OBVIOUS
  <2> USE DEF TypeOK, IInv, Handover, ContainersAreOwned, Goto, TerminateSandbox
  <2>1. CASE Fetch
    BY <2>1 DEF Fetch
  <2>2. CASE Dispatch
    BY <2>2 DEF Dispatch
  <2>3. ASSUME NEW s \in Submissions, NEW ok \in BOOLEAN, Pull(s, ok) PROVE IInv'
    BY <2>3 DEF Pull
  <2>4. ASSUME NEW s \in Submissions, NEW ok \in BOOLEAN, CreateContainer(s, ok) PROVE IInv'
    BY <2>4 DEF CreateContainer
  <2>5. ASSUME NEW s \in Submissions, NEW ok \in BOOLEAN, BootContainer(s, ok) PROVE IInv'
    BY <2>5 DEF BootContainer
  <2>6. ASSUME NEW s \in Submissions, NEW ok \in BOOLEAN, Teardown(s, ok) PROVE IInv'
    BY <2>6 DEF Teardown
  <2>7. ASSUME NEW s \in Submissions, NEW ok \in BOOLEAN, PublishStarted(s, ok) PROVE IInv'
    BY <2>7 DEF PublishStarted
  <2>8. ASSUME NEW s \in Submissions, NEW ok \in BOOLEAN, CommitAndRelease(s, ok) PROVE IInv'
    BY <2>8 DEF CommitAndRelease
  <2>9. ASSUME NEW s \in Submissions, PublishFailed(s) PROVE IInv'
    BY <2>9 DEF PublishFailed
  <2>10. ASSUME NEW s \in Submissions, NEW ok \in BOOLEAN, Expire(s, ok) PROVE IInv'
    BY <2>10 DEF Expire
  <2>11. CASE Restart
    BY <2>11 DEF Restart
  <2>12. CASE UNCHANGED vars \/ \E s \in Submissions : Hang(s)
    BY <2>12 DEF vars, Hang
  <2>13. QED
    BY <2>1, <2>2, <2>3, <2>4, <2>5, <2>6, <2>7, <2>8, <2>9, <2>10, <2>11, <2>12
    DEF Next, Work
<1>3. QED
  BY <1>1, <1>2, TypeCorrect, PTL DEF Safety

\* Every container has a worker or a timer that will terminate it, but for those that a
\* failed Publish, a failed removal or a crash left behind (docker.go:36-69,
\* consumer/kafka.go:121-152).
THEOREM EveryContainerIsOwned == Safety => []ContainersAreOwned
<1>1. IInv => ContainersAreOwned
  BY DEF IInv
<1>2. QED
  BY <1>1, Invariance, PTL

\* Timers terminate containers that are there, and none that a worker is still booting
\* (docker.go:39-44, consumer/kafka.go:139-150).
THEOREM TimersFindContainers == Safety => []TimersHaveContainers
<1>1. IInv => TimersHaveContainers
  BY DEF IInv, Handover, TimersHaveContainers
<1>2. QED
  BY <1>1, Invariance, PTL

---------------------------------------------------------------------------
(* What a crash can skip. *)

\* The workers whose submission would be skipped by a crash: a later one is committed.
Late == {s \in Working : s <= offset}

\* Submissions are fetched in order, and all those up to the position are accounted for.
\* What is skipped lies behind all that this process has fetched.
Order ==
    /\ offset <= position
    /\ waiting # 0 => waiting = position /\ offset < waiting
    /\ \A s \in Working : s <= position /\ (waiting # 0 => s < waiting)
    /\ \A t \in Skipped : /\ waiting # 0 => t < waiting
                          /\ \A s \in Working : t < s
    /\ \A t \in 1..position : t \in handled \/ t \in Working \/ t = waiting \/ t \in Skipped

\* The loop hands out submissions in the order of the topic, and a worker never goes back
\* (consumer/kafka.go:70-109).
LEMMA Ordered == Safety => []Order
<1>1. Init => Order
  BY DEF Init, Order, Working, Skipped
<1>2. TypeOK /\ Order /\ [Next]_vars => Order'
  <2> SUFFICES ASSUME TypeOK, Order, [Next]_vars PROVE Order'
    OBVIOUS
  <2> USE ConstantsAssumption DEF TypeOK, Order, Working, Skipped, Submissions
  <2>1. CASE Fetch
    BY <2>1 DEF Fetch
  <2>2. CASE Dispatch
    BY <2>2 DEF Dispatch
  <2>3. ASSUME NEW s \in Submissions, NEW ok \in BOOLEAN,
               \/ Pull(s, ok) \/ CreateContainer(s, ok) \/ BootContainer(s, ok)
               \/ Teardown(s, ok) \/ PublishStarted(s, ok) \/ PublishFailed(s)
        PROVE  Order'
    <3>1. /\ Working' = Working /\ Skipped' = Skipped
          /\ UNCHANGED <<position, waiting, offset, handled>>
      BY <2>3 DEF Pull, CreateContainer, BootContainer, Teardown, PublishStarted,
         PublishFailed, Goto
    <3>2. QED
      BY <3>1
  <2>4. ASSUME NEW s \in Submissions, NEW ok \in BOOLEAN, CommitAndRelease(s, ok)
        PROVE  Order'
    <3>1. /\ Working' = Working \ {s} /\ handled' = handled \cup {s}
          /\ s \in Working
          /\ offset' = IF ok THEN s ELSE offset
          /\ UNCHANGED <<position, waiting>>
      BY <2>4 DEF CommitAndRelease, Goto
    <3>2. Skipped' = Skipped \ {s}
      BY <2>4, <3>1 DEF CommitAndRelease, Goto
    <3>3. QED
      BY <3>1, <3>2
  <2>5. ASSUME NEW s \in Submissions, NEW ok \in BOOLEAN, Expire(s, ok) PROVE Order'
    BY <2>5 DEF Expire
  <2>6. CASE Restart
    BY <2>6 DEF Restart
  <2>7. CASE UNCHANGED vars \/ \E s \in Submissions : Hang(s)
    BY <2>7 DEF vars, Hang
  <2>8. QED
    BY <2>1, <2>2, <2>3, <2>4, <2>5, <2>6, <2>7 DEF Next, Work
<1>3. QED
  BY <1>1, <1>2, TypeCorrect, PTL DEF Safety

\* No more workers than slots, and one slot less for the late ones: whoever committed
\* the later submission has given its slot back.
Counts ==
    /\ Cardinality(Working) <= MaxConcurrent
    /\ Cardinality(Late) <= MaxConcurrent - 1
    /\ CrashesSkipFew

\* Sets of submissions are finite, and so are counted by natural numbers.
LEMMA Counting ==
    ASSUME NEW S, S \subseteq Submissions
    PROVE  IsFiniteSet(S) /\ Cardinality(S) \in Nat
<1>1. IsFiniteSet(Submissions)
  BY FS_Interval, ConstantsAssumption DEF Submissions
<1>2. IsFiniteSet(S)
  BY <1>1, FS_Subset
<1>3. QED
  BY <1>2, FS_CardinalityType

\* One crash more, in the product that bounds what is skipped.
LEMMA OneCrashMore ==
    ASSUME NEW n \in Nat, NEW m \in Nat
    PROVE  /\ n * m \in Nat
           /\ (n + 1) * m = n * m + m
OBVIOUS

\* A crash skips fewer submissions than there are slots, whatever the number of
\* submissions, slots and crashes (consumer/kafka.go:89-109).
THEOREM CrashesSkipFewSubmissions == Safety => []CrashesSkipFew
<1> USE ConstantsAssumption
<1>1. Init => Counts
  <2> SUFFICES ASSUME Init PROVE Counts
    OBVIOUS
  <2>1. Working = {} /\ Late = {} /\ Skipped = {} /\ restarts = 0
    BY DEF Init, Working, Late, Skipped
  <2>2. QED
    BY <2>1, FS_EmptySet DEF Counts, CrashesSkipFew
<1>2. TypeOK /\ Order /\ Order' /\ Counts /\ [Next]_vars => Counts'
  <2> SUFFICES ASSUME TypeOK, Order, Order', Counts, [Next]_vars PROVE Counts'
    OBVIOUS
  <2> USE DEF TypeOK
  <2>0. /\ Working \subseteq Submissions /\ Late \subseteq Submissions
        /\ Skipped \subseteq Submissions
    BY DEF Working, Late, Skipped, Submissions
  <2>1. ASSUME Working' = Working, Late' = Late, Skipped' = Skipped, restarts' = restarts
        PROVE  Counts'
    BY <2>1 DEF Counts, CrashesSkipFew
  <2>2. CASE Dispatch
    <3>1. Working' = Working \cup {waiting} /\ Late' = Late /\ Skipped' = Skipped
      BY <2>2 DEF Dispatch, Order, Working, Late, Skipped, Submissions
    <3>2. Cardinality(Working') <= MaxConcurrent
      <4>1. IsFiniteSet(Working) /\ Cardinality(Working) \in Nat
        BY <2>0, Counting
      <4>2. Cardinality(Working') = IF waiting \in Working THEN Cardinality(Working)
                                    ELSE Cardinality(Working) + 1
        BY <3>1, <4>1, FS_AddElement
      <4>3. Cardinality(Working) < MaxConcurrent
        BY <2>2 DEF Dispatch
      <4>4. QED
        BY <4>1, <4>2, <4>3
    <3>3. QED
      BY <2>2, <3>1, <3>2 DEF Counts, CrashesSkipFew, Dispatch
  <2>3. ASSUME NEW s \in Submissions, NEW ok \in BOOLEAN, CommitAndRelease(s, ok)
        PROVE  Counts'
    <3>1. Working' = Working \ {s} /\ s \in Working
      BY <2>3 DEF CommitAndRelease, Goto, Working
    <3>2. Late' \subseteq Working' /\ Skipped' \subseteq Skipped
      BY <2>3 DEF CommitAndRelease, Goto, Working, Late, Skipped, Order, Submissions
    <3>3. Cardinality(Working') <= MaxConcurrent - 1
      BY <2>0, <3>1, Counting, FS_RemoveElement DEF Counts
    <3>4. Cardinality(Late') <= Cardinality(Working')
      BY <2>0, <3>1, <3>2, Counting, FS_Subset
    <3>5. Cardinality(Skipped') <= Cardinality(Skipped)
      BY <2>0, <3>2, Counting, FS_Subset
    <3>6. Cardinality(Working') \in Nat /\ Cardinality(Late') \in Nat
      BY <2>0, <3>1, <3>2, Counting
    <3>7. Cardinality(Skipped') <= restarts * (MaxConcurrent - 1)
      <4>1. Cardinality(Skipped') \in Nat /\ Cardinality(Skipped) \in Nat
        BY <2>0, <3>2, Counting
      <4>2. restarts * (MaxConcurrent - 1) \in Int
        OBVIOUS
      <4>3. QED
        BY <3>5, <4>1, <4>2 DEF Counts, CrashesSkipFew
    <3>8. restarts' = restarts
      BY <2>3 DEF CommitAndRelease
    <3>9. QED
      BY <3>3, <3>4, <3>6, <3>7, <3>8 DEF Counts, CrashesSkipFew
  <2>4. CASE Restart
    <3>1. Working' = {} /\ Late' = {}
      BY <2>4 DEF Restart, Working, Late
    <3>2. Skipped' \subseteq Skipped \cup Late
      BY <2>4 DEF Restart, Working, Late, Skipped, Submissions
    <3>3. Cardinality(Skipped') <= Cardinality(Skipped) + Cardinality(Late)
      <4>1. /\ IsFiniteSet(Skipped) /\ IsFiniteSet(Late) /\ IsFiniteSet(Skipped \cap Late)
            /\ Cardinality(Skipped) \in Nat /\ Cardinality(Late) \in Nat
            /\ Cardinality(Skipped \cap Late) \in Nat
        BY <2>0, Counting
      <4>2. /\ IsFiniteSet(Skipped \cup Late)
            /\ Cardinality(Skipped \cup Late) =
                 Cardinality(Skipped) + Cardinality(Late) - Cardinality(Skipped \cap Late)
        BY <4>1, FS_Union
      <4>3. /\ Cardinality(Skipped') <= Cardinality(Skipped \cup Late)
            /\ Cardinality(Skipped') \in Nat
        BY <3>2, <4>2, FS_Subset, FS_CardinalityType
      <4>4. QED
        BY <4>1, <4>2, <4>3
    <3>4. (restarts + 1) * (MaxConcurrent - 1) =
            restarts * (MaxConcurrent - 1) + (MaxConcurrent - 1)
      BY OneCrashMore
    <3>5. /\ Cardinality(Skipped) \in Nat /\ Cardinality(Late) \in Nat
          /\ Cardinality(Skipped') \in Nat /\ restarts * (MaxConcurrent - 1) \in Int
      <4>1. Skipped' \subseteq Submissions
        BY <2>0, <3>2
      <4>2. restarts * (MaxConcurrent - 1) \in Int
        OBVIOUS
      <4>3. QED
        BY <2>0, <4>1, <4>2, Counting
    <3>6. Cardinality(Skipped') <= restarts' * (MaxConcurrent - 1)
      BY <2>4, <3>3, <3>4, <3>5 DEF Counts, CrashesSkipFew, Restart
    <3>7. QED
      BY <3>1, <3>6, FS_EmptySet DEF Counts, CrashesSkipFew
  <2>5. ASSUME NEW s \in Submissions, NEW ok \in BOOLEAN,
               \/ Pull(s, ok) \/ CreateContainer(s, ok) \/ BootContainer(s, ok)
               \/ Teardown(s, ok) \/ PublishStarted(s, ok) \/ PublishFailed(s)
        PROVE  Counts'
    <3>1. /\ worker[s] # "none" /\ UNCHANGED <<offset, handled, restarts>>
          /\ \E step \in Steps \ {"none"} : Goto(s, step)
      BY <2>5 DEF Pull, CreateContainer, BootContainer, Teardown, PublishStarted,
         PublishFailed, Steps
    <3>2. \A x \in Submissions : worker'[x] = "none" <=> worker[x] = "none"
      BY <3>1 DEF Goto
    <3>3. Working' = Working /\ Late' = Late
      BY <3>1, <3>2 DEF Working, Late
    <3>4. Skipped' = Skipped
      BY <3>1, <3>2 DEF Skipped, Submissions
    <3>5. QED
      BY <2>1, <3>1, <3>3, <3>4
  <2>6. CASE Fetch
    BY <2>1, <2>6 DEF Fetch, Working, Late, Skipped
  <2>7. ASSUME NEW s \in Submissions, NEW ok \in BOOLEAN, Expire(s, ok) PROVE Counts'
    BY <2>1, <2>7 DEF Expire, Working, Late, Skipped
  <2>8. CASE UNCHANGED vars \/ \E s \in Submissions : Hang(s)
    BY <2>1, <2>8 DEF vars, Hang, Working, Late, Skipped
  <2>9. QED
    BY <2>2, <2>3, <2>4, <2>5, <2>6, <2>7, <2>8 DEF Next, Work
<1>3. Counts => CrashesSkipFew
  BY DEF Counts
<1>4. QED
  BY <1>1, <1>2, <1>3, TypeCorrect, Ordered, PTL DEF Safety

=============================================================================
