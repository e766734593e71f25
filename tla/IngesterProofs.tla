--------------------------- MODULE IngesterProofs ---------------------------
(***************************************************************************)
(* Proofs about the window manager, for any runs, events and contestants,  *)
(* any duration and grace; and about the ingester process, for any number  *)
(* of restarts and of rebalances.                                          *)
(*                                                                         *)
(* The invariants of the manager are proved in layers, each from the ones  *)
(* before it:                                                              *)
(*   Layout    the type invariant, and what the pointers held by the map,  *)
(*             by the scan and by the calls in progress point to           *)
(*   Ledgers   which events each window and each report holds              *)
(*   Naming    where the contestant of a run is known                      *)
(* The process drives the manager by its own steps only, so that every     *)
(* theorem of Spec holds of IngesterSafety; what the second part adds is   *)
(* where the snapshots and the events go once the manager has let go of    *)
(* them:                                                                   *)
(*   Delivery  no snapshot of this process is lost before Publish          *)
(*   Recounts  what earlier processes published, and how often this one    *)
(*             was given a message                                         *)
(***************************************************************************)
EXTENDS Ingester, FiniteSetTheorems, TLAPS

(* The window manager *)

\* A run's window was opened by an event of that run.
WindowOfRun ==
    \A r \in Runs : windows[r] # None => RunOf[windows[r]] = r /\ windows[r] \in added

\* The scan has only windows ahead of it, and none when m.mu is free.
ScanOfWindows ==
    /\ \A r \in toVisit : windows[r] # None
    /\ ~scanning => toVisit = {}

\* The calls in progress hold a window of their own run.
CallsOfRun ==
    /\ adder # Idle => /\ adder.event \in added
                       /\ adder.window \in added
                       /\ RunOf[adder.window] = RunOf[adder.event]
    /\ setter # NotSetting => /\ setter.run \in announced
                              /\ setter.window # None => RunOf[setter.window] = setter.run

Layout == TypeOK /\ WindowOfRun /\ ScanOfWindows /\ CallsOfRun

\* The events recorded in a window, live or forgotten: of its run, handed to
\* AddEvent, in no other window, and not those of the call in progress.
CountedOnce ==
    \A w \in Events : \A e \in heap[w].counted :
        /\ w \in added /\ e \in added
        /\ RunOf[e] = RunOf[w]
        /\ adder.event # e
        /\ \A v \in Events : e \in heap[v].counted => v = w

\* The opener is the first event of its window: a live window without it is empty,
\* and the call in progress has just opened it.
OpenerFirst ==
    \A w \in Live : w \notin heap[w].counted =>
        adder = [event |-> w, window |-> w] /\ heap[w].counted = {}

\* A report is of a forgotten window, of which there is no other; it holds the
\* opener and nothing that the window does not.
ReportsOfForgotten ==
    \A s \in reports :
        /\ s.window \in added /\ s.window \notin Live
        /\ s.run = RunOf[s.window]
        /\ s.window \in s.events
        /\ s.events \subseteq heap[s.window].counted
        /\ \A t \in reports : t.window = s.window => t = s

\* As long as a call in progress may still write to a reported window, nothing of
\* it has been lost.
LossIsPending ==
    \A s \in reports :
        /\ adder.window = s.window => heap[s.window].counted = s.events
        /\ \A e, f \in heap[s.window].counted \ s.events : e = f

\* A window that holds events, or that the call in progress holds, is live or reported.
ForgottenIsReported ==
    \A w \in Events : heap[w].counted # {} \/ adder.window = w =>
        w \in Live \/ \E s \in reports : s.window = w

Ledgers == /\ CountedOnce /\ OpenerFirst /\ ReportsOfForgotten /\ LossIsPending
           /\ ForgottenIsReported

\* The only contestant ever named for a run is its own, and until the first report
\* of an announced run the map has it.
Naming ==
    /\ \A r \in Runs : contestantIDs[r] \in {None, ContestantOf[r]}
    /\ \A w \in Events : heap[w].contestantID \in {None, ContestantOf[RunOf[w]]}
    /\ \A r \in announced : (\A s \in reports : s.run # r) => contestantIDs[r] = ContestantOf[r]
    /\ ContestantAgreement

IInv == Layout /\ Ledgers /\ Naming

---------------------------------------------------------------------------
\* NewManager leaves nothing pointed to.
LEMMA LayoutInit == Init => Layout
<1> SUFFICES ASSUME Init PROVE Layout
  OBVIOUS
<1>1. NewWindow(None) \in [contestantID : Contestants \cup {None},
                           counted : SUBSET Events, age : 0..Due]
  BY ConstantsAssumption DEF NewWindow, Due
<1>2. TypeOK
  BY <1>1, ConstantsAssumption DEF Init, TypeOK
<1>3. WindowOfRun /\ ScanOfWindows /\ CallsOfRun
  BY DEF Init, WindowOfRun, ScanOfWindows, CallsOfRun
<1>4. QED
  BY <1>2, <1>3 DEF Layout

\* No step of the three goroutines, of the clock or of a restart breaks the types
\* or leaves a pointer to a window of another run.
LEMMA LayoutStep == Layout /\ [Next]_managerVars => Layout'
<1> SUFFICES ASSUME Layout, [Next]_managerVars PROVE Layout'
  OBVIOUS
<1> USE ConstantsAssumption DEF Layout, TypeOK, WindowOfRun, ScanOfWindows, CallsOfRun,
        Idle, NotSetting, NewWindow, Due
<1>1. ASSUME NEW e \in Events, AddEventFind(e) PROVE Layout'
  BY <1>1 DEF AddEventFind
<1>2. ASSUME NEW e \in Events, AddEventOpen(e) PROVE Layout'
  <2>1. TypeOK'
    BY <1>2 DEF AddEventOpen
  <2>2. WindowOfRun'
    BY <1>2 DEF AddEventOpen
  <2>3. ScanOfWindows' /\ CallsOfRun'
    BY <1>2 DEF AddEventOpen
  <2> QED BY <2>1, <2>2, <2>3
<1>3. CASE AddEventRecord
  BY <1>3 DEF AddEventRecord
<1>4. ASSUME NEW r \in Runs, SetContestantIDStore(r) PROVE Layout'
  BY <1>4 DEF SetContestantIDStore
<1>5. CASE SetContestantIDUpdate
  BY <1>5 DEF SetContestantIDUpdate
<1>6. CASE CheckCompletedLock
  BY <1>6 DEF CheckCompletedLock
<1>7. ASSUME NEW r \in Runs, CheckCompletedTake(r) PROVE Layout'
  BY <1>7 DEF CheckCompletedTake, Snapshot
<1>8. ASSUME NEW r \in Runs, CheckCompletedSkip(r) PROVE Layout'
  BY <1>8 DEF CheckCompletedSkip
<1>9. CASE CheckCompletedUnlock
  BY <1>9 DEF CheckCompletedUnlock
<1>10. CASE Tick
  BY <1>10 DEF Tick
<1>11. CASE Restart
  <2>1. NewWindow(None) \in [contestantID : Contestants \cup {None},
                             counted : SUBSET Events, age : 0..Due]
    OBVIOUS
  <2>2. TypeOK'
    BY <1>11, <2>1 DEF Restart
  <2>3. WindowOfRun' /\ ScanOfWindows' /\ CallsOfRun'
    BY <1>11 DEF Restart
  <2>4. QED
    BY <2>2, <2>3
<1>12. CASE UNCHANGED managerVars
  BY <1>12 DEF managerVars
<1>13. QED
  BY <1>1, <1>2, <1>3, <1>4, <1>5, <1>6, <1>7, <1>8, <1>9, <1>10, <1>11, <1>12
     DEF Next, AddEvent, SetContestantID, CheckCompleted

\* NewManager has nothing counted and nothing reported.
LEMMA LedgersInit == Init => Ledgers
  BY ConstantsAssumption DEF Init, Ledgers, CountedOnce, OpenerFirst, ReportsOfForgotten,
     LossIsPending, ForgottenIsReported, Idle, Live, NewWindow

\* No step counts or reports an event twice, or loses more than one of a report.
LEMMA LedgersStep == Layout /\ Ledgers /\ [Next]_managerVars => Ledgers'
<1> SUFFICES ASSUME Layout, Ledgers, [Next]_managerVars PROVE Ledgers'
  OBVIOUS
<1> USE ConstantsAssumption DEF Layout, TypeOK, WindowOfRun, ScanOfWindows, CallsOfRun,
        Idle, NotSetting, NewWindow, Ledgers, CountedOnce, OpenerFirst,
        ReportsOfForgotten, LossIsPending, ForgottenIsReported, Live
<1>1. ASSUME NEW e \in Events, AddEventFind(e) PROVE Ledgers'
  <2>1. CountedOnce'
    BY <1>1 DEF AddEventFind
  <2>2. OpenerFirst'
    BY <1>1 DEF AddEventFind
  <2>3. ReportsOfForgotten'
    BY <1>1 DEF AddEventFind
  <2>4. LossIsPending'
    BY <1>1 DEF AddEventFind
  <2>5. ForgottenIsReported'
    BY <1>1 DEF AddEventFind
  <2>6. QED
    BY <2>1, <2>2, <2>3, <2>4, <2>5
<1>2. ASSUME NEW e \in Events, AddEventOpen(e) PROVE Ledgers'
  <2>1. CountedOnce'
    BY <1>2 DEF AddEventOpen
  <2>2. OpenerFirst'
    <3>1. /\ adder' = [event |-> e, window |-> e] /\ heap'[e].counted = {}
          /\ \A w \in Events : w # e => heap'[w] = heap[w]
      BY <1>2 DEF AddEventOpen
    <3>2. ASSUME NEW w \in Live', w # e PROVE w \in Live /\ w \in Events
      BY <1>2, <3>2 DEF AddEventOpen
    <3>3. ASSUME NEW w \in Live, w \notin heap[w].counted PROVE FALSE
      BY <1>2, <3>3 DEF AddEventOpen
    <3>4. ASSUME NEW w \in Live', w \notin heap'[w].counted
          PROVE  adder' = [event |-> w, window |-> w] /\ heap'[w].counted = {}
      <4>1. CASE w = e
        BY <3>1, <4>1
      <4>2. CASE w # e
        <5>1. w \in Live /\ heap'[w] = heap[w]
          BY <3>1, <3>2, <4>2
        <5> QED BY <3>3, <3>4, <5>1
      <4> QED BY <4>1, <4>2
    <3> QED BY <3>4
  <2>3. ReportsOfForgotten'
    BY <1>2 DEF AddEventOpen
  <2>4. LossIsPending'
    BY <1>2 DEF AddEventOpen
  <2>5. ForgottenIsReported'
    BY <1>2 DEF AddEventOpen
  <2>6. QED
    BY <2>1, <2>2, <2>3, <2>4, <2>5
<1>3. CASE AddEventRecord
  <2>1. CountedOnce'
    BY <1>3 DEF AddEventRecord
  <2>2. OpenerFirst'
    BY <1>3 DEF AddEventRecord
  <2>3. ReportsOfForgotten'
    BY <1>3 DEF AddEventRecord
  <2>4. LossIsPending'
    BY <1>3 DEF AddEventRecord
  <2>5. ForgottenIsReported'
    <3>1. ASSUME NEW w \in Events, heap'[w].counted # {} \/ adder'.window = w
          PROVE  heap[w].counted # {} \/ adder.window = w
      BY <1>3, <3>1 DEF AddEventRecord
    <3>2. windows' = windows /\ reports' = reports
      BY <1>3 DEF AddEventRecord
    <3> QED BY <3>1, <3>2
  <2>6. QED
    BY <2>1, <2>2, <2>3, <2>4, <2>5
<1>4. ASSUME NEW r \in Runs, SetContestantIDStore(r) PROVE Ledgers'
  <2>1. CountedOnce'
    BY <1>4 DEF SetContestantIDStore
  <2>2. OpenerFirst'
    BY <1>4 DEF SetContestantIDStore
  <2>3. ReportsOfForgotten'
    BY <1>4 DEF SetContestantIDStore
  <2>4. LossIsPending'
    BY <1>4 DEF SetContestantIDStore
  <2>5. ForgottenIsReported'
    BY <1>4 DEF SetContestantIDStore
  <2>6. QED
    BY <2>1, <2>2, <2>3, <2>4, <2>5
<1>5. CASE SetContestantIDUpdate
  <2>1. CountedOnce'
    BY <1>5 DEF SetContestantIDUpdate
  <2>2. OpenerFirst'
    BY <1>5 DEF SetContestantIDUpdate
  <2>3. ReportsOfForgotten'
    BY <1>5 DEF SetContestantIDUpdate
  <2>4. LossIsPending'
    BY <1>5 DEF SetContestantIDUpdate
  <2>5. ForgottenIsReported'
    BY <1>5 DEF SetContestantIDUpdate
  <2>6. QED
    BY <2>1, <2>2, <2>3, <2>4, <2>5
<1>6. CASE CheckCompletedLock
  <2>1. CountedOnce'
    BY <1>6 DEF CheckCompletedLock
  <2>2. OpenerFirst'
    BY <1>6 DEF CheckCompletedLock
  <2>3. ReportsOfForgotten'
    BY <1>6 DEF CheckCompletedLock
  <2>4. LossIsPending'
    BY <1>6 DEF CheckCompletedLock
  <2>5. ForgottenIsReported'
    BY <1>6 DEF CheckCompletedLock
  <2>6. QED
    BY <2>1, <2>2, <2>3, <2>4, <2>5
<1>7. ASSUME NEW r \in Runs, CheckCompletedTake(r) PROVE Ledgers'
  <2>1. CountedOnce'
    BY <1>7 DEF CheckCompletedTake, Snapshot, IsComplete
  <2>2. OpenerFirst'
    BY <1>7 DEF CheckCompletedTake, Snapshot, IsComplete
  <2>3. ReportsOfForgotten'
    <3> DEFINE w == windows[r]
               snap == Snapshot(r, w)
    <3>1. /\ w \in Events /\ w \in Live /\ RunOf[w] = r /\ w \in added
          /\ w \in heap[w].counted
      BY <1>7 DEF CheckCompletedTake, IsComplete
    <3>2. w \notin Live' /\ Live' \subseteq Live
      BY <1>7, <3>1 DEF CheckCompletedTake
    <3>3. \A s \in reports : s.window # w
      BY <3>1
    <3>4. /\ snap.window = w /\ snap.run = r /\ snap.events = heap[w].counted
          /\ reports' = reports \cup {snap} /\ UNCHANGED <<heap, added>>
      BY <1>7 DEF CheckCompletedTake, Snapshot
    <3> HIDE DEF w, snap
    <3>5. ASSUME NEW s \in reports' PROVE
             /\ s.window \in added /\ s.window \notin Live'
             /\ s.run = RunOf[s.window]
             /\ s.window \in s.events
             /\ s.events \subseteq heap[s.window].counted
      <4>1. CASE s = snap
        BY <4>1, <3>1, <3>2, <3>4
      <4>2. CASE s \in reports
        BY <4>2, <3>2
      <4>3. QED
        BY <3>4, <4>1, <4>2
    <3>6. \A s, t \in reports' : t.window = s.window => t = s
      BY <3>3, <3>4
    <3>7. QED
      BY <3>4, <3>5, <3>6
  <2>4. LossIsPending'
    BY <1>7 DEF CheckCompletedTake, Snapshot, IsComplete
  <2>5. ForgottenIsReported'
    <3> DEFINE snap == Snapshot(r, windows[r])
    <3>1. /\ reports' = reports \cup {snap} /\ snap.window = windows[r]
          /\ UNCHANGED <<heap, adder>>
      BY <1>7 DEF CheckCompletedTake, Snapshot
    <3>2. \A w \in Live : w \in Live' \/ w = windows[r]
      BY <1>7 DEF CheckCompletedTake
    <3> HIDE DEF snap
    <3>3. ASSUME NEW w \in Events, w \in Live \/ \E s \in reports : s.window = w
          PROVE  w \in Live' \/ \E s \in reports' : s.window = w
      BY <3>1, <3>2, <3>3
    <3>4. QED
      BY <3>1, <3>3
  <2>6. QED
    BY <2>1, <2>2, <2>3, <2>4, <2>5
<1>8. ASSUME NEW r \in Runs, CheckCompletedSkip(r) PROVE Ledgers'
  <2>1. CountedOnce'
    BY <1>8 DEF CheckCompletedSkip
  <2>2. OpenerFirst'
    BY <1>8 DEF CheckCompletedSkip
  <2>3. ReportsOfForgotten'
    BY <1>8 DEF CheckCompletedSkip
  <2>4. LossIsPending'
    BY <1>8 DEF CheckCompletedSkip
  <2>5. ForgottenIsReported'
    BY <1>8 DEF CheckCompletedSkip
  <2>6. QED
    BY <2>1, <2>2, <2>3, <2>4, <2>5
<1>9. CASE CheckCompletedUnlock
  <2>1. CountedOnce'
    BY <1>9 DEF CheckCompletedUnlock
  <2>2. OpenerFirst'
    BY <1>9 DEF CheckCompletedUnlock
  <2>3. ReportsOfForgotten'
    BY <1>9 DEF CheckCompletedUnlock
  <2>4. LossIsPending'
    BY <1>9 DEF CheckCompletedUnlock
  <2>5. ForgottenIsReported'
    BY <1>9 DEF CheckCompletedUnlock
  <2>6. QED
    BY <2>1, <2>2, <2>3, <2>4, <2>5
<1>10. CASE Tick
  <2>1. CountedOnce'
    BY <1>10 DEF Tick
  <2>2. OpenerFirst'
    BY <1>10 DEF Tick
  <2>3. ReportsOfForgotten'
    BY <1>10 DEF Tick
  <2>4. LossIsPending'
    BY <1>10 DEF Tick
  <2>5. ForgottenIsReported'
    BY <1>10 DEF Tick
  <2>6. QED
    BY <2>1, <2>2, <2>3, <2>4, <2>5
<1>11. CASE Restart
  <2>1. CountedOnce'
    BY <1>11 DEF Restart
  <2>2. OpenerFirst'
    BY <1>11 DEF Restart
  <2>3. ReportsOfForgotten'
    BY <1>11 DEF Restart
  <2>4. LossIsPending'
    BY <1>11 DEF Restart
  <2>5. ForgottenIsReported'
    BY <1>11 DEF Restart
  <2>6. QED
    BY <2>1, <2>2, <2>3, <2>4, <2>5
<1>12. CASE UNCHANGED managerVars
  BY <1>12 DEF managerVars
<1>13. QED
  BY <1>1, <1>2, <1>3, <1>4, <1>5, <1>6, <1>7, <1>8, <1>9, <1>10, <1>11, <1>12
     DEF Next, AddEvent, SetContestantID, CheckCompleted

\* NewManager knows no contestant.
LEMMA NamingInit == Init => Naming
  BY DEF Init, Naming, ContestantAgreement, NewWindow

\* No step leaves a live window at odds with the contestant known for its run.
LEMMA NamingStep == Layout /\ Naming /\ [Next]_managerVars => Naming'
<1> SUFFICES ASSUME Layout, Naming, [Next]_managerVars PROVE Naming'
  OBVIOUS
<1> USE ConstantsAssumption DEF Layout, TypeOK, WindowOfRun, ScanOfWindows, CallsOfRun,
        Idle, NotSetting, NewWindow, Naming, ContestantAgreement
<1>1. ASSUME NEW e \in Events, AddEventFind(e) PROVE Naming'
  BY <1>1 DEF AddEventFind
<1>2. ASSUME NEW e \in Events, AddEventOpen(e) PROVE Naming'
  BY <1>2 DEF AddEventOpen
<1>3. CASE AddEventRecord
  BY <1>3 DEF AddEventRecord
<1>4. ASSUME NEW r \in Runs, SetContestantIDStore(r) PROVE Naming'
  BY <1>4 DEF SetContestantIDStore
<1>5. CASE SetContestantIDUpdate
  BY <1>5 DEF SetContestantIDUpdate
<1>6. CASE CheckCompletedLock
  BY <1>6 DEF CheckCompletedLock
<1>7. ASSUME NEW r \in Runs, CheckCompletedTake(r) PROVE Naming'
  <2> DEFINE snap == Snapshot(r, windows[r])
  <2>1. /\ reports' = reports \cup {snap} /\ snap.run = r
        /\ windows' = [windows EXCEPT ![r] = None]
        /\ contestantIDs' = [contestantIDs EXCEPT ![r] = None]
        /\ UNCHANGED <<heap, setter, announced>>
    BY <1>7 DEF CheckCompletedTake, Snapshot
  <2> HIDE DEF snap
  <2>2. ContestantAgreement'
    BY <2>1
  <2>3. \A q \in announced' : (\A s \in reports' : s.run # q)
                                 => contestantIDs'[q] = ContestantOf[q]
    BY <2>1
  <2>4. QED
    BY <2>1, <2>2, <2>3
<1>8. ASSUME NEW r \in Runs, CheckCompletedSkip(r) PROVE Naming'
  BY <1>8 DEF CheckCompletedSkip
<1>9. CASE CheckCompletedUnlock
  BY <1>9 DEF CheckCompletedUnlock
<1>10. CASE Tick
  BY <1>10 DEF Tick
<1>11. CASE Restart
  BY <1>11 DEF Restart
<1>12. CASE UNCHANGED managerVars
  BY <1>12 DEF managerVars
<1>13. QED
  BY <1>1, <1>2, <1>3, <1>4, <1>5, <1>6, <1>7, <1>8, <1>9, <1>10, <1>11, <1>12
     DEF Next, AddEvent, SetContestantID, CheckCompleted

---------------------------------------------------------------------------
\* The strengthening that carries every invariant below.
LEMMA Invariance == Spec => []IInv
<1>1. Init => IInv
  BY LayoutInit, LedgersInit, NamingInit DEF IInv
<1>2. IInv /\ [Next]_managerVars => IInv'
  BY LayoutStep, LedgersStep, NamingStep DEF IInv
<1>3. QED
  BY <1>1, <1>2, PTL DEF Spec

\* Every variable keeps its type, in particular no goroutine ever follows a nil
\* window and no scan visits a run without one (window.go:72-161).
THEOREM TypeCorrect == Spec => []TypeOK
<1>1. IInv => TypeOK
  BY DEF IInv, Layout
<1>2. QED
  BY <1>1, Invariance, PTL

\* The orderCount == 0 guard of isComplete is enough to keep the event that opened
\* a window in its report (window.go:72-119, 166).
THEOREM OpenerIsReported == Spec => []OpenerReported
<1>1. IInv => OpenerReported
  BY DEF IInv, Ledgers, ReportsOfForgotten, OpenerReported
<1>2. QED
  BY <1>1, Invariance, PTL

\* run.started and telemetry may arrive in either order: a live window names the
\* contestant its run is known by, but for a SetContestantID call on its way to it
\* (window.go:78, 124-137).
THEOREM ContestantsAgree == Spec => []ContestantAgreement
<1>1. IInv => ContestantAgreement
  BY DEF IInv, Naming
<1>2. QED
  BY <1>1, Invariance, PTL

\* No event is counted twice, and none for another run (window.go:72-119, 141-161).
THEOREM EventsAreReportedOnce == Spec => []EventsReportedOnce
<1>1. IInv => EventsReportedOnce
  <2> SUFFICES ASSUME IInv PROVE EventsReportedOnce
    OBVIOUS
  <2> USE DEF IInv, Layout, TypeOK, Ledgers, CountedOnce, ReportsOfForgotten
  <2>1. \A s, t \in reports : s # t => s.events \cap t.events = {}
    OBVIOUS
  <2>2. \A s \in reports : \A w \in Live : s.events \cap heap[w].counted = {}
    BY DEF Live
  <2>3. \A s \in reports : \A e \in s.events : RunOf[e] = s.run
    OBVIOUS
  <2>4. QED
    BY <2>1, <2>2, <2>3 DEF EventsReportedOnce
<1>2. QED
  BY <1>1, Invariance, PTL

\* Between its two sections AddEvent can lose its event to a report, but a report
\* can lose no more than that one (window.go:88-90).
THEOREM AtMostOneIsLost == Spec => []AtMostOneLost
<1>1. IInv => AtMostOneLost
  BY DEF IInv, Ledgers, LossIsPending, AtMostOneLost
<1>2. QED
  BY <1>1, Invariance, PTL

\* The contestant reaches the first report of its run whenever SetContestantID
\* returned before the scan (window.go:121-136).
THEOREM FirstReportIsNamed == Spec => FirstReportNamesContestant
<1> DEFINE Named == \A s \in reports' \ reports :
                      /\ s.run \in announced
                      /\ setter.run # s.run
                      /\ \A t \in reports : t.run # s.run
                      => s.contestantID = ContestantOf[s.run]
<1>1. IInv /\ [Next]_managerVars => [Named]_managerVars
  <2> SUFFICES ASSUME IInv, Next PROVE Named
    BY DEF managerVars
  <2> USE DEF IInv, Layout, TypeOK, Naming, ContestantAgreement, NotSetting
  <2>1. ASSUME NEW r \in Runs, CheckCompletedTake(r) PROVE Named
    <3> DEFINE snap == Snapshot(r, windows[r])
    <3>1. reports' = reports \cup {snap} /\ windows[r] # None
      BY <2>1 DEF CheckCompletedTake, ScanOfWindows
    <3>2. snap.run = r /\ snap.contestantID = heap[windows[r]].contestantID
      BY DEF Snapshot
    <3> HIDE DEF snap
    <3>3. ASSUME r \in announced, setter.run # r, \A t \in reports : t.run # r
          PROVE  snap.contestantID = ContestantOf[r]
      <4>1. contestantIDs[r] = ContestantOf[r] /\ ContestantOf[r] # None
        BY <3>3, ConstantsAssumption
      <4>2. setter # [run |-> r, window |-> windows[r]]
        BY <3>3
      <4>3. QED
        BY <3>1, <3>2, <4>1, <4>2
    <3>4. QED
      BY <3>1, <3>2, <3>3
  <2>2. CASE AddEvent
    BY <2>2 DEF AddEvent, AddEventFind, AddEventOpen, AddEventRecord
  <2>3. CASE SetContestantID
    BY <2>3 DEF SetContestantID, SetContestantIDStore, SetContestantIDUpdate
  <2>4. CASE CheckCompletedLock \/ CheckCompletedUnlock \/ Tick \/ Restart
              \/ \E r \in Runs : CheckCompletedSkip(r)
    BY <2>4 DEF CheckCompletedLock, CheckCompletedUnlock, Tick, Restart, CheckCompletedSkip
  <2>5. QED
    BY <2>1, <2>2, <2>3, <2>4 DEF Next, CheckCompleted
<1>2. QED
  BY <1>1, Invariance, PTL DEF Spec, FirstReportNamesContestant

---------------------------------------------------------------------------
(* Refinement of RunLedger.  An event of the manager is in exactly one of the *)
(* places ledgerStatus tells apart: the cases of its definition exclude one   *)
(* another in every state of the invariant.                                   *)

InLive(e) == \E w \in Live : e \in heap[w].counted
InReport(e) == \E s \in reports : e \in s.events

\* Where an event is, and the status it has for it.
Placed(e) ==
    /\ e \notin added => ledgerStatus[e] = "new"
    /\ e \in added /\ adder.event = e => ledgerStatus[e] = "added"
    /\ e \in added /\ adder.event # e /\ InLive(e) => ledgerStatus[e] = "counted"
    /\ e \in added /\ adder.event # e /\ ~InLive(e) /\ InReport(e)
         => ledgerStatus[e] = "reported"
    /\ e \in added /\ adder.event # e /\ ~InLive(e) /\ ~InReport(e)
         => ledgerStatus[e] = "dropped"
    /\ InLive(e) => e \in added /\ adder.event # e /\ ~InReport(e)
    /\ InReport(e) => e \in added /\ adder.event # e
    /\ adder.event = e => e \in added
    /\ ledgerStatus[e] = "counted" <=> InLive(e)

\* Under the invariant an event is counted in the ledger as long as it is in a live window.
LEMMA PlacedByInvariant == IInv => \A e \in Events : Placed(e)
<1> SUFFICES ASSUME IInv, NEW e \in Events PROVE Placed(e)
  OBVIOUS
<1> USE DEF IInv, Layout, TypeOK, CallsOfRun, Ledgers, CountedOnce, ReportsOfForgotten,
        InLive, InReport, Live, Idle
<1>1. /\ InLive(e) => e \in added /\ adder.event # e /\ ~InReport(e)
      /\ InReport(e) => e \in added /\ adder.event # e
      /\ adder.event = e => e \in added
  BY ConstantsAssumption
<1>2. ledgerStatus[e] = CASE e \notin added -> "new"
                          [] adder.event = e -> "added"
                          [] InLive(e) -> "counted"
                          [] InReport(e) -> "reported"
                          [] OTHER -> "dropped"
  BY DEF ledgerStatus
<1> HIDE DEF InLive, InReport
<1>3. QED
  BY <1>1, <1>2 DEF Placed

\* The same in the next state.
LEMMA PlacedAfterStep == IInv' => \A e \in Events : Placed(e)'
<1>1. (IInv => \A e \in Events : Placed(e))'
  BY PlacedByInvariant, PTL
<1>2. QED
  BY <1>1

\* The ledger that is read off the manager is a function on the events.
LEMMA StatusIsFunction == ledgerStatus = [e \in Events |-> ledgerStatus[e]]
  BY DEF ledgerStatus

\* The same in the next state.
LEMMA StatusIsFunctionAfterStep == ledgerStatus' = [e \in Events |-> ledgerStatus'[e]]
<1>1. (ledgerStatus = [e \in Events |-> ledgerStatus[e]])'
  BY StatusIsFunction, PTL
<1>2. QED
  BY <1>1

\* The initial state of the manager is one of the ledger.
LEMMA LedgerInit == Init => Ledger!Init
<1> SUFFICES ASSUME Init PROVE Ledger!Init
  OBVIOUS
<1>1. ledgerStatus = [e \in Events |-> "new"]
  <2>1. \A e \in Events : Placed(e) /\ e \notin added
    BY PlacedByInvariant, LayoutInit, LedgersInit, NamingInit DEF IInv, Init
  <2>2. \A e \in Events : ledgerStatus[e] = "new"
    BY <2>1 DEF Placed
  <2>3. QED
    BY <2>2 DEF ledgerStatus
<1>2. ledgerAdding = {} /\ ledgerLate = {}
  BY DEF Init, ledgerAdding, ledgerLate, Idle
<1>3. QED
  BY <1>1, <1>2 DEF Ledger!Init

\* The section under m.mu begins the event.
LEMMA BeginsEvent ==
  ASSUME IInv, IInv', NEW e \in Events, AddEventFind(e) \/ AddEventOpen(e)
  PROVE  Ledger!Begin(e)
<1> USE DEF IInv, Layout, TypeOK, Idle
<1>1. /\ e \notin added /\ added' = added \cup {e}
      /\ adder.event = None /\ adder'.event = e
      /\ reports' = reports
  BY DEF AddEventFind, AddEventOpen
<1>2. adder'.window \in Live'
  BY ConstantsAssumption DEF AddEventFind, AddEventOpen, Live
<1>3. \A f \in Events : InLive(f)' <=> InLive(f)
  <2>1. CASE AddEventFind(e)
    BY <2>1 DEF AddEventFind, InLive, Live
  <2>2. CASE AddEventOpen(e)
    <3>1. Live' = Live \cup {e} /\ e \notin Live
      BY <2>2, ConstantsAssumption DEF AddEventOpen, Live, WindowOfRun
    <3>2. heap'[e].counted = {} /\ \A w \in Events : w # e => heap'[w] = heap[w]
      BY <2>2 DEF AddEventOpen, NewWindow
    <3>3. Live \subseteq Events
      BY DEF Live
    <3>4. QED
      BY <3>1, <3>2, <3>3 DEF InLive
  <2>3. QED
    BY <2>1, <2>2
<1>4. \A f \in Events : InReport(f)' <=> InReport(f)
  BY <1>1 DEF InReport
<1>5. \A f \in Events : ledgerStatus'[f] = IF f = e THEN "added" ELSE ledgerStatus[f]
  <2> SUFFICES ASSUME NEW f \in Events
               PROVE  ledgerStatus'[f] = IF f = e THEN "added" ELSE ledgerStatus[f]
    OBVIOUS
  <2>1. Placed(f) /\ Placed(f)'
    BY PlacedByInvariant, PlacedAfterStep
  <2>2. QED
    BY <1>1, <1>3, <1>4, <2>1, ConstantsAssumption DEF Placed
<1>6. ledgerStatus[e] = "new"
  BY <1>1, PlacedByInvariant DEF Placed
<1>7. ledgerStatus' = [ledgerStatus EXCEPT ![e] = "added"]
  BY <1>5, StatusIsFunction, StatusIsFunctionAfterStep
<1>8. ledgerAdding = {} /\ ledgerAdding' = {e} /\ ledgerLate = {} /\ ledgerLate' = {}
  BY <1>1, <1>2, ConstantsAssumption DEF ledgerAdding, ledgerLate
<1>9. QED
  BY <1>6, <1>7, <1>8 DEF Ledger!Begin

\* The section under w.mu counts the event, unless its window was reported.
LEMMA EndsEvent ==
  ASSUME IInv, IInv', NEW e \in Events, NEW w \in Events,
         adder = [event |-> e, window |-> w], AddEventRecord
  PROVE  Ledger!Count(e) \/ Ledger!Drop(e)
<1> USE DEF IInv, Layout, TypeOK, Idle
<1>1. /\ e \in added
      /\ adder'.event = None /\ adder' = Idle
      /\ added' = added /\ reports' = reports /\ Live' = Live
  BY ConstantsAssumption DEF AddEventRecord, CallsOfRun, Live
<1>2. /\ heap'[w].counted = heap[w].counted \cup {e}
      /\ \A v \in Events : v # w => heap'[v] = heap[v]
  BY <1>1 DEF AddEventRecord
<1>3. Live \subseteq Events
  BY DEF Live
<1>4. \A f \in Events : InReport(f)' <=> InReport(f)
  BY <1>1 DEF InReport
<1>5. \A f \in Events : f # e => (InLive(f)' <=> InLive(f))
  BY <1>1, <1>2, <1>3 DEF InLive
<1>6. ASSUME NEW f \in Events, f # e PROVE ledgerStatus'[f] = ledgerStatus[f]
  <2>1. Placed(f) /\ Placed(f)'
    BY PlacedByInvariant, PlacedAfterStep
  <2>2. QED
    BY <1>1, <1>4, <1>5, <1>6, <2>1, ConstantsAssumption DEF Placed
<1>7. Placed(e) /\ Placed(e)'
  BY <1>1, PlacedByInvariant, PlacedAfterStep
<1>8. ledgerAdding = {e} /\ ledgerAdding' = {} /\ ledgerLate' = {}
  BY <1>1, ConstantsAssumption DEF ledgerAdding, ledgerLate
<1>9. CASE w \in Live
  <2>1. InLive(e)'
    BY <1>1, <1>2, <1>9 DEF InLive
  <2>2. ledgerStatus'[e] = "counted"
    BY <1>1, <1>7, <2>1, ConstantsAssumption DEF Placed
  <2>3. ledgerStatus' = [ledgerStatus EXCEPT ![e] = "counted"]
    BY <1>6, <2>2, StatusIsFunction, StatusIsFunctionAfterStep
  <2>4. ledgerLate = {}
    BY <1>8, <1>9 DEF ledgerLate
  <2>5. QED
    BY <1>1, <1>8, <2>3, <2>4 DEF Ledger!Count
<1>10. CASE w \notin Live
  <2>1. ~InLive(e)'
    <3>1. ~InLive(e)
      BY <1>1, <1>7 DEF Placed
    <3>2. QED
      BY <1>1, <1>2, <1>3, <1>10, <3>1 DEF InLive
  <2>2. ~InReport(e)'
    BY <1>1, <1>4, <1>7 DEF Placed
  <2>3. ledgerStatus'[e] = "dropped"
    BY <1>1, <1>7, <2>1, <2>2, ConstantsAssumption DEF Placed
  <2>4. ledgerStatus' = [ledgerStatus EXCEPT ![e] = "dropped"]
    BY <1>6, <2>3, StatusIsFunction, StatusIsFunctionAfterStep
  <2>5. ledgerLate = {e}
    BY <1>8, <1>10 DEF ledgerLate
  <2>6. QED
    BY <1>1, <1>8, <2>4, <2>5 DEF Ledger!Drop
<1>11. QED
  BY <1>9, <1>10

\* The loop body for a complete window reports all that is counted for its run.
LEMMA ReportsRun ==
  ASSUME IInv, IInv', NEW r \in Runs, CheckCompletedTake(r)
  PROVE  Ledger!Report(r)
<1> DEFINE w == windows[r]
<1> USE DEF IInv, Layout, TypeOK
<1>1. /\ w \in Events /\ w \in Live /\ RunOf[w] = r
      /\ UNCHANGED <<heap, adder, added>>
      /\ heap[w].counted # {}
  BY DEF CheckCompletedTake, IsComplete, ScanOfWindows, WindowOfRun, Live
<1>2. Live' = Live \ {w}
  <2>1. \A q \in Runs : windows'[q] = IF q = r THEN None ELSE windows[q]
    BY DEF CheckCompletedTake
  <2>2. \A q \in Runs : windows[q] = w => q = r
    BY <1>1, ConstantsAssumption DEF WindowOfRun
  <2>3. QED
    BY <1>1, <2>1, <2>2 DEF Live
<1>3. Live \subseteq Events /\ \A v \in Live : RunOf[v] = r => v = w
  <2>1. ASSUME NEW v \in Live PROVE v \in Events /\ (RunOf[v] = r => v = w)
    <3>1. PICK q \in Runs : v = windows[q] /\ v # None
      BY <2>1 DEF Live
    <3>2. QED
      BY <3>1 DEF WindowOfRun
  <2>2. QED
    BY <2>1
<1>4. \A f \in Events : InReport(f)' <=> InReport(f) \/ f \in heap[w].counted
  <2> DEFINE snap == Snapshot(r, w)
  <2>1. reports' = reports \cup {snap} /\ snap.events = heap[w].counted
    BY DEF CheckCompletedTake, Snapshot
  <2> HIDE DEF snap, w
  <2>2. QED
    BY <2>1 DEF InReport
<1>5. \A f \in Events : f \in heap[w].counted <=> InLive(f) /\ RunOf[f] = r
  <2>1. \A v \in Events : \A f \in heap[v].counted : RunOf[f] = RunOf[v]
    BY DEF Ledgers, CountedOnce
  <2> HIDE DEF w, IInv
  <2>2. QED
    BY <1>1, <1>3, <2>1 DEF InLive
<1>6. \A f \in Events : InLive(f)' <=> InLive(f) /\ f \notin heap[w].counted
  BY <1>1, <1>2, <1>3 DEF InLive, Ledgers, CountedOnce
<1> HIDE DEF w
<1>7. ASSUME NEW f \in Events
      PROVE  /\ f \in Ledger!CountedFor(r) <=> f \in heap[w].counted
             /\ ledgerStatus'[f] = IF f \in heap[w].counted THEN "reported"
                                   ELSE ledgerStatus[f]
  <2>1. Placed(f) /\ Placed(f)'
    BY PlacedByInvariant, PlacedAfterStep
  <2>2. f \in Ledger!CountedFor(r) <=> f \in heap[w].counted
    BY <1>5, <2>1 DEF Placed, Ledger!CountedFor
  <2>3. ledgerStatus'[f] = IF f \in heap[w].counted THEN "reported" ELSE ledgerStatus[f]
    BY <1>1, <1>4, <1>5, <1>6, <2>1 DEF Placed
  <2>4. QED
    BY <2>2, <2>3
<1>8. Ledger!CountedFor(r) # {}
  BY <1>1, <1>7
<1>9. ledgerStatus' = [f \in Events |-> IF f \in Ledger!CountedFor(r) THEN "reported"
                                       ELSE ledgerStatus[f]]
  BY <1>7, StatusIsFunctionAfterStep
<1>10. ledgerAdding' = ledgerAdding
  BY <1>1 DEF ledgerAdding
<1>11. ledgerLate' = {e \in ledgerAdding : RunOf[e] = r \/ e \in ledgerLate}
  <2>1. ASSUME NEW e \in ledgerAdding
        PROVE  adder.window \notin Live' <=> RunOf[e] = r \/ adder.window \notin Live
    <3>1. adder # Idle /\ e = adder.event
      BY <2>1 DEF ledgerAdding, Idle
    <3>2. adder.window \in Events /\ RunOf[adder.window] = RunOf[e]
      BY <3>1 DEF CallsOfRun
    <3>3. QED
      BY <1>1, <1>2, <1>3, <3>2
  <2>2. QED
    BY <1>1, <1>10, <2>1 DEF ledgerLate
<1>12. QED
  BY <1>8, <1>9, <1>10, <1>11 DEF Ledger!Report

\* Every other step of the manager moves no event.
LEMMA MovesNoEvent ==
  ASSUME IInv, IInv', UNCHANGED <<windows, adder, added, reports>>,
         \A w \in Events : heap'[w].counted = heap[w].counted
  PROVE  UNCHANGED <<ledgerStatus, ledgerAdding, ledgerLate>>
<1>1. Live' = Live /\ Live \subseteq Events
  BY DEF Live, IInv, Layout, TypeOK
<1>2. \A f \in Events : InLive(f)' <=> InLive(f)
  BY <1>1 DEF InLive
<1>3. \A f \in Events : InReport(f)' <=> InReport(f)
  BY DEF InReport
<1>4. ASSUME NEW f \in Events PROVE ledgerStatus'[f] = ledgerStatus[f]
  <2>1. Placed(f) /\ Placed(f)'
    BY PlacedByInvariant, PlacedAfterStep
  <2>2. QED
    BY <1>2, <1>3, <2>1 DEF Placed
<1>5. ledgerStatus' = ledgerStatus
  BY <1>4, StatusIsFunction, StatusIsFunctionAfterStep
<1>6. QED
  BY <1>1, <1>5 DEF ledgerAdding, ledgerLate

\* A restart forgets every event.
LEMMA RestartForgets ==
  ASSUME IInv', Restart
  PROVE  Ledger!Forget
<1>1. \A f \in Events : Placed(f)' /\ f \notin added'
  BY PlacedAfterStep DEF Restart
<1>2. ledgerStatus' = [e \in Events |-> "new"]
  BY <1>1, StatusIsFunctionAfterStep DEF Placed
<1>3. ledgerAdding' = {} /\ ledgerLate' = {}
  BY DEF Restart, ledgerAdding, ledgerLate, Idle
<1>4. QED
  BY <1>2, <1>3 DEF Ledger!Forget

\* The manager, with its locks and its windows, keeps the promise of RunLedger: what
\* AddEvent and CheckCompleted do in several sections takes effect at one instant
\* (window.go:72-161).
THEOREM ManagerImplementsLedger == Spec => ImplementsLedger
<1>1. IInv /\ IInv' /\ [Next]_managerVars => [Ledger!Next]_Ledger!ledgerVars
  <2> SUFFICES ASSUME IInv, IInv', [Next]_managerVars
               PROVE  Ledger!Next \/ UNCHANGED <<ledgerStatus, ledgerAdding, ledgerLate>>
    BY DEF Ledger!ledgerVars
  <2>1. ASSUME NEW e \in Events, AddEventFind(e) \/ AddEventOpen(e) PROVE Ledger!Next
    BY <2>1, BeginsEvent DEF Ledger!Next
  <2>2. CASE AddEventRecord
    <3>1. PICK e \in Events, w \in Events : adder = [event |-> e, window |-> w]
      BY <2>2 DEF AddEventRecord, IInv, Layout, TypeOK
    <3>2. QED
      BY <2>2, <3>1, EndsEvent DEF Ledger!Next
  <2>3. ASSUME NEW r \in Runs, CheckCompletedTake(r) PROVE Ledger!Next
    BY <2>3, ReportsRun DEF Ledger!Next
  <2>4. CASE Restart
    BY <2>4, RestartForgets DEF Ledger!Next
  <2>5. CASE SetContestantIDUpdate
    BY <2>5, MovesNoEvent DEF SetContestantIDUpdate, IInv, Layout, TypeOK
  <2>6. CASE Tick
    BY <2>6, MovesNoEvent DEF Tick, IInv, Layout, TypeOK
  <2>7. CASE \/ \E r \in Runs : SetContestantIDStore(r) \/ CheckCompletedSkip(r)
             \/ CheckCompletedLock \/ CheckCompletedUnlock \/ UNCHANGED managerVars
    BY <2>7, MovesNoEvent DEF SetContestantIDStore, CheckCompletedSkip, CheckCompletedLock,
       CheckCompletedUnlock, managerVars
  <2>8. QED
    BY <2>1, <2>2, <2>3, <2>4, <2>5, <2>6, <2>7
       DEF Next, AddEvent, SetContestantID, CheckCompleted
<1>2. QED
  BY <1>1, LedgerInit, Invariance, PTL DEF Spec, ImplementsLedger, Ledger!Spec

---------------------------------------------------------------------------
(* The process *)

\* What a snapshot of this process can be doing, before the first restart: every one
\* is waiting, on its way, published or failed; and all telemetry whose offset is
\* committed, or about to be, has been recorded in a window.
FirstLife ==
    restarts = 0 =>
        /\ reports \subseteq outbox \cup {sending} \cup completedTopic \cup unpublished
        /\ completedTopic \subseteq reports

\* What lies between the manager and the topic.
Delivery ==
    /\ outbox \subseteq reports
    /\ sending # None => sending \in reports
    /\ FirstLife

\* Every step of the process is one of the manager or leaves the manager alone.
THEOREM DrivesManager == IngesterSafety => Spec
<1>1. IngesterInit => Init
  BY DEF IngesterInit
<1>2. [IngesterNext]_ingesterVars => [Next]_managerVars
  <2> SUFFICES ASSUME [IngesterNext]_ingesterVars PROVE Next \/ UNCHANGED managerVars
    OBVIOUS
  <2> USE DEF Next, AddEvent, SetContestantID, CheckCompleted
  <2>1. ASSUME NEW e \in Events, FetchTelemetry(e) PROVE Next
    BY <2>1 DEF FetchTelemetry
  <2>2. ASSUME NEW r \in Runs, FetchStarted(r) PROVE Next
    BY <2>2 DEF FetchStarted
  <2>3. ASSUME NEW r \in Runs, FlushTake(r) PROVE Next
    BY <2>3 DEF FlushTake
  <2>4. CASE RecordTelemetry \/ SetContestant \/ FlushBegin \/ FlushScan \/ Clock \/ Crash
    BY <2>4 DEF RecordTelemetry, SetContestant, FlushBegin, FlushScan, Clock, Crash
  <2>5. CASE \/ CommitTelemetry
             \/ \E ok \in BOOLEAN : Rebalance(ok) \/ CommitStarted(ok) \/ Publish(ok)
             \/ \E s \in outbox, ok \in BOOLEAN : Insert(s, ok)
             \/ UNCHANGED ingesterVars
    BY <2>5 DEF CommitTelemetry, Rebalance, CommitStarted, Insert, Publish, ingesterVars
  <2>6. QED
    BY <2>1, <2>2, <2>3, <2>4, <2>5 DEF IngesterNext
<1>3. QED
  BY <1>1, <1>2, PTL DEF IngesterSafety, Spec

\* The variables of Kafka and of the flush keep their types too (kafka.go:54-164).
THEOREM IngesterTypeCorrect == IngesterSafety => []IngesterTypeOK
<1> USE ConstantsAssumption, IngesterAssumption
<1>1. IngesterInit /\ TypeOK => IngesterTypeOK
  BY DEF IngesterInit, IngesterTypeOK
<1>2. IngesterTypeOK /\ IInv /\ TypeOK' /\ [IngesterNext]_ingesterVars => IngesterTypeOK'
  <2> SUFFICES ASSUME IngesterTypeOK, IInv, TypeOK', [IngesterNext]_ingesterVars
               PROVE  IngesterTypeOK'
    OBVIOUS
  <2> USE DEF IngesterTypeOK, telemetryVars, startedVars, kafkaVars, flushVars
  <2>1. ASSUME NEW e \in Events, FetchTelemetry(e) PROVE IngesterTypeOK'
    BY <2>1 DEF FetchTelemetry
  <2>2. CASE RecordTelemetry
    BY <2>2 DEF RecordTelemetry, AddEventRecord, TypeOK
  <2>3. CASE CommitTelemetry
    BY <2>3 DEF CommitTelemetry
  <2>4. ASSUME NEW r \in Runs, FetchStarted(r) PROVE IngesterTypeOK'
    BY <2>4 DEF FetchStarted
  <2>5. CASE SetContestant
    BY <2>5 DEF SetContestant, SetContestantIDUpdate, TypeOK
  <2>6. ASSUME NEW ok \in BOOLEAN, CommitStarted(ok) PROVE IngesterTypeOK'
    BY <2>6 DEF CommitStarted
  <2>7. CASE FlushBegin \/ FlushScan \/ Clock
    BY <2>7 DEF FlushBegin, FlushScan, Clock
  <2>8. ASSUME NEW r \in Runs, FlushTake(r) PROVE IngesterTypeOK'
    <3>1. windows[r] \in Events
      BY <2>8 DEF FlushTake, CheckCompletedTake, IInv, Layout, TypeOK, ScanOfWindows
    <3>2. Snapshot(r, windows[r]) \in Snapshots
      BY <3>1 DEF Snapshot, Snapshots, TypeOK
    <3>3. QED
      BY <2>8, <3>2 DEF FlushTake
  <2>9. ASSUME NEW s \in outbox, NEW ok \in BOOLEAN, Insert(s, ok) PROVE IngesterTypeOK'
    BY <2>9 DEF Insert
  <2>10. ASSUME NEW ok \in BOOLEAN, Publish(ok) PROVE IngesterTypeOK'
    BY <2>10 DEF Publish
  <2>11. CASE Crash
    BY <2>11 DEF Crash
  <2>12. ASSUME NEW ok \in BOOLEAN, Rebalance(ok) PROVE IngesterTypeOK'
    BY <2>12 DEF Rebalance
  <2>13. CASE UNCHANGED ingesterVars
    BY <2>13 DEF ingesterVars
  <2>14. QED
    BY <2>1, <2>2, <2>3, <2>4, <2>5, <2>6, <2>7, <2>8, <2>9, <2>10, <2>11, <2>12, <2>13
       DEF IngesterNext
<1>3. QED
  BY <1>1, <1>2, DrivesManager, Invariance, TypeCorrect, PTL DEF IngesterSafety

---------------------------------------------------------------------------
\* No snapshot is lost between CheckCompleted and the return of Publish.
LEMMA DeliveryInvariant == IngesterSafety => []Delivery
<1>1. IngesterInit => Delivery
  BY DEF IngesterInit, Init, Delivery, FirstLife
<1>2. Delivery /\ IInv /\ IngesterTypeOK /\ [IngesterNext]_ingesterVars => Delivery'
  <2> SUFFICES ASSUME Delivery, IngesterTypeOK, [IngesterNext]_ingesterVars
               PROVE  Delivery'
    OBVIOUS
  <2> USE ConstantsAssumption DEF Delivery, FirstLife, telemetryVars, startedVars, kafkaVars,
          flushVars
  <2>1. ASSUME NEW e \in Events, FetchTelemetry(e) PROVE Delivery'
    BY <2>1 DEF FetchTelemetry, AddEventFind, AddEventOpen
  <2>2. CASE RecordTelemetry \/ CommitTelemetry \/ \E ok \in BOOLEAN : Rebalance(ok)
    BY <2>2 DEF RecordTelemetry, AddEventRecord, CommitTelemetry, Rebalance, managerVars
  <2>3. ASSUME NEW r \in Runs, FetchStarted(r) PROVE Delivery'
    BY <2>3 DEF FetchStarted, SetContestantIDStore
  <2>4. CASE SetContestant \/ \E ok \in BOOLEAN : CommitStarted(ok)
    <3>1. UNCHANGED <<reports, outbox, sending, completedTopic, unpublished, restarts>>
      BY <2>4 DEF SetContestant, SetContestantIDUpdate, CommitStarted, managerVars
    <3>2. QED
      BY <3>1
  <2>5. CASE FlushBegin \/ FlushScan \/ Clock
    BY <2>5 DEF FlushBegin, CheckCompletedLock, FlushScan, CheckCompletedSkip,
       CheckCompletedUnlock, Clock, Tick
  <2>6. ASSUME NEW r \in Runs, FlushTake(r) PROVE Delivery'
    <3> DEFINE snap == Snapshot(r, windows[r])
    <3>1. /\ reports' = reports \cup {snap} /\ outbox' = outbox \cup {snap}
          /\ UNCHANGED <<sending, completedTopic, unpublished, restarts>>
      BY <2>6 DEF FlushTake, CheckCompletedTake
    <3> HIDE DEF snap
    <3>2. QED
      BY <3>1
  <2>7. ASSUME NEW s \in outbox, NEW ok \in BOOLEAN, Insert(s, ok) PROVE Delivery'
    <3>1. /\ s \in outbox /\ sending = None /\ sending' = s /\ outbox' = outbox \ {s}
          /\ UNCHANGED <<reports, completedTopic, unpublished, restarts>>
      BY <2>7 DEF Insert, managerVars
    <3>2. s # None
      BY <3>1, IngesterAssumption DEF IngesterTypeOK
    <3>3. None \notin reports
      BY IngesterAssumption DEF IngesterTypeOK, TypeOK, Snapshots
    <3>4. QED
      BY <3>1, <3>2, <3>3
  <2>8. ASSUME NEW ok \in BOOLEAN, Publish(ok) PROVE Delivery'
    BY <2>8 DEF Publish, managerVars
  <2>9. CASE Crash
    BY <2>9 DEF Crash, Restart, IngesterTypeOK
  <2>10. CASE UNCHANGED ingesterVars
    BY <2>10 DEF ingesterVars, managerVars
  <2>11. QED
    BY <2>1, <2>2, <2>3, <2>4, <2>5, <2>6, <2>7, <2>8, <2>9, <2>10 DEF IngesterNext
<1>3. QED
  BY <1>1, <1>2, DrivesManager, Invariance, IngesterTypeCorrect, PTL DEF IngesterSafety

\* Until a restart no event is counted by two messages of run.completed
\* (window.go:153, kafka.go:96-121).
THEOREM EventsArePublishedOnce == IngesterSafety => []PublishedOnce
<1>1. Delivery /\ EventsReportedOnce => PublishedOnce
  BY DEF Delivery, FirstLife, EventsReportedOnce, PublishedOnce
<1>2. QED
  BY <1>1, DeliveryInvariant, DrivesManager, EventsAreReportedOnce, PTL

\* Until a restart the committed telemetry of a window that is no longer live is in its
\* report, all but one event, and the report is not lost either before Publish returns
\* (kafka.go:89-90, 96-121).
THEOREM CommittedIsInReport == IngesterSafety => []CommittedIsReported
<1>1. Delivery /\ IInv /\ IngesterTypeOK => CommittedIsReported
  <2> DEFINE Sent == outbox \cup {sending} \cup completedTopic \cup unpublished
             Missing(x, w) == /\ x \in heap[w].counted /\ w \notin Live
                              /\ \A s \in Sent : s # None => x \notin s.events
  <2> SUFFICES ASSUME Delivery, IInv, IngesterTypeOK, restarts = 0,
                      NEW e \in Events, NEW f \in Events, NEW w \in Events,
                      Missing(e, w), Missing(f, w)
               PROVE  e = f
    BY DEF CommittedIsReported
  <2>1. PICK s \in reports : s.window = w
    BY DEF IInv, Ledgers, ForgottenIsReported
  <2>2. s \in Sent /\ s # None
    <3>1. s \in Snapshots
      BY <2>1 DEF IngesterTypeOK, TypeOK, Snapshots
    <3>2. QED
      BY <3>1, IngesterAssumption DEF Delivery, FirstLife
  <2>3. e \in heap[s.window].counted \ s.events /\ f \in heap[s.window].counted \ s.events
    BY <2>1, <2>2
  <2>4. QED
    BY <2>3 DEF IInv, Ledgers, LossIsPending
<1>2. QED
  BY <1>1, DeliveryInvariant, DrivesManager, Invariance, IngesterTypeCorrect, PTL

---------------------------------------------------------------------------
(* What is published again *)

\* The messages of run.completed that count telemetry message m; those of them that an
\* earlier process published; and the deliveries of m to this process.
Counting(m) == {s \in completedTopic : \E e \in s.events : MessageOf[e] = m}
Earlier(m) == Counting(m) \ reports
Deliveries(m) == {e \in added : MessageOf[e] = m}

\* Every delivery after the first, to any process, is for a restart or a rebalance.
Allowed(m) == restarts + rebalances + (IF m \in unread THEN 0 ELSE 1)

Recounts ==
    \A m \in Messages :
        /\ IsFiniteSet(Earlier(m)) /\ IsFiniteSet(Deliveries(m))
        /\ Cardinality(Earlier(m)) + Cardinality(Deliveries(m)) <= Allowed(m)

\* This process has counted m in one message of run.completed for each delivery at most.
LEMMA OneForEachDelivery ==
    ASSUME NEW m \in Messages, EventsReportedOnce, TypeOK, Ledgers, IsFiniteSet(Deliveries(m))
    PROVE  /\ IsFiniteSet(Counting(m) \cap reports)
           /\ Cardinality(Counting(m) \cap reports) <= Cardinality(Deliveries(m))
<1> DEFINE S == Counting(m) \cap reports
           D == Deliveries(m)
           f == [s \in S |-> CHOOSE e \in s.events : MessageOf[e] = m]
<1>1. ASSUME NEW s \in S PROVE f[s] \in s.events /\ f[s] \in D
  <2>1. \E e \in s.events : MessageOf[e] = m
    BY DEF Counting
  <2>2. f[s] \in s.events /\ MessageOf[f[s]] = m
    BY <2>1
  <2>3. s.events \subseteq added
    BY DEF Ledgers, ReportsOfForgotten, CountedOnce, TypeOK
  <2>4. QED
    BY <2>2, <2>3 DEF Deliveries
<1>2. \A s, t \in S : f[s] = f[t] => s = t
  BY <1>1 DEF EventsReportedOnce
<1>3. f \in Injection(S, D)
  <2>1. f \in [S -> D]
    BY <1>1
  <2>2. QED
    BY <1>2, <2>1 DEF Injection, IsInjective
<1>4. QED
  BY <1>3, FS_Injection

\* All that count m were counted by this process or an earlier one.
LEMMA CountingBounded ==
    ASSUME NEW m \in Messages, EventsReportedOnce, TypeOK, Ledgers, Recounts
    PROVE  /\ IsFiniteSet(Counting(m)) /\ Cardinality(Counting(m)) \in Nat
           /\ Cardinality(Counting(m)) <= Cardinality(Earlier(m)) + Cardinality(Deliveries(m))
<1> DEFINE S == Counting(m) \cap reports
<1>1. /\ IsFiniteSet(S) /\ Cardinality(S) <= Cardinality(Deliveries(m))
      /\ IsFiniteSet(Earlier(m)) /\ IsFiniteSet(Deliveries(m))
  BY OneForEachDelivery DEF Recounts
<1>2. Counting(m) = Earlier(m) \cup S
  BY DEF Earlier
<1>3. Earlier(m) \cap S = {}
  BY DEF Earlier
<1>4. /\ IsFiniteSet(Counting(m))
      /\ Cardinality(Counting(m))
           = Cardinality(Earlier(m)) + Cardinality(S) - Cardinality(Earlier(m) \cap S)
  BY <1>1, <1>2, FS_Union
<1>5. Cardinality(Earlier(m) \cap S) = 0
  BY <1>3, FS_EmptySet
<1>6. /\ Cardinality(Earlier(m)) \in Nat /\ Cardinality(S) \in Nat
      /\ Cardinality(Deliveries(m)) \in Nat /\ Cardinality(Counting(m)) \in Nat
  BY <1>1, <1>4, FS_CardinalityType
<1>7. QED
  BY <1>1, <1>4, <1>5, <1>6

\* Only a restart or a rebalance has a message delivered once more (kafka.go:41, 89-90).
LEMMA RecountsInvariant == IngesterSafety => []Recounts
<1>1. IngesterInit => Recounts
  <2> SUFFICES ASSUME IngesterInit, NEW m \in Messages
               PROVE  /\ IsFiniteSet(Earlier(m)) /\ IsFiniteSet(Deliveries(m))
                      /\ Cardinality(Earlier(m)) + Cardinality(Deliveries(m)) <= Allowed(m)
    BY DEF Recounts
  <2>1. Earlier(m) = {} /\ Deliveries(m) = {} /\ Allowed(m) = 0
    BY DEF IngesterInit, Init, Earlier, Counting, Deliveries, Allowed
  <2>2. IsFiniteSet({}) /\ Cardinality({}) = 0
    BY FS_EmptySet
  <2>3. QED
    BY <2>1, <2>2
<1>2. /\ Recounts /\ Delivery /\ EventsReportedOnce /\ IInv
      /\ IngesterTypeOK /\ [IngesterNext]_ingesterVars
      => Recounts'
  <2> SUFFICES ASSUME Recounts, Delivery, EventsReportedOnce, IInv, IngesterTypeOK,
                      [IngesterNext]_ingesterVars, NEW m \in Messages
               PROVE  /\ IsFiniteSet(Earlier(m)') /\ IsFiniteSet(Deliveries(m)')
                      /\ Cardinality(Earlier(m)') + Cardinality(Deliveries(m)') <= Allowed(m)'
    BY DEF Recounts
  <2> DEFINE Goal == /\ IsFiniteSet(Earlier(m)') /\ IsFiniteSet(Deliveries(m)')
                     /\ Cardinality(Earlier(m)') + Cardinality(Deliveries(m)') <= Allowed(m)'
  <2> USE DEF telemetryVars, startedVars, kafkaVars, flushVars
  <2>0. /\ IsFiniteSet(Earlier(m)) /\ IsFiniteSet(Deliveries(m))
        /\ Cardinality(Earlier(m)) \in Nat /\ Cardinality(Deliveries(m)) \in Nat
        /\ Cardinality(Earlier(m)) + Cardinality(Deliveries(m)) <= Allowed(m)
        /\ restarts \in Nat /\ rebalances \in Nat
    BY FS_CardinalityType, IngesterAssumption DEF Recounts, IngesterTypeOK
  <2>1. ASSUME Earlier(m)' \subseteq Earlier(m), Deliveries(m)' = Deliveries(m),
               Allowed(m)' \in Int, Allowed(m) <= Allowed(m)'
        PROVE  Goal
    <3>1. /\ IsFiniteSet(Earlier(m)') /\ Cardinality(Earlier(m)') <= Cardinality(Earlier(m))
          /\ Cardinality(Earlier(m)') \in Nat
      BY <2>0, <2>1, FS_Subset, FS_CardinalityType
    <3>2. Allowed(m) \in Int
      BY <2>0 DEF Allowed
    <3>3. QED
      BY <2>0, <2>1, <3>1, <3>2
  <2>2. ASSUME reports \subseteq reports',
               UNCHANGED <<completedTopic, added, restarts, rebalances, unread>>
        PROVE  Goal
    <3>1. Earlier(m)' \subseteq Earlier(m) /\ Deliveries(m)' = Deliveries(m)
      BY <2>2 DEF Earlier, Counting, Deliveries
    <3>2. Allowed(m)' = Allowed(m) /\ Allowed(m) \in Int
      BY <2>0, <2>2 DEF Allowed
    <3>3. QED
      BY <2>1, <3>1, <3>2
  <2>3. ASSUME NEW e \in Events, FetchTelemetry(e) PROVE Goal
    <3>1. /\ UNCHANGED <<reports, completedTopic, restarts, rebalances>>
          /\ added' = added \cup {e}
          /\ MessageOf[e] \in unread /\ unread' = unread \ {MessageOf[e]}
      BY <2>3 DEF FetchTelemetry, AddEventFind, AddEventOpen
    <3>2. Earlier(m)' = Earlier(m)
      BY <3>1 DEF Earlier, Counting
    <3>3. CASE MessageOf[e] = m
      <4>1. Deliveries(m)' = Deliveries(m) \cup {e}
        BY <3>1, <3>3 DEF Deliveries
      <4>2. /\ IsFiniteSet(Deliveries(m) \cup {e})
            /\ \/ Cardinality(Deliveries(m) \cup {e}) = Cardinality(Deliveries(m))
               \/ Cardinality(Deliveries(m) \cup {e}) = Cardinality(Deliveries(m)) + 1
        BY <2>0, FS_AddElement
      <4>3. Allowed(m)' = Allowed(m) + 1 /\ Allowed(m) \in Int
        BY <2>0, <3>1, <3>3 DEF Allowed
      <4>4. QED
        BY <2>0, <3>2, <4>1, <4>2, <4>3
    <3>4. CASE MessageOf[e] # m
      <4>1. Deliveries(m)' = Deliveries(m)
        BY <3>1, <3>4 DEF Deliveries
      <4>2. Allowed(m)' = Allowed(m) /\ Allowed(m) \in Int
        BY <2>0, <3>1, <3>4 DEF Allowed
      <4>3. QED
        BY <2>1, <3>2, <4>1, <4>2
    <3>5. QED
      BY <3>3, <3>4
  <2>4. CASE RecordTelemetry \/ CommitTelemetry
    BY <2>2, <2>4 DEF RecordTelemetry, AddEventRecord, CommitTelemetry, managerVars
  <2>5. ASSUME NEW ok \in BOOLEAN, Rebalance(ok) PROVE Goal
    <3>1. /\ UNCHANGED <<reports, completedTopic, added, restarts>>
          /\ rebalances' = rebalances + 1
      BY <2>5 DEF Rebalance, managerVars
    <3>2. Earlier(m)' = Earlier(m) /\ Deliveries(m)' = Deliveries(m)
      BY <3>1 DEF Earlier, Counting, Deliveries
    <3>3. Allowed(m)' \in Int /\ Allowed(m) <= Allowed(m)'
      BY <2>0, <3>1 DEF Allowed
    <3>4. QED
      BY <2>1, <3>2, <3>3
  <2>6. CASE \E r \in Runs : FetchStarted(r)
    BY <2>2, <2>6 DEF FetchStarted, SetContestantIDStore
  <2>7. CASE SetContestant \/ \E ok \in BOOLEAN : CommitStarted(ok)
    BY <2>2, <2>7 DEF SetContestant, SetContestantIDUpdate, CommitStarted, managerVars
  <2>8. CASE FlushBegin \/ FlushScan \/ Clock
    BY <2>2, <2>8 DEF FlushBegin, CheckCompletedLock, FlushScan, CheckCompletedSkip,
       CheckCompletedUnlock, Clock, Tick
  <2>9. CASE \E r \in Runs : FlushTake(r)
    BY <2>2, <2>9 DEF FlushTake, CheckCompletedTake
  <2>10. CASE \E s \in outbox, ok \in BOOLEAN : Insert(s, ok)
    BY <2>2, <2>10 DEF Insert, managerVars
  <2>11. ASSUME NEW ok \in BOOLEAN, Publish(ok) PROVE Goal
    <3>1. /\ sending \in reports /\ UNCHANGED <<reports, added, restarts, rebalances, unread>>
          /\ completedTopic' \subseteq completedTopic \cup {sending}
      BY <2>11 DEF Publish, Delivery, managerVars
    <3>2. Earlier(m)' \subseteq Earlier(m) /\ Deliveries(m)' = Deliveries(m)
      BY <3>1 DEF Earlier, Counting, Deliveries
    <3>3. Allowed(m)' = Allowed(m) /\ Allowed(m) \in Int
      BY <2>0, <3>1 DEF Allowed
    <3>4. QED
      BY <2>1, <3>2, <3>3
  <2>12. CASE Crash
    <3>1. /\ reports' = {} /\ added' = {} /\ completedTopic' = completedTopic
          /\ restarts' = restarts + 1 /\ rebalances' = rebalances
      BY <2>12 DEF Crash, Restart
    <3>2. Earlier(m)' = Counting(m) /\ Deliveries(m)' = {}
      BY <3>1 DEF Earlier, Counting, Deliveries
    <3>3. IsFiniteSet({}) /\ Cardinality({}) = 0
      BY FS_EmptySet
    <3>4. /\ IsFiniteSet(Counting(m)) /\ Cardinality(Counting(m)) \in Nat
          /\ Cardinality(Counting(m)) <= Cardinality(Earlier(m)) + Cardinality(Deliveries(m))
      BY CountingBounded DEF IInv, Layout
    <3>5. Allowed(m)' \in Int /\ Allowed(m) \in Int /\ Allowed(m) <= Allowed(m)'
      BY <2>0, <3>1 DEF Allowed
    <3>6. QED
      BY <2>0, <3>2, <3>3, <3>4, <3>5
  <2>13. CASE UNCHANGED ingesterVars
    BY <2>2, <2>13 DEF ingesterVars, managerVars
  <2>14. QED
    BY <2>3, <2>4, <2>5, <2>6, <2>7, <2>8, <2>9, <2>10, <2>11, <2>12, <2>13 DEF IngesterNext
<1>3. QED
  BY <1>1, <1>2, DeliveryInvariant, DrivesManager, Invariance, EventsAreReportedOnce,
     IngesterTypeCorrect, PTL DEF IngesterSafety

\* However often the process is restarted and its group rebalanced, a telemetry message is
\* counted once for each time that it is delivered at most, and it is delivered again for
\* nothing else (kafka.go:41, 89-90, 96-121).
THEOREM RecountedByDeliveries == IngesterSafety => []RecountedByRedelivery
<1>1. Recounts /\ EventsReportedOnce /\ IInv /\ IngesterTypeOK => RecountedByRedelivery
  <2> SUFFICES ASSUME Recounts, EventsReportedOnce, IInv, IngesterTypeOK, NEW m \in Messages
               PROVE  Cardinality(Counting(m)) <= 1 + restarts + rebalances
    BY DEF RecountedByRedelivery, Counting
  <2>1. /\ Cardinality(Counting(m)) \in Nat
        /\ Cardinality(Counting(m)) <= Cardinality(Earlier(m)) + Cardinality(Deliveries(m))
    BY CountingBounded DEF IInv, Layout
  <2>2. /\ Cardinality(Earlier(m)) \in Nat /\ Cardinality(Deliveries(m)) \in Nat
        /\ Cardinality(Earlier(m)) + Cardinality(Deliveries(m)) <= Allowed(m)
    BY FS_CardinalityType DEF Recounts
  <2>3. Allowed(m) \in Int /\ Allowed(m) <= 1 + restarts + rebalances
    BY IngesterAssumption DEF Allowed, IngesterTypeOK
  <2>4. restarts \in Nat /\ rebalances \in Nat
    BY IngesterAssumption DEF IngesterTypeOK
  <2>5. QED
    BY <2>1, <2>2, <2>3, <2>4
<1>2. QED
  BY <1>1, RecountsInvariant, DrivesManager, Invariance, EventsAreReportedOnce,
     IngesterTypeCorrect, PTL

\* With its readers, its ticker and its crashes the process keeps the ledger of events
\* that the manager implements (kafka.go:54-164).
THEOREM ProcessImplementsLedger == IngesterSafety => ImplementsLedger
  BY DrivesManager, ManagerImplementsLedger, PTL

=============================================================================
