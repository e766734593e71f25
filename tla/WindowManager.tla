--------------------------- MODULE WindowManager ---------------------------
(***************************************************************************)
(* The run-window manager of the ingester                                  *)
(* (apps/ingester/internal/window/window.go), called by three goroutines:  *)
(*   - the telemetry consumer   AddEvent                                   *)
(*   - the run.started consumer SetContestantID                            *)
(*   - the one-second ticker    CheckCompleted                             *)
(*                                                                         *)
(* AddEvent and SetContestantID have two critical sections: the first,     *)
(* under m.mu, looks a window up; the second, under w.mu, writes to the    *)
(* window found.  Each is a step of its own here, so that every            *)
(* interleaving of the three goroutines is a behaviour.  CheckCompleted    *)
(* holds m.mu for the whole scan and takes each w.mu in turn: its steps    *)
(* interleave only with the second sections of the other two.              *)
(*                                                                         *)
(* A window is a pointer in the code, which a goroutine may still hold     *)
(* when the map has forgotten it.  It is named here by the event that      *)
(* opened it: an event is one delivery of a telemetry message, which a     *)
(* process hands to AddEvent at most once.  The histogram, the counters    *)
(* and the fill list of a window are all functions of the events it has    *)
(* recorded, which is what "counted" keeps.                                *)
(***************************************************************************)
EXTENDS Integers

CONSTANTS
    Runs,           \* run ids
    Events,         \* telemetry events, as they are delivered
    Contestants,    \* contestant ids
    RunOf,          \* the run an event belongs to
    ContestantOf,   \* the contestant that run.started names for a run
    DurationSecs,   \* defaultDurationSec
    GraceSecs,      \* the 2 extra seconds of isComplete
    None            \* a nil pointer, a missing entry, the empty contestant id

ASSUME ConstantsAssumption ==
    /\ RunOf \in [Events -> Runs]
    /\ ContestantOf \in [Runs -> Contestants]
    /\ DurationSecs \in Nat
    /\ GraceSecs \in Nat
    /\ None \notin Runs \cup Events \cup Contestants

VARIABLES
    windows,        \* Manager.windows
    contestantIDs,  \* Manager.contestantIDs
    heap,           \* every runWindow allocated, those forgotten included
    adder,          \* the AddEvent call between its two sections
    setter,         \* the SetContestantID call between its two sections
    scanning,       \* CheckCompleted holds m.mu
    toVisit,        \* the runs its range loop has still to visit
    added,          \* the events handed to AddEvent by this process
    announced,      \* the runs handed to SetContestantID by this process
    reports         \* the snapshots CheckCompleted has taken in this process

\* The state behind m.mu and w.mu, and the calls in progress.
managerVars == <<windows, contestantIDs, heap, adder, setter, scanning, toVisit,
                 added, announced, reports>>

---------------------------------------------------------------------------
\* The age at which a window is complete, in the seconds of the ticker.
Due == DurationSecs + GraceSecs

\* Mutant: AddEvent does not look the contestant up.
NewWindow_Nameless(contestant) == [contestantID |-> None, counted |-> {}, age |-> 0]

\* A window as AddEvent allocates it.
NewWindow(contestant) == [contestantID |-> contestant, counted |-> {}, age |-> 0]

Idle == [event |-> None, window |-> None]
NotSetting == [run |-> None, window |-> None]

Live == {windows[r] : r \in Runs} \ {None}

\* Mutant: isComplete without its orderCount == 0 guard.
IsComplete_Empty(w) == heap[w].age >= Due

\* An empty window is never complete; any other is once its time has passed,
\* counted from its creation.
IsComplete(w) == heap[w].counted # {} /\ heap[w].age >= Due

\* What CheckCompleted reports of window w, found under run r.
Snapshot(r, w) == [window |-> w, run |-> r, contestantID |-> heap[w].contestantID,
                   events |-> heap[w].counted]

---------------------------------------------------------------------------
\* NewManager: a process starts, or starts again, with nothing.
Init ==
    /\ windows = [r \in Runs |-> None]
    /\ contestantIDs = [r \in Runs |-> None]
    /\ heap = [e \in Events |-> NewWindow(None)]
    /\ adder = Idle
    /\ setter = NotSetting
    /\ scanning = FALSE
    /\ toVisit = {}
    /\ added = {}
    /\ announced = {}
    /\ reports = {}

\* AddEvent, the section under m.mu, for a run that has a window.
AddEventFind(e) ==
    /\ adder = Idle /\ ~scanning /\ e \notin added
    /\ windows[RunOf[e]] # None
    /\ adder' = [event |-> e, window |-> windows[RunOf[e]]]
    /\ added' = added \cup {e}
    /\ UNCHANGED <<windows, contestantIDs, heap, setter, scanning, toVisit, announced, reports>>

\* Mutant: the run's window is not looked up under the lock that stores the new one.
AddEventOpen_Unchecked(e) ==
    /\ adder = Idle /\ ~scanning /\ e \notin added
    /\ windows' = [windows EXCEPT ![RunOf[e]] = e]
    /\ heap' = [heap EXCEPT ![e] = NewWindow(contestantIDs[RunOf[e]])]
    /\ adder' = [event |-> e, window |-> e]
    /\ added' = added \cup {e}
    /\ UNCHANGED <<contestantIDs, setter, scanning, toVisit, announced, reports>>

\* The same for a run that has none: e opens it, with the contestant known so far.
AddEventOpen(e) ==
    /\ adder = Idle /\ ~scanning /\ e \notin added
    /\ windows[RunOf[e]] = None
    /\ windows' = [windows EXCEPT ![RunOf[e]] = e]
    /\ heap' = [heap EXCEPT ![e] = NewWindow(contestantIDs[RunOf[e]])]
    /\ adder' = [event |-> e, window |-> e]
    /\ added' = added \cup {e}
    /\ UNCHANGED <<contestantIDs, setter, scanning, toVisit, announced, reports>>

\* AddEvent, the section under w.mu.
AddEventRecord ==
    /\ adder # Idle
    /\ heap' = [heap EXCEPT ![adder.window].counted = @ \cup {adder.event}]
    /\ adder' = Idle
    /\ UNCHANGED <<windows, contestantIDs, setter, scanning, toVisit, added, announced, reports>>

\* Mutant: the run id is stored for the contestant, the two strings being swapped.
SetContestantIDStore_Swapped(r) ==
    /\ setter = NotSetting /\ ~scanning
    /\ contestantIDs' = [contestantIDs EXCEPT ![r] = r]
    /\ setter' = [run |-> r, window |-> windows[r]]
    /\ announced' = announced \cup {r}
    /\ UNCHANGED <<windows, heap, adder, scanning, toVisit, added, reports>>

\* Mutant: only a window that exists is told of the contestant.
SetContestantIDStore_WindowOnly(r) ==
    /\ setter = NotSetting /\ ~scanning
    /\ setter' = [run |-> r, window |-> windows[r]]
    /\ announced' = announced \cup {r}
    /\ UNCHANGED <<windows, contestantIDs, heap, adder, scanning, toVisit, added, reports>>

\* SetContestantID, the section under m.mu.
SetContestantIDStore(r) ==
    /\ setter = NotSetting /\ ~scanning
    /\ contestantIDs' = [contestantIDs EXCEPT ![r] = ContestantOf[r]]
    /\ setter' = [run |-> r, window |-> windows[r]]
    /\ announced' = announced \cup {r}
    /\ UNCHANGED <<windows, heap, adder, scanning, toVisit, added, reports>>

\* SetContestantID, the section under w.mu when a window was found, and its return.
SetContestantIDUpdate ==
    /\ setter # NotSetting
    /\ heap' = IF setter.window = None THEN heap
               ELSE [heap EXCEPT ![setter.window].contestantID = ContestantOf[setter.run]]
    /\ setter' = NotSetting
    /\ UNCHANGED <<windows, contestantIDs, adder, scanning, toVisit, added, announced, reports>>

\* CheckCompleted takes m.mu and starts its range over the windows.
CheckCompletedLock ==
    /\ ~scanning
    /\ scanning' = TRUE
    /\ toVisit' = {r \in Runs : windows[r] # None}
    /\ UNCHANGED <<windows, contestantIDs, heap, adder, setter, added, announced, reports>>

\* Mutant: the window stays in the map.
CheckCompletedTake_Keep(r) ==
    /\ scanning /\ r \in toVisit
    /\ IsComplete(windows[r])
    /\ reports' = reports \cup {Snapshot(r, windows[r])}
    /\ contestantIDs' = [contestantIDs EXCEPT ![r] = None]
    /\ toVisit' = toVisit \ {r}
    /\ UNCHANGED <<windows, heap, adder, setter, scanning, added, announced>>

\* The body of the loop for a window that is complete ...
CheckCompletedTake(r) ==
    /\ scanning /\ r \in toVisit
    /\ IsComplete(windows[r])
    /\ reports' = reports \cup {Snapshot(r, windows[r])}
    /\ windows' = [windows EXCEPT ![r] = None]
    /\ contestantIDs' = [contestantIDs EXCEPT ![r] = None]
    /\ toVisit' = toVisit \ {r}
    /\ UNCHANGED <<heap, adder, setter, scanning, added, announced>>

\* ... and for one that is not.
CheckCompletedSkip(r) ==
    /\ scanning /\ r \in toVisit
    /\ ~IsComplete(windows[r])
    /\ toVisit' = toVisit \ {r}
    /\ UNCHANGED <<windows, contestantIDs, heap, adder, setter, scanning, added, announced, reports>>

\* CheckCompleted returns and m.mu is free again.
CheckCompletedUnlock ==
    /\ scanning /\ toVisit = {}
    /\ scanning' = FALSE
    /\ UNCHANGED <<windows, contestantIDs, heap, adder, setter, toVisit, added, announced, reports>>

\* A second passes on the clock that time.Since reads.  Ages stop at Due, which
\* is all isComplete can tell apart.
Tick ==
    /\ \E w \in Live : heap[w].age < Due
    /\ heap' = [w \in Events |->
                  IF w \in Live /\ heap[w].age < Due
                  THEN [heap[w] EXCEPT !.age = @ + 1] ELSE heap[w]]
    /\ UNCHANGED <<windows, contestantIDs, adder, setter, scanning, toVisit, added,
                   announced, reports>>

\* The process stops at any point and a new one starts.
Restart ==
    /\ windows' = [r \in Runs |-> None]
    /\ contestantIDs' = [r \in Runs |-> None]
    /\ heap' = [e \in Events |-> NewWindow(None)]
    /\ adder' = Idle
    /\ setter' = NotSetting
    /\ scanning' = FALSE
    /\ toVisit' = {}
    /\ added' = {}
    /\ announced' = {}
    /\ reports' = {}

AddEvent == \/ \E e \in Events : AddEventFind(e) \/ AddEventOpen(e)
            \/ AddEventRecord

SetContestantID == \/ \E r \in Runs : SetContestantIDStore(r)
                   \/ SetContestantIDUpdate

CheckCompleted == \/ CheckCompletedLock
                  \/ \E r \in Runs : CheckCompletedTake(r) \/ CheckCompletedSkip(r)
                  \/ CheckCompletedUnlock

Next == AddEvent \/ SetContestantID \/ CheckCompleted \/ Tick \/ Restart

Spec == Init /\ [][Next]_managerVars

---------------------------------------------------------------------------
(* Properties *)

TypeOK ==
    /\ windows \in [Runs -> Events \cup {None}]
    /\ contestantIDs \in [Runs -> Contestants \cup {None}]
    /\ heap \in [Events -> [contestantID : Contestants \cup {None},
                            counted : SUBSET Events, age : 0..Due]]
    /\ adder \in [event : Events, window : Events] \cup {Idle}
    /\ setter \in [run : Runs, window : Events \cup {None}] \cup {NotSetting}
    /\ scanning \in BOOLEAN
    /\ toVisit \subseteq Runs
    /\ added \subseteq Events
    /\ announced \subseteq Runs
    /\ reports \subseteq [window : Events, run : Runs,
                         contestantID : Contestants \cup {None}, events : SUBSET Events]

\* A window is never reported before the event that opened it is counted, however
\* long the AddEvent call that opened it stays between its two sections: that is
\* what the orderCount == 0 guard of isComplete is for (window.go:166).
OpenerReported ==
    \A s \in reports : s.window \in s.events

\* A live window of a run whose contestant is in contestantIDs names that
\* contestant too, unless the SetContestantID call that stored it has still to
\* reach this very window (window.go:78, 127-136): the order in which run.started
\* and the first telemetry arrive does not matter.
ContestantAgreement ==
    \A r \in Runs :
        windows[r] # None /\ contestantIDs[r] # None =>
            \/ heap[windows[r]].contestantID = contestantIDs[r]
            \/ setter = [run |-> r, window |-> windows[r]]

\* A run's telemetry is never counted twice and never for another run: two
\* reports share no event, no live window still holds a reported one
\* (window.go:153), and a report holds events of its own run only.
EventsReportedOnce ==
    /\ \A s, t \in reports : s # t => s.events \cap t.events = {}
    /\ \A s \in reports, w \in Live : s.events \cap heap[w].counted = {}
    /\ \A s \in reports : \A e \in s.events : RunOf[e] = s.run

\* The race of AddEvent with CheckCompleted (window.go:88-90) costs a report at
\* most one event, the one whose AddEvent was between its sections.
AtMostOneLost ==
    \A s \in reports :
        \A e, f \in heap[s.window].counted \ s.events : e = f

\* The first report of a run names its contestant if SetContestantID has returned
\* for that run before the scan reaches its window (window.go:121-136).
FirstReportNamesContestant ==
    [][\A s \in reports' \ reports :
          /\ s.run \in announced
          /\ setter.run # s.run
          /\ \A t \in reports : t.run # s.run
          => s.contestantID = ContestantOf[s.run]]_managerVars

---------------------------------------------------------------------------
\* The manager implements the ledger.
ledgerStatus ==
    [e \in Events |->
        CASE e \notin added -> "new"
          [] adder.event = e -> "added"
          [] \E w \in Live : e \in heap[w].counted -> "counted"
          [] \E s \in reports : e \in s.events -> "reported"
          [] OTHER -> "dropped"]

ledgerAdding == {adder.event} \ {None}

ledgerLate == {e \in ledgerAdding : adder.window \notin Live}

Ledger == INSTANCE RunLedger WITH
            status <- ledgerStatus, adding <- ledgerAdding, late <- ledgerLate

\* Every step of the manager, between the locks of its three goroutines, is a step
\* of the ledger or none: AddEvent counts an event at one instant, and
\* CheckCompleted reports all that is counted for a run at one instant
\* (window.go:72-161).
ImplementsLedger == Ledger!Spec

=============================================================================
