------------------------ MODULE StatusTrackerProofs ------------------------
(***************************************************************************)
(* Proofs about the status tracker, for any submissions, runs and          *)
(* contestants, any order of delivery and any number of restarts.          *)
(***************************************************************************)
EXTENDS StatusTracker, TLAPS

\* The type of what Set stores, whether it adds an entry or updates one.
LEMMA SetType ==
    ASSUME TypeOK, NEW s \in Submissions, NEW c \in Contestants \cup {None},
           NEW status \in States
    PROVE  Set(s, c, status) \in [Submissions -> Entry \cup {None}]
<1>1. CASE entries[s] = None
  BY <1>1 DEF TypeOK, Set, Entry
<1>2. CASE entries[s] # None
  <2> DEFINE updated == [entries[s] EXCEPT !.status = status,
                             !.contestantID = IF c # None THEN c ELSE entries[s].contestantID]
  <2>1. entries[s] \in Entry
    BY <1>2 DEF TypeOK
  <2>2. updated \in Entry
    BY <2>1 DEF Entry
  <2>3. Set(s, c, status) = [entries EXCEPT ![s] = updated]
    BY <1>2 DEF Set
  <2>4. QED
    BY <2>2, <2>3 DEF TypeOK
<1>3. QED
  BY <1>1, <1>2

\* What Set leaves in the entries, field by field.
LEMMA SetFields ==
    ASSUME TypeOK, NEW s \in Submissions, NEW c \in Contestants \cup {None},
           NEW status \in States
    PROVE  /\ \A q \in Submissions \ {s} : Set(s, c, status)[q] = entries[q]
           /\ Set(s, c, status)[s] # None
           /\ Set(s, c, status)[s].status = status
           /\ Set(s, c, status)[s].contestantID =
                IF c # None \/ entries[s] = None THEN c ELSE entries[s].contestantID
           /\ Set(s, c, status)[s].runID =
                IF entries[s] = None THEN None ELSE entries[s].runID
           /\ Set(s, c, status)[s].score =
                IF entries[s] = None THEN None ELSE entries[s].score
<1> DEFINE new == [contestantID |-> c, status |-> status, runID |-> None, score |-> None]
           updated == [entries[s] EXCEPT !.status = status,
                           !.contestantID = IF c # None THEN c ELSE entries[s].contestantID]
<1>1. /\ \A q \in Submissions \ {s} : Set(s, c, status)[q] = entries[q]
      /\ Set(s, c, status)[s] = IF entries[s] = None THEN new ELSE updated
  BY DEF TypeOK, Set
<1>2. new \in Entry
  BY DEF Entry
<1>3. CASE entries[s] = None
  <2>1. new # None
    BY <1>2, EntryAssumption
  <2>2. QED
    BY <1>1, <1>3, <2>1
<1>4. CASE entries[s] # None
  <2>1. entries[s] \in Entry
    BY <1>4 DEF TypeOK
  <2>2. /\ updated \in Entry
        /\ updated.status = status
        /\ updated.contestantID = IF c # None THEN c ELSE entries[s].contestantID
        /\ updated.runID = entries[s].runID /\ updated.score = entries[s].score
    BY <2>1 DEF Entry
  <2>3. updated # None
    BY <2>2, EntryAssumption
  <2>4. QED
    BY <1>1, <1>4, <2>2, <2>3
<1>5. QED
  BY <1>3, <1>4

\* The types: a run id or a score never ends up where a contestant should be
\* (tracker.go:35-103).
THEOREM TypeCorrect == Spec => []TypeOK
<1> USE ConstantsAssumption, EntryAssumption
<1>1. Init => TypeOK
  BY DEF Init, TypeOK
<1>2. TypeOK /\ [Next]_vars => TypeOK'
  <2> SUFFICES ASSUME TypeOK, [Next]_vars PROVE TypeOK'
    OBVIOUS
  <2> USE DEF TypeOK
  <2>1. ASSUME NEW s \in Submissions, NEW ok \in BOOLEAN, Publish(s, ok) PROVE TypeOK'
    BY <2>1 DEF Publish
  <2>2. ASSUME NEW s \in Submissions, Track(s) PROVE TypeOK'
    <3>1. entries' \in [Submissions -> Entry \cup {None}]
      BY <2>2, SetType DEF Track, States
    <3>2. QED
      BY <2>2, <3>1 DEF Track
  <2>3. ASSUME NEW s \in Submissions, ConsumeFailed(s) PROVE TypeOK'
    <3>1. entries' \in [Submissions -> Entry \cup {None}]
      BY <2>3, SetType DEF ConsumeFailed, States
    <3>2. QED
      BY <2>3, <3>1 DEF ConsumeFailed, Messages
  <2>4. ASSUME NEW r \in Runs, ConsumeStarted(r) PROVE TypeOK'
    <3>1. entries' \in [Submissions -> Entry \cup {None}]
      BY <2>4, SetType DEF ConsumeStarted, States
    <3>2. QED
      BY <2>4, <3>1 DEF ConsumeStarted
  <2>5. ASSUME NEW r \in Runs, ConsumeCompleted(r) \/ ConsumeScore(r) PROVE TypeOK'
    <3>1. entries' \in [Submissions -> Entry \cup {None}]
      BY <2>5 DEF ConsumeCompleted, ConsumeScore, UpdateByRunID, UpdateScoreByRunID,
         HasRun, Entry, States
    <3>2. QED
      BY <2>5, <3>1 DEF ConsumeCompleted, ConsumeScore, Messages
  <2>6. CASE ConsumeStartedRunID
    <3>1. entries' \in [Submissions -> Entry \cup {None}]
      BY <2>6 DEF ConsumeStartedRunID, SetRunID, Entry
    <3>2. QED
      BY <2>6, <3>1 DEF ConsumeStartedRunID, Messages
  <2>7. ASSUME NEW topic \in Topics, Commit(topic) PROVE TypeOK'
    BY <2>7 DEF Commit
  <2>8. CASE Restart
    BY <2>8 DEF Restart
  <2>9. CASE UNCHANGED vars
    BY <2>9 DEF vars
  <2>10. QED
    BY <2>1, <2>2, <2>3, <2>4, <2>5, <2>6, <2>7, <2>8, <2>9 DEF Next
<1>3. QED
  BY <1>1, <1>2, PTL DEF Spec

\* An accepted submission is found with its contestant, whichever consumers were ahead
\* of the handler (upload.go:128-140, tracker.go:40-52).
THEOREM AcceptedSubmissionsAreFound == Spec => []AcceptedIsFound
<1> USE ConstantsAssumption, EntryAssumption DEF AcceptedIsFound
<1>1. Init => AcceptedIsFound
  BY DEF Init
<1>2. TypeOK /\ AcceptedIsFound /\ [Next]_vars => AcceptedIsFound'
  <2> SUFFICES ASSUME TypeOK, AcceptedIsFound, [Next]_vars,
                      NEW s \in Submissions, upload'[s] = "accepted"
               PROVE  entries'[s] # None /\ entries'[s].contestantID = ContestantOf[s]
    OBVIOUS
  <2>1. ASSUME NEW q \in Submissions, Track(q)
        PROVE  entries'[s] # None /\ entries'[s].contestantID = ContestantOf[s]
    <3>1. entries' = Set(q, ContestantOf[q], "queued") /\ upload'[q] = "accepted"
      BY <2>1 DEF Track, TypeOK
    <3>2. q # s => upload[s] = "accepted"
      BY <2>1 DEF Track, TypeOK
    <3>3. QED
      BY <3>1, <3>2, SetFields DEF States
  <2>2. ASSUME NEW q \in Submissions, NEW status \in States, entries' = Set(q, None, status),
               upload' = upload
        PROVE  entries'[s] # None /\ entries'[s].contestantID = ContestantOf[s]
    BY <2>2, SetFields
  <2>3. ASSUME NEW r \in Runs, ConsumeCompleted(r) \/ ConsumeScore(r)
        PROVE  entries'[s] # None /\ entries'[s].contestantID = ContestantOf[s]
    <3>1. entries[s] \in Entry /\ entries[s].contestantID = ContestantOf[s]
      BY <2>3 DEF ConsumeCompleted, ConsumeScore, TypeOK
    <3>2. /\ [entries[s] EXCEPT !.status = "completed"] \in Entry
          /\ [entries[s] EXCEPT !.status = "completed"].contestantID = ContestantOf[s]
      BY <3>1 DEF Entry, States
    <3>3. /\ [entries[s] EXCEPT !.score = r] \in Entry
          /\ [entries[s] EXCEPT !.score = r].contestantID = ContestantOf[s]
      BY <3>1 DEF Entry
    <3>4. \/ entries'[s] = entries[s]
          \/ entries'[s] = [entries[s] EXCEPT !.status = "completed"]
          \/ entries'[s] = [entries[s] EXCEPT !.score = r]
      BY <2>3 DEF ConsumeCompleted, ConsumeScore, UpdateByRunID, UpdateScoreByRunID, TypeOK
    <3>5. QED
      BY <3>1, <3>2, <3>3, <3>4
  <2>4. CASE ConsumeStartedRunID
    BY <2>4 DEF ConsumeStartedRunID, SetRunID, TypeOK, Entry
  <2>5. CASE Restart
    BY <2>5 DEF Restart, TypeOK
  <2>6. ASSUME NEW q \in Submissions, NEW ok \in BOOLEAN, Publish(q, ok)
        PROVE  entries'[s] # None /\ entries'[s].contestantID = ContestantOf[s]
    BY <2>6 DEF Publish, TypeOK
  <2>7. ASSUME (\E topic \in Topics : Commit(topic)) \/ UNCHANGED vars
        PROVE  entries'[s] # None /\ entries'[s].contestantID = ContestantOf[s]
    BY <2>7 DEF Commit, vars
  <2>8. QED
    BY <2>1, <2>2, <2>3, <2>4, <2>5, <2>6, <2>7
    DEF Next, ConsumeFailed, ConsumeStarted, States
<1>3. QED
  BY <1>1, <1>2, TypeCorrect, PTL DEF Spec

\* The run, the score and the completion that a submission shows are of its own runs,
\* and of messages that were read (tracker.go:80-103).
THEOREM RunsAreItsOwn == Spec => []ReportsItsOwnRuns
<1> USE ConstantsAssumption, EntryAssumption DEF ReportsItsOwnRuns
<1>1. Init => ReportsItsOwnRuns
  BY DEF Init
<1>2. TypeOK /\ ReportsItsOwnRuns /\ [Next]_vars => ReportsItsOwnRuns'
  <2> SUFFICES ASSUME TypeOK, ReportsItsOwnRuns, [Next]_vars PROVE ReportsItsOwnRuns'
    OBVIOUS
  <2> USE DEF TypeOK
  <2>1. ASSUME NEW s \in Submissions, NEW c \in Contestants \cup {None},
               NEW status \in States \ {"completed"},
               entries' = Set(s, c, status), consumed \subseteq consumed'
        PROVE  ReportsItsOwnRuns'
    <3>1. /\ \A q \in Submissions \ {s} : entries'[q] = entries[q]
          /\ entries'[s].status # "completed"
          /\ entries'[s].runID = IF entries[s] = None THEN None ELSE entries[s].runID
          /\ entries'[s].score = IF entries[s] = None THEN None ELSE entries[s].score
      BY <2>1, SetFields
    <3>2. QED
      BY <2>1, <3>1
  <2>2. ASSUME NEW r \in Runs, ConsumeCompleted(r) PROVE ReportsItsOwnRuns'
    BY <2>2 DEF ConsumeCompleted, UpdateByRunID, HasRun, Entry
  <2>3. ASSUME NEW r \in Runs, ConsumeScore(r) PROVE ReportsItsOwnRuns'
    BY <2>3 DEF ConsumeScore, UpdateScoreByRunID, HasRun, Entry
  <2>4. CASE ConsumeStartedRunID
    BY <2>4 DEF ConsumeStartedRunID, SetRunID, Entry
  <2>5. CASE Restart
    BY <2>5 DEF Restart
  <2>6. CASE UNCHANGED <<entries, consumed>>
    BY <2>6
  <2>7. ASSUME NEW s \in Submissions, Track(s) PROVE ReportsItsOwnRuns'
    BY <2>1, <2>7 DEF Track, States
  <2>8. ASSUME NEW s \in Submissions, ConsumeFailed(s) PROVE ReportsItsOwnRuns'
    BY <2>1, <2>8 DEF ConsumeFailed, States
  <2>9. ASSUME NEW r \in Runs, ConsumeStarted(r) PROVE ReportsItsOwnRuns'
    BY <2>1, <2>9 DEF ConsumeStarted, States
  <2>10. QED
    BY <2>2, <2>3, <2>4, <2>5, <2>6, <2>7, <2>8, <2>9 DEF Next, Publish, Commit, vars
<1>3. QED
  BY <1>1, <1>2, TypeCorrect, PTL DEF Spec

=============================================================================
