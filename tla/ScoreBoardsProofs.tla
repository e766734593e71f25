------------------------- MODULE ScoreBoardsProofs -------------------------
(***************************************************************************)
(* Proofs about the two boards, for any runs, scores and contestants, any  *)
(* order of delivery and any number of restarts.                           *)
(***************************************************************************)
EXTENDS ScoreBoards, Formula, TLAPS

\* The types: each variable of the two services keeps its own (scorer kafka.go:56-95,
\* leaderboard kafka.go:59-98).
THEOREM TypeCorrect == Spec => []TypeOK
<1> USE ConstantsAssumption
<1>1. Init => TypeOK
  BY DEF Init, TypeOK, NoScore, NoScores
<1>2. TypeOK /\ [Next]_vars => TypeOK'
  <2> SUFFICES ASSUME TypeOK, [Next]_vars PROVE TypeOK'
    OBVIOUS
  <2> USE DEF TypeOK, NoScore, Steps, scorerVars, boardVars, topVars
  <2>1. ASSUME NEW r \in Runs, FetchCompleted(r) PROVE TypeOK'
    BY <2>1 DEF FetchCompleted
  <2>2. ASSUME NEW error \in Errors, Upsert(error) PROVE TypeOK'
    BY <2>2 DEF Upsert, ZAddGT
  <2>3. CASE UpsertFails
    BY <2>3 DEF UpsertFails
  <2>4. ASSUME NEW error \in Errors, SetMetrics(error) PROVE TypeOK'
    BY <2>4 DEF SetMetrics
  <2>5. ASSUME NEW error \in Errors, PublishScore(error) PROVE TypeOK'
    BY <2>5 DEF PublishScore
  <2>6. CASE RestartScorer
    BY <2>6 DEF RestartScorer
  <2>7. ASSUME NEW r \in Runs, ReadScore(r) PROVE TypeOK'
    BY <2>7 DEF ReadScore
  <2>8. ASSUME NEW error \in Errors, UpdateScore(error) PROVE TypeOK'
    BY <2>8 DEF UpdateScore, Overtakes
  <2>9. CASE CommitScores
    BY <2>9 DEF CommitScores
  <2>10. ASSUME NEW error \in Errors, RestartBoard(error) PROVE TypeOK'
    BY <2>10 DEF RestartBoard, SeedDemoData, NoScores
  <2>11. CASE RangeScores
    BY <2>11 DEF RangeScores
  <2>12. CASE ReturnRows
    BY <2>12 DEF ReturnRows, NoScores
  <2>13. CASE UNCHANGED vars
    BY <2>13 DEF vars
  <2>14. QED
    BY <2>1, <2>2, <2>3, <2>4, <2>5, <2>6, <2>7, <2>8, <2>9, <2>10, <2>11, <2>12, <2>13
    DEF Next
<1>3. QED
  BY <1>1, <1>2, PTL DEF Spec

\* The score of a contestant is the best of its upserted runs, in every order and
\* after every replay (scorer redis.go:31-37).
THEOREM BestIsBestOfUpserted == Spec => []BestOfUpserted
<1> USE ConstantsAssumption DEF BestOfUpserted, UpsertedOf
<1>1. Init => BestOfUpserted
  BY DEF Init, NoScores
<1>2. TypeOK /\ BestOfUpserted /\ [Next]_vars => BestOfUpserted'
  <2> SUFFICES ASSUME TypeOK, BestOfUpserted, [Next]_vars PROVE BestOfUpserted'
    OBVIOUS
  <2>1. ASSUME NEW error \in Errors, Upsert(error) PROVE BestOfUpserted'
    <3>1. PICK r \in Runs : r = job.run
      BY <2>1 DEF Upsert, TypeOK
    <3>2. /\ upserted' = upserted \cup {r}
          /\ \A c \in Contestants :
                best'[c] = IF c = ContestantOf[r] /\ ScoreOf[r] > best[c] THEN ScoreOf[r]
                           ELSE best[c]
      BY <2>1, <3>1 DEF Upsert, ZAddGT, TypeOK
    <3>3. \A c \in Contestants : best[c] \in Int
      BY DEF TypeOK, NoScore
    <3>4. \A q \in upserted' : ScoreOf[q] \in Int /\ ContestantOf[q] \in Contestants
      BY <3>2 DEF TypeOK
    <3>5. ASSUME NEW c \in Contestants
          PROVE  \A q \in upserted' : ContestantOf[q] = c => ScoreOf[q] <= best'[c]
      BY <3>2, <3>3, <3>4
    <3>6. ASSUME NEW c \in Contestants, best'[c] # NoScore
          PROVE  \E q \in upserted' : ContestantOf[q] = c /\ ScoreOf[q] = best'[c]
      BY <3>2, <3>3, <3>4, <3>6
    <3>7. QED
      BY <3>5, <3>6
  <2>2. CASE UNCHANGED <<best, upserted>>
    BY <2>2
  <2>3. QED
    BY <2>1, <2>2 DEF Next, FetchCompleted, UpsertFails, SetMetrics, PublishScore,
       RestartScorer, ReadScore, UpdateScore, CommitScores, RangeScores, ReturnRows,
       RestartBoard, scorerVars, vars
<1>3. QED
  BY <1>1, <1>2, TypeCorrect, PTL DEF Spec

---------------------------------------------------------------------------
(* Top50 and its two reads. *)

\* The two keys of the leaderboard, which one MULTI writes: of one run, or seeded.
KeysOfOneRun ==
    \A c \in Contestants :
        IF boardMetrics[c] = None THEN board[c] \in {NoScore, DemoScore[c]}
        ELSE ContestantOf[boardMetrics[c]] = c /\ ScoreOf[boardMetrics[c]] = board[c]

\* What a Top50 between its reads knows of the scores.
RangedIsBoard ==
    /\ top = "idle" => overtaken = {}
    /\ top = "ranged" =>
         \A c \in Contestants :
            IF c \in overtaken THEN boardMetrics[c] # None ELSE ranged[c] = board[c]

Keys == KeysOfOneRun /\ RangedIsBoard

\* The keys are written together, and a Top50 between its reads knows the scores of the
\* names that were not written since (leaderboard redis.go:40-57).
LEMMA KeysKept == Spec => []Keys
<1> USE ConstantsAssumption DEF Keys
<1>1. Init => Keys
  BY DEF Init, NoScores, KeysOfOneRun, RangedIsBoard
<1>2. TypeOK /\ Keys /\ [Next]_vars => Keys'
  <2> SUFFICES ASSUME TypeOK, Keys, [Next]_vars PROVE Keys'
    OBVIOUS
  <2>1. ASSUME NEW error \in Errors, UpdateScore(error) PROVE Keys'
    <3>1. CASE error
      BY <2>1, <3>1 DEF UpdateScore, KeysOfOneRun, RangedIsBoard
    <3>2. CASE ~error
      <4>1. PICK r \in Runs : r = reading
        BY <2>1 DEF UpdateScore, TypeOK
      <4>2. \A c \in Contestants :
               /\ board'[c] = IF c = ContestantOf[r] THEN ScoreOf[r] ELSE board[c]
               /\ boardMetrics'[c] = IF c = ContestantOf[r] THEN r ELSE boardMetrics[c]
        BY <2>1, <3>2, <4>1 DEF UpdateScore, TypeOK
      <4>3. KeysOfOneRun'
        BY <4>2 DEF KeysOfOneRun
      <4>4. /\ UNCHANGED <<top, ranged>>
            /\ overtaken' = IF top = "ranged" THEN overtaken \cup {ContestantOf[r]}
                            ELSE overtaken
        BY <2>1, <3>2, <4>1 DEF UpdateScore, Overtakes
      <4>5. RangedIsBoard'
        BY <4>2, <4>4 DEF RangedIsBoard
      <4>6. QED
        BY <4>3, <4>5
    <3>3. QED
      BY <2>1, <3>1, <3>2 DEF Errors
  <2>2. CASE RangeScores
    BY <2>2 DEF RangeScores, KeysOfOneRun, RangedIsBoard
  <2>3. CASE ReturnRows
    BY <2>3 DEF ReturnRows, KeysOfOneRun, RangedIsBoard
  <2>4. ASSUME NEW error \in Errors, RestartBoard(error) PROVE Keys'
    <3>1. RangedIsBoard'
      BY <2>4 DEF RestartBoard, RangedIsBoard
    <3>2. board' = board \/ (board = NoScores /\ board' = DemoScore)
      BY <2>4 DEF RestartBoard, SeedDemoData
    <3>3. boardMetrics' = boardMetrics
      BY <2>4 DEF RestartBoard
    <3>4. \A r \in Runs : ScoreOf[r] # NoScore
      BY DEF NoScore
    <3>5. \A c \in Contestants : boardMetrics[c] # None => board[c] # NoScore
      BY <3>4 DEF KeysOfOneRun, TypeOK
    <3>6. KeysOfOneRun'
      BY <3>2, <3>3, <3>5 DEF KeysOfOneRun, NoScores
    <3>7. QED
      BY <3>1, <3>6
  <2>5. CASE UNCHANGED <<board, boardMetrics, topVars>>
    BY <2>5 DEF topVars, KeysOfOneRun, RangedIsBoard
  <2>6. QED
    BY <2>1, <2>2, <2>3, <2>4, <2>5 DEF Next, FetchCompleted, Upsert, UpsertFails, SetMetrics,
       PublishScore, RestartScorer, ReadScore, CommitScores, boardVars, vars
<1>3. QED
  BY <1>1, <1>2, TypeCorrect, PTL DEF Spec

\* A row of Top50 combines two runs only if it was written between the two reads, and is
\* without metrics only if they were not answered or the score is seeded (leaderboard
\* redis.go:53-86).
THEOREM TopRowsAreOfOneRun == Spec => []TopRowsOfOneRun
<1>1. TypeOK /\ Keys => TopRowsOfOneRun
  <2> SUFFICES ASSUME TypeOK, Keys, NEW c \in Contestants, NEW answered \in BOOLEAN,
                      top = "ranged", ranged[c] # NoScore
               PROVE  LET row == TopRow(c, answered) IN
                      IF row.metrics = None THEN answered => row.score = DemoScore[c]
                      ELSE /\ ContestantOf[row.metrics] = c
                           /\ ScoreOf[row.metrics] = row.score \/ c \in overtaken
    BY DEF TopRowsOfOneRun
  <2>1. CASE c \in overtaken
    BY <2>1 DEF Keys, KeysOfOneRun, RangedIsBoard, TopRow
  <2>2. CASE c \notin overtaken
    BY <2>2 DEF Keys, KeysOfOneRun, RangedIsBoard, TopRow
  <2>3. QED
    BY <2>1, <2>2
<1>2. QED
  BY <1>1, TypeCorrect, KeysKept, PTL

---------------------------------------------------------------------------
\* A score.updated message that is on its way anywhere, or may come again, is of a run
\* that has been upserted, or whose upsert failed.
Announced(r) ==
    \/ job # None /\ job.run = r /\ job.next # "upsert"
    \/ unread[r] > 0
    \/ reading = r
    \/ r \in uncommitted

AnnouncedIsUpserted ==
    /\ \A r \in Runs : Announced(r) => r \in upserted \cup lost
    /\ BoardNotAhead

\* What is announced has been recorded, or its upsert failed: otherwise the leaderboard
\* never shows a score above the one the scorer keeps (scorer kafka.go:80-93).
THEOREM BoardIsNotAhead == Spec => []BoardNotAhead
<1> USE ConstantsAssumption DEF AnnouncedIsUpserted, BoardNotAhead
<1>1. Init => AnnouncedIsUpserted
  BY DEF Init, Announced, NoScore, NoScores
<1>2. TypeOK /\ BestOfUpserted /\ Keys /\ AnnouncedIsUpserted /\ [Next]_vars
        => AnnouncedIsUpserted'
  <2> SUFFICES ASSUME TypeOK, BestOfUpserted, Keys, AnnouncedIsUpserted, [Next]_vars
               PROVE  AnnouncedIsUpserted'
    OBVIOUS
  <2> USE DEF TypeOK, Announced, scorerVars, boardVars, NoScore
  <2>1. ASSUME NEW r \in Runs, FetchCompleted(r) PROVE AnnouncedIsUpserted'
    BY <2>1 DEF FetchCompleted
  <2>2. ASSUME NEW error \in Errors, Upsert(error) PROVE AnnouncedIsUpserted'
    <3>1. \A c \in Contestants : /\ best'[c] \in Int /\ best[c] \in Int /\ board[c] \in Int
                                 /\ best'[c] >= best[c]
      <4>1. PICK r \in Runs : r = job.run
        BY <2>2 DEF Upsert
      <4>2. \A c \in Contestants :
               best'[c] = IF c = ContestantOf[r] /\ ScoreOf[r] > best[c] THEN ScoreOf[r]
                          ELSE best[c]
        BY <2>2, <4>1 DEF Upsert, ZAddGT
      <4>3. \A c \in Contestants : best[c] \in Int /\ board[c] \in Int
        OBVIOUS
      <4>4. ScoreOf[r] \in Int
        OBVIOUS
      <4>5. QED
        BY <4>2, <4>3, <4>4
    <3>2. BoardNotAhead'
      <4>1. UNCHANGED <<board, boardMetrics, lost>>
        BY <2>2 DEF Upsert
      <4>2. QED
        BY <3>1, <4>1
    <3>3. \A r \in Runs : Announced(r)' => r \in (upserted \cup lost)'
      <4>1. /\ job' = [job EXCEPT !.next = job'.next] /\ job \in [run : Runs, next : Steps]
            /\ upserted' = upserted \cup {job.run}
            /\ UNCHANGED <<unread, reading, uncommitted, lost>>
        BY <2>2 DEF Upsert
      <4>2. job'.run = job.run
        BY <4>1
      <4>3. QED
        BY <4>1, <4>2
    <3>4. QED
      BY <3>2, <3>3
  <2>3. ASSUME NEW error \in Errors, SetMetrics(error) \/ PublishScore(error)
        PROVE  AnnouncedIsUpserted'
    <3>1. CASE SetMetrics(error)
      BY <3>1 DEF SetMetrics
    <3>2. CASE PublishScore(error)
      BY <3>2 DEF PublishScore
    <3>3. QED
      BY <2>3, <3>1, <3>2
  <2>4. ASSUME NEW r \in Runs, ReadScore(r) PROVE AnnouncedIsUpserted'
    BY <2>4 DEF ReadScore
  <2>5. ASSUME NEW error \in Errors, UpdateScore(error) PROVE AnnouncedIsUpserted'
    <3>1. PICK r \in Runs : r = reading
      BY <2>5 DEF UpdateScore
    <3>2. r \in lost \/ ScoreOf[r] <= best[ContestantOf[r]]
      BY <3>1 DEF BestOfUpserted, UpsertedOf
    <3>3. BoardNotAhead'
      BY <2>5, <3>1, <3>2 DEF UpdateScore
    <3>4. \A q \in Runs : Announced(q)' => q \in (upserted \cup lost)'
      BY <2>5 DEF UpdateScore
    <3>5. QED
      BY <3>3, <3>4
  <2>6. CASE RestartScorer \/ CommitScores \/ RangeScores \/ ReturnRows
    BY <2>6 DEF RestartScorer, CommitScores, RangeScores, ReturnRows
  <2>7. ASSUME NEW error \in Errors, RestartBoard(error) PROVE AnnouncedIsUpserted'
    <3>1. \A r \in Runs : Announced(r)' => r \in (upserted \cup lost)'
      BY <2>7 DEF RestartBoard
    <3>2. board' = board \/ (board = NoScores /\ board' = DemoScore)
      BY <2>7 DEF RestartBoard, SeedDemoData
    <3>3. UNCHANGED <<boardMetrics, best, lost>>
      BY <2>7 DEF RestartBoard
    <3>4. \A c \in Contestants : boardMetrics[c] # None => board[c] # NoScore
      BY DEF Keys, KeysOfOneRun
    <3>5. BoardNotAhead'
      BY <3>2, <3>3, <3>4 DEF NoScores
    <3>6. QED
      BY <3>1, <3>5
  <2>8. CASE UpsertFails \/ UNCHANGED vars
    BY <2>8 DEF UpsertFails, vars
  <2>9. QED
    BY <2>1, <2>2, <2>3, <2>4, <2>5, <2>6, <2>7, <2>8 DEF Next
<1>3. AnnouncedIsUpserted => BoardNotAhead
  OBVIOUS
<1>4. QED
  BY <1>1, <1>2, <1>3, TypeCorrect, BestIsBestOfUpserted, KeysKept, PTL DEF Spec

---------------------------------------------------------------------------
(* The formula *)

\* The components and weights never leave 0..100 points, so that clamp changes no score, and
\* a score is one that ScoreOf may give (formula.go:19-26, 50-57).
THEOREM ScoreIsInRange ==
    \A p99Ms \in Int, maxTPS \in Int, correctness \in Ratios :
        /\ Calculate(p99Ms, maxTPS, correctness) = weighted(p99Ms, maxTPS, correctness)
        /\ Calculate(p99Ms, maxTPS, correctness) \in 0..FullScore
<1> SUFFICES ASSUME NEW p99Ms \in Int, NEW maxTPS \in Int, NEW correctness \in Ratios
             PROVE  /\ Calculate(p99Ms, maxTPS, correctness) = weighted(p99Ms, maxTPS, correctness)
                    /\ Calculate(p99Ms, maxTPS, correctness) \in 0..FullScore
  OBVIOUS
<1>1. latencyComponent(p99Ms) \in 0..500 /\ throughputComponent(maxTPS) \in 0..1000
  BY DEF latencyComponent, throughputComponent, maxAcceptableP99Ms, minAcceptableTPS
<1>2. weighted(p99Ms, maxTPS, correctness) \in 0..FullScore /\ FullScore \in Nat
  <2> DEFINE l == latencyComponent(p99Ms)
  <2> DEFINE t == throughputComponent(maxTPS)
  <2>1. weighted(p99Ms, maxTPS, correctness) = 35 * 2 * l + 35 * t + 30 * correctness
    BY DEF weighted
  <2>2. l \in 0..500 /\ t \in 0..1000 /\ correctness \in 0..1000
    BY <1>1, SMT DEF Ratios
  <2> HIDE DEF l, t
  <2>3. 35 * 2 * l + 35 * t + 30 * correctness \in Nat
    BY <2>2, SMT
  <2>4. 35 * 2 * l + 35 * t + 30 * correctness <= FullScore
    BY <2>2, SMT DEF FullScore
  <2>5. FullScore \in Nat
    BY SMT DEF FullScore
  <2>6. QED
    BY <2>1, <2>3, <2>4, <2>5, SMT
<1>3. QED
  BY <1>2 DEF Calculate, clamp

\* A run that is as good as another in each of the three measures scores as much, across
\* the thresholds of the components too (formula.go:17-48).
THEOREM BetterRunsScoreMore ==
    \A p1, p2, t1, t2 \in Int, c1, c2 \in Ratios :
        p1 <= p2 /\ t1 >= t2 /\ c1 >= c2 => Calculate(p1, t1, c1) >= Calculate(p2, t2, c2)
<1> SUFFICES ASSUME NEW p1 \in Int, NEW p2 \in Int, NEW t1 \in Int, NEW t2 \in Int,
                    NEW c1 \in Ratios, NEW c2 \in Ratios,
                    p1 <= p2, t1 >= t2, c1 >= c2
             PROVE  Calculate(p1, t1, c1) >= Calculate(p2, t2, c2)
  OBVIOUS
<1>1. latencyComponent(p1) \in Int /\ latencyComponent(p2) \in Int
      /\ latencyComponent(p1) >= latencyComponent(p2)
  BY DEF latencyComponent, maxAcceptableP99Ms
<1>2. throughputComponent(t1) \in Int /\ throughputComponent(t2) \in Int
      /\ throughputComponent(t1) >= throughputComponent(t2)
  BY DEF throughputComponent, minAcceptableTPS
<1>3. weighted(p1, t1, c1) >= weighted(p2, t2, c2)
  BY <1>1, <1>2 DEF weighted, Ratios
<1>4. QED
  <2>1. Calculate(p1, t1, c1) = weighted(p1, t1, c1) /\ Calculate(p2, t2, c2) = weighted(p2, t2, c2)
    BY ScoreIsInRange
  <2>2. QED
    BY <1>3, <2>1
=============================================================================
