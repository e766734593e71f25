--------------------------- MODULE MCScoreBoards ---------------------------
(* Two runs of one contestant, the second faster and less correct, and with the *)
(* better score.  Another name is seeded, and no run is of it.                  *)
EXTENDS ScoreBoards, Formula, TLC

CONSTANTS r1, r2, c1, demo

MCRuns == {r1, r2}
MCContestants == {c1, demo}
MCContestantOf == (r1 :> c1) @@ (r2 :> c1)
MCScoreOf ==
    (r1 :> Calculate(250, 500, 1000)) @@ (r2 :> Calculate(20, 900, 800))
MCDemoScore == [c \in MCContestants |-> IF c = demo THEN 95500 ELSE NoScore]

=============================================================================
