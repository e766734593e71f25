---------------------------- MODULE MCBoardView ----------------------------
(* Three runs, two of one contestant. *)
EXTENDS BoardView, TLC

CONSTANTS r1, r2, r3, c1, c2, k1

MCRuns == {r1, r2, r3}
MCContestants == {c1, c2}
MCContestantOf == (r1 :> c1) @@ (r2 :> c1) @@ (r3 :> c2)

=============================================================================
