-------------------------- MODULE MCWindowManager --------------------------
(* Two runs, two contestants, four events. One run has three
   events, so that one can open its window and two can race with its completion. *)
EXTENDS WindowManager, TLC

CONSTANTS r1, r2, e1, e2, e3, e4, c1, c2

MCRuns == {r1, r2}
MCEvents == {e1, e2, e3, e4}
MCContestants == {c1, c2}
MCRunOf == (e1 :> r1) @@ (e2 :> r1) @@ (e3 :> r1) @@ (e4 :> r2)
MCContestantOf == (r1 :> c1) @@ (r2 :> c2)

=============================================================================
