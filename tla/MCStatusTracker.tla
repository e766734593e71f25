-------------------------- MODULE MCStatusTracker --------------------------
(* Two submissions of two contestants and two runs. *)
EXTENDS StatusTracker, TLC

CONSTANTS s1, s2, r1, r2, c1, c2

MCSubmissions == {s1, s2}
MCRuns == {r1, r2}
MCContestants == {c1, c2}
MCContestantOf == (s1 :> c1) @@ (s2 :> c2)

\* A run of each submission.
MCSubmissionOf == (r1 :> s1) @@ (r2 :> s2)

\* A submission that the sandbox ran twice, and one that was never run.
MCTwiceSubmissionOf == (r1 :> s1) @@ (r2 :> s1)

=============================================================================
