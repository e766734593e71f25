----------------------------- MODULE MCIngester -----------------------------
(* One run.  Three messages, each delivered once: one opens the window, one   *)
(* can race with its completion, and one can come after it.  Or one message,  *)
(* delivered once more to the same process or to the next.                    *)
EXTENDS Ingester, TLC

CONSTANTS r1, e1, e2, e3, m1, m2, m3, c1

MCRuns == {r1}
MCContestants == {c1}
MCContestantOf == (r1 :> c1)

MCThreeEvents == {e1, e2, e3}
MCThreeMessages == {m1, m2, m3}
MCRunOfThree == [e \in MCThreeEvents |-> r1]
MCMessageOfThree == (e1 :> m1) @@ (e2 :> m2) @@ (e3 :> m3)

MCDeliveries == {e1, e2}
MCMessage == {m1}
MCRunOfDeliveries == [e \in MCDeliveries |-> r1]
MCMessageOfDeliveries == [e \in MCDeliveries |-> m1]
SymmDeliveries == Permutations(MCDeliveries)

=============================================================================
