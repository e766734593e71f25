------------------------------- MODULE Formula -------------------------------
(***************************************************************************)
(* The score of a run (apps/scorer/internal/scoring).  Floats are integers *)
(* of a fixed scale: latency in milliseconds, correctness in thousandths,  *)
(* the latency component in five hundredths and that of throughput in      *)
(* thousandths, weights in hundredths, and scores in thousandths of a      *)
(* point, which makes every one of these terms exact.  What is left out is *)
(* the rounding of the floats.                                             *)
(***************************************************************************)
EXTENDS Integers

maxAcceptableP99Ms == 500
minAcceptableTPS == 100
Ratios == 0..1000
FullScore == 100 * 1000     \* 100 points

\* In 1/500.
latencyComponent(p99Ms) ==
    IF p99Ms <= 0 THEN maxAcceptableP99Ms
    ELSE IF p99Ms >= maxAcceptableP99Ms THEN 0
    ELSE maxAcceptableP99Ms - p99Ms

\* In 1/1000.
throughputComponent(maxTPS) ==
    IF maxTPS <= 0 THEN 0
    ELSE IF maxTPS >= minAcceptableTPS * 10 THEN 1000
    ELSE maxTPS

clamp(val, min, max) == IF val < min THEN min ELSE IF val > max THEN max ELSE val

weighted(p99Ms, maxTPS, correctness) ==
    35 * 2 * latencyComponent(p99Ms) + 35 * throughputComponent(maxTPS) + 30 * correctness

\* In 1/1000 of a point.
Calculate(p99Ms, maxTPS, correctness) == clamp(weighted(p99Ms, maxTPS, correctness), 0, FullScore)
=============================================================================
