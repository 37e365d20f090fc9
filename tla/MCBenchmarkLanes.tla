-------------------------- MODULE MCBenchmarkLanes --------------------------
(* An instance of BenchmarkLanes: two fixtures, two repeats; the scorer of   *)
(* the first one accepts two outputs.                                        *)
EXTENDS BenchmarkLanes

TwoFixtures == 2
TwoRepeats  == 2
OneOrTwo    == [f \in Fixtures |-> IF f = 1 THEN {"x", "y"} ELSE {"x"}]
=============================================================================
