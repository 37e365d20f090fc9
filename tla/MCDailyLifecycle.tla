-------------------------- MODULE MCDailyLifecycle --------------------------
(* Small instances of DailyLifecycle for TLC. *)
EXTENDS DailyLifecycle, TLC

\* Pids are interchangeable, and so are the shells; used by the run that checks
\* invariants only.
ShellAndPidSymmetry == Permutations(Pids) \cup Permutations(Ctl)
=============================================================================
