---------------------------- MODULE MCTimerQueue ----------------------------
(***************************************************************************)
(* TimerQueue for TLC.  Six timers: the smallest heap in which the entry    *)
(* that fills the gap of a removed one has to rise.  Two ticks to the       *)
(* microsecond, so that durations are rounded; five minutes are one         *)
(* microsecond here, so that expiries lie beyond them.                      *)
(***************************************************************************)
EXTENDS TimerQueue, TLC

Symmetry == Permutations(Timers)
============================================================================
