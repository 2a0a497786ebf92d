---------------------------- MODULE MCManualClock ----------------------------
(***************************************************************************)
(* ManualClock for TLC: three timers that are alike.                       *)
(***************************************************************************)
EXTENDS ManualClock

MCDurations == -1..2

Alike == Permutations(Timers)
=============================================================================
