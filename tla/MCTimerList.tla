----------------------------- MODULE MCTimerList -----------------------------
(* TimerList for TLC: addresses are model values. *)
EXTENDS TimerList, TLC

Addresses == Permutations(Timer)
=============================================================================
