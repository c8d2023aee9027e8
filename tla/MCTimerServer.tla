---------------------------- MODULE MCTimerServer ----------------------------
(* TimerServer for TLC: addresses of timers are model values. *)
EXTENDS TimerServer, TLC

Addresses == Permutations(Timer)
=============================================================================
