------------------------------ MODULE TimerSet ------------------------------
(***************************************************************************)
(* What a list of timers promises, whatever its links and its order: a     *)
(* set of timers, each with the time at which it expires, and what each    *)
(* operation does to it.  A timer leaves the set when it is taken out, when *)
(* the set is cleared, or at a tick at a time that is not before its own;  *)
(* which of the expired ones a tick takes is left open.                    *)
(***************************************************************************)
EXTENDS Naturals

VARIABLE expires     \* the time of each timer in the set

Init == expires = [t \in {} |-> 0]

With(t, e)  == [u \in DOMAIN expires \cup {t} |-> IF u = t THEN e ELSE expires[u]]
Without(T)  == [u \in DOMAIN expires \ T |-> expires[u]]

Insert(t, e) == t \notin DOMAIN expires /\ expires' = With(t, e)

Prolong(t, e) == t \in DOMAIN expires /\ expires[t] <= e /\ expires' = With(t, e)

Remove(t) == t \in DOMAIN expires /\ expires' = Without({t})

\* The tick at time now.
Expire(now) ==
  \E T \in SUBSET {t \in DOMAIN expires : expires[t] <= now} : expires' = Without(T)

Clear == expires' = Without(DOMAIN expires)
=============================================================================
