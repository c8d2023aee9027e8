---------------------------- MODULE DeadLockDemo ----------------------------
(***************************************************************************)
(* Two threads and two mutexes: main locks mutex_a and then mutex_b,       *)
(* another locks them in the opposite order.  Each counts in its own       *)
(* variable, then adds the other's to it.                                  *)
(***************************************************************************)
EXTENDS Naturals

VARIABLES
  at,       \* where each thread is
  owner,    \* who holds each mutex: a thread, or "none", or "destroyed"
  count     \* the variables a and b

deadLockVars == <<at, owner, count>>

Thread == {"main", "another"}
Other(t) == IF t = "main" THEN "another" ELSE "main"
own(t)   == IF t = "main" THEN "a" ELSE "b"
other(t) == own(Other(t))

TypeOK ==
  /\ at \in [Thread -> {"start", "own", "counted", "both", "added", "last", "join", "end"}]
  /\ owner \in [{"a", "b"} -> Thread \cup {"none", "destroyed"}]
  /\ count \in [{"a", "b"} -> 0 .. 3]

Init ==
  /\ at = [t \in Thread |-> "start"]
  /\ owner = [m \in {"a", "b"} |-> "none"]
  /\ count = [m \in {"a", "b"} |-> 0]

Goto(t, from, to) == at[t] = from /\ at' = [at EXCEPT ![t] = to]
lock(t, m)   == owner[m] = "none" /\ owner' = [owner EXCEPT ![m] = t]
unlock(m)    == owner' = [owner EXCEPT ![m] = "none"]

LockOwn(t) == Goto(t, "start", "own") /\ lock(t, own(t)) /\ UNCHANGED count

\* After a sleep, which gives the other thread time for its first lock.
Count(t) ==
  /\ Goto(t, "own", "counted")
  /\ count' = [count EXCEPT ![own(t)] = @ + 1]
  /\ UNCHANGED owner

\* Defective variant: the result of a trylock is not looked at.
LockOtherUnchecked(t) ==
  /\ Goto(t, "counted", "both")
  /\ owner' = IF owner[other(t)] = "none" THEN [owner EXCEPT ![other(t)] = t] ELSE owner
  /\ UNCHANGED count

LockOther(t) == Goto(t, "counted", "both") /\ lock(t, other(t)) /\ UNCHANGED count

\* a += b++, or b += a++
Add(t) ==
  /\ Goto(t, "both", "added")
  /\ count' = [count EXCEPT ![own(t)] = @ + count[other(t)], ![other(t)] = @ + 1]
  /\ UNCHANGED owner

UnlockOther(t) == Goto(t, "added", "last") /\ unlock(other(t)) /\ UNCHANGED count

UnlockOwn(t) ==
  /\ Goto(t, "last", IF t = "main" THEN "join" ELSE "end")
  /\ unlock(own(t))
  /\ UNCHANGED count

\* pthread_join, and both mutexes are destroyed.
Join ==
  /\ at["another"] = "end"
  /\ Goto("main", "join", "end")
  /\ owner' = [m \in {"a", "b"} |-> "destroyed"]
  /\ UNCHANGED count

Next ==
  \/ \E t \in Thread : \/ LockOwn(t) \/ Count(t) \/ LockOther(t) \/ Add(t)
                       \/ UnlockOther(t) \/ UnlockOwn(t)
  \/ Join

-----------------------------------------------------------------------------
\* A step of the thread does not wait, or what it waits for is there.
CanMove(t) ==
  \/ at[t] \in {"own", "both", "added", "last"}
  \/ at[t] = "start" /\ owner[own(t)] = "none"
  \/ at[t] = "counted" /\ owner[other(t)] = "none"
  \/ t = "main" /\ at[t] = "join" /\ at["another"] = "end"

Crossed  == \A t \in Thread : at[t] = "counted" /\ owner[own(t)] = t
Finished == \A t \in Thread : at[t] = "end"

(***************************************************************************)
(* If the threads come to rest, they have finished, with what one would    *)
(* have computed after the other, or they have crossed: each holds its own *)
(* mutex and waits for the other's.  There is no third way to end, and no  *)
(* race on a or b.                                                         *)
(***************************************************************************)
EndsSeriallyOrCrossed ==
  (\A t \in Thread : ~CanMove(t)) =>
    \/ Finished /\ <<count["a"], count["b"]>> \in {<<2, 3>>, <<3, 2>>}
    \/ Crossed
=============================================================================
