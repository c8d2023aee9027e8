------------------------------ MODULE ForkMutex ------------------------------
(***************************************************************************)
(* A process whose second thread locks and unlocks a mutex for ever forks. *)
(* The child is a copy of the calling thread alone, with a copy of the     *)
(* mutex; the handlers given to pthread_atfork see to its state.           *)
(***************************************************************************)
VARIABLES
  main_at, another_at,   \* where the two threads of the parent are
  child_at,              \* where the child is; "none" before fork
  mutex,                 \* who holds the parent's mutex, or "none"
  child_mutex            \* the same of the child's copy

forkVars == <<main_at, another_at, child_at, mutex, child_mutex>>

TypeOK ==
  /\ main_at \in {"prepare", "fork", "infork", "forked", "failed", "join"}
  /\ another_at \in {"lock", "unlock"}
  /\ child_at \in {"none", "infork", "lock", "unlock", "exited"}
  /\ {mutex, child_mutex} \subseteq {"none", "main", "another", "child"}

Init ==
  /\ main_at = "prepare" /\ another_at = "lock" /\ child_at = "none"
  /\ mutex = "none" /\ child_mutex = "none"

\* The second thread, for ever.
Lock ==
  /\ another_at = "lock" /\ mutex = "none"
  /\ mutex' = "another" /\ another_at' = "unlock"
  /\ UNCHANGED <<main_at, child_at, child_mutex>>

Unlock ==
  /\ another_at = "unlock"
  /\ mutex' = "none" /\ another_at' = "lock"
  /\ UNCHANGED <<main_at, child_at, child_mutex>>

\* fork calls prepare first, ...
prepare ==
  /\ main_at = "prepare" /\ mutex = "none"
  /\ mutex' = "main" /\ main_at' = "fork"
  /\ UNCHANGED <<another_at, child_at, child_mutex>>

\* ... makes the child or fails, ...
Fork ==
  /\ main_at = "fork"
  /\ child_at' = "infork" /\ child_mutex' = mutex /\ main_at' = "infork"
  /\ UNCHANGED <<another_at, mutex>>

ForkFails ==
  /\ main_at = "fork"
  /\ main_at' = "failed"
  /\ UNCHANGED <<another_at, child_at, mutex, child_mutex>>

\* ... and calls infork in the parent, in either case, and in the child.
InforkParent ==
  /\ \/ main_at = "infork" /\ main_at' = "forked"
     \/ main_at = "failed" /\ main_at' = "join"
  /\ mutex' = "none"
  /\ UNCHANGED <<another_at, child_at, child_mutex>>

\* Defective variant: no handler for the child.
InforkChildMissing ==
  /\ child_at = "infork"
  /\ child_at' = "lock"
  /\ UNCHANGED <<main_at, another_at, mutex, child_mutex>>

InforkChild ==
  /\ child_at = "infork"
  /\ child_mutex' = "none" /\ child_at' = "lock"
  /\ UNCHANGED <<main_at, another_at, mutex>>

ChildLock ==
  /\ child_at = "lock" /\ child_mutex = "none"
  /\ child_mutex' = "child" /\ child_at' = "unlock"
  /\ UNCHANGED <<main_at, another_at, mutex>>

ChildExit ==
  /\ child_at = "unlock"
  /\ child_mutex' = "none" /\ child_at' = "exited"
  /\ UNCHANGED <<main_at, another_at, mutex>>

\* wait; the join that follows waits for a thread that never ends.
Wait ==
  /\ main_at = "forked" /\ child_at = "exited"
  /\ main_at' = "join"
  /\ UNCHANGED <<another_at, child_at, mutex, child_mutex>>

MainStep  == prepare \/ Fork \/ ForkFails \/ InforkParent \/ Wait
ChildStep == InforkChild \/ ChildLock \/ ChildExit
Next == Lock \/ Unlock \/ MainStep \/ ChildStep

-----------------------------------------------------------------------------
(***************************************************************************)
(* Whatever the second thread was doing at the time of the fork, the child *)
(* gets its mutex and ends, and the parent's wait with it (in the join     *)
(* that follows the parent stays).                                         *)
(***************************************************************************)
ChildEnds == child_at # "none" ~> (child_at = "exited" /\ main_at = "join")
=============================================================================
