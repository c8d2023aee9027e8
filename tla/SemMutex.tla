------------------------------ MODULE SemMutex ------------------------------
(***************************************************************************)
(* Parent and child exclude each other with a System V semaphore of value  *)
(* 1.  pv ignores what semop returns, and gives SEM_UNDO: the kernel keeps *)
(* for each process the sum of what it has done to the semaphore and takes *)
(* it back when the process ends, however it ends.                         *)
(***************************************************************************)
EXTENDS Integers

VARIABLES
  proc_at,    \* where the two processes are
  semval,     \* the semaphore's value, 0 while there is none
  there,      \* the semaphore set exists
  semadj,     \* what the kernel takes back when a process ends
  unguarded   \* history: the processes whose P returned without the semaphore

semVars == <<proc_at, semval, there, semadj, unguarded>>

Process == {"parent", "child"}

TypeOK ==
  /\ proc_at \in [Process -> {"none", "create", "fork", "P", "critical", "wait", "exit", "ended"}]
  /\ semval \in 0 .. 2
  /\ there \in BOOLEAN
  /\ semadj \in [Process -> -1 .. 1]
  /\ unguarded \subseteq Process

Init ==
  /\ proc_at = [p \in Process |-> IF p = "parent" THEN "create" ELSE "none"]
  /\ semval = 0 /\ there = FALSE
  /\ semadj = [p \in Process |-> 0]
  /\ unguarded = {}

Goto(p, from, to) == proc_at[p] = from /\ proc_at' = [proc_at EXCEPT ![p] = to]

\* semget and SETVAL; nobody looks whether they fail.
Create ==
  /\ Goto("parent", "create", "fork")
  /\ \/ there' = TRUE /\ semval' = 1
     \/ UNCHANGED <<there, semval>>
  /\ UNCHANGED <<semadj, unguarded>>

fork ==
  /\ proc_at["parent"] = "fork"
  /\ proc_at' = [p \in Process |-> "P"]
  /\ UNCHANGED <<semval, there, semadj, unguarded>>

\* The parent returns at once, and nobody removes the set.
ForkFails == Goto("parent", "fork", "ended") /\ UNCHANGED <<semval, there, semadj, unguarded>>

\* pv(sem_id, -1): the semaphore is taken, ...
P(p) ==
  /\ Goto(p, "P", "critical")
  /\ there /\ semval > 0
  /\ semval' = semval - 1
  /\ semadj' = [semadj EXCEPT ![p] = @ + 1]
  /\ UNCHANGED <<there, unguarded>>

\* ... or semop fails: there is no set, or a waiting process was stopped and
\* continued (EINTR).  The process goes on all the same.
PFails(p) ==
  /\ Goto(p, "P", "critical")
  /\ ~there \/ semval = 0
  /\ unguarded' = unguarded \cup {p}
  /\ UNCHANGED <<semval, there, semadj>>

\* Defective variant: V without SEM_UNDO.
VWithoutUndo(p) ==
  /\ Goto(p, "critical", IF p = "parent" THEN "wait" ELSE "exit")
  /\ semval' = IF there THEN semval + 1 ELSE semval
  /\ UNCHANGED <<there, semadj, unguarded>>

\* pv(sem_id, 1)
V(p) ==
  /\ Goto(p, "critical", IF p = "parent" THEN "wait" ELSE "exit")
  /\ IF there THEN /\ semval' = semval + 1
                   /\ semadj' = [semadj EXCEPT ![p] = @ - 1]
     ELSE UNCHANGED <<semval, semadj>>
  /\ UNCHANGED <<there, unguarded>>

\* The parent: waitpid and IPC_RMID.
Remove ==
  /\ proc_at["child"] = "ended"
  /\ Goto("parent", "wait", "exit")
  /\ there' = FALSE /\ semval' = 0
  /\ semadj' = [p \in Process |-> 0]
  /\ UNCHANGED unguarded

\* Defective variant: without SEM_UNDO, nothing is taken back.
EndWithoutUndo(p) ==
  /\ proc_at' = [proc_at EXCEPT ![p] = "ended"]
  /\ semadj' = [semadj EXCEPT ![p] = 0]
  /\ UNCHANGED <<semval, there, unguarded>>

End(p) ==
  /\ proc_at' = [proc_at EXCEPT ![p] = "ended"]
  /\ semval' = IF semval + semadj[p] < 0 THEN 0 ELSE semval + semadj[p]
  /\ semadj' = [semadj EXCEPT ![p] = 0]
  /\ UNCHANGED <<there, unguarded>>

Exit(p) == proc_at[p] = "exit" /\ End(p)
Kill(p) == proc_at[p] \in {"P", "critical", "wait"} /\ End(p)

Step(p) ==
  \/ P(p) \/ (~there /\ PFails(p)) \/ V(p) \/ Exit(p)
  \/ p = "parent" /\ (Create \/ fork \/ ForkFails \/ Remove)

Next == \E p \in Process : Step(p) \/ PFails(p) \/ Kill(p)

-----------------------------------------------------------------------------
(***************************************************************************)
(* There is one unit of the semaphore, in it or with the processes that    *)
(* owe it, and two processes are in the critical section only if semop has *)
(* failed for one: kills and interrupted calls neither lose the unit nor   *)
(* make a second one, although an interrupted P is followed by a V.        *)
(***************************************************************************)
OneUnit ==
  /\ there => semval + semadj["parent"] + semadj["child"] = 1
  /\ (\A p \in Process : proc_at[p] = "critical") => unguarded # {}

\* No process waits for ever, even if the other is killed in the critical section.
WaitersGetIn == \A p \in Process : proc_at[p] = "P" ~> proc_at[p] # "P"
=============================================================================
