----------------------------- MODULE MCPrograms -----------------------------
(* The small programs of the repository for TLC.  They have nothing in      *)
(* common: program says at the start which of them runs, and the variables  *)
(* of the others stay as they are, so that the state space is the disjoint  *)
(* union of theirs.                                                         *)
EXTENDS MCHttpParser

CONSTANTS
  Caller, MaxCalls,                    \* as in Locker
  MaxChange,                           \* as in WebServer
  PipeSize, MaxSignals, MaxClients     \* as in UniEvent

ASSUME ProgramsAssumption == {MaxCalls, MaxChange, PipeSize, MaxSignals, MaxClients} \subseteq Nat

VARIABLES
  program,
  at, owner, count,                                              \* DeadLockDemo
  main_at, another_at, child_at, mutex, child_mutex,             \* ForkMutex
  proc_at, semval, there, semadj, unguarded,                     \* SemMutex
  permitted, parent_at, child_at_queue, queued,                  \* MsgQueue
  calling, m_sem, m_mutex, c_mutex, calls,                       \* Locker
  file, found, opened, valid, file_buf, answer, server_at, changes,   \* WebServer
  pending, pipe, edges, events, loop_at, stop, waiting, dropped, signals, clients  \* UniEvent

D == INSTANCE DeadLockDemo
F == INSTANCE ForkMutex
S == INSTANCE SemMutex
Q == INSTANCE MsgQueue
L == INSTANCE Locker
W == INSTANCE WebServer
U == INSTANCE UniEvent

deadLockVars == <<at, owner, count>>
forkVars     == <<main_at, another_at, child_at, mutex, child_mutex>>
semVars      == <<proc_at, semval, there, semadj, unguarded>>
msgVars      == <<permitted, parent_at, child_at_queue, queued>>
lockerVars   == <<calling, m_sem, m_mutex, c_mutex, calls>>
webVars      == <<file, found, opened, valid, file_buf, answer, server_at, changes>>
uniVars      == <<pending, pipe, edges, events, loop_at, stop, waiting, dropped, signals, clients>>

allVars == <<program, vars, deadLockVars, forkVars, semVars, msgVars,
            lockerVars, webVars, uniVars>>

Program == {"parser", "deadLock", "fork", "sem", "msg", "locker", "web", "unievent"}

ProgramsTypeOK ==
  /\ program \in Program
  /\ TypeOK /\ D!TypeOK /\ F!TypeOK /\ S!TypeOK /\ Q!TypeOK /\ L!TypeOK /\ W!TypeOK /\ U!TypeOK

\* Where a program has several initial states and does not run, one will do.
ProgramsInit ==
  /\ program \in Program
  /\ Init /\ (program # "parser" => input = <<>>)
  /\ D!Init /\ F!Init /\ S!Init
  /\ Q!Init /\ (program # "msg" => permitted)
  /\ L!Init
  /\ W!Init /\ (program # "web" => valid /\ file = "readable")
  /\ U!Init

\* The variables of the programs other than p do not change.
Only(p) ==
  /\ program = p /\ UNCHANGED program
  /\ IF p = "parser"    THEN TRUE ELSE UNCHANGED vars
  /\ IF p = "deadLock"  THEN TRUE ELSE UNCHANGED deadLockVars
  /\ IF p = "fork"      THEN TRUE ELSE UNCHANGED forkVars
  /\ IF p = "sem"       THEN TRUE ELSE UNCHANGED semVars
  /\ IF p = "msg"       THEN TRUE ELSE UNCHANGED msgVars
  /\ IF p = "locker"    THEN TRUE ELSE UNCHANGED lockerVars
  /\ IF p = "web"       THEN TRUE ELSE UNCHANGED webVars
  /\ IF p = "unievent"  THEN TRUE ELSE UNCHANGED uniVars

ProgramsNext ==
  \/ Only("parser")   /\ Next
  \/ Only("deadLock") /\ D!Next
  \/ Only("fork")     /\ F!Next
  \/ Only("sem")      /\ S!Next
  \/ Only("msg")      /\ Q!Next
  \/ Only("locker")   /\ L!Next
  \/ Only("web")      /\ W!Next
  \/ Only("unievent") /\ U!Next

(* Every process and thread that can go on does; threads that are stopped  *)
(* or killed, callers, clients and senders of signals do what they like.   *)
ProgramsFairness ==
  /\ WF_forkVars(program = "fork" /\ F!MainStep)
  /\ WF_forkVars(program = "fork" /\ F!ChildStep)
  /\ \A p \in {"parent", "child"} : WF_semVars(program = "sem" /\ S!Step(p))
  /\ WF_msgVars(program = "msg" /\ Q!msgrcv)
  /\ \A t \in Caller : WF_lockerVars(program = "locker" /\ L!Step(t))
  /\ WF_uniVars(program = "unievent" /\ U!Loop)
  /\ \A s \in {"HUP", "CHLD", "TERM"} : WF_uniVars(program = "unievent" /\ U!sig_handler(s))

ProgramsSpec == ProgramsInit /\ [][ProgramsNext]_allVars /\ ProgramsFairness

-----------------------------------------------------------------------------
\* deadLockDemo: the threads end with a serial result, or have crossed.
EndsSeriallyOrCrossed == D!EndsSeriallyOrCrossed

\* multithreadForkDeadlock: the child gets its copy of the mutex, and ends.
ChildEnds == F!ChildEnds

\* IPC_PRIVATE: one unit of the semaphore, and exclusion unless semop failed.
OneUnit == S!OneUnit

\* IPC_PRIVATE: a waiting process gets in, even if the other one is killed.
WaitersGetIn == S!WaitersGetIn

\* msgQueueDemo: a message that was sent is received.
MessageTaken == Q!MessageTaken

\* locker.h: a thread that was woken returns from cond::wait.
WokenReturn == L!WokenReturn

\* webServer6_2: 200 OK is sent only for a readable file, with a buffer that was
\* allocated and cleared.
SendsOnlyItsBuffer == W!SendsOnlyItsBuffer

\* unievent: a SIGTERM that is not lost stops the server.
TermStops == U!TermStops
=============================================================================
