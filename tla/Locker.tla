------------------------------- MODULE Locker -------------------------------
(***************************************************************************)
(* The wrappers sem, locker and cond, one object of each, and threads that *)
(* call them.  A call that waits is two or more steps.  The threads are    *)
(* not in the repository (nothing includes locker.h): they make any call   *)
(* at any time, except that only the thread that has locked unlocks.       *)
(***************************************************************************)
EXTENDS Naturals

CONSTANTS
  Caller,     \* threads
  MaxCalls    \* bound: calls made by all threads

VARIABLES
  calling,    \* where in a call each thread is; "idle" outside
  m_sem,      \* value of sem
  m_mutex,    \* who holds the mutex of locker, or "none"
  c_mutex,    \* the same for the mutex of cond
  calls

lockerVars == <<calling, m_sem, m_mutex, c_mutex, calls>>

TypeOK ==
  /\ calling \in [Caller -> {"idle", "sem_wait", "lock", "enter", "entered", "asleep", "woken",
                             "leaving"}]
  /\ m_sem \in 0 .. MaxCalls
  /\ {m_mutex, c_mutex} \subseteq Caller \cup {"none"}
  /\ calls \in 0 .. MaxCalls

Init ==
  /\ calling = [t \in Caller |-> "idle"]
  /\ m_sem = 0 /\ m_mutex = "none" /\ c_mutex = "none" /\ calls = 0

Goto(t, from, to) == calling[t] = from /\ calling' = [calling EXCEPT ![t] = to]

Called == calls < MaxCalls /\ calls' = calls + 1

\* sem_wait
SemWaitCall(t) == Called /\ Goto(t, "idle", "sem_wait") /\ UNCHANGED <<m_sem, m_mutex, c_mutex>>

SemWait(t) ==
  /\ Goto(t, "sem_wait", "idle")
  /\ m_sem > 0
  /\ m_sem' = m_sem - 1
  /\ UNCHANGED <<m_mutex, c_mutex, calls>>

\* sem_wait may be interrupted; wait returns false then.
SemWaitInterrupted(t) ==
  Goto(t, "sem_wait", "idle") /\ UNCHANGED <<m_sem, m_mutex, c_mutex, calls>>

post(t) ==
  /\ Called
  /\ calling[t] = "idle"
  /\ m_sem' = m_sem + 1
  /\ UNCHANGED <<calling, m_mutex, c_mutex>>

\* pthread_mutex_lock, of a mutex that is not recursive.
LockCall(t) ==
  /\ Called
  /\ m_mutex # t
  /\ Goto(t, "idle", "lock")
  /\ UNCHANGED <<m_sem, m_mutex, c_mutex>>

lock(t) ==
  /\ Goto(t, "lock", "idle")
  /\ m_mutex = "none"
  /\ m_mutex' = t
  /\ UNCHANGED <<m_sem, c_mutex, calls>>

unlock(t) ==
  /\ calling[t] = "idle" /\ m_mutex = t
  /\ m_mutex' = "none"
  /\ UNCHANGED <<calling, m_sem, c_mutex, calls>>

-----------------------------------------------------------------------------
\* cond::wait locks the mutex of the object, ...
CondWaitCall(t) == Called /\ Goto(t, "idle", "enter") /\ UNCHANGED <<m_sem, m_mutex, c_mutex>>

Enter(t) ==
  /\ Goto(t, "enter", "entered")
  /\ c_mutex = "none"
  /\ c_mutex' = t
  /\ UNCHANGED <<m_sem, m_mutex, calls>>

\* ... tests nothing, and falls asleep; pthread_cond_wait gives the mutex up, ...
Sleep(t) ==
  /\ Goto(t, "entered", "asleep")
  /\ c_mutex' = "none"
  /\ UNCHANGED <<m_sem, m_mutex, calls>>

\* ... wakes up by a signal or for no reason, ...
Wake(t) == Goto(t, "asleep", "woken") /\ UNCHANGED <<m_sem, m_mutex, c_mutex, calls>>

\* ... and takes the mutex again before it returns, ...
Relock(t) ==
  /\ Goto(t, "woken", "leaving")
  /\ c_mutex = "none"
  /\ c_mutex' = t
  /\ UNCHANGED <<m_sem, m_mutex, calls>>

\* Defective variant: wait returns with the mutex locked.
LeaveLocked(t) == Goto(t, "leaving", "idle") /\ UNCHANGED <<m_sem, m_mutex, c_mutex, calls>>

\* ... which wait unlocks.
Leave(t) ==
  /\ Goto(t, "leaving", "idle")
  /\ c_mutex' = "none"
  /\ UNCHANGED <<m_sem, m_mutex, calls>>

\* cond::signal, without the mutex: one thread that is asleep wakes up.  If
\* there is none the signal is lost.
signal(t) ==
  /\ Called
  /\ calling[t] = "idle"
  /\ \/ \E u \in Caller : Goto(u, "asleep", "woken")
     \/ (\A u \in Caller : calling[u] # "asleep") /\ UNCHANGED calling
  /\ UNCHANGED <<m_sem, m_mutex, c_mutex>>

Step(t) == SemWait(t) \/ lock(t) \/ unlock(t) \/ Enter(t) \/ Sleep(t) \/ Relock(t) \/ Leave(t)

Next ==
  \E t \in Caller :
    \/ Step(t) \/ Wake(t) \/ SemWaitInterrupted(t)
    \/ SemWaitCall(t) \/ post(t) \/ LockCall(t) \/ CondWaitCall(t) \/ signal(t)

-----------------------------------------------------------------------------
(***************************************************************************)
(* A thread that was woken returns from wait: neither threads asleep nor   *)
(* those that have returned keep the mutex it must take again.             *)
(***************************************************************************)
WokenReturn == \A t \in Caller : calling[t] = "woken" ~> calling[t] = "idle"
=============================================================================
