--------------------------- MODULE ProgramsProofs ---------------------------
(***************************************************************************)
(* Proofs about the small programs, for any input of the parser, any       *)
(* number of threads that use the locks and any bounds on what happens.    *)
(* Each program's invariant is proved for that program; the programs have  *)
(* no variables in common, so the invariants hold together.  The last part *)
(* is about who waits for whom: what their liveness rests on.              *)
(***************************************************************************)
EXTENDS MCPrograms, SequenceTheorems, NaturalsInduction, WellFoundedInduction, TLAPS

LEMMA ProgramsNumbers ==
  /\ MaxCalls \in Nat /\ MaxChange \in Nat /\ PipeSize \in Nat
  /\ MaxSignals \in Nat /\ MaxClients \in Nat
BY ProgramsAssumption

-----------------------------------------------------------------------------
(***************************************************************************)
(* The programs that need no more than their types.                        *)
(***************************************************************************)
LEMMA ForkMutexTypes ==
  /\ F!Init => F!TypeOK
  /\ F!TypeOK /\ F!Next => F!TypeOK'
  /\ F!TypeOK /\ UNCHANGED forkVars => F!TypeOK'
<1> USE DEF F!TypeOK
<1>1. F!Init => F!TypeOK
  BY DEF F!Init
<1>2. F!TypeOK /\ F!Next => F!TypeOK'
  BY DEF F!Next, F!MainStep, F!ChildStep, F!Lock, F!Unlock, F!prepare, F!Fork, F!ForkFails,
         F!InforkParent, F!InforkChild, F!ChildLock, F!ChildExit, F!Wait
<1>3. F!TypeOK /\ UNCHANGED forkVars => F!TypeOK'
  BY DEF forkVars
<1>4. QED
  BY <1>1, <1>2, <1>3

LEMMA MsgQueueTypes ==
  /\ Q!Init => Q!TypeOK
  /\ Q!TypeOK /\ Q!Next => Q!TypeOK'
  /\ Q!TypeOK /\ UNCHANGED msgVars => Q!TypeOK'
<1> USE DEF Q!TypeOK
<1>1. Q!Init => Q!TypeOK
  BY DEF Q!Init
<1>2. Q!TypeOK /\ Q!fork => Q!TypeOK'
  BY DEF Q!fork
<1>3. Q!TypeOK /\ Q!msgsnd => Q!TypeOK'
  BY DEF Q!msgsnd
<1>4. Q!TypeOK /\ Q!msgrcv => Q!TypeOK'
  BY DEF Q!msgrcv
<1>5. Q!TypeOK /\ UNCHANGED msgVars => Q!TypeOK'
  BY DEF msgVars
<1>6. QED
  BY <1>1, <1>2, <1>3, <1>4, <1>5 DEF Q!Next

-----------------------------------------------------------------------------
(***************************************************************************)
(* The locks: the semaphore counts no more posts than there were.          *)
(***************************************************************************)
LockerInv ==
  /\ calling \in [Caller -> {"idle", "sem_wait", "lock", "enter", "entered", "asleep", "woken",
                             "leaving"}]
  /\ m_sem \in Nat /\ m_sem <= calls
  /\ {m_mutex, c_mutex} \subseteq Caller \cup {"none"}
  /\ calls \in 0 .. MaxCalls

LEMMA LockerCorrect ==
  /\ L!Init => LockerInv
  /\ LockerInv /\ L!Next => LockerInv'
  /\ LockerInv /\ UNCHANGED lockerVars => LockerInv'
  /\ LockerInv => L!TypeOK
<1> USE ProgramsNumbers DEF LockerInv
<1>1. L!Init => LockerInv
  BY DEF L!Init
<1>2. ASSUME LockerInv, NEW t \in Caller,
             L!SemWait(t) \/ L!lock(t) \/ L!unlock(t) \/ L!Enter(t) \/ L!Sleep(t) \/ L!Relock(t)
               \/ L!Leave(t) \/ L!Wake(t) \/ L!SemWaitInterrupted(t)
      PROVE  LockerInv'
  BY <1>2 DEF L!SemWait, L!SemWaitInterrupted, L!lock, L!unlock, L!Enter, L!Sleep, L!Relock, L!Leave, L!Wake, L!Goto
<1>3. ASSUME LockerInv, NEW t \in Caller,
             L!SemWaitCall(t) \/ L!post(t) \/ L!LockCall(t) \/ L!CondWaitCall(t) \/ L!signal(t)
      PROVE  LockerInv'
  BY <1>3 DEF L!SemWaitCall, L!post, L!LockCall, L!CondWaitCall, L!signal, L!Called, L!Goto
<1>4. LockerInv /\ L!Next => LockerInv'
  BY <1>2, <1>3 DEF L!Next, L!Step
<1>5. LockerInv /\ UNCHANGED lockerVars => LockerInv'
  BY DEF lockerVars
<1>6. LockerInv => L!TypeOK
  BY DEF L!TypeOK
<1>7. QED
  BY <1>1, <1>4, <1>5, <1>6

-----------------------------------------------------------------------------
(***************************************************************************)
(* The unified event source: accept is called for connections that wait.   *)
(***************************************************************************)
UniInv ==
  /\ pending \subseteq U!Signal
  /\ pipe \in Seq(U!Signal) /\ Len(pipe) <= PipeSize
  /\ edges \subseteq U!Source /\ events \subseteq U!Source
  /\ loop_at \in {"wait", "events", "stopped"}
  /\ waiting \in Nat /\ waiting <= clients
  /\ "listenfd" \in events => waiting > 0
  /\ signals \in 0 .. MaxSignals /\ clients \in 0 .. MaxClients

UniFlags == {stop, dropped} \subseteq BOOLEAN

LEMMA UniEventCorrect ==
  /\ U!Init => UniInv /\ UniFlags
  /\ UniInv /\ UniFlags /\ U!Next => UniInv' /\ UniFlags'
  /\ UniInv /\ UniFlags /\ UNCHANGED uniVars => UniInv' /\ UniFlags'
  /\ UniInv /\ UniFlags => U!TypeOK
<1>1. U!Init => UniInv /\ UniFlags
  <2>1. U!Init => UniFlags
    BY DEF U!Init, UniFlags
  <2>2. U!Init => pipe \in Seq(U!Signal) /\ Len(pipe) <= PipeSize
    BY ProgramsNumbers DEF U!Init
  <2>3. U!Init => UniInv
    BY <2>2, ProgramsNumbers DEF U!Init, UniInv
  <2>4. QED
    BY <2>1, <2>3
<1>2. ASSUME UniInv, UniFlags, U!Next
      PROVE  UniFlags'
  BY <1>2 DEF UniFlags, U!Next, U!Loop, U!Connect, U!SendSignal, U!sig_handler, U!epoll_wait,
              U!accept, U!ReadSignals, U!EndOfEvents
<1>3. ASSUME UniInv, NEW s \in U!Signal, U!SendSignal(s)
      PROVE  UniInv'
  BY <1>3, ProgramsNumbers DEF UniInv, U!SendSignal
<1>4. ASSUME UniInv, NEW s \in U!Signal, U!sig_handler(s)
      PROVE  UniInv'
  <2>1. pipe' \in Seq(U!Signal) /\ Len(pipe') <= PipeSize
    BY <1>4, ProgramsNumbers DEF UniInv, U!sig_handler
  <2>2. QED
    BY <1>4, <2>1 DEF UniInv, U!sig_handler, U!Source
<1>5. ASSUME UniInv, U!Connect
      PROVE  UniInv'
  BY <1>5, ProgramsNumbers DEF UniInv, U!Connect, U!Source
<1>6. ASSUME UniInv, U!epoll_wait
      PROVE  UniInv'
  BY <1>6 DEF UniInv, U!epoll_wait, U!Readable, U!Source
<1>7. ASSUME UniInv, U!accept
      PROVE  UniInv'
  <2>1. waiting > 0 /\ waiting' \in {waiting - 1, waiting} /\ clients' = clients
    BY <1>7 DEF UniInv, U!accept, U!TakeEvent
  <2>2. waiting' \in Nat /\ waiting' <= clients'
    BY <1>7, <2>1, ProgramsNumbers DEF UniInv
  <2>3. QED
    BY <1>7, <2>2 DEF UniInv, U!accept, U!TakeEvent
<1>8. ASSUME UniInv, U!ReadSignals
      PROVE  UniInv'
  <2>1. pipe' \in Seq(U!Signal) /\ Len(pipe') <= PipeSize
    BY <1>8, ProgramsNumbers DEF U!ReadSignals
  <2>2. QED
    BY <1>8, <2>1 DEF UniInv, U!ReadSignals, U!TakeEvent
<1>9. ASSUME UniInv, U!EndOfEvents
      PROVE  UniInv'
  BY <1>9 DEF UniInv, U!EndOfEvents
<1>10. UniInv /\ U!Next => UniInv'
  BY <1>3, <1>4, <1>5, <1>6, <1>7, <1>8, <1>9 DEF U!Next, U!Loop
<1>11. UniInv /\ UniFlags /\ UNCHANGED uniVars => UniInv' /\ UniFlags'
  BY DEF uniVars, UniInv, UniFlags
<1>12. UniInv /\ UniFlags => U!TypeOK
  BY ProgramsNumbers DEF UniInv, UniFlags, U!TypeOK
<1>13. QED
  BY <1>1, <1>2, <1>10, <1>11, <1>12

-----------------------------------------------------------------------------
(***************************************************************************)
(* The file server: what is known of the file at each place.               *)
(***************************************************************************)
WebTypes ==
  /\ file \in W!File /\ found \in W!File /\ opened \in W!File
  /\ file_buf \in {"undefined", "zeros", "part", "content", "deleted"}
  /\ answer \in {"none", "200", "500"}
  /\ server_at \in {"accept", "stat", "open", "read", "answer", "close", "end"}
  /\ changes \in 0 .. MaxChange
  /\ valid \in BOOLEAN

WebInv ==
  /\ WebTypes
  /\ server_at \in {"open", "read"} => found = "readable"
  /\ server_at = "read" => file_buf = "zeros"
  /\ server_at = "answer" /\ valid
       => found = "readable" /\ file_buf \in {"zeros", "part", "content"}
  /\ server_at \notin {"close", "end"} => answer = "none"
  /\ W!SendsOnlyItsBuffer

LEMMA WebServerCorrect ==
  /\ W!Init => WebInv
  /\ WebInv /\ W!Next => WebInv'
  /\ WebInv /\ UNCHANGED webVars => WebInv'
  /\ WebInv => W!TypeOK
<1> USE DEF WebInv, WebTypes, W!SendsOnlyItsBuffer
<1>1. W!Init => WebInv
  BY ProgramsNumbers DEF W!Init, W!File
<1>2. WebInv /\ W!Change => WebInv'
  BY ProgramsNumbers DEF W!Change
<1>3. WebInv /\ W!accept => WebInv'
  BY DEF W!accept, W!Goto
<1>4. WebInv /\ W!Stat => WebInv'
  BY DEF W!Stat, W!Goto, W!File
<1>5. WebInv /\ W!Open => WebInv'
  BY DEF W!Open, W!Goto, W!File
<1>6. WebInv /\ W!Read => WebInv'
  BY DEF W!Read, W!ReadFile, W!Goto
<1>7. WebInv /\ W!Answer => WebInv'
  BY DEF W!Answer, W!Goto
<1>8. WebInv /\ W!Close => WebInv'
  BY DEF W!Close, W!Goto
<1>9. WebInv /\ UNCHANGED webVars => WebInv'
  BY DEF webVars
<1>10. WebInv => W!TypeOK
  BY DEF W!TypeOK
<1>11. QED
  BY <1>1, <1>2, <1>3, <1>4, <1>5, <1>6, <1>7, <1>8, <1>9, <1>10 DEF W!Next

-----------------------------------------------------------------------------
(***************************************************************************)
(* The semaphore.  What the kernel owes a process follows from where the   *)
(* process is and from whether its P has failed; when there is a set, P    *)
(* fails for one process at most, and then the other has the unit.         *)
(***************************************************************************)
Owed(p) ==
  IF proc_at[p] = "critical" THEN (IF p \in unguarded THEN 0 ELSE 1)
  ELSE IF proc_at[p] \in {"wait", "exit"} THEN (IF p \in unguarded THEN -1 ELSE 0)
  ELSE 0

Before == {"none", "create", "fork", "P"}   \* not past P

SemTypes ==
  /\ proc_at \in [S!Process -> {"none", "create", "fork", "P", "critical", "wait", "exit", "ended"}]
  /\ semval \in Nat
  /\ semadj \in [S!Process -> Int]
  /\ unguarded \subseteq S!Process

SetThere ==
  /\ semval + semadj["parent"] + semadj["child"] = 1
  /\ \A p \in S!Process : semadj[p] = Owed(p)
  /\ \A p \in unguarded : \A q \in S!Process \ {p} : proc_at[q] \notin Before /\ q \notin unguarded

NoSet ==
  /\ semval = 0
  /\ \A p \in S!Process : semadj[p] = 0
  /\ \A p \in S!Process : proc_at[p] = "critical" => p \in unguarded

Places ==
  /\ \A p \in S!Process : proc_at[p] \in Before => p \notin unguarded
  /\ proc_at["parent"] \in {"create", "fork"} => proc_at["child"] = "none"
  /\ proc_at["child"] = "none" => proc_at["parent"] \in {"create", "fork", "ended"}
  /\ proc_at["child"] \notin {"create", "fork", "wait"}

SemInv ==
  /\ SemTypes /\ there \in BOOLEAN /\ Places
  /\ there => SetThere
  /\ ~there => NoSet
  /\ proc_at["parent"] = "create" => ~there

LEMMA SemFollows == SemInv => S!TypeOK /\ S!OneUnit
<1> SUFFICES ASSUME SemInv PROVE S!TypeOK /\ S!OneUnit
  OBVIOUS
<1>1. S!Process = {"parent", "child"}
  BY DEF S!Process
<1>2. CASE there
  <2>1. /\ semval \in Nat /\ semval + semadj["parent"] + semadj["child"] = 1
        /\ semadj["parent"] = Owed("parent") /\ semadj["child"] = Owed("child")
        /\ ~("parent" \in unguarded /\ "child" \in unguarded)
    BY <1>1, <1>2 DEF SemInv, SemTypes, SetThere
  <2>2. Owed("parent") \in -1 .. 1 /\ Owed("child") \in -1 .. 1
    BY DEF Owed
  <2>3. ~(Owed("parent") = -1 /\ Owed("child") = -1)
    BY <2>1 DEF Owed
  <2>4. semval \in 0 .. 2
    BY <2>1, <2>2, <2>3
  <2>5. \A p \in S!Process : semadj[p] \in -1 .. 1
    BY <1>1, <2>1, <2>2
  <2>6. (\A p \in S!Process : proc_at[p] = "critical") => unguarded # {}
    <3> SUFFICES ASSUME proc_at["parent"] = "critical", proc_at["child"] = "critical", unguarded = {}
                 PROVE  FALSE
      BY <1>1
    <3>1. semadj["parent"] = 1 /\ semadj["child"] = 1
      BY <2>1 DEF Owed
    <3>2. QED
      BY <2>1, <3>1
  <2>7. S!OneUnit
    BY <2>1, <2>6 DEF S!OneUnit
  <2>8. S!TypeOK
    BY <1>1, <2>4, <2>5 DEF SemInv, SemTypes, S!TypeOK
  <2>9. QED
    BY <2>7, <2>8
<1>3. CASE ~there
  BY <1>1, <1>3 DEF SemInv, SemTypes, NoSet, S!TypeOK, S!OneUnit
<1>4. QED
  BY <1>2, <1>3

LEMMA SemInit == S!Init => SemInv
<1> SUFFICES ASSUME S!Init PROVE SemInv
  OBVIOUS
<1>1. S!Process = {"parent", "child"}
  BY DEF S!Process
<1>2. SemTypes
  BY <1>1 DEF S!Init, SemTypes
<1>3. NoSet /\ Places /\ ~there /\ there \in BOOLEAN
  BY <1>1 DEF S!Init, NoSet, Places, Before
<1>4. QED
  BY <1>2, <1>3 DEF SemInv

LEMMA SemUnchanged == SemInv /\ UNCHANGED semVars => SemInv'
BY DEF SemInv, SemTypes, SetThere, NoSet, Places, Owed, semVars

LEMMA SemStep == SemInv /\ S!Next => SemInv'
<1> SUFFICES ASSUME SemInv, NEW p \in S!Process, S!Step(p) \/ S!PFails(p) \/ S!Kill(p)
             PROVE  SemInv'
  BY DEF S!Next
<1>1. S!Process = {"parent", "child"}
  BY DEF S!Process
<1>2. SemTypes /\ Places /\ (there => SetThere) /\ (~there => NoSet) /\ there \in BOOLEAN
  BY DEF SemInv
<1>3. CASE p = "parent" /\ S!Create
  <2>1. /\ proc_at["parent"] = "create" /\ proc_at["child"] = "none" /\ ~there
        /\ proc_at' = [proc_at EXCEPT !["parent"] = "fork"]
        /\ UNCHANGED <<semadj, unguarded>>
        /\ (there' = TRUE /\ semval' = 1) \/ UNCHANGED <<there, semval>>
    BY <1>2, <1>3 DEF S!Create, S!Goto, Places, SemInv
  <2>2. SemTypes' /\ Places'
    BY <1>1, <1>2, <2>1 DEF SemTypes, Places, Before
  <2>3. NoSet /\ unguarded = {}
    BY <1>1, <1>2, <2>1 DEF SemTypes, Places, Before
  <2>4. ~there' => NoSet'
    BY <1>1, <1>2, <2>1, <2>3 DEF NoSet, SemTypes
  <2>5. there' => SetThere'
    <3> SUFFICES ASSUME there' PROVE SetThere'
      OBVIOUS
    <3>1. semval' = 1 /\ semadj' = semadj /\ unguarded' = {}
      BY <2>1, <2>3
    <3>2. semadj["parent"] = 0 /\ semadj["child"] = 0
      BY <1>1, <2>3 DEF NoSet
    <3>3. proc_at'["parent"] = "fork" /\ proc_at'["child"] = "none"
      BY <1>1, <1>2, <2>1 DEF SemTypes
    <3>4. Owed("parent")' = 0 /\ Owed("child")' = 0
      BY <3>3 DEF Owed
    <3>5. QED
      BY <1>1, <3>1, <3>2, <3>4 DEF SetThere
  <2>6. proc_at'["parent"] # "create" /\ there' \in BOOLEAN
    BY <1>1, <1>2, <2>1 DEF SemTypes
  <2>7. QED
    BY <2>2, <2>4, <2>5, <2>6 DEF SemInv
<1>4. CASE p = "parent" /\ (S!fork \/ S!ForkFails)
  <2>1. /\ proc_at["parent"] = "fork" /\ proc_at["child"] = "none"
        /\ UNCHANGED <<semval, there, semadj, unguarded>>
        /\ \/ proc_at' = [q \in S!Process |-> "P"]
           \/ proc_at' = [proc_at EXCEPT !["parent"] = "ended"]
    BY <1>2, <1>4 DEF S!fork, S!ForkFails, S!Goto, Places
  <2>2. SemTypes' /\ Places'
    BY <1>1, <1>2, <2>1 DEF SemTypes, Places, Before
  <2>3. unguarded = {}
    BY <1>1, <1>2, <2>1 DEF SemTypes, Places, Before
  <2>4. ~there' => NoSet'
    BY <1>1, <1>2, <2>1, <2>3 DEF NoSet, SemTypes
  <2>5. there' => SetThere'
    BY <1>1, <1>2, <2>1, <2>3 DEF SetThere, SemTypes, Owed
  <2>6. proc_at'["parent"] # "create" /\ there' \in BOOLEAN
    BY <1>1, <1>2, <2>1 DEF SemTypes
  <2>7. QED
    BY <2>2, <2>4, <2>5, <2>6 DEF SemInv
<1>5. CASE p = "parent" /\ S!Remove
  <2>1. /\ proc_at["parent"] = "wait" /\ proc_at["child"] = "ended"
        /\ proc_at' = [proc_at EXCEPT !["parent"] = "exit"]
        /\ there' = FALSE /\ semval' = 0 /\ semadj' = [q \in S!Process |-> 0]
        /\ unguarded' = unguarded
    BY <1>5 DEF S!Remove, S!Goto
  <2>2. SemTypes' /\ Places' /\ NoSet'
    BY <1>1, <1>2, <2>1 DEF SemTypes, Places, Before, NoSet
  <2>3. QED
    BY <2>1, <2>2 DEF SemInv
\* The other process is where it was.
<1>6. PICK q \in S!Process : q # p /\ S!Process = {p, q}
  BY <1>1
<1>7. CASE S!P(p)
  <2>1. /\ proc_at[p] = "P" /\ proc_at' = [proc_at EXCEPT ![p] = "critical"]
        /\ there /\ semval > 0 /\ semval' = semval - 1
        /\ semadj' = [semadj EXCEPT ![p] = @ + 1]
        /\ UNCHANGED <<there, unguarded>>
    BY <1>7 DEF S!P, S!Goto
  <2>2. p \notin unguarded /\ semadj[p] = 0 /\ semadj[q] = Owed(q)
    BY <1>1, <1>2, <2>1 DEF Places, Before, SetThere, Owed
  <2>3. SemTypes' /\ Places'
    BY <1>1, <1>2, <2>1 DEF SemTypes, Places, Before
  <2>4. semadj'[p] = 1 /\ semadj'[q] = semadj[q] /\ proc_at'[p] = "critical" /\ proc_at'[q] = proc_at[q]
    BY <1>2, <1>6, <2>1, <2>2 DEF SemTypes
  <2>5. SetThere'
    <3>1. semval' + semadj'["parent"] + semadj'["child"] = 1
      BY <1>1, <1>2, <1>6, <2>1, <2>2, <2>4 DEF SetThere, SemTypes
    <3>2. Owed(p)' = 1 /\ Owed(q)' = Owed(q)
      BY <2>1, <2>2, <2>4 DEF Owed
    <3>3. \A r \in S!Process : semadj'[r] = Owed(r)'
      BY <1>6, <2>2, <2>4, <3>2
    <3>4. QED
      BY <1>2, <1>6, <2>1, <2>2, <2>4, <3>1, <3>3 DEF SetThere, Before
  <2>6. QED
    BY <1>1, <1>2, <1>6, <2>1, <2>3, <2>4, <2>5 DEF SemInv, Places
<1>8. CASE S!PFails(p)
  <2>1. /\ proc_at[p] = "P" /\ proc_at' = [proc_at EXCEPT ![p] = "critical"]
        /\ ~there \/ semval = 0
        /\ unguarded' = unguarded \cup {p}
        /\ UNCHANGED <<semval, there, semadj>>
    BY <1>8 DEF S!PFails, S!Goto
  <2>2. SemTypes' /\ Places'
    BY <1>1, <1>2, <2>1 DEF SemTypes, Places, Before
  <2>3. proc_at'[p] = "critical" /\ proc_at'[q] = proc_at[q]
    BY <1>2, <1>6, <2>1 DEF SemTypes
  <2>4. ~there => NoSet'
    BY <1>2, <1>6, <2>1, <2>3 DEF NoSet
  <2>5. there => SetThere'
    <3> SUFFICES ASSUME there PROVE SetThere'
      OBVIOUS
    <3>1. semadj[p] = 0 /\ semval = 0
      BY <1>2, <2>1 DEF SetThere, Owed
    <3>2. semadj[q] = 1
      BY <1>1, <1>2, <1>6, <3>1 DEF SetThere, SemTypes
    <3>3. proc_at[q] = "critical" /\ q \notin unguarded
      BY <1>2, <3>2 DEF SetThere, Owed
    <3>4. semadj'[p] = Owed(p)' /\ semadj'[q] = Owed(q)'
      BY <1>6, <2>1, <2>3, <3>1, <3>2, <3>3 DEF Owed
    <3>5. QED
      BY <1>2, <1>6, <2>1, <2>3, <3>3, <3>4 DEF SetThere, Before
  <2>6. QED
    BY <1>1, <1>2, <1>6, <2>1, <2>2, <2>3, <2>4, <2>5 DEF SemInv, Places
<1>9. CASE S!V(p)
  <2>1. /\ proc_at[p] = "critical"
        /\ proc_at' = [proc_at EXCEPT ![p] = IF p = "parent" THEN "wait" ELSE "exit"]
        /\ UNCHANGED <<there, unguarded>>
        /\ there => semval' = semval + 1 /\ semadj' = [semadj EXCEPT ![p] = @ - 1]
        /\ ~there => UNCHANGED <<semval, semadj>>
    BY <1>9 DEF S!V, S!Goto
  <2>2. SemTypes' /\ Places'
    BY <1>1, <1>2, <2>1 DEF SemTypes, Places, Before
  <2>3. proc_at'[p] \in {"wait", "exit"} /\ proc_at'[q] = proc_at[q]
    BY <1>2, <1>6, <2>1 DEF SemTypes
  <2>4. ~there => NoSet'
    BY <1>2, <1>6, <2>1, <2>3 DEF NoSet
  <2>5. there => SetThere'
    <3> SUFFICES ASSUME there PROVE SetThere'
      OBVIOUS
    <3>1. semadj'[p] = semadj[p] - 1 /\ semadj'[q] = semadj[q]
      BY <1>2, <1>6, <2>1 DEF SemTypes
    <3>2. semval' + semadj'["parent"] + semadj'["child"] = 1
      BY <1>1, <1>2, <1>6, <2>1, <3>1 DEF SetThere, SemTypes
    <3>3. semadj'[p] = Owed(p)' /\ semadj'[q] = Owed(q)'
      BY <1>2, <2>1, <2>3, <3>1 DEF SetThere, Owed
    <3>4. QED
      BY <1>2, <1>6, <2>1, <2>3, <3>2, <3>3 DEF SetThere, Before
  <2>6. QED
    BY <1>1, <1>2, <1>6, <2>1, <2>2, <2>3, <2>4, <2>5 DEF SemInv, Places
<1>10. CASE S!Exit(p) \/ S!Kill(p)
  <2>1. /\ proc_at[p] \in {"exit", "P", "critical", "wait"}
        /\ proc_at' = [proc_at EXCEPT ![p] = "ended"]
        /\ semval' = IF semval + semadj[p] < 0 THEN 0 ELSE semval + semadj[p]
        /\ semadj' = [semadj EXCEPT ![p] = 0]
        /\ UNCHANGED <<there, unguarded>>
    BY <1>10 DEF S!Exit, S!Kill, S!End
  <2>2. semval' \in Nat
    BY <1>2, <2>1 DEF SemTypes
  <2>3. SemTypes' /\ Places'
    BY <1>1, <1>2, <2>1, <2>2 DEF SemTypes, Places, Before
  <2>4. /\ proc_at'[p] = "ended" /\ proc_at'[q] = proc_at[q]
        /\ semadj'[p] = 0 /\ semadj'[q] = semadj[q]
    BY <1>2, <1>6, <2>1 DEF SemTypes
  <2>5. ~there => NoSet'
    BY <1>2, <1>6, <2>1, <2>4 DEF NoSet
  <2>6. there => SetThere'
    <3> SUFFICES ASSUME there PROVE SetThere'
      OBVIOUS
    <3>1. semadj[q] = Owed(q) /\ semadj[q] <= 1 /\ semval + semadj[p] + semadj[q] = 1
      BY <1>1, <1>2, <1>6 DEF SetThere, SemTypes, Owed
    <3>2. semval' = semval + semadj[p]
      BY <1>2, <2>1, <3>1 DEF SemTypes
    <3>3. semval' + semadj'["parent"] + semadj'["child"] = 1
      BY <1>1, <1>2, <1>6, <2>4, <3>1, <3>2 DEF SemTypes
    <3>4. semadj'[p] = Owed(p)' /\ semadj'[q] = Owed(q)'
      BY <2>1, <2>4, <3>1 DEF Owed
    <3>5. QED
      BY <1>2, <1>6, <2>1, <2>4, <3>3, <3>4 DEF SetThere, Before
  <2>7. QED
    BY <1>1, <1>2, <1>6, <2>1, <2>3, <2>4, <2>5, <2>6 DEF SemInv, Places
<1>11. QED
  BY <1>3, <1>4, <1>5, <1>7, <1>8, <1>9, <1>10 DEF S!Step

-----------------------------------------------------------------------------
(***************************************************************************)
(* The two threads that may cross.  Where the threads are tells who holds  *)
(* the mutexes and what the variables have come to.                        *)
(***************************************************************************)
HoldsOwn(t)   == at[t] \in {"own", "counted", "both", "added", "last"}
HoldsOther(t) == at[t] \in {"both", "added"}
HasAdded(t)   == at[t] \in {"added", "last", "join", "end"}

DeadTypes ==
  /\ at \in [D!Thread -> {"start", "own", "counted", "both", "added", "last", "join", "end"}]
  /\ owner \in [{"a", "b"} -> D!Thread \cup {"none", "destroyed"}]
  /\ count \in [{"a", "b"} -> Nat]

Owners ==
  /\ \A t \in D!Thread : /\ owner[D!own(t)] = t <=> HoldsOwn(t)
                         /\ owner[D!other(t)] = t <=> HoldsOther(t)
  /\ \A m \in {"a", "b"} : owner[m] = "destroyed" => at["main"] = "end"
  /\ at["main"] = "end" => at["another"] = "end"
  /\ at["another"] # "join"

\* Before the first addition, between the two, and after them.
Counts ==
  \A t \in D!Thread :
    LET o == D!Other(t)
        own == D!own(t)
        other == D!own(o)
    IN
    /\ ~HasAdded(t) /\ ~HasAdded(o) => count[own] = IF at[t] \in {"start", "own"} THEN 0 ELSE 1
    /\ HasAdded(t) /\ ~HasAdded(o) =>
         count[own] = 1 /\ count[other] = IF at[o] \in {"start", "own"} THEN 1 ELSE 2
    /\ HasAdded(t) /\ HasAdded(o) =>
         (count[own] = 2 /\ count[other] = 3) \/ (count[own] = 3 /\ count[other] = 2)

DeadInv == DeadTypes /\ Owners /\ Counts

\* The names.
LEMMA TwoThreads ==
  /\ D!Thread = {"main", "another"}
  /\ \A t \in D!Thread :
       /\ D!Other(t) \in D!Thread /\ D!Other(t) # t /\ D!Other(D!Other(t)) = t
       /\ D!Thread = {t, D!Other(t)}
       /\ D!own(t) \in {"a", "b"} /\ D!other(t) = D!own(D!Other(t))
       /\ D!own(t) # D!own(D!Other(t))
       /\ {"a", "b"} = {D!own(t), D!own(D!Other(t))}
BY DEF D!Thread, D!Other, D!own, D!other

LEMMA DeadInit == D!Init => DeadInv
<1> SUFFICES ASSUME D!Init PROVE DeadInv
  OBVIOUS
<1>1. DeadTypes
  BY DEF D!Init, DeadTypes
<1>2. \A t \in D!Thread : at[t] = "start"
  BY DEF D!Init
<1>3. Owners
  BY <1>2, TwoThreads DEF D!Init, Owners, HoldsOwn, HoldsOther
<1>4. Counts
  BY <1>2, TwoThreads DEF D!Init, Counts, HasAdded
<1>5. QED
  BY <1>1, <1>3, <1>4 DEF DeadInv

LEMMA DeadUnchanged == DeadInv /\ UNCHANGED deadLockVars => DeadInv'
BY DEF DeadInv, DeadTypes, Owners, Counts, HoldsOwn, HoldsOther, HasAdded, deadLockVars

(***************************************************************************)
(* A thread's step, the other staying where it is: what remains to be      *)
(* shown, in the names of the two threads and their mutexes.               *)
(***************************************************************************)
LEMMA DeadThreadStep ==
  ASSUME DeadInv, NEW t \in D!Thread, NEW o, o = D!Other(t),
         D!LockOwn(t) \/ D!Count(t) \/ D!LockOther(t) \/ D!Add(t) \/ D!UnlockOther(t) \/ D!UnlockOwn(t)
  PROVE  DeadInv'
<1> DEFINE mt == D!own(t)
           mo == D!own(o)
<1>1. /\ o \in D!Thread /\ o # t /\ D!Thread = {t, o} /\ D!Other(o) = t
      /\ mt \in {"a", "b"} /\ mo \in {"a", "b"} /\ mt # mo /\ {"a", "b"} = {mt, mo}
      /\ D!other(t) = mo /\ D!other(o) = mt
  BY TwoThreads
<1>2. /\ t \in {"main", "another"} /\ o \in {"main", "another"}
      /\ t \notin {"none", "destroyed"} /\ o \notin {"none", "destroyed"}
  BY <1>1, TwoThreads
<1> HIDE DEF mt, mo
<1>3. /\ at \in [D!Thread -> {"start", "own", "counted", "both", "added", "last", "join", "end"}]
      /\ owner \in [{"a", "b"} -> D!Thread \cup {"none", "destroyed"}]
      /\ count \in [{"a", "b"} -> Nat]
  BY DEF DeadInv, DeadTypes
<1>4. /\ owner[mt] = t <=> HoldsOwn(t)
      /\ owner[mo] = t <=> HoldsOther(t)
      /\ owner[mo] = o <=> HoldsOwn(o)
      /\ owner[mt] = o <=> HoldsOther(o)
      /\ owner[mt] = "destroyed" \/ owner[mo] = "destroyed" => at["main"] = "end"
      /\ at["main"] = "end" => at["another"] = "end"
      /\ at["another"] # "join"
  BY <1>1 DEF DeadInv, Owners, mt, mo
<1>5. /\ ~HasAdded(t) /\ ~HasAdded(o) =>
           /\ count[mt] = IF at[t] \in {"start", "own"} THEN 0 ELSE 1
           /\ count[mo] = IF at[o] \in {"start", "own"} THEN 0 ELSE 1
      /\ HasAdded(t) /\ ~HasAdded(o) =>
           count[mt] = 1 /\ count[mo] = IF at[o] \in {"start", "own"} THEN 1 ELSE 2
      /\ HasAdded(o) /\ ~HasAdded(t) =>
           count[mo] = 1 /\ count[mt] = IF at[t] \in {"start", "own"} THEN 1 ELSE 2
      /\ HasAdded(t) /\ HasAdded(o) =>
           (count[mt] = 2 /\ count[mo] = 3) \/ (count[mt] = 3 /\ count[mo] = 2)
  BY <1>1 DEF DeadInv, Counts, mt, mo
\* What the next state must satisfy.
<1>6. ASSUME /\ owner' \in [{"a", "b"} -> D!Thread \cup {"none", "destroyed"}]
             /\ owner'[mt] = t <=> HoldsOwn(t)'
             /\ owner'[mo] = t <=> HoldsOther(t)'
             /\ owner'[mo] = o <=> HoldsOwn(o)
             /\ owner'[mt] = o <=> HoldsOther(o)
             /\ owner'[mt] # "destroyed" /\ owner'[mo] # "destroyed",
             NEW to \in {"own", "counted", "both", "added", "last", "join", "end"},
             at' = [at EXCEPT ![t] = to], t = "main" => to # "end", t = "another" => to # "join",
             count' \in [{"a", "b"} -> Nat],
             /\ ~HasAdded(t)' /\ ~HasAdded(o) =>
                  /\ count'[mt] = IF to \in {"start", "own"} THEN 0 ELSE 1
                  /\ count'[mo] = IF at[o] \in {"start", "own"} THEN 0 ELSE 1
             /\ HasAdded(t)' /\ ~HasAdded(o) =>
                  count'[mt] = 1 /\ count'[mo] = IF at[o] \in {"start", "own"} THEN 1 ELSE 2
             /\ HasAdded(o) /\ ~HasAdded(t)' =>
                  count'[mo] = 1 /\ count'[mt] = IF to \in {"start", "own"} THEN 1 ELSE 2
             /\ HasAdded(t)' /\ HasAdded(o) =>
                  (count'[mt] = 2 /\ count'[mo] = 3) \/ (count'[mt] = 3 /\ count'[mo] = 2),
             at["main"] # "end"
      PROVE  DeadInv'
  <2>1. at'[t] = to /\ at'[o] = at[o]
    BY <1>1, <1>3, <1>6
  <2>2. HoldsOwn(o)' = HoldsOwn(o) /\ HoldsOther(o)' = HoldsOther(o) /\ HasAdded(o)' = HasAdded(o)
    BY <2>1 DEF HoldsOwn, HoldsOther, HasAdded
  <2>3. DeadTypes'
    BY <1>1, <1>3, <1>6 DEF DeadTypes
  <2>4. at'["main"] # "end" /\ at'["another"] # "join"
    BY <1>1, <1>2, <1>4, <1>6, <2>1
  <2>5. Owners'
    BY <1>1, <1>6, <2>2, <2>4 DEF Owners, mt, mo
  <2>6. Counts'
    BY <1>1, <1>6, <2>1, <2>2 DEF Counts, mt, mo
  <2>7. QED
    BY <2>3, <2>5, <2>6 DEF DeadInv
\* A thread that has not ended: nothing is destroyed.
<1>7. at[t] \notin {"join", "end"} =>
        at["main"] # "end" /\ owner[mt] # "destroyed" /\ owner[mo] # "destroyed"
  BY <1>1, <1>2, <1>4
<1>8. CASE D!LockOwn(t)
  <2>1. /\ at[t] = "start" /\ at' = [at EXCEPT ![t] = "own"] /\ owner[mt] = "none"
        /\ owner' = [owner EXCEPT ![mt] = t] /\ count' = count
    BY <1>8 DEF D!LockOwn, D!Goto, D!lock, mt
  <2>2. owner'[mt] = t /\ owner'[mo] = owner[mo] /\ at'[t] = "own"
    BY <1>1, <1>3, <2>1
  <2>3. owner' \in [{"a", "b"} -> D!Thread \cup {"none", "destroyed"}]
    BY <1>1, <1>3, <2>1
  <2>4. /\ owner'[mt] = t <=> HoldsOwn(t)'
        /\ owner'[mo] = t <=> HoldsOther(t)'
        /\ owner'[mo] = o <=> HoldsOwn(o)
        /\ owner'[mt] = o <=> HoldsOther(o)
        /\ owner'[mt] # "destroyed" /\ owner'[mo] # "destroyed"
    BY <1>1, <1>2, <1>4, <1>7, <2>1, <2>2 DEF HoldsOwn, HoldsOther
  <2>5. ~HasAdded(t)' /\ ~HasAdded(t)
    BY <2>1, <2>2 DEF HasAdded
  <2>6. QED
    BY <1>3, <1>5, <1>6, <1>7, <2>1, <2>3, <2>4, <2>5
<1>9. CASE D!Count(t)
  <2>1. /\ at[t] = "own" /\ at' = [at EXCEPT ![t] = "counted"] /\ owner' = owner
        /\ count' = [count EXCEPT ![mt] = @ + 1]
    BY <1>9 DEF D!Count, D!Goto, mt
  <2>2. at'[t] = "counted" /\ count'[mt] = count[mt] + 1 /\ count'[mo] = count[mo]
        /\ count' \in [{"a", "b"} -> Nat]
    BY <1>1, <1>3, <2>1
  <2>3. HoldsOwn(t)' /\ HoldsOwn(t) /\ ~HoldsOther(t)' /\ ~HoldsOther(t)
    BY <2>1, <2>2 DEF HoldsOwn, HoldsOther
  <2>4. ~HasAdded(t)' /\ ~HasAdded(t)
    BY <2>1, <2>2 DEF HasAdded
  <2>5. QED
    BY <1>3, <1>4, <1>5, <1>6, <1>7, <2>1, <2>2, <2>3, <2>4
<1>10. CASE D!LockOther(t)
  <2>1. /\ at[t] = "counted" /\ at' = [at EXCEPT ![t] = "both"] /\ owner[mo] = "none"
        /\ owner' = [owner EXCEPT ![mo] = t] /\ count' = count
    BY <1>1, <1>10 DEF D!LockOther, D!Goto, D!lock
  <2>2. owner'[mo] = t /\ owner'[mt] = owner[mt] /\ at'[t] = "both"
    BY <1>1, <1>3, <2>1
  <2>3. owner' \in [{"a", "b"} -> D!Thread \cup {"none", "destroyed"}]
    BY <1>1, <1>3, <2>1
  <2>4. /\ owner'[mt] = t <=> HoldsOwn(t)'
        /\ owner'[mo] = t <=> HoldsOther(t)'
        /\ owner'[mo] = o <=> HoldsOwn(o)
        /\ owner'[mt] = o <=> HoldsOther(o)
        /\ owner'[mt] # "destroyed" /\ owner'[mo] # "destroyed"
    BY <1>1, <1>2, <1>4, <1>7, <2>1, <2>2 DEF HoldsOwn, HoldsOther
  <2>5. ~HasAdded(t)' /\ ~HasAdded(t)
    BY <2>1, <2>2 DEF HasAdded
  <2>6. QED
    BY <1>3, <1>5, <1>6, <1>7, <2>1, <2>3, <2>4, <2>5
<1>11. CASE D!Add(t)
  <2>1. /\ at[t] = "both" /\ at' = [at EXCEPT ![t] = "added"] /\ owner' = owner
        /\ count' = [count EXCEPT ![mt] = @ + count[mo], ![mo] = @ + 1]
    BY <1>1, <1>11 DEF D!Add, D!Goto, mt
  <2>2. at'[t] = "added" /\ count'[mt] = count[mt] + count[mo] /\ count'[mo] = count[mo] + 1
        /\ count' \in [{"a", "b"} -> Nat]
    BY <1>1, <1>3, <2>1
  <2>3. HoldsOwn(t)' /\ HoldsOwn(t) /\ HoldsOther(t)' /\ HoldsOther(t) /\ HasAdded(t)' /\ ~HasAdded(t)
    BY <2>1, <2>2 DEF HoldsOwn, HoldsOther, HasAdded
  <2>4. owner[mo] = t /\ ~HoldsOwn(o)
    BY <1>1, <1>4, <2>3
  <2>5. ~HasAdded(o) => at[o] = "start"
    BY <1>1, <1>3, <2>4 DEF HoldsOwn, HasAdded
  <2>6. QED
    BY <1>3, <1>4, <1>5, <1>6, <1>7, <2>1, <2>2, <2>3, <2>5
<1>12. CASE D!UnlockOther(t)
  <2>1. /\ at[t] = "added" /\ at' = [at EXCEPT ![t] = "last"]
        /\ owner' = [owner EXCEPT ![mo] = "none"] /\ count' = count
    BY <1>1, <1>12 DEF D!UnlockOther, D!Goto, D!unlock
  <2>2. owner'[mo] = "none" /\ owner'[mt] = owner[mt] /\ at'[t] = "last"
    BY <1>1, <1>3, <2>1
  <2>3. owner' \in [{"a", "b"} -> D!Thread \cup {"none", "destroyed"}]
    BY <1>1, <1>3, <2>1
  <2>4. /\ owner'[mt] = t <=> HoldsOwn(t)'
        /\ owner'[mo] = t <=> HoldsOther(t)'
        /\ owner'[mo] = o <=> HoldsOwn(o)
        /\ owner'[mt] = o <=> HoldsOther(o)
        /\ owner'[mt] # "destroyed" /\ owner'[mo] # "destroyed"
    BY <1>1, <1>2, <1>4, <1>7, <2>1, <2>2 DEF HoldsOwn, HoldsOther
  <2>5. HasAdded(t)' /\ HasAdded(t)
    BY <2>1, <2>2 DEF HasAdded
  <2>6. QED
    BY <1>3, <1>5, <1>6, <1>7, <2>1, <2>3, <2>4, <2>5
<1>13. CASE D!UnlockOwn(t)
  <2>1. PICK to \in {"join", "end"} : to = IF t = "main" THEN "join" ELSE "end"
    OBVIOUS
  <2>2. /\ at[t] = "last" /\ at' = [at EXCEPT ![t] = to]
        /\ owner' = [owner EXCEPT ![mt] = "none"] /\ count' = count
    BY <1>13, <2>1 DEF D!UnlockOwn, D!Goto, D!unlock, mt
  <2>3. owner'[mt] = "none" /\ owner'[mo] = owner[mo] /\ at'[t] = to
    BY <1>1, <1>3, <2>2
  <2>4. owner' \in [{"a", "b"} -> D!Thread \cup {"none", "destroyed"}]
    BY <1>1, <1>3, <2>2
  <2>5. /\ owner'[mt] = t <=> HoldsOwn(t)'
        /\ owner'[mo] = t <=> HoldsOther(t)'
        /\ owner'[mo] = o <=> HoldsOwn(o)
        /\ owner'[mt] = o <=> HoldsOther(o)
        /\ owner'[mt] # "destroyed" /\ owner'[mo] # "destroyed"
    BY <1>1, <1>2, <1>4, <1>7, <2>1, <2>2, <2>3 DEF HoldsOwn, HoldsOther
  <2>6. HasAdded(t)' /\ HasAdded(t)
    BY <2>1, <2>2, <2>3 DEF HasAdded
  <2>7. QED
    BY <1>2, <1>3, <1>5, <1>6, <1>7, <2>1, <2>2, <2>4, <2>5, <2>6
<1>14. QED
  BY <1>8, <1>9, <1>10, <1>11, <1>12, <1>13

LEMMA DeadStep == DeadInv /\ D!Next => DeadInv'
<1> SUFFICES ASSUME DeadInv, D!Next PROVE DeadInv'
  OBVIOUS
<1>1. ASSUME NEW t \in D!Thread,
             D!LockOwn(t) \/ D!Count(t) \/ D!LockOther(t) \/ D!Add(t) \/ D!UnlockOther(t) \/ D!UnlockOwn(t)
      PROVE  DeadInv'
  BY <1>1, DeadThreadStep
<1>2. CASE D!Join
  <2>1. /\ at["another"] = "end" /\ at["main"] = "join" /\ at' = [at EXCEPT !["main"] = "end"]
        /\ owner' = [m \in {"a", "b"} |-> "destroyed"] /\ count' = count
    BY <1>2 DEF D!Join, D!Goto
  <2>2. at'["main"] = "end" /\ at'["another"] = "end" /\ DeadTypes'
    BY <2>1, TwoThreads DEF DeadInv, DeadTypes
  <2>3. \A t \in D!Thread : /\ ~HoldsOwn(t)' /\ ~HoldsOther(t)' /\ HasAdded(t)' /\ HasAdded(t)
                            /\ t # "destroyed"
    BY <2>1, <2>2, TwoThreads DEF HoldsOwn, HoldsOther, HasAdded
  <2>4. Owners'
    BY <2>1, <2>2, <2>3, TwoThreads DEF Owners
  <2>5. Counts'
    BY <2>1, <2>3, TwoThreads DEF DeadInv, Counts
  <2>6. QED
    BY <2>2, <2>4, <2>5 DEF DeadInv
<1>3. QED
  BY <1>1, <1>2 DEF D!Next

LEMMA DeadTypeOK == DeadInv => D!TypeOK
<1> SUFFICES ASSUME DeadInv PROVE D!TypeOK
  OBVIOUS
<1>1. \A t \in D!Thread : count[D!own(t)] \in 0 .. 3
  <2> SUFFICES ASSUME NEW t \in D!Thread PROVE count[D!own(t)] \in 0 .. 3
    OBVIOUS
  <2>1. PICK o \in D!Thread : o = D!Other(t) /\ D!Other(o) = t
    BY TwoThreads
  <2>2. /\ ~HasAdded(t) /\ ~HasAdded(o) => count[D!own(t)] \in {0, 1}
        /\ HasAdded(t) /\ ~HasAdded(o) => count[D!own(t)] = 1
        /\ HasAdded(t) /\ HasAdded(o) => count[D!own(t)] \in {2, 3}
        /\ HasAdded(o) /\ ~HasAdded(t) => count[D!own(t)] \in {1, 2}
    BY <2>1 DEF DeadInv, Counts
  <2>3. QED
    BY <2>2
<1>2. \A m \in {"a", "b"} : count[m] \in 0 .. 3
  BY <1>1, TwoThreads
<1>3. QED
  BY <1>2 DEF DeadInv, DeadTypes, D!TypeOK

LEMMA DeadFollows == DeadInv => D!EndsSeriallyOrCrossed
<1> SUFFICES ASSUME DeadInv, \A t \in D!Thread : ~D!CanMove(t)
             PROVE  \/ D!Finished /\ <<count["a"], count["b"]>> \in {<<2, 3>>, <<3, 2>>}
                    \/ D!Crossed
  BY DEF D!EndsSeriallyOrCrossed
<1>1. \A t \in D!Thread : at[t] \in {"start", "counted", "join", "end"}
  BY DEF DeadInv, DeadTypes, D!CanMove
<1>2. \A t \in D!Thread : ~HoldsOther(t) /\ (HoldsOwn(t) <=> at[t] = "counted")
  BY <1>1 DEF HoldsOther, HoldsOwn
<1>3. /\ owner["a"] \in {"main", "another", "none", "destroyed"}
      /\ owner["b"] \in {"main", "another", "none", "destroyed"}
      /\ owner["a"] # "another" /\ owner["b"] # "main"
      /\ owner["a"] = "main" <=> at["main"] = "counted"
      /\ owner["b"] = "another" <=> at["another"] = "counted"
  <2>1. D!own("main") = "a" /\ D!own("another") = "b" /\ D!other("main") = "b" /\ D!other("another") = "a"
    BY DEF D!own, D!other, D!Other
  <2>2. QED
    BY <1>2, <2>1, TwoThreads DEF DeadInv, DeadTypes, Owners
<1>4. /\ owner["a"] = "destroyed" \/ owner["b"] = "destroyed" => at["main"] = "end"
      /\ at["main"] = "end" => at["another"] = "end"
      /\ at["another"] # "join"
  BY DEF DeadInv, Owners
<1>5. \A t \in D!Thread : at[t] # "start"
  BY <1>3, <1>4, TwoThreads DEF D!CanMove, D!own
<1>6. CASE \E t \in D!Thread : at[t] = "counted"
  <2>1. at["main"] = "counted" /\ at["another"] = "counted"
    BY <1>1, <1>3, <1>4, <1>6, TwoThreads DEF D!CanMove, D!own, D!other, D!Other
  <2>2. QED
    BY <1>3, <2>1, TwoThreads DEF D!Crossed, D!own
<1>7. CASE \A t \in D!Thread : at[t] # "counted"
  <2>1. at["main"] = "end" /\ at["another"] = "end"
    BY <1>1, <1>4, <1>5, <1>7, TwoThreads DEF D!CanMove
  <2>2. HasAdded("main") /\ HasAdded("another")
    BY <2>1 DEF HasAdded
  <2>3. (count["a"] = 2 /\ count["b"] = 3) \/ (count["a"] = 3 /\ count["b"] = 2)
    BY <2>2, TwoThreads DEF DeadInv, Counts, D!own, D!Other
  <2>4. QED
    BY <2>1, <2>3, TwoThreads DEF D!Finished
<1>8. QED
  BY <1>6, <1>7

-----------------------------------------------------------------------------
(***************************************************************************)
(* The parser.  What has not been looked at has not been overwritten, and  *)
(* parse_line never stops behind a CR, so a line end is seen as a whole    *)
(* even if CR and LF arrive apart.                                         *)
(***************************************************************************)
ParserInv ==
  /\ TypeOK
  /\ \A i \in checked_index .. Len(text) - 1 : At(buffer, i) = At(text, i)
  /\ checked_index > 0 => text[checked_index] # "CR" /\ buffer[checked_index] # "CR"
  /\ LinesOfText

LEMMA LeastOf ==
  ASSUME NEW T \in SUBSET Nat, T # {}
  PROVE  Least(T) \in T /\ \A j \in T : Least(T) <= j
<1> DEFINE Less == OpToRel(<, Nat)
<1>1. IsWellFoundedOn(Less, Nat)
  BY NatLessThanWellFounded
<1> HIDE DEF Less
<1>2. PICK m \in T : \A k \in T : ~ (<<k, m>> \in Less)
  BY <1>1, WFMin
<1>3. \A k \in T : k < m => <<k, m>> \in Less
  BY DEF Less, OpToRel
<1>4. \A k \in T : ~ (k < m)
  BY <1>2, <1>3
<1>5. \A k \in T : m <= k
  BY <1>4
<1>6. QED
  BY <1>5 DEF Least

\* Nothing in t from k up to i starts or ends a line.
Plain(t, k, i) == \A j \in k .. i - 1 : At(t, j) \notin {"CR", "LF"}

(***************************************************************************)
(* What parse_line finds in a text looked at up to k, by where it stops.   *)
(***************************************************************************)
\* Behind plain text there is no line end but one that starts at i, and no
\* fault before i.
LEMMA PlainText ==
  ASSUME NEW t \in Seq(Symbol), NEW k \in 0 .. Len(t), NEW i \in k .. Len(t), Plain(t, k, i),
         k > 0 => t[k] # "CR",
         \A f \in Faults(t) : f >= k
  PROVE  /\ {e \in LineEnds(t) : e <= i} = {e \in LineEnds(t) : e <= k}
         /\ \A e \in LineEnds(t) : e <= k \/ e >= i + 2
         /\ \A f \in Faults(t) : f >= i
         /\ i > 0 => t[i] # "CR"
<1>0. Len(t) \in Nat /\ k \in Nat /\ i \in Nat /\ k <= i /\ i <= Len(t)
  OBVIOUS
<1>1. i > 0 => t[i] # "CR"
  <2>1. CASE i = k
    BY <2>1
  <2>2. CASE i # k
    <3>1. i - 1 \in k .. i - 1 /\ (i - 1) + 1 = i
      BY <1>0, <2>2
    <3>2. QED
      BY <3>1 DEF Plain, At
  <2>3. QED
    BY <2>1, <2>2
<1>2. ASSUME NEW e \in LineEnds(t), e > k
      PROVE  e >= i + 2
  <2>1. PICK j \in 0 .. Len(t) - 2 : e = j + 2 /\ t[j + 1] = "CR" /\ t[j + 2] = "LF"
    BY DEF LineEnds, At
  <2>2. CASE j >= i
    BY <1>0, <2>1, <2>2
  <2>3. CASE j < i /\ j + 1 < i /\ j + 1 >= k
    <3>1. j + 1 \in k .. i - 1 /\ (j + 1) + 1 = j + 2
      BY <1>0, <2>1, <2>3
    <3>2. t[j + 2] \notin {"CR", "LF"}
      BY <3>1 DEF Plain, At
    <3>3. QED
      BY <2>1, <3>2
  <2>4. CASE j + 1 = i
    BY <1>0, <1>1, <2>1, <2>4
  <2>5. QED
    BY <1>0, <1>2, <2>1, <2>2, <2>3, <2>4
<1>3. ASSUME NEW f \in Faults(t)
      PROVE  f >= i
  <2>1. f >= k /\ f \in 0 .. Len(t) - 1 /\ t[f + 1] \in {"CR", "LF"}
    BY DEF Faults, At
  <2>2. ~ (f \in k .. i - 1)
    BY <2>1 DEF Plain, At
  <2>3. QED
    BY <1>0, <2>1, <2>2
<1>4. \A e \in LineEnds(t) : e \in Nat
  BY DEF LineEnds
<1>5. QED
  BY <1>0, <1>1, <1>2, <1>3, <1>4

\* The definitions in the text's own indices.
LEMMA EndsAndFaults ==
  ASSUME NEW t \in Seq(Symbol)
  PROVE  /\ \A e : e \in LineEnds(t) <=>
                     \E j \in 0 .. Len(t) - 2 : e = j + 2 /\ t[j + 1] = "CR" /\ t[j + 2] = "LF"
         /\ \A f : f \in Faults(t) <=>
                     /\ f \in 0 .. Len(t) - 1
                     /\ \/ t[f + 1] = "CR" /\ f + 1 < Len(t) /\ t[f + 2] # "LF"
                        \/ t[f + 1] = "LF" /\ (f = 0 \/ t[f] # "CR")
<1>1. ASSUME NEW e \in LineEnds(t)
      PROVE  \E j \in 0 .. Len(t) - 2 : e = j + 2 /\ t[j + 1] = "CR" /\ t[j + 2] = "LF"
  <2>1. PICK j \in {i \in 0 .. Len(t) - 2 : At(t, i) = "CR" /\ At(t, i + 1) = "LF"} : e = j + 2
    BY DEF LineEnds
  <2>2. j \in 0 .. Len(t) - 2 /\ t[j + 1] = "CR" /\ t[(j + 1) + 1] = "LF"
    BY DEF At
  <2>3. (j + 1) + 1 = j + 2
    BY <2>2
  <2>4. QED
    BY <2>1, <2>2, <2>3
<1>2. ASSUME NEW j \in 0 .. Len(t) - 2, t[j + 1] = "CR", t[j + 2] = "LF"
      PROVE  j + 2 \in LineEnds(t)
  <2>1. t[(j + 1) + 1] = "LF"
    BY <1>2
  <2>2. QED
    BY <1>2, <2>1 DEF LineEnds, At
<1>3. \A f \in Faults(t) : f \in 0 .. Len(t) - 1
  BY DEF Faults
<1>4. ASSUME NEW f \in 0 .. Len(t) - 1
      PROVE  f \in Faults(t) <=> \/ t[f + 1] = "CR" /\ f + 1 < Len(t) /\ t[f + 2] # "LF"
                                 \/ t[f + 1] = "LF" /\ (f = 0 \/ t[f] # "CR")
  <2>1. t[(f + 1) + 1] = t[f + 2] /\ t[(f - 1) + 1] = t[f]
    <3>1. (f + 1) + 1 = f + 2 /\ (f - 1) + 1 = f
      OBVIOUS
    <3>2. QED
      BY <3>1
  <2>2. f \in Faults(t) <=> \/ t[f + 1] = "CR" /\ f + 1 < Len(t) /\ t[(f + 1) + 1] # "LF"
                            \/ t[f + 1] = "LF" /\ (f = 0 \/ t[(f - 1) + 1] # "CR")
    BY DEF Faults, At
  <2>3. QED
    BY <2>1, <2>2
<1>5. \A e : e \in LineEnds(t) <=>
               \E j \in 0 .. Len(t) - 2 : e = j + 2 /\ t[j + 1] = "CR" /\ t[j + 2] = "LF"
  BY <1>1, <1>2
<1>6. \A f : f \in Faults(t) <=>
               /\ f \in 0 .. Len(t) - 1
               /\ \/ t[f + 1] = "CR" /\ f + 1 < Len(t) /\ t[f + 2] # "LF"
                  \/ t[f + 1] = "LF" /\ (f = 0 \/ t[f] # "CR")
  BY <1>3, <1>4
<1>7. QED
  BY <1>5, <1>6

\* What was a line end or a fault of the text looked at stays one, and no other
\* is added, when text arrives.
LEMMA MoreText ==
  ASSUME NEW t \in Seq(Symbol), NEW u \in Seq(Symbol), NEW k \in 0 .. Len(t),
         k > 0 => t[k] # "CR",
         \A f \in Faults(t) : f >= k
  PROVE  /\ {e \in LineEnds(t \o u) : e <= k} = {e \in LineEnds(t) : e <= k}
         /\ \A f \in Faults(t \o u) : f >= k
         /\ k \in Faults(t) => k \in Faults(t \o u)
<1> DEFINE t2 == t \o u
<1>1. /\ t2 \in Seq(Symbol) /\ Len(t2) = Len(t) + Len(u)
      /\ \A i \in 1 .. Len(t) : t2[i] = t[i]
  OBVIOUS
<1>2. Len(t) \in Nat /\ Len(u) \in Nat /\ Len(t2) \in Nat
  BY <1>1
<1> HIDE DEF t2
<1>3. ASSUME NEW e \in LineEnds(t2), e <= k
      PROVE  e \in LineEnds(t)
  <2>1. PICK j \in 0 .. Len(t2) - 2 : e = j + 2 /\ t2[j + 1] = "CR" /\ t2[j + 2] = "LF"
    BY <1>1, EndsAndFaults
  <2>2. j + 1 \in 1 .. Len(t) /\ j + 2 \in 1 .. Len(t) /\ j \in 0 .. Len(t) - 2
    BY <1>2, <1>3, <2>1
  <2>3. t[j + 1] = "CR" /\ t[(j + 1) + 1] = "LF" /\ (j + 1) + 1 = j + 2
    BY <1>1, <2>1, <2>2
  <2>4. QED
    BY <2>1, <2>2, <2>3 DEF LineEnds, At
<1>4. ASSUME NEW e \in LineEnds(t)
      PROVE  e \in LineEnds(t2)
  <2>1. PICK j \in 0 .. Len(t) - 2 : e = j + 2 /\ t[j + 1] = "CR" /\ t[j + 2] = "LF"
    BY DEF LineEnds, At
  <2>2. j + 1 \in 1 .. Len(t) /\ j + 2 \in 1 .. Len(t) /\ j \in 0 .. Len(t2) - 2
    BY <1>1, <1>2, <2>1
  <2>3. t2[j + 1] = "CR" /\ t2[(j + 1) + 1] = "LF" /\ (j + 1) + 1 = j + 2
    BY <1>1, <2>1, <2>2
  <2>4. QED
    BY <2>1, <2>2, <2>3 DEF LineEnds, At
<1>5. ASSUME NEW f \in Faults(t2)
      PROVE  f >= k
  <2> SUFFICES ASSUME f < k PROVE FALSE
    BY <1>2 DEF Faults
  <2>1. f \in Nat /\ f + 1 \in 1 .. Len(t) /\ f \in 0 .. Len(t) - 1
    BY <1>2 DEF Faults
  <2>2. t[f + 1] = t2[f + 1] /\ (f # 0 => t[f] = t2[f] /\ f - 1 + 1 = f)
    BY <1>1, <1>2, <2>1
  <2>3. CASE t2[f + 1] = "CR"
    <3>1. f + 1 # k
      BY <2>1, <2>2, <2>3
    <3>2. f + 1 < Len(t) /\ f + 2 \in 1 .. Len(t) /\ f + 1 + 1 = f + 2
      BY <1>2, <2>1, <3>1
    <3>3. t[f + 2] = t2[f + 2] /\ t2[f + 2] # "LF"
      BY <1>1, <2>3, <3>2 DEF Faults, At
    <3>4. f \in Faults(t)
      BY <2>1, <2>2, <2>3, <3>2, <3>3 DEF Faults, At
    <3>5. QED
      BY <1>2, <2>1, <3>4
  <2>4. CASE t2[f + 1] # "CR"
    <3>1. t2[f + 1] = "LF" /\ (f = 0 \/ t2[f] # "CR")
      BY <2>2, <2>4 DEF Faults, At
    <3>2. f \in Faults(t)
      BY <2>1, <2>2, <3>1 DEF Faults, At
    <3>3. QED
      BY <1>2, <2>1, <3>2
  <2>5. QED
    BY <2>3, <2>4
<1>6. ASSUME k \in Faults(t)
      PROVE  k \in Faults(t2)
  <2>1. k \in 0 .. Len(t) - 1 /\ k + 1 \in 1 .. Len(t) /\ k \in 0 .. Len(t2) - 1
    BY <1>1, <1>2, <1>6 DEF Faults
  <2>2. t[k + 1] = t2[k + 1] /\ (k # 0 => t[k] = t2[k] /\ k - 1 + 1 = k)
    BY <1>1, <1>2, <2>1
  <2>3. CASE t[k + 1] = "CR"
    <3>1. k + 1 < Len(t) /\ t[k + 1 + 1] # "LF" /\ k + 1 + 1 \in 1 .. Len(t) /\ k + 1 < Len(t2)
      BY <1>1, <1>2, <1>6, <2>1, <2>3 DEF Faults, At
    <3>2. t2[k + 1 + 1] # "LF"
      BY <1>1, <3>1
    <3>3. QED
      BY <2>1, <2>2, <2>3, <3>1, <3>2 DEF Faults, At
  <2>4. CASE t[k + 1] # "CR"
    <3>1. t[k + 1] = "LF" /\ (k = 0 \/ t[k] # "CR")
      BY <1>6, <2>2, <2>4 DEF Faults, At
    <3>2. QED
      BY <2>1, <2>2, <3>1 DEF Faults, At
  <2>5. QED
    BY <2>3, <2>4
<1>7. QED
  BY <1>3, <1>4, <1>5, <1>6 DEF t2

LEMMA ParserInit == Init => ParserInv
<1> SUFFICES ASSUME Init PROVE ParserInv
  OBVIOUS
<1>1. /\ input \in Seq(Symbol) /\ text = <<>> /\ buffer = <<>> /\ checked_index = 0 /\ ends = {}
      /\ status = "LINE_OPEN" /\ checkstate = "CHECK_STATE_REQUESTLINE" /\ ret = "" /\ caller = "read"
  BY HttpParserAssumption DEF Init
<1>0. checked_index = 0 /\ ends = {}
  BY DEF Init
<1>2. Len(text) = 0 /\ Len(buffer) = 0 /\ text \in Seq(Symbol) /\ buffer \in Seq(Symbol \cup {"NUL"})
  <2>1. \A V : <<>> \in Seq(V)
    OBVIOUS
  <2>2. Len(<<>>) = 0
    OBVIOUS
  <2>3. QED
    BY <1>1, <2>1, <2>2
<1>3. TypeOK
  <2>1. checked_index \in 0 .. Len(buffer) /\ Len(buffer) = Len(text) /\ ends \subseteq Nat
    BY <1>0, <1>2
  <2>2. /\ status \in {"LINE_OK", "LINE_BAD", "LINE_OPEN"}
        /\ checkstate \in {"CHECK_STATE_REQUESTLINE", "CHECK_STATE_HEADER"}
        /\ ret \in {"", "NO_REQUEST", "BAD_REQUEST"}
        /\ caller \in {"read", "parse", "done"}
    BY <1>1
  <2>3. QED
    BY <1>1, <1>2, <2>1, <2>2 DEF TypeOK
<1>4. LineEnds(text) = {} /\ Faults(text) = {}
  <2>1. 0 .. Len(text) - 2 = {} /\ 0 .. Len(text) - 1 = {} /\ Len(text) \in Nat
    BY <1>2
  <2>2. QED
    BY <1>2, <2>1, EndsAndFaults
<1>5. LinesOfText
  BY <1>1, <1>4 DEF LinesOfText
<1>6. checked_index .. Len(text) - 1 = {} /\ ~(checked_index > 0)
  BY <1>0, <1>2
<1>7. QED
  BY <1>3, <1>5, <1>6 DEF ParserInv

LEMMA ParserUnchanged == ParserInv /\ UNCHANGED vars => ParserInv'
BY DEF ParserInv, TypeOK, LinesOfText, vars

LEMMA ReadKeeps ==
  ASSUME ParserInv, NEW n \in 1 .. Len(input), Read(n)
  PROVE  ParserInv'
<1>1. /\ input \in Seq(Symbol) /\ text \in Seq(Symbol)
      /\ buffer \in Seq(Symbol \cup {"NUL"}) /\ Len(buffer) = Len(text)
      /\ checked_index \in 0 .. Len(text)
  BY DEF ParserInv, TypeOK
<1>2. PICK u : u = SubSeq(input, 1, n)
  OBVIOUS
<1>3. /\ text' = text \o u /\ buffer' = buffer \o u /\ input' = SubSeq(input, n + 1, Len(input))
      /\ caller' = "parse"
      /\ UNCHANGED <<checked_index, status, checkstate, ret, ends>>
  BY <1>2 DEF Read
<1>4. u \in Seq(Symbol) /\ input' \in Seq(Symbol)
  <2>1. Len(input) \in Nat /\ n \in Nat /\ input \in Seq(Symbol)
    BY <1>1
  <2>2. SubSeq(input, 1, n) \in Seq(Symbol)
    BY <2>1
  <2>3. SubSeq(input, n + 1, Len(input)) \in Seq(Symbol)
    BY <2>1
  <2>4. QED
    BY <1>2, <1>3, <2>2, <2>3
<1>5. /\ text' \in Seq(Symbol) /\ buffer' \in Seq(Symbol \cup {"NUL"})
      /\ Len(text') = Len(text) + Len(u) /\ Len(buffer') = Len(buffer) + Len(u)
      /\ Len(text) \in Nat /\ Len(u) \in Nat
      /\ \A i \in 1 .. Len(text) : text'[i] = text[i] /\ buffer'[i] = buffer[i]
      /\ \A i \in Len(text) + 1 .. Len(text) + Len(u) : text'[i] = buffer'[i]
  <2>1. u \in Seq(Symbol \cup {"NUL"})
    BY <1>4
  <2>2. /\ text' \in Seq(Symbol) /\ Len(text') = Len(text) + Len(u)
        /\ Len(text) \in Nat /\ Len(u) \in Nat
    BY <1>1, <1>3, <1>4
  <2>3. buffer' \in Seq(Symbol \cup {"NUL"}) /\ Len(buffer') = Len(buffer) + Len(u)
    <3>1. PICK V : V = Symbol \cup {"NUL"}
      OBVIOUS
    <3>2. buffer \in Seq(V) /\ u \in Seq(V) => (buffer \o u) \in Seq(V)
                                              /\ Len(buffer \o u) = Len(buffer) + Len(u)
      OBVIOUS
    <3>3. QED
      BY <1>1, <1>3, <2>1, <3>1, <3>2
  <2>4. ASSUME NEW i \in 1 .. Len(text)
        PROVE  text'[i] = text[i] /\ buffer'[i] = buffer[i]
    BY <1>1, <1>3, <1>4, <2>1
  <2>5. ASSUME NEW i \in Len(text) + 1 .. Len(text) + Len(u)
        PROVE  text'[i] = u[i - Len(text)] /\ buffer'[i] = u[i - Len(text)]
    BY <1>1, <1>3, <1>4, <2>1, <2>2
  <2>6. QED
    BY <2>2, <2>3, <2>4, <2>5
<1>6. TypeOK'
  <2>1. checked_index' \in 0 .. Len(buffer') /\ Len(buffer') = Len(text')
    BY <1>1, <1>3, <1>5
  <2>2. caller' \in {"read", "parse", "done"}
    BY <1>3
  <2>3. QED
    BY <1>3, <1>4, <1>5, <2>1, <2>2 DEF ParserInv, TypeOK
<1>7. ASSUME NEW i \in checked_index' .. Len(text') - 1
      PROVE  buffer'[i + 1] = text'[i + 1]
  <2>1. CASE i < Len(text)
    <3>1. i \in checked_index .. Len(text) - 1 /\ i + 1 \in 1 .. Len(text)
      BY <1>1, <1>3, <1>5, <2>1
    <3>2. buffer[i + 1] = text[i + 1]
      BY <3>1 DEF ParserInv, At
    <3>3. QED
      BY <1>5, <3>1, <3>2
  <2>2. CASE ~(i < Len(text))
    <3>1. i + 1 \in Len(text) + 1 .. Len(text) + Len(u)
      BY <1>1, <1>3, <1>5, <2>2
    <3>2. QED
      BY <1>5, <3>1
  <2>3. QED
    BY <2>1, <2>2
<1>8. checked_index' > 0 => text'[checked_index'] # "CR" /\ buffer'[checked_index'] # "CR"
  <2>1. checked_index > 0 => checked_index \in 1 .. Len(text)
    BY <1>1
  <2>2. QED
    BY <1>3, <1>5, <2>1 DEF ParserInv
<1>9. LinesOfText'
  <2>1. /\ checked_index > 0 => text[checked_index] # "CR"
        /\ \A f \in Faults(text) : f >= checked_index
        /\ ends = {e \in LineEnds(text) : e <= checked_index}
        /\ status = "LINE_BAD" => checked_index \in Faults(text)
    BY DEF ParserInv, LinesOfText
  <2>2. /\ {e \in LineEnds(text') : e <= checked_index} = {e \in LineEnds(text) : e <= checked_index}
        /\ \A f \in Faults(text') : f >= checked_index
        /\ checked_index \in Faults(text) => checked_index \in Faults(text')
    BY <1>1, <1>3, <1>4, <2>1, MoreText
  <2>3. QED
    BY <1>3, <2>1, <2>2 DEF LinesOfText
<1>10. QED
  BY <1>6, <1>7, <1>8, <1>9 DEF ParserInv, At

(***************************************************************************)
(* parse_line stops at the end of the text or at a CR that ends it, behind *)
(* a line end, or at a fault, and there is plain text up to there.  The    *)
(* branch for an LF behind a CR that was looked at before is never taken.  *)
(***************************************************************************)
Incomplete(line, b, t, k) ==
  \E i \in k .. Len(t) :
    /\ Plain(t, k, i) /\ (i = Len(t) \/ (i + 1 = Len(t) /\ t[i + 1] = "CR"))
    /\ line = Line("LINE_OPEN", b, i)

Complete(line, b, t, k) ==
  \E i \in k .. Len(t) - 2 :
    /\ Plain(t, k, i) /\ t[i + 1] = "CR" /\ t[i + 2] = "LF"
    /\ line = Line("LINE_OK", Terminate(b, i), i + 2)

Faulty(line, b, t, k) ==
  \E i \in k .. Len(t) - 1 :
    /\ Plain(t, k, i) /\ i \in Faults(t)
    /\ line = Line("LINE_BAD", b, i)

LEMMA ParseLineStops ==
  ASSUME NEW t \in Seq(Symbol), NEW b \in Seq(Symbol \cup {"NUL"}), Len(b) = Len(t),
         NEW k \in 0 .. Len(t),
         \A i \in k .. Len(t) - 1 : At(b, i) = At(t, i),
         k > 0 => t[k] # "CR" /\ b[k] # "CR"
  PROVE  \/ Incomplete(parse_line(b, k), b, t, k)
         \/ Complete(parse_line(b, k), b, t, k)
         \/ Faulty(parse_line(b, k), b, t, k)
<1> DEFINE n == Len(b)
           EndsAt == {j \in k .. n - 1 : At(b, j) \in {"CR", "LF"}}
           i == Least(EndsAt)
           line == parse_line(b, k)
<1>1. line = CASE EndsAt = {} -> Line("LINE_OPEN", b, n)
               [] EndsAt # {} /\ At(b, i) = "CR" /\ i + 1 = n -> Line("LINE_OPEN", b, i)
               [] EndsAt # {} /\ At(b, i) = "CR" /\ i + 1 < n /\ At(b, i + 1) = "LF" ->
                    Line("LINE_OK", Terminate(b, i), i + 2)
               [] EndsAt # {} /\ At(b, i) = "LF" /\ i > 1 /\ At(b, i - 1) = "CR" ->
                    Line("LINE_OK", Terminate(b, i - 1), i + 1)
               [] OTHER -> Line("LINE_BAD", b, i)
  BY DEF parse_line
<1>2. n \in Nat /\ k \in Nat /\ k <= n /\ n = Len(t)
  OBVIOUS
<1>3. \A j \in k .. n - 1 : At(b, j) = t[j + 1] /\ At(t, j) = t[j + 1]
  BY DEF At
<1>4. CASE EndsAt = {}
  <2>1. line = Line("LINE_OPEN", b, n)
    BY <1>1, <1>4
  <2>2. Plain(t, k, n)
    BY <1>3, <1>4 DEF Plain
  <2>3. QED
    BY <1>2, <2>1, <2>2 DEF Incomplete
<1>5. CASE EndsAt # {}
  <2>1. i \in k .. n - 1 /\ At(b, i) \in {"CR", "LF"} /\ \A j \in EndsAt : i <= j
    <3>1. EndsAt \in SUBSET Nat
      OBVIOUS
    <3>2. i \in EndsAt /\ \A j \in EndsAt : i <= j
      BY <1>5, <3>1, LeastOf
    <3>3. QED
      BY <3>2
  <2>2. Plain(t, k, i)
    <3>1. ASSUME NEW j \in k .. i - 1
          PROVE  At(t, j) \notin {"CR", "LF"}
      <4>1. j \in k .. n - 1 /\ j < i
        BY <1>2, <2>1
      <4>2. j \notin EndsAt
        BY <2>1, <4>1
      <4>3. QED
        BY <1>3, <4>1, <4>2
    <3>2. QED
      BY <3>1 DEF Plain
  <2>3. At(b, i) = t[i + 1] /\ i \in Nat /\ i + 1 \in Nat
    BY <1>2, <1>3, <2>1
  \* The character before the one found is no CR.
  <2>4. i > 0 => t[i] # "CR" /\ b[i] # "CR"
    <3>1. CASE i = k
      BY <3>1
    <3>2. CASE i # k
      <4>1. i - 1 \in k .. i - 1 /\ i - 1 \in k .. n - 1 /\ (i - 1) + 1 = i
        BY <1>2, <2>1, <3>2
      <4>2. At(t, i - 1) = t[i] /\ At(b, i - 1) = b[i]
        BY <4>1 DEF At
      <4>3. At(t, i - 1) \notin {"CR", "LF"} /\ At(b, i - 1) = At(t, i - 1)
        BY <1>2, <2>2, <4>1 DEF Plain
      <4>4. QED
        BY <4>2, <4>3
    <3>3. QED
      BY <3>1, <3>2
  <2>5. ~(i > 1 /\ At(b, i - 1) = "CR")
    <3>1. (i - 1) + 1 = i
      BY <2>3
    <3>2. At(b, i - 1) = b[i]
      BY <3>1 DEF At
    <3>3. QED
      BY <2>3, <2>4, <3>2
  <2> HIDE DEF i, line, EndsAt, n
  <2>6. CASE At(b, i) = "CR" /\ i + 1 = n
    <3>1. ~(i + 1 < n) /\ At(b, i) # "LF"
      BY <1>2, <2>3, <2>6
    <3>0. line = Line("LINE_OPEN", b, i)
      BY <1>1, <1>5, <2>6, <3>1
    <3>2. i \in k .. Len(t) /\ i + 1 = Len(t) /\ t[i + 1] = "CR"
      BY <1>2, <2>1, <2>3, <2>6
    <3>3. Incomplete(line, b, t, k)
      BY <2>2, <3>0, <3>2 DEF Incomplete
    <3>4. QED
      BY <3>3 DEF line
  <2>7. CASE At(b, i) = "CR" /\ i + 1 < n /\ At(b, i + 1) = "LF"
    <3>1. line = Line("LINE_OK", Terminate(b, i), i + 2)
      BY <1>1, <1>2, <1>5, <2>3, <2>7
    <3>2. i \in k .. Len(t) - 2 /\ i + 1 \in k .. n - 1 /\ (i + 1) + 1 = i + 2
      BY <1>2, <2>1, <2>3, <2>7
    <3>3. t[(i + 1) + 1] = "LF" /\ t[i + 1] = "CR"
      BY <1>3, <2>3, <2>7, <3>2
    <3>4. t[i + 2] = "LF"
      BY <3>2, <3>3
    <3>5. Complete(line, b, t, k)
      BY <2>2, <3>1, <3>2, <3>3, <3>4 DEF Complete
    <3>6. QED
      BY <3>5 DEF line
  <2>8. CASE ~(At(b, i) = "CR" /\ i + 1 = n) /\ ~(At(b, i) = "CR" /\ i + 1 < n /\ At(b, i + 1) = "LF")
    <3>1. line = Line("LINE_BAD", b, i)
      BY <1>1, <1>5, <2>5, <2>8
    <3>2. i \in 0 .. Len(t) - 1
      BY <1>2, <2>1
    <3>3. i \in Faults(t)
      <4>1. CASE At(b, i) = "CR"
        <5>1. i + 1 < Len(t) /\ At(b, i + 1) # "LF" /\ i + 1 \in k .. n - 1 /\ (i + 1) + 1 = i + 2
          BY <1>2, <2>1, <2>3, <2>8, <4>1
        <5>2. t[(i + 1) + 1] # "LF"
          BY <1>3, <5>1
        <5>3. t[i + 2] # "LF"
          BY <5>1, <5>2
        <5>4. QED
          BY <2>3, <3>2, <4>1, <5>1, <5>3, EndsAndFaults
      <4>2. CASE At(b, i) # "CR"
        <5>1. t[i + 1] = "LF" /\ (i = 0 \/ t[i] # "CR")
          BY <2>1, <2>3, <2>4, <4>2
        <5>2. QED
          BY <3>2, <5>1, EndsAndFaults
      <4>3. QED
        BY <4>1, <4>2
    <3>4. i \in k .. Len(t) - 1
      BY <1>2, <2>1
    <3>5. Faulty(line, b, t, k)
      BY <2>2, <3>1, <3>3, <3>4 DEF Faulty
    <3>6. QED
      BY <3>5 DEF line
  <2>9. QED
    BY <2>6, <2>7, <2>8
<1>6. QED
  BY <1>4, <1>5

\* The line that parse_line returns.
LEMMA LineFields ==
  ASSUME NEW s, NEW b, NEW i
  PROVE  Line(s, b, i).status = s /\ Line(s, b, i).buffer = b /\ Line(s, b, i).checked_index = i
BY DEF Line

\* parse_requestline overwrites nothing behind the end of its string.
LEMMA SeparatedKeeps ==
  ASSUME NEW b \in Seq(Symbol \cup {"NUL"}), NEW i \in 0 .. Len(b) - 1, b[i + 1] = "NUL",
         NEW c, c = Separated(b, CString(b, 0))
  PROVE  /\ c \in Seq(Symbol \cup {"NUL"}) /\ Len(c) = Len(b)
         /\ \A j \in i + 1 .. Len(b) : c[j] = b[j]
<1> DEFINE T == {j \in 0 .. Len(b) : j = Len(b) \/ At(b, j) = "NUL"}
           m == Least(T)
           s == CString(b, 0)
<1>0. Len(b) \in Nat /\ i \in Nat /\ DOMAIN b = 1 .. Len(b)
  OBVIOUS
<1>1. i \in T /\ T \in SUBSET 0 .. Len(b) /\ T \in SUBSET Nat
  <2>1. i \in 0 .. Len(b)
    BY <1>0
  <2>2. T \subseteq 0 .. Len(b)
    OBVIOUS
  <2>3. 0 .. Len(b) \subseteq Nat
    BY <1>0
  <2>4. i \in T
    BY <2>1 DEF At
  <2>5. QED
    BY <2>2, <2>3, <2>4
<1>2. m \in T /\ m <= i
  <2> HIDE DEF T
  <2>1. QED
    BY <1>1, LeastOf
<1>3. s = SubSeq(b, 1, m)
  BY DEF CString
<1>4. m \in Nat /\ m <= Len(b)
  <2> HIDE DEF T, m
  <2>1. m \in 0 .. Len(b)
    BY <1>1, <1>2
  <2>2. QED
    BY <1>0, <2>1
<1> HIDE DEF T, m
<1>5. Len(s) = m
  BY <1>3, <1>4
<1> HIDE DEF s
<1>6. \A n \in Separators(s) : n < m
  BY <1>5 DEF Separators
<1>7. c = [j \in 1 .. Len(b) |-> IF j - 1 \in Separators(s) THEN "NUL" ELSE b[j]]
  BY <1>0 DEF Separated, s
<1>8. c \in Seq(Symbol \cup {"NUL"}) /\ Len(c) = Len(b)
  <2>1. c \in [1 .. Len(b) -> Symbol \cup {"NUL"}]
    BY <1>0, <1>7
  <2>2. QED
    BY <1>0, <2>1
<1>9. ASSUME NEW j \in i + 1 .. Len(b)
      PROVE  c[j] = b[j]
  <2>1. j \in 1 .. Len(b) /\ ~(j - 1 < m)
    BY <1>0, <1>2, <1>4
  <2>2. j - 1 \notin Separators(s)
    BY <1>6, <2>1
  <2>3. QED
    BY <1>7, <2>1, <2>2
<1>10. QED
  BY <1>8, <1>9

\* What Parse changes that has nothing to do with where the lines are.
LEMMA ParseTypes ==
  ASSUME ParserInv, Parse,
         NEW line, line = parse_line(buffer, checked_index),
         line.status \in {"LINE_OK", "LINE_BAD", "LINE_OPEN"}
  PROVE  /\ status' = line.status /\ checked_index' = line.checked_index
         /\ \/ buffer' = line.buffer
            \/ line.status = "LINE_OK" /\ buffer' = Separated(line.buffer, CString(line.buffer, 0))
         /\ ends' = IF line.status = "LINE_OK" THEN ends \cup {line.checked_index} ELSE ends
         /\ status' \in {"LINE_OK", "LINE_BAD", "LINE_OPEN"}
         /\ checkstate' \in {"CHECK_STATE_REQUESTLINE", "CHECK_STATE_HEADER"}
         /\ ret' \in {"", "NO_REQUEST", "BAD_REQUEST"}
         /\ caller' \in {"read", "parse", "done"}
         /\ caller' = "read" => line.status = "LINE_OPEN"
         /\ UNCHANGED <<input, text>>
<1> DEFINE ok   == line.status = "LINE_OK"
           code == IF ok /\ checkstate = "CHECK_STATE_REQUESTLINE"
                   THEN parse_requestline(CString(line.buffer, 0)) ELSE ret
<1>1. /\ status' = line.status /\ checked_index' = line.checked_index
      /\ \/ buffer' = line.buffer
         \/ line.status = "LINE_OK" /\ buffer' = Separated(line.buffer, CString(line.buffer, 0))
      /\ ends' = IF line.status = "LINE_OK" THEN ends \cup {line.checked_index} ELSE ends
      /\ ret' = code
      /\ checkstate' = IF code = "NO_REQUEST" THEN "CHECK_STATE_HEADER" ELSE checkstate
      /\ caller' = CASE line.status = "LINE_BAD" \/ code = "BAD_REQUEST" -> "done"
                     [] line.status = "LINE_OPEN" -> "read"
                     [] OTHER -> "parse"
      /\ UNCHANGED <<input, text>>
  BY DEF Parse
<1>2. \A s : parse_requestline(s) \in {"NO_REQUEST", "BAD_REQUEST"}
  BY DEF parse_requestline
<1>3. code \in {"", "NO_REQUEST", "BAD_REQUEST"}
  BY <1>2 DEF ParserInv, TypeOK
<1> HIDE DEF code
<1>4. /\ caller' \in {"read", "parse", "done"}
      /\ caller' = "read" => line.status = "LINE_OPEN"
  <2>1. CASE line.status = "LINE_BAD" \/ code = "BAD_REQUEST"
    <3>1. line.status = "LINE_OPEN" \/ line.status # "LINE_OPEN"
      OBVIOUS
    <3>2. caller' \in {"done", "read"} /\ (caller' = "read" => line.status = "LINE_OPEN")
      BY <1>1, <2>1
    <3>3. QED
      BY <3>2
  <2>2. CASE ~(line.status = "LINE_BAD" \/ code = "BAD_REQUEST")
    BY <1>1, <2>2
  <2>3. QED
    BY <2>1, <2>2
<1>5. checkstate' \in {"CHECK_STATE_REQUESTLINE", "CHECK_STATE_HEADER"}
  BY <1>1 DEF ParserInv, TypeOK
<1>6. QED
  BY <1>1, <1>3, <1>4, <1>5

\* Line ends are 2 at least.
LEMMA EndsAreNumbers == \A t \in Seq(Symbol) : LineEnds(t) \subseteq Nat
BY DEF LineEnds

LEMMA ParseKeeps ==
  ASSUME ParserInv, Parse
  PROVE  ParserInv'
<1> DEFINE line == parse_line(buffer, checked_index)
           k == checked_index
<1>1. /\ input \in Seq(Symbol) /\ text \in Seq(Symbol)
      /\ buffer \in Seq(Symbol \cup {"NUL"}) /\ Len(buffer) = Len(text)
      /\ k \in 0 .. Len(text) /\ k \in Nat /\ Len(text) \in Nat
  <2>1. /\ input \in Seq(Symbol) /\ text \in Seq(Symbol)
        /\ buffer \in Seq(Symbol \cup {"NUL"}) /\ Len(buffer) = Len(text)
        /\ k \in 0 .. Len(buffer)
    BY DEF ParserInv, TypeOK
  <2>2. Len(text) \in Nat
    BY <2>1
  <2>3. QED
    BY <2>1, <2>2
<1>2. /\ \A i \in k .. Len(text) - 1 : At(buffer, i) = At(text, i)
      /\ k > 0 => text[k] # "CR" /\ buffer[k] # "CR"
  BY DEF ParserInv
<1>3. /\ ends = {e \in LineEnds(text) : e <= k}
      /\ \A f \in Faults(text) : f >= k
  BY DEF ParserInv, LinesOfText
<1>4. \/ Incomplete(line, buffer, text, k)
      \/ Complete(line, buffer, text, k)
      \/ Faulty(line, buffer, text, k)
  BY <1>1, <1>2, ParseLineStops
<1>5. line.status \in {"LINE_OK", "LINE_BAD", "LINE_OPEN"}
  BY <1>4, LineFields DEF Incomplete, Complete, Faulty
<1>6. /\ status' = line.status /\ checked_index' = line.checked_index
      /\ \/ buffer' = line.buffer
         \/ line.status = "LINE_OK" /\ buffer' = Separated(line.buffer, CString(line.buffer, 0))
      /\ ends' = IF line.status = "LINE_OK" THEN ends \cup {line.checked_index} ELSE ends
      /\ status' \in {"LINE_OK", "LINE_BAD", "LINE_OPEN"}
      /\ checkstate' \in {"CHECK_STATE_REQUESTLINE", "CHECK_STATE_HEADER"}
      /\ ret' \in {"", "NO_REQUEST", "BAD_REQUEST"}
      /\ caller' \in {"read", "parse", "done"}
      /\ caller' = "read" => line.status = "LINE_OPEN"
      /\ UNCHANGED <<input, text>>
  BY <1>5, ParseTypes
<1>12. text' = text /\ caller' \in {"read", "parse", "done"}
  BY <1>6
<1>13. /\ status' = line.status /\ checked_index' = line.checked_index
       /\ \/ buffer' = line.buffer
          \/ line.status = "LINE_OK" /\ buffer' = Separated(line.buffer, CString(line.buffer, 0))
  BY <1>6
<1>14. ends' = IF line.status = "LINE_OK" THEN ends \cup {line.checked_index} ELSE ends
  BY <1>6
<1>15. caller' = "read" => line.status = "LINE_OPEN"
  BY <1>6
<1> HIDE DEF line, k
\* Where the line does not end the buffer stays, and so do the ends.
<1>7. ASSUME NEW i \in k .. Len(text), Plain(text, k, i), NEW s,
             line = Line(s, buffer, i), s # "LINE_OK"
      PROVE  /\ TypeOK'
             /\ \A j \in checked_index' .. Len(text') - 1 : At(buffer', j) = At(text', j)
             /\ checked_index' > 0 => text'[checked_index'] # "CR" /\ buffer'[checked_index'] # "CR"
             /\ ends' = {e \in LineEnds(text') : e <= checked_index'}
             /\ \A f \in Faults(text') : f >= checked_index'
             /\ checked_index' = i /\ status' = s
             /\ \A e \in LineEnds(text) : e <= i \/ e >= i + 2
  <2>1. status' = s /\ buffer' = buffer /\ checked_index' = i /\ ends' = ends
    <3>1. line.status = s /\ line.buffer = buffer /\ line.checked_index = i
      BY <1>7, LineFields
    <3>2. QED
      BY <1>7, <1>13, <1>14, <3>1
  <2>2. /\ {e \in LineEnds(text) : e <= i} = {e \in LineEnds(text) : e <= k}
        /\ \A e \in LineEnds(text) : e <= k \/ e >= i + 2
        /\ \A f \in Faults(text) : f >= i
        /\ i > 0 => text[i] # "CR"
    BY <1>1, <1>2, <1>3, <1>7, PlainText
  <2>3. i \in 0 .. Len(buffer) /\ i \in Nat /\ k <= i
    BY <1>1
  <2>4. i > 0 => buffer[i] # "CR"
    <3>1. CASE i = k
      BY <1>2, <3>1
    <3>2. CASE i # k
      <4>1. i - 1 \in k .. Len(text) - 1 /\ (i - 1) + 1 = i
        BY <1>1, <2>3, <3>2
      <4>2. At(buffer, i - 1) = At(text, i - 1)
        BY <1>2, <4>1
      <4>3. buffer[i] = text[i]
        BY <4>1, <4>2 DEF At
      <4>4. QED
        BY <2>2, <4>3
    <3>3. QED
      BY <3>1, <3>2
  <2>5. TypeOK'
    BY <1>1, <1>6, <2>1, <2>3 DEF ParserInv, TypeOK
  <2>6. \A j \in i .. Len(text) - 1 : At(buffer, j) = At(text, j)
    <3>1. \A j \in i .. Len(text) - 1 : j \in k .. Len(text) - 1
      BY <1>1, <2>3
    <3>2. QED
      BY <1>2, <3>1
  <2>7. \A e \in LineEnds(text) : e <= i \/ e >= i + 2
    BY <1>1, <2>2, <2>3, EndsAreNumbers
  <2>8. QED
    BY <1>3, <1>6, <2>1, <2>2, <2>4, <2>5, <2>6, <2>7
<1>8. CASE Incomplete(line, buffer, text, k)
  <2>1. PICK i \in k .. Len(text) :
           /\ Plain(text, k, i) /\ (i = Len(text) \/ (i + 1 = Len(text) /\ text[i + 1] = "CR"))
           /\ line = Line("LINE_OPEN", buffer, i)
    BY <1>8 DEF Incomplete
  <2>2. /\ ends' = {e \in LineEnds(text') : e <= checked_index'}
        /\ \A f \in Faults(text') : f >= checked_index'
        /\ checked_index' = i /\ status' = "LINE_OPEN"
        /\ \A e \in LineEnds(text) : e <= i \/ e >= i + 2
    BY <1>7, <2>1
  <2>3. i \in Nat /\ text' = text
    <3>1. i \in Nat
      BY <1>1
    <3>2. QED
      BY <1>12, <3>1
  <2>4. Faults(text) = {}
    <3> SUFFICES ASSUME NEW f \in Faults(text) PROVE FALSE
      OBVIOUS
    <3>1. /\ f >= i /\ f \in 0 .. Len(text) - 1
          /\ \/ text[f + 1] = "CR" /\ f + 1 < Len(text)
             \/ text[f + 1] = "LF"
      BY <1>1, <2>2, <2>3, EndsAndFaults
    <3>2. f = i /\ i + 1 = Len(text) /\ text[i + 1] = "CR"
      BY <1>1, <2>1, <2>3, <3>1
    <3>3. QED
      BY <3>1, <3>2
  <2>5. \A e \in LineEnds(text) : e <= i
    <3> SUFFICES ASSUME NEW e \in LineEnds(text), e >= i + 2 PROVE FALSE
      BY <2>2
    <3>1. PICK j \in 0 .. Len(text) - 2 : e = j + 2
      BY <1>1, EndsAndFaults
    <3>2. QED
      BY <1>1, <2>1, <2>3, <3>1
  <2>6. LinesOfText'
    BY <2>2, <2>3, <2>4, <2>5 DEF LinesOfText
  <2>7. QED
    BY <1>7, <2>1, <2>6 DEF ParserInv
<1>9. CASE Faulty(line, buffer, text, k)
  <2>1. PICK i \in k .. Len(text) - 1 :
           Plain(text, k, i) /\ i \in Faults(text) /\ line = Line("LINE_BAD", buffer, i)
    BY <1>9 DEF Faulty
  <2>2. i \in k .. Len(text) /\ text' = text /\ caller' # "read"
    <3>1. i \in k .. Len(text)
      BY <1>1
    <3>2. line.status = "LINE_BAD"
      BY <2>1, LineFields
    <3>3. caller' # "read"
      BY <1>15, <3>2
    <3>4. QED
      BY <1>12, <3>1, <3>3
  <2>3. LinesOfText'
    BY <1>7, <2>1, <2>2 DEF LinesOfText
  <2>4. QED
    BY <1>7, <2>1, <2>2, <2>3 DEF ParserInv
<1>10. CASE Complete(line, buffer, text, k)
  <2>1. PICK i \in k .. Len(text) - 2 :
           /\ Plain(text, k, i) /\ text[i + 1] = "CR" /\ text[i + 2] = "LF"
           /\ line = Line("LINE_OK", Terminate(buffer, i), i + 2)
    BY <1>10 DEF Complete
  <2> DEFINE b == Terminate(buffer, i)
  <2>2. /\ status' = "LINE_OK" /\ checked_index' = i + 2
        /\ buffer' = b \/ buffer' = Separated(b, CString(b, 0))
        /\ ends' = ends \cup {i + 2} /\ text' = text /\ caller' # "read"
    <3>1. /\ line.status = "LINE_OK" /\ line.buffer = Terminate(buffer, i)
          /\ line.checked_index = i + 2
      BY <2>1, LineFields
    <3>2. caller' # "read"
      BY <1>15, <3>1
    <3>3. ends' = ends \cup {i + 2}
      BY <1>14, <3>1
    <3>4. QED
      BY <1>12, <1>13, <3>1, <3>2, <3>3
  <2>3. i \in Nat /\ i \in k .. Len(text) /\ i + 2 \in 1 .. Len(text) /\ i + 1 \in 1 .. Len(text)
        /\ k <= i
    BY <1>1
  <2>4. /\ {e \in LineEnds(text) : e <= i} = {e \in LineEnds(text) : e <= k}
        /\ \A e \in LineEnds(text) : e <= k \/ e >= i + 2
        /\ \A f \in Faults(text) : f >= i
    BY <1>1, <1>2, <1>3, <2>1, <2>3, PlainText
  <2>5. /\ buffer' \in Seq(Symbol \cup {"NUL"}) /\ Len(buffer') = Len(text)
        /\ buffer'[i + 2] = "NUL"
        /\ \A j \in 1 .. Len(text) : j > i + 2 => buffer'[j] = buffer[j]
    <3>1. /\ b \in Seq(Symbol \cup {"NUL"}) /\ Len(b) = Len(text)
          /\ b[i + 1] = "NUL" /\ b[i + 2] = "NUL"
          /\ \A j \in 1 .. Len(text) : j > i + 2 => b[j] = buffer[j]
      BY <1>1, <2>3 DEF Terminate
    <3> HIDE DEF b
    <3>2. i \in 0 .. Len(b) - 1
      BY <1>1, <2>3, <3>1
    <3>3. /\ buffer' \in Seq(Symbol \cup {"NUL"}) /\ Len(buffer') = Len(b)
          /\ \A j \in i + 1 .. Len(b) : buffer'[j] = b[j]
      BY <2>2, <3>1, <3>2, SeparatedKeeps
    <3>4. \A j \in 1 .. Len(text) : j >= i + 1 => j \in i + 1 .. Len(b)
      BY <1>1, <2>3, <3>1
    <3>5. ASSUME NEW j \in 1 .. Len(text), j > i + 2
          PROVE  buffer'[j] = buffer[j]
      <4>1. j \in i + 1 .. Len(b)
        BY <2>3, <3>1, <3>5
      <4>2. QED
        BY <3>1, <3>3, <3>5, <4>1
    <3>6. buffer'[i + 2] = "NUL"
      <4>1. i + 2 \in i + 1 .. Len(b)
        BY <2>3, <3>1
      <4>2. QED
        BY <3>1, <3>3, <4>1
    <3>7. QED
      BY <3>1, <3>3, <3>5, <3>6
  <2> HIDE DEF b
  <2>6. i + 2 \in LineEnds(text)
    BY <1>1, <2>1, EndsAndFaults
  <2>7. ends' = {e \in LineEnds(text) : e <= i + 2}
    <3>1. ASSUME NEW e \in LineEnds(text)
          PROVE  e <= i + 2 <=> e <= k \/ e = i + 2
      BY <1>1, <2>3, <2>4, EndsAreNumbers
    <3>2. QED
      BY <1>3, <2>2, <2>6, <3>1
  <2>8. \A f \in Faults(text) : f >= i + 2
    <3> SUFFICES ASSUME NEW f \in Faults(text), f \in {i, i + 1} PROVE FALSE
      <4>1. \A f \in Faults(text) : f \in Nat
        BY DEF Faults
      <4>2. QED
        BY <2>3, <2>4, <4>1
    <3>1. f = i + 1 => f # 0 /\ f + 1 = i + 2
      BY <2>3
    <3>2. QED
      BY <1>1, <2>1, <3>1, EndsAndFaults
  <2>9. TypeOK'
    <3>1. checked_index' \in 0 .. Len(buffer') /\ ends' \subseteq Nat
      BY <1>1, <2>2, <2>3, <2>5, <2>7, EndsAreNumbers
    <3>2. QED
      BY <1>1, <1>6, <2>2, <2>5, <3>1 DEF TypeOK
  <2>10. \A j \in checked_index' .. Len(text') - 1 : At(buffer', j) = At(text', j)
    <3>1. ASSUME NEW j \in i + 2 .. Len(text) - 1
          PROVE  At(buffer', j) = At(text, j)
      <4>1. j \in k .. Len(text) - 1 /\ j + 1 \in 1 .. Len(text) /\ j + 1 > i + 2
        BY <1>1, <2>3
      <4>2. At(buffer, j) = At(text, j) /\ buffer'[j + 1] = buffer[j + 1]
        BY <1>2, <2>5, <4>1
      <4>3. QED
        BY <4>2 DEF At
    <3>2. QED
      BY <2>2, <3>1
  <2>11. text'[checked_index'] # "CR" /\ buffer'[checked_index'] # "CR"
    BY <2>1, <2>2, <2>5
  <2>12. LinesOfText'
    BY <2>2, <2>7, <2>8 DEF LinesOfText
  <2>13. QED
    BY <2>9, <2>10, <2>11, <2>12 DEF ParserInv
<1>11. QED
  BY <1>4, <1>8, <1>9, <1>10

LEMMA ParserStep == ParserInv /\ Next => ParserInv'
BY ReadKeeps, ParseKeeps DEF Next

-----------------------------------------------------------------------------
(***************************************************************************)
(* The request line.  Find stops at the first space, or the first symbol   *)
(* that is none, behind k symbols, or at the end.                          *)
(***************************************************************************)
SpaceBehind(s, k, f) ==
  f \in k .. Len(s) /\ (\A j \in k + 1 .. f : s[j] # "SP") /\ (f < Len(s) => s[f + 1] = "SP")

TextBehind(s, k, f) ==
  f \in k .. Len(s) /\ (\A j \in k + 1 .. f : s[j] = "SP") /\ (f < Len(s) => s[f + 1] # "SP")

LEMMA FindStops ==
  ASSUME NEW s \in Seq(Symbol), NEW k \in 0 .. Len(s)
  PROVE  SpaceBehind(s, k, Find(s, k, TRUE)) /\ TextBehind(s, k, Find(s, k, FALSE))
<1> DEFINE T(space) == {i \in k .. Len(s) - 1 : (At(s, i) = "SP") = space} \cup {Len(s)}
<1>0. Len(s) \in Nat /\ k \in Nat /\ k <= Len(s)
  OBVIOUS
<1>1. ASSUME NEW space \in BOOLEAN
      PROVE  /\ Find(s, k, space) \in T(space)
             /\ \A j \in T(space) : Find(s, k, space) <= j
  <2>1. T(space) \in SUBSET Nat /\ T(space) # {}
    BY <1>0
  <2> HIDE DEF T
  <2>2. Least(T(space)) \in T(space) /\ \A j \in T(space) : Least(T(space)) <= j
    BY <2>1, LeastOf
  <2>3. Find(s, k, space) = Least(T(space))
    BY DEF Find, T
  <2>4. QED
    BY <2>2, <2>3
<1>2. ASSUME NEW space \in BOOLEAN, NEW f, f = Find(s, k, space)
      PROVE  /\ f \in k .. Len(s)
             /\ \A j \in k + 1 .. f : (s[j] = "SP") # space
             /\ f < Len(s) => (s[f + 1] = "SP") = space
  <2>1. f \in T(space) /\ \A j \in T(space) : f <= j
    BY <1>1, <1>2
  <2>2. f \in k .. Len(s) /\ f \in Nat
    BY <1>0, <2>1
  <2>3. ASSUME NEW j \in k + 1 .. f
        PROVE  (s[j] = "SP") # space
    <3>1. j - 1 \in k .. Len(s) - 1 /\ j - 1 < f /\ (j - 1) + 1 = j
      BY <1>0, <2>2
    <3>2. j - 1 \notin T(space)
      BY <1>0, <2>1, <2>2, <3>1
    <3>3. QED
      BY <3>1, <3>2 DEF At
  <2>4. ASSUME f < Len(s)
        PROVE  (s[f + 1] = "SP") = space
    BY <1>0, <2>1, <2>2, <2>4 DEF At
  <2>5. QED
    BY <2>2, <2>3, <2>4
<1>3. PICK f : f = Find(s, k, TRUE)
  OBVIOUS
<1>4. SpaceBehind(s, k, f)
  BY <1>2, <1>3 DEF SpaceBehind
<1>5. PICK g : g = Find(s, k, FALSE)
  OBVIOUS
<1>6. TextBehind(s, k, g)
  BY <1>2, <1>5 DEF TextBehind
<1>7. QED
  BY <1>3, <1>4, <1>5, <1>6

LEMMA OnePlace ==
  ASSUME NEW s \in Seq(Symbol), NEW k \in 0 .. Len(s), NEW f, NEW g,
         \/ SpaceBehind(s, k, f) /\ SpaceBehind(s, k, g)
         \/ TextBehind(s, k, f) /\ TextBehind(s, k, g)
  PROVE  f = g
<1>0. Len(s) \in Nat /\ k \in Nat
  OBVIOUS
<1>1. /\ f \in k .. Len(s) /\ g \in k .. Len(s)
      /\ f < Len(s) => f + 1 \notin k + 1 .. g
      /\ g < Len(s) => g + 1 \notin k + 1 .. f
  BY DEF SpaceBehind, TextBehind
<1>2. QED
  BY <1>0, <1>1

LEMMA OneSymbol ==
  ASSUME NEW s \in Seq(Symbol), NEW a \in 1 .. Len(s) + 1, NEW b \in 0 .. Len(s), NEW x
  PROVE  SubSeq(s, a, b) = <<x>> <=> a = b /\ s[a] = x
<1>0. Len(s) \in Nat /\ a \in Nat /\ b \in Nat
  OBVIOUS
<1>1. ASSUME SubSeq(s, a, b) = <<x>>
      PROVE  a = b /\ s[a] = x
  <2>1. Len(SubSeq(s, a, b)) = 1 /\ SubSeq(s, a, b)[1] = x
    BY <1>1
  <2>2. Len(SubSeq(s, a, b)) = IF a <= b THEN b - a + 1 ELSE 0
    BY <1>0
  <2>3. a = b
    BY <1>0, <2>1, <2>2
  <2>4. SubSeq(s, a, b)[1] = s[a]
    BY <1>0, <2>3
  <2>5. QED
    BY <2>1, <2>3, <2>4
<1>2. ASSUME a = b, s[a] = x
      PROVE  SubSeq(s, a, b) = <<x>>
  <2>1. a \in 1 .. Len(s)
    BY <1>0, <1>2
  <2>2. s[a] \in Symbol /\ SubSeq(s, a, a) \in Seq(Symbol) /\ <<s[a]>> \in Seq(Symbol)
    BY <2>1
  <2>3. Len(SubSeq(s, a, a)) = 1 /\ SubSeq(s, a, a)[1] = s[a]
    BY <1>0, <2>1
  <2>4. Len(<<s[a]>>) = 1 /\ <<s[a]>>[1] = s[a]
    OBVIOUS
  <2>5. SubSeq(s, a, a) = <<s[a]>>
    <3>1. PICK w \in Seq(Symbol) : w = SubSeq(s, a, a)
      BY <2>2
    <3>2. PICK y \in Seq(Symbol) : y = <<s[a]>>
      BY <2>2
    <3>3. Len(w) = Len(y) /\ \A i \in 1 .. Len(w) : w[i] = y[i]
      BY <2>3, <2>4, <3>1, <3>2
    <3>4. w = y
      BY <3>3, SeqEqual
    <3>5. QED
      BY <3>1, <3>2, <3>4
  <2>6. QED
    BY <1>2, <2>5
<1>3. QED
  BY <1>1, <1>2

\* The path of the URL in s[u + 1 .. e].
LEMMA PathIn ==
  ASSUME NEW s \in Seq(Symbol), NEW u \in 0 .. Len(s), NEW e \in 0 .. Len(s), u < e
  PROVE  HasPath(SubSeq(s, u + 1, e)) <=>
           \/ s[u + 1] = "/"
           \/ s[u + 1] = "http://" /\ \E m \in u + 2 .. e : s[m] \in {"/", "http://", "HTTP/1.1"}
<1> DEFINE w == SubSeq(s, u + 1, e)
<1>0. Len(s) \in Nat /\ u \in Nat /\ e \in Nat /\ e <= Len(s) /\ u + 1 >= 1
  OBVIOUS
<1>1. Len(w) = e - u /\ \A i \in 1 .. e - u : w[i] = s[u + i]
  <2>1. Len(w) = e - (u + 1) + 1
    BY <1>0
  <2>2. ASSUME NEW i \in 1 .. e - u
        PROVE  w[i] = s[u + i]
    <3>1. w[i] = s[(u + 1) + i - 1] /\ (u + 1) + i - 1 = u + i
      BY <1>0
    <3>2. QED
      BY <3>1
  <2>3. QED
    BY <1>0, <2>1, <2>2
<1>2. Head(w) = w[1]
  <2>1. w \in Seq(Symbol) /\ Len(w) > 0
    BY <1>0, <1>1
  <2>2. QED
    BY <2>1
<1>3. Head(w) = s[u + 1]
  BY <1>0, <1>1, <1>2
<1> HIDE DEF w
<1>4. (\E i \in 2 .. Len(w) : w[i] \in {"/", "http://", "HTTP/1.1"})
        <=> \E m \in u + 2 .. e : s[m] \in {"/", "http://", "HTTP/1.1"}
  <2>1. ASSUME NEW i \in 2 .. Len(w), w[i] \in {"/", "http://", "HTTP/1.1"}
        PROVE  \E m \in u + 2 .. e : s[m] \in {"/", "http://", "HTTP/1.1"}
    <3>1. u + i \in u + 2 .. e /\ i \in 1 .. e - u
      BY <1>0, <1>1
    <3>2. s[u + i] \in {"/", "http://", "HTTP/1.1"}
      BY <1>1, <2>1, <3>1
    <3>3. QED
      BY <3>1, <3>2
  <2>2. ASSUME NEW m \in u + 2 .. e, s[m] \in {"/", "http://", "HTTP/1.1"}
        PROVE  \E i \in 2 .. Len(w) : w[i] \in {"/", "http://", "HTTP/1.1"}
    <3>1. m - u \in 2 .. Len(w) /\ m - u \in 1 .. e - u /\ u + (m - u) = m
      BY <1>0, <1>1
    <3>2. w[m - u] = s[m]
      BY <1>1, <3>1
    <3>3. QED
      BY <2>2, <3>1, <3>2
  <2>3. QED
    BY <2>1, <2>2
<1>5. HasPath(w) <=> \/ s[u + 1] = "/"
                     \/ s[u + 1] = "http://" /\ \E m \in u + 2 .. e : s[m] \in {"/", "http://", "HTTP/1.1"}
  BY <1>3, <1>4 DEF HasPath
<1>6. QED
  BY <1>5 DEF w

\* The pieces of s: the method, spaces, the URL, spaces, the version.
Pieces(s, m, u, e, v) ==
  SpaceBehind(s, 0, m) /\ TextBehind(s, m, u) /\ SpaceBehind(s, u, e) /\ TextBehind(s, e, v)

Accepted(s, m, u, e, v) ==
  /\ m = 1 /\ s[1] = "GET" /\ u < e /\ e < Len(s)
  /\ v + 1 = Len(s) /\ s[Len(s)] = "HTTP/1.1"
  /\ \/ s[u + 1] = "/"
     \/ s[u + 1] = "http://" /\ \E n \in u + 2 .. e : s[n] \in {"/", "http://", "HTTP/1.1"}

\* parse_requestline accepts by the pieces.
LEMMA AcceptedByPieces ==
  ASSUME NEW s \in Seq(Symbol)
  PROVE  \E m, u, e, v : /\ Pieces(s, m, u, e, v)
                         /\ parse_requestline(s) = "NO_REQUEST" <=> Accepted(s, m, u, e, v)
<1> DEFINE m == Find(s, 0, TRUE)
           u == Find(s, m, FALSE)
           e == Find(s, u, TRUE)
           v == Find(s, e, FALSE)
<1>0. Len(s) \in Nat /\ 0 \in 0 .. Len(s)
  OBVIOUS
<1>14. /\ m = Find(s, 0, TRUE) /\ u = Find(s, m, FALSE)
       /\ e = Find(s, u, TRUE) /\ v = Find(s, e, FALSE)
  OBVIOUS
<1>5. parse_requestline(s) =
        IF /\ m < Len(s)
           /\ SubSeq(s, 1, m) = <<"GET">>
           /\ e < Len(s)
           /\ SubSeq(s, v + 1, Len(s)) = <<"HTTP/1.1">>
           /\ HasPath(SubSeq(s, u + 1, e))
        THEN "NO_REQUEST" ELSE "BAD_REQUEST"
  BY DEF parse_requestline
<1> HIDE DEF m, u, e, v
<1>1. SpaceBehind(s, 0, m) /\ m \in 0 .. Len(s)
  <2>1. SpaceBehind(s, 0, m)
    BY <1>0, <1>14, FindStops
  <2>2. QED
    BY <2>1 DEF SpaceBehind
<1>2. TextBehind(s, m, u) /\ u \in m .. Len(s) /\ u \in 0 .. Len(s)
  <2>1. TextBehind(s, m, u)
    BY <1>1, <1>14, FindStops
  <2>2. u \in m .. Len(s)
    BY <2>1 DEF TextBehind
  <2>3. QED
    BY <1>0, <1>1, <2>1, <2>2
<1>3. SpaceBehind(s, u, e) /\ e \in u .. Len(s) /\ e \in 0 .. Len(s)
  <2>1. SpaceBehind(s, u, e)
    BY <1>2, <1>14, FindStops
  <2>2. e \in u .. Len(s)
    BY <2>1 DEF SpaceBehind
  <2>3. QED
    BY <1>0, <1>2, <2>1, <2>2
<1>4. TextBehind(s, e, v) /\ v \in e .. Len(s) /\ v \in 0 .. Len(s)
  <2>1. TextBehind(s, e, v)
    BY <1>3, <1>14, FindStops
  <2>2. v \in e .. Len(s)
    BY <2>1 DEF TextBehind
  <2>3. QED
    BY <1>0, <1>3, <2>1, <2>2
<1>6. e < Len(s) => u < e
  <2> SUFFICES ASSUME e < Len(s), u = e PROVE FALSE
    BY <1>0, <1>2, <1>3
  <2>1. s[e + 1] = "SP" /\ s[u + 1] # "SP"
    BY <1>2, <1>3 DEF SpaceBehind, TextBehind
  <2>2. QED
    BY <2>1
<1>7. SubSeq(s, 1, m) = <<"GET">> <=> 1 = m /\ s[1] = "GET"
  <2>1. 1 \in 1 .. Len(s) + 1
    BY <1>0
  <2>2. QED
    BY <1>1, <2>1, OneSymbol
<1>8. SubSeq(s, v + 1, Len(s)) = <<"HTTP/1.1">> <=> v + 1 = Len(s) /\ s[v + 1] = "HTTP/1.1"
  <2>1. v + 1 \in 1 .. Len(s) + 1 /\ Len(s) \in 0 .. Len(s)
    BY <1>0, <1>4
  <2>2. QED
    BY <2>1, OneSymbol
<1>9. u < e => (HasPath(SubSeq(s, u + 1, e)) <=>
                  \/ s[u + 1] = "/"
                  \/ s[u + 1] = "http://" /\ \E n \in u + 2 .. e : s[n] \in {"/", "http://", "HTTP/1.1"})
  BY <1>2, <1>3, PathIn
<1>10. e < Len(s) => m < Len(s)
  BY <1>0, <1>1, <1>2, <1>3
<1>11. parse_requestline(s) = "NO_REQUEST" <=> Accepted(s, m, u, e, v)
  <2>1. parse_requestline(s) = "NO_REQUEST" <=>
          /\ m < Len(s) /\ m = 1 /\ s[1] = "GET" /\ e < Len(s)
          /\ v + 1 = Len(s) /\ s[v + 1] = "HTTP/1.1"
          /\ HasPath(SubSeq(s, u + 1, e))
    BY <1>5, <1>7, <1>8
  <2>2. QED
    BY <1>6, <1>9, <1>10, <2>1 DEF Accepted
<1>12. Pieces(s, m, u, e, v)
  BY <1>1, <1>2, <1>3, <1>4 DEF Pieces
<1>13. QED
  BY <1>11, <1>12

\* parse_requestline accepts the request lines of the grammar.
LEMMA RequestLines ==
  ASSUME NEW s \in Seq(Symbol)
  PROVE  parse_requestline(s) = "NO_REQUEST" <=> IsRequestLine(s)
<1>0. Len(s) \in Nat
  OBVIOUS
<1>1. PICK m, u, e, v : /\ Pieces(s, m, u, e, v)
                        /\ parse_requestline(s) = "NO_REQUEST" <=> Accepted(s, m, u, e, v)
  BY AcceptedByPieces
<1>2. ASSUME Accepted(s, m, u, e, v)
      PROVE  IsRequestLine(s)
  <2>1. /\ m = 1 /\ u \in m .. Len(s) /\ e \in u .. Len(s) /\ v \in e .. Len(s)
        /\ u < e /\ e < Len(s) /\ v + 1 = Len(s)
    BY <1>1, <1>2 DEF Accepted, Pieces, SpaceBehind, TextBehind
  <2>2. /\ s[m + 1] = "SP" /\ \A j \in m + 1 .. u : s[j] = "SP"
        /\ s[u + 1] # "SP" /\ \A j \in u + 1 .. e : s[j] # "SP"
        /\ s[e + 1] = "SP" /\ \A j \in e + 1 .. v : s[j] = "SP"
    <3>1. m < Len(s) /\ u < Len(s)
      BY <1>0, <2>1
    <3>2. QED
      BY <1>1, <2>1, <3>1 DEF Pieces, SpaceBehind, TextBehind
  <2>3. u # 1 /\ e # v
    <3>1. m = 1 /\ (u = 1 => u + 1 = m + 1)
      BY <2>1
    <3>2. u # 1
      BY <2>2, <3>1
    <3>3. s[v + 1] = "HTTP/1.1"
      BY <1>2, <2>1 DEF Accepted
    <3>4. e # v
      BY <2>2, <3>3
    <3>5. QED
      BY <3>2, <3>4
  <2>4. u \in 2 .. Len(s) - 1 /\ e \in 2 .. Len(s) - 1 /\ v \in 2 .. Len(s) - 1 /\ u < e /\ e < v
    BY <1>0, <2>1, <2>3
  <2>5. ASSUME NEW n \in 2 .. v
        PROVE  s[n] = "SP" <=> n \in (2 .. u) \cup (e + 1 .. v)
    <3>1. CASE n \in 2 .. u
      <4>1. n \in m + 1 .. u
        BY <2>1, <3>1
      <4>2. QED
        BY <2>2, <3>1, <4>1
    <3>2. CASE n \in u + 1 .. e
      <4>1. n \notin 2 .. u /\ n \notin e + 1 .. v
        BY <2>4, <3>2
      <4>2. QED
        BY <2>2, <3>2, <4>1
    <3>3. CASE n \in e + 1 .. v
      BY <2>2, <3>3
    <3>4. QED
      BY <2>4, <3>1, <3>2, <3>3
  <2>6. /\ s[1] = "GET" /\ s[Len(s)] = "HTTP/1.1"
        /\ \/ s[u + 1] = "/"
           \/ s[u + 1] = "http://" /\ \E n \in u + 2 .. e : s[n] \in {"/", "http://", "HTTP/1.1"}
    BY <1>2 DEF Accepted
  <2>7. QED
    BY <2>1, <2>4, <2>5, <2>6 DEF IsRequestLine
<1>3. ASSUME IsRequestLine(s)
      PROVE  Accepted(s, m, u, e, v)
  <2>1. PICK i \in 2 .. Len(s) - 1, j \in 2 .. Len(s) - 1, k \in 2 .. Len(s) - 1 :
          /\ i < j /\ j < k /\ k + 1 = Len(s)
          /\ s[1] = "GET" /\ s[Len(s)] = "HTTP/1.1"
          /\ \A n \in 2 .. k : s[n] = "SP" <=> n \in (2 .. i) \cup (j + 1 .. k)
          /\ \/ s[i + 1] = "/"
             \/ /\ s[i + 1] = "http://"
                /\ \E n \in i + 2 .. j : s[n] \in {"/", "http://", "HTTP/1.1"}
    BY <1>3 DEF IsRequestLine
  <2>2. i \in Nat /\ j \in Nat /\ k \in Nat /\ 2 <= i /\ i < j /\ j < k /\ k + 1 = Len(s)
    BY <2>1
  <2>3. /\ \A n \in 2 .. i : s[n] = "SP"
        /\ \A n \in i + 1 .. j : s[n] # "SP"
        /\ \A n \in j + 1 .. k : s[n] = "SP"
    <3>1. \A n \in 2 .. i : n \in 2 .. k
      BY <2>2
    <3>2. \A n \in i + 1 .. j : n \in 2 .. k /\ n \notin (2 .. i) \cup (j + 1 .. k)
      BY <2>2
    <3>3. \A n \in j + 1 .. k : n \in 2 .. k
      BY <2>2
    <3>4. QED
      BY <2>1, <3>1, <3>2, <3>3
  <2>4. SpaceBehind(s, 0, 1)
    <3>1. 1 \in 0 .. Len(s) /\ 1 + 1 \in 2 .. i /\ \A n \in 0 + 1 .. 1 : n = 1
      BY <2>2
    <3>2. s[1] # "SP" /\ s[1 + 1] = "SP"
      BY <2>1, <2>3, <3>1
    <3>3. QED
      BY <3>1, <3>2 DEF SpaceBehind
  <2>5. TextBehind(s, 1, i)
    <3>1. i \in 1 .. Len(s) /\ i + 1 \in i + 1 .. j /\ \A n \in 1 + 1 .. i : n \in 2 .. i
      BY <2>2
    <3>2. QED
      BY <2>3, <3>1 DEF TextBehind
  <2>6. SpaceBehind(s, i, j)
    <3>1. j \in i .. Len(s) /\ j + 1 \in j + 1 .. k
      BY <2>2
    <3>2. QED
      BY <2>3, <3>1 DEF SpaceBehind
  <2>7. TextBehind(s, j, k)
    <3>1. k \in j .. Len(s)
      BY <2>2
    <3>2. s[k + 1] # "SP"
      BY <2>1, <2>2
    <3>3. QED
      BY <2>3, <3>1, <3>2 DEF TextBehind
  <2>8. m = 1
    <3>1. 0 \in 0 .. Len(s) /\ SpaceBehind(s, 0, m)
      BY <1>0, <1>1 DEF Pieces
    <3>2. QED
      BY <2>4, <3>1, OnePlace
  <2>9. u = i
    <3>1. 1 \in 0 .. Len(s) /\ TextBehind(s, 1, u)
      BY <1>1, <2>2, <2>8 DEF Pieces
    <3>2. QED
      BY <2>5, <3>1, OnePlace
  <2>10. e = j
    <3>1. i \in 0 .. Len(s) /\ SpaceBehind(s, i, e)
      BY <1>1, <2>2, <2>9 DEF Pieces
    <3>2. QED
      BY <2>6, <3>1, OnePlace
  <2>11. v = k
    <3>1. j \in 0 .. Len(s) /\ TextBehind(s, j, v)
      BY <1>1, <2>2, <2>10 DEF Pieces
    <3>2. QED
      BY <2>7, <3>1, OnePlace
  <2>12. e < Len(s)
    BY <2>2, <2>10
  <2>13. QED
    BY <2>1, <2>8, <2>9, <2>10, <2>11, <2>12 DEF Accepted
<1>4. QED
  BY <1>1, <1>2, <1>3

(***************************************************************************)
(* The first line.  Until it is found nothing is overwritten and nothing   *)
(* answered; when it is, what parse_requestline sees of it is the line of  *)
(* the text, and it is not called again.                                   *)
(***************************************************************************)
FirstLine ==
  /\ ends = {} => buffer = text /\ checkstate = "CHECK_STATE_REQUESTLINE" /\ ret = ""
  /\ ends # {} => /\ ret # ""
                  /\ checkstate = "CHECK_STATE_REQUESTLINE" => caller = "done"
  /\ AcceptsRequestLines

LEMMA LeastIs ==
  ASSUME NEW T \in SUBSET Nat, NEW m \in T, \A j \in T : m <= j
  PROVE  Least(T) = m
<1>1. Least(T) \in T /\ \A j \in T : Least(T) <= j
  BY LeastOf
<1>2. Least(T) <= m /\ m <= Least(T) /\ m \in Nat /\ Least(T) \in Nat
  BY <1>1
<1>3. QED
  BY <1>2

LEMMA FirstLineInit == Init => FirstLine
<1> SUFFICES ASSUME Init PROVE FirstLine
  OBVIOUS
<1>1. ends = {} /\ buffer = text /\ checkstate = "CHECK_STATE_REQUESTLINE" /\ ret = ""
  BY DEF Init
<1>2. QED
  BY <1>1 DEF FirstLine, AcceptsRequestLines

LEMMA FirstLineUnchanged == FirstLine /\ UNCHANGED vars => FirstLine'
BY DEF FirstLine, AcceptsRequestLines, vars

\* Text that arrives leaves the first line as it is.
LEMMA ReadKeepsFirst ==
  ASSUME ParserInv, FirstLine, NEW n \in 1 .. Len(input), Read(n)
  PROVE  FirstLine'
<1>1. /\ input \in Seq(Symbol) /\ text \in Seq(Symbol) /\ checked_index \in 0 .. Len(text)
      /\ checked_index > 0 => text[checked_index] # "CR"
      /\ ends = {e \in LineEnds(text) : e <= checked_index}
      /\ \A f \in Faults(text) : f >= checked_index
  BY DEF ParserInv, TypeOK, LinesOfText
<1>2. PICK u : u = SubSeq(input, 1, n)
  OBVIOUS
<1>3. /\ text' = text \o u /\ buffer' = buffer \o u
      /\ UNCHANGED <<checked_index, checkstate, ret, ends>> /\ caller = "read"
  BY <1>2 DEF Read
<1>4. u \in Seq(Symbol) /\ Len(text) \in Nat /\ checked_index \in Nat
  BY <1>1, <1>2
<1>5. CASE ends = {}
  BY <1>3, <1>5 DEF FirstLine, AcceptsRequestLines
<1>6. CASE ends # {}
  <2>1. /\ {e \in LineEnds(text') : e <= checked_index} = {e \in LineEnds(text) : e <= checked_index}
        /\ text' \in Seq(Symbol)
    BY <1>1, <1>3, <1>4, MoreText
  <2>2. LineEnds(text) \in SUBSET Nat /\ LineEnds(text') \in SUBSET Nat
    BY <1>1, <2>1, EndsAreNumbers
  <2>3. PICK e0 \in ends : TRUE
    BY <1>6
  <2>4. e0 \in LineEnds(text) /\ e0 <= checked_index /\ LineEnds(text) # {}
    BY <1>1, <2>3
  <2>5. PICK m : m = Least(LineEnds(text))
    OBVIOUS
  <2>6. m \in LineEnds(text) /\ \A j \in LineEnds(text) : m <= j
    BY <2>2, <2>4, <2>5, LeastOf
  <2>7. m \in Nat /\ m <= checked_index
    <3>1. m \in Nat /\ e0 \in Nat /\ m <= e0
      BY <2>2, <2>4, <2>6
    <3>2. QED
      BY <1>4, <2>4, <3>1
  <2>8. m \in LineEnds(text')
    BY <2>1, <2>6, <2>7
  <2>9. ASSUME NEW j \in LineEnds(text')
        PROVE  m <= j
    <3>1. CASE j <= checked_index
      BY <2>1, <2>6, <3>1
    <3>2. CASE ~(j <= checked_index)
      BY <1>4, <2>2, <2>7, <3>2
    <3>3. QED
      BY <3>1, <3>2
  <2>10. Least(LineEnds(text')) = m
    BY <2>2, <2>8, <2>9, LeastIs
  <2>11. SubSeq(text', 1, m - 2) = SubSeq(text, 1, m - 2)
    <3>1. PICK j \in 0 .. Len(text) - 2 : m = j + 2
      BY <1>1, <2>6, EndsAndFaults
    <3>2. j \in 0 .. Len(text) /\ m - 2 = j
      BY <1>4, <3>1
    <3>3. SubSeq(text \o u, 1, j) = SubSeq(text, 1, j)
      BY <1>1, <1>4, <3>2, SubSeqOfConcat1
    <3>4. QED
      BY <1>3, <3>2, <3>3
  <2>12. AcceptsRequestLines'
    BY <1>3, <2>5, <2>10, <2>11 DEF FirstLine, AcceptsRequestLines
  <2>13. QED
    BY <1>3, <1>6, <2>12 DEF FirstLine
<1>7. QED
  BY <1>5, <1>6

\* The string that parse_requestline gets when the first line ends at i.
LEMMA FirstString ==
  ASSUME NEW t \in Seq(Symbol), NEW i \in 0 .. Len(t) - 2
  PROVE  CString(Terminate(t, i), 0) = SubSeq(t, 1, i)
<1> DEFINE b == Terminate(t, i)
           N == {j \in 0 .. Len(b) : j = Len(b) \/ At(b, j) = "NUL"}
<1>0. i \in Nat /\ Len(t) \in Nat /\ i + 1 \in 1 .. Len(t) /\ i + 2 \in 1 .. Len(t)
  OBVIOUS
<1>1. /\ b \in Seq(Symbol \cup {"NUL"}) /\ Len(b) = Len(t)
      /\ b[i + 1] = "NUL" /\ \A j \in 1 .. i : b[j] = t[j]
  <2>1. b = [t EXCEPT ![i + 1] = "NUL", ![i + 2] = "NUL"]
    BY DEF Terminate
  <2>2. t \in [1 .. Len(t) -> Symbol]
    BY LenProperties
  <2>3. /\ b \in [1 .. Len(t) -> Symbol \cup {"NUL"}]
        /\ b[i + 1] = "NUL" /\ \A j \in 1 .. i : b[j] = t[j]
    BY <1>0, <2>1, <2>2
  <2>4. b \in Seq(Symbol \cup {"NUL"}) /\ Len(b) = Len(t)
    BY <1>0, <2>3
  <2>5. QED
    BY <2>3, <2>4
<1>2. N \in SUBSET Nat /\ i \in N
  BY <1>0, <1>1 DEF At
<1>3. ASSUME NEW j \in N
      PROVE  i <= j
  <2> SUFFICES ASSUME j < i PROVE FALSE
    BY <1>0, <1>2
  <2>1. j \in 0 .. Len(t) /\ (j = Len(t) \/ b[j + 1] = "NUL")
    BY <1>1 DEF At
  <2>2. j + 1 \in 1 .. i /\ j # Len(t) /\ j + 1 \in 1 .. Len(t)
    BY <1>0, <2>1
  <2>3. b[j + 1] = t[j + 1] /\ t[j + 1] \in Symbol
    BY <1>1, <2>2
  <2>4. QED
    BY <2>1, <2>2, <2>3 DEF Symbol
<1>4. Least(N) = i
  <2> HIDE DEF N
  <2>1. QED
    BY <1>2, <1>3, LeastIs
<1>5. CString(b, 0) = SubSeq(b, 1, i)
  <2>1. CString(b, 0) = SubSeq(b, 0 + 1, Least(N))
    BY DEF CString
  <2> HIDE DEF b, N
  <2>2. 0 + 1 = 1
    OBVIOUS
  <2>3. QED
    BY <1>4, <2>1, <2>2
<1> HIDE DEF b, N
<1>6. SubSeq(b, 1, i) = SubSeq(t, 1, i)
  <2>1. /\ SubSeq(b, 1, i) \in Seq(Symbol \cup {"NUL"}) /\ Len(SubSeq(b, 1, i)) = i
        /\ \A j \in 1 .. i : SubSeq(b, 1, i)[j] = b[j]
    BY <1>0, <1>1
  <2>2. /\ SubSeq(t, 1, i) \in Seq(Symbol \cup {"NUL"}) /\ Len(SubSeq(t, 1, i)) = i
        /\ \A j \in 1 .. i : SubSeq(t, 1, i)[j] = t[j]
    <3>1. t \in Seq(Symbol \cup {"NUL"})
      OBVIOUS
    <3>2. \A j \in 1 .. i : t[j] \in Symbol \cup {"NUL"}
      BY <1>0
    <3>3. SubSeq(t, 1, i) \in Seq(Symbol \cup {"NUL"})
      BY <1>0, <3>1
    <3>4. Len(SubSeq(t, 1, i)) = i /\ \A j \in 1 .. i : SubSeq(t, 1, i)[j] = t[j]
      BY <1>0
    <3>5. QED
      BY <3>3, <3>4
  <2>3. PICK x \in Seq(Symbol \cup {"NUL"}) : x = SubSeq(b, 1, i)
    BY <2>1
  <2>7. PICK y \in Seq(Symbol \cup {"NUL"}) : y = SubSeq(t, 1, i)
    BY <2>2
  <2>4. Len(x) = Len(y) /\ \A j \in 1 .. Len(x) : x[j] = y[j]
    BY <1>1, <2>1, <2>2, <2>3, <2>7
  <2>5. x = y
    BY <2>4, SeqEqual
  <2>6. QED
    BY <2>3, <2>5, <2>7
<1>7. QED
  BY <1>5, <1>6 DEF b

LEMMA ParseKeepsFirst ==
  ASSUME ParserInv, FirstLine, Parse
  PROVE  FirstLine'
<1> DEFINE line == parse_line(buffer, checked_index)
           code == IF line.status = "LINE_OK" /\ checkstate = "CHECK_STATE_REQUESTLINE"
                   THEN parse_requestline(CString(line.buffer, 0)) ELSE ret
           k == checked_index
<1>1. /\ text \in Seq(Symbol) /\ buffer \in Seq(Symbol \cup {"NUL"}) /\ Len(buffer) = Len(text)
      /\ k \in 0 .. Len(text)
      /\ checkstate \in {"CHECK_STATE_REQUESTLINE", "CHECK_STATE_HEADER"}
  BY DEF ParserInv, TypeOK
<1>2. /\ \A i \in k .. Len(text) - 1 : At(buffer, i) = At(text, i)
      /\ k > 0 => text[k] # "CR" /\ buffer[k] # "CR"
  BY DEF ParserInv
<1>3. ends = {e \in LineEnds(text) : e <= k} /\ \A f \in Faults(text) : f >= k
  BY DEF ParserInv, LinesOfText
<1>4. \/ Incomplete(line, buffer, text, k)
      \/ Complete(line, buffer, text, k)
      \/ Faulty(line, buffer, text, k)
  BY <1>1, <1>2, ParseLineStops
<1>5. /\ caller = "parse" /\ text' = text /\ ret' = code
      /\ line.status # "LINE_OK" => buffer' = line.buffer
  BY DEF Parse
<1>6. /\ checkstate' = IF code = "NO_REQUEST" THEN "CHECK_STATE_HEADER" ELSE checkstate
      /\ ends' = IF line.status = "LINE_OK" THEN ends \cup {line.checked_index} ELSE ends
      /\ caller' = CASE line.status = "LINE_BAD" \/ code = "BAD_REQUEST" -> "done"
                     [] line.status = "LINE_OPEN" -> "read"
                     [] OTHER -> "parse"
  BY DEF Parse
<1>7. code = IF line.status = "LINE_OK" /\ checkstate = "CHECK_STATE_REQUESTLINE"
             THEN parse_requestline(CString(line.buffer, 0)) ELSE ret
  OBVIOUS
<1> HIDE DEF line, code, k
\* The first line has been found before: its answer stays.
<1>8. CASE ends # {}
  <2>1. ret # "" /\ checkstate = "CHECK_STATE_HEADER"
    BY <1>1, <1>5, <1>8 DEF FirstLine
  <2>2. ret' = ret /\ checkstate' = "CHECK_STATE_HEADER"
    BY <1>5, <1>6, <1>7, <2>1
  <2>3. ends' # {}
    BY <1>6, <1>8
  <2>4. AcceptsRequestLines'
    BY <1>5, <2>2 DEF FirstLine, AcceptsRequestLines
  <2>5. QED
    BY <2>1, <2>2, <2>3, <2>4 DEF FirstLine
\* It has not, and is not found.
<1>9. CASE ends = {} /\ line.status # "LINE_OK"
  <2>1. buffer' = buffer
    <3>1. \E s, i : line = Line(s, buffer, i)
      <4>1. ~Complete(line, buffer, text, k)
        BY <1>9, LineFields DEF Complete
      <4>2. QED
        BY <1>4, <4>1 DEF Incomplete, Faulty
    <3>2. QED
      BY <1>5, <1>9, <3>1, LineFields
  <2>2. ends' = {} /\ ret' = "" /\ checkstate' = "CHECK_STATE_REQUESTLINE" /\ buffer' = text'
    BY <1>5, <1>6, <1>7, <1>9, <2>1 DEF FirstLine
  <2>3. QED
    BY <2>2 DEF FirstLine, AcceptsRequestLines
\* It is found.
<1>10. CASE ends = {} /\ line.status = "LINE_OK"
  <2>1. PICK i \in k .. Len(text) - 2 :
           /\ Plain(text, k, i) /\ text[i + 1] = "CR" /\ text[i + 2] = "LF"
           /\ line = Line("LINE_OK", Terminate(buffer, i), i + 2)
    <3>1. ~Incomplete(line, buffer, text, k) /\ ~Faulty(line, buffer, text, k)
      BY <1>10, LineFields DEF Incomplete, Faulty
    <3>2. QED
      BY <1>4, <3>1 DEF Complete
  <2>2. line.buffer = Terminate(text, i) /\ line.checked_index = i + 2
    <3>1. line.buffer = Terminate(buffer, i) /\ line.checked_index = i + 2
      BY <2>1, LineFields
    <3>2. buffer = text
      BY <1>10 DEF FirstLine
    <3>3. QED
      BY <3>1, <3>2
  <2>3. Len(text) \in Nat /\ k \in Nat /\ i \in Nat /\ i \in 0 .. Len(text) - 2 /\ i \in k .. Len(text)
    <3>1. Len(text) \in Nat
      BY <1>1
    <3>2. k \in Nat
      BY <1>1
    <3>3. QED
      BY <2>1, <3>1, <3>2
  <2>4. ret' = parse_requestline(SubSeq(text, 1, i))
    <3>1. CString(line.buffer, 0) = SubSeq(text, 1, i)
      BY <1>1, <2>2, <2>3, FirstString
    <3>2. checkstate = "CHECK_STATE_REQUESTLINE"
      BY <1>10 DEF FirstLine
    <3>3. QED
      BY <1>5, <1>7, <1>10, <3>1, <3>2
  <2>5. ret' \in {"NO_REQUEST", "BAD_REQUEST"}
    BY <2>4 DEF parse_requestline
  <2>6. Least(LineEnds(text)) = i + 2
    <3>1. \A e \in LineEnds(text) : e <= k \/ e >= i + 2
      BY <1>1, <1>2, <1>3, <2>1, <2>3, PlainText
    <3>2. \A e \in LineEnds(text) : i + 2 <= e
      <4>1. \A e \in LineEnds(text) : ~(e <= k)
        BY <1>3, <1>10
      <4>2. \A e \in LineEnds(text) : e \in Nat /\ e >= i + 2
        BY <1>1, <3>1, <4>1, EndsAreNumbers
      <4>3. QED
        BY <2>3, <4>2
    <3>3. i + 2 \in LineEnds(text)
      BY <1>1, <2>1, <2>3, EndsAndFaults
    <3>4. LineEnds(text) \in SUBSET Nat
      BY <1>1, EndsAreNumbers
    <3>5. QED
      BY <3>2, <3>3, <3>4, LeastIs
  <2>7. SubSeq(text', 1, Least(LineEnds(text')) - 2) = SubSeq(text, 1, i)
    <3>1. i + 2 - 2 = i
      BY <2>3
    <3>2. QED
      BY <1>5, <2>6, <3>1
  <2>8. AcceptsRequestLines'
    <3>1. SubSeq(text, 1, i) \in Seq(Symbol)
      BY <1>1, <2>3
    <3>2. (ret' = "NO_REQUEST") = IsRequestLine(SubSeq(text, 1, i))
      <4>1. parse_requestline(SubSeq(text, 1, i)) = "NO_REQUEST" <=> IsRequestLine(SubSeq(text, 1, i))
        BY <3>1, RequestLines
      <4>2. IsRequestLine(SubSeq(text, 1, i)) \in BOOLEAN
        BY DEF IsRequestLine
      <4>3. QED
        BY <2>4, <4>1, <4>2
    <3>3. QED
      BY <2>7, <3>2 DEF AcceptsRequestLines
  <2>9. ends' # {}
    BY <1>6, <1>10
  <2>10. /\ ret' # ""
         /\ checkstate' = "CHECK_STATE_REQUESTLINE" => caller' = "done"
    <3>1. CASE ret' = "NO_REQUEST"
      BY <1>5, <1>6, <3>1
    <3>2. CASE ret' = "BAD_REQUEST"
      BY <1>5, <1>6, <1>10, <3>2
    <3>3. QED
      BY <2>5, <3>1, <3>2
  <2>11. QED
    BY <2>8, <2>9, <2>10 DEF FirstLine
<1>11. QED
  BY <1>8, <1>9, <1>10

LEMMA FirstLineStep == ParserInv /\ FirstLine /\ Next => FirstLine'
BY ReadKeepsFirst, ParseKeepsFirst DEF Next

-----------------------------------------------------------------------------
(***************************************************************************)
(* All programs.                                                           *)
(***************************************************************************)
AllInv ==
  /\ program \in Program
  /\ ParserInv /\ FirstLine
  /\ DeadInv /\ F!TypeOK /\ SemInv /\ Q!TypeOK /\ LockerInv /\ WebInv
  /\ UniInv /\ UniFlags

\* A step of the whole is, for each program, a step of it or none.
LEMMA StepOfEach ==
  ASSUME [ProgramsNext]_allVars
  PROVE  /\ Next \/ UNCHANGED vars
         /\ D!Next \/ UNCHANGED deadLockVars
         /\ F!Next \/ UNCHANGED forkVars
         /\ S!Next \/ UNCHANGED semVars
         /\ Q!Next \/ UNCHANGED msgVars
         /\ L!Next \/ UNCHANGED lockerVars
         /\ W!Next \/ UNCHANGED webVars
         /\ U!Next \/ UNCHANGED uniVars
         /\ UNCHANGED program
<1>1. CASE UNCHANGED allVars
  BY <1>1 DEF allVars
<1>2. CASE ProgramsNext
  BY <1>2, Zenon DEF ProgramsNext, Only
<1>3. QED
  BY <1>1, <1>2

LEMMA AllInit == ProgramsInit => AllInv
<1> SUFFICES ASSUME ProgramsInit PROVE AllInv
  OBVIOUS
<1>1. program \in Program /\ Init /\ D!Init /\ F!Init /\ S!Init /\ Q!Init /\ L!Init /\ W!Init /\ U!Init
  BY DEF ProgramsInit
<1>2. QED
  BY <1>1, ParserInit, FirstLineInit, DeadInit, ForkMutexTypes, SemInit, MsgQueueTypes, LockerCorrect,
     WebServerCorrect, UniEventCorrect
     DEF AllInv

LEMMA AllStep == AllInv /\ [ProgramsNext]_allVars => AllInv'
<1> SUFFICES ASSUME AllInv, [ProgramsNext]_allVars PROVE AllInv'
  OBVIOUS
<1>1. /\ Next \/ UNCHANGED vars
      /\ D!Next \/ UNCHANGED deadLockVars
      /\ F!Next \/ UNCHANGED forkVars
      /\ S!Next \/ UNCHANGED semVars
      /\ Q!Next \/ UNCHANGED msgVars
      /\ L!Next \/ UNCHANGED lockerVars
      /\ W!Next \/ UNCHANGED webVars
      /\ U!Next \/ UNCHANGED uniVars
      /\ UNCHANGED program
  BY StepOfEach
<1>2. ParserInv' /\ FirstLine'
  BY <1>1, ParserStep, ParserUnchanged, FirstLineStep, FirstLineUnchanged DEF AllInv
<1>3. DeadInv'
  BY <1>1, DeadStep, DeadUnchanged DEF AllInv
<1>4. F!TypeOK' /\ Q!TypeOK'
  BY <1>1, ForkMutexTypes, MsgQueueTypes DEF AllInv
<1>5. SemInv'
  BY <1>1, SemStep, SemUnchanged DEF AllInv
<1>6. LockerInv' /\ WebInv'
  BY <1>1, LockerCorrect, WebServerCorrect DEF AllInv
<1>7. UniInv' /\ UniFlags'
  BY <1>1, UniEventCorrect DEF AllInv
<1>8. program' \in Program
  BY <1>1 DEF AllInv
<1>9. QED
  BY <1>2, <1>3, <1>4, <1>5, <1>6, <1>7, <1>8 DEF AllInv

\* The invariants of the small programs hold together in every state.
THEOREM ProgramsInvariance == ProgramsSpec => []AllInv
<1>1. ProgramsInit => AllInv
  BY AllInit
<1>2. AllInv /\ [ProgramsNext]_allVars => AllInv'
  BY AllStep
<1>3. QED
  BY <1>1, <1>2, PTL DEF ProgramsSpec

\* The variables of every small program stay in their types: the counts of the
\* semaphores and of the dead lock demo, and the pipe, stay within their bounds.
THEOREM ProgramsTypes == ProgramsSpec => []ProgramsTypeOK
<1>1. AllInv => ProgramsTypeOK
  <2> SUFFICES ASSUME AllInv PROVE ProgramsTypeOK
    OBVIOUS
  <2>1. program \in Program /\ TypeOK /\ F!TypeOK /\ Q!TypeOK
    BY DEF AllInv, ParserInv
  <2>2. D!TypeOK /\ S!TypeOK
    BY DeadTypeOK, SemFollows DEF AllInv
  <2>3. L!TypeOK /\ W!TypeOK /\ U!TypeOK
    BY LockerCorrect, WebServerCorrect, UniEventCorrect DEF AllInv
  <2>4. QED
    BY <2>1, <2>2, <2>3 DEF ProgramsTypeOK
<1>2. QED
  BY <1>1, ProgramsInvariance, PTL

\* parse_line: however what the client sends is split into reads, the lines it
\* has found are those of the text and it has gone past nothing faulty.
THEOREM LinesFound == ProgramsSpec => []LinesOfText
<1>1. AllInv => LinesOfText
  BY DEF AllInv, ParserInv
<1>2. QED
  BY <1>1, ProgramsInvariance, PTL

\* parse_requestline: once the first line has been answered, the answer says
\* whether it is a request line by the grammar.
THEOREM RequestsAccepted == ProgramsSpec => []AcceptsRequestLines
<1>1. AllInv => AcceptsRequestLines
  BY DEF AllInv, FirstLine
<1>2. QED
  BY <1>1, ProgramsInvariance, PTL

\* IPC_PRIVATE: the units of the semaphore and those that the kernel would give
\* back for a process sum up to one, and the processes exclude each other unless
\* a semop has failed.
THEOREM OneUnitOnly == ProgramsSpec => []OneUnit
<1>1. AllInv => OneUnit
  BY SemFollows DEF AllInv, OneUnit
<1>2. QED
  BY <1>1, ProgramsInvariance, PTL

\* webServer6_2: 200 OK goes out only if stat has found a file that others may
\* read, and with a buffer that was allocated and cleared, whatever the two
\* uninitialized variables hold and whatever becomes of the file.
THEOREM NothingUndefinedSent == ProgramsSpec => []SendsOnlyItsBuffer
<1>1. AllInv => SendsOnlyItsBuffer
  BY DEF AllInv, WebInv, SendsOnlyItsBuffer
<1>2. QED
  BY <1>1, ProgramsInvariance, PTL

\* deadLockDemo: where neither thread can move, both have ended with the counts
\* of one of the two serial orders, or each holds the mutex the other one waits
\* for.  (CanMove says when a step of a thread is enabled.)
THEOREM SerialOrCrossedAtRest == ProgramsSpec => []EndsSeriallyOrCrossed
<1>1. AllInv => EndsSeriallyOrCrossed
  BY DeadFollows DEF AllInv, EndsSeriallyOrCrossed
<1>2. QED
  BY <1>1, ProgramsInvariance, PTL

-----------------------------------------------------------------------------
(***************************************************************************)
(* What the liveness properties of these programs rest on: nobody waits    *)
(* for something that no process or thread is left to bring about.         *)
(***************************************************************************)

\* A mutex is held by a thread that is about to unlock it.
ForkWaits ==
  /\ mutex = "another" => another_at = "unlock"
  /\ mutex = "main" => main_at \in {"fork", "infork", "failed"}
  /\ mutex # "child"
  /\ child_at = "lock" => child_mutex = "none"

\* The only message stays in the queue until it is taken, and may be taken.
MsgWaits ==
  /\ parent_at = "fork" => child_at_queue = "none"
  /\ child_at_queue = "returned" => permitted /\ (queued \/ parent_at = "returned")

\* The mutex of cond is held by a thread whose next step gives it up.
CondWaits == c_mutex # "none" => calling[c_mutex] \in {"entered", "leaving"}

\* Signals in the pipe are still to be reported, and stop is read before the wait.
UniWaits ==
  /\ loop_at # "stopped" /\ pipe # <<>> => "pipefd" \in edges \cup events
  /\ loop_at = "wait" => events = {} /\ ~stop
  /\ loop_at = "stopped" => stop

NobodyForgotten == ForkWaits /\ MsgWaits /\ CondWaits /\ UniWaits

LEMMA ForkWaitsStep == F!TypeOK /\ ForkWaits /\ F!Next => ForkWaits'
BY DEF F!TypeOK, ForkWaits, F!Next, F!MainStep, F!ChildStep, F!Lock, F!Unlock, F!prepare, F!Fork,
       F!ForkFails, F!InforkParent, F!InforkChild, F!ChildLock, F!ChildExit, F!Wait

LEMMA MsgWaitsStep == Q!TypeOK /\ MsgWaits /\ Q!Next => MsgWaits'
BY DEF Q!TypeOK, MsgWaits, Q!Next, Q!fork, Q!msgsnd, Q!msgrcv

LEMMA CondWaitsStep == LockerInv /\ CondWaits /\ L!Next => CondWaits'
<1> SUFFICES ASSUME LockerInv, CondWaits, L!Next PROVE CondWaits'
  OBVIOUS
<1> USE DEF LockerInv, CondWaits, L!Goto
<1>1. ASSUME NEW t \in Caller,
             L!SemWait(t) \/ L!lock(t) \/ L!unlock(t) \/ L!Enter(t) \/ L!Sleep(t) \/ L!Relock(t)
               \/ L!Leave(t) \/ L!Wake(t) \/ L!SemWaitInterrupted(t)
      PROVE  CondWaits'
  BY <1>1 DEF L!SemWait, L!SemWaitInterrupted, L!lock, L!unlock, L!Enter, L!Sleep, L!Relock, L!Leave, L!Wake
<1>2. ASSUME NEW t \in Caller,
             L!SemWaitCall(t) \/ L!post(t) \/ L!LockCall(t) \/ L!CondWaitCall(t) \/ L!signal(t)
      PROVE  CondWaits'
  BY <1>2 DEF L!SemWaitCall, L!post, L!LockCall, L!CondWaitCall, L!signal
<1>3. QED
  BY <1>1, <1>2 DEF L!Next, L!Step

LEMMA UniWaitsStep == UniInv /\ UniFlags /\ UniWaits /\ U!Next => UniWaits'
<1> SUFFICES ASSUME UniInv, UniFlags, UniWaits, U!Next PROVE UniWaits'
  OBVIOUS
<1> USE DEF UniWaits, UniFlags
<1>1. CASE \E s \in U!Signal : U!SendSignal(s) \/ U!sig_handler(s)
  BY <1>1 DEF U!SendSignal, U!sig_handler
<1>2. CASE U!Connect
  BY <1>2 DEF U!Connect
<1>3. CASE U!epoll_wait
  BY <1>3 DEF U!epoll_wait, U!Readable, U!Source
<1>4. CASE U!accept
  BY <1>4 DEF U!accept, U!TakeEvent
<1>5. CASE U!ReadSignals
  BY <1>5 DEF U!ReadSignals, U!TakeEvent
<1>6. CASE U!EndOfEvents
  BY <1>6 DEF U!EndOfEvents
<1>7. QED
  BY <1>1, <1>2, <1>3, <1>4, <1>5, <1>6 DEF U!Next, U!Loop

LEMMA NobodyForgottenEver == ProgramsSpec => []NobodyForgotten
<1>1. ProgramsInit => NobodyForgotten
  BY DEF ProgramsInit, F!Init, Q!Init, L!Init, U!Init,
         NobodyForgotten, ForkWaits, MsgWaits, CondWaits, UniWaits
<1>2. ASSUME AllInv, NobodyForgotten, [ProgramsNext]_allVars
      PROVE  NobodyForgotten'
  <2>1. ForkWaits'
    BY <1>2, StepOfEach, ForkWaitsStep DEF AllInv, NobodyForgotten, ForkWaits, forkVars
  <2>2. MsgWaits'
    BY <1>2, StepOfEach, MsgWaitsStep DEF AllInv, NobodyForgotten, MsgWaits, msgVars
  <2>3. CondWaits'
    BY <1>2, StepOfEach, CondWaitsStep DEF AllInv, NobodyForgotten, CondWaits, lockerVars
  <2>4. UniWaits'
    BY <1>2, StepOfEach, UniWaitsStep DEF AllInv, NobodyForgotten, UniWaits, uniVars
  <2>5. QED
    BY <2>1, <2>2, <2>3, <2>4 DEF NobodyForgotten
<1>3. QED
  BY <1>1, <1>2, ProgramsInvariance, PTL DEF ProgramsSpec

\* multithreadForkDeadlock: wherever the second thread was when main forked, the
\* child finds its mutex free, and prepare waits for nobody but that thread, which
\* is then about to unlock.
THEOREM ForkedMutexIsFree ==
  ProgramsSpec => [](/\ child_at = "lock" => child_mutex = "none"
                     /\ main_at = "prepare" => mutex = "none" \/ another_at = "unlock")
<1>1. AllInv /\ NobodyForgotten =>
        /\ child_at = "lock" => child_mutex = "none"
        /\ main_at = "prepare" => mutex = "none" \/ another_at = "unlock"
  BY DEF AllInv, F!TypeOK, NobodyForgotten, ForkWaits
<1>2. QED
  BY <1>1, ProgramsInvariance, NobodyForgottenEver, PTL

\* IPC_PRIVATE: a process waits for a semaphore that is there only while the other
\* one is alive in the critical section, however often processes were killed or
\* interrupted before: the unit is never with the dead.
WaitsForTheLiving ==
  \A p \in S!Process :
    proc_at[p] = "P" /\ there /\ semval = 0
      => \E q \in S!Process \ {p} : proc_at[q] = "critical"

THEOREM UnitNeverWithTheDead == ProgramsSpec => []WaitsForTheLiving
<1>1. ASSUME SemInv, NEW p \in S!Process, proc_at[p] = "P", there, semval = 0
      PROVE  \E q \in S!Process \ {p} : proc_at[q] = "critical"
  <2>1. PICK q \in S!Process \ {p} : S!Process = {p, q}
    BY DEF S!Process
  <2>2. semadj[p] + semadj[q] = 1 /\ semadj[p] = Owed(p) /\ semadj[q] = Owed(q)
    <3>1. semadj["parent"] + semadj["child"] = 1 /\ semadj \in [S!Process -> Int]
      BY <1>1 DEF SemInv, SetThere, SemTypes, S!Process
    <3>2. {p, q} = {"parent", "child"}
      BY <2>1 DEF S!Process
    <3>3. \/ p = "parent" /\ q = "child"
          \/ p = "child" /\ q = "parent"
      BY <2>1, <3>2
    <3>4. semadj["parent"] \in Int /\ semadj["child"] \in Int
      BY <3>1 DEF S!Process
    <3>5. QED
      BY <1>1, <2>1, <3>1, <3>3, <3>4 DEF SemInv, SetThere
  <2>3. semadj[q] = 1
    BY <1>1, <2>2 DEF Owed
  <2>4. QED
    BY <2>2, <2>3 DEF Owed
<1>2. AllInv => WaitsForTheLiving
  BY <1>1 DEF AllInv, WaitsForTheLiving
<1>3. QED
  BY <1>2, ProgramsInvariance, PTL

\* msgQueueDemo: a message sent is there for the parent to take, whoever of the
\* two was first at the queue, or has been taken.
THEOREM MessageNotLost ==
  ProgramsSpec => [](child_at_queue = "returned" =>
                       (parent_at = "poll" /\ queued /\ permitted) \/ parent_at = "returned")
<1>1. AllInv /\ NobodyForgotten =>
        (child_at_queue = "returned" =>
           (parent_at = "poll" /\ queued /\ permitted) \/ parent_at = "returned")
  BY DEF AllInv, Q!TypeOK, NobodyForgotten, MsgWaits
<1>2. QED
  BY <1>1, ProgramsInvariance, NobodyForgottenEver, PTL

\* locker.h: whoever holds the mutex of cond, while a woken thread wants it back,
\* is inside wait and gives it up by its next step.
THEOREM WaitGivesMutexBack == ProgramsSpec => []CondWaits
<1>1. NobodyForgotten => CondWaits
  BY DEF NobodyForgotten
<1>2. QED
  BY <1>1, NobodyForgottenEver, PTL

\* unievent: from its delivery to the end a SIGTERM is on its way: in the pipe, with
\* the edge that makes the loop read it, or in stop_server, with which the loop is
\* not entered again; and no step loses it, but for a full pipe.
TermOnItsWay ==
  "TERM" \in pending \/ U!Holds("TERM", pipe) \/ stop \/ dropped

TermReported ==
  /\ U!Holds("TERM", pipe) /\ loop_at # "stopped" => "pipefd" \in edges \cup events
  /\ stop => loop_at # "wait"

THEOREM TermStaysOnItsWay ==
  ProgramsSpec => []TermReported /\ [][TermOnItsWay => TermOnItsWay']_allVars
<1>1. ASSUME UniInv, UniFlags, TermOnItsWay, U!Next
      PROVE  TermOnItsWay'
  <2> USE DEF TermOnItsWay, UniFlags
  <2>1. ASSUME NEW s \in U!Signal, U!sig_handler(s) PROVE TermOnItsWay'
    <3>1. pipe \in Seq(U!Signal) /\ Len(pipe) \in Nat /\ DOMAIN pipe = 1 .. Len(pipe)
      BY <1>1, LenProperties DEF UniInv
    <3>2. CASE Len(pipe) < PipeSize
      <4>1. pipe' = Append(pipe, s) /\ pending' = pending \ {s} /\ UNCHANGED <<stop, dropped>>
        BY <2>1, <3>2 DEF U!sig_handler
      <4>2. /\ DOMAIN pipe' = 1 .. Len(pipe) + 1
            /\ pipe'[Len(pipe) + 1] = s
            /\ \A k \in DOMAIN pipe : pipe'[k] = pipe[k]
        BY <3>1, <4>1, AppendProperties
      <4>3. U!Holds(s, pipe')
        BY <3>1, <4>2 DEF U!Holds
      <4>4. U!Holds("TERM", pipe) => U!Holds("TERM", pipe')
        BY <3>1, <4>2 DEF U!Holds
      <4>5. QED
        BY <1>1, <4>1, <4>3, <4>4
    <3>3. CASE ~(Len(pipe) < PipeSize)
      BY <1>1, <2>1, <3>3 DEF U!sig_handler
    <3>4. QED
      BY <3>2, <3>3
  <2>2. CASE U!ReadSignals
    BY <1>1, <2>2 DEF U!ReadSignals
  <2>3. CASE (\E s \in U!Signal : U!SendSignal(s)) \/ U!Connect \/ U!epoll_wait \/ U!accept
             \/ U!EndOfEvents
    BY <1>1, <2>3 DEF U!SendSignal, U!Connect, U!epoll_wait, U!accept, U!EndOfEvents
  <2>4. QED
    BY <1>1, <2>1, <2>2, <2>3 DEF U!Next, U!Loop
<1>2. AllInv /\ [ProgramsNext]_allVars => [TermOnItsWay => TermOnItsWay']_allVars
  BY <1>1, StepOfEach DEF AllInv, TermOnItsWay, uniVars
<1>3. NobodyForgotten => TermReported
  BY DEF NobodyForgotten, UniWaits, TermReported, U!Holds
<1>4. QED
  BY <1>2, <1>3, ProgramsInvariance, NobodyForgottenEver, PTL DEF ProgramsSpec
=============================================================================
