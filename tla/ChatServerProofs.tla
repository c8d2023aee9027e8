--------------------------- MODULE ChatServerProofs ---------------------------
(***************************************************************************)
(* Proofs about ChatServer, for any set of pids, any limits and any number *)
(* of connections, messages and signals.                                   *)
(*                                                                         *)
(* Only AcceptClient and Reap touch the tables or the set of children the  *)
(* parent has not waited for; every other step is Quiet, and of the Quiet  *)
(* ones only Exit adds to the children that have ended.  AcceptClient is   *)
(* AddUser, Exit is ChildExits and Reap is RemoveUser of UserTable, which  *)
(* carries over what UserTableProofs proves of the tables.                 *)
(***************************************************************************)
EXTENDS ChatServer, TLAPS

TP == INSTANCE UserTableProofs WITH children <- C!Unreaped, zombies <- C!Zombies

\* The part of TypeOK the proofs need: where the children are, and their indices.
LoopTypeOK ==
  /\ cpc \in [Pid -> C!CPC]
  /\ idx \in [Pid -> C!Segment]

\* A step that leaves the tables and the set of children as they are.
Quiet == UNCHANGED <<tables, idx, C!Unreaped>> /\ cpc' \in [Pid -> C!CPC]

-----------------------------------------------------------------------------
\* Child p goes from one place of its run to another.
LEMMA MoveIsQuiet ==
  ASSUME LoopTypeOK, NEW p \in Pid, NEW s \in C!CPC, s # "none", cpc[p] # "none",
         cpc' = [cpc EXCEPT ![p] = s], UNCHANGED <<tables, idx>>
  PROVE  Quiet
BY DEF LoopTypeOK, Quiet, C!Unreaped

LEMMA MoveEndsNone ==
  ASSUME LoopTypeOK, NEW p \in Pid, NEW s, s \notin {"none", "zombie"}, s \in C!CPC,
         cpc[p] \notin {"none", "zombie"}, cpc' = [cpc EXCEPT ![p] = s], UNCHANGED <<tables, idx>>
  PROVE  Quiet /\ UNCHANGED C!Zombies
BY DEF LoopTypeOK, Quiet, C!Unreaped, C!Zombies

LEMMA ChildStepIsQuiet ==
  ASSUME LoopTypeOK, NEW p \in Pid, ChildStep(p)
  PROVE  Quiet /\ (Exit(p) \/ UNCHANGED C!Zombies)
<1> USE DEF LoopTypeOK, C!CPC, C!Running, C!Handling
<1>1. CASE ChildLoop(p)
  <2>0. UNCHANGED tables
    BY <1>1 DEF ChildLoop, Unnoticed
  <2>1. CASE C!CloseInherited(p)
    BY <2>0, <2>1, MoveEndsNone DEF C!CloseInherited, tables
  <2>2. CASE C!InstallHandler(p)
    BY <2>0, <2>2, MoveEndsNone DEF C!InstallHandler, tables
  <2>3. CASE C!CheckStop(p)
    BY <2>0, <2>3, MoveEndsNone DEF C!CheckStop, tables
  <2>4. CASE C!EnterWait(p)
    BY <2>0, <2>4, MoveEndsNone DEF C!EnterWait, tables
  <2>5. CASE C!WaitReturns(p)
    BY <2>0, <2>5, MoveEndsNone DEF C!WaitReturns, tables
  <2>6. CASE C!WipeSegment(p)
    BY <2>0, <2>6, MoveEndsNone DEF C!WipeSegment, tables
  <2>7. CASE C!Relay(p)
    BY <2>0, <2>7 DEF C!Relay, Quiet, C!Unreaped, C!Zombies
  <2>8. CASE C!EndBatch(p)
    BY <2>0, <2>8, MoveEndsNone DEF C!EndBatch, tables
  <2>9. QED
    BY <1>1, <2>1, <2>2, <2>3, <2>4, <2>5, <2>6, <2>7, <2>8 DEF ChildLoop
<1>2. CASE RecvFromClient(p)
  <2>1. UNCHANGED tables /\ C!RecvFromClient(p)
    BY <1>2 DEF RecvFromClient
  <2>2. cpc[p] = "recv" /\ cpc' = [cpc EXCEPT ![p] = "handle"] /\ UNCHANGED idx
    BY <2>1 DEF C!RecvFromClient
  <2>3. QED
    BY <2>1, <2>2, MoveEndsNone DEF tables
<1>3. CASE Exit(p)
  BY <1>3, MoveIsQuiet DEF Exit, C!Exit, tables
<1>4. CASE HangUp(p)
  BY <1>4 DEF HangUp, C!HangUp, Unnoticed, Quiet, C!Unreaped, C!Zombies
<1>5. QED
  BY <1>1, <1>2, <1>3, <1>4 DEF ChildStep

LEMMA EnvironmentIsQuiet ==
  ASSUME LoopTypeOK, Environment
  PROVE  Quiet /\ UNCHANGED C!Zombies
<1> USE DEF LoopTypeOK, Quiet, C!Unreaped, C!Zombies
<1>1. CASE Connect
  BY <1>1 DEF Connect, childVars, loopVars
<1>2. ASSUME NEW p \in Pid, ClientSends(p) PROVE Quiet /\ UNCHANGED C!Zombies
  BY <1>2 DEF ClientSends, C!ClientSend
<1>3. ASSUME NEW p \in Pid, ClientCloses(p) PROVE Quiet /\ UNCHANGED C!Zombies
  BY <1>3 DEF ClientCloses, C!ClientClose
<1>4. CASE Term
  BY <1>4 DEF Term, childVars, loopVars
<1>5. QED
  BY <1>1, <1>2, <1>3, <1>4 DEF Environment

LEMMA ParentStepIsQuiet ==
  ASSUME LoopTypeOK, ParentStep
  PROVE  (Quiet /\ UNCHANGED C!Zombies) \/ \E p \in Pid : AcceptClient(p) \/ Reap(p)
<1> USE DEF LoopTypeOK, Quiet, C!Unreaped, C!Zombies
<1>1. CASE PollReturns
  BY <1>1 DEF PollReturns, childVars, loopVars
<1>2. CASE EndBatch
  BY <1>2 DEF EndBatch, childVars, loopVars
<1>3. CASE AcceptFails
  BY <1>3 DEF AcceptFails, childVars, loopVars
<1>4. CASE TooManyUsers
  BY <1>4 DEF TooManyUsers, childVars, loopVars
<1>5. CASE ForkFails
  BY <1>5 DEF ForkFails, childVars, loopVars
<1>6. ASSUME NEW p \in Pid, Broadcast(p) PROVE Quiet /\ UNCHANGED C!Zombies
  BY <1>6 DEF Broadcast
<1>7. CASE ReadSignals
  BY <1>7 DEF ReadSignals, childVars, loopVars
<1>8. CASE HandleSigchld
  BY <1>8 DEF HandleSigchld, childVars, loopVars
<1>9. CASE ReapDone
  BY <1>9 DEF ReapDone, childVars, loopVars
<1>10. CASE StopServer
  BY <1>10 DEF StopServer, childVars, loopVars
<1>11. CASE KillChildren
  <2>1. UNCHANGED tables /\ C!Terminate(T!Listed)
    BY <1>11 DEF KillChildren
  <2>2. UNCHANGED idx
    BY <2>1 DEF C!Terminate
  <2>3. cpc' = [p \in Pid |-> IF p \in T!Listed /\ cpc[p] = "wait" THEN "check" ELSE cpc[p]]
    BY <2>1 DEF C!Terminate
  <2>4. /\ cpc' \in [Pid -> C!CPC]
        /\ \A p \in Pid : /\ cpc'[p] = "none" <=> cpc[p] = "none"
                          /\ cpc'[p] = "zombie" <=> cpc[p] = "zombie"
    BY <2>3 DEF C!CPC, C!Running, C!Handling
  <2>5. QED
    BY <2>1, <2>2, <2>4
<1>12. CASE SignalsDone
  BY <1>12 DEF SignalsDone, childVars, loopVars
<1>13. QED
  BY <1>1, <1>2, <1>3, <1>4, <1>5, <1>6, <1>7, <1>8, <1>9, <1>10, <1>11, <1>12
     DEF ParentStep

LEMMA QuietSteps ==
  ASSUME LoopTypeOK, [Next]_vars
  PROVE  \/ Quiet /\ UNCHANGED C!Zombies
         \/ \E p \in Pid : (Exit(p) /\ Quiet) \/ AcceptClient(p) \/ Reap(p)
<1>1. CASE Environment
  BY <1>1, EnvironmentIsQuiet
<1>2. ASSUME NEW s \in {"CHLD", "TERM"}, SigHandler(s) PROVE Quiet /\ UNCHANGED C!Zombies
  BY <1>2 DEF SigHandler, childVars, loopVars, LoopTypeOK, Quiet, C!Unreaped, C!Zombies
<1>3. CASE ParentStep
  BY <1>3, ParentStepIsQuiet
<1>4. ASSUME NEW p \in Pid, ChildStep(p) PROVE Quiet /\ (Exit(p) \/ UNCHANGED C!Zombies)
  BY <1>4, ChildStepIsQuiet
<1>5. CASE UNCHANGED vars
  BY <1>5 DEF vars, childVars, loopVars, LoopTypeOK, Quiet, C!Unreaped, C!Zombies
<1>6. QED
  BY <1>1, <1>2, <1>3, <1>4, <1>5 DEF Next

-----------------------------------------------------------------------------
\* AcceptClient is AddUser, with the number user_count for the child.
LEMMA AcceptIsAddUser ==
  ASSUME NEW p \in Pid, AcceptClient(p)
  PROVE  /\ TP!AddUser(p)
         /\ C!Fork(p, user_count)
BY DEF AcceptClient, T!AddUser, TP!AddUser

LEMMA ReapIsRemoveUser ==
  ASSUME NEW p \in Pid, Reap(p)
  PROVE  /\ TP!RemoveUser(p)
         /\ C!Reap(p)
BY DEF Reap, T!RemoveUser, TP!RemoveUser

LEMMA ExitIsChildExits ==
  ASSUME LoopTypeOK, NEW p \in Pid, Exit(p), Quiet
  PROVE  T!ChildExits(p) /\ TP!ChildExits(p)
<1>1. cpc[p] = "exit" /\ cpc' = [cpc EXCEPT ![p] = "zombie"] /\ UNCHANGED <<tables, C!Unreaped>>
  BY DEF Exit, C!Exit, Quiet
<1>2. p \in C!Unreaped \ C!Zombies /\ C!Zombies' = C!Zombies \cup {p}
  BY <1>1 DEF LoopTypeOK, C!Unreaped, C!Zombies
<1>3. QED
  BY <1>1, <1>2 DEF T!ChildExits, TP!ChildExits, tables

LEMMA LimitsInTP == TP!UserTableAssumption
BY ChatServerAssumption DEF TP!UserTableAssumption

(***************************************************************************)
(* The invariant: the tables as UserTable keeps them, the types of the     *)
(* children's places and indices, and no entry above its child's index.    *)
(***************************************************************************)
IInv ==
  /\ TP!IInv
  /\ LoopTypeOK
  /\ SlotBelowIdx

LEMMA InitIInv == Init => IInv
<1> SUFFICES ASSUME Init PROVE IInv
  OBVIOUS
<1>1. TP!Init
  BY DEF Init, T!Init, TP!Init, T!Idx, TP!Idx
<1>2. TP!IInv
  BY <1>1, LimitsInTP, TP!InitInv
<1>3. LoopTypeOK
  BY ChatServerAssumption
     DEF Init, C!Init, LoopTypeOK, C!CPC, C!Running, C!Handling, C!Segment
<1>4. SlotBelowIdx
  BY DEF Init, C!Init, C!Unreaped, SlotBelowIdx
<1>5. QED
  BY <1>2, <1>3, <1>4 DEF IInv

\* Entering p hands it the index at which it is entered.
LEMMA AcceptClientIInv ==
  ASSUME IInv, NEW p \in Pid, AcceptClient(p)
  PROVE  IInv'
<1>1. TP!IInv /\ LoopTypeOK /\ SlotBelowIdx
  BY DEF IInv
<1>2. TP!AddUser(p) /\ C!Fork(p, user_count)
  BY AcceptIsAddUser
<1>3. TP!IInv'
  BY <1>1, <1>2, LimitsInTP, TP!AddUserInv
<1>4. user_count \in C!Segment
  BY <1>1, <1>2, ChatServerAssumption DEF TP!IInv, TP!TypeOK, TP!AddUser, C!Segment
<1>5. LoopTypeOK'
  BY <1>1, <1>2, <1>4 DEF LoopTypeOK, C!Fork, C!CPC, C!Running
<1>6. SlotBelowIdx'
  <2> SUFFICES ASSUME NEW q \in C!Unreaped' PROVE sub_process'[q] <= idx'[q]
    BY DEF SlotBelowIdx
  <2>0. /\ cpc' = [cpc EXCEPT ![p] = "forked"] /\ idx' = [idx EXCEPT ![p] = user_count]
        /\ sub_process' = [sub_process EXCEPT ![p] = user_count]
        /\ sub_process \in [Pid -> TP!Idx \cup {-1}] /\ user_count \in Int
    BY <1>1, <1>2, <1>4 DEF C!Fork, TP!AddUser, TP!IInv, TP!TypeOK, C!Segment
  <2>1. CASE q = p
    BY <1>1, <2>0, <2>1 DEF LoopTypeOK, C!Unreaped
  <2>2. CASE q # p
    <3>1. q \in C!Unreaped
      BY <1>1, <2>0, <2>2 DEF LoopTypeOK, C!Unreaped
    <3>2. sub_process'[q] = sub_process[q] /\ idx'[q] = idx[q]
      BY <1>1, <2>0, <2>2, <3>1 DEF LoopTypeOK, C!Unreaped
    <3>3. QED
      BY <1>1, <3>1, <3>2 DEF SlotBelowIdx
  <2>3. QED
    BY <2>1, <2>2
<1>7. QED
  BY <1>3, <1>5, <1>6 DEF IInv

\* Taking p out can only move another child's entry down.
LEMMA ReapIInv ==
  ASSUME IInv, NEW p \in Pid, Reap(p)
  PROVE  IInv'
<1>1. TP!IInv /\ LoopTypeOK /\ SlotBelowIdx
  BY DEF IInv
<1>2. TP!RemoveUser(p) /\ C!Reap(p)
  BY ReapIsRemoveUser
<1>3. TP!IInv'
  BY <1>1, <1>2, LimitsInTP, TP!RemoveUserInv
<1>4. cpc' = [cpc EXCEPT ![p] = "none"] /\ idx' = [idx EXCEPT ![p] = 0]
  BY <1>2 DEF C!Reap
<1>5. LoopTypeOK'
  BY <1>1, <1>4, ChatServerAssumption DEF LoopTypeOK, C!CPC, C!Segment
<1>6. SlotBelowIdx'
  <2> SUFFICES ASSUME NEW q \in C!Unreaped' PROVE sub_process'[q] <= idx'[q]
    BY DEF SlotBelowIdx
  <2>1. q \in C!Unreaped /\ q # p /\ idx'[q] = idx[q] /\ idx[q] \in Int
    BY <1>1, <1>4 DEF LoopTypeOK, C!Unreaped, C!Segment
  <2>2. sub_process[q] <= idx[q] /\ sub_process[q] \in Int
    BY <1>1, <2>1, ChatServerAssumption
       DEF SlotBelowIdx, TP!IInv, TP!TypeOK, C!Unreaped, TP!Idx
  <2>3. sub_process'[q] \in Int
    BY <1>3, <2>1, ChatServerAssumption DEF TP!IInv, TP!TypeOK, C!Unreaped, TP!Idx
  <2>4. sub_process'[q] <= sub_process[q]
    BY <1>1, <1>2, <2>1, LimitsInTP, TP!RemoveUserMovesDown
  <2>5. QED
    BY <2>1, <2>2, <2>3, <2>4
<1>7. QED
  BY <1>3, <1>5, <1>6 DEF IInv

LEMMA QuietIInv ==
  ASSUME IInv, Quiet, UNCHANGED C!Zombies \/ \E p \in Pid : Exit(p)
  PROVE  IInv'
<1>2. TP!IInv'
  <2>1. ASSUME NEW p \in Pid, Exit(p) PROVE TP!IInv'
    BY <2>1, ExitIsChildExits, LimitsInTP, TP!ChildExitsInv DEF IInv
  <2>2. CASE UNCHANGED C!Zombies
    <3>1. UNCHANGED TP!tableVars
      BY <2>2 DEF Quiet, tables, TP!tableVars
    <3>2. QED
      BY <3>1, LimitsInTP, TP!StutterInv DEF IInv
  <2>3. QED
    BY <2>1, <2>2
<1>3. LoopTypeOK' /\ SlotBelowIdx'
  BY DEF IInv, Quiet, tables, LoopTypeOK, SlotBelowIdx
<1>4. QED
  BY <1>2, <1>3 DEF IInv

\* The invariant of the tables and of the indices holds in every state of the
\* server.
THEOREM Invariance == Spec => []IInv
<1>1. IInv /\ [Next]_vars => IInv'
  BY QuietSteps, AcceptClientIInv, ReapIInv, QuietIInv DEF IInv
<1>2. QED
  BY <1>1, InitIInv, PTL DEF Spec

\* A child's entry never climbs above the index the child was forked with.
THEOREM SlotsBelow == Spec => []SlotBelowIdx
<1>1. IInv => SlotBelowIdx
  BY DEF IInv
<1>2. QED
  BY <1>1, Invariance, PTL

\* No child, however the users were moved and however often pids were reused,
\* writes outside the USER_LIMIT segments of the mapping.
IdxInMapping == \A p \in Pid : idx[p] \in 0 .. USER_LIMIT - 1

THEOREM SegmentsInMapping == Spec => []IdxInMapping
<1>1. IInv => IdxInMapping
  BY DEF IInv, LoopTypeOK, C!Segment, IdxInMapping
<1>2. QED
  BY <1>1, Invariance, PTL

\* The server keeps its tables as UserTable says, although children die, and are
\* reported dead, between any two of its steps.
THEOREM Implementation == Spec => ImplementsUserTable
<1>1. Init => T!Init
  BY DEF Init
<1>2. ASSUME IInv, [Next]_vars
      PROVE  [T!Next]_(T!tableVars)
  <2>0. ASSUME NEW p \in Pid, Exit(p), Quiet PROVE T!Next
    BY <2>0, <1>2, ExitIsChildExits DEF IInv, T!Next
  <2>1. CASE Quiet /\ UNCHANGED C!Zombies
    BY <2>1 DEF Quiet, tables, T!tableVars
  <2>2. ASSUME NEW p \in Pid, AcceptClient(p) PROVE T!Next
    BY <2>2 DEF AcceptClient, T!Next
  <2>3. ASSUME NEW p \in Pid, Reap(p) PROVE T!Next
    BY <2>3 DEF Reap, T!Next
  <2>4. QED
    BY <1>2, <2>0, <2>1, <2>2, <2>3, QuietSteps DEF IInv
<1>3. QED
  BY <1>1, <1>2, Invariance, PTL DEF Spec, ImplementsUserTable, T!Spec

\* What UserTable says of the tables holds in the whole server.
LEMMA TablesOfServer == Spec => TP!Spec
<1>1. Init => TP!Init
  BY DEF Init, T!Init, TP!Init, T!Idx, TP!Idx
<1>2. ASSUME IInv, [Next]_vars
      PROVE  [TP!Next]_(TP!tableVars)
  <2>0. ASSUME NEW p \in Pid, Exit(p), Quiet PROVE TP!Next
    BY <2>0, <1>2, ExitIsChildExits DEF IInv, TP!Next
  <2>1. CASE Quiet /\ UNCHANGED C!Zombies
    BY <2>1 DEF Quiet, tables, TP!tableVars
  <2>2. ASSUME NEW p \in Pid, AcceptClient(p) PROVE TP!Next
    BY <2>2, AcceptIsAddUser DEF TP!Next
  <2>3. ASSUME NEW p \in Pid, Reap(p) PROVE TP!Next
    BY <2>3, ReapIsRemoveUser DEF TP!Next
  <2>4. QED
    BY <1>2, <2>0, <2>1, <2>2, <2>3, QuietSteps DEF IInv
<1>3. QED
  BY <1>1, <1>2, Invariance, PTL DEF Spec, TP!Spec

(***************************************************************************)
(* The children the server has forked, and not yet waited for, are the     *)
(* sessions of module Sessions: a client enters by accept, if there is     *)
(* room, and leaves when its own child has ended and is waited for.  What  *)
(* the rest of the server does changes nobody's.                           *)
(***************************************************************************)
THEOREM ServesSessions == Spec => TP!ImplementsSessions
BY TablesOfServer, LimitsInTP, TP!Implementation
=============================================================================
