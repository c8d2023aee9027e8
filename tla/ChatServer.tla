----------------------------- MODULE ChatServer -----------------------------
(***************************************************************************)
(* The multi-process chat server: the parent's event loop, composed with   *)
(* the tables it keeps (UserTable) and its children (ChatChild).           *)
(*                                                                         *)
(* A parent-side fd is named by what it is read for: "listen", "sig" (the  *)
(* read end of the pipe sig_handler writes to), and p for users[i].pipefd  *)
(* [0] of child p.  Pids are reused, so an event left over from a dead     *)
(* child may meet the pipe of the next child of that name, as it may meet  *)
(* a reused fd.  All fds are EPOLLIN | EPOLLET: see ChatChild.             *)
(***************************************************************************)
EXTENDS Integers, Sequences, FiniteSets

CONSTANTS
  Pid, NoPid, USER_LIMIT, RecvMax, PipeCap,   \* as in UserTable and ChatChild
  SigPipeCap,  \* signals that fit sig_pipefd
  MaxConn,     \* bound: connections opened
  MaxMsg,      \* bound: units of data sent by all clients
  MaxTerm,     \* bound: SIGTERM or SIGINT sent to the server
  MaxFail      \* bound: accepts and forks that fail

ASSUME ChatServerAssumption ==
  /\ USER_LIMIT \in Nat \ {0}
  /\ RecvMax \in Nat \ {0}
  /\ PipeCap \in Nat \ {0}
  /\ SigPipeCap \in Nat \ {0}
  /\ {MaxConn, MaxMsg, MaxTerm, MaxFail} \subseteq Nat
  /\ NoPid \notin Pid
  /\ Pid \cap {"listen", "sig"} = {}

VARIABLES
  users, sub_process, user_count,             \* the tables: see UserTable
  cpc, idx, stop_child, cready, cbatch,       \* the children: see ChatChild
  inbox, closed, up, down, eof, shm,
  ppc,          \* where the parent is
  ready,        \* its fds with an edge that epoll_wait has not returned
  batch,        \* the events of the current epoll_wait still to be handled
  stop_server, terminate,
  sigpend,      \* signals pending for the parent (a second one is merged)
  sigpipe,      \* signals sig_handler has put in sig_pipefd
  sigbuf,       \* signals[] still to be handled
  lost,         \* history: sig_pipefd was full when a SIGCHLD was handled
  backlog,      \* connections waiting for accept
  inherits,     \* the children whose parent ends p got from fork, unclosed
  conns, msgs, terms, fails, nforks            \* counters for the bounds

tables     == <<users, sub_process, user_count>>
loopVars   == <<cpc, idx, stop_child, cready, cbatch>>
wireVars   == <<inbox, closed, up, down, eof>>
childVars  == <<loopVars, wireVars, shm>>
pollVars   == <<ready, batch>>
flags      == <<stop_server, terminate>>
sigVars    == <<sigpend, sigpipe, sigbuf, lost>>
counters   == <<conns, msgs, terms, fails, nforks>>
parentVars == <<ppc, pollVars, flags, sigVars, backlog, inherits>>
vars       == <<tables, childVars, parentVars, counters>>

C == INSTANCE ChatChild
T == INSTANCE UserTable WITH children <- C!Unreaped, zombies <- C!Zombies

Gone(p) == cpc[p] \in {"none", "zombie"}

TypeOK ==
  /\ T!TypeOK
  /\ C!TypeOK
  /\ ppc \in {"poll", "batch", "sigs", "reap", "stopped"}
  /\ ready \subseteq Pid \cup {"listen", "sig"}
  /\ batch \subseteq Pid \cup {"listen", "sig"}
  /\ stop_server \in BOOLEAN
  /\ terminate \in BOOLEAN
  /\ sigpend \subseteq {"CHLD", "TERM"}
  /\ sigpipe \in Seq({"CHLD", "TERM"})
  /\ sigbuf \in Seq({"CHLD", "TERM"})
  /\ lost \in BOOLEAN
  /\ backlog \in 0 .. MaxConn
  /\ inherits \in [Pid -> SUBSET Pid]
  /\ conns \in 0 .. MaxConn
  /\ msgs \in 0 .. MaxMsg
  /\ terms \in 0 .. MaxTerm
  /\ fails \in 0 .. MaxFail
  /\ nforks \in Nat

\* main has set everything up and is about to enter its loop.
Init ==
  /\ C!Init
  /\ T!Init
  /\ ppc = "poll"
  /\ ready = {}
  /\ batch = {}
  /\ stop_server = FALSE
  /\ terminate = FALSE
  /\ sigpend = {}
  /\ sigpipe = <<>>
  /\ sigbuf = <<>>
  /\ lost = FALSE
  /\ backlog = 0
  /\ inherits = [p \in Pid |-> {}]
  /\ conns = 0 /\ msgs = 0 /\ terms = 0 /\ fails = 0 /\ nforks = 0

-----------------------------------------------------------------------------
(***************************************************************************)
(* The environment: connections, clients, whoever stops the server, and    *)
(* the kernel's signal delivery.                                           *)
(***************************************************************************)
Connect ==
  /\ ppc # "stopped"
  /\ conns < MaxConn
  /\ conns' = conns + 1
  /\ backlog' = backlog + 1
  /\ ready' = ready \cup {"listen"}
  /\ UNCHANGED <<tables, childVars, ppc, batch, flags, sigVars, inherits,
                 msgs, terms, fails, nforks>>

ClientSends(p) ==
  /\ msgs < MaxMsg
  /\ msgs' = msgs + 1
  /\ C!ClientSend(p, msgs)
  /\ UNCHANGED <<tables, parentVars, conns, terms, fails, nforks>>

ClientCloses(p) ==
  /\ C!ClientClose(p)
  /\ UNCHANGED <<tables, parentVars, counters>>

\* SIGTERM and SIGINT are handled alike.
Term ==
  /\ ppc # "stopped"
  /\ terms < MaxTerm
  /\ terms' = terms + 1
  /\ sigpend' = sigpend \cup {"TERM"}
  /\ UNCHANGED <<tables, childVars, ppc, pollVars, flags, sigpipe, sigbuf, lost,
                 backlog, inherits, conns, msgs, fails, nforks>>

PutSignals(k, s) ==    \* k bytes s; what does not fit the pipe is lost
  LET fit == IF Len(sigpipe) + k <= SigPipeCap THEN k ELSE SigPipeCap - Len(sigpipe)
  IN  sigpipe \o [i \in 1 .. fit |-> s]

\* sig_handler interrupts the parent and sends the signal into its own pipe.
SigHandler(s) ==
  /\ ppc # "stopped"
  /\ s \in sigpend
  /\ sigpend' = sigpend \ {s}
  /\ sigpipe' = PutSignals(1, s)
  /\ ready' = IF sigpipe' # sigpipe THEN ready \cup {"sig"} ELSE ready
  /\ lost' = (lost \/ (s = "CHLD" /\ sigpipe' = sigpipe))
  /\ UNCHANGED <<tables, childVars, ppc, batch, flags, sigbuf, backlog, inherits, counters>>

-----------------------------------------------------------------------------
(***************************************************************************)
(* The parent's loop.                                                      *)
(***************************************************************************)
ReadableSources == {p \in Pid : up[p] # <<>> \/ cpc[p] = "zombie"}
                     \cup (IF backlog > 0 THEN {"listen"} ELSE {})
                     \cup (IF sigpipe # <<>> THEN {"sig"} ELSE {})

\* epoll_wait; when a signal interrupts it (EINTR) it is simply called again.
PollReturns ==
  /\ ppc = "poll"
  /\ ready \cap ReadableSources # {}
  /\ batch' = ready \cap ReadableSources
  /\ ready' = {}
  /\ ppc' = "batch"
  /\ UNCHANGED <<tables, childVars, flags, sigVars, backlog, inherits, counters>>

\* while (!stop_server); del_resource and the exit of the parent follow.
EndBatch ==
  /\ ppc = "batch"
  /\ batch = {}
  /\ ppc' = IF stop_server THEN "stopped" ELSE "poll"
  /\ UNCHANGED <<tables, childVars, pollVars, flags, sigVars, backlog, inherits, counters>>

TakeEvent(s) ==
  /\ ppc = "batch"
  /\ s \in batch
  /\ batch' = batch \ {s}

\* The event on listenfd: one accept, whatever waits.  accept fails, ...
AcceptFails ==
  /\ TakeEvent("listen")
  /\ fails < MaxFail
  /\ fails' = fails + 1
  /\ UNCHANGED <<tables, childVars, ppc, ready, flags, sigVars, backlog, inherits,
                 conns, msgs, terms, nforks>>

\* ... there are too many users and the client is sent away, ...
TooManyUsers ==
  /\ TakeEvent("listen")
  /\ user_count >= USER_LIMIT
  /\ backlog' = backlog - 1
  /\ UNCHANGED <<tables, childVars, ppc, ready, flags, sigVars, inherits, counters>>

\* ... fork fails and the connection is closed (the two ends of the socketpair
\* are not, which nothing here depends on), ...
ForkFails ==
  /\ TakeEvent("listen")
  /\ user_count < USER_LIMIT
  /\ fails < MaxFail
  /\ fails' = fails + 1
  /\ backlog' = backlog - 1
  /\ UNCHANGED <<tables, childVars, ppc, ready, flags, sigVars, inherits,
                 conns, msgs, terms, nforks>>

\* Defective variant: the child is told user_count after it was incremented.
AcceptClientNextIndex(p) ==
  /\ TakeEvent("listen")
  /\ backlog' = backlog - 1
  /\ C!Fork(p, user_count + 1)
  /\ T!AddUser(p)
  /\ inherits' = [inherits EXCEPT ![p] = T!Listed]
  /\ nforks' = nforks + 1
  /\ UNCHANGED <<ppc, ready, flags, sigVars, conns, msgs, terms, fails>>

\* Defective variant: the child is told the number of its fork.
AcceptClientForkNumber(p) ==
  /\ TakeEvent("listen")
  /\ backlog' = backlog - 1
  /\ C!Fork(p, nforks % USER_LIMIT)
  /\ T!AddUser(p)
  /\ inherits' = [inherits EXCEPT ![p] = T!Listed]
  /\ nforks' = nforks + 1
  /\ UNCHANGED <<ppc, ready, flags, sigVars, conns, msgs, terms, fails>>

\* ... or child p is forked and entered in the tables.
AcceptClient(p) ==
  /\ TakeEvent("listen")
  /\ backlog' = backlog - 1
  /\ C!Fork(p, user_count)
  /\ T!AddUser(p)
  /\ inherits' = [inherits EXCEPT ![p] = T!Listed]
  /\ nforks' = nforks + 1
  /\ UNCHANGED <<ppc, ready, flags, sigVars, conns, msgs, terms, fails>>

\* Defective variant: the sender is not left out.
BroadcastToAll(p) ==
  /\ TakeEvent(p)
  /\ IF up[p] = <<>> THEN UNCHANGED <<up, down, cready>>
     ELSE /\ up' = [up EXCEPT ![p] = Tail(@)]
          /\ C!Announce(T!Listed, Head(up[p]))
  /\ UNCHANGED <<tables, cpc, idx, stop_child, cbatch, inbox, closed, eof, shm,
                 ppc, ready, flags, sigVars, backlog, inherits, counters>>

\* The event on the pipe of p: one int is read and sent to every other user.
\* At the end of file, or on a fd closed in this batch, nothing happens.
Broadcast(p) ==
  /\ TakeEvent(p)
  /\ IF up[p] = <<>> THEN UNCHANGED <<up, down, cready>>
     ELSE /\ up' = [up EXCEPT ![p] = Tail(@)]
          /\ C!Announce(T!Listed \ {p}, Head(up[p]))
  /\ UNCHANGED <<tables, cpc, idx, stop_child, cbatch, inbox, closed, eof, shm,
                 ppc, ready, flags, sigVars, backlog, inherits, counters>>

\* The event on sig_pipefd: all signals in the pipe are read at once.
ReadSignals ==
  /\ TakeEvent("sig")
  /\ sigbuf' = sigpipe
  /\ sigpipe' = <<>>
  /\ ppc' = "sigs"
  /\ UNCHANGED <<tables, childVars, ready, flags, sigpend, lost, backlog, inherits, counters>>

TakeSignal(s) ==
  /\ ppc = "sigs"
  /\ sigbuf # <<>>
  /\ Head(sigbuf) = s
  /\ sigbuf' = Tail(sigbuf)

HandleSigchld ==
  /\ TakeSignal("CHLD")
  /\ ppc' = "reap"
  /\ UNCHANGED <<tables, childVars, pollVars, flags, sigpend, sigpipe, lost, backlog,
                 inherits, counters>>

\* Defective variant: SIGCHLD is taken for the death of one child.
ReapOnlyOne(p) ==
  /\ ppc = "reap"
  /\ C!Reap(p)
  /\ T!RemoveUser(p)
  /\ ready' = ready \ {p}
  /\ inherits' = [q \in Pid |-> inherits[q] \ {p}]
  /\ ppc' = "sigs"
  /\ stop_server' = (stop_server \/ (terminate /\ user_count' = 0))
  /\ UNCHANGED <<batch, terminate, sigVars, backlog, counters>>

\* Defective variant: the last user does not fill the hole.
ReapNoFixup(p) ==
  /\ ppc = "reap"
  /\ C!Reap(p)
  /\ T!RemoveUserNoFixup(p)
  /\ ready' = ready \ {p}
  /\ inherits' = [q \in Pid |-> inherits[q] \ {p}]
  /\ UNCHANGED <<ppc, batch, flags, sigVars, backlog, counters>>

\* waitpid(-1, WNOHANG) found dead child p.
Reap(p) ==
  /\ ppc = "reap"
  /\ C!Reap(p)
  /\ T!RemoveUser(p)
  /\ ready' = ready \ {p}                          \* EPOLL_CTL_DEL
  /\ inherits' = [q \in Pid |-> inherits[q] \ {p}]
  /\ UNCHANGED <<ppc, batch, flags, sigVars, backlog, counters>>

\* Defective variant: the last departure after SIGTERM stops nothing.
ReapDoneForgetsStop ==
  /\ ppc = "reap"
  /\ \A p \in Pid : cpc[p] # "zombie"
  /\ ppc' = "sigs"
  /\ UNCHANGED <<tables, childVars, pollVars, flags, sigVars, backlog, inherits, counters>>

\* waitpid found none.
ReapDone ==
  /\ ppc = "reap"
  /\ \A p \in Pid : cpc[p] # "zombie"
  /\ ppc' = "sigs"
  /\ stop_server' = (stop_server \/ (terminate /\ user_count = 0))
  /\ UNCHANGED <<tables, childVars, pollVars, terminate, sigVars, backlog, inherits, counters>>

\* SIGTERM or SIGINT without users.
StopServer ==
  /\ TakeSignal("TERM")
  /\ user_count = 0
  /\ stop_server' = TRUE
  /\ UNCHANGED <<tables, childVars, ppc, pollVars, terminate, sigpend, sigpipe, lost, backlog,
                 inherits, counters>>

\* SIGTERM or SIGINT with users: a SIGTERM to each.  A child that has not closed
\* its copy of sig_pipefd yet runs sig_handler and puts it in the parent's pipe.
\* The kills are one step: what the children do between two of them commutes.
KillChildren ==
  /\ TakeSignal("TERM")
  /\ user_count > 0
  /\ C!Terminate(T!Listed)
  /\ LET echoes == Cardinality({p \in T!Listed : cpc[p] = "forked"}) IN
       /\ sigpipe' = PutSignals(echoes, "TERM")
       /\ ready' = IF sigpipe' # sigpipe THEN ready \cup {"sig"} ELSE ready
  /\ terminate' = TRUE
  /\ UNCHANGED <<tables, ppc, batch, stop_server, sigpend, lost, backlog, inherits, counters>>

SignalsDone ==
  /\ ppc = "sigs"
  /\ sigbuf = <<>>
  /\ ppc' = "batch"
  /\ UNCHANGED <<tables, childVars, pollVars, flags, sigVars, backlog, inherits, counters>>

ParentStep ==
  \/ PollReturns \/ EndBatch
  \/ AcceptFails \/ TooManyUsers \/ ForkFails \/ \E p \in Pid : AcceptClient(p)
  \/ \E p \in Pid : Broadcast(p)
  \/ ReadSignals \/ HandleSigchld \/ (\E p \in Pid : Reap(p)) \/ ReapDone
  \/ StopServer \/ KillChildren \/ SignalsDone

-----------------------------------------------------------------------------
(***************************************************************************)
(* The children's steps, and what the parent notices of them.              *)
(***************************************************************************)
Unnoticed == UNCHANGED <<tables, parentVars, counters>>

ChildLoop(p) ==
  /\ \/ C!CloseInherited(p)
     \/ C!InstallHandler(p)
     \/ C!CheckStop(p)
     \/ C!EnterWait(p)
     \/ C!WaitReturns(p)
     \/ C!WipeSegment(p)
     \/ C!Relay(p)
     \/ C!EndBatch(p)
  /\ Unnoticed

\* An int in the pipe of p is an edge on the parent's end.
RecvFromClient(p) ==
  /\ C!RecvFromClient(p)
  /\ ready' = IF up' # up /\ ppc # "stopped" THEN ready \cup {p} ELSE ready
  /\ UNCHANGED <<tables, ppc, batch, flags, sigVars, backlog, inherits, counters>>

\* So is the end of file that its exit leaves there; its parent gets SIGCHLD.
Exit(p) ==
  /\ C!Exit(p)
  /\ IF ppc = "stopped" THEN UNCHANGED <<ready, sigpend>>
     ELSE /\ ready' = ready \cup {p}
          /\ sigpend' = sigpend \cup {"CHLD"}
  /\ UNCHANGED <<tables, ppc, batch, flags, sigpipe, sigbuf, lost, backlog, inherits, counters>>

\* Defective variant: the child does not close its own copy of pipefd[0].
HoldersWithItself(p) == {q \in Pid : cpc[q] \in C!Running /\ (p \in inherits[q] \/ q = p)}

\* The parent's end of p's pipe is held by the parent, by the children forked
\* while p was listed, and by p itself until it has closed what it inherited.
Holders(p) == {q \in Pid : /\ cpc[q] \in C!Running
                           /\ p \in inherits[q] \/ (q = p /\ cpc[p] = "forked")}

HangUp(p) ==
  /\ ppc = "stopped"
  /\ Holders(p) = {}
  /\ C!HangUp(p)
  /\ Unnoticed

ChildStep(p) == ChildLoop(p) \/ RecvFromClient(p) \/ Exit(p) \/ HangUp(p)

Environment ==
  \/ Connect
  \/ \E p \in Pid : ClientSends(p) \/ ClientCloses(p)
  \/ Term

Next ==
  \/ Environment
  \/ \E s \in {"CHLD", "TERM"} : SigHandler(s)
  \/ ParentStep
  \/ \E p \in Pid : ChildStep(p)

Spec == Init /\ [][Next]_vars

\* Every process gets the processor, and pending signals are delivered.  Nobody
\* has to connect, to send, to leave or to stop the server.
Fairness ==
  /\ WF_vars(ParentStep)
  /\ \A s \in {"CHLD", "TERM"} : WF_vars(SigHandler(s))
  /\ \A p \in Pid : WF_vars(ChildStep(p))

FairSpec == Spec /\ Fairness

-----------------------------------------------------------------------------
(***************************************************************************)
(* Through all that happens around them the tables are kept as UserTable   *)
(* says, where TableOK, CountsChildren and SlotsOnlyMoveDown hold: a child *)
(* exits, is reported and is waited for long after the parent last looked. *)
(***************************************************************************)
ImplementsUserTable == T!Spec

(***************************************************************************)
(* A child keeps for life the index it was forked with, the table does     *)
(* not.  Its entry is never above that index, so that an index below       *)
(* user_count at fork stays the index of a segment (idx * BUFFER_SIZE      *)
(* inside the mapping) however often users are moved.                      *)
(***************************************************************************)
SlotBelowIdx == \A p \in C!Unreaped : sub_process[p] <= idx[p]

(***************************************************************************)
(* Until the first client has left, every child has a segment of its own,  *)
(* and no child is told to relay its own segment, wherever in the pipes    *)
(* the announcement is.  (Once a client has left, both can fail: see       *)
(* IdxIsUsersIndex.)                                                       *)
(***************************************************************************)
PrivateSegments ==
  nforks = user_count =>
    \A p \in C!Unreaped :
      /\ \A q \in C!Unreaped : idx[p] = idx[q] => p = q
      /\ \A k \in DOMAIN up[p] : up[p][k].idx = idx[p]
      /\ \A k \in DOMAIN down[p] : down[p][k].idx # idx[p]

(***************************************************************************)
(* A child sends what it finds in the segment when it gets round to it,    *)
(* and the owner may have wiped or filled it meanwhile.  As long as the    *)
(* segments are private, that is either what was announced, or nothing, or *)
(* later data of the same client: never data older than the announcement.  *)
(***************************************************************************)
RelaysNothingOlder ==
  [][\A p \in Pid :
       /\ C!Relay(p) /\ down[p] # <<>>
       /\ nforks = user_count
       => LET a == Head(down[p])
              found == shm[a.idx]
          IN found = a.data \/ found = C!Blank \/ Head(found) > Head(a.data)]_vars

(***************************************************************************)
(* SIGCHLDs are merged while pending and several deaths may be reported by *)
(* one; yet a dead child is always still to be reported: somewhere between *)
(* the kernel and the waitpid loop there is a SIGCHLD, and if it is in the *)
(* pipe the edge that makes the parent read it is not lost.  (A SIGCHLD    *)
(* that finds the pipe full is lost.)                                      *)
(***************************************************************************)
InSeq(s, seq) == \E k \in DOMAIN seq : seq[k] = s

DeathReported ==
  (ppc # "stopped" /\ ~lost /\ \E p \in Pid : cpc[p] = "zombie") =>
    \/ "CHLD" \in sigpend
    \/ InSeq("CHLD", sigpipe) /\ "sig" \in ready \cup batch
    \/ InSeq("CHLD", sigbuf)
    \/ ppc = "reap"

\* Every dead child is waited for, unless its SIGCHLD is lost or the server stops.
DeadChildReaped ==
  \A p \in Pid : cpc[p] = "zombie" ~> (cpc[p] # "zombie" \/ lost \/ ppc = "stopped")

\* Once SIGTERM has been handled and the last client has left, the server stops.
DrainedServerStops == (terminate /\ user_count = 0) ~> ppc = "stopped"

(***************************************************************************)
(* No child outlives the server for ever.  One may be forked in the very   *)
(* batch that stops it; it ends because the parent's end of its pipe is    *)
(* closed with the parent and no other process holds a copy.               *)
(***************************************************************************)
OrphansExit == ppc = "stopped" ~> \A p \in Pid : Gone(p)

-----------------------------------------------------------------------------
(***************************************************************************)
(* What comments of the program say and its behaviours contradict.         *)
(***************************************************************************)

\* "idx: the index in users of the client the child process is handling" (the
\* comment of run_child): not after the entry has been moved.
IdxIsUsersIndex == \A p \in C!Unreaped : users[idx[p]] = p

\* "when a client makes a request, accept and fork a child to handle it" (in
\* main): not for the second of two connections reported as one event.
ConnectionsAccepted == backlog > 0 ~> (backlog = 0 \/ ppc = "stopped")

\* "stop a child process" (of child_term_handler): not when the signal arrives
\* between the test of stop_child and epoll_wait.
StoppedChildExits == \A p \in Pid : stop_child[p] ~> Gone(p)
=============================================================================
