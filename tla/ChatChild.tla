------------------------------ MODULE ChatChild ------------------------------
(***************************************************************************)
(* The child processes of the chat server: run_child, its epoll loop, the  *)
(* two fds it listens to ("conn", its client; "pipe", its parent) and the  *)
(* shared memory through which clients' data go from child to child.       *)
(*                                                                         *)
(* The system calls run_child makes are modelled as it uses them:          *)
(*   - its fds are registered EPOLLIN | EPOLLET.  cready holds the fds     *)
(*     with an edge epoll_wait has not returned yet; epoll_wait returns    *)
(*     those that are still readable and forgets all of them, and a fd     *)
(*     left with unread data is not reported again before new data come;   *)
(*   - a recv on the client takes at most RecvMax units of data (the       *)
(*     BUFFER_SIZE - 1 bytes of a segment), one on the pipe one int;       *)
(*   - a send on a full pipe of PipeCap ints fails and is not retried.     *)
(* A process that is killed or asserts is not modelled: children leave     *)
(* run_child by its return.                                                *)
(***************************************************************************)
EXTENDS Integers, Sequences

CONSTANTS
  Pid,         \* process ids
  USER_LIMIT,  \* segments of the shared memory
  RecvMax,     \* units of client data that fit a segment
  PipeCap      \* ints that fit one direction of a socketpair

VARIABLES
  cpc,         \* where each child is
  idx,         \* the argument idx of its run_child
  stop_child,  \* its copy of the global stop_child
  cready,      \* its fds with an edge that epoll_wait has not returned
  cbatch,      \* the events of the current epoll_wait still to be handled
  inbox,       \* data its client sent that it has not read
  closed,      \* its client has closed the connection
  up, down,    \* ints in its pipe, to the parent and from the parent
  eof,         \* nobody holds the parent's end of its pipe any more
  shm          \* share_mem, one segment of BUFFER_SIZE per idx

loopVars  == <<cpc, idx, stop_child, cready, cbatch>>
wireVars  == <<inbox, closed, up, down, eof>>
childVars == <<loopVars, wireVars, shm>>

Fd == {"conn", "pipe"}
Segment == 0 .. USER_LIMIT - 1
Blank == <<>>                        \* a segment after memset

\* An int in a pipe is the index of a segment.  data is a history value: what
\* the segment held when the int was sent to the parent.
Announcement == [idx : Segment, data : Seq(Nat)]

Handling == {"check", "enter", "wait", "handle", "recv"}  \* child_term_handler is installed
Running  == Handling \cup {"forked", "unhandled", "exit"}
CPC      == Running \cup {"none", "zombie"}

TypeOK ==
  /\ cpc \in [Pid -> CPC]
  /\ idx \in [Pid -> Segment]
  /\ stop_child \in [Pid -> BOOLEAN]
  /\ cready \in [Pid -> SUBSET Fd]
  /\ cbatch \in [Pid -> SUBSET Fd]
  /\ inbox \in [Pid -> Seq(Nat)]
  /\ closed \in [Pid -> BOOLEAN]
  /\ up \in [Pid -> Seq(Announcement)]
  /\ down \in [Pid -> Seq(Announcement)]
  /\ eof \in [Pid -> BOOLEAN]
  /\ shm \in [Segment -> Seq(Nat)]

Init ==
  /\ cpc = [p \in Pid |-> "none"]
  /\ idx = [p \in Pid |-> 0]
  /\ stop_child = [p \in Pid |-> FALSE]
  /\ cready = [p \in Pid |-> {}]
  /\ cbatch = [p \in Pid |-> {}]
  /\ inbox = [p \in Pid |-> <<>>]
  /\ closed = [p \in Pid |-> FALSE]
  /\ up = [p \in Pid |-> <<>>]
  /\ down = [p \in Pid |-> <<>>]
  /\ eof = [p \in Pid |-> FALSE]
  /\ shm = [i \in Segment |-> Blank]

\* The children the parent has not waited for.
Unreaped == {p \in Pid : cpc[p] # "none"}
Zombies  == {p \in Pid : cpc[p] = "zombie"}

\* A non-blocking send of one int: lost when the pipe is full.
Put(pipe, a) == IF Len(pipe) < PipeCap THEN Append(pipe, a) ELSE pipe

\* The fds of p on which a recv would find something, end of file included.
Readable(p) == {fd \in Fd : \/ fd = "conn" /\ (inbox[p] # <<>> \/ closed[p])
                            \/ fd = "pipe" /\ (down[p] # <<>> \/ eof[p])}

-----------------------------------------------------------------------------
(***************************************************************************)
(* The client.  Each arrival is an edge on the child's connection.         *)
(***************************************************************************)
Connected(p) == cpc[p] \in Running /\ ~closed[p]

ClientSend(p, m) ==
  /\ Connected(p)
  /\ inbox' = [inbox EXCEPT ![p] = Append(@, m)]
  /\ cready' = [cready EXCEPT ![p] = @ \cup {"conn"}]
  /\ UNCHANGED <<cpc, idx, stop_child, cbatch, closed, up, down, eof, shm>>

ClientClose(p) ==
  /\ Connected(p)
  /\ closed' = [closed EXCEPT ![p] = TRUE]
  /\ cready' = [cready EXCEPT ![p] = @ \cup {"conn"}]
  /\ UNCHANGED <<cpc, idx, stop_child, cbatch, inbox, up, down, eof, shm>>

-----------------------------------------------------------------------------
(***************************************************************************)
(* The life of child p, in the order of the code.                          *)
(***************************************************************************)

\* close(sig_pipefd[0]), close(sig_pipefd[1]): until here a signal still goes
\* through the inherited sig_handler into the parent's pipe.
CloseInherited(p) ==
  /\ cpc[p] = "forked"
  /\ cpc' = [cpc EXCEPT ![p] = "unhandled"]
  /\ UNCHANGED <<idx, stop_child, cready, cbatch, wireVars, shm>>

\* epoll_create, addfd of both fds, addsig(SIGTERM, child_term_handler).
InstallHandler(p) ==
  /\ cpc[p] = "unhandled"
  /\ cpc' = [cpc EXCEPT ![p] = "check"]
  /\ UNCHANGED <<idx, stop_child, cready, cbatch, wireVars, shm>>

\* while (!stop_child)
CheckStop(p) ==
  /\ cpc[p] = "check"
  /\ cpc' = [cpc EXCEPT ![p] = IF stop_child[p] THEN "exit" ELSE "enter"]
  /\ UNCHANGED <<idx, stop_child, cready, cbatch, wireVars, shm>>

\* The call of epoll_wait: the flag was read before, and is not read again
\* until the call returns.
EnterWait(p) ==
  /\ cpc[p] = "enter"
  /\ cpc' = [cpc EXCEPT ![p] = "wait"]
  /\ UNCHANGED <<idx, stop_child, cready, cbatch, wireVars, shm>>

WaitReturns(p) ==
  /\ cpc[p] = "wait"
  /\ cready[p] \cap Readable(p) # {}
  /\ cbatch' = [cbatch EXCEPT ![p] = cready[p] \cap Readable(p)]
  /\ cready' = [cready EXCEPT ![p] = {}]
  /\ cpc' = [cpc EXCEPT ![p] = "handle"]
  /\ UNCHANGED <<idx, stop_child, wireVars, shm>>

\* sockfd == connfd: the segment is wiped before it is known what recv brings.
WipeSegment(p) ==
  /\ cpc[p] = "handle"
  /\ "conn" \in cbatch[p]
  /\ cbatch' = [cbatch EXCEPT ![p] = @ \ {"conn"}]
  /\ shm' = [shm EXCEPT ![idx[p]] = Blank]
  /\ cpc' = [cpc EXCEPT ![p] = "recv"]
  /\ UNCHANGED <<idx, stop_child, cready, wireVars>>

\* Defective variant: every child fills the first segment.
RecvFromClientAtStart(p) ==
  LET n    == IF Len(inbox[p]) < RecvMax THEN Len(inbox[p]) ELSE RecvMax
      data == SubSeq(inbox[p], 1, n)
  IN
  /\ cpc[p] = "recv"
  /\ inbox[p] # <<>>
  /\ cpc' = [cpc EXCEPT ![p] = "handle"]
  /\ inbox' = [inbox EXCEPT ![p] = SubSeq(@, n + 1, Len(@))]
  /\ shm' = [shm EXCEPT ![0] = data]
  /\ up' = [up EXCEPT ![p] = Put(@, [idx |-> idx[p], data |-> data])]
  /\ UNCHANGED <<stop_child, idx, cready, cbatch, closed, down, eof>>

\* recv into the segment and announce it, or learn that the client is gone (a
\* return of 0 and an error other than EAGAIN act alike; EAGAIN cannot happen,
\* epoll_wait having found the connection readable).
RecvFromClient(p) ==
  LET n    == IF Len(inbox[p]) < RecvMax THEN Len(inbox[p]) ELSE RecvMax
      data == SubSeq(inbox[p], 1, n)
  IN
  /\ cpc[p] = "recv"
  /\ cpc' = [cpc EXCEPT ![p] = "handle"]
  /\ \/ /\ inbox[p] # <<>>
        /\ inbox' = [inbox EXCEPT ![p] = SubSeq(@, n + 1, Len(@))]
        /\ shm' = [shm EXCEPT ![idx[p]] = data]
        /\ up' = [up EXCEPT ![p] = Put(@, [idx |-> idx[p], data |-> data])]
        /\ UNCHANGED stop_child
     \/ /\ inbox[p] = <<>>
        /\ stop_child' = [stop_child EXCEPT ![p] = TRUE]
        /\ UNCHANGED <<inbox, up, shm>>
  /\ UNCHANGED <<idx, cready, cbatch, closed, down, eof>>

\* sockfd == pipefd: one int is read and the segment it names is sent to the
\* client, or the parent's end is closed.
Relay(p) ==
  /\ cpc[p] = "handle"
  /\ "pipe" \in cbatch[p]
  /\ cbatch' = [cbatch EXCEPT ![p] = @ \ {"pipe"}]
  /\ \/ /\ down[p] # <<>>
        /\ down' = [down EXCEPT ![p] = Tail(@)]
        /\ UNCHANGED stop_child
     \/ /\ down[p] = <<>>
        /\ stop_child' = [stop_child EXCEPT ![p] = TRUE]
        /\ UNCHANGED down
  /\ UNCHANGED <<cpc, idx, cready, inbox, closed, up, eof, shm>>

EndBatch(p) ==
  /\ cpc[p] = "handle"
  /\ cbatch[p] = {}
  /\ cpc' = [cpc EXCEPT ![p] = "check"]
  /\ UNCHANGED <<idx, stop_child, cready, cbatch, wireVars, shm>>

\* run_child closes its fds and returns, the process exits.  Ints it sent stay
\* readable at the parent's end.  What nobody can see again is cleared.
Exit(p) ==
  /\ cpc[p] = "exit"
  /\ cpc' = [cpc EXCEPT ![p] = "zombie"]
  /\ stop_child' = [stop_child EXCEPT ![p] = FALSE]
  /\ cready' = [cready EXCEPT ![p] = {}]
  /\ inbox' = [inbox EXCEPT ![p] = <<>>]
  /\ down' = [down EXCEPT ![p] = <<>>]
  /\ closed' = [closed EXCEPT ![p] = FALSE]
  /\ eof' = [eof EXCEPT ![p] = FALSE]
  /\ UNCHANGED <<idx, cbatch, up, shm>>

-----------------------------------------------------------------------------
(***************************************************************************)
(* What the parent does to its children.                                   *)
(***************************************************************************)

\* accept, socketpair and fork: child p serves a new client as number i.
Fork(p, i) ==
  /\ cpc[p] = "none"
  /\ cpc' = [cpc EXCEPT ![p] = "forked"]
  /\ idx' = [idx EXCEPT ![p] = i]
  /\ UNCHANGED <<stop_child, cready, cbatch, wireVars, shm>>

\* waitpid and close(pipefd[0]): ints the parent has not read are lost.
Reap(p) ==
  /\ cpc[p] = "zombie"
  /\ cpc' = [cpc EXCEPT ![p] = "none"]
  /\ idx' = [idx EXCEPT ![p] = 0]
  /\ up' = [up EXCEPT ![p] = <<>>]
  /\ UNCHANGED <<stop_child, cready, cbatch, inbox, closed, down, eof, shm>>

\* SIGTERM for the children in K.  child_term_handler sets stop_child, and a
\* blocked epoll_wait returns with EINTR.  A child that is not handling yet
\* does not notice.
Terminate(K) ==
  /\ stop_child' = [p \in Pid |-> stop_child[p] \/ (p \in K /\ cpc[p] \in Handling)]
  /\ cpc' = [p \in Pid |-> IF p \in K /\ cpc[p] = "wait" THEN "check" ELSE cpc[p]]
  /\ UNCHANGED <<idx, cready, cbatch, wireVars, shm>>

\* The last process that held the parent's end of its pipe is gone.
HangUp(p) ==
  /\ cpc[p] \in Running
  /\ ~eof[p]
  /\ eof' = [eof EXCEPT ![p] = TRUE]
  /\ cready' = [cready EXCEPT ![p] = @ \cup {"pipe"}]
  /\ UNCHANGED <<cpc, idx, stop_child, cbatch, inbox, closed, up, down, shm>>

\* The parent sends announcement a down the pipes of the children in K; what is
\* dropped by a full pipe is no edge (a constraint on down and cready alone, the
\* caller takes a from a pipe).
Announce(K, a) ==
  LET Fits(p) == p \in K /\ cpc[p] \in Running /\ Len(down[p]) < PipeCap IN
  /\ down' = [p \in Pid |-> IF Fits(p) THEN Append(down[p], a) ELSE down[p]]
  /\ cready' = [p \in Pid |-> IF Fits(p) THEN cready[p] \cup {"pipe"} ELSE cready[p]]
=============================================================================
