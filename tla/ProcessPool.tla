----------------------------- MODULE ProcessPool -----------------------------
(***************************************************************************)
(* processpool<T>: a parent that is to hand connections to a fixed set of  *)
(* children, each with a pipe from the parent and an epoll loop.  Parent   *)
(* and children bring their signals into their loops through a pipe of     *)
(* their own.  What T does with a connection is not part of the pool.      *)
(*                                                                         *)
(* run_parent waits on its epoll set, to which nothing adds m_listenfd.    *)
(* Listening tells whether it is in that set: FALSE is the code as it is,  *)
(* TRUE lets the code that is there for its events be examined.            *)
(*                                                                         *)
(* fds are EPOLLIN | EPOLLET.  The order of the parent's events matters    *)
(* (the code uses an event's number), so its batch is a sequence.          *)
(***************************************************************************)
EXTENDS Integers, Sequences, FiniteSets

CONSTANTS
  m_process_number,
  Listening,
  PipeSize,     \* how many signals fit in the parent's signal pipe
  MaxConn,      \* bound: connections opened
  MaxTerm,      \* bound: SIGTERMs or SIGINTs sent to the parent
  MaxCrash      \* bound: children that die of something else

ASSUME ProcessPoolAssumption ==
  /\ m_process_number \in 1 .. 15
  /\ Listening \in BOOLEAN
  /\ PipeSize \in Nat \ {0}
  /\ {MaxConn, MaxTerm, MaxCrash} \subseteq Nat

VARIABLES
  m_pid,        \* m_sub_process[k].m_pid # -1
  sub_process_counter,
  m_stop,       \* the parent's
  ppc, ready, batch, number,   \* the parent's loop; number events were returned
  sigpend, sigpipe, sigbuf,    \* its signals: pending, in the pipe, read
  backlog,      \* connections waiting for accept
  cpc,          \* where each child is
  cready, cbatch,
  cstop,        \* its own m_stop
  csig,         \* a SIGTERM is in its signal pipe
  pipe,         \* how many ints its pipe holds
  served,       \* how many connections it has accepted
  lost,         \* history: a child died before the parent caught SIGCHLD
  dropped,      \* history: the signals that found the pipe full, none of their kind in it
  conns, terms, crashes        \* counters for the bounds

parentVars == <<m_pid, sub_process_counter, m_stop, ppc, batch, number, sigbuf>>
wakeVars   == <<ready, sigpend, sigpipe, lost, dropped>>
childVars  == <<cpc, cready, cbatch, cstop, csig, pipe, served>>
counters   == <<conns, terms, crashes>>
vars       == <<parentVars, wakeVars, childVars, backlog, counters>>

K == 0 .. m_process_number - 1
Alive(k) == cpc[k] \notin {"zombie", "gone"}

TypeOK ==
  /\ m_pid \in [K -> BOOLEAN]
  /\ sub_process_counter \in K
  /\ m_stop \in BOOLEAN
  /\ ppc \in {"setup", "poll", "batch", "sigs", "stopped"}
  /\ ready \subseteq {"listen", "sig"}
  /\ batch \in Seq({"listen", "sig"}) /\ number \in 0 .. 2
  /\ sigpend \subseteq {"CHLD", "TERM"}
  /\ sigpipe \in Seq({"CHLD", "TERM"}) /\ sigbuf \in Seq({"CHLD", "TERM"})
  /\ backlog \in 0 .. MaxConn
  /\ cpc \in [K -> {"born", "poll", "batch", "zombie", "gone"}]
  /\ cready \in [K -> SUBSET {"pipe", "sig"}] /\ cbatch \in [K -> SUBSET {"pipe", "sig"}]
  /\ cstop \in [K -> BOOLEAN] /\ csig \in [K -> BOOLEAN]
  /\ pipe \in [K -> 0 .. MaxConn] /\ served \in [K -> 0 .. MaxConn]
  /\ lost \in BOOLEAN /\ dropped \subseteq {"CHLD", "TERM"}
  /\ conns \in 0 .. MaxConn /\ terms \in 0 .. MaxTerm /\ crashes \in 0 .. MaxCrash

\* The constructor has forked all the children.
Init ==
  /\ m_pid = [k \in K |-> TRUE] /\ sub_process_counter = 0 /\ m_stop = FALSE
  /\ ppc = "setup" /\ ready = {} /\ batch = <<>> /\ number = 0
  /\ sigpend = {} /\ sigpipe = <<>> /\ sigbuf = <<>>
  /\ backlog = 0
  /\ cpc = [k \in K |-> "born"]
  /\ cready = [k \in K |-> {}] /\ cbatch = [k \in K |-> {}]
  /\ cstop = [k \in K |-> FALSE] /\ csig = [k \in K |-> FALSE]
  /\ pipe = [k \in K |-> 0] /\ served = [k \in K |-> 0]
  /\ lost = FALSE /\ dropped = {}
  /\ conns = 0 /\ terms = 0 /\ crashes = 0

\* Children of D die: SIGCHLD for a parent that catches it.
Die(D) ==
  /\ sigpend' = IF D # {} /\ ppc \notin {"setup", "stopped"} THEN sigpend \cup {"CHLD"} ELSE sigpend
  /\ lost' = (lost \/ (D # {} /\ ppc = "setup"))

-----------------------------------------------------------------------------
(***************************************************************************)
(* Clients, signals, and children that crash.                              *)
(***************************************************************************)
Connect ==
  /\ ppc # "stopped"
  /\ conns < MaxConn
  /\ conns' = conns + 1
  /\ backlog' = backlog + 1
  /\ ready' = IF Listening THEN ready \cup {"listen"} ELSE ready
  /\ UNCHANGED <<parentVars, sigpend, sigpipe, lost, dropped, childVars, terms, crashes>>

Term ==
  /\ ppc \notin {"setup", "stopped"}
  /\ terms < MaxTerm
  /\ terms' = terms + 1
  /\ sigpend' = sigpend \cup {"TERM"}
  /\ UNCHANGED <<parentVars, ready, sigpipe, lost, dropped, childVars, backlog, conns, crashes>>

Crash(k) ==
  /\ Alive(k)
  /\ crashes < MaxCrash
  /\ crashes' = crashes + 1
  /\ cpc' = [cpc EXCEPT ![k] = "zombie"]
  /\ Die({k})
  /\ UNCHANGED <<parentVars, ready, sigpipe, dropped, cready, cbatch, cstop, csig, pipe, served,
                 backlog, conns, terms>>

InSeq(s, seq) == \E i \in DOMAIN seq : seq[i] = s

\* The pipe does not block: a signal that does not fit is gone, and makes no event.
SigHandler(s) ==
  /\ ppc # "stopped"
  /\ s \in sigpend
  /\ sigpend' = sigpend \ {s}
  /\ IF Len(sigpipe) < PipeSize
     THEN /\ sigpipe' = Append(sigpipe, s)
          /\ ready' = ready \cup {"sig"}
          /\ UNCHANGED dropped
     ELSE /\ dropped' = IF InSeq(s, sigpipe) THEN dropped ELSE dropped \cup {s}
          /\ UNCHANGED <<sigpipe, ready>>
  /\ UNCHANGED <<parentVars, lost, childVars, backlog, counters>>

-----------------------------------------------------------------------------
(***************************************************************************)
(* run_parent.                                                             *)
(***************************************************************************)
SetupSigPipe ==
  /\ ppc = "setup"
  /\ ppc' = "poll"
  /\ UNCHANGED <<m_pid, sub_process_counter, m_stop, batch, number, sigbuf, wakeVars,
                 childVars, backlog, counters>>

ReadableSources == (IF backlog > 0 THEN {"listen"} ELSE {})
                     \cup (IF sigpipe # <<>> THEN {"sig"} ELSE {})

PollReturns ==
  LET events == ready \cap ReadableSources IN
  /\ ppc = "poll"
  /\ events # {}
  /\ number' = Cardinality(events)
  /\ batch' \in {s \in [1 .. Cardinality(events) -> events] : \A e \in events : \E i \in DOMAIN s : s[i] = e}
  /\ ready' = {}
  /\ ppc' = "batch"
  /\ UNCHANGED <<m_pid, sub_process_counter, m_stop, sigbuf, sigpend, sigpipe, lost, dropped,
                 childVars, backlog, counters>>

\* The child round robin selects: the first one alive from sub_process_counter on.
Selected ==
  LET At(d) == (sub_process_counter + d) % m_process_number IN
  At(CHOOSE d \in K : m_pid[At(d)] /\ \A c \in 0 .. d - 1 : ~m_pid[At(c)])

\* One int for child k, if it is alive.
SendTo(k) ==
  IF k \in K /\ m_pid[k] /\ Alive(k)
  THEN /\ pipe' = [pipe EXCEPT ![k] = @ + 1]
       /\ cready' = [cready EXCEPT ![k] = @ \cup {"pipe"}]
  ELSE UNCHANGED <<pipe, cready>>

\* Defective variant: the counter is not wrapped around.
DispatchNoWrap ==
  /\ ppc = "batch"
  /\ batch # <<>> /\ Head(batch) = "listen"
  /\ \E k \in K : m_pid[k]
  /\ sub_process_counter' = Selected + 1
  /\ SendTo(number - Len(batch))
  /\ batch' = Tail(batch)
  /\ UNCHANGED <<m_pid, m_stop, ppc, number, sigbuf, wakeVars, cpc, cbatch, cstop, csig,
                 served, backlog, counters>>

\* An event on m_listenfd.  A child is selected, but the int goes to the one
\* whose number is that of the event.  (Event 1 of a pool of one child reads past
\* m_sub_process: what is sent, and where to, is then nobody's.)
Dispatch ==
  /\ ppc = "batch"
  /\ batch # <<>> /\ Head(batch) = "listen"
  /\ IF \E k \in K : m_pid[k]
     THEN /\ sub_process_counter' = (Selected + 1) % m_process_number
          /\ SendTo(number - Len(batch))
          /\ batch' = Tail(batch)
          /\ UNCHANGED m_stop
     ELSE /\ m_stop' = TRUE
          /\ batch' = <<>>
          /\ UNCHANGED <<sub_process_counter, pipe, cready>>
  /\ UNCHANGED <<m_pid, ppc, number, sigbuf, wakeVars, cpc, cbatch, cstop, csig, served,
                 backlog, counters>>

\* Defective variant: one signal is read, the edge has gone for all.
ReadOneSignal ==
  /\ ppc = "batch"
  /\ batch # <<>> /\ Head(batch) = "sig"
  /\ batch' = Tail(batch)
  /\ sigbuf' = <<Head(sigpipe)>>
  /\ sigpipe' = Tail(sigpipe)
  /\ ppc' = "sigs"
  /\ UNCHANGED <<m_pid, sub_process_counter, m_stop, number, ready, sigpend, lost, dropped,
                 childVars, backlog, counters>>

ReadSignals ==
  /\ ppc = "batch"
  /\ batch # <<>> /\ Head(batch) = "sig"
  /\ batch' = Tail(batch)
  /\ sigbuf' = sigpipe
  /\ sigpipe' = <<>>
  /\ ppc' = "sigs"
  /\ UNCHANGED <<m_pid, sub_process_counter, m_stop, number, ready, sigpend, lost, dropped,
                 childVars, backlog, counters>>

TakeSignal(s) ==
  /\ ppc = "sigs"
  /\ sigbuf # <<>>
  /\ Head(sigbuf) = s
  /\ sigbuf' = Tail(sigbuf)

Zombies == {k \in K : cpc[k] = "zombie"}

\* Defective variant: one waitpid for a SIGCHLD.
HandleSigchldOnce ==
  /\ TakeSignal("CHLD")
  /\ LET reaped == IF Zombies = {} THEN {} ELSE {CHOOSE k \in Zombies : TRUE} IN
       /\ cpc' = [k \in K |-> IF k \in reaped THEN "gone" ELSE cpc[k]]
       /\ m_pid' = [k \in K |-> m_pid[k] /\ k \notin reaped]
  /\ m_stop' = \A k \in K : ~m_pid'[k]
  /\ UNCHANGED <<sub_process_counter, ppc, batch, number, wakeVars, cready, cbatch, cstop,
                 csig, pipe, served, backlog, counters>>

\* Defective variant: the children that are left are not looked at.
HandleSigchldStops ==
  /\ TakeSignal("CHLD")
  /\ cpc' = [k \in K |-> IF cpc[k] = "zombie" THEN "gone" ELSE cpc[k]]
  /\ m_pid' = [k \in K |-> m_pid[k] /\ cpc[k] # "zombie"]
  /\ m_stop' = TRUE
  /\ UNCHANGED <<sub_process_counter, ppc, batch, number, wakeVars, cready, cbatch, cstop,
                 csig, pipe, served, backlog, counters>>

\* All dead children are waited for; m_stop if no child is left.
HandleSigchld ==
  /\ TakeSignal("CHLD")
  /\ cpc' = [k \in K |-> IF cpc[k] = "zombie" THEN "gone" ELSE cpc[k]]
  /\ m_pid' = [k \in K |-> m_pid[k] /\ cpc[k] # "zombie"]
  /\ m_stop' = \A k \in K : ~m_pid'[k]
  /\ UNCHANGED <<sub_process_counter, ppc, batch, number, wakeVars, cready, cbatch, cstop,
                 csig, pipe, served, backlog, counters>>

\* SIGTERM to the children.  One that has not called run_child's setup_sig_pipe
\* yet dies of it, the others' handlers put it in their pipes.
KillChildren ==
  LET killed == {k \in K : m_pid[k] /\ cpc[k] = "born"}
      told   == {k \in K : m_pid[k] /\ cpc[k] \in {"poll", "batch"}}
  IN
  /\ TakeSignal("TERM")
  /\ cpc' = [k \in K |-> IF k \in killed THEN "zombie" ELSE cpc[k]]
  /\ csig' = [k \in K |-> csig[k] \/ k \in told]
  /\ cready' = [k \in K |-> IF k \in told THEN cready[k] \cup {"sig"} ELSE cready[k]]
  /\ Die(killed)
  /\ UNCHANGED <<m_pid, sub_process_counter, m_stop, ppc, batch, number, ready, sigpipe, dropped,
                 cbatch, cstop, pipe, served, backlog, counters>>

SignalsDone ==
  /\ ppc = "sigs"
  /\ sigbuf = <<>>
  /\ ppc' = "batch"
  /\ UNCHANGED <<m_pid, sub_process_counter, m_stop, batch, number, sigbuf, wakeVars,
                 childVars, backlog, counters>>

EndBatch ==
  /\ ppc = "batch"
  /\ batch = <<>>
  /\ ppc' = IF m_stop THEN "stopped" ELSE "poll"
  /\ UNCHANGED <<m_pid, sub_process_counter, m_stop, batch, number, sigbuf, wakeVars,
                 childVars, backlog, counters>>

ParentStep == SetupSigPipe \/ PollReturns \/ Dispatch \/ ReadSignals \/ HandleSigchld
                \/ KillChildren \/ SignalsDone \/ EndBatch

-----------------------------------------------------------------------------
(***************************************************************************)
(* run_child of child k.                                                   *)
(***************************************************************************)
ChildSetup(k) ==
  /\ cpc[k] = "born"
  /\ cpc' = [cpc EXCEPT ![k] = "poll"]
  /\ UNCHANGED <<parentVars, wakeVars, cready, cbatch, cstop, csig, pipe, served, backlog, counters>>

ChildPoll(k) ==
  LET events == {e \in cready[k] : (e = "pipe" => pipe[k] > 0) /\ (e = "sig" => csig[k])} IN
  /\ cpc[k] = "poll"
  /\ events # {}
  /\ cpc' = [cpc EXCEPT ![k] = "batch"]
  /\ cbatch' = [cbatch EXCEPT ![k] = events]
  /\ cready' = [cready EXCEPT ![k] = {}]
  /\ UNCHANGED <<parentVars, wakeVars, cstop, csig, pipe, served, backlog, counters>>

\* One int is read and one accept tried: it may find no connection (any more).
ChildAccept(k) ==
  /\ cpc[k] = "batch"
  /\ "pipe" \in cbatch[k]
  /\ cbatch' = [cbatch EXCEPT ![k] = @ \ {"pipe"}]
  /\ pipe' = [pipe EXCEPT ![k] = @ - 1]
  /\ IF backlog > 0
     THEN backlog' = backlog - 1 /\ served' = [served EXCEPT ![k] = @ + 1]
     ELSE UNCHANGED <<backlog, served>>
  /\ UNCHANGED <<parentVars, wakeVars, cpc, cready, cstop, csig, counters>>

\* Defective variant: a child in the middle of its batch overlooks the signal.
ChildSignalIgnored(k) ==
  /\ cpc[k] = "batch"
  /\ "sig" \in cbatch[k]
  /\ cbatch' = [cbatch EXCEPT ![k] = @ \ {"sig"}]
  /\ csig' = [csig EXCEPT ![k] = FALSE]
  /\ cstop' = [cstop EXCEPT ![k] = cbatch[k] = {"sig"}]
  /\ UNCHANGED <<parentVars, wakeVars, cpc, cready, pipe, served, backlog, counters>>

ChildSignal(k) ==
  /\ cpc[k] = "batch"
  /\ "sig" \in cbatch[k]
  /\ cbatch' = [cbatch EXCEPT ![k] = @ \ {"sig"}]
  /\ csig' = [csig EXCEPT ![k] = FALSE]
  /\ cstop' = [cstop EXCEPT ![k] = TRUE]
  /\ UNCHANGED <<parentVars, wakeVars, cpc, cready, pipe, served, backlog, counters>>

ChildEndBatch(k) ==
  /\ cpc[k] = "batch"
  /\ cbatch[k] = {}
  /\ cpc' = [cpc EXCEPT ![k] = IF cstop[k] THEN "zombie" ELSE "poll"]
  /\ Die(IF cstop[k] THEN {k} ELSE {})
  /\ UNCHANGED <<parentVars, ready, sigpipe, dropped, cready, cbatch, cstop, csig, pipe, served,
                 backlog, counters>>

ChildStep(k) == ChildSetup(k) \/ ChildPoll(k) \/ ChildAccept(k) \/ ChildSignal(k) \/ ChildEndBatch(k)

Next ==
  \/ Connect \/ Term
  \/ \E s \in {"CHLD", "TERM"} : SigHandler(s)
  \/ ParentStep
  \/ \E k \in K : Crash(k) \/ ChildStep(k)

Spec == Init /\ [][Next]_vars

\* Every process gets the processor and pending signals are delivered.
FairSpec ==
  /\ Spec
  /\ WF_vars(ParentStep)
  /\ \A s \in {"CHLD", "TERM"} : WF_vars(SigHandler(s))
  /\ \A k \in K : WF_vars(ChildStep(k))

-----------------------------------------------------------------------------
\* The parent is still to handle signal s.
Noted(s) ==
  \/ s \in sigpend
  \/ InSeq(s, sigpipe) /\ ("sig" \in ready \/ InSeq("sig", batch))
  \/ InSeq(s, sigbuf)

(***************************************************************************)
(* No child dies unnoticed: as long as there is one that was not waited    *)
(* for, its SIGCHLD, or a later one that serves as well, is pending, in    *)
(* the pipe with its event, or read.  SIGCHLDs that merge, m_stop taken    *)
(* back, a batch that Dispatch cuts short and a SIGCHLD dropped by a full  *)
(* pipe that holds another lose none.  (A child that died before the       *)
(* parent caught SIGCHLD may be missed, and a SIGCHLD dropped by a pipe    *)
(* that holds none.)                                                       *)
(***************************************************************************)
DeathsKnown ==
  ~lost /\ "CHLD" \notin dropped /\ ppc # "stopped" /\ Zombies # {} => Noted("CHLD")

(***************************************************************************)
(* The parent leaves its loop only when it has waited for every child,     *)
(* although m_stop is set and taken back while the SIGCHLDs of one batch   *)
(* are handled and events of that batch are still to come.                 *)
(***************************************************************************)
StopsLast == ppc = "stopped" => \A k \in K : cpc[k] = "gone"

(***************************************************************************)
(* A SIGTERM the parent has read ends the pool: unlike those of the chat   *)
(* server the children cannot miss theirs, it comes to them as an event.   *)
(* (Only a child whose SIGCHLD is missed, see DeathsKnown, may keep the    *)
(* parent waiting.)                                                        *)
(***************************************************************************)
TermStopsPool == InSeq("TERM", sigbuf) ~> (ppc = "stopped" \/ lost \/ "CHLD" \in dropped)

-----------------------------------------------------------------------------
\* "the parent listens on m_listenfd" (in run_parent): no connection is accepted.
PoolAccepts == backlog > 0 ~> (backlog = 0 \/ \A k \in K : ~Alive(k))
=============================================================================
