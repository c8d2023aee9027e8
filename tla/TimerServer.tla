----------------------------- MODULE TimerServer -----------------------------
(***************************************************************************)
(* The server of closeNonactiveConn: one process, one epoll loop, a timer  *)
(* per connection in a sort_timer_lst (module TimerList), and a SIGALRM    *)
(* TIMESLOT after each handling of the last, brought into the loop through *)
(* a pipe.                                                                 *)
(*                                                                         *)
(* Time is counted in seconds, as time() and alarm() do.  fds are EPOLLIN  *)
(* | EPOLLET: ready holds those with an edge that epoll_wait has not       *)
(* returned.  accept returns the lowest fd that is free.  A recv takes all *)
(* that has arrived.                                                       *)
(***************************************************************************)
EXTENDS Integers, Sequences, FiniteSets

CONSTANTS
  Timer, NULL, MaxTime,   \* as in TimerList
  TIMESLOT,               \* seconds from one alarm to the next
  PipeSize,               \* signals that fit into pipefd
  MaxFd,                  \* bound: connections open at a time
  MaxNow,                 \* bound: the clock
  MaxSend,                \* bound: messages of the clients
  MaxConn,                \* bound: connections opened
  MaxBack,                \* bound: times the clock is set back
  MaxTerm                 \* bound: SIGTERMs

Timeout == 3 * TIMESLOT
NoAlarm == -1
Fd == 1 .. MaxFd          \* the fds accept returns
listenfd == 0             \* these two names stand for fds not in Fd
pipefd == -1

ASSUME TimerServerAssumption ==
  /\ NULL \notin Timer /\ IsFiniteSet(Timer)
  /\ {MaxFd, MaxNow, MaxSend, MaxConn, MaxBack, MaxTerm} \subseteq Nat /\ MaxFd > 0
  /\ Cardinality(Timer) >= MaxFd
  /\ TIMESLOT \in Nat \ {0}
  /\ PipeSize \in Nat /\ PipeSize >= 2
  /\ MaxTime = MaxNow + Timeout

VARIABLES
  head, tail, next, prev, expire, alive, crashed,   \* timer_lst: see TimerList
  misordered,     \* history: the list has once been out of order
  timer,          \* users[fd].timer
  user_data,      \* timer->user_data, named by the fd
  open,           \* the connections that are open
  data, hup,      \* connections with unread data, and those their client closed
  backlog,        \* connections waiting for accept
  ready, batch,   \* edges, and the events still to be handled
  sigpend,        \* signals pending
  sigpipe,        \* signals in pipefd
  timeout, stop_server,
  alarm,          \* seconds until the alarm that is set rings, or NoAlarm
  now,            \* the clock
  since,          \* history: seconds since tick last read the clock
  ppc,            \* where the process is
  sends, conns, backs, terms  \* counters for the bounds

listVars  == <<head, tail, next, prev, expire, alive, crashed, misordered>>
connVars  == <<timer, user_data, open, data, hup>>
pollVars  == <<backlog, ready, batch>>
sigVars   == <<sigpend, sigpipe, timeout, stop_server>>
clockVars == <<alarm, now, since>>
counters  == <<sends, conns, backs, terms>>
vars      == <<listVars, connVars, pollVars, sigVars, clockVars, ppc, counters>>

L == INSTANCE TimerList

TypeOK ==
  /\ L!TypeOK
  /\ timer \in [Fd -> L!Ptr]
  /\ user_data \in [Timer -> Fd]
  /\ open \subseteq Fd /\ data \subseteq open /\ hup \subseteq open
  /\ backlog \in 0 .. MaxConn
  /\ ready \subseteq Fd \cup {listenfd, pipefd} /\ batch \subseteq Fd \cup {listenfd, pipefd}
  /\ sigpend \subseteq {"ALRM", "TERM"}
  /\ sigpipe \in Seq({"ALRM", "TERM"}) /\ Len(sigpipe) <= PipeSize
  /\ timeout \in BOOLEAN /\ stop_server \in BOOLEAN
  /\ alarm \in 0 .. TIMESLOT \cup {NoAlarm} /\ now \in 0 .. MaxNow /\ since \in Nat
  /\ ppc \in {"poll", "batch", "ticked", "stopped"}
  /\ misordered \in BOOLEAN
  /\ sends \in 0 .. MaxSend /\ conns \in 0 .. MaxConn /\ backs \in 0 .. MaxBack
  /\ terms \in 0 .. MaxTerm

\* The setup is done, the first alarm set, the loop about to be entered.
Init ==
  /\ L!Init
  /\ timer = [fd \in Fd |-> NULL] /\ user_data = [t \in Timer |-> 1]
  /\ open = {} /\ data = {} /\ hup = {}
  /\ backlog = 0 /\ ready = {} /\ batch = {}
  /\ sigpend = {} /\ sigpipe = <<>>
  /\ timeout = FALSE /\ stop_server = FALSE
  /\ alarm = TIMESLOT /\ now = 0 /\ since = 0
  /\ ppc = "poll"
  /\ misordered = FALSE
  /\ sends = 0 /\ conns = 0 /\ backs = 0 /\ terms = 0

Running == ppc # "stopped" /\ ~crashed

NoteOrder == misordered' = (misordered \/ ~L!Sorted')

ReadableSources == data \cup hup \cup (IF backlog > 0 THEN {listenfd} ELSE {})
                                 \cup (IF sigpipe # <<>> THEN {pipefd} ELSE {})

-----------------------------------------------------------------------------
(***************************************************************************)
(* The clients, the clock and the signals.                                 *)
(***************************************************************************)
Connect ==
  /\ Running
  /\ conns < MaxConn /\ backlog + Cardinality(open) < MaxFd
  /\ conns' = conns + 1
  /\ backlog' = backlog + 1
  /\ ready' = ready \cup {listenfd}
  /\ UNCHANGED <<listVars, connVars, batch, sigVars, clockVars, ppc, sends, backs, terms>>

ClientSend(fd) ==
  /\ Running
  /\ fd \in open \ hup
  /\ sends < MaxSend
  /\ sends' = sends + 1
  /\ data' = data \cup {fd}
  /\ ready' = ready \cup {fd}
  /\ UNCHANGED <<listVars, timer, user_data, open, hup, backlog, batch, sigVars,
                 clockVars, ppc, conns, backs, terms>>

ClientClose(fd) ==
  /\ Running
  /\ fd \in open \ hup
  /\ hup' = hup \cup {fd}
  /\ ready' = ready \cup {fd}
  /\ UNCHANGED <<listVars, timer, user_data, open, data, backlog, batch, sigVars,
                 clockVars, ppc, counters>>

\* A second begins.  An alarm due in the last one has rung.
Elapse ==
  /\ Running
  /\ now < MaxNow
  /\ alarm # 0
  /\ now' = now + 1
  /\ since' = since + 1
  /\ alarm' = IF alarm = NoAlarm THEN NoAlarm ELSE alarm - 1
  /\ UNCHANGED <<listVars, connVars, pollVars, sigVars, ppc, counters>>

\* The alarm rings, some time in the second it is due.
Ring ==
  /\ Running
  /\ alarm = 0
  /\ alarm' = NoAlarm
  /\ sigpend' = sigpend \cup {"ALRM"}
  /\ UNCHANGED <<listVars, connVars, pollVars, sigpipe, timeout, stop_server, now, since,
                 ppc, counters>>

\* Somebody sets the clock time() reads back; alarm does not go by that clock.
SetClockBack ==
  /\ Running
  /\ backs < MaxBack
  /\ now > 0
  /\ backs' = backs + 1
  /\ now' = now - 1
  /\ UNCHANGED <<listVars, connVars, pollVars, sigVars, alarm, since, ppc, sends, conns, terms>>

Term ==
  /\ Running
  /\ terms < MaxTerm
  /\ terms' = terms + 1
  /\ sigpend' = sigpend \cup {"TERM"}
  /\ UNCHANGED <<listVars, connVars, pollVars, sigpipe, timeout, stop_server,
                 clockVars, ppc, sends, conns, backs>>

\* What send does to a pipe that does not block: the signal is dropped if it is full.
Written(s) == IF Len(sigpipe) < PipeSize THEN Append(sigpipe, s) ELSE sigpipe

SigHandler(s) ==
  /\ Running
  /\ s \in sigpend
  /\ sigpend' = sigpend \ {s}
  /\ sigpipe' = Written(s)
  /\ ready' = IF sigpipe' = sigpipe THEN ready ELSE ready \cup {pipefd}
  /\ UNCHANGED <<listVars, connVars, backlog, batch, timeout, stop_server, clockVars,
                 ppc, counters>>

-----------------------------------------------------------------------------
(***************************************************************************)
(* The loop.                                                               *)
(***************************************************************************)
PollReturns ==
  /\ Running
  /\ ppc = "poll"
  /\ ready \cap ReadableSources # {}
  /\ batch' = ready \cap ReadableSources
  /\ ready' = {}
  /\ ppc' = "batch"
  /\ UNCHANGED <<listVars, connVars, backlog, sigVars, clockVars, counters>>

TakeEvent(s) ==
  /\ Running
  /\ ppc = "batch"
  /\ s \in batch
  /\ batch' = batch \ {s}

\* accept, and a new timer for the connection.
Accept(t) ==
  LET connfd == CHOOSE fd \in Fd \ open : \A other \in Fd \ open : fd <= other IN
  /\ TakeEvent(listenfd)
  /\ Fd \ open # {}
  /\ backlog' = backlog - 1
  /\ open' = open \cup {connfd}
  /\ timer' = [timer EXCEPT ![connfd] = t]
  /\ user_data' = [user_data EXCEPT ![t] = connfd]
  /\ L!Add(t, now + Timeout)
  /\ NoteOrder
  /\ UNCHANGED <<data, hup, ready, sigVars, clockVars, ppc, counters>>

InSeq(s, seq) == \E k \in DOMAIN seq : seq[k] = s

\* cb_func for the connections of fds: they are closed, and leave the epoll set.
CloseFds(fds) ==
  /\ open' = open \ fds
  /\ data' = data \ fds
  /\ hup' = hup \ fds
  /\ ready' = ready \ fds

\* tick: cb_func and the end for every timer it finds expired.
TickList ==
  \/ /\ head = NULL
     /\ UNCHANGED <<listVars, open, data, hup, ready>>
  \/ /\ head # NULL
     /\ CloseFds({user_data[t] : t \in L!Expired(now)})
     /\ L!Tick(now)
     /\ NoteOrder

\* Defective variant: the timers are run as soon as SIGALRM is read.
ReadSignalsAndTick ==
  /\ TakeEvent(pipefd)
  /\ sigpipe' = <<>>
  /\ stop_server' = (stop_server \/ InSeq("TERM", sigpipe))
  /\ IF InSeq("ALRM", sigpipe) THEN TickList /\ alarm' = TIMESLOT /\ since' = 0
     ELSE UNCHANGED <<listVars, open, data, hup, ready, alarm, since>>
  /\ UNCHANGED <<timer, user_data, backlog, sigpend, timeout, now, ppc, counters>>

\* SIGALRM only sets timeout, the batch is finished first.
ReadSignals ==
  /\ TakeEvent(pipefd)
  /\ sigpipe' = <<>>
  /\ timeout' = (timeout \/ InSeq("ALRM", sigpipe))
  /\ stop_server' = (stop_server \/ InSeq("TERM", sigpipe))
  /\ UNCHANGED <<listVars, connVars, backlog, ready, sigpend, clockVars, ppc, counters>>

\* Defective variant: the connection lives Timeout longer than it would have.
ClientDataAddsToExpire(fd) ==
  /\ TakeEvent(fd)
  /\ fd \in data
  /\ data' = data \ {fd}
  /\ L!Adjust(timer[fd], expire[timer[fd]] + Timeout)
  /\ NoteOrder
  /\ UNCHANGED <<timer, user_data, open, hup, backlog, ready, sigVars, clockVars, ppc, counters>>

\* recv brought data: the connection lives Timeout from now.
ClientData(fd) ==
  /\ TakeEvent(fd)
  /\ fd \in data
  /\ data' = data \ {fd}
  /\ L!Adjust(timer[fd], now + Timeout)
  /\ NoteOrder
  /\ UNCHANGED <<timer, user_data, open, hup, backlog, ready, sigVars, clockVars, ppc, counters>>

\* Defective variant: the connection is closed, its timer stays.
ClientGoneKeepsTimer(fd) ==
  /\ TakeEvent(fd)
  /\ fd \in hup \ data
  /\ CloseFds({fd})
  /\ UNCHANGED <<listVars, timer, user_data, backlog, sigVars, clockVars, ppc, counters>>

\* recv brought 0 (or an error): the connection is closed and its timer deleted.
\* users[fd].timer keeps the address of the deleted timer.
ClientGone(fd) ==
  /\ TakeEvent(fd)
  /\ fd \in hup \ data
  /\ CloseFds({fd})
  /\ L!Del(timer[fd])
  /\ NoteOrder
  /\ UNCHANGED <<timer, user_data, backlog, sigVars, clockVars, ppc, counters>>

\* The end of the batch, with no alarm to be handled: while (!stop_server).
EndBatch ==
  /\ Running
  /\ ppc = "batch"
  /\ batch = {} /\ ~timeout
  /\ ppc' = IF stop_server THEN "stopped" ELSE "poll"
  /\ UNCHANGED <<listVars, connVars, pollVars, sigVars, clockVars, counters>>

\* Defective variant: the timers are not looked at.
TimerTickSkipped ==
  /\ Running
  /\ ppc = "batch"
  /\ batch = {} /\ timeout
  /\ ppc' = "ticked"
  /\ since' = 0
  /\ UNCHANGED <<listVars, connVars, pollVars, sigVars, alarm, now, counters>>

\* The end of the batch, if it is time: timer_handler up to the end of tick.
TimerTick ==
  /\ Running
  /\ ppc = "batch"
  /\ batch = {} /\ timeout
  /\ ppc' = "ticked"
  /\ TickList
  /\ since' = 0
  /\ UNCHANGED <<timer, user_data, backlog, batch, sigVars, alarm, now, counters>>

\* Defective variant: with no timers left no alarm is set.
SetAlarmIfTimers ==
  /\ Running
  /\ ppc = "ticked"
  /\ alarm' = IF head # NULL THEN TIMESLOT ELSE NoAlarm
  /\ timeout' = FALSE
  /\ ppc' = IF stop_server THEN "stopped" ELSE "poll"
  /\ UNCHANGED <<listVars, connVars, pollVars, sigpend, sigpipe, stop_server, now, since, counters>>

\* The rest of timer_handler, then while (!stop_server).
SetAlarm ==
  /\ Running
  /\ ppc = "ticked"
  /\ alarm' = TIMESLOT
  /\ timeout' = FALSE
  /\ ppc' = IF stop_server THEN "stopped" ELSE "poll"
  /\ UNCHANGED <<listVars, connVars, pollVars, sigpend, sigpipe, stop_server, now, since, counters>>

Next ==
  \/ Connect \/ Elapse \/ Ring \/ SetClockBack \/ Term
  \/ \E fd \in Fd : ClientSend(fd) \/ ClientClose(fd)
  \/ \E s \in {"ALRM", "TERM"} : SigHandler(s)
  \/ PollReturns \/ ReadSignals \/ EndBatch \/ TimerTick \/ SetAlarm
  \/ \E t \in Timer : Accept(t)
  \/ \E fd \in Fd : ClientData(fd) \/ ClientGone(fd)

Spec == Init /\ [][Next]_vars

-----------------------------------------------------------------------------
(***************************************************************************)
(* users[fd].timer and timer->user_data lead from each open connection to  *)
(* an allocated timer and back.  Pointers to deleted timers stay in users  *)
(* after a connection is closed, fds and addresses are used again, and the *)
(* timer is read on every event: none of them may be dereferenced.         *)
(***************************************************************************)
TimersMatchConnections ==
  ~crashed =>
    /\ \A fd \in open : timer[fd] \in alive /\ user_data[timer[fd]] = fd
    /\ \A t \in alive : user_data[t] \in open /\ timer[user_data[t]] = t

\* An event is handled on the connection it was reported for: timers close
\* connections only when no event is left in the batch.
EventsAreOfOpenFds == Running => batch \cap Fd \subseteq open

(***************************************************************************)
(* The chain of alarms never breaks: an alarm is set, or its signal is on  *)
(* the way to timer_handler, which sets the next.  Only when the pipe is   *)
(* full can the signal be lost, and then a SIGTERM is in the pipe, or has  *)
(* been read, and the server is about to stop.                             *)
(***************************************************************************)
OnItsWay(s) == InSeq(s, sigpipe) /\ pipefd \in ready \cup batch

AlarmGoesOn ==
  Running => \/ alarm # NoAlarm
             \/ "ALRM" \in sigpend
             \/ OnItsWay("ALRM")
             \/ timeout
             \/ OnItsWay("TERM")
             \/ stop_server /\ ppc = "batch"

(***************************************************************************)
(* No connection is past its time for longer than since the last alarm was *)
(* handled: whatever interrupts the handling of an alarm, and however long *)
(* it takes, a connection without activity is closed with the first tick   *)
(* that comes when its time is up.  (Provided the list is in order: tick   *)
(* stops at the first timer that has not expired.)                         *)
(***************************************************************************)
InactiveIsClosed ==
  Running /\ ~misordered => \A fd \in open : now < expire[timer[fd]] + since

(***************************************************************************)
(* All its clients see of the timers: a connection is closed by the server *)
(* only when its client closed it, and all that the client had sent before *)
(* was read, or when it has been silent for Timeout, by the clock that was *)
(* read when it was last heard of.  Data that arrive count from when they  *)
(* are read, an fd used again starts afresh, and whatever tick leaves      *)
(* behind or del_timer takes out, no other connection's time is touched.   *)
(* (Even with the list out of order, the clock set back, or a crash to     *)
(* come.)                                                                  *)
(***************************************************************************)
Contract == INSTANCE Leases WITH
  Client <- Fd, Length <- Timeout, clock <- now,
  lease <- [fd \in open |-> expire[timer[fd]]], spoken <- data, gone <- hup

ImplementsLeases == Contract!Spec
=============================================================================
