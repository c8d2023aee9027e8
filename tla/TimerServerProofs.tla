-------------------------- MODULE TimerServerProofs --------------------------
(***************************************************************************)
(* Proofs about TimerServer, for any number of timers, connections,        *)
(* messages and signals and any bound on the clock.                        *)
(*                                                                         *)
(* The list is changed only by operations of TimerList, so what            *)
(* TimerListProofs proves of them carries over.                            *)
(***************************************************************************)
EXTENDS TimerServer, TLAPS

LP == INSTANCE TimerListProofs

-----------------------------------------------------------------------------
(***************************************************************************)
(* The list the server uses is the one of the proofs.                      *)
(***************************************************************************)
LEMMA ServerNumbers ==
  /\ NULL \notin Timer /\ MaxTime \in Nat /\ IsFiniteSet(Timer)
  /\ MaxFd \in Nat /\ MaxFd > 0 /\ MaxNow \in Nat /\ MaxSend \in Nat /\ MaxConn \in Nat
  /\ MaxBack \in Nat /\ MaxTerm \in Nat
  /\ MaxTime = MaxNow + Timeout /\ Timeout \in Nat /\ Timeout > 0
  /\ TIMESLOT \in Nat /\ TIMESLOT > 0 /\ PipeSize \in Nat /\ PipeSize >= 2
<1>1. /\ MaxNow \in Nat /\ MaxTime = MaxNow + Timeout
      /\ MaxFd \in Nat /\ MaxSend \in Nat /\ MaxConn \in Nat /\ MaxBack \in Nat /\ MaxTerm \in Nat
      /\ TIMESLOT \in Nat /\ TIMESLOT > 0
  BY TimerServerAssumption
<1>2. Timeout \in Nat /\ Timeout > 0
  BY <1>1 DEF Timeout
<1>3. MaxTime \in Nat
  BY <1>1, <1>2
<1>4. QED
  BY <1>1, <1>2, <1>3, TimerServerAssumption

LEMMA ListAssumption == LP!TimerListAssumption
<1>1. IsFiniteSet(Timer) => LP!IsFiniteSet(Timer)
  BY DEF LP!IsFiniteSet, IsFiniteSet
<1>2. QED
  BY <1>1, ServerNumbers DEF LP!TimerListAssumption

LEMMA SameBefore ==
  \A e, first, nx, x : L!Before(e, first, nx, x) = LP!Before(e, first, nx, x)
BY DEF L!Before, LP!Before, L!Path, LP!Path, L!Cardinality, LP!Cardinality

LEMMA SameExpired == \A cur : L!Expired(cur) = LP!Expired(cur)
BY DEF L!Expired, LP!Expired, L!Walk, LP!Walk, L!Reached, LP!Reached, L!Path, LP!Path,
       L!Cardinality, LP!Cardinality

LEMMA SameAdd ==
  ASSUME NEW t, NEW e, L!Add(t, e)
  PROVE  LP!Add(t, e)
BY SameBefore DEF L!Add, LP!Add, L!InsertAfter, LP!InsertAfter, L!Set, LP!Set

LEMMA SameAdjust ==
  ASSUME NEW t, NEW e, L!Adjust(t, e)
  PROVE  LP!Adjust(t, e)
BY SameBefore DEF L!Adjust, LP!Adjust, L!InPlace, LP!InPlace, L!InsertAfter, LP!InsertAfter,
                  L!Set, LP!Set

LEMMA SameDel ==
  ASSUME NEW t, L!Del(t)
  PROVE  LP!Del(t)
BY DEF L!Del, LP!Del, L!Delete, LP!Delete, L!Free, LP!Free

LEMMA SameTick ==
  ASSUME NEW cur, L!Tick(cur)
  PROVE  LP!Tick(cur)
BY SameExpired DEF L!Tick, LP!Tick, L!Delete, LP!Delete, L!Free, LP!Free, L!Set, LP!Set

LEMMA SameSorted == L!Sorted <=> LP!Sorted
BY DEF L!Sorted, LP!Sorted

\* What the fields' types are, from the list's invariant.
LEMMA ListTypes ==
  ASSUME LP!IInv
  PROVE  /\ L!TypeOK
         /\ alive \subseteq Timer
         /\ expire \in [Timer -> 0 .. MaxTime]
BY DEF LP!IInv, LP!TypeOK, L!TypeOK, LP!Ptr, L!Ptr

-----------------------------------------------------------------------------
(***************************************************************************)
(* The invariant.  The list is well linked; the events of a batch are of   *)
(* sources that still have something to be read; users and the timers lead *)
(* to each other; and misordered notes when the order is lost.             *)
(***************************************************************************)
ServerTypes ==
  /\ timer \in [Fd -> L!Ptr]
  /\ user_data \in [Timer -> Fd]
  /\ open \subseteq Fd /\ data \subseteq open /\ hup \subseteq open
  /\ backlog \in Nat /\ backlog <= conns
  /\ ready \subseteq Fd \cup {listenfd, pipefd} /\ batch \subseteq Fd \cup {listenfd, pipefd}
  /\ sigpend \subseteq {"ALRM", "TERM"}
  /\ sigpipe \in Seq({"ALRM", "TERM"}) /\ Len(sigpipe) <= PipeSize
  /\ alarm \in 0 .. TIMESLOT \cup {NoAlarm} /\ now \in 0 .. MaxNow /\ since \in Nat
  /\ ppc \in {"poll", "batch", "ticked", "stopped"}
  /\ sends \in 0 .. MaxSend /\ conns \in 0 .. MaxConn /\ backs \in 0 .. MaxBack
  /\ terms \in 0 .. MaxTerm

FlagTypes ==
  timeout \in BOOLEAN /\ stop_server \in BOOLEAN /\ misordered \in BOOLEAN

BatchOK ==
  /\ listenfd \in batch => backlog > 0
  /\ batch \cap Fd \subseteq open
  /\ ppc \in {"poll", "ticked"} => batch = {}

OrderNoted == ~misordered => LP!Sorted

SInv ==
  LP!IInv /\ ServerTypes /\ FlagTypes /\ BatchOK /\ TimersMatchConnections /\ OrderNoted

-----------------------------------------------------------------------------
LEMMA SInvInit == Init => SInv
<1> SUFFICES ASSUME Init PROVE SInv
  OBVIOUS
<1>1. LP!IInv
  <2>1. LP!Init
    BY DEF Init, L!Init, LP!Init
  <2>2. QED
    BY <2>1, ListAssumption, LP!ListInit
<1>2. ServerTypes
  <2>1. 1 \in Fd /\ 0 \in 0 .. MaxNow /\ 0 \in 0 .. MaxSend /\ 0 \in 0 .. MaxConn
        /\ 0 \in 0 .. MaxBack /\ 0 \in 0 .. MaxTerm
    BY ServerNumbers DEF Fd
  <2>2. /\ sigpipe \in Seq({"ALRM", "TERM"}) /\ Len(sigpipe) <= PipeSize
        /\ alarm \in 0 .. TIMESLOT \cup {NoAlarm} /\ since \in Nat
    BY ServerNumbers DEF Init
  <2>4. timer \in [Fd -> L!Ptr] /\ user_data \in [Timer -> Fd]
    BY <2>1 DEF Init, L!Ptr
  <2>5. /\ open = {} /\ data = {} /\ hup = {} /\ backlog = 0 /\ ready = {} /\ batch = {} /\ sigpend = {}
        /\ now = 0 /\ ppc = "poll" /\ sends = 0 /\ conns = 0 /\ backs = 0 /\ terms = 0
    BY DEF Init
  <2>6. QED
    BY <2>1, <2>2, <2>4, <2>5 DEF ServerTypes
<1>3. FlagTypes /\ BatchOK /\ TimersMatchConnections /\ OrderNoted
  BY DEF Init, L!Init, FlagTypes, BatchOK, TimersMatchConnections, OrderNoted, LP!Sorted
<1>4. QED
  BY <1>1, <1>2, <1>3 DEF SInv

\* What an action that leaves the list alone need not look at.
LEMMA QuietList ==
  ASSUME SInv, UNCHANGED listVars
  PROVE  LP!IInv' /\ OrderNoted'
<1>1. UNCHANGED LP!listVars
  BY DEF listVars, LP!listVars
<1>2. LP!IInv'
  BY <1>1, ListAssumption, LP!ListUnchanged DEF SInv
<1>3. OrderNoted'
  BY DEF SInv, OrderNoted, LP!Sorted, listVars
<1>4. QED
  BY <1>2, <1>3

LEMMA QuietUsers ==
  ASSUME SInv, UNCHANGED listVars, UNCHANGED <<timer, user_data, open>>
  PROVE  TimersMatchConnections'
BY DEF SInv, TimersMatchConnections, listVars

LEMMA FdsApart == listenfd \notin Fd /\ pipefd \notin Fd /\ listenfd # pipefd
BY ServerNumbers DEF Fd, listenfd, pipefd

-----------------------------------------------------------------------------
(***************************************************************************)
(* One lemma per action.  First the clients, the clock and the signals.    *)
(***************************************************************************)
LEMMA ConnectStep ==
  ASSUME SInv, Connect
  PROVE  SInv'
<1>1. LP!IInv' /\ OrderNoted' /\ TimersMatchConnections'
  BY QuietList, QuietUsers DEF Connect, connVars
<1>2. ServerTypes'
  BY ServerNumbers DEF SInv, ServerTypes, Connect, connVars, sigVars, clockVars
<1>3. FlagTypes'
  BY DEF SInv, FlagTypes, Connect, listVars, sigVars, clockVars
<1>4. BatchOK'
  BY DEF SInv, ServerTypes, BatchOK, Connect, connVars
<1>5. QED
  BY <1>1, <1>2, <1>3, <1>4 DEF SInv

LEMMA ClientSendStep ==
  ASSUME SInv, NEW fd \in Fd, ClientSend(fd)
  PROVE  SInv'
<1>1. LP!IInv' /\ OrderNoted' /\ TimersMatchConnections'
  BY QuietList, QuietUsers DEF ClientSend
<1>2. ServerTypes'
  BY ServerNumbers DEF SInv, ServerTypes, ClientSend, sigVars, clockVars
<1>3. FlagTypes'
  BY DEF SInv, FlagTypes, ClientSend, listVars, sigVars, clockVars
<1>4. BatchOK'
  BY DEF SInv, BatchOK, ClientSend
<1>5. QED
  BY <1>1, <1>2, <1>3, <1>4 DEF SInv

LEMMA ClientCloseStep ==
  ASSUME SInv, NEW fd \in Fd, ClientClose(fd)
  PROVE  SInv'
<1>1. LP!IInv' /\ OrderNoted' /\ TimersMatchConnections'
  BY QuietList, QuietUsers DEF ClientClose
<1>2. ServerTypes'
  BY ServerNumbers DEF SInv, ServerTypes, ClientClose, sigVars, clockVars, counters
<1>3. FlagTypes'
  BY DEF SInv, FlagTypes, ClientClose, listVars, sigVars, clockVars
<1>4. BatchOK'
  BY DEF SInv, BatchOK, ClientClose
<1>5. QED
  BY <1>1, <1>2, <1>3, <1>4 DEF SInv

LEMMA ElapseStep ==
  ASSUME SInv, Elapse
  PROVE  SInv'
<1>1. LP!IInv' /\ OrderNoted' /\ TimersMatchConnections'
  BY QuietList, QuietUsers DEF Elapse, connVars
<1>2. ServerTypes'
  <2>1. now' \in 0 .. MaxNow /\ since' \in Nat
    BY ServerNumbers DEF SInv, ServerTypes, Elapse
  <2>2. alarm' \in 0 .. TIMESLOT \cup {NoAlarm}
    BY ServerNumbers DEF SInv, ServerTypes, Elapse, NoAlarm
  <2>3. QED
    BY <2>1, <2>2 DEF SInv, ServerTypes, Elapse, connVars, pollVars, sigVars, counters
<1>3. FlagTypes'
  BY DEF SInv, FlagTypes, Elapse, listVars, sigVars
<1>4. BatchOK'
  BY DEF SInv, BatchOK, Elapse, connVars, pollVars
<1>5. QED
  BY <1>1, <1>2, <1>3, <1>4 DEF SInv

LEMMA RingStep ==
  ASSUME SInv, Ring
  PROVE  SInv'
<1>1. LP!IInv' /\ OrderNoted' /\ TimersMatchConnections'
  BY QuietList, QuietUsers DEF Ring, connVars
<1>2. ServerTypes'
  <2>1. sigpend' \subseteq {"ALRM", "TERM"} /\ alarm' \in 0 .. TIMESLOT \cup {NoAlarm}
    BY DEF SInv, ServerTypes, Ring
  <2>2. QED
    BY <2>1 DEF SInv, ServerTypes, Ring, connVars, pollVars, counters
<1>3. FlagTypes'
  BY DEF SInv, FlagTypes, Ring, listVars
<1>4. BatchOK'
  BY DEF SInv, BatchOK, Ring, connVars, pollVars
<1>5. QED
  BY <1>1, <1>2, <1>3, <1>4 DEF SInv

LEMMA SetClockBackStep ==
  ASSUME SInv, SetClockBack
  PROVE  SInv'
<1>1. LP!IInv' /\ OrderNoted' /\ TimersMatchConnections'
  BY QuietList, QuietUsers DEF SetClockBack, connVars
<1>2. ServerTypes'
  <2>1. now' \in 0 .. MaxNow /\ backs' \in 0 .. MaxBack
    BY ServerNumbers DEF SInv, ServerTypes, SetClockBack
  <2>2. QED
    BY <2>1 DEF SInv, ServerTypes, SetClockBack, connVars, pollVars, sigVars
<1>3. FlagTypes'
  BY DEF SInv, FlagTypes, SetClockBack, listVars, sigVars
<1>4. BatchOK'
  BY DEF SInv, BatchOK, SetClockBack, connVars, pollVars
<1>5. QED
  BY <1>1, <1>2, <1>3, <1>4 DEF SInv

LEMMA TermStep ==
  ASSUME SInv, Term
  PROVE  SInv'
<1>1. LP!IInv' /\ OrderNoted' /\ TimersMatchConnections'
  BY QuietList, QuietUsers DEF Term, connVars
<1>2. ServerTypes'
  <2>1. terms' \in 0 .. MaxTerm
    BY ServerNumbers DEF SInv, ServerTypes, Term
  <2>2. QED
    BY <2>1 DEF SInv, ServerTypes, Term, connVars, pollVars, clockVars
<1>3. FlagTypes'
  BY DEF SInv, FlagTypes, Term, listVars, clockVars
<1>4. BatchOK'
  BY DEF SInv, BatchOK, Term, connVars, pollVars
<1>5. QED
  BY <1>1, <1>2, <1>3, <1>4 DEF SInv

\* What the pipe holds after a handler, whether or not the signal was dropped.
LEMMA WrittenTypes ==
  ASSUME SInv, NEW s \in {"ALRM", "TERM"}
  PROVE  Written(s) \in Seq({"ALRM", "TERM"}) /\ Len(Written(s)) <= PipeSize
<1>1. sigpipe \in Seq({"ALRM", "TERM"}) /\ Len(sigpipe) <= PipeSize
  BY DEF SInv, ServerTypes
<1>2. QED
  BY <1>1, ServerNumbers DEF Written

LEMMA SigHandlerStep ==
  ASSUME SInv, NEW s \in {"ALRM", "TERM"}, SigHandler(s)
  PROVE  SInv'
<1>1. LP!IInv' /\ OrderNoted' /\ TimersMatchConnections'
  BY QuietList, QuietUsers DEF SigHandler, connVars
<1>2. ServerTypes'
  <2>1. sigpipe' \in Seq({"ALRM", "TERM"}) /\ Len(sigpipe') <= PipeSize
    BY WrittenTypes DEF SigHandler
  <2>2. QED
    BY <2>1 DEF SInv, ServerTypes, SigHandler, connVars, clockVars, counters
<1>3. FlagTypes'
  BY DEF SInv, FlagTypes, SigHandler, listVars, clockVars
<1>4. BatchOK'
  BY DEF SInv, BatchOK, SigHandler, connVars
<1>5. QED
  BY <1>1, <1>2, <1>3, <1>4 DEF SInv

-----------------------------------------------------------------------------
\* The loop, where it does not touch the list.
LEMMA PollReturnsStep ==
  ASSUME SInv, PollReturns
  PROVE  SInv'
<1>1. LP!IInv' /\ OrderNoted' /\ TimersMatchConnections'
  BY QuietList, QuietUsers DEF PollReturns, connVars
<1>2. ServerTypes'
  BY DEF SInv, ServerTypes, PollReturns, connVars, sigVars, clockVars, counters
<1>3. FlagTypes'
  BY DEF SInv, FlagTypes, PollReturns, listVars, sigVars, clockVars
<1>4. BatchOK'
  <2>1. /\ batch' \subseteq data \cup hup \cup {pipefd} \cup (IF backlog > 0 THEN {listenfd} ELSE {})
        /\ open' = open /\ backlog' = backlog /\ ppc' = "batch"
    BY DEF PollReturns, ReadableSources, connVars
  <2>2. data \subseteq open /\ hup \subseteq open /\ open \subseteq Fd
    BY DEF SInv, ServerTypes
  <2>3. QED
    BY <2>1, <2>2, FdsApart DEF BatchOK
<1>5. QED
  BY <1>1, <1>2, <1>3, <1>4 DEF SInv

LEMMA ReadSignalsStep ==
  ASSUME SInv, ReadSignals
  PROVE  SInv'
<1>1. LP!IInv' /\ OrderNoted' /\ TimersMatchConnections'
  BY QuietList, QuietUsers DEF ReadSignals, connVars
<1>2. ServerTypes'
  <2>1. sigpipe' \in Seq({"ALRM", "TERM"}) /\ Len(sigpipe') <= PipeSize
    BY ServerNumbers DEF ReadSignals
  <2>2. QED
    BY <2>1 DEF SInv, ServerTypes, ReadSignals, TakeEvent, connVars, clockVars, counters
<1>3. FlagTypes'
  <2>1. timeout' \in BOOLEAN /\ stop_server' \in BOOLEAN
    BY DEF ReadSignals
  <2>2. QED
    BY <2>1 DEF SInv, FlagTypes, ReadSignals, listVars, clockVars
<1>4. BatchOK'
  BY DEF SInv, BatchOK, ReadSignals, TakeEvent, connVars
<1>5. QED
  BY <1>1, <1>2, <1>3, <1>4 DEF SInv

-----------------------------------------------------------------------------
(***************************************************************************)
(* The loop, where it works on the list.                                   *)
(***************************************************************************)
\* The fd accept returns is a free one.
LEMMA LowestFree ==
  ASSUME Fd \ open # {}
  PROVE  (CHOOSE fd \in Fd \ open : \A other \in Fd \ open : fd <= other) \in Fd \ open
<1>1. Fd \ open \in SUBSET Nat
  BY ServerNumbers DEF Fd
<1>2. \E fd \in Fd \ open : \A other \in Fd \ open : fd <= other
  BY <1>1, ListAssumption, LP!LeastNumber
<1>3. QED
  BY <1>2

LEMMA NewExpire == SInv => now + Timeout \in 0 .. MaxTime /\ now \in Nat /\ now < now + Timeout
<1> SUFFICES ASSUME SInv PROVE now + Timeout \in 0 .. MaxTime /\ now \in Nat /\ now < now + Timeout
  OBVIOUS
<1>1. now \in 0 .. MaxNow
  BY DEF SInv, ServerTypes
<1>2. MaxNow \in Nat /\ MaxTime = MaxNow + Timeout /\ Timeout \in Nat /\ Timeout > 0
  BY ServerNumbers
<1>3. \A n, m, d \in Nat : n <= m /\ d > 0 => n + d \in 0 .. m + d /\ n < n + d
  OBVIOUS
<1>4. QED
  BY <1>1, <1>2, <1>3

LEMMA NotedNext ==
  ASSUME NoteOrder
  PROVE  OrderNoted' /\ misordered' \in BOOLEAN /\ (~misordered' => ~misordered)
<1>1. L!Sorted' <=> LP!Sorted'
  BY DEF L!Sorted, LP!Sorted
<1>2. QED
  BY <1>1 DEF NoteOrder, OrderNoted

LEMMA AcceptStep ==
  ASSUME SInv, NEW t \in Timer, Accept(t)
  PROVE  SInv'
<1> DEFINE connfd == CHOOSE fd \in Fd \ open : \A other \in Fd \ open : fd <= other
<1>1. connfd \in Fd \ open
  BY LowestFree DEF Accept
<1>2. /\ TakeEvent(listenfd) /\ L!Add(t, now + Timeout) /\ NoteOrder
      /\ backlog' = backlog - 1
      /\ open' = open \cup {connfd}
      /\ timer' = [timer EXCEPT ![connfd] = t]
      /\ user_data' = [user_data EXCEPT ![t] = connfd]
      /\ UNCHANGED <<data, hup, ready, sigVars, clockVars, ppc, counters>>
  BY DEF Accept
<1> HIDE DEF connfd
<1>3. LP!IInv'
  <2>1. LP!Add(t, now + Timeout)
    BY <1>2, SameAdd
  <2>2. LP!IInv /\ now + Timeout \in 0 .. MaxTime
    BY NewExpire DEF SInv
  <2>3. QED
    BY <2>1, <2>2, ListAssumption, LP!AddStep
<1>4. OrderNoted' /\ FlagTypes'
  BY <1>2, NotedNext DEF SInv, FlagTypes, sigVars, clockVars
<1>5. backlog > 0 /\ backlog \in Nat /\ conns \in 0 .. MaxConn /\ backlog <= conns
  BY <1>2 DEF SInv, ServerTypes, BatchOK, TakeEvent
<1>6. backlog' \in Nat /\ backlog' <= conns /\ conns' = conns
  BY <1>2, <1>5, ServerNumbers DEF counters
<1>7. ServerTypes'
  <2>1. timer' \in [Fd -> L!Ptr] /\ user_data' \in [Timer -> Fd]
    BY <1>1, <1>2 DEF SInv, ServerTypes, L!Ptr
  <2>2. open' \subseteq Fd /\ data' \subseteq open' /\ hup' \subseteq open'
    BY <1>1, <1>2 DEF SInv, ServerTypes
  <2>3. batch' \subseteq Fd \cup {listenfd, pipefd}
    BY <1>2 DEF SInv, ServerTypes, TakeEvent
  <2>4. QED
    BY <1>2, <1>6, <2>1, <2>2, <2>3 DEF SInv, ServerTypes, sigVars, clockVars, counters
<1>8. BatchOK'
  BY <1>2 DEF SInv, BatchOK, TakeEvent
<1>9. TimersMatchConnections'
  <2> SUFFICES ASSUME ~crashed' PROVE TimersMatchConnections'
    BY DEF TimersMatchConnections
  <2>1. ~crashed /\ t \notin alive /\ alive' = alive \cup {t}
    BY <1>2 DEF L!Add
  <2>2. timer \in [Fd -> L!Ptr] /\ user_data \in [Timer -> Fd] /\ open \subseteq Fd /\ alive \subseteq Timer
    BY ListTypes DEF SInv, ServerTypes
  <2>3. /\ \A fd \in open : timer[fd] \in alive /\ user_data[timer[fd]] = fd
        /\ \A u \in alive : user_data[u] \in open /\ timer[user_data[u]] = u
    BY <2>1 DEF SInv, TimersMatchConnections
  <2>4. ASSUME NEW fd \in open'
        PROVE  timer'[fd] \in alive' /\ user_data'[timer'[fd]] = fd
    BY <1>1, <1>2, <2>1, <2>2, <2>3, <2>4
  <2>5. ASSUME NEW u \in alive'
        PROVE  user_data'[u] \in open' /\ timer'[user_data'[u]] = u
    BY <1>1, <1>2, <2>1, <2>2, <2>3, <2>5
  <2>6. QED
    BY <2>4, <2>5 DEF TimersMatchConnections
<1>10. QED
  BY <1>3, <1>4, <1>7, <1>8, <1>9 DEF SInv

\* A connection that is open leads to a timer of the list.
LEMMA TimerOfOpen ==
  ASSUME SInv, ~crashed, NEW fd \in open
  PROVE  timer[fd] \in alive /\ timer[fd] \in Timer /\ user_data[timer[fd]] = fd
BY ListTypes DEF SInv, TimersMatchConnections

LEMMA ClientDataStep ==
  ASSUME SInv, NEW fd \in Fd, ClientData(fd)
  PROVE  SInv'
<1>1. /\ TakeEvent(fd) /\ fd \in data /\ L!Adjust(timer[fd], now + Timeout) /\ NoteOrder
      /\ data' = data \ {fd}
      /\ UNCHANGED <<timer, user_data, open, hup, backlog, ready, sigVars, clockVars, ppc, counters>>
  BY DEF ClientData
<1>2. timer[fd] \in Timer /\ ~crashed
  <2>1. ~crashed /\ fd \in open
    BY <1>1 DEF L!Adjust, SInv, ServerTypes
  <2>2. QED
    BY <2>1, TimerOfOpen
<1>3. LP!IInv'
  <2>1. LP!Adjust(timer[fd], now + Timeout)
    BY <1>1, SameAdjust
  <2>2. LP!IInv /\ now + Timeout \in 0 .. MaxTime
    BY NewExpire DEF SInv
  <2>3. QED
    BY <1>2, <2>1, <2>2, ListAssumption, LP!AdjustStep
<1>4. OrderNoted' /\ FlagTypes'
  BY <1>1, NotedNext DEF SInv, FlagTypes, sigVars, clockVars
<1>5. ServerTypes'
  BY <1>1 DEF SInv, ServerTypes, TakeEvent, sigVars, clockVars, counters
<1>6. BatchOK'
  BY <1>1 DEF SInv, BatchOK, TakeEvent
<1>7. TimersMatchConnections'
  BY <1>1 DEF SInv, TimersMatchConnections, L!Adjust
<1>8. QED
  BY <1>3, <1>4, <1>5, <1>6, <1>7 DEF SInv

LEMMA ClientGoneStep ==
  ASSUME SInv, NEW fd \in Fd, ClientGone(fd)
  PROVE  SInv'
<1>1. /\ TakeEvent(fd) /\ fd \in hup /\ L!Del(timer[fd]) /\ NoteOrder /\ CloseFds({fd})
      /\ UNCHANGED <<timer, user_data, backlog, sigVars, clockVars, ppc, counters>>
  BY DEF ClientGone
<1>2. timer[fd] \in Timer /\ ~crashed /\ fd \in open
  <2>1. ~crashed /\ fd \in open
    BY <1>1 DEF L!Del, SInv, ServerTypes
  <2>2. QED
    BY <2>1, TimerOfOpen
<1>3. LP!IInv'
  <2>1. LP!Del(timer[fd])
    BY <1>1, SameDel
  <2>2. QED
    BY <1>2, <2>1, ListAssumption, LP!DelStep DEF SInv
<1>4. OrderNoted' /\ FlagTypes'
  BY <1>1, NotedNext DEF SInv, FlagTypes, sigVars, clockVars
<1>5. ServerTypes'
  BY <1>1 DEF SInv, ServerTypes, TakeEvent, CloseFds, sigVars, clockVars, counters
<1>6. BatchOK'
  BY <1>1, FdsApart DEF SInv, BatchOK, TakeEvent, CloseFds
<1>7. TimersMatchConnections'
  <2>1. alive' = alive \ {timer[fd]} /\ open' = open \ {fd} /\ timer' = timer /\ user_data' = user_data
    BY <1>1 DEF L!Del, L!Delete, CloseFds
  <2>2. /\ \A other \in open : timer[other] \in alive /\ user_data[timer[other]] = other
        /\ \A u \in alive : user_data[u] \in open /\ timer[user_data[u]] = u
    BY <1>2 DEF SInv, TimersMatchConnections
  <2>3. QED
    BY <1>2, <2>1, <2>2 DEF TimersMatchConnections
<1>8. QED
  BY <1>3, <1>4, <1>5, <1>6, <1>7 DEF SInv

\* tick, with the callbacks.
LEMMA TickListStep ==
  ASSUME SInv, ~crashed, TickList, UNCHANGED <<timer, user_data>>
  PROVE  /\ LP!IInv' /\ OrderNoted' /\ TimersMatchConnections' /\ misordered' \in BOOLEAN
         /\ open' \subseteq Fd /\ data' \subseteq open' /\ hup' \subseteq open'
         /\ ready' \subseteq ready
<1>1. CASE head = NULL
  <2>1. UNCHANGED listVars /\ UNCHANGED <<open, data, hup, ready>>
    BY <1>1 DEF TickList
  <2>2. QED
    BY <2>1, QuietList, QuietUsers DEF SInv, ServerTypes, FlagTypes, listVars
<1>2. CASE head # NULL
  <2>1. L!Tick(now) /\ NoteOrder /\ CloseFds({user_data[t] : t \in L!Expired(now)})
    BY <1>2 DEF TickList
  <2>2. LP!IInv' /\ OrderNoted' /\ misordered' \in BOOLEAN
    <3>1. LP!Tick(now)
      BY <2>1, SameTick
    <3>2. LP!IInv /\ now \in Nat
      BY NewExpire DEF SInv
    <3>3. LP!IInv'
      BY <3>1, <3>2, ListAssumption, LP!TickStep
    <3>4. QED
      BY <2>1, <3>3, NotedNext
  <2>3. open' \subseteq Fd /\ data' \subseteq open' /\ hup' \subseteq open' /\ ready' \subseteq ready
    BY <2>1 DEF CloseFds, SInv, ServerTypes
  <2>4. TimersMatchConnections'
    <3>1. PICK gone : gone = L!Expired(now)
      OBVIOUS
    <3>2. alive' = alive \ gone /\ open' = open \ {user_data[t] : t \in gone}
      BY <2>1, <3>1 DEF L!Tick, L!Delete, CloseFds
    <3>3. gone \subseteq alive
      <4>1. \A cur : LP!Expired(cur) \subseteq alive
        BY ListAssumption, LP!ExpiredAreAlive DEF SInv
      <4>2. QED
        BY <3>1, <4>1, SameExpired
    <3>4. /\ \A fd \in open : timer[fd] \in alive /\ user_data[timer[fd]] = fd
          /\ \A u \in alive : user_data[u] \in open /\ timer[user_data[u]] = u
      BY DEF SInv, TimersMatchConnections
    <3>5. ASSUME NEW fd \in open'
          PROVE  timer'[fd] \in alive' /\ user_data'[timer'[fd]] = fd
      BY <3>2, <3>4, <3>5
    <3>6. ASSUME NEW u \in alive'
          PROVE  user_data'[u] \in open' /\ timer'[user_data'[u]] = u
      <4>1. u \in alive /\ u \notin gone
        BY <3>2, <3>6
      <4>2. ASSUME NEW t \in gone, user_data[t] = user_data[u]
            PROVE  FALSE
        <5>1. t \in alive
          BY <3>3
        <5>2. timer[user_data[t]] = t /\ timer[user_data[u]] = u
          BY <3>4, <4>1, <5>1
        <5>3. QED
          BY <4>1, <4>2, <5>2
      <4>3. QED
        BY <3>2, <3>4, <4>1, <4>2
    <3>7. QED
      BY <3>5, <3>6 DEF TimersMatchConnections
  <2>5. QED
    BY <2>2, <2>3, <2>4
<1>3. QED
  BY <1>1, <1>2

LEMMA EndBatchStep ==
  ASSUME SInv, EndBatch
  PROVE  SInv'
<1>1. LP!IInv' /\ OrderNoted' /\ TimersMatchConnections'
  BY QuietList, QuietUsers DEF EndBatch, connVars
<1>2. ServerTypes'
  BY DEF SInv, ServerTypes, EndBatch, connVars, pollVars, sigVars, clockVars, counters
<1>3. FlagTypes'
  BY DEF SInv, FlagTypes, EndBatch, listVars, sigVars
<1>4. BatchOK'
  BY DEF SInv, BatchOK, EndBatch, connVars, pollVars
<1>5. QED
  BY <1>1, <1>2, <1>3, <1>4 DEF SInv

LEMMA TimerTickStep ==
  ASSUME SInv, TimerTick
  PROVE  SInv'
<1>1. /\ Running /\ TickList /\ batch = {} /\ batch' = {} /\ ppc' = "ticked" /\ since' = 0
      /\ UNCHANGED <<timer, user_data, backlog, sigVars, alarm, now, counters>>
  BY DEF TimerTick
<1>2. /\ LP!IInv' /\ OrderNoted' /\ TimersMatchConnections' /\ misordered' \in BOOLEAN
      /\ open' \subseteq Fd /\ data' \subseteq open' /\ hup' \subseteq open'
      /\ ready' \subseteq ready
  BY <1>1, TickListStep DEF Running
<1>3. ServerTypes'
  BY <1>1, <1>2 DEF SInv, ServerTypes, sigVars, counters
<1>4. FlagTypes'
  BY <1>1, <1>2 DEF SInv, FlagTypes, sigVars
<1>5. BatchOK'
  BY <1>1 DEF BatchOK
<1>6. QED
  BY <1>2, <1>3, <1>4, <1>5 DEF SInv

LEMMA SetAlarmStep ==
  ASSUME SInv, SetAlarm
  PROVE  SInv'
<1>1. LP!IInv' /\ OrderNoted' /\ TimersMatchConnections'
  BY QuietList, QuietUsers DEF SetAlarm, connVars
<1>2. ServerTypes'
  <2>1. alarm' \in 0 .. TIMESLOT \cup {NoAlarm} /\ ppc' \in {"poll", "stopped"}
    BY ServerNumbers DEF SetAlarm
  <2>2. QED
    BY <2>1 DEF SInv, ServerTypes, SetAlarm, connVars, pollVars, counters
<1>3. FlagTypes'
  BY DEF SInv, FlagTypes, SetAlarm, listVars
<1>4. BatchOK'
  <2>1. batch = {}
    BY DEF SInv, BatchOK, SetAlarm
  <2>2. QED
    BY <2>1 DEF SetAlarm, pollVars, BatchOK
<1>5. QED
  BY <1>1, <1>2, <1>3, <1>4 DEF SInv

LEMMA SInvStep == SInv /\ [Next]_vars => SInv'
<1> SUFFICES ASSUME SInv, [Next]_vars PROVE SInv'
  OBVIOUS
<1>1. CASE Connect \/ Elapse \/ Ring \/ SetClockBack \/ Term
  BY <1>1, ConnectStep, ElapseStep, RingStep, SetClockBackStep, TermStep
<1>2. ASSUME NEW fd \in Fd, ClientSend(fd) \/ ClientClose(fd)
      PROVE  SInv'
  BY <1>2, ClientSendStep, ClientCloseStep
<1>3. ASSUME NEW s \in {"ALRM", "TERM"}, SigHandler(s)
      PROVE  SInv'
  BY <1>3, SigHandlerStep
<1>4. CASE PollReturns \/ ReadSignals \/ EndBatch \/ TimerTick \/ SetAlarm
  BY <1>4, PollReturnsStep, ReadSignalsStep, EndBatchStep, TimerTickStep, SetAlarmStep
<1>5. ASSUME NEW t \in Timer, Accept(t)
      PROVE  SInv'
  BY <1>5, AcceptStep
<1>6. ASSUME NEW fd \in Fd, ClientData(fd) \/ ClientGone(fd)
      PROVE  SInv'
  BY <1>6, ClientDataStep, ClientGoneStep
<1>7. CASE UNCHANGED vars
  <2>1. LP!IInv' /\ OrderNoted' /\ TimersMatchConnections'
    BY <1>7, QuietList, QuietUsers DEF vars, connVars
  <2>2. ServerTypes' /\ FlagTypes' /\ BatchOK'
    BY <1>7 DEF SInv, ServerTypes, FlagTypes, BatchOK, vars, connVars, pollVars, sigVars,
                clockVars, counters, listVars
  <2>3. QED
    BY <2>1, <2>2 DEF SInv
<1>8. QED
  BY <1>1, <1>2, <1>3, <1>4, <1>5, <1>6, <1>7 DEF Next

\* The invariant holds throughout.
THEOREM ServerInvariance == Spec => []SInv
BY SInvInit, SInvStep, PTL DEF Spec

-----------------------------------------------------------------------------
LEMMA TypesFollow == SInv => TypeOK
<1> SUFFICES ASSUME SInv PROVE TypeOK
  OBVIOUS
<1>1. L!TypeOK
  BY ListTypes DEF SInv
<1>2. backlog \in 0 .. MaxConn
  BY ServerNumbers DEF SInv, ServerTypes
<1>3. QED
  BY <1>1, <1>2 DEF SInv, ServerTypes, FlagTypes, TypeOK

(***************************************************************************)
(* Type correctness; in particular accept is not called for a connection   *)
(* that is not there (backlog stays a natural number), and the connections *)
(* with unread data are open ones.                                         *)
(***************************************************************************)
THEOREM TypeCorrect == Spec => []TypeOK
BY ServerInvariance, TypesFollow, PTL

(***************************************************************************)
(* users[fd].timer and timer->user_data lead from the open connections to  *)
(* the allocated timers and back, however connections are opened, closed   *)
(* by their clients and timed out, and fds and addresses used again.       *)
(***************************************************************************)
THEOREM UsersMatchTimers == Spec => []TimersMatchConnections
<1>1. SInv => TimersMatchConnections
  BY DEF SInv
<1>2. QED
  BY <1>1, ServerInvariance, PTL

(***************************************************************************)
(* No event of a batch is handled on a connection other than the one it    *)
(* was reported for: timer_handler runs only when the batch is finished.   *)
(***************************************************************************)
THEOREM NoStaleEvents == Spec => []EventsAreOfOpenFds
<1>1. SInv => EventsAreOfOpenFds
  BY DEF SInv, BatchOK, EventsAreOfOpenFds
<1>2. QED
  BY <1>1, ServerInvariance, PTL

LEMMA SameWellLinked == LP!WellLinked => L!WellLinked
<1>1. LP!Cardinality(alive) = L!Cardinality(alive)
  BY DEF LP!Cardinality, L!Cardinality
<1>2. \A s : LP!LinkedAs(s) => L!LinkedAs(s)
  BY <1>1 DEF LP!LinkedAs, L!LinkedAs, LP!Injective, L!Injective
<1>3. QED
  BY <1>1, <1>2 DEF LP!WellLinked, L!WellLinked

(***************************************************************************)
(* Used as the server uses it, the list of timers stays well linked.       *)
(***************************************************************************)
THEOREM ListStaysWellLinked == Spec => []L!WellLinked
<1>1. SInv => L!WellLinked
  BY ListAssumption, LP!WellLinkedFollows, SameWellLinked DEF SInv
<1>2. QED
  BY <1>1, ServerInvariance, PTL

-----------------------------------------------------------------------------
(***************************************************************************)
(* The alarms.                                                             *)
(***************************************************************************)
LEMMA InAppended ==
  ASSUME NEW seq \in Seq({"ALRM", "TERM"}), NEW s
  PROVE  InSeq(s, Append(seq, s)) /\ \A r : InSeq(r, seq) => InSeq(r, Append(seq, s))
<1>1. Append(seq, s)[Len(seq) + 1] = s /\ Len(seq) + 1 \in DOMAIN Append(seq, s)
  OBVIOUS
<1>2. \A k \in DOMAIN seq : k \in DOMAIN Append(seq, s) /\ Append(seq, s)[k] = seq[k]
  OBVIOUS
<1>3. QED
  BY <1>1, <1>2 DEF InSeq

(***************************************************************************)
(* There is only ever one alarm: none is set while the signal of the last  *)
(* is on its way, and the pipe holds that signal at most once.             *)
(***************************************************************************)
AlarmOnce ==
  /\ \A i, j \in DOMAIN sigpipe : sigpipe[i] = "ALRM" /\ sigpipe[j] = "ALRM" => i = j
  /\ alarm # NoAlarm => "ALRM" \notin sigpend /\ ~InSeq("ALRM", sigpipe) /\ ~timeout
  /\ "ALRM" \in sigpend => ~InSeq("ALRM", sigpipe) /\ ~timeout
  /\ InSeq("ALRM", sigpipe) => ~timeout
  /\ ppc = "ticked" => timeout

LEMMA AlarmOnceInit == Init => AlarmOnce
BY DEF Init, AlarmOnce, InSeq

LEMMA AlarmOnceStep == SInv /\ AlarmOnce /\ [Next]_vars => AlarmOnce'
<1> SUFFICES ASSUME SInv, AlarmOnce, [Next]_vars PROVE AlarmOnce'
  OBVIOUS
<1>0. ASSUME UNCHANGED <<alarm, sigpend, sigpipe, timeout>>, ppc' = "ticked" => ppc = "ticked"
      PROVE  AlarmOnce'
  BY <1>0 DEF AlarmOnce, InSeq
<1>1. CASE Connect \/ SetClockBack
  BY <1>0, <1>1 DEF Connect, SetClockBack, sigVars, clockVars
<1>2. CASE Elapse
  <2>1. alarm' # NoAlarm => alarm # NoAlarm
    BY <1>2 DEF Elapse
  <2>2. UNCHANGED <<sigpend, sigpipe, timeout, ppc>>
    BY <1>2 DEF Elapse, sigVars
  <2>3. QED
    BY <2>1, <2>2 DEF AlarmOnce, InSeq
<1>3. CASE Ring
  <2>1. /\ alarm = 0 /\ alarm' = NoAlarm /\ sigpend' = sigpend \cup {"ALRM"}
        /\ UNCHANGED <<sigpipe, timeout, ppc>>
    BY <1>3 DEF Ring
  <2>2. QED
    BY <2>1 DEF AlarmOnce, InSeq, NoAlarm
<1>4. CASE Term
  <2>1. sigpend' = sigpend \cup {"TERM"} /\ UNCHANGED <<alarm, sigpipe, timeout, ppc>>
    BY <1>4 DEF Term, clockVars
  <2>2. QED
    BY <2>1 DEF AlarmOnce, InSeq
<1>5. ASSUME NEW fd \in Fd, ClientSend(fd) \/ ClientClose(fd) \/ ClientData(fd) \/ ClientGone(fd)
      PROVE  AlarmOnce'
  BY <1>0, <1>5 DEF ClientSend, ClientClose, ClientData, ClientGone, sigVars, clockVars
<1>6. ASSUME NEW s \in {"ALRM", "TERM"}, SigHandler(s)
      PROVE  AlarmOnce'
  <2>1. /\ s \in sigpend /\ sigpend' = sigpend \ {s} /\ sigpipe' = Written(s)
        /\ UNCHANGED <<alarm, timeout, ppc>>
    BY <1>6 DEF SigHandler, clockVars
  <2>2. CASE sigpipe' = sigpipe
    BY <2>1, <2>2 DEF AlarmOnce, InSeq
  <2>3. CASE sigpipe' = Append(sigpipe, s)
    <3>1. sigpipe \in Seq({"ALRM", "TERM"})
      BY DEF SInv, ServerTypes
    <3>2. DOMAIN sigpipe' = DOMAIN sigpipe \cup {Len(sigpipe) + 1} /\ sigpipe'[Len(sigpipe) + 1] = s
      BY <2>3, <3>1
    <3>3. \A k \in DOMAIN sigpipe : sigpipe'[k] = sigpipe[k]
      BY <2>3, <3>1
    <3>4. CASE s = "TERM"
      BY <2>1, <3>2, <3>3, <3>4 DEF AlarmOnce, InSeq
    <3>5. CASE s = "ALRM"
      <4>1. /\ \A k \in DOMAIN sigpipe : sigpipe[k] # "ALRM"
            /\ ~timeout /\ alarm = NoAlarm
        BY <2>1, <3>5 DEF AlarmOnce, InSeq
      <4>2. \A i \in DOMAIN sigpipe' : sigpipe'[i] = "ALRM" => i = Len(sigpipe) + 1
        BY <3>2, <3>3, <4>1
      <4>3. \A i, j \in DOMAIN sigpipe' : sigpipe'[i] = "ALRM" /\ sigpipe'[j] = "ALRM" => i = j
        BY <4>2
      <4>4. "ALRM" \notin sigpend'
        BY <2>1, <3>5
      <4>5. ~timeout' /\ alarm' = NoAlarm /\ ppc' = ppc
        BY <2>1, <4>1
      <4>6. ppc' # "ticked"
        BY <4>1, <4>5 DEF AlarmOnce
      <4>7. QED
        BY <4>3, <4>4, <4>5, <4>6 DEF AlarmOnce
    <3>6. QED
      BY <3>4, <3>5
  <2>4. QED
    BY <2>1, <2>2, <2>3 DEF Written
<1>7. CASE PollReturns \/ EndBatch
  BY <1>0, <1>7 DEF PollReturns, EndBatch, sigVars, clockVars
<1>8. CASE ReadSignals
  <2>1. /\ ppc = "batch" /\ sigpipe' = <<>> /\ timeout' = (timeout \/ InSeq("ALRM", sigpipe))
        /\ UNCHANGED <<alarm, sigpend, ppc>>
    BY <1>8 DEF ReadSignals, TakeEvent, clockVars
  <2>2. DOMAIN sigpipe' = {} /\ ~InSeq("ALRM", sigpipe)'
    BY <2>1 DEF InSeq
  <2>3. alarm' # NoAlarm => "ALRM" \notin sigpend' /\ ~timeout'
    BY <2>1 DEF AlarmOnce
  <2>4. "ALRM" \in sigpend' => ~timeout'
    BY <2>1 DEF AlarmOnce
  <2>5. QED
    BY <2>1, <2>2, <2>3, <2>4 DEF AlarmOnce
<1>9. CASE TimerTick
  <2>1. timeout /\ UNCHANGED <<alarm, sigpend, sigpipe, timeout>>
    BY <1>9 DEF TimerTick, sigVars
  <2>2. QED
    BY <2>1 DEF AlarmOnce, InSeq
<1>10. CASE SetAlarm
  <2>1. /\ ppc = "ticked" /\ timeout' = FALSE /\ UNCHANGED <<sigpend, sigpipe>>
        /\ ppc' # "ticked"
    BY <1>10 DEF SetAlarm
  <2>2. timeout /\ "ALRM" \notin sigpend /\ ~InSeq("ALRM", sigpipe)
    BY <2>1 DEF AlarmOnce
  <2>3. QED
    BY <2>1, <2>2 DEF AlarmOnce, InSeq
<1>11. ASSUME NEW t \in Timer, Accept(t)
       PROVE  AlarmOnce'
  BY <1>0, <1>11 DEF Accept, sigVars, clockVars
<1>12. CASE UNCHANGED vars
  BY <1>0, <1>12 DEF vars, sigVars, clockVars
<1>13. QED
  BY <1>1, <1>2, <1>3, <1>4, <1>5, <1>6, <1>7, <1>8, <1>9, <1>10, <1>11, <1>12 DEF Next

\* A pipe that is full holds a SIGTERM, for it holds one SIGALRM at most.
LEMMA FullHasTerm ==
  ASSUME SInv, AlarmOnce, Len(sigpipe) >= PipeSize
  PROVE  InSeq("TERM", sigpipe)
<1>1. sigpipe \in Seq({"ALRM", "TERM"}) /\ 1 \in DOMAIN sigpipe /\ 2 \in DOMAIN sigpipe
  BY ServerNumbers DEF SInv, ServerTypes
<1>2. sigpipe[1] \in {"ALRM", "TERM"} /\ sigpipe[2] \in {"ALRM", "TERM"}
  BY <1>1
<1>3. ~(sigpipe[1] = "ALRM" /\ sigpipe[2] = "ALRM")
  BY <1>1 DEF AlarmOnce
<1>4. QED
  BY <1>1, <1>2, <1>3 DEF InSeq

\* What a handler does to the pipe: its signal is in it, or it is full.
LEMMA HandlerWrites ==
  ASSUME SInv, AlarmOnce, NEW s \in {"ALRM", "TERM"}, SigHandler(s)
  PROVE  /\ Running /\ sigpend' = sigpend \ {s}
         /\ UNCHANGED <<alarm, timeout, stop_server, ppc, terms>>
         /\ \A r : InSeq(r, sigpipe) => InSeq(r, sigpipe')
         /\ InSeq(s, sigpipe') \/ InSeq("TERM", sigpipe)
<1>1. /\ Running /\ sigpend' = sigpend \ {s} /\ sigpipe' = Written(s)
      /\ UNCHANGED <<alarm, timeout, stop_server, ppc, terms>>
  BY DEF SigHandler, clockVars, counters
<1>2. sigpipe \in Seq({"ALRM", "TERM"})
  BY DEF SInv, ServerTypes
<1>3. CASE Len(sigpipe) < PipeSize
  <2>1. sigpipe' = Append(sigpipe, s)
    BY <1>1, <1>3 DEF Written
  <2>2. InSeq(s, sigpipe') /\ \A r : InSeq(r, sigpipe) => InSeq(r, sigpipe')
    BY <1>2, <2>1, InAppended
  <2>3. QED
    BY <1>1, <2>2
<1>4. CASE ~(Len(sigpipe) < PipeSize)
  <2>1. Len(sigpipe) >= PipeSize
    BY <1>2, <1>4, ServerNumbers
  <2>2. InSeq("TERM", sigpipe)
    BY <2>1, FullHasTerm
  <2>3. sigpipe' = sigpipe
    BY <1>1, <1>4 DEF Written
  <2>4. QED
    BY <1>1, <2>2, <2>3 DEF InSeq
<1>5. QED
  BY <1>3, <1>4

\* tick takes no edges but those of the connections it closes.
LEMMA TickKeepsEdges ==
  ASSUME SInv, ~crashed, TickList
  PROVE  ready \ Fd \subseteq ready'
<1>1. \A cur : LP!Expired(cur) \subseteq alive
  BY ListAssumption, LP!ExpiredAreAlive DEF SInv
<1>2. user_data \in [Timer -> Fd] /\ alive \subseteq Timer
  BY ListTypes DEF SInv, ServerTypes
<1>3. {user_data[t] : t \in L!Expired(now)} \subseteq Fd
  BY <1>1, <1>2, SameExpired
<1>4. QED
  BY <1>3 DEF TickList, CloseFds

\* A SIGTERM once sent is on its way, or has been read and this batch is the last.
TermGoesOn ==
  terms > 0 /\ Running =>
    \/ stop_server /\ ppc \in {"batch", "ticked"}
    \/ "TERM" \in sigpend
    \/ OnItsWay("TERM")

\* What is in the pipe has an event that is still to be handled.
PipeOK == Running /\ sigpipe # <<>> => pipefd \in ready \cup batch

LEMMA PipeStep == SInv /\ PipeOK /\ [Next]_vars => PipeOK'
<1> SUFFICES ASSUME SInv, PipeOK, [Next]_vars, Running' PROVE PipeOK'
  BY DEF PipeOK
<1> USE DEF PipeOK
<1>0. ASSUME Running, sigpipe' = sigpipe, ready \ Fd \subseteq ready', batch \subseteq batch' \cup Fd
      PROVE  PipeOK'
  BY <1>0, FdsApart
<1>1. CASE Connect \/ SetClockBack \/ Elapse \/ Ring \/ Term
  BY <1>0, <1>1 DEF Connect, SetClockBack, Elapse, Ring, Term, pollVars, sigVars
<1>2. ASSUME NEW fd \in Fd, ClientSend(fd) \/ ClientClose(fd)
      PROVE  PipeOK'
  BY <1>0, <1>2 DEF ClientSend, ClientClose, sigVars
<1>3. ASSUME NEW s \in {"ALRM", "TERM"}, SigHandler(s)
      PROVE  PipeOK'
  <2>1. /\ Running /\ ready' = IF sigpipe' = sigpipe THEN ready ELSE ready \cup {pipefd}
        /\ batch' = batch
    BY <1>3 DEF SigHandler
  <2>2. QED
    BY <2>1
<1>4. CASE PollReturns
  <2>1. ppc = "poll" /\ Running /\ batch' = ready \cap ReadableSources /\ sigpipe' = sigpipe
    BY <1>4 DEF PollReturns, sigVars
  <2>2. batch = {}
    BY <2>1 DEF SInv, BatchOK
  <2>3. sigpipe # <<>> => pipefd \in ReadableSources
    BY DEF ReadableSources
  <2>4. QED
    BY <2>1, <2>2, <2>3
<1>5. CASE ReadSignals
  BY <1>5 DEF ReadSignals
<1>6. CASE EndBatch \/ SetAlarm
  BY <1>0, <1>6 DEF EndBatch, SetAlarm, pollVars, sigVars
<1>7. CASE TimerTick
  <2>1. Running /\ TickList /\ sigpipe' = sigpipe /\ batch' = batch
    BY <1>7 DEF TimerTick, sigVars
  <2>2. ready \ Fd \subseteq ready'
    BY <2>1, TickKeepsEdges DEF Running
  <2>3. QED
    BY <1>0, <2>1, <2>2
<1>8. ASSUME NEW t \in Timer, Accept(t)
      PROVE  PipeOK'
  <2>1. Running /\ batch' = batch \ {listenfd} /\ UNCHANGED <<ready, sigpipe>>
    BY <1>8 DEF Accept, TakeEvent, sigVars
  <2>2. QED
    BY <2>1, FdsApart
<1>9. ASSUME NEW fd \in Fd, ClientData(fd) \/ ClientGone(fd)
      PROVE  PipeOK'
  <2>1. /\ Running /\ batch' = batch \ {fd} /\ (ready' = ready \/ ready' = ready \ {fd})
        /\ sigpipe' = sigpipe
    BY <1>9 DEF ClientData, ClientGone, CloseFds, TakeEvent, sigVars
  <2>2. QED
    BY <1>0, <2>1
<1>10. CASE UNCHANGED vars
  <2>1. Running
    BY <1>10 DEF vars, listVars, Running
  <2>2. QED
    BY <1>0, <1>10, <2>1 DEF vars, pollVars, sigVars
<1>11. QED
  BY <1>1, <1>2, <1>3, <1>4, <1>5, <1>6, <1>7, <1>8, <1>9, <1>10 DEF Next

\* With PipeOK, a signal in the pipe is on its way.
LEMMA InPipe ==
  ASSUME PipeOK, Running, NEW s
  PROVE  OnItsWay(s) <=> InSeq(s, sigpipe)
BY DEF PipeOK, OnItsWay, InSeq

\* Where an alarm can be, and where a SIGTERM.
AlarmSomewhere ==
  \/ alarm # NoAlarm \/ "ALRM" \in sigpend \/ InSeq("ALRM", sigpipe) \/ timeout
  \/ InSeq("TERM", sigpipe)
  \/ stop_server /\ ppc = "batch"

TermSomewhere ==
  \/ stop_server /\ ppc \in {"batch", "ticked"}
  \/ "TERM" \in sigpend
  \/ InSeq("TERM", sigpipe)

SignalsOK == Running => AlarmSomewhere /\ (terms > 0 => TermSomewhere)

LEMMA SignalsInit == Init => PipeOK /\ SignalsOK
BY ServerNumbers DEF Init, PipeOK, SignalsOK, AlarmSomewhere, NoAlarm

LEMMA SignalsStep == SInv /\ AlarmOnce /\ SignalsOK /\ [Next]_vars => SignalsOK'
<1> SUFFICES ASSUME SInv, AlarmOnce, SignalsOK, [Next]_vars, Running'
             PROVE  AlarmSomewhere' /\ (terms' > 0 => TermSomewhere')
  BY DEF SignalsOK
<1> USE DEF SignalsOK, AlarmSomewhere, TermSomewhere
<1>0. ASSUME Running, UNCHANGED <<alarm, sigpend, sigpipe, timeout, stop_server, ppc, terms>>
      PROVE  AlarmSomewhere' /\ (terms' > 0 => TermSomewhere')
  BY <1>0 DEF InSeq
<1>1. CASE Connect \/ SetClockBack
  BY <1>0, <1>1 DEF Connect, SetClockBack, sigVars, clockVars
<1>2. CASE Elapse
  <2>1. /\ Running /\ UNCHANGED <<sigpend, sigpipe, timeout, stop_server, ppc, terms>>
        /\ alarm' = IF alarm = NoAlarm THEN NoAlarm ELSE alarm - 1
        /\ alarm # 0
    BY <1>2 DEF Elapse, sigVars, counters
  <2>2. alarm # NoAlarm => alarm' # NoAlarm
    BY <2>1, ServerNumbers DEF NoAlarm, SInv, ServerTypes
  <2>3. QED
    BY <2>1, <2>2 DEF InSeq
<1>3. CASE Ring
  <2>1. /\ Running /\ sigpend' = sigpend \cup {"ALRM"}
        /\ UNCHANGED <<sigpipe, timeout, stop_server, ppc, terms>>
    BY <1>3 DEF Ring, counters
  <2>2. QED
    BY <2>1 DEF InSeq
<1>4. CASE Term
  <2>1. /\ Running /\ sigpend' = sigpend \cup {"TERM"}
        /\ UNCHANGED <<alarm, sigpipe, timeout, stop_server, ppc>>
    BY <1>4 DEF Term, clockVars
  <2>2. QED
    BY <2>1 DEF InSeq
<1>5. ASSUME NEW fd \in Fd, ClientSend(fd) \/ ClientClose(fd) \/ ClientData(fd) \/ ClientGone(fd)
      PROVE  AlarmSomewhere' /\ (terms' > 0 => TermSomewhere')
  BY <1>0, <1>5 DEF ClientSend, ClientClose, ClientData, ClientGone, TakeEvent, sigVars, clockVars, counters
<1>6. ASSUME NEW s \in {"ALRM", "TERM"}, SigHandler(s)
      PROVE  AlarmSomewhere' /\ (terms' > 0 => TermSomewhere')
  <2>1. /\ Running /\ sigpend' = sigpend \ {s}
        /\ UNCHANGED <<alarm, timeout, stop_server, ppc, terms>>
        /\ \A r : InSeq(r, sigpipe) => InSeq(r, sigpipe')
        /\ InSeq(s, sigpipe') \/ InSeq("TERM", sigpipe)
    BY <1>6, HandlerWrites
  <2>2. QED
    BY <2>1
<1>7. CASE PollReturns
  <2>1. /\ Running /\ ppc = "poll" /\ ppc' = "batch"
        /\ UNCHANGED <<alarm, sigpend, sigpipe, timeout, stop_server, terms>>
    BY <1>7 DEF PollReturns, sigVars, clockVars, counters
  <2>2. QED
    BY <2>1 DEF InSeq
<1>8. CASE ReadSignals
  <2>1. /\ Running /\ ppc = "batch" /\ stop_server' = (stop_server \/ InSeq("TERM", sigpipe))
        /\ timeout' = (timeout \/ InSeq("ALRM", sigpipe))
        /\ UNCHANGED <<alarm, terms, sigpend, ppc>>
    BY <1>8 DEF ReadSignals, TakeEvent, clockVars, counters
  <2>2. QED
    BY <2>1
<1>9. CASE EndBatch
  <2>1. /\ Running /\ ppc = "batch" /\ ppc' = IF stop_server THEN "stopped" ELSE "poll"
        /\ UNCHANGED <<alarm, sigpend, sigpipe, timeout, stop_server, terms>>
    BY <1>9 DEF EndBatch, sigVars, clockVars, counters
  <2>2. ~stop_server
    BY <2>1 DEF Running
  <2>3. QED
    BY <2>1, <2>2 DEF InSeq
<1>10. CASE TimerTick
  <2>1. /\ Running /\ timeout /\ ppc = "batch" /\ ppc' = "ticked"
        /\ UNCHANGED <<sigpend, sigpipe, timeout, stop_server, terms>>
    BY <1>10 DEF TimerTick, sigVars, counters
  <2>2. QED
    BY <2>1 DEF InSeq
<1>11. CASE SetAlarm
  <2>1. /\ Running /\ alarm' = TIMESLOT /\ ppc' = IF stop_server THEN "stopped" ELSE "poll"
        /\ UNCHANGED <<sigpend, sigpipe, stop_server, terms>>
    BY <1>11 DEF SetAlarm, counters
  <2>2. ~stop_server /\ alarm' # NoAlarm
    BY <2>1, ServerNumbers DEF Running, NoAlarm
  <2>3. QED
    BY <2>1, <2>2 DEF InSeq
<1>12. ASSUME NEW t \in Timer, Accept(t)
       PROVE  AlarmSomewhere' /\ (terms' > 0 => TermSomewhere')
  BY <1>0, <1>12 DEF Accept, TakeEvent, sigVars, clockVars, counters
<1>13. CASE UNCHANGED vars
  <2>1. Running
    BY <1>13 DEF vars, listVars, Running
  <2>2. QED
    BY <1>0, <1>13, <2>1 DEF vars, sigVars, clockVars, counters
<1>14. QED
  BY <1>1, <1>2, <1>3, <1>4, <1>5, <1>6, <1>7, <1>8, <1>9, <1>10, <1>11, <1>12, <1>13 DEF Next

THEOREM SignalInvariance == Spec => [](AlarmOnce /\ PipeOK /\ SignalsOK)
BY ServerInvariance, AlarmOnceInit, AlarmOnceStep, SignalsInit, PipeStep, SignalsStep, PTL DEF Spec

(***************************************************************************)
(* While the server runs an alarm is set, or its signal is pending, in the *)
(* pipe with the event that will have it read, or noted in timeout for the *)
(* end of the batch, where timer_handler sets the next; or SIGTERMs have   *)
(* filled the pipe, and the server will stop when it reads them.           *)
(***************************************************************************)
THEOREM AlarmNeverLost == Spec => []AlarmGoesOn
<1>1. PipeOK /\ SignalsOK => AlarmGoesOn
  BY InPipe DEF SignalsOK, AlarmSomewhere, AlarmGoesOn
<1>2. QED
  BY <1>1, SignalInvariance, PTL

(***************************************************************************)
(* A SIGTERM, once sent, stops the server or is on its way to do so: it is *)
(* pending, or written to the pipe with the event that has it read, or has *)
(* been read, and then this batch is the last.  It is not dropped by a     *)
(* full pipe, for that holds another.                                      *)
(***************************************************************************)
THEOREM TermNeverLost == Spec => []TermGoesOn
<1>1. PipeOK /\ SignalsOK => TermGoesOn
  BY InPipe DEF SignalsOK, TermSomewhere, TermGoesOn
<1>2. QED
  BY <1>1, SignalInvariance, PTL

-----------------------------------------------------------------------------
(***************************************************************************)
(* Connections without activity.                                           *)
(***************************************************************************)
LEMMA InactiveInit == Init => InactiveIsClosed
BY DEF Init, InactiveIsClosed

\* With the list in order a tick leaves no connection whose time is up.
LEMMA TickedInTime ==
  ASSUME SInv, SInv', ~crashed, TickList, UNCHANGED <<timer, now>>, ~misordered'
  PROVE  crashed' \/ \A fd \in open' : now' < expire'[timer'[fd]]
<1> SUFFICES ASSUME ~crashed', NEW fd \in open'
             PROVE  now < expire'[timer'[fd]]
  OBVIOUS
<1>1. timer'[fd] \in alive'
  BY DEF SInv, TimersMatchConnections
<1>2. CASE head = NULL
  <2>1. alive' = alive
    BY <1>2 DEF TickList, listVars
  <2>2. alive = {}
    BY <1>2, ListAssumption, LP!EmptyList DEF SInv
  <2>3. QED
    BY <1>1, <2>1, <2>2
<1>3. CASE head # NULL
  <2>1. L!Tick(now) /\ NoteOrder
    BY <1>3 DEF TickList
  <2>2. LP!Tick(now)
    BY <2>1, SameTick
  <2>3. LP!Sorted
    BY <2>1, NotedNext DEF SInv, OrderNoted
  <2>4. LP!IInv /\ now \in Nat
    BY NewExpire DEF SInv
  <2>5. \A t \in alive' : expire'[t] > now
    BY <2>2, <2>3, <2>4, ListAssumption, LP!TickSorted
  <2>6. expire'[timer'[fd]] > now
    BY <1>1, <2>5
  <2>7. expire'[timer'[fd]] \in Int
    <3>1. expire' \in [Timer -> 0 .. MaxTime] /\ alive' \subseteq Timer
      BY DEF SInv, LP!IInv, LP!TypeOK
    <3>2. QED
      BY <1>1, <3>1, ServerNumbers
  <2>8. QED
    BY <2>4, <2>6, <2>7
<1>4. QED
  BY <1>2, <1>3

LEMMA InactiveStep == SInv /\ SInv' /\ InactiveIsClosed /\ [Next]_vars => InactiveIsClosed'
<1> SUFFICES ASSUME SInv, SInv', InactiveIsClosed, [Next]_vars, Running', ~misordered',
                    NEW fd \in open'
             PROVE  now' < expire'[timer'[fd]] + since'
  BY DEF InactiveIsClosed
<1>0. ~crashed'
  BY DEF Running
<1>02. /\ now \in Nat /\ now' \in Nat /\ since \in Nat /\ since' \in Nat
       /\ expire \in [Timer -> 0 .. MaxTime] /\ MaxTime \in Nat
       /\ timer \in [Fd -> L!Ptr] /\ open \subseteq Fd
  BY ListTypes, NewExpire, ServerNumbers DEF SInv, ServerTypes
<1>01. ASSUME Running, ~misordered, fd \in open
       PROVE  /\ now < expire[timer[fd]] + since /\ expire[timer[fd]] \in Nat
              /\ timer[fd] \in alive /\ timer[fd] \in Timer
  BY <1>01, <1>02, TimerOfOpen DEF InactiveIsClosed, Running
\* Nothing of interest changes.
<1>1. ASSUME Running, UNCHANGED <<since, misordered, expire, timer, open, now>>
      PROVE  now' < expire'[timer'[fd]] + since'
  BY <1>1, <1>01
<1>2. CASE Connect \/ Ring \/ Term
  BY <1>1, <1>2 DEF Connect, Ring, Term, listVars, connVars, clockVars
<1>3. CASE Elapse
  <2>1. Running /\ now' = now + 1 /\ since' = since + 1 /\ UNCHANGED <<misordered, expire, timer, open>>
    BY <1>3 DEF Elapse, listVars, connVars
  <2>2. now < expire[timer[fd]] + since /\ expire[timer[fd]] \in Nat
    BY <1>01, <2>1
  <2>3. now + 1 < expire[timer[fd]] + (since + 1)
    BY <1>02, <2>2
  <2>4. QED
    BY <2>1, <2>3
<1>4. CASE SetClockBack
  <2>1. Running /\ now' = now - 1 /\ UNCHANGED <<since, misordered, expire, timer, open>>
    BY <1>4 DEF SetClockBack, listVars, connVars
  <2>2. now < expire[timer[fd]] + since /\ expire[timer[fd]] \in Nat
    BY <1>01, <2>1
  <2>3. now - 1 < expire[timer[fd]] + since
    BY <1>02, <2>2
  <2>4. QED
    BY <2>1, <2>3
<1>5. ASSUME NEW c \in Fd, ClientSend(c) \/ ClientClose(c)
      PROVE  now' < expire'[timer'[fd]] + since'
  BY <1>1, <1>5 DEF ClientSend, ClientClose, listVars, clockVars
<1>6. ASSUME NEW s \in {"ALRM", "TERM"}, SigHandler(s)
      PROVE  now' < expire'[timer'[fd]] + since'
  BY <1>1, <1>6 DEF SigHandler, listVars, connVars, clockVars
<1>7. CASE PollReturns \/ ReadSignals \/ EndBatch \/ SetAlarm
  BY <1>1, <1>7 DEF PollReturns, ReadSignals, EndBatch, SetAlarm, TakeEvent, listVars, connVars, clockVars
<1>8. CASE TimerTick
  <2>1. Running /\ UNCHANGED <<timer, now>> /\ TickList /\ since' = 0
    BY <1>8 DEF TimerTick
  <2>2. now' < expire'[timer'[fd]]
    BY <1>0, <2>1, TickedInTime DEF Running
  <2>3. timer'[fd] \in alive' /\ alive' \subseteq Timer /\ expire' \in [Timer -> 0 .. MaxTime]
    BY <1>0 DEF SInv, TimersMatchConnections, LP!IInv, LP!TypeOK
  <2>4. expire'[timer'[fd]] \in Nat
    BY <1>02, <2>3
  <2>5. QED
    BY <1>02, <2>1, <2>2, <2>4
<1>9. ASSUME NEW t \in Timer, Accept(t)
      PROVE  now' < expire'[timer'[fd]] + since'
  <2> DEFINE connfd == CHOOSE c \in Fd \ open : \A other \in Fd \ open : c <= other
  <2>1. connfd \in Fd \ open
    BY <1>9, LowestFree DEF Accept
  <2>2. /\ Running /\ L!Add(t, now + Timeout) /\ NoteOrder
        /\ open' = open \cup {connfd}
        /\ timer' = [timer EXCEPT ![connfd] = t]
        /\ now' = now /\ since' = since
    BY <1>9 DEF Accept, TakeEvent, clockVars
  <2> HIDE DEF connfd
  <2>3. t \notin alive /\ expire' = [expire EXCEPT ![t] = now + Timeout]
    BY <2>2 DEF L!Add
  <2>4. ~misordered
    BY <2>2, NotedNext
  <2>5. CASE fd = connfd
    <3>1. timer'[fd] = t /\ expire'[t] = now + Timeout
      BY <1>02, <2>1, <2>2, <2>3, <2>5
    <3>2. QED
      BY <1>02, <2>2, <3>1, NewExpire, ServerNumbers
  <2>6. CASE fd # connfd
    <3>1. fd \in open /\ timer'[fd] = timer[fd]
      BY <1>02, <2>1, <2>2, <2>6
    <3>2. now < expire[timer[fd]] + since /\ timer[fd] \in alive /\ timer[fd] \in Timer
      BY <1>01, <2>2, <2>4, <3>1
    <3>3. expire'[timer[fd]] = expire[timer[fd]]
      BY <1>02, <2>3, <3>2
    <3>4. QED
      BY <2>2, <3>1, <3>2, <3>3
  <2>7. QED
    BY <2>5, <2>6
<1>10. ASSUME NEW c \in Fd, ClientData(c)
       PROVE  now' < expire'[timer'[fd]] + since'
  <2>1. /\ Running /\ L!Adjust(timer[c], now + Timeout) /\ NoteOrder
        /\ UNCHANGED <<timer, open, now, since>>
    BY <1>10 DEF ClientData, TakeEvent, clockVars
  <2>2. expire' = [expire EXCEPT ![timer[c]] = now + Timeout]
    BY <2>1 DEF L!Adjust
  <2>3. now < expire[timer[fd]] + since /\ timer[fd] \in Timer
    BY <1>01, <2>1, NotedNext
  <2>4. CASE timer[fd] = timer[c]
    <3>1. expire'[timer[fd]] = now + Timeout
      BY <1>02, <2>2, <2>3, <2>4
    <3>2. QED
      BY <1>02, <2>1, <3>1, NewExpire, ServerNumbers
  <2>5. CASE timer[fd] # timer[c]
    <3>1. expire'[timer[fd]] = expire[timer[fd]]
      BY <1>02, <2>2, <2>3, <2>5
    <3>2. QED
      BY <2>1, <2>3, <3>1
  <2>6. QED
    BY <2>4, <2>5
<1>11. ASSUME NEW c \in Fd, ClientGone(c)
       PROVE  now' < expire'[timer'[fd]] + since'
  <2>1. /\ Running /\ L!Del(timer[c]) /\ NoteOrder /\ open' = open \ {c} /\ c \in hup
        /\ UNCHANGED <<timer, now, since>>
    BY <1>11 DEF ClientGone, CloseFds, TakeEvent, clockVars
  <2>2. expire' = [t \in Timer |-> IF t \in {timer[c]} THEN 0 ELSE expire[t]]
    BY <2>1 DEF L!Del, L!Delete, L!Free
  <2>3. fd \in open /\ c \in open /\ fd # c /\ ~crashed
    BY <2>1 DEF SInv, ServerTypes, Running
  <2>4. now < expire[timer[fd]] + since /\ timer[fd] \in Timer
    BY <1>01, <2>1, <2>3, NotedNext
  <2>5. user_data[timer[fd]] = fd /\ user_data[timer[c]] = c
    BY <2>3, TimerOfOpen
  <2>6. expire'[timer[fd]] = expire[timer[fd]]
    BY <2>2, <2>3, <2>4, <2>5
  <2>7. QED
    BY <2>1, <2>4, <2>6
<1>12. CASE UNCHANGED vars
  <2>1. Running
    BY <1>12 DEF vars, listVars, Running
  <2>2. QED
    BY <1>1, <1>12, <2>1 DEF vars, listVars, connVars, clockVars
<1>13. QED
  BY <1>2, <1>3, <1>4, <1>5, <1>6, <1>7, <1>8, <1>9, <1>10, <1>11, <1>12 DEF Next

(***************************************************************************)
(* No open connection is past its time for longer than since the last      *)
(* alarm was handled, however late SIGALRM was handled then and however    *)
(* long ago it is: what tick leaves has its time to come, and what comes   *)
(* after it too.  Provided the list has been in order, as tick relies on.  *)
(***************************************************************************)
THEOREM ClosedInTime == Spec => []InactiveIsClosed
BY ServerInvariance, InactiveInit, InactiveStep, PTL DEF Spec

-----------------------------------------------------------------------------
(***************************************************************************)
(* The leases.                                                             *)
(***************************************************************************)
Leased == [fd \in open |-> expire[timer[fd]]]

\* A step after which every connection has the time it had, the clock too.
LEMMA SameLeases ==
  ASSUME UNCHANGED <<open, timer, expire, now>>
  PROVE  UNCHANGED <<now, Leased>>
BY DEF Leased

LEMMA AcceptOpens ==
  ASSUME SInv, NEW t \in Timer, Accept(t)
  PROVE  \E fd \in Fd : Contract!Open(fd)
<1>1. PICK connfd \in Fd \ open :
        connfd = CHOOSE fd \in Fd \ open : \A other \in Fd \ open : fd <= other
  BY LowestFree DEF Accept
<1>2. /\ L!Add(t, now + Timeout)
      /\ open' = open \cup {connfd}
      /\ timer' = [timer EXCEPT ![connfd] = t]
      /\ UNCHANGED <<now, data, hup>>
  BY <1>1 DEF Accept, clockVars
<1>3. ~crashed /\ t \notin alive /\ expire' = [expire EXCEPT ![t] = now + Timeout]
  BY <1>2 DEF L!Add
<1>4. timer \in [Fd -> L!Ptr] /\ open \subseteq Fd /\ expire \in [Timer -> 0 .. MaxTime]
  BY ListTypes DEF SInv, ServerTypes
<1>5. timer'[connfd] = t /\ expire'[t] = now + Timeout
  BY <1>1, <1>2, <1>3, <1>4
<1>6. ASSUME NEW fd \in open
      PROVE  fd # connfd /\ timer'[fd] = timer[fd] /\ expire'[timer[fd]] = expire[timer[fd]]
  <2>1. timer[fd] \in alive /\ timer[fd] \in Timer
    BY <1>3, TimerOfOpen
  <2>2. QED
    BY <1>1, <1>2, <1>3, <1>4, <2>1
<1>7. Leased' = [fd \in open \cup {connfd} |-> IF fd = connfd THEN now + Timeout ELSE Leased[fd]]
  BY <1>2, <1>5, <1>6 DEF Leased
<1>8. Contract!Open(connfd)
  <2>1. DOMAIN Leased = open
    BY DEF Leased
  <2>2. QED
    BY <1>1, <1>2, <1>7, <2>1 DEF Contract!Open, Contract!Fresh, Leased
<1>9. QED
  BY <1>1, <1>8

LEMMA DataRenew ==
  ASSUME SInv, NEW fd \in Fd, ClientData(fd)
  PROVE  Contract!Renew(fd)
<1>1. /\ fd \in data /\ data' = data \ {fd} /\ L!Adjust(timer[fd], now + Timeout)
      /\ UNCHANGED <<timer, open, now, hup>>
  BY DEF ClientData, clockVars
<1>2. ~crashed /\ expire' = [expire EXCEPT ![timer[fd]] = now + Timeout]
  BY <1>1 DEF L!Adjust
<1>3. fd \in open /\ expire \in [Timer -> 0 .. MaxTime]
  BY <1>1, ListTypes DEF SInv, ServerTypes
<1>4. \A other \in open : timer[other] \in Timer /\ user_data[timer[other]] = other
  BY <1>2, TimerOfOpen
<1>5. \A other \in open : expire'[timer[other]] = IF other = fd THEN now + Timeout
                                                  ELSE expire[timer[other]]
  BY <1>2, <1>3, <1>4
<1>6. Leased' = [other \in open \cup {fd} |-> IF other = fd THEN now + Timeout ELSE Leased[other]]
  BY <1>1, <1>3, <1>5 DEF Leased
<1>7. QED
  BY <1>1, <1>3, <1>6 DEF Contract!Renew, Contract!Fresh, Leased

\* The timers of gone are freed with the connections they lead to.
LEMMA FreedLeases ==
  ASSUME SInv, ~crashed, NEW gone \in SUBSET alive,
         open' = open \ {user_data[t] : t \in gone},
         timer' = timer,
         expire' = [t \in Timer |-> IF t \in gone THEN 0 ELSE expire[t]]
  PROVE  Leased' = [fd \in open \ {user_data[t] : t \in gone} |-> Leased[fd]]
<1>1. ASSUME NEW fd \in open'
      PROVE  expire'[timer[fd]] = expire[timer[fd]]
  <2>1. fd \in open /\ timer[fd] \in Timer /\ user_data[timer[fd]] = fd
    BY <1>1, TimerOfOpen
  <2>2. timer[fd] \notin gone
    BY <1>1, <2>1
  <2>3. QED
    BY <2>1, <2>2
<1>2. QED
  BY <1>1 DEF Leased

LEMMA GoneGivesUp ==
  ASSUME SInv, NEW fd \in Fd, ClientGone(fd)
  PROVE  Contract!GiveUp(fd)
<1>1. /\ fd \in hup \ data /\ L!Del(timer[fd]) /\ open' = open \ {fd}
      /\ data' = data \ {fd} /\ hup' = hup \ {fd} /\ UNCHANGED <<timer, now>>
  BY DEF ClientGone, CloseFds, clockVars
<1>2. ~crashed /\ fd \in open
  BY <1>1 DEF L!Del, SInv, ServerTypes
<1>3. timer[fd] \in alive /\ user_data[timer[fd]] = fd
  BY <1>2, TimerOfOpen
<1>4. expire' = [t \in Timer |-> IF t \in {timer[fd]} THEN 0 ELSE expire[t]]
  BY <1>1 DEF L!Del, L!Delete, L!Free
<1>5. {user_data[t] : t \in {timer[fd]}} = {fd}
  BY <1>3
<1>6. Leased' = [other \in open \ {fd} |-> Leased[other]]
  BY <1>1, <1>2, <1>3, <1>4, <1>5, FreedLeases
<1>7. QED
  BY <1>1, <1>6 DEF Contract!GiveUp, Contract!End, Contract!Without, Leased

LEMMA TickExpires ==
  ASSUME SInv, ~crashed, TickList, UNCHANGED <<timer, now>>
  PROVE  Contract!Expire
<1>1. CASE head = NULL
  <2>1. UNCHANGED <<open, expire, data, hup>>
    BY <1>1 DEF TickList, listVars
  <2>2. Leased' = [fd \in open \ {} |-> Leased[fd]]
    BY <2>1 DEF Leased
  <2>3. Contract!Without({}) = [fd \in open \ {} |-> Leased[fd]]
    BY DEF Contract!Without, Leased
  <2>4. Contract!End({})
    BY <2>1, <2>2, <2>3 DEF Contract!End, Leased
  <2>5. {} \in SUBSET {c \in DOMAIN Leased : Leased[c] <= now}
    OBVIOUS
  <2>6. QED
    BY <2>4, <2>5 DEF Contract!Expire, Leased
<1>2. CASE head # NULL
  <2>1. PICK gone : gone = L!Expired(now)
    OBVIOUS
  <2>2. /\ L!Tick(now) /\ open' = open \ {user_data[t] : t \in gone}
        /\ data' = data \ {user_data[t] : t \in gone} /\ hup' = hup \ {user_data[t] : t \in gone}
    BY <1>2, <2>1 DEF TickList, CloseFds
  <2>3. expire' = [t \in Timer |-> IF t \in gone THEN 0 ELSE expire[t]]
    BY <2>1, <2>2 DEF L!Tick, L!Delete, L!Free
  <2>4. gone \subseteq alive
    <3>1. \A cur : LP!Expired(cur) \subseteq alive
      BY ListAssumption, LP!ExpiredAreAlive DEF SInv
    <3>2. QED
      BY <2>1, <3>1, SameExpired
  <2>5. PICK fds : fds = {user_data[t] : t \in gone}
    OBVIOUS
  <2>6. Leased' = [fd \in open \ fds |-> Leased[fd]]
    BY <2>2, <2>3, <2>4, <2>5, FreedLeases
  <2>7. ASSUME NEW fd \in fds
        PROVE  fd \in open /\ Leased[fd] <= now
    <3>1. PICK t \in gone : fd = user_data[t]
      BY <2>5
    <3>2. fd \in open /\ timer[fd] = t
      BY <2>4, <3>1 DEF SInv, TimersMatchConnections
    <3>3. expire[t] <= now
      BY <2>1, <3>1, ListAssumption, SameExpired, LP!ExpiredInTime
    <3>4. QED
      BY <3>2, <3>3 DEF Leased
  <2>8. Contract!Without(fds) = [fd \in open \ fds |-> Leased[fd]]
    BY DEF Contract!Without, Leased
  <2>9. Contract!End(fds)
    BY <2>2, <2>5, <2>6, <2>8 DEF Contract!End, Leased
  <2>10. fds \in SUBSET {c \in DOMAIN Leased : Leased[c] <= now}
    BY <2>7 DEF Leased
  <2>11. QED
    BY <2>9, <2>10 DEF Contract!Expire, Leased
<1>3. QED
  BY <1>1, <1>2

LEMMA LeaseInit == Init => Contract!Init
BY DEF Init, Contract!Init

LeaseVars == <<now, Leased, data, hup>>

LEMMA LeaseStep == SInv /\ [Next]_vars => [Contract!Next]_LeaseVars
<1> SUFFICES ASSUME SInv, [Next]_vars, ~UNCHANGED LeaseVars
             PROVE  Contract!Next
  OBVIOUS
<1>1. ~(open' = open /\ timer' = timer /\ expire' = expire /\ now' = now /\ data' = data /\ hup' = hup)
  BY SameLeases DEF LeaseVars
<1>2. CASE Connect \/ Term \/ Ring
  BY <1>1, <1>2 DEF Connect, Term, Ring, listVars, connVars, clockVars
<1>3. CASE Elapse \/ SetClockBack
  <2>1. UNCHANGED <<open, timer, expire, data, hup>> /\ (now' = now + 1 \/ now' = now - 1)
    BY <1>3 DEF Elapse, SetClockBack, listVars, connVars
  <2>2. Leased' = Leased
    BY <2>1 DEF Leased
  <2>3. Contract!Pass \/ Contract!SetBack
    BY <2>1, <2>2 DEF Contract!Pass, Contract!SetBack, Leased
  <2>4. QED
    BY <2>3 DEF Contract!Next
<1>4. ASSUME NEW fd \in Fd, ClientSend(fd) \/ ClientClose(fd)
      PROVE  Contract!Next
  <2>1. fd \in open \ hup /\ UNCHANGED <<now, open, timer, expire>>
    BY <1>4 DEF ClientSend, ClientClose, listVars, clockVars
  <2>2. Leased' = Leased /\ fd \in DOMAIN Leased
    BY <2>1 DEF Leased
  <2>3. \/ data' = data \cup {fd} /\ hup' = hup
        \/ hup' = hup \cup {fd} /\ data' = data
    BY <1>4 DEF ClientSend, ClientClose
  <2>4. Contract!Speak(fd) \/ Contract!Go(fd)
    BY <2>1, <2>2, <2>3 DEF Contract!Speak, Contract!Go, Leased
  <2>5. QED
    BY <2>4 DEF Contract!Next
<1>5. ASSUME NEW s \in {"ALRM", "TERM"}, SigHandler(s)
      PROVE  FALSE
  BY <1>1, <1>5 DEF SigHandler, listVars, connVars, clockVars
<1>6. CASE PollReturns \/ ReadSignals \/ EndBatch \/ SetAlarm
  BY <1>1, <1>6 DEF PollReturns, ReadSignals, EndBatch, SetAlarm, listVars, connVars, clockVars
<1>7. CASE TimerTick
  <2>1. Running /\ UNCHANGED <<timer, now>> /\ TickList
    BY <1>7 DEF TimerTick
  <2>2. Contract!Expire
    BY <2>1, TickExpires DEF Running
  <2>3. QED
    BY <2>2 DEF Contract!Next
<1>8. ASSUME NEW t \in Timer, Accept(t)
      PROVE  Contract!Next
  BY <1>8, AcceptOpens DEF Contract!Next
<1>9. ASSUME NEW fd \in Fd, ClientData(fd)
      PROVE  Contract!Next
  BY <1>9, DataRenew DEF Contract!Next
<1>10. ASSUME NEW fd \in Fd, ClientGone(fd)
       PROVE  Contract!Next
  BY <1>10, GoneGivesUp DEF Contract!Next
<1>11. CASE UNCHANGED vars
  BY <1>1, <1>11 DEF vars, listVars, connVars, clockVars
<1>12. QED
  BY <1>2, <1>3, <1>4, <1>5, <1>6, <1>7, <1>8, <1>9, <1>10, <1>11 DEF Next

(***************************************************************************)
(* The server keeps its contract with its clients: whatever happens to the *)
(* list, the clock, fds and addresses, a connection is closed only when    *)
(* its client has closed it and all it had sent was read, or when it has   *)
(* been silent for Timeout.                                                *)
(***************************************************************************)
THEOREM KeepsLeases == Spec => ImplementsLeases
<1>1. SInv /\ [Next]_vars => [Contract!Next]_<<now, [fd \in open |-> expire[timer[fd]]], data, hup>>
  BY LeaseStep DEF Leased, LeaseVars
<1>2. QED
  BY <1>1, LeaseInit, ServerInvariance, PTL DEF Spec, ImplementsLeases, Contract!Spec, Contract!leaseVars

-----------------------------------------------------------------------------
(***************************************************************************)
(* How long a lease can be when the clock is set back: each time adds as   *)
(* much as it was set back by, and nothing else does.                      *)
(***************************************************************************)
LeasesAreShort == \A fd \in open : expire[timer[fd]] <= now + Timeout + backs

ShortLeases ==
  \A fd \in DOMAIN Leased : Leased[fd] \in Int /\ Leased[fd] <= now + Timeout + backs

LEMMA ShortInit == Init => ShortLeases
BY DEF Init, ShortLeases, Leased

\* Only SetClockBack changes backs or takes from now.
LEMMA ClockSteps ==
  ASSUME SInv, [Next]_vars
  PROVE  \/ now' = now - 1 /\ backs' = backs + 1 /\ UNCHANGED Leased
         \/ now' \in {now, now + 1} /\ backs' = backs /\ [Contract!Next]_LeaseVars
<1>1. CASE SetClockBack
  <2>1. now' = now - 1 /\ backs' = backs + 1 /\ UNCHANGED <<open, timer, expire>>
    BY <1>1 DEF SetClockBack, listVars, connVars
  <2>2. UNCHANGED Leased
    BY <2>1 DEF Leased
  <2>3. QED
    BY <2>1, <2>2
<1>2. CASE Elapse
  <2>1. now' = now + 1 /\ backs' = backs
    BY <1>2 DEF Elapse, counters
  <2>2. QED
    BY <2>1, LeaseStep
<1>3. CASE now' = now /\ backs' = backs
  BY <1>3, LeaseStep
<1>4. ASSUME NEW fd \in Fd, ClientSend(fd) \/ ClientClose(fd) \/ ClientData(fd) \/ ClientGone(fd)
      PROVE  now' = now /\ backs' = backs
  BY <1>4 DEF ClientSend, ClientClose, ClientData, ClientGone, clockVars, counters
<1>5. ASSUME NEW t \in Timer, Accept(t)
      PROVE  now' = now /\ backs' = backs
  BY <1>5 DEF Accept, clockVars, counters
<1>6. ASSUME NEW s \in {"ALRM", "TERM"}, SigHandler(s)
      PROVE  now' = now /\ backs' = backs
  BY <1>6 DEF SigHandler, clockVars, counters
<1>7. ASSUME \/ Connect \/ Ring \/ Term \/ PollReturns \/ ReadSignals
             \/ EndBatch \/ TimerTick \/ SetAlarm \/ UNCHANGED vars
      PROVE  now' = now /\ backs' = backs
  BY <1>7 DEF Connect, Ring, Term, PollReturns, ReadSignals, EndBatch, TimerTick, SetAlarm,
              vars, clockVars, counters
<1>8. QED
  BY <1>1, <1>2, <1>3, <1>4, <1>5, <1>6, <1>7 DEF Next

LEMMA ShortStep == SInv /\ ShortLeases /\ [Next]_vars => ShortLeases'
<1> SUFFICES ASSUME SInv, ShortLeases, [Next]_vars
             PROVE  ShortLeases'
  OBVIOUS
<1> USE ServerNumbers
<1>1. now \in Nat /\ backs \in Nat
  BY DEF SInv, ServerTypes
<1>2. \A fd \in DOMAIN Leased : Leased[fd] \in Int /\ Leased[fd] <= now + Timeout + backs
  BY DEF ShortLeases
<1>3. SUFFICES \A fd \in DOMAIN Leased' : Leased'[fd] \in Int /\ Leased'[fd] <= now' + Timeout + backs'
  BY DEF ShortLeases
<1>4. CASE now' = now - 1 /\ backs' = backs + 1 /\ UNCHANGED Leased
  BY <1>1, <1>2, <1>4
<1>5. CASE now' \in {now, now + 1} /\ backs' = backs /\ [Contract!Next]_LeaseVars
  <2>1. CASE UNCHANGED Leased
    <3>1. \A x, n, b, d \in Int : \A m \in {n, n + 1} : x <= n + d + b => x <= m + d + b
      OBVIOUS
    <3>2. QED
      BY <1>1, <1>2, <1>5, <2>1, <3>1
  <2>2. ASSUME NEW fd \in Fd, Leased' = Contract!Fresh(fd)
        PROVE  \A c \in DOMAIN Leased' : Leased'[c] \in Int /\ Leased'[c] <= now' + Timeout + backs'
    <3>1. Leased' = [d \in DOMAIN Leased \cup {fd} |-> IF d = fd THEN now + Timeout ELSE Leased[d]]
      BY <2>2 DEF Contract!Fresh, Leased
    <3>2. now + Timeout \in Int /\ now + Timeout <= now' + Timeout + backs'
      <4>1. now' \in {now, now + 1} /\ backs' = backs
        BY <1>5
      <4>2. \A n, b, d \in Nat : \A m \in {n, n + 1} : n + d \in Int /\ n + d <= m + d + b
        OBVIOUS
      <4>3. QED
        BY <1>1, <4>1, <4>2
    <3>3. \A c \in DOMAIN Leased : Leased[c] <= now' + Timeout + backs'
      BY <1>1, <1>2, <1>5
    <3>4. QED
      BY <1>2, <3>1, <3>2, <3>3
  <2>3. ASSUME NEW cs, Leased' = Contract!Without(cs)
        PROVE  \A c \in DOMAIN Leased' : Leased'[c] \in Int /\ Leased'[c] <= now' + Timeout + backs'
    <3>1. Leased' = [d \in DOMAIN Leased \ cs |-> Leased[d]]
      BY <2>3 DEF Contract!Without, Leased
    <3>2. \A c \in DOMAIN Leased : Leased[c] <= now' + Timeout + backs'
      BY <1>1, <1>2, <1>5
    <3>3. QED
      BY <1>2, <3>1, <3>2
  <2>4. CASE Contract!Next
    <3>1. \/ UNCHANGED Leased
          \/ \E fd \in Fd : Leased' = Contract!Fresh(fd)
          \/ \E cs : Leased' = Contract!Without(cs)
      BY <2>4 DEF Contract!Next, Contract!Open, Contract!Renew, Contract!Speak, Contract!Go,
                  Contract!GiveUp, Contract!Expire, Contract!End, Contract!Pass, Contract!SetBack,
                  Leased
    <3>2. QED
      BY <2>1, <2>2, <2>3, <3>1
  <2>5. QED
    BY <1>5, <2>1, <2>4 DEF LeaseVars
<1>6. QED
  BY <1>4, <1>5, ClockSteps

(***************************************************************************)
(* No connection is ever given more than Timeout from now and what the     *)
(* clock was set back by: with KeepsLeases, how long a silent client can   *)
(* hold its connection before tick may take it.                            *)
(***************************************************************************)
THEOREM SilentClientsAreShort == Spec => []LeasesAreShort
<1>1. ShortLeases => LeasesAreShort
  BY DEF ShortLeases, LeasesAreShort, Leased
<1>2. QED
  BY <1>1, ServerInvariance, ShortInit, ShortStep, PTL DEF Spec

=============================================================================
