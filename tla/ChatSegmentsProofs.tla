-------------------------- MODULE ChatSegmentsProofs --------------------------
(***************************************************************************)
(* Proofs about what the chat server's processes exchange: the types of    *)
(* all its variables (TypeOK), what holds of the shared memory until the   *)
(* first client has left (PrivateSegments, RelaysNothingOlder), and how    *)
(* the server and the child it may leave behind end, for any set of pids,  *)
(* any limits, any number of clients and messages.                         *)
(***************************************************************************)
EXTENDS ChatSignalsProofs

-----------------------------------------------------------------------------
(***************************************************************************)
(* What is in a queue, and what the operations on queues do to that.       *)
(***************************************************************************)
Items(s) == {s[k] : k \in DOMAIN s}

Ascending(s) == \A j, k \in DOMAIN s : j < k => s[j] < s[k]

LEMMA EmptyItems == Items(<<>>) = {} /\ Ascending(<<>>)
BY DEF Items, Ascending

LEMMA TailItems ==
  ASSUME NEW S, NEW s \in Seq(S), s # <<>>
  PROVE  /\ Tail(s) \in Seq(S) /\ Head(s) \in S
         /\ Head(s) \in Items(s)
         /\ Items(Tail(s)) \subseteq Items(s)
<1>1. Len(s) \in Nat \ {0} /\ DOMAIN s = 1 .. Len(s) /\ Head(s) = s[1]
  BY EmptySeq, LenProperties
<1>2. /\ Head(s) \in S /\ Tail(s) \in Seq(S)
      /\ DOMAIN Tail(s) = 1 .. Len(s) - 1
      /\ \A i \in 1 .. Len(s) - 1 : Tail(s)[i] = s[i + 1]
  BY <1>1, HeadTailProperties, LenProperties
<1>3. Head(s) \in Items(s)
  BY <1>1 DEF Items
<1>4. \A i \in 1 .. Len(s) - 1 : Tail(s)[i] \in Items(s)
  BY <1>1, <1>2 DEF Items
<1>5. Items(Tail(s)) \subseteq Items(s)
  BY <1>2, <1>4 DEF Items
<1>6. QED
  BY <1>2, <1>3, <1>5

LEMMA AppendItems ==
  ASSUME NEW S, NEW s \in Seq(S), NEW e \in S
  PROVE  /\ Append(s, e) \in Seq(S)
         /\ Items(Append(s, e)) = Items(s) \cup {e}
<1>1. Len(s) \in Nat /\ DOMAIN s = 1 .. Len(s)
  BY LenProperties
<1>2. /\ Append(s, e) \in Seq(S)
      /\ DOMAIN Append(s, e) = 1 .. Len(s) + 1
      /\ \A i \in 1 .. Len(s) : Append(s, e)[i] = s[i]
      /\ Append(s, e)[Len(s) + 1] = e
  BY <1>1, AppendProperties, LenProperties
<1>3. \A i \in 1 .. Len(s) + 1 : Append(s, e)[i] \in Items(s) \cup {e}
  <2>1. \A i \in 1 .. Len(s) : s[i] \in Items(s)
    BY <1>1 DEF Items
  <2>2. QED
    BY <1>1, <1>2, <2>1
<1>4. \A x \in Items(s) : \E i \in 1 .. Len(s) + 1 : Append(s, e)[i] = x
  BY <1>1, <1>2 DEF Items
<1>5. e \in Items(Append(s, e))
  BY <1>1, <1>2 DEF Items
<1>6. Items(Append(s, e)) \subseteq Items(s) \cup {e}
  BY <1>2, <1>3 DEF Items
<1>7. Items(s) \subseteq Items(Append(s, e))
  BY <1>2, <1>4 DEF Items
<1>8. QED
  BY <1>2, <1>5, <1>6, <1>7

\* A send on a pipe: one announcement more, or none.
LEMMA PutItems ==
  ASSUME NEW S, NEW s \in Seq(S), NEW e \in S
  PROVE  C!Put(s, e) \in Seq(S) /\ Items(C!Put(s, e)) \subseteq Items(s) \cup {e}
BY AppendItems DEF C!Put

\* A message that is later than all others goes to the end.
LEMMA AppendAscending ==
  ASSUME NEW s \in Seq(Nat), NEW m \in Nat, Ascending(s), \A x \in Items(s) : x < m
  PROVE  Ascending(Append(s, m))
<1>1. Len(s) \in Nat /\ DOMAIN s = 1 .. Len(s) /\ \A i \in 1 .. Len(s) : s[i] \in Nat
  BY LenProperties, ElementOfSeq
<1>2. /\ DOMAIN Append(s, m) = 1 .. Len(s) + 1
      /\ \A i \in 1 .. Len(s) : Append(s, m)[i] = s[i]
      /\ Append(s, m)[Len(s) + 1] = m
  BY <1>1, AppendProperties, LenProperties
<1>3. \A i \in 1 .. Len(s) : s[i] < m
  BY <1>1 DEF Items
<1>4. QED
  BY <1>1, <1>2, <1>3 DEF Ascending

\* What a recv takes from the data that wait, and what it leaves.
LEMMA SplitAt ==
  ASSUME NEW s \in Seq(Nat), s # <<>>, NEW n \in 1 .. Len(s),
         NEW taken, taken = SubSeq(s, 1, n), NEW left, left = SubSeq(s, n + 1, Len(s))
  PROVE  /\ taken \in Seq(Nat) /\ taken # <<>> /\ Head(taken) = s[1]
         /\ left \in Seq(Nat) /\ DOMAIN left = 1 .. Len(s) - n
         /\ \A i \in 1 .. Len(s) - n : left[i] = s[n + i]
<1>1. Len(s) \in Nat \ {0} /\ DOMAIN s = 1 .. Len(s) /\ \A i \in 1 .. Len(s) : s[i] \in Nat
  BY EmptySeq, LenProperties, ElementOfSeq
<1>2. taken \in Seq(Nat) /\ Len(taken) = n /\ taken[1] = s[1]
  <2>1. \A i \in 1 .. n : s[i] \in Nat
    BY <1>1
  <2>2. /\ SubSeq(s, 1, n) \in Seq(Nat)
        /\ Len(SubSeq(s, 1, n)) = IF 1 <= n THEN n - 1 + 1 ELSE 0
        /\ \A i \in 1 .. n - 1 + 1 : SubSeq(s, 1, n)[i] = s[1 + i - 1]
    BY <1>1, <2>1, SubSeqProperties
  <2>3. QED
    BY <1>1, <2>2
<1>3. taken # <<>> /\ Head(taken) = s[1]
  <2>1. Len(taken) # 0
    BY <1>2
  <2>2. taken # <<>>
    BY <2>1, EmptySeq
  <2>3. Head(taken) = taken[1]
    BY <1>2, <2>2
  <2>4. QED
    BY <1>2, <2>2, <2>3
<1>4. /\ left \in Seq(Nat) /\ DOMAIN left = 1 .. Len(s) - n
      /\ \A i \in 1 .. Len(s) - n : left[i] = s[n + i]
  <2>1. \A i \in n + 1 .. Len(s) : s[i] \in Nat
    BY <1>1
  <2>2. /\ SubSeq(s, n + 1, Len(s)) \in Seq(Nat)
        /\ Len(SubSeq(s, n + 1, Len(s))) = IF n + 1 <= Len(s) THEN Len(s) - (n + 1) + 1 ELSE 0
        /\ \A i \in 1 .. Len(s) - (n + 1) + 1 : SubSeq(s, n + 1, Len(s))[i] = s[n + 1 + i - 1]
    BY <1>1, <2>1, SubSeqProperties
  <2>3. Len(left) = Len(s) - n
    <3> DEFINE l == Len(left)
               k == Len(s)
    <3>1. k \in Nat /\ n \in 1 .. k /\ l = IF n + 1 <= k THEN k - (n + 1) + 1 ELSE 0
      BY <1>1, <2>2
    <3> HIDE DEF l, k
    <3>2. l = k - n
      BY <3>1
    <3>3. QED
      BY <3>2 DEF l, k
  <2>4. DOMAIN left = 1 .. Len(s) - n
    BY <2>2, <2>3, LenProperties
  <2>5. ASSUME NEW i \in 1 .. Len(s) - n PROVE left[i] = s[n + i]
    BY <1>1, <2>2
  <2>6. QED
    BY <2>2, <2>4, <2>5
<1>5. QED
  BY <1>2, <1>3, <1>4

\* If the data wait in their order, what is left is later than all that is taken.
LEMMA SplitItems ==
  ASSUME NEW s \in Seq(Nat), Ascending(s), s # <<>>, NEW n \in 1 .. Len(s), NEW left,
         DOMAIN left = 1 .. Len(s) - n, \A i \in 1 .. Len(s) - n : left[i] = s[n + i]
  PROVE  /\ s[1] \in Items(s)
         /\ Ascending(left)
         /\ Items(left) \subseteq Items(s)
         /\ \A m \in Items(left) : m > s[1]
<1>1. Len(s) \in Nat \ {0} /\ DOMAIN s = 1 .. Len(s) /\ \A i \in 1 .. Len(s) : s[i] \in Nat
  BY EmptySeq, LenProperties, ElementOfSeq
<1>2. \A i \in 1 .. Len(s) - n : n + i \in 1 .. Len(s) /\ 1 < n + i /\ 1 \in 1 .. Len(s)
  BY <1>1
<1>3. \A j, k \in 1 .. Len(s) : j < k => s[j] < s[k]
  BY <1>1 DEF Ascending
<1>4. ASSUME NEW j \in 1 .. Len(s) - n, NEW k \in 1 .. Len(s) - n, j < k
      PROVE  left[j] < left[k]
  <2>1. n + j < n + k
    BY <1>1, <1>4
  <2>2. QED
    BY <1>2, <1>3, <2>1
<1>5. ASSUME NEW i \in 1 .. Len(s) - n
      PROVE  left[i] \in Items(s) /\ left[i] > s[1]
  <2>1. left[i] = s[n + i] /\ s[1] < s[n + i] /\ s[1] \in Nat /\ s[n + i] \in Nat
    BY <1>1, <1>2, <1>3
  <2>2. QED
    BY <1>1, <1>2, <2>1 DEF Items
<1>6. Ascending(left)
  BY <1>4 DEF Ascending
<1>7. Items(left) \subseteq Items(s) /\ \A m \in Items(left) : m > s[1]
  BY <1>5 DEF Items
<1>8. s[1] \in Items(s)
  <2>1. 1 \in DOMAIN s
    BY <1>1
  <2>2. QED
    BY <2>1 DEF Items
<1>9. QED
  BY <1>6, <1>7, <1>8

-----------------------------------------------------------------------------
(***************************************************************************)
(* The types ChatServerProofs and ChatSignalsProofs have no need of.       *)
(***************************************************************************)
WireTypeOK ==
  /\ stop_child \in [Pid -> BOOLEAN]
  /\ cready \in [Pid -> SUBSET C!Fd]
  /\ cbatch \in [Pid -> SUBSET C!Fd]
  /\ inbox \in [Pid -> Seq(Nat)]
  /\ closed \in [Pid -> BOOLEAN]
  /\ up \in [Pid -> Seq(C!Announcement)]
  /\ down \in [Pid -> Seq(C!Announcement)]
  /\ eof \in [Pid -> BOOLEAN]
  /\ shm \in [C!Segment -> Seq(Nat)]

MainTypeOK ==
  /\ ready \subseteq Pid \cup {"listen", "sig"}
  /\ batch \subseteq Pid \cup {"listen", "sig"}
  /\ stop_server \in BOOLEAN
  /\ terminate \in BOOLEAN
  /\ sigpend \subseteq {"CHLD", "TERM"}
  /\ inherits \in [Pid -> SUBSET Pid]

\* A connection waits whenever the event on listenfd is still to be handled.
BoundsOK ==
  /\ conns \in 0 .. MaxConn
  /\ backlog \in 0 .. conns
  /\ "listen" \in batch => backlog > 0
  /\ msgs \in 0 .. MaxMsg
  /\ terms \in 0 .. MaxTerm
  /\ fails \in 0 .. MaxFail
  /\ nforks \in Nat

KindInv == WireTypeOK /\ MainTypeOK /\ BoundsOK

\* A recv of child p: the client is gone, or the first of its data become the
\* content of its segment and are announced.
LEMMA RecvCases ==
  ASSUME LoopTypeOK, WireTypeOK, NEW p \in Pid, C!RecvFromClient(p)
  PROVE  /\ cpc[p] = "recv" /\ cpc' = [cpc EXCEPT ![p] = "handle"]
         /\ UNCHANGED <<idx, cready, cbatch, closed, down, eof>>
         /\ \/ /\ stop_child' = [stop_child EXCEPT ![p] = TRUE]
               /\ UNCHANGED <<inbox, up, shm>>
            \/ \E n \in 1 .. Len(inbox[p]), taken \in Seq(Nat), left \in Seq(Nat) :
                 /\ inbox[p] # <<>>
                 /\ taken # <<>> /\ Head(taken) = inbox[p][1]
                 /\ DOMAIN left = 1 .. Len(inbox[p]) - n
                 /\ \A i \in 1 .. Len(inbox[p]) - n : left[i] = inbox[p][n + i]
                 /\ inbox' = [inbox EXCEPT ![p] = left]
                 /\ shm' = [shm EXCEPT ![idx[p]] = taken]
                 /\ up' = [up EXCEPT ![p] = C!Put(@, [idx |-> idx[p], data |-> taken])]
                 /\ UNCHANGED stop_child
<1> DEFINE n == IF Len(inbox[p]) < RecvMax THEN Len(inbox[p]) ELSE RecvMax
           taken == SubSeq(inbox[p], 1, n)
           left  == SubSeq(inbox[p], n + 1, Len(inbox[p]))
<1>1. /\ cpc[p] = "recv" /\ cpc' = [cpc EXCEPT ![p] = "handle"]
      /\ UNCHANGED <<idx, cready, cbatch, closed, down, eof>>
  BY DEF C!RecvFromClient
<1>2. \/ /\ stop_child' = [stop_child EXCEPT ![p] = TRUE]
         /\ UNCHANGED <<inbox, up, shm>>
      \/ /\ inbox[p] # <<>>
         /\ inbox' = [inbox EXCEPT ![p] = left]
         /\ shm' = [shm EXCEPT ![idx[p]] = taken]
         /\ up' = [up EXCEPT ![p] = C!Put(@, [idx |-> idx[p], data |-> taken])]
         /\ UNCHANGED stop_child
  BY DEF C!RecvFromClient
<1>3. inbox[p] \in Seq(Nat)
  BY DEF WireTypeOK
<1>4. ASSUME inbox[p] # <<>>
      PROVE  n \in 1 .. Len(inbox[p])
  <2>1. Len(inbox[p]) \in Nat \ {0} /\ RecvMax \in Nat \ {0}
    BY <1>3, <1>4, EmptySeq, LenProperties, ChatServerAssumption
  <2>2. QED
    BY <2>1
<1> HIDE DEF n
<1>5. ASSUME inbox[p] # <<>>
      PROVE  /\ taken \in Seq(Nat) /\ taken # <<>> /\ Head(taken) = inbox[p][1]
             /\ left \in Seq(Nat) /\ DOMAIN left = 1 .. Len(inbox[p]) - n
             /\ \A i \in 1 .. Len(inbox[p]) - n : left[i] = inbox[p][n + i]
  BY <1>3, <1>4, <1>5, SplitAt
<1> HIDE DEF taken, left
<1>6. QED
  BY <1>1, <1>2, <1>4, <1>5

-----------------------------------------------------------------------------
\* A child's own steps keep the types.
LEMMA ChildStepKinds ==
  ASSUME LoopTypeOK, KindInv, NEW p \in Pid, ChildStep(p)
  PROVE  KindInv'
<1> USE DEF KindInv
<1>1. CASE ChildLoop(p)
  <2>1. MainTypeOK' /\ BoundsOK'
    BY <1>1 DEF ChildLoop, Unnoticed, parentVars, pollVars, flags, sigVars, counters,
                MainTypeOK, BoundsOK
  <2>2. WireTypeOK'
    <3> USE DEF WireTypeOK, C!wireVars
    <3>1. CASE C!CloseInherited(p)
      BY <3>1 DEF C!CloseInherited
    <3>2. CASE C!InstallHandler(p)
      BY <3>2 DEF C!InstallHandler
    <3>3. CASE C!CheckStop(p)
      BY <3>3 DEF C!CheckStop
    <3>4. CASE C!EnterWait(p)
      BY <3>4 DEF C!EnterWait
    <3>5. CASE C!WaitReturns(p)
      BY <3>5 DEF C!WaitReturns, C!Readable
    <3>6. CASE C!WipeSegment(p)
      <4>1. shm' = [shm EXCEPT ![idx[p]] = <<>>] /\ <<>> \in Seq(Nat)
        BY <3>6, EmptySeq DEF C!WipeSegment, C!Blank
      <4>2. QED
        BY <3>6, <4>1 DEF C!WipeSegment
    <3>7. CASE C!Relay(p)
      <4>1. down[p] # <<>> => Tail(down[p]) \in Seq(C!Announcement)
        BY TailItems
      <4>2. down' \in [Pid -> Seq(C!Announcement)] /\ stop_child' \in [Pid -> BOOLEAN]
        BY <3>7, <4>1 DEF C!Relay
      <4>3. QED
        BY <3>7, <4>2 DEF C!Relay
    <3>8. CASE C!EndBatch(p)
      BY <3>8 DEF C!EndBatch
    <3>9. QED
      BY <1>1, <3>1, <3>2, <3>3, <3>4, <3>5, <3>6, <3>7, <3>8 DEF ChildLoop
  <2>3. QED
    BY <2>1, <2>2
<1>2. CASE RecvFromClient(p)
  <2>1. MainTypeOK' /\ BoundsOK'
    BY <1>2 DEF RecvFromClient, flags, sigVars, counters, MainTypeOK, BoundsOK
  <2>2. C!RecvFromClient(p)
    BY <1>2 DEF RecvFromClient
  <2>3. CASE stop_child' = [stop_child EXCEPT ![p] = TRUE] /\ UNCHANGED <<inbox, up, shm>>
    BY <2>1, <2>2, <2>3 DEF C!RecvFromClient, WireTypeOK
  <2>4. ASSUME NEW taken \in Seq(Nat), NEW left \in Seq(Nat),
               inbox' = [inbox EXCEPT ![p] = left],
               shm' = [shm EXCEPT ![idx[p]] = taken],
               up' = [up EXCEPT ![p] = C!Put(@, [idx |-> idx[p], data |-> taken])],
               UNCHANGED <<stop_child, cready, cbatch, closed, down, eof>>
        PROVE  KindInv'
    <3>1. [idx |-> idx[p], data |-> taken] \in C!Announcement
      BY DEF LoopTypeOK, C!Announcement
    <3>2. C!Put(up[p], [idx |-> idx[p], data |-> taken]) \in Seq(C!Announcement)
      BY <3>1, PutItems DEF WireTypeOK
    <3>3. QED
      BY <2>1, <2>4, <3>2 DEF WireTypeOK
  <2>5. QED
    BY <2>2, <2>3, <2>4, RecvCases
<1>3. CASE Exit(p)
  <2>1. MainTypeOK' /\ BoundsOK'
    BY <1>3 DEF Exit, flags, counters, MainTypeOK, BoundsOK
  <2>2. WireTypeOK'
    BY <1>3, EmptySeq DEF Exit, C!Exit, WireTypeOK
  <2>3. QED
    BY <2>1, <2>2
<1>4. CASE HangUp(p)
  <2>1. MainTypeOK' /\ BoundsOK'
    BY <1>4 DEF HangUp, Unnoticed, parentVars, pollVars, flags, sigVars, counters,
                MainTypeOK, BoundsOK
  <2>2. WireTypeOK'
    BY <1>4 DEF HangUp, C!HangUp, WireTypeOK, C!Fd
  <2>3. QED
    BY <2>1, <2>2
<1>5. QED
  BY <1>1, <1>2, <1>3, <1>4 DEF ChildStep

LEMMA EnvironmentKinds ==
  ASSUME KindInv, Environment
  PROVE  KindInv'
<1> USE DEF KindInv
<1>0. MaxConn \in Nat /\ MaxMsg \in Nat /\ MaxTerm \in Nat
  BY ChatServerAssumption
<1>1. CASE Connect
  <2>1. WireTypeOK'
    BY <1>1 DEF Connect, childVars, loopVars, wireVars, WireTypeOK
  <2>2. MainTypeOK'
    BY <1>1 DEF Connect, flags, sigVars, MainTypeOK
  <2>3. BoundsOK'
    BY <1>0, <1>1 DEF Connect, BoundsOK
  <2>4. QED
    BY <2>1, <2>2, <2>3
<1>2. ASSUME NEW p \in Pid, ClientSends(p) PROVE KindInv'
  <2>1. MainTypeOK' /\ BoundsOK'
    BY <1>0, <1>2 DEF ClientSends, parentVars, pollVars, flags, sigVars, MainTypeOK, BoundsOK
  <2>2. Append(inbox[p], msgs) \in Seq(Nat)
    BY <1>0, AppendProperties DEF WireTypeOK, BoundsOK
  <2>3. WireTypeOK'
    BY <1>2, <2>2 DEF ClientSends, C!ClientSend, WireTypeOK, C!Fd
  <2>4. QED
    BY <2>1, <2>3
<1>3. ASSUME NEW p \in Pid, ClientCloses(p) PROVE KindInv'
  <2>1. MainTypeOK' /\ BoundsOK'
    BY <1>3 DEF ClientCloses, parentVars, pollVars, flags, sigVars, counters,
                MainTypeOK, BoundsOK
  <2>2. WireTypeOK'
    BY <1>3 DEF ClientCloses, C!ClientClose, WireTypeOK, C!Fd
  <2>3. QED
    BY <2>1, <2>2
<1>4. CASE Term
  <2>1. WireTypeOK' /\ MainTypeOK'
    BY <1>4 DEF Term, childVars, loopVars, wireVars, pollVars, flags, WireTypeOK, MainTypeOK
  <2>2. BoundsOK'
    BY <1>0, <1>4 DEF Term, pollVars, BoundsOK
  <2>3. QED
    BY <2>1, <2>2
<1>5. QED
  BY <1>1, <1>2, <1>3, <1>4 DEF Environment

\* The parent's steps keep the types; those that change nothing the children
\* see first.
LEMMA EventKinds ==
  ASSUME KindInv,
         AcceptFails \/ TooManyUsers \/ ForkFails \/ PollReturns \/ EndBatch
         \/ ReadSignals \/ HandleSigchld \/ ReapDone \/ StopServer \/ SignalsDone
  PROVE  KindInv'
<1> USE DEF KindInv
<1>0. /\ MaxFail \in Nat /\ MaxConn \in Nat
      /\ "listen" \notin Pid /\ "sig" \notin Pid
  BY ChatServerAssumption
<1>1. UNCHANGED childVars
  BY DEF AcceptFails, TooManyUsers, ForkFails, PollReturns, EndBatch,
         ReadSignals, HandleSigchld, ReapDone, StopServer, SignalsDone
<1>2. WireTypeOK'
  BY <1>1 DEF childVars, loopVars, wireVars, WireTypeOK
<1>3. CASE AcceptFails
  <2>1. MainTypeOK'
    BY <1>3 DEF AcceptFails, TakeEvent, flags, sigVars, MainTypeOK
  <2>2. BoundsOK'
    BY <1>0, <1>3 DEF AcceptFails, TakeEvent, BoundsOK
  <2>3. QED
    BY <1>2, <2>1, <2>2
<1>4. CASE TooManyUsers
  <2>1. MainTypeOK'
    BY <1>4 DEF TooManyUsers, TakeEvent, flags, sigVars, MainTypeOK
  <2>2. BoundsOK'
    BY <1>0, <1>4 DEF TooManyUsers, TakeEvent, counters, BoundsOK
  <2>3. QED
    BY <1>2, <2>1, <2>2
<1>5. CASE ForkFails
  <2>1. MainTypeOK'
    BY <1>5 DEF ForkFails, TakeEvent, flags, sigVars, MainTypeOK
  <2>2. BoundsOK'
    BY <1>0, <1>5 DEF ForkFails, TakeEvent, BoundsOK
  <2>3. QED
    BY <1>2, <2>1, <2>2
<1>6. CASE PollReturns
  <2>1. MainTypeOK'
    BY <1>6 DEF PollReturns, flags, sigVars, MainTypeOK
  <2>2. "listen" \in ReadableSources => backlog > 0
    BY <1>0 DEF ReadableSources
  <2>3. BoundsOK'
    BY <1>0, <1>6, <2>2 DEF PollReturns, counters, BoundsOK
  <2>4. QED
    BY <1>2, <2>1, <2>3
<1>7. CASE EndBatch
  BY <1>2, <1>7 DEF EndBatch, pollVars, flags, sigVars, counters, MainTypeOK, BoundsOK
<1>8. CASE ReadSignals
  <2>1. MainTypeOK'
    BY <1>8 DEF ReadSignals, TakeEvent, flags, MainTypeOK
  <2>2. BoundsOK'
    BY <1>0, <1>8 DEF ReadSignals, TakeEvent, counters, BoundsOK
  <2>3. QED
    BY <1>2, <2>1, <2>2
<1>9. CASE HandleSigchld
  BY <1>2, <1>9 DEF HandleSigchld, pollVars, flags, counters, MainTypeOK, BoundsOK
<1>10. CASE ReapDone
  <2>1. MainTypeOK'
    BY <1>10 DEF ReapDone, pollVars, sigVars, MainTypeOK
  <2>2. BoundsOK'
    BY <1>10 DEF ReapDone, pollVars, counters, BoundsOK
  <2>3. QED
    BY <1>2, <2>1, <2>2
<1>11. CASE StopServer
  BY <1>2, <1>11 DEF StopServer, pollVars, counters, MainTypeOK, BoundsOK
<1>12. CASE SignalsDone
  BY <1>2, <1>12 DEF SignalsDone, pollVars, flags, sigVars, counters, MainTypeOK, BoundsOK
<1>13. QED
  BY <1>3, <1>4, <1>5, <1>6, <1>7, <1>8, <1>9, <1>10, <1>11, <1>12

\* What is sent to the children in K.
LEMMA AnnounceKinds ==
  ASSUME down \in [Pid -> Seq(C!Announcement)], cready \in [Pid -> SUBSET C!Fd],
         NEW K, NEW a \in C!Announcement, C!Announce(K, a)
  PROVE  /\ down' \in [Pid -> Seq(C!Announcement)] /\ cready' \in [Pid -> SUBSET C!Fd]
         /\ \A q \in Pid : \/ down'[q] = down[q]
                           \/ /\ q \in K /\ cpc[q] \in C!Running
                              /\ Items(down'[q]) \subseteq Items(down[q]) \cup {a}
<1> DEFINE Fits(q) == q \in K /\ cpc[q] \in C!Running /\ Len(down[q]) < PipeCap
<1>1. ASSUME NEW q \in Pid
      PROVE  /\ Append(down[q], a) \in Seq(C!Announcement)
             /\ Items(Append(down[q], a)) \subseteq Items(down[q]) \cup {a}
  BY AppendItems
<1>2. /\ down' = [p \in Pid |-> IF Fits(p) THEN Append(down[p], a) ELSE down[p]]
      /\ cready' = [p \in Pid |-> IF Fits(p) THEN cready[p] \cup {"pipe"} ELSE cready[p]]
  BY DEF C!Announce
<1>3. cready' \in [Pid -> SUBSET C!Fd]
  BY <1>2 DEF C!Fd
<1>4. QED
  BY <1>1, <1>2, <1>3

LEMMA TableKinds ==
  ASSUME IInv, KindInv, NEW p \in Pid, AcceptClient(p) \/ Broadcast(p) \/ Reap(p)
  PROVE  KindInv'
<1> USE DEF KindInv
<1>0. "listen" \notin Pid /\ "sig" \notin Pid /\ T!Listed \subseteq Pid
  <2>1. TP!UsersAreChildren
    BY DEF IInv, TP!IInv, TP!TableOK
  <2>2. QED
    BY <2>1, ChatServerAssumption DEF TP!UsersAreChildren, T!Listed, C!Unreaped
<1>1. CASE AcceptClient(p)
  <2>1. WireTypeOK'
    BY <1>1 DEF AcceptClient, C!Fork, wireVars, C!wireVars, WireTypeOK
  <2>2. MainTypeOK'
    BY <1>0, <1>1 DEF AcceptClient, TakeEvent, flags, sigVars, MainTypeOK
  <2>3. BoundsOK'
    BY <1>1 DEF AcceptClient, TakeEvent, BoundsOK
  <2>4. QED
    BY <2>1, <2>2, <2>3
<1>2. CASE Broadcast(p)
  <2>1. MainTypeOK' /\ BoundsOK'
    BY <1>2 DEF Broadcast, TakeEvent, flags, sigVars, counters, MainTypeOK, BoundsOK
  <2>2. /\ down' \in [Pid -> Seq(C!Announcement)] /\ cready' \in [Pid -> SUBSET C!Fd]
        /\ up' \in [Pid -> Seq(C!Announcement)]
    <3>1. CASE up[p] = <<>>
      BY <1>2, <3>1 DEF Broadcast, WireTypeOK
    <3>2. CASE up[p] # <<>>
      <4>1. Head(up[p]) \in C!Announcement /\ Tail(up[p]) \in Seq(C!Announcement)
        BY <3>2, TailItems DEF WireTypeOK
      <4>2. up' = [up EXCEPT ![p] = Tail(@)] /\ C!Announce(T!Listed \ {p}, Head(up[p]))
        BY <1>2, <3>2 DEF Broadcast
      <4>3. QED
        BY <4>1, <4>2, AnnounceKinds DEF WireTypeOK
    <3>3. QED
      BY <3>1, <3>2
  <2>3. WireTypeOK'
    BY <1>2, <2>2 DEF Broadcast, WireTypeOK
  <2>4. QED
    BY <2>1, <2>3
<1>3. CASE Reap(p)
  <2>1. WireTypeOK'
    BY <1>3, EmptySeq DEF Reap, C!Reap, WireTypeOK
  <2>2. MainTypeOK'
    BY <1>3 DEF Reap, flags, sigVars, MainTypeOK
  <2>3. BoundsOK'
    BY <1>3 DEF Reap, counters, BoundsOK
  <2>4. QED
    BY <2>1, <2>2, <2>3
<1>4. QED
  BY <1>1, <1>2, <1>3

LEMMA NextKinds ==
  ASSUME IInv, KindInv, [Next]_vars
  PROVE  KindInv'
<1>0. LoopTypeOK
  BY DEF IInv
<1>1. CASE Environment
  BY <1>1, EnvironmentKinds
<1>2. ASSUME NEW s \in {"CHLD", "TERM"}, SigHandler(s) PROVE KindInv'
  <2>1. WireTypeOK' /\ BoundsOK'
    BY <1>2 DEF KindInv, SigHandler, childVars, loopVars, wireVars, counters,
                WireTypeOK, BoundsOK
  <2>2. MainTypeOK'
    BY <1>2 DEF KindInv, SigHandler, flags, MainTypeOK
  <2>3. QED
    BY <2>1, <2>2 DEF KindInv
<1>3. CASE KillChildren
  <2>1. WireTypeOK'
    BY <1>3 DEF KindInv, KillChildren, C!Terminate, wireVars, C!wireVars, WireTypeOK
  <2>2. MainTypeOK' /\ BoundsOK'
    BY <1>3 DEF KindInv, KillChildren, counters, MainTypeOK, BoundsOK
  <2>3. QED
    BY <2>1, <2>2 DEF KindInv
<1>4. CASE ParentStep
  BY <1>3, <1>4, EventKinds, TableKinds DEF ParentStep
<1>5. ASSUME NEW p \in Pid, ChildStep(p) PROVE KindInv'
  BY <1>0, <1>5, ChildStepKinds
<1>6. CASE UNCHANGED vars
  BY <1>6 DEF KindInv, vars, childVars, loopVars, wireVars, parentVars, pollVars, flags, sigVars,
              counters, WireTypeOK, MainTypeOK, BoundsOK
<1>7. QED
  BY <1>1, <1>2, <1>4, <1>5, <1>6 DEF Next

LEMMA InitKinds == Init => KindInv
<1> SUFFICES ASSUME Init PROVE KindInv
  OBVIOUS
<1>1. WireTypeOK
  BY EmptySeq DEF Init, C!Init, C!Blank, WireTypeOK
<1>2. MainTypeOK
  BY DEF Init, MainTypeOK
<1>3. BoundsOK
  BY ChatServerAssumption DEF Init, BoundsOK
<1>4. QED
  BY <1>1, <1>2, <1>3 DEF KindInv

LEMMA KindsInvariant == Spec => []KindInv
BY InitKinds, NextKinds, Invariance, PTL DEF Spec

LEMMA SignalsInvariant == Spec => []SigInv
BY InitSigInv, NextSigInv, Invariance, PTL DEF Spec

\* Every variable of the server keeps its type: no index outside the tables or
\* the mapping, nothing but announcements in the pipes and no accept without a
\* connection, whatever the number of children.
THEOREM TypeCorrect == Spec => []TypeOK
<1>1. ASSUME IInv, SigInv, KindInv PROVE TypeOK
  <2>1. T!TypeOK
    BY <1>1 DEF IInv, TP!IInv, TP!TypeOK, T!TypeOK, TP!Idx, T!Idx
  <2>2. C!TypeOK
    BY <1>1 DEF IInv, LoopTypeOK, KindInv, WireTypeOK, C!TypeOK
  <2>3. backlog \in 0 .. MaxConn
    BY <1>1, ChatServerAssumption DEF KindInv, BoundsOK
  <2>4. QED
    BY <1>1, <2>1, <2>2, <2>3
       DEF KindInv, MainTypeOK, BoundsOK, SigInv, SigTypeOK, Signal, TypeOK
<1>2. QED
  BY <1>1, Invariance, SignalsInvariant, KindsInvariant, PTL

-----------------------------------------------------------------------------
(***************************************************************************)
(* The segments, until the first client has left.  Only Reap lowers        *)
(* user_count while nforks stays, so from then on Private is false.        *)
(*                                                                         *)
(* An announcement on its way is Current: its segment still holds what was *)
(* announced, or is wiped, or holds later data, and the data its owner has *)
(* not read yet are later still.                                           *)
(***************************************************************************)
Private == nforks = user_count

Current(a) ==
  /\ a.data # <<>>
  /\ a.idx < user_count
  /\ Head(a.data) < msgs
  /\ shm[a.idx] = a.data \/ shm[a.idx] = C!Blank \/ Head(shm[a.idx]) > Head(a.data)
  /\ \A q \in C!Unreaped : idx[q] = a.idx => \A m \in Items(inbox[q]) : m > Head(a.data)

\* What waits for a child is in the order it was sent in, and gone with it.
QueuesOK ==
  /\ nforks >= user_count
  /\ \A p \in Pid : /\ Ascending(inbox[p])
                    /\ \A m \in Items(inbox[p]) : m < msgs
                    /\ Gone(p) => inbox[p] = <<>> /\ down[p] = <<>>
                    /\ cpc[p] = "none" => up[p] = <<>>

OwnSlot == \A p \in C!Unreaped : idx[p] = sub_process[p]

OwnUp == \A p \in C!Unreaped : \A a \in Items(up[p]) : a.idx = idx[p] /\ Current(a)

OthersDown == \A p \in C!Unreaped : \A a \in Items(down[p]) : a.idx # idx[p] /\ Current(a)

SegmentsOK == OwnSlot /\ OwnUp /\ OthersDown

SegInv == QueuesOK /\ (Private => SegmentsOK)

\* A step that sends nothing and writes to no segment.
Still ==
  /\ UNCHANGED <<user_count, sub_process, idx, C!Unreaped, nforks, msgs, shm, up>>
  /\ \A p \in Pid :
       /\ inbox'[p] \in {inbox[p], <<>>}
       /\ \/ down'[p] \in {down[p], <<>>}
          \/ ~Gone(p)' /\ Items(down'[p]) \subseteq Items(down[p])
       /\ Gone(p)' => Gone(p) \/ (inbox'[p] = <<>> /\ down'[p] = <<>>)

LEMMA StillSegInv ==
  ASSUME SegInv, Still
  PROVE  SegInv'
<1>1. ASSUME NEW p \in Pid
      PROVE  /\ Items(inbox'[p]) \subseteq Items(inbox[p])
             /\ Items(down'[p]) \subseteq Items(down[p])
             /\ Ascending(inbox[p]) => Ascending(inbox'[p])
  BY EmptyItems DEF Still
<1>2. QueuesOK'
  <2>1. nforks' >= user_count'
    BY DEF SegInv, QueuesOK, Still
  <2>2. ASSUME NEW p \in Pid
        PROVE  Ascending(inbox'[p]) /\ \A m \in Items(inbox'[p]) : m < msgs'
    BY <1>1 DEF SegInv, QueuesOK, Still
  <2>3. ASSUME NEW p \in Pid
        PROVE  /\ Gone(p)' => inbox'[p] = <<>> /\ down'[p] = <<>>
               /\ cpc'[p] = "none" => up'[p] = <<>>
    <3>1. Gone(p) => inbox[p] = <<>> /\ down[p] = <<>>
      BY DEF SegInv, QueuesOK
    <3>2. Gone(p)' => inbox'[p] = <<>> /\ down'[p] = <<>>
      BY <3>1 DEF Still
    <3>3. cpc'[p] = "none" => cpc[p] = "none"
      BY DEF Still, C!Unreaped
    <3>4. QED
      BY <3>2, <3>3 DEF SegInv, QueuesOK, Still
  <2>4. QED
    BY <2>1, <2>2, <2>3 DEF QueuesOK
<1>3. ASSUME Private'
      PROVE  SegmentsOK'
  <2>1. SegmentsOK
    BY <1>3 DEF SegInv, Private, Still
  <2>2. ASSUME NEW a, Current(a)
        PROVE  Current(a)'
    <3>1. ASSUME NEW q \in C!Unreaped', idx'[q] = a.idx, NEW m \in Items(inbox'[q])
          PROVE  m > Head(a.data)
      <4>1. q \in C!Unreaped /\ q \in Pid /\ idx[q] = a.idx
        BY <3>1 DEF Still, C!Unreaped
      <4>2. m \in Items(inbox[q])
        BY <1>1, <4>1
      <4>3. QED
        BY <2>2, <4>1, <4>2 DEF Current
    <3>2. QED
      BY <2>2, <3>1 DEF Current, Still
  <2>3. OwnSlot'
    BY <2>1 DEF SegmentsOK, OwnSlot, Still
  <2>4. OwnUp'
    BY <2>1, <2>2 DEF SegmentsOK, OwnUp, Still
  <2>5. OthersDown'
    <3>1. ASSUME NEW p \in C!Unreaped', NEW a \in Items(down'[p])
          PROVE  a.idx # idx'[p] /\ Current(a)'
      <4>1. p \in C!Unreaped /\ p \in Pid /\ idx'[p] = idx[p]
        BY <3>1 DEF Still, C!Unreaped
      <4>2. a \in Items(down[p])
        BY <1>1, <4>1
      <4>3. QED
        BY <2>1, <2>2, <4>1, <4>2 DEF SegmentsOK, OthersDown
    <3>2. QED
      BY <3>1 DEF OthersDown
  <2>6. QED
    BY <2>3, <2>4, <2>5 DEF SegmentsOK
<1>4. QED
  BY <1>2, <1>3 DEF SegInv

\* A step that does not touch the queues and lets no child go.
LEMMA NothingMoves ==
  ASSUME Quiet, UNCHANGED <<nforks, msgs, shm, up, inbox, down>>,
         \A p \in Pid : Gone(p)' => Gone(p)
  PROVE  Still
BY DEF Quiet, tables, Still

\* A child moves on in its loop.
LEMMA LoopIsStill ==
  ASSUME LoopTypeOK, KindInv, NEW p \in Pid, ChildLoop(p), ~C!WipeSegment(p)
  PROVE  Still
<1>1. Quiet /\ UNCHANGED <<nforks, msgs>>
  BY ChildStepIsQuiet DEF ChildStep, ChildLoop, Unnoticed, counters
<1>2. CASE C!Relay(p)
  <2>1. UNCHANGED <<cpc, up, inbox, shm>> /\ cpc[p] = "handle"
    BY <1>2 DEF C!Relay
  <2>2. down[p] \in Seq(C!Announcement) /\ down \in [Pid -> Seq(C!Announcement)]
    BY DEF KindInv, WireTypeOK
  <2>3. \A q \in Pid : \/ down'[q] = down[q]
                       \/ q = p /\ Items(down'[q]) \subseteq Items(down[q])
    BY <1>2, <2>2, TailItems DEF C!Relay
  <2>4. QED
    BY <1>1, <2>1, <2>3 DEF Still, Quiet, tables, Gone
<1>3. CASE ~C!Relay(p)
  <2>1. UNCHANGED <<wireVars, shm>> /\ \A q \in Pid : Gone(q)' => Gone(q)
    BY <1>3 DEF ChildLoop, C!CloseInherited, C!InstallHandler, C!CheckStop, C!EnterWait,
                C!WaitReturns, C!EndBatch, C!wireVars, wireVars, Gone, LoopTypeOK
  <2>2. QED
    BY <1>1, <2>1, NothingMoves DEF wireVars
<1>4. QED
  BY <1>2, <1>3

LEMMA EndIsStill ==
  ASSUME LoopTypeOK, KindInv, NEW p \in Pid, Exit(p) \/ HangUp(p)
  PROVE  Still
<1>1. Quiet
  BY ChildStepIsQuiet DEF ChildStep
<1>2. CASE Exit(p)
  <2>1. UNCHANGED <<nforks, msgs, up, shm>> /\ cpc' = [cpc EXCEPT ![p] = "zombie"]
        /\ inbox' = [inbox EXCEPT ![p] = <<>>] /\ down' = [down EXCEPT ![p] = <<>>]
    BY <1>2 DEF Exit, C!Exit, counters
  <2>2. \A q \in Pid : \/ q = p /\ inbox'[q] = <<>> /\ down'[q] = <<>>
                       \/ inbox'[q] = inbox[q] /\ down'[q] = down[q] /\ cpc'[q] = cpc[q]
    BY <2>1 DEF LoopTypeOK, KindInv, WireTypeOK
  <2>3. QED
    BY <1>1, <2>1, <2>2 DEF Still, Quiet, tables, Gone
<1>3. CASE HangUp(p)
  BY <1>1, <1>3, NothingMoves DEF HangUp, C!HangUp, Unnoticed, counters, Gone
<1>4. QED
  BY <1>2, <1>3

LEMMA ParentIsStill ==
  ASSUME LoopTypeOK, ParentStep
  PROVE  Still \/ \E p \in Pid : AcceptClient(p) \/ Broadcast(p) \/ Reap(p)
<1>1. CASE KillChildren
  <2>1. Quiet \/ \E p \in Pid : AcceptClient(p) \/ Reap(p)
    BY ParentStepIsQuiet
  <2>2. UNCHANGED <<nforks, msgs, shm, up, inbox, down>> /\ \A p \in Pid : Gone(p)' => Gone(p)
    BY <1>1 DEF KillChildren, C!Terminate, C!wireVars, counters, Gone
  <2>3. QED
    BY <2>1, <2>2, NothingMoves
<1>2. CASE UNCHANGED childVars
  <2>1. Quiet \/ \E p \in Pid : AcceptClient(p) \/ Reap(p)
    BY ParentStepIsQuiet
  <2>2. UNCHANGED <<cpc, shm, up, inbox, down>>
    BY <1>2 DEF childVars, loopVars, wireVars
  <2>3. UNCHANGED <<nforks, msgs>> \/ \E p \in Pid : AcceptClient(p)
    BY DEF ParentStep, PollReturns, EndBatch, AcceptFails, TooManyUsers, ForkFails, Broadcast,
           ReadSignals, HandleSigchld, Reap, ReapDone, StopServer, KillChildren, SignalsDone,
           counters
  <2>4. QED
    BY <2>1, <2>2, <2>3, NothingMoves DEF Gone
<1>3. QED
  BY <1>1, <1>2 DEF ParentStep, PollReturns, EndBatch, AcceptFails, TooManyUsers, ForkFails,
                    ReadSignals, HandleSigchld, ReapDone, StopServer, SignalsDone

LEMMA PipeItems ==
  ASSUME KindInv, NEW q \in Pid
  PROVE  Items(up[q]) \cup Items(down[q]) \subseteq C!Announcement
BY ElementOfSeq, LenProperties DEF KindInv, WireTypeOK, Items

\* The new data are later than all that was ever announced.
LEMMA SendsSegInv ==
  ASSUME IInv, KindInv, SegInv, NEW p \in Pid, ClientSends(p)
  PROVE  SegInv'
<1>1. /\ cpc[p] \in C!Running
      /\ inbox' = [inbox EXCEPT ![p] = Append(@, msgs)]
      /\ msgs' = msgs + 1 /\ msgs \in Nat
      /\ UNCHANGED <<user_count, sub_process, idx, cpc, nforks, shm, up, down>>
  BY ChatServerAssumption DEF ClientSends, C!ClientSend, C!Connected, tables, KindInv, BoundsOK
<1>2. /\ inbox \in [Pid -> Seq(Nat)] /\ cpc[p] \notin {"none", "zombie"}
      /\ ~Gone(p)
  BY <1>1 DEF KindInv, WireTypeOK, C!Running, C!Handling, Gone
<1>3. /\ \A q \in Pid : q # p => inbox'[q] = inbox[q]
      /\ inbox'[p] = Append(inbox[p], msgs)
  BY <1>1, <1>2
<1>4. /\ Ascending(inbox'[p])
      /\ Items(inbox'[p]) = Items(inbox[p]) \cup {msgs}
      /\ \A m \in Items(inbox[p]) : m < msgs
  <2>1. Ascending(inbox[p]) /\ \A m \in Items(inbox[p]) : m < msgs
    BY DEF SegInv, QueuesOK
  <2>2. inbox[p] \in Seq(Nat)
    BY <1>2
  <2>3. QED
    BY <1>1, <1>3, <2>1, <2>2, AppendAscending, AppendItems
<1>5. ASSUME NEW q \in Pid, NEW m \in Items(inbox[q])
      PROVE  m \in Nat /\ m < msgs
  <2>1. inbox[q] \in Seq(Nat)
    BY <1>2
  <2>2. m \in Nat
    BY <2>1, ElementOfSeq, LenProperties DEF Items
  <2>3. QED
    BY <2>2 DEF SegInv, QueuesOK
<1>6. QueuesOK'
  <2>1. nforks' >= user_count'
    BY <1>1 DEF SegInv, QueuesOK
  <2>2. ASSUME NEW q \in Pid, NEW m \in Items(inbox'[q])
        PROVE  m < msgs'
    <3>1. m \in Items(inbox[q]) \/ m = msgs
      BY <1>3, <1>4, <2>2
    <3>2. (m \in Nat /\ m < msgs) \/ m = msgs
      BY <1>5, <3>1
    <3>3. QED
      BY <1>1, <3>2
  <2>3. ASSUME NEW q \in Pid
        PROVE  /\ Ascending(inbox'[q])
               /\ Gone(q)' => inbox'[q] = <<>> /\ down'[q] = <<>>
               /\ cpc'[q] = "none" => up'[q] = <<>>
    BY <1>1, <1>2, <1>3, <1>4 DEF SegInv, QueuesOK, Gone
  <2>4. QED
    BY <2>1, <2>2, <2>3 DEF QueuesOK
<1>7. ASSUME Private'
      PROVE  SegmentsOK'
  <2>1. SegmentsOK /\ C!Unreaped' = C!Unreaped
    BY <1>1, <1>7 DEF SegInv, Private, C!Unreaped
  <2>2. ASSUME NEW a \in C!Announcement, Current(a)
        PROVE  Current(a)'
    <3>1. Head(a.data) \in Nat
      <4>1. a.data \in Seq(Nat) /\ a.data # <<>>
        BY <2>2 DEF C!Announcement, Current
      <4>2. QED
        BY <4>1, TailItems
    <3>2. Head(a.data) < msgs /\ Head(a.data) < msgs'
      BY <1>1, <2>2, <3>1 DEF Current
    <3>3. ASSUME NEW q \in C!Unreaped', idx'[q] = a.idx, NEW m \in Items(inbox'[q])
          PROVE  m > Head(a.data)
      <4>1. q \in C!Unreaped /\ q \in Pid /\ idx[q] = a.idx
        BY <1>1, <2>1, <3>3 DEF C!Unreaped
      <4>2. m \in Items(inbox[q]) \/ m = msgs
        BY <1>3, <1>4, <3>3, <4>1
      <4>3. QED
        BY <1>1, <2>2, <3>1, <3>2, <4>1, <4>2 DEF Current
    <3>4. QED
      BY <1>1, <2>2, <3>2, <3>3 DEF Current
  <2>3. \A q \in Pid : Items(up[q]) \cup Items(down[q]) \subseteq C!Announcement
    BY PipeItems
  <2>4. \A q \in C!Unreaped : q \in Pid
    BY DEF C!Unreaped
  <2>5. QED
    BY <1>1, <2>1, <2>2, <2>3, <2>4 DEF SegmentsOK, OwnSlot, OwnUp, OthersDown
<1>8. QED
  BY <1>6, <1>7 DEF SegInv

LEMMA WipeSegInv ==
  ASSUME IInv, KindInv, SegInv, NEW p \in Pid, ChildLoop(p), C!WipeSegment(p)
  PROVE  SegInv'
<1>1. /\ UNCHANGED <<user_count, sub_process, idx, nforks, msgs, up, down, inbox>>
      /\ shm' = [shm EXCEPT ![idx[p]] = C!Blank]
      /\ cpc[p] = "handle" /\ cpc' = [cpc EXCEPT ![p] = "recv"]
  BY DEF ChildLoop, Unnoticed, tables, counters, C!WipeSegment, C!wireVars
<1>2. C!Unreaped' = C!Unreaped /\ \A q \in Pid : (Gone(q)' => Gone(q)) /\ (cpc'[q] = "none" => cpc[q] = "none")
  BY <1>1 DEF IInv, LoopTypeOK, C!Unreaped, Gone
<1>3. QueuesOK'
  BY <1>1, <1>2 DEF SegInv, QueuesOK
<1>4. ASSUME Private'
      PROVE  SegmentsOK'
  <2>1. SegmentsOK
    BY <1>1, <1>4 DEF SegInv, Private
  <2>2. ASSUME NEW a \in C!Announcement, Current(a)
        PROVE  Current(a)'
    <3>1. shm'[a.idx] = shm[a.idx] \/ shm'[a.idx] = C!Blank
      BY <1>1 DEF KindInv, WireTypeOK, C!Announcement
    <3>2. QED
      BY <1>1, <1>2, <2>2, <3>1 DEF Current
  <2>3. \A q \in Pid : Items(up[q]) \cup Items(down[q]) \subseteq C!Announcement
    BY PipeItems
  <2>4. \A q \in C!Unreaped : q \in Pid
    BY DEF C!Unreaped
  <2>5. QED
    BY <1>1, <1>2, <2>1, <2>2, <2>3, <2>4 DEF SegmentsOK, OwnSlot, OwnUp, OthersDown
<1>5. QED
  BY <1>3, <1>4 DEF SegInv

\* As long as the segments are private, indices are those of the table.
LEMMA IndexIsOwn ==
  ASSUME IInv, SegInv, Private, NEW p \in C!Unreaped
  PROVE  /\ p \in Pid /\ idx[p] \in 0 .. user_count - 1
         /\ \A q \in C!Unreaped : idx[q] = idx[p] => q = p
<1>1. OwnSlot /\ TP!ChildrenAreUsers
  BY DEF SegInv, SegmentsOK, IInv, TP!IInv, TP!TableOK
<1>2. \A q \in C!Unreaped : /\ idx[q] = sub_process[q] /\ sub_process[q] \in 0 .. user_count - 1
                            /\ users[sub_process[q]] = q
  BY <1>1 DEF OwnSlot, TP!ChildrenAreUsers
<1>3. QED
  BY <1>2 DEF C!Unreaped

\* What child p takes is later than all that was announced of its segment, and
\* nobody else fills that.
LEMMA RecvSegInv ==
  ASSUME IInv, KindInv, SegInv, NEW p \in Pid, RecvFromClient(p)
  PROVE  SegInv'
<1>0. LoopTypeOK /\ WireTypeOK
  BY DEF IInv, KindInv
<1>1. /\ UNCHANGED <<user_count, sub_process, idx, nforks, msgs, down>>
      /\ C!RecvFromClient(p)
  BY DEF RecvFromClient, C!RecvFromClient, tables, counters
<1>2. cpc[p] = "recv" /\ cpc' = [cpc EXCEPT ![p] = "handle"]
  BY <1>0, <1>1, RecvCases
<1>3. /\ C!Unreaped' = C!Unreaped /\ p \in C!Unreaped
      /\ ~Gone(p) /\ \A q \in Pid : (Gone(q)' => Gone(q)) /\ (cpc'[q] = "none" => cpc[q] = "none")
      /\ p \in Pid /\ cpc'[p] # "none"
  BY <1>0, <1>2 DEF LoopTypeOK, C!Unreaped, Gone
<1>4. CASE UNCHANGED <<inbox, up, shm>>
  BY <1>1, <1>3, <1>4, StillSegInv DEF Still, Gone
<1>5. ASSUME NEW n \in 1 .. Len(inbox[p]), NEW taken \in Seq(Nat), NEW left \in Seq(Nat),
             inbox[p] # <<>>, taken # <<>>, Head(taken) = inbox[p][1],
             DOMAIN left = 1 .. Len(inbox[p]) - n,
             \A i \in 1 .. Len(inbox[p]) - n : left[i] = inbox[p][n + i],
             inbox' = [inbox EXCEPT ![p] = left],
             shm' = [shm EXCEPT ![idx[p]] = taken],
             up' = [up EXCEPT ![p] = C!Put(@, [idx |-> idx[p], data |-> taken])]
      PROVE  SegInv'
  <2>0. PICK new : new = [idx |-> idx[p], data |-> taken]
    OBVIOUS
  <2>1. /\ Head(taken) \in Items(inbox[p])
        /\ Ascending(left)
        /\ Items(left) \subseteq Items(inbox[p])
        /\ \A m \in Items(left) : m > Head(taken)
    <3>1. inbox[p] \in Seq(Nat) /\ Ascending(inbox[p])
      BY <1>0 DEF WireTypeOK, SegInv, QueuesOK
    <3>2. /\ inbox[p][1] \in Items(inbox[p])
          /\ Ascending(left)
          /\ Items(left) \subseteq Items(inbox[p])
          /\ \A m \in Items(left) : m > inbox[p][1]
      <4> DEFINE s == inbox[p]
      <4>1. /\ s \in Seq(Nat) /\ Ascending(s) /\ s # <<>> /\ n \in 1 .. Len(s)
            /\ DOMAIN left = 1 .. Len(s) - n
            /\ \A i \in 1 .. Len(s) - n : left[i] = s[n + i]
        BY <1>5, <3>1
      <4> HIDE DEF s
      <4>2. s[1] \in Items(s) /\ Ascending(left) /\ Items(left) \subseteq Items(s)
            /\ \A m \in Items(left) : m > s[1]
        BY <4>1, SplitItems, ZenonT(60)
      <4>3. QED
        BY <4>2 DEF s
    <3>3. QED
      BY <1>5, <3>2
  <2>2. /\ \A q \in Pid : q # p => inbox'[q] = inbox[q] /\ up'[q] = up[q]
        /\ inbox'[p] = left
        /\ up'[p] = C!Put(up[p], new)
    BY <1>0, <1>5, <2>0 DEF WireTypeOK
  <2>3. new \in C!Announcement /\ up[p] \in Seq(C!Announcement)
    BY <1>0, <2>0 DEF WireTypeOK, LoopTypeOK, C!Announcement
  <2>4. Items(up'[p]) \subseteq Items(up[p]) \cup {new}
    BY <2>2, <2>3, PutItems
  <2>5. shm'[idx[p]] = taken /\ \A i \in C!Segment : i # idx[p] => shm'[i] = shm[i]
    BY <1>0, <1>5 DEF WireTypeOK, LoopTypeOK
  <2>6. QueuesOK'
    <3>1. ASSUME NEW q \in Pid
          PROVE  /\ Ascending(inbox'[q])
                 /\ \A m \in Items(inbox'[q]) : m < msgs'
                 /\ Gone(q)' => inbox'[q] = <<>> /\ down'[q] = <<>>
                 /\ cpc'[q] = "none" => up'[q] = <<>>
      BY <1>1, <1>3, <2>1, <2>2 DEF SegInv, QueuesOK
    <3>2. QED
      BY <1>1, <3>1 DEF SegInv, QueuesOK
  <2>7. ASSUME Private'
        PROVE  SegmentsOK'
    <3>1. Private /\ SegmentsOK
      BY <1>1, <2>7 DEF SegInv, Private
    <3>2. idx[p] < user_count /\ \A q \in C!Unreaped : idx[q] = idx[p] => q = p
      <4>1. idx[p] \in 0 .. user_count - 1 /\ user_count \in Int
        BY <1>3, <3>1, IndexIsOwn DEF IInv, TP!IInv, TP!TypeOK
      <4>2. QED
        BY <1>3, <3>1, <4>1, IndexIsOwn
    <3>3. ASSUME NEW a \in C!Announcement, Current(a)
          PROVE  Current(a)'
      <4>1. ASSUME NEW q \in C!Unreaped', idx'[q] = a.idx, NEW m \in Items(inbox'[q])
            PROVE  m > Head(a.data)
        <5>1. q \in C!Unreaped /\ q \in Pid /\ idx[q] = a.idx
          BY <1>1, <1>3, <4>1 DEF C!Unreaped
        <5>2. m \in Items(inbox[q])
          BY <2>1, <2>2, <4>1, <5>1
        <5>3. QED
          BY <3>3, <5>1, <5>2 DEF Current
      <4>2. CASE a.idx = idx[p]
        <5>1. Head(taken) > Head(a.data)
          BY <1>3, <2>1, <3>3, <4>2 DEF Current
        <5>2. shm'[a.idx] = taken
          BY <2>5, <4>2
        <5>3. QED
          BY <1>1, <3>3, <4>1, <5>1, <5>2 DEF Current
      <4>3. CASE a.idx # idx[p]
        <5>1. shm'[a.idx] = shm[a.idx]
          BY <2>5, <4>3 DEF C!Announcement
        <5>2. QED
          BY <1>1, <3>3, <4>1, <5>1 DEF Current
      <4>4. QED
        BY <4>2, <4>3
    <3>4. Current(new)'
      <4>1. new.idx = idx[p] /\ new.data = taken
        BY <2>0
      <4>2. Head(taken) < msgs
        BY <2>1 DEF SegInv, QueuesOK
      <4>3. ASSUME NEW q \in C!Unreaped', idx'[q] = new.idx, NEW m \in Items(inbox'[q])
            PROVE  m > Head(new.data)
        <5>1. q = p
          BY <1>1, <1>3, <3>2, <4>1, <4>3
        <5>2. QED
          BY <2>1, <2>2, <4>1, <4>3, <5>1
      <4>4. /\ new.data # <<>> /\ new.idx < user_count' /\ Head(new.data) < msgs'
            /\ shm'[new.idx] = new.data
        BY <1>1, <1>5, <2>5, <3>2, <4>1, <4>2
      <4>5. QED
        BY <4>3, <4>4 DEF Current
    <3>5. OwnSlot'
      BY <1>1, <1>3, <3>1 DEF SegmentsOK, OwnSlot
    <3>6. OwnUp'
      <4>1. ASSUME NEW q \in C!Unreaped', NEW a \in Items(up'[q])
            PROVE  a.idx = idx'[q] /\ Current(a)'
        <5>1. q \in C!Unreaped /\ q \in Pid
          BY <1>3, <4>1 DEF C!Unreaped
        <5>2. CASE a \in Items(up[q])
          BY <1>1, <3>1, <3>3, <5>1, <5>2, PipeItems DEF SegmentsOK, OwnUp
        <5>3. CASE q = p /\ a = new
          BY <1>1, <2>0, <3>4, <5>3
        <5>4. QED
          BY <2>2, <2>4, <4>1, <5>1, <5>2, <5>3
      <4>2. QED
        BY <4>1 DEF OwnUp
    <3>7. OthersDown'
      <4>1. ASSUME NEW q \in C!Unreaped', NEW a \in Items(down'[q])
            PROVE  a.idx # idx'[q] /\ Current(a)'
        <5>1. q \in C!Unreaped /\ q \in Pid /\ a \in Items(down[q])
          BY <1>1, <1>3, <4>1 DEF C!Unreaped
        <5>2. QED
          BY <1>1, <3>1, <3>3, <5>1, PipeItems DEF SegmentsOK, OthersDown
      <4>2. QED
        BY <4>1 DEF OthersDown
    <3>8. QED
      BY <3>5, <3>6, <3>7 DEF SegmentsOK
  <2>8. QED
    BY <2>6, <2>7 DEF SegInv
<1>6. CASE \E n \in 1 .. Len(inbox[p]), taken \in Seq(Nat), left \in Seq(Nat) :
             /\ inbox[p] # <<>>
             /\ taken # <<>> /\ Head(taken) = inbox[p][1]
             /\ DOMAIN left = 1 .. Len(inbox[p]) - n
             /\ \A i \in 1 .. Len(inbox[p]) - n : left[i] = inbox[p][n + i]
             /\ inbox' = [inbox EXCEPT ![p] = left]
             /\ shm' = [shm EXCEPT ![idx[p]] = taken]
             /\ up' = [up EXCEPT ![p] = C!Put(@, [idx |-> idx[p], data |-> taken])]
             /\ UNCHANGED stop_child
  BY <1>5, <1>6
<1>7. QED
  BY <1>0, <1>1, <1>4, <1>6, RecvCases

\* What comes out of the pipe of p goes to the others, whose segments it is not in.
LEMMA BroadcastSegInv ==
  ASSUME IInv, KindInv, SegInv, NEW p \in Pid, Broadcast(p)
  PROVE  SegInv'
<1>1. UNCHANGED <<user_count, sub_process, idx, cpc, nforks, msgs, shm, inbox>>
  BY DEF Broadcast, tables, counters
<1>2. C!Unreaped' = C!Unreaped
  BY <1>1 DEF C!Unreaped
<1>3. CASE up[p] = <<>>
  <2>1. UNCHANGED <<up, down>>
    BY <1>3 DEF Broadcast
  <2>2. QED
    BY <1>1, <1>2, <2>1, StillSegInv DEF Still, Gone
<1>4. CASE up[p] # <<>>
  <2>0. /\ up \in [Pid -> Seq(C!Announcement)] /\ up[p] \in Seq(C!Announcement)
        /\ down \in [Pid -> Seq(C!Announcement)] /\ cready \in [Pid -> SUBSET C!Fd]
    BY DEF KindInv, WireTypeOK
  <2>1. PICK a : a = Head(up[p])
    OBVIOUS
  <2>2. up' = [up EXCEPT ![p] = Tail(@)] /\ C!Announce(T!Listed \ {p}, a)
    BY <1>4, <2>1 DEF Broadcast
  <2>3. a \in C!Announcement /\ a \in Items(up[p]) /\ Items(Tail(up[p])) \subseteq Items(up[p])
    BY <1>4, <2>0, <2>1, TailItems
  <2>4. \A q \in Pid : /\ Items(up'[q]) \subseteq Items(up[q])
                       /\ q # p => up'[q] = up[q]
    BY <2>0, <2>2, <2>3
  <2>5. \A q \in Pid : \/ down'[q] = down[q]
                       \/ /\ q # p /\ cpc[q] \in C!Running
                          /\ Items(down'[q]) \subseteq Items(down[q]) \cup {a}
    BY <2>0, <2>2, <2>3, AnnounceKinds
  <2>6. p \in C!Unreaped /\ cpc[p] # "none"
    BY <1>4 DEF SegInv, QueuesOK, C!Unreaped
  <2>7. QueuesOK'
    <3>1. ASSUME NEW q \in Pid
          PROVE  /\ Ascending(inbox'[q])
                 /\ \A m \in Items(inbox'[q]) : m < msgs'
                 /\ Gone(q)' => inbox'[q] = <<>>
                 /\ cpc'[q] = "none" => up'[q] = <<>>
      BY <1>1, <2>4, <2>6 DEF SegInv, QueuesOK, Gone
    <3>2. ASSUME NEW q \in Pid, Gone(q)'
          PROVE  down'[q] = <<>>
      <4>1. Gone(q) /\ cpc[q] \notin C!Running
        BY <1>1, <3>2 DEF Gone, C!Running, C!Handling
      <4>2. QED
        BY <2>5, <4>1 DEF SegInv, QueuesOK
    <3>3. QED
      BY <1>1, <3>1, <3>2 DEF SegInv, QueuesOK
  <2>8. ASSUME Private'
        PROVE  SegmentsOK'
    <3>1. Private /\ SegmentsOK
      BY <1>1, <2>8 DEF SegInv, Private
    <3>2. \A b : Current(b) => Current(b)'
      BY <1>1, <1>2 DEF Current
    <3>3. a.idx = idx[p] /\ Current(a)
      BY <2>3, <2>6, <3>1 DEF SegmentsOK, OwnUp
    <3>4. OwnSlot'
      BY <1>1, <1>2, <3>1 DEF SegmentsOK, OwnSlot
    <3>5. OwnUp'
      <4>1. ASSUME NEW q \in C!Unreaped', NEW b \in Items(up'[q])
            PROVE  b.idx = idx'[q] /\ Current(b)'
        <5>1. q \in C!Unreaped /\ q \in Pid /\ b \in Items(up[q])
          BY <1>2, <2>4, <4>1 DEF C!Unreaped
        <5>2. QED
          BY <1>1, <3>1, <3>2, <5>1 DEF SegmentsOK, OwnUp
      <4>2. QED
        BY <4>1 DEF OwnUp
    <3>6. OthersDown'
      <4>1. ASSUME NEW q \in C!Unreaped', NEW b \in Items(down'[q])
            PROVE  b.idx # idx'[q] /\ Current(b)'
        <5>1. q \in C!Unreaped /\ q \in Pid
          BY <1>2, <4>1 DEF C!Unreaped
        <5>2. CASE b \in Items(down[q])
          BY <1>1, <3>1, <3>2, <5>1, <5>2 DEF SegmentsOK, OthersDown
        <5>3. CASE q # p /\ b = a
          <6>1. idx[q] # idx[p]
            BY <2>6, <3>1, <5>1, <5>3, IndexIsOwn
          <6>2. QED
            BY <1>1, <3>2, <3>3, <5>3, <6>1
        <5>4. QED
          BY <2>5, <4>1, <5>1, <5>2, <5>3
      <4>2. QED
        BY <4>1 DEF OthersDown
    <3>7. QED
      BY <3>4, <3>5, <3>6 DEF SegmentsOK
  <2>9. QED
    BY <2>7, <2>8 DEF SegInv
<1>5. QED
  BY <1>3, <1>4

\* A new child starts with nothing, and with an index nothing was announced of.
LEMMA AcceptSegInv ==
  ASSUME IInv, KindInv, SegInv, NEW p \in Pid, AcceptClient(p)
  PROVE  SegInv'
<1>0. /\ LoopTypeOK /\ user_count \in Nat /\ nforks \in Nat
      /\ sub_process \in [Pid -> T!Idx \cup {-1}]
  BY ChatServerAssumption DEF IInv, TP!IInv, TP!TypeOK, TP!Idx, T!Idx, KindInv, BoundsOK
<1>1. /\ cpc[p] = "none" /\ cpc' = [cpc EXCEPT ![p] = "forked"]
      /\ idx' = [idx EXCEPT ![p] = user_count]
      /\ sub_process' = [sub_process EXCEPT ![p] = user_count]
      /\ user_count' = user_count + 1
      /\ nforks' = nforks + 1
      /\ UNCHANGED <<msgs, shm, inbox, up, down>>
  BY DEF AcceptClient, C!Fork, T!AddUser, C!wireVars
<1>2. /\ idx'[p] = user_count /\ sub_process'[p] = user_count /\ cpc'[p] = "forked"
      /\ \A q \in Pid : q # p => /\ idx'[q] = idx[q] /\ sub_process'[q] = sub_process[q]
                                 /\ cpc'[q] = cpc[q]
  BY <1>0, <1>1 DEF LoopTypeOK
<1>3. /\ \A q \in C!Unreaped' : q = p \/ (q # p /\ q \in C!Unreaped /\ q \in Pid)
      /\ inbox[p] = <<>> /\ up[p] = <<>> /\ down[p] = <<>>
  <2>1. \A q \in C!Unreaped' : q = p \/ (q # p /\ q \in C!Unreaped /\ q \in Pid)
    BY <1>2 DEF C!Unreaped
  <2>2. Gone(p)
    BY <1>1 DEF Gone
  <2>3. QED
    BY <1>1, <2>1, <2>2 DEF SegInv, QueuesOK
<1>4. QueuesOK'
  <2>1. nforks' >= user_count'
    BY <1>0, <1>1 DEF SegInv, QueuesOK
  <2>2. ASSUME NEW q \in Pid
        PROVE  /\ Ascending(inbox'[q])
               /\ \A m \in Items(inbox'[q]) : m < msgs'
               /\ Gone(q)' => inbox'[q] = <<>> /\ down'[q] = <<>>
               /\ cpc'[q] = "none" => up'[q] = <<>>
    BY <1>1, <1>2, <1>3 DEF SegInv, QueuesOK, Gone
  <2>3. QED
    BY <2>1, <2>2 DEF QueuesOK
<1>5. ASSUME Private'
      PROVE  SegmentsOK'
  <2>1. Private /\ SegmentsOK
    BY <1>0, <1>1, <1>5 DEF SegInv, Private
  <2>2. ASSUME NEW a \in C!Announcement, Current(a)
        PROVE  Current(a)'
    <3>1. a.idx \in Nat /\ a.idx < user_count /\ a.idx < user_count' /\ a.idx # user_count
      BY <1>0, <1>1, <2>2 DEF Current, C!Announcement, C!Segment
    <3>2. ASSUME NEW q \in C!Unreaped', idx'[q] = a.idx, NEW m \in Items(inbox'[q])
          PROVE  m > Head(a.data)
      <4>1. q # p /\ q \in C!Unreaped /\ idx[q] = a.idx
        BY <1>2, <1>3, <3>1, <3>2
      <4>2. QED
        BY <1>1, <2>2, <3>2, <4>1 DEF Current
    <3>3. QED
      BY <1>1, <2>2, <3>1, <3>2 DEF Current
  <2>3. OwnSlot'
    BY <1>2, <1>3, <2>1 DEF SegmentsOK, OwnSlot
  <2>4. OwnUp'
    <3>1. ASSUME NEW q \in C!Unreaped', NEW a \in Items(up'[q])
          PROVE  a.idx = idx'[q] /\ Current(a)'
      <4>1. q # p /\ q \in C!Unreaped /\ q \in Pid /\ a \in Items(up[q])
        BY <1>1, <1>3, <3>1, EmptyItems
      <4>2. QED
        BY <1>2, <2>1, <2>2, <4>1, PipeItems DEF SegmentsOK, OwnUp
    <3>2. QED
      BY <3>1 DEF OwnUp
  <2>5. OthersDown'
    <3>1. ASSUME NEW q \in C!Unreaped', NEW a \in Items(down'[q])
          PROVE  a.idx # idx'[q] /\ Current(a)'
      <4>1. q # p /\ q \in C!Unreaped /\ q \in Pid /\ a \in Items(down[q])
        BY <1>1, <1>3, <3>1, EmptyItems
      <4>2. QED
        BY <1>2, <2>1, <2>2, <4>1, PipeItems DEF SegmentsOK, OthersDown
    <3>2. QED
      BY <3>1 DEF OthersDown
  <2>6. QED
    BY <2>3, <2>4, <2>5 DEF SegmentsOK
<1>6. QED
  BY <1>4, <1>5 DEF SegInv

\* The first departure ends the time in which the segments are private.
LEMMA ReapSegInv ==
  ASSUME IInv, KindInv, SegInv, NEW p \in Pid, Reap(p)
  PROVE  SegInv'
<1>0. LoopTypeOK /\ user_count \in Nat /\ nforks \in Nat /\ up \in [Pid -> Seq(C!Announcement)]
  BY ChatServerAssumption DEF IInv, TP!IInv, TP!TypeOK, KindInv, BoundsOK, WireTypeOK
<1>1. /\ cpc[p] = "zombie" /\ cpc' = [cpc EXCEPT ![p] = "none"]
      /\ up' = [up EXCEPT ![p] = <<>>]
      /\ UNCHANGED <<msgs, nforks, inbox, down>>
  BY DEF Reap, C!Reap, counters
<1>2. nforks' > user_count'
  <2>1. p \in C!Unreaped /\ TP!TypeOK /\ TP!TableOK
    BY <1>1 DEF C!Unreaped, IInv, TP!IInv
  <2>2. ~(sub_process[p] < 0 \/ sub_process[p] > USER_LIMIT)
    BY <2>1, LimitsInTP, TP!DeadClientIdx
  <2>3. user_count' = user_count - 1
    BY <2>2 DEF Reap, T!RemoveUser
  <2>4. QED
    BY <1>0, <1>1, <2>3 DEF SegInv, QueuesOK
<1>3. /\ up'[p] = <<>> /\ Gone(p) /\ \A q \in Pid : q # p => up'[q] = up[q] /\ cpc'[q] = cpc[q]
  BY <1>0, <1>1 DEF LoopTypeOK, Gone
<1>4. ASSUME NEW q \in Pid
      PROVE  /\ Ascending(inbox'[q])
             /\ \A m \in Items(inbox'[q]) : m < msgs'
             /\ Gone(q)' => inbox'[q] = <<>> /\ down'[q] = <<>>
             /\ cpc'[q] = "none" => up'[q] = <<>>
  BY <1>1, <1>3 DEF SegInv, QueuesOK, Gone
<1>5. user_count' \in Int /\ nforks' >= user_count' /\ nforks' # user_count'
  <2>1. user_count' \in {user_count, user_count - 1}
    BY DEF Reap, T!RemoveUser
  <2>2. QED
    BY <1>0, <1>1, <1>2, <2>1
<1>6. QED
  BY <1>4, <1>5 DEF SegInv, QueuesOK, Private

-----------------------------------------------------------------------------
LEMMA InitSegInv == Init => SegInv
<1> SUFFICES ASSUME Init PROVE SegInv
  OBVIOUS
<1>1. QueuesOK
  BY EmptyItems DEF Init, C!Init, T!Init, QueuesOK
<1>2. SegmentsOK
  BY DEF Init, C!Init, C!Unreaped, SegmentsOK, OwnSlot, OwnUp, OthersDown
<1>3. QED
  BY <1>1, <1>2 DEF SegInv

LEMMA NextSegInv ==
  ASSUME IInv, KindInv, SegInv, [Next]_vars
  PROVE  SegInv'
<1>0. LoopTypeOK
  BY DEF IInv
<1>1. ASSUME NEW p \in Pid, ClientSends(p) PROVE SegInv'
  BY <1>1, SendsSegInv
<1>2. ASSUME Environment, ~\E p \in Pid : ClientSends(p)
      PROVE  SegInv'
  <2>1. Quiet
    BY <1>0, <1>2, EnvironmentIsQuiet
  <2>2. UNCHANGED <<nforks, msgs, shm, up, inbox, down, cpc>>
    BY <1>2 DEF Environment, Connect, ClientCloses, C!ClientClose, Term, childVars, loopVars,
                wireVars, counters
  <2>3. QED
    BY <2>1, <2>2, NothingMoves, StillSegInv DEF Gone
<1>3. ASSUME NEW s \in {"CHLD", "TERM"}, SigHandler(s) PROVE SegInv'
  <2>1. UNCHANGED <<tables, idx, nforks, msgs, shm, up, inbox, down, cpc>>
    BY <1>3 DEF SigHandler, childVars, loopVars, wireVars, counters
  <2>2. QED
    BY <1>0, <2>1, NothingMoves, StillSegInv DEF Gone, Quiet, LoopTypeOK, C!Unreaped
<1>4. CASE ParentStep
  BY <1>0, <1>4, ParentIsStill, StillSegInv, AcceptSegInv, BroadcastSegInv, ReapSegInv
<1>5. ASSUME NEW p \in Pid, ChildStep(p) PROVE SegInv'
  BY <1>0, <1>5, LoopIsStill, EndIsStill, StillSegInv, WipeSegInv, RecvSegInv DEF ChildStep
<1>6. CASE UNCHANGED vars
  <2>1. UNCHANGED <<tables, idx, nforks, msgs, shm, up, inbox, down, cpc>>
    BY <1>6 DEF vars, childVars, loopVars, wireVars, counters
  <2>2. QED
    BY <1>0, <2>1, NothingMoves, StillSegInv DEF Gone, Quiet, LoopTypeOK, C!Unreaped
<1>7. QED
  BY <1>1, <1>2, <1>3, <1>4, <1>5, <1>6 DEF Next

LEMMA SegmentsInvariant == Spec => []SegInv
BY InitSegInv, NextSegInv, Invariance, KindsInvariant, PTL DEF Spec

\* Until a client has left, no two children share a segment, and none is told to
\* relay its own, for any number of clients and messages and any size of a pipe.
THEOREM SegmentsArePrivate == Spec => []PrivateSegments
<1>1. ASSUME IInv, SegInv, Private, NEW p \in C!Unreaped
      PROVE  /\ \A q \in C!Unreaped : idx[p] = idx[q] => p = q
             /\ \A k \in DOMAIN up[p] : up[p][k].idx = idx[p]
             /\ \A k \in DOMAIN down[p] : down[p][k].idx # idx[p]
  <2>1. \A q \in C!Unreaped : idx[p] = idx[q] => p = q
    BY <1>1, IndexIsOwn
  <2>2. OwnUp /\ OthersDown
    BY <1>1 DEF SegInv, SegmentsOK
  <2>3. QED
    BY <2>1, <2>2 DEF OwnUp, OthersDown, Items
<1>2. IInv /\ SegInv => PrivateSegments
  BY <1>1 DEF PrivateSegments, Private
<1>3. QED
  BY <1>2, Invariance, SegmentsInvariant, PTL

\* What a child relays then is what was announced to it, or nothing, or later data
\* of the same client, however late it gets round to it.
THEOREM NothingOlderRelayed == Spec => RelaysNothingOlder
<1> DEFINE Fresh ==
      \A p \in Pid :
         /\ C!Relay(p) /\ down[p] # <<>>
         /\ nforks = user_count
         => LET a == Head(down[p])
                found == shm[a.idx]
            IN found = a.data \/ found = C!Blank \/ Head(found) > Head(a.data)
<1>1. ASSUME KindInv, SegInv
      PROVE  Fresh
  <2>1. SUFFICES ASSUME NEW p \in Pid, C!Relay(p), down[p] # <<>>, nforks = user_count
                 PROVE  Current(Head(down[p]))
    BY DEF Current
  <2>2. p \in C!Unreaped
    BY <2>1 DEF C!Relay, C!Unreaped
  <2>3. OthersDown
    BY <1>1, <2>1 DEF SegInv, Private, SegmentsOK
  <2>4. down[p] \in Seq(C!Announcement)
    BY <1>1 DEF KindInv, WireTypeOK
  <2>5. Head(down[p]) \in Items(down[p])
    BY <2>1, <2>4, TailItems
  <2>6. QED
    BY <2>2, <2>3, <2>5 DEF OthersDown
<1>2. KindInv /\ SegInv => [Fresh]_vars
  BY <1>1
<1>3. QED
  BY <1>2, KindsInvariant, SegmentsInvariant, PTL DEF RelaysNothingOlder

-----------------------------------------------------------------------------
(***************************************************************************)
(* How the server ends.  terminate and an empty table stop it; from then   *)
(* on at most one client can enter, by the event on listenfd that is still *)
(* in the batch, and the child forked for it holds nobody's pipe.          *)
(***************************************************************************)
DrainedStops == terminate /\ user_count = 0 => stop_server \/ ppc = "reap"

LastRound ==
  /\ stop_server => ppc # "poll"
  /\ ppc = "stopped" => stop_server

LastClient ==
  stop_server => /\ user_count \in {0, 1}
                 /\ "listen" \in batch => user_count = 0

Stopping == DrainedStops /\ LastRound /\ LastClient

\* A step that neither moves the parent on nor brings it an event.
Aside ==
  /\ UNCHANGED <<ppc, stop_server, terminate, user_count>>
  /\ batch' \subseteq batch

LEMMA AsideStopping == Stopping /\ Aside => Stopping'
BY DEF Stopping, DrainedStops, LastRound, LastClient, Aside

LEMMA OthersAreAside ==
  ASSUME \/ Environment
         \/ \E s \in {"CHLD", "TERM"} : SigHandler(s)
         \/ AcceptFails \/ TooManyUsers \/ ForkFails \/ \E p \in Pid : Broadcast(p)
         \/ \E p \in Pid : ChildStep(p)
         \/ UNCHANGED vars
  PROVE  Aside
<1> USE DEF Aside, tables, flags
<1>1. CASE Environment
  BY <1>1 DEF Environment, Connect, ClientSends, ClientCloses, Term, parentVars, pollVars
<1>2. CASE \E s \in {"CHLD", "TERM"} : SigHandler(s)
  BY <1>2 DEF SigHandler
<1>3. CASE AcceptFails \/ TooManyUsers \/ ForkFails \/ \E p \in Pid : Broadcast(p)
  BY <1>3 DEF AcceptFails, TooManyUsers, ForkFails, Broadcast, TakeEvent
<1>4. CASE \E p \in Pid : ChildStep(p)
  BY <1>4 DEF ChildStep, ChildLoop, RecvFromClient, Exit, HangUp, Unnoticed, parentVars, pollVars
<1>5. CASE UNCHANGED vars
  BY <1>5 DEF vars, parentVars, pollVars
<1>6. QED
  BY <1>1, <1>2, <1>3, <1>4, <1>5

\* Every round of the parent's loop: stop_server is only set when nobody is left,
\* and the one accept the batch may still hold finds the table empty.
LEMMA ParentStopping ==
  ASSUME IInv, KindInv, Stopping, ParentStep
  PROVE  Stopping'
<1> USE DEF Stopping, DrainedStops, LastRound, LastClient
<1>0. /\ user_count \in Nat /\ stop_server \in BOOLEAN /\ terminate \in BOOLEAN
      /\ \A p \in Pid : p # "listen"
  BY ChatServerAssumption DEF IInv, TP!IInv, TP!TypeOK, KindInv, MainTypeOK
<1>1. CASE AcceptFails \/ TooManyUsers \/ ForkFails \/ \E p \in Pid : Broadcast(p)
  BY <1>1, OthersAreAside, AsideStopping
<1>2. CASE PollReturns
  BY <1>2 DEF PollReturns, tables, flags
<1>3. CASE EndBatch
  BY <1>0, <1>3 DEF EndBatch, tables, flags, pollVars
<1>4. ASSUME NEW p \in Pid, AcceptClient(p) PROVE Stopping'
  BY <1>0, <1>4 DEF AcceptClient, TakeEvent, T!AddUser, flags
<1>5. CASE ReadSignals
  BY <1>5 DEF ReadSignals, TakeEvent, tables, flags
<1>6. CASE HandleSigchld
  BY <1>6 DEF HandleSigchld, tables, flags, pollVars
<1>7. ASSUME NEW p \in Pid, Reap(p) PROVE Stopping'
  <2>1. /\ ppc = "reap" /\ UNCHANGED <<ppc, batch, stop_server, terminate>>
        /\ user_count' \in {user_count, user_count - 1}
    BY <1>7 DEF Reap, T!RemoveUser, flags
  <2>2. user_count' \in Nat
    BY <1>7, ReapIInv, ChatServerAssumption DEF IInv, TP!IInv, TP!TypeOK
  <2>3. QED
    BY <1>0, <2>1, <2>2
<1>8. CASE ReapDone
  BY <1>0, <1>8 DEF ReapDone, tables, pollVars
<1>9. CASE StopServer
  BY <1>0, <1>9 DEF StopServer, TakeSignal, tables, pollVars
<1>10. CASE KillChildren
  BY <1>0, <1>10 DEF KillChildren, TakeSignal, tables
<1>11. CASE SignalsDone
  BY <1>11 DEF SignalsDone, tables, flags, pollVars
<1>12. QED
  BY <1>1, <1>2, <1>3, <1>4, <1>5, <1>6, <1>7, <1>8, <1>9, <1>10, <1>11 DEF ParentStep

LEMMA StoppingInvariant == Spec => []Stopping
<1>1. Init => Stopping
  BY DEF Init, Stopping, DrainedStops, LastRound, LastClient
<1>2. ASSUME IInv, KindInv, Stopping, [Next]_vars
      PROVE  Stopping'
  BY <1>2, OthersAreAside, AsideStopping, ParentStopping DEF Next
<1>3. QED
  BY <1>1, <1>2, Invariance, KindsInvariant, PTL DEF Spec

\* Once a SIGTERM has been passed on and the table is empty, or stop_server is set
\* for another reason, the server is in its last round: it does not wait for events
\* again (DrainedServerStops asks, beyond that, that the round comes to its end).
THEOREM DrainedServerEnds ==
  Spec => []((terminate /\ user_count = 0) \/ stop_server => ppc # "poll")
<1>1. Stopping => ((terminate /\ user_count = 0) \/ stop_server => ppc # "poll")
  BY DEF Stopping, DrainedStops, LastRound
<1>2. QED
  BY <1>1, StoppingInvariant, PTL

\* When the table is empty no child is left, and a table of one names the only one.
LEMMA FewUsers ==
  ASSUME IInv, user_count \in {0, 1}
  PROVE  /\ \A p, q \in C!Unreaped : p = q
         /\ user_count = 0 => C!Unreaped = {}
         /\ T!Listed = C!Unreaped
<1>1. TP!UsersAreChildren /\ TP!ChildrenAreUsers
  BY DEF IInv, TP!IInv, TP!TableOK
<1>2. \A p \in C!Unreaped : user_count = 1 /\ users[0] = p
  BY <1>1 DEF TP!ChildrenAreUsers
<1>3. T!Listed \subseteq C!Unreaped
  BY <1>1 DEF T!Listed, TP!UsersAreChildren
<1>4. \A p \in C!Unreaped : p \in T!Listed
  BY <1>2 DEF T!Listed
<1>5. QED
  BY <1>2, <1>3, <1>4

\* The server leaves at most one child behind, however many it served.
THEOREM OneChildLeft == Spec => [](ppc = "stopped" => \A p, q \in C!Unreaped : p = q)
<1>1. IInv /\ Stopping => (ppc = "stopped" => \A p, q \in C!Unreaped : p = q)
  BY FewUsers DEF Stopping, LastRound, LastClient
<1>2. QED
  BY <1>1, Invariance, StoppingInvariant, PTL

(***************************************************************************)
(* The child left behind.  It was forked when the table was empty, so it   *)
(* holds no other pipe, and nobody else was there to announce anything to  *)
(* it: what epoll_wait reports of its pipe is the end of file.             *)
(***************************************************************************)
LastPipe ==
  stop_server => \A p \in Pid : down[p] = <<>> /\ (cpc[p] # "none" => inherits[p] = {})

\* The end of file of p is still to be reported, or has made p stop.
HangUpSeen(p) ==
  \/ cpc[p] \in C!Handling \cup {"unhandled"} /\ "pipe" \in cready[p]
  \/ cpc[p] \in {"handle", "recv"} /\ ("pipe" \in cbatch[p] \/ stop_child[p])
  \/ cpc[p] = "check" /\ stop_child[p]
  \/ cpc[p] = "exit"

HangUps == \A p \in Pid : eof[p] => ppc = "stopped" /\ HangUpSeen(p)

\* A step that sends nothing to a child and gives no child an end to hold.
Unsent ==
  /\ UNCHANGED stop_server
  /\ \A p \in Pid : /\ down[p] = <<>> => down'[p] = <<>>
                    /\ cpc'[p] # "none" => cpc[p] # "none" /\ inherits'[p] \subseteq inherits[p]

LEMMA UnsentLastPipe == LastPipe /\ Unsent => LastPipe'
BY DEF LastPipe, Unsent

LEMMA ChildIsUnsent ==
  ASSUME LoopTypeOK, KindInv, NEW p \in Pid, ChildStep(p)
  PROVE  Unsent
<1>1. Quiet
  BY ChildStepIsQuiet
<1>2. UNCHANGED <<stop_server, inherits>>
  BY DEF ChildStep, ChildLoop, RecvFromClient, Exit, HangUp, Unnoticed, parentVars, flags
<1>3. \A q \in Pid : down[q] = <<>> => down'[q] = <<>>
  <2>1. CASE UNCHANGED down
    BY <2>1
  <2>2. CASE C!Relay(p)
    BY <2>2 DEF C!Relay, KindInv, WireTypeOK
  <2>3. CASE Exit(p)
    BY <2>3 DEF Exit, C!Exit, KindInv, WireTypeOK
  <2>4. QED
    BY <2>1, <2>2, <2>3
       DEF ChildStep, ChildLoop, RecvFromClient, HangUp, C!CloseInherited, C!InstallHandler,
           C!CheckStop, C!EnterWait, C!WaitReturns, C!WipeSegment, C!RecvFromClient, C!EndBatch,
           C!HangUp, C!wireVars
<1>4. QED
  BY <1>1, <1>2, <1>3 DEF Unsent, Quiet, C!Unreaped

\* Of the parent's steps only an accept, a broadcast and the two that set
\* stop_server matter, and these find the table as LastClient says.
LEMMA ParentLastPipe ==
  ASSUME IInv, KindInv, SegInv, Stopping, LastPipe, ParentStep
  PROVE  LastPipe'
<1>0. LoopTypeOK
  BY DEF IInv
<1>1. CASE ReapDone \/ StopServer
  <2>1. UNCHANGED <<cpc, down, inherits>>
    BY <1>1 DEF ReapDone, StopServer, childVars, loopVars, wireVars
  <2>2. stop_server' => stop_server \/ user_count = 0
    BY <1>1 DEF ReapDone, StopServer
  <2>3. ASSUME user_count = 0
        PROVE  \A p \in Pid : down[p] = <<>> /\ cpc[p] = "none"
    BY <2>3, FewUsers DEF C!Unreaped, SegInv, QueuesOK, Gone
  <2>4. QED
    BY <2>1, <2>2, <2>3 DEF LastPipe
<1>2. ASSUME NEW p \in Pid, AcceptClient(p)
      PROVE  LastPipe'
  <2>1. /\ UNCHANGED <<stop_server, down>> /\ "listen" \in batch
        /\ cpc' = [cpc EXCEPT ![p] = "forked"]
        /\ inherits' = [inherits EXCEPT ![p] = T!Listed]
    BY <1>2 DEF AcceptClient, TakeEvent, C!Fork, C!wireVars, flags
  <2>2. stop_server => T!Listed = {}
    BY <2>1, FewUsers DEF Stopping, LastClient
  <2>3. \A q \in Pid : /\ q = p => inherits'[q] = T!Listed
                       /\ q # p => inherits'[q] = inherits[q] /\ cpc'[q] = cpc[q]
    BY <2>1 DEF LoopTypeOK, IInv, KindInv, MainTypeOK
  <2>4. QED
    BY <2>1, <2>2, <2>3 DEF LastPipe
<1>3. ASSUME NEW p \in Pid, Broadcast(p)
      PROVE  LastPipe'
  <2>1. UNCHANGED <<stop_server, cpc, inherits>>
    BY <1>3 DEF Broadcast, flags
  <2>2. ASSUME stop_server
        PROVE  \A q \in Pid : down'[q] = down[q]
    <3>1. CASE up[p] = <<>>
      BY <1>3, <3>1 DEF Broadcast
    <3>2. CASE up[p] # <<>>
      <4>1. p \in C!Unreaped
        BY <3>2 DEF SegInv, QueuesOK, C!Unreaped
      <4>2. T!Listed \ {p} = {}
        BY <2>2, <4>1, FewUsers DEF Stopping, LastClient
      <4>3. C!Announce({}, Head(up[p]))
        BY <1>3, <3>2, <4>2 DEF Broadcast
      <4>4. QED
        BY <4>3 DEF C!Announce
    <3>3. QED
      BY <3>1, <3>2
  <2>3. QED
    BY <2>1, <2>2 DEF LastPipe
<1>4. ASSUME NEW p \in Pid, Reap(p)
      PROVE  LastPipe'
  <2>1. /\ UNCHANGED <<stop_server, down>> /\ cpc' = [cpc EXCEPT ![p] = "none"]
        /\ inherits' = [q \in Pid |-> inherits[q] \ {p}]
    BY <1>4 DEF Reap, C!Reap, flags
  <2>2. Unsent
    BY <1>0, <2>1 DEF Unsent, LoopTypeOK
  <2>3. QED
    BY <2>2, UnsentLastPipe
<1>5. CASE UNCHANGED <<stop_server, down, inherits>>
  <2>1. Quiet \/ \E p \in Pid : AcceptClient(p) \/ Reap(p)
    BY <1>0, ParentStepIsQuiet
  <2>2. Quiet => Unsent
    BY <1>5 DEF Quiet, Unsent, C!Unreaped
  <2>3. QED
    BY <1>2, <1>4, <2>1, <2>2, UnsentLastPipe
<1>6. ParentStep => \/ ReapDone \/ StopServer
                    \/ \E p \in Pid : AcceptClient(p) \/ Broadcast(p) \/ Reap(p)
                    \/ UNCHANGED <<stop_server, down, inherits>>
  BY DEF ParentStep, PollReturns, EndBatch, AcceptFails, TooManyUsers, ForkFails, ReadSignals,
         HandleSigchld, KillChildren, SignalsDone, C!Terminate, C!wireVars, childVars, wireVars,
         flags
<1>7. QED
  BY <1>1, <1>2, <1>3, <1>4, <1>5, <1>6

\* As long as the server runs it holds its end of every pipe, and afterwards only
\* its child and the client of that are left to take steps.
LEMMA WhileItRuns ==
  ASSUME KindInv, HangUps, ppc # "stopped", [Next]_vars
  PROVE  HangUps'
<1>1. \A p \in Pid : ~eof[p]
  BY DEF HangUps
<1>2. CASE UNCHANGED eof
  BY <1>1, <1>2 DEF HangUps
<1>3. ASSUME NEW p \in Pid, Exit(p) PROVE HangUps'
  BY <1>1, <1>3 DEF Exit, C!Exit, HangUps, KindInv, WireTypeOK
<1>4. (\E p \in Pid : Exit(p)) \/ UNCHANGED eof
  <2>1. CASE Environment
    BY <2>1 DEF Environment, Connect, ClientSends, C!ClientSend, ClientCloses, C!ClientClose, Term,
                childVars, wireVars
  <2>2. CASE \E s \in {"CHLD", "TERM"} : SigHandler(s)
    BY <2>2 DEF SigHandler, childVars, wireVars
  <2>3. CASE ParentStep
    BY <2>3 DEF ParentStep, PollReturns, EndBatch, AcceptFails, TooManyUsers, ForkFails,
         AcceptClient, C!Fork, Broadcast, ReadSignals, HandleSigchld, Reap, C!Reap, ReapDone,
         StopServer, KillChildren, C!Terminate, SignalsDone, C!wireVars, childVars, wireVars
  <2>4. ASSUME NEW p \in Pid, ChildStep(p), ~Exit(p) PROVE UNCHANGED eof
    BY <2>4 DEF ChildStep, ChildLoop, RecvFromClient, HangUp, C!CloseInherited, C!InstallHandler,
           C!CheckStop, C!EnterWait, C!WaitReturns, C!WipeSegment, C!RecvFromClient, C!Relay,
           C!EndBatch, C!wireVars
  <2>5. CASE UNCHANGED vars
    BY <2>5 DEF vars, childVars, wireVars
  <2>6. QED
    BY <2>1, <2>2, <2>3, <2>4, <2>5 DEF Next
<1>5. QED
  BY <1>2, <1>3, <1>4

LEMMA OnlyChildrenAreLeft ==
  ASSUME ppc = "stopped", [Next]_vars
  PROVE  \/ \E p \in Pid : ClientSends(p) \/ ClientCloses(p) \/ ChildStep(p)
         \/ UNCHANGED vars
BY DEF Next, Environment, Connect, Term, SigHandler, ParentStep, PollReturns, EndBatch, TakeEvent,
       AcceptFails, TooManyUsers, ForkFails, AcceptClient, Broadcast, ReadSignals, TakeSignal,
       HandleSigchld, Reap, ReapDone, StopServer, KillChildren, SignalsDone

\* The end of file once there, each step of the child keeps it noticed: its edge
\* waits in cready, or is in the batch, or stop_child is set where it is read next.
LEMMA AfterTheEnd ==
  ASSUME LoopTypeOK, KindInv, Stopping, LastPipe, HangUps, ppc = "stopped",
         NEW p \in Pid, ClientSends(p) \/ ClientCloses(p) \/ ChildStep(p)
  PROVE  HangUps'
<1> USE DEF HangUpSeen, C!Handling
<1>0. /\ stop_server /\ down[p] = <<>>
      /\ stop_child \in [Pid -> BOOLEAN] /\ eof \in [Pid -> BOOLEAN]
      /\ cready \in [Pid -> SUBSET C!Fd] /\ cbatch \in [Pid -> SUBSET C!Fd]
      /\ cpc \in [Pid -> C!CPC]
  BY DEF Stopping, LastRound, LastPipe, LoopTypeOK, KindInv, WireTypeOK
<1>1. ppc' = "stopped"
  BY DEF ClientSends, ClientCloses, ChildStep, ChildLoop, RecvFromClient, Exit, HangUp, Unnoticed,
         parentVars
<1>2. ASSUME NEW q \in Pid, q # p, eof'[q]
      PROVE  HangUpSeen(q)'
  <2>1. /\ eof'[q] = eof[q] /\ cpc'[q] = cpc[q] /\ cready'[q] = cready[q]
        /\ cbatch'[q] = cbatch[q] /\ stop_child'[q] = stop_child[q]
    BY <1>0, <1>2
       DEF ClientSends, C!ClientSend, ClientCloses, C!ClientClose, ChildStep, ChildLoop,
           C!CloseInherited, C!InstallHandler, C!CheckStop, C!EnterWait, C!WaitReturns,
           C!WipeSegment, C!Relay, C!EndBatch, RecvFromClient, C!RecvFromClient, Exit, C!Exit,
           HangUp, C!HangUp, C!wireVars
  <2>2. HangUpSeen(q)
    BY <1>2, <2>1 DEF HangUps
  <2>3. QED
    BY <2>1, <2>2
<1>3. ASSUME eof'[p]
      PROVE  HangUpSeen(p)'
  <2>0. ~HangUp(p) => eof[p] /\ HangUpSeen(p)
    <3>1. ASSUME ~HangUp(p) PROVE eof[p]
      BY <1>0, <1>3, <3>1
         DEF ClientSends, C!ClientSend, ClientCloses, C!ClientClose, ChildStep, ChildLoop,
             C!CloseInherited, C!InstallHandler, C!CheckStop, C!EnterWait, C!WaitReturns,
             C!WipeSegment, C!Relay, C!EndBatch, RecvFromClient, C!RecvFromClient, Exit, C!Exit,
             C!wireVars
    <3>2. QED
      BY <3>1 DEF HangUps
  <2>1. CASE ClientSends(p) \/ ClientCloses(p)
    BY <1>0, <2>0, <2>1 DEF ClientSends, C!ClientSend, ClientCloses, C!ClientClose, HangUp, C!HangUp
  <2>2. CASE C!CloseInherited(p) \/ C!InstallHandler(p) \/ C!EnterWait(p)
    BY <1>0, <2>0, <2>2
       DEF C!CloseInherited, C!InstallHandler, C!EnterWait, HangUp, C!HangUp, C!wireVars
  <2>3. CASE C!CheckStop(p)
    BY <1>0, <2>0, <2>3 DEF C!CheckStop, HangUp, C!HangUp, C!wireVars
  <2>4. CASE C!WaitReturns(p)
    BY <1>0, <1>3, <2>0, <2>4 DEF C!WaitReturns, C!Readable, C!Fd, HangUp, C!HangUp, C!wireVars
  <2>5. CASE C!WipeSegment(p)
    BY <1>0, <2>0, <2>5 DEF C!WipeSegment, HangUp, C!HangUp, C!wireVars
  <2>6. CASE C!Relay(p)
    BY <1>0, <2>0, <2>6 DEF C!Relay, HangUp, C!HangUp
  <2>7. CASE C!EndBatch(p)
    BY <1>0, <2>0, <2>7 DEF C!EndBatch, HangUp, C!HangUp, C!wireVars
  <2>8. CASE RecvFromClient(p)
    BY <1>0, <2>0, <2>8 DEF RecvFromClient, C!RecvFromClient, HangUp, C!HangUp
  <2>9. CASE Exit(p)
    BY <1>0, <1>3, <2>9 DEF Exit, C!Exit
  <2>10. CASE HangUp(p)
    <3>1. cpc[p] \in C!Running /\ cpc[p] # "forked" /\ cpc' = cpc /\ "pipe" \in cready'[p]
      BY <1>0, <2>10 DEF HangUp, Holders, C!HangUp
    <3>2. QED
      BY <3>1 DEF C!Running
  <2>11. QED
    BY <2>1, <2>2, <2>3, <2>4, <2>5, <2>6, <2>7, <2>8, <2>9, <2>10 DEF ChildStep, ChildLoop
<1>4. QED
  BY <1>1, <1>2, <1>3 DEF HangUps

LEMMA EndsInvariant == Spec => [](LastPipe /\ HangUps)
<1>1. Init => LastPipe /\ HangUps
  BY DEF Init, C!Init, LastPipe, HangUps
<1>2. ASSUME IInv, KindInv, SegInv, Stopping, LastPipe, [Next]_vars
      PROVE  LastPipe'
  <2>0. LoopTypeOK
    BY <1>2 DEF IInv
  <2>1. CASE Environment \/ (\E s \in {"CHLD", "TERM"} : SigHandler(s)) \/ UNCHANGED vars
    <3>1. UNCHANGED <<stop_server, cpc, down, inherits>>
      BY <2>1 DEF Environment, Connect, ClientSends, C!ClientSend, ClientCloses, C!ClientClose, Term,
                  SigHandler, vars, childVars, loopVars, wireVars, parentVars, flags
    <3>2. QED
      BY <1>2, <3>1, UnsentLastPipe DEF Unsent
  <2>2. QED
    BY <1>2, <2>0, <2>1, ParentLastPipe, ChildIsUnsent, UnsentLastPipe DEF Next
<1>3. ASSUME IInv, KindInv, Stopping, LastPipe, HangUps, [Next]_vars
      PROVE  HangUps'
  <2>0. LoopTypeOK
    BY <1>3 DEF IInv
  <2>1. CASE ppc # "stopped"
    BY <1>3, <2>1, WhileItRuns
  <2>2. CASE UNCHANGED vars
    BY <1>3, <2>2 DEF vars, childVars, loopVars, wireVars, parentVars, HangUps, HangUpSeen
  <2>3. QED
    BY <1>3, <2>0, <2>1, <2>2, AfterTheEnd, OnlyChildrenAreLeft
<1>4. QED
  BY <1>1, <1>2, <1>3, Invariance, KindsInvariant, SegmentsInvariant, StoppingInvariant,
     PTL DEF Spec

(***************************************************************************)
(* The child left behind by a server that has stopped does not wait for    *)
(* ever: no other process, and not the child itself, holds the parent's    *)
(* end of its pipe, and when that is closed epoll_wait will report it,     *)
(* even if the edge came while the child was busy.  This is the part of    *)
(* OrphansExit in which the order of the steps matters; that the child     *)
(* then takes the steps is left to its fairness.                           *)
(***************************************************************************)
OrphanIsWoken ==
  ppc = "stopped" =>
    \A p \in Pid : cpc[p] = "wait" =>
      /\ Holders(p) = {}
      /\ eof[p] => "pipe" \in cready[p] \cap C!Readable(p)

THEOREM NoOrphanStuck == Spec => []OrphanIsWoken
<1>1. ASSUME LoopTypeOK, Stopping, LastPipe, HangUps
      PROVE  OrphanIsWoken
  <2> SUFFICES ASSUME ppc = "stopped", NEW p \in Pid, cpc[p] = "wait"
               PROVE  /\ Holders(p) = {}
                      /\ eof[p] => "pipe" \in cready[p] \cap C!Readable(p)
    BY DEF OrphanIsWoken
  <2>1. \A q \in Pid : cpc[q] # "none" => inherits[q] = {}
    BY <1>1 DEF Stopping, LastRound, LastPipe
  <2>2. Holders(p) = {}
    BY <2>1 DEF Holders, C!Running, C!Handling
  <2>3. eof[p] => "pipe" \in cready[p]
    BY <1>1 DEF HangUps, HangUpSeen
  <2>4. QED
    BY <2>2, <2>3 DEF C!Readable, C!Fd
<1>2. IInv => LoopTypeOK
  BY DEF IInv
<1>3. QED
  BY <1>1, <1>2, Invariance, StoppingInvariant, EndsInvariant, PTL
=============================================================================
