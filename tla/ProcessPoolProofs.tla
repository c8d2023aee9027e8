-------------------------- MODULE ProcessPoolProofs --------------------------
(***************************************************************************)
(* Proofs about ProcessPool, for every number of children the constructor  *)
(* accepts and any number of connections, SIGTERMs and crashes: the types, *)
(* StopsLast and DeathsKnown; and what TermStopsPool rests on besides  *)
(* fairness: no death and no SIGTERM is forgotten on its way, and the pool *)
(* never comes to rest before its end.                                     *)
(***************************************************************************)
EXTENDS ProcessPool, SequenceTheorems, FiniteSetTheorems, TLAPS

Source == {"listen", "sig"}
Signal == {"CHLD", "TERM"}

\* An event is at most once in the batch.
Distinct(s) == \A i, j \in DOMAIN s : s[i] = s[j] => i = j

\* Ints still to be written: for an edge of m_listenfd, and for an event not handled.
Due == (IF "listen" \in ready THEN 1 ELSE 0) + (IF InSeq("listen", batch) THEN 1 ELSE 0)

(***************************************************************************)
(* Ints are written only for connections, once for each that is reported,  *)
(* and a child reads only when there is something to read.                 *)
(***************************************************************************)
Accounts ==
  /\ Distinct(batch)
  /\ \A k \in K : /\ pipe[k] + Due <= conns
                  /\ "pipe" \in cbatch[k] => pipe[k] > 0
                  /\ served[k] + backlog <= conns

\* m_pid of a child that was waited for is -1, and of no other.
PidsAreChildren == \A k \in K : m_pid[k] <=> cpc[k] # "gone"

\* m_stop is only TRUE while no child is left, so it is never taken back in vain.
StopMeansEmpty == m_stop => \A k \in K : ~m_pid[k]

(***************************************************************************)
(* The invariant.  TypeOK is taken apart by who changes what.              *)
(***************************************************************************)
ParentType ==
  /\ m_pid \in [K -> BOOLEAN]
  /\ sub_process_counter \in K
  /\ m_stop \in BOOLEAN
  /\ ppc \in {"setup", "poll", "batch", "sigs", "stopped"}
  /\ batch \in Seq(Source)
  /\ number \in 0 .. 2
  /\ sigbuf \in Seq(Signal)

WakeType ==
  /\ ready \subseteq Source
  /\ sigpend \subseteq Signal
  /\ sigpipe \in Seq(Signal)
  /\ lost \in BOOLEAN
  /\ dropped \subseteq Signal

ChildType ==
  /\ cpc \in [K -> {"born", "poll", "batch", "zombie", "gone"}]
  /\ cready \in [K -> SUBSET {"pipe", "sig"}]
  /\ cbatch \in [K -> SUBSET {"pipe", "sig"}]
  /\ cstop \in [K -> BOOLEAN]
  /\ csig \in [K -> BOOLEAN]

CountType ==
  /\ backlog \in Nat
  /\ pipe \in [K -> Nat]
  /\ served \in [K -> Nat]
  /\ conns \in 0 .. MaxConn
  /\ terms \in 0 .. MaxTerm
  /\ crashes \in 0 .. MaxCrash

Types == ParentType /\ WakeType /\ ChildType /\ CountType

Deaths == PidsAreChildren /\ StopMeansEmpty /\ StopsLast

IInv == Types /\ Accounts /\ Deaths

LEMMA KProperties ==
  /\ m_process_number \in Nat \ {0}
  /\ K \subseteq Nat
  /\ 0 \in K
  /\ \A n \in Nat : n % m_process_number \in K
BY ProcessPoolAssumption DEF K

LEMMA IInvImpliesTypeOK == IInv => TypeOK
<1> SUFFICES ASSUME IInv PROVE TypeOK
  OBVIOUS
<1>1. Types
  BY DEF IInv
<1>2. backlog \in 0 .. MaxConn /\ pipe \in [K -> 0 .. MaxConn] /\ served \in [K -> 0 .. MaxConn]
  <2>0. Due \in 0 .. 2
    BY DEF Due
  <2>1. \A k \in K : pipe[k] \in 0 .. MaxConn /\ served[k] \in 0 .. MaxConn
    BY <1>1, <2>0, ProcessPoolAssumption DEF IInv, Accounts, Types, CountType
  <2>2. backlog \in 0 .. MaxConn
    BY <1>1, KProperties, ProcessPoolAssumption DEF IInv, Accounts, Types, CountType
  <2>3. QED
    BY <1>1, <2>1, <2>2 DEF Types, CountType
<1>3. QED
  BY <1>1, <1>2
     DEF Types, ParentType, WakeType, ChildType, CountType, TypeOK, Source, Signal

LEMMA InitIInv == Init => IInv
<1> SUFFICES ASSUME Init PROVE IInv
  OBVIOUS
<1>1. ParentType
  <2>1. m_pid \in [K -> BOOLEAN] /\ sub_process_counter \in K /\ m_stop \in BOOLEAN
    BY KProperties DEF Init
  <2>2. ppc \in {"setup", "poll", "batch", "sigs", "stopped"} /\ number \in 0 .. 2
    BY DEF Init
  <2>3. batch \in Seq(Source) /\ sigbuf \in Seq(Signal)
    BY EmptySeq DEF Init
  <2>4. QED
    BY <2>1, <2>2, <2>3 DEF ParentType
<1>2. WakeType
  BY EmptySeq DEF Init, WakeType
<1>3. ChildType
  BY DEF Init, ChildType
<1>4. CountType
  BY ProcessPoolAssumption DEF Init, CountType
<1>5. Accounts
  BY KProperties DEF Init, Accounts, Distinct, Due, InSeq
<1>6. Deaths
  BY DEF Init, Deaths, PidsAreChildren, StopMeansEmpty, StopsLast
<1>7. QED
  BY <1>1, <1>2, <1>3, <1>4, <1>5, <1>6 DEF IInv, Types

-----------------------------------------------------------------------------
\* What most steps leave alone.
LEMMA DeathsKept ==
  ASSUME Deaths, UNCHANGED m_pid, m_stop' => m_stop,
         ppc' = "stopped" => ppc = "stopped",
         \A k \in K : cpc'[k] = "gone" <=> cpc[k] = "gone"
  PROVE  Deaths'
BY DEF Deaths, PidsAreChildren, StopMeansEmpty, StopsLast

LEMMA AccountsKept ==
  ASSUME CountType, Accounts, UNCHANGED <<pipe, served, backlog, conns, batch>>,
         "listen" \in ready' => "listen" \in ready,
         \A k \in K : "pipe" \in cbatch'[k] => "pipe" \in cbatch[k]
  PROVE  Accounts'
<1>1. Due' <= Due /\ Due \in 0 .. 2 /\ Due' \in 0 .. 2
  BY DEF Due
<1>2. QED
  BY <1>1 DEF Accounts, Distinct, CountType

-----------------------------------------------------------------------------
(***************************************************************************)
(* Clients, signals, crashes.                                              *)
(***************************************************************************)
LEMMA ConnectIInv ==
  ASSUME IInv, Connect
  PROVE  IInv'
<1> USE DEF Connect
<1>1. ParentType' /\ ChildType'
  BY DEF IInv, Types, ParentType, ChildType, parentVars, childVars
<1>2. WakeType'
  BY DEF IInv, Types, WakeType, Source
<1>3. CountType'
  BY ProcessPoolAssumption DEF IInv, Types, CountType, childVars
<1>4. Accounts'
  <2>1. UNCHANGED <<pipe, served, batch, cbatch>> /\ conns' = conns + 1 /\ backlog' = backlog + 1
    BY DEF childVars, parentVars
  <2>2. conns \in Nat /\ backlog \in Nat /\ pipe \in [K -> Nat] /\ served \in [K -> Nat]
    BY ProcessPoolAssumption DEF IInv, Types, CountType
  <2>3. QED
    BY <2>1, <2>2 DEF IInv, Accounts, Distinct, Due
<1>5. Deaths'
  BY DeathsKept DEF IInv, parentVars, childVars
<1>6. QED
  BY <1>1, <1>2, <1>3, <1>4, <1>5 DEF IInv, Types

LEMMA TermIInv ==
  ASSUME IInv, Term
  PROVE  IInv'
<1> USE DEF Term
<1>1. ParentType' /\ ChildType'
  BY DEF IInv, Types, ParentType, ChildType, parentVars, childVars
<1>2. WakeType'
  BY DEF IInv, Types, WakeType, Signal
<1>3. CountType'
  BY ProcessPoolAssumption DEF IInv, Types, CountType, childVars
<1>4. Accounts'
  BY AccountsKept DEF IInv, Types, childVars, parentVars
<1>5. Deaths'
  BY DeathsKept DEF IInv, parentVars, childVars
<1>6. QED
  BY <1>1, <1>2, <1>3, <1>4, <1>5 DEF IInv, Types

\* What Die does, whoever dies.
LEMMA DieType ==
  ASSUME WakeType, NEW D \in SUBSET K, Die(D), UNCHANGED <<ready, sigpipe, dropped>>
  PROVE  WakeType'
BY DEF WakeType, Die, Signal

LEMMA CrashIInv ==
  ASSUME IInv, NEW k \in K, Crash(k)
  PROVE  IInv'
<1> USE DEF Crash
<1>1. ParentType'
  BY DEF IInv, Types, ParentType, parentVars
<1>2. ChildType'
  BY DEF IInv, Types, ChildType
<1>3. WakeType'
  BY DieType DEF IInv, Types
<1>4. CountType'
  BY ProcessPoolAssumption DEF IInv, Types, CountType
<1>5. Accounts'
  BY AccountsKept DEF IInv, Types, parentVars
<1>6. Deaths'
  BY DeathsKept DEF IInv, Types, ChildType, Alive, parentVars
<1>7. QED
  BY <1>1, <1>2, <1>3, <1>4, <1>5, <1>6 DEF IInv, Types

LEMMA SigHandlerIInv ==
  ASSUME IInv, NEW s \in Signal, SigHandler(s)
  PROVE  IInv'
<1> USE DEF SigHandler
<1>1. ParentType' /\ ChildType'
  BY DEF IInv, Types, ParentType, ChildType, parentVars, childVars
<1>2. WakeType'
  <2>1. sigpipe' \in Seq(Signal)
    BY AppendProperties DEF IInv, Types, WakeType
  <2>2. ready' \subseteq Source /\ sigpend' \subseteq Signal /\ dropped' \subseteq Signal
    BY DEF IInv, Types, WakeType, Source
  <2>3. QED
    BY <2>1, <2>2 DEF IInv, Types, WakeType
<1>3. CountType'
  BY DEF IInv, Types, CountType, childVars, counters
<1>4. Accounts'
  BY AccountsKept DEF IInv, Types, childVars, parentVars, counters
<1>5. Deaths'
  BY DeathsKept DEF IInv, parentVars, childVars
<1>6. QED
  BY <1>1, <1>2, <1>3, <1>4, <1>5 DEF IInv, Types

-----------------------------------------------------------------------------
(***************************************************************************)
(* run_parent.                                                             *)
(***************************************************************************)
LEMMA SetupSigPipeIInv ==
  ASSUME IInv, SetupSigPipe
  PROVE  IInv'
<1> USE DEF SetupSigPipe
<1>1. Types'
  BY DEF IInv, Types, ParentType, WakeType, ChildType, CountType, wakeVars, childVars, counters
<1>2. Accounts'
  BY AccountsKept DEF IInv, Types, wakeVars, childVars, counters
<1>3. Deaths'
  BY DeathsKept DEF IInv, childVars
<1>4. QED
  BY <1>1, <1>2, <1>3 DEF IInv

LEMMA PollReturnsIInv ==
  ASSUME IInv, PollReturns
  PROVE  IInv'
<1> DEFINE events == ready \cap ReadableSources
<1> USE DEF PollReturns
<1>1. events \subseteq Source /\ IsFiniteSet(events) /\ Cardinality(events) \in 0 .. 2
  <2>1. IsFiniteSet(Source) /\ Cardinality(Source) = 2
    <3>1. IsFiniteSet({"listen"}) /\ Cardinality({"listen"}) = 1
      BY FS_Singleton
    <3>2. /\ IsFiniteSet({"listen"} \cup {"sig"})
          /\ Cardinality({"listen"} \cup {"sig"}) = 1 + 1
      <4>1. "sig" \notin {"listen"}
        OBVIOUS
      <4>2. QED
        BY <3>1, <4>1, FS_AddElement
    <3>3. Source = {"listen"} \cup {"sig"}
      BY DEF Source
    <3>4. QED
      BY <3>2, <3>3
  <2>2. events \subseteq Source
    BY DEF IInv, Types, WakeType
  <2>3. QED
    BY <2>1, <2>2, FS_Subset, FS_CardinalityType
<1> DEFINE n == Cardinality(events)
<1>2. /\ batch' \in [1 .. n -> events]
      /\ \A e \in events : \E i \in 1 .. n : batch'[i] = e
  BY <1>1
<1>3. batch' \in Seq(Source)
  <2> HIDE DEF events
  <2>1. batch' \in [1 .. n -> Source] /\ n \in Nat
    BY <1>1, <1>2
  <2>2. QED
    BY <2>1, SeqDef
<1>4. ParentType'
  BY <1>1, <1>3 DEF IInv, Types, ParentType
<1>5. WakeType' /\ ChildType' /\ CountType'
  BY DEF IInv, Types, WakeType, ChildType, CountType, childVars, counters
<1>6. Distinct(batch')
  <2> HIDE DEF events
  <2>1. n \in Nat
    BY <1>1
  <2>2. IsFiniteSet(1 .. n) /\ Cardinality(1 .. n) = n
    BY <2>1, FS_Interval
  <2>3. batch' \in Surjection(1 .. n, events)
    BY <1>2 DEF Surjection
  <2>4. batch' \in Injection(1 .. n, events)
    BY <2>2, <2>3, <1>1, FS_SurjSameCardinalityImpliesInj
  <2>5. DOMAIN batch' = 1 .. n
    BY <1>2
  <2>6. QED
    BY <2>4, <2>5 DEF Injection, IsInjective, Distinct
<1>7. Accounts'
  <2>0. ready' = {} /\ \A i \in DOMAIN batch' : batch'[i] \in ready
    BY <1>2
  <2>1. Due' <= Due /\ Due \in 0 .. 2 /\ Due' \in 0 .. 2
    <3>1. InSeq("listen", batch') => "listen" \in ready
      BY <2>0 DEF InSeq
    <3>2. QED
      BY <2>0, <3>1 DEF Due
  <2>2. UNCHANGED <<pipe, served, backlog, conns, cbatch>>
    BY DEF childVars, counters
  <2>3. QED
    BY <1>6, <2>1, <2>2 DEF IInv, Accounts, Types, CountType
<1>8. Deaths'
  BY DeathsKept DEF IInv, childVars
<1>9. QED
  BY <1>4, <1>5, <1>7, <1>8 DEF IInv, Types

-----------------------------------------------------------------------------
\* Taking the first event of the batch.
LEMMA TailOfBatch ==
  ASSUME batch \in Seq(Source), Distinct(batch), batch # <<>>, batch' = Tail(batch)
  PROVE  /\ Head(batch) \in Source /\ InSeq(Head(batch), batch)
         /\ batch' \in Seq(Source) /\ Distinct(batch')
         /\ ~InSeq(Head(batch), batch')
         /\ \A s : InSeq(s, batch') => InSeq(s, batch)
<1>1. Len(batch) \in Nat \ {0} /\ DOMAIN batch = 1 .. Len(batch)
  BY EmptySeq, LenProperties
<1>2. /\ batch' \in Seq(Source)
      /\ DOMAIN batch' = 1 .. Len(batch) - 1
      /\ \A i \in 1 .. Len(batch) - 1 : batch'[i] = batch[i + 1]
  BY <1>1, HeadTailProperties, LenProperties
<1>3. Head(batch) = batch[1] /\ batch[1] \in Source
  BY <1>1, HeadTailProperties, ElementOfSeq
<1>4. Distinct(batch')
  BY <1>1, <1>2 DEF Distinct
<1>5. ~InSeq(batch[1], batch')
  BY <1>1, <1>2 DEF Distinct, InSeq
<1>6. \A s : InSeq(s, batch') => InSeq(s, batch)
  BY <1>1, <1>2 DEF InSeq
<1>7. InSeq(batch[1], batch)
  BY <1>1 DEF InSeq
<1>8. QED
  BY <1>2, <1>3, <1>4, <1>5, <1>6, <1>7

(***************************************************************************)
(* The least number of a set: what makes the search for a child stop at    *)
(* the first one alive.                                                    *)
(***************************************************************************)
LEMMA LeastNumber ==
  ASSUME NEW S \in SUBSET Nat, S # {}
  PROVE  \E m \in S : \A k \in S : m <= k
<1> DEFINE Less == OpToRel(<, Nat)
<1>1. IsWellFoundedOn(Less, Nat)
  BY NatLessThanWellFounded
<1> HIDE DEF Less
<1>2. PICK m \in S : \A k \in S : ~ (<<k, m>> \in Less)
  BY <1>1, WFMin
<1>3. \A k \in S : k < m => <<k, m>> \in Less
  BY DEF Less, OpToRel
<1>4. \A k \in S : ~ (k < m)
  BY <1>2, <1>3
<1>5. \A k \in S : m <= k
  BY <1>4
<1>6. QED
  BY <1>5

\* Round robin selects a child, and one that is alive.
LEMMA SelectedIsAlive ==
  ASSUME ParentType, \E k \in K : m_pid[k]
  PROVE  Selected \in K /\ m_pid[Selected]
<1> DEFINE At(d) == (sub_process_counter + d) % m_process_number
           Good == {d \in K : m_pid[At(d)]}
<1>1. sub_process_counter \in K /\ m_process_number \in Nat \ {0} /\ K = 0 .. m_process_number - 1
  BY KProperties DEF ParentType, K
<1>2. \A d \in K : At(d) \in K
  <2>1. \A d \in K : sub_process_counter + d \in Nat
    BY <1>1
  <2>2. QED
    BY <2>1, KProperties
<1>3. PICK k \in K : m_pid[k]
  OBVIOUS
<1> DEFINE d0 == IF k >= sub_process_counter THEN k - sub_process_counter
                 ELSE k + m_process_number - sub_process_counter
<1>4. d0 \in K /\ At(d0) = k
  <2>1. CASE k >= sub_process_counter
    BY <1>1, <2>1
  <2>2. CASE k < sub_process_counter
    BY <1>1, <2>2
  <2>3. QED
    BY <1>1, <2>1, <2>2
<1>5. Good \in SUBSET Nat /\ Good # {}
  BY <1>3, <1>4, KProperties
<1>6. PICK m \in Good : \A d \in Good : m <= d
  BY <1>5, LeastNumber
<1>7. m \in K /\ m_pid[At(m)] /\ \A c \in 0 .. m - 1 : ~m_pid[At(c)]
  BY <1>1, <1>6
<1> DEFINE d1 == CHOOSE d \in K : m_pid[At(d)] /\ \A c \in 0 .. d - 1 : ~m_pid[At(c)]
<1>8. d1 \in K /\ m_pid[At(d1)]
  BY <1>7
<1>9. Selected = At(d1)
  BY DEF Selected
<1>10. QED
  BY <1>2, <1>8, <1>9

\* One int more for child k, or none.
LEMMA SendToProperties ==
  ASSUME ChildType, CountType, NEW k, SendTo(k)
  PROVE  /\ pipe' \in [K -> Nat] /\ cready' \in [K -> SUBSET {"pipe", "sig"}]
         /\ \A j \in K : pipe[j] <= pipe'[j] /\ pipe'[j] <= pipe[j] + 1
BY DEF SendTo, ChildType, CountType

LEMMA DispatchIInv ==
  ASSUME IInv, Dispatch
  PROVE  IInv'
<1>0. /\ UNCHANGED <<m_pid, ppc, number, sigbuf, wakeVars, cpc, cbatch, cstop, csig, served,
                     backlog, counters>>
      /\ batch # <<>> /\ Head(batch) = "listen"
  BY DEF Dispatch
<1>a. ParentType /\ WakeType /\ ChildType /\ CountType /\ Accounts /\ Deaths
  BY DEF IInv, Types
<1>1. CASE \E k \in K : m_pid[k]
  <2>1. /\ sub_process_counter' = (Selected + 1) % m_process_number
        /\ SendTo(number - Len(batch))
        /\ batch' = Tail(batch)
        /\ UNCHANGED m_stop
    BY <1>1 DEF Dispatch
  <2>2. sub_process_counter' \in K
    <3>1. Selected \in Nat
      BY <1>1, <1>a, SelectedIsAlive, KProperties
    <3>2. Selected + 1 \in Nat
      BY <3>1
    <3>3. QED
      BY <2>1, <3>2, KProperties
  <2>3. /\ batch' \in Seq(Source) /\ Distinct(batch')
        /\ InSeq("listen", batch) /\ ~InSeq("listen", batch')
    BY <1>0, <1>a, <2>1, TailOfBatch DEF ParentType, Accounts
  <2>4. /\ pipe' \in [K -> Nat] /\ cready' \in [K -> SUBSET {"pipe", "sig"}]
        /\ \A j \in K : pipe[j] <= pipe'[j] /\ pipe'[j] <= pipe[j] + 1
    BY <1>a, <2>1, SendToProperties
  <2>5. ParentType'
    BY <1>0, <1>a, <2>1, <2>2, <2>3 DEF ParentType
  <2>6. WakeType' /\ ChildType' /\ CountType'
    BY <1>0, <1>a, <2>4 DEF WakeType, ChildType, CountType, wakeVars, counters
  <2>7. Accounts'
    <3>1. /\ UNCHANGED <<cbatch, served, backlog, conns, ready>>
          /\ conns \in Nat /\ pipe \in [K -> Nat]
      BY <1>0, <1>a, ProcessPoolAssumption DEF wakeVars, counters, CountType
    <3>2. Due \in 1 .. 2 /\ Due' = Due - 1
      BY <2>3, <3>1 DEF Due
    <3>3. ASSUME NEW k \in K
          PROVE  /\ pipe'[k] + Due' <= conns'
                 /\ "pipe" \in cbatch'[k] => pipe'[k] > 0
                 /\ served'[k] + backlog' <= conns'
      <4>1. pipe'[k] + Due' <= conns'
        <5>1. pipe[k] + Due <= conns
          BY <1>a DEF Accounts
        <5>2. pipe'[k] \in Nat /\ pipe[k] \in Nat /\ pipe'[k] <= pipe[k] + 1
          BY <2>4, <3>1
        <5>3. QED
          BY <3>1, <3>2, <5>1, <5>2
      <4>2. "pipe" \in cbatch'[k] => pipe'[k] > 0
        BY <1>a, <2>4, <3>1 DEF Accounts
      <4>3. served'[k] + backlog' <= conns'
        BY <1>a, <3>1 DEF Accounts
      <4>4. QED
        BY <4>1, <4>2, <4>3
    <3>4. QED
      BY <2>3, <3>3 DEF Accounts
  <2>8. Deaths'
    BY <1>0, <1>a, <2>1, DeathsKept
  <2>9. QED
    BY <2>5, <2>6, <2>7, <2>8 DEF IInv, Types
<1>2. CASE ~ \E k \in K : m_pid[k]
  <2>1. m_stop' = TRUE /\ batch' = <<>> /\ UNCHANGED <<sub_process_counter, pipe, cready>>
    BY <1>2 DEF Dispatch
  <2>2. ParentType'
    BY <1>0, <1>a, <2>1, EmptySeq DEF ParentType
  <2>3. WakeType' /\ ChildType' /\ CountType'
    BY <1>0, <1>a, <2>1 DEF WakeType, ChildType, CountType, wakeVars, counters
  <2>4. Accounts'
    <3>1. UNCHANGED <<pipe, served, backlog, conns, cbatch, ready>>
      BY <1>0, <2>1 DEF wakeVars, counters
    <3>2. Due' <= Due /\ Due \in 0 .. 2 /\ Due' \in 0 .. 2
      BY <2>1, <3>1 DEF Due, InSeq
    <3>3. QED
      BY <1>a, <2>1, <3>1, <3>2 DEF Accounts, Distinct, CountType
  <2>5. Deaths'
    BY <1>0, <1>2, <1>a DEF Deaths, PidsAreChildren, StopMeansEmpty, StopsLast
  <2>6. QED
    BY <2>2, <2>3, <2>4, <2>5 DEF IInv, Types
<1>3. QED
  BY <1>1, <1>2

LEMMA ReadSignalsIInv ==
  ASSUME IInv, ReadSignals
  PROVE  IInv'
<1> USE DEF ReadSignals
<1>1. /\ batch' \in Seq(Source) /\ Distinct(batch')
      /\ \A s : InSeq(s, batch') => InSeq(s, batch)
  BY TailOfBatch DEF IInv, Types, ParentType, Accounts
<1>2. ParentType'
  BY <1>1 DEF IInv, Types, ParentType, WakeType
<1>3. WakeType' /\ ChildType' /\ CountType'
  BY EmptySeq DEF IInv, Types, WakeType, ChildType, CountType, childVars, counters
<1>4. Accounts'
  <2>1. UNCHANGED <<pipe, served, backlog, conns, cbatch, ready>>
    BY DEF childVars, counters
  <2>2. Due' <= Due /\ Due \in 0 .. 2 /\ Due' \in 0 .. 2
    BY <1>1, <2>1 DEF Due
  <2>3. QED
    BY <1>1, <2>1, <2>2 DEF IInv, Accounts, Types, CountType
<1>5. Deaths'
  BY DeathsKept DEF IInv, childVars
<1>6. QED
  BY <1>2, <1>3, <1>4, <1>5 DEF IInv, Types

\* Taking the first signal of the buffer.
LEMMA TailOfSignals ==
  ASSUME ParentType, NEW s, TakeSignal(s)
  PROVE  sigbuf' \in Seq(Signal)
BY EmptySeq, HeadTailProperties DEF ParentType, TakeSignal

\* A child waited for loses its pid and is gone; m_stop is what the loop over all
\* pids finds, not what an earlier SIGCHLD left.
LEMMA HandleSigchldIInv ==
  ASSUME IInv, HandleSigchld
  PROVE  IInv'
<1> USE DEF HandleSigchld
<1>a. ParentType /\ WakeType /\ ChildType /\ CountType /\ Accounts /\ Deaths
  BY DEF IInv, Types
<1>1. ParentType'
  <2>1. sigbuf' \in Seq(Signal)
    BY <1>a, TailOfSignals
  <2>2. m_stop' \in BOOLEAN
    OBVIOUS
  <2>3. m_pid' \in [K -> BOOLEAN]
    OBVIOUS
  <2>4. QED
    BY <1>a, <2>1, <2>2, <2>3 DEF ParentType
<1>2. ChildType'
  BY <1>a DEF ChildType
<1>3. WakeType' /\ CountType'
  BY <1>a DEF WakeType, CountType, wakeVars, counters
<1>4. Accounts'
  BY <1>a, AccountsKept DEF wakeVars, counters
<1>5. Deaths'
  <2>1. ASSUME NEW k \in K PROVE m_pid'[k] <=> cpc'[k] # "gone"
    <3>1. m_pid[k] <=> cpc[k] # "gone"
      BY <1>a DEF Deaths, PidsAreChildren
    <3>2. m_pid'[k] <=> m_pid[k] /\ cpc[k] # "zombie"
      OBVIOUS
    <3>3. cpc'[k] = IF cpc[k] = "zombie" THEN "gone" ELSE cpc[k]
      OBVIOUS
    <3>4. QED
      BY <3>1, <3>2, <3>3
  <2>2. StopMeansEmpty'
    BY DEF StopMeansEmpty
  <2>3. StopsLast'
    BY DEF TakeSignal, StopsLast
  <2>4. QED
    BY <2>1, <2>2, <2>3 DEF Deaths, PidsAreChildren
<1>6. QED
  BY <1>1, <1>2, <1>3, <1>4, <1>5 DEF IInv, Types

LEMMA KillChildrenIInv ==
  ASSUME IInv, KillChildren
  PROVE  IInv'
<1> DEFINE killed == {k \in K : m_pid[k] /\ cpc[k] = "born"}
<1> USE DEF KillChildren
<1>a. ParentType /\ WakeType /\ ChildType /\ CountType /\ Accounts /\ Deaths
  BY DEF IInv, Types
<1>1. ParentType'
  BY <1>a, TailOfSignals DEF ParentType
<1>2. WakeType'
  <2>1. killed \in SUBSET K /\ Die(killed)
    OBVIOUS
  <2>2. QED
    BY <1>a, <2>1, DieType
<1>3. ChildType'
  BY <1>a DEF ChildType
<1>4. CountType'
  BY <1>a DEF CountType, counters
<1>5. Accounts'
  BY <1>a, AccountsKept DEF counters
<1>6. Deaths'
  <2>1. \A k \in K : cpc'[k] = "gone" <=> cpc[k] = "gone"
    OBVIOUS
  <2>2. QED
    BY <1>a, <2>1, DeathsKept
<1>7. QED
  BY <1>1, <1>2, <1>3, <1>4, <1>5, <1>6 DEF IInv, Types

LEMMA SignalsDoneIInv ==
  ASSUME IInv, SignalsDone
  PROVE  IInv'
<1> USE DEF SignalsDone
<1>1. Types'
  BY DEF IInv, Types, ParentType, WakeType, ChildType, CountType, wakeVars, childVars, counters
<1>2. Accounts'
  BY AccountsKept DEF IInv, Types, wakeVars, childVars, counters
<1>3. Deaths'
  BY DeathsKept DEF IInv, childVars
<1>4. QED
  BY <1>1, <1>2, <1>3 DEF IInv

\* The parent leaves its loop: m_stop says that nobody is left.
LEMMA EndBatchIInv ==
  ASSUME IInv, EndBatch
  PROVE  IInv'
<1> USE DEF EndBatch
<1>1. Types'
  BY DEF IInv, Types, ParentType, WakeType, ChildType, CountType, wakeVars, childVars, counters
<1>2. Accounts'
  BY AccountsKept DEF IInv, Types, wakeVars, childVars, counters
<1>3. Deaths'
  <2>1. UNCHANGED <<m_pid, m_stop, cpc>> /\ (ppc' = "stopped" => m_stop)
    BY DEF childVars
  <2>2. QED
    BY <2>1 DEF IInv, Deaths, PidsAreChildren, StopMeansEmpty, StopsLast
<1>4. QED
  BY <1>1, <1>2, <1>3 DEF IInv

LEMMA ParentStepIInv ==
  ASSUME IInv, ParentStep
  PROVE  IInv'
BY SetupSigPipeIInv, PollReturnsIInv, DispatchIInv, ReadSignalsIInv, HandleSigchldIInv,
   KillChildrenIInv, SignalsDoneIInv, EndBatchIInv
   DEF ParentStep

-----------------------------------------------------------------------------
(***************************************************************************)
(* run_child.                                                              *)
(***************************************************************************)
LEMMA ChildSetupIInv ==
  ASSUME IInv, NEW k \in K, ChildSetup(k)
  PROVE  IInv'
<1> USE DEF ChildSetup
<1>1. Types'
  BY DEF IInv, Types, ParentType, WakeType, ChildType, CountType, parentVars, wakeVars, counters
<1>2. Accounts'
  BY AccountsKept DEF IInv, Types, parentVars, wakeVars, counters
<1>3. Deaths'
  BY DeathsKept DEF IInv, Types, ChildType, parentVars
<1>4. QED
  BY <1>1, <1>2, <1>3 DEF IInv

\* What epoll_wait returns to a child is readable.
LEMMA ChildPollIInv ==
  ASSUME IInv, NEW k \in K, ChildPoll(k)
  PROVE  IInv'
<1> DEFINE events == {e \in cready[k] : (e = "pipe" => pipe[k] > 0) /\ (e = "sig" => csig[k])}
<1>a. ParentType /\ WakeType /\ ChildType /\ CountType /\ Accounts /\ Deaths
  BY DEF IInv, Types
<1>0. /\ cpc[k] = "poll" /\ cpc' = [cpc EXCEPT ![k] = "batch"]
      /\ cbatch' = [cbatch EXCEPT ![k] = events]
      /\ cready' = [cready EXCEPT ![k] = {}]
      /\ UNCHANGED <<parentVars, wakeVars, cstop, csig, pipe, served, backlog, counters>>
  BY DEF ChildPoll
<1>1. ParentType' /\ WakeType' /\ CountType'
  BY <1>0, <1>a DEF ParentType, WakeType, CountType, parentVars, wakeVars, counters
<1>2. ChildType'
  <2>1. events \in SUBSET {"pipe", "sig"}
    BY <1>a DEF ChildType
  <2> HIDE DEF events
  <2>2. QED
    BY <1>0, <1>a, <2>1 DEF ChildType
<1>3. Accounts'
  <2>1. \A j \in K : "pipe" \in cbatch'[j] => pipe[j] > 0
    <3>1. "pipe" \in events => pipe[k] > 0
      OBVIOUS
    <3> HIDE DEF events
    <3>2. QED
      BY <1>0, <1>a, <3>1 DEF Accounts, ChildType
  <2>2. UNCHANGED <<pipe, served, backlog, conns, ready, batch>>
    BY <1>0 DEF parentVars, wakeVars, counters
  <2>3. Due' = Due
    BY <2>2 DEF Due
  <2>4. QED
    BY <1>a, <2>1, <2>2, <2>3 DEF Accounts
<1>4. Deaths'
  BY <1>0, <1>a, DeathsKept DEF ChildType, parentVars
<1>5. QED
  BY <1>1, <1>2, <1>3, <1>4 DEF IInv, Types

LEMMA ChildAcceptIInv ==
  ASSUME IInv, NEW k \in K, ChildAccept(k)
  PROVE  IInv'
<1> USE DEF ChildAccept
<1>a. ParentType /\ WakeType /\ ChildType /\ CountType /\ Accounts /\ Deaths
  BY DEF IInv, Types
<1>0. /\ pipe[k] \in Nat /\ pipe[k] > 0 /\ pipe' = [pipe EXCEPT ![k] = @ - 1]
      /\ cbatch' = [cbatch EXCEPT ![k] = @ \ {"pipe"}]
      /\ UNCHANGED <<parentVars, wakeVars, cpc, cready, cstop, csig, counters>>
  BY <1>a DEF Accounts, CountType
<1>1. ParentType' /\ WakeType' /\ ChildType'
  BY <1>0, <1>a DEF ParentType, WakeType, ChildType, parentVars, wakeVars
<1>2. /\ backlog' \in Nat /\ served' \in [K -> Nat]
      /\ \A j \in K : served'[j] + backlog' <= served[j] + backlog
  BY <1>a DEF CountType
<1>3. CountType'
  BY <1>0, <1>2, <1>a DEF CountType, counters
<1>4. Accounts'
  <2>1. UNCHANGED <<conns, ready, batch>> /\ Due' = Due /\ Due \in 0 .. 2
    BY <1>0 DEF parentVars, wakeVars, counters, Due
  <2>2. conns \in Nat /\ \A j \in K : pipe[j] \in Nat /\ served[j] \in Nat /\ served'[j] \in Nat
    BY <1>2, <1>a, ProcessPoolAssumption DEF CountType
  <2>3. ASSUME NEW j \in K
        PROVE  /\ pipe'[j] + Due' <= conns'
               /\ "pipe" \in cbatch'[j] => pipe'[j] > 0
               /\ served'[j] + backlog' <= conns'
    <3>1. pipe[j] + Due <= conns /\ served[j] + backlog <= conns /\ backlog \in Nat
      BY <1>a DEF Accounts, CountType
    <3>2. pipe'[j] = (IF j = k THEN pipe[j] - 1 ELSE pipe[j])
      BY <1>0, <1>a DEF CountType
    <3>3. pipe'[j] + Due' <= conns'
      BY <2>1, <2>2, <3>1, <3>2
    <3>4. "pipe" \in cbatch'[j] => pipe'[j] > 0
      <4>1. "pipe" \in cbatch'[j] => j # k /\ "pipe" \in cbatch[j]
        BY <1>0, <1>a DEF ChildType
      <4>2. QED
        BY <1>a, <3>2, <4>1 DEF Accounts
    <3>5. served'[j] + backlog' <= conns'
      BY <1>2, <2>1, <2>2, <3>1
    <3>6. QED
      BY <3>3, <3>4, <3>5
  <2>4. QED
    BY <1>a, <2>1, <2>3 DEF Accounts
<1>5. Deaths'
  BY <1>0, <1>a, DeathsKept DEF parentVars
<1>6. QED
  BY <1>1, <1>3, <1>4, <1>5 DEF IInv, Types

LEMMA ChildSignalIInv ==
  ASSUME IInv, NEW k \in K, ChildSignal(k)
  PROVE  IInv'
<1> USE DEF ChildSignal
<1>1. ParentType' /\ WakeType' /\ CountType'
  BY DEF IInv, Types, ParentType, WakeType, CountType, parentVars, wakeVars, counters
<1>2. ChildType'
  BY DEF IInv, Types, ChildType
<1>3. Accounts'
  <2>1. \A j \in K : "pipe" \in cbatch'[j] => "pipe" \in cbatch[j]
    BY DEF IInv, Types, ChildType
  <2>2. QED
    BY <2>1, AccountsKept DEF IInv, Types, parentVars, wakeVars, counters
<1>4. Deaths'
  BY DeathsKept DEF IInv, parentVars
<1>5. QED
  BY <1>1, <1>2, <1>3, <1>4 DEF IInv, Types

LEMMA ChildEndBatchIInv ==
  ASSUME IInv, NEW k \in K, ChildEndBatch(k)
  PROVE  IInv'
<1> USE DEF ChildEndBatch
<1>1. ParentType' /\ CountType'
  BY DEF IInv, Types, ParentType, CountType, parentVars, counters
<1>2. WakeType'
  <2>1. (IF cstop[k] THEN {k} ELSE {}) \in SUBSET K
    OBVIOUS
  <2>2. QED
    BY <2>1, DieType DEF IInv, Types
<1>3. ChildType'
  BY DEF IInv, Types, ChildType
<1>4. Accounts'
  BY AccountsKept DEF IInv, Types, parentVars, counters
<1>5. Deaths'
  BY DeathsKept DEF IInv, Types, ChildType, parentVars
<1>6. QED
  BY <1>1, <1>2, <1>3, <1>4, <1>5 DEF IInv, Types

LEMMA StutterIInv ==
  ASSUME IInv, UNCHANGED vars
  PROVE  IInv'
<1> USE DEF vars, parentVars, wakeVars, childVars, counters
<1>1. Types'
  BY DEF IInv, Types, ParentType, WakeType, ChildType, CountType
<1>2. Accounts'
  BY AccountsKept DEF IInv, Types
<1>3. Deaths'
  BY DeathsKept DEF IInv
<1>4. QED
  BY <1>1, <1>2, <1>3 DEF IInv

-----------------------------------------------------------------------------
\* The invariant of the pool holds in every state.
THEOREM Invariance == Spec => []IInv
<1>1. IInv /\ [Next]_vars => IInv'
  <2> SUFFICES ASSUME IInv, [Next]_vars PROVE IInv'
    OBVIOUS
  <2>1. CASE Connect \/ Term
    BY <2>1, ConnectIInv, TermIInv
  <2>2. ASSUME NEW s \in Signal, SigHandler(s) PROVE IInv'
    BY <2>2, SigHandlerIInv
  <2>3. CASE ParentStep
    BY <2>3, ParentStepIInv
  <2>4. ASSUME NEW k \in K, Crash(k) PROVE IInv'
    BY <2>4, CrashIInv
  <2>5. ASSUME NEW k \in K, ChildStep(k) PROVE IInv'
    BY <2>5, ChildSetupIInv, ChildPollIInv, ChildAcceptIInv, ChildSignalIInv,
       ChildEndBatchIInv DEF ChildStep
  <2>6. CASE UNCHANGED vars
    BY <2>6, StutterIInv
  <2>7. QED
    BY <2>1, <2>2, <2>3, <2>4, <2>5, <2>6 DEF Next, Signal
<1>2. QED
  BY <1>1, InitIInv, PTL DEF Spec

\* Every variable has its type: the counter of the round robin is always the number
\* of a child, no child reads an int that was not written, and none accepts more
\* connections than were opened.
THEOREM TypeCorrect == Spec => []TypeOK
BY Invariance, IInvImpliesTypeOK, PTL

\* m_pid names exactly the children that have not been waited for, whenever and
\* however they died.
THEOREM PidsOfChildren == Spec => []PidsAreChildren
<1>1. IInv => PidsAreChildren
  BY DEF IInv, Deaths
<1>2. QED
  BY <1>1, Invariance, PTL

\* The parent leaves its loop only when every child has been waited for.
THEOREM ParentStopsLast == Spec => []StopsLast
<1>1. IInv => StopsLast
  BY DEF IInv, Deaths
<1>2. QED
  BY <1>1, Invariance, PTL

-----------------------------------------------------------------------------
(***************************************************************************)
(* The way to the end of the pool, as far as it is a matter of safety: no  *)
(* signal is lost on its way, whoever was told to end will, and nobody     *)
(* rests before all have.                                                  *)
(***************************************************************************)

\* No child is left that has not been told to end.
Doomed == \A k \in K : ~Alive(k) \/ cstop[k] \/ csig[k]

TermKnown ==
  terms > 0 /\ "TERM" \notin dropped /\ ppc # "stopped" => Noted("TERM") \/ Doomed

\* The event of a signal in the pipe is still to come, as long as a child is left.
EventComes ==
  (\E k \in K : m_pid[k]) /\ sigpipe # <<>> => "sig" \in ready \/ InSeq("sig", batch)

\* Where the parent is, and what it has read but not handled.
ParentPlaces ==
  /\ ppc # "sigs" => sigbuf = <<>>
  /\ ppc \in {"setup", "poll", "stopped"} => batch = <<>>
  /\ ppc = "setup" => sigpend = {} /\ sigpipe = <<>> /\ terms = 0

\* The parent does not go to wait when nobody is left.
EmptyMeansStop ==
  /\ (\A k \in K : ~m_pid[k]) => m_stop
  /\ ppc \in {"setup", "poll"} => ~m_stop

\* A SIGTERM in a child's pipe comes with its event, and one that was read ends
\* the child with this batch.
ChildrenTold ==
  \A k \in K :
    /\ cpc[k] = "born" => ~csig[k]
    /\ cpc[k] \in {"born", "poll"} => cbatch[k] = {} /\ ~cstop[k]
    /\ csig[k] /\ cpc[k] \in {"poll", "batch"} => "sig" \in cready[k] \cup cbatch[k]

EndInv == ParentPlaces /\ EventComes /\ EmptyMeansStop /\ ChildrenTold /\ DeathsKnown /\ TermKnown

LEMMA EndInit == Init => EndInv
<1> SUFFICES ASSUME Init PROVE EndInv
  OBVIOUS
<1>1. ParentPlaces /\ ChildrenTold /\ EventComes
  BY DEF Init, ParentPlaces, ChildrenTold, EventComes
<1>2. EmptyMeansStop
  BY KProperties DEF Init, EmptyMeansStop
<1>3. DeathsKnown /\ TermKnown
  BY DEF Init, DeathsKnown, TermKnown, Zombies
<1>4. QED
  BY <1>1, <1>2, <1>3 DEF EndInv

-----------------------------------------------------------------------------
\* What is not the first stays.
LEMMA TailKeepsOthers ==
  ASSUME NEW S, NEW q \in Seq(S), q # <<>>, NEW s, s # Head(q), InSeq(s, q)
  PROVE  InSeq(s, Tail(q))
<1>1. Len(q) \in Nat \ {0} /\ DOMAIN q = 1 .. Len(q)
  BY EmptySeq, LenProperties
<1>2. /\ DOMAIN Tail(q) = 1 .. Len(q) - 1
      /\ \A i \in 1 .. Len(q) - 1 : Tail(q)[i] = q[i + 1]
  BY <1>1, HeadTailProperties, LenProperties
<1>3. PICK i \in 1 .. Len(q) : q[i] = s
  BY <1>1 DEF InSeq
<1>4. i # 1
  BY <1>1, <1>3, HeadTailProperties
<1>5. i - 1 \in 1 .. Len(q) - 1 /\ Tail(q)[i - 1] = s
  BY <1>1, <1>2, <1>3, <1>4
<1>6. QED
  BY <1>2, <1>5 DEF InSeq

LEMMA AppendKeeps ==
  ASSUME NEW S, NEW q \in Seq(S), NEW t \in S
  PROVE  InSeq(t, Append(q, t)) /\ \A s : InSeq(s, q) => InSeq(s, Append(q, t))
<1>1. Len(q) \in Nat /\ DOMAIN q = 1 .. Len(q)
  BY LenProperties
<1>2. /\ DOMAIN Append(q, t) = 1 .. Len(q) + 1
      /\ \A i \in 1 .. Len(q) : Append(q, t)[i] = q[i]
      /\ Append(q, t)[Len(q) + 1] = t
  BY <1>1, AppendProperties, LenProperties
<1>3. Len(q) + 1 \in 1 .. Len(q) + 1 /\ \A i \in 1 .. Len(q) : i \in 1 .. Len(q) + 1
  BY <1>1
<1>4. QED
  BY <1>1, <1>2, <1>3 DEF InSeq

LEMMA NotedKept ==
  ASSUME NEW s, Noted(s), UNCHANGED <<batch, sigbuf, sigpipe>>,
         sigpend \subseteq sigpend', ready \subseteq ready'
  PROVE  Noted(s)'
BY DEF Noted

\* Die only adds to the pending signals.
LEMMA DieNotes ==
  ASSUME NEW D, Die(D)
  PROVE  /\ sigpend \subseteq sigpend' /\ (lost => lost')
         /\ D # {} => lost' \/ ppc = "stopped" \/ "CHLD" \in sigpend'
BY DEF Die

(***************************************************************************)
(* A signal is taken only by its handler in the parent, or when nobody is  *)
(* left; or a full pipe drops it.                                          *)
(***************************************************************************)
LEMMA NotedStep ==
  ASSUME IInv, ParentPlaces, EventComes, NEW s \in Signal, Noted(s), [Next]_vars
  PROVE  \/ Noted(s)'
         \/ s = "CHLD" /\ HandleSigchld
         \/ s = "TERM" /\ KillChildren
         \/ s \in dropped'
         \/ \A k \in K : ~m_pid[k]
<1>0. ParentType /\ WakeType /\ Distinct(batch)
  BY DEF IInv, Types, Accounts
<1>1. CASE Connect
  <2>1. UNCHANGED <<batch, sigbuf, sigpipe, sigpend>> /\ ready \subseteq ready'
    BY <1>1 DEF Connect, parentVars
  <2>2. QED
    BY <2>1, NotedKept
<1>2. CASE Term
  <2>1. UNCHANGED <<batch, sigbuf, sigpipe, ready>> /\ sigpend \subseteq sigpend'
    BY <1>2 DEF Term, parentVars
  <2>2. QED
    BY <2>1, NotedKept
<1>3. ASSUME NEW t \in Signal, SigHandler(t)
      PROVE  Noted(s)' \/ s \in dropped' \/ \A k \in K : ~m_pid[k]
  <2>1. sigpend' = sigpend \ {t} /\ UNCHANGED <<batch, sigbuf>>
    BY <1>3 DEF SigHandler, parentVars
  <2>2. CASE Len(sigpipe) < PipeSize
    <3>1. sigpipe' = Append(sigpipe, t) /\ ready' = ready \cup {"sig"}
      BY <1>3, <2>2 DEF SigHandler
    <3>2. InSeq(t, sigpipe') /\ (InSeq(s, sigpipe) => InSeq(s, sigpipe'))
      BY <1>0, <3>1, AppendKeeps DEF WakeType
    <3>3. QED
      BY <2>1, <3>1, <3>2 DEF Noted
  <2>3. CASE ~(Len(sigpipe) < PipeSize)
    <3>1. /\ UNCHANGED <<sigpipe, ready>>
          /\ dropped' = IF InSeq(t, sigpipe) THEN dropped ELSE dropped \cup {t}
      BY <1>3, <2>3 DEF SigHandler
    <3>2. CASE t # s
      BY <2>1, <3>1, <3>2 DEF Noted
    <3>3. CASE t = s /\ InSeq(t, sigpipe)
      <4>1. sigpipe # <<>>
        BY <3>3 DEF InSeq
      <4>2. QED
        BY <2>1, <3>1, <3>3, <4>1 DEF Noted, EventComes
    <3>4. CASE t = s /\ ~InSeq(t, sigpipe)
      BY <3>1, <3>4
    <3>5. QED
      BY <3>2, <3>3, <3>4
  <2>4. QED
    BY <2>2, <2>3
<1>4. CASE SetupSigPipe \/ SignalsDone \/ EndBatch
  <2>1. UNCHANGED <<batch, sigbuf, sigpipe, sigpend, ready>>
    BY <1>4 DEF SetupSigPipe, SignalsDone, EndBatch, wakeVars
  <2>2. QED
    BY <2>1, NotedKept
<1>5. CASE PollReturns
  <2>1. /\ UNCHANGED <<sigpipe, sigpend, sigbuf>> /\ ppc = "poll"
        /\ \A e \in ready \cap ReadableSources : \E i \in DOMAIN batch' : batch'[i] = e
    BY <1>5 DEF PollReturns
  <2>2. batch = <<>> /\ ~InSeq("sig", <<>>)
    BY <2>1 DEF ParentPlaces, InSeq
  <2>3. InSeq(s, sigpipe) => "sig" \in ReadableSources
    BY DEF InSeq, ReadableSources
  <2>4. InSeq(s, sigpipe) /\ "sig" \in ready => InSeq("sig", batch')
    BY <2>1, <2>3 DEF InSeq
  <2>5. QED
    BY <2>1, <2>2, <2>4 DEF Noted
<1>6. CASE Dispatch
  <2>1. UNCHANGED <<sigpipe, sigpend, sigbuf, ready>> /\ batch # <<>> /\ Head(batch) = "listen"
    BY <1>6 DEF Dispatch, wakeVars
  <2>2. CASE batch' = Tail(batch)
    <3>1. InSeq("sig", batch) => InSeq("sig", batch')
      BY <1>0, <2>1, <2>2, TailKeepsOthers DEF ParentType
    <3>2. QED
      BY <2>1, <3>1 DEF Noted
  <2>3. CASE ~ \E k \in K : m_pid[k]
    BY <1>6, <2>3
  <2>4. QED
    BY <1>6, <2>2, <2>3 DEF Dispatch
<1>7. CASE ReadSignals
  <2>1. sigbuf' = sigpipe /\ sigpend' = sigpend /\ ppc = "batch"
    BY <1>7 DEF ReadSignals
  <2>2. sigbuf = <<>> /\ ~InSeq(s, <<>>)
    BY <2>1 DEF ParentPlaces, InSeq
  <2>3. QED
    BY <2>1, <2>2 DEF Noted
<1>8. CASE HandleSigchld
  <2>1. /\ UNCHANGED <<sigpipe, sigpend, ready, batch>>
        /\ sigbuf # <<>> /\ Head(sigbuf) = "CHLD" /\ sigbuf' = Tail(sigbuf)
    BY <1>8 DEF HandleSigchld, TakeSignal, wakeVars
  <2>2. CASE s = "TERM"
    <3>1. InSeq(s, sigbuf) => InSeq(s, sigbuf')
      BY <1>0, <2>1, <2>2, TailKeepsOthers DEF ParentType
    <3>2. QED
      BY <2>1, <3>1 DEF Noted
  <2>3. QED
    BY <1>8, <2>2 DEF Signal
<1>9. CASE KillChildren
  <2>1. /\ UNCHANGED <<sigpipe, ready, batch>> /\ sigpend \subseteq sigpend'
        /\ sigbuf # <<>> /\ Head(sigbuf) = "TERM" /\ sigbuf' = Tail(sigbuf)
    BY <1>9, DieNotes DEF KillChildren, TakeSignal
  <2>2. CASE s = "CHLD"
    <3>1. InSeq(s, sigbuf) => InSeq(s, sigbuf')
      BY <1>0, <2>1, <2>2, TailKeepsOthers DEF ParentType
    <3>2. QED
      BY <2>1, <3>1 DEF Noted
  <2>3. QED
    BY <1>9, <2>2 DEF Signal
<1>10. ASSUME NEW k \in K, Crash(k) \/ ChildStep(k)
       PROVE  Noted(s)'
  <2>1. UNCHANGED <<batch, sigbuf, sigpipe, ready>>
    BY <1>10 DEF Crash, ChildStep, ChildSetup, ChildPoll, ChildAccept, ChildSignal, ChildEndBatch,
                 parentVars, wakeVars
  <2>2. sigpend \subseteq sigpend'
    BY <1>10, DieNotes DEF Crash, ChildStep, ChildSetup, ChildPoll, ChildAccept, ChildSignal,
                           ChildEndBatch, wakeVars
  <2>3. QED
    BY <2>1, <2>2, NotedKept
<1>11. CASE UNCHANGED vars
  <2>1. UNCHANGED <<batch, sigbuf, sigpipe, sigpend, ready>>
    BY <1>11 DEF vars, parentVars, wakeVars
  <2>2. QED
    BY <2>1, NotedKept
<1>12. QED
  BY <1>1, <1>2, <1>3, <1>4, <1>5, <1>6, <1>7, <1>8, <1>9, <1>10, <1>11 DEF Next, ParentStep, Signal

LEMMA PlacesStep == ParentPlaces /\ EmptyMeansStop /\ [Next]_vars => ParentPlaces'
<1> SUFFICES ASSUME ParentPlaces, EmptyMeansStop, [Next]_vars PROVE ParentPlaces'
  OBVIOUS
<1> USE DEF ParentPlaces
<1>1. CASE Connect \/ Term
  BY <1>1 DEF Connect, Term, parentVars
<1>2. ASSUME NEW s \in Signal, SigHandler(s)
      PROVE  ParentPlaces'
  BY <1>2 DEF SigHandler, parentVars, counters
<1>3. CASE SetupSigPipe \/ PollReturns \/ Dispatch \/ ReadSignals
  BY <1>3 DEF SetupSigPipe, PollReturns, Dispatch, ReadSignals, wakeVars, counters
<1>4. CASE HandleSigchld \/ KillChildren
  BY <1>4 DEF HandleSigchld, KillChildren, TakeSignal, wakeVars, counters
<1>5. CASE SignalsDone \/ EndBatch
  BY <1>5 DEF SignalsDone, EndBatch, wakeVars, counters
<1>6. ASSUME NEW k \in K, Crash(k) \/ ChildStep(k)
      PROVE  ParentPlaces'
  <2>1. UNCHANGED <<ppc, batch, sigbuf, sigpipe, terms>> /\ (ppc = "setup" => sigpend' = sigpend)
    BY <1>6 DEF Crash, ChildStep, ChildSetup, ChildPoll, ChildAccept, ChildSignal, ChildEndBatch,
                parentVars, wakeVars, counters, Die
  <2>2. QED
    BY <2>1
<1>7. CASE UNCHANGED vars
  BY <1>7 DEF vars, parentVars, wakeVars, counters
<1>8. QED
  BY <1>1, <1>2, <1>3, <1>4, <1>5, <1>6, <1>7 DEF Next, ParentStep, Signal

\* No event of a signal is lost.
LEMMA EventStep == IInv /\ ParentPlaces /\ EventComes /\ [Next]_vars => EventComes'
<1> SUFFICES ASSUME IInv, ParentPlaces, EventComes, [Next]_vars PROVE EventComes'
  OBVIOUS
<1> USE DEF EventComes
<1>0. ParentType
  BY DEF IInv, Types
<1>1. CASE /\ UNCHANGED <<sigpipe, batch>> /\ ready \subseteq ready'
           /\ \A k \in K : m_pid'[k] => m_pid[k]
  BY <1>1
<1>2. CASE Connect \/ Term \/ UNCHANGED vars
  BY <1>1, <1>2 DEF Connect, Term, vars, parentVars, wakeVars
<1>3. ASSUME NEW s \in Signal, SigHandler(s)
      PROVE  EventComes'
  BY <1>1, <1>3 DEF SigHandler, parentVars
<1>4. CASE SetupSigPipe \/ SignalsDone \/ EndBatch
  BY <1>1, <1>4 DEF SetupSigPipe, SignalsDone, EndBatch, wakeVars
<1>5. CASE PollReturns
  <2>1. /\ UNCHANGED <<sigpipe, m_pid>> /\ ppc = "poll"
        /\ \A e \in ready \cap ReadableSources : \E i \in DOMAIN batch' : batch'[i] = e
    BY <1>5 DEF PollReturns
  <2>2. ~InSeq("sig", batch)
    BY <2>1 DEF ParentPlaces, InSeq
  <2>3. sigpipe # <<>> => "sig" \in ReadableSources
    BY DEF ReadableSources
  <2>4. QED
    BY <2>1, <2>2, <2>3 DEF InSeq
<1>6. CASE Dispatch
  <2>1. /\ UNCHANGED <<sigpipe, m_pid, ready>> /\ batch # <<>> /\ Head(batch) = "listen"
        /\ (\E k \in K : m_pid[k]) => batch' = Tail(batch)
    BY <1>6 DEF Dispatch, wakeVars
  <2>2. InSeq("sig", batch) => InSeq("sig", Tail(batch))
    BY <1>0, <2>1, TailKeepsOthers DEF ParentType
  <2>3. QED
    BY <2>1, <2>2
<1>7. CASE ReadSignals
  BY <1>7 DEF ReadSignals
<1>8. CASE HandleSigchld
  <2>1. UNCHANGED <<sigpipe, batch, ready>> /\ \A k \in K : m_pid'[k] => m_pid[k]
    BY <1>8 DEF HandleSigchld, wakeVars
  <2>2. QED
    BY <1>1, <2>1
<1>9. CASE KillChildren
  BY <1>1, <1>9 DEF KillChildren
<1>10. ASSUME NEW k \in K, Crash(k) \/ ChildStep(k)
       PROVE  EventComes'
  BY <1>1, <1>10 DEF Crash, ChildStep, ChildSetup, ChildPoll, ChildAccept, ChildSignal, ChildEndBatch,
                     parentVars, wakeVars
<1>11. QED
  BY <1>2, <1>3, <1>4, <1>5, <1>6, <1>7, <1>8, <1>9, <1>10 DEF Next, ParentStep, Signal

LEMMA EmptyStep == EmptyMeansStop /\ [Next]_vars => EmptyMeansStop'
<1> SUFFICES ASSUME EmptyMeansStop, [Next]_vars PROVE EmptyMeansStop'
  OBVIOUS
<1> USE DEF EmptyMeansStop
<1>1. CASE UNCHANGED <<m_pid, m_stop, ppc>>
  BY <1>1
<1>2. CASE Connect \/ Term \/ UNCHANGED vars
  BY <1>1, <1>2 DEF Connect, Term, vars, parentVars
<1>3. ASSUME NEW s \in Signal, SigHandler(s)
      PROVE  EmptyMeansStop'
  BY <1>1, <1>3 DEF SigHandler, parentVars
<1>4. CASE SetupSigPipe \/ PollReturns \/ ReadSignals \/ SignalsDone \/ EndBatch
  BY <1>4 DEF SetupSigPipe, PollReturns, ReadSignals, SignalsDone, EndBatch
<1>5. CASE Dispatch
  BY <1>5 DEF Dispatch
<1>6. CASE HandleSigchld
  <2>1. ppc' = "sigs" /\ m_stop' = (\A k \in K : ~m_pid'[k])
    BY <1>6 DEF HandleSigchld, TakeSignal
  <2>2. QED
    BY <2>1
<1>7. CASE KillChildren
  BY <1>1, <1>7 DEF KillChildren
<1>8. ASSUME NEW k \in K, Crash(k) \/ ChildStep(k)
      PROVE  EmptyMeansStop'
  BY <1>1, <1>8 DEF Crash, ChildStep, ChildSetup, ChildPoll, ChildAccept, ChildSignal, ChildEndBatch,
                    parentVars
<1>9. QED
  BY <1>2, <1>3, <1>4, <1>5, <1>6, <1>7, <1>8 DEF Next, ParentStep, Signal

LEMMA ToldStep == IInv /\ ChildrenTold /\ [Next]_vars => ChildrenTold'
<1> SUFFICES ASSUME IInv, ChildrenTold, [Next]_vars PROVE ChildrenTold'
  OBVIOUS
<1> USE DEF ChildrenTold
<1>0. ChildType /\ CountType /\ Deaths
  BY DEF IInv, Types
<1>1. CASE UNCHANGED <<cpc, csig, cstop, cbatch>> /\ \A k \in K : cready[k] \subseteq cready'[k]
  BY <1>1
<1>2. CASE Connect \/ Term \/ UNCHANGED vars
  BY <1>1, <1>2 DEF Connect, Term, vars, childVars
<1>3. ASSUME NEW s \in Signal, SigHandler(s)
      PROVE  ChildrenTold'
  BY <1>1, <1>3 DEF SigHandler, childVars
<1>4. CASE SetupSigPipe \/ PollReturns \/ ReadSignals \/ SignalsDone \/ EndBatch
  BY <1>1, <1>4 DEF SetupSigPipe, PollReturns, ReadSignals, SignalsDone, EndBatch, childVars
<1>5. CASE Dispatch
  <2>1. UNCHANGED <<cpc, csig, cstop, cbatch>>
    BY <1>5 DEF Dispatch
  <2>2. \A k \in K : cready[k] \subseteq cready'[k]
    BY <1>0, <1>5 DEF Dispatch, SendTo, ChildType
  <2>3. QED
    BY <1>1, <2>1, <2>2
<1>6. CASE HandleSigchld
  <2>1. UNCHANGED <<csig, cstop, cbatch, cready>>
        /\ cpc' = [k \in K |-> IF cpc[k] = "zombie" THEN "gone" ELSE cpc[k]]
    BY <1>6 DEF HandleSigchld
  <2>2. QED
    BY <2>1
<1>7. CASE KillChildren
  <2>1. UNCHANGED <<cstop, cbatch>>
    BY <1>7 DEF KillChildren
  <2>2. ASSUME NEW k \in K
        PROVE  /\ cpc'[k] = IF m_pid[k] /\ cpc[k] = "born" THEN "zombie" ELSE cpc[k]
               /\ csig'[k] <=> csig[k] \/ (m_pid[k] /\ cpc[k] \in {"poll", "batch"})
               /\ cready[k] \subseteq cready'[k]
               /\ m_pid[k] /\ cpc[k] \in {"poll", "batch"} => "sig" \in cready'[k]
    BY <1>7 DEF KillChildren
  <2>3. \A k \in K : m_pid[k] <=> cpc[k] # "gone"
    BY <1>0 DEF Deaths, PidsAreChildren
  <2>4. QED
    BY <2>1, <2>2, <2>3
<1>8. ASSUME NEW k \in K, Crash(k) \/ ChildSetup(k)
      PROVE  ChildrenTold'
  <2>1. /\ UNCHANGED <<csig, cstop, cbatch, cready>>
        /\ \/ cpc' = [cpc EXCEPT ![k] = "zombie"]
           \/ cpc[k] = "born" /\ cpc' = [cpc EXCEPT ![k] = "poll"]
    BY <1>8 DEF Crash, ChildSetup
  <2>2. QED
    BY <1>0, <2>1 DEF ChildType
<1>9. ASSUME NEW k \in K, ChildPoll(k)
      PROVE  ChildrenTold'
  <2>1. /\ UNCHANGED <<csig, cstop>> /\ cpc[k] = "poll"
        /\ cpc' = [cpc EXCEPT ![k] = "batch"]
        /\ \A j \in K \ {k} : cbatch'[j] = cbatch[j] /\ cready'[j] = cready[j]
        /\ csig[k] /\ "sig" \in cready[k] => "sig" \in cbatch'[k]
    BY <1>0, <1>9 DEF ChildPoll, ChildType
  <2>2. QED
    BY <1>0, <2>1 DEF ChildType
<1>10. ASSUME NEW k \in K, ChildAccept(k) \/ ChildSignal(k) \/ ChildEndBatch(k)
       PROVE  ChildrenTold'
  <2>1. CASE ChildAccept(k)
    <3>1. /\ UNCHANGED <<csig, cstop, cpc, cready>> /\ cpc[k] = "batch"
          /\ cbatch' = [cbatch EXCEPT ![k] = @ \ {"pipe"}]
      BY <2>1 DEF ChildAccept
    <3>2. QED
      BY <1>0, <3>1 DEF ChildType
  <2>2. CASE ChildSignal(k)
    <3>1. /\ UNCHANGED <<cpc, cready>> /\ cpc[k] = "batch"
          /\ cbatch' = [cbatch EXCEPT ![k] = @ \ {"sig"}]
          /\ csig' = [csig EXCEPT ![k] = FALSE] /\ cstop' = [cstop EXCEPT ![k] = TRUE]
      BY <2>2 DEF ChildSignal
    <3>2. QED
      BY <1>0, <3>1 DEF ChildType
  <2>3. CASE ChildEndBatch(k)
    <3>1. /\ UNCHANGED <<csig, cstop, cbatch, cready>> /\ cpc[k] = "batch" /\ cbatch[k] = {}
          /\ cpc' = [cpc EXCEPT ![k] = IF cstop[k] THEN "zombie" ELSE "poll"]
      BY <2>3 DEF ChildEndBatch
    <3>2. QED
      BY <1>0, <3>1 DEF ChildType
  <2>4. QED
    BY <1>10, <2>1, <2>2, <2>3
<1>11. QED
  BY <1>2, <1>3, <1>4, <1>5, <1>6, <1>7, <1>8, <1>9, <1>10 DEF Next, ParentStep, ChildStep, Signal

\* dropped is a history.
LEMMA DroppedKept ==
  ASSUME [Next]_vars
  PROVE  dropped \subseteq dropped'
BY DEF Next, Connect, Term, SigHandler, ParentStep, SetupSigPipe, PollReturns, Dispatch, ReadSignals,
       HandleSigchld, KillChildren, SignalsDone, EndBatch, Crash, ChildStep, ChildSetup, ChildPoll,
       ChildAccept, ChildSignal, ChildEndBatch, wakeVars, vars

LEMMA DeathsStep ==
  ASSUME IInv, ParentPlaces, EventComes, DeathsKnown, [Next]_vars
  PROVE  DeathsKnown'
<1> SUFFICES ASSUME ~lost', "CHLD" \notin dropped', ppc' # "stopped", Zombies' # {}
             PROVE  Noted("CHLD")'
  BY DEF DeathsKnown
<1>0. ChildType /\ Deaths /\ lost \in BOOLEAN
  BY DEF IInv, Types, WakeType
\* A step that makes no zombies and takes no SIGCHLD.
<1>1. CASE ~lost /\ ppc # "stopped" /\ Zombies # {}
  <2>0. "CHLD" \notin dropped
    BY DroppedKept
  <2>1. Noted("CHLD")
    BY <1>1, <2>0 DEF DeathsKnown
  <2>2. ~HandleSigchld
    <3>1. HandleSigchld => Zombies' = {}
      BY DEF HandleSigchld, Zombies
    <3>2. QED
      BY <3>1
  <2>3. ~ \A k \in K : ~m_pid[k]
    BY <1>0, <1>1 DEF Deaths, PidsAreChildren, Zombies
  <2>4. QED
    BY <2>1, <2>2, <2>3, NotedStep DEF Signal
<1>2. ASSUME NEW D, Die(D), D # {}, ppc' = ppc
      PROVE  Noted("CHLD")'
  <2>1. "CHLD" \in sigpend'
    BY <1>2, DieNotes
  <2>2. QED
    BY <2>1 DEF Noted
<1>3. CASE lost = lost' /\ (ppc = "stopped" => ppc' = "stopped") /\ Zombies' \subseteq Zombies
  BY <1>1, <1>3
<1>4. CASE Connect \/ Term \/ UNCHANGED vars
  BY <1>3, <1>4 DEF Connect, Term, vars, parentVars, childVars, wakeVars, Zombies
<1>5. ASSUME NEW s \in Signal, SigHandler(s)
      PROVE  Noted("CHLD")'
  BY <1>3, <1>5 DEF SigHandler, parentVars, childVars, Zombies
<1>6. CASE SetupSigPipe \/ PollReturns \/ Dispatch \/ ReadSignals \/ SignalsDone \/ EndBatch
  <2>1. lost' = lost /\ ppc # "stopped" /\ cpc' = cpc
    BY <1>6 DEF SetupSigPipe, PollReturns, Dispatch, ReadSignals, SignalsDone, EndBatch, wakeVars, childVars
  <2>2. QED
    BY <1>3, <2>1 DEF Zombies
<1>7. CASE HandleSigchld
  BY <1>7 DEF HandleSigchld, Zombies
<1>8. CASE KillChildren
  <2>1. PICK D : Die(D) /\ cpc' = [k \in K |-> IF k \in D THEN "zombie" ELSE cpc[k]]
    BY <1>8 DEF KillChildren
  <2>2. ppc' = ppc
    BY <1>8 DEF KillChildren
  <2>3. CASE D = {}
    <3>1. lost' = lost /\ Zombies' = Zombies
      BY <1>0, <2>1, <2>3 DEF Die, Zombies
    <3>2. QED
      BY <1>3, <2>2, <3>1
  <2>4. QED
    BY <1>2, <2>1, <2>2, <2>3
<1>9. ASSUME NEW k \in K, Crash(k)
      PROVE  Noted("CHLD")'
  BY <1>2, <1>9 DEF Crash, parentVars
<1>10. ASSUME NEW k \in K, ChildStep(k)
       PROVE  Noted("CHLD")'
  <2>1. CASE ChildEndBatch(k) /\ cstop[k]
    BY <1>2, <2>1 DEF ChildEndBatch, parentVars
  <2>2. CASE ~(ChildEndBatch(k) /\ cstop[k])
    <3>1. lost' = lost /\ ppc' = ppc
      BY <1>0, <1>10, <2>2 DEF ChildStep, ChildSetup, ChildPoll, ChildAccept, ChildSignal,
                               ChildEndBatch, parentVars, wakeVars, Die
    <3>2. \/ cpc' = cpc
          \/ \E place \in {"poll", "batch"} : cpc' = [cpc EXCEPT ![k] = place]
      BY <1>10, <2>2 DEF ChildStep, ChildSetup, ChildPoll, ChildAccept, ChildSignal, ChildEndBatch
    <3>3. Zombies' \subseteq Zombies
      BY <1>0, <3>2 DEF Zombies, ChildType
    <3>4. QED
      BY <1>3, <3>1, <3>3
  <2>3. QED
    BY <2>1, <2>2
<1>11. QED
  BY <1>4, <1>5, <1>6, <1>7, <1>8, <1>9, <1>10 DEF Next, ParentStep, Signal

-----------------------------------------------------------------------------
\* Who was told to end does not forget it, and nobody is forked any more.
LEMMA DoomedStep == IInv /\ Doomed /\ [Next]_vars => Doomed'
<1> SUFFICES ASSUME IInv, Doomed, [Next]_vars PROVE Doomed'
  OBVIOUS
<1> USE DEF Doomed
<1>0. ChildType
  BY DEF IInv, Types
<1>1. ASSUME \A k \in K : /\ Alive(k)' => Alive(k)
                          /\ cstop[k] => cstop'[k]
                          /\ csig[k] => csig'[k] \/ cstop'[k]
      PROVE  Doomed'
  BY <1>1
<1>2. CASE UNCHANGED <<cpc, cstop, csig>>
  BY <1>1, <1>2 DEF Alive
<1>3. CASE Connect \/ Term \/ UNCHANGED vars
  BY <1>2, <1>3 DEF Connect, Term, vars, childVars
<1>4. ASSUME NEW s \in Signal, SigHandler(s)
      PROVE  Doomed'
  BY <1>2, <1>4 DEF SigHandler, childVars
<1>5. CASE SetupSigPipe \/ PollReturns \/ Dispatch \/ ReadSignals \/ SignalsDone \/ EndBatch
  BY <1>2, <1>5 DEF SetupSigPipe, PollReturns, Dispatch, ReadSignals, SignalsDone, EndBatch, childVars
<1>6. CASE HandleSigchld
  BY <1>1, <1>6 DEF HandleSigchld, Alive
<1>7. CASE KillChildren
  BY <1>1, <1>7 DEF KillChildren, Alive
<1>8. ASSUME NEW k \in K, Crash(k)
      PROVE  Doomed'
  BY <1>0, <1>1, <1>8 DEF Crash, Alive, ChildType
<1>9. ASSUME NEW k \in K, ChildStep(k)
      PROVE  Doomed'
  <2>1. CASE ChildSignal(k)
    BY <1>0, <1>1, <2>1 DEF ChildSignal, Alive, ChildType
  <2>2. CASE ChildSetup(k) \/ ChildPoll(k) \/ ChildAccept(k) \/ ChildEndBatch(k)
    <3>1. UNCHANGED <<cstop, csig>> /\ cpc[k] \in {"born", "poll", "batch"}
          /\ \A j \in K \ {k} : cpc'[j] = cpc[j]
      BY <1>0, <2>2 DEF ChildSetup, ChildPoll, ChildAccept, ChildEndBatch, ChildType
    <3>2. QED
      BY <1>1, <3>1 DEF Alive
  <2>3. QED
    BY <1>9, <2>1, <2>2 DEF ChildStep
<1>10. QED
  BY <1>3, <1>4, <1>5, <1>6, <1>7, <1>8, <1>9 DEF Next, ParentStep, Signal

\* The SIGTERM the parent has read reaches every child that is left: one that has
\* no handler yet dies, the others have it in their pipes.
LEMMA KillDooms == IInv /\ KillChildren => Doomed'
<1> SUFFICES ASSUME IInv, KillChildren, NEW k \in K, Alive(k)'
             PROVE  csig'[k]
  BY DEF Doomed
<1>1. /\ cpc'[k] = IF m_pid[k] /\ cpc[k] = "born" THEN "zombie" ELSE cpc[k]
      /\ csig'[k] = (csig[k] \/ (m_pid[k] /\ cpc[k] \in {"poll", "batch"}))
  BY DEF KillChildren
<1>2. m_pid[k] <=> cpc[k] # "gone"
  BY DEF IInv, Deaths, PidsAreChildren
<1>3. cpc[k] \in {"born", "poll", "batch", "zombie", "gone"}
  BY DEF IInv, Types, ChildType
<1>4. QED
  BY <1>1, <1>2, <1>3 DEF Alive

LEMMA TermKnownStep ==
  ASSUME IInv, ParentPlaces, EventComes, TermKnown, [Next]_vars
  PROVE  TermKnown'
<1> SUFFICES ASSUME terms' > 0, "TERM" \notin dropped', ppc' # "stopped"
             PROVE  Noted("TERM")' \/ Doomed'
  BY DEF TermKnown
<1>1. CASE Term
  BY <1>1 DEF Term, Noted
<1>2. CASE ~Term
  <2>1. terms' = terms
    BY <1>2 DEF Next, Connect, SigHandler, ParentStep, SetupSigPipe, PollReturns, Dispatch, ReadSignals,
                HandleSigchld, KillChildren, SignalsDone, EndBatch, Crash, ChildStep, ChildSetup,
                ChildPoll, ChildAccept, ChildSignal, ChildEndBatch, counters, vars
  <2>2. ppc # "stopped"
    <3>1. ppc = "stopped" => ppc' = ppc
      BY DEF Next, Connect, Term, SigHandler, ParentStep, SetupSigPipe, PollReturns, Dispatch,
             ReadSignals, HandleSigchld, KillChildren, TakeSignal, SignalsDone, EndBatch, Crash,
             ChildStep, ChildSetup, ChildPoll, ChildAccept, ChildSignal, ChildEndBatch, parentVars, vars
    <3>2. QED
      BY <3>1
  <2>3. CASE Doomed
    BY <2>3, DoomedStep
  <2>4. CASE Noted("TERM")
    <3>1. CASE KillChildren
      BY <3>1, KillDooms
    <3>2. CASE \A k \in K : ~m_pid[k]
      <4>1. \A k \in K : ~Alive(k)
        BY <3>2 DEF IInv, Deaths, PidsAreChildren, Alive
      <4>2. QED
        BY <4>1, DoomedStep DEF Doomed
    <3>3. QED
      BY <2>4, <3>1, <3>2, NotedStep DEF Signal
  <2>5. "TERM" \notin dropped
    BY DroppedKept
  <2>6. QED
    BY <2>1, <2>2, <2>3, <2>4, <2>5 DEF TermKnown
<1>3. QED
  BY <1>1, <1>2

LEMMA EndInvariance == Spec => []EndInv
<1>1. IInv /\ EndInv /\ [Next]_vars => EndInv'
  BY PlacesStep, EventStep, EmptyStep, ToldStep, DeathsStep, TermKnownStep DEF EndInv
<1>2. QED
  BY <1>1, EndInit, Invariance, PTL DEF Spec

(***************************************************************************)
(* No child dies unnoticed: as long as there is one that was not waited    *)
(* for, its SIGCHLD (or a later one, which serves as well) is pending, in  *)
(* the pipe with its event, or read.  SIGCHLDs that merge, m_stop taken    *)
(* back, a batch that Dispatch cuts short and a full pipe that holds       *)
(* another SIGCHLD lose none.                                              *)
(***************************************************************************)
THEOREM NoDeathMissed == Spec => []DeathsKnown
BY EndInvariance, PTL DEF EndInv

(***************************************************************************)
(* Once the parent has handled a SIGTERM, every child is dead, about to    *)
(* end, or has the signal in its pipe; and this stays so.                  *)
(***************************************************************************)
DoomsForGood == [][(KillChildren => Doomed') /\ (Doomed => Doomed')]_vars

THEOREM TermDoomsForGood == Spec => DoomsForGood
<1>1. IInv /\ [Next]_vars => [(KillChildren => Doomed') /\ (Doomed => Doomed')]_vars
  BY KillDooms, DoomedStep
<1>2. QED
  BY <1>1, Invariance, PTL DEF Spec, DoomsForGood

(***************************************************************************)
(* A pool that was sent a SIGTERM does not come to rest before it has      *)
(* stopped: a signal is pending, or the parent is not waiting or is to     *)
(* return from it, or so is a child.  (Unless a child died before the      *)
(* parent caught SIGCHLD, or a full pipe dropped a signal and held none of *)
(* its kind.)  What fairness has to add is only that these go on:          *)
(* TermStopsPool.                                                          *)
(***************************************************************************)
SomethingToDo ==
  \/ sigpend # {}
  \/ ppc # "poll" \/ (sigpipe # <<>> /\ "sig" \in ready)
  \/ \E k \in K : \/ cpc[k] \in {"born", "batch"}
                  \/ cpc[k] = "poll" /\ csig[k] /\ "sig" \in cready[k]

NoEarlyRest == terms > 0 /\ ~lost /\ dropped = {} /\ ppc # "stopped" => SomethingToDo

THEOREM NeverRestsEarly == Spec => []NoEarlyRest
<1>1. IInv /\ EndInv => NoEarlyRest
  <2> SUFFICES ASSUME IInv, EndInv, terms > 0, ~lost, dropped = {}, ppc = "poll"
               PROVE  SomethingToDo
    BY DEF NoEarlyRest, SomethingToDo
  <2>1. ~InSeq("CHLD", sigbuf) /\ ~InSeq("TERM", sigbuf) /\ ~InSeq("sig", batch)
    BY DEF EndInv, ParentPlaces, InSeq
  <2>2. ASSUME NEW s, Noted(s)
        PROVE  SomethingToDo
    BY <2>1, <2>2 DEF Noted, InSeq, SomethingToDo, EndInv, ParentPlaces
  <2>3. CASE Doomed
    <3>1. PICK k \in K : cpc[k] # "gone"
      BY DEF EndInv, EmptyMeansStop, IInv, Deaths, PidsAreChildren
    <3>2. CASE cpc[k] = "zombie"
      BY <2>2, <3>2 DEF EndInv, DeathsKnown, Zombies
    <3>3. CASE cpc[k] = "poll"
      <4>1. csig[k] /\ "sig" \in cready[k]
        BY <2>3, <3>3 DEF Doomed, Alive, EndInv, ChildrenTold
      <4>2. QED
        BY <3>3, <4>1 DEF SomethingToDo
    <3>4. CASE cpc[k] \in {"born", "batch"}
      BY <3>4 DEF SomethingToDo
    <3>5. QED
      BY <3>1, <3>2, <3>3, <3>4 DEF IInv, Types, ChildType
  <2>4. QED
    BY <2>2, <2>3 DEF EndInv, TermKnown
<1>2. QED
  BY <1>1, Invariance, EndInvariance, PTL
=============================================================================
