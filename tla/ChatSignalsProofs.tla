-------------------------- MODULE ChatSignalsProofs --------------------------
(***************************************************************************)
(* Proof that the chat server loses no death (DeathReported) and, unless   *)
(* the signal pipe is full, no SIGTERM, for any set of pids, any limits    *)
(* and any size of that pipe.                                              *)
(*                                                                         *)
(* A SIGCHLD travels from sigpend to sigpipe, from there with an edge in   *)
(* ready or batch to sigbuf, and from there to the waitpid loop.  Steps    *)
(* that leave all of that where it is are Bystanders; each other step      *)
(* moves one stage on.                                                     *)
(***************************************************************************)
EXTENDS ChatServerProofs, SequenceTheorems, FiniteSetTheorems

Signal == {"CHLD", "TERM"}

SigTypeOK ==
  /\ ppc \in {"poll", "batch", "sigs", "reap", "stopped"}
  /\ sigpipe \in Seq(Signal)
  /\ sigbuf \in Seq(Signal)
  /\ lost \in BOOLEAN

\* signals[] is empty and no event is left where the loop starts over.
LoopShape ==
  /\ ppc = "poll" => batch = {}
  /\ ppc \in {"poll", "batch"} => sigbuf = <<>>

SigInv == SigTypeOK /\ LoopShape /\ DeathReported

SomeDead == \E p \in Pid : cpc[p] = "zombie"

\* A step that moves no signal on, and reports the death it may bring.
Bystander ==
  /\ UNCHANGED <<ppc, lost, sigpipe, sigbuf>>
  /\ sigpend \subseteq sigpend'
  /\ "sig" \in ready \cup batch => "sig" \in ready' \cup batch'
  /\ ppc = "poll" => batch' = batch
  /\ SomeDead' => SomeDead \/ "CHLD" \in sigpend' \/ ppc = "stopped"

LEMMA BystanderSigInv ==
  ASSUME SigInv, Bystander
  PROVE  SigInv'
<1>1. SigTypeOK' /\ LoopShape'
  BY DEF SigInv, SigTypeOK, LoopShape, Bystander
<1>2. DeathReported'
  BY DEF SigInv, Bystander, DeathReported, SomeDead, InSeq
<1>3. QED
  BY <1>1, <1>2 DEF SigInv

-----------------------------------------------------------------------------
\* Whatever a child does, it does not die without a SIGCHLD.
LEMMA ChildStepIsBystander ==
  ASSUME LoopTypeOK, NEW p \in Pid, ChildStep(p)
  PROVE  Bystander
<1> USE DEF Bystander, SomeDead, LoopTypeOK
<1>1. CASE ChildLoop(p)
  <2>1. UNCHANGED <<ppc, lost, sigpipe, sigbuf, sigpend, ready, batch>>
    BY <1>1 DEF ChildLoop, Unnoticed, parentVars, pollVars, sigVars
  <2>2. \A q \in Pid : cpc'[q] = "zombie" => cpc[q] = "zombie"
    BY <1>1 DEF ChildLoop, C!CloseInherited, C!InstallHandler, C!CheckStop, C!EnterWait,
                C!WaitReturns, C!WipeSegment, C!Relay, C!EndBatch
  <2>3. QED
    BY <2>1, <2>2
<1>2. CASE RecvFromClient(p)
  <2>1. cpc' = [cpc EXCEPT ![p] = "handle"]
    BY <1>2 DEF RecvFromClient, C!RecvFromClient
  <2>2. UNCHANGED <<ppc, lost, sigpipe, sigbuf, sigpend, batch>> /\ ready \subseteq ready'
    BY <1>2 DEF RecvFromClient, sigVars
  <2>3. QED
    BY <2>1, <2>2
<1>3. CASE Exit(p)
  <2>1. UNCHANGED <<ppc, lost, sigpipe, sigbuf, batch>> /\ ready \subseteq ready'
    BY <1>3 DEF Exit
  <2>2. sigpend \subseteq sigpend' /\ ("CHLD" \in sigpend' \/ ppc = "stopped")
    BY <1>3 DEF Exit
  <2>3. QED
    BY <2>1, <2>2
<1>4. CASE HangUp(p)
  BY <1>4 DEF HangUp, C!HangUp, Unnoticed, parentVars, pollVars, sigVars
<1>5. QED
  BY <1>1, <1>2, <1>3, <1>4 DEF ChildStep

LEMMA EnvironmentIsBystander ==
  ASSUME Environment
  PROVE  Bystander
<1> USE DEF Bystander, SomeDead
<1>1. CASE Connect
  BY <1>1 DEF Connect, childVars, loopVars, sigVars
<1>2. ASSUME NEW p \in Pid, ClientSends(p) PROVE Bystander
  BY <1>2 DEF ClientSends, C!ClientSend, parentVars, pollVars, sigVars
<1>3. ASSUME NEW p \in Pid, ClientCloses(p) PROVE Bystander
  BY <1>3 DEF ClientCloses, C!ClientClose, parentVars, pollVars, sigVars
<1>4. CASE Term
  BY <1>4 DEF Term, childVars, loopVars, pollVars
<1>5. QED
  BY <1>1, <1>2, <1>3, <1>4 DEF Environment

\* An event that is not the one on sig_pipefd, and the death of a child taken
\* note of, leave that event where it is: no pid is taken for it.
LEMMA EventIsBystander ==
  ASSUME LoopTypeOK,
         AcceptFails \/ TooManyUsers \/ ForkFails
         \/ \E p \in Pid : AcceptClient(p) \/ Broadcast(p) \/ Reap(p)
  PROVE  Bystander
<1> USE DEF Bystander, SomeDead, LoopTypeOK
<1>0. \A p \in Pid : p # "sig"
  BY ChatServerAssumption
<1>1. CASE AcceptFails
  BY <1>1 DEF AcceptFails, TakeEvent, childVars, loopVars, sigVars
<1>2. CASE TooManyUsers
  BY <1>2 DEF TooManyUsers, TakeEvent, childVars, loopVars, sigVars
<1>3. CASE ForkFails
  BY <1>3 DEF ForkFails, TakeEvent, childVars, loopVars, sigVars
<1>4. ASSUME NEW p \in Pid, AcceptClient(p) PROVE Bystander
  <2>1. cpc' = [cpc EXCEPT ![p] = "forked"]
    BY <1>4 DEF AcceptClient, C!Fork
  <2>2. UNCHANGED <<ppc, ready, sigpend, sigpipe, sigbuf, lost>>
        /\ ppc # "poll" /\ batch' = batch \ {"listen"}
    BY <1>4 DEF AcceptClient, TakeEvent, sigVars
  <2>3. QED
    BY <2>1, <2>2
<1>5. ASSUME NEW p \in Pid, Broadcast(p) PROVE Bystander
  BY <1>0, <1>5 DEF Broadcast, TakeEvent, sigVars
<1>6. ASSUME NEW p \in Pid, Reap(p) PROVE Bystander
  <2>1. cpc' = [cpc EXCEPT ![p] = "none"]
    BY <1>6 DEF Reap, C!Reap
  <2>2. UNCHANGED <<ppc, batch, sigpend, sigpipe, sigbuf, lost>> /\ ready' = ready \ {p}
    BY <1>6 DEF Reap, sigVars
  <2>3. QED
    BY <1>0, <2>1, <2>2
<1>7. QED
  BY <1>1, <1>2, <1>3, <1>4, <1>5, <1>6

-----------------------------------------------------------------------------
(***************************************************************************)
(* Putting signals into the pipe keeps those that are in it; a signal that *)
(* changes the pipe is in it afterwards.                                   *)
(***************************************************************************)
LEMMA PutSignalsKeeps ==
  ASSUME sigpipe \in Seq(Signal), NEW k \in Nat, NEW s \in Signal
  PROVE  /\ PutSignals(k, s) \in Seq(Signal)
         /\ \A t : InSeq(t, sigpipe) => InSeq(t, PutSignals(k, s))
         /\ PutSignals(k, s) # sigpipe => InSeq(s, PutSignals(k, s))
<1> DEFINE fit == IF Len(sigpipe) + k <= SigPipeCap THEN k ELSE SigPipeCap - Len(sigpipe)
           new == [i \in 1 .. fit |-> s]
<1>1. PutSignals(k, s) = sigpipe \o new
  BY DEF PutSignals
<1>2. Len(sigpipe) \in Nat /\ DOMAIN sigpipe = 1 .. Len(sigpipe) /\ fit \in Int
  BY LenProperties, ChatServerAssumption
<1> HIDE DEF fit
<1>3. new \in Seq(Signal) /\ (fit > 0 => Len(new) = fit)
  <2>1. CASE fit > 0
    <3>1. fit \in Nat
      BY <1>2, <2>1
    <3>2. QED
      BY <2>1, <3>1
  <2>2. CASE ~(fit > 0)
    <3>1. 1 .. fit = {}
      BY <1>2, <2>2
    <3>2. new = <<>>
      BY <3>1
    <3>3. new \in Seq(Signal)
      BY <3>2, EmptySeq
    <3>4. QED
      BY <2>2, <3>3
  <2>3. QED
    BY <2>1, <2>2
<1> HIDE DEF new
<1>4. /\ sigpipe \o new \in Seq(Signal)
      /\ Len(sigpipe \o new) = Len(sigpipe) + Len(new)
      /\ \A i \in 1 .. Len(sigpipe) + Len(new) : (sigpipe \o new)[i] =
                 IF i <= Len(sigpipe) THEN sigpipe[i] ELSE new[i - Len(sigpipe)]
  BY <1>3, ConcatProperties
<1>5. DOMAIN (sigpipe \o new) = 1 .. Len(sigpipe) + Len(new) /\ Len(new) \in Nat
  BY <1>3, <1>4, LenProperties
<1>6. ASSUME NEW t, InSeq(t, sigpipe)
      PROVE  InSeq(t, sigpipe \o new)
  <2>1. PICK j \in 1 .. Len(sigpipe) : sigpipe[j] = t
    BY <1>2, <1>6 DEF InSeq
  <2>2. j \in DOMAIN (sigpipe \o new) /\ (sigpipe \o new)[j] = t
    BY <1>2, <1>4, <1>5, <2>1
  <2>3. QED
    BY <2>2 DEF InSeq
<1>7. ASSUME sigpipe \o new # sigpipe
      PROVE  InSeq(s, sigpipe \o new)
  <2>1. new # <<>>
    BY <1>7, ConcatEmptySeq
  <2>2. fit > 0
    <3>1. CASE ~(fit > 0)
      <4>1. 1 .. fit = {}
        BY <1>2, <3>1
      <4>2. new = <<>>
        BY <4>1 DEF new
      <4>3. QED
        BY <2>1, <4>2
    <3>2. QED
      BY <3>1
  <2>3. new[1] = s /\ Len(new) = fit
    BY <1>2, <1>3, <2>2 DEF new
  <2>4. (sigpipe \o new)[Len(sigpipe) + 1] = s /\ Len(sigpipe) + 1 \in DOMAIN (sigpipe \o new)
    BY <1>2, <1>4, <1>5, <2>2, <2>3
  <2>5. QED
    BY <2>4 DEF InSeq
<1>8. QED
  BY <1>1, <1>4, <1>6, <1>7

\* Taking the first of signals[] leaves the others in it.
LEMMA TailKeeps ==
  ASSUME NEW b \in Seq(Signal), b # <<>>, NEW s, InSeq(s, b), Head(b) # s
  PROVE  InSeq(s, Tail(b))
<1>1. PICK j \in 1 .. Len(b) : b[j] = s
  BY LenProperties DEF InSeq
<1>2. Len(b) \in Nat /\ j # 1 /\ Len(Tail(b)) = Len(b) - 1
  BY <1>1, LenProperties, HeadTailProperties
<1>3. j - 1 \in DOMAIN Tail(b) /\ Tail(b)[j - 1] = s
  BY <1>1, <1>2
<1>4. QED
  BY <1>3 DEF InSeq

-----------------------------------------------------------------------------
LEMMA SigHandlerSigInv ==
  ASSUME SigInv, NEW s \in Signal, SigHandler(s)
  PROVE  SigInv'
<1>1. /\ sigpipe' = PutSignals(1, s)
      /\ sigpipe' \in Seq(Signal)
      /\ \A t : InSeq(t, sigpipe) => InSeq(t, sigpipe')
      /\ sigpipe' # sigpipe => InSeq(s, sigpipe')
  BY PutSignalsKeeps DEF SigInv, SigTypeOK, SigHandler
<1>2. /\ sigpend' = sigpend \ {s}
      /\ ready' = IF sigpipe' # sigpipe THEN ready \cup {"sig"} ELSE ready
      /\ lost' = (lost \/ (s = "CHLD" /\ sigpipe' = sigpipe))
      /\ UNCHANGED <<cpc, ppc, batch, sigbuf>>
  BY DEF SigHandler, childVars, loopVars
<1>3. SigTypeOK' /\ LoopShape'
  BY <1>1, <1>2 DEF SigInv, SigTypeOK, LoopShape
<1>4. DeathReported'
  <2> SUFFICES ASSUME ppc' # "stopped", ~lost', \E p \in Pid : cpc'[p] = "zombie"
               PROVE  \/ "CHLD" \in sigpend'
                      \/ InSeq("CHLD", sigpipe') /\ "sig" \in ready' \cup batch'
                      \/ InSeq("CHLD", sigbuf')
                      \/ ppc' = "reap"
    BY DEF DeathReported
  <2>1. ~lost /\ (s = "CHLD" => sigpipe' # sigpipe)
    BY <1>2 DEF SigInv, SigTypeOK
  <2>2. \/ "CHLD" \in sigpend
        \/ InSeq("CHLD", sigpipe) /\ "sig" \in ready \cup batch
        \/ InSeq("CHLD", sigbuf)
        \/ ppc = "reap"
    BY <1>2, <2>1 DEF SigInv, DeathReported
  <2>3. CASE s = "CHLD"
    BY <1>1, <1>2, <2>1, <2>3
  <2>4. CASE s # "CHLD"
    BY <1>1, <1>2, <2>2, <2>4
  <2>5. QED
    BY <2>3, <2>4
<1>5. QED
  BY <1>3, <1>4 DEF SigInv

\* epoll_wait returns the edge on sig_pipefd whenever the pipe holds something.
LEMMA PollReturnsSigInv ==
  ASSUME SigInv, PollReturns
  PROVE  SigInv'
<1>1. InSeq("CHLD", sigpipe) => sigpipe # <<>>
  BY DEF InSeq
<1>2. /\ ppc = "poll" /\ ppc' = "batch"
      /\ batch' = ready \cap ReadableSources
      /\ UNCHANGED <<cpc, sigpend, sigpipe, sigbuf, lost>>
  BY DEF PollReturns, childVars, loopVars, sigVars
<1>3. batch = {} /\ sigbuf = <<>> /\ ~InSeq("CHLD", sigbuf)
  BY <1>2 DEF SigInv, LoopShape, InSeq
<1>4. InSeq("CHLD", sigpipe) /\ "sig" \in ready => "sig" \in batch'
  BY <1>1, <1>2 DEF ReadableSources
<1>5. SigTypeOK' /\ LoopShape'
  BY <1>2, <1>3 DEF SigInv, SigTypeOK, LoopShape
<1>6. DeathReported'
  BY <1>2, <1>3, <1>4 DEF SigInv, DeathReported, InSeq
<1>7. QED
  BY <1>5, <1>6 DEF SigInv

LEMMA EndBatchSigInv ==
  ASSUME SigInv, EndBatch
  PROVE  SigInv'
<1>1. /\ ppc = "batch" /\ ppc' \in {"stopped", "poll"} /\ batch = {}
      /\ UNCHANGED <<cpc, ready, batch, sigpend, sigpipe, sigbuf, lost>>
  BY DEF EndBatch, childVars, loopVars, pollVars, sigVars
<1>2. SigTypeOK' /\ LoopShape'
  BY <1>1 DEF SigInv, SigTypeOK, LoopShape
<1>3. DeathReported'
  BY <1>1 DEF SigInv, DeathReported, InSeq
<1>4. QED
  BY <1>2, <1>3 DEF SigInv

LEMMA ReadSignalsSigInv ==
  ASSUME SigInv, ReadSignals
  PROVE  SigInv'
<1>1. /\ ppc = "batch" /\ ppc' = "sigs" /\ sigbuf' = sigpipe /\ sigpipe' = <<>>
      /\ UNCHANGED <<cpc, sigpend, lost>>
  BY DEF ReadSignals, TakeEvent, childVars, loopVars
<1>2. sigbuf = <<>> /\ ~InSeq("CHLD", sigbuf)
  BY <1>1 DEF SigInv, LoopShape, InSeq
<1>3. SigTypeOK' /\ LoopShape'
  BY <1>1, EmptySeq DEF SigInv, SigTypeOK, LoopShape
<1>4. DeathReported'
  BY <1>1, <1>2 DEF SigInv, DeathReported, InSeq
<1>5. QED
  BY <1>3, <1>4 DEF SigInv

LEMMA HandleSigchldSigInv ==
  ASSUME SigInv, HandleSigchld
  PROVE  SigInv'
<1>1. /\ ppc' = "reap" /\ sigbuf # <<>> /\ sigbuf' = Tail(sigbuf)
      /\ UNCHANGED <<sigpipe, lost>>
  BY DEF HandleSigchld, TakeSignal
<1>2. SigTypeOK' /\ LoopShape'
  BY <1>1, HeadTailProperties DEF SigInv, SigTypeOK, LoopShape
<1>3. DeathReported'
  BY <1>1 DEF DeathReported
<1>4. QED
  BY <1>2, <1>3 DEF SigInv

\* The waitpid loop is left when no dead child is left.
LEMMA ReapDoneSigInv ==
  ASSUME SigInv, ReapDone
  PROVE  SigInv'
<1>1. /\ ppc' = "sigs"
      /\ \A p \in Pid : cpc'[p] # "zombie"
      /\ UNCHANGED <<sigpipe, sigbuf, lost>>
  BY DEF ReapDone, childVars, loopVars, sigVars
<1>2. SigTypeOK' /\ LoopShape'
  BY <1>1 DEF SigInv, SigTypeOK, LoopShape
<1>3. DeathReported'
  BY <1>1 DEF DeathReported
<1>4. QED
  BY <1>2, <1>3 DEF SigInv

LEMMA StopServerSigInv ==
  ASSUME SigInv, StopServer
  PROVE  SigInv'
<1>1. /\ ppc = "sigs" /\ sigbuf # <<>> /\ Head(sigbuf) = "TERM" /\ sigbuf' = Tail(sigbuf)
      /\ UNCHANGED <<cpc, ppc, ready, batch, sigpend, sigpipe, lost>>
  BY DEF StopServer, TakeSignal, childVars, loopVars, pollVars
<1>2. InSeq("CHLD", sigbuf) => InSeq("CHLD", sigbuf')
  BY <1>1, TailKeeps DEF SigInv, SigTypeOK
<1>3. SigTypeOK' /\ LoopShape'
  BY <1>1, HeadTailProperties DEF SigInv, SigTypeOK, LoopShape
<1>4. DeathReported'
  BY <1>1, <1>2 DEF SigInv, DeathReported, InSeq
<1>5. QED
  BY <1>3, <1>4 DEF SigInv

\* The children told to stop, of which those that still hold sig_pipefd send a
\* SIGTERM into it, are finitely many.
LEMMA EchoesAreFinite ==
  ASSUME IInv
  PROVE  Cardinality({p \in T!Listed : cpc[p] = "forked"}) \in Nat
<1>1. TP!TableOK /\ TP!IsFiniteSet(C!Unreaped)
  BY DEF IInv, TP!IInv
<1>2. IsFiniteSet(C!Unreaped)
  BY <1>1 DEF TP!IsFiniteSet, IsFiniteSet
<1>3. T!Listed \subseteq C!Unreaped
  BY <1>1 DEF T!Listed, TP!TableOK, TP!UsersAreChildren
<1>4. IsFiniteSet({p \in T!Listed : cpc[p] = "forked"})
  BY <1>2, <1>3, FS_Subset
<1>5. QED
  BY <1>4, FS_CardinalityType

LEMMA KillChildrenSigInv ==
  ASSUME IInv, SigInv, KillChildren
  PROVE  SigInv'
<1> DEFINE echoes == Cardinality({p \in T!Listed : cpc[p] = "forked"})
<1>1. /\ ppc = "sigs" /\ sigbuf # <<>> /\ Head(sigbuf) = "TERM" /\ sigbuf' = Tail(sigbuf)
      /\ sigpipe' = PutSignals(echoes, "TERM")
      /\ ready \subseteq ready'
      /\ UNCHANGED <<ppc, batch, sigpend, lost>>
  BY DEF KillChildren, TakeSignal
<1>2. \A p \in Pid : cpc'[p] = "zombie" => cpc[p] = "zombie"
  BY DEF KillChildren, C!Terminate
<1>3. echoes \in Nat
  BY EchoesAreFinite
<1> HIDE DEF echoes
<1>4. sigpipe' \in Seq(Signal) /\ (InSeq("CHLD", sigpipe) => InSeq("CHLD", sigpipe'))
  <2>1. "TERM" \in Signal /\ sigpipe \in Seq(Signal)
    BY DEF Signal, SigInv, SigTypeOK
  <2>2. QED
    BY <1>1, <1>3, <2>1, PutSignalsKeeps
<1>5. InSeq("CHLD", sigbuf) => InSeq("CHLD", sigbuf')
  BY <1>1, TailKeeps DEF SigInv, SigTypeOK
<1>6. SigTypeOK' /\ LoopShape'
  BY <1>1, <1>4, HeadTailProperties DEF SigInv, SigTypeOK, LoopShape
<1>7. DeathReported'
  BY <1>1, <1>2, <1>4, <1>5 DEF SigInv, DeathReported
<1>8. QED
  BY <1>6, <1>7 DEF SigInv

\* The loop over signals[] is left when the buffer has been worked through.
LEMMA SignalsDoneSigInv ==
  ASSUME SigInv, SignalsDone
  PROVE  SigInv'
<1>1. /\ ppc = "sigs" /\ ppc' = "batch" /\ sigbuf = <<>>
      /\ UNCHANGED <<cpc, ready, batch, sigpend, sigpipe, sigbuf, lost>>
  BY DEF SignalsDone, childVars, loopVars, pollVars, sigVars
<1>2. SigTypeOK' /\ LoopShape'
  BY <1>1 DEF SigInv, SigTypeOK, LoopShape
<1>3. DeathReported'
  BY <1>1 DEF SigInv, DeathReported, InSeq
<1>4. QED
  BY <1>2, <1>3 DEF SigInv

-----------------------------------------------------------------------------
LEMMA InitSigInv == Init => SigInv
<1> SUFFICES ASSUME Init PROVE SigInv
  OBVIOUS
<1>1. SigTypeOK /\ LoopShape
  BY EmptySeq DEF Init, SigTypeOK, LoopShape
<1>2. DeathReported
  BY DEF Init, C!Init, DeathReported
<1>3. QED
  BY <1>1, <1>2 DEF SigInv

LEMMA NextSigInv ==
  ASSUME IInv, SigInv, [Next]_vars
  PROVE  SigInv'
<1>0. LoopTypeOK
  BY DEF IInv
<1>1. CASE Environment
  BY <1>1, EnvironmentIsBystander, BystanderSigInv
<1>2. ASSUME NEW s \in {"CHLD", "TERM"}, SigHandler(s) PROVE SigInv'
  BY <1>2, SigHandlerSigInv DEF Signal
<1>3. CASE ParentStep
  BY <1>0, <1>3, EventIsBystander, BystanderSigInv, PollReturnsSigInv, EndBatchSigInv,
     ReadSignalsSigInv, HandleSigchldSigInv, ReapDoneSigInv, StopServerSigInv,
     KillChildrenSigInv, SignalsDoneSigInv DEF ParentStep
<1>4. ASSUME NEW p \in Pid, ChildStep(p) PROVE SigInv'
  BY <1>0, <1>4, ChildStepIsBystander, BystanderSigInv
<1>5. CASE UNCHANGED vars
  <2>1. Bystander
    BY <1>5 DEF vars, childVars, loopVars, parentVars, pollVars, sigVars, Bystander, SomeDead
  <2>2. QED
    BY <2>1, BystanderSigInv
<1>6. QED
  BY <1>1, <1>2, <1>3, <1>4, <1>5 DEF Next

\* However SIGCHLDs are merged, and however many children die between two rounds
\* of the loop, a dead child is still to be reported, unless the pipe was full.
THEOREM DeathIsReported == Spec => []DeathReported
<1>1. IInv /\ SigInv /\ [Next]_vars => SigInv'
  BY NextSigInv
<1>2. SigInv => DeathReported
  BY DEF SigInv
<1>3. QED
  BY <1>1, <1>2, InitSigInv, Invariance, PTL DEF Spec

-----------------------------------------------------------------------------
(***************************************************************************)
(* A SIGTERM takes the same way, and ends as terminate or stop_server.     *)
(***************************************************************************)
PipeReported == sigpipe # <<>> /\ ppc # "stopped" => "sig" \in ready \cup batch

TermKnown ==
  \/ "TERM" \in sigpend
  \/ InSeq("TERM", sigpipe)
  \/ InSeq("TERM", sigbuf)
  \/ terminate
  \/ stop_server

LEMMA PutSignalsFits ==
  ASSUME sigpipe \in Seq(Signal), NEW s \in Signal, Len(sigpipe) < SigPipeCap
  PROVE  PutSignals(1, s) # sigpipe
<1>1. Len(sigpipe) + 1 <= SigPipeCap /\ Len(sigpipe) \in Nat
  BY LenProperties, ChatServerAssumption
<1>2. PutSignals(1, s) = sigpipe \o [i \in 1 .. 1 |-> s]
  BY <1>1 DEF PutSignals
<1>3. [i \in 1 .. 1 |-> s] \in Seq(Signal) /\ Len([i \in 1 .. 1 |-> s]) = 1
  OBVIOUS
<1>4. Len(PutSignals(1, s)) = Len(sigpipe) + 1
  BY <1>2, <1>3, ConcatProperties
<1>5. QED
  BY <1>1, <1>4

\* The steps that move signals on, put beside the Bystanders.
SignalStep ==
  \/ \E s \in Signal : SigHandler(s)
  \/ PollReturns \/ EndBatch \/ ReadSignals \/ HandleSigchld \/ ReapDone \/ StopServer
  \/ KillChildren \/ SignalsDone

LEMMA SignalsOrAside ==
  ASSUME LoopTypeOK, [Next]_vars
  PROVE  SignalStep \/ (Bystander /\ UNCHANGED <<terminate, stop_server>>)
<1>1. CASE Environment
  BY <1>1, EnvironmentIsBystander
     DEF Environment, Connect, ClientSends, ClientCloses, Term, parentVars, flags
<1>2. CASE \E s \in {"CHLD", "TERM"} : SigHandler(s)
  BY <1>2 DEF SignalStep, Signal
<1>3. CASE ParentStep
  BY <1>3, EventIsBystander
     DEF SignalStep, ParentStep, AcceptFails, TooManyUsers, ForkFails, AcceptClient, Broadcast, Reap,
         flags
<1>4. ASSUME NEW p \in Pid, ChildStep(p)
      PROVE  Bystander /\ UNCHANGED <<terminate, stop_server>>
  BY <1>4, ChildStepIsBystander
     DEF ChildStep, ChildLoop, RecvFromClient, Exit, HangUp, Unnoticed, parentVars, flags
<1>5. CASE UNCHANGED vars
  BY <1>5 DEF vars, childVars, loopVars, parentVars, pollVars, sigVars, flags, Bystander, SomeDead
<1>6. QED
  BY <1>1, <1>2, <1>3, <1>4, <1>5 DEF Next

LEMMA NextPipeReported ==
  ASSUME IInv, SigInv, PipeReported, [Next]_vars
  PROVE  PipeReported'
<1> USE DEF PipeReported
<1>1. CASE Bystander
  BY <1>1 DEF Bystander
<1>2. CASE \E s \in Signal : SigHandler(s)
  BY <1>2 DEF SigHandler
<1>3. CASE PollReturns
  BY <1>3 DEF PollReturns, ReadableSources, sigVars, SigInv, LoopShape
<1>4. CASE ReadSignals
  BY <1>4 DEF ReadSignals
<1>5. CASE KillChildren
  BY <1>5 DEF KillChildren
<1>6. CASE EndBatch \/ HandleSigchld \/ ReapDone \/ StopServer \/ SignalsDone
  BY <1>6 DEF EndBatch, HandleSigchld, ReapDone, StopServer, SignalsDone, TakeSignal, pollVars,
              sigVars
<1>7. QED
  BY <1>1, <1>2, <1>3, <1>4, <1>5, <1>6, SignalsOrAside DEF IInv, SignalStep

\* No step loses a SIGTERM, unless it finds the pipe full.
LEMMA TermStaysKnown ==
  ASSUME IInv, SigInv, TermKnown, [Next]_vars, Len(sigpipe) < SigPipeCap
  PROVE  TermKnown'
<1>0. sigpipe \in Seq(Signal) /\ sigbuf \in Seq(Signal)
  BY DEF SigInv, SigTypeOK
<1> USE DEF TermKnown
<1>1. CASE Bystander /\ UNCHANGED <<terminate, stop_server>>
  BY <1>1 DEF Bystander
<1>2. ASSUME NEW s \in Signal, SigHandler(s)
      PROVE  TermKnown'
  <2>1. /\ sigpipe' = PutSignals(1, s) /\ sigpend' = sigpend \ {s}
        /\ UNCHANGED <<sigbuf, terminate, stop_server>>
    BY <1>2 DEF SigHandler, flags
  <2>2. InSeq(s, sigpipe') /\ (InSeq("TERM", sigpipe) => InSeq("TERM", sigpipe'))
    BY <1>0, <2>1, PutSignalsKeeps, PutSignalsFits
  <2>3. QED
    BY <2>1, <2>2
<1>3. CASE PollReturns \/ EndBatch \/ SignalsDone
  BY <1>3 DEF PollReturns, EndBatch, SignalsDone, sigVars, flags
<1>4. CASE ReadSignals
  <2>1. /\ sigbuf' = sigpipe /\ sigbuf = <<>>
        /\ UNCHANGED <<sigpend, terminate, stop_server>>
    BY <1>4 DEF ReadSignals, TakeEvent, flags, SigInv, LoopShape
  <2>2. ~InSeq("TERM", sigbuf)
    BY <2>1 DEF InSeq
  <2>3. QED
    BY <2>1, <2>2
<1>5. CASE HandleSigchld
  <2>1. /\ sigbuf # <<>> /\ Head(sigbuf) = "CHLD" /\ sigbuf' = Tail(sigbuf)
        /\ UNCHANGED <<sigpend, sigpipe, terminate, stop_server>>
    BY <1>5 DEF HandleSigchld, TakeSignal, flags
  <2>2. InSeq("TERM", sigbuf) => InSeq("TERM", sigbuf')
    BY <1>0, <2>1, TailKeeps
  <2>3. QED
    BY <2>1, <2>2
<1>6. CASE ReapDone
  BY <1>6 DEF ReapDone, sigVars
<1>7. CASE StopServer \/ KillChildren
  BY <1>7 DEF StopServer, KillChildren
<1>8. QED
  BY <1>1, <1>2, <1>3, <1>4, <1>5, <1>6, <1>7, SignalsOrAside DEF IInv, SignalStep

\* What is in the pipe of signals is always still to be reported; and from its
\* delivery on a SIGTERM is on its way through it, or has become terminate or
\* stop_server, whatever signals and deaths it meets: only a full pipe loses it.
THEOREM TermIsKept ==
  Spec => []PipeReported /\ [][TermKnown => TermKnown' \/ Len(sigpipe) >= SigPipeCap]_vars
<1>1. Init => PipeReported
  BY DEF Init, PipeReported
<1>2. IInv /\ SigInv /\ PipeReported /\ [Next]_vars => PipeReported'
  BY NextPipeReported
<1>3. IInv /\ SigInv /\ [Next]_vars => SigInv'
  BY NextSigInv
<1>4. ASSUME IInv, SigInv, [Next]_vars
      PROVE  [TermKnown => TermKnown' \/ Len(sigpipe) >= SigPipeCap]_vars
  <2>1. Len(sigpipe) \in Int /\ SigPipeCap \in Int
    BY <1>4, LenProperties, ChatServerAssumption DEF SigInv, SigTypeOK
  <2>2. QED
    BY <1>4, <2>1, TermStaysKnown
<1>5. QED
  BY <1>1, <1>2, <1>3, <1>4, InitSigInv, Invariance, PTL DEF Spec
=============================================================================
