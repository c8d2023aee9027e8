------------------------------ MODULE UniEvent ------------------------------
(***************************************************************************)
(* unievent: signals and connections as events of one epoll loop.  The fds *)
(* are edge-triggered and handled as in ChatServer, but connections are    *)
(* accepted and then left alone: what their clients send is an event that  *)
(* no branch of the loop handles, and nothing here.                        *)
(***************************************************************************)
EXTENDS Naturals, Sequences

CONSTANTS
  PipeSize,     \* signals that fit pipefd
  MaxSignals,   \* bound: signals sent
  MaxClients    \* bound: connections

VARIABLES
  pending,      \* signals the kernel has not delivered
  pipe,         \* signals in pipefd
  edges,        \* fds with an edge that epoll_wait has not returned
  events,       \* events still to be handled
  loop_at, stop,
  waiting,      \* connections not accepted
  dropped,      \* history: a TERM found the pipe full
  signals, clients

uniVars == <<pending, pipe, edges, events, loop_at, stop, waiting, dropped, signals, clients>>

Signal == {"HUP", "CHLD", "TERM"}     \* INT is handled as TERM
Source == {"listenfd", "pipefd"}

TypeOK ==
  /\ pending \subseteq Signal
  /\ pipe \in Seq(Signal) /\ Len(pipe) <= PipeSize
  /\ edges \subseteq Source /\ events \subseteq Source
  /\ loop_at \in {"wait", "events", "stopped"}
  /\ {stop, dropped} \subseteq BOOLEAN
  /\ waiting \in 0 .. MaxClients
  /\ signals \in 0 .. MaxSignals /\ clients \in 0 .. MaxClients

Init ==
  /\ pending = {} /\ pipe = <<>> /\ edges = {} /\ events = {}
  /\ loop_at = "wait" /\ stop = FALSE /\ dropped = FALSE
  /\ waiting = 0 /\ signals = 0 /\ clients = 0

SendSignal(s) ==
  /\ loop_at # "stopped" /\ signals < MaxSignals
  /\ signals' = signals + 1
  /\ pending' = pending \cup {s}
  /\ UNCHANGED <<pipe, edges, events, loop_at, stop, waiting, dropped, clients>>

Connect ==
  /\ loop_at # "stopped" /\ clients < MaxClients
  /\ clients' = clients + 1
  /\ waiting' = waiting + 1
  /\ edges' = edges \cup {"listenfd"}
  /\ UNCHANGED <<pending, pipe, events, loop_at, stop, dropped, signals>>

\* A send to a full pipe fails.
sig_handler(s) ==
  /\ loop_at # "stopped" /\ s \in pending
  /\ pending' = pending \ {s}
  /\ IF Len(pipe) < PipeSize
     THEN /\ pipe' = Append(pipe, s)
          /\ edges' = edges \cup {"pipefd"}
          /\ UNCHANGED dropped
     ELSE /\ dropped' = (dropped \/ s = "TERM")
          /\ UNCHANGED <<pipe, edges>>
  /\ UNCHANGED <<events, loop_at, stop, waiting, signals, clients>>

Readable == {fd \in Source : IF fd = "pipefd" THEN pipe # <<>> ELSE waiting > 0}

\* epoll_wait; interrupted by a signal (EINTR) it is called again.
epoll_wait ==
  /\ loop_at = "wait" /\ edges \cap Readable # {}
  /\ events' = edges \cap Readable
  /\ edges' = {}
  /\ loop_at' = "events"
  /\ UNCHANGED <<pending, pipe, stop, waiting, dropped, signals, clients>>

TakeEvent(fd) == loop_at = "events" /\ fd \in events /\ events' = events \ {fd}

\* The event on listenfd: one accept, which may fail; the fd joins the epoll set.
accept ==
  /\ TakeEvent("listenfd")
  /\ waiting' \in {waiting - 1, waiting}
  /\ UNCHANGED <<pending, pipe, edges, loop_at, stop, dropped, signals, clients>>

Holds(s, seq) == \E k \in DOMAIN seq : seq[k] = s

\* Defective variant: HUP and CHLD end the loop over the signals.
ReadSignalsUpToFirst ==
  /\ TakeEvent("pipefd")
  /\ pipe' = <<>>
  /\ stop' = (stop \/ Head(pipe) = "TERM")
  /\ UNCHANGED <<pending, edges, loop_at, waiting, dropped, signals, clients>>

\* The event on pipefd[0]: all signals are read; TERM stops the server.
ReadSignals ==
  /\ TakeEvent("pipefd")
  /\ pipe' = <<>>
  /\ stop' = (stop \/ Holds("TERM", pipe))
  /\ UNCHANGED <<pending, edges, loop_at, waiting, dropped, signals, clients>>

\* while (!stop_server), and the closes after it.
EndOfEvents ==
  /\ loop_at = "events" /\ events = {}
  /\ loop_at' = IF stop THEN "stopped" ELSE "wait"
  /\ UNCHANGED <<pending, pipe, edges, events, stop, waiting, dropped, signals, clients>>

Loop == epoll_wait \/ accept \/ ReadSignals \/ EndOfEvents

Next ==
  \/ Connect \/ Loop
  \/ \E s \in Signal : SendSignal(s) \/ sig_handler(s)

-----------------------------------------------------------------------------
(***************************************************************************)
(* A SIGTERM stops the server whatever signals it arrives with and at      *)
(* whatever moment between recv and epoll_wait, unless it finds the pipe   *)
(* full.                                                                   *)
(***************************************************************************)
TermStops == "TERM" \in pending ~> (loop_at = "stopped" \/ dropped)
=============================================================================
