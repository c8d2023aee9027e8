-------------------------------- MODULE Leases --------------------------------
(***************************************************************************)
(* What the server of closeNonactiveConn promises about its connections,   *)
(* and nothing of timers, lists, alarms and events: each lives on a lease  *)
(* that runs for Length from the moment the server last heard of it.  The  *)
(* server takes a lease from a client only when the client has gone, and   *)
(* all it had said is heard, or when the lease has run out (when, and      *)
(* whether all of those, is left open).                                    *)
(***************************************************************************)
EXTENDS Integers

CONSTANTS Client, Length

VARIABLES
  clock,    \* time(), which somebody may set back
  lease,    \* the time at which each open connection's lease runs out
  spoken,   \* the clients that have said something the server has not heard
  gone      \* the clients that have closed their end

leaseVars == <<clock, lease, spoken, gone>>

Init ==
  /\ clock = 0
  /\ lease = [c \in {} |-> 0]
  /\ spoken = {} /\ gone = {}

Fresh(c)    == [d \in DOMAIN lease \cup {c} |-> IF d = c THEN clock + Length ELSE lease[d]]
Without(cs) == [d \in DOMAIN lease \ cs |-> lease[d]]

\* What the clients do.
Speak(c) ==
  /\ c \in DOMAIN lease \ gone
  /\ spoken' = spoken \cup {c}
  /\ UNCHANGED <<clock, lease, gone>>

Go(c) ==
  /\ c \in DOMAIN lease \ gone
  /\ gone' = gone \cup {c}
  /\ UNCHANGED <<clock, lease, spoken>>

\* What the server does.
Open(c) ==
  /\ c \notin DOMAIN lease
  /\ lease' = Fresh(c)
  /\ UNCHANGED <<clock, spoken, gone>>

Renew(c) ==
  /\ c \in spoken
  /\ lease' = Fresh(c)
  /\ spoken' = spoken \ {c}
  /\ UNCHANGED <<clock, gone>>

End(cs) ==
  /\ lease' = Without(cs)
  /\ spoken' = spoken \ cs /\ gone' = gone \ cs
  /\ UNCHANGED clock

GiveUp(c) == c \in gone \ spoken /\ End({c})

Expire == \E cs \in SUBSET {c \in DOMAIN lease : lease[c] <= clock} : End(cs)

\* The clock.
Pass    == clock' = clock + 1 /\ UNCHANGED <<lease, spoken, gone>>
SetBack == clock' = clock - 1 /\ UNCHANGED <<lease, spoken, gone>>

Next ==
  \/ \E c \in Client : Speak(c) \/ Go(c) \/ Open(c) \/ Renew(c) \/ GiveUp(c)
  \/ Expire
  \/ Pass \/ SetBack

Spec == Init /\ [][Next]_leaseVars
=============================================================================
