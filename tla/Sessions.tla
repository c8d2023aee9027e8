------------------------------ MODULE Sessions ------------------------------
(***************************************************************************)
(* What the chat server promises about its clients, and nothing of how it  *)
(* remembers them: the set of clients being served, never more than Limit, *)
(* entered one at a time and left one at a time, each after the process    *)
(* that serves it has ended and by nobody else's end.                      *)
(***************************************************************************)
EXTENDS Naturals, FiniteSets

CONSTANTS Pid, Limit

VARIABLES
  serving,   \* the clients being served, each named by the process that does
  ended      \* those of them whose process has ended

sessionVars == <<serving, ended>>

Init == serving = {} /\ ended = {}

Join(p) ==
  /\ p \notin serving
  /\ Cardinality(serving) < Limit
  /\ serving' = serving \cup {p}
  /\ UNCHANGED ended

End(p) ==
  /\ p \in serving \ ended
  /\ ended' = ended \cup {p}
  /\ UNCHANGED serving

Leave(p) ==
  /\ p \in serving \cap ended
  /\ serving' = serving \ {p}
  /\ ended' = ended \ {p}

Next == \E p \in Pid : Join(p) \/ End(p) \/ Leave(p)

Spec == Init /\ [][Next]_sessionVars
=============================================================================
