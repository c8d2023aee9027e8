------------------------------ MODULE MsgQueue ------------------------------
(***************************************************************************)
(* A child sends one message through a System V queue to its parent, which *)
(* polls for it.                                                           *)
(***************************************************************************)
VARIABLES
  permitted,  \* may the process use the queue: msgget gives nobody permission
  parent_at,
  child_at_queue,
  queued      \* the message is in the queue

msgVars == <<permitted, parent_at, child_at_queue, queued>>

TypeOK ==
  /\ permitted \in BOOLEAN
  /\ parent_at \in {"fork", "poll", "returned"}
  /\ child_at_queue \in {"none", "send", "returned", "aborted"}
  /\ queued \in BOOLEAN

\* With IPC_CREAT | IPC_EXCL as its mode the queue is for privileged users only.
Init ==
  /\ permitted \in BOOLEAN
  /\ parent_at = "fork" /\ child_at_queue = "none" /\ queued = FALSE

\* A fork that fails returns -1, which is taken for the parent's case.
fork ==
  /\ parent_at = "fork"
  /\ parent_at' = "poll"
  /\ child_at_queue' \in {"none", "send"}
  /\ UNCHANGED <<permitted, queued>>

\* msgsnd with IPC_NOWAIT, and the assert on its result.
msgsnd ==
  /\ child_at_queue = "send"
  /\ queued' = permitted
  /\ child_at_queue' = IF permitted THEN "returned" ELSE "aborted"
  /\ UNCHANGED <<permitted, parent_at>>

\* Defective variant: an empty queue ends the polling.
msgrcvOnce ==
  /\ parent_at = "poll"
  /\ queued' = FALSE
  /\ parent_at' = "returned"
  /\ UNCHANGED <<permitted, child_at_queue>>

\* msgrcv with IPC_NOWAIT: the loop ends with a message.
msgrcv ==
  /\ parent_at = "poll"
  /\ queued /\ permitted
  /\ queued' = FALSE
  /\ parent_at' = "returned"
  /\ UNCHANGED <<permitted, child_at_queue>>

Next == fork \/ msgsnd \/ msgrcv

-----------------------------------------------------------------------------
(***************************************************************************)
(* A message that was sent is received, whichever of the two is first at   *)
(* the queue.  (If none is sent, for want of permission or of a child, the *)
(* parent polls for ever.)                                                 *)
(***************************************************************************)
MessageTaken == child_at_queue = "returned" ~> (parent_at = "returned" /\ ~queued)
=============================================================================
