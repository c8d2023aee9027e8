---------------------------- MODULE MCChatServer ----------------------------
(* ChatServer for TLC: its processes are model values. *)
EXTENDS ChatServer, TLC

Pids == Permutations(Pid)
=============================================================================
