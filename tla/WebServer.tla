------------------------------ MODULE WebServer ------------------------------
(***************************************************************************)
(* webServer6_2: one client is accepted and gets the file, or an error.    *)
(* What the name stands for may change between stat, open and read.        *)
(* Whether the file is legal is kept in a variable that no path sets to    *)
(* true.                                                                   *)
(***************************************************************************)
EXTENDS Naturals

CONSTANT MaxChange   \* bound: changes of the file

VARIABLES
  file,       \* what the name stands for now
  found,      \* what stat has found
  opened,     \* what fd is open on; "none" if open has failed
  valid,      \* uninitialized at first
  file_buf,   \* "undefined" at first: the pointer is uninitialized too
  answer,     \* what has been sent: "none", "200" or "500"
  server_at,
  changes

webVars == <<file, found, opened, valid, file_buf, answer, server_at, changes>>

\* Nothing, a directory, a file that others may not read, one that they may.
File == {"none", "dir", "private", "readable"}

TypeOK ==
  /\ file \in File /\ found \in File /\ opened \in File
  /\ valid \in BOOLEAN
  /\ file_buf \in {"undefined", "zeros", "part", "content", "deleted"}
  /\ answer \in {"none", "200", "500"}
  /\ server_at \in {"accept", "stat", "open", "read", "answer", "close", "end"}
  /\ changes \in 0 .. MaxChange

Init ==
  /\ file \in File
  /\ found = "none" /\ opened = "none"
  /\ valid \in BOOLEAN
  /\ file_buf = "undefined" /\ answer = "none" /\ server_at = "accept" /\ changes = 0

Change ==
  /\ server_at # "end"
  /\ changes < MaxChange
  /\ changes' = changes + 1
  /\ file' \in File \ {file}
  /\ UNCHANGED <<found, opened, valid, file_buf, answer, server_at>>

Goto(from, to) == server_at = from /\ server_at' = to

accept ==
  /\ Goto("accept", "stat") \/ Goto("accept", "end")
  /\ UNCHANGED <<file, found, opened, valid, file_buf, answer, changes>>

\* Defective variant: of a file others may not read it is only printed that it is so.
StatOnlyPrints ==
  /\ found' = file
  /\ CASE file = "none"     -> Goto("stat", "close") /\ valid' = FALSE
       [] file = "dir"      -> Goto("stat", "answer") /\ valid' = FALSE
       [] file = "private"  -> Goto("stat", "answer") /\ UNCHANGED valid
       [] file = "readable" -> Goto("stat", "open") /\ UNCHANGED valid
  /\ UNCHANGED <<file, opened, file_buf, answer, changes>>

\* Without a file there is no answer at all.
Stat ==
  /\ found' = file
  /\ CASE file = "none"               -> Goto("stat", "close") /\ valid' = FALSE
       [] file \in {"dir", "private"} -> Goto("stat", "answer") /\ valid' = FALSE
       [] file = "readable"           -> Goto("stat", "open") /\ UNCHANGED valid
  /\ UNCHANGED <<file, opened, file_buf, answer, changes>>

\* open may fail on a file that is there, and its result is not looked at.
Open ==
  /\ Goto("open", "read")
  /\ opened' \in {file, "none"}
  /\ file_buf' = "zeros"
  /\ UNCHANGED <<file, found, valid, answer, changes>>

(***************************************************************************)
(* read fails on the -1 of a failed open and on a directory, and may fail  *)
(* on a file.  Of one that is shorter by now than stat has found it gets   *)
(* a part, or nothing.                                                     *)
(***************************************************************************)
ReadFile(fails) ==
  IF fails THEN UNCHANGED file_buf
  ELSE opened \in {"private", "readable"} /\ file_buf' \in {"content", "part", "zeros"}

\* A read that gets less than was asked for is no error.
Read ==
  /\ Goto("read", "answer")
  /\ \E fails \in BOOLEAN : ReadFile(fails) /\ valid' = (valid /\ ~fails)
  /\ UNCHANGED <<file, found, opened, answer, changes>>

Answer ==
  /\ Goto("answer", "close")
  /\ answer' = IF valid THEN "200" ELSE "500"
  /\ UNCHANGED <<file, found, opened, valid, file_buf, changes>>

\* close, and delete[] of file_buf, whatever it is.
Close ==
  /\ Goto("close", "end")
  /\ file_buf' = "deleted"
  /\ UNCHANGED <<file, found, opened, valid, answer, changes>>

Next == Change \/ accept \/ Stat \/ Open \/ Read \/ Answer \/ Close

-----------------------------------------------------------------------------
(***************************************************************************)
(* Whatever valid and file_buf hold when the program starts and whatever   *)
(* becomes of the file, 200 OK is sent only if stat has found a file that  *)
(* others may read, and what goes out behind it is a buffer that was       *)
(* allocated and cleared.  (What is in it may be a part of the file and    *)
(* zeros, or zeros only, if the file has shrunk; and a file that was read  *)
(* as a whole may be answered by 500, valid being what it was.)            *)
(***************************************************************************)
SendsOnlyItsBuffer ==
  server_at = "close" /\ answer = "200"
    => found = "readable" /\ file_buf \in {"zeros", "part", "content"}
=============================================================================
