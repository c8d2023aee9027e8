------------------------------ MODULE UserTable ------------------------------
(***************************************************************************)
(* The tables by which the parent of the chat server knows its sessions:   *)
(*                                                                         *)
(*   users        users[i].pid, the child that serves the i-th client      *)
(*   sub_process  pid -> index in users, -1 when there is none             *)
(*   user_count   how many entries of users are in use                     *)
(*                                                                         *)
(* The other fields of an entry (address, connfd, pipefd) travel with its  *)
(* pid, so an entry is named by the pid alone.  children and zombies are   *)
(* the kernel's view: the children that exist and have not been waited     *)
(* for, and those of them that have ended.                                 *)
(***************************************************************************)
EXTENDS Integers, FiniteSets

CONSTANTS
  Pid,         \* the process ids the kernel can hand out (it may reuse one)
  NoPid,       \* what users[i].pid holds before its first assignment
  USER_LIMIT   \* #define USER_LIMIT

ASSUME UserTableAssumption ==
  /\ USER_LIMIT \in Nat \ {0}
  /\ NoPid \notin Pid

VARIABLES users, sub_process, user_count, children, zombies

tableVars == <<users, sub_process, user_count, children, zombies>>

Idx == 0 .. USER_LIMIT            \* users = new client_data[USER_LIMIT + 1]

TypeOK ==
  /\ users \in [Idx -> Pid \cup {NoPid}]
  /\ sub_process \in [Pid -> Idx \cup {-1}]
  /\ user_count \in 0 .. USER_LIMIT
  /\ children \in SUBSET Pid
  /\ zombies \in SUBSET children

Init ==
  /\ users = [i \in Idx |-> NoPid]
  /\ sub_process = [p \in Pid |-> -1]
  /\ user_count = 0
  /\ children = {} /\ zombies = {}

\* Defective variant: the guard lets one client too many in.
AddUserUnbounded(p) ==
  /\ p \notin children
  /\ user_count <= USER_LIMIT
  /\ users' = [users EXCEPT ![user_count] = p]
  /\ sub_process' = [sub_process EXCEPT ![p] = user_count]
  /\ user_count' = user_count + 1
  /\ children' = children \cup {p}
  /\ UNCHANGED zombies

(***************************************************************************)
(* accept + fork succeeded: the new child takes the first free entry.      *)
(***************************************************************************)
AddUser(p) ==
  /\ p \notin children
  /\ user_count < USER_LIMIT
  /\ users' = [users EXCEPT ![user_count] = p]
  /\ sub_process' = [sub_process EXCEPT ![p] = user_count]
  /\ user_count' = user_count + 1
  /\ children' = children \cup {p}
  /\ UNCHANGED zombies

\* A child returns from run_child; the parent does not know yet.
ChildExits(p) ==
  /\ p \in children \ zombies
  /\ zombies' = zombies \cup {p}
  /\ UNCHANGED <<users, sub_process, user_count, children>>

\* Defective variant: users[user_count--], the entry one past the last is moved.
RemoveUserPostDecrement(p) ==
  LET dead_client_idx == sub_process[p]
      last            == user_count
  IN
  /\ p \in zombies
  /\ children' = children \ {p} /\ zombies' = zombies \ {p}
  /\ user_count' = user_count - 1
  /\ users' = [users EXCEPT ![dead_client_idx] = users[last]]
  /\ sub_process' = [sub_process EXCEPT ![p] = -1,
                                        ![users[last]] = dead_client_idx]

\* Defective variant: the moved child keeps its old index in sub_process.
RemoveUserNoFixup(p) ==
  LET dead_client_idx == sub_process[p]
      last            == user_count - 1
  IN
  /\ p \in zombies
  /\ children' = children \ {p} /\ zombies' = zombies \ {p}
  /\ user_count' = last
  /\ users' = [users EXCEPT ![dead_client_idx] = users[last]]
  /\ sub_process' = [sub_process EXCEPT ![p] = -1]

\* Defective variant: the hole is not filled, the last entry is given up.
RemoveUserDropsLast(p) ==
  /\ p \in zombies
  /\ children' = children \ {p} /\ zombies' = zombies \ {p}
  /\ user_count' = user_count - 1
  /\ sub_process' = [sub_process EXCEPT ![p] = -1]
  /\ UNCHANGED users

\* Defective variant: sub_process[p] is cleared before it is read.
RemoveUserReadsLate(p) ==
  /\ p \in zombies
  /\ children' = children \ {p} /\ zombies' = zombies \ {p}
  /\ sub_process' = [sub_process EXCEPT ![p] = -1]
  /\ UNCHANGED <<users, user_count>>

(***************************************************************************)
(* The body of the waitpid loop.  The entry of the dead child is filled    *)
(* with the last one, whose owner is then found at the new index.  When    *)
(* the dead child owned the last entry, this writes its own stale index    *)
(* back into sub_process.                                                  *)
(***************************************************************************)
RemoveUser(p) ==
  LET dead_client_idx == sub_process[p]
      last            == user_count - 1
  IN
  /\ p \in zombies
  /\ children' = children \ {p} /\ zombies' = zombies \ {p}
  /\ IF dead_client_idx < 0 \/ dead_client_idx > USER_LIMIT
     THEN /\ sub_process' = [sub_process EXCEPT ![p] = -1]
          /\ UNCHANGED <<users, user_count>>
     ELSE /\ user_count' = last
          /\ users' = [users EXCEPT ![dead_client_idx] = users[last]]
          /\ sub_process' = [sub_process EXCEPT ![p] = -1,
                                                ![users[last]] = dead_client_idx]

Next == \E p \in Pid : AddUser(p) \/ ChildExits(p) \/ RemoveUser(p)

Spec == Init /\ [][Next]_tableVars

-----------------------------------------------------------------------------
(***************************************************************************)
(* Every entry in use names a child that has not been waited for, and      *)
(* sub_process leads from each such child back to its entry: the two       *)
(* tables are inverse to each other although entries are moved and pids    *)
(* are reused.  A wrong entry would make the parent close another client's *)
(* pipe when a child dies, or send SIGTERM to a process that is not its.   *)
(***************************************************************************)
UsersAreChildren ==
  \A i \in 0 .. user_count - 1 : users[i] \in children /\ sub_process[users[i]] = i

ChildrenAreUsers ==
  \A p \in children : /\ sub_process[p] \in 0 .. user_count - 1
                      /\ users[sub_process[p]] = p

TableOK == UsersAreChildren /\ ChildrenAreUsers

\* user_count is the number of children that have not been waited for: the
\* limit on clients is a limit on child processes and on shared memory.
CountsChildren == user_count = Cardinality(children)

(***************************************************************************)
(* As long as a child lives its entry only moves to a lower index: an      *)
(* index once handed to a child at fork bounds its index for ever.         *)
(***************************************************************************)
SlotsOnlyMoveDown ==
  [][\A p \in children \cap children' : sub_process'[p] <= sub_process[p]]_tableVars

(***************************************************************************)
(* The entries in use are a set of sessions: a client enters the table at  *)
(* accept, and only the death of its own child, reported by waitpid, takes *)
(* it out, although the entry overwritten and the entry given up are then  *)
(* two different ones.                                                     *)
(***************************************************************************)
Listed == {users[i] : i \in 0 .. user_count - 1}

S == INSTANCE Sessions WITH Limit <- USER_LIMIT, serving <- Listed, ended <- zombies

ImplementsSessions == S!Spec
=============================================================================
