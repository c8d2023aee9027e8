--------------------------- MODULE UserTableProofs ---------------------------
(***************************************************************************)
(* Proofs about UserTable, for any set of pids and any USER_LIMIT.         *)
(*                                                                         *)
(* TableOK is what makes the guard of RemoveUser ("no such user") false    *)
(* for every child, and CountsChildren what makes user_count a bound on    *)
(* processes; together with TypeOK they are inductive.                     *)
(***************************************************************************)
EXTENDS UserTable, FiniteSetTheorems, TLAPS

IInv ==
  /\ TypeOK
  /\ TableOK
  /\ IsFiniteSet(children)
  /\ CountsChildren

\* The tables' entries in use are exactly the children.
LEMMA ListedAreChildren ==
  ASSUME TableOK
  PROVE  Listed = children
BY DEF TableOK, UsersAreChildren, ChildrenAreUsers, Listed

\* What the waitpid loop finds of a child it has waited for: its index is valid
\* and the last entry belongs to a child as well.
LEMMA DeadClientIdx ==
  ASSUME TypeOK, TableOK, NEW p \in children
  PROVE  /\ user_count \in Nat \ {0}
         /\ user_count <= USER_LIMIT
         /\ sub_process[p] \in 0 .. user_count - 1
         /\ users[user_count - 1] \in children
         /\ sub_process[users[user_count - 1]] = user_count - 1
         /\ ~(sub_process[p] < 0 \/ sub_process[p] > USER_LIMIT)
<1>1. p \in Pid /\ user_count \in 0 .. USER_LIMIT
  BY DEF TypeOK
<1>2. USER_LIMIT \in Nat
  BY UserTableAssumption
<1>3. sub_process[p] \in 0 .. user_count - 1
  BY DEF TableOK, ChildrenAreUsers
<1>4. user_count \in Nat \ {0} /\ user_count - 1 \in 0 .. user_count - 1
  BY <1>1, <1>2, <1>3
<1>5. QED
  BY <1>1, <1>2, <1>3, <1>4 DEF TableOK, UsersAreChildren

LEMMA InitInv == Init => IInv
<1> SUFFICES ASSUME Init PROVE IInv
  OBVIOUS
<1>1. TypeOK
  BY UserTableAssumption DEF Init, TypeOK, Idx
<1>2. TableOK
  BY DEF Init, TableOK, UsersAreChildren, ChildrenAreUsers
<1>3. IsFiniteSet(children) /\ CountsChildren
  BY FS_EmptySet DEF Init, CountsChildren
<1>4. QED
  BY <1>1, <1>2, <1>3 DEF IInv

LEMMA AddUserInv ==
  ASSUME IInv, NEW p \in Pid, AddUser(p)
  PROVE  IInv'
<1> USE DEF IInv, AddUser
<1>0. user_count \in Nat /\ USER_LIMIT \in Nat /\ user_count \in Idx
  BY UserTableAssumption DEF TypeOK, Idx
<1>1. TypeOK'
  BY <1>0 DEF TypeOK, Idx
<1>2. UsersAreChildren'
  <2> SUFFICES ASSUME NEW i \in 0 .. user_count' - 1
               PROVE  users'[i] \in children' /\ sub_process'[users'[i]] = i
    BY DEF UsersAreChildren
  <2>1. CASE i = user_count
    BY <1>0, <2>1 DEF TypeOK
  <2>2. CASE i # user_count
    <3>1. i \in 0 .. user_count - 1 /\ i \in Idx
      BY <1>0, <2>2 DEF Idx
    <3>2. users[i] \in children /\ sub_process[users[i]] = i
      BY <3>1 DEF TableOK, UsersAreChildren
    <3>3. users'[i] = users[i] /\ users[i] # p
      BY <2>2, <3>1, <3>2 DEF TypeOK
    <3>4. QED
      BY <3>2, <3>3 DEF TypeOK
  <2>3. QED
    BY <2>1, <2>2
<1>3. ChildrenAreUsers'
  <2> SUFFICES ASSUME NEW q \in children'
               PROVE  sub_process'[q] \in 0 .. user_count' - 1 /\ users'[sub_process'[q]] = q
    BY DEF ChildrenAreUsers
  <2>1. CASE q = p
    BY <1>0, <2>1 DEF TypeOK
  <2>2. CASE q # p
    <3>1. q \in children /\ q \in Pid
      BY <2>2 DEF TypeOK
    <3>2. sub_process[q] \in 0 .. user_count - 1 /\ users[sub_process[q]] = q
      BY <3>1 DEF TableOK, ChildrenAreUsers
    <3>3. sub_process'[q] = sub_process[q] /\ sub_process[q] \in Idx
      BY <1>0, <2>2, <3>1, <3>2 DEF TypeOK, Idx
    <3>4. QED
      BY <1>0, <3>2, <3>3 DEF TypeOK
  <2>3. QED
    BY <2>1, <2>2
<1>4. IsFiniteSet(children') /\ CountsChildren'
  BY <1>0, FS_AddElement DEF CountsChildren
<1>5. QED
  BY <1>1, <1>2, <1>3, <1>4 DEF TableOK

LEMMA RemoveUserInv ==
  ASSUME IInv, NEW p \in Pid, RemoveUser(p)
  PROVE  IInv'
<1> DEFINE dead == sub_process[p]
           last == user_count - 1
           moved == users[last]
<1>1. TypeOK /\ TableOK /\ p \in children /\ IsFiniteSet(children) /\ CountsChildren
  BY DEF IInv, RemoveUser, TypeOK
<1>2. /\ user_count \in Nat \ {0} /\ user_count <= USER_LIMIT
      /\ dead \in 0 .. last
      /\ moved \in children
      /\ sub_process[moved] = last
      /\ ~(dead < 0 \/ dead > USER_LIMIT)
  BY <1>1, DeadClientIdx
<1>3. /\ children' = children \ {p} /\ zombies' = zombies \ {p}
      /\ user_count' = last
      /\ users' = [users EXCEPT ![dead] = moved]
      /\ sub_process' = [sub_process EXCEPT ![p] = -1, ![moved] = dead]
  BY <1>2 DEF RemoveUser
<1>4. /\ USER_LIMIT \in Nat /\ moved \in Pid
      /\ dead \in Idx /\ last \in Idx /\ users[dead] = p
  BY <1>1, <1>2, UserTableAssumption DEF TypeOK, Idx, TableOK, ChildrenAreUsers
<1> HIDE DEF dead, last, moved
<1>5. TypeOK'
  <2>1. users' \in [Idx -> Pid \cup {NoPid}]
    BY <1>1, <1>3, <1>4 DEF TypeOK
  <2>2. sub_process' \in [Pid -> Idx \cup {-1}]
    BY <1>1, <1>3, <1>4 DEF TypeOK
  <2>3. user_count' \in 0 .. USER_LIMIT
    BY <1>2, <1>3, <1>4 DEF last
  <2>4. children' \in SUBSET Pid /\ zombies' \in SUBSET children'
    BY <1>1, <1>3 DEF TypeOK
  <2>5. QED
    BY <2>1, <2>2, <2>3, <2>4 DEF TypeOK
<1>6. UsersAreChildren'
  <2> SUFFICES ASSUME NEW i \in 0 .. user_count' - 1
               PROVE  users'[i] \in children' /\ sub_process'[users'[i]] = i
    BY DEF UsersAreChildren
  <2>1. /\ i \in 0 .. user_count - 1 /\ i \in Idx /\ i # last
        /\ users[i] \in children /\ sub_process[users[i]] = i
    BY <1>1, <1>2, <1>3, <1>4 DEF last, TableOK, UsersAreChildren, Idx
  <2>2. CASE i = dead
    <3>1. users'[i] = moved /\ moved # p
      BY <1>1, <1>2, <1>3, <1>4, <2>1, <2>2 DEF TypeOK, dead
    <3>2. QED
      BY <1>1, <1>2, <1>3, <1>4, <2>2, <3>1 DEF TypeOK
  <2>3. CASE i # dead
    <3>1. users'[i] = users[i] /\ users[i] # p /\ users[i] # moved
      BY <1>1, <1>2, <1>3, <2>1, <2>3 DEF TypeOK, dead
    <3>2. users[i] \in Pid
      BY <1>1, <2>1 DEF TypeOK
    <3>3. QED
      BY <1>1, <1>3, <2>1, <3>1, <3>2 DEF TypeOK
  <2>4. QED
    BY <2>2, <2>3
<1>7. ChildrenAreUsers'
  <2> SUFFICES ASSUME NEW q \in children'
               PROVE  sub_process'[q] \in 0 .. user_count' - 1 /\ users'[sub_process'[q]] = q
    BY DEF ChildrenAreUsers
  <2>1. /\ q \in children /\ q \in Pid /\ q # p
        /\ sub_process[q] \in 0 .. user_count - 1
        /\ users[sub_process[q]] = q
    BY <1>1, <1>3 DEF TypeOK, TableOK, ChildrenAreUsers
  <2>2. CASE q = moved
    <3>1. dead # last
      BY <1>4, <2>1, <2>2 DEF moved
    <3>2. sub_process'[q] = dead
      BY <1>1, <1>3, <2>1, <2>2 DEF TypeOK
    <3>3. QED
      BY <1>1, <1>2, <1>3, <1>4, <2>2, <3>1, <3>2 DEF TypeOK, last
  <2>3. CASE q # moved
    <3>1. sub_process'[q] = sub_process[q]
      BY <1>1, <1>3, <2>1, <2>3 DEF TypeOK
    <3>2. sub_process[q] # last /\ sub_process[q] # dead
      BY <1>4, <2>1, <2>3 DEF moved
    <3>3. sub_process[q] \in Idx
      BY <1>2, <1>4, <2>1 DEF Idx
    <3>4. users'[sub_process[q]] = users[sub_process[q]]
      BY <1>1, <1>3, <3>2, <3>3 DEF TypeOK
    <3>5. QED
      BY <1>2, <1>3, <2>1, <3>1, <3>2, <3>4 DEF last
  <2>4. QED
    BY <2>2, <2>3
<1>8. IsFiniteSet(children') /\ CountsChildren'
  BY <1>1, <1>2, <1>3, FS_RemoveElement DEF CountsChildren, last
<1>9. QED
  BY <1>5, <1>6, <1>7, <1>8 DEF IInv, TableOK

LEMMA ChildExitsInv ==
  ASSUME IInv, NEW p \in Pid, ChildExits(p)
  PROVE  IInv'
BY DEF IInv, ChildExits, TypeOK, TableOK, UsersAreChildren, ChildrenAreUsers, CountsChildren

LEMMA StutterInv == IInv /\ UNCHANGED tableVars => IInv'
BY DEF IInv, tableVars, TypeOK, TableOK, UsersAreChildren, ChildrenAreUsers, CountsChildren

LEMMA NextInv == IInv /\ [Next]_tableVars => IInv'
BY AddUserInv, ChildExitsInv, RemoveUserInv, StutterInv DEF Next

\* The invariant of the tables holds in every state.
THEOREM Invariance == Spec => []IInv
BY InitInv, NextInv, PTL DEF Spec

\* The types of the tables: user_count never exceeds USER_LIMIT, and no index
\* that reaches sub_process is outside users.
THEOREM TypeCorrect == Spec => []TypeOK
<1>1. IInv => TypeOK
  BY DEF IInv
<1>2. QED
  BY <1>1, Invariance, PTL

\* users and sub_process stay inverse to each other on the children, whatever
\* the order of deaths and the reuse of pids.
THEOREM TablesAgree == Spec => []TableOK
<1>1. IInv => TableOK
  BY DEF IInv
<1>2. QED
  BY <1>1, Invariance, PTL

\* user_count is the number of children not waited for.
THEOREM CountIsChildren == Spec => []CountsChildren
<1>1. IInv => CountsChildren
  BY DEF IInv
<1>2. QED
  BY <1>1, Invariance, PTL

\* Taking p out moves one entry at most, and that one down.
LEMMA RemoveUserMovesDown ==
  ASSUME IInv, NEW p \in Pid, RemoveUser(p), NEW q \in children, q # p
  PROVE  sub_process'[q] <= sub_process[q]
<1>1. /\ TypeOK /\ TableOK /\ p \in children /\ q \in Pid
      /\ sub_process[q] \in 0 .. user_count - 1
  BY DEF IInv, RemoveUser, TypeOK, TableOK, ChildrenAreUsers
<1>2. /\ user_count \in Nat \ {0}
      /\ sub_process[p] \in 0 .. user_count - 1
      /\ sub_process[users[user_count - 1]] = user_count - 1
      /\ ~(sub_process[p] < 0 \/ sub_process[p] > USER_LIMIT)
  BY <1>1, DeadClientIdx
<1>3. sub_process' = [sub_process EXCEPT ![p] = -1,
                                         ![users[user_count - 1]] = sub_process[p]]
  BY <1>2 DEF RemoveUser
<1>4. CASE q = users[user_count - 1]
  BY <1>1, <1>2, <1>3, <1>4 DEF TypeOK
<1>5. CASE q # users[user_count - 1]
  <2>1. sub_process'[q] = sub_process[q]
    BY <1>1, <1>3, <1>5 DEF TypeOK
  <2>2. QED
    BY <1>1, <1>2, <2>1
<1>6. QED
  BY <1>4, <1>5

\* No step moves a living child's entry to a higher index.
THEOREM SlotsMoveDown == Spec => SlotsOnlyMoveDown
<1> DEFINE Down == \A p \in children \cap children' : sub_process'[p] <= sub_process[p]
<1>1. ASSUME IInv, NEW p \in Pid, AddUser(p)
      PROVE  Down
  BY <1>1, UserTableAssumption DEF IInv, TypeOK, Idx, AddUser
<1>2. ASSUME IInv, NEW p \in Pid, RemoveUser(p)
      PROVE  Down
  BY <1>2, RemoveUserMovesDown DEF RemoveUser
<1>3. ASSUME IInv, NEW p \in Pid, ChildExits(p)
      PROVE  Down
  BY <1>3, UserTableAssumption DEF IInv, TypeOK, Idx, ChildExits
<1>4. IInv /\ [Next]_tableVars => [Down]_tableVars
  BY <1>1, <1>2, <1>3 DEF Next
<1>5. QED
  BY <1>4, Invariance, PTL DEF Spec, SlotsOnlyMoveDown

(***************************************************************************)
(* The tables implement the sessions of module Sessions: accept enters the *)
(* new client, and a client is taken out only when its own child has ended *)
(* and waitpid has returned that child: the move of the last entry into    *)
(* its place loses nobody.                                                 *)
(***************************************************************************)
THEOREM Implementation == Spec => ImplementsSessions
<1>1. Init => S!Init
  BY DEF Init, S!Init, Listed
<1>2. ASSUME IInv, IInv', NEW p \in Pid, AddUser(p)
      PROVE  S!Join(p)
  <2>1. Listed = children /\ Listed' = children'
    BY <1>2, ListedAreChildren DEF IInv, TableOK, UsersAreChildren, ChildrenAreUsers, Listed
  <2>2. Cardinality(children) = S!Cardinality(children)
    BY DEF Cardinality, S!Cardinality
  <2>3. QED
    BY <1>2, <2>1, <2>2 DEF AddUser, S!Join, IInv, CountsChildren
<1>3. ASSUME IInv, IInv', NEW p \in Pid, RemoveUser(p)
      PROVE  S!Leave(p)
  <2>1. Listed = children /\ Listed' = children'
    BY <1>3, ListedAreChildren DEF IInv, TableOK, UsersAreChildren, ChildrenAreUsers, Listed
  <2>2. QED
    BY <1>3, <2>1 DEF RemoveUser, S!Leave, IInv, TypeOK
<1>4. ASSUME IInv, NEW p \in Pid, ChildExits(p)
      PROVE  S!End(p)
  <2>1. Listed = children
    BY <1>4, ListedAreChildren DEF IInv
  <2>2. Listed' = Listed
    BY <1>4 DEF ChildExits, Listed
  <2>3. QED
    BY <1>4, <2>1, <2>2 DEF ChildExits, S!End
<1>5. UNCHANGED tableVars => UNCHANGED S!sessionVars
  BY DEF tableVars, Listed, S!sessionVars
<1>6. IInv /\ IInv' /\ [Next]_tableVars => [S!Next]_(S!sessionVars)
  BY <1>2, <1>3, <1>4, <1>5 DEF Next, S!Next
<1>7. QED
  BY <1>1, <1>6, Invariance, PTL DEF Spec, S!Spec, ImplementsSessions
=============================================================================
