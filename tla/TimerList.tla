------------------------------ MODULE TimerList ------------------------------
(***************************************************************************)
(* sort_timer_lst: a doubly linked list of timers, meant to be ordered by  *)
(* expire so that tick can stop at the first timer that has not expired.   *)
(* A timer is named by its address.  What a freed timer's fields hold is   *)
(* of no interest (nothing reads them), so they are reset when it is       *)
(* freed; head and tail are kept as the code leaves them.                  *)
(***************************************************************************)
EXTENDS Integers, FiniteSets

CONSTANTS
  Timer,     \* addresses new util_timer can return
  NULL,
  MaxTime    \* bound: latest time an expire is set to

ASSUME TimerListAssumption == NULL \notin Timer /\ MaxTime \in Nat /\ IsFiniteSet(Timer)

VARIABLES
  head, tail,
  next, prev, expire,   \* fields of the timers
  alive,                \* the timers that are allocated: all are in the list
  crashed               \* a null pointer was dereferenced

listVars == <<head, tail, next, prev, expire, alive, crashed>>

Ptr == Timer \cup {NULL}

TypeOK ==
  /\ head \in Ptr /\ tail \in Ptr
  /\ next \in [Timer -> Ptr] /\ prev \in [Timer -> Ptr]
  /\ expire \in [Timer -> 0 .. MaxTime]
  /\ alive \subseteq Timer
  /\ crashed \in BOOLEAN

Init ==
  /\ head = NULL /\ tail = NULL
  /\ next = [t \in Timer |-> NULL] /\ prev = [t \in Timer |-> NULL]
  /\ expire = [t \in Timer |-> 0]
  /\ alive = {}
  /\ crashed = FALSE

Free(f, T, default) == [t \in Timer |-> IF t \in T THEN default ELSE f[t]]

\* f with the value v at pointer x, if x is one: "if (x) x->f = v".
Set(f, x, v) == IF x = NULL THEN f ELSE [f EXCEPT ![x] = v]

-----------------------------------------------------------------------------
\* The pointers found by following the links nx from first, up to null.
Path(first, nx) ==
  LET walk[n \in 0 .. Cardinality(Timer)] ==
        IF n = 0 THEN first ELSE IF walk[n - 1] = NULL THEN NULL ELSE nx[walk[n - 1]]
  IN walk

\* The first timer from first on that is the last or is followed by one that
\* expires later than e; first itself is not compared.  Timer t expires at x[t].
Before(e, first, nx, x) ==
  LET walk == Path(first, nx)
      Stops(n) == walk[n] # NULL /\ (nx[walk[n]] = NULL \/ e < x[nx[walk[n]]])
  IN walk[CHOOSE n \in DOMAIN walk : Stops(n) /\ \A m \in 0 .. n - 1 : ~Stops(m)]

(***************************************************************************)
(* The private add_timer(timer, lst_head): timer t of expire e goes behind *)
(* that timer.  nx and pv are the links at the time of the call.           *)
(***************************************************************************)
InsertAfter(t, e, first, nx, pv) ==
  LET p == Before(e, first, nx, expire) IN
  /\ next' = [nx EXCEPT ![p] = t, ![t] = nx[p]]
  /\ prev' = [Set(pv, nx[p], t) EXCEPT ![t] = p]
  /\ tail' = IF nx[p] = NULL THEN t ELSE tail

\* Defective variant: a timer that does not go first goes last.
AddLast(t, e) ==
  /\ ~crashed
  /\ t \notin alive
  /\ alive' = alive \cup {t}
  /\ expire' = [expire EXCEPT ![t] = e]
  /\ \/ /\ head = NULL
        /\ head' = t /\ tail' = t
        /\ UNCHANGED <<next, prev>>
     \/ /\ head # NULL /\ e < expire[head]
        /\ head' = t
        /\ next' = [next EXCEPT ![t] = head]
        /\ prev' = [prev EXCEPT ![head] = t]
        /\ UNCHANGED tail
     \/ /\ head # NULL /\ e >= expire[head]
        /\ next' = [next EXCEPT ![tail] = t]
        /\ prev' = [prev EXCEPT ![t] = tail]
        /\ tail' = t
        /\ UNCHANGED head
  /\ UNCHANGED crashed

(***************************************************************************)
(* add_timer of a new timer t.  A timer that does not go first is inserted *)
(* after head->next, which is null if the list has one timer.              *)
(***************************************************************************)
Add(t, e) ==
  /\ ~crashed
  /\ t \notin alive
  /\ alive' = alive \cup {t}
  /\ expire' = [expire EXCEPT ![t] = e]
  /\ \/ /\ head = NULL
        /\ head' = t /\ tail' = t
        /\ UNCHANGED <<next, prev, crashed>>
     \/ /\ head # NULL /\ e < expire[head]
        /\ head' = t
        /\ next' = [next EXCEPT ![t] = head]
        /\ prev' = [prev EXCEPT ![head] = t]
        /\ UNCHANGED <<tail, crashed>>
     \/ /\ head # NULL /\ e >= expire[head] /\ next[head] # NULL
        /\ InsertAfter(t, e, next[head], next, prev)
        /\ UNCHANGED <<head, crashed>>
     \/ /\ head # NULL /\ e >= expire[head] /\ next[head] = NULL
        /\ crashed' = TRUE
        /\ UNCHANGED <<head, tail, next, prev>>

\* With the time e timer t still precedes the next one.
InPlace(t, e) == next[t] # NULL => e < expire[next[t]]

\* Defective variant: only the head is ever moved.
AdjustOnlyHead(t, e) ==
  /\ ~crashed
  /\ t \in alive
  /\ expire' = [expire EXCEPT ![t] = e]
  /\ \/ /\ t = head => InPlace(t, e)
        /\ UNCHANGED <<head, tail, next, prev>>
     \/ /\ t = head /\ ~InPlace(t, e)
        /\ head' = next[t]
        /\ InsertAfter(t, e, next[t], [next EXCEPT ![t] = NULL], [prev EXCEPT ![next[t]] = NULL])
  /\ UNCHANGED <<alive, crashed>>

\* Defective variant: the time is added to the old expire, not to now.
AdjustAddsToExpire(t, e) ==
  /\ ~crashed
  /\ t \in alive
  /\ expire' = [expire EXCEPT ![t] = @ + e]
  /\ InPlace(t, expire[t] + e)
  /\ UNCHANGED <<head, tail, next, prev, alive, crashed>>

\* The expire of t is set to e and adjust_timer called (which is meant for, and
\* looks only for, an expire later than the old one).
Adjust(t, e) ==
  /\ ~crashed
  /\ t \in alive
  /\ expire' = [expire EXCEPT ![t] = e]
  /\ \/ /\ InPlace(t, e)
        /\ UNCHANGED <<head, tail, next, prev>>
     \/ /\ ~InPlace(t, e)
        /\ IF t = head
           THEN /\ head' = next[t]
                /\ InsertAfter(t, e, next[t], [next EXCEPT ![t] = NULL],
                                              [prev EXCEPT ![next[t]] = NULL])
           ELSE /\ UNCHANGED head
                /\ InsertAfter(t, e, next[t], [next EXCEPT ![prev[t]] = next[t]],
                                              [prev EXCEPT ![next[t]] = prev[t]])
  /\ UNCHANGED <<alive, crashed>>

\* The timers of T are freed; nx and pv are the links that remain.
Delete(T, nx, pv) ==
  /\ alive' = alive \ T
  /\ next' = Free(nx, T, NULL)
  /\ prev' = Free(pv, T, NULL)
  /\ expire' = Free(expire, T, 0)
  /\ UNCHANGED crashed

Del(t) ==
  /\ ~crashed
  /\ t \in alive
  /\ \/ /\ t = head /\ t = tail
        /\ head' = NULL /\ tail' = NULL
        /\ Delete({t}, next, prev)
     \/ /\ t = head /\ t # tail
        /\ head' = next[t]
        /\ UNCHANGED tail
        /\ Delete({t}, next, [prev EXCEPT ![next[t]] = NULL])
     \/ /\ t # head /\ t = tail
        /\ tail' = prev[t]
        /\ UNCHANGED head
        /\ Delete({t}, [next EXCEPT ![prev[t]] = NULL], prev)
     \/ /\ t # head /\ t # tail
        /\ UNCHANGED <<head, tail>>
        /\ Delete({t}, [next EXCEPT ![prev[t]] = next[t]], [prev EXCEPT ![next[t]] = prev[t]])

\* What is found from head.
Walk == Path(head, next)

Reached == {Walk[n] : n \in DOMAIN Walk} \ {NULL}

\* The timers from head up to the first that has not expired at cur.
Expired(cur) ==
  {t \in Reached : \E n \in DOMAIN Walk :
      Walk[n] = t /\ \A m \in 0 .. n : expire[Walk[m]] <= cur}

\* Defective variant: the timer that becomes the head keeps its prev.
TickKeepsPrev(cur) ==
  LET gone == Expired(cur)
      rest == {t \in alive \ gone : t = head \/ prev[t] \in gone}
  IN
  /\ ~crashed
  /\ head # NULL
  /\ head' \in IF rest = {} THEN {NULL} ELSE rest
  /\ UNCHANGED tail
  /\ Delete(gone, next, prev)

\* Defective variant: a timer that expires now is taken for one still to come.
TickOffByOne(cur) ==
  LET gone == Expired(cur - 1)
      rest == {t \in alive \ gone : t = head \/ prev[t] \in gone}
  IN
  /\ ~crashed
  /\ head # NULL
  /\ head' \in IF rest = {} THEN {NULL} ELSE rest
  /\ UNCHANGED tail
  /\ Delete(gone, next, Set(prev, head', NULL))

\* Defective variant: the loop does not stop at a timer that has not expired.
TickWithoutBreak(cur) ==
  /\ ~crashed
  /\ head # NULL
  /\ head' = NULL
  /\ UNCHANGED tail
  /\ Delete(Reached, next, prev)

\* tick at time cur.  The callbacks of the timers in Expired(cur) are called.
\* When the list becomes empty tail is left as it is.
Tick(cur) ==
  LET gone == Expired(cur)
      rest == {t \in alive \ gone : t = head \/ prev[t] \in gone}   \* the new head
  IN
  /\ ~crashed
  /\ head # NULL
  /\ head' \in IF rest = {} THEN {NULL} ELSE rest
  /\ UNCHANGED tail
  /\ Delete(gone, next, Set(prev, head', NULL))

\* The destructor; the next list starts empty.
Destroy ==
  /\ ~crashed
  /\ head' = NULL /\ tail' = NULL
  /\ Delete(Reached, next, prev)

Prolong(t, e) == expire[t] <= e /\ Adjust(t, e)

Next ==
  \/ \E t \in Timer : \/ \E e \in 0 .. MaxTime : Add(t, e) \/ Prolong(t, e)
                      \/ Del(t)
  \/ \E cur \in 0 .. MaxTime : Tick(cur)
  \/ Destroy

Spec == Init /\ [][Next]_listVars

-----------------------------------------------------------------------------
Injective(s) == \A i, j \in DOMAIN s : s[i] = s[j] => i = j

LinkedAs(s) ==
  LET n == Cardinality(alive) IN
  /\ Injective(s)
  /\ n = 0 => head = NULL
  /\ n > 0 => /\ head = s[1] /\ prev[s[1]] = NULL
              /\ tail = s[n] /\ next[s[n]] = NULL
  /\ \A i \in 1 .. n - 1 : next[s[i]] = s[i + 1] /\ prev[s[i + 1]] = s[i]

(***************************************************************************)
(* Whatever is added, moved, deleted or expires, the two chains of         *)
(* pointers run through exactly the allocated timers, in opposite order:   *)
(* no timer is leaked or left out of reach of tick, none that was freed is *)
(* reached, although tail dangles while the list is empty.                 *)
(***************************************************************************)
WellLinked == ~crashed => \E s \in [1 .. Cardinality(alive) -> alive] : LinkedAs(s)

Sorted == \A t \in alive : next[t] # NULL => expire[t] <= expire[next[t]]

\* A timer whose time is prolonged is moved to its place in the order.
AdjustKeepsSorted ==
  [][Sorted /\ (\E t \in Timer, e \in 0 .. MaxTime : Prolong(t, e)) => Sorted']_listVars

(***************************************************************************)
(* add_timer keeps the order except where it does not look: when the new   *)
(* timer expires neither before the first timer nor after the second.      *)
(***************************************************************************)
AddKeepsSorted ==
  [][\A t \in Timer, e \in 0 .. MaxTime :
       /\ Sorted
       /\ Add(t, e)
       /\ \/ head = NULL \/ e < expire[head]
          \/ next[head] # NULL /\ expire[next[head]] <= e
       => Sorted']_listVars

\* As long as the list is sorted a tick leaves no expired timer behind.
TickExpiresAll ==
  [][\A cur \in 0 .. MaxTime :
       Sorted /\ Tick(cur) => \A t \in alive' : expire[t] > cur]_listVars

(***************************************************************************)
(* A user of the list need not know its links: each operation does to what *)
(* is found from head what it does to a set of timers, with the same       *)
(* timer and the same time.  In particular the tick at cur takes out only  *)
(* timers whose time has come at cur, and del_timer the one it was called  *)
(* for; the add_timer that crashes leaves the set as it was.               *)
(***************************************************************************)
Abstract == INSTANCE TimerSet WITH expires <- [t \in Reached |-> expire[t]]

AsInSet ==
  /\ \A t \in Timer, e \in 0 .. MaxTime :
       /\ Add(t, e) => IF crashed' THEN UNCHANGED [u \in Reached |-> expire[u]]
                        ELSE Abstract!Insert(t, e)
       /\ Prolong(t, e) => Abstract!Prolong(t, e)
  /\ \A t \in Timer : Del(t) => Abstract!Remove(t)
  /\ \A cur \in 0 .. MaxTime : Tick(cur) => Abstract!Expire(cur)
  /\ Destroy => Abstract!Clear

ImplementsTimerSet == Abstract!Init /\ [][AsInSet]_listVars

-----------------------------------------------------------------------------
\* "add a timer to the list" (comment of add_timer): not to a list of one.
AddNeverCrashes == ~crashed
=============================================================================
