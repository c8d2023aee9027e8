--------------------------- MODULE TimerListProofs ---------------------------
(***************************************************************************)
(* Proofs about TimerList, for any number of timers and any times: the     *)
(* list stays well linked, and what its operations do to its order.        *)
(*                                                                         *)
(* The list is seen as a chain, a sequence s of n timers whose links are   *)
(* what the fields hold.  An operation inserts behind the k-th timer,      *)
(* removes the k-th or drops the first k; each is proved once for chains.  *)
(***************************************************************************)
EXTENDS TimerList, FiniteSetTheorems, TLAPS

\* s lists the timers of A, and h, tl, nx and pv link them in that order.
Chain(n, s, h, tl, nx, pv, A) ==
  /\ n \in Nat
  /\ s \in [1 .. n -> A]
  /\ \A i, j \in 1 .. n : s[i] = s[j] => i = j
  /\ \A t \in A : \E i \in 1 .. n : s[i] = t
  /\ n = 0 => h = NULL
  /\ n > 0 => h = s[1] /\ pv[s[1]] = NULL /\ tl = s[n] /\ nx[s[n]] = NULL
  /\ \A i \in 1 .. n - 1 : nx[s[i]] = s[i + 1] /\ pv[s[i + 1]] = s[i]

\* Fields of timers that are not allocated are null, as a new timer's are.
FreshFields == \A t \in Timer \ alive : next[t] = NULL /\ prev[t] = NULL

(***************************************************************************)
(* The invariant.  After a crash nothing moves any more.                   *)
(***************************************************************************)
IInv ==
  /\ TypeOK
  /\ ~crashed => /\ FreshFields
                 /\ \E n \in Nat : \E s \in [1 .. n -> alive] :
                      Chain(n, s, head, tail, next, prev, alive)

-----------------------------------------------------------------------------
LEMMA LeastNumber ==
  ASSUME NEW S \in SUBSET Nat, S # {}
  PROVE  \E m \in S : \A k \in S : m <= k
<1> DEFINE Less == OpToRel(<, Nat)
<1>1. IsWellFoundedOn(Less, Nat)
  BY NatLessThanWellFounded
<1> HIDE DEF Less
<1>2. PICK m \in S : \A k \in S : ~ (<<k, m>> \in Less)
  BY <1>1, WFMin
<1>3. \A k \in S : k < m => <<k, m>> \in Less
  BY DEF Less, OpToRel
<1>4. \A k \in S : ~ (k < m)
  BY <1>2, <1>3
<1>5. \A k \in S : m <= k
  BY <1>4
<1>6. QED
  BY <1>5

LEMMA TimersFinite == Cardinality(Timer) \in Nat /\ NULL \notin Timer /\ MaxTime \in Nat
BY TimerListAssumption, FS_CardinalityType

\* Following links: Path is the function its recursive definition says.
LEMMA PathDef ==
  ASSUME NEW first, NEW nx
  PROVE  Path(first, nx) =
           [n \in 0 .. Cardinality(Timer) |->
              IF n = 0 THEN first
              ELSE IF Path(first, nx)[n - 1] = NULL THEN NULL ELSE nx[Path(first, nx)[n - 1]]]
<1> DEFINE N == Cardinality(Timer)
           Step(x) == IF x = NULL THEN NULL ELSE nx[x]
           Ok(k, g) == g = [n \in 0 .. k |-> IF n = 0 THEN first ELSE Step(g[n - 1])]
           Bad == {k \in 0 .. N : ~\E g : Ok(k, g)}
<1>0. N \in Nat
  BY TimersFinite
<1> HIDE DEF N
<1>1. Bad = {}
  <2> SUFFICES ASSUME Bad # {} PROVE FALSE
    OBVIOUS
  <2>0. Bad \in SUBSET Nat
    BY <1>0
  <2>1. PICK m \in Bad : \A k \in Bad : m <= k
    BY <2>0, LeastNumber
  <2>2. m # 0
    <3>1. Ok(0, [n \in 0 .. 0 |-> first])
      OBVIOUS
    <3>2. QED
      BY <3>1, <2>1
  <2>3. m - 1 \in 0 .. N /\ m - 1 \notin Bad /\ m \in 1 .. N
    <3>1. m \in 0 .. N
      OBVIOUS
    <3>2. m - 1 \in 0 .. N /\ m \in 1 .. N /\ ~(m <= m - 1)
      BY <1>0, <2>2, <3>1
    <3>3. m - 1 \notin Bad
      BY <2>1, <3>2
    <3>4. QED
      BY <3>2, <3>3
  <2>4. PICK g : Ok(m - 1, g)
    BY <2>3
  <2>5. Ok(m, [n \in 0 .. m |-> IF n = m THEN Step(g[m - 1]) ELSE g[n]])
    <3> DEFINE f == [n \in 0 .. m |-> IF n = m THEN Step(g[m - 1]) ELSE g[n]]
    <3>0. m \in Nat /\ m > 0
      BY <1>0, <2>3
    <3>1. /\ \A n \in 0 .. m : f[n] = IF n = m THEN Step(g[m - 1]) ELSE g[n]
          /\ f = [n \in 0 .. m |-> f[n]]
      OBVIOUS
    <3> HIDE DEF f, Step
    <3>2. ASSUME NEW n \in 0 .. m
          PROVE  f[n] = IF n = 0 THEN first ELSE Step(f[n - 1])
      <4>1. CASE n = m
        <5>1. n # 0 /\ n - 1 # m /\ n - 1 \in 0 .. m
          BY <3>0, <4>1
        <5>2. QED
          BY <3>1, <4>1, <5>1
      <4>2. CASE n # m
        <5>1. n \in 0 .. m - 1
          BY <3>0, <4>2
        <5>2. f[n] = g[n] /\ g[n] = IF n = 0 THEN first ELSE Step(g[n - 1])
          BY <2>4, <3>1, <4>2, <5>1
        <5>3. n # 0 => n - 1 \in 0 .. m /\ n - 1 # m
          BY <3>0, <5>1
        <5>4. QED
          BY <3>1, <5>2, <5>3
      <4>3. QED
        BY <4>1, <4>2
    <3>3. QED
      BY <3>1, <3>2
  <2>6. QED
    BY <2>1, <2>5
<1>2. PICK g : Ok(N, g)
  <2>1. N \in 0 .. N
    BY <1>0
  <2>2. QED
    BY <1>1, <2>1
<1>3. g = [n \in 0 .. N |-> IF n = 0 THEN first ELSE IF g[n - 1] = NULL THEN NULL ELSE nx[g[n - 1]]]
  BY <1>2
<1>4. QED
  BY <1>3 DEF Path, N

\* From the k-th timer of a chain the links lead to those behind it, then to null.
LEMMA PathOfChain ==
  ASSUME NEW n, NEW s, NEW h, NEW tl, NEW nx, NEW pv, NEW A, A \subseteq Timer,
         Chain(n, s, h, tl, nx, pv, A), NEW k \in 1 .. n + 1
  PROVE  \A m \in 0 .. Cardinality(Timer) :
           Path(IF k <= n THEN s[k] ELSE NULL, nx)[m] =
             IF k + m <= n THEN s[k + m] ELSE NULL
<1> DEFINE N == Cardinality(Timer)
           first == IF k <= n THEN s[k] ELSE NULL
           path == Path(first, nx)
           At(m) == IF k + m <= n THEN s[k + m] ELSE NULL
           Bad == {m \in 0 .. N : path[m] # At(m)}
<1>0. N \in Nat /\ n \in Nat /\ NULL \notin Timer
  BY TimersFinite DEF Chain
<1>1. path = [m \in 0 .. N |-> IF m = 0 THEN first
                               ELSE IF path[m - 1] = NULL THEN NULL ELSE nx[path[m - 1]]]
  <2> HIDE DEF first
  <2>1. QED
    BY PathDef
<1>2. \A i \in 1 .. n : s[i] \in Timer
  BY DEF Chain
<1>3. /\ \A i \in 1 .. n - 1 : nx[s[i]] = s[i + 1]
      /\ n > 0 => nx[s[n]] = NULL
  BY DEF Chain
<1> HIDE DEF N, path
<1>4. Bad = {}
  <2> SUFFICES ASSUME Bad # {} PROVE FALSE
    OBVIOUS
  <2>0. Bad \in SUBSET Nat
    BY <1>0
  <2>1. PICK m \in Bad : \A j \in Bad : m <= j
    BY <2>0, LeastNumber
  <2>2. m # 0
    BY <1>0, <1>1, <2>1
  <2>3. m - 1 \in 0 .. N /\ m - 1 \notin Bad /\ m \in 1 .. N
    <3>1. m \in 0 .. N
      OBVIOUS
    <3>2. m - 1 \in 0 .. N /\ m \in 1 .. N /\ ~(m <= m - 1)
      BY <1>0, <2>2, <3>1
    <3>3. m - 1 \notin Bad
      BY <2>1, <3>2
    <3>4. QED
      BY <3>2, <3>3
  <2>4. path[m - 1] = At(m - 1)
    BY <2>3
  <2>5. path[m] = IF path[m - 1] = NULL THEN NULL ELSE nx[path[m - 1]]
    BY <1>0, <1>1, <2>3
  <2>6. path[m] = At(m)
    <3>1. CASE k + m <= n
      <4>1. k + (m - 1) \in 1 .. n - 1 /\ k + (m - 1) + 1 = k + m /\ k + (m - 1) <= n
        BY <1>0, <2>3, <3>1
      <4>2. path[m - 1] = s[k + (m - 1)] /\ path[m - 1] # NULL
        BY <1>0, <1>2, <2>4, <4>1
      <4>3. QED
        BY <1>3, <2>5, <3>1, <4>1, <4>2
    <3>2. CASE k + m = n + 1
      <4>1. k + (m - 1) = n /\ n > 0 /\ n \in 1 .. n /\ ~(k + m <= n)
        BY <1>0, <2>3, <3>2
      <4>2. path[m - 1] = s[n] /\ s[n] # NULL
        BY <1>0, <1>2, <2>4, <4>1
      <4>3. QED
        BY <1>3, <2>5, <4>1, <4>2
    <3>3. CASE k + m > n + 1
      <4>1. ~(k + (m - 1) <= n) /\ ~(k + m <= n)
        BY <1>0, <2>3, <3>3
      <4>2. QED
        BY <2>4, <2>5, <4>1
    <3>4. QED
      BY <1>0, <2>3, <3>1, <3>2, <3>3
  <2>7. QED
    BY <2>1, <2>6
<1>5. QED
  BY <1>4 DEF N, path

\* A chain is as long as there are timers in it.
LEMMA ChainLength ==
  ASSUME NEW n, NEW s, NEW h, NEW tl, NEW nx, NEW pv, NEW A, A \subseteq Timer,
         Chain(n, s, h, tl, nx, pv, A)
  PROVE  n \in Nat /\ Cardinality(A) = n /\ n <= Cardinality(Timer)
<1>0. /\ n \in Nat /\ s \in [1 .. n -> A]
      /\ \A i, j \in 1 .. n : s[i] = s[j] => i = j
      /\ \A t \in A : \E i \in 1 .. n : s[i] = t
  BY DEF Chain
<1>1. n \in Nat /\ s \in Bijection(1 .. n, A)
  BY <1>0 DEF Bijection, Injection, Surjection, IsInjective
<1>2. Cardinality(A) = n
  BY <1>1, FS_CountingElements DEF ExistsBijection
<1>3. Cardinality(A) <= Cardinality(Timer)
  BY TimerListAssumption, FS_Subset
<1>4. QED
  BY <1>1, <1>2, <1>3

Inserted(n, s, k, t) ==
  [i \in 1 .. n + 1 |-> IF i <= k THEN s[i] ELSE IF i = k + 1 THEN t ELSE s[i - 1]]

\* From h, tl, nx and pv to h2, tl2, nx2 and pv2 the timer t is linked in
\* behind the k-th timer; as the first one if k is 0.
LinksIn(n, s, k, t, h, tl, nx, pv, h2, tl2, nx2, pv2) ==
  /\ h2 = IF k = 0 THEN t ELSE h
  /\ tl2 = IF k = n THEN t ELSE tl
  /\ nx2[t] = IF k = n THEN NULL ELSE s[k + 1]
  /\ pv2[t] = IF k = 0 THEN NULL ELSE s[k]
  /\ \A i \in 1 .. n : nx2[s[i]] = IF i = k THEN t ELSE nx[s[i]]
  /\ \A i \in 1 .. n : pv2[s[i]] = IF i = k + 1 THEN t ELSE pv[s[i]]

LEMMA InsertChain ==
  ASSUME NEW n, NEW s, NEW h, NEW tl, NEW nx, NEW pv, NEW A,
         Chain(n, s, h, tl, nx, pv, A),
         NEW t, t \notin A, NEW k \in 0 .. n,
         NEW h2, NEW tl2, NEW nx2, NEW pv2,
         LinksIn(n, s, k, t, h, tl, nx, pv, h2, tl2, nx2, pv2)
  PROVE  Chain(n + 1, Inserted(n, s, k, t), h2, tl2, nx2, pv2, A \cup {t})
<1> USE DEF LinksIn
<1> DEFINE s2 == Inserted(n, s, k, t)
<1>0. /\ n \in Nat /\ k \in Nat /\ k <= n
      /\ \A i \in 1 .. n : s[i] \in A
      /\ \A i, j \in 1 .. n : s[i] = s[j] => i = j
      /\ \A u \in A : \E i \in 1 .. n : s[i] = u
  BY DEF Chain
<1>1. /\ \A i \in 1 .. n + 1 : s2[i] = IF i <= k THEN s[i] ELSE IF i = k + 1 THEN t ELSE s[i - 1]
      /\ s2 = [i \in 1 .. n + 1 |-> s2[i]]
  BY <1>0 DEF Inserted
<1> HIDE DEF s2
<1>2. /\ s2[k + 1] = t
      /\ \A i \in 1 .. n : i <= k => s2[i] = s[i]
      /\ \A i \in 1 .. n : i > k => s2[i + 1] = s[i]
  <2>1. k + 1 \in 1 .. n + 1 /\ ~(k + 1 <= k)
    BY <1>0
  <2>2. ASSUME NEW i \in 1 .. n, i <= k
        PROVE  s2[i] = s[i]
    <3>1. i \in 1 .. n + 1
      BY <1>0
    <3>2. QED
      BY <1>1, <2>2, <3>1
  <2>3. ASSUME NEW i \in 1 .. n, i > k
        PROVE  s2[i + 1] = s[i]
    <3>1. i + 1 \in 1 .. n + 1 /\ ~(i + 1 <= k) /\ i + 1 # k + 1 /\ (i + 1) - 1 = i
      BY <1>0, <2>3
    <3>2. QED
      BY <1>1, <3>1
  <2>4. QED
    BY <1>1, <2>1, <2>2, <2>3
\* Every place of s2 but that of t is the place of one of s.
<1>p. ASSUME NEW i \in 1 .. n + 1, i # k + 1
      PROVE  \E j \in 1 .. n : s2[i] = s[j] /\ i = IF j <= k THEN j ELSE j + 1
  <2>1. CASE i <= k
    <3>1. i \in 1 .. n
      BY <1>0, <2>1
    <3>2. QED
      BY <1>2, <2>1, <3>1
  <2>2. CASE i > k + 1
    <3>1. i - 1 \in 1 .. n /\ i - 1 > k /\ (i - 1) + 1 = i /\ ~(i - 1 <= k)
      BY <1>0, <2>2
    <3>2. s2[i] = s[i - 1]
      BY <1>2, <3>1
    <3>3. QED
      BY <3>1, <3>2
  <2>3. QED
    BY <1>0, <1>p, <2>1, <2>2
<1>3. s2 \in [1 .. n + 1 -> A \cup {t}]
  <2>1. ASSUME NEW i \in 1 .. n + 1
        PROVE  s2[i] \in A \cup {t}
    BY <1>0, <1>2, <1>p
  <2>2. QED
    BY <1>1, <2>1
<1>4. ASSUME NEW i \in 1 .. n + 1, NEW j \in 1 .. n + 1, s2[i] = s2[j]
      PROVE  i = j
  <2>1. CASE i = k + 1 \/ j = k + 1
    BY <1>0, <1>2, <1>4, <1>p, <2>1
  <2>2. CASE i # k + 1 /\ j # k + 1
    <3>1. PICK a \in 1 .. n : s2[i] = s[a] /\ i = IF a <= k THEN a ELSE a + 1
      BY <1>p, <2>2
    <3>2. PICK b \in 1 .. n : s2[j] = s[b] /\ j = IF b <= k THEN b ELSE b + 1
      BY <1>p, <2>2
    <3>3. a = b
      <4>1. s[a] = s[b]
        BY <1>4, <3>1, <3>2
      <4>2. QED
        BY <1>0, <4>1
    <3>4. QED
      BY <3>1, <3>2, <3>3
  <2>3. QED
    BY <2>1, <2>2
<1>5. ASSUME NEW u \in A \cup {t}
      PROVE  \E i \in 1 .. n + 1 : s2[i] = u
  <2>1. CASE u = t
    <3>1. k + 1 \in 1 .. n + 1
      BY <1>0
    <3>2. QED
      BY <1>2, <2>1, <3>1
  <2>2. CASE u \in A
    <3>1. PICK i \in 1 .. n : s[i] = u
      BY <1>0, <2>2
    <3>2. i \in 1 .. n + 1 /\ i + 1 \in 1 .. n + 1 /\ (i <= k \/ i > k)
      BY <1>0
    <3>3. QED
      BY <1>2, <3>1, <3>2
  <2>3. QED
    BY <2>1, <2>2
<1>6. h2 = s2[1] /\ pv2[s2[1]] = NULL
  <2>1. CASE k = 0
    BY <1>2, <2>1
  <2>2. CASE k > 0
    <3>1. n > 0 /\ 1 \in 1 .. n /\ 1 # k + 1 /\ 1 <= k /\ k # 0
      BY <1>0, <2>2
    <3>2. s2[1] = s[1] /\ h = s[1] /\ pv[s[1]] = NULL
      BY <1>2, <3>1 DEF Chain
    <3>3. QED
      BY <3>1, <3>2
  <2>3. QED
    BY <1>0, <2>1, <2>2
<1>7. tl2 = s2[n + 1] /\ nx2[s2[n + 1]] = NULL
  <2>1. CASE k = n
    BY <1>2, <2>1
  <2>2. CASE k < n
    <3>1. n > 0 /\ n \in 1 .. n /\ n # k /\ n > k
      BY <1>0, <2>2
    <3>2. s2[n + 1] = s[n] /\ tl = s[n] /\ nx[s[n]] = NULL
      BY <1>2, <3>1 DEF Chain
    <3>3. QED
      BY <3>1, <3>2
  <2>3. QED
    BY <1>0, <2>1, <2>2
<1>8. ASSUME NEW i \in 1 .. n
      PROVE  nx2[s2[i]] = s2[i + 1] /\ pv2[s2[i + 1]] = s2[i]
  <2>0. \A j \in 1 .. n - 1 : nx[s[j]] = s[j + 1] /\ pv[s[j + 1]] = s[j]
    BY DEF Chain
  <2>1. CASE i < k
    <3>1. i \in 1 .. n - 1 /\ i <= k /\ i + 1 <= k /\ i # k /\ i + 1 # k + 1 /\ i + 1 \in 1 .. n
      BY <1>0, <2>1
    <3>2. s2[i] = s[i] /\ s2[i + 1] = s[i + 1]
      BY <1>2, <3>1
    <3>3. QED
      BY <2>0, <3>1, <3>2
  <2>2. CASE i = k
    <3>1. k \in 1 .. n /\ k # 0 /\ k <= k
      BY <1>0, <2>2
    <3>2. s2[i] = s[k] /\ s2[i + 1] = t
      BY <1>2, <2>2, <3>1
    <3>3. QED
      BY <3>1, <3>2
  <2>3. CASE i = k + 1
    <3>1. k # n /\ k + 1 \in 1 .. n /\ k + 1 > k
      BY <1>0, <2>3
    <3>2. s2[i] = t /\ s2[i + 1] = s[k + 1]
      BY <1>2, <2>3, <3>1
    <3>3. QED
      BY <3>1, <3>2
  <2>4. CASE i > k + 1
    <3>1. /\ i - 1 \in 1 .. n - 1 /\ (i - 1) + 1 = i /\ i - 1 # k /\ i # k + 1
          /\ i - 1 \in 1 .. n /\ i - 1 > k /\ i > k
      BY <1>0, <2>4
    <3>2. s2[i] = s[i - 1] /\ s2[i + 1] = s[i]
      BY <1>2, <3>1
    <3>3. QED
      BY <2>0, <3>1, <3>2
  <2>5. QED
    BY <1>0, <2>1, <2>2, <2>3, <2>4
<1>9. Chain(n + 1, s2, h2, tl2, nx2, pv2, A \cup {t})
  <2>1. n + 1 \in Nat /\ n + 1 > 0 /\ n + 1 # 0 /\ (n + 1) - 1 = n
    BY <1>0
  <2>2. QED
    BY <1>3, <1>4, <1>5, <1>6, <1>7, <1>8, <2>1 DEF Chain
<1>10. QED
  BY <1>9 DEF s2

\* What the fields of the k-th timer hold.
LEMMA LinksOfChain ==
  ASSUME NEW n, NEW s, NEW h, NEW tl, NEW nx, NEW pv, NEW A,
         Chain(n, s, h, tl, nx, pv, A), NEW k \in 1 .. n
  PROVE  /\ n \in Nat /\ s[k] \in A
         /\ nx[s[k]] = IF k = n THEN NULL ELSE s[k + 1]
         /\ pv[s[k]] = IF k = 1 THEN NULL ELSE s[k - 1]
         /\ s[k] = h <=> k = 1
         /\ s[k] = tl <=> k = n
         /\ \A i \in 1 .. n : s[i] = s[k] => i = k
<1>1. /\ n \in Nat /\ n > 0 /\ 1 \in 1 .. n /\ n \in 1 .. n
      /\ \A i \in 1 .. n : s[i] \in A
      /\ \A i, j \in 1 .. n : s[i] = s[j] => i = j
      /\ h = s[1] /\ pv[s[1]] = NULL /\ tl = s[n] /\ nx[s[n]] = NULL
      /\ \A i \in 1 .. n - 1 : nx[s[i]] = s[i + 1] /\ pv[s[i + 1]] = s[i]
  BY DEF Chain
<1>2. nx[s[k]] = IF k = n THEN NULL ELSE s[k + 1]
  <2>1. k # n => k \in 1 .. n - 1
    BY <1>1
  <2>2. QED
    BY <1>1, <2>1
<1>3. pv[s[k]] = IF k = 1 THEN NULL ELSE s[k - 1]
  <2>1. k # 1 => k - 1 \in 1 .. n - 1 /\ (k - 1) + 1 = k
    BY <1>1
  <2>2. QED
    BY <1>1, <2>1
<1>4. QED
  BY <1>1, <1>2, <1>3

Removed(n, s, k) == [i \in 1 .. n - 1 |-> IF i < k THEN s[i] ELSE s[i + 1]]

\* The k-th timer is unlinked.
LinksOut(n, s, k, h, tl, nx, pv, h2, tl2, nx2, pv2) ==
  /\ h2 = IF k > 1 THEN h ELSE IF n = 1 THEN NULL ELSE s[2]
  /\ n > 1 => tl2 = IF k = n THEN s[n - 1] ELSE tl
  /\ \A i \in 1 .. n : i # k =>
       nx2[s[i]] = IF i = k - 1 THEN IF k = n THEN NULL ELSE s[k + 1] ELSE nx[s[i]]
  /\ \A i \in 1 .. n : i # k =>
       pv2[s[i]] = IF i = k + 1 THEN IF k = 1 THEN NULL ELSE s[k - 1] ELSE pv[s[i]]

LEMMA RemoveChain ==
  ASSUME NEW n, NEW s, NEW h, NEW tl, NEW nx, NEW pv, NEW A,
         Chain(n, s, h, tl, nx, pv, A), NEW k \in 1 .. n,
         NEW h2, NEW tl2, NEW nx2, NEW pv2,
         LinksOut(n, s, k, h, tl, nx, pv, h2, tl2, nx2, pv2)
  PROVE  Chain(n - 1, Removed(n, s, k), h2, tl2, nx2, pv2, A \ {s[k]})
<1> USE DEF LinksOut
<1> DEFINE s2 == Removed(n, s, k)
<1>0. /\ n \in Nat /\ k \in Nat /\ k <= n /\ k >= 1 /\ n - 1 \in Nat
      /\ \A i \in 1 .. n : s[i] \in A
      /\ \A i, j \in 1 .. n : s[i] = s[j] => i = j
      /\ \A u \in A : \E i \in 1 .. n : s[i] = u
      /\ h = s[1] /\ tl = s[n]
      /\ \A j \in 1 .. n - 1 : nx[s[j]] = s[j + 1] /\ pv[s[j + 1]] = s[j]
      /\ nx[s[n]] = NULL /\ pv[s[1]] = NULL
  BY DEF Chain
<1>1. /\ \A i \in 1 .. n - 1 : s2[i] = IF i < k THEN s[i] ELSE s[i + 1]
      /\ s2 = [i \in 1 .. n - 1 |-> s2[i]]
  BY DEF Removed
<1> HIDE DEF s2
\* Every place of s2 is one of s other than k, and the other way round.
<1>2. ASSUME NEW i \in 1 .. n - 1
      PROVE  /\ i < k => i \in 1 .. n /\ i # k /\ s2[i] = s[i]
             /\ i >= k => i + 1 \in 1 .. n /\ i + 1 # k /\ s2[i] = s[i + 1]
  <2>1. i \in 1 .. n /\ i + 1 \in 1 .. n /\ (i >= k => ~(i < k) /\ i + 1 # k)
    BY <1>0
  <2>2. QED
    BY <1>1, <2>1
<1>3. ASSUME NEW j \in 1 .. n, j # k
      PROVE  \E i \in 1 .. n - 1 : s2[i] = s[j]
  <2>1. CASE j < k
    <3>1. j \in 1 .. n - 1
      BY <1>0, <2>1
    <3>2. QED
      BY <1>2, <2>1, <3>1
  <2>2. CASE j > k
    <3>1. j - 1 \in 1 .. n - 1 /\ j - 1 >= k /\ (j - 1) + 1 = j
      BY <1>0, <2>2
    <3>2. s2[j - 1] = s[j]
      BY <1>2, <3>1
    <3>3. QED
      BY <3>1, <3>2
  <2>3. QED
    BY <1>0, <1>3, <2>1, <2>2
<1>4. s2 \in [1 .. n - 1 -> A \ {s[k]}]
  <2>1. ASSUME NEW i \in 1 .. n - 1
        PROVE  s2[i] \in A \ {s[k]}
    <3>1. i < k \/ i >= k
      BY <1>0
    <3>2. QED
      BY <1>0, <1>2, <3>1
  <2>2. QED
    BY <1>1, <2>1
<1>5. ASSUME NEW i \in 1 .. n - 1, NEW j \in 1 .. n - 1, s2[i] = s2[j]
      PROVE  i = j
  <2>1. PICK a \in 1 .. n : s2[i] = s[a] /\ a # k /\ i = IF a < k THEN a ELSE a - 1
    BY <1>0, <1>2
  <2>2. PICK b \in 1 .. n : s2[j] = s[b] /\ b # k /\ j = IF b < k THEN b ELSE b - 1
    BY <1>0, <1>2
  <2>3. s[a] = s[b]
    BY <1>5, <2>1, <2>2
  <2>4. QED
    BY <1>0, <2>1, <2>2, <2>3
<1>6. ASSUME NEW u \in A \ {s[k]}
      PROVE  \E i \in 1 .. n - 1 : s2[i] = u
  <2>1. PICK j \in 1 .. n : s[j] = u
    BY <1>0
  <2>2. QED
    BY <1>3, <1>6, <2>1
<1>7. n - 1 = 0 => h2 = NULL
  BY <1>0
<1>8. ASSUME n - 1 > 0
      PROVE  h2 = s2[1] /\ pv2[s2[1]] = NULL
  <2>0. 1 \in 1 .. n - 1 /\ 1 \in 1 .. n /\ 2 \in 1 .. n /\ n # 1 /\ 1 # k + 1
    BY <1>0, <1>8
  <2>1. CASE k = 1
    <3>1. s2[1] = s[2] /\ 2 = k + 1 /\ 2 # k
      BY <1>2, <2>0, <2>1
    <3>2. QED
      BY <2>0, <2>1, <3>1
  <2>2. CASE k > 1
    <3>1. s2[1] = s[1] /\ 1 # k
      BY <1>2, <2>0, <2>2
    <3>2. QED
      BY <1>0, <2>0, <2>2, <3>1
  <2>3. QED
    BY <1>0, <2>1, <2>2
<1>9. ASSUME n - 1 > 0
      PROVE  tl2 = s2[n - 1] /\ nx2[s2[n - 1]] = NULL
  <2>0. n - 1 \in 1 .. n - 1 /\ n - 1 \in 1 .. n /\ n \in 1 .. n /\ n > 1 /\ (n - 1) + 1 = n
    BY <1>0, <1>9
  <2>1. CASE k = n
    <3>1. n - 1 < k /\ n - 1 # k /\ n - 1 = k - 1
      BY <1>0, <2>1
    <3>2. s2[n - 1] = s[n - 1]
      BY <1>2, <2>0, <3>1
    <3>3. QED
      BY <2>0, <2>1, <3>1, <3>2
  <2>2. CASE k < n
    <3>1. n - 1 >= k /\ n # k /\ n # k - 1 /\ k # n
      BY <1>0, <2>2
    <3>2. s2[n - 1] = s[n]
      BY <1>2, <2>0, <3>1
    <3>3. QED
      BY <1>0, <2>0, <3>1, <3>2
  <2>3. QED
    BY <1>0, <2>1, <2>2
<1>10. ASSUME NEW i \in 1 .. (n - 1) - 1
       PROVE  nx2[s2[i]] = s2[i + 1] /\ pv2[s2[i + 1]] = s2[i]
  <2>0. i \in 1 .. n - 1 /\ i + 1 \in 1 .. n - 1 /\ i \in 1 .. n /\ i + 1 \in 1 .. n /\ (i + 1) + 1 \in 1 .. n
    BY <1>0
  <2>1. CASE i < k - 1
    <3>1. i < k /\ i + 1 < k /\ i # k /\ i # k - 1 /\ i + 1 # k + 1 /\ i + 1 # k
      BY <1>0, <2>1
    <3>2. s2[i] = s[i] /\ s2[i + 1] = s[i + 1]
      BY <1>2, <2>0, <3>1
    <3>3. QED
      BY <1>0, <2>0, <3>1, <3>2
  <2>2. CASE i = k - 1
    <3>1. i < k /\ i + 1 >= k /\ i # k /\ k # n /\ k # 1 /\ (i + 1) + 1 = k + 1 /\ k + 1 # k /\ k + 1 \in 1 .. n
      BY <1>0, <2>0, <2>2
    <3>2. s2[i] = s[k - 1] /\ s2[i + 1] = s[k + 1]
      BY <1>2, <2>0, <2>2, <3>1
    <3>3. nx2[s[k - 1]] = s[k + 1]
      BY <2>0, <2>2, <3>1
    <3>4. pv2[s[k + 1]] = s[k - 1]
      BY <3>1
    <3>5. QED
      BY <3>2, <3>3, <3>4
  <2>3. CASE i > k - 1
    <3>1. /\ i >= k /\ i + 1 >= k /\ i + 1 # k - 1 /\ i + 1 # k
          /\ (i + 1) + 1 # k + 1 /\ (i + 1) + 1 # k
      BY <1>0, <2>3
    <3>2. s2[i] = s[i + 1] /\ s2[i + 1] = s[(i + 1) + 1]
      BY <1>2, <2>0, <3>1
    <3>3. nx[s[i + 1]] = s[(i + 1) + 1] /\ pv[s[(i + 1) + 1]] = s[i + 1]
      BY <1>0, <2>0
    <3>4. nx2[s[i + 1]] = nx[s[i + 1]] /\ pv2[s[(i + 1) + 1]] = pv[s[(i + 1) + 1]]
      BY <2>0, <3>1
    <3>5. QED
      BY <3>2, <3>3, <3>4
  <2>4. QED
    BY <1>0, <2>1, <2>2, <2>3
<1>11. Chain(n - 1, s2, h2, tl2, nx2, pv2, A \ {s[k]})
  BY <1>0, <1>4, <1>5, <1>6, <1>7, <1>8, <1>9, <1>10 DEF Chain
<1>12. QED
  BY <1>11 DEF s2

Dropped(n, s, k) == [i \in 1 .. n - k |-> s[i + k]]

\* The first k timers are taken off.
LinksOff(n, s, k, h, nx, pv, h2, nx2, pv2) ==
  /\ h2 = IF k = n THEN NULL ELSE s[k + 1]
  /\ \A i \in 1 .. n : i > k => nx2[s[i]] = nx[s[i]]
  /\ \A i \in 1 .. n : i > k => pv2[s[i]] = IF i = k + 1 THEN NULL ELSE pv[s[i]]

LEMMA DropChain ==
  ASSUME NEW n, NEW s, NEW h, NEW tl, NEW nx, NEW pv, NEW A,
         Chain(n, s, h, tl, nx, pv, A), NEW k \in 0 .. n,
         NEW h2, NEW nx2, NEW pv2,
         LinksOff(n, s, k, h, nx, pv, h2, nx2, pv2)
  PROVE  Chain(n - k, Dropped(n, s, k), h2, tl, nx2, pv2, A \ {s[i] : i \in 1 .. k})
<1> USE DEF LinksOff
<1> DEFINE s2 == Dropped(n, s, k)
           A2 == A \ {s[i] : i \in 1 .. k}
<1>0. /\ n \in Nat /\ k \in Nat /\ k <= n /\ n - k \in Nat
      /\ \A i \in 1 .. n : s[i] \in A
      /\ \A i, j \in 1 .. n : s[i] = s[j] => i = j
      /\ \A u \in A : \E i \in 1 .. n : s[i] = u
      /\ n > 0 => tl = s[n] /\ nx[s[n]] = NULL
      /\ \A j \in 1 .. n - 1 : nx[s[j]] = s[j + 1] /\ pv[s[j + 1]] = s[j]
  BY DEF Chain
<1>1. s2 = [i \in 1 .. n - k |-> s2[i]] /\ \A i \in 1 .. n - k : s2[i] = s[i + k]
  BY DEF Dropped
<1> HIDE DEF s2
<1>2. \A i \in 1 .. n - k : i + k \in 1 .. n /\ i + k > k
  BY <1>0
<1>3. \A i \in 1 .. n : s[i] \in A2 <=> i > k
  <2>1. ASSUME NEW i \in 1 .. n, i > k, NEW j \in 1 .. k
        PROVE  s[i] # s[j]
    <3>1. j \in 1 .. n /\ i # j
      BY <1>0, <2>1
    <3>2. QED
      BY <1>0, <3>1
  <2>2. \A i \in 1 .. n : ~(i > k) => i \in 1 .. k
    BY <1>0
  <2>3. QED
    BY <1>0, <2>1, <2>2
<1> HIDE DEF A2
<1>4. s2 \in [1 .. n - k -> A2]
  BY <1>1, <1>2, <1>3
<1>5. ASSUME NEW i \in 1 .. n - k, NEW j \in 1 .. n - k, s2[i] = s2[j]
      PROVE  i = j
  <2>1. s[i + k] = s[j + k] /\ i + k \in 1 .. n /\ j + k \in 1 .. n
    BY <1>1, <1>2, <1>5
  <2>2. i + k = j + k
    BY <1>0, <2>1
  <2>3. QED
    BY <1>0, <2>2
<1>6. ASSUME NEW u \in A2
      PROVE  \E i \in 1 .. n - k : s2[i] = u
  <2>1. PICK j \in 1 .. n : s[j] = u
    BY <1>0 DEF A2
  <2>2. j > k
    BY <1>3, <2>1
  <2>3. j - k \in 1 .. n - k /\ (j - k) + k = j
    BY <1>0, <2>2
  <2>4. s2[j - k] = u
    BY <1>1, <2>1, <2>3
  <2>5. QED
    BY <2>3, <2>4
<1>7. n - k = 0 => h2 = NULL
  BY <1>0
<1>8. ASSUME n - k > 0
      PROVE  /\ h2 = s2[1] /\ pv2[s2[1]] = NULL
             /\ tl = s2[n - k] /\ nx2[s2[n - k]] = NULL
  <2>1. /\ 1 \in 1 .. n - k /\ 1 + k = k + 1 /\ k + 1 \in 1 .. n /\ k + 1 > k /\ k # n
        /\ n - k \in 1 .. n - k /\ (n - k) + k = n /\ n \in 1 .. n /\ n > k /\ n > 0
    BY <1>0, <1>8
  <2>2. s2[1] = s[k + 1] /\ s2[n - k] = s[n]
    BY <1>1, <2>1
  <2>3. QED
    BY <1>0, <2>1, <2>2
<1>9. ASSUME NEW i \in 1 .. (n - k) - 1
      PROVE  nx2[s2[i]] = s2[i + 1] /\ pv2[s2[i + 1]] = s2[i]
  <2>1. /\ i \in 1 .. n - k /\ i + 1 \in 1 .. n - k /\ (i + 1) + k = (i + k) + 1
        /\ i + k \in 1 .. n - 1 /\ i + k \in 1 .. n /\ (i + k) + 1 \in 1 .. n
        /\ i + k > k /\ (i + k) + 1 > k /\ (i + k) + 1 # k + 1
    BY <1>0
  <2>2. s2[i] = s[i + k] /\ s2[i + 1] = s[(i + k) + 1]
    BY <1>1, <2>1
  <2>3. nx[s[i + k]] = s[(i + k) + 1] /\ pv[s[(i + k) + 1]] = s[i + k]
    BY <1>0, <2>1
  <2>4. nx2[s[i + k]] = nx[s[i + k]] /\ pv2[s[(i + k) + 1]] = pv[s[(i + k) + 1]]
    BY <2>1
  <2>5. QED
    BY <2>2, <2>3, <2>4
<1>10. Chain(n - k, s2, h2, tl, nx2, pv2, A2)
  BY <1>0, <1>4, <1>5, <1>6, <1>7, <1>8, <1>9 DEF Chain
<1>11. QED
  BY <1>10 DEF s2, A2

-----------------------------------------------------------------------------
GoesBehind(p, e, s, k0, nx, x) == p = Before(e, s[k0], nx, x)

\* From the k0-th on the k-th is the first behind which e may go.
StopsAt(n, s, k0, k, e, x) ==
  /\ k < n => e < x[s[k + 1]]
  /\ \A j \in k0 + 1 .. k : x[s[j]] <= e

(***************************************************************************)
(* The private add_timer, called with the k0-th timer of a chain, finds a  *)
(* timer from the k0-th on.  It goes past those behind the k0-th that      *)
(* expire no later than e, and stops before one that expires later.        *)
(***************************************************************************)
LEMMA BeforeInChain ==
  ASSUME NEW n, NEW s, NEW h, NEW tl, NEW nx \in [Timer -> Ptr], NEW pv,
         NEW A \in SUBSET Timer, Chain(n, s, h, tl, nx, pv, A),
         NEW x \in [Timer -> 0 .. MaxTime],
         NEW e \in 0 .. MaxTime, NEW k0 \in 1 .. n,
         NEW p, GoesBehind(p, e, s, k0, nx, x)
  PROVE  \E k \in k0 .. n :
           p = s[k] /\ StopsAt(n, s, k0, k, e, x)
<1> DEFINE N == Cardinality(Timer)
           walk == Path(s[k0], nx)
           Stops(m) == walk[m] # NULL /\ (nx[walk[m]] = NULL \/ e < x[nx[walk[m]]])
           n0 == CHOOSE m \in DOMAIN walk : Stops(m) /\ \A j \in 0 .. m - 1 : ~Stops(j)
           Found == {m \in 0 .. N : Stops(m)}
<1>0. /\ n \in Nat /\ N \in Nat /\ n <= N /\ k0 \in Nat /\ 1 <= k0 /\ k0 <= n
      /\ MaxTime \in Nat /\ NULL \notin Timer
  BY ChainLength, TimersFinite
<1>1. DOMAIN walk = 0 .. N
  <2> DEFINE first == s[k0]
  <2> HIDE DEF first
  <2>1. Path(first, nx) =
          [m \in 0 .. N |->
             IF m = 0 THEN first
             ELSE IF Path(first, nx)[m - 1] = NULL THEN NULL ELSE nx[Path(first, nx)[m - 1]]]
    BY PathDef
  <2> DEFINE path == Path(first, nx)
  <2> HIDE DEF path
  <2>2. DOMAIN path = 0 .. N
    BY <2>1 DEF path
  <2>3. QED
    BY <2>2 DEF path, first
<1>2. Before(e, s[k0], nx, x) = walk[n0]
  BY DEF Before
<1>3. \A m \in 0 .. N : walk[m] = IF k0 + m <= n THEN s[k0 + m] ELSE NULL
  <2>1. k0 \in 1 .. n + 1 /\ k0 <= n
    BY <1>0
  <2>2. s[k0] = IF k0 <= n THEN s[k0] ELSE NULL
    BY <1>0
  <2>3. QED
    BY <2>1, <2>2, PathOfChain
<1> HIDE DEF N, walk
<1>4. \A i \in 1 .. n : s[i] \in Timer /\ s[i] # NULL
  BY <1>0 DEF Chain
<1>5. \A i \in 1 .. n : nx[s[i]] = IF i = n THEN NULL ELSE s[i + 1]
  BY LinksOfChain
<1>6. PICK m \in Found : \A j \in Found : m <= j
  <2>1. n - k0 \in 0 .. N /\ k0 + (n - k0) = n /\ n <= n /\ n \in 1 .. n
    BY <1>0
  <2>2. walk[n - k0] = s[n]
    BY <1>3, <2>1
  <2>3. n - k0 \in Found
    BY <1>4, <1>5, <2>1, <2>2
  <2>4. Found \in SUBSET Nat /\ Found # {}
    BY <1>0, <2>3
  <2> HIDE DEF Found
  <2>5. QED
    BY <2>4, LeastNumber
<1>7. m \in 0 .. N /\ Stops(m) /\ \A j \in 0 .. m - 1 : ~Stops(j)
  <2>1. \A j \in 0 .. m - 1 : j \in 0 .. N /\ ~(m <= j)
    BY <1>0
  <2>2. QED
    BY <1>6, <2>1
<1>8. n0 = m
  <2>1. n0 \in 0 .. N /\ Stops(n0) /\ \A j \in 0 .. n0 - 1 : ~Stops(j)
    <3> HIDE DEF Stops
    <3>1. QED
      BY <1>1, <1>7
  <2>2. ~(n0 < m) /\ ~(m < n0)
    <3> HIDE DEF Stops, n0
    <3>1. n0 < m => n0 \in 0 .. m - 1
      BY <1>0, <1>7, <2>1
    <3>2. m < n0 => m \in 0 .. n0 - 1
      BY <1>0, <1>7, <2>1
    <3>3. QED
      BY <1>7, <2>1, <3>1, <3>2
  <2> HIDE DEF Stops, n0
  <2>3. QED
    BY <1>0, <1>7, <2>1, <2>2
<1> DEFINE k == k0 + m
<1>9. k <= n /\ walk[m] = s[k]
  BY <1>3, <1>7
<1>10. k \in k0 .. n /\ k \in 1 .. n /\ m \in Nat
  BY <1>0, <1>7, <1>9
<1>11. Before(e, s[k0], nx, x) = s[k] /\ (nx[s[k]] = NULL \/ e < x[nx[s[k]]])
  <2> HIDE DEF n0, k
  <2>1. QED
    BY <1>2, <1>7, <1>8, <1>9
<1>12. \A j \in k0 + 1 .. k : x[s[j]] <= e
  <2>1. ASSUME NEW j \in k0 + 1 .. k
        PROVE  x[s[j]] <= e
    <3>1. /\ j - 1 - k0 \in 0 .. m - 1 /\ j - 1 - k0 \in 0 .. N /\ k0 + (j - 1 - k0) = j - 1
          /\ j - 1 <= n /\ j - 1 \in 1 .. n /\ j - 1 # n /\ (j - 1) + 1 = j /\ j \in 1 .. n
      BY <1>0, <1>7, <1>9
    <3>2. walk[j - 1 - k0] = s[j - 1]
      BY <1>3, <3>1
    <3>3. nx[s[j - 1]] = s[j] /\ s[j - 1] # NULL /\ s[j] # NULL /\ s[j] \in Timer
      BY <1>4, <1>5, <3>1
    <3>4. ~Stops(j - 1 - k0)
      BY <1>7, <3>1
    <3>5. ~(e < x[s[j]])
      BY <3>2, <3>3, <3>4
    <3>6. x[s[j]] \in 0 .. MaxTime
      BY <3>3
    <3>7. QED
      BY <1>0, <3>5, <3>6
  <2>2. QED
    BY <2>1
<1>13. k < n => e < x[s[k + 1]]
  <2>1. k < n => k # n /\ k + 1 \in 1 .. n
    BY <1>0, <1>10
  <2> HIDE DEF k
  <2>2. k < n => nx[s[k]] = s[k + 1] /\ s[k + 1] # NULL
    BY <1>4, <1>5, <1>10, <2>1
  <2>3. QED
    BY <1>11, <2>2
<1> HIDE DEF k
<1>14. p = s[k]
  BY <1>11 DEF GoesBehind
<1>15. QED
  BY <1>10, <1>12, <1>13, <1>14 DEF StopsAt

\* Then it links t in behind that timer, p.
LinksBehind(t, p, tl, nx, pv, tl2, nx2, pv2) ==
  /\ nx2 = [nx EXCEPT ![p] = t, ![t] = nx[p]]
  /\ pv2 = [Set(pv, nx[p], t) EXCEPT ![t] = p]
  /\ tl2 = IF nx[p] = NULL THEN t ELSE tl

LEMMA LinkBehind ==
  ASSUME NEW n, NEW s, NEW h, NEW tl \in Ptr, NEW nx \in [Timer -> Ptr],
         NEW pv \in [Timer -> Ptr], NEW A \in SUBSET Timer,
         Chain(n, s, h, tl, nx, pv, A),
         NEW t \in Timer, t \notin A, NEW k \in 1 .. n,
         NEW tl2, NEW nx2, NEW pv2,
         LinksBehind(t, s[k], tl, nx, pv, tl2, nx2, pv2)
  PROVE  /\ nx2 \in [Timer -> Ptr] /\ pv2 \in [Timer -> Ptr] /\ tl2 \in Ptr
         /\ \A u \in Timer : u \notin A /\ u # t => nx2[u] = nx[u] /\ pv2[u] = pv[u]
         /\ Chain(n + 1, Inserted(n, s, k, t), h, tl2, nx2, pv2, A \cup {t})
<1> DEFINE p == s[k]
<1> USE DEF LinksBehind
<1>0. /\ n \in Nat /\ NULL \notin Timer
      /\ \A i \in 1 .. n : s[i] \in A /\ s[i] \in Timer /\ s[i] # NULL /\ s[i] # t
      /\ \A i, j \in 1 .. n : s[i] = s[j] => i = j
  BY TimersFinite DEF Chain
<1>1. k \in 0 .. n /\ k # 0 /\ (k # n => k + 1 \in 1 .. n)
  BY <1>0
<1>2. p \in Timer /\ p # t /\ p \in A /\ nx[p] = IF k = n THEN NULL ELSE s[k + 1]
  BY <1>0, LinksOfChain
<1>3. nx[p] # t /\ nx[p] \in Ptr /\ (nx[p] # NULL => nx[p] \in A)
  BY <1>0, <1>1, <1>2 DEF Ptr
<1>4. /\ nx2[t] = nx[p]
      /\ \A u \in Timer : u # t => nx2[u] = IF u = p THEN t ELSE nx[u]
      /\ nx2 \in [Timer -> Ptr]
  BY <1>2, <1>3 DEF Ptr
<1>5. /\ pv2[t] = p
      /\ \A u \in Timer : u # t => pv2[u] = IF u = nx[p] THEN t ELSE pv[u]
      /\ pv2 \in [Timer -> Ptr]
  <2>1. CASE nx[p] = NULL
    BY <1>0, <1>2, <2>1 DEF Set, Ptr
  <2>2. CASE nx[p] # NULL
    BY <1>0, <1>2, <1>3, <2>2 DEF Set, Ptr
  <2>3. QED
    BY <2>1, <2>2
<1>6. nx2[t] = IF k = n THEN NULL ELSE s[k + 1]
  BY <1>2, <1>4
<1>7. pv2[t] = IF k = 0 THEN NULL ELSE s[k]
  BY <1>1, <1>5
<1>8. tl2 = IF k = n THEN t ELSE tl
  BY <1>0, <1>1, <1>2
<1>9. \A i \in 1 .. n : nx2[s[i]] = IF i = k THEN t ELSE nx[s[i]]
  BY <1>0, <1>4
<1>10. \A i \in 1 .. n : pv2[s[i]] = IF i = k + 1 THEN t ELSE pv[s[i]]
  <2>1. ASSUME NEW i \in 1 .. n
        PROVE  s[i] = nx[p] <=> i = k + 1
    <3>1. k = n => i # k + 1
      BY <1>0
    <3>2. QED
      BY <1>0, <1>1, <1>2, <3>1
  <2>2. QED
    BY <1>0, <1>5, <2>1
<1>11. h = IF k = 0 THEN t ELSE h
  BY <1>1
<1>12. Chain(n + 1, Inserted(n, s, k, t), h, tl2, nx2, pv2, A \cup {t})
  <2> HIDE DEF p
  <2>1. LinksIn(n, s, k, t, h, tl, nx, pv, h, tl2, nx2, pv2)
    BY <1>1, <1>6, <1>7, <1>8, <1>9, <1>10, <1>11 DEF LinksIn
  <2>2. QED
    BY <1>1, <2>1, InsertChain
<1>13. QED
  BY <1>0, <1>2, <1>3, <1>4, <1>5, <1>8, <1>12 DEF Ptr

-----------------------------------------------------------------------------
\* The times x of a chain never decrease.
Ordered(n, s, x) == \A i \in 1 .. n - 1 : x[s[i]] <= x[s[i + 1]]

LEMMA SortedChain ==
  ASSUME NEW n, NEW s, NEW h, NEW tl, NEW nx, NEW pv, NEW A, A \subseteq Timer,
         Chain(n, s, h, tl, nx, pv, A), NEW x
  PROVE  (\A t \in A : nx[t] # NULL => x[t] <= x[nx[t]]) <=> Ordered(n, s, x)
<1>0. /\ n \in Nat /\ NULL \notin Timer
      /\ \A i \in 1 .. n : s[i] \in A /\ s[i] # NULL
      /\ \A u \in A : \E i \in 1 .. n : s[i] = u
  BY TimersFinite DEF Chain
<1>1. \A i \in 1 .. n : nx[s[i]] = IF i = n THEN NULL ELSE s[i + 1]
  BY LinksOfChain
<1>2. ASSUME \A t \in A : nx[t] # NULL => x[t] <= x[nx[t]], NEW i \in 1 .. n - 1
      PROVE  x[s[i]] <= x[s[i + 1]]
  <2>1. i \in 1 .. n /\ i # n /\ i + 1 \in 1 .. n
    BY <1>0
  <2>2. QED
    BY <1>0, <1>1, <1>2, <2>1
<1>3. ASSUME Ordered(n, s, x), NEW t \in A, nx[t] # NULL
      PROVE  x[t] <= x[nx[t]]
  <2>1. PICK i \in 1 .. n : s[i] = t
    BY <1>0
  <2>2. i # n /\ nx[t] = s[i + 1]
    BY <1>1, <1>3, <2>1
  <2>3. i \in 1 .. n - 1
    BY <1>0, <2>2
  <2>4. QED
    BY <1>3, <2>1, <2>2, <2>3 DEF Ordered
<1>4. QED
  BY <1>2, <1>3 DEF Ordered

\* Of two timers of an ordered chain the earlier one does not expire later.
LEMMA OrderedPairs ==
  ASSUME NEW n \in Nat, NEW s, NEW x, \A i \in 1 .. n : x[s[i]] \in Int,
         Ordered(n, s, x), NEW i \in 1 .. n, NEW j \in i .. n
  PROVE  x[s[i]] <= x[s[j]]
<1> DEFINE Bad == {k \in i .. n : ~(x[s[i]] <= x[s[k]])}
<1>1. Bad = {}
  <2> SUFFICES ASSUME Bad # {} PROVE FALSE
    OBVIOUS
  <2>0. Bad \in SUBSET Nat
    OBVIOUS
  <2>1. PICK k \in Bad : \A m \in Bad : k <= m
    BY <2>0, LeastNumber
  <2>2. k # i
    BY <2>1
  <2>3. k - 1 \in i .. n /\ k - 1 \in 1 .. n - 1 /\ k \in 1 .. n /\ k - 1 \in 1 .. n /\ (k - 1) + 1 = k
    BY <2>1, <2>2
  <2>4. k - 1 \notin Bad
    BY <2>1, <2>3
  <2>5. x[s[i]] <= x[s[k - 1]] /\ x[s[k - 1]] <= x[s[k]]
    BY <2>3, <2>4 DEF Ordered
  <2>6. x[s[i]] <= x[s[k]]
    BY <2>3, <2>5
  <2>7. QED
    BY <2>1, <2>6
<1>2. QED
  BY <1>1

\* A timer inserted where its time belongs leaves the chain ordered.
LEMMA OrderedInsert ==
  ASSUME NEW n \in Nat, NEW s, NEW x, Ordered(n, s, x),
         NEW k \in 0 .. n, NEW t, NEW x2,
         \A i \in 1 .. n : x2[s[i]] = x[s[i]],
         k > 0 => x[s[k]] <= x2[t],
         k < n => x2[t] <= x[s[k + 1]]
  PROVE  Ordered(n + 1, Inserted(n, s, k, t), x2)
<1> DEFINE s2 == Inserted(n, s, k, t)
<1>1. \A i \in 1 .. n + 1 : s2[i] = IF i <= k THEN s[i] ELSE IF i = k + 1 THEN t ELSE s[i - 1]
  BY DEF Inserted
<1> HIDE DEF s2
<1>2. ASSUME NEW i \in 1 .. (n + 1) - 1
      PROVE  x2[s2[i]] <= x2[s2[i + 1]]
  <2>0. i \in 1 .. n + 1 /\ i + 1 \in 1 .. n + 1 /\ i \in 1 .. n /\ (i + 1) - 1 = i
    OBVIOUS
  <2>1. CASE i < k
    <3>1. i <= k /\ i + 1 <= k /\ i \in 1 .. n - 1 /\ i + 1 \in 1 .. n
      BY <2>1
    <3>2. s2[i] = s[i] /\ s2[i + 1] = s[i + 1]
      BY <1>1, <2>0, <3>1
    <3>3. QED
      BY <3>1, <3>2, <2>0 DEF Ordered
  <2>2. CASE i = k
    <3>1. i <= k /\ ~(i + 1 <= k) /\ k > 0
      BY <2>2
    <3>2. s2[i] = s[k] /\ s2[i + 1] = t
      BY <1>1, <2>0, <2>2, <3>1
    <3>3. QED
      BY <2>0, <2>2, <3>1, <3>2
  <2>3. CASE i = k + 1
    <3>1. ~(i <= k) /\ ~(i + 1 <= k) /\ i + 1 # k + 1 /\ k < n /\ k + 1 \in 1 .. n
      BY <2>3
    <3>2. s2[i] = t /\ s2[i + 1] = s[k + 1]
      BY <1>1, <2>0, <2>3, <3>1
    <3>3. QED
      BY <3>1, <3>2
  <2>4. CASE i > k + 1
    <3>1. /\ ~(i <= k) /\ i # k + 1 /\ ~(i + 1 <= k) /\ i + 1 # k + 1
          /\ i - 1 \in 1 .. n - 1 /\ (i - 1) + 1 = i /\ i - 1 \in 1 .. n
      BY <2>4
    <3>2. s2[i] = s[i - 1] /\ s2[i + 1] = s[i]
      BY <1>1, <2>0, <3>1
    <3>3. x[s[i - 1]] <= x[s[i]]
      BY <3>1 DEF Ordered
    <3>4. QED
      BY <2>0, <3>1, <3>2, <3>3
  <2>5. QED
    BY <2>1, <2>2, <2>3, <2>4
<1>3. QED
  BY <1>2 DEF Ordered, s2

LEMMA OrderedRemove ==
  ASSUME NEW n \in Nat, NEW s, NEW x, \A i \in 1 .. n : x[s[i]] \in Int,
         Ordered(n, s, x), NEW k \in 1 .. n
  PROVE  Ordered(n - 1, Removed(n, s, k), x)
<1> DEFINE s2 == Removed(n, s, k)
<1>1. \A i \in 1 .. n - 1 : s2[i] = IF i < k THEN s[i] ELSE s[i + 1]
  BY DEF Removed
<1> HIDE DEF s2
<1>2. ASSUME NEW i \in 1 .. (n - 1) - 1
      PROVE  x[s2[i]] <= x[s2[i + 1]]
  <2> DEFINE a == IF i < k THEN i ELSE i + 1
             b == IF i + 1 < k THEN i + 1 ELSE (i + 1) + 1
  <2>1. a \in 1 .. n /\ b \in a .. n /\ i \in 1 .. n - 1 /\ i + 1 \in 1 .. n - 1
    OBVIOUS
  <2>2. s2[i] = s[a] /\ s2[i + 1] = s[b]
    BY <1>1, <2>1
  <2> HIDE DEF a, b
  <2>3. x[s[a]] <= x[s[b]]
    BY <2>1, OrderedPairs
  <2>4. QED
    BY <2>2, <2>3
<1>3. QED
  BY <1>2 DEF Ordered, s2

LEMMA OrderedDrop ==
  ASSUME NEW n \in Nat, NEW s, NEW x, Ordered(n, s, x), NEW k \in 0 .. n
  PROVE  Ordered(n - k, Dropped(n, s, k), x)
<1>1. ASSUME NEW i \in 1 .. (n - k) - 1
      PROVE  x[Dropped(n, s, k)[i]] <= x[Dropped(n, s, k)[i + 1]]
  <2>1. i \in 1 .. n - k /\ i + 1 \in 1 .. n - k /\ i + k \in 1 .. n - 1 /\ (i + 1) + k = (i + k) + 1
    OBVIOUS
  <2>2. Dropped(n, s, k)[i] = s[i + k] /\ Dropped(n, s, k)[i + 1] = s[(i + k) + 1]
    BY <2>1 DEF Dropped
  <2>3. QED
    BY <2>1, <2>2 DEF Ordered
<1>2. QED
  BY <1>1 DEF Ordered
\* Together: what the private add_timer makes of a chain.
LEMMA InsertAfterChain ==
  ASSUME NEW n, NEW s, NEW h, NEW tl \in Ptr, NEW nx \in [Timer -> Ptr],
         NEW pv \in [Timer -> Ptr], NEW A \in SUBSET Timer,
         Chain(n, s, h, tl, nx, pv, A),
         NEW x \in [Timer -> 0 .. MaxTime],
         NEW t \in Timer, t \notin A, NEW e \in 0 .. MaxTime, NEW k0 \in 1 .. n,
         NEW p, GoesBehind(p, e, s, k0, nx, x),
         NEW tl2, NEW nx2, NEW pv2,
         LinksBehind(t, p, tl, nx, pv, tl2, nx2, pv2)
  PROVE  /\ nx2 \in [Timer -> Ptr] /\ pv2 \in [Timer -> Ptr] /\ tl2 \in Ptr
         /\ \A u \in Timer : u \notin A /\ u # t => nx2[u] = nx[u] /\ pv2[u] = pv[u]
         /\ \E k \in k0 .. n :
              /\ Chain(n + 1, Inserted(n, s, k, t), h, tl2, nx2, pv2, A \cup {t})
              /\ StopsAt(n, s, k0, k, e, x)
<1>1. PICK k \in k0 .. n :
           p = s[k] /\ StopsAt(n, s, k0, k, e, x)
  BY BeforeInChain
<1>2. k \in 1 .. n
  BY DEF Chain
<1>3. LinksBehind(t, s[k], tl, nx, pv, tl2, nx2, pv2)
  BY <1>1
<1>4. /\ nx2 \in [Timer -> Ptr] /\ pv2 \in [Timer -> Ptr] /\ tl2 \in Ptr
      /\ \A u \in Timer : u \notin A /\ u # t => nx2[u] = nx[u] /\ pv2[u] = pv[u]
      /\ Chain(n + 1, Inserted(n, s, k, t), h, tl2, nx2, pv2, A \cup {t})
  BY <1>2, <1>3, LinkBehind
<1>5. QED
  BY <1>1, <1>4


-----------------------------------------------------------------------------
(***************************************************************************)
(* What each operation does to the chain that the list is.                 *)
(***************************************************************************)
LEMMA AddChain ==
  ASSUME TypeOK, FreshFields, NEW n, NEW s, Chain(n, s, head, tail, next, prev, alive),
         NEW t \in Timer, NEW e \in 0 .. MaxTime, Add(t, e)
  PROVE  /\ TypeOK'
         /\ ~crashed' =>
              /\ FreshFields'
              /\ \E k \in 0 .. n :
                   /\ Chain(n + 1, Inserted(n, s, k, t), head', tail', next', prev', alive')
                   /\ k < n => e < expire[s[k + 1]]
                   /\ k > 0 => expire[head] <= e /\ next[head] # NULL /\ k >= 2
                   /\ \A j \in 3 .. k : expire[s[j]] <= e
<1>0. /\ n \in Nat /\ NULL \notin Timer /\ MaxTime \in Nat
      /\ \A i \in 1 .. n : s[i] \in alive /\ s[i] \in Timer /\ s[i] # NULL /\ s[i] # t
      /\ head \in Ptr /\ tail \in Ptr /\ next \in [Timer -> Ptr] /\ prev \in [Timer -> Ptr]
      /\ expire \in [Timer -> 0 .. MaxTime] /\ alive \in SUBSET Timer
      /\ t \notin alive /\ alive' = alive \cup {t} /\ expire' = [expire EXCEPT ![t] = e]
      /\ next[t] = NULL /\ prev[t] = NULL
  BY TimersFinite DEF Chain, TypeOK, Add, FreshFields
<1>1. alive' \subseteq Timer /\ expire' \in [Timer -> 0 .. MaxTime]
  BY <1>0
<1>2. /\ n = 0 <=> head = NULL
      /\ n > 0 => head = s[1] /\ 1 \in 1 .. n /\ n \in 1 .. n
  BY <1>0 DEF Chain
<1>3. \A i, j \in 1 .. n : s[i] = s[j] => i = j
  BY DEF Chain
<1>4. CASE head = NULL
  <2>1. n = 0 /\ head' = t /\ tail' = t /\ UNCHANGED <<next, prev, crashed>>
    BY <1>0, <1>2, <1>4 DEF Add
  <2>2. Chain(n + 1, Inserted(n, s, 0, t), head', tail', next', prev', alive')
    <3>1. /\ 0 \in 0 .. n /\ 0 = n
          /\ \A i \in 1 .. n : next'[s[i]] = IF i = 0 THEN t ELSE next[s[i]]
          /\ \A i \in 1 .. n : prev'[s[i]] = IF i = 0 + 1 THEN t ELSE prev[s[i]]
      BY <2>1
    <3>2. /\ next'[t] = IF 0 = n THEN NULL ELSE s[0 + 1]
          /\ prev'[t] = IF 0 = 0 THEN NULL ELSE s[0]
          /\ head' = IF 0 = 0 THEN t ELSE head
          /\ tail' = IF 0 = n THEN t ELSE tail
      BY <1>0, <2>1
    <3>3. Chain(n + 1, Inserted(n, s, 0, t), head', tail', next', prev', alive \cup {t})
      <4> PICK k \in 0 .. n : k = 0
        BY <3>1
      <4>1. LinksIn(n, s, k, t, head, tail, next, prev, head', tail', next', prev')
        BY <3>1, <3>2 DEF LinksIn
      <4>2. Chain(n + 1, Inserted(n, s, k, t), head', tail', next', prev', alive \cup {t})
        BY <1>0, <4>1, InsertChain
      <4>3. QED
        BY <4>2
    <3>4. QED
      BY <1>0, <3>3
  <2>3. FreshFields'
    BY <1>0, <2>1 DEF FreshFields
  <2>4. TypeOK'
    BY <1>0, <1>1, <2>1 DEF TypeOK, Ptr
  <2>5. 0 \in 0 .. n /\ ~(0 < n) /\ ~(0 > 0) /\ 3 .. 0 = {}
    BY <2>1
  <2>6. QED
    BY <2>2, <2>3, <2>4, <2>5
<1>5. CASE head # NULL /\ e < expire[head]
  <2>1. /\ n > 0 /\ head' = t /\ next' = [next EXCEPT ![t] = head]
        /\ prev' = [prev EXCEPT ![head] = t] /\ UNCHANGED <<tail, crashed>>
    <3>1. expire[head] \in 0 .. MaxTime
      BY <1>0, <1>2, <1>5
    <3>2. ~(e >= expire[head])
      BY <1>0, <1>5, <3>1
    <3>3. QED
      BY <1>0, <1>2, <1>5, <3>2 DEF Add
  <2>2. head = s[1] /\ head \in Timer /\ head # t /\ head \in alive
    BY <1>0, <1>2, <2>1
  <2>3. Chain(n + 1, Inserted(n, s, 0, t), head', tail', next', prev', alive')
    <3>1. /\ 0 \in 0 .. n /\ 0 # n
          /\ \A i \in 1 .. n : next'[s[i]] = IF i = 0 THEN t ELSE next[s[i]]
          /\ \A i \in 1 .. n : prev'[s[i]] = IF i = 0 + 1 THEN t ELSE prev[s[i]]
      BY <1>0, <1>2, <1>3, <2>1, <2>2
    <3>2. /\ next'[t] = IF 0 = n THEN NULL ELSE s[0 + 1]
          /\ prev'[t] = IF 0 = 0 THEN NULL ELSE s[0]
          /\ head' = IF 0 = 0 THEN t ELSE head
          /\ tail' = IF 0 = n THEN t ELSE tail
      BY <1>0, <2>1, <2>2, <3>1
    <3>3. Chain(n + 1, Inserted(n, s, 0, t), head', tail', next', prev', alive \cup {t})
      <4> PICK k \in 0 .. n : k = 0
        BY <3>1
      <4>1. LinksIn(n, s, k, t, head, tail, next, prev, head', tail', next', prev')
        BY <3>1, <3>2 DEF LinksIn
      <4>2. Chain(n + 1, Inserted(n, s, k, t), head', tail', next', prev', alive \cup {t})
        BY <1>0, <4>1, InsertChain
      <4>3. QED
        BY <4>2
    <3>4. QED
      BY <1>0, <3>3
  <2>4. FreshFields'
    BY <1>0, <2>1, <2>2 DEF FreshFields
  <2>5. TypeOK'
    BY <1>0, <1>1, <2>1, <2>2 DEF TypeOK, Ptr
  <2>6. 0 \in 0 .. n /\ ~(0 > 0) /\ 3 .. 0 = {} /\ e < expire[s[0 + 1]]
    BY <1>0, <1>5, <2>2
  <2>7. QED
    BY <2>3, <2>4, <2>5, <2>6
<1>6. CASE head # NULL /\ e >= expire[head] /\ next[head] # NULL
  <2>0. expire[head] \in 0 .. MaxTime /\ n > 0 /\ n \in Nat
    BY <1>0, <1>2, <1>6
  <2>1. InsertAfter(t, e, next[head], next, prev) /\ UNCHANGED <<head, crashed>>
    <3>1. ~(e < expire[head])
      BY <1>6, <2>0
    <3>2. QED
      BY <1>6, <3>1 DEF Add
  <2>2. next[head] = s[2] /\ 2 \in 1 .. n
    <3>1. next[s[1]] = IF 1 = n THEN NULL ELSE s[1 + 1]
      BY <1>2, <2>0, LinksOfChain
    <3>2. n # 1 /\ next[head] = s[2]
      BY <1>2, <1>6, <2>0, <3>1
    <3>3. QED
      BY <2>0, <3>2
  <2>a. PICK k0 \in 1 .. n : k0 = 2
    BY <2>2
  <2>b. PICK p : p = Before(e, s[k0], next, expire)
    OBVIOUS
  <2>c. GoesBehind(p, e, s, k0, next, expire)
    BY <2>b DEF GoesBehind
  <2>3. LinksBehind(t, p, tail, next, prev, tail', next', prev')
    BY <2>1, <2>2, <2>a, <2>b DEF InsertAfter, LinksBehind
  <2>4. /\ next' \in [Timer -> Ptr] /\ prev' \in [Timer -> Ptr] /\ tail' \in Ptr
        /\ \A u \in Timer : u \notin alive /\ u # t => next'[u] = next[u] /\ prev'[u] = prev[u]
        /\ \E k \in k0 .. n :
              /\ Chain(n + 1, Inserted(n, s, k, t), head, tail', next', prev', alive \cup {t})
              /\ StopsAt(n, s, k0, k, e, expire)
    <3>1. /\ tail \in Ptr /\ next \in [Timer -> Ptr] /\ prev \in [Timer -> Ptr]
          /\ alive \in SUBSET Timer /\ Chain(n, s, head, tail, next, prev, alive)
          /\ expire \in [Timer -> 0 .. MaxTime] /\ t \in Timer /\ t \notin alive
          /\ e \in 0 .. MaxTime /\ k0 \in 1 .. n
      BY <1>0
    <3>2. QED
      BY <2>c, <2>3, <3>1, InsertAfterChain, Zenon
  <2>5. PICK k \in k0 .. n :
              /\ Chain(n + 1, Inserted(n, s, k, t), head, tail', next', prev', alive \cup {t})
              /\ StopsAt(n, s, k0, k, e, expire)
    BY <2>4
  <2>6. /\ Chain(n + 1, Inserted(n, s, k, t), head', tail', next', prev', alive')
        /\ k \in 0 .. n /\ k >= 2 /\ expire[head] <= e
        /\ k < n => e < expire[s[k + 1]]
        /\ \A j \in 3 .. k : expire[s[j]] <= e
    BY <1>0, <1>6, <2>0, <2>1, <2>5, <2>a DEF StopsAt
  <2>7. FreshFields'
    BY <1>0, <2>4 DEF FreshFields
  <2>8. TypeOK'
    BY <1>0, <1>1, <2>1, <2>4 DEF TypeOK
  <2>9. QED
    BY <1>6, <2>5, <2>6, <2>7, <2>8
<1>7. CASE head # NULL /\ e >= expire[head] /\ next[head] = NULL
  <2>0. expire[head] \in 0 .. MaxTime
    BY <1>0, <1>2, <1>7
  <2>1. crashed' = TRUE /\ UNCHANGED <<head, tail, next, prev>>
    <3>1. ~(e < expire[head])
      BY <1>7, <2>0
    <3>2. QED
      BY <1>7, <3>1 DEF Add
  <2>2. QED
    BY <1>0, <1>1, <2>1 DEF TypeOK
<1>8. QED
  <2>1. head # NULL => expire[head] \in 0 .. MaxTime
    BY <1>0, <1>2
  <2>2. head # NULL => e < expire[head] \/ e >= expire[head]
    BY <1>0, <2>1
  <2>3. QED
    BY <1>4, <1>5, <1>6, <1>7, <2>2

\* Timer s[i] is left where it is, or is taken out and inserted further on.
LEMMA AdjustChain ==
  ASSUME TypeOK, FreshFields, NEW n, NEW s, Chain(n, s, head, tail, next, prev, alive),
         NEW i \in 1 .. n, NEW e \in 0 .. MaxTime, Adjust(s[i], e)
  PROVE  /\ TypeOK' /\ FreshFields'
         /\ \/ /\ UNCHANGED <<head, tail, next, prev>>
               /\ i < n => e < expire[s[i + 1]]
            \/ /\ i < n /\ expire[s[i + 1]] <= e
               /\ \E k \in i .. n - 1 :
                    /\ Chain(n, Inserted(n - 1, Removed(n, s, i), k, s[i]),
                             head', tail', next', prev', alive')
                    /\ StopsAt(n - 1, Removed(n, s, i), i, k, e, expire)
<1> DEFINE t == s[i]
           r == Removed(n, s, i)
<1>0. /\ n \in Nat /\ NULL \notin Timer /\ MaxTime \in Nat
      /\ \A j \in 1 .. n : s[j] \in alive /\ s[j] \in Timer /\ s[j] # NULL
      /\ \A j, k \in 1 .. n : s[j] = s[k] => j = k
      /\ head \in Ptr /\ tail \in Ptr /\ next \in [Timer -> Ptr] /\ prev \in [Timer -> Ptr]
      /\ expire \in [Timer -> 0 .. MaxTime] /\ alive \in SUBSET Timer
      /\ t \in alive /\ alive' = alive /\ expire' = [expire EXCEPT ![t] = e]
      /\ crashed' = crashed /\ crashed \in BOOLEAN
  BY TimersFinite DEF Chain, TypeOK, Adjust
<1>1. alive' \subseteq Timer /\ expire' \in [Timer -> 0 .. MaxTime] /\ t \in Timer
  BY <1>0
<1>2. /\ next[t] = IF i = n THEN NULL ELSE s[i + 1]
      /\ prev[t] = IF i = 1 THEN NULL ELSE s[i - 1]
      /\ t = head <=> i = 1
      /\ t = tail <=> i = n
  BY LinksOfChain
<1>3. CASE InPlace(t, e)
  <2>1. UNCHANGED <<head, tail, next, prev>>
    BY <1>3 DEF Adjust
  <2>2. i < n => e < expire[s[i + 1]]
    <3>1. i < n => i # n /\ i + 1 \in 1 .. n
      BY <1>0
    <3>2. QED
      BY <1>0, <1>2, <1>3, <3>1 DEF InPlace
  <2>3. TypeOK' /\ FreshFields'
    BY <1>0, <1>1, <2>1 DEF TypeOK, FreshFields
  <2>4. QED
    BY <2>1, <2>2, <2>3
<1>4. CASE ~InPlace(t, e)
  <2>1. i # n /\ next[t] = s[i + 1] /\ ~(e < expire[s[i + 1]])
    BY <1>2, <1>4 DEF InPlace
  <2>2. /\ i < n /\ i + 1 \in 1 .. n /\ i \in 1 .. n - 1 /\ n - 1 \in Nat /\ n > 1
        /\ (n - 1) + 1 = n
    BY <1>0, <2>1
  <2>3. expire[s[i + 1]] <= e
    <3>1. expire[s[i + 1]] \in 0 .. MaxTime
      BY <1>0, <2>2
    <3>2. QED
      BY <1>0, <2>1, <3>1
  <2> DEFINE nxOut == IF i = 1 THEN [next EXCEPT ![t] = NULL]
                      ELSE [next EXCEPT ![prev[t]] = next[t]]
             pvOut == IF i = 1 THEN [prev EXCEPT ![next[t]] = NULL]
                      ELSE [prev EXCEPT ![next[t]] = prev[t]]
             hOut == IF i = 1 THEN next[t] ELSE head
  <2>4. PICK nx : nx = nxOut
    OBVIOUS
  <2>5. PICK pv : pv = pvOut
    OBVIOUS
  <2>6. PICK h : h = hOut
    OBVIOUS
  <2>a. PICK p : p = Before(e, next[t], nx, expire)
    OBVIOUS
  <2>7. /\ head' = h
        /\ LinksBehind(t, p, tail, nx, pv, tail', next', prev')
    <3>1. CASE i = 1
      <4>1. /\ head' = next[t]
            /\ InsertAfter(t, e, next[t], [next EXCEPT ![t] = NULL],
                                          [prev EXCEPT ![next[t]] = NULL])
        BY <1>2, <1>4, <3>1 DEF Adjust
      <4>2. nx = [next EXCEPT ![t] = NULL] /\ pv = [prev EXCEPT ![next[t]] = NULL] /\ h = next[t]
        BY <2>4, <2>5, <2>6, <3>1
      <4>3. QED
        BY <2>a, <4>1, <4>2 DEF InsertAfter, LinksBehind
    <3>2. CASE i # 1
      <4>1. /\ UNCHANGED head
            /\ InsertAfter(t, e, next[t], [next EXCEPT ![prev[t]] = next[t]],
                                          [prev EXCEPT ![next[t]] = prev[t]])
        BY <1>2, <1>4, <3>2 DEF Adjust
      <4>2. /\ nx = [next EXCEPT ![prev[t]] = next[t]]
            /\ pv = [prev EXCEPT ![next[t]] = prev[t]] /\ h = head
        BY <2>4, <2>5, <2>6, <3>2
      <4>3. QED
        BY <2>a, <4>1, <4>2 DEF InsertAfter, LinksBehind
    <3>3. QED
      BY <3>1, <3>2
  <2>8. /\ i # 1 => prev[t] \in Timer /\ i - 1 \in 1 .. n /\ prev[t] = s[i - 1]
        /\ next[t] \in Timer
    <3>1. i # 1 => i - 1 \in 1 .. n
      BY <1>0
    <3>2. QED
      BY <1>0, <1>2, <2>1, <2>2, <3>1
  <2>9. /\ nx \in [Timer -> Ptr]
        /\ pv \in [Timer -> Ptr]
        /\ \A u \in Timer : u \notin alive => nx[u] = next[u] /\ pv[u] = prev[u]
    BY <1>0, <1>1, <2>1, <2>2, <2>4, <2>5, <2>8 DEF Ptr
  <2>10. LinksOut(n, s, i, head, tail, next, prev, h, tail, nx, pv)
    <3>1. h = IF i > 1 THEN head ELSE IF n = 1 THEN NULL ELSE s[2]
      <4>1. i > 1 \/ (i = 1 /\ i + 1 = 2)
        BY <1>0
      <4>2. QED
        BY <2>1, <2>2, <2>6, <4>1
    <3>2. n > 1 => tail = IF i = n THEN s[n - 1] ELSE tail
      BY <2>1
    <3>3. ASSUME NEW j \in 1 .. n, j # i
          PROVE  nx[s[j]] = IF j = i - 1 THEN IF i = n THEN NULL ELSE s[i + 1] ELSE next[s[j]]
      <4>1. CASE i = 1
        <5>1. j # i - 1 /\ s[j] # t /\ s[j] \in Timer
          BY <1>0, <3>3, <4>1
        <5>2. QED
          BY <1>0, <2>4, <4>1, <5>1
      <4>2. CASE i # 1
        <5>1. s[j] = prev[t] <=> j = i - 1
          BY <1>0, <2>8, <4>2
        <5>2. QED
          BY <1>0, <2>1, <2>4, <4>2, <5>1
      <4>3. QED
        BY <4>1, <4>2
    <3>4. ASSUME NEW j \in 1 .. n, j # i
          PROVE  pv[s[j]] = IF j = i + 1 THEN IF i = 1 THEN NULL ELSE s[i - 1] ELSE prev[s[j]]
      <4>1. s[j] = next[t] <=> j = i + 1
        BY <1>0, <2>1, <2>2
      <4>2. QED
        BY <1>0, <1>2, <2>5, <4>1
    <3>5. QED
      BY <3>1, <3>2, <3>3, <3>4 DEF LinksOut
  <2>b. PICK m \in Nat : m = n - 1
    BY <2>2
  <2>c. PICK A \in SUBSET Timer : A = alive \ {t}
    BY <1>0
  <2>d. PICK q : q = r
    OBVIOUS
  <2>11. Chain(m, q, h, tail, nx, pv, A)
    <3>1. Chain(n - 1, Removed(n, s, i), h, tail, nx, pv, alive \ {s[i]})
      BY <2>10, RemoveChain
    <3>2. QED
      BY <2>b, <2>c, <2>d, <3>1
  <2>12. GoesBehind(p, e, q, i, nx, expire)
    <3>1. r[i] = s[i + 1]
      BY <2>2 DEF Removed
    <3>2. QED
      BY <2>1, <2>a, <2>d, <3>1 DEF GoesBehind
  <2>13. /\ next' \in [Timer -> Ptr] /\ prev' \in [Timer -> Ptr] /\ tail' \in Ptr
         /\ \A u \in Timer : u \notin A /\ u # t => next'[u] = nx[u] /\ prev'[u] = pv[u]
         /\ \E k \in i .. m :
              /\ Chain(m + 1, Inserted(m, q, k, t), h, tail', next', prev', A \cup {t})
              /\ StopsAt(m, q, i, k, e, expire)
    <3>1. i \in 1 .. m /\ t \in Timer /\ t \notin A
      BY <1>1, <2>2, <2>b, <2>c
    <3> HIDE DEF t
    <3>2. QED
      <4>1. /\ tail \in Ptr /\ A \in SUBSET Timer /\ e \in 0 .. MaxTime
            /\ expire \in [Timer -> 0 .. MaxTime]
        BY <1>0
      <4>2. QED
        BY <2>7, <2>9, <2>11, <2>12, <3>1, <4>1, InsertAfterChain, Zenon
  <2>14. PICK k \in i .. m :
           /\ Chain(m + 1, Inserted(m, q, k, t), h, tail', next', prev', A \cup {t})
           /\ StopsAt(m, q, i, k, e, expire)
    BY <2>13
  <2>15. A \cup {t} = alive' /\ m + 1 = n
    BY <1>0, <2>b, <2>c
  <2>16. /\ k \in i .. n - 1
         /\ Chain(n, Inserted(n - 1, Removed(n, s, i), k, s[i]), head', tail', next', prev', alive')
         /\ StopsAt(n - 1, Removed(n, s, i), i, k, e, expire)
    BY <2>7, <2>14, <2>15, <2>b, <2>d
  <2>17. FreshFields'
    BY <1>0, <2>9, <2>13, <2>c DEF FreshFields
  <2>18. TypeOK'
    <3>1. head' \in Ptr
      BY <1>0, <2>6, <2>7, <2>8 DEF Ptr
    <3>2. QED
      BY <1>0, <1>1, <2>13, <3>1 DEF TypeOK
  <2>19. QED
    BY <2>2, <2>3, <2>16, <2>17, <2>18
<1>5. QED
  BY <1>3, <1>4

LEMMA DelChain ==
  ASSUME TypeOK, FreshFields, NEW n, NEW s, Chain(n, s, head, tail, next, prev, alive),
         NEW i \in 1 .. n, Del(s[i])
  PROVE  /\ TypeOK' /\ FreshFields'
         /\ Chain(n - 1, Removed(n, s, i), head', tail', next', prev', alive')
<1> DEFINE t == s[i]
<1>0. /\ n \in Nat /\ NULL \notin Timer /\ MaxTime \in Nat
      /\ \A j \in 1 .. n : s[j] \in alive /\ s[j] \in Timer /\ s[j] # NULL
      /\ \A j, k \in 1 .. n : s[j] = s[k] => j = k
      /\ head \in Ptr /\ tail \in Ptr /\ next \in [Timer -> Ptr] /\ prev \in [Timer -> Ptr]
      /\ expire \in [Timer -> 0 .. MaxTime] /\ alive \in SUBSET Timer
      /\ t \in alive /\ t \in Timer /\ crashed \in BOOLEAN /\ NULL \in Ptr
  BY TimersFinite DEF Chain, TypeOK, Ptr
<1>1. /\ next[t] = IF i = n THEN NULL ELSE s[i + 1]
      /\ prev[t] = IF i = 1 THEN NULL ELSE s[i - 1]
      /\ t = head <=> i = 1
      /\ t = tail <=> i = n
  BY LinksOfChain
<1>2. /\ i # n => i + 1 \in 1 .. n /\ i + 1 # i /\ next[t] \in Timer /\ next[t] = s[i + 1]
      /\ i # 1 => i - 1 \in 1 .. n /\ i - 1 # i /\ prev[t] \in Timer /\ prev[t] = s[i - 1]
  <2>1. /\ i # n => i + 1 \in 1 .. n /\ i + 1 # i
        /\ i # 1 => i - 1 \in 1 .. n /\ i - 1 # i
    BY <1>0
  <2>2. QED
    BY <1>0, <1>1, <2>1
<1> DEFINE nxOut == IF i = 1 THEN next ELSE [next EXCEPT ![prev[t]] = next[t]]
           pvOut == IF i = n THEN prev ELSE [prev EXCEPT ![next[t]] = prev[t]]
\* The code writes null where it knows that the link is null.
<1>3. PICK nx : nx = nxOut
  OBVIOUS
<1>4. PICK pv : pv = pvOut
  OBVIOUS
<1>5. /\ head' = IF i = 1 THEN next[t] ELSE head
      /\ tail' = IF i = n THEN prev[t] ELSE tail
      /\ Delete({t}, nx, pv)
  <2>1. CASE i = 1 /\ i = n
    <3>1. head' = NULL /\ tail' = NULL /\ Delete({t}, next, prev)
      BY <1>1, <2>1 DEF Del
    <3>2. nx = next /\ pv = prev /\ next[t] = NULL /\ prev[t] = NULL
      BY <1>1, <1>3, <1>4, <2>1
    <3>3. QED
      BY <2>1, <3>1, <3>2 DEF Delete
  <2>2. CASE i = 1 /\ i # n
    <3>1. head' = next[t] /\ tail' = tail /\ Delete({t}, next, [prev EXCEPT ![next[t]] = NULL])
      BY <1>1, <2>2 DEF Del
    <3>2. nx = next /\ pv = [prev EXCEPT ![next[t]] = NULL]
      BY <1>1, <1>3, <1>4, <2>2
    <3>3. QED
      BY <2>2, <3>1, <3>2
  <2>3. CASE i # 1 /\ i = n
    <3>1. head' = head /\ tail' = prev[t] /\ Delete({t}, [next EXCEPT ![prev[t]] = NULL], prev)
      BY <1>1, <2>3 DEF Del
    <3>2. nx = [next EXCEPT ![prev[t]] = NULL] /\ pv = prev
      BY <1>1, <1>3, <1>4, <2>3
    <3>3. QED
      BY <2>3, <3>1, <3>2
  <2>4. CASE i # 1 /\ i # n
    <3>1. /\ head' = head /\ tail' = tail
          /\ Delete({t}, [next EXCEPT ![prev[t]] = next[t]], [prev EXCEPT ![next[t]] = prev[t]])
      BY <1>1, <2>4 DEF Del
    <3>2. nx = [next EXCEPT ![prev[t]] = next[t]] /\ pv = [prev EXCEPT ![next[t]] = prev[t]]
      BY <1>3, <1>4, <2>4
    <3>3. QED
      BY <2>4, <3>1, <3>2
  <2>5. QED
    BY <2>1, <2>2, <2>3, <2>4
<1>6. /\ nx \in [Timer -> Ptr] /\ pv \in [Timer -> Ptr]
      /\ \A u \in Timer : u \notin alive => nx[u] = next[u] /\ pv[u] = prev[u]
  BY <1>0, <1>1, <1>2, <1>3, <1>4 DEF Ptr
<1>7. /\ next' = [u \in Timer |-> IF u \in {t} THEN NULL ELSE nx[u]]
      /\ prev' = [u \in Timer |-> IF u \in {t} THEN NULL ELSE pv[u]]
      /\ expire' = [u \in Timer |-> IF u \in {t} THEN 0 ELSE expire[u]]
      /\ alive' = alive \ {t} /\ crashed' = crashed
  BY <1>5 DEF Delete, Free
<1>8. LinksOut(n, s, i, head, tail, next, prev, head', tail', next', prev')
  <2>1. head' = IF i > 1 THEN head ELSE IF n = 1 THEN NULL ELSE s[2]
    <3>1. CASE i = 1
      <4>1. head' = IF n = 1 THEN NULL ELSE s[1 + 1]
        BY <1>1, <1>5, <3>1
      <4>2. ~(i > 1) /\ 1 + 1 = 2
        BY <3>1
      <4>3. QED
        BY <4>1, <4>2
    <3>2. CASE i # 1
      <4>1. i > 1
        BY <1>0, <3>2
      <4>2. QED
        BY <1>5, <3>2, <4>1
    <3>3. QED
      BY <3>1, <3>2
  <2>2. n > 1 => tail' = IF i = n THEN s[n - 1] ELSE tail
    <3>1. n > 1 /\ i = n => i # 1
      BY <1>0
    <3>2. QED
      BY <1>1, <1>5, <3>1
  <2>3. ASSUME NEW j \in 1 .. n, j # i
        PROVE  next'[s[j]] = IF j = i - 1 THEN IF i = n THEN NULL ELSE s[i + 1] ELSE next[s[j]]
    <3>1. s[j] # t /\ s[j] \in Timer /\ (i # 1 => (s[j] = prev[t] <=> j = i - 1))
      BY <1>0, <1>2, <2>3
    <3>2. next'[s[j]] = nx[s[j]]
      BY <1>7, <3>1
    <3>3. i = 1 => j # i - 1
      BY <1>0
    <3>4. QED
      BY <1>0, <1>1, <1>3, <3>1, <3>2, <3>3
  <2>4. ASSUME NEW j \in 1 .. n, j # i
        PROVE  prev'[s[j]] = IF j = i + 1 THEN IF i = 1 THEN NULL ELSE s[i - 1] ELSE prev[s[j]]
    <3>1. s[j] # t /\ s[j] \in Timer /\ (i # n => (s[j] = next[t] <=> j = i + 1))
      BY <1>0, <1>2, <2>4
    <3>2. prev'[s[j]] = pv[s[j]]
      BY <1>7, <3>1
    <3>3. i = n => j # i + 1
      BY <1>0
    <3>4. QED
      BY <1>0, <1>1, <1>4, <3>1, <3>2, <3>3
  <2>5. QED
    BY <2>1, <2>2, <2>3, <2>4 DEF LinksOut
<1>9. Chain(n - 1, Removed(n, s, i), head', tail', next', prev', alive')
  <2>1. Chain(n - 1, Removed(n, s, i), head', tail', next', prev', alive \ {s[i]})
    BY <1>8, RemoveChain
  <2>2. QED
    BY <1>7, <2>1
<1>10. FreshFields'
  BY <1>6, <1>7 DEF FreshFields
<1>11. TypeOK'
  <2>1. head' \in Ptr /\ tail' \in Ptr
    BY <1>0, <1>1, <1>2, <1>5 DEF Ptr
  <2>2. QED
    BY <1>0, <1>6, <1>7, <2>1 DEF TypeOK
<1>12. QED
  BY <1>9, <1>10, <1>11

\* What is found from head: the chain, then null.
LEMMA WalkOfChain ==
  ASSUME TypeOK, NEW n, NEW s, Chain(n, s, head, tail, next, prev, alive)
  PROVE  /\ DOMAIN Walk = 0 .. Cardinality(Timer)
         /\ \A m \in 0 .. Cardinality(Timer) : Walk[m] = IF m < n THEN s[m + 1] ELSE NULL
<1>0. n \in Nat /\ head = IF 1 <= n THEN s[1] ELSE NULL
  BY DEF Chain
<1>1. PICK nx : nx = next
  OBVIOUS
<1>2. PICK A \in SUBSET Timer : A = alive
  BY DEF TypeOK
<1>3. PICK k \in 1 .. n + 1 : k = 1
  BY <1>0
<1>4. PICK first : first = IF k <= n THEN s[k] ELSE NULL
  OBVIOUS
<1>5. Walk = Path(first, nx)
  BY <1>0, <1>1, <1>3, <1>4 DEF Walk
<1>6. DOMAIN Path(first, nx) = 0 .. Cardinality(Timer)
  <2> DEFINE path == Path(first, nx)
  <2> HIDE DEF path
  <2>1. path = [m \in 0 .. Cardinality(Timer) |->
                  IF m = 0 THEN first ELSE IF path[m - 1] = NULL THEN NULL ELSE nx[path[m - 1]]]
    BY PathDef DEF path
  <2>2. DOMAIN path = 0 .. Cardinality(Timer)
    BY <2>1
  <2>3. QED
    BY <2>2 DEF path
<1>7. \A m \in 0 .. Cardinality(Timer) :
        Path(IF k <= n THEN s[k] ELSE NULL, nx)[m] = IF k + m <= n THEN s[k + m] ELSE NULL
  <2>1. Chain(n, s, head, tail, nx, prev, A)
    BY <1>1, <1>2
  <2>2. QED
    BY <2>1, PathOfChain
<1>8. ASSUME NEW m \in 0 .. Cardinality(Timer)
      PROVE  Walk[m] = IF m < n THEN s[m + 1] ELSE NULL
  <2>1. Walk[m] = IF k + m <= n THEN s[k + m] ELSE NULL
    BY <1>4, <1>5, <1>7
  <2>2. m \in Int /\ (1 + m <= n <=> m < n) /\ 1 + m = m + 1
    BY <1>0, TimersFinite
  <2>3. QED
    BY <1>3, <2>1, <2>2
<1>9. QED
  BY <1>5, <1>6, <1>8

LEMMA ReachedOfChain ==
  ASSUME TypeOK, NEW n, NEW s, Chain(n, s, head, tail, next, prev, alive)
  PROVE  Reached = alive
<1>0. /\ n \in Nat /\ NULL \notin Timer /\ alive \in SUBSET Timer
      /\ \A i \in 1 .. n : s[i] \in alive
      /\ \A t \in alive : \E i \in 1 .. n : s[i] = t
  BY TimersFinite DEF Chain, TypeOK
<1>1. /\ DOMAIN Walk = 0 .. Cardinality(Timer)
      /\ \A m \in 0 .. Cardinality(Timer) : Walk[m] = IF m < n THEN s[m + 1] ELSE NULL
  BY WalkOfChain
<1>2. n <= Cardinality(Timer) /\ Cardinality(Timer) \in Nat
  BY <1>0, ChainLength, TimersFinite
<1>3. ASSUME NEW t \in Reached
      PROVE  t \in alive
  <2>1. PICK m \in 0 .. Cardinality(Timer) : Walk[m] = t /\ t # NULL
    BY <1>1 DEF Reached
  <2>2. m < n /\ t = s[m + 1]
    BY <1>1, <2>1
  <2>3. m + 1 \in 1 .. n
    BY <1>0, <1>2, <2>2
  <2>4. QED
    BY <1>0, <2>2, <2>3
<1>4. ASSUME NEW t \in alive
      PROVE  t \in Reached
  <2>1. PICK i \in 1 .. n : s[i] = t
    BY <1>0
  <2>2. i - 1 \in 0 .. Cardinality(Timer) /\ i - 1 < n /\ (i - 1) + 1 = i
    BY <1>0, <1>2
  <2>3. Walk[i - 1] = t
    BY <1>1, <2>1, <2>2
  <2>4. QED
    BY <1>0, <1>1, <2>2, <2>3 DEF Reached
<1>5. QED
  BY <1>3, <1>4

\* The first k have expired at cur, the next one, if any, has not.
Due(n, s, k, x, cur) ==
  /\ k < n => cur < x[s[k + 1]]
  /\ \A i \in 1 .. k : x[s[i]] <= cur

LEMMA ExpiredOfChain ==
  ASSUME TypeOK, NEW n, NEW s, Chain(n, s, head, tail, next, prev, alive),
         NEW cur \in Nat
  PROVE  \E k \in 0 .. n : Expired(cur) = {s[i] : i \in 1 .. k} /\ Due(n, s, k, expire, cur)
<1>0. /\ n \in Nat /\ NULL \notin Timer /\ alive \in SUBSET Timer /\ MaxTime \in Nat
      /\ expire \in [Timer -> 0 .. MaxTime]
      /\ \A i \in 1 .. n : s[i] \in alive /\ s[i] # NULL /\ s[i] \in Timer
  BY TimersFinite DEF Chain, TypeOK
<1>1. /\ DOMAIN Walk = 0 .. Cardinality(Timer)
      /\ \A m \in 0 .. Cardinality(Timer) : Walk[m] = IF m < n THEN s[m + 1] ELSE NULL
  BY WalkOfChain
<1>2. n <= Cardinality(Timer) /\ Cardinality(Timer) \in Nat
  BY <1>0, ChainLength, TimersFinite
<1> DEFINE Stop(k) == k = n \/ cur < expire[s[k + 1]]
           Stopping == {k \in 0 .. n : Stop(k)}
<1>3. PICK k \in Stopping : \A j \in Stopping : k <= j
  <2>1. n \in Stopping /\ Stopping \in SUBSET Nat
    BY <1>0
  <2> HIDE DEF Stopping
  <2>2. QED
    BY <2>1, LeastNumber
<1>4. ASSUME NEW i \in 1 .. k
      PROVE  expire[s[i]] <= cur
  <2>1. i - 1 \in 0 .. n /\ ~(k <= i - 1) /\ i - 1 # n /\ (i - 1) + 1 = i /\ i \in 1 .. n
    BY <1>0, <1>3
  <2>2. ~(cur < expire[s[i]])
    BY <1>3, <2>1
  <2>3. expire[s[i]] \in 0 .. MaxTime
    BY <1>0, <2>1
  <2>4. QED
    BY <1>0, <2>2, <2>3
<1>5. k \in 0 .. n /\ (k < n => cur < expire[s[k + 1]])
  BY <1>0, <1>3
<1>6. ASSUME NEW t \in Expired(cur)
      PROVE  \E i \in 1 .. k : t = s[i]
  <2>1. PICK m \in 0 .. Cardinality(Timer) :
               Walk[m] = t /\ t # NULL /\ \A j \in 0 .. m : expire[Walk[j]] <= cur
    BY <1>1 DEF Expired, Reached
  <2>2. m < n /\ t = s[m + 1]
    BY <1>1, <2>1
  <2>3. CASE k <= m
    <3>1. k \in 0 .. m /\ k < n /\ k \in 0 .. Cardinality(Timer) /\ k + 1 \in 1 .. n
      BY <1>0, <1>2, <1>5, <2>2, <2>3
    <3>2. expire[s[k + 1]] <= cur
      BY <1>1, <2>1, <3>1
    <3>3. expire[s[k + 1]] \in 0 .. MaxTime /\ cur < expire[s[k + 1]]
      BY <1>0, <1>5, <3>1
    <3>4. \A y \in 0 .. MaxTime : ~(y <= cur /\ cur < y)
      BY <1>0
    <3>5. QED
      BY <3>2, <3>3, <3>4
  <2>4. CASE m < k
    <3>1. m + 1 \in 1 .. k
      BY <1>2, <1>5, <2>4
    <3>2. QED
      BY <2>2, <3>1
  <2>5. QED
    BY <1>2, <1>5, <2>3, <2>4
<1>7. ASSUME NEW i \in 1 .. k
      PROVE  s[i] \in Expired(cur)
  <2>1. i \in 1 .. n /\ i - 1 \in 0 .. Cardinality(Timer) /\ i - 1 < n /\ (i - 1) + 1 = i
    BY <1>0, <1>2, <1>5
  <2>2. Walk[i - 1] = s[i] /\ s[i] # NULL
    BY <1>0, <1>1, <2>1
  <2>3. ASSUME NEW j \in 0 .. i - 1
        PROVE  expire[Walk[j]] <= cur
    <3>1. j \in 0 .. Cardinality(Timer) /\ j < n /\ j + 1 \in 1 .. k
      <4>1. i \in Nat /\ k \in Nat /\ i <= k /\ k <= n
        BY <1>0, <1>5
      <4>2. QED
        BY <1>0, <1>2, <4>1
    <3>2. QED
      BY <1>1, <1>4, <3>1
  <2>4. s[i] \in Reached
    BY <1>1, <2>1, <2>2 DEF Reached
  <2>5. QED
    BY <1>1, <2>1, <2>2, <2>3, <2>4 DEF Expired
<1> HIDE DEF Stopping
<1>8. Expired(cur) = {s[i] : i \in 1 .. k}
  BY <1>6, <1>7
<1>9. Due(n, s, k, expire, cur)
  BY <1>4, <1>5 DEF Due
<1>10. QED
  BY <1>5, <1>8, <1>9

LEMMA TickChain ==
  ASSUME TypeOK, FreshFields, NEW n, NEW s, Chain(n, s, head, tail, next, prev, alive),
         NEW cur \in Nat, Tick(cur)
  PROVE  /\ TypeOK' /\ FreshFields'
         /\ \E k \in 0 .. n :
              /\ Expired(cur) = {s[i] : i \in 1 .. k}
              /\ Due(n, s, k, expire, cur)
              /\ Chain(n - k, Dropped(n, s, k), head', tail', next', prev', alive')
<1>0. /\ n \in Nat /\ NULL \notin Timer /\ MaxTime \in Nat
      /\ \A j \in 1 .. n : s[j] \in alive /\ s[j] \in Timer /\ s[j] # NULL
      /\ \A i, j \in 1 .. n : s[i] = s[j] => i = j
      /\ \A t \in alive : \E j \in 1 .. n : s[j] = t
      /\ head \in Ptr /\ tail \in Ptr /\ next \in [Timer -> Ptr] /\ prev \in [Timer -> Ptr]
      /\ expire \in [Timer -> 0 .. MaxTime] /\ alive \in SUBSET Timer
      /\ crashed \in BOOLEAN /\ NULL \in Ptr
      /\ n > 0 => head = s[1]
  BY TimersFinite DEF Chain, TypeOK, Ptr
<1>1. PICK k \in 0 .. n : Expired(cur) = {s[i] : i \in 1 .. k} /\ Due(n, s, k, expire, cur)
  BY ExpiredOfChain
<1>2. k \in Nat /\ k <= n
  BY <1>0
<1>3. PICK gone : gone = {s[i] : i \in 1 .. k}
  OBVIOUS
<1> DEFINE rest == {t \in alive \ gone : t = head \/ prev[t] \in gone}
<1>4. /\ head' \in IF rest = {} THEN {NULL} ELSE rest
      /\ tail' = tail
      /\ next' = [t \in Timer |-> IF t \in gone THEN NULL ELSE next[t]]
      /\ prev' = [t \in Timer |-> IF t \in gone THEN NULL ELSE Set(prev, head', NULL)[t]]
      /\ expire' = [t \in Timer |-> IF t \in gone THEN 0 ELSE expire[t]]
      /\ alive' = alive \ gone /\ crashed' = crashed
  BY <1>1, <1>3 DEF Tick, Delete, Free
<1>5. \A j \in 1 .. n : s[j] \in gone <=> j <= k
  <2>1. ASSUME NEW j \in 1 .. n
        PROVE  s[j] \in gone <=> j <= k
    <3>1. j <= k => j \in 1 .. k
      BY <1>0, <1>2
    <3>2. ASSUME NEW i \in 1 .. k, s[i] = s[j]
          PROVE  j <= k
      <4>1. i \in 1 .. n /\ i <= k
        BY <1>0, <1>2
      <4>2. i = j
        BY <1>0, <3>2, <4>1
      <4>3. QED
        BY <4>1, <4>2
    <3>3. QED
      BY <1>3, <3>1, <3>2
  <2>2. QED
    BY <2>1
<1>6. gone \subseteq alive /\ NULL \notin gone
  <2>1. \A i \in 1 .. k : i \in 1 .. n
    BY <1>0, <1>2
  <2>2. QED
    BY <1>0, <1>3, <2>1
<1>7. ASSUME NEW j \in 1 .. n
      PROVE  s[j] \in rest <=> j = k + 1
  <2>1. /\ prev[s[j]] = IF j = 1 THEN NULL ELSE s[j - 1]
        /\ s[j] = head <=> j = 1
    BY LinksOfChain
  <2>2. j # 1 => j - 1 \in 1 .. n
    BY <1>0
  <2>3. prev[s[j]] \in gone <=> j # 1 /\ j - 1 <= k
    BY <1>5, <1>6, <2>1, <2>2
  <2>4. s[j] \in rest <=> ~(j <= k) /\ (j = 1 \/ (j # 1 /\ j - 1 <= k))
    BY <1>0, <1>5, <2>1, <2>3
  <2>5. QED
    BY <1>2, <2>4
<1>8. head' = IF k = n THEN NULL ELSE s[k + 1]
  <2>1. \A t \in rest : \E j \in 1 .. n : t = s[j] /\ j = k + 1
    BY <1>0, <1>7
  <2>2. k = n => \A j \in 1 .. n : j # k + 1
    BY <1>0
  <2>3. k # n => k + 1 \in 1 .. n
    BY <1>0, <1>2
  <2> HIDE DEF rest
  <2>4. k = n => rest = {}
    BY <2>1, <2>2
  <2>5. k # n => rest = {s[k + 1]}
    BY <1>7, <2>1, <2>3
  <2>6. QED
    BY <1>4, <2>4, <2>5
<1>9. head' \in Ptr /\ (head' # NULL => head' \in alive)
  <2>1. k # n => k + 1 \in 1 .. n
    BY <1>0, <1>2
  <2>2. QED
    BY <1>0, <1>8, <2>1 DEF Ptr
<1>10. /\ prev' \in [Timer -> Ptr] /\ next' \in [Timer -> Ptr]
       /\ \A t \in Timer : prev'[t] = IF t \in gone \/ t = head' THEN NULL ELSE prev[t]
  BY <1>0, <1>4, <1>9 DEF Set, Ptr
<1>11. LinksOff(n, s, k, head, next, prev, head', next', prev')
  <2>1. \A j \in 1 .. n : j > k => next'[s[j]] = next[s[j]]
    <3>1. \A j \in 1 .. n : j > k => ~(j <= k)
      BY <1>2
    <3>2. QED
      BY <1>0, <1>4, <1>5, <3>1
  <2>2. ASSUME NEW j \in 1 .. n, j > k
        PROVE  prev'[s[j]] = IF j = k + 1 THEN NULL ELSE prev[s[j]]
    <3>1. ~(j <= k) /\ k # n /\ k + 1 \in 1 .. n
      BY <1>0, <1>2, <2>2
    <3>2. s[j] = head' <=> j = k + 1
      BY <1>0, <1>8, <3>1
    <3>3. QED
      BY <1>0, <1>5, <1>10, <3>1, <3>2
  <2>3. QED
    BY <1>8, <2>1, <2>2 DEF LinksOff
<1>12. Chain(n - k, Dropped(n, s, k), head', tail', next', prev', alive')
  <2>1. Chain(n - k, Dropped(n, s, k), head', tail, next', prev', alive \ {s[i] : i \in 1 .. k})
    BY <1>11, DropChain
  <2>2. QED
    BY <1>3, <1>4, <2>1
<1>13. FreshFields'
  BY <1>4, <1>6, <1>9, <1>10 DEF FreshFields
<1>14. TypeOK'
  BY <1>0, <1>4, <1>9, <1>10 DEF TypeOK
<1>15. QED
  BY <1>1, <1>12, <1>13, <1>14

LEMMA DestroyChain ==
  ASSUME TypeOK, FreshFields, NEW n, NEW s, Chain(n, s, head, tail, next, prev, alive),
         Destroy
  PROVE  /\ TypeOK' /\ FreshFields' /\ alive' = {}
         /\ Chain(0, << >>, head', tail', next', prev', alive')
<1>1. Reached = alive
  BY ReachedOfChain
<1>2. /\ head' = NULL /\ tail' = NULL /\ alive' = {} /\ crashed' = crashed
      /\ next' = [t \in Timer |-> IF t \in alive THEN NULL ELSE next[t]]
      /\ prev' = [t \in Timer |-> IF t \in alive THEN NULL ELSE prev[t]]
      /\ expire' = [t \in Timer |-> IF t \in alive THEN 0 ELSE expire[t]]
  BY <1>1 DEF Destroy, Delete, Free
<1>3. TypeOK'
  BY <1>2, TimersFinite DEF TypeOK, Ptr
<1>4. FreshFields'
  BY <1>2 DEF FreshFields
<1>5. Chain(0, << >>, head', tail', next', prev', alive')
  <2>1. << >> \in [1 .. 0 -> alive'] /\ 1 .. 0 = {} /\ 1 .. 0 - 1 = {} /\ ~(0 > 0)
    OBVIOUS
  <2>2. QED
    BY <1>2, <2>1 DEF Chain
<1>6. QED
  BY <1>2, <1>3, <1>4, <1>5

-----------------------------------------------------------------------------
(***************************************************************************)
(* The invariant, one operation at a time: the list's user cites these.    *)
(***************************************************************************)
LEMMA ListInit == Init => IInv
<1> SUFFICES ASSUME Init PROVE IInv
  OBVIOUS
<1>1. TypeOK
  <2>1. /\ head \in Ptr /\ tail \in Ptr
        /\ next \in [Timer -> Ptr] /\ prev \in [Timer -> Ptr]
        /\ alive \subseteq Timer
    BY DEF Init, Ptr
  <2>2. expire \in [Timer -> 0 .. MaxTime]
    BY TimersFinite DEF Init
  <2>3. crashed \in BOOLEAN
    BY DEF Init
  <2>4. QED
    BY <2>1, <2>2, <2>3 DEF TypeOK
<1>2. FreshFields
  BY DEF Init, FreshFields
<1>3. PICK n \in Nat : n = 0
  OBVIOUS
<1>a. 1 .. n = {} /\ 1 .. n - 1 = {} /\ ~(n > 0) /\ alive = {} /\ head = NULL
  <2>1. 1 .. n = {} /\ 1 .. n - 1 = {} /\ ~(n > 0)
    BY <1>3
  <2>2. alive = {} /\ head = NULL
    BY DEF Init
  <2>3. QED
    BY <2>1, <2>2
<1>4. PICK s \in [1 .. n -> alive] : TRUE
  <2>1. [i \in 1 .. n |-> NULL] \in [1 .. n -> alive]
    BY <1>a
  <2>2. QED
    BY <2>1
<1>5. Chain(n, s, head, tail, next, prev, alive)
  BY <1>a DEF Chain
<1>6. QED
  BY <1>1, <1>2, <1>5 DEF IInv

\* An allocated timer has its place in the chain.
LEMMA TheChain ==
  ASSUME IInv, ~crashed
  PROVE  /\ TypeOK /\ FreshFields
         /\ \E n, s : /\ Chain(n, s, head, tail, next, prev, alive)
                      /\ \A t \in alive : \E i \in 1 .. n : s[i] = t
<1>1. /\ TypeOK /\ FreshFields
      /\ \E n, s : Chain(n, s, head, tail, next, prev, alive)
  BY DEF IInv
<1>2. ASSUME NEW n, NEW s, Chain(n, s, head, tail, next, prev, alive)
      PROVE  \A t \in alive : \E i \in 1 .. n : s[i] = t
  BY <1>2 DEF Chain
<1>3. QED
  BY <1>1, <1>2

LEMMA StillChain ==
  ASSUME TypeOK', FreshFields', NEW n, NEW s,
         Chain(n, s, head', tail', next', prev', alive')
  PROVE  IInv'
<1>1. n \in Nat /\ s \in [1 .. n -> alive']
  BY DEF Chain
<1>2. QED
  BY <1>1 DEF IInv

LEMMA AddStep ==
  ASSUME IInv, NEW t \in Timer, NEW e \in 0 .. MaxTime, Add(t, e)
  PROVE  IInv'
<1>1. ~crashed
  BY DEF Add
<1>2. PICK n, s : Chain(n, s, head, tail, next, prev, alive)
  BY <1>1, TheChain
<1>3. /\ TypeOK'
      /\ ~crashed' => FreshFields' /\ \E m, r : Chain(m, r, head', tail', next', prev', alive')
  <2>1. TypeOK /\ FreshFields
    BY <1>1, TheChain
  <2>2. /\ TypeOK'
        /\ ~crashed' =>
              /\ FreshFields'
              /\ \E k \in 0 .. n : Chain(n + 1, Inserted(n, s, k, t), head', tail', next', prev', alive')
    BY <1>2, <2>1, AddChain
  <2>3. QED
    BY <2>2
<1>4. CASE crashed'
  BY <1>3, <1>4 DEF IInv
<1>5. CASE ~crashed'
  BY <1>3, <1>5, StillChain
<1>6. QED
  BY <1>4, <1>5

LEMMA AdjustStep ==
  ASSUME IInv, NEW t \in Timer, NEW e \in 0 .. MaxTime, Adjust(t, e)
  PROVE  IInv'
<1>1. ~crashed /\ t \in alive /\ alive' = alive
  BY DEF Adjust
<1>2. PICK n, s : /\ Chain(n, s, head, tail, next, prev, alive)
                  /\ \A u \in alive : \E i \in 1 .. n : s[i] = u
  BY <1>1, TheChain
<1>3. PICK i \in 1 .. n : s[i] = t
  BY <1>1, <1>2
<1>4. TypeOK /\ FreshFields /\ Adjust(s[i], e)
  BY <1>1, <1>3, TheChain
<1>5. /\ TypeOK' /\ FreshFields'
      /\ \/ UNCHANGED <<head, tail, next, prev>>
         \/ \E k \in i .. n - 1 :
              Chain(n, Inserted(n - 1, Removed(n, s, i), k, s[i]), head', tail', next', prev', alive')
  BY <1>2, <1>4, AdjustChain
<1>6. CASE UNCHANGED <<head, tail, next, prev>>
  <2>1. Chain(n, s, head', tail', next', prev', alive')
    BY <1>1, <1>2, <1>6
  <2>2. QED
    BY <1>5, <2>1, StillChain
<1>7. CASE ~UNCHANGED <<head, tail, next, prev>>
  BY <1>5, <1>7, StillChain
<1>8. QED
  BY <1>6, <1>7

LEMMA DelStep ==
  ASSUME IInv, NEW t \in Timer, Del(t)
  PROVE  IInv'
<1>1. ~crashed /\ t \in alive
  BY DEF Del
<1>2. PICK n, s : /\ Chain(n, s, head, tail, next, prev, alive)
                  /\ \A u \in alive : \E i \in 1 .. n : s[i] = u
  BY <1>1, TheChain
<1>3. PICK i \in 1 .. n : s[i] = t
  BY <1>1, <1>2
<1>4. TypeOK /\ FreshFields /\ Del(s[i])
  BY <1>1, <1>3, TheChain
<1>5. /\ TypeOK' /\ FreshFields'
      /\ Chain(n - 1, Removed(n, s, i), head', tail', next', prev', alive')
  BY <1>2, <1>4, DelChain
<1>6. QED
  BY <1>5, StillChain

LEMMA TickStep ==
  ASSUME IInv, NEW cur \in Nat, Tick(cur)
  PROVE  IInv'
<1>1. ~crashed
  BY DEF Tick
<1>2. TypeOK /\ FreshFields
  BY <1>1, TheChain
<1>3. PICK n, s : Chain(n, s, head, tail, next, prev, alive)
  BY <1>1, TheChain
<1>4. /\ TypeOK' /\ FreshFields'
      /\ \E k \in 0 .. n : Chain(n - k, Dropped(n, s, k), head', tail', next', prev', alive')
  BY <1>2, <1>3, TickChain
<1>5. QED
  BY <1>4, StillChain

LEMMA DestroyStep ==
  ASSUME IInv, Destroy
  PROVE  IInv'
<1>1. ~crashed
  BY DEF Destroy
<1>2. TypeOK /\ FreshFields
  BY <1>1, TheChain
<1>3. PICK n, s : Chain(n, s, head, tail, next, prev, alive)
  BY <1>1, TheChain
<1>4. TypeOK' /\ FreshFields' /\ Chain(0, << >>, head', tail', next', prev', alive')
  BY <1>2, <1>3, DestroyChain
<1>5. QED
  BY <1>4, StillChain

LEMMA ListUnchanged ==
  ASSUME IInv, UNCHANGED listVars
  PROVE  IInv'
BY DEF IInv, TypeOK, FreshFields, listVars

LEMMA ListStep == IInv /\ [Next]_listVars => IInv'
<1> SUFFICES ASSUME IInv, [Next]_listVars PROVE IInv'
  OBVIOUS
<1>1. ASSUME NEW t \in Timer, NEW e \in 0 .. MaxTime, Add(t, e) PROVE IInv'
  BY <1>1, AddStep
<1>2. ASSUME NEW t \in Timer, NEW e \in 0 .. MaxTime, Prolong(t, e) PROVE IInv'
  BY <1>2, AdjustStep DEF Prolong
<1>3. ASSUME NEW t \in Timer, Del(t) PROVE IInv'
  BY <1>3, DelStep
<1>4. ASSUME NEW cur \in 0 .. MaxTime, Tick(cur) PROVE IInv'
  BY <1>4, TickStep
<1>5. CASE Destroy
  BY <1>5, DestroyStep
<1>6. CASE UNCHANGED listVars
  BY <1>6, ListUnchanged
<1>7. QED
  BY <1>1, <1>2, <1>3, <1>4, <1>5, <1>6 DEF Next

\* The invariant holds throughout.
THEOREM ListInvariance == Spec => []IInv
BY ListInit, ListStep, PTL DEF Spec

LEMMA WellLinkedFollows == IInv => WellLinked
<1> SUFFICES ASSUME IInv, ~crashed PROVE WellLinked
  BY DEF WellLinked
<1>1. PICK n, s : Chain(n, s, head, tail, next, prev, alive)
  BY TheChain
<1>2. Cardinality(alive) = n /\ n \in Nat
  BY <1>1, ChainLength DEF IInv, TypeOK
<1>3. /\ s \in [1 .. n -> alive]
      /\ \A i, j \in 1 .. n : s[i] = s[j] => i = j
      /\ n = 0 => head = NULL
      /\ n > 0 => head = s[1] /\ prev[s[1]] = NULL /\ tail = s[n] /\ next[s[n]] = NULL
      /\ \A i \in 1 .. n - 1 : next[s[i]] = s[i + 1] /\ prev[s[i + 1]] = s[i]
  BY <1>1 DEF Chain
<1>4. LinkedAs(s)
  <2>1. Injective(s)
    BY <1>3 DEF Injective
  <2>2. QED
    BY <1>2, <1>3, <2>1 DEF LinkedAs
<1>5. QED
  BY <1>2, <1>3, <1>4 DEF WellLinked

(***************************************************************************)
(* Whatever is added, moved, deleted or expires, both chains of pointers   *)
(* run through exactly the allocated timers, in opposite orders: add_timer, *)
(* adjust_timer, del_timer and tick neither leak a timer nor reach a freed *)
(* one, although tail dangles after a tick that empties the list.          *)
(***************************************************************************)
THEOREM ListWellLinked == Spec => []WellLinked
BY ListInvariance, WellLinkedFollows, PTL

-----------------------------------------------------------------------------
(***************************************************************************)
(* The order.                                                              *)
(***************************************************************************)
LEMMA SortedIsOrdered ==
  ASSUME TypeOK, NEW n, NEW s, Chain(n, s, head, tail, next, prev, alive)
  PROVE  /\ Sorted <=> Ordered(n, s, expire)
         /\ n \in Nat /\ \A i \in 1 .. n : s[i] \in alive /\ s[i] \in Timer
         /\ \A i \in 1 .. n : expire[s[i]] \in 0 .. MaxTime /\ expire[s[i]] \in Int
<1>1. PICK x : x = expire
  OBVIOUS
<1>2. (\A t \in alive : next[t] # NULL => x[t] <= x[next[t]]) <=> Ordered(n, s, x)
  BY SortedChain DEF TypeOK
<1>3. Sorted <=> Ordered(n, s, expire)
  BY <1>1, <1>2 DEF Sorted
<1>4. n \in Nat /\ \A i \in 1 .. n : s[i] \in alive /\ s[i] \in Timer
  BY DEF Chain, TypeOK
<1>5. MaxTime \in Nat /\ expire \in [Timer -> 0 .. MaxTime]
  BY TimersFinite DEF TypeOK
<1>6. QED
  BY <1>3, <1>4, <1>5

\* The same of the next state.
LEMMA SortedNext ==
  ASSUME TypeOK', NEW n, NEW s, Chain(n, s, head', tail', next', prev', alive'),
         Ordered(n, s, expire')
  PROVE  Sorted'
<1>1. PICK x : x = expire'
  OBVIOUS
<1>2. PICK nx : nx = next'
  OBVIOUS
<1>3. PICK A \in SUBSET Timer : A = alive'
  BY DEF TypeOK
<1>4. Chain(n, s, head', tail', nx, prev', A) /\ Ordered(n, s, x)
  BY <1>1, <1>2, <1>3
<1>5. \A t \in A : nx[t] # NULL => x[t] <= x[nx[t]]
  BY <1>4, SortedChain
<1>6. QED
  BY <1>1, <1>2, <1>3, <1>5 DEF Sorted

LEMMA AddSorted ==
  ASSUME IInv, Sorted, NEW t \in Timer, NEW e \in 0 .. MaxTime, Add(t, e),
         head = NULL \/ e < expire[head] \/ (next[head] # NULL /\ expire[next[head]] <= e)
  PROVE  Sorted'
<1>0. ~crashed /\ t \notin alive /\ expire' = [expire EXCEPT ![t] = e]
  BY DEF Add
<1>1. TypeOK /\ FreshFields
  BY <1>0, TheChain
<1>2. PICK n, s : Chain(n, s, head, tail, next, prev, alive)
  BY <1>0, TheChain
<1>3. /\ Ordered(n, s, expire)
      /\ n \in Nat /\ \A i \in 1 .. n : s[i] \in alive /\ s[i] \in Timer
      /\ \A i \in 1 .. n : expire[s[i]] \in 0 .. MaxTime /\ expire[s[i]] \in Int
      /\ MaxTime \in Nat
  BY <1>1, <1>2, SortedIsOrdered, TimersFinite
<1>4. /\ head = NULL <=> n = 0
      /\ n > 0 => head = s[1] /\ 1 \in 1 .. n
      /\ n > 0 => next[head] = IF 1 = n THEN NULL ELSE s[2]
  <2>1. n > 0 => head = s[1] /\ 1 \in 1 .. n
    BY <1>2, <1>3 DEF Chain
  <2>2. n = 0 => head = NULL
    BY <1>2 DEF Chain
  <2>3. n > 0 => next[head] = IF 1 = n THEN NULL ELSE s[1 + 1]
    BY <1>2, <2>1, LinksOfChain
  <2>4. NULL \notin Timer
    BY TimersFinite
  <2>5. QED
    BY <1>3, <2>1, <2>2, <2>3, <2>4
<1>5. ~crashed'
  <2>1. CASE head = NULL
    BY <1>0, <2>1 DEF Add
  <2>2. CASE head # NULL
    <3>1. expire[head] \in 0 .. MaxTime
      BY <1>3, <1>4, <2>2
    <3>2. ~(e >= expire[head] /\ next[head] = NULL)
      BY <1>3, <2>2, <3>1
    <3>3. QED
      BY <1>0, <2>2, <3>2 DEF Add
  <2>3. QED
    BY <2>1, <2>2
<1>6. TypeOK' /\ \E k \in 0 .. n :
        /\ Chain(n + 1, Inserted(n, s, k, t), head', tail', next', prev', alive')
        /\ k < n => e < expire[s[k + 1]]
        /\ k > 0 => expire[head] <= e /\ next[head] # NULL /\ k >= 2
        /\ \A j \in 3 .. k : expire[s[j]] <= e
  BY <1>1, <1>2, <1>5, AddChain
<1>7. PICK k \in 0 .. n :
        /\ Chain(n + 1, Inserted(n, s, k, t), head', tail', next', prev', alive')
        /\ k < n => e < expire[s[k + 1]]
        /\ k > 0 => expire[head] <= e /\ next[head] # NULL /\ k >= 2
        /\ \A j \in 3 .. k : expire[s[j]] <= e
  BY <1>6
<1>8. k > 0 => expire[s[k]] <= e
  <2> SUFFICES ASSUME k > 0 PROVE expire[s[k]] <= e
    OBVIOUS
  <2>1. expire[head] <= e /\ next[head] # NULL /\ k >= 2 /\ n > 0 /\ k \in Nat /\ k \in 1 .. n
    BY <1>3, <1>7
  <2>2. head # NULL /\ next[head] = s[2] /\ expire[head] \in 0 .. MaxTime
    BY <1>3, <1>4, <2>1
  <2>3. expire[s[2]] <= e
    BY <1>3, <2>1, <2>2
  <2>4. CASE k = 2
    BY <2>3, <2>4
  <2>5. CASE k # 2
    <3>1. k \in 3 .. k
      BY <2>1, <2>5
    <3>2. QED
      BY <1>7, <3>1
  <2>6. QED
    BY <2>4, <2>5
<1>9. /\ \A i \in 1 .. n : expire'[s[i]] = expire[s[i]]
      /\ expire'[t] = e
  BY <1>0, <1>1, <1>3 DEF TypeOK
<1>10. k < n => expire'[t] <= expire[s[k + 1]]
  <2>1. k < n => k + 1 \in 1 .. n
    BY <1>3
  <2>2. QED
    BY <1>3, <1>7, <1>9, <2>1
<1>11. Ordered(n + 1, Inserted(n, s, k, t), expire')
  BY <1>3, <1>8, <1>9, <1>10, OrderedInsert
<1>12. QED
  BY <1>6, <1>7, <1>11, SortedNext

LEMMA AdjustSorted ==
  ASSUME IInv, Sorted, NEW t \in Timer, NEW e \in 0 .. MaxTime, Prolong(t, e)
  PROVE  Sorted'
<1>0. /\ ~crashed /\ t \in alive /\ alive' = alive /\ expire' = [expire EXCEPT ![t] = e]
      /\ expire[t] <= e
  BY DEF Prolong, Adjust
<1>1. TypeOK /\ FreshFields
  BY <1>0, TheChain
<1>2. PICK n, s : /\ Chain(n, s, head, tail, next, prev, alive)
                  /\ \A u \in alive : \E i \in 1 .. n : s[i] = u
  BY <1>0, TheChain
<1>3. /\ Ordered(n, s, expire)
      /\ n \in Nat /\ \A i \in 1 .. n : s[i] \in alive /\ s[i] \in Timer
      /\ \A i \in 1 .. n : expire[s[i]] \in 0 .. MaxTime /\ expire[s[i]] \in Int
      /\ MaxTime \in Nat
  BY <1>1, <1>2, SortedIsOrdered, TimersFinite
<1>4. PICK i \in 1 .. n : s[i] = t
  BY <1>0, <1>2
<1>5. Adjust(s[i], e)
  BY <1>4 DEF Prolong
<1>6. /\ TypeOK'
      /\ \/ /\ UNCHANGED <<head, tail, next, prev>>
            /\ i < n => e < expire[s[i + 1]]
         \/ /\ i < n /\ expire[s[i + 1]] <= e
            /\ \E k \in i .. n - 1 :
                 /\ Chain(n, Inserted(n - 1, Removed(n, s, i), k, s[i]),
                          head', tail', next', prev', alive')
                 /\ StopsAt(n - 1, Removed(n, s, i), i, k, e, expire)
  BY <1>1, <1>2, <1>5, AdjustChain
<1>7. \A j, k \in 1 .. n : s[j] = s[k] => j = k
  BY <1>2 DEF Chain
<1>8. /\ expire'[s[i]] = e
      /\ \A j \in 1 .. n : j # i => expire'[s[j]] = expire[s[j]]
  BY <1>0, <1>1, <1>3, <1>4, <1>7 DEF TypeOK
<1>9. CASE UNCHANGED <<head, tail, next, prev>> /\ (i < n => e < expire[s[i + 1]])
  <2>1. Chain(n, s, head', tail', next', prev', alive')
    BY <1>0, <1>2, <1>9
  <2>2. ASSUME NEW j \in 1 .. n - 1
        PROVE  expire'[s[j]] <= expire'[s[j + 1]]
    <3>1. j \in 1 .. n /\ j + 1 \in 1 .. n /\ j # j + 1
      BY <1>3
    <3>2. expire[s[j]] <= expire[s[j + 1]]
      BY <1>3 DEF Ordered
    <3>3. CASE j = i
      <4>1. i < n /\ i + 1 \in 1 .. n /\ i + 1 # i
        BY <1>3, <3>3
      <4>2. e < expire[s[i + 1]] /\ expire[s[i + 1]] \in 0 .. MaxTime
        BY <1>3, <1>9, <4>1
      <4>3. expire'[s[j]] = e /\ expire'[s[j + 1]] = expire[s[i + 1]]
        BY <1>8, <3>3, <4>1
      <4>4. QED
        BY <1>3, <4>2, <4>3
    <3>4. CASE j + 1 = i
      <4>1. j # i
        BY <1>3, <3>4
      <4>2. expire'[s[j]] = expire[s[j]] /\ expire'[s[j + 1]] = e
        BY <1>8, <3>1, <3>4, <4>1
      <4>3. expire[s[j]] <= expire[t] /\ expire[s[j]] \in 0 .. MaxTime /\ expire[t] \in 0 .. MaxTime
        BY <1>3, <1>4, <3>1, <3>2, <3>4
      <4>4. QED
        BY <1>0, <1>3, <4>2, <4>3
    <3>5. CASE j # i /\ j + 1 # i
      BY <1>8, <3>1, <3>2, <3>5
    <3>6. QED
      BY <3>3, <3>4, <3>5
  <2>3. Ordered(n, s, expire')
    BY <2>2 DEF Ordered
  <2>4. QED
    BY <1>6, <2>1, <2>3, SortedNext
<1>10. CASE /\ i < n /\ expire[s[i + 1]] <= e
            /\ \E k \in i .. n - 1 :
                 /\ Chain(n, Inserted(n - 1, Removed(n, s, i), k, s[i]),
                          head', tail', next', prev', alive')
                 /\ StopsAt(n - 1, Removed(n, s, i), i, k, e, expire)
  <2>1. PICK k \in i .. n - 1 :
                 /\ Chain(n, Inserted(n - 1, Removed(n, s, i), k, s[i]),
                          head', tail', next', prev', alive')
                 /\ StopsAt(n - 1, Removed(n, s, i), i, k, e, expire)
    BY <1>10
  <2>2. PICK m \in Nat : m = n - 1
    BY <1>3
  <2>3. PICK q : q = Removed(n, s, i)
    OBVIOUS
  <2>4. \A j \in 1 .. m : q[j] = IF j < i THEN s[j] ELSE s[j + 1]
    BY <2>2, <2>3 DEF Removed
  <2>5. ASSUME NEW j \in 1 .. m
        PROVE  expire'[q[j]] = expire[q[j]] /\ expire[q[j]] \in 0 .. MaxTime
    <3>1. j \in 1 .. n /\ j + 1 \in 1 .. n /\ (j < i => j # i) /\ (~(j < i) => j + 1 # i)
      BY <1>3, <2>2
    <3>2. QED
      BY <1>3, <1>8, <2>4, <3>1
  <2>6. Ordered(m, q, expire)
    BY <1>3, <2>2, <2>3, OrderedRemove
  <2>7. k \in 0 .. m /\ k \in 1 .. m /\ i \in 1 .. m /\ m + 1 = n
    BY <1>3, <1>10, <2>2
  <2>8. k < m => e < expire[q[k + 1]]
    BY <2>1, <2>2, <2>3 DEF StopsAt
  <2>9. expire[q[k]] <= e
    <3>1. CASE k = i
      <4>1. q[k] = s[i + 1]
        BY <2>4, <2>7, <3>1
      <4>2. QED
        BY <1>10, <4>1
    <3>2. CASE k # i
      <4>1. k \in i + 1 .. k
        BY <2>7, <3>2
      <4>2. QED
        BY <2>1, <2>3, <4>1 DEF StopsAt
    <3>3. QED
      BY <3>1, <3>2
  <2>10. k < m => expire'[s[i]] <= expire[q[k + 1]]
    <3>1. k < m => k + 1 \in 1 .. m
      BY <2>7
    <3>2. QED
      BY <1>3, <1>8, <2>5, <2>8, <3>1
  <2>11. Ordered(m + 1, Inserted(m, q, k, s[i]), expire')
    <3>1. k > 0 => expire[q[k]] <= expire'[s[i]]
      BY <1>8, <2>9
    <3>2. QED
      BY <2>5, <2>6, <2>7, <2>10, <3>1, OrderedInsert
  <2>12. /\ Chain(m + 1, Inserted(m, q, k, s[i]), head', tail', next', prev', alive')
    BY <2>1, <2>2, <2>3, <2>7
  <2>13. QED
    BY <1>6, <2>11, <2>12, SortedNext
<1>11. QED
  BY <1>6, <1>9, <1>10

LEMMA DelSorted ==
  ASSUME IInv, Sorted, NEW t \in Timer, Del(t)
  PROVE  Sorted'
<1>0. ~crashed /\ t \in alive /\ expire' = [u \in Timer |-> IF u \in {t} THEN 0 ELSE expire[u]]
  BY DEF Del, Delete, Free
<1>1. TypeOK /\ FreshFields
  BY <1>0, TheChain
<1>2. PICK n, s : /\ Chain(n, s, head, tail, next, prev, alive)
                  /\ \A u \in alive : \E i \in 1 .. n : s[i] = u
  BY <1>0, TheChain
<1>3. /\ Ordered(n, s, expire)
      /\ n \in Nat /\ \A i \in 1 .. n : s[i] \in alive /\ s[i] \in Timer
      /\ \A i \in 1 .. n : expire[s[i]] \in 0 .. MaxTime /\ expire[s[i]] \in Int
  BY <1>1, <1>2, SortedIsOrdered
<1>4. PICK i \in 1 .. n : s[i] = t
  BY <1>0, <1>2
<1>5. Del(s[i])
  BY <1>4
<1>6. TypeOK' /\ Chain(n - 1, Removed(n, s, i), head', tail', next', prev', alive')
  BY <1>1, <1>2, <1>5, DelChain
<1>7. Ordered(n - 1, Removed(n, s, i), expire)
  BY <1>3, OrderedRemove
<1>8. \A j, k \in 1 .. n : s[j] = s[k] => j = k
  BY <1>2 DEF Chain
<1>9. PICK m \in Int : m = n - 1
  BY <1>3
<1>10. PICK q : q = Removed(n, s, i)
  OBVIOUS
<1>11. ASSUME NEW j \in 1 .. m
       PROVE  expire'[q[j]] = expire[q[j]]
  <2>1. q[j] = IF j < i THEN s[j] ELSE s[j + 1]
    BY <1>9, <1>10 DEF Removed
  <2>2. j \in 1 .. n /\ j + 1 \in 1 .. n /\ (j < i => j # i) /\ (~(j < i) => j + 1 # i)
    BY <1>3, <1>9
  <2>3. QED
    BY <1>0, <1>3, <1>4, <1>8, <2>1, <2>2
<1>12. Ordered(m, q, expire')
  <2>1. \A j \in 1 .. m - 1 : j \in 1 .. m /\ j + 1 \in 1 .. m
    OBVIOUS
  <2>2. QED
    BY <1>7, <1>9, <1>10, <1>11, <2>1 DEF Ordered
<1>13. QED
  BY <1>6, <1>9, <1>10, <1>12, SortedNext

LEMMA TickSorted ==
  ASSUME IInv, Sorted, NEW cur \in Nat, Tick(cur)
  PROVE  Sorted' /\ \A t \in alive' : expire'[t] > cur
<1>0. /\ ~crashed /\ alive' = alive \ Expired(cur)
      /\ expire' = [u \in Timer |-> IF u \in Expired(cur) THEN 0 ELSE expire[u]]
  BY DEF Tick, Delete, Free
<1>1. TypeOK /\ FreshFields
  BY <1>0, TheChain
<1>2. PICK n, s : /\ Chain(n, s, head, tail, next, prev, alive)
                  /\ \A u \in alive : \E i \in 1 .. n : s[i] = u
  BY <1>0, TheChain
<1>3. /\ Ordered(n, s, expire)
      /\ n \in Nat /\ \A i \in 1 .. n : s[i] \in alive /\ s[i] \in Timer
      /\ \A i \in 1 .. n : expire[s[i]] \in 0 .. MaxTime /\ expire[s[i]] \in Int
      /\ MaxTime \in Nat
  BY <1>1, <1>2, SortedIsOrdered, TimersFinite
<1>4. /\ TypeOK'
      /\ \E k \in 0 .. n :
              /\ Expired(cur) = {s[i] : i \in 1 .. k}
              /\ Due(n, s, k, expire, cur)
              /\ Chain(n - k, Dropped(n, s, k), head', tail', next', prev', alive')
  BY <1>1, <1>2, TickChain
<1>5. PICK k \in 0 .. n :
              /\ Expired(cur) = {s[i] : i \in 1 .. k}
              /\ Due(n, s, k, expire, cur)
              /\ Chain(n - k, Dropped(n, s, k), head', tail', next', prev', alive')
  BY <1>4
<1>6. \A i, j \in 1 .. n : s[i] = s[j] => i = j
  BY <1>2 DEF Chain
<1>7. ASSUME NEW j \in 1 .. n, j > k
      PROVE  expire'[s[j]] = expire[s[j]]
  <2>1. ASSUME s[j] \in Expired(cur)
        PROVE  FALSE
    <3>1. PICK i \in 1 .. k : s[i] = s[j]
      BY <1>5, <2>1
    <3>2. i \in 1 .. n /\ i # j
      BY <1>3, <1>7
    <3>3. QED
      BY <1>6, <3>1, <3>2
  <2>2. QED
    BY <1>0, <1>3, <2>1
<1>8. Sorted'
  <2>1. PICK m \in Int : m = n - k
    BY <1>3
  <2>2. PICK q : q = Dropped(n, s, k)
    OBVIOUS
  <2>3. Ordered(m, q, expire)
    BY <1>3, <2>1, <2>2, OrderedDrop
  <2>4. ASSUME NEW j \in 1 .. m
        PROVE  expire'[q[j]] = expire[q[j]]
    <3>1. q[j] = s[j + k] /\ j + k \in 1 .. n /\ j + k > k
      BY <1>3, <2>1, <2>2 DEF Dropped
    <3>2. QED
      BY <1>7, <3>1
  <2>5. Ordered(m, q, expire')
    <3>1. \A j \in 1 .. m - 1 : j \in 1 .. m /\ j + 1 \in 1 .. m
      OBVIOUS
    <3>2. QED
      BY <2>3, <2>4, <3>1 DEF Ordered
  <2>6. QED
    BY <1>4, <1>5, <2>1, <2>2, <2>5, SortedNext
<1>9. ASSUME NEW t \in alive'
      PROVE  expire'[t] > cur
  <2>1. PICK j \in 1 .. n : s[j] = t
    BY <1>0, <1>2
  <2>2. ~(j <= k)
    <3>1. j <= k => j \in 1 .. k
      BY <1>3
    <3>2. QED
      BY <1>0, <1>5, <2>1, <3>1
  <2>3. j > k /\ k < n /\ k + 1 \in 1 .. n /\ j \in k + 1 .. n
    BY <1>3, <2>2
  <2>4. cur < expire[s[k + 1]]
    BY <1>5, <2>3 DEF Due
  <2>5. expire[s[k + 1]] <= expire[s[j]]
    BY <1>3, <2>3, OrderedPairs
  <2>6. expire[s[k + 1]] \in 0 .. MaxTime /\ expire[s[j]] \in 0 .. MaxTime
    BY <1>3, <2>3
  <2>7. \A x, y \in 0 .. MaxTime : cur < x /\ x <= y => y > cur
    BY <1>3
  <2>8. expire[s[j]] > cur
    BY <2>4, <2>5, <2>6, <2>7
  <2>9. QED
    BY <1>7, <2>1, <2>3, <2>8
<1>10. QED
  BY <1>8, <1>9

(***************************************************************************)
(* As long as the list is sorted a tick of any time leaves no timer behind *)
(* that has expired, however far back in the list: tick may stop at the    *)
(* first one that has not.                                                 *)
(***************************************************************************)
THEOREM TickMissesNone == Spec => TickExpiresAll
<1>1. IInv => \A cur \in 0 .. MaxTime : Sorted /\ Tick(cur) => \A t \in alive' : expire[t] > cur
  <2> SUFFICES ASSUME IInv, NEW cur \in 0 .. MaxTime, Sorted, Tick(cur), NEW t \in alive'
               PROVE  expire[t] > cur
    OBVIOUS
  <2>1. cur \in Nat
    BY TimersFinite
  <2>2. expire'[t] > cur
    BY <2>1, TickSorted
  <2>3. alive' = alive \ Expired(cur) /\ alive \subseteq Timer
        /\ expire' = [u \in Timer |-> IF u \in Expired(cur) THEN 0 ELSE expire[u]]
    BY DEF Tick, Delete, Free, IInv, TypeOK
  <2>4. expire'[t] = expire[t]
    BY <2>3
  <2>5. QED
    BY <2>2, <2>4
<1>2. IInv /\ [Next]_listVars =>
        [\A cur \in 0 .. MaxTime :
           Sorted /\ Tick(cur) => \A t \in alive' : expire[t] > cur]_listVars
  BY <1>1
<1>3. QED
  BY <1>2, ListInvariance, PTL DEF Spec, TickExpiresAll

(***************************************************************************)
(* add_timer keeps the list sorted when the new timer expires before the   *)
(* first one, not before the second, or is the only one.                   *)
(***************************************************************************)
THEOREM AddStaysSorted == Spec => AddKeepsSorted
<1>1. IInv => \A t \in Timer, e \in 0 .. MaxTime :
                /\ Sorted
                /\ Add(t, e)
                /\ \/ head = NULL \/ e < expire[head]
                   \/ next[head] # NULL /\ expire[next[head]] <= e
                => Sorted'
  BY AddSorted
<1>2. IInv /\ [Next]_listVars =>
        [\A t \in Timer, e \in 0 .. MaxTime :
                /\ Sorted
                /\ Add(t, e)
                /\ \/ head = NULL \/ e < expire[head]
                   \/ next[head] # NULL /\ expire[next[head]] <= e
                => Sorted']_listVars
  BY <1>1
<1>3. QED
  BY <1>2, ListInvariance, PTL DEF Spec, AddKeepsSorted

(***************************************************************************)
(* adjust_timer, called for a timer whose time is prolonged, moves it to   *)
(* its place: a sorted list stays sorted.                                  *)
(***************************************************************************)
THEOREM AdjustStaysSorted == Spec => AdjustKeepsSorted
<1>1. IInv => (Sorted /\ (\E t \in Timer, e \in 0 .. MaxTime : Prolong(t, e)) => Sorted')
  BY AdjustSorted
<1>2. IInv /\ [Next]_listVars =>
        [Sorted /\ (\E t \in Timer, e \in 0 .. MaxTime : Prolong(t, e)) => Sorted']_listVars
  BY <1>1
<1>3. QED
  BY <1>2, ListInvariance, PTL DEF Spec, AdjustKeepsSorted

-----------------------------------------------------------------------------
(***************************************************************************)
(* The list implements the set of timers.                                  *)
(***************************************************************************)
Times == [t \in Reached |-> expire[t]]

\* While nothing has crashed what is found from head is what is allocated.
LEMMA ReachesAll == IInv /\ ~crashed => Reached = alive
<1> SUFFICES ASSUME IInv, ~crashed PROVE Reached = alive
  OBVIOUS
<1>1. TypeOK /\ \E n, s : Chain(n, s, head, tail, next, prev, alive)
  BY TheChain
<1>2. QED
  BY <1>1, ReachedOfChain

LEMMA ReachesAllNext == IInv' /\ ~crashed' => Reached' = alive'
<1>1. (IInv /\ ~crashed => Reached = alive)'
  BY ReachesAll, PTL
<1>2. QED
  BY <1>1

LEMMA ExpiredAreAlive == IInv /\ ~crashed => \A cur : Expired(cur) \subseteq alive
BY ReachesAll DEF Expired

\* tick calls for expired only what has expired.
LEMMA ExpiredInTime ==
  ASSUME NEW cur, NEW t \in Expired(cur)
  PROVE  expire[t] <= cur
<1>1. PICK n \in DOMAIN Walk : Walk[n] = t /\ \A m \in 0 .. n : expire[Walk[m]] <= cur
  BY DEF Expired
<1>2. DOMAIN Walk = 0 .. Cardinality(Timer)
  BY PathDef DEF Walk
<1>3. n \in 0 .. n
  BY <1>1, <1>2, TimersFinite
<1>4. QED
  BY <1>1, <1>3

LEMMA EmptyList == IInv /\ ~crashed /\ head = NULL => alive = {}
<1> SUFFICES ASSUME IInv, ~crashed, head = NULL PROVE alive = {}
  OBVIOUS
<1>1. TypeOK /\ \E n, s : Chain(n, s, head, tail, next, prev, alive)
  BY TheChain
<1>2. PICK n, s : Chain(n, s, head, tail, next, prev, alive)
  BY <1>1
<1>3. /\ n \in Nat /\ NULL \notin Timer /\ alive \subseteq Timer
      /\ n > 0 => head = s[1]
      /\ \A i \in 1 .. n : s[i] \in alive
      /\ \A t \in alive : \E i \in 1 .. n : s[i] = t
  BY <1>1, <1>2, TimersFinite DEF Chain, TypeOK
<1>4. n = 0
  <2>1. n > 0 => 1 \in 1 .. n
    BY <1>3
  <2>2. ~(n > 0)
    BY <1>3, <2>1
  <2>3. QED
    BY <1>3, <2>2
<1>5. QED
  BY <1>3, <1>4

\* The steps of the set, in terms of what is found from head.
LEMMA SetSteps ==
  /\ \A t, e : Abstract!Insert(t, e) <=>
       /\ t \notin DOMAIN Times
       /\ Times' = [u \in DOMAIN Times \cup {t} |-> IF u = t THEN e ELSE Times[u]]
  /\ \A t, e : Abstract!Prolong(t, e) <=>
       /\ t \in DOMAIN Times /\ Times[t] <= e
       /\ Times' = [u \in DOMAIN Times \cup {t} |-> IF u = t THEN e ELSE Times[u]]
  /\ \A t : Abstract!Remove(t) <=>
       t \in DOMAIN Times /\ Times' = [u \in DOMAIN Times \ {t} |-> Times[u]]
  /\ \A now : Abstract!Expire(now) <=>
       \E T \in SUBSET {t \in DOMAIN Times : Times[t] <= now} :
         Times' = [u \in DOMAIN Times \ T |-> Times[u]]
  /\ Abstract!Clear <=> Times' = [u \in DOMAIN Times \ DOMAIN Times |-> Times[u]]
<1>1. ASSUME NEW t, NEW e
      PROVE  /\ Abstract!Insert(t, e) <=>
                  /\ t \notin DOMAIN Times
                  /\ Times' = [u \in DOMAIN Times \cup {t} |-> IF u = t THEN e ELSE Times[u]]
             /\ Abstract!Prolong(t, e) <=>
                  /\ t \in DOMAIN Times /\ Times[t] <= e
                  /\ Times' = [u \in DOMAIN Times \cup {t} |-> IF u = t THEN e ELSE Times[u]]
  BY DEF Times, Abstract!Insert, Abstract!Prolong, Abstract!With
<1>2. ASSUME NEW t
      PROVE  Abstract!Remove(t) <=>
               t \in DOMAIN Times /\ Times' = [u \in DOMAIN Times \ {t} |-> Times[u]]
  BY DEF Times, Abstract!Remove, Abstract!Without
<1>3. ASSUME NEW now
      PROVE  Abstract!Expire(now) <=>
               \E T \in SUBSET {t \in DOMAIN Times : Times[t] <= now} :
                 Times' = [u \in DOMAIN Times \ T |-> Times[u]]
  BY DEF Times, Abstract!Expire, Abstract!Without
<1>4. Abstract!Clear <=> Times' = [u \in DOMAIN Times \ DOMAIN Times |-> Times[u]]
  BY DEF Times, Abstract!Clear, Abstract!Without
<1>5. QED
  BY <1>1, <1>2, <1>3, <1>4

LEMMA SetStep ==
  IInv /\ IInv' => AsInSet
<1> SUFFICES ASSUME IInv, IInv' PROVE AsInSet
  OBVIOUS
<1>t. MaxTime \in Nat
  BY TimersFinite
<1>u. /\ alive \subseteq Timer /\ expire \in [Timer -> 0 .. MaxTime]
  BY DEF IInv, TypeOK
<1>v. ~crashed => DOMAIN Times = alive /\ \A t \in alive : Times[t] = expire[t]
  BY ReachesAll DEF Times
<1>w. ~crashed' => Times' = [t \in alive' |-> expire'[t]]
  BY ReachesAllNext DEF Times
<1>1. ASSUME NEW t \in Timer, NEW e \in 0 .. MaxTime, Add(t, e)
      PROVE  IF crashed' THEN UNCHANGED [u \in Reached |-> expire[u]]
             ELSE Abstract!Insert(t, e)
  <2>1. ~crashed /\ t \notin alive /\ alive' = alive \cup {t} /\ expire' = [expire EXCEPT ![t] = e]
    BY <1>1 DEF Add
  <2>2. CASE ~crashed'
    <3>1. Times' = [u \in alive \cup {t} |-> IF u = t THEN e ELSE Times[u]]
      BY <1>u, <1>v, <1>w, <2>1, <2>2
    <3>2. Abstract!Insert(t, e)
      BY <1>v, <2>1, <3>1, SetSteps
    <3>3. QED
      BY <2>2, <3>2
  \* add_timer crashed before it had linked the timer in.
  <2>3. CASE crashed'
    <3>1. UNCHANGED <<head, next>>
      BY <1>1, <2>1, <2>3 DEF Add
    <3>2. Reached' = Reached
      BY <3>1 DEF Reached, Walk
    <3>3. Times' = Times
      BY <1>u, <1>v, <2>1, <3>2, ReachesAll DEF Times
    <3>4. QED
      BY <2>3, <3>3 DEF Times
  <2>4. QED
    BY <2>2, <2>3
<1>2. ASSUME NEW t \in Timer, NEW e \in 0 .. MaxTime, Prolong(t, e)
      PROVE  Abstract!Prolong(t, e)
  <2>1. /\ ~crashed /\ crashed' = crashed /\ t \in alive /\ alive' = alive
        /\ expire' = [expire EXCEPT ![t] = e] /\ expire[t] <= e
    BY <1>2 DEF Prolong, Adjust
  <2>2. Times' = [u \in alive \cup {t} |-> IF u = t THEN e ELSE Times[u]]
    BY <1>u, <1>v, <1>w, <2>1
  <2>3. QED
    BY <1>v, <2>1, <2>2, SetSteps
<1>3. ASSUME NEW t \in Timer, Del(t)
      PROVE  Abstract!Remove(t)
  <2>1. /\ ~crashed /\ crashed' = crashed /\ t \in alive /\ alive' = alive \ {t}
        /\ expire' = [u \in Timer |-> IF u \in {t} THEN 0 ELSE expire[u]]
    BY <1>3 DEF Del, Delete, Free
  <2>2. Times' = [u \in alive \ {t} |-> Times[u]]
    BY <1>u, <1>v, <1>w, <2>1
  <2>3. QED
    BY <1>v, <2>1, <2>2, SetSteps
<1>4. ASSUME NEW cur \in 0 .. MaxTime, Tick(cur)
      PROVE  Abstract!Expire(cur)
  <2>1. /\ ~crashed /\ crashed' = crashed /\ alive' = alive \ Expired(cur)
        /\ expire' = [u \in Timer |-> IF u \in Expired(cur) THEN 0 ELSE expire[u]]
    BY <1>4 DEF Tick, Delete, Free
  <2>2. PICK T : T = Expired(cur)
    OBVIOUS
  <2>3. Times' = [u \in alive \ T |-> Times[u]]
    BY <1>u, <1>v, <1>w, <2>1, <2>2
  <2>4. T \subseteq {t \in alive : Times[t] <= cur}
    <3>1. cur \in Nat /\ TypeOK /\ \E n, s : Chain(n, s, head, tail, next, prev, alive)
      BY <1>t, <2>1, TheChain
    <3>2. PICK n, s : Chain(n, s, head, tail, next, prev, alive)
      BY <3>1
    <3>3. PICK k \in 0 .. n : Expired(cur) = {s[i] : i \in 1 .. k} /\ Due(n, s, k, expire, cur)
      BY <3>1, <3>2, ExpiredOfChain
    <3>4. n \in Nat /\ \A i \in 1 .. n : s[i] \in alive
      BY <3>2 DEF Chain
    <3>5. ASSUME NEW i \in 1 .. k
          PROVE  s[i] \in alive /\ expire[s[i]] <= cur
      <4>1. i \in 1 .. n
        BY <3>4
      <4>2. QED
        BY <3>3, <3>4, <4>1 DEF Due
    <3>6. QED
      BY <1>v, <2>1, <2>2, <3>3, <3>5
  <2>5. QED
    BY <1>v, <2>1, <2>3, <2>4, SetSteps
<1>5. ASSUME Destroy PROVE Abstract!Clear
  <2>1. ~crashed /\ crashed' = crashed /\ alive' = alive \ Reached
    BY <1>5 DEF Destroy, Delete
  <2>2. alive' = {}
    BY <2>1, ReachesAll
  <2>3. Times' = [u \in DOMAIN Times \ DOMAIN Times |-> Times[u]]
    BY <1>w, <2>1, <2>2
  <2>4. QED
    BY <2>3, SetSteps
<1>6. QED
  BY <1>1, <1>2, <1>3, <1>4, <1>5 DEF AsInSet

(***************************************************************************)
(* What is found from head is a set of timers to which add_timer,          *)
(* adjust_timer, del_timer, tick and the destructor each do what they are  *)
(* called for, with the timer and the time they are called with, and       *)
(* nothing else: in particular a tick loses no timer whose time has not    *)
(* come at that tick.                                                      *)
(***************************************************************************)
THEOREM ListIsTimerSet == Spec => ImplementsTimerSet
<1>1. Init => Abstract!Init
  <2> SUFFICES ASSUME Init PROVE Abstract!Init
    OBVIOUS
  <2>1. IInv /\ ~crashed /\ alive = {}
    BY ListInit DEF Init
  <2>2. Reached = {}
    BY <2>1, ReachesAll
  <2>3. QED
    BY <2>2 DEF Abstract!Init
<1>2. IInv /\ IInv' /\ [Next]_listVars => [AsInSet]_listVars
  BY SetStep
<1>3. QED
  BY <1>1, <1>2, ListInvariance, PTL DEF Spec, ImplementsTimerSet
=============================================================================
