----------------------------- MODULE QueueLemmas -----------------------------
(***************************************************************************)
(* Queues without repetitions, as the pools and the request list hold      *)
(* their descriptors, functions with one value overwritten, and numbers:   *)
(* induction stated for a set instead of a predicate, so that it can be    *)
(* used for any set.                                                       *)
(***************************************************************************)
EXTENDS Integers, Sequences, Functions, SequenceTheorems,
        FiniteSetTheorems, WellFoundedInduction, TLAPS

-----------------------------------------------------------------------------
(* Numbers. *)

\* Every set of naturals has a smallest element.
LEMMA Smallest ==
  ASSUME NEW T \in SUBSET Nat, T # {}
  PROVE  \E x \in T : \A y \in T : x <= y
<1> DEFINE R == OpToRel(<, Nat)
<1>1. IsWellFoundedOn(R, Nat)
  BY NatLessThanWellFounded
<1>2. \A x, y \in Nat : (<<y, x>> \in R) <=> (y < x)
  BY DEF OpToRel
<1> HIDE DEF R
<1>3. PICK x \in T : \A y \in T : ~(<<y, x>> \in R)
  BY <1>1, WFMin
<1>4. \A y \in T : ~(y < x)
  BY <1>2, <1>3
<1> QED BY <1>4

\* A set of naturals with a bound has a largest element.
LEMMA Largest ==
  ASSUME NEW n \in Nat, NEW T \in SUBSET (0..n), T # {}
  PROVE  \E x \in T : \A y \in T : x >= y
<1> DEFINE U == {n - y : y \in T}
<1>1. U \in SUBSET Nat /\ U # {}
  <2>1. \A y \in T : n - y \in Nat
    OBVIOUS
  <2>2. PICK t : t \in T
    OBVIOUS
  <2>3. U \subseteq Nat
    BY <2>1
  <2> QED BY <2>2, <2>3
<1>2. PICK u \in U : \A v \in U : u <= v
  BY <1>1, Smallest
<1>3. PICK x \in T : u = n - x
  BY <1>2
<1>4. \A y \in T : n - x <= n - y
  BY <1>2, <1>3
<1> QED BY <1>4

\* Induction: a set with 0 and the successor of each of its naturals has them all.
LEMMA Induction ==
  ASSUME NEW S, 0 \in S, \A n \in Nat : n \in S => n + 1 \in S
  PROVE  Nat \subseteq S
<1> SUFFICES ASSUME Nat \ S # {}
             PROVE  FALSE
  OBVIOUS
<1>1. PICK x \in Nat \ S : \A y \in Nat \ S : x <= y
  BY Smallest
<1>2. x - 1 \in Nat /\ x - 1 \in S
  BY <1>1
<1> QED BY <1>1, <1>2

\* Neighbours differ modulo any number from two on.
LEMMA Neighbours ==
  ASSUME NEW n \in Nat, NEW m \in Nat, m > 1
  PROVE  /\ n % m \in 0..(m - 1) /\ (n + 1) % m \in 0..(m - 1)
         /\ n % m # (n + 1) % m /\ ((n % m) + 1) % m = (n + 1) % m
<1> DEFINE T == {k \in Nat : \E q \in Nat, r \in 0..(m - 1) : k = m * q + r}
<1>1. 0 \in T
  <2>1. 0 = m * 0 + 0 /\ 0 \in 0..(m - 1)
    OBVIOUS
  <2> QED BY <2>1
<1>2. ASSUME NEW k \in Nat, k \in T
      PROVE  k + 1 \in T
  <2>1. PICK q \in Nat, r \in 0..(m - 1) : k = m * q + r
    BY <1>2
  <2>2. CASE r + 1 < m
    <3>1. k + 1 = m * q + (r + 1) /\ r + 1 \in 0..(m - 1)
      BY <2>1, <2>2
    <3> QED BY <3>1
  <2>3. CASE ~(r + 1 < m)
    <3> DEFINE p == q + 1
    <3>1. k + 1 = m * p + 0 /\ p \in Nat /\ 0 \in 0..(m - 1)
      BY <2>1, <2>3
    <3> HIDE DEF p
    <3> QED BY <3>1
  <2> QED BY <2>2, <2>3
<1>3. n \in T
  <2> HIDE DEF T
  <2> QED BY <1>1, <1>2, Induction
<1>4. PICK q \in Nat, r \in 0..(m - 1) : n = m * q + r
  BY <1>3
<1>5. \A k \in Nat, a \in Nat, c \in 0..(m - 1) : k = m * a + c => k % m = c
  OBVIOUS
<1>6. n % m = r
  BY <1>4, <1>5
<1>7. CASE r + 1 < m
  <2> DEFINE k == n + 1
             c == r + 1
  <2>1. k = m * q + c /\ c \in 0..(m - 1) /\ k \in Nat
    BY <1>4, <1>7
  <2>2. k % m = c
    <3> HIDE DEF k, c
    <3> QED BY <1>5, <2>1
  <2>3. c = m * 0 + c /\ c \in Nat
    BY <2>1
  <2>4. c % m = c
    <3> HIDE DEF c
    <3> QED BY <1>5, <2>1, <2>3
  <2> QED BY <1>6, <2>1, <2>2, <2>4
<1>8. CASE ~(r + 1 < m)
  <2>1. n + 1 = m * (q + 1) + 0 /\ q + 1 \in Nat /\ 0 \in 0..(m - 1)
    BY <1>4, <1>8
  <2>2. (n + 1) % m = 0
    BY <1>5, <2>1
  <2>3. r + 1 = m * 1 + 0 /\ r + 1 \in Nat
    BY <1>4, <1>8
  <2>4. (r + 1) % m = 0
    BY <1>5, <2>1, <2>3
  <2> QED BY <1>6, <1>8, <2>1, <2>2, <2>4
<1> QED BY <1>7, <1>8

\* What recursion over the first numbers defines is there: one step for each number.
Recursed(h, n, b, next) == h[0] = b /\ \A i \in 1..n : h[i] = next[i][h[i - 1]]

LEMMA Recursion ==
  ASSUME NEW S, NEW n \in Nat, NEW b \in S, NEW next \in [1..n -> [S -> S]]
  PROVE  \E h \in [0..n -> S] : Recursed(h, n, b, next)
<1> DEFINE Ok(m, h) == h[0] = b /\ \A i \in 1..m : h[i] = next[i][h[i - 1]]
           T == {m \in Nat : m <= n => \E h \in [0..m -> S] : Ok(m, h)}
<1>1. 0 \in T
  <2>1. [i \in 0..0 |-> b] \in [0..0 -> S] /\ Ok(0, [i \in 0..0 |-> b])
    OBVIOUS
  <2> QED BY <2>1
<1>2. ASSUME NEW m \in Nat, m \in T
      PROVE  m + 1 \in T
  <2> SUFFICES ASSUME m + 1 <= n
               PROVE  \E h \in [0..(m + 1) -> S] : Ok(m + 1, h)
    OBVIOUS
  <2>1. PICK g \in [0..m -> S] : Ok(m, g)
    BY <1>2
  <2>2. next[m + 1] \in [S -> S] /\ g[m] \in S
    OBVIOUS
  <2>3. next[m + 1][g[m]] \in S
    BY <2>2
  <2> DEFINE v == next[m + 1][g[m]]
             h == [i \in 0..(m + 1) |-> IF i = m + 1 THEN v ELSE g[i]]
  <2> HIDE DEF v
  <2>4. v \in S /\ v = next[m + 1][g[m]]
    BY <2>3 DEF v
  <2>5. h \in [0..(m + 1) -> S]
    BY <2>4
  <2>6. \A i \in 0..m : h[i] = g[i]
    OBVIOUS
  <2>7. h[m + 1] = next[m + 1][h[m]]
    BY <2>4, <2>6
  <2> HIDE DEF h
  <2>8. Ok(m + 1, h)
    <3>1. h[0] = b
      BY <2>1, <2>6
    <3>2. ASSUME NEW i \in 1..(m + 1)
          PROVE  h[i] = next[i][h[i - 1]]
      <4>1. CASE i = m + 1
        BY <2>7, <4>1
      <4>2. CASE i # m + 1
        <5>1. i \in 1..m /\ i \in 0..m /\ i - 1 \in 0..m
          BY <4>2
        <5> QED BY <2>1, <2>6, <5>1
      <4> QED BY <4>1, <4>2
    <3> QED BY <3>1, <3>2
  <2> QED BY <2>5, <2>8
<1>3. n \in T
  <2> HIDE DEF T
  <2> QED BY <1>1, <1>2, Induction
<1> QED BY <1>3 DEF Recursed

-----------------------------------------------------------------------------
(* Queues without repetitions. *)

\* A queue of elements of 1..n without repetitions is no longer than n: a pool is
\* never given more than it lent out.
LEMMA Pigeonhole ==
  ASSUME NEW n \in Nat, NEW q \in Seq(1..n), IsInjective(q)
  PROVE  Len(q) \in 0..n
<1>1. /\ Len(q) \in Nat
      /\ q \in [1..Len(q) -> 1..n]
  BY LenProperties
<1>2. q \in Injection(1..Len(q), 1..n)
  BY <1>1 DEF Injection, IsInjective
<1>3. IsFiniteSet(1..n) /\ Cardinality(1..n) = n
  BY FS_Interval
<1>4. Cardinality(1..Len(q)) <= n
  BY <1>2, <1>3, FS_Injection
<1>5. \A k \in Nat : Cardinality(1..k) = k
  BY FS_Interval
<1> QED BY <1>1, <1>4, <1>5

\* What taking the first element of a queue without repetitions leaves
\* (RequestPool::alloc).
LEMMA TakeFirst ==
  ASSUME NEW S, NEW q \in Seq(S), q # <<>>, IsInjective(q)
  PROVE  /\ Head(q) \in S
         /\ Head(q) \in Range(q)
         /\ Tail(q) \in Seq(S)
         /\ IsInjective(Tail(q))
         /\ Range(Tail(q)) = Range(q) \ {Head(q)}
<1>1. /\ DOMAIN q = 1..Len(q) /\ Len(q) \in Nat \ {0}
      /\ Head(q) = q[1] /\ Head(q) \in S
  BY LenProperties, EmptySeq, HeadTailProperties
<1>2. /\ Tail(q) \in Seq(S) /\ DOMAIN Tail(q) = 1..(Len(q) - 1)
      /\ \A i \in 1..(Len(q) - 1) : Tail(q)[i] = q[i + 1]
  BY HeadTailProperties, LenProperties
<1>3. IsInjective(Tail(q))
  BY <1>1, <1>2 DEF IsInjective
<1>4. Range(Tail(q)) \subseteq Range(q) \ {Head(q)}
  BY <1>1, <1>2 DEF Range, IsInjective
<1>5. ASSUME NEW e \in Range(q) \ {Head(q)}
      PROVE  e \in Range(Tail(q))
  <2>1. PICK i \in 1..Len(q) : e = q[i]
    BY <1>1 DEF Range
  <2>2. i - 1 \in 1..(Len(q) - 1) /\ Tail(q)[i - 1] = e
    BY <1>1, <1>2, <2>1
  <2> QED BY <1>2, <2>2 DEF Range
<1>6. Head(q) \in Range(q)
  BY <1>1 DEF Range
<1> QED BY <1>1, <1>2, <1>3, <1>4, <1>5, <1>6

\* What giving back an element the queue does not hold leaves
\* (RequestPool::free).
LEMMA GiveBack ==
  ASSUME NEW S, NEW q \in Seq(S), IsInjective(q),
         NEW e \in S, e \notin Range(q)
  PROVE  /\ Append(q, e) \in Seq(S)
         /\ IsInjective(Append(q, e))
         /\ Range(Append(q, e)) = Range(q) \union {e}
<1>1. /\ DOMAIN q = 1..Len(q) /\ Len(q) \in Nat
      /\ Append(q, e) \in Seq(S)
      /\ DOMAIN Append(q, e) = 1..(Len(q) + 1)
      /\ \A i \in 1..Len(q) : Append(q, e)[i] = q[i]
      /\ Append(q, e)[Len(q) + 1] = e
  BY LenProperties, AppendProperties
<1>2. \A i \in 1..(Len(q) + 1) : i # Len(q) + 1 => i \in 1..Len(q)
  BY <1>1
<1>3. \A i \in 1..Len(q) : q[i] # e
  BY <1>1 DEF Range
<1>4. IsInjective(Append(q, e))
  BY <1>1, <1>2, <1>3 DEF IsInjective
<1>5. Range(Append(q, e)) = Range(q) \union {e}
  <2>1. Len(q) + 1 \in 1..(Len(q) + 1)
    BY <1>1
  <2>2. \A i \in 1..Len(q) : i \in 1..(Len(q) + 1)
    BY <1>1
  <2> QED BY <1>1, <1>2, <2>1, <2>2 DEF Range
<1> QED BY <1>1, <1>4, <1>5

\* What is left of a sequence without its i-th element.
Without(r, q, i) ==
  Len(r) = Len(q) - 1 /\ \A k \in 1..(Len(q) - 1) : r[k] = IF k < i THEN q[k] ELSE q[k + 1]

LEMMA Removed ==
  ASSUME NEW S, NEW q \in Seq(S), NEW i \in 1..Len(q)
  PROVE  LET r == SubSeq(q, 1, i - 1) \o SubSeq(q, i + 1, Len(q))
         IN  r \in Seq(S) /\ Without(r, q, i)
<1> DEFINE u == SubSeq(q, 1, i - 1)
           v == SubSeq(q, i + 1, Len(q))
           r == u \o v
<1>1. DOMAIN q = 1..Len(q) /\ Len(q) \in Nat /\ i \in Nat \ {0}
  BY LenProperties
<1>2. /\ u \in Seq(S) /\ Len(u) = i - 1
      /\ \A k \in 1..(i - 1) : u[k] = q[k]
  BY <1>1, SubSeqProperties
<1>3. /\ v \in Seq(S) /\ Len(v) = Len(q) - i
      /\ \A k \in 1..(Len(q) - i) : v[k] = q[k + i]
  <2>1. /\ i + 1 \in Int /\ Len(q) \in Int
        /\ \A k \in (i + 1)..Len(q) : q[k] \in S
    BY <1>1
  <2>2. /\ SubSeq(q, i + 1, Len(q)) \in Seq(S)
        /\ Len(SubSeq(q, i + 1, Len(q))) =
             IF i + 1 <= Len(q) THEN Len(q) - (i + 1) + 1 ELSE 0
        /\ \A k \in 1..(Len(q) - (i + 1) + 1) :
             SubSeq(q, i + 1, Len(q))[k] = q[i + 1 + k - 1]
    BY <2>1, SubSeqProperties
  <2>3. /\ v \in Seq(S)
        /\ Len(v) = IF i + 1 <= Len(q) THEN Len(q) - (i + 1) + 1 ELSE 0
        /\ \A k \in 1..(Len(q) - (i + 1) + 1) : v[k] = q[i + 1 + k - 1]
    BY <2>2
  <2> HIDE DEF v
  <2>4. i <= Len(q) /\ Len(q) - (i + 1) + 1 = Len(q) - i
    BY <1>1
  <2>5. Len(v) = Len(q) - i
    <3>1. CASE i + 1 <= Len(q)
      BY <2>3, <2>4, <3>1
    <3>2. CASE ~(i + 1 <= Len(q))
      <4> DEFINE n == Len(q)
      <4>1. n \in Nat /\ i \in Nat /\ i <= n /\ ~(i + 1 <= n)
        BY <1>1, <2>4, <3>2
      <4> HIDE DEF n, u, r
      <4>2. n - i = 0
        BY <4>1
      <4> QED BY <2>3, <3>2, <4>2 DEF n
    <3> QED BY <3>1, <3>2
  <2>6. \A k \in 1..(Len(q) - i) : i + 1 + k - 1 = k + i
    BY <1>1
  <2> QED BY <2>3, <2>4, <2>5, <2>6
<1> HIDE DEF u, v
<1>4. /\ r \in Seq(S) /\ Len(r) = Len(q) - 1
      /\ \A k \in 1..(Len(q) - 1) : r[k] = IF k < i THEN q[k] ELSE q[k + 1]
  <2>1. /\ u \o v \in Seq(S)
        /\ Len(u \o v) = Len(u) + Len(v)
        /\ \A k \in 1..(Len(u) + Len(v)) :
             (u \o v)[k] = IF k <= Len(u) THEN u[k] ELSE v[k - Len(u)]
    BY <1>2, <1>3, ConcatProperties
  <2> HIDE DEF r
  <2>2. /\ r \in Seq(S)
        /\ Len(r) = Len(u) + Len(v)
        /\ \A k \in 1..(Len(u) + Len(v)) :
             r[k] = IF k <= Len(u) THEN u[k] ELSE v[k - Len(u)]
    BY <2>1 DEF r
  <2>3. Len(u) + Len(v) = Len(q) - 1
    BY <1>1, <1>2, <1>3
  <2>4. ASSUME NEW k \in 1..(Len(q) - 1)
        PROVE  r[k] = IF k < i THEN q[k] ELSE q[k + 1]
    <3>1. CASE k < i
      BY <1>1, <1>2, <2>2, <2>3, <3>1
    <3>2. CASE ~(k < i)
      <4>1. ~(k <= Len(u)) /\ k - Len(u) \in 1..(Len(q) - i) /\ k - Len(u) + i = k + 1
        BY <1>1, <1>2, <3>2
      <4>2. r[k] = v[k - Len(u)]
        BY <2>2, <2>3, <4>1
      <4> QED BY <1>3, <3>2, <4>1, <4>2
    <3> QED BY <3>1, <3>2
  <2> QED BY <2>2, <2>3, <2>4
<1> QED BY <1>4 DEF Without, r, u, v

\* A sequence with an element put in before its i-th.
With(r, q, e, i) ==
  /\ Len(r) = Len(q) + 1
  /\ \A k \in 1..(Len(q) + 1) :
       r[k] = IF k < i THEN q[k] ELSE IF k = i THEN e ELSE q[k - 1]

LEMMA Inserted ==
  ASSUME NEW S, NEW q \in Seq(S), NEW e \in S, NEW i \in 1..(Len(q) + 1)
  PROVE  LET r == SubSeq(q, 1, i - 1) \o <<e>> \o SubSeq(q, i, Len(q))
         IN  r \in Seq(S) /\ With(r, q, e, i)
<1> DEFINE u == SubSeq(q, 1, i - 1)
           v == SubSeq(q, i, Len(q))
           w == u \o <<e>>
           r == w \o v
<1>1. DOMAIN q = 1..Len(q) /\ Len(q) \in Nat /\ i \in Nat \ {0} /\ i <= Len(q) + 1
  BY LenProperties
<1>2. /\ u \in Seq(S) /\ Len(u) = i - 1
      /\ \A k \in 1..(i - 1) : u[k] = q[k]
  BY <1>1, SubSeqProperties
<1>3. /\ v \in Seq(S) /\ Len(v) = Len(q) - i + 1
      /\ \A k \in 1..(Len(q) - i + 1) : v[k] = q[k + i - 1]
  BY <1>1
<1> HIDE DEF u, v
<1>4. w \in Seq(S) /\ Len(w) = i /\ \A k \in 1..i : w[k] = IF k < i THEN u[k] ELSE e
  BY <1>1, <1>2
<1> HIDE DEF w
<1>5. /\ r \in Seq(S) /\ Len(r) = Len(q) + 1
      /\ \A k \in 1..(Len(q) + 1) : r[k] = IF k <= i THEN w[k] ELSE v[k - i]
  BY <1>1, <1>3, <1>4
<1> HIDE DEF r
<1>6. ASSUME NEW k \in 1..(Len(q) + 1)
      PROVE  r[k] = IF k < i THEN q[k] ELSE IF k = i THEN e ELSE q[k - 1]
  <2>1. CASE k < i
    BY <1>1, <1>2, <1>4, <1>5, <2>1
  <2>2. CASE k = i
    BY <1>1, <1>4, <1>5, <2>2
  <2>3. CASE k > i
    <3>1. k - i \in 1..(Len(q) - i + 1) /\ k - i + i - 1 = k - 1
      BY <1>1, <2>3
    <3>2. r[k] = v[k - i]
      BY <1>1, <1>5, <2>3
    <3> QED BY <1>3, <2>3, <3>1, <3>2
  <2> QED BY <1>1, <2>1, <2>2, <2>3
<1> QED BY <1>5, <1>6 DEF With, r, w, u, v

\* What taking out an element from anywhere in a queue leaves (List::erase).
LEMMA TakeOut ==
  ASSUME NEW S, NEW q \in Seq(S), IsInjective(q), NEW i \in 1..Len(q)
  PROVE  LET r == SubSeq(q, 1, i - 1) \o SubSeq(q, i + 1, Len(q))
         IN  /\ r \in Seq(S)
             /\ IsInjective(r)
             /\ Range(r) = Range(q) \ {q[i]}
<1> DEFINE r == SubSeq(q, 1, i - 1) \o SubSeq(q, i + 1, Len(q))
<1>1. DOMAIN q = 1..Len(q) /\ Len(q) \in Nat /\ i \in Nat \ {0}
  BY LenProperties
<1>4. /\ r \in Seq(S) /\ Len(r) = Len(q) - 1
      /\ \A k \in 1..(Len(q) - 1) : r[k] = IF k < i THEN q[k] ELSE q[k + 1]
  BY Removed DEF Without
<1> HIDE DEF r
<1>5. DOMAIN r = 1..(Len(q) - 1)
  BY <1>4, LenProperties
<1>6. IsInjective(r)
  <2> SUFFICES ASSUME NEW a \in 1..(Len(q) - 1), NEW b \in 1..(Len(q) - 1), r[a] = r[b]
               PROVE  a = b
    BY <1>5, Zenon DEF IsInjective
  <2> DEFINE place(k) == IF k < i THEN k ELSE k + 1
  <2>1. /\ place(a) \in 1..Len(q) /\ r[a] = q[place(a)]
        /\ place(b) \in 1..Len(q) /\ r[b] = q[place(b)]
    BY <1>1, <1>4
  <2>2. place(a) = place(b)
    <3> HIDE DEF place
    <3> QED BY <1>1, <2>1 DEF IsInjective
  <2> QED BY <1>1, <2>2
<1>7. Range(r) \subseteq Range(q) \ {q[i]}
  BY <1>1, <1>4, <1>5 DEF Range, IsInjective
<1>8. ASSUME NEW e \in Range(q) \ {q[i]}
      PROVE  e \in Range(r)
  <2>1. PICK k \in 1..Len(q) : e = q[k] /\ k # i
    BY <1>1 DEF Range
  <2>2. CASE k < i
    <3>1. k \in 1..(Len(q) - 1) /\ r[k] = e
      BY <1>1, <1>4, <2>1, <2>2
    <3> QED BY <1>5, <3>1 DEF Range
  <2>3. CASE k > i
    <3>1. k - 1 \in 1..(Len(q) - 1) /\ r[k - 1] = e
      BY <1>1, <1>4, <2>1, <2>3
    <3> QED BY <1>5, <3>1 DEF Range
  <2> QED BY <1>1, <2>1, <2>2, <2>3
<1> QED BY <1>4, <1>6, <1>7, <1>8 DEF r

\* Overwriting one value of a function.
LEMMA Overwritten ==
  ASSUME NEW S, NEW T, NEW f \in [S -> T], NEW d \in S, NEW e \in T
  PROVE  /\ [f EXCEPT ![d] = e] \in [S -> T]
         /\ [f EXCEPT ![d] = e][d] = e
         /\ \A x \in S \ {d} : [f EXCEPT ![d] = e][x] = f[x]
OBVIOUS

-----------------------------------------------------------------------------
(* Queues of numbers that ascend, as what waits for its turn is numbered. *)

Ascends(q, a, b) ==
  /\ q \in Seq(Nat) /\ a \in Nat /\ b \in Nat /\ a <= b
  /\ \A i \in 1..Len(q) : a < q[i] /\ q[i] <= b
  /\ \A i, j \in 1..Len(q) : i < j => q[i] < q[j]

LEMMA AscendsEmpty ==
  ASSUME NEW a \in Nat, NEW b \in Nat, a <= b
  PROVE  Ascends(<<>>, a, b)
BY DEF Ascends

LEMMA AscendsWider ==
  ASSUME NEW q, NEW a, NEW b, Ascends(q, a, b), NEW c \in Nat, c <= a, NEW d \in Nat, b <= d
  PROVE  Ascends(q, c, d)
<1>1. /\ q \in Seq(Nat) /\ a \in Nat /\ b \in Nat /\ a <= b
      /\ \A i \in 1..Len(q) : a < q[i] /\ q[i] <= b
      /\ \A i, j \in 1..Len(q) : i < j => q[i] < q[j]
  BY DEF Ascends
<1>2. \A i \in 1..Len(q) : q[i] \in Nat
  BY <1>1
<1>3. \A i \in 1..Len(q) : c < q[i] /\ q[i] <= d
  BY <1>1, <1>2
<1> QED BY <1>1, <1>3 DEF Ascends

\* One more at the end.
LEMMA AscendsAppend ==
  ASSUME NEW q, NEW a, NEW b, Ascends(q, a, b), NEW e \in Nat, b < e
  PROVE  Ascends(Append(q, e), a, e)
<1>1. /\ q \in Seq(Nat) /\ Len(q) \in Nat /\ a \in Nat /\ b \in Nat /\ a <= b
      /\ \A i \in 1..Len(q) : a < q[i] /\ q[i] <= b /\ q[i] \in Nat
      /\ \A i, j \in 1..Len(q) : i < j => q[i] < q[j]
  BY DEF Ascends
<1> DEFINE r == Append(q, e)
<1>2. /\ r \in Seq(Nat) /\ Len(r) = Len(q) + 1 /\ r[Len(q) + 1] = e
      /\ \A i \in 1..Len(q) : r[i] = q[i]
  BY <1>1
<1>3. \A i \in 1..Len(r) : i \in 1..Len(q) \/ i = Len(q) + 1
  BY <1>1, <1>2
<1> HIDE DEF r
<1>4. ASSUME NEW i \in 1..Len(r)
      PROVE  a < r[i] /\ r[i] <= e
  BY <1>1, <1>2, <1>3
<1>5. ASSUME NEW i \in 1..Len(r), NEW j \in 1..Len(r), i < j
      PROVE  r[i] < r[j]
  <2>1. i \in 1..Len(q) /\ r[i] = q[i]
    BY <1>1, <1>2, <1>5
  <2>2. CASE j \in 1..Len(q)
    BY <1>1, <1>2, <1>5, <2>1, <2>2
  <2>3. CASE j = Len(q) + 1
    <3>1. r[j] = e /\ q[i] \in Nat /\ q[i] <= b
      BY <1>1, <1>2, <2>1, <2>3
    <3> QED BY <1>1, <2>1, <3>1
  <2> QED BY <1>3, <2>2, <2>3
<1> QED BY <1>1, <1>2, <1>4, <1>5 DEF Ascends, r

\* The first is taken.
LEMMA AscendsPop ==
  ASSUME NEW q, NEW a, NEW b, Ascends(q, a, b), q # <<>>
  PROVE  /\ Head(q) \in Nat /\ a < Head(q) /\ Head(q) <= b
         /\ Ascends(Tail(q), Head(q), b)
<1>1. /\ q \in Seq(Nat) /\ Len(q) \in Nat \ {0} /\ a \in Nat /\ b \in Nat /\ a <= b
      /\ \A i \in 1..Len(q) : a < q[i] /\ q[i] <= b /\ q[i] \in Nat
      /\ \A i, j \in 1..Len(q) : i < j => q[i] < q[j]
  BY DEF Ascends
<1> DEFINE r == Tail(q)
           h == Head(q)
<1>2. h = q[1] /\ r \in Seq(Nat) /\ Len(r) = Len(q) - 1 /\ \A i \in 1..Len(r) : r[i] = q[i + 1]
  BY <1>1, HeadTailProperties
<1>3. h \in Nat /\ a < h /\ h <= b
  BY <1>1, <1>2
<1> HIDE DEF r, h
<1>4. ASSUME NEW i \in 1..Len(r)
      PROVE  i + 1 \in 1..Len(q) /\ 1 \in 1..Len(q) /\ 1 < i + 1
  BY <1>1, <1>2
<1>5. \A i \in 1..Len(r) : h < r[i] /\ r[i] <= b
  BY <1>1, <1>2, <1>4
<1>6. ASSUME NEW i \in 1..Len(r), NEW j \in 1..Len(r), i < j
      PROVE  r[i] < r[j]
  <2>1. i + 1 < j + 1
    BY <1>1, <1>2, <1>6
  <2> QED BY <1>1, <1>2, <1>4, <1>6, <2>1
<1> QED BY <1>1, <1>2, <1>3, <1>5, <1>6 DEF Ascends, r, h

\* One queue behind another.
LEMMA AscendsJoin ==
  ASSUME NEW q, NEW r, NEW a, NEW b, NEW c, Ascends(q, a, b), Ascends(r, b, c)
  PROVE  Ascends(q \o r, a, c)
<1>1. /\ q \in Seq(Nat) /\ Len(q) \in Nat /\ a \in Nat /\ b \in Nat /\ a <= b
      /\ \A i \in 1..Len(q) : a < q[i] /\ q[i] <= b /\ q[i] \in Nat
      /\ \A i, j \in 1..Len(q) : i < j => q[i] < q[j]
  BY DEF Ascends
<1>2. /\ r \in Seq(Nat) /\ Len(r) \in Nat /\ c \in Nat /\ b <= c
      /\ \A i \in 1..Len(r) : b < r[i] /\ r[i] <= c /\ r[i] \in Nat
      /\ \A i, j \in 1..Len(r) : i < j => r[i] < r[j]
  BY DEF Ascends
<1> DEFINE w == q \o r
           n == Len(q)
<1>3. /\ w \in Seq(Nat) /\ Len(w) = n + Len(r)
      /\ \A i \in 1..Len(w) : w[i] = IF i <= n THEN q[i] ELSE r[i - n]
  BY <1>1, <1>2, ConcatProperties
<1>4. \A i \in 1..Len(w) : (i <= n /\ i \in 1..n) \/ (~(i <= n) /\ i - n \in 1..Len(r))
  BY <1>1, <1>2, <1>3
<1> HIDE DEF w, n
<1>5. ASSUME NEW i \in 1..Len(w)
      PROVE  a < w[i] /\ w[i] <= c
  <2>1. CASE i <= n /\ i \in 1..n
    <3>1. w[i] = q[i] /\ a < q[i] /\ q[i] <= b /\ q[i] \in Nat
      BY <1>1, <1>3, <2>1 DEF n
    <3> QED BY <1>1, <1>2, <3>1
  <2>2. CASE ~(i <= n) /\ i - n \in 1..Len(r)
    <3>1. w[i] = r[i - n] /\ b < r[i - n] /\ r[i - n] <= c /\ r[i - n] \in Nat
      BY <1>2, <1>3, <2>2
    <3> QED BY <1>1, <1>2, <3>1
  <2> QED BY <1>4, <2>1, <2>2
<1>6. ASSUME NEW i \in 1..Len(w), NEW j \in 1..Len(w), i < j
      PROVE  w[i] < w[j]
  <2>0. n \in Nat /\ i \in Nat /\ j \in Nat
    BY <1>1, <1>3 DEF n
  <2>1. CASE j <= n
    <3>1. i \in 1..n /\ j \in 1..n /\ i <= n
      BY <1>6, <2>0, <2>1
    <3> QED BY <1>1, <1>3, <1>6, <2>1, <3>1 DEF n
  <2>2. CASE i <= n /\ ~(j <= n)
    <3>1. i \in 1..n /\ j - n \in 1..Len(r)
      BY <1>4, <2>2
    <3>2. q[i] <= b /\ b < r[j - n] /\ q[i] \in Nat /\ r[j - n] \in Nat
      BY <1>1, <1>2, <3>1 DEF n
    <3> QED BY <1>1, <1>3, <2>2, <3>2
  <2>3. CASE ~(i <= n)
    <3>1. ~(j <= n) /\ i - n \in 1..Len(r) /\ j - n \in 1..Len(r) /\ i - n < j - n
      BY <1>4, <1>6, <2>0, <2>3
    <3> QED BY <1>2, <1>3, <2>3, <3>1
  <2> QED BY <2>1, <2>2, <2>3
<1>7. w \in Seq(Nat) /\ a <= c
  BY <1>1, <1>2, <1>3
<1> QED BY <1>1, <1>2, <1>5, <1>6, <1>7 DEF Ascends, w

\* A queue in two.
LEMMA AscendsSplit ==
  ASSUME NEW q, NEW a, NEW b, Ascends(q, a, b), NEW n \in 0..Len(q)
  PROVE  \E m \in a..b : /\ Ascends(SubSeq(q, 1, n), a, m)
                         /\ Ascends(SubSeq(q, n + 1, Len(q)), m, b)
                         /\ \A i \in 1..n : q[i] <= m
<1>1. /\ q \in Seq(Nat) /\ Len(q) \in Nat /\ a \in Nat /\ b \in Nat /\ a <= b
      /\ \A i \in 1..Len(q) : a < q[i] /\ q[i] <= b /\ q[i] \in Nat
      /\ \A i, j \in 1..Len(q) : i < j => q[i] < q[j]
  BY DEF Ascends
<1> DEFINE u == SubSeq(q, 1, n)
           v == SubSeq(q, n + 1, Len(q))
           m == IF n = 0 THEN a ELSE q[n]
<1>2. u \in Seq(Nat) /\ Len(u) = n /\ \A i \in 1..n : u[i] = q[i]
  BY <1>1, SubSeqProperties
<1>3. v \in Seq(Nat) /\ Len(v) = Len(q) - n /\ \A i \in 1..(Len(q) - n) : v[i] = q[i + n]
  <2> DEFINE k == n + 1
             l == Len(q)
  <2>1. k \in Int /\ l \in Int /\ \A i \in k..l : q[i] \in Nat
    BY <1>1
  <2> HIDE DEF k, l
  <2>2. /\ SubSeq(q, k, l) \in Seq(Nat) /\ Len(SubSeq(q, k, l)) = IF k <= l THEN l - k + 1 ELSE 0
        /\ \A i \in 1..(l - k + 1) : SubSeq(q, k, l)[i] = q[k + i - 1]
    BY <2>1, SubSeqProperties
  <2>3. v = SubSeq(q, k, l) /\ l = Len(q) /\ k = n + 1
    BY DEF k, l
  <2> HIDE DEF v
  <2>4. l - k + 1 = l - n /\ (IF k <= l THEN l - k + 1 ELSE 0) = l - n
        /\ \A i \in 1..(l - n) : k + i - 1 = i + n
    BY <1>1, <2>3
  <2> QED BY <2>2, <2>3, <2>4
<1>4. m \in Nat /\ a <= m /\ m <= b /\ \A i \in 1..n : q[i] <= m
  <2>1. CASE n = 0
    BY <1>1, <2>1
  <2>2. CASE n # 0
    <3>1. n \in 1..Len(q) /\ \A i \in 1..n : i \in 1..Len(q) /\ (i < n \/ i = n)
      BY <1>1, <2>2
    <3> QED BY <1>1, <2>2, <3>1
  <2> QED BY <2>1, <2>2
<1>5. \A i \in (n + 1)..Len(q) : m < q[i]
  <2>1. CASE n = 0
    BY <1>1, <2>1
  <2>2. CASE n # 0
    <3>1. n \in 1..Len(q) /\ \A i \in (n + 1)..Len(q) : i \in 1..Len(q) /\ n < i
      BY <1>1, <2>2
    <3> QED BY <1>1, <2>2, <3>1
  <2> QED BY <2>1, <2>2
<1> HIDE DEF u, v, m
<1>6. Ascends(u, a, m)
  <2>1. \A i \in 1..n : i \in 1..Len(q)
    BY <1>1
  <2> QED BY <1>1, <1>2, <1>4, <2>1 DEF Ascends
<1>7. Ascends(v, m, b)
  <2>1. ASSUME NEW i \in 1..Len(v)
        PROVE  i + n \in (n + 1)..Len(q) /\ i + n \in 1..Len(q) /\ v[i] = q[i + n]
    BY <1>1, <1>3
  <2>2. \A i \in 1..Len(v) : m < v[i] /\ v[i] <= b
    BY <1>1, <1>5, <2>1
  <2>3. ASSUME NEW i \in 1..Len(v), NEW j \in 1..Len(v), i < j
        PROVE  v[i] < v[j]
    <3>1. i + n < j + n
      BY <1>1, <1>3, <2>3
    <3> QED BY <1>1, <2>1, <3>1
  <2> QED BY <1>1, <1>3, <1>4, <2>2, <2>3 DEF Ascends
<1>8. m \in a..b
  BY <1>1, <1>4
<1> QED BY <1>4, <1>6, <1>7, <1>8 DEF u, v

\* The next numbers.
LEMMA AscendsNew ==
  ASSUME NEW a \in Nat, NEW k \in Nat
  PROVE  /\ Ascends([i \in 1..k |-> a + i], a, a + k) /\ Len([i \in 1..k |-> a + i]) = k
<1> DEFINE q == [i \in 1..k |-> a + i]
<1>1. q \in Seq(Nat) /\ Len(q) = k /\ \A i \in 1..k : q[i] = a + i
  OBVIOUS
<1> HIDE DEF q
<1>2. \A i \in 1..Len(q) : a < q[i] /\ q[i] <= a + k
  BY <1>1
<1>3. \A i, j \in 1..Len(q) : i < j => q[i] < q[j]
  BY <1>1
<1> QED BY <1>1, <1>2, <1>3 DEF Ascends, q
====
