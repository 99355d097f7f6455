------------------------- MODULE PercentilesProofs -------------------------
(***************************************************************************)
(* The percentiles of a slice of any length: that both functions sort, and *)
(* what is at the indices they compute.                                    *)
(***************************************************************************)
EXTENDS Percentiles, DataLemmas

Sorted(s) == \A m, n \in 1 .. Len(s) : m <= n => s[m] <= s[n]

LEMMA IndexBounds ==
    ASSUME NEW n \in Nat \ {0}
    PROVE  /\ (n * 50) \div 100 \in 0 .. n - 1
           /\ (n * 95) \div 100 \in 0 .. n - 1
           /\ (n * 99) \div 100 \in 0 .. n - 1
           /\ (n * 50) \div 100 <= (n * 95) \div 100
           /\ (n * 95) \div 100 <= (n * 99) \div 100
  BY Z3

\* No slice is too short: the three indices the code computes are inside every
\* slice that is not empty (ebpf.go:318-324, otel_receiver.go:512-518 would
\* panic otherwise), the test of the last one never fails, and p50 <= p95 <= p99.
THEOREM PercentilesInBounds ==
    ASSUME NEW s \in Seq(Int), s # << >>, Sorted(s)
    PROVE  /\ PercentilesOf(s) \in [p50 : Int, p95 : Int, p99 : Int]
           /\ PercentilesOf(s).p99 = At(s, 99)
           /\ PercentilesOf(s).p50 <= PercentilesOf(s).p95
           /\ PercentilesOf(s).p95 <= PercentilesOf(s).p99
<1> DEFINE n == Len(s)
           i == (n * 50) \div 100 + 1
           j == (n * 95) \div 100 + 1
           k == (n * 99) \div 100 + 1
<1>1. n \in Nat \ {0}
  BY EmptySeq
<1>2. i \in 1 .. n /\ j \in 1 .. n /\ k \in 1 .. n /\ i <= j /\ j <= k /\ k - 1 < n
  BY <1>1, IndexBounds
<1>3. s[i] \in Int /\ s[j] \in Int /\ s[k] \in Int /\ s[i] <= s[j] /\ s[j] <= s[k]
  BY <1>2, SeqDef DEF Sorted
<1>4. PercentilesOf(s) = [p50 |-> s[i], p95 |-> s[j], p99 |-> s[k]]
  BY <1>1, <1>2 DEF PercentilesOf, At
<1>5. At(s, 99) = s[k]
  BY DEF At
<1> QED BY <1>3, <1>4, <1>5

\* The percentiles the code picks are percentiles: with the elements sorted, at
\* most p in a hundred are below the one at index n*p/100, and more than p in a
\* hundred are not above it.
THEOREM RankOfIndex ==
    ASSUME NEW s \in Seq(Int), s # << >>, Sorted(s), NEW p \in 0 .. 99
    PROVE  LET i == (Len(s) * p) \div 100 + 1
           IN  /\ i \in 1 .. Len(s)
               /\ \A m \in 1 .. Len(s) : s[m] < At(s, p) => m < i
               /\ (i - 1) * 100 <= Len(s) * p
               /\ \A m \in 1 .. i : s[m] <= At(s, p)
               /\ i * 100 > Len(s) * p
<1> DEFINE n == Len(s)
           i == (n * p) \div 100 + 1
<1>1. n \in Nat \ {0}
  BY EmptySeq
<1>2. n * p \in Nat /\ n * p <= n * 99
  BY <1>1, Z3
<1>3. i \in Nat /\ i >= 1 /\ (i - 1) * 100 <= n * p /\ i * 100 > n * p
  <2> DEFINE x == n * p
  <2>1. x \in Nat
    BY <1>2
  <2> HIDE DEF x
  <2>2. x \div 100 \in Nat /\ (x \div 100) * 100 <= x /\ x < (x \div 100) * 100 + 100
    BY <2>1
  <2> QED BY <2>2 DEF x
<1>4. i \in 1 .. n
  BY <1>1, <1>2, <1>3
<1>5. At(s, p) = s[i]
  BY DEF At
<1>6. \A m \in 1 .. n : s[m] \in Int
  BY SeqDef
<1>7. ASSUME NEW m \in 1 .. n, s[m] < At(s, p) PROVE m < i
  <2>1. CASE i <= m
    BY <1>4, <1>5, <1>6, <1>7, <2>1 DEF Sorted
  <2> QED BY <1>3, <2>1
<1>8. ASSUME NEW m \in 1 .. i PROVE s[m] <= At(s, p)
  BY <1>4, <1>5 DEF Sorted
<1> QED BY <1>3, <1>4, <1>7, <1>8

-----------------------------------------------------------------------------
\* The sort written by hand sorts.  Slices are functions on 1 .. n here.

\* Two slices that have the same elements, each as often.
SameElements(t, s) ==
    /\ Range(t) = Range(s)
    /\ \A v \in Int : Below(t, v) = Below(s, v) /\ NotAbove(t, v) = NotAbove(s, v)

\* An exchange changes nothing of that.
CountIn(t, n, Q) == Cardinality({m \in 1 .. n : t[m] \in Q})

LEMMA ExchangeKeepsCounts ==
    ASSUME NEW n \in Nat, NEW u \in [1 .. n -> Int], NEW i \in 1 .. n, NEW j \in 1 .. n,
           NEW t \in [1 .. n -> Int], t[i] = u[j], t[j] = u[i],
           \A m \in (1 .. n) \ {i, j} : t[m] = u[m], NEW Q
    PROVE  CountIn(t, n, Q) = CountIn(u, n, Q)
<1> DEFINE A == {m \in 1 .. n : t[m] \in Q}
           B == {m \in 1 .. n : u[m] \in Q}
           to(m) == IF m = i THEN j ELSE IF m = j THEN i ELSE m
           f == [m \in A |-> to(m)]
<1>1. \A m \in 1 .. n : to(m) \in 1 .. n /\ t[m] = u[to(m)] /\ to(to(m)) = m
  OBVIOUS
<1>2. \A m \in A : to(m) \in B
  BY <1>1
<1>3. \A m \in B : to(m) \in A /\ to(to(m)) = m
  BY <1>1
<1>4. \A l, m \in A : to(l) = to(m) => l = m
  OBVIOUS
<1>5. f \in Bijection(A, B)
  <2> HIDE DEF A, B, to
  <2>1. f \in [A -> B]
    BY <1>2
  <2>2. \A l, m \in A : f[l] = f[m] => l = m
    BY <1>4
  <2>3. \A m \in B : to(m) \in A /\ f[to(m)] = m
    BY <1>3
  <2> HIDE DEF f
  <2>4. IsInjective(f)
    BY <2>1, <2>2 DEF IsInjective
  <2> QED BY <2>1, <2>3, <2>4 DEF Bijection, Injection, Surjection
<1>6. IsFiniteSet(A) /\ IsFiniteSet(B)
  <2>1. IsFiniteSet(1 .. n)
    BY FS_Interval
  <2>2. A \subseteq 1 .. n /\ B \subseteq 1 .. n
    OBVIOUS
  <2> HIDE DEF A, B
  <2> QED BY <2>1, <2>2, FS_Subset
<1> HIDE DEF A, B, f
<1>7. Cardinality(A) = Cardinality(B)
  BY <1>5, <1>6, FS_Bijection DEF ExistsBijection
<1> QED BY <1>7 DEF A, B, CountIn

LEMMA ExchangeIs ==
    ASSUME NEW n \in Nat, NEW u \in [1 .. n -> Int], NEW i \in 1 .. n, NEW j \in 1 .. n
    PROVE  /\ Exchange(u, i, j) \in [1 .. n -> Int]
           /\ SameElements(Exchange(u, i, j), u)
<1> DEFINE t == [u EXCEPT ![i] = u[j], ![j] = u[i]]
<1>1. CASE Exchange(u, i, j) = u
  BY <1>1 DEF SameElements
<1>2. CASE Exchange(u, i, j) = t
  <2>1. t \in [1 .. n -> Int]
    OBVIOUS
  <2>2. Range(t) = Range(u)
    <3>1. \A m \in 1 .. n : \E l \in 1 .. n : t[m] = u[l]
      OBVIOUS
    <3>2. \A m \in 1 .. n : \E l \in 1 .. n : u[m] = t[l]
      <4> TAKE m \in 1 .. n
      <4>1. t[IF m = i THEN j ELSE IF m = j THEN i ELSE m] = u[m]
        OBVIOUS
      <4> QED BY <4>1
    <3> HIDE DEF t
    <3>3. DOMAIN t = 1 .. n /\ DOMAIN u = 1 .. n
      BY <2>1
    <3>4. \A x : x \in Range(t) <=> \E m \in 1 .. n : x = t[m]
      BY <3>3 DEF Range
    <3>5. \A x : x \in Range(u) <=> \E m \in 1 .. n : x = u[m]
      BY <3>3 DEF Range
    <3>6. \A x : x \in Range(t) <=> x \in Range(u)
      BY ZenonT(30), <3>1, <3>2, <3>4, <3>5
    <3> QED BY <3>6
  <2>3. ASSUME NEW v \in Int PROVE Below(t, v) = Below(u, v) /\ NotAbove(t, v) = NotAbove(u, v)
    <3> DEFINE L == {x \in Int : x < v}
               M == {x \in Int : x <= v}
    <3>1. t[i] = u[j] /\ t[j] = u[i] /\ \A m \in (1 .. n) \ {i, j} : t[m] = u[m]
      OBVIOUS
    <3> HIDE DEF t
    <3>2. ASSUME NEW s \in [1 .. n -> Int]
          PROVE  Below(s, v) = CountIn(s, n, L) /\ NotAbove(s, v) = CountIn(s, n, M)
      <4>1. {m \in DOMAIN s : s[m] < v} = {m \in 1 .. n : s[m] \in L}
        OBVIOUS
      <4>2. {m \in DOMAIN s : s[m] <= v} = {m \in 1 .. n : s[m] \in M}
        OBVIOUS
      <4> HIDE DEF L, M
      <4> QED BY <4>1, <4>2 DEF Below, NotAbove, CountIn
    <3> HIDE DEF L, M
    <3>3. CountIn(t, n, L) = CountIn(u, n, L) /\ CountIn(t, n, M) = CountIn(u, n, M)
      BY <2>1, <3>1, ExchangeKeepsCounts
    <3> QED BY <2>1, <3>2, <3>3
  <2> HIDE DEF t
  <2> QED BY <1>2, <2>1, <2>2, <2>3 DEF SameElements
<1> QED BY <1>1, <1>2 DEF Exchange

LEMMA SameElementsTransitive ==
    ASSUME NEW r, NEW s, NEW t, SameElements(r, s), SameElements(s, t)
    PROVE  SameElements(r, t)
  BY DEF SameElements

LEMMA SameElementsReflexive == ASSUME NEW s PROVE SameElements(s, s)
  BY DEF SameElements

\* The steps of the inner loop ...
LEMMA RoundSteps ==
    ASSUME NEW n \in Nat, NEW s \in [1 .. n -> Int], NEW i \in 1 .. n
    PROVE  \E h : /\ h[0] = s
                  /\ \A k \in 1 .. n : h[k] = Exchange(h[k - 1], i, k)
                  /\ h[n] = ExchangeRound(s, i)
<1> DEFINE indices == [k \in DOMAIN s |-> k]
           Raw(f) == f = [t \in SUBSET DOMAIN indices |->
                             IF t = {} THEN s
                             ELSE Exchange(f[t \ {Max(t)}], i, indices[Max(t)])]
           f == CHOOSE f : Raw(f)
<1>1. ExchangeRound(s, i) = f[DOMAIN indices]
  BY DEF ExchangeRound, FoldLeft, MapThenFoldSet
<1>2. DOMAIN indices = 1 .. n
  OBVIOUS
<1>3. \A t \in SUBSET (1 .. n) : t # {} => indices[Max(t)] = Largest(t) /\ Max(t) = Largest(t)
  BY LargestIn DEF Largest, Max
<1> HIDE DEF indices
<1>4. \E e : Raw(e)
  <2> DEFINE T == [1 .. n -> Int]
             g == [x \in T \X (1 .. n) |-> Exchange(x[1], i, x[2])]
  <2>1. g \in [T \X (1 .. n) -> T] /\ s \in T
    BY ExchangeIs
  <2> HIDE DEF g
  <2>2. PICK e : IsFoldOf(e, n, T, s, g)
    <3> HIDE DEF T
    <3> QED BY <2>1, FoldStepsExist
  <2>3. ASSUME NEW t \in SUBSET (1 .. n), t # {}
        PROVE  e[t] = Exchange(e[t \ {Max(t)}], i, indices[Max(t)])
    <3> DEFINE before == t \ {Largest(t)}
    <3>1. before \in SUBSET (1 .. n) /\ e[before] \in T /\ Largest(t) \in 1 .. n
      BY <2>2, <2>3, LargestIn DEF IsFoldOf
    <3>2. e[t] = g[<<e[before], Largest(t)>>]
      BY <2>2, <2>3 DEF IsFoldOf
    <3>3. before = t \ {Max(t)} /\ indices[Max(t)] = Largest(t)
      BY <1>3, <2>3
    <3> HIDE DEF T, before
    <3>4. g[<<e[before], Largest(t)>>] = Exchange(e[before], i, Largest(t))
      BY <3>1 DEF g
    <3> QED BY <3>2, <3>3, <3>4
  <2>4. /\ e = [t \in SUBSET (1 .. n) |-> e[t]]
        /\ \A t \in SUBSET (1 .. n) : t = {} => e[t] = s
    BY <2>2 DEF IsFoldOf
  <2>5. Raw(e)
    BY <1>2, <2>3, <2>4
  <2> QED BY <2>5
<1>5. Raw(f)
  <2> HIDE DEF Raw
  <2> QED BY <1>4
<1> HIDE DEF f
<1>6. \A t \in SUBSET (1 .. n) :
          f[t] = IF t = {} THEN s ELSE Exchange(f[t \ {Max(t)}], i, indices[Max(t)])
  BY <1>2, <1>5
<1> DEFINE h == [k \in 0 .. n |-> f[1 .. k]]
<1>7. h[0] = s
  <2>1. 1 .. 0 = {} /\ {} \in SUBSET (1 .. n)
    OBVIOUS
  <2>2. f[{}] = s
    BY <1>6
  <2> QED BY <2>1, <2>2
<1>8. ASSUME NEW k \in 1 .. n PROVE h[k] = Exchange(h[k - 1], i, k)
  <2> DEFINE t == 1 .. k
  <2>1. t \in SUBSET (1 .. n) /\ t # {} /\ Largest(t) = k /\ t \ {k} = 1 .. k - 1
    <3>1. k \in Nat \ {0} /\ t \in SUBSET (1 .. n)
      OBVIOUS
    <3> QED BY <3>1, PrefixSteps
  <2>2. Max(t) = k /\ indices[Max(t)] = k
    BY <1>3, <2>1
  <2>3. h[k] = f[t] /\ h[k - 1] = f[1 .. k - 1]
    OBVIOUS
  <2> HIDE DEF t, h
  <2> QED BY <1>6, <2>1, <2>2, <2>3
<1>9. h[n] = ExchangeRound(s, i)
  BY <1>1, <1>2
<1> HIDE DEF h
<1> QED BY <1>7, <1>8, <1>9

\* What the loops have put in place: the first i - 1 elements are the smallest, in
\* order.
Settled(t, n, i) == \A m \in 1 .. i - 1 : \A q \in m .. n : t[m] <= t[q]

LEMMA ExchangeSettles ==
    ASSUME NEW n \in Nat, NEW u \in [1 .. n -> Int], NEW i \in 1 .. n, NEW j \in 1 .. n,
           Settled(u, n, i), \A q \in i .. j - 1 : u[i] <= u[q]
    PROVE  /\ Settled(Exchange(u, i, j), n, i)
           /\ \A q \in i .. j : Exchange(u, i, j)[i] <= Exchange(u, i, j)[q]
<1> DEFINE t == Exchange(u, i, j)
<1> SUFFICES Settled(t, n, i) /\ \A q \in i .. j : t[i] <= t[q]
  OBVIOUS
<1>1. CASE ~(j > i /\ u[j] < u[i])
  <2>1. t = u
    BY <1>1 DEF Exchange
  <2>2. \A q \in i .. j : u[i] <= u[q]
    BY <1>1
  <2> HIDE DEF t
  <2> QED BY <2>1, <2>2
<1>2. CASE j > i /\ u[j] < u[i]
  <2>1. t = [u EXCEPT ![i] = u[j], ![j] = u[i]]
    BY <1>2 DEF Exchange
  <2>2. t[i] = u[j] /\ t[j] = u[i] /\ \A m \in (1 .. n) \ {i, j} : t[m] = u[m]
    BY <1>2, <2>1
  <2> HIDE DEF t
  <2>3. \A m \in 1 .. n : u[m] \in Int
    OBVIOUS
  <2>4. ASSUME NEW m \in 1 .. i - 1, NEW q \in m .. n PROVE t[m] <= t[q]
    <3>1. t[m] = u[m] /\ u[m] <= u[q] /\ u[m] <= u[i] /\ u[m] <= u[j]
      BY <1>2, <2>2 DEF Settled
    <3> QED BY <2>2, <3>1
  <2>5. ASSUME NEW q \in i .. j PROVE t[i] <= t[q]
    <3>1. q \in 1 .. n
      OBVIOUS
    <3>2. CASE q = i
      BY <2>2, <2>3, <3>2
    <3>3. CASE q = j
      BY <1>2, <2>2, <2>3, <3>3
    <3>4. CASE q # i /\ q # j
      <4>1. t[q] = u[q] /\ u[i] <= u[q]
        BY <2>2, <3>1, <3>4
      <4> QED BY <1>2, <2>2, <2>3, <3>1, <4>1
    <3> QED BY <3>2, <3>3, <3>4
  <2> QED BY <2>4, <2>5 DEF Settled
<1> QED BY <1>1, <1>2

\* A round puts one more element in place.
LEMMA RoundIs ==
    ASSUME NEW n \in Nat, NEW s \in [1 .. n -> Int], NEW i \in 1 .. n
    PROVE  /\ ExchangeRound(s, i) \in [1 .. n -> Int]
           /\ SameElements(ExchangeRound(s, i), s)
           /\ Settled(s, n, i) => Settled(ExchangeRound(s, i), n, i + 1)
<1>1. PICK h : /\ h[0] = s
               /\ \A k \in 1 .. n : h[k] = Exchange(h[k - 1], i, k)
               /\ h[n] = ExchangeRound(s, i)
  BY RoundSteps
<1> DEFINE Reached(k) ==
               /\ h[k] \in [1 .. n -> Int]
               /\ SameElements(h[k], s)
               /\ Settled(s, n, i) =>
                      Settled(h[k], n, i) /\ \A q \in i .. k : h[k][i] <= h[k][q]
           Good == {k \in 0 .. n : Reached(k)}
<1>2. 0 \in Good
  <2>1. \A q \in i .. 0 : FALSE
    OBVIOUS
  <2> QED BY <1>1, <2>1, SameElementsReflexive
<1>3. ASSUME NEW k \in 0 .. n - 1, k \in Good PROVE k + 1 \in Good
  <2>1. PICK j \in 1 .. n : j = k + 1 /\ j - 1 = k
    OBVIOUS
  <2>2. PICK u \in [1 .. n -> Int] :
            /\ u = h[k] /\ h[j] = Exchange(u, i, j) /\ SameElements(u, s)
            /\ Settled(s, n, i) => Settled(u, n, i) /\ \A q \in i .. j - 1 : u[i] <= u[q]
    BY <1>1, <1>3, <2>1
  <2>3. Exchange(u, i, j) \in [1 .. n -> Int] /\ SameElements(Exchange(u, i, j), s)
    BY <2>2, ExchangeIs, SameElementsTransitive
  <2>4. Settled(s, n, i) =>
            /\ Settled(Exchange(u, i, j), n, i)
            /\ \A q \in i .. j : Exchange(u, i, j)[i] <= Exchange(u, i, j)[q]
    BY <2>2, ExchangeSettles
  <2>5. Reached(j)
    BY <2>2, <2>3, <2>4
  <2> HIDE DEF Reached
  <2> QED BY <2>1, <2>5
<1>4. Reached(n)
  <2> HIDE DEF Reached
  <2>1. \A k \in 0 .. n - 1 : k \in Good => k + 1 \in Good
    BY <1>3
  <2> HIDE DEF Good
  <2>2. \A k \in 0 .. n : k \in Good
    BY <1>2, <2>1, CountingUp
  <2> QED BY <2>2 DEF Good
<1>5. ASSUME Settled(s, n, i) PROVE Settled(h[n], n, i + 1)
  <2>1. \A m \in 1 .. i : m = i \/ m \in 1 .. i - 1
    OBVIOUS
  <2>2. (i + 1) - 1 = i
    OBVIOUS
  <2> QED BY <1>4, <1>5, <2>1, <2>2 DEF Settled
<1> QED BY <1>1, <1>4, <1>5

\* ... and those of the outer loop.
LEMMA SortSteps ==
    ASSUME NEW n \in Nat, NEW s \in [1 .. n -> Int]
    PROVE  \E h : /\ h[0] = s
                  /\ \A k \in 1 .. n : h[k] = ExchangeRound(h[k - 1], k)
                  /\ h[n] = ExchangeSort(s)
<1> DEFINE indices == [k \in DOMAIN s |-> k]
           Raw(f) == f = [t \in SUBSET DOMAIN indices |->
                             IF t = {} THEN s
                             ELSE ExchangeRound(f[t \ {Max(t)}], indices[Max(t)])]
           f == CHOOSE f : Raw(f)
<1>1. ExchangeSort(s) = f[DOMAIN indices]
  BY DEF ExchangeSort, FoldLeft, MapThenFoldSet
<1>2. DOMAIN indices = 1 .. n
  OBVIOUS
<1>3. \A t \in SUBSET (1 .. n) : t # {} => indices[Max(t)] = Largest(t) /\ Max(t) = Largest(t)
  BY LargestIn DEF Largest, Max
<1> HIDE DEF indices
<1>4. \E e : Raw(e)
  <2> DEFINE T == [1 .. n -> Int]
             g == [x \in T \X (1 .. n) |-> ExchangeRound(x[1], x[2])]
  <2>1. g \in [T \X (1 .. n) -> T] /\ s \in T
    BY RoundIs
  <2> HIDE DEF g
  <2>2. PICK e : IsFoldOf(e, n, T, s, g)
    <3> HIDE DEF T
    <3> QED BY <2>1, FoldStepsExist
  <2>3. ASSUME NEW t \in SUBSET (1 .. n), t # {}
        PROVE  e[t] = ExchangeRound(e[t \ {Max(t)}], indices[Max(t)])
    <3> DEFINE before == t \ {Largest(t)}
    <3>1. before \in SUBSET (1 .. n) /\ e[before] \in T /\ Largest(t) \in 1 .. n
      BY <2>2, <2>3, LargestIn DEF IsFoldOf
    <3>2. e[t] = g[<<e[before], Largest(t)>>]
      BY <2>2, <2>3 DEF IsFoldOf
    <3>3. before = t \ {Max(t)} /\ indices[Max(t)] = Largest(t)
      BY <1>3, <2>3
    <3> HIDE DEF T, before
    <3>4. g[<<e[before], Largest(t)>>] = ExchangeRound(e[before], Largest(t))
      BY <3>1 DEF g
    <3> QED BY <3>2, <3>3, <3>4
  <2>4. /\ e = [t \in SUBSET (1 .. n) |-> e[t]]
        /\ \A t \in SUBSET (1 .. n) : t = {} => e[t] = s
    BY <2>2 DEF IsFoldOf
  <2>5. Raw(e)
    BY <1>2, <2>3, <2>4
  <2> QED BY <2>5
<1>5. Raw(f)
  <2> HIDE DEF Raw
  <2> QED BY <1>4
<1> HIDE DEF f
<1>6. \A t \in SUBSET (1 .. n) :
          f[t] = IF t = {} THEN s ELSE ExchangeRound(f[t \ {Max(t)}], indices[Max(t)])
  BY <1>2, <1>5
<1> DEFINE h == [k \in 0 .. n |-> f[1 .. k]]
<1>7. h[0] = s
  <2>1. 1 .. 0 = {} /\ {} \in SUBSET (1 .. n)
    OBVIOUS
  <2>2. f[{}] = s
    BY <1>6
  <2> QED BY <2>1, <2>2
<1>8. ASSUME NEW k \in 1 .. n PROVE h[k] = ExchangeRound(h[k - 1], k)
  <2> DEFINE t == 1 .. k
  <2>1. t \in SUBSET (1 .. n) /\ t # {} /\ Largest(t) = k /\ t \ {k} = 1 .. k - 1
    <3>1. k \in Nat \ {0} /\ t \in SUBSET (1 .. n)
      OBVIOUS
    <3> QED BY <3>1, PrefixSteps
  <2>2. Max(t) = k /\ indices[Max(t)] = k
    BY <1>3, <2>1
  <2>3. h[k] = f[t] /\ h[k - 1] = f[1 .. k - 1]
    OBVIOUS
  <2> HIDE DEF t, h
  <2> QED BY <1>6, <2>1, <2>2, <2>3
<1>9. h[n] = ExchangeSort(s)
  BY <1>1, <1>2
<1> HIDE DEF h
<1> QED BY <1>7, <1>8, <1>9

\* The exchange sort sorts, whatever the slice.
LEMMA ExchangeSortIs ==
    ASSUME NEW n \in Nat, NEW s \in [1 .. n -> Int]
    PROVE  /\ ExchangeSort(s) \in [1 .. n -> Int]
           /\ SameElements(ExchangeSort(s), s)
           /\ \A l, m \in 1 .. n : l <= m => ExchangeSort(s)[l] <= ExchangeSort(s)[m]
<1>1. PICK h : /\ h[0] = s
               /\ \A k \in 1 .. n : h[k] = ExchangeRound(h[k - 1], k)
               /\ h[n] = ExchangeSort(s)
  BY SortSteps
<1> DEFINE Reached(k) ==
               /\ h[k] \in [1 .. n -> Int]
               /\ SameElements(h[k], s)
               /\ Settled(h[k], n, k + 1)
           Good == {k \in 0 .. n : Reached(k)}
<1>2. 0 \in Good
  <2>1. Settled(s, n, 0 + 1)
    BY DEF Settled
  <2> QED BY <1>1, <2>1, SameElementsReflexive
<1>3. ASSUME NEW k \in 0 .. n - 1, k \in Good PROVE k + 1 \in Good
  <2>1. PICK i \in 1 .. n : i = k + 1 /\ i - 1 = k
    OBVIOUS
  <2>2. PICK u \in [1 .. n -> Int] :
            /\ u = h[k] /\ h[i] = ExchangeRound(u, i) /\ SameElements(u, s) /\ Settled(u, n, i)
    BY <1>1, <1>3, <2>1
  <2>3. /\ ExchangeRound(u, i) \in [1 .. n -> Int]
        /\ SameElements(ExchangeRound(u, i), s)
        /\ Settled(ExchangeRound(u, i), n, i + 1)
    BY <2>2, RoundIs, SameElementsTransitive
  <2>4. Reached(i)
    BY <2>2, <2>3
  <2> HIDE DEF Reached
  <2> QED BY <2>1, <2>4
<1>4. Reached(n)
  <2> HIDE DEF Reached
  <2>1. \A k \in 0 .. n - 1 : k \in Good => k + 1 \in Good
    BY <1>3
  <2> HIDE DEF Good
  <2>2. \A k \in 0 .. n : k \in Good
    BY <1>2, <2>1, CountingUp
  <2> QED BY <2>2 DEF Good
<1>5. (n + 1) - 1 = n
  OBVIOUS
<1> QED BY <1>1, <1>4, <1>5 DEF Settled

-----------------------------------------------------------------------------
\* The two sorts make the same of a slice.

\* What is below the k-th element of a sorted slice, and what is not above it.
LEMMA SortedCounts ==
    ASSUME NEW n \in Nat, NEW t \in [1 .. n -> Int],
           \A l, m \in 1 .. n : l <= m => t[l] <= t[m], NEW k \in 1 .. n
    PROVE  Below(t, t[k]) <= k - 1 /\ k <= NotAbove(t, t[k]) /\ Below(t, t[k]) \in Nat
<1> DEFINE A == {m \in DOMAIN t : t[m] < t[k]}
           B == {m \in DOMAIN t : t[m] <= t[k]}
<1>1. A \subseteq 1 .. k - 1
  <2> SUFFICES ASSUME NEW m \in 1 .. n, t[m] < t[k] PROVE m <= k - 1
    OBVIOUS
  <2>1. CASE k <= m
    <3>1. t[k] <= t[m]
      BY <2>1
    <3> QED BY <3>1
  <2> QED BY <2>1
<1>2. 1 .. k \subseteq B /\ B \subseteq 1 .. n
  OBVIOUS
<1> HIDE DEF A, B
<1>3. /\ IsFiniteSet(1 .. k - 1) /\ Cardinality(1 .. k - 1) = k - 1
      /\ IsFiniteSet(1 .. k) /\ Cardinality(1 .. k) = k
      /\ IsFiniteSet(1 .. n)
  BY FS_Interval
<1>4. Cardinality(A) <= k - 1 /\ IsFiniteSet(A)
  BY <1>1, <1>3, FS_Subset
<1>5. IsFiniteSet(B)
  BY <1>2, <1>3, FS_Subset
<1>6. k <= Cardinality(B)
  BY <1>2, <1>3, <1>5, FS_Subset
<1>7. Cardinality(A) \in Nat
  BY <1>4, FS_CardinalityType
<1> QED BY <1>4, <1>6, <1>7 DEF A, B, Below, NotAbove

LEMMA CountsAreNaturals ==
    ASSUME NEW n \in Nat, NEW s \in [1 .. n -> Int], NEW v \in Int
    PROVE  Below(s, v) \in Nat /\ NotAbove(s, v) \in Nat
<1>1. /\ {m \in DOMAIN s : s[m] < v} \subseteq 1 .. n
      /\ {m \in DOMAIN s : s[m] <= v} \subseteq 1 .. n
  OBVIOUS
<1>2. IsFiniteSet(1 .. n)
  BY FS_Interval
<1> QED BY <1>1, <1>2, FS_Subset, FS_CardinalityType DEF Below, NotAbove

\* Elements in different places of a sorted slice are in different places.
LEMMA RanksDiffer ==
    ASSUME NEW n \in Nat, NEW s \in [1 .. n -> Int], NEW v \in Int, NEW w \in Int, v < w
    PROVE  NotAbove(s, v) <= Below(s, w) /\ NotAbove(s, v) \in Nat /\ Below(s, w) \in Nat
<1> DEFINE A == {m \in DOMAIN s : s[m] <= v}
           B == {m \in DOMAIN s : s[m] < w}
<1>1. A \subseteq B /\ B \subseteq 1 .. n
  OBVIOUS
<1> HIDE DEF A, B
<1>2. IsFiniteSet(B)
  <2>1. IsFiniteSet(1 .. n)
    BY FS_Interval
  <2> QED BY <1>1, <2>1, FS_Subset
<1>3. IsFiniteSet(A) /\ Cardinality(A) <= Cardinality(B)
  BY <1>1, <1>2, FS_Subset
<1> QED BY <1>2, <1>3, FS_CardinalityType DEF A, B, NotAbove, Below

LEMMA SortedSliceIs ==
    ASSUME NEW n \in Nat, NEW s \in [1 .. n -> Int], NEW t \in [1 .. n -> Int],
           SameElements(t, s), \A l, m \in 1 .. n : l <= m => t[l] <= t[m]
    PROVE  SortedSlice(s) = t
<1> DEFINE Fits(v, k) == Below(s, v) < k /\ k <= NotAbove(s, v)
           pick(k) == CHOOSE v \in Range(s) : Fits(v, k)
<1>1. \A v \in Range(s) : v \in Int
  BY DEF Range
<1>2. ASSUME NEW k \in 1 .. n PROVE t[k] \in Range(s) /\ Fits(t[k], k)
  <2>1. t[k] \in Range(t) /\ t[k] \in Int
    BY DEF Range
  <2>2. Below(t, t[k]) <= k - 1 /\ k <= NotAbove(t, t[k]) /\ Below(t, t[k]) \in Nat
    BY SortedCounts
  <2> QED BY <2>1, <2>2 DEF SameElements
<1>3. ASSUME NEW k \in 1 .. n, NEW v \in Int, NEW w \in Int, Fits(v, k), Fits(w, k), v < w
      PROVE  FALSE
  BY <1>3, RanksDiffer
<1> HIDE DEF Fits
<1>4. ASSUME NEW k \in 1 .. n PROVE pick(k) = t[k]
  <2>1. pick(k) \in Range(s) /\ Fits(pick(k), k)
    BY <1>2
  <2> HIDE DEF pick
  <2>2. pick(k) \in Int /\ t[k] \in Int
    BY <1>1, <2>1
  <2> QED BY <1>2, <1>3, <2>1, <2>2
<1>5. SortedSlice(s) = [k \in DOMAIN s |-> pick(k)]
  BY DEF SortedSlice, Fits
<1> HIDE DEF pick
<1> QED BY <1>4, <1>5

\* The agent's two ways to the percentiles are one: the exchange sort of
\* calculateTracePercentiles (otel_receiver.go:502-510) makes of every slice what
\* sort.Slice makes of it (ebpf.go:314-316), so the percentiles are the same.
THEOREM TheTwoSortsAgree ==
    ASSUME NEW s \in Seq(Int)
    PROVE  /\ ExchangeSort(s) = SortedSlice(s)
           /\ calculateTracePercentiles(s) = calculatePercentiles(s)
<1>1. PICK n \in Nat : n = Len(s) /\ s \in [1 .. n -> Int]
  BY SeqDef
<1>2. ExchangeSort(s) = SortedSlice(s)
  BY <1>1, ExchangeSortIs, SortedSliceIs
<1> QED BY <1>2 DEF calculateTracePercentiles, calculatePercentiles

\* What they compute are percentiles, however few the durations and however
\* many of them are equal: no more than p in a hundred of the slice's elements
\* are below the p-th, and more than p in a hundred are not above it.
THEOREM PercentilesArePercentiles ==
    ASSUME NEW s \in Seq(Int), s # << >>
    PROVE  ArePercentiles(calculatePercentiles(s), s)
<1>1. PICK n \in Nat : n = Len(s) /\ s \in [1 .. n -> Int]
  BY SeqDef
<1>2. PICK t : /\ t = SortedSlice(s) /\ t \in [1 .. n -> Int] /\ SameElements(t, s)
               /\ \A l, m \in 1 .. n : l <= m => t[l] <= t[m]
  BY <1>1, ExchangeSortIs, SortedSliceIs
<1>3. t \in Seq(Int) /\ Len(t) = n /\ t # << >> /\ Sorted(t)
  BY <1>1, <1>2 DEF Sorted
<1>4. ASSUME NEW p \in 0 .. 99 PROVE IsPercentile(At(t, p), p, s)
  <2> DEFINE i == (Len(t) * p) \div 100 + 1
  <2>1. i \in 1 .. n /\ (i - 1) * 100 <= n * p /\ i * 100 > n * p
    BY <1>3, RankOfIndex
  <2>2. At(t, p) = t[i]
    BY DEF At
  <2> HIDE DEF i
  <2>3. Below(t, t[i]) <= i - 1 /\ i <= NotAbove(t, t[i]) /\ Below(t, t[i]) \in Nat
    BY <1>2, <2>1, SortedCounts
  <2>4. t[i] \in Int
    BY <1>2, <2>1
  <2>5. Below(s, t[i]) <= i - 1 /\ i <= NotAbove(s, t[i]) /\ Below(s, t[i]) \in Nat
    BY <1>2, <2>3, <2>4 DEF SameElements
  <2>6. NotAbove(s, t[i]) \in Nat
    BY <1>1, <2>4, CountsAreNaturals
  <2> DEFINE b == Below(s, t[i])
             a == NotAbove(s, t[i])
             x == n * p
  <2>7. b \in Nat /\ a \in Nat /\ b <= i - 1 /\ i <= a /\ x \in Int
        /\ (i - 1) * 100 <= x /\ i * 100 > x
    BY <2>1, <2>5, <2>6
  <2> HIDE DEF a, b, x
  <2>8. b * 100 <= x /\ a * 100 > x
    BY <2>1, <2>7
  <2> QED BY <1>1, <2>2, <2>8 DEF IsPercentile, a, b, x
<1>5. /\ PercentilesOf(t).p50 = At(t, 50)
      /\ PercentilesOf(t).p95 = At(t, 95)
      /\ PercentilesOf(t).p99 = At(t, 99)
  BY <1>3, PercentilesInBounds DEF PercentilesOf
<1>6. calculatePercentiles(s) = PercentilesOf(t)
  BY <1>2 DEF calculatePercentiles
<1>7. /\ IsPercentile(At(t, 50), 50, s)
      /\ IsPercentile(At(t, 95), 95, s)
      /\ IsPercentile(At(t, 99), 99, s)
  BY <1>4
<1>8. PICK ps : ps = calculatePercentiles(s)
  OBVIOUS
<1>9. ps.p50 = At(t, 50) /\ ps.p95 = At(t, 95) /\ ps.p99 = At(t, 99)
  BY <1>5, <1>6, <1>8
<1> QED BY <1>7, <1>8, <1>9 DEF ArePercentiles

=============================================================================
