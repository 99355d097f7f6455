----------------------------- MODULE DataLemmas -----------------------------
(***************************************************************************)
(* Lemmas about the data of several components, for their theorems: the    *)
(* slices the agent bounds by hand, and sums over finite sets.             *)
(***************************************************************************)
EXTENDS BoundedSlice, SequenceTheorems, FiniteSetTheorems, WellFoundedInduction, TLAPS

-----------------------------------------------------------------------------
\* The slices.

\* Trimming a sequence keeps its element type and its bound.
LEMMA KeepNewestType ==
    ASSUME NEW S, NEW s \in Seq(S), NEW max \in Nat, NEW keep \in Nat \ {0}, keep <= max
    PROVE  /\ KeepNewest(s, max, keep) \in Seq(S)
           /\ Len(KeepNewest(s, max, keep)) <= max
<1>1. CASE Len(s) <= max
  BY <1>1 DEF KeepNewest
<1>2. CASE Len(s) > max
  <2> DEFINE m == Len(s) - keep + 1
  <2>1. Len(s) \in Nat /\ m \in Int /\ m <= Len(s) + 1 /\ m >= 1
    BY <1>2
  <2>2. \A i \in m .. Len(s) : s[i] \in S
    BY <2>1
  <2>3. SubSeq(s, m, Len(s)) \in Seq(S) /\ Len(SubSeq(s, m, Len(s))) = Len(s) - m + 1
    BY <2>1, <2>2, SubSeqProperties
  <2> QED BY <1>2, <2>1, <2>3 DEF KeepNewest
<1> QED BY <1>1, <1>2

\* Appending an element and trimming: the bound holds, the slice is not empty,
\* and it has grown by one element at most.
LEMMA KeepNewestOfAppend ==
    ASSUME NEW S, NEW s \in Seq(S), NEW e \in S,
           NEW max \in Nat, NEW keep \in Nat \ {0}, keep <= max
    PROVE  /\ KeepNewest(Append(s, e), max, keep) \in Seq(S)
           /\ Len(KeepNewest(Append(s, e), max, keep)) \in 1 .. max
           /\ Len(KeepNewest(Append(s, e), max, keep)) <= Len(s) + 1
<1> DEFINE grown == Append(s, e)
           kept == KeepNewest(grown, max, keep)
<1>1. grown \in Seq(S) /\ Len(grown) = Len(s) + 1 /\ Len(s) \in Nat
  OBVIOUS
<1> HIDE DEF grown
<1>2. kept \in Seq(S) /\ Len(kept) <= max
  BY <1>1, KeepNewestType
<1>3. Len(kept) >= 1 /\ Len(kept) <= Len(grown)
  <2>1. CASE Len(grown) <= max
    BY <1>1, <2>1 DEF KeepNewest
  <2>2. CASE Len(grown) > max
    <3> DEFINE m == Len(grown) - keep + 1
    <3>1. m \in Int /\ m >= 1 /\ m <= Len(grown) /\ \A i \in m .. Len(grown) : grown[i] \in S
      BY <1>1, <2>2
    <3>2. Len(SubSeq(grown, m, Len(grown))) = keep
      BY <1>1, <3>1, SubSeqProperties
    <3> QED BY <1>1, <2>2, <3>2 DEF KeepNewest
  <2> QED BY <1>1, <2>1, <2>2
<1> QED BY <1>1, <1>2, <1>3 DEF grown

\* The items that wait in a buffer are the last ones of its log.
EndsWith(log, buffer) ==
    /\ Len(buffer) <= Len(log)
    /\ \A i \in 1 .. Len(buffer) : buffer[i] = log[Len(log) - Len(buffer) + i]

LEMMA EndsWithSubSeq ==
    ASSUME NEW S, NEW log \in Seq(S), NEW buffer \in Seq(S), EndsWith(log, buffer)
    PROVE  buffer = SubSeq(log, Len(log) - Len(buffer) + 1, Len(log))
<1> DEFINE m == Len(log) - Len(buffer) + 1
           tail == SubSeq(log, m, Len(log))
<1>1. Len(log) \in Nat /\ Len(buffer) \in Nat /\ m \in Int /\ m >= 1 /\ m <= Len(log) + 1
  BY DEF EndsWith
<1>2. \A i \in m .. Len(log) : log[i] \in S
  BY <1>1
<1>3. /\ tail \in Seq(S)
      /\ Len(tail) = Len(buffer)
      /\ \A i \in 1 .. Len(buffer) : tail[i] = log[m + i - 1]
  <2>1. /\ tail \in Seq(S)
        /\ Len(tail) = IF m <= Len(log) THEN Len(log) - m + 1 ELSE 0
        /\ \A i \in 1 .. Len(log) - m + 1 : tail[i] = log[m + i - 1]
    BY <1>1, <1>2, SubSeqProperties
  <2> QED BY <1>1, <2>1
<1>4. \A i \in 1 .. Len(buffer) : tail[i] = buffer[i]
  BY <1>1, <1>3 DEF EndsWith
<1> QED BY <1>3, <1>4, SeqEqual

\* A step of a bounded buffer and its log that appends, and drops old items
\* only when more than max would wait, leaving at least keep of them.
Appends(log, buffer, log2, buffer2, max, keep) ==
    /\ EndsWith(log2, buffer2)
    /\ Len(buffer2) <= max
    /\ Len(log2) > Len(log)
    /\ SubSeq(log2, 1, Len(log)) = log
    /\ Len(log2) - Len(buffer2) \in Len(log) - Len(buffer) .. Len(log2)
    /\ \/ Len(log2) - Len(buffer2) = Len(log) - Len(buffer)
       \/ /\ Len(log2) - (Len(log) - Len(buffer)) > max
          /\ Len(buffer2) >= keep

\* What appending some items and trimming does to a buffer and to its log.
LEMMA KeepNewestAppends ==
    ASSUME NEW S, NEW log \in Seq(S), NEW buffer \in Seq(S), NEW new \in Seq(S),
           new # << >>, EndsWith(log, buffer),
           NEW max \in Nat, NEW keep \in Nat \ {0}, keep <= max
    PROVE  Appends(log, buffer, log \o new, KeepNewest(buffer \o new, max, keep), max, keep)
<1> DEFINE log2 == log \o new
           buffer2 == KeepNewest(buffer \o new, max, keep)
<1> SUFFICES Appends(log, buffer, log2, buffer2, max, keep)
  OBVIOUS
<1> HIDE DEF buffer2
<1> DEFINE grown == buffer \o new
<1>1. /\ log2 \in Seq(S) /\ grown \in Seq(S)
      /\ Len(log) \in Nat /\ Len(buffer) \in Nat /\ Len(new) \in Nat
      /\ Len(log2) = Len(log) + Len(new) /\ Len(grown) = Len(buffer) + Len(new)
      /\ Len(new) > 0
      /\ Len(buffer) <= Len(log)
  BY DEF EndsWith
<1>2. SubSeq(log2, 1, Len(log)) = log
  <2>1. \A i \in 1 .. Len(log) : log2[i] \in S
    BY <1>1
  <2>2. /\ SubSeq(log2, 1, Len(log)) \in Seq(S)
        /\ Len(SubSeq(log2, 1, Len(log))) = Len(log)
        /\ \A i \in 1 .. Len(log) : SubSeq(log2, 1, Len(log))[i] = log2[i]
    BY <1>1, <2>1, SubSeqProperties
  <2>3. \A i \in 1 .. Len(log) : log2[i] = log[i]
    BY <1>1
  <2> QED BY <1>1, <2>2, <2>3, SeqEqual
<1>3. EndsWith(log2, grown)
  <2>1. ASSUME NEW i \in 1 .. Len(grown)
        PROVE  grown[i] = log2[Len(log2) - Len(grown) + i]
    <3>1. CASE i <= Len(buffer)
      <4>1. grown[i] = buffer[i]
        BY <1>1, <3>1
      <4>2. buffer[i] = log[Len(log) - Len(buffer) + i]
        BY <1>1, <3>1 DEF EndsWith
      <4>3. log2[Len(log) - Len(buffer) + i] = log[Len(log) - Len(buffer) + i]
        BY <1>1, <3>1
      <4>4. Len(log2) - Len(grown) + i = Len(log) - Len(buffer) + i
        BY <1>1
      <4> QED BY <4>1, <4>2, <4>3, <4>4
    <3>2. CASE i > Len(buffer)
      <4>1. grown[i] = new[i - Len(buffer)]
        BY <1>1, <3>2
      <4>2. log2[Len(log) + (i - Len(buffer))] = new[i - Len(buffer)]
        BY <1>1, <3>2
      <4>3. Len(log2) - Len(grown) + i = Len(log) + (i - Len(buffer))
        BY <1>1
      <4> QED BY <4>1, <4>2, <4>3
    <3> QED BY <1>1, <3>1, <3>2
  <2> QED BY <1>1, <2>1 DEF EndsWith
<1>4. CASE Len(grown) <= max
  <2>1. buffer2 = grown
    BY <1>1, <1>4 DEF KeepNewest, buffer2
  <2> QED BY <1>1, <1>2, <1>3, <1>4, <2>1 DEF Appends
<1>5. CASE Len(grown) > max
  <2> DEFINE m == Len(grown) - keep + 1
  <2>1. buffer2 = SubSeq(grown, m, Len(grown))
    BY <1>5 DEF KeepNewest, buffer2
  <2>2. m \in Int /\ m >= 1 /\ m <= Len(grown)
    BY <1>1, <1>5
  <2>3. \A i \in m .. Len(grown) : grown[i] \in S
    BY <1>1, <2>2
  <2>4. /\ Len(buffer2) = keep
        /\ \A i \in 1 .. keep : buffer2[i] = grown[m + i - 1]
    BY <1>1, <2>1, <2>2, <2>3, SubSeqProperties
  <2>5. EndsWith(log2, buffer2)
    <3>1. ASSUME NEW i \in 1 .. keep
          PROVE  buffer2[i] = log2[Len(log2) - keep + i]
      <4>1. m + i - 1 \in 1 .. Len(grown)
        BY <1>1, <2>2
      <4>2. grown[m + i - 1] = log2[Len(log2) - Len(grown) + (m + i - 1)]
        BY <1>3, <4>1 DEF EndsWith
      <4>3. Len(log2) - Len(grown) + (m + i - 1) = Len(log2) - keep + i
        BY <1>1
      <4> QED BY <2>4, <4>2, <4>3
    <3>2. keep <= Len(log2)
      BY <1>1, <1>5
    <3> HIDE DEF m, grown
    <3> QED BY <2>4, <3>1, <3>2 DEF EndsWith
  <2> QED BY <1>1, <1>2, <1>5, <2>4, <2>5 DEF Appends
<1> QED BY <1>1, <1>4, <1>5

-----------------------------------------------------------------------------
\* Induction, with sets for predicates: the induction theorems of the library
\* take operators, which no prover here can instantiate.

Less == {ss \in Nat \X Nat : ss[1] < ss[2]}

\* A set of naturals that is not empty has a least element.
LEMMA LeastNatural ==
    ASSUME NEW T, T \subseteq Nat, T # {}
    PROVE  \E m \in T : \A n \in T : m <= n
<1>1. IsWellFoundedOn(Less, Nat)
  BY NatLessThanWellFounded DEF OpToRel, Less
<1>2. PICK m \in T : \A n \in T : <<n, m>> \notin Less
  BY <1>1, WFMin
<1>3. ASSUME NEW n \in T, n < m PROVE FALSE
  <2>1. <<n, m>> \in Nat \X Nat /\ <<n, m>>[1] = n /\ <<n, m>>[2] = m
    OBVIOUS
  <2>2. <<n, m>> \in Less
    BY <1>3, <2>1 DEF Less
  <2> QED BY <1>2, <2>2
<1> QED BY <1>3

\* The induction that counts from 0 up to a bound.
LEMMA CountingUp ==
    ASSUME NEW n \in Nat, NEW Good, 0 \in Good,
           \A m \in 0 .. n - 1 : m \in Good => m + 1 \in Good
    PROVE  \A m \in 0 .. n : m \in Good
<1> DEFINE Bad == (0 .. n) \ Good
<1>1. CASE Bad = {}
  BY <1>1
<1>2. CASE Bad # {}
  <2>1. PICK m \in Bad : \A k \in Bad : m <= k
    <3>1. Bad \subseteq Nat
      OBVIOUS
    <3> HIDE DEF Bad
    <3> QED BY <1>2, <3>1, LeastNatural
  <2>2. m - 1 \in 0 .. n - 1 /\ m - 1 \in Good
    BY <2>1
  <2>3. (m - 1) + 1 = m
    BY <2>1
  <2> QED BY <2>1, <2>2, <2>3
<1> QED BY <1>1, <1>2

\* The induction that FoldSet and its like run on.
LEMMA SubsetInduction ==
    ASSUME NEW S, IsFiniteSet(S), NEW Good, {} \in Good,
           \A t \in SUBSET S :
               t # {} /\ t \ {CHOOSE x \in t : TRUE} \in Good => t \in Good
    PROVE  \A t \in SUBSET S : t \in Good
<1> DEFINE Bad == {n \in Nat : \E t \in SUBSET S : t \notin Good /\ Cardinality(t) = n}
<1>1. \A t \in SUBSET S : IsFiniteSet(t) /\ Cardinality(t) \in Nat
  BY FS_Subset, FS_CardinalityType
<1>2. CASE Bad = {}
  BY <1>1, <1>2
<1>3. CASE Bad # {}
  <2>1. PICK m \in Bad : \A n \in Bad : m <= n
    BY <1>3, LeastNatural
  <2>2. PICK t \in SUBSET S : t \notin Good /\ Cardinality(t) = m
    BY <2>1
  <2> DEFINE x == CHOOSE x \in t : TRUE
  <2>3. x \in t
    BY <2>2
  <2> HIDE DEF x
  <2>4. Cardinality(t \ {x}) = m - 1 /\ t \ {x} \in SUBSET S
    BY <1>1, <2>2, <2>3, FS_RemoveElement
  <2>5. t \ {x} \notin Good
    BY <2>2, <2>3 DEF x
  <2>6. m - 1 \in Bad
    BY <1>1, <2>4, <2>5
  <2> QED BY <2>1, <2>6
<1> QED BY <1>2, <1>3

-----------------------------------------------------------------------------
\* Sums.  Total(g, S) is the sum of g[x] over a finite set S.

Additive(h, g, S) ==
    /\ h \in [SUBSET S -> Int]
    /\ h[{}] = 0
    /\ \A t \in SUBSET S : \A x \in S \ t : h[t \cup {x}] = h[t] + g[x]

Total(g, S) == CHOOSE n : \E h : Additive(h, g, S) /\ n = h[S]

LEMMA AdditiveExists ==
    ASSUME NEW S, IsFiniteSet(S), NEW g, \A x \in S : g[x] \in Int
    PROVE  \E h : Additive(h, g, S)
<1> DEFINE Good == {t \in SUBSET S : \E h : Additive(h, g, t)}
<1>1. {} \in Good
  <2> DEFINE h == [t \in SUBSET {} |-> 0]
  <2>1. Additive(h, g, {})
    BY DEF Additive
  <2> QED BY <2>1
<1>2. ASSUME NEW t \in SUBSET S, t # {}, t \ {CHOOSE x \in t : TRUE} \in Good
      PROVE  t \in Good
  <2> DEFINE x == CHOOSE x \in t : TRUE
             r == t \ {x}
  <2>1. x \in t
    BY <1>2
  <2>2. r \in Good
    BY <1>2
  <2> HIDE DEF x
  <2>3. PICK f : Additive(f, g, r)
    BY <2>2
  <2>4. t = r \cup {x} /\ x \notin r /\ g[x] \in Int
    BY <2>1
  <2> HIDE DEF r
  <2> DEFINE h == [u \in SUBSET t |-> IF x \in u THEN f[u \ {x}] + g[x] ELSE f[u]]
  <2>5. \A u \in SUBSET t : u \ {x} \in SUBSET r /\ (x \notin u => u \in SUBSET r)
    BY <2>4
  <2>6. h \in [SUBSET t -> Int] /\ h[{}] = 0
    BY <2>3, <2>4, <2>5 DEF Additive
  <2>7. ASSUME NEW u \in SUBSET t, NEW y \in t \ u
        PROVE  h[u \cup {y}] = h[u] + g[y]
    <3>0. u \cup {y} \in SUBSET t /\ f \in [SUBSET r -> Int] /\ g[y] \in Int
      BY <1>2, <2>3, <2>7 DEF Additive
    <3>1. CASE y = x
      <4>1. (u \cup {y}) \ {x} = u
        BY <2>7, <3>1
      <4> QED BY <2>5, <2>7, <3>0, <3>1, <4>1
    <3>2. CASE y # x /\ x \in u
      <4>1. (u \cup {y}) \ {x} = (u \ {x}) \cup {y} /\ y \in r \ (u \ {x})
        BY <2>4, <2>7, <3>2
      <4>2. f[(u \ {x}) \cup {y}] = f[u \ {x}] + g[y]
        BY <2>3, <2>5, <4>1 DEF Additive
      <4>3. f[u \ {x}] \in Int
        BY <2>5, <3>0
      <4>4. h[u \cup {y}] = f[(u \ {x}) \cup {y}] + g[x] /\ h[u] = f[u \ {x}] + g[x]
        BY <3>0, <3>2, <4>1
      <4> HIDE DEF h
      <4> QED BY <2>4, <3>0, <4>2, <4>3, <4>4
    <3>3. CASE y # x /\ x \notin u
      <4>1. y \in r \ u /\ u \in SUBSET r /\ x \notin u \cup {y}
        BY <2>4, <2>7, <3>3
      <4>2. f[u \cup {y}] = f[u] + g[y]
        BY <2>3, <4>1 DEF Additive
      <4> QED BY <3>0, <3>3, <4>1, <4>2
    <3> QED BY <3>1, <3>2, <3>3
  <2>8. Additive(h, g, t)
    BY <2>6, <2>7 DEF Additive
  <2> QED BY <2>8
<1> HIDE DEF Good
<1>3. S \in Good
  BY <1>1, <1>2, SubsetInduction
<1> QED BY <1>3 DEF Good

LEMMA AdditiveUnique ==
    ASSUME NEW S, IsFiniteSet(S), NEW g,
           NEW h1, Additive(h1, g, S), NEW h2, Additive(h2, g, S)
    PROVE  h1[S] = h2[S]
<1> DEFINE Good == {t \in SUBSET S : h1[t] = h2[t]}
<1>1. {} \in Good
  BY DEF Additive
<1>2. ASSUME NEW t \in SUBSET S, t # {}, t \ {CHOOSE x \in t : TRUE} \in Good
      PROVE  t \in Good
  <2> DEFINE x == CHOOSE x \in t : TRUE
             r == t \ {x}
  <2>1. x \in t /\ r \in Good
    BY <1>2
  <2> HIDE DEF x
  <2>2. t = r \cup {x} /\ x \in S \ r /\ r \in SUBSET S /\ h1[r] = h2[r]
    BY <2>1
  <2>3. h1[r \cup {x}] = h1[r] + g[x] /\ h2[r \cup {x}] = h2[r] + g[x]
    BY <2>2 DEF Additive
  <2> QED BY <2>2, <2>3
<1> HIDE DEF Good
<1>3. S \in Good
  BY <1>1, <1>2, SubsetInduction
<1> QED BY <1>3 DEF Good

LEMMA TotalIs ==
    ASSUME NEW S, IsFiniteSet(S), NEW g, NEW h, Additive(h, g, S)
    PROVE  Total(g, S) = h[S] /\ Total(g, S) \in Int
<1>1. PICK h2 : Additive(h2, g, S) /\ Total(g, S) = h2[S]
  BY DEF Total
<1>2. h2[S] = h[S]
  BY <1>1, AdditiveUnique
<1> QED BY <1>1, <1>2 DEF Additive

LEMMA TotalEmpty == ASSUME NEW g PROVE Total(g, {}) = 0
<1>1. PICK h : Additive(h, g, {})
  BY AdditiveExists, FS_EmptySet
<1> QED BY <1>1, TotalIs, FS_EmptySet DEF Additive

LEMMA TotalInt ==
    ASSUME NEW S, IsFiniteSet(S), NEW g, \A x \in S : g[x] \in Int
    PROVE  Total(g, S) \in Int
  BY AdditiveExists, TotalIs

LEMMA TotalAdd ==
    ASSUME NEW S, IsFiniteSet(S), NEW g, \A y \in S : g[y] \in Int,
           NEW x, x \notin S, g[x] \in Int
    PROVE  Total(g, S \cup {x}) = Total(g, S) + g[x]
<1> DEFINE T == S \cup {x}
<1>1. IsFiniteSet(T)
  BY FS_AddElement
<1>2. PICK h : Additive(h, g, T)
  BY <1>1, AdditiveExists
<1> DEFINE f == [t \in SUBSET S |-> h[t]]
<1>3. Additive(f, g, S)
  <2>1. f \in [SUBSET S -> Int] /\ f[{}] = 0
    BY <1>2 DEF Additive
  <2>2. ASSUME NEW t \in SUBSET S, NEW y \in S \ t PROVE f[t \cup {y}] = f[t] + g[y]
    <3>1. t \in SUBSET T /\ y \in T \ t /\ t \cup {y} \in SUBSET S
      OBVIOUS
    <3>2. h[t \cup {y}] = h[t] + g[y]
      BY <1>2, <3>1 DEF Additive
    <3> QED BY <3>1, <3>2
  <2> HIDE DEF f
  <2> QED BY <2>1, <2>2 DEF Additive
<1>4. Total(g, T) = h[T] /\ Total(g, S) = f[S] /\ f[S] = h[S]
  BY <1>1, <1>2, <1>3, TotalIs
<1>5. h[S \cup {x}] = h[S] + g[x]
  BY <1>2 DEF Additive
<1> QED BY <1>4, <1>5

LEMMA TotalNat ==
    ASSUME NEW S, IsFiniteSet(S), NEW g, \A x \in S : g[x] \in Nat
    PROVE  Total(g, S) \in Nat
<1>1. PICK h : Additive(h, g, S)
  BY AdditiveExists
<1> DEFINE Good == {t \in SUBSET S : h[t] \in Nat}
<1>2. {} \in Good
  BY <1>1 DEF Additive
<1>3. ASSUME NEW t \in SUBSET S, t # {}, t \ {CHOOSE x \in t : TRUE} \in Good
      PROVE  t \in Good
  <2> DEFINE x == CHOOSE x \in t : TRUE
             r == t \ {x}
  <2>1. x \in t /\ r \in Good
    BY <1>3
  <2> HIDE DEF x
  <2>2. t = r \cup {x} /\ x \in S \ r /\ r \in SUBSET S
    BY <2>1
  <2>3. h[r \cup {x}] = h[r] + g[x] /\ h[r] \in Nat /\ g[x] \in Nat
    BY <1>1, <2>1, <2>2 DEF Additive
  <2>4. h[t] = h[r] + g[x]
    BY <2>2, <2>3
  <2> QED BY <2>3, <2>4
<1> HIDE DEF Good
<1>4. S \in Good
  BY <1>2, <1>3, SubsetInduction
<1> QED BY <1>1, <1>4, TotalIs DEF Good

\* The sum is over what g is on S.
LEMMA TotalSame ==
    ASSUME NEW S, IsFiniteSet(S), NEW f, NEW g,
           \A x \in S : f[x] \in Int /\ g[x] = f[x]
    PROVE  Total(f, S) = Total(g, S)
<1>1. PICK h : Additive(h, f, S)
  BY AdditiveExists
<1>2. Additive(h, g, S)
  BY <1>1 DEF Additive
<1> QED BY <1>1, <1>2, TotalIs

\* A function that adds one element after another computes the sum; what it
\* does with a part whose sum it does not know is of no interest.
LEMMA TotalIsComputed ==
    ASSUME NEW S, IsFiniteSet(S), NEW g, \A x \in S : g[x] \in Int,
           NEW f, f[{}] = 0,
           \A t \in SUBSET S :
               t # {} /\ f[t \ {CHOOSE x \in t : TRUE}] \in Int
               => f[t] = g[CHOOSE x \in t : TRUE] + f[t \ {CHOOSE x \in t : TRUE}]
    PROVE  f[S] = Total(g, S)
<1>1. PICK h : Additive(h, g, S)
  BY AdditiveExists
<1> DEFINE Good == {t \in SUBSET S : f[t] = h[t]}
<1>2. {} \in Good
  BY <1>1 DEF Additive
<1>3. ASSUME NEW t \in SUBSET S, t # {}, t \ {CHOOSE x \in t : TRUE} \in Good
      PROVE  t \in Good
  <2> DEFINE x == CHOOSE x \in t : TRUE
             r == t \ {x}
  <2>1. x \in t /\ r \in Good /\ (f[r] \in Int => f[t] = g[x] + f[r])
    BY <1>3
  <2> HIDE DEF x
  <2>2. t = r \cup {x} /\ x \in S \ r /\ r \in SUBSET S /\ f[r] = h[r]
    BY <2>1
  <2>3. h[r \cup {x}] = h[r] + g[x] /\ h[r] \in Int /\ g[x] \in Int
    BY <1>1, <2>2 DEF Additive
  <2>4. h[t] = h[r] + g[x]
    BY <2>2, <2>3
  <2>5. f[t] = h[t]
    <3> HIDE DEF r
    <3> QED BY <2>1, <2>2, <2>3, <2>4
  <2> QED BY <2>5
<1> HIDE DEF Good
<1>4. S \in Good
  BY <1>2, <1>3, SubsetInduction
<1> QED BY <1>1, <1>4, TotalIs DEF Good

\* The function that the library's folds compute a sum with: it takes out one
\* element after another.
IsFold(f, g, S) ==
    f = [t \in SUBSET S |->
            IF t = {} THEN 0
            ELSE g[CHOOSE x \in t : TRUE] + f[t \ {CHOOSE x \in t : TRUE}]]

\* There is one ...
LEMMA FoldExists ==
    ASSUME NEW S, IsFiniteSet(S), NEW g, \A x \in S : g[x] \in Int
    PROVE  \E f \in [SUBSET S -> Int] : IsFold(f, g, S)
<1>1. PICK h : Additive(h, g, S)
  BY AdditiveExists
<1> DEFINE e == [t \in SUBSET S |->
                          IF t = {} THEN 0
                          ELSE g[CHOOSE x \in t : TRUE] + h[t \ {CHOOSE x \in t : TRUE}]]
<1>2. ASSUME NEW t \in SUBSET S PROVE h[t] = e[t]
  <2>1. CASE t = {}
    BY <1>1, <2>1 DEF Additive
  <2>2. CASE t # {}
    <3> DEFINE x == CHOOSE x \in t : TRUE
               r == t \ {x}
    <3>1. x \in t /\ e[t] = g[x] + h[r]
      BY <2>2
    <3> HIDE DEF x, e
    <3>2. t = r \cup {x} /\ x \in S \ r /\ r \in SUBSET S
      BY <3>1
    <3>3. h[r \cup {x}] = h[r] + g[x] /\ h[r] \in Int /\ g[x] \in Int
      BY <1>1, <3>2 DEF Additive
    <3>4. h[t] = h[r] + g[x]
      BY <3>2, <3>3
    <3> HIDE DEF r
    <3> QED BY <3>1, <3>3, <3>4
  <2> QED BY <2>1, <2>2
<1>3. h = e /\ h \in [SUBSET S -> Int]
  BY <1>1, <1>2 DEF Additive
<1> QED BY <1>3 DEF IsFold

\* ... and it computes the sum.
LEMMA TotalIsFold ==
    ASSUME NEW S, IsFiniteSet(S), NEW g, \A x \in S : g[x] \in Int,
           NEW f, IsFold(f, g, S)
    PROVE  f[S] = Total(g, S)
<1>1. \A t \in SUBSET S :
          t # {} => f[t] = g[CHOOSE x \in t : TRUE] + f[t \ {CHOOSE x \in t : TRUE}]
  BY DEF IsFold
<1>2. f[{}] = 0
  BY DEF IsFold
<1> QED BY <1>1, <1>2, TotalIsComputed

\* A sum of zeros, and of zeros but for one number.
LEMMA TotalZero ==
    ASSUME NEW S, IsFiniteSet(S), NEW g, \A x \in S : g[x] = 0
    PROVE  Total(g, S) = 0
<1> DEFINE h == [t \in SUBSET S |-> 0]
<1>1. Additive(h, g, S)
  BY DEF Additive
<1>2. h[S] = 0
  OBVIOUS
<1> HIDE DEF h
<1> QED BY <1>1, <1>2, TotalIs

LEMMA TotalSingle ==
    ASSUME NEW S, IsFiniteSet(S), NEW g, NEW a \in S, g[a] \in Int,
           \A x \in S \ {a} : g[x] = 0
    PROVE  Total(g, S) = g[a]
<1> DEFINE r == S \ {a}
<1>1. IsFiniteSet(r) /\ S = r \cup {a} /\ a \notin r /\ \A x \in r : g[x] = 0
  BY FS_RemoveElement
<1> HIDE DEF r
<1>2. Total(g, r) = 0
  BY <1>1, TotalZero
<1>3. Total(g, r \cup {a}) = Total(g, r) + g[a]
  BY <1>1, TotalAdd
<1> QED BY <1>1, <1>2, <1>3

\* The classes of a finite set have as many elements as the set.
LEMMA ClassesAddUp ==
    ASSUME NEW S, IsFiniteSet(S), NEW K, IsFiniteSet(K), NEW f \in [S -> K],
           NEW g, \A k \in K : g[k] = Cardinality({x \in S : f[x] = k})
    PROVE  Total(g, K) = Cardinality(S)
<1> DEFINE Of(T) == {x \in S : f[x] \in T}
           Good == {T \in SUBSET K : Total(g, T) = Cardinality(Of(T))}
<1>1. ASSUME NEW k \in K PROVE IsFiniteSet({x \in S : f[x] = k}) /\ g[k] \in Nat
  <2> DEFINE C == {x \in S : f[x] = k}
  <2>1. IsFiniteSet(C)
    BY FS_Subset
  <2>2. g[k] = Cardinality(C)
    OBVIOUS
  <2> HIDE DEF C
  <2>3. g[k] \in Nat
    BY <2>1, <2>2, FS_CardinalityType
  <2> QED BY <2>1, <2>3 DEF C
<1>2. {} \in Good
  <2>1. Of({}) = {}
    OBVIOUS
  <2> HIDE DEF Of
  <2> QED BY <2>1, TotalEmpty, FS_EmptySet
<1>3. ASSUME NEW T \in SUBSET K, T # {}, T \ {CHOOSE k \in T : TRUE} \in Good
      PROVE  T \in Good
  <2> DEFINE k == CHOOSE k \in T : TRUE
             R == T \ {k}
             C == {x \in S : f[x] = k}
  <2>1. k \in T /\ R \in Good
    BY <1>3
  <2> HIDE DEF k
  <2>2. /\ Of(T) = Of(R) \cup C /\ Of(R) \cap C = {}
        /\ T = R \cup {k} /\ k \notin R /\ k \in K /\ R \subseteq K
    BY <2>1
  <2>3. /\ IsFiniteSet(R) /\ (\A x \in R : g[x] \in Int) /\ g[k] \in Int
        /\ IsFiniteSet(Of(R)) /\ IsFiniteSet(C) /\ g[k] = Cardinality(C)
    <3>1. \A x \in R : g[x] \in Int
      <4>1. ASSUME NEW x \in K PROVE g[x] \in Int
        <5>1. g[x] \in Nat
          BY <1>1, Zenon
        <5> QED BY <5>1
      <4> HIDE DEF R
      <4> QED BY <2>2, <4>1
    <3>2. g[k] \in Int /\ IsFiniteSet(C) /\ g[k] = Cardinality(C)
      BY <1>1, <2>2
    <3>3. IsFiniteSet(R) /\ IsFiniteSet(Of(R))
      BY <2>2, FS_Subset
    <3> QED BY <3>1, <3>2, <3>3
  <2>4. Total(g, R) = Cardinality(Of(R))
    BY <2>1
  <2> HIDE DEF Of, R, C
  <2>5. Total(g, R \cup {k}) = Total(g, R) + g[k]
    BY <2>2, <2>3, TotalAdd
  <2>6. Cardinality(Of(R) \cup C) = Cardinality(Of(R)) + Cardinality(C)
    <3>1. Cardinality(Of(R) \cup C)
              = Cardinality(Of(R)) + Cardinality(C) - Cardinality(Of(R) \cap C)
      BY <2>3, FS_Union
    <3>2. /\ Cardinality(Of(R) \cap C) = 0
          /\ Cardinality(Of(R)) \in Nat /\ Cardinality(C) \in Nat
      BY <2>2, <2>3, FS_EmptySet, FS_CardinalityType
    <3> QED BY <3>1, <3>2
  <2>7. Total(g, T) = Cardinality(Of(T))
    BY <2>2, <2>3, <2>4, <2>5, <2>6
  <2> QED BY <2>7
<1> HIDE DEF Good
<1>4. K \in Good
  BY <1>2, <1>3, SubsetInduction
<1>5. Of(K) = S
  OBVIOUS
<1> QED BY <1>4, <1>5 DEF Good

-----------------------------------------------------------------------------
\* Sums of sequences of numbers.

SeqTotal(g) == Total(g, DOMAIN g)

LEMMA SeqTotalInt == ASSUME NEW g \in Seq(Int) PROVE SeqTotal(g) \in Int
<1>1. DOMAIN g = 1 .. Len(g) /\ IsFiniteSet(1 .. Len(g))
  BY FS_Interval
<1> QED BY <1>1, TotalInt DEF SeqTotal

LEMMA SeqTotalEmpty == SeqTotal(<< >>) = 0
<1>1. DOMAIN << >> = {}
  OBVIOUS
<1> QED BY <1>1, TotalEmpty DEF SeqTotal

\* The sum over a beginning is that over one element less, and the last one.
LEMMA TotalOfPrefix ==
    ASSUME NEW g \in Seq(Int), NEW n \in 0 .. Len(g) - 1
    PROVE  Total(g, 1 .. n + 1) = Total(g, 1 .. n) + g[n + 1]
<1> DEFINE S == 1 .. n
           x == n + 1
<1>1. 1 .. n + 1 = S \cup {x} /\ x \notin S
  OBVIOUS
<1>2. IsFiniteSet(S)
  BY FS_Interval
<1>3. (\A i \in S : g[i] \in Int) /\ g[x] \in Int
  OBVIOUS
<1> HIDE DEF S, x
<1>4. Total(g, S \cup {x}) = Total(g, S) + g[x]
  BY <1>1, <1>2, <1>3, TotalAdd
<1> QED BY <1>1, <1>4 DEF S, x

LEMMA SeqTotalConcat ==
    ASSUME NEW g \in Seq(Int), NEW h \in Seq(Int)
    PROVE  SeqTotal(g \o h) = SeqTotal(g) + SeqTotal(h)
<1> DEFINE both == g \o h
           Good == {n \in 0 .. Len(h) :
                       Total(both, 1 .. Len(g) + n) = Total(g, 1 .. Len(g)) + Total(h, 1 .. n)}
<1>1. /\ both \in Seq(Int) /\ Len(both) = Len(g) + Len(h)
      /\ \A i \in 1 .. Len(g) : both[i] = g[i]
      /\ \A i \in 1 .. Len(h) : both[Len(g) + i] = h[i]
      /\ Len(g) \in Nat /\ Len(h) \in Nat
  OBVIOUS
<1> HIDE DEF both
<1>2. 0 \in Good
  <2>1. IsFiniteSet(1 .. Len(g))
    BY <1>1, FS_Interval
  <2> DEFINE S == 1 .. Len(g)
  <2>2. Total(g, S) = Total(both, S)
    <3>1. \A x \in S : g[x] \in Int /\ both[x] = g[x]
      BY <1>1
    <3> HIDE DEF S
    <3> QED BY <2>1, <3>1, TotalSame DEF S
  <2>3. Total(g, 1 .. Len(g)) \in Int
    BY <2>1, TotalInt
  <2>4. 1 .. 0 = {} /\ Len(g) + 0 = Len(g)
    BY <1>1
  <2> QED BY <1>1, <2>2, <2>3, <2>4, TotalEmpty
<1>3. ASSUME NEW n \in 0 .. Len(h) - 1, n \in Good PROVE n + 1 \in Good
  <2>1. Total(both, 1 .. (Len(g) + n) + 1) =
            Total(both, 1 .. Len(g) + n) + both[(Len(g) + n) + 1]
    <3>1. Len(g) + n \in 0 .. Len(both) - 1
      BY <1>1, <1>3
    <3> QED BY <1>1, <3>1, TotalOfPrefix
  <2>2. Total(h, 1 .. n + 1) = Total(h, 1 .. n) + h[n + 1]
    BY <1>3, TotalOfPrefix
  <2>3. (Len(g) + n) + 1 = Len(g) + (n + 1) /\ both[Len(g) + (n + 1)] = h[n + 1]
    BY <1>1, <1>3
  <2>4. Total(g, 1 .. Len(g)) \in Int /\ Total(h, 1 .. n) \in Int /\ h[n + 1] \in Int
    <3>1. IsFiniteSet(1 .. Len(g)) /\ IsFiniteSet(1 .. n)
      BY <1>1, <1>3, FS_Interval
    <3>2. \A x \in 1 .. Len(g) : g[x] \in Int
      OBVIOUS
    <3>3. \A x \in 1 .. n : h[x] \in Int
      BY <1>3
    <3>4. Total(g, 1 .. Len(g)) \in Int
      BY <3>1, <3>2, TotalInt
    <3>5. Total(h, 1 .. n) \in Int
      BY <3>1, <3>3, TotalInt
    <3> QED BY <1>1, <1>3, <3>4, <3>5
  <2>5. Total(both, 1 .. Len(g) + n) = Total(g, 1 .. Len(g)) + Total(h, 1 .. n)
    BY <1>3
  <2>6. n + 1 \in 0 .. Len(h)
    BY <1>1, <1>3
  <2> QED BY <2>1, <2>2, <2>3, <2>4, <2>5, <2>6
<1> HIDE DEF Good
<1>4. Len(h) \in Good
  <2>1. \A m \in 0 .. Len(h) - 1 : m \in Good => m + 1 \in Good
    BY <1>3
  <2>2. \A m \in 0 .. Len(h) : m \in Good
    BY <1>1, <1>2, <2>1, CountingUp
  <2> QED BY <1>1, <2>2
<1>5. DOMAIN g = 1 .. Len(g) /\ DOMAIN h = 1 .. Len(h) /\ DOMAIN both = 1 .. Len(g) + Len(h)
  BY <1>1
<1> QED BY <1>4, <1>5 DEF SeqTotal, Good, both

LEMMA SeqTotalZero ==
    ASSUME NEW g \in Seq(Int), \A n \in DOMAIN g : g[n] = 0
    PROVE  SeqTotal(g) = 0
<1>1. DOMAIN g = 1 .. Len(g) /\ IsFiniteSet(1 .. Len(g))
  BY FS_Interval
<1> QED BY <1>1, TotalZero DEF SeqTotal

LEMMA SeqTotalNat == ASSUME NEW g \in Seq(Nat) PROVE SeqTotal(g) \in Nat
<1>1. DOMAIN g = 1 .. Len(g) /\ IsFiniteSet(1 .. Len(g))
  BY FS_Interval
<1> QED BY <1>1, TotalNat DEF SeqTotal

\* What is left of a sequence after i elements is the part up to j and what is
\* left after j.
LEMMA SubSeqSplit ==
    ASSUME NEW S, NEW s \in Seq(S), NEW i \in 0 .. Len(s), NEW j \in i .. Len(s)
    PROVE  /\ SubSeq(s, i + 1, j) \in Seq(S)
           /\ SubSeq(s, j + 1, Len(s)) \in Seq(S)
           /\ SubSeq(s, i + 1, Len(s)) = SubSeq(s, i + 1, j) \o SubSeq(s, j + 1, Len(s))
<1> DEFINE whole == SubSeq(s, i + 1, Len(s))
           left == SubSeq(s, i + 1, j)
           right == SubSeq(s, j + 1, Len(s))
<1>1. i \in Int /\ j \in Int /\ Len(s) \in Int /\ 0 <= i /\ i <= j /\ j <= Len(s)
  OBVIOUS
<1>2. \A k \in 1 .. Len(s) : s[k] \in S
  OBVIOUS
<1>3. /\ whole \in Seq(S) /\ Len(whole) = Len(s) - i
      /\ \A k \in 1 .. Len(s) - i : whole[k] = s[i + k]
  <2>1. /\ whole \in Seq(S) /\ Len(whole) = IF i + 1 <= Len(s) THEN Len(s) - (i + 1) + 1 ELSE 0
        /\ \A k \in 1 .. Len(s) - (i + 1) + 1 : whole[k] = s[i + 1 + k - 1]
    BY <1>1, <1>2, SubSeqProperties
  <2> HIDE DEF whole
  <2> QED BY <1>1, <2>1
<1>4. /\ left \in Seq(S) /\ Len(left) = j - i
      /\ \A k \in 1 .. j - i : left[k] = s[i + k]
  <2>1. /\ left \in Seq(S) /\ Len(left) = IF i + 1 <= j THEN j - (i + 1) + 1 ELSE 0
        /\ \A k \in 1 .. j - (i + 1) + 1 : left[k] = s[i + 1 + k - 1]
    BY <1>1, <1>2, SubSeqProperties
  <2> HIDE DEF left
  <2> QED BY <1>1, <2>1
<1>5. /\ right \in Seq(S) /\ Len(right) = Len(s) - j
      /\ \A k \in 1 .. Len(s) - j : right[k] = s[j + k]
  <2>1. /\ right \in Seq(S) /\ Len(right) = IF j + 1 <= Len(s) THEN Len(s) - (j + 1) + 1 ELSE 0
        /\ \A k \in 1 .. Len(s) - (j + 1) + 1 : right[k] = s[j + 1 + k - 1]
    BY <1>1, <1>2, SubSeqProperties
  <2> HIDE DEF right
  <2> QED BY <1>1, <2>1
<1> HIDE DEF whole, left, right
<1> DEFINE both == left \o right
<1>6. /\ both \in Seq(S) /\ Len(both) = Len(s) - i
      /\ \A k \in 1 .. Len(s) - i :
             both[k] = IF k <= j - i THEN left[k] ELSE right[k - (j - i)]
  BY <1>1, <1>4, <1>5
<1> HIDE DEF both
<1>7. ASSUME NEW k \in 1 .. Len(s) - i PROVE whole[k] = both[k]
  <2>1. CASE k <= j - i
    BY <1>1, <1>3, <1>4, <1>6, <2>1
  <2>2. CASE k > j - i
    <3>1. k - (j - i) \in 1 .. Len(s) - j /\ j + (k - (j - i)) = i + k
      BY <1>1, <2>2
    <3> QED BY <1>1, <1>3, <1>5, <1>6, <2>2, <3>1
  <2> QED BY <1>1, <2>1, <2>2
<1>8. whole = both
  BY <1>3, <1>6, <1>7, SeqEqual
<1> QED BY <1>4, <1>5, <1>8 DEF whole, left, right, both

-----------------------------------------------------------------------------
\* FlattenSeq, by the function it is computed with.

IsFlatten(f, seqs, n) ==
    f = [i \in 1 .. n |-> IF i = 1 THEN seqs[i] ELSE f[i - 1] \o seqs[i]]

LEMMA FlattenExists ==
    ASSUME NEW seqs, NEW n \in Nat
    PROVE  \E f : IsFlatten(f, seqs, n)
<1> DEFINE Good == {m \in Nat : \E f : IsFlatten(f, seqs, m)}
<1>1. 0 \in Good
  <2> DEFINE e == [i \in 1 .. 0 |-> 0]
             g == [i \in 1 .. 0 |-> IF i = 1 THEN seqs[i] ELSE e[i - 1] \o seqs[i]]
  <2>1. e = g
    OBVIOUS
  <2> HIDE DEF e
  <2>2. IsFlatten(e, seqs, 0)
    BY <2>1 DEF IsFlatten
  <2> QED BY <2>2
<1>2. ASSUME NEW m \in 0 .. n - 1, m \in Good PROVE m + 1 \in Good
  <2>1. PICK f : IsFlatten(f, seqs, m)
    BY <1>2
  <2> DEFINE e == [i \in 1 .. m + 1 |-> IF i = 1 THEN seqs[i] ELSE f[i - 1] \o seqs[i]]
             g == [i \in 1 .. m + 1 |-> IF i = 1 THEN seqs[i] ELSE e[i - 1] \o seqs[i]]
  <2>2. \A i \in 1 .. m : e[i] = f[i]
    <3>1. \A i \in 1 .. m : f[i] = IF i = 1 THEN seqs[i] ELSE f[i - 1] \o seqs[i]
      <4> HIDE DEF e
      <4> QED BY <2>1 DEF IsFlatten
    <3>2. 1 .. m \subseteq 1 .. m + 1
      BY <1>2
    <3> QED BY <3>1, <3>2
  <2>3. \A i \in 1 .. m + 1 : e[i] = g[i]
    <3>1. \A i \in 1 .. m + 1 : i # 1 => i - 1 \in 1 .. m
      OBVIOUS
    <3>2. \A i \in 1 .. m + 1 : i # 1 => f[i - 1] = e[i - 1]
      BY <2>2, <3>1
    <3> QED BY <3>2
  <2>4. e = g
    BY <2>3
  <2> HIDE DEF e
  <2>5. IsFlatten(e, seqs, m + 1)
    BY <2>4 DEF IsFlatten
  <2> QED BY <2>5
<1> HIDE DEF Good
<1>3. n \in Good
  BY <1>1, <1>2, CountingUp
<1> QED BY <1>3 DEF Good

-----------------------------------------------------------------------------
\* Folds over sequences.  FoldLeft computes with a function of the sets of places,
\* of which it takes out the largest; only its values at the beginnings of the
\* sequence matter.

Largest(t) == CHOOSE x \in t : \A y \in t : x >= y

LEMMA LargestOfPrefix ==
    ASSUME NEW m \in Nat, NEW t \in SUBSET (1 .. m + 1), m + 1 \in t
    PROVE  Largest(t) = m + 1
<1> DEFINE P(x) == x \in t /\ \A y \in t : x >= y
<1>1. P(m + 1)
  OBVIOUS
<1>2. \A x : P(x) => x = m + 1
  OBVIOUS
<1>3. P(Largest(t))
  <2>1. Largest(t) = CHOOSE x : P(x)
    BY DEF Largest
  <2> HIDE DEF P
  <2> QED BY <1>1, <2>1
<1> QED BY <1>2, <1>3

LEMMA LargestIn ==
    ASSUME NEW n \in Nat, NEW t \in SUBSET (1 .. n), t # {}
    PROVE  Largest(t) \in t
<1> DEFINE D == {n - x : x \in t}
           P(x) == x \in t /\ \A y \in t : x >= y
<1>1. D \subseteq Nat /\ D # {}
  <2>1. \A x \in t : n - x \in Nat
    OBVIOUS
  <2>2. D \subseteq Nat
    BY <2>1
  <2>3. PICK x \in t : TRUE
    OBVIOUS
  <2>4. n - x \in D
    OBVIOUS
  <2> HIDE DEF D
  <2> QED BY <2>2, <2>4
<1>2. PICK d \in D : \A e \in D : d <= e
  <2> HIDE DEF D
  <2> QED BY <1>1, LeastNatural
<1>3. PICK x \in t : d = n - x
  OBVIOUS
<1>4. P(x)
  <2>1. \A y \in t : n - y \in D
    OBVIOUS
  <2> HIDE DEF D
  <2> QED BY <1>2, <1>3, <2>1
<1>5. Largest(t) = CHOOSE y : P(y)
  BY DEF Largest
<1>6. P(Largest(t))
  <2> HIDE DEF P
  <2> QED BY <1>4, <1>5
<1> QED BY <1>6

\* Such a function exists, whatever a step does.
IsFoldOf(f, n, T, base, g) ==
    /\ f \in [SUBSET (1 .. n) -> T]
    /\ \A t \in SUBSET (1 .. n) :
           f[t] = IF t = {} THEN base ELSE g[<<f[t \ {Largest(t)}], Largest(t)>>]

LEMMA FoldStepsExist ==
    ASSUME NEW n \in Nat, NEW T, NEW base \in T, NEW g \in [T \X (1 .. n) -> T]
    PROVE  \E f : IsFoldOf(f, n, T, base, g)
<1> DEFINE Is(f, m) ==
               /\ f \in [SUBSET (1 .. m) -> T]
               /\ \A t \in SUBSET (1 .. m) :
                      f[t] = IF t = {} THEN base ELSE g[<<f[t \ {Largest(t)}], Largest(t)>>]
           Good == {m \in 0 .. n : \E f : Is(f, m)}
<1>1. 0 \in Good
  <2>1. SUBSET (1 .. 0) = {{}}
    OBVIOUS
  <2> DEFINE f == [t \in SUBSET (1 .. 0) |-> base]
  <2>2. Is(f, 0)
    BY <2>1
  <2>3. 0 \in 0 .. n
    OBVIOUS
  <2> HIDE DEF f, Is
  <2> QED BY <2>2, <2>3
<1>2. ASSUME NEW m \in 0 .. n - 1, m \in Good PROVE m + 1 \in Good
  <2>1. PICK f : Is(f, m)
    BY <1>2
  <2> DEFINE a == m + 1
             h == [t \in SUBSET (1 .. a) |-> IF a \in t THEN g[<<f[t \ {a}], a>>] ELSE f[t]]
  <2>2. a \in 1 .. n /\ m \in Nat
    OBVIOUS
  <2>3. \A t \in SUBSET (1 .. a) : t \ {a} \in SUBSET (1 .. m)
    OBVIOUS
  <2>4. \A t \in SUBSET (1 .. a) : a \notin t => t \in SUBSET (1 .. m)
    BY <2>3
  <2>5. h \in [SUBSET (1 .. a) -> T]
    <3>1. ASSUME NEW t \in SUBSET (1 .. a)
          PROVE  (IF a \in t THEN g[<<f[t \ {a}], a>>] ELSE f[t]) \in T
      <4>1. CASE a \in t
        <5>1. f[t \ {a}] \in T
          BY <2>1, <2>3
        <5>2. <<f[t \ {a}], a>> \in T \X (1 .. n)
          BY <2>2, <5>1
        <5>3. g[<<f[t \ {a}], a>>] \in T
          BY <5>2
        <5> QED BY <4>1, <5>3
      <4>2. CASE a \notin t
        BY <2>1, <2>4, <4>2
      <4> QED BY <4>1, <4>2
    <3> QED BY <3>1
  <2>6. ASSUME NEW t \in SUBSET (1 .. a)
        PROVE  h[t] = IF t = {} THEN base ELSE g[<<h[t \ {Largest(t)}], Largest(t)>>]
    <3>1. CASE a \in t
      <4>1. Largest(t) = a
        BY <2>2, <3>1, LargestOfPrefix
      <4>2. t \ {a} \in SUBSET (1 .. a) /\ a \notin t \ {a} /\ t # {}
        BY <3>1
      <4>3. h[t \ {a}] = f[t \ {a}]
        BY <4>2
      <4>4. h[t] = g[<<f[t \ {a}], a>>]
        BY <3>1
      <4> HIDE DEF h
      <4> QED BY <4>1, <4>2, <4>3, <4>4
    <3>2. CASE a \notin t
      <4>1. t \in SUBSET (1 .. m)
        BY <2>4, <3>2
      <4>2. t \ {Largest(t)} \in SUBSET (1 .. a) /\ a \notin t \ {Largest(t)}
        BY <3>2
      <4>3. h[t] = f[t] /\ h[t \ {Largest(t)}] = f[t \ {Largest(t)}]
        BY <3>2, <4>2
      <4>4. f[t] = IF t = {} THEN base ELSE g[<<f[t \ {Largest(t)}], Largest(t)>>]
        BY <2>1, <4>1
      <4> HIDE DEF h
      <4> QED BY <4>3, <4>4
    <3> QED BY <3>1, <3>2
  <2>7. Is(h, a)
    <3> HIDE DEF h, a
    <3> QED BY <2>5, <2>6
  <2>8. a \in 0 .. n
    OBVIOUS
  <2> HIDE DEF h, Is
  <2> QED BY <2>7, <2>8
<1>3. n \in Good
  <2> HIDE DEF Good
  <2>1. \A m \in 0 .. n - 1 : m \in Good => m + 1 \in Good
    BY <1>2
  <2>2. \A m \in 0 .. n : m \in Good
    BY <1>1, <2>1, CountingUp
  <2> QED BY <2>2
<1>4. PICK f : Is(f, n)
  BY <1>3
<1>5. IsFoldOf(f, n, T, base, g)
  BY <1>4 DEF IsFoldOf
<1> QED BY <1>5

\* A beginning without its last place is the beginning before it.
LEMMA PrefixSteps ==
    ASSUME NEW k \in Nat \ {0}
    PROVE  /\ Largest(1 .. k) = k
           /\ (1 .. k) \ {k} = 1 .. k - 1
           /\ 1 .. k # {}
<1>1. k - 1 \in Nat /\ (k - 1) + 1 = k
  OBVIOUS
<1>2. Largest(1 .. k) = k
  <2>1. PICK m \in Nat : k = m + 1
    BY <1>1
  <2>2. 1 .. k \in SUBSET (1 .. m + 1) /\ m + 1 \in 1 .. k
    BY <2>1
  <2> QED BY <2>1, <2>2, LargestOfPrefix
<1>3. (1 .. k) \ {k} = 1 .. k - 1 /\ 1 .. k # {}
  OBVIOUS
<1> QED BY <1>2, <1>3

=============================================================================
