---------------------------- MODULE Percentiles ----------------------------
(***************************************************************************)
(* The percentiles of a slice of durations.  The agent computes them twice:*)
(* calculatePercentiles (src/ebpf.go), which sorts with the library, and   *)
(* calculateTracePercentiles (src/otel_receiver.go), which sorts by hand.  *)
(***************************************************************************)
EXTENDS Integers, Sequences, FiniteSets, SequencesExt

\* The slice's element number n*p/100, counted from zero.
At(sorted, p) == sorted[(Len(sorted) * p) \div 100 + 1]

\* The last index is tested first; the test never fails (PercentilesProofs).
PercentilesOf(sorted) ==
    [p50 |-> At(sorted, 50),
     p95 |-> At(sorted, 95),
     p99 |-> IF (Len(sorted) * 99) \div 100 < Len(sorted) THEN At(sorted, 99)
             ELSE sorted[Len(sorted)]]

NoPercentiles == [p50 |-> 0, p95 |-> 0, p99 |-> 0]

\* How many elements of a slice are below a value, and how many are not above it.
Below(s, v) == Cardinality({n \in DOMAIN s : s[n] < v})
NotAbove(s, v) == Cardinality({n \in DOMAIN s : s[n] <= v})

\* What sort.Slice makes of a slice: fewer than k elements are below the k-th,
\* and k at least are not above it.
SortedSlice(s) ==
    [k \in DOMAIN s |-> CHOOSE v \in Range(s) : Below(s, v) < k /\ k <= NotAbove(s, v)]

calculatePercentiles(durations) ==
    IF durations = << >> THEN NoPercentiles
    ELSE PercentilesOf(SortedSlice(durations))

\* A fault of Exchange: neighbours are left alone.
ExchangeDistant(s, i, j) ==
    IF j > i + 1 /\ s[j] < s[i] THEN [s EXCEPT ![i] = s[j], ![j] = s[i]] ELSE s

\* The body of the two loops, over i and over j > i.
Exchange(s, i, j) ==
    IF j > i /\ s[j] < s[i] THEN [s EXCEPT ![i] = s[j], ![j] = s[i]] ELSE s

ExchangeRound(s, i) ==
    FoldLeft(LAMBDA t, j : Exchange(t, i, j), s, [n \in DOMAIN s |-> n])

ExchangeSort(s) == FoldLeft(ExchangeRound, s, [n \in DOMAIN s |-> n])

calculateTracePercentiles(durations) ==
    IF durations = << >> THEN NoPercentiles
    ELSE PercentilesOf(ExchangeSort(durations))

-----------------------------------------------------------------------------
\* What percentile p of a slice is, by counting: no more than p percent of the
\* elements are below it, and more than p percent are not above it.
IsPercentile(v, p, durations) ==
    /\ Below(durations, v) * 100 <= Len(durations) * p
    /\ NotAbove(durations, v) * 100 > Len(durations) * p
ArePercentiles(ps, durations) ==
    /\ IsPercentile(ps.p50, 50, durations)
    /\ IsPercentile(ps.p95, 95, durations)
    /\ IsPercentile(ps.p99, 99, durations)

=============================================================================
