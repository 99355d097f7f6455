------------------------- MODULE OTelReceiverProofs -------------------------
(***************************************************************************)
(* Theorems about OTelReceiver, for any requests and any bounds.           *)
(***************************************************************************)
EXTENDS OTelReceiver, DataLemmas

-----------------------------------------------------------------------------
\* Lemmas about the operators the receiver is built from.

\* What a span's identity is, without the nested unions.
LEMMA SpanIdsMember ==
    \A r, i, j : <<r, i, j>> \in SpanIds <=>
        /\ r \in Requests
        /\ i \in DOMAIN Resources(r)
        /\ j \in DOMAIN Resources(r)[i].spans
  BY DEF SpanIds

LEMMA SpanIdsTriple ==
    \A id \in SpanIds : id = <<id[1], id[2], id[3]>>
  BY DEF SpanIds

LEMMA BodyType ==
    ASSUME NEW r \in Requests
    PROVE  /\ Resources(r) \in Seq(Resource)
           /\ \A i \in DOMAIN Resources(r) :
                  /\ Resources(r)[i].service \in Services
                  /\ Resources(r)[i].spans \in Seq(Span)
<1> DEFINE b == Body[r]
<1>1. b \in [kind : Parsed \cup Malformed, resources : Seq(Resource)]
  BY BodyAssumption
<1>2. Resources(r) \in Seq(Resource)
  BY <1>1 DEF Resources
<1>3. \A i \in DOMAIN Resources(r) : Resources(r)[i] \in Resource
  BY <1>2
<1>4. \A x \in Resource : x.service \in Services /\ x.spans \in Seq(Span)
  BY DEF Resource
<1> HIDE DEF b
<1> QED BY <1>2, <1>3, <1>4

\* The current resource of a handler that is not at the end.
LEMMA CurrentType ==
    ASSUME NEW r \in Requests, resource[r] \in Nat \ {0}, ~AtEnd(r)
    PROVE  /\ resource[r] \in DOMAIN Resources(r)
           /\ Current(r).service \in Services
           /\ Current(r).spans \in Seq(Span)
  BY BodyType DEF AtEnd, Current

LEMMA CountedType ==
    ASSUME NEW sm \in [spans : Nat, errors : Nat, total : Int, durations : Seq(Int)],
           NEW span \in Span
    PROVE  Counted(sm, span) \in
               [spans : Nat, errors : Nat, total : Int, durations : Seq(Int)]
<1>1. DurationLimit \in Nat \ {0}
  BY BoundsAssumption
<1>2. \A d \in Int : AsDuration(d) \in Int
  BY <1>1 DEF AsDuration
<1>3. span.duration \in Int /\ AsDuration(sm.total + span.duration) \in Int
  BY <1>1, <1>2 DEF Span
<1>4. Append(sm.durations, AsDuration(span.duration)) \in Seq(Int)
  <2>1. sm.durations \in Seq(Int) /\ AsDuration(span.duration) \in Int
    BY <1>2, <1>3
  <2> QED BY <2>1
<1>5. KeepNewest(Append(sm.durations, AsDuration(span.duration)),
                 MaxDurations, KeepDurations) \in Seq(Int)
  BY <1>4, KeepNewestType, BoundsAssumption
<1> QED BY <1>3, <1>5 DEF Counted

-----------------------------------------------------------------------------
\* The inductive invariant: where a handler can be.

\* A handler inside its loop over spans is at a resource, and a protobuf
\* handler locks only for a resource.
AtAResource ==
    \A r \in Requests :
        pc[r] = "spans" \/ (pc[r] = "open" /\ IsProtobuf(r)) => ~AtEnd(r)

Inv == TypeOK /\ LockDiscipline /\ AtAResource /\ EntryStaysUnderHandler

LEMMA InitInv == Init => Inv
<1> SUFFICES ASSUME Init PROVE Inv
  OBVIOUS
<1>1. TypeOK
  <2>1. << >> \in Seq(SpanIds)
    OBVIOUS
  <2>2. DOMAIN serviceMetrics = {}
    BY DEF Init
  <2> QED BY <2>1, <2>2 DEF Init, TypeOK
<1>2. LockDiscipline
  BY NobodyAssumption DEF Init, LockDiscipline
<1>3. AtAResource /\ EntryStaysUnderHandler
  BY DEF Init, AtAResource, EntryStaysUnderHandler
<1> QED BY <1>1, <1>2, <1>3 DEF Inv

\* Every action leaves the variables in their types.
LEMMA NextType == Inv /\ [Next]_vars => TypeOK'
<1> SUFFICES ASSUME Inv, [Next]_vars PROVE TypeOK'
  OBVIOUS
<1> USE DEF Inv
<1>1. ASSUME NEW r \in Requests, RefuseBody(r) PROVE TypeOK'
  BY <1>1 DEF TypeOK, RefuseBody, Answer, Goto
<1>2. ASSUME NEW r \in Requests, ParseBody(r) PROVE TypeOK'
  BY <1>2 DEF TypeOK, ParseBody, Goto
<1>3. ASSUME NEW r \in Requests, LockMetrics(r) PROVE TypeOK'
  BY <1>3 DEF TypeOK, LockMetrics, Goto
<1>4. ASSUME NEW r \in Requests, OpenResource(r) PROVE TypeOK'
  <2>1. Current(r).service \in Services
    BY <1>4, CurrentType DEF OpenResource, TypeOK
  <2>2. DOMAIN serviceMetrics' = DOMAIN serviceMetrics \cup {Current(r).service}
    BY <1>4 DEF OpenResource
  <2>3. \A s \in DOMAIN serviceMetrics' : serviceMetrics'[s] \in
           [spans : Nat, errors : Nat, total : Int, durations : Seq(Int)]
    <3>1. NoMetrics \in [spans : Nat, errors : Nat, total : Int, durations : Seq(Int)]
      BY DEF NoMetrics
    <3> QED BY <1>4, <2>2, <3>1 DEF OpenResource, TypeOK
  <2> QED BY <1>4, <2>1, <2>2, <2>3 DEF OpenResource, TypeOK, Goto
<1>5. ASSUME NEW r \in Requests, CountSpan(r) PROVE TypeOK'
  <2> DEFINE s == Current(r).service
             span == Current(r).spans[nextSpan[r]]
             id == <<r, resource[r], nextSpan[r]>>
  <2>1. ~AtEnd(r) /\ s \in DOMAIN serviceMetrics
    BY <1>5 DEF CountSpan, AtAResource, EntryStaysUnderHandler
  <2>2. /\ resource[r] \in DOMAIN Resources(r)
        /\ Current(r).spans \in Seq(Span)
        /\ nextSpan[r] \in DOMAIN Current(r).spans
    BY <1>5, <2>1, CurrentType, SMTT(30) DEF CountSpan, TypeOK
  <2>3. Counted(serviceMetrics[s], span) \in
           [spans : Nat, errors : Nat, total : Int, durations : Seq(Int)]
    <3>1. /\ serviceMetrics[s] \in
                [spans : Nat, errors : Nat, total : Int, durations : Seq(Int)]
          /\ span \in Span
      BY <2>1, <2>2 DEF TypeOK
    <3> HIDE DEF s, span
    <3> QED BY <3>1, CountedType
  <2>4. id \in SpanIds
    BY <2>2, SpanIdsMember DEF Current
  <2>5. newSpans' \in [Requests -> Seq(SpanIds)]
    <3>1. Append(newSpans[r], id) \in Seq(SpanIds)
      BY <2>4 DEF TypeOK
    <3> QED BY <1>5, <3>1 DEF CountSpan, TypeOK
  <2>6. /\ DOMAIN serviceMetrics' = DOMAIN serviceMetrics
        /\ \A t \in DOMAIN serviceMetrics : serviceMetrics'[t] =
               IF t = s THEN Counted(serviceMetrics[s], span) ELSE serviceMetrics[t]
    BY <1>5 DEF CountSpan
  <2>7. nextSpan' \in [Requests -> Nat \ {0}]
    BY <1>5 DEF CountSpan, TypeOK
  <2> QED
    <3> HIDE DEF s, span
    <3> QED BY <1>5, <2>3, <2>5, <2>6, <2>7 DEF CountSpan, TypeOK
<1>6. ASSUME NEW r \in Requests, CloseResource(r) PROVE TypeOK'
  <2>1. /\ resource' \in [Requests -> Nat \ {0}]
        /\ nextSpan' \in [Requests -> Nat \ {0}]
    BY <1>6 DEF CloseResource, TypeOK
  <2>2. /\ pc' \in [Requests -> {"start", "lock", "open", "spans", "answer", "done"}]
        /\ metricsMu' \in Requests \cup {Nobody}
    <3>1. \/ pc' = [pc EXCEPT ![r] = "lock"] /\ metricsMu' = Nobody
          \/ pc' = [pc EXCEPT ![r] = "open"] /\ metricsMu' = metricsMu
      BY <1>6 DEF CloseResource, Goto
    <3>2. /\ pc \in [Requests -> {"start", "lock", "open", "spans", "answer", "done"}]
          /\ metricsMu \in Requests \cup {Nobody}
      BY DEF TypeOK
    <3>3. CASE pc' = [pc EXCEPT ![r] = "lock"] /\ metricsMu' = Nobody
      BY <3>2, <3>3
    <3>4. CASE pc' = [pc EXCEPT ![r] = "open"] /\ metricsMu' = metricsMu
      BY <3>2, <3>4
    <3> QED BY <3>1, <3>3, <3>4
  <2> QED BY <1>6, <2>1, <2>2 DEF CloseResource, TypeOK
<1>7. ASSUME NEW r \in Requests, FinishJSON(r) PROVE TypeOK'
  BY <1>7 DEF TypeOK, FinishJSON, Goto
<1>8. ASSUME NEW r \in Requests, BufferSpans(r) PROVE TypeOK'
  <2>1. /\ spanBuffer \o newSpans[r] \in Seq(SpanIds)
        /\ arrived \o newSpans[r] \in Seq(SpanIds)
    BY DEF TypeOK
  <2>2. KeepNewest(spanBuffer \o newSpans[r], MaxSpans, KeepSpans) \in Seq(SpanIds)
    BY <2>1, KeepNewestType, BoundsAssumption
  <2>3. spanBuffer' \in Seq(SpanIds) /\ arrived' \in Seq(SpanIds)
    BY <1>8, <2>1, <2>2 DEF BufferSpans, TypeOK
  <2> QED BY <1>8, <2>3 DEF BufferSpans, TypeOK, Goto
<1>9. ASSUME NEW r \in Requests, AnswerOK(r) PROVE TypeOK'
  BY <1>9 DEF TypeOK, AnswerOK, Answer, Goto
<1>10. CASE CollectMetrics
  <2>1. reported' \in [Services -> [spans : Nat, errors : Nat, total : Int]]
    BY <1>10 DEF CollectMetrics, Reportable, TypeOK
  <2>2. /\ DOMAIN serviceMetrics' \subseteq Services
        /\ \A s \in DOMAIN serviceMetrics' : serviceMetrics'[s] \in
               [spans : Nat, errors : Nat, total : Int, durations : Seq(Int)]
    BY <1>10 DEF CollectMetrics, Reportable, TypeOK
  <2> QED BY <1>10, <2>1, <2>2 DEF CollectMetrics, handlerVars, TypeOK
<1>11. CASE CollectSpans
  <2>1. outSpans' \in Seq(SpanIds) /\ spanBuffer' \in Seq(SpanIds)
    BY <1>11 DEF CollectSpans, TypeOK
  <2> QED BY <1>11, <2>1 DEF CollectSpans, handlerVars, TypeOK
<1>12. CASE UNCHANGED vars
  BY <1>12 DEF vars, TypeOK
<1> QED
  BY <1>1, <1>2, <1>3, <1>4, <1>5, <1>6, <1>7, <1>8, <1>9, <1>10, <1>11, <1>12
  DEF Next, Handle

\* Only the handler that holds the mutex is inside the loop, and only there
\* does it hold it.
LEMMA NextLock == Inv /\ [Next]_vars => LockDiscipline'
<1> SUFFICES ASSUME Inv, [Next]_vars PROVE LockDiscipline'
  OBVIOUS
<1> USE NobodyAssumption DEF Inv, TypeOK, LockDiscipline
<1>1. ASSUME NEW r \in Requests, RefuseBody(r) PROVE LockDiscipline'
  BY <1>1 DEF RefuseBody, Answer, Goto
<1>2. ASSUME NEW r \in Requests, ParseBody(r) PROVE LockDiscipline'
  BY <1>2 DEF ParseBody, Goto
<1>3. ASSUME NEW r \in Requests, LockMetrics(r) PROVE LockDiscipline'
  BY <1>3 DEF LockMetrics, Goto
<1>4. ASSUME NEW r \in Requests, OpenResource(r) PROVE LockDiscipline'
  BY <1>4 DEF OpenResource, Goto
<1>5. ASSUME NEW r \in Requests, CountSpan(r) PROVE LockDiscipline'
  BY <1>5 DEF CountSpan
<1>6. ASSUME NEW r \in Requests, CloseResource(r) PROVE LockDiscipline'
  <2>1. CASE IsProtobuf(r)
    BY <1>6, <2>1 DEF CloseResource, Goto
  <2>2. CASE ~IsProtobuf(r)
    BY <1>6, <2>2 DEF CloseResource, Goto
  <2> QED BY <2>1, <2>2
<1>7. ASSUME NEW r \in Requests, FinishJSON(r) PROVE LockDiscipline'
  BY <1>7 DEF FinishJSON, Goto
<1>8. ASSUME NEW r \in Requests, BufferSpans(r) PROVE LockDiscipline'
  BY <1>8 DEF BufferSpans, Goto
<1>9. ASSUME NEW r \in Requests, AnswerOK(r) PROVE LockDiscipline'
  BY <1>9 DEF AnswerOK, Answer, Goto
<1>10. CASE CollectMetrics
  BY <1>10 DEF CollectMetrics, handlerVars
<1>11. CASE CollectSpans
  BY <1>11 DEF CollectSpans, handlerVars
<1>12. CASE UNCHANGED vars
  BY <1>12 DEF vars
<1> QED
  BY <1>1, <1>2, <1>3, <1>4, <1>5, <1>6, <1>7, <1>8, <1>9, <1>10, <1>11, <1>12
  DEF Next, Handle

\* A handler enters its loop with an entry in the map, and what could remove
\* the entry, CollectMetrics, needs the mutex the handler holds.
LEMMA NextEntry == Inv /\ [Next]_vars => AtAResource' /\ EntryStaysUnderHandler'
<1> SUFFICES ASSUME Inv, [Next]_vars PROVE AtAResource' /\ EntryStaysUnderHandler'
  OBVIOUS
<1> DEFINE Goal == AtAResource' /\ EntryStaysUnderHandler'
<1> USE DEF Inv, TypeOK, AtAResource, EntryStaysUnderHandler
<1>1. ASSUME NEW r \in Requests, RefuseBody(r) PROVE Goal
  BY <1>1 DEF RefuseBody, Answer, Goto, AtEnd, Current
<1>2. ASSUME NEW r \in Requests, ParseBody(r) PROVE Goal
  BY <1>2 DEF ParseBody, Goto, AtEnd, Current
<1>3. ASSUME NEW r \in Requests, LockMetrics(r) PROVE Goal
  BY <1>3 DEF LockMetrics, Goto, AtEnd, Current
<1>4. ASSUME NEW r \in Requests, OpenResource(r) PROVE Goal
  <2>1. /\ \A q \in Requests \ {r} : pc'[q] = pc[q]
        /\ resource' = resource
    BY <1>4 DEF OpenResource, Goto
  <2>2. DOMAIN serviceMetrics' = DOMAIN serviceMetrics \cup {Current(r).service}
    BY <1>4 DEF OpenResource
  <2>3. ~AtEnd(r)
    BY <1>4 DEF OpenResource
  <2> QED BY <2>1, <2>2, <2>3 DEF AtEnd, Current
<1>5. ASSUME NEW r \in Requests, CountSpan(r) PROVE Goal
  BY <1>5 DEF CountSpan, AtEnd, Current
<1>6. ASSUME NEW r \in Requests, CloseResource(r) PROVE Goal
  <2>1. /\ \A q \in Requests \ {r} : pc'[q] = pc[q] /\ resource'[q] = resource[q]
        /\ serviceMetrics' = serviceMetrics
    BY <1>6 DEF CloseResource, Goto
  <2>2. pc'[r] = IF IsProtobuf(r) THEN "lock" ELSE "open"
    BY <1>6 DEF CloseResource, Goto
  <2> QED BY <2>1, <2>2 DEF AtEnd, Current
<1>7. ASSUME NEW r \in Requests, FinishJSON(r) PROVE Goal
  BY <1>7 DEF FinishJSON, Goto, AtEnd, Current
<1>8. ASSUME NEW r \in Requests, BufferSpans(r) PROVE Goal
  BY <1>8 DEF BufferSpans, Goto, AtEnd, Current
<1>9. ASSUME NEW r \in Requests, AnswerOK(r) PROVE Goal
  BY <1>9 DEF AnswerOK, Answer, Goto, AtEnd, Current
<1>10. CASE CollectMetrics
  <2>1. \A r \in Requests : pc[r] # "spans"
    BY <1>10, NobodyAssumption DEF CollectMetrics, LockDiscipline
  <2> QED BY <1>10, <2>1 DEF CollectMetrics, handlerVars, AtEnd, Current
<1>11. CASE CollectSpans
  BY <1>11 DEF CollectSpans, handlerVars, AtEnd, Current
<1>12. CASE UNCHANGED vars
  BY <1>12 DEF vars, AtEnd, Current
<1> QED
  BY <1>1, <1>2, <1>3, <1>4, <1>5, <1>6, <1>7, <1>8, <1>9, <1>10, <1>11, <1>12
  DEF Next, Handle

\* The invariant is inductive, so it holds in every reachable state.
THEOREM Invariance == Spec => []Inv
<1>1. Init => Inv
  BY InitInv
<1>2. Inv /\ [Next]_vars => Inv'
  BY NextType, NextLock, NextEntry DEF Inv
<1> QED BY <1>1, <1>2, PTL DEF Spec

-----------------------------------------------------------------------------
\* The theorems about where handlers are.

\* In every state of the receiver the variables have their types.
THEOREM TypeCorrect == Spec => []TypeOK
<1>1. Inv => TypeOK
  BY DEF Inv
<1> QED BY <1>1, Invariance, PTL

\* metrics.mu is held exactly by a handler that walks a resource
\* (otel_receiver.go:219, 307 and 351).
THEOREM LockHeldByWalker == Spec => []LockDiscipline
<1>1. Inv => LockDiscipline
  BY DEF Inv
<1> QED BY <1>1, Invariance, PTL

\* CollectMetrics never deletes the entry a handler is adding spans to
\* (otel_receiver.go:220, 232 and 489).
THEOREM EntryNeverOrphaned == Spec => []EntryStaysUnderHandler
<1>1. Inv => EntryStaysUnderHandler
  BY DEF Inv
<1> QED BY <1>1, Invariance, PTL

-----------------------------------------------------------------------------
\* No span is lost or counted twice.  The counted spans are finite sets that
\* grow by exactly the span a CountSpan step counts, so their cardinalities
\* follow the counters, and CollectMetrics only moves a count from the live
\* entry to the report.

FiniteCounts == \A s \in Services : IsFiniteSet(CountedOf(s))

Accounting == FiniteCounts /\ SpanAccounting

LEMMA LiveType ==
    ASSUME TypeOK, NEW s \in Services
    PROVE  Live(s).spans \in Nat /\ Live(s).errors \in Nat
  BY DEF TypeOK, Live, NoMetrics

\* The indices of a span identity are positive.
LEMMA SpanIdIndices ==
    ASSUME NEW id \in SpanIds
    PROVE  /\ id[1] \in Requests
           /\ id[2] \in 1 .. Len(Resources(id[1]))
           /\ id[3] \in 1 .. Len(Resources(id[1])[id[2]].spans)
           /\ ServiceOf(id) \in Services
<1>1. id = <<id[1], id[2], id[3]>>
  BY SpanIdsTriple
<1>2. /\ id[1] \in Requests
      /\ id[2] \in DOMAIN Resources(id[1])
      /\ id[3] \in DOMAIN Resources(id[1])[id[2]].spans
  BY <1>1, SpanIdsMember
<1>3. /\ Resources(id[1]) \in Seq(Resource)
      /\ Resources(id[1])[id[2]].spans \in Seq(Span)
      /\ Resources(id[1])[id[2]].service \in Services
  BY <1>2, BodyType
<1> QED BY <1>2, <1>3 DEF ServiceOf

LEMMA InitAccounting == Init => Accounting
<1> SUFFICES ASSUME Init PROVE Accounting
  OBVIOUS
<1>1. ASSUME NEW s \in Services PROVE CountedOf(s) = {} /\ CountedErrorsOf(s) = {}
  <2>1. \A id \in SpanIds : ~IsCounted(id)
    BY SpanIdIndices DEF Init, IsCounted
  <2> QED BY <2>1 DEF CountedOf, CountedErrorsOf
<1>2. ASSUME NEW s \in Services
      PROVE  /\ reported[s].spans = 0 /\ reported[s].errors = 0
             /\ Live(s).spans = 0 /\ Live(s).errors = 0
  BY DEF Init, Live, NoMetrics
<1>3. Cardinality({}) = 0 /\ IsFiniteSet({})
  BY FS_EmptySet
<1>4. ASSUME NEW s \in Services
      PROVE  /\ IsFiniteSet(CountedOf(s))
             /\ reported[s].spans + Live(s).spans = Cardinality(CountedOf(s))
             /\ reported[s].errors + Live(s).errors = Cardinality(CountedErrorsOf(s))
  BY <1>1, <1>2, <1>3
<1> QED BY <1>4 DEF Accounting, FiniteCounts, SpanAccounting

\* Steps that move no handler along its spans, and change no count.
LEMMA SameAccounting ==
    ASSUME Accounting,
           \A s \in Services : CountedOf(s)' = CountedOf(s) /\ CountedErrorsOf(s)' = CountedErrorsOf(s),
           \A s \in Services :
               /\ reported'[s].spans + Live(s)'.spans = reported[s].spans + Live(s).spans
               /\ reported'[s].errors + Live(s)'.errors = reported[s].errors + Live(s).errors
    PROVE  Accounting'
  BY DEF Accounting, FiniteCounts, SpanAccounting

LEMMA SameCounted ==
    ASSUME UNCHANGED <<resource, nextSpan>>
    PROVE  \A s \in Services :
               CountedOf(s)' = CountedOf(s) /\ CountedErrorsOf(s)' = CountedErrorsOf(s)
  BY DEF CountedOf, CountedErrorsOf, IsCounted, ServiceOf, SpanOf

\* A resource is left when its last span is counted.
LEMMA CloseKeeps ==
    ASSUME TypeOK, NEW r \in Requests, CloseResource(r)
    PROVE  \A id \in SpanIds : IsCounted(id)' <=> IsCounted(id)
<1>1. /\ \A q \in Requests \ {r} : resource'[q] = resource[q] /\ nextSpan'[q] = nextSpan[q]
      /\ resource'[r] = resource[r] + 1
      /\ nextSpan'[r] = 1
      /\ nextSpan[r] > Len(Current(r).spans)
      /\ resource[r] \in Nat /\ nextSpan[r] \in Nat
  BY DEF CloseResource, TypeOK
<1> SUFFICES ASSUME NEW id \in SpanIds PROVE IsCounted(id)' <=> IsCounted(id)
  OBVIOUS
<1>2. CASE id[1] # r
  BY <1>2, <1>1, SpanIdIndices DEF IsCounted
<1>3. CASE id[1] = r
  <2>1. id[2] \in Nat /\ id[3] \in Nat /\ id[3] >= 1
    BY SpanIdIndices
  <2>2. id[2] = resource[r] => id[3] < nextSpan[r]
    BY <1>3, <1>1, SpanIdIndices DEF Current
  <2> QED BY <1>3, <1>1, <2>1, <2>2 DEF IsCounted
<1> QED BY <1>2, <1>3

LEMMA CloseCounted ==
    ASSUME TypeOK, NEW r \in Requests, CloseResource(r)
    PROVE  \A s \in Services :
               CountedOf(s)' = CountedOf(s) /\ CountedErrorsOf(s)' = CountedErrorsOf(s)
  BY CloseKeeps DEF CountedOf, CountedErrorsOf, ServiceOf, SpanOf

\* CountSpan counts one span that was not counted.
LEMMA CountCounted ==
    ASSUME Inv, NEW r \in Requests, CountSpan(r),
           NEW id, id = <<r, resource[r], nextSpan[r]>>
    PROVE  /\ id \in SpanIds
           /\ ~IsCounted(id)
           /\ ServiceOf(id) = Current(r).service
           /\ SpanOf(id) = Current(r).spans[nextSpan[r]]
           /\ \A x \in SpanIds : IsCounted(x)' <=> IsCounted(x) \/ x = id
<1>1. /\ \A q \in Requests \ {r} : nextSpan'[q] = nextSpan[q]
      /\ resource' = resource
      /\ nextSpan'[r] = nextSpan[r] + 1
      /\ nextSpan[r] <= Len(Current(r).spans)
      /\ resource[r] \in Nat \ {0} /\ nextSpan[r] \in Nat \ {0}
      /\ ~AtEnd(r)
  BY DEF CountSpan, Inv, TypeOK, AtAResource
<1>2. id \in SpanIds
  <2>1. /\ resource[r] \in DOMAIN Resources(r)
        /\ nextSpan[r] \in DOMAIN Current(r).spans
    BY <1>1, CurrentType
  <2> QED BY <2>1, SpanIdsMember DEF Current
<1>3. /\ ServiceOf(id) = Current(r).service
      /\ SpanOf(id) = Current(r).spans[nextSpan[r]]
  BY DEF ServiceOf, SpanOf, Current
<1>4. ~IsCounted(id)
  BY <1>1 DEF IsCounted
<1>5. ASSUME NEW x \in SpanIds PROVE IsCounted(x)' <=> IsCounted(x) \/ x = id
  <2>1. /\ x = <<x[1], x[2], x[3]>>
        /\ x[1] \in Requests /\ x[2] \in Nat /\ x[3] \in Nat
    BY SpanIdsTriple, SpanIdIndices
  <2>2. CASE x[1] # r
    BY <2>1, <2>2, <1>1 DEF IsCounted
  <2>3. CASE x[1] = r
    <3>1. x = id <=> x[2] = resource[r] /\ x[3] = nextSpan[r]
      BY <2>1, <2>3
    <3> QED BY <2>1, <2>3, <3>1, <1>1 DEF IsCounted
  <2> QED BY <2>2, <2>3
<1> QED BY <1>2, <1>3, <1>4, <1>5

LEMMA CountAccounting ==
    ASSUME Inv, Accounting, NEW r \in Requests, CountSpan(r)
    PROVE  Accounting'
\* Constants that name what the step sees, so that a prime does not reach them.
<1>0. PICK id, here, span : /\ id = <<r, resource[r], nextSpan[r]>>
                            /\ here = Current(r).service
                            /\ span = Current(r).spans[nextSpan[r]]
  OBVIOUS
<1>1. /\ id \in SpanIds /\ ~IsCounted(id)
      /\ ServiceOf(id) = here /\ SpanOf(id) = span
      /\ \A x \in SpanIds : IsCounted(x)' <=> IsCounted(x) \/ x = id
  BY <1>0, CountCounted
<1>2. here \in DOMAIN serviceMetrics /\ here \in Services /\ span \in Span
  <2>1. ~AtEnd(r) /\ here \in DOMAIN serviceMetrics /\ resource[r] \in Nat \ {0}
    BY <1>0 DEF CountSpan, Inv, TypeOK, AtAResource, EntryStaysUnderHandler
  <2>2. nextSpan[r] \in Nat \ {0} /\ nextSpan[r] <= Len(Current(r).spans)
    BY DEF CountSpan, Inv, TypeOK
  <2> QED BY <1>0, <2>1, <2>2, CurrentType
<1>3. reported' = reported
  BY DEF CountSpan
<1>4. ASSUME NEW s \in Services, s # here
      PROVE  /\ CountedOf(s)' = CountedOf(s)
             /\ CountedErrorsOf(s)' = CountedErrorsOf(s)
             /\ Live(s)' = Live(s)
  <2>1. CountedOf(s)' = CountedOf(s)
    BY <1>1, <1>4 DEF CountedOf, ServiceOf
  <2>2. Live(s)' = Live(s)
    BY <1>0, <1>4 DEF CountSpan, Live
  <2> QED BY <2>1, <2>2 DEF CountedErrorsOf, SpanOf
<1>5. CountedOf(here)' = CountedOf(here) \cup {id}
  BY <1>1 DEF CountedOf, ServiceOf
<1>6. CountedErrorsOf(here)' = IF span.error THEN CountedErrorsOf(here) \cup {id}
                              ELSE CountedErrorsOf(here)
  BY <1>1, <1>5 DEF CountedErrorsOf, SpanOf
<1>7. id \notin CountedOf(here) /\ id \notin CountedErrorsOf(here)
  BY <1>1 DEF CountedOf, CountedErrorsOf
<1>8. /\ Live(here)'.spans = Live(here).spans + 1
      /\ Live(here)'.errors = Live(here).errors + (IF span.error THEN 1 ELSE 0)
  <2>1. serviceMetrics'[here] = Counted(serviceMetrics[here], span)
        /\ here \in DOMAIN serviceMetrics'
    BY <1>0, <1>2 DEF CountSpan
  <2>2. Live(here)' = Counted(Live(here), span)
    BY <1>2, <2>1 DEF Live
  <2> QED BY <2>2 DEF Counted
<1>9. /\ IsFiniteSet(CountedOf(here)) /\ IsFiniteSet(CountedErrorsOf(here))
  <2>1. IsFiniteSet(CountedOf(here))
    BY <1>2 DEF Accounting, FiniteCounts
  <2> QED BY <2>1, FS_Subset DEF CountedErrorsOf
<1>10. /\ IsFiniteSet(CountedOf(here)')
       /\ Cardinality(CountedOf(here)') = Cardinality(CountedOf(here)) + 1
  BY <1>5, <1>7, <1>9, FS_AddElement
<1>11. Cardinality(CountedErrorsOf(here)') =
           Cardinality(CountedErrorsOf(here)) + (IF span.error THEN 1 ELSE 0)
  <2>1. CASE span.error
    BY <2>1, <1>6, <1>7, <1>9, FS_AddElement
  <2>2. CASE ~span.error
    <3>1. Cardinality(CountedErrorsOf(here)) \in Nat
      BY <1>9, FS_CardinalityType
    <3> QED BY <2>2, <1>6, <3>1
  <2> QED BY <2>1, <2>2
<1>12. /\ reported[here].spans \in Nat /\ reported[here].errors \in Nat
       /\ Live(here).spans \in Nat /\ Live(here).errors \in Nat
  BY <1>2, LiveType DEF Inv, TypeOK
<1>13. /\ reported[here].spans + Live(here).spans = Cardinality(CountedOf(here))
       /\ reported[here].errors + Live(here).errors = Cardinality(CountedErrorsOf(here))
  BY <1>2 DEF Accounting, SpanAccounting
<1>14. /\ reported'[here].spans + Live(here)'.spans = Cardinality(CountedOf(here)')
       /\ reported'[here].errors + Live(here)'.errors = Cardinality(CountedErrorsOf(here)')
  BY <1>3, <1>8, <1>10, <1>11, <1>12, <1>13
<1>15. ASSUME NEW s \in Services
       PROVE  /\ IsFiniteSet(CountedOf(s)')
              /\ reported'[s].spans + Live(s)'.spans = Cardinality(CountedOf(s)')
              /\ reported'[s].errors + Live(s)'.errors = Cardinality(CountedErrorsOf(s)')
  <2>1. CASE s = here
    BY <2>1, <1>10, <1>14
  <2>2. CASE s # here
    BY <2>2, <1>3, <1>4 DEF Accounting, FiniteCounts, SpanAccounting
  <2> QED BY <2>1, <2>2
<1> QED BY <1>15 DEF Accounting, FiniteCounts, SpanAccounting

\* A collection moves a service's counts into the report.
LEMMA CollectAccounting ==
    ASSUME TypeOK, Accounting, CollectMetrics
    PROVE  Accounting'
<1>1. ASSUME NEW s \in Services
      PROVE  /\ reported'[s].spans + Live(s)'.spans = reported[s].spans + Live(s).spans
             /\ reported'[s].errors + Live(s)'.errors = reported[s].errors + Live(s).errors
  <2>1. /\ reported[s].spans \in Nat /\ reported[s].errors \in Nat
        /\ Live(s).spans \in Nat /\ Live(s).errors \in Nat
    BY LiveType DEF TypeOK
  <2>2. CASE s \in Reportable
    <3>1. /\ reported'[s].spans = reported[s].spans + serviceMetrics[s].spans
          /\ reported'[s].errors = reported[s].errors + serviceMetrics[s].errors
          /\ s \notin DOMAIN serviceMetrics'
      BY <2>2 DEF CollectMetrics
    <3>2. Live(s)' = NoMetrics
      BY <3>1 DEF Live
    <3>3. Live(s) = serviceMetrics[s]
      BY <2>2 DEF Live, Reportable
    <3> QED BY <2>1, <3>1, <3>2, <3>3 DEF NoMetrics
  <2>3. CASE s \notin Reportable
    <3>1. reported'[s] = reported[s]
      BY <2>3 DEF CollectMetrics
    <3>2. Live(s)' = Live(s)
      BY <2>3 DEF CollectMetrics, Live
    <3> QED BY <3>1, <3>2
  <2> QED BY <2>2, <2>3
<1>2. UNCHANGED <<resource, nextSpan>>
  BY DEF CollectMetrics, handlerVars
<1> QED BY <1>1, <1>2, SameCounted, SameAccounting

LEMMA NextAccounting == Inv /\ Accounting /\ [Next]_vars => Accounting'
<1> SUFFICES ASSUME Inv, Accounting, [Next]_vars PROVE Accounting'
  OBVIOUS
<1>1. ASSUME UNCHANGED <<resource, nextSpan, serviceMetrics, reported>> PROVE Accounting'
  <2>1. \A s \in Services : Live(s)' = Live(s)
    BY <1>1 DEF Live
  <2> QED BY <1>1, <2>1, SameCounted, SameAccounting
<1>2. ASSUME NEW r \in Requests,
             RefuseBody(r) \/ ParseBody(r) \/ LockMetrics(r) \/ FinishJSON(r)
                 \/ BufferSpans(r) \/ AnswerOK(r)
      PROVE  Accounting'
  BY <1>1, <1>2 DEF RefuseBody, ParseBody, LockMetrics, FinishJSON, BufferSpans, AnswerOK
<1>3. ASSUME NEW r \in Requests, OpenResource(r) PROVE Accounting'
  <2>1. \A s \in Services : Live(s)' = Live(s)
    BY <1>3 DEF OpenResource, Live
  <2>2. UNCHANGED <<resource, nextSpan, reported>>
    BY <1>3 DEF OpenResource
  <2> QED BY <2>1, <2>2, SameCounted, SameAccounting
<1>4. ASSUME NEW r \in Requests, CountSpan(r) PROVE Accounting'
  BY <1>4, CountAccounting
<1>5. ASSUME NEW r \in Requests, CloseResource(r) PROVE Accounting'
  <2>1. \A s \in Services : Live(s)' = Live(s)
    BY <1>5 DEF CloseResource, Live
  <2>2. reported' = reported
    BY <1>5 DEF CloseResource
  <2>3. \A s \in Services :
            CountedOf(s)' = CountedOf(s) /\ CountedErrorsOf(s)' = CountedErrorsOf(s)
    BY <1>5, CloseCounted DEF Inv
  <2> QED BY <2>1, <2>2, <2>3, SameAccounting
<1>6. CASE CollectMetrics
  BY <1>6, CollectAccounting DEF Inv
<1>7. CASE CollectSpans
  BY <1>1, <1>7 DEF CollectSpans, handlerVars
<1>8. CASE UNCHANGED vars
  BY <1>1, <1>8 DEF vars
<1> QED
  BY <1>2, <1>3, <1>4, <1>5, <1>6, <1>7, <1>8 DEF Next, Handle

\* At every moment, for every service, the spans and errors reported so far
\* and those about to be are the ones the handlers have counted: the resets of
\* CollectMetrics (otel_receiver.go:489) lose none and repeat none.
THEOREM NothingLostOrCountedTwice == Spec => []SpanAccounting
<1>1. Init => Inv /\ Accounting
  BY InitInv, InitAccounting
<1>2. Inv /\ Accounting /\ [Next]_vars => Inv' /\ Accounting'
  BY NextType, NextLock, NextEntry, NextAccounting DEF Inv
<1>3. Accounting => SpanAccounting
  BY DEF Accounting
<1> QED BY <1>1, <1>2, <1>3, PTL DEF Spec

-----------------------------------------------------------------------------
\* The totals behind trace.duration_avg, by the same steps.  A total wraps, so
\* what is kept is the difference to the sum of the durations, which is always
\* some number of times the width of a time.Duration.

Width == 2 * DurationLimit
Duration == [id \in SpanIds |-> SpanOf(id).duration]
Summed(s) == Total(Duration, CountedOf(s))
Held(s) == reported[s].total + Live(s).total

TotalsInv == \A s \in Services : \E k \in Int : Held(s) - Summed(s) = k * Width

LEMMA DurationType == \A id \in SpanIds : Duration[id] \in Nat
<1> SUFFICES ASSUME NEW id \in SpanIds PROVE SpanOf(id).duration \in Nat
  BY DEF Duration
<1>1. /\ id[1] \in Requests /\ id[2] \in 1 .. Len(Resources(id[1]))
      /\ id[3] \in 1 .. Len(Resources(id[1])[id[2]].spans)
  BY SpanIdIndices
<1>2. Resources(id[1])[id[2]].spans \in Seq(Span)
  BY <1>1, BodyType
<1>3. SpanOf(id) \in Span
  BY <1>1, <1>2 DEF SpanOf
<1> QED BY <1>3, BoundsAssumption DEF Span

\* The sum of the property is the total of the lemmas.
LEMMA SummedIsSum ==
    ASSUME NEW T, T \subseteq SpanIds, IsFiniteSet(T)
    PROVE  MapThenSumSet(LAMBDA id : SpanOf(id).duration, T) = Total(Duration, T)
<1> DEFINE Sums(f) == f = [t \in SUBSET T |->
                 IF t = {} THEN 0
                 ELSE SpanOf(CHOOSE x \in t : TRUE).duration + f[t \ {CHOOSE x \in t : TRUE}]]
           g == CHOOSE f : Sums(f)
<1>1. MapThenSumSet(LAMBDA id : SpanOf(id).duration, T) = g[T]
  BY DEF MapThenSumSet, MapThenFoldSet
<1>2. \A x \in T : Duration[x] \in Int
  BY DurationType
<1>3. ASSUME NEW f PROVE Sums(f) <=> IsFold(f, Duration, T)
  <2>1. \A t \in SUBSET T : t # {} =>
            SpanOf(CHOOSE x \in t : TRUE).duration = Duration[CHOOSE x \in t : TRUE]
    BY DEF Duration
  <2> HIDE DEF Duration
  <2> QED BY <2>1 DEF IsFold
<1> HIDE DEF Sums
<1>4. \E f : Sums(f)
  BY <1>2, <1>3, FoldExists
<1>5. Sums(g)
  BY <1>4
<1> HIDE DEF g
<1>6. g[T] = Total(Duration, T)
  BY <1>2, <1>3, <1>5, TotalIsFold
<1> QED BY <1>1, <1>6

\* Storing a duration takes it modulo the width.
LEMMA AsDurationWraps ==
    ASSUME NEW d \in Int
    PROVE  AsDuration(d) \in Int /\ \E q \in Int : AsDuration(d) = d - q * Width
<1>1. DurationLimit \in Nat \ {0} /\ Width \in Nat \ {0}
  BY BoundsAssumption DEF Width
<1> DEFINE n == d + DurationLimit
           q == n \div Width
           m == n % Width
<1>2. n \in Int /\ n = d + DurationLimit
  BY <1>1
<1>3. AsDuration(d) = m - DurationLimit
  BY DEF AsDuration, Width
<1> HIDE DEF n
<1>4. q \in Int /\ m = n - q * Width
  BY <1>1, <1>2, Z3
<1> HIDE DEF q, m
<1>5. q * Width \in Int
  BY <1>1, <1>4
<1>6. m = d + DurationLimit - q * Width
  BY <1>1, <1>2, <1>4, <1>5
<1>7. AsDuration(d) = d - q * Width
  BY <1>1, <1>3, <1>5, <1>6
<1> QED BY <1>4, <1>5, <1>7

LEMMA TotalType ==
    ASSUME TypeOK, NEW s \in Services
    PROVE  reported[s].total \in Int /\ Live(s).total \in Int
  BY DEF TypeOK, Live, NoMetrics

LEMMA SummedType ==
    ASSUME FiniteCounts, NEW s \in Services
    PROVE  Summed(s) \in Int
<1>1. IsFiniteSet(CountedOf(s)) /\ \A x \in CountedOf(s) : Duration[x] \in Int
  BY DurationType DEF FiniteCounts, CountedOf
<1> QED BY <1>1, TotalInt DEF Summed

LEMMA InitTotals == Init => TotalsInv
<1> SUFFICES ASSUME Init, NEW s \in Services PROVE Held(s) - Summed(s) = 0 * Width
  BY DEF TotalsInv
<1>1. \A id \in SpanIds : ~IsCounted(id)
  BY SpanIdIndices DEF Init, IsCounted
<1>2. CountedOf(s) = {}
  BY <1>1 DEF CountedOf
<1>3. Summed(s) = 0
  BY <1>2, TotalEmpty DEF Summed
<1>4. Held(s) = 0 /\ Width \in Int
  BY BoundsAssumption DEF Init, Held, Live, NoMetrics, Width
<1> QED BY <1>3, <1>4

\* Steps that count no span.
LEMMA SameTotals ==
    ASSUME TotalsInv,
           \A s \in Services : CountedOf(s)' = CountedOf(s) /\ Held(s)' = Held(s)
    PROVE  TotalsInv'
<1> SUFFICES ASSUME NEW s \in Services
             PROVE  \E k \in Int : Held(s)' - Summed(s)' = k * Width
  BY DEF TotalsInv, Width
<1>1. Summed(s)' = Summed(s) /\ Held(s)' = Held(s)
  BY DEF Summed, Duration, SpanOf, Resources
<1> QED BY <1>1 DEF TotalsInv

LEMMA CountTotals ==
    ASSUME Inv, FiniteCounts, TotalsInv, NEW r \in Requests, CountSpan(r)
    PROVE  TotalsInv'
<1>0. PICK id, here, span : /\ id = <<r, resource[r], nextSpan[r]>>
                            /\ here = Current(r).service
                            /\ span = Current(r).spans[nextSpan[r]]
  OBVIOUS
<1>1. /\ id \in SpanIds /\ ~IsCounted(id)
      /\ ServiceOf(id) = here /\ SpanOf(id) = span
      /\ \A x \in SpanIds : IsCounted(x)' <=> IsCounted(x) \/ x = id
  BY <1>0, CountCounted
<1>2. /\ here \in DOMAIN serviceMetrics /\ here \in Services
      /\ Duration[id] = span.duration /\ span.duration \in Nat
  <2>1. here \in DOMAIN serviceMetrics /\ here \in Services
    BY <1>0 DEF CountSpan, Inv, TypeOK, EntryStaysUnderHandler
  <2>2. Duration[id] = span.duration
    BY <1>1 DEF Duration
  <2> QED BY <1>1, <2>1, <2>2, DurationType
<1>3. ASSUME NEW s \in Services, s # here
      PROVE  CountedOf(s)' = CountedOf(s) /\ Held(s)' = Held(s)
  <2>1. CountedOf(s)' = CountedOf(s)
    BY <1>1, <1>3 DEF CountedOf, ServiceOf
  <2>2. Live(s)' = Live(s) /\ reported' = reported
    BY <1>0, <1>3 DEF CountSpan, Live
  <2> QED BY <2>1, <2>2 DEF Held
<1>4. CountedOf(here)' = CountedOf(here) \cup {id} /\ id \notin CountedOf(here)
  BY <1>1 DEF CountedOf, ServiceOf
<1>5. Summed(here)' = Summed(here) + span.duration /\ Summed(here) \in Int
  <2>1. /\ IsFiniteSet(CountedOf(here)) /\ \A x \in CountedOf(here) : Duration[x] \in Int
        /\ Duration[id] \in Int
    BY <1>1, <1>2, DurationType DEF FiniteCounts, CountedOf
  <2>2. Total(Duration, CountedOf(here) \cup {id}) = Summed(here) + span.duration
    BY <1>2, <1>4, <2>1, TotalAdd DEF Summed
  <2>3. Summed(here)' = Total(Duration, CountedOf(here)')
    BY DEF Summed, Duration, SpanOf, Resources
  <2> QED BY <1>2, <1>4, <2>2, <2>3, SummedType
<1>6. /\ Held(here)' = reported[here].total + AsDuration(Live(here).total + span.duration)
      /\ Held(here) = reported[here].total + Live(here).total
      /\ reported[here].total \in Int /\ Live(here).total \in Int
  <2>1. serviceMetrics'[here] = Counted(serviceMetrics[here], span)
        /\ here \in DOMAIN serviceMetrics' /\ reported' = reported
    BY <1>0, <1>2 DEF CountSpan
  <2>2. Live(here)' = Counted(Live(here), span)
    BY <1>2, <2>1 DEF Live
  <2> QED BY <1>2, <2>1, <2>2, TotalType DEF Held, Counted, Inv
<1>7. \E k \in Int : Held(here)' - Summed(here)' = k * Width
  <2>1. PICK k \in Int : Held(here) - Summed(here) = k * Width
    BY <1>2 DEF TotalsInv
  <2>2. PICK rep, live, sum, dur \in Int :
            /\ rep = reported[here].total /\ live = Live(here).total
            /\ sum = Summed(here) /\ dur = span.duration
    BY <1>2, <1>5, <1>6
  <2>3. PICK d \in Int : d = live + dur
    OBVIOUS
  <2>4. PICK q \in Int : AsDuration(d) = d - q * Width
    BY AsDurationWraps
  <2>5. AsDuration(d) = AsDuration(Live(here).total + span.duration)
    BY <2>2, <2>3, Zenon
  <2>6. /\ Held(here)' = rep + AsDuration(d)
        /\ Held(here) = rep + live
        /\ Summed(here)' = sum + dur
    BY <1>5, <1>6, <2>2, <2>5
  <2>7. Width \in Int /\ k * Width \in Int /\ q * Width \in Int
        /\ (k - q) * Width = k * Width - q * Width
    BY BoundsAssumption, Z3 DEF Width
  <2>8. rep + live - sum = k * Width
    <3>1. (rep + live) - sum = k * Width
      BY <2>1, <2>2, <2>6
    <3> QED BY <2>7, <3>1
  <2>9. Held(here)' - Summed(here)' = (k - q) * Width
    BY <2>3, <2>4, <2>7, <2>8, <2>6
  <2> QED BY <2>9
<1>8. ASSUME NEW s \in Services PROVE \E k \in Int : Held(s)' - Summed(s)' = k * Width
  <2>1. CASE s = here
    BY <1>7, <2>1
  <2>2. CASE s # here
    <3>1. Summed(s)' = Summed(s)
      BY <1>3, <2>2 DEF Summed, Duration, SpanOf, Resources
    <3> QED BY <1>3, <2>2, <3>1 DEF TotalsInv
  <2> QED BY <2>1, <2>2
<1> QED BY <1>8 DEF TotalsInv, Width

LEMMA CollectTotals ==
    ASSUME TypeOK, TotalsInv, CollectMetrics
    PROVE  TotalsInv'
<1>1. ASSUME NEW s \in Services PROVE Held(s)' = Held(s)
  <2>1. reported[s].total \in Int /\ Live(s).total \in Int
    BY TotalType
  <2>2. CASE s \in Reportable
    <3>1. /\ reported'[s].total = reported[s].total + serviceMetrics[s].total
          /\ s \notin DOMAIN serviceMetrics'
      BY <2>2 DEF CollectMetrics
    <3>2. Live(s)' = NoMetrics /\ Live(s) = serviceMetrics[s]
      BY <2>2, <3>1 DEF Live, Reportable
    <3>3. Held(s)' = reported'[s].total + 0
      BY <3>2 DEF Held, NoMetrics
    <3> QED BY <2>1, <3>1, <3>2, <3>3 DEF Held
  <2>3. CASE s \notin Reportable
    <3>1. reported'[s] = reported[s] /\ Live(s)' = Live(s)
      BY <2>3 DEF CollectMetrics, Live
    <3> QED BY <3>1 DEF Held
  <2> QED BY <2>2, <2>3
<1>2. UNCHANGED <<resource, nextSpan>>
  BY DEF CollectMetrics, handlerVars
<1> QED BY <1>1, <1>2, SameCounted, SameTotals

LEMMA NextTotals ==
    Inv /\ Accounting /\ TotalsInv /\ [Next]_vars => TotalsInv'
<1> SUFFICES ASSUME Inv, Accounting, TotalsInv, [Next]_vars PROVE TotalsInv'
  OBVIOUS
<1>1. ASSUME reported' = reported, \A s \in Services : Live(s)' = Live(s),
             \A s \in Services : CountedOf(s)' = CountedOf(s)
      PROVE  TotalsInv'
  BY <1>1, SameTotals DEF Held
<1>2. ASSUME UNCHANGED <<resource, nextSpan, serviceMetrics, reported>> PROVE TotalsInv'
  <2>1. \A s \in Services : Live(s)' = Live(s)
    BY <1>2 DEF Live
  <2> QED BY <1>1, <1>2, <2>1, SameCounted
<1>3. ASSUME NEW r \in Requests,
             RefuseBody(r) \/ ParseBody(r) \/ LockMetrics(r) \/ FinishJSON(r)
                 \/ BufferSpans(r) \/ AnswerOK(r)
      PROVE  TotalsInv'
  BY <1>2, <1>3 DEF RefuseBody, ParseBody, LockMetrics, FinishJSON, BufferSpans, AnswerOK
<1>4. ASSUME NEW r \in Requests, OpenResource(r) PROVE TotalsInv'
  <2>1. \A s \in Services : Live(s)' = Live(s)
    BY <1>4 DEF OpenResource, Live
  <2>2. UNCHANGED <<resource, nextSpan, reported>>
    BY <1>4 DEF OpenResource
  <2> QED BY <1>1, <2>1, <2>2, SameCounted
<1>5. ASSUME NEW r \in Requests, CountSpan(r) PROVE TotalsInv'
  BY <1>5, CountTotals DEF Accounting
<1>6. ASSUME NEW r \in Requests, CloseResource(r) PROVE TotalsInv'
  <2>1. \A s \in Services : Live(s)' = Live(s)
    BY <1>6 DEF CloseResource, Live
  <2>2. reported' = reported
    BY <1>6 DEF CloseResource
  <2> QED BY <1>1, <1>6, <2>1, <2>2, CloseCounted DEF Inv
<1>7. CASE CollectMetrics
  BY <1>7, CollectTotals DEF Inv
<1>8. CASE CollectSpans
  BY <1>2, <1>8 DEF CollectSpans, handlerVars
<1>9. CASE UNCHANGED vars
  BY <1>2, <1>9 DEF vars
<1> QED
  BY <1>3, <1>4, <1>5, <1>6, <1>7, <1>8, <1>9 DEF Next, Handle

\* The totals behind trace.duration_avg are the durations of the counted spans,
\* modulo the width of a time.Duration, for any number of spans of any duration,
\* whatever the trims removed (otel_receiver.go:234-244, 372-386, 440-453, 489).
THEOREM TotalsAreDurations == Spec => []DurationAccounting
<1>1. Init => Inv /\ Accounting /\ TotalsInv
  BY InitInv, InitAccounting, InitTotals
<1>2. Inv /\ Accounting /\ TotalsInv /\ [Next]_vars => Inv' /\ Accounting' /\ TotalsInv'
  BY NextType, NextLock, NextEntry, NextAccounting, NextTotals DEF Inv
<1>3. Inv /\ Accounting /\ TotalsInv => DurationAccounting
  <2> SUFFICES ASSUME Inv, Accounting, TotalsInv, NEW s \in Services
               PROVE  (reported[s].total + Live(s).total
                        - MapThenSumSet(LAMBDA id : SpanOf(id).duration, CountedOf(s)))
                      % (2 * DurationLimit) = 0
    BY DEF DurationAccounting
  <2>1. IsFiniteSet(CountedOf(s)) /\ CountedOf(s) \subseteq SpanIds
    BY DEF Accounting, FiniteCounts, CountedOf
  <2>2. MapThenSumSet(LAMBDA id : SpanOf(id).duration, CountedOf(s)) = Summed(s)
    BY <2>1, SummedIsSum DEF Summed
  <2>3. PICK k \in Int : Held(s) - Summed(s) = k * Width
    BY DEF TotalsInv
  <2>4. (k * Width) % Width = 0
    <3>1. Width \in Nat \ {0}
      BY BoundsAssumption DEF Width
    <3> HIDE DEF Width
    <3> QED BY <3>1, Z3
  <2> DEFINE sum == MapThenSumSet(LAMBDA id : SpanOf(id).duration, CountedOf(s))
             rest == (reported[s].total + Live(s).total - sum) % (2 * DurationLimit)
  <2>5. sum = Summed(s)
    BY <2>2
  <2> HIDE DEF sum
  <2>6. rest = 0
    <3>1. rest = (Held(s) - Summed(s)) % (2 * DurationLimit)
      <4>1. reported[s].total \in Int /\ Live(s).total \in Int /\ sum \in Int
        BY <2>5, TotalType, SummedType DEF Inv, Accounting
      <4> QED BY <2>5, <4>1 DEF Held
    <3>2. Width = 2 * DurationLimit
      BY DEF Width
    <3> QED BY <2>3, <2>4, <3>1, <3>2
  <2> HIDE DEF rest
  <2> QED BY <2>6 DEF rest, sum
<1> QED BY <1>1, <1>2, <1>3, PTL DEF Spec

-----------------------------------------------------------------------------
\* The span buffer implements LossyBuffer.

WaitingSpans == EndsWith(arrived, spanBuffer) /\ Len(spanBuffer) <= MaxSpans

LEMMA InitWaiting == Init => WaitingSpans
  BY BoundsAssumption DEF Init, WaitingSpans, EndsWith

\* A BufferSpans step is a Put, or a stutter when the request had no spans.
LEMMA BufferSpansPuts ==
    ASSUME TypeOK, WaitingSpans, NEW r \in Requests, BufferSpans(r)
    PROVE  WaitingSpans' /\ [Buffer!Next]_(Buffer!vars)
<1>1. /\ arrived \in Seq(SpanIds) /\ spanBuffer \in Seq(SpanIds)
      /\ newSpans[r] \in Seq(SpanIds)
      /\ MaxSpans \in Nat /\ KeepSpans \in Nat \ {0} /\ KeepSpans <= MaxSpans
  BY BoundsAssumption DEF TypeOK
<1>2. outSpans' = outSpans
  BY DEF BufferSpans
<1>3. CASE newSpans[r] = << >>
  <2>1. spanBuffer' = spanBuffer /\ arrived' = arrived
    BY <1>1, <1>3 DEF BufferSpans
  <2> QED BY <1>2, <2>1 DEF WaitingSpans, Buffer!vars
<1>4. CASE newSpans[r] # << >>
  <2>1. /\ spanBuffer' = KeepNewest(spanBuffer \o newSpans[r], MaxSpans, KeepSpans)
        /\ arrived' = arrived \o newSpans[r]
    BY <1>4 DEF BufferSpans
  <2>2. /\ EndsWith(arrived', spanBuffer') /\ Len(spanBuffer') <= MaxSpans
        /\ Len(arrived') > Len(arrived)
        /\ SubSeq(arrived', 1, Len(arrived)) = arrived
        /\ Len(arrived') - Len(spanBuffer') \in
               Len(arrived) - Len(spanBuffer) .. Len(arrived')
        /\ \/ Len(arrived') - Len(spanBuffer') = Len(arrived) - Len(spanBuffer)
           \/ /\ Len(arrived') - (Len(arrived) - Len(spanBuffer)) > MaxSpans
              /\ Len(spanBuffer') >= KeepSpans
    <3>1. EndsWith(arrived, spanBuffer)
      BY DEF WaitingSpans
    <3>2. Appends(arrived, spanBuffer, arrived \o newSpans[r],
                  KeepNewest(spanBuffer \o newSpans[r], MaxSpans, KeepSpans),
                  MaxSpans, KeepSpans)
      BY <1>1, <1>4, <3>1, KeepNewestAppends
    <3> QED BY <2>1, <3>2 DEF Appends
  <2>3. Len(arrived') \in Nat /\ Len(spanBuffer') \in Nat
    <3>1. arrived' \in Seq(SpanIds)
      BY <1>1, <2>1
    <3>2. spanBuffer' \in Seq(SpanIds)
      <4>1. spanBuffer \o newSpans[r] \in Seq(SpanIds)
        BY <1>1
      <4> QED BY <1>1, <2>1, <4>1, KeepNewestType
    <3> QED BY <3>1, <3>2
  <2>4. Buffer!Put
    BY <1>2, <2>2, <2>3 DEF Buffer!Put, Buffer!waiting
  <2> QED BY <2>2, <2>4 DEF WaitingSpans, Buffer!Next
<1> QED BY <1>3, <1>4

\* A CollectSpans step is a Take.
LEMMA CollectSpansTakes ==
    ASSUME TypeOK, WaitingSpans, CollectSpans
    PROVE  WaitingSpans' /\ Buffer!Take
<1>1. arrived \in Seq(SpanIds) /\ spanBuffer \in Seq(SpanIds)
  BY DEF TypeOK
<1>2. spanBuffer = SubSeq(arrived, Len(arrived) - Len(spanBuffer) + 1, Len(arrived))
  BY <1>1, EndsWithSubSeq DEF WaitingSpans
<1>3. arrived' = arrived /\ spanBuffer' = << >> /\ outSpans' = outSpans \o spanBuffer
  BY DEF CollectSpans
<1>4. Len(arrived') - Len(spanBuffer') = Len(arrived)
  BY <1>1, <1>3
<1>5. WaitingSpans'
  BY <1>1, <1>3, BoundsAssumption DEF WaitingSpans, EndsWith
<1> QED BY <1>2, <1>3, <1>4, <1>5 DEF Buffer!Take

LEMMA NextWaiting ==
    TypeOK /\ WaitingSpans /\ [Next]_vars => WaitingSpans' /\ [Buffer!Next]_(Buffer!vars)
<1> SUFFICES ASSUME TypeOK, WaitingSpans, [Next]_vars
             PROVE  WaitingSpans' /\ [Buffer!Next]_(Buffer!vars)
  OBVIOUS
<1>1. ASSUME NEW r \in Requests, BufferSpans(r)
      PROVE  WaitingSpans' /\ [Buffer!Next]_(Buffer!vars)
  BY <1>1, BufferSpansPuts
<1>2. CASE CollectSpans
  BY <1>2, CollectSpansTakes DEF Buffer!Next
<1>3. ASSUME UNCHANGED <<spanBuffer, arrived, outSpans>>
      PROVE  WaitingSpans' /\ [Buffer!Next]_(Buffer!vars)
  BY <1>3 DEF WaitingSpans, Buffer!vars
<1>4. ASSUME NEW r \in Requests,
             \/ RefuseBody(r) \/ ParseBody(r) \/ LockMetrics(r) \/ OpenResource(r)
             \/ CountSpan(r) \/ CloseResource(r) \/ FinishJSON(r) \/ AnswerOK(r)
      PROVE  WaitingSpans' /\ [Buffer!Next]_(Buffer!vars)
  <2>1. UNCHANGED <<spanBuffer, arrived, outSpans>>
    BY <1>4 DEF RefuseBody, ParseBody, LockMetrics, OpenResource, CountSpan,
                CloseResource, FinishJSON, AnswerOK
  <2> QED BY <1>3, <2>1
<1>5. CASE CollectMetrics
  BY <1>3, <1>5 DEF CollectMetrics
<1>6. CASE UNCHANGED vars
  BY <1>3, <1>6 DEF vars
<1> QED BY <1>1, <1>2, <1>4, <1>5, <1>6 DEF Next, Handle

\* CollectSpans returns spans in order and none twice, whatever requests
\* interleave with it, and only an overflow of the buffer loses any
\* (otel_receiver.go:148-155 and 311-319).
THEOREM SpanBufferIsLossyBuffer == Spec => BufferSpec
<1>1. Init => Buffer!Init
  BY DEF Init, Buffer!Init
<1>2. TypeOK /\ WaitingSpans /\ [Next]_vars => WaitingSpans' /\ [Buffer!Next]_(Buffer!vars)
  BY NextWaiting
<1> QED BY <1>1, <1>2, InitWaiting, TypeCorrect, PTL DEF Spec, BufferSpec, Buffer!Spec

-----------------------------------------------------------------------------
\* The entries CollectMetrics divides and sorts.

EntryType == [spans : Nat, errors : Nat, total : Int, durations : Seq(Int)]
IsConsistent(sm) ==
    /\ sm.errors <= sm.spans
    /\ Len(sm.durations) <= sm.spans
    /\ Len(sm.durations) <= MaxDurations
    /\ sm.total # 0 => sm.durations # << >>

\* One more span leaves an entry consistent: a span with a duration leaves a
\* duration behind, whatever the trim removes, and one without leaves the total
\* alone when it is zero.
LEMMA CountedConsistent ==
    ASSUME NEW sm \in EntryType, NEW span \in Span, IsConsistent(sm)
    PROVE  IsConsistent(Counted(sm, span))
<1>1. /\ DurationLimit \in Nat \ {0} /\ MaxDurations \in Nat
      /\ KeepDurations \in Nat \ {0} /\ KeepDurations <= MaxDurations
  BY BoundsAssumption
<1>2. /\ sm.spans \in Nat /\ sm.errors \in Nat /\ sm.total \in Int
      /\ sm.durations \in Seq(Int) /\ Len(sm.durations) \in Nat
      /\ span.duration \in Nat
  BY <1>1 DEF EntryType, Span
<1>3. CASE span.duration > 0
  <2> DEFINE kept == KeepNewest(Append(sm.durations, AsDuration(span.duration)),
                                MaxDurations, KeepDurations)
  <2>1. AsDuration(span.duration) \in Int
    BY <1>1, <1>2 DEF AsDuration
  <2>2. /\ kept \in Seq(Int) /\ Len(kept) \in 1 .. MaxDurations
        /\ Len(kept) <= Len(sm.durations) + 1
    BY <1>1, <1>2, <2>1, KeepNewestOfAppend
  <2>3. /\ Counted(sm, span).durations = kept
        /\ Counted(sm, span).spans = sm.spans + 1
        /\ Counted(sm, span).errors = sm.errors + (IF span.error THEN 1 ELSE 0)
    BY <1>3 DEF Counted
  <2> HIDE DEF kept
  <2>4. Counted(sm, span).durations # << >>
    BY <2>2, <2>3
  <2> QED BY <1>1, <1>2, <2>2, <2>3, <2>4 DEF IsConsistent
<1>4. CASE span.duration = 0
  <2>1. /\ Counted(sm, span).durations = sm.durations
        /\ Counted(sm, span).total = AsDuration(sm.total)
        /\ Counted(sm, span).spans = sm.spans + 1
        /\ Counted(sm, span).errors = sm.errors + (IF span.error THEN 1 ELSE 0)
    BY <1>2, <1>4 DEF Counted
  <2>2. AsDuration(0) = 0
    BY <1>1, Z3 DEF AsDuration
  <2> QED BY <1>2, <2>1, <2>2 DEF IsConsistent
<1> QED BY <1>2, <1>3, <1>4

LEMMA NextConsistent == Inv /\ EntriesConsistent /\ [Next]_vars => EntriesConsistent'
<1> SUFFICES ASSUME Inv, EntriesConsistent, [Next]_vars PROVE EntriesConsistent'
  OBVIOUS
<1>1. \A s \in DOMAIN serviceMetrics :
          serviceMetrics[s] \in EntryType /\ IsConsistent(serviceMetrics[s])
  BY DEF Inv, TypeOK, EntryType, EntriesConsistent, IsConsistent
<1>2. SUFFICES \A s \in DOMAIN serviceMetrics' : IsConsistent(serviceMetrics'[s])
  BY DEF EntriesConsistent, IsConsistent
<1>3. ASSUME UNCHANGED serviceMetrics
      PROVE  \A s \in DOMAIN serviceMetrics' : IsConsistent(serviceMetrics'[s])
  BY <1>1, <1>3
<1>4. ASSUME NEW r \in Requests, OpenResource(r)
      PROVE  \A s \in DOMAIN serviceMetrics' : IsConsistent(serviceMetrics'[s])
  <2>1. IsConsistent(NoMetrics)
    BY BoundsAssumption DEF IsConsistent, NoMetrics
  <2> QED BY <1>1, <1>4, <2>1 DEF OpenResource
<1>5. ASSUME NEW r \in Requests, CountSpan(r)
      PROVE  \A s \in DOMAIN serviceMetrics' : IsConsistent(serviceMetrics'[s])
  <2> DEFINE here == Current(r).service
             span == Current(r).spans[nextSpan[r]]
  <2>1. ~AtEnd(r) /\ resource[r] \in Nat \ {0}
    BY <1>5 DEF CountSpan, Inv, TypeOK, AtAResource
  <2>2. span \in Span
    <3>1. nextSpan[r] \in Nat \ {0} /\ nextSpan[r] <= Len(Current(r).spans)
      BY <1>5 DEF CountSpan, Inv, TypeOK
    <3> QED BY <2>1, <3>1, CurrentType
  <2>3. /\ DOMAIN serviceMetrics' = DOMAIN serviceMetrics
        /\ \A s \in DOMAIN serviceMetrics : serviceMetrics'[s] =
               IF s = here THEN Counted(serviceMetrics[s], span) ELSE serviceMetrics[s]
    BY <1>5 DEF CountSpan
  <2> HIDE DEF here, span
  <2> QED BY <1>1, <2>2, <2>3, CountedConsistent
<1>6. CASE CollectMetrics
  BY <1>1, <1>6 DEF CollectMetrics
<1> QED
  BY <1>3, <1>4, <1>5, <1>6 DEF Next, Handle, RefuseBody, ParseBody, LockMetrics, FinishJSON,
     CloseResource, BufferSpans, AnswerOK, CollectSpans, vars

\* However handlers and collections interleave, an entry that CollectMetrics
\* reports has no more errors than spans, no more durations than spans or than the
\* bound, and durations to take percentiles of when its total is not zero
\* (otel_receiver.go:234-254, 350-396, 399-490).
THEOREM EntriesStayConsistent == Spec => []EntriesConsistent
<1>1. Init => EntriesConsistent
  BY DEF Init, EntriesConsistent
<1>2. Inv /\ EntriesConsistent /\ [Next]_vars => EntriesConsistent'
  BY NextConsistent
<1> QED BY <1>1, <1>2, Invariance, PTL DEF Spec

-----------------------------------------------------------------------------
\* What the status code says, and what the forwarding buffer holds.

Over(r) == pc[r] \in {"answer", "done"}

\* A refused request counts nothing, a parsed one is walked to its end before it
\* is answered, and the code is the one of its kind.
StatusInv ==
    \A r \in Requests :
        /\ Body[r].kind \in Malformed =>
               pc[r] \in {"start", "done"} /\ resource[r] = 1 /\ nextSpan[r] = 1
        /\ Body[r].kind \in Parsed /\ Over(r) => AtEnd(r)
        /\ response[r] # 0 => pc[r] = "done"
        /\ response[r] = 200 => Body[r].kind \in Parsed \cup {"bad_json"}
        /\ response[r] >= 400 => Body[r].kind \in Malformed

\* A handler gathers its own spans, each once and when it is counted, and a
\* protobuf handler all of them.
GatheredBy(r) ==
    /\ \A n \in DOMAIN newSpans[r] : newSpans[r][n][1] = r /\ IsCounted(newSpans[r][n])
    /\ \A m, n \in DOMAIN newSpans[r] : newSpans[r][m] = newSpans[r][n] => m = n
    /\ IsProtobuf(r) => \A id \in SpanIds : id[1] = r /\ IsCounted(id) =>
           \E n \in DOMAIN newSpans[r] : newSpans[r][n] = id
GatheredInv == \A r \in Requests : GatheredBy(r)

\* A handler's spans are in the buffer's log from the end of its walk on, and
\* not before.
ArrivedInv ==
    /\ \A n \in DOMAIN arrived : Over(arrived[n][1])
    /\ \A r \in Requests : IsProtobuf(r) /\ Over(r) =>
           \A k \in DOMAIN newSpans[r] : \E n \in DOMAIN arrived : arrived[n] = newSpans[r][k]

LEMMA NextStatus == Inv /\ StatusInv /\ [Next]_vars => StatusInv'
<1> SUFFICES ASSUME Inv, StatusInv, [Next]_vars PROVE StatusInv'
  OBVIOUS
<1> USE DEF Inv, TypeOK, StatusInv, Over, AtEnd
<1>1. ASSUME NEW r \in Requests, RefuseBody(r) PROVE StatusInv'
  <2>1. /\ Body[r].kind \in Malformed /\ Body[r].kind \notin Parsed
        /\ response'[r] \in {200, 400, 405} /\ pc'[r] = "done"
        /\ response'[r] = 200 => Body[r].kind = "bad_json"
    BY <1>1 DEF RefuseBody, Answer, Goto, Malformed, Parsed
  <2>2. /\ \A q \in Requests \ {r} : response'[q] = response[q] /\ pc'[q] = pc[q]
        /\ UNCHANGED <<resource, nextSpan>>
    BY <1>1 DEF RefuseBody, Answer, Goto
  <2> QED BY <2>1, <2>2
<1>2. ASSUME NEW r \in Requests, ParseBody(r) PROVE StatusInv'
  BY <1>2 DEF ParseBody, Goto, Malformed, Parsed
<1>3. ASSUME NEW r \in Requests, LockMetrics(r) PROVE StatusInv'
  BY <1>3 DEF LockMetrics, Goto
<1>4. ASSUME NEW r \in Requests, OpenResource(r) PROVE StatusInv'
  BY <1>4 DEF OpenResource, Goto
<1>5. ASSUME NEW r \in Requests, CountSpan(r) PROVE StatusInv'
  BY <1>5 DEF CountSpan
<1>6. ASSUME NEW r \in Requests, CloseResource(r) PROVE StatusInv'
  <2>1. /\ Body[r].kind \notin Malformed
        /\ pc[r] = "spans" /\ pc'[r] \in {"lock", "open"} /\ response' = response
    BY <1>6, ZenonT(30) DEF CloseResource, Goto
  <2>2. \A q \in Requests \ {r} :
            pc'[q] = pc[q] /\ resource'[q] = resource[q] /\ nextSpan'[q] = nextSpan[q]
    BY <1>6 DEF CloseResource, Goto
  <2> QED BY <2>1, <2>2
<1>7. ASSUME NEW r \in Requests, FinishJSON(r) PROVE StatusInv'
  BY <1>7 DEF FinishJSON, Goto
<1>8. ASSUME NEW r \in Requests, BufferSpans(r) PROVE StatusInv'
  BY <1>8 DEF BufferSpans, Goto
<1>9. ASSUME NEW r \in Requests, AnswerOK(r) PROVE StatusInv'
  <2>1. Body[r].kind \in Parsed
    BY <1>9, BodyAssumption DEF AnswerOK
  <2> QED BY <1>9, <2>1 DEF AnswerOK, Answer, Goto
<1>10. CASE CollectMetrics
  BY <1>10 DEF CollectMetrics, handlerVars
<1>11. CASE CollectSpans
  BY <1>11 DEF CollectSpans, handlerVars
<1>12. CASE UNCHANGED vars
  BY <1>12 DEF vars
<1> QED
  BY <1>1, <1>2, <1>3, <1>4, <1>5, <1>6, <1>7, <1>8, <1>9, <1>10, <1>11, <1>12
  DEF Next, Handle

\* A step that leaves the handlers' places and spans alone.
LEMMA SameGathered ==
    ASSUME TypeOK, GatheredInv, newSpans' = newSpans,
           \A id \in SpanIds : IsCounted(id)' <=> IsCounted(id)
    PROVE  GatheredInv'
<1>1. \A r \in Requests : \A n \in DOMAIN newSpans[r] : newSpans[r][n] \in SpanIds
  BY DEF TypeOK
<1> QED BY <1>1 DEF GatheredInv, GatheredBy

LEMMA CountGathered ==
    ASSUME Inv, GatheredInv, NEW r \in Requests, CountSpan(r)
    PROVE  GatheredInv'
<1>0. PICK id : id = <<r, resource[r], nextSpan[r]>>
  OBVIOUS
<1>1. /\ id \in SpanIds /\ ~IsCounted(id) /\ id[1] = r
      /\ \A x \in SpanIds : IsCounted(x)' <=> IsCounted(x) \/ x = id
  BY <1>0, CountCounted
<1>2. /\ newSpans \in [Requests -> Seq(SpanIds)]
      /\ newSpans' = IF IsProtobuf(r) THEN [newSpans EXCEPT ![r] = Append(@, id)] ELSE newSpans
  BY <1>0 DEF CountSpan, Inv, TypeOK
<1>3. ASSUME NEW q \in Requests, newSpans'[q] = newSpans[q], q # r \/ ~IsProtobuf(r)
      PROVE  GatheredBy(q)'
  <2>1. \A n \in DOMAIN newSpans[q] : newSpans[q][n] \in SpanIds
    BY <1>2
  <2>2. GatheredBy(q)
    BY DEF GatheredInv
  <2> QED BY <1>1, <1>3, <2>1, <2>2 DEF GatheredBy, IsProtobuf
<1>4. CASE IsProtobuf(r)
  <2> DEFINE mine == newSpans[r]
  <2>1. /\ mine \in Seq(SpanIds) /\ newSpans'[r] = Append(mine, id)
        /\ \A q \in Requests \ {r} : newSpans'[q] = newSpans[q]
    BY <1>2, <1>4
  <2>2. /\ \A n \in DOMAIN mine : mine[n] \in SpanIds /\ mine[n][1] = r /\ IsCounted(mine[n])
        /\ \A m, n \in DOMAIN mine : mine[m] = mine[n] => m = n
        /\ \A x \in SpanIds : x[1] = r /\ IsCounted(x) => \E n \in DOMAIN mine : mine[n] = x
    BY <1>4, <2>1 DEF GatheredInv, GatheredBy
  <2>3. \A n \in DOMAIN mine : mine[n] # id
    BY <1>1, <2>2
  <2> HIDE DEF mine
  <2>4. PICK grown \in Seq(SpanIds) : grown = Append(mine, id)
    BY <1>1, <2>1
  <2>5. /\ DOMAIN grown = DOMAIN mine \cup {Len(mine) + 1}
        /\ Len(mine) + 1 \notin DOMAIN mine
        /\ \A n \in DOMAIN mine : grown[n] = mine[n]
        /\ grown[Len(mine) + 1] = id
    BY <2>1, <2>4
  <2>6. \A n \in DOMAIN grown : grown[n][1] = r /\ IsCounted(grown[n])'
    BY <1>1, <2>2, <2>5
  <2>7. \A m, n \in DOMAIN grown : grown[m] = grown[n] => m = n
    BY <2>2, <2>3, <2>5
  <2>8. \A x \in SpanIds : x[1] = r /\ IsCounted(x)' => \E n \in DOMAIN grown : grown[n] = x
    BY <1>1, <2>2, <2>5
  <2>9. newSpans'[r] = grown
    BY <2>1, <2>4
  <2>10. GatheredBy(r)'
    BY <2>6, <2>7, <2>8, <2>9 DEF GatheredBy, IsProtobuf
  <2> QED BY <1>3, <2>1, <2>10 DEF GatheredInv
<1>5. CASE ~IsProtobuf(r)
  BY <1>2, <1>3, <1>5 DEF GatheredInv
<1> QED BY <1>4, <1>5

\* What is counted stays counted, and steps other than a handler's move nothing.
LEMMA NextGathered ==
    Inv /\ GatheredInv /\ [Next]_vars =>
        GatheredInv' /\ \A id \in SpanIds : IsCounted(id) => IsCounted(id)'
<1> SUFFICES ASSUME Inv, GatheredInv, [Next]_vars
             PROVE  GatheredInv' /\ \A id \in SpanIds : IsCounted(id) => IsCounted(id)'
  OBVIOUS
<1>1. ASSUME NEW r \in Requests, CountSpan(r)
      PROVE  GatheredInv' /\ \A id \in SpanIds : IsCounted(id) => IsCounted(id)'
  <2>1. \A id \in SpanIds : IsCounted(id) => IsCounted(id)'
    BY <1>1, CountCounted
  <2> QED BY <1>1, <2>1, CountGathered
<1>2. ASSUME NEW r \in Requests, CloseResource(r)
      PROVE  GatheredInv' /\ \A id \in SpanIds : IsCounted(id) => IsCounted(id)'
  <2>1. \A id \in SpanIds : IsCounted(id)' <=> IsCounted(id)
    BY <1>2, CloseKeeps DEF Inv
  <2>2. newSpans' = newSpans
    BY <1>2 DEF CloseResource
  <2> QED BY <2>1, <2>2, SameGathered DEF Inv
<1>3. ASSUME UNCHANGED <<resource, nextSpan, newSpans>>
      PROVE  GatheredInv' /\ \A id \in SpanIds : IsCounted(id) => IsCounted(id)'
  <2>1. \A id \in SpanIds : IsCounted(id)' <=> IsCounted(id)
    BY <1>3 DEF IsCounted
  <2> QED BY <1>3, <2>1, SameGathered DEF Inv
<1>4. ASSUME NEW r \in Requests,
             \/ RefuseBody(r) \/ ParseBody(r) \/ LockMetrics(r) \/ OpenResource(r)
             \/ FinishJSON(r) \/ BufferSpans(r) \/ AnswerOK(r)
      PROVE  UNCHANGED <<resource, nextSpan, newSpans>>
  BY <1>4 DEF RefuseBody, ParseBody, LockMetrics, OpenResource, FinishJSON, BufferSpans, AnswerOK
<1> QED BY <1>1, <1>2, <1>3, <1>4 DEF Next, Handle, CollectMetrics, CollectSpans, handlerVars, vars

ForwardInv == StatusInv /\ GatheredInv /\ ArrivedInv /\ ForwardedOnceWhole

\* BufferSpans appends spans of a request none of whose spans are in the log.
LEMMA BufferForwards ==
    ASSUME Inv, ForwardInv, NEW r \in Requests, BufferSpans(r)
    PROVE  ArrivedInv' /\ ForwardedOnceWhole'
<1>0. PICK before, mine : before = arrived /\ mine = newSpans[r]
  OBVIOUS
<1> DEFINE old == Len(before)
<1>1. /\ before \in Seq(SpanIds) /\ mine \in Seq(SpanIds)
      /\ arrived' = before \o mine
      /\ UNCHANGED <<resource, nextSpan, newSpans>>
      /\ IsProtobuf(r) /\ ~Over(r)
      /\ pc' \in [Requests -> {"start", "lock", "open", "spans", "answer", "done"}]
      /\ \A q \in Requests : Over(q)' <=> Over(q) \/ q = r
  BY <1>0 DEF BufferSpans, Goto, Inv, TypeOK, Over
<1>2. /\ \A n \in DOMAIN mine : mine[n] \in SpanIds /\ mine[n][1] = r /\ IsCounted(mine[n])'
      /\ \A m, n \in DOMAIN mine : mine[m] = mine[n] => m = n
  BY <1>0, <1>1 DEF ForwardInv, GatheredInv, GatheredBy, IsCounted
<1>3. \A n \in DOMAIN before : /\ before[n] \in SpanIds /\ before[n][1] \in Requests
                               /\ Over(before[n][1]) /\ before[n][1] # r
  BY <1>0, <1>1, SpanIdIndices DEF ForwardInv, ArrivedInv
<1>4. /\ \A n \in DOMAIN before : IsCounted(before[n])'
      /\ \A m, n \in DOMAIN before :
             /\ m # n => before[m] # before[n]
             /\ m < n /\ before[m][1] = before[n][1] =>
                    \A k \in m .. n : before[k][1] = before[m][1]
  BY <1>0, <1>1 DEF ForwardInv, ForwardedOnceWhole, IsCounted
<1>5. PICK log \in Seq(SpanIds) : log = before \o mine
  BY <1>1, ConcatProperties
<1>6. /\ old \in Nat /\ Len(mine) \in Nat
      /\ DOMAIN before = 1 .. old /\ DOMAIN mine = 1 .. Len(mine)
      /\ DOMAIN log = 1 .. old + Len(mine)
      /\ \A n \in 1 .. old : log[n] = before[n]
      /\ \A n \in DOMAIN log : n > old => n - old \in DOMAIN mine /\ log[n] = mine[n - old]
  BY <1>1, <1>5, ConcatProperties
<1> HIDE DEF old
<1>7. \A n \in DOMAIN log : log[n][1] = r <=> n > old
  BY <1>2, <1>3, <1>6
<1>8. \A n \in DOMAIN log : IsCounted(log[n])' /\ Over(log[n][1])'
  BY <1>1, <1>2, <1>3, <1>4, <1>6, SMTT(30)
<1>9. \A m, n \in DOMAIN log : m # n => log[m] # log[n]
  <2> SUFFICES ASSUME NEW m \in DOMAIN log, NEW n \in DOMAIN log, log[m] = log[n]
               PROVE  m = n
    OBVIOUS
  <2>1. CASE m <= old /\ n <= old
    BY <2>1, <1>4, <1>6
  <2>2. CASE m > old /\ n > old
    <3>1. m - old = n - old
      BY <2>2, <1>2, <1>6
    <3> QED BY <3>1, <1>6
  <2> QED BY <2>1, <2>2, <1>6, <1>7
<1>10. ASSUME NEW m \in DOMAIN log, NEW n \in DOMAIN log, m < n, log[m][1] = log[n][1]
       PROVE  \A k \in m .. n : log[k][1] = log[m][1]
  <2>1. CASE m > old
    BY <2>1, <1>6, <1>7, <1>10
  <2>2. CASE m <= old
    <3>1. n <= old
      BY <2>2, <1>6, <1>7, <1>10
    <3> QED BY <2>2, <3>1, <1>4, <1>6, <1>10
  <2> QED BY <2>1, <2>2, <1>6
<1>11. arrived' = log
  BY <1>1, <1>5
<1>12. ForwardedOnceWhole'
  BY <1>8, <1>9, <1>10, <1>11 DEF ForwardedOnceWhole
<1>13. ASSUME NEW q \in Requests, IsProtobuf(q), Over(q)', NEW k \in DOMAIN newSpans[q]
       PROVE  \E n \in DOMAIN log : log[n] = newSpans[q][k]
  <2>1. CASE q = r
    <3>1. k \in DOMAIN mine /\ newSpans[q][k] = mine[k]
      BY <1>0, <1>13, <2>1
    <3>2. old + k \in DOMAIN log /\ log[old + k] = mine[k]
      BY <3>1, <1>6
    <3> QED BY <3>1, <3>2
  <2>2. CASE q # r
    BY <2>2, <1>0, <1>1, <1>6, <1>13 DEF ForwardInv, ArrivedInv
  <2> QED BY <2>1, <2>2
<1>14. ArrivedInv'
  BY <1>1, <1>8, <1>11, <1>13 DEF ArrivedInv, IsProtobuf
<1> QED BY <1>12, <1>14

LEMMA NextForward == Inv /\ ForwardInv /\ [Next]_vars => ForwardInv'
<1> SUFFICES ASSUME Inv, ForwardInv, [Next]_vars PROVE ForwardInv'
  OBVIOUS
<1>1. /\ StatusInv' /\ GatheredInv'
      /\ \A id \in SpanIds : IsCounted(id) => IsCounted(id)'
  BY NextStatus, NextGathered DEF ForwardInv
<1>2. ASSUME arrived' = arrived PROVE ForwardedOnceWhole'
  <2>1. \A n \in DOMAIN arrived : arrived[n] \in SpanIds
    BY DEF Inv, TypeOK
  <2> QED BY <1>1, <1>2, <2>1 DEF ForwardInv, ForwardedOnceWhole
<1>3. ASSUME arrived' = arrived, newSpans' = newSpans, \A r \in Requests : Over(r)' <=> Over(r)
      PROVE  ArrivedInv'
  <2>1. \A n \in DOMAIN arrived : arrived[n][1] \in Requests
    BY SpanIdIndices DEF Inv, TypeOK
  <2> QED BY <1>3, <2>1 DEF ForwardInv, ArrivedInv, IsProtobuf
<1>4. ASSUME NEW r \in Requests, BufferSpans(r) PROVE ForwardInv'
  BY <1>1, <1>4, BufferForwards DEF ForwardInv
<1>5. ASSUME NEW r \in Requests, CountSpan(r) PROVE ForwardInv'
  <2>1. arrived' = arrived /\ pc' = pc /\ pc[r] = "spans"
    BY <1>5 DEF CountSpan
  <2>2. \A q \in Requests \ {r} : newSpans'[q] = newSpans[q]
    BY <1>5 DEF CountSpan, Inv, TypeOK
  <2>3. \A n \in DOMAIN arrived : arrived[n][1] \in Requests
    BY SpanIdIndices DEF Inv, TypeOK
  <2>4. ArrivedInv'
    BY <2>1, <2>2, <2>3 DEF ForwardInv, ArrivedInv, IsProtobuf, Over
  <2> QED BY <1>1, <1>2, <2>1, <2>4 DEF ForwardInv
\* A JSON handler is over with nothing gathered for the buffer.
<1>6. ASSUME NEW r \in Requests, FinishJSON(r) PROVE ForwardInv'
  <2>1. /\ arrived' = arrived /\ newSpans' = newSpans
        /\ \A q \in Requests : Over(q)' <=> Over(q) \/ q = r
    BY <1>6 DEF FinishJSON, Goto, Inv, TypeOK, Over
  <2>2. ~IsProtobuf(r)
    BY <1>6 DEF FinishJSON, Inv, AtAResource
  <2>3. \A n \in DOMAIN arrived : arrived[n][1] \in Requests
    BY SpanIdIndices DEF Inv, TypeOK
  <2>4. ArrivedInv'
    BY <2>1, <2>2, <2>3 DEF ForwardInv, ArrivedInv, IsProtobuf
  <2> QED BY <1>1, <1>2, <2>1, <2>4 DEF ForwardInv
<1>7. ASSUME NEW r \in Requests, RefuseBody(r) PROVE ForwardInv'
  <2>1. /\ arrived' = arrived /\ newSpans' = newSpans
        /\ \A q \in Requests : Over(q)' <=> Over(q) \/ q = r
    BY <1>7 DEF RefuseBody, Goto, Inv, TypeOK, Over
  <2>2. ~IsProtobuf(r)
    BY <1>7 DEF RefuseBody, IsProtobuf, Malformed
  <2>3. \A n \in DOMAIN arrived : arrived[n][1] \in Requests
    BY SpanIdIndices DEF Inv, TypeOK
  <2>4. ArrivedInv'
    BY <2>1, <2>2, <2>3 DEF ForwardInv, ArrivedInv, IsProtobuf
  <2> QED BY <1>1, <1>2, <2>1, <2>4 DEF ForwardInv
<1>8. ASSUME NEW r \in Requests,
             \/ ParseBody(r) \/ LockMetrics(r) \/ OpenResource(r) \/ CloseResource(r) \/ AnswerOK(r)
      PROVE  ForwardInv'
  <2>1. arrived' = arrived /\ newSpans' = newSpans
    BY <1>8 DEF ParseBody, LockMetrics, OpenResource, CloseResource, AnswerOK
  <2>2. \A q \in Requests : Over(q)' <=> Over(q)
    BY <1>8 DEF ParseBody, LockMetrics, OpenResource, CloseResource, AnswerOK, Goto, Inv,
       TypeOK, Over
  <2> QED BY <1>1, <1>2, <1>3, <2>1, <2>2 DEF ForwardInv
<1>9. CASE UNCHANGED <<arrived, newSpans, pc>>
  BY <1>1, <1>2, <1>3, <1>9 DEF ForwardInv, Over
<1> QED
  BY <1>4, <1>5, <1>6, <1>7, <1>8, <1>9
  DEF Next, Handle, CollectMetrics, CollectSpans, handlerVars, vars

LEMMA InitForward == Init => ForwardInv
<1> SUFFICES ASSUME Init PROVE ForwardInv
  OBVIOUS
<1>1. DOMAIN arrived = {} /\ \A r \in Requests : DOMAIN newSpans[r] = {}
  BY DEF Init
<1>2. \A id \in SpanIds : ~IsCounted(id)
  BY SpanIdIndices DEF Init, IsCounted
<1>3. StatusInv
  BY DEF Init, StatusInv, Over
<1> QED BY <1>1, <1>2, <1>3
        DEF ForwardInv, GatheredInv, GatheredBy, ArrivedInv, ForwardedOnceWhole

LEMMA Forwarding == Spec => [](Inv /\ ForwardInv)
<1>1. Init => ForwardInv
  BY InitForward
<1>2. Inv /\ ForwardInv /\ [Next]_vars => ForwardInv'
  BY NextForward
<1> QED BY <1>1, <1>2, Invariance, PTL DEF Spec

\* A span enters the forwarding buffer at most once and after it was counted, and
\* the spans of a request enter it together, however requests interleave and
\* collections empty it (otel_receiver.go:206, 232-319).
THEOREM SpansAreForwardedOnceWhole == Spec => []ForwardedOnceWhole
<1>1. ForwardInv => ForwardedOnceWhole
  BY DEF ForwardInv
<1> QED BY <1>1, Forwarding, PTL

\* A client that is answered 200 for a body that parses has every span of every
\* resource counted, and buffered if it sent protobuf; one that is answered an
\* error has none counted and may send the request again
\* (otel_receiver.go:182-203, 311-348).
THEOREM AnswersAreTruthful == Spec => []AnswerIsTruthful
<1>1. Inv /\ ForwardInv => AnswerIsTruthful
  <2> SUFFICES ASSUME Inv, ForwardInv, NEW r \in Requests, NEW id \in SpanIds, id[1] = r
               PROVE  /\ response[r] = 200 /\ Body[r].kind # "bad_json" => IsCounted(id)
                      /\ response[r] = 200 /\ IsProtobuf(r) =>
                             \E n \in DOMAIN arrived : arrived[n] = id
                      /\ response[r] >= 400 => ~IsCounted(id)
    BY DEF AnswerIsTruthful
  <2>1. /\ id[2] \in Nat /\ id[2] >= 1 /\ id[2] <= Len(Resources(r))
        /\ id[3] \in Nat /\ id[3] >= 1
    BY SpanIdIndices
  <2>2. ASSUME response[r] = 200, Body[r].kind # "bad_json" PROVE IsCounted(id) /\ Over(r)
    <3>1. Body[r].kind \in Parsed /\ Over(r)
      BY <2>2 DEF ForwardInv, StatusInv, Over
    <3>2. AtEnd(r)
      BY <3>1 DEF ForwardInv, StatusInv
    <3> QED BY <2>1, <3>1, <3>2 DEF AtEnd, IsCounted, Inv, TypeOK
  <2>3. ASSUME response[r] = 200, IsProtobuf(r)
        PROVE  \E n \in DOMAIN arrived : arrived[n] = id
    <3>1. IsCounted(id) /\ Over(r)
      BY <2>2, <2>3 DEF IsProtobuf
    <3>2. PICK k \in DOMAIN newSpans[r] : newSpans[r][k] = id
      BY <2>3, <3>1 DEF ForwardInv, GatheredInv, GatheredBy
    <3> QED BY <2>3, <3>1, <3>2 DEF ForwardInv, ArrivedInv
  <2>4. ASSUME response[r] >= 400 PROVE ~IsCounted(id)
    BY <2>1, <2>4 DEF ForwardInv, StatusInv, IsCounted
  <2> QED BY <2>2, <2>3, <2>4
<1> QED BY <1>1, Forwarding, PTL

=============================================================================
