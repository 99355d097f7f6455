---------------------------- MODULE OTelReceiver ----------------------------
(***************************************************************************)
(* The OpenTelemetry receiver (src/otel_receiver.go): an HTTP server whose *)
(* handlers, one goroutine per request, add the spans of a trace export to *)
(* per-service counters under metrics.mu and, for protobuf exports, to a   *)
(* buffer of spans under spanMu; and the two calls of the collection loop  *)
(* that take from them, CollectMetrics and CollectSpans.                   *)
(*                                                                         *)
(* A handler holds metrics.mu while it walks one resource of a protobuf    *)
(* export (all of them for JSON), so a collection can fall between two     *)
(* resources of one request.  A step of a handler is one loop iteration.   *)
(***************************************************************************)
EXTENDS BoundedSlice, FiniteSets, FiniteSetsExt

CONSTANTS
    Requests,        \* the requests clients may send to /v1/traces
    Body,            \* what each request carries, see BodyAssumption
    Services,        \* the names a "service.name" attribute may have
    Nobody,          \* the holder of a mutex nobody holds
    MaxDurations,    \* durations kept per service before a trim (10000) ...
    KeepDurations,   \* ... and after it (5000)
    MaxSpans,        \* spans buffered before a trim (10000) ...
    KeepSpans,       \* ... and after it (5000)
    DurationLimit    \* a time.Duration is a signed integer below this (2^63)

Span == [duration : 0 .. 2 * DurationLimit - 1, error : BOOLEAN]
Resource == [service : Services, spans : Seq(Span)]

\* "protobuf" and "json" requests parse; the others fail on the way there.
Parsed == {"protobuf", "json"}
Malformed == {"not_post", "unreadable", "bad_protobuf", "bad_json"}

ASSUME BodyAssumption ==
    Body \in [Requests -> [kind : Parsed \cup Malformed, resources : Seq(Resource)]]
ASSUME NobodyAssumption == Nobody \notin Requests
ASSUME BoundsAssumption ==
    /\ KeepDurations \in Nat \ {0} /\ MaxDurations \in Nat /\ KeepDurations <= MaxDurations
    /\ KeepSpans \in Nat \ {0} /\ MaxSpans \in Nat /\ KeepSpans <= MaxSpans
    /\ DurationLimit \in Nat \ {0}

VARIABLES
    pc,              \* where each request's handler is
    resource,        \* index of the resource the handler is at
    nextSpan,        \* index of the next span of that resource
    newSpans,        \* the spans the handler will add to the buffer
    response,        \* the status code the handler wrote, 0 before it did
    metricsMu,       \* the handler that holds metrics.mu
    serviceMetrics,  \* metrics.ServiceMetrics: service -> its counters
    spanBuffer,      \* the spans waiting to be forwarded
    \* history
    reported,        \* service -> the sums of what CollectMetrics returned
    arrived,         \* every span ever appended to spanBuffer, in order
    outSpans         \* every span CollectSpans ever returned, in order

handlerVars == <<pc, resource, nextSpan, newSpans, response>>
vars == <<pc, resource, nextSpan, newSpans, response, metricsMu,
          serviceMetrics, spanBuffer, reported, arrived, outSpans>>

-----------------------------------------------------------------------------

Resources(r) == Body[r].resources
Current(r) == Resources(r)[resource[r]]
AtEnd(r) == resource[r] > Len(Resources(r))
IsProtobuf(r) == Body[r].kind = "protobuf"

Goto(r, there) == pc' = [pc EXCEPT ![r] = there]
Answer(r, code) == response' = [response EXCEPT ![r] = code]

\* An unsigned number, or a sum, of nanoseconds as the int64 it is stored in.
AsDuration(d) == ((d + DurationLimit) % (2 * DurationLimit)) - DurationLimit

NoMetrics == [spans |-> 0, errors |-> 0, total |-> 0, durations |-> << >>]

\* Faults of Counted, for the mutants: an error's duration is skipped; the
\* slice of durations is never trimmed.
CountedSkippingErrors(sm, span) ==
    [spans     |-> sm.spans + 1,
     errors    |-> sm.errors + (IF span.error THEN 1 ELSE 0),
     total     |-> IF span.error THEN sm.total ELSE AsDuration(sm.total + span.duration),
     durations |-> IF span.duration > 0 /\ ~span.error
                   THEN KeepNewest(Append(sm.durations, AsDuration(span.duration)),
                                   MaxDurations, KeepDurations)
                   ELSE sm.durations]
CountedUntrimmed(sm, span) ==
    [spans     |-> sm.spans + 1,
     errors    |-> sm.errors + (IF span.error THEN 1 ELSE 0),
     total     |-> AsDuration(sm.total + span.duration),
     durations |-> IF span.duration > 0
                   THEN Append(sm.durations, AsDuration(span.duration))
                   ELSE sm.durations]

\* The counters sm of a service after one more span.  A span that does not
\* end after it starts (duration 0) contributes no duration.
Counted(sm, span) ==
    [spans     |-> sm.spans + 1,
     errors    |-> sm.errors + (IF span.error THEN 1 ELSE 0),
     total     |-> AsDuration(sm.total + span.duration),
     durations |-> IF span.duration > 0
                   THEN KeepNewest(Append(sm.durations, AsDuration(span.duration)),
                                   MaxDurations, KeepDurations)
                   ELSE sm.durations]

Init ==
    /\ pc = [r \in Requests |-> "start"]
    /\ resource = [r \in Requests |-> 1]
    /\ nextSpan = [r \in Requests |-> 1]
    /\ newSpans = [r \in Requests |-> << >>]
    /\ response = [r \in Requests |-> 0]
    /\ metricsMu = Nobody
    /\ serviceMetrics = << >>
    /\ spanBuffer = << >>
    /\ reported = [s \in Services |-> [spans |-> 0, errors |-> 0, total |-> 0]]
    /\ arrived = << >>
    /\ outSpans = << >>

-----------------------------------------------------------------------------
\* The handler of request r.

\* A fault of RefuseBody: protobuf that does not parse is answered like JSON.
RefuseBodyPolitely(r) ==
    /\ pc[r] = "start"
    /\ Body[r].kind \in Malformed
    /\ Answer(r, CASE Body[r].kind = "not_post" -> 405
                   [] Body[r].kind = "unreadable" -> 400
                   [] OTHER -> 200)
    /\ Goto(r, "done")
    /\ UNCHANGED <<resource, nextSpan, newSpans, metricsMu, serviceMetrics,
                   spanBuffer, reported, arrived, outSpans>>

\* Wrong method, unreadable body, protobuf that does not parse: an error.
\* JSON that does not parse is answered 200.
RefuseBody(r) ==
    /\ pc[r] = "start"
    /\ Body[r].kind \in Malformed
    /\ Answer(r, CASE Body[r].kind = "not_post" -> 405
                   [] Body[r].kind = "bad_json" -> 200
                   [] OTHER -> 400)
    /\ Goto(r, "done")
    /\ UNCHANGED <<resource, nextSpan, newSpans, metricsMu, serviceMetrics,
                   spanBuffer, reported, arrived, outSpans>>

ParseBody(r) ==
    /\ pc[r] = "start"
    /\ Body[r].kind \in Parsed
    /\ Goto(r, "lock")
    /\ UNCHANGED <<resource, nextSpan, newSpans, response, metricsMu, serviceMetrics,
                   spanBuffer, reported, arrived, outSpans>>

\* A protobuf request locks metrics.mu for each resource, a JSON request
\* once, whatever it carries.
LockMetrics(r) ==
    /\ pc[r] = "lock"
    /\ IsProtobuf(r) => ~AtEnd(r)
    /\ metricsMu = Nobody
    /\ metricsMu' = r
    /\ Goto(r, "open")
    /\ UNCHANGED <<resource, nextSpan, newSpans, response, serviceMetrics,
                   spanBuffer, reported, arrived, outSpans>>

\* The entry of the resource's service is created if there is none, even
\* when the resource has no spans.
OpenResource(r) ==
    /\ pc[r] = "open"
    /\ ~AtEnd(r)
    /\ LET s == Current(r).service
       IN  serviceMetrics' = [t \in DOMAIN serviceMetrics \cup {s} |->
                 IF t \in DOMAIN serviceMetrics THEN serviceMetrics[t] ELSE NoMetrics]
    /\ Goto(r, "spans")
    /\ UNCHANGED <<resource, nextSpan, newSpans, response, metricsMu,
                   spanBuffer, reported, arrived, outSpans>>

\* A fault of CountSpan: the index has moved on when the span is stored.
CountSpanShifted(r) ==
    /\ pc[r] = "spans"
    /\ nextSpan[r] <= Len(Current(r).spans)
    /\ serviceMetrics' = [serviceMetrics EXCEPT ![Current(r).service] =
                              Counted(@, Current(r).spans[nextSpan[r]])]
    /\ nextSpan' = [nextSpan EXCEPT ![r] = @ + 1]
    /\ newSpans' = IF IsProtobuf(r)
                   THEN [newSpans EXCEPT ![r] =
                            Append(@, <<r, resource[r], nextSpan'[r]>>)]
                   ELSE newSpans
    /\ UNCHANGED <<pc, resource, response, metricsMu, spanBuffer, reported, arrived, outSpans>>

\* Only protobuf spans are kept for forwarding.
CountSpan(r) ==
    /\ pc[r] = "spans"
    /\ nextSpan[r] <= Len(Current(r).spans)
    /\ serviceMetrics' = [serviceMetrics EXCEPT ![Current(r).service] =
                              Counted(@, Current(r).spans[nextSpan[r]])]
    /\ newSpans' = IF IsProtobuf(r)
                   THEN [newSpans EXCEPT ![r] =
                            Append(@, <<r, resource[r], nextSpan[r]>>)]
                   ELSE newSpans
    /\ nextSpan' = [nextSpan EXCEPT ![r] = @ + 1]
    /\ UNCHANGED <<pc, resource, response, metricsMu, spanBuffer, reported, arrived, outSpans>>

\* Faults of CloseResource: it does not unlock; it flushes what the handler has
\* gathered so far, which the end of the request buffers again.
CloseResourceLocked(r) ==
    /\ pc[r] = "spans"
    /\ nextSpan[r] > Len(Current(r).spans)
    /\ resource' = [resource EXCEPT ![r] = @ + 1]
    /\ nextSpan' = [nextSpan EXCEPT ![r] = 1]
    /\ Goto(r, IF IsProtobuf(r) THEN "lock" ELSE "open")
    /\ UNCHANGED <<newSpans, response, metricsMu, serviceMetrics,
                   spanBuffer, reported, arrived, outSpans>>
CloseResourceFlushing(r) ==
    /\ pc[r] = "spans"
    /\ nextSpan[r] > Len(Current(r).spans)
    /\ resource' = [resource EXCEPT ![r] = @ + 1]
    /\ nextSpan' = [nextSpan EXCEPT ![r] = 1]
    /\ IF IsProtobuf(r)
       THEN Goto(r, "lock") /\ metricsMu' = Nobody
       ELSE Goto(r, "open") /\ UNCHANGED metricsMu
    /\ spanBuffer' = KeepNewest(spanBuffer \o newSpans[r], MaxSpans, KeepSpans)
    /\ arrived' = arrived \o newSpans[r]
    /\ UNCHANGED <<newSpans, response, serviceMetrics, reported, outSpans>>

\* A protobuf request unlocks between two resources, a JSON request does not.
CloseResource(r) ==
    /\ pc[r] = "spans"
    /\ nextSpan[r] > Len(Current(r).spans)
    /\ resource' = [resource EXCEPT ![r] = @ + 1]
    /\ nextSpan' = [nextSpan EXCEPT ![r] = 1]
    /\ IF IsProtobuf(r)
       THEN Goto(r, "lock") /\ metricsMu' = Nobody
       ELSE Goto(r, "open") /\ UNCHANGED metricsMu
    /\ UNCHANGED <<newSpans, response, serviceMetrics, spanBuffer, reported, arrived, outSpans>>

\* A fault of FinishJSON: a return without the unlock.
FinishJSONLocked(r) ==
    /\ pc[r] = "open"
    /\ AtEnd(r)
    /\ Goto(r, "answer")
    /\ UNCHANGED <<resource, nextSpan, newSpans, response, metricsMu, serviceMetrics,
                   spanBuffer, reported, arrived, outSpans>>

FinishJSON(r) ==
    /\ pc[r] = "open"
    /\ AtEnd(r)
    /\ metricsMu' = Nobody
    /\ Goto(r, "answer")
    /\ UNCHANGED <<resource, nextSpan, newSpans, response, serviceMetrics,
                   spanBuffer, reported, arrived, outSpans>>

\* The spans of all resources enter the buffer at once, under spanMu, which
\* nobody holds across two steps.
BufferSpans(r) ==
    /\ pc[r] = "lock"
    /\ IsProtobuf(r)
    /\ AtEnd(r)
    /\ spanBuffer' = IF newSpans[r] = << >> THEN spanBuffer
                     ELSE KeepNewest(spanBuffer \o newSpans[r], MaxSpans, KeepSpans)
    /\ arrived' = arrived \o newSpans[r]
    /\ Goto(r, "answer")
    /\ UNCHANGED <<resource, nextSpan, newSpans, response, metricsMu,
                   serviceMetrics, reported, outSpans>>

AnswerOK(r) ==
    /\ pc[r] = "answer"
    /\ Answer(r, 200)
    /\ Goto(r, "done")
    /\ UNCHANGED <<resource, nextSpan, newSpans, metricsMu, serviceMetrics,
                   spanBuffer, reported, arrived, outSpans>>

Handle(r) ==
    \/ LockMetrics(r) \/ OpenResource(r) \/ CountSpan(r) \/ CloseResource(r)
    \/ FinishJSON(r) \/ BufferSpans(r) \/ AnswerOK(r)

-----------------------------------------------------------------------------
\* The collection loop.

\* A fault of Reportable: a service with a single span is skipped.
ReportableFromTwo == {s \in DOMAIN serviceMetrics : serviceMetrics[s].spans > 1}

\* The services CollectMetrics reports: it skips, and keeps, an entry that
\* has no spans.
Reportable == {s \in DOMAIN serviceMetrics : serviceMetrics[s].spans > 0}

\* Faults of CollectMetrics: it does not lock; it does not reset.
CollectMetricsUnlocked ==
    /\ reported' = [s \in Services |->
           IF s \in Reportable
           THEN [spans  |-> reported[s].spans + serviceMetrics[s].spans,
                 errors |-> reported[s].errors + serviceMetrics[s].errors,
                 total  |-> reported[s].total + serviceMetrics[s].total]
           ELSE reported[s]]
    /\ serviceMetrics' = [s \in DOMAIN serviceMetrics \ Reportable |-> serviceMetrics[s]]
    /\ UNCHANGED <<handlerVars, metricsMu, spanBuffer, arrived, outSpans>>
CollectMetricsKeeping ==
    /\ metricsMu = Nobody
    /\ reported' = [s \in Services |->
           IF s \in Reportable
           THEN [spans  |-> reported[s].spans + serviceMetrics[s].spans,
                 errors |-> reported[s].errors + serviceMetrics[s].errors,
                 total  |-> reported[s].total + serviceMetrics[s].total]
           ELSE reported[s]]
    /\ UNCHANGED <<handlerVars, metricsMu, serviceMetrics, spanBuffer, arrived, outSpans>>

\* Every reportable service is returned and deleted, under metrics.mu.
CollectMetrics ==
    /\ metricsMu = Nobody
    /\ reported' = [s \in Services |->
           IF s \in Reportable
           THEN [spans  |-> reported[s].spans + serviceMetrics[s].spans,
                 errors |-> reported[s].errors + serviceMetrics[s].errors,
                 total  |-> reported[s].total + serviceMetrics[s].total]
           ELSE reported[s]]
    /\ serviceMetrics' = [s \in DOMAIN serviceMetrics \ Reportable |-> serviceMetrics[s]]
    /\ UNCHANGED <<handlerVars, metricsMu, spanBuffer, arrived, outSpans>>

\* A fault of CollectSpans: the buffer is not replaced.
CollectSpansKeeping ==
    /\ outSpans' = outSpans \o spanBuffer
    /\ UNCHANGED <<handlerVars, metricsMu, serviceMetrics, spanBuffer, reported, arrived>>

CollectSpans ==
    /\ outSpans' = outSpans \o spanBuffer
    /\ spanBuffer' = << >>
    /\ UNCHANGED <<handlerVars, metricsMu, serviceMetrics, reported, arrived>>

-----------------------------------------------------------------------------

Next ==
    \/ \E r \in Requests : RefuseBody(r) \/ ParseBody(r) \/ Handle(r)
    \/ CollectMetrics
    \/ CollectSpans

\* A client may never send its request; a handler that has started runs, and
\* the ticker keeps calling the collector.
Fairness ==
    /\ \A r \in Requests : WF_vars(Handle(r))
    /\ WF_vars(CollectMetrics)
    /\ WF_vars(CollectSpans)

Spec == Init /\ [][Next]_vars
FairSpec == Spec /\ Fairness

-----------------------------------------------------------------------------
\* The vocabulary of the properties.

\* The j-th span of the i-th resource of request r.
SpanIds ==
    UNION {UNION {{<<r, i, j>> : j \in DOMAIN Resources(r)[i].spans} :
                     i \in DOMAIN Resources(r)} : r \in Requests}
SpanOf(id) == Resources(id[1])[id[2]].spans[id[3]]
ServiceOf(id) == Resources(id[1])[id[2]].service

\* The spans the handlers have walked past, from where the handlers are.
IsCounted(id) ==
    \/ id[2] < resource[id[1]]
    \/ id[2] = resource[id[1]] /\ id[3] < nextSpan[id[1]]
CountedOf(s) == {id \in SpanIds : IsCounted(id) /\ ServiceOf(id) = s}
CountedErrorsOf(s) == {id \in CountedOf(s) : SpanOf(id).error}

\* The counters of service s since the last collection that returned them.
Live(s) == IF s \in DOMAIN serviceMetrics THEN serviceMetrics[s] ELSE NoMetrics

-----------------------------------------------------------------------------
\* The properties.

\* The variables have their types; an entry exists only for a service's name.
TypeOK ==
    /\ pc \in [Requests -> {"start", "lock", "open", "spans", "answer", "done"}]
    /\ resource \in [Requests -> Nat \ {0}]
    /\ nextSpan \in [Requests -> Nat \ {0}]
    /\ newSpans \in [Requests -> Seq(SpanIds)]
    /\ response \in [Requests -> {0, 200, 400, 405}]
    /\ metricsMu \in Requests \cup {Nobody}
    /\ DOMAIN serviceMetrics \subseteq Services
    /\ \A s \in DOMAIN serviceMetrics : serviceMetrics[s] \in
           [spans : Nat, errors : Nat, total : Int, durations : Seq(Int)]
    /\ spanBuffer \in Seq(SpanIds)
    /\ reported \in [Services -> [spans : Nat, errors : Nat, total : Int]]
    /\ arrived \in Seq(SpanIds)
    /\ outSpans \in Seq(SpanIds)

\* metrics.mu is held exactly by the handler that walks a resource: the
\* protobuf branch unlocks on every path round its loop, by hand, without a
\* defer (otel_receiver.go:219, 307).
LockDiscipline ==
    \A r \in Requests : metricsMu = r <=> pc[r] \in {"open", "spans"}

\* While a handler adds spans through the pointer it looked up, that entry is
\* the one in the map: a collection never deletes it under the handler, which
\* would count the rest of the resource into an orphan.
EntryStaysUnderHandler ==
    \A r \in Requests : pc[r] = "spans" => Current(r).service \in DOMAIN serviceMetrics

\* Across resets of the counters, no span and no error is lost or counted
\* twice: what was reported and what is about to be is, at every moment, what
\* the handlers have walked past.
SpanAccounting ==
    \A s \in Services :
        /\ reported[s].spans + Live(s).spans = Cardinality(CountedOf(s))
        /\ reported[s].errors + Live(s).errors = Cardinality(CountedErrorsOf(s))

\* The totals behind trace.duration_avg add up to the durations of the counted
\* spans, modulo the width of a time.Duration, whatever the trims removed from
\* the slice behind the percentiles.
DurationAccounting ==
    \A s \in Services :
        (reported[s].total + Live(s).total
            - MapThenSumSet(LAMBDA id : SpanOf(id).duration, CountedOf(s)))
        % (2 * DurationLimit) = 0

\* What CollectMetrics divides and sorts: errors are among the spans, there
\* are no more durations than spans or than the bound, and a service with a
\* non-zero total has durations to take percentiles of.
EntriesConsistent ==
    \A s \in DOMAIN serviceMetrics : LET sm == serviceMetrics[s] IN
        /\ sm.errors <= sm.spans
        /\ Len(sm.durations) <= sm.spans
        /\ Len(sm.durations) <= MaxDurations
        /\ sm.total # 0 => sm.durations # << >>

\* The status code tells the client the truth about a request that parses or
\* is refused with an error: 200 only after every span of every resource is
\* counted and, for protobuf, was put in the forwarding buffer; an error only
\* when nothing of it was.
AnswerIsTruthful ==
    \A r \in Requests : \A id \in {x \in SpanIds : x[1] = r} :
        /\ response[r] = 200 /\ Body[r].kind # "bad_json" => IsCounted(id)
        /\ response[r] = 200 /\ IsProtobuf(r) => \E n \in DOMAIN arrived : arrived[n] = id
        /\ response[r] >= 400 => ~IsCounted(id)

\* A span enters the forwarding buffer at most once, after it was counted, and
\* the spans of a request stay together in it however requests interleave.
ForwardedOnceWhole ==
    \A m, n \in DOMAIN arrived :
        /\ IsCounted(arrived[m])
        /\ m # n => arrived[m] # arrived[n]
        /\ m < n /\ arrived[m][1] = arrived[n][1] =>
               \A k \in m .. n : arrived[k][1] = arrived[m][1]

\* The span buffer is a lossy buffer of the 10000 / 5000 kind: CollectSpans
\* returns spans in order, none twice, and only an overflow loses any.
Buffer == INSTANCE LossyBuffer
    WITH Limit <- MaxSpans, Kept <- KeepSpans, log <- arrived,
         head <- Len(arrived) - Len(spanBuffer), taken <- outSpans
BufferSpec == Buffer!Spec

\* A handler that got past parsing writes its answer: no interleaving of
\* handlers and collections leaves metrics.mu held.
Answered == \A r \in Requests : pc[r] = "lock" ~> response[r] = 200

\* Counted spans are reported: no entry with spans stays in the map.
EventuallyReported ==
    \A s \in Services : Live(s).spans > 0 ~> Live(s).spans = 0

\* README.md:137-138 tells clients to export OTLP with http/json to the
\* receiver; the code answers 200 to JSON it cannot parse and drops it.
AnsweredSpansAreCounted ==
    \A r \in Requests : response[r] = 200 =>
        \A id \in {x \in SpanIds : x[1] = r} : IsCounted(id)

=============================================================================
