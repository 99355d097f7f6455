--------------------------- MODULE EBPFCollector ---------------------------
(***************************************************************************)
(* The user side of the HTTP tracer (src/ebpf.go): a goroutine reads the   *)
(* events from the ring buffer and counts them per method and path, the    *)
(* agent's loop collects the counts and resets them, and shutdown stops    *)
(* the reader.                                                             *)
(***************************************************************************)
EXTENDS Percentiles, BoundedSlice

CONSTANTS
    Paths,         \* the methods and paths of the events
    None,          \* no event
    MaxLatencies,  \* the latencies kept per path (10000) ...
    KeepLatencies, \* ... and to how many they are cut (5000)
    MayStop        \* whether the agent shuts down; main never does

VARIABLES
    ring,        \* the events the probes have submitted and no one has read
    pc,          \* the reader: "top", "read", "process" or "exited"
    event,       \* the event it has read, or None
    pathMetrics, \* path -> its PathMetrics
    stop,        \* Stop: "no", "signalled" (stopCh is closed), "closed"
    \* history
    since,       \* the events counted since the last collection
    answers      \* the requests of every event reported so far

vars == <<ring, pc, event, pathMetrics, stop, since, answers>>

Init ==
    /\ ring = << >>
    /\ pc = "top"
    /\ event = None
    /\ pathMetrics = [p \in {} |-> None]
    /\ stop = "no"
    /\ since = << >>
    /\ answers = {}

-----------------------------------------------------------------------------
\* readEvents.

Top ==
    /\ pc = "top"
    /\ pc' = IF stop = "no" THEN "read" ELSE "exited"
    /\ UNCHANGED <<ring, event, pathMetrics, stop, since, answers>>

\* A fault of Take: an event that does not decode is skipped (binary.Read), as
\* every one would if the two declarations of the event differed in size.
TakeUndecoded ==
    /\ pc = "read"
    /\ stop # "closed" /\ ring # << >>
    /\ ring' = Tail(ring)
    /\ \/ event' = Head(ring) /\ pc' = "process"
       \/ event' = None /\ pc' = "top"
    /\ UNCHANGED <<pathMetrics, stop, since, answers>>

\* Read waits for an event, for the reader to be closed, or fails otherwise.
Take ==
    /\ pc = "read"
    /\ stop # "closed" /\ ring # << >>
    /\ event' = Head(ring)
    /\ ring' = Tail(ring)
    /\ pc' = "process"
    /\ UNCHANGED <<pathMetrics, stop, since, answers>>
\* A fault of ReadFails: any failure ends the goroutine.
ReadFailsForGood ==
    /\ pc = "read"
    /\ stop # "closed"
    /\ pc' = "exited"
    /\ UNCHANGED <<ring, event, pathMetrics, stop, since, answers>>

ReadFails ==
    /\ pc = "read"
    /\ stop # "closed"
    /\ pc' = "top"
    /\ UNCHANGED <<ring, event, pathMetrics, stop, since, answers>>
SeeClosed ==
    /\ pc = "read"
    /\ stop = "closed"
    /\ pc' = "exited"
    /\ UNCHANGED <<ring, event, pathMetrics, stop, since, answers>>

Fresh == [count |-> 0, errors |-> 0, total |-> 0, latencies |-> << >>]

\* A fault of Counted: the latencies are not bounded.
CountedUnbounded(pm, e) ==
    [count     |-> pm.count + 1,
     errors    |-> IF e.status >= 400 THEN pm.errors + 1 ELSE pm.errors,
     total     |-> pm.total + e.duration,
     latencies |-> Append(pm.latencies, e.duration)]

\* Another: they are cut as soon as they are as many as the limit.
CountedCutAtLimit(pm, e) ==
    [count     |-> pm.count + 1,
     errors    |-> IF e.status >= 400 THEN pm.errors + 1 ELSE pm.errors,
     total     |-> pm.total + e.duration,
     latencies |-> KeepNewest(Append(pm.latencies, e.duration), MaxLatencies - 1, KeepLatencies)]

\* The metrics of a path, and one event more.
Counted(pm, e) ==
    [count     |-> pm.count + 1,
     errors    |-> IF e.status >= 400 THEN pm.errors + 1 ELSE pm.errors,
     total     |-> pm.total + e.duration,
     latencies |-> KeepNewest(Append(pm.latencies, e.duration), MaxLatencies, KeepLatencies)]

\* processEvent, under metrics.mu.
Process ==
    /\ pc = "process"
    /\ LET p == event.path
           old == IF p \in DOMAIN pathMetrics THEN pathMetrics[p] ELSE Fresh
       IN  pathMetrics' = [q \in DOMAIN pathMetrics \cup {p} |->
                              IF q = p THEN Counted(old, event) ELSE pathMetrics[q]]
    /\ since' = Append(since, event)
    /\ event' = None
    /\ pc' = "top"
    /\ UNCHANGED <<ring, stop, answers>>

Reader == Top \/ Take \/ ReadFails \/ SeeClosed \/ Process

-----------------------------------------------------------------------------
\* The agent's loop.

\* What CollectMetrics says of a path; the percentiles are those of its samples.
ReportOf(pm) ==
    [count |-> pm.count, errors |-> pm.errors, total |-> pm.total,
     percentiles |-> calculatePercentiles(pm.latencies), samples |-> Len(pm.latencies)]

\* CollectMetrics, under metrics.mu: every path is reported (ReportOf) and
\* deleted.  The loop that calls it is the one that stops the collector.
CollectMetrics ==
    /\ stop = "no"
    /\ pathMetrics' = [p \in {} |-> None]
    /\ since' = << >>
    /\ answers' = answers \cup {since[n].request : n \in DOMAIN since}
    /\ UNCHANGED <<ring, pc, event, stop>>

\* Stop: the channel is closed first, the reader and the probes after.
Signal ==
    /\ MayStop /\ stop = "no"
    /\ stop' = "signalled"
    /\ UNCHANGED <<ring, pc, event, pathMetrics, since, answers>>

\* A fault of CloseReader: it waits for the goroutine to be gone.
CloseReaderAfterExit ==
    /\ stop = "signalled"
    /\ pc = "exited"
    /\ stop' = "closed"
    /\ UNCHANGED <<ring, pc, event, pathMetrics, since, answers>>

CloseReader ==
    /\ stop = "signalled"
    /\ stop' = "closed"
    /\ UNCHANGED <<ring, pc, event, pathMetrics, since, answers>>

Next == Reader \/ CollectMetrics \/ Signal \/ CloseReader

\* The reader runs, and its reads do not fail for ever; the loop collects at
\* every tick, and a Stop once begun goes on.
Fairness ==
    /\ WF_vars(Top) /\ WF_vars(SeeClosed) /\ WF_vars(Process) /\ SF_vars(Take)
    /\ WF_vars(CollectMetrics) /\ WF_vars(CloseReader)

-----------------------------------------------------------------------------
\* The properties.

\* What there is to say about path p, from the events themselves.
Of(events, p) ==
    FoldLeft(LAMBDA found, e : IF e.path = p THEN Append(found, e) ELSE found, << >>, events)
DurationsOf(events) == [n \in DOMAIN events |-> events[n].duration]
SumOf(s) == MapThenSumSet(LAMBDA n : s[n], DOMAIN s)

\* Whenever the agent collects, its report covers exactly the events counted
\* since the collection before: their number and all their time, whatever was
\* cut from the latencies; the percentiles are those of all latencies as long as
\* no more than the limit came, and else of the newest, of no fewer than a cut
\* leaves.
ReportIsRight ==
    /\ DOMAIN pathMetrics = {since[n].path : n \in DOMAIN since}
    /\ \A p \in DOMAIN pathMetrics :
        LET durations == DurationsOf(Of(since, p))
            report == ReportOf(pathMetrics[p])
        IN  /\ report.count = Len(durations)
            /\ report.total = SumOf(durations)
            /\ \/ report.samples = Len(durations)
               \/ Len(durations) > MaxLatencies /\ report.samples >= KeepLatencies
            /\ ArePercentiles(report.percentiles,
                   SubSeq(durations, Len(durations) - report.samples + 1, Len(durations)))

\* The two ways the agent computes percentiles agree.
PercentilesAgree ==
    \A p \in DOMAIN pathMetrics :
        calculateTracePercentiles(pathMetrics[p].latencies)
            = calculatePercentiles(pathMetrics[p].latencies)

\* The reader's goroutine ends when the collector is stopped, wherever it was.
StopEndsReader == stop # "no" ~> pc = "exited"

=============================================================================
