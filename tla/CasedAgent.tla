----------------------------- MODULE CasedAgent -----------------------------
(***************************************************************************)
(* The agent's loop (Run and collectAndSend, src/main.go) over the         *)
(* OpenTelemetry receiver: at every tick it gathers the metrics of all     *)
(* collectors, posts them in batches and then posts the buffered spans,    *)
(* while the receiver's handlers go on.                                    *)
(*                                                                         *)
(* The node's metrics are those of NodeMetrics; the other collectors       *)
(* (containers, Kubernetes events, HTTP), each with a module of its own,   *)
(* only contribute metrics here, as many or as few as they have.  The API  *)
(* is external: a post is accepted, or it fails from the agent's view      *)
(* whether or not the API has taken it.                                    *)
(***************************************************************************)
EXTENDS NodeMetrics, SequencesExt

CONSTANTS
    Requests, Body, Services, Nobody,     \* see OTelReceiver
    MaxDurations, KeepDurations, MaxSpans, KeepSpans, DurationLimit,
    Host,         \* the origin of the metrics of the other collectors
    ProcFiles,    \* what may be read from /proc, see NodeMetrics
    Others,       \* how many metrics containers, events and HTTP may have
    BatchSize,    \* config.BatchSize
    MayHang,      \* whether the Kubernetes API may leave a list unanswered
    MayCancel     \* whether Run's context may be cancelled; main never does

ASSUME HostAssumption == Host \notin Services
ASSUME SizesAssumption == BatchSize \in Nat \ {0} /\ Others \subseteq Nat
ASSUME ProcFilesAssumption == \A proc \in ProcFiles : IsFiniteSet(DOMAIN proc.meminfo)

VARIABLES
    pc, resource, nextSpan, newSpans, response, metricsMu,   \* see OTelReceiver
    serviceMetrics, spanBuffer, reported, arrived, outSpans,
    loop,        \* where the loop is
    metrics,     \* the metrics this collection gathered
    next,        \* the index i of collectAndSend: metrics[1..next] were posted
    spans,       \* the spans this collection took from the receiver
    ticked,      \* the ticker's channel, which holds one tick, holds it
    cancelled,   \* ctx is done
    ready,       \* Agent.ready
    \* history
    succeeded,   \* a collection has gathered a metric
    delivered,   \* service -> the span counts the API has taken
    lost,        \* service -> those in batches with a failed post or no number
    apiSpans,    \* the spans the API has taken, in order
    lostSpans    \* the spans posted that it has not

receiverVars == <<pc, resource, nextSpan, newSpans, response, metricsMu,
                  serviceMetrics, spanBuffer, reported, arrived, outSpans>>
historyVars == <<succeeded, delivered, lost, apiSpans, lostSpans>>
loopVars == <<loop, metrics, next, spans, ticked, cancelled, ready>>
vars == <<receiverVars, loopVars, historyVars>>

Receiver == INSTANCE OTelReceiver

\* What OTelReceiver assumes of the constants it shares with the agent.
ASSUME ReceiverAssumption ==
    /\ Body \in [Requests -> [kind : Receiver!Parsed \cup Receiver!Malformed,
                              resources : Seq(Receiver!Resource)]]
    /\ Nobody \notin Requests
    /\ KeepDurations \in Nat \ {0} /\ MaxDurations \in Nat /\ KeepDurations <= MaxDurations
    /\ KeepSpans \in Nat \ {0} /\ MaxSpans \in Nat /\ KeepSpans <= MaxSpans
    /\ DurationLimit \in Nat \ {0}

-----------------------------------------------------------------------------

\* The metrics of one service; those of its durations come only if it has any.
Names == <<"span_count", "error_rate", "duration_avg",
           "duration_p50", "duration_p95", "duration_p99">>
MetricsOf(s) ==
    [n \in 1 .. (IF serviceMetrics[s].durations = << >> THEN 3 ELSE 6) |->
        [of |-> s, name |-> Names[n], spans |-> serviceMetrics[s].spans, finite |-> TRUE]]

HostMetric(finite) == [of |-> Host, name |-> "host", spans |-> 0, finite |-> finite]

\* The span counts of service s among some metrics.
SpanCounts(ms, s) ==
    FoldSeq(LAMBDA m, n : IF m.of = s /\ m.name = "span_count" THEN n + m.spans ELSE n,
            0, ms)

\* The batch that starts after the first i metrics.
BatchFrom(i) == SubSeq(metrics, i + 1, Min({i + BatchSize, Len(metrics)}))

\* Whether the API takes a post.  The agent cannot tell a post that was lost
\* from one whose answer was, and only logs the error of either.  Once ctx is
\* done a post fails before it is sent.
Answers == IF cancelled THEN {FALSE} ELSE BOOLEAN

\* A fault of Marshals: the collection is encoded as a whole.
MarshalsAll(batch) == \A n \in DOMAIN metrics : metrics[n].finite

\* json.Marshal refuses a number that JSON does not have; nothing is sent then.
Marshals(batch) == \A n \in DOMAIN batch : batch[n].finite

Init ==
    /\ Receiver!Init
    /\ loop = "collect"
    /\ metrics = << >>
    /\ next = 0
    /\ spans = << >>
    /\ ticked = FALSE
    /\ cancelled = FALSE
    /\ ready = FALSE
    /\ succeeded = FALSE
    /\ delivered = [s \in Services |-> 0]
    /\ lost = [s \in Services |-> 0]
    /\ apiSpans = << >>
    /\ lostSpans = {}

-----------------------------------------------------------------------------
\* The runtime: the ticker drops a tick when its channel is full.

Tick ==
    /\ loop # "exited"
    /\ ~ticked
    /\ ticked' = TRUE
    /\ UNCHANGED <<receiverVars, loop, metrics, next, spans, cancelled, ready, historyVars>>

Cancel ==
    /\ MayCancel /\ ~cancelled
    /\ cancelled' = TRUE
    /\ UNCHANGED <<receiverVars, loop, metrics, next, spans, ticked, ready, historyVars>>

-----------------------------------------------------------------------------
\* The loop.  With a tick and a cancelled ctx, select takes either.

TakeTick ==
    /\ loop = "wait"
    /\ ticked
    /\ ticked' = FALSE
    /\ loop' = "collect"
    /\ UNCHANGED <<receiverVars, metrics, next, spans, cancelled, ready, historyVars>>

\* A fault of SeeDone: a tick that is there goes first.
SeeDoneAfterTicks ==
    /\ loop = "wait"
    /\ cancelled
    /\ ~ticked
    /\ loop' = "stopping"
    /\ UNCHANGED <<receiverVars, metrics, next, spans, ticked, cancelled, ready, historyVars>>

\* shutdown closes the receiver's listener and flushes nothing.
SeeDone ==
    /\ loop = "wait"
    /\ cancelled
    /\ loop' = "stopping"
    /\ UNCHANGED <<receiverVars, metrics, next, spans, ticked, cancelled, ready, historyVars>>

\* Shutdown returns when no handler runs, or after five seconds.
Exit ==
    /\ loop = "stopping"
    /\ loop' = "exited"
    /\ UNCHANGED <<receiverVars, metrics, next, spans, ticked, cancelled, ready, historyVars>>

\* The node's metrics as they may come, in any order (a map's): whether each of
\* them is a number.
NodeSeries ==
    UNION {LET node == collectNodeMetrics(proc)
               noNumbers == {m \in node : ~Finite(m.value)}
           IN  {[n \in 1 .. Cardinality(node) |-> n \notin at] :
                    at \in kSubset(Cardinality(noNumbers), 1 .. Cardinality(node))} :
           proc \in ProcFiles}

CollectNode ==
    /\ loop = "collect"
    /\ \E finite \in NodeSeries :
           metrics' = [n \in DOMAIN finite |-> HostMetric(finite[n])]
    /\ loop' = "pods"
    /\ UNCHANGED <<receiverVars, next, spans, ticked, cancelled, ready, historyVars>>

\* The metrics of containers, events and HTTP, none of a collector that fails,
\* when the list of pods that the containers' need is there or has failed.
CollectOthers ==
    /\ \E n \in Others : metrics' = metrics \o [i \in 1 .. n |-> HostMetric(TRUE)]
    /\ loop' = "traces"
    /\ UNCHANGED <<receiverVars, next, spans, ticked, cancelled, ready, historyVars>>

\* The list is asked for under ctx, which has no deadline: an API that is silent
\* holds the loop until ctx is done or the API answers after all.
ListPods ==
    /\ loop = "pods"
    /\ CollectOthers
ListHangs ==
    /\ loop = "pods"
    /\ MayHang /\ ~cancelled
    /\ loop' = "hung"
    /\ UNCHANGED <<receiverVars, metrics, next, spans, ticked, cancelled, ready, historyVars>>

\* A fault of SeeCancel: the list has a context of its own, never done.
SeeCancelNever == loop = "hung" /\ FALSE /\ CollectOthers

SeeCancel == loop = "hung" /\ cancelled /\ CollectOthers
LateAnswer == loop = "hung" /\ ~cancelled /\ CollectOthers

\* A fault of CollectTraces: it looks only at the receiver's own metrics.
CollectTracesAlone ==
    /\ loop = "traces"
    /\ Receiver!CollectMetrics
    /\ \E order \in SetToSeqs(Receiver!Reportable) :
           metrics' = metrics \o FlattenSeq([k \in DOMAIN order |-> MetricsOf(order[k])])
    /\ next' = 0
    /\ loop' = IF Receiver!Reportable = {} THEN "end" ELSE "send"
    /\ succeeded' = (succeeded \/ metrics' # << >>)
    /\ UNCHANGED <<spans, ticked, cancelled, ready, delivered, lost, apiSpans, lostSpans>>

\* The receiver's metrics, service by service in any order (a map's).  A
\* collection that gathered nothing ends there, before the spans.
CollectTraces ==
    /\ loop = "traces"
    /\ Receiver!CollectMetrics
    /\ \E order \in SetToSeqs(Receiver!Reportable) :
           metrics' = metrics \o FlattenSeq([k \in DOMAIN order |-> MetricsOf(order[k])])
    /\ next' = 0
    /\ loop' = IF metrics' = << >> THEN "end" ELSE "send"
    /\ succeeded' = (succeeded \/ metrics' # << >>)
    /\ UNCHANGED <<spans, ticked, cancelled, ready, delivered, lost, apiSpans, lostSpans>>

\* The span counts of a batch, added to those of others.
With(counts, batch) == [s \in Services |-> counts[s] + SpanCounts(batch, s)]

\* What may excuse the loss of a batch: its own post, or a metric of its own.
Excused(batch, taken) == ~taken \/ \E n \in DOMAIN batch : ~batch[n].finite

\* A batch whose post fails, or that cannot be encoded, is not posted again.
SendBatch ==
    /\ loop = "send"
    /\ next < Len(metrics)
    /\ \E taken \in Answers :
           LET batch == BatchFrom(next)
           IN  /\ delivered' = IF taken /\ Marshals(batch) THEN With(delivered, batch) ELSE delivered
               /\ lost' = IF Excused(batch, taken) THEN With(lost, batch) ELSE lost
    /\ next' = next + BatchSize
    /\ UNCHANGED <<receiverVars, loop, metrics, spans, ticked, cancelled, ready,
                   succeeded, apiSpans, lostSpans>>

TakeSpans ==
    /\ loop = "send"
    /\ next >= Len(metrics)
    /\ Receiver!CollectSpans
    /\ spans' = spanBuffer
    /\ loop' = IF spanBuffer = << >> THEN "end" ELSE "forward"
    /\ UNCHANGED <<metrics, next, ticked, cancelled, ready, historyVars>>

\* Faults of ForwardSpans: it keeps what it posted; it repeats a failed post.
ForwardSpansKeeping ==
    /\ loop = "forward"
    /\ \E taken \in Answers :
           IF taken
           THEN apiSpans' = apiSpans \o spans /\ lostSpans' = lostSpans
           ELSE lostSpans' = lostSpans \cup ToSet(spans) /\ apiSpans' = apiSpans
    /\ loop' = "end"
    /\ UNCHANGED <<receiverVars, metrics, next, spans, ticked, cancelled, ready,
                   succeeded, delivered, lost>>
ForwardSpansRetrying ==
    /\ loop = "forward"
    /\ \E taken \in Answers, failed \in BOOLEAN :
           /\ ~taken => failed
           /\ apiSpans' = IF taken THEN apiSpans \o spans ELSE apiSpans
           /\ spans' = IF failed THEN spans ELSE << >>
           /\ loop' = IF failed THEN "forward" ELSE "end"
    /\ UNCHANGED <<receiverVars, metrics, next, ticked, cancelled, ready,
                   succeeded, delivered, lost, lostSpans>>

\* All spans in one post, which is not repeated.
ForwardSpans ==
    /\ loop = "forward"
    /\ \E taken \in Answers :
           IF taken
           THEN apiSpans' = apiSpans \o spans /\ lostSpans' = lostSpans
           ELSE lostSpans' = lostSpans \cup ToSet(spans) /\ apiSpans' = apiSpans
    /\ spans' = << >>
    /\ loop' = "end"
    /\ UNCHANGED <<receiverVars, metrics, next, ticked, cancelled, ready,
                   succeeded, delivered, lost>>

\* A fault of EndRound: a tick that came meanwhile is taken before the select.
EndRoundEager ==
    /\ loop = "end"
    /\ loop' = IF ticked THEN "collect" ELSE "wait"
    /\ ticked' = FALSE
    /\ ready' = TRUE
    /\ UNCHANGED <<receiverVars, metrics, next, spans, cancelled, historyVars>>

\* collectAndSend returns; after the first call the agent is ready, whatever
\* that call did.
EndRound ==
    /\ loop = "end"
    /\ loop' = "wait"
    /\ ready' = TRUE
    /\ UNCHANGED <<receiverVars, metrics, next, spans, ticked, cancelled, historyVars>>

Loop ==
    \/ TakeTick \/ SeeDone \/ Exit
    \/ CollectNode \/ ListPods \/ ListHangs \/ SeeCancel
    \/ CollectTraces \/ SendBatch \/ TakeSpans \/ ForwardSpans \/ EndRound

-----------------------------------------------------------------------------
\* The handlers.  Once its listener is closed the receiver starts no more of
\* them, and none survives the process.

Accept(r) ==
    /\ loop \notin {"stopping", "exited"}
    /\ Receiver!RefuseBody(r) \/ Receiver!ParseBody(r)
    /\ UNCHANGED <<loopVars, historyVars>>

Serve(r) ==
    /\ loop # "exited"
    /\ Receiver!Handle(r)
    /\ UNCHANGED <<loopVars, historyVars>>

Next ==
    \/ Tick \/ Cancel \/ LateAnswer \/ Loop
    \/ \E r \in Requests : Accept(r) \/ Serve(r)

\* The ticker ticks, the loop runs unless it hangs (a post ends, by the client's
\* timeout, and sync.Mutex starves nobody), started handlers run, and select,
\* which draws at random, does not refuse the same channel for ever.
Fairness ==
    /\ WF_vars(Tick)
    /\ WF_vars(Loop)
    /\ SF_vars(SeeDone)
    /\ \A r \in Requests : WF_vars(Serve(r))

Spec == Init /\ [][Next]_vars
FairSpec == Spec /\ Fairness

-----------------------------------------------------------------------------
\* The properties.

\* The loop's variables have their types, the receiver's the types it states.
TypeOK ==
    /\ Receiver!TypeOK
    /\ loop \in {"collect", "pods", "hung", "traces", "send", "forward", "end", "wait", "stopping", "exited"}
    /\ metrics \in Seq([of : Services \cup {Host},
                        name : ToSet(Names) \cup {"host"}, spans : Nat, finite : BOOLEAN])
    /\ next \in Nat
    /\ spans \in Seq(Receiver!SpanIds) /\ (spans # << >> => loop = "forward")
    /\ {ticked, cancelled, ready, succeeded} \subseteq BOOLEAN
    /\ delivered \in [Services -> Nat] /\ lost \in [Services -> Nat]
    /\ apiSpans \in Seq(Receiver!SpanIds) /\ lostSpans \subseteq Receiver!SpanIds

\* Every span count that left the receiver was taken by the API exactly once,
\* or was in a batch whose own post failed or which itself held a metric that is
\* no number, or is still to be posted by this collection: batches neither
\* overlap nor skip a metric, and neither a failed post nor such a metric costs
\* the counts of any other batch.
SpanCountsArePosted ==
    \A s \in Services :
        reported[s].spans =
            delivered[s] + lost[s] +
            (IF loop = "send" THEN SpanCounts(SubSeq(metrics, next + 1, Len(metrics)), s)
             ELSE 0)

\* The API sees a span at most once, in the order of arrival, and a span it
\* never sees was lost by a failed post, waits, or was dropped by the buffer's
\* bound: each is in exactly one of those places.
SpansArePostedOnce ==
    LET places == <<ToSet(apiSpans), lostSpans, ToSet(spans), ToSet(spanBuffer)>>
        at(id) == CHOOSE n \in DOMAIN arrived : arrived[n] = id
    IN  /\ \A m, n \in DOMAIN places : m # n => places[m] \cap places[n] = {}
        /\ ToSet(outSpans) = ToSet(apiSpans) \cup lostSpans \cup ToSet(spans)
        /\ \A m, n \in DOMAIN apiSpans : m < n => at(apiSpans[m]) < at(apiSpans[n])

\* The loop is the collector the receiver's specification assumes: it calls
\* CollectMetrics and CollectSpans again and again, as long as the other
\* collectors gather something each time.
ReceiverIsServed == Receiver!FairSpec

\* The loop gets back to its select, where it would see a cancelled context,
\* unless the Kubernetes API leaves it hanging: no handler that holds
\* metrics.mu, no failing post and no tick that came during the collection
\* keeps it from there.
RoundsEnd == loop = "collect" ~> loop \in {"wait", "hung"}

\* When ctx is done the agent stops, whatever the ticker does and even if a list
\* of pods hangs.
CancelStopsTheAgent == cancelled ~> loop = "exited"

\* main.go:285 (and 237) says the agent is ready after its first successful
\* collection; the code sets ready also after one that gathered nothing.
ReadyAfterSuccess == ready => succeeded

=============================================================================
