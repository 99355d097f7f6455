----------------------------- MODULE K8sEvents -----------------------------
(***************************************************************************)
(* The Kubernetes event collector (src/k8s_events.go): a goroutine that    *)
(* watches the cluster's Event objects, dialling again whenever the watch  *)
(* ends, filters them, and appends the important ones to a bounded buffer; *)
(* and CollectMetrics, the call of the collection loop that turns the      *)
(* buffer into counts and empties it.                                      *)
(*                                                                         *)
(* The API server is the environment: a store of Event objects that        *)
(* appear, recur (a new version of the same object) and expire, and the    *)
(* stream of the current watch.  A watch with ResourceVersion "" starts    *)
(* with a synthetic Added for every object in the store.                   *)
(***************************************************************************)
EXTENDS BoundedSlice, FiniteSets, SequencesExt

CONSTANTS
    Events,       \* the Event objects of the cluster
    Stored,       \* those that are in the store when the agent starts
    TypeOf,       \* event -> its Type, "Warning" or "Normal"
    ReasonOf,     \* event -> its Reason
    MaxEvents,    \* events buffered before a trim (1000) ...
    KeepEvents,   \* ... and after it (500)
    MaxVersion,   \* bound: how often an event recurs
    MaxWatches    \* bound: how many watches the API server grants

Types == {"Warning", "Normal"}
Reasons == {ReasonOf[e] : e \in Events}

\* The reasons of the Normal events that isImportantEvent lets through.
ImportantReasons == {"Started", "Killing", "Preempting", "Scheduled", "SuccessfulCreate",
                     "ScalingReplicaSet", "Pulling", "Pulled"}

ASSUME EventsAssumption ==
    /\ IsFiniteSet(Events)
    /\ Stored \subseteq Events
    /\ TypeOf \in [Events -> Types]
    /\ DOMAIN ReasonOf = Events
ASSUME WindowAssumption ==
    /\ KeepEvents \in Nat \ {0} /\ MaxEvents \in Nat /\ KeepEvents <= MaxEvents
    /\ MaxVersion \in Nat \ {0}
    /\ MaxWatches \in Nat

VARIABLES
    \* the environment
    store,        \* the Event objects that exist -> their version
    expired,      \* those that existed once
    stream,       \* the notifications the current watch has yet to deliver
    streamOpen,   \* whether the current watch may deliver more
    watches,      \* how many watches the API server has granted
    ctxDone,      \* the agent's context is cancelled
    stopped,      \* stopCh is closed
    \* the collector
    pc,           \* where the watching goroutine is
    events,       \* the buffer, a sequence of <<event, version>>
    summary,      \* what the last CollectMetrics returned
    \* history
    arrived,      \* everything ever appended to events, in order
    taken         \* everything CollectMetrics ever took, in order

envVars == <<store, expired, ctxDone, stopped>>
vars == <<store, expired, stream, streamOpen, watches, ctxDone, stopped,
          pc, events, summary, arrived, taken>>

-----------------------------------------------------------------------------

Note(kind, e) == [type |-> kind, item |-> <<e, store'[e]>>]
ErrorNote == [type |-> "Error"]

\* Where the environment publishes a change: the open watch, if there is one.
Publish(note) == stream' = IF streamOpen THEN Append(stream, note) ELSE stream

\* What one CollectMetrics call returns.  Zero counts stand for metrics that
\* are not emitted.
Count(batch, these) == Cardinality({n \in DOMAIN batch : batch[n][1] \in these})
WithReason(reasons) == {e \in Events : ReasonOf[e] \in reasons}
Warnings == {e \in Events : TypeOf[e] = "Warning"}

\* A fault of Summary, for the mutants: the classes count an Event object once
\* however often it recurred.
SummaryOfObjects(batch) ==
    [counts |-> [k \in Types \X Reasons |->
                    Cardinality({e \in Events : /\ <<TypeOf[e], ReasonOf[e]>> = k
                                                /\ \E n \in DOMAIN batch : batch[n][1] = e})],
     warnings |-> Count(batch, Warnings),
     oom      |-> Count(batch, WithReason({"OOMKilling", "OOMKilled"})),
     evicted  |-> Count(batch, WithReason({"Evicted"})),
     unscheduled |-> Count(batch, WithReason({"FailedScheduling"})),
     crashloop   |-> Count(batch, WithReason({"BackOff"}))]

Summary(batch) ==
    [counts |-> [k \in Types \X Reasons |->
                    Count(batch, {e \in Events : <<TypeOf[e], ReasonOf[e]>> = k})],
     warnings |-> Count(batch, Warnings),
     oom      |-> Count(batch, WithReason({"OOMKilling", "OOMKilled"})),
     evicted  |-> Count(batch, WithReason({"Evicted"})),
     unscheduled |-> Count(batch, WithReason({"FailedScheduling"})),
     crashloop   |-> Count(batch, WithReason({"BackOff"}))]

Init ==
    /\ store = [e \in Stored |-> 1]
    /\ expired = {}
    /\ stream = << >>
    /\ streamOpen = FALSE
    /\ watches = 0
    /\ ctxDone = FALSE
    /\ stopped = FALSE
    /\ pc = "top"
    /\ events = << >>
    /\ summary = Summary(<< >>)
    /\ arrived = << >>
    /\ taken = << >>

-----------------------------------------------------------------------------
\* The environment: the cluster, the API server, the agent's shutdown.

Appear(e) ==
    /\ e \notin DOMAIN store \cup expired
    /\ store' = [f \in DOMAIN store \cup {e} |-> IF f = e THEN 1 ELSE store[f]]
    /\ Publish(Note("Added", e))
    /\ UNCHANGED <<expired, streamOpen, watches, ctxDone, stopped, pc,
                   events, summary, arrived, taken>>

Recur(e) ==
    /\ e \in DOMAIN store
    /\ store[e] < MaxVersion
    /\ store' = [store EXCEPT ![e] = @ + 1]
    /\ Publish(Note("Modified", e))
    /\ UNCHANGED <<expired, streamOpen, watches, ctxDone, stopped, pc,
                   events, summary, arrived, taken>>

\* An event expires after its time to live.  It does not come back.
Expire(e) ==
    /\ e \in DOMAIN store
    /\ store' = [f \in DOMAIN store \ {e} |-> store[f]]
    /\ expired' = expired \cup {e}
    /\ Publish([type |-> "Deleted", item |-> <<e, store[e]>>])
    /\ UNCHANGED <<streamOpen, watches, ctxDone, stopped, pc, events, summary, arrived, taken>>

\* The API server or the network ends the watch: what was under way may be
\* lost, and an Error notification may come last.
EndWatch ==
    /\ streamOpen
    /\ streamOpen' = FALSE
    /\ \E n \in 0 .. Len(stream), last \in {<< >>, <<ErrorNote>>} :
           stream' = SubSeq(stream, 1, n) \o last
    /\ UNCHANGED <<envVars, watches, pc, events, summary, arrived, taken>>

CancelContext ==
    /\ ~ctxDone
    /\ ctxDone' = TRUE
    /\ UNCHANGED <<store, expired, stream, streamOpen, watches, stopped, pc,
                   events, summary, arrived, taken>>

\* Agent.shutdown, which Run calls when it sees the context cancelled.
Stop ==
    /\ ctxDone
    /\ ~stopped
    /\ stopped' = TRUE
    /\ UNCHANGED <<store, expired, stream, streamOpen, watches, ctxDone, pc,
                   events, summary, arrived, taken>>

-----------------------------------------------------------------------------
\* The watching goroutine.

\* A fault of CheckStop: it does not look at the context.
CheckStopChannelOnly ==
    /\ pc = "top"
    /\ pc' = IF stopped THEN "exited" ELSE "dial"
    /\ UNCHANGED <<envVars, stream, streamOpen, watches, events, summary, arrived, taken>>

CheckStop ==
    /\ pc = "top"
    /\ pc' = IF stopped \/ ctxDone THEN "exited" ELSE "dial"
    /\ UNCHANGED <<envVars, stream, streamOpen, watches, events, summary, arrived, taken>>

\* A fault of Watch: it starts from now, without the events in the store.
WatchFromNow ==
    /\ pc = "dial"
    /\ ~ctxDone
    /\ watches < MaxWatches
    /\ watches' = watches + 1
    /\ streamOpen' = TRUE
    /\ stream' = << >>
    /\ pc' = "process"
    /\ UNCHANGED <<envVars, events, summary, arrived, taken>>

\* The watch starts with everything in the store, in the store's order.
Watch ==
    /\ pc = "dial"
    /\ ~ctxDone
    /\ watches < MaxWatches
    /\ watches' = watches + 1
    /\ streamOpen' = TRUE
    /\ \E order \in SetToSeqs(DOMAIN store) :
           stream' = [n \in DOMAIN order |->
                         [type |-> "Added", item |-> <<order[n], store[order[n]]>>]]
    /\ pc' = "process"
    /\ UNCHANGED <<envVars, events, summary, arrived, taken>>

WatchFails ==
    /\ pc = "dial"
    /\ pc' = "sleep"
    /\ UNCHANGED <<envVars, stream, streamOpen, watches, events, summary, arrived, taken>>

WakeUp ==
    /\ pc = "sleep"
    /\ pc' = "top"
    /\ UNCHANGED <<envVars, stream, streamOpen, watches, events, summary, arrived, taken>>

\* A fault of isImportantEvent: a reason of warnings is on the Normal list.
isImportantEventWider(e) ==
    TypeOf[e] = "Warning" \/ ReasonOf[e] \in ImportantReasons \cup {"FailedScheduling"}

isImportantEvent(e) == TypeOf[e] = "Warning" \/ ReasonOf[e] \in ImportantReasons

\* A fault of addEvent: the entry keeps the zero value of the version.
addEventZeroed(item) ==
    /\ events' = KeepNewest(Append(events, <<item[1], 0>>), MaxEvents, KeepEvents)
    /\ arrived' = Append(arrived, <<item[1], 0>>)

addEvent(item) ==
    /\ events' = KeepNewest(Append(events, item), MaxEvents, KeepEvents)
    /\ arrived' = Append(arrived, item)

\* A fault of CountedTypes: an expiry counts as well.
CountedTypesWider == {"Added", "Modified", "Deleted"}

\* The notifications that say an event has happened, or has happened again.
CountedTypes == {"Added", "Modified"}

\* One notification: other types, and unimportant events, are dropped.
ProcessEvent ==
    /\ pc = "process"
    /\ stream # << >>
    /\ stream' = Tail(stream)
    /\ LET note == Head(stream)
       IN  IF note.type \in CountedTypes /\ isImportantEvent(note.item[1])
           THEN addEvent(note.item)
           ELSE UNCHANGED <<events, arrived>>
    /\ UNCHANGED <<envVars, streamOpen, watches, pc, summary, taken>>

\* processEvents returns when the channel is closed, or when it happens to
\* see the stop before a pending notification; it stops the watcher.
LeaveWatch ==
    /\ pc = "process"
    /\ \/ stream = << >> /\ ~streamOpen
       \/ stopped
       \/ ctxDone
    /\ pc' = "top"
    /\ stream' = << >>
    /\ streamOpen' = FALSE
    /\ UNCHANGED <<envVars, watches, events, summary, arrived, taken>>

-----------------------------------------------------------------------------
\* The collection loop.

\* A fault of CollectMetrics: the buffer is not cleared.
CollectMetricsKeeping ==
    /\ summary' = Summary(events)
    /\ taken' = taken \o events
    /\ UNCHANGED <<envVars, stream, streamOpen, watches, pc, events, arrived>>

CollectMetrics ==
    /\ summary' = Summary(events)
    /\ taken' = taken \o events
    /\ events' = << >>
    /\ UNCHANGED <<envVars, stream, streamOpen, watches, pc, arrived>>

-----------------------------------------------------------------------------

watchEvents == CheckStop \/ Watch \/ WatchFails \/ WakeUp \/ ProcessEvent \/ LeaveWatch

Environment ==
    \/ \E e \in Events : Appear(e) \/ Recur(e) \/ Expire(e)
    \/ EndWatch
    \/ CancelContext
    \/ Stop

Next == Environment \/ watchEvents \/ CollectMetrics

\* The goroutine runs, and a dial that is tried again and again is granted
\* again and again (as far as MaxWatches lets it).
Fairness == WF_vars(watchEvents) /\ SF_vars(Watch)

Spec == Init /\ [][Next]_vars
FairSpec == Spec /\ Fairness

-----------------------------------------------------------------------------
\* The properties.

Items == Events \X (1 .. MaxVersion)
Notes == [type : {"Added", "Modified", "Deleted"}, item : Items] \cup {ErrorNote}

TypeOK ==
    /\ DOMAIN store \subseteq Events
    /\ \A e \in DOMAIN store : store[e] \in 1 .. MaxVersion
    /\ expired \subseteq Events \ DOMAIN store
    /\ stream \in Seq(Notes)
    /\ streamOpen \in BOOLEAN
    /\ watches \in 0 .. MaxWatches
    /\ ctxDone \in BOOLEAN
    /\ stopped \in BOOLEAN
    /\ pc \in {"top", "dial", "sleep", "process", "exited"}
    /\ events \in Seq(Items)
    /\ summary \in [counts : [Types \X Reasons -> Nat], warnings : Nat, oom : Nat,
                    evicted : Nat, unscheduled : Nat, crashloop : Nat]
    /\ arrived \in Seq(Items)
    /\ taken \in Seq(Items)

\* The buffer of events is a lossy buffer of the 1000 / 500 kind, whatever
\* watches end and start again between two collections: CollectMetrics takes
\* events in order, none twice, and only an overflow loses any.
Buffer == INSTANCE LossyBuffer
    WITH Limit <- MaxEvents, Kept <- KeepEvents, log <- arrived,
         head <- Len(arrived) - Len(events), taken <- taken
BufferSpec == Buffer!Spec

\* The numbers of one collection agree with each other although they come from
\* separate loops and separate lists of reasons: the warnings are the warning
\* classes, and every OOM kill, eviction, failed scheduling and back-off is
\* one of them, because isImportantEvent lets no Normal event with such a
\* reason into the buffer.
SummaryAddsUp ==
    /\ summary.warnings =
           MapThenSumSet(LAMBDA reason : summary.counts[<<"Warning", reason>>], Reasons)
    /\ summary.oom + summary.evicted + summary.unscheduled + summary.crashloop
           <= summary.warnings

\* Every event a collection takes is in exactly one of the counts it returns.
EveryTakenEventIsCounted ==
    [][Len(taken') > Len(taken) =>
          Len(taken') - Len(taken) =
              MapThenSumSet(LAMBDA k : summary'.counts[k], Types \X Reasons)]_vars

\* No gap: an important event, or its recurrence, that happens while the watch
\* is down or whose notification is lost when it ends is buffered in the end,
\* in that version or a later one, unless it expires first, the agent stops, or
\* the API server grants no more watches.
Seen(e, v) == \E n \in DOMAIN arrived : arrived[n][1] = e /\ arrived[n][2] >= v
NoGap ==
    \A e \in Events, v \in 1 .. MaxVersion :
        e \in DOMAIN store /\ store[e] = v /\ isImportantEvent(e)
            ~> \/ Seen(e, v)
               \/ e \notin DOMAIN store
               \/ ctxDone
               \/ watches = MaxWatches

\* After a shutdown the goroutine ends, from wherever it was: dialling,
\* sleeping, or in a watch that delivers nothing any more.
StopEndsWatching == ctxDone ~> pc = "exited"

\* An event is counted once per occurrence and watch at most, whether it recurs,
\* expires or was in the store when the watch began: what a single watch
\* delivers of it twice are different occurrences.
OncePerWatch ==
    \A n \in DOMAIN arrived :
        Cardinality({m \in DOMAIN arrived : arrived[m] = arrived[n]}) <= watches

\* README.md:220 says that k8s.oom_kills counts OOM kill events; an event that
\* is in the store when a watch starts again is counted again.
EachOccurrenceOnce ==
    \A m, n \in DOMAIN arrived : m # n => arrived[m] # arrived[n]

=============================================================================
