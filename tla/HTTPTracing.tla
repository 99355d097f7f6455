---------------------------- MODULE HTTPTracing ----------------------------
(***************************************************************************)
(* The HTTP tracer: the probes in the kernel and the collector in the      *)
(* agent, which share nothing but the ring buffer.                         *)
(***************************************************************************)
EXTENDS Integers, Sequences, SequencesExt

CONSTANTS
    Requests, Thread, Descriptor, Path, Recognised, Serial, Other, Duration,
    MaxInflight, MaxRing,                          \* see HTTPTrace
    None, MaxLatencies, KeepLatencies, MayStop,    \* see EBPFCollector
    Status,   \* request -> the status code of its answer
    Slices    \* slices of latencies longer than an instance gathers

ASSUME RequestsAssumption ==
    /\ Other \notin Requests /\ Recognised \subseteq Requests
    /\ Descriptor \in [Requests -> Nat] /\ Duration \in [Requests -> Nat]
    /\ DOMAIN Thread = Requests /\ DOMAIN Path = Requests
    /\ Status \in [Requests -> Nat]
ASSUME SlicesAssumption == Slices \subseteq Seq(Nat) \ {<< >>}
ASSUME LimitsAssumption ==
    /\ MaxInflight \in Nat /\ MaxRing \in Nat
    /\ MaxLatencies \in Nat /\ KeepLatencies \in 1 .. MaxLatencies
    /\ MayStop \in BOOLEAN

VARIABLES
    app, inflight, submitted, refused, dropped,    \* see HTTPTrace
    ring,
    pc, event, pathMetrics, stop, since, answers   \* EBPFCollector

kernelVars == <<app, inflight, submitted, refused, dropped>>
userVars == <<pc, event, pathMetrics, stop, since, answers>>
vars == <<kernelVars, ring, userVars>>

Paths == {Path[r] : r \in Requests}

Kernel == INSTANCE HTTPTrace
User == INSTANCE EBPFCollector

ASSUME NoneAssumption ==
    \A r \in Requests : \A x \in Requests \cup {Other} : Kernel!EventOf(r, x) # None

Init == Kernel!Init /\ User!Init

\* Stop detaches the probes when it has closed the reader; what they would
\* still put into the ring, nobody would read.
Probes == stop # "closed" /\ Kernel!Next /\ UNCHANGED userVars
Collector == User!Next /\ UNCHANGED kernelVars

Next == Probes \/ Collector

FairSpec == Init /\ [][Next]_vars /\ User!Fairness

-----------------------------------------------------------------------------
\* The properties.

RequestsOf(events) == [n \in DOMAIN events |-> events[n].request]

\* No variable leaves its type.
TypeOK ==
    /\ app \in [Requests -> {"new", "sent", "answered", "closed"}]
    /\ \A r \in Kernel!InFlight : r \in Recognised
    /\ Len(ring) <= MaxRing
    /\ refused \cup dropped \subseteq Requests
    /\ pc \in {"top", "read", "process", "exited"}
    /\ (event # None) = (pc = "process")
    /\ stop \in {"no", "signalled", "closed"}
    /\ DOMAIN pathMetrics \subseteq Paths
    /\ \A p \in DOMAIN pathMetrics : Len(pathMetrics[p].latencies) \in 1 .. MaxLatencies

\* Every event is in exactly one place, and in order: still in the ring, in the
\* reader's hand, counted and not reported, or reported; none is lost or
\* counted twice on its way, whatever the interleaving of probes, reader and
\* collections.
EventsAccounted ==
    LET hand == IF event = None THEN << >> ELSE <<event>>
        past == SubSeq(submitted, 1, Len(submitted) - Len(since \o hand \o ring))
    IN  /\ submitted = past \o since \o hand \o ring
        /\ answers = {past[n].request : n \in DOMAIN past}

\* Every event submitted is reported in the end, unless the agent stops: the
\* applications of an instance have finitely many requests.
EventuallyReported ==
    []<>(stop # "no" \/ answers = ToSet(RequestsOf(submitted)))

ReportedOnce == Kernel!ReportedOnce
SerialIsTraced == Kernel!SerialIsTraced
ReportIsRight == User!ReportIsRight
StopEndsReader == User!StopEndsReader

\* The two ways the agent computes percentiles agree, on the latencies gathered
\* and on longer slices, and what they compute are percentiles.
SlicesAgree ==
    \A s \in Slices :
        /\ User!calculateTracePercentiles(s) = User!calculatePercentiles(s)
        /\ User!ArePercentiles(User!calculatePercentiles(s), s)
PercentilesAgree == User!PercentilesAgree /\ SlicesAgree

\* ebpf.go:48 and :198 say that 4xx and 5xx answers are counted as errors.
ErrorsAreCounted ==
    \A p \in DOMAIN pathMetrics :
        User!ReportOf(pathMetrics[p]).errors =
            Len(SelectSeq(User!Of(since, p),
                          LAMBDA e : e.answer \in Requests /\ Status[e.answer] >= 400))

=============================================================================
