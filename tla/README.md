# A formal model of cased-agent

cased-agent runs on every node of a Kubernetes cluster. It reads counters, watches events, traces HTTP
requests in the kernel and receives traces, and posts what it gathered to an API every 15 seconds. This
directory holds TLA+ modules that model its parts, TLC configurations that check them on small instances, and
theorems about them that TLAPS proves.

To check it: `tlc -config OTelReceiver_exports.cfg MCOTelReceiver.tla`, and so on for each run below; `tlapm
OTelReceiverProofs.tla`, and so on, for the proofs. `PROJECT.json` ties every definition to the lines it
models and every property to a mutation of the model that breaks it.

## 1. The system

| Component | Source | State | Operations | Hard part |
|---|---|---|---|---|
| Collection loop | `main.go` 261-401, 1126-1188 | `ready`, the ticker, the metrics of one round | `Run`, `collectAndSend`, `collectMetrics`, `sendBatch`, `sendSpans`, `shutdown` | posts that fail after the counters were reset; a list of pods without a deadline; early returns; shutdown against ticks |
| OpenTelemetry receiver | `otel_receiver.go` | `metrics` under `metrics.mu`, `spanBuffer` under `spanMu` | one handler goroutine per export, `CollectMetrics`, `CollectSpans`, `Stop` | lock taken and released by hand per resource; resets between two resources of a request; overflow |
| Kubernetes events | `k8s_events.go` | `events` under `mu`, `stopCh` | the watching goroutine, `CollectMetrics`, `Stop` | watches that end and start again; duplicates and gaps; stop while dialling or asleep |
| Container rates | `main.go` 597-745, 791-1081 | `prevStats`, `prevStatsTime` | `collectContainerStats`, `statsToMetrics` | stale samples, unreadable files, unsigned differences, keys cut from paths |
| Metadata enrichment | `main.go` 1083-1124 | none | a list and a look-up inside a collection | UIDs cut from paths whose form differs by pod class; a failing list |
| HTTP tracer, kernel side | `ebpf/http_trace.c` | `inflight_requests`, the ring `http_events` | `trace_send`, `trace_recv_exit` | pairing answers with requests; two full maps |
| HTTP collector, user side | `ebpf.go` | `PathMetrics` under a mutex, `stopCh` | `readEvents`, `processEvent`, `CollectMetrics`, `Stop` | a reader that blocks; resets against counting; trimmed latencies |
| Percentiles | `otel_receiver.go` 495-521, `ebpf.go` 307-327 | none | two pure functions | indices on short slices, a sort by hand |
| Node metrics | `main.go` 403-595 | none | three readers of `/proc` | division by zero: one NaN makes a whole batch unmarshalable |
| cgroup v1, health server, configuration | `main.go` | `ready` | another walk, two probes, flags | - |
| Deployment, demo | `install.sh`, `deploy/`, `Dockerfile`, `demo_web.py`, ... | - | - | - |

How they interact. `Run` owns one goroutine, the loop. At each tick it calls the collectors one after the
other: node and container metrics are read on the spot, the pods are listed by the Kubernetes API, and the
event, HTTP and trace collectors hand over what their own goroutines have accumulated and reset it, each under
its own mutex. The loop then posts the metrics in batches, takes the receiver's buffered spans and posts
those. A failed post is logged and its data dropped. The HTTP collector's goroutine and the probes in the
kernel share nothing but a ring buffer. Nothing is persisted. `main` passes `context.Background()`, so in the
program the context is never cancelled; the models still include cancellation, because `Run`, `watchEvents`,
`processEvents` and the `Stop` methods are written for it.

What makes each part correct:

* receiver: every span is counted in exactly one interval; it is buffered at most once, in order; the answer
  tells the client the truth; the lock is always released;
* events: no event is missed because a watch ended; nothing is counted in two collections or twice by one
  watch; the counts agree; a stop stops;
* rates: a rate is the growth of one container's counter over one interval, under the name of its own pod;
* tracer: a request is reported once; a thread with one exchange at a time gets each of its answers reported
  for the request it answers; every event lands in one report;
* loop: what a collection took is posted once or lost in one failed post; the loop comes back; a cancelled
  context stops it; the readiness probe means what it says.

The hazards behind these properties, each at its line, are listed in `PROJECT.json`.

## 2. The modules

| Module | Models | Kind |
|---|---|---|
| `BoundedSlice` | `if len(s) > max { s = s[len(s)-keep:] }`, used by three collectors | operator |
| `LossyBuffer` | what a bounded buffer promises its reader | abstract specification |
| `OTelReceiver` | the receiver | component, implements `LossyBuffer` |
| `K8sEvents` | the event collector and the API server it watches | component, implements `LossyBuffer` |
| `CgroupPaths` | what is a container's cgroup, and the UID and ID in its path | operators |
| `ContainerRates` | one collection's reading of containers, their pods' names, the rates | component |
| `Percentiles` | both percentile functions, and percentiles by counting | operators |
| `HTTPTrace` | the probes, and the applications they watch | component |
| `EBPFCollector` | the reader of the ring, the counts, `Stop` | component |
| `HTTPTracing` | `HTTPTrace` and `EBPFCollector` on one ring, by `INSTANCE` | composition |
| `NodeMetrics` | the readers of `/proc` | operators |
| `CasedAgent` | the loop, composed with `OTelReceiver` by `INSTANCE`, over `NodeMetrics` | composition, implements `OTelReceiver` |
| `MC*` | instances for TLC | |
| `DataLemmas` | - | lemmas on bounded slices, sums, folds, and induction |
| `*Proofs` | - | theorems about the module they are named for |

The operators named "A fault of ..." (they stand just before the definition they spoil) are not part of the
specifications: nothing refers to them. They are the mutations under which each property must fail.

### OTelReceiver

The unit of atomicity is one iteration of a handler's loops: `pc[r]` says where the handler of request `r` is,
`resource[r]` and `nextSpan[r]` are its two loop indices. `LockMetrics` .. `CloseResource` are the body of the
protobuf loop; a JSON request takes the lock once and releases it in `FinishJSON`. Inside the lock single
spans are still steps of their own, so that a collection that did not take the lock would be seen to
interfere. `BufferSpans` and `CollectSpans` hold `spanMu` only within one step. `Body` says what each request
carries; attributes and scopes are abstracted, a span is a duration and an error flag. Durations are unsigned
differences reinterpreted as `int64`, and their sum wraps (`AsDuration`). `reported`, `arrived` and `outSpans`
are history.

### K8sEvents

The environment holds a `store` of Event objects with versions and the `stream` of the current watch.
`EndWatch` cuts the stream anywhere. A new watch replays the store, as a watch with `ResourceVersion ""` does.
`pc` follows `watchEvents` through its select, the dial, the sleep and `processEvents`. `Summary` computes
what `CollectMetrics` emits; a metric that is not emitted stands as a zero.

### CgroupPaths and ContainerRates

A path is a sequence of directories, and a directory's name a sequence of the words it is made of, so that
trimming a prefix from a name is trimming words from a sequence; `UIDIn` tries the four prefixes in the code's
order, cuts `.slice` off and turns the slice's spelling of a UID back into the UID (`Escapes`). `PathInClass`
and `PathGuaranteed` are the paths the kubelet and containerd make under systemd, of any UID and any container
ID; the instances and the theorems are about these.

The loop's goroutine is alone, so a conversion pass has no concurrency; its steps (`CollectStats`,
`ConvertStat` per container, `FinishPass`) are interleaved with containers that start, work and stop. A stat
carries its owner, life and age and the files that could be read besides its counters: they are what the
properties compare. In each collection any file may be unreadable and the list of pods may fail, up to
`MaxFailures` together; a container that stopped may start again under its key, from zero, up to `MaxLives`
times. Counters are unsigned (`Delta`).

### HTTPTrace, EBPFCollector, HTTPTracing

`trace_send` and `trace_recv_exit` are the two probes, as operators that say what they do to `inflight` and
`ring`; the actions `Send`, `RecvAnswer`, `RecvPart`, `RecvOther` and `Abandon` are what applications do,
which the probes see (or, in `Abandon`, do not). A request is a name with a thread, a descriptor and a path;
`Recognised` are those with a known method and at most 256 bytes. An event carries the request it came from
and the bytes that were taken for its answer (`answer`): the code keeps neither, and they are what
`SerialIsTraced` compares.

The reader's `pc` is its place in `readEvents`: before the select (`"top"`), in `Read` (`"read"`), with an
event in hand (`"process"`). `Take` decodes too: the two declarations of the event agree in size and order, so
`binary.Read` does not fail. `Stop` is two steps, the channel and then the reader; detaching the probes is
part of the second (`Probes` stop when it is done). Latencies are trimmed by the `KeepNewest` of the other
collectors.

`Percentiles` has both functions. The exchange sort is two folds over `Exchange`, as the code writes it; of
`sort.Slice` (`SortedSlice`) there is what it returns, by counting: its `k`-th element is the one with fewer
than `k` elements below it and `k` at least not above it. `ArePercentiles` says in the same terms what a
percentile is. The slices an instance gathers are short, so `PercentilesAgree` compares the two functions,
with each other and with that definition, on the slices of the constant `Slices` as well: every one of up to
five durations out of three, and one of twelve. `PercentilesProofs` has them for all slices.

### NodeMetrics and CasedAgent

A value of a node metric is a quotient; `Finite` is whether JSON has it. A file of `/proc` is the sequence of
its lines, an empty one a file that cannot be read, whose metrics are left out; `net/dev` without an interface
that counts gives six zeros. The kernel always writes the two header lines of `net/dev`: text of one line
without an end, at which `lines[2:]` (`main.go:567`) would panic, is not modelled. `loop` follows `Run`,
`collectAndSend` and `collectMetrics`; `ListHangs` is a list of pods that nobody answers, `SeeCancel` the end
of its context and `LateAnswer` an answer after all. Each post is one step whose outcome the API chooses, but
for a batch with a number that JSON does not have or a cancelled context, which fails. A post the API took but
whose answer was lost looks like a failure to the agent, which does the same in both cases. `CollectTraces`
and `TakeSpans` are `Receiver!CollectMetrics` and `Receiver!CollectSpans` plus what the loop does with the
result; handlers run as in `OTelReceiver` until the process exits. The metrics of containers, events and HTTP
are any number of anonymous ones out of `Others`.

## 3. The runs

| Run | Instance | Shows |
|---|---|---|
| `otel_exports` | two protobuf exports and one JSON export of two services, an empty export and one that does not parse; bounds 2/1 durations and 3/2 spans, `int64` of 3 bits; fair | lock discipline, span and duration accounting, truthful answers, refinement of `LossyBuffer`; handlers answer, counts are reported |
| `otel_json` | one good export and one whose JSON does not parse | *violated*: it is answered 200 |
| `k8s_watch` | two events, one in the store at the start, two versions, a buffer of 2/1, three watches; fair | the buffer implements `LossyBuffer`; counts agree; no gap; an occurrence is counted once per watch; a stop stops |
| `k8s_once` | two events, two watches | *violated*: events are counted again |
| `rates` | two containers of two pods, two ways to work, two lives each, one failure per collection | samples are of the same container and one interval apart; a rate is the growth, and growth gives a rate unless it is a CPU rate above the cap or a first CPU time; the guards work; names are right |
| `rates_keys`, `rates_pods` | two `docker/<id>` cgroups; a Burstable and a Guaranteed pod | *violated*: see section 5 |
| `http` | four requests of a serial thread and of one with two connections, an in-flight map and a ring of two, latencies of 2/1, failing reads, a stop; fair | requests are reported once; the serial thread's with their answers; each event in one report; the reports; a stop ends the reader |
| `http_errors` | the same | *violated*: a 404 is no error |
| `agent_loop` | two protobuf exports, node metrics absent or not numbers, batches of 5, an API that may fail, a list that may hang, a cancellation; fair | what is taken is posted once or lost once, with its own batch and for that batch's own reason; rounds end unless the list hangs; the agent stops |
| `agent_live` | two exports and a malformed one, a full `/proc` and one other metric per round, fair | the loop serves the receiver |
| `agent_ready` | one export, no other metric | *violated*: see section 5 |

Why the bounds are enough. The slices trim to a half by the same operator at any size; the instances overflow
each of them and leave room for one that does not. The lock and the counters are shared, so two services and
three overlapping handlers give every pair of conflicting steps and a third party; a request with two
resources of the same service and one of an empty resource cover the loop's cases. Durations of 3 bits wrap
both on conversion and in the sum. A batch of 5 cuts the receiver's metrics of two services (3 or 6 each, in
either order) within a service and lets a batch that cannot be encoded stand beside one that can. Two watches
make one gap; `k8s_watch` has three because `NoGap` is only claimed before the last, and an event that is
dropped as unimportant beside one that is kept. `MaxCount` and `MaxPause` bound the work of containers and the
pauses between collections, `CounterLimit` (8) is a 64-bit word of three bits; a counter that grows to 3, two
collections with a different interval, a restart and one unreadable file between them are what the properties
need, and one failure per collection is enough, since a rate looks at one file of one container. With one core
(`MaxCores`) and an interval of two the growth of the CPU time is within one core's, between that and the cap
(`MaxCores * Interval`), and above the cap. In `http` both threads use descriptor 9, the last that is tried,
one of them 5 as well, so that keys must tell threads apart and the lower descriptor may be the wrong one;
with room for two of four requests and two of four events both maps fill. Of latencies bounded by 2/1 a path
gathers fewer than the limit, just the limit, at which nothing may be cut yet, and more. All bounds are
constants of the modules.

Deadlock checking is off where the system may stop: the agent after a cancellation, the tracer after `Stop`
when the applications are done. Elsewhere requests are finite in number, but the two collecting calls (and the
ticker) never end.

Fairness. Goroutines that can run do: each started handler, the loop, the watching goroutine, the reader of
the ring, weakly. `sync.Mutex` hands over to a waiter in its starvation mode, and the number of requests is
finite, so weak fairness of the lock's takers is enough. The HTTP client's timeout of 30 s ends every post;
the Kubernetes client has no such timeout, so a list may hang: `LateAnswer` has no fairness. Go's select picks
among ready cases at random, which is strong fairness of the cancelled branch (`SF_vars(SeeDone)`).
`SF_vars(Watch)` says that the API server does not refuse every dial, `SF_vars(Take)` of `EBPFCollector` that
not every read of the ring fails. Clients and applications owe nothing: a request may never be sent.
`agent_live` checks `Receiver!FairSpec` in the composition: the fairness `OTelReceiver` assumes of its
collector is what the loop provides, as long as each round has some other metric and no list hangs.

## 4. What is proved

Each theorem holds for every value of its module's constants, under the assumptions the module names. Every
invariant and every action property of the passing runs is proved, and so are the three refinements; what is
left to TLC is liveness.

### Data

The provers cannot use an induction theorem that takes a predicate as a parameter, nor see into a fold.
`DataLemmas` goes round both. Induction is stated over sets: `CountingUp` and `SubsetInduction` speak of the
set of the indices, or of the parts of a finite set, of which something is true, and rest on `LeastNatural`,
that there is no least counterexample. `Total(g, S)`, the sum of a function over a finite set, is any function
on the parts of `S` that grows by `g[x]` with each `x`; that there is one, that it is unique and what happens
to it when elements are added are lemmas (`AdditiveExists`, `AdditiveUnique`, `TotalAdd`, `ClassesAddUp`), and
each component shows that the community modules' folds in its properties are such sums (`TotalIsFold`,
`TotalIsComputed`). A fold over a sequence is taken apart into its steps by `FoldStepsExist` (`RoundSteps`,
`SortSteps`, `OfSteps`), and then it is induction over the steps. The lemmas on bounded slices are
`KeepNewestOfAppend`, `KeepNewestAppends`, `EndsWithSubSeq`: that four separate pieces of code keep one
discipline is why they stand in a module of their own.

### Receiver (`OTelReceiverProofs`)

* `TypeCorrect`, `LockHeldByWalker`, `EntryNeverOrphaned` - the type invariant, the lock discipline, and that
  no collection deletes the entry under a handler. The three are one inductive invariant, `Inv`: an entry
  cannot vanish because the collection needs the lock, the handler holds the lock because of where it is, and
  where it is has to be inside its request (`AtAResource`), which is the strengthening.
* `NothingLostOrCountedTwice` - the reported counts plus the live ones are the spans walked past. The step
  that matters counts one span: exactly one identifier joins the counted ones (`CountCounted`), and closing a
  resource changes none (`CloseCounted`). The collection moves counts from one side of the sum to the other.
* `TotalsAreDurations` - the same for durations, which wrap on conversion and in the sum. Equality is not
  inductive, so `TotalsInv` says that what is held and what was walked past differ by a multiple of 2^64,
  which every wrap keeps.
* `EntriesStayConsistent` - the errors are among the spans, the durations kept are no more than those, and a
  service with a total has durations.
* `SpansAreForwardedOnceWhole`, `AnswersAreTruthful` - by `ForwardInv`, which follows a span from the
  handler's walk to the buffer: a handler gathers its own spans, each when it is counted (`GatheredInv`), they
  are in the log from the end of its walk on and not before (`ArrivedInv`), and an answered request was walked
  to its end (`StatusInv`).
* `SpanBufferIsLossyBuffer` - the refinement. Its invariant is that the buffer is a suffix of everything that
  arrived (`WaitingSpans`); `KeepNewestAppends` shows that appending and trimming keeps that and is a `Put`.

### Loop (`CasedAgentProofs`)

* `AgentImplementsReceiver` - a step of the agent is a step of the receiver or leaves it alone, so what is
  proved of the receiver holds in the composition. The theorems below use it: the receiver's `Inv` and
  `ForwardInv` are available to them.
* `AgentPostsSpansOnce` - by `PostedInv`: a span that arrived is in one place, the buffer, the batch the loop
  has taken, the API or the lost ones (`Places`), and behind what was posted before it (`Orders`).
* `AgentPostsSpanCountsOnce` - a sum over the metrics of a batch, over those still to be posted, and over what
  was delivered and lost. `lost` has only what is excused (`Excused`): batches whose own post failed, or that
  hold a metric which is no number themselves. `CountsInv` adds what makes it inductive: the metrics gathered
  before the receiver is asked hold no count of spans (`HostOnly`).
* `AgentTypeCorrect` - from both invariants.

### Events (`K8sEventsProofs`)

* `TypeCorrect`, and `EventBufferIsLossyBuffer` by the same invariant as the receiver's buffer (`Waiting`).
* `RepeatsComeFromWatches` - by `OnceInv`: an occurrence has been buffered no more often than there were
  watches, less often while the current watch has yet to deliver it, and the stream holds it once. What makes
  this inductive is that an occurrence nobody has made cannot be announced (`Known`).
* `CollectedCountsAddUp`, `TakenEventsAreCounted` - the counts of the classes sum up to the events taken and
  the warnings agree with them. `ImportantInv` says that only important events are in the buffer, without
  which a warning would have no class.

### Rates (`ContainerRatesProofs`)

* `TypeCorrect` - a difference of counters that went backwards included.
* `KeptAreCurrent` - by `KeptInv`: inside a pass the keys converted and those still pending are the keys of
  the containers found. It needs nothing of the keys: colliding ones are kept once.
* `RatesMatchTheirInterval`, `RatesCompareOneContainer`, `RatesAreSound`, `SoundRatesAreGrowth`,
  `GrowthIsNeverLost` - the five properties of rates, for any paths under which keys tell containers apart
  (`KeysAreUnique`, a hypothesis of each; `rates_keys` shows that `SameContainer` is false without). One
  invariant, `IInv`: `SamplesInv` says of every kept sample whose it is, that it is of this collection or of
  the last one by whether its key was already converted, and that each of its counters is what was true then,
  or zero if the file was not read; `TruthInv` that counters only grow within a life; `ReportedInv` that what
  was converted in this pass has its rates.
* `PodsAreNamedRightly` - in the paths of Burstable and BestEffort pods, whatever UID and container ID they
  spell, the cutting leaves the UID of the pod, so the name is the pod's, and present when the pod was listed.
  Its hypothesis is only the form of the paths (`InClass`, `InNoPod`): each of the four prefixes that are
  tried in turn is the slice's own or none of its words (`TrimNothing`, `TrimClass`, `SliceSpellsUID`), and
  the scope's directory, which is cut after it, is no pod's (`PathSpellsUID`). `NamesInv` takes it through a
  collection.
* `GuaranteedPodsStayUnnamed` - of a Guaranteed pod's slice none of the prefixes leaves a UID
  (`PathSpellsNoUID`), so its containers never get a name, whatever else is listed or runs: what `rates_pods`
  shows on an instance.

### Tracer (`HTTPTracingProofs`), in the composition with the collector

* `OneEventPerRequest` - whatever the applications do, because everything in flight was sent and lies under
  its own key (`InflightInv`), and what leaves the map never comes back.
* `SerialThreadsAreTraced` - for serial threads on descriptors below 10, which is an assumption of the
  theorem: `SentInv` says that what a serial thread waits for is in flight, unless the map refused it, and
  that nothing else of it is.
* `EventsAreAccounted` - by `PlaceInv`: what was submitted is what was reported, what is counted, what the
  reader has in its hand and what is in the ring, one after the other.
* `TracingTypes` - the types and the bounds of the maps, the ring and the latencies.
* `ReportsAreRight` - by `ReportInv`: of each path that has metrics, the count and the sum are those of all
  its durations since the last collection, and the latencies are the end of that sequence: all of it as long
  as it is no longer than the limit, else at least as many as a cut leaves. With `PercentilesArePercentiles`
  the report follows.
* `CollectedPercentilesAgree` - from `TheTwoSortsAgree`.

### Functions

`TheTwoSortsAgree` and `PercentilesArePercentiles` (`PercentilesProofs`), for slices of every length and any
integers: the exchange sort makes of a slice what `sort.Slice` makes of it, and both functions compute
percentiles. An exchange is a bijection of the indices, so it changes no count (`ExchangeKeepsCounts`); after
round `i` the first `i` elements are the smallest, in order (`Settled`, `RoundIs`); and there is only one
sorted slice with given counts (`SortedSliceIs`). `PercentilesInBounds` and `RankOfIndex` are about the
indices. `CPUPercentages` (`NodeMetricsProofs`): they are between 0 and 100, and numbers unless no time was
counted.

### Assumptions

`BodyAssumption`, `NobodyAssumption`, `BoundsAssumption` (receiver; `ReceiverAssumption` repeats them for the
receiver inside the loop), `HostAssumption`, `SizesAssumption`, `ProcFilesAssumption` (loop: a file of `/proc`
has finitely many lines), `EventsAssumption`, `WindowAssumption` (events), `WorkloadsAssumption`,
`ContainersAssumption`, `LimitsAssumption`, `CountersAssumption` (rates), `RequestsAssumption`,
`SlicesAssumption`, `LimitsAssumption`, `NoneAssumption` (tracer). TLC evaluates them in the runs. A trim
keeps at least one and no more than the limit, as 5000 of 10000 do; a container's throttled periods are among
its periods; a batch is not empty; the kernel's own counters do not wrap (`CountersAssumption`), which for 64
bits of nanoseconds takes centuries; `None` is no event.

### Only model-checked

Liveness: `Answered`, `EventuallyReported`, `NoGap`, `StopEndsWatching`, `StopEndsReader`,
`CancelStopsTheAgent`, `RoundsEnd` and `ReceiverIsServed`, for which no installed prover has the rules of
fairness. The container ID in a path, and the readers of `/proc` but for `CPUPercentages`, are exercised by
the runs: no theorem says what they compute.

## 5. Disagreements found

Each of these is a run that TLC must find violated; `PROJECT.json` quotes both sides.

* Receiver: JSON as exporters send it does not fit the receiver's types, and is answered 200.
* Events: they are counted again after every new watch while they are stored.
* Rates: all containers of `docker/<id>` cgroups share one key; the pods of class Guaranteed, whose slices are
  called `kubepods-pod<uid>.slice`, get no name.
* Tracer: no probe fills in the status code, so the error rate is always 0.
* Loop: `ready` is set after a collection that gathered nothing.

More were met on the way. The models contain the step each comes from, but no run is spent on them:

* the comment at `k8s_events.go:77` speaks of the events of the last five minutes; `ResourceVersion ""` on the
  next line delivers every stored event (`Stored`, `Watch`);
* nothing assigns a container's network counters (`ReadStats`), so the network rates of `main.go:1000` never
  exist;
* one failed read of `io.stat` makes the next disk rate the container's whole history: the disk rate lacks the
  guard the CPU rate has (`RatesOf`);
* a container that restarted under its key with more periods and fewer throttled ones than the last sample has
  a throttle percentage of about 10^19 (`Delta`): only the periods are guarded (`main.go:962`);
* the CPU percentages of the node are shares of the time since boot, not of the last interval: `readNodeCPU`
  keeps no previous sample;
* a kernel file of zeros (`total` or `MemTotal`) makes numbers that JSON does not have, and costs the other
  metrics of the same batch too (`Marshals`);
* a request of more than 256 bytes is not traced, nor one on a descriptor above 9 (`Recognised`, `Scanned`);
  an entry of the latter, or of a request that was never answered, stays in `inflight_requests` for ever
  (`Abandon`), and when the map is full nothing new is traced;
* an answer that a thread reads in pieces while it has a second request under way is taken for two answers
  (`RecvPart`): this is why `SerialIsTraced` speaks of threads that do not;
* an unanswered list of pods stops all collection, and `/readyz` goes on saying it is ready (`ListHangs`);
* a collection without metrics returns before it takes the spans (`CollectTraces`), which stay in the buffer:
  this is why `agent_live` lets every round have another metric.

## 6. Not modelled, and the plan

Left out for good: cgroup v1 (the same walk over other files, with two counters; its test for `docker` or
`cri-containerd` in the path matches none of the paths that its own comment, `main.go:795`, gives), the health
server (reads one flag), configuration, deployment and the demo service (no state machine), the stub of the
HTTP collector for other systems (does nothing), the bytes of requests and of metrics.

Next, in order:

1. `K8sEvents` and `EBPFCollector` inside `CasedAgent`, for the order of a shutdown, with the refinement of
   each by the composition.
2. The theorems about both components restated for that composition, as `AgentImplementsReceiver` does for the
   receiver.
