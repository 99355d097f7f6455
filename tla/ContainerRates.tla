--------------------------- MODULE ContainerRates ---------------------------
(***************************************************************************)
(* Container metrics (src/main.go): one collection walks the cgroup tree   *)
(* for containers, reads the cumulative counters of each, looks its pod up *)
(* in a list the Kubernetes API returns, and turns the counters into rates *)
(* against the sample the previous collection kept under the same key, the *)
(* pod UID and the container ID cut out of the cgroup's path.  One         *)
(* goroutine does all of it; what moves are the containers.                *)
(***************************************************************************)
EXTENDS CgroupPaths, Integers, FiniteSets

CONSTANTS
    Containers,     \* the containers that may run on the node
    Path,           \* container -> the path of its cgroup
    PodOf,          \* container -> the UID of its pod, or NoPod
    NoPod,          \* the label of a metric without a pod
    Workloads,      \* how the counters of a container may grow, in one step
    MaxCores,       \* the CPU rate above which a metric is dropped (100 cores)
    CounterLimit,   \* counters are unsigned integers below this (2^64)
    MaxLives,       \* bound: how often a container starts under the same key
    MaxFailures,    \* bound: the reads and lists that fail in one collection
    MaxCount,       \* bound: containers work until a counter reaches it
    MaxPause        \* bound: the longest time between two collections

Fields == {"cpu", "periods", "throttled", "disk", "rx"}
Zero == [f \in Fields |-> 0]

ASSUME WorkloadsAssumption ==
    Workloads \subseteq {w \in [Fields -> Nat] : w.throttled <= w.periods}
ASSUME ContainersAssumption ==
    /\ DOMAIN Path = Containers /\ DOMAIN PodOf = Containers
    /\ IsFiniteSet(Containers)
ASSUME LimitsAssumption ==
    /\ MaxCores \in Nat /\ MaxLives \in Nat /\ MaxFailures \in Nat /\ MaxCount \in Nat /\ MaxPause \in Nat \ {0}
    /\ CounterLimit \in Nat \ {0}
\* The kernel's counters have the width of the agent's, and none wraps.
ASSUME CountersAssumption ==
    \A w \in Workloads, f \in Fields : MaxCount + w[f] <= CounterLimit

VARIABLES
    \* the environment
    counters,       \* running container -> its cgroup's cumulative counters
    life,           \* container -> how often it has started
    \* the collection loop
    pc,             \* "idle", or "convert" inside statsToMetrics
    elapsed,        \* now - prevStatsTime, since the last collection
    pending,        \* the stats statsToMetrics has yet to convert
    currentKeys,    \* the keys of those it has converted
    prevStats,      \* key -> the stat the last collection kept
    emitted,        \* the rates of this collection ...
    labels,         \* ... and its <<container, pod>> labels
    \* history
    listed,         \* the pods this collection got from the API
    truth,          \* container -> its counters at this collection ...
    truthBefore     \* ... and at the one before

node == <<counters, life>>
vars == <<counters, life, pc, elapsed, pending, currentKeys, prevStats, emitted,
          labels, listed, truth, truthBefore>>

Running == DOMAIN counters

-----------------------------------------------------------------------------
\* A stat carries, besides what the code stores, which container it was read
\* from, in which of its lives, which files could be read, and how long ago.

\* A file that cannot be read leaves zeros, without an error.  Nothing ever
\* assigns the network counters.
ReadStats(c, read) ==
    [cpu       |-> IF "cpu" \in read THEN counters[c].cpu ELSE 0,
     periods   |-> IF "cpu" \in read THEN counters[c].periods ELSE 0,
     throttled |-> IF "cpu" \in read THEN counters[c].throttled ELSE 0,
     disk      |-> IF "io" \in read THEN counters[c].disk ELSE 0,
     rx        |-> 0,
     owner     |-> c,
     life      |-> life[c],
     read      |-> read,
     pod       |-> NoPod,
     age       |-> 0]
Files == {"cpu", "io"}
FileOf(f) == IF f = "disk" THEN "io" ELSE "cpu"

\* The directories the walk takes for a container's.
Found == {c \in Running : IsContainer(Path[c])}

\* What the list of the node's pods contains: nothing when it fails.
AllPods == {PodOf[c] : c \in Containers} \ {NoPod}
Listings == {AllPods, {}}

\* How much fails when those files are read and those pods are listed.
Failures(read, pods) ==
    Cardinality({x \in Found \X Files : x[2] \notin read[x[1]]})
    + Cardinality({x \in {pods} : x # AllPods})

\* A stat gets the names of the pod whose UID it has, if that is listed.
enrichWithK8sMetadata(stat, pods) ==
    LET uid == PodUID(Path[stat.owner])
    IN  [stat EXCEPT !.pod = IF uid \in {<<pod>> : pod \in pods} THEN uid[1] ELSE NoPod]

\* The interval rates are divided by.
Interval == IF elapsed <= 0 THEN 1 ELSE elapsed

\* A fault of Delta, for the mutants: the operands are swapped.
DeltaSwapped(a, b) == b - a

\* a - b on uint64.
Delta(a, b) == (a - b) % CounterLimit

\* A rate carries, besides what is reported, what it compares: the container
\* and age of the previous sample, and whether its file was read both times, in
\* one life of the container.

Rate(name, prev, stat) ==
    [metric |-> name, container |-> stat.owner, value |-> Delta(stat[name], prev[name]),
     interval |-> Interval, base |-> prev.owner, age |-> prev.age,
     sound |-> prev.life = stat.life /\ FileOf(name) \in prev.read \cap stat.read]

\* Faults of RatesOf: the guard of the CPU is missing; its cap is one of the CPU
\* time and not of the rate.
RatesOfUnguarded(prev, stat) ==
    {Rate(name, prev, stat) : name \in
        {f \in {"cpu"} : /\ stat.cpu > prev.cpu
                         /\ Delta(stat.cpu, prev.cpu) <= MaxCores * Interval}
        \cup {f \in {"periods", "throttled"} : stat.periods > prev.periods}
        \cup {f \in {"rx", "disk"} : stat[f] > prev[f]}}
RatesOfCappedTime(prev, stat) ==
    {Rate(name, prev, stat) : name \in
        {f \in {"cpu"} : /\ prev.cpu > 0
                         /\ stat.cpu > prev.cpu
                         /\ Delta(stat.cpu, prev.cpu) <= MaxCores}
        \cup {f \in {"periods", "throttled"} : stat.periods > prev.periods}
        \cup {f \in {"rx", "disk"} : stat[f] > prev[f]}}

\* Which rates a container gets: every guard of statsToMetrics.
RatesOf(prev, stat) ==
    {Rate(name, prev, stat) : name \in
        {f \in {"cpu"} : /\ prev.cpu > 0
                         /\ stat.cpu > prev.cpu
                         /\ Delta(stat.cpu, prev.cpu) <= MaxCores * Interval}
        \cup {f \in {"periods", "throttled"} : stat.periods > prev.periods}
        \cup {f \in {"rx", "disk"} : stat[f] > prev[f]}}

Init ==
    /\ counters = [c \in {} |-> Zero]
    /\ life = [c \in Containers |-> 0]
    /\ pc = "idle"
    /\ elapsed = 0
    /\ pending = {}
    /\ currentKeys = {}
    /\ prevStats = [k \in {} |-> Zero]
    /\ emitted = {}
    /\ labels = {}
    /\ listed = {}
    /\ truth = [c \in {} |-> Zero]
    /\ truthBefore = [c \in {} |-> Zero]

-----------------------------------------------------------------------------
\* The containers of the node.  A collection that converts has read all it will
\* read, so that what containers do meanwhile commutes with its steps and is
\* left to when it is idle.

agent == <<pc, elapsed, pending, currentKeys, prevStats, emitted, labels, listed,
           truth, truthBefore>>

\* A container that stopped starts again, under the same key and from zero,
\* only where the runtime restarts containers in place.
StartContainer(c) ==
    /\ pc = "idle"
    /\ c \notin Running
    /\ life[c] < MaxLives
    /\ counters' = [d \in Running \cup {c} |-> IF d = c THEN Zero ELSE counters[d]]
    /\ life' = [life EXCEPT ![c] = @ + 1]
    /\ UNCHANGED agent

StopContainer(c) ==
    /\ pc = "idle"
    /\ c \in Running
    /\ counters' = [d \in Running \ {c} |-> counters[d]]
    /\ UNCHANGED <<life, agent>>

Work(c) ==
    /\ pc = "idle"
    /\ c \in Running
    /\ \A f \in Fields : counters[c][f] < MaxCount
    /\ \E w \in Workloads :
           counters' = [counters EXCEPT ![c] = [f \in Fields |-> @[f] + w[f]]]
    /\ UNCHANGED <<life, agent>>

-----------------------------------------------------------------------------
\* One collection.

\* collectContainerStats reads the files of every container it finds, and
\* enrichWithK8sMetadata looks the pods up.
CollectStats ==
    /\ pc = "idle"
    /\ \E pause \in 1 .. MaxPause :
           /\ elapsed' = elapsed + pause
           /\ prevStats' = [k \in DOMAIN prevStats |->
                               [prevStats[k] EXCEPT !.age = @ + pause]]
    /\ \E read \in [Found -> SUBSET Files], pods \in Listings :
           /\ Failures(read, pods) <= MaxFailures
           /\ pending' = {enrichWithK8sMetadata(ReadStats(c, read[c]), pods) : c \in Found}
           /\ listed' = pods
           /\ truth' = [c \in Found |-> [ReadStats(c, Files) EXCEPT !.read = read[c]]]
    /\ pc' = "convert"
    /\ UNCHANGED <<node, currentKeys, emitted, labels, truthBefore>>

\* A fault of KeyOf: the container ID is left out, as if all were of one pod.
KeyOfPod(stat) == CHOOSE k \in {KeyOfPath(Path[c]) : c \in Containers} : TRUE

KeyOf(stat) == KeyOfPath(Path[stat.owner])

\* A fault of ConvertStat: the first sample of a container is kept for good.
ConvertStatOnce ==
    /\ pc = "convert"
    /\ \E stat \in pending :
        LET key == KeyOf(stat) IN
        /\ pending' = pending \ {stat}
        /\ currentKeys' = currentKeys \cup {key}
        /\ labels' = labels \cup {<<stat.owner, stat.pod>>}
        /\ emitted' = IF key \in DOMAIN prevStats
                      THEN emitted \cup RatesOf(prevStats[key], stat)
                      ELSE emitted
        /\ prevStats' = [k \in DOMAIN prevStats \cup {key} |->
                            IF k \in DOMAIN prevStats THEN prevStats[k] ELSE stat]
    /\ UNCHANGED <<node, pc, elapsed, listed, truth, truthBefore>>

\* One round of the loop over the stats, in the order of the cgroup walk: its
\* gauges, whose labels are the stat's, and its rates.  The stat replaces the
\* previous one at once, within the loop.
ConvertStat ==
    /\ pc = "convert"
    /\ \E stat \in pending :
        LET key == KeyOf(stat) IN
        /\ pending' = pending \ {stat}
        /\ currentKeys' = currentKeys \cup {key}
        /\ labels' = labels \cup {<<stat.owner, stat.pod>>}
        /\ emitted' = IF key \in DOMAIN prevStats
                      THEN emitted \cup RatesOf(prevStats[key], stat)
                      ELSE emitted
        /\ prevStats' = [k \in DOMAIN prevStats \cup {key} |->
                            IF k = key THEN stat ELSE prevStats[k]]
    /\ UNCHANGED <<node, pc, elapsed, listed, truth, truthBefore>>

\* The metrics are handed over; what was true of them is history.
HandOver ==
    /\ elapsed' = 0
    /\ pc' = "idle"
    /\ currentKeys' = {} /\ emitted' = {} /\ labels' = {} /\ listed' = {}
    /\ truth' = [c \in {} |-> Zero]
    /\ truthBefore' = truth
    /\ UNCHANGED <<node, pending>>

\* A fault of FinishPass: nothing is removed.
FinishPassKeeping ==
    /\ pc = "convert"
    /\ pending = {}
    /\ UNCHANGED prevStats
    /\ HandOver

\* The entries of containers that are gone are removed.
FinishPass ==
    /\ pc = "convert"
    /\ pending = {}
    /\ prevStats' = [k \in DOMAIN prevStats \cap currentKeys |-> prevStats[k]]
    /\ HandOver

-----------------------------------------------------------------------------

Next ==
    \/ \E c \in Containers : StartContainer(c) \/ StopContainer(c) \/ Work(c)
    \/ CollectStats
    \/ ConvertStat
    \/ FinishPass

Spec == Init /\ [][Next]_vars

-----------------------------------------------------------------------------
\* The properties.

Counters == [Fields -> Nat]
Pods == {PodOf[c] : c \in Containers} \cup {NoPod}
Stats == [cpu : Nat, periods : Nat, throttled : Nat, disk : Nat, rx : {0},
          owner : Containers, life : Nat, read : SUBSET Files, pod : Pods, age : Nat]
Keys == {KeyOfPath(Path[c]) : c \in Containers}

\* Every variable has its type; in particular a delta of counters that went
\* backwards is still a number of 64 bits.
TypeOK ==
    /\ Running \subseteq Containers
    /\ \A c \in Running : counters[c] \in Counters
    /\ life \in [Containers -> Nat]
    /\ pc \in {"idle", "convert"}
    /\ elapsed \in Nat
    /\ pending \subseteq Stats
    /\ currentKeys \subseteq Keys
    /\ DOMAIN prevStats \subseteq Keys
    /\ \A k \in DOMAIN prevStats : prevStats[k] \in Stats
    /\ emitted \subseteq
           [metric : Fields, container : Containers, value : 0 .. CounterLimit - 1,
            interval : Nat \ {0}, base : Containers, age : Nat, sound : BOOLEAN]
    /\ labels \subseteq Containers \X Pods
    /\ listed \subseteq Pods
    /\ DOMAIN truth \cup DOMAIN truthBefore \subseteq Containers

\* Every previous sample was taken when the last collection ran, so that a
\* rate divides what a container did by the time in which it did it: a
\* container that misses a collection has no sample left when it comes back.
IntervalMatchesSample ==
    \A rate \in emitted : rate.age = rate.interval

\* A rate compares two samples of the same container.
SameContainer == \A rate \in emitted : rate.base = rate.container

\* prevStats does not grow with the containers that come and go: between
\* collections it holds the last collection's containers and no other.
OnlyCurrentContainersKept ==
    pc = "idle" => DOMAIN prevStats = {KeyOfPath(Path[c]) : c \in DOMAIN truthBefore}

\* The growth of a counter of container c between the last two collections,
\* when both saw it, in one life of the container.
SeenTwice == {c \in DOMAIN truth \cap DOMAIN truthBefore :
                 truth[c].life = truthBefore[c].life}
Growth(c, f) == truth[c][f] - truthBefore[c][f]

\* A CPU rate is never more than what the container used in the interval, even
\* if a read of cpu.stat failed or the container restarted in between: the
\* guards against a zero and against a larger previous sample
\* (main.go:938-939) keep a lifetime of CPU time from becoming one rate.
CPUWithinGrowth ==
    \A rate \in {x \in emitted : x.metric = "cpu"} :
        /\ rate.container \in DOMAIN truth \cap DOMAIN truthBefore
        /\ rate.value <= IF rate.container \in SeenTwice THEN Growth(rate.container, "cpu")
                         ELSE truth[rate.container].cpu

\* Whatever fails elsewhere, a rate whose own file was read at both collections,
\* of a container that did not restart in between, is the growth of its
\* counter, and the growth of every counter the code reads is emitted, a CPU
\* rate above MaxCores and the first CPU time of a container excepted.
RatesAreGrowth ==
    \A rate \in {x \in emitted : x.sound} :
        /\ rate.container \in SeenTwice
        /\ rate.value = Growth(rate.container, rate.metric)
GrowthIsEmitted ==
    pending = {} => \A c \in SeenTwice :
        \A f \in {g \in Fields \ {"rx"} : Growth(c, g) > 0} :
            \/ FileOf(f) \notin truth[c].read \cap truthBefore[c].read
            \/ \E rate \in emitted : rate.container = c /\ rate.metric = f
            \/ /\ f = "cpu"
               /\ truthBefore[c].cpu = 0 \/ Growth(c, "cpu") > MaxCores * Interval

\* The metrics of a container carry the name of its pod, and of no other,
\* whenever the API listed that pod; a container of no pod has no name.
PodsAreNamed ==
    \A label \in labels :
        label[2] = IF PodOf[label[1]] \in listed THEN PodOf[label[1]] ELSE NoPod

=============================================================================
