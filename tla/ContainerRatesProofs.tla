------------------------ MODULE ContainerRatesProofs ------------------------
(***************************************************************************)
(* Theorems about ContainerRates, for any containers, paths and workloads. *)
(***************************************************************************)
EXTENDS ContainerRates, TLAPS

-----------------------------------------------------------------------------
\* What the operators return.

LEMMA ReadStatsType ==
    ASSUME TypeOK, NEW c \in Running, NEW read \in SUBSET Files
    PROVE  /\ ReadStats(c, read) \in Stats
           /\ ReadStats(c, read).owner = c
<1>1. c \in Containers /\ counters[c] \in Counters /\ life[c] \in Nat
  BY DEF TypeOK
<1>2. counters[c].cpu \in Nat /\ counters[c].periods \in Nat
      /\ counters[c].throttled \in Nat /\ counters[c].disk \in Nat
  BY <1>1 DEF Counters, Fields
<1>3. NoPod \in Pods
  BY DEF Pods
<1> QED BY <1>1, <1>2, <1>3 DEF ReadStats, Stats

\* The lookup of the pod changes nothing but the name of the pod.
LEMMA EnrichType ==
    ASSUME NEW stat \in Stats, NEW pods \in SUBSET Pods
    PROVE  /\ enrichWithK8sMetadata(stat, pods) \in Stats
           /\ enrichWithK8sMetadata(stat, pods).owner = stat.owner
           /\ enrichWithK8sMetadata(stat, pods).life = stat.life
           /\ enrichWithK8sMetadata(stat, pods).read = stat.read
           /\ enrichWithK8sMetadata(stat, pods).age = stat.age
           /\ \A f \in Fields : enrichWithK8sMetadata(stat, pods)[f] = stat[f]
<1> DEFINE uid == PodUID(Path[stat.owner])
           name == IF uid \in {<<pod>> : pod \in pods} THEN uid[1] ELSE NoPod
<1>1. name \in Pods
  <2>1. NoPod \in Pods
    BY DEF Pods
  <2> HIDE DEF uid
  <2> QED BY <2>1
<1>2. enrichWithK8sMetadata(stat, pods) = [stat EXCEPT !.pod = name]
  BY DEF enrichWithK8sMetadata
<1> HIDE DEF name
<1> QED BY <1>1, <1>2 DEF Stats, Fields

LEMMA ListingsType == \A pods \in Listings : pods \in SUBSET Pods
  BY DEF Listings, AllPods, Pods

LEMMA FoundRun == Found \subseteq Running
  BY DEF Found

LEMMA DeltaType ==
    \A a, b \in Nat : Delta(a, b) \in 0 .. CounterLimit - 1
  BY LimitsAssumption DEF Delta

\* What is guarded before counter f of a container becomes a rate: that itself,
\* or the counter of its periods, has grown.
Guard(f) == IF f = "throttled" THEN "periods" ELSE f

\* A rate names what it compares, and says what its counters were.
LEMMA RatesOfType ==
    ASSUME NEW prev \in Stats, NEW stat \in Stats, NEW rate \in RatesOf(prev, stat),
           elapsed \in Nat
    PROVE  /\ rate \in [metric : Fields, container : Containers,
                        value : 0 .. CounterLimit - 1, interval : Nat \ {0},
                        base : Containers, age : Nat, sound : BOOLEAN]
           /\ rate.container = stat.owner
           /\ rate.base = prev.owner
           /\ rate.age = prev.age
           /\ rate.interval = Interval
           /\ rate.value = Delta(stat[rate.metric], prev[rate.metric])
           /\ rate.metric \in Fields \ {"rx"}
           /\ stat[Guard(rate.metric)] > prev[Guard(rate.metric)]
           /\ rate.metric = "cpu" => prev.cpu > 0
           /\ rate.sound <=> /\ prev.life = stat.life
                             /\ FileOf(rate.metric) \in prev.read \cap stat.read
<1>1. PICK name \in Fields :
        /\ rate = Rate(name, prev, stat)
        /\ stat[Guard(name)] > prev[Guard(name)]
        /\ name = "cpu" => prev.cpu > 0
  BY DEF RatesOf, Fields, Guard
<1>2. stat[name] \in Nat /\ prev[name] \in Nat
  BY DEF Stats, Fields
<1>3. Interval \in Nat \ {0}
  BY DEF Interval
<1>4. Delta(stat[name], prev[name]) \in 0 .. CounterLimit - 1
  BY <1>2, DeltaType
<1>5. stat.owner \in Containers /\ prev.owner \in Containers /\ prev.age \in Nat
  BY DEF Stats
<1>6. name # "rx"
  BY <1>1 DEF Stats, Guard
<1> DEFINE same == prev.life = stat.life /\ FileOf(name) \in prev.read \cap stat.read
<1>7. rate = [metric |-> name, container |-> stat.owner,
              value |-> Delta(stat[name], prev[name]), interval |-> Interval,
              base |-> prev.owner, age |-> prev.age, sound |-> same]
  BY <1>1 DEF Rate
<1>8. same \in BOOLEAN
  OBVIOUS
<1>9. /\ rate.metric = name /\ rate.container = stat.owner /\ rate.base = prev.owner
      /\ rate.age = prev.age /\ rate.interval = Interval /\ rate.sound = same
      /\ rate.value = Delta(stat[name], prev[name])
  BY <1>7
<1>10. rate.sound <=> /\ prev.life = stat.life
                      /\ FileOf(rate.metric) \in prev.read \cap stat.read
  BY <1>9, Zenon
<1>11. rate \in [metric : Fields, container : Containers,
                 value : 0 .. CounterLimit - 1, interval : Nat \ {0},
                 base : Containers, age : Nat, sound : BOOLEAN]
  <2> HIDE DEF same
  <2> QED BY <1>3, <1>4, <1>5, <1>7, <1>8
<1> QED BY <1>1, <1>6, <1>9, <1>10, <1>11

-----------------------------------------------------------------------------
\* Type correctness.

LEMMA InitType == Init => TypeOK
  BY DEF Init, TypeOK, Running

LEMMA WorkloadsGrow ==
    \A n \in Counters, w \in Workloads : [f \in Fields |-> n[f] + w[f]] \in Counters
  BY WorkloadsAssumption DEF Counters

LEMMA ContainersType ==
    ASSUME TypeOK, NEW c \in Containers, StartContainer(c) \/ StopContainer(c) \/ Work(c)
    PROVE  TypeOK'
<1>1. CASE StartContainer(c)
  BY <1>1 DEF TypeOK, StartContainer, agent, Running, Zero, Counters, Keys, Stats, Pods, Fields
<1>2. CASE StopContainer(c)
  BY <1>2 DEF TypeOK, StopContainer, agent, Running
<1>3. CASE Work(c)
  <2>1. PICK w \in Workloads :
          counters' = [counters EXCEPT ![c] = [f \in Fields |-> @[f] + w[f]]]
    BY <1>3 DEF Work
  <2>2. Running' = Running /\ \A d \in Running' : counters'[d] \in Counters
    BY <2>1, WorkloadsGrow DEF TypeOK, Running
  <2> QED BY <1>3, <2>2 DEF TypeOK, Work, agent
<1> QED BY <1>1, <1>2, <1>3

LEMMA CollectType ==
    ASSUME TypeOK, CollectStats
    PROVE  TypeOK'
<1>1. PICK pause \in 1 .. MaxPause :
        /\ elapsed' = elapsed + pause
        /\ prevStats' = [k \in DOMAIN prevStats |-> [prevStats[k] EXCEPT !.age = @ + pause]]
  BY DEF CollectStats
<1>2. PICK read \in [Found -> SUBSET Files], pods \in Listings :
        /\ pending' = {enrichWithK8sMetadata(ReadStats(c, read[c]), pods) : c \in Found}
        /\ listed' = pods
        /\ truth' = [c \in Found |-> [ReadStats(c, Files) EXCEPT !.read = read[c]]]
  BY DEF CollectStats
<1>3. pause \in Nat
  BY LimitsAssumption
<1>4. elapsed' \in Nat
  BY <1>1, <1>3 DEF TypeOK
<1>5. \A k \in DOMAIN prevStats : [prevStats[k] EXCEPT !.age = @ + pause] \in Stats
  BY <1>3 DEF TypeOK, Stats
<1>6. DOMAIN prevStats' \subseteq Keys /\ \A k \in DOMAIN prevStats' : prevStats'[k] \in Stats
  BY <1>1, <1>5 DEF TypeOK
<1>7. pending' \subseteq Stats
  BY <1>2, ReadStatsType, EnrichType, ListingsType, FoundRun
<1>8. listed' \subseteq Pods /\ DOMAIN truth' \subseteq Containers
  BY <1>2, ListingsType, FoundRun DEF TypeOK
<1> QED BY <1>4, <1>6, <1>7, <1>8 DEF TypeOK, CollectStats, node, Running

LEMMA ConvertType ==
    ASSUME TypeOK, ConvertStat
    PROVE  TypeOK'
<1>1. PICK stat \in pending :
        /\ pending' = pending \ {stat}
        /\ currentKeys' = currentKeys \cup {KeyOf(stat)}
        /\ labels' = labels \cup {<<stat.owner, stat.pod>>}
        /\ emitted' = IF KeyOf(stat) \in DOMAIN prevStats
                      THEN emitted \cup RatesOf(prevStats[KeyOf(stat)], stat)
                      ELSE emitted
        /\ prevStats' = [k \in DOMAIN prevStats \cup {KeyOf(stat)} |->
                            IF k = KeyOf(stat) THEN stat ELSE prevStats[k]]
  BY DEF ConvertStat
<1>2. stat \in Stats /\ stat.owner \in Containers /\ stat.pod \in Pods
  BY DEF TypeOK, Stats
<1>3. KeyOf(stat) \in Keys
  BY <1>2 DEF KeyOf, Keys
<1>4. emitted' \subseteq
           [metric : Fields, container : Containers, value : 0 .. CounterLimit - 1,
            interval : Nat \ {0}, base : Containers, age : Nat, sound : BOOLEAN]
  BY <1>1, <1>2, RatesOfType DEF TypeOK
<1>5. DOMAIN prevStats' \subseteq Keys /\ \A k \in DOMAIN prevStats' : prevStats'[k] \in Stats
  BY <1>1, <1>2, <1>3 DEF TypeOK
<1>6. pending' \subseteq Stats /\ currentKeys' \subseteq Keys /\ labels' \subseteq Containers \X Pods
  BY <1>1, <1>2, <1>3 DEF TypeOK
<1> QED BY <1>4, <1>5, <1>6 DEF TypeOK, ConvertStat, node, Running

LEMMA FinishType ==
    ASSUME TypeOK, FinishPass
    PROVE  TypeOK'
  BY DEF TypeOK, FinishPass, HandOver, node, Running

\* A delta of counters that went backwards, as after a restart, is still a
\* number of 64 bits, and every sample that is kept is one of this node's
\* (main.go:939-1050, the guards before the subtractions).
THEOREM TypeCorrect == Spec => []TypeOK
<1>1. TypeOK /\ [Next]_vars => TypeOK'
  <2> SUFFICES ASSUME TypeOK, [Next]_vars PROVE TypeOK'
    OBVIOUS
  <2>1. CASE UNCHANGED vars
    BY <2>1 DEF vars, node, TypeOK, Running
  <2> QED BY <2>1, ContainersType, CollectType, ConvertType, FinishType DEF Next
<1> QED BY <1>1, InitType, PTL DEF Spec

-----------------------------------------------------------------------------
\* What is kept: inside a pass the keys converted and those still pending are
\* the keys of the containers the walk found, and the former have a sample.

KeysOf(containers) == {KeyOfPath(Path[c]) : c \in containers}

KeptInv ==
    /\ pc = "idle" => /\ currentKeys = {} /\ pending = {} /\ emitted = {} /\ elapsed = 0
                      /\ DOMAIN prevStats = KeysOf(DOMAIN truthBefore)
    /\ pc = "convert" => currentKeys \cup {KeyOf(stat) : stat \in pending} = KeysOf(DOMAIN truth)
    /\ currentKeys \subseteq DOMAIN prevStats

LEMMA KeptInit == Init => KeptInv
  BY DEF Init, KeptInv, KeysOf

\* The stat of a container and the sample the history keeps of it are one
\* reading of its counters.
LEMMA CollectedStat ==
    ASSUME TypeOK, NEW read \in [Found -> SUBSET Files], NEW pods \in Listings, NEW c \in Found
    PROVE  LET stat == enrichWithK8sMetadata(ReadStats(c, read[c]), pods)
               sample == [ReadStats(c, Files) EXCEPT !.read = read[c]]
           IN  /\ stat \in Stats /\ stat.owner = c /\ stat.age = 0
               /\ stat.life = sample.life /\ stat.read = sample.read
               /\ \A f \in Fields : stat[f] = IF FileOf(f) \in stat.read THEN sample[f] ELSE 0
               /\ sample \in Stats /\ sample.life = life[c]
               /\ \A f \in Fields \ {"rx"} : sample[f] = counters[c][f]
<1> DEFINE stat == enrichWithK8sMetadata(ReadStats(c, read[c]), pods)
           sample == [ReadStats(c, Files) EXCEPT !.read = read[c]]
<1>1. c \in Running /\ read[c] \in SUBSET Files /\ pods \in SUBSET Pods
  BY FoundRun, ListingsType
<1>2. ReadStats(c, read[c]) \in Stats /\ ReadStats(c, Files) \in Stats
  BY <1>1, ReadStatsType
<1>3. /\ stat \in Stats /\ stat.owner = ReadStats(c, read[c]).owner
      /\ stat.age = ReadStats(c, read[c]).age /\ stat.life = ReadStats(c, read[c]).life
      /\ stat.read = ReadStats(c, read[c]).read
      /\ \A f \in Fields : stat[f] = ReadStats(c, read[c])[f]
  BY <1>1, <1>2, EnrichType
<1>4. /\ sample \in Stats
      /\ sample.life = ReadStats(c, Files).life /\ sample.read = read[c]
      /\ \A f \in Fields : sample[f] = ReadStats(c, Files)[f]
  BY <1>1, <1>2 DEF Stats, Fields
<1>5. \A f \in Fields \ {"rx"} : ReadStats(c, Files)[f] = counters[c][f]
  BY DEF ReadStats, Files, Fields
<1>6. \A f \in Fields : ReadStats(c, read[c])[f]
                            = IF FileOf(f) \in read[c] THEN ReadStats(c, Files)[f] ELSE 0
  BY DEF ReadStats, Files, Fields, FileOf
<1>7. /\ ReadStats(c, read[c]).owner = c /\ ReadStats(c, read[c]).age = 0
      /\ ReadStats(c, read[c]).life = life[c] /\ ReadStats(c, read[c]).read = read[c]
      /\ ReadStats(c, Files).life = life[c]
  BY DEF ReadStats
<1>8. /\ stat \in Stats /\ stat.owner = c /\ stat.age = 0
      /\ stat.life = sample.life /\ stat.read = sample.read
      /\ \A f \in Fields : stat[f] = IF FileOf(f) \in stat.read THEN sample[f] ELSE 0
      /\ sample \in Stats /\ sample.life = life[c]
      /\ \A f \in Fields \ {"rx"} : sample[f] = counters[c][f]
  <2> HIDE DEF stat, sample
  <2> QED BY <1>3, <1>4, <1>5, <1>6, <1>7
<1> QED BY <1>8

LEMMA KeptStep == TypeOK /\ KeptInv /\ [Next]_vars => KeptInv'
<1> SUFFICES ASSUME TypeOK, KeptInv, [Next]_vars PROVE KeptInv'
  OBVIOUS
<1>1. ASSUME NEW c \in Containers, StartContainer(c) \/ StopContainer(c) \/ Work(c)
      PROVE  KeptInv'
  BY <1>1 DEF KeptInv, StartContainer, StopContainer, Work, agent, KeyOf, KeysOf
<1>2. CASE CollectStats
  <2>1. PICK read \in [Found -> SUBSET Files], pods \in Listings :
          /\ pending' = {enrichWithK8sMetadata(ReadStats(c, read[c]), pods) : c \in Found}
          /\ DOMAIN truth' = Found
    BY <1>2 DEF CollectStats
  <2>2. {KeyOf(stat) : stat \in pending'} = KeysOf(Found)
    <3>1. ASSUME NEW c \in Found
          PROVE  enrichWithK8sMetadata(ReadStats(c, read[c]), pods).owner = c
      BY ReadStatsType, EnrichType, ListingsType, FoundRun
    <3> QED BY <2>1, <3>1 DEF KeyOf, KeysOf
  <2>3. currentKeys' = {} /\ pc' = "convert" /\ DOMAIN prevStats' = DOMAIN prevStats
    BY <1>2 DEF CollectStats, KeptInv
  <2> QED BY <2>1, <2>2, <2>3 DEF KeptInv, KeyOf, KeysOf
<1>3. CASE ConvertStat
  <2>1. PICK stat \in pending :
          /\ pending' = pending \ {stat}
          /\ currentKeys' = currentKeys \cup {KeyOf(stat)}
          /\ DOMAIN prevStats' = DOMAIN prevStats \cup {KeyOf(stat)}
    BY <1>3 DEF ConvertStat
  <2>2. pc = "convert" /\ pc' = "convert" /\ truth' = truth
    BY <1>3 DEF ConvertStat
  <2>3. currentKeys' \cup {KeyOf(s) : s \in pending'}
            = currentKeys \cup {KeyOf(s) : s \in pending}
    BY <2>1
  <2> QED BY <2>1, <2>2, <2>3 DEF KeptInv, KeyOf, KeysOf
<1>4. CASE FinishPass
  BY <1>4 DEF KeptInv, FinishPass, HandOver, KeysOf
<1>5. CASE UNCHANGED vars
  BY <1>5 DEF vars, node, KeptInv, KeyOf, KeysOf
<1> QED BY <1>1, <1>2, <1>3, <1>4, <1>5 DEF Next

\* The kept samples do not accumulate: between two collections they are those of
\* the containers the last one found, whether or not keys collide and whatever
\* could not be read (main.go:1072-1077).
THEOREM KeptAreCurrent == Spec => []OnlyCurrentContainersKept
<1>1. KeptInv => OnlyCurrentContainersKept
  BY DEF KeptInv, OnlyCurrentContainersKept, KeysOf
<1> QED BY <1>1, TypeCorrect, KeptInit, KeptStep, PTL DEF Spec

-----------------------------------------------------------------------------
\* What rates are made of, where keys tell containers apart.

\* No two containers that the walk finds have the same key.
KeysAreUnique ==
    \A c, d \in Containers :
        /\ IsContainer(Path[c]) /\ IsContainer(Path[d])
        /\ KeyOfPath(Path[c]) = KeyOfPath(Path[d])
        => c = d

\* A stat is what a collection read of its container, with a zero for what it
\* could not read.
Measures(stat, samples) ==
    /\ IsContainer(Path[stat.owner])
    /\ stat.owner \in DOMAIN samples
    /\ stat.life = samples[stat.owner].life
    /\ stat.read = samples[stat.owner].read
    /\ \A f \in Fields : stat[f] = IF FileOf(f) \in stat.read THEN samples[stat.owner][f] ELSE 0

\* The samples converted in this pass are of this collection, the others of the
\* last one, and no container is converted twice.
SamplesInv ==
    /\ pc = "convert" => elapsed > 0
    /\ KeysOf(DOMAIN truthBefore) \subseteq DOMAIN prevStats
    /\ \A k \in DOMAIN prevStats :
           /\ KeyOf(prevStats[k]) = k
           /\ prevStats[k].age = IF k \in currentKeys THEN 0 ELSE elapsed
           /\ Measures(prevStats[k], IF k \in currentKeys THEN truth ELSE truthBefore)
    /\ \A stat \in pending :
           /\ KeyOf(stat) \notin currentKeys
           /\ stat.age = 0
           /\ Measures(stat, truth)
    /\ \A s, t \in pending : KeyOf(s) = KeyOf(t) => s = t

\* Within a life counters only grow, and the throttled time by no more than the
\* periods it is counted in.
CountersRead == Fields \ {"rx"}
Grown(later, earlier) ==
    /\ \A f \in CountersRead : earlier[f] <= later[f]
    /\ later.throttled - earlier.throttled <= later.periods - earlier.periods

\* Samples are of containers that the walk finds, and what has run on since has
\* grown from there.
Precede(samples) ==
    \A c \in DOMAIN samples :
        /\ samples[c] \in Stats
        /\ IsContainer(Path[c])
        /\ \A f \in CountersRead : samples[c][f] < CounterLimit
        /\ samples[c].life <= life[c]
        /\ c \in Running /\ samples[c].life = life[c] => Grown(counters[c], samples[c])

TruthInv ==
    /\ pc = "idle" => DOMAIN truth = {}
    /\ \A c \in Running : \A f \in CountersRead : counters[c][f] < CounterLimit
    /\ Precede(truth)
    /\ Precede(truthBefore)
    /\ \A c \in SeenTwice : Grown(truth[c], truthBefore[c])

\* What the rates emitted say, and which have been: all that GrowthIsEmitted asks
\* of the containers that this pass has converted.
Reported(c, f) ==
    \/ FileOf(f) \notin truth[c].read \cap truthBefore[c].read
    \/ \E rate \in emitted : rate.container = c /\ rate.metric = f
    \/ /\ f = "cpu"
       /\ truthBefore[c].cpu = 0 \/ Growth(c, "cpu") > MaxCores * Interval
ReportedInv ==
    \A c \in SeenTwice : KeyOfPath(Path[c]) \in currentKeys =>
        \A f \in {g \in CountersRead : Growth(c, g) > 0} : Reported(c, f)

RatesInv == IntervalMatchesSample /\ SameContainer /\ CPUWithinGrowth /\ RatesAreGrowth

IInv == TypeOK /\ KeptInv /\ SamplesInv /\ TruthInv /\ RatesInv /\ ReportedInv

\* A difference on unsigned integers is never more than the difference, and is
\* the difference where nothing wraps.
LEMMA DeltaBound ==
    ASSUME NEW a \in Nat, NEW b \in Nat, a > b
    PROVE  Delta(a, b) <= a - b
<1>1. a - b \in Nat /\ CounterLimit \in Nat \ {0}
  BY LimitsAssumption
<1>2. \A n \in Nat, limit \in Nat \ {0} : n % limit <= n
  OBVIOUS
<1> QED BY <1>1, <1>2 DEF Delta

LEMMA DeltaExact ==
    ASSUME NEW a \in Nat, NEW b \in Nat, a >= b, a < CounterLimit
    PROVE  Delta(a, b) = a - b
<1>1. a - b \in Nat /\ CounterLimit \in Nat \ {0} /\ a - b < CounterLimit
  BY LimitsAssumption
<1>2. \A n \in Nat, limit \in Nat \ {0} : n < limit => n % limit = n
  BY Z3
<1> QED BY <1>1, <1>2 DEF Delta

LEMMA SamplesInit == Init => SamplesInv /\ TruthInv /\ RatesInv /\ ReportedInv
  BY DEF Init, SamplesInv, TruthInv, RatesInv, ReportedInv, IntervalMatchesSample,
         SameContainer, CPUWithinGrowth, RatesAreGrowth, Precede, SeenTwice, Running, KeysOf

-----------------------------------------------------------------------------
\* What the containers do between two collections.

LEMMA GrownWorks ==
    ASSUME NEW earlier \in Stats, NEW later \in Counters, NEW w \in Workloads,
           Grown(later, earlier)
    PROVE  Grown([f \in Fields |-> later[f] + w[f]], earlier)
<1>1. \A f \in Fields : later[f] \in Nat /\ w[f] \in Nat
  BY WorkloadsAssumption DEF Counters
<1>2. w.throttled <= w.periods
  BY WorkloadsAssumption
<1>3. \A f \in CountersRead : earlier[f] \in Nat
  BY DEF Stats, CountersRead, Fields
<1> DEFINE sum == [f \in Fields |-> later[f] + w[f]]
<1>4. \A f \in CountersRead : earlier[f] <= later[f] /\ sum[f] = later[f] + w[f]
  BY DEF Grown, CountersRead
<1>5. \A f \in CountersRead : earlier[f] <= sum[f]
  <2> SUFFICES ASSUME NEW f \in CountersRead PROVE earlier[f] <= sum[f]
    OBVIOUS
  <2>1. earlier[f] \in Nat /\ later[f] \in Nat /\ w[f] \in Nat
    BY <1>1, <1>3 DEF CountersRead
  <2>2. earlier[f] <= later[f] /\ sum[f] = later[f] + w[f]
    BY <1>4
  <2> HIDE DEF sum
  <2> QED BY <2>1, <2>2
<1>6. sum.throttled - earlier.throttled <= sum.periods - earlier.periods
  <2>1. /\ earlier.throttled \in Nat /\ earlier.periods \in Nat
        /\ later.throttled \in Nat /\ later.periods \in Nat
        /\ w.throttled \in Nat /\ w.periods \in Nat
    BY <1>1, <1>3 DEF CountersRead, Fields
  <2>2. sum.throttled = later.throttled + w.throttled /\ sum.periods = later.periods + w.periods
    BY DEF Fields
  <2>3. later.throttled - earlier.throttled <= later.periods - earlier.periods
    BY DEF Grown
  <2> HIDE DEF sum
  <2> QED BY <1>2, <2>1, <2>2, <2>3
<1> QED BY <1>5, <1>6 DEF Grown

\* A workload keeps the counters below their limit.
LEMMA WorkFits ==
    ASSUME NEW n \in Counters, NEW w \in Workloads, \A f \in Fields : n[f] < MaxCount
    PROVE  \A f \in Fields : n[f] + w[f] < CounterLimit
<1> SUFFICES ASSUME NEW f \in Fields PROVE n[f] + w[f] < CounterLimit
  OBVIOUS
<1>1. n[f] \in Nat /\ w[f] \in Nat /\ MaxCount \in Nat /\ CounterLimit \in Nat
  BY WorkloadsAssumption, LimitsAssumption DEF Counters
<1>2. n[f] < MaxCount /\ MaxCount + w[f] <= CounterLimit
  BY CountersAssumption
<1> QED BY <1>1, <1>2

\* A sample precedes the counters of a container that runs on, and those of no
\* life but its own.
LEMMA PrecedeStep ==
    ASSUME TypeOK, NEW samples, Precede(samples), NEW c \in Containers,
           StartContainer(c) \/ StopContainer(c) \/ Work(c),
           NEW d \in DOMAIN samples, DOMAIN samples \subseteq Containers
    PROVE  /\ samples[d].life <= life'[d]
           /\ d \in Running' /\ samples[d].life = life'[d] => Grown(counters'[d], samples[d])
<1>1. /\ samples[d] \in Stats /\ samples[d].life <= life[d]
      /\ d \in Running /\ samples[d].life = life[d] => Grown(counters[d], samples[d])
  BY DEF Precede
<1>2. samples[d].life \in Nat /\ life[d] \in Nat
  BY <1>1 DEF Stats, TypeOK
<1>3. CASE StartContainer(c)
  <2>1. life' = [life EXCEPT ![c] = @ + 1] /\ life \in [Containers -> Nat] /\ c \notin Running
    BY <1>3 DEF StartContainer, TypeOK
  <2>2. CASE d = c
    BY <1>1, <1>2, <2>1, <2>2
  <2>3. CASE d # c
    <3>1. life'[d] = life[d] /\ (d \in Running' <=> d \in Running)
          /\ (d \in Running => counters'[d] = counters[d])
      BY <1>3, <2>1, <2>3 DEF StartContainer, Running
    <3> QED BY <1>1, <3>1
  <2> QED BY <2>2, <2>3
<1>4. CASE StopContainer(c)
  BY <1>1, <1>4 DEF StopContainer, Running
<1>5. CASE Work(c)
  <2>1. PICK w \in Workloads :
          counters' = [counters EXCEPT ![c] = [f \in Fields |-> @[f] + w[f]]]
    BY <1>5 DEF Work
  <2>2. life' = life /\ Running' = Running /\ c \in Running
    BY <1>5, <2>1 DEF Work, Running
  <2>3. CASE d = c
    <3>1. counters'[d] = [f \in Fields |-> counters[d][f] + w[f]] /\ counters[d] \in Counters
      BY <2>1, <2>2, <2>3 DEF Running, TypeOK
    <3>2. ASSUME Grown(counters[d], samples[d]) PROVE Grown(counters'[d], samples[d])
      BY <1>1, <3>1, <3>2, GrownWorks
    <3> QED BY <1>1, <2>2, <3>2
  <2>4. CASE d # c
    BY <1>1, <2>1, <2>2, <2>4 DEF Running
  <2> QED BY <2>3, <2>4
<1> QED BY <1>3, <1>4, <1>5

LEMMA TruthWorks ==
    ASSUME TypeOK, TruthInv, NEW c \in Containers, StartContainer(c) \/ StopContainer(c) \/ Work(c)
    PROVE  TruthInv'
<1>1. UNCHANGED agent
  BY DEF StartContainer, StopContainer, Work
<1>2. truth' = truth /\ truthBefore' = truthBefore /\ pc' = pc
  BY <1>1 DEF agent
<1>3. \A d \in Running' : \A f \in CountersRead : counters'[d][f] < CounterLimit
  <2>1. CASE StartContainer(c)
    <3>1. \A f \in CountersRead : Zero[f] < CounterLimit
      BY LimitsAssumption DEF Zero, CountersRead
    <3>2. \A d \in Running' : counters'[d] = IF d = c THEN Zero ELSE counters[d]
      BY <2>1 DEF StartContainer, Running
    <3>3. \A d \in Running' : d = c \/ d \in Running
      BY <2>1 DEF StartContainer, Running
    <3> QED BY <3>1, <3>2, <3>3 DEF TruthInv
  <2>2. CASE StopContainer(c)
    BY <2>2 DEF StopContainer, TruthInv, Running
  <2>3. CASE Work(c)
    <3>1. PICK w \in Workloads :
            counters' = [counters EXCEPT ![c] = [f \in Fields |-> @[f] + w[f]]]
      BY <2>3 DEF Work
    <3>2. c \in Running /\ counters[c] \in Counters /\ \A f \in Fields : counters[c][f] < MaxCount
      BY <2>3 DEF Work, TypeOK
    <3>3. \A f \in Fields : counters[c][f] + w[f] < CounterLimit
      BY <3>2, WorkFits
    <3>4. Running' = Running
      BY <3>1 DEF Running
    <3>5. \A f \in CountersRead : counters'[c][f] < CounterLimit
      BY <3>1, <3>2, <3>3 DEF CountersRead, Running
    <3>6. \A d \in Running : d # c => counters'[d] = counters[d]
      BY <3>1 DEF Running
    <3> QED BY <3>4, <3>5, <3>6 DEF TruthInv
  <2> QED BY <2>1, <2>2, <2>3
<1>4. ASSUME NEW samples, Precede(samples), DOMAIN samples \subseteq Containers,
             NEW d \in DOMAIN samples
      PROVE  /\ samples[d] \in Stats /\ IsContainer(Path[d])
             /\ \A f \in CountersRead : samples[d][f] < CounterLimit
             /\ samples[d].life <= life'[d]
             /\ d \in Running' /\ samples[d].life = life'[d] => Grown(counters'[d], samples[d])
  <2>1. /\ samples[d] \in Stats /\ IsContainer(Path[d])
        /\ \A f \in CountersRead : samples[d][f] < CounterLimit
    BY <1>4 DEF Precede
  <2> QED BY <1>4, <2>1, PrecedeStep
<1>5. DOMAIN truth \subseteq Containers /\ DOMAIN truthBefore \subseteq Containers
  BY DEF TypeOK
<1>6. Precede(truth) /\ Precede(truthBefore)
  BY DEF TruthInv
<1>7. Precede(truth)'
  BY <1>2, <1>4, <1>5, <1>6 DEF Precede
<1>8. Precede(truthBefore)'
  BY <1>2, <1>4, <1>5, <1>6 DEF Precede
<1> QED BY <1>2, <1>3, <1>7, <1>8 DEF TruthInv, SeenTwice

\* Nothing else depends on the containers.
LEMMA SamplesKept ==
    ASSUME IInv, UNCHANGED agent
    PROVE  SamplesInv' /\ RatesInv' /\ ReportedInv'
<1>1. SamplesInv'
  BY DEF agent, IInv, SamplesInv, Measures, KeyOf, KeysOf
<1>2. RatesInv'
  BY DEF agent, IInv, RatesInv, IntervalMatchesSample, SameContainer, CPUWithinGrowth,
         RatesAreGrowth, SeenTwice, Growth
<1>3. ReportedInv'
  BY DEF agent, IInv, ReportedInv, Reported, SeenTwice, Growth, Interval
<1> QED BY <1>1, <1>2, <1>3

-----------------------------------------------------------------------------
\* A collection.

LEMMA SamplesCollect ==
    ASSUME KeysAreUnique, IInv, CollectStats
    PROVE  SamplesInv' /\ TruthInv' /\ RatesInv' /\ ReportedInv'
<1>1. PICK pause \in 1 .. MaxPause :
        /\ elapsed' = elapsed + pause
        /\ prevStats' = [k \in DOMAIN prevStats |-> [prevStats[k] EXCEPT !.age = @ + pause]]
  BY DEF CollectStats
<1>2. PICK read \in [Found -> SUBSET Files], pods \in Listings :
        /\ pending' = {enrichWithK8sMetadata(ReadStats(c, read[c]), pods) : c \in Found}
        /\ truth' = [c \in Found |-> [ReadStats(c, Files) EXCEPT !.read = read[c]]]
  BY DEF CollectStats
<1>3. /\ currentKeys = {} /\ currentKeys' = {} /\ pc' = "convert"
      /\ elapsed = 0 /\ emitted' = {} /\ truthBefore' = truthBefore
      /\ counters' = counters /\ life' = life
  BY DEF CollectStats, IInv, KeptInv, node
<1>4. pause \in Nat /\ elapsed' > 0 /\ elapsed' = pause
  BY <1>1, <1>3, LimitsAssumption
<1>5. ASSUME NEW k \in DOMAIN prevStats'
      PROVE  /\ KeyOf(prevStats'[k]) = k
             /\ prevStats'[k].age = elapsed'
             /\ Measures(prevStats'[k], truthBefore)
  <2>1. prevStats[k] \in Stats /\ prevStats[k].age = 0
    BY <1>1, <1>3 DEF IInv, TypeOK, SamplesInv
  <2>2. KeyOf(prevStats[k]) = k /\ Measures(prevStats[k], truthBefore)
    BY <1>1, <1>3 DEF IInv, SamplesInv
  <2>3. /\ prevStats'[k].owner = prevStats[k].owner
        /\ prevStats'[k].life = prevStats[k].life
        /\ prevStats'[k].read = prevStats[k].read
        /\ \A f \in Fields : prevStats'[k][f] = prevStats[k][f]
        /\ prevStats'[k].age = prevStats[k].age + pause
    BY <1>1, <2>1 DEF Stats, Fields
  <2> QED BY <1>4, <2>1, <2>2, <2>3 DEF KeyOf, Measures
<1>6. ASSUME NEW c \in Found
      PROVE  LET stat == enrichWithK8sMetadata(ReadStats(c, read[c]), pods)
             IN  /\ stat.owner = c /\ stat.age = 0 /\ Measures(stat, truth')
                 /\ truth'[c] \in Stats /\ truth'[c].life = life[c]
                 /\ \A f \in CountersRead : truth'[c][f] = counters[c][f]
  <2> DEFINE stat == enrichWithK8sMetadata(ReadStats(c, read[c]), pods)
  <2>1. truth'[c] = [ReadStats(c, Files) EXCEPT !.read = read[c]]
    BY <1>2
  <2>2. /\ stat.owner = c /\ stat.age = 0
        /\ stat.life = truth'[c].life /\ stat.read = truth'[c].read
        /\ \A f \in Fields : stat[f] = IF FileOf(f) \in stat.read THEN truth'[c][f] ELSE 0
        /\ truth'[c] \in Stats /\ truth'[c].life = life[c]
        /\ \A f \in Fields \ {"rx"} : truth'[c][f] = counters[c][f]
    BY <2>1, CollectedStat DEF IInv
  <2>3. c \in DOMAIN truth' /\ IsContainer(Path[c])
    BY <1>2 DEF Found
  <2> HIDE DEF stat
  <2>4. /\ stat.owner = c /\ stat.age = 0 /\ Measures(stat, truth')
        /\ truth'[c] \in Stats /\ truth'[c].life = life[c]
        /\ \A f \in CountersRead : truth'[c][f] = counters[c][f]
    BY <2>2, <2>3 DEF Measures, CountersRead
  <2> QED BY <2>4 DEF stat
<1>7. \A stat \in pending' : stat.age = 0 /\ Measures(stat, truth')
  BY <1>2, <1>6
<1>8. ASSUME NEW s \in pending', NEW t \in pending', KeyOf(s) = KeyOf(t)
      PROVE  s = t
  <2>1. PICK c \in Found : s = enrichWithK8sMetadata(ReadStats(c, read[c]), pods)
    BY <1>2
  <2>2. PICK d \in Found : t = enrichWithK8sMetadata(ReadStats(d, read[d]), pods)
    BY <1>2
  <2>3. s.owner = c /\ t.owner = d
    BY <2>1, <2>2, <1>6
  <2>4. c = d
    BY <1>8, <2>3, FoundRun DEF KeyOf, KeysAreUnique, IInv, TypeOK, Found
  <2> QED BY <2>1, <2>2, <2>4
<1>9. KeysOf(DOMAIN truthBefore) \subseteq DOMAIN prevStats'
  BY <1>1 DEF IInv, SamplesInv
<1>10. SamplesInv'
  BY <1>3, <1>4, <1>5, <1>7, <1>8, <1>9 DEF SamplesInv, KeyOf, KeysOf, Measures
<1>11. /\ RatesInv'
       /\ ReportedInv'
  BY <1>3 DEF RatesInv, IntervalMatchesSample, SameContainer, CPUWithinGrowth, RatesAreGrowth,
              ReportedInv
<1>12. Precede(truth)'
  <2> SUFFICES ASSUME NEW c \in Found
               PROVE  /\ truth'[c] \in Stats /\ IsContainer(Path[c])
                      /\ \A f \in CountersRead : truth'[c][f] < CounterLimit
                      /\ truth'[c].life <= life[c]
                      /\ Grown(counters[c], truth'[c])
    BY <1>2, <1>3 DEF Precede, Running
  <2>1. /\ truth'[c] \in Stats /\ truth'[c].life = life[c]
        /\ \A f \in CountersRead : truth'[c][f] = counters[c][f]
    BY <1>6
  <2>2. c \in Running /\ IsContainer(Path[c])
    BY DEF Found
  <2>3. /\ \A f \in CountersRead : counters[c][f] < CounterLimit /\ counters[c][f] \in Nat
        /\ life[c] \in Nat
    BY <2>2 DEF IInv, TruthInv, TypeOK, Counters, CountersRead
  <2>4. Grown(counters[c], truth'[c])
    BY <2>1, <2>3 DEF Grown, CountersRead, Fields
  <2> QED BY <2>1, <2>2, <2>3, <2>4
<1>13. Precede(truthBefore)'
  BY <1>3 DEF IInv, TruthInv, Precede, Running
<1>14. ASSUME NEW c \in SeenTwice' PROVE Grown(truth'[c], truthBefore[c])
  <2>1. c \in Found /\ c \in DOMAIN truthBefore /\ truth'[c].life = truthBefore[c].life
    BY <1>2, <1>3 DEF SeenTwice
  <2>2. truth'[c].life = life[c] /\ \A f \in CountersRead : truth'[c][f] = counters[c][f]
    BY <1>6, <2>1
  <2>3. Grown(counters[c], truthBefore[c])
    BY <2>1, <2>2, FoundRun DEF IInv, TruthInv, Precede
  <2> QED BY <2>2, <2>3 DEF Grown, CountersRead, Fields
<1>15. TruthInv'
  BY <1>3, <1>12, <1>13, <1>14 DEF TruthInv, IInv, Running
<1> QED BY <1>10, <1>11, <1>15

-----------------------------------------------------------------------------
\* A round of the loop.

\* The previous sample of a container whose stat is converted.
LEMMA PreviousSample ==
    ASSUME KeysAreUnique, IInv, NEW stat \in pending, KeyOf(stat) \in DOMAIN prevStats
    PROVE  LET prev == prevStats[KeyOf(stat)]
           IN  /\ prev \in Stats /\ stat \in Stats /\ elapsed \in Nat
               /\ prev.age = elapsed /\ prev.owner = stat.owner
               /\ Measures(prev, truthBefore) /\ Measures(stat, truth)
<1> DEFINE prev == prevStats[KeyOf(stat)]
<1>1. prev \in Stats /\ stat \in Stats /\ elapsed \in Nat
  BY DEF IInv, TypeOK
<1>2. /\ prev.age = elapsed /\ KeyOf(prev) = KeyOf(stat)
      /\ Measures(prev, truthBefore) /\ Measures(stat, truth)
  BY DEF IInv, SamplesInv
<1>3. prev.owner = stat.owner
  BY <1>1, <1>2 DEF KeysAreUnique, Measures, KeyOf, Stats
<1> QED BY <1>1, <1>2, <1>3

\* A new rate divides by the time since the sample it compares with, which is of
\* the same container, and is what it says where it is sound.
LEMMA RatesConvert ==
    ASSUME KeysAreUnique, IInv, pc = "convert", NEW stat \in pending,
           KeyOf(stat) \in DOMAIN prevStats,
           NEW rate \in RatesOf(prevStats[KeyOf(stat)], stat)
    PROVE  /\ rate.age = rate.interval
           /\ rate.base = rate.container
           /\ rate.metric = "cpu" =>
                /\ rate.container \in DOMAIN truth \cap DOMAIN truthBefore
                /\ rate.value <= IF rate.container \in SeenTwice
                                 THEN Growth(rate.container, "cpu")
                                 ELSE truth[rate.container].cpu
           /\ rate.sound => /\ rate.container \in SeenTwice
                            /\ rate.value = Growth(rate.container, rate.metric)
<1> DEFINE prev == prevStats[KeyOf(stat)]
           c == stat.owner
           f == rate.metric
<1>1. /\ prev \in Stats /\ stat \in Stats /\ elapsed \in Nat
      /\ prev.age = elapsed /\ prev.owner = c
      /\ Measures(prev, truthBefore) /\ Measures(stat, truth)
  BY PreviousSample
<1>2. Interval = elapsed
  BY DEF Interval, IInv, SamplesInv, TypeOK
<1>3. /\ rate.container = c /\ rate.base = prev.owner /\ rate.age = prev.age
      /\ rate.interval = Interval
      /\ rate.value = Delta(stat[f], prev[f])
      /\ f \in Fields \ {"rx"}
      /\ stat[Guard(f)] > prev[Guard(f)]
      /\ f = "cpu" => prev.cpu > 0
      /\ rate.sound => /\ prev.life = stat.life
                       /\ FileOf(f) \in prev.read \cap stat.read
  BY <1>1, RatesOfType
<1>4. c \in DOMAIN truth \cap DOMAIN truthBefore
  BY <1>1 DEF Measures
<1>5. ASSUME f = "cpu"
      PROVE  rate.value <= IF c \in SeenTwice THEN Growth(c, "cpu") ELSE truth[c].cpu
  <2>1. stat.cpu \in Nat /\ prev.cpu \in Nat /\ prev.cpu > 0 /\ stat.cpu > prev.cpu
    BY <1>1, <1>3, <1>5 DEF Stats, Guard
  <2>2. stat.cpu = truth[c].cpu /\ prev.cpu = truthBefore[c].cpu
    BY <1>1, <2>1 DEF Measures, Fields
  <2>3. rate.value <= stat.cpu - prev.cpu /\ stat.cpu - prev.cpu <= stat.cpu
    BY <1>3, <1>5, <2>1, DeltaBound
  <2>4. rate.value \in Int
    <3>1. Delta(stat.cpu, prev.cpu) \in 0 .. CounterLimit - 1
      BY <2>1, DeltaType
    <3>2. CounterLimit \in Nat
      BY LimitsAssumption
    <3> QED BY <1>3, <1>5, <3>1, <3>2
  <2>5. Growth(c, "cpu") = stat.cpu - prev.cpu
    BY <2>2 DEF Growth
  <2>6. rate.value <= truth[c].cpu
    BY <2>1, <2>2, <2>3, <2>4
  <2> QED BY <2>3, <2>5, <2>6
<1>6. ASSUME rate.sound
      PROVE  c \in SeenTwice /\ rate.value = Growth(c, f)
  <2>1. c \in SeenTwice
    BY <1>1, <1>3, <1>4, <1>6 DEF SeenTwice, Measures
  <2>2. stat[f] = truth[c][f] /\ prev[f] = truthBefore[c][f]
    BY <1>1, <1>3, <1>6 DEF Measures
  <2>3. truthBefore[c][f] <= truth[c][f] /\ truth[c][f] < CounterLimit
    BY <1>3, <1>4, <2>1 DEF IInv, TruthInv, Precede, Grown, CountersRead
  <2>4. stat[f] \in Nat /\ prev[f] \in Nat
    BY <1>1, <1>3 DEF Stats, Fields
  <2>5. Delta(stat[f], prev[f]) = stat[f] - prev[f]
    BY <2>2, <2>3, <2>4, DeltaExact
  <2> QED BY <1>3, <2>1, <2>2, <2>5 DEF Growth
<1> QED BY <1>1, <1>2, <1>3, <1>4, <1>5, <1>6

\* The CPU time above which its rate is dropped.
LEMMA CapType == elapsed \in Nat => MaxCores * Interval \in Nat
<1>1. elapsed \in Nat => Interval \in Nat
  BY DEF Interval
<1>2. \A m, n \in Nat : m * n \in Nat
  OBVIOUS
<1> QED BY <1>1, <1>2, LimitsAssumption

\* A counter that grew, and could be read both times, has its rate.
LEMMA GrowthConverts ==
    ASSUME KeysAreUnique, IInv, NEW stat \in pending, KeyOf(stat) \in DOMAIN prevStats,
           stat.owner \in SeenTwice, NEW f \in CountersRead, Growth(stat.owner, f) > 0,
           FileOf(f) \in truth[stat.owner].read \cap truthBefore[stat.owner].read,
           f = "cpu" => /\ truthBefore[stat.owner].cpu # 0
                        /\ Growth(stat.owner, "cpu") <= MaxCores * Interval
    PROVE  \E rate \in RatesOf(prevStats[KeyOf(stat)], stat) :
               rate.container = stat.owner /\ rate.metric = f
<1> DEFINE prev == prevStats[KeyOf(stat)]
           c == stat.owner
<1>1. /\ prev \in Stats /\ stat \in Stats /\ elapsed \in Nat /\ prev.owner = c
      /\ Measures(prev, truthBefore) /\ Measures(stat, truth)
  BY PreviousSample
<1>2. \A g \in CountersRead : FileOf(g) = FileOf(f) =>
          stat[g] = truth[c][g] /\ prev[g] = truthBefore[c][g]
  BY <1>1 DEF Measures, CountersRead
<1>3. \A g \in CountersRead : stat[g] \in Nat /\ prev[g] \in Nat
  BY <1>1 DEF Stats, CountersRead, Fields
<1>4. stat[f] > prev[f] /\ Growth(c, f) = stat[f] - prev[f]
  <2>1. stat[f] = truth[c][f] /\ prev[f] = truthBefore[c][f]
    BY <1>2
  <2> QED BY <1>3, <2>1 DEF Growth
<1>5. stat[Guard(f)] > prev[Guard(f)]
  <2>1. CASE f = "throttled"
    <3>1. Grown(truth[c], truthBefore[c])
      BY DEF IInv, TruthInv
    <3>2. /\ stat.periods = truth[c].periods /\ prev.periods = truthBefore[c].periods
          /\ stat.throttled = truth[c].throttled /\ prev.throttled = truthBefore[c].throttled
          /\ stat.periods \in Nat /\ prev.periods \in Nat
          /\ stat.throttled \in Nat /\ prev.throttled \in Nat
      BY <1>2, <1>3, <2>1 DEF CountersRead, Fields, FileOf
    <3>3. stat.throttled - prev.throttled <= stat.periods - prev.periods
      BY <3>1, <3>2 DEF Grown
    <3>4. stat.periods > prev.periods
      BY <1>4, <2>1, <3>2, <3>3
    <3> QED BY <2>1, <3>4 DEF Guard
  <2>2. CASE f # "throttled"
    BY <1>4, <2>2 DEF Guard
  <2> QED BY <2>1, <2>2
<1>6. ASSUME f = "cpu"
      PROVE  prev.cpu > 0 /\ Delta(stat.cpu, prev.cpu) <= MaxCores * Interval
  <2>1. stat.cpu \in Nat /\ prev.cpu \in Nat /\ stat.cpu > prev.cpu
        /\ Growth(c, "cpu") = stat.cpu - prev.cpu /\ prev.cpu = truthBefore[c].cpu
    BY <1>2, <1>3, <1>4, <1>6 DEF CountersRead
  <2>2. stat.cpu - prev.cpu <= MaxCores * Interval /\ prev.cpu # 0
    BY <1>6, <2>1
  <2>3. Delta(stat.cpu, prev.cpu) <= stat.cpu - prev.cpu
    BY <2>1, DeltaBound
  <2>4. Delta(stat.cpu, prev.cpu) \in Int
    <3>1. Delta(stat.cpu, prev.cpu) \in 0 .. CounterLimit - 1
      BY <2>1, DeltaType
    <3> QED BY <3>1, LimitsAssumption
  <2>5. PICK cap \in Nat : cap = MaxCores * Interval
    BY <1>1, CapType
  <2> QED BY <2>1, <2>2, <2>3, <2>4, <2>5
<1>7. Rate(f, prev, stat) \in RatesOf(prev, stat)
  <2>1. f \in {"cpu", "periods", "throttled", "disk"}
    BY DEF CountersRead, Fields
  <2>2. CASE f = "cpu"
    BY <1>4, <1>6, <2>2 DEF RatesOf
  <2>3. CASE f \in {"periods", "throttled"}
    BY <1>5, <2>3 DEF RatesOf, Guard
  <2>4. CASE f = "disk"
    BY <1>4, <2>4 DEF RatesOf
  <2> QED BY <2>1, <2>2, <2>3, <2>4
<1>8. Rate(f, prev, stat).container = c /\ Rate(f, prev, stat).metric = f
  BY DEF Rate
<1> QED BY <1>7, <1>8

LEMMA SamplesConvert ==
    ASSUME KeysAreUnique, IInv, ConvertStat
    PROVE  SamplesInv' /\ TruthInv' /\ RatesInv' /\ ReportedInv'
<1>1. PICK stat \in pending :
        /\ pending' = pending \ {stat}
        /\ currentKeys' = currentKeys \cup {KeyOf(stat)}
        /\ emitted' = IF KeyOf(stat) \in DOMAIN prevStats
                      THEN emitted \cup RatesOf(prevStats[KeyOf(stat)], stat)
                      ELSE emitted
        /\ prevStats' = [k \in DOMAIN prevStats \cup {KeyOf(stat)} |->
                            IF k = KeyOf(stat) THEN stat ELSE prevStats[k]]
  BY DEF ConvertStat
<1>2. /\ pc = "convert" /\ pc' = "convert" /\ elapsed' = elapsed
      /\ truth' = truth /\ truthBefore' = truthBefore
      /\ counters' = counters /\ life' = life
  BY DEF ConvertStat, node
<1>3. ASSUME NEW k \in DOMAIN prevStats'
      PROVE  /\ KeyOf(prevStats'[k]) = k
             /\ prevStats'[k].age = IF k \in currentKeys' THEN 0 ELSE elapsed
             /\ Measures(prevStats'[k], IF k \in currentKeys' THEN truth ELSE truthBefore)
  <2>1. CASE k = KeyOf(stat)
    BY <1>1, <2>1 DEF IInv, SamplesInv
  <2>2. CASE k # KeyOf(stat)
    BY <1>1, <2>2 DEF IInv, SamplesInv
  <2> QED BY <2>1, <2>2
<1>4. \A s \in pending' :
        KeyOf(s) \notin currentKeys' /\ s.age = 0 /\ Measures(s, truth)
  BY <1>1 DEF IInv, SamplesInv
<1>5. \A s, t \in pending' : KeyOf(s) = KeyOf(t) => s = t
  BY <1>1 DEF IInv, SamplesInv
<1>6. KeysOf(DOMAIN truthBefore) \subseteq DOMAIN prevStats'
  BY <1>1 DEF IInv, SamplesInv
<1>7. SamplesInv'
  BY <1>2, <1>3, <1>4, <1>5, <1>6 DEF SamplesInv, IInv, KeyOf, KeysOf, Measures
<1>8. ASSUME NEW rate \in emitted'
      PROVE  /\ rate.age = rate.interval
             /\ rate.base = rate.container
             /\ rate.metric = "cpu" =>
                  /\ rate.container \in DOMAIN truth \cap DOMAIN truthBefore
                  /\ rate.value <= IF rate.container \in SeenTwice
                                   THEN Growth(rate.container, "cpu")
                                   ELSE truth[rate.container].cpu
             /\ rate.sound => /\ rate.container \in SeenTwice
                              /\ rate.value = Growth(rate.container, rate.metric)
  <2>1. CASE rate \in emitted
    BY <2>1 DEF IInv, RatesInv, IntervalMatchesSample, SameContainer, CPUWithinGrowth,
                RatesAreGrowth
  <2>2. CASE rate \notin emitted
    BY <1>1, <1>2, <1>8, <2>2, RatesConvert
  <2> QED BY <2>1, <2>2
<1>9. RatesInv'
  BY <1>2, <1>8 DEF RatesInv, IntervalMatchesSample, SameContainer, CPUWithinGrowth,
                    RatesAreGrowth, SeenTwice, Growth
<1>10. TruthInv'
  BY <1>2 DEF IInv, TruthInv, Precede, Running, SeenTwice
<1>11. ASSUME NEW c \in SeenTwice, KeyOfPath(Path[c]) \in currentKeys', NEW f \in CountersRead,
              Growth(c, f) > 0,
              FileOf(f) \in truth[c].read \cap truthBefore[c].read,
              f = "cpu" => truthBefore[c].cpu # 0 /\ ~(Growth(c, "cpu") > MaxCores * Interval)
       PROVE  \E rate \in emitted' : rate.container = c /\ rate.metric = f
  <2>1. CASE KeyOfPath(Path[c]) \in currentKeys
    <3>1. Reported(c, f)
      BY <1>11, <2>1 DEF IInv, ReportedInv
    <3>2. \E rate \in emitted : rate.container = c /\ rate.metric = f
      BY <1>11, <3>1 DEF Reported
    <3> QED BY <1>1, <3>2
  <2>2. CASE KeyOfPath(Path[c]) \notin currentKeys
    <3>1. KeyOfPath(Path[c]) = KeyOf(stat)
      BY <1>1, <1>11, <2>2
    <3>2. c = stat.owner
      <4>1. IsContainer(Path[c]) /\ c \in Containers
        BY <1>11 DEF SeenTwice, IInv, TruthInv, Precede, TypeOK
      <4>2. IsContainer(Path[stat.owner]) /\ stat.owner \in Containers
        BY DEF IInv, SamplesInv, Measures, TypeOK, Stats
      <4> QED BY <3>1, <4>1, <4>2 DEF KeysAreUnique, KeyOf
    <3>3. KeyOf(stat) \in DOMAIN prevStats
      BY <1>11, <3>1 DEF SeenTwice, IInv, SamplesInv, KeysOf
    <3>4. f = "cpu" => Growth(c, "cpu") <= MaxCores * Interval
      <4>1. c \in DOMAIN truth /\ c \in DOMAIN truthBefore
        BY <1>11 DEF SeenTwice
      <4>2. truth[c].cpu \in Nat /\ truthBefore[c].cpu \in Nat
        BY <4>1 DEF IInv, TruthInv, Precede, Stats
      <4>3. PICK cap \in Nat : cap = MaxCores * Interval
        BY CapType DEF IInv, TypeOK
      <4> QED BY <1>11, <4>2, <4>3 DEF Growth
    <3>5. \E rate \in RatesOf(prevStats[KeyOf(stat)], stat) :
              rate.container = c /\ rate.metric = f
      BY <1>11, <3>2, <3>3, <3>4, GrowthConverts
    <3> QED BY <1>1, <3>3, <3>5
  <2> QED BY <2>1, <2>2
<1>12. ReportedInv'
  <2>1. SeenTwice' = SeenTwice /\ \A c, f : Growth(c, f)' = Growth(c, f)
    BY <1>2 DEF SeenTwice, Growth
  <2>2. Interval' = Interval
    BY <1>2 DEF Interval
  <2> QED BY <1>2, <1>11, <2>1, <2>2 DEF ReportedInv, Reported
<1> QED BY <1>7, <1>9, <1>10, <1>12

LEMMA SamplesFinish ==
    ASSUME IInv, FinishPass
    PROVE  SamplesInv' /\ TruthInv' /\ RatesInv' /\ ReportedInv'
<1>1. /\ prevStats' = [k \in DOMAIN prevStats \cap currentKeys |-> prevStats[k]]
      /\ pending' = {} /\ currentKeys' = {} /\ emitted' = {} /\ elapsed' = 0
      /\ pc' = "idle" /\ truthBefore' = truth /\ DOMAIN truth' = {}
      /\ counters' = counters /\ life' = life
  BY DEF FinishPass, HandOver, node
<1>2. \A k \in DOMAIN prevStats' :
        /\ KeyOf(prevStats'[k]) = k
        /\ prevStats'[k].age = 0
        /\ Measures(prevStats'[k], truth)
  BY <1>1 DEF IInv, SamplesInv
<1>3. KeysOf(DOMAIN truth) \subseteq DOMAIN prevStats'
  <2>1. currentKeys = KeysOf(DOMAIN truth)
    BY DEF IInv, KeptInv, FinishPass
  <2> QED BY <1>1, <2>1 DEF IInv, KeptInv
<1>4. SamplesInv'
  BY <1>1, <1>2, <1>3 DEF SamplesInv, KeyOf, KeysOf, Measures
<1>5. TruthInv'
  BY <1>1 DEF IInv, TruthInv, Precede, Running, SeenTwice
<1> QED BY <1>1, <1>4, <1>5 DEF RatesInv, IntervalMatchesSample, SameContainer,
                               CPUWithinGrowth, RatesAreGrowth, ReportedInv, SeenTwice

LEMMA Sampling ==
    ASSUME KeysAreUnique
    PROVE  Spec => []IInv
<1>1. Init => IInv
  BY InitType, KeptInit, SamplesInit DEF IInv
<1>2. IInv /\ TypeOK' /\ [Next]_vars => IInv'
  <2> SUFFICES ASSUME IInv, TypeOK', [Next]_vars PROVE IInv'
    OBVIOUS
  <2>1. KeptInv'
    BY KeptStep DEF IInv
  <2>2. ASSUME NEW c \in Containers, StartContainer(c) \/ StopContainer(c) \/ Work(c)
        PROVE  SamplesInv' /\ TruthInv' /\ RatesInv' /\ ReportedInv'
    <3>1. UNCHANGED agent
      BY <2>2 DEF StartContainer, StopContainer, Work
    <3> QED BY <2>2, <3>1, SamplesKept, TruthWorks DEF IInv
  <2>3. ASSUME UNCHANGED vars PROVE SamplesInv' /\ TruthInv' /\ RatesInv' /\ ReportedInv'
    <3>1. UNCHANGED agent
      BY <2>3 DEF vars, agent
    <3>2. TruthInv'
      BY <2>3 DEF vars, node, IInv, TruthInv, Precede, Running, SeenTwice
    <3> QED BY <3>1, <3>2, SamplesKept
  <2>4. SamplesInv' /\ TruthInv' /\ RatesInv' /\ ReportedInv'
    BY <2>2, <2>3, SamplesCollect, SamplesConvert, SamplesFinish DEF Next
  <2> QED BY <2>1, <2>4 DEF IInv
<1> QED BY <1>1, <1>2, TypeCorrect, PTL DEF Spec

-----------------------------------------------------------------------------
\* The theorems about rates.  They hold where keys tell containers apart: the
\* cgroups docker/<id>, without such keys, are the run ContainerRates_keys.

\* A rate divides by the time since its own previous sample, also after a
\* container was gone for some collections (main.go:823-826, 1069-1079).
THEOREM RatesMatchTheirInterval ==
    ASSUME KeysAreUnique
    PROVE  Spec => []IntervalMatchesSample
<1>1. IInv => IntervalMatchesSample
  BY DEF IInv, RatesInv
<1> QED BY <1>1, Sampling, PTL

\* A rate compares two samples of one container (main.go:832, 937).
THEOREM RatesCompareOneContainer ==
    ASSUME KeysAreUnique
    PROVE  Spec => []SameContainer
<1>1. IInv => SameContainer
  BY DEF IInv, RatesInv
<1> QED BY <1>1, Sampling, PTL

\* A CPU rate is never more CPU time than the container used, whatever reads
\* fail and whatever restarts (main.go:938-939).
THEOREM RatesAreSound ==
    ASSUME KeysAreUnique
    PROVE  Spec => []CPUWithinGrowth
<1>1. IInv => CPUWithinGrowth
  BY DEF IInv, RatesInv
<1> QED BY <1>1, Sampling, PTL

\* Whatever fails elsewhere, a rate whose file was read both times in one life of
\* the container is the growth of its counter: the subtraction does not wrap
\* although the throttled time has no guard of its own (main.go:962-981).
THEOREM SoundRatesAreGrowth ==
    ASSUME KeysAreUnique
    PROVE  Spec => []RatesAreGrowth
<1>1. IInv => RatesAreGrowth
  BY DEF IInv, RatesInv
<1> QED BY <1>1, Sampling, PTL

\* No growth of a counter is lost that the code could see: the guard on the
\* periods hides no throttled time, and the cap on CPU time no use below it.
THEOREM GrowthIsNeverLost ==
    ASSUME KeysAreUnique
    PROVE  Spec => []GrowthIsEmitted
<1>1. IInv => GrowthIsEmitted
  <2> SUFFICES ASSUME IInv, pending = {}, NEW c \in SeenTwice,
                      NEW f \in {g \in Fields \ {"rx"} : Growth(c, g) > 0}
               PROVE  Reported(c, f)
    BY DEF GrowthIsEmitted, Reported
  <2>1. pc = "convert"
    BY DEF IInv, TruthInv, SeenTwice, TypeOK
  <2>2. KeyOfPath(Path[c]) \in currentKeys
    BY <2>1 DEF IInv, KeptInv, KeysOf, SeenTwice
  <2> QED BY <2>2 DEF IInv, ReportedInv, CountersRead
<1> QED BY <1>1, Sampling, PTL

-----------------------------------------------------------------------------
\* The pods of containers: what is cut out of the paths of cgroups, for any UID
\* and any container ID.

\* A prefix that a name does not have is not cut off, and one that it has is.
LEMMA TrimNothing ==
    ASSUME NEW S, NEW name \in Seq(S), NEW prefix \in Seq(S), NEW n \in 1 .. Len(prefix),
           n > Len(name) \/ name[n] # prefix[n]
    PROVE  TrimPrefix(name, prefix) = name
<1> SUFFICES ASSUME Len(prefix) <= Len(name),
                    SubSeq(prefix, 1, Len(prefix)) = SubSeq(name, 1, Len(prefix))
             PROVE  FALSE
  BY DEF TrimPrefix, IsPrefix
<1>1. n \in 1 .. Len(name) /\ name[n] # prefix[n]
  OBVIOUS
<1>2. SubSeq(prefix, 1, Len(prefix))[n] = prefix[n] /\ SubSeq(name, 1, Len(prefix))[n] = name[n]
  OBVIOUS
<1> QED BY <1>1, <1>2

LEMMA TrimClass ==
    ASSUME NEW class, NEW spelt
    PROVE  TrimPrefix(<<"kubepods", class, "-pod", spelt, ".slice">>, <<"kubepods", class, "-pod">>)
               = <<spelt, ".slice">>
<1> DEFINE name == <<"kubepods", class, "-pod", spelt, ".slice">>
           prefix == <<"kubepods", class, "-pod">>
           rest == <<spelt, ".slice">>
           words == {"kubepods", class, "-pod", spelt, ".slice"}
<1>1. /\ name \in Seq(words) /\ prefix \in Seq(words) /\ rest \in Seq(words)
      /\ Len(prefix) = 3 /\ Len(name) = 5 /\ Len(rest) = 2
      /\ \A n \in 1 .. 3 : name[n] = prefix[n]
      /\ \A n \in 1 .. 2 : name[n + 3] = rest[n]
  OBVIOUS
<1> HIDE DEF name, prefix, rest, words
<1>2. SubSeq(prefix, 1, 3) = SubSeq(name, 1, 3)
  BY <1>1
<1>3. SubSeq(name, 4, 5) = rest
  BY <1>1
<1> QED BY <1>1, <1>2, <1>3 DEF TrimPrefix, IsPrefix, name, prefix, rest

\* So the slice of a pod of one of the named classes spells the pod's UID ...
Classes == {"-burstable", "-besteffort"}

LEMMA SliceSpellsUID ==
    ASSUME NEW class \in Classes, NEW spelt
    PROVE  UIDIn(<<"kubepods", class, "-pod", spelt, ".slice">>) = <<Unescaped(spelt)>>
<1> DEFINE words == {"pod", "kubepods", "-burstable", "-besteffort", "-guaranteed", "-pod",
                     spelt, ".slice"}
           name == <<"kubepods", class, "-pod", spelt, ".slice">>
           rest == <<spelt, ".slice">>
           bare == <<"pod">>
           burstable == <<"kubepods", "-burstable", "-pod">>
           besteffort == <<"kubepods", "-besteffort", "-pod">>
           guaranteed == <<"kubepods", "-guaranteed", "-pod">>
<1>1. /\ name \in Seq(words) /\ rest \in Seq(words) /\ bare \in Seq(words)
      /\ burstable \in Seq(words) /\ besteffort \in Seq(words) /\ guaranteed \in Seq(words)
  BY DEF Classes
<1>2. /\ Len(name) = 5 /\ name[1] = "kubepods" /\ name[2] = class
      /\ Len(rest) = 2 /\ Len(bare) = 1 /\ bare[1] = "pod"
      /\ Len(burstable) = 3 /\ burstable[2] = "-burstable"
      /\ Len(besteffort) = 3 /\ Len(guaranteed) = 3
  OBVIOUS
<1>3. TrimSuffix(rest, ".slice") = <<spelt>>
  <2> DEFINE front == <<spelt>>
  <2>1. front \in Seq(words) /\ Len(rest) = 2 /\ rest # << >> /\ rest[2] = ".slice"
        /\ Len(front) = 1 /\ front[1] = rest[1]
    OBVIOUS
  <2> HIDE DEF rest, words, front
  <2>2. Front(rest) = front
    BY <1>1, <2>1 DEF Front
  <2> QED BY <2>1, <2>2 DEF TrimSuffix, Last, front
<1>4. TrimPrefix(name, <<"kubepods", class, "-pod">>) = rest
  BY TrimClass
<1> HIDE DEF name, rest, bare, burstable, besteffort, guaranteed, words
<1>5. TrimPrefix(name, bare) = name
  <2>1. 1 \in 1 .. Len(bare) /\ name[1] # bare[1]
    BY <1>2
  <2> QED BY <1>1, <2>1, TrimNothing
<1>6. TrimPrefix(rest, besteffort) = rest
  <2>1. 3 \in 1 .. Len(besteffort) /\ 3 > Len(rest)
    BY <1>2
  <2> QED BY <1>1, <2>1, TrimNothing
<1>7. TrimPrefix(rest, guaranteed) = rest
  <2>1. 3 \in 1 .. Len(guaranteed) /\ 3 > Len(rest)
    BY <1>2
  <2> QED BY <1>1, <2>1, TrimNothing
<1>8. TrimPodPrefixes(name) = rest
  <2>1. CASE class = "-burstable"
    <3>1. TrimPrefix(name, burstable) = rest
      BY <1>4, <2>1 DEF burstable
    <3> QED BY <1>5, <1>6, <1>7, <3>1
            DEF TrimPodPrefixes, bare, burstable, besteffort, guaranteed
  <2>2. CASE class = "-besteffort"
    <3>1. TrimPrefix(name, burstable) = name
      <4>1. 2 \in 1 .. Len(burstable) /\ name[2] # burstable[2]
        BY <1>2, <2>2
      <4> QED BY <1>1, <4>1, TrimNothing
    <3>2. TrimPrefix(name, besteffort) = rest
      BY <1>4, <2>2 DEF besteffort
    <3> QED BY <1>5, <1>7, <3>1, <3>2
            DEF TrimPodPrefixes, bare, burstable, besteffort, guaranteed
  <2> QED BY <2>1, <2>2 DEF Classes
<1>9. UIDIn(name) = <<Unescaped(spelt)>>
  <2>1. DOMAIN <<spelt>> = {1} /\ <<spelt>>[1] = spelt
    OBVIOUS
  <2>2. UIDIn(name) = [n \in DOMAIN <<spelt>> |-> Unescaped(<<spelt>>[n])]
    BY <1>3, <1>8 DEF UIDIn
  <2>3. [n \in DOMAIN <<spelt>> |-> Unescaped(<<spelt>>[n])] = <<Unescaped(spelt)>>
    BY <2>1
  <2> QED BY <2>2, <2>3
<1> QED BY <1>9 DEF name

\* ... and that of a Guaranteed pod keeps the words before it.
LEMMA SliceKeepsItsWords ==
    ASSUME NEW spelt, NEW uid
    PROVE  UIDIn(<<"kubepods", "-pod", spelt, ".slice">>) # <<uid>>
<1> DEFINE words == {"pod", "kubepods", "-burstable", "-besteffort", "-guaranteed", "-pod",
                     spelt, ".slice"}
           name == <<"kubepods", "-pod", spelt, ".slice">>
           rest == <<"kubepods", "-pod", spelt>>
           bare == <<"pod">>
           burstable == <<"kubepods", "-burstable", "-pod">>
           besteffort == <<"kubepods", "-besteffort", "-pod">>
           guaranteed == <<"kubepods", "-guaranteed", "-pod">>
<1>1. /\ name \in Seq(words) /\ bare \in Seq(words)
      /\ burstable \in Seq(words) /\ besteffort \in Seq(words) /\ guaranteed \in Seq(words)
  OBVIOUS
<1>2. /\ Len(name) = 4 /\ name[1] = "kubepods" /\ name[2] = "-pod"
      /\ Len(bare) = 1 /\ bare[1] = "pod"
      /\ Len(burstable) = 3 /\ burstable[2] = "-burstable"
      /\ Len(besteffort) = 3 /\ besteffort[2] = "-besteffort"
      /\ Len(guaranteed) = 3 /\ guaranteed[2] = "-guaranteed"
  OBVIOUS
<1>3. TrimSuffix(name, ".slice") = rest
  <2>1. rest \in Seq(words) /\ Len(rest) = 3 /\ name[4] = ".slice" /\ name # << >>
        /\ \A n \in 1 .. Len(rest) : rest[n] = name[n]
    OBVIOUS
  <2> HIDE DEF name, rest, words
  <2>2. Front(name) = rest
    BY <1>1, <1>2, <2>1 DEF Front
  <2> QED BY <1>2, <2>1, <2>2 DEF TrimSuffix, Last
<1>4. Len(rest) = 3 /\ DOMAIN rest = 1 .. 3
  OBVIOUS
<1> HIDE DEF name, rest, bare, burstable, besteffort, guaranteed, words
<1>5. TrimPrefix(name, bare) = name
  <2>1. 1 \in 1 .. Len(bare) /\ name[1] # bare[1]
    BY <1>2
  <2> QED BY <1>1, <2>1, TrimNothing
<1>6. TrimPrefix(name, burstable) = name /\ TrimPrefix(name, besteffort) = name
      /\ TrimPrefix(name, guaranteed) = name
  <2>1. /\ 2 \in 1 .. Len(burstable) /\ name[2] # burstable[2]
        /\ 2 \in 1 .. Len(besteffort) /\ name[2] # besteffort[2]
        /\ 2 \in 1 .. Len(guaranteed) /\ name[2] # guaranteed[2]
    BY <1>2
  <2>2. TrimPrefix(name, burstable) = name
    BY <1>1, <2>1, TrimNothing
  <2>3. TrimPrefix(name, besteffort) = name
    BY <1>1, <2>1, TrimNothing
  <2>4. TrimPrefix(name, guaranteed) = name
    BY <1>1, <2>1, TrimNothing
  <2> QED BY <2>2, <2>3, <2>4
<1>7. TrimPodPrefixes(name) = name
  BY <1>5, <1>6 DEF TrimPodPrefixes, bare, burstable, besteffort, guaranteed
<1>8. UIDIn(name) = [n \in DOMAIN rest |-> Unescaped(rest[n])]
  BY <1>3, <1>7 DEF UIDIn
<1>9. DOMAIN UIDIn(name) = 1 .. 3
  BY <1>4, <1>8
<1>10. DOMAIN <<uid>> = {1}
  OBVIOUS
<1>11. UIDIn(name) # <<uid>>
  BY <1>9, <1>10
<1> QED BY <1>11 DEF name

\* The directory that decides, where there is one of the kind.
LEMMA LastOfOne ==
    ASSUME NEW n \in Nat
    PROVE  Max({n}) = n
<1>1. \E x \in {n} : \A y \in {n} : x >= y
  OBVIOUS
<1> QED BY <1>1 DEF Max

LEMMA PathSpellsUID ==
    ASSUME NEW class \in Classes, NEW spelt, NEW id, id # "-pod"
    PROVE  PodUID(PathInClass(class, spelt, id)) = <<Unescaped(spelt)>>
<1> DEFINE slice == <<"kubepods", class, "-pod", spelt, ".slice">>
           path == PathInClass(class, spelt, id)
<1>1. /\ DOMAIN path = 1 .. 4
      /\ path[1] = <<"kubepods", ".slice">> /\ path[2] = <<"kubepods", class, ".slice">>
      /\ path[3] = slice /\ path[4] = <<"cri-containerd-", id, ".scope">>
  BY DEF PathInClass, Scope
<1>2. /\ ~HasPrefix(path[1], "pod") /\ "-pod" \notin ToSet(path[1])
      /\ ~HasPrefix(path[2], "pod") /\ "-pod" \notin ToSet(path[2])
      /\ ~HasPrefix(path[4], "pod") /\ "-pod" \notin ToSet(path[4])
      /\ "-pod" \in ToSet(path[3])
  BY <1>1 DEF HasPrefix, ToSet, Classes
<1> HIDE DEF path
<1>3. PodDirs(path) = {3}
  BY <1>1, <1>2 DEF PodDirs
<1>4. PodUID(path) = UIDIn(slice)
  BY <1>1, <1>3, LastOfOne DEF PodUID
<1> QED BY <1>4, SliceSpellsUID DEF path

LEMMA PathSpellsNoUID ==
    ASSUME NEW spelt, NEW id, id # "-pod", NEW uid
    PROVE  PodUID(PathGuaranteed(spelt, id)) # <<uid>>
<1> DEFINE slice == <<"kubepods", "-pod", spelt, ".slice">>
           path == PathGuaranteed(spelt, id)
<1>1. /\ DOMAIN path = 1 .. 3
      /\ path[1] = <<"kubepods", ".slice">> /\ path[2] = slice
      /\ path[3] = <<"cri-containerd-", id, ".scope">>
  BY DEF PathGuaranteed, Scope
<1>2. /\ ~HasPrefix(path[1], "pod") /\ "-pod" \notin ToSet(path[1])
      /\ ~HasPrefix(path[3], "pod") /\ "-pod" \notin ToSet(path[3])
      /\ "-pod" \in ToSet(path[2])
  BY <1>1 DEF HasPrefix, ToSet
<1> HIDE DEF path
<1>3. PodDirs(path) = {2}
  BY <1>1, <1>2 DEF PodDirs
<1>4. PodUID(path) = UIDIn(slice)
  BY <1>1, <1>3, LastOfOne DEF PodUID
<1> QED BY <1>4, SliceKeepsItsWords DEF path

-----------------------------------------------------------------------------
\* The name a collection gives a container's metrics: what the lookup of the
\* string cut out of its path finds among the pods listed (main.go:1118-1123).

Lookup(c) ==
    LET uid == PodUID(Path[c])
    IN  IF uid \in {<<pod>> : pod \in listed} THEN uid[1] ELSE NoPod

NamesInv ==
    /\ listed \subseteq AllPods
    /\ \A stat \in pending : stat.pod = Lookup(stat.owner) /\ IsContainer(Path[stat.owner])
    /\ \A label \in labels : /\ label[2] = Lookup(label[1])
                             /\ label[1] \in Containers /\ IsContainer(Path[label[1]])
    /\ pc = "idle" => labels = {}

LEMMA NamesStep ==
    ASSUME TypeOK, NamesInv, [Next]_vars
    PROVE  NamesInv'
<1>1. ASSUME UNCHANGED agent PROVE NamesInv'
  BY <1>1 DEF agent, NamesInv, Lookup
<1>2. CASE CollectStats
  <2>1. PICK read \in [Found -> SUBSET Files], pods \in Listings :
          /\ pending' = {enrichWithK8sMetadata(ReadStats(c, read[c]), pods) : c \in Found}
          /\ listed' = pods
    BY <1>2 DEF CollectStats
  <2>2. pods \subseteq AllPods /\ labels' = {}
    BY <1>2 DEF Listings, CollectStats, NamesInv
  <2>3. ASSUME NEW c \in Found
        PROVE  LET stat == enrichWithK8sMetadata(ReadStats(c, read[c]), pods)
               IN  stat.owner = c /\ stat.pod = Lookup(c)'
    <3>1. ReadStats(c, read[c]) \in Stats /\ ReadStats(c, read[c]).owner = c
      BY ReadStatsType, FoundRun
    <3>2. PICK stat \in Stats : stat = ReadStats(c, read[c]) /\ stat.owner = c
      BY <3>1
    <3>3. enrichWithK8sMetadata(stat, pods).owner = c
      BY <3>2, EnrichType, ListingsType
    <3>4. enrichWithK8sMetadata(stat, pods).pod = Lookup(c)'
      BY <2>1, <3>2 DEF enrichWithK8sMetadata, Lookup, Stats
    <3> QED BY <3>2, <3>3, <3>4
  <2>4. \A stat \in pending' : stat.pod = Lookup(stat.owner)' /\ IsContainer(Path[stat.owner])
    BY <2>1, <2>3 DEF Found
  <2> QED BY <2>1, <2>2, <2>4 DEF NamesInv
<1>3. CASE ConvertStat
  <2>1. PICK stat \in pending :
          /\ pending' = pending \ {stat}
          /\ labels' = labels \cup {<<stat.owner, stat.pod>>}
    BY <1>3 DEF ConvertStat
  <2>2. pc' = "convert" /\ listed' = listed
    BY <1>3 DEF ConvertStat
  <2>3. stat.owner \in Containers
    BY DEF TypeOK, Stats
  <2> QED BY <2>1, <2>2, <2>3 DEF NamesInv, Lookup
<1>4. CASE FinishPass
  BY <1>4 DEF FinishPass, HandOver, NamesInv
<1>5. ASSUME NEW c \in Containers, StartContainer(c) \/ StopContainer(c) \/ Work(c)
      PROVE  NamesInv'
  BY <1>1, <1>5 DEF StartContainer, StopContainer, Work
<1> QED BY <1>1, <1>2, <1>3, <1>4, <1>5 DEF Next, vars, agent

LEMMA Naming == Spec => []NamesInv
<1>1. Init => NamesInv
  BY DEF Init, NamesInv
<1> QED BY <1>1, NamesStep, TypeCorrect, PTL DEF Spec

\* Where the kubelet puts the containers of its pods, with the UID of the pod
\* spelt in the name of the slice; a container of no pod is below no directory
\* of a pod.  No container ID is the word "-pod".
InClass(c) ==
    \E class \in Classes : \E spelt, id :
        /\ Path[c] = PathInClass(class, spelt, id) /\ id # "-pod"
        /\ PodOf[c] = Unescaped(spelt)
InNoPod(c) == PodDirs(Path[c]) = {} /\ PodOf[c] = NoPod
IsGuaranteed(c) == \E spelt, id : Path[c] = PathGuaranteed(spelt, id) /\ id # "-pod"

\* Whatever the pods' UIDs and the containers' IDs are, the metrics of a
\* container of a Burstable or BestEffort pod carry the name of its pod whenever
\* the API listed it, and of no other, and those of a container of no pod carry
\* none: the four prefixes that are tried leave the UID and nothing else
\* (main.go:800-814, 1104-1123).
THEOREM PodsAreNamedRightly ==
    ASSUME \A c \in Containers : IsContainer(Path[c]) => InClass(c) \/ InNoPod(c)
    PROVE  Spec => []PodsAreNamed
<1>1. ASSUME NamesInv, NEW label \in labels
      PROVE  label[2] = IF PodOf[label[1]] \in listed THEN PodOf[label[1]] ELSE NoPod
  <2>1. PICK c \in Containers : c = label[1] /\ (InClass(c) \/ InNoPod(c))
    BY <1>1 DEF NamesInv
  <2>2. label[2] = Lookup(c) /\ NoPod \notin listed
    BY <1>1, <2>1 DEF NamesInv, AllPods
  <2>3. CASE InClass(c)
    <3>1. PodUID(Path[c]) = <<PodOf[c]>>
      BY <2>3, PathSpellsUID DEF InClass
    <3>2. <<PodOf[c]>>[1] = PodOf[c]
          /\ (<<PodOf[c]>> \in {<<pod>> : pod \in listed} <=> PodOf[c] \in listed)
      OBVIOUS
    <3> QED BY <2>1, <2>2, <3>1, <3>2 DEF Lookup
  <2>4. CASE InNoPod(c)
    <3>1. PodUID(Path[c]) = << >> /\ << >> \notin {<<pod>> : pod \in listed}
      BY <2>4 DEF InNoPod, PodUID
    <3> QED BY <2>1, <2>2, <2>4, <3>1 DEF Lookup, InNoPod
  <2> QED BY <2>1, <2>3, <2>4
<1>2. NamesInv => PodsAreNamed
  BY <1>1 DEF PodsAreNamed
<1> QED BY <1>2, Naming, PTL

\* Whatever else runs on the node and whatever the API lists, the metrics of a
\* container of a Guaranteed pod never carry a name: what the prefixes leave of
\* its slice is no UID (main.go:805-808 try a prefix kubepods-guaranteed-pod,
\* which the kubelet does not write).
THEOREM GuaranteedPodsStayUnnamed ==
    Spec => [](\A label \in labels : IsGuaranteed(label[1]) => label[2] = NoPod)
<1>1. ASSUME NamesInv, NEW label \in labels, IsGuaranteed(label[1])
      PROVE  label[2] = NoPod
  <2>1. PodUID(Path[label[1]]) \notin {<<pod>> : pod \in listed}
    BY <1>1, PathSpellsNoUID DEF IsGuaranteed
  <2> QED BY <1>1, <2>1 DEF NamesInv, Lookup
<1>2. NamesInv => \A label \in labels : IsGuaranteed(label[1]) => label[2] = NoPod
  BY <1>1
<1> QED BY <1>2, Naming, PTL

=============================================================================
