------------------------- MODULE NodeMetricsProofs -------------------------
(***************************************************************************)
(* What the node's metrics may be, whatever /proc says.                    *)
(***************************************************************************)
EXTENDS NodeMetrics, FiniteSetTheorems, TLAPS

\* A sum of numbers that are not negative bounds each of them, and is zero only
\* when all of them are.
LEMMA SumOfFive ==
    ASSUME NEW a \in Nat, NEW b \in Nat, NEW c \in Nat, NEW d \in Nat, NEW e \in Nat
    PROVE  /\ a + b + c + d + e \in Nat
           /\ {a, c, d, e} \subseteq 0 .. (a + b + c + d + e)
           /\ a + b + c + d + e # 0 <=> a > 0 \/ b > 0 \/ c > 0 \/ d > 0 \/ e > 0
<1>1. a + b + c + d + e \in Nat
  OBVIOUS
<1>2. a <= a + b + c + d + e /\ c <= a + b + c + d + e
  OBVIOUS
<1>3. d <= a + b + c + d + e /\ e <= a + b + c + d + e
  OBVIOUS
<1> QED BY <1>1, <1>2, <1>3

\* The percentages of the CPU are between 0 and 100 and are numbers, unless no
\* time at all was counted: then none of them is (main.go:491-498 divides by
\* the sum of what it divides).
THEOREM CPUPercentages ==
    ASSUME NEW stat \in Seq(Nat), NEW m \in readNodeCPU(stat)
    PROVE  /\ m.value.part \in 0 .. m.value.whole
           /\ Finite(m.value) <=> \E n \in 1 .. 5 : n <= Len(stat) /\ stat[n] > 0
<1> DEFINE iowait == IF Len(stat) > 4 THEN stat[5] ELSE 0
           total == stat[1] + stat[2] + stat[3] + stat[4] + iowait
<1>1. Len(stat) \in Nat /\ Len(stat) >= 4
  BY DEF readNodeCPU
<1>2. stat[1] \in Nat /\ stat[2] \in Nat /\ stat[3] \in Nat /\ stat[4] \in Nat
  BY <1>1
<1>3. iowait \in Nat /\ (Len(stat) > 4 => stat[5] \in Nat)
  BY <1>1
<1>4. m.value.whole = total /\ m.value.part \in {stat[1], stat[3], stat[4], iowait}
  BY <1>1 DEF readNodeCPU, Metric, Quotient
<1>5. (Len(stat) > 4 => iowait = stat[5]) /\ (Len(stat) <= 4 => iowait = 0)
  BY <1>1
<1> HIDE DEF iowait
<1>6. /\ {stat[1], stat[3], stat[4], iowait} \subseteq 0 .. total
      /\ total # 0 <=> stat[1] > 0 \/ stat[2] > 0 \/ stat[3] > 0 \/ stat[4] > 0 \/ iowait > 0
  <2> DEFINE user == stat[1]
             nice == stat[2]
             system == stat[3]
             idle == stat[4]
  <2>1. user \in Nat /\ nice \in Nat /\ system \in Nat /\ idle \in Nat /\ total = user + nice + system + idle + iowait
    BY <1>2
  <2> HIDE DEF user, nice, system, idle, total
  <2>2. /\ {user, system, idle, iowait} \subseteq 0 .. total
        /\ total # 0 <=> user > 0 \/ nice > 0 \/ system > 0 \/ idle > 0 \/ iowait > 0
    BY <2>1, <1>3, SumOfFive
  <2> QED BY <2>2 DEF user, nice, system, idle
<1> HIDE DEF total
<1>7. iowait > 0 <=> 5 <= Len(stat) /\ stat[5] > 0
  BY <1>1, <1>5
<1>8. total # 0 <=> \E n \in 1 .. 5 : n <= Len(stat) /\ stat[n] > 0
  <2>1. ASSUME NEW n \in 1 .. 5, n <= Len(stat), stat[n] > 0 PROVE total # 0
    <3>1. n = 1 \/ n = 2 \/ n = 3 \/ n = 4 \/ n = 5
      BY <2>1
    <3> QED BY <3>1, <2>1, <1>6, <1>7
  <2>2. ASSUME total # 0 PROVE \E n \in 1 .. 5 : n <= Len(stat) /\ stat[n] > 0
    <3>1. 1 <= Len(stat) /\ 2 <= Len(stat) /\ 3 <= Len(stat) /\ 4 <= Len(stat)
      BY <1>1
    <3> QED BY <3>1, <2>2, <1>6, <1>7
  <2> QED BY <2>1, <2>2
<1> QED BY <1>4, <1>6, <1>8 DEF Finite

LEMMA FourFinite ==
    ASSUME NEW a, NEW b, NEW c, NEW d
    PROVE  IsFiniteSet({a, b, c, d})
<1>1. IsFiniteSet({a})
  BY FS_Singleton
<1>2. IsFiniteSet({a} \cup {b})
  BY <1>1, FS_AddElement
<1>3. IsFiniteSet(({a} \cup {b}) \cup {c})
  BY <1>2, FS_AddElement
<1>4. IsFiniteSet((({a} \cup {b}) \cup {c}) \cup {d})
  BY <1>3, FS_AddElement
<1>5. {a, b, c, d} = (({a} \cup {b}) \cup {c}) \cup {d}
  OBVIOUS
<1> QED BY <1>4, <1>5

\* What is read are finitely many metrics, however long the files are, as long
\* as /proc/meminfo has finitely many lines.
LEMMA NodeMetricsFinite ==
    ASSUME NEW proc, IsFiniteSet(DOMAIN proc.meminfo)
    PROVE  IsFiniteSet(collectNodeMetrics(proc))
<1>1. IsFiniteSet(readNodeCPU(proc.stat))
  <2> DEFINE iowait == IF Len(proc.stat) > 4 THEN proc.stat[5] ELSE 0
             total == proc.stat[1] + proc.stat[2] + proc.stat[3] + proc.stat[4] + iowait
             four == <<Metric("user_percent", Quotient(proc.stat[1], total)),
                       Metric("system_percent", Quotient(proc.stat[3], total)),
                       Metric("idle_percent", Quotient(proc.stat[4], total)),
                       Metric("iowait_percent", Quotient(iowait, total))>>
             all == {four[1], four[2], four[3], four[4]}
  <2>1. readNodeCPU(proc.stat) \subseteq all
    BY DEF readNodeCPU
  <2> HIDE DEF four
  <2>3. IsFiniteSet(all)
    BY FourFinite
  <2> QED BY <2>1, <2>3, FS_Subset
<1>2. IsFiniteSet(readNodeMemory(proc.meminfo))
  <2> DEFINE lines == proc.meminfo
             made == {Metric(name, Number(lines[name])) : name \in DOMAIN lines}
             make == [name \in DOMAIN lines |-> Metric(name, Number(lines[name]))]
             used == lines["total"] - lines["available"]
             two == <<Metric("used", Number(used)),
                      Metric("used_percent", Quotient(used, lines["total"]))>>
             all == (made \cup {two[1]}) \cup {two[2]}
  <2>1. make \in Surjection(DOMAIN lines, made)
    BY DEF Surjection
  <2>2. IsFiniteSet(made)
    BY <2>1, FS_Surjection
  <2>3. readNodeMemory(proc.meminfo) \subseteq all
    BY DEF readNodeMemory
  <2> HIDE DEF made, two
  <2>4. IsFiniteSet(all)
    BY <2>2, FS_AddElement
  <2> QED BY <2>3, <2>4, FS_Subset
<1>3. IsFiniteSet(readNodeNetwork(proc.net))
  <2> DEFINE counted == SelectSeq(SubSeq(proc.net, 3, Len(proc.net)),
                                  LAMBDA i : i.kind \notin {"lo", "veth", "docker"})
             sum(name) == FoldLeft(LAMBDA n, i : n + i[name], 0, counted)
             made == {Metric(name, Number(sum(name))) : name \in NetworkCounters}
             make == [name \in NetworkCounters |-> Metric(name, Number(sum(name)))]
  <2>1. readNodeNetwork(proc.net) \subseteq made
    BY DEF readNodeNetwork
  <2> HIDE DEF sum
  <2>2. make \in Surjection(NetworkCounters, made)
    BY DEF Surjection
  <2>3. NetworkCounters = {"rx_bytes", "tx_bytes", "rx_packets", "tx_packets"}
                          \cup {"rx_errors", "tx_errors", "tx_errors", "tx_errors"}
    BY DEF NetworkCounters
  <2>4. IsFiniteSet(NetworkCounters)
    BY <2>3, FourFinite, FS_Union
  <2>5. IsFiniteSet(made)
    BY <2>2, <2>4, FS_Surjection
  <2> QED BY <2>1, <2>5, FS_Subset
<1> QED BY <1>1, <1>2, <1>3, FS_Union DEF collectNodeMetrics

=============================================================================
