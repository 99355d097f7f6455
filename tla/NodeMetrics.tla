---------------------------- MODULE NodeMetrics ----------------------------
(***************************************************************************)
(* The metrics of the node (src/main.go), read from three files of /proc   *)
(* at each collection.  A file that cannot be read is << >> and leaves its *)
(* metrics out; the others stay.                                           *)
(***************************************************************************)
EXTENDS Integers, Sequences, FiniteSets, SequencesExt

\* A value is a quotient of two numbers; Go divides by zero without an error,
\* and json.Marshal refuses what comes out.
Number(n) == [part |-> n, whole |-> 1]
Quotient(m, n) == [part |-> m, whole |-> n]
Finite(value) == value.whole # 0

Metric(name, value) == [name |-> name, value |-> value]

\* /proc/stat: the numbers of the line cpu, which are counted since boot: user,
\* nice, system, idle, and iowait where the kernel has it, among others.
readNodeCPU(stat) ==
    IF Len(stat) < 4 THEN {}
    ELSE LET iowait == IF Len(stat) > 4 THEN stat[5] ELSE 0
             total == stat[1] + stat[2] + stat[3] + stat[4] + iowait
         IN  {Metric("user_percent", Quotient(stat[1], total)),
              Metric("system_percent", Quotient(stat[3], total)),
              Metric("idle_percent", Quotient(stat[4], total)),
              Metric("iowait_percent", Quotient(iowait, total))}

\* /proc/meminfo: its lines by their names in the metrics ("total", "free",
\* "available", "buffers", "cached", "swap_total", "swap_free").
readNodeMemory(meminfo) ==
    LET used == meminfo["total"] - meminfo["available"]
    IN  {Metric(name, Number(meminfo[name])) : name \in DOMAIN meminfo}
        \cup IF {"total", "available"} \subseteq DOMAIN meminfo
             THEN {Metric("used", Number(used)),
                   Metric("used_percent", Quotient(used, meminfo["total"]))}
             ELSE {}

\* /proc/net/dev: its lines, two of a header and one per interface.  The six
\* counters are summed over the interfaces that are neither the loopback nor a
\* container's; without such an interface the sums are zero and still reported.
\* The kernel always writes the header; text of one line without an end would
\* make the slice lines[2:] panic.
NetworkCounters ==
    {"rx_bytes", "tx_bytes", "rx_packets", "tx_packets", "rx_errors", "tx_errors"}
readNodeNetwork(lines) ==
    LET counted == SelectSeq(SubSeq(lines, 3, Len(lines)),
                             LAMBDA i : i.kind \notin {"lo", "veth", "docker"})
    IN  IF lines = << >> THEN {}
        ELSE {Metric(name, Number(FoldLeft(LAMBDA n, i : n + i[name], 0, counted))) :
                  name \in NetworkCounters}

collectNodeMetrics(proc) ==
    readNodeCPU(proc.stat) \cup readNodeMemory(proc.meminfo) \cup readNodeNetwork(proc.net)

=============================================================================
