--------------------------- MODULE MetricsReports ---------------------------
(***************************************************************************)
(* The other Merge methods of metrics.go, and BgHealState.Merge              *)
(* (heal-commands.go): as in MetricsMerge, whose state this is, the reports  *)
(* of the nodes are merged into one that is zero at first, in the order they *)
(* arrive.  A report has the fields that its Merge treats in their own way;  *)
(* the many that are merely added up are represented by one.                *)
(***************************************************************************)
EXTENDS MetricsMerge, Sequences, SequencesExt

CONSTANT Given   \* for each kind of metric, the reports of it to look at

Kinds == {"API", "RPC", "Replication", "Connection", "Memory", "CPU", "Sensor", "Jobs",
          "Resync", "Scanner", "Hosts", "Healing", "Runtime", "Process", "Handlers", "Net", "Days"}

NoEntry == [k \in {} |-> Nil]   \* an empty map

ZeroOf ==
  [API         |-> [count |-> 0, from |-> Nil, least |-> 0, most |-> 0],
   RPC         |-> [count |-> 0, from |-> Nil],
   Replication |-> [nodes |-> 0, count |-> 0, from |-> Nil, most |-> 0],
   Connection  |-> [count |-> 0, pong |-> 0, ping |-> 0, most |-> 0],
   Memory      |-> [count |-> 0, addr |-> Nil],
   CPU         |-> [count |-> 0, least |-> 0, most |-> 0],
   Sensor      |-> [count |-> 0, least |-> 0, most |-> 0],
   Jobs        |-> [at |-> 0, by |-> NoEntry],
   Resync      |-> [at |-> 0, by |-> Nil],
   Scanner     |-> [by |-> NoEntry, names |-> <<>>, prefixes |-> <<>>],
   Hosts       |-> [at |-> 0, by |-> NoEntry, names |-> <<>>],
   Healing     |-> [count |-> 0, by |-> NoEntry, sets |-> <<>>, parity |-> Nil],
   Runtime     |-> [count |-> 0, hist |-> Nil],
   Process     |-> [count |-> 0, at |-> 0],
   Handlers    |-> [by |-> NoEntry],
   Net         |-> [by |-> NoEntry],
   Days        |-> [day |-> Nil]]

\* The fields of a report of kind k are those of the zero value; counts and times
\* are numbers, and names are represented by numbers.
Typed(k, r) ==
  /\ DOMAIN r = DOMAIN ZeroOf[k] /\ r = [f \in DOMAIN r |-> r[f]]
  /\ \A f \in DOMAIN r : f \in {"nodes", "count", "least", "most", "at", "pong"} => r[f] \in Nat
  /\ k = "Runtime" => r.hist \in Maybe(Nat)
  /\ k \in {"Handlers", "Net"} => \A h \in DOMAIN r.by : r.by[h].count \in Nat
  /\ k = "Jobs" => \A j \in DOMAIN r.by : r.by[j].at \in Nat
  /\ k \in {"Hosts", "Scanner"} => r.names \in Seq(Nat)
  /\ k = "Scanner" => r.prefixes \in Seq(Nat)
  /\ k = "Days" => r.day \in Maybe(Series)
  /\ k = "Healing" => r.sets \in Seq([id : Nat, disks : Seq(Nat)])

ASSUME ReportsAssumption ==
  DOMAIN Given \subseteq Kinds /\ \A k \in DOMAIN Given : \A r \in Given[k] : Typed(k, r)

----------------------------------------------------------------------------
(* The Merge methods.                                                       *)

\* StartTime, and EndTime likewise: kept while those agree that have one.
RangeMerge(a, count, b) ==
  LET first == IF a = Nil /\ count = 0 THEN b ELSE a
  IN IF first # Nil /\ b # Nil /\ first # b THEN Nil ELSE first

\* Mutant: an empty receiver takes part in the minimum.
Bounds_Plain(a, b) == <<a, b>>

\* "Find 2 to min/max. If we have 1, just use that twice."
Bounds(a, b) ==
  LET at == IF a.count + b.count = b.count THEN b ELSE a
  IN <<at, IF b.count = 0 THEN at ELSE b>>

APIMerge(a, b) ==
  LET two  == Bounds(a, b)
      some == a.count + b.count # 0
  IN [count |-> a.count + b.count,
      from  |-> RangeMerge(a.from, a.count, b.from),
      least |-> IF some THEN Smaller(two[1].least, two[2].least) ELSE a.least,
      most  |-> IF some THEN Larger(two[1].most, two[2].most) ELSE a.most]

RPCMerge(a, b) == [count |-> a.count + b.count, from |-> RangeMerge(a.from, a.count, b.from)]

\* Mutant: a report of no node counts.
ReplicationAdd_Always(a, b) ==
  [nodes |-> a.nodes + b.nodes, count |-> a.count + b.count,
   from  |-> RangeMerge(a.from, a.count, b.from), most |-> Larger(a.most, b.most)]

\* ReplicationStats.Add: a report of no node is passed over.
ReplicationAdd(a, b) ==
  IF b.nodes = 0 THEN a ELSE
  [nodes |-> a.nodes + b.nodes, count |-> a.count + b.count,
   from  |-> RangeMerge(a.from, a.count, b.from), most |-> Larger(a.most, b.most)]

ConnectionMerge(a, b) ==
  [count |-> a.count + b.count, pong |-> Larger(a.pong, b.pong),
   ping  |-> IF a.pong < b.pong THEN b.ping ELSE a.ping, most |-> Larger(a.most, b.most)]

\* NodeCommon is that of the one node, or empty.
MemoryMerge(a, b) ==
  [count |-> a.count + b.count,
   addr  |-> IF a.count = 0 /\ a.addr = Nil THEN b.addr ELSE IF a.addr # b.addr THEN Nil ELSE a.addr]

\* A frequency of zero is unknown.
CPUMerge(a, b) ==
  [count |-> a.count + b.count,
   least |-> IF b.least > 0 /\ (a.count = 0 \/ b.least < a.least) THEN b.least ELSE a.least,
   most  |-> Larger(a.most, b.most)]

\* One sensor key of OSMetrics.
SensorMerge(a, b) ==
  [count |-> a.count + b.count,
   least |-> IF a.count = 0 THEN b.least ELSE Smaller(a.least, b.least),
   most  |-> IF a.count = 0 THEN b.most ELSE Larger(a.most, b.most)]

Overlay(f, g) == [k \in DOMAIN f \union DOMAIN g |-> IF k \in DOMAIN f THEN f[k] ELSE g[k]]

\* Mutant: the job of the last report.
Newer_Last(old, new) == TRUE

Newer(old, new) == old.at < new.at

\* "Use latest metrics": for each job.
JobsMerge(a, b) ==
  IF b.by = NoEntry THEN a ELSE
  [at |-> Larger(a.at, b.at),
   by |-> Overlay([k \in {j \in DOMAIN b.by : j \notin DOMAIN a.by \/ Newer(a.by[j], b.by[j])} |-> b.by[k]],
               a.by)]

ResyncMerge(a, b) == IF a.at < b.at THEN b ELSE a

\* The place of the j-th of the numbers in key when these are put in order.
Place(key, j) == Cardinality({k \in DOMAIN key : key[k] < key[j] \/ (key[k] = key[j] /\ k <= j)})

\* sort.Strings and sort.Slice: s in the order of key.
Sorted(s, key)   == [i \in DOMAIN s |-> s[CHOOSE j \in DOMAIN s : Place(key, j) = i]]
SortedBoth(s, t) == Sorted(s \o t, s \o t)
Listed(S)        == Sorted(SetToSeq(S), SetToSeq(S))

\* PerBucketStats: the first report of a bucket counts; an empty one is none.
ScannerMerge(a, b) ==
  [by       |-> Overlay(a.by, [k \in {j \in DOMAIN b.by : b.by[j] # <<>>} |-> b.by[k]]),
   names    |-> SortedBoth(a.names, b.names),
   prefixes |-> IF b.prefixes = <<>> THEN a.prefixes
                ELSE Listed(ToSet(a.prefixes) \union ToSet(b.prefixes))]

\* ByHost and ByDisk: the last report of a key counts.
ByMerge(a, b) == Overlay(b, a)

\* RealtimeMetrics.
HostsMerge(a, b) ==
  [at |-> Larger(a.at, b.at), by |-> ByMerge(a.by, b.by), names |-> SortedBoth(a.names, b.names)]

\* One set of BgHealState.Merge: its disks go to those of the same set.
AddSet(sets, s) ==
  LET found == {i \in DOMAIN sets : sets[i].id = s.id}
  IN IF found = {} THEN Append(sets, s)
     ELSE [sets EXCEPT ![CHOOSE i \in found : \A j \in found : j <= i].disks = @ \o s.disks]

BySet(sets) == Sorted(sets, [i \in DOMAIN sets |-> sets[i].id])

\* The MRF states (by) are those of the last report; the parity is that of the
\* first, which is an empty map if that had none.
HealingMerge(a, b) ==
  [count  |-> a.count + b.count, by |-> Overlay(b.by, a.by),
   parity |-> IF a.parity = Nil THEN (IF b.parity = Nil THEN 0 ELSE b.parity) ELSE a.parity,
   sets   |-> BySet(FoldLeft(AddSet, a.sets, b.sets))]

\* Histograms, of one set of buckets, are added up in place.
RuntimeMerge(a, b) ==
  [count |-> a.count + b.count,
   hist  |-> IF b.hist = Nil THEN a.hist ELSE IF a.hist = Nil THEN b.hist ELSE a.hist + b.hist]

ProcessMerge(a, b) == [count |-> a.count + b.count, at |-> Larger(a.at, b.at)]

\* LastMinute of RPCMetrics, handler by handler; so LastMinuteAPI of APIMetrics and
\* ByDestination and ByCaller of RPCMetrics.
HandlersMerge(a, b) ==
  [k \in DOMAIN a \union DOMAIN b |->
     IF k \notin DOMAIN b THEN a[k]
     ELSE RPCMerge(IF k \in DOMAIN a THEN a[k] ELSE ZeroOf["RPC"], b[k])]

\* Interfaces of NetMetrics: the number of reports (n) is not added up, and so is
\* that of no report.
NetMerge(a, b) ==
  [k \in DOMAIN a \union DOMAIN b |->
     IF k \notin DOMAIN b THEN a[k]
     ELSE IF k \notin DOMAIN a THEN [b[k] EXCEPT !.n = 0]
     ELSE [n |-> a[k].n, count |-> a[k].count + b[k].count]]

\* LastDay of one handler or target: the first series is taken over, others are
\* added.
DaysMerge(a, b) == IF b = Nil THEN a ELSE IF a = Nil THEN b ELSE SegmentsAdd(a, b)

Combined(a, b) ==
  CASE kind = "API"         -> APIMerge(a, b)
    [] kind = "RPC"         -> RPCMerge(a, b)
    [] kind = "Replication" -> ReplicationAdd(a, b)
    [] kind = "Connection"  -> ConnectionMerge(a, b)
    [] kind = "Memory"      -> MemoryMerge(a, b)
    [] kind = "CPU"         -> CPUMerge(a, b)
    [] kind = "Sensor"      -> SensorMerge(a, b)
    [] kind = "Jobs"        -> JobsMerge(a, b)
    [] kind = "Resync"      -> ResyncMerge(a, b)
    [] kind = "Scanner"     -> ScannerMerge(a, b)
    [] kind = "Hosts"       -> HostsMerge(a, b)
    [] kind = "Healing"     -> HealingMerge(a, b)
    [] kind = "Runtime"     -> RuntimeMerge(a, b)
    [] kind = "Process"     -> ProcessMerge(a, b)
    [] kind = "Handlers"    -> [by |-> HandlersMerge(a.by, b.by)]
    [] kind = "Net"         -> [by |-> NetMerge(a.by, b.by)]
    [] kind = "Days"        -> [day |-> DaysMerge(a.day, b.day)]

----------------------------------------------------------------------------
ReportsInit ==
  /\ kind \in DOMAIN Given /\ sent \in [Nodes -> Given[kind]] /\ reports = sent
  /\ acc = ZeroOf[kind] /\ shares = [f \in {"hist"} |-> Nil] /\ todo = Nodes

\* Whose histogram acc has: that of the first report that has one.
SharedHist(i) == IF acc.hist = Nil /\ reports[i].hist # Nil THEN i ELSE shares["hist"]

MergeReport(i) ==
  /\ kind \in Kinds /\ i \in todo /\ todo' = todo \ {i}
  /\ acc' = Combined(acc, reports[i])
  /\ shares' = [f \in {"hist"} |-> IF kind = "Runtime" THEN SharedHist(i) ELSE Nil]
  /\ reports' = [j \in Nodes |-> [f \in DOMAIN reports[j] |->
                  IF f = "hist" /\ shares'[f] = j THEN acc'[f] ELSE reports[j][f]]]
  /\ UNCHANGED <<kind, sent>>

ReportsNext == \E i \in Nodes : MergeReport(i)
ReportsSpec == ReportsInit /\ [][ReportsNext]_vars

----------------------------------------------------------------------------
(* Totals over the handlers of one report, in the random order of a map.    *)

\* Mutant: the ranges are not given up when some handlers have none.
Totalled_AsIs(s, all) == s

\* The first loop of RPCMetrics.LastMinuteTotal.
Totalled(s, all) ==
  IF \E t, u \in Range(all) : t.from # Nil /\ u.from = Nil THEN [s EXCEPT !.from = Nil] ELSE s

\* RPCMetrics.LastMinuteTotal: order is a sequence of the handlers.
LastMinuteTotal(stats, order) ==
  FoldLeft(RPCMerge, ZeroOf["RPC"], [k \in DOMAIN order |-> Totalled(stats[order[k]], stats)])

----------------------------------------------------------------------------
(* Properties.                                                              *)

Ready(k) == kind = k /\ todo = {}
Sent(f)   == {sent[i][f] : i \in Nodes}
Busy      == {i \in Nodes : sent[i].count > 0}

\* Rule 1 (metrics.go:295): the numbers are those of all reports, but for
\* reports of replication that speak for no node; also handler by handler and
\* interface by interface.
CountsAddUp ==
  /\ Ready("Handlers") \/ Ready("Net") => \A k \in UNION {DOMAIN m : m \in Sent("by")} :
       k \in DOMAIN acc.by /\
       acc.by[k].count = SumFunction([i \in {j \in Nodes : k \in DOMAIN sent[j].by} |-> sent[i].by[k].count])
  /\ todo = {} /\ kind \in Kinds /\ "count" \in DOMAIN acc =>
       acc.count = SumFunction([i \in {j \in Nodes : kind = "Replication" => sent[j].nodes > 0} |-> sent[i].count])
  /\ Ready("Runtime") /\ acc.hist # Nil => acc.hist = SumFunction([i \in Of("hist") |-> sent[i].hist])

\* The least and the greatest request time are those of the reports with requests,
\* whatever empty ones come between.  Of temperatures and frequencies none that was
\* read lies outside what is given, and what is given was reported, if only as
\* the zero of an empty report or of an unknown frequency; a frequency that every
\* report with processors knows is not lost to that zero.
ExtremesOfReports ==
  /\ Ready("API") /\ Busy # {} =>
       /\ acc.least = Lowest({sent[i].least : i \in Busy})
       /\ acc.most = Highest({sent[i].most : i \in Busy})
  /\ Ready("Sensor") =>
       /\ acc.least \in Sent("least") /\ acc.most \in Sent("most")
       /\ \A i \in Busy : acc.least <= sent[i].least /\ sent[i].most <= acc.most
  /\ Ready("CPU") =>
       LET known == {i \in Nodes : sent[i].least > 0} IN
       /\ acc.most = Highest(Sent("most"))
       /\ acc.least \in {0} \cup {sent[i].least : i \in known}
       /\ known \subseteq Busy => \A i \in known : acc.least <= sent[i].least
       /\ known = Busy /\ Busy # {} => acc.least > 0

\* The reports that count: one of replication that speaks for no node is passed over.
Heard == {i \in Nodes : kind = "Replication" => sent[i].nodes > 0}

\* A total has a time range only if every report with requests that tells one tells
\* this one, and has it if every report with requests does and no other speaks
\* against it (metrics.go:1614).  So has the memory the name of a node only if all
\* reports with memory are of that node, and has it if all reports are
\* (metrics.go:1157).
RangeIfAllAgree ==
  /\ todo = {} /\ kind \in {"API", "RPC", "Replication"} =>
       /\ acc.from # Nil =>
            /\ acc.from \in {sent[i].from : i \in Heard}
            /\ \A i \in Busy \cap Heard : sent[i].from \in {acc.from, Nil}
       /\ \A p \in {sent[i].from : i \in Busy \cap Heard} :
            (\A i \in Busy \cap Heard : sent[i].from = p) /\ (\A i \in Heard : sent[i].from \in {p, Nil})
            => acc.from = p
  /\ Ready("Memory") =>
       /\ acc.addr # Nil => \A i \in Busy : sent[i].addr = acc.addr
       /\ Common("addr") # Nil => acc.addr = Common("addr")

\* For every job, for the resynchronisation and for the last ping the newest
\* report counts, whenever it arrives ("Use latest metrics", metrics.go:1003).
LatestWins ==
  /\ Ready("Jobs") => \A i \in Nodes : \A j \in DOMAIN sent[i].by :
       j \in DOMAIN acc.by /\ acc.by[j].at >= sent[i].by[j].at
  /\ Ready("Resync") => \A i \in Nodes : acc.at >= sent[i].at
  /\ Ready("Connection") /\ acc.pong > 0 =>
       \E i \in Nodes : sent[i].pong = Highest(Sent("pong")) /\ acc.ping = sent[i].ping

\* No host, disk or bucket is lost, and what is said of it was reported by some
\* node; two nodes that report the same one overwrite each other
\* (metrics.go:318, metrics.go:483).  The parity is given if every node has it,
\* being "the same from all nodes" (heal-commands.go:457).
KeyedReportsKept ==
  todo = {} /\ kind \in {"Jobs", "Scanner", "Hosts", "Healing"} =>
    LET has(k) == {i \in Nodes : k \in DOMAIN sent[i].by /\ (kind = "Scanner" => sent[i].by[k] # <<>>)} IN
    /\ \A i \in Nodes : \A k \in DOMAIN sent[i].by : has(k) # {} => k \in DOMAIN acc.by
    /\ \A k \in DOMAIN acc.by : \E i \in has(k) : acc.by[k] = sent[i].by[k]
    /\ kind = "Healing" /\ Nil \notin Sent("parity") => acc.parity \in Sent("parity")

\* Hosts and active paths are listed in order, each as often as it was reported;
\* excessive prefixes once.
SortedListings ==
  LET times(s, n) == Cardinality({j \in DOMAIN s : s[j] = n}) IN
  /\ Ready("Hosts") \/ Ready("Scanner") =>
       /\ IsSorted(acc.names, <=)
       /\ \A n \in UNION {ToSet(s) : s \in Sent("names")} :
            times(acc.names, n) = SumFunction([i \in Nodes |-> times(sent[i].names, n)])
  /\ Ready("Scanner") =>
       /\ IsSorted(acc.prefixes, <)
       /\ ToSet(acc.prefixes) = UNION {ToSet(s) : s \in Sent("prefixes")}

\* Every drive that a node reports is in its set, and the sets are in order, each
\* once, also when a set reaches over nodes (heal-commands.go:478).
DrivesInTheirSets ==
  Ready("Healing") =>
    /\ \A i, j \in DOMAIN acc.sets : i < j => acc.sets[i].id < acc.sets[j].id
    /\ \A n \in Nodes : \A k \in DOMAIN sent[n].sets : \E i \in DOMAIN acc.sets :
         /\ acc.sets[i].id = sent[n].sets[k].id
         /\ ToSet(sent[n].sets[k].disks) \subseteq ToSet(acc.sets[i].disks)

\* The least and greatest of everything that has one.
ExtremesKept == ExtremesOfActions /\ SpaceExtremes /\ ExtremesOfReports

\* What is reported with a name or a place: all of it is there, in order, and the
\* newest of what is replaced.
EntriesKept == KeyedReportsKept /\ LatestWins /\ SortedListings /\ DrivesInTheirSets

\* RPCMetrics.LastMinuteTotal is the same in whatever order the map of handlers
\* is walked, with and without time ranges (metrics.go:1378), provided that a
\* handler without requests has none.
TotalIndependent ==
  Ready("RPC") /\ (\A i \in Nodes : sent[i].count = 0 => sent[i].from = Nil) =>
    \A o, q \in SetToSeqs(Nodes) : LastMinuteTotal(sent, o) = LastMinuteTotal(sent, q)

\* The time ranges of totals, over reports and over handlers.
RangesAgree == RangeIfAllAgree /\ TotalIndependent

----------------------------------------------------------------------------
(* What the comments say and the code does not do (violation runs).         *)

\* metrics.go:295, "All metrics must be accumulated": the number of reports of an
\* interface is not (metrics.go:1098).
InterfacesCounted ==
  Ready("Net") => \A k \in DOMAIN acc.by :
    acc.by[k].n = SumFunction([i \in {j \in Nodes : k \in DOMAIN sent[j].by} |-> sent[i].by[k].n])

\* metrics.go:296, "If a field is not set in the other, it is not modified": the
\* least temperature is one of those that were read, though an empty report
\* brings the zero of none (metrics.go:888) ...
TemperaturesOfReadings ==
  Ready("Sensor") /\ Busy # {} => acc.least = Lowest({sent[i].least : i \in Busy})
\* ... the least frequency one that is known (metrics.go:1262) ...
FrequenciesOfKnown ==
  Ready("CPU") => \A i \in Nodes : sent[i].least > 0 => acc.least \in 1..sent[i].least
\* ... and the time range that of the reports that tell one (metrics.go:1614).
RangeOfTold ==
  Ready("API") => \A i \in Busy :
    sent[i].from # Nil /\ (\A j \in Nodes : sent[j].from \in {sent[i].from, Nil}) => acc.from = sent[i].from

\* heal-commands.go:475, "Add disk if not present.  If present select the one
\* with latest lastupdate".
EachDriveOnce ==
  Ready("Healing") => \A i \in DOMAIN acc.sets : IsInjective(acc.sets[i].disks)
=============================================================================
