---------------------------- MODULE MetricsMerge ----------------------------
(***************************************************************************)
(* DiskMetric.Merge (metrics.go) and what it calls: the reports of several  *)
(* nodes are merged, in the order they happen to arrive, into one that is   *)
(* zero at first.  The maps and the *CacheStats of a DiskMetric are shared  *)
(* between copies of it; "shares" says with which report the accumulated    *)
(* metric shares them, and a write through the one shows in the other.      *)
(*                                                                          *)
(* A map is represented by one of its entries, a sum by one of its numbers. *)
(***************************************************************************)
EXTENDS Naturals, FiniteSets, Functions, MetricsSegments

CONSTANTS
  Nodes,    \* the nodes that report
  Reports,  \* the DiskMetrics a node may report
  Nil       \* nil pointer, nil map

ASSUME MergeAssumption == IsFiniteSet(Nodes) /\ Nodes # {} /\ Nil \notin Nodes \cup Nat

\* The statistics of an operation that was never called have no longest call.
Actions == {o \in [count : Nat, min : Nat, max : Nat] : o.count = 0 => o.max = 0}
Spaces  == [n : Nat, total : Nat, min : Nat, max : Nat]
Maybe(S) == S \cup {Nil}

Maps   == {"state", "op", "day", "cache"}
ZeroOp == [count |-> 0, min |-> 0, max |-> 0]
Zero   == [n |-> 0, at |-> 0, pool |-> Nil, set |-> Nil, state |-> Nil, cache |-> Nil,
           space |-> [n |-> 0, total |-> 0, min |-> 0, max |-> 0], op |-> Nil, day |-> Nil, heal |-> Nil]

\* A set is one of a pool, and is not known without it.  A report of no drives has
\* a time and perhaps a place; all else it could tell is of drives.
DiskMetrics ==
  {r \in [n : Nat, at : Nat, pool : Maybe(Nat), set : Maybe(Nat), state : Maybe(Nat),
          cache : Maybe(Nat), space : Spaces, op : Maybe(Actions), day : Maybe(Series), heal : Maybe(Nat)] :
     /\ r.pool = Nil => r.set = Nil
     /\ r.n = 0 => r = [Zero EXCEPT !.at = r.at, !.pool = r.pool, !.set = r.set]}

ASSUME DiskAssumption == Reports \subseteq DiskMetrics /\ Nil \notin Actions \cup Series

VARIABLES
  kind,     \* what is merged: "Disk" here; see MetricsReports
  sent,     \* what each node reported
  reports,  \* the same objects, as they are now
  acc,      \* the accumulated DiskMetric
  shares,   \* for each map or pointer of acc: whose it is, or Nil
  todo      \* nodes whose report is yet to be merged

vars == <<kind, sent, reports, acc, shares, todo>>

Smaller(a, b) == IF a < b THEN a ELSE b
Larger(a, b)  == IF a > b THEN a ELSE b

----------------------------------------------------------------------------
\* DiskAction.Add.
ActionAdd(t, o) ==
  LET first == IF t.count = 0 THEN o.min ELSE t.min IN
  [count |-> t.count + o.count,
   min   |-> IF o.count > 0 THEN Smaller(first, o.min) ELSE first,
   max   |-> Larger(t.max, o.max)]

\* TotalMinMaxUint64.Merge, called by DriveSpaceInfo.Merge after d.N += other.N.
SpaceMerge(t, o) ==
  LET n == t.n + o.n IN
  [n     |-> n,
   total |-> t.total + o.total,
   min   |-> IF n = 0 \/ t.min > o.min THEN o.min ELSE t.min,
   max   |-> Larger(t.max, o.max)]

\* PoolIdx and, below it, SetIdx and DiskIdx: kept only while all agree.
IdxMerge(d, o, lost) == IF o = Nil \/ (d # Nil /\ d # o) \/ lost THEN Nil ELSE d

\* Mutant: the first report with a drive that is not in order counts.
StateMerge_First(d, o) == IF d = Nil THEN o ELSE d

StateMerge(d, o) == IF o = Nil THEN d ELSE IF d = Nil THEN o ELSE d + o
OpMerge(d, o)    == IF o = Nil THEN d ELSE ActionAdd(IF d = Nil THEN ZeroOp ELSE d, o)

DayMerge(d, o)   == IF o = Nil THEN d ELSE SegmentsAdd(IF d = Nil THEN Empty ELSE d, o)

\* d.Cache = other.Cache, and then d.Cache.Merge(other.Cache).
CacheMerge(d, o) == IF o = Nil THEN d ELSE IF d = Nil THEN o + o ELSE d + o

\* The second merge and those that follow.
Merged(d, o) ==
  LET pool == IdxMerge(d.pool, o.pool, FALSE) IN
  [n |-> d.n + o.n, at |-> Larger(d.at, o.at),
   pool |-> pool, set |-> IdxMerge(d.set, o.set, pool = Nil),
   state |-> StateMerge(d.state, o.state), cache |-> CacheMerge(d.cache, o.cache),
   space |-> SpaceMerge(d.space, o.space), op |-> OpMerge(d.op, o.op),
   day |-> DayMerge(d.day, o.day), heal |-> d.heal]

Init ==
  /\ kind = "Disk" /\ sent \in [Nodes -> Reports] /\ reports = sent
  /\ acc = Zero /\ shares = [f \in Maps |-> Nil] /\ todo = Nodes

\* "*d = *other": the maps are shared from then on.  A report of no drives that came
\* before is overwritten.
First(i) ==
  /\ acc.n = 0
  /\ acc' = reports[i]
  /\ shares' = [f \in Maps |-> IF reports[i][f] = Nil THEN Nil ELSE i]
  /\ UNCHANGED reports

Further(i) ==
  /\ acc.n # 0
  /\ acc' = Merged(acc, reports[i])
  /\ shares' = [shares EXCEPT !["cache"] =
                  IF acc.cache = Nil /\ reports[i].cache # Nil THEN i ELSE @]
  /\ reports' = [j \in Nodes |->
                   [f \in DOMAIN reports[j] |->
                      IF f \in Maps /\ shares'[f] = j THEN acc'[f] ELSE reports[j][f]]]

\* a.Merge(b).
Merge(i) ==
  /\ kind = "Disk" /\ i \in todo /\ todo' = todo \ {i}
  /\ First(i) \/ Further(i)
  /\ UNCHANGED <<kind, sent>>

Next == \E i \in Nodes : Merge(i)
Spec == Init /\ [][Next]_vars

----------------------------------------------------------------------------
(* What the documentation states as rules (metrics.go:291-299).             *)

All == kind = "Disk" /\ todo = {}
Of(f) == {i \in Nodes : sent[i][f] # Nil}
Lowest(S)  == CHOOSE a \in S : \A b \in S : a <= b
Highest(S) == CHOOSE a \in S : \A b \in S : a >= b
Common(f) ==
  LET vs == {sent[i][f] : i \in Nodes} IN IF Cardinality(vs) = 1 THEN CHOOSE v \in vs : TRUE ELSE Nil

Drives == {i \in Nodes : sent[i].n > 0}

\* Rules 1 and 5: when all are merged the numbers are added up, the time is none
\* that a report with drives exceeds, and an index is given only if all reports
\* with drives have it, as it is if all reports have it ("PoolIdx and SetIdx must
\* match for all disks in the metrics"), whatever the order.  What else a report
\* without drives does to time and place is PlaceOfDrives and LatestTime.
IndependentOfOrder ==
  All =>
    /\ acc.n = SumFunction([i \in Nodes |-> sent[i].n])
    /\ acc.at \in {sent[i].at : i \in Nodes} /\ \A i \in Drives : sent[i].at <= acc.at
    /\ acc.state = IF Of("state") = {} THEN Nil ELSE SumFunction([i \in Of("state") |-> sent[i].state])
    /\ acc.space.total = SumFunction([i \in Nodes |-> sent[i].space.total])
    /\ \A f \in {"pool", "set"} : acc[f] # Nil => \A i \in Drives : sent[i][f] = acc[f]
    /\ Common("pool") # Nil => acc.pool = Common("pool") /\ Common("set") \in {Nil, acc.set}
    /\ acc.pool = Nil => acc.set = Nil

\* The least and the greatest time of an operation are those of the reports
\* that saw it at all (DiskAction.Add).
ExtremesOfActions ==
  All /\ acc.op # Nil /\ acc.op.count > 0 =>
    LET seen == {i \in Of("op") : sent[i].op.count > 0} IN
    /\ acc.op.min = Lowest({sent[i].op.min : i \in seen})
    /\ acc.op.max = Highest({sent[i].op.max : i \in seen})
    /\ acc.op.count = SumFunction([i \in seen |-> sent[i].op.count])

\* The greatest space of a drive is that of all drives that were reported.  The
\* least is one that was reported and none of drives is less: it is too small only
\* by the zero of a report without drives (metrics.go:719; SpaceOfDrives).
SpaceExtremes ==
  All =>
    /\ acc.space.max = Highest({sent[i].space.max : i \in Nodes})
    /\ acc.space.min \in {sent[i].space.min : i \in Nodes}
    /\ \A i \in Nodes : sent[i].space.n > 0 => acc.space.min <= sent[i].space.min

\* The series of the last day, of disks and of handlers and targets (kind "Days" of
\* MetricsReports): in every segment stands what the reports have for that time,
\* and the series reaches over all of theirs, however they lie; provided that they
\* have one resolution, which is given (Segmented.Add, "Intervals must match to
\* merge safely").
LastDayKept ==
  LET with == {i \in Of("day") : sent[i].day.segs # <<>>} IN
  todo = {} /\ kind \in {"Disk", "Days"}
  /\ (\E p \in {sent[i].day.step : i \in with} : p > 0 /\ \A i \in with : sent[i].day.step = p) =>
    /\ acc.day.first = Lowest({sent[i].day.first : i \in with})
    /\ EndOf(acc.day) = Highest({EndOf(sent[i].day) : i \in with})
    /\ \A t \in acc.day.first..EndOf(acc.day) :
         ValueAt(acc.day, t) = SumFunction([i \in with |-> ValueAt(sent[i].day, t)])

----------------------------------------------------------------------------
(* Rules the code does not keep (violation runs).                           *)

\* metrics.go:298: "Only a may be mutated."
OnlyReceiverMutated == reports = sent

\* metrics.go:295: "All metrics must be accumulated and must be independent of
\* order of merges."  The cache statistics ...
CacheAccumulated ==
  All => acc.cache = IF Of("cache") = {} THEN Nil ELSE SumFunction([i \in Of("cache") |-> sent[i].cache])
\* ... and the state of healing.
HealingAccumulated == All => (acc.heal = Nil) = (Of("heal") = {})

\* metrics.go:296: "If a field is not set in the other, it is not modified."
\* A report of no drives has no place to tell: the pool is the one of the reports
\* with drives, if they have one pool (metrics.go:742).
PlaceOfDrives ==
  All => \A p \in {sent[i].pool : i \in Drives} : (\A i \in Drives : sent[i].pool = p) => acc.pool = p

\* metrics.go:735: "Use latest timestamp"; that of a report of no drives is lost
\* when another is merged after it (metrics.go:731).
LatestTime == All => acc.at = Highest({sent[i].at : i \in Nodes})

\* The least free space is that of the reports with drives to speak of.
SpaceOfDrives ==
  All /\ acc.space.n > 0 =>
    acc.space.min = Lowest({sent[i].space.min : i \in {j \in Nodes : sent[j].space.n > 0}})
=============================================================================
