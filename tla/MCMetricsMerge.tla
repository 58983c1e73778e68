--------------------------- MODULE MCMetricsMerge ---------------------------
(* Model of the merges of metrics for TLC.                                  *)
EXTENDS MetricsReports, TLC

CONSTANTS a, b, c
MCNodes == {a, b, c}

NoSpace == [n |-> 0, total |-> 0, min |-> 0, max |-> 0]
Drive(v) == [n |-> 1, total |-> v, min |-> v, max |-> v]
Report(n, at, pool, set, state, op, cache, space, heal) ==
  [n |-> n, at |-> at, pool |-> pool, set |-> set, state |-> state, cache |-> cache,
   space |-> space, op |-> op, day |-> Nil, heal |-> heal]
Acts(n, lo, hi) == [count |-> n, min |-> lo, max |-> hi]

\* Reports of no drives, and drives of two pools and two sets, idle and busy
\* ones, with and without drives that are not in order.
MCNoDrives ==
  {Report(0, at, i[1], i[2], Nil, Nil, Nil, NoSpace, Nil) : at \in {0, 3}, i \in {<<Nil, Nil>>, <<0, 0>>}}
MCReports ==
  MCNoDrives \cup
  {Report(1, at, i[1], i[2], IF at = 2 THEN 1 ELSE Nil, op, Nil, Drive(at), Nil) :
     at \in {1, 2}, i \in {<<Nil, Nil>>, <<0, 0>>, <<0, 1>>, <<1, 0>>},
     op \in {Nil, Acts(0, 0, 0), Acts(1, 2, 2), Acts(2, 1, 3)}}

\* Statistics of the last day: one start or several, with gaps and overlaps, of
\* two resolutions.
Day(step, first, segs) == [step |-> step, first |-> first, segs |-> segs]
MCDays ==
  {[Report(1, 1, 0, 0, Nil, Nil, Nil, Drive(1), Nil) EXCEPT !.day = d] :
     d \in {Nil, Day(1, 0, <<>>), Day(1, 1, <<1>>), Day(1, 1, <<1, 2>>), Day(1, 2, <<2>>),
            Day(1, 2, <<2, 1>>), Day(1, 5, <<1>>), Day(2, 2, <<1, 2>>), Day(2, 4, <<3>>)}}
MCAll == MCReports \cup MCDays

\* Drives with a cache, healing drives, and drives whose space is not known.
MCSpecial ==
  MCNoDrives \cup
  {Report(1, 1, 0, 0, 1, Acts(1, 2, 2), cache, space, heal) :
     cache \in {Nil, 1}, space \in {NoSpace, Drive(2)}, heal \in {Nil, 1}}

\* One map entry for each of two keys, at most.
Maps2(V) == UNION {[ks -> V] : ks \in SUBSET {1, 2}}

\* Reports without requests, without a range, without an answer from any node;
\* equal and different times, names that several nodes report, sets of drives
\* that reach over nodes.
MCGiven ==
  [API         |-> {[count |-> n, from |-> t, least |-> x, most |-> y] :
                      n \in {1, 2}, t \in {Nil, 1, 2}, x \in {1, 2}, y \in {2, 3}}
                   \cup {[count |-> 0, from |-> t, least |-> 0, most |-> 0] : t \in {Nil, 1, 2}},
   RPC         |-> [count : 0..2, from : {Nil, 1, 2}],
   Replication |-> [nodes : 0..1, count : 0..1, from : {Nil, 1, 2}, most : 1..2],
   Connection  |-> [count : {1}, pong : 0..2, ping : 1..2, most : {1, 2}],
   Memory      |-> [count : 0..1, addr : {Nil, 1, 2}],
   CPU         |-> [count : 1..2, least : {0, 1, 2}, most : {2, 3}]
                   \cup {[count |-> 0, least |-> 0, most |-> 0]},
   Sensor      |-> [count : 1..2, least : {1, 2}, most : {2, 3}] \cup {[count |-> 0, least |-> 0, most |-> 0]},
   Jobs        |-> [at : {1}, by : Maps2({[at |-> 1, id |-> 1], [at |-> 2, id |-> 1], [at |-> 2, id |-> 2]})],
   Resync      |-> [at : 0..2, by : {1, 2}],
   Scanner     |-> {[by |-> m, names |-> s, prefixes |-> s] :
                      m \in Maps2({<<>>, <<1>>}), s \in {<<>>, <<2>>, <<1, 2>>}},
   Hosts       |-> [at : {1}, by : Maps2({1, 2}), names : {<<>>, <<2>>, <<1, 2>>}],
   Healing     |-> [count : {1}, parity : {Nil, 4}, by : {NoEntry, 1 :> 1, 1 :> 2},
                    sets : {<<>>, <<[id |-> 1, disks |-> <<1>>]>>, <<[id |-> 1, disks |-> <<2, 3>>]>>,
                            <<[id |-> 2, disks |-> <<4>>], [id |-> 1, disks |-> <<1>>]>>}],
   Runtime     |-> [count : 0..1, hist : {Nil, 1, 2}],
   Process     |-> [count : 0..2, at : 0..2],
   Handlers    |-> [by : Maps2([count : 1..2, from : {Nil, 1}])],
   Net         |-> [by : Maps2([n : {1}, count : 1..2])],
   Days        |-> [day : {Nil, Day(1, 0, <<>>), Day(1, 1, <<1>>), Day(1, 1, <<1, 2>>), Day(1, 2, <<2>>),
                           Day(2, 2, <<1, 2>>)}]]

MCOnly(k)  == [j \in {k} |-> MCGiven[k]]
MCNone     == [j \in {} |-> {}]
MCAPI      == MCOnly("API")
MCSensor   == MCOnly("Sensor")
MCCPU      == MCOnly("CPU")
MCHealing  == MCOnly("Healing")
MCNet      == MCOnly("Net")
MCRuntime  == MCOnly("Runtime")

MCSpec == (Init \/ ReportsInit) /\ [][Next \/ ReportsNext]_vars
=============================================================================
