------------------------ MODULE AdminChannelsProofs ------------------------
(***************************************************************************)
(* Theorems about the channel calls and the iterators, for any number of     *)
(* values and requests.                                                     *)
(***************************************************************************)
EXTENDS AdminIterators, SequenceTheorems, TLAPS

Items == 0..MaxItems

\* Where the goroutine of a channel call can be, and the iterator.
GoroutineAt == {"none", "connect", "read", "offer", "tell", "sent", "ended"}
IteratorAt  == {"start", "ask", "scan", "yield", "spin", "panic", "ended"}

Places ==
  /\ p \in Known \union Iterating
  /\ p \in Known => g \in GoroutineAt /\ then \in {"read", "connect", "ended"}
  /\ p \in Iterating => g \in IteratorAt /\ then \in {"scan", "ask", "ended"}
  /\ p \in Iterating => caller \in {"ranging", "left", "finished"}
  /\ caller \in {"calling", "sending", "ranging", "left", "finished", "refused"}
  /\ cancelled \in BOOLEAN /\ closed \in BOOLEAN /\ (closed <=> g = "ended")

Contents ==
  /\ hand \in Items /\ buf \in Seq(Items) /\ received \in Seq(Items) /\ decoded \in Seq(Items)
  /\ Len(decoded) <= MaxItems /\ Len(buf) <= Capacity

\* A request after the last one fails, which ends the goroutine.
Requests ==
  /\ conns \in 0..(MaxConns + 1)
  /\ conns = MaxConns + 1 => g = "ended" \/ (g \in {"tell", "sent"} /\ then = "ended")
  /\ p \in RequestsFirst /\ caller = "calling" => conns = 0 /\ g = "none"

LastIs(v) == received # <<>> /\ received[Len(received)] = v

\* An error is the last value, and what ends a call that reports its failures.
Reasons ==
  /\ g \in {"offer", "tell", "sent", "yield"} /\ then = "ended" => hand = Err
  /\ g = "sent" /\ p # "Logs" => LastIs(hand)
  /\ g = "ended" /\ p \in ReportsDecode /\ ~cancelled /\ caller # "left" => LastIs(Err)
  /\ caller = "finished" => g = "ended"
  /\ p = "TraceIter" /\ caller = "left" /\ g # "ended" => LastIs(Err)
  /\ g = "panic" => caller = "left"

ChannelsInv == Places /\ Contents /\ Requests /\ Reasons

Sending == g \in {"offer", "tell", "sent", "yield"}

\* A new request finds no response open.
Held ==
  /\ p # "Logs" => open \in {0, 1}
  /\ p # "Logs" /\ g \in {"none", "connect", "start", "ask"} => open = 0
  /\ p # "Logs" /\ Sending /\ then \in {"connect", "ask"} => open = 0
  /\ p \in ClosesItself \union {"TraceIter"} /\ Sending /\ then = "ended" => open = 0
  /\ p \in ClosesItself \union ClosesAtEnd /\ g = "ended" => open = 0
  /\ p = "TraceIter" /\ g = "ended" /\ ~cancelled /\ caller # "left" => open = 0

LEMMA ChannelsStart == StreamsInit => ChannelsInv
<1> SUFFICES ASSUME StreamsInit PROVE ChannelsInv
  OBVIOUS
<1>1. /\ hand = 0 /\ then = "ended" /\ buf = <<>> /\ received = <<>> /\ decoded = <<>>
      /\ closed = FALSE /\ cancelled = FALSE /\ conns = 0 /\ MaxConns \in Nat /\ MaxItems \in Nat
      /\ \/ p \in Known /\ caller = "calling" /\ g = IF p \in RequestsFirst THEN "none" ELSE "connect"
         \/ p \in Iterating /\ caller = "ranging" /\ g = "start"
  BY ChannelsAssumption, IteratorsAssumption DEF StreamsInit, Init, IterInit, Err
<1>2. Places
  BY <1>1 DEF Places, GoroutineAt, IteratorAt, Known, Iterating
<1>3. Contents
  BY <1>1 DEF Contents, Items, Capacity
<1>4. Requests
  BY <1>1 DEF Requests, RequestsFirst, Known, Iterating
<1>5. Reasons
  BY <1>1 DEF Reasons
<1> QED BY <1>2, <1>3, <1>4, <1>5 DEF ChannelsInv

\* The caller calls, sees the end, leaves or cancels.
LEMMA CallingKeepsInv ==
  ASSUME ChannelsInv, CallWithRequest \/ CallWithout \/ SeesClose \/ Leave \/ Cancel
  PROVE  ChannelsInv'
<1>0. UNCHANGED <<p, hand, then, buf, closed, decoded, received>>
  BY DEF CallWithRequest, CallWithout, SeesClose, Leave, Cancel, chan
<1>1. Places'
  <2>1. /\ cancelled' \in BOOLEAN
        /\ caller' \in {"calling", "sending", "ranging", "left", "finished", "refused"}
    BY DEF ChannelsInv, Places, CallWithRequest, CallWithout, SeesClose, Leave, Cancel
  <2>2. p \in Iterating => g' = g /\ caller' \in {"ranging", "left", "finished"}
    BY DEF ChannelsInv, Places, Known, Iterating, RequestsFirst,
       CallWithRequest, CallWithout, SeesClose, Leave, Cancel
  <2>3. g' = g \/ (g = "none" /\ g' = "read" /\ p \in RequestsFirst)
    BY DEF ChannelsInv, Requests, CallWithRequest, CallWithout, SeesClose, Leave, Cancel
  <2> QED BY <1>0, <2>1, <2>2, <2>3 DEF ChannelsInv, Places, GoroutineAt, IteratorAt
<1>2. Contents'
  BY <1>0 DEF ChannelsInv, Contents, Items, Capacity
<1>3. Requests'
  BY <1>0, ChannelsAssumption DEF ChannelsInv, Places, Requests, RequestsFirst,
     CallWithRequest, CallWithout, SeesClose, Leave, Cancel
<1>4. Reasons'
  BY <1>0 DEF ChannelsInv, Places, Requests, Reasons, LastIs, Known, Iterating, ReportsDecode,
     CallWithRequest, CallWithout, SeesClose, Leave, Cancel
<1> QED BY <1>1, <1>2, <1>3, <1>4 DEF ChannelsInv

\* A step that touches no data but the error that is to be sent.
Moves ==
  Connect \/ TelemetryStops \/ StreamFails \/ DecodeFails \/ GiveUp \/ Sent
    \/ IterStart \/ Ask \/ ScanFails \/ LogsEnd \/ Panic

LEMMA MovingKeepsInv ==
  ASSUME ChannelsInv, Moves
  PROVE  ChannelsInv'
<1> USE DEF Connect, TelemetryStops, StreamFails, DecodeFails, AfterBreak, GiveUp, OfferGivesUp, Sent,
            IterStart, Ask, RequestFails, ScanFails, LogsEnd, Panic, Goto, End, Send, Yield, Err
<1>0. /\ UNCHANGED <<p, caller, buf, cancelled, decoded, received>> /\ hand' \in {hand, 0}
      /\ g # "ended"
  BY DEF Moves, ChannelsInv, Places
<1>1. Places'
  <2>1. closed' \in BOOLEAN /\ (closed' <=> g' = "ended")
    <3>1. closed = FALSE
      BY <1>0 DEF ChannelsInv, Places
    <3>2. (closed' = closed /\ g' # "ended") \/ (closed' = TRUE /\ g' = "ended")
      BY DEF Moves
    <3> QED BY <3>1, <3>2
  <2>2. CASE p \in Known /\ p \notin Iterating
    <3>1. g' \in GoroutineAt /\ then' \in {"read", "connect", "ended"}
      BY <2>2 DEF Moves, ChannelsInv, Places, GoroutineAt, Known, Reconnects
    <3> QED BY <1>0, <2>1, <2>2, <3>1 DEF ChannelsInv, Places
  <2>3. CASE p \in Iterating /\ p \notin Known
    <3>1. g' \in IteratorAt /\ then' \in {"scan", "ask", "ended"}
      BY <2>3 DEF Moves, ChannelsInv, Places, IteratorAt, Iterating, Reconnects
    <3> QED BY <1>0, <2>1, <2>3, <3>1 DEF ChannelsInv, Places
  <2> QED BY <2>2, <2>3 DEF ChannelsInv, Places, Known, Iterating
<1>2. Contents'
  BY <1>0, ChannelsAssumption DEF ChannelsInv, Contents, Items, Capacity
<1>3. Requests'
  <2>1. caller # "calling" \/ p \notin RequestsFirst
    BY DEF Moves, ChannelsInv, Requests
  <2>2. CASE conns' = conns
    <3>1. conns = MaxConns + 1 => g = "sent" /\ g' = "ended"
      BY <2>2 DEF Moves, ChannelsInv, Requests
    <3> QED BY <1>0, <2>1, <2>2, <3>1 DEF ChannelsInv, Requests
  <2>3. CASE (Connect \/ Ask) /\ conns' # conns
    <3>1. conns \in 0..MaxConns /\ MaxConns \in Nat
      BY <1>0, <2>3, ChannelsAssumption DEF ChannelsInv, Requests
    <3>2. conns' = conns + 1 /\ (conns < MaxConns \/ g' = "ended" \/ (g' = "tell" /\ then' = "ended"))
      BY <2>3 DEF RequestFails
    <3> QED BY <1>0, <2>1, <3>1, <3>2 DEF Requests
  <2>4. conns' = conns \/ ((Connect \/ Ask) /\ conns' # conns)
    BY DEF Moves
  <2> QED BY <2>2, <2>3, <2>4
<1>4. Reasons'
  BY <1>0 DEF Moves, ChannelsInv, Places, Requests, Reasons, LastIs, Known, Iterating, ReportsDecode, Reconnects,
     GoroutineAt, IteratorAt
<1> QED BY <1>1, <1>2, <1>3, <1>4 DEF ChannelsInv

\* A value is decoded.
LEMMA DecodingKeepsInv ==
  ASSUME ChannelsInv, Decode \/ Scan
  PROVE  ChannelsInv'
<1> DEFINE d == Append(decoded, Len(decoded) + 1)
<1>0. /\ UNCHANGED <<p, caller, buf, cancelled, conns, received>> /\ decoded' = d /\ Len(decoded) < MaxItems
      /\ \/ g = "read" /\ g' = "offer" /\ hand' = Len(d) /\ then' = "read" /\ closed' = closed
         \/ /\ g = "scan"
            /\ \/ cancelled /\ g' = "ended" /\ closed' = TRUE /\ UNCHANGED <<hand, then>>
               \/ g' = "yield" /\ hand' = Len(d) /\ then' = "scan" /\ closed' = closed
  BY DEF Decode, Scan, Send, Yield, End
<1>1. Len(decoded) + 1 \in Items /\ decoded \in Seq(Items) /\ MaxItems \in Nat
  BY <1>0, ChannelsAssumption, LenProperties DEF ChannelsInv, Contents, Items
<1>2. d \in Seq(Items) /\ Len(d) = Len(decoded) + 1
  BY <1>1, AppendProperties
<1> HIDE DEF d
<1>3. Contents'
  BY <1>0, <1>1, <1>2 DEF ChannelsInv, Contents, Items, Capacity
<1>4. Places'
  <2>1. closed = FALSE
    BY <1>0 DEF ChannelsInv, Places
  <2>2. (closed' = FALSE /\ g' # "ended") \/ (closed' = TRUE /\ g' = "ended")
    BY <1>0, <2>1
  <2> QED BY <1>0, <2>2 DEF ChannelsInv, Places, GoroutineAt, IteratorAt, Known, Iterating
<1>5. Requests' /\ Reasons'
  BY <1>0 DEF ChannelsInv, Places, Requests, Reasons, LastIs, ReportsDecode
<1> QED BY <1>3, <1>4, <1>5 DEF ChannelsInv

\* A value goes into the buffer.
LEMMA PuttingKeepsInv ==
  ASSUME ChannelsInv, Put
  PROVE  ChannelsInv'
<1>0. /\ UNCHANGED <<p, caller, cancelled, conns, decoded, received, hand, then, closed>>
      /\ g \in {"offer", "tell"} /\ g' = "sent" /\ Len(buf) < Capacity /\ buf' = Append(buf, hand)
  BY DEF Put, Goto
<1>1. buf \in Seq(Items) /\ hand \in Items
  BY DEF ChannelsInv, Contents
<1>2. buf' \in Seq(Items) /\ Len(buf') = Len(buf) + 1 /\ Len(buf) \in Nat
  BY <1>0, <1>1, AppendProperties, LenProperties
<1>3. p = "Logs" /\ Capacity' = Capacity /\ Capacity \in Nat
  BY <1>0, <1>2 DEF Capacity
<1>4. Contents'
  BY <1>0, <1>2, <1>3 DEF ChannelsInv, Contents, Items
<1>5. Places' /\ Requests' /\ Reasons'
  BY <1>0, <1>3 DEF ChannelsInv, Places, Requests, Reasons, LastIs, Known, Iterating, GoroutineAt,
     RequestsFirst, ReportsDecode
<1> QED BY <1>4, <1>5 DEF ChannelsInv

\* The caller receives from the buffer, from the goroutine, or in its loop body.
LEMMA ReceivingKeepsInv ==
  ASSUME ChannelsInv, Receive \/ Rendezvous \/ Body
  PROVE  ChannelsInv'
<1>0. /\ UNCHANGED <<p, cancelled, conns, decoded, hand, then>> /\ caller = "ranging"
      /\ received \in Seq(Items) /\ buf \in Seq(Items) /\ hand \in Items
  BY DEF Receive, Rendezvous, Body, Resume, Goto, End, chan, ChannelsInv, Contents
<1>1. ASSUME Receive PROVE ChannelsInv'
  <2>1. /\ buf # <<>> /\ received' = Append(received, Head(buf)) /\ buf' = Tail(buf)
        /\ UNCHANGED <<caller, g, closed>>
    BY <1>1 DEF Receive
  <2>2. /\ Head(buf) \in Items /\ buf' \in Seq(Items) /\ Len(buf') = Len(buf) - 1 /\ Len(buf) \in Nat \ {0}
    BY <1>0, <2>1, HeadTailProperties, EmptySeq
  <2>3. received' \in Seq(Items)
    BY <1>0, <2>1, <2>2, AppendProperties
  <2>4. p = "Logs" /\ Capacity \in Nat
    BY <2>2 DEF ChannelsInv, Contents, Capacity
  <2>5. Contents'
    BY <1>0, <2>2, <2>3, <2>4 DEF ChannelsInv, Contents, Items, Capacity
  <2>6. Places' /\ Requests' /\ Reasons'
    BY <1>0, <2>1, <2>4 DEF ChannelsInv, Places, Requests, Reasons, LastIs, RequestsFirst, ReportsDecode
  <2> QED BY <2>5, <2>6 DEF ChannelsInv
<1>2. ASSUME Rendezvous \/ Body PROVE ChannelsInv'
  <2>1. /\ received' = Append(received, hand) /\ UNCHANGED buf
        /\ \/ g \in {"offer", "tell"} /\ g' = "sent" /\ UNCHANGED <<caller, closed>>
           \/ g = "yield" /\ Resume(then) /\ UNCHANGED caller
           \/ g = "yield" /\ Resume(WhenStopped) /\ caller' = "left"
    BY <1>2 DEF Rendezvous, Body, chan
  <2>2. received' \in Seq(Items) /\ LastIs(hand)'
    <3>1. received' \in Seq(Items) /\ Len(received') = Len(received) + 1 /\ Len(received) \in Nat
          /\ received'[Len(received) + 1] = hand
      BY <1>0, <2>1, AppendProperties, LenProperties
    <3>2. received' # <<>>
      <4>1. Len(<<>>) = 0 /\ Len(received) + 1 # 0
        BY <3>1
      <4> QED BY <3>1, <4>1, Zenon
    <3> QED BY <1>0, <3>1, <3>2 DEF LastIs
  <2>3. Contents'
    BY <1>0, <2>1, <2>2 DEF ChannelsInv, Contents, Items, Capacity
  <2>4. CASE g \in {"offer", "tell"} /\ g' = "sent" /\ UNCHANGED <<caller, closed>>
    BY <1>0, <2>1, <2>2, <2>3, <2>4 DEF ChannelsInv, Places, Requests, Reasons, LastIs, Known, Iterating, GoroutineAt,
       IteratorAt, RequestsFirst
  <2>5. CASE g = "yield" /\ caller' \in {"ranging", "left"}
             /\ \/ Resume(then) /\ UNCHANGED caller
                \/ Resume(WhenStopped) /\ caller' = "left"
    <3>1. p \in Iterating /\ p \notin Known /\ g # "ended" /\ closed = FALSE /\ then \in {"scan", "ask", "ended"}
          /\ caller = "ranging" /\ p \notin RequestsFirst /\ conns \in 0..MaxConns
      BY <1>0, <2>5, ChannelsAssumption DEF ChannelsInv, Places, Requests, GoroutineAt, Known, Iterating, RequestsFirst
    <3>2. \/ g' = "ended" /\ closed' = TRUE /\ (then = "ended" \/ caller' = "left")
          \/ g' \in {"scan", "ask"} /\ closed' = FALSE /\ (p = "TraceIter" /\ caller' = "left" => hand = Err)
      BY <1>0, <2>5, <3>1 DEF Resume, WhenStopped, Goto, End, Iterating
    <3>3. Places'
      BY <1>0, <2>5, <3>1, <3>2 DEF ChannelsInv, Places, IteratorAt
    <3>4. Requests'
      BY <1>0, <3>1, <3>2, ChannelsAssumption DEF Requests
    <3>5. Reasons'
      BY <1>0, <2>2, <2>5, <3>1, <3>2 DEF ChannelsInv, Reasons, LastIs, ReportsDecode, Iterating
    <3> QED BY <2>3, <3>3, <3>4, <3>5 DEF ChannelsInv
  <2> QED BY <1>0, <2>1, <2>4, <2>5
<1> QED BY <1>1, <1>2

LEMMA ChannelsStep == ChannelsInv /\ [StreamsNext]_vars => ChannelsInv'
<1> SUFFICES ASSUME ChannelsInv, [StreamsNext]_vars PROVE ChannelsInv'
  OBVIOUS
<1>1. CASE StreamsNext
  BY <1>1, CallingKeepsInv, MovingKeepsInv, DecodingKeepsInv, PuttingKeepsInv, ReceivingKeepsInv
     DEF StreamsNext, Next, Caller, Goroutine, Iterator, Moves
<1>2. CASE UNCHANGED vars
  BY <1>2 DEF vars, chan, ChannelsInv, Places, Contents, Requests, Reasons, LastIs, Items, Capacity,
     GoroutineAt, IteratorAt
<1> QED BY <1>1, <1>2

LEMMA ChannelsKeepInv == StreamsSpec => []ChannelsInv
BY ChannelsStart, ChannelsStep, PTL DEF StreamsSpec

----------------------------------------------------------------------------
\* The channel is closed when its goroutine has ended and only then, and holds
\* no more than its capacity.
THEOREM ChannelsTypeCorrect == StreamsSpec => []ChannelsTypeOK
<1>1. ChannelsInv => ChannelsTypeOK
  BY ChannelsAssumption DEF ChannelsInv, Places, Contents, Requests, ChannelsTypeOK, Items, GoroutineAt, IteratorAt,
     Known, Iterating
<1> QED BY <1>1, ChannelsKeepInv, PTL

\* A call that reports a failing Decode does not end without that report.
THEOREM EndsAreReported == StreamsSpec => []EndsWithReason
<1>1. ChannelsInv => EndsWithReason
  BY DEF ChannelsInv, Reasons, LastIs, EndsWithReason, Over
<1> QED BY <1>1, ChannelsKeepInv, PTL

\* ServiceTraceIter calls yield once too often only when the loop body broke off
\* at a report.
THEOREM TracePanics == StreamsSpec => []PanicsOnlyAtReport
<1>1. ChannelsInv => PanicsOnlyAtReport
  <2> SUFFICES ASSUME ChannelsInv, g = "panic", p = "TraceIter" PROVE PanicsOnlyAtReport
    BY DEF PanicsOnlyAtReport
  <2>1. LastIs(Err)
    BY DEF ChannelsInv, Reasons
  <2> QED BY <2>1, LenProperties DEF LastIs, PanicsOnlyAtReport, ChannelsInv, Contents
<1> QED BY <1>1, ChannelsKeepInv, PTL

\* The invariant for the responses: what a step that changes open does to it.
LEMMA ResponsesHeld == ChannelsInv /\ Held /\ [StreamsNext]_vars => Held'
<1> SUFFICES ASSUME ChannelsInv, Held, StreamsNext PROVE Held'
  BY DEF vars, chan, Held, Sending
<1> USE DEF ChannelsInv, Places, GoroutineAt, IteratorAt, Known, Iterating, Held, Sending,
            ClosesItself, ClosesAtEnd, CloseIf, Send, Yield, Goto, End
<1>0. p' = p
  BY DEF StreamsNext, Next, Caller, Goroutine, Iterator, CallWithRequest, CallWithout, Receive, Rendezvous,
     SeesClose, Leave, Cancel, Connect, Decode, TelemetryStops, StreamFails, DecodeFails, Put, GiveUp, Sent,
     IterStart, Ask, Scan, ScanFails, LogsEnd, Body, Panic
<1>1. CASE CallWithRequest \/ CallWithout
  BY <1>0, <1>1 DEF CallWithRequest, CallWithout, Requests, RequestsFirst
<1>2. CASE Receive \/ Rendezvous \/ SeesClose \/ Leave \/ Cancel
  BY <1>0, <1>2 DEF Receive, Rendezvous, SeesClose, Leave, Cancel, chan
<1>3. CASE Connect
  BY <1>0, <1>3 DEF Connect
<1>4. CASE Decode \/ TelemetryStops \/ StreamFails \/ Put
  BY <1>0, <1>4 DEF Decode, TelemetryStops, StreamFails, Put
<1>5. CASE DecodeFails
  BY <1>0, <1>5 DEF DecodeFails, AfterBreak, Reconnects, ReportsDecode
<1>6. CASE GiveUp
  BY <1>0, <1>6 DEF GiveUp
<1>7. CASE Sent
  BY <1>0, <1>7 DEF Sent
<1>8. CASE IterStart \/ Ask \/ Scan \/ LogsEnd \/ Panic
  BY <1>0, <1>8 DEF IterStart, Ask, RequestFails, Scan, LogsEnd, Panic
<1>9. CASE ScanFails
  BY <1>0, <1>9 DEF ScanFails
<1>10. CASE Body
  BY <1>0, <1>10 DEF Body, Resume, WhenStopped
<1> QED BY <1>1, <1>2, <1>3, <1>4, <1>5, <1>6, <1>7, <1>8, <1>9, <1>10
        DEF StreamsNext, Next, Caller, Goroutine, Iterator

\* A call keeps one response open at most, and none after its end when it is one
\* that closes them.
THEOREM ResponsesAreClosed == StreamsSpec => []ResponsesClosed
<1>1. StreamsInit => Held
  BY DEF StreamsInit, Init, IterInit, Held, Sending
<1>2. ChannelsInv /\ Held => ResponsesClosed
  BY DEF Held, ResponsesClosed
<1> QED BY <1>1, <1>2, ChannelsKeepInv, ResponsesHeld, PTL DEF StreamsSpec

----------------------------------------------------------------------------
(* What is decoded arrives in order.                                        *)

\* A value in the goroutine's hand that has not been sent.
Waiting == g \in {"offer", "tell", "yield"}

\* A value given up: the context was done, or yield panicked.
GivenUp == g = "panic" \/ (g = "ended" /\ cancelled)

\* r values have been received, b of them and the buffer's, and the value in
\* hand is the next.
Arriving(r, b) ==
  /\ HoldsFirst(received, r) /\ b <= Len(decoded)
  /\ buf = <<>> => b = r
  /\ buf # <<>> => \/ buf[1] = Err /\ b = r
                   \/ buf[1] = r + 1 /\ b = r + 1
  /\ Waiting => \/ hand = Err /\ b = Len(decoded)
                \/ hand = b + 1 /\ b + 1 = Len(decoded)
  /\ ~Waiting /\ ~GivenUp => b = Len(decoded)

Arrives ==
  /\ \E r, b \in Nat : Arriving(r, b)
  /\ Over => buf = <<>>

\* A sequence that holds the first values goes on to do so.
LEMMA HoldsMore ==
  ASSUME NEW s \in Seq(Items), NEW n \in Nat, HoldsFirst(s, n), NEW v \in Items
  PROVE  /\ v = Err => HoldsFirst(Append(s, v), n)
         /\ v = n + 1 => HoldsFirst(Append(s, v), n + 1)
<1> DEFINE t == Append(s, v)
<1>1. /\ Len(s) \in Nat /\ DOMAIN s = 1..Len(s) /\ DOMAIN t = 1..(Len(s) + 1)
      /\ t[Len(s) + 1] = v /\ \A i \in 1..Len(s) : t[i] = s[i]
  BY AppendProperties, LenProperties
<1> HIDE DEF t
<1>2. \A i \in DOMAIN t : i \in DOMAIN s \/ i = Len(s) + 1
  BY <1>1
<1>3. \A i \in DOMAIN s : i \in DOMAIN t /\ t[i] = s[i] /\ i < Len(s) + 1
  BY <1>1
<1>4. Len(s) + 1 \in DOMAIN t
  BY <1>1
<1>5. ASSUME v = Err PROVE HoldsFirst(t, n)
  <2>1. \A i, j \in DOMAIN t : i < j /\ t[i] # Err /\ t[j] # Err => t[i] < t[j]
    BY <1>1, <1>2, <1>3, <1>5 DEF HoldsFirst
  <2> QED BY <1>1, <1>2, <1>3, <1>5, <2>1 DEF HoldsFirst
<1>6. ASSUME v = n + 1 PROVE HoldsFirst(t, n + 1)
  <2>1. \A i \in DOMAIN t : t[i] = Err \/ t[i] \in 1..(n + 1)
    BY <1>1, <1>2, <1>3, <1>6 DEF HoldsFirst
  <2>2. \A u \in 1..(n + 1) : \E i \in DOMAIN t : t[i] = u
    <3> TAKE u \in 1..(n + 1)
    <3>1. CASE u = n + 1
      BY <1>1, <1>4, <1>6, <3>1
    <3>2. CASE u \in 1..n
      BY <1>3, <3>2 DEF HoldsFirst
    <3> QED BY <3>1, <3>2
  <2>3. \A i, j \in DOMAIN t : i < j /\ t[i] # Err /\ t[j] # Err => t[i] < t[j]
    <3> SUFFICES ASSUME NEW i \in DOMAIN t, NEW j \in DOMAIN t, i < j, t[i] # Err, t[j] # Err
                 PROVE  t[i] < t[j]
      OBVIOUS
    <3>1. i \in DOMAIN s /\ t[i] = s[i] /\ s[i] \in 1..n
      BY <1>1, <1>2, <1>3 DEF HoldsFirst
    <3>2. CASE j \in DOMAIN s
      BY <1>3, <3>1, <3>2 DEF HoldsFirst
    <3>3. CASE j = Len(s) + 1
      BY <1>1, <1>6, <3>1, <3>3
    <3> QED BY <1>2, <3>2, <3>3
  <2> QED BY <2>1, <2>2, <2>3 DEF HoldsFirst
<1> QED BY <1>5, <1>6 DEF t

\* The beginning: nothing decoded, nothing received.
LEMMA NothingArrives == StreamsInit => Arrives
<1> SUFFICES ASSUME StreamsInit PROVE Arrives
  OBVIOUS
<1>1. buf = <<>> /\ received = <<>> /\ decoded = <<>> /\ Len(<<>>) = 0 /\ ~Waiting /\ ~Over
  BY DEF StreamsInit, Init, IterInit, Waiting, Over
<1>2. HoldsFirst(received, 0)
  BY <1>1 DEF HoldsFirst
<1>3. Arriving(0, 0)
  BY <1>1, <1>2 DEF Arriving
<1> QED BY <1>1, <1>3 DEF Arrives

\* Steps that neither decode nor send.
LEMMA MovingKeepsOrder ==
  ASSUME ChannelsInv, Arrives, Moves \/ CallWithRequest \/ CallWithout \/ SeesClose \/ Leave \/ Cancel
  PROVE  Arrives'
<1> USE DEF Connect, TelemetryStops, StreamFails, DecodeFails, AfterBreak, GiveUp, OfferGivesUp, Sent,
            IterStart, Ask, RequestFails, ScanFails, LogsEnd, Panic, Goto, End, Send, Yield,
            CallWithRequest, CallWithout, SeesClose, Leave, Cancel, chan
<1>0. PICK r \in Nat, b \in Nat : Arriving(r, b)
  BY DEF Arrives
<1>1. UNCHANGED <<buf, decoded, received>>
  BY DEF Moves
<1>2. Over' => buf' = <<>>
  BY DEF Moves, Arrives, Over
<1>3. HoldsFirst(received, r)' <=> HoldsFirst(received, r)
  BY <1>1 DEF HoldsFirst
<1>4. \/ g' = g /\ hand' = hand /\ (cancelled => cancelled')
      \/ ~Waiting /\ ~GivenUp /\ (Waiting' => hand' = Err)
      \/ GivenUp' /\ ~Waiting'
  BY DEF Moves, Waiting, GivenUp, ChannelsInv, Places, Requests, Reasons, GoroutineAt, IteratorAt
<1>5. Arriving(r, b)'
  <2>1. CASE g' = g /\ hand' = hand /\ (cancelled => cancelled')
    BY <1>0, <1>1, <1>3, <2>1 DEF Arriving, Waiting, GivenUp
  <2>2. CASE ~Waiting /\ ~GivenUp /\ (Waiting' => hand' = Err)
    BY <1>0, <1>1, <1>3, <2>2 DEF Arriving
  <2>3. CASE GivenUp' /\ ~Waiting'
    BY <1>0, <1>1, <1>3, <2>3 DEF Arriving
  <2> QED BY <1>4, <2>1, <2>2, <2>3
<1> QED BY <1>2, <1>5 DEF Arrives

\* A value is decoded when all others have been sent.
LEMMA DecodingKeepsOrder ==
  ASSUME ChannelsInv, Arrives, Decode \/ Scan
  PROVE  Arrives'
<1> DEFINE d == Append(decoded, Len(decoded) + 1)
<1>0. PICK r \in Nat, b \in Nat : Arriving(r, b)
  BY DEF Arrives
<1>1. /\ UNCHANGED <<caller, buf, received, cancelled>> /\ decoded' = d /\ g \in {"read", "scan"}
      /\ \/ g' \in {"offer", "yield"} /\ hand' = Len(d)
         \/ g' = "ended" /\ cancelled
  BY DEF Decode, Scan, Send, Yield, End
<1>2. Len(d) = Len(decoded) + 1 /\ Len(decoded) \in Nat
  BY AppendProperties, LenProperties DEF ChannelsInv, Contents
<1> HIDE DEF d
<1>3. HoldsFirst(received, r)' <=> HoldsFirst(received, r)
  BY <1>1 DEF HoldsFirst
<1>4. b = Len(decoded)
  BY <1>0, <1>1 DEF Arriving, Waiting, GivenUp
<1>5. Arriving(r, b)'
  BY <1>0, <1>1, <1>2, <1>3, <1>4 DEF Arriving, Waiting, GivenUp
<1> QED BY <1>1, <1>5 DEF Arrives, Over

\* The value in hand goes into the empty buffer of GetLogs.
LEMMA PuttingKeepsOrder ==
  ASSUME ChannelsInv, Arrives, Put
  PROVE  Arrives'
<1>0. PICK r \in Nat, b \in Nat : Arriving(r, b)
  BY DEF Arrives
<1>1. /\ UNCHANGED <<caller, decoded, received, hand>> /\ g \in {"offer", "tell"} /\ g' = "sent"
      /\ Len(buf) < Capacity /\ buf' = Append(buf, hand)
  BY DEF Put, Goto
<1>2. buf \in Seq(Items) /\ hand \in Items
  BY DEF ChannelsInv, Contents
<1>3. Len(buf) = 0 /\ Len(decoded) \in Nat
  BY <1>1, <1>2, LenProperties DEF Capacity, ChannelsInv, Contents
<1>4. buf = <<>>
  BY <1>2, <1>3, EmptySeq
<1>5. buf' # <<>> /\ buf'[1] = hand
  BY <1>1, <1>4
<1>6. HoldsFirst(received, r)' <=> HoldsFirst(received, r)
  BY <1>1 DEF HoldsFirst
<1>7. b = r /\ caller # "finished"
  BY <1>0, <1>1, <1>4 DEF Arriving, ChannelsInv, Reasons
<1>8. \E c \in Nat : Arriving(r, c)'
  <2>1. CASE hand = Err /\ b = Len(decoded)
    <3>1. Arriving(r, b)'
      BY <1>0, <1>1, <1>5, <1>6, <1>7, <2>1 DEF Arriving, Waiting
    <3> QED BY <3>1
  <2>2. CASE hand = b + 1 /\ b + 1 = Len(decoded)
    <3>1. PICK c \in Nat : c = b + 1
      OBVIOUS
    <3>2. Arriving(r, c)'
      BY <1>0, <1>1, <1>3, <1>5, <1>6, <1>7, <2>2, <3>1 DEF Arriving, Waiting
    <3> QED BY <3>2
  <2> QED BY <1>0, <1>1, <2>1, <2>2 DEF Arriving, Waiting
<1> QED BY <1>1, <1>7, <1>8 DEF Arrives, Over

\* The caller receives the next value.
LEMMA ReceivingKeepsOrder ==
  ASSUME ChannelsInv, Arrives, Receive \/ Rendezvous \/ Body
  PROVE  Arrives'
<1>0. PICK r \in Nat, b \in Nat : Arriving(r, b)
  BY DEF Arrives
<1>1. /\ received \in Seq(Items) /\ buf \in Seq(Items) /\ hand \in Items /\ Len(decoded) \in Nat
      /\ Len(buf) \in Nat /\ Len(buf) <= Capacity /\ HoldsFirst(received, r)
  BY <1>0, LenProperties DEF ChannelsInv, Contents, Arriving
<1>2. ASSUME Receive PROVE Arrives'
  <2>1. PICK v \in Items : v = Head(buf)
    BY <1>1, <1>2, HeadTailProperties DEF Receive
  <2>2. received' = Append(received, v) /\ UNCHANGED <<caller, g, hand, decoded, cancelled>>
    BY <1>2, <2>1 DEF Receive
  <2>3. buf # <<>> /\ v = buf[1] /\ buf' = <<>> /\ Over' = Over /\ ~Over
    <3>1. buf # <<>> /\ buf' = Tail(buf) /\ caller = "ranging" /\ caller' = caller
      BY <1>2 DEF Receive
    <3>2. Len(buf) = 1
      <4>1. Len(buf) # 0
        BY <1>1, <3>1, EmptySeq
      <4> QED BY <1>1, <4>1 DEF Capacity
    <3>3. buf' \in Seq(Items) /\ Len(buf') = 0
      BY <1>1, <3>1, <3>2, HeadTailProperties
    <3> QED BY <1>1, <2>1, <3>1, <3>3, EmptySeq DEF Over
  <2>4. CASE v = Err /\ b = r
    <3>1. HoldsFirst(received, r)'
      BY <1>1, <2>2, <2>4, HoldsMore
    <3>2. Arriving(r, b)'
      BY <1>0, <2>2, <2>3, <2>4, <3>1 DEF Arriving, Waiting, GivenUp
    <3> QED BY <2>3, <3>2 DEF Arrives
  <2>5. CASE v = r + 1 /\ b = r + 1
    <3>1. HoldsFirst(received, b)'
      BY <1>1, <2>2, <2>5, HoldsMore
    <3>2. Arriving(b, b)'
      BY <1>0, <2>2, <2>3, <2>5, <3>1 DEF Arriving, Waiting, GivenUp
    <3> QED BY <2>3, <3>2 DEF Arrives
  <2> QED BY <1>0, <2>3, <2>4, <2>5 DEF Arriving
<1>3. ASSUME Rendezvous \/ Body PROVE Arrives'
  <2>1. /\ received' = Append(received, hand) /\ UNCHANGED <<buf, decoded, cancelled>> /\ Waiting
        /\ caller = "ranging" /\ caller' \in {"ranging", "left"} /\ Capacity = 0
    BY <1>3 DEF Rendezvous, Body, chan, Waiting, Capacity, ChannelsInv, Places, GoroutineAt, Known
  <2>2. ~Waiting'
    BY <1>3 DEF Rendezvous, Body, Resume, Goto, End, WhenStopped, Waiting, ChannelsInv, Places, GoroutineAt,
       Known, Iterating
  <2>3. buf = <<>> /\ buf' = <<>> /\ b = r
    <3>1. buf = <<>>
      BY <1>1, <2>1, EmptySeq
    <3> QED BY <1>0, <2>1, <3>1 DEF Arriving
  <2>4. CASE hand = Err /\ b = Len(decoded)
    <3>1. HoldsFirst(received, r)'
      BY <1>1, <2>1, <2>4, HoldsMore
    <3>2. Arriving(r, b)'
      BY <1>0, <2>1, <2>2, <2>3, <2>4, <3>1 DEF Arriving
    <3> QED BY <2>3, <3>2 DEF Arrives
  <2>5. CASE hand = b + 1 /\ b + 1 = Len(decoded)
    <3>1. PICK c \in Nat : c = b + 1
      OBVIOUS
    <3>2. HoldsFirst(received, c)'
      BY <1>1, <2>1, <2>3, <2>5, <3>1, HoldsMore
    <3>3. Arriving(c, c)'
      BY <1>0, <2>1, <2>2, <2>3, <2>5, <3>1, <3>2 DEF Arriving
    <3> QED BY <2>3, <3>3 DEF Arrives
  <2> QED BY <1>0, <2>1, <2>4, <2>5 DEF Arriving
<1> QED BY <1>2, <1>3

LEMMA ArrivingStep == ChannelsInv /\ Arrives /\ [StreamsNext]_vars => Arrives'
<1> SUFFICES ASSUME ChannelsInv, Arrives, [StreamsNext]_vars PROVE Arrives'
  OBVIOUS
<1>1. CASE StreamsNext
  BY <1>1, MovingKeepsOrder, DecodingKeepsOrder, PuttingKeepsOrder, ReceivingKeepsOrder
     DEF StreamsNext, Next, Caller, Goroutine, Iterator, Moves
<1>2. CASE UNCHANGED vars
  BY <1>2 DEF vars, chan, Arrives, Arriving, HoldsFirst, Waiting, GivenUp, Over
<1> QED BY <1>1, <1>2

\* What the caller has received is a beginning of what was decoded, in order,
\* and all of it when the call ended without a cancelled context.
THEOREM ValuesArriveInOrder == StreamsSpec => []ReceivedInOrder
<1>1. ASSUME ChannelsInv, Arrives PROVE ReceivedInOrder
  <2>0. PICK r \in Nat, b \in Nat : Arriving(r, b)
    BY <1>1 DEF Arrives
  <2>1. Len(decoded) \in Nat
    BY <1>1, LenProperties DEF ChannelsInv, Contents
  <2>2. r <= b /\ b <= Len(decoded)
    BY <2>0 DEF Arriving
  <2>3. Over /\ ~cancelled => r = Len(decoded)
    BY <1>1, <2>0 DEF ChannelsInv, Reasons, Arrives, Arriving, Over, Waiting, GivenUp
  <2>4. r \in 0..Len(decoded) /\ HoldsFirst(received, r)
    BY <2>0, <2>1, <2>2 DEF Arriving
  <2> QED BY <2>3, <2>4 DEF ReceivedInOrder
<1>2. ChannelsInv /\ Arrives => ReceivedInOrder
  BY <1>1
<1> QED BY <1>2, NothingArrives, ChannelsKeepInv, ArrivingStep, PTL DEF StreamsSpec
=============================================================================
