--------------------------- MODULE AdminChannels ---------------------------
(***************************************************************************)
(* The calls of AdminClient that hand their results out through a channel:  *)
(* GetBucketBandwidth, GetLogs, ServiceTrace, ServiceTelemetry,             *)
(* BucketReplicationDiff, BucketReplicationMRF, ServerUpdateStatus,         *)
(* Speedtest and DriveSpeedtest.  Three processes: the caller, who ranges   *)
(* over the channel, may cancel the context and may stop receiving; the     *)
(* goroutine that decodes the response; and the connection, which is        *)
(* external and may end or fail at any time.                                *)
(***************************************************************************)
EXTENDS Naturals, Sequences

CONSTANTS
  Producers,   \* the calls to look at, of the names below
  MaxItems,    \* bound: values decoded during one call
  MaxConns,    \* bound: requests made during one call
  MayLeave     \* TRUE: the caller may stop receiving before the channel closes

Known == {"Bandwidth", "Logs", "Trace", "Telemetry", "Diff", "MRF", "Update",
          "Speedtest", "DriveSpeedtest"}
Iterating == {"TraceIter", "LogsIter"}   \* the calls of AdminIterators
ASSUME ChannelsAssumption ==
  /\ Producers \subseteq Known /\ MayLeave \in BOOLEAN
  /\ MaxItems \in Nat /\ MaxConns \in Nat \ {0}

VARIABLES
  p,          \* the call made
  caller,     \* "calling", "ranging", "left", or how it ended
  g,          \* where the goroutine is; "none" before it is started
  hand,       \* the value the goroutine is about to send
  then,       \* where it goes after the send
  buf,        \* what is in the channel
  closed,     \* the channel is closed
  cancelled,  \* ctx is done
  conns,      \* requests made so far
  open,       \* responses whose body is open
  decoded,    \* history: the values decoded, in order
  received    \* history: what the caller received, in order

vars == <<p, caller, g, hand, then, buf, closed, cancelled, conns, open, decoded, received>>
chan == <<buf, closed>>

Err == 0    \* a value that carries an error

----------------------------------------------------------------------------
(* How the calls differ.                                                    *)

\* The request is made before the channel is returned ...
RequestsFirst == {"Bandwidth", "Speedtest", "DriveSpeedtest"}
\* ... and its failure is returned, there being no channel then.
ReturnsError  == {"Speedtest", "DriveSpeedtest"}
Capacity      == IF p = "Logs" THEN 1 ELSE 0
\* A failing Decode is reported; it is followed by a new request.
ReportsDecode == {"Bandwidth", "Trace", "Telemetry", "TraceIter"}
Reconnects    == {"Logs", "Trace"}
\* The body of the response is closed when the goroutine ends ...
ClosesAtEnd   == {"Bandwidth", "Diff", "MRF", "Speedtest", "DriveSpeedtest"}
\* ... or when a value cannot be decoded, and when the context is done; the other
\* calls, and the iterators at other times, do not close it.
ClosesItself  == {"Trace", "Update"}

----------------------------------------------------------------------------
Init ==
  /\ p \in Producers /\ caller = "calling"
  /\ g = IF p \in RequestsFirst THEN "none" ELSE "connect"
  /\ hand = Err /\ then = "ended" /\ buf = <<>> /\ closed = FALSE /\ cancelled = FALSE
  /\ conns = 0 /\ open = 0 /\ decoded = <<>> /\ received = <<>>

Goto(l) == g' = l /\ UNCHANGED <<hand, then, closed>>

\* Mutant: the channel is not closed.
End_Unclosed == Goto("ended")

\* The deferred close of the channel.
End == g' = "ended" /\ closed' = TRUE /\ UNCHANGED <<hand, then>>

\* A send: "offer" is a select with ctx.Done(), "tell" waits for the receiver.
Send(how, v, next) == g' = how /\ hand' = v /\ then' = next /\ UNCHANGED closed

\* Mutant: the body is not closed.
CloseIf_Not(b) == UNCHANGED open

\* closeResponse, if there is a response.
CloseIf(b) == open' = IF b /\ open > 0 THEN open - 1 ELSE open

----------------------------------------------------------------------------
(* The caller.                                                              *)

\* GetBucketBandwidth sends the error to the channel it is yet to return.
CallWithRequest ==
  /\ caller = "calling" /\ p \in RequestsFirst /\ conns' = conns + 1
  /\ \/ ~cancelled /\ caller' = "ranging" /\ g' = "read" /\ open' = open + 1
     \/ p \in ReturnsError /\ caller' = "refused" /\ UNCHANGED <<g, open>>
     \/ p \notin ReturnsError /\ caller' = "sending" /\ UNCHANGED <<g, open>>
  /\ UNCHANGED <<p, hand, then, chan, cancelled, decoded, received>>

CallWithout ==
  /\ caller = "calling" /\ p \notin RequestsFirst /\ caller' = "ranging"
  /\ UNCHANGED <<p, g, hand, then, chan, cancelled, conns, open, decoded, received>>

Receive ==
  /\ caller = "ranging" /\ buf # <<>>
  /\ received' = Append(received, Head(buf)) /\ buf' = Tail(buf)
  /\ UNCHANGED <<p, caller, g, hand, then, closed, cancelled, conns, open, decoded>>

\* Without a buffer the goroutine hands its value over.
Rendezvous ==
  /\ caller = "ranging" /\ Capacity = 0 /\ g \in {"offer", "tell"} /\ g' = "sent"
  /\ received' = Append(received, hand)
  /\ UNCHANGED <<p, caller, hand, then, chan, cancelled, conns, open, decoded>>

SeesClose ==
  /\ caller = "ranging" /\ closed /\ buf = <<>> /\ caller' = "finished"
  /\ UNCHANGED <<p, g, hand, then, chan, cancelled, conns, open, decoded, received>>

Leave ==
  /\ MayLeave /\ p \in Known /\ caller = "ranging" /\ caller' = "left"
  /\ UNCHANGED <<p, g, hand, then, chan, cancelled, conns, open, decoded, received>>

Cancel ==
  /\ ~cancelled /\ cancelled' = TRUE
  /\ UNCHANGED <<p, caller, g, hand, then, chan, conns, open, decoded, received>>

Caller == CallWithRequest \/ CallWithout \/ Receive \/ Rendezvous \/ SeesClose

----------------------------------------------------------------------------
(* The goroutine.                                                           *)

\* executeMethod succeeds, fails, or returns a status other than 200 (GetLogs
\* reports only the status).  On the last of MaxConns requests it fails.
Connect ==
  /\ g = "connect" /\ conns' = conns + 1
  /\ \/ ~cancelled /\ conns < MaxConns /\ Goto("read") /\ open' = open + 1
     \/ Send("tell", Err, "ended") /\ UNCHANGED open
     \/ p = "Logs" /\ End /\ UNCHANGED open
  /\ UNCHANGED <<p, caller, buf, cancelled, decoded, received>>

\* What was in the response when the context was done may still be decoded;
\* ServiceTelemetry looks at the context first.
Decode ==
  /\ g = "read" /\ Len(decoded) < MaxItems
  /\ p = "Telemetry" => ~cancelled
  /\ decoded' = Append(decoded, Len(decoded) + 1)
  /\ Send("offer", Len(decoded'), "read")
  /\ UNCHANGED <<p, caller, buf, cancelled, conns, open, received>>

TelemetryStops ==
  /\ g = "read" /\ p = "Telemetry" /\ cancelled /\ End
  /\ UNCHANGED <<p, caller, buf, cancelled, conns, open, decoded, received>>

\* ServiceTelemetry: the stream is there, but reading it fails.
StreamFails ==
  /\ g = "read" /\ p = "Telemetry" /\ ~cancelled /\ Send("offer", Err, "ended")
  /\ UNCHANGED <<p, caller, buf, cancelled, conns, open, decoded, received>>

\* Mutant: the failure of Decode is not reported.
AfterBreak_Silent == IF p \in Reconnects THEN Goto("connect") ELSE End

AfterBreak ==
  LET next == IF p \in Reconnects THEN "connect" ELSE "ended" IN
  IF p \in ReportsDecode THEN Send("tell", Err, next)
  ELSE IF next = "connect" THEN Goto("connect") ELSE End

\* The response has ended, or reading it failed.
DecodeFails ==
  /\ g = "read" /\ AfterBreak
  /\ CloseIf(p \in ClosesItself \/ (p \in ClosesAtEnd /\ g' = "ended"))
  /\ UNCHANGED <<p, caller, buf, cancelled, conns, decoded, received>>

\* Room in the buffered channel of GetLogs.
Put ==
  /\ g \in {"offer", "tell"} /\ Len(buf) < Capacity
  /\ buf' = Append(buf, hand) /\ Goto("sent")
  /\ UNCHANGED <<p, caller, cancelled, conns, open, decoded, received>>

\* Mutants: the value is offered without a look at the context, or given up
\* without one.
OfferGivesUp_Not    == FALSE
OfferGivesUp_Always == TRUE

\* "case <-ctx.Done(): return".
OfferGivesUp == cancelled

GiveUp ==
  /\ g = "offer" /\ OfferGivesUp /\ End
  /\ CloseIf(p \in ClosesItself \union ClosesAtEnd)
  /\ UNCHANGED <<p, caller, buf, cancelled, conns, decoded, received>>

Sent ==
  /\ g = "sent" /\ IF then = "ended" THEN End ELSE Goto(then)
  /\ CloseIf(p \in ClosesAtEnd /\ then = "ended")
  /\ UNCHANGED <<p, caller, buf, cancelled, conns, decoded, received>>

Goroutine ==
  Connect \/ Decode \/ TelemetryStops \/ StreamFails \/ DecodeFails \/ Put \/ GiveUp \/ Sent
Next == Caller \/ Leave \/ Cancel \/ Goroutine

\* A goroutine that can go on does; the connection ends, fails or delivers.
Spec == Init /\ [][Next]_vars /\ WF_vars(Caller) /\ WF_vars(Goroutine)

----------------------------------------------------------------------------
(* Properties.                                                              *)

Over == caller = "finished"

\* s holds the values 1 to n, each once and in order, and errors between them.
HoldsFirst(s, n) ==
  /\ \A i \in DOMAIN s : s[i] = Err \/ s[i] \in 1..n
  /\ \A v \in 1..n : \E i \in DOMAIN s : s[i] = v
  /\ \A i, j \in DOMAIN s : i < j /\ s[i] # Err /\ s[j] # Err => s[i] < s[j]

\* The variables have their types, and nothing is put into a closed channel:
\* the goroutine that closes it is the only sender and has ended.
ChannelsTypeOK ==
  /\ p \in Known \union Iterating
  /\ caller \in {"calling", "sending", "ranging", "left", "finished", "refused"}
  /\ g \in {"none", "connect", "read", "offer", "tell", "sent", "ended",
            "start", "ask", "scan", "yield", "spin", "panic"}
  /\ hand \in 0..MaxItems
  /\ then \in {"read", "connect", "ended", "scan", "ask"}
  /\ Len(buf) <= Capacity /\ conns <= MaxConns + 1
  /\ closed = (g = "ended") /\ cancelled \in BOOLEAN

\* The caller has received a beginning of what was decoded, in order, and all
\* of it when the call ended without a cancelled context: neither the buffer
\* nor a new request loses or repeats a value.  Values are numbered as they are
\* decoded.
ReceivedInOrder ==
  \E n \in 0..Len(decoded) :
    /\ HoldsFirst(received, n)
    /\ Over /\ ~cancelled => n = Len(decoded)

\* The calls that report a failing Decode end with an error, so that a broken
\* response cannot be taken for a complete one (ServiceTrace, ServiceTraceIter,
\* ServiceTelemetry, GetBucketBandwidth).
EndsWithReason ==
  Over /\ ~cancelled /\ p \in ReportsDecode =>
    received # <<>> /\ received[Len(received)] = Err

\* A caller who goes on receiving sees the channel closed, or the iteration
\* ended, after cancelling the context, whatever the server does.  The one
\* exception is a failing request of GetBucketBandwidth, which is reported to a
\* channel that nobody has yet (bandwidth.go:63); and an iterator may panic or
\* spin (CancelFrees).
CancelCloses ==
  cancelled ~> \/ caller \in {"finished", "refused", "left"}
               \/ caller = "sending" /\ p = "Bandwidth"
               \/ g = "spin" /\ p = "LogsIter"

\* A done context ends the goroutine also when the caller has stopped
\* receiving, but for the send of an error without a look at the context
\* (service-commands.go:363), which the two speed tests do not have; for a
\* yield after the end of the loop; and for the log iterators' endless retry of
\* a broken response (api-logs.go:76).
CancelFrees ==
  cancelled /\ g # "none" ~>
    \/ g = "ended"
    \/ g = "tell" /\ caller = "left" /\ p \notin ReturnsError
    \/ g = "panic" /\ caller = "left" /\ p \in Iterating
    \/ g = "spin" /\ p = "LogsIter"

\* What a done context ends: the iteration and the goroutine.
CancelEnds == CancelCloses /\ CancelFrees

----------------------------------------------------------------------------
(* What the documentation says and the code does not do (violation runs).   *)

\* bandwidth.go:41: "Report includes the bandwidth report or the error
\* encountered."  The call hands out a channel to find it in.
CallReturns == caller = "calling" ~> caller \in {"ranging", "left", "finished", "refused"}

\* opentelemetry.go:99: "If context is canceled the function will return."
TelemetryReturns == cancelled ~> g = "ended"
=============================================================================
