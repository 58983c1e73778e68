--------------------------- MODULE AdminIterators ---------------------------
(***************************************************************************)
(* The calls of AdminClient that return an iterator: ServiceTraceIter, and  *)
(* GetAPILogs, GetErrorLogs, GetAuditLogs, which share their text.  The     *)
(* iterator runs in the caller's goroutine and calls yield for each value;  *)
(* yield returns false when the loop body of the caller has broken off, and *)
(* calling it once more makes the Go runtime panic.                         *)
(*                                                                         *)
(* The state is that of AdminChannels: g is where the iterator is, received *)
(* what the loop body got, "left" a caller who has broken off, and closed   *)
(* says that the iterator has returned.                                     *)
(***************************************************************************)
EXTENDS AdminChannels

CONSTANT Iterators   \* the iterators to look at

ASSUME IteratorsAssumption == Iterators \subseteq Iterating

IterInit ==
  /\ p \in Iterators /\ caller = "ranging" /\ g = "start"
  /\ hand = Err /\ then = "ended" /\ buf = <<>> /\ closed = FALSE /\ cancelled = FALSE
  /\ conns = 0 /\ open = 0 /\ decoded = <<>> /\ received = <<>>

Yield(v, next) == Send("yield", v, next)

\* ServiceTraceIter does nothing when the context is done already.
IterStart ==
  /\ g = "start"
  /\ IF p = "TraceIter" /\ cancelled THEN End ELSE Goto("ask")
  /\ UNCHANGED <<p, caller, buf, cancelled, conns, open, decoded, received>>

RequestFails == Yield(Err, "ended")

\* executeMethod returns the response or an error; the request after MaxConns
\* others fails.
Ask ==
  /\ g = "ask"
  /\ \/ ~cancelled /\ conns < MaxConns /\ Goto("scan")
        /\ conns' = conns + 1 /\ open' = open + 1
     \/ RequestFails /\ UNCHANGED <<conns, open>>
  /\ UNCHANGED <<p, caller, buf, cancelled, decoded, received>>

\* The context is looked at between decoding a value and yielding it.
Scan ==
  /\ g = "scan" /\ Len(decoded) < MaxItems
  /\ decoded' = Append(decoded, Len(decoded) + 1)
  /\ IF cancelled THEN End ELSE Yield(Len(decoded'), "scan")
  /\ UNCHANGED <<p, caller, buf, cancelled, conns, open, received>>

\* ServiceTraceIter reports whatever ends the response, and asks again whatever
\* yield returns.
ScanFails ==
  /\ g = "scan" /\ p = "TraceIter" /\ Yield(Err, "ask") /\ CloseIf(TRUE)
  /\ UNCHANGED <<p, caller, buf, cancelled, conns, decoded, received>>

\* The log iterators end with the response.  After any other error they decode
\* again, without a look at the context: what comes next may be a value, the end
\* or, on a broken response for ever, the same error.
LogsEnd ==
  /\ g \in {"scan", "spin"} /\ p = "LogsIter"
  /\ End \/ Goto(IF g = "scan" THEN "spin" ELSE "scan")
  /\ UNCHANGED <<p, caller, buf, cancelled, conns, open, decoded, received>>

\* Mutant: ServiceTraceIter goes on to the next value whatever yield returns.
WhenStopped_Not == then

\* Where the iterator goes when yield has returned false: the log iterators do
\* not look at what it returns, and ServiceTraceIter not when it has reported
\* the end of a response.
WhenStopped == IF p = "TraceIter" /\ hand # Err THEN "ended" ELSE then

Resume(l) == IF l = "ended" THEN End ELSE Goto(l)

\* The caller's loop body gets the value and goes on or breaks off.
Body ==
  /\ g = "yield" /\ caller = "ranging" /\ received' = Append(received, hand)
  /\ \/ Resume(then) /\ UNCHANGED caller
     \/ MayLeave /\ Resume(WhenStopped) /\ caller' = "left"
  /\ UNCHANGED <<p, buf, cancelled, conns, open, decoded>>

Panic ==
  /\ g = "yield" /\ caller = "left" /\ Goto("panic")
  /\ UNCHANGED <<p, caller, buf, cancelled, conns, open, decoded, received>>

Iterator == IterStart \/ Ask \/ Scan \/ ScanFails \/ LogsEnd \/ Body \/ Panic

StreamsInit == Init \/ IterInit
StreamsNext == Next \/ Iterator
StreamsSpec ==
  StreamsInit /\ [][StreamsNext]_vars /\ WF_vars(Caller) /\ WF_vars(Goroutine \/ Iterator)

----------------------------------------------------------------------------
\* yield is called after it returned false only by the log iterators, and by
\* ServiceTraceIter when its loop body broke off at the report of a broken
\* response (service-commands.go:313): breaking off at a value ends it.
PanicsOnlyAtReport ==
  g = "panic" /\ p = "TraceIter" =>
    \E i \in DOMAIN received : received[i] = Err /\ i = Len(received)

\* A call keeps at most one response open, however often it asks again, and none
\* when it has ended; but GetLogs (api-log.go:124), ServiceTelemetry and the log
\* iterators never close theirs, and ServiceTraceIter does not when it is
\* cancelled or its loop body breaks off (service-commands.go:319, :324).
ResponsesClosed ==
  /\ p # "Logs" => open <= 1
  /\ g = "ended" /\ p \in ClosesAtEnd \union ClosesItself => open = 0
  /\ g = "ended" /\ p = "TraceIter" /\ ~cancelled /\ caller # "left" => open = 0

\* service-commands.go:276: "listen on http trace notifications via iter.Seq":
\* a loop body that breaks off ends the iteration (violation run).
NoYieldAfterStop == g # "panic"
=============================================================================
