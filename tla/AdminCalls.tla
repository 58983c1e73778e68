----------------------------- MODULE AdminCalls -----------------------------
(***************************************************************************)
(* The calls of AdminClient that answer with a value or a body: what they   *)
(* do with what executeMethod returns.  Some 150 calls share one text       *)
(* ("Query").  The others are ExportIAM, ExportBucketMetadata and           *)
(* ServiceTelemetryStream ("Export"), the downloads of profiles, health     *)
(* information and files ("Download"), Metrics, Netperf, ClientPerf, and    *)
(* AddOrUpdateIDPConfig, GetIDPConfig, ListIDPConfig and DeleteIDPConfig,   *)
(* which share their fallback to an older API ("IDP").                      *)
(*                                                                         *)
(* The state of AdminRetry is that of the request under way.                *)
(***************************************************************************)
EXTENDS AdminRetry

CONSTANTS
  Calls,      \* the calls to look at, of the names below
  MaxEntries  \* bound: entries a server sends to Metrics

Kinds == {"Query", "Export", "Download", "Metrics", "Netperf", "ClientPerf", "IDP"}
ASSUME CallsAssumption == Calls \subseteq Kinds /\ MaxEntries \in Nat \ {0} /\ MaxRetry > 0

VARIABLES
  call,     \* the call made
  at,       \* "first" or "second" request, reading the "stream", or "over"
  outcome,  \* what the caller is told: "nil", "body", or the kind of error
  told,     \* Metrics: the entries given to out; TRUE is a final one
  before    \* history: the known effects of the first of two requests, and how
            \* its responses were left

callVars == <<call, at, outcome, told, before>>
allVars  == <<vars, callVars>>

----------------------------------------------------------------------------
(* How the calls differ.                                                    *)

\* The response is closed, and the text of an error lost with it, before it is
\* parsed (metrics.go:224, iam-migrate.go:126, bucket-metadata.go:47,
\* opentelemetry.go:90).
ClosesFirst == {"Export", "Metrics"}
HandsOut    == {"Export", "Download"}
\* The body of a successful response is never closed.
NeverCloses == {"Netperf", "ClientPerf"}

\* Mutant: only status 426 is an error.
Refusals_Fewer == {"upgrade"}

\* The statuses that are an error: ClientPerf does not look at the status.
Refusals == IF call = "ClientPerf" THEN {} ELSE Statuses \ {"ok"}

\* The calls about IDPs ask the older API when the server wants that.
FallsBack == {"upgrade"}

----------------------------------------------------------------------------
CallsInit ==
  /\ Init /\ call \in Calls /\ at = "first" /\ outcome = "none"
  /\ told = <<>> /\ before = [effects |-> {}, left |-> {}]

Requesting   == at \in {"first", "second"}
Overwrites   == at = "first" /\ call = "ClientPerf"
Answering(s) == result.res # 0 /\ answers[result.res].status \in s
Settled      == Requesting /\ Done /\ ~Overwrites
Asks         == at = "first" /\ call = "IDP" /\ Answering(FallsBack)

Over(o) == at' = "over" /\ outcome' = o /\ UNCHANGED <<call, told, before>>

\* Mutant: the body is not closed.
BodyClosed_Not == answers

\* closeResponse, or the close at the end of httpRespToErrorResponse.
BodyClosed == [i \in DOMAIN answers |->
  IF i = result.res THEN [answers[i] EXCEPT !.body = "closed"] ELSE answers[i]]

CloseBody == answers' = BodyClosed

NoRequest == UNCHANGED <<pc, cvars, res, err, result, served, server, cancelled>>

\* What executeMethod does, but for the cancelling of its context.
Execute ==
  /\ Requesting /\ UNCHANGED callVars
  /\ Client \/ Network \/ Server

\* The second request of ClientPerf has the background context.
CancelCall ==
  /\ Requesting /\ ~(call = "ClientPerf" /\ at = "second")
  /\ Cancel /\ UNCHANGED callVars

\* A second request with a timer of its own, and with the new prefix again; the
\* responses to the first are left as they are then.
Second(done, left) ==
  /\ at' = "second" /\ cancelled' = done
  /\ pc' = "start" /\ tries' = 0 /\ delay' = 0 /\ rel' = "v4" /\ res' = 0 /\ err' = "nil"
  /\ result' = [res |-> 0, err |-> "nil"] /\ answers' = <<>> /\ served' = <<>>
  /\ before' = [effects |-> {served[i].status : i \in DOMAIN served \ Unknown},
                left    |-> {[status |-> left[i].status, body |-> left[i].body] : i \in DOMAIN left}]
  /\ UNCHANGED <<server, call, outcome, told>>

\* ClientPerf: the response of the measured request is dropped, and its error
\* overwritten by the next (perf-client.go:99, :109).
Measured == Done /\ Overwrites /\ Second(FALSE, answers)

RequestFails == Settled /\ result.err # "nil" /\ Over("transport") /\ UNCHANGED vars

\* closeResponse comes before the second request (idp-commands.go:73).
Fallback == Settled /\ Asks /\ Second(cancelled, BodyClosed)

\* httpRespToErrorResponse.
ReadsError == IF call \in ClosesFirst THEN "lost" ELSE "server"

\* The body of a refusal is in memory; only that of status 426 is yet to be
\* read, which may fail.
Refused ==
  /\ Settled /\ Answering(Refusals) /\ ~Asks
  /\ \/ Over(ReadsError)
     \/ Answering({"upgrade"}) /\ Over("lost")
  /\ CloseBody /\ NoRequest

Succeeds == Settled /\ Answering(Statuses \ Refusals)

\* The answer is decoded, or is not what was expected.
DecodeAnswer ==
  /\ Succeeds /\ call \notin HandsOut \union {"Metrics"}
  /\ Over("nil") \/ Over("decode")
  /\ IF call \in NeverCloses THEN UNCHANGED answers ELSE CloseBody
  /\ NoRequest

HandOut == Succeeds /\ call \in HandsOut /\ Over("body") /\ UNCHANGED vars

OpenStream ==
  /\ Succeeds /\ call = "Metrics" /\ at' = "stream"
  /\ UNCHANGED <<vars, call, outcome, told, before>>

\* Metrics: an entry is decoded and given to out; the final one ends the call.
Entry ==
  /\ at = "stream" /\ Len(told) < MaxEntries /\ told' = Append(told, FALSE)
  /\ UNCHANGED <<vars, call, at, outcome, before>>

FinalEntry ==
  /\ at = "stream" /\ Len(told) < MaxEntries /\ told' = Append(told, TRUE)
  /\ at' = "over" /\ outcome' = "nil" /\ CloseBody /\ NoRequest
  /\ UNCHANGED <<call, before>>

\* Mutant: the end of the stream is the end of the metrics.
AtEOF_Nil == "nil"

AtEOF == "unexpected"

StreamEnds ==
  /\ at = "stream" /\ (Over(AtEOF) \/ Over("decode"))
  /\ CloseBody /\ NoRequest

Ends ==
  \/ Execute \/ Measured \/ RequestFails \/ Fallback \/ Refused \/ DecodeAnswer
  \/ HandOut \/ OpenStream \/ FinalEntry \/ StreamEnds
CallsNext == Ends \/ Entry \/ CancelCall

\* Where nothing but the server, or the context, makes an end to waiting: the
\* request is written, or a body that is still on the connection is read, decoded
\* or drained (api.go:430, utils.go:142).
Unread == result.res # 0 /\ answers[result.res].body = "caller"
AwaitsServer ==
  \/ Requesting /\ pc \in {"send", "body"}
  \/ Settled /\ Unread /\ ~(Succeeds /\ call \in HandsOut \union {"Metrics"})
  \/ at = "stream"

\* The caller's goroutine and its timer run; dialling has a time-out, the headers
\* of the answer have one too (transport.go:33, :39, :41), and a context that is
\* done ends all waiting.  Nobody promises that a server goes on with a body.
CallsFairness ==
  /\ WF_allVars(~AwaitsServer /\ Ends)
  /\ WF_allVars(cancelled /\ Ends)

CallsSpec == CallsInit /\ [][CallsNext]_allVars /\ CallsFairness

----------------------------------------------------------------------------
(* Properties.                                                              *)

IsOver == at = "over"

\* A call that is over has left no body of its last request behind for its caller
\* to close but the one it hands out, whatever the status and however often it was
\* tried (utils.go:133); Netperf and ClientPerf do leave theirs.
CallsCloseBodies ==
  IsOver /\ call \notin NeverCloses =>
    \A i \in DOMAIN answers : answers[i].body = "caller" => outcome = "body" /\ i = result.res

\* The first of two requests leaves no body behind either: before an older API is
\* asked, the refusal of the newer is closed (idp-commands.go:73), and what its
\* retries gave up is as in executeMethod; ClientPerf drops the measured answer.
FirstIsClosed ==
  \A r \in before.left :
    /\ r.body = "open" => r.status = "upgrade"
    /\ r.body = "caller" => call \in NeverCloses

\* A caller who is told of success has the server's success for the request
\* that was made last, with every status between there and executeMethod
\* checked; ClientPerf does not check (perf-client.go:117).
SuccessMeansCarriedOut ==
  outcome \in {"nil", "body"} /\ call # "ClientPerf" =>
    /\ result.res # 0 /\ answers[result.res].status = "ok"
    /\ answers[result.res].try = tries /\ LastServed.status = "ok"

\* A refusal reaches the caller in the server's words, but from the calls that
\* close the response first, and where the body of a status 426 could not be
\* read.
ErrorIsTheServers ==
  outcome = "lost" => call \in ClosesFirst \/ answers[result.res].status = "upgrade"

\* The second request of a call about IDPs comes only when the server is not known
\* to have carried out or refused for good the first (idp-commands.go:71, :148,
\* :253, :302): a configuration is not applied twice by falling back.
FallbackRepeatsNothing ==
  at = "second" /\ call = "IDP" => before.effects \subseteq {"upgrade", "retryable"}

\* Metrics returns nil after a final entry and only then, and gives nothing to
\* out after one: a stream that the server broke off is not taken for complete
\* (metrics.go:246).
MetricsNilMeansFinal ==
  call = "Metrics" =>
    /\ \A i \in DOMAIN told : told[i] <=> i = Len(told) /\ outcome = "nil"
    /\ outcome = "nil" => told # <<>>

\* The bodies of all responses, from executeMethod to the end of a call, of both
\* requests where there are two.
BodiesAccountedFor == OnlyUpgradesStayOpen /\ CallsCloseBodies /\ FirstIsClosed

\* The caller is told what the server said.
OutcomeIsTheServers == SuccessMeansCarriedOut /\ ErrorIsTheServers

\* Whatever is asked again, by a retry or by falling back to an older API, may be.
\* That the newer API is not asked again once it was refused is so of the tries
\* of one request: the fallback begins with it once more (idp-commands.go:83).
RepeatsAreSafe == RepeatedOnlyIfUnknown /\ OldAfterUpgrade /\ FallbackRepeatsNothing


----------------------------------------------------------------------------
(* What the comments say and the code does not do (violation runs).         *)

\* utils.go:133, "Callers should close resp.Body when done reading from it",
\* of the bodies that executeMethod leaves to a call.
BodiesClosedByCalls ==
  IsOver /\ outcome # "body" =>
    /\ \A i \in DOMAIN answers : answers[i].body # "caller"
    /\ \A r \in before.left : r.body # "caller"

\* perf-client.go:87, "ClientPerf - perform net from client to MinIO servers":
\* a result means that the measured request was carried out.
PerfMeansMeasured ==
  call = "ClientPerf" /\ outcome = "nil" =>
    "ok" \in before.effects /\ answers[result.res].status = "ok"
=============================================================================
