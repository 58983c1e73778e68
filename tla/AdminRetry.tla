----------------------------- MODULE AdminRetry -----------------------------
(***************************************************************************)
(* One call of AdminClient.executeMethod (api.go) with its retry timer      *)
(* (retry.go), the HTTP connection it uses and the server at the other end. *)
(* The context may be cancelled at any time.  What the connection and the   *)
(* server do is external: a request may get lost before or after the server *)
(* has handled it.                                                          *)
(***************************************************************************)
EXTENDS Integers, Sequences, FiniteSets

CONSTANTS
  MaxRetry,   \* the variable MaxRetry
  Unit, Cap,  \* DefaultRetryUnit, DefaultRetryCap
  Bits,       \* width of a time.Duration
  Tracing,    \* TRUE: TraceOn, with an output that may fail
  Servers     \* the API versions a server may know: a set of sets

ASSUME RetryAssumption ==
  /\ {MaxRetry, Unit, Cap} \subseteq Nat /\ Bits \in Nat \ {0}
  /\ Tracing \in BOOLEAN
  /\ \A s \in Servers : s \subseteq {"v3", "v4"}

VARIABLES
  pc,         \* where executeMethod is
  cancelled,  \* ctx.Err() # nil
  tries,      \* values yielded by the retry timer
  delay,      \* the longest the timer may wait now
  rel,        \* API version in reqData.relPath
  res, err,   \* the results as they stand; res is an index of answers, 0 is nil
  result,     \* what executeMethod returned
  answers,    \* the responses that arrived, and who is to close their body
  served,     \* history: the requests the server handled
  server      \* the API versions the server knows

client  == <<pc, tries, delay, rel, res, err, result, answers>>
vars    == <<client, cancelled, served, server>>
cvars   == <<tries, delay, rel>>

Min2(a, b) == IF a < b THEN a ELSE b
Signed(n)  == LET m == n % 2^Bits IN IF m >= 2^(Bits - 1) THEN m - 2^Bits ELSE m

\* exponentialBackoffWait before the jitter, which waits up to this long.
Backoff(i) == LET sleep == Signed(Unit * 2^i) IN Min2(sleep, Cap)

Statuses == {"ok", "upgrade", "retryable", "final"}
LastServed == served[Len(served)]

\* A body is closed by executeMethod, or it is the caller's.
HandedOver(r) == [answers EXCEPT ![r].body = IF @ = "open" THEN "caller" ELSE @]

Return(r, e) ==
  /\ pc' = "done" /\ result' = [res |-> r, err |-> e]
  /\ answers' = IF r = 0 THEN answers ELSE HandedOver(r)
  /\ UNCHANGED <<cvars, res, err>>

Goto(l) == pc' = l /\ UNCHANGED result

\* "continue", and the timer takes over.
Retry == Goto("wait") /\ delay' = Backoff(tries - 1)

Init ==
  /\ pc = "start" /\ cancelled = FALSE /\ tries = 0 /\ delay = 0 /\ rel = "v4"
  /\ res = 0 /\ err = "nil" /\ result = [res |-> 0, err |-> "nil"]
  /\ answers = <<>> /\ served = <<>> /\ server \in Servers

----------------------------------------------------------------------------
\* Mutants: one try too many; the tries are not counted.
Yield_OneMore ==
  IF tries <= MaxRetry
  THEN Goto("request") /\ tries' = tries + 1
  ELSE Goto("after") /\ UNCHANGED tries

Yield ==
  IF tries < MaxRetry
  THEN Goto("request") /\ tries' = tries + 1
  ELSE Goto("after") /\ UNCHANGED tries

\* The timer skips everything when the context is done already.
Start ==
  /\ pc = "start"
  /\ IF cancelled THEN Goto("after") /\ UNCHANGED tries ELSE Yield
  /\ UNCHANGED <<delay, rel, res, err, answers>>

\* newRequest fails for a bad URL or header, or without credentials.
NewRequest ==
  /\ pc = "request"
  /\ \/ Goto("send") /\ UNCHANGED <<cvars, res, err, answers>>
     \/ Return(0, "request")

\* do returned an error: give up, or try again.
DoFails(e) ==
  IF e = "refused" THEN Return(0, e)
  ELSE IF cancelled THEN Return(0, "ctx")
  ELSE /\ Retry /\ res' = 0 /\ err' = e
       /\ UNCHANGED <<tries, rel, answers>>

Send ==
  /\ pc = "send"
  /\ \/ ~cancelled /\ Goto("sent") /\ UNCHANGED <<cvars, res, err, answers>>
     \/ DoFails("refused")
     \/ DoFails("network")

\* Before or after the server has handled the request.
Break == pc \in {"sent", "served"} /\ DoFails("network")

Serve ==
  /\ pc = "sent" /\ Goto("served")
  /\ \E s \in IF rel \in server THEN Statuses \ {"upgrade"} ELSE {"upgrade"} :
       served' = Append(served, [try |-> tries, ver |-> rel, status |-> s])
  /\ UNCHANGED <<cvars, res, err, answers>>

Arrived(body) == Append(answers, [try |-> tries, status |-> LastServed.status, body |-> body])

Answer ==
  /\ pc = "served" /\ Goto("answered")
  /\ answers' = Arrived("open") /\ res' = Len(answers') /\ err' = "nil"
  /\ UNCHANGED cvars

\* do dumps the response when tracing is on; an error of the dump counts as an
\* error of the request, and the response is dropped.
TraceFails ==
  /\ pc = "served" /\ Tracing
  /\ answers' = Arrived("dropped")
  /\ IF cancelled
     THEN pc' = "done" /\ result' = [res |-> 0, err |-> "ctx"] /\ UNCHANGED <<cvars, res, err>>
     ELSE Retry /\ res' = 0 /\ err' = "trace" /\ UNCHANGED <<tries, rel>>

Downgraded == "v3"

Closed == [answers EXCEPT ![res].body = "closed"]

\* What the status asks for.
Answered ==
  /\ pc = "answered"
  /\ \/ answers[res].status = "ok" /\ Return(res, "nil")
     \/ /\ answers[res].status = "upgrade"
        /\ rel' = Downgraded /\ Retry /\ UNCHANGED <<tries, res, err, answers>>
     \/ /\ answers[res].status \in {"retryable", "final"}
        /\ Goto("body") /\ UNCHANGED <<cvars, res, err, answers>>

\* Mutant: also what is final is retried.
Retryable_All(s) == TRUE

Retryable(s) == s = "retryable"

\* The body is read and closed, whatever reading it yields.
ReadBody ==
  /\ pc = "body" /\ answers' = Closed
  /\ \/ /\ Retryable(answers[res].status)
        /\ Retry /\ UNCHANGED <<tries, rel, res, err>>
     \/ /\ ~Retryable(answers[res].status)
        /\ Goto("after") /\ UNCHANGED <<cvars, res, err>>
     \/ /\ pc' = "done" /\ result' = [res |-> 0, err |-> "body"]
        /\ UNCHANGED <<cvars, res, err>>

\* The timer waits after the last try too.
Wait ==
  /\ pc = "wait"
  /\ \/ Yield
     \/ cancelled /\ Goto("after") /\ UNCHANGED tries
  /\ UNCHANGED <<delay, rel, res, err, answers>>

\* Mutant: the last error is lost.
Final_NoError == IF cancelled THEN [res |-> 0, err |-> "ctx"] ELSE [res |-> res, err |-> "nil"]

Final == IF cancelled THEN [res |-> 0, err |-> "ctx"] ELSE [res |-> res, err |-> err]

After == pc = "after" /\ Return(Final.res, Final.err)

Client == /\ Start \/ NewRequest \/ Send \/ Answered \/ ReadBody \/ Wait \/ After
          /\ UNCHANGED <<cancelled, served, server>>
Network == /\ Break \/ Answer \/ TraceFails
           /\ UNCHANGED <<cancelled, served, server>>
Server == Serve /\ UNCHANGED <<cancelled, server>>
Cancel == /\ pc # "done" /\ ~cancelled /\ cancelled' = TRUE
          /\ UNCHANGED <<client, served, server>>

Next == Client \/ Network \/ Server \/ Cancel

Spec == Init /\ [][Next]_vars

----------------------------------------------------------------------------
(* Properties.                                                              *)

Places == {"start", "request", "send", "sent", "served", "answered", "body",
           "wait", "after", "done"}
Errors == {"nil", "request", "refused", "network", "trace", "body", "ctx"}

\* The locals of executeMethod have their types; res names a response that
\* arrived, and each try has at most one request and one response.
RetryTypeOK ==
  /\ pc \in Places /\ {cancelled} \subseteq BOOLEAN
  /\ tries \in 0..MaxRetry /\ rel \in {"v3", "v4"}
  /\ res \in 0..Len(answers) /\ err \in Errors
  /\ result \in [res : 0..Len(answers), err : Errors]
  /\ answers \in Seq([try : 1..MaxRetry, status : Statuses,
                      body : {"open", "closed", "caller", "dropped"}])
  /\ served \in Seq([try : 1..MaxRetry, ver : {"v3", "v4"}, status : Statuses])
  /\ Len(answers) <= Len(served) /\ Len(served) <= tries
  /\ server \in Servers

Done == pc = "done"

\* executeMethod returns an error or a response, and the response is that of
\* the last try: not one of an earlier try that a later error has overtaken
\* (api.go, "return res, err").
AnswerIsOfLastTry ==
  Done /\ MaxRetry > 0 =>
    /\ (result.err = "nil") <=> (result.res # 0)
    /\ result.err = "nil" => answers[result.res].try = tries

\* A network error comes back only when every try has been used up, a response
\* that asks for a retry likewise.
GivesUpLate ==
  Done =>
    /\ result.err \in {"network", "trace"} => tries = MaxRetry
    /\ result.res # 0 /\ answers[result.res].status \in {"upgrade", "retryable"}
         => tries = MaxRetry

\* When the context was done, no refusal of the server and no network error is
\* returned in its place; only a success that was there first (api.go,
\* "Return an error when retry is canceled or deadlined").
CancelIsReported ==
  Done /\ cancelled =>
    \/ result.err \in {"ctx", "request", "refused", "body"}
    \/ result.err = "nil" /\ result.res # 0 /\ answers[result.res].status = "ok"

\* What executeMethod returns, of all that happened in its tries.
OutcomeOfTries == AnswerIsOfLastTry /\ GivesUpLate /\ CancelIsReported

Reported(t) == \E i \in DOMAIN answers : answers[i].try = t /\ answers[i].body # "dropped"
Unknown == {i \in DOMAIN served : ~Reported(served[i].try)}

\* The server carries out a call again only when the answer to it got lost
\* or could not be traced:
\* a call of a non-idempotent method may be repeated, but never when the client
\* has been told that it was carried out or refused for good.
RepeatedOnlyIfUnknown ==
  \A i, j \in DOMAIN served :
    i < j /\ served[i].status \in {"ok", "final"} => i \in Unknown

\* A server that asked for the older API is not sent the newer one again by a
\* retry of the same request (api.go:426).
OldAfterUpgrade ==
  \A i, j \in DOMAIN served :
    i < j /\ served[i].status = "upgrade" /\ Reported(served[i].try)
      => served[j].ver = "v3"

\* The body of a response that executeMethod gives up is closed, but for that of
\* a server that asks for the older API (api.go:426) and that of a response
\* that could not be traced (api.go:343); what it does not give up is closed
\* already or the caller's.
OnlyUpgradesStayOpen ==
  Done => \A i \in DOMAIN answers :
    /\ answers[i].body = "open" => answers[i].status = "upgrade" /\ i # result.res
    /\ answers[i].body = "caller" => i = result.res /\ answers[i].status \in {"ok", "upgrade"}

----------------------------------------------------------------------------
(* What the comments say and the code does not do (violation runs).         *)

\* retry.go:84: "sleep = random_between(0, min(cap, base * 2 ** attempt))": it is
\* as long as the shift does not leave the width of a Duration (retry.go:85), with
\* the default unit up to MaxRetry = 34; the default is 10.
DelayIsMinOfCap == pc = "wait" => delay = Min2(Cap, Unit * 2^(tries - 1))

\* utils.go:133, "Callers should close resp.Body when done reading from it",
\* and api.go:431, "res.Body should be closed".
EveryBodyClosed ==
  Done => \A i \in DOMAIN answers : answers[i].body \notin {"open", "dropped"}

\* retry.go:31, "MaxRetry is the maximum number of retries before stopping":
\* also without retries the request is made, and its outcome returned.
AlwaysAnOutcome == Done => result.res # 0 \/ result.err # "nil"
=============================================================================
