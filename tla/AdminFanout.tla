----------------------------- MODULE AdminFanout -----------------------------
(***************************************************************************)
(* AnonymousClient.Alive (cluster-health.go): one goroutine for each server  *)
(* that was named asks its liveness endpoint and offers the result in a      *)
(* channel that all share; one more waits for them and closes the channel.   *)
(* Without a server the client's own endpoint is asked.                      *)
(***************************************************************************)
EXTENDS Naturals, Sequences

CONSTANTS
  Servers,   \* the servers that may be named
  Own,       \* stands for the client's own endpoint
  MayLeave   \* TRUE: the caller may stop receiving

ASSUME FanoutAssumption == Own \notin Servers /\ MayLeave \in BOOLEAN

VARIABLES
  asked,      \* the servers named, or Own
  bad,        \* those of them whose endpoint url.Parse refuses
  at,         \* where each goroutine is
  result,     \* what it is about to send
  caller,     \* "ranging", "left" or "finished"
  cancelled,  \* ctx is done
  closed,     \* resultsCh is closed
  heard       \* history: what the caller received from each

vars == <<asked, bad, at, result, caller, cancelled, closed, heard>>

\* AliveResult: Error set, or Online; "bad" has neither server nor answer.
Results == {"bad", "error", "online", "offline"}

Init ==
  /\ \E named \in SUBSET Servers :
       /\ asked = IF named = {} THEN {Own} ELSE named
       /\ bad \in SUBSET named
  /\ at = [s \in asked |-> "parse"] /\ result = [s \in asked |-> "error"]
  /\ caller = "ranging" /\ cancelled = FALSE /\ closed = FALSE
  /\ heard = [s \in asked |-> <<>>]

Move(s, place) == at' = [at EXCEPT ![s] = place]

\* An endpoint that cannot be parsed is reported without asking; "tell" is a
\* send without a look at the context.
Parse(s) ==
  /\ at[s] = "parse"
  /\ IF s \in bad THEN Move(s, "tell") /\ result' = [result EXCEPT ![s] = "bad"]
     ELSE Move(s, "ask") /\ UNCHANGED result
  /\ UNCHANGED <<asked, bad, caller, cancelled, closed, heard>>

\* Mutant: the result is sent without a look at the context.
Offering_Unguarded == "tell"

\* A select with ctx.Done().
Offering == "offer"

\* One request without a retry; the response, if any, is closed.
Ask(s) ==
  /\ at[s] = "ask" /\ Move(s, Offering)
  /\ \E r \in IF cancelled THEN {"error"} ELSE {"error", "online", "offline"} :
       result' = [result EXCEPT ![s] = r]
  /\ UNCHANGED <<asked, bad, caller, cancelled, closed, heard>>

\* Mutant: the result is sent once more.
AfterSend_Again == "offer"

AfterSend == "done"

\* The channel has no buffer: a send and the caller's receive are one step.
Deliver(s) ==
  /\ at[s] \in {"offer", "tell"} /\ caller = "ranging" /\ ~closed
  /\ Move(s, AfterSend) /\ heard' = [heard EXCEPT ![s] = Append(@, result[s])]
  /\ UNCHANGED <<asked, bad, result, caller, cancelled, closed>>

\* "case <-ctx.Done(): return".
OfferGivesUp == cancelled

GiveUp(s) ==
  /\ at[s] = "offer" /\ OfferGivesUp /\ Move(s, "done")
  /\ UNCHANGED <<asked, bad, result, caller, cancelled, closed, heard>>

\* Mutant: a goroutine that reports a bad endpoint does not tell the WaitGroup
\* that it is done.
AllDone_Missed == \A s \in asked : at[s] = "done" /\ s \notin bad

AllDone == \A s \in asked : at[s] = "done"

\* wg.Wait, and the deferred close.
Close ==
  /\ ~closed /\ AllDone /\ closed' = TRUE
  /\ UNCHANGED <<asked, bad, at, result, caller, cancelled, heard>>

SeesClose ==
  /\ caller = "ranging" /\ closed /\ caller' = "finished"
  /\ UNCHANGED <<asked, bad, at, result, cancelled, closed, heard>>

Leave ==
  /\ MayLeave /\ caller = "ranging" /\ caller' = "left"
  /\ UNCHANGED <<asked, bad, at, result, cancelled, closed, heard>>

Cancel ==
  /\ ~cancelled /\ cancelled' = TRUE
  /\ UNCHANGED <<asked, bad, at, result, caller, closed, heard>>

Check(s) == Parse(s) \/ Ask(s) \/ Deliver(s) \/ GiveUp(s)
Work == Close \/ SeesClose \/ \E s \in asked : Check(s)
Next == Work \/ Leave \/ Cancel

\* A goroutine that can go on does; a request is answered or fails.
Spec == Init /\ [][Next]_vars /\ WF_vars(Work)

----------------------------------------------------------------------------
(* Properties.                                                              *)

Places == {"parse", "ask", "offer", "tell", "done"}

\* The variables have their types; only a bad endpoint is at an unguarded send.
FanoutTypeOK ==
  /\ asked \subseteq Servers \union {Own} /\ bad \subseteq asked \ {Own}
  /\ at \in [asked -> Places] /\ result \in [asked -> Results]
  /\ caller \in {"ranging", "left", "finished"}
  /\ cancelled \in BOOLEAN /\ closed \in BOOLEAN
  /\ heard \in [asked -> Seq(Results)]
  /\ \A s \in asked : at[s] = "tell" => s \in bad

\* Nobody is about to send, or will be, when the channel is closed: a send on a
\* closed channel panics (cluster-health.go:159).
NoSendAfterClose == closed => \A s \in asked : at[s] = "done"

\* Each server that was named is heard of once before the results end, unless
\* the context was cancelled (cluster-health.go:146).
Gather == INSTANCE AdminGather WITH
  Servers <- Servers \union {Own}, named <- asked, ended <- closed,
  missed <- {s \in asked : at[s] = "done" /\ heard[s] = <<>>}
GatherSpec == Gather!Spec

\* A caller who goes on receiving sees the end.
ResultsEnd == <>(caller \in {"left", "finished"})

\* A done context ends all goroutines also when the caller has left, but for the
\* report of an endpoint that cannot be parsed (cluster-health.go:175): with
\* it the WaitGroup and the goroutine that closes the channel wait for ever.
CancelFreesChecks ==
  cancelled ~> closed \/ (caller = "left" /\ \E s \in bad : at[s] = "tell")

\* What ends: the results for the caller, and the goroutines.
ChecksEnd == ResultsEnd /\ CancelFreesChecks
=============================================================================
