----------------------------- MODULE AdminGather -----------------------------
(***************************************************************************)
(* What AnonymousClient.Alive promises: every server that was named is heard *)
(* of once, then the results end.  A cancelled context allows a server to be *)
(* left out, and nothing else does.                                         *)
(***************************************************************************)
EXTENDS Sequences

CONSTANTS Servers, Results

VARIABLES
  named,      \* the servers asked
  heard,      \* what the caller got for each of them
  missed,     \* the servers that will not be heard of
  cancelled,  \* ctx is done
  ended       \* the results have ended

gatherVars == <<named, heard, missed, cancelled, ended>>

Init ==
  /\ named \in SUBSET Servers /\ heard = [s \in named |-> <<>>]
  /\ missed = {} /\ cancelled = FALSE /\ ended = FALSE

Waiting(s) == s \in named \ missed /\ heard[s] = <<>>

Hear(s) ==
  /\ Waiting(s) /\ ~ended /\ \E r \in Results : heard' = [heard EXCEPT ![s] = <<r>>]
  /\ UNCHANGED <<named, missed, cancelled, ended>>

Miss(s) ==
  /\ Waiting(s) /\ cancelled /\ missed' = missed \union {s}
  /\ UNCHANGED <<named, heard, cancelled, ended>>

Cancel == cancelled' = TRUE /\ UNCHANGED <<named, heard, missed, ended>>

End ==
  /\ \A s \in named : ~Waiting(s)
  /\ ended' = TRUE /\ UNCHANGED <<named, heard, missed, cancelled>>

Next == Cancel \/ End \/ \E s \in named : Hear(s) \/ Miss(s)
Spec == Init /\ [][Next]_gatherVars
=============================================================================
