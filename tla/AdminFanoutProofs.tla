------------------------- MODULE AdminFanoutProofs -------------------------
(***************************************************************************)
(* Theorems about AnonymousClient.Alive for any number of servers: the       *)
(* channel is closed when nobody can send any more, and each server is heard *)
(* of once, or missed because of the context: AdminFanout implements         *)
(* AdminGather.                                                             *)
(***************************************************************************)
EXTENDS AdminFanout, TLAPS

\* A goroutine that is not done has not been heard.
HeardWhenDone == \A s \in asked : at[s] # "done" => heard[s] = <<>>

FanoutInv == FanoutTypeOK /\ NoSendAfterClose /\ HeardWhenDone

Missed == {s \in asked : at[s] = "done" /\ heard[s] = <<>>}

LEMMA FanoutInit == Init => FanoutInv
<1> SUFFICES ASSUME Init PROVE FanoutInv
  OBVIOUS
<1>1. PICK named \in SUBSET Servers :
        /\ asked = IF named = {} THEN {Own} ELSE named
        /\ bad \in SUBSET named
  BY DEF Init
<1>2. bad \subseteq asked \ {Own}
  BY <1>1, FanoutAssumption
<1>3. asked \subseteq Servers \union {Own}
  BY <1>1
<1>4. \A s \in asked : at[s] = "parse" /\ heard[s] = <<>>
  BY DEF Init
<1>5. heard \in [asked -> Seq(Results)] /\ at \in [asked -> Places] /\ result \in [asked -> Results]
  <2>1. <<>> \in Seq(Results)
    OBVIOUS
  <2> QED BY <2>1 DEF Init, Places, Results
<1> QED BY <1>2, <1>3, <1>4, <1>5
        DEF Init, FanoutInv, FanoutTypeOK, NoSendAfterClose, HeardWhenDone

\* A step of one goroutine.
LEMMA CheckKeepsInv ==
  ASSUME FanoutInv, NEW s \in asked, Check(s)
  PROVE  FanoutInv'
<1> USE DEF FanoutInv, FanoutTypeOK, NoSendAfterClose, HeardWhenDone, Places, Results
<1>1. CASE Parse(s)
  BY <1>1 DEF Parse, Move
<1>2. CASE Ask(s)
  BY <1>2 DEF Ask, Move, Offering
<1>3. CASE Deliver(s)
  <2>1. Append(heard[s], result[s]) \in Seq(Results)
    OBVIOUS
  <2>2. heard' \in [asked -> Seq(Results)]
    BY <1>3, <2>1 DEF Deliver
  <2> QED BY <1>3, <2>2 DEF Deliver, Move, AfterSend
<1>4. CASE GiveUp(s)
  BY <1>4 DEF GiveUp, Move
<1> QED BY <1>1, <1>2, <1>3, <1>4 DEF Check

LEMMA FanoutStep == FanoutInv /\ [Next]_vars => FanoutInv'
<1> SUFFICES ASSUME FanoutInv, [Next]_vars PROVE FanoutInv'
  OBVIOUS
<1> USE DEF FanoutInv, FanoutTypeOK, NoSendAfterClose, HeardWhenDone
<1>1. CASE Close
  BY <1>1 DEF Close, AllDone
<1>2. CASE SeesClose
  BY <1>2 DEF SeesClose
<1>3. CASE Leave
  BY <1>3 DEF Leave
<1>4. CASE Cancel
  BY <1>4 DEF Cancel
<1>5. CASE \E s \in asked : Check(s)
  BY <1>5, CheckKeepsInv
<1>6. CASE UNCHANGED vars
  BY <1>6 DEF vars
<1> QED BY <1>1, <1>2, <1>3, <1>4, <1>5, <1>6 DEF Next, Work

LEMMA FanoutInvariant == Spec => []FanoutInv
<1> QED BY FanoutInit, FanoutStep, PTL DEF Spec

\* The variables of Alive keep their types, and only the report of a bad endpoint
\* is sent without a look at the context (cluster-health.go:175).
THEOREM FanoutTypeCorrect == Spec => []FanoutTypeOK
<1>1. FanoutInv => FanoutTypeOK
  BY DEF FanoutInv
<1> QED BY FanoutInvariant, <1>1, PTL

\* resultsCh is closed only when no goroutine will send any more: Alive does not
\* panic, for any number of servers and in any order of their answers.
THEOREM NoPanicOnClose == Spec => []NoSendAfterClose
<1>1. FanoutInv => NoSendAfterClose
  BY DEF FanoutInv
<1> QED BY FanoutInvariant, <1>1, PTL

LEMMA GatherInit == Init => Gather!Init
<1> SUFFICES ASSUME Init PROVE Gather!Init
  OBVIOUS
<1>1. asked \in SUBSET (Servers \union {Own})
  BY DEF Init
<1>2. Missed = {}
  BY DEF Init, Missed
<1> QED BY <1>1, <1>2 DEF Init, Gather!Init, Missed

\* A step of a goroutine is a step of AdminGather or changes nothing there.
LEMMA CheckRefines ==
  ASSUME FanoutInv, NEW s \in asked, Check(s)
  PROVE  [Gather!Next]_(Gather!gatherVars)
<1> USE DEF FanoutInv, FanoutTypeOK, HeardWhenDone
<1>1. CASE Parse(s) \/ Ask(s)
  <2>1. asked' = asked /\ heard' = heard /\ cancelled' = cancelled /\ closed' = closed
    BY <1>1 DEF Parse, Ask
  <2>2. \A t \in asked : at'[t] = "done" <=> at[t] = "done"
    BY <1>1 DEF Parse, Ask, Move, Offering
  <2>3. Missed' = Missed
    BY <2>1, <2>2 DEF Missed
  <2> QED BY <2>1, <2>3 DEF Missed, Gather!gatherVars
<1>2. CASE Deliver(s)
  <2>1. heard[s] = <<>> /\ result[s] \in Results /\ at[s] # "done"
    BY <1>2 DEF Deliver
  <2>2. Append(heard[s], result[s]) = <<result[s]>>
    BY <2>1
  <2>3. heard' = [heard EXCEPT ![s] = <<result[s]>>]
    BY <1>2, <2>2 DEF Deliver
  <2>4. heard'[s] # <<>> /\ \A t \in asked \ {s} : heard'[t] = heard[t] /\ at'[t] = at[t]
    BY <1>2, <2>3 DEF Deliver, Move
  <2>5. Missed' = Missed
    BY <1>2, <2>1, <2>4 DEF Missed, Deliver
  <2>6. Gather!Waiting(s)
    BY <2>1 DEF Gather!Waiting
  <2>7. Gather!Hear(s)
    BY <1>2, <2>1, <2>3, <2>5, <2>6 DEF Gather!Hear, Missed, Deliver
  <2> QED BY <2>7 DEF Gather!Next
<1>3. CASE GiveUp(s)
  <2>1. heard[s] = <<>> /\ at[s] # "done" /\ cancelled
    BY <1>3 DEF GiveUp, OfferGivesUp
  <2>2. at'[s] = "done" /\ \A t \in asked \ {s} : at'[t] = at[t]
    BY <1>3 DEF GiveUp, Move
  <2>3. Missed' = Missed \union {s}
    BY <1>3, <2>1, <2>2 DEF Missed, GiveUp
  <2>4. Gather!Waiting(s)
    BY <2>1 DEF Gather!Waiting
  <2>5. Gather!Miss(s)
    BY <1>3, <2>1, <2>3, <2>4 DEF Gather!Miss, Missed, GiveUp
  <2> QED BY <2>5 DEF Gather!Next
<1> QED BY <1>1, <1>2, <1>3 DEF Check

LEMMA GatherStep ==
  ASSUME FanoutInv, [Next]_vars
  PROVE  [Gather!Next]_(Gather!gatherVars)
<1>1. CASE Close
  <2>1. \A s \in asked : ~Gather!Waiting(s)
    BY <1>1 DEF Close, AllDone, Gather!Waiting
  <2>2. Gather!End
    BY <1>1, <2>1 DEF Close, Gather!End
  <2> QED BY <2>2 DEF Gather!Next
<1>2. CASE Cancel
  BY <1>2 DEF Cancel, Gather!Cancel, Gather!Next
<1>3. CASE SeesClose \/ Leave \/ UNCHANGED vars
  BY <1>3 DEF SeesClose, Leave, vars, Gather!gatherVars
<1>4. CASE \E s \in asked : Check(s)
  BY <1>4, CheckRefines
<1> QED BY <1>1, <1>2, <1>3, <1>4 DEF Next, Work

\* Alive implements what it promises: each server that was named is heard of once
\* before the results end, or was left out because the context was done.
THEOREM AliveGathers == Spec => GatherSpec
<1> QED BY FanoutInvariant, GatherInit, GatherStep, PTL DEF Spec, GatherSpec, Gather!Spec
=============================================================================
