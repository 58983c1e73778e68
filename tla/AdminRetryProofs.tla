-------------------------- MODULE AdminRetryProofs --------------------------
(***************************************************************************)
(* Theorems about executeMethod and its callers, for any number of retries,  *)
(* any delays and any servers.                                              *)
(***************************************************************************)
EXTENDS AdminCalls, SequenceTheorems, TLAPS

\* A try that the server has not handled yet.
Asking == {"request", "send", "sent"}

AnswerRecord == [try : 1..MaxRetry, status : Statuses, body : {"open", "closed", "caller", "dropped"}]
ServedRecord == [try : 1..MaxRetry, ver : {"v3", "v4"}, status : Statuses]

\* Every try is counted, and has one request and one answer at most.
TriesCounted ==
  /\ pc = "start" => tries = 0
  /\ pc \in Asking \union {"served", "answered", "body", "wait"} => tries > 0
  /\ pc \in Asking => Len(served) < tries
  /\ pc = "served" => Len(answers) < Len(served)
  /\ pc \in {"served", "answered", "body"} => Len(served) > 0 /\ LastServed.try = tries
  /\ \A i \in DOMAIN served :
       served[i].try < tries \/ (served[i].try = tries /\ i = Len(served) /\ pc \notin Asking)
  /\ \A i \in DOMAIN answers :
       answers[i].try < tries \/ (answers[i].try = tries /\ pc \notin Asking \union {"served"})

\* The answer that is looked at is the last, and it is the server's last word.
CurrentAnswer ==
  /\ pc \in {"answered", "body"} =>
       /\ res = Len(answers) /\ res > 0 /\ err = "nil"
       /\ answers[res].try = tries /\ answers[res].status = LastServed.status
       /\ answers[res].body = "open"
  /\ pc = "body" => answers[res].status \in {"retryable", "final"}

\* What is returned when the tries are over.
ResultsStand ==
  /\ err \in {"nil", "network", "trace"}
  /\ pc \in {"wait", "after"} /\ tries > 0 =>
       ((err = "nil") <=> (res # 0)) /\ (res # 0 => answers[res].try = tries)
  /\ pc = "wait" /\ res # 0 => answers[res].status \in {"upgrade", "retryable"}
  /\ pc = "after" =>
       \/ cancelled \/ tries = MaxRetry
       \/ tries > 0 /\ res # 0 /\ answers[res].status = "final"
  /\ pc = "after" /\ res # 0 /\ tries > 0 => answers[res].status # "ok"

\* What the client knows was carried out or refused is the last it asked for, and
\* a known wish for the older API has been followed.
KnownIsLast ==
  \A i \in DOMAIN served : Reported(served[i].try) =>
    /\ served[i].status \in {"ok", "final"} =>
         i = Len(served) /\ pc \in {"answered", "body", "after", "done"}
    /\ served[i].status = "upgrade" => rel = "v3" \/ (i = Len(served) /\ pc \in {"answered", "done"})

\* An open body is that of the answer under way, or was given up.
OpenBodies ==
  pc # "done" => \A i \in DOMAIN answers :
    /\ answers[i].body # "caller"
    /\ answers[i].body = "open" =>
         answers[i].status = "upgrade" \/ (pc \in {"answered", "body"} /\ i = res)

\* What is looked at or returned was traced.
NothingDropped ==
  /\ res # 0 => answers[res].body # "dropped"
  /\ pc # "done" => result.res = 0
  /\ result.res # 0 => answers[result.res].body # "dropped"

\* A response says what the server did with the request of the same try.
AnswersAreServed ==
  \A i \in DOMAIN answers : \E j \in DOMAIN served :
    served[j].try = answers[i].try /\ served[j].status = answers[i].status

AtTheEnd == AnswerIsOfLastTry /\ GivesUpLate /\ CancelIsReported /\ OnlyUpgradesStayOpen
Repeats  == RepeatedOnlyIfUnknown /\ OldAfterUpgrade

RetryInv ==
  /\ RetryTypeOK /\ TriesCounted /\ CurrentAnswer /\ ResultsStand
  /\ KnownIsLast /\ OpenBodies /\ NothingDropped /\ AnswersAreServed
  /\ AtTheEnd /\ Repeats

\* What the type says of the elements of the two sequences.
LEMMA Elements ==
  ASSUME RetryTypeOK
  PROVE  /\ Len(answers) \in Nat /\ DOMAIN answers = 1..Len(answers)
         /\ Len(served) \in Nat /\ DOMAIN served = 1..Len(served)
         /\ \A i \in DOMAIN answers : answers[i] \in AnswerRecord /\ answers[i].try \in Nat
         /\ \A i \in DOMAIN served : served[i] \in ServedRecord /\ served[i].try \in Nat
         /\ tries \in Nat /\ res \in Nat /\ res <= Len(answers)
<1>1. answers \in Seq(AnswerRecord) /\ served \in Seq(ServedRecord)
  BY DEF RetryTypeOK, AnswerRecord, ServedRecord
<1>2. /\ \A i \in DOMAIN answers : answers[i] \in AnswerRecord
      /\ \A i \in DOMAIN served : served[i] \in ServedRecord
  BY <1>1, ElementOfSeq
<1>3. /\ \A a \in AnswerRecord : a.try \in Nat
      /\ \A a \in ServedRecord : a.try \in Nat
  BY RetryAssumption DEF AnswerRecord, ServedRecord
<1> QED
  BY <1>1, <1>2, <1>3, LenProperties, RetryAssumption DEF RetryTypeOK

\* A timer that has not begun: that of the first request, or of a second.
Fresh ==
  /\ pc = "start" /\ cancelled \in BOOLEAN /\ tries = 0 /\ delay = 0 /\ rel = "v4"
  /\ res = 0 /\ err = "nil" /\ result = [res |-> 0, err |-> "nil"]
  /\ answers = <<>> /\ served = <<>> /\ server \in Servers

LEMMA FreshInv == Fresh => RetryInv
<1> SUFFICES ASSUME Fresh PROVE RetryInv
  OBVIOUS
<1>1. RetryTypeOK
  <2>1. /\ answers \in Seq(AnswerRecord) /\ Len(answers) = 0
        /\ served \in Seq(ServedRecord) /\ Len(served) = 0
    BY EmptySeq DEF Fresh
  <2>2. res \in 0..Len(answers) /\ result \in [res : 0..Len(answers), err : Errors]
    BY <2>1 DEF Fresh, Errors
  <2>3. tries \in 0..MaxRetry
    BY RetryAssumption DEF Fresh
  <2>4. {cancelled} \subseteq BOOLEAN
    BY DEF Fresh
  <2> QED
    BY <2>1, <2>2, <2>3, <2>4 DEF Fresh, RetryTypeOK, Places, Errors, AnswerRecord, ServedRecord
<1>2. TriesCounted /\ CurrentAnswer /\ ResultsStand
  BY DEF Fresh, TriesCounted, CurrentAnswer, ResultsStand, Asking
<1>3. KnownIsLast /\ OpenBodies /\ NothingDropped /\ AnswersAreServed /\ AtTheEnd /\ Repeats
  BY DEF Fresh, NothingDropped, AnswersAreServed, KnownIsLast, OpenBodies, AtTheEnd, Repeats, AnswerIsOfLastTry, GivesUpLate,
         CancelIsReported, OnlyUpgradesStayOpen, RepeatedOnlyIfUnknown, OldAfterUpgrade, Done
<1> QED BY <1>1, <1>2, <1>3 DEF RetryInv

\* The timer, before the first try, between tries and after the last.
LEMMA TimerKeepsInv ==
  ASSUME RetryInv, Start \/ Wait, UNCHANGED <<cancelled, served, server>>
  PROVE  RetryInv'
<1> USE RetryAssumption DEF Start, Wait, Yield, Goto
<1>0. pc \in {"start", "wait"} /\ pc' \in {"request", "after"}
      /\ UNCHANGED <<delay, rel, res, err, result, answers, served, server, cancelled>>
  OBVIOUS
<1>1. RetryTypeOK'
  BY <1>0 DEF RetryInv, RetryTypeOK, Places, Errors, TriesCounted, Statuses
<1>2. TriesCounted'
  <2>1. tries' > 0 \/ pc' = "after"
    BY <1>0 DEF RetryInv, RetryTypeOK
  <2>2. CASE pc' = "request"
    <3>1. tries' = tries + 1 /\ tries \in Nat
      BY <2>2 DEF RetryInv, RetryTypeOK
    <3>2. /\ \A i \in DOMAIN served : served[i].try \in Nat /\ served[i].try <= tries
          /\ \A i \in DOMAIN answers : answers[i].try \in Nat /\ answers[i].try <= tries
      BY Elements DEF RetryInv, TriesCounted
    <3>3. Len(served) < tries'
      BY <3>1 DEF RetryInv, RetryTypeOK
    <3> QED
      BY <1>0, <2>1, <2>2, <3>1, <3>2, <3>3 DEF TriesCounted, Asking
  <2>3. CASE pc' = "after"
    BY <1>0, <2>3 DEF RetryInv, RetryTypeOK, TriesCounted, Asking
  <2> QED
    BY <1>0, <2>2, <2>3
<1>3. CurrentAnswer' /\ ResultsStand'
  BY <1>0 DEF RetryInv, RetryTypeOK, TriesCounted, CurrentAnswer, ResultsStand
<1>4. KnownIsLast' /\ OpenBodies'
  BY <1>0 DEF RetryInv, KnownIsLast, OpenBodies, Reported
<1>5. AtTheEnd' /\ Repeats'
  BY <1>0 DEF RetryInv, AtTheEnd, Repeats, AnswerIsOfLastTry, GivesUpLate, CancelIsReported,
     OnlyUpgradesStayOpen, RepeatedOnlyIfUnknown, OldAfterUpgrade, Done, Unknown, Reported
<1>20. NothingDropped'
  BY <1>0 DEF RetryInv, NothingDropped
<1>21. AnswersAreServed'
  BY <1>0 DEF RetryInv, AnswersAreServed
<1> QED BY <1>1, <1>2, <1>3, <1>4, <1>5, <1>20, <1>21 DEF RetryInv

\* The call is given up without an answer.
LEMMA GivingUpKeepsInv ==
  ASSUME RetryInv, pc \in Asking \union {"served", "after"}, UNCHANGED <<cancelled, served, server>>,
         NEW e \in {"request", "refused", "ctx"}, Return(0, e)
  PROVE  RetryInv'
<1>0. /\ pc' = "done" /\ result' = [res |-> 0, err |-> e]
      /\ UNCHANGED <<tries, delay, rel, res, err, answers, served, server, cancelled>>
  BY DEF Return, cvars
<1>1. RetryTypeOK'
  BY <1>0, Elements DEF RetryInv, RetryTypeOK, Places, Errors, Statuses
<1>2. TriesCounted' /\ CurrentAnswer' /\ ResultsStand'
  BY <1>0 DEF RetryInv, TriesCounted, CurrentAnswer, ResultsStand, Asking
<1>3. KnownIsLast' /\ OpenBodies' /\ Repeats'
  BY <1>0 DEF RetryInv, KnownIsLast, OpenBodies, Reported, Repeats, RepeatedOnlyIfUnknown,
     OldAfterUpgrade, Unknown, Asking
<1>4. AtTheEnd'
  BY <1>0, Elements DEF RetryInv, AtTheEnd, AnswerIsOfLastTry, GivesUpLate, CancelIsReported,
     OnlyUpgradesStayOpen, OpenBodies, Done, Asking
<1>20. NothingDropped'
  BY <1>0 DEF RetryInv, NothingDropped
<1>21. AnswersAreServed'
  BY <1>0 DEF RetryInv, AnswersAreServed
<1> QED BY <1>1, <1>2, <1>3, <1>4, <1>20, <1>21 DEF RetryInv

\* The request fails and there may be another try.
LEMMA TryingAgainKeepsInv ==
  ASSUME RetryInv, pc \in {"send", "sent", "served"}, UNCHANGED <<cancelled, served, server>>,
         Retry, res' = 0, err' = "network", UNCHANGED <<tries, rel, answers>>
  PROVE  RetryInv'
<1>0. pc' = "wait" /\ UNCHANGED <<tries, rel, result, answers, served, server, cancelled>>
  BY DEF Retry, Goto
<1>1. RetryTypeOK'
  BY <1>0, Elements DEF RetryInv, RetryTypeOK, Places, Errors, Statuses
<1>2. TriesCounted' /\ CurrentAnswer' /\ ResultsStand'
  BY <1>0 DEF RetryInv, TriesCounted, CurrentAnswer, ResultsStand, Asking
<1>3. KnownIsLast' /\ OpenBodies' /\ Repeats' /\ AtTheEnd'
  BY <1>0 DEF RetryInv, KnownIsLast, OpenBodies, Reported, Repeats, RepeatedOnlyIfUnknown,
     OldAfterUpgrade, Unknown, Asking, AtTheEnd, AnswerIsOfLastTry, GivesUpLate,
     CancelIsReported, OnlyUpgradesStayOpen, Done
<1>20. NothingDropped'
  BY <1>0 DEF RetryInv, NothingDropped
<1>21. AnswersAreServed'
  BY <1>0 DEF RetryInv, AnswersAreServed
<1> QED BY <1>1, <1>2, <1>3, <1>20, <1>21 DEF RetryInv

\* do returns an error.
LEMMA FailingKeepsInv ==
  ASSUME RetryInv, pc \in {"send", "sent", "served"}, UNCHANGED <<cancelled, served, server>>,
         DoFails("network") \/ DoFails("refused")
  PROVE  RetryInv'
<1>1. CASE DoFails("refused")
  BY <1>1, GivingUpKeepsInv DEF DoFails, Asking
<1>2. CASE DoFails("network") /\ cancelled
  BY <1>2, GivingUpKeepsInv DEF DoFails, Asking
<1>3. CASE DoFails("network") /\ ~cancelled
  BY <1>3, TryingAgainKeepsInv DEF DoFails
<1> QED BY <1>1, <1>2, <1>3

\* The request is made and goes out.
LEMMA AskingKeepsInv ==
  ASSUME RetryInv, NewRequest \/ Send \/ Break, UNCHANGED <<cancelled, served, server>>
  PROVE  RetryInv'
<1>1. CASE pc = "request" /\ Return(0, "request")
  BY <1>1, GivingUpKeepsInv DEF Asking
<1>2. CASE pc \in {"send", "sent", "served"} /\ (DoFails("network") \/ DoFails("refused"))
  BY <1>2, FailingKeepsInv
<1>3. CASE /\ \/ pc = "request" /\ pc' = "send"
              \/ pc = "send" /\ pc' = "sent"
           /\ UNCHANGED <<result, tries, delay, rel, res, err, answers>>
  <2>1. RetryTypeOK'
    BY <1>3, Elements DEF RetryInv, RetryTypeOK, Places, Errors, Statuses
  <2>2. TriesCounted' /\ CurrentAnswer' /\ ResultsStand'
    BY <1>3 DEF RetryInv, TriesCounted, CurrentAnswer, ResultsStand, Asking
  <2>3. KnownIsLast' /\ OpenBodies' /\ Repeats' /\ AtTheEnd'
    BY <1>3 DEF RetryInv, KnownIsLast, OpenBodies, Reported, Repeats, RepeatedOnlyIfUnknown,
       OldAfterUpgrade, Unknown, Asking, AtTheEnd, AnswerIsOfLastTry, GivesUpLate,
       CancelIsReported, OnlyUpgradesStayOpen, Done
  <2>4. NothingDropped'
    BY <1>3 DEF RetryInv, NothingDropped
  <2>5. AnswersAreServed'
    BY <1>3 DEF RetryInv, AnswersAreServed
  <2> QED BY <2>1, <2>2, <2>3, <2>4, <2>5 DEF RetryInv
<1> QED BY <1>1, <1>2, <1>3 DEF NewRequest, Send, Break, Goto, cvars

\* What Append does to the responses, and that a dropped one reports nothing.
LEMMA OneMoreAnswer ==
  ASSUME RetryInv, pc = "served", NEW b \in {"open", "dropped"}, answers' = Arrived(b),
         UNCHANGED <<tries, served>>
  PROVE  /\ answers' \in Seq(AnswerRecord) /\ Len(answers') = Len(answers) + 1
         /\ DOMAIN answers' = 1..Len(answers')
         /\ \A i \in DOMAIN answers : i \in DOMAIN answers' /\ answers'[i] = answers[i]
         /\ answers'[Len(answers')] = [try |-> tries, status |-> LastServed.status, body |-> b]
         /\ \A i \in DOMAIN answers' : i \in DOMAIN answers \/ i = Len(answers')
         /\ \A t : Reported(t)' <=> (Reported(t) \/ (t = tries /\ b = "open"))
<1> DEFINE a == [try |-> tries, status |-> LastServed.status, body |-> b]
<1>1. a \in AnswerRecord /\ answers \in Seq(AnswerRecord)
  <2>1. LastServed \in ServedRecord /\ tries \in 1..MaxRetry
    BY Elements, RetryAssumption DEF RetryInv, TriesCounted, LastServed, RetryTypeOK
  <2> QED BY <2>1 DEF AnswerRecord, ServedRecord, RetryInv, RetryTypeOK
<1>2. /\ answers' = Append(answers, a) /\ answers' \in Seq(AnswerRecord)
      /\ Len(answers') = Len(answers) + 1
      /\ \A i \in 1..Len(answers) : answers'[i] = answers[i]
      /\ answers'[Len(answers) + 1] = a
  BY <1>1, AppendProperties DEF Arrived
<1> HIDE DEF a
<1>3. /\ DOMAIN answers' = 1..(Len(answers) + 1) /\ DOMAIN answers = 1..Len(answers)
      /\ Len(answers) \in Nat
  BY <1>1, <1>2, LenProperties
<1>4. ASSUME NEW t PROVE Reported(t)' <=> (Reported(t) \/ (t = tries /\ b = "open"))
  <2>1. a.try = tries /\ a.body = b
    BY DEF a
  <2>2. Reported(t)' <=> \E i \in 1..(Len(answers) + 1) : answers'[i].try = t /\ answers'[i].body # "dropped"
    BY <1>3 DEF Reported
  <2>3. Reported(t) <=> \E i \in 1..Len(answers) : answers'[i].try = t /\ answers'[i].body # "dropped"
    BY <1>2, <1>3 DEF Reported
  <2> QED BY <1>2, <1>3, <2>1, <2>2, <2>3
<1> QED BY <1>2, <1>3, <1>4 DEF a

\* The server handles a request: the one before it, if known, asked for a retry.
LEMMA ServeKeepsInv ==
  ASSUME RetryInv, Serve, UNCHANGED <<cancelled, server>>
  PROVE  RetryInv'
<1>0. /\ pc = "sent" /\ pc' = "served"
      /\ UNCHANGED <<tries, delay, rel, res, err, result, answers, server, cancelled>>
  BY DEF Serve, Goto, cvars
<1>1. PICK s \in Statuses : served' = Append(served, [try |-> tries, ver |-> rel, status |-> s])
  BY DEF Serve, Statuses
<1> DEFINE r == [try |-> tries, ver |-> rel, status |-> s]
<1>2. /\ r \in ServedRecord /\ r.try = tries /\ r.ver = rel /\ r.status = s
      /\ served \in Seq(ServedRecord) /\ tries > 0
  BY <1>0, Elements, RetryAssumption DEF RetryInv, RetryTypeOK, ServedRecord, TriesCounted, Asking
<1>3. /\ served' = Append(served, r) /\ served' \in Seq(ServedRecord)
      /\ Len(served') = Len(served) + 1
      /\ \A i \in 1..Len(served) : served'[i] = served[i]
      /\ served'[Len(served')] = r
  BY <1>1, <1>2, AppendProperties
<1> HIDE DEF r
<1>4. /\ DOMAIN served' = 1..Len(served') /\ DOMAIN served = 1..Len(served)
      /\ Len(served) \in Nat /\ Len(served) < tries /\ tries \in Nat
      /\ \A i \in DOMAIN served' : i \in DOMAIN served \/ i = Len(served')
      /\ \A i \in DOMAIN served : served[i].try < tries /\ served'[i] = served[i] /\ i # Len(served')
      /\ \A i \in DOMAIN answers : answers[i].try < tries /\ answers[i].try \in Nat
  BY <1>0, <1>2, <1>3, LenProperties, Elements DEF RetryInv, TriesCounted, Asking
<1>7. RetryTypeOK'
  <2>1. Len(answers') <= Len(served') /\ Len(served') <= tries'
    BY <1>0, <1>3, <1>4, Elements DEF RetryInv, RetryTypeOK
  <2> QED BY <1>0, <1>3, <2>1, Elements DEF RetryInv, RetryTypeOK, Places, Errors, Statuses, ServedRecord
<1>8. TriesCounted'
  BY <1>0, <1>2, <1>3, <1>4, Elements DEF RetryInv, RetryTypeOK, TriesCounted, Asking, LastServed
<1>9. CurrentAnswer' /\ ResultsStand' /\ OpenBodies' /\ AtTheEnd'
  BY <1>0 DEF RetryInv, CurrentAnswer, ResultsStand, OpenBodies, AtTheEnd, AnswerIsOfLastTry,
     GivesUpLate, CancelIsReported, OnlyUpgradesStayOpen, Done
<1>10. KnownIsLast' /\ Repeats'
  <2>1. \A i \in DOMAIN served' : Reported(served[i].try)' => i \in DOMAIN served /\ Reported(served[i].try)
    BY <1>0, <1>2, <1>3, <1>4 DEF Reported
  <2>2. \A i \in DOMAIN served : Reported(served[i].try) =>
          served[i].status \notin {"ok", "final"} /\ (served[i].status = "upgrade" => rel = "v3")
    BY <1>0 DEF RetryInv, KnownIsLast
  <2>3. KnownIsLast'
    BY <1>0, <1>4, <2>1, <2>2 DEF KnownIsLast
  <2>4. RepeatedOnlyIfUnknown'
    BY <1>4, <2>1, <2>2 DEF RepeatedOnlyIfUnknown, Unknown
  <2>5. OldAfterUpgrade'
    BY <1>2, <1>3, <1>4, <2>1, <2>2 DEF RetryInv, Repeats, OldAfterUpgrade
  <2> QED BY <2>3, <2>4, <2>5 DEF Repeats
<1>20. NothingDropped'
  BY <1>0 DEF RetryInv, NothingDropped
<1>21. AnswersAreServed'
  <2>1. \A j \in DOMAIN served : j \in DOMAIN served' /\ served'[j] = served[j]
    BY <1>3, <1>4
  <2> QED BY <1>0, <2>1 DEF RetryInv, AnswersAreServed
<1> QED BY <1>7, <1>8, <1>9, <1>10, <1>20, <1>21 DEF RetryInv

\* An answer arrives, is traced and looked at.
LEMMA AnswerKeepsInv ==
  ASSUME RetryInv, Answer, UNCHANGED <<cancelled, served, server>>
  PROVE  RetryInv'
<1>0. /\ pc = "served" /\ pc' = "answered" /\ answers' = Arrived("open")
      /\ res' = Len(answers') /\ err' = "nil"
      /\ UNCHANGED <<tries, delay, rel, result, served, server, cancelled>>
  BY DEF Answer, Goto, cvars
<1>1. /\ answers' \in Seq(AnswerRecord) /\ Len(answers') = Len(answers) + 1
      /\ DOMAIN answers' = 1..Len(answers')
      /\ \A i \in DOMAIN answers : i \in DOMAIN answers' /\ answers'[i] = answers[i]
      /\ answers'[Len(answers')] = [try |-> tries, status |-> LastServed.status, body |-> "open"]
      /\ \A i \in DOMAIN answers' : i \in DOMAIN answers \/ i = Len(answers')
      /\ \A t : Reported(t)' <=> (Reported(t) \/ t = tries)
  BY <1>0, OneMoreAnswer
<1>2. LastServed' = LastServed /\ Len(answers) < Len(served) /\ LastServed.try = tries /\ Len(answers) \in Nat
  BY <1>0, Elements DEF LastServed, RetryInv, TriesCounted
<1>3. \A i \in DOMAIN served : Reported(served[i].try)' => Reported(served[i].try) \/ i = Len(served)
  BY <1>1, Elements DEF RetryInv, TriesCounted
<1>4. \A i \in DOMAIN served : Reported(served[i].try) =>
        served[i].status \notin {"ok", "final"} /\ (served[i].status = "upgrade" => rel = "v3")
  BY <1>0 DEF RetryInv, KnownIsLast
<1>5. RetryTypeOK'
  <2>1. /\ Len(answers') <= Len(served') /\ res' \in 0..Len(answers')
        /\ result' \in [res : 0..Len(answers'), err : Errors]
    BY <1>0, <1>1, <1>2, Elements DEF RetryInv, RetryTypeOK
  <2> QED BY <1>0, <1>1, <2>1, Elements DEF RetryInv, RetryTypeOK, Places, Errors, Statuses, AnswerRecord
<1>6. TriesCounted'
  BY <1>0, <1>1, <1>2, Elements DEF RetryInv, RetryTypeOK, TriesCounted, Asking
<1>7. CurrentAnswer' /\ ResultsStand'
  BY <1>0, <1>1, <1>2 DEF CurrentAnswer, ResultsStand
<1>8. KnownIsLast'
  BY <1>0, <1>3, <1>4 DEF KnownIsLast
<1>9. OpenBodies' /\ AtTheEnd'
  BY <1>0, <1>1 DEF RetryInv, OpenBodies, AtTheEnd, AnswerIsOfLastTry, GivesUpLate,
     CancelIsReported, OnlyUpgradesStayOpen, Done
<1>10. Repeats'
  BY <1>0, <1>3, <1>4, Elements DEF RetryInv, Repeats, RepeatedOnlyIfUnknown, OldAfterUpgrade, Unknown
<1>20. NothingDropped'
  BY <1>0, <1>1 DEF RetryInv, NothingDropped
<1>21. AnswersAreServed'
  <2>1. \E j \in DOMAIN served : served[j] = LastServed /\ LastServed.try = tries
    BY <1>0, Elements DEF RetryInv, TriesCounted, LastServed
  <2>2. \A i \in DOMAIN answers' :
          \/ i \in DOMAIN answers /\ answers'[i] = answers[i]
          \/ answers'[i].try = tries /\ answers'[i].status = LastServed.status
    <3>1. /\ answers'[Len(answers')].try = tries
          /\ answers'[Len(answers')].status = LastServed.status
      BY <1>1
    <3>2. \A i \in DOMAIN answers' : (i \in DOMAIN answers /\ answers'[i] = answers[i]) \/ i = Len(answers')
      BY <1>1
    <3> QED BY <3>1, <3>2
  <2> QED BY <1>0, <1>1, <2>1, <2>2 DEF RetryInv, AnswersAreServed
<1> QED BY <1>5, <1>6, <1>7, <1>8, <1>9, <1>10, <1>20, <1>21 DEF RetryInv

\* A response that could not be traced is dropped.
LEMMA TracingKeepsInv ==
  ASSUME RetryInv, TraceFails, UNCHANGED <<cancelled, served, server>>
  PROVE  RetryInv'
<1>0. /\ pc = "served" /\ answers' = Arrived("dropped") /\ UNCHANGED <<tries, rel, served, server, cancelled>>
      /\ \/ pc' = "done" /\ result' = [res |-> 0, err |-> "ctx"] /\ UNCHANGED <<res, err>>
         \/ pc' = "wait" /\ res' = 0 /\ err' = "trace" /\ UNCHANGED result
  BY DEF TraceFails, Retry, Goto, cvars
<1>1. /\ answers' \in Seq(AnswerRecord) /\ Len(answers') = Len(answers) + 1
      /\ DOMAIN answers' = 1..Len(answers')
      /\ \A i \in DOMAIN answers : i \in DOMAIN answers' /\ answers'[i] = answers[i]
      /\ answers'[Len(answers')] = [try |-> tries, status |-> LastServed.status, body |-> "dropped"]
      /\ \A i \in DOMAIN answers' : i \in DOMAIN answers \/ i = Len(answers')
      /\ \A t : Reported(t)' <=> Reported(t)
  BY <1>0, OneMoreAnswer
<1>2. \A i \in DOMAIN served : Reported(served[i].try)' <=> Reported(served[i].try)
  BY <1>0, <1>1
<1>3. RetryTypeOK'
  <2>1. /\ Len(answers') <= Len(served') /\ res' \in 0..Len(answers')
        /\ result' \in [res : 0..Len(answers'), err : Errors]
    BY <1>0, <1>1, Elements DEF RetryInv, RetryTypeOK, TriesCounted, Errors
  <2> QED BY <1>0, <1>1, <2>1, Elements DEF RetryInv, RetryTypeOK, Places, Errors, Statuses, AnswerRecord
<1>4. TriesCounted'
  <2>1. \A i \in DOMAIN answers' : answers'[i].try < tries \/ answers'[i].try = tries
    BY <1>0, <1>1 DEF RetryInv, TriesCounted
  <2>2. pc' \in {"wait", "done"} /\ tries > 0 /\ UNCHANGED <<tries, served>>
    BY <1>0 DEF RetryInv, TriesCounted
  <2>3. \A i \in DOMAIN served :
          served[i].try < tries \/ (served[i].try = tries /\ i = Len(served))
    BY DEF RetryInv, TriesCounted
  <2> QED BY <2>1, <2>2, <2>3 DEF TriesCounted, Asking
<1>5. CurrentAnswer' /\ ResultsStand'
  BY <1>0 DEF RetryInv, TriesCounted, CurrentAnswer, ResultsStand
<1>6. KnownIsLast' /\ Repeats'
  <2>1. KnownIsLast'
    BY <1>0, <1>2 DEF RetryInv, KnownIsLast
  <2>2. Unknown' = Unknown
    BY <1>0, <1>2 DEF Unknown
  <2>3. Repeats'
    BY <1>0, <1>2, <2>2 DEF RetryInv, Repeats, RepeatedOnlyIfUnknown, OldAfterUpgrade
  <2> QED BY <2>1, <2>3
<1>7. OpenBodies'
  BY <1>0, <1>1 DEF RetryInv, OpenBodies
<1>8. AtTheEnd'
  BY <1>0, <1>1, Elements DEF RetryInv, AtTheEnd, AnswerIsOfLastTry, GivesUpLate, CancelIsReported,
     OnlyUpgradesStayOpen, OpenBodies, Done
<1>20. NothingDropped'
  BY <1>0, <1>1, Elements DEF RetryInv, NothingDropped
<1>21. AnswersAreServed'
  <2>1. \E j \in DOMAIN served : served[j] = LastServed /\ LastServed.try = tries
    BY <1>0, Elements DEF RetryInv, TriesCounted, LastServed
  <2>2. \A i \in DOMAIN answers' :
          \/ i \in DOMAIN answers /\ answers'[i] = answers[i]
          \/ answers'[i].try = tries /\ answers'[i].status = LastServed.status
    <3>1. /\ answers'[Len(answers')].try = tries
          /\ answers'[Len(answers')].status = LastServed.status
      BY <1>1
    <3>2. \A i \in DOMAIN answers' : (i \in DOMAIN answers /\ answers'[i] = answers[i]) \/ i = Len(answers')
      BY <1>1
    <3> QED BY <3>1, <3>2
  <2> QED BY <1>0, <1>1, <2>1, <2>2 DEF RetryInv, AnswersAreServed
<1> QED BY <1>3, <1>4, <1>5, <1>6, <1>7, <1>8, <1>20, <1>21 DEF RetryInv

\* What closing a body, or leaving it to the caller, does to the responses.
LEMMA OneBody ==
  ASSUME RetryTypeOK, NEW r \in DOMAIN answers, UNCHANGED served,
         NEW b \in {"open", "closed", "caller", "dropped"},
         (b = "dropped") <=> (answers[r].body = "dropped"),
         answers' = [answers EXCEPT ![r].body = b]
  PROVE  /\ answers' \in Seq(AnswerRecord) /\ Len(answers') = Len(answers)
         /\ DOMAIN answers' = DOMAIN answers
         /\ \A i \in DOMAIN answers :
              /\ answers'[i].try = answers[i].try /\ answers'[i].status = answers[i].status
              /\ answers'[i].body = IF i = r THEN b ELSE answers[i].body
         /\ \A i \in DOMAIN served : Reported(served[i].try)' <=> Reported(served[i].try)
<1> DEFINE a == [answers[r] EXCEPT !.body = b]
<1>1. answers \in Seq(AnswerRecord) /\ r \in 1..Len(answers) /\ DOMAIN answers = 1..Len(answers)
  BY Elements DEF AnswerRecord, RetryTypeOK
<1>2. answers[r] \in AnswerRecord
  BY Elements
<1>3. /\ a \in AnswerRecord /\ a.try = answers[r].try /\ a.status = answers[r].status /\ a.body = b
  BY <1>2 DEF AnswerRecord
<1>4. answers' = [answers EXCEPT ![r] = a]
  OBVIOUS
<1> HIDE DEF a
<1>5. answers' \in Seq(AnswerRecord) /\ Len(answers') = Len(answers)
  BY <1>1, <1>3, <1>4, ExceptSeq
<1>6. /\ DOMAIN answers' = DOMAIN answers
      /\ \A i \in DOMAIN answers : answers'[i] = IF i = r THEN a ELSE answers[i]
  BY <1>1, <1>4
<1>7. \A i \in DOMAIN answers :
        /\ answers'[i].try = answers[i].try /\ answers'[i].status = answers[i].status
        /\ answers'[i].body = IF i = r THEN b ELSE answers[i].body
        /\ answers'[i].body = "dropped" <=> answers[i].body = "dropped"
  BY <1>3, <1>6
<1>8. \A i \in DOMAIN served : Reported(served[i].try)' <=> Reported(served[i].try)
  BY <1>6, <1>7 DEF Reported
<1> QED BY <1>5, <1>6, <1>7, <1>8

\* The status that asks for another API, or for the body to be read.
LEMMA StatusKeepsInv ==
  ASSUME RetryInv, pc = "answered", UNCHANGED <<tries, res, err, answers, result, cancelled, served, server>>,
         \/ answers[res].status = "upgrade" /\ rel' = Downgraded /\ pc' = "wait"
         \/ answers[res].status \in {"retryable", "final"} /\ pc' = "body" /\ rel' = rel
  PROVE  RetryInv'
<1>1. RetryTypeOK'
  BY Elements DEF RetryInv, RetryTypeOK, Places, Errors, Statuses, Downgraded
<1>2. TriesCounted'
  BY DEF RetryInv, TriesCounted, Asking, LastServed
<1>3. CurrentAnswer' /\ ResultsStand'
  BY DEF RetryInv, TriesCounted, CurrentAnswer, ResultsStand, LastServed
<1>4. KnownIsLast'
  <2>1. answers[res].status = served[Len(served)].status
    BY DEF RetryInv, CurrentAnswer, LastServed
  <2> QED BY <2>1 DEF RetryInv, KnownIsLast, Reported, Downgraded
<1>5. OpenBodies' /\ AtTheEnd'
  BY DEF RetryInv, OpenBodies, AtTheEnd, CurrentAnswer, AnswerIsOfLastTry, GivesUpLate, CancelIsReported,
     OnlyUpgradesStayOpen, Done
<1>6. Repeats'
  BY DEF RetryInv, Repeats, RepeatedOnlyIfUnknown, OldAfterUpgrade, Unknown, Reported
<1>20. NothingDropped'
  BY Elements DEF RetryInv, NothingDropped
<1>21. AnswersAreServed'
  BY DEF RetryInv, AnswersAreServed
<1> QED BY <1>1, <1>2, <1>3, <1>4, <1>5, <1>6, <1>20, <1>21 DEF RetryInv

\* A success is returned, and its body is the caller's.
LEMMA SuccessKeepsInv ==
  ASSUME RetryInv, pc = "answered", answers[res].status = "ok", Return(res, "nil"),
         UNCHANGED <<cancelled, served, server>>
  PROVE  RetryInv'
<1>1. /\ res \in DOMAIN answers /\ answers[res].body = "open" /\ res > 0 /\ answers[res].try = tries
  BY Elements DEF RetryInv, CurrentAnswer
<1>2. /\ pc' = "done" /\ result' = [res |-> res, err |-> "nil"]
      /\ answers' = [answers EXCEPT ![res].body = "caller"]
      /\ UNCHANGED <<tries, delay, rel, res, err, cancelled, served, server>>
  BY <1>1 DEF Return, HandedOver, cvars
<1>3. /\ answers' \in Seq(AnswerRecord) /\ Len(answers') = Len(answers)
      /\ DOMAIN answers' = DOMAIN answers
      /\ \A i \in DOMAIN answers :
           /\ answers'[i].try = answers[i].try /\ answers'[i].status = answers[i].status
           /\ answers'[i].body = IF i = res THEN "caller" ELSE answers[i].body
      /\ \A i \in DOMAIN served : Reported(served[i].try)' <=> Reported(served[i].try)
  BY <1>1, <1>2, OneBody DEF RetryInv
<1>4. RetryTypeOK'
  <2>1. /\ result' \in [res : 0..Len(answers'), err : Errors] /\ res' \in 0..Len(answers')
    BY <1>1, <1>2, <1>3 DEF RetryInv, RetryTypeOK, Errors
  <2> QED BY <1>2, <1>3, <2>1 DEF RetryInv, RetryTypeOK, Places, Errors, Statuses, AnswerRecord
<1>5. TriesCounted' /\ CurrentAnswer' /\ ResultsStand' /\ OpenBodies'
  BY <1>2, <1>3 DEF RetryInv, TriesCounted, CurrentAnswer, ResultsStand, Asking, OpenBodies
<1>6. KnownIsLast'
  BY <1>2, <1>3 DEF RetryInv, KnownIsLast
<1>7. AtTheEnd'
  <2>3. /\ result'.err = "nil" /\ result'.res = res
        /\ answers'[res].try = tries /\ answers'[res].status = "ok"
    BY <1>1, <1>2, <1>3
  <2>1. AnswerIsOfLastTry' /\ GivesUpLate' /\ CancelIsReported'
    BY <1>1, <1>2, <2>3 DEF AnswerIsOfLastTry, GivesUpLate, CancelIsReported, Done
  <2>2. OnlyUpgradesStayOpen'
    BY <1>1, <1>2, <1>3 DEF RetryInv, OpenBodies, OnlyUpgradesStayOpen
  <2> QED BY <2>1, <2>2 DEF AtTheEnd
<1>8. Repeats'
  <2>1. Unknown' = Unknown
    BY <1>2, <1>3 DEF Unknown
  <2> QED BY <1>2, <1>3, <2>1 DEF RetryInv, Repeats, RepeatedOnlyIfUnknown, OldAfterUpgrade
<1>20. NothingDropped'
  <2>1. result'.res = res /\ res' = res /\ pc' = "done" /\ answers'[res].body = "caller"
    BY <1>1, <1>2, <1>3
  <2> QED BY <2>1 DEF NothingDropped
<1>21. AnswersAreServed'
  BY <1>2, <1>3 DEF RetryInv, AnswersAreServed
<1> QED BY <1>4, <1>5, <1>6, <1>7, <1>8, <1>20, <1>21 DEF RetryInv

\* The body is read and closed: the request is retried, or its refusal stands.
LEMMA ReadingKeepsInv ==
  ASSUME RetryInv, ReadBody, UNCHANGED <<cancelled, served, server>>
  PROVE  RetryInv'
<1>1. /\ pc = "body" /\ res \in DOMAIN answers /\ res > 0 /\ tries > 0 /\ err = "nil"
      /\ answers[res].try = tries /\ answers[res].body = "open"
      /\ answers[res].status \in {"retryable", "final"} /\ answers[res].status = LastServed.status
  BY Elements DEF ReadBody, RetryInv, CurrentAnswer, TriesCounted
<1>2. /\ answers' = [answers EXCEPT ![res].body = "closed"]
      /\ UNCHANGED <<tries, rel, res, err, cancelled, served, server>>
      /\ \/ answers[res].status = "retryable" /\ pc' = "wait" /\ UNCHANGED result
         \/ answers[res].status = "final" /\ pc' = "after" /\ UNCHANGED result
         \/ pc' = "done" /\ result' = [res |-> 0, err |-> "body"]
  BY <1>1 DEF ReadBody, Closed, Retryable, Retry, Goto, cvars
<1>3. /\ answers' \in Seq(AnswerRecord) /\ Len(answers') = Len(answers)
      /\ DOMAIN answers' = DOMAIN answers
      /\ \A i \in DOMAIN answers :
           /\ answers'[i].try = answers[i].try /\ answers'[i].status = answers[i].status
           /\ answers'[i].body = IF i = res THEN "closed" ELSE answers[i].body
      /\ \A i \in DOMAIN served : Reported(served[i].try)' <=> Reported(served[i].try)
  BY <1>1, <1>2, OneBody DEF RetryInv
<1>4. RetryTypeOK'
  <2>1. /\ result' \in [res : 0..Len(answers'), err : Errors] /\ res' \in 0..Len(answers')
    BY <1>1, <1>2, <1>3, Elements DEF RetryInv, RetryTypeOK, Errors
  <2> QED BY <1>2, <1>3, <2>1 DEF RetryInv, RetryTypeOK, Places, Errors, Statuses, AnswerRecord
<1>5. TriesCounted' /\ CurrentAnswer' /\ OpenBodies'
  BY <1>1, <1>2, <1>3 DEF RetryInv, TriesCounted, CurrentAnswer, Asking, OpenBodies
<1>6. ResultsStand'
  <2>1. err' = "nil" /\ res' # 0 /\ answers'[res'].try = tries' /\ answers'[res'].status = answers[res].status
    <3>1. UNCHANGED <<tries, res, err>>
      BY <1>2
    <3> QED BY <1>1, <1>3, <3>1
  <2>2. tries' > 0 /\ err' \in {"nil", "network", "trace"} /\ (err' = "nil" <=> res' # 0)
        /\ answers'[res'].try = tries'
    BY <1>1, <1>2, <2>1
  <2>3. /\ pc' = "wait" => answers'[res'].status = "retryable"
        /\ pc' = "after" => answers'[res'].status = "final"
    BY <1>1, <1>2, <2>1
  <2> QED BY <2>1, <2>2, <2>3 DEF ResultsStand
<1>7. KnownIsLast'
  BY <1>1, <1>2, <1>3 DEF RetryInv, KnownIsLast, LastServed
<1>8. AtTheEnd'
  BY <1>1, <1>2, <1>3, Elements DEF RetryInv, AtTheEnd, OpenBodies, AnswerIsOfLastTry, GivesUpLate,
     CancelIsReported, OnlyUpgradesStayOpen, Done
<1>9. Repeats'
  <2>1. Unknown' = Unknown
    BY <1>2, <1>3 DEF Unknown
  <2> QED BY <1>2, <1>3, <2>1 DEF RetryInv, Repeats, RepeatedOnlyIfUnknown, OldAfterUpgrade
<1>20. NothingDropped'
  <2>1. res' = res /\ answers'[res].body = "closed" /\ result'.res = 0
    <3>1. res' = res /\ (result' = result \/ result'.res = 0)
      BY <1>2
    <3>2. answers'[res].body = "closed"
      BY <1>1, <1>3
    <3> QED BY <1>1, <3>1, <3>2 DEF RetryInv, NothingDropped
  <2> QED BY <2>1 DEF NothingDropped
<1>21. AnswersAreServed'
  BY <1>2, <1>3 DEF RetryInv, AnswersAreServed
<1> QED BY <1>4, <1>5, <1>6, <1>7, <1>8, <1>9, <1>20, <1>21 DEF RetryInv

\* The tries are over: what stands is returned.
LEMMA AfterKeepsInv ==
  ASSUME RetryInv, After, UNCHANGED <<cancelled, served, server>>
  PROVE  RetryInv'
<1>1. pc = "after"
  BY DEF After
<1>2. CASE cancelled
  <2>1. Return(0, "ctx")
    BY <1>2 DEF After, Final
  <2> QED BY <1>1, <2>1, GivingUpKeepsInv
<1>3. CASE ~cancelled
  <2>0. /\ pc' = "done" /\ result' = [res |-> res, err |-> err]
        /\ UNCHANGED <<tries, delay, rel, res, err, cancelled, served, server>>
        /\ answers' = IF res = 0 THEN answers ELSE HandedOver(res)
    BY <1>3 DEF After, Final, Return, cvars
  <2>1. /\ answers' \in Seq(AnswerRecord) /\ Len(answers') = Len(answers)
        /\ DOMAIN answers' = DOMAIN answers
        /\ \A i \in DOMAIN answers :
             /\ answers'[i].try = answers[i].try /\ answers'[i].status = answers[i].status
             /\ i # res => answers'[i].body = answers[i].body
             /\ answers'[i].body = "dropped" <=> answers[i].body = "dropped"
             /\ i = res => answers'[i].body # "open" /\ (answers'[i].body = "caller" => answers[i].status = "upgrade")
        /\ \A i \in DOMAIN served : Reported(served[i].try)' <=> Reported(served[i].try)
    <3>1. CASE res = 0
      <4>1. answers' = answers /\ answers \in Seq(AnswerRecord)
        BY <2>0, <3>1 DEF RetryInv, RetryTypeOK, AnswerRecord
      <4>2. \A i \in DOMAIN answers : i # res
        BY <3>1, Elements DEF RetryInv
      <4> QED BY <2>0, <4>1, <4>2 DEF Reported
    <3>2. CASE res # 0
      <4> DEFINE b == IF answers[res].body = "open" THEN "caller" ELSE answers[res].body
      <4>1. res \in DOMAIN answers /\ answers[res].body \in {"open", "closed", "caller", "dropped"}
        BY <3>2, Elements DEF RetryInv, AnswerRecord
      <4>2. /\ b \in {"open", "closed", "caller", "dropped"} /\ b # "open"
            /\ (b = "dropped") <=> (answers[res].body = "dropped")
            /\ b = "caller" => answers[res].status = "upgrade"
        BY <1>1, <4>1 DEF RetryInv, OpenBodies
      <4>3. answers' = [answers EXCEPT ![res].body = b]
        BY <2>0, <3>2 DEF HandedOver
      <4> HIDE DEF b
      <4>4. /\ answers' \in Seq(AnswerRecord) /\ Len(answers') = Len(answers)
            /\ DOMAIN answers' = DOMAIN answers
            /\ \A i \in DOMAIN answers :
                 /\ answers'[i].try = answers[i].try /\ answers'[i].status = answers[i].status
                 /\ answers'[i].body = IF i = res THEN b ELSE answers[i].body
            /\ \A i \in DOMAIN served : Reported(served[i].try)' <=> Reported(served[i].try)
        BY <2>0, <4>1, <4>2, <4>3, OneBody DEF RetryInv
      <4> QED BY <4>2, <4>4
    <3> QED BY <3>1, <3>2
  <2>2. RetryTypeOK'
    <3>1. /\ result' \in [res : 0..Len(answers'), err : Errors] /\ res' \in 0..Len(answers')
      BY <2>0, <2>1, Elements DEF RetryInv, RetryTypeOK, Errors
    <3> QED BY <2>0, <2>1, <3>1 DEF RetryInv, RetryTypeOK, Places, Errors, Statuses, AnswerRecord
  <2>3. TriesCounted' /\ CurrentAnswer' /\ ResultsStand' /\ OpenBodies' /\ KnownIsLast'
    BY <1>1, <2>0, <2>1 DEF RetryInv, TriesCounted, CurrentAnswer, ResultsStand, Asking, OpenBodies, KnownIsLast
  <2>4. /\ tries = MaxRetry \/ (tries > 0 /\ res # 0 /\ answers[res].status = "final")
        /\ tries > 0 => (err = "nil" <=> res # 0) /\ (res # 0 => answers[res].try = tries)
        /\ res = 0 \/ res \in DOMAIN answers
    BY <1>1, <1>3, Elements DEF RetryInv, ResultsStand
  <2>5. (AnswerIsOfLastTry /\ GivesUpLate /\ CancelIsReported)'
    <3>1. result'.res = res /\ result'.err = err /\ UNCHANGED <<cancelled, tries>>
      BY <2>0
    <3>2. res # 0 => answers'[res].status = answers[res].status /\ answers'[res].try = answers[res].try
      BY <2>1, <2>4
    <3>3. MaxRetry > 0 => tries > 0
      BY <2>4
    <3>4. GivesUpLate'
      BY <2>4, <3>1, <3>2, RetryAssumption, Elements DEF GivesUpLate, RetryInv
    <3> QED BY <1>3, <2>4, <3>1, <3>2, <3>3, <3>4 DEF AnswerIsOfLastTry, CancelIsReported
  <2>6. OnlyUpgradesStayOpen'
    BY <1>1, <2>0, <2>1 DEF RetryInv, OpenBodies, OnlyUpgradesStayOpen
  <2>7. Repeats'
    <3>1. Unknown' = Unknown
      BY <2>0, <2>1 DEF Unknown
    <3> QED BY <2>0, <2>1, <3>1 DEF RetryInv, Repeats, RepeatedOnlyIfUnknown, OldAfterUpgrade
  <2>8. NothingDropped'
    BY <2>0, <2>1, <2>4 DEF RetryInv, NothingDropped
  <2>9. AnswersAreServed'
    BY <2>0, <2>1 DEF RetryInv, AnswersAreServed
  <2> QED BY <2>2, <2>3, <2>5, <2>6, <2>7, <2>8, <2>9 DEF RetryInv, AtTheEnd
<1> QED BY <1>2, <1>3

LEMMA CancelKeepsInv ==
  ASSUME RetryInv, Cancel
  PROVE  RetryInv'
<1>0. /\ pc # "done" /\ cancelled' = TRUE
      /\ UNCHANGED <<pc, tries, delay, rel, res, err, result, answers, served, server>>
  BY DEF Cancel, client
<1>1. RetryTypeOK'
  BY <1>0 DEF RetryInv, RetryTypeOK, Places, Errors, Statuses
<1>2. TriesCounted' /\ CurrentAnswer' /\ ResultsStand' /\ KnownIsLast' /\ OpenBodies'
  BY <1>0 DEF RetryInv, TriesCounted, CurrentAnswer, ResultsStand, KnownIsLast, OpenBodies,
     Reported, LastServed
<1>3. NothingDropped' /\ AnswersAreServed' /\ AtTheEnd' /\ Repeats'
  BY <1>0 DEF RetryInv, NothingDropped, AnswersAreServed, AtTheEnd, AnswerIsOfLastTry, GivesUpLate,
     CancelIsReported, OnlyUpgradesStayOpen, Done, Repeats, RepeatedOnlyIfUnknown, OldAfterUpgrade,
     Unknown, Reported
<1> QED BY <1>1, <1>2, <1>3 DEF RetryInv

\* Every step of executeMethod, the network and the server.
LEMMA RetryStep ==
  ASSUME RetryInv, Client \/ Network \/ Server
  PROVE  RetryInv'
<1>1. CASE (Start \/ Wait) /\ UNCHANGED <<cancelled, served, server>>
  BY <1>1, TimerKeepsInv
<1>2. CASE (NewRequest \/ Send \/ Break) /\ UNCHANGED <<cancelled, served, server>>
  BY <1>2, AskingKeepsInv
<1>3. CASE (Answered /\ UNCHANGED <<cancelled, served, server>>)
  <2>1. pc = "answered"
    BY <1>3 DEF Answered
  <2>2. CASE answers[res].status = "ok" /\ Return(res, "nil")
    BY <1>3, <2>1, <2>2, SuccessKeepsInv
  <2>3. CASE answers[res].status = "upgrade" /\ rel' = Downgraded /\ Retry /\ UNCHANGED <<tries, res, err, answers>>
    BY <1>3, <2>1, <2>3, StatusKeepsInv DEF Retry, Goto
  <2>4. CASE answers[res].status \in {"retryable", "final"} /\ Goto("body") /\ UNCHANGED <<cvars, res, err, answers>>
    BY <1>3, <2>1, <2>4, StatusKeepsInv DEF Goto, cvars
  <2> QED BY <1>3, <2>2, <2>3, <2>4 DEF Answered
<1>4. CASE (ReadBody \/ After \/ Answer \/ TraceFails) /\ UNCHANGED <<cancelled, served, server>>
  BY <1>4, ReadingKeepsInv, AfterKeepsInv, AnswerKeepsInv, TracingKeepsInv
<1>5. CASE Serve /\ UNCHANGED <<cancelled, server>>
  BY <1>5, ServeKeepsInv
<1> QED BY <1>1, <1>2, <1>3, <1>4, <1>5 DEF Client, Network, Server

----------------------------------------------------------------------------
(* The calls.                                                               *)

\* What a call knows while it is under way.
CallInv ==
  /\ RetryInv /\ at \in {"first", "second", "stream", "over"} /\ told \in Seq(BOOLEAN)
  /\ Requesting => outcome = "none" /\ told = <<>>
  /\ at \in {"stream", "over"} => Done
  /\ at = "stream" =>
       /\ call = "Metrics" /\ outcome = "none" /\ \A i \in DOMAIN told : told[i] = FALSE
       /\ result.res # 0 /\ answers[result.res].status = "ok"
  /\ CallsCloseBodies /\ FirstIsClosed /\ SuccessMeansCarriedOut /\ ErrorIsTheServers
  /\ FallbackRepeatsNothing /\ MetricsNilMeansFinal

\* The response that is returned is what the server made of the last request.
LEMMA ReturnedIsLast ==
  ASSUME RetryInv, Done, result.res # 0
  PROVE  /\ answers[result.res].try = tries /\ LastServed.try = tries
         /\ LastServed.status = answers[result.res].status
         /\ result.res \in DOMAIN answers /\ Len(served) \in DOMAIN served
<1>1. result.res \in DOMAIN answers
  BY Elements DEF RetryInv, RetryTypeOK
<1>2. answers[result.res].try = tries
  BY CallsAssumption DEF RetryInv, AtTheEnd, AnswerIsOfLastTry
<1>3. PICK j \in DOMAIN served : served[j].try = tries /\ served[j].status = answers[result.res].status
  BY <1>1, <1>2 DEF RetryInv, AnswersAreServed
<1>4. j = Len(served)
  BY <1>3, Elements DEF RetryInv, TriesCounted
<1> QED BY <1>1, <1>2, <1>3, <1>4 DEF LastServed

LEMMA StutterKeepsInv ==
  ASSUME RetryInv, UNCHANGED vars
  PROVE  RetryInv' /\ (Done => Done')
<1>1. RetryTypeOK'
  BY DEF vars, client, RetryInv, RetryTypeOK, Places, Errors, Statuses
<1>2. TriesCounted' /\ CurrentAnswer' /\ ResultsStand' /\ KnownIsLast' /\ OpenBodies'
  BY DEF vars, client, RetryInv, TriesCounted, CurrentAnswer, ResultsStand, KnownIsLast, OpenBodies,
     Reported, LastServed
<1>3. NothingDropped' /\ AnswersAreServed' /\ AtTheEnd' /\ Repeats'
  BY DEF vars, client, RetryInv, NothingDropped, AnswersAreServed, AtTheEnd, AnswerIsOfLastTry,
     GivesUpLate, CancelIsReported, OnlyUpgradesStayOpen, Done, Repeats, RepeatedOnlyIfUnknown,
     OldAfterUpgrade, Unknown, Reported
<1> QED BY <1>1, <1>2, <1>3 DEF RetryInv, Done, vars, client

\* Closing the body of what was returned.
LEMMA ClosingKeepsInv ==
  ASSUME RetryInv, Done, CloseBody, NoRequest
  PROVE  /\ RetryInv' /\ Done' /\ DOMAIN answers' = DOMAIN answers
         /\ \A i \in DOMAIN answers :
              /\ answers'[i].try = answers[i].try /\ answers'[i].status = answers[i].status
              /\ answers'[i].body # "caller"
<1>0. /\ pc = "done" /\ UNCHANGED <<pc, tries, delay, rel, res, err, result, served, server, cancelled>>
  BY DEF Done, NoRequest, cvars
<1>1. CASE result.res = 0
  <2>1. answers \in Seq(AnswerRecord) /\ DOMAIN answers = 1..Len(answers)
    BY Elements DEF RetryInv, RetryTypeOK, AnswerRecord
  <2>2. \A i \in DOMAIN answers : i # result.res
    BY <1>1, <2>1
  <2>3. answers' = answers
    BY <2>1, <2>2, LenProperties DEF CloseBody, BodyClosed
  <2>4. RetryInv'
    BY <1>0, <2>3, StutterKeepsInv DEF vars, client
  <2> QED BY <1>0, <2>2, <2>3, <2>4 DEF Done, RetryInv, AtTheEnd, OnlyUpgradesStayOpen
<1>2. CASE result.res # 0
  <2>1. /\ result.res \in DOMAIN answers /\ answers[result.res].body # "dropped"
    BY <1>2, Elements DEF RetryInv, RetryTypeOK, NothingDropped
  <2>2. answers \in Seq(AnswerRecord) /\ DOMAIN answers = 1..Len(answers)
    BY Elements DEF RetryInv, RetryTypeOK, AnswerRecord
  <2>3. answers' = [answers EXCEPT ![result.res].body = "closed"]
    BY <2>1, <2>2, LenProperties DEF CloseBody, BodyClosed
  <2>4. /\ answers' \in Seq(AnswerRecord) /\ Len(answers') = Len(answers)
        /\ DOMAIN answers' = DOMAIN answers
        /\ \A i \in DOMAIN answers :
             /\ answers'[i].try = answers[i].try /\ answers'[i].status = answers[i].status
             /\ answers'[i].body = IF i = result.res THEN "closed" ELSE answers[i].body
        /\ \A i \in DOMAIN served : Reported(served[i].try)' <=> Reported(served[i].try)
    BY <1>0, <2>1, <2>3, OneBody DEF RetryInv
  <2>5. RetryTypeOK'
    BY <1>0, <2>4 DEF RetryInv, RetryTypeOK, Places, Errors, Statuses, AnswerRecord
  <2>6. TriesCounted' /\ CurrentAnswer' /\ ResultsStand' /\ OpenBodies'
    BY <1>0, <2>4 DEF RetryInv, TriesCounted, CurrentAnswer, ResultsStand, OpenBodies, Asking
  <2>7. KnownIsLast' /\ AnswersAreServed'
    BY <1>0, <2>4 DEF RetryInv, KnownIsLast, AnswersAreServed
  <2>8. NothingDropped'
    <3>1. res # 0 => res \in DOMAIN answers /\ answers[res].body # "dropped"
      BY Elements DEF RetryInv, NothingDropped
    <3> QED BY <1>0, <2>1, <2>4, <3>1 DEF NothingDropped
  <2>9. AtTheEnd'
    <3>1. answers'[result.res].try = answers[result.res].try /\ answers'[result.res].status = answers[result.res].status
      BY <2>1, <2>4
    <3>2. AnswerIsOfLastTry' /\ GivesUpLate' /\ CancelIsReported'
      BY <1>0, <3>1 DEF RetryInv, AtTheEnd, AnswerIsOfLastTry, GivesUpLate, CancelIsReported, Done
    <3>3. OnlyUpgradesStayOpen'
      BY <1>0, <2>4 DEF RetryInv, AtTheEnd, OnlyUpgradesStayOpen, Done
    <3> QED BY <3>2, <3>3 DEF AtTheEnd
  <2>10. Repeats'
    <3>1. Unknown' = Unknown
      BY <1>0, <2>4 DEF Unknown
    <3> QED BY <1>0, <2>4, <3>1 DEF RetryInv, Repeats, RepeatedOnlyIfUnknown, OldAfterUpgrade
  <2>11. \A i \in DOMAIN answers : answers'[i].body # "caller"
    BY <1>0, <2>4 DEF RetryInv, AtTheEnd, OnlyUpgradesStayOpen, Done
  <2> QED BY <1>0, <2>4, <2>5, <2>6, <2>7, <2>8, <2>9, <2>10, <2>11 DEF RetryInv, Done
<1> QED BY <1>1, <1>2

\* A call that is over: all that is left to show is what its caller was told.
LEMMA OverKeepsInv ==
  ASSUME CallInv, RetryInv', Done', at' = "over", told' \in Seq(BOOLEAN), UNCHANGED <<call, before>>,
         CallsCloseBodies', SuccessMeansCarriedOut', ErrorIsTheServers', MetricsNilMeansFinal'
  PROVE  CallInv'
  BY DEF CallInv, Requesting, FallbackRepeatsNothing, FirstIsClosed

\* A request is under way.
LEMMA RequestKeepsInv ==
  ASSUME CallInv, Requesting, RetryInv', UNCHANGED <<call, outcome, told>>,
         at' \in {"first", "second"}, FallbackRepeatsNothing', FirstIsClosed'
  PROVE  CallInv'
<1>1. outcome' = "none" /\ told' = <<>> /\ told' \in Seq(BOOLEAN) /\ DOMAIN told' = {}
  BY DEF CallInv
<1> QED
  BY <1>1 DEF CallInv, Requesting, IsOver, CallsCloseBodies, SuccessMeansCarriedOut,
     ErrorIsTheServers, MetricsNilMeansFinal

\* A second request starts over, and keeps how the responses to the first were
\* left.
LEMMA SecondKeepsInv ==
  ASSUME CallInv, NEW b \in BOOLEAN, NEW left, Second(b, left),
         \A i \in DOMAIN left :
           /\ left[i].body = "open" => left[i].status = "upgrade"
           /\ left[i].body = "caller" => call \in NeverCloses
  PROVE  RetryInv' /\ FirstIsClosed'
<1>1. Fresh'
  BY DEF Second, Fresh, CallInv, RetryInv, RetryTypeOK
<1>2. Fresh' => RetryInv'
  BY FreshInv, PTL
<1>3. /\ before'.left = {[status |-> left[i].status, body |-> left[i].body] : i \in DOMAIN left}
      /\ call' = call
  BY DEF Second
<1>4. FirstIsClosed'
  BY <1>3 DEF FirstIsClosed, NeverCloses
<1> QED BY <1>1, <1>2, <1>4

\* When the older API is asked, nobody is known to have carried out the call, and
\* the refusal is closed.
LEMMA FallbackKeepsInv ==
  ASSUME CallInv, Fallback
  PROVE  CallInv'
<1>1. /\ Requesting /\ Done /\ result.res # 0 /\ answers[result.res].status = "upgrade"
      /\ Second(cancelled, BodyClosed) /\ cancelled \in BOOLEAN /\ RetryInv
  BY DEF Fallback, Settled, Asks, Answering, FallsBack, CallInv, RetryInv, RetryTypeOK
<1>2. LastServed.status = "upgrade"
  BY <1>1, ReturnedIsLast
<1>3. \A i \in DOMAIN served \ Unknown : served[i].status \in {"upgrade", "retryable"}
  <2>1. \A i \in DOMAIN served : served[i].status \in Statuses
    BY <1>1, Elements DEF RetryInv, ServedRecord
  <2> QED BY <1>1, <1>2, <2>1 DEF RetryInv, KnownIsLast, Unknown, LastServed, Statuses
<1>4. FallbackRepeatsNothing'
  BY <1>1, <1>3 DEF Second, FallbackRepeatsNothing
<1>5. \A i \in DOMAIN BodyClosed :
        /\ BodyClosed[i].body = "open" => BodyClosed[i].status = "upgrade"
        /\ BodyClosed[i].body = "caller" => call \in NeverCloses
  <2>1. \A i \in DOMAIN answers :
          /\ answers[i] \in AnswerRecord
          /\ answers[i].body = "open" => answers[i].status = "upgrade"
          /\ answers[i].body = "caller" => i = result.res
    BY <1>1, Elements DEF RetryInv, AtTheEnd, OnlyUpgradesStayOpen
  <2>2. \A i \in DOMAIN answers :
          BodyClosed[i] = IF i = result.res THEN [answers[i] EXCEPT !.body = "closed"] ELSE answers[i]
    BY DEF BodyClosed
  <2>3. DOMAIN BodyClosed = DOMAIN answers
    BY DEF BodyClosed
  <2>4. \A i \in DOMAIN answers : [answers[i] EXCEPT !.body = "closed"].body = "closed"
    BY <2>1 DEF AnswerRecord
  <2> QED BY <2>1, <2>2, <2>3, <2>4
<1>6. RetryInv' /\ FirstIsClosed'
  BY <1>1, <1>5, SecondKeepsInv
<1>7. at' = "second" /\ UNCHANGED <<call, outcome, told>>
  BY <1>1 DEF Second
<1> QED BY <1>1, <1>4, <1>6, <1>7, RequestKeepsInv

\* The request fails, is refused, or its answer is decoded.
LEMMA AnsweredKeepsInv ==
  ASSUME CallInv, RequestFails \/ Refused \/ DecodeAnswer \/ HandOut
  PROVE  CallInv'
<1>0. /\ RetryInv /\ Requesting /\ Done /\ at' = "over" /\ UNCHANGED <<call, told, before>>
      /\ told = <<>> /\ DOMAIN told = {} /\ told \in Seq(BOOLEAN)
  BY DEF CallInv, RequestFails, Refused, DecodeAnswer, HandOut, Succeeds, Settled, Over
<1>1. ASSUME RequestFails PROVE CallInv'
  <2>1. outcome' = "transport" /\ UNCHANGED vars /\ result.err # "nil"
    BY <1>1 DEF RequestFails, Over
  <2>2. RetryInv' /\ Done'
    BY <1>0, <2>1, StutterKeepsInv
  <2>3. \A i \in DOMAIN answers : answers[i].body # "caller"
    BY <1>0, <2>1, CallsAssumption, Elements
       DEF RetryInv, AtTheEnd, AnswerIsOfLastTry, OnlyUpgradesStayOpen
  <2>4. CallsCloseBodies'
    BY <2>1, <2>3 DEF CallsCloseBodies, vars, client
  <2>5. SuccessMeansCarriedOut' /\ ErrorIsTheServers' /\ MetricsNilMeansFinal'
    BY <1>0, <2>1 DEF SuccessMeansCarriedOut, ErrorIsTheServers, MetricsNilMeansFinal
  <2> QED BY <1>0, <2>2, <2>4, <2>5, OverKeepsInv
<1>2. ASSUME Refused \/ DecodeAnswer PROVE CallInv'
  <2>1. /\ result.res # 0 /\ UNCHANGED <<tries, result, served>>
        /\ \/ Answering(Refusals) /\ outcome' \in {"server", "lost"}
              /\ (outcome' = "lost" => call \in ClosesFirst \/ answers[result.res].status = "upgrade")
           \/ Answering(Statuses \ Refusals) /\ outcome' \in {"nil", "decode"} /\ call # "Metrics"
    BY <1>2 DEF Refused, DecodeAnswer, Succeeds, Answering, Over, ReadsError, NoRequest, cvars
  <2>2. (call \in NeverCloses /\ UNCHANGED vars) \/ (CloseBody /\ NoRequest)
    BY <1>2 DEF Refused, DecodeAnswer, NoRequest, vars, client, cvars
  <2>3. /\ RetryInv' /\ Done' /\ DOMAIN answers' = DOMAIN answers
        /\ \A i \in DOMAIN answers :
             answers'[i].try = answers[i].try /\ answers'[i].status = answers[i].status
        /\ call \notin NeverCloses => \A i \in DOMAIN answers : answers'[i].body # "caller"
    <3>1. CASE CloseBody /\ NoRequest
      BY <1>0, <3>1, ClosingKeepsInv
    <3>2. CASE call \in NeverCloses /\ UNCHANGED vars
      BY <1>0, <3>2, StutterKeepsInv DEF vars, client
    <3> QED BY <2>2, <3>1, <3>2
  <2>4. CallsCloseBodies'
    BY <1>0, <2>3 DEF CallsCloseBodies, NeverCloses
  <2>5. /\ LastServed' = LastServed /\ result.res \in DOMAIN answers
        /\ answers[result.res].try = tries /\ LastServed.status = answers[result.res].status
    BY <1>0, <2>1, ReturnedIsLast DEF LastServed
  <2>6. SuccessMeansCarriedOut'
    BY <1>0, <2>1, <2>3, <2>5 DEF SuccessMeansCarriedOut, Answering, Refusals
  <2>7. ErrorIsTheServers' /\ MetricsNilMeansFinal'
    BY <1>0, <2>1, <2>3, <2>5 DEF ErrorIsTheServers, MetricsNilMeansFinal, ClosesFirst
  <2> QED BY <1>0, <2>3, <2>4, <2>6, <2>7, OverKeepsInv
<1>3. ASSUME HandOut PROVE CallInv'
  <2>1. outcome' = "body" /\ UNCHANGED vars /\ Answering(Statuses \ Refusals) /\ call \in HandsOut
    BY <1>3 DEF HandOut, Succeeds, Over
  <2>2. RetryInv' /\ Done'
    BY <1>0, <2>1, StutterKeepsInv
  <2>3. CallsCloseBodies'
    BY <1>0, <2>1 DEF CallsCloseBodies, vars, client, RetryInv, AtTheEnd, OnlyUpgradesStayOpen
  <2>4. SuccessMeansCarriedOut'
    BY <1>0, <2>1, ReturnedIsLast
       DEF SuccessMeansCarriedOut, Answering, Refusals, HandsOut, vars, client, LastServed
  <2>5. ErrorIsTheServers' /\ MetricsNilMeansFinal'
    BY <1>0, <2>1 DEF ErrorIsTheServers, MetricsNilMeansFinal, HandsOut
  <2> QED BY <1>0, <2>2, <2>3, <2>4, <2>5, OverKeepsInv
<1> QED BY <1>1, <1>2, <1>3

\* Metrics reads its entries.
LEMMA StreamKeepsInv ==
  ASSUME CallInv, OpenStream \/ Entry \/ FinalEntry \/ StreamEnds
  PROVE  CallInv'
<1>0. /\ RetryInv /\ call = "Metrics" /\ call' = call /\ before' = before /\ outcome = "none" /\ Done
      /\ result.res # 0 /\ answers[result.res].status = "ok"
      /\ told \in Seq(BOOLEAN) /\ \A i \in DOMAIN told : told[i] = FALSE
  <2>1. CASE OpenStream
    BY <2>1 DEF CallInv, OpenStream, Succeeds, Settled, Answering, Refusals, Statuses
  <2>2. CASE Entry \/ FinalEntry \/ StreamEnds
    BY <2>2 DEF CallInv, Entry, FinalEntry, StreamEnds, Over
  <2> QED BY <2>1, <2>2
<1>1. Len(told) \in Nat /\ DOMAIN told = 1..Len(told)
  BY <1>0, LenProperties
<1>a. ASSUME NEW b \in BOOLEAN
      PROVE  /\ Append(told, b) \in Seq(BOOLEAN) /\ DOMAIN Append(told, b) = 1..(Len(told) + 1)
             /\ \A i \in 1..Len(told) : Append(told, b)[i] = told[i]
             /\ Append(told, b)[Len(told) + 1] = b /\ Len(Append(told, b)) = Len(told) + 1
  BY <1>0, AppendProperties, LenProperties
<1>b. Append(told, TRUE)[Len(told) + 1] /\ Len(Append(told, TRUE)) = Len(told) + 1
  BY <1>a, Zenon
<1>c. Append(told, TRUE) # <<>>
  <2>1. Len(<<>>) = 0 /\ Len(told) + 1 # 0
    BY <1>1
  <2> QED BY <1>b, <2>1, Zenon
<1>2. CASE OpenStream \/ Entry
  <2>1. UNCHANGED <<vars, outcome>> /\ at' = "stream" /\ told' \in {told, Append(told, FALSE)}
    BY <1>2 DEF OpenStream, Entry
  <2>2. RetryInv' /\ Done'
    BY <1>0, <2>1, StutterKeepsInv
  <2>3. told' \in Seq(BOOLEAN) /\ \A i \in DOMAIN told' : told'[i] = FALSE
    <3>1. \A i \in DOMAIN Append(told, FALSE) : Append(told, FALSE)[i] = FALSE
      <4>1. \A i \in 1..(Len(told) + 1) : i \in 1..Len(told) \/ i = Len(told) + 1
        BY <1>1
      <4>2. /\ DOMAIN Append(told, FALSE) = 1..(Len(told) + 1)
            /\ \A i \in 1..Len(told) : Append(told, FALSE)[i] = told[i]
            /\ Append(told, FALSE)[Len(told) + 1] = FALSE
        BY <1>a, Zenon
      <4> QED BY <1>0, <1>1, <4>1, <4>2
    <3> QED BY <1>0, <1>a, <2>1, <3>1
  <2> QED BY <1>0, <2>1, <2>2, <2>3
       DEF CallInv, vars, client, Requesting, IsOver, CallsCloseBodies, SuccessMeansCarriedOut,
           ErrorIsTheServers, FallbackRepeatsNothing, MetricsNilMeansFinal, FirstIsClosed
<1>3. CASE FinalEntry \/ StreamEnds
  <2>1. /\ CloseBody /\ NoRequest /\ at' = "over" /\ UNCHANGED <<tries, result, served>>
        /\ \/ outcome' = "nil" /\ told' = Append(told, TRUE)
           \/ outcome' \in {"unexpected", "decode"} /\ told' = told
    BY <1>3 DEF FinalEntry, StreamEnds, Over, AtEOF, NoRequest, cvars
  <2>2. /\ RetryInv' /\ Done' /\ DOMAIN answers' = DOMAIN answers
        /\ \A i \in DOMAIN answers :
             /\ answers'[i].try = answers[i].try /\ answers'[i].status = answers[i].status
             /\ answers'[i].body # "caller"
    BY <1>0, <2>1, ClosingKeepsInv
  <2>3. /\ LastServed' = LastServed /\ result.res \in DOMAIN answers
        /\ answers[result.res].try = tries /\ LastServed.status = answers[result.res].status
    BY <1>0, <2>1, ReturnedIsLast DEF LastServed
  <2>4. CallsCloseBodies' /\ SuccessMeansCarriedOut' /\ ErrorIsTheServers'
    BY <1>0, <2>1, <2>2, <2>3 DEF CallsCloseBodies, SuccessMeansCarriedOut, ErrorIsTheServers
  <2>5. told' \in Seq(BOOLEAN) /\ MetricsNilMeansFinal'
    <3>1. CASE outcome' = "nil" /\ told' = Append(told, TRUE)
      <4>1. \A i \in DOMAIN told' : (i \in 1..Len(told) /\ i # Len(told')) \/ i = Len(told')
        BY <1>1, <1>a, <1>b, <3>1
      <4>2. \A i \in DOMAIN told' : told'[i] <=> i = Len(told')
        BY <1>0, <1>1, <1>a, <1>b, <3>1, <4>1
      <4> QED BY <1>a, <1>c, <3>1, <4>2 DEF MetricsNilMeansFinal
    <3>2. CASE outcome' \in {"unexpected", "decode"} /\ told' = told
      BY <1>0, <3>2 DEF MetricsNilMeansFinal
    <3> QED BY <2>1, <3>1, <3>2
  <2> QED BY <1>0, <2>1, <2>2, <2>4, <2>5, OverKeepsInv
<1> QED BY <1>2, <1>3

LEMMA CallsStep == CallInv /\ [CallsNext]_allVars => CallInv'
<1> SUFFICES ASSUME CallInv, [CallsNext]_allVars PROVE CallInv'
  OBVIOUS
<1>1. CASE Execute \/ CancelCall
  <2>1. Requesting /\ UNCHANGED callVars /\ at \in {"first", "second"}
    BY <1>1 DEF Execute, CancelCall, Requesting
  <2>2. RetryInv'
    BY <1>1, RetryStep, CancelKeepsInv DEF Execute, CancelCall, CallInv
  <2> QED BY <2>1, <2>2, RequestKeepsInv DEF callVars, CallInv, FallbackRepeatsNothing, FirstIsClosed
<1>2. CASE Measured
  <2>1. Requesting /\ Done /\ Second(FALSE, answers) /\ call = "ClientPerf" /\ call \in NeverCloses
    BY <1>2 DEF Measured, Overwrites, Requesting, NeverCloses
  <2>3. \A i \in DOMAIN answers :
          /\ answers[i].body = "open" => answers[i].status = "upgrade"
          /\ answers[i].body = "caller" => call \in NeverCloses
    BY <2>1 DEF CallInv, RetryInv, AtTheEnd, OnlyUpgradesStayOpen
  <2>2. RetryInv' /\ FirstIsClosed'
    BY <2>1, <2>3, SecondKeepsInv
  <2> QED BY <2>1, <2>2, RequestKeepsInv DEF Second, FallbackRepeatsNothing
<1>3. CASE Fallback
  BY <1>3, FallbackKeepsInv
<1>4. CASE RequestFails \/ Refused \/ DecodeAnswer \/ HandOut
  BY <1>4, AnsweredKeepsInv
<1>5. CASE OpenStream \/ Entry \/ FinalEntry \/ StreamEnds
  BY <1>5, StreamKeepsInv
<1>6. CASE UNCHANGED allVars
  <2>1. RetryInv' /\ (Done => Done') /\ UNCHANGED <<call, at, outcome, told, before>> /\ UNCHANGED vars
    BY <1>6, StutterKeepsInv DEF allVars, callVars, CallInv
  <2> QED BY <2>1 DEF CallInv, vars, client, cvars, Requesting, IsOver, CallsCloseBodies, LastServed,
       SuccessMeansCarriedOut, ErrorIsTheServers, FallbackRepeatsNothing, MetricsNilMeansFinal,
       FirstIsClosed
<1> QED BY <1>1, <1>2, <1>3, <1>4, <1>5, <1>6 DEF CallsNext, Ends

LEMMA CallsStart == CallsInit => CallInv
<1> SUFFICES ASSUME CallsInit PROVE CallInv
  OBVIOUS
<1>1. RetryInv
  BY FreshInv DEF CallsInit, Init, Fresh
<1>2. told \in Seq(BOOLEAN) /\ DOMAIN told = {}
  BY DEF CallsInit
<1> QED BY <1>1, <1>2 DEF CallsInit, CallInv, Requesting, IsOver, CallsCloseBodies,
     SuccessMeansCarriedOut, ErrorIsTheServers, FallbackRepeatsNothing, MetricsNilMeansFinal,
     FirstIsClosed

LEMMA CallsKeepInv == CallsSpec => []CallInv
BY CallsStart, CallsStep, PTL DEF CallsSpec

----------------------------------------------------------------------------
(* The theorems.                                                            *)

\* executeMethod keeps its results, responses and tries in their types, with
\* one request and one response per try at most, whoever calls it.
THEOREM RetryTypeCorrect == CallsSpec => []RetryTypeOK
BY CallsKeepInv, PTL DEF CallInv, RetryInv

\* What executeMethod returns is of its last try: a response or an error.  It
\* gives up a request that may be retried only when its tries are used up, and says
\* so when its context is done.
THEOREM OutcomesAreOfTheTries == CallsSpec => []OutcomeOfTries
<1>1. CallInv => OutcomeOfTries
  BY DEF CallInv, RetryInv, AtTheEnd, OutcomeOfTries
<1> QED BY CallsKeepInv, <1>1, PTL

\* Of the responses given up, only those that ask for the older API stay open,
\* a call that is over has closed what executeMethod left it, and the first of its
\* requests has no body left, where there are two (but for ClientPerf).
THEOREM BodiesAreClosed == CallsSpec => []BodiesAccountedFor
<1>1. CallInv => BodiesAccountedFor
  BY DEF CallInv, RetryInv, AtTheEnd, BodiesAccountedFor
<1> QED BY CallsKeepInv, <1>1, PTL

\* A caller is told of success only when the server succeeded at the last request,
\* and a refusal reaches him in the server's words, but where the response is
\* closed first.
THEOREM OutcomesAreTheServers == CallsSpec => []OutcomeIsTheServers
<1>1. CallInv => OutcomeIsTheServers
  BY DEF CallInv, OutcomeIsTheServers
<1> QED BY CallsKeepInv, <1>1, PTL

\* Nothing is asked again that the client knows to have been carried out or
\* refused for good, no retry of a request asks the newer API of a server that is
\* known to want the older, and falling back to the older API, in a request of its
\* own that begins with the newer again, repeats nothing that was carried out.
THEOREM KnownIsNotRepeated == CallsSpec => []RepeatsAreSafe
<1>1. CallInv => RepeatsAreSafe
  BY DEF CallInv, RetryInv, Repeats, RepeatsAreSafe
<1> QED BY CallsKeepInv, <1>1, PTL

\* Metrics returns nil after a final entry only.
THEOREM MetricsAreComplete == CallsSpec => []MetricsNilMeansFinal
BY CallsKeepInv, PTL DEF CallInv
=============================================================================
