--------------------------- MODULE EStreamArchive ---------------------------
(***************************************************************************)
(* What an encrypted stream promises, without blocks, keys and checksums:   *)
(* an archive of streams that is written by one side and read in order by   *)
(* the other.  A stream reported complete is complete, the end is reported  *)
(* only when the writer finished the archive, and only a locked stream (one *)
(* that needs a private key) is ever passed over.  The reader may fail at   *)
(* any time, and then it says so.                                           *)
(***************************************************************************)
EXTENDS Naturals, Sequences, SequencesExt

CONSTANT Chunks

VARIABLES
  put,       \* the streams written: their data, whether they are shut, locked
  finished,  \* the writer closed the archive
  taken,     \* the streams received so far: which, what of it, how it ended
  over       \* "no", "end" (all streams read) or "failed"

vars == <<put, finished, taken, over>>

Init == put = <<>> /\ finished = FALSE /\ taken = <<>> /\ over = "no"

AllShut == \A s \in DOMAIN put : put[s].shut

Open(locked) ==
  /\ ~finished /\ AllShut
  /\ put' = Append(put, [data |-> <<>>, shut |-> FALSE, locked |-> locked])
  /\ UNCHANGED <<finished, taken, over>>

Write(s, c) ==
  /\ ~put[s].shut /\ put' = [put EXCEPT ![s].data = Append(@, c)]
  /\ UNCHANGED <<finished, taken, over>>

Shut(s) ==
  /\ ~put[s].shut /\ put' = [put EXCEPT ![s].shut = TRUE]
  /\ UNCHANGED <<finished, taken, over>>

Finish ==
  /\ ~finished /\ AllShut /\ finished' = TRUE
  /\ UNCHANGED <<put, taken, over>>

LastTaken == IF taken = <<>> THEN 0 ELSE taken[Len(taken)].sid
Idle      == taken = <<>> \/ taken[Len(taken)].end # "open"
PassedOver(from, to) == \A t \in (from + 1)..(to - 1) : put[t].locked

Take(s) ==
  /\ over = "no" /\ Idle /\ s > LastTaken /\ PassedOver(LastTaken, s)
  /\ taken' = Append(taken, [sid |-> s, data |-> <<>>, end |-> "open"])
  /\ UNCHANGED <<put, finished, over>>

\* The next piece of data, with or without the news that it was the last.
Receive(d, end) ==
  LET t == taken[Len(taken)] IN
  /\ ~Idle /\ over = "no"
  /\ IsPrefix(t.data \o d, put[t.sid].data)
  /\ end = "complete" => t.data \o d = put[t.sid].data /\ put[t.sid].shut
  /\ taken' = [taken EXCEPT ![Len(taken)] = [sid |-> t.sid, data |-> t.data \o d, end |-> end]]
  /\ UNCHANGED <<put, finished, over>>

Abandon ==
  /\ ~Idle /\ over = "no"
  /\ taken' = [taken EXCEPT ![Len(taken)].end = "abandoned"]
  /\ UNCHANGED <<put, finished>>
  /\ over' \in {"no", "failed"}

Finished ==
  /\ over = "no" /\ Idle /\ finished /\ PassedOver(LastTaken, Len(put) + 1)
  /\ over' = "end"
  /\ UNCHANGED <<put, finished, taken>>

Fail == over = "no" /\ over' = "failed" /\ UNCHANGED <<put, finished, taken>>

Next ==
  \/ \E l \in BOOLEAN : Open(l)
  \/ \E s \in DOMAIN put : (\E c \in Chunks : Write(s, c)) \/ Shut(s) \/ Take(s)
  \/ Finish
  \/ \E d \in {<<>>} \cup {<<c>> : c \in Chunks}, e \in {"open", "complete"} : Receive(d, e)
  \/ Abandon \/ Finished \/ Fail

Spec == Init /\ [][Next]_vars
=============================================================================
