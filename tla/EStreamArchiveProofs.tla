------------------------ MODULE EStreamArchiveProofs ------------------------
(***************************************************************************)
(* Theorems about a Writer and a Reader together, for every value of the    *)
(* constants: the Reader's fields have their types whatever happens to the  *)
(* bytes, and a pipe that is not harmed implements the abstract archive.    *)
(***************************************************************************)
EXTENDS EStreamPipeProofs

----------------------------------------------------------------------------
(* The headers on the wire.                                                 *)

\* The streams come in the order of their numbers, of which there are as many
\* as streams were added; as long as the Writer works they all have a handle.
Ascending ==
  \A h \in DOMAIN wire : wire[h].kind \in StreamKinds =>
    /\ wire[h].sid \in 1..MaxStreams /\ (~werr => wire[h].sid <= Len(handles))
    /\ \A g \in 1..(h - 1) : wire[g].kind \in StreamKinds => wire[g].sid < wire[h].sid

\* Every header that is there was there.
HeadersKept ==
  \A h \in DOMAIN wire' : wire'[h].kind \in StreamKinds => h \in DOMAIN wire /\ wire'[h] = wire[h]

LEMMA KeptAscends ==
  ASSUME wire' \in Seq(D!Blocks), HeadersKept, UNCHANGED wown, Ascending
  PROVE  Ascending'
<1>1. handles' = handles /\ werr' = werr
  BY DEF wown
<1>2. ASSUME NEW h \in DOMAIN wire', NEW g \in 1..(h - 1) PROVE g \in DOMAIN wire'
  OBVIOUS
<1> QED BY <1>1, <1>2 DEF Ascending, HeadersKept

LEMMA AlikeAscends ==
  ASSUME wire \in Seq(D!Blocks), Alike, UNCHANGED wown, Ascending
  PROVE  Ascending'
<1>1. /\ Len(wire) \in Nat /\ DOMAIN wire = 1..Len(wire)
      /\ wire' \in Seq(D!Blocks) /\ Len(wire') \in Nat /\ DOMAIN wire' = 1..Len(wire')
  BY DEF Alike
<1>2. \A h \in DOMAIN wire' : h \in 1..Len(wire) \/ h \in (Len(wire) + 1)..Len(wire')
  BY <1>1
<1>3. HeadersKept
  BY <1>1, <1>2 DEF HeadersKept, Alike, StreamKinds
<1> QED BY <1>1, <1>3, KeptAscends

LEMMA CutAscends ==
  ASSUME wire \in Seq(D!Blocks), rpos \in 1..(Len(wire) + 1), Cut, Ascending
  PROVE  Ascending'
<1>1. UNCHANGED wown /\ Len(wire) \in Nat
  BY DEF Cut
<1>2. /\ wire' \in Seq(D!Blocks)
      /\ \E n \in (rpos - 1)..Len(wire) :
           /\ n <= Len(wire') /\ \A i \in 1..n : wire'[i] = wire[i]
           /\ \A i \in DOMAIN wire' : i \in 1..n \/ wire'[i].kind = "Partial"
  BY CutLeaves
<1>3. PICK n \in (rpos - 1)..Len(wire) :
           /\ \A i \in 1..n : wire'[i] = wire[i]
           /\ \A i \in DOMAIN wire' : i \in 1..n \/ wire'[i].kind = "Partial"
  BY <1>2
<1>4. \A i \in 1..n : i \in DOMAIN wire
  BY <1>1
<1>5. HeadersKept
  BY <1>3, <1>4 DEF HeadersKept, StreamKinds
<1> QED BY <1>1, <1>2, <1>5, KeptAscends

\* A call of the Writer adds a header with the number of the next handle.
LEMMA WriterAscends ==
  ASSUME FeedInv, Ascending, WriterStep
  PROVE  Ascending'
<1>0. D!Next /\ D!HandlesInv /\ D!TypeOK
  BY SameNext DEF WriterStep, FeedInv, D!HandlesInv
<1>1. D!HandlesInv' /\ D!HandlesGrow
  BY <1>0, D!HandlesStep, PipeAssumption
<1>2. /\ wire \in Seq(D!Blocks) /\ Len(wire) \in Nat /\ DOMAIN wire = 1..Len(wire)
      /\ Len(handles) \in Nat /\ DOMAIN handles = 1..Len(handles) /\ adds' \in 0..MaxStreams
      /\ Len(handles') \in Nat /\ DOMAIN handles' = 1..Len(handles') /\ MaxStreams \in Nat
  <2>1. MaxStreams \in Nat
    BY PipeAssumption
  <2>2. wire \in Seq(D!Blocks) /\ handles \in Seq(D!Handles)
    BY <1>0 DEF D!TypeOK
  <2>3. handles' \in Seq(D!Handles) /\ adds' \in 0..MaxStreams
    BY <1>1 DEF D!HandlesInv, D!TypeOK
  <2> QED BY <2>1, <2>2, <2>3
<1>3. Len(handles) <= Len(handles') /\ (werr => werr')
  <2>1. DOMAIN handles \subseteq DOMAIN handles'
    BY <1>1 DEF D!HandlesGrow, D!Opened
  <2>2. Len(handles) # 0 => Len(handles) \in DOMAIN handles'
    BY <1>2, <2>1
  <2> QED BY <1>1, <1>2, <2>2 DEF D!HandlesGrow
<1>4. PICK t \in Seq(D!Blocks) : D!NextHeaders(t)
  BY <1>0, D!HeadersSentAre, PipeAssumption
<1>5. wire' = wire \o t
  BY <1>4 DEF D!NextHeaders
<1>6. /\ Len(t) \in Nat /\ Len(wire') = Len(wire) + Len(t) /\ DOMAIN wire' = 1..Len(wire')
      /\ \A i \in 1..Len(wire) : wire'[i] = wire[i]
      /\ \A i \in 1..Len(t) : wire'[Len(wire) + i] = t[i]
  BY <1>2, <1>5, D!WireGrows, PipeAssumption
<1>7. ASSUME NEW h \in DOMAIN wire', wire'[h].kind \in StreamKinds
      PROVE  /\ wire'[h].sid \in 1..MaxStreams /\ (~werr' => wire'[h].sid <= Len(handles'))
             /\ \A g \in 1..(h - 1) : wire'[g].kind \in StreamKinds => wire'[g].sid < wire'[h].sid
  <2>1. CASE h \in 1..Len(wire)
    <3>1. h \in DOMAIN wire /\ wire'[h] = wire[h] /\ \A g \in 1..(h - 1) : wire'[g] = wire[g]
      BY <1>2, <1>6, <2>1
    <3> QED BY <1>2, <1>3, <1>7, <3>1 DEF Ascending
  <2>2. CASE h \notin 1..Len(wire)
    <3>1. PICK k : k = h - Len(wire)
      OBVIOUS
    <3>2. k \in 1..Len(t) /\ wire'[h] = t[k]
      BY <1>2, <1>6, <2>2, <3>1
    <3>0. D!HeaderAlone(t)
      BY <1>4, <1>7, <3>2 DEF D!NextHeaders, D!StreamKinds, StreamKinds
    <3>3. k = 1 /\ h = Len(wire) + 1
      <4>1. k \in 1..1
        BY <3>0, <3>2 DEF D!HeaderAlone
      <4>2. Len(wire) \in Nat /\ h \in Nat
        BY <1>2, <1>6
      <4> QED BY <3>1, <4>1, <4>2
    <3>4. /\ wire'[h].sid = Len(handles) + 1 /\ ~werr /\ Len(handles) < adds'
          /\ (~werr' => Len(handles') = Len(handles) + 1)
      BY <3>0, <3>2, <3>3 DEF D!HeaderAlone
    <3>5. \A g \in 1..(h - 1) : g \in DOMAIN wire /\ wire'[g] = wire[g]
      BY <1>2, <1>6, <3>3
    <3>6. wire'[h].sid \in 1..MaxStreams /\ (~werr' => wire'[h].sid <= Len(handles'))
      <4>1. Len(handles) < adds' /\ adds' \in 0..MaxStreams /\ Len(handles) \in Nat /\ MaxStreams \in Nat
        BY <1>2, <3>4
      <4>2. Len(handles) + 1 \in 1..MaxStreams
        BY <4>1
      <4>3. ASSUME ~werr' PROVE Len(handles) + 1 <= Len(handles')
        BY <4>1, <3>4, <4>3
      <4> QED BY <3>4, <4>2, <4>3
    <3>7. ASSUME NEW g \in 1..(h - 1), wire'[g].kind \in StreamKinds PROVE wire'[g].sid < wire'[h].sid
      <4>1. g \in DOMAIN wire /\ wire'[g] = wire[g] /\ wire[g].kind \in StreamKinds
        BY <3>5, <3>7
      <4>2. PICK n : n = wire[g].sid
        OBVIOUS
      <4>3. n \in 1..MaxStreams /\ n <= Len(handles)
        BY <3>4, <4>1, <4>2 DEF Ascending
      <4>4. n < Len(handles) + 1
        BY <1>2, <4>3
      <4> QED BY <3>4, <4>1, <4>2, <4>4
    <3> QED BY <3>6, <3>7
  <2> QED BY <2>1, <2>2
<1> QED BY <1>7 DEF Ascending

----------------------------------------------------------------------------
(* What the Reader's calls make of the Stream in the caller's hands.        *)

\* What one block carried, if it carried anything.
Piece(body) == body = <<>> \/ \E p \in D!Payloads : BlockSound(Datablock(p)) /\ body = p.body

\* Of the last stream something was received, or its end; it stays in hand.
Gains(body, e) ==
  /\ body \in Seq(Chunks \cup {Bad}) /\ Piece(body)
  /\ \E new : LastIs(new) /\ More(got[Len(got)], body, e, new)
SameInHand == cur'.sid = cur.sid /\ cur'.kind = cur.kind

\* Stream.Read reads on, returns with data, or ends the stream.
ReadGoesOn == UNCHANGED <<got, rpc, ret, rerr>> /\ cur'.done = cur.done
ReadGives ==
  \E body : Gains(body, "open") /\ R!Return("read", "nil") /\ rerr' = rerr /\ cur'.done = cur.done
ReadEndsWith(body, r) ==
  /\ Gains(body, r) /\ (body # <<>> => r = "EOF") /\ R!Return("read", r)
  /\ cur'.done = (cur.done \/ r = "EOF")
  /\ r = "EOF" => rerr' = rerr \/ (rerr' = "EOF" /\ R!Drained)
ReadEnds == \E body, r : r \in Errors \ {"nil"} /\ ReadEndsWith(body, r)

\* streamReader.Read returns an error, through sio if the stream is encrypted.
LEMMA SourceYields ==
  ASSUME Reading, got # <<>>, NEW old, old = got[Len(got)], cur.kind = "enc" => SealedInHand(cur, old),
         NEW c \in Streams, c.sid = cur.sid, c.kind = cur.kind, c.pend = cur.pend, c.done = cur.done,
         NEW e \in Errors \ {"nil"}, R!SourceReturns(c, e),
         e = "EOF" => rerr' = rerr \/ (rerr' = "EOF" /\ R!Drained)
  PROVE  ReadEnds /\ SameInHand
<1>1. got \in Seq(Entries)
  BY DEF Reading, ReceiveInv, ReaderTypes
<1>2. PICK o : o = (c.pend # <<>> /\ R!Opens(c.pend[1], TRUE))
  OBVIOUS
<1>3. PICK r : r = IF c.kind = "enc" /\ e = "EOF" /\ ~o THEN "NotAuthentic" ELSE e
  OBVIOUS
<1>4. PICK body : body = IF c.kind = "enc" /\ e = "EOF" /\ o THEN c.pend[1].body ELSE <<>>
  OBVIOUS
<1>5. /\ cur' = [c EXCEPT !.dead = IF c.kind = "enc" THEN r ELSE @, !.done = (@ \/ r = "EOF")]
      /\ got' = [R!Received(body) EXCEPT ![Len(got)].end = IF @ = "open" THEN r ELSE @]
      /\ R!Return("read", r)
  BY <1>2, <1>3, <1>4 DEF R!SourceReturns
<1>6. r \in Errors /\ r # "nil" /\ r \in Ends /\ (r = "EOF" => e = "EOF")
  BY <1>3 DEF Errors, Ends
<1>7. body # <<>> => c.kind = "enc" /\ e = "EOF" /\ o /\ body = c.pend[1].body
  BY <1>4, Zenon
<1>8. body # <<>> => r = "EOF"
  BY <1>3, <1>7, Zenon
<1>9. c.pend # <<>> => 1 \in 1..Len(c.pend) /\ c.pend[1] \in D!Payloads /\ c.pend[1].body \in Seq(Chunks \cup {Bad})
  <2>1. c.pend \in Seq(D!Payloads)
    BY DEF Streams
  <2>2. c.pend # <<>> => 1 \in 1..Len(c.pend) /\ c.pend[1] \in D!Payloads
    BY <2>1
  <2> QED BY <2>2 DEF D!Payloads
<1>10. body \in Seq(Chunks \cup {Bad}) /\ Piece(body)
  <2>1. CASE body = <<>>
    BY <2>1 DEF Piece
  <2>2. CASE body # <<>>
    <3>1. c.pend # <<>> /\ body = c.pend[1].body
      BY <1>2, <1>7, <2>2, Zenon
    <3>2. BlockSound(Datablock(c.pend[1]))
      BY <1>7, <1>9, <2>2, <3>1 DEF SealedInHand
    <3> QED BY <1>9, <3>1, <3>2 DEF Piece
  <2> QED BY <2>1, <2>2
<1>11. \E new : LastIs(new) /\ More(old, body, r, new)
  BY <1>1, <1>5, <1>6, <1>10, EntryChanges
<1>12. Gains(body, r)
  BY <1>10, <1>11 DEF Gains
<1>13. cur'.done = (cur.done \/ r = "EOF") /\ SameInHand
  <2>1. PICK x \in BOOLEAN : x = (c.done \/ r = "EOF")
    BY DEF Streams
  <2>2. PICK y : y = IF c.kind = "enc" THEN r ELSE c.dead
    OBVIOUS
  <2>3. cur' = [c EXCEPT !.dead = y, !.done = x]
    BY <1>5, <2>1, <2>2
  <2>4. cur'.done = x /\ cur'.sid = c.sid /\ cur'.kind = c.kind
    BY <2>3 DEF Streams
  <2> QED BY <2>1, <2>4 DEF SameInHand
<1>14. ReadEndsWith(body, r)
  BY <1>5, <1>6, <1>8, <1>12, <1>13 DEF ReadEndsWith
<1> QED BY <1>6, <1>13, <1>14 DEF ReadEnds

\* The loop of Stream.Read with an error that it finds.
LEMMA ReadingFails ==
  ASSUME Reading, rpc = "read", NEW c, c = cur \/ c = [cur EXCEPT !.isEOF = TRUE],
         NEW e \in Errors \ {"nil"}, R!SourceReturns(c, e),
         e = "EOF" => rerr' = rerr \/ (rerr' = "EOF" /\ R!Drained)
  PROVE  ReadEnds /\ SameInHand
<1>1. PICK old : old = got[Len(got)]
  OBVIOUS
<1>2. got # <<>> /\ (cur.kind = "enc" => SealedInHand(cur, old)) /\ cur \in Streams
  BY <1>1, BeingRead DEF ReaderTypes
<1>3. c \in Streams /\ c.sid = cur.sid /\ c.kind = cur.kind /\ c.pend = cur.pend /\ c.done = cur.done
  BY <1>2 DEF Streams
<1> QED BY <1>1, <1>2, <1>3, SourceYields

\* A block of data, which sio holds back until the next.
LEMMA DataYields ==
  ASSUME Reading, rpc = "read", rpos \in 1..Len(wire), wire[rpos].kind = "Datablock",
         NEW p, p = wire[rpos].payload, R!ReadData(p)
  PROVE  (ReadGoesOn \/ ReadGives \/ ReadEnds) /\ SameInHand
<1>1. PICK old : old = got[Len(got)]
  OBVIOUS
<1>2. /\ got # <<>> /\ (cur.kind = "enc" => SealedInHand(cur, old)) /\ cur \in Streams /\ got \in Seq(Entries)
      /\ cur.kind \in {"plain", "enc"}
  BY <1>1, BeingRead DEF ReaderTypes
<1>3. p \in D!Payloads /\ BlockSound(Datablock(p))
  <2>1. wire \in Seq(D!Blocks) /\ \A b \in Range(wire) : BlockSound(b)
    BY DEF Reading, FeedInv, D!HandlesInv, D!TypeOK
  <2>2. wire[rpos] \in D!Blocks /\ wire[rpos] \in Range(wire)
    BY <2>1 DEF Range
  <2>3. wire[rpos] \in [kind : {"Datablock"}, payload : D!Payloads]
    BY <2>2 DEF D!Blocks, D!VersionBlock, D!EOFBlock, D!ErrorBlock, D!Skippable
  <2>4. wire[rpos] = Datablock(p)
    BY <2>3 DEF Datablock
  <2> QED BY <2>1, <2>2, <2>3, <2>4
<1>4. PICK q \in Seq(D!Payloads) : q = Append(cur.h, p)
  BY <1>2, <1>3, HashGrows
<1>5. PICK c : c = [cur EXCEPT !.h = q]
  OBVIOUS
<1>6. /\ c \in Streams /\ c.sid = cur.sid /\ c.kind = cur.kind /\ c.pend = cur.pend /\ c.done = cur.done
  BY <1>2, <1>5 DEF Streams
<1>7. /\ UNCHANGED <<rerr, inStream>>
      /\ \/ cur' = c /\ got' = R!Received(p.body) /\ R!Return("read", "nil")
         \/ cur' = [c EXCEPT !.pend = <<p>>] /\ UNCHANGED <<rpc, ret, got>>
         \/ /\ cur.kind = "enc" /\ cur.pend # <<>> /\ cur' = [c EXCEPT !.pend = <<p>>, !.frag = @ + 1]
            /\ got' = R!Received(cur.pend[1].body) /\ R!Return("read", "nil")
         \/ /\ cur' = [c EXCEPT !.dead = "NotAuthentic"]
            /\ got' = R!Ended("NotAuthentic") /\ R!Return("read", "NotAuthentic")
  BY <1>2, <1>4, <1>5 DEF R!ReadData, R!Proceed
<1>8. cur'.sid = c.sid /\ cur'.kind = c.kind /\ cur'.done = c.done
  BY <1>6, <1>7 DEF Streams
<1>9. SameInHand /\ cur'.done = cur.done
  BY <1>6, <1>8 DEF SameInHand
<1>10. ASSUME NEW o \in D!Payloads, BlockSound(Datablock(o)), got' = R!Received(o.body), R!Return("read", "nil")
       PROVE  ReadGives
  <2>1. PICK body : body = o.body
    OBVIOUS
  <2>2. body \in Seq(Chunks \cup {Bad}) /\ Piece(body) /\ "open" \in Ends
    BY <1>10, <2>1 DEF Piece, D!Payloads, Ends
  <2>3. \E new : LastIs(new) /\ More(old, body, "open", new)
    BY <1>1, <1>2, <1>10, <2>1, <2>2, EntryChanges
  <2>4. Gains(body, "open")
    BY <1>1, <2>2, <2>3 DEF Gains
  <2> QED BY <1>7, <1>9, <1>10, <2>4 DEF ReadGives
<1>11. CASE cur' = c /\ got' = R!Received(p.body) /\ R!Return("read", "nil")
  BY <1>3, <1>9, <1>10, <1>11
<1>12. CASE cur' = [c EXCEPT !.pend = <<p>>] /\ UNCHANGED <<rpc, ret, got>>
  BY <1>7, <1>9, <1>12 DEF ReadGoesOn
<1>13. CASE cur.kind = "enc" /\ cur.pend # <<>> /\ got' = R!Received(cur.pend[1].body) /\ R!Return("read", "nil")
  <2>1. 1 \in 1..Len(cur.pend) /\ cur.pend[1] \in D!Payloads
    <3>1. cur.pend \in Seq(D!Payloads)
      BY <1>2 DEF Streams
    <3> QED BY <1>13, <3>1
  <2>2. BlockSound(Datablock(cur.pend[1]))
    BY <1>2, <1>13, <2>1 DEF SealedInHand
  <2> QED BY <1>9, <1>10, <1>13, <2>1, <2>2
<1>14. CASE got' = R!Ended("NotAuthentic") /\ R!Return("read", "NotAuthentic")
  <2>1. "NotAuthentic" \in Ends /\ "NotAuthentic" \in Errors \ {"nil"} /\ <<>> \in Seq(Chunks \cup {Bad}) /\ Piece(<<>>)
    BY DEF Ends, Errors, Piece
  <2>2. \E new : LastIs(new) /\ More(old, <<>>, "NotAuthentic", new)
    BY <1>1, <1>2, <1>14, <2>1, EntryChanges
  <2>3. Gains(<<>>, "NotAuthentic")
    BY <1>1, <2>1, <2>2 DEF Gains
  <2>4. cur'.done = (cur.done \/ "NotAuthentic" = "EOF")
    BY <1>2, <1>9 DEF Streams
  <2>5. ReadEndsWith(<<>>, "NotAuthentic")
    BY <1>14, <2>3, <2>4 DEF ReadEndsWith
  <2> QED BY <1>9, <2>1, <2>5 DEF ReadEnds
<1> QED BY <1>7, <1>11, <1>12, <1>13, <1>14

RErrors == {"nil", "EOF", "Unexpected", "Checksum", "Message", "NoPrivate", "BlockType"}

\* Stream.Read, until it returns.
LEMMA ReadYields ==
  ASSUME Reading, R!ReadBlock \/ R!ReadAtEnd
  PROVE  /\ ReadGoesOn \/ ReadGives \/ ReadEnds
         /\ SameInHand /\ rerr' \in RErrors /\ inStream' \in {inStream, FALSE}
         /\ UNCHANGED <<rkey, src, opt>>
<1>0. rpc = "read" /\ UNCHANGED <<rkey, src, opt>>
  BY DEF R!ReadBlock, R!ReadAtEnd
<1>1. rerr = "nil" /\ cur \in Streams /\ wire \in Seq(D!Blocks) /\ rpos \in 1..(Len(wire) + 1)
  BY <1>0, BeingRead DEF ReaderTypes, Reading, FeedInv, D!HandlesInv, D!TypeOK
<1>2. ASSUME R!ReadAtEnd
      PROVE  (ReadGoesOn \/ ReadGives \/ ReadEnds) /\ SameInHand /\ rerr' \in RErrors /\ inStream' = inStream
  <2>1. PICK e \in R!AtEnd("read") : rerr' = R!Kept(e) /\ R!SourceReturns(cur, rerr')
    BY <1>2 DEF R!ReadAtEnd
  <2>2. R!Drained /\ inStream' = inStream /\ e \in {"EOF", "Unexpected"}
    BY <1>2, AtEndIs DEF R!ReadAtEnd
  <2>3. rerr' = e /\ R!SourceReturns(cur, e)
    BY <1>1, <2>1 DEF R!Kept
  <2>4. e \in Errors \ {"nil"} /\ e \in RErrors
    BY <2>2 DEF Errors, RErrors
  <2>5. ReadEnds /\ SameInHand
    BY <1>0, <2>2, <2>3, <2>4, ReadingFails
  <2> QED BY <2>2, <2>3, <2>4, <2>5
<1>3. ASSUME R!ReadBlock
      PROVE  (ReadGoesOn \/ ReadGives \/ ReadEnds) /\ SameInHand /\ rerr' \in RErrors /\ inStream' \in {inStream, FALSE}
  <2>1. PICK b : b = wire[rpos]
    OBVIOUS
  <2>2. rpos \in 1..Len(wire)
    BY <1>1, <1>3 DEF R!ReadBlock, R!HasBlock
  <2>3. ASSUME NEW c, c = cur \/ c = [cur EXCEPT !.isEOF = TRUE], NEW e \in RErrors \ {"nil"}, R!SourceReturns(c, e),
               rerr' = rerr \/ rerr' = e, e = "EOF" => rerr' = rerr, inStream' \in {inStream, FALSE}
        PROVE  (ReadGoesOn \/ ReadGives \/ ReadEnds) /\ SameInHand /\ rerr' \in RErrors /\ inStream' \in {inStream, FALSE}
    <3>1. e \in Errors \ {"nil"}
      BY DEF RErrors, Errors
    <3>2. ReadEnds /\ SameInHand
      BY <1>0, <2>3, <3>1, ReadingFails
    <3>3. rerr' \in RErrors
      BY <1>1, <2>3 DEF RErrors
    <3> QED BY <2>3, <3>2, <3>3
  <2>4. CASE b.kind = "Datablock" /\ R!ReadData(b.payload)
    <3>1. (ReadGoesOn \/ ReadGives \/ ReadEnds) /\ SameInHand
      BY <1>0, <2>1, <2>2, <2>4, DataYields
    <3>2. rerr' = rerr /\ inStream' = inStream
      BY <2>4 DEF R!ReadData
    <3> QED BY <1>1, <3>1, <3>2 DEF RErrors
  <2>5. CASE b.kind = "EOS" /\ R!ReadEOS(b)
    <3>1. CASE b.sum = cur.h
      <4>1. PICK c : c = [cur EXCEPT !.isEOF = TRUE]
        OBVIOUS
      <4>2. inStream' = FALSE /\ rerr' = rerr /\ R!SourceReturns(c, "EOF") /\ "EOF" \in RErrors \ {"nil"}
        BY <2>5, <3>1, <4>1 DEF R!ReadEOS, R!SumMatches, RErrors
      <4> QED BY <2>3, <4>1, <4>2
    <3>2. CASE b.sum # cur.h
      <4>1. rerr' = "Checksum" /\ R!SourceReturns(cur, "Checksum") /\ inStream' = inStream /\ "Checksum" \in RErrors \ {"nil"}
        BY <1>1, <2>5, <3>2 DEF R!ReadEOS, R!SumMatches, R!Kept, RErrors
      <4>2. PICK c : c = cur
        OBVIOUS
      <4> QED BY <2>3, <4>1, <4>2
    <3> QED BY <3>1, <3>2
  <2>6. CASE \E e \in {"Message", "BlockType"} :
               R!SourceReturns(cur, e) /\ (rerr' = rerr \/ rerr' = e) /\ inStream' = inStream
    <3>1. PICK e \in {"Message", "BlockType"} :
               R!SourceReturns(cur, e) /\ (rerr' = rerr \/ rerr' = e) /\ inStream' = inStream
      BY <2>6
    <3>2. PICK c : c = cur
      OBVIOUS
    <3>3. e \in RErrors \ {"nil"} /\ e # "EOF" /\ R!SourceReturns(c, e)
      BY <3>1, <3>2 DEF RErrors
    <3> QED BY <2>3, <3>1, <3>2, <3>3
  <2>7. CASE UNCHANGED <<rerr, inStream, cur, got, rpc, ret>>
    BY <1>1, <2>7 DEF ReadGoesOn, SameInHand, RErrors
  <2>8. R!Kept("Message") = "Message"
    BY <1>1 DEF R!Kept
  <2>9. \/ b.kind = "Datablock" /\ R!ReadData(b.payload)
        \/ b.kind = "EOS" /\ R!ReadEOS(b)
        \/ \E e \in {"Message", "BlockType"} :
               R!SourceReturns(cur, e) /\ (rerr' = rerr \/ rerr' = e) /\ inStream' = inStream
        \/ UNCHANGED <<rerr, inStream, cur, got, rpc, ret>>
    BY <1>3, <2>1, <2>8 DEF R!ReadBlock, R!Block
  <2> QED BY <2>4, <2>5, <2>6, <2>7, <2>9
<1> QED BY <1>0, <1>2, <1>3
----------------------------------------------------------------------------
(* The fields of the Reader.                                                *)

\* A call of NextStream goes on only outside a stream, and only a Stream that
\* can be read is one the Reader is in.
Fields ==
  /\ rerr \in RErrors /\ rkey \in 0..MaxKeys /\ src \in R!Sources /\ opt \in R!Options
  /\ rpc \in {"new", "failed", "idle", "next", "pass", "skip", "read"}
  /\ rpc \in {"next", "pass"} => ~inStream
  /\ inStream => cur.kind \in {"plain", "enc"}
  /\ cur.kind = "none" => cur.sid = 0 /\ got = <<>>

\* A step that leaves the keys and options, and the Stream in hand but for its state.
LEMMA FieldsStay ==
  ASSUME Fields, UNCHANGED <<rkey, src, opt>>, rerr' \in RErrors, inStream' => inStream,
         cur'.sid = cur.sid /\ cur'.kind = cur.kind, cur.kind = "none" => got' = got,
         \/ rpc' \in {"new", "failed", "idle", "skip", "read"} \/ rpc' = rpc
         \/ rpc' \in {"next", "pass"} /\ ~inStream'
  PROVE  Fields'
BY DEF Fields

LEMMA SettersFields ==
  ASSUME Fields, R!Setters
  PROVE  Fields'
<1>1. UNCHANGED <<rerr, inStream, rkey, rpc, cur, got>>
  BY DEF R!Setters, R!SetPrivateKey, R!PrivateKeyProvider, R!SkipEncrypted, R!ReturnNonDecryptable, R!Configure
<1>2. src' \in R!Sources /\ opt' \in R!Options
  <2>1. ASSUME NEW b \in BOOLEAN PROVE [opt EXCEPT !.skip = b] \in R!Options /\ [opt EXCEPT !.nondec = b] \in R!Options
    BY DEF Fields, R!Options
  <2>2. CASE \E p \in PubKeys : R!SetPrivateKey(p)
    BY <2>2 DEF R!SetPrivateKey, R!Configure, R!Sources, Fields
  <2>3. CASE \E ks \in SUBSET PubKeys : R!PrivateKeyProvider(ks)
    BY <2>3 DEF R!PrivateKeyProvider, R!Configure, R!Sources, Fields
  <2>4. CASE \E b \in BOOLEAN : R!SkipEncrypted(b) \/ R!ReturnNonDecryptable(b)
    BY <2>1, <2>4 DEF R!SkipEncrypted, R!ReturnNonDecryptable, R!Configure, Fields
  <2> QED BY <2>2, <2>3, <2>4 DEF R!Setters
<1> QED BY <1>1, <1>2 DEF Fields

\* The first step of a call, and the end of one that reads no Stream.
LEMMA CallsFields ==
  ASSUME Reading, Fields, R!NextStream \/ R!NewReader \/ R!NextAtEnd \/ R!Skip
  PROVE  Fields'
<1>1. UNCHANGED <<inStream, rkey, src, opt, got>> /\ (R!Skip \/ cur' = cur)
  BY DEF R!NextStream, R!NewReader, R!NextAtEnd, R!Skip
<1>2. CASE R!NextAtEnd
  <2>1. PICK e \in {"EOF", "Unexpected"} : rerr' = R!Kept(e) /\ rpc' = "idle"
    BY <1>2, AtEndIs DEF R!NextAtEnd, R!Return
  <2>2. rerr' \in RErrors
    BY <2>1 DEF R!Kept, Fields, RErrors
  <2> QED BY <1>1, <2>1, <2>2, FieldsStay, <1>2 DEF R!NextAtEnd
<1>3. CASE R!NextStream
  <2>1. rerr' = rerr /\ cur' = cur /\ (rpc' = "idle" \/ (rpc' = "next" /\ ~inStream))
    BY <1>3 DEF R!NextStream, R!Return
  <2> QED BY <1>1, <2>1 DEF Fields
<1>4. CASE R!NewReader
  <2>1. rerr' = rerr /\ cur' = cur /\ rpc' \in {"idle", "failed"}
    BY <1>4 DEF R!NewReader, R!Return
  <2> QED BY <1>1, <2>1 DEF Fields
<1>5. CASE R!Skip
  <2>1. rerr' = rerr /\ rpc' = "skip" /\ cur.kind # "none" /\ cur' = [cur EXCEPT !.isEOF = (@ \/ cur.kind = "plain")]
    BY <1>5 DEF R!Skip
  <2>2. cur'.sid = cur.sid /\ cur'.kind = cur.kind
    <3>1. PICK x : cur' = [cur EXCEPT !.isEOF = x]
      BY <2>1
    <3> QED BY <3>1 DEF Reading, ReceiveInv, ReaderTypes, Streams
  <2> QED BY <1>1, <2>1, <2>2 DEF Fields
<1> QED BY <1>2, <1>3, <1>4, <1>5

\* skipDataBlocks.
LEMMA SkipFields ==
  ASSUME Reading, Fields, R!SkipBlock \/ R!SkipAtEnd
  PROVE  Fields'
<1>1. /\ rpc \in {"skip", "pass"} /\ UNCHANGED <<rkey, src, opt>> /\ cur \in Streams
      /\ rpc = "skip" => cur.kind # "none"
      /\ rpc = "pass" => ~inStream
  BY DEF R!SkipBlock, R!SkipAtEnd, Reading, ReceiveInv, ReaderTypes, Fields
<1>2. ASSUME NEW e \in {"nil", "Message", "BlockType", "EOF", "Unexpected"}, R!SkipReturns(e), inStream' => inStream
      PROVE  Fields'
  <2>1. CASE rpc = "pass"
    <3>1. /\ UNCHANGED <<cur, got>>
          /\ (rpc' = "next" /\ rerr' = rerr) \/ (rpc' = "idle" /\ rerr' = R!Kept(e) /\ e # "nil")
      BY <1>2, <2>1 DEF R!SkipReturns, R!Return
    <3>2. rerr' \in RErrors
      BY <3>1 DEF R!Kept, Fields, RErrors
    <3> QED BY <1>1, <1>2, <2>1, <3>1, <3>2, FieldsStay
  <2>2. CASE rpc = "skip"
    <3>1. rpc' = "idle" /\ rerr' = rerr /\ cur' = [cur EXCEPT !.done = (@ \/ e = "nil")]
      BY <1>2, <2>2 DEF R!SkipReturns, R!Return
    <3>2. cur'.sid = cur.sid /\ cur'.kind = cur.kind
      <4>1. PICK x : cur' = [cur EXCEPT !.done = x]
        BY <3>1
      <4> QED BY <1>1, <4>1 DEF Streams
    <3>3. rerr' \in RErrors /\ cur.kind # "none"
      BY <1>1, <2>2, <3>1 DEF Fields
    <3> QED BY <1>1, <1>2, <3>1, <3>2, <3>3, FieldsStay
  <2> QED BY <1>1, <2>1, <2>2
<1>3. CASE R!SkipAtEnd
  BY <1>2, <1>3, AtEndIs DEF R!SkipAtEnd
<1>4. CASE R!SkipBlock
  <2>1. CASE UNCHANGED <<rpc, rerr, cur, got, inStream>>
    BY <1>1, <2>1 DEF Fields
  <2>2. CASE \E e \in {"nil", "Message", "BlockType"} : R!SkipReturns(e) /\ (inStream' => inStream)
    BY <1>2, <2>2
  <2>3. \/ UNCHANGED <<rpc, rerr, cur, got, inStream>>
        \/ \E e \in {"nil", "Message", "BlockType"} : R!SkipReturns(e) /\ (inStream' => inStream)
    BY <1>4 DEF R!SkipBlock
  <2> QED BY <2>1, <2>2, <2>3
<1> QED BY <1>3, <1>4

\* Stream.Read.
LEMMA ReadFields ==
  ASSUME Reading, Fields, R!Read \/ R!ReadBlock \/ R!ReadAtEnd
  PROVE  Fields'
<1>1. CASE R!ReadBlock \/ R!ReadAtEnd
  <2>1. /\ SameInHand /\ rerr' \in RErrors /\ inStream' \in {inStream, FALSE} /\ UNCHANGED <<rkey, src, opt>>
        /\ ReadGoesOn \/ ReadGives \/ ReadEnds
    BY <1>1, ReadYields
  <2>2. rpc' = rpc \/ rpc' = "idle"
    BY <2>1 DEF ReadGoesOn, ReadGives, ReadEnds, ReadEndsWith, R!Return
  <2>3. rpc = "read" /\ cur.kind \in {"plain", "enc"}
    BY <1>1 DEF R!ReadBlock, R!ReadAtEnd, Reading, ReceiveInv
  <2>4. inStream' => inStream
    BY <2>1, Zenon
  <2> QED BY <2>1, <2>2, <2>3, <2>4, FieldsStay DEF SameInHand
<1>2. CASE R!Read
  <2>1. cur.kind \in {"plain", "enc"} /\ UNCHANGED <<rerr, inStream, rkey, src, opt>> /\ rpc' \in {"idle", "read"}
    BY <1>2 DEF R!Read, R!Return, R!SourceReturns
  <2>2. cur'.sid = cur.sid /\ cur'.kind = cur.kind
    <3>1. CASE R!SourceReturns(cur, rerr)
      <4>1. {"sid", "kind", "key"} \subseteq DOMAIN cur
        BY DEF Reading, ReceiveInv, ReaderTypes, Streams
      <4> QED BY <3>1, <4>1, SourceKeepsStream
    <3> QED BY <1>2, <3>1 DEF R!Read
  <2> QED BY <2>1, <2>2 DEF Fields
<1> QED BY <1>1, <1>2

\* NextStream, at the next block.
LEMMA NextBlockFields ==
  ASSUME Reading, Fields, R!NextBlock
  PROVE  Fields'
<1>1. /\ rpc = "next" /\ ~inStream /\ UNCHANGED <<src, opt>> /\ wire \in Seq(D!Blocks) /\ rpos \in 1..Len(wire)
  BY DEF R!NextBlock, R!HasBlock, Fields, Reading, ReceiveInv, ReaderTypes, FeedInv, D!HandlesInv, D!TypeOK
<1>2. PICK b : b = wire[rpos]
  OBVIOUS
<1>3. b \in D!Blocks
  BY <1>1, <1>2
<1>4. b.kind \in {"PlainKey", "EncryptedKey"} => b.key \in 1..MaxKeys
  BY <1>3 DEF D!Blocks, D!VersionBlock, D!EOFBlock, D!ErrorBlock, D!Skippable
<1>5. 0 \in 0..MaxKeys /\ 1..MaxKeys \subseteq 0..MaxKeys
  BY PipeAssumption
<1>6. CASE /\ UNCHANGED <<inStream, cur, got>> /\ rkey' \in {rkey, 0} \cup 1..MaxKeys
           /\ rerr' \in {rerr, R!Kept("NoPrivate"), R!Kept("Message")} /\ rpc' \in {"next", "pass", "idle"}
  <2>1. rerr' \in RErrors
    BY <1>6 DEF R!Kept, Fields, RErrors
  <2> QED BY <1>1, <1>5, <1>6, <2>1 DEF Fields
<1>7. ASSUME NEW kind \in {"plain", "enc", "nokey"}, NEW e, R!Deliver(b, kind, e), UNCHANGED <<rerr, rkey>>
      PROVE  Fields'
  <2>1. cur'.kind = kind
    <3>1. PICK k : cur' = R!StreamOf(b, kind, k)
      BY <1>7 DEF R!Deliver
    <3> QED BY <3>1 DEF R!StreamOf, R!NoStream
  <2>2. inStream' = (inStream \/ kind # "nokey") /\ rpc' = "idle"
    BY <1>7 DEF R!Deliver, R!HasReader, R!Return
  <2>3. inStream' => kind # "nokey"
    BY <1>1, <2>2
  <2> QED BY <1>1, <1>7, <2>1, <2>2, <2>3 DEF Fields
<1>8. CASE b.kind = "EncryptedKey" /\ R!NextEncryptedKey(b) /\ UNCHANGED <<inStream, cur, got>>
  <2>1. /\ rkey' \in {rkey, 0, b.key} /\ rerr' \in {rerr, R!Kept("NoPrivate")} /\ rpc' \in {"next", "idle"}
    BY <1>1, <1>8 DEF R!NextEncryptedKey, R!Return, R!Proceed, R!NoKey
  <2> QED BY <1>4, <1>6, <1>8, <2>1
<1>9. CASE b.kind = "PlainKey" /\ rkey' = b.key /\ UNCHANGED <<rpc, rerr, inStream, cur, got>>
  BY <1>1, <1>4, <1>6, <1>9
<1>10. CASE \E kind \in {"plain", "enc", "nokey"}, e \in {"nil", "ErrNoKey"} : R!Deliver(b, kind, e) /\ UNCHANGED <<rerr, rkey>>
  BY <1>7, <1>10
<1>11. CASE /\ UNCHANGED <<inStream, cur, got, rkey>> /\ rerr' \in {rerr, R!Kept("Message")}
            /\ rpc' \in {"next", "pass", "idle"}
  BY <1>6, <1>11
<1>12. \/ b.kind = "EncryptedKey" /\ R!NextEncryptedKey(b) /\ UNCHANGED <<inStream, cur, got>>
       \/ b.kind = "PlainKey" /\ rkey' = b.key /\ UNCHANGED <<rpc, rerr, inStream, cur, got>>
       \/ \E kind \in {"plain", "enc", "nokey"}, e \in {"nil", "ErrNoKey"} : R!Deliver(b, kind, e) /\ UNCHANGED <<rerr, rkey>>
       \/ /\ UNCHANGED <<inStream, cur, got, rkey>> /\ rerr' \in {rerr, R!Kept("Message")}
          /\ rpc' \in {"next", "pass", "idle"}
  BY <1>1, <1>2 DEF R!NextBlock, R!Block, R!PlainKeyRead, R!Proceed, R!Return
<1> QED BY <1>8, <1>9, <1>10, <1>11, <1>12
----------------------------------------------------------------------------
(* The streams are received in the order of their numbers.                  *)

Delivers ==
  /\ rpos \in 1..Len(wire) /\ rpos' = rpos + 1 /\ wire[rpos].kind \in StreamKinds
  /\ \E kind, e : R!Deliver(wire[rpos], kind, e)
GainsMore == got # <<>> /\ \E body, e : Gains(body, e)

\* What skipDataBlocks leaves of a stream.
LEMMA SkipGains ==
  ASSUME Reading, rpc = "skip", NEW e \in Errors, R!SkipReturns(e)
  PROVE  /\ got # <<>> /\ Gains(<<>>, R!EndOf(e)) /\ SameInHand
         /\ R!Return("skip", e) /\ rerr' = rerr /\ cur'.done = (cur.done \/ e = "nil")
<1>1. /\ cur' = [cur EXCEPT !.done = (@ \/ e = "nil")] /\ got' = R!Ended(R!EndOf(e))
      /\ R!Return("skip", e) /\ rerr' = rerr /\ cur.kind # "none"
  BY DEF R!SkipReturns, Reading, ReceiveInv
<1>2. got # <<>> /\ got \in Seq(Entries) /\ cur \in Streams
  BY <1>1 DEF Reading, ReceiveInv, ReaderTypes
<1>3. R!EndOf(e) \in Ends /\ <<>> \in Seq(Chunks \cup {Bad}) /\ Piece(<<>>)
  BY DEF R!EndOf, Ends, Piece
<1>4. \E new : LastIs(new) /\ More(got[Len(got)], <<>>, R!EndOf(e), new)
  BY <1>1, <1>2, <1>3, EntryChanges
<1>5. PICK x \in BOOLEAN : x = (cur.done \/ e = "nil")
  BY <1>2 DEF Streams
<1>6. cur' = [cur EXCEPT !.done = x]
  BY <1>1, <1>5
<1>7. cur'.done = x /\ cur'.sid = cur.sid /\ cur'.kind = cur.kind
  BY <1>2, <1>6 DEF Streams
<1>8. cur'.done = (cur.done \/ e = "nil") /\ SameInHand
  BY <1>5, <1>7 DEF SameInHand
<1> QED BY <1>1, <1>2, <1>3, <1>4, <1>8 DEF Gains

\* Stream.Read when the Reader has failed or is at its end.
LEMMA ReadAgain ==
  ASSUME Reading, R!Read, R!SourceReturns(cur, rerr), rerr # "nil"
  PROVE  got # <<>> /\ ReadEnds /\ SameInHand
<1>1. PICK old : old = got[Len(got)]
  OBVIOUS
<1>2. /\ got # <<>> /\ (cur.kind = "enc" => SealedInHand(cur, old)) /\ cur \in Streams
      /\ rerr \in Errors \ {"nil"} /\ rerr' = rerr
  BY <1>1 DEF R!Read, Reading, ReceiveInv, ReaderTypes, Holds
<1>3. PICK c \in Streams : c = cur
  BY <1>2
<1>4. PICK e \in Errors \ {"nil"} : e = rerr
  BY <1>2
<1>5. /\ c.sid = cur.sid /\ c.kind = cur.kind /\ c.pend = cur.pend /\ c.done = cur.done
      /\ R!SourceReturns(c, e) /\ (e = "EOF" => rerr' = rerr)
  BY <1>2, <1>3, <1>4
<1> QED BY <1>1, <1>2, <1>5, SourceYields

\* A step of the Reader adds to the last stream received or comes to the next.
LEMMA ReaderGains ==
  ASSUME Reading, R!Next
  PROVE  rpos' \in {rpos, rpos + 1} /\ (got' = got \/ GainsMore \/ Delivers)
<1>1. rpos' \in {rpos, rpos + 1}
  BY DEF R!Next, R!Progress, R!Setters, R!SetPrivateKey, R!PrivateKeyProvider, R!SkipEncrypted,
         R!ReturnNonDecryptable, R!Configure, R!NextStream, R!Read, R!Skip, R!NewReader,
         R!NextBlock, R!NextAtEnd, R!SkipBlock, R!SkipAtEnd, R!ReadBlock, R!ReadAtEnd
<1>2. ReadEnds \/ ReadGives => \E body, e : Gains(body, e)
  BY DEF ReadEnds, ReadGives, ReadEndsWith
<1>3. CASE R!Setters \/ R!NextStream \/ R!NewReader \/ R!NextAtEnd \/ R!Skip
  BY <1>3 DEF R!Setters, R!SetPrivateKey, R!PrivateKeyProvider, R!SkipEncrypted, R!ReturnNonDecryptable,
              R!Configure, R!NextStream, R!Skip, R!NewReader, R!NextAtEnd
<1>4. CASE R!ReadBlock \/ R!ReadAtEnd
  <2>1. got # <<>>
    BY <1>4 DEF R!ReadBlock, R!ReadAtEnd, Reading, ReceiveInv
  <2> QED BY <1>1, <1>2, <1>4, <2>1, ReadYields DEF GainsMore, ReadGoesOn
<1>5. CASE R!Read
  <2>1. CASE rerr # "nil" /\ R!SourceReturns(cur, rerr)
    BY <1>1, <1>2, <1>5, <2>1, ReadAgain DEF GainsMore
  <2> QED BY <1>5, <2>1 DEF R!Read
<1>6. CASE R!SkipBlock \/ R!SkipAtEnd
  <2>1. rpc \in {"skip", "pass"} /\ (got' = got \/ \E e \in Errors : R!SkipReturns(e))
    BY <1>6, AtEndIs DEF R!SkipBlock, R!SkipAtEnd, Errors
  <2>2. CASE rpc = "skip"
    BY <1>1, <2>1, <2>2, SkipGains DEF GainsMore
  <2>3. CASE rpc = "pass"
    BY <1>1, <2>1, <2>3 DEF R!SkipReturns
  <2> QED BY <2>1, <2>2, <2>3
<1>7. CASE R!NextBlock
  <2>1. rpos \in 1..Len(wire) /\ rpos' = rpos + 1
    BY <1>7 DEF R!NextBlock, R!HasBlock, Reading, ReceiveInv, ReaderTypes, FeedInv, D!HandlesInv, D!TypeOK
  <2> QED BY <1>7, <2>1 DEF R!NextBlock, R!Block, Delivers, StreamKinds
<1> QED BY <1>1, <1>3, <1>4, <1>5, <1>6, <1>7 DEF R!Next, R!Progress

\* The last stream received is one whose header was read, and no more streams
\* than its number says were received.
TakenInOrder ==
  got # <<>> =>
    /\ Len(got) <= got[Len(got)].sid
    /\ \E h \in 1..(rpos - 1) : wire[h].kind \in StreamKinds /\ wire[h].sid = got[Len(got)].sid

LEMMA ReaderKeepsOrder ==
  ASSUME Reading, Ascending, TakenInOrder, R!Next
  PROVE  TakenInOrder'
<1>1. /\ wire' = wire /\ wire \in Seq(D!Blocks) /\ got \in Seq(Entries) /\ rpos \in 1..(Len(wire) + 1)
      /\ Len(wire) \in Nat /\ DOMAIN wire = 1..Len(wire) /\ Len(got) \in Nat
  BY DEF Reading, ReceiveInv, ReaderTypes, FeedInv, D!HandlesInv, D!TypeOK
<1>2. rpos' \in {rpos, rpos + 1} /\ (got' = got \/ GainsMore \/ Delivers)
  BY ReaderGains
<1>3. \A h \in 1..(rpos - 1) : h \in 1..(rpos' - 1)
  <2>1. rpos \in Nat \ {0} /\ (rpos' = rpos \/ rpos' = rpos + 1)
    BY <1>1, <1>2
  <2> QED BY <2>1
<1>4. CASE got' = got
  BY <1>1, <1>3, <1>4 DEF TakenInOrder
<1>5. CASE GainsMore
  <2>1. got # <<>> /\ Len(got') = Len(got) /\ got'[Len(got)].sid = got[Len(got)].sid
    BY <1>5 DEF GainsMore, Gains, LastIs, More
  <2> QED BY <1>1, <1>3, <2>1 DEF TakenInOrder
<1>6. CASE Delivers
  <2>1. PICK n : n = wire[rpos].sid
    OBVIOUS
  <2>2. /\ rpos \in 1..Len(wire) /\ rpos' = rpos + 1 /\ wire[rpos].kind \in StreamKinds
        /\ \E kind : got' = Append(got, [sid |-> n, kind |-> kind, data |-> <<>>, end |-> "open"])
    BY <1>6, <2>1 DEF Delivers, R!Deliver
  <2>3. Len(got') = Len(got) + 1 /\ got'[Len(got) + 1].sid = n
    <3>1. PICK g : got' = Append(got, g) /\ g.sid = n
      BY <2>2
    <3> QED BY <1>1, <3>1, AppendProperties
  <2>4. n \in 1..MaxStreams /\ \A g \in 1..(rpos - 1) : wire[g].kind \in StreamKinds => wire[g].sid < n
    BY <1>1, <2>1, <2>2 DEF Ascending
  <2>5. Len(got) + 1 <= n
    <3>1. CASE got = <<>>
      BY <2>4, <3>1
    <3>2. CASE got # <<>>
      <4>1. PICK m : m = got[Len(got)].sid
        OBVIOUS
      <4>2. got[Len(got)] \in Entries
        BY <1>1, <3>2
      <4>3. m \in Nat /\ Len(got) <= m /\ m < n
        BY <2>4, <3>2, <4>1, <4>2 DEF TakenInOrder, Entries
      <4> QED BY <1>1, <2>4, <4>3
    <3> QED BY <3>1, <3>2
  <2>6. rpos \in 1..(rpos' - 1) /\ wire'[rpos].kind \in StreamKinds /\ wire'[rpos].sid = n
    BY <1>1, <2>1, <2>2
  <2> QED BY <2>3, <2>5, <2>6 DEF TakenInOrder
<1> QED BY <1>2, <1>4, <1>5, <1>6
\* Whatever else happens, what has been read stays.
LEMMA ReadStays ==
  ASSUME FeedInv, ReceiveInv, WriterStep \/ Foreign \/ HangUp \/ Cut \/ Damage \/ UNCHANGED vars
  PROVE  UNCHANGED rown /\ \A i \in 1..(rpos - 1) : wire'[i] = wire[i]
<1>1. /\ wire \in Seq(D!Blocks) /\ Len(wire) \in Nat /\ rpos \in 1..(Len(wire) + 1) /\ rpos \in Nat \ {0}
  BY DEF FeedInv, D!HandlesInv, D!TypeOK, ReceiveInv, ReaderTypes
<1>2. UNCHANGED rown
  BY DEF WriterStep, Foreign, HangUp, Cut, Damage, vars
<1>3. \A i \in 1..(rpos - 1) : i \in 1..Len(wire)
  BY <1>1
<1>4. CASE WriterStep
  <2>1. PICK t \in Seq(D!Blocks) : wire' = wire \o t
    BY <1>4, WriterSends
  <2>2. \A i \in 1..Len(wire) : wire'[i] = wire[i]
    BY <1>1, <2>1, D!WireGrows, PipeAssumption
  <2> QED BY <1>2, <1>3, <2>2
<1>5. CASE Foreign
  BY <1>1, <1>2, <1>3, <1>5, ForeignAlike
<1>6. CASE HangUp \/ UNCHANGED vars
  BY <1>2, <1>6 DEF HangUp, vars
<1>7. CASE Cut
  <2>1. \E n \in (rpos - 1)..Len(wire) : \A i \in 1..n : wire'[i] = wire[i]
    BY <1>1, <1>7, CutLeaves
  <2>2. \A n \in (rpos - 1)..Len(wire) : \A i \in 1..(rpos - 1) : i \in 1..n
    BY <1>1
  <2> QED BY <1>2, <2>1, <2>2
<1>8. CASE Damage
  <2>1. \E i \in rpos..Len(wire) : \A j \in 1..Len(wire) : j # i => wire'[j] = wire[j]
    BY <1>1, <1>8, DamageAlike
  <2>2. \A j \in 1..(rpos - 1) : j \in 1..Len(wire) /\ \A i \in rpos..Len(wire) : j # i
    BY <1>1
  <2> QED BY <1>2, <2>1, <2>2
<1> QED BY <1>4, <1>5, <1>6, <1>7, <1>8

OrderedInv == FeedInv /\ ReceiveInv /\ Ascending /\ Fields /\ TakenInOrder

LEMMA OrderedStart == Init => OrderedInv
<1> SUFFICES ASSUME Init PROVE OrderedInv
  OBVIOUS
<1>1. FeedInv /\ ReceiveInv
  BY ReceiveStart
<1>2. \A h \in DOMAIN wire : wire[h].kind = "Version"
  BY DEF Init, W!Init, W!VersionBlock
<1>3. Ascending
  BY <1>2 DEF Ascending, StreamKinds
<1>4. /\ rerr = "nil" /\ ~inStream /\ rkey = 0 /\ src \in R!Sources /\ opt \in R!Options
      /\ rpc = "new" /\ cur.kind = "none" /\ cur.sid = 0 /\ got = <<>>
  BY DEF Init, R!Init, R!NoKey, R!NoStream, R!Sources, R!Options
<1>5. Fields /\ TakenInOrder
  BY <1>4, PipeAssumption DEF Fields, TakenInOrder, RErrors
<1> QED BY <1>1, <1>3, <1>5 DEF OrderedInv

LEMMA OrderedGoesOn == OrderedInv /\ [Next]_vars => OrderedInv'
<1> SUFFICES ASSUME OrderedInv, [Next]_vars PROVE OrderedInv'
  OBVIOUS
<1>1. /\ FeedInv /\ ReceiveInv /\ Ascending /\ Fields /\ TakenInOrder
      /\ wire \in Seq(D!Blocks) /\ rpos \in 1..(Len(wire) + 1) /\ rpos \in Nat \ {0} /\ got \in Seq(Entries)
  BY DEF OrderedInv, FeedInv, D!HandlesInv, D!TypeOK, ReceiveInv, ReaderTypes
<1>2. FeedInv' /\ ReceiveInv'
  BY <1>1, ReceiveGoesOn
<1>3. CASE ReaderStep
  <2>1. Reading /\ R!Next /\ UNCHANGED <<wire, wown>>
    BY <1>1, <1>3, ReaderLeaves DEF ReaderStep, Reading
  <2>2. HeadersKept
    BY <2>1 DEF HeadersKept
  <2>3. Ascending'
    BY <1>1, <2>1, <2>2, KeptAscends
  <2>4. Fields'
    BY <1>1, <2>1, SettersFields, CallsFields, SkipFields, ReadFields, NextBlockFields DEF R!Next, R!Progress
  <2>5. TakenInOrder'
    BY <1>1, <2>1, ReaderKeepsOrder
  <2> QED BY <1>2, <2>3, <2>4, <2>5 DEF OrderedInv
<1>4. CASE WriterStep \/ Foreign \/ HangUp \/ Cut \/ Damage \/ UNCHANGED vars
  <2>1. UNCHANGED rown /\ \A i \in 1..(rpos - 1) : wire'[i] = wire[i]
    BY <1>1, <1>4, ReadStays
  <2>2. Fields'
    BY <1>1, <2>1 DEF Fields, rown
  <2>3. TakenInOrder'
    BY <1>1, <2>1 DEF TakenInOrder, rown
  <2>4. Ascending'
    <3>1. CASE WriterStep
      BY <1>1, <3>1, WriterAscends
    <3>2. CASE Foreign
      BY <1>1, <3>2, ForeignAlike, AlikeAscends DEF Foreign
    <3>3. CASE Damage
      BY <1>1, <3>3, DamageAlike, AlikeAscends DEF Damage
    <3>4. CASE Cut
      BY <1>1, <3>4, CutAscends
    <3>5. CASE HangUp \/ UNCHANGED vars
      <4>1. UNCHANGED <<wire, wown>> /\ HeadersKept
        BY <3>5 DEF HangUp, vars, HeadersKept
      <4> QED BY <1>1, <4>1, KeptAscends
    <3> QED BY <1>4, <3>1, <3>2, <3>3, <3>4, <3>5
  <2> QED BY <1>2, <2>2, <2>3, <2>4 DEF OrderedInv
<1> QED BY <1>3, <1>4 DEF Next

LEMMA OrderedMeans == OrderedInv => ReaderTypeOK
<1> SUFFICES ASSUME OrderedInv PROVE ReaderTypeOK
  OBVIOUS
<1>1. /\ rpos \in 1..(Len(wire) + 1) /\ inStream \in BOOLEAN /\ cur \in Streams /\ got \in Seq(Entries)
      /\ wire \in Seq(D!Blocks)
  BY DEF OrderedInv, ReceiveInv, ReaderTypes, FeedInv, D!HandlesInv, D!TypeOK
<1>2. /\ rerr \in {"nil", "EOF", "Unexpected", "Checksum", "Message", "NoPrivate", "BlockType"}
      /\ rkey \in 0..MaxKeys /\ src \in R!Sources /\ opt \in R!Options
      /\ rpc \in {"new", "failed", "idle", "next", "pass", "skip", "read"}
      /\ inStream => cur.kind \in {"plain", "enc"}
  BY DEF OrderedInv, Fields, RErrors
<1>3. cur.kind \in {"none", "plain", "enc", "nokey"}
  BY <1>1 DEF Streams
<1>4. MaxStreams \in Nat
  BY PipeAssumption
<1>5. CASE got = <<>>
  <2>1. cur.kind = "none" /\ cur.sid = 0
    BY <1>5 DEF OrderedInv, ReceiveInv, Fields
  <2> QED BY <1>1, <1>2, <1>4, <1>5, <2>1 DEF ReaderTypeOK
<1>6. CASE got # <<>>
  <2>1. PICK n : n = got[Len(got)].sid
    OBVIOUS
  <2>2. Len(got) <= n /\ \E h \in 1..(rpos - 1) : wire[h].kind \in StreamKinds /\ wire[h].sid = n
    BY <1>6, <2>1 DEF OrderedInv, TakenInOrder
  <2>3. \A h \in 1..(rpos - 1) : h \in DOMAIN wire
    BY <1>1
  <2>4. n \in 1..MaxStreams
    BY <2>2, <2>3 DEF OrderedInv, Ascending
  <2>5. Len(got) <= MaxStreams
    <3>1. Len(got) \in Nat
      BY <1>1
    <3> QED BY <1>4, <2>2, <2>4, <3>1
  <2>6. cur.sid = n
    BY <1>6, <2>1 DEF OrderedInv, ReceiveInv, Fields, Holds, InHand
  <2> QED BY <1>1, <1>2, <1>3, <2>1, <2>4, <2>5, <2>6 DEF ReaderTypeOK
<1> QED BY <1>5, <1>6

\* Whatever the callers do and whatever happens to the bytes, the Reader's fields
\* have their types, it is in a stream only when the caller has that Stream and it
\* can be read, and no more streams are received than were added (reader.go:38,
\* :137, :227).
THEOREM PipeReaderTypeCorrect == Spec => []ReaderTypeOK
BY OrderedStart, OrderedGoesOn, OrderedMeans, PTL DEF Spec
----------------------------------------------------------------------------
(* A pipe without harm: the io.Writer works, the keys are long enough, the   *)
(* bytes arrive as they were sent, and both callers keep the contract.      *)

Unharmed == ~WriteFaults /\ WeakKeys = {} /\ Harms = {} /\ Disciplined /\ Careful

\* The keys of the streams are keys that were made, and what was written to them
\* is what the caller wrote.
OwnHandles == \A s \in DOMAIN handles : handles[s].key <= nkeys /\ handles[s].wrote \in Seq(Chunks)

\* sendBlock sends everything.
LEMMA CleanSend ==
  ASSUME Unharmed, ~werr, NEW bs, NEW o \in W!SendOutcomes(bs), W!Send(o)
  PROVE  wire' = wire \o bs /\ ~werr' /\ ~o.err
<1>1. o = [wire |-> wire \o bs, err |-> FALSE]
  BY DEF Unharmed, W!SendOutcomes, W!Sticky
<1> QED BY <1>1 DEF W!Send

\* The keys that a call sends are new.
NewKeys ==
  /\ nkeys <= nkeys'
  /\ \A h \in DOMAIN wire' : wire'[h].kind = "EncryptedKey" =>
       (h \in DOMAIN wire /\ wire'[h] = wire[h]) \/ wire'[h].key = nkeys + 1

LEMMA KeysSent ==
  ASSUME Unharmed, ~werr, wire \in Seq(D!Blocks), nkeys \in Nat, NEW bs \in Seq(D!Blocks), wire' = wire \o bs,
         nkeys' \in {nkeys, nkeys + 1},
         \A i \in 1..Len(bs) : bs[i].kind = "EncryptedKey" => bs[i].key = nkeys + 1
  PROVE  NewKeys
<1>1. /\ Len(wire) \in Nat /\ DOMAIN wire = 1..Len(wire) /\ DOMAIN wire' = 1..Len(wire')
      /\ Len(wire') = Len(wire) + Len(bs) /\ Len(bs) \in Nat
      /\ \A i \in 1..Len(wire) : wire'[i] = wire[i]
      /\ \A i \in 1..Len(bs) : wire'[Len(wire) + i] = bs[i]
  BY D!WireGrows, PipeAssumption
<1>2. ASSUME NEW h \in DOMAIN wire', wire'[h].kind = "EncryptedKey"
      PROVE  (h \in DOMAIN wire /\ wire'[h] = wire[h]) \/ wire'[h].key = nkeys + 1
  <2>1. CASE h \in 1..Len(wire)
    BY <1>1, <2>1
  <2>2. CASE h \notin 1..Len(wire)
    <3>1. PICK i : i = h - Len(wire)
      OBVIOUS
    <3>2. i \in 1..Len(bs) /\ wire'[h] = bs[i]
      BY <1>1, <2>2, <3>1
    <3> QED BY <1>2, <3>2
  <2> QED BY <2>1, <2>2
<1>3. nkeys <= nkeys'
  OBVIOUS
<1> QED BY <1>2, <1>3 DEF NewKeys

WSends(b) == \E o \in W!SendOutcomes(<<b>>) : W!Send(o)

\* Keys, error messages and the end of the output.
LEMMA CleanAside ==
  ASSUME Unharmed, ~werr, D!TypeOK, OwnHandles,
         W!AddKeyPlain \/ (\E p \in PubKeys : W!AddKeyEncrypted(p)) \/ W!AddError \/ W!CloseWriter
  PROVE  ~werr' /\ OwnHandles' /\ NewKeys
<1>0. wire \in Seq(D!Blocks) /\ nkeys \in Nat /\ MaxKeys \in Nat /\ DOMAIN handles = 1..Len(handles)
      /\ \A s \in DOMAIN handles : handles[s].key \in Nat
  <2>1. wire \in Seq(D!Blocks) /\ handles \in Seq(D!Handles) /\ nkeys \in 0..MaxKeys /\ MaxKeys \in Nat
    BY PipeAssumption DEF D!TypeOK
  <2>2. ASSUME NEW s \in DOMAIN handles PROVE handles[s].key \in Nat
    <3>1. handles[s] \in D!Handles
      BY <2>1, <2>2
    <3> QED BY <2>1, <3>1 DEF D!Handles
  <2> QED BY <2>1, <2>2
<1>1. ASSUME NEW b, b \in D!Blocks, WSends(b), b.kind = "EncryptedKey" => b.key = nkeys + 1,
             nkeys' = nkeys \/ nkeys' = nkeys + 1, handles' = handles
      PROVE  ~werr' /\ OwnHandles' /\ NewKeys
  <2>1. PICK bs : bs = <<b>>
    OBVIOUS
  <2>2. wire' = wire \o bs /\ ~werr'
    BY <1>1, <2>1, CleanSend DEF WSends
  <2>3. bs \in Seq(D!Blocks) /\ \A i \in 1..Len(bs) : bs[i] = b
    BY <1>1, <2>1
  <2>4. NewKeys
    BY <1>0, <1>1, <2>2, <2>3, KeysSent
  <2>5. OwnHandles'
    BY <1>0, <1>1 DEF OwnHandles
  <2> QED BY <2>2, <2>4, <2>5
<1>2. CASE W!AddKeyPlain
  <2>1. PICK n : n = nkeys + 1
    OBVIOUS
  <2>2. n \in 1..MaxKeys
    BY <1>0, <1>2, <2>1 DEF W!AddKeyPlain
  <2>3. PICK b : b = W!PlainKey(n)
    OBVIOUS
  <2>4. b \in D!Blocks /\ b.kind = "PlainKey"
    BY <2>2, <2>3 DEF W!PlainKey, D!Blocks
  <2>5. WSends(b) /\ nkeys' = nkeys + 1 /\ handles' = handles
    BY <1>2, <2>1, <2>3 DEF W!AddKeyPlain, WSends
  <2> QED BY <1>1, <2>4, <2>5
<1>3. ASSUME NEW p \in PubKeys, W!AddKeyEncrypted(p) PROVE ~werr' /\ OwnHandles' /\ NewKeys
  <2>1. PICK n : n = nkeys + 1
    OBVIOUS
  <2>2. n \in 1..MaxKeys
    BY <1>0, <1>3, <2>1 DEF W!AddKeyEncrypted
  <2>3. PICK b : b = W!EncryptedKey(p, n)
    OBVIOUS
  <2>4. b \in D!Blocks /\ b.key = nkeys + 1
    BY <2>1, <2>2, <2>3 DEF W!EncryptedKey, D!Blocks
  <2>5. WSends(b) /\ nkeys' = nkeys + 1 /\ handles' = handles
    BY <1>3, <2>1, <2>3 DEF W!AddKeyEncrypted, WSends, Unharmed
  <2> QED BY <1>1, <2>4, <2>5
<1>4. CASE W!AddError
  <2>1. PICK b : b = W!ErrorBlock
    OBVIOUS
  <2>2. b \in D!Blocks /\ b.kind = "Error"
    BY <2>1 DEF W!ErrorBlock, D!ErrorBlock, D!Blocks
  <2>3. WSends(b) /\ nkeys' = nkeys /\ handles' = handles
    BY <1>4, <2>1 DEF W!AddError, WSends
  <2> QED BY <1>1, <2>2, <2>3
<1>5. CASE W!CloseWriter
  <2>1. PICK b : b = W!EOFBlock
    OBVIOUS
  <2>2. b \in D!Blocks /\ b.kind = "EOF"
    BY <2>1 DEF W!EOFBlock, D!EOFBlock, D!Blocks
  <2>3. WSends(b) /\ nkeys' = nkeys /\ handles' = handles
    BY <1>5, <2>1 DEF W!CloseWriter, WSends
  <2> QED BY <1>1, <2>2, <2>3
<1> QED BY <1>2, <1>3, <1>4, <1>5

\* New streams.
LEMMA CleanStreams ==
  ASSUME Unharmed, ~werr, D!TypeOK, OwnHandles, W!AddUnencryptedStream \/ W!AddEncryptedStream
  PROVE  ~werr' /\ OwnHandles' /\ NewKeys
<1>0. /\ wire \in Seq(D!Blocks) /\ nkeys \in Nat /\ nonce \in Nat /\ wkey \in 0..nkeys
      /\ handles \in Seq(D!Handles) /\ Len(handles) \in Nat
  BY PipeAssumption DEF D!TypeOK
<1>1. ASSUME NEW b, b \in D!Blocks, WSends(b), b.kind \in StreamKinds, nkeys' = nkeys,
             NEW hd, handles' = handles \/ handles' = Append(handles, hd), hd.key <= nkeys, hd.wrote = <<>>
      PROVE  ~werr' /\ OwnHandles' /\ NewKeys
  <2>1. PICK bs : bs = <<b>>
    OBVIOUS
  <2>2. wire' = wire \o bs /\ ~werr'
    BY <1>1, <2>1, CleanSend DEF WSends
  <2>3. bs \in Seq(D!Blocks) /\ \A i \in 1..Len(bs) : bs[i] = b
    BY <1>1, <2>1
  <2>4. NewKeys
    BY <1>0, <1>1, <2>2, <2>3, KeysSent DEF StreamKinds
  <2>5. OwnHandles'
    <3>1. CASE handles' = Append(handles, hd)
      <4>1. \A s \in DOMAIN handles' : (s \in DOMAIN handles /\ handles'[s] = handles[s]) \/ handles'[s] = hd
        BY <1>0, <3>1, AppendProperties
      <4>2. <<>> \in Seq(Chunks)
        OBVIOUS
      <4>3. \A s \in DOMAIN handles' : handles'[s].key <= nkeys'
        BY <1>1, <4>1 DEF OwnHandles
      <4>4. \A s \in DOMAIN handles' : handles'[s].wrote \in Seq(Chunks)
        BY <1>1, <4>1, <4>2 DEF OwnHandles
      <4> QED BY <4>3, <4>4 DEF OwnHandles
    <3> QED BY <1>1, <3>1 DEF OwnHandles
  <2> QED BY <2>2, <2>4, <2>5
<1>2. CASE W!AddUnencryptedStream
  <2>1. PICK b : b = W!PlainStream(Len(handles) + 1)
    OBVIOUS
  <2>2. b \in D!Blocks /\ b.kind \in StreamKinds
    BY <1>0, <2>1 DEF W!PlainStream, D!Blocks, StreamKinds
  <2>3. PICK hd : hd = W!Handle(FALSE, W!NoKey, 0)
    OBVIOUS
  <2>4. hd.key <= nkeys /\ hd.wrote = <<>>
    BY <1>0, <2>3 DEF W!Handle, W!NoKey
  <2>5. WSends(b) /\ nkeys' = nkeys /\ (handles' = handles \/ handles' = Append(handles, hd))
    BY <1>2, <2>1, <2>3 DEF W!AddUnencryptedStream, WSends
  <2> QED BY <1>1, <2>2, <2>4, <2>5
<1>3. CASE W!AddEncryptedStream
  <2>1. PICK b : b = W!EncStream(Len(handles) + 1, nonce)
    OBVIOUS
  <2>2. b \in D!Blocks /\ b.kind \in StreamKinds
    BY <1>0, <2>1 DEF W!EncStream, D!Blocks, StreamKinds
  <2>3. PICK hd : hd = W!Handle(TRUE, wkey, nonce)
    OBVIOUS
  <2>4. hd.key <= nkeys /\ hd.wrote = <<>>
    BY <1>0, <2>3 DEF W!Handle
  <2>5. WSends(b) /\ nkeys' = nkeys /\ (handles' = handles \/ handles' = Append(handles, hd))
    BY <1>3, <2>1, <2>3 DEF W!AddEncryptedStream, WSends
  <2> QED BY <1>1, <2>2, <2>4, <2>5
<1> QED BY <1>2, <1>3

\* Data, and the end of a stream.
LEMMA CleanCalls ==
  ASSUME Unharmed, ~werr, D!TypeOK, OwnHandles, NEW s \in DOMAIN handles,
         (\E c \in Chunks : W!WritePlain(s, c) \/ W!WriteEncrypted(s, c)) \/ W!ClosePlain(s) \/ W!CloseEncrypted(s)
  PROVE  ~werr' /\ OwnHandles' /\ nkeys' = nkeys
<1>0. /\ wire \in Seq(D!Blocks) /\ handles \in Seq(D!Handles) /\ nkeys' = nkeys
      /\ handles[s] \in D!Handles /\ handles[s].wrote \in Seq(Chunks) /\ handles[s].key <= nkeys
  <2>1. nkeys' = nkeys
    BY DEF W!WritePlain, W!WriteEncrypted, W!ClosePlain, W!CloseEncrypted
  <2>2. wire \in Seq(D!Blocks) /\ handles \in Seq(D!Handles)
    BY DEF D!TypeOK
  <2> QED BY <2>1, <2>2 DEF OwnHandles
<1>1. ASSUME NEW hd, handles' = [handles EXCEPT ![s] = hd], hd.key = handles[s].key, hd.wrote \in Seq(Chunks)
      PROVE  OwnHandles'
  BY <1>0, <1>1 DEF OwnHandles
<1>2. ASSUME NEW c \in Chunks, W!WritePlain(s, c) PROVE ~werr' /\ OwnHandles'
  <2>1. ~werr'
    BY <1>2, CleanSend DEF W!WritePlain
  <2>2. PICK w, u : /\ handles' = [handles EXCEPT ![s].wrote = w, ![s].sum = u]
                    /\ w = Append(handles[s].wrote, c)
    BY <1>2 DEF W!WritePlain
  <2>3. w \in Seq(Chunks)
    BY <1>0, <2>2, AppendProperties
  <2>4. PICK hd : hd = [handles[s] EXCEPT !.wrote = w, !.sum = u]
    OBVIOUS
  <2>5. handles' = [handles EXCEPT ![s] = hd]
    BY <2>2, <2>4
  <2>6. hd.key = handles[s].key /\ hd.wrote = w
    BY <1>0, <2>4 DEF D!Handles
  <2> QED BY <1>1, <2>1, <2>3, <2>5, <2>6
<1>3. ASSUME NEW c \in Chunks, W!WriteEncrypted(s, c) PROVE ~werr' /\ OwnHandles'
  <2>1. ~werr'
    BY <1>3, CleanSend DEF W!WriteEncrypted
  <2>2. PICK w : w = Append(handles[s].wrote, c)
    OBVIOUS
  <2>3. w \in Seq(Chunks)
    BY <1>0, <2>2, AppendProperties
  <2>4. PICK q : q = <<c>>
    OBVIOUS
  <2>5. CASE handles[s].pend = <<>>
    <3>1. handles' = [handles EXCEPT ![s].wrote = w, ![s].pend = q]
      BY <1>3, <2>2, <2>4, <2>5 DEF W!WriteEncrypted
    <3>2. PICK hd : hd = [handles[s] EXCEPT !.wrote = w, !.pend = q]
      OBVIOUS
    <3>3. handles' = [handles EXCEPT ![s] = hd]
      BY <3>1, <3>2
    <3>4. hd.key = handles[s].key /\ hd.wrote = w
      BY <1>0, <3>2 DEF D!Handles
    <3> QED BY <1>1, <2>1, <2>3, <3>3, <3>4
  <2>6. CASE handles[s].pend # <<>>
    <3>1. PICK f : f = handles[s].frag + 1
      OBVIOUS
    <3>2. PICK u : u = Append(handles[s].sum, W!Fragment(handles[s], FALSE))
      OBVIOUS
    <3>3. handles' = [handles EXCEPT ![s].wrote = Append(@, c), ![s].pend = <<c>>, ![s].frag = @ + 1,
                                     ![s].sum = Append(@, W!Fragment(handles[s], FALSE))]
      BY <1>3, <2>6 DEF W!WriteEncrypted
    <3>4. handles' = [handles EXCEPT ![s].wrote = w, ![s].pend = q, ![s].frag = f, ![s].sum = u]
      BY <2>2, <2>4, <3>1, <3>2, <3>3
    <3>5. PICK hd : hd = [handles[s] EXCEPT !.wrote = w, !.pend = q, !.frag = f, !.sum = u]
      OBVIOUS
    <3>6. handles' = [handles EXCEPT ![s] = hd]
      BY <3>4, <3>5
    <3>7. hd.key = handles[s].key /\ hd.wrote = w
      BY <1>0, <3>5 DEF D!Handles
    <3> QED BY <1>1, <2>1, <2>3, <3>6, <3>7
  <2> QED BY <2>5, <2>6
<1>4. ASSUME W!ClosePlain(s) PROVE ~werr' /\ OwnHandles'
  <2>1. ~werr'
    BY <1>4, CleanSend DEF W!ClosePlain
  <2>2. PICK e, a : handles' = [handles EXCEPT ![s].eosWritten = e, ![s].ack = a]
    BY <1>4 DEF W!ClosePlain
  <2>3. PICK hd : hd = [handles[s] EXCEPT !.eosWritten = e, !.ack = a]
    OBVIOUS
  <2>4. handles' = [handles EXCEPT ![s] = hd]
    BY <2>2, <2>3
  <2>5. hd.key = handles[s].key /\ hd.wrote = handles[s].wrote
    BY <1>0, <2>3 DEF D!Handles
  <2> QED BY <1>0, <1>1, <2>1, <2>4, <2>5
<1>5. ASSUME W!CloseEncrypted(s) PROVE ~werr' /\ OwnHandles'
  <2>1. ~werr'
    BY <1>5, CleanSend DEF W!CloseEncrypted
  <2>2. PICK a : handles' = [handles EXCEPT ![s] = [W!AfterSioClose(handles[s]) EXCEPT !.ack = a]]
    BY <1>5 DEF W!CloseEncrypted
  <2>3. PICK u : W!AfterSioClose(handles[s]) = [handles[s] EXCEPT !.sealed = TRUE, !.eosWritten = TRUE, !.sum = u]
    BY DEF W!AfterSioClose
  <2>4. PICK hd : hd = [[handles[s] EXCEPT !.sealed = TRUE, !.eosWritten = TRUE, !.sum = u] EXCEPT !.ack = a]
    OBVIOUS
  <2>5. handles' = [handles EXCEPT ![s] = hd]
    BY <2>2, <2>3, <2>4
  <2>6. hd.key = handles[s].key /\ hd.wrote = handles[s].wrote
    BY <1>0, <2>4 DEF D!Handles
  <2> QED BY <1>0, <1>1, <2>1, <2>5, <2>6
<1> QED BY <1>0, <1>2, <1>3, <1>4, <1>5

\* Data and the end of a stream are no keys.
LEMMA CallsSendNoKeys ==
  ASSUME Unharmed, D!HandlesInv, ~werr, ~werr', nkeys' = nkeys, NEW s \in DOMAIN handles,
         (\E c \in Chunks : W!WritePlain(s, c) \/ W!WriteEncrypted(s, c)) \/ W!ClosePlain(s) \/ W!CloseEncrypted(s)
  PROVE  NewKeys
<1>1. /\ D!TypeOK /\ wire \in Seq(D!Blocks) /\ nkeys \in Nat /\ s \in D!Opened /\ D!HandleFits(handles[s])
  BY PipeAssumption DEF D!HandlesInv, D!TypeOK, D!Opened
<1>2. wire' = wire \/ \E new : \E bs \in Seq(D!Blocks) : D!StreamCall(s, new, bs)
  <2>1. ASSUME NEW c \in Chunks, D!WritePlain(s, c)
        PROVE  \E new, bs : D!Sound(new) /\ bs \in Seq(D!Blocks) /\ D!StreamCall(s, new, bs)
    BY <1>1, <2>1, D!PlainWrite, PipeAssumption
  <2>2. ASSUME NEW c \in Chunks, D!WriteEncrypted(s, c)
        PROVE  \E new, bs : D!Sound(new) /\ bs \in Seq(D!Blocks) /\ D!StreamCall(s, new, bs)
    BY <1>1, <2>2, D!EncryptedWrite, PipeAssumption
  <2>3. ASSUME D!ClosePlain(s)
        PROVE  wire' = wire \/ \E new, bs : D!Sound(new) /\ bs \in Seq(D!Blocks) /\ D!StreamCall(s, new, bs)
    BY <1>1, <2>3, D!PlainClose, PipeAssumption
  <2>4. ASSUME D!CloseEncrypted(s)
        PROVE  \E new, bs : D!Sound(new) /\ bs \in Seq(D!Blocks) /\ D!StreamCall(s, new, bs)
    BY <1>1, <2>4, D!EncryptedClose, PipeAssumption
  <2> QED BY <2>1, <2>2, <2>3, <2>4, SameCalls
<1>3. CASE wire' = wire
  <2>1. wire' = wire \o <<>> /\ <<>> \in Seq(D!Blocks) /\ \A i \in 1..Len(<<>>) : FALSE
    BY <1>1, <1>3
  <2>2. PICK bs \in Seq(D!Blocks) : wire' = wire \o bs /\ \A i \in 1..Len(bs) : FALSE
    BY <2>1
  <2> QED BY <1>1, <2>2, KeysSent
<1>4. ASSUME NEW new, NEW bs \in Seq(D!Blocks), D!StreamCall(s, new, bs)
      PROVE  NewKeys
  <2>1. wire' = wire \o bs
    <3>1. CASE bs = <<>>
      BY <1>1, <1>4, <3>1 DEF D!StreamCall
    <3>2. CASE bs # <<>>
      BY <1>1, <1>4, <3>2, D!SendsErr, PipeAssumption DEF D!StreamCall
    <3> QED BY <3>1, <3>2
  <2>2. \A i \in 1..Len(bs) : bs[i].kind \in {"Datablock", "EOS"}
    <3>1. \A p : D!Datablock(p).kind = "Datablock" /\ D!EOS(p).kind = "EOS"
      BY DEF D!Datablock, D!EOS
    <3>2. \/ bs = <<>>
          \/ \E p : bs = <<D!Datablock(p)>> \/ bs = <<D!EOS(p)>>
          \/ \E p, q : bs = <<D!Datablock(p), D!EOS(q)>>
      BY <1>4 DEF D!StreamCall, D!Writes, D!Finishes
    <3> HIDE DEF D!Datablock, D!EOS
    <3>3. CASE bs = <<>>
      BY <3>3
    <3>4. ASSUME NEW b, bs = <<b>>, b.kind \in {"Datablock", "EOS"} PROVE \A i \in 1..Len(bs) : bs[i].kind \in {"Datablock", "EOS"}
      BY <3>4
    <3>5. ASSUME NEW b, NEW e, bs = <<b, e>>, b.kind = "Datablock", e.kind = "EOS"
          PROVE  \A i \in 1..Len(bs) : bs[i].kind \in {"Datablock", "EOS"}
      BY <3>5
    <3> QED BY <3>1, <3>2, <3>3, <3>4, <3>5
  <2> QED BY <1>1, <2>1, <2>2, KeysSent
<1> QED BY <1>2, <1>3, <1>4

\* Nothing has gone wrong with the Writer and its output.
CleanWriter == ~werr /\ harm = {} /\ OwnHandles /\ D!EndsLast
WireKept    == \A i \in DOMAIN wire : i \in DOMAIN wire' /\ wire'[i] = wire[i]

LEMMA CleanCallsGoOn ==
  ASSUME Unharmed, FeedInv, CleanWriter, WriterStep
  PROVE  CleanWriter' /\ NewKeys /\ WireKept
<1>1. W!Next /\ D!Next /\ D!HandlesInv /\ D!TypeOK /\ ~werr /\ OwnHandles /\ D!EndsLast /\ harm = {}
  BY SameNext DEF WriterStep, FeedInv, D!HandlesInv, CleanWriter
<1>2. harm' = {} /\ nkeys \in Nat
  BY <1>1, PipeAssumption DEF WriterStep, D!TypeOK
<1>3. ~werr' /\ OwnHandles' /\ NewKeys
  <2>1. CASE W!AddKeyPlain \/ (\E p \in PubKeys : W!AddKeyEncrypted(p)) \/ W!AddError \/ W!CloseWriter
    BY <1>1, <2>1, CleanAside
  <2>2. CASE W!AddUnencryptedStream \/ W!AddEncryptedStream
    BY <1>1, <2>2, CleanStreams
  <2>3. CASE \E s \in W!Opened : (\E c \in Chunks : W!WritePlain(s, c) \/ W!WriteEncrypted(s, c)) \/ W!ClosePlain(s) \/ W!CloseEncrypted(s)
    <3>1. PICK s \in DOMAIN handles :
            (\E c \in Chunks : W!WritePlain(s, c) \/ W!WriteEncrypted(s, c)) \/ W!ClosePlain(s) \/ W!CloseEncrypted(s)
      BY <2>3 DEF W!Opened
    <3>2. ~werr' /\ OwnHandles' /\ nkeys' = nkeys
      BY <1>1, <3>1, CleanCalls
    <3> QED BY <1>1, <3>1, <3>2, CallsSendNoKeys
  <2> QED BY <1>1, <2>1, <2>2, <2>3 DEF W!Next
<1>4. PICK t \in Seq(D!Blocks) : D!NextHeaders(t)
  BY <1>1, D!HeadersSentAre, PipeAssumption
<1>5. D!EndsLast'
  BY <1>1, <1>4, D!SendsEndsLast, PipeAssumption DEF Unharmed
<1>6. WireKept
  BY <1>1, <1>4, D!WireGrows, PipeAssumption DEF D!NextHeaders, WireKept, D!TypeOK
<1> QED BY <1>2, <1>3, <1>5, <1>6 DEF CleanWriter

\* A step that sends nothing but a block of a newer version.
LEMMA CleanKept ==
  ASSUME CleanWriter, UNCHANGED wown, harm' = harm, WireKept, D!TypeOK,
         \A i \in DOMAIN wire' : i \in DOMAIN wire \/ wire'[i].kind = "Skippable"
  PROVE  CleanWriter' /\ NewKeys
<1>1. werr' = werr /\ nkeys' = nkeys /\ handles' = handles /\ closes' = closes /\ nkeys \in Nat
  BY PipeAssumption DEF wown, D!TypeOK
<1>2. \A i \in DOMAIN wire' : wire'[i].kind # "Skippable" => i \in DOMAIN wire /\ wire'[i] = wire[i]
  BY DEF WireKept
<1>3. NewKeys
  BY <1>1, <1>2 DEF NewKeys
<1>4. D!EndsLast'
  BY <1>1, <1>2 DEF CleanWriter, D!EndsLast, D!StreamKinds, StreamKinds
<1>5. OwnHandles'
  BY <1>1 DEF CleanWriter, OwnHandles
<1> QED BY <1>1, <1>3, <1>4, <1>5 DEF CleanWriter

LEMMA CleanGoesOn ==
  ASSUME Unharmed, OrderedInv, CleanWriter, [Next]_vars
  PROVE  CleanWriter' /\ NewKeys /\ WireKept
<1>1. FeedInv /\ D!TypeOK /\ wire \in Seq(D!Blocks)
  BY DEF OrderedInv, FeedInv, D!HandlesInv, D!TypeOK
<1>2. CASE WriterStep
  BY <1>1, <1>2, CleanCallsGoOn
<1>3. CASE Foreign
  <2>1. /\ Alike /\ Len(wire') = Len(wire) + 1 /\ \A i \in 1..Len(wire) : wire'[i] = wire[i]
    BY <1>1, <1>3, ForeignAlike
  <2>2. /\ Len(wire) \in Nat /\ DOMAIN wire = 1..Len(wire) /\ DOMAIN wire' = 1..Len(wire')
    BY <1>1, <2>1 DEF Alike
  <2>3. WireKept
    BY <2>1, <2>2 DEF WireKept
  <2>4. \A i \in DOMAIN wire' : i \in DOMAIN wire \/ wire'[i].kind = "Skippable"
    BY <2>1, <2>2 DEF Alike
  <2>5. UNCHANGED wown /\ harm' = harm
    BY <1>3 DEF Foreign
  <2> QED BY <1>1, <2>3, <2>4, <2>5, CleanKept
<1>4. CASE ReaderStep \/ HangUp \/ UNCHANGED vars
  <2>1. UNCHANGED <<wire, wown, harm>>
    BY <1>4, ReaderLeaves DEF HangUp, vars
  <2>2. WireKept /\ \A i \in DOMAIN wire' : i \in DOMAIN wire \/ wire'[i].kind = "Skippable"
    BY <2>1 DEF WireKept
  <2> QED BY <1>1, <2>1, <2>2, CleanKept
<1>5. ~Cut /\ ~Damage
  BY DEF Unharmed, Cut, Damage
<1> QED BY <1>2, <1>3, <1>4, <1>5 DEF Next

\* Whether a stream is locked is settled when it begins.
LEMMA LockedStays ==
  ASSUME D!TypeOK, D!HandlesGrow, OwnHandles, NewKeys, WireKept, NEW s \in DOMAIN handles
  PROVE  Locked(s)' <=> Locked(s)
<1>1. /\ s \in DOMAIN handles' /\ handles'[s].enc = handles[s].enc /\ handles'[s].key = handles[s].key
  BY DEF D!HandlesGrow, D!Opened, D!GoesOn, D!Same
<1>2. handles[s].key # nkeys + 1
  <2>1. nkeys \in Nat /\ handles \in Seq(D!Handles)
    BY PipeAssumption DEF D!TypeOK
  <2>2. handles[s] \in D!Handles /\ handles[s].key <= nkeys
    BY <2>1 DEF OwnHandles
  <2>3. handles[s].key \in 0..MaxKeys
    BY <2>2 DEF D!Handles
  <2> QED BY <2>1, <2>2, <2>3
<1>3. ASSUME NEW i \in DOMAIN wire', wire'[i].kind = "EncryptedKey", wire'[i].key = handles[s].key
      PROVE  i \in DOMAIN wire /\ wire'[i] = wire[i]
  BY <1>2, <1>3 DEF NewKeys
<1> QED BY <1>1, <1>3 DEF Locked, WireKept

----------------------------------------------------------------------------
(* The Writer's side of the archive.                                        *)

\* What the archive has of stream s.
PutAt(s) == [data |-> handles[s].wrote, shut |-> handles[s].ack # "open", locked |-> Locked(s)]

LEMMA PutIs ==
  /\ Put = [s \in DOMAIN handles |-> PutAt(s)]
  /\ Put' = [s \in DOMAIN handles' |-> PutAt(s)']
BY DEF Put, PutAt, Wrote, W!IsOpen

\* A stream that stays as it is.
LEMMA PutAtStays ==
  ASSUME NEW s, handles'[s].wrote = handles[s].wrote, handles'[s].ack = handles[s].ack, Locked(s)' <=> Locked(s)
  PROVE  PutAt(s)' = PutAt(s)
<1>1. PICK l \in BOOLEAN : l = Locked(s)
  BY DEF Locked
<1>2. Locked(s)' = l
  BY <1>1 DEF Locked
<1>3. PICK a \in BOOLEAN : a = (handles[s].ack # "open")
  OBVIOUS
<1>4. (handles[s].ack # "open")' = a
  BY <1>3
<1> QED BY <1>1, <1>2, <1>3, <1>4 DEF PutAt

\* The archive's streams are a sequence of such records.
Volumes == [data : Seq(Chunks), shut : BOOLEAN, locked : BOOLEAN]

LEMMA ReaderNotAsked ==
  ASSUME UNCHANGED rown
  PROVE  Taken' = Taken /\ Over' = Over
BY DEF rown, Taken, Over, ReportedEnd, R!Stopped, EndName

\* The Writer's invariants and a call.
Calls ==
  /\ Unharmed /\ OrderedInv /\ CleanWriter /\ CleanWriter' /\ NewKeys /\ WireKept
  /\ D!HandlesInv' /\ D!HandlesGrow /\ UNCHANGED rown

LEMMA CallsFind ==
  ASSUME Calls
  PROVE  /\ D!TypeOK /\ D!HandlesInv /\ handles \in Seq(D!Handles) /\ handles' \in Seq(D!Handles)
         /\ ~werr /\ ~werr' /\ Taken' = Taken /\ Over' = Over /\ Disciplined
         /\ \A s \in DOMAIN handles : Locked(s)' <=> Locked(s)
<1>1. D!TypeOK /\ D!HandlesInv /\ ~werr /\ ~werr' /\ OwnHandles /\ Disciplined /\ D!TypeOK'
  BY DEF Calls, OrderedInv, FeedInv, D!HandlesInv, CleanWriter, Unharmed
<1>2. handles \in Seq(D!Handles) /\ handles' \in Seq(D!Handles)
  BY <1>1 DEF D!TypeOK
<1>3. Taken' = Taken /\ Over' = Over
  BY ReaderNotAsked DEF Calls
<1>4. \A s \in DOMAIN handles : Locked(s)' <=> Locked(s)
  BY <1>1, LockedStays DEF Calls
<1> QED BY <1>1, <1>2, <1>3, <1>4

LEMMA PutTyped ==
  ASSUME Calls
  PROVE  /\ Put \in Seq(Volumes) /\ Len(Put) = Len(handles)
         /\ \A s \in 1..Len(handles) : Put[s] = PutAt(s)
         /\ Put' \in Seq(Volumes) /\ Len(Put') = Len(handles')
         /\ \A s \in 1..Len(handles') : Put'[s] = PutAt(s)'
<1>1. ASSUME NEW s \in DOMAIN handles PROVE PutAt(s) \in Volumes
  <2>1. PICK l \in BOOLEAN : l = Locked(s)
    BY DEF Locked
  <2>2. handles[s].wrote \in Seq(Chunks)
    BY <1>1 DEF Calls, CleanWriter, OwnHandles
  <2> QED BY <2>1, <2>2 DEF PutAt, Volumes
<1>2. ASSUME NEW s \in DOMAIN handles' PROVE PutAt(s)' \in Volumes
  <2>1. PICK l \in BOOLEAN : l = Locked(s)'
    BY DEF Locked
  <2>2. handles'[s].wrote \in Seq(Chunks)
    BY <1>2 DEF Calls, CleanWriter, OwnHandles
  <2> QED BY <2>1, <2>2 DEF PutAt, Volumes
<1>3. ASSUME NEW h \in Seq(D!Handles), NEW f, f = [s \in DOMAIN h |-> f[s]], \A s \in DOMAIN h : f[s] \in Volumes
      PROVE  f \in Seq(Volumes) /\ Len(f) = Len(h)
  <2>1. PICK n \in Nat : n = Len(h)
    OBVIOUS
  <2>2. f = [s \in 1..n |-> f[s]] /\ \A s \in 1..n : f[s] \in Volumes
    BY <1>3, <2>1
  <2>3. f \in [1..n -> Volumes]
    BY <2>2
  <2> QED BY <2>1, <2>3
<1>4. /\ Put = [s \in DOMAIN handles |-> Put[s]] /\ \A s \in DOMAIN handles : Put[s] = PutAt(s)
      /\ Put' = [s \in DOMAIN handles' |-> Put'[s]] /\ \A s \in DOMAIN handles' : Put'[s] = PutAt(s)'
  BY PutIs
<1>5. handles \in Seq(D!Handles) /\ handles' \in Seq(D!Handles)
  BY CallsFind
<1>6. Put \in Seq(Volumes) /\ Len(Put) = Len(handles)
  BY <1>1, <1>3, <1>4, <1>5
<1>7. Put' \in Seq(Volumes) /\ Len(Put') = Len(handles')
  BY <1>2, <1>3, <1>4, <1>5
<1> QED BY <1>4, <1>5, <1>6, <1>7

\* The streams stay as they are.
LEMMA HandlesUntouched ==
  ASSUME Calls, handles' = handles
  PROVE  Put' = Put
<1>1. \A s \in DOMAIN handles : PutAt(s)' = PutAt(s)
  BY CallsFind, PutAtStays
<1> QED BY <1>1, PutIs

\* Keys, error messages and the end of the output.
LEMMA AsideIsFinish ==
  ASSUME Calls, NEW b, D!Aside(b)
  PROVE  [Archive!Next]_Archive!vars
<1>1. handles' = handles /\ Put' = Put /\ Taken' = Taken /\ Over' = Over
  BY HandlesUntouched, CallsFind DEF D!Aside
<1>2. CASE closes' = closes
  BY <1>1, <1>2 DEF Archive!vars
<1>3. CASE closes' # <<>> /\ \A s \in DOMAIN handles : handles[s].ack # "open"
  <2>1. \A s \in DOMAIN Put : Put[s].shut
    BY <1>3, PutIs DEF PutAt
  <2>2. CASE closes # <<>>
    BY <1>1, <1>3, <2>2 DEF Archive!vars
  <2>3. CASE closes = <<>>
    <3>1. Archive!Finish
      BY <1>1, <1>3, <2>1, <2>3 DEF Archive!Finish, Archive!AllShut
    <3> QED BY <3>1 DEF Archive!Next
  <2> QED BY <2>2, <2>3
<1> QED BY <1>2, <1>3, CallsFind DEF D!Aside, D!Opened, D!IsOpen

\* A new stream.
LEMMA NewStreamIsOpen ==
  ASSUME Calls, NEW new, D!NewStream(new)
  PROVE  [Archive!Next]_Archive!vars
<1>1. /\ handles' = Append(handles, new) /\ new.wrote = <<>> /\ new.ack = "open" /\ closes' = closes
      /\ closes = <<>> /\ \A s \in DOMAIN handles : handles[s].ack # "open"
  BY CallsFind DEF D!NewStream, D!MayAdd, D!Opened, D!IsOpen
<1>2. PICK n : n = Len(handles) + 1
  OBVIOUS
<1>3. /\ n \in Nat /\ DOMAIN handles = 1..(n - 1) /\ DOMAIN handles' = 1..n /\ handles'[n] = new
      /\ \A s \in 1..(n - 1) : handles'[s] = handles[s]
  BY <1>1, <1>2, CallsFind, AppendProperties
<1>4. PICK l \in BOOLEAN : l = Locked(n)'
  BY DEF Locked
<1>5. PICK r : r = [data |-> <<>>, shut |-> FALSE, locked |-> l]
  OBVIOUS
<1>6. PutAt(n)' = r
  BY <1>1, <1>3, <1>4, <1>5 DEF PutAt
<1>7. \A s \in 1..(n - 1) : PutAt(s)' = PutAt(s)
  BY <1>3, CallsFind, PutAtStays
<1>8. Put' = Append(Put, r)
  <2>1. /\ Put \in Seq(Volumes) /\ Len(Put) = n - 1 /\ \A s \in 1..(n - 1) : Put[s] = PutAt(s)
        /\ Put' \in Seq(Volumes) /\ Len(Put') = n /\ \A s \in 1..n : Put'[s] = PutAt(s)'
    <3>1. Len(handles) = n - 1 /\ Len(handles') = n
      BY <1>2, <1>3, CallsFind
    <3> QED BY <3>1, PutTyped
  <2>2. PICK q \in Seq(Volumes) : q = Append(Put, r) /\ Len(q) = n /\ q[n] = r /\ \A s \in 1..(n - 1) : q[s] = Put[s]
    <3>1. r \in Volumes
      BY <1>4, <1>5 DEF Volumes
    <3>2. PICK q : q = Append(Put, r)
      OBVIOUS
    <3>3. /\ q \in Seq(Volumes) /\ Len(q) = Len(Put) + 1 /\ q[Len(Put) + 1] = r
          /\ \A s \in 1..Len(Put) : q[s] = Put[s]
      BY <2>1, <3>1, <3>2, AppendProperties
    <3>4. Len(Put) + 1 = n /\ Len(Put) = n - 1
      BY <1>3, <2>1
    <3> QED BY <3>2, <3>3, <3>4
  <2>3. \A s \in 1..n : Put'[s] = q[s]
    BY <1>3, <1>6, <1>7, <2>1, <2>2
  <2> QED BY <2>1, <2>2, <2>3, SeqEqual
<1>9. \A s \in DOMAIN Put : Put[s].shut
  BY <1>1, PutIs DEF PutAt
<1>10. Archive!Open(l)
  BY <1>1, <1>5, <1>8, <1>9, CallsFind DEF Archive!Open, Archive!AllShut
<1> QED BY <1>4, <1>10 DEF Archive!Next

\* A call on a stream changes its record.
LEMMA RecordChanges ==
  ASSUME Calls, NEW s \in DOMAIN handles, NEW new, handles' = [handles EXCEPT ![s] = new]
  PROVE  /\ s \in DOMAIN Put /\ Put[s] = PutAt(s) /\ handles'[s] = new
         /\ Put' = [Put EXCEPT ![s] = PutAt(s)'] /\ (Locked(s)' <=> Locked(s))
<1>1. DOMAIN handles' = DOMAIN handles /\ handles'[s] = new
  OBVIOUS
<1>2. \A t \in DOMAIN handles : t # s => PutAt(t)' = PutAt(t)
  BY CallsFind, PutAtStays
<1>3. Put = [t \in DOMAIN handles |-> PutAt(t)] /\ Put' = [t \in DOMAIN handles |-> PutAt(t)']
  BY <1>1, PutIs
<1>4. Locked(s)' <=> Locked(s)
  BY CallsFind
<1> QED BY <1>1, <1>2, <1>3, <1>4

\* What a Write carried.
LEMMA WrittenIs ==
  ASSUME NEW q \in Seq(Chunks), NEW w \in Seq(Chunks), NEW e, D!Longer(w, q, e)
  PROVE  e \in Chunks /\ w = Append(q, e)
<1>1. PICK n \in Nat : n = Len(q)
  OBVIOUS
<1>2. Len(w) = n + 1 /\ w[n + 1] = e /\ \A k \in 1..n : w[k] = q[k]
  BY <1>1 DEF D!Longer
<1>3. e \in Chunks
  BY <1>2
<1>4. /\ Append(q, e) \in Seq(Chunks) /\ Len(Append(q, e)) = n + 1 /\ Append(q, e)[n + 1] = e
      /\ \A k \in 1..n : Append(q, e)[k] = q[k]
  BY <1>1, <1>3, AppendProperties
<1>5. \A k \in 1..Len(w) : w[k] = Append(q, e)[k]
  BY <1>2, <1>4
<1>6. w = Append(q, e)
  BY <1>2, <1>4, <1>5, SeqEqual
<1> QED BY <1>3, <1>6

\* Data, and the end of a stream.
LEMMA StreamCallIsWrite ==
  ASSUME Calls, NEW s \in DOMAIN handles, NEW new, NEW bs, D!StreamCall(s, new, bs)
  PROVE  [Archive!Next]_Archive!vars
<1>1. /\ handles' = [handles EXCEPT ![s] = new] /\ closes' = closes /\ handles[s].ack = "open"
      /\ D!Writes(handles[s], new, bs) \/ D!Finishes(handles[s], new, bs)
  BY CallsFind DEF D!StreamCall, D!MayUse, D!IsOpen
<1>2. /\ s \in DOMAIN Put /\ Put[s] = PutAt(s) /\ handles'[s] = new
      /\ Put' = [Put EXCEPT ![s] = PutAt(s)'] /\ (Locked(s)' <=> Locked(s))
      /\ Taken' = Taken /\ Over' = Over
  BY <1>1, RecordChanges, CallsFind
<1>3. PICK l \in BOOLEAN : l = Locked(s)
  BY DEF Locked
<1>4. Locked(s)' = l
  BY <1>2, <1>3 DEF Locked
<1>5. PICK q : q = handles[s].wrote
  OBVIOUS
<1>6. PICK no \in BOOLEAN, yes \in BOOLEAN : no = FALSE /\ yes = TRUE
  OBVIOUS
<1>7. PICK old : old = [data |-> q, shut |-> no, locked |-> l]
  OBVIOUS
<1>8. Put[s] = old /\ ~Put[s].shut
  <2>1. (handles[s].ack # "open") = no
    BY <1>1, <1>6
  <2> QED BY <1>2, <1>3, <1>5, <1>6, <1>7, <2>1 DEF PutAt
<1>9. CASE D!Writes(handles[s], new, bs)
  <2>1. PICK c : new.ack = "open" /\ D!Longer(new.wrote, q, c)
    BY <1>1, <1>5, <1>9 DEF D!Writes
  <2>2. q \in Seq(Chunks) /\ new.wrote \in Seq(Chunks)
    BY <1>1, <1>2, <1>5 DEF Calls, CleanWriter, OwnHandles
  <2>3. c \in Chunks /\ new.wrote = Append(q, c)
    BY <2>1, <2>2, WrittenIs
  <2>4. PICK w : w = Append(q, c)
    OBVIOUS
  <2>5. PutAt(s)' = [data |-> w, shut |-> no, locked |-> l]
    <3>1. (handles[s].ack # "open")' = no
      BY <1>2, <1>6, <2>1
    <3> QED BY <1>2, <1>4, <2>3, <2>4, <3>1 DEF PutAt
  <2>6. Put' = [Put EXCEPT ![s] = [old EXCEPT !.data = w]]
    BY <1>2, <1>7, <2>5
  <2>7. w = Append(Put[s].data, c)
    BY <1>7, <1>8, <2>4
  <2>8. Put' = [Put EXCEPT ![s].data = Append(@, c)]
    BY <1>8, <2>6, <2>7
  <2>9. Archive!Write(s, c)
    BY <1>1, <1>2, <1>8, <2>8 DEF Archive!Write
  <2> QED BY <1>2, <2>3, <2>9 DEF Archive!Next
<1>10. CASE D!Finishes(handles[s], new, bs)
  <2>1. new.ack # "open" /\ new.wrote = q
    BY <1>5, <1>10 DEF D!Finishes
  <2>2. PutAt(s)' = [data |-> q, shut |-> yes, locked |-> l]
    <3>1. (handles[s].ack # "open")' = yes
      BY <1>2, <1>6, <2>1
    <3> QED BY <1>2, <1>4, <2>1, <3>1 DEF PutAt
  <2>3. Put' = [Put EXCEPT ![s] = [old EXCEPT !.shut = yes]]
    BY <1>2, <1>7, <2>2
  <2>4. Put' = [Put EXCEPT ![s].shut = TRUE]
    BY <1>6, <1>8, <2>3
  <2>5. Archive!Shut(s)
    BY <1>1, <1>2, <1>8, <2>4 DEF Archive!Shut
  <2> QED BY <1>2, <2>5 DEF Archive!Next
<1> QED BY <1>1, <1>9, <1>10

\* Every call of the Writer is a step of the archive's, or changes nothing there.
LEMMA CallsAreSteps ==
  ASSUME Unharmed, OrderedInv, CleanWriter, WriterStep
  PROVE  [Archive!Next]_Archive!vars
<1>1. FeedInv /\ D!HandlesInv /\ D!Next /\ UNCHANGED rown
  BY SameNext DEF OrderedInv, FeedInv, WriterStep
<1>2. Calls
  <2>1. D!HandlesInv' /\ D!HandlesGrow
    BY <1>1, D!HandlesStep, PipeAssumption
  <2> QED BY <1>1, <2>1, CleanCallsGoOn DEF Calls
<1>3. CASE UNCHANGED <<wire, handles, nonce, errors, closes>>
  BY <1>2, <1>3, HandlesUntouched, CallsFind DEF Archive!vars
<1> QED BY <1>1, <1>2, <1>3, D!Steps, AsideIsFinish, NewStreamIsOpen, StreamCallIsWrite, PipeAssumption DEF D!Opened

----------------------------------------------------------------------------
(* The Reader's side of the archive.                                        *)

\* Nothing has failed and the end has not been reported.
Live    == ~R!Stopped /\ rpc # "failed"
LastSid == IF got = <<>> THEN 0 ELSE got[Len(got)].sid
AtHand  == got # <<>> /\ got[Len(got)].end = "open"

\* A step of the Reader and what holds around it.
Received == /\ Unharmed /\ OrderedInv /\ OrderedInv' /\ CleanWriter /\ CleanWriter'
            /\ UNCHANGED <<wire, wown, ended, harm>>

LEMMA OverIs ==
  /\ Over = (IF ReportedEnd THEN "end" ELSE IF Live THEN "no" ELSE "failed") /\ (ReportedEnd => ~Live)
  /\ Over' = (IF ReportedEnd' THEN "end" ELSE IF Live' THEN "no" ELSE "failed") /\ (ReportedEnd' => ~Live')
<1>1. (ReportedEnd => R!Stopped) /\ (ReportedEnd' => R!Stopped')
  BY DEF ReportedEnd, R!Stopped
<1> QED BY <1>1 DEF Over, Live

LEMMA PutKept ==
  ASSUME UNCHANGED <<wire, wown>>
  PROVE  Put' = Put /\ closes' = closes
<1>1. handles' = handles /\ closes' = closes /\ wire' = wire
  BY DEF wown
<1>2. \A s \in DOMAIN handles : PutAt(s)' = PutAt(s)
  BY <1>1, PutAtStays DEF Locked
<1> QED BY <1>1, <1>2, PutIs

\* What the archive has of the streams received.
Parcels == [sid : Nat, data : Seq(Chunks \cup {Bad}), end : {"open", "complete", "abandoned"}]
Parcel(g) == [sid |-> g.sid, data |-> g.data, end |-> EndName(g.end)]

LEMMA ParcelTyped ==
  ASSUME NEW g \in Entries
  PROVE  /\ Parcel(g) \in Parcels /\ Parcel(g).sid = g.sid /\ Parcel(g).data = g.data
         /\ Parcel(g).end = EndName(g.end) /\ (Parcel(g).end = "open" <=> g.end = "open")
<1>1. EndName(g.end) \in {"open", "complete", "abandoned"} /\ (EndName(g.end) = "open" <=> g.end = "open")
  BY DEF EndName
<1>2. g.sid \in Nat /\ g.data \in Seq(Chunks \cup {Bad})
  BY DEF Entries
<1> QED BY <1>1, <1>2 DEF Parcel, Parcels

LEMMA ParcelsIn ==
  ASSUME NEW q \in Seq(Entries), NEW t, t = [i \in DOMAIN q |-> Parcel(q[i])]
  PROVE  t \in Seq(Parcels) /\ Len(t) = Len(q) /\ \A i \in 1..Len(q) : t[i] = Parcel(q[i])
<1>1. PICK n \in Nat : n = Len(q) /\ DOMAIN q = 1..n
  OBVIOUS
<1>2. \A i \in 1..n : Parcel(q[i]) \in Parcels
  BY <1>1, ParcelTyped
<1>3. t = [i \in 1..n |-> Parcel(q[i])]
  BY <1>1
<1>4. t \in [1..n -> Parcels]
  BY <1>2, <1>3
<1> QED BY <1>1, <1>3, <1>4

LEMMA TakenIs ==
  ASSUME Received
  PROVE  /\ got \in Seq(Entries) /\ Taken \in Seq(Parcels) /\ Len(Taken) = Len(got)
         /\ \A i \in 1..Len(got) : Taken[i] = Parcel(got[i])
         /\ got' \in Seq(Entries) /\ Taken' \in Seq(Parcels) /\ Len(Taken') = Len(got')
         /\ \A i \in 1..Len(got') : Taken'[i] = Parcel(got'[i])
<1>1. got \in Seq(Entries) /\ got' \in Seq(Entries)
  BY DEF Received, OrderedInv, ReceiveInv, ReaderTypes
<1>2. /\ Taken = [i \in DOMAIN got |-> Parcel(got[i])]
      /\ Taken' = [i \in DOMAIN got' |-> Parcel(got'[i])]
  BY DEF Taken, Parcel
<1> QED BY <1>1, <1>2, ParcelsIn

LEMMA TakenMeans ==
  ASSUME Received
  PROVE  /\ Archive!LastTaken = LastSid
         /\ Archive!Idle <=> ~AtHand
<1>1. Taken = <<>> <=> got = <<>>
  BY TakenIs
<1>2. CASE got = <<>>
  BY <1>1, <1>2 DEF Archive!LastTaken, Archive!Idle, LastSid, AtHand
<1>3. CASE got # <<>>
  <2>1. PICK n \in Nat \ {0} : n = Len(got) /\ n = Len(Taken) /\ got[n] \in Entries /\ Taken[n] = Parcel(got[n])
    BY <1>3, TakenIs
  <2>2. Taken[n].sid = got[n].sid /\ (Taken[n].end = "open" <=> got[n].end = "open")
    BY <2>1, ParcelTyped
  <2> QED BY <1>1, <1>3, <2>1, <2>2 DEF Archive!LastTaken, Archive!Idle, LastSid, AtHand
<1> QED BY <1>2, <1>3

\* Nothing new for the archive.
LEMMA QuietIsStutter ==
  ASSUME Received, got' = got, Live <=> Live', ReportedEnd <=> ReportedEnd'
  PROVE  [Archive!Next]_Archive!vars
<1>1. Taken' = Taken
  BY DEF Taken
<1>2. Over' = Over
  BY OverIs
<1> QED BY <1>1, <1>2, PutKept DEF Archive!vars, Received

\* A call fails.
LEMMA FailureIsFail ==
  ASSUME Received, got' = got, Live, ~Live', ~ReportedEnd'
  PROVE  [Archive!Next]_Archive!vars
<1>1. Taken' = Taken
  BY DEF Taken
<1>2. Over = "no" /\ Over' = "failed"
  BY OverIs
<1>3. Archive!Fail
  BY <1>1, <1>2, PutKept DEF Archive!Fail, Received
<1> QED BY <1>3 DEF Archive!Next

\* The stream of a header on the wire, and of what was received, has a handle.
LEMMA StreamsHaveHandles ==
  ASSUME OrderedInv, CleanWriter
  PROVE  /\ \A h \in DOMAIN wire : wire[h].kind \in StreamKinds => wire[h].sid \in DOMAIN handles
         /\ got # <<>> => LastSid \in DOMAIN handles
         /\ LastSid \in Nat
<1>1. /\ wire \in Seq(D!Blocks) /\ rpos \in 1..(Len(wire) + 1) /\ handles \in Seq(D!Handles) /\ ~werr
  BY DEF OrderedInv, FeedInv, D!HandlesInv, D!TypeOK, ReceiveInv, ReaderTypes, CleanWriter
<1>2. DOMAIN handles = 1..Len(handles) /\ Len(handles) \in Nat /\ MaxStreams \in Nat
  BY <1>1, PipeAssumption
<1>3. ASSUME NEW h \in DOMAIN wire, wire[h].kind \in StreamKinds PROVE wire[h].sid \in DOMAIN handles
  <2>1. PICK n : n = wire[h].sid
    OBVIOUS
  <2>2. n \in 1..MaxStreams /\ n <= Len(handles)
    BY <1>1, <1>3, <2>1 DEF OrderedInv, Ascending
  <2> QED BY <1>2, <2>1, <2>2
<1>4. ASSUME got # <<>> PROVE LastSid \in DOMAIN handles
  <2>1. PICK h \in 1..(rpos - 1) : wire[h].kind \in StreamKinds /\ wire[h].sid = got[Len(got)].sid
    BY <1>4 DEF OrderedInv, TakenInOrder
  <2>2. h \in DOMAIN wire
    BY <1>1
  <2> QED BY <1>3, <1>4, <2>1, <2>2 DEF LastSid
<1>5. LastSid \in Nat
  <2>1. CASE got = <<>>
    BY <2>1 DEF LastSid
  <2>2. CASE got # <<>>
    BY <1>2, <1>4, <2>2
  <2> QED BY <2>1, <2>2
<1> QED BY <1>3, <1>4, <1>5

\* What such a step finds.
LEMMA ReceivedFinds ==
  ASSUME Received
  PROVE  /\ wire \in Seq(D!Blocks) /\ Len(wire) \in Nat /\ DOMAIN wire = 1..Len(wire)
         /\ rpos \in 1..(Len(wire) + 1)
         /\ handles \in Seq(D!Handles) /\ Len(handles) \in Nat /\ DOMAIN handles = 1..Len(handles)
         /\ ~werr /\ harm = {} /\ Disciplined /\ Careful /\ FeedInv /\ StreamsKept
<1>1. wire \in Seq(D!Blocks) /\ rpos \in 1..(Len(wire) + 1) /\ handles \in Seq(D!Handles)
  BY DEF Received, OrderedInv, FeedInv, D!HandlesInv, D!TypeOK, ReceiveInv, ReaderTypes
<1>2. ~werr /\ harm = {} /\ Disciplined /\ Careful /\ FeedInv /\ StreamsKept
  BY DEF Received, OrderedInv, FeedInv, CleanWriter, Unharmed
<1> QED BY <1>1, <1>2

\* The archive's stream s.
LEMMA PutHas ==
  ASSUME Received, NEW s \in DOMAIN handles
  PROVE  /\ s \in DOMAIN Put /\ Put[s].data = handles[s].wrote
         /\ (Put[s].shut <=> handles[s].ack # "open") /\ (Put[s].locked <=> Locked(s))
<1>1. PICK l \in BOOLEAN : l = Locked(s)
  BY DEF Locked
<1>2. PICK o \in BOOLEAN : o = (handles[s].ack # "open")
  OBVIOUS
<1>3. s \in DOMAIN Put /\ Put[s] = PutAt(s)
  BY PutIs
<1>4. PutAt(s) = [data |-> handles[s].wrote, shut |-> o, locked |-> l]
  BY <1>1, <1>2 DEF PutAt
<1>5. Put[s].data = handles[s].wrote /\ Put[s].shut = o /\ Put[s].locked = l
  BY <1>3, <1>4
<1>6. Put[s].shut <=> handles[s].ack # "open"
  BY <1>2, <1>5
<1>7. Put[s].locked <=> Locked(s)
  BY <1>1, <1>5
<1> QED BY <1>3, <1>5, <1>6, <1>7

LEMMA PutLength ==
  ASSUME Received
  PROVE  DOMAIN Put = 1..Len(handles) /\ Len(Put) = Len(handles)
<1>1. PICK n \in Nat : n = Len(handles) /\ DOMAIN handles = 1..n
  BY ReceivedFinds
<1>2. Put = [s \in 1..n |-> PutAt(s)]
  BY <1>1, PutIs
<1> QED BY <1>1, <1>2

\* A stream with a handle has a header.
LEMMA HandleHasHeader ==
  ASSUME Received, NEW s \in DOMAIN handles
  PROVE  \E h \in DOMAIN wire : wire[h].kind \in StreamKinds /\ wire[h].sid = s
<1>1. D!HeadersSent
  BY ReceivedFinds DEF StreamsKept
<1>2. PICK h \in DOMAIN wire : wire[h] = D!Header(s)
  BY <1>1 DEF D!HeadersSent, D!Opened
<1>3. wire[h].kind \in StreamKinds /\ wire[h].sid = s
  <2>1. wire[h] = D!EncStream(s, handles[s].nonce) \/ wire[h] = D!PlainStream(s)
    BY <1>2 DEF D!Header
  <2> QED BY <2>1 DEF D!EncStream, D!PlainStream, StreamKinds
<1> QED BY <1>3

\* The streams that the Reader has left behind without handing them out.
PassedLocked ==
  \A h \in 1..(rpos - 1) : wire[h].kind \in StreamKinds /\ wire[h].sid > LastSid => Locked(wire[h].sid)

\* Those between the last stream received and the one at block i, which the Reader
\* has come to.
LEMMA PassedOverThem ==
  ASSUME Received, PassedLocked, NEW m \in 1..(Len(handles) + 1),
         \A h \in DOMAIN wire : wire[h].kind \in StreamKinds /\ wire[h].sid < m => h < rpos
  PROVE  Archive!PassedOver(LastSid, m)
<1>1. PICK l \in Nat : l = LastSid
  BY StreamsHaveHandles DEF Received
<1>2. ASSUME NEW t \in (l + 1)..(m - 1) PROVE Put[t].locked
  <2>1. t \in DOMAIN handles /\ t < m /\ t > l /\ t \in Nat
    BY <1>1, ReceivedFinds
  <2>2. PICK h \in DOMAIN wire : wire[h].kind \in StreamKinds /\ wire[h].sid = t
    BY <2>1, HandleHasHeader
  <2>3. h \in 1..(rpos - 1)
    <3>1. h < rpos
      BY <2>1, <2>2
    <3> QED BY <3>1, ReceivedFinds
  <2>4. Locked(t)
    BY <1>1, <2>1, <2>2, <2>3 DEF PassedLocked
  <2> QED BY <2>1, <2>4, PutHas
<1> QED BY <1>1, <1>2 DEF Archive!PassedOver

\* The end is reported.
LEMMA EndIsFinished ==
  ASSUME Received, got' = got, Live, ReportedEnd', ~AtHand, closes # <<>>, PassedLocked,
         \A h \in DOMAIN wire : wire[h].kind \in StreamKinds => h < rpos
  PROVE  [Archive!Next]_Archive!vars
<1>1. Taken' = Taken /\ Over = "no" /\ Over' = "end" /\ Put' = Put /\ closes' = closes
  BY OverIs, PutKept DEF Taken, Received
<1>2. Archive!PassedOver(Archive!LastTaken, Len(Put) + 1)
  <2>1. PICK m : m = Len(handles) + 1
    OBVIOUS
  <2>2. m \in 1..(Len(handles) + 1)
    BY <2>1, ReceivedFinds
  <2>3. Archive!PassedOver(LastSid, m)
    BY <2>2, PassedOverThem
  <2> QED BY <2>1, <2>3, PutLength, TakenMeans
<1>3. Archive!Finished
  BY <1>1, <1>2, TakenMeans DEF Archive!Finished
<1> QED BY <1>3 DEF Archive!Next

\* A stream is handed out.
LEMMA DeliveryIsTake ==
  ASSUME Received, Delivers, Live, Live', ~AtHand, PassedLocked
  PROVE  [Archive!Next]_Archive!vars
<1>1. PICK s : s = wire[rpos].sid
  OBVIOUS
<1>2. /\ rpos \in 1..Len(wire) /\ wire[rpos].kind \in StreamKinds /\ rpos \in DOMAIN wire
      /\ \E kind : got' = Append(got, [sid |-> s, kind |-> kind, data |-> <<>>, end |-> "open"])
  BY <1>1, ReceivedFinds DEF Delivers, R!Deliver
<1>3. PICK r : got' = Append(got, r) /\ r.sid = s /\ r.data = <<>> /\ r.end = "open"
  BY <1>2
<1>4. s \in DOMAIN handles /\ s \in Nat
  <2>1. s \in DOMAIN handles
    BY <1>1, <1>2, StreamsHaveHandles DEF Received
  <2> QED BY <2>1, ReceivedFinds
<1>5. \A g \in DOMAIN wire : wire[g].kind \in StreamKinds =>
        wire[g].sid \in Nat /\ (g < rpos => wire[g].sid < s) /\ (g > rpos => s < wire[g].sid)
  <2>1. SUFFICES ASSUME NEW g \in DOMAIN wire, wire[g].kind \in StreamKinds
                 PROVE  wire[g].sid \in Nat /\ (g < rpos => wire[g].sid < s) /\ (g > rpos => s < wire[g].sid)
    OBVIOUS
  <2>2. wire[g].sid \in Nat
    <3>1. wire[g].sid \in DOMAIN handles
      BY <2>1, StreamsHaveHandles DEF Received
    <3> QED BY <3>1, ReceivedFinds
  <2>3. g < rpos => wire[g].sid < s
    <3>1. g < rpos => g \in 1..(rpos - 1)
      BY ReceivedFinds
    <3> QED BY <1>1, <1>2, <2>1, <3>1 DEF Received, OrderedInv, Ascending
  <2>4. g > rpos => s < wire[g].sid
    <3>1. g > rpos => rpos \in 1..(g - 1)
      BY ReceivedFinds
    <3> QED BY <1>1, <1>2, <2>1, <3>1 DEF Received, OrderedInv, Ascending
  <2> QED BY <2>2, <2>3, <2>4
<1>6. s > LastSid
  <2>1. CASE got = <<>>
    <3>1. s >= 1
      BY <1>4, ReceivedFinds
    <3> QED BY <1>4, <2>1, <3>1 DEF LastSid
  <2>2. CASE got # <<>>
    <3>1. PICK h \in 1..(rpos - 1) : wire[h].kind \in StreamKinds /\ wire[h].sid = LastSid
      BY <2>2 DEF Received, OrderedInv, TakenInOrder, LastSid
    <3>2. h \in DOMAIN wire /\ h < rpos
      BY ReceivedFinds
    <3>3. wire[h].sid < s
      BY <1>5, <3>1, <3>2
    <3>4. LastSid < s /\ LastSid \in Nat
      BY <3>1, <3>3, StreamsHaveHandles DEF Received
    <3> QED BY <1>4, <3>4
  <2> QED BY <2>1, <2>2
<1>7. Archive!PassedOver(LastSid, s)
  <2>1. s \in 1..(Len(handles) + 1)
    BY <1>4, ReceivedFinds
  <2>2. \A h \in DOMAIN wire : wire[h].kind \in StreamKinds /\ wire[h].sid < s => h < rpos
    <3>1. SUFFICES ASSUME NEW h \in DOMAIN wire, wire[h].kind \in StreamKinds, wire[h].sid < s, ~(h < rpos) PROVE FALSE
      OBVIOUS
    <3>2. h # rpos
      BY <1>1, <1>4, <3>1
    <3>3. h > rpos
      BY <3>1, <3>2, ReceivedFinds
    <3> QED BY <1>4, <1>5, <3>1, <3>3
  <2> QED BY <2>1, <2>2, PassedOverThem
<1>8. Taken' = Append(Taken, [sid |-> s, data |-> <<>>, end |-> "open"])
  <2>1. PICK n \in Nat : n = Len(got)
    BY TakenIs
  <2>2. PICK p : p = [sid |-> s, data |-> <<>>, end |-> "open"]
    OBVIOUS
  <2>3. r \in Entries /\ Len(got') = n + 1 /\ got'[n + 1] = r /\ \A i \in 1..n : got'[i] = got[i]
    <3>0. got \in Seq(Entries) /\ got' \in Seq(Entries)
      BY TakenIs
    <3>1. Len(got') = n + 1 /\ got'[n + 1] = r /\ \A i \in 1..n : got'[i] = got[i]
      BY <1>3, <2>1, <3>0
    <3>2. got'[n + 1] \in Entries
      BY <3>0, <3>1
    <3> QED BY <3>1, <3>2
  <2>4. Parcel(r) = p
    BY <1>3, <2>2 DEF Parcel, EndName
  <2>5. p \in Parcels
    BY <2>3, <2>4, ParcelTyped
  <2>6. /\ Taken' \in Seq(Parcels) /\ Len(Taken') = n + 1 /\ Taken'[n + 1] = p /\ Len(Taken) = n
        /\ \A i \in 1..n : Taken'[i] = Taken[i]
    BY <2>1, <2>3, <2>4, TakenIs
  <2>7. PICK q : q = Append(Taken, p)
    OBVIOUS
  <2>8. q \in Seq(Parcels) /\ Len(q) = n + 1 /\ q[n + 1] = p /\ \A i \in 1..n : q[i] = Taken[i]
    BY <2>5, <2>6, <2>7, TakenIs, AppendProperties
  <2>9. \A i \in 1..(n + 1) : Taken'[i] = q[i]
    BY <2>6, <2>8
  <2> QED BY <2>2, <2>6, <2>7, <2>8, <2>9, SeqEqual
<1>9. Over = "no" /\ Over' = "no" /\ Put' = Put /\ closes' = closes
  BY OverIs, PutKept DEF Received
<1>10. Archive!Take(s)
  BY <1>6, <1>7, <1>8, <1>9, TakenMeans DEF Archive!Take
<1>11. s \in DOMAIN Put
  BY <1>4, PutHas
<1> QED BY <1>10, <1>11 DEF Archive!Next

\* More of the stream in hand, or its end.
LEMMA GainIs ==
  ASSUME Received, AtHand, NEW body, NEW e, Gains(body, e)
  PROVE  /\ e \in Ends
         /\ \E g \in Entries, new \in Entries :
              /\ g = got[Len(got)] /\ More(g, body, e, new) /\ new.end = e /\ EntryFits(new)
              /\ Taken[Len(Taken)] = Parcel(g) /\ Taken' = [Taken EXCEPT ![Len(Taken)] = Parcel(new)]
<1>1. PICK n \in Nat \ {0} : n = Len(got) /\ n = Len(Taken) /\ got[n] \in Entries /\ Taken[n] = Parcel(got[n])
  BY TakenIs DEF AtHand
<1>2. PICK g \in Entries : g = got[n]
  BY <1>1
<1>3. PICK new : LastIs(new) /\ More(g, body, e, new)
  BY <1>1, <1>2 DEF Gains
<1>4. new \in Entries /\ new.end = e /\ e \in Ends
  <2>1. new \in Entries /\ new.end = e
    BY <1>1, <1>2, <1>3 DEF More, AtHand
  <2> QED BY <2>1 DEF Entries
<1>5. EntryFits(new)
  <2>1. (\A i \in 1..Len(got) : EntryFits(got[i]))'
    BY DEF Received, OrderedInv, ReceiveInv
  <2>2. Len(got') = n /\ got'[n] = new
    BY <1>1, <1>3 DEF LastIs
  <2>3. EntryFits(new)'
    BY <1>1, <2>1, <2>2
  <2> QED BY <2>3, ReadingLeaves DEF Received
<1>6. Taken' = [Taken EXCEPT ![n] = Parcel(new)]
  <2>1. /\ Taken \in Seq(Parcels) /\ Taken' \in Seq(Parcels) /\ Len(Taken) = n /\ Len(Taken') = n
        /\ Taken'[n] = Parcel(new) /\ \A i \in 1..n : i # n => Taken'[i] = Taken[i]
    <3>1. Len(got') = n /\ got'[n] = new /\ \A i \in 1..n : i # n => got'[i] = got[i]
      BY <1>1, <1>3 DEF LastIs
    <3>2. /\ Taken \in Seq(Parcels) /\ Taken' \in Seq(Parcels) /\ Len(Taken') = n
          /\ \A i \in 1..n : Taken[i] = Parcel(got[i]) /\ Taken'[i] = Parcel(got'[i])
      BY <1>1, <3>1, TakenIs
    <3>3. n \in 1..n
      OBVIOUS
    <3>4. \A i \in 1..n : i # n => Taken'[i] = Taken[i]
      BY <3>1, <3>2
    <3> QED BY <1>1, <3>1, <3>2, <3>3, <3>4
  <2>2. PICK p : p = Parcel(new)
    OBVIOUS
  <2>3. p \in Parcels
    BY <1>4, <2>2, ParcelTyped
  <2>4. PICK q : q = [Taken EXCEPT ![n] = p]
    OBVIOUS
  <2>5. q \in Seq(Parcels) /\ Len(q) = n /\ q[n] = p /\ \A i \in 1..n : i # n => q[i] = Taken[i]
    BY <1>1, <2>1, <2>3, <2>4
  <2>6. \A i \in 1..n : Taken'[i] = q[i]
    BY <2>1, <2>2, <2>5
  <2>7. Taken' = q
    BY <2>1, <2>5, <2>6, SeqEqual
  <2> QED BY <2>2, <2>4, <2>7
<1> QED BY <1>1, <1>2, <1>3, <1>4, <1>5, <1>6

\* What was received of a stream is a beginning of what was written, and all of
\* it at the end.
LEMMA EntryMeans ==
  ASSUME Received, NEW g \in Entries, EntryFits(g), g.sid \in DOMAIN handles
  PROVE  /\ Archive!IsPrefix(g.data, handles[g.sid].wrote)
         /\ Len(g.data) <= Len(handles[g.sid].wrote)
         /\ \A k \in 1..Len(g.data) : g.data[k] = handles[g.sid].wrote[k]
         /\ g.end = "EOF" => g.data = handles[g.sid].wrote /\ handles[g.sid].ack # "open"
<1>1. g.kind \in {"enc", "nokey", "plain"} /\ g.data \in Seq(Chunks \cup {Bad})
  BY DEF Entries
<1>2. Begins(g.data, g.sid)
  <2>1. CASE g.kind = "nokey"
    BY <2>1 DEF EntryFits, Begins
  <2>2. CASE g.kind # "nokey"
    BY <1>1, <2>2, ReceivedFinds DEF EntryFits
  <2> QED BY <2>1, <2>2
<1>3. IsPrefix(g.data, Wrote(g.sid))
  BY <1>1, <1>2, BeginsIsPrefix, ReceivedFinds
<1>4. Archive!IsPrefix(g.data, handles[g.sid].wrote)
  BY <1>3 DEF IsPrefix, Archive!IsPrefix, Wrote
<1>5. PICK w : w = handles[g.sid].wrote
  OBVIOUS
<1>6. Len(g.data) <= Len(w) /\ \A k \in 1..Len(g.data) : g.data[k] = w[k]
  <2>1. w \in Seq(Chunks)
    BY <1>5 DEF Received, CleanWriter, OwnHandles
  <2> QED BY <1>1, <1>2, <1>5, <2>1 DEF Begins, D!Prolongs
<1>7. ASSUME g.end = "EOF" PROVE g.data = w /\ handles[g.sid].ack # "open"
  <2>1. AllOf(g.data, g.sid)
    BY <1>1, <1>7, ReceivedFinds DEF EntryFits
  <2> QED BY <1>5, <2>1 DEF AllOf
<1> QED BY <1>4, <1>5, <1>6, <1>7

\* A block carries one chunk at most, which is none that was damaged.
LEMMA PieceIs ==
  ASSUME Received, NEW body \in Seq(Chunks), Piece(body)
  PROVE  body \in {<<>>} \cup {<<c>> : c \in Chunks}
<1>1. SUFFICES ASSUME body # <<>> PROVE \E c \in Chunks : body = <<c>>
  OBVIOUS
<1>2. PICK p \in D!Payloads : BlockSound(Datablock(p)) /\ body = p.body
  BY <1>1 DEF Piece
<1>3. PICK b : b = Datablock(p)
  OBVIOUS
<1>4. b.kind = "Datablock" /\ b.payload = p
  BY <1>3 DEF Datablock
<1>5. Intact(b)
  <2>1. \A i \in DOMAIN body : body[i] \in Chunks
    OBVIOUS
  <2>2. \A i \in DOMAIN p.body : p.body[i] # Bad
    BY <1>2, <2>1, PipeAssumption
  <2> QED BY <1>4, <2>2 DEF Intact
<1>6. D!BlockFits(b)
  BY <1>2, <1>3, <1>5 DEF BlockSound
<1>7. \E c : body = <<c>>
  <2>1. CASE p.key = NoKey
    <3>1. PICK c : p = Clear(<<c>>)
      BY <1>2, <1>3, <1>4, <2>1 DEF BlockSound
    <3> QED BY <1>2, <3>1 DEF Clear
  <2>2. CASE p.key # NoKey
    <3>1. D!Genuine(p)
      BY <1>4, <1>6, <2>2 DEF D!BlockFits, D!NoKey, NoKey
    <3>2. PICK s \in DOMAIN handles : \E k \in 1..Len(handles[s].sum) : handles[s].sum[k] = p
      BY <3>1 DEF D!Genuine, D!Opened
    <3>3. PICK k \in 1..Len(handles[s].sum) : handles[s].sum[k] = p
      BY <3>2
    <3>4. D!HandleFits(handles[s])
      BY ReceivedFinds DEF FeedInv, D!HandlesInv, D!Opened
    <3>5. PICK hd : hd = handles[s]
      OBVIOUS
    <3>6. p = D!PayloadOf(hd, k)
      BY <3>3, <3>4, <3>5 DEF D!HandleFits
    <3>7. p.body = <<hd.wrote[k]>> \/ p.body = <<>>
      BY <3>6 DEF D!PayloadOf, D!Sealed, D!Clear
    <3> QED BY <1>1, <1>2, <3>7
  <2> QED BY <2>1, <2>2
<1>8. PICK c : body = <<c>>
  BY <1>7
<1>9. c \in Chunks
  BY <1>8
<1> QED BY <1>8, <1>9

\* The next piece of the stream in hand, or its end.
LEMMA GainIsReceive ==
  ASSUME Received, AtHand, NEW body, NEW e \in {"open", "EOF"}, Gains(body, e), Live, Live'
  PROVE  [Archive!Next]_Archive!vars
<1>1. PICK g \in Entries, new \in Entries :
        /\ g = got[Len(got)] /\ More(g, body, e, new) /\ new.end = e /\ EntryFits(new)
        /\ Taken[Len(Taken)] = Parcel(g) /\ Taken' = [Taken EXCEPT ![Len(Taken)] = Parcel(new)]
  BY GainIs
<1>2. PICK s : s = g.sid
  OBVIOUS
<1>3. s \in DOMAIN handles /\ new.sid = s /\ new.data = g.data \o body
  BY <1>1, <1>2, StreamsHaveHandles DEF More, AtHand, LastSid, Received
<1>4. /\ Archive!IsPrefix(new.data, handles[s].wrote) /\ Len(new.data) <= Len(handles[s].wrote)
      /\ \A k \in 1..Len(new.data) : new.data[k] = handles[s].wrote[k]
      /\ e = "EOF" => new.data = handles[s].wrote /\ handles[s].ack # "open"
  BY <1>1, <1>3, EntryMeans
<1>5. body \in Seq(Chunks)
  <2>1. PICK a, w : a = g.data /\ w = handles[s].wrote
    OBVIOUS
  <2>2. a \in Seq(Chunks \cup {Bad}) /\ body \in Seq(Chunks \cup {Bad}) /\ w \in Seq(Chunks)
    <3>1. w \in Seq(Chunks)
      BY <1>3, <2>1 DEF Received, CleanWriter, OwnHandles
    <3> QED BY <2>1, <3>1 DEF Entries, Gains
  <2>3. PICK q : q = a \o body
    OBVIOUS
  <2>4. Len(q) <= Len(w) /\ \A k \in 1..Len(q) : q[k] = w[k]
    BY <1>3, <1>4, <2>1, <2>3
  <2>5. Len(q) = Len(a) + Len(body) /\ \A i \in 1..Len(body) : q[Len(a) + i] = body[i]
    BY <2>2, <2>3, ConcatProperties
  <2>6. Len(a) \in Nat /\ Len(body) \in Nat /\ Len(w) \in Nat
    BY <2>2
  <2>7. \A i \in 1..Len(body) : body[i] \in Chunks
    <3>1. SUFFICES ASSUME NEW i \in 1..Len(body) PROVE body[i] \in Chunks
      OBVIOUS
    <3>2. PICK j : j = Len(a) + i
      OBVIOUS
    <3>3. j \in 1..Len(q) /\ j \in 1..Len(w)
      BY <2>4, <2>5, <2>6, <3>2
    <3>4. body[i] = w[j]
      BY <2>4, <2>5, <3>2, <3>3
    <3> QED BY <2>2, <3>3, <3>4
  <2> QED BY <2>2, <2>7
<1>6. body \in {<<>>} \cup {<<c>> : c \in Chunks}
  BY <1>5, PieceIs DEF Gains
<1>7. PICK t : t = Taken[Len(Taken)]
  OBVIOUS
<1>8. t.sid = s /\ t.data = g.data /\ Parcel(new) = [sid |-> s, data |-> t.data \o body, end |-> EndName(e)]
  BY <1>1, <1>2, <1>3, <1>7, ParcelTyped DEF Parcel
<1>9. EndName(e) \in {"open", "complete"} /\ (EndName(e) = "complete" => e = "EOF")
  BY DEF EndName
<1>10. /\ s \in DOMAIN Put /\ Put[s].data = handles[s].wrote /\ (Put[s].shut <=> handles[s].ack # "open")
  BY <1>3, PutHas
<1>11. Over = "no" /\ Over' = "no" /\ Put' = Put /\ closes' = closes
  BY OverIs, PutKept DEF Received
<1>12. ~Archive!Idle
  BY TakenMeans
<1>13. Archive!IsPrefix(t.data \o body, Put[t.sid].data)
  BY <1>3, <1>4, <1>8, <1>10
<1>14. EndName(e) = "complete" => t.data \o body = Put[t.sid].data /\ Put[t.sid].shut
  BY <1>3, <1>4, <1>8, <1>9, <1>10
<1>15. Taken' = [Taken EXCEPT ![Len(Taken)] = [sid |-> t.sid, data |-> t.data \o body, end |-> EndName(e)]]
  BY <1>1, <1>8
<1>16. Archive!Receive(body, EndName(e))
  BY <1>7, <1>11, <1>12, <1>13, <1>14, <1>15 DEF Archive!Receive
<1> QED BY <1>6, <1>9, <1>16 DEF Archive!Next

\* The stream in hand is given up.
LEMMA GainIsAbandon ==
  ASSUME Received, AtHand, NEW e, e \notin {"open", "EOF"}, Gains(<<>>, e), Live, ~ReportedEnd'
  PROVE  [Archive!Next]_Archive!vars
<1>1. PICK g \in Entries, new \in Entries :
        /\ g = got[Len(got)] /\ More(g, <<>>, e, new)
        /\ Taken[Len(Taken)] = Parcel(g) /\ Taken' = [Taken EXCEPT ![Len(Taken)] = Parcel(new)]
  BY GainIs
<1>2. PICK t : t = Taken[Len(Taken)]
  OBVIOUS
<1>3. Parcel(new) = [t EXCEPT !.end = "abandoned"]
  <2>1. new.sid = g.sid /\ new.data = g.data /\ new.end = e
    BY <1>1 DEF More, AtHand
  <2>2. EndName(e) = "abandoned"
    BY DEF EndName
  <2>3. Parcel(new) = [sid |-> g.sid, data |-> g.data, end |-> "abandoned"]
    BY <2>1, <2>2 DEF Parcel
  <2>4. t = [sid |-> g.sid, data |-> g.data, end |-> EndName(g.end)]
    BY <1>1, <1>2 DEF Parcel
  <2> QED BY <2>3, <2>4
<1>4. Taken' = [Taken EXCEPT ![Len(Taken)].end = "abandoned"]
  BY <1>1, <1>2, <1>3
<1>5. Over = "no" /\ Over' \in {"no", "failed"} /\ Put' = Put /\ closes' = closes
  BY OverIs, PutKept DEF Received
<1>6. Archive!Abandon
  BY <1>4, <1>5, TakenMeans DEF Archive!Abandon
<1> QED BY <1>6 DEF Archive!Next

----------------------------------------------------------------------------
(* The Reader of careful callers.                                           *)

\* The loops run when nothing has failed, on the Stream they are for.
InLoop ==
  /\ R!Stopped => rpc \in {"idle", "failed"}
  /\ rpc \in {"next", "pass"} => cur.kind = "none" \/ cur.done
  /\ rpc \in {"skip", "read"} => cur.kind # "none" /\ ~cur.done

\* No error is kept but that of the end of the input, after the last stream.
AtRest == rerr # "nil" => rpc = "idle" /\ rerr = "EOF" /\ R!Drained /\ cur.done
\* The caller is done with the Stream in hand when its end was received.
Marked == cur.kind # "none" => (cur.done <=> got[Len(got)].end # "open")

Tidy   == InLoop /\ (Live => AtRest /\ Marked /\ PassedLocked /\ KeyKept)
Steady == Received /\ PipeInv /\ ReaderInv /\ Tidy

\* What a call that returns tells the caller.
LEMMA ReturnMeans ==
  ASSUME NEW call, NEW e, R!Return(call, e)
  PROVE  /\ rpc' = "idle"
         /\ R!Stopped' <=> e \in R!Failures \/ (e = "EOF" /\ call \in {"next", "skip"})
         /\ ReportedEnd' <=> call = "next" /\ e = "EOF"
         /\ Live' <=> ~R!Stopped'
<1>1. rpc' = "idle" /\ ret' = [call |-> call, err |-> e]
  BY DEF R!Return
<1>2. ret'.err = e /\ ret'.call = call
  BY <1>1
<1>3. R!Stopped' <=> e \in R!Failures \/ (e = "EOF" /\ call \in {"next", "skip"})
  BY <1>1, <1>2 DEF R!Stopped, R!Failures
<1>4. ReportedEnd' <=> call = "next" /\ e = "EOF"
  BY <1>1, <1>2 DEF ReportedEnd
<1>5. Live' <=> ~R!Stopped'
  BY <1>1 DEF Live
<1> QED BY <1>1, <1>3, <1>4, <1>5

\* The end of the input is the end of the output of a Writer that was closed.
LEMMA DrainedMeans ==
  ASSUME Received, R!Drained
  PROVE  /\ rpos = Len(wire) + 1 /\ closes # <<>> /\ \A loop : R!AtEnd(loop) = {"EOF"}
         /\ \A h \in DOMAIN wire : h < rpos
<1>1. ended /\ (rpos > Len(wire) \/ wire[rpos].kind = "Partial")
  BY ReceivedFinds DEF R!Drained, R!HasBlock
<1>2. ~(rpos \in DOMAIN wire /\ wire[rpos].kind = "Partial")
  <2>1. SUFFICES ASSUME rpos \in DOMAIN wire, wire[rpos].kind = "Partial" PROVE FALSE
    OBVIOUS
  <2>2. BlockSound(wire[rpos])
    BY <2>1, ReceivedFinds DEF FeedInv, Range
  <2>3. Intact(wire[rpos])
    BY <2>1, ReceivedFinds DEF Intact
  <2>4. werr
    BY <2>1, <2>2, <2>3 DEF BlockSound, D!BlockFits
  <2> QED BY <2>4, ReceivedFinds
<1>3. rpos = Len(wire) + 1
  BY <1>1, <1>2, ReceivedFinds
<1>4. closes # <<>>
  BY <1>1, ReceivedFinds DEF FeedInv
<1>5. rpos > Len(wire)
  BY <1>3, ReceivedFinds
<1>6. \A loop : R!AtEnd(loop) = {"EOF"}
  BY <1>5 DEF R!AtEnd
<1>7. \A h \in DOMAIN wire : h < rpos
  BY <1>3, ReceivedFinds
<1> QED BY <1>3, <1>4, <1>6, <1>7

----------------------------------------------------------------------------
(* What has been passed.                                                    *)

LEMMA LockedSame ==
  ASSUME UNCHANGED <<wire, wown>>
  PROVE  \A s : Locked(s)' <=> Locked(s)
BY DEF Locked, wown

\* The places before the Reader when it stays or goes on by one.
LEMMA OneFurther ==
  ASSUME NEW r \in Nat \ {0}, NEW q \in Nat, q = r \/ q = r + 1
  PROVE  /\ \A h \in 1..(q - 1) : h \in 1..(r - 1) \/ (h = r /\ q # r)
         /\ \A i \in 1..(r - 1) : i \in 1..(q - 1)
         /\ \A j \in Nat : \A m \in (j + 1)..(r - 1) : m \in (j + 1)..(q - 1)
OBVIOUS

\* A step that passes neither a key nor a header.
LEMMA NothingPassed ==
  ASSUME Received, PassedLocked, KeyKept, rkey' = rkey, LastSid' = LastSid,
         rpos' = rpos \/ (rpos' = rpos + 1 /\ rpos \in 1..Len(wire) /\ wire[rpos].kind \notin KeyKinds \cup StreamKinds)
  PROVE  PassedLocked' /\ KeyKept'
<1>1. wire' = wire /\ \A s : Locked(s)' <=> Locked(s)
  BY LockedSame DEF Received
<1>2. PICK r \in Nat \ {0} : r = rpos
  BY ReceivedFinds
<1>3. PICK q \in Nat : /\ q = rpos' /\ (q = r \/ q = r + 1)
                       /\ q # r => wire[r].kind \notin KeyKinds \cup StreamKinds
  BY <1>2
<1>4. \A h \in 1..(q - 1) : h \in 1..(r - 1) \/ (h = r /\ q # r)
  BY <1>3, OneFurther
<1>5. \A i \in 1..(r - 1) : i \in 1..(q - 1)
  BY <1>3, OneFurther
<1>6. PassedLocked'
  BY <1>1, <1>2, <1>3, <1>4 DEF PassedLocked
<1>7. ASSUME NEW k, KeyBefore(rpos, k)' PROVE KeyBefore(rpos, k)
  <2>1. PICK j \in 1..(q - 1) :
          wire[j].kind \in KeyKinds /\ wire[j].key = k /\ \A m \in (j + 1)..(q - 1) : wire[m].kind \notin KeyKinds
    BY <1>1, <1>3, <1>7 DEF KeyBefore
  <2>2. j \in 1..(r - 1)
    BY <1>3, <1>4, <2>1
  <2>3. \A m \in (j + 1)..(r - 1) : m \in (j + 1)..(q - 1)
    <3>1. j \in Nat
      BY <2>2
    <3> QED BY <1>3, <3>1, OneFurther
  <2> QED BY <1>2, <2>1, <2>2, <2>3 DEF KeyBefore
<1>8. KeyKept'
  BY <1>1, <1>2, <1>3, <1>5, <1>7 DEF KeyKept
<1> QED BY <1>6, <1>8

\* A key, which needs a private key if it is not kept.
LEMMA KeyPassed ==
  ASSUME Received, PassedLocked, LastSid' = LastSid, rpos' = rpos + 1, rpos \in 1..Len(wire),
         wire[rpos].kind \in KeyKinds, rkey' # NoKey \/ wire[rpos].kind = "EncryptedKey"
  PROVE  PassedLocked' /\ KeyKept'
<1>1. wire' = wire /\ \A s : Locked(s)' <=> Locked(s)
  BY LockedSame DEF Received
<1>2. rpos \in Nat \ {0}
  BY ReceivedFinds
<1>3. \A h \in 1..(rpos' - 1) : h \in 1..(rpos - 1) \/ wire[h].kind \notin StreamKinds
  BY <1>2 DEF KeyKinds, StreamKinds
<1>4. PassedLocked'
  BY <1>1, <1>3 DEF PassedLocked
<1>5. ASSUME NEW k, KeyBefore(rpos, k)' PROVE wire[rpos].key = k
  <2>1. PICK j \in 1..(rpos' - 1) :
          wire[j].kind \in KeyKinds /\ wire[j].key = k /\ \A m \in (j + 1)..(rpos' - 1) : wire[m].kind \notin KeyKinds
    BY <1>1, <1>5 DEF KeyBefore
  <2>2. rpos \notin (j + 1)..(rpos' - 1)
    BY <2>1
  <2>3. j = rpos
    BY <1>2, <2>2
  <2> QED BY <2>1, <2>3
<1>6. rpos \in 1..(rpos' - 1)
  BY <1>2
<1>7. KeyKept'
  BY <1>1, <1>5, <1>6 DEF KeyKept
<1> QED BY <1>4, <1>7

\* A header that cannot be read for want of a key is that of a locked stream.
LEMMA HeaderPassed ==
  ASSUME Received, PipeInv, PassedLocked, KeyKept, UNCHANGED <<got, rkey>>, rpos' = rpos + 1, rpos \in 1..Len(wire),
         wire[rpos].kind = "EncStream", rkey = NoKey
  PROVE  PassedLocked' /\ KeyKept'
<1>1. wire' = wire /\ \A s : Locked(s)' <=> Locked(s)
  BY LockedSame DEF Received
<1>2. rpos \in Nat \ {0} /\ rpos \in DOMAIN wire
  BY ReceivedFinds
<1>3. PICK s : s = wire[rpos].sid
  OBVIOUS
<1>4. Locked(s)
  <2>1. s \in DOMAIN handles
    BY <1>2, <1>3, StreamsHaveHandles DEF Received, StreamKinds
  <2>2. KeyBefore(rpos, handles[s].key)
    BY <1>2, <1>3, <2>1 DEF PipeInv, HeadersFit
  <2>3. PICK i \in 1..(rpos - 1) : wire[i].kind = "EncryptedKey" /\ wire[i].key = handles[s].key
    BY <2>2 DEF KeyKept
  <2>4. i \in DOMAIN wire
    BY ReceivedFinds
  <2>5. handles[s].enc
    <3>1. wire[rpos] = D!Header(s)
      BY <1>2, <1>3, <2>1, ReceivedFinds DEF StreamsKept, D!HeadersNamed, D!KindAt, D!Opened, StreamKinds, D!StreamKinds
    <3> QED BY <3>1 DEF D!Header, D!PlainStream
  <2> QED BY <2>3, <2>4, <2>5 DEF Locked
<1>5. LastSid' = LastSid
  BY DEF LastSid
<1>6. \A h \in 1..(rpos' - 1) : h \in 1..(rpos - 1) \/ h = rpos
  BY <1>2
<1>7. PassedLocked'
  BY <1>1, <1>3, <1>4, <1>5, <1>6 DEF PassedLocked
<1>8. ASSUME NEW k, KeyBefore(rpos, k)' PROVE KeyBefore(rpos, k)
  <2>1. PICK j \in 1..(rpos' - 1) :
          wire[j].kind \in KeyKinds /\ wire[j].key = k /\ \A m \in (j + 1)..(rpos' - 1) : wire[m].kind \notin KeyKinds
    BY <1>1, <1>8 DEF KeyBefore
  <2>2. j # rpos
    BY <2>1 DEF KeyKinds
  <2>3. j \in 1..(rpos - 1) /\ \A m \in (j + 1)..(rpos - 1) : m \in (j + 1)..(rpos' - 1)
    BY <1>2, <2>1, <2>2
  <2> QED BY <2>1, <2>3 DEF KeyBefore
<1>9. \A i \in 1..(rpos - 1) : i \in 1..(rpos' - 1)
  BY <1>2
<1>10. KeyKept'
  BY <1>1, <1>8, <1>9 DEF KeyKept
<1> QED BY <1>7, <1>10

\* A stream that is handed out leaves none behind.
LEMMA HeaderDelivered ==
  ASSUME Received, KeyKept, rkey' = rkey, Delivers
  PROVE  PassedLocked' /\ KeyKept'
<1>1. wire' = wire /\ rpos \in 1..Len(wire) /\ rpos' = rpos + 1 /\ wire[rpos].kind \in StreamKinds /\ rpos \in Nat \ {0}
  BY ReceivedFinds DEF Received, Delivers
<1>2. PICK s : s = wire[rpos].sid
  OBVIOUS
<1>3. LastSid' = s
  <2>1. PICK r : got' = Append(got, r) /\ r.sid = s
    BY <1>2 DEF Delivers, R!Deliver
  <2>2. got \in Seq(Entries)
    BY TakenIs
  <2>3. got' # <<>> /\ got'[Len(got')] = r
    BY <2>1, <2>2
  <2> QED BY <2>1, <2>3 DEF LastSid
<1>4. s \in Nat /\ \A h \in 1..(rpos' - 1) : wire[h].kind \in StreamKinds => ~(wire[h].sid > s)
  <2>1. s \in Nat
    <3>1. s \in DOMAIN handles
      BY <1>1, <1>2, StreamsHaveHandles, ReceivedFinds DEF Received
    <3> QED BY <3>1, ReceivedFinds
  <2>2. ASSUME NEW h \in 1..(rpos' - 1), wire[h].kind \in StreamKinds PROVE ~(wire[h].sid > s)
    <3>1. h \in DOMAIN wire
      BY <1>1, ReceivedFinds
    <3>2. wire[h].sid \in Nat
      <4>1. wire[h].sid \in DOMAIN handles
        BY <2>2, <3>1, StreamsHaveHandles DEF Received
      <4> QED BY <4>1, ReceivedFinds
    <3>3. CASE h = rpos
      BY <1>2, <2>1, <3>3
    <3>4. CASE h # rpos
      <4>1. h \in 1..(rpos - 1)
        BY <1>1, <3>4
      <4>2. wire[h].sid < s
        BY <1>1, <1>2, <2>2, <4>1, ReceivedFinds DEF Received, OrderedInv, Ascending
      <4> QED BY <2>1, <3>2, <4>2
    <3> QED BY <3>3, <3>4
  <2> QED BY <2>1, <2>2
<1>5. PassedLocked'
  BY <1>1, <1>3, <1>4 DEF PassedLocked
<1>6. ASSUME NEW k, KeyBefore(rpos, k)' PROVE KeyBefore(rpos, k)
  <2>1. PICK j \in 1..(rpos' - 1) :
          wire[j].kind \in KeyKinds /\ wire[j].key = k /\ \A m \in (j + 1)..(rpos' - 1) : wire[m].kind \notin KeyKinds
    BY <1>1, <1>6 DEF KeyBefore
  <2>2. j # rpos
    BY <1>1, <2>1 DEF KeyKinds, StreamKinds
  <2>3. j \in 1..(rpos - 1) /\ \A m \in (j + 1)..(rpos - 1) : m \in (j + 1)..(rpos' - 1)
    BY <1>1, <2>1, <2>2
  <2> QED BY <2>1, <2>3 DEF KeyBefore
<1>7. \A i \in 1..(rpos - 1) : i \in 1..(rpos' - 1)
  BY <1>1
<1>8. KeyKept'
  BY <1>1, <1>6, <1>7 DEF KeyKept
<1> QED BY <1>5, <1>8

----------------------------------------------------------------------------
(* The Reader's steps, each a step of the archive's.                        *)

LEMMA SteadyFinds ==
  ASSUME Steady
  PROVE  /\ Received /\ Reading /\ Careful
         /\ rpc \in {"next", "pass", "read"} => rerr = "nil"
         /\ cur.kind # "none" <=> got # <<>>
         /\ rpc \notin {"idle", "failed"} => Live
         /\ Live => PassedLocked /\ KeyKept /\ (AtHand <=> cur.kind # "none" /\ ~cur.done)
                    /\ (rerr # "nil" => rpc = "idle" /\ rerr = "EOF" /\ R!Drained /\ cur.done)
<1>1. Received /\ Reading /\ Careful
  BY ReceivedFinds DEF Steady, Received, Reading, OrderedInv
<1>2. rpc \in {"next", "pass", "read"} => rerr = "nil"
  BY DEF Steady, ReaderInv
<1>3. cur.kind # "none" <=> got # <<>>
  BY DEF Steady, Received, OrderedInv, Fields, ReceiveInv
<1>4. rpc \notin {"idle", "failed"} => Live
  BY DEF Steady, Tidy, InLoop, Live
<1>5. ASSUME Live
      PROVE  /\ PassedLocked /\ KeyKept /\ (AtHand <=> cur.kind # "none" /\ ~cur.done)
             /\ (rerr # "nil" => rpc = "idle" /\ rerr = "EOF" /\ R!Drained /\ cur.done)
  BY <1>3, <1>5 DEF Steady, Tidy, AtRest, Marked, AtHand
<1> QED BY <1>1, <1>2, <1>3, <1>4, <1>5

\* A step after which the caller has what it had and nothing has failed.
LEMMA GoesOnQuietly ==
  ASSUME Steady, Live, Live', ~ReportedEnd', rerr = "nil", rerr' = "nil", got' = got,
         cur'.kind = cur.kind, cur'.done = cur.done, InLoop', PassedLocked', KeyKept'
  PROVE  Tidy' /\ [Archive!Next]_Archive!vars
<1>1. Marked /\ ~ReportedEnd
  BY OverIs DEF Steady, Tidy
<1>2. Marked'
  BY <1>1 DEF Marked
<1>3. AtRest'
  BY DEF AtRest
<1>4. Tidy'
  BY <1>2, <1>3 DEF Tidy
<1> QED BY <1>1, <1>4, QuietIsStutter, SteadyFinds

\* A call that fails.
LEMMA CallFails ==
  ASSUME Steady, Live, got' = got, NEW e, R!Return("next", e) \/ R!Return("read", e), e \in R!Failures
  PROVE  Tidy' /\ [Archive!Next]_Archive!vars
<1>1. rpc' = "idle" /\ R!Stopped' /\ ~ReportedEnd' /\ ~Live'
  BY ReturnMeans DEF R!Failures
<1>2. Tidy'
  BY <1>1 DEF Tidy, InLoop
<1> QED BY <1>1, <1>2, FailureIsFail, SteadyFinds

\* NextStream at the end.
LEMMA CallEnds ==
  ASSUME Steady, Live, got' = got, R!Return("next", "EOF"), cur.kind = "none" \/ cur.done, closes # <<>>,
         \A h \in DOMAIN wire : wire[h].kind \in StreamKinds => h < rpos
  PROVE  Tidy' /\ [Archive!Next]_Archive!vars
<1>1. rpc' = "idle" /\ R!Stopped' /\ ReportedEnd' /\ ~Live'
  BY ReturnMeans
<1>2. Tidy'
  BY <1>1 DEF Tidy, InLoop
<1>3. ~AtHand
  BY SteadyFinds
<1> QED BY <1>1, <1>2, <1>3, EndIsFinished, SteadyFinds

LEMMA DrainedEnds ==
  ASSUME Steady, Live, got' = got, R!Return("next", "EOF"), cur.kind = "none" \/ cur.done, R!Drained
  PROVE  Tidy' /\ [Archive!Next]_Archive!vars
BY CallEnds, DrainedMeans, SteadyFinds

\* The call that runs goes on, or returns and nothing has failed.
LEMMA StillInLoop ==
  ASSUME Steady, Live, cur'.kind = cur.kind, cur'.done = cur.done,
         \/ UNCHANGED <<rpc, ret>>
         \/ ret' = ret /\ rpc' \in {"next", "pass"} /\ (cur.kind = "none" \/ cur.done)
         \/ ret' = ret /\ rpc' \in {"skip", "read"} /\ cur.kind # "none" /\ ~cur.done
         \/ \E call, e : R!Return(call, e) /\ e \in {"nil", "InStream", "ErrNoKey"}
         \/ R!Return("read", "EOF")
  PROVE  InLoop' /\ Live' /\ ~ReportedEnd'
<1>1. InLoop /\ ~ReportedEnd /\ ~R!Stopped /\ rpc # "failed"
  BY OverIs DEF Steady, Tidy, Live
<1>2. CASE ret' = ret /\ (rpc' = rpc \/ rpc' \in {"next", "pass", "skip", "read"})
  <2>1. ~R!Stopped' /\ ~ReportedEnd' /\ rpc' # "failed"
    BY <1>1, <1>2 DEF R!Stopped, ReportedEnd
  <2>2. (rpc' \in {"next", "pass"} => cur.kind = "none" \/ cur.done) /\ (rpc' \in {"skip", "read"} => cur.kind # "none" /\ ~cur.done)
    <3>1. CASE UNCHANGED <<rpc, ret>>
      BY <1>1, <3>1 DEF InLoop
    <3>2. CASE \E call, e : R!Return(call, e)
      BY <3>2 DEF R!Return
    <3> QED BY <3>1, <3>2
  <2> QED BY <2>1, <2>2 DEF InLoop, Live
<1>3. CASE \E call, e : R!Return(call, e) /\ e \in {"nil", "InStream", "ErrNoKey"}
  <2>1. PICK call, e : R!Return(call, e) /\ e \in {"nil", "InStream", "ErrNoKey"}
    BY <1>3
  <2>2. rpc' = "idle" /\ ~R!Stopped' /\ ~ReportedEnd' /\ Live'
    BY <2>1, ReturnMeans DEF R!Failures
  <2> QED BY <2>2 DEF InLoop
<1>4. CASE R!Return("read", "EOF")
  <2>1. rpc' = "idle" /\ ~R!Stopped' /\ ~ReportedEnd' /\ Live'
    BY <1>4, ReturnMeans DEF R!Failures
  <2> QED BY <2>1 DEF InLoop
<1> QED BY <1>2, <1>3, <1>4

\* The setters.
LEMMA SettersAreSteps ==
  ASSUME Steady, R!Setters
  PROVE  Tidy' /\ [Archive!Next]_Archive!vars
<1>1. UNCHANGED <<rpos, rerr, inStream, rkey, rpc, cur, ret, got>> /\ UNCHANGED <<wire, wown, ended>>
  BY DEF R!Setters, R!SetPrivateKey, R!PrivateKeyProvider, R!SkipEncrypted, R!ReturnNonDecryptable, R!Configure,
         Steady, Received
<1>2. (Live' <=> Live) /\ (ReportedEnd' <=> ReportedEnd) /\ (R!Stopped' <=> R!Stopped)
  BY <1>1 DEF Live, R!Stopped, ReportedEnd
<1>3. InLoop' /\ (AtRest => AtRest') /\ (Marked => Marked')
  BY <1>1, <1>2 DEF InLoop, AtRest, Marked, Steady, Tidy, R!Drained, R!HasBlock
<1>4. PassedLocked /\ KeyKept => PassedLocked' /\ KeyKept'
  <2>1. LastSid' = LastSid
    BY <1>1 DEF LastSid
  <2> QED BY <1>1, <2>1, NothingPassed, SteadyFinds
<1>5. Tidy'
  BY <1>2, <1>3, <1>4 DEF Steady, Tidy
<1> QED BY <1>1, <1>2, <1>5, QuietIsStutter, SteadyFinds

\* A call of NextStream.
LEMMA NextStreamIsStep ==
  ASSUME Steady, R!NextStream
  PROVE  Tidy' /\ [Archive!Next]_Archive!vars
<1>1. /\ rpc = "idle" /\ ~R!Stopped /\ (cur.kind = "none" \/ cur.done) /\ UNCHANGED <<rpos, rerr, rkey, cur, got>>
      /\ \/ rerr # "nil" /\ R!Return("next", rerr)
         \/ rerr = "nil" /\ R!Return("next", "InStream")
         \/ rerr = "nil" /\ rpc' = "next" /\ ret' = ret
  BY SteadyFinds DEF R!NextStream
<1>2. Live
  BY <1>1 DEF Live
<1>3. CASE rerr # "nil" /\ R!Return("next", rerr)
  <2>1. rerr = "EOF" /\ R!Drained
    BY <1>2, <1>3, SteadyFinds
  <2> QED BY <1>1, <1>2, <1>3, <2>1, DrainedEnds
<1>4. CASE rerr = "nil" /\ (R!Return("next", "InStream") \/ (rpc' = "next" /\ ret' = ret))
  <2>1. InLoop' /\ Live' /\ ~ReportedEnd'
    BY <1>1, <1>2, <1>4, StillInLoop
  <2>2. PassedLocked' /\ KeyKept'
    <3>1. LastSid' = LastSid
      BY <1>1 DEF LastSid
    <3> QED BY <1>1, <1>2, <3>1, NothingPassed, SteadyFinds
  <2> QED BY <1>1, <1>2, <1>4, <2>1, <2>2, GoesOnQuietly
<1> QED BY <1>1, <1>3, <1>4

\* A call of Skip.
LEMMA SkipIsStep ==
  ASSUME Steady, R!Skip
  PROVE  Tidy' /\ [Archive!Next]_Archive!vars
<1>1. /\ rpc = "idle" /\ ~R!Stopped /\ cur.kind # "none" /\ ~cur.done /\ UNCHANGED <<rpos, rerr, rkey, got, ret>>
      /\ rpc' = "skip"
  BY SteadyFinds DEF R!Skip
<1>2. cur'.kind = cur.kind /\ cur'.done = cur.done
  <2>1. cur \in Streams
    BY DEF Steady, Received, OrderedInv, ReceiveInv, ReaderTypes
  <2>2. PICK x : cur' = [cur EXCEPT !.isEOF = x]
    BY DEF R!Skip
  <2> QED BY <2>1, <2>2 DEF Streams
<1>3. Live
  BY <1>1 DEF Live
<1>4. rerr = "nil"
  BY <1>1, <1>3, SteadyFinds
<1>5. InLoop' /\ Live' /\ ~ReportedEnd'
  BY <1>1, <1>2, <1>3, StillInLoop
<1>6. PassedLocked' /\ KeyKept'
  <2>1. LastSid' = LastSid
    BY <1>1 DEF LastSid
  <2> QED BY <1>1, <1>3, <2>1, NothingPassed, SteadyFinds
<1> QED BY <1>1, <1>2, <1>3, <1>4, <1>5, <1>6, GoesOnQuietly

\* NewReader.
LEMMA NewReaderIsStep ==
  ASSUME Steady, R!NewReader
  PROVE  Tidy' /\ [Archive!Next]_Archive!vars
<1>1. rpc = "new" /\ UNCHANGED <<rerr, rkey, cur, got>>
  BY DEF R!NewReader
<1>2. Live /\ rerr = "nil"
  BY <1>1, SteadyFinds
<1>3. CASE R!HasBlock /\ R!Block.kind = "Version" /\ rpos' = rpos + 1 /\ R!Return("new", "nil")
  <2>1. InLoop' /\ Live' /\ ~ReportedEnd'
    BY <1>1, <1>2, <1>3, StillInLoop
  <2>2. PassedLocked' /\ KeyKept'
    <3>1. rpos \in 1..Len(wire) /\ wire[rpos].kind \notin KeyKinds \cup StreamKinds
      BY <1>3, ReceivedFinds, SteadyFinds DEF R!HasBlock, R!Block, KeyKinds, StreamKinds
    <3>2. LastSid' = LastSid
      BY <1>1 DEF LastSid
    <3> QED BY <1>1, <1>2, <1>3, <3>1, <3>2, NothingPassed, SteadyFinds
  <2> QED BY <1>1, <1>2, <2>1, <2>2, GoesOnQuietly
<1>4. CASE R!Drained /\ \E e \in {"EOF", "Unexpected"} : rpc' = "failed" /\ ret' = [call |-> "new", err |-> e]
  <2>1. PICK e : rpc' = "failed" /\ ret' = [call |-> "new", err |-> e]
    BY <1>4
  <2>2. ret'.call = "new"
    BY <2>1
  <2>3. ~Live' /\ ~ReportedEnd'
    BY <2>1, <2>2 DEF Live, ReportedEnd
  <2>4. Tidy'
    BY <2>1, <2>3 DEF Tidy, InLoop
  <2> QED BY <1>1, <1>2, <2>3, <2>4, FailureIsFail, SteadyFinds
<1> QED BY <1>3, <1>4 DEF R!NewReader

LEMMA NextAtEndIsStep ==
  ASSUME Steady, R!NextAtEnd
  PROVE  Tidy' /\ [Archive!Next]_Archive!vars
<1>1. rpc = "next" /\ R!Drained /\ UNCHANGED <<cur, got>>
  BY DEF R!NextAtEnd
<1>2. Live /\ rerr = "nil"
  BY <1>1, SteadyFinds
<1>3. R!Return("next", "EOF")
  BY <1>1, <1>2, DrainedMeans, SteadyFinds DEF R!NextAtEnd, R!Kept
<1>4. cur.kind = "none" \/ cur.done
  BY <1>1 DEF Steady, Tidy, InLoop
<1> QED BY <1>1, <1>2, <1>3, <1>4, DrainedEnds

\* NextStream at a key block.
LEMMA KeyIsStep ==
  ASSUME Steady, rpc = "next", rpos \in 1..Len(wire), rpos' = rpos + 1, UNCHANGED <<cur, got>>,
         \/ wire[rpos].kind = "PlainKey" /\ rkey' = wire[rpos].key /\ R!Proceed /\ rerr' = rerr
         \/ wire[rpos].kind = "EncryptedKey" /\ R!NextEncryptedKey(wire[rpos])
  PROVE  Tidy' /\ [Archive!Next]_Archive!vars
<1>1. Live /\ rerr = "nil"
  BY SteadyFinds
<1>2. \/ /\ UNCHANGED <<rpc, ret>> /\ rerr' = "nil"
         /\ wire[rpos].kind = "EncryptedKey" \/ (wire[rpos].kind = "PlainKey" /\ rkey' = wire[rpos].key)
      \/ \E e \in {"NoPrivate", "RSA"} : R!Return("next", e)
  <2>1. CASE wire[rpos].kind = "PlainKey" /\ rkey' = wire[rpos].key /\ R!Proceed /\ rerr' = rerr
    BY <1>1, <2>1 DEF R!Proceed
  <2>2. CASE wire[rpos].kind = "EncryptedKey" /\ R!NextEncryptedKey(wire[rpos])
    BY <1>1, <2>2 DEF R!NextEncryptedKey, R!Proceed, R!Kept
  <2> QED BY <2>1, <2>2
<1>3. CASE \E e \in {"NoPrivate", "RSA"} : R!Return("next", e)
  <2>1. PICK e \in {"NoPrivate", "RSA"} : R!Return("next", e)
    BY <1>3
  <2> QED BY <1>1, <2>1, CallFails DEF R!Failures
<1>4. CASE /\ UNCHANGED <<rpc, ret>> /\ rerr' = "nil"
           /\ wire[rpos].kind = "EncryptedKey" \/ (wire[rpos].kind = "PlainKey" /\ rkey' = wire[rpos].key)
  <2>1. InLoop' /\ Live' /\ ~ReportedEnd'
    BY <1>1, <1>4, StillInLoop
  <2>2. wire[rpos].kind \in KeyKinds /\ (rkey' # NoKey \/ wire[rpos].kind = "EncryptedKey")
    <3>1. CASE wire[rpos].kind = "EncryptedKey"
      BY <3>1 DEF KeyKinds
    <3>2. CASE wire[rpos].kind = "PlainKey" /\ rkey' = wire[rpos].key
      <4>1. wire[rpos] \in D!Blocks
        BY ReceivedFinds, SteadyFinds
      <4>2. wire[rpos].key \in 1..MaxKeys
        BY <3>2, <4>1 DEF D!Blocks, D!VersionBlock, D!EOFBlock, D!ErrorBlock, D!Skippable
      <4> QED BY <3>2, <4>2 DEF KeyKinds, NoKey
    <3> QED BY <1>4, <3>1, <3>2
  <2>3. LastSid' = LastSid
    BY DEF LastSid
  <2>4. PassedLocked' /\ KeyKept'
    BY <1>1, <2>2, <2>3, KeyPassed, SteadyFinds
  <2> QED BY <1>1, <1>4, <2>1, <2>4, GoesOnQuietly
<1> QED BY <1>2, <1>3, <1>4

\* NextStream at a header that it returns.
LEMMA DeliverIsStep ==
  ASSUME Steady, rpc = "next", rpos \in 1..Len(wire), rpos' = rpos + 1, rerr' = rerr, rkey' = rkey,
         wire[rpos].kind \in StreamKinds, NEW kind, NEW e \in {"nil", "ErrNoKey"}, R!Deliver(wire[rpos], kind, e),
         kind # "none"
  PROVE  Tidy' /\ [Archive!Next]_Archive!vars
<1>1. Live /\ rerr = "nil" /\ rerr' = "nil"
  BY SteadyFinds
<1>2. Delivers
  BY DEF Delivers
<1>3. rpc' = "idle" /\ ~R!Stopped' /\ ~ReportedEnd' /\ Live'
  BY ReturnMeans DEF R!Deliver, R!Failures
<1>4. ~AtHand
  <2>1. cur.kind = "none" \/ cur.done
    BY DEF Steady, Tidy, InLoop
  <2> QED BY <1>1, <2>1, SteadyFinds
<1>5. PassedLocked' /\ KeyKept'
  BY <1>1, <1>2, HeaderDelivered, SteadyFinds
<1>6. Marked'
  <2>1. PICK k : cur' = R!StreamOf(wire[rpos], kind, k)
    BY DEF R!Deliver
  <2>2. cur'.done = FALSE
    BY <2>1 DEF R!StreamOf, R!NoStream
  <2>3. PICK r : got' = Append(got, r) /\ r.end = "open"
    BY DEF R!Deliver
  <2>4. got'[Len(got')] = r
    BY <2>3, TakenIs, SteadyFinds
  <2> QED BY <2>2, <2>3, <2>4 DEF Marked
<1>7. Tidy'
  BY <1>1, <1>3, <1>5, <1>6 DEF Tidy, InLoop, AtRest
<1> QED BY <1>1, <1>2, <1>3, <1>4, <1>7, DeliveryIsTake, SteadyFinds

\* NextStream at the next block.
LEMMA NextBlockIsStep ==
  ASSUME Steady, R!NextBlock
  PROVE  Tidy' /\ [Archive!Next]_Archive!vars
<1>1. /\ rpc = "next" /\ rpos' = rpos + 1 /\ rpos \in 1..Len(wire)
  BY ReceivedFinds, SteadyFinds DEF R!NextBlock, R!HasBlock
<1>2. Live /\ rerr = "nil" /\ (cur.kind = "none" \/ cur.done)
  BY <1>1, SteadyFinds DEF Steady, Tidy, InLoop
<1>3. PICK b : b = wire[rpos]
  OBVIOUS
<1>4. \/ b.kind = "PlainKey" /\ rkey' = b.key /\ R!Proceed /\ UNCHANGED <<rerr, cur, got>>
      \/ b.kind = "EncryptedKey" /\ R!NextEncryptedKey(b) /\ UNCHANGED <<cur, got>>
      \/ /\ b.kind \in StreamKinds /\ UNCHANGED <<rerr, rkey>>
         /\ \E kind \in {"plain", "enc", "nokey"}, e \in {"nil", "ErrNoKey"} : R!Deliver(b, kind, e)
      \/ b.kind = "EncStream" /\ rkey = NoKey /\ rpc' = "pass" /\ UNCHANGED <<rerr, rkey, cur, ret, got>>
      \/ b.kind = "EOF" /\ R!Return("next", "EOF") /\ UNCHANGED <<rerr, rkey, cur, got>>
      \/ R!Return("next", "EOSOutside") /\ got' = got
      \/ R!Return("next", "BlockType") /\ got' = got
      \/ R!Return("next", "Message") /\ got' = got
      \/ b.kind = "Skippable" /\ R!Proceed /\ UNCHANGED <<rerr, rkey, cur, got>>
  <2>1. NoKey = R!NoKey
    BY DEF NoKey, R!NoKey
  <2> QED BY <1>2, <1>3, <2>1 DEF R!NextBlock, R!Block, R!PlainKeyRead, StreamKinds, R!Kept
<1>5. CASE \/ b.kind = "PlainKey" /\ rkey' = b.key /\ R!Proceed /\ UNCHANGED <<rerr, cur, got>>
           \/ b.kind = "EncryptedKey" /\ R!NextEncryptedKey(b) /\ UNCHANGED <<cur, got>>
  BY <1>1, <1>3, <1>5, KeyIsStep
<1>6. CASE /\ b.kind \in StreamKinds /\ UNCHANGED <<rerr, rkey>>
           /\ \E kind \in {"plain", "enc", "nokey"}, e \in {"nil", "ErrNoKey"} : R!Deliver(b, kind, e)
  BY <1>1, <1>3, <1>6, DeliverIsStep
<1>7. CASE b.kind = "EncStream" /\ rkey = NoKey /\ rpc' = "pass" /\ UNCHANGED <<rerr, rkey, cur, ret, got>>
  <2>1. InLoop' /\ Live' /\ ~ReportedEnd'
    BY <1>2, <1>7, StillInLoop
  <2>2. PassedLocked' /\ KeyKept'
    BY <1>1, <1>2, <1>3, <1>7, HeaderPassed, SteadyFinds DEF Steady
  <2> QED BY <1>2, <1>7, <2>1, <2>2, GoesOnQuietly
<1>8. CASE b.kind = "EOF" /\ R!Return("next", "EOF") /\ UNCHANGED <<rerr, rkey, cur, got>>
  <2>1. closes # <<>> /\ \A h \in DOMAIN wire : wire[h].kind \in StreamKinds => h < rpos
    <3>1. rpos \in DOMAIN wire
      BY <1>1, ReceivedFinds, SteadyFinds
    <3> QED BY <1>3, <1>8, <3>1 DEF Steady, Received, CleanWriter, D!EndsLast, D!StreamKinds, StreamKinds
  <2> QED BY <1>2, <1>8, <2>1, CallEnds
<1>9. CASE R!Return("next", "EOSOutside") /\ got' = got
  BY <1>2, <1>9, CallFails DEF R!Failures
<1>10. CASE R!Return("next", "BlockType") /\ got' = got
  BY <1>2, <1>10, CallFails DEF R!Failures
<1>11. CASE R!Return("next", "Message") /\ got' = got
  BY <1>2, <1>11, CallFails DEF R!Failures
<1>12. CASE b.kind = "Skippable" /\ R!Proceed /\ UNCHANGED <<rerr, rkey, cur, got>>
  <2>1. InLoop' /\ Live' /\ ~ReportedEnd'
    BY <1>2, <1>12, StillInLoop DEF R!Proceed
  <2>2. PassedLocked' /\ KeyKept'
    <3>1. wire[rpos].kind \notin KeyKinds \cup StreamKinds
      BY <1>3, <1>12 DEF KeyKinds, StreamKinds
    <3>2. LastSid' = LastSid
      BY <1>12 DEF LastSid
    <3> QED BY <1>1, <1>2, <1>12, <3>1, <3>2, NothingPassed, SteadyFinds
  <2> QED BY <1>2, <1>12, <2>1, <2>2, GoesOnQuietly
<1> QED BY <1>4, <1>5, <1>6, <1>7, <1>8, <1>9, <1>10, <1>11, <1>12

\* The data that skipDataBlocks leaves out for Stream.Skip.
LEMMA SkippedIsAbandon ==
  ASSUME Steady, rpc = "skip", NEW e \in {"nil", "EOF", "Message", "BlockType"}, R!SkipReturns(e), rkey' = rkey,
         e = "nil" => rpos' = rpos + 1 /\ rpos \in 1..Len(wire) /\ wire[rpos].kind = "EOS"
  PROVE  Tidy' /\ [Archive!Next]_Archive!vars
<1>1. Live /\ AtHand /\ cur.kind # "none" /\ ~cur.done /\ PassedLocked /\ KeyKept /\ rerr = "nil"
  <2>1. Live /\ cur.kind # "none" /\ ~cur.done
    BY SteadyFinds DEF Steady, Tidy, InLoop
  <2> QED BY <2>1, SteadyFinds
<1>2. /\ Gains(<<>>, R!EndOf(e)) /\ R!Return("skip", e) /\ rerr' = rerr
      /\ cur'.done = (cur.done \/ e = "nil") /\ SameInHand
  <2>1. e \in Errors
    BY DEF Errors
  <2> QED BY <2>1, SkipGains, SteadyFinds
<1>3. R!EndOf(e) \notin {"open", "EOF"}
  BY DEF R!EndOf
<1>4. rpc' = "idle" /\ ~ReportedEnd' /\ (Live' <=> e = "nil")
  BY <1>2, ReturnMeans DEF R!Failures
<1>5. [Archive!Next]_Archive!vars
  BY <1>1, <1>2, <1>3, <1>4, GainIsAbandon, SteadyFinds
<1>6. CASE e # "nil"
  BY <1>4, <1>5, <1>6 DEF Tidy, InLoop
<1>7. CASE e = "nil"
  <2>1. PICK new : LastIs(new) /\ More(got[Len(got)], <<>>, R!EndOf(e), new)
    BY <1>2 DEF Gains
  <2>2. got' # <<>> /\ Len(got') = Len(got) /\ got'[Len(got')] = new /\ new.sid = got[Len(got)].sid /\ new.end # "open"
    <3>1. got \in Seq(Entries) /\ got # <<>>
      BY <1>1, TakenIs, SteadyFinds DEF AtHand
    <3>2. got' \in Seq(Entries) /\ Len(got') = Len(got) /\ got'[Len(got)] = new
      BY <2>1 DEF LastIs
    <3>3. new.sid = got[Len(got)].sid /\ new.end = R!EndOf(e)
      BY <1>1, <2>1 DEF More, AtHand
    <3> QED BY <1>3, <3>1, <3>2, <3>3
  <2>3. LastSid' = LastSid
    BY <1>1, <2>2 DEF LastSid, AtHand
  <2>4. Marked'
    BY <1>2, <1>7, <2>2 DEF Marked
  <2>5. PassedLocked' /\ KeyKept'
    <3>1. wire[rpos].kind \notin KeyKinds \cup StreamKinds
      BY <1>7 DEF KeyKinds, StreamKinds
    <3> QED BY <1>1, <1>7, <2>3, <3>1, NothingPassed, SteadyFinds
  <2> QED BY <1>1, <1>2, <1>4, <1>5, <2>4, <2>5 DEF Tidy, InLoop, AtRest
<1> QED BY <1>6, <1>7

\* skipDataBlocks for NextStream.
LEMMA PassedIsStep ==
  ASSUME Steady, rpc = "pass", NEW e \in {"nil", "EOF", "Message", "BlockType"}, R!SkipReturns(e), rkey' = rkey,
         e = "nil" => rpos' = rpos + 1 /\ rpos \in 1..Len(wire) /\ wire[rpos].kind = "EOS", e = "EOF" => R!Drained
  PROVE  Tidy' /\ [Archive!Next]_Archive!vars
<1>1. Live /\ (cur.kind = "none" \/ cur.done) /\ PassedLocked /\ KeyKept /\ rerr = "nil"
  BY SteadyFinds DEF Steady, Tidy, InLoop
<1>2. /\ UNCHANGED <<cur, got>>
      /\ IF e = "nil" THEN rpc' = "next" /\ UNCHANGED <<rerr, ret>> ELSE R!Return("next", e)
  BY <1>1 DEF R!SkipReturns, R!Kept
<1>3. CASE e = "nil"
  <2>1. InLoop' /\ Live' /\ ~ReportedEnd'
    BY <1>1, <1>2, <1>3, StillInLoop
  <2>2. PassedLocked' /\ KeyKept'
    <3>1. wire[rpos].kind \notin KeyKinds \cup StreamKinds
      BY <1>3 DEF KeyKinds, StreamKinds
    <3>2. LastSid' = LastSid
      BY <1>2 DEF LastSid
    <3> QED BY <1>1, <1>3, <3>1, <3>2, NothingPassed, SteadyFinds
  <2> QED BY <1>1, <1>2, <1>3, <2>1, <2>2, GoesOnQuietly
<1>4. CASE e = "EOF"
  BY <1>1, <1>2, <1>4, DrainedEnds
<1>5. CASE e \in {"Message", "BlockType"}
  BY <1>1, <1>2, <1>5, CallFails DEF R!Failures
<1> QED BY <1>3, <1>4, <1>5

\* skipDataBlocks.
LEMMA SkipBlocksAreSteps ==
  ASSUME Steady, R!SkipBlock \/ R!SkipAtEnd
  PROVE  Tidy' /\ [Archive!Next]_Archive!vars
<1>1. rpc \in {"skip", "pass"} /\ rkey' = rkey
  BY DEF R!SkipBlock, R!SkipAtEnd
<1>2. Live /\ PassedLocked /\ KeyKept /\ rerr = "nil"
  <2>1. Live
    BY <1>1, SteadyFinds
  <2> QED BY <1>1, <2>1, SteadyFinds
<1>3. \/ /\ UNCHANGED <<rpc, ret, rerr, cur, got>> /\ rpos' = rpos + 1 /\ rpos \in 1..Len(wire)
         /\ wire[rpos].kind \in {"Datablock", "Skippable"}
      \/ /\ rpos' = rpos + 1 /\ rpos \in 1..Len(wire)
         /\ \E e \in {"nil", "Message", "BlockType"} : R!SkipReturns(e) /\ (e = "nil" => wire[rpos].kind = "EOS")
      \/ rpos' = rpos /\ R!Drained /\ R!SkipReturns("EOF")
  <2>1. CASE R!SkipBlock
    <3>1. rpos' = rpos + 1 /\ rpos \in 1..Len(wire)
      BY <2>1, ReceivedFinds, SteadyFinds DEF R!SkipBlock, R!HasBlock
    <3> QED BY <2>1, <3>1 DEF R!SkipBlock, R!Block, R!Discarded
  <2>2. CASE R!SkipAtEnd
    <3>1. R!Drained /\ rpos' = rpos /\ \E e \in R!AtEnd(rpc) : R!SkipReturns(e)
      BY <2>2 DEF R!SkipAtEnd
    <3> QED BY <3>1, DrainedMeans, SteadyFinds
  <2> QED BY <2>1, <2>2
<1>4. CASE /\ UNCHANGED <<rpc, ret, rerr, cur, got>> /\ rpos' = rpos + 1 /\ rpos \in 1..Len(wire)
           /\ wire[rpos].kind \in {"Datablock", "Skippable"}
  <2>1. InLoop' /\ Live' /\ ~ReportedEnd'
    BY <1>2, <1>4, StillInLoop
  <2>2. PassedLocked' /\ KeyKept'
    <3>1. wire[rpos].kind \notin KeyKinds \cup StreamKinds
      BY <1>4 DEF KeyKinds, StreamKinds
    <3>2. LastSid' = LastSid
      BY <1>4 DEF LastSid
    <3> QED BY <1>1, <1>2, <1>4, <3>1, <3>2, NothingPassed, SteadyFinds
  <2> QED BY <1>2, <1>4, <2>1, <2>2, GoesOnQuietly
<1>5. CASE /\ rpos' = rpos + 1 /\ rpos \in 1..Len(wire)
           /\ \E e \in {"nil", "Message", "BlockType"} : R!SkipReturns(e) /\ (e = "nil" => wire[rpos].kind = "EOS")
  BY <1>1, <1>5, SkippedIsAbandon, PassedIsStep
<1>6. CASE rpos' = rpos /\ R!Drained /\ R!SkipReturns("EOF")
  BY <1>1, <1>6, SkippedIsAbandon, PassedIsStep
<1> QED BY <1>3, <1>4, <1>5, <1>6

\* The first step of Stream.Read.
LEMMA ReadIsStep ==
  ASSUME Steady, R!Read
  PROVE  Tidy' /\ [Archive!Next]_Archive!vars
<1>1. /\ rpc = "idle" /\ ~R!Stopped /\ ~cur.done /\ cur.kind # "none" /\ UNCHANGED <<rpos, rerr, rkey>>
      /\ \/ cur.dead # "nil" /\ R!Return("read", cur.dead) /\ UNCHANGED <<cur, got>>
         \/ R!Return("read", "EOF") /\ UNCHANGED <<cur, got>>
         \/ rerr # "nil"
         \/ rpc' = "read" /\ UNCHANGED <<cur, ret, got>>
  BY SteadyFinds DEF R!Read
<1>2. Live
  BY <1>1 DEF Live
<1>3. rerr = "nil" /\ rerr' = "nil" /\ PassedLocked /\ KeyKept
  BY <1>1, <1>2, SteadyFinds
<1>4. ASSUME got' = got PROVE PassedLocked' /\ KeyKept'
  <2>1. LastSid' = LastSid
    BY <1>4 DEF LastSid
  <2> QED BY <1>1, <1>3, <2>1, NothingPassed, SteadyFinds
<1>5. CASE R!Return("read", "EOF") /\ UNCHANGED <<cur, got>>
  <2>1. InLoop' /\ Live' /\ ~ReportedEnd'
    BY <1>2, <1>5, StillInLoop
  <2> QED BY <1>2, <1>3, <1>4, <1>5, <2>1, GoesOnQuietly
<1>6. CASE cur.dead # "nil" /\ R!Return("read", cur.dead) /\ UNCHANGED <<cur, got>>
  <2>1. cur.dead \in Errors
    BY DEF Steady, Received, OrderedInv, ReceiveInv, ReaderTypes, Streams
  <2>2. CASE cur.dead = "EOF"
    BY <1>5, <1>6, <2>2
  <2>3. CASE cur.dead # "EOF"
    <3>1. cur.dead \in R!Failures
      BY <1>6, <2>1, <2>3 DEF Errors, R!Failures
    <3> QED BY <1>2, <1>6, <3>1, CallFails
  <2> QED BY <2>2, <2>3
<1>7. CASE rpc' = "read" /\ UNCHANGED <<cur, ret, got>>
  <2>1. InLoop' /\ Live' /\ ~ReportedEnd'
    BY <1>1, <1>2, <1>7, StillInLoop
  <2> QED BY <1>2, <1>3, <1>4, <1>7, <2>1, GoesOnQuietly
<1> QED BY <1>1, <1>3, <1>5, <1>6, <1>7

\* Stream.Read reads no key and no header without failing.
LEMMA ReadPasses ==
  ASSUME Steady, R!ReadBlock \/ R!ReadAtEnd, Live'
  PROVE  rpos' = rpos \/ (rpos' = rpos + 1 /\ rpos \in 1..Len(wire) /\ wire[rpos].kind \notin KeyKinds \cup StreamKinds)
<1>1. CASE R!ReadAtEnd
  BY <1>1 DEF R!ReadAtEnd
<1>2. CASE R!ReadBlock
  <2>1. rpos' = rpos + 1 /\ rpos \in 1..Len(wire)
    BY <1>2, ReceivedFinds, SteadyFinds DEF R!ReadBlock, R!HasBlock
  <2>2. ASSUME wire[rpos].kind \in KeyKinds \cup StreamKinds PROVE FALSE
    <3>1. R!SourceReturns(cur, "BlockType")
      BY <1>2, <2>2 DEF R!ReadBlock, R!Block, KeyKinds, StreamKinds, R!KeyKinds, R!StreamKinds
    <3>2. {"sid", "kind", "key"} \subseteq DOMAIN cur
      BY DEF Steady, ReaderInv, HasItsKey
    <3>3. ret'.err = "BlockType"
      BY <3>1, <3>2, SourceKeepsStream
    <3>4. R!Stopped'
      BY <3>3 DEF R!Stopped, R!Failures
    <3> QED BY <3>4 DEF Live
  <2> QED BY <2>1, <2>2
<1> QED BY <1>1, <1>2

\* The stream in hand after more of it was received.
LEMMA MoreInHand ==
  ASSUME Received, AtHand, NEW body, NEW e, Gains(body, e)
  PROVE  got' # <<>> /\ got'[Len(got')].end = e /\ LastSid' = LastSid
<1>1. PICK new : LastIs(new) /\ More(got[Len(got)], body, e, new)
  BY DEF Gains
<1>2. got \in Seq(Entries) /\ got # <<>> /\ got' \in Seq(Entries) /\ Len(got') = Len(got) /\ got'[Len(got)] = new
  BY <1>1, TakenIs DEF AtHand, LastIs
<1>3. new.sid = got[Len(got)].sid /\ new.end = e
  BY <1>1 DEF More, AtHand
<1> QED BY <1>2, <1>3 DEF LastSid

\* Stream.Read, until it returns.
LEMMA ReadBlocksAreSteps ==
  ASSUME Steady, R!ReadBlock \/ R!ReadAtEnd
  PROVE  Tidy' /\ [Archive!Next]_Archive!vars
<1>1. rpc = "read" /\ (R!ReadBlock => ~R!Drained) /\ (R!ReadAtEnd => rpos' = rpos /\ ended' = ended)
  BY DEF R!ReadBlock, R!ReadAtEnd, R!Drained
<1>2. Live /\ cur.kind # "none" /\ ~cur.done /\ AtHand /\ PassedLocked /\ KeyKept /\ rerr = "nil"
  <2>1. Live /\ cur.kind # "none" /\ ~cur.done
    BY <1>1, SteadyFinds DEF Steady, Tidy, InLoop
  <2> QED BY <1>1, <2>1, SteadyFinds
<1>3. /\ ReadGoesOn \/ ReadGives \/ ReadEnds
      /\ cur'.kind = cur.kind /\ rkey' = rkey
  BY ReadYields, SteadyFinds DEF SameInHand
<1>4. ASSUME Live', LastSid' = LastSid PROVE PassedLocked' /\ KeyKept'
  BY <1>2, <1>3, <1>4, ReadPasses, NothingPassed, SteadyFinds
<1>5. CASE ReadGoesOn
  <2>1. InLoop' /\ Live' /\ ~ReportedEnd'
    BY <1>2, <1>3, <1>5, StillInLoop DEF ReadGoesOn
  <2>2. LastSid' = LastSid
    BY <1>5 DEF ReadGoesOn, LastSid
  <2> QED BY <1>2, <1>3, <1>4, <1>5, <2>1, <2>2, GoesOnQuietly DEF ReadGoesOn
<1>6. CASE ReadGives
  <2>1. PICK body : Gains(body, "open") /\ R!Return("read", "nil") /\ rerr' = rerr /\ cur'.done = cur.done
    BY <1>6 DEF ReadGives
  <2>2. rpc' = "idle" /\ ~R!Stopped' /\ Live'
    BY <2>1, ReturnMeans DEF R!Failures
  <2>3. got' # <<>> /\ got'[Len(got')].end = "open" /\ LastSid' = LastSid
    BY <1>2, <2>1, MoreInHand, SteadyFinds
  <2>4. Marked' /\ AtRest'
    BY <1>2, <2>1, <2>3 DEF Marked, AtRest
  <2>5. Tidy'
    BY <1>4, <2>2, <2>3, <2>4 DEF Tidy, InLoop
  <2> QED BY <1>2, <2>1, <2>2, <2>5, GainIsReceive, SteadyFinds
<1>7. CASE ReadEnds
  <2>1. PICK body, r : r \in Errors \ {"nil"} /\ ReadEndsWith(body, r)
    BY <1>7 DEF ReadEnds
  <2>2. CASE r = "EOF"
    <3>1. /\ Gains(body, "EOF") /\ R!Return("read", "EOF") /\ (cur.done \/ r = "EOF") /\ cur'.done = (cur.done \/ r = "EOF")
          /\ rerr' = rerr \/ (rerr' = "EOF" /\ R!Drained)
      BY <2>1, <2>2 DEF ReadEndsWith
    <3>2. rpc' = "idle" /\ ~R!Stopped' /\ Live'
      BY <3>1, ReturnMeans DEF R!Failures
    <3>3. got' # <<>> /\ got'[Len(got')].end = "EOF" /\ LastSid' = LastSid
      BY <1>2, <3>1, MoreInHand, SteadyFinds
    <3>4. Marked'
      BY <3>1, <3>3 DEF Marked
    <3>5. AtRest'
      <4>1. SUFFICES ASSUME rerr' # "nil" PROVE rpc' = "idle" /\ rerr' = "EOF" /\ R!Drained' /\ cur'.done
        BY DEF AtRest
      <4>2. rerr' = "EOF" /\ R!Drained
        BY <1>2, <3>1, <4>1
      <4>3. rpos' = rpos /\ ended' = ended /\ wire' = wire
        BY <1>1, <4>2 DEF Steady, Received
      <4>4. R!Drained'
        BY <4>2, <4>3 DEF R!Drained, R!HasBlock
      <4> QED BY <3>1, <3>2, <4>2, <4>4
    <3>6. Tidy'
      BY <1>4, <3>2, <3>3, <3>4, <3>5 DEF Tidy, InLoop
    <3> QED BY <1>2, <3>1, <3>2, <3>6, GainIsReceive, SteadyFinds
  <2>3. CASE r # "EOF"
    <3>1. body = <<>> /\ Gains(<<>>, r) /\ R!Return("read", r)
      BY <2>1, <2>3 DEF ReadEndsWith
    <3>2. r \in R!Failures /\ r # "open"
      BY <2>1, <2>3 DEF Errors, R!Failures
    <3>3. rpc' = "idle" /\ ~Live' /\ ~ReportedEnd'
      BY <3>1, <3>2, ReturnMeans
    <3>4. Tidy'
      BY <3>3 DEF Tidy, InLoop
    <3> QED BY <1>2, <2>3, <3>1, <3>2, <3>3, <3>4, GainIsAbandon, SteadyFinds
  <2> QED BY <2>2, <2>3
<1> QED BY <1>3, <1>5, <1>6, <1>7

LEMMA ReaderIsAtStep ==
  ASSUME Steady, R!Next
  PROVE  Tidy' /\ [Archive!Next]_Archive!vars
BY SettersAreSteps, NextStreamIsStep, ReadIsStep, SkipIsStep, NewReaderIsStep, NextAtEndIsStep, NextBlockIsStep,
   SkipBlocksAreSteps, ReadBlocksAreSteps DEF R!Next, R!Progress

----------------------------------------------------------------------------
(* The pipe is an archive.                                                  *)

\* A step that is not the Reader's.
Fresh ==
  /\ Unharmed /\ OrderedInv /\ CleanWriter /\ NewKeys /\ WireKept /\ D!HandlesGrow
  /\ UNCHANGED rown /\ \A i \in 1..(rpos - 1) : wire'[i] = wire[i]
  /\ ended => ended' /\ wire' = wire

LEMMA FreshLocked ==
  ASSUME Fresh, NEW s \in DOMAIN handles
  PROVE  Locked(s)' <=> Locked(s)
BY LockedStays DEF Fresh, OrderedInv, FeedInv, D!HandlesInv, CleanWriter

\* What the Reader has and knows goes on to hold when more is sent.
LEMMA FreshKeepsTidy ==
  ASSUME Fresh, Tidy
  PROVE  Tidy'
<1>1. rpos' = rpos /\ rerr' = rerr /\ rkey' = rkey /\ rpc' = rpc /\ cur' = cur /\ ret' = ret /\ got' = got
  BY DEF Fresh, rown
<1>2. wire \in Seq(D!Blocks) /\ rpos \in 1..(Len(wire) + 1)
  BY DEF Fresh, OrderedInv, FeedInv, D!HandlesInv, D!TypeOK, ReceiveInv, ReaderTypes
<1>3. (Live' <=> Live) /\ (R!Stopped' <=> R!Stopped) /\ LastSid' = LastSid
  BY <1>1 DEF Live, R!Stopped, LastSid
<1>4. InLoop'
  BY <1>1, <1>3 DEF Tidy, InLoop
<1>5. ASSUME Live PROVE AtRest' /\ Marked' /\ PassedLocked' /\ KeyKept'
  <2>1. AtRest /\ Marked /\ PassedLocked /\ KeyKept
    BY <1>5 DEF Tidy
  <2>2. AtRest'
    BY <1>1, <2>1 DEF AtRest, Fresh, R!Drained, R!HasBlock
  <2>3. Marked'
    BY <1>1, <2>1 DEF Marked
  <2>4. PassedLocked'
    <3>1. ASSUME NEW h \in 1..(rpos - 1), wire[h].kind \in StreamKinds, wire[h].sid > LastSid
          PROVE  Locked(wire[h].sid)'
      <4>1. PICK s : s = wire[h].sid
        OBVIOUS
      <4>2. h \in DOMAIN wire
        BY <1>2
      <4>3. s \in DOMAIN handles
        BY <3>1, <4>1, <4>2, StreamsHaveHandles DEF Fresh
      <4>4. Locked(s)
        BY <2>1, <3>1, <4>1 DEF PassedLocked
      <4>5. Locked(s)'
        BY <4>3, <4>4, FreshLocked
      <4>6. wire'[h].sid = s
        BY <4>1 DEF Fresh
      <4> QED BY <4>5, <4>6
    <3>2. \A h \in 1..(rpos - 1) : wire'[h] = wire[h]
      BY DEF Fresh
    <3>3. SUFFICES ASSUME NEW h \in 1..(rpos' - 1), wire'[h].kind \in StreamKinds, wire'[h].sid > LastSid'
                   PROVE  Locked(wire[h].sid)'
      BY DEF PassedLocked
    <3> QED BY <1>1, <1>3, <3>1, <3>2, <3>3
  <2>5. KeyKept'
    <3>1. \A h \in 1..(rpos - 1) : wire'[h] = wire[h]
      BY DEF Fresh
    <3>2. ASSUME NEW k, KeyBefore(rpos, k)' PROVE KeyBefore(rpos, k)
      <4>1. PICK j \in 1..(rpos - 1) :
              wire'[j].kind \in KeyKinds /\ wire'[j].key = k /\ \A m \in (j + 1)..(rpos - 1) : wire'[m].kind \notin KeyKinds
        BY <1>1, <3>2 DEF KeyBefore
      <4>2. \A m \in (j + 1)..(rpos - 1) : m \in 1..(rpos - 1)
        BY <1>2
      <4> QED BY <3>1, <4>1, <4>2 DEF KeyBefore
    <3> QED BY <1>1, <2>1, <3>1, <3>2 DEF KeyKept
  <2> QED BY <2>2, <2>3, <2>4, <2>5
<1> QED BY <1>3, <1>4, <1>5 DEF Tidy

\* A step that adds nothing to the streams.
LEMMA FreshIsStutter ==
  ASSUME Fresh, UNCHANGED wown
  PROVE  [Archive!Next]_Archive!vars
<1>1. handles' = handles /\ closes' = closes
  BY DEF wown
<1>2. \A s \in DOMAIN handles : PutAt(s)' = PutAt(s)
  BY <1>1, FreshLocked, PutAtStays
<1>3. Put' = Put
  BY <1>1, <1>2, PutIs
<1>4. Taken' = Taken /\ Over' = Over
  BY ReaderNotAsked DEF Fresh
<1> QED BY <1>1, <1>3, <1>4 DEF Archive!vars

ArchiveInv == OrderedInv /\ PipeInv /\ ReaderInv /\ CleanWriter /\ Tidy

\* Every step of a pipe that is not harmed is one of the archive's.
LEMMA ArchiveGoesOn ==
  Unharmed /\ ArchiveInv /\ [Next]_vars => ArchiveInv' /\ [Archive!Next]_Archive!vars
<1> SUFFICES ASSUME Unharmed, ArchiveInv, [Next]_vars PROVE ArchiveInv' /\ [Archive!Next]_Archive!vars
  OBVIOUS
<1>1. OrderedInv' /\ PipeInv' /\ ReaderInv'
  BY OrderedGoesOn, PipeGoesOn DEF ArchiveInv, Unharmed
<1>2. CleanWriter' /\ NewKeys /\ WireKept
  BY CleanGoesOn DEF ArchiveInv
<1>3. CASE ReaderStep
  <2>1. R!Next /\ UNCHANGED <<wire, wown, ended, harm>>
    BY <1>3, ReaderLeaves DEF ReaderStep
  <2>2. Steady
    BY <1>1, <1>2, <2>1 DEF Steady, Received, ArchiveInv
  <2> QED BY <1>1, <1>2, <2>1, <2>2, ReaderIsAtStep DEF ArchiveInv
<1>4. CASE WriterStep \/ Foreign \/ HangUp \/ UNCHANGED vars
  <2>1. UNCHANGED rown /\ \A i \in 1..(rpos - 1) : wire'[i] = wire[i]
    BY <1>4, ReadStays DEF ArchiveInv, OrderedInv
  <2>2. ended => ended' /\ wire' = wire
    BY <1>4 DEF WriterStep, Foreign, HangUp, vars
  <2>3. D!HandlesGrow /\ (~WriterStep => UNCHANGED wown)
    <3>1. CASE WriterStep
      BY <3>1, WriterSends DEF ArchiveInv, OrderedInv
    <3>2. CASE ~WriterStep
      <4>1. UNCHANGED wown
        BY <1>4, <3>2 DEF Foreign, HangUp, vars
      <4>2. wire' \in Seq(D!Blocks)
        BY <1>1 DEF OrderedInv, FeedInv, D!HandlesInv, D!TypeOK
      <4> QED BY <3>2, <4>1, <4>2, HandlesKept DEF ArchiveInv, OrderedInv, FeedInv
    <3> QED BY <3>1, <3>2
  <2>4. Fresh
    BY <1>2, <2>1, <2>2, <2>3 DEF Fresh, ArchiveInv
  <2>5. Tidy'
    BY <2>4, FreshKeepsTidy DEF ArchiveInv
  <2>6. [Archive!Next]_Archive!vars
    <3>1. CASE WriterStep
      BY <3>1, CallsAreSteps DEF ArchiveInv
    <3>2. CASE ~WriterStep
      BY <2>3, <2>4, <3>2, FreshIsStutter
    <3> QED BY <3>1, <3>2
  <2> QED BY <1>1, <1>2, <2>5, <2>6 DEF ArchiveInv
<1>5. ~Cut /\ ~Damage
  BY DEF Unharmed, Cut, Damage
<1> QED BY <1>3, <1>4, <1>5 DEF Next

LEMMA ArchiveStart == Unharmed /\ Init => ArchiveInv /\ Archive!Init
<1> SUFFICES ASSUME Unharmed, Init PROVE ArchiveInv /\ Archive!Init
  OBVIOUS
<1>1. OrderedInv /\ PipeInv /\ ReaderInv
  BY OrderedStart, PipeStart
<1>2. /\ ~werr /\ harm = {} /\ handles = <<>> /\ closes = <<>> /\ wire = <<W!VersionBlock>>
      /\ rpos = 1 /\ rerr = "nil" /\ rpc = "new" /\ got = <<>> /\ cur.kind = "none"
      /\ ret = [call |-> "none", err |-> "nil"]
  BY DEF Unharmed, Init, W!Init, R!Init, R!NoStream
<1>3. CleanWriter
  <2>1. \A e \in DOMAIN wire : wire[e].kind = "Version"
    BY <1>2 DEF W!VersionBlock
  <2> QED BY <1>2, <2>1 DEF CleanWriter, OwnHandles, D!EndsLast
<1>4. ~R!Stopped /\ ~ReportedEnd
  BY <1>2 DEF R!Stopped, R!Failures, ReportedEnd
<1>5. Tidy
  BY <1>2, <1>4 DEF Tidy, InLoop, AtRest, Marked, PassedLocked, KeyKept, KeyBefore
<1>6. Archive!Init
  <2>1. Put = <<>> /\ Taken = <<>> /\ (closes # <<>>) = FALSE
    BY <1>2 DEF Put, Taken
  <2>2. Over = "no"
    BY <1>2, <1>4 DEF Over
  <2> QED BY <2>1, <2>2 DEF Archive!Init
<1> QED BY <1>1, <1>3, <1>5, <1>6 DEF ArchiveInv

\* An archive that is written and read by callers who keep the contract, to an
\* io.Writer that works and over a stream that is not harmed, is what EStreamArchive
\* says, with any keys, sources, options and bounds: the streams are received in
\* order, each is complete when it is reported complete, only one that needs a
\* private key is ever left out, and io.EOF from NextStream means that the Writer
\* was closed and nothing is left (README.md:16, :158; reader.go:113, :137, :405).
THEOREM PipeIsAnArchive == Unharmed => (Spec => ArchiveSpec)
<1>1. CASE Unharmed
  <2>1. Init => ArchiveInv /\ Archive!Init
    BY <1>1, ArchiveStart
  <2>2. ArchiveInv /\ [Next]_vars => ArchiveInv' /\ [Archive!Next]_Archive!vars
    BY <1>1, ArchiveGoesOn
  <2> QED BY <2>1, <2>2, PTL DEF Spec, ArchiveSpec, Archive!Spec
<1>2. CASE ~Unharmed
  BY <1>2
<1> QED BY <1>1, <1>2
=============================================================================
