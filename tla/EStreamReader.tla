--------------------------- MODULE EStreamReader ---------------------------
(***************************************************************************)
(* estream.Reader (estream/reader.go).  A call of NextStream, Read or Skip  *)
(* starts in the state "idle" and then consumes one block per step, because *)
(* it may block on the input between two of them; the step that makes it    *)
(* return leaves the result in ret.                                         *)
(***************************************************************************)
EXTENDS EStreamBlocks, FiniteSets, SequencesExt

CONSTANTS
  PubKeys,     \* RSA key pairs in use
  Bad,         \* a chunk damaged on the way; never written by anybody
  MaxCalls,    \* bound: calls of NextStream, Read and Skip
  MaxSets,     \* bound: calls of the four setters
  Careful      \* TRUE: the caller stops at an error and is done with a stream
               \* once it is read to io.EOF or skipped

VARIABLES
  wire,      \* the input
  ended,     \* the input ends where wire ends; otherwise more may come
  rpos,      \* index of the next block to read
  rerr,      \* Reader.err
  inStream,  \* Reader.inStream
  rkey,      \* Reader.key
  src,       \* Reader.private / privateFn
  opt,       \* Reader.skipEncrypted, returnNonDec
  rpc,       \* which loop the current call is in
  cur,       \* the Stream last returned by NextStream
  ret,       \* what the last call returned
  got,       \* history: what the caller received, one entry per Stream
  calls,     \* number of calls made
  sets       \* number of setter calls made

\* src.fn: a PrivateKeyProvider is set, which knows the keys in src.holds;
\* otherwise src.holds holds the key given to SetPrivateKey, if any.
Sources == [fn : {TRUE}, holds : SUBSET PubKeys]
             \cup [fn : {FALSE}, holds : {{}} \cup {{p} : p \in PubKeys}]
Options == [skip : BOOLEAN, nondec : BOOLEAN]

NoStream == [sid |-> 0, kind |-> "none", key |-> NoKey, nonce |-> 0,
             isEOF |-> FALSE, h |-> <<>>, pend |-> <<>>, frag |-> 0,
             dead |-> "nil", done |-> FALSE]
StreamOf(b, kind, key) ==
  [NoStream EXCEPT !.sid = b.sid, !.kind = kind, !.key = key,
                   !.nonce = IF kind = "enc" THEN b.nonce ELSE 0]

----------------------------------------------------------------------------
(* Reading the input.                                                       *)

HasBlock == rpos <= Len(wire) /\ wire[rpos].kind # "Partial"
Block    == wire[rpos]

\* What a read of the next block yields when the input stops before its end.
\* io.ReadFull does not report io.EOF inside a body; io.CopyN does, and msgp's
\* ReadBytes and ReadString do between the length of the data and the data.
AtEnd(loop) ==
  IF rpos > Len(wire) THEN {"EOF"}
  ELSE CASE Block.cut \in {"id", "header"} -> {"EOF"}
         [] Block.cut = "length"           -> {"Unexpected"}
         [] Block.cut = "body" ->
              IF loop = "next" THEN {"Unexpected"} ELSE {"EOF", "Unexpected"}

Drained == ended /\ ~HasBlock

\* Reader.setErr keeps the first error; it is returned from then on.  An
\* io.EOF is replaced by ErrUnexpectedEOF in r.err, and then put back.
Kept(e) == IF rerr # "nil" THEN rerr ELSE e

----------------------------------------------------------------------------
Return(call, e)  == rpc' = "idle" /\ ret' = [call |-> call, err |-> e]
Calling          == calls < MaxCalls /\ calls' = calls + 1
Proceed          == UNCHANGED <<rpc, ret>>

\* A careful caller makes no call after an error but ErrNoKey.
Failures == {"Unexpected", "Checksum", "Message", "NoPrivate", "RSA", "BlockType",
             "EOSOutside", "NotAuthentic"}
Stopped == ret.err \in Failures \/ ret = [call |-> "next", err |-> "EOF"]
             \/ ret = [call |-> "skip", err |-> "EOF"]

Init ==
  /\ rpos = 1 /\ rerr = "nil" /\ inStream = FALSE /\ rkey = NoKey
  /\ src = [fn |-> FALSE, holds |-> {}] /\ opt = [skip |-> FALSE, nondec |-> FALSE]
  /\ rpc = "new" /\ cur = NoStream
  /\ ret = [call |-> "none", err |-> "nil"] /\ got = <<>>
  /\ calls = 0 /\ sets = 0

\* NewReader reads the version; without it there is no Reader.
NewReader ==
  /\ rpc = "new"
  /\ \/ HasBlock /\ Block.kind = "Version" /\ rpos' = rpos + 1
        /\ Return("new", "nil")
     \/ Drained /\ \E e \in {"EOF", "Unexpected"} :
          rpc' = "failed" /\ ret' = [call |-> "new", err |-> e] /\ rpos' = rpos
  /\ UNCHANGED <<ended, rerr, inStream, rkey, src, opt, cur, got, calls, sets>>

\* SetPrivateKey, PrivateKeyProvider, SkipEncrypted, ReturnNonDecryptable:
\* the first two override each other.
Configure(s, o) ==
  /\ rpc = "idle" /\ sets < MaxSets /\ sets' = sets + 1
  /\ src' = s /\ opt' = o
  /\ UNCHANGED <<ended, rpos, rerr, inStream, rkey, rpc, cur, ret, got, calls>>
SetPrivateKey(p)         == Configure([fn |-> FALSE, holds |-> {p}], opt)
PrivateKeyProvider(ks)   == Configure([fn |-> TRUE, holds |-> ks], opt)
SkipEncrypted(b)         == Configure(src, [opt EXCEPT !.skip = b])
ReturnNonDecryptable(b)  == Configure(src, [opt EXCEPT !.nondec = b])

----------------------------------------------------------------------------
(* NextStream.                                                              *)

NextStream ==
  /\ rpc = "idle" /\ Calling
  /\ Careful => ~Stopped /\ (cur.kind = "none" \/ cur.done)
  /\ IF rerr # "nil" THEN Return("next", rerr)
     ELSE IF inStream THEN Return("next", "InStream")
     ELSE rpc' = "next" /\ UNCHANGED ret
  /\ UNCHANGED <<ended, rpos, rerr, inStream, rkey, src, opt, cur, got, sets>>

\* The private key for a key block: none, or the one asked for or set.
PrivateFor(b) ==
  IF src.fn THEN src.holds \cap {b.pub} ELSE src.holds

\* Mutant: Reader.key is not cleared when a key block cannot be opened.
NextEncryptedKey_KeyKept(b) ==
  CASE PrivateFor(b) = {} /\ (opt.skip \/ opt.nondec) ->
         Proceed /\ UNCHANGED <<rkey, rerr>>
    [] PrivateFor(b) = {} /\ ~(opt.skip \/ opt.nondec) ->
         rerr' = Kept("NoPrivate") /\ Return("next", rerr') /\ UNCHANGED rkey
    [] PrivateFor(b) = {b.pub} ->
         rkey' = b.key /\ Proceed /\ UNCHANGED rerr
    [] OTHER ->
         IF opt.nondec THEN Proceed /\ UNCHANGED <<rkey, rerr>>
         ELSE Return("next", "RSA") /\ UNCHANGED <<rkey, rerr>>

\* An encrypted key block.  Only the missing private key is kept as an error:
\* one that does not fit is returned and leaves Reader.key as it was.
NextEncryptedKey(b) ==
  CASE PrivateFor(b) = {} /\ (opt.skip \/ opt.nondec) ->
         rkey' = NoKey /\ Proceed /\ UNCHANGED rerr
    [] PrivateFor(b) = {} /\ ~(opt.skip \/ opt.nondec) ->
         rerr' = Kept("NoPrivate") /\ Return("next", rerr') /\ UNCHANGED rkey
    [] PrivateFor(b) = {b.pub} ->
         rkey' = b.key /\ Proceed /\ UNCHANGED rerr
    [] OTHER ->
         IF opt.nondec THEN rkey' = NoKey /\ Proceed /\ UNCHANGED rerr
         ELSE Return("next", "RSA") /\ UNCHANGED <<rkey, rerr>>

\* Mutant: newStreamReader also for streams without a key.
HasReader_Always(kind) == TRUE

\* newStreamReader sets inStream; a stream without a key does not get one.
HasReader(kind) == kind # "nokey"
PlainKeyRead(b) == b.key
Deliver(b, kind, e) ==
  /\ cur' = StreamOf(b, kind, IF kind = "enc" THEN rkey ELSE NoKey)
  /\ got' = Append(got, [sid |-> b.sid, kind |-> kind, data |-> <<>>, end |-> "open"])
  /\ inStream' = (inStream \/ HasReader(kind))
  /\ Return("next", e)

NextBlock ==
  /\ rpc = "next" /\ HasBlock
  /\ rpos' = rpos + 1
  /\ \/ /\ Block.kind = "PlainKey"
        /\ rkey' = PlainKeyRead(Block) /\ Proceed
        /\ UNCHANGED <<rerr, inStream, cur, got>>
     \/ /\ Block.kind = "EncryptedKey"
        /\ NextEncryptedKey(Block)
        /\ UNCHANGED <<inStream, cur, got>>
     \/ /\ Block.kind = "PlainStream"
        /\ Deliver(Block, "plain", "nil")
        /\ UNCHANGED <<rerr, rkey>>
     \/ /\ Block.kind = "EncStream" /\ rkey # NoKey
        /\ Deliver(Block, "enc", "nil")
        /\ UNCHANGED <<rerr, rkey>>
     \/ /\ Block.kind = "EncStream" /\ rkey = NoKey /\ opt.skip
        /\ rpc' = "pass"
        /\ UNCHANGED <<rerr, rkey, inStream, cur, ret, got>>
     \/ /\ Block.kind = "EncStream" /\ rkey = NoKey /\ ~opt.skip
        /\ Deliver(Block, "nokey", "ErrNoKey")
        /\ UNCHANGED <<rerr, rkey>>
     \/ /\ Block.kind \in {"Datablock", "EOS", "EOF"}
        /\ Return("next", CASE Block.kind = "EOF" -> "EOF"
                            [] Block.kind = "EOS" -> "EOSOutside"
                            [] OTHER -> "BlockType")
        /\ UNCHANGED <<rerr, rkey, inStream, cur, got>>
     \/ /\ Block.kind = "Error"
        /\ rerr' = Kept("Message") /\ Return("next", rerr')
        /\ UNCHANGED <<rkey, inStream, cur, got>>
     \/ /\ Block.kind = "Skippable"
        /\ Proceed
        /\ UNCHANGED <<rerr, rkey, inStream, cur, got>>
  /\ UNCHANGED <<ended, src, opt, calls, sets>>

NextAtEnd ==
  /\ rpc = "next" /\ Drained
  /\ \E e \in AtEnd("next") : rerr' = Kept(e) /\ Return("next", rerr')
  /\ UNCHANGED <<ended, rpos, inStream, rkey, src, opt, cur, got, calls, sets>>

----------------------------------------------------------------------------
(* skipDataBlocks, called by Stream.Skip (loop "skip") and by NextStream    *)
(* for encrypted streams without a key (loop "pass").                       *)

EndOf(e) == IF e = "nil" THEN "skipped" ELSE "not skipped"
Ended(e) == [got EXCEPT ![Len(got)].end = IF @ = "open" THEN e ELSE @]

\* Only a plain stream's Reader is told that it has been skipped.
Skip ==
  /\ rpc = "idle" /\ cur.kind # "none" /\ Calling
  /\ Careful => ~Stopped /\ ~cur.done
  /\ cur' = [cur EXCEPT !.isEOF = (@ \/ cur.kind = "plain")]
  /\ rpc' = "skip"
  /\ UNCHANGED <<ended, rpos, rerr, inStream, rkey, src, opt, ret, got, sets>>

\* NextStream keeps the error of skipDataBlocks, Skip only returns it.
SkipReturns(e) ==
  IF rpc = "pass"
  THEN /\ IF e = "nil" THEN rpc' = "next" /\ UNCHANGED <<rerr, ret>>
          ELSE rerr' = Kept(e) /\ Return("next", rerr')
       /\ UNCHANGED <<cur, got>>
  ELSE /\ Return("skip", e)
       /\ cur' = [cur EXCEPT !.done = (@ \/ e = "nil")]
       /\ got' = Ended(EndOf(e))
       /\ UNCHANGED rerr

\* Mutant: an error block is discarded like data.
Discarded_Errors == {"Datablock", "Skippable", "Error"}

Discarded == {"Datablock", "Skippable"}

SkipBlock ==
  /\ rpc \in {"skip", "pass"} /\ HasBlock
  /\ rpos' = rpos + 1
  /\ \/ /\ Block.kind \in Discarded
        /\ UNCHANGED <<rpc, ret, rerr, cur, got, inStream>>
     \/ /\ Block.kind = "EOS"
        /\ inStream' = FALSE /\ SkipReturns("nil")
     \/ /\ Block.kind = "Error" /\ Block.kind \notin Discarded
        /\ SkipReturns("Message") /\ UNCHANGED inStream
     \/ /\ Block.kind \in KeyKinds \cup StreamKinds \cup {"EOF"}
        /\ SkipReturns("BlockType") /\ UNCHANGED inStream
  /\ UNCHANGED <<ended, rkey, src, opt, calls, sets>>

\* Mutant: the end of the input is waited for again and again.
SkipAtEnd_Retries ==
  /\ rpc \in {"skip", "pass"} /\ Drained
  /\ UNCHANGED <<ended, rpos, rerr, inStream, rkey, src, opt, rpc, cur, ret, got, calls, sets>>

SkipAtEnd ==
  /\ rpc \in {"skip", "pass"} /\ Drained
  /\ \E e \in AtEnd(rpc) : SkipReturns(e)
  /\ UNCHANGED <<ended, rpos, inStream, rkey, src, opt, calls, sets>>

----------------------------------------------------------------------------
(* Stream.Read: streamReader.Read for a plain stream, sio's DecryptReader   *)
(* on top of it for an encrypted one.  sio opens a fragment when the next   *)
(* one, or the end, shows whether it is the last.                           *)

\* Mutant: without authentication.
Opens_Unchecked(p, last) ==
  p.key = cur.key /\ p.nonce = cur.nonce /\ p.frag = cur.frag /\ p.last = last

Opens(p, last) ==
  /\ p.key = cur.key /\ p.nonce = cur.nonce /\ p.frag = cur.frag /\ p.last = last
  /\ \A i \in DOMAIN p.body : p.body[i] # Bad

\* Mutant: each piece replaces the one before.
Received_Overwrites(body) == [got EXCEPT ![Len(got)].data = body]

Received(body) == [got EXCEPT ![Len(got)].data = @ \o body]

\* streamReader.Read returned the error e (c is cur with what it changed).
SourceReturns(c, e) ==
  LET opened == c.pend # <<>> /\ Opens(c.pend[1], TRUE)
      r == IF c.kind = "enc" /\ e = "EOF" /\ ~opened THEN "NotAuthentic" ELSE e
      body == IF c.kind = "enc" /\ e = "EOF" /\ opened THEN c.pend[1].body ELSE <<>>
  IN /\ cur' = [c EXCEPT !.dead = IF c.kind = "enc" THEN r ELSE @,
                         !.done = (@ \/ r = "EOF")]
     /\ got' = [Received(body) EXCEPT ![Len(got)].end = IF @ = "open" THEN r ELSE @]
     /\ Return("read", r)

\* A Stream returned with ErrNoKey has no Reader.  After an unexpected block
\* type the input is in the middle of a block; the model ends the calls there.
Read ==
  /\ rpc = "idle" /\ cur.kind \in {"plain", "enc"} /\ Calling
  /\ Careful => ~Stopped /\ ~cur.done
  /\ ret # [call |-> "read", err |-> "BlockType"]
  /\ \/ /\ cur.dead # "nil"
        /\ Return("read", cur.dead) /\ UNCHANGED <<cur, got>>
     \/ /\ cur.dead = "nil" /\ cur.isEOF
        /\ Return("read", "EOF") /\ UNCHANGED <<cur, got>>
     \/ /\ cur.dead = "nil" /\ ~cur.isEOF /\ rerr # "nil"
        /\ SourceReturns(cur, rerr)
     \/ /\ cur.dead = "nil" /\ ~cur.isEOF /\ rerr = "nil"
        /\ rpc' = "read" /\ UNCHANGED <<cur, ret, got>>
  /\ UNCHANGED <<ended, rpos, rerr, inStream, rkey, src, opt, sets>>

\* The data of a plain stream is handed out as it comes, before the checksum.
ReadData(p) ==
  LET c == [cur EXCEPT !.h = Append(@, p)] IN
  /\ UNCHANGED <<rerr, inStream>>
  /\ \/ /\ cur.kind = "plain"
        /\ cur' = c /\ got' = Received(p.body) /\ Return("read", "nil")
     \/ /\ cur.kind = "enc" /\ cur.pend = <<>>
        /\ cur' = [c EXCEPT !.pend = <<p>>] /\ Proceed /\ UNCHANGED got
     \/ /\ cur.kind = "enc" /\ cur.pend # <<>>
        /\ IF Opens(cur.pend[1], FALSE)
           THEN /\ cur' = [c EXCEPT !.pend = <<p>>, !.frag = @ + 1]
                /\ got' = Received(cur.pend[1].body) /\ Return("read", "nil")
           ELSE /\ cur' = [c EXCEPT !.dead = "NotAuthentic"]
                /\ got' = Ended("NotAuthentic") /\ Return("read", "NotAuthentic")

\* Mutant: the checksum is not compared.
SumMatches_Never(b) == TRUE

SumMatches(b) == b.sum = cur.h

ReadEOS(b) ==
  IF SumMatches(b)
  THEN /\ inStream' = FALSE /\ UNCHANGED rerr
       /\ SourceReturns([cur EXCEPT !.isEOF = TRUE], "EOF")
  ELSE /\ rerr' = Kept("Checksum") /\ SourceReturns(cur, rerr')
       /\ UNCHANGED inStream

ReadBlock ==
  /\ rpc = "read" /\ HasBlock
  /\ rpos' = rpos + 1
  /\ \/ Block.kind = "Datablock" /\ ReadData(Block.payload)
     \/ Block.kind = "EOS" /\ ReadEOS(Block)
     \/ /\ Block.kind = "Error"
        /\ rerr' = Kept("Message") /\ SourceReturns(cur, rerr') /\ UNCHANGED inStream
     \/ /\ Block.kind \in KeyKinds \cup StreamKinds \cup {"EOF"}
        /\ SourceReturns(cur, "BlockType") /\ UNCHANGED <<rerr, inStream>>
     \/ /\ Block.kind = "Skippable"
        /\ UNCHANGED <<rerr, inStream, cur, got, rpc, ret>>
  /\ UNCHANGED <<ended, rkey, src, opt, calls, sets>>

ReadAtEnd ==
  /\ rpc = "read" /\ Drained
  /\ \E e \in AtEnd("read") : rerr' = Kept(e) /\ SourceReturns(cur, rerr')
  /\ UNCHANGED <<ended, rpos, inStream, rkey, src, opt, calls, sets>>

----------------------------------------------------------------------------
\* The caller's calls, and the progress of the call it is in.
Setters ==
  \/ \E p \in PubKeys : SetPrivateKey(p)
  \/ \E ks \in SUBSET PubKeys : PrivateKeyProvider(ks)
  \/ \E b \in BOOLEAN : SkipEncrypted(b) \/ ReturnNonDecryptable(b)
Progress ==
  NewReader \/ NextBlock \/ NextAtEnd \/ SkipBlock \/ SkipAtEnd \/ ReadBlock \/ ReadAtEnd
Next == (Setters \/ NextStream \/ Read \/ Skip \/ Progress) /\ UNCHANGED wire
=============================================================================
