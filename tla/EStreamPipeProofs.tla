------------------------- MODULE EStreamPipeProofs -------------------------
(***************************************************************************)
(* Theorems about estream.Reader at the end of a pipe, for every value of   *)
(* the constants: any Writer, any key sources and options, bytes that break *)
(* off, are damaged or hold blocks of a newer version.  First the keys of   *)
(* the streams, then the data that is received.  What the Writer does is    *)
(* taken from EStreamWriterProofs, with Bad among the chunks so that a damaged *)
(* block is a block.                                                        *)
(***************************************************************************)
EXTENDS EStreamPipe, SequenceTheorems, TLAPS

D == INSTANCE EStreamWriterProofs WITH Chunks <- Chunks \cup {Bad}

----------------------------------------------------------------------------
(* The Writer of the pipe is a Writer of EStreamWriterProofs.               *)

LEMMA SameSends ==
  \A bs : W!SendOutcomes(bs) = D!SendOutcomes(bs)
BY DEF W!SendOutcomes, D!SendOutcomes, W!Faults, D!Faults, W!Leftovers, D!Leftovers,
       W!Sticky, D!Sticky, W!Partial, D!Partial, W!CutsOf, D!CutsOf, W!Cuts, D!Cuts

\* NewWriter.
LEMMA SameInit == W!Init => D!Init
BY DEF W!Init, D!Init, W!VersionBlock, D!VersionBlock, W!NoKey, D!NoKey

\* The calls on a stream.
LEMMA SameCalls ==
  /\ \A s, c : W!WritePlain(s, c) => D!WritePlain(s, c)
  /\ \A s, c : W!WriteEncrypted(s, c) => D!WriteEncrypted(s, c)
  /\ \A s : W!ClosePlain(s) => D!ClosePlain(s)
  /\ \A s : W!CloseEncrypted(s) => D!CloseEncrypted(s)
<1>1. \A s, c : W!WritePlain(s, c) => D!WritePlain(s, c)
  BY SameSends DEF W!WritePlain, D!WritePlain, W!MayUse, D!MayUse, W!IsOpen, D!IsOpen, W!Send, D!Send,
                   W!Datablock, D!Datablock, W!Clear, D!Clear, W!NoKey, D!NoKey
<1>2. \A s, c : W!WriteEncrypted(s, c) => D!WriteEncrypted(s, c)
  <2>1. \A hd, l : W!Fragment(hd, l) = D!Fragment(hd, l)
    BY DEF W!Fragment, D!Fragment, W!Sealed, D!Sealed
  <2>2. \A p : W!Datablock(p) = D!Datablock(p)
    BY DEF W!Datablock, D!Datablock
  <2>3. \A s : W!MayUse(s) <=> D!MayUse(s)
    BY DEF W!MayUse, D!MayUse, W!IsOpen, D!IsOpen
  <2>4. \A o : W!Send(o) <=> D!Send(o)
    BY DEF W!Send, D!Send
  <2>5. ASSUME NEW s, NEW c, W!WriteEncrypted(s, c), handles[s].pend # <<>>
        PROVE  D!WriteEncrypted(s, c)
    <3>1. \E o \in D!SendOutcomes(<< D!Datablock(D!Fragment(handles[s], FALSE)) >>) : D!Send(o)
      BY SameSends, <2>1, <2>2, <2>4, <2>5 DEF W!WriteEncrypted
    <3> QED BY <2>1, <2>3, <2>5, <3>1 DEF W!WriteEncrypted, D!WriteEncrypted
  <2>6. ASSUME NEW s, NEW c, W!WriteEncrypted(s, c), handles[s].pend = <<>>
        PROVE  D!WriteEncrypted(s, c)
    BY <2>3, <2>6 DEF W!WriteEncrypted, D!WriteEncrypted
  <2> QED BY <2>5, <2>6
<1>3. \A s : W!ClosePlain(s) => D!ClosePlain(s)
  BY SameSends DEF W!ClosePlain, D!ClosePlain, W!MayUse, D!MayUse, W!IsOpen, D!IsOpen, W!Send, D!Send,
                   W!EOSBlocks, D!EOSBlocks, W!EOS, D!EOS, W!Acked, D!Acked
<1>4. \A s : W!CloseEncrypted(s) => D!CloseEncrypted(s)
  BY SameSends DEF W!CloseEncrypted, D!CloseEncrypted, W!MayUse, D!MayUse, W!IsOpen, D!IsOpen, W!Send,
                   D!Send, W!EOSBlocks, D!EOSBlocks, W!EOS, D!EOS, W!Acked, D!Acked, W!Datablock,
                   D!Datablock, W!Fragment, D!Fragment, W!Sealed, D!Sealed, W!AfterSioClose,
                   D!AfterSioClose
<1> QED BY <1>1, <1>2, <1>3, <1>4

\* Every call, with the chunks that are written.
LEMMA SameNext == W!Next => D!Next
<1>1. W!AddKeyPlain => D!AddKeyPlain
  BY SameSends DEF W!AddKeyPlain, D!AddKeyPlain, W!MayAdd, D!MayAdd, W!Opened, D!Opened, W!IsOpen,
                   D!IsOpen, W!Send, D!Send, W!PlainKey, D!PlainKey
<1>2. \A p : W!AddKeyEncrypted(p) => D!AddKeyEncrypted(p)
  BY SameSends DEF W!AddKeyEncrypted, D!AddKeyEncrypted, W!MayAdd, D!MayAdd, W!Opened, D!Opened,
                   W!IsOpen, D!IsOpen, W!Send, D!Send, W!EncryptedKey, D!EncryptedKey
<1>3. W!AddError => D!AddError
  BY SameSends DEF W!AddError, D!AddError, W!Send, D!Send, W!ErrorBlock, D!ErrorBlock
<1>4. W!AddUnencryptedStream => D!AddUnencryptedStream
  BY SameSends DEF W!AddUnencryptedStream, D!AddUnencryptedStream, W!MayAdd, D!MayAdd, W!Opened,
                   D!Opened, W!IsOpen, D!IsOpen, W!Send, D!Send, W!PlainStream, D!PlainStream,
                   W!Handle, D!Handle, W!NoKey, D!NoKey
<1>5. W!AddEncryptedStream => D!AddEncryptedStream
  BY SameSends DEF W!AddEncryptedStream, D!AddEncryptedStream, W!MayAdd, D!MayAdd, W!Opened,
                   D!Opened, W!IsOpen, D!IsOpen, W!Send, D!Send, W!EncStream, D!EncStream,
                   W!Handle, D!Handle, W!NoKey, D!NoKey, W!NextNonce, D!NextNonce
<1>6. W!CloseWriter => D!CloseWriter
  BY SameSends DEF W!CloseWriter, D!CloseWriter, W!Opened, D!Opened, W!IsOpen, D!IsOpen, W!Send, D!Send,
                   W!EOFBlock, D!EOFBlock
<1> QED BY <1>1, <1>2, <1>3, <1>4, <1>5, <1>6, SameCalls DEF W!Next, D!Next, W!Opened, D!Opened

----------------------------------------------------------------------------
(* Keys on the wire.                                                        *)

\* Key k is that of the last key block before block i.
KeyBefore(i, k) ==
  \E j \in 1..(i - 1) :
    /\ wire[j].kind \in KeyKinds /\ wire[j].key = k
    /\ \A m \in (j + 1)..(i - 1) : wire[m].kind \notin KeyKinds

LEMMA SameKeyBefore ==
  ASSUME NEW i, NEW k
  PROVE  (D!LatestKeyIs(i, k) <=> KeyBefore(i, k)) /\ (D!LatestKeyIs(i, k)' <=> KeyBefore(i, k)')
BY DEF D!LatestKeyIs, KeyBefore, D!KindAt, D!KeyKinds, KeyKinds

\* There is one such key at most.
LEMMA OneKeyBefore ==
  ASSUME NEW i \in Nat, NEW k, NEW l, KeyBefore(i, k), KeyBefore(i, l)
  PROVE  k = l
<1>1. PICK j \in 1..(i - 1) :
        /\ wire[j].kind \in KeyKinds /\ wire[j].key = k
        /\ \A m \in (j + 1)..(i - 1) : wire[m].kind \notin KeyKinds
  BY DEF KeyBefore
<1>2. PICK n \in 1..(i - 1) :
        /\ wire[n].kind \in KeyKinds /\ wire[n].key = l
        /\ \A m \in (n + 1)..(i - 1) : wire[m].kind \notin KeyKinds
  BY DEF KeyBefore
<1>3. ~(j < n) /\ ~(n < j)
  BY <1>1, <1>2
<1> QED BY <1>1, <1>2, <1>3

\* It depends on what precedes block i only.
LEMMA KeyBeforeStays ==
  ASSUME NEW i \in Nat, NEW k, KeyBefore(i, k), \A j \in 1..(i - 1) : wire'[j] = wire[j]
  PROVE  KeyBefore(i, k)'
<1>1. PICK j \in 1..(i - 1) :
        /\ wire[j].kind \in KeyKinds /\ wire[j].key = k
        /\ \A m \in (j + 1)..(i - 1) : wire[m].kind \notin KeyKinds
  BY DEF KeyBefore
<1>2. \A m \in (j + 1)..(i - 1) : m \in 1..(i - 1)
  OBVIOUS
<1> QED BY <1>1, <1>2 DEF KeyBefore

----------------------------------------------------------------------------
(* The Reader.  Inductive invariant: it is at a block of the input; what it  *)
(* has read holds no error block, and the key it keeps is that of the last  *)
(* key block it has read - or its last call has failed, with the message if *)
(* there was one; and the Stream in the caller's hands has the key of its   *)
(* handle.                                                                  *)

NoErrorRead == \A i \in 1..(rpos - 1) : wire[i].kind # "Error"
Clean       == NoErrorRead /\ (rkey # NoKey => KeyBefore(rpos, rkey))
Halted      == rpc = "idle" /\ R!Stopped /\ (NoErrorRead \/ ret.err = "Message")

HasItsKey(c) ==
  /\ {"sid", "kind", "key"} \subseteq DOMAIN c
  /\ c.kind = "enc" =>
       IF c.sid \in DOMAIN handles THEN c.key = handles[c.sid].key ELSE werr

ReaderInv ==
  /\ rpos \in 1..(Len(wire) + 1)
  /\ rpc \in {"next", "pass", "read"} => rerr = "nil"
  /\ Clean \/ Halted
  /\ HasItsKey(cur)

LEMMA ReaderInvMeans == ReaderInv => ErrorBlockStops /\ OpenedWithItsKey
BY DEF ReaderInv, Clean, Halted, NoErrorRead, HasItsKey, ErrorBlockStops, OpenedWithItsKey

\* A call that runs, or that a careful caller makes, finds nothing wrong.
LEMMA CleanWhileRunning ==
  ASSUME ReaderInv, rpc # "idle" \/ ~R!Stopped
  PROVE  Clean
BY DEF ReaderInv, Halted

\* Reading a block that is neither a key nor an error.
LEMMA CleanNext ==
  ASSUME Clean, rpos \in 1..Len(wire), wire' = wire, rpos' = rpos + 1, rkey' = rkey,
         wire[rpos].kind \notin KeyKinds \cup {"Error"}
  PROVE  Clean'
<1>1. \A i \in 1..(rpos' - 1) : i \in 1..(rpos - 1) \/ i = rpos
  OBVIOUS
<1>2. NoErrorRead'
  BY <1>1 DEF Clean, NoErrorRead
<1>3. ASSUME rkey # NoKey PROVE KeyBefore(rpos, rkey)'
  <2>1. PICK j \in 1..(rpos - 1) :
          /\ wire[j].kind \in KeyKinds /\ wire[j].key = rkey
          /\ \A m \in (j + 1)..(rpos - 1) : wire[m].kind \notin KeyKinds
    BY <1>3 DEF Clean, KeyBefore
  <2>2. j \in 1..(rpos' - 1) /\ \A m \in (j + 1)..(rpos' - 1) : wire[m].kind \notin KeyKinds
    BY <2>1
  <2> QED BY <2>1, <2>2 DEF KeyBefore
<1> QED BY <1>2, <1>3 DEF Clean

\* Reading a key block, with or without getting the key.
LEMMA CleanKey ==
  ASSUME Clean, rpos \in 1..Len(wire), wire' = wire, rpos' = rpos + 1,
         wire[rpos].kind \in KeyKinds, rkey' \in {NoKey, wire[rpos].key}
  PROVE  Clean'
<1>1. \A i \in 1..(rpos' - 1) : i \in 1..(rpos - 1) \/ i = rpos
  OBVIOUS
<1>2. NoErrorRead'
  BY <1>1 DEF Clean, NoErrorRead, KeyKinds
<1>3. rpos \in 1..(rpos' - 1) /\ \A m \in (rpos + 1)..(rpos' - 1) : FALSE
  OBVIOUS
<1>4. rkey' # NoKey => KeyBefore(rpos, rkey)'
  BY <1>3 DEF KeyBefore
<1> QED BY <1>2, <1>4 DEF Clean

\* Reading a block at which the call fails.
LEMMA HaltedNext ==
  ASSUME Clean, rpos \in 1..Len(wire), wire' = wire, rpos' = rpos + 1,
         rpc' = "idle", ret'.err \in R!Failures,
         wire[rpos].kind = "Error" => ret'.err = "Message"
  PROVE  Halted'
<1>1. \A i \in 1..(rpos' - 1) : i \in 1..(rpos - 1) \/ i = rpos
  OBVIOUS
<1>2. wire[rpos].kind # "Error" => NoErrorRead'
  BY <1>1 DEF Clean, NoErrorRead
<1>3. R!Stopped'
  BY DEF R!Stopped
<1> QED BY <1>2, <1>3 DEF Halted

\* A step that reads nothing.
LEMMA CleanStays ==
  ASSUME Clean, wire' = wire, rpos' = rpos, rkey' = rkey
  PROVE  Clean'
BY DEF Clean, NoErrorRead, KeyBefore

----------------------------------------------------------------------------
(* The steps of the Reader.                                                 *)

\* A header is followed by what its handle's key seals, unless the handle was
\* never given out.
HeadersFit ==
  /\ wire \in Seq(D!Blocks)
  /\ \A h \in DOMAIN wire : wire[h].kind = "EncStream" =>
       IF wire[h].sid \in DOMAIN handles
       THEN KeyBefore(h, handles[wire[h].sid].key) ELSE werr

\* What a step of the Reader leaves alone, and what holds before it.
Reads == ReaderInv /\ HeadersFit /\ UNCHANGED <<wire, wown>>

\* A Stream keeps its key, whatever else becomes of it.
SameStream ==
  /\ {"sid", "kind", "key"} \subseteq DOMAIN cur'
  /\ cur'.sid = cur.sid /\ cur'.kind = cur.kind /\ cur'.key = cur.key

LEMMA SameStreamKeepsKey ==
  ASSUME Reads, cur' = cur \/ SameStream
  PROVE  HasItsKey(cur)'
BY DEF Reads, ReaderInv, HasItsKey, SameStream, wown

\* streamReader.Read returns an error: sio makes an io.EOF that comes too early
\* one of its own.
LEMMA SourceKeepsStream ==
  ASSUME NEW c, NEW e, {"sid", "kind", "key"} \subseteq DOMAIN c, R!SourceReturns(c, e)
  PROVE  /\ rpc' = "idle" /\ (e # "EOF" => ret'.err = e)
         /\ {"sid", "kind", "key"} \subseteq DOMAIN cur'
         /\ cur'.sid = c.sid /\ cur'.kind = c.kind /\ cur'.key = c.key
<1>1. PICK d, f : cur' = [c EXCEPT !.dead = d, !.done = f]
  BY DEF R!SourceReturns
<1>2. rpc' = "idle" /\ (e # "EOF" => ret'.err = e)
  BY DEF R!SourceReturns, R!Return
<1> QED BY <1>1, <1>2

\* The calls that set the private key, its provider or the options.
LEMMA SettersKeepInv ==
  ASSUME Reads, R!Setters
  PROVE  ReaderInv'
<1>1. UNCHANGED <<rpos, rerr, rkey, rpc, cur, ret>>
  BY DEF R!Setters, R!SetPrivateKey, R!PrivateKeyProvider, R!SkipEncrypted,
         R!ReturnNonDecryptable, R!Configure
<1>2. UNCHANGED <<wire, handles, werr>>
  BY DEF Reads, wown
<1> QED BY <1>1, <1>2 DEF Reads, ReaderInv, Clean, Halted, NoErrorRead, KeyBefore, HasItsKey, R!Stopped

\* The calls that read: their first step.
LEMMA CallsKeepInv ==
  ASSUME Reads, Careful, R!NextStream \/ R!Read \/ R!Skip
  PROVE  ReaderInv'
<1>1. ~R!Stopped /\ UNCHANGED <<rpos, rerr, rkey>>
  BY DEF R!NextStream, R!Read, R!Skip
<1>2. Clean'
  BY <1>1, CleanWhileRunning, CleanStays DEF Reads
<1>3. rpos' \in 1..(Len(wire') + 1)
  BY <1>1 DEF Reads, ReaderInv
<1>4. {"sid", "kind", "key"} \subseteq DOMAIN cur
  BY DEF Reads, ReaderInv, HasItsKey
<1>5. CASE R!NextStream
  <2>1. cur' = cur /\ (rpc' \in {"next", "pass", "read"} => rerr' = "nil")
    BY <1>5 DEF R!NextStream, R!Return
  <2> QED BY <1>2, <1>3, <2>1, SameStreamKeepsKey DEF ReaderInv
<1>6. CASE R!Read
  <2>1. CASE rpc' = "read" /\ rerr = "nil" /\ cur' = cur
    BY <1>1, <1>2, <1>3, <2>1, SameStreamKeepsKey DEF ReaderInv
  <2>2. CASE rpc' = "idle" /\ cur' = cur
    BY <1>2, <1>3, <2>2, SameStreamKeepsKey DEF ReaderInv
  <2>3. CASE R!SourceReturns(cur, rerr)
    <3>1. rpc' = "idle" /\ SameStream
      BY <1>4, <2>3, SourceKeepsStream DEF SameStream
    <3> QED BY <1>2, <1>3, <3>1, SameStreamKeepsKey DEF ReaderInv
  <2> QED BY <1>6, <2>1, <2>2, <2>3 DEF R!Read, R!Return
<1>7. CASE R!Skip
  <2>1. rpc' = "skip"
    BY <1>7 DEF R!Skip
  <2>2. PICK e : cur' = [cur EXCEPT !.isEOF = e]
    BY <1>7 DEF R!Skip
  <2>3. SameStream
    BY <1>4, <2>2 DEF SameStream
  <2> QED BY <1>2, <1>3, <2>1, <2>3, SameStreamKeepsKey DEF ReaderInv
<1> QED BY <1>5, <1>6, <1>7

\* skipDataBlocks returns to the loop of NextStream or to the caller.
LEMMA SkipKeepsStream ==
  ASSUME NEW e, rpc = "pass" => rerr = "nil", {"sid", "kind", "key"} \subseteq DOMAIN cur,
         R!SkipReturns(e)
  PROVE  /\ \/ rpc' = "idle" /\ ret'.err = e
            \/ e = "nil" /\ rpc' = "next" /\ rerr' = "nil"
         /\ cur' = cur \/ SameStream
<1>1. CASE rpc = "pass"
  BY <1>1 DEF R!SkipReturns, R!Return, R!Kept
<1>2. CASE rpc # "pass"
  <2>1. rpc' = "idle" /\ ret'.err = e
    BY <1>2 DEF R!SkipReturns, R!Return
  <2>2. PICK d : cur' = [cur EXCEPT !.done = d]
    BY <1>2 DEF R!SkipReturns
  <2> QED BY <2>1, <2>2 DEF SameStream
<1> QED BY <1>1, <1>2

\* NewReader, and the calls at the end of the input.
LEMMA EndsKeepInv ==
  ASSUME Reads, R!NewReader \/ R!NextAtEnd \/ R!SkipAtEnd \/ R!ReadAtEnd
  PROVE  ReaderInv'
<1>1. rpc # "idle" /\ rkey' = rkey /\ wire' = wire
  BY DEF R!NewReader, R!NextAtEnd, R!SkipAtEnd, R!ReadAtEnd, Reads
<1>2. Clean
  BY <1>1, CleanWhileRunning DEF Reads
<1>3. {"sid", "kind", "key"} \subseteq DOMAIN cur
  BY DEF Reads, ReaderInv, HasItsKey
<1>4. rpos \in 1..(Len(wire) + 1) /\ Len(wire) \in Nat
  BY DEF Reads, ReaderInv, HeadersFit
<1>5. CASE R!NewReader
  <2>1. cur' = cur /\ rpc' \in {"idle", "failed"}
    BY <1>5 DEF R!NewReader, R!Return
  <2>2. CASE rpos' = rpos
    BY <1>1, <1>2, <1>4, <2>1, <2>2, CleanStays, SameStreamKeepsKey DEF ReaderInv
  <2>3. CASE rpos' = rpos + 1 /\ rpos <= Len(wire) /\ wire[rpos].kind = "Version"
    <3>1. Clean' /\ rpos' \in 1..(Len(wire') + 1)
      BY <1>1, <1>2, <1>4, <2>3, CleanNext DEF KeyKinds
    <3> QED BY <2>1, <3>1, SameStreamKeepsKey DEF ReaderInv
  <2> QED BY <1>5, <2>2, <2>3 DEF R!NewReader, R!HasBlock, R!Block
<1>6. CASE R!NextAtEnd \/ R!SkipAtEnd \/ R!ReadAtEnd
  <2>1. Clean' /\ rpos' \in 1..(Len(wire') + 1)
    BY <1>1, <1>2, <1>4, <1>6, CleanStays DEF R!NextAtEnd, R!SkipAtEnd, R!ReadAtEnd
  <2>2. ASSUME R!NextAtEnd PROVE rpc' = "idle" /\ cur' = cur
    BY <2>2 DEF R!NextAtEnd, R!Return
  <2>3. ASSUME R!ReadAtEnd PROVE rpc' = "idle" /\ SameStream
    <3>1. PICK e : R!SourceReturns(cur, e)
      BY <2>3 DEF R!ReadAtEnd
    <3> QED BY <1>3, <3>1, SourceKeepsStream DEF SameStream
  <2>4. ASSUME R!SkipAtEnd
        PROVE  (rpc' = "idle" \/ rerr' = "nil") /\ (cur' = cur \/ SameStream)
    <3>1. PICK e : R!SkipReturns(e)
      BY <2>4 DEF R!SkipAtEnd
    <3>2. rpc = "pass" => rerr = "nil"
      BY DEF Reads, ReaderInv
    <3> QED BY <1>3, <3>1, <3>2, SkipKeepsStream
  <2> QED BY <1>6, <2>1, <2>2, <2>3, <2>4, SameStreamKeepsKey DEF ReaderInv
<1> QED BY <1>5, <1>6

\* NextStream at an encrypted key: it has the key, or it has none, or it fails.
LEMMA EncryptedKeyKeepsInv ==
  ASSUME Reads, Clean, rpc = "next", rpos \in 1..Len(wire), rpos' = rpos + 1,
         wire[rpos].kind = "EncryptedKey", R!NextEncryptedKey(wire[rpos]), cur' = cur
  PROVE  ReaderInv'
<1>1. rerr = "nil" /\ rpos' \in 1..(Len(wire') + 1) /\ wire' = wire
  BY DEF Reads, ReaderInv, HeadersFit
<1>2. HasItsKey(cur)'
  BY SameStreamKeepsKey
<1>3. \/ rkey' \in {NoKey, wire[rpos].key} /\ rpc' = rpc /\ rerr' = rerr
      \/ rpc' = "idle" /\ ret'.err \in {"NoPrivate", "RSA"}
  BY <1>1 DEF R!NextEncryptedKey, R!Proceed, R!Return, R!Kept, R!NoKey, NoKey
<1>4. CASE rkey' \in {NoKey, wire[rpos].key} /\ rpc' = rpc /\ rerr' = rerr
  <2>1. Clean'
    BY <1>1, <1>4, CleanKey DEF KeyKinds
  <2> QED BY <1>1, <1>2, <1>4, <2>1 DEF ReaderInv
<1>5. CASE rpc' = "idle" /\ ret'.err \in {"NoPrivate", "RSA"}
  <2>1. Halted'
    BY <1>1, <1>5, HaltedNext DEF R!Failures
  <2> QED BY <1>1, <1>2, <1>5, <2>1 DEF ReaderInv
<1> QED BY <1>3, <1>4, <1>5

\* NextStream at a header it can open: the key of the Stream is the latest, and
\* so is that of the handle.
LEMMA OpenedKeepsKey ==
  ASSUME Reads, Clean, rpos \in 1..Len(wire), wire[rpos].kind = "EncStream", rkey # NoKey,
         cur' = R!StreamOf(wire[rpos], "enc", rkey)
  PROVE  HasItsKey(cur)'
<1>1. /\ {"sid", "kind", "key"} \subseteq DOMAIN cur'
      /\ cur'.sid = wire[rpos].sid /\ cur'.key = rkey
  BY DEF R!StreamOf, R!NoStream
<1>2. KeyBefore(rpos, rkey)
  BY DEF Clean
<1>3. rpos \in DOMAIN wire /\ rpos \in Nat /\ handles' = handles /\ werr' = werr
  BY DEF Reads, HeadersFit, wown
<1>4. IF wire[rpos].sid \in DOMAIN handles THEN rkey = handles[wire[rpos].sid].key ELSE werr
  BY <1>2, <1>3, OneKeyBefore DEF Reads, HeadersFit
<1> QED BY <1>1, <1>3, <1>4 DEF HasItsKey

\* A Stream in the clear or without a key.
LEMMA OtherStream ==
  ASSUME NEW b, NEW kind \in {"plain", "nokey"}, cur' = R!StreamOf(b, kind, R!NoKey)
  PROVE  HasItsKey(cur)'
<1>1. {"sid", "kind", "key"} \subseteq DOMAIN cur' /\ cur'.kind = kind
  BY DEF R!StreamOf, R!NoStream
<1> QED BY <1>1 DEF HasItsKey

\* NextStream at the next block.
LEMMA NextBlockKeepsInv ==
  ASSUME Reads, R!NextBlock
  PROVE  ReaderInv'
<1>0. /\ rpc = "next" /\ rerr = "nil" /\ rpos' = rpos + 1 /\ wire' = wire
      /\ rpos \in 1..Len(wire) /\ rpos' \in 1..(Len(wire') + 1)
  BY DEF R!NextBlock, R!HasBlock, Reads, ReaderInv, HeadersFit
<1>1. Clean
  BY <1>0, CleanWhileRunning DEF Reads
<1> DEFINE b == wire[rpos]
<1>2. CASE b.kind = "PlainKey" /\ rkey' = b.key /\ UNCHANGED <<rpc, rerr, cur>>
  <2>1. Clean'
    BY <1>0, <1>1, <1>2, CleanKey DEF KeyKinds
  <2> QED BY <1>0, <1>2, <2>1, SameStreamKeepsKey DEF ReaderInv
<1>3. CASE b.kind = "EncryptedKey" /\ R!NextEncryptedKey(b) /\ cur' = cur
  BY <1>0, <1>1, <1>3, EncryptedKeyKeepsInv
<1>4. CASE b.kind = "PlainStream" /\ R!Deliver(b, "plain", "nil") /\ rkey' = rkey
  <2>1. rpc' = "idle" /\ cur' = R!StreamOf(b, "plain", R!NoKey)
    BY <1>4 DEF R!Deliver, R!Return
  <2>2. Clean'
    BY <1>0, <1>1, <1>4, CleanNext DEF KeyKinds
  <2> QED BY <1>0, <2>1, <2>2, OtherStream DEF ReaderInv
<1>5. CASE b.kind = "EncStream" /\ rkey # NoKey /\ R!Deliver(b, "enc", "nil") /\ rkey' = rkey
  <2>1. rpc' = "idle" /\ cur' = R!StreamOf(b, "enc", rkey)
    BY <1>5 DEF R!Deliver, R!Return
  <2>2. Clean'
    BY <1>0, <1>1, <1>5, CleanNext DEF KeyKinds
  <2> QED BY <1>0, <1>1, <1>5, <2>1, <2>2, OpenedKeepsKey DEF ReaderInv
<1>6. CASE b.kind = "EncStream" /\ rpc' = "pass" /\ UNCHANGED <<rerr, rkey, cur>>
  <2>1. Clean'
    BY <1>0, <1>1, <1>6, CleanNext DEF KeyKinds
  <2> QED BY <1>0, <1>6, <2>1, SameStreamKeepsKey DEF ReaderInv
<1>7. CASE b.kind = "EncStream" /\ R!Deliver(b, "nokey", "ErrNoKey") /\ rkey' = rkey
  <2>1. rpc' = "idle" /\ cur' = R!StreamOf(b, "nokey", R!NoKey)
    BY <1>7 DEF R!Deliver, R!Return
  <2>2. Clean'
    BY <1>0, <1>1, <1>7, CleanNext DEF KeyKinds
  <2> QED BY <1>0, <2>1, <2>2, OtherStream DEF ReaderInv
<1>8. CASE /\ b.kind \in {"Datablock", "EOS", "EOF", "Skippable"} /\ rpc' \in {"idle", "next"}
           /\ UNCHANGED <<rerr, rkey, cur>>
  <2>1. Clean'
    BY <1>0, <1>1, <1>8, CleanNext DEF KeyKinds
  <2> QED BY <1>0, <1>8, <2>1, SameStreamKeepsKey DEF ReaderInv
<1>9. CASE b.kind = "Error" /\ rpc' = "idle" /\ ret'.err = "Message" /\ cur' = cur
  <2>1. Halted'
    BY <1>0, <1>1, <1>9, HaltedNext DEF R!Failures
  <2> QED BY <1>0, <1>9, <2>1, SameStreamKeepsKey DEF ReaderInv
<1>10. R!NoKey = NoKey
  BY DEF R!NoKey, NoKey
<1> QED BY <1>0, <1>2, <1>3, <1>4, <1>5, <1>6, <1>7, <1>8, <1>9, <1>10
        DEF R!NextBlock, R!Block, R!PlainKeyRead, R!Proceed, R!Return, R!Kept

\* skipDataBlocks at the next block.
LEMMA SkipBlockKeepsInv ==
  ASSUME Reads, R!SkipBlock
  PROVE  ReaderInv'
<1>0. /\ rpc \in {"skip", "pass"} /\ (rpc = "pass" => rerr = "nil") /\ rkey' = rkey
      /\ rpos' = rpos + 1 /\ wire' = wire
      /\ rpos \in 1..Len(wire) /\ rpos' \in 1..(Len(wire') + 1)
      /\ {"sid", "kind", "key"} \subseteq DOMAIN cur
  BY DEF R!SkipBlock, R!HasBlock, Reads, ReaderInv, HeadersFit, HasItsKey
<1>1. Clean
  BY <1>0, CleanWhileRunning DEF Reads
<1> DEFINE b == wire[rpos]
<1>2. CASE b.kind \in {"Datablock", "Skippable"} /\ UNCHANGED <<rpc, rerr, cur>>
  <2>1. Clean'
    BY <1>0, <1>1, <1>2, CleanNext DEF KeyKinds
  <2> QED BY <1>0, <1>2, <2>1, SameStreamKeepsKey DEF ReaderInv
<1>3. CASE b.kind = "EOS" /\ R!SkipReturns("nil")
  <2>1. Clean'
    BY <1>0, <1>1, <1>3, CleanNext DEF KeyKinds
  <2>2. (rpc' = "idle" \/ rerr' = "nil") /\ (cur' = cur \/ SameStream)
    BY <1>0, <1>3, SkipKeepsStream
  <2> QED BY <1>0, <2>1, <2>2, SameStreamKeepsKey DEF ReaderInv
<1>4. ASSUME NEW e \in {"Message", "BlockType"}, R!SkipReturns(e), b.kind = "Error" => e = "Message"
      PROVE  ReaderInv'
  <2>1. rpc' = "idle" /\ ret'.err = e /\ (cur' = cur \/ SameStream)
    BY <1>0, <1>4, SkipKeepsStream
  <2>2. Halted'
    BY <1>0, <1>1, <1>4, <2>1, HaltedNext DEF R!Failures
  <2> QED BY <1>0, <2>1, <2>2, SameStreamKeepsKey DEF ReaderInv
<1>5. \A k \in R!KeyKinds \cup R!StreamKinds \cup {"EOF"} : k # "Error"
  BY DEF R!KeyKinds, R!StreamKinds
<1>6. \/ b.kind \in {"Datablock", "Skippable"} /\ UNCHANGED <<rpc, rerr, cur>>
      \/ b.kind = "EOS" /\ R!SkipReturns("nil")
      \/ R!SkipReturns("Message")
      \/ b.kind \in R!KeyKinds \cup R!StreamKinds \cup {"EOF"} /\ R!SkipReturns("BlockType")
  BY DEF R!SkipBlock, R!Block, R!Discarded
<1> HIDE DEF b
<1> QED BY <1>2, <1>3, <1>4, <1>5, <1>6

\* streamReader.Read at the next block.
LEMMA ReadBlockKeepsInv ==
  ASSUME Reads, R!ReadBlock
  PROVE  ReaderInv'
<1>0. /\ rpc = "read" /\ rerr = "nil" /\ rkey' = rkey /\ rpos' = rpos + 1 /\ wire' = wire
      /\ rpos \in 1..Len(wire) /\ rpos' \in 1..(Len(wire') + 1)
      /\ {"sid", "kind", "key"} \subseteq DOMAIN cur
  BY DEF R!ReadBlock, R!HasBlock, Reads, ReaderInv, HeadersFit, HasItsKey
<1>1. Clean
  BY <1>0, CleanWhileRunning DEF Reads
<1> DEFINE b == wire[rpos]
<1>2. CASE b.kind = "Datablock" /\ R!ReadData(b.payload)
  <2>1. Clean'
    BY <1>0, <1>1, <1>2, CleanNext DEF KeyKinds
  <2>2. rpc' = "idle" \/ rerr' = "nil"
    BY <1>0, <1>2 DEF R!ReadData
  <2> DEFINE c == [cur EXCEPT !.h = Append(@, b.payload)]
  <2>3. \/ cur' = c
        \/ cur' = [c EXCEPT !.pend = << b.payload >>]
        \/ cur' = [c EXCEPT !.pend = << b.payload >>, !.frag = @ + 1]
        \/ cur' = [c EXCEPT !.dead = "NotAuthentic"]
    BY <1>2 DEF R!ReadData
  <2>4. /\ {"sid", "kind", "key"} \subseteq DOMAIN c
        /\ c.sid = cur.sid /\ c.kind = cur.kind /\ c.key = cur.key
    BY <1>0
  <2> HIDE DEF c
  <2>5. SameStream
    BY <2>3, <2>4 DEF SameStream
  <2> QED BY <1>0, <2>1, <2>2, <2>5, SameStreamKeepsKey DEF ReaderInv
<1>3. CASE b.kind = "EOS" /\ R!ReadEOS(b)
  <2>1. Clean'
    BY <1>0, <1>1, <1>3, CleanNext DEF KeyKinds
  <2>2. CASE R!SourceReturns([cur EXCEPT !.isEOF = TRUE], "EOF")
    <3>1. rpc' = "idle" /\ SameStream
      BY <1>0, <2>2, SourceKeepsStream DEF SameStream
    <3> QED BY <1>0, <2>1, <3>1, SameStreamKeepsKey DEF ReaderInv
  <2>3. CASE R!SourceReturns(cur, rerr')
    <3>1. rpc' = "idle" /\ SameStream
      BY <1>0, <2>3, SourceKeepsStream DEF SameStream
    <3> QED BY <1>0, <2>1, <3>1, SameStreamKeepsKey DEF ReaderInv
  <2> QED BY <1>3, <2>2, <2>3 DEF R!ReadEOS
<1>4. ASSUME NEW e \in {"Message", "BlockType"}, R!SourceReturns(cur, e),
             b.kind = "Error" => e = "Message"
      PROVE  ReaderInv'
  <2>1. rpc' = "idle" /\ ret'.err = e /\ SameStream
    BY <1>0, <1>4, SourceKeepsStream DEF SameStream
  <2>2. Halted'
    BY <1>0, <1>1, <1>4, <2>1, HaltedNext DEF R!Failures
  <2> QED BY <1>0, <2>1, <2>2, SameStreamKeepsKey DEF ReaderInv
<1>5. CASE b.kind = "Skippable" /\ UNCHANGED <<rerr, cur>>
  <2>1. Clean'
    BY <1>0, <1>1, <1>5, CleanNext DEF KeyKinds
  <2> QED BY <1>0, <1>5, <2>1, SameStreamKeepsKey DEF ReaderInv
<1>6. \A k \in R!KeyKinds \cup R!StreamKinds \cup {"EOF"} : k # "Error"
  BY DEF R!KeyKinds, R!StreamKinds
<1>7. \/ b.kind = "Datablock" /\ R!ReadData(b.payload)
      \/ b.kind = "EOS" /\ R!ReadEOS(b)
      \/ R!SourceReturns(cur, "Message")
      \/ b.kind \in R!KeyKinds \cup R!StreamKinds \cup {"EOF"} /\ R!SourceReturns(cur, "BlockType")
      \/ b.kind = "Skippable" /\ UNCHANGED <<rerr, cur>>
  <2>1. R!Kept("Message") = "Message"
    BY <1>0 DEF R!Kept
  <2> QED BY <2>1 DEF R!ReadBlock, R!Block
<1> HIDE DEF b
<1> QED BY <1>2, <1>3, <1>4, <1>5, <1>6, <1>7

\* Every step of the Reader.
LEMMA ReaderKeepsInv ==
  ASSUME Reads, Careful, R!Next
  PROVE  ReaderInv'
BY SettersKeepInv, CallsKeepInv, EndsKeepInv, NextBlockKeepsInv, SkipBlockKeepsInv, ReadBlockKeepsInv
   DEF R!Next, R!Progress

----------------------------------------------------------------------------
(* The steps that feed the Reader.  As long as the stream is whole, the      *)
(* invariant of WriterSealedWithLatestKey holds; the headers stay in step   *)
(* with the handles when it has broken off.                                 *)

PipeInv == HeadersFit /\ (ended \/ D!SealInv)

\* What has been read stays; handles keep their keys and a failed Writer gives
\* out no other.
Feeds ==
  /\ UNCHANGED rown
  /\ wire' \in Seq(D!Blocks) /\ rpos - 1 <= Len(wire')
  /\ \A i \in 1..(rpos - 1) : wire'[i] = wire[i]
  /\ DOMAIN handles \subseteq DOMAIN handles'
  /\ \A s \in DOMAIN handles : handles'[s].key = handles[s].key
  /\ werr => werr' /\ DOMAIN handles' = DOMAIN handles

LEMMA FeedKeepsInv ==
  ASSUME ReaderInv, Feeds
  PROVE  ReaderInv'
<1>1. rpos' = rpos /\ rpc' = rpc /\ rerr' = rerr /\ rkey' = rkey /\ ret' = ret /\ cur' = cur
  BY DEF Feeds, rown
<1>2. rpos' \in 1..(Len(wire') + 1)
  BY <1>1 DEF ReaderInv, Feeds
<1>3. NoErrorRead => NoErrorRead'
  BY <1>1 DEF NoErrorRead, Feeds
<1>4. Clean => Clean'
  <2>1. rpos \in Nat
    BY DEF ReaderInv
  <2>2. KeyBefore(rpos, rkey) => KeyBefore(rpos, rkey)'
    BY <1>1, <2>1, KeyBeforeStays DEF Feeds
  <2> QED BY <1>1, <1>3, <2>2 DEF Clean
<1>5. Halted => Halted'
  BY <1>1, <1>3 DEF Halted, R!Stopped
<1>6. HasItsKey(cur)'
  BY <1>1 DEF ReaderInv, HasItsKey, Feeds
<1> QED BY <1>1, <1>2, <1>4, <1>5, <1>6 DEF ReaderInv

LEMMA HeadersFitIs ==
  /\ HeadersFit <=> wire \in Seq(D!Blocks) /\ D!HeaderKeys
  /\ HeadersFit' <=> wire' \in Seq(D!Blocks) /\ D!HeaderKeys'
BY SameKeyBefore DEF HeadersFit, D!HeaderKeys, D!KindAt, D!Opened

\* The Writer's calls.
LEMMA WriterFeeds ==
  ASSUME ReaderInv, PipeInv, WriterStep
  PROVE  PipeInv' /\ Feeds
<1>1. D!SealInv /\ D!HeaderKeys /\ D!TypeOK /\ D!Next /\ wire \in Seq(D!Blocks)
  BY SameNext, HeadersFitIs DEF PipeInv, WriterStep, D!SealInv
<1>2. D!SealInv'
  BY <1>1, D!SealStep, PipeAssumption
<1>3. D!HeaderKeys' /\ D!HandlesStay
  BY <1>1, D!HeaderStep, PipeAssumption
<1>4. PICK t \in Seq(D!Blocks) : wire' = wire \o t
  BY <1>1, D!NextGrows, PipeAssumption
<1>5. /\ wire' \in Seq(D!Blocks) /\ Len(wire') = Len(wire) + Len(t)
      /\ \A i \in 1..Len(wire) : wire'[i] = wire[i]
  BY <1>1, <1>4, D!WireGrows, PipeAssumption
<1>6. PipeInv'
  BY <1>2, <1>3, <1>5, HeadersFitIs DEF PipeInv
<1>7. /\ rpos - 1 <= Len(wire') /\ Len(wire) \in Nat
      /\ \A i \in 1..(rpos - 1) : i \in 1..Len(wire)
  BY <1>1, <1>5 DEF ReaderInv
<1> QED BY <1>3, <1>5, <1>6, <1>7 DEF Feeds, WriterStep, D!HandlesStay, D!Opened

\* Blocks of a newer version and damage to data leave the keys, the headers and
\* what they say of the data.
Alike ==
  /\ wire' \in Seq(D!Blocks) /\ Len(wire) <= Len(wire')
  /\ \A i \in 1..Len(wire) : wire'[i].kind = wire[i].kind
  /\ \A i \in 1..Len(wire) : wire[i].kind # "Datablock" => wire'[i] = wire[i]
  /\ \A i \in 1..Len(wire) : wire[i].kind = "Datablock" =>
       wire'[i].payload.key = wire[i].payload.key /\ wire'[i].payload.nonce = wire[i].payload.nonce
  /\ \A i \in (Len(wire) + 1)..Len(wire') : wire'[i].kind = "Skippable"

LEMMA AlikeKeys ==
  ASSUME wire \in Seq(D!Blocks), Alike, NEW k
  PROVE  /\ \A h \in 1..(Len(wire) + 1) : KeyBefore(h, k) => KeyBefore(h, k)'
         /\ KeyBefore(Len(wire) + 1, k) => KeyBefore(Len(wire) + 1, k)'
<1>1. ASSUME NEW h \in 1..(Len(wire) + 1), KeyBefore(h, k) PROVE KeyBefore(h, k)'
  <2>1. PICK j \in 1..(h - 1) :
          /\ wire[j].kind \in KeyKinds /\ wire[j].key = k
          /\ \A m \in (j + 1)..(h - 1) : wire[m].kind \notin KeyKinds
    BY <1>1 DEF KeyBefore
  <2>2. j \in 1..Len(wire) /\ \A m \in (j + 1)..(h - 1) : m \in 1..Len(wire)
    OBVIOUS
  <2>3. wire'[j] = wire[j]
    BY <2>1, <2>2 DEF Alike, KeyKinds
  <2> QED BY <2>1, <2>2, <2>3 DEF KeyBefore, Alike
<1>2. ASSUME KeyBefore(Len(wire) + 1, k) PROVE KeyBefore(Len(wire) + 1, k)'
  <2>1. PICK j \in 1..Len(wire) :
          /\ wire[j].kind \in KeyKinds /\ wire[j].key = k
          /\ \A m \in (j + 1)..Len(wire) : wire[m].kind \notin KeyKinds
    BY <1>2 DEF KeyBefore
  <2>2. wire'[j] = wire[j]
    BY <2>1 DEF Alike, KeyKinds
  <2>3. \A m \in (j + 1)..Len(wire') : wire'[m].kind \notin KeyKinds
    <3>1. \A m \in (j + 1)..Len(wire') :
            \/ m \in (j + 1)..Len(wire) /\ m \in 1..Len(wire)
            \/ m \in (Len(wire) + 1)..Len(wire')
      BY DEF Alike
    <3> QED BY <2>1, <3>1 DEF Alike, KeyKinds
  <2>4. (Len(wire') + 1) - 1 = Len(wire') /\ j \in 1..Len(wire')
    BY DEF Alike
  <2> QED BY <2>1, <2>2, <2>3, <2>4 DEF KeyBefore
<1> QED BY <1>1, <1>2

LEMMA AlikeKeepsHeaders ==
  ASSUME HeadersFit, Alike, UNCHANGED wown
  PROVE  HeadersFit'
<1>1. ASSUME NEW h \in DOMAIN wire', wire'[h].kind = "EncStream"
      PROVE  h \in 1..(Len(wire) + 1) /\ h \in DOMAIN wire /\ wire'[h] = wire[h]
  BY <1>1 DEF HeadersFit, Alike
<1>2. handles' = handles /\ werr' = werr
  BY DEF wown
<1>3. ASSUME NEW h \in DOMAIN wire', wire'[h].kind = "EncStream"
      PROVE  IF wire'[h].sid \in DOMAIN handles'
             THEN KeyBefore(h, handles[wire[h].sid].key)' ELSE werr'
  <2> DEFINE k == handles[wire[h].sid].key
  <2>1. KeyBefore(h, k) => KeyBefore(h, k)'
    BY <1>1, <1>2, <1>3, AlikeKeys DEF HeadersFit
  <2> QED BY <1>1, <1>2, <1>3, <2>1 DEF HeadersFit, KeyBefore
<1> QED BY <1>3 DEF HeadersFit, Alike

LEMMA AlikeKeepsSeals ==
  ASSUME D!SealInv, Alike, UNCHANGED wown
  PROVE  D!SealInv'
<1>0. D!TypeOK /\ wire \in Seq(D!Blocks)
  BY DEF D!SealInv, D!TypeOK
<1>1. /\ handles' = handles /\ werr' = werr /\ wkey' = wkey /\ nkeys' = nkeys /\ nonce' = nonce
      /\ adds' = adds /\ errors' = errors /\ closes' = closes
  BY DEF wown
<1>2. D!TypeOK'
  BY <1>0, <1>1 DEF D!TypeOK, Alike
<1>3. D!CurrentKey'
  <2>1. ASSUME NEW k, k = wkey, ~werr, k # NoKey
        PROVE  \E j \in 1..((Len(wire') + 1) - 1) :
                 /\ wire'[j].kind \in KeyKinds /\ wire'[j].key = k
                 /\ \A m \in (j + 1)..((Len(wire') + 1) - 1) : wire'[m].kind \notin KeyKinds
    <3>1. D!LatestKeyIs(Len(wire) + 1, k)
      BY <2>1 DEF D!SealInv, D!CurrentKey, D!NoKey, NoKey
    <3>2. KeyBefore(Len(wire) + 1, k)'
      BY <1>0, <3>1, AlikeKeys, SameKeyBefore
    <3> QED BY <3>2 DEF KeyBefore
  <2>2. ~werr /\ wkey # NoKey =>
          \E j \in 1..((Len(wire') + 1) - 1) :
            /\ wire'[j].kind \in KeyKinds /\ wire'[j].key = wkey
            /\ \A m \in (j + 1)..((Len(wire') + 1) - 1) : wire'[m].kind \notin KeyKinds
    BY <2>1
  <2> QED BY <1>1, <2>2 DEF D!CurrentKey, D!LatestKeyIs, D!KindAt, D!KeyKinds, KeyKinds, D!NoKey, NoKey
<1>4. ASSUME NEW h \in DOMAIN wire, wire[h].kind = "EncStream", NEW k, D!LatestKeyIs(h, k)
      PROVE  h \in DOMAIN wire' /\ wire'[h] = wire[h] /\ D!LatestKeyIs(h, k)'
  <2>1. h \in 1..Len(wire) /\ h \in 1..(Len(wire) + 1) /\ h \in DOMAIN wire'
    BY <1>0 DEF Alike
  <2>2. KeyBefore(h, k)'
    BY <1>0, <1>4, <2>1, AlikeKeys, SameKeyBefore
  <2> QED BY <1>4, <2>1, <2>2, SameKeyBefore DEF Alike
<1>5. D!HandleKeys'
  <2>1. ASSUME NEW s \in D!Opened, handles[s].enc
        PROVE  \E h \in DOMAIN wire' :
                 /\ wire'[h].kind = "EncStream" /\ wire'[h].nonce = handles[s].nonce
                 /\ D!LatestKeyIs(h, handles[s].key)'
    <3>1. PICK h \in DOMAIN wire :
            /\ wire[h].kind = "EncStream" /\ wire[h].nonce = handles[s].nonce
            /\ D!LatestKeyIs(h, handles[s].key)
      BY <2>1 DEF D!SealInv, D!HandleKeys, D!HeaderFor, D!KindAt
    <3>2. ASSUME NEW k, k = handles[s].key
          PROVE  h \in DOMAIN wire' /\ wire'[h] = wire[h] /\ D!LatestKeyIs(h, k)'
      BY <1>4, <3>1, <3>2
    <3> QED BY <1>1, <3>1, <3>2 DEF D!LatestKeyIs
  <2> QED BY <1>1, <2>1 DEF D!HandleKeys, D!HeaderFor, D!KindAt, D!Opened
<1>6. D!SealedWithLatestKey'
  <2>1. ASSUME NEW i \in DOMAIN wire', wire'[i].kind = "Datablock", wire'[i].payload.key # D!NoKey
        PROVE  \E h \in 1..(i - 1) :
                 /\ wire'[h].kind = "EncStream" /\ wire'[h].nonce = wire'[i].payload.nonce
                 /\ D!LatestKeyIs(h, wire[i].payload.key)'
    <3>1. /\ i \in DOMAIN wire /\ i \in 1..Len(wire) /\ wire[i].kind = "Datablock"
          /\ wire'[i].payload.key = wire[i].payload.key
          /\ wire'[i].payload.nonce = wire[i].payload.nonce
      BY <1>0, <2>1 DEF Alike
    <3>2. PICK h \in 1..(i - 1) :
            /\ wire[h].kind = "EncStream" /\ wire[h].nonce = wire[i].payload.nonce
            /\ D!LatestKeyIs(h, wire[i].payload.key)
      BY <2>1, <3>1 DEF D!SealInv, D!SealedWithLatestKey, D!KindAt
    <3>3. h \in DOMAIN wire
      BY <1>0, <3>1
    <3>4. ASSUME NEW k, k = wire[i].payload.key
          PROVE  wire'[h] = wire[h] /\ D!LatestKeyIs(h, k)'
      BY <1>4, <3>2, <3>3, <3>4
    <3>5. wire'[h] = wire[h]
      BY <3>4
    <3>6. ASSUME NEW k, k = wire'[i].payload.key PROVE D!LatestKeyIs(h, k)'
      BY <3>1, <3>4, <3>6
    <3> QED BY <3>1, <3>2, <3>5, <3>6 DEF D!LatestKeyIs
  <2> QED BY <1>0, <2>1 DEF D!SealedWithLatestKey, D!KindAt, D!LatestKeyIs, Alike
<1> QED BY <1>2, <1>3, <1>5, <1>6 DEF D!SealInv

LEMMA AlikeFeeds ==
  ASSUME ReaderInv, PipeInv, Alike, UNCHANGED <<wown, ended, rown>>,
         \A i \in 1..(rpos - 1) : wire'[i] = wire[i]
  PROVE  PipeInv' /\ Feeds
<1>1. PipeInv'
  BY AlikeKeepsHeaders, AlikeKeepsSeals DEF PipeInv
<1>2. rpos - 1 <= Len(wire')
  BY DEF ReaderInv, Alike, PipeInv, HeadersFit
<1> QED BY <1>1, <1>2 DEF Feeds, Alike, wown

\* A block of a newer version.
LEMMA ForeignAlike ==
  ASSUME wire \in Seq(D!Blocks), Foreign
  PROVE  /\ Alike /\ Len(wire') = Len(wire) + 1
         /\ \A i \in 1..Len(wire) : wire'[i] = wire[i]
<1>1. wire' = Append(wire, Skippable)
  BY DEF Foreign
<1>2. Skippable \in D!Blocks /\ Skippable.kind = "Skippable"
  BY DEF Skippable, D!Skippable, D!Blocks
<1> HIDE DEF Skippable
<1>3. /\ wire' \in Seq(D!Blocks) /\ Len(wire') = Len(wire) + 1
      /\ \A i \in 1..Len(wire) : wire'[i] = wire[i]
      /\ wire'[Len(wire) + 1] = Skippable
  BY <1>1, <1>2
<1>4. \A i \in (Len(wire) + 1)..Len(wire') : i = Len(wire) + 1
  BY <1>1, <1>3
<1>5. Alike
  BY <1>1, <1>2, <1>3, <1>4 DEF Alike
<1> QED BY <1>3, <1>5

LEMMA ForeignFeeds ==
  ASSUME ReaderInv, PipeInv, Foreign
  PROVE  PipeInv' /\ Feeds
<1>1. wire \in Seq(D!Blocks)
  BY DEF PipeInv, HeadersFit
<1>2. \A i \in 1..(rpos - 1) : i \in 1..Len(wire)
  BY <1>1 DEF ReaderInv
<1> QED BY <1>1, <1>2, ForeignAlike, AlikeFeeds DEF Foreign

\* Damage to a data block that is still to be read.
LEMMA DamageAlike ==
  ASSUME wire \in Seq(D!Blocks), rpos \in Nat \ {0}, Damage
  PROVE  /\ Alike /\ Len(wire') = Len(wire)
         /\ \E i \in rpos..Len(wire) :
              /\ wire[i].kind = "Datablock" /\ wire'[i].kind = "Datablock"
              /\ wire'[i].payload = [wire[i].payload EXCEPT !.body = <<Bad>>]
              /\ \A j \in 1..Len(wire) : j # i => wire'[j] = wire[j]
<1>1. PICK i \in rpos..Len(wire) :
        wire[i].kind = "Datablock" /\ wire' = [wire EXCEPT ![i].payload.body = <<Bad>>]
  BY DEF Damage
<1>2. i \in 1..Len(wire)
  OBVIOUS
<1>3. wire[i] \in [kind : {"Datablock"}, payload : D!Payloads]
  <2>1. wire[i] \in D!Blocks
    BY <1>2
  <2> QED BY <1>1, <2>1 DEF D!Blocks, D!VersionBlock, D!EOFBlock, D!ErrorBlock, D!Skippable
<1> DEFINE new == [wire[i] EXCEPT !.payload.body = <<Bad>>]
<1>4. /\ new \in [kind : {"Datablock"}, payload : D!Payloads] /\ new.kind = "Datablock"
      /\ new.payload.key = wire[i].payload.key /\ new.payload.nonce = wire[i].payload.nonce
      /\ new.payload = [wire[i].payload EXCEPT !.body = <<Bad>>]
  <2>1. <<Bad>> \in Seq(Chunks \cup {Bad})
    OBVIOUS
  <2> QED BY <1>3, <2>1 DEF D!Payloads
<1>5. new \in D!Blocks
  BY <1>4 DEF D!Blocks
<1>6. wire' = [wire EXCEPT ![i] = new]
  BY <1>1
<1> HIDE DEF new
<1>7. /\ wire' \in Seq(D!Blocks) /\ Len(wire') = Len(wire) /\ wire'[i] = new
      /\ \A j \in 1..Len(wire) : j # i => wire'[j] = wire[j]
  BY <1>2, <1>5, <1>6
<1>8. Len(wire) \in Nat /\ \A j \in (Len(wire) + 1)..Len(wire') : FALSE
  BY <1>7
<1>9. Alike
  BY <1>1, <1>2, <1>4, <1>7, <1>8 DEF Alike
<1> QED BY <1>1, <1>4, <1>7, <1>9

LEMMA DamageFeeds ==
  ASSUME ReaderInv, PipeInv, Damage
  PROVE  PipeInv' /\ Feeds
<1>1. wire \in Seq(D!Blocks) /\ rpos \in Nat \ {0}
  BY DEF PipeInv, HeadersFit, ReaderInv
<1>2. Alike /\ \E i \in rpos..Len(wire) : \A j \in 1..Len(wire) : j # i => wire'[j] = wire[j]
  BY <1>1, DamageAlike
<1>3. \A j \in 1..(rpos - 1) : j \in 1..Len(wire) /\ \A i \in rpos..Len(wire) : j # i
  BY <1>1 DEF ReaderInv
<1>4. \A j \in 1..(rpos - 1) : wire'[j] = wire[j]
  BY <1>2, <1>3
<1> QED BY <1>2, <1>4, AlikeFeeds DEF Damage

\* The stream breaks off: every whole block that is left is one that was there.
LEMMA CutLeaves ==
  ASSUME wire \in Seq(D!Blocks), rpos \in 1..(Len(wire) + 1), Cut
  PROVE  /\ wire' \in Seq(D!Blocks) /\ rpos - 1 <= Len(wire')
         /\ \E n \in (rpos - 1)..Len(wire) :
              /\ n <= Len(wire') /\ \A i \in 1..n : wire'[i] = wire[i]
              /\ \A i \in DOMAIN wire' : i \in 1..n \/ wire'[i].kind = "Partial"
<1>1. Len(wire) \in Nat
  OBVIOUS
<1>2. PICK n \in (rpos - 1)..Len(wire) :
        \E t \in {<<>>} \cup
                 (IF n < Len(wire) THEN {<<Partial(c)>> : c \in CutsOf(wire[n + 1])} ELSE {}) :
          wire' = SubSeq(wire, 1, n) \o t
  BY DEF Cut
<1>3. PICK t : /\ t = <<>> \/ \E c \in Cuts : t = <<Partial(c)>>
               /\ wire' = SubSeq(wire, 1, n) \o t
  BY <1>2 DEF CutsOf, Cuts
<1>4. \A c \in Cuts : Partial(c) \in D!Blocks /\ Partial(c).kind = "Partial"
  BY DEF Partial, Cuts, D!Blocks, D!Cuts
<1>5. /\ t \in Seq(D!Blocks) /\ Len(t) \in 0..1
      /\ \A i \in 1..Len(t) : t[i].kind = "Partial"
  <2>1. CASE t = <<>>
    BY <2>1
  <2>2. ASSUME NEW c \in Cuts, t = <<Partial(c)>>
        PROVE  t \in Seq(D!Blocks) /\ Len(t) = 1 /\ t[1].kind = "Partial"
    <3> HIDE DEF Partial
    <3> QED BY <1>4, <2>2
  <2> QED BY <1>3, <2>1, <2>2
<1> DEFINE u == SubSeq(wire, 1, n)
<1>6. n \in Nat /\ u \in Seq(D!Blocks) /\ Len(u) = n /\ \A i \in 1..n : u[i] = wire[i]
  BY <1>1, SubSeqProperties
<1> HIDE DEF u
<1>7. /\ wire' \in Seq(D!Blocks) /\ Len(wire') = n + Len(t)
      /\ \A i \in 1..(n + Len(t)) : wire'[i] = IF i <= n THEN u[i] ELSE t[i - n]
  BY <1>3, <1>5, <1>6, ConcatProperties DEF u
<1>8. \A i \in 1..n : wire'[i] = wire[i]
  BY <1>5, <1>6, <1>7
<1>9. ASSUME NEW i \in DOMAIN wire', wire'[i].kind # "Partial"
      PROVE  i \in 1..n
  <2>1. i \in 1..(n + Len(t))
    BY <1>5, <1>6, <1>7
  <2>2. ~(i <= n) => i - n \in 1..Len(t)
    BY <1>5, <1>6, <2>1
  <2> QED BY <1>5, <1>6, <1>7, <1>9, <2>1, <2>2
<1>10. n <= Len(wire') /\ rpos - 1 <= Len(wire')
  BY <1>2, <1>5, <1>6, <1>7
<1> QED BY <1>7, <1>8, <1>9, <1>10

LEMMA CutFeeds ==
  ASSUME ReaderInv, PipeInv, Cut
  PROVE  PipeInv' /\ Feeds
<1>1. wire \in Seq(D!Blocks) /\ Len(wire) \in Nat /\ rpos \in 1..(Len(wire) + 1) /\ HeadersFit
  BY DEF PipeInv, HeadersFit, ReaderInv
<1>2. /\ wire' \in Seq(D!Blocks) /\ rpos - 1 <= Len(wire')
      /\ \E n \in (rpos - 1)..Len(wire) :
           /\ n <= Len(wire') /\ \A i \in 1..n : wire'[i] = wire[i]
           /\ \A i \in DOMAIN wire' : i \in 1..n \/ wire'[i].kind = "Partial"
  BY <1>1, CutLeaves
<1>3. PICK n \in (rpos - 1)..Len(wire) :
        /\ n <= Len(wire') /\ \A i \in 1..n : wire'[i] = wire[i]
        /\ \A i \in DOMAIN wire' : i \in 1..n \/ wire'[i].kind = "Partial"
  BY <1>2
<1>4. n \in Nat /\ \A i \in 1..(rpos - 1) : i \in 1..n
  BY <1>1
<1>5. ASSUME NEW h \in DOMAIN wire', wire'[h].kind = "EncStream"
       PROVE  IF wire'[h].sid \in DOMAIN handles
              THEN KeyBefore(h, handles[wire[h].sid].key)' ELSE werr
  <2>1. h \in 1..n /\ h \in Nat /\ h \in DOMAIN wire /\ wire'[h] = wire[h]
    BY <1>1, <1>3, <1>4, <1>5
  <2>2. \A j \in 1..(h - 1) : wire'[j] = wire[j]
    BY <1>3, <1>4, <2>1
  <2>3. IF wire[h].sid \in DOMAIN handles
        THEN KeyBefore(h, handles[wire[h].sid].key) ELSE werr
    BY <1>1, <1>5, <2>1 DEF HeadersFit
  <2>4. handles' = handles
    BY DEF Cut, wown
  <2>5. ASSUME NEW k, KeyBefore(h, k) PROVE KeyBefore(h, k)'
    BY <2>1, <2>2, <2>5, KeyBeforeStays
  <2>6. ASSUME NEW k, k = handles[wire[h].sid].key, wire[h].sid \in DOMAIN handles
        PROVE  KeyBefore(h, k)'
    BY <2>3, <2>5, <2>6
  <2> QED BY <2>1, <2>3, <2>4, <2>6 DEF KeyBefore
<1>6. PipeInv'
  <2>1. handles' = handles /\ werr' = werr /\ ended'
    BY DEF Cut, wown
  <2>2. HeadersFit'
    BY <1>2, <1>5, <2>1 DEF HeadersFit
  <2> QED BY <2>1, <2>2 DEF PipeInv
<1>7. \A i \in 1..(rpos - 1) : wire'[i] = wire[i]
  BY <1>3, <1>4
<1> QED BY <1>2, <1>6, <1>7 DEF Feeds, Cut, wown

----------------------------------------------------------------------------
(* The pipe.                                                                *)

\* The Reader changes nothing but its own.
LEMMA ReaderLeaves ==
  ReaderStep => UNCHANGED <<wire, wown, ended, harm, foreign>>
BY DEF ReaderStep, R!Next, R!Progress, R!Setters, R!SetPrivateKey, R!PrivateKeyProvider, R!SkipEncrypted,
       R!ReturnNonDecryptable, R!Configure, R!NextStream, R!Read, R!Skip, R!NewReader,
       R!NextBlock, R!NextAtEnd, R!SkipBlock, R!SkipAtEnd, R!ReadBlock, R!ReadAtEnd

\* A Reader that has not started.
LEMMA ReaderFresh ==
  ASSUME R!Init, Len(wire) \in Nat
  PROVE  ReaderInv
<1>1. rpos = 1 /\ rpc = "new" /\ rkey = R!NoKey /\ cur = R!NoStream
  BY DEF R!Init
<1>2. Clean
  BY <1>1 DEF Clean, NoErrorRead, R!NoKey, NoKey
<1>3. HasItsKey(cur)
  BY <1>1 DEF HasItsKey, R!NoStream
<1>4. rpos \in 1..(Len(wire) + 1)
  BY <1>1
<1> QED BY <1>1, <1>2, <1>3, <1>4 DEF ReaderInv

LEMMA PipeStart == Init => PipeInv /\ ReaderInv
<1> SUFFICES ASSUME Init PROVE PipeInv /\ ReaderInv
  OBVIOUS
<1>1. D!Init
  BY SameInit DEF Init
<1>2. D!SealInv /\ D!HeaderKeys
  BY <1>1, D!SealInit, D!HeaderInit, PipeAssumption
<1>3. PipeInv /\ Len(wire) \in Nat
  BY <1>2, HeadersFitIs DEF PipeInv, D!SealInv, D!TypeOK
<1> QED BY <1>3, ReaderFresh DEF Init

LEMMA PipeGoesOn == PipeInv /\ ReaderInv /\ Careful /\ [Next]_vars => PipeInv' /\ ReaderInv'
<1> SUFFICES ASSUME PipeInv, ReaderInv, Careful, [Next]_vars PROVE PipeInv' /\ ReaderInv'
  OBVIOUS
<1>1. CASE WriterStep
  BY <1>1, WriterFeeds, FeedKeepsInv
<1>2. CASE ReaderStep
  <2>1. Reads /\ R!Next
    BY <1>2 DEF ReaderStep, Reads, PipeInv, R!Next
  <2>2. ReaderInv'
    BY <2>1, ReaderKeepsInv
  <2>3. ended' = ended
    BY <1>2, ReaderLeaves
  <2>4. Alike
    BY <2>1 DEF Reads, HeadersFit, Alike
  <2>5. PipeInv'
    BY <2>1, <2>3, <2>4, AlikeKeepsHeaders, AlikeKeepsSeals DEF PipeInv, Reads
  <2> QED BY <2>2, <2>5
<1>3. CASE Foreign
  BY <1>3, ForeignFeeds, FeedKeepsInv
<1>4. CASE HangUp
  <2>1. Alike /\ UNCHANGED <<wire, wown, rown>>
    BY <1>4 DEF HangUp, Alike, PipeInv, HeadersFit
  <2>2. HeadersFit'
    BY <2>1, AlikeKeepsHeaders DEF PipeInv
  <2>3. PipeInv'
    BY <1>4, <2>2 DEF PipeInv, HangUp
  <2>4. Feeds
    BY <2>1 DEF Feeds, Alike, ReaderInv, PipeInv, HeadersFit, wown
  <2> QED BY <2>3, <2>4, FeedKeepsInv
<1>5. CASE Cut
  BY <1>5, CutFeeds, FeedKeepsInv
<1>6. CASE Damage
  BY <1>6, DamageFeeds, FeedKeepsInv
<1>7. CASE UNCHANGED vars
  <2>1. Alike /\ UNCHANGED <<wire, wown, rown, ended>>
    BY <1>7 DEF vars, Alike, PipeInv, HeadersFit
  <2> QED BY <2>1, AlikeFeeds, FeedKeepsInv
<1> QED BY <1>1, <1>2, <1>3, <1>4, <1>5, <1>6, <1>7 DEF Next

\* A caller who stops at an error gets the message of an error block from the
\* call that comes to it - NextStream, Read, Skip, or the skipping of a stream
\* without a key - and reads no further, wherever the stream broke off or was
\* damaged (reader.go:286, :313, :451; estream/README.md:235).
THEOREM PipeErrorBlockStops == Spec => [](Careful => ErrorBlockStops)
<1>1. CASE Careful
  BY <1>1, PipeStart, PipeGoesOn, ReaderInvMeans, PTL DEF Spec
<1>2. CASE ~Careful
  BY <1>2, PTL
<1> QED BY <1>1, <1>2

\* Such a caller reads every encrypted stream with the key its Writer sealed it
\* with: keys that are replaced, that cannot be opened or that were installed
\* and never sent do not get into another's stream (reader.go:161, :178, :211;
\* writer.go:82, :112).
THEOREM PipeOpenedWithItsKey == Spec => [](Careful => OpenedWithItsKey)
<1>1. CASE Careful
  BY <1>1, PipeStart, PipeGoesOn, ReaderInvMeans, PTL DEF Spec
<1>2. CASE ~Careful
  BY <1>2, PTL
<1> QED BY <1>1, <1>2
----------------------------------------------------------------------------
(* What the caller of the Reader receives: the data of a stream is what was  *)
(* written to it, from its beginning, and all of it when the stream ends    *)
(* with io.EOF.  First, the bytes on their way.                             *)

\* What arrives as the Writer sent it.
Intact(b) ==
  /\ b.kind = "Datablock" => \A i \in DOMAIN b.payload.body : b.payload.body[i] # Bad
  /\ b.kind = "Partial" => "cut" \notin harm

BlockSound(b) ==
  /\ Intact(b) => D!BlockFits(b)
  /\ b.kind = "Datablock" /\ b.payload.key = NoKey =>
       \E c \in Chunks \cup {Bad} : b.payload = Clear(<<c>>)

\* Of a disciplined caller's streams: damage changes what a data block carries,
\* and when the stream breaks off what was to come is missing.
StreamsKept ==
  /\ D!OneAtATime /\ D!FailedKept /\ D!HeadersNamed /\ D!DataPlaced
  /\ "damage" \notin harm => D!DataCarried
  /\ "cut" \notin harm => D!HeadersSent /\ D!DataSent

FeedInv ==
  /\ D!HandlesInv /\ harm \subseteq {"cut", "damage"}
  /\ \A b \in Range(wire) : BlockSound(b)
  /\ "cut" \in harm => ended
  /\ ended /\ "cut" \notin harm => closes # <<>>
  /\ Disciplined => StreamsKept

----------------------------------------------------------------------------
(* What the caller has.                                                     *)

Errors  == {"nil", "EOF", "Unexpected", "Checksum", "Message", "NoPrivate", "BlockType", "NotAuthentic"}
Ends    == Errors \cup {"open", "skipped", "not skipped"}
Streams == [sid : Nat, kind : {"none", "plain", "enc", "nokey"}, key : Nat, nonce : Nat,
            isEOF : BOOLEAN, h : Seq(D!Payloads), pend : Seq(D!Payloads), frag : Nat,
            dead : Errors, done : BOOLEAN]
Entries == [sid : Nat, kind : {"plain", "enc", "nokey"}, data : Seq(Chunks \cup {Bad}), end : Ends]

ReaderTypes ==
  /\ rpos \in 1..(Len(wire) + 1) /\ rerr \in Errors /\ rkey \in Nat /\ inStream \in BOOLEAN
  /\ cur \in Streams /\ got \in Seq(Entries)
  /\ rpc \in {"next", "pass", "read"} => rerr = "nil"

\* The first of what was written to stream s, and all of it once it is closed.
Begins(data, s)  == data = <<>> \/ (s \in DOMAIN handles /\ D!Prolongs(handles[s].wrote, data))
AllOf(data, s) == s \in DOMAIN handles /\ handles[s].ack # "open" /\ data = handles[s].wrote

EntryFits(g) ==
  /\ g.kind = "enc" =>
       /\ Begins(g.data, g.sid)
       /\ g.end = "EOF" => AllOf(g.data, g.sid) /\ handles[g.sid].enc
  /\ g.kind = "nokey" => g.data = <<>> /\ g.end # "EOF"
  /\ g.kind = "plain" /\ Disciplined =>
       /\ "damage" \notin harm => Begins(g.data, g.sid)
       /\ g.end = "EOF" => AllOf(g.data, g.sid) \/ "cut" \in harm \/ werr

\* The Stream in the caller's hands is the last one received.
InHand(c, g) == g.sid = c.sid /\ g.kind = c.kind

\* An encrypted one: no handle but its own seals with its nonce, and the fragment
\* that sio holds back is as good as the block it came in.
SealedInHand(c, g) ==
  /\ c.key # NoKey /\ D!BlockFits(EncStream(c.sid, c.nonce))
  /\ Len(c.pend) <= 1 /\ \A i \in 1..Len(c.pend) : BlockSound(Datablock(c.pend[i]))
  /\ c.dead = "nil" => Len(g.data) = c.frag /\ g.end # "EOF"

\* A plain one, as long as it goes on: the Reader has read it from its header on,
\* and the data that was handed out is what goes into the checksum.
ReadFrom(h, c, g) ==
  /\ wire[h].kind = "PlainStream" /\ wire[h].sid = c.sid /\ D!Inside(h, rpos)
  /\ D!NumData(h, rpos - 1) = Len(c.h) /\ Len(g.data) = Len(c.h)
  /\ \A k \in 1..Len(c.h) : c.h[k] = Clear(<<g.data[k]>>)
ClearInHand(c, g) ==
  /\ rpc \in {"idle", "read"}
  /\ rerr = "nil" => inStream /\ g.end # "EOF" /\ \E h \in 1..(rpos - 1) : ReadFrom(h, c, g)
  /\ rerr = "EOF" => "cut" \in harm \/ werr

Holds(c, g) ==
  /\ InHand(c, g)
  /\ c.kind = "enc" => SealedInHand(c, g)
  /\ c.kind = "plain" /\ ~c.isEOF /\ Disciplined => ClearInHand(c, g)

ReceiveInv ==
  /\ ReaderTypes
  /\ \A i \in 1..Len(got) : EntryFits(got[i])
  /\ cur.kind # "none" => got # <<>> /\ Holds(cur, got[Len(got)])
  /\ rpc = "skip" => cur.kind # "none"
  /\ rpc = "read" => cur.kind \in {"plain", "enc"} /\ cur.dead = "nil" /\ (cur.kind = "plain" => ~cur.isEOF)

----------------------------------------------------------------------------
(* What happens to the bytes.                                               *)

\* What holds of a block goes on to hold.
LEMMA BlockStaysSound ==
  ASSUME D!HandlesInv, D!HandlesInv', D!HandlesGrow, harm \subseteq harm', NEW b, BlockSound(b)
  PROVE  BlockSound(b)'
<1>1. Intact(b)' => Intact(b)
  BY DEF Intact
<1>2. D!BlockFits(b) => D!BlockFits(b)'
  BY D!FitsStay, PipeAssumption
<1> QED BY <1>1, <1>2 DEF BlockSound

\* When the Writer does nothing its handles stay.
LEMMA HandlesKept ==
  ASSUME D!HandlesInv, UNCHANGED wown, wire' \in Seq(D!Blocks)
  PROVE  D!HandlesInv' /\ D!HandlesGrow
<1>1. /\ handles' = handles /\ werr' = werr /\ wkey' = wkey /\ nkeys' = nkeys /\ nonce' = nonce
      /\ adds' = adds /\ errors' = errors /\ closes' = closes
  BY DEF wown
<1>2. D!TypeOK /\ D!NoncesDiffer /\ (\A s \in D!Opened : D!HandleFits(handles[s])) /\ nonce \in Nat
  BY DEF D!HandlesInv, D!TypeOK
<1>3. D!TypeOK'
  BY <1>1, <1>2 DEF D!TypeOK
<1>4. D!Opened' = D!Opened
  BY <1>1 DEF D!Opened
<1>5. D!HandlesInv'
  BY <1>1, <1>2, <1>3, <1>4 DEF D!HandlesInv, D!NoncesDiffer
<1>6. \A s \in D!Opened : D!GoesOn(handles[s], handles'[s])
  BY <1>1, <1>2, D!AllGoOn, PipeAssumption
<1>7. D!HandlesGrow
  BY <1>1, <1>2, <1>4, <1>6 DEF D!HandlesGrow
<1> QED BY <1>5, <1>7

\* A call of the Writer, which goes to a stream that has not broken off.
LEMMA WriterSends ==
  ASSUME FeedInv, WriterStep
  PROVE  FeedInv' /\ D!HandlesGrow /\ \E t \in Seq(D!Blocks) : wire' = wire \o t
<1>1. D!Next /\ ~ended /\ "cut" \notin harm /\ harm' = harm /\ ended' = ended /\ D!HandlesInv
  BY SameNext DEF WriterStep, FeedInv
<1>2. D!HandlesInv' /\ D!HandlesGrow
  BY <1>1, D!HandlesStep, PipeAssumption
<1>3. PICK t \in Seq(D!Blocks) : wire' = wire \o t /\ \A i \in 1..Len(t) : D!BlockFits(t[i])'
  BY <1>1, D!FreshFit, PipeAssumption
<1>4. wire \in Seq(D!Blocks)
  BY <1>1 DEF D!HandlesInv, D!TypeOK
<1>5. /\ Len(wire) \in Nat /\ Len(t) \in Nat /\ Len(wire') = Len(wire) + Len(t) /\ DOMAIN wire' = 1..Len(wire')
      /\ \A i \in 1..Len(wire) : wire'[i] = wire[i]
      /\ \A i \in 1..Len(t) : wire'[Len(wire) + i] = t[i]
  BY <1>3, <1>4, D!WireGrows, PipeAssumption
<1>6. \A b : D!BlockFits(b)' => BlockSound(b)'
  BY DEF BlockSound, D!BlockFits, D!Clear, Clear, D!NoKey, NoKey
<1>7. ASSUME NEW b \in Range(wire') PROVE BlockSound(b)'
  <2>1. PICK i \in DOMAIN wire' : wire'[i] = b
    BY DEF Range
  <2>2. CASE i \in 1..Len(wire)
    <3>1. b \in Range(wire)
      BY <1>4, <1>5, <2>1, <2>2 DEF Range
    <3> QED BY <1>1, <1>2, <3>1, BlockStaysSound DEF FeedInv
  <2>3. CASE i \notin 1..Len(wire)
    <3>1. PICK k : k = i - Len(wire)
      OBVIOUS
    <3>2. k \in 1..Len(t) /\ b = t[k]
      BY <1>5, <2>1, <2>3, <3>1
    <3>3. D!BlockFits(b)'
      BY <1>3, <3>2
    <3> QED BY <1>6, <3>3
  <2> QED BY <2>2, <2>3
<1>8. ASSUME Disciplined PROVE StreamsKept'
  <2>1. D!StreamsInv
    BY <1>1, <1>8 DEF FeedInv, StreamsKept, D!StreamsInv
  <2>2. D!StreamsInv' /\ (D!DataCarried => D!DataCarried')
    BY <1>1, <1>8, <2>1, D!StreamsStep, PipeAssumption
  <2> QED BY <1>1, <1>8, <2>2 DEF FeedInv, StreamsKept, D!StreamsInv
<1>9. (\A b \in Range(wire) : BlockSound(b))'
  BY <1>7 DEF Range
<1> QED BY <1>1, <1>2, <1>3, <1>8, <1>9 DEF FeedInv

\* Blocks of a newer version and damage to data leave the streams where they are.
LEMMA AlikeCounts ==
  ASSUME wire \in Seq(D!Blocks), Alike, NEW h \in 1..Len(wire)
  PROVE  /\ \A j \in 0..Len(wire) : D!NumData(h, j)' = D!NumData(h, j)
         /\ \A j \in 1..(Len(wire) + 1) : D!Inside(h, j)' <=> D!Inside(h, j)
         /\ \A n : n = Len(wire') => /\ D!NumData(h, n)' = D!NumData(h, Len(wire))
                                     /\ D!Inside(h, Len(wire) + 1) => D!Inside(h, n + 1)'
<1>0. Len(wire) \in Nat /\ Len(wire') \in Nat /\ Len(wire) <= Len(wire')
  BY DEF Alike
<1>1. ASSUME NEW j \in 0..Len(wire) PROVE D!NumData(h, j)' = D!NumData(h, j)
  <2>1. \A m \in (h + 1)..j : wire'[m].kind = wire[m].kind
    BY <1>0 DEF Alike
  <2>2. D!DataAt(h, j)' = D!DataAt(h, j)
    BY <2>1 DEF D!DataAt, D!KindAt
  <2> QED BY <2>2 DEF D!NumData
<1>2. ASSUME NEW j \in 1..(Len(wire) + 1) PROVE D!Inside(h, j)' <=> D!Inside(h, j)
  <2>1. \A m \in (h + 1)..(j - 1) : wire'[m].kind = wire[m].kind
    BY <1>0 DEF Alike
  <2> QED BY <2>1 DEF D!Inside, D!KindAt
<1>3. ASSUME NEW n, n = Len(wire')
      PROVE  /\ D!NumData(h, n)' = D!NumData(h, Len(wire))
             /\ D!Inside(h, Len(wire) + 1) => D!Inside(h, n + 1)'
  <2>1. \A m \in (h + 1)..n : \/ m \in (h + 1)..Len(wire) /\ wire'[m].kind = wire[m].kind
                              \/ m \notin (h + 1)..Len(wire) /\ wire'[m].kind = "Skippable"
    <3>1. \A m \in (h + 1)..n : m \in 1..Len(wire) \/ m \in (Len(wire) + 1)..Len(wire')
      BY <1>0, <1>3
    <3> QED BY <1>0, <3>1 DEF Alike
  <2>2. \A m \in (h + 1)..Len(wire) : m \in (h + 1)..n
    BY <1>0, <1>3
  <2>3. {m \in (h + 1)..n : wire'[m].kind = "Datablock"} = {m \in (h + 1)..Len(wire) : wire[m].kind = "Datablock"}
    BY <2>1, <2>2
  <2>4. D!NumData(h, n)' = D!NumData(h, Len(wire))
    BY <2>3 DEF D!NumData, D!DataAt, D!KindAt
  <2>5. ASSUME D!Inside(h, Len(wire) + 1), NEW m \in (h + 1)..n
        PROVE  wire'[m].kind \notin D!Marks
    <3>1. (Len(wire) + 1) - 1 = Len(wire)
      BY <1>0
    <3> QED BY <2>1, <2>5, <3>1 DEF D!Inside, D!KindAt, D!Marks, D!StreamKinds
  <2>6. (n + 1) - 1 = n
    BY <1>0, <1>3
  <2> QED BY <2>4, <2>5, <2>6 DEF D!Inside, D!KindAt
<1> QED BY <1>1, <1>2, <1>3

LEMMA AlikeKeepsStreams ==
  ASSUME D!HandlesInv, Alike, UNCHANGED wown,
         D!OneAtATime, D!FailedKept, D!HeadersNamed, D!DataPlaced
  PROVE  /\ D!OneAtATime' /\ D!FailedKept' /\ D!HeadersNamed' /\ D!DataPlaced'
         /\ D!HeadersSent => D!HeadersSent'
         /\ D!DataSent => D!DataSent'
<1>0. /\ wire \in Seq(D!Blocks) /\ Len(wire) \in Nat /\ DOMAIN wire = 1..Len(wire)
      /\ wire' \in Seq(D!Blocks) /\ Len(wire') \in Nat /\ DOMAIN wire' = 1..Len(wire') /\ Len(wire) <= Len(wire')
  BY DEF D!HandlesInv, D!TypeOK, Alike
<1>1. handles' = handles /\ werr' = werr /\ closes' = closes /\ D!Opened' = D!Opened
  BY DEF wown, D!Opened
<1>2. \A i \in DOMAIN wire' : \/ i \in DOMAIN wire /\ wire'[i].kind = wire[i].kind
                                 /\ (wire[i].kind # "Datablock" => wire'[i] = wire[i])
                              \/ i \notin DOMAIN wire /\ wire'[i].kind = "Skippable"
  <2>1. \A i \in DOMAIN wire' : i \in 1..Len(wire) \/ (i \in (Len(wire) + 1)..Len(wire') /\ i \notin DOMAIN wire)
    BY <1>0
  <2> QED BY <1>0, <2>1 DEF Alike
<1>3. \A h \in DOMAIN wire' : wire'[h].kind \in D!StreamKinds =>
        h \in DOMAIN wire /\ wire'[h] = wire[h] /\ wire[h].kind \in D!StreamKinds
  BY <1>2 DEF D!StreamKinds
<1>4. D!OneAtATime' /\ D!FailedKept'
  BY <1>1 DEF D!OneAtATime, D!FailedKept, D!IsOpen
<1>5. D!HeadersNamed'
  BY <1>1, <1>3 DEF D!HeadersNamed, D!KindAt, D!Header
<1>6. D!HeadersSent => D!HeadersSent'
  <2>1. ASSUME NEW h \in DOMAIN wire, NEW s, wire[h] = D!Header(s) PROVE h \in DOMAIN wire' /\ wire'[h] = D!Header(s)'
    <3>1. wire[h].kind # "Datablock"
      BY <2>1 DEF D!Header, D!EncStream, D!PlainStream
    <3>2. h \in DOMAIN wire' /\ wire'[h] = wire[h]
      BY <1>0, <1>2, <3>1
    <3> QED BY <1>1, <2>1, <3>2 DEF D!Header
  <2> QED BY <1>1, <2>1 DEF D!HeadersSent
<1>7. ASSUME NEW h \in DOMAIN wire', NEW j \in DOMAIN wire', D!Within(h, j)' PROVE D!Placed(h, j)'
  <2>1. h < j /\ h \in DOMAIN wire /\ wire'[h] = wire[h] /\ D!KindAt(h) \in D!StreamKinds /\ D!Inside(h, j)'
    BY <1>3, <1>7 DEF D!Within, D!KindAt
  <2>2. CASE j \notin DOMAIN wire
    BY <1>2, <2>2 DEF D!Placed, D!KindAt
  <2>3. CASE j \in DOMAIN wire
    <3>1. h \in 1..Len(wire) /\ j \in 0..Len(wire) /\ j \in 1..(Len(wire) + 1)
      BY <1>0, <2>1, <2>3
    <3>2. D!NumData(h, j)' = D!NumData(h, j) /\ (D!Inside(h, j)' <=> D!Inside(h, j))
      BY <1>0, <3>1, AlikeCounts
    <3>3. D!Placed(h, j)
      BY <2>1, <2>3, <3>2 DEF D!DataPlaced, D!Within
    <3>4. wire'[j].kind = wire[j].kind /\ (wire[j].kind # "Datablock" => wire'[j] = wire[j])
      BY <1>2, <2>3
    <3>5. wire[j].kind = "Datablock" => wire'[j].payload.key = wire[j].payload.key
      BY <1>0, <2>3 DEF Alike
    <3> QED BY <1>1, <2>1, <3>2, <3>3, <3>4, <3>5 DEF D!Placed, D!KindAt, D!IsOpen
  <2> QED BY <2>2, <2>3
<1>8. ASSUME D!DataSent, NEW h \in DOMAIN wire', wire'[h].kind \in D!StreamKinds, NEW s \in D!Opened, s = wire'[h].sid,
             NEW hd, hd = handles[s]
      PROVE  /\ hd.ack = "open" /\ ~werr => D!Inside(h, Len(wire) + 1)' /\ D!NumData(h, Len(wire))' = Len(hd.sum)
             /\ hd.ack = "ok" =>
                  \E j \in (h + 1)..Len(wire') :
                    wire'[j] = D!EOS(hd.sum) /\ D!Inside(h, j)' /\ D!NumData(h, j)' = Len(hd.sum)
  <2>1. h \in DOMAIN wire /\ h \in 1..Len(wire) /\ D!KindAt(h) \in D!StreamKinds /\ wire[h].sid = s
    BY <1>0, <1>3, <1>8 DEF D!KindAt
  <2>2. /\ hd.ack = "open" /\ ~werr => D!Inside(h, Len(wire) + 1) /\ D!NumData(h, Len(wire)) = Len(hd.sum)
        /\ hd.ack = "ok" => \E j \in (h + 1)..Len(wire) :
             wire[j] = D!EOS(hd.sum) /\ D!Inside(h, j) /\ D!NumData(h, j) = Len(hd.sum)
    BY <1>8, <2>1 DEF D!DataSent
  <2>3. ASSUME hd.ack = "open", ~werr PROVE D!Inside(h, Len(wire) + 1)' /\ D!NumData(h, Len(wire))' = Len(hd.sum)
    <3>1. PICK n : n = Len(wire')
      OBVIOUS
    <3>2. D!NumData(h, n)' = D!NumData(h, Len(wire)) /\ (D!Inside(h, Len(wire) + 1) => D!Inside(h, n + 1)')
      BY <1>0, <2>1, <3>1, AlikeCounts
    <3>3. D!Inside(h, n + 1)' /\ D!NumData(h, n)' = Len(hd.sum)
      BY <2>2, <2>3, <3>2
    <3> QED BY <3>1, <3>3
  <2>4. ASSUME hd.ack = "ok"
        PROVE  \E j \in (h + 1)..Len(wire') :
                 wire'[j] = D!EOS(hd.sum) /\ D!Inside(h, j)' /\ D!NumData(h, j)' = Len(hd.sum)
    <3>1. PICK j \in (h + 1)..Len(wire) :
            wire[j] = D!EOS(hd.sum) /\ D!Inside(h, j) /\ D!NumData(h, j) = Len(hd.sum)
      BY <2>2, <2>4
    <3>2. j \in (h + 1)..Len(wire') /\ j \in 0..Len(wire) /\ j \in 1..(Len(wire) + 1) /\ j \in DOMAIN wire
      BY <1>0, <2>1
    <3>3. D!NumData(h, j)' = D!NumData(h, j) /\ (D!Inside(h, j)' <=> D!Inside(h, j))
      BY <1>0, <2>1, <3>2, AlikeCounts
    <3>4. wire'[j] = wire[j]
      <4>1. wire[j].kind # "Datablock"
        BY <3>1 DEF D!EOS
      <4> QED BY <1>0, <1>2, <3>2, <4>1
    <3> QED BY <3>1, <3>2, <3>3, <3>4
  <2> QED BY <2>3, <2>4
<1>9. D!DataPlaced'
  BY <1>7 DEF D!DataPlaced
<1>10. D!DataSent => D!DataSent'
  BY <1>1, <1>8 DEF D!DataSent, D!KindAt
<1> QED BY <1>4, <1>5, <1>6, <1>9, <1>10

LEMMA AlikeKeepsCarried ==
  ASSUME D!HandlesInv, Alike, UNCHANGED wown, \A i \in 1..Len(wire) : wire'[i] = wire[i], D!DataCarried
  PROVE  D!DataCarried'
<1>0. /\ wire \in Seq(D!Blocks) /\ Len(wire) \in Nat /\ DOMAIN wire = 1..Len(wire)
      /\ Len(wire') \in Nat /\ DOMAIN wire' = 1..Len(wire') /\ Len(wire) <= Len(wire')
  BY DEF D!HandlesInv, D!TypeOK, Alike
<1>1. handles' = handles /\ D!Opened' = D!Opened
  BY DEF wown, D!Opened
<1>2. ASSUME NEW h \in DOMAIN wire', NEW j \in DOMAIN wire', D!Within(h, j)', wire'[j].kind = "Datablock"
      PROVE  wire'[h].sid \in D!Opened =>
               wire'[j].payload = handles[wire'[h].sid].sum[D!NumData(h, j)']
  <2>1. \A i \in DOMAIN wire' : i \in 1..Len(wire) \/ (i \notin 1..Len(wire) /\ wire'[i].kind = "Skippable")
    <3>1. \A i \in DOMAIN wire' : i \in 1..Len(wire) \/ (i \notin 1..Len(wire) /\ i \in (Len(wire) + 1)..Len(wire'))
      BY <1>0
    <3> QED BY <3>1 DEF Alike
  <2>2. h \in 1..Len(wire) /\ j \in 1..Len(wire) /\ h < j
    BY <1>2, <2>1 DEF D!Within, D!KindAt, D!StreamKinds
  <2>3. j \in 0..Len(wire) /\ j \in 1..(Len(wire) + 1)
    BY <1>0, <2>2
  <2>4. D!NumData(h, j)' = D!NumData(h, j) /\ (D!Inside(h, j)' <=> D!Inside(h, j))
    BY <1>0, <2>2, <2>3, AlikeCounts
  <2>5. D!Within(h, j)
    BY <1>2, <2>2, <2>4 DEF D!Within, D!KindAt
  <2>6. D!Carried(h, j)
    BY <1>0, <2>2, <2>5 DEF D!DataCarried
  <2> QED BY <1>2, <2>2, <2>4, <2>6 DEF D!Carried, D!KindAt
<1> QED BY <1>1, <1>2 DEF D!DataCarried, D!Carried, D!KindAt

\* A step after which the blocks are as good as before.
LEMMA AlikeKeepsFeed ==
  ASSUME FeedInv, Alike, UNCHANGED wown, harm' \subseteq {"cut", "damage"}, harm \subseteq harm',
         "cut" \in harm' <=> "cut" \in harm, ended => ended',
         ended' /\ "cut" \notin harm' => ended \/ closes # <<>>,
         (\A b \in Range(wire) : BlockSound(b)) => \A b \in Range(wire') : BlockSound(b)',
         "damage" \notin harm' /\ D!DataCarried => D!DataCarried'
  PROVE  FeedInv' /\ D!HandlesGrow
<1>1. D!HandlesInv' /\ D!HandlesGrow
  BY HandlesKept DEF FeedInv, Alike
<1>2. closes' = closes
  BY DEF wown
<1>3. ASSUME Disciplined PROVE StreamsKept'
  BY <1>3, AlikeKeepsStreams DEF FeedInv, StreamsKept
<1>4. (\A b \in Range(wire) : BlockSound(b))'
  <2>1. \A b \in Range(wire') : BlockSound(b)'
    BY DEF FeedInv
  <2> QED BY <2>1 DEF Range
<1> QED BY <1>1, <1>2, <1>3, <1>4 DEF FeedInv

\* Steps that send nothing.
LEMMA QuietKeepsFeed ==
  ASSUME FeedInv, UNCHANGED <<wire, wown, harm>>, ended => ended', ended' => ended \/ closes # <<>>
  PROVE  FeedInv' /\ D!HandlesGrow
<1>0. wire \in Seq(D!Blocks) /\ D!HandlesInv /\ harm \subseteq {"cut", "damage"}
  BY DEF FeedInv, D!HandlesInv, D!TypeOK
<1>1. Alike
  BY <1>0 DEF Alike
<1>2. D!HandlesInv' /\ D!HandlesGrow
  BY <1>0, HandlesKept
<1>3. (\A b \in Range(wire) : BlockSound(b)) => \A b \in Range(wire') : BlockSound(b)'
  BY <1>0, <1>2, BlockStaysSound DEF Range
<1>4. D!DataCarried => D!DataCarried'
  BY <1>0, <1>1, AlikeKeepsCarried
<1> QED BY <1>0, <1>1, <1>3, <1>4, AlikeKeepsFeed

LEMMA ForeignKeepsFeed ==
  ASSUME FeedInv, Foreign
  PROVE  FeedInv' /\ D!HandlesGrow
<1>0. /\ wire \in Seq(D!Blocks) /\ D!HandlesInv /\ harm \subseteq {"cut", "damage"}
      /\ UNCHANGED <<wown, ended, harm>>
  BY DEF FeedInv, D!HandlesInv, D!TypeOK, Foreign
<1>1. /\ Alike /\ Len(wire') = Len(wire) + 1
      /\ \A i \in 1..Len(wire) : wire'[i] = wire[i]
  BY <1>0, ForeignAlike
<1>2. D!HandlesInv' /\ D!HandlesGrow
  BY <1>0, <1>1, HandlesKept DEF Alike
<1>3. ASSUME \A b \in Range(wire) : BlockSound(b), NEW b \in Range(wire') PROVE BlockSound(b)'
  <2>1. PICK i \in DOMAIN wire' : wire'[i] = b
    BY DEF Range
  <2>2. i \in 1..Len(wire) \/ (i \in (Len(wire) + 1)..Len(wire'))
    BY <1>0, <1>1 DEF Alike
  <2>3. CASE i \in 1..Len(wire)
    <3>1. b \in Range(wire)
      BY <1>0, <1>1, <2>1, <2>3 DEF Range
    <3> QED BY <1>0, <1>2, <1>3, <3>1, BlockStaysSound
  <2>4. CASE i \in (Len(wire) + 1)..Len(wire')
    <3>1. b.kind = "Skippable"
      BY <1>1, <2>1, <2>4 DEF Alike
    <3> QED BY <3>1 DEF BlockSound, D!BlockFits
  <2> QED BY <2>2, <2>3, <2>4
<1>4. D!DataCarried => D!DataCarried'
  BY <1>0, <1>1, AlikeKeepsCarried
<1> QED BY <1>0, <1>1, <1>3, <1>4, AlikeKeepsFeed

LEMMA DamageKeepsFeed ==
  ASSUME FeedInv, rpos \in Nat \ {0}, Damage
  PROVE  FeedInv' /\ D!HandlesGrow
<1>0. /\ wire \in Seq(D!Blocks) /\ D!HandlesInv /\ harm \subseteq {"cut", "damage"}
      /\ UNCHANGED <<wown, ended>> /\ harm' = harm \cup {"damage"} /\ DOMAIN wire = 1..Len(wire)
  BY DEF FeedInv, D!HandlesInv, D!TypeOK, Damage
<1>1. Alike /\ Len(wire') = Len(wire)
  BY <1>0, DamageAlike
<1>2. PICK i \in rpos..Len(wire) :
        /\ wire[i].kind = "Datablock" /\ wire'[i].kind = "Datablock"
        /\ wire'[i].payload = [wire[i].payload EXCEPT !.body = <<Bad>>]
        /\ \A j \in 1..Len(wire) : j # i => wire'[j] = wire[j]
  BY <1>0, DamageAlike
<1>3. D!HandlesInv' /\ D!HandlesGrow
  BY <1>0, <1>1, HandlesKept DEF Alike
<1>4. i \in 1..Len(wire) /\ DOMAIN wire' = 1..Len(wire)
  BY <1>0, <1>1 DEF Alike
<1>5. /\ wire[i].payload \in D!Payloads
      /\ wire'[i].payload.body = <<Bad>> /\ wire'[i].payload.key = wire[i].payload.key
  <2>1. wire[i] \in D!Blocks
    BY <1>0, <1>4
  <2>2. wire[i].payload \in D!Payloads
    BY <1>2, <2>1 DEF D!Blocks, D!VersionBlock, D!EOFBlock, D!ErrorBlock, D!Skippable
  <2> QED BY <1>2, <2>2 DEF D!Payloads
<1>6. ASSUME \A b \in Range(wire) : BlockSound(b) PROVE BlockSound(wire'[i])
  <2>1. ~Intact(wire'[i])
    <3>1. 1 \in DOMAIN wire'[i].payload.body /\ wire'[i].payload.body[1] = Bad
      BY <1>5
    <3> QED BY <1>2, <3>1 DEF Intact
  <2>2. ASSUME wire'[i].payload.key = NoKey PROVE wire'[i].payload = Clear(<<Bad>>)
    <3>1. BlockSound(wire[i])
      BY <1>0, <1>4, <1>6 DEF Range
    <3>2. PICK c \in Chunks \cup {Bad} : wire[i].payload = Clear(<<c>>)
      BY <1>2, <1>5, <2>2, <3>1 DEF BlockSound
    <3>3. wire'[i].payload \in D!Payloads /\ Clear(<<Bad>>) \in D!Payloads
      <4>1. <<Bad>> \in Seq(Chunks \cup {Bad})
        OBVIOUS
      <4>2. Clear(<<Bad>>) \in D!Payloads
        BY <4>1, PipeAssumption DEF D!Payloads, Clear, NoKey
      <4> QED BY <1>2, <1>5, <4>1, <4>2 DEF D!Payloads
    <3>4. /\ wire'[i].payload.nonce = 0 /\ wire'[i].payload.frag = 0 /\ wire'[i].payload.last = FALSE
          /\ wire'[i].payload.key = NoKey /\ wire'[i].payload.body = <<Bad>>
      BY <1>2, <1>5, <2>2, <3>2 DEF Clear, D!Payloads
    <3> QED BY <3>3, <3>4 DEF Clear, D!Payloads
  <2> QED BY <1>2, <2>1, <2>2 DEF BlockSound
<1>7. ASSUME \A b \in Range(wire) : BlockSound(b), NEW b \in Range(wire') PROVE BlockSound(b)'
  <2>1. PICK j \in DOMAIN wire' : wire'[j] = b
    BY DEF Range
  <2>2. BlockSound(b)
    <3>1. CASE j = i
      BY <1>6, <1>7, <2>1, <3>1
    <3>2. CASE j # i
      BY <1>0, <1>2, <1>4, <1>7, <2>1, <3>2 DEF Range
    <3> QED BY <3>1, <3>2
  <2> QED BY <1>0, <1>3, <2>2, BlockStaysSound
<1> QED BY <1>0, <1>1, <1>7, AlikeKeepsFeed

\* What is left of the streams when the output breaks off behind block n.
LEMMA CutKeepsStreams ==
  ASSUME D!HandlesInv, UNCHANGED wown, wire' \in Seq(D!Blocks),
         NEW n \in 0..Len(wire), \A i \in 1..n : wire'[i] = wire[i],
         \A i \in DOMAIN wire' : i \in 1..n \/ wire'[i].kind = "Partial",
         D!OneAtATime, D!FailedKept, D!HeadersNamed, D!DataPlaced
  PROVE  /\ D!OneAtATime' /\ D!FailedKept' /\ D!HeadersNamed' /\ D!DataPlaced'
         /\ D!DataCarried => D!DataCarried'
<1>0. /\ wire \in Seq(D!Blocks) /\ Len(wire) \in Nat /\ DOMAIN wire = 1..Len(wire)
      /\ Len(wire') \in Nat /\ DOMAIN wire' = 1..Len(wire') /\ n \in Nat
  BY DEF D!HandlesInv, D!TypeOK
<1>1. handles' = handles /\ werr' = werr /\ closes' = closes /\ D!Opened' = D!Opened
  BY DEF wown, D!Opened
<1>2. D!OneAtATime' /\ D!FailedKept'
  BY <1>1 DEF D!OneAtATime, D!FailedKept, D!IsOpen
<1>3. \A h \in DOMAIN wire' : wire'[h].kind \in D!StreamKinds =>
        h \in 1..n /\ h \in DOMAIN wire /\ wire'[h] = wire[h]
  BY <1>0 DEF D!StreamKinds
<1>4. D!HeadersNamed'
  BY <1>1, <1>3 DEF D!HeadersNamed, D!KindAt, D!Header
<1>5. ASSUME NEW h \in DOMAIN wire', NEW j \in 1..n, D!Within(h, j)'
      PROVE  /\ wire'[j] = wire[j] /\ h \in DOMAIN wire /\ j \in DOMAIN wire /\ wire'[h] = wire[h]
             /\ D!Within(h, j) /\ D!NumData(h, j)' = D!NumData(h, j)
  <2>1. h < j /\ h \in 1..n /\ h \in DOMAIN wire /\ wire'[h] = wire[h] /\ j \in DOMAIN wire
    BY <1>0, <1>3, <1>5 DEF D!Within, D!KindAt
  <2>2. \A m \in (h + 1)..j : wire'[m].kind = wire[m].kind
    BY <1>0, <2>1
  <2>3. D!DataAt(h, j)' = D!DataAt(h, j)
    BY <2>2 DEF D!DataAt, D!KindAt
  <2>4. \A m \in (h + 1)..(j - 1) : m \in (h + 1)..j
    BY <1>0
  <2>5. D!Within(h, j)
    BY <1>5, <2>1, <2>2, <2>4 DEF D!Within, D!Inside, D!KindAt
  <2> QED BY <2>1, <2>3, <2>5 DEF D!NumData
<1>6. ASSUME NEW h \in DOMAIN wire', NEW j \in DOMAIN wire', D!Within(h, j)' PROVE D!Placed(h, j)'
  <2>1. CASE j \in 1..n
    <3>1. D!Placed(h, j)
      BY <1>5, <1>6, <2>1 DEF D!DataPlaced
    <3> QED BY <1>1, <1>5, <1>6, <2>1, <3>1 DEF D!Placed, D!KindAt, D!IsOpen
  <2>2. CASE wire'[j].kind = "Partial"
    BY <2>2 DEF D!Placed, D!KindAt
  <2> QED BY <2>1, <2>2
<1>7. ASSUME D!DataCarried, NEW h \in DOMAIN wire', NEW j \in DOMAIN wire', D!Within(h, j)' PROVE D!Carried(h, j)'
  <2>1. CASE j \in 1..n
    <3>1. D!Carried(h, j)
      BY <1>5, <1>6, <1>7, <2>1 DEF D!DataCarried
    <3> QED BY <1>1, <1>5, <1>7, <2>1, <3>1 DEF D!Carried, D!KindAt
  <2>2. CASE wire'[j].kind = "Partial"
    BY <2>2 DEF D!Carried, D!KindAt
  <2> QED BY <2>1, <2>2
<1> QED BY <1>2, <1>4, <1>6, <1>7 DEF D!DataPlaced, D!DataCarried

LEMMA CutKeepsFeed ==
  ASSUME FeedInv, rpos \in 1..(Len(wire) + 1), Cut
  PROVE  FeedInv' /\ D!HandlesGrow
<1>0. /\ wire \in Seq(D!Blocks) /\ D!HandlesInv /\ harm \subseteq {"cut", "damage"} /\ Len(wire) \in Nat
      /\ UNCHANGED wown /\ harm' = harm \cup {"cut"} /\ ended'
  BY DEF FeedInv, D!HandlesInv, D!TypeOK, Cut
<1>1. /\ wire' \in Seq(D!Blocks)
      /\ \E n \in (rpos - 1)..Len(wire) :
           /\ n <= Len(wire') /\ \A i \in 1..n : wire'[i] = wire[i]
           /\ \A i \in DOMAIN wire' : i \in 1..n \/ wire'[i].kind = "Partial"
  BY <1>0, CutLeaves
<1>2. PICK n \in (rpos - 1)..Len(wire) :
        /\ \A i \in 1..n : wire'[i] = wire[i]
        /\ \A i \in DOMAIN wire' : i \in 1..n \/ wire'[i].kind = "Partial"
  BY <1>1
<1>3. n \in 0..Len(wire) /\ DOMAIN wire = 1..Len(wire) /\ \A i \in 1..n : i \in DOMAIN wire
  BY <1>0, <1>2
<1>4. D!HandlesInv' /\ D!HandlesGrow
  BY <1>0, <1>1, HandlesKept
<1>5. ASSUME NEW b \in Range(wire') PROVE BlockSound(b)'
  <2>1. PICK i \in DOMAIN wire' : wire'[i] = b
    BY DEF Range
  <2>2. CASE i \in 1..n
    <3>1. b \in Range(wire)
      BY <1>2, <1>3, <2>1, <2>2 DEF Range
    <3> QED BY <1>0, <1>4, <3>1, BlockStaysSound DEF FeedInv
  <2>3. CASE b.kind = "Partial"
    BY <1>0, <2>3 DEF BlockSound, Intact
  <2> QED BY <1>2, <2>1, <2>2, <2>3
<1>6. (\A b \in Range(wire) : BlockSound(b))'
  BY <1>5 DEF Range
<1>7. ASSUME Disciplined PROVE StreamsKept'
  BY <1>0, <1>1, <1>2, <1>3, <1>7, CutKeepsStreams DEF FeedInv, StreamsKept
<1> QED BY <1>0, <1>4, <1>6, <1>7 DEF FeedInv

LEMMA FeedStart == Init => FeedInv
<1> SUFFICES ASSUME Init PROVE FeedInv
  OBVIOUS
<1>1. D!Init /\ harm = {} /\ ended = FALSE
  BY SameInit DEF Init
<1>2. D!HandlesInv /\ D!StreamsInv /\ D!DataCarried
  BY <1>1, D!HandlesInit, D!StreamsInit, PipeAssumption
<1>3. \A b \in Range(wire) : b.kind = "Version"
  BY <1>1 DEF D!Init, D!VersionBlock, Range
<1>4. \A b \in Range(wire) : BlockSound(b)
  BY <1>3 DEF BlockSound, D!BlockFits
<1> QED BY <1>1, <1>2, <1>4 DEF FeedInv, StreamsKept, D!StreamsInv

----------------------------------------------------------------------------
(* What the caller has stays good while more comes.                         *)

Fed ==
  /\ UNCHANGED rown /\ harm \subseteq harm'
  /\ D!HandlesInv /\ D!HandlesInv' /\ D!HandlesGrow
  /\ rpos - 1 <= Len(wire') /\ \A i \in 1..(rpos - 1) : wire'[i] = wire[i]

LEMMA DataStays ==
  ASSUME D!HandlesGrow, NEW data, NEW s
  PROVE  /\ Begins(data, s) => Begins(data, s)'
         /\ AllOf(data, s) /\ (handles[s].enc \/ Disciplined) =>
              AllOf(data, s)' /\ handles'[s].enc = handles[s].enc
<1>1. ASSUME s \in DOMAIN handles
      PROVE  s \in DOMAIN handles' /\ D!GoesOn(handles[s], handles'[s])
  BY <1>1 DEF D!HandlesGrow, D!Opened
<1>2. ASSUME s \in DOMAIN handles, D!Prolongs(handles[s].wrote, data) PROVE D!Prolongs(handles'[s].wrote, data)
  <2>1. D!Prolongs(handles'[s].wrote, handles[s].wrote)
    BY <1>1, <1>2 DEF D!GoesOn
  <2> QED BY <1>2, <2>1 DEF D!Prolongs
<1>3. Begins(data, s) => Begins(data, s)'
  BY <1>1, <1>2 DEF Begins
<1>4. ASSUME AllOf(data, s), handles[s].enc \/ Disciplined PROVE AllOf(data, s)' /\ handles'[s].enc = handles[s].enc
  BY <1>1, <1>4 DEF AllOf, D!GoesOn, D!Same
<1> QED BY <1>3, <1>4

LEMMA EntryStays ==
  ASSUME D!HandlesGrow, harm \subseteq harm', NEW g, EntryFits(g)
  PROVE  EntryFits(g)'
<1>1. werr => werr'
  BY DEF D!HandlesGrow
<1>2. /\ Begins(g.data, g.sid) => Begins(g.data, g.sid)'
      /\ AllOf(g.data, g.sid) /\ (handles[g.sid].enc \/ Disciplined) =>
           AllOf(g.data, g.sid)' /\ handles'[g.sid].enc = handles[g.sid].enc
  <2>1. ASSUME NEW d, d = g.data, NEW s, s = g.sid
        PROVE  /\ Begins(d, s) => Begins(d, s)'
               /\ AllOf(d, s) /\ (handles[s].enc \/ Disciplined) => AllOf(d, s)' /\ handles'[s].enc = handles[s].enc
    BY DataStays
  <2> QED BY <2>1 DEF Begins, AllOf
<1>3. g.kind = "enc" => EntryFits(g)'
  BY <1>2 DEF EntryFits, Begins, AllOf
<1>4. g.kind = "plain" => EntryFits(g)'
  BY <1>1, <1>2 DEF EntryFits, Begins, AllOf
<1> QED BY <1>3, <1>4 DEF EntryFits

LEMMA FedReadFrom ==
  ASSUME Fed, ReaderTypes, NEW h \in 1..(rpos - 1), NEW c, NEW g, ReadFrom(h, c, g)
  PROVE  ReadFrom(h, c, g)'
<1>1. rpos' = rpos /\ rpos \in Nat \ {0}
  BY DEF Fed, rown, ReaderTypes
<1>2. \A m \in (h + 1)..(rpos - 1) : wire'[m] = wire[m]
  BY <1>1 DEF Fed
<1>3. wire'[h] = wire[h]
  BY <1>1 DEF Fed
<1>4. D!Inside(h, rpos)'
  BY <1>1, <1>2 DEF ReadFrom, D!Inside, D!KindAt
<1>5. D!NumData(h, rpos - 1)' = D!NumData(h, rpos - 1)
  BY <1>1, <1>2 DEF D!NumData, D!DataAt, D!KindAt
<1> QED BY <1>3, <1>4, <1>5 DEF ReadFrom

LEMMA FedKeepsReceived ==
  ASSUME Fed, ReceiveInv
  PROVE  ReceiveInv'
<1>1. /\ rpos' = rpos /\ rerr' = rerr /\ inStream' = inStream /\ rkey' = rkey /\ rpc' = rpc
      /\ cur' = cur /\ got' = got /\ D!HandlesGrow /\ (werr => werr')
  BY DEF Fed, rown, D!HandlesGrow
<1>2. ReaderTypes /\ rpos \in Nat \ {0}
  BY DEF ReceiveInv, ReaderTypes
<1>3. ReaderTypes'
  <2>1. Len(wire') \in Nat
    BY DEF Fed, D!HandlesInv, D!TypeOK
  <2>2. rpos' \in 1..(Len(wire') + 1)
    BY <1>1, <1>2, <2>1 DEF Fed
  <2> QED BY <1>1, <1>2, <2>2 DEF ReaderTypes
<1>4. (\A i \in 1..Len(got) : EntryFits(got[i]))'
  <2>1. ASSUME NEW g, EntryFits(g) PROVE EntryFits(g)'
    BY <1>1, <2>1, EntryStays DEF Fed
  <2>2. \A i \in 1..Len(got) : \A g : g = got[i] => EntryFits(g)'
    BY <2>1 DEF ReceiveInv
  <2> QED BY <1>1, <2>2 DEF EntryFits, Begins, AllOf
<1>5. ASSUME NEW c, NEW g, Holds(c, g) PROVE Holds(c, g)'
  <2>1. ASSUME c.kind = "enc" PROVE SealedInHand(c, g)'
    <3>1. ASSUME NEW b, D!BlockFits(b) PROVE D!BlockFits(b)'
      BY <3>1, D!FitsStay, PipeAssumption DEF Fed
    <3>2. ASSUME NEW b, BlockSound(b) PROVE BlockSound(b)'
      BY <3>2, BlockStaysSound DEF Fed
    <3> QED BY <1>5, <2>1, <3>1, <3>2 DEF Holds, SealedInHand
  <2>2. ASSUME c.kind = "plain", ~c.isEOF, Disciplined PROVE ClearInHand(c, g)'
    <3>1. ClearInHand(c, g)
      BY <1>5, <2>2 DEF Holds
    <3>2. \A h \in 1..(rpos - 1) : ReadFrom(h, c, g) => ReadFrom(h, c, g)'
      BY <1>2, FedReadFrom
    <3> QED BY <1>1, <3>1, <3>2 DEF ClearInHand, Fed
  <2> QED BY <1>5, <2>1, <2>2 DEF Holds, InHand
<1>6. (cur.kind # "none" => got # <<>> /\ Holds(cur, got[Len(got)]))'
  <2>1. ASSUME cur.kind # "none", NEW c, c = cur, NEW g, g = got[Len(got)] PROVE got # <<>> /\ Holds(c, g)'
    BY <1>5, <2>1 DEF ReceiveInv
  <2> QED BY <1>1, <2>1 DEF Holds, InHand, SealedInHand, ClearInHand, ReadFrom
<1> QED BY <1>1, <1>3, <1>4, <1>6 DEF ReceiveInv

----------------------------------------------------------------------------
(* The Reader's steps.                                                      *)

\* A step of the Reader leaves what its invariant refers to.
LEMMA ReadingLeaves ==
  ASSUME UNCHANGED <<wire, wown, harm>>
  PROVE  /\ \A g : EntryFits(g)' <=> EntryFits(g)
         /\ \A c, g : SealedInHand(c, g)' <=> SealedInHand(c, g)
<1>1. handles' = handles /\ werr' = werr /\ nonce' = nonce /\ wire' = wire /\ harm' = harm /\ D!Opened' = D!Opened
  BY DEF wown, D!Opened
<1>2. \A g : EntryFits(g)' <=> EntryFits(g)
  BY <1>1 DEF EntryFits, Begins, AllOf
<1>3. \A b : D!BlockFits(b)' <=> D!BlockFits(b)
  BY <1>1 DEF D!BlockFits, D!Genuine
<1>4. \A b : BlockSound(b)' <=> BlockSound(b)
  BY <1>1, <1>3 DEF BlockSound, Intact
<1>5. \A c, g : SealedInHand(c, g)' <=> SealedInHand(c, g)
  BY <1>3, <1>4 DEF SealedInHand
<1> QED BY <1>2, <1>5

\* The last entry is replaced by one with more data or with an end.
LastIs(g) ==
  /\ got' \in Seq(Entries) /\ Len(got') = Len(got) /\ got'[Len(got)] = g
  /\ \A i \in 1..Len(got) : i # Len(got) => got'[i] = got[i]
More(g, body, e, new) ==
  /\ new \in Entries /\ new.sid = g.sid /\ new.kind = g.kind
  /\ new.data = g.data \o body /\ (body = <<>> => new.data = g.data)
  /\ new.end = IF g.end = "open" THEN e ELSE g.end

LEMMA EntryReplaced ==
  ASSUME ReceiveInv, UNCHANGED <<wire, wown, harm>>, got # <<>>, NEW g, LastIs(g), EntryFits(g)
  PROVE  /\ got' # <<>> /\ got'[Len(got')] = g
         /\ (\A i \in 1..Len(got) : EntryFits(got[i]))'
<1>1. got \in Seq(Entries) /\ \A i \in 1..Len(got) : EntryFits(got[i])
  BY DEF ReceiveInv, ReaderTypes
<1>2. Len(got) \in 1..Len(got)
  BY <1>1
<1>4. \A i \in 1..Len(got) : EntryFits(got'[i])
  BY <1>1 DEF LastIs
<1>5. \A i \in 1..Len(got) : \A e : e = got'[i] => EntryFits(e)'
  BY <1>4, ReadingLeaves
<1>6. (\A i \in 1..Len(got) : EntryFits(got[i]))'
  BY <1>5 DEF EntryFits, Begins, AllOf, LastIs
<1> QED BY <1>2, <1>6 DEF LastIs

LEMMA MoreIs ==
  ASSUME NEW g \in Entries, NEW body \in Seq(Chunks \cup {Bad}), NEW e \in Ends,
         NEW new, \/ new = [[g EXCEPT !.data = @ \o body] EXCEPT !.end = IF @ = "open" THEN e ELSE @]
                  \/ e = "open" /\ new = [g EXCEPT !.data = @ \o body]
                  \/ body = <<>> /\ new = [g EXCEPT !.end = IF @ = "open" THEN e ELSE @]
  PROVE  More(g, body, e, new)
<1>1. g.data \o body \in Seq(Chunks \cup {Bad}) /\ (body = <<>> => g.data \o body = g.data)
  BY DEF Entries
<1> DEFINE d == g.data \o body
<1>2. d \in Seq(Chunks \cup {Bad}) /\ (body = <<>> => d = g.data)
  BY <1>1
<1>3. \/ new = [[g EXCEPT !.data = d] EXCEPT !.end = IF @ = "open" THEN e ELSE @]
      \/ e = "open" /\ new = [g EXCEPT !.data = d]
      \/ body = <<>> /\ new = [g EXCEPT !.end = IF @ = "open" THEN e ELSE @]
  OBVIOUS
<1> HIDE DEF d
<1>4. /\ new \in Entries /\ new.sid = g.sid /\ new.kind = g.kind /\ new.data = d
      /\ new.end = IF g.end = "open" THEN e ELSE g.end
  BY <1>2, <1>3 DEF Entries
<1>5. new.data = g.data \o body
  BY <1>4 DEF d
<1> QED BY <1>2, <1>4, <1>5 DEF More

LEMMA EntryChanges ==
  ASSUME got \in Seq(Entries), got # <<>>, NEW body \in Seq(Chunks \cup {Bad}), NEW e \in Ends,
         \/ got' = [R!Received(body) EXCEPT ![Len(got)].end = IF @ = "open" THEN e ELSE @]
         \/ e = "open" /\ got' = R!Received(body)
         \/ body = <<>> /\ got' = R!Ended(e)
  PROVE  \E new : LastIs(new) /\ More(got[Len(got)], body, e, new)
<1>1. Len(got) \in 1..Len(got) /\ got[Len(got)] \in Entries
  OBVIOUS
<1>2. PICK n : n = Len(got)
  OBVIOUS
<1>3. n \in DOMAIN got /\ got[n] \in Entries /\ DOMAIN got = 1..Len(got)
  BY <1>1, <1>2
<1>4. PICK d : d = got[n].data \o body
  OBVIOUS
<1>5. \/ got' = [[got EXCEPT ![n].data = d] EXCEPT ![n].end = IF @ = "open" THEN e ELSE @]
      \/ e = "open" /\ got' = [got EXCEPT ![n].data = d]
      \/ body = <<>> /\ got' = [got EXCEPT ![n].end = IF @ = "open" THEN e ELSE @]
  BY <1>2, <1>4 DEF R!Received, R!Ended
<1>6. /\ DOMAIN got' = DOMAIN got
      /\ \A i \in DOMAIN got : i # n => got'[i] = got[i]
      /\ \/ got'[n] = [[got[n] EXCEPT !.data = d] EXCEPT !.end = IF @ = "open" THEN e ELSE @]
         \/ e = "open" /\ got'[n] = [got[n] EXCEPT !.data = d]
         \/ body = <<>> /\ got'[n] = [got[n] EXCEPT !.end = IF @ = "open" THEN e ELSE @]
  BY <1>3, <1>5
<1>7. More(got[n], body, e, got'[n])
  BY <1>3, <1>4, <1>6, MoreIs
<1>8. got' \in Seq(Entries) /\ Len(got') = Len(got)
  <2>1. got'[n] \in Entries
    BY <1>7 DEF More
  <2>2. got' = [got EXCEPT ![n] = got'[n]]
    BY <1>3, <1>5, <1>6
  <2> QED BY <1>3, <2>1, <2>2
<1> QED BY <1>2, <1>3, <1>6, <1>7, <1>8 DEF LastIs

\* The plain Stream of a disciplined caller that is not at its end.
Going == cur.kind = "plain" /\ ~cur.isEOF /\ Disciplined

\* What a step of the Reader finds, and what it leaves alone.
Reading == FeedInv /\ ReceiveInv /\ UNCHANGED <<wire, wown, ended, harm>>

LEMMA SameStreamKept ==
  ASSUME Reading, UNCHANGED <<cur, got>>, ReaderTypes',
         Going => UNCHANGED <<rpos, rerr, inStream>> /\ rpc' \in {"idle", "read"},
         rpc' = "skip" => cur.kind # "none",
         rpc' = "read" => /\ cur.kind \in {"plain", "enc"} /\ cur.dead = "nil"
                          /\ cur.kind = "plain" => ~cur.isEOF
  PROVE  ReceiveInv'
<1>1. UNCHANGED <<wire, wown, harm>>
  BY DEF Reading
<1>2. (\A i \in 1..Len(got) : EntryFits(got[i]))'
  <2>1. \A i \in 1..Len(got) : \A e : e = got[i] => EntryFits(e)'
    BY <1>1, ReadingLeaves DEF Reading, ReceiveInv
  <2> QED BY <2>1 DEF EntryFits, Begins, AllOf
<1>3. ASSUME cur.kind # "none", NEW c, c = cur, NEW g, g = got[Len(got)] PROVE got # <<>> /\ Holds(c, g)'
  <2>1. got # <<>> /\ Holds(c, g)
    BY <1>3 DEF Reading, ReceiveInv
  <2>2. SealedInHand(c, g) => SealedInHand(c, g)'
    BY <1>1, ReadingLeaves
  <2>3. ASSUME Going PROVE ClearInHand(c, g)'
    <3>1. ClearInHand(c, g)
      BY <1>3, <2>1, <2>3 DEF Holds, Going
    <3>2. \A h : ReadFrom(h, c, g) => ReadFrom(h, c, g)'
      BY <1>1, <2>3 DEF ReadFrom, D!Inside, D!KindAt, D!NumData, D!DataAt
    <3> QED BY <1>1, <2>3, <3>1, <3>2 DEF ClearInHand, wown
  <2> QED BY <1>3, <2>1, <2>2, <2>3 DEF Holds, InHand, Going
<1>4. (cur.kind # "none" => got # <<>> /\ Holds(cur, got[Len(got)]))'
  BY <1>3 DEF Holds, InHand, SealedInHand, ClearInHand, ReadFrom
<1> QED BY <1>2, <1>4 DEF ReceiveInv

\* A Stream that goes on is being read, or nothing is done.
LEMMA GoingIs ==
  ASSUME ReceiveInv, Going
  PROVE  rpc \in {"idle", "read"} /\ (rerr = "nil" => inStream)
BY DEF ReceiveInv, Going, Holds, ClearInHand

LEMMA SettersReceive ==
  ASSUME Reading, R!Setters
  PROVE  ReceiveInv'
<1>1. rpc = "idle" /\ UNCHANGED <<rpos, rerr, inStream, rkey, rpc, cur, got>>
  BY DEF R!Setters, R!SetPrivateKey, R!PrivateKeyProvider, R!SkipEncrypted, R!ReturnNonDecryptable, R!Configure
<1>2. ReaderTypes'
  BY <1>1 DEF Reading, ReceiveInv, ReaderTypes
<1> QED BY <1>1, <1>2, SameStreamKept

\* The end of the input, at the end of a block or inside one.
LEMMA AtEndIs ==
  ASSUME Reading, R!Drained, NEW loop
  PROVE  R!AtEnd(loop) \subseteq {"EOF", "Unexpected"}
<1>1. /\ wire \in Seq(D!Blocks) /\ rpos \in 1..(Len(wire) + 1)
      /\ rpos > Len(wire) \/ wire[rpos].kind = "Partial"
  BY DEF Reading, FeedInv, D!HandlesInv, D!TypeOK, ReceiveInv, ReaderTypes, R!Drained, R!HasBlock
<1>2. ASSUME ~(rpos > Len(wire)) PROVE wire[rpos].cut \in {"id", "length", "header", "body"}
  <2>1. wire[rpos] \in D!Blocks /\ wire[rpos].kind = "Partial"
    BY <1>1, <1>2
  <2> QED BY <2>1 DEF D!Blocks, D!VersionBlock, D!EOFBlock, D!ErrorBlock, D!Skippable, D!Cuts
<1> QED BY <1>2 DEF R!AtEnd, R!Block

LEMMA NextReceive ==
  ASSUME Reading, R!NextStream \/ R!NewReader \/ R!NextAtEnd
  PROVE  ReceiveInv'
<1>0. ReaderTypes /\ Len(wire) \in Nat /\ wire' = wire
  BY DEF Reading, ReceiveInv, FeedInv, D!HandlesInv, D!TypeOK
<1>1. UNCHANGED <<cur, got, rkey, inStream>> /\ rpc' \in {"idle", "next", "failed"}
  BY DEF R!NextStream, R!NewReader, R!NextAtEnd, R!Return
<1>2. rpos' = rpos \/ (rpos' = rpos + 1 /\ rpos <= Len(wire))
  BY Zenon DEF R!NextStream, R!NewReader, R!NextAtEnd, R!HasBlock
<1>3. rerr' \in Errors /\ (rpc' = "next" => rerr' = "nil")
  <2>1. CASE R!NextStream \/ R!NewReader
    BY <1>0, <2>1 DEF R!NextStream, R!NewReader, R!Return, ReaderTypes
  <2>2. CASE R!NextAtEnd
    <3>1. PICK e \in {"EOF", "Unexpected"} : rerr' = R!Kept(e) /\ rpc' = "idle"
      BY <2>2, AtEndIs DEF R!NextAtEnd, R!Return
    <3> QED BY <1>0, <3>1 DEF R!Kept, ReaderTypes, Errors
  <2> QED BY <2>1, <2>2
<1>4. ReaderTypes'
  BY <1>0, <1>1, <1>2, <1>3 DEF ReaderTypes
<1>5. Going => UNCHANGED <<rpos, rerr, inStream>> /\ rpc' \in {"idle", "read"}
  <2>1. ASSUME Going PROVE R!NextStream /\ rpc' = "idle"
    BY <2>1, GoingIs DEF R!NextStream, R!NewReader, R!NextAtEnd, R!Return, Reading
  <2> QED BY <1>1, <2>1 DEF R!NextStream
<1> QED BY <1>1, <1>4, <1>5, SameStreamKept

\* A step that changes the Stream in hand, or what was received of it.
LEMMA StreamChanged ==
  ASSUME Reading, ReaderTypes', got # <<>>, NEW g, LastIs(g), EntryFits(g), NEW c, c = cur', InHand(c, g),
         c.kind = "enc" => SealedInHand(c, g),
         c.kind = "plain" /\ ~c.isEOF /\ Disciplined => ClearInHand(c, g)',
         rpc' = "skip" => c.kind # "none",
         rpc' = "read" => c.kind \in {"plain", "enc"} /\ c.dead = "nil" /\ (c.kind = "plain" => ~c.isEOF)
  PROVE  ReceiveInv'
<1>1. UNCHANGED <<wire, wown, harm>>
  BY DEF Reading
<1>2. got' # <<>> /\ got'[Len(got')] = g /\ (\A i \in 1..Len(got) : EntryFits(got[i]))'
  BY <1>1, EntryReplaced DEF Reading
<1>3. SealedInHand(c, g) => SealedInHand(c, g)'
  BY <1>1, ReadingLeaves
<1>4. Holds(c, g)'
  BY <1>3 DEF Holds, InHand
<1>5. (cur.kind # "none" => got # <<>> /\ Holds(cur, got[Len(got)]))'
  BY <1>2, <1>4 DEF Holds, InHand, SealedInHand, ClearInHand, ReadFrom
<1> QED BY <1>2, <1>5 DEF ReceiveInv

LEMMA EndedFits ==
  ASSUME NEW g, EntryFits(g), NEW e, NEW new, More(g, <<>>, e, new),
         e = "EOF" => /\ g.kind = "plain"
                      /\ Disciplined => AllOf(g.data, g.sid) \/ "cut" \in harm \/ werr
  PROVE  EntryFits(new)
BY DEF EntryFits, More, Begins, AllOf

LEMMA SealedKept ==
  ASSUME NEW c, NEW g, SealedInHand(c, g), NEW d, NEW new,
         d.sid = c.sid, d.key = c.key, d.nonce = c.nonce, d.pend = c.pend, d.frag = c.frag,
         d.dead = "nil" => c.dead = "nil" /\ new.data = g.data /\ new.end # "EOF"
  PROVE  SealedInHand(d, new)
BY DEF SealedInHand

\* Stream.Skip: only a plain stream's Reader is told.
LEMMA SkipReceive ==
  ASSUME Reading, R!Skip
  PROVE  ReceiveInv'
<1>1. /\ cur.kind # "none" /\ rpc' = "skip" /\ UNCHANGED <<rpos, rerr, inStream, rkey, got>>
      /\ cur' = [cur EXCEPT !.isEOF = (@ \/ cur.kind = "plain")]
  BY DEF R!Skip
<1>2. ReaderTypes /\ got # <<>> /\ Holds(cur, got[Len(got)]) /\ wire' = wire
  BY <1>1 DEF Reading, ReceiveInv
<1>3. PICK g : g = got[Len(got)]
  OBVIOUS
<1>4. LastIs(g) /\ EntryFits(g)
  BY <1>1, <1>2, <1>3 DEF LastIs, Reading, ReceiveInv, ReaderTypes
<1>5. PICK c : c = cur'
  OBVIOUS
<1>6. PICK x \in BOOLEAN : c = [cur EXCEPT !.isEOF = x] /\ (cur.kind = "plain" => x)
  BY <1>1, <1>2, <1>5 DEF ReaderTypes, Streams
<1>7. /\ c \in Streams /\ c.sid = cur.sid /\ c.kind = cur.kind /\ c.key = cur.key /\ c.nonce = cur.nonce
      /\ c.pend = cur.pend /\ c.frag = cur.frag /\ c.dead = cur.dead /\ (c.kind = "plain" => c.isEOF)
  BY <1>2, <1>6 DEF ReaderTypes, Streams
<1>8. ReaderTypes'
  BY <1>1, <1>2, <1>5, <1>7 DEF ReaderTypes
<1>9. InHand(c, g) /\ (c.kind = "enc" => SealedInHand(cur, g))
  BY <1>2, <1>3, <1>7 DEF Holds, InHand
<1>10. c.kind = "enc" => SealedInHand(c, g)
  BY <1>7, <1>9, SealedKept DEF SealedInHand
<1> QED BY <1>1, <1>2, <1>4, <1>5, <1>7, <1>8, <1>9, <1>10, StreamChanged

\* skipDataBlocks returns: to the loop of NextStream, or to the caller.
LEMMA SkipReturnsReceive ==
  ASSUME Reading, rpc \in {"skip", "pass"}, NEW e \in Errors, R!SkipReturns(e),
         rpos' \in 1..(Len(wire) + 1), inStream' \in BOOLEAN, rkey' = rkey
  PROVE  ReceiveInv'
<1>1. ReaderTypes /\ wire' = wire /\ ~Going
  BY GoingIs DEF Reading, ReceiveInv
<1>2. CASE rpc = "pass"
  <2>1. UNCHANGED <<cur, got>> /\ (rpc' = "idle" \/ (rpc' = "next" /\ rerr' = rerr)) /\ rerr' \in Errors
    BY <1>1, <1>2 DEF R!SkipReturns, R!Return, R!Kept, ReaderTypes
  <2>2. ReaderTypes'
    BY <1>1, <1>2, <2>1 DEF ReaderTypes
  <2> QED BY <1>1, <2>1, <2>2, SameStreamKept
<1>3. CASE rpc = "skip"
  <2>1. /\ cur' = [cur EXCEPT !.done = (@ \/ e = "nil")] /\ got' = R!Ended(R!EndOf(e))
        /\ rpc' = "idle" /\ rerr' = rerr /\ cur.kind # "none"
    BY <1>3 DEF R!SkipReturns, R!Return, Reading, ReceiveInv
  <2>2. got # <<>> /\ Holds(cur, got[Len(got)]) /\ got \in Seq(Entries)
    BY <2>1 DEF Reading, ReceiveInv, ReaderTypes
  <2>3. R!EndOf(e) \in {"skipped", "not skipped"} /\ R!EndOf(e) \in Ends /\ <<>> \in Seq(Chunks \cup {Bad})
    BY DEF R!EndOf, Ends
  <2>4. PICK old : old = got[Len(got)]
    OBVIOUS
  <2>5. PICK g : LastIs(g) /\ More(old, <<>>, R!EndOf(e), g)
    BY <2>1, <2>2, <2>3, <2>4, EntryChanges
  <2>6. EntryFits(old)
    BY <2>2, <2>4 DEF Reading, ReceiveInv
  <2>7. EntryFits(g)
    BY <2>3, <2>5, <2>6, EndedFits
  <2>8. PICK c : c = cur'
    OBVIOUS
  <2>9. /\ c \in Streams /\ c.sid = cur.sid /\ c.kind = cur.kind /\ c.key = cur.key /\ c.nonce = cur.nonce
        /\ c.pend = cur.pend /\ c.frag = cur.frag /\ c.dead = cur.dead /\ c.isEOF = cur.isEOF
    <3>1. PICK x \in BOOLEAN : c = [cur EXCEPT !.done = x]
      BY <1>1, <2>1, <2>8 DEF ReaderTypes, Streams
    <3> QED BY <1>1, <3>1 DEF ReaderTypes, Streams
  <2>10. ReaderTypes'
    BY <1>1, <2>1, <2>5, <2>8, <2>9 DEF ReaderTypes, LastIs
  <2>11. InHand(c, g)
    BY <2>2, <2>4, <2>5, <2>9 DEF Holds, InHand, More
  <2>12. c.kind = "enc" => SealedInHand(c, g)
    <3>1. c.kind = "enc" => SealedInHand(cur, old)
      BY <2>2, <2>4, <2>9 DEF Holds
    <3>2. SealedInHand(cur, old) /\ c.dead = "nil" => g.data = old.data /\ g.end # "EOF"
      BY <2>3, <2>5, <2>9 DEF SealedInHand, More
    <3> QED BY <2>9, <3>1, <3>2, SealedKept
  <2> QED BY <1>1, <2>1, <2>2, <2>5, <2>7, <2>8, <2>9, <2>10, <2>11, <2>12, StreamChanged DEF Going
<1> QED BY <1>2, <1>3

LEMMA SkipBlocksReceive ==
  ASSUME Reading, R!SkipBlock \/ R!SkipAtEnd
  PROVE  ReceiveInv'
<1>1. ReaderTypes /\ wire' = wire /\ Len(wire) \in Nat /\ rpc \in {"skip", "pass"} /\ ~Going /\ rkey' = rkey
  BY GoingIs DEF Reading, ReceiveInv, FeedInv, D!HandlesInv, D!TypeOK, R!SkipBlock, R!SkipAtEnd
<1>2. rpos' \in 1..(Len(wire) + 1) /\ inStream' \in BOOLEAN
  <2>1. CASE R!SkipBlock
    <3>1. rpos' = rpos + 1 /\ rpos <= Len(wire)
      BY <2>1 DEF R!SkipBlock, R!HasBlock
    <3>2. inStream' = inStream \/ inStream' = FALSE
      BY <2>1 DEF R!SkipBlock
    <3>3. rpos' \in 1..(Len(wire) + 1)
      BY <1>1, <3>1 DEF ReaderTypes
    <3>4. inStream' \in BOOLEAN
      BY <1>1, <3>2, Zenon DEF ReaderTypes
    <3> QED BY <3>3, <3>4
  <2>2. CASE R!SkipAtEnd
    BY <1>1, <2>2 DEF R!SkipAtEnd, ReaderTypes
  <2> QED BY <2>1, <2>2
<1>3. CASE \E e \in Errors : R!SkipReturns(e)
  BY <1>1, <1>2, <1>3, SkipReturnsReceive
<1>4. CASE UNCHANGED <<rpc, rerr, cur, got, inStream>>
  <2>1. ReaderTypes'
    BY <1>1, <1>2, <1>4 DEF ReaderTypes
  <2> QED BY <1>1, <1>4, <2>1, SameStreamKept DEF Reading, ReceiveInv
<1>5. CASE R!SkipBlock
  BY <1>3, <1>4, <1>5 DEF R!SkipBlock, Errors
<1>6. CASE R!SkipAtEnd
  BY <1>3, <1>6, AtEndIs DEF R!SkipAtEnd, Errors
<1> QED BY <1>5, <1>6

\* newStreamReader: the Stream that is returned with the header b.
LEMMA DeliverReceive ==
  ASSUME Reading, rpos \in 1..Len(wire), rpos' = rpos + 1, rerr = "nil", rerr' = "nil", rkey' = rkey,
         NEW b, b = wire[rpos], NEW kind \in {"plain", "enc", "nokey"}, NEW e, R!Deliver(b, kind, e),
         kind = "plain" => b.kind = "PlainStream",
         kind # "plain" => b.kind = "EncStream", kind = "enc" => rkey # NoKey
  PROVE  ReceiveInv'
<1>1. ReaderTypes /\ wire' = wire /\ wire \in Seq(D!Blocks) /\ Len(wire) \in Nat /\ BlockSound(b)
  <2>1. b \in Range(wire)
    BY DEF Range, Reading, FeedInv, D!HandlesInv, D!TypeOK
  <2> QED BY <2>1 DEF Reading, ReceiveInv, FeedInv, D!HandlesInv, D!TypeOK
<1>2. b.sid \in Nat /\ (b.kind = "EncStream" => b.nonce \in Nat)
  <2>1. b \in D!Blocks
    BY <1>1
  <2> QED BY <2>1 DEF D!Blocks, D!VersionBlock, D!EOFBlock, D!ErrorBlock, D!Skippable
<1>3. PICK c : c = cur'
  OBVIOUS
<1>4. /\ c \in Streams /\ c.sid = b.sid /\ c.kind = kind /\ c.pend = <<>> /\ c.frag = 0 /\ c.dead = "nil"
      /\ c.h = <<>> /\ ~c.isEOF /\ (kind = "enc" => c.key = rkey /\ c.nonce = b.nonce)
  <2>1. c = R!StreamOf(b, kind, IF kind = "enc" THEN rkey ELSE R!NoKey)
    BY <1>3 DEF R!Deliver
  <2>2. PICK k \in Nat, n \in Nat :
          /\ c = [R!NoStream EXCEPT !.sid = b.sid, !.kind = kind, !.key = k, !.nonce = n]
          /\ kind = "enc" => k = rkey /\ n = b.nonce
    BY <1>1, <1>2, <2>1 DEF R!StreamOf, R!NoKey, ReaderTypes
  <2>3. R!NoStream \in Streams
    BY DEF R!NoStream, Streams, Errors, R!NoKey
  <2>4. /\ R!NoStream.pend = <<>> /\ R!NoStream.frag = 0 /\ R!NoStream.dead = "nil"
        /\ R!NoStream.h = <<>> /\ ~R!NoStream.isEOF
    BY DEF R!NoStream
  <2> HIDE DEF R!NoStream
  <2> QED BY <1>2, <2>2, <2>3, <2>4 DEF Streams
<1>5. PICK g : g = [sid |-> b.sid, kind |-> kind, data |-> <<>>, end |-> "open"]
  OBVIOUS
<1>6. g \in Entries /\ EntryFits(g) /\ InHand(c, g)
  BY <1>2, <1>4, <1>5 DEF Entries, Ends, EntryFits, Begins, InHand
<1>7. /\ got' \in Seq(Entries) /\ Len(got') = Len(got) + 1 /\ got'[Len(got) + 1] = g
      /\ \A i \in 1..Len(got) : got'[i] = got[i]
  BY <1>1, <1>5, <1>6, AppendProperties DEF R!Deliver, ReaderTypes
<1>8. Len(got) \in Nat /\ got' # <<>> /\ got'[Len(got')] = g
  BY <1>1, <1>7 DEF ReaderTypes
<1>9. UNCHANGED <<wire, wown, harm>>
  BY DEF Reading
<1>10. (\A i \in 1..Len(got) : EntryFits(got[i]))'
  <2>1. \A i \in 1..Len(got') : EntryFits(got'[i])
    <3>1. \A i \in 1..Len(got') : i \in 1..Len(got) \/ i = Len(got) + 1
      BY <1>7, <1>8
    <3> QED BY <1>6, <1>7, <3>1 DEF Reading, ReceiveInv
  <2>2. \A i \in 1..Len(got') : \A x : x = got'[i] => EntryFits(x)'
    BY <1>9, <2>1, ReadingLeaves
  <2> QED BY <2>2 DEF EntryFits, Begins, AllOf
<1>11. rpc' = "idle" /\ inStream' = (inStream \/ kind # "nokey")
  BY DEF R!Deliver, R!Return, R!HasReader
<1>12. ReaderTypes'
  BY <1>1, <1>3, <1>4, <1>7, <1>11 DEF ReaderTypes, Errors
<1>13. kind = "enc" => SealedInHand(c, g)
  <2>1. ASSUME kind = "enc" PROVE D!BlockFits(EncStream(c.sid, c.nonce))
    <3>1. D!BlockFits(b)
      BY <1>1, <2>1 DEF BlockSound, Intact
    <3> QED BY <1>4, <2>1, <3>1 DEF D!BlockFits, EncStream
  <2> QED BY <1>1, <1>4, <1>5, <2>1 DEF SealedInHand
<1>14. ASSUME kind = "plain" PROVE ClearInHand(c, g)'
  <2>1. PICK h : h = rpos
    OBVIOUS
  <2>2. h \in 1..(rpos' - 1) /\ rpos' - 1 = h
    BY <1>1, <2>1
  <2>3. D!Inside(h, rpos)'
    BY <2>2 DEF D!Inside
  <2>4. D!NumData(h, rpos - 1)' = 0
    <3>1. {m \in (h + 1)..(rpos' - 1) : wire'[m].kind = "Datablock"} = {}
      BY <2>2
    <3> QED BY <3>1, D!FS_EmptySet, PipeAssumption DEF D!NumData, D!DataAt, D!KindAt
  <2>5. ReadFrom(h, c, g)'
    <3>1. wire'[h].kind = "PlainStream" /\ wire'[h].sid = c.sid
      BY <1>1, <1>4, <1>14, <2>1
    <3>2. Len(c.h) = 0 /\ Len(g.data) = 0 /\ \A k \in 1..Len(c.h) : FALSE
      BY <1>4, <1>5
    <3> QED BY <2>3, <2>4, <3>1, <3>2 DEF ReadFrom
  <2> QED BY <1>5, <1>11, <1>14, <2>2, <2>5 DEF ClearInHand
<1>15. Holds(c, g)'
  <2>1. SealedInHand(c, g) => SealedInHand(c, g)'
    BY <1>9, ReadingLeaves
  <2> QED BY <1>4, <1>6, <1>13, <1>14, <2>1 DEF Holds, InHand
<1>16. (cur.kind # "none" => got # <<>> /\ Holds(cur, got[Len(got)]))'
  BY <1>3, <1>8, <1>15 DEF Holds, InHand, SealedInHand, ClearInHand, ReadFrom
<1> QED BY <1>10, <1>11, <1>12, <1>16 DEF ReceiveInv

LEMMA NextBlockReceive ==
  ASSUME Reading, R!NextBlock
  PROVE  ReceiveInv'
<1>1. /\ ReaderTypes /\ wire' = wire /\ wire \in Seq(D!Blocks) /\ Len(wire) \in Nat
      /\ rpc = "next" /\ rerr = "nil" /\ ~Going
  BY GoingIs DEF Reading, ReceiveInv, ReaderTypes, FeedInv, D!HandlesInv, D!TypeOK, R!NextBlock
<1>2. rpos \in 1..Len(wire) /\ rpos' = rpos + 1
  BY <1>1 DEF R!NextBlock, R!HasBlock, ReaderTypes
<1>3. PICK b : b = wire[rpos]
  OBVIOUS
<1>4. b \in D!Blocks
  BY <1>1, <1>2, <1>3
<1>5. b.kind \in {"PlainKey", "EncryptedKey"} => b.key \in Nat
  BY <1>4, PipeAssumption DEF D!Blocks, D!VersionBlock, D!EOFBlock, D!ErrorBlock, D!Skippable
<1>6. CASE /\ UNCHANGED <<inStream, cur, got>> /\ rkey' \in Nat /\ rerr' \in Errors
           /\ rpc' = "idle" \/ (rpc' \in {"next", "pass"} /\ rerr' = "nil")
  <2>1. ReaderTypes'
    BY <1>1, <1>2, <1>6 DEF ReaderTypes
  <2> QED BY <1>1, <1>6, <2>1, SameStreamKept
<1>7. CASE b.kind = "PlainStream" /\ R!Deliver(b, "plain", "nil") /\ UNCHANGED <<rerr, rkey>>
  BY <1>1, <1>2, <1>3, <1>7, DeliverReceive
<1>8. CASE b.kind = "EncStream" /\ rkey # NoKey /\ R!Deliver(b, "enc", "nil") /\ UNCHANGED <<rerr, rkey>>
  BY <1>1, <1>2, <1>3, <1>8, DeliverReceive
<1>9. CASE b.kind = "EncStream" /\ R!Deliver(b, "nokey", "ErrNoKey") /\ UNCHANGED <<rerr, rkey>>
  BY <1>1, <1>2, <1>3, <1>9, DeliverReceive
<1>10. CASE b.kind = "EncryptedKey" /\ R!NextEncryptedKey(b) /\ UNCHANGED <<inStream, cur, got>>
  <2>1. rkey' \in {rkey, b.key, R!NoKey} /\ rerr' \in {"nil", "NoPrivate"}
        /\ (rpc' = "idle" \/ (rpc' = rpc /\ rerr' = rerr))
    BY <1>1, <1>10 DEF R!NextEncryptedKey, R!Kept, R!Return, R!Proceed
  <2> QED BY <1>1, <1>5, <1>6, <1>10, <2>1 DEF ReaderTypes, Errors, R!NoKey
<1>11. CASE b.kind = "PlainKey" /\ rkey' = b.key /\ rpc' = rpc /\ UNCHANGED <<rerr, inStream, cur, got>>
  BY <1>1, <1>5, <1>6, <1>11 DEF Errors
<1>12. CASE UNCHANGED <<rkey, inStream, cur, got>> /\ rerr' \in {"nil", "Message"}
            /\ (rpc' = "idle" \/ (rpc' \in {"next", "pass"} /\ rerr' = rerr))
  BY <1>1, <1>6, <1>12 DEF ReaderTypes, Errors
<1> QED BY <1>1, <1>3, <1>7, <1>8, <1>9, <1>10, <1>11, <1>12, Zenon
        DEF R!NextBlock, R!Block, R!Kept, R!Return, R!Proceed, R!NoKey, NoKey, R!PlainKeyRead

----------------------------------------------------------------------------
(* A fragment that sio opens.                                               *)

\* It is the next one of the stream in hand, and the last one ends it.
LEMMA OpenedIs ==
  ASSUME FeedInv, NEW c \in Streams, NEW g \in Entries, g.sid = c.sid, SealedInHand(c, g), c.dead = "nil",
         Begins(g.data, g.sid), NEW p \in D!Payloads, BlockSound(Datablock(p)),
         NEW last \in BOOLEAN, p.key = c.key, p.nonce = c.nonce, p.frag = c.frag, p.last = last,
         \A i \in DOMAIN p.body : p.body[i] # Bad,
         NEW new, More(g, p.body, "open", new) \/ More(g, p.body, "EOF", new)
  PROVE  /\ ~last => Begins(new.data, g.sid) /\ Len(new.data) = c.frag + 1
         /\ last => AllOf(new.data, g.sid) /\ handles[g.sid].enc /\ Begins(new.data, g.sid)
<1>0. D!HandlesInv /\ c.frag \in Nat /\ p.key # NoKey /\ Len(g.data) = c.frag
  BY DEF FeedInv, SealedInHand, Streams
<1>1. D!Genuine(p)
  <2>1. Intact(Datablock(p))
    BY DEF Intact, Datablock
  <2> QED BY <1>0, <2>1 DEF BlockSound, D!BlockFits, Datablock, D!NoKey, NoKey
<1>2. PICK s \in D!Opened : handles[s].enc /\ \E k \in 1..Len(handles[s].sum) : handles[s].sum[k] = p
  BY <1>1 DEF D!Genuine
<1>3. PICK hd : hd = handles[s]
  OBVIOUS
<1>4. PICK k \in 1..Len(hd.sum) : hd.sum[k] = p
  BY <1>2, <1>3
<1>5. D!HandleFits(hd) /\ hd.enc /\ hd \in D!Handles
  BY <1>0, <1>2, <1>3 DEF D!HandlesInv, D!TypeOK, D!Opened
<1>6. p = D!PayloadOf(hd, k)
  BY <1>4, <1>5 DEF D!HandleFits
<1>7. /\ p.nonce = hd.nonce /\ p.frag = k - 1
      /\ p.body = IF k <= Len(hd.wrote) THEN <<hd.wrote[k]>> ELSE <<>>
  BY <1>5, <1>6 DEF D!PayloadOf, D!Sealed
<1>8. p.last <=> hd.sealed /\ k = Len(hd.sum)
  BY <1>5, <1>6 DEF D!PayloadOf, D!Sealed
<1>9. s = g.sid
  BY <1>2, <1>3, <1>7 DEF SealedInHand, D!BlockFits, EncStream
<1>10. /\ Len(hd.sum) \in Nat /\ Len(hd.wrote) \in Nat /\ hd.frag \in Nat
       /\ hd.wrote \in Seq(Chunks \cup {Bad}) /\ (hd.wrote = <<>> <=> Len(hd.wrote) = 0)
       /\ Len(hd.sum) = (IF hd.sealed THEN hd.frag + 1 ELSE hd.frag)
       /\ IF Len(hd.wrote) = 0 THEN hd.frag = 0 ELSE hd.frag = Len(hd.wrote) - 1
       /\ hd.sealed <=> hd.ack # "open"
  <2>1. /\ Len(hd.sum) \in Nat /\ Len(hd.wrote) \in Nat /\ hd.frag \in Nat
        /\ hd.wrote \in Seq(Chunks \cup {Bad}) /\ (hd.wrote = <<>> <=> Len(hd.wrote) = 0)
    BY <1>5 DEF D!Handles
  <2> QED BY <1>5, <2>1 DEF D!HandleFits, D!Buffers
<1>11. g.data \in Seq(Chunks \cup {Bad}) /\ Len(g.data) = k - 1 /\ k \in Nat
  BY <1>0, <1>4, <1>7, <1>10 DEF Entries
<1>12. \A i \in 1..Len(g.data) : g.data[i] = hd.wrote[i]
  BY <1>3, <1>9, <1>11 DEF Begins, D!Prolongs
<1>13. new.data = g.data \o p.body
  BY DEF More
<1>14. CASE k <= Len(hd.wrote)
  <2>1. /\ new.data \in Seq(Chunks \cup {Bad}) /\ Len(new.data) = k /\ new.data[k] = hd.wrote[k]
        /\ \A i \in 1..Len(g.data) : new.data[i] = g.data[i]
    <3>1. PICK x \in Chunks \cup {Bad} : x = hd.wrote[k]
      BY <1>4, <1>10, <1>14
    <3>2. new.data = Append(g.data, x)
      BY <1>7, <1>11, <1>13, <1>14, <3>1
    <3> QED BY <1>11, <3>1, <3>2, AppendProperties
  <2>2. \A i \in 1..k : new.data[i] = hd.wrote[i]
    <3>1. \A i \in 1..k : i \in 1..Len(g.data) \/ i = k
      BY <1>11
    <3> QED BY <1>12, <2>1, <3>1
  <2>3. Begins(new.data, g.sid) /\ Len(new.data) = c.frag + 1
    BY <1>2, <1>3, <1>7, <1>9, <1>10, <1>11, <1>14, <2>1, <2>2 DEF Begins, D!Prolongs, D!Opened
  <2>4. ASSUME last PROVE AllOf(new.data, g.sid)
    <3>1. k = Len(hd.wrote) /\ hd.sealed
      BY <1>4, <1>8, <1>10, <1>14, <2>4
    <3>2. new.data = hd.wrote
      <4>1. Len(new.data) = Len(hd.wrote) /\ \A i \in 1..Len(new.data) : new.data[i] = hd.wrote[i]
        BY <2>1, <2>2, <3>1
      <4> QED BY <1>10, <2>1, <4>1, SeqEqual
    <3> QED BY <1>2, <1>3, <1>9, <1>10, <3>1, <3>2 DEF AllOf, D!Opened
  <2> QED BY <1>2, <1>9, <2>3, <2>4
<1>15. CASE ~(k <= Len(hd.wrote))
  <2>1. hd.sealed /\ k = Len(hd.sum) /\ k = 1 /\ Len(hd.wrote) = 0
    BY <1>4, <1>10, <1>15
  <2>2. last /\ hd.wrote = <<>> /\ Len(g.data) = 0
    BY <1>8, <1>10, <1>11, <2>1
  <2>3. new.data = <<>>
    BY <1>7, <1>11, <1>13, <1>15, <2>2
  <2> QED BY <1>2, <1>3, <1>9, <1>10, <2>1, <2>2, <2>3 DEF AllOf, Begins, D!Opened
<1> QED BY <1>14, <1>15

\* streamReader.Read returns an error, through sio if the stream is encrypted.
LEMMA SourceReceive ==
  ASSUME Reading, got # <<>>, NEW old, old = got[Len(got)], Holds(cur, old),
         cur.kind \in {"plain", "enc"}, cur.dead = "nil",
         NEW c \in Streams, c.sid = cur.sid, c.kind = cur.kind, c.key = cur.key, c.nonce = cur.nonce,
         c.pend = cur.pend, c.frag = cur.frag, c.dead = cur.dead,
         NEW e \in Errors \ {"nil"}, R!SourceReturns(c, e),
         rpos' \in 1..(Len(wire) + 1), rerr' \in Errors, inStream' \in BOOLEAN, rkey' = rkey,
         c.kind = "plain" /\ e = "EOF" /\ Disciplined => AllOf(old.data, old.sid) \/ "cut" \in harm \/ werr,
         c.kind = "plain" /\ ~c.isEOF /\ Disciplined =>
           rerr' # "nil" /\ (rerr' = "EOF" => "cut" \in harm \/ werr)
  PROVE  ReceiveInv'
<1>1. ReaderTypes /\ wire' = wire /\ old \in Entries /\ EntryFits(old)
  BY DEF Reading, ReceiveInv, ReaderTypes
<1>2. PICK o : o = (c.pend # <<>> /\ R!Opens(c.pend[1], TRUE))
  OBVIOUS
<1>3. PICK r : r = IF c.kind = "enc" /\ e = "EOF" /\ ~o THEN "NotAuthentic" ELSE e
  OBVIOUS
<1>4. PICK body : body = IF c.kind = "enc" /\ e = "EOF" /\ o THEN c.pend[1].body ELSE <<>>
  OBVIOUS
<1>5. /\ cur' = [c EXCEPT !.dead = IF c.kind = "enc" THEN r ELSE @, !.done = (@ \/ r = "EOF")]
      /\ got' = [R!Received(body) EXCEPT ![Len(got)].end = IF @ = "open" THEN r ELSE @]
      /\ rpc' = "idle"
  BY <1>2, <1>3, <1>4 DEF R!SourceReturns, R!Return
<1>6. r \in Errors /\ r # "nil" /\ r \in Ends
  BY <1>3 DEF Errors, Ends
<1>7. c.pend # <<>> => 1 \in 1..Len(c.pend) /\ c.pend[1] \in D!Payloads /\ c.pend[1].body \in Seq(Chunks \cup {Bad})
  <2>1. c.pend \in Seq(D!Payloads)
    BY DEF Streams
  <2>2. c.pend # <<>> => 1 \in 1..Len(c.pend) /\ c.pend[1] \in D!Payloads
    BY <2>1
  <2> QED BY <2>2 DEF D!Payloads
<1>8. body \in Seq(Chunks \cup {Bad})
  <2>1. body = <<>> \/ (c.pend # <<>> /\ body = c.pend[1].body)
    BY <1>2, <1>4, Zenon
  <2>2. <<>> \in Seq(Chunks \cup {Bad})
    OBVIOUS
  <2> QED BY <1>7, <2>1, <2>2, Zenon
<1>9. PICK g : LastIs(g) /\ More(old, body, r, g)
  BY <1>1, <1>5, <1>6, <1>8, EntryChanges DEF ReaderTypes
<1>10. PICK d : d = cur'
  OBVIOUS
<1>11. /\ d \in Streams /\ d.sid = c.sid /\ d.kind = c.kind /\ d.key = c.key /\ d.nonce = c.nonce
       /\ d.pend = c.pend /\ d.frag = c.frag /\ d.isEOF = c.isEOF
       /\ d.dead = IF c.kind = "enc" THEN r ELSE c.dead
  <2>1. PICK x \in BOOLEAN : x = (c.done \/ r = "EOF")
    BY DEF Streams
  <2>2. PICK y \in Errors : y = IF c.kind = "enc" THEN r ELSE c.dead
    BY <1>6 DEF Streams
  <2>3. d = [c EXCEPT !.dead = y, !.done = x]
    BY <1>5, <1>10, <2>1, <2>2
  <2> QED BY <2>2, <2>3 DEF Streams
<1>12. ReaderTypes'
  BY <1>1, <1>5, <1>9, <1>10, <1>11 DEF ReaderTypes, LastIs
<1>13. InHand(d, g) /\ old.sid = c.sid /\ old.kind = c.kind
  BY <1>9, <1>11 DEF InHand, Holds, More
<1>14. CASE c.kind = "plain"
  <2>1. body = <<>> /\ r = e
    BY <1>3, <1>4, <1>14
  <2>2. r = "EOF" => /\ old.kind = "plain"
                     /\ Disciplined => AllOf(old.data, old.sid) \/ "cut" \in harm \/ werr
    BY <1>13, <1>14, <2>1
  <2>3. More(old, <<>>, r, g)
    BY <1>9, <2>1
  <2>4. EntryFits(g)
    BY <1>1, <2>2, <2>3, EndedFits
  <2>5. d.kind = "plain" /\ ~d.isEOF /\ Disciplined => ClearInHand(d, g)'
    <3>1. harm' = harm /\ werr' = werr
      BY DEF Reading, wown
    <3> QED BY <1>5, <1>11, <3>1 DEF ClearInHand
  <2> QED BY <1>5, <1>9, <1>10, <1>11, <1>12, <1>13, <1>14, <2>4, <2>5, StreamChanged
<1>15. CASE c.kind = "enc"
  <2>1. SealedInHand(cur, old)
    BY <1>15 DEF Holds
  <2>2. SealedInHand(d, g)
    <3>1. d.dead # "nil"
      BY <1>6, <1>11, <1>15
    <3> QED BY <1>11, <2>1, <3>1, SealedKept
  <2>3. EntryFits(g)
    <3>1. CASE ~(e = "EOF" /\ o)
      <4>1. body = <<>> /\ r # "EOF"
        BY <1>3, <1>4, <1>15, <3>1
      <4>2. More(old, <<>>, r, g)
        BY <1>9, <4>1
      <4> QED BY <1>1, <4>1, <4>2, EndedFits
    <3>2. CASE e = "EOF" /\ o
      <4>1. r = "EOF" /\ body = c.pend[1].body /\ c.pend # <<>>
        BY <1>2, <1>3, <1>4, <1>15, <3>2
      <4>2. PICK p \in D!Payloads : p = c.pend[1]
        BY <1>7, <4>1
      <4>3. /\ p.key = c.key /\ p.nonce = c.nonce /\ p.frag = c.frag /\ p.last = TRUE
            /\ \A i \in DOMAIN p.body : p.body[i] # Bad
        BY <1>2, <3>2, <4>2 DEF R!Opens
      <4>4. SealedInHand(c, old)
        BY <2>1, SealedKept DEF SealedInHand
      <4>5. BlockSound(Datablock(p))
        BY <1>7, <4>1, <4>2, <4>4 DEF SealedInHand
      <4>6. Begins(old.data, old.sid) /\ FeedInv /\ c.dead = "nil" /\ TRUE \in BOOLEAN
        BY <1>1, <1>13, <1>15 DEF EntryFits, Reading
      <4>7. More(old, p.body, "EOF", g)
        BY <1>9, <4>1, <4>2
      <4>8. AllOf(g.data, old.sid) /\ handles[old.sid].enc /\ Begins(g.data, old.sid)
        BY <1>1, <1>13, <4>3, <4>4, <4>5, <4>6, <4>7, OpenedIs
      <4> QED BY <1>9, <1>13, <1>15, <4>8 DEF EntryFits, More
    <3> QED BY <3>1, <3>2
  <2> QED BY <1>5, <1>9, <1>10, <1>11, <1>12, <1>13, <1>15, <2>2, <2>3, StreamChanged
<1> QED BY <1>14, <1>15

----------------------------------------------------------------------------
(* A plain stream that goes on.                                             *)

\* The block that is read next belongs to the stream in hand.
LEMMA NextInStream ==
  ASSUME Reading, Disciplined, NEW h \in 1..(rpos - 1), NEW c, NEW g, ReadFrom(h, c, g), rpos \in 1..Len(wire)
  PROVE  D!Within(h, rpos) /\ D!Placed(h, rpos) /\ h \in DOMAIN wire /\ rpos \in DOMAIN wire
<1>1. wire \in Seq(D!Blocks) /\ D!DataPlaced
  BY DEF Reading, FeedInv, StreamsKept, D!HandlesInv, D!TypeOK
<1>2. h < rpos /\ h \in DOMAIN wire /\ rpos \in DOMAIN wire
  BY <1>1
<1>3. D!Within(h, rpos)
  BY <1>2 DEF D!Within, ReadFrom, D!KindAt, D!StreamKinds
<1> QED BY <1>1, <1>2, <1>3 DEF D!DataPlaced

\* The handle of the stream in hand.
LEMMA PlainHandle ==
  ASSUME Reading, Disciplined, NEW h \in 1..(rpos - 1), NEW c, NEW g, ReadFrom(h, c, g),
         c.sid \in D!Opened, NEW hd, hd = handles[c.sid]
  PROVE  /\ ~hd.enc /\ Len(hd.sum) = Len(hd.wrote) /\ Len(hd.wrote) \in Nat
         /\ hd.wrote \in Seq(Chunks \cup {Bad}) /\ hd.sum \in Seq(D!Payloads)
         /\ \A k \in 1..Len(hd.sum) : hd.sum[k] = Clear(<<hd.wrote[k]>>)
<1>1. /\ wire \in Seq(D!Blocks) /\ D!HeadersNamed /\ handles \in Seq(D!Handles)
      /\ rpos \in 1..(Len(wire) + 1) /\ \A s \in D!Opened : D!HandleFits(handles[s])
  BY DEF Reading, FeedInv, StreamsKept, D!HandlesInv, D!TypeOK, ReceiveInv, ReaderTypes
<1>2. h \in DOMAIN wire /\ wire[h].kind = "PlainStream" /\ wire[h].sid = c.sid
  BY <1>1 DEF ReadFrom
<1>3. wire[h] = D!Header(c.sid)
  BY <1>1, <1>2 DEF D!HeadersNamed, D!KindAt, D!StreamKinds
<1>4. ~hd.enc
  BY <1>2, <1>3 DEF D!Header, D!EncStream
<1>5. hd \in D!Handles /\ D!HandleFits(hd)
  BY <1>1 DEF D!Opened
<1>6. hd.wrote \in Seq(Chunks \cup {Bad}) /\ hd.sum \in Seq(D!Payloads)
  BY <1>5 DEF D!Handles
<1>7. Len(hd.sum) = Len(hd.wrote) /\ Len(hd.wrote) \in Nat
  BY <1>4, <1>5, <1>6 DEF D!HandleFits
<1>8. \A k \in 1..Len(hd.sum) : hd.sum[k] = Clear(<<hd.wrote[k]>>)
  BY <1>4, <1>5 DEF D!HandleFits, D!PayloadOf, D!Clear, Clear, D!NoKey, NoKey
<1> QED BY <1>4, <1>6, <1>7, <1>8

LEMMA CountNext ==
  ASSUME wire \in Seq(D!Blocks), NEW j \in 1..Len(wire), NEW h \in 1..(j - 1)
  PROVE  /\ wire[j].kind = "Datablock" => D!NumData(h, j) = D!NumData(h, j - 1) + 1
         /\ wire[j].kind # "Datablock" => D!NumData(h, j) = D!NumData(h, j - 1)
         /\ D!NumData(h, j - 1) \in Nat
<1>1. \A m : m \in (h + 1)..j <=> m = j \/ m \in (h + 1)..(j - 1)
  OBVIOUS
<1>2. D!IsFiniteSet((h + 1)..(j - 1)) /\ D!DataAt(h, j - 1) \subseteq (h + 1)..(j - 1)
  <2>1. h + 1 \in Int /\ j - 1 \in Int
    OBVIOUS
  <2>2. D!IsFiniteSet((h + 1)..(j - 1))
    BY <2>1, D!FS_Interval, PipeAssumption
  <2> QED BY <2>2 DEF D!DataAt
<1>3. D!IsFiniteSet(D!DataAt(h, j - 1)) /\ j \notin D!DataAt(h, j - 1)
  BY <1>2, D!FS_Subset, PipeAssumption
<1>4. D!NumData(h, j - 1) \in Nat
  BY <1>3, D!FS_CardinalityType, PipeAssumption DEF D!NumData
<1>5. CASE wire[j].kind = "Datablock"
  <2>1. D!DataAt(h, j) = D!DataAt(h, j - 1) \cup {j}
    BY <1>1, <1>5 DEF D!DataAt, D!KindAt
  <2>2. D!Cardinality(D!DataAt(h, j - 1) \cup {j}) = D!Cardinality(D!DataAt(h, j - 1)) + 1
    BY <1>3, D!FS_AddElement, PipeAssumption
  <2> QED BY <1>4, <1>5, <2>1, <2>2 DEF D!NumData
<1>6. CASE wire[j].kind # "Datablock"
  <2>1. D!DataAt(h, j) = D!DataAt(h, j - 1)
    BY <1>1, <1>6 DEF D!DataAt, D!KindAt
  <2> QED BY <1>4, <1>6, <2>1 DEF D!NumData
<1> QED BY <1>5, <1>6

\* The Stream and what was received of it, with one chunk more or unchanged.
OneMore(c, g, d, new) ==
  \E x : /\ Len(d.h) = Len(c.h) + 1 /\ d.h[Len(c.h) + 1] = Clear(<<x>>)
         /\ Len(new.data) = Len(g.data) + 1 /\ new.data[Len(g.data) + 1] = x
         /\ \A k \in 1..Len(c.h) : d.h[k] = c.h[k] /\ new.data[k] = g.data[k]

\* The Reader has read one block more of the stream in hand.
LEMMA ReadFurther ==
  ASSUME Reading, NEW h \in 1..(rpos - 1), rpos \in 1..Len(wire), rpos' = rpos + 1,
         NEW c, NEW g, ReadFrom(h, c, g), wire[rpos].kind \notin D!Marks,
         NEW d, d.sid = c.sid, NEW new,
         IF wire[rpos].kind = "Datablock" THEN OneMore(c, g, d, new) ELSE d.h = c.h /\ new.data = g.data
  PROVE  ReadFrom(h, d, new)' /\ h \in 1..(rpos' - 1)
<1>1. wire \in Seq(D!Blocks) /\ wire' = wire /\ rpos \in Nat /\ (rpos + 1) - 1 = rpos
  BY DEF Reading, FeedInv, D!HandlesInv, D!TypeOK
<1>2. D!Inside(h, rpos)'
  <2>1. \A m \in (h + 1)..rpos : m = rpos \/ m \in (h + 1)..(rpos - 1)
    BY <1>1
  <2>2. \A m \in (h + 1)..rpos : wire[m].kind \notin D!Marks
    BY <2>1 DEF ReadFrom, D!Inside, D!KindAt
  <2> QED BY <1>1, <2>2 DEF D!Inside, D!KindAt
<1>3. D!NumData(h, rpos - 1)' = D!NumData(h, rpos)
  BY <1>1 DEF D!NumData, D!DataAt, D!KindAt
<1>4. D!NumData(h, rpos - 1) = Len(c.h) /\ Len(c.h) \in Nat
  BY <1>1, CountNext DEF ReadFrom
<1>5. D!NumData(h, rpos) = Len(d.h) /\ Len(new.data) = Len(d.h)
  BY <1>1, <1>4, CountNext DEF ReadFrom, OneMore
<1>6. \A k \in 1..Len(d.h) : d.h[k] = Clear(<<new.data[k]>>)
  <2>1. CASE wire[rpos].kind = "Datablock"
    <3>0. Len(d.h) = Len(c.h) + 1
      BY <2>1 DEF OneMore
    <3>1. \A k \in 1..Len(d.h) : k \in 1..Len(c.h) \/ k = Len(c.h) + 1
      <4>1. PICK n \in Nat : n = Len(c.h)
        BY <1>4
      <4>2. \A k \in 1..(n + 1) : k \in 1..n \/ k = n + 1
        OBVIOUS
      <4> QED BY <3>0, <4>1, <4>2
    <3>2. PICK x : /\ d.h[Len(c.h) + 1] = Clear(<<x>>) /\ new.data[Len(g.data) + 1] = x
                   /\ \A k \in 1..Len(c.h) : d.h[k] = c.h[k] /\ new.data[k] = g.data[k]
      BY <2>1 DEF OneMore
    <3>3. Len(g.data) = Len(c.h) /\ \A k \in 1..Len(c.h) : c.h[k] = Clear(<<g.data[k]>>)
      BY DEF ReadFrom
    <3>4. ASSUME NEW k \in 1..Len(d.h) PROVE d.h[k] = Clear(<<new.data[k]>>)
      <4>1. CASE k \in 1..Len(c.h)
        <5>1. d.h[k] = c.h[k] /\ new.data[k] = g.data[k] /\ c.h[k] = Clear(<<g.data[k]>>)
          BY <3>2, <3>3, <4>1
        <5> HIDE DEF Clear
        <5> QED BY <5>1
      <4>2. CASE k = Len(c.h) + 1
        BY <3>2, <3>3, <4>2
      <4> QED BY <3>1, <4>1, <4>2
    <3> QED BY <3>4
  <2>2. CASE wire[rpos].kind # "Datablock"
    BY <2>2 DEF ReadFrom
  <2> QED BY <2>1, <2>2
<1>7. wire'[h].kind = "PlainStream" /\ wire'[h].sid = d.sid
  BY <1>1 DEF ReadFrom
<1> QED BY <1>1, <1>2, <1>3, <1>5, <1>6, <1>7 DEF ReadFrom

\* The data block that is read next carries the next chunk, if it is undamaged.
LEMMA PlainData ==
  ASSUME Reading, Disciplined, NEW h \in 1..(rpos - 1), NEW c, NEW g, ReadFrom(h, c, g),
         rpos \in 1..Len(wire), wire[rpos].kind = "Datablock"
  PROVE  \E x \in Chunks \cup {Bad} :
           /\ wire[rpos].payload = Clear(<<x>>)
           /\ "damage" \notin harm =>
                /\ c.sid \in DOMAIN handles /\ Len(g.data) + 1 \in 1..Len(handles[c.sid].wrote)
                /\ handles[c.sid].wrote[Len(g.data) + 1] = x
<1>1. /\ wire \in Seq(D!Blocks) /\ D!Within(h, rpos) /\ D!Placed(h, rpos) /\ h \in DOMAIN wire /\ rpos \in DOMAIN wire
      /\ wire[h].kind = "PlainStream" /\ wire[h].sid = c.sid
  BY NextInStream DEF Reading, FeedInv, D!HandlesInv, D!TypeOK, ReadFrom
<1>2. /\ c.sid \in D!Opened /\ D!NumData(h, rpos) \in 1..Len(handles[c.sid].sum)
      /\ wire[rpos].payload.key = NoKey
  BY <1>1 DEF D!Placed, D!KindAt, NoKey, D!NoKey
<1>3. PICK x \in Chunks \cup {Bad} : wire[rpos].payload = Clear(<<x>>)
  <2>1. wire[rpos] \in Range(wire)
    BY <1>1 DEF Range
  <2>2. BlockSound(wire[rpos])
    BY <2>1 DEF Reading, FeedInv
  <2> QED BY <1>2, <2>2 DEF BlockSound
<1>4. PICK hd : hd = handles[c.sid]
  OBVIOUS
<1>5. /\ Len(hd.sum) = Len(hd.wrote) /\ Len(hd.wrote) \in Nat /\ hd.wrote \in Seq(Chunks \cup {Bad})
      /\ \A k \in 1..Len(hd.sum) : hd.sum[k] = Clear(<<hd.wrote[k]>>)
  BY <1>2, <1>4, PlainHandle
<1>6. D!NumData(h, rpos) = Len(g.data) + 1
  BY <1>1, CountNext DEF ReadFrom
<1>7. ASSUME "damage" \notin harm PROVE hd.wrote[Len(g.data) + 1] = x
  <2>1. D!DataCarried
    BY <1>7 DEF Reading, FeedInv, StreamsKept
  <2>2. wire[rpos].payload = hd.sum[D!NumData(h, rpos)]
    BY <1>1, <1>2, <1>4, <2>1 DEF D!DataCarried, D!Carried, D!KindAt
  <2>3. Clear(<<x>>) = Clear(<<hd.wrote[Len(g.data) + 1]>>)
    BY <1>2, <1>3, <1>4, <1>5, <1>6, <2>2
  <2> QED BY <2>3 DEF Clear
<1> QED BY <1>2, <1>3, <1>4, <1>5, <1>6, <1>7 DEF D!Opened

LEMMA BeginsLonger ==
  ASSUME FeedInv, NEW data \in Seq(Chunks \cup {Bad}), NEW s \in DOMAIN handles, Begins(data, s),
         Len(data) + 1 \in 1..Len(handles[s].wrote),
         NEW new, new = data \o <<handles[s].wrote[Len(data) + 1]>>
  PROVE  Begins(new, s)
<1>1. PICK w : w = handles[s].wrote
  OBVIOUS
<1>2. w \in Seq(Chunks \cup {Bad}) /\ Len(w) \in Nat
  <2>1. handles[s] \in D!Handles
    BY DEF FeedInv, D!HandlesInv, D!TypeOK
  <2>2. w \in Seq(Chunks \cup {Bad})
    BY <1>1, <2>1 DEF D!Handles
  <2> QED BY <2>2
<1>3. PICK x \in Chunks \cup {Bad} : x = w[Len(data) + 1]
  BY <1>1, <1>2
<1>4. new = Append(data, x)
  BY <1>1, <1>3
<1>5. /\ Len(new) = Len(data) + 1 /\ new[Len(data) + 1] = x
      /\ \A i \in 1..Len(data) : new[i] = data[i]
  BY <1>4, AppendProperties
<1>6. \A i \in 1..Len(data) : data[i] = w[i]
  BY <1>1 DEF Begins, D!Prolongs
<1>7. \A i \in 1..Len(new) : new[i] = w[i]
  <2>1. \A i \in 1..Len(new) : i \in 1..Len(data) \/ i = Len(data) + 1
    BY <1>5
  <2> QED BY <1>3, <1>5, <1>6, <2>1
<1> QED BY <1>1, <1>2, <1>5, <1>7 DEF Begins, D!Prolongs

\* A checksum that fits: the stream is complete.
LEMMA PlainComplete ==
  ASSUME Reading, Disciplined, NEW h \in 1..(rpos - 1), NEW c, NEW g \in Entries, ReadFrom(h, c, g),
         rpos \in 1..Len(wire), wire[rpos].kind = "EOS", wire[rpos].sum = c.h
  PROVE  AllOf(g.data, c.sid)
<1>1. /\ D!Placed(h, rpos) /\ wire[h].kind = "PlainStream" /\ wire[h].sid = c.sid
  BY NextInStream DEF ReadFrom
<1>2. c.sid \in D!Opened /\ ~D!IsOpen(c.sid) /\ handles[c.sid].sum = c.h
  BY <1>1 DEF D!Placed, D!KindAt
<1>3. PICK hd : hd = handles[c.sid]
  OBVIOUS
<1>4. /\ Len(hd.sum) = Len(hd.wrote) /\ Len(hd.wrote) \in Nat /\ hd.wrote \in Seq(Chunks \cup {Bad})
      /\ \A k \in 1..Len(hd.sum) : hd.sum[k] = Clear(<<hd.wrote[k]>>)
  BY <1>2, <1>3, PlainHandle
<1>5. Len(g.data) = Len(hd.wrote) /\ \A k \in 1..Len(hd.wrote) : Clear(<<hd.wrote[k]>>) = Clear(<<g.data[k]>>)
  <2>1. hd.sum = c.h
    BY <1>2, <1>3
  <2>2. Len(g.data) = Len(hd.wrote)
    BY <1>4, <2>1 DEF ReadFrom
  <2>3. ASSUME NEW k \in 1..Len(hd.wrote) PROVE Clear(<<hd.wrote[k]>>) = Clear(<<g.data[k]>>)
    <3>1. k \in 1..Len(c.h) /\ k \in 1..Len(hd.sum)
      BY <1>4, <2>1
    <3>2. hd.sum[k] = Clear(<<hd.wrote[k]>>) /\ c.h[k] = Clear(<<g.data[k]>>)
      BY <1>4, <3>1 DEF ReadFrom
    <3> HIDE DEF Clear
    <3> QED BY <2>1, <3>2
  <2> QED BY <2>2, <2>3
<1>6. \A k \in 1..Len(g.data) : g.data[k] = hd.wrote[k]
  BY <1>5 DEF Clear
<1>7. g.data = hd.wrote
  <2>1. g.data \in Seq(Chunks \cup {Bad})
    BY DEF Entries
  <2> QED BY <1>4, <1>5, <1>6, <2>1, SeqEqual
<1> QED BY <1>2, <1>3, <1>7 DEF AllOf, D!IsOpen, D!Opened

\* The input ends inside a stream only if the bytes broke off.
LEMMA PlainCutShort ==
  ASSUME Reading, Disciplined, NEW h \in 1..(rpos - 1), NEW c, NEW g, ReadFrom(h, c, g), R!Drained
  PROVE  "cut" \in harm \/ werr
<1>0. SUFFICES ASSUME "cut" \notin harm, ~werr PROVE FALSE
  OBVIOUS
<1>1. /\ wire \in Seq(D!Blocks) /\ Len(wire) \in Nat /\ DOMAIN wire = 1..Len(wire)
      /\ rpos \in 1..(Len(wire) + 1) /\ handles \in Seq(D!Handles) /\ ended
  BY DEF Reading, FeedInv, D!HandlesInv, D!TypeOK, ReceiveInv, ReaderTypes, R!Drained
<1>2. D!OneAtATime /\ D!FailedKept /\ D!HeadersNamed /\ D!DataSent /\ closes # <<>>
  BY <1>0, <1>1 DEF Reading, FeedInv, StreamsKept
<1>3. CASE rpos \in 1..Len(wire)
  <2>1. wire[rpos].kind = "Partial"
    BY <1>3 DEF R!Drained, R!HasBlock
  <2>2. BlockSound(wire[rpos])
    BY <1>1, <1>3 DEF Range, Reading, FeedInv
  <2> QED BY <1>0, <2>1, <2>2 DEF BlockSound, Intact, D!BlockFits
<1>4. CASE rpos = Len(wire) + 1
  <2>1. h \in DOMAIN wire /\ D!KindAt(h) \in D!StreamKinds /\ wire[h].sid = c.sid
    BY <1>1, <1>4 DEF ReadFrom, D!KindAt, D!StreamKinds
  <2>2. c.sid \in D!Opened
    BY <1>0, <1>2, <2>1 DEF D!HeadersNamed
  <2>3. PICK hd : hd = handles[c.sid]
    OBVIOUS
  <2>4. hd \in D!Handles
    BY <1>1, <2>2, <2>3 DEF D!Opened
  <2>5. hd.ack = "ok"
    <3>1. hd.ack # "open" /\ hd.ack # "err"
      BY <1>0, <1>2, <2>2, <2>3 DEF D!OneAtATime, D!IsOpen, D!FailedKept
    <3> QED BY <2>4, <3>1 DEF D!Handles
  <2>6. PICK j \in (h + 1)..Len(wire) : wire[j] = D!EOS(hd.sum)
    BY <1>2, <2>1, <2>2, <2>3, <2>5 DEF D!DataSent
  <2>7. j \in (h + 1)..(rpos - 1)
    BY <1>1, <1>4
  <2>8. D!KindAt(j) \notin D!Marks
    BY <2>7 DEF ReadFrom, D!Inside
  <2> QED BY <2>6, <2>8 DEF D!KindAt, D!Marks, D!EOS
<1> QED BY <1>1, <1>3, <1>4

\* In a stream that goes on there is no block but data, its end, an error and
\* those of a newer version.
LEMMA PlainBlocks ==
  ASSUME Reading, Disciplined, NEW h \in 1..(rpos - 1), NEW c, NEW g, ReadFrom(h, c, g), rpos \in 1..Len(wire)
  PROVE  wire[rpos].kind \notin KeyKinds \cup StreamKinds \cup {"EOF"}
BY NextInStream DEF D!Placed, D!KindAt, KeyKinds, StreamKinds

----------------------------------------------------------------------------
(* Stream.Read.                                                             *)

LEMMA ReadReceive ==
  ASSUME Reading, R!Read
  PROVE  ReceiveInv'
<1>1. /\ ReaderTypes /\ wire' = wire /\ cur.kind \in {"plain", "enc"} /\ rpc = "idle"
      /\ UNCHANGED <<rpos, rerr, inStream, rkey>>
  BY DEF Reading, ReceiveInv, R!Read
<1>2. CASE /\ UNCHANGED <<cur, got>>
           /\ rpc' = "idle" \/ (rpc' = "read" /\ cur.dead = "nil" /\ ~cur.isEOF /\ rerr = "nil")
  <2>1. ReaderTypes'
    BY <1>1, <1>2 DEF ReaderTypes
  <2> QED BY <1>1, <1>2, <2>1, SameStreamKept
<1>3. CASE cur.dead = "nil" /\ ~cur.isEOF /\ rerr # "nil" /\ R!SourceReturns(cur, rerr)
  <2>1. PICK old : old = got[Len(got)]
    OBVIOUS
  <2>2. got # <<>> /\ Holds(cur, old)
    BY <1>1, <2>1 DEF Reading, ReceiveInv
  <2>3. PICK c \in Streams : c = cur
    BY <1>1 DEF ReaderTypes
  <2>4. PICK e \in Errors \ {"nil"} : e = rerr
    BY <1>1, <1>3 DEF ReaderTypes
  <2>5. R!SourceReturns(c, e)
    BY <1>3, <2>3, <2>4
  <2>6. c.kind = "plain" /\ e = "EOF" /\ Disciplined => AllOf(old.data, old.sid) \/ "cut" \in harm \/ werr
    BY <1>3, <2>2, <2>3, <2>4 DEF Holds, ClearInHand
  <2>7. c.kind = "plain" /\ ~c.isEOF /\ Disciplined => rerr' # "nil" /\ (rerr' = "EOF" => "cut" \in harm \/ werr)
    BY <1>1, <1>3, <2>2, <2>3 DEF Holds, ClearInHand
  <2>8. rpos' \in 1..(Len(wire) + 1) /\ rerr' \in Errors /\ inStream' \in BOOLEAN /\ rkey' = rkey
    BY <1>1 DEF ReaderTypes
  <2>9. /\ c.sid = cur.sid /\ c.kind = cur.kind /\ c.key = cur.key /\ c.nonce = cur.nonce
        /\ c.pend = cur.pend /\ c.frag = cur.frag /\ c.dead = cur.dead
    BY <2>3
  <2> QED BY <1>1, <1>3, <2>1, <2>2, <2>5, <2>6, <2>7, <2>8, <2>9, SourceReceive
<1> QED BY <1>1, <1>2, <1>3, Zenon DEF R!Read, R!Return

\* An error that a loop of Read finds, which Reader.err keeps if it is set.
LEMMA ErrorReceive ==
  ASSUME Reading, rpc = "read", NEW e \in Errors \ {"nil", "EOF"}, R!SourceReturns(cur, e),
         rerr' = e \/ (rerr' = rerr /\ ~Going), rpos' \in 1..(Len(wire) + 1), inStream' = inStream, rkey' = rkey
  PROVE  ReceiveInv'
<1>1. ReaderTypes /\ cur.kind \in {"plain", "enc"} /\ cur.dead = "nil" /\ rerr' \in Errors /\ inStream' \in BOOLEAN
  BY DEF Reading, ReceiveInv, ReaderTypes
<1>2. PICK old : old = got[Len(got)]
  OBVIOUS
<1>3. got # <<>> /\ Holds(cur, old)
  BY <1>1, <1>2 DEF Reading, ReceiveInv
<1>4. PICK c \in Streams : c = cur
  BY <1>1 DEF ReaderTypes
<1>5. /\ c.sid = cur.sid /\ c.kind = cur.kind /\ c.key = cur.key /\ c.nonce = cur.nonce
      /\ c.pend = cur.pend /\ c.frag = cur.frag /\ c.dead = cur.dead
  BY <1>4
<1>6. c.kind = "plain" /\ ~c.isEOF /\ Disciplined => rerr' # "nil" /\ (rerr' = "EOF" => "cut" \in harm \/ werr)
  BY <1>4 DEF Going
<1>7. R!SourceReturns(c, e) /\ e \in Errors \ {"nil"} /\ e # "EOF"
  BY <1>4
<1> QED BY <1>1, <1>2, <1>3, <1>5, <1>6, <1>7, SourceReceive

\* While it is being read.
LEMMA BeingRead ==
  ASSUME Reading, rpc = "read", NEW old, old = got[Len(got)]
  PROVE  /\ ReaderTypes /\ wire' = wire /\ rerr = "nil" /\ cur.kind \in {"plain", "enc"} /\ cur.dead = "nil"
         /\ got # <<>> /\ old \in Entries /\ EntryFits(old) /\ Holds(cur, old) /\ InHand(cur, old)
         /\ cur.kind = "plain" /\ Disciplined =>
              Going /\ inStream /\ old.end # "EOF" /\ \E h \in 1..(rpos - 1) : ReadFrom(h, cur, old)
         /\ cur.kind = "enc" => SealedInHand(cur, old)
<1>1. /\ ReaderTypes /\ wire' = wire /\ rerr = "nil" /\ cur.kind \in {"plain", "enc"} /\ cur.dead = "nil"
      /\ got # <<>> /\ Holds(cur, old) /\ (cur.kind = "plain" => ~cur.isEOF)
  BY DEF Reading, ReceiveInv, ReaderTypes
<1>2. old \in Entries /\ EntryFits(old)
  BY <1>1 DEF Reading, ReceiveInv, ReaderTypes
<1> QED BY <1>1, <1>2 DEF Holds, ClearInHand, Going

LEMMA ReadAtEndReceive ==
  ASSUME Reading, R!ReadAtEnd
  PROVE  ReceiveInv'
<1>1. rpc = "read" /\ R!Drained /\ UNCHANGED <<rpos, inStream, rkey>>
  BY DEF R!ReadAtEnd
<1>2. PICK old : old = got[Len(got)]
  OBVIOUS
<1>3. PICK e \in {"EOF", "Unexpected"} : rerr' = e /\ R!SourceReturns(cur, e)
  <2>1. PICK e \in R!AtEnd("read") : rerr' = R!Kept(e) /\ R!SourceReturns(cur, rerr')
    BY DEF R!ReadAtEnd
  <2>2. rerr' = e
    BY <1>1, <2>1, BeingRead DEF R!Kept
  <2> QED BY <1>1, <2>1, <2>2, AtEndIs
<1>4. cur.kind = "plain" /\ Disciplined => "cut" \in harm \/ werr
  BY <1>1, <1>2, BeingRead, PlainCutShort
<1>5. PICK c \in Streams : c = cur
  BY <1>1, BeingRead DEF ReaderTypes
<1>6. /\ c.sid = cur.sid /\ c.kind = cur.kind /\ c.key = cur.key /\ c.nonce = cur.nonce
      /\ c.pend = cur.pend /\ c.frag = cur.frag /\ c.dead = cur.dead
  BY <1>5
<1>7. /\ c.kind = "plain" /\ e = "EOF" /\ Disciplined => AllOf(old.data, old.sid) \/ "cut" \in harm \/ werr
      /\ c.kind = "plain" /\ ~c.isEOF /\ Disciplined => rerr' # "nil" /\ (rerr' = "EOF" => "cut" \in harm \/ werr)
  BY <1>3, <1>4, <1>5
<1>8. rpos' \in 1..(Len(wire) + 1) /\ rerr' \in Errors /\ inStream' \in BOOLEAN /\ rkey' = rkey /\ e \in Errors \ {"nil"}
  BY <1>1, <1>3, BeingRead DEF ReaderTypes, Errors
<1>9. got # <<>> /\ Holds(cur, old) /\ cur.kind \in {"plain", "enc"} /\ cur.dead = "nil" /\ R!SourceReturns(c, e)
  BY <1>1, <1>2, <1>3, <1>5, BeingRead
<1> QED BY <1>2, <1>6, <1>7, <1>8, <1>9, SourceReceive

LEMMA ReadEOSReceive ==
  ASSUME Reading, rpc = "read", rpos \in 1..Len(wire), rpos' = rpos + 1, rkey' = rkey,
         NEW b, b = wire[rpos], b.kind = "EOS", R!ReadEOS(b)
  PROVE  ReceiveInv'
<1>1. PICK old : old = got[Len(got)]
  OBVIOUS
<1>2. rpos' \in 1..(Len(wire) + 1) /\ rerr = "nil"
  <2>1. Len(wire) \in Nat
    BY DEF Reading, FeedInv, D!HandlesInv, D!TypeOK
  <2> QED BY <1>1, <2>1, BeingRead
<1>3. CASE b.sum # cur.h
  <2>1. rerr' = "Checksum" /\ R!SourceReturns(cur, "Checksum") /\ inStream' = inStream
    BY <1>2, <1>3 DEF R!ReadEOS, R!SumMatches, R!Kept
  <2>2. "Checksum" \in Errors \ {"nil", "EOF"}
    BY DEF Errors
  <2> QED BY <1>2, <2>1, <2>2, ErrorReceive
<1>4. CASE b.sum = cur.h
  <2>1. PICK c : c = [cur EXCEPT !.isEOF = TRUE]
    OBVIOUS
  <2>2. inStream' = FALSE /\ rerr' = rerr /\ R!SourceReturns(c, "EOF")
    BY <1>4, <2>1 DEF R!ReadEOS, R!SumMatches
  <2>3. /\ c \in Streams /\ c.sid = cur.sid /\ c.kind = cur.kind /\ c.key = cur.key /\ c.nonce = cur.nonce
        /\ c.pend = cur.pend /\ c.frag = cur.frag /\ c.dead = cur.dead /\ c.isEOF
    BY <1>1, <2>1, BeingRead DEF ReaderTypes, Streams
  <2>4. cur.kind = "plain" /\ Disciplined => AllOf(old.data, old.sid)
    <3>1. ASSUME cur.kind = "plain", Disciplined PROVE AllOf(old.data, cur.sid)
      <4>1. PICK h \in 1..(rpos - 1) : ReadFrom(h, cur, old)
        BY <1>1, <3>1, BeingRead
      <4> QED BY <1>1, <1>4, <3>1, <4>1, BeingRead, PlainComplete
    <3> QED BY <1>1, <3>1, BeingRead DEF InHand
  <2>5. /\ c.kind = "plain" /\ "EOF" = "EOF" /\ Disciplined => AllOf(old.data, old.sid) \/ "cut" \in harm \/ werr
        /\ c.kind = "plain" /\ ~c.isEOF /\ Disciplined => rerr' # "nil" /\ (rerr' = "EOF" => "cut" \in harm \/ werr)
    BY <2>3, <2>4
  <2>6. rerr' \in Errors /\ inStream' \in BOOLEAN /\ "EOF" \in Errors \ {"nil"}
    BY <1>2, <2>2 DEF Errors
  <2>7. got # <<>> /\ Holds(cur, old) /\ cur.kind \in {"plain", "enc"} /\ cur.dead = "nil"
    BY <1>1, BeingRead
  <2> QED BY <1>1, <1>2, <2>2, <2>3, <2>5, <2>6, <2>7, SourceReceive
<1> QED BY <1>3, <1>4

\* The checksum goes on over a payload.
LEMMA HashGrows ==
  ASSUME NEW c \in Streams, NEW p \in D!Payloads
  PROVE  \E q \in Seq(D!Payloads) :
           /\ q = Append(c.h, p) /\ Len(c.h) \in Nat /\ Len(q) = Len(c.h) + 1 /\ q[Len(c.h) + 1] = p
           /\ \A k \in 1..Len(c.h) : q[k] = c.h[k]
<1>1. c.h \in Seq(D!Payloads)
  BY DEF Streams
<1>2. PICK q : q = Append(c.h, p)
  OBVIOUS
<1>3. q \in Seq(D!Payloads)
  BY <1>1, <1>2
<1>4. Len(c.h) \in Nat /\ Len(q) = Len(c.h) + 1 /\ q[Len(c.h) + 1] = p /\ \A k \in 1..Len(c.h) : q[k] = c.h[k]
  BY <1>1, <1>2, AppendProperties
<1> QED BY <1>2, <1>3, <1>4

\* A block of data of a plain stream.
LEMMA PlainReadReceive ==
  ASSUME Reading, rpc = "read", rpos \in 1..Len(wire), rpos' = rpos + 1, UNCHANGED <<rerr, inStream, rkey>>,
         wire[rpos].kind = "Datablock", NEW p \in D!Payloads, p = wire[rpos].payload, cur.kind = "plain",
         NEW q \in Seq(D!Payloads), Len(cur.h) \in Nat, Len(q) = Len(cur.h) + 1, q[Len(cur.h) + 1] = p,
         \A k \in 1..Len(cur.h) : q[k] = cur.h[k],
         cur' = [cur EXCEPT !.h = q], got' = R!Received(p.body), rpc' = "idle"
  PROVE  ReceiveInv'
<1>1. PICK old : old = got[Len(got)]
  OBVIOUS
<1>2. /\ ReaderTypes /\ wire' = wire /\ rerr = "nil" /\ got # <<>> /\ old \in Entries /\ EntryFits(old)
      /\ InHand(cur, old) /\ cur.dead = "nil"
      /\ Disciplined => Going /\ inStream /\ old.end # "EOF" /\ \E h \in 1..(rpos - 1) : ReadFrom(h, cur, old)
  BY <1>1, BeingRead
<1>3. p.body \in Seq(Chunks \cup {Bad}) /\ "open" \in Ends /\ got \in Seq(Entries)
  BY <1>2 DEF D!Payloads, Ends, ReaderTypes
<1>4. PICK g : LastIs(g) /\ More(old, p.body, "open", g)
  BY <1>1, <1>2, <1>3, EntryChanges
<1>5. PICK c : c = cur'
  OBVIOUS
<1>6. /\ c \in Streams /\ c.sid = cur.sid /\ c.kind = "plain" /\ c.h = q
  BY <1>2, <1>5 DEF ReaderTypes, Streams
<1>7. ReaderTypes'
  <2>1. Len(wire) \in Nat
    BY DEF Reading, FeedInv, D!HandlesInv, D!TypeOK
  <2>2. rpos' \in 1..(Len(wire) + 1)
    BY <2>1
  <2>3. got' \in Seq(Entries) /\ cur' \in Streams
    BY <1>4, <1>5, <1>6 DEF LastIs
  <2> QED BY <1>2, <2>2, <2>3 DEF ReaderTypes
<1>8. ASSUME Disciplined
      PROVE  /\ "damage" \notin harm => Begins(g.data, g.sid)
             /\ g.end # "EOF" /\ \E h \in 1..(rpos' - 1) : ReadFrom(h, c, g)'
  <2>1. PICK h \in 1..(rpos - 1) : ReadFrom(h, cur, old)
    BY <1>2, <1>8
  <2>2. PICK x \in Chunks \cup {Bad} :
          /\ wire[rpos].payload = Clear(<<x>>)
          /\ "damage" \notin harm =>
               /\ cur.sid \in DOMAIN handles /\ Len(old.data) + 1 \in 1..Len(handles[cur.sid].wrote)
               /\ handles[cur.sid].wrote[Len(old.data) + 1] = x
    <3> HIDE DEF Clear
    <3> QED BY <1>8, <2>1, PlainData
  <2>3. p.body = <<x>> /\ g.data = old.data \o <<x>> /\ old.data \in Seq(Chunks \cup {Bad})
    BY <1>2, <1>4, <2>2 DEF Clear, More, Entries
  <2>4. ASSUME "damage" \notin harm PROVE Begins(g.data, g.sid)
    <3>1. Begins(old.data, cur.sid) /\ g.sid = cur.sid
      BY <1>2, <1>4, <1>8, <2>4 DEF InHand, EntryFits, More, Going
    <3> QED BY <2>2, <2>3, <2>4, <3>1, BeginsLonger DEF Reading
  <2>5. /\ Len(g.data) = Len(old.data) + 1 /\ g.data[Len(old.data) + 1] = x
        /\ \A k \in 1..Len(old.data) : g.data[k] = old.data[k]
    <3>1. g.data = Append(old.data, x)
      BY <2>3
    <3> QED BY <2>3, <3>1, AppendProperties
  <2>6. ReadFrom(h, c, g)' /\ h \in 1..(rpos' - 1)
    <3>1. wire[rpos].kind \notin D!Marks
      BY DEF D!Marks, D!StreamKinds
    <3>2. Len(old.data) = Len(cur.h)
      BY <2>1 DEF ReadFrom
    <3>3. PICK c0 : c0 = cur
      OBVIOUS
    <3>4. OneMore(c0, old, c, g)
      BY <1>6, <2>2, <2>5, <3>2, <3>3 DEF OneMore
    <3>5. ReadFrom(h, c0, old) /\ c.sid = c0.sid
      BY <1>6, <2>1, <3>3
    <3> QED BY <3>1, <3>4, <3>5, ReadFurther
  <2>7. g.end # "EOF"
    BY <1>2, <1>4, <1>8 DEF More
  <2> QED BY <2>4, <2>6, <2>7
<1>9. EntryFits(g)
  BY <1>2, <1>4, <1>6, <1>8 DEF EntryFits, More, InHand
<1>10. InHand(c, g)
  BY <1>2, <1>4, <1>6 DEF InHand, More
<1>11. c.kind = "plain" /\ ~c.isEOF /\ Disciplined => ClearInHand(c, g)'
  BY <1>2, <1>8 DEF ClearInHand
<1> QED BY <1>2, <1>4, <1>5, <1>6, <1>7, <1>9, <1>10, <1>11, StreamChanged

\* A block of data of an encrypted stream, which sio holds back until the next.
LEMMA SealedReadReceive ==
  ASSUME Reading, rpc = "read", rpos \in 1..Len(wire), rpos' = rpos + 1, UNCHANGED <<rerr, inStream, rkey>>,
         wire[rpos].kind = "Datablock", NEW p \in D!Payloads, wire[rpos] = Datablock(p), cur.kind = "enc",
         NEW q \in Seq(D!Payloads),
         \/ cur.pend = <<>> /\ cur' = [cur EXCEPT !.h = q, !.pend = <<p>>] /\ got' = got /\ rpc' = rpc
         \/ /\ cur.pend # <<>> /\ R!Opens(cur.pend[1], FALSE)
            /\ cur' = [cur EXCEPT !.h = q, !.pend = <<p>>, !.frag = @ + 1]
            /\ got' = R!Received(cur.pend[1].body) /\ rpc' = "idle"
         \/ cur' = [cur EXCEPT !.h = q, !.dead = "NotAuthentic"] /\ got' = R!Ended("NotAuthentic") /\ rpc' = "idle"
  PROVE  ReceiveInv'
<1>1. PICK old : old = got[Len(got)]
  OBVIOUS
<1>2. /\ ReaderTypes /\ wire' = wire /\ rerr = "nil" /\ got # <<>> /\ old \in Entries /\ EntryFits(old)
      /\ InHand(cur, old) /\ cur.dead = "nil" /\ SealedInHand(cur, old) /\ cur \in Streams /\ got \in Seq(Entries)
  BY <1>1, BeingRead DEF ReaderTypes
<1>3. PICK c : c = cur'
  OBVIOUS
<1>4. rpos' \in 1..(Len(wire) + 1)
  <2>1. Len(wire) \in Nat
    BY DEF Reading, FeedInv, D!HandlesInv, D!TypeOK
  <2> QED BY <2>1
<1>5. <<p>> \in Seq(D!Payloads) /\ Len(<<p>>) = 1 /\ <<p>>[1] = p /\ BlockSound(Datablock(p))
  <2>1. wire[rpos] \in Range(wire)
    BY DEF Range, Reading, FeedInv, D!HandlesInv, D!TypeOK
  <2>2. BlockSound(Datablock(p))
    BY <2>1 DEF Reading, FeedInv
  <2> QED BY <2>2
<1>6. CASE cur.pend = <<>> /\ cur' = [cur EXCEPT !.h = q, !.pend = <<p>>] /\ got' = got /\ rpc' = rpc
  <2>1. /\ c \in Streams /\ c.sid = cur.sid /\ c.kind = "enc" /\ c.key = cur.key /\ c.nonce = cur.nonce
        /\ c.pend = <<p>> /\ c.frag = cur.frag /\ c.dead = "nil"
    BY <1>2, <1>3, <1>5, <1>6 DEF Streams
  <2>2. LastIs(old)
    BY <1>1, <1>2, <1>6 DEF LastIs
  <2>3. ReaderTypes'
    BY <1>2, <1>3, <1>4, <1>6, <2>1 DEF ReaderTypes
  <2>4. InHand(c, old)
    BY <1>2, <2>1 DEF InHand
  <2>5. SealedInHand(c, old)
    BY <1>2, <1>5, <2>1 DEF SealedInHand
  <2> QED BY <1>2, <1>3, <1>6, <2>1, <2>2, <2>3, <2>4, <2>5, StreamChanged
<1>7. CASE /\ cur.pend # <<>> /\ R!Opens(cur.pend[1], FALSE)
           /\ cur' = [cur EXCEPT !.h = q, !.pend = <<p>>, !.frag = @ + 1]
           /\ got' = R!Received(cur.pend[1].body) /\ rpc' = "idle"
  <2>1. /\ c \in Streams /\ c.sid = cur.sid /\ c.kind = "enc" /\ c.key = cur.key /\ c.nonce = cur.nonce
        /\ c.pend = <<p>> /\ c.frag = cur.frag + 1 /\ c.dead = "nil"
    <3>1. PICK n \in Nat : n = cur.frag + 1
      BY <1>2 DEF Streams
    <3>2. c = [cur EXCEPT !.h = q, !.pend = <<p>>, !.frag = n]
      BY <1>3, <1>7, <3>1
    <3> QED BY <1>2, <1>5, <3>1, <3>2 DEF Streams
  <2>2. PICK o \in D!Payloads : o = cur.pend[1] /\ BlockSound(Datablock(o)) /\ o.body \in Seq(Chunks \cup {Bad})
    <3>1. cur.pend \in Seq(D!Payloads)
      BY <1>2 DEF Streams
    <3>2. 1 \in 1..Len(cur.pend) /\ cur.pend[1] \in D!Payloads
      BY <1>7, <3>1
    <3>3. BlockSound(Datablock(cur.pend[1]))
      BY <1>2, <3>2 DEF SealedInHand
    <3>4. \A o \in D!Payloads : o.body \in Seq(Chunks \cup {Bad})
      BY DEF D!Payloads
    <3> QED BY <3>2, <3>3, <3>4
  <2>3. got' = R!Received(o.body) /\ "open" \in Ends
    BY <1>7, <2>2 DEF Ends
  <2>4. PICK g : LastIs(g) /\ More(old, o.body, "open", g)
    BY <1>1, <1>2, <2>2, <2>3, EntryChanges
  <2>5. PICK c0 \in Streams : c0 = cur
    BY <1>2
  <2>6. /\ o.key = c0.key /\ o.nonce = c0.nonce /\ o.frag = c0.frag /\ o.last = FALSE
        /\ \A i \in DOMAIN o.body : o.body[i] # Bad
    BY <1>7, <2>2, <2>5 DEF R!Opens
  <2>7. /\ old.sid = c0.sid /\ old.kind = "enc" /\ SealedInHand(c0, old) /\ c0.dead = "nil" /\ FALSE \in BOOLEAN
        /\ Begins(old.data, old.sid) /\ FeedInv
    BY <1>2, <1>7, <2>5 DEF InHand, EntryFits, Reading
  <2>8. Begins(g.data, old.sid) /\ Len(g.data) = c0.frag + 1
    <3>1. More(old, o.body, "open", g) \/ More(old, o.body, "EOF", g)
      BY <2>4
    <3>2. PICK last \in BOOLEAN : last = FALSE
      OBVIOUS
    <3>3. o.last = last
      BY <2>6, <3>2
    <3>4. BlockSound(Datablock(o)) /\ old \in Entries
      BY <1>2, <2>2
    <3>5. ~last => Begins(g.data, old.sid) /\ Len(g.data) = c0.frag + 1
      BY <2>6, <2>7, <3>1, <3>3, <3>4, OpenedIs
    <3> QED BY <3>2, <3>5
  <2>9. old.end # "EOF" /\ g.end # "EOF" /\ g.sid = old.sid /\ g.kind = "enc"
    BY <2>4, <2>7 DEF SealedInHand, More
  <2>10. EntryFits(g) /\ InHand(c, g)
    BY <2>1, <2>5, <2>7, <2>8, <2>9 DEF EntryFits, InHand
  <2>11. SealedInHand(c, g)
    BY <1>5, <2>1, <2>5, <2>7, <2>8, <2>9 DEF SealedInHand
  <2>12. ReaderTypes'
    BY <1>2, <1>3, <1>4, <1>7, <2>1, <2>4 DEF ReaderTypes, LastIs
  <2> QED BY <1>2, <1>3, <1>7, <2>1, <2>4, <2>10, <2>11, <2>12, StreamChanged
<1>8. CASE /\ cur' = [cur EXCEPT !.h = q, !.dead = "NotAuthentic"]
           /\ got' = R!Ended("NotAuthentic") /\ rpc' = "idle"
  <2>1. /\ c \in Streams /\ c.sid = cur.sid /\ c.kind = "enc" /\ c.key = cur.key /\ c.nonce = cur.nonce
        /\ c.pend = cur.pend /\ c.frag = cur.frag /\ c.dead = "NotAuthentic"
    BY <1>2, <1>3, <1>8 DEF Streams, Errors
  <2>2. "NotAuthentic" \in Ends /\ <<>> \in Seq(Chunks \cup {Bad})
    BY DEF Ends, Errors
  <2>3. PICK g : LastIs(g) /\ More(old, <<>>, "NotAuthentic", g)
    BY <1>1, <1>2, <1>8, <2>2, EntryChanges
  <2>4. EntryFits(g) /\ InHand(c, g)
    BY <1>2, <2>1, <2>3, EndedFits DEF InHand, More
  <2>5. SealedInHand(c, g)
    BY <1>2, <2>1, SealedKept
  <2>6. ReaderTypes'
    BY <1>2, <1>3, <1>4, <1>8, <2>1, <2>3 DEF ReaderTypes, LastIs
  <2> QED BY <1>2, <1>3, <1>8, <2>1, <2>3, <2>4, <2>5, <2>6, StreamChanged
<1> QED BY <1>6, <1>7, <1>8

LEMMA SkippableReceive ==
  ASSUME Reading, rpc = "read", rpos \in 1..Len(wire), rpos' = rpos + 1,
         wire[rpos].kind = "Skippable", UNCHANGED <<rerr, inStream, cur, got, rpc, rkey>>
  PROVE  ReceiveInv'
<1>1. PICK old : old = got[Len(got)]
  OBVIOUS
<1>2. /\ ReaderTypes /\ wire' = wire /\ rerr = "nil" /\ got # <<>> /\ old \in Entries /\ EntryFits(old)
      /\ InHand(cur, old) /\ cur.dead = "nil" /\ cur.kind \in {"plain", "enc"}
      /\ cur.kind = "enc" => SealedInHand(cur, old)
      /\ cur.kind = "plain" /\ Disciplined =>
           Going /\ inStream /\ old.end # "EOF" /\ \E h \in 1..(rpos - 1) : ReadFrom(h, cur, old)
  BY <1>1, BeingRead
<1>3. PICK c : c = cur'
  OBVIOUS
<1>4. c = cur
  BY <1>3
<1>5. ReaderTypes'
  <2>1. Len(wire) \in Nat
    BY DEF Reading, FeedInv, D!HandlesInv, D!TypeOK
  <2>2. rpos' \in 1..(Len(wire) + 1)
    BY <2>1
  <2> QED BY <1>2, <2>2 DEF ReaderTypes
<1>6. LastIs(old)
  BY <1>1, <1>2 DEF LastIs, ReaderTypes
<1>7. ASSUME c.kind = "plain", Disciplined PROVE ClearInHand(c, old)'
  <2>1. PICK h \in 1..(rpos - 1) : ReadFrom(h, c, old)
    BY <1>2, <1>4, <1>7
  <2>2. wire[rpos].kind \notin D!Marks /\ wire[rpos].kind # "Datablock"
    BY DEF D!Marks, D!StreamKinds
  <2>3. ReadFrom(h, c, old)' /\ h \in 1..(rpos' - 1)
    BY <2>1, <2>2, ReadFurther
  <2> QED BY <1>2, <1>4, <1>7, <2>3 DEF ClearInHand
<1>8. InHand(c, old) /\ (c.kind = "enc" => SealedInHand(c, old))
  BY <1>2, <1>4
<1>9. rpc' = "read" /\ c.kind \in {"plain", "enc"} /\ c.dead = "nil" /\ (c.kind = "plain" => ~c.isEOF)
  BY <1>2, <1>4 DEF Reading, ReceiveInv
<1> QED BY <1>2, <1>3, <1>5, <1>6, <1>7, <1>8, <1>9, StreamChanged

LEMMA ReadBlockReceive ==
  ASSUME Reading, R!ReadBlock
  PROVE  ReceiveInv'
<1>1. rpc = "read" /\ rpos' = rpos + 1 /\ rkey' = rkey
  BY DEF R!ReadBlock
<1>2. /\ ReaderTypes /\ wire \in Seq(D!Blocks) /\ Len(wire) \in Nat /\ rerr = "nil" /\ cur \in Streams
      /\ cur.kind \in {"plain", "enc"}
  BY <1>1, BeingRead DEF Reading, FeedInv, D!HandlesInv, D!TypeOK, ReaderTypes
<1>3. rpos \in 1..Len(wire) /\ rpos' \in 1..(Len(wire) + 1)
  BY <1>1, <1>2 DEF R!ReadBlock, R!HasBlock, ReaderTypes
<1>4. PICK b : b = wire[rpos]
  OBVIOUS
<1>5. CASE b.kind = "Datablock" /\ R!ReadData(b.payload)
  <2>1. PICK p \in D!Payloads : b = Datablock(p) /\ b.payload = p
    <3>1. b \in D!Blocks
      BY <1>2, <1>3, <1>4
    <3>2. b \in [kind : {"Datablock"}, payload : D!Payloads]
      BY <1>5, <3>1 DEF D!Blocks, D!VersionBlock, D!EOFBlock, D!ErrorBlock, D!Skippable
    <3> QED BY <3>2 DEF Datablock
  <2>2. PICK q \in Seq(D!Payloads) :
          /\ q = Append(cur.h, p) /\ Len(cur.h) \in Nat /\ Len(q) = Len(cur.h) + 1 /\ q[Len(cur.h) + 1] = p
          /\ \A k \in 1..Len(cur.h) : q[k] = cur.h[k]
    BY <1>2, HashGrows
  <2>3. PICK c : c = [cur EXCEPT !.h = q]
    OBVIOUS
  <2>4. c.pend = cur.pend /\ c.frag = cur.frag
    BY <1>2, <2>3 DEF Streams
  <2>5. /\ UNCHANGED <<rerr, inStream>>
        /\ \/ cur.kind = "plain" /\ cur' = c /\ got' = R!Received(p.body) /\ rpc' = "idle"
           \/ cur.kind = "enc" /\ cur.pend = <<>> /\ cur' = [c EXCEPT !.pend = <<p>>] /\ got' = got /\ rpc' = rpc
           \/ /\ cur.kind = "enc" /\ cur.pend # <<>> /\ R!Opens(cur.pend[1], FALSE)
              /\ cur' = [c EXCEPT !.pend = <<p>>, !.frag = @ + 1]
              /\ got' = R!Received(cur.pend[1].body) /\ rpc' = "idle"
           \/ /\ cur.kind = "enc" /\ cur' = [c EXCEPT !.dead = "NotAuthentic"]
              /\ got' = R!Ended("NotAuthentic") /\ rpc' = "idle"
    BY <1>5, <2>1, <2>2, <2>3 DEF R!ReadData, R!Return, R!Proceed
  <2>6. CASE cur.kind = "plain"
    <3>1. cur' = [cur EXCEPT !.h = q] /\ got' = R!Received(p.body) /\ rpc' = "idle"
      BY <2>3, <2>5, <2>6
    <3> QED BY <1>1, <1>3, <1>4, <1>5, <2>1, <2>2, <2>5, <2>6, <3>1, PlainReadReceive
  <2>7. CASE cur.kind = "enc"
    <3>1. \/ cur.pend = <<>> /\ cur' = [cur EXCEPT !.h = q, !.pend = <<p>>] /\ got' = got /\ rpc' = rpc
          \/ /\ cur.pend # <<>> /\ R!Opens(cur.pend[1], FALSE)
             /\ cur' = [cur EXCEPT !.h = q, !.pend = <<p>>, !.frag = @ + 1]
             /\ got' = R!Received(cur.pend[1].body) /\ rpc' = "idle"
          \/ cur' = [cur EXCEPT !.h = q, !.dead = "NotAuthentic"] /\ got' = R!Ended("NotAuthentic") /\ rpc' = "idle"
      BY <2>3, <2>5, <2>7
    <3> QED BY <1>1, <1>3, <1>4, <1>5, <2>1, <2>5, <2>7, <3>1, SealedReadReceive
  <2> QED BY <1>2, <2>6, <2>7
<1>6. CASE b.kind = "EOS" /\ R!ReadEOS(b)
  BY <1>1, <1>3, <1>4, <1>6, ReadEOSReceive
<1>7. CASE b.kind = "Error" /\ rerr' = "Message" /\ R!SourceReturns(cur, "Message") /\ inStream' = inStream
  <2>1. "Message" \in Errors \ {"nil", "EOF"}
    BY DEF Errors
  <2> QED BY <1>1, <1>3, <1>7, <2>1, ErrorReceive
<1>8. CASE /\ b.kind \in KeyKinds \cup StreamKinds \cup {"EOF"}
           /\ R!SourceReturns(cur, "BlockType") /\ UNCHANGED <<rerr, inStream>>
  <2>1. "BlockType" \in Errors \ {"nil", "EOF"}
    BY DEF Errors
  <2>2. ~Going
    BY <1>1, <1>3, <1>4, <1>8, BeingRead, PlainBlocks DEF Going
  <2> QED BY <1>1, <1>3, <1>8, <2>1, <2>2, ErrorReceive
<1>9. CASE b.kind = "Skippable" /\ UNCHANGED <<rerr, inStream, cur, got, rpc>>
  BY <1>1, <1>3, <1>4, <1>9, SkippableReceive
<1>10. R!Kept("Message") = "Message"
  BY <1>2 DEF R!Kept
<1> QED BY <1>4, <1>5, <1>6, <1>7, <1>8, <1>9, <1>10
        DEF R!ReadBlock, R!Block, KeyKinds, StreamKinds, R!KeyKinds, R!StreamKinds

----------------------------------------------------------------------------
(* The pipe.                                                                *)

LEMMA ReaderReceives ==
  ASSUME FeedInv, ReceiveInv, ReaderStep
  PROVE  FeedInv' /\ ReceiveInv'
<1>1. Reading /\ R!Next
  <2>1. R!Next
    BY DEF ReaderStep
  <2>2. UNCHANGED <<wire, wown, ended, harm>>
    BY ReaderLeaves
  <2> QED BY <2>1, <2>2 DEF Reading
<1>2. FeedInv'
  BY <1>1, QuietKeepsFeed DEF Reading
<1>3. ReceiveInv'
  BY <1>1, SettersReceive, NextReceive, ReadReceive, SkipReceive, NextBlockReceive, SkipBlocksReceive,
     ReadBlockReceive, ReadAtEndReceive, Zenon DEF R!Next, R!Progress
<1> QED BY <1>2, <1>3

\* A Reader that has not started has received nothing.
LEMMA ReceiverFresh ==
  ASSUME R!Init, Len(wire) \in Nat
  PROVE  ReceiveInv
<1>1. /\ rpos = 1 /\ rerr = "nil" /\ inStream = FALSE /\ rkey = R!NoKey
      /\ rpc = "new" /\ cur = R!NoStream /\ got = <<>>
  BY DEF R!Init
<1>2. R!NoStream \in Streams /\ R!NoStream.kind = "none" /\ R!NoKey \in Nat
  BY DEF R!NoStream, Streams, Errors, R!NoKey
<1> HIDE DEF R!NoStream, R!NoKey
<1>3. ReaderTypes
  <2>1. rpos \in 1..(Len(wire) + 1) /\ rerr \in Errors
    BY <1>1 DEF Errors
  <2>2. inStream \in BOOLEAN
    BY <1>1
  <2>3. rkey \in Nat /\ cur \in Streams /\ got \in Seq(Entries) /\ (rpc \in {"next", "pass", "read"} => rerr = "nil")
    BY <1>1, <1>2
  <2> QED BY <2>1, <2>2, <2>3 DEF ReaderTypes
<1>4. got = <<>> => \A i \in 1..Len(got) : EntryFits(got[i])
  OBVIOUS
<1> QED BY <1>1, <1>2, <1>3, <1>4 DEF ReceiveInv

LEMMA ReceiveStart == Init => FeedInv /\ ReceiveInv
<1> SUFFICES ASSUME Init PROVE FeedInv /\ ReceiveInv
  OBVIOUS
<1>1. FeedInv /\ Len(wire) \in Nat
  BY FeedStart DEF FeedInv, D!HandlesInv, D!TypeOK
<1> QED BY <1>1, ReceiverFresh DEF Init

LEMMA ReceiveGoesOn == FeedInv /\ ReceiveInv /\ [Next]_vars => FeedInv' /\ ReceiveInv'
<1> SUFFICES ASSUME FeedInv, ReceiveInv, [Next]_vars PROVE FeedInv' /\ ReceiveInv'
  OBVIOUS
<1>1. /\ wire \in Seq(D!Blocks) /\ Len(wire) \in Nat /\ rpos \in 1..(Len(wire) + 1) /\ rpos \in Nat \ {0}
      /\ D!HandlesInv
  BY DEF FeedInv, D!HandlesInv, D!TypeOK, ReceiveInv, ReaderTypes
<1>2. ASSUME FeedInv', D!HandlesGrow, UNCHANGED rown, harm \subseteq harm',
             rpos - 1 <= Len(wire'), \A i \in 1..(rpos - 1) : wire'[i] = wire[i]
      PROVE  ReceiveInv'
  <2>1. D!HandlesInv'
    BY <1>2 DEF FeedInv
  <2> QED BY <1>1, <1>2, <2>1, FedKeepsReceived DEF Fed
<1>3. \A i \in 1..(rpos - 1) : i \in 1..Len(wire)
  BY <1>1
<1>4. CASE WriterStep
  <2>1. FeedInv' /\ D!HandlesGrow /\ \E t \in Seq(D!Blocks) : wire' = wire \o t
    BY <1>4, WriterSends
  <2>2. PICK t \in Seq(D!Blocks) : wire' = wire \o t
    BY <2>1
  <2>3. Len(wire') = Len(wire) + Len(t) /\ Len(t) \in Nat /\ \A i \in 1..Len(wire) : wire'[i] = wire[i]
    BY <1>1, <2>2, D!WireGrows, PipeAssumption
  <2>4. rpos - 1 <= Len(wire')
    BY <1>1, <2>3
  <2> QED BY <1>2, <1>3, <1>4, <2>1, <2>3, <2>4 DEF WriterStep
<1>5. CASE ReaderStep
  BY <1>5, ReaderReceives
<1>6. CASE Foreign
  <2>1. FeedInv' /\ D!HandlesGrow
    BY <1>6, ForeignKeepsFeed
  <2>2. Len(wire') = Len(wire) + 1 /\ \A i \in 1..Len(wire) : wire'[i] = wire[i]
    BY <1>1, <1>6, ForeignAlike
  <2>3. rpos - 1 <= Len(wire')
    BY <1>1, <2>2
  <2> QED BY <1>2, <1>3, <1>6, <2>1, <2>2, <2>3 DEF Foreign
<1>7. CASE HangUp \/ UNCHANGED vars
  <2>1. UNCHANGED <<wire, wown, harm, rown>> /\ (ended => ended') /\ (ended' => ended \/ closes # <<>>)
    BY <1>7 DEF HangUp, vars
  <2>2. FeedInv' /\ D!HandlesGrow
    BY <2>1, QuietKeepsFeed
  <2>3. rpos - 1 <= Len(wire')
    BY <1>1, <2>1
  <2> QED BY <1>2, <2>1, <2>2, <2>3
<1>8. CASE Cut
  <2>1. FeedInv' /\ D!HandlesGrow
    BY <1>1, <1>8, CutKeepsFeed
  <2>2. /\ rpos - 1 <= Len(wire')
        /\ \E n \in (rpos - 1)..Len(wire) : \A i \in 1..n : wire'[i] = wire[i]
    BY <1>1, <1>8, CutLeaves
  <2>3. \A i \in 1..(rpos - 1) : wire'[i] = wire[i]
    BY <1>1, <2>2
  <2> QED BY <1>2, <1>8, <2>1, <2>2, <2>3 DEF Cut
<1>9. CASE Damage
  <2>1. FeedInv' /\ D!HandlesGrow
    BY <1>1, <1>9, DamageKeepsFeed
  <2>2. Len(wire') = Len(wire) /\ \E i \in rpos..Len(wire) : \A j \in 1..Len(wire) : j # i => wire'[j] = wire[j]
    BY <1>1, <1>9, DamageAlike
  <2>3. \A j \in 1..(rpos - 1) : j \in 1..Len(wire) /\ \A i \in rpos..Len(wire) : j # i
    BY <1>1
  <2>4. rpos - 1 <= Len(wire') /\ \A j \in 1..(rpos - 1) : wire'[j] = wire[j]
    BY <1>1, <2>2, <2>3
  <2> QED BY <1>2, <1>9, <2>1, <2>4 DEF Damage
<1> QED BY <1>4, <1>5, <1>6, <1>7, <1>8, <1>9 DEF Next

\* What the invariant says of what was received.
EncryptedReceived ==
  \A i \in DOMAIN got : got[i].kind = "enc" =>
    /\ IsPrefix(got[i].data, Wrote(got[i].sid))
    /\ got[i].end = "EOF" =>
         /\ got[i].data = Wrote(got[i].sid)
         /\ got[i].sid \in DOMAIN handles /\ ~W!IsOpen(got[i].sid)

LEMMA BeginsIsPrefix ==
  ASSUME FeedInv, NEW data \in Seq(Chunks \cup {Bad}), NEW s, Begins(data, s)
  PROVE  IsPrefix(data, Wrote(s))
<1>1. CASE data = <<>>
  <2>1. Len(Wrote(s)) \in Nat
    <3>1. ASSUME s \in DOMAIN handles PROVE Len(handles[s].wrote) \in Nat
      <4>1. handles[s] \in D!Handles
        BY <3>1 DEF FeedInv, D!HandlesInv, D!TypeOK
      <4>2. handles[s].wrote \in Seq(Chunks \cup {Bad})
        BY <4>1 DEF D!Handles
      <4> QED BY <4>2
    <3> QED BY <3>1 DEF Wrote
  <2> QED BY <1>1, <2>1 DEF IsPrefix
<1>2. CASE data # <<>>
  <2>1. PICK w : w = Wrote(s)
    OBVIOUS
  <2>2. s \in DOMAIN handles /\ w = handles[s].wrote /\ D!Prolongs(w, data)
    BY <1>2, <2>1 DEF Begins, Wrote
  <2>3. handles[s] \in D!Handles
    BY <2>2 DEF FeedInv, D!HandlesInv, D!TypeOK
  <2>4. w \in Seq(Chunks \cup {Bad}) /\ Len(data) <= Len(w) /\ \A k \in 1..Len(data) : data[k] = w[k]
    BY <2>2, <2>3 DEF D!Handles, D!Prolongs
  <2>5. SubSeq(data, 1, Len(data)) = SubSeq(w, 1, Len(data))
    <3>1. Len(data) \in Nat /\ Len(w) \in Nat
      BY <2>4
    <3>2. SubSeq(data, 1, Len(data)) = [k \in 1..Len(data) |-> data[k]]
      BY <3>1 DEF SubSeq
    <3>3. SubSeq(w, 1, Len(data)) = [k \in 1..Len(data) |-> w[k]]
      BY <2>4, <3>1
    <3> QED BY <2>4, <3>2, <3>3
  <2> QED BY <2>1, <2>4, <2>5 DEF IsPrefix
<1> QED BY <1>1, <1>2

LEMMA ReceiveInvMeans ==
  ASSUME FeedInv, ReceiveInv
  PROVE  EncryptedReceived /\ (Disciplined => ReceivedIsPrefix /\ CompleteIsIntact)
<1>1. DOMAIN got = 1..Len(got) /\ \A i \in DOMAIN got : got[i] \in Entries /\ EntryFits(got[i])
  BY DEF ReceiveInv, ReaderTypes
<1>2. ASSUME NEW i \in DOMAIN got, NEW g, g = got[i], g.kind \in {"enc", "plain"}, g.kind = "plain" => Disciplined
      PROVE  /\ g.kind = "enc" \/ "damage" \notin harm => IsPrefix(g.data, Wrote(g.sid))
             /\ g.end = "EOF" /\ (g.kind = "enc" \/ ("cut" \notin harm /\ ~werr)) =>
                  g.data = Wrote(g.sid) /\ g.sid \in DOMAIN handles /\ ~W!IsOpen(g.sid)
  <2>1. EntryFits(g) /\ g.data \in Seq(Chunks \cup {Bad})
    BY <1>1, <1>2 DEF Entries
  <2>2. g.kind = "enc" \/ "damage" \notin harm => Begins(g.data, g.sid)
    BY <1>2, <2>1 DEF EntryFits
  <2>3. g.end = "EOF" /\ (g.kind = "enc" \/ ("cut" \notin harm /\ ~werr)) => AllOf(g.data, g.sid)
    BY <1>2, <2>1 DEF EntryFits
  <2>4. AllOf(g.data, g.sid) => g.data = Wrote(g.sid) /\ g.sid \in DOMAIN handles /\ ~W!IsOpen(g.sid)
    BY DEF AllOf, Wrote, W!IsOpen
  <2>5. Begins(g.data, g.sid) => IsPrefix(g.data, Wrote(g.sid))
    BY <2>1, BeginsIsPrefix
  <2> QED BY <2>2, <2>3, <2>4, <2>5
<1>3. EncryptedReceived
  BY <1>2 DEF EncryptedReceived
<1>4. ASSUME NEW i \in DOMAIN got, NEW g, g = got[i], g.kind = "nokey"
      PROVE  IsPrefix(g.data, Wrote(g.sid)) /\ g.end # "EOF"
  <2>1. EntryFits(g) /\ <<>> \in Seq(Chunks \cup {Bad})
    BY <1>1, <1>4
  <2>2. g.data = <<>> /\ g.end # "EOF" /\ Begins(<<>>, g.sid)
    BY <1>4, <2>1 DEF EntryFits, Begins
  <2> QED BY <2>1, <2>2, BeginsIsPrefix
<1>5. \A i \in DOMAIN got : got[i].kind \in {"plain", "enc", "nokey"}
  BY <1>1 DEF Entries
<1>6. Disciplined => ReceivedIsPrefix
  BY <1>2, <1>4, <1>5 DEF ReceivedIsPrefix
<1>7. Disciplined => CompleteIsIntact
  BY <1>2, <1>4, <1>5 DEF CompleteIsIntact
<1> QED BY <1>3, <1>6, <1>7

\* Whatever the caller of the Writer does, and whatever happens to the bytes, the
\* data of an encrypted stream that was opened is what was written to it, from its
\* beginning, and all of it when the stream ends with io.EOF; the stream is then
\* closed (reader.go:405; sio's DecryptReader; README.md:16).
THEOREM PipeEncryptedReceived == Spec => []EncryptedReceived
<1>1. Init => FeedInv /\ ReceiveInv
  BY ReceiveStart
<1>2. FeedInv /\ ReceiveInv => EncryptedReceived
  BY ReceiveInvMeans
<1> QED BY <1>1, <1>2, ReceiveGoesOn, PTL DEF Spec

\* When the caller of the Writer keeps its contract, nothing of any stream is lost
\* in the middle, repeated, reordered or taken from another, however the calls of
\* the Reader are made and whatever keys they have (reader.go:405-480).
THEOREM PipeReceivedIsPrefix == Spec => [](Disciplined => ReceivedIsPrefix)
<1>1. CASE Disciplined
  <2>1. FeedInv /\ ReceiveInv => ReceivedIsPrefix
    BY <1>1, ReceiveInvMeans
  <2> QED BY <2>1, ReceiveStart, ReceiveGoesOn, PTL DEF Spec
<1>2. CASE ~Disciplined
  BY <1>2, PTL
<1> QED BY <1>1, <1>2

\* And a stream that ends with io.EOF is all that was written to it, undamaged,
\* if the bytes arrived to the end or it was encrypted (reader.go:405, :467).
THEOREM PipeCompleteIsIntact == Spec => [](Disciplined => CompleteIsIntact)
<1>1. CASE Disciplined
  <2>1. FeedInv /\ ReceiveInv => CompleteIsIntact
    BY <1>1, ReceiveInvMeans
  <2> QED BY <2>1, ReceiveStart, ReceiveGoesOn, PTL DEF Spec
<1>2. CASE ~Disciplined
  BY <1>2, PTL
<1> QED BY <1>1, <1>2
----------------------------------------------------------------------------
(* A careful caller who reads an input that is whole: it ends with the EOF   *)
(* block or with an error message, and there is neither before.             *)

EndKinds == {"EOF", "Error"}
WholeInput ==
  /\ wire # <<>> /\ wire[Len(wire)].kind \in EndKinds
  /\ \A i \in DOMAIN wire : wire[i].kind # "Partial" /\ (wire[i].kind \in EndKinds => i = Len(wire))

\* The loops run on a block that is there and on the stream they are for; the last
\* block of the input is the last thing that the caller hears of.
AtStop == rpc = "idle" /\ R!Stopped
SoundLoop ==
  /\ rpos <= Len(wire) \/ AtStop
  /\ rpc # "failed" /\ (R!Stopped => rpc = "idle") /\ (rerr # "nil" => AtStop)
  /\ rpc = "new" => cur.kind = "none"
  /\ rpc \in {"next", "pass"} => cur.kind = "none" \/ cur.done
  /\ rpc \in {"skip", "read"} => cur.kind # "none" /\ ~cur.done

\* The Stream in hand has been read from its header on; what went into the
\* checksum is what the handle sealed, and sio holds the last fragment back.
HeaderOf(h, c) ==
  /\ wire[h].kind = (IF c.kind = "enc" THEN "EncStream" ELSE "PlainStream") /\ wire[h].sid = c.sid
  /\ c.kind = "enc" => c.nonce = wire[h].nonce
  /\ D!Inside(h, rpos) /\ D!NumData(h, rpos - 1) = Len(c.h)
  /\ \A k \in 1..Len(c.h) : c.sid \in D!Opened /\ c.h[k] = handles[c.sid].sum[k]
HeldBack(c) ==
  IF c.h = <<>> THEN c.pend = <<>> /\ c.frag = 0
  ELSE c.pend = <<c.h[Len(c.h)]>> /\ c.frag = Len(c.h) - 1
InFull(c) ==
  /\ c.dead = "nil" /\ ~c.isEOF /\ (c.kind = "enc" => HeldBack(c))
  /\ \E h \in 1..(rpos - 1) : HeaderOf(h, c)
SoundStream ==
  cur.kind \in {"plain", "enc"} /\ ~cur.done /\ rpc \in {"idle", "read"} /\ ~R!Stopped => InFull(cur)

\* No stream was ever reported to be broken, and what NextStream reports is there.
Faults   == {"NotAuthentic", "Checksum", "BlockType", "Unexpected"}
NoFaults == \A i \in 1..Len(got) : got[i].end \notin Faults
Told ==
  /\ ret.err # "Unexpected" /\ (ret.err = "Message" => wire[Len(wire)].kind = "Error" /\ rpos = Len(wire) + 1)
  /\ ReportedEnd => wire[Len(wire)].kind = "EOF" /\ rpos = Len(wire) + 1

\* Every stream that was passed was handed out or needs a private key; and the
\* Reader has no key only if the last one needs a private key.
Known(s) == Locked(s) \/ \E i \in 1..Len(got) : got[i].sid = s
Accounted ==
  \A h \in 1..(rpos - 1) : wire[h].kind \in StreamKinds /\ wire[h].sid \in DOMAIN handles =>
    Known(wire[h].sid)
KeyKept ==
  rkey = NoKey => \A k : KeyBefore(rpos, k) =>
    \E i \in 1..(rpos - 1) : wire[i].kind = "EncryptedKey" /\ wire[i].key = k
Passed == (R!Stopped => ReportedEnd) => Accounted /\ (~R!Stopped => KeyKept)

Sound == SoundLoop /\ SoundStream /\ NoFaults /\ Told /\ Passed

\* What such a caller finds, and what a step of the Reader leaves alone.
OwnData == \A s \in DOMAIN handles : handles[s].wrote \in Seq(Chunks)
Certain ==
  /\ Reading /\ Careful /\ Disciplined /\ "damage" \notin harm
  /\ WholeInput /\ OwnData /\ ReaderInv /\ HeadersFit /\ Sound

LEMMA CertainFinds ==
  ASSUME Certain
  PROVE  /\ wire \in Seq(D!Blocks) /\ Len(wire) \in Nat /\ DOMAIN wire = 1..Len(wire) /\ wire # <<>>
         /\ wire' = wire /\ handles' = handles /\ werr' = werr
         /\ rpos \in 1..(Len(wire) + 1) /\ rpos \in Nat \ {0} /\ ReaderTypes
         /\ rpc # "idle" \/ ~R!Stopped =>
              /\ rpos \in 1..Len(wire) /\ R!HasBlock /\ ~R!Drained /\ rerr = "nil" /\ ~R!Stopped
              /\ Accounted /\ KeyKept
<1>1. wire \in Seq(D!Blocks) /\ Len(wire) \in Nat /\ DOMAIN wire = 1..Len(wire) /\ wire # <<>>
  BY DEF Certain, Reading, FeedInv, D!HandlesInv, D!TypeOK, WholeInput
<1>2. wire' = wire /\ handles' = handles /\ werr' = werr
  BY DEF Certain, Reading, wown
<1>3. ReaderTypes /\ rpos \in 1..(Len(wire) + 1)
  BY DEF Certain, Reading, ReceiveInv, ReaderTypes
<1>4. ASSUME rpc # "idle" \/ ~R!Stopped
      PROVE  rpos \in 1..Len(wire) /\ rerr = "nil" /\ ~R!Stopped /\ Accounted /\ KeyKept
  BY <1>1, <1>3, <1>4 DEF Certain, Sound, SoundLoop, AtStop, Passed
<1>5. rpos \in 1..Len(wire) => R!HasBlock
  BY <1>1 DEF Certain, WholeInput, R!HasBlock
<1> QED BY <1>1, <1>2, <1>3, <1>4, <1>5 DEF R!Drained

\* A block that is not the last is followed by another.
LEMMA AnotherFollows ==
  ASSUME Certain, rpos \in 1..Len(wire), wire[rpos].kind \notin EndKinds
  PROVE  rpos + 1 \in 1..Len(wire)
<1>1. rpos # Len(wire) /\ Len(wire) \in Nat
  BY CertainFinds DEF Certain, WholeInput
<1> QED BY <1>1

\* What a call that returns tells the caller.
LEMMA ReturnSays ==
  ASSUME NEW call, NEW e, R!Return(call, e)
  PROVE  /\ rpc' = "idle" /\ ret'.err = e
         /\ R!Stopped' <=> e \in R!Failures \/ (e = "EOF" /\ call \in {"next", "skip"})
         /\ ReportedEnd' <=> call = "next" /\ e = "EOF"
<1>1. rpc' = "idle" /\ ret' = [call |-> call, err |-> e]
  BY DEF R!Return
<1>2. ret'.err = e /\ ret'.call = call
  BY <1>1
<1>3. R!Stopped' <=> e \in R!Failures \/ (e = "EOF" /\ call \in {"next", "skip"})
  BY <1>1, <1>2 DEF R!Stopped, R!Failures
<1>4. ReportedEnd' <=> call = "next" /\ e = "EOF"
  BY <1>1, <1>2 DEF ReportedEnd
<1> QED BY <1>1, <1>2, <1>3, <1>4

----------------------------------------------------------------------------
(* What has been passed.                                                    *)

SidsKept == \A i \in 1..Len(got) : i \in 1..Len(got') /\ got'[i].sid = got[i].sid

LEMMA SameLocks ==
  ASSUME Certain
  PROVE  \A s : Locked(s)' <=> Locked(s)
<1>1. wire' = wire /\ handles' = handles
  BY CertainFinds
<1> QED BY <1>1 DEF Locked

\* Of the streams that were passed before.
LEMMA KnownStays ==
  ASSUME Certain, SidsKept, NEW s, Known(s)
  PROVE  Known(s)'
<1>1. CASE Locked(s)
  BY <1>1, SameLocks DEF Known
<1>2. CASE \E i \in 1..Len(got) : got[i].sid = s
  BY <1>2 DEF Known, SidsKept
<1> QED BY <1>1, <1>2 DEF Known

LEMMA AccountedIf ==
  ASSUME wire' = wire, handles' = handles, NEW q, q = rpos',
         \A h \in 1..(q - 1) : wire[h].kind \in StreamKinds /\ wire[h].sid \in DOMAIN handles =>
           \A s : s = wire[h].sid => Known(s)'
  PROVE  Accounted'
BY DEF Accounted, Known, Locked

\* A step that passes neither a key nor a header.
LEMMA NothingCounted ==
  ASSUME Certain, Accounted, KeyKept, SidsKept, rkey' = rkey,
         rpos' = rpos \/ (rpos' = rpos + 1 /\ rpos \in 1..Len(wire) /\ wire[rpos].kind \notin KeyKinds \cup StreamKinds)
  PROVE  Accounted' /\ KeyKept'
<1>1. wire' = wire /\ handles' = handles
  BY CertainFinds
<1>2. PICK r \in Nat \ {0} : r = rpos
  BY CertainFinds
<1>3. PICK q \in Nat : /\ q = rpos' /\ (q = r \/ q = r + 1)
                       /\ q # r => wire[r].kind \notin KeyKinds \cup StreamKinds
  BY <1>2
<1>4. /\ \A h \in 1..(q - 1) : h \in 1..(r - 1) \/ (h = r /\ q # r)
      /\ \A i \in 1..(r - 1) : i \in 1..(q - 1)
      /\ \A j \in Nat : \A m \in (j + 1)..(r - 1) : m \in (j + 1)..(q - 1)
  <2>1. q = r \/ q = r + 1
    BY <1>3
  <2>2. CASE q = r
    BY <2>2
  <2>3. CASE q = r + 1
    BY <2>3
  <2> QED BY <2>1, <2>2, <2>3
<1>5. Accounted'
  <2>1. ASSUME NEW h \in 1..(q - 1), wire[h].kind \in StreamKinds, wire[h].sid \in DOMAIN handles,
               NEW s, s = wire[h].sid
        PROVE  Known(s)'
    <3>1. h \in 1..(r - 1)
      BY <1>3, <1>4, <2>1
    <3>2. Known(s)
      BY <1>2, <2>1, <3>1 DEF Accounted
    <3> QED BY <3>2, KnownStays
  <2> QED BY <1>1, <1>3, <2>1, AccountedIf
<1>6. ASSUME NEW k, KeyBefore(rpos, k)' PROVE KeyBefore(rpos, k)
  <2>1. PICK j \in 1..(q - 1) :
          wire[j].kind \in KeyKinds /\ wire[j].key = k /\ \A m \in (j + 1)..(q - 1) : wire[m].kind \notin KeyKinds
    BY <1>1, <1>3, <1>6 DEF KeyBefore
  <2>2. j \in 1..(r - 1)
    <3>1. wire[j].kind \in KeyKinds \cup StreamKinds
      BY <2>1
    <3> QED BY <1>3, <1>4, <3>1
  <2>4. j \in Nat
    BY <2>2
  <2>3. \A m \in (j + 1)..(r - 1) : m \in (j + 1)..(q - 1)
    BY <1>4, <2>4
  <2> QED BY <1>2, <2>1, <2>2, <2>3 DEF KeyBefore
<1>7. KeyKept'
  BY <1>1, <1>2, <1>3, <1>4, <1>6 DEF KeyKept
<1> QED BY <1>5, <1>7

\* A key, which needs a private key if it is not kept.
LEMMA KeyCounted ==
  ASSUME Certain, Accounted, SidsKept, rpos' = rpos + 1, rpos \in 1..Len(wire),
         wire[rpos].kind \in KeyKinds, rkey' # NoKey \/ wire[rpos].kind = "EncryptedKey"
  PROVE  Accounted' /\ KeyKept'
<1>1. wire' = wire /\ handles' = handles /\ rpos \in Nat \ {0}
  BY CertainFinds
<1>2. \A h \in 1..(rpos' - 1) : h \in 1..(rpos - 1) \/ wire[h].kind \notin StreamKinds
  BY <1>1 DEF KeyKinds, StreamKinds
<1>3. Accounted'
  <2>1. ASSUME NEW h \in 1..(rpos' - 1), wire[h].kind \in StreamKinds, wire[h].sid \in DOMAIN handles,
               NEW s, s = wire[h].sid
        PROVE  Known(s)'
    <3>1. Known(s)
      BY <1>2, <2>1 DEF Accounted
    <3> QED BY <3>1, KnownStays
  <2>2. PICK q : q = rpos'
    OBVIOUS
  <2> QED BY <1>1, <2>1, <2>2, AccountedIf
<1>4. ASSUME NEW k, KeyBefore(rpos, k)' PROVE wire[rpos].key = k
  <2>1. PICK j \in 1..(rpos' - 1) :
          wire[j].kind \in KeyKinds /\ wire[j].key = k /\ \A m \in (j + 1)..(rpos' - 1) : wire[m].kind \notin KeyKinds
    BY <1>1, <1>4 DEF KeyBefore
  <2>2. rpos \notin (j + 1)..(rpos' - 1)
    BY <2>1
  <2>3. j = rpos
    BY <1>1, <2>2
  <2> QED BY <2>1, <2>3
<1>5. rpos \in 1..(rpos' - 1)
  BY <1>1
<1>6. KeyKept'
  BY <1>1, <1>4, <1>5 DEF KeyKept
<1> QED BY <1>3, <1>6

\* A header that is handed out, or cannot be read for want of a key: then it is
\* that of a locked stream.
LEMMA HeaderCounted ==
  ASSUME Certain, Accounted, KeyKept, SidsKept, rkey' = rkey, rpos' = rpos + 1, rpos \in 1..Len(wire),
         wire[rpos].kind \in StreamKinds,
         \/ \E i \in 1..Len(got') : got'[i].sid = wire[rpos].sid
         \/ wire[rpos].kind = "EncStream" /\ rkey = NoKey
  PROVE  Accounted' /\ KeyKept'
<1>1. wire' = wire /\ handles' = handles /\ rpos \in Nat \ {0} /\ rpos \in DOMAIN wire
  BY CertainFinds
<1>2. PICK s : s = wire[rpos].sid
  OBVIOUS
<1>3. ASSUME wire[rpos].kind = "EncStream", rkey = NoKey, s \in DOMAIN handles PROVE Locked(s)
  <2>1. KeyBefore(rpos, handles[s].key)
    BY <1>1, <1>2, <1>3 DEF Certain, HeadersFit
  <2>2. PICK i \in 1..(rpos - 1) : wire[i].kind = "EncryptedKey" /\ wire[i].key = handles[s].key
    BY <1>3, <2>1 DEF KeyKept
  <2>3. i \in DOMAIN wire
    BY CertainFinds
  <2>4. D!HeadersNamed
    BY DEF Certain, Reading, FeedInv, StreamsKept
  <2>5. wire[rpos] = D!Header(s)
    BY <1>1, <1>2, <1>3, <2>4 DEF D!HeadersNamed, D!KindAt, D!Opened, D!StreamKinds
  <2>6. handles[s].enc
    BY <1>3, <2>5 DEF D!Header, D!PlainStream
  <2> QED BY <2>2, <2>3, <2>6 DEF Locked
<1>4. \A h \in 1..(rpos' - 1) : h \in 1..(rpos - 1) \/ h = rpos
  BY <1>1
<1>5. Accounted'
  <2>1. ASSUME NEW h \in 1..(rpos' - 1), wire[h].kind \in StreamKinds, wire[h].sid \in DOMAIN handles,
               NEW t, t = wire[h].sid
        PROVE  Known(t)'
    <3>1. CASE h \in 1..(rpos - 1)
      <4>1. Known(t)
        BY <2>1, <3>1 DEF Accounted
      <4> QED BY <4>1, KnownStays
    <3>2. CASE h = rpos
      <4>1. t = s
        BY <1>2, <2>1, <3>2
      <4>2. CASE \E i \in 1..Len(got') : got'[i].sid = wire[rpos].sid
        BY <1>2, <4>1, <4>2 DEF Known
      <4>3. CASE wire[rpos].kind = "EncStream" /\ rkey = NoKey
        <5>1. Locked(s)
          BY <1>2, <1>3, <2>1, <3>2, <4>3
        <5> QED BY <4>1, <5>1, KnownStays DEF Known
      <4> QED BY <4>2, <4>3
    <3> QED BY <1>4, <3>1, <3>2
  <2>2. PICK q : q = rpos'
    OBVIOUS
  <2> QED BY <1>1, <2>1, <2>2, AccountedIf
<1>6. ASSUME NEW k, KeyBefore(rpos, k)' PROVE KeyBefore(rpos, k)
  <2>1. PICK j \in 1..(rpos' - 1) :
          wire[j].kind \in KeyKinds /\ wire[j].key = k /\ \A m \in (j + 1)..(rpos' - 1) : wire[m].kind \notin KeyKinds
    BY <1>1, <1>6 DEF KeyBefore
  <2>2. j # rpos
    BY <2>1 DEF KeyKinds, StreamKinds
  <2>3. j \in 1..(rpos - 1) /\ \A m \in (j + 1)..(rpos - 1) : m \in (j + 1)..(rpos' - 1)
    BY <1>1, <2>1, <2>2
  <2> QED BY <2>1, <2>3 DEF KeyBefore
<1>7. \A i \in 1..(rpos - 1) : i \in 1..(rpos' - 1)
  BY <1>1
<1>8. KeyKept'
  BY <1>1, <1>6, <1>7 DEF KeyKept
<1> QED BY <1>5, <1>8
----------------------------------------------------------------------------
(* How a step of the Reader ends.                                           *)

\* The last entry gets more data or an end that is no fault.
LEMMA LastGrows ==
  ASSUME Certain, NEW body, NEW e, e \notin Faults, NEW new, LastIs(new), More(got[Len(got)], body, e, new),
         got # <<>>
  PROVE  NoFaults' /\ SidsKept
<1>1. got \in Seq(Entries) /\ Len(got) \in Nat /\ Len(got) \in 1..Len(got)
  BY CertainFinds DEF ReaderTypes
<1>2. Len(got') = Len(got) /\ got'[Len(got)] = new /\ \A i \in 1..Len(got) : i # Len(got) => got'[i] = got[i]
  BY DEF LastIs
<1>3. \A i \in 1..Len(got) : got[i].end \notin Faults
  BY DEF Certain, Sound, NoFaults
<1>4. new.sid = got[Len(got)].sid /\ new.end \notin Faults
  BY <1>1, <1>3 DEF More
<1>5. NoFaults'
  BY <1>2, <1>3, <1>4 DEF NoFaults, Faults
<1>6. SidsKept
  BY <1>2, <1>4 DEF SidsKept
<1> QED BY <1>5, <1>6

\* Nothing was received.
LEMMA GotStays ==
  ASSUME Certain, got' = got
  PROVE  NoFaults' /\ SidsKept
BY DEF Certain, Sound, NoFaults, SidsKept, Faults

\* A new stream.
LEMMA GotAnother ==
  ASSUME Certain, NEW g, g.end \notin Faults, got' = Append(got, g)
  PROVE  NoFaults' /\ SidsKept /\ \E i \in 1..Len(got') : got'[i] = g
<1>1. PICK n \in Nat : n = Len(got)
  BY CertainFinds DEF ReaderTypes
<1>2. got \in Seq(Entries)
  BY CertainFinds DEF ReaderTypes
<1>3. Len(got') = n + 1 /\ got'[n + 1] = g /\ \A i \in 1..n : got'[i] = got[i]
  BY <1>1, <1>2
<1>4. \A i \in 1..(n + 1) : i \in 1..n \/ i = n + 1
  OBVIOUS
<1>5. \A i \in 1..n : i \in 1..(n + 1)
  OBVIOUS
<1>6. \A i \in 1..n : got[i].end \notin Faults
  BY <1>1 DEF Certain, Sound, NoFaults
<1>7. NoFaults'
  BY <1>3, <1>4, <1>6 DEF NoFaults, Faults
<1>8. SidsKept
  BY <1>1, <1>3, <1>5 DEF SidsKept
<1> QED BY <1>1, <1>3, <1>7, <1>8

\* A call returns and the caller makes no other.
LEMMA CallStops ==
  ASSUME Certain, rpc' = "idle", R!Stopped', NoFaults', Told', ReportedEnd' => Accounted'
  PROVE  Sound'
<1>1. SoundLoop'
  BY DEF SoundLoop, AtStop
<1>2. SoundStream'
  BY DEF SoundStream
<1>3. Passed'
  BY DEF Passed
<1> QED BY <1>1, <1>2, <1>3 DEF Sound

\* A call goes on, or returns and the caller goes on.
LEMMA CallGoesOn ==
  ASSUME Certain, ~R!Stopped', rerr' = "nil", rpos' <= Len(wire), NoFaults', Accounted', KeyKept',
         rpc' \in {"idle", "next", "pass", "skip", "read"},
         rpc' \in {"next", "pass"} => cur'.kind = "none" \/ cur'.done,
         rpc' \in {"skip", "read"} => cur'.kind # "none" /\ ~cur'.done,
         SoundStream'
  PROVE  Sound'
<1>1. SoundLoop'
  <2>1. wire' = wire
    BY CertainFinds
  <2> QED BY <2>1 DEF SoundLoop
<1>2. Told'
  BY DEF Told, ReportedEnd, R!Stopped, R!Failures
<1>3. Passed'
  BY DEF Passed
<1> QED BY <1>1, <1>2, <1>3 DEF Sound

\* A call that returns with an error of the Reader.
LEMMA CallBreaks ==
  ASSUME Certain, NEW call, NEW e, R!Return(call, e), e \in R!Failures, NoFaults',
         e # "Unexpected", e = "Message" => rpos \in 1..Len(wire) /\ wire[rpos].kind = "Error" /\ rpos' = rpos + 1
  PROVE  Sound'
<1>1. rpc' = "idle" /\ ret'.err = e /\ R!Stopped'
  BY ReturnSays
<1>2. ~ReportedEnd'
  BY ReturnSays DEF R!Failures
<1>3. wire' = wire
  BY CertainFinds
<1>4. e = "Message" => wire[Len(wire)].kind = "Error" /\ rpos' = Len(wire) + 1
  <2>1. wire[rpos].kind = "Error" /\ rpos \in 1..Len(wire) => rpos = Len(wire)
    BY CertainFinds DEF Certain, WholeInput, EndKinds
  <2> QED BY <2>1
<1>5. Told'
  BY <1>1, <1>2, <1>3, <1>4 DEF Told
<1> QED BY <1>1, <1>2, <1>5, CallStops

----------------------------------------------------------------------------
(* The stream in hand.                                                      *)

\* The Stream with the next block of its stream.
Follows(c, d) ==
  /\ d.sid = c.sid /\ d.kind = c.kind /\ d.nonce = c.nonce
  /\ IF wire[rpos].kind = "Datablock"
     THEN /\ Len(d.h) = Len(c.h) + 1 /\ d.h[Len(c.h) + 1] = wire[rpos].payload
          /\ \A k \in 1..Len(c.h) : d.h[k] = c.h[k]
     ELSE d.h = c.h

\* A block of the stream in hand is one of its handle.
LEMMA HandAt ==
  ASSUME Certain, NEW c, NEW h \in 1..(rpos - 1), HeaderOf(h, c), rpos \in 1..Len(wire)
  PROVE  /\ h \in DOMAIN wire /\ rpos \in DOMAIN wire /\ h < rpos
         /\ D!Placed(h, rpos) /\ D!Carried(h, rpos) /\ wire[h].sid = c.sid
         /\ Len(c.h) \in Nat /\ D!NumData(h, rpos - 1) = Len(c.h)
         /\ D!NumData(h, rpos) = IF wire[rpos].kind = "Datablock" THEN Len(c.h) + 1 ELSE Len(c.h)
<1>1. wire \in Seq(D!Blocks) /\ rpos \in Nat /\ DOMAIN wire = 1..Len(wire) /\ Len(wire) \in Nat
  BY CertainFinds
<1>2. h \in DOMAIN wire /\ rpos \in DOMAIN wire /\ h < rpos
  BY <1>1
<1>3. D!DataPlaced /\ D!DataCarried
  BY DEF Certain, Reading, FeedInv, StreamsKept
<1>4. wire[h].kind \in StreamKinds /\ wire[h].sid = c.sid
  BY DEF HeaderOf, StreamKinds
<1>5. D!Within(h, rpos)
  BY <1>2, <1>4 DEF HeaderOf, D!Within, D!KindAt, StreamKinds, D!StreamKinds
<1>6. D!Placed(h, rpos) /\ D!Carried(h, rpos)
  BY <1>2, <1>3, <1>5 DEF D!DataPlaced, D!DataCarried
<1>7. D!NumData(h, rpos - 1) = Len(c.h)
  BY DEF HeaderOf
<1>8. /\ wire[rpos].kind = "Datablock" => D!NumData(h, rpos) = D!NumData(h, rpos - 1) + 1
      /\ wire[rpos].kind # "Datablock" => D!NumData(h, rpos) = D!NumData(h, rpos - 1)
      /\ D!NumData(h, rpos - 1) \in Nat
  BY <1>1, CountNext
<1> QED BY <1>2, <1>4, <1>6, <1>7, <1>8

LEMMA HandGoesOn ==
  ASSUME Certain, NEW c, NEW h \in 1..(rpos - 1), HeaderOf(h, c), rpos \in 1..Len(wire), rpos' = rpos + 1,
         wire[rpos].kind \notin D!Marks, NEW d, Follows(c, d)
  PROVE  HeaderOf(h, d)' /\ h \in 1..(rpos' - 1)
<1>1. wire \in Seq(D!Blocks) /\ wire' = wire /\ handles' = handles /\ rpos \in Nat /\ (rpos + 1) - 1 = rpos
  BY CertainFinds
<1>2. D!Inside(h, rpos)'
  <2>1. \A m \in (h + 1)..rpos : m = rpos \/ m \in (h + 1)..(rpos - 1)
    BY <1>1
  <2>2. \A m \in (h + 1)..rpos : wire[m].kind \notin D!Marks
    BY <2>1 DEF HeaderOf, D!Inside, D!KindAt
  <2> QED BY <1>1, <2>2 DEF D!Inside, D!KindAt
<1>3. D!NumData(h, rpos - 1)' = D!NumData(h, rpos)
  BY <1>1 DEF D!NumData, D!DataAt, D!KindAt
<1>4. PICK n \in Nat : n = Len(c.h) /\ D!NumData(h, rpos) = (IF wire[rpos].kind = "Datablock" THEN n + 1 ELSE n)
  BY HandAt
<1>5. D!NumData(h, rpos) = Len(d.h)
  BY <1>4 DEF Follows
<1>6. ASSUME NEW k \in 1..Len(d.h)
      PROVE  d.sid \in D!Opened /\ d.h[k] = handles[d.sid].sum[k]
  <2>1. \A i \in 1..n : c.sid \in D!Opened /\ c.h[i] = handles[c.sid].sum[i]
    BY <1>4 DEF HeaderOf
  <2>2. CASE wire[rpos].kind = "Datablock"
    <3>1. \A i \in 1..(n + 1) : i \in 1..n \/ i = n + 1
      OBVIOUS
    <3>2. c.sid \in D!Opened /\ wire[rpos].payload = handles[c.sid].sum[n + 1]
      BY <1>4, <2>2, HandAt DEF D!Placed, D!Carried, D!KindAt
    <3>3. Len(d.h) = n + 1 /\ d.h[n + 1] = wire[rpos].payload /\ \A i \in 1..n : d.h[i] = c.h[i]
      BY <1>4, <2>2 DEF Follows
    <3>4. d.sid = c.sid
      BY DEF Follows
    <3> QED BY <1>6, <2>1, <3>1, <3>2, <3>3, <3>4
  <2>3. CASE wire[rpos].kind # "Datablock"
    BY <1>4, <1>6, <2>1, <2>3 DEF Follows
  <2> QED BY <2>2, <2>3
<1>7. /\ wire'[h].kind = (IF d.kind = "enc" THEN "EncStream" ELSE "PlainStream") /\ wire'[h].sid = d.sid
      /\ d.kind = "enc" => d.nonce = wire'[h].nonce
  BY <1>1 DEF HeaderOf, Follows
<1>8. h \in 1..(rpos' - 1)
  BY <1>1
<1>9. D!Opened' = D!Opened
  BY <1>1 DEF D!Opened
<1> QED BY <1>1, <1>2, <1>3, <1>5, <1>6, <1>7, <1>8, <1>9 DEF HeaderOf
\* The handle of the stream in hand, and its payloads.
LEMMA HandIs ==
  ASSUME Certain, NEW h \in 1..(rpos - 1), HeaderOf(h, cur), rpos \in 1..Len(wire),
         cur.sid \in D!Opened, NEW hd, hd = handles[cur.sid]
  PROVE  /\ hd \in D!Handles /\ D!HandleFits(hd) /\ hd.wrote \in Seq(Chunks) /\ hd.sum \in Seq(D!Payloads)
         /\ hd.enc \in BOOLEAN /\ hd.sealed \in BOOLEAN /\ hd.frag \in Nat
         /\ cur.kind = "enc" => hd.enc /\ cur.key = hd.key /\ cur.nonce = hd.nonce
         /\ cur.h \in Seq(D!Payloads)
<1>1. D!HandlesInv /\ D!HeadersNamed /\ cur \in Streams
  BY CertainFinds DEF Certain, Reading, FeedInv, StreamsKept, ReaderTypes
<1>2. hd \in D!Handles /\ D!HandleFits(hd)
  BY <1>1 DEF D!HandlesInv, D!TypeOK, D!Opened
<1>3. hd.sum \in Seq(D!Payloads) /\ hd.enc \in BOOLEAN /\ hd.sealed \in BOOLEAN /\ hd.frag \in Nat
  BY <1>2 DEF D!Handles
<1>4. hd.wrote \in Seq(Chunks)
  BY DEF Certain, OwnData, D!Opened
<1>5. cur.h \in Seq(D!Payloads)
  BY <1>1 DEF Streams
<1>6. ASSUME cur.kind = "enc" PROVE hd.enc /\ cur.key = hd.key /\ cur.nonce = hd.nonce
  <2>1. h \in DOMAIN wire /\ wire[h].kind = "EncStream" /\ wire[h].sid = cur.sid /\ cur.nonce = wire[h].nonce
    BY <1>6, HandAt DEF HeaderOf
  <2>2. wire[h] = D!Header(cur.sid)
    BY <1>1, <2>1 DEF D!HeadersNamed, D!KindAt, D!StreamKinds
  <2>3. hd.enc
    BY <2>1, <2>2 DEF D!Header, D!PlainStream
  <2>4. cur.nonce = hd.nonce
    BY <2>1, <2>2, <2>3 DEF D!Header, D!EncStream
  <2>5. cur.key = hd.key
    BY <1>6 DEF Certain, ReaderInv, HasItsKey, D!Opened
  <2> QED BY <2>3, <2>4, <2>5
<1> QED BY <1>2, <1>3, <1>4, <1>5, <1>6

\* The fragment that sio holds back opens when the next block shows whether it is
\* the last.
LEMMA HeldOpens ==
  ASSUME Certain, NEW h \in 1..(rpos - 1), HeaderOf(h, cur), rpos \in 1..Len(wire), cur.kind = "enc",
         HeldBack(cur), cur.h # <<>>, NEW last \in BOOLEAN,
         wire[rpos].kind = (IF last THEN "EOS" ELSE "Datablock")
  PROVE  R!Opens(cur.pend[1], last)
<1>1. cur \in Streams
  BY CertainFinds DEF ReaderTypes
<1>2. PICK n \in Nat \ {0} : n = Len(cur.h)
  BY <1>1 DEF Streams
<1>3. cur.sid \in D!Opened /\ cur.h[n] = handles[cur.sid].sum[n]
  BY <1>2 DEF HeaderOf
<1>4. PICK hd : hd = handles[cur.sid]
  OBVIOUS
<1>5. /\ hd \in D!Handles /\ D!HandleFits(hd) /\ hd.wrote \in Seq(Chunks) /\ hd.sum \in Seq(D!Payloads)
      /\ hd.enc /\ cur.key = hd.key /\ cur.nonce = hd.nonce /\ hd.sealed \in BOOLEAN /\ hd.frag \in Nat
  BY <1>3, <1>4, HandIs
<1>6. n \in 1..Len(hd.sum) /\ (last <=> hd.sealed /\ n = Len(hd.sum))
  <2>1. D!Placed(h, rpos) /\ wire[h].sid = cur.sid /\ Len(hd.sum) \in Nat
        /\ D!NumData(h, rpos) = IF wire[rpos].kind = "Datablock" THEN n + 1 ELSE n
    BY <1>2, <1>5, HandAt
  <2>2. CASE last
    <3>1. ~D!IsOpen(cur.sid) /\ n = Len(hd.sum)
      BY <1>4, <2>1, <2>2 DEF D!Placed, D!KindAt
    <3>2. hd.sealed
      BY <1>4, <1>5, <3>1 DEF D!HandleFits, D!IsOpen
    <3> QED BY <2>2, <3>1, <3>2
  <2>3. CASE ~last
    <3>1. n + 1 \in 1..Len(hd.sum)
      BY <1>4, <2>1, <2>3 DEF D!Placed, D!KindAt
    <3> QED BY <2>1, <2>3, <3>1
  <2> QED BY <2>2, <2>3
<1>7. cur.pend[1] = hd.sum[n]
  BY <1>2, <1>3, <1>4 DEF HeldBack
<1>8. hd.sum[n] = D!PayloadOf(hd, n)
  BY <1>5, <1>6 DEF D!HandleFits
<1>9. PICK p : p = cur.pend[1]
  OBVIOUS
<1>10. /\ p.key = cur.key /\ p.nonce = cur.nonce /\ p.frag = n - 1
       /\ p.body = IF n <= Len(hd.wrote) THEN <<hd.wrote[n]>> ELSE <<>>
  BY <1>5, <1>7, <1>8, <1>9 DEF D!PayloadOf, D!Sealed
<1>11. p.last = (hd.sealed /\ n = Len(hd.sum))
  BY <1>5, <1>7, <1>8, <1>9 DEF D!PayloadOf, D!Sealed
<1>12. p.last = last
  BY <1>6, <1>11
<1>13. cur.frag = n - 1
  BY <1>2 DEF HeldBack
<1>14. ASSUME NEW i \in DOMAIN p.body PROVE p.body[i] # Bad
  <2>1. CASE n <= Len(hd.wrote)
    <3>1. hd.wrote[n] \in Chunks
      BY <1>5, <2>1
    <3>2. i = 1 /\ p.body[i] = hd.wrote[n]
      BY <1>10, <1>14, <2>1
    <3> QED BY <3>1, <3>2, PipeAssumption DEF PipeAssumption
  <2>2. CASE ~(n <= Len(hd.wrote))
    BY <1>10, <1>14, <2>2
  <2> QED BY <2>1, <2>2
<1> QED BY <1>9, <1>10, <1>12, <1>13, <1>14 DEF R!Opens

\* At the end of the stream the checksum fits, and sio has a fragment.
LEMMA HandComplete ==
  ASSUME Certain, NEW h \in 1..(rpos - 1), HeaderOf(h, cur), rpos \in 1..Len(wire), wire[rpos].kind = "EOS"
  PROVE  R!SumMatches(wire[rpos]) /\ (cur.kind = "enc" => cur.h # <<>>)
<1>1. cur.sid \in D!Opened /\ ~D!IsOpen(cur.sid) /\ wire[rpos].sum = handles[cur.sid].sum
      /\ Len(cur.h) = Len(handles[cur.sid].sum) /\ Len(cur.h) \in Nat
  BY HandAt DEF D!Placed, D!KindAt
<1>2. PICK hd : hd = handles[cur.sid]
  OBVIOUS
<1>3. /\ D!HandleFits(hd) /\ hd.sum \in Seq(D!Payloads) /\ cur.h \in Seq(D!Payloads) /\ hd.frag \in Nat
      /\ cur.kind = "enc" => hd.enc
  BY <1>1, <1>2, HandIs
<1>4. \A k \in 1..Len(cur.h) : cur.h[k] = hd.sum[k]
  BY <1>2 DEF HeaderOf
<1>5. cur.h = hd.sum
  BY <1>1, <1>2, <1>3, <1>4, SeqEqual
<1>6. ASSUME cur.kind = "enc" PROVE cur.h # <<>>
  <2>1. Len(hd.sum) = hd.frag + 1
    BY <1>1, <1>2, <1>3, <1>6 DEF D!HandleFits, D!IsOpen
  <2> QED BY <1>3, <1>5, <2>1
<1> QED BY <1>1, <1>2, <1>5, <1>6 DEF R!SumMatches
----------------------------------------------------------------------------
(* The steps of the Reader.                                                 *)

\* What a call finds that is running or that a careful caller makes.
LEMMA Running ==
  ASSUME Certain, rpc # "idle" \/ ~R!Stopped
  PROVE  /\ rpos \in 1..Len(wire) /\ Len(wire) \in Nat /\ rpos \in Nat /\ wire' = wire /\ R!HasBlock /\ ~R!Drained
         /\ rerr = "nil" /\ ~R!Stopped /\ Accounted /\ KeyKept /\ cur \in Streams /\ rpos <= Len(wire)
         /\ cur.kind # "none" => got # <<>>
<1>1. cur.kind # "none" => got # <<>>
  BY DEF Certain, Reading, ReceiveInv
<1> QED BY <1>1, CertainFinds DEF ReaderTypes

\* Without a step in the input nothing changes.
LEMMA SameSound ==
  ASSUME Certain, UNCHANGED <<rpos, rerr, rkey, rpc, cur, ret, got>>
  PROVE  Sound'
<1>1. wire' = wire /\ handles' = handles
  BY CertainFinds
<1>2. SoundLoop' /\ NoFaults' /\ Told'
  BY <1>1 DEF Certain, Sound, SoundLoop, AtStop, R!Stopped, NoFaults, Faults, Told, ReportedEnd
<1>3. SoundStream'
  <2>1. \A h : D!Inside(h, rpos)' <=> D!Inside(h, rpos)
    BY <1>1 DEF D!Inside, D!KindAt
  <2>2. \A h : D!NumData(h, rpos - 1)' = D!NumData(h, rpos - 1)
    BY <1>1 DEF D!NumData, D!DataAt, D!KindAt
  <2>3. \A h : HeaderOf(h, cur) => HeaderOf(h, cur)'
    BY <1>1, <2>1, <2>2 DEF HeaderOf, D!Opened
  <2>4. SoundStream
    BY DEF Certain, Sound
  <2> QED BY <1>1, <2>3, <2>4 DEF SoundStream, InFull, HeldBack, R!Stopped
<1>4. Passed'
  <2>1. Accounted => Accounted'
    BY <1>1 DEF Accounted, Known, Locked
  <2>2. KeyKept => KeyKept'
    BY <1>1 DEF KeyKept, KeyBefore
  <2>3. Passed
    BY DEF Certain, Sound
  <2> QED BY <2>1, <2>2, <2>3 DEF Passed, R!Stopped, ReportedEnd
<1> QED BY <1>2, <1>3, <1>4 DEF Sound

LEMMA SettersSound ==
  ASSUME Certain, R!Setters
  PROVE  Sound'
BY SameSound DEF R!Setters, R!SetPrivateKey, R!PrivateKeyProvider, R!SkipEncrypted, R!ReturnNonDecryptable,
   R!Configure

\* A call goes on without a change to the Stream in hand, and is not at its data.
LEMMA LoopGoesOn ==
  ASSUME Certain, ~R!Stopped', rerr' = "nil", rpos' <= Len(wire), got' = got, cur' = cur, Accounted', KeyKept',
         rpc' \in {"idle", "next", "pass", "skip"},
         rpc' \in {"idle", "next", "pass"} => cur.kind = "none" \/ cur.done,
         rpc' = "skip" => cur.kind # "none" /\ ~cur.done
  PROVE  Sound'
<1>1. SoundStream'
  BY DEF SoundStream
<1> QED BY <1>1, CallGoesOn, GotStays

\* NewReader.
LEMMA NewSound ==
  ASSUME Certain, R!NewReader
  PROVE  Sound'
<1>1. rpc = "new" /\ UNCHANGED <<rerr, rkey, cur, got>>
  BY DEF R!NewReader
<1>2. wire[rpos].kind = "Version" /\ rpos' = rpos + 1 /\ R!Return("new", "nil")
  BY <1>1, Running DEF R!NewReader, R!Block
<1>3. rpos + 1 \in 1..Len(wire)
  BY <1>1, <1>2, AnotherFollows, Running DEF EndKinds
<1>4. ~R!Stopped' /\ rpc' = "idle"
  BY <1>2, ReturnSays DEF R!Failures
<1>5. Accounted' /\ KeyKept'
  BY <1>1, <1>2, Running, GotStays, NothingCounted DEF KeyKinds, StreamKinds
<1>6. cur.kind = "none"
  BY <1>1 DEF Certain, Sound, SoundLoop
<1> QED BY <1>1, <1>2, <1>3, <1>4, <1>5, <1>6, Running, LoopGoesOn

\* The first step of NextStream.
LEMMA NextSound ==
  ASSUME Certain, R!NextStream
  PROVE  Sound'
<1>1. UNCHANGED <<rpos, rerr, rkey, cur, got>> /\ ~R!Stopped /\ (cur.kind = "none" \/ cur.done)
  BY DEF R!NextStream, Certain
<1>2. rerr = "nil" /\ Accounted /\ KeyKept /\ rpos <= Len(wire)
  BY <1>1, Running
<1>3. Accounted' /\ KeyKept'
  BY <1>1, <1>2, GotStays, NothingCounted
<1>4. R!Return("next", "InStream") \/ (rpc' = "next" /\ UNCHANGED ret)
  BY <1>2 DEF R!NextStream
<1>5. ~R!Stopped' /\ rpc' \in {"idle", "next"}
  <2>1. CASE R!Return("next", "InStream")
    BY <2>1, ReturnSays DEF R!Failures
  <2>2. CASE rpc' = "next" /\ UNCHANGED ret
    BY <1>1, <2>2 DEF R!Stopped
  <2> QED BY <1>4, <2>1, <2>2
<1> QED BY <1>1, <1>2, <1>3, <1>5, LoopGoesOn

\* The first step of Stream.Skip.
LEMMA SkipSound ==
  ASSUME Certain, R!Skip
  PROVE  Sound'
<1>1. /\ UNCHANGED <<rpos, rerr, rkey, ret, got>> /\ ~R!Stopped /\ cur.kind # "none" /\ ~cur.done /\ rpc' = "skip"
      /\ cur' = [cur EXCEPT !.isEOF = (@ \/ cur.kind = "plain")]
  BY DEF R!Skip, Certain
<1>2. rerr = "nil" /\ Accounted /\ KeyKept /\ rpos <= Len(wire) /\ cur \in Streams
  BY <1>1, Running
<1>3. Accounted' /\ KeyKept'
  BY <1>1, <1>2, GotStays, NothingCounted
<1>4. cur'.kind = cur.kind /\ cur'.done = cur.done
  BY <1>1, <1>2 DEF Streams
<1>5. ~R!Stopped' /\ SoundStream'
  BY <1>1 DEF R!Stopped, SoundStream
<1> QED BY <1>1, <1>2, <1>3, <1>4, <1>5, GotStays, CallGoesOn

\* The first step of Stream.Read.
LEMMA ReadSound ==
  ASSUME Certain, R!Read
  PROVE  Sound'
<1>1. rpc = "idle" /\ UNCHANGED <<rpos, rerr, rkey>> /\ ~R!Stopped /\ cur.kind \in {"plain", "enc"} /\ ~cur.done
  BY DEF R!Read, Certain
<1>2. rerr = "nil" /\ Accounted /\ KeyKept /\ rpos <= Len(wire) /\ cur \in Streams
  BY <1>1, Running
<1>3. InFull(cur)
  BY <1>1 DEF Certain, Sound, SoundStream
<1>4. rpc' = "read" /\ UNCHANGED <<cur, ret, got>>
  BY <1>2, <1>3 DEF R!Read, InFull
<1>5. Accounted' /\ KeyKept'
  BY <1>1, <1>2, <1>4, GotStays, NothingCounted
<1>6. ~R!Stopped'
  BY <1>1, <1>4 DEF R!Stopped
<1>7. wire' = wire /\ handles' = handles
  BY CertainFinds
<1>8. InFull(cur)'
  <2>1. \A h : D!Inside(h, rpos)' <=> D!Inside(h, rpos)
    BY <1>1, <1>7 DEF D!Inside, D!KindAt
  <2>2. \A h : D!NumData(h, rpos - 1)' = D!NumData(h, rpos - 1)
    BY <1>1, <1>7 DEF D!NumData, D!DataAt, D!KindAt
  <2>3. \A h : HeaderOf(h, cur) => HeaderOf(h, cur)'
    BY <1>1, <1>4, <1>7, <2>1, <2>2 DEF HeaderOf, D!Opened
  <2> QED BY <1>1, <1>3, <1>4, <2>3 DEF InFull, HeldBack
<1>9. SoundStream'
  BY <1>8 DEF SoundStream
<1>10. cur'.kind # "none" /\ ~cur'.done
  BY <1>1, <1>4
<1> QED BY <1>1, <1>2, <1>4, <1>5, <1>6, <1>9, <1>10, GotStays, CallGoesOn
\* NextStream at an encrypted key.
LEMMA EncryptedKeySound ==
  ASSUME Certain, rpc = "next", rpos' = rpos + 1, wire[rpos].kind = "EncryptedKey",
         R!NextEncryptedKey(wire[rpos]), UNCHANGED <<cur, got>>
  PROVE  Sound'
<1>1. rerr = "nil" /\ rpos \in 1..Len(wire) /\ ~R!Stopped /\ (cur.kind = "none" \/ cur.done) /\ Accounted /\ KeyKept
  BY Running DEF Certain, Sound, SoundLoop
<1>2. \/ R!Proceed /\ rerr' = rerr
      \/ R!Return("next", "NoPrivate")
      \/ R!Return("next", "RSA")
  BY <1>1 DEF R!NextEncryptedKey, R!Kept
<1>3. CASE R!Proceed /\ rerr' = rerr
  <2>1. rpos + 1 \in 1..Len(wire)
    BY <1>1, AnotherFollows DEF EndKinds
  <2>2. Accounted' /\ KeyKept'
    BY <1>1, GotStays, KeyCounted DEF KeyKinds
  <2>3. ~R!Stopped' /\ rpc' = "next"
    BY <1>1, <1>3 DEF R!Stopped, R!Proceed
  <2> QED BY <1>1, <1>3, <2>1, <2>2, <2>3, Running, LoopGoesOn
<1>4. CASE R!Return("next", "NoPrivate") \/ R!Return("next", "RSA")
  BY <1>4, GotStays, CallBreaks DEF R!Failures
<1> QED BY <1>2, <1>3, <1>4

\* NextStream at a header that it returns a Stream for.
LEMMA DeliverSound ==
  ASSUME Certain, rpc = "next", rpos' = rpos + 1, UNCHANGED <<rerr, rkey>>,
         NEW kind \in {"plain", "enc", "nokey"}, NEW e \in {"nil", "ErrNoKey"}, R!Deliver(wire[rpos], kind, e),
         wire[rpos].kind \in StreamKinds, kind = "enc" => wire[rpos].kind = "EncStream",
         kind = "plain" => wire[rpos].kind = "PlainStream"
  PROVE  Sound'
<1>1. /\ rerr = "nil" /\ rpos \in 1..Len(wire) /\ Accounted /\ KeyKept /\ wire' = wire /\ rpos \in Nat
      /\ wire \in Seq(D!Blocks)
  BY Running, CertainFinds
<1>2. rpos + 1 \in 1..Len(wire)
  BY <1>1, AnotherFollows DEF EndKinds, StreamKinds
<1>3. PICK b : b = wire[rpos]
  OBVIOUS
<1>4. R!Return("next", e) /\ got' = Append(got, [sid |-> b.sid, kind |-> kind, data |-> <<>>, end |-> "open"])
  BY <1>3 DEF R!Deliver
<1>5. /\ cur'.sid = b.sid /\ cur'.kind = kind /\ ~cur'.isEOF /\ cur'.h = <<>> /\ cur'.pend = <<>>
      /\ cur'.frag = 0 /\ cur'.dead = "nil" /\ (kind = "enc" => cur'.nonce = b.nonce)
  BY <1>3 DEF R!Deliver, R!StreamOf, R!NoStream
<1>6. ~R!Stopped' /\ rpc' = "idle"
  BY <1>4, ReturnSays DEF R!Failures
<1>7. NoFaults' /\ SidsKept /\ \E i \in 1..Len(got') : got'[i].sid = wire[rpos].sid
  <2>1. PICK g : g = [sid |-> b.sid, kind |-> kind, data |-> <<>>, end |-> "open"]
    OBVIOUS
  <2>2. g.end \notin Faults /\ g.sid = wire[rpos].sid
    BY <1>3, <2>1 DEF Faults
  <2>3. got' = Append(got, g)
    BY <1>4, <2>1
  <2> QED BY <2>2, <2>3, GotAnother
<1>8. Accounted' /\ KeyKept'
  BY <1>1, <1>7, HeaderCounted
<1>9. SoundStream'
  <2>1. ASSUME kind \in {"plain", "enc"} PROVE InFull(cur)'
    <3>1. PICK d : d = cur'
      OBVIOUS
    <3>2. PICK h \in Nat : h = rpos
      BY <1>1
    <3>3. D!Inside(h, rpos)'
      <4>1. (h + 1)..(rpos' - 1) = {}
        BY <3>2
      <4> QED BY <4>1 DEF D!Inside
    <3>4. D!NumData(h, rpos - 1)' = 0
      <4>1. (h + 1)..(rpos' - 1) = {}
        BY <3>2
      <4>2. D!DataAt(h, rpos - 1)' = {}
        BY <4>1 DEF D!DataAt
      <4> QED BY <4>2, D!FS_EmptySet, PipeAssumption DEF D!NumData
    <3>5. Len(d.h) = 0 /\ \A k \in 1..Len(d.h) : FALSE
      BY <1>5, <3>1
    <3>6. HeaderOf(h, d)'
      BY <1>1, <1>3, <1>5, <2>1, <3>1, <3>2, <3>3, <3>4, <3>5 DEF HeaderOf, StreamKinds
    <3>7. HeldBack(d)
      BY <1>5, <3>1 DEF HeldBack
    <3>8. h \in 1..(rpos' - 1)
      BY <1>1, <3>2
    <3> QED BY <1>5, <3>1, <3>6, <3>7, <3>8 DEF InFull, HeldBack, HeaderOf
  <2> QED BY <1>5, <2>1 DEF SoundStream
<1> QED BY <1>1, <1>2, <1>6, <1>7, <1>8, <1>9, CallGoesOn

\* NextStream at the next block.
LEMMA NextBlockSound ==
  ASSUME Certain, R!NextBlock
  PROVE  Sound'
<1>1. rpc = "next" /\ rpos' = rpos + 1
  BY DEF R!NextBlock
<1>2. /\ rerr = "nil" /\ rpos \in 1..Len(wire) /\ ~R!Stopped /\ (cur.kind = "none" \/ cur.done)
      /\ Accounted /\ KeyKept /\ wire' = wire /\ Len(wire) \in Nat /\ rpos \in Nat
  BY <1>1, Running DEF Certain, Sound, SoundLoop
<1>3. PICK b : b = wire[rpos]
  OBVIOUS
<1>4. b.kind \notin EndKinds => rpos + 1 \in 1..Len(wire)
  BY <1>2, <1>3, AnotherFollows
<1>5. CASE b.kind = "PlainKey" /\ rkey' = b.key /\ R!Proceed /\ UNCHANGED <<rerr, cur, got>>
  <2>1. b.key # NoKey
    <3>1. b \in D!Blocks
      BY <1>2, <1>3, CertainFinds
    <3> QED BY <1>5, <3>1, PipeAssumption
            DEF D!Blocks, D!VersionBlock, D!EOFBlock, D!ErrorBlock, D!Skippable, NoKey
  <2>2. Accounted' /\ KeyKept'
    BY <1>1, <1>2, <1>3, <1>5, <2>1, GotStays, KeyCounted DEF KeyKinds
  <2>3. ~R!Stopped' /\ rpc' = "next"
    BY <1>1, <1>2, <1>5 DEF R!Stopped, R!Proceed
  <2> QED BY <1>1, <1>2, <1>4, <1>5, <2>2, <2>3, LoopGoesOn DEF EndKinds
<1>6. CASE b.kind = "EncryptedKey" /\ R!NextEncryptedKey(b) /\ UNCHANGED <<cur, got>>
  BY <1>1, <1>3, <1>6, EncryptedKeySound
<1>7. CASE b.kind = "PlainStream" /\ R!Deliver(b, "plain", "nil") /\ UNCHANGED <<rerr, rkey>>
  BY <1>1, <1>3, <1>7, DeliverSound DEF StreamKinds
<1>8. CASE b.kind = "EncStream" /\ R!Deliver(b, "enc", "nil") /\ UNCHANGED <<rerr, rkey>>
  BY <1>1, <1>3, <1>8, DeliverSound DEF StreamKinds
<1>9. CASE b.kind = "EncStream" /\ R!Deliver(b, "nokey", "ErrNoKey") /\ UNCHANGED <<rerr, rkey>>
  BY <1>1, <1>3, <1>9, DeliverSound DEF StreamKinds
<1>10. CASE b.kind = "EncStream" /\ rkey = NoKey /\ rpc' = "pass" /\ UNCHANGED <<rerr, rkey, cur, ret, got>>
  <2>1. Accounted' /\ KeyKept'
    BY <1>1, <1>2, <1>3, <1>10, GotStays, HeaderCounted DEF StreamKinds
  <2>2. ~R!Stopped'
    BY <1>2, <1>10 DEF R!Stopped
  <2> QED BY <1>1, <1>2, <1>4, <1>10, <2>1, <2>2, LoopGoesOn DEF EndKinds
<1>11. CASE b.kind \in {"Datablock", "EOS"} /\ UNCHANGED <<rerr, rkey, cur, got>>
            /\ \E e \in {"EOSOutside", "BlockType"} : R!Return("next", e)
  BY <1>11, GotStays, CallBreaks DEF R!Failures
<1>12. CASE b.kind = "EOF" /\ R!Return("next", "EOF") /\ UNCHANGED <<rerr, rkey, cur, got>>
  <2>1. rpos = Len(wire) /\ wire[Len(wire)].kind = "EOF"
    BY <1>2, <1>3, <1>12, CertainFinds DEF Certain, WholeInput, EndKinds
  <2>2. rpc' = "idle" /\ ret'.err = "EOF" /\ R!Stopped'
    BY <1>12, ReturnSays
  <2>3. Told'
    BY <1>1, <1>2, <2>1, <2>2 DEF Told
  <2>4. Accounted'
    BY <1>1, <1>2, <1>3, <1>12, GotStays, NothingCounted DEF KeyKinds, StreamKinds
  <2> QED BY <1>12, <2>2, <2>3, <2>4, GotStays, CallStops
<1>13. CASE b.kind = "Error" /\ R!Return("next", "Message") /\ UNCHANGED <<rkey, cur, got>>
  BY <1>1, <1>2, <1>3, <1>13, GotStays, CallBreaks DEF R!Failures
<1>14. CASE b.kind = "Skippable" /\ R!Proceed /\ UNCHANGED <<rerr, rkey, cur, got>>
  <2>1. Accounted' /\ KeyKept'
    BY <1>1, <1>2, <1>3, <1>14, GotStays, NothingCounted DEF KeyKinds, StreamKinds
  <2>2. ~R!Stopped' /\ rpc' = "next"
    BY <1>1, <1>2, <1>14 DEF R!Stopped, R!Proceed
  <2> QED BY <1>1, <1>2, <1>4, <1>14, <2>1, <2>2, LoopGoesOn DEF EndKinds
<1>15. R!Kept("Message") = "Message"
  BY <1>2 DEF R!Kept
<1> QED BY <1>3, <1>5, <1>6, <1>7, <1>8, <1>9, <1>10, <1>11, <1>12, <1>13, <1>14, <1>15
        DEF R!NextBlock, R!Block, R!PlainKeyRead, R!NoKey, NoKey
\* skipDataBlocks at the next block.
LEMMA SkipBlockSound ==
  ASSUME Certain, R!SkipBlock
  PROVE  Sound'
<1>1. rpc \in {"skip", "pass"} /\ rpos' = rpos + 1 /\ rkey' = rkey
  BY DEF R!SkipBlock
<1>2. /\ rerr = "nil" /\ rpos \in 1..Len(wire) /\ ~R!Stopped /\ Accounted /\ KeyKept /\ cur \in Streams
      /\ rpc = "pass" => cur.kind = "none" \/ cur.done
      /\ rpc = "skip" => cur.kind # "none" /\ ~cur.done /\ got # <<>>
  BY <1>1, Running DEF Certain, Sound, SoundLoop
<1>3. PICK b : b = wire[rpos]
  OBVIOUS
<1>4. b.kind \notin EndKinds => rpos + 1 \in 1..Len(wire)
  BY <1>2, <1>3, AnotherFollows
<1>5. ASSUME NEW e \in {"nil", "Message", "BlockType"}, R!SkipReturns(e)
      PROVE  /\ NoFaults' /\ SidsKept
             /\ \/ rpc' = "next" /\ e = "nil" /\ UNCHANGED <<rerr, ret, cur, got>> /\ rpc = "pass"
                \/ R!Return("next", e) /\ e # "nil"
                \/ R!Return("skip", e) /\ UNCHANGED rerr /\ (e = "nil" => cur'.done)
  <2>1. CASE rpc = "pass"
    BY <1>2, <1>5, <2>1, GotStays DEF R!SkipReturns, R!Kept
  <2>2. CASE rpc = "skip"
    <3>1. R!Return("skip", e) /\ UNCHANGED rerr /\ cur' = [cur EXCEPT !.done = (@ \/ e = "nil")]
          /\ got' = R!Ended(R!EndOf(e))
      BY <1>5, <2>2 DEF R!SkipReturns
    <3>2. e = "nil" => cur'.done
      BY <1>2, <3>1 DEF Streams
    <3>3. PICK x \in Ends \ Faults : x = R!EndOf(e)
      <4>1. R!EndOf(e) \in {"skipped", "not skipped"}
        BY DEF R!EndOf
      <4>2. {"skipped", "not skipped"} \subseteq Ends \ Faults
        BY DEF Ends, Faults
      <4> QED BY <4>1, <4>2
    <3>4. got' = R!Ended(x) /\ <<>> \in Seq(Chunks \cup {Bad}) /\ got \in Seq(Entries)
      BY <3>1, <3>3, CertainFinds DEF ReaderTypes
    <3>5. PICK new : LastIs(new) /\ More(got[Len(got)], <<>>, x, new)
      BY <1>2, <2>2, <3>4, EntryChanges
    <3>6. NoFaults' /\ SidsKept
      BY <1>2, <2>2, <3>3, <3>5, LastGrows
    <3> QED BY <3>1, <3>2, <3>6
  <2> QED BY <1>1, <2>1, <2>2
<1>6. CASE b.kind \in R!Discarded /\ UNCHANGED <<rpc, ret, rerr, cur, got>>
  <2>1. b.kind \notin KeyKinds \cup StreamKinds \cup EndKinds
    BY <1>6 DEF R!Discarded, KeyKinds, StreamKinds, EndKinds
  <2>2. Accounted' /\ KeyKept'
    BY <1>1, <1>2, <1>3, <1>6, <2>1, GotStays, NothingCounted
  <2>3. ~R!Stopped'
    BY <1>2, <1>6 DEF R!Stopped
  <2> QED BY <1>1, <1>2, <1>4, <1>6, <2>1, <2>2, <2>3, Running, LoopGoesOn
<1>7. CASE b.kind = "EOS" /\ R!SkipReturns("nil")
  <2>1. NoFaults' /\ SidsKept
    BY <1>5, <1>7
  <2>2. Accounted' /\ KeyKept'
    BY <1>1, <1>2, <1>3, <1>7, <2>1, NothingCounted DEF KeyKinds, StreamKinds
  <2>3. \/ rpc' = "next" /\ UNCHANGED <<rerr, ret, cur, got>> /\ rpc = "pass"
        \/ R!Return("skip", "nil") /\ UNCHANGED rerr /\ cur'.done
    BY <1>5, <1>7
  <2>4. ~R!Stopped' /\ rpc' \in {"next", "idle"}
    <3>1. CASE rpc' = "next" /\ UNCHANGED ret
      BY <1>2, <3>1 DEF R!Stopped
    <3>2. CASE R!Return("skip", "nil")
      BY <3>2, ReturnSays DEF R!Failures
    <3> QED BY <2>3, <3>1, <3>2
  <2>5. rpc' = "next" => cur'.kind = "none" \/ cur'.done
    BY <1>2, <2>3
  <2>6. SoundStream'
    <3>1. rpc' = "idle" => cur'.done
      BY <2>3
    <3> QED BY <2>4, <3>1 DEF SoundStream
  <2>7. rerr' = "nil" /\ rpos' <= Len(wire)
    BY <1>1, <1>2, <1>4, <1>7, <2>3, Running DEF EndKinds
  <2> QED BY <2>1, <2>2, <2>4, <2>5, <2>6, <2>7, CallGoesOn
<1>8. CASE b.kind = "Error" /\ R!SkipReturns("Message")
  BY <1>1, <1>2, <1>3, <1>5, <1>8, CallBreaks DEF R!Failures
<1>9. CASE R!SkipReturns("BlockType")
  BY <1>5, <1>9, CallBreaks DEF R!Failures
<1> QED BY <1>3, <1>6, <1>7, <1>8, <1>9 DEF R!SkipBlock, R!Block

\* streamReader.Read returns an error, through sio if the stream is encrypted.
LEMMA SourceSays ==
  ASSUME Certain, rpc = "read", NEW c \in Streams, c.kind = cur.kind, c.pend = cur.pend,
         NEW e \in Errors \ Faults, e # "nil", R!SourceReturns(c, e),
         c.kind = "enc" /\ e = "EOF" => c.pend # <<>> /\ R!Opens(c.pend[1], TRUE)
  PROVE  R!Return("read", e) /\ NoFaults' /\ SidsKept /\ (e = "EOF" => cur'.done)
<1>1. got # <<>> /\ got \in Seq(Entries)
  BY Running, CertainFinds DEF Certain, Sound, SoundLoop, ReaderTypes
<1>2. PICK body : body = IF c.kind = "enc" /\ e = "EOF" THEN c.pend[1].body ELSE <<>>
  OBVIOUS
<1>3. /\ cur' = [c EXCEPT !.dead = IF c.kind = "enc" THEN e ELSE @, !.done = (@ \/ e = "EOF")]
      /\ got' = [R!Received(body) EXCEPT ![Len(got)].end = IF @ = "open" THEN e ELSE @]
      /\ R!Return("read", e)
  <2>1. CASE c.kind = "enc" /\ e = "EOF"
    BY <1>2, <2>1 DEF R!SourceReturns
  <2>2. CASE ~(c.kind = "enc" /\ e = "EOF")
    BY <1>2, <2>2 DEF R!SourceReturns
  <2> QED BY <2>1, <2>2
<1>4. body \in Seq(Chunks \cup {Bad})
  <2>1. CASE c.kind = "enc" /\ e = "EOF"
    <3>1. c.pend \in Seq(D!Payloads) /\ c.pend # <<>>
      BY <2>1 DEF Streams
    <3>2. c.pend[1] \in D!Payloads
      BY <3>1
    <3> QED BY <1>2, <2>1, <3>2 DEF D!Payloads
  <2>2. CASE ~(c.kind = "enc" /\ e = "EOF")
    BY <1>2, <2>2
  <2> QED BY <2>1, <2>2
<1>5. e \in Ends
  BY DEF Ends
<1>6. PICK new : LastIs(new) /\ More(got[Len(got)], body, e, new)
  BY <1>1, <1>3, <1>4, <1>5, EntryChanges
<1>7. NoFaults' /\ SidsKept
  BY <1>1, <1>6, LastGrows
<1>8. e = "EOF" => cur'.done
  BY <1>3 DEF Streams
<1> QED BY <1>3, <1>7, <1>8
\* streamReader.Read at a data block.
LEMMA ReadDataSound ==
  ASSUME Certain, rpc = "read", rpos' = rpos + 1, rkey' = rkey, NEW p, wire[rpos].kind = "Datablock",
         p = wire[rpos].payload, R!ReadData(p)
  PROVE  Sound'
<1>1. /\ rerr = "nil" /\ rpos \in 1..Len(wire) /\ ~R!Stopped /\ Accounted /\ KeyKept /\ cur \in Streams
      /\ got # <<>> /\ got \in Seq(Entries) /\ cur.kind \in {"plain", "enc"} /\ ~cur.done
  BY Running, CertainFinds DEF Certain, Sound, SoundLoop, ReaderTypes, Reading, ReceiveInv
<1>2. rpos + 1 \in 1..Len(wire) /\ wire' = wire /\ rerr' = rerr
  BY <1>1, AnotherFollows, Running DEF EndKinds, R!ReadData
<1>3. InFull(cur)
  BY <1>1 DEF Certain, Sound, SoundStream
<1>4. PICK h \in 1..(rpos - 1) : HeaderOf(h, cur)
  BY <1>3 DEF InFull
<1>5. p \in D!Payloads
  <2>1. wire[rpos] \in D!Blocks
    BY <1>1, CertainFinds
  <2> QED BY <2>1 DEF D!Blocks, D!VersionBlock, D!EOFBlock, D!ErrorBlock, D!Skippable
<1>6. PICK q \in Seq(D!Payloads) :
        /\ q = Append(cur.h, p) /\ Len(cur.h) \in Nat /\ Len(q) = Len(cur.h) + 1 /\ q[Len(cur.h) + 1] = p
        /\ \A k \in 1..Len(cur.h) : q[k] = cur.h[k]
  BY <1>1, <1>5, HashGrows
<1>7. PICK d : d = cur'
  OBVIOUS
<1>8. ASSUME d.sid = cur.sid, d.kind = cur.kind, d.nonce = cur.nonce, d.h = q, d.dead = "nil", ~d.isEOF, ~d.done,
             d.kind = "enc" => d.pend = <<p>> /\ d.frag = Len(cur.h),
             NoFaults', SidsKept, rpc' \in {"idle", "read"}, ~R!Stopped'
      PROVE  Sound'
  <2>1. Follows(cur, d)
    BY <1>6, <1>8 DEF Follows
  <2>2. HeaderOf(h, d)' /\ h \in 1..(rpos' - 1)
    BY <1>1, <1>4, <2>1, HandGoesOn DEF D!Marks, D!StreamKinds
  <2>3. d.kind = "enc" => HeldBack(d)
    <3>1. q # <<>> /\ q[Len(q)] = p /\ Len(q) - 1 = Len(cur.h)
      BY <1>6
    <3> QED BY <1>8, <3>1 DEF HeldBack
  <2>4. InFull(cur)'
    BY <1>7, <1>8, <2>2, <2>3 DEF InFull, HeldBack, HeaderOf
  <2>5. SoundStream'
    BY <2>4 DEF SoundStream
  <2>6. Accounted' /\ KeyKept'
    BY <1>1, <1>8, NothingCounted DEF KeyKinds, StreamKinds
  <2>7. cur'.kind # "none" /\ ~cur'.done
    BY <1>1, <1>7, <1>8
  <2> QED BY <1>1, <1>2, <1>8, <2>5, <2>6, <2>7, CallGoesOn
<1>9. ASSUME NEW body \in Seq(Chunks \cup {Bad}), got' = R!Received(body)
      PROVE  NoFaults' /\ SidsKept
  <2>1. "open" \in Ends \ Faults
    BY DEF Ends, Faults
  <2>2. PICK new : LastIs(new) /\ More(got[Len(got)], body, "open", new)
    BY <1>1, <1>9, <2>1, EntryChanges
  <2> QED BY <1>1, <2>1, <2>2, LastGrows
<1>10. CASE cur.kind = "plain"
  <2>1. cur' = [cur EXCEPT !.h = q] /\ got' = R!Received(p.body) /\ R!Return("read", "nil")
    BY <1>6, <1>10 DEF R!ReadData
  <2>2. p.body \in Seq(Chunks \cup {Bad})
    BY <1>5 DEF D!Payloads
  <2>3. NoFaults' /\ SidsKept
    BY <1>9, <2>1, <2>2
  <2>4. /\ d.sid = cur.sid /\ d.kind = cur.kind /\ d.nonce = cur.nonce /\ d.h = q /\ d.dead = cur.dead
        /\ d.isEOF = cur.isEOF /\ d.done = cur.done
    BY <1>1, <1>7, <2>1 DEF Streams
  <2>5. cur.dead = "nil" /\ ~cur.isEOF
    BY <1>3 DEF InFull
  <2>6. rpc' = "idle" /\ ~R!Stopped'
    BY <2>1, ReturnSays DEF R!Failures
  <2> QED BY <1>1, <1>8, <1>10, <2>3, <2>4, <2>5, <2>6
<1>11. CASE cur.kind = "enc"
  <2>1. HeldBack(cur) /\ cur.dead = "nil" /\ ~cur.isEOF
    BY <1>3, <1>11 DEF InFull
  <2>2. CASE cur.pend = <<>>
    <3>1. cur.h = <<>> /\ cur.frag = 0
      BY <2>1, <2>2 DEF HeldBack
    <3>2. PICK c : c = [cur EXCEPT !.h = q]
      OBVIOUS
    <3>3. cur' = [c EXCEPT !.pend = <<p>>] /\ R!Proceed /\ got' = got
      BY <1>6, <1>11, <2>2, <3>2 DEF R!ReadData
    <3>4. /\ d.sid = cur.sid /\ d.kind = cur.kind /\ d.nonce = cur.nonce /\ d.h = q /\ d.dead = cur.dead
          /\ d.isEOF = cur.isEOF /\ d.done = cur.done /\ d.pend = <<p>> /\ d.frag = cur.frag
      BY <1>1, <1>7, <3>2, <3>3 DEF Streams
    <3>5. rpc' = "read" /\ ~R!Stopped'
      BY <1>1, <3>3 DEF R!Proceed, R!Stopped
    <3>6. Len(cur.h) = 0
      BY <3>1
    <3> QED BY <1>1, <1>8, <2>1, <3>1, <3>3, <3>4, <3>5, <3>6, GotStays
  <2>3. CASE cur.pend # <<>>
    <3>1. cur.h # <<>> /\ cur.frag = Len(cur.h) - 1
      BY <2>1, <2>3 DEF HeldBack
    <3>2. R!Opens(cur.pend[1], FALSE)
      BY <1>1, <1>4, <1>11, <2>1, <3>1, HeldOpens
    <3>3. PICK c : c = [cur EXCEPT !.h = q]
      OBVIOUS
    <3>4. c.frag = cur.frag /\ c.pend = cur.pend
      BY <1>1, <3>3 DEF Streams
    <3>5. cur' = [c EXCEPT !.pend = <<p>>, !.frag = @ + 1] /\ got' = R!Received(cur.pend[1].body)
          /\ R!Return("read", "nil")
      BY <1>6, <1>11, <2>3, <3>2, <3>3 DEF R!ReadData
    <3>6. /\ d.sid = cur.sid /\ d.kind = cur.kind /\ d.nonce = cur.nonce /\ d.h = q /\ d.dead = cur.dead
          /\ d.isEOF = cur.isEOF /\ d.done = cur.done /\ d.pend = <<p>> /\ d.frag = cur.frag + 1
      BY <1>1, <1>7, <3>3, <3>4, <3>5 DEF Streams
    <3>7. cur.pend[1].body \in Seq(Chunks \cup {Bad})
      <4>1. cur.pend \in Seq(D!Payloads)
        BY <1>1 DEF Streams
      <4>2. cur.pend[1] \in D!Payloads
        BY <2>3, <4>1
      <4> QED BY <4>2 DEF D!Payloads
    <3>8. NoFaults' /\ SidsKept
      BY <1>9, <3>5, <3>7
    <3>9. d.frag = Len(cur.h)
      BY <1>6, <3>1, <3>6
    <3>10. rpc' = "idle" /\ ~R!Stopped'
      BY <3>5, ReturnSays DEF R!Failures
    <3> QED BY <1>1, <1>8, <2>1, <3>6, <3>8, <3>9, <3>10
  <2> QED BY <2>2, <2>3
<1> QED BY <1>1, <1>10, <1>11

\* ... and at the end of the stream.
LEMMA ReadEOSSound ==
  ASSUME Certain, rpc = "read", rpos' = rpos + 1, rkey' = rkey, wire[rpos].kind = "EOS", R!ReadEOS(wire[rpos])
  PROVE  Sound'
<1>1. /\ rerr = "nil" /\ rpos \in 1..Len(wire) /\ Accounted /\ KeyKept /\ cur \in Streams
      /\ cur.kind \in {"plain", "enc"} /\ ~cur.done
  BY Running DEF Certain, Sound, SoundLoop, Reading, ReceiveInv
<1>2. rpos + 1 \in 1..Len(wire) /\ wire' = wire
  BY <1>1, AnotherFollows, Running DEF EndKinds
<1>3. ~R!Stopped
  BY Running
<1>4. InFull(cur)
  BY <1>1, <1>3 DEF Certain, Sound, SoundStream
<1>5. PICK h \in 1..(rpos - 1) : HeaderOf(h, cur)
  BY <1>4 DEF InFull
<1>6. R!SumMatches(wire[rpos]) /\ (cur.kind = "enc" => cur.h # <<>>)
  BY <1>1, <1>5, HandComplete
<1>7. PICK c : c = [cur EXCEPT !.isEOF = TRUE]
  OBVIOUS
<1>8. rerr' = rerr /\ R!SourceReturns(c, "EOF")
  BY <1>6, <1>7 DEF R!ReadEOS
<1>9. c \in Streams /\ c.kind = cur.kind /\ c.pend = cur.pend
  BY <1>1, <1>7 DEF Streams
<1>10. cur.kind = "enc" => cur.pend # <<>> /\ R!Opens(cur.pend[1], TRUE)
  <2>1. ASSUME cur.kind = "enc" PROVE cur.pend # <<>> /\ R!Opens(cur.pend[1], TRUE)
    <3>1. HeldBack(cur) /\ cur.h # <<>>
      BY <1>4, <1>6, <2>1 DEF InFull
    <3>2. R!Opens(cur.pend[1], TRUE)
      BY <1>1, <1>5, <2>1, <3>1, HeldOpens
    <3>3. PICK x : cur.pend = <<x>>
      BY <3>1 DEF HeldBack
    <3>4. cur.pend # <<>>
      BY <3>3
    <3> QED BY <3>2, <3>4
  <2> QED BY <2>1
<1>11. "EOF" \in Errors \ Faults
  BY DEF Errors, Faults
<1>12. R!Return("read", "EOF") /\ NoFaults' /\ SidsKept /\ cur'.done
  BY <1>8, <1>9, <1>10, <1>11, SourceSays
<1>13. ~R!Stopped' /\ rpc' = "idle"
  BY <1>12, ReturnSays DEF R!Failures
<1>14. Accounted' /\ KeyKept'
  BY <1>1, <1>12, NothingCounted DEF KeyKinds, StreamKinds
<1>15. SoundStream'
  BY <1>12 DEF SoundStream
<1> QED BY <1>1, <1>2, <1>8, <1>12, <1>13, <1>14, <1>15, CallGoesOn

\* streamReader.Read at the next block.
LEMMA ReadBlockSound ==
  ASSUME Certain, R!ReadBlock
  PROVE  Sound'
<1>1. rpc = "read" /\ rpos' = rpos + 1 /\ rkey' = rkey
  BY DEF R!ReadBlock
<1>2. /\ rerr = "nil" /\ rpos \in 1..Len(wire) /\ ~R!Stopped /\ Accounted /\ KeyKept /\ cur \in Streams
      /\ cur.kind \in {"plain", "enc"} /\ ~cur.done /\ wire' = wire
  BY <1>1, Running DEF Certain, Sound, SoundLoop, Reading, ReceiveInv
<1>3. InFull(cur)
  BY <1>1, <1>2 DEF Certain, Sound, SoundStream
<1>4. PICK h \in 1..(rpos - 1) : HeaderOf(h, cur)
  BY <1>3 DEF InFull
<1>5. PICK b : b = wire[rpos]
  OBVIOUS
<1>6. b.kind \in {"Datablock", "EOS", "Error", "Partial", "Skippable"}
  BY <1>2, <1>4, <1>5, HandAt DEF D!Placed, D!KindAt
<1>7. CASE b.kind = "Datablock" /\ R!ReadData(b.payload)
  BY <1>1, <1>5, <1>7, ReadDataSound
<1>8. CASE b.kind = "EOS" /\ R!ReadEOS(b)
  BY <1>1, <1>5, <1>8, ReadEOSSound
<1>9. CASE b.kind = "Error" /\ R!SourceReturns(cur, "Message")
  <2>1. "Message" \in Errors \ Faults
    BY DEF Errors, Faults
  <2>2. R!Return("read", "Message") /\ NoFaults'
    BY <1>1, <1>2, <1>9, <2>1, SourceSays
  <2> QED BY <1>1, <1>2, <1>5, <1>9, <2>2, CallBreaks DEF R!Failures
<1>10. CASE b.kind = "Skippable" /\ UNCHANGED <<rerr, cur, got, rpc, ret>>
  <2>1. Follows(cur, cur)
    BY <1>5, <1>10 DEF Follows
  <2>2. wire[rpos].kind \notin D!Marks
    BY <1>5, <1>10 DEF D!Marks, D!StreamKinds
  <2>3. PICK d : d = cur
    OBVIOUS
  <2>4. HeaderOf(h, d)' /\ h \in 1..(rpos' - 1)
    BY <1>1, <1>2, <1>4, <2>1, <2>2, <2>3, HandGoesOn
  <2>5. InFull(cur)'
    BY <1>3, <1>10, <2>3, <2>4 DEF InFull, HeldBack, HeaderOf
  <2>6. SoundStream'
    BY <2>5 DEF SoundStream
  <2>7. Accounted' /\ KeyKept'
    BY <1>1, <1>2, <1>5, <1>10, GotStays, NothingCounted DEF KeyKinds, StreamKinds
  <2>8. ~R!Stopped'
    BY <1>2, <1>10 DEF R!Stopped
  <2>9. rpos + 1 \in 1..Len(wire)
    BY <1>2, <1>5, <1>10, AnotherFollows DEF EndKinds
  <2>10. cur'.kind # "none" /\ ~cur'.done
    BY <1>2, <1>10
  <2> QED BY <1>1, <1>2, <1>10, <2>6, <2>7, <2>8, <2>9, <2>10, GotStays, CallGoesOn
<1>11. R!Kept("Message") = "Message"
  BY <1>2 DEF R!Kept
<1> QED BY <1>5, <1>6, <1>7, <1>8, <1>9, <1>10, <1>11
        DEF R!ReadBlock, R!Block, KeyKinds, StreamKinds, R!KeyKinds, R!StreamKinds

\* Every step of the Reader.
LEMMA ReaderSound ==
  ASSUME Certain, R!Next
  PROVE  Sound'
<1>1. rpc \in {"new", "next", "skip", "pass", "read"} => ~R!Drained
  BY Running
<1>2. R!Setters \/ R!NextStream \/ R!Read \/ R!Skip \/ R!NewReader \/ R!NextBlock \/ R!SkipBlock \/ R!ReadBlock
  BY <1>1 DEF R!Next, R!Progress, R!NextAtEnd, R!SkipAtEnd, R!ReadAtEnd
<1> QED BY <1>2, SettersSound, NextSound, ReadSound, SkipSound, NewSound, NextBlockSound, SkipBlockSound, ReadBlockSound

\* A Reader that has not started.
LEMMA SoundStart ==
  ASSUME R!Init, WholeInput, Len(wire) \in Nat
  PROVE  Sound
<1>1. rpos = 1 /\ rpos <= Len(wire)
  BY DEF R!Init, WholeInput
<1>2. /\ rerr = "nil" /\ rpc = "new" /\ cur.kind = "none" /\ got = <<>>
      /\ ret.err = "nil" /\ ret.call = "none"
  BY DEF R!Init, R!NoStream
<1>3. ~R!Stopped /\ ~ReportedEnd
  BY <1>2 DEF R!Stopped, R!Failures, ReportedEnd
<1>4. SoundLoop /\ SoundStream /\ NoFaults /\ Told
  BY <1>1, <1>2, <1>3 DEF SoundLoop, SoundStream, NoFaults, Told
<1>5. 1..(rpos - 1) = {}
  BY <1>1
<1>6. Accounted /\ KeyKept
  BY <1>5 DEF Accounted, KeyKept, KeyBefore
<1> QED BY <1>4, <1>6 DEF Sound, Passed
=============================================================================
