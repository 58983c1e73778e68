--------------------------- MODULE EStreamWriter ---------------------------
(***************************************************************************)
(* estream.Writer (estream/writer.go): one action per exported call, with   *)
(* the stream handles it returns.  The io.Writer below it may fail at any   *)
(* point of any write and leave part of a block behind; the error is sticky *)
(* (Writer.setErr).                                                         *)
(***************************************************************************)
EXTENDS EStreamBlocks, FiniteSets, SequencesExt

CONSTANTS
  PubKeys,      \* RSA public keys the caller may use
  WeakKeys,     \* those too small for OAEP/SHA-512: EncryptOAEP fails
  Chunks,       \* what one Write call on a stream carries
  MaxKeys,      \* bound: calls of AddKeyPlain/AddKeyEncrypted
  MaxStreams,   \* bound: calls of Add(Un)EncryptedStream
  MaxWrites,    \* bound: Write calls per stream
  MaxErrors,    \* bound: calls of AddError
  MaxCloses,    \* bound: calls of Writer.Close
  NonceMax,     \* largest value of the uint64 nonce counter
  WriteFaults,  \* TRUE: the io.Writer may fail
  Disciplined   \* TRUE: the caller keeps the README's contract

ASSUME WriterAssumption ==
  /\ WeakKeys \subseteq PubKeys
  /\ {MaxKeys, MaxStreams, MaxWrites, MaxErrors, MaxCloses, NonceMax} \subseteq Nat
  /\ MaxStreams < NonceMax
  /\ {WriteFaults, Disciplined} \subseteq BOOLEAN

VARIABLES
  wire,     \* Seq of blocks: what has reached the io.Writer
  werr,     \* Writer.err # nil
  wkey,     \* Writer.key
  nkeys,    \* keys generated so far; key i is the i-th
  nonce,    \* Writer.nonce
  handles,  \* the io.WriteClosers handed out, in order (stream name = index)
  adds,     \* calls of Add(Un)EncryptedStream so far
  errors,   \* calls of AddError so far
  closes    \* results of Writer.Close, in order: "ok" or "err"

wvars == <<wire, werr, wkey, nkeys, nonce, handles, adds, errors, closes>>

----------------------------------------------------------------------------
(* Handles.                                                                 *)
(*   wrote      what the caller's Write calls carried                       *)
(*   sum        streamWriter.h: every payload handed to streamWriter.Write  *)
(*   pend       the fragment sio buffers (encrypted streams only)           *)
(*   sealed     sio's EncWriter has been closed                             *)
(*   ack        what the first Close returned                               *)
Handle(enc, k, n) ==
  [enc |-> enc, key |-> k, nonce |-> n, wrote |-> <<>>, sum |-> <<>>,
   pend |-> <<>>, frag |-> 0, sealed |-> FALSE, eosWritten |-> FALSE,
   ack |-> "open"]

IsOpen(s) == handles[s].ack = "open"
Opened    == DOMAIN handles

\* README.md:63-65: one stream at a time, closed before the next call.
MayAdd == Disciplined => /\ \A s \in Opened : ~IsOpen(s)
                         /\ errors = 0
                         /\ closes = <<>>
MayUse(s) == Disciplined => IsOpen(s) /\ closes = <<>>

----------------------------------------------------------------------------
(* sendBlock: header and body are two writes of the io.Writer; a failing    *)
(* write may leave nothing, a part of the block, or all of it.  Sending     *)
(* several blocks stops at the first failure.                               *)
\* Mutant: sendBlock does not look at the error.
Sticky_Ignored == FALSE

Sticky == werr

Leftovers(b) == {<<>>, <<b>>} \cup {<<Partial(c)>> : c \in CutsOf(b)}

Faults(bs) ==
  UNION {{[wire |-> wire \o SubSeq(bs, 1, k - 1) \o t, err |-> TRUE] :
             t \in Leftovers(bs[k])} : k \in 1..Len(bs)}

SendOutcomes(bs) ==
  IF Sticky THEN {[wire |-> wire, err |-> TRUE]}
  ELSE {[wire |-> wire \o bs, err |-> FALSE]}
       \cup (IF WriteFaults THEN Faults(bs) ELSE {})

Send(o) == wire' = o.wire /\ werr' = o.err

----------------------------------------------------------------------------
\* NewWriter writes the version; a failure is kept in the returned Writer.
Init ==
  /\ \/ wire = <<VersionBlock>> /\ werr = FALSE
     \/ WriteFaults /\ wire = <<>> /\ werr = TRUE
  /\ wkey = NoKey /\ nkeys = 0 /\ nonce = 0
  /\ handles = <<>> /\ adds = 0 /\ errors = 0 /\ closes = <<>>

\* The key is installed before it is encrypted and sent.
AddKeyPlain ==
  /\ MayAdd /\ nkeys < MaxKeys /\ ~werr
  /\ nkeys' = nkeys + 1
  /\ wkey' = nkeys'
  /\ \E o \in SendOutcomes(<<PlainKey(nkeys')>>) : Send(o)
  /\ UNCHANGED <<nonce, handles, adds, errors, closes>>

\* Mutant: a failing EncryptOAEP is returned but not kept.
AddKeyEncrypted_NotSticky(p) ==
  /\ MayAdd /\ nkeys < MaxKeys /\ ~werr
  /\ nkeys' = nkeys + 1
  /\ wkey' = nkeys'
  /\ IF p \in WeakKeys
     THEN UNCHANGED <<werr, wire>>
     ELSE \E o \in SendOutcomes(<<EncryptedKey(p, nkeys')>>) : Send(o)
  /\ UNCHANGED <<nonce, handles, adds, errors, closes>>

AddKeyEncrypted(p) ==
  /\ MayAdd /\ nkeys < MaxKeys /\ ~werr
  /\ nkeys' = nkeys + 1
  /\ wkey' = nkeys'
  /\ IF p \in WeakKeys
     THEN werr' = TRUE /\ wire' = wire
     ELSE \E o \in SendOutcomes(<<EncryptedKey(p, nkeys')>>) : Send(o)
  /\ UNCHANGED <<nonce, handles, adds, errors, closes>>

AddError ==
  /\ Disciplined => closes = <<>>
  /\ errors < MaxErrors /\ ~werr
  /\ errors' = errors + 1
  /\ \E o \in SendOutcomes(<<ErrorBlock>>) : Send(o)
  /\ UNCHANGED <<wkey, nkeys, nonce, handles, adds, closes>>

\* The handle exists only when the header went out.
AddUnencryptedStream ==
  /\ MayAdd /\ adds < MaxStreams /\ ~werr
  /\ adds' = adds + 1
  /\ \E o \in SendOutcomes(<<PlainStream(Len(handles) + 1)>>) :
       /\ Send(o)
       /\ handles' = IF o.err THEN handles
                     ELSE Append(handles, Handle(FALSE, NoKey, 0))
  /\ UNCHANGED <<wkey, nkeys, nonce, errors, closes>>

\* Mutants: the counter is not advanced, or advanced twice.
NextNonce_Same(n)  == n
NextNonce_Twice(n) == n + 2

NextNonce(n) == IF n = NonceMax THEN 0 ELSE n + 1

\* The nonce is used up before the header is sent, whatever becomes of it.
AddEncryptedStream ==
  /\ MayAdd /\ adds < MaxStreams /\ ~werr /\ wkey # NoKey
  /\ adds' = adds + 1
  /\ nonce' = NextNonce(nonce)
  /\ \E o \in SendOutcomes(<<EncStream(Len(handles) + 1, nonce)>>) :
       /\ Send(o)
       /\ handles' = IF o.err THEN handles
                     ELSE Append(handles, Handle(TRUE, wkey, nonce))
  /\ UNCHANGED <<wkey, nkeys, errors, closes>>

\* streamWriter.Write: a block per call, hashed whether or not it is sent.
WritePlain(s, c) ==
  /\ ~handles[s].enc /\ MayUse(s) /\ Len(handles[s].wrote) < MaxWrites
  /\ \E o \in SendOutcomes(<<Datablock(Clear(<<c>>))>>) : Send(o)
  /\ handles' = [handles EXCEPT ![s].wrote = Append(@, c),
                                ![s].sum   = Append(@, Clear(<<c>>))]
  /\ UNCHANGED <<wkey, nkeys, nonce, adds, errors, closes>>

\* sio seals the buffered fragment when the next one arrives: the last
\* fragment of a stream is always sealed by Close.
Fragment(hd, last) == Sealed(hd.key, hd.nonce, hd.frag, last, hd.pend)

WriteEncrypted(s, c) ==
  LET hd == handles[s] IN
  /\ hd.enc /\ ~hd.sealed /\ MayUse(s) /\ Len(hd.wrote) < MaxWrites
  /\ IF hd.pend = <<>>
     THEN /\ UNCHANGED <<wire, werr>>
          /\ handles' = [handles EXCEPT ![s].wrote = Append(@, c),
                                        ![s].pend  = <<c>>]
     ELSE /\ \E o \in SendOutcomes(<<Datablock(Fragment(hd, FALSE))>>) : Send(o)
          /\ handles' = [handles EXCEPT ![s].wrote = Append(@, c),
                                        ![s].pend  = <<c>>,
                                        ![s].frag  = @ + 1,
                                        ![s].sum   = Append(@, Fragment(hd, FALSE))]
  /\ UNCHANGED <<wkey, nkeys, nonce, adds, errors, closes>>

\* Mutant: without eosWritten.
EOSBlocks_Always(hd) == <<EOS(hd.sum)>>

\* streamWriter.Close: EOS once.
EOSBlocks(hd) == IF hd.eosWritten THEN <<>> ELSE <<EOS(hd.sum)>>

\* Mutant: Close drops the error of sendBlock.
Acked_ErrorDropped(hd, err) == "ok"

\* The result of a Close call; only the first one is remembered.
Acked(hd, err) == IF hd.ack # "open" THEN hd.ack
                  ELSE IF err THEN "err" ELSE "ok"

\* A second Close of a plain stream writes nothing and returns nil.
ClosePlain(s) ==
  LET hd == handles[s] IN
  /\ ~hd.enc /\ MayUse(s)
  /\ \E o \in SendOutcomes(EOSBlocks(hd)) :
       /\ Send(o)
       /\ handles' = [handles EXCEPT ![s].eosWritten = TRUE,
                                     ![s].ack = Acked(hd, o.err)]
  /\ UNCHANGED <<wkey, nkeys, nonce, adds, errors, closes>>

\* closeWrapper.Close: sio's Close seals the last fragment and closes the
\* streamWriter (first EOS attempt); "after" then closes the streamWriter
\* again, which must not write a second EOS.
AfterSioClose(hd) ==
  [hd EXCEPT !.sealed = TRUE, !.eosWritten = TRUE,
             !.sum = Append(@, Fragment(hd, TRUE))]

CloseEncrypted(s) ==
  LET hd  == handles[s]
      hd1 == AfterSioClose(hd)
      bs  == <<Datablock(Fragment(hd, TRUE)), EOS(hd1.sum)>> \o EOSBlocks(hd1)
  IN
  /\ hd.enc /\ ~hd.sealed /\ MayUse(s)
  /\ \E o \in SendOutcomes(bs) :
       /\ Send(o)
       /\ handles' = [handles EXCEPT ![s] = [hd1 EXCEPT !.ack = Acked(hd, o.err)]]
  /\ UNCHANGED <<wkey, nkeys, nonce, adds, errors, closes>>

\* Writer.Close: the EOF block; nothing marks the Writer as closed.
CloseWriter ==
  /\ Disciplined => \A s \in Opened : ~IsOpen(s)
  /\ Len(closes) < MaxCloses
  /\ \E o \in SendOutcomes(<<EOFBlock>>) :
       Send(o) /\ closes' = Append(closes, IF o.err THEN "err" ELSE "ok")
  /\ UNCHANGED <<wkey, nkeys, nonce, handles, adds, errors>>

Next ==
  \/ AddKeyPlain
  \/ \E p \in PubKeys : AddKeyEncrypted(p)
  \/ AddError
  \/ AddUnencryptedStream
  \/ AddEncryptedStream
  \/ \E s \in Opened, c \in Chunks : WritePlain(s, c) \/ WriteEncrypted(s, c)
  \/ \E s \in Opened : ClosePlain(s) \/ CloseEncrypted(s)
  \/ CloseWriter

Spec == Init /\ [][Next]_wvars

----------------------------------------------------------------------------
(* Properties.                                                              *)

Payloads == [key : 0..MaxKeys, nonce : Nat, frag : Nat, last : BOOLEAN,
             body : Seq(Chunks)]
\* The blocks of the format; a Writer of this version sends no Skippable ones.
Blocks ==
  {VersionBlock, EOFBlock, ErrorBlock, Skippable}
  \cup [kind : {"PlainKey"}, key : 1..MaxKeys]
  \cup [kind : {"EncryptedKey"}, pub : PubKeys, key : 1..MaxKeys]
  \cup [kind : {"PlainStream"}, sid : Nat]
  \cup [kind : {"EncStream"}, sid : Nat, nonce : Nat]
  \cup [kind : {"Datablock"}, payload : Payloads]
  \cup [kind : {"EOS"}, sum : Seq(Payloads)]
  \cup [kind : {"Partial"}, cut : Cuts]
Handles ==
  [enc : BOOLEAN, key : 0..MaxKeys, nonce : Nat, wrote : Seq(Chunks),
   sum : Seq(Payloads), pend : Seq(Chunks), frag : Nat, sealed : BOOLEAN,
   eosWritten : BOOLEAN, ack : {"open", "ok", "err"}]

\* The fields of the Writer have their types; the key in use is one that was
\* generated, and no more nonces are used than streams were added (writer.go
\* AddKeyPlain, AddKeyEncrypted, AddEncryptedStream).
TypeOK ==
  /\ wire \in Seq(Blocks) /\ werr \in BOOLEAN
  /\ nkeys \in 0..MaxKeys /\ wkey \in 0..nkeys
  /\ adds \in 0..MaxStreams /\ nonce \in 0..adds
  /\ handles \in Seq(Handles) /\ Len(handles) <= adds
  /\ errors \in 0..MaxErrors
  /\ closes \in Seq({"ok", "err"})

KindAt(i) == wire[i].kind

\* No two encrypted streams of one output share a nonce, so no (key, nonce)
\* pair is used twice, even when adding a stream failed, keys were replaced
\* or two streams were open at once (README.md "Nonce per stream").
NonceUnique ==
  \A i, j \in DOMAIN wire :
    KindAt(i) = "EncStream" /\ KindAt(j) = "EncStream" /\ i # j
      => wire[i].nonce # wire[j].nonce

LatestKeyIs(i, k) ==
  \E j \in 1..(i - 1) :
    /\ KindAt(j) \in KeyKinds /\ wire[j].key = k
    /\ \A m \in (j + 1)..(i - 1) : KindAt(m) \notin KeyKinds

\* Every fragment on the wire was sealed with the key of the last key block
\* before the header of its stream: what a reader that honours "only the
\* latest key should be used" (README.md:158) will decrypt with.  A key that
\* was installed but never reached the wire must not seal anything.
SealedWithLatestKey ==
  \A i \in DOMAIN wire :
    KindAt(i) = "Datablock" /\ wire[i].payload.key # NoKey
      => \E h \in 1..(i - 1) :
           /\ KindAt(h) = "EncStream"
           /\ wire[h].nonce = wire[i].payload.nonce
           /\ LatestKeyIs(h, wire[i].payload.key)

\* A stream has at most one end-of-stream block although Close of an encrypted
\* stream closes the streamWriter twice and callers may Close repeatedly
\* (streamWriter.eosWritten).
OneEOSPerStream ==
  Cardinality({i \in DOMAIN wire : KindAt(i) = "EOS"})
    <= Cardinality({s \in Opened : ~IsOpen(s)})

\* What may follow a block of each kind.  After an error block the caller may
\* still close what it has open.
Follows(k) ==
  LET top == KeyKinds \cup StreamKinds \cup {"EOF", "Error", "Partial"}
      in  == {"Datablock", "EOS", "Error", "Partial"}
  IN CASE k = "Version"                     -> top
       [] k \in KeyKinds \cup {"EOS"}       -> top
       [] k \in StreamKinds \cup {"Datablock"} -> in
       [] k = "Error"                       -> in \cup {"EOF"}
       [] k \in {"EOF", "Partial"}          -> {"EOF", "Partial"}

\* With one stream open at a time the output is a well-formed sequence of
\* blocks: version first, data and EOS only inside a stream, headers and keys
\* only outside, nothing but EOF after EOF (README.md "Blocks").
WellFormed ==
  /\ wire # <<>> => KindAt(1) = "Version"
  /\ \A i \in 1..(Len(wire) - 1) : KindAt(i + 1) \in Follows(KindAt(i))

\* The data blocks among the blocks after block i up to block j, and how many.
DataAt(i, j)  == {m \in (i + 1)..j : KindAt(m) = "Datablock"}
NumData(i, j) == Cardinality(DataAt(i, j))

Header(s) == IF handles[s].enc THEN EncStream(s, handles[s].nonce)
             ELSE PlainStream(s)

\* The payloads of the data blocks between blocks i and j are sum, in order.
CarryExactly(i, j, sum) ==
  /\ NumData(i, j) = Len(sum)
  /\ \A m \in DataAt(i, j) : wire[m].payload = sum[NumData(i, m)]

\* Payload k of sum carries chunk k of wrote; where nothing was written, the one
\* payload there may be is sio's last fragment, which is empty.
OneChunkEach(sum, wrote) ==
  /\ Len(sum) = Len(wrote) \/ (wrote = <<>> /\ Len(sum) = 1)
  /\ \A k \in DOMAIN sum : sum[k].body = IF k <= Len(wrote) THEN <<wrote[k]>> ELSE <<>>

\* When Close of a stream returned nil, the output holds its header, then its
\* data and an EOS block whose checksum covers exactly that data, and the data
\* carries every chunk written to the stream, in the order of the Write calls.
AckedComplete ==
  \A s \in Opened : handles[s].ack = "ok" =>
    /\ \E i, j \in DOMAIN wire :
         /\ i < j /\ wire[i] = Header(s) /\ wire[j] = EOS(handles[s].sum)
         /\ CarryExactly(i, j, handles[s].sum)
    /\ OneChunkEach(handles[s].sum, handles[s].wrote)

\* A nil from Writer.Close vouches for everything before it: no stream that
\* was handed out failed, and no block is incomplete.
CloseVouches ==
  (\E i \in DOMAIN closes : closes[i] = "ok") =>
    /\ \A s \in Opened : handles[s].ack = "ok"
    /\ Len(closes) = 1 => \A i \in DOMAIN wire : KindAt(i) # "Partial"

\* Nothing is written after the io.Writer has failed, so an incomplete block
\* is always the end of the output (Writer.setErr, sendBlock).
NothingAfterFailure == [][werr => wire' = wire]_wvars
=============================================================================
