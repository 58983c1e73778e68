------------------------ MODULE EStreamWriterProofs ------------------------
(***************************************************************************)
(* Theorems about estream.Writer for every value of the constants: first its *)
(* calls, keys and ends; then the data, which chunk is in which payload, which *)
(* payload in which block of which stream, and the order of the blocks.       *)
(***************************************************************************)
EXTENDS EStreamWriter, FiniteSetTheorems, SequenceTheorems, TLAPS

\* t is what remains on the wire of a send of bs: an initial part of bs, then
\* possibly one incomplete block.
Extends(bs, t) ==
  /\ t \in Seq(Blocks) /\ Len(t) <= Len(bs)
  /\ \A i \in 1..Len(t) : (i = Len(t) /\ t[i].kind = "Partial") \/ (i \in 1..Len(bs) /\ t[i] = bs[i])

\* The remains of a send that failed in block k: the blocks before it, and
\* possibly the whole or a part of block k.
LEMMA FaultExtends ==
  ASSUME NEW bs \in Seq(Blocks), NEW k \in 1..Len(bs), NEW b \in Blocks,
         b.kind = "Partial" \/ b = bs[k]
  PROVE  /\ Extends(bs, SubSeq(bs, 1, k - 1))
         /\ Extends(bs, Append(SubSeq(bs, 1, k - 1), b))
<1> DEFINE head == SubSeq(bs, 1, k - 1)
<1>1. head \in Seq(Blocks) /\ Len(head) = k - 1
      /\ \A i \in 1..(k - 1) : head[i] = bs[i]
  BY SubSeqProperties
<1> HIDE DEF head
<1>2. Extends(bs, head)
  BY <1>1 DEF Extends
<1>3. Extends(bs, Append(head, b))
  BY <1>1 DEF Extends
<1> QED BY <1>2, <1>3 DEF head

\* The elements of a sequence of one or two blocks.
LEMMA SmallSeqs ==
  ASSUME NEW S, NEW e \in S, NEW f \in S
  PROVE  << e >> \in Seq(S) /\ << e, f >> \in Seq(S)
OBVIOUS

\* The kinds of blocks in such a sequence.
LEMMA PairKinds ==
  ASSUME NEW e, NEW f, e.kind # "EncStream", f.kind # "EncStream"
  PROVE  \A i \in 1..Len(<< e, f >>) : << e, f >>[i].kind # "EncStream"
OBVIOUS

\* Sending k blocks extends the output by those blocks and nothing else.
LEMMA ConcatAppend ==
  \A s, u \in Seq(Blocks), e \in Blocks : (s \o u) \o << e >> = s \o Append(u, e)
<1> SUFFICES ASSUME NEW s \in Seq(Blocks), NEW u \in Seq(Blocks), NEW e \in Blocks
             PROVE  (s \o u) \o << e >> = s \o Append(u, e)
  OBVIOUS
<1>1. << e >> \in Seq(Blocks) /\ Append(u, e) = u \o << e >>
  BY AppendProperties
<1>2. (s \o u) \o << e >> = s \o (u \o << e >>)
  BY <1>1, ConcatAssociative
<1> QED BY <1>1, <1>2

\* A send leaves the old output in place and extends it by such remains; with
\* a sticky error it leaves everything as it was.
LEMMA SendExtends ==
  ASSUME wire \in Seq(Blocks), werr \in BOOLEAN,
         NEW bs \in Seq(Blocks), NEW o \in SendOutcomes(bs)
  PROVE  /\ o.err \in BOOLEAN
         /\ werr => o.wire = wire /\ o.err
         /\ \E t : Extends(bs, t) /\ o.wire = wire \o t
<1>1. CASE werr
  <2>1. o = [wire |-> wire, err |-> TRUE]
    BY <1>1 DEF SendOutcomes, Sticky
  <2>2. Extends(bs, << >>) /\ wire = wire \o << >>
    BY DEF Extends
  <2> QED BY <2>1, <2>2
<1>2. CASE ~werr /\ o = [wire |-> wire \o bs, err |-> FALSE]
  <2>1. Extends(bs, bs)
    BY DEF Extends
  <2> QED BY <1>2, <2>1
<1>3. CASE ~werr /\ o \in Faults(bs)
  <2>1. PICK k \in 1..Len(bs) :
          \E u \in Leftovers(bs[k]) :
            o = [wire |-> wire \o SubSeq(bs, 1, k - 1) \o u, err |-> TRUE]
    BY <1>3 DEF Faults
  <2>2. PICK t : /\ t \in Leftovers(bs[k])
                 /\ o = [wire |-> wire \o SubSeq(bs, 1, k - 1) \o t, err |-> TRUE]
    BY <2>1
  <2> DEFINE head == SubSeq(bs, 1, k - 1)
  <2>3. head \in Seq(Blocks)
    BY SubSeqProperties
  <2>4. bs[k] \in Blocks /\ \A c \in Cuts : Partial(c) \in Blocks /\ Partial(c).kind = "Partial"
    BY DEF Blocks, Partial
  <2>5. CASE t = << >>
    <3>1. o.wire = wire \o head
      BY <2>2, <2>3, <2>5
    <3> QED BY <1>3, <2>2, <3>1, <2>4, FaultExtends
  <2>6. CASE \E b \in Blocks : t = << b >> /\ (b.kind = "Partial" \/ b = bs[k])
    <3>1. PICK b \in Blocks : t = << b >> /\ (b.kind = "Partial" \/ b = bs[k])
      BY <2>6
    <3>2. Extends(bs, Append(head, b))
      BY <3>1, FaultExtends
    <3>3. o.wire = (wire \o head) \o << b >>
      BY <2>2, <3>1
    <3> HIDE DEF head
    <3>4. (wire \o head) \o << b >> = wire \o Append(head, b)
      BY <2>3, ConcatAppend, Zenon
    <3> QED BY <1>3, <2>2, <3>2, <3>3, <3>4
  <2> QED BY <2>2, <2>4, <2>5, <2>6 DEF Leftovers, CutsOf, Cuts
<1> QED BY <1>1, <1>2, <1>3 DEF SendOutcomes, Sticky

\* Whatever a send leaves on the wire are blocks (sendBlock, writer.go:206).
LEMMA SendTyped ==
  ASSUME wire \in Seq(Blocks), werr \in BOOLEAN,
         NEW bs \in Seq(Blocks), NEW o \in SendOutcomes(bs), Send(o)
  PROVE  wire' \in Seq(Blocks) /\ werr' \in BOOLEAN
<1>1. PICK t : Extends(bs, t) /\ o.wire = wire \o t
  BY SendExtends
<1>2. t \in Seq(Blocks)
  BY <1>1 DEF Extends
<1>3. wire \o t \in Seq(Blocks)
  BY <1>2, ConcatProperties
<1> QED BY <1>1, <1>3, SendExtends DEF Send

\* The blocks the Writer sends are blocks.
LEMMA BlockTypes ==
  /\ {VersionBlock, EOFBlock, ErrorBlock} \subseteq Blocks
  /\ \A k \in 1..MaxKeys : PlainKey(k) \in Blocks
  /\ \A k \in 1..MaxKeys, p \in PubKeys : EncryptedKey(p, k) \in Blocks
  /\ \A s \in Nat : PlainStream(s) \in Blocks
  /\ \A s, n \in Nat : EncStream(s, n) \in Blocks
  /\ \A q \in Payloads : Datablock(q) \in Blocks
  /\ \A sum \in Seq(Payloads) : EOS(sum) \in Blocks
BY DEF Blocks, VersionBlock, EOFBlock, ErrorBlock, PlainKey, EncryptedKey,
       PlainStream, EncStream, Datablock, EOS

\* Their kinds: only AddEncryptedStream sends an EncStream header.
LEMMA BlockKinds ==
  /\ VersionBlock.kind = "Version" /\ EOFBlock.kind = "EOF" /\ ErrorBlock.kind = "Error"
  /\ \A k : PlainKey(k).kind = "PlainKey"
  /\ \A k, p : EncryptedKey(p, k).kind = "EncryptedKey"
  /\ \A s : PlainStream(s).kind = "PlainStream"
  /\ \A s, n : EncStream(s, n).kind = "EncStream" /\ EncStream(s, n).nonce = n
  /\ \A q : Datablock(q).kind = "Datablock"
  /\ \A sum : EOS(sum).kind = "EOS"
BY DEF VersionBlock, EOFBlock, ErrorBlock, PlainKey, EncryptedKey,
       PlainStream, EncStream, Datablock, EOS

\* Payloads of plain and encrypted streams, and the handle after sio's Close.
LEMMA PayloadTypes ==
  /\ \A c \in Chunks : Clear(<< c >>) \in Payloads
  /\ \A hd \in Handles, l \in BOOLEAN : Fragment(hd, l) \in Payloads
BY WriterAssumption DEF Clear, Fragment, Sealed, Payloads, Handles, NoKey

\* The handle after sio's Close is a handle (closeWrapper.Close, writer.go:271).
LEMMA SioCloseTyped ==
  ASSUME NEW hd \in Handles
  PROVE  /\ AfterSioClose(hd) \in Handles
         /\ AfterSioClose(hd).eosWritten
<1>1. Fragment(hd, TRUE) \in Payloads
  BY PayloadTypes
<1>2. hd.sum \in Seq(Payloads)
  BY DEF Handles
<1>3. Append(hd.sum, Fragment(hd, TRUE)) \in Seq(Payloads)
  BY <1>1, <1>2, AppendProperties
<1> QED BY <1>3 DEF AfterSioClose, Handles

----------------------------------------------------------------------------
(* Type correctness.                                                        *)

\* The blocks each call sends, as a sequence of blocks.
LEMMA CloseBlocksTyped ==
  ASSUME NEW hd \in Handles
  PROVE  /\ EOSBlocks(hd) \in Seq(Blocks)
         /\ << Datablock(Fragment(hd, TRUE)), EOS(AfterSioClose(hd).sum) >>
              \o EOSBlocks(AfterSioClose(hd)) \in Seq(Blocks)
<1>1. hd.sum \in Seq(Payloads) /\ AfterSioClose(hd).sum \in Seq(Payloads)
  BY SioCloseTyped DEF Handles
<1>2. EOS(hd.sum) \in Blocks /\ EOS(AfterSioClose(hd).sum) \in Blocks
  BY <1>1, BlockTypes
<1>3. Datablock(Fragment(hd, TRUE)) \in Blocks
  BY PayloadTypes, BlockTypes
<1>4. EOSBlocks(hd) \in Seq(Blocks)
  BY <1>2 DEF EOSBlocks
<1>5. EOSBlocks(AfterSioClose(hd)) = << >>
  BY SioCloseTyped DEF EOSBlocks
<1>6. << Datablock(Fragment(hd, TRUE)), EOS(AfterSioClose(hd).sum) >> \in Seq(Blocks)
  BY <1>2, <1>3, SmallSeqs
<1> QED BY <1>4, <1>5, <1>6, ConcatEmptySeq

\* NewWriter leaves the fields with their types (writer.go:53).
THEOREM WriterTypeInit == Init => TypeOK
<1> SUFFICES ASSUME Init PROVE TypeOK
  OBVIOUS
<1>1. << >> \in Seq(Blocks) /\ << VersionBlock >> \in Seq(Blocks)
  BY BlockTypes, SmallSeqs
<1>2. wire \in Seq(Blocks) /\ werr \in BOOLEAN
  BY <1>1 DEF Init
<1> QED BY <1>2, WriterAssumption DEF Init, TypeOK, NoKey

\* Every exported call of the Writer keeps the types of the fields, with at most
\* as many nonces used as streams were added (writer.go:70-301).
THEOREM WriterTypeStep == TypeOK /\ [Next]_wvars => TypeOK'
<1> SUFFICES ASSUME TypeOK, [Next]_wvars PROVE TypeOK'
  OBVIOUS
<1> USE DEF TypeOK
<1>1. CASE AddKeyPlain
  <2>1. nkeys' \in 1..MaxKeys
    BY <1>1, WriterAssumption DEF AddKeyPlain
  <2>2. << PlainKey(nkeys') >> \in Seq(Blocks)
    BY <2>1, BlockTypes
  <2>3. wire' \in Seq(Blocks) /\ werr' \in BOOLEAN
    BY <1>1, <2>2, SendTyped DEF AddKeyPlain
  <2> QED BY <1>1, <2>1, <2>3 DEF AddKeyPlain
<1>2. ASSUME NEW p \in PubKeys, AddKeyEncrypted(p) PROVE TypeOK'
  <2>1. nkeys' \in 1..MaxKeys
    BY <1>2, WriterAssumption DEF AddKeyEncrypted
  <2>2. << EncryptedKey(p, nkeys') >> \in Seq(Blocks)
    BY <2>1, BlockTypes
  <2>3. wire' \in Seq(Blocks) /\ werr' \in BOOLEAN
    BY <1>2, <2>2, SendTyped DEF AddKeyEncrypted
  <2> QED BY <1>2, <2>1, <2>3 DEF AddKeyEncrypted
<1>3. CASE AddError
  <2>1. << ErrorBlock >> \in Seq(Blocks)
    BY BlockTypes
  <2>2. wire' \in Seq(Blocks) /\ werr' \in BOOLEAN
    BY <1>3, <2>1, SendTyped DEF AddError
  <2>3. errors' \in 0..MaxErrors
    BY <1>3, WriterAssumption DEF AddError
  <2> QED BY <1>3, <2>2, <2>3 DEF AddError
<1>4. CASE AddUnencryptedStream
  <2>1. << PlainStream(Len(handles) + 1) >> \in Seq(Blocks)
    BY BlockTypes
  <2>2. PICK o \in SendOutcomes(<< PlainStream(Len(handles) + 1) >>) :
          Send(o) /\ handles' = IF o.err THEN handles
                                ELSE Append(handles, Handle(FALSE, NoKey, 0))
    BY <1>4 DEF AddUnencryptedStream
  <2>3. wire' \in Seq(Blocks) /\ werr' \in BOOLEAN
    BY <2>1, <2>2, SendTyped
  <2>4. Handle(FALSE, NoKey, 0) \in Handles
    BY WriterAssumption DEF Handle, Handles, NoKey
  <2>5. adds' = adds + 1 /\ adds' \in 0..MaxStreams
    BY <1>4, WriterAssumption DEF AddUnencryptedStream
  <2>6. handles' \in Seq(Handles) /\ Len(handles') \in {Len(handles), Len(handles) + 1}
    BY <2>2, <2>4, AppendProperties
  <2>8. Len(handles') <= adds'
    BY <2>5, <2>6
  <2>7. nonce' \in 0..adds'
    BY <1>4, <2>5 DEF AddUnencryptedStream
  <2> QED BY <1>4, <2>3, <2>5, <2>6, <2>7, <2>8 DEF AddUnencryptedStream
<1>5. CASE AddEncryptedStream
  <2>1. << EncStream(Len(handles) + 1, nonce) >> \in Seq(Blocks)
    BY BlockTypes
  <2>2. PICK o \in SendOutcomes(<< EncStream(Len(handles) + 1, nonce) >>) :
          Send(o) /\ handles' = IF o.err THEN handles
                                ELSE Append(handles, Handle(TRUE, wkey, nonce))
    BY <1>5 DEF AddEncryptedStream
  <2>3. wire' \in Seq(Blocks) /\ werr' \in BOOLEAN
    BY <2>1, <2>2, SendTyped
  <2>4. Handle(TRUE, wkey, nonce) \in Handles
    BY WriterAssumption DEF Handle, Handles
  <2>5. adds' = adds + 1 /\ adds' \in 0..MaxStreams
    BY <1>5, WriterAssumption DEF AddEncryptedStream
  <2>6. handles' \in Seq(Handles) /\ Len(handles') \in {Len(handles), Len(handles) + 1}
    BY <2>2, <2>4, AppendProperties
  <2>8. Len(handles') <= adds'
    BY <2>5, <2>6
  <2>7. nonce' \in 0..adds'
    BY <1>5, <2>5, WriterAssumption DEF AddEncryptedStream, NextNonce
  <2> QED BY <1>5, <2>3, <2>5, <2>6, <2>7, <2>8 DEF AddEncryptedStream
<1>6. ASSUME NEW s \in Opened, NEW c \in Chunks, WritePlain(s, c) PROVE TypeOK'
  <2> DEFINE new == [handles[s] EXCEPT !.wrote = Append(@, c),
                                       !.sum   = Append(@, Clear(<< c >>))]
  <2>1. Clear(<< c >>) \in Payloads
    BY PayloadTypes
  <2>2. << Datablock(Clear(<< c >>)) >> \in Seq(Blocks)
    BY <2>1, BlockTypes
  <2>3. wire' \in Seq(Blocks) /\ werr' \in BOOLEAN
    BY <1>6, <2>2, SendTyped DEF WritePlain
  <2>4. handles[s] \in Handles /\ s \in 1..Len(handles)
    BY DEF Opened
  <2>5. new \in Handles
    <3>0. handles[s].wrote \in Seq(Chunks) /\ handles[s].sum \in Seq(Payloads)
      BY <2>4 DEF Handles
    <3>1. Append(handles[s].wrote, c) \in Seq(Chunks)
      BY <3>0, AppendProperties
    <3>2. Append(handles[s].sum, Clear(<< c >>)) \in Seq(Payloads)
      BY <2>1, <3>0, AppendProperties
    <3> QED BY <2>4, <3>1, <3>2 DEF Handles
  <2>6. handles' = [handles EXCEPT ![s] = new]
    BY <1>6 DEF WritePlain
  <2>7. handles' \in Seq(Handles) /\ Len(handles') = Len(handles)
    BY <2>4, <2>5, <2>6, ExceptSeq
  <2> QED BY <1>6, <2>3, <2>7 DEF WritePlain
<1>7. ASSUME NEW s \in Opened, NEW c \in Chunks, WriteEncrypted(s, c) PROVE TypeOK'
  <2>1. handles[s] \in Handles /\ s \in 1..Len(handles)
    BY DEF Opened
  <2>0. /\ handles[s].wrote \in Seq(Chunks)
        /\ handles[s].sum \in Seq(Payloads)
        /\ handles[s].frag + 1 \in Nat
    <3>1. handles[s].wrote \in Seq(Chunks) /\ handles[s].sum \in Seq(Payloads)
      BY <2>1 DEF Handles
    <3>2. handles[s].frag \in Nat
      BY <2>1 DEF Handles
    <3> QED BY <3>1, <3>2
  <2>2. Append(handles[s].wrote, c) \in Seq(Chunks) /\ << c >> \in Seq(Chunks)
    BY <2>0, AppendProperties, SmallSeqs
  <2>3. CASE handles[s].pend = << >>
    <3> DEFINE new == [handles[s] EXCEPT !.wrote = Append(@, c), !.pend = << c >>]
    <3>1. new \in Handles
      BY <2>1, <2>2 DEF Handles
    <3>2. handles' = [handles EXCEPT ![s] = new]
      BY <1>7, <2>3 DEF WriteEncrypted
    <3>3. handles' \in Seq(Handles) /\ Len(handles') = Len(handles)
      BY <2>1, <3>1, <3>2, ExceptSeq
    <3> QED BY <1>7, <2>3, <3>3 DEF WriteEncrypted
  <2>4. CASE handles[s].pend # << >>
    <3> DEFINE frag == Fragment(handles[s], FALSE)
               new == [handles[s] EXCEPT !.wrote = Append(@, c), !.pend = << c >>,
                                         !.frag = @ + 1, !.sum = Append(@, frag)]
    <3>1. frag \in Payloads
      BY <2>1, PayloadTypes
    <3>2. << Datablock(frag) >> \in Seq(Blocks)
      BY <3>1, BlockTypes, SmallSeqs
    <3>3. wire' \in Seq(Blocks) /\ werr' \in BOOLEAN
      BY <1>7, <2>4, <3>2, SendTyped DEF WriteEncrypted
    <3>4. Append(handles[s].sum, frag) \in Seq(Payloads)
      BY <2>0, <3>1, AppendProperties
    <3> HIDE DEF frag
    <3>5. new \in Handles
      BY <2>0, <2>1, <2>2, <3>4 DEF Handles
    <3>6. handles' = [handles EXCEPT ![s] = new]
      BY <1>7, <2>4 DEF WriteEncrypted, frag
    <3>7. handles' \in Seq(Handles) /\ Len(handles') = Len(handles)
      BY <2>1, <3>5, <3>6, ExceptSeq
    <3> QED BY <1>7, <3>3, <3>7 DEF WriteEncrypted
  <2> QED BY <2>3, <2>4
<1>8. ASSUME NEW s \in Opened, ClosePlain(s) PROVE TypeOK'
  <2>1. handles[s] \in Handles /\ s \in 1..Len(handles)
    BY DEF Opened
  <2>2. PICK o \in SendOutcomes(EOSBlocks(handles[s])) :
          /\ Send(o)
          /\ handles' = [handles EXCEPT ![s].eosWritten = TRUE,
                                        ![s].ack = Acked(handles[s], o.err)]
    BY <1>8 DEF ClosePlain
  <2>3. wire' \in Seq(Blocks) /\ werr' \in BOOLEAN
    BY <2>1, <2>2, CloseBlocksTyped, SendTyped
  <2> DEFINE new == [handles[s] EXCEPT !.eosWritten = TRUE,
                                       !.ack = Acked(handles[s], o.err)]
  <2>4. new \in Handles
    BY <2>1 DEF Handles, Acked
  <2>5. handles' = [handles EXCEPT ![s] = new]
    BY <2>2
  <2>6. handles' \in Seq(Handles) /\ Len(handles') = Len(handles)
    BY <2>1, <2>4, <2>5, ExceptSeq
  <2> QED BY <1>8, <2>3, <2>6 DEF ClosePlain
<1>9. ASSUME NEW s \in Opened, CloseEncrypted(s) PROVE TypeOK'
  <2> DEFINE hd1 == AfterSioClose(handles[s])
             bs  == << Datablock(Fragment(handles[s], TRUE)), EOS(hd1.sum) >>
                      \o EOSBlocks(hd1)
  <2>1. handles[s] \in Handles /\ s \in 1..Len(handles)
    BY DEF Opened
  <2>2. PICK o \in SendOutcomes(bs) :
          /\ Send(o)
          /\ handles' = [handles EXCEPT ![s] = [hd1 EXCEPT !.ack = Acked(handles[s], o.err)]]
    BY <1>9 DEF CloseEncrypted
  <2>3. bs \in Seq(Blocks)
    BY <2>1, CloseBlocksTyped
  <2>4. wire' \in Seq(Blocks) /\ werr' \in BOOLEAN
    <3> HIDE DEF bs
    <3> QED BY <2>2, <2>3, SendTyped
  <2>5. hd1 \in Handles
    BY <2>1, SioCloseTyped
  <2> HIDE DEF hd1
  <2>6. [hd1 EXCEPT !.ack = Acked(handles[s], o.err)] \in Handles
    BY <2>1, <2>5 DEF Handles, Acked
  <2>7. handles' \in Seq(Handles) /\ Len(handles') = Len(handles)
    BY <2>1, <2>2, <2>6, ExceptSeq
  <2> QED BY <1>9, <2>4, <2>7 DEF CloseEncrypted
<1>10. CASE CloseWriter
  <2>1. PICK o \in SendOutcomes(<< EOFBlock >>) :
          Send(o) /\ closes' = Append(closes, IF o.err THEN "err" ELSE "ok")
    BY <1>10 DEF CloseWriter
  <2>2. << EOFBlock >> \in Seq(Blocks)
    BY BlockTypes
  <2>3. wire' \in Seq(Blocks) /\ werr' \in BOOLEAN
    BY <2>1, <2>2, SendTyped
  <2>4. closes' \in Seq({"ok", "err"})
    BY <2>1, AppendProperties
  <2> QED BY <1>10, <2>3, <2>4 DEF CloseWriter
<1>11. CASE UNCHANGED wvars
  BY <1>11 DEF wvars
<1> QED
  BY <1>1, <1>2, <1>3, <1>4, <1>5, <1>6, <1>7, <1>8, <1>9, <1>10, <1>11 DEF Next

\* TypeOK holds in every reachable state, whatever the io.Writer does and
\* whether or not the caller keeps the contract.
THEOREM WriterTypeCorrect == Spec => []TypeOK
<1>1. Init => TypeOK
  BY WriterTypeInit
<1>2. TypeOK /\ [Next]_wvars => TypeOK'
  BY WriterTypeStep
<1> QED BY <1>1, <1>2, PTL DEF Spec

----------------------------------------------------------------------------
(* A failed io.Writer ends the output.                                      *)

\* No action sends anything but through SendOutcomes, which leaves the wire
\* alone once the error is set.
THEOREM WriterNothingAfterFailure == Spec => NothingAfterFailure
<1>1. TypeOK /\ [Next]_wvars => [werr => wire' = wire]_wvars
  <2> SUFFICES ASSUME TypeOK, Next, werr PROVE wire' = wire
    BY DEF wvars
  <2>1. \A bs, o : o \in SendOutcomes(bs) /\ Send(o) => wire' = wire
    BY DEF SendOutcomes, Sticky, Send
  <2>2. AddKeyPlain \/ AddError \/ AddUnencryptedStream \/ AddEncryptedStream
          => wire' = wire
    BY DEF AddKeyPlain, AddError, AddUnencryptedStream, AddEncryptedStream
  <2>3. ASSUME NEW p \in PubKeys, AddKeyEncrypted(p) PROVE wire' = wire
    BY <2>3 DEF AddKeyEncrypted
  <2>4. ASSUME NEW s, NEW c, WritePlain(s, c) PROVE wire' = wire
    BY <2>4, <2>1 DEF WritePlain
  <2>5. ASSUME NEW s, NEW c, WriteEncrypted(s, c) PROVE wire' = wire
    BY <2>5, <2>1 DEF WriteEncrypted
  <2>6. ASSUME NEW s, ClosePlain(s) PROVE wire' = wire
    BY <2>6, <2>1 DEF ClosePlain
  <2>7. ASSUME NEW s, CloseEncrypted(s) PROVE wire' = wire
    BY <2>7, <2>1 DEF CloseEncrypted
  <2>8. CloseWriter => wire' = wire
    BY <2>1 DEF CloseWriter
  <2> QED BY <2>2, <2>3, <2>4, <2>5, <2>6, <2>7, <2>8 DEF Next
<1> QED BY <1>1, WriterTypeCorrect, PTL DEF Spec, NothingAfterFailure

----------------------------------------------------------------------------
(* Nonces.  Inductive invariant: the counter is above every nonce on the    *)
(* wire, so the next header cannot repeat one.                              *)

NonceBelow == \A i \in DOMAIN wire :
                KindAt(i) = "EncStream" => wire[i].nonce \in 0..(nonce - 1)
NonceInv   == TypeOK /\ NonceBelow /\ NonceUnique

\* A send without an EncStream header keeps the headers on the wire.
LEMMA NoHeaderSend ==
  ASSUME NonceInv, NEW bs \in Seq(Blocks), NEW o \in SendOutcomes(bs), Send(o),
         \A i \in 1..Len(bs) : bs[i].kind # "EncStream", nonce' = nonce
  PROVE  NonceBelow' /\ NonceUnique'
<1>1. PICK t : Extends(bs, t) /\ wire' = wire \o t
  BY SendExtends DEF NonceInv, TypeOK, Send
<1>2. t \in Seq(Blocks) /\ wire \in Seq(Blocks)
      /\ \A i \in 1..Len(t) : t[i].kind # "EncStream"
  BY <1>1 DEF Extends, NonceInv, TypeOK
<1>3. wire' \in Seq(Blocks)
      /\ \A i \in DOMAIN wire' : wire'[i].kind = "EncStream" =>
           i \in DOMAIN wire /\ wire'[i] = wire[i]
  <2>1. /\ wire' \in Seq(Blocks)
        /\ Len(wire') = Len(wire) + Len(t)
        /\ \A i \in 1..(Len(wire) + Len(t)) :
             wire'[i] = IF i <= Len(wire) THEN wire[i] ELSE t[i - Len(wire)]
    BY <1>1, <1>2, ConcatProperties
  <2>2. ASSUME NEW i \in DOMAIN wire', wire'[i].kind = "EncStream"
        PROVE  i \in DOMAIN wire /\ wire'[i] = wire[i]
    <3>1. CASE i <= Len(wire)
      BY <3>1, <1>2, <2>1
    <3>2. CASE i > Len(wire)
      <4>1. i - Len(wire) \in 1..Len(t) /\ wire'[i] = t[i - Len(wire)]
        BY <3>2, <1>2, <2>1
      <4> QED BY <4>1, <1>2, <2>2
    <3> QED BY <3>1, <3>2, <1>2, <2>1
  <2> QED BY <2>1, <2>2
<1> QED BY <1>3 DEF NonceInv, NonceBelow, NonceUnique, KindAt

\* No two encrypted streams of one output have the same nonce: the counter is
\* advanced before the header is sent (AddEncryptedStream, writer.go:175), and
\* the headers on the wire stay below it (NonceInv).
THEOREM WriterNonceUnique == Spec => []NonceUnique
<1>1. Init => NonceInv
  <2> SUFFICES ASSUME Init PROVE NonceBelow /\ NonceUnique
    BY WriterTypeInit DEF NonceInv
  <2>1. \A i \in DOMAIN wire : wire[i].kind # "EncStream"
    BY BlockKinds DEF Init
  <2> QED BY <2>1 DEF NonceBelow, NonceUnique, KindAt
<1>2. NonceInv /\ [Next]_wvars => NonceInv'
  <2> SUFFICES ASSUME NonceInv, [Next]_wvars PROVE NonceBelow' /\ NonceUnique'
    BY WriterTypeStep DEF NonceInv
  <2> DEFINE Plain(bs) == /\ bs \in Seq(Blocks)
                          /\ \A i \in 1..Len(bs) : bs[i].kind # "EncStream"
  <2>0. TypeOK
    BY DEF NonceInv
  <2>1. ASSUME NEW bs, Plain(bs), NEW o \in SendOutcomes(bs), Send(o), nonce' = nonce
        PROVE  NonceBelow' /\ NonceUnique'
    BY <2>1, NoHeaderSend
  <2>2. ASSUME wire' = wire, nonce' = nonce PROVE NonceBelow' /\ NonceUnique'
    BY <2>2 DEF NonceInv, NonceBelow, NonceUnique, KindAt
  <2>3. \A b \in Blocks : b.kind # "EncStream" => Plain(<< b >>)
    BY SmallSeqs
  <2> HIDE DEF Plain
  <2>4. CASE AddKeyPlain
    <3>1. nkeys' \in 1..MaxKeys
      BY <2>0, <2>4, WriterAssumption DEF AddKeyPlain, TypeOK
    <3>2. Plain(<< PlainKey(nkeys') >>)
      BY <2>3, <3>1, BlockTypes, BlockKinds
    <3> QED BY <2>1, <2>4, <3>2 DEF AddKeyPlain
  <2>5. ASSUME NEW p \in PubKeys, AddKeyEncrypted(p) PROVE NonceBelow' /\ NonceUnique'
    <3>1. nkeys' \in 1..MaxKeys
      BY <2>0, <2>5, WriterAssumption DEF AddKeyEncrypted, TypeOK
    <3>2. Plain(<< EncryptedKey(p, nkeys') >>)
      BY <2>3, <3>1, BlockTypes, BlockKinds
    <3> QED BY <2>1, <2>2, <2>5, <3>2 DEF AddKeyEncrypted
  <2>6. CASE AddError
    <3>1. Plain(<< ErrorBlock >>)
      BY <2>3, BlockTypes, BlockKinds
    <3> QED BY <2>1, <2>6, <3>1 DEF AddError
  <2>7. CASE AddUnencryptedStream
    <3>1. Plain(<< PlainStream(Len(handles) + 1) >>)
      BY <2>0, <2>3, BlockTypes, BlockKinds DEF TypeOK
    <3> QED BY <2>1, <2>7, <3>1 DEF AddUnencryptedStream
  <2>8. CASE AddEncryptedStream
    <3> DEFINE b == EncStream(Len(handles) + 1, nonce)
    <3>1. b \in Blocks /\ b.nonce = nonce /\ nonce \in Nat
      BY <2>0, BlockTypes, BlockKinds DEF TypeOK
    <3>2. << b >> \in Seq(Blocks) /\ Len(<< b >>) = 1 /\ << b >>[1] = b
      BY <3>1, SmallSeqs
    <3>3. nonce' = nonce + 1
      BY <2>0, <2>8, WriterAssumption DEF AddEncryptedStream, NextNonce, TypeOK
    <3>4. PICK o \in SendOutcomes(<< b >>) : Send(o)
      BY <2>8 DEF AddEncryptedStream
    <3> HIDE DEF b
    <3>5. PICK t : Extends(<< b >>, t) /\ wire' = wire \o t
      BY <2>0, <3>2, <3>4, SendExtends DEF TypeOK, Send
    <3>6. /\ t \in Seq(Blocks) /\ Len(t) <= 1
          /\ \A i \in 1..Len(t) : i = 1 /\ (t[i].kind = "Partial" \/ t[i] = b)
      BY <3>2, <3>5 DEF Extends
    <3>7. /\ wire \in Seq(Blocks) /\ wire' \in Seq(Blocks)
          /\ Len(wire') = Len(wire) + Len(t)
          /\ \A i \in 1..(Len(wire) + Len(t)) :
               wire'[i] = IF i <= Len(wire) THEN wire[i] ELSE t[i - Len(wire)]
      BY <2>0, <3>5, <3>6, ConcatProperties DEF TypeOK
    <3>8. ASSUME NEW i \in DOMAIN wire', wire'[i].kind = "EncStream"
          PROVE  \/ i \in DOMAIN wire /\ wire'[i] = wire[i]
                 \/ i = Len(wire) + 1 /\ wire'[i].nonce = nonce
      <4>1. CASE i <= Len(wire)
        BY <4>1, <3>7
      <4>2. CASE i > Len(wire)
        <5>1. i - Len(wire) \in 1..Len(t) /\ wire'[i] = t[i - Len(wire)]
          BY <4>2, <3>6, <3>7
        <5>2. i - Len(wire) = 1 /\ t[1] = b
          BY <5>1, <3>6, <3>8
        <5>3. i = Len(wire) + 1
          BY <5>2, <3>7
        <5> QED BY <5>1, <5>2, <5>3, <3>1
      <4> QED BY <4>1, <4>2, <3>7
    <3>9. NonceBelow'
      <4>1. nonce \in 0..(nonce' - 1)
        BY <3>1, <3>3
      <4>2. \A n \in 0..(nonce - 1) : n \in 0..(nonce' - 1)
        BY <3>1, <3>3
      <4>3. ASSUME NEW i \in DOMAIN wire', wire'[i].kind = "EncStream"
            PROVE  wire'[i].nonce \in 0..(nonce' - 1)
        BY <4>1, <4>2, <4>3, <3>8 DEF NonceInv, NonceBelow, KindAt
      <4> QED BY <4>3 DEF NonceBelow, KindAt
    <3>10. NonceUnique'
      BY <3>1, <3>8 DEF NonceInv, NonceBelow, NonceUnique, KindAt
    <3> QED BY <3>9, <3>10
  <2>9. ASSUME NEW s \in Opened, NEW c \in Chunks, WritePlain(s, c)
        PROVE  NonceBelow' /\ NonceUnique'
    <3>1. Plain(<< Datablock(Clear(<< c >>)) >>)
      BY <2>3, PayloadTypes, BlockTypes, BlockKinds
    <3> QED BY <2>1, <2>9, <3>1 DEF WritePlain
  <2>10. \A s \in Opened : handles[s] \in Handles
    BY <2>0 DEF TypeOK, Opened
  <2>11. ASSUME NEW s \in Opened, NEW c \in Chunks, WriteEncrypted(s, c)
         PROVE  NonceBelow' /\ NonceUnique'
    <3>1. Plain(<< Datablock(Fragment(handles[s], FALSE)) >>)
      BY <2>3, <2>10, PayloadTypes, BlockTypes, BlockKinds
    <3>2. nonce' = nonce
      BY <2>11 DEF WriteEncrypted
    <3>3. wire' = wire \/ \E o \in SendOutcomes(<< Datablock(Fragment(handles[s], FALSE)) >>) : Send(o)
      BY <2>11 DEF WriteEncrypted
    <3> QED BY <2>1, <2>2, <3>1, <3>2, <3>3
  <2>12. ASSUME NEW s \in Opened, ClosePlain(s) PROVE NonceBelow' /\ NonceUnique'
    <3>1. handles[s].sum \in Seq(Payloads)
      BY <2>10 DEF Handles
    <3>2. Plain(<< >>) /\ Plain(<< EOS(handles[s].sum) >>)
      BY <2>3, <3>1, BlockTypes, BlockKinds DEF Plain
    <3>3. Plain(EOSBlocks(handles[s]))
      BY <3>2 DEF EOSBlocks
    <3> QED BY <2>1, <2>12, <3>3 DEF ClosePlain
  <2>13. ASSUME NEW s \in Opened, CloseEncrypted(s) PROVE NonceBelow' /\ NonceUnique'
    <3> DEFINE hd1 == AfterSioClose(handles[s])
               two == << Datablock(Fragment(handles[s], TRUE)), EOS(hd1.sum) >>
               bs  == two \o EOSBlocks(hd1)
    <3>1. bs \in Seq(Blocks) /\ EOSBlocks(hd1) = << >>
      BY <2>10, CloseBlocksTyped, SioCloseTyped DEF EOSBlocks
    <3>2. bs = two
      BY <3>1
    <3>3. Plain(bs)
      <4> DEFINE e == Datablock(Fragment(handles[s], TRUE))
                 f == EOS(hd1.sum)
      <4>0. e.kind # "EncStream" /\ f.kind # "EncStream"
        BY BlockKinds
      <4>1. \A i \in 1..Len(two) : two[i].kind # "EncStream"
        <5> HIDE DEF e, f
        <5>1. \A i \in 1..Len(<< e, f >>) : << e, f >>[i].kind # "EncStream"
          BY <4>0, PairKinds
        <5> QED BY <5>1 DEF e, f
      <4> HIDE DEF two
      <4> QED BY <4>1, <3>1, <3>2 DEF Plain
    <3>4. nonce' = nonce /\ \E o \in SendOutcomes(bs) : Send(o)
      BY <2>13 DEF CloseEncrypted
    <3> HIDE DEF bs
    <3> QED BY <2>1, <3>3, <3>4
  <2>14. CASE CloseWriter
    <3>1. Plain(<< EOFBlock >>)
      BY <2>3, BlockTypes, BlockKinds
    <3> QED BY <2>1, <2>14, <3>1 DEF CloseWriter
  <2>15. CASE UNCHANGED wvars
    BY <2>2, <2>15 DEF wvars
  <2> QED
    BY <2>4, <2>5, <2>6, <2>7, <2>8, <2>9, <2>11, <2>12, <2>13, <2>14, <2>15 DEF Next
<1> QED BY <1>1, <1>2, PTL DEF Spec, NonceInv

----------------------------------------------------------------------------
(* Keys.  Inductive invariant: without an error the key in use is that of    *)
(* the last key block on the wire, and every handle seals with the key that  *)
(* was the last before the header of its stream.                            *)

\* A header with nonce n follows the block of key k and no other key's.
HeaderFor(k, n) ==
  \E h \in DOMAIN wire : KindAt(h) = "EncStream" /\ wire[h].nonce = n /\ LatestKeyIs(h, k)

CurrentKey == ~werr /\ wkey # NoKey => LatestKeyIs(Len(wire) + 1, wkey)
HandleKeys ==
  \A s \in Opened : handles[s].enc => HeaderFor(handles[s].key, handles[s].nonce)
SealInv == TypeOK /\ CurrentKey /\ HandleKeys /\ SealedWithLatestKey

\* A fragment in block b has a header that a reader will find.
HasHeader(b) ==
  b.kind = "Datablock" /\ b.payload.key # NoKey => HeaderFor(b.payload.key, b.payload.nonce)

\* What is on the wire stays what it is when more follows.
LEMMA WireGrows ==
  ASSUME wire \in Seq(Blocks), NEW t \in Seq(Blocks), wire' = wire \o t
  PROVE  /\ wire' \in Seq(Blocks) /\ Len(wire') = Len(wire) + Len(t)
         /\ \A i \in 1..Len(wire) : wire'[i] = wire[i]
         /\ \A i \in 1..Len(t) : wire'[Len(wire) + i] = t[i]
         /\ \A i \in DOMAIN wire' : i \in DOMAIN wire \/ i - Len(wire) \in 1..Len(t)
<1>1. /\ wire' \in Seq(Blocks)
      /\ Len(wire') = Len(wire) + Len(t)
      /\ \A i \in 1..(Len(wire) + Len(t)) :
           wire'[i] = IF i <= Len(wire) THEN wire[i] ELSE t[i - Len(wire)]
  BY ConcatProperties
<1>2. Len(wire) \in Nat /\ Len(t) \in Nat /\ DOMAIN wire = 1..Len(wire) /\ DOMAIN wire' = 1..Len(wire')
  BY <1>1
<1>3. ASSUME NEW i \in 1..Len(t) PROVE wire'[Len(wire) + i] = t[i]
  <2>1. Len(wire) + i \in 1..(Len(wire) + Len(t)) /\ ~(Len(wire) + i <= Len(wire))
        /\ (Len(wire) + i) - Len(wire) = i
    BY <1>2
  <2> QED BY <1>1, <2>1
<1> QED BY <1>1, <1>2, <1>3

\* Which key is the last before a block depends on what precedes it only, and
\* blocks that are no key blocks leave the last key as it was.
LEMMA LatestKeyStays ==
  ASSUME wire \in Seq(Blocks), NEW t \in Seq(Blocks), wire' = wire \o t, NEW k
  PROVE  /\ \A h \in 1..(Len(wire) + 1) : LatestKeyIs(h, k) => LatestKeyIs(h, k)'
         /\ (\A i \in 1..Len(t) : t[i].kind \notin KeyKinds) =>
              (LatestKeyIs(Len(wire) + 1, k) => LatestKeyIs(Len(wire) + 1, k)')
<1>0. Len(wire) \in Nat /\ Len(t) \in Nat
  OBVIOUS
<1>1. /\ \A i \in 1..Len(wire) : wire'[i] = wire[i]
      /\ \A i \in 1..Len(t) : wire'[Len(wire) + i] = t[i]
  BY WireGrows
<1>2. ASSUME NEW h \in 1..(Len(wire) + 1), LatestKeyIs(h, k) PROVE LatestKeyIs(h, k)'
  <2>1. PICK j \in 1..(h - 1) :
          /\ KindAt(j) \in KeyKinds /\ wire[j].key = k
          /\ \A m \in (j + 1)..(h - 1) : KindAt(m) \notin KeyKinds
    BY <1>2 DEF LatestKeyIs
  <2>2. \A m \in 1..(h - 1) : wire'[m] = wire[m]
    BY <1>0, <1>1
  <2>3. \A m \in (j + 1)..(h - 1) : m \in 1..(h - 1)
    BY <1>0
  <2> QED BY <2>1, <2>2, <2>3 DEF LatestKeyIs, KindAt
<1>3. ASSUME \A i \in 1..Len(t) : t[i].kind \notin KeyKinds, LatestKeyIs(Len(wire) + 1, k)
      PROVE  LatestKeyIs(Len(wire) + 1, k)'
  <2>1. PICK j \in 1..Len(wire) :
          /\ KindAt(j) \in KeyKinds /\ wire[j].key = k
          /\ \A m \in (j + 1)..Len(wire) : KindAt(m) \notin KeyKinds
    BY <1>0, <1>3 DEF LatestKeyIs
  <2>2. ASSUME NEW m \in (j + 1)..(Len(wire) + Len(t)) PROVE wire'[m].kind \notin KeyKinds
    <3>1. CASE m <= Len(wire)
      BY <1>0, <1>1, <2>1, <3>1 DEF KindAt
    <3>2. CASE m > Len(wire)
      <4>1. m - Len(wire) \in 1..Len(t) /\ Len(wire) + (m - Len(wire)) = m
        BY <1>0, <3>2
      <4> QED BY <1>1, <1>3, <4>1
    <3> QED BY <1>0, <3>1, <3>2
  <2>3. j \in 1..(Len(wire) + Len(t)) /\ wire'[j] = wire[j]
    BY <1>0, <1>1
  <2>4. (Len(wire') + 1) - 1 = Len(wire) + Len(t)
    BY <1>0, WireGrows
  <2>5. wire'[j].kind \in KeyKinds /\ wire'[j].key = k
    BY <2>1, <2>3 DEF KindAt
  <2> QED BY <2>2, <2>3, <2>4, <2>5 DEF LatestKeyIs, KindAt
<1> QED BY <1>2, <1>3

\* A header stays where it is.
LEMMA HeaderStays ==
  ASSUME wire \in Seq(Blocks), NEW t \in Seq(Blocks), wire' = wire \o t, NEW k, NEW n,
         HeaderFor(k, n)
  PROVE  HeaderFor(k, n)'
<1>1. PICK h \in DOMAIN wire :
        KindAt(h) = "EncStream" /\ wire[h].nonce = n /\ LatestKeyIs(h, k)
  BY DEF HeaderFor
<1>2. h \in 1..Len(wire) /\ h \in 1..(Len(wire) + 1) /\ h \in DOMAIN wire' /\ wire'[h] = wire[h]
  BY WireGrows
<1>3. LatestKeyIs(h, k)'
  BY <1>1, <1>2, LatestKeyStays
<1> QED BY <1>1, <1>2, <1>3 DEF HeaderFor, KindAt

\* A send keeps every header, and what it adds is sealed with the latest key if
\* the blocks sent are.
LEMMA SendKeepsSeals ==
  ASSUME SealInv, NEW bs \in Seq(Blocks), NEW o \in SendOutcomes(bs), Send(o),
         \A i \in 1..Len(bs) : HasHeader(bs[i])
  PROVE  /\ \A k, n : HeaderFor(k, n) => HeaderFor(k, n)'
         /\ SealedWithLatestKey'
<1>0. wire \in Seq(Blocks) /\ Len(wire) \in Nat
  BY DEF SealInv, TypeOK
<1>1. PICK t : Extends(bs, t) /\ wire' = wire \o t
  BY SendExtends DEF SealInv, TypeOK, Send
<1>2. t \in Seq(Blocks)
  BY <1>1 DEF Extends
<1>3. \A k, n : HeaderFor(k, n) => HeaderFor(k, n)'
  BY <1>0, <1>1, <1>2, HeaderStays
<1>4. ASSUME NEW i \in DOMAIN wire', NEW k, NEW n, wire'[i].kind = "Datablock", k # NoKey,
             wire'[i].payload.key = k, wire'[i].payload.nonce = n
      PROVE  \E h \in 1..(i - 1) :
               wire'[h].kind = "EncStream" /\ wire'[h].nonce = n /\ LatestKeyIs(h, k)'
  <2>1. PICK h \in 1..(i - 1) :
          /\ h \in 1..Len(wire) /\ KindAt(h) = "EncStream" /\ wire[h].nonce = n
          /\ LatestKeyIs(h, k)
    <3>1. CASE i \in DOMAIN wire
      <4>1. wire'[i] = wire[i] /\ i \in 1..Len(wire)
        BY <1>0, <1>1, <1>2, <3>1, WireGrows
      <4>2. PICK h \in 1..(i - 1) :
              KindAt(h) = "EncStream" /\ wire[h].nonce = n /\ LatestKeyIs(h, k)
        BY <1>4, <3>1, <4>1 DEF SealInv, SealedWithLatestKey, KindAt
      <4> QED BY <1>0, <4>1, <4>2
    <3>2. CASE i \notin DOMAIN wire
      <4> DEFINE b == t[i - Len(wire)]
      <4>1. i - Len(wire) \in 1..Len(t) /\ wire'[i] = b /\ i > Len(wire) /\ i \in Int
        <5>1. i - Len(wire) \in 1..Len(t) /\ i \in Int
          BY <1>0, <1>1, <1>2, <3>2, WireGrows
        <5>2. Len(wire) + (i - Len(wire)) = i /\ i > Len(wire)
          BY <1>0, <5>1
        <5> QED BY <1>0, <1>1, <1>2, <5>1, <5>2, WireGrows
      <4>2. b.kind = "Datablock" /\ HasHeader(b)
        BY <1>1, <1>4, <4>1 DEF Extends, KindAt
      <4>3. HeaderFor(k, n)
        BY <1>4, <4>1, <4>2 DEF HasHeader
      <4>4. PICK h \in DOMAIN wire :
              KindAt(h) = "EncStream" /\ wire[h].nonce = n /\ LatestKeyIs(h, k)
        BY <4>3 DEF HeaderFor
      <4>5. h \in 1..Len(wire) /\ h \in 1..(i - 1)
        BY <1>0, <4>1, <4>4
      <4> QED BY <4>4, <4>5
    <3> QED BY <3>1, <3>2
  <2>2. wire'[h] = wire[h] /\ h \in 1..(Len(wire) + 1)
    BY <1>0, <1>1, <1>2, <2>1, WireGrows
  <2>3. LatestKeyIs(h, k)'
    BY <1>0, <1>1, <1>2, <2>1, <2>2, LatestKeyStays
  <2> QED BY <2>1, <2>2, <2>3 DEF KindAt
<1>5. SealedWithLatestKey'
  BY <1>4 DEF SealedWithLatestKey, KindAt
<1> QED BY <1>3, <1>5

\* A send without a key block leaves the last key as it was.
LEMMA SendKeepsKey ==
  ASSUME SealInv, NEW bs \in Seq(Blocks), NEW o \in SendOutcomes(bs), Send(o), wkey' = wkey,
         \A i \in 1..Len(bs) : bs[i].kind \notin KeyKinds
  PROVE  CurrentKey'
<1> SUFFICES ASSUME ~werr', wkey # NoKey PROVE LatestKeyIs(Len(wire) + 1, wkey)'
  BY DEF CurrentKey
<1>0. wire \in Seq(Blocks) /\ Len(wire) \in Nat
  BY DEF SealInv, TypeOK
<1>1. PICK t : Extends(bs, t) /\ wire' = wire \o t
  BY SendExtends DEF SealInv, TypeOK, Send
<1>2. ~werr
  BY SendExtends DEF SealInv, TypeOK, Send
<1>3. t \in Seq(Blocks) /\ \A i \in 1..Len(t) : t[i].kind \notin KeyKinds
  BY <1>1 DEF Extends, KeyKinds
<1>4. LatestKeyIs(Len(wire) + 1, wkey)
  BY <1>2 DEF SealInv, CurrentKey
<1>5. LatestKeyIs(Len(wire) + 1, wkey)'
  BY <1>0, <1>1, <1>3, <1>4, LatestKeyStays
<1> QED BY <1>5

\* The handles keep their keys; a new one is not encrypted.
KeysStay ==
  \A s \in Opened' : handles'[s].enc =>
    /\ s \in Opened /\ handles[s].enc
    /\ handles'[s].key = handles[s].key /\ handles'[s].nonce = handles[s].nonce

Tame(bs) == bs \in Seq(Blocks) /\ \A i \in 1..Len(bs) : bs[i].kind \notin KeyKinds /\ HasHeader(bs[i])

LEMMA TameSend ==
  ASSUME SealInv, NEW bs, Tame(bs), NEW o \in SendOutcomes(bs), Send(o), wkey' = wkey, KeysStay
  PROVE  CurrentKey' /\ HandleKeys' /\ SealedWithLatestKey'
<1>1. bs \in Seq(Blocks) /\ \A i \in 1..Len(bs) : bs[i].kind \notin KeyKinds /\ HasHeader(bs[i])
  BY DEF Tame
<1>2. CurrentKey'
  BY <1>1, SendKeepsKey
<1>3. SealedWithLatestKey' /\ \A k, n : HeaderFor(k, n) => HeaderFor(k, n)'
  BY <1>1, SendKeepsSeals
<1>4. HandleKeys'
  BY <1>3 DEF KeysStay, HandleKeys, SealInv
<1> QED BY <1>2, <1>3, <1>4

\* A send without an error puts all its blocks on the wire.
LEMMA SentWhole ==
  ASSUME werr \in BOOLEAN, NEW bs, NEW o \in SendOutcomes(bs), Send(o), ~werr'
  PROVE  wire' = wire \o bs
BY DEF SendOutcomes, Sticky, Faults, Send

\* A new key: it is the last one when its block is on the wire.
LEMMA KeySend ==
  ASSUME SealInv, NEW b \in Blocks, b.kind \in KeyKinds, NEW o \in SendOutcomes(<< b >>), Send(o),
         wkey' = b.key, handles' = handles
  PROVE  CurrentKey' /\ HandleKeys' /\ SealedWithLatestKey'
<1>0. wire \in Seq(Blocks) /\ Len(wire) \in Nat /\ << b >> \in Seq(Blocks) /\ Len(<< b >>) = 1 /\ << b >>[1] = b
  BY SmallSeqs DEF SealInv, TypeOK
<1>1. \A i \in 1..Len(<< b >>) : HasHeader(<< b >>[i])
  BY <1>0 DEF HasHeader, KeyKinds
<1>2. SealedWithLatestKey' /\ \A k, n : HeaderFor(k, n) => HeaderFor(k, n)'
  BY <1>0, <1>1, SendKeepsSeals
<1>3. HandleKeys'
  BY <1>2 DEF HandleKeys, SealInv, Opened
<1>4. ASSUME ~werr' PROVE LatestKeyIs(Len(wire) + 1, wkey)'
  <2>1. wire' = wire \o << b >>
    BY <1>4, SentWhole DEF SealInv, TypeOK
  <2>2. Len(wire') = Len(wire) + 1 /\ wire'[Len(wire) + 1] = b
    BY <1>0, <2>1, WireGrows
  <2>3. /\ Len(wire) + 1 \in 1..((Len(wire') + 1) - 1)
        /\ \A m \in ((Len(wire) + 1) + 1)..((Len(wire') + 1) - 1) : FALSE
    BY <1>0, <2>2
  <2> QED BY <2>2, <2>3 DEF LatestKeyIs, KindAt
<1> QED BY <1>2, <1>3, <1>4 DEF CurrentKey

LEMMA KeysKeepInv ==
  ASSUME SealInv, AddKeyPlain \/ \E q \in PubKeys : AddKeyEncrypted(q)
  PROVE  CurrentKey' /\ HandleKeys' /\ SealedWithLatestKey'
<1>0. TypeOK
  BY DEF SealInv
<1>1. CASE AddKeyPlain
  <2>1. nkeys' \in 1..MaxKeys
    BY <1>0, <1>1, WriterAssumption DEF AddKeyPlain, TypeOK
  <2>2. PlainKey(nkeys') \in Blocks
    BY <2>1, BlockTypes
  <2>3. PlainKey(nkeys').kind \in KeyKinds /\ PlainKey(nkeys').key = nkeys'
    BY DEF PlainKey, KeyKinds
  <2> QED BY <1>1, <2>2, <2>3, KeySend DEF AddKeyPlain
<1>2. ASSUME NEW q \in PubKeys, AddKeyEncrypted(q)
      PROVE  CurrentKey' /\ HandleKeys' /\ SealedWithLatestKey'
  <2>1. CASE q \in WeakKeys
    <3>1. werr' /\ wire' = wire /\ handles' = handles
      BY <1>2, <2>1 DEF AddKeyEncrypted
    <3> QED BY <3>1 DEF SealInv, CurrentKey, HandleKeys, SealedWithLatestKey, HeaderFor, LatestKeyIs,
                        KindAt, Opened
  <2>2. CASE q \notin WeakKeys
    <3>1. nkeys' \in 1..MaxKeys
      BY <1>0, <1>2, WriterAssumption DEF AddKeyEncrypted, TypeOK
    <3>2. EncryptedKey(q, nkeys') \in Blocks
      BY <3>1, BlockTypes
    <3>3. EncryptedKey(q, nkeys').kind \in KeyKinds /\ EncryptedKey(q, nkeys').key = nkeys'
      BY DEF EncryptedKey, KeyKinds
    <3> QED BY <1>2, <2>2, <3>2, <3>3, KeySend DEF AddKeyEncrypted
  <2> QED BY <2>1, <2>2
<1> QED BY <1>1, <1>2

\* A new handle leaves the others alone.
LEMMA OneMoreHandle ==
  ASSUME handles \in Seq(Handles), NEW new \in Handles, handles' = Append(handles, new)
  PROVE  /\ Opened' = 1..(Len(handles) + 1) /\ handles'[Len(handles) + 1] = new
         /\ \A s \in 1..Len(handles) : handles'[s] = handles[s]
         /\ Opened = 1..Len(handles) /\ Len(handles) \in Nat
<1>1. /\ handles' \in Seq(Handles) /\ Len(handles') = Len(handles) + 1
      /\ handles'[Len(handles) + 1] = new
      /\ \A s \in 1..Len(handles) : handles'[s] = handles[s]
  BY AppendProperties
<1>2. DOMAIN handles' = 1..Len(handles') /\ DOMAIN handles = 1..Len(handles) /\ Len(handles) \in Nat
  BY <1>1
<1> QED BY <1>1, <1>2 DEF Opened

\* A new encrypted stream: its header follows the key that its handle gets.
LEMMA EncryptedStreamKeepsInv ==
  ASSUME SealInv, AddEncryptedStream
  PROVE  CurrentKey' /\ HandleKeys' /\ SealedWithLatestKey'
<1> DEFINE b == EncStream(Len(handles) + 1, nonce)
<1>0. TypeOK /\ ~werr /\ wkey # NoKey /\ wkey' = wkey
  BY DEF SealInv, AddEncryptedStream
<1>1. b \in Blocks /\ b.kind = "EncStream" /\ b.nonce = nonce
  BY <1>0, BlockTypes, BlockKinds DEF TypeOK
<1>2. PICK o \in SendOutcomes(<< b >>) :
        Send(o) /\ handles' = IF o.err THEN handles ELSE Append(handles, Handle(TRUE, wkey, nonce))
  BY DEF AddEncryptedStream
<1> HIDE DEF b
<1>3. wire \in Seq(Blocks) /\ Len(wire) \in Nat /\ << b >> \in Seq(Blocks) /\ Len(<< b >>) = 1 /\ << b >>[1] = b
  BY <1>0, <1>1, SmallSeqs DEF TypeOK
<1>4. \A i \in 1..Len(<< b >>) : HasHeader(<< b >>[i]) /\ << b >>[i].kind \notin KeyKinds
  BY <1>1, <1>3 DEF HasHeader, KeyKinds
<1>5. SealedWithLatestKey' /\ \A k, n : HeaderFor(k, n) => HeaderFor(k, n)'
  BY <1>2, <1>3, <1>4, SendKeepsSeals
<1>6. CurrentKey'
  BY <1>0, <1>2, <1>3, <1>4, SendKeepsKey
<1>7. CASE o.err
  <2>1. handles' = handles
    BY <1>2, <1>7
  <2>2. HandleKeys'
    BY <1>5, <2>1 DEF HandleKeys, SealInv, Opened
  <2> QED BY <1>5, <1>6, <2>2
<1>8. CASE ~o.err
  <2>1. wire' = wire \o << b >>
    BY <1>0, <1>2, <1>8, SentWhole DEF TypeOK, Send
  <2>2. Len(wire) + 1 \in DOMAIN wire' /\ wire'[Len(wire) + 1] = b
    BY <1>3, <2>1, WireGrows
  <2>3. LatestKeyIs(Len(wire) + 1, wkey)
    BY <1>0 DEF SealInv, CurrentKey
  <2>4. ASSUME NEW h, h = Len(wire) + 1, NEW k, k = wkey PROVE LatestKeyIs(h, k)'
    <3>1. h \in 1..(Len(wire) + 1) /\ LatestKeyIs(h, k)
      BY <1>3, <2>3, <2>4
    <3> QED BY <1>3, <2>1, <3>1, LatestKeyStays
  <2>5. ASSUME NEW k, k = wkey, NEW n, n = nonce PROVE HeaderFor(k, n)'
    BY <1>1, <2>2, <2>4, <2>5 DEF HeaderFor, KindAt
  <2>6. /\ Opened' = 1..(Len(handles) + 1) /\ handles'[Len(handles) + 1] = Handle(TRUE, wkey, nonce)
        /\ \A s \in 1..Len(handles) : handles'[s] = handles[s]
        /\ Opened = 1..Len(handles) /\ Len(handles) \in Nat
    <3>1. handles' = Append(handles, Handle(TRUE, wkey, nonce)) /\ handles \in Seq(Handles)
      BY <1>0, <1>2, <1>8 DEF TypeOK
    <3>2. Handle(TRUE, wkey, nonce) \in Handles
      BY <1>0, WriterAssumption DEF Handle, Handles, TypeOK
    <3> QED BY <3>1, <3>2, OneMoreHandle
  <2>7. ASSUME NEW s \in Opened', handles'[s].enc, NEW k, k = handles'[s].key, NEW n, n = handles'[s].nonce
        PROVE  HeaderFor(k, n)'
    <3>1. CASE s \in Opened
      <4>1. handles'[s] = handles[s]
        BY <2>6, <3>1
      <4> QED BY <1>5, <2>7, <3>1, <4>1 DEF SealInv, HandleKeys
    <3>2. CASE s \notin Opened
      <4>1. handles'[s] = Handle(TRUE, wkey, nonce)
        <5>1. s \in 1..(Len(handles) + 1)
          BY <2>6
        <5>2. s = Len(handles) + 1
          <6> DEFINE n1 == Len(handles)
          <6>1. n1 \in Nat /\ s \in 1..(n1 + 1) /\ s \notin 1..n1
            BY <2>6, <3>2, <5>1
          <6> HIDE DEF n1
          <6>2. s = n1 + 1
            BY <6>1
          <6> QED BY <6>2 DEF n1
        <5> QED BY <2>6, <5>2
      <4>2. k = wkey /\ n = nonce
        BY <2>7, <4>1 DEF Handle
      <4> QED BY <2>5, <4>2
    <3> QED BY <3>1, <3>2
  <2> QED BY <1>5, <1>6, <2>7 DEF HandleKeys
<1> QED BY <1>5, <1>6, <1>7, <1>8

\* Only the fields of a handle that are not its key change.
LEMMA HandleUpdate ==
  ASSUME handles \in Seq(Handles), NEW s \in Opened, NEW new, handles' = [handles EXCEPT ![s] = new],
         new.enc = handles[s].enc, new.key = handles[s].key, new.nonce = handles[s].nonce
  PROVE  KeysStay
BY DEF KeysStay, Opened

\* The data and the ends of streams.
LEMMA StreamKeepsInv ==
  ASSUME SealInv, NEW s \in Opened,
         \/ \E c \in Chunks : WritePlain(s, c) \/ WriteEncrypted(s, c)
         \/ ClosePlain(s) \/ CloseEncrypted(s)
  PROVE  CurrentKey' /\ HandleKeys' /\ SealedWithLatestKey'
<1> DEFINE hd == handles[s]
<1>0. TypeOK /\ handles \in Seq(Handles) /\ hd \in Handles
  BY DEF SealInv, TypeOK, Opened
<1>1. hd.enc => HeaderFor(hd.key, hd.nonce)
  BY DEF SealInv, HandleKeys
<1>2. \A b \in Blocks : b.kind \notin KeyKinds /\ HasHeader(b) => Tame(<< b >>)
  BY SmallSeqs DEF Tame
<1>3. ASSUME NEW last \in BOOLEAN, hd.enc
      PROVE  /\ Datablock(Fragment(hd, last)) \in Blocks
             /\ Datablock(Fragment(hd, last)).kind \notin KeyKinds
             /\ HasHeader(Datablock(Fragment(hd, last)))
  <2>1. Datablock(Fragment(hd, last)) \in Blocks
    BY <1>0, PayloadTypes, BlockTypes
  <2>2. Datablock(Fragment(hd, last)).payload.key = hd.key
        /\ Datablock(Fragment(hd, last)).payload.nonce = hd.nonce
    BY DEF Datablock, Fragment, Sealed
  <2> QED BY <1>1, <1>3, <2>1, <2>2, BlockKinds DEF HasHeader, KeyKinds
<1>4. \A sum \in Seq(Payloads) :
        EOS(sum) \in Blocks /\ EOS(sum).kind \notin KeyKinds /\ HasHeader(EOS(sum))
  BY BlockTypes, BlockKinds DEF HasHeader, KeyKinds
<1>5. Tame(<< >>)
  BY DEF Tame
<1>6. ASSUME wire' = wire, werr' = werr, wkey' = wkey, KeysStay
      PROVE  CurrentKey' /\ HandleKeys' /\ SealedWithLatestKey'
  <2>1. \A k, n : HeaderFor(k, n) => HeaderFor(k, n)'
    BY <1>6 DEF HeaderFor, LatestKeyIs, KindAt
  <2>2. HandleKeys'
    BY <2>1, <1>6 DEF KeysStay, HandleKeys, SealInv
  <2>3. CurrentKey' /\ SealedWithLatestKey'
    BY <1>6 DEF SealInv, CurrentKey, SealedWithLatestKey, LatestKeyIs, KindAt
  <2> QED BY <2>2, <2>3
<1>7. ASSUME NEW c \in Chunks, WritePlain(s, c) PROVE CurrentKey' /\ HandleKeys' /\ SealedWithLatestKey'
  <2> DEFINE b == Datablock(Clear(<< c >>))
             new == [hd EXCEPT !.wrote = Append(@, c), !.sum = Append(@, Clear(<< c >>))]
  <2>1. b \in Blocks /\ b.kind \notin KeyKinds
    BY PayloadTypes, BlockTypes, BlockKinds DEF KeyKinds
  <2>2. b.payload.key = NoKey
    BY DEF Datablock, Clear
  <2>3. Tame(<< b >>)
    BY <1>2, <2>1, <2>2 DEF HasHeader
  <2>4. new.enc = hd.enc /\ new.key = hd.key /\ new.nonce = hd.nonce
    BY <1>0 DEF Handles
  <2>5. KeysStay
    <3>1. handles' = [handles EXCEPT ![s] = new]
      BY <1>7 DEF WritePlain
    <3> HIDE DEF new
    <3> QED BY <1>0, <2>4, <3>1, HandleUpdate
  <2>6. wkey' = wkey /\ \E o \in SendOutcomes(<< b >>) : Send(o)
    BY <1>7 DEF WritePlain
  <2> HIDE DEF b
  <2> QED BY <2>3, <2>5, <2>6, TameSend
<1>8. ASSUME NEW c \in Chunks, WriteEncrypted(s, c) PROVE CurrentKey' /\ HandleKeys' /\ SealedWithLatestKey'
  <2> DEFINE b == Datablock(Fragment(hd, FALSE))
             kept == [hd EXCEPT !.wrote = Append(@, c), !.pend = << c >>]
             next == [hd EXCEPT !.wrote = Append(@, c), !.pend = << c >>, !.frag = @ + 1,
                                !.sum = Append(@, Fragment(hd, FALSE))]
  <2>1. hd.enc /\ wkey' = wkey
    BY <1>8 DEF WriteEncrypted
  <2>2. Tame(<< b >>)
    BY <1>2, <1>3, <2>1
  <2>3. /\ kept.enc = hd.enc /\ kept.key = hd.key /\ kept.nonce = hd.nonce
        /\ next.enc = hd.enc /\ next.key = hd.key /\ next.nonce = hd.nonce
    BY <1>0 DEF Handles
  <2>4. \/ UNCHANGED <<wire, werr>> /\ handles' = [handles EXCEPT ![s] = kept]
        \/ (\E o \in SendOutcomes(<< b >>) : Send(o)) /\ handles' = [handles EXCEPT ![s] = next]
    BY <1>8 DEF WriteEncrypted
  <2> HIDE DEF b, kept, next
  <2>5. KeysStay
    BY <1>0, <2>3, <2>4, HandleUpdate
  <2> QED BY <1>6, <2>1, <2>2, <2>4, <2>5, TameSend
<1>9. ASSUME ClosePlain(s) PROVE CurrentKey' /\ HandleKeys' /\ SealedWithLatestKey'
  <2>1. PICK o \in SendOutcomes(EOSBlocks(hd)) :
          Send(o) /\ handles' = [handles EXCEPT ![s].eosWritten = TRUE, ![s].ack = Acked(hd, o.err)]
    BY <1>9 DEF ClosePlain
  <2>2. hd.sum \in Seq(Payloads)
    BY <1>0 DEF Handles
  <2>3. Tame(EOSBlocks(hd))
    BY <1>2, <1>4, <1>5, <2>2 DEF EOSBlocks
  <2> DEFINE new == [hd EXCEPT !.eosWritten = TRUE, !.ack = Acked(hd, o.err)]
  <2>4. handles' = [handles EXCEPT ![s] = new]
    BY <2>1
  <2>5. new.enc = hd.enc /\ new.key = hd.key /\ new.nonce = hd.nonce
    BY <1>0 DEF Handles
  <2> HIDE DEF new
  <2>6. KeysStay
    BY <1>0, <2>4, <2>5, HandleUpdate
  <2>7. wkey' = wkey
    BY <1>9 DEF ClosePlain
  <2> QED BY <2>1, <2>3, <2>6, <2>7, TameSend
<1>10. ASSUME CloseEncrypted(s) PROVE CurrentKey' /\ HandleKeys' /\ SealedWithLatestKey'
  <2> DEFINE hd1 == AfterSioClose(hd)
             e   == Datablock(Fragment(hd, TRUE))
             f   == EOS(hd1.sum)
             bs  == << e, f >> \o EOSBlocks(hd1)
  <2>1. PICK o \in SendOutcomes(bs) :
          Send(o) /\ handles' = [handles EXCEPT ![s] = [hd1 EXCEPT !.ack = Acked(hd, o.err)]]
    BY <1>10 DEF CloseEncrypted
  <2>2. hd.enc /\ wkey' = wkey
    BY <1>10 DEF CloseEncrypted
  <2>3. hd1.sum \in Seq(Payloads) /\ EOSBlocks(hd1) = << >>
    BY <1>0, SioCloseTyped DEF EOSBlocks, Handles
  <2>4. /\ e \in Blocks /\ e.kind \notin KeyKinds /\ HasHeader(e)
        /\ f \in Blocks /\ f.kind \notin KeyKinds /\ HasHeader(f)
    BY <1>3, <1>4, <2>2, <2>3
  <2> DEFINE new == [hd1 EXCEPT !.ack = Acked(hd, o.err)]
  <2>5. new.enc = hd.enc /\ new.key = hd.key /\ new.nonce = hd.nonce
    BY <1>0 DEF Handles, AfterSioClose
  <2> HIDE DEF e, f
  <2>6. << e, f >> \in Seq(Blocks) /\ \A i \in 1..Len(<< e, f >>) : << e, f >>[i] \in {e, f}
    BY <2>4, SmallSeqs
  <2>7. bs = << e, f >>
    BY <2>3, <2>6
  <2>8. Tame(bs)
    BY <2>4, <2>6, <2>7 DEF Tame
  <2> HIDE DEF bs, new
  <2>9. KeysStay
    BY <1>0, <2>1, <2>5, HandleUpdate DEF new
  <2> QED BY <2>1, <2>2, <2>8, <2>9, TameSend
<1> QED BY <1>7, <1>8, <1>9, <1>10

\* NewWriter has sealed nothing and has no key yet.
LEMMA SealInit == Init => SealInv
<1> SUFFICES ASSUME Init PROVE SealInv
  OBVIOUS
<1>1. TypeOK /\ wkey = NoKey /\ handles = << >>
  BY WriterTypeInit DEF Init
<1>2. \A i \in DOMAIN wire : KindAt(i) # "Datablock"
  BY BlockKinds DEF Init, KindAt
<1> QED BY <1>1, <1>2 DEF SealInv, CurrentKey, HandleKeys, SealedWithLatestKey, Opened

\* Every call keeps the keys in step with the wire.
LEMMA SealStep == SealInv /\ [Next]_wvars => SealInv'
<1> SUFFICES ASSUME SealInv, [Next]_wvars PROVE CurrentKey' /\ HandleKeys' /\ SealedWithLatestKey'
  BY WriterTypeStep DEF SealInv
<1>0. TypeOK
  BY DEF SealInv
<1>1. \A b \in Blocks : b.kind \notin KeyKinds \union {"Datablock"} => Tame(<< b >>)
  BY SmallSeqs DEF Tame, HasHeader
<1>2. handles' = handles => KeysStay
  BY DEF KeysStay, Opened
<1>3. CASE AddError
  <2>1. Tame(<< ErrorBlock >>)
    BY <1>1, BlockTypes, BlockKinds DEF KeyKinds
  <2> QED BY <1>2, <1>3, <2>1, TameSend DEF AddError
<1>4. CASE AddUnencryptedStream
  <2> DEFINE b == PlainStream(Len(handles) + 1)
  <2>1. Tame(<< b >>)
    BY <1>0, <1>1, BlockTypes, BlockKinds DEF KeyKinds, TypeOK
  <2>2. PICK o \in SendOutcomes(<< b >>) :
          Send(o) /\ handles' = IF o.err THEN handles ELSE Append(handles, Handle(FALSE, NoKey, 0))
    BY <1>4 DEF AddUnencryptedStream
  <2>3. KeysStay
    <3>1. Handle(FALSE, NoKey, 0) \in Handles /\ ~Handle(FALSE, NoKey, 0).enc
      BY WriterAssumption DEF Handle, Handles, NoKey
    <3>2. CASE handles' = Append(handles, Handle(FALSE, NoKey, 0))
      <4>1. /\ Opened' = 1..(Len(handles) + 1) /\ Opened = 1..Len(handles) /\ Len(handles) \in Nat
            /\ \A s \in 1..Len(handles) : handles'[s] = handles[s]
            /\ ~handles'[Len(handles) + 1].enc
        BY <1>0, <3>1, <3>2, OneMoreHandle DEF TypeOK
      <4> QED BY <4>1 DEF KeysStay
    <3> QED BY <1>2, <2>2, <3>2
  <2> HIDE DEF b
  <2> QED BY <1>4, <2>1, <2>2, <2>3, TameSend DEF AddUnencryptedStream
<1>5. CASE CloseWriter
  <2>1. Tame(<< EOFBlock >>)
    BY <1>1, BlockTypes, BlockKinds DEF KeyKinds
  <2> QED BY <1>2, <1>5, <2>1, TameSend DEF CloseWriter
<1>6. CASE UNCHANGED wvars
  BY <1>6 DEF wvars, SealInv, CurrentKey, HandleKeys, SealedWithLatestKey, HeaderFor, LatestKeyIs,
              KindAt, Opened
<1> QED BY <1>3, <1>4, <1>5, <1>6, KeysKeepInv, EncryptedStreamKeepsInv, StreamKeepsInv DEF Next

\* Whatever a data block carries is sealed with the key of the last key block
\* before its header: a reader who keeps to the latest key can open it, and one
\* without that key cannot (writer.go:82, :115; estream/README.md:158).
THEOREM WriterSealedWithLatestKey == Spec => []SealedWithLatestKey
<1>1. SealInv => SealedWithLatestKey
  BY DEF SealInv
<1> QED BY <1>1, SealInit, SealStep, PTL DEF Spec

----------------------------------------------------------------------------
(* What a nil from Close vouches for.  Inductive invariant: an incomplete    *)
(* block on the wire and a failed Close of a stream leave the error behind.  *)

FailuresKept ==
  /\ (\E s \in Opened : handles[s].ack = "err") => werr
  /\ (\E i \in DOMAIN wire : KindAt(i) = "Partial") => werr

VouchInv == TypeOK /\ FailuresKept /\ (Disciplined => CloseVouches)

Whole(bs)    == bs \in Seq(Blocks) /\ \A i \in 1..Len(bs) : bs[i].kind # "Partial"
Headless(bs) == Whole(bs) /\ \A i \in 1..Len(bs) : bs[i].kind # "EncStream"

\* Every call leaves the wire alone or sends whole blocks, and only the one that
\* adds an encrypted stream sends its header.
LEMMA NextSends ==
  ASSUME TypeOK, Next
  PROVE  \/ wire' = wire /\ (werr => werr')
         \/ \E bs : /\ Whole(bs) /\ (AddEncryptedStream \/ Headless(bs))
                    /\ \E o \in SendOutcomes(bs) : Send(o)
<1>1. \A b \in Blocks : b.kind \notin {"Partial", "EncStream"} => Headless(<< b >>)
  BY SmallSeqs DEF Whole, Headless
<1>2. Headless(<< >>)
  BY DEF Whole, Headless
<1> DEFINE Sends == \E bs : Headless(bs) /\ \E o \in SendOutcomes(bs) : Send(o)
<1>3. ASSUME AddKeyPlain PROVE Sends
  <2>1. nkeys' \in 1..MaxKeys
    BY <1>3, WriterAssumption DEF AddKeyPlain, TypeOK
  <2>2. Headless(<< PlainKey(nkeys') >>)
    BY <1>1, <2>1, BlockTypes, BlockKinds
  <2> QED BY <1>3, <2>2 DEF AddKeyPlain
<1>4. ASSUME NEW q \in PubKeys, AddKeyEncrypted(q)
      PROVE  (wire' = wire /\ (werr => werr')) \/ Sends
  <2>1. nkeys' \in 1..MaxKeys
    BY <1>4, WriterAssumption DEF AddKeyEncrypted, TypeOK
  <2>2. Headless(<< EncryptedKey(q, nkeys') >>)
    BY <1>1, <2>1, BlockTypes, BlockKinds
  <2> QED BY <1>4, <2>2 DEF AddKeyEncrypted
<1>5. ASSUME AddError PROVE Sends
  <2>1. Headless(<< ErrorBlock >>)
    BY <1>1, BlockTypes, BlockKinds
  <2> QED BY <1>5, <2>1 DEF AddError
<1>6. ASSUME AddUnencryptedStream PROVE Sends
  <2>0. Len(handles) + 1 \in Nat
    BY DEF TypeOK
  <2>1. Headless(<< PlainStream(Len(handles) + 1) >>)
    BY <1>1, <2>0, BlockTypes, BlockKinds
  <2> QED BY <1>6, <2>1 DEF AddUnencryptedStream
<1>7. CASE AddEncryptedStream
  <2> DEFINE b == EncStream(Len(handles) + 1, nonce)
  <2>0. Len(handles) + 1 \in Nat /\ nonce \in Nat
    BY DEF TypeOK
  <2>1. b \in Blocks /\ b.kind = "EncStream"
    BY <2>0, BlockTypes, BlockKinds
  <2>2. \E o \in SendOutcomes(<< b >>) : Send(o)
    BY <1>7 DEF AddEncryptedStream
  <2> HIDE DEF b
  <2>3. Whole(<< b >>)
    BY <2>1, SmallSeqs DEF Whole
  <2> QED BY <1>7, <2>2, <2>3
<1>8. \A s \in Opened : handles[s] \in Handles
  BY DEF TypeOK, Opened
<1>9. ASSUME NEW s \in Opened, NEW c \in Chunks, WritePlain(s, c)
      PROVE  Sends
  <2>1. Headless(<< Datablock(Clear(<< c >>)) >>)
    BY <1>1, PayloadTypes, BlockTypes, BlockKinds
  <2> QED BY <1>9, <2>1 DEF WritePlain
<1>10. ASSUME NEW s \in Opened, NEW c \in Chunks, WriteEncrypted(s, c)
       PROVE  (wire' = wire /\ (werr => werr')) \/ Sends
  <2>1. Headless(<< Datablock(Fragment(handles[s], FALSE)) >>)
    BY <1>1, <1>8, PayloadTypes, BlockTypes, BlockKinds
  <2>2. \/ wire' = wire /\ werr' = werr
        \/ \E o \in SendOutcomes(<< Datablock(Fragment(handles[s], FALSE)) >>) : Send(o)
    BY <1>10 DEF WriteEncrypted
  <2> QED BY <2>1, <2>2
<1>11. ASSUME NEW s \in Opened, ClosePlain(s)
       PROVE  Sends
  <2>1. handles[s].sum \in Seq(Payloads)
    BY <1>8 DEF Handles
  <2>2. Headless(EOSBlocks(handles[s]))
    BY <1>1, <1>2, <2>1, BlockTypes, BlockKinds DEF EOSBlocks
  <2> QED BY <1>11, <2>2 DEF ClosePlain
<1>12. ASSUME NEW s \in Opened, CloseEncrypted(s)
       PROVE  Sends
  <2> DEFINE hd1 == AfterSioClose(handles[s])
             e   == Datablock(Fragment(handles[s], TRUE))
             f   == EOS(hd1.sum)
  <2>1. PICK o \in SendOutcomes(<< e, f >> \o EOSBlocks(hd1)) : Send(o)
    BY <1>12 DEF CloseEncrypted
  <2>2. << e, f >> \o EOSBlocks(hd1) \in Seq(Blocks) /\ EOSBlocks(hd1) = << >>
    BY <1>8, CloseBlocksTyped, SioCloseTyped DEF EOSBlocks
  <2>3. e.kind \notin {"Partial", "EncStream"} /\ f.kind \notin {"Partial", "EncStream"}
    BY BlockKinds
  <2> HIDE DEF e, f
  <2>4. << e, f >> \o EOSBlocks(hd1) = << e, f >>
    BY <2>2
  <2>5. Headless(<< e, f >>)
    <3>1. \A i \in 1..Len(<< e, f >>) : << e, f >>[i] \in {e, f}
      OBVIOUS
    <3> QED BY <2>2, <2>3, <2>4, <3>1 DEF Whole, Headless
  <2> QED BY <2>1, <2>4, <2>5
<1>13. ASSUME CloseWriter PROVE Sends
  <2>1. Headless(<< EOFBlock >>)
    BY <1>1, BlockTypes, BlockKinds
  <2> QED BY <1>13, <2>1 DEF CloseWriter
<1>14. Sends => \E bs : /\ Whole(bs) /\ Headless(bs)
                         /\ \E o \in SendOutcomes(bs) : Send(o)
  BY DEF Headless
<1> HIDE DEF Sends
<1>15. (wire' = wire /\ (werr => werr')) \/ Sends \/ AddEncryptedStream
  BY <1>3, <1>4, <1>5, <1>6, <1>9, <1>10, <1>11, <1>12, <1>13 DEF Next
<1> QED BY <1>7, <1>14, <1>15

\* What is on the wire stays there.
LEMMA NextGrows ==
  ASSUME TypeOK, Next
  PROVE  \E t \in Seq(Blocks) : wire' = wire \o t
<1>1. wire \in Seq(Blocks) /\ werr \in BOOLEAN
  BY DEF TypeOK
<1>2. CASE wire' = wire
  <2>1. << >> \in Seq(Blocks) /\ wire' = wire \o << >>
    BY <1>1, <1>2
  <2> QED BY <2>1
<1>3. ASSUME NEW bs, Whole(bs), NEW o \in SendOutcomes(bs), Send(o)
      PROVE  \E t \in Seq(Blocks) : wire' = wire \o t
  <2>1. PICK t : Extends(bs, t) /\ wire' = wire \o t
    BY <1>1, <1>3, SendExtends DEF Whole, Send
  <2> QED BY <2>1 DEF Extends
<1> QED BY <1>2, <1>3, NextSends

\* As long as there is no error, there is no incomplete block.
LEMMA PartialIsAnError ==
  ASSUME TypeOK, FailuresKept, Next, ~werr'
  PROVE  ~werr /\ \A i \in DOMAIN wire' : wire'[i].kind # "Partial"
<1>1. CASE wire' = wire /\ (werr => werr')
  BY <1>1 DEF FailuresKept, KindAt
<1>2. ASSUME NEW bs, Whole(bs), NEW o \in SendOutcomes(bs), Send(o)
      PROVE  ~werr /\ \A i \in DOMAIN wire' : wire'[i].kind # "Partial"
  <2>1. wire \in Seq(Blocks) /\ bs \in Seq(Blocks) /\ werr \in BOOLEAN
    BY <1>2 DEF TypeOK, Whole
  <2>2. ~werr /\ wire' = wire \o bs
    BY <1>2, <2>1, SendExtends, SentWhole DEF Send
  <2>3. ASSUME NEW i \in DOMAIN wire' PROVE wire'[i].kind # "Partial"
    <3>1. CASE i \in DOMAIN wire
      BY <2>1, <2>2, <3>1, WireGrows DEF FailuresKept, KindAt
    <3>2. CASE i \notin DOMAIN wire
      <4>1. i - Len(wire) \in 1..Len(bs) /\ i \in Int
        BY <2>1, <2>2, <3>2, WireGrows
      <4>2. Len(wire) + (i - Len(wire)) = i
        BY <2>1, <4>1
      <4> QED BY <1>2, <2>1, <2>2, <4>1, <4>2, WireGrows DEF Whole
    <3> QED BY <3>1, <3>2
  <2> QED BY <2>2, <2>3
<1> QED BY <1>1, <1>2, NextSends

\* A Close of a stream that fails is an error of the Writer.
AckFailed(s) == s \in Opened /\ handles[s].ack = "err"

LEMMA NewHandleAcks ==
  ASSUME TypeOK, NEW new \in Handles, new.ack = "open", NEW e,
         handles' = IF e THEN handles ELSE Append(handles, new)
  PROVE  \A s \in Opened' : handles'[s].ack = "err" => AckFailed(s)
<1>1. CASE handles' = handles
  BY <1>1 DEF AckFailed, Opened
<1>2. CASE handles' = Append(handles, new)
  <2>1. /\ Opened' = 1..(Len(handles) + 1) /\ Opened = 1..Len(handles) /\ Len(handles) \in Nat
        /\ handles'[Len(handles) + 1] = new
        /\ \A s \in 1..Len(handles) : handles'[s] = handles[s]
    BY <1>2, OneMoreHandle DEF TypeOK
  <2> QED BY <2>1 DEF AckFailed
<1> QED BY <1>1, <1>2

LEMMA NextAcks ==
  ASSUME TypeOK, Next
  PROVE  \A s \in Opened' : handles'[s].ack = "err" => AckFailed(s) \/ werr'
<1>0. handles \in Seq(Handles) /\ \A s \in Opened : handles[s] \in Handles
  BY DEF TypeOK, Opened
<1>1. ASSUME handles' = handles
      PROVE  \A s \in Opened' : handles'[s].ack = "err" => AckFailed(s) \/ werr'
  BY <1>1 DEF AckFailed, Opened
<1>2. CASE AddUnencryptedStream
  <2>1. Handle(FALSE, NoKey, 0) \in Handles /\ Handle(FALSE, NoKey, 0).ack = "open"
    BY WriterAssumption DEF Handle, Handles, NoKey
  <2>2. PICK e : handles' = IF e THEN handles ELSE Append(handles, Handle(FALSE, NoKey, 0))
    BY <1>2 DEF AddUnencryptedStream
  <2> QED BY <2>1, <2>2, NewHandleAcks
<1>3. CASE AddEncryptedStream
  <2>1. Handle(TRUE, wkey, nonce) \in Handles /\ Handle(TRUE, wkey, nonce).ack = "open"
    BY WriterAssumption DEF Handle, Handles, TypeOK
  <2>2. PICK e : handles' = IF e THEN handles ELSE Append(handles, Handle(TRUE, wkey, nonce))
    BY <1>3 DEF AddEncryptedStream
  <2> QED BY <2>1, <2>2, NewHandleAcks
<1>4. ASSUME NEW s \in Opened, NEW new, handles' = [handles EXCEPT ![s] = new],
             new.ack = "err" => handles[s].ack = "err" \/ werr'
      PROVE  \A t \in Opened' : handles'[t].ack = "err" => AckFailed(t) \/ werr'
  BY <1>4 DEF AckFailed, Opened
<1>5. ASSUME NEW s \in Opened, NEW c \in Chunks, WritePlain(s, c)
      PROVE  \A t \in Opened' : handles'[t].ack = "err" => AckFailed(t) \/ werr'
  <2> DEFINE new == [handles[s] EXCEPT !.wrote = Append(@, c), !.sum = Append(@, Clear(<< c >>))]
  <2>1. handles' = [handles EXCEPT ![s] = new]
    BY <1>5 DEF WritePlain
  <2>2. new.ack = handles[s].ack
    BY <1>0 DEF Handles
  <2> HIDE DEF new
  <2> QED BY <1>4, <2>1, <2>2
<1>6. ASSUME NEW s \in Opened, NEW c \in Chunks, WriteEncrypted(s, c)
      PROVE  \A t \in Opened' : handles'[t].ack = "err" => AckFailed(t) \/ werr'
  <2> DEFINE kept == [handles[s] EXCEPT !.wrote = Append(@, c), !.pend = << c >>]
             next == [handles[s] EXCEPT !.wrote = Append(@, c), !.pend = << c >>, !.frag = @ + 1,
                                        !.sum = Append(@, Fragment(handles[s], FALSE))]
  <2>1. handles' = [handles EXCEPT ![s] = kept] \/ handles' = [handles EXCEPT ![s] = next]
    BY <1>6 DEF WriteEncrypted
  <2>2. kept.ack = handles[s].ack /\ next.ack = handles[s].ack
    BY <1>0 DEF Handles
  <2> HIDE DEF kept, next
  <2> QED BY <1>4, <2>1, <2>2
<1>7. ASSUME NEW s \in Opened, ClosePlain(s)
      PROVE  \A t \in Opened' : handles'[t].ack = "err" => AckFailed(t) \/ werr'
  <2>1. PICK o \in SendOutcomes(EOSBlocks(handles[s])) :
          /\ Send(o)
          /\ handles' = [handles EXCEPT ![s].eosWritten = TRUE, ![s].ack = Acked(handles[s], o.err)]
    BY <1>7 DEF ClosePlain
  <2> DEFINE new == [handles[s] EXCEPT !.eosWritten = TRUE, !.ack = Acked(handles[s], o.err)]
  <2>2. handles' = [handles EXCEPT ![s] = new]
    BY <2>1
  <2>3. new.ack = Acked(handles[s], o.err)
    BY <1>0 DEF Handles
  <2>4. new.ack = "err" => handles[s].ack = "err" \/ werr'
    BY <2>1, <2>3 DEF Acked, Send
  <2> HIDE DEF new
  <2> QED BY <1>4, <2>2, <2>4
<1>8. ASSUME NEW s \in Opened, CloseEncrypted(s)
      PROVE  \A t \in Opened' : handles'[t].ack = "err" => AckFailed(t) \/ werr'
  <2> DEFINE hd1 == AfterSioClose(handles[s])
             bs  == << Datablock(Fragment(handles[s], TRUE)), EOS(hd1.sum) >> \o EOSBlocks(hd1)
  <2>1. PICK o \in SendOutcomes(bs) :
          Send(o) /\ handles' = [handles EXCEPT ![s] = [hd1 EXCEPT !.ack = Acked(handles[s], o.err)]]
    BY <1>8 DEF CloseEncrypted
  <2> DEFINE new == [hd1 EXCEPT !.ack = Acked(handles[s], o.err)]
  <2>2. new.ack = Acked(handles[s], o.err)
    BY <1>0, SioCloseTyped DEF Handles
  <2> HIDE DEF hd1, bs
  <2>3. new.ack = "err" => handles[s].ack = "err" \/ werr'
    BY <2>1, <2>2 DEF Acked, Send
  <2> HIDE DEF new
  <2> QED BY <1>4, <2>1, <2>3 DEF new
<1>9. handles' = handles \/ AddUnencryptedStream \/ AddEncryptedStream
        \/ \E s \in Opened : \/ \E c \in Chunks : WritePlain(s, c) \/ WriteEncrypted(s, c)
                             \/ ClosePlain(s) \/ CloseEncrypted(s)
  BY DEF Next, AddKeyPlain, AddKeyEncrypted, AddError, CloseWriter
<1> QED BY <1>1, <1>2, <1>3, <1>5, <1>6, <1>7, <1>8, <1>9

\* A call of a caller who keeps the contract, after Close, is another Close.
LEMMA OnlyCloseAfterClose ==
  ASSUME Next, Disciplined, ~CloseWriter
  PROVE  closes = << >> /\ closes' = << >>
BY DEF Next, AddKeyPlain, AddKeyEncrypted, AddError, AddUnencryptedStream, AddEncryptedStream,
       WritePlain, WriteEncrypted, ClosePlain, CloseEncrypted, MayAdd, MayUse

\* With the contract of estream/README.md:63, a nil from Writer.Close means that
\* no Close of a stream has failed and that no block before it is incomplete:
\* the sticky error carries every failure to there (writer.go:211).
THEOREM WriterCloseVouches == Spec => [](Disciplined => CloseVouches)
<1>1. Init => VouchInv
  <2> SUFFICES ASSUME Init PROVE VouchInv
    OBVIOUS
  <2>1. TypeOK /\ handles = << >> /\ closes = << >>
    BY WriterTypeInit DEF Init
  <2>2. \A i \in DOMAIN wire : KindAt(i) # "Partial"
    BY BlockKinds DEF Init, KindAt
  <2> QED BY <2>1, <2>2 DEF VouchInv, FailuresKept, CloseVouches, Opened
<1>2. VouchInv /\ [Next]_wvars => VouchInv'
  <2> SUFFICES ASSUME VouchInv, [Next]_wvars PROVE FailuresKept' /\ (Disciplined => CloseVouches)'
    BY WriterTypeStep DEF VouchInv
  <2>0. TypeOK /\ FailuresKept
    BY DEF VouchInv
  <2>1. CASE UNCHANGED wvars
    BY <2>1 DEF wvars, VouchInv, FailuresKept, CloseVouches, Opened, KindAt
  <2>2. CASE Next
    <3>1. FailuresKept'
      <4>1. ASSUME ~werr' PROVE ~werr /\ \A i \in DOMAIN wire' : wire'[i].kind # "Partial"
        BY <2>0, <2>2, <4>1, PartialIsAnError
      <4>2. ASSUME ~werr', NEW s \in Opened', handles'[s].ack = "err" PROVE FALSE
        BY <2>0, <2>2, <4>1, <4>2, NextAcks DEF AckFailed, FailuresKept
      <4> QED BY <4>1, <4>2 DEF FailuresKept, KindAt
    <3>2. ASSUME Disciplined PROVE CloseVouches'
      <4>1. CASE ~CloseWriter
        BY <2>2, <3>2, <4>1, OnlyCloseAfterClose DEF CloseVouches
      <4>2. CASE CloseWriter
        <5>1. PICK o \in SendOutcomes(<< EOFBlock >>) :
                Send(o) /\ closes' = Append(closes, IF o.err THEN "err" ELSE "ok")
          BY <4>2 DEF CloseWriter
        <5>2. handles' = handles /\ \A s \in Opened : ~IsOpen(s)
          BY <3>2, <4>2 DEF CloseWriter
        <5>3. CASE o.err
          <6>1. closes' = Append(closes, "err") /\ closes \in Seq({"ok", "err"})
            BY <2>0, <5>1, <5>3 DEF TypeOK
          <6>a. /\ DOMAIN closes' = 1..(Len(closes) + 1) /\ Len(closes') = Len(closes) + 1
                /\ closes'[Len(closes) + 1] = "err" /\ Len(closes) \in Nat
                /\ \A i \in 1..Len(closes) : i \in DOMAIN closes /\ closes'[i] = closes[i]
            <7>1. /\ closes' \in Seq({"ok", "err"}) /\ Len(closes') = Len(closes) + 1
                  /\ closes'[Len(closes) + 1] = "err"
                  /\ \A i \in 1..Len(closes) : closes'[i] = closes[i]
              BY <6>1, AppendProperties
            <7>2. /\ DOMAIN closes' = 1..Len(closes') /\ DOMAIN closes = 1..Len(closes)
                  /\ Len(closes) \in Nat
              BY <6>1, <7>1
            <7> QED BY <7>1, <7>2
          <6>2. \A i \in DOMAIN closes' : closes'[i] = "ok" => i \in DOMAIN closes /\ closes[i] = "ok"
            BY <6>a
          <6>3. Len(closes') = 1 => ~\E i \in DOMAIN closes' : closes'[i] = "ok"
            BY <6>a
          <6> QED BY <3>2, <5>2, <6>2, <6>3 DEF VouchInv, CloseVouches, Opened
        <5>4. CASE ~o.err
          <6>1. ~werr' /\ ~werr
            BY <2>0, <2>2, <5>1, <5>4, PartialIsAnError DEF Send
          <6>2. \A i \in DOMAIN wire' : wire'[i].kind # "Partial"
            BY <2>0, <2>2, <6>1, PartialIsAnError
          <6>3. \A s \in Opened : handles[s].ack = "ok"
            <7>1. \A s \in Opened : handles[s] \in Handles
              BY <2>0 DEF TypeOK, Opened
            <7>2. \A s \in Opened : handles[s].ack \in {"open", "ok", "err"}
              BY <7>1 DEF Handles
            <7> QED BY <2>0, <5>2, <6>1, <7>2 DEF FailuresKept, IsOpen
          <6> QED BY <5>2, <6>2, <6>3 DEF CloseVouches, KindAt, Opened
        <5> QED BY <5>3, <5>4
      <4> QED BY <4>1, <4>2
    <3> QED BY <3>1, <3>2
  <2> QED BY <2>1, <2>2
<1>3. VouchInv => (Disciplined => CloseVouches)
  BY DEF VouchInv
<1> QED BY <1>1, <1>2, <1>3, PTL DEF Spec

----------------------------------------------------------------------------
(* At most one end per stream.  Inductive invariant: a handle that has been  *)
(* closed has its EOS block behind it, and sio's writer is closed too, so    *)
(* that no second Close sends one.                                          *)

Ends   == {i \in DOMAIN wire : KindAt(i) = "EOS"}
Closed == {s \in Opened : ~IsOpen(s)}

ClosedOnce ==
  \A s \in Opened : ~IsOpen(s) => handles[s].eosWritten /\ (handles[s].enc => handles[s].sealed)

EndsInv == TypeOK /\ ClosedOnce /\ OneEOSPerStream

\* The only EOS block in bs, if there is one, is the k-th.
EndsAt(bs, k) == bs \in Seq(Blocks) /\ \A i \in 1..Len(bs) : bs[i].kind = "EOS" => i = k

\* A send adds the EOS blocks it sends, or fewer.
LEMMA SendEnds ==
  ASSUME TypeOK, NEW k \in Nat, NEW bs, EndsAt(bs, k), NEW o \in SendOutcomes(bs), Send(o)
  PROVE  /\ Ends' \subseteq Ends \cup {Len(wire) + k}
         /\ k = 0 => Ends' \subseteq Ends
<1>0. wire \in Seq(Blocks) /\ Len(wire) \in Nat /\ bs \in Seq(Blocks)
  BY DEF TypeOK, EndsAt
<1>1. PICK t : Extends(bs, t) /\ wire' = wire \o t
  BY <1>0, SendExtends DEF TypeOK, Send
<1>2. t \in Seq(Blocks) /\ \A i \in 1..Len(t) : t[i].kind = "EOS" => i = k
  BY <1>1 DEF Extends, EndsAt
<1>3. ASSUME NEW i \in DOMAIN wire', wire'[i].kind = "EOS", i \notin Ends
      PROVE  i = Len(wire) + k /\ k # 0
  <2>1. i \notin DOMAIN wire
    BY <1>0, <1>1, <1>2, <1>3, WireGrows DEF Ends, KindAt
  <2>2. i - Len(wire) \in 1..Len(t) /\ i \in Int
    BY <1>0, <1>1, <1>2, <2>1, WireGrows
  <2>3. Len(wire) + (i - Len(wire)) = i
    BY <1>0, <2>2
  <2>4. t[i - Len(wire)].kind = "EOS"
    BY <1>0, <1>1, <1>2, <1>3, <2>2, <2>3, WireGrows
  <2>5. i - Len(wire) = k
    BY <1>2, <2>2, <2>4
  <2> QED BY <1>0, <2>2, <2>5
<1> QED BY <1>3 DEF Ends, KindAt

\* A sequence of one block that is no EOS block, and of one or two that end
\* with one.
LEMMA EndsOfSmallSeqs ==
  /\ EndsAt(<< >>, 0)
  /\ \A b \in Blocks : b.kind # "EOS" => EndsAt(<< b >>, 0)
  /\ \A b \in Blocks : EndsAt(<< b >>, 1)
  /\ \A b, c \in Blocks : b.kind # "EOS" => EndsAt(<< b, c >>, 2)
<1>1. \A b, c \in Blocks : << b >> \in Seq(Blocks) /\ << b, c >> \in Seq(Blocks)
  BY SmallSeqs
<1>2. \A b \in Blocks : \A i \in 1..Len(<< b >>) : i = 1 /\ << b >>[i] = b
  OBVIOUS
<1>3. \A b, c \in Blocks : \A i \in 1..Len(<< b, c >>) : (i = 1 /\ << b, c >>[i] = b) \/ i = 2
  OBVIOUS
<1>4. << >> \in Seq(Blocks) /\ \A i \in 1..Len(<< >>) : FALSE
  OBVIOUS
<1> QED BY <1>1, <1>2, <1>3, <1>4 DEF EndsAt

\* Only a Close of a stream sends an EOS block, and a Close that finds
\* eosWritten sends none (streamWriter.Close, writer.go:261).
EndsStream(s) == (ClosePlain(s) /\ ~handles[s].eosWritten) \/ CloseEncrypted(s)

LEMMA NextEnds ==
  ASSUME TypeOK, Next
  PROVE  \/ Ends' \subseteq Ends
         \/ \E s \in Opened : EndsStream(s) /\ \E x : Ends' \subseteq Ends \cup {x}
<1>1. \A b \in Blocks : b.kind # "EOS" => \A o \in SendOutcomes(<< b >>) : Send(o) => Ends' \subseteq Ends
  BY EndsOfSmallSeqs, SendEnds
<1>2. wire' = wire => Ends' \subseteq Ends
  BY DEF Ends, KindAt
<1>3. CASE AddKeyPlain
  <2>1. nkeys' \in 1..MaxKeys
    BY <1>3, WriterAssumption DEF AddKeyPlain, TypeOK
  <2> QED BY <1>1, <1>3, <2>1, BlockTypes, BlockKinds DEF AddKeyPlain
<1>4. ASSUME NEW q \in PubKeys, AddKeyEncrypted(q) PROVE Ends' \subseteq Ends
  <2>1. nkeys' \in 1..MaxKeys
    BY <1>4, WriterAssumption DEF AddKeyEncrypted, TypeOK
  <2>2. EncryptedKey(q, nkeys') \in Blocks /\ EncryptedKey(q, nkeys').kind # "EOS"
    BY <2>1, BlockTypes, BlockKinds
  <2>3. wire' = wire \/ \E o \in SendOutcomes(<< EncryptedKey(q, nkeys') >>) : Send(o)
    BY <1>4 DEF AddKeyEncrypted
  <2> QED BY <1>1, <1>2, <2>2, <2>3
<1>5. CASE AddError
  BY <1>1, <1>5, BlockTypes, BlockKinds DEF AddError
<1>6. CASE AddUnencryptedStream
  <2>1. PlainStream(Len(handles) + 1) \in Blocks
    BY BlockTypes DEF TypeOK
  <2> QED BY <1>1, <1>6, <2>1, BlockKinds DEF AddUnencryptedStream
<1>7. CASE AddEncryptedStream
  <2>1. EncStream(Len(handles) + 1, nonce) \in Blocks
    BY BlockTypes DEF TypeOK
  <2> QED BY <1>1, <1>7, <2>1, BlockKinds DEF AddEncryptedStream
<1>8. \A s \in Opened : handles[s] \in Handles
  BY DEF TypeOK, Opened
<1>9. ASSUME NEW s \in Opened, NEW c \in Chunks, WritePlain(s, c) PROVE Ends' \subseteq Ends
  <2>1. Datablock(Clear(<< c >>)) \in Blocks
    BY PayloadTypes, BlockTypes
  <2> QED BY <1>1, <1>9, <2>1, BlockKinds DEF WritePlain
<1>10. ASSUME NEW s \in Opened, NEW c \in Chunks, WriteEncrypted(s, c) PROVE Ends' \subseteq Ends
  <2>1. Datablock(Fragment(handles[s], FALSE)) \in Blocks
    BY <1>8, PayloadTypes, BlockTypes
  <2>2. wire' = wire \/ \E o \in SendOutcomes(<< Datablock(Fragment(handles[s], FALSE)) >>) : Send(o)
    BY <1>10 DEF WriteEncrypted
  <2> QED BY <1>1, <1>2, <2>1, <2>2, BlockKinds
<1>11. ASSUME NEW s \in Opened, ClosePlain(s)
       PROVE  Ends' \subseteq Ends \/ (EndsStream(s) /\ \E x : Ends' \subseteq Ends \cup {x})
  <2>1. EOS(handles[s].sum) \in Blocks
    BY <1>8, BlockTypes DEF Handles
  <2>2. PICK o \in SendOutcomes(EOSBlocks(handles[s])) : Send(o)
    BY <1>11 DEF ClosePlain
  <2>3. CASE handles[s].eosWritten
    <3>1. EndsAt(EOSBlocks(handles[s]), 0)
      BY <2>3, EndsOfSmallSeqs DEF EOSBlocks
    <3> QED BY <2>2, <3>1, SendEnds
  <2>4. CASE ~handles[s].eosWritten
    <3>1. EndsAt(EOSBlocks(handles[s]), 1)
      BY <2>1, <2>4, EndsOfSmallSeqs DEF EOSBlocks
    <3> QED BY <1>11, <2>2, <2>4, <3>1, SendEnds DEF EndsStream
  <2> QED BY <2>3, <2>4
<1>12. ASSUME NEW s \in Opened, CloseEncrypted(s)
       PROVE  EndsStream(s) /\ \E x : Ends' \subseteq Ends \cup {x}
  <2> DEFINE hd1 == AfterSioClose(handles[s])
             e   == Datablock(Fragment(handles[s], TRUE))
             f   == EOS(hd1.sum)
  <2>1. PICK o \in SendOutcomes(<< e, f >> \o EOSBlocks(hd1)) : Send(o)
    BY <1>12 DEF CloseEncrypted
  <2>2. EOSBlocks(hd1) = << >>
    BY <1>8, SioCloseTyped DEF EOSBlocks
  <2>3. e \in Blocks /\ f \in Blocks /\ e.kind # "EOS"
    BY <1>8, SioCloseTyped, PayloadTypes, BlockTypes, BlockKinds DEF Handles
  <2> HIDE DEF e, f
  <2>4. << e, f >> \o EOSBlocks(hd1) = << e, f >>
    BY <2>2
  <2>5. EndsAt(<< e, f >>, 2)
    BY <2>3, EndsOfSmallSeqs
  <2> QED BY <1>12, <2>1, <2>4, <2>5, SendEnds DEF EndsStream
<1>13. CASE CloseWriter
  BY <1>1, <1>13, BlockTypes, BlockKinds DEF CloseWriter
<1> QED BY <1>3, <1>4, <1>5, <1>6, <1>7, <1>9, <1>10, <1>11, <1>12, <1>13 DEF Next

\* A handle is changed in the fields of its stream and never opened again.
LEMMA HandleCloses ==
  ASSUME TypeOK, ClosedOnce, NEW s \in Opened, NEW new, handles' = [handles EXCEPT ![s] = new],
         new.ack = "open" => IsOpen(s),
         new.ack # "open" => new.eosWritten /\ (new.enc => new.sealed)
  PROVE  /\ ClosedOnce' /\ Closed \subseteq Closed'
         /\ new.ack # "open" => s \in Closed'
BY DEF ClosedOnce, Closed, IsOpen, Opened

\* A new handle is open.
LEMMA NewHandleOpens ==
  ASSUME TypeOK, ClosedOnce, NEW new \in Handles, new.ack = "open",
         handles' = handles \/ handles' = Append(handles, new)
  PROVE  ClosedOnce' /\ Closed \subseteq Closed'
<1>1. CASE handles' = handles
  BY <1>1 DEF ClosedOnce, Closed, IsOpen, Opened
<1>2. CASE handles' = Append(handles, new)
  <2>1. /\ Opened' = 1..(Len(handles) + 1) /\ Opened = 1..Len(handles) /\ Len(handles) \in Nat
        /\ handles'[Len(handles) + 1] = new
        /\ \A s \in 1..Len(handles) : handles'[s] = handles[s]
    BY <1>2, OneMoreHandle DEF TypeOK
  <2>2. \A s \in Opened' : (s \in Opened /\ handles'[s] = handles[s]) \/ handles'[s].ack = "open"
    BY <2>1
  <2>3. \A s \in Opened : s \in Opened' /\ handles'[s] = handles[s]
    BY <2>1
  <2> QED BY <2>2, <2>3 DEF ClosedOnce, Closed, IsOpen
<1> QED BY <1>1, <1>2

\* No call opens a handle again, and a call that ends a stream closes an open
\* handle.
LEMMA NextCloses ==
  ASSUME TypeOK, ClosedOnce, Next
  PROVE  /\ ClosedOnce' /\ Closed \subseteq Closed'
         /\ \A s \in Opened : EndsStream(s) => s \notin Closed /\ s \in Closed'
<1>0. \A s \in Opened : handles[s] \in Handles
  BY DEF TypeOK, Opened
<1>1. \A s \in Opened : EndsStream(s) => s \notin Closed
  BY DEF EndsStream, CloseEncrypted, Closed, ClosedOnce
<1>2. handles' = handles => ClosedOnce' /\ Closed \subseteq Closed'
  BY DEF ClosedOnce, Closed, IsOpen, Opened
<1>3. ASSUME AddUnencryptedStream PROVE ClosedOnce' /\ Closed \subseteq Closed'
  <2> DEFINE new == Handle(FALSE, NoKey, 0)
  <2>1. new \in Handles /\ new.ack = "open"
    BY WriterAssumption DEF Handle, Handles, NoKey
  <2>2. handles' = handles \/ handles' = Append(handles, new)
    BY <1>3 DEF AddUnencryptedStream
  <2> HIDE DEF new
  <2> QED BY <2>1, <2>2, NewHandleOpens
<1>4. ASSUME AddEncryptedStream PROVE ClosedOnce' /\ Closed \subseteq Closed'
  <2> DEFINE new == Handle(TRUE, wkey, nonce)
  <2>1. new \in Handles /\ new.ack = "open"
    BY WriterAssumption DEF Handle, Handles, TypeOK
  <2>2. handles' = handles \/ handles' = Append(handles, new)
    BY <1>4 DEF AddEncryptedStream
  <2> HIDE DEF new
  <2> QED BY <2>1, <2>2, NewHandleOpens
<1>5. ASSUME NEW s \in Opened, NEW c \in Chunks, WritePlain(s, c)
      PROVE  ClosedOnce' /\ Closed \subseteq Closed'
  <2> DEFINE new == [handles[s] EXCEPT !.wrote = Append(@, c), !.sum = Append(@, Clear(<< c >>))]
  <2>1. handles' = [handles EXCEPT ![s] = new]
    BY <1>5 DEF WritePlain
  <2>2. /\ new.ack = handles[s].ack /\ new.eosWritten = handles[s].eosWritten
        /\ new.enc = handles[s].enc /\ new.sealed = handles[s].sealed
    BY <1>0 DEF Handles
  <2> HIDE DEF new
  <2> QED BY <2>1, <2>2, HandleCloses DEF ClosedOnce, IsOpen
<1>6. ASSUME NEW s \in Opened, NEW c \in Chunks, WriteEncrypted(s, c)
      PROVE  ClosedOnce' /\ Closed \subseteq Closed'
  <2> DEFINE kept == [handles[s] EXCEPT !.wrote = Append(@, c), !.pend = << c >>]
             next == [handles[s] EXCEPT !.wrote = Append(@, c), !.pend = << c >>, !.frag = @ + 1,
                                        !.sum = Append(@, Fragment(handles[s], FALSE))]
  <2>1. handles' = [handles EXCEPT ![s] = kept] \/ handles' = [handles EXCEPT ![s] = next]
    BY <1>6 DEF WriteEncrypted
  <2>2. /\ kept.ack = handles[s].ack /\ kept.eosWritten = handles[s].eosWritten
        /\ kept.enc = handles[s].enc /\ kept.sealed = handles[s].sealed
        /\ next.ack = handles[s].ack /\ next.eosWritten = handles[s].eosWritten
        /\ next.enc = handles[s].enc /\ next.sealed = handles[s].sealed
    BY <1>0 DEF Handles
  <2> HIDE DEF kept, next
  <2> QED BY <2>1, <2>2, HandleCloses DEF ClosedOnce, IsOpen
<1>7. ASSUME NEW s \in Opened, ClosePlain(s)
      PROVE  ClosedOnce' /\ Closed \subseteq Closed' /\ s \in Closed'
  <2>1. PICK o \in SendOutcomes(EOSBlocks(handles[s])) :
          handles' = [handles EXCEPT ![s].eosWritten = TRUE, ![s].ack = Acked(handles[s], o.err)]
    BY <1>7 DEF ClosePlain
  <2> DEFINE new == [handles[s] EXCEPT !.eosWritten = TRUE, !.ack = Acked(handles[s], o.err)]
  <2>2. handles' = [handles EXCEPT ![s] = new]
    BY <2>1
  <2>3. new.ack = Acked(handles[s], o.err) /\ new.eosWritten /\ new.enc = handles[s].enc
    BY <1>0 DEF Handles
  <2>4. ~handles[s].enc
    BY <1>7 DEF ClosePlain
  <2>5. new.ack # "open"
    BY <2>3 DEF Acked
  <2> HIDE DEF new
  <2> QED BY <2>2, <2>3, <2>4, <2>5, HandleCloses
<1>8. ASSUME NEW s \in Opened, CloseEncrypted(s)
      PROVE  ClosedOnce' /\ Closed \subseteq Closed' /\ s \in Closed'
  <2> DEFINE hd1 == AfterSioClose(handles[s])
  <2>1. PICK e : handles' = [handles EXCEPT ![s] = [hd1 EXCEPT !.ack = Acked(handles[s], e)]]
    BY <1>8 DEF CloseEncrypted
  <2> DEFINE new == [hd1 EXCEPT !.ack = Acked(handles[s], e)]
  <2>2. hd1 \in Handles /\ hd1.eosWritten /\ hd1.sealed
    <3>1. hd1 \in Handles /\ hd1.eosWritten
      BY <1>0, SioCloseTyped
    <3>2. hd1.sealed
      BY <1>0 DEF AfterSioClose, Handles
    <3> QED BY <3>1, <3>2
  <2> HIDE DEF hd1
  <2>3. new.ack = Acked(handles[s], e) /\ new.eosWritten /\ new.sealed
    BY <2>2 DEF Handles
  <2>4. new.ack # "open"
    BY <2>3 DEF Acked
  <2>5. handles' = [handles EXCEPT ![s] = new]
    BY <2>1
  <2> HIDE DEF new
  <2> QED BY <2>3, <2>4, <2>5, HandleCloses
<1>9. handles' = handles \/ AddUnencryptedStream \/ AddEncryptedStream
        \/ \E s \in Opened : \/ \E c \in Chunks : WritePlain(s, c) \/ WriteEncrypted(s, c)
                             \/ ClosePlain(s) \/ CloseEncrypted(s)
  BY DEF Next, AddKeyPlain, AddKeyEncrypted, AddError, CloseWriter
<1>10. ClosedOnce' /\ Closed \subseteq Closed'
  BY <1>2, <1>3, <1>4, <1>5, <1>6, <1>7, <1>8, <1>9
<1> QED BY <1>1, <1>7, <1>8, <1>10 DEF EndsStream

\* One more on each side keeps the comparison.
LEMMA OneMoreOfEach ==
  ASSUME NEW A, NEW B, NEW C, NEW D, NEW x, NEW y, IsFiniteSet(A), IsFiniteSet(B), IsFiniteSet(D),
         Cardinality(A) <= Cardinality(B), C \subseteq A \cup {x}, B \cup {y} \subseteq D, y \notin B
  PROVE  Cardinality(C) <= Cardinality(D)
<1>1. /\ Cardinality(A) \in Nat /\ Cardinality(B) \in Nat /\ Cardinality(D) \in Nat
      /\ IsFiniteSet(A \cup {x}) /\ Cardinality(A \cup {x}) \in Nat
      /\ Cardinality(A \cup {x}) <= Cardinality(A) + 1
      /\ Cardinality(B \cup {y}) = Cardinality(B) + 1
  <2>1. Cardinality(A) \in Nat /\ Cardinality(B) \in Nat /\ Cardinality(D) \in Nat
    BY FS_CardinalityType
  <2>2. /\ IsFiniteSet(A \cup {x})
        /\ Cardinality(A \cup {x}) = IF x \in A THEN Cardinality(A) ELSE Cardinality(A) + 1
    BY FS_AddElement
  <2>3. Cardinality(B \cup {y}) = Cardinality(B) + 1
    BY FS_AddElement
  <2> QED BY <2>1, <2>2, <2>3
<1>2. IsFiniteSet(C) /\ Cardinality(C) <= Cardinality(A \cup {x}) /\ Cardinality(B \cup {y}) <= Cardinality(D)
  BY <1>1, FS_Subset
<1>3. Cardinality(C) \in Nat
  BY <1>2, FS_CardinalityType
<1> QED BY <1>1, <1>2, <1>3

\* There are never more EOS blocks than streams that were closed, although Close
\* of an encrypted stream closes the streamWriter twice and a caller may close
\* again and again (streamWriter.Close, writer.go:261).
THEOREM WriterOneEOSPerStream == Spec => []OneEOSPerStream
<1>1. Init => EndsInv
  <2> SUFFICES ASSUME Init PROVE EndsInv
    OBVIOUS
  <2>1. TypeOK /\ handles = << >>
    BY WriterTypeInit DEF Init
  <2>2. Ends = {} /\ Closed = {}
    BY <2>1, BlockKinds DEF Init, Ends, Closed, Opened, KindAt
  <2>3. OneEOSPerStream
    <3>1. Cardinality({}) = 0
      BY FS_EmptySet
    <3> QED BY <2>2, <3>1 DEF OneEOSPerStream, Ends, Closed
  <2> QED BY <2>1, <2>3 DEF EndsInv, ClosedOnce, Opened
<1>2. EndsInv /\ [Next]_wvars => EndsInv'
  <2> SUFFICES ASSUME EndsInv, [Next]_wvars PROVE ClosedOnce' /\ OneEOSPerStream'
    BY WriterTypeStep DEF EndsInv
  <2>1. CASE UNCHANGED wvars
    BY <2>1 DEF wvars, EndsInv, ClosedOnce, OneEOSPerStream, IsOpen, Opened, KindAt
  <2>2. CASE Next
    <3>1. TypeOK /\ TypeOK' /\ Cardinality(Ends) <= Cardinality(Closed)
      BY WriterTypeStep DEF EndsInv, OneEOSPerStream, Ends, Closed
    <3>2. ClosedOnce' /\ Closed \subseteq Closed'
          /\ \A s \in Opened : EndsStream(s) => s \notin Closed /\ s \in Closed'
      BY <2>2, NextCloses DEF EndsInv
    <3>3. IsFiniteSet(Ends) /\ IsFiniteSet(Closed) /\ IsFiniteSet(Closed')
      <4>1. /\ Ends \subseteq 1..Len(wire) /\ Closed \subseteq 1..Len(handles)
            /\ Closed' \subseteq 1..Len(handles')
            /\ Len(wire) \in Nat /\ Len(handles) \in Nat /\ Len(handles') \in Nat
        BY <3>1 DEF TypeOK, Ends, Closed, Opened
      <4>2. \A n \in Nat : IsFiniteSet(1..n)
        BY FS_Interval
      <4> QED BY <4>1, <4>2, FS_Subset
    <3>4. CASE Ends' \subseteq Ends
      <4>1. Cardinality(Ends') <= Cardinality(Ends) /\ Cardinality(Closed) <= Cardinality(Closed')
            /\ IsFiniteSet(Ends')
        BY <3>2, <3>3, <3>4, FS_Subset
      <4>2. /\ Cardinality(Ends') \in Nat /\ Cardinality(Ends) \in Nat
            /\ Cardinality(Closed) \in Nat /\ Cardinality(Closed') \in Nat
        BY <3>3, <4>1, FS_CardinalityType
      <4>3. Cardinality(Ends') <= Cardinality(Closed')
        BY <3>1, <4>1, <4>2
      <4> QED BY <3>2, <4>3 DEF OneEOSPerStream, Ends, Closed
    <3>5. ASSUME NEW s \in Opened, EndsStream(s), NEW x, Ends' \subseteq Ends \cup {x}
          PROVE  Cardinality(Ends') <= Cardinality(Closed')
      <4>1. s \notin Closed /\ Closed \cup {s} \subseteq Closed'
        BY <3>2, <3>5
      <4> QED BY <3>1, <3>3, <3>5, <4>1, OneMoreOfEach
    <3> QED BY <2>2, <3>1, <3>2, <3>4, <3>5, NextEnds DEF OneEOSPerStream, Ends, Closed
  <2> QED BY <2>1, <2>2
<1>3. EndsInv => OneEOSPerStream
  BY DEF EndsInv
<1> QED BY <1>1, <1>2, <1>3, PTL DEF Spec

----------------------------------------------------------------------------
(* Headers.  The name in an encrypted header is that of a handle with the key *)
(* that was the last before it, unless the header failed on the way: then     *)
(* there is no handle, and no other stream will get its name.               *)

HeaderKeys ==
  \A h \in DOMAIN wire : KindAt(h) = "EncStream" =>
    IF wire[h].sid \in Opened THEN LatestKeyIs(h, handles[wire[h].sid].key) ELSE werr

\* The handles that there are keep their keys; after a failure no other comes.
HandlesStay ==
  /\ Opened \subseteq Opened' /\ \A s \in Opened : handles'[s].key = handles[s].key
  /\ werr => werr' /\ Opened' = Opened

\* A changed handle has the key it had.
LEMMA SameKeys ==
  ASSUME NEW s \in Opened, NEW new, handles' = [handles EXCEPT ![s] = new], new.key = handles[s].key
  PROVE  Opened' = Opened /\ \A t \in Opened : handles'[t].key = handles[t].key
BY DEF Opened

LEMMA NextHandles ==
  ASSUME TypeOK, Next
  PROVE  HandlesStay
<1>0. handles \in Seq(Handles) /\ \A s \in Opened : handles[s] \in Handles
  BY DEF TypeOK, Opened
<1>1. werr => werr'
  <2>1. \A bs, o : Whole(bs) /\ o \in SendOutcomes(bs) /\ Send(o) => (werr => werr')
    BY SendExtends DEF TypeOK, Whole, Send
  <2> QED BY <2>1, NextSends
<1> DEFINE Same  == Opened' = Opened /\ \A s \in Opened : handles'[s].key = handles[s].key
           Grown == Opened \subseteq Opened' /\ \A s \in Opened : handles'[s].key = handles[s].key
<1>2. handles' = handles => Same
  BY DEF Opened
<1>3. \A new \in Handles : handles' = Append(handles, new) => Grown
  <2> SUFFICES ASSUME NEW new \in Handles, handles' = Append(handles, new) PROVE Grown
    OBVIOUS
  <2>1. /\ Opened' = 1..(Len(handles) + 1) /\ Opened = 1..Len(handles) /\ Len(handles) \in Nat
        /\ \A s \in 1..Len(handles) : handles'[s] = handles[s]
    BY <1>0, OneMoreHandle
  <2> QED BY <2>1
<1>4. ASSUME AddUnencryptedStream PROVE (Same \/ Grown) /\ ~werr
  <2>1. Handle(FALSE, NoKey, 0) \in Handles
    BY WriterAssumption DEF Handle, Handles, NoKey
  <2>2. ~werr /\ (handles' = handles \/ handles' = Append(handles, Handle(FALSE, NoKey, 0)))
    BY <1>4 DEF AddUnencryptedStream
  <2> HIDE DEF Same, Grown
  <2> QED BY <1>2, <1>3, <2>1, <2>2
<1>5. ASSUME AddEncryptedStream PROVE (Same \/ Grown) /\ ~werr
  <2>1. Handle(TRUE, wkey, nonce) \in Handles
    BY WriterAssumption DEF Handle, Handles, TypeOK
  <2>2. ~werr /\ (handles' = handles \/ handles' = Append(handles, Handle(TRUE, wkey, nonce)))
    BY <1>5 DEF AddEncryptedStream
  <2> HIDE DEF Same, Grown
  <2> QED BY <1>2, <1>3, <2>1, <2>2
<1>6. ASSUME NEW s \in Opened, NEW c \in Chunks, WritePlain(s, c) PROVE Same
  <2> DEFINE new == [handles[s] EXCEPT !.wrote = Append(@, c), !.sum = Append(@, Clear(<< c >>))]
  <2>1. handles' = [handles EXCEPT ![s] = new]
    BY <1>6 DEF WritePlain
  <2>2. new.key = handles[s].key
    BY <1>0 DEF Handles
  <2> HIDE DEF new
  <2> QED BY <2>1, <2>2, SameKeys
<1>7. ASSUME NEW s \in Opened, NEW c \in Chunks, WriteEncrypted(s, c) PROVE Same
  <2> DEFINE kept == [handles[s] EXCEPT !.wrote = Append(@, c), !.pend = << c >>]
             next == [handles[s] EXCEPT !.wrote = Append(@, c), !.pend = << c >>, !.frag = @ + 1,
                                        !.sum = Append(@, Fragment(handles[s], FALSE))]
  <2>1. handles' = [handles EXCEPT ![s] = kept] \/ handles' = [handles EXCEPT ![s] = next]
    BY <1>7 DEF WriteEncrypted
  <2>2. kept.key = handles[s].key /\ next.key = handles[s].key
    BY <1>0 DEF Handles
  <2> HIDE DEF kept, next
  <2> QED BY <2>1, <2>2, SameKeys
<1>8. ASSUME NEW s \in Opened, ClosePlain(s) PROVE Same
  <2>1. PICK e : handles' = [handles EXCEPT ![s].eosWritten = TRUE, ![s].ack = e]
    BY <1>8 DEF ClosePlain
  <2> DEFINE new == [handles[s] EXCEPT !.eosWritten = TRUE, !.ack = e]
  <2>2. handles' = [handles EXCEPT ![s] = new]
    BY <2>1
  <2>3. new.key = handles[s].key
    BY <1>0 DEF Handles
  <2> HIDE DEF new
  <2> QED BY <2>2, <2>3, SameKeys
<1>9. ASSUME NEW s \in Opened, CloseEncrypted(s) PROVE Same
  <2> DEFINE hd1 == AfterSioClose(handles[s])
  <2>1. PICK e : handles' = [handles EXCEPT ![s] = [hd1 EXCEPT !.ack = e]]
    BY <1>9 DEF CloseEncrypted
  <2> DEFINE new == [hd1 EXCEPT !.ack = e]
  <2>2. new.key = handles[s].key
    BY <1>0 DEF Handles, AfterSioClose
  <2>3. handles' = [handles EXCEPT ![s] = new]
    BY <2>1
  <2> HIDE DEF new, hd1
  <2> QED BY <2>2, <2>3, SameKeys
<1>10. handles' = handles \/ AddUnencryptedStream \/ AddEncryptedStream
         \/ \E s \in Opened : \/ \E c \in Chunks : WritePlain(s, c) \/ WriteEncrypted(s, c)
                              \/ ClosePlain(s) \/ CloseEncrypted(s)
  BY DEF Next, AddKeyPlain, AddKeyEncrypted, AddError, CloseWriter
<1>11. Same => Grown
  OBVIOUS
<1>12. Same \/ (Grown /\ ~werr)
  <2> HIDE DEF Same, Grown
  <2> QED BY <1>2, <1>4, <1>5, <1>6, <1>7, <1>8, <1>9, <1>10, <1>11
<1> QED BY <1>1, <1>12 DEF HandlesStay

\* A header that was on the wire keeps the key of its handle.
LEMMA OldHeaders ==
  ASSUME TypeOK, HeaderKeys, HandlesStay, NEW t \in Seq(Blocks), wire' = wire \o t,
         NEW h \in DOMAIN wire, KindAt(h) = "EncStream"
  PROVE  IF wire'[h].sid \in Opened' THEN LatestKeyIs(h, handles[wire[h].sid].key)'  ELSE werr'
<1>1. wire'[h] = wire[h] /\ h \in 1..(Len(wire) + 1)
  BY WireGrows DEF TypeOK
<1>2. CASE wire[h].sid \in Opened
  <2>1. \A k : LatestKeyIs(h, k) => LatestKeyIs(h, k)'
    BY <1>1, LatestKeyStays DEF TypeOK
  <2> DEFINE k == handles[wire[h].sid].key
  <2>2. LatestKeyIs(h, k)
    BY <1>2 DEF HeaderKeys
  <2>3. k = k' /\ wire[h].sid \in Opened'
    BY <1>1, <1>2 DEF HandlesStay
  <2> QED BY <1>1, <2>1, <2>2, <2>3 DEF LatestKeyIs
<1>3. CASE wire[h].sid \notin Opened
  BY <1>1, <1>3 DEF HeaderKeys, HandlesStay
<1> QED BY <1>2, <1>3

\* A call without a header leaves those there are.
LEMMA HeadlessKeepsHeaders ==
  ASSUME TypeOK, HeaderKeys, HandlesStay, NEW bs, Headless(bs), NEW o \in SendOutcomes(bs), Send(o)
  PROVE  HeaderKeys'
<1>0. wire \in Seq(Blocks) /\ bs \in Seq(Blocks)
  BY DEF TypeOK, Headless, Whole
<1>1. PICK t : Extends(bs, t) /\ wire' = wire \o t
  BY <1>0, SendExtends DEF TypeOK, Send
<1>2. t \in Seq(Blocks) /\ \A i \in 1..Len(t) : t[i].kind # "EncStream"
  BY <1>1 DEF Extends, Headless
<1>3. ASSUME NEW h \in DOMAIN wire', wire'[h].kind = "EncStream"
      PROVE  h \in DOMAIN wire /\ wire'[h] = wire[h]
  <2>1. CASE h \in DOMAIN wire
    BY <1>0, <1>1, <1>2, <2>1, WireGrows
  <2>2. CASE h \notin DOMAIN wire
    <3>1. h - Len(wire) \in 1..Len(t) /\ h \in Int
      BY <1>0, <1>1, <1>2, <2>2, WireGrows
    <3>2. Len(wire) + (h - Len(wire)) = h
      BY <1>0, <3>1
    <3> QED BY <1>0, <1>1, <1>2, <1>3, <3>1, <3>2, WireGrows
  <2> QED BY <2>1, <2>2
<1>4. ASSUME NEW h \in DOMAIN wire', wire'[h].kind = "EncStream"
      PROVE  IF wire'[h].sid \in Opened' THEN LatestKeyIs(h, handles[wire[h].sid].key)' ELSE werr'
  BY <1>1, <1>2, <1>3, <1>4, OldHeaders DEF KindAt
<1> QED BY <1>4 DEF HeaderKeys, KindAt

\* The header of a new stream follows the key that its handle gets.
LEMMA NewHeaderHasKey ==
  ASSUME SealInv, HeaderKeys, HandlesStay, AddEncryptedStream
  PROVE  HeaderKeys'
<1> DEFINE b   == EncStream(Len(handles) + 1, nonce)
           new == Handle(TRUE, wkey, nonce)
<1>0. /\ TypeOK /\ ~werr /\ wkey # NoKey /\ wire \in Seq(Blocks) /\ handles \in Seq(Handles)
      /\ Len(handles) \in Nat /\ nonce \in Nat /\ Len(wire) \in Nat
  BY DEF SealInv, AddEncryptedStream, TypeOK
<1>1. b \in Blocks /\ b.kind = "EncStream" /\ b.sid = Len(handles) + 1
  BY <1>0, BlockTypes, BlockKinds DEF EncStream
<1>2. PICK o \in SendOutcomes(<< b >>) :
        Send(o) /\ handles' = IF o.err THEN handles ELSE Append(handles, new)
  BY DEF AddEncryptedStream
<1>3. new \in Handles /\ new.key = wkey
  BY <1>0, WriterAssumption DEF Handle, Handles, TypeOK
<1> HIDE DEF b, new
<1>4. << b >> \in Seq(Blocks) /\ Len(<< b >>) = 1 /\ << b >>[1] = b
  BY <1>1, SmallSeqs
<1>5. PICK t : Extends(<< b >>, t) /\ wire' = wire \o t
  BY <1>0, <1>2, <1>4, SendExtends DEF TypeOK, Send
<1>6. /\ t \in Seq(Blocks) /\ Len(t) <= 1
      /\ \A i \in 1..Len(t) : i = 1 /\ (t[i].kind = "Partial" \/ t[i] = b)
  BY <1>4, <1>5 DEF Extends
<1>7. ASSUME NEW h \in DOMAIN wire', wire'[h].kind = "EncStream", h \notin DOMAIN wire
      PROVE  h = Len(wire) + 1 /\ wire'[h] = b
  <2>1. h - Len(wire) \in 1..Len(t) /\ h \in Int
    BY <1>0, <1>5, <1>6, <1>7, WireGrows
  <2>2. Len(wire) + (h - Len(wire)) = h
    BY <1>0, <2>1
  <2>3. wire'[h] = t[h - Len(wire)]
    BY <1>0, <1>5, <1>6, <2>1, <2>2, WireGrows
  <2>4. h - Len(wire) = 1 /\ wire'[h] = b
    BY <1>6, <1>7, <2>1, <2>3
  <2> QED BY <1>0, <2>2, <2>4
<1>8. ASSUME NEW h \in DOMAIN wire', wire'[h].kind = "EncStream", h \notin DOMAIN wire
      PROVE  IF wire'[h].sid \in Opened' THEN LatestKeyIs(h, handles[wire[h].sid].key)' ELSE werr'
  <2>0. h = Len(wire) + 1 /\ wire'[h].sid = Len(handles) + 1
    BY <1>1, <1>7, <1>8
  <2>1. CASE o.err
    <3>1. werr' /\ Opened' = 1..Len(handles)
      BY <1>0, <1>2, <2>1 DEF Send, Opened
    <3>2. wire'[h].sid \notin Opened'
      BY <1>0, <2>0, <3>1
    <3> QED BY <3>1, <3>2
  <2>2. CASE ~o.err
    <3>1. handles'[Len(handles) + 1] = new /\ Len(handles) + 1 \in Opened'
      <4>1. handles' = Append(handles, new)
        BY <1>2, <2>2
      <4> QED BY <1>0, <1>3, <4>1, OneMoreHandle
    <3>2. LatestKeyIs(Len(wire) + 1, wkey)
      BY <1>0 DEF SealInv, CurrentKey
    <3>3. ASSUME NEW g, g = Len(wire) + 1, NEW k, k = wkey PROVE LatestKeyIs(g, k)'
      <4>1. g \in 1..(Len(wire) + 1) /\ LatestKeyIs(g, k)
        BY <1>0, <3>2, <3>3
      <4> QED BY <1>0, <1>5, <1>6, <4>1, LatestKeyStays
    <3>4. ASSUME NEW k, k = handles'[wire'[h].sid].key PROVE LatestKeyIs(h, k)'
      BY <1>3, <2>0, <3>1, <3>3, <3>4
    <3> QED BY <2>0, <3>1, <3>4 DEF LatestKeyIs
  <2> QED BY <2>1, <2>2
<1>9. ASSUME NEW h \in DOMAIN wire', wire'[h].kind = "EncStream"
      PROVE  IF wire'[h].sid \in Opened' THEN LatestKeyIs(h, handles[wire[h].sid].key)' ELSE werr'
  <2>1. CASE h \in DOMAIN wire
    <3>1. wire'[h] = wire[h]
      BY <1>0, <1>5, <1>6, <2>1, WireGrows
    <3> QED BY <1>0, <1>5, <1>6, <1>9, <2>1, <3>1, OldHeaders DEF KindAt
  <2> QED BY <1>8, <1>9, <2>1
<1> QED BY <1>9 DEF HeaderKeys, KindAt

\* NewWriter has no headers.
LEMMA HeaderInit == Init => HeaderKeys
BY BlockKinds DEF Init, HeaderKeys, KindAt

\* Every call keeps headers and handles in step.
LEMMA HeaderStep == SealInv /\ HeaderKeys /\ [Next]_wvars => HeaderKeys' /\ HandlesStay
<1> SUFFICES ASSUME SealInv, HeaderKeys, [Next]_wvars PROVE HeaderKeys' /\ HandlesStay
  OBVIOUS
<1>0. TypeOK
  BY DEF SealInv
<1>1. CASE UNCHANGED wvars
  BY <1>1 DEF wvars, HeaderKeys, HandlesStay, LatestKeyIs, KindAt, Opened
<1>2. CASE Next
  <2>1. HandlesStay
    BY <1>0, <1>2, NextHandles
  <2>2. CASE wire' = wire /\ (werr => werr')
    <3>1. << >> \in Seq(Blocks) /\ wire' = wire \o << >>
      BY <1>0, <2>2 DEF TypeOK
    <3>2. ASSUME NEW h \in DOMAIN wire', wire'[h].kind = "EncStream"
          PROVE  IF wire'[h].sid \in Opened' THEN LatestKeyIs(h, handles[wire[h].sid].key)' ELSE werr'
      BY <1>0, <2>1, <2>2, <3>1, <3>2, OldHeaders DEF KindAt
    <3> QED BY <2>1, <3>2 DEF HeaderKeys, KindAt
  <2>3. CASE AddEncryptedStream
    BY <2>1, <2>3, NewHeaderHasKey
  <2>4. ASSUME NEW bs, Headless(bs), NEW o \in SendOutcomes(bs), Send(o) PROVE HeaderKeys'
    BY <1>0, <2>1, <2>4, HeadlessKeepsHeaders
  <2> QED BY <1>0, <1>2, <2>1, <2>2, <2>3, <2>4, NextSends
<1> QED BY <1>1, <1>2


----------------------------------------------------------------------------
(* What a handle knows of its stream, whatever its caller does.             *)

\* Payload k of a stream: the chunk of the k-th Write, in the clear or sealed
\* with the number k - 1; the last of an encrypted stream may be empty.
PayloadOf(hd, k) ==
  IF hd.enc
  THEN Sealed(hd.key, hd.nonce, k - 1, hd.sealed /\ k = Len(hd.sum),
              IF k <= Len(hd.wrote) THEN <<hd.wrote[k]>> ELSE <<>>)
  ELSE Clear(<<hd.wrote[k]>>)

\* sio holds the last chunk back until it is closed.
Buffers(hd) ==
  IF hd.wrote = <<>> THEN hd.pend = <<>> /\ hd.frag = 0
  ELSE hd.pend = <<hd.wrote[Len(hd.wrote)]>> /\ hd.frag = Len(hd.wrote) - 1

HandleFits(hd) ==
  /\ hd.eosWritten <=> hd.ack # "open"
  /\ \A k \in 1..Len(hd.sum) : hd.sum[k] = PayloadOf(hd, k)
  /\ hd.enc => /\ hd.key # NoKey /\ Buffers(hd) /\ (hd.sealed <=> hd.ack # "open")
               /\ Len(hd.sum) = IF hd.sealed THEN hd.frag + 1 ELSE hd.frag
  /\ ~hd.enc => Len(hd.sum) = Len(hd.wrote)

\* No two handles seal with the same nonce, and none with one to come.
NoncesDiffer ==
  /\ \A s \in Opened : handles[s].enc => handles[s].nonce < nonce
  /\ \A s, t \in Opened : handles[s].enc /\ handles[t].enc /\ s # t => handles[s].nonce # handles[t].nonce

HandlesInv == TypeOK /\ NoncesDiffer /\ \A s \in Opened : HandleFits(handles[s])

\* Payload p is one of an encrypted stream.
Genuine(p) ==
  \E s \in Opened : handles[s].enc /\ \E k \in 1..Len(handles[s].sum) : handles[s].sum[k] = p
\* A fragment was sealed by a handle, and a clear payload carries one chunk; a
\* header has a nonce that is used up and that no handle but its own seals with;
\* where a block is left unfinished the Writer has its error.
BlockFits(b) ==
  /\ b.kind = "Datablock" /\ b.payload.key # NoKey => Genuine(b.payload)
  /\ b.kind = "Datablock" /\ b.payload.key = NoKey => \E c \in Chunks : b.payload = Clear(<<c>>)
  /\ b.kind = "Partial" => werr
  /\ b.kind = "EncStream" =>
       /\ b.nonce \in Nat /\ b.nonce < nonce
       /\ \A s \in Opened : handles[s].enc /\ handles[s].nonce = b.nonce => s = b.sid

----------------------------------------------------------------------------
(* What a caller who keeps the contract gets.                               *)

Marks == StreamKinds \cup {"EOS"}
\* No stream begins or ends between blocks h and j.
Inside(h, j) == \A m \in (h + 1)..(j - 1) : KindAt(m) \notin Marks

\* One stream is open at a time, and none when the Writer is closed.
OneAtATime ==
  /\ \A s, t \in Opened : IsOpen(s) /\ IsOpen(t) => s = t
  /\ closes # <<>> => \A s \in Opened : ~IsOpen(s)

\* A header is that of a handle, or that of a call that failed.
HeadersNamed ==
  \A h \in DOMAIN wire : KindAt(h) \in StreamKinds =>
    IF wire[h].sid \in Opened THEN wire[h] = Header(wire[h].sid) ELSE werr

\* Data block n after a header has payload n of that stream, until its EOS block
\* with the checksum over all of them, which have then been sent; nothing but error
\* messages and blocks that are no business of this version comes between.
Placed(h, j) ==
  /\ KindAt(j) \in {"Datablock", "EOS", "Error", "Partial", "Skippable"}
  /\ KindAt(j) = "Datablock" =>
       /\ wire[h].sid \in Opened /\ NumData(h, j) \in 1..Len(handles[wire[h].sid].sum)
       /\ KindAt(h) = "PlainStream" => wire[j].payload.key = NoKey
  /\ KindAt(j) = "EOS" =>
       /\ wire[h].sid \in Opened /\ ~IsOpen(wire[h].sid)
       /\ wire[j].sum = handles[wire[h].sid].sum
       /\ NumData(h, j) = Len(handles[wire[h].sid].sum)
Carried(h, j) ==
  KindAt(j) = "Datablock" /\ wire[h].sid \in Opened =>
    wire[j].payload = handles[wire[h].sid].sum[NumData(h, j)]

Within(h, j) == h < j /\ KindAt(h) \in StreamKinds /\ Inside(h, j)
DataPlaced   == \A h, j \in DOMAIN wire : Within(h, j) => Placed(h, j)
DataCarried  == \A h, j \in DOMAIN wire : Within(h, j) => Carried(h, j)

\* The handles have headers, and the output has all of a stream that is open,
\* unless there was an error, and of one that was closed without.
HeadersSent == \A s \in Opened : \E h \in DOMAIN wire : wire[h] = Header(s)
DataSent ==
  \A h \in DOMAIN wire : KindAt(h) \in StreamKinds /\ wire[h].sid \in Opened =>
    LET hd == handles[wire[h].sid] IN
    /\ hd.ack = "open" /\ ~werr =>
         Inside(h, Len(wire) + 1) /\ NumData(h, Len(wire)) = Len(hd.sum)
    /\ hd.ack = "ok" =>
         \E j \in (h + 1)..Len(wire) :
           wire[j] = EOS(hd.sum) /\ Inside(h, j) /\ NumData(h, j) = Len(hd.sum)

\* A stream that failed to close leaves the error behind.
FailedKept == \A s \in Opened : handles[s].ack = "err" => werr

StreamsInv ==
  OneAtATime /\ FailedKept /\ HeadersNamed /\ DataPlaced /\ HeadersSent /\ DataSent

----------------------------------------------------------------------------
(* The calls keep every handle in order.                                    *)

\* The fields that no call changes.
Same(hd, new) == new.enc = hd.enc /\ new.key = hd.key /\ new.nonce = hd.nonce

\* r is q with e behind it.
Longer(r, q, e) ==
  /\ Len(q) \in Nat /\ Len(r) = Len(q) + 1 /\ r[Len(q) + 1] = e
  /\ \A k \in 1..Len(q) : r[k] = q[k]

LEMMA AppendIsLonger ==
  \A S : \A q \in Seq(S), e \in S : Longer(Append(q, e), q, e)
BY AppendProperties DEF Longer

\* streamWriter.Write of a plain stream (writer.go:217).
LEMMA PlainWritten ==
  ASSUME NEW hd, HandleFits(hd), ~hd.enc, NEW c, NEW new, Same(hd, new),
         Longer(new.wrote, hd.wrote, c), Longer(new.sum, hd.sum, Clear(<< c >>)),
         new.ack = hd.ack, new.eosWritten = hd.eosWritten
  PROVE  HandleFits(new)
<1>1. Len(hd.sum) = Len(hd.wrote) /\ Len(hd.sum) \in Nat
  BY DEF HandleFits, Longer
<1>2. \A k \in 1..Len(hd.sum) : hd.sum[k] = Clear(<< hd.wrote[k] >>)
  BY DEF HandleFits, PayloadOf
<1>3. \A k \in 1..Len(new.sum) : k \in 1..Len(hd.sum) \/ k = Len(hd.sum) + 1
  BY DEF Longer
<1>4. \A k \in 1..Len(new.sum) : new.sum[k] = Clear(<< new.wrote[k] >>)
  BY <1>1, <1>2, <1>3 DEF Longer
<1>5. Len(new.sum) = Len(new.wrote)
  BY <1>1 DEF Longer
<1> QED BY <1>4, <1>5 DEF HandleFits, PayloadOf, Same

\* The next payload of an encrypted stream is the buffered chunk, if there is one.
LEMMA BufferIs ==
  ASSUME NEW hd \in Handles, HandleFits(hd), hd.enc, ~hd.sealed
  PROVE  /\ Len(hd.sum) = hd.frag /\ hd.frag \in Nat /\ Len(hd.wrote) \in Nat
         /\ hd.wrote = << >> => hd.pend = << >> /\ hd.frag = 0 /\ Len(hd.wrote) = 0
         /\ hd.wrote # << >> => /\ hd.frag = Len(hd.wrote) - 1
                                /\ hd.pend = << hd.wrote[hd.frag + 1] >>
<1>1. /\ Len(hd.sum) = hd.frag /\ hd.frag \in Nat /\ Len(hd.wrote) \in Nat
      /\ hd.wrote = << >> => hd.pend = << >> /\ hd.frag = 0 /\ Len(hd.wrote) = 0
  BY DEF Handles, HandleFits, Buffers
<1>2. hd.wrote # << >> => hd.frag = Len(hd.wrote) - 1 /\ hd.pend = << hd.wrote[Len(hd.wrote)] >>
  BY DEF HandleFits, Buffers
<1>3. (Len(hd.wrote) - 1) + 1 = Len(hd.wrote)
  BY <1>1
<1> QED BY <1>1, <1>2, <1>3

LEMMA FragmentIs ==
  ASSUME NEW hd \in Handles, HandleFits(hd), hd.enc, ~hd.sealed, NEW l
  PROVE  Fragment(hd, l) = Sealed(hd.key, hd.nonce, hd.frag, l,
           IF hd.frag + 1 <= Len(hd.wrote) THEN << hd.wrote[hd.frag + 1] >> ELSE << >>)
<1>1. hd.pend = IF hd.frag + 1 <= Len(hd.wrote) THEN << hd.wrote[hd.frag + 1] >> ELSE << >>
  BY BufferIs
<1> QED BY <1>1 DEF Fragment

\* The payloads before the last are sealed as such.
LEMMA EarlierPayload ==
  ASSUME NEW hd, HandleFits(hd), hd.enc, ~hd.sealed, NEW k \in 1..Len(hd.sum), k <= Len(hd.wrote)
  PROVE  hd.sum[k] = Sealed(hd.key, hd.nonce, k - 1, FALSE, << hd.wrote[k] >>)
<1>1. hd.sum[k] = PayloadOf(hd, k)
  BY DEF HandleFits
<1>2. (hd.sealed /\ k = Len(hd.sum)) = FALSE
  OBVIOUS
<1> QED BY <1>1, <1>2 DEF PayloadOf

\* sio's EncWriter.Write: the first chunk is buffered (writer.go:268).
LEMMA FirstBuffered ==
  ASSUME NEW hd \in Handles, HandleFits(hd), hd.enc, ~hd.sealed, hd.pend = << >>, NEW c, NEW new, Same(hd, new),
         Longer(new.wrote, hd.wrote, c), new.pend = << c >>, new.sum = hd.sum,
         new.frag = hd.frag, new.sealed = hd.sealed, new.ack = hd.ack, new.eosWritten = hd.eosWritten
  PROVE  HandleFits(new)
<1>1. /\ Len(hd.sum) = hd.frag
      /\ hd.wrote = << >> => hd.frag = 0 /\ Len(hd.wrote) = 0
      /\ hd.wrote # << >> => hd.pend = << hd.wrote[hd.frag + 1] >>
  BY BufferIs
<1>2. Len(hd.wrote) = 0 /\ Len(hd.sum) = 0 /\ hd.frag = 0
  BY <1>1
<1>3. Len(new.wrote) = 1 /\ new.wrote[1] = c
  BY <1>2 DEF Longer
<1>4. Buffers(new)
  BY <1>2, <1>3 DEF Buffers
<1>5. \A k \in 1..Len(new.sum) : FALSE
  BY <1>2
<1>6. new.enc /\ new.key # NoKey /\ (new.sealed <=> new.ack # "open") /\ (new.eosWritten <=> new.ack # "open")
  BY DEF HandleFits, Same
<1> QED BY <1>2, <1>4, <1>5, <1>6 DEF HandleFits

\* A later chunk has the one before it sealed.
LEMMA NextSealed ==
  ASSUME NEW hd \in Handles, HandleFits(hd), hd.enc, ~hd.sealed, hd.pend # << >>, NEW c, NEW new, Same(hd, new),
         Longer(new.wrote, hd.wrote, c), new.pend = << c >>, new.frag = hd.frag + 1,
         Longer(new.sum, hd.sum, Fragment(hd, FALSE)),
         new.sealed = hd.sealed, new.ack = hd.ack, new.eosWritten = hd.eosWritten
  PROVE  HandleFits(new)
<1>1. Len(hd.sum) = hd.frag /\ hd.frag = Len(hd.wrote) - 1 /\ Len(hd.wrote) \in Nat /\ hd.frag \in Nat
  BY BufferIs
<1>2. Fragment(hd, FALSE) = Sealed(hd.key, hd.nonce, hd.frag, FALSE, << hd.wrote[hd.frag + 1] >>)
  <2>1. hd.pend = << hd.wrote[hd.frag + 1] >>
    BY <1>1, BufferIs
  <2> QED BY <2>1 DEF Fragment
<1>3. /\ Len(new.wrote) = Len(hd.wrote) + 1 /\ new.wrote[Len(new.wrote)] = c /\ new.wrote # << >>
      /\ \A k \in 1..Len(hd.wrote) : new.wrote[k] = hd.wrote[k]
      /\ Len(new.sum) = Len(hd.sum) + 1 /\ Len(new.sum) = new.frag
  BY <1>1 DEF Longer
<1>4. Buffers(new)
  BY <1>1, <1>3 DEF Buffers
<1>5. ASSUME NEW k \in 1..Len(new.sum)
      PROVE  /\ k \in 1..Len(hd.wrote) /\ new.wrote[k] = hd.wrote[k] /\ k <= Len(new.wrote)
             /\ k \in 1..Len(hd.sum) \/ k = hd.frag + 1
  BY <1>1, <1>3
<1>6. ASSUME NEW k \in 1..Len(new.sum)
      PROVE  new.sum[k] = Sealed(hd.key, hd.nonce, k - 1, FALSE, << hd.wrote[k] >>)
  <2>1. CASE k \in 1..Len(hd.sum)
    <3>0. k <= Len(hd.wrote)
      BY <1>1, <2>1
    <3>1. hd.sum[k] = Sealed(hd.key, hd.nonce, k - 1, FALSE, << hd.wrote[k] >>)
      BY <2>1, <3>0, EarlierPayload
    <3> QED BY <2>1, <3>1 DEF Longer
  <2>2. CASE k = hd.frag + 1
    <3>1. k - 1 = hd.frag
      BY <1>1, <2>2
    <3>2. new.sum[k] = Fragment(hd, FALSE)
      BY <1>1, <2>2, Zenon DEF Longer
    <3> QED BY <1>2, <2>2, <3>1, <3>2
  <2> QED BY <1>5, <2>1, <2>2
<1>7. ASSUME NEW k \in 1..Len(new.sum) PROVE new.sum[k] = PayloadOf(new, k)
  <2>1. PayloadOf(new, k) = Sealed(hd.key, hd.nonce, k - 1, FALSE, << hd.wrote[k] >>)
    BY <1>5 DEF PayloadOf, Same
  <2> QED BY <1>6, <2>1
<1>8. new.enc /\ new.key # NoKey /\ (new.sealed <=> new.ack # "open") /\ (new.eosWritten <=> new.ack # "open")
  BY DEF HandleFits, Same
<1> QED BY <1>3, <1>4, <1>7, <1>8 DEF HandleFits

\* streamWriter.Close of a plain stream (writer.go:231).
LEMMA PlainClosed ==
  ASSUME NEW hd \in Handles, HandleFits(hd), ~hd.enc, NEW a \in {"ok", "err"}, NEW new, Same(hd, new),
         new.wrote = hd.wrote, new.sum = hd.sum, new.eosWritten = TRUE, new.ack = a
  PROVE  HandleFits(new)
BY DEF HandleFits, PayloadOf, Same

\* closeWrapper.Close: the last fragment is sealed (writer.go:271).
LEMMA LastSealed ==
  ASSUME NEW hd \in Handles, HandleFits(hd), hd.enc, ~hd.sealed, NEW a \in {"ok", "err"}, NEW new, Same(hd, new),
         new.wrote = hd.wrote, new.pend = hd.pend, new.frag = hd.frag,
         Longer(new.sum, hd.sum, Fragment(hd, TRUE)),
         new.sealed = TRUE, new.ack = a, new.eosWritten = TRUE
  PROVE  HandleFits(new)
<1>1. /\ Len(hd.sum) = hd.frag /\ Len(hd.wrote) \in Nat /\ hd.frag \in Nat
      /\ Len(hd.wrote) <= hd.frag + 1 /\ hd.frag <= Len(hd.wrote)
  BY BufferIs
<1>2. Fragment(hd, TRUE) = Sealed(hd.key, hd.nonce, hd.frag, TRUE,
        IF hd.frag + 1 <= Len(hd.wrote) THEN << hd.wrote[hd.frag + 1] >> ELSE << >>)
  BY FragmentIs
<1>3. Len(new.sum) = hd.frag + 1
  BY <1>1 DEF Longer
<1>4. Buffers(new)
  BY DEF Buffers, HandleFits
<1>5. ASSUME NEW k \in 1..Len(new.sum) PROVE new.sum[k] = PayloadOf(new, k)
  <2>1. CASE k \in 1..Len(hd.sum)
    <3>1. k # Len(new.sum) /\ k <= Len(hd.wrote)
      BY <1>1, <1>3, <2>1
    <3>2. hd.sum[k] = Sealed(hd.key, hd.nonce, k - 1, FALSE, << hd.wrote[k] >>)
      BY <2>1, <3>1, EarlierPayload
    <3>3. PayloadOf(new, k) = Sealed(hd.key, hd.nonce, k - 1, FALSE, << hd.wrote[k] >>)
      BY <3>1 DEF PayloadOf, Same
    <3> QED BY <2>1, <3>2, <3>3 DEF Longer
  <2>2. CASE k = hd.frag + 1
    <3>1. k - 1 = hd.frag /\ k = Len(new.sum)
      BY <1>1, <1>3, <2>2
    <3>3. new.sum[k] = Fragment(hd, TRUE)
      BY <1>1, <2>2, Zenon DEF Longer
    <3>2. PayloadOf(new, k) = Fragment(hd, TRUE)
      BY <1>2, <2>2, <3>1 DEF PayloadOf, Same
    <3> QED BY <3>2, <3>3
  <2>3. k \in 1..Len(hd.sum) \/ k = hd.frag + 1
    BY <1>1, <1>3
  <2> QED BY <2>1, <2>2, <2>3
<1>6. new.enc /\ new.key # NoKey
  BY DEF HandleFits, Same
<1> QED BY <1>3, <1>4, <1>5, <1>6 DEF HandleFits

----------------------------------------------------------------------------
(* The calls, by what they do to the streams.                               *)

Sends(bs) == \E o \in SendOutcomes(bs) : Send(o)

\* A call about no stream: a key, an error message, the end of the output.
Aside(b) ==
  /\ Sends(<< b >>) /\ UNCHANGED <<handles, nonce>>
  /\ \/ b.kind \in KeyKinds /\ MayAdd /\ UNCHANGED <<errors, closes>>
     \/ b.kind = "Error" /\ (Disciplined => closes = << >>) /\ errors' = errors + 1 /\ closes' = closes
     \/ b.kind = "EOF" /\ (Disciplined => \A s \in Opened : ~IsOpen(s)) /\ errors' = errors /\ closes' # << >>

\* A new stream: the handle comes with the header.
HeaderFrom(new) ==
  IF new.enc THEN EncStream(Len(handles) + 1, nonce) ELSE PlainStream(Len(handles) + 1)
NewStream(new) ==
  /\ ~werr /\ MayAdd /\ Sends(<< HeaderFrom(new) >>)
  /\ handles' = IF werr' THEN handles ELSE Append(handles, new)
  /\ new.wrote = << >> /\ new.sum = << >> /\ new.ack = "open"
  /\ IF new.enc THEN new.nonce = nonce /\ nonce' = nonce + 1 ELSE nonce' = nonce
  /\ UNCHANGED <<errors, closes>>

\* A Write on a stream sends the payload that it adds, if there is one; the
\* first Close sends the last one of an encrypted stream and the end.
Writes(hd, new, bs) ==
  /\ new.ack = hd.ack /\ (hd.enc => ~hd.sealed) /\ (\E c : Longer(new.wrote, hd.wrote, c))
  /\ \/ bs = << >> /\ new.sum = hd.sum
     \/ \E q \in Payloads : bs = << Datablock(q) >> /\ Longer(new.sum, hd.sum, q)
Finishes(hd, new, bs) ==
  /\ hd.ack = "open" /\ new.ack = (IF werr' THEN "err" ELSE "ok") /\ new.wrote = hd.wrote
  /\ \/ bs = << EOS(new.sum) >> /\ new.sum = hd.sum
     \/ \E q \in Payloads : bs = << Datablock(q), EOS(new.sum) >> /\ Longer(new.sum, hd.sum, q)
StreamCall(s, new, bs) ==
  /\ MayUse(s) /\ Same(handles[s], new) /\ handles' = [handles EXCEPT ![s] = new]
  /\ UNCHANGED <<nonce, errors, closes>>
  /\ (IF bs = << >> THEN UNCHANGED <<wire, werr>> ELSE Sends(bs))
  /\ Writes(handles[s], new, bs) \/ Finishes(handles[s], new, bs)

\* A handle in order, and one that is new.
Sound(hd) == hd \in Handles /\ HandleFits(hd)

LEMMA FreshFits ==
  ASSUME TypeOK
  PROVE  /\ Sound(Handle(FALSE, NoKey, 0))
         /\ wkey # NoKey => Sound(Handle(TRUE, wkey, nonce))
<1>1. Handle(FALSE, NoKey, 0) \in Handles /\ Handle(TRUE, wkey, nonce) \in Handles
  BY WriterAssumption DEF Handle, Handles, NoKey, TypeOK
<1> QED BY <1>1 DEF Sound, HandleFits, Buffers, Handle

\* The fields of a handle have their types.
LEMMA HandleTyped ==
  ASSUME TypeOK, NEW s \in Opened
  PROVE  /\ handles[s] \in Handles /\ handles[s].wrote \in Seq(Chunks) /\ handles[s].sum \in Seq(Payloads)
         /\ handles[s].frag \in Nat /\ handles[s].ack \in {"open", "ok", "err"}
<1>1. handles[s] \in Handles
  BY DEF TypeOK, Opened
<1> QED BY <1>1 DEF Handles

\* Sending nothing changes nothing.
LEMMA EmptySend ==
  ASSUME wire \in Seq(Blocks), werr \in BOOLEAN, NEW o \in SendOutcomes(<< >>), Send(o)
  PROVE  wire' = wire /\ werr' = werr
<1>1. Faults(<< >>) = {}
  BY DEF Faults
<1>2. wire \o << >> = wire
  OBVIOUS
<1>3. CASE werr
  <2>1. o = [wire |-> wire, err |-> TRUE] /\ werr = TRUE
    BY <1>3 DEF SendOutcomes, Sticky
  <2> QED BY <2>1 DEF Send
<1>4. CASE ~werr
  <2>1. o = [wire |-> wire \o << >>, err |-> FALSE]
    BY <1>1, <1>4 DEF SendOutcomes, Sticky
  <2> QED BY <1>2, <1>4, <2>1 DEF Send
<1> QED BY <1>3, <1>4

\* AddKeyPlain, AddKeyEncrypted, AddError and Writer.Close.
LEMMA AsideCalls ==
  ASSUME TypeOK, AddKeyPlain \/ (\E q \in PubKeys : AddKeyEncrypted(q)) \/ AddError \/ CloseWriter
  PROVE  \/ wire' = wire /\ werr' /\ UNCHANGED <<handles, nonce, errors, closes>>
         \/ \E b \in Blocks : Aside(b)
<1>1. CASE AddKeyPlain
  <2>1. nkeys' \in 1..MaxKeys
    BY <1>1, WriterAssumption DEF AddKeyPlain, TypeOK
  <2>2. PlainKey(nkeys') \in Blocks /\ PlainKey(nkeys').kind \in KeyKinds
    BY <2>1, BlockTypes, BlockKinds DEF KeyKinds
  <2> QED BY <1>1, <2>2 DEF AddKeyPlain, Aside, Sends
<1>2. ASSUME NEW q \in PubKeys, AddKeyEncrypted(q)
      PROVE  \/ wire' = wire /\ werr' /\ UNCHANGED <<handles, nonce, errors, closes>>
             \/ \E b \in Blocks : Aside(b)
  <2>1. nkeys' \in 1..MaxKeys
    BY <1>2, WriterAssumption DEF AddKeyEncrypted, TypeOK
  <2>2. EncryptedKey(q, nkeys') \in Blocks /\ EncryptedKey(q, nkeys').kind \in KeyKinds
    BY <2>1, BlockTypes, BlockKinds DEF KeyKinds
  <2> QED BY <1>2, <2>2 DEF AddKeyEncrypted, Aside, Sends
<1>3. CASE AddError
  BY <1>3, BlockTypes, BlockKinds DEF AddError, Aside, Sends
<1>4. CASE CloseWriter
  <2>1. PICK o \in SendOutcomes(<< EOFBlock >>) :
          Send(o) /\ closes' = Append(closes, IF o.err THEN "err" ELSE "ok")
    BY <1>4 DEF CloseWriter
  <2>2. closes' # << >>
    <3>1. Len(closes') = Len(closes) + 1 /\ Len(closes) \in Nat
      BY <2>1, AppendProperties DEF TypeOK
    <3> QED BY <3>1
  <2> QED BY <1>4, <2>1, <2>2, BlockTypes, BlockKinds DEF CloseWriter, Aside, Sends
<1> QED BY <1>1, <1>2, <1>3, <1>4

\* AddUnencryptedStream and AddEncryptedStream.
LEMMA NewStreamCalls ==
  ASSUME TypeOK, AddUnencryptedStream \/ AddEncryptedStream
  PROVE  \E new : Sound(new) /\ NewStream(new)
<1>1. CASE AddUnencryptedStream
  <2> DEFINE new == Handle(FALSE, NoKey, 0)
  <2>1. Sound(new) /\ ~new.enc /\ new.wrote = << >> /\ new.sum = << >> /\ new.ack = "open"
    BY FreshFits DEF Handle
  <2>2. PICK o \in SendOutcomes(<< PlainStream(Len(handles) + 1) >>) :
          Send(o) /\ handles' = IF o.err THEN handles ELSE Append(handles, new)
    BY <1>1 DEF AddUnencryptedStream
  <2>3. ~werr /\ MayAdd /\ UNCHANGED <<nonce, errors, closes>>
    BY <1>1 DEF AddUnencryptedStream
  <2> HIDE DEF new
  <2>4. handles' = IF werr' THEN handles ELSE Append(handles, new)
    BY <2>2 DEF Send
  <2>5. HeaderFrom(new) = PlainStream(Len(handles) + 1)
    BY <2>1 DEF HeaderFrom
  <2>6. Sends(<< HeaderFrom(new) >>)
    BY <2>2, <2>5 DEF Sends
  <2> QED BY <2>1, <2>3, <2>4, <2>6 DEF NewStream
<1>2. CASE AddEncryptedStream
  <2> DEFINE new == Handle(TRUE, wkey, nonce)
  <2>0. ~werr /\ MayAdd /\ wkey # NoKey /\ UNCHANGED <<errors, closes>>
    BY <1>2 DEF AddEncryptedStream
  <2>1. Sound(new) /\ new.enc /\ new.wrote = << >> /\ new.sum = << >> /\ new.ack = "open" /\ new.nonce = nonce
    BY <2>0, FreshFits DEF Handle
  <2>2. PICK o \in SendOutcomes(<< EncStream(Len(handles) + 1, nonce) >>) :
          Send(o) /\ handles' = IF o.err THEN handles ELSE Append(handles, new)
    BY <1>2 DEF AddEncryptedStream
  <2>3. nonce' = nonce + 1
    BY <1>2, WriterAssumption DEF AddEncryptedStream, NextNonce, TypeOK
  <2> HIDE DEF new
  <2>4. handles' = IF werr' THEN handles ELSE Append(handles, new)
    BY <2>2 DEF Send
  <2>5. HeaderFrom(new) = EncStream(Len(handles) + 1, nonce)
    BY <2>1 DEF HeaderFrom
  <2>6. Sends(<< HeaderFrom(new) >>)
    BY <2>2, <2>5 DEF Sends
  <2> QED BY <2>0, <2>1, <2>3, <2>4, <2>6 DEF NewStream
<1> QED BY <1>1, <1>2

\* streamWriter.Write.
LEMMA PlainWrite ==
  ASSUME TypeOK, NEW s \in Opened, HandleFits(handles[s]), NEW c \in Chunks, WritePlain(s, c)
  PROVE  \E new, bs : Sound(new) /\ bs \in Seq(Blocks) /\ StreamCall(s, new, bs)
<1> DEFINE hd  == handles[s]
           q   == Clear(<< c >>)
           new == [hd EXCEPT !.wrote = Append(@, c), !.sum = Append(@, q)]
<1>1. hd \in Handles /\ hd.wrote \in Seq(Chunks) /\ hd.sum \in Seq(Payloads) /\ q \in Payloads
  BY HandleTyped, PayloadTypes
<1>2. /\ ~hd.enc /\ MayUse(s) /\ Sends(<< Datablock(q) >>)
      /\ handles' = [handles EXCEPT ![s] = new] /\ UNCHANGED <<nonce, errors, closes>>
  BY DEF WritePlain, Sends
<1>3. Append(hd.wrote, c) \in Seq(Chunks) /\ Append(hd.sum, q) \in Seq(Payloads)
  BY <1>1, AppendProperties
<1>4. /\ new \in Handles /\ Same(hd, new) /\ new.ack = hd.ack /\ new.eosWritten = hd.eosWritten
      /\ new.wrote = Append(hd.wrote, c) /\ new.sum = Append(hd.sum, q)
  BY <1>1, <1>3 DEF Handles, Same
<1>5. Datablock(q) \in Blocks
  BY <1>1, BlockTypes
<1> HIDE DEF new, q
<1>6. Longer(new.wrote, hd.wrote, c) /\ Longer(new.sum, hd.sum, q)
  BY <1>1, <1>4, AppendIsLonger
<1>7. HandleFits(new)
  BY <1>2, <1>4, <1>6, PlainWritten DEF q
<1>8. << Datablock(q) >> \in Seq(Blocks) /\ << Datablock(q) >> # << >>
  BY <1>5
<1>9. Writes(hd, new, << Datablock(q) >>)
  BY <1>1, <1>2, <1>4, <1>6 DEF Writes
<1> QED BY <1>2, <1>4, <1>7, <1>8, <1>9 DEF StreamCall, Sound

\* sio's EncWriter.Write.
LEMMA EncryptedWrite ==
  ASSUME TypeOK, NEW s \in Opened, HandleFits(handles[s]), NEW c \in Chunks, WriteEncrypted(s, c)
  PROVE  \E new, bs : Sound(new) /\ bs \in Seq(Blocks) /\ StreamCall(s, new, bs)
<1> DEFINE hd == handles[s]
           q  == Fragment(hd, FALSE)
<1>1. hd \in Handles /\ hd.wrote \in Seq(Chunks) /\ hd.sum \in Seq(Payloads) /\ hd.frag \in Nat
  BY HandleTyped
<1>2. hd.enc /\ ~hd.sealed /\ MayUse(s) /\ UNCHANGED <<nonce, errors, closes>>
  BY DEF WriteEncrypted
<1>3. q \in Payloads
  BY <1>1, PayloadTypes
<1>4. << c >> \in Seq(Chunks) /\ Append(hd.wrote, c) \in Seq(Chunks) /\ Append(hd.sum, q) \in Seq(Payloads)
      /\ hd.frag + 1 \in Nat
  <2> HIDE DEF q
  <2> QED BY <1>1, <1>3, AppendProperties, SmallSeqs
<1>5. CASE hd.pend = << >>
  <2> DEFINE new == [hd EXCEPT !.wrote = Append(@, c), !.pend = << c >>]
  <2>1. UNCHANGED <<wire, werr>> /\ handles' = [handles EXCEPT ![s] = new]
    BY <1>5 DEF WriteEncrypted
  <2>2. /\ new \in Handles /\ Same(hd, new) /\ new.ack = hd.ack /\ new.eosWritten = hd.eosWritten
        /\ new.wrote = Append(hd.wrote, c) /\ new.sum = hd.sum /\ new.pend = << c >>
        /\ new.frag = hd.frag /\ new.sealed = hd.sealed
    BY <1>1, <1>4 DEF Handles, Same
  <2> HIDE DEF new
  <2>3. Longer(new.wrote, hd.wrote, c)
    BY <1>1, <2>2, AppendIsLonger
  <2>4. HandleFits(new)
    BY <1>1, <1>2, <1>5, <2>2, <2>3, FirstBuffered
  <2>5. Writes(hd, new, << >>) /\ << >> \in Seq(Blocks)
    BY <1>2, <2>2, <2>3 DEF Writes
  <2> QED BY <1>2, <2>1, <2>2, <2>4, <2>5 DEF StreamCall, Sound
<1>6. CASE hd.pend # << >>
  <2> DEFINE new == [hd EXCEPT !.wrote = Append(@, c), !.pend = << c >>, !.frag = @ + 1, !.sum = Append(@, q)]
  <2>1. Sends(<< Datablock(q) >>) /\ handles' = [handles EXCEPT ![s] = new]
    BY <1>6 DEF WriteEncrypted, Sends
  <2>2. /\ new \in Handles /\ Same(hd, new) /\ new.ack = hd.ack /\ new.eosWritten = hd.eosWritten
        /\ new.wrote = Append(hd.wrote, c) /\ new.sum = Append(hd.sum, q) /\ new.pend = << c >>
        /\ new.frag = hd.frag + 1 /\ new.sealed = hd.sealed
    <3> HIDE DEF q
    <3> QED BY <1>1, <1>4 DEF Handles, Same
  <2> HIDE DEF new
  <2>3. Longer(new.wrote, hd.wrote, c) /\ Longer(new.sum, hd.sum, q)
    <3> HIDE DEF q
    <3> QED BY <1>1, <1>3, <2>2, AppendIsLonger
  <2>4. HandleFits(new)
    BY <1>1, <1>2, <1>6, <2>2, <2>3, NextSealed
  <2>5. << Datablock(q) >> \in Seq(Blocks) /\ << Datablock(q) >> # << >>
    BY <1>3, BlockTypes, SmallSeqs
  <2>6. Writes(hd, new, << Datablock(q) >>)
    BY <1>2, <1>3, <2>2, <2>3 DEF Writes
  <2> QED BY <1>2, <2>1, <2>2, <2>4, <2>5, <2>6 DEF StreamCall, Sound
<1> QED BY <1>5, <1>6

\* streamWriter.Close.
LEMMA PlainClose ==
  ASSUME TypeOK, NEW s \in Opened, HandleFits(handles[s]), ClosePlain(s)
  PROVE  \/ UNCHANGED <<wire, werr, nonce, handles, errors, closes>>
         \/ \E new, bs : Sound(new) /\ bs \in Seq(Blocks) /\ StreamCall(s, new, bs)
<1> DEFINE hd == handles[s]
<1>1. hd \in Handles /\ hd.sum \in Seq(Payloads) /\ hd.ack \in {"open", "ok", "err"}
  BY HandleTyped
<1>2. ~hd.enc /\ MayUse(s) /\ UNCHANGED <<nonce, errors, closes>>
  BY DEF ClosePlain
<1>3. PICK o \in SendOutcomes(EOSBlocks(hd)) :
        Send(o) /\ handles' = [handles EXCEPT ![s].eosWritten = TRUE, ![s].ack = Acked(hd, o.err)]
  BY DEF ClosePlain
<1> DEFINE new == [hd EXCEPT !.eosWritten = TRUE, !.ack = Acked(hd, o.err)]
<1>4. handles' = [handles EXCEPT ![s] = new]
  BY <1>3
<1>5. CASE hd.ack # "open"
  <2>1. hd.eosWritten = TRUE /\ Acked(hd, o.err) = hd.ack
    BY <1>1, <1>5 DEF HandleFits, Acked, Handles
  <2>2. new = hd
    BY <1>1, <2>1 DEF Handles
  <2>3. handles' = handles
    BY <1>4, <2>2 DEF TypeOK
  <2>4. EOSBlocks(hd) = << >>
    BY <2>1 DEF EOSBlocks
  <2>5. wire' = wire /\ werr' = werr
    <3>1. wire \in Seq(Blocks) /\ werr \in BOOLEAN
      BY DEF TypeOK
    <3> QED BY <1>3, <2>4, <3>1, EmptySend
  <2> QED BY <1>2, <2>3, <2>5
<1>6. CASE hd.ack = "open"
  <2>1. ~hd.eosWritten /\ o.err = werr' /\ werr' \in BOOLEAN
    BY <1>3, <1>6, WriterTypeStep DEF HandleFits, Send, TypeOK, Next
  <2>2. /\ new \in Handles /\ Same(hd, new) /\ new.wrote = hd.wrote /\ new.sum = hd.sum
        /\ new.eosWritten = TRUE /\ new.ack = (IF werr' THEN "err" ELSE "ok")
    BY <1>1, <1>6, <2>1 DEF Handles, Same, Acked
  <2> HIDE DEF new
  <2>3. HandleFits(new)
    BY <1>1, <1>2, <2>2, PlainClosed
  <2>4. EOSBlocks(hd) = << EOS(new.sum) >>
    BY <2>1, <2>2 DEF EOSBlocks
  <2>5. EOS(new.sum) \in Blocks
    BY <1>1, <2>2, BlockTypes
  <2>6. << EOS(new.sum) >> \in Seq(Blocks) /\ << EOS(new.sum) >> # << >>
    BY <2>5
  <2>7. Sends(<< EOS(new.sum) >>)
    BY <1>3, <2>4 DEF Sends
  <2>8. Finishes(hd, new, << EOS(new.sum) >>)
    BY <1>6, <2>2 DEF Finishes
  <2> QED BY <1>2, <1>4, <2>2, <2>3, <2>6, <2>7, <2>8 DEF StreamCall, Sound
<1> QED BY <1>5, <1>6

\* closeWrapper.Close.
LEMMA EncryptedClose ==
  ASSUME TypeOK, NEW s \in Opened, HandleFits(handles[s]), CloseEncrypted(s)
  PROVE  \E new, bs : Sound(new) /\ bs \in Seq(Blocks) /\ StreamCall(s, new, bs)
<1> DEFINE hd  == handles[s]
           q   == Fragment(hd, TRUE)
           hd1 == AfterSioClose(hd)
<1>1. hd \in Handles /\ hd.sum \in Seq(Payloads) /\ q \in Payloads
  BY HandleTyped, PayloadTypes
<1>2. hd.enc /\ ~hd.sealed /\ MayUse(s) /\ UNCHANGED <<nonce, errors, closes>> /\ hd.ack = "open"
  BY DEF CloseEncrypted, HandleFits
<1>3. hd1 \in Handles /\ EOSBlocks(hd1) = << >>
  BY <1>1, SioCloseTyped DEF EOSBlocks
<1>4. PICK o \in SendOutcomes(<< Datablock(q), EOS(hd1.sum) >> \o EOSBlocks(hd1)) :
        Send(o) /\ handles' = [handles EXCEPT ![s] = [hd1 EXCEPT !.ack = Acked(hd, o.err)]]
  BY DEF CloseEncrypted
<1> DEFINE new == [hd1 EXCEPT !.ack = Acked(hd, o.err)]
<1>5. o.err = werr' /\ werr' \in BOOLEAN
  BY <1>4, WriterTypeStep DEF Send, TypeOK, Next
<1>6. new.ack = (IF werr' THEN "err" ELSE "ok")
  BY <1>2, <1>3, <1>5 DEF Handles, Acked
<1>7. /\ hd1.enc = hd.enc /\ hd1.key = hd.key /\ hd1.nonce = hd.nonce /\ hd1.wrote = hd.wrote
      /\ hd1.pend = hd.pend /\ hd1.frag = hd.frag /\ hd1.sealed = TRUE /\ hd1.eosWritten = TRUE
      /\ hd1.sum = Append(hd.sum, q)
  BY <1>1 DEF AfterSioClose, Handles
<1> HIDE DEF hd1, q
<1>8. /\ new \in Handles /\ Same(hd, new) /\ new.wrote = hd.wrote /\ new.pend = hd.pend /\ new.frag = hd.frag
      /\ new.sealed = TRUE /\ new.eosWritten = TRUE /\ new.sum = hd1.sum
  BY <1>2, <1>3, <1>5, <1>7 DEF Handles, Same, Acked
<1>9. Longer(new.sum, hd.sum, q)
  BY <1>1, <1>7, <1>8, AppendIsLonger
<1>10. handles' = [handles EXCEPT ![s] = new]
  BY <1>4
<1> HIDE DEF new
<1>11. HandleFits(new)
  BY <1>1, <1>2, <1>5, <1>6, <1>8, <1>9, LastSealed DEF q
<1>12. Datablock(q) \in Blocks /\ EOS(new.sum) \in Blocks
  BY <1>1, <1>8, BlockTypes DEF Handles
<1>13. << Datablock(q), EOS(new.sum) >> \in Seq(Blocks) /\ << Datablock(q), EOS(new.sum) >> # << >>
  BY <1>12
<1>14. << Datablock(q), EOS(new.sum) >> \o EOSBlocks(hd1) = << Datablock(q), EOS(new.sum) >>
  BY <1>3, <1>13, ConcatEmptySeq
<1>15. Sends(<< Datablock(q), EOS(new.sum) >>)
  BY <1>4, <1>8, <1>14 DEF Sends
<1>16. Finishes(hd, new, << Datablock(q), EOS(new.sum) >>)
  BY <1>1, <1>2, <1>6, <1>8, <1>9 DEF Finishes
<1> QED BY <1>2, <1>8, <1>10, <1>11, <1>13, <1>15, <1>16 DEF StreamCall, Sound

\* Every step of the Writer is one of these.
LEMMA Steps ==
  ASSUME HandlesInv, [Next]_wvars
  PROVE  \/ UNCHANGED <<wire, handles, nonce, errors, closes>> /\ (werr => werr')
         \/ \E b \in Blocks : Aside(b)
         \/ \E new : Sound(new) /\ NewStream(new)
         \/ \E s \in Opened : \E new, bs : Sound(new) /\ bs \in Seq(Blocks) /\ StreamCall(s, new, bs)
<1>1. TypeOK /\ \A s \in Opened : HandleFits(handles[s])
  BY DEF HandlesInv
<1>2. CASE UNCHANGED wvars
  BY <1>2 DEF wvars
<1>3. CASE AddKeyPlain \/ (\E q \in PubKeys : AddKeyEncrypted(q)) \/ AddError \/ CloseWriter
  BY <1>1, <1>3, AsideCalls
<1>4. CASE AddUnencryptedStream \/ AddEncryptedStream
  BY <1>1, <1>4, NewStreamCalls
<1>5. ASSUME NEW s \in Opened, NEW c \in Chunks, WritePlain(s, c) \/ WriteEncrypted(s, c)
      PROVE  \E new, bs : Sound(new) /\ bs \in Seq(Blocks) /\ StreamCall(s, new, bs)
  BY <1>1, <1>5, PlainWrite, EncryptedWrite
<1>6. ASSUME NEW s \in Opened, ClosePlain(s)
      PROVE  \/ UNCHANGED <<wire, werr, nonce, handles, errors, closes>>
             \/ \E new, bs : Sound(new) /\ bs \in Seq(Blocks) /\ StreamCall(s, new, bs)
  BY <1>1, <1>6, PlainClose
<1>7. ASSUME NEW s \in Opened, CloseEncrypted(s)
      PROVE  \E new, bs : Sound(new) /\ bs \in Seq(Blocks) /\ StreamCall(s, new, bs)
  BY <1>1, <1>7, EncryptedClose
<1>8. \/ AddKeyPlain \/ (\E q \in PubKeys : AddKeyEncrypted(q)) \/ AddError \/ CloseWriter
      \/ AddUnencryptedStream \/ AddEncryptedStream
      \/ \E s \in Opened, c \in Chunks : WritePlain(s, c) \/ WriteEncrypted(s, c)
      \/ \E s \in Opened : ClosePlain(s) \/ CloseEncrypted(s)
      \/ UNCHANGED wvars
  BY DEF Next
<1> QED BY <1>2, <1>3, <1>4, <1>5, <1>6, <1>7, <1>8

----------------------------------------------------------------------------
(* What every call leaves of the handles and of the blocks there are.       *)

\* r begins with q.
Prolongs(r, q) ==
  /\ Len(q) \in Nat /\ Len(r) \in Nat /\ Len(q) <= Len(r)
  /\ \A k \in 1..Len(q) : r[k] = q[k]

\* A handle goes on: what was written and sealed stays, and when it is closed
\* nothing comes behind it, unless the caller writes to a closed plain stream.
GoesOn(hd, new) ==
  /\ Same(hd, new) /\ Prolongs(new.wrote, hd.wrote) /\ Prolongs(new.sum, hd.sum)
  /\ hd.ack # "open" => new.ack = hd.ack
  /\ hd.ack # "open" /\ (hd.enc \/ Disciplined) => new.wrote = hd.wrote /\ new.sum = hd.sum

HandlesGrow ==
  /\ Opened \subseteq Opened' /\ nonce <= nonce'
  /\ werr => werr' /\ Opened' = Opened
  /\ \A s \in Opened : GoesOn(handles[s], handles'[s])
  /\ \A s \in Opened' : s \in Opened \/ (handles'[s].enc => nonce <= handles'[s].nonce)

LEMMA AllGoOn ==
  ASSUME TypeOK, NEW s \in Opened
  PROVE  GoesOn(handles[s], handles[s])
BY HandleTyped DEF GoesOn, Same, Prolongs

LEMMA LongerProlongs ==
  \A r, q, e : Longer(r, q, e) => Prolongs(r, q)
BY DEF Longer, Prolongs

\* A send leaves no error out.
LEMMA SendsErr ==
  ASSUME TypeOK, NEW bs \in Seq(Blocks), Sends(bs)
  PROVE  /\ werr' \in BOOLEAN /\ (werr => werr' /\ wire' = wire)
         /\ \E t \in Seq(Blocks) : wire' = wire \o t /\ Extends(bs, t)
         /\ ~werr' => wire' = wire \o bs
<1>1. PICK o \in SendOutcomes(bs) : Send(o)
  BY DEF Sends
<1>2. wire \in Seq(Blocks) /\ werr \in BOOLEAN
  BY DEF TypeOK
<1>3. werr' \in BOOLEAN /\ (werr => werr' /\ wire' = wire)
  BY <1>1, <1>2, SendExtends DEF Send
<1>4. \E t : Extends(bs, t) /\ wire' = wire \o t
  BY <1>1, <1>2, SendExtends DEF Send
<1>5. \E t \in Seq(Blocks) : wire' = wire \o t /\ Extends(bs, t)
  BY <1>4 DEF Extends
<1>6. ~werr' => wire' = wire \o bs
  BY <1>1, <1>2, SentWhole
<1> QED BY <1>3, <1>5, <1>6

\* A call on a stream changes its handle.
LEMMA StreamGrows ==
  ASSUME HandlesInv, NEW s \in Opened, NEW new, NEW bs \in Seq(Blocks), Sound(new), StreamCall(s, new, bs)
  PROVE  HandlesGrow /\ NoncesDiffer' /\ \A u \in Opened' : HandleFits(handles'[u])
<1>1. TypeOK /\ NoncesDiffer /\ \A u \in Opened : HandleFits(handles[u])
  BY DEF HandlesInv
<1>2. /\ Opened' = Opened /\ handles'[s] = new /\ nonce' = nonce
      /\ \A u \in Opened : u # s => handles'[u] = handles[u]
  BY DEF StreamCall, Opened
<1>3. GoesOn(handles[s], new)
  <2>1. Prolongs(handles[s].wrote, handles[s].wrote) /\ Prolongs(handles[s].sum, handles[s].sum)
    BY <1>1, HandleTyped DEF Prolongs
  <2>2. CASE Writes(handles[s], new, bs)
    <3>1. Prolongs(new.wrote, handles[s].wrote) /\ Prolongs(new.sum, handles[s].sum)
      BY <2>1, <2>2, LongerProlongs DEF Writes
    <3>2. new.ack = handles[s].ack /\ ~(handles[s].ack # "open" /\ (handles[s].enc \/ Disciplined))
      BY <1>1, <2>2 DEF Writes, StreamCall, MayUse, IsOpen, HandleFits
    <3> QED BY <3>1, <3>2 DEF GoesOn, StreamCall
  <2>3. CASE Finishes(handles[s], new, bs)
    <3>1. Prolongs(new.wrote, handles[s].wrote) /\ Prolongs(new.sum, handles[s].sum)
      BY <2>1, <2>3, LongerProlongs DEF Finishes
    <3> QED BY <2>3, <3>1 DEF GoesOn, StreamCall, Finishes
  <2> QED BY <2>2, <2>3 DEF StreamCall
<1>4. \A u \in Opened : GoesOn(handles[u], handles'[u])
  BY <1>1, <1>2, <1>3, AllGoOn
<1>5. \A u \in Opened : handles'[u].enc = handles[u].enc /\ handles'[u].nonce = handles[u].nonce
  BY <1>4 DEF GoesOn, Same
<1>6. nonce <= nonce' /\ (werr => werr')
  <2>1. werr => werr'
    BY <1>1, SendsErr DEF StreamCall
  <2> QED BY <1>1, <1>2, <2>1 DEF TypeOK
<1>7. NoncesDiffer'
  BY <1>1, <1>2, <1>5 DEF NoncesDiffer
<1>8. \A u \in Opened' : HandleFits(handles'[u])
  BY <1>1, <1>2 DEF Sound
<1> QED BY <1>2, <1>4, <1>6, <1>7, <1>8 DEF HandlesGrow

\* A new stream adds one.
LEMMA NewStreamGrows ==
  ASSUME HandlesInv, NEW new, Sound(new), NewStream(new)
  PROVE  HandlesGrow /\ NoncesDiffer' /\ \A u \in Opened' : HandleFits(handles'[u])
<1>1. TypeOK /\ NoncesDiffer /\ (\A u \in Opened : HandleFits(handles[u])) /\ nonce \in Nat
  BY DEF HandlesInv, TypeOK
<1>2. nonce <= nonce' /\ nonce' \in Nat /\ ~werr
  BY <1>1 DEF NewStream
<1>3. \A u \in Opened : GoesOn(handles[u], handles[u]) /\ handles[u].nonce \in Nat
  BY <1>1, AllGoOn, HandleTyped DEF Handles
<1>4. CASE handles' = handles
  <2>1. Opened' = Opened
    BY <1>4 DEF Opened
  <2>2. NoncesDiffer'
    BY <1>1, <1>2, <1>3, <1>4, <2>1 DEF NoncesDiffer
  <2> QED BY <1>1, <1>2, <1>3, <1>4, <2>1, <2>2 DEF HandlesGrow
<1>5. CASE handles' = Append(handles, new)
  <2>1. /\ Opened' = 1..(Len(handles) + 1) /\ handles'[Len(handles) + 1] = new
        /\ \A u \in 1..Len(handles) : handles'[u] = handles[u]
        /\ Opened = 1..Len(handles) /\ Len(handles) \in Nat
    BY <1>1, <1>5, OneMoreHandle DEF TypeOK, Sound
  <2>2. \A u \in Opened' : (u \in Opened /\ handles'[u] = handles[u]) \/ (u \notin Opened /\ handles'[u] = new)
    BY <2>1
  <2>3. new.enc => new.nonce = nonce /\ nonce' = nonce + 1
    BY DEF NewStream
  <2>4. Opened \subseteq Opened' /\ \A u \in Opened : handles'[u] = handles[u]
    BY <2>1
  <2>5. \A u, v \in Opened' : u \notin Opened /\ v \notin Opened => u = v
    BY <2>1
  <2>6. \A u \in Opened' : handles'[u].enc => handles'[u].nonce < nonce'
    BY <1>1, <1>2, <1>3, <2>2, <2>3 DEF NoncesDiffer
  <2>7. \A u \in Opened, v \in Opened' \ Opened :
          handles'[u].enc /\ handles'[v].enc => handles'[u].nonce # handles'[v].nonce
    BY <1>1, <1>3, <2>2, <2>3, <2>4 DEF NoncesDiffer
  <2>8. NoncesDiffer'
    BY <1>1, <2>4, <2>5, <2>6, <2>7 DEF NoncesDiffer
  <2>9. \A u \in Opened' : u \in Opened \/ (handles'[u].enc => nonce <= handles'[u].nonce)
    BY <1>1, <2>2, <2>3
  <2> QED BY <1>1, <1>2, <1>3, <2>2, <2>4, <2>8, <2>9 DEF HandlesGrow, Sound
<1> QED BY <1>4, <1>5 DEF NewStream

LEMMA HandlesInit == Init => HandlesInv
<1> SUFFICES ASSUME Init PROVE HandlesInv
  OBVIOUS
<1>1. TypeOK /\ handles = << >>
  BY WriterTypeInit DEF Init
<1> QED BY <1>1 DEF HandlesInv, NoncesDiffer, Opened

\* Every call keeps the handles in order and lets them go on.
LEMMA HandlesStep ==
  HandlesInv /\ [Next]_wvars => HandlesInv' /\ HandlesGrow
<1> SUFFICES ASSUME HandlesInv, [Next]_wvars
             PROVE  HandlesGrow /\ NoncesDiffer' /\ \A u \in Opened' : HandleFits(handles'[u])
  BY WriterTypeStep DEF HandlesInv
<1>1. TypeOK /\ NoncesDiffer /\ (\A u \in Opened : HandleFits(handles[u])) /\ nonce \in Nat
  BY DEF HandlesInv, TypeOK
<1>2. ASSUME UNCHANGED <<handles, nonce>>, werr => werr'
      PROVE  HandlesGrow /\ NoncesDiffer' /\ \A u \in Opened' : HandleFits(handles'[u])
  <2>1. Opened' = Opened
    BY <1>2 DEF Opened
  <2> QED BY <1>1, <1>2, <2>1, AllGoOn DEF HandlesGrow, NoncesDiffer
<1>3. ASSUME NEW b \in Blocks, Aside(b) PROVE UNCHANGED <<handles, nonce>> /\ (werr => werr')
  <2>1. << b >> \in Seq(Blocks) /\ Sends(<< b >>)
    BY <1>3 DEF Aside
  <2> QED BY <1>1, <1>3, <2>1, SendsErr DEF Aside
<1> QED BY <1>2, <1>3, Steps, StreamGrows, NewStreamGrows

\* A fragment and a header stay what they are.
LEMMA FitsStay ==
  ASSUME HandlesInv, HandlesInv', HandlesGrow, NEW b, BlockFits(b)
  PROVE  BlockFits(b)'
<1>1. ASSUME NEW q, Genuine(q) PROVE Genuine(q)'
  <2>1. PICK s \in Opened : handles[s].enc /\ \E k \in 1..Len(handles[s].sum) : handles[s].sum[k] = q
    BY <1>1 DEF Genuine
  <2>2. s \in Opened' /\ Same(handles[s], handles'[s]) /\ Prolongs(handles'[s].sum, handles[s].sum)
    BY DEF HandlesGrow, GoesOn
  <2>3. \E k \in 1..Len(handles'[s].sum) : handles'[s].sum[k] = q
    BY <2>1, <2>2 DEF Prolongs
  <2> QED BY <2>1, <2>2, <2>3 DEF Genuine, Same
<1>2. ASSUME b.kind = "EncStream"
      PROVE  /\ b.nonce < nonce'
             /\ \A s \in Opened' : handles'[s].enc /\ handles'[s].nonce = b.nonce => s = b.sid
  <2>1. b.nonce \in Nat /\ b.nonce < nonce /\ nonce \in Nat /\ nonce' \in Nat /\ nonce <= nonce'
    BY <1>2 DEF BlockFits, HandlesInv, HandlesGrow, TypeOK
  <2>2. \A s \in Opened : handles'[s].enc = handles[s].enc /\ handles'[s].nonce = handles[s].nonce
    BY DEF HandlesGrow, GoesOn, Same
  <2>3. \A s \in Opened' : handles'[s].nonce \in Nat
    <3>1. \A s \in Opened' : handles'[s] \in Handles
      BY DEF HandlesInv, TypeOK, Opened
    <3> QED BY <3>1 DEF Handles
  <2> QED BY <1>2, <2>1, <2>2, <2>3 DEF BlockFits, HandlesGrow
<1>3. b.kind = "Datablock" /\ b.payload.key # NoKey => Genuine(b.payload)'
  BY <1>1 DEF BlockFits
<1>4. b.kind = "EncStream" => b.nonce \in Nat
  BY DEF BlockFits
<1>5. b.kind = "Partial" => werr'
  BY DEF BlockFits, HandlesGrow
<1> QED BY <1>2, <1>3, <1>4, <1>5 DEF BlockFits

\* The blocks of a call on a stream.
LEMMA StreamBlocksFit ==
  ASSUME HandlesInv, NEW s \in Opened, NEW new, NEW bs \in Seq(Blocks), Sound(new), StreamCall(s, new, bs)
  PROVE  \A i \in 1..Len(bs) : BlockFits(bs[i])'
<1>1. Opened' = Opened /\ handles'[s] = new
  BY DEF StreamCall, Opened
<1>2. ASSUME NEW q, Longer(new.sum, handles[s].sum, q) PROVE BlockFits(Datablock(q))'
  <2> DEFINE k == Len(handles[s].sum) + 1
  <2>1. k \in 1..Len(new.sum) /\ new.sum[k] = q
    BY <1>2 DEF Longer
  <2>2. CASE new.enc
    <3>1. Genuine(q)'
      BY <1>1, <2>1, <2>2 DEF Genuine
    <3>2. q.key # NoKey
      <4>1. q = PayloadOf(new, k) /\ new.key # NoKey
        BY <2>1, <2>2 DEF Sound, HandleFits
      <4> QED BY <2>2, <4>1 DEF PayloadOf, Sealed
    <3> QED BY <3>1, <3>2 DEF BlockFits, Datablock
  <2>3. CASE ~new.enc
    <3>1. q = PayloadOf(new, k)
      BY <2>1 DEF Sound, HandleFits
    <3>2. q.key = NoKey /\ q = Clear(<< new.wrote[k] >>)
      BY <2>3, <3>1 DEF PayloadOf, Clear
    <3>3. new.wrote[k] \in Chunks
      <4>1. new.wrote \in Seq(Chunks) /\ Len(new.sum) = Len(new.wrote)
        BY <2>3 DEF Sound, Handles, HandleFits
      <4> QED BY <2>1, <4>1
    <3> QED BY <3>2, <3>3 DEF BlockFits, Datablock
  <2> QED BY <2>2, <2>3
<1>3. BlockFits(EOS(new.sum))'
  BY BlockKinds DEF BlockFits
<1>4. \/ bs = << >> \/ bs = << EOS(new.sum) >>
      \/ \E q : Longer(new.sum, handles[s].sum, q)
                /\ (bs = << Datablock(q) >> \/ bs = << Datablock(q), EOS(new.sum) >>)
  BY DEF StreamCall, Writes, Finishes
<1>5. CASE bs = << >> \/ bs = << EOS(new.sum) >>
  BY <1>3, <1>5
<1>6. ASSUME NEW q, Longer(new.sum, handles[s].sum, q),
             bs = << Datablock(q) >> \/ bs = << Datablock(q), EOS(new.sum) >>
      PROVE  \A i \in 1..Len(bs) : BlockFits(bs[i])'
  <2>1. \A i \in 1..Len(bs) : bs[i] = Datablock(q) \/ bs[i] = EOS(new.sum)
    BY <1>6
  <2> QED BY <1>2, <1>3, <1>6, <2>1
<1> QED BY <1>4, <1>5, <1>6

\* The header of a new stream.
LEMMA HeaderFits ==
  ASSUME HandlesInv, NEW new, Sound(new), NewStream(new), NEW b, b = HeaderFrom(new)
  PROVE  b \in Blocks /\ BlockFits(b)'
<1>0. TypeOK /\ NoncesDiffer /\ Len(handles) \in Nat /\ nonce \in Nat
  BY DEF HandlesInv, TypeOK
<1>1. b \in Blocks
  BY <1>0, BlockTypes DEF HeaderFrom
<1>2. CASE ~new.enc
  <2>1. b.kind = "PlainStream"
    BY <1>2, BlockKinds DEF HeaderFrom
  <2> QED BY <1>1, <2>1 DEF BlockFits
<1>3. CASE new.enc
  <2>1. b.nonce = nonce /\ b.sid = Len(handles) + 1 /\ nonce' = nonce + 1
    BY <1>3 DEF HeaderFrom, EncStream, NewStream
  <2>2. handles' = handles \/ handles' = Append(handles, new)
    BY DEF NewStream
  <2>3. \A s \in Opened' : s = Len(handles) + 1 \/ (s \in Opened /\ handles'[s] = handles[s])
    <3>1. CASE handles' = handles
      BY <3>1 DEF Opened
    <3>2. CASE handles' = Append(handles, new)
      <4>1. /\ Opened' = 1..(Len(handles) + 1) /\ \A u \in 1..Len(handles) : handles'[u] = handles[u]
            /\ Opened = 1..Len(handles)
        BY <1>0, <3>2, OneMoreHandle DEF TypeOK, Sound
      <4> QED BY <1>0, <4>1
    <3> QED BY <2>2, <3>1, <3>2
  <2>4. \A s \in Opened : handles[s].enc => handles[s].nonce # nonce
    <3>1. \A s \in Opened : handles[s].nonce \in Nat
      BY <1>0, HandleTyped DEF Handles
    <3> QED BY <1>0, <3>1 DEF NoncesDiffer
  <2>5. b.nonce \in Nat /\ b.nonce < nonce'
    BY <1>0, <2>1
  <2>6. b.kind = "EncStream"
    BY <1>3, BlockKinds DEF HeaderFrom
  <2> QED BY <1>1, <2>1, <2>3, <2>4, <2>5, <2>6 DEF BlockFits
<1> QED BY <1>2, <1>3

\* What a call puts on the wire fits what the handles know.
LEMMA FreshFit ==
  ASSUME HandlesInv, [Next]_wvars
  PROVE  \E t \in Seq(Blocks) : wire' = wire \o t /\ \A i \in 1..Len(t) : BlockFits(t[i])'
<1>0. TypeOK /\ wire \in Seq(Blocks)
  BY DEF HandlesInv, TypeOK
<1>1. ASSUME wire' = wire
      PROVE  \E t \in Seq(Blocks) : wire' = wire \o t /\ \A i \in 1..Len(t) : BlockFits(t[i])'
  <2>1. << >> \in Seq(Blocks) /\ wire = wire \o << >> /\ \A i \in 1..Len(<< >>) : FALSE
    BY <1>0
  <2> QED BY <1>1, <2>1
<1>2. ASSUME NEW bs \in Seq(Blocks), Sends(bs), \A i \in 1..Len(bs) : BlockFits(bs[i])'
      PROVE  \E t \in Seq(Blocks) : wire' = wire \o t /\ \A i \in 1..Len(t) : BlockFits(t[i])'
  <2>1. PICK t \in Seq(Blocks) : wire' = wire \o t /\ Extends(bs, t)
    BY <1>0, <1>2, SendsErr
  <2>2. CASE werr'
    <3>1. \A b : b.kind = "Partial" => BlockFits(b)'
      BY <2>2 DEF BlockFits
    <3>2. \A i \in 1..Len(t) : BlockFits(t[i])'
      BY <1>2, <2>1, <3>1 DEF Extends
    <3> QED BY <2>1, <3>2
  <2>3. CASE ~werr'
    BY <1>0, <1>2, <2>3, SendsErr
  <2> QED BY <2>2, <2>3
<1>3. ASSUME NEW b \in Blocks, Sends(<< b >>), BlockFits(b)'
      PROVE  \E t \in Seq(Blocks) : wire' = wire \o t /\ \A i \in 1..Len(t) : BlockFits(t[i])'
  <2>1. << b >> \in Seq(Blocks) /\ \A i \in 1..Len(<< b >>) : << b >>[i] = b
    OBVIOUS
  <2>2. \A i \in 1..Len(<< b >>) : BlockFits(<< b >>[i])'
    BY <1>3, <2>1
  <2> QED BY <1>2, <1>3, <2>1, <2>2
<1>4. ASSUME NEW b \in Blocks, Aside(b) PROVE Sends(<< b >>) /\ BlockFits(b)'
  BY <1>4 DEF Aside, BlockFits, KeyKinds
<1>5. ASSUME NEW new, Sound(new), NewStream(new)
      PROVE  \E b \in Blocks : Sends(<< b >>) /\ BlockFits(b)'
  <2>1. PICK b : b = HeaderFrom(new)
    OBVIOUS
  <2>2. Sends(<< b >>)
    BY <1>5, <2>1 DEF NewStream
  <2> QED BY <1>5, <2>1, <2>2, HeaderFits
<1>6. ASSUME NEW s \in Opened, NEW new, NEW bs \in Seq(Blocks), Sound(new), StreamCall(s, new, bs)
      PROVE  wire' = wire \/ (Sends(bs) /\ \A i \in 1..Len(bs) : BlockFits(bs[i])')
  BY <1>6, StreamBlocksFit DEF StreamCall
<1>7. CASE \E b \in Blocks : Aside(b)
  BY <1>3, <1>4, <1>7
<1>8. CASE \E new : Sound(new) /\ NewStream(new)
  BY <1>3, <1>5, <1>8
<1>9. CASE \E s \in Opened : \E new, bs : Sound(new) /\ bs \in Seq(Blocks) /\ StreamCall(s, new, bs)
  BY <1>1, <1>2, <1>6, <1>9
<1> QED BY <1>1, <1>7, <1>8, <1>9, Steps

----------------------------------------------------------------------------
(* Counting the data blocks behind a header.                                *)

\* What was counted stays; the next block is counted if it is a data block.
LEMMA DataCounts ==
  ASSUME wire \in Seq(Blocks), NEW t \in Seq(Blocks), wire' = wire \o t, NEW h \in 1..Len(wire)
  PROVE  /\ \A j \in 0..Len(wire) : NumData(h, j)' = NumData(h, j)
         /\ NumData(h, Len(wire)) \in Nat
         /\ \A n : n = Len(wire) + 1 /\ Len(t) >= 1 =>
              NumData(h, n)' = NumData(h, Len(wire)) + (IF t[1].kind = "Datablock" THEN 1 ELSE 0)
         /\ \A n, m : n = Len(wire) + 1 /\ m = Len(wire) + 2 /\ Len(t) >= 2 /\ t[2].kind # "Datablock" =>
              NumData(h, m)' = NumData(h, n)'
<1>0. Len(wire) \in Nat /\ Len(t) \in Nat /\ Len(wire') = Len(wire) + Len(t)
  BY WireGrows
<1>1. /\ \A i \in 1..Len(wire) : wire'[i] = wire[i]
      /\ \A i \in 1..Len(t) : wire'[Len(wire) + i] = t[i]
  BY WireGrows
<1>2. ASSUME NEW j \in 0..Len(wire) PROVE DataAt(h, j)' = DataAt(h, j)
  <2>1. \A m \in (h + 1)..j : m \in 1..Len(wire)
    BY <1>0
  <2> QED BY <1>1, <2>1 DEF DataAt, KindAt
<1>3. IsFiniteSet(DataAt(h, Len(wire))) /\ NumData(h, Len(wire)) \in Nat
  <2>1. IsFiniteSet((h + 1)..Len(wire)) /\ DataAt(h, Len(wire)) \subseteq (h + 1)..Len(wire)
    BY <1>0, FS_Interval DEF DataAt
  <2>2. IsFiniteSet(DataAt(h, Len(wire)))
    BY <2>1, FS_Subset
  <2> QED BY <2>2, FS_CardinalityType DEF NumData
<1>4. ASSUME NEW n, n = Len(wire) + 1, Len(t) >= 1
      PROVE  NumData(h, n)' = NumData(h, Len(wire)) + (IF t[1].kind = "Datablock" THEN 1 ELSE 0)
  <2>1. wire'[n] = t[1] /\ n \notin DataAt(h, Len(wire))
    BY <1>0, <1>1, <1>4 DEF DataAt
  <2>2. \A m \in (h + 1)..n : m = n \/ m \in (h + 1)..Len(wire)
    BY <1>0, <1>4
  <2>3. \A m \in (h + 1)..Len(wire) : m \in 1..Len(wire) /\ m \in (h + 1)..n
    BY <1>0, <1>4
  <2>4. CASE t[1].kind = "Datablock"
    <3>1. DataAt(h, n)' = DataAt(h, Len(wire)) \cup {n}
      <4>1. n \in (h + 1)..n /\ wire'[n].kind = "Datablock"
        BY <1>0, <1>4, <2>1, <2>4
      <4>2. ASSUME NEW m \in (h + 1)..Len(wire)
            PROVE  wire'[m].kind = wire[m].kind /\ m \in (h + 1)..n
        BY <1>1, <2>3
      <4>3. ASSUME NEW m
            PROVE  m \in DataAt(h, n)' <=> m \in DataAt(h, Len(wire)) \cup {n}
        BY <2>2, <4>1, <4>2 DEF DataAt, KindAt
      <4> QED BY <4>3
    <3>2. Cardinality(DataAt(h, Len(wire)) \cup {n}) = Cardinality(DataAt(h, Len(wire))) + 1
      BY <1>3, <2>1, FS_AddElement
    <3> QED BY <2>4, <3>1, <3>2 DEF NumData
  <2>5. CASE t[1].kind # "Datablock"
    <3>1. DataAt(h, n)' = DataAt(h, Len(wire))
      BY <1>1, <2>1, <2>2, <2>3, <2>5 DEF DataAt, KindAt
    <3>2. NumData(h, n)' = NumData(h, Len(wire))
      BY <3>1 DEF NumData
    <3> QED BY <1>3, <2>5, <3>2
  <2> QED BY <2>4, <2>5
<1>5. ASSUME NEW n, NEW m, n = Len(wire) + 1, m = Len(wire) + 2, Len(t) >= 2, t[2].kind # "Datablock"
      PROVE  NumData(h, m)' = NumData(h, n)'
  <2>1. wire'[m] = t[2]
    BY <1>0, <1>1, <1>5
  <2>2. \A i : i \in (h + 1)..m <=> i = m \/ i \in (h + 1)..n
    BY <1>0, <1>5
  <2>3. m \notin (h + 1)..n
    BY <1>0, <1>5
  <2>4. DataAt(h, m)' = DataAt(h, n)'
    BY <1>5, <2>1, <2>2 DEF DataAt, KindAt
  <2> QED BY <2>4 DEF NumData
<1>6. \A j \in 0..Len(wire) : NumData(h, j)' = NumData(h, j)
  BY <1>2 DEF NumData
<1> QED BY <1>3, <1>4, <1>5, <1>6

\* Whether a block is inside a stream depends on the blocks before it.
LEMMA InsideStays ==
  ASSUME wire \in Seq(Blocks), NEW t \in Seq(Blocks), wire' = wire \o t, NEW h \in 1..Len(wire)
  PROVE  /\ \A j \in 1..(Len(wire) + 1) : Inside(h, j)' <=> Inside(h, j)
         /\ \A j \in (Len(wire) + 1)..(Len(wire) + Len(t)) : Inside(h, j)' => Inside(h, Len(wire) + 1)
<1>0. Len(wire) \in Nat /\ Len(t) \in Nat /\ \A i \in 1..Len(wire) : wire'[i] = wire[i]
  BY WireGrows
<1>1. ASSUME NEW j \in 1..(Len(wire) + 1) PROVE Inside(h, j)' <=> Inside(h, j)
  <2>1. \A m \in (h + 1)..(j - 1) : m \in 1..Len(wire)
    BY <1>0
  <2> QED BY <1>0, <2>1 DEF Inside, KindAt
<1>2. ASSUME NEW j \in (Len(wire) + 1)..(Len(wire) + Len(t)), Inside(h, j)' PROVE Inside(h, Len(wire) + 1)
  <2>1. \A m \in (h + 1)..((Len(wire) + 1) - 1) : m \in (h + 1)..(j - 1) /\ m \in 1..Len(wire)
    BY <1>0
  <2> QED BY <1>0, <1>2, <2>1 DEF Inside, KindAt
<1> QED BY <1>1, <1>2

----------------------------------------------------------------------------
(* What a disciplined caller's calls leave of the streams on the wire.      *)

\* As long as there is no error, the last header that is not ended is that of
\* the open stream.
LEMMA OnlyOpen ==
  ASSUME TypeOK, StreamsInv, ~werr
  PROVE  /\ \A h \in DOMAIN wire : KindAt(h) \in StreamKinds /\ Inside(h, Len(wire) + 1) =>
              wire[h].sid \in Opened /\ IsOpen(wire[h].sid)
         /\ \A s \in Opened : IsOpen(s) =>
              \E h \in DOMAIN wire : /\ wire[h] = Header(s) /\ KindAt(h) \in StreamKinds /\ wire[h].sid = s
                                     /\ Inside(h, Len(wire) + 1)
                                     /\ NumData(h, Len(wire)) = Len(handles[s].sum)
         /\ \A g, h \in DOMAIN wire :
              KindAt(g) \in StreamKinds /\ Inside(g, Len(wire) + 1) /\ KindAt(h) \in StreamKinds /\ Inside(h, Len(wire) + 1)
                => g = h
<1>0. Len(wire) \in Nat /\ DOMAIN wire = 1..Len(wire)
  BY DEF TypeOK
<1>1. ASSUME NEW h \in DOMAIN wire, KindAt(h) \in StreamKinds, Inside(h, Len(wire) + 1)
      PROVE  wire[h].sid \in Opened /\ IsOpen(wire[h].sid)
  <2>1. wire[h].sid \in Opened
    BY <1>1 DEF StreamsInv, HeadersNamed
  <2>2. handles[wire[h].sid].ack # "ok"
    <3>1. SUFFICES ASSUME handles[wire[h].sid].ack = "ok" PROVE FALSE
      OBVIOUS
    <3>2. PICK j \in (h + 1)..Len(wire) : wire[j] = EOS(handles[wire[h].sid].sum)
      BY <1>1, <2>1, <3>1 DEF StreamsInv, DataSent
    <3>3. KindAt(j) \in Marks
      BY <3>2, BlockKinds DEF KindAt, Marks
    <3>4. j \in (h + 1)..((Len(wire) + 1) - 1)
      BY <1>0
    <3> QED BY <1>1, <3>3, <3>4 DEF Inside
  <2>3. handles[wire[h].sid].ack # "err"
    BY <2>1 DEF StreamsInv, FailedKept
  <2> QED BY <2>1, <2>2, <2>3, HandleTyped DEF IsOpen
<1>2. ASSUME NEW s \in Opened, IsOpen(s)
      PROVE  \E h \in DOMAIN wire : /\ wire[h] = Header(s) /\ KindAt(h) \in StreamKinds /\ wire[h].sid = s
                                    /\ Inside(h, Len(wire) + 1)
                                    /\ NumData(h, Len(wire)) = Len(handles[s].sum)
  <2>1. PICK h \in DOMAIN wire : wire[h] = Header(s)
    BY DEF StreamsInv, HeadersSent
  <2>2. KindAt(h) \in StreamKinds /\ wire[h].sid = s
    BY <2>1 DEF KindAt, Header, EncStream, PlainStream, StreamKinds
  <2> QED BY <1>2, <2>1, <2>2 DEF StreamsInv, DataSent, IsOpen
<1>6. \A g, h \in DOMAIN wire :
        KindAt(g) \in StreamKinds /\ Inside(g, Len(wire) + 1) /\ KindAt(h) \in StreamKinds /\ Inside(h, Len(wire) + 1)
          => g = h
  <2> SUFFICES ASSUME NEW g \in DOMAIN wire, NEW h \in DOMAIN wire,
                      KindAt(g) \in StreamKinds, Inside(g, Len(wire) + 1),
                      KindAt(h) \in StreamKinds, Inside(h, Len(wire) + 1)
               PROVE  g = h
    OBVIOUS
  <2>1. g < h => h \in (g + 1)..((Len(wire) + 1) - 1)
    BY <1>0
  <2>2. h < g => g \in (h + 1)..((Len(wire) + 1) - 1)
    BY <1>0
  <2>3. ~(g < h) /\ ~(h < g)
    BY <2>1, <2>2 DEF Inside, Marks
  <2> QED BY <1>0, <2>3
<1>4. \A h \in DOMAIN wire : KindAt(h) \in StreamKinds /\ Inside(h, Len(wire) + 1) =>
        wire[h].sid \in Opened /\ IsOpen(wire[h].sid)
  BY <1>1
<1>5. \A s \in Opened : IsOpen(s) =>
        \E h \in DOMAIN wire : /\ wire[h] = Header(s) /\ KindAt(h) \in StreamKinds /\ wire[h].sid = s
                               /\ Inside(h, Len(wire) + 1)
                               /\ NumData(h, Len(wire)) = Len(handles[s].sum)
  BY <1>2
<1> QED BY <1>4, <1>5, <1>6, Zenon

\* Old headers keep their names and old blocks their places.
LEMMA OldStays ==
  ASSUME TypeOK, StreamsInv, Disciplined, HandlesGrow, NEW t \in Seq(Blocks), wire' = wire \o t
  PROVE  /\ \A h \in DOMAIN wire : \A s : KindAt(h) \in StreamKinds /\ s = wire[h].sid =>
              IF s \in Opened' THEN wire[h] = Header(s)' ELSE werr'
         /\ \A h, j \in DOMAIN wire : Within(h, j) => Placed(h, j)' /\ (DataCarried => Carried(h, j)')
         /\ \A s \in Opened : \E h \in DOMAIN wire : wire'[h] = wire[h] /\ wire[h] = Header(s)'
<1>0. /\ wire \in Seq(Blocks) /\ Len(wire) \in Nat /\ DOMAIN wire = 1..Len(wire)
      /\ \A i \in DOMAIN wire : wire'[i] = wire[i]
  BY WireGrows DEF TypeOK
<1>1. ASSUME NEW s \in Opened
      PROVE  /\ s \in Opened' /\ Header(s) = Header(s)' /\ Prolongs(handles'[s].sum, handles[s].sum)
             /\ ~IsOpen(s) => IsOpen(s)' = FALSE /\ handles'[s].sum = handles[s].sum
  <2>1. s \in Opened' /\ GoesOn(handles[s], handles'[s])
    BY DEF HandlesGrow
  <2> QED BY <2>1 DEF GoesOn, Same, Header, IsOpen
<1>2. ASSUME NEW h \in DOMAIN wire, KindAt(h) \in StreamKinds, NEW s, s = wire[h].sid
      PROVE  IF s \in Opened' THEN wire[h] = Header(s)' ELSE werr'
  <2>1. CASE s \in Opened
    <3>1. wire[h] = Header(s)
      BY <1>2, <2>1 DEF StreamsInv, HeadersNamed
    <3> QED BY <1>1, <2>1, <3>1
  <2>2. CASE s \notin Opened
    BY <1>2, <2>2 DEF StreamsInv, HeadersNamed, HandlesGrow
  <2> QED BY <2>1, <2>2
<1>3. ASSUME NEW h \in DOMAIN wire, NEW j \in DOMAIN wire, Within(h, j)
      PROVE  Placed(h, j)' /\ (DataCarried => Carried(h, j)')
  <2>1. Placed(h, j) /\ (DataCarried => Carried(h, j))
    BY <1>3 DEF StreamsInv, DataPlaced, DataCarried
  <2>2. NumData(h, j)' = NumData(h, j)
    <3>1. h \in 1..Len(wire) /\ j \in 0..Len(wire)
      BY <1>0
    <3>2. \A i \in 0..Len(wire) : NumData(h, i)' = NumData(h, i)
      BY <1>0, <3>1, DataCounts
    <3> QED BY <3>1, <3>2
  <2>5. wire'[h] = wire[h] /\ wire'[j] = wire[j]
    BY <1>0
  <2>3. KindAt(j) = "Datablock" =>
          /\ wire[h].sid \in Opened' /\ NumData(h, j) \in 1..Len(handles'[wire[h].sid].sum)
          /\ DataCarried => wire[j].payload = handles'[wire[h].sid].sum[NumData(h, j)]
    <3>1. SUFFICES ASSUME KindAt(j) = "Datablock", NEW s, s = wire[h].sid, NEW n, n = NumData(h, j)
                   PROVE  /\ s \in Opened' /\ n \in 1..Len(handles'[s].sum)
                          /\ DataCarried => wire[j].payload = handles'[s].sum[n]
      OBVIOUS
    <3>2. /\ s \in Opened /\ n \in 1..Len(handles[s].sum)
          /\ DataCarried => wire[j].payload = handles[s].sum[n]
      BY <2>1, <3>1 DEF Placed, Carried
    <3>3. s \in Opened' /\ Prolongs(handles'[s].sum, handles[s].sum)
      BY <1>1, <3>2
    <3> QED BY <3>2, <3>3 DEF Prolongs
  <2>4. KindAt(j) = "EOS" =>
          /\ wire[h].sid \in Opened' /\ handles'[wire[h].sid].ack # "open"
          /\ wire[j].sum = handles'[wire[h].sid].sum
          /\ NumData(h, j) = Len(handles'[wire[h].sid].sum)
    BY <1>1, <2>1 DEF Placed, IsOpen
  <2> QED BY <2>1, <2>2, <2>3, <2>4, <2>5 DEF Placed, Carried, KindAt, IsOpen
<1>4. ASSUME NEW s \in Opened PROVE \E h \in DOMAIN wire : wire'[h] = wire[h] /\ wire[h] = Header(s)'
  BY <1>0, <1>1 DEF StreamsInv, HeadersSent
<1> QED BY <1>2, <1>3, <1>4

\* New blocks that are named, placed and carried keep the old and the new so.
LEMMA NewPlaced ==
  ASSUME TypeOK, StreamsInv, Disciplined, HandlesGrow, NEW t \in Seq(Blocks), wire' = wire \o t,
         NEW n, n = Len(wire),
         \A k \in 1..Len(t) : t[k].kind \in StreamKinds =>
           k = Len(t) /\ (IF t[k].sid \in Opened' THEN t[k] = Header(t[k].sid)' ELSE werr'),
         \A h \in DOMAIN wire, k \in 1..Len(t) :
           Within(h, n + k)' /\ Inside(h, n + 1) /\ KindAt(h) \in StreamKinds =>
             Placed(h, n + k)' /\ Carried(h, n + k)',
         \A s \in Opened' : s \in Opened \/ \E k \in 1..Len(t) : t[k] = Header(s)'
  PROVE  HeadersNamed' /\ DataPlaced' /\ (DataCarried => DataCarried') /\ HeadersSent'
<1>0. /\ wire \in Seq(Blocks) /\ Len(wire) \in Nat /\ DOMAIN wire = 1..Len(wire) /\ Len(t) \in Nat
      /\ \A i \in DOMAIN wire : wire'[i] = wire[i]
      /\ \A k \in 1..Len(t) : wire'[Len(wire) + k] = t[k]
      /\ Len(wire') = Len(wire) + Len(t) /\ DOMAIN wire' = 1..(Len(wire) + Len(t))
  BY WireGrows DEF TypeOK
<1>1. \A i \in DOMAIN wire' : i \in DOMAIN wire \/ \E k \in 1..Len(t) : i = Len(wire) + k
  <2> TAKE i \in DOMAIN wire'
  <2>1. CASE i > Len(wire)
    <3>1. i - Len(wire) \in 1..Len(t) /\ i = Len(wire) + (i - Len(wire))
      BY <1>0, <2>1
    <3> QED BY <3>1
  <2> QED BY <1>0, <2>1
<1>2. ASSUME NEW h \in DOMAIN wire', KindAt(h)' \in StreamKinds, NEW s, s = wire'[h].sid
      PROVE  IF s \in Opened' THEN wire'[h] = Header(s)' ELSE werr'
  <2>1. CASE h \in DOMAIN wire
    <3>1. KindAt(h) \in StreamKinds /\ wire'[h] = wire[h]
      BY <1>0, <1>2, <2>1 DEF KindAt
    <3>2. IF s \in Opened' THEN wire[h] = Header(s)' ELSE werr'
      BY <1>2, <2>1, <3>1, OldStays
    <3> QED BY <3>1, <3>2
  <2>2. ASSUME NEW k \in 1..Len(t), h = Len(wire) + k
        PROVE  IF s \in Opened' THEN wire'[h] = Header(s)' ELSE werr'
    <3>1. wire'[h] = t[k] /\ t[k].kind \in StreamKinds
      BY <1>0, <1>2, <2>2 DEF KindAt
    <3>2. IF s \in Opened' THEN t[k] = Header(s)' ELSE werr'
      BY <1>2, <3>1
    <3> QED BY <3>1, <3>2
  <2> QED BY <1>1, <2>1, <2>2
<1>3. ASSUME NEW h \in DOMAIN wire', NEW j \in DOMAIN wire', Within(h, j)'
      PROVE  Placed(h, j)' /\ (DataCarried => Carried(h, j)')
  <2>1. h < j /\ KindAt(h)' \in StreamKinds /\ Inside(h, j)'
    BY <1>3 DEF Within
  <2>2. h \in DOMAIN wire /\ KindAt(h) \in StreamKinds
    <3>1. SUFFICES h \in DOMAIN wire
      BY <1>0, <2>1 DEF KindAt
    <3>2. ASSUME NEW k \in 1..Len(t), h = Len(wire) + k PROVE FALSE
      <4>1. t[k].kind \in StreamKinds
        BY <1>0, <2>1, <3>2 DEF KindAt
      <4>2. k = Len(t)
        BY <4>1
      <4> QED BY <1>0, <2>1, <3>2, <4>2
    <3> QED BY <1>1, <3>2
  <2>3. CASE j \in DOMAIN wire
    <3>1. Inside(h, j)
      <4>1. j \in 1..(Len(wire) + 1) /\ h \in 1..Len(wire)
        BY <1>0, <2>2, <2>3
      <4>2. \A i \in 1..(Len(wire) + 1) : Inside(h, i)' <=> Inside(h, i)
        BY <1>0, <4>1, InsideStays
      <4> QED BY <2>1, <4>1, <4>2
    <3>2. Within(h, j)
      BY <2>1, <2>2, <3>1 DEF Within
    <3> QED BY <2>2, <2>3, <3>2, OldStays
  <2>4. ASSUME NEW k \in 1..Len(t), j = Len(wire) + k PROVE Placed(h, j)' /\ Carried(h, j)'
    <3>1. Inside(h, Len(wire) + 1)
      <4>1. j \in (Len(wire) + 1)..(Len(wire) + Len(t)) /\ h \in 1..Len(wire)
        BY <1>0, <2>2, <2>4
      <4>2. \A i \in (Len(wire) + 1)..(Len(wire) + Len(t)) : Inside(h, i)' => Inside(h, Len(wire) + 1)
        BY <1>0, <4>1, InsideStays
      <4> QED BY <2>1, <4>1, <4>2
    <3>2. j = n + k
      BY <2>4
    <3> QED BY <1>3, <2>2, <3>1, <3>2
  <2> QED BY <1>1, <2>3, <2>4
<1>4. ASSUME NEW s \in Opened' PROVE \E h \in DOMAIN wire' : wire'[h] = Header(s)'
  <2>1. CASE s \in Opened
    <3>1. PICK h \in DOMAIN wire : wire'[h] = wire[h] /\ wire[h] = Header(s)'
      BY <2>1, OldStays
    <3> QED BY <1>0, <3>1
  <2>2. ASSUME NEW k \in 1..Len(t), t[k] = Header(s)' PROVE \E h \in DOMAIN wire' : wire'[h] = Header(s)'
    <3>1. Len(wire) + k \in DOMAIN wire' /\ wire'[Len(wire) + k] = t[k]
      BY <1>0
    <3> QED BY <2>2, <3>1
  <2> QED BY <2>1, <2>2
<1>5. HeadersNamed'
  BY <1>2 DEF HeadersNamed
<1>6. DataPlaced' /\ (DataCarried => DataCarried')
  BY <1>3 DEF DataPlaced, DataCarried
<1>7. HeadersSent'
  BY <1>4 DEF HeadersSent
<1> QED BY <1>5, <1>6, <1>7

\* A stream that was closed stays closed and sent.
LEMMA EndedStays ==
  ASSUME TypeOK, StreamsInv, Disciplined, HandlesGrow, NEW t \in Seq(Blocks), wire' = wire \o t,
         NEW h \in DOMAIN wire, KindAt(h) \in StreamKinds, NEW s \in Opened, s = wire[h].sid,
         handles[s].ack = "ok"
  PROVE  \E j \in (h + 1)..Len(wire') :
           wire'[j] = EOS(handles'[s].sum) /\ Inside(h, j)' /\ NumData(h, j)' = Len(handles'[s].sum)
<1>0. /\ wire \in Seq(Blocks) /\ Len(wire) \in Nat /\ h \in 1..Len(wire) /\ Len(t) \in Nat
      /\ \A i \in 1..Len(wire) : wire'[i] = wire[i]
      /\ Len(wire') = Len(wire) + Len(t)
  BY WireGrows DEF TypeOK
<1>1. PICK j \in (h + 1)..Len(wire) :
        wire[j] = EOS(handles[s].sum) /\ Inside(h, j) /\ NumData(h, j) = Len(handles[s].sum)
  BY DEF StreamsInv, DataSent
<1>2. handles'[s].sum = handles[s].sum
  BY DEF HandlesGrow, GoesOn
<1>3. j \in (h + 1)..Len(wire') /\ j \in 1..(Len(wire) + 1) /\ j \in 0..Len(wire) /\ wire'[j] = wire[j]
  BY <1>0
<1>4. \A i \in 1..(Len(wire) + 1) : Inside(h, i)' <=> Inside(h, i)
  BY <1>0, InsideStays
<1>5. \A i \in 0..Len(wire) : NumData(h, i)' = NumData(h, i)
  BY <1>0, DataCounts
<1> QED BY <1>1, <1>2, <1>3, <1>4, <1>5

\* A stream goes on over blocks that neither begin nor end one.
LEMMA InsideGoesOn ==
  ASSUME wire \in Seq(Blocks), NEW t \in Seq(Blocks), wire' = wire \o t, NEW h \in 1..Len(wire),
         Inside(h, Len(wire) + 1), NEW j \in (Len(wire) + 1)..(Len(wire) + Len(t) + 1),
         \A k \in 1..Len(t) : Len(wire) + k < j => t[k].kind \notin Marks
  PROVE  Inside(h, j)'
<1>0. /\ Len(wire) \in Nat /\ Len(t) \in Nat /\ \A i \in 1..Len(wire) : wire'[i] = wire[i]
      /\ \A k \in 1..Len(t) : wire'[Len(wire) + k] = t[k]
  BY WireGrows
<1>1. ASSUME NEW m \in (h + 1)..(j - 1) PROVE wire'[m].kind \notin Marks
  <2>1. CASE m <= Len(wire)
    <3>1. m \in (h + 1)..((Len(wire) + 1) - 1) /\ m \in 1..Len(wire)
      BY <1>0, <2>1
    <3> QED BY <1>0, <3>1 DEF Inside, KindAt
  <2>2. CASE m > Len(wire)
    <3>1. PICK k : k = m - Len(wire)
      OBVIOUS
    <3>2. k \in 1..Len(t) /\ m = Len(wire) + k /\ Len(wire) + k < j
      BY <1>0, <2>2, <3>1
    <3> QED BY <1>0, <3>2
  <2> QED BY <1>0, <2>1, <2>2
<1> QED BY <1>1 DEF Inside, KindAt

\* A call that touches neither the output nor the handles.
LEMMA QuietKeepsStreams ==
  ASSUME HandlesInv, StreamsInv, UNCHANGED <<wire, handles>>, werr => werr',
         closes' = closes \/ \A s \in Opened : ~IsOpen(s)
  PROVE  StreamsInv' /\ (DataCarried => DataCarried')
<1>1. Opened' = Opened /\ \A s : Header(s)' = Header(s) /\ IsOpen(s)' = IsOpen(s)
  BY DEF Opened, Header, IsOpen
<1>2. \A h, j : Inside(h, j)' = Inside(h, j) /\ NumData(h, j)' = NumData(h, j)
  BY DEF Inside, NumData, DataAt, KindAt
<1>3. OneAtATime' /\ FailedKept' /\ HeadersSent'
  BY <1>1 DEF StreamsInv, OneAtATime, FailedKept, HeadersSent
<1>4. HeadersNamed'
  BY <1>1 DEF StreamsInv, HeadersNamed, Header, KindAt
<1>5. DataPlaced' /\ (DataCarried => DataCarried')
  <2>1. \A h, j : (Within(h, j)' <=> Within(h, j)) /\ (Carried(h, j)' <=> Carried(h, j))
    BY <1>1, <1>2 DEF Within, Carried, KindAt
  <2>2. \A h, j : Placed(h, j)' <=> Placed(h, j)
    BY <1>1, <1>2 DEF Placed, KindAt, IsOpen
  <2> QED BY <2>1, <2>2 DEF StreamsInv, DataPlaced, DataCarried
<1>6. DataSent'
  BY <1>1 DEF StreamsInv, DataSent, Inside, NumData, DataAt, KindAt
<1> QED BY <1>3, <1>4, <1>5, <1>6 DEF StreamsInv

\* The closed streams of before keep their ends, and the open one goes on, if the
\* new blocks are no data and end no stream.
LEMMA SentGoesOn ==
  ASSUME TypeOK, StreamsInv, Disciplined, HandlesGrow, NEW t \in Seq(Blocks), wire' = wire \o t,
         NEW h \in DOMAIN wire, KindAt(h) \in StreamKinds, NEW s \in Opened, s = wire[h].sid,
         handles'[s] = handles[s],
         IsOpen(s) /\ ~werr' => \A k \in 1..Len(t) : t[k].kind \notin Marks \cup {"Datablock"} /\ Len(t) <= 1
  PROVE  /\ handles'[s].ack = "open" /\ ~werr' =>
              Inside(h, Len(wire) + 1)' /\ NumData(h, Len(wire))' = Len(handles'[s].sum)
         /\ handles'[s].ack = "ok" =>
              \E j \in (h + 1)..Len(wire') :
                wire'[j] = EOS(handles'[s].sum) /\ Inside(h, j)' /\ NumData(h, j)' = Len(handles'[s].sum)
<1>0. /\ wire \in Seq(Blocks) /\ Len(wire) \in Nat /\ h \in 1..Len(wire) /\ Len(t) \in Nat
      /\ Len(wire') = Len(wire) + Len(t)
  BY WireGrows DEF TypeOK
<1>1. ASSUME handles'[s].ack = "open", ~werr'
      PROVE  Inside(h, Len(wire) + 1)' /\ NumData(h, Len(wire))' = Len(handles'[s].sum)
  <2>1. handles[s].ack = "open" /\ ~werr /\ IsOpen(s)
    BY <1>1 DEF HandlesGrow, IsOpen
  <2>2. Inside(h, Len(wire) + 1) /\ NumData(h, Len(wire)) = Len(handles[s].sum)
    BY <2>1 DEF StreamsInv, DataSent
  <2>3. \A k \in 1..Len(t) : t[k].kind \notin Marks \cup {"Datablock"} /\ Len(t) <= 1
    BY <1>1, <2>1
  <2>4. PICK m : m = Len(wire')
    OBVIOUS
  <2>5. Inside(h, m + 1)'
    <3>1. m + 1 \in (Len(wire) + 1)..(Len(wire) + Len(t) + 1)
      BY <1>0, <2>4
    <3>2. \A k \in 1..Len(t) : t[k].kind \notin Marks
      BY <2>3
    <3> QED BY <1>0, <2>2, <3>1, <3>2, InsideGoesOn
  <2>6. NumData(h, m)' = NumData(h, Len(wire))
    <3>1. CASE Len(t) = 0
      <4>1. m = Len(wire) /\ Len(wire) \in 0..Len(wire)
        BY <1>0, <2>4, <3>1
      <4>2. \A i \in 0..Len(wire) : NumData(h, i)' = NumData(h, i)
        BY <1>0, DataCounts
      <4>3. NumData(h, m)' = NumData(h, m)
        BY <4>1, <4>2
      <4> QED BY <4>1, <4>3
    <3>2. CASE Len(t) # 0
      <4>1. 1 \in 1..Len(t)
        BY <1>0, <3>2
      <4>2. t[1].kind \notin Marks \cup {"Datablock"} /\ Len(t) <= 1
        BY <2>3, <4>1
      <4>3. Len(t) >= 1 /\ m = Len(wire) + 1 /\ t[1].kind # "Datablock"
        BY <1>0, <2>4, <3>2, <4>2
      <4>4. /\ NumData(h, Len(wire)) \in Nat
            /\ \A n : n = Len(wire) + 1 /\ Len(t) >= 1 =>
                 NumData(h, n)' = NumData(h, Len(wire)) + (IF t[1].kind = "Datablock" THEN 1 ELSE 0)
        BY <1>0, DataCounts
      <4>5. NumData(h, m)' = NumData(h, Len(wire)) + 0
        BY <4>3, <4>4
      <4> QED BY <4>4, <4>5
    <3> QED BY <3>1, <3>2
  <2> QED BY <2>2, <2>4, <2>5, <2>6
<1>2. ASSUME handles'[s].ack = "ok"
      PROVE  \E j \in (h + 1)..Len(wire') :
               wire'[j] = EOS(handles'[s].sum) /\ Inside(h, j)' /\ NumData(h, j)' = Len(handles'[s].sum)
  BY <1>2, EndedStays
<1> QED BY <1>1, <1>2

\* A call about no stream: a key or the EOF block while none is open, an error
\* message at any time.
LEMMA AsideKeepsStreams ==
  ASSUME HandlesInv, StreamsInv, Disciplined, HandlesGrow, NEW b \in Blocks, Aside(b)
  PROVE  StreamsInv' /\ (DataCarried => DataCarried')
<1>0. TypeOK /\ wire \in Seq(Blocks) /\ Len(wire) \in Nat /\ DOMAIN wire = 1..Len(wire) /\ werr \in BOOLEAN
  BY DEF HandlesInv, TypeOK
<1>1. handles' = handles /\ Opened' = Opened /\ << b >> \in Seq(Blocks) /\ Sends(<< b >>)
  BY DEF Aside, Opened
<1>2. PICK t \in Seq(Blocks) : wire' = wire \o t /\ Extends(<< b >>, t)
  BY <1>0, <1>1, SendsErr
<1>3. Len(t) <= 1 /\ Len(t) \in Nat /\ \A k \in 1..Len(t) : k = 1 /\ (t[k].kind = "Partial" \/ t[k] = b)
  <2>1. Len(<< b >>) = 1 /\ << b >>[1] = b
    OBVIOUS
  <2> QED BY <1>2, <2>1 DEF Extends
<1>4. (werr => werr' /\ wire' = wire) /\ (~werr' => ~werr)
  BY <1>0, <1>1, SendsErr
<1>5. b.kind \in KeyKinds \/ b.kind = "EOF" => \A s \in Opened : ~IsOpen(s)
  BY DEF Aside, MayAdd, KeyKinds
<1>6. b.kind \in KeyKinds \/ b.kind = "EOF" \/ b.kind = "Error"
  BY DEF Aside
<1>7. \A k \in 1..Len(t) : t[k].kind \in KeyKinds \cup {"EOF", "Error", "Partial"}
  BY <1>3, <1>6
<1>8. PICK n : n = Len(wire)
  OBVIOUS
<1>9. CASE werr
  <2>1. closes' = closes \/ \A s \in Opened : ~IsOpen(s)
    BY <1>5 DEF Aside
  <2> QED BY <1>1, <1>4, <1>9, <2>1, QuietKeepsStreams
<1>10. CASE ~werr
  <2>1. ASSUME NEW h \in DOMAIN wire, NEW k \in 1..Len(t),
               Within(h, n + k)', Inside(h, n + 1), KindAt(h) \in StreamKinds
        PROVE  Placed(h, n + k)' /\ Carried(h, n + k)'
    <3>1. wire[h].sid \in Opened /\ IsOpen(wire[h].sid)
      BY <1>0, <1>8, <1>10, <2>1, OnlyOpen
    <3>2. b.kind = "Error"
      BY <1>5, <1>6, <3>1
    <3>3. t[k].kind \in {"Error", "Partial"} /\ wire'[n + k] = t[k]
      BY <1>0, <1>2, <1>3, <1>8, <3>2, WireGrows
    <3> QED BY <3>3 DEF Placed, Carried, KindAt
  <2>2. \A k \in 1..Len(t) : t[k].kind \notin StreamKinds
    BY <1>7 DEF StreamKinds, KeyKinds
  <2>3. HeadersNamed' /\ DataPlaced' /\ (DataCarried => DataCarried') /\ HeadersSent'
    BY <1>0, <1>1, <1>2, <1>8, <2>1, <2>2, NewPlaced
  <2>4. OneAtATime' /\ FailedKept'
    <3>1. closes' = closes \/ \A s \in Opened : ~IsOpen(s)
      BY <1>5 DEF Aside
    <3> QED BY <1>1, <1>4, <1>10, <3>1 DEF StreamsInv, OneAtATime, FailedKept, IsOpen
  <2>5. ASSUME NEW h \in DOMAIN wire', KindAt(h)' \in StreamKinds, NEW s \in Opened', s = wire'[h].sid
        PROVE  /\ handles'[s].ack = "open" /\ ~werr' =>
                    Inside(h, Len(wire) + 1)' /\ NumData(h, Len(wire))' = Len(handles'[s].sum)
               /\ handles'[s].ack = "ok" =>
                    \E j \in (h + 1)..Len(wire') :
                      wire'[j] = EOS(handles'[s].sum) /\ Inside(h, j)' /\ NumData(h, j)' = Len(handles'[s].sum)
    <3>1. h \in DOMAIN wire /\ wire'[h] = wire[h]
      <4>1. /\ \A i \in DOMAIN wire' : i \in DOMAIN wire \/ i - Len(wire) \in 1..Len(t)
            /\ \A i \in 1..Len(wire) : wire'[i] = wire[i]
            /\ \A i \in 1..Len(t) : wire'[Len(wire) + i] = t[i]
        BY <1>0, <1>2, WireGrows
      <4>2. ASSUME h - Len(wire) \in 1..Len(t) PROVE FALSE
        <5>1. Len(wire) + (h - Len(wire)) = h
          <6>1. DOMAIN wire' = 1..Len(wire') /\ Len(wire') \in Nat
            BY <1>0, <1>2, WireGrows
          <6> QED BY <1>0, <6>1
        <5>2. wire'[h] = t[h - Len(wire)]
          BY <4>1, <4>2, <5>1
        <5> QED BY <2>2, <2>5, <4>2, <5>2 DEF KindAt
      <4> QED BY <1>0, <4>1, <4>2
    <3>2. KindAt(h) \in StreamKinds /\ s \in Opened /\ s = wire[h].sid /\ handles'[s] = handles[s]
      BY <1>1, <2>5, <3>1 DEF KindAt
    <3>3. IsOpen(s) => \A k \in 1..Len(t) : t[k].kind \notin Marks \cup {"Datablock"} /\ Len(t) <= 1
      <4>1. IsOpen(s) => b.kind = "Error"
        BY <1>5, <1>6, <3>2
      <4> QED BY <1>3, <4>1 DEF Marks, StreamKinds
    <3> QED BY <1>0, <1>2, <3>1, <3>2, <3>3, SentGoesOn
  <2>6. DataSent'
    BY <2>5 DEF DataSent
  <2> QED BY <2>3, <2>4, <2>6 DEF StreamsInv
<1> QED BY <1>0, <1>9, <1>10

\* A new stream begins while none is open.
LEMMA NewStreamKeepsStreams ==
  ASSUME HandlesInv, StreamsInv, Disciplined, HandlesGrow, NEW new, Sound(new), NewStream(new)
  PROVE  StreamsInv' /\ (DataCarried => DataCarried')
<1>0. TypeOK /\ wire \in Seq(Blocks) /\ Len(wire) \in Nat /\ DOMAIN wire = 1..Len(wire) /\ werr = FALSE
  BY DEF HandlesInv, TypeOK, NewStream
<1>1. (\A s \in Opened : ~IsOpen(s)) /\ closes = << >> /\ closes' = closes
  BY DEF NewStream, MayAdd
<1>2. PICK b : b = HeaderFrom(new)
  OBVIOUS
<1>3. b \in Blocks /\ b.kind \in StreamKinds /\ b.sid = Len(handles) + 1
  <2>1. b \in Blocks
    BY <1>2, HeaderFits
  <2> QED BY <1>2, <2>1 DEF HeaderFrom, EncStream, PlainStream, StreamKinds
<1>4. << b >> \in Seq(Blocks) /\ Sends(<< b >>)
  BY <1>2, <1>3 DEF NewStream
<1>5. PICK t \in Seq(Blocks) : wire' = wire \o t /\ Extends(<< b >>, t)
  BY <1>0, <1>4, SendsErr
<1>6. Len(t) <= 1 /\ Len(t) \in Nat /\ \A k \in 1..Len(t) : k = 1 /\ k = Len(t) /\ (t[k].kind = "Partial" \/ t[k] = b)
  <2>1. Len(<< b >>) = 1 /\ << b >>[1] = b
    OBVIOUS
  <2> QED BY <1>5, <2>1 DEF Extends
<1>7. werr' \in BOOLEAN /\ (~werr' => wire' = wire \o << b >>)
  BY <1>0, <1>4, SendsErr
<1>8. PICK n : n = Len(wire)
  OBVIOUS
<1>9. CASE werr'
  <2>1. handles' = handles /\ Opened' = Opened
    BY <1>9 DEF NewStream, Opened
  <2>2. \A k \in 1..Len(t) : t[k].kind \in StreamKinds => t[k].sid \notin Opened'
    <3>1. Len(handles) + 1 \notin Opened
      BY <1>0 DEF TypeOK, Opened
    <3> QED BY <1>3, <1>6, <2>1, <3>1 DEF StreamKinds
  <2>3. \A h \in DOMAIN wire : ~(Inside(h, n + 1) /\ KindAt(h) \in StreamKinds)
    BY <1>0, <1>1, <1>8, OnlyOpen
  <2>4. HeadersNamed' /\ DataPlaced' /\ (DataCarried => DataCarried') /\ HeadersSent'
    BY <1>0, <1>5, <1>6, <1>8, <1>9, <2>1, <2>2, <2>3, NewPlaced
  <2>5. OneAtATime' /\ FailedKept'
    BY <1>1, <1>9, <2>1 DEF OneAtATime, FailedKept, IsOpen
  <2>6. ASSUME NEW h \in DOMAIN wire', KindAt(h)' \in StreamKinds, NEW s \in Opened', s = wire'[h].sid
        PROVE  /\ handles'[s].ack = "open" /\ ~werr' =>
                    Inside(h, Len(wire) + 1)' /\ NumData(h, Len(wire))' = Len(handles'[s].sum)
               /\ handles'[s].ack = "ok" =>
                    \E j \in (h + 1)..Len(wire') :
                      wire'[j] = EOS(handles'[s].sum) /\ Inside(h, j)' /\ NumData(h, j)' = Len(handles'[s].sum)
    <3>0. /\ \A i \in DOMAIN wire' : i \in DOMAIN wire \/ i - Len(wire) \in 1..Len(t)
          /\ \A i \in 1..Len(wire) : wire'[i] = wire[i]
          /\ \A i \in 1..Len(t) : wire'[Len(wire) + i] = t[i]
          /\ DOMAIN wire' = 1..Len(wire') /\ Len(wire') \in Nat
      BY <1>0, <1>5, WireGrows
    <3>1. h \in DOMAIN wire
      <4>1. SUFFICES ASSUME h - Len(wire) \in 1..Len(t) PROVE FALSE
        BY <3>0
      <4>2. wire'[h] = t[h - Len(wire)]
        <5>1. Len(wire) + (h - Len(wire)) = h
          BY <1>0, <3>0
        <5> QED BY <3>0, <4>1, <5>1
      <4> QED BY <2>2, <2>6, <4>1, <4>2 DEF KindAt
    <3>2. KindAt(h) \in StreamKinds /\ s \in Opened /\ s = wire[h].sid /\ handles'[s] = handles[s]
      BY <1>0, <2>1, <2>6, <3>0, <3>1 DEF KindAt
    <3>3. handles'[s].ack = "ok" =>
            \E j \in (h + 1)..Len(wire') :
              wire'[j] = EOS(handles'[s].sum) /\ Inside(h, j)' /\ NumData(h, j)' = Len(handles'[s].sum)
      BY <1>0, <1>5, <3>1, <3>2, EndedStays
    <3> QED BY <1>9, <3>3
  <2>7. DataSent'
    BY <2>6 DEF DataSent
  <2> QED BY <2>4, <2>5, <2>7 DEF StreamsInv
<1>10. CASE ~werr'
  <2>1. handles' = Append(handles, new) /\ wire' = wire \o << b >>
    BY <1>7, <1>10 DEF NewStream
  <2>2. PICK u : u = Len(handles) + 1
    OBVIOUS
  <2>3. /\ Opened' = Opened \cup {u} /\ u \notin Opened /\ handles'[u] = new
        /\ \A s \in Opened : handles'[s] = handles[s]
    <3>1. /\ Opened' = 1..(Len(handles) + 1) /\ handles'[Len(handles) + 1] = new
          /\ \A s \in 1..Len(handles) : handles'[s] = handles[s]
          /\ Opened = 1..Len(handles) /\ Len(handles) \in Nat
      BY <1>0, <2>1, OneMoreHandle DEF TypeOK, Sound
    <3> QED BY <2>2, <3>1
  <2>4. b = Header(u)' /\ b.sid = u
    BY <1>2, <1>3, <2>2, <2>3 DEF HeaderFrom, Header, NewStream
  <2>5. /\ \A i \in DOMAIN wire : wire'[i] = wire[i]
        /\ wire'[n + 1] = b /\ Len(wire') = n + 1 /\ DOMAIN wire' = 1..(n + 1) /\ n \in Nat
    BY <1>0, <1>4, <1>8, <2>1, WireGrows
  <2>6. \A h \in DOMAIN wire : KindAt(h) \in StreamKinds => wire[h].sid \in Opened
    BY <1>0 DEF StreamsInv, HeadersNamed
  <2>7. \A h \in DOMAIN wire : ~(Inside(h, n + 1) /\ KindAt(h) \in StreamKinds)
    BY <1>0, <1>1, <1>8, OnlyOpen
  <2>8. Len(<< b >>) = 1 /\ << b >>[1] = b /\ \A k \in 1..Len(<< b >>) : k = Len(<< b >>) /\ << b >>[k] = b
    OBVIOUS
  <2>9. HeadersNamed' /\ DataPlaced' /\ (DataCarried => DataCarried') /\ HeadersSent'
    <3>1. PICK x \in Seq(Blocks) : x = << b >>
      BY <1>4
    <3>2. \A k \in 1..Len(x) : k = Len(x) /\ x[k] = b
      BY <2>8, <3>1
    <3>3. \A k \in 1..Len(x) : x[k].kind \in StreamKinds =>
            k = Len(x) /\ (IF x[k].sid \in Opened' THEN x[k] = Header(x[k].sid)' ELSE werr')
      <4> TAKE k \in 1..Len(x)
      <4>1. x[k] = b /\ x[k].sid = u /\ k = Len(x)
        BY <2>4, <3>2
      <4> QED BY <2>3, <2>4, <4>1
    <3>4. \A s \in Opened' : s \in Opened \/ \E k \in 1..Len(x) : x[k] = Header(s)'
      <4>1. 1 \in 1..Len(x) /\ x[1] = Header(u)'
        BY <2>4, <2>8, <3>1
      <4> QED BY <2>3, <4>1
    <3> QED BY <1>0, <1>8, <2>1, <2>7, <3>1, <3>3, <3>4, NewPlaced
  <2>10. OneAtATime' /\ FailedKept'
    <3>1. \A s \in Opened : IsOpen(s)' = FALSE /\ handles'[s].ack # "err"
      BY <1>0, <1>1, <2>3 DEF IsOpen, StreamsInv, FailedKept
    <3>2. handles'[u].ack = "open"
      BY <2>3 DEF NewStream
    <3> QED BY <1>1, <2>3, <3>1, <3>2 DEF OneAtATime, FailedKept
  <2>11. ASSUME NEW h \in DOMAIN wire', KindAt(h)' \in StreamKinds, NEW s \in Opened', s = wire'[h].sid
         PROVE  /\ handles'[s].ack = "open" /\ ~werr' =>
                     Inside(h, Len(wire) + 1)' /\ NumData(h, Len(wire))' = Len(handles'[s].sum)
                /\ handles'[s].ack = "ok" =>
                     \E j \in (h + 1)..Len(wire') :
                       wire'[j] = EOS(handles'[s].sum) /\ Inside(h, j)' /\ NumData(h, j)' = Len(handles'[s].sum)
    <3>1. CASE h \in DOMAIN wire
      <4>1. KindAt(h) \in StreamKinds /\ s = wire[h].sid /\ s \in Opened
        BY <2>5, <2>6, <2>11, <3>1 DEF KindAt
      <4>2. handles'[s] = handles[s] /\ handles'[s].ack # "open"
        BY <1>1, <2>3, <4>1 DEF IsOpen
      <4>3. handles'[s].ack = "ok" =>
              \E j \in (h + 1)..Len(wire') :
                wire'[j] = EOS(handles'[s].sum) /\ Inside(h, j)' /\ NumData(h, j)' = Len(handles'[s].sum)
        BY <1>0, <1>4, <2>1, <3>1, <4>1, <4>2, EndedStays
      <4> QED BY <4>2, <4>3
    <3>2. CASE h \notin DOMAIN wire
      <4>1. h = n + 1 /\ s = u
        <5>1. h = n + 1
          BY <1>0, <1>8, <2>5, <3>2
        <5> QED BY <2>4, <2>5, <2>11, <5>1
      <4>2. handles'[s].ack = "open" /\ Len(handles'[s].sum) = 0
        <5>1. handles'[s] = new /\ new.ack = "open" /\ new.sum = << >>
          BY <2>3, <4>1 DEF NewStream
        <5> QED BY <5>1
      <4>3. (h + 1)..Len(wire') = {} /\ (h + 1)..((Len(wire') + 1) - 1) = {}
        BY <2>5, <4>1
      <4>4. Inside(h, Len(wire) + 1)'
        BY <4>3 DEF Inside
      <4>5. NumData(h, Len(wire))' = 0
        <5>1. DataAt(h, Len(wire))' = {}
          BY <4>3 DEF DataAt
        <5> QED BY <5>1, FS_EmptySet DEF NumData
      <4> QED BY <4>2, <4>4, <4>5
    <3> QED BY <3>1, <3>2
  <2>12. DataSent'
    BY <2>11 DEF DataSent
  <2> QED BY <2>9, <2>10, <2>12 DEF StreamsInv
<1> QED BY <1>7, <1>9, <1>10

\* What a call on a stream sends: a payload that its handle took, and the end with
\* the sum over all of them.
AddsData(hd, new, bs) ==
  /\ bs[1].kind = "Datablock" /\ Len(new.sum) = Len(hd.sum) + 1 /\ new.sum[Len(new.sum)] = bs[1].payload
SendsOf(hd, new, bs) ==
  \/ bs = << >> /\ new.sum = hd.sum /\ new.ack = hd.ack
  \/ Len(bs) = 1 /\ AddsData(hd, new, bs) /\ new.ack = hd.ack
  \/ /\ new.ack = (IF werr' THEN "err" ELSE "ok") /\ bs[Len(bs)] = EOS(new.sum)
     /\ \/ Len(bs) = 1 /\ new.sum = hd.sum
        \/ Len(bs) = 2 /\ AddsData(hd, new, bs)

LEMMA StreamSends ==
  ASSUME NEW s \in Opened, NEW new, NEW bs \in Seq(Blocks), StreamCall(s, new, bs),
         handles[s].sum \in Seq(Payloads)
  PROVE  SendsOf(handles[s], new, bs)
<1>1. /\ \A q : Datablock(q).kind = "Datablock" /\ Datablock(q).payload = q
      /\ \A q : EOS(q).kind = "EOS"
  BY DEF Datablock, EOS
<1>2. ASSUME Writes(handles[s], new, bs), bs = << >>
      PROVE  new.sum = handles[s].sum /\ new.ack = handles[s].ack
  <2>1. \A q : bs # << Datablock(q) >>
    BY <1>2
  <2> QED BY <1>2, <2>1 DEF Writes
<1>3. ASSUME NEW q, bs = << Datablock(q) >>, Longer(new.sum, handles[s].sum, q)
      PROVE  Len(bs) = 1 /\ AddsData(handles[s], new, bs)
  BY <1>1, <1>3 DEF Longer, AddsData
<1>4. CASE Writes(handles[s], new, bs)
  <2>1. CASE bs = << >>
    BY <1>2, <1>4, <2>1 DEF SendsOf
  <2>2. CASE bs # << >>
    BY <1>3, <1>4, <2>2 DEF SendsOf, Writes
  <2> QED BY <2>1, <2>2
<1>5. ASSUME bs = << EOS(new.sum) >> PROVE Len(bs) = 1 /\ bs[Len(bs)] = EOS(new.sum)
  BY <1>5
<1>6. ASSUME NEW q, bs = << Datablock(q), EOS(new.sum) >>, Longer(new.sum, handles[s].sum, q)
      PROVE  Len(bs) = 2 /\ bs[Len(bs)] = EOS(new.sum) /\ AddsData(handles[s], new, bs)
  BY <1>1, <1>6 DEF Longer, AddsData
<1>7. CASE Finishes(handles[s], new, bs)
  BY <1>5, <1>6, <1>7 DEF SendsOf, Finishes
<1> QED BY <1>4, <1>7 DEF StreamCall

\* The blocks that a call on the open stream gets out belong to it.
LEMMA StreamCallPlaces ==
  ASSUME HandlesInv, StreamsInv, ~werr, NEW s \in Opened, IsOpen(s), NEW new, handles'[s] = new,
         HandleFits(new), Same(handles[s], new), Opened' = Opened, NEW bs \in Seq(Blocks), SendsOf(handles[s], new, bs),
         NEW t \in Seq(Blocks), wire' = wire \o t, Extends(bs, t), NEW n, n = Len(wire),
         NEW h \in DOMAIN wire, NEW k \in 1..Len(t), Inside(h, n + 1), KindAt(h) \in StreamKinds
  PROVE  Placed(h, n + k)' /\ Carried(h, n + k)'
<1>0. /\ TypeOK /\ wire \in Seq(Blocks) /\ n \in Nat /\ h \in 1..Len(wire) /\ Len(wire) \in 0..Len(wire)
      /\ handles[s].ack = "open" /\ Len(handles[s].sum) \in Nat
  BY HandleTyped DEF HandlesInv, TypeOK, IsOpen
<1>1. wire[h].sid = s /\ NumData(h, n) = Len(handles[s].sum)
  <2>1. PICK g \in DOMAIN wire : /\ KindAt(g) \in StreamKinds /\ wire[g].sid = s
                                 /\ Inside(g, Len(wire) + 1) /\ NumData(g, Len(wire)) = Len(handles[s].sum)
    BY <1>0, OnlyOpen
  <2>2. g = h
    BY <1>0, <2>1, OnlyOpen
  <2> QED BY <2>1, <2>2
<1>2. wire'[h] = wire[h] /\ wire'[n + k] = t[k] /\ Len(t) \in Nat
  BY <1>0, WireGrows
<1>3. CASE t[k].kind = "Partial"
  BY <1>2, <1>3 DEF Placed, Carried, KindAt
<1>4. CASE t[k].kind # "Partial"
  <2>1. k \in 1..Len(bs) /\ t[k] = bs[k]
    BY <1>4 DEF Extends
  <2>2. CASE k = 1 /\ AddsData(handles[s], new, bs)
    <3>1. t[1].kind = "Datablock" /\ t[1].payload = new.sum[Len(new.sum)] /\ Len(new.sum) = Len(handles[s].sum) + 1
      BY <2>1, <2>2 DEF AddsData
    <3>2. NumData(h, n + k)' = Len(new.sum)
      <4>1. \A m : m = Len(wire) + 1 /\ Len(t) >= 1 =>
              NumData(h, m)' = NumData(h, Len(wire)) + (IF t[1].kind = "Datablock" THEN 1 ELSE 0)
        BY <1>0, DataCounts
      <4>2. Len(t) >= 1 /\ n + k = Len(wire) + 1
        BY <1>2, <2>2
      <4> QED BY <1>1, <3>1, <4>1, <4>2
    <3>3. Len(new.sum) \in 1..Len(new.sum)
      BY <1>0, <3>1
    <3>4. KindAt(h) = "PlainStream" => t[1].payload.key = NoKey
      <4>1. KindAt(h) = "PlainStream" => ~new.enc
        <5>1. wire[h] = Header(s)
          BY <1>1 DEF StreamsInv, HeadersNamed
        <5> QED BY <5>1 DEF Header, EncStream, KindAt, Same
      <4>2. ~new.enc => new.sum[Len(new.sum)] = Clear(<< new.wrote[Len(new.sum)] >>)
        BY <3>3 DEF HandleFits, PayloadOf
      <4> QED BY <3>1, <4>1, <4>2 DEF Clear
    <3> QED BY <1>1, <1>2, <2>2, <3>1, <3>2, <3>3, <3>4 DEF Placed, Carried, KindAt
  <2>3. CASE /\ bs[k] = EOS(new.sum) /\ new.ack # "open"
             /\ \/ k = 1 /\ new.sum = handles[s].sum
                \/ k = 2 /\ AddsData(handles[s], new, bs)
    <3>1. t[k].kind = "EOS" /\ t[k].sum = new.sum
      BY <2>1, <2>3 DEF EOS
    <3>2. /\ \A m : m = Len(wire) + 1 /\ Len(t) >= 1 =>
               NumData(h, m)' = NumData(h, Len(wire)) + (IF t[1].kind = "Datablock" THEN 1 ELSE 0)
          /\ \A i, m : i = Len(wire) + 1 /\ m = Len(wire) + 2 /\ Len(t) >= 2 /\ t[2].kind # "Datablock" =>
               NumData(h, m)' = NumData(h, i)'
      BY <1>0, DataCounts
    <3>3. NumData(h, n + k)' = Len(new.sum)
      <4>1. CASE k = 1 /\ new.sum = handles[s].sum
        <5>1. n + k = Len(wire) + 1 /\ Len(t) >= 1 /\ t[1].kind # "Datablock"
          BY <1>2, <3>1, <4>1
        <5>2. NumData(h, n + k)' = NumData(h, Len(wire)) + 0
          BY <3>2, <5>1
        <5> QED BY <1>0, <1>1, <4>1, <5>2
      <4>2. CASE k = 2 /\ AddsData(handles[s], new, bs)
        <5>1. n + k = Len(wire) + 2 /\ Len(t) >= 2 /\ t[2].kind # "Datablock" /\ n + 1 = Len(wire) + 1
          BY <1>2, <3>1, <4>2
        <5>2. t[1].kind = "Datablock"
          <6>1. 1 \in 1..Len(t) /\ 1 # Len(t)
            BY <1>2, <5>1
          <6>2. t[1] = bs[1]
            BY <6>1 DEF Extends
          <6> QED BY <4>2, <6>2 DEF AddsData
        <5>3. NumData(h, n + 1)' = NumData(h, Len(wire)) + 1
          BY <3>2, <5>1, <5>2
        <5>4. NumData(h, n + k)' = NumData(h, n + 1)'
          BY <3>2, <5>1
        <5> QED BY <1>0, <1>1, <4>2, <5>3, <5>4 DEF AddsData
      <4> QED BY <2>3, <4>1, <4>2
    <3> QED BY <1>1, <1>2, <2>3, <3>1, <3>3 DEF Placed, Carried, KindAt, IsOpen
  <2>4. \/ k = 1 /\ AddsData(handles[s], new, bs)
        \/ /\ bs[k] = EOS(new.sum) /\ new.ack # "open"
           /\ \/ k = 1 /\ new.sum = handles[s].sum
              \/ k = 2 /\ AddsData(handles[s], new, bs)
    <3>1. CASE bs = << >>
      BY <2>1, <3>1
    <3>2. CASE Len(bs) = 1 /\ AddsData(handles[s], new, bs)
      BY <2>1, <3>2
    <3>3. CASE /\ new.ack = (IF werr' THEN "err" ELSE "ok") /\ bs[Len(bs)] = EOS(new.sum)
               /\ \/ Len(bs) = 1 /\ new.sum = handles[s].sum
                  \/ Len(bs) = 2 /\ AddsData(handles[s], new, bs)
      <4>1. new.ack # "open" /\ k \in 1..Len(bs)
        BY <2>1, <3>3
      <4>2. Len(bs) = 1 => k = 1 /\ bs[k] = EOS(new.sum)
        BY <3>3, <4>1
      <4>3. Len(bs) = 2 => k = 1 \/ (k = 2 /\ bs[k] = EOS(new.sum))
        BY <3>3, <4>1
      <4> QED BY <3>3, <4>1, <4>2, <4>3
    <3> QED BY <3>1, <3>2, <3>3 DEF SendsOf
  <2> QED BY <2>2, <2>3, <2>4
<1> QED BY <1>3, <1>4

\* ... and when all went out the stream is sent as far as it goes.
LEMMA StreamCallSends ==
  ASSUME HandlesInv, StreamsInv, ~werr, ~werr', NEW s \in Opened, IsOpen(s), NEW new, handles'[s] = new,
         NEW bs \in Seq(Blocks), SendsOf(handles[s], new, bs), wire' = wire \o bs,
         NEW h \in DOMAIN wire, KindAt(h) \in StreamKinds, wire[h].sid = s
  PROVE  /\ new.ack = "open" => Inside(h, Len(wire) + 1)' /\ NumData(h, Len(wire))' = Len(new.sum)
         /\ new.ack = "ok" => \E j \in (h + 1)..Len(wire') :
              wire'[j] = EOS(new.sum) /\ Inside(h, j)' /\ NumData(h, j)' = Len(new.sum)
<1>0. /\ wire \in Seq(Blocks) /\ Len(wire) \in Nat /\ h \in 1..Len(wire) /\ Len(wire) \in 0..Len(wire)
      /\ handles[s].ack = "open" /\ Len(handles[s].sum) \in Nat /\ Len(bs) \in Nat
  BY HandleTyped DEF HandlesInv, TypeOK, IsOpen
<1>1. Inside(h, Len(wire) + 1) /\ NumData(h, Len(wire)) = Len(handles[s].sum)
  BY <1>0 DEF StreamsInv, DataSent
<1>2. PICK n : n = Len(wire)
  OBVIOUS
<1>3. /\ \A k \in 1..Len(bs) : wire'[n + k] = bs[k]
      /\ Len(wire') = n + Len(bs)
  BY <1>0, <1>2, WireGrows
<1>4. AddsData(handles[s], new, bs) /\ Len(bs) >= 1 => NumData(h, n + 1)' = Len(new.sum)
  <2>1. \A m : m = Len(wire) + 1 /\ Len(bs) >= 1 =>
          NumData(h, m)' = NumData(h, Len(wire)) + (IF bs[1].kind = "Datablock" THEN 1 ELSE 0)
    BY <1>0, DataCounts
  <2> QED BY <1>1, <1>2, <2>1 DEF AddsData
<1>5. AddsData(handles[s], new, bs) => bs[1].kind \notin Marks
  BY DEF AddsData, Marks, StreamKinds
<1>6. CASE bs = << >> /\ new.sum = handles[s].sum /\ new.ack = handles[s].ack
  <2>1. PICK m : m = Len(wire')
    OBVIOUS
  <2>2. m = Len(wire) /\ m \in 0..Len(wire) /\ m + 1 \in 1..(Len(wire) + 1)
    BY <1>0, <1>2, <1>3, <1>6, <2>1
  <2>3. \A i \in 0..Len(wire) : NumData(h, i)' = NumData(h, i)
    BY <1>0, DataCounts
  <2>4. \A i \in 1..(Len(wire) + 1) : Inside(h, i)' <=> Inside(h, i)
    BY <1>0, InsideStays
  <2>5. Inside(h, m + 1)' /\ NumData(h, m)' = Len(new.sum)
    BY <1>1, <1>6, <2>2, <2>3, <2>4
  <2>6. Inside(h, Len(wire) + 1)' /\ NumData(h, Len(wire))' = Len(new.sum)
    BY <2>1, <2>5
  <2> QED BY <1>0, <1>6, <2>6
<1>7. CASE Len(bs) = 1 /\ AddsData(handles[s], new, bs) /\ new.ack = handles[s].ack
  <2>1. PICK m : m = Len(wire')
    OBVIOUS
  <2>2. m = n + 1 /\ m + 1 \in (Len(wire) + 1)..(Len(wire) + Len(bs) + 1)
    BY <1>0, <1>2, <1>3, <1>7, <2>1
  <2>3. \A k \in 1..Len(bs) : bs[k].kind \notin Marks
    BY <1>5, <1>7
  <2>4. Inside(h, m + 1)'
    BY <1>0, <1>1, <2>2, <2>3, InsideGoesOn
  <2>5. NumData(h, m)' = Len(new.sum)
    BY <1>4, <1>7, <2>2
  <2>6. Inside(h, Len(wire) + 1)' /\ NumData(h, Len(wire))' = Len(new.sum)
    BY <2>1, <2>4, <2>5
  <2> QED BY <1>0, <1>7, <2>6
<1>8. ASSUME new.ack = "ok", bs[Len(bs)] = EOS(new.sum),
             \/ Len(bs) = 1 /\ new.sum = handles[s].sum
             \/ Len(bs) = 2 /\ AddsData(handles[s], new, bs)
      PROVE  \E j \in (h + 1)..Len(wire') :
               wire'[j] = EOS(new.sum) /\ Inside(h, j)' /\ NumData(h, j)' = Len(new.sum)
  <2>1. PICK j : j = n + Len(bs)
    OBVIOUS
  <2>2. j \in (h + 1)..Len(wire') /\ wire'[j] = EOS(new.sum) /\ j \in (Len(wire) + 1)..(Len(wire) + Len(bs) + 1)
    BY <1>0, <1>2, <1>3, <1>8, <2>1
  <2>3. EOS(new.sum).kind # "Datablock"
    BY DEF EOS
  <2>4. \A k \in 1..Len(bs) : Len(wire) + k < j => bs[k].kind \notin Marks
    <3>1. \A k \in 1..Len(bs) : Len(wire) + k < j => k = 1 /\ Len(bs) = 2
      BY <1>0, <1>2, <1>8, <2>1
    <3>2. Len(bs) = 2 => bs[1].kind \notin Marks
      BY <1>5, <1>8
    <3> QED BY <3>1, <3>2
  <2>5. Inside(h, j)'
    BY <1>0, <1>1, <2>2, <2>4, InsideGoesOn
  <2>6. /\ NumData(h, Len(wire)) \in Nat
        /\ \A m : m = Len(wire) + 1 /\ Len(bs) >= 1 =>
             NumData(h, m)' = NumData(h, Len(wire)) + (IF bs[1].kind = "Datablock" THEN 1 ELSE 0)
        /\ \A i, m : i = Len(wire) + 1 /\ m = Len(wire) + 2 /\ Len(bs) >= 2 /\ bs[2].kind # "Datablock" =>
             NumData(h, m)' = NumData(h, i)'
    BY <1>0, DataCounts
  <2>7. CASE Len(bs) = 1 /\ new.sum = handles[s].sum
    <3>1. j = Len(wire) + 1 /\ bs[1].kind # "Datablock" /\ Len(bs) >= 1
      BY <1>2, <1>8, <2>1, <2>3, <2>7
    <3>2. NumData(h, j)' = NumData(h, Len(wire)) + 0
      BY <2>6, <3>1
    <3>3. NumData(h, j)' = Len(new.sum)
      BY <1>1, <2>6, <2>7, <3>2
    <3> QED BY <2>2, <2>5, <3>3
  <2>8. CASE Len(bs) = 2 /\ AddsData(handles[s], new, bs)
    <3>1. j = Len(wire) + 2 /\ bs[2].kind # "Datablock" /\ Len(bs) >= 2
      BY <1>2, <1>8, <2>1, <2>3, <2>8
    <3>2. \A i : i = Len(wire) + 1 => NumData(h, j)' = NumData(h, i)'
      BY <2>6, <3>1
    <3>3. NumData(h, j)' = Len(new.sum)
      <4>1. n + 1 = Len(wire) + 1 /\ Len(bs) >= 1
        BY <1>2, <2>8
      <4> QED BY <1>4, <2>8, <3>2, <4>1
    <3> QED BY <2>2, <2>5, <3>3
  <2> QED BY <1>8, <2>7, <2>8
<1> QED BY <1>0, <1>6, <1>7, <1>8 DEF SendsOf

\* A call on the open stream.
LEMMA StreamCallKeepsStreams ==
  ASSUME HandlesInv, StreamsInv, Disciplined, HandlesGrow, NEW s \in Opened, NEW new,
         HandleFits(new), NEW bs \in Seq(Blocks), StreamCall(s, new, bs)
  PROVE  StreamsInv' /\ (DataCarried => DataCarried')
<1>0. /\ TypeOK /\ wire \in Seq(Blocks) /\ Len(wire) \in Nat /\ DOMAIN wire = 1..Len(wire) /\ werr \in BOOLEAN
      /\ handles[s].sum \in Seq(Payloads) /\ handles[s].ack \in {"open", "ok", "err"}
  BY HandleTyped DEF HandlesInv, TypeOK
<1>1. /\ IsOpen(s) /\ closes = << >> /\ closes' = closes /\ Opened' = Opened /\ handles'[s] = new
      /\ Same(handles[s], new)
      /\ \A u \in Opened : u # s => handles'[u] = handles[u]
  BY DEF StreamCall, MayUse, Opened
<1>2. SendsOf(handles[s], new, bs)
  BY <1>0, StreamSends
<1>3. \E t \in Seq(Blocks) : wire' = wire \o t /\ Extends(bs, t)
  <2>1. CASE bs = << >>
    <3>1. Extends(bs, bs) /\ wire' = wire \o bs
      BY <1>0, <2>1 DEF Extends, StreamCall
    <3> QED BY <3>1
  <2>2. CASE bs # << >>
    BY <1>0, <2>2, SendsErr DEF StreamCall
  <2> QED BY <2>1, <2>2
<1>4. PICK t \in Seq(Blocks) : wire' = wire \o t /\ Extends(bs, t)
  BY <1>3
<1>5. werr' \in BOOLEAN /\ (werr => werr' /\ wire' = wire) /\ (~werr' => wire' = wire \o bs /\ ~werr)
  <2>1. CASE bs = << >>
    BY <1>0, <2>1 DEF StreamCall
  <2>2. CASE bs # << >>
    BY <1>0, <2>2, SendsErr DEF StreamCall
  <2> QED BY <2>1, <2>2
<1>6. \A k \in 1..Len(bs) : bs[k].kind \in {"Datablock", "EOS"}
  <2>1. EOS(new.sum).kind = "EOS"
    BY DEF EOS
  <2>2. CASE bs = << >>
    BY <2>2
  <2>3. CASE Len(bs) = 1 /\ AddsData(handles[s], new, bs)
    BY <2>3 DEF AddsData
  <2>4. CASE bs[Len(bs)] = EOS(new.sum) /\ Len(bs) = 1
    BY <2>1, <2>4
  <2>5. CASE bs[Len(bs)] = EOS(new.sum) /\ Len(bs) = 2 /\ AddsData(handles[s], new, bs)
    BY <2>1, <2>5 DEF AddsData
  <2> QED BY <1>2, <2>2, <2>3, <2>4, <2>5 DEF SendsOf
<1>7. \A k \in 1..Len(t) : t[k].kind \in {"Datablock", "EOS", "Partial"}
  BY <1>4, <1>6 DEF Extends
<1>8. PICK n : n = Len(wire)
  OBVIOUS
<1>9. HeadersNamed' /\ DataPlaced' /\ (DataCarried => DataCarried') /\ HeadersSent'
  <2>1. \A k \in 1..Len(t) : t[k].kind \notin StreamKinds
    BY <1>7 DEF StreamKinds
  <2>2. ASSUME NEW h \in DOMAIN wire, NEW k \in 1..Len(t), Inside(h, n + 1), KindAt(h) \in StreamKinds
        PROVE  Placed(h, n + k)' /\ Carried(h, n + k)'
    <3>1. ~werr
      <4>1. Len(wire') = Len(wire) + Len(t) /\ Len(t) \in Nat /\ Len(t) # 0
        BY <1>0, <1>4, WireGrows
      <4> QED BY <1>0, <1>5, <4>1
    <3> QED BY <1>1, <1>2, <1>4, <1>8, <2>2, <3>1, StreamCallPlaces
  <2> QED BY <1>0, <1>1, <1>4, <1>8, <2>1, <2>2, NewPlaced
<1>10. ASSUME NEW h \in DOMAIN wire', KindAt(h)' \in StreamKinds, NEW u \in Opened', u = wire'[h].sid
       PROVE  /\ handles'[u].ack = "open" /\ ~werr' =>
                   Inside(h, Len(wire) + 1)' /\ NumData(h, Len(wire))' = Len(handles'[u].sum)
              /\ handles'[u].ack = "ok" =>
                   \E j \in (h + 1)..Len(wire') :
                     wire'[j] = EOS(handles'[u].sum) /\ Inside(h, j)' /\ NumData(h, j)' = Len(handles'[u].sum)
  <2>1. h \in DOMAIN wire /\ wire'[h] = wire[h]
    <3>1. /\ \A i \in DOMAIN wire' : i \in DOMAIN wire \/ i - Len(wire) \in 1..Len(t)
          /\ \A i \in 1..Len(wire) : wire'[i] = wire[i]
          /\ \A i \in 1..Len(t) : wire'[Len(wire) + i] = t[i]
          /\ DOMAIN wire' = 1..Len(wire') /\ Len(wire') \in Nat
      BY <1>0, <1>4, WireGrows
    <3>2. ASSUME h - Len(wire) \in 1..Len(t) PROVE FALSE
      <4>1. Len(wire) + (h - Len(wire)) = h
        BY <1>0, <3>1
      <4>2. wire'[h] = t[h - Len(wire)]
        BY <3>1, <3>2, <4>1
      <4> QED BY <1>7, <1>10, <3>2, <4>2 DEF KindAt, StreamKinds
    <3> QED BY <1>0, <3>1, <3>2
  <2>2. KindAt(h) \in StreamKinds /\ u \in Opened /\ u = wire[h].sid
    BY <1>1, <1>10, <2>1 DEF KindAt
  <2>3. CASE u # s
    <3>1. handles'[u] = handles[u] /\ ~IsOpen(u)
      BY <1>1, <2>2, <2>3 DEF StreamsInv, OneAtATime
    <3>2. handles'[u].ack # "open"
      BY <3>1 DEF IsOpen
    <3>3. handles'[u].ack = "ok" =>
            \E j \in (h + 1)..Len(wire') :
              wire'[j] = EOS(handles'[u].sum) /\ Inside(h, j)' /\ NumData(h, j)' = Len(handles'[u].sum)
      BY <1>0, <1>4, <2>1, <2>2, <3>1, EndedStays
    <3> QED BY <3>2, <3>3
  <2>4. CASE u = s
    <3>1. ~werr' => ~werr /\ wire' = wire \o bs
      BY <1>5
    <3>2. new.ack = "ok" => ~werr'
      BY <1>1, <1>2 DEF SendsOf, IsOpen
    <3> QED BY <1>1, <1>2, <2>1, <2>2, <2>4, <3>1, <3>2, StreamCallSends
  <2> QED BY <2>3, <2>4
<1>11. DataSent'
  BY <1>10 DEF DataSent
<1>12. OneAtATime'
  <2>1. \A u \in Opened : IsOpen(u)' => u = s
    BY <1>1 DEF IsOpen, StreamsInv, OneAtATime
  <2> QED BY <1>1, <2>1 DEF OneAtATime
<1>13. FailedKept'
  <2>1. new.ack = "err" => werr'
    BY <1>1, <1>2, <1>5 DEF SendsOf, IsOpen
  <2>2. \A u \in Opened : u # s /\ handles[u].ack = "err" => werr'
    BY <1>5 DEF StreamsInv, FailedKept
  <2> QED BY <1>1, <2>1, <2>2 DEF FailedKept
<1> QED BY <1>9, <1>11, <1>12, <1>13 DEF StreamsInv

LEMMA StreamsInit == Init => StreamsInv /\ DataCarried
<1> SUFFICES ASSUME Init PROVE StreamsInv /\ DataCarried
  OBVIOUS
<1>1. handles = << >> /\ Opened = {} /\ closes = << >>
  BY DEF Init, Opened
<1>2. \A h \in DOMAIN wire : KindAt(h) = "Version"
  BY BlockKinds DEF Init, KindAt, VersionBlock
<1>3. \A h \in DOMAIN wire : KindAt(h) \notin StreamKinds
  BY <1>2 DEF StreamKinds
<1> QED BY <1>1, <1>3 DEF StreamsInv, OneAtATime, FailedKept, HeadersNamed, DataPlaced, DataCarried,
                          HeadersSent, DataSent, Within

\* A caller who keeps the contract keeps the streams apart and whole.
LEMMA StreamsStep ==
  ASSUME HandlesInv, StreamsInv, Disciplined, [Next]_wvars
  PROVE  StreamsInv' /\ (DataCarried => DataCarried')
<1>1. HandlesGrow
  BY HandlesStep
<1>2. CASE UNCHANGED <<wire, handles, nonce, errors, closes>> /\ (werr => werr')
  BY <1>2, QuietKeepsStreams
<1>3. CASE \E b \in Blocks : Aside(b)
  BY <1>1, <1>3, AsideKeepsStreams
<1>4. CASE \E new : Sound(new) /\ NewStream(new)
  BY <1>1, <1>4, NewStreamKeepsStreams
<1>5. CASE \E s \in Opened : \E new, bs : Sound(new) /\ bs \in Seq(Blocks) /\ StreamCall(s, new, bs)
  BY <1>1, <1>5, StreamCallKeepsStreams DEF Sound
<1> QED BY <1>2, <1>3, <1>4, <1>5, Steps

----------------------------------------------------------------------------
(* What a nil from Close of a stream means.                                 *)

\* The payloads of a closed stream carry what was written to it, chunk by chunk.
LEMMA ClosedChunks ==
  ASSUME NEW hd \in Handles, HandleFits(hd), hd.enc => hd.ack # "open"
  PROVE  OneChunkEach(hd.sum, hd.wrote)
<1>0. Len(hd.sum) \in Nat /\ Len(hd.wrote) \in Nat /\ DOMAIN hd.sum = 1..Len(hd.sum)
      /\ (hd.wrote = << >> <=> Len(hd.wrote) = 0)
  BY DEF Handles
<1>1. Len(hd.sum) = Len(hd.wrote) \/ (hd.enc /\ hd.wrote = << >> /\ Len(hd.sum) = 1)
  <2>1. CASE ~hd.enc
    BY <2>1 DEF HandleFits
  <2>2. CASE hd.enc
    <3>1. Len(hd.sum) = hd.frag + 1 /\ Buffers(hd)
      BY <2>2 DEF HandleFits
    <3>2. CASE hd.wrote = << >>
      BY <2>2, <3>1, <3>2 DEF Buffers
    <3>3. CASE hd.wrote # << >>
      BY <1>0, <3>1, <3>3 DEF Buffers
    <3> QED BY <3>2, <3>3
  <2> QED BY <2>1, <2>2
<1>2. ASSUME NEW k \in 1..Len(hd.sum)
      PROVE  hd.sum[k].body = IF k <= Len(hd.wrote) THEN << hd.wrote[k] >> ELSE << >>
  <2>1. hd.sum[k] = PayloadOf(hd, k)
    BY DEF HandleFits
  <2>2. CASE hd.enc
    BY <2>1, <2>2 DEF PayloadOf, Sealed
  <2>3. CASE ~hd.enc
    <3>1. k <= Len(hd.wrote)
      BY <1>0, <1>1, <2>3
    <3> QED BY <2>1, <2>3, <3>1 DEF PayloadOf, Clear
  <2> QED BY <2>2, <2>3
<1> QED BY <1>0, <1>1, <1>2 DEF OneChunkEach

\* The blocks of a stream that was closed without an error.
LEMMA ClosedSent ==
  ASSUME HandlesInv, StreamsInv, DataCarried, NEW s \in Opened, handles[s].ack = "ok"
  PROVE  \E i, j \in DOMAIN wire :
           /\ i < j /\ wire[i] = Header(s) /\ wire[j] = EOS(handles[s].sum)
           /\ CarryExactly(i, j, handles[s].sum)
<1>0. wire \in Seq(Blocks) /\ Len(wire) \in Nat /\ DOMAIN wire = 1..Len(wire)
  BY DEF HandlesInv, TypeOK
<1>1. PICK i \in DOMAIN wire : wire[i] = Header(s)
  BY DEF StreamsInv, HeadersSent
<1>2. KindAt(i) \in StreamKinds /\ wire[i].sid = s
  BY <1>1 DEF KindAt, Header, EncStream, PlainStream, StreamKinds
<1>3. PICK j \in (i + 1)..Len(wire) :
        wire[j] = EOS(handles[s].sum) /\ Inside(i, j) /\ NumData(i, j) = Len(handles[s].sum)
  BY <1>2 DEF StreamsInv, DataSent
<1>4. j \in DOMAIN wire /\ i < j
  BY <1>0
<1>5. ASSUME NEW m \in DataAt(i, j) PROVE wire[m].payload = handles[s].sum[NumData(i, m)]
  <2>1. m \in (i + 1)..j /\ KindAt(m) = "Datablock"
    BY DEF DataAt
  <2>2. m \in DOMAIN wire /\ i < m /\ \A k \in (i + 1)..(m - 1) : k \in (i + 1)..(j - 1)
    BY <1>0, <2>1
  <2>3. Within(i, m)
    BY <1>2, <1>3, <2>2 DEF Within, Inside
  <2> QED BY <1>2, <2>1, <2>2, <2>3 DEF StreamsInv, DataCarried, Carried
<1>6. CarryExactly(i, j, handles[s].sum)
  BY <1>3, <1>5 DEF CarryExactly
<1> QED BY <1>1, <1>3, <1>4, <1>6

\* When Close of a stream returned nil to a caller who keeps the contract, the
\* output holds the header of that stream, its data with every chunk in the order
\* of the Write calls, and an EOS block whose checksum is over just that data,
\* whatever the io.Writer did before (streamWriter.Write and Close, closeWrapper).
THEOREM WriterAckedComplete ==
  ASSUME Disciplined
  PROVE  Spec => []AckedComplete
<1>1. Init => HandlesInv /\ StreamsInv /\ DataCarried
  BY HandlesInit, StreamsInit
<1>2. HandlesInv /\ StreamsInv /\ DataCarried /\ [Next]_wvars => HandlesInv' /\ StreamsInv' /\ DataCarried'
  BY HandlesStep, StreamsStep
<1>3. HandlesInv /\ StreamsInv /\ DataCarried => AckedComplete
  <2> SUFFICES ASSUME HandlesInv, StreamsInv, DataCarried, NEW s \in Opened, handles[s].ack = "ok"
               PROVE  /\ \E i, j \in DOMAIN wire :
                           /\ i < j /\ wire[i] = Header(s) /\ wire[j] = EOS(handles[s].sum)
                           /\ CarryExactly(i, j, handles[s].sum)
                      /\ OneChunkEach(handles[s].sum, handles[s].wrote)
    BY DEF AckedComplete
  <2>1. handles[s] \in Handles /\ HandleFits(handles[s])
    BY HandleTyped DEF HandlesInv
  <2>2. OneChunkEach(handles[s].sum, handles[s].wrote)
    BY <2>1, ClosedChunks
  <2> QED BY <2>2, ClosedSent
<1> QED BY <1>1, <1>2, <1>3, PTL DEF Spec

----------------------------------------------------------------------------
(* The order of the blocks.                                                 *)

\* What the last block is, as long as there is no error.
LastKinds ==
  IF \E s \in Opened : IsOpen(s) THEN StreamKinds \cup {"Datablock", "Error"}
  ELSE IF closes # << >> THEN {"EOF"}
  ELSE IF errors = 0 THEN KeyKinds \cup {"Version", "EOS"}
  ELSE {"EOS", "Error"}
LastFits == ~werr => wire # << >> /\ KindAt(Len(wire)) \in LastKinds

OrderInv == WellFormed /\ LastFits

LEMMA FollowsAre ==
  /\ \A k \in KeyKinds \cup {"Version", "EOS"} :
       Follows(k) = KeyKinds \cup StreamKinds \cup {"EOF", "Error", "Partial"}
  /\ \A k \in StreamKinds \cup {"Datablock"} : Follows(k) = {"Datablock", "EOS", "Error", "Partial"}
  /\ Follows("Error") = {"Datablock", "EOS", "Error", "Partial", "EOF"}
  /\ Follows("EOF") = {"EOF", "Partial"}
BY DEF Follows, KeyKinds, StreamKinds

LEMMA PartialFollows ==
  \A k \in KeyKinds \cup StreamKinds \cup {"Version", "EOS", "Datablock", "Error", "EOF"} : "Partial" \in Follows(k)
BY FollowsAre

\* What went out of blocks that may follow each other leaves the output in order.
LEMMA SentInOrder ==
  ASSUME TypeOK, WellFormed, wire # << >>, KindAt(Len(wire)) \in LastKinds,
         NEW bs \in Seq(Blocks), Len(bs) <= 2, NEW t, Extends(bs, t), wire' = wire \o t,
         Len(bs) >= 1 => bs[1].kind \in Follows(KindAt(Len(wire))),
         Len(bs) = 2 => bs[1].kind = "Datablock" /\ bs[2].kind = "EOS"
  PROVE  WellFormed'
<1>0. /\ wire \in Seq(Blocks) /\ t \in Seq(Blocks) /\ Len(wire) \in Nat /\ Len(wire) >= 1 /\ Len(t) \in 0..2
      /\ Len(t) <= Len(bs)
  <2>1. wire \in Seq(Blocks) /\ t \in Seq(Blocks) /\ Len(t) <= Len(bs)
    BY DEF TypeOK, Extends
  <2>2. Len(wire) \in Nat /\ Len(t) \in Nat /\ Len(wire) # 0
    BY <2>1
  <2>3. Len(t) \in 0..2
    <3>1. Len(bs) \in Nat
      OBVIOUS
    <3>2. \A a, b \in Nat : a <= b /\ b <= 2 => a \in 0..2
      OBVIOUS
    <3> QED BY <2>1, <2>2, <3>1, <3>2, Zenon
  <2>4. Len(wire) >= 1
    BY <2>2
  <2> QED BY <2>1, <2>2, <2>3, <2>4
<1>1. /\ \A i \in 1..Len(wire) : wire'[i] = wire[i]
      /\ \A i \in 1..Len(t) : wire'[Len(wire) + i] = t[i]
      /\ Len(wire') = Len(wire) + Len(t)
  BY <1>0, WireGrows
<1>2. "Partial" \in Follows(KindAt(Len(wire)))
  <2>1. KindAt(Len(wire)) \in KeyKinds \cup StreamKinds \cup {"Version", "EOS", "Datablock", "Error", "EOF"}
    BY DEF LastKinds
  <2> QED BY <2>1, PartialFollows
<1>3. Len(t) >= 1 => t[1].kind \in Follows(KindAt(Len(wire)))
  <2>1. Len(t) >= 1 => t[1].kind = "Partial" \/ (t[1] = bs[1] /\ Len(bs) >= 1)
    BY <1>0 DEF Extends
  <2> QED BY <1>2, <2>1
<1>4. Len(t) = 2 => t[2].kind \in Follows(t[1].kind)
  <2>1. SUFFICES ASSUME Len(t) = 2 PROVE t[2].kind \in Follows(t[1].kind)
    OBVIOUS
  <2>2. t[1] = bs[1] /\ (t[2].kind = "Partial" \/ t[2] = bs[2]) /\ Len(bs) = 2
    BY <1>0, <2>1 DEF Extends
  <2> QED BY <2>2, FollowsAre
<1>5. ASSUME NEW i \in 1..(Len(wire') - 1) PROVE wire'[i + 1].kind \in Follows(wire'[i].kind)
  <2>1. CASE i < Len(wire)
    <3>1. i \in 1..(Len(wire) - 1) /\ i \in 1..Len(wire) /\ i + 1 \in 1..Len(wire)
      BY <1>0, <2>1
    <3>2. wire[i + 1].kind \in Follows(wire[i].kind)
      BY <3>1 DEF WellFormed, KindAt
    <3> QED BY <1>1, <3>1, <3>2
  <2>2. CASE i = Len(wire)
    <3>1. Len(t) >= 1 /\ i \in 1..Len(wire) /\ 1 \in 1..Len(t)
      BY <1>0, <1>1, <2>2
    <3>2. wire'[i] = wire[i] /\ wire'[i + 1] = t[1]
      BY <1>1, <2>2, <3>1
    <3> QED BY <1>3, <2>2, <3>1, <3>2 DEF KindAt
  <2>3. CASE i = Len(wire) + 1
    <3>1. Len(t) = 2 /\ 1 \in 1..Len(t) /\ 2 \in 1..Len(t) /\ i + 1 = Len(wire) + 2
      BY <1>0, <1>1, <2>3
    <3>2. wire'[i] = t[1] /\ wire'[Len(wire) + 2] = t[2]
      BY <1>1, <2>3, <3>1
    <3> QED BY <1>4, <3>1, <3>2
  <2>4. i < Len(wire) \/ i = Len(wire) \/ i = Len(wire) + 1
    BY <1>0, <1>1
  <2> QED BY <2>1, <2>2, <2>3, <2>4, Zenon
<1>6. wire'[1].kind = "Version"
  <2>1. 1 \in 1..Len(wire) /\ wire[1].kind = "Version"
    BY <1>0 DEF WellFormed, KindAt
  <2> QED BY <1>1, <2>1
<1> QED BY <1>5, <1>6 DEF WellFormed, KindAt

LEMMA OrderInit == Init => OrderInv
<1> SUFFICES ASSUME Init PROVE OrderInv
  OBVIOUS
<1>1. CASE wire = << VersionBlock >> /\ werr = FALSE
  <2>1. Len(wire) = 1 /\ KindAt(1) = "Version" /\ wire # << >>
    BY <1>1, BlockKinds DEF KindAt, VersionBlock
  <2>2. handles = << >> /\ Opened = {} /\ closes = << >> /\ errors = 0
    BY DEF Init, Opened
  <2> QED BY <2>1, <2>2 DEF OrderInv, WellFormed, LastFits, LastKinds
<1>2. CASE wire = << >> /\ werr = TRUE
  <2>1. Len(wire) = 0
    BY <1>2
  <2> QED BY <1>2, <2>1 DEF OrderInv, WellFormed, LastFits
<1> QED BY <1>1, <1>2 DEF Init

\* An output that stays as it is.
LEMMA SameOrder ==
  ASSUME WellFormed, UNCHANGED wire
  PROVE  WellFormed'
BY DEF WellFormed, KindAt

\* After an error the output stays as it is.
LEMMA NoOrderAfterError ==
  ASSUME OrderInv, UNCHANGED wire, werr'
  PROVE  OrderInv'
BY SameOrder DEF OrderInv, LastFits

LEMMA AsideKeepsOrder ==
  ASSUME HandlesInv, OrderInv, Disciplined, NEW b \in Blocks, Aside(b)
  PROVE  OrderInv'
<1>0. TypeOK /\ wire \in Seq(Blocks) /\ Len(wire) \in Nat /\ errors \in Nat /\ werr \in BOOLEAN
  BY DEF HandlesInv, TypeOK
<1>1. /\ << b >> \in Seq(Blocks) /\ Sends(<< b >>) /\ handles' = handles
      /\ Len(<< b >>) = 1 /\ << b >>[1] = b
  BY DEF Aside
<1>2. (werr => werr' /\ wire' = wire) /\ (~werr' => wire' = wire \o << b >>)
  BY <1>0, <1>1, SendsErr
<1>3. PICK t \in Seq(Blocks) : wire' = wire \o t /\ Extends(<< b >>, t)
  BY <1>0, <1>1, SendsErr
<1>4. CASE werr
  BY <1>2, <1>4, NoOrderAfterError
<1>5. CASE ~werr
  <2>1. WellFormed /\ wire # << >> /\ KindAt(Len(wire)) \in LastKinds
    BY <1>5 DEF OrderInv, LastFits
  <2>2. PICK k : k = KindAt(Len(wire))
    OBVIOUS
  <2>3. /\ b.kind \in KeyKinds => (\A s \in Opened : ~IsOpen(s)) /\ errors = 0 /\ closes = << >>
        /\ b.kind = "Error" => closes = << >>
        /\ b.kind = "EOF" => \A s \in Opened : ~IsOpen(s)
    BY DEF Aside, MayAdd, KeyKinds
  <2>4. \/ b.kind \in KeyKinds /\ k \in KeyKinds \cup {"Version", "EOS"}
        \/ b.kind = "Error" /\ k \in KeyKinds \cup StreamKinds \cup {"Version", "EOS", "Datablock", "Error"}
        \/ b.kind = "EOF" /\ k \in KeyKinds \cup {"Version", "EOS", "Error", "EOF"}
    BY <2>1, <2>2, <2>3 DEF LastKinds, Aside
  <2>5. b.kind \in Follows(k)
    BY <2>4, FollowsAre DEF KeyKinds, StreamKinds
  <2>6. PICK bs \in Seq(Blocks) : bs = << b >>
    BY <1>1
  <2>7. Len(bs) <= 2 /\ (Len(bs) >= 1 => bs[1].kind \in Follows(KindAt(Len(wire)))) /\ Len(bs) # 2
    BY <1>1, <2>2, <2>5, <2>6
  <2>8. WellFormed'
    BY <1>0, <1>3, <2>1, <2>6, <2>7, SentInOrder
  <2>9. LastFits'
    <3>1. SUFFICES ASSUME ~werr' PROVE wire' # << >> /\ wire'[Len(wire')].kind \in LastKinds'
      BY DEF LastFits, KindAt
    <3>2. Len(wire') = Len(wire) + 1 /\ wire'[Len(wire) + 1] = b
      BY <1>0, <1>1, <1>2, <3>1, WireGrows
    <3>3. wire' # << >> /\ wire'[Len(wire')] = b
      BY <1>0, <3>2
    <3>4. b.kind \in LastKinds'
      <4>1. (\E s \in Opened : IsOpen(s))' <=> \E s \in Opened : IsOpen(s)
        BY <1>1 DEF Opened, IsOpen
      <4>2. CASE b.kind \in KeyKinds
        <5>1. errors' = errors /\ closes' = closes
          BY <4>2 DEF Aside, KeyKinds
        <5> QED BY <2>3, <4>1, <4>2, <5>1 DEF LastKinds
      <4>3. CASE b.kind = "Error"
        <5>1. errors' = errors + 1 /\ closes' = closes
          BY <4>3 DEF Aside, KeyKinds
        <5>2. errors' # 0
          BY <1>0, <5>1
        <5> QED BY <2>3, <4>1, <4>3, <5>1, <5>2 DEF LastKinds
      <4>4. CASE b.kind = "EOF"
        <5>1. closes' # << >>
          BY <4>4 DEF Aside, KeyKinds
        <5> QED BY <2>3, <4>1, <4>4, <5>1 DEF LastKinds
      <4> QED BY <4>2, <4>3, <4>4 DEF Aside
    <3> QED BY <3>3, <3>4
  <2> QED BY <2>8, <2>9 DEF OrderInv
<1> QED BY <1>0, <1>4, <1>5

LEMMA NewStreamKeepsOrder ==
  ASSUME HandlesInv, OrderInv, Disciplined, NEW new, Sound(new), NewStream(new)
  PROVE  OrderInv'
<1>0. TypeOK /\ wire \in Seq(Blocks) /\ Len(wire) \in Nat /\ errors = 0 /\ closes = << >> /\ ~werr
      /\ (\A s \in Opened : ~IsOpen(s)) /\ closes' = closes
  BY DEF HandlesInv, TypeOK, NewStream, MayAdd
<1>1. PICK b : b = HeaderFrom(new)
  OBVIOUS
<1>2. b \in Blocks /\ b.kind \in StreamKinds
  <2>1. b \in Blocks
    BY <1>1, HeaderFits
  <2> QED BY <1>1, <2>1 DEF HeaderFrom, EncStream, PlainStream, StreamKinds
<1>3. << b >> \in Seq(Blocks) /\ Sends(<< b >>) /\ Len(<< b >>) = 1 /\ << b >>[1] = b
  BY <1>1, <1>2 DEF NewStream
<1>4. PICK t \in Seq(Blocks) : wire' = wire \o t /\ Extends(<< b >>, t)
  BY <1>0, <1>3, SendsErr
<1>5. wire # << >> /\ WellFormed /\ KindAt(Len(wire)) \in LastKinds
  BY <1>0 DEF OrderInv, LastFits
<1>6. b.kind \in Follows(KindAt(Len(wire)))
  <2>1. KindAt(Len(wire)) \in KeyKinds \cup {"Version", "EOS"}
    BY <1>0, <1>5 DEF LastKinds
  <2> QED BY <1>2, <2>1, FollowsAre
<1>7. PICK bs \in Seq(Blocks) : bs = << b >>
  BY <1>3
<1>8. Len(bs) <= 2 /\ (Len(bs) >= 1 => bs[1].kind \in Follows(KindAt(Len(wire)))) /\ Len(bs) # 2
  BY <1>3, <1>6, <1>7
<1>9. WellFormed'
  BY <1>0, <1>4, <1>5, <1>7, <1>8, SentInOrder
<1>10. LastFits'
  <2>1. SUFFICES ASSUME ~werr' PROVE wire' # << >> /\ wire'[Len(wire')].kind \in LastKinds'
    BY DEF LastFits, KindAt
  <2>2. wire' = wire \o << b >> /\ handles' = Append(handles, new)
    BY <1>0, <1>3, <2>1, SendsErr DEF NewStream
  <2>3. Len(wire') = Len(wire) + 1 /\ wire'[Len(wire) + 1] = b
    BY <1>0, <1>3, <2>2, WireGrows
  <2>4. wire' # << >> /\ wire'[Len(wire')] = b
    BY <1>0, <2>3
  <2>5. (\E s \in Opened : IsOpen(s))'
    <3>1. /\ Opened' = 1..(Len(handles) + 1) /\ handles'[Len(handles) + 1] = new /\ Len(handles) \in Nat
      BY <1>0, <2>2, OneMoreHandle DEF TypeOK, Sound
    <3>2. PICK u : u = Len(handles) + 1
      OBVIOUS
    <3>3. u \in Opened' /\ IsOpen(u)'
      BY <3>1, <3>2 DEF IsOpen, NewStream
    <3> QED BY <3>3
  <2> QED BY <1>2, <2>4, <2>5 DEF LastKinds
<1> QED BY <1>9, <1>10 DEF OrderInv

LEMMA StreamCallKeepsOrder ==
  ASSUME HandlesInv, StreamsInv, OrderInv, Disciplined, NEW s \in Opened, NEW new,
         NEW bs \in Seq(Blocks), StreamCall(s, new, bs)
  PROVE  OrderInv'
<1>0. /\ TypeOK /\ wire \in Seq(Blocks) /\ Len(wire) \in Nat /\ werr \in BOOLEAN
      /\ handles[s].sum \in Seq(Payloads)
  BY HandleTyped DEF HandlesInv, TypeOK
<1>1. /\ IsOpen(s) /\ closes = << >> /\ closes' = closes /\ errors' = errors /\ Opened' = Opened /\ handles'[s] = new
      /\ \A u \in Opened : u # s => handles'[u] = handles[u]
  BY DEF StreamCall, MayUse, Opened
<1>2. SendsOf(handles[s], new, bs)
  BY <1>0, StreamSends
<1>3. PICK t \in Seq(Blocks) : wire' = wire \o t /\ Extends(bs, t)
  <2>1. CASE bs = << >>
    <3>1. Extends(bs, bs) /\ wire' = wire \o bs
      BY <1>0, <2>1 DEF Extends, StreamCall
    <3> QED BY <3>1
  <2>2. CASE bs # << >>
    BY <1>0, <2>2, SendsErr DEF StreamCall
  <2> QED BY <2>1, <2>2
<1>4. (werr => werr' /\ wire' = wire) /\ (~werr' => wire' = wire \o bs /\ ~werr)
  <2>1. CASE bs = << >>
    BY <1>0, <2>1 DEF StreamCall
  <2>2. CASE bs # << >>
    BY <1>0, <2>2, SendsErr DEF StreamCall
  <2> QED BY <2>1, <2>2
<1>5. CASE werr
  BY <1>4, <1>5, NoOrderAfterError
<1>6. CASE ~werr
  <2>1. WellFormed /\ wire # << >> /\ KindAt(Len(wire)) \in LastKinds
    BY <1>6 DEF OrderInv, LastFits
  <2>2. KindAt(Len(wire)) \in StreamKinds \cup {"Datablock", "Error"}
    BY <1>1, <2>1 DEF LastKinds
  <2>3. \A k \in StreamKinds \cup {"Datablock", "Error"} : "Datablock" \in Follows(k) /\ "EOS" \in Follows(k)
    BY FollowsAre DEF StreamKinds
  <2>4. EOS(new.sum).kind = "EOS"
    BY DEF EOS
  <2>5. /\ Len(bs) <= 2 /\ (Len(bs) >= 1 => bs[1].kind \in {"Datablock", "EOS"})
        /\ Len(bs) = 2 => bs[1].kind = "Datablock" /\ bs[2].kind = "EOS"
    <3>1. CASE bs = << >>
      BY <3>1
    <3>2. CASE Len(bs) = 1 /\ AddsData(handles[s], new, bs)
      BY <3>2 DEF AddsData
    <3>3. CASE Len(bs) = 1 /\ bs[Len(bs)] = EOS(new.sum)
      BY <2>4, <3>3
    <3>4. CASE Len(bs) = 2 /\ AddsData(handles[s], new, bs) /\ bs[Len(bs)] = EOS(new.sum)
      BY <2>4, <3>4 DEF AddsData
    <3> QED BY <1>2, <3>1, <3>2, <3>3, <3>4 DEF SendsOf
  <2>6. Len(bs) >= 1 => bs[1].kind \in Follows(KindAt(Len(wire)))
    BY <2>2, <2>3, <2>5
  <2>7. WellFormed'
    BY <1>0, <1>3, <2>1, <2>5, <2>6, SentInOrder
  <2>8. LastFits'
    <3>1. SUFFICES ASSUME ~werr' PROVE wire' # << >> /\ wire'[Len(wire')].kind \in LastKinds'
      BY DEF LastFits, KindAt
    <3>2. /\ Len(wire') = Len(wire) + Len(bs) /\ Len(bs) \in Nat
          /\ \A i \in 1..Len(bs) : wire'[Len(wire) + i] = bs[i]
          /\ \A i \in 1..Len(wire) : wire'[i] = wire[i]
      BY <1>0, <1>4, <3>1, WireGrows
    <3>3. Len(wire) # 0
      BY <1>0, <2>1
    <3>4. wire' # << >>
      BY <1>0, <3>2, <3>3
    <3>5. CASE new.ack = "open"
      <4>1. (\E u \in Opened : IsOpen(u))'
        BY <1>1, <3>5 DEF IsOpen
      <4>2. wire'[Len(wire')].kind \in StreamKinds \cup {"Datablock", "Error"}
        <5>1. CASE bs = << >>
          <6>1. Len(wire') = Len(wire) /\ Len(wire) \in 1..Len(wire)
            BY <1>0, <3>2, <3>3, <5>1
          <6> QED BY <2>2, <3>2, <6>1 DEF KindAt
        <5>2. CASE Len(bs) = 1 /\ AddsData(handles[s], new, bs)
          <6>1. Len(wire') = Len(wire) + 1 /\ 1 \in 1..Len(bs)
            BY <3>2, <5>2
          <6>2. wire'[Len(wire')] = bs[1]
            BY <3>2, <6>1
          <6> QED BY <5>2, <6>2 DEF AddsData
        <5> QED BY <1>2, <3>5, <5>1, <5>2 DEF SendsOf
      <4> QED BY <3>4, <4>1, <4>2 DEF LastKinds
    <3>6. CASE new.ack # "open"
      <4>1. ~(\E u \in Opened : IsOpen(u))'
        BY <1>1, <3>6 DEF IsOpen, StreamsInv, OneAtATime
      <4>2. wire'[Len(wire')] = EOS(new.sum)
        <5>1. bs[Len(bs)] = EOS(new.sum) /\ Len(bs) \in 1..Len(bs)
          BY <1>1, <1>2, <3>2, <3>6 DEF SendsOf, IsOpen
        <5> QED BY <3>2, <5>1
      <4> QED BY <1>1, <2>4, <3>4, <4>1, <4>2 DEF LastKinds
    <3> QED BY <3>5, <3>6
  <2> QED BY <2>7, <2>8 DEF OrderInv
<1> QED BY <1>0, <1>5, <1>6

\* The output of a caller who keeps the contract is a well-formed sequence of
\* blocks at any time, whatever the io.Writer did: the version first, data and the
\* end of a stream only inside one, headers and keys only outside, nothing but the
\* EOF block behind it, and an incomplete block only at the end (writer.go addBlock,
\* sendBlock and their callers).
THEOREM WriterWellFormed ==
  ASSUME Disciplined
  PROVE  Spec => []WellFormed
<1>1. Init => HandlesInv /\ StreamsInv /\ OrderInv
  BY HandlesInit, StreamsInit, OrderInit
<1>2. HandlesInv /\ StreamsInv /\ OrderInv /\ [Next]_wvars => HandlesInv' /\ StreamsInv' /\ OrderInv'
  <2> SUFFICES ASSUME HandlesInv, StreamsInv, OrderInv, [Next]_wvars
               PROVE  OrderInv'
    BY HandlesStep, StreamsStep
  <2>1. CASE UNCHANGED <<wire, handles, nonce, errors, closes>> /\ (werr => werr')
    <3>1. LastKinds' = LastKinds
      BY <2>1 DEF LastKinds, Opened, IsOpen
    <3> QED BY <2>1, <3>1, SameOrder DEF OrderInv, LastFits, KindAt
  <2>2. CASE \E b \in Blocks : Aside(b)
    BY <2>2, AsideKeepsOrder
  <2>3. CASE \E new : Sound(new) /\ NewStream(new)
    BY <2>3, NewStreamKeepsOrder
  <2>4. CASE \E s \in Opened : \E new, bs : Sound(new) /\ bs \in Seq(Blocks) /\ StreamCall(s, new, bs)
    BY <2>4, StreamCallKeepsOrder
  <2> QED BY <2>1, <2>2, <2>3, <2>4, Steps
<1>3. OrderInv => WellFormed
  BY DEF OrderInv
<1> QED BY <1>1, <1>2, <1>3, PTL DEF Spec

----------------------------------------------------------------------------
(* The headers of a Writer's output are in the order of the streams, however *)
(* its calls are made, and a Writer that keeps the contract sends none after *)
(* the end of the output.                                                   *)

\* A header that a call sends is alone and has the number of the next handle,
\* which it gives out unless the call fails.
HeaderAlone(t) ==
  /\ Len(t) = 1 /\ t[1].sid = Len(handles) + 1 /\ ~werr /\ MayAdd
  /\ Len(handles) < adds' /\ (~werr' => Len(handles') = Len(handles) + 1)

NextHeaders(t) ==
  /\ wire' = wire \o t /\ adds <= adds'
  /\ \A i \in 1..Len(t) : t[i].kind \in StreamKinds => HeaderAlone(t)
  /\ \A i \in 1..Len(t) : t[i].kind = "EOF" => closes' # << >>
  /\ \A i \in 1..Len(t) : t[i].kind = "Error" => errors' > 0
  /\ (closes # << >> => closes' # << >>) /\ (errors > 0 => errors' > 0)

\* A call that sends nothing.
LEMMA NothingSent ==
  ASSUME TypeOK, wire' = wire, adds' = adds, closes # << >> => closes' # << >>, errors > 0 => errors' > 0
  PROVE  \E t \in Seq(Blocks) : NextHeaders(t)
<1>1. wire \in Seq(Blocks) /\ adds \in Nat
  BY WriterAssumption DEF TypeOK
<1>2. << >> \in Seq(Blocks) /\ wire = wire \o << >> /\ \A i \in 1..Len(<< >>) : FALSE
  BY <1>1
<1>3. NextHeaders(<< >>)
  BY <1>1, <1>2 DEF NextHeaders
<1> QED BY <1>2, <1>3

\* A call that sends blocks which are no headers.
LEMMA NoHeaders ==
  ASSUME TypeOK, NEW bs \in Seq(Blocks), wire' = wire \/ Sends(bs), adds' = adds,
         \A i \in 1..Len(bs) : /\ bs[i].kind \notin StreamKinds /\ (bs[i].kind = "EOF" => closes' # << >>)
                               /\ bs[i].kind = "Error" => errors' > 0,
         closes # << >> => closes' # << >>, errors > 0 => errors' > 0
  PROVE  \E t \in Seq(Blocks) : NextHeaders(t)
<1>0. wire \in Seq(Blocks) /\ adds \in Nat
  BY WriterAssumption DEF TypeOK
<1>1. CASE wire' = wire
  BY <1>1, NothingSent
<1>2. CASE Sends(bs)
  <2>1. PICK t \in Seq(Blocks) : wire' = wire \o t /\ Extends(bs, t)
    BY <1>2, SendsErr
  <2>2. \A i \in 1..Len(t) : /\ t[i].kind \notin StreamKinds /\ (t[i].kind = "EOF" => closes' # << >>)
                             /\ t[i].kind = "Error" => errors' > 0
    BY <2>1 DEF Extends, StreamKinds
  <2>3. NextHeaders(t)
    BY <1>0, <2>1, <2>2 DEF NextHeaders
  <2> QED BY <2>3
<1> QED BY <1>1, <1>2

\* The call that adds a stream.
LEMMA OneHeader ==
  ASSUME TypeOK, NEW new, Sound(new), NewStream(new), adds' = adds + 1
  PROVE  \E t \in Seq(Blocks) : NextHeaders(t)
<1>0. /\ wire \in Seq(Blocks) /\ adds \in Nat /\ handles \in Seq(Handles) /\ Len(handles) <= adds
      /\ new \in Handles /\ nonce \in Nat
  BY WriterAssumption DEF TypeOK, Sound
<1>1. PICK b : b = HeaderFrom(new)
  OBVIOUS
<1>2. b \in Blocks /\ b.sid = Len(handles) + 1 /\ b.kind \in StreamKinds
  BY <1>0, <1>1, BlockTypes, BlockKinds DEF HeaderFrom, StreamKinds, EncStream, PlainStream
<1>3. << b >> \in Seq(Blocks) /\ Sends(<< b >>) /\ Len(<< b >>) = 1 /\ << b >>[1] = b
  BY <1>1, <1>2 DEF NewStream
<1>4. PICK t \in Seq(Blocks) : wire' = wire \o t /\ Extends(<< b >>, t)
  BY <1>3, SendsErr
<1>5. Len(handles) < adds' /\ (~werr' => Len(handles') = Len(handles) + 1) /\ ~werr /\ MayAdd
  <2>1. ~werr' => Len(handles') = Len(handles) + 1
    BY <1>0, AppendProperties DEF NewStream
  <2> QED BY <1>0, <2>1 DEF NewStream
<1>6. Len(t) \in 0..1 /\ \A i \in 1..Len(t) : i = 1 /\ (t[1].kind = "Partial" \/ t[1] = b)
  BY <1>3, <1>4 DEF Extends
<1>7. \A i \in 1..Len(t) : (t[i].kind \in StreamKinds => HeaderAlone(t)) /\ t[i].kind \notin {"EOF", "Error"}
  BY <1>2, <1>5, <1>6 DEF HeaderAlone, StreamKinds
<1>8. NextHeaders(t)
  BY <1>0, <1>4, <1>7 DEF NextHeaders, NewStream
<1> QED BY <1>8

LEMMA HeadersSentAre ==
  ASSUME HandlesInv, [Next]_wvars
  PROVE  \E t \in Seq(Blocks) : NextHeaders(t)
<1>0. TypeOK /\ << >> \in Seq(Blocks) /\ Len(<< >>) = 0 /\ \A s \in Opened : HandleFits(handles[s])
  BY DEF HandlesInv
<1>1. ASSUME NEW s \in Opened, NEW new, NEW bs \in Seq(Blocks), StreamCall(s, new, bs), adds' = adds
      PROVE  \E t \in Seq(Blocks) : NextHeaders(t)
  <2>1. SendsOf(handles[s], new, bs)
    <3>1. handles[s].sum \in Seq(Payloads)
      BY <1>0, HandleTyped DEF Handles
    <3> QED BY <1>1, <3>1, StreamSends
  <2>2. \A i \in 1..Len(bs) : bs[i].kind \in {"Datablock", "EOS"}
    BY <1>1, <2>1 DEF SendsOf, AddsData, EOS
  <2>3. \A i \in 1..Len(bs) : bs[i].kind \notin StreamKinds \cup {"EOF", "Error"}
    BY <2>2 DEF StreamKinds
  <2> QED BY <1>0, <1>1, <2>3, NoHeaders DEF StreamCall
<1>2. CASE UNCHANGED wvars
  BY <1>0, <1>2, NothingSent DEF wvars
<1>3. CASE AddKeyPlain \/ (\E q \in PubKeys : AddKeyEncrypted(q)) \/ AddError \/ CloseWriter
  <2>1. adds' = adds
    BY <1>3 DEF AddKeyPlain, AddKeyEncrypted, AddError, CloseWriter
  <2>2. ASSUME NEW b \in Blocks, Aside(b) PROVE \E t \in Seq(Blocks) : NextHeaders(t)
    <3>1. << b >> \in Seq(Blocks) /\ \A i \in 1..Len(<< b >>) : << b >>[i] = b
      OBVIOUS
    <3>2. b.kind \notin StreamKinds /\ (b.kind = "EOF" => closes' # << >>) /\ (closes # << >> => closes' # << >>)
      BY <2>2 DEF Aside, KeyKinds, StreamKinds
    <3>3. (b.kind = "Error" => errors' > 0) /\ (errors > 0 => errors' > 0)
      BY <1>0, <2>2, WriterAssumption DEF Aside, KeyKinds, TypeOK
    <3> QED BY <1>0, <2>1, <2>2, <3>1, <3>2, <3>3, NoHeaders DEF Aside
  <2>3. CASE wire' = wire /\ werr' /\ UNCHANGED <<handles, nonce, errors, closes>>
    BY <1>0, <2>1, <2>3, NothingSent
  <2> QED BY <1>0, <1>3, <2>2, <2>3, AsideCalls
<1>4. CASE AddUnencryptedStream \/ AddEncryptedStream
  <2>1. adds' = adds + 1
    BY <1>4 DEF AddUnencryptedStream, AddEncryptedStream
  <2> QED BY <1>0, <1>4, <2>1, NewStreamCalls, OneHeader
<1>5. ASSUME NEW s \in Opened, NEW c \in Chunks, WritePlain(s, c) \/ WriteEncrypted(s, c)
      PROVE  \E t \in Seq(Blocks) : NextHeaders(t)
  <2>1. adds' = adds
    BY <1>5 DEF WritePlain, WriteEncrypted
  <2> QED BY <1>0, <1>1, <1>5, <2>1, PlainWrite, EncryptedWrite
<1>6. ASSUME NEW s \in Opened, ClosePlain(s) \/ CloseEncrypted(s)
      PROVE  \E t \in Seq(Blocks) : NextHeaders(t)
  <2>1. adds' = adds
    BY <1>6 DEF ClosePlain, CloseEncrypted
  <2>2. CASE UNCHANGED <<wire, werr, nonce, handles, errors, closes>>
    BY <1>0, <2>1, <2>2, NothingSent
  <2> QED BY <1>0, <1>1, <1>6, <2>1, <2>2, PlainClose, EncryptedClose
<1> QED BY <1>2, <1>3, <1>4, <1>5, <1>6 DEF Next

\* A caller who keeps the contract has the end of the output behind the streams; it
\* was asked for, and so was every error message.
EndsLast ==
  \A e \in DOMAIN wire : wire[e].kind = "EOF" =>
    closes # << >> /\ \A h \in DOMAIN wire : wire[h].kind \in StreamKinds => h < e

ErrorsTold == \A e \in DOMAIN wire : wire[e].kind = "Error" => errors > 0

LEMMA SendsEndsLast ==
  ASSUME Disciplined, TypeOK, EndsLast, NEW t \in Seq(Blocks), NextHeaders(t)
  PROVE  EndsLast'
<1>1. /\ Len(wire) \in Nat /\ DOMAIN wire = 1..Len(wire)
      /\ Len(t) \in Nat /\ Len(wire') = Len(wire) + Len(t) /\ DOMAIN wire' = 1..Len(wire')
      /\ \A i \in 1..Len(wire) : wire'[i] = wire[i]
      /\ \A i \in 1..Len(t) : wire'[Len(wire) + i] = t[i]
  BY WireGrows DEF TypeOK, NextHeaders
<1>2. ASSUME NEW i \in DOMAIN wire', i \notin DOMAIN wire
      PROVE  \E k \in 1..Len(t) : wire'[i] = t[k] /\ i = Len(wire) + k
  <2>1. PICK k : k = i - Len(wire)
    OBVIOUS
  <2>2. k \in 1..Len(t) /\ i = Len(wire) + k
    BY <1>1, <1>2, <2>1
  <2> QED BY <1>1, <2>2
<1>3. ASSUME NEW k \in 1..Len(t), t[k].kind \in StreamKinds
      PROVE  Len(t) = 1 /\ closes = << >>
  BY <1>3 DEF NextHeaders, HeaderAlone, MayAdd, StreamKinds
<1>4. ASSUME NEW e \in DOMAIN wire', wire'[e].kind = "EOF"
      PROVE  closes' # << >> /\ \A h \in DOMAIN wire' : wire'[h].kind \in StreamKinds => h < e
  <2>1. CASE e \in DOMAIN wire
    <3>1. wire[e].kind = "EOF" /\ closes # << >> /\ closes' # << >>
      BY <1>1, <1>4, <2>1 DEF EndsLast, NextHeaders
    <3>2. ASSUME NEW h \in DOMAIN wire', wire'[h].kind \in StreamKinds PROVE h < e
      <4>1. h \in DOMAIN wire
        BY <1>2, <1>3, <3>1, <3>2
      <4> QED BY <1>1, <2>1, <3>1, <3>2, <4>1 DEF EndsLast
    <3> QED BY <3>1, <3>2
  <2>2. CASE e \notin DOMAIN wire
    <3>1. PICK k \in 1..Len(t) : wire'[e] = t[k] /\ e = Len(wire) + k
      BY <1>2, <2>2
    <3>2. closes' # << >>
      BY <1>4, <3>1 DEF NextHeaders
    <3>3. ASSUME NEW h \in DOMAIN wire', wire'[h].kind \in StreamKinds PROVE h < e
      <4>1. h \in DOMAIN wire
        <5>1. SUFFICES ASSUME h \notin DOMAIN wire PROVE FALSE
          OBVIOUS
        <5>2. PICK j \in 1..Len(t) : wire'[h] = t[j]
          BY <1>2, <5>1
        <5>3. Len(t) = 1
          BY <1>3, <3>3, <5>2
        <5>4. j = k
          BY <5>3
        <5> QED BY <1>4, <3>1, <3>3, <5>2, <5>4 DEF StreamKinds
      <4> QED BY <1>1, <3>1, <4>1
    <3> QED BY <3>2, <3>3
  <2> QED BY <2>1, <2>2
<1> QED BY <1>4 DEF EndsLast

LEMMA SendsErrorsTold ==
  ASSUME TypeOK, ErrorsTold, NEW t \in Seq(Blocks), NextHeaders(t)
  PROVE  ErrorsTold'
<1>1. /\ Len(wire) \in Nat /\ DOMAIN wire = 1..Len(wire)
      /\ Len(t) \in Nat /\ Len(wire') = Len(wire) + Len(t) /\ DOMAIN wire' = 1..Len(wire')
      /\ \A i \in 1..Len(wire) : wire'[i] = wire[i]
      /\ \A i \in 1..Len(t) : wire'[Len(wire) + i] = t[i]
  BY WireGrows DEF TypeOK, NextHeaders
<1>2. ASSUME NEW e \in DOMAIN wire', wire'[e].kind = "Error" PROVE errors' > 0
  <2>1. CASE e \in DOMAIN wire
    BY <1>1, <1>2, <2>1 DEF ErrorsTold, NextHeaders
  <2>2. CASE e \notin DOMAIN wire
    <3>1. PICK k : k = e - Len(wire)
      OBVIOUS
    <3>2. k \in 1..Len(t) /\ wire'[e] = t[k]
      BY <1>1, <2>2, <3>1
    <3> QED BY <1>2, <3>2 DEF NextHeaders
  <2> QED BY <2>1, <2>2
<1> QED BY <1>2 DEF ErrorsTold

\* A disciplined caller adds no stream after an error message.
ErrorsLast ==
  \A e, h \in DOMAIN wire : wire[e].kind = "Error" /\ wire[h].kind \in StreamKinds => h < e

LEMMA SendsErrorsLast ==
  ASSUME Disciplined, TypeOK, ErrorsTold, ErrorsLast, NEW t \in Seq(Blocks), NextHeaders(t)
  PROVE  ErrorsLast'
<1>1. /\ Len(wire) \in Nat /\ DOMAIN wire = 1..Len(wire)
      /\ Len(t) \in Nat /\ Len(wire') = Len(wire) + Len(t) /\ DOMAIN wire' = 1..Len(wire')
      /\ \A i \in 1..Len(wire) : wire'[i] = wire[i]
      /\ \A i \in 1..Len(t) : wire'[Len(wire) + i] = t[i]
  BY WireGrows DEF TypeOK, NextHeaders
<1>2. ASSUME NEW i \in DOMAIN wire', i \notin DOMAIN wire
      PROVE  \E k \in 1..Len(t) : wire'[i] = t[k] /\ i = Len(wire) + k
  <2>1. PICK k : k = i - Len(wire)
    OBVIOUS
  <2>2. k \in 1..Len(t) /\ i = Len(wire) + k
    BY <1>1, <1>2, <2>1
  <2> QED BY <1>1, <2>2
<1>3. ASSUME NEW k \in 1..Len(t), t[k].kind \in StreamKinds
      PROVE  Len(t) = 1 /\ errors = 0
  BY <1>3 DEF NextHeaders, HeaderAlone, MayAdd, StreamKinds
<1>4. ASSUME NEW e \in DOMAIN wire', NEW h \in DOMAIN wire', wire'[e].kind = "Error", wire'[h].kind \in StreamKinds
      PROVE  h < e
  <2>1. CASE h \in DOMAIN wire /\ e \in DOMAIN wire
    BY <1>1, <1>4, <2>1 DEF ErrorsLast
  <2>2. CASE h \in DOMAIN wire /\ e \notin DOMAIN wire
    BY <1>1, <1>2, <2>2
  <2>3. CASE h \notin DOMAIN wire
    <3>1. PICK j \in 1..Len(t) : wire'[h] = t[j] /\ h = Len(wire) + j
      BY <1>2, <2>3
    <3>2. Len(t) = 1 /\ errors = 0
      BY <1>3, <1>4, <3>1
    <3>3. e \in DOMAIN wire => FALSE
      BY <1>1, <1>4, <3>2 DEF ErrorsTold
    <3>4. PICK k \in 1..Len(t) : wire'[e] = t[k]
      BY <1>2, <3>3
    <3>5. j = k
      BY <3>2
    <3> QED BY <1>4, <3>1, <3>4, <3>5 DEF StreamKinds
  <2> QED BY <2>1, <2>2, <2>3
<1> QED BY <1>4 DEF ErrorsLast

=============================================================================
