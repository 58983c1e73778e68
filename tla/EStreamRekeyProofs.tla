------------------------- MODULE EStreamRekeyProofs -------------------------
(***************************************************************************)
(* Theorems about estream.ReplaceKeys, for every value of the constants: a  *)
(* stream is written, copied with other keys and the copy is read.  Its     *)
(* Reader is one at the end of a pipe that the original went through, so    *)
(* that what EStreamPipeProofs shows of a Reader holds of this one.         *)
(***************************************************************************)
EXTENDS EStreamRekey, SequenceTheorems, TLAPS

----------------------------------------------------------------------------
(* The copying.                                                             *)

Ends == {"EOF", "Error"}

\* Block b of the copy is block i of the original, or has the same stream key; if
\* it is encrypted it is so for what ReplaceFn answered.
SameBlock(b, w) == b = w \/ (b.kind \in KeyKinds /\ w.kind \in KeyKinds /\ b.key = w.key)
BlockCopied(b, i) ==
  /\ SameBlock(b, wire[i]) /\ wire[i].kind # "Partial"
  /\ b.kind = "EncryptedKey" => i \in DOMAIN asked /\ asked[i].pub = b.pub
  /\ b.kind = "PlainKey" => wire[i].kind = "PlainKey" /\ (i \in DOMAIN asked => asked[i].pub = Nil)

\* The first n blocks are copied, and the end of the original is not before them.
Copied(n) ==
  /\ n <= Len(wire) /\ n <= Len(out)
  /\ \A i \in 1..n : BlockCopied(out[i], i)
  /\ \A i \in 1..(n - 1) : wire[i].kind \notin Ends

\* Inductive invariant: what has been copied is a copy of the beginning of the
\* original; where the copying stopped a part of one more block may be left; and
\* it returns nil only with the last block of the original.
CopyInv ==
  /\ out \in Seq(W!Blocks) /\ cpos \in 1..(Len(wire) + 1)
  /\ DOMAIN asked \subseteq 1..(cpos - 1)
  /\ cret = "running" => /\ Len(out) = cpos - 1 /\ Copied(Len(out))
                         /\ \A i \in 1..Len(out) : wire[i].kind \notin Ends
  /\ \E n \in 0..Len(out) :
       Copied(n) /\ Len(out) <= n + 1 /\ \A i \in (n + 1)..Len(out) : out[i].kind = "Partial"
  /\ cret = "nil" => out # << >> /\ Copied(Len(out)) /\ out[Len(out)].kind \in Ends

\* What has reached w when ReplaceKeys returns an error.
LEMMA FlushedIs ==
  ASSUME NEW o \in Seq(W!Blocks), NEW s \in C!Flushed(o)
  PROVE  /\ s \in Seq(W!Blocks)
         /\ \E n \in 0..Len(o) : /\ n <= Len(s) /\ Len(s) <= n + 1 /\ \A i \in 1..n : s[i] = o[i]
                                 /\ \A i \in (n + 1)..Len(s) : s[i].kind = "Partial"
<1>1. PICK n \in 0..Len(o) :
        \/ s = SubSeq(o, 1, n)
        \/ \E c \in C!CutsOf(o[n + 1]) : s = Append(SubSeq(o, 1, n), C!Partial(c))
  BY DEF C!Flushed
<1>2. PICK q \in Seq(W!Blocks) : q = SubSeq(o, 1, n) /\ Len(q) = n /\ \A i \in 1..n : q[i] = o[i]
  <2>1. SubSeq(o, 1, n) \in Seq(W!Blocks) /\ Len(SubSeq(o, 1, n)) = n
    OBVIOUS
  <2>2. \A i \in 1..n : SubSeq(o, 1, n)[i] = o[i]
    OBVIOUS
  <2> QED BY <2>1, <2>2
<1>3. CASE s = q
  BY <1>2, <1>3
<1>4. ASSUME NEW c \in C!CutsOf(o[n + 1]), s = Append(q, C!Partial(c))
      PROVE  /\ s \in Seq(W!Blocks) /\ Len(s) = n + 1
             /\ \A i \in 1..n : s[i] = o[i]
             /\ s[n + 1].kind = "Partial"
  <2>1. C!Partial(c) \in W!Blocks /\ C!Partial(c).kind = "Partial"
    BY <1>4 DEF C!CutsOf, C!Cuts, C!Partial, W!Blocks, W!Cuts
  <2> HIDE DEF C!Partial
  <2> QED BY <1>2, <1>4, <2>1
<1>5. CASE \E c \in C!CutsOf(o[n + 1]) : s = Append(q, C!Partial(c))
  <2>1. PICK c \in C!CutsOf(o[n + 1]) : s = Append(q, C!Partial(c))
    BY <1>5
  <2>2. /\ s \in Seq(W!Blocks) /\ Len(s) = n + 1 /\ n \in Nat
        /\ \A i \in 1..n : s[i] = o[i]
        /\ s[n + 1].kind = "Partial"
    BY <1>4, <2>1
  <2> QED BY <2>2
<1> QED BY <1>1, <1>2, <1>3, <1>5

\* What a round of the loop does with the copy o.
Goes(o)    == out' = o /\ cret' = "running" /\ wire[cpos].kind \notin Ends
Returns(o) == out' = o /\ cret' = "nil" /\ wire[cpos].kind \in Ends
Stops(o)   == out' \in C!Flushed(o) /\ cret' \notin {"running", "nil"}
Asks(x) ==
  asked' = [i \in DOMAIN asked \cup {cpos} |-> IF i = cpos THEN x ELSE asked[i]]
CopyMoves(n) ==
  \/ Stops(out)
  \/ \E b \in W!Blocks : /\ BlockCopied(b, n)'
                         /\ Goes(Append(out, b)) \/ Returns(Append(out, b)) \/ Stops(Append(out, b))

\* ReplaceFn is asked for the block at hand only.
LEMMA AskedStays ==
  ASSUME asked' = asked \/ \E x : Asks(x), wire' = wire, NEW b, NEW i, i # cpos
  PROVE  BlockCopied(b, i) => BlockCopied(b, i)'
BY DEF Asks, BlockCopied

\* Every block that is copied, whatever ReplaceFn answers and wherever w fails.
LEMMA CopyBlockMoves ==
  ASSUME wire \in Seq(W!Blocks), cpos \in Nat \ {0}, wire' = wire, DOMAIN asked \subseteq 1..(cpos - 1), C!CopyBlock,
         NEW n, n = cpos
  PROVE  CopyMoves(n) /\ (asked' = asked \/ \E x : Asks(x))
<1>1. PICK w \in W!Blocks : w = wire[cpos] /\ w = C!Input
  BY DEF C!CopyBlock, C!HasInput, C!Input
<1>2. w.kind # "Partial" /\ cret = "running"
  BY <1>1 DEF C!CopyBlock, C!HasInput
<1>3. cpos \notin DOMAIN asked
  OBVIOUS
<1>4. \A b : C!WriteBlock(b) /\ w.kind \notin Ends => Goes(Append(out, b)) \/ Stops(Append(out, b))
  BY <1>1, <1>2 DEF C!WriteBlock, C!Fails, Goes, Stops
<1>5. \A b : C!WriteLast(b) /\ w.kind \in Ends => Returns(Append(out, b)) \/ Stops(Append(out, b))
  BY <1>1, <1>2 DEF C!WriteLast, C!Succeeds, C!Fails, Returns, Stops
<1>6. \A how \in {"write", "refused", "panic", "message"} : \A o : C!Fails(how, o) => Stops(o)
  BY DEF C!Fails, Stops
<1>7. \A a : C!Ask(a) => Asks([keep |-> C!KeepAsIs(a), pub |-> a.pub])
  BY DEF C!Ask, Asks
<1>8. CASE w.kind = "EncryptedKey"
  <2>1. w.key \in 1..MaxKeys /\ w.pub \in PubKeys /\ w.kind \notin Ends
    BY <1>8 DEF W!Blocks, W!VersionBlock, W!EOFBlock, W!ErrorBlock, W!Skippable, Ends
  <2>2. PICK a \in C!Answers : C!ReplaceEncryptedKey(w, a)
    BY <1>1, <1>8 DEF C!CopyBlock, C!KeyKinds
  <2>3. CASE C!KeepAsIs(a) /\ C!Ask(a) /\ (C!Fails("refused", Append(out, w)) \/ C!Fails("write", Append(out, w)))
    <3>1. Asks([keep |-> C!KeepAsIs(a), pub |-> a.pub]) /\ a.pub = w.pub
      BY <1>7, <2>2, <2>3 DEF C!ReplaceEncryptedKey, C!Sensible, C!KeepAsIs
    <3>2. BlockCopied(w, n)'
      BY <1>1, <1>2, <1>8, <3>1 DEF Asks, BlockCopied, SameBlock
    <3> QED BY <1>6, <2>3, <3>1, <3>2 DEF CopyMoves
  <2>4. CASE asked' = asked /\ (C!Fails("refused", out) \/ C!Fails("panic", out))
    BY <1>6, <2>4 DEF CopyMoves
  <2>5. CASE a.pub # Nil /\ C!WriteBlock(C!Rekeyed(w, a)) /\ C!Ask(a)
    <3>1. PICK b : b = C!Rekeyed(w, a)
      OBVIOUS
    <3>2. b.kind = "EncryptedKey" /\ b.pub = a.pub /\ b.key = w.key /\ b \in W!Blocks
      BY <2>1, <2>5, <3>1 DEF C!Rekeyed, C!EncryptedKey, C!Answers, W!Blocks
    <3>3. Asks([keep |-> C!KeepAsIs(a), pub |-> a.pub])
      BY <1>7, <2>5
    <3>4. BlockCopied(b, n)'
      BY <1>1, <1>2, <1>8, <3>2, <3>3 DEF Asks, BlockCopied, SameBlock, KeyKinds
    <3> QED BY <1>4, <2>1, <2>5, <3>1, <3>2, <3>3, <3>4 DEF CopyMoves
  <2> QED BY <2>2, <2>3, <2>4, <2>5 DEF C!ReplaceEncryptedKey
<1>9. CASE w.kind = "PlainKey"
  <2>1. w.key \in 1..MaxKeys /\ w.kind \notin Ends
    BY <1>9 DEF W!Blocks, W!VersionBlock, W!EOFBlock, W!ErrorBlock, W!Skippable, Ends
  <2>2. C!ReplacePlainKey(w)
    BY <1>1, <1>9 DEF C!CopyBlock, C!KeyKinds
  <2>3. CASE C!WriteBlock(w) /\ asked' = asked
    <3>1. BlockCopied(w, n)'
      BY <1>1, <1>2, <1>3, <1>9, <2>3 DEF BlockCopied, SameBlock
    <3> QED BY <1>4, <2>1, <2>3, <3>1 DEF CopyMoves
  <2>4. ASSUME NEW q \in PubKeys \cup {Nil}, C!Ask([priv |-> Nil, pub |-> q, same |-> FALSE]),
               \/ C!WriteBlock(IF q = Nil THEN w ELSE C!EncryptedKey(q, w.key))
               \/ q # Nil /\ C!Fails("refused", out)
        PROVE  CopyMoves(n) /\ \E x : Asks(x)
    <3>1. PICK x : Asks(x) /\ x.pub = q
      <4>1. PICK a : a = [priv |-> Nil, pub |-> q, same |-> FALSE]
        OBVIOUS
      <4>2. Asks([keep |-> C!KeepAsIs(a), pub |-> a.pub]) /\ a.pub = q
        BY <1>7, <2>4, <4>1
      <4> HIDE DEF Asks
      <4>3. [keep |-> C!KeepAsIs(a), pub |-> a.pub].pub = q
        BY <4>2
      <4> QED BY <4>2, <4>3
    <3>2. CASE C!Fails("refused", out)
      BY <1>6, <3>1, <3>2 DEF CopyMoves
    <3>3. CASE C!WriteBlock(IF q = Nil THEN w ELSE C!EncryptedKey(q, w.key))
      <4>1. PICK b : b = IF q = Nil THEN w ELSE C!EncryptedKey(q, w.key)
        OBVIOUS
      <4>2. /\ b \in W!Blocks /\ b.key = w.key
            /\ IF q = Nil THEN b = w ELSE b.kind = "EncryptedKey" /\ b.pub = q
        BY <2>1, <4>1 DEF C!EncryptedKey, W!Blocks
      <4>3. BlockCopied(b, n)'
        BY <1>1, <1>2, <1>9, <3>1, <4>2 DEF Asks, BlockCopied, SameBlock, KeyKinds
      <4> QED BY <1>4, <2>1, <3>1, <3>3, <4>1, <4>2, <4>3 DEF CopyMoves
    <3> QED BY <2>4, <3>2, <3>3
  <2> QED BY <2>2, <2>3, <2>4 DEF C!ReplacePlainKey
<1>10. CASE w.kind \notin {"EncryptedKey", "PlainKey"}
  <2>1. /\ asked' = asked
        /\ \/ C!WriteBlock(w) /\ w.kind \notin Ends
           \/ C!WriteLast(w) /\ w.kind \in Ends
           \/ C!Fails("message", out)
    <3>1. PICK k : k = w.kind /\ k = C!Input.kind
      BY <1>1
    <3>2. CASE k = "EOF"
      BY <1>1, <3>1, <3>2 DEF C!CopyBlock, C!KeyKinds, Ends
    <3>3. CASE k = "Error"
      BY <1>1, <3>1, <3>3 DEF C!CopyBlock, C!KeyKinds, Ends
    <3>4. CASE k \notin {"EOF", "Error"}
      BY <1>1, <1>10, <3>1, <3>4 DEF C!CopyBlock, C!KeyKinds, Ends
    <3> QED BY <3>2, <3>3, <3>4
  <2>2. BlockCopied(w, n)'
    BY <1>1, <1>2, <1>10 DEF BlockCopied, SameBlock
  <2> QED BY <1>4, <1>5, <1>6, <2>1, <2>2 DEF CopyMoves
<1> QED BY <1>8, <1>9, <1>10

\* A copy that the copying is done with, or goes on with.
LEMMA CopyStops ==
  ASSUME wire \in Seq(W!Blocks), wire' = wire, NEW o \in Seq(W!Blocks), Len(o) <= Len(wire),
         \A i \in 1..Len(o) : BlockCopied(o[i], i)', \A i \in 1..(Len(o) - 1) : wire[i].kind \notin Ends,
         Stops(o), cpos' \in 1..(Len(wire) + 1), DOMAIN asked' \subseteq 1..(cpos' - 1)
  PROVE  CopyInv'
<1>1. PICK q : q = out'
  OBVIOUS
<1>2. /\ q \in Seq(W!Blocks)
      /\ \E n \in 0..Len(o) : /\ n <= Len(q) /\ Len(q) <= n + 1 /\ \A i \in 1..n : q[i] = o[i]
                              /\ \A i \in (n + 1)..Len(q) : q[i].kind = "Partial"
  BY <1>1, FlushedIs DEF Stops
<1>3. PICK n \in 0..Len(o) : /\ n <= Len(q) /\ Len(q) <= n + 1 /\ \A i \in 1..n : q[i] = o[i]
                             /\ \A i \in (n + 1)..Len(q) : q[i].kind = "Partial"
  BY <1>2
<1>4. Len(q) \in Nat /\ Len(o) \in Nat /\ Len(wire) \in Nat
  BY <1>2
<1>5. Copied(n)'
  <2>1. \A i \in 1..n : i \in 1..Len(o) /\ out'[i] = o[i]
    BY <1>1, <1>3, <1>4
  <2>2. \A i \in 1..n : BlockCopied(out[i], i)'
    BY <2>1
  <2>3. \A i \in 1..(n - 1) : wire'[i].kind \notin Ends
    BY <1>3, <1>4
  <2> QED BY <1>1, <1>3, <1>4, <2>2, <2>3 DEF Copied
<1>6. cret' # "running" /\ cret' # "nil"
  BY DEF Stops
<1>7. \E m \in 0..Len(out') :
        Copied(m)' /\ Len(out') <= m + 1 /\ \A i \in (m + 1)..Len(out') : out'[i].kind = "Partial"
  <2>1. n \in 0..Len(out')
    BY <1>1, <1>3, <1>4
  <2> QED BY <1>1, <1>3, <1>5, <2>1
<1> QED BY <1>1, <1>2, <1>6, <1>7 DEF CopyInv

LEMMA CopyGoes ==
  ASSUME wire \in Seq(W!Blocks), wire' = wire, NEW o \in Seq(W!Blocks), NEW n, n = cpos,
         n \in 1..Len(wire), Len(o) = n,
         \A i \in 1..n : BlockCopied(o[i], i)', \A i \in 1..(n - 1) : wire[i].kind \notin Ends,
         Goes(o) \/ Returns(o), cpos' = n + 1, DOMAIN asked' \subseteq 1..n
  PROVE  CopyInv'
<1>1. out' = o /\ Len(out') = n /\ out' \in Seq(W!Blocks) /\ Len(wire) \in Nat
  BY DEF Goes, Returns
<1>2. \A i \in 1..n : BlockCopied(out[i], i)'
  BY <1>1
<1>3. Copied(n)'
  BY <1>1, <1>2 DEF Copied
<1>4. cpos' \in 1..(Len(wire') + 1) /\ cpos' - 1 = n
  BY <1>1
<1>5. CASE Goes(o)
  <2>1. cret' = "running" /\ wire[n].kind \notin Ends
    BY <1>5 DEF Goes
  <2>2. \A i \in 1..n : wire'[i].kind \notin Ends
    BY <2>1
  <2> QED BY <1>1, <1>3, <1>4, <2>1, <2>2 DEF CopyInv
<1>6. CASE Returns(o)
  <2>1. cret' = "nil" /\ wire[n].kind \in Ends
    BY <1>6 DEF Returns
  <2>2. SameBlock(o[n], wire[n])
    <3>1. BlockCopied(o[n], n)'
      OBVIOUS
    <3>2. SameBlock(o[n], wire[n])'
      BY <3>1 DEF BlockCopied
    <3> QED BY <3>2 DEF SameBlock
  <2>3. out'[n].kind \in Ends
    BY <1>1, <2>1, <2>2 DEF SameBlock, KeyKinds, Ends
  <2> QED BY <1>1, <1>3, <1>4, <2>1, <2>3 DEF CopyInv
<1> QED BY <1>5, <1>6

LEMMA CopyGoesOn ==
  ASSUME wire \in Seq(W!Blocks), CopyInv, C!Next, wire' = wire
  PROVE  CopyInv'
<1>0. Len(wire) \in Nat /\ out \in Seq(W!Blocks) /\ Len(out) \in Nat /\ DOMAIN asked \subseteq 1..(cpos - 1)
  BY DEF CopyInv
<1>1. cret = "running" /\ cpos \in 1..(Len(wire) + 1) /\ Len(out) = cpos - 1
  BY DEF C!Next, C!CopyBlock, C!CopyAtEnd, CopyInv
<1>2. PICK n : n = cpos
  OBVIOUS
<1>3. /\ \A i \in 1..Len(out) : BlockCopied(out[i], i) /\ i # cpos
      /\ \A i \in 1..Len(out) : wire[i].kind \notin Ends
  BY <1>0, <1>1 DEF CopyInv, Copied
<1>4. CASE C!CopyBlock
  <2>1. CopyMoves(n) /\ (asked' = asked \/ \E x : Asks(x))
    BY <1>0, <1>1, <1>2, <1>4, CopyBlockMoves
  <2>2. cpos' = n + 1 /\ n \in 1..Len(wire)
    BY <1>0, <1>1, <1>2, <1>4 DEF C!CopyBlock, C!HasInput
  <2>3. DOMAIN asked' \subseteq 1..n
    BY <1>0, <1>1, <1>2, <2>1 DEF Asks
  <2>4. PICK old : old = out
    OBVIOUS
  <2>5. \A i \in 1..Len(old) : BlockCopied(old[i], i)'
    BY <1>3, <2>1, <2>4, AskedStays
  <2>6. CASE Stops(old)
    <3>1. Len(old) <= Len(wire) /\ \A i \in 1..(Len(old) - 1) : wire[i].kind \notin Ends
      BY <1>0, <1>1, <1>3, <2>4
    <3>2. cpos' \in 1..(Len(wire) + 1) /\ DOMAIN asked' \subseteq 1..(cpos' - 1)
      BY <1>0, <2>2, <2>3
    <3> QED BY <1>0, <2>4, <2>5, <2>6, <3>1, <3>2, CopyStops
  <2>7. ASSUME NEW b \in W!Blocks, BlockCopied(b, n)', NEW o, o = Append(old, b),
               Goes(o) \/ Returns(o) \/ Stops(o)
        PROVE  CopyInv'
    <3>1. o \in Seq(W!Blocks) /\ Len(o) = n /\ o[n] = b /\ \A i \in 1..Len(old) : o[i] = old[i]
      BY <1>0, <1>1, <1>2, <2>4, <2>7
    <3>2. \A i \in 1..n : i = n \/ i \in 1..Len(old)
      BY <1>0, <1>1, <1>2, <2>4
    <3>3. \A i \in 1..n : BlockCopied(o[i], i)'
      BY <2>5, <2>7, <3>1, <3>2
    <3>4. \A i \in 1..(n - 1) : wire[i].kind \notin Ends
      BY <1>1, <1>2, <1>3
    <3>5. CASE Stops(o)
      <4>1. cpos' \in 1..(Len(wire) + 1) /\ DOMAIN asked' \subseteq 1..(cpos' - 1)
        BY <1>0, <2>2, <2>3
      <4> QED BY <2>2, <3>1, <3>3, <3>4, <3>5, <4>1, CopyStops
    <3>6. CASE Goes(o) \/ Returns(o)
      BY <1>2, <2>2, <2>3, <3>1, <3>3, <3>4, <3>6, CopyGoes
    <3> QED BY <2>7, <3>5, <3>6
  <2>8. CASE ~Stops(old)
    <3>1. PICK b \in W!Blocks :
            BlockCopied(b, n)' /\ (Goes(Append(old, b)) \/ Returns(Append(old, b)) \/ Stops(Append(old, b)))
      BY <2>1, <2>4, <2>8 DEF CopyMoves
    <3> QED BY <2>7, <3>1
  <2> QED BY <2>6, <2>8
<1>5. CASE C!CopyAtEnd
  <2>1. cpos' = cpos /\ asked' = asked /\ Stops(out)
    BY <1>5 DEF C!CopyAtEnd, C!Fails, Stops
  <2>2. PICK old : old = out
    OBVIOUS
  <2>3. \A i \in 1..Len(old) : BlockCopied(old[i], i)'
    BY <1>3, <2>1, <2>2, AskedStays
  <2>4. Len(old) <= Len(wire) /\ \A i \in 1..(Len(old) - 1) : wire[i].kind \notin Ends
    BY <1>0, <1>1, <1>3, <2>2
  <2>5. cpos' \in 1..(Len(wire) + 1) /\ DOMAIN asked' \subseteq 1..(cpos' - 1)
    BY <1>0, <1>1, <2>1
  <2> QED BY <1>0, <2>1, <2>2, <2>3, <2>4, <2>5, CopyStops
<1> QED BY <1>4, <1>5 DEF C!Next

----------------------------------------------------------------------------
(* The keys that the Reader of the copy has.                                *)

\* The Reader has read key k, in the clear or as one who can open it.
KeyRead(k) ==
  \E j \in 1..(rpos - 1) : /\ out[j].kind \in KeyKinds /\ out[j].key = k
                           /\ out[j].kind = "EncryptedKey" => out[j].pub \in src.holds

\* Inductive invariant of the Reader: its key, and that of the Stream in the
\* caller's hands, is one it has read; before the first call it has none.
KeysRead ==
  /\ rpos \in Nat \ {0} /\ sets \in Nat /\ {"kind", "key"} \subseteq DOMAIN cur
  /\ rkey # NoKey => KeyRead(rkey)
  /\ cur.kind = "enc" => KeyRead(cur.key)
  /\ calls = 0 => rkey = NoKey /\ cur.kind = "none" /\ rpc \in {"new", "failed", "idle"}
  /\ calls \in Nat

\* A Stream keeps its kind and its key.
SameKey(c) == {"kind", "key"} \subseteq DOMAIN cur' /\ cur'.kind = c.kind /\ cur'.key = c.key

\* What a step of the Reader does about the keys: nothing, or it reads a key block,
\* or it comes to a stream.
TakesKey ==
  /\ rpc = "next" /\ rpos \in DOMAIN out /\ rpos' = rpos + 1
  /\ out[rpos].kind \in KeyKinds /\ rkey' = out[rpos].key
  /\ out[rpos].kind = "EncryptedKey" => out[rpos].pub \in src.holds
OpensStream ==
  /\ rpc = "next" /\ {"kind", "key"} \subseteq DOMAIN cur'
  /\ cur'.kind = "enc" => rkey # NoKey /\ cur'.key = rkey
KeyMoves ==
  /\ rpos' = rpos \/ (rpos' = rpos + 1 /\ rpos <= Len(out))
  /\ src' = src /\ sets' = sets
  /\ rkey' \in {rkey, NoKey} \/ (TakesKey /\ cur' = cur)
  /\ SameKey(cur) \/ OpensStream
  /\ calls' = calls \/ calls' = calls + 1
  /\ calls' = calls => rpc \in {"new", "next", "pass", "skip", "read"}
  /\ rpc = "new" => rkey' = rkey /\ cur' = cur /\ rpc' \in {"idle", "failed"}

LEMMA SourceKeepsKey ==
  ASSUME NEW c, NEW e, {"kind", "key"} \subseteq DOMAIN c, R!SourceReturns(c, e)
  PROVE  SameKey(c) /\ rpc' = "idle"
<1>1. \E r : cur' = [c EXCEPT !.dead = IF c.kind = "enc" THEN r ELSE @, !.done = (@ \/ r = "EOF")]
  BY DEF R!SourceReturns
<1>2. PICK r, d, n : cur' = [c EXCEPT !.dead = d, !.done = n]
  BY <1>1
<1>3. SameKey(c)
  BY <1>2 DEF SameKey
<1>4. rpc' = "idle"
  BY DEF R!SourceReturns, R!Return
<1> QED BY <1>3, <1>4

\* The calls, up to their first block, and NewReader.
LEMMA CallsMove ==
  ASSUME KeysRead, R!NextStream \/ R!Read \/ R!Skip \/ R!NewReader
  PROVE  KeyMoves
<1>0. {"kind", "key"} \subseteq DOMAIN cur /\ calls \in Nat /\ calls + 1 # calls
  BY DEF KeysRead
<1>1. CASE R!NextStream
  BY <1>0, <1>1 DEF R!NextStream, R!Calling, KeyMoves, SameKey
<1>2. CASE R!Read
  <2>1. cur' = cur \/ \E e : R!SourceReturns(cur, e)
    BY <1>2 DEF R!Read
  <2>2. SameKey(cur)
    BY <1>0, <2>1, SourceKeepsKey DEF SameKey
  <2> QED BY <1>0, <1>2, <2>2 DEF R!Read, R!Calling, KeyMoves
<1>3. CASE R!Skip
  <2>1. PICK x : cur' = [cur EXCEPT !.isEOF = x]
    BY <1>3 DEF R!Skip
  <2>2. SameKey(cur)
    BY <1>0, <2>1 DEF SameKey
  <2> QED BY <1>0, <1>3, <2>2 DEF R!Skip, R!Calling, KeyMoves
<1>4. CASE R!NewReader
  <2>1. /\ rpc = "new" /\ rpc' \in {"idle", "failed"}
        /\ rpos' = rpos \/ (rpos' = rpos + 1 /\ rpos <= Len(out))
        /\ rkey' = rkey /\ cur' = cur /\ src' = src /\ sets' = sets /\ calls' = calls
    BY <1>4 DEF R!NewReader, R!Return, R!HasBlock
  <2> QED BY <1>0, <2>1 DEF KeyMoves, SameKey
<1> QED BY <1>1, <1>2, <1>3, <1>4

\* NextStream at the next block, or at the end of the input.
LEMMA NextMoves ==
  ASSUME KeysRead, R!NextBlock \/ R!NextAtEnd
  PROVE  KeyMoves
<1>0. {"kind", "key"} \subseteq DOMAIN cur /\ rpos \in Nat \ {0}
  BY DEF KeysRead
<1>1. CASE R!NextAtEnd
  BY <1>0, <1>1 DEF R!NextAtEnd, KeyMoves, SameKey
<1>2. CASE R!NextBlock
  <2>1. /\ rpc = "next" /\ rpos' = rpos + 1 /\ src' = src /\ calls' = calls /\ sets' = sets
        /\ R!Block = out[rpos] /\ rpos <= Len(out)
    BY <1>2 DEF R!NextBlock, R!Block, R!HasBlock
  <2>2. PICK b : b = out[rpos]
    OBVIOUS
  <2>3. CASE b.kind = "PlainKey"
    <3>1. rkey' = b.key /\ cur' = cur
      BY <1>2, <2>1, <2>2, <2>3 DEF R!NextBlock, R!PlainKeyRead, R!KeyKinds, R!StreamKinds
    <3>2. TakesKey
      BY <1>0, <2>1, <2>2, <2>3, <3>1 DEF TakesKey, KeyKinds
    <3> QED BY <1>0, <2>1, <3>1, <3>2 DEF KeyMoves, SameKey
  <2>4. CASE b.kind = "EncryptedKey"
    <3>1. R!NextEncryptedKey(b) /\ cur' = cur
      BY <1>2, <2>1, <2>2, <2>4 DEF R!NextBlock
    <3>2. rkey' \in {rkey, NoKey} \/ (R!PrivateFor(b) = {b.pub} /\ rkey' = b.key)
      BY <3>1 DEF R!NextEncryptedKey, R!NoKey, NoKey
    <3>3. R!PrivateFor(b) = {b.pub} => b.pub \in src.holds
      BY DEF R!PrivateFor
    <3>4. CASE rkey' \in {rkey, NoKey}
      BY <1>0, <2>1, <3>1, <3>4 DEF KeyMoves, SameKey
    <3>5. CASE R!PrivateFor(b) = {b.pub} /\ rkey' = b.key
      <4>1. TakesKey
        BY <1>0, <2>1, <2>2, <2>4, <3>3, <3>5 DEF TakesKey, KeyKinds
      <4> QED BY <1>0, <2>1, <3>1, <4>1 DEF KeyMoves, SameKey
    <3> QED BY <3>2, <3>4, <3>5
  <2>5. CASE b.kind \notin {"PlainKey", "EncryptedKey"}
    <3>1. rkey' = rkey
      BY <1>2, <2>1, <2>2, <2>5 DEF R!NextBlock
    <3>2. \/ cur' = cur
          \/ \E kind, e : R!Deliver(b, kind, e) /\ (kind = "enc" => rkey # NoKey)
      BY <1>2, <2>1, <2>2, <2>5 DEF R!NextBlock, R!NoKey, NoKey
    <3>3. ASSUME NEW kind, NEW e, R!Deliver(b, kind, e), kind = "enc" => rkey # NoKey
          PROVE  OpensStream
      BY <2>1, <3>3 DEF R!Deliver, R!StreamOf, R!NoStream, OpensStream
    <3>4. SameKey(cur) \/ OpensStream
      BY <1>0, <3>2, <3>3 DEF SameKey
    <3> QED BY <2>1, <3>1, <3>4 DEF KeyMoves
  <2> QED BY <2>3, <2>4, <2>5
<1> QED BY <1>1, <1>2

\* skipDataBlocks and streamReader.Read.
LEMMA StreamMoves ==
  ASSUME KeysRead, R!SkipBlock \/ R!SkipAtEnd \/ R!ReadBlock \/ R!ReadAtEnd
  PROVE  KeyMoves
<1>0. {"kind", "key"} \subseteq DOMAIN cur /\ rpos \in Nat \ {0}
  BY DEF KeysRead
<1>1. ASSUME NEW e, R!SkipReturns(e) PROVE SameKey(cur)
  <2>1. cur' = cur \/ \E x : cur' = [cur EXCEPT !.done = x]
    BY <1>1 DEF R!SkipReturns
  <2> QED BY <1>0, <2>1 DEF SameKey
<1>2. /\ rpc \in {"skip", "pass", "read"} /\ (rpos' = rpos \/ (rpos' = rpos + 1 /\ rpos <= Len(out)))
      /\ src' = src /\ calls' = calls /\ sets' = sets /\ rkey' = rkey
  BY DEF R!SkipBlock, R!SkipAtEnd, R!ReadBlock, R!ReadAtEnd, R!HasBlock
<1>3. CASE R!SkipBlock \/ R!SkipAtEnd
  <2>1. cur' = cur \/ \E e : R!SkipReturns(e)
    BY <1>3 DEF R!SkipBlock, R!SkipAtEnd
  <2>2. SameKey(cur)
    BY <1>0, <1>1, <2>1 DEF SameKey
  <2> QED BY <1>2, <2>2 DEF KeyMoves
<1>4. ASSUME NEW p, R!ReadData(p) PROVE SameKey(cur)
  <2>1. PICK x : x = Append(cur.h, p)
    OBVIOUS
  <2>2. \/ cur' = [cur EXCEPT !.h = x]
        \/ cur' = [cur EXCEPT !.h = x, !.pend = <<p>>]
        \/ cur' = [cur EXCEPT !.h = x, !.pend = <<p>>, !.frag = cur.frag + 1]
        \/ cur' = [cur EXCEPT !.h = x, !.dead = "NotAuthentic"]
    BY <1>4, <2>1 DEF R!ReadData
  <2> QED BY <1>0, <2>2 DEF SameKey
<1>5. ASSUME NEW b, R!ReadEOS(b) PROVE SameKey(cur)
  <2>1. \E c, e : /\ {"kind", "key"} \subseteq DOMAIN c /\ c.kind = cur.kind /\ c.key = cur.key
                  /\ R!SourceReturns(c, e)
    <3>1. PICK c : c = [cur EXCEPT !.isEOF = TRUE]
      OBVIOUS
    <3>2. {"kind", "key"} \subseteq DOMAIN c /\ c.kind = cur.kind /\ c.key = cur.key
      BY <1>0, <3>1
    <3>3. R!SourceReturns(c, "EOF") \/ \E e : R!SourceReturns(cur, e)
      BY <1>5, <3>1 DEF R!ReadEOS
    <3> QED BY <1>0, <3>2, <3>3
  <2> QED BY <2>1, SourceKeepsKey DEF SameKey
<1>6. CASE R!ReadBlock \/ R!ReadAtEnd
  <2>1. \/ cur' = cur \/ \E p : R!ReadData(p)
        \/ \E b : R!ReadEOS(b) \/ \E e : R!SourceReturns(cur, e)
    BY <1>6 DEF R!ReadBlock, R!ReadAtEnd
  <2>2. SameKey(cur)
    BY <1>0, <1>4, <1>5, <2>1, SourceKeepsKey DEF SameKey
  <2> QED BY <1>2, <2>2 DEF KeyMoves
<1> QED BY <1>3, <1>6

\* A step that does not change the private keys.
LEMMA MovesKeepKeys ==
  ASSUME KeysRead, KeyMoves, out' = out
  PROVE  KeysRead'
<1>0. rpos \in Nat \ {0} /\ rpos' \in {rpos, rpos + 1} /\ src' = src
  BY DEF KeyMoves, KeysRead
<1>1. ASSUME NEW k, KeyRead(k) PROVE KeyRead(k)'
  <2>1. \A n \in Nat \ {0} : \A m \in {n, n + 1} : \A j \in 1..(n - 1) : j \in 1..(m - 1)
    OBVIOUS
  <2>2. PICK j \in 1..(rpos - 1) : /\ out[j].kind \in KeyKinds /\ out[j].key = k
                                   /\ out[j].kind = "EncryptedKey" => out[j].pub \in src.holds
    BY <1>1 DEF KeyRead
  <2>3. j \in 1..(rpos' - 1) /\ out' = out /\ src' = src
    BY <1>0, <2>1
  <2> QED BY <2>2, <2>3 DEF KeyRead
<1>2. rpos' \in Nat \ {0} /\ sets' \in Nat /\ calls' \in Nat /\ {"kind", "key"} \subseteq DOMAIN cur'
  BY DEF KeyMoves, KeysRead, SameKey, OpensStream
<1>3. ASSUME TakesKey, NEW k, k = out[rpos].key PROVE KeyRead(k)'
  <2>1. PICK j : j = rpos
    OBVIOUS
  <2>2. /\ j \in 1..(rpos' - 1) /\ out[j].kind \in KeyKinds /\ out[j].key = k
        /\ out[j].kind = "EncryptedKey" => out[j].pub \in src'.holds
    BY <1>0, <1>3, <2>1 DEF TakesKey
  <2> QED BY <2>2 DEF KeyRead
<1>4. rkey' # NoKey => KeyRead(rkey)'
  <2>1. CASE rkey' \in {rkey, NoKey}
    <3>1. PICK k : k = rkey'
      OBVIOUS
    <3>2. k # NoKey => KeyRead(k)'
      BY <1>1, <2>1, <3>1 DEF KeysRead
    <3> QED BY <3>1, <3>2 DEF KeyRead
  <2>2. CASE TakesKey /\ cur' = cur
    <3>1. PICK k : k = out[rpos].key
      OBVIOUS
    <3>2. KeyRead(k)'
      BY <1>3, <2>2, <3>1
    <3>3. rkey' = k
      BY <2>2, <3>1 DEF TakesKey
    <3> QED BY <3>2, <3>3 DEF KeyRead
  <2> QED BY <2>1, <2>2 DEF KeyMoves
<1>5. cur'.kind = "enc" => KeyRead(cur.key)'
  <2>1. PICK k : k = cur'.key
    OBVIOUS
  <2>2. cur'.kind = "enc" => KeyRead(k)
    BY <2>1 DEF KeyMoves, KeysRead, SameKey, OpensStream
  <2> QED BY <1>1, <2>1, <2>2 DEF KeyRead
<1>6. calls' = 0 => rkey' = NoKey /\ cur'.kind = "none" /\ rpc' \in {"new", "failed", "idle"}
  <2>1. ASSUME calls' = 0 PROVE calls = 0 /\ calls' = calls
    BY <2>1 DEF KeyMoves, KeysRead
  <2>2. ASSUME calls' = 0 PROVE rpc = "new"
    BY <2>1, <2>2 DEF KeyMoves, KeysRead
  <2> QED BY <2>1, <2>2 DEF KeyMoves, KeysRead
<1> QED BY <1>2, <1>4, <1>5, <1>6 DEF KeysRead

\* Every step of the Reader, who is given the private keys before the first call.
LEMMA ReaderKeepsKeys ==
  ASSUME KeysRead, ReaderStep
  PROVE  KeysRead' /\ (rpos' = rpos \/ (rpos' = rpos + 1 /\ rpos <= Len(out)))
<1>1. out' = out
  BY DEF ReaderStep, copy
<1>2. CASE R!Setters
  <2>1. sets' = sets + 1 /\ UNCHANGED <<rpos, rkey, rpc, cur, calls>>
    BY <1>2 DEF R!Setters, R!Configure, R!SetPrivateKey, R!PrivateKeyProvider, R!SkipEncrypted,
                R!ReturnNonDecryptable
  <2>2. sets' # sets /\ sets' \in Nat
    BY <2>1 DEF KeysRead
  <2>3. calls = 0
    BY <2>2 DEF ReaderStep
  <2> QED BY <2>1, <2>2, <2>3 DEF KeysRead
<1>3. CASE ~R!Setters
  <2>1. \/ R!NextStream \/ R!Read \/ R!Skip \/ R!NewReader \/ R!NextBlock \/ R!NextAtEnd
        \/ R!SkipBlock \/ R!SkipAtEnd \/ R!ReadBlock \/ R!ReadAtEnd
    BY <1>3 DEF ReaderStep, R!Next, R!Progress
  <2>2. KeyMoves
    BY <2>1, CallsMove, NextMoves, StreamMoves
  <2> QED BY <1>1, <2>2, MovesKeepKeys DEF KeyMoves
<1> QED BY <1>2, <1>3

----------------------------------------------------------------------------
(* What a careful Reader of a whole copy has been given, if it does not ask *)
(* to pass over what it cannot open.                                        *)

\* Every stream whose header was passed has been handed out, opened; and there is
\* no key only if none was passed.
Handed ==
  \A h \in 1..(rpos - 1) : out[h].kind \in StreamKinds /\ out[h].sid \in DOMAIN handles =>
    \E i \in 1..Len(got) : got[i].sid = out[h].sid /\ got[i].kind # "nokey"
NoKeyYet == rkey = NoKey => \A i \in 1..(rpos - 1) : out[i].kind \notin KeyKinds
Given ==
  /\ opt = [skip |-> FALSE, nondec |-> FALSE] /\ rpc # "pass"
  /\ ~R!Stopped \/ Arrived => Handed
  /\ ~R!Stopped => NoKeyYet

GotKept ==
  \A i \in 1..Len(got) :
    i \in 1..Len(got') /\ got'[i].sid = got[i].sid /\ got'[i].kind = got[i].kind
PassesNothing ==
  rpos' = rpos \/ (rpos' = rpos + 1 /\ out[rpos].kind \notin KeyKinds \cup StreamKinds)

\* What the caller has been handed is a sequence of records; what such a Reader
\* finds in a whole copy, and where (CertainFound, below, shows it).
EntriesAre == \E S : got \in Seq(S) /\ \A g \in S : {"sid", "kind", "data", "end"} \subseteq DOMAIN g
KeyedHeader(h) ==
  out[h].kind = "EncStream" /\ out[h].sid \in DOMAIN handles =>
    \E j \in 1..(h - 1) : out[j].kind \in KeyKinds
Finds ==
  /\ Careful /\ out' = out /\ handles' = handles /\ rpos \in Nat \ {0} /\ EntriesAre
  /\ \A h \in DOMAIN out : KeyedHeader(h) /\ (out[h].kind \in KeyKinds => out[h].key # NoKey)
  /\ rpc # "idle" \/ ~R!Stopped =>
       /\ rpos \in DOMAIN out /\ ~R!Drained /\ rerr = "nil" /\ ~R!Stopped
       /\ rpc \in {"skip", "read"} => got # <<>>
       /\ rpc = "read" => cur.kind \in {"plain", "enc"}
       /\ rpc = "idle" /\ cur.kind \in {"plain", "enc"} /\ ~cur.done => cur.dead = "nil" /\ ~cur.isEOF

LEMMA NothingPassed ==
  ASSUME rpos \in Nat \ {0}, out' = out, handles' = handles, Handed, NoKeyYet, GotKept, rkey' = rkey, PassesNothing
  PROVE  Handed' /\ NoKeyYet'
<1>1. \A h \in 1..(rpos' - 1) : h \in 1..(rpos - 1) \/ out[h].kind \notin KeyKinds \cup StreamKinds
  BY DEF PassesNothing
<1>2. Handed'
  <2>1. ASSUME NEW h \in 1..(rpos' - 1), out[h].kind \in StreamKinds, out[h].sid \in DOMAIN handles
        PROVE  \E i \in 1..Len(got') : got'[i].sid = out[h].sid /\ got'[i].kind # "nokey"
    <3>1. PICK i \in 1..Len(got) : got[i].sid = out[h].sid /\ got[i].kind # "nokey"
      BY <1>1, <2>1 DEF Handed
    <3> QED BY <3>1 DEF GotKept
  <2> QED BY <2>1 DEF Handed
<1>3. NoKeyYet'
  BY <1>1 DEF NoKeyYet
<1> QED BY <1>2, <1>3

\* The last entry changes, but not which stream it is of.
LEMMA LastKept ==
  ASSUME EntriesAre, got # <<>>, NEW body, NEW e,
         \/ got' = [R!Received(body) EXCEPT ![Len(got)].end = IF @ = "open" THEN e ELSE @]
         \/ got' = R!Received(body)
         \/ got' = R!Ended(e)
  PROVE  GotKept
<1>1. PICK S : got \in Seq(S) /\ \A g \in S : {"sid", "kind", "data", "end"} \subseteq DOMAIN g
  BY DEF EntriesAre
<1>2. PICK n : n = Len(got)
  OBVIOUS
<1>3. n \in DOMAIN got /\ DOMAIN got = 1..Len(got) /\ got[n] \in S
  BY <1>1, <1>2
<1>4. PICK d : d = got[n].data \o body
  OBVIOUS
<1>5. \/ got' = [[got EXCEPT ![n].data = d] EXCEPT ![n].end = IF @ = "open" THEN e ELSE @]
      \/ got' = [got EXCEPT ![n].data = d]
      \/ got' = [got EXCEPT ![n].end = IF @ = "open" THEN e ELSE @]
  BY <1>2, <1>4 DEF R!Received, R!Ended
<1>6. /\ DOMAIN got' = DOMAIN got
      /\ \A i \in DOMAIN got : i # n => got'[i] = got[i]
      /\ \/ got'[n] = [[got[n] EXCEPT !.data = d] EXCEPT !.end = IF @ = "open" THEN e ELSE @]
         \/ got'[n] = [got[n] EXCEPT !.data = d]
         \/ got'[n] = [got[n] EXCEPT !.end = IF @ = "open" THEN e ELSE @]
  BY <1>3, <1>5
<1>7. got'[n].sid = got[n].sid /\ got'[n].kind = got[n].kind
  <2>1. {"sid", "kind", "data", "end"} \subseteq DOMAIN got[n]
    BY <1>1, <1>3
  <2> QED BY <1>6, <2>1
<1>8. DOMAIN got' = 1..Len(got) /\ Len(got) \in Nat /\ got' = [i \in DOMAIN got' |-> got'[i]]
  BY <1>1, <1>3, <1>5, <1>6
<1>9. Len(got') = Len(got)
  BY <1>8
<1> QED BY <1>3, <1>6, <1>7, <1>9 DEF GotKept

\* What skipDataBlocks and streamReader.Read leave in the caller's hands.
LEMMA SkippedKept ==
  ASSUME Finds, rpc = "skip", NEW e, R!SkipReturns(e)
  PROVE  GotKept /\ R!Return("skip", e)
<1>1. EntriesAre /\ got # <<>>
  BY DEF Finds
<1>2. R!Return("skip", e) /\ got' = R!Ended(R!EndOf(e))
  BY DEF R!SkipReturns
<1>3. GotKept
  BY <1>1, <1>2, LastKept
<1> QED BY <1>2, <1>3

LEMMA SourceKept ==
  ASSUME Finds, rpc = "read", NEW c, NEW e, R!SourceReturns(c, e)
  PROVE  GotKept /\ \E r \in {e, "NotAuthentic"} : R!Return("read", r)
<1>1. EntriesAre /\ got # <<>>
  BY DEF Finds
<1>2. PICK opened : opened = (c.pend # <<>> /\ R!Opens(c.pend[1], TRUE))
  OBVIOUS
<1>3. PICK r : r = IF c.kind = "enc" /\ e = "EOF" /\ ~opened THEN "NotAuthentic" ELSE e
  OBVIOUS
<1>4. PICK body : body = IF c.kind = "enc" /\ e = "EOF" /\ opened THEN c.pend[1].body ELSE <<>>
  OBVIOUS
<1>5. got' = [R!Received(body) EXCEPT ![Len(got)].end = IF @ = "open" THEN r ELSE @] /\ R!Return("read", r)
  BY <1>2, <1>3, <1>4 DEF R!SourceReturns
<1>6. r \in {e, "NotAuthentic"}
  BY <1>3
<1> QED BY <1>1, <1>5, <1>6, LastKept

\* Every step but that of NextStream at a block.
Elsewhere ==
  /\ opt' = opt /\ rkey' = rkey /\ rpc' # "pass" /\ GotKept
  /\ PassesNothing \/ (R!Stopped' /\ ~Arrived')

LEMMA GotSame == got' = got => GotKept
BY DEF GotKept

\* A block of an unexpected kind stops the Reader.
LEMMA TypeStops ==
  ASSUME NEW call, R!Return(call, "BlockType")
  PROVE  R!Stopped' /\ ~Arrived' /\ rpc' # "pass"
<1>1. ret' = [call |-> call, err |-> "BlockType"] /\ rpc' = "idle"
  BY DEF R!Return
<1> QED BY <1>1 DEF R!Stopped, R!Failures, Arrived

LEMMA CallsElsewhere ==
  ASSUME Finds, rpc # "pass", R!NewReader \/ R!NextStream \/ R!Skip \/ R!Read
  PROVE  Elsewhere
<1>1. CASE R!NewReader
  <2>1. rpc = "new" /\ ~R!Drained
    <3>1. rpc = "new"
      BY <1>1 DEF R!NewReader
    <3> QED BY <3>1 DEF Finds
  <2>2. rpos' = rpos + 1 /\ out[rpos].kind = "Version" /\ R!Return("new", "nil")
        /\ UNCHANGED <<opt, rkey, got>>
    BY <1>1, <2>1 DEF R!NewReader, R!Block
  <2> QED BY <2>2, GotSame DEF Elsewhere, PassesNothing, R!Return, KeyKinds, StreamKinds
<1>2. CASE R!NextStream
  <2>1. UNCHANGED <<opt, rkey, got, rpos>> /\ rpc' # "pass"
    BY <1>2 DEF R!NextStream, R!Return
  <2> QED BY <2>1, GotSame DEF Elsewhere, PassesNothing
<1>3. CASE R!Skip
  <2>1. UNCHANGED <<opt, rkey, got, rpos>> /\ rpc' # "pass"
    BY <1>3 DEF R!Skip
  <2> QED BY <2>1, GotSame DEF Elsewhere, PassesNothing
<1>4. CASE R!Read
  <2>2. UNCHANGED <<opt, rkey, rpos>> /\ ~R!Stopped /\ rpc = "idle" /\ cur.kind \in {"plain", "enc"} /\ ~cur.done
    BY <1>4 DEF R!Read, Finds
  <2>3. rerr = "nil" /\ cur.dead = "nil" /\ ~cur.isEOF
    BY <2>2 DEF Finds
  <2>4. rpc' = "read" /\ got' = got
    BY <1>4, <2>3 DEF R!Read
  <2> QED BY <2>2, <2>4, GotSame DEF Elsewhere, PassesNothing
<1> QED BY <1>1, <1>2, <1>3, <1>4

LEMMA DataElsewhere ==
  ASSUME Finds, rpc # "pass", R!SkipBlock \/ R!SkipAtEnd \/ R!ReadBlock \/ R!ReadAtEnd
  PROVE  Elsewhere
<1>1. rpc \in {"skip", "read"} /\ opt' = opt /\ rkey' = rkey
  BY DEF R!SkipBlock, R!SkipAtEnd, R!ReadBlock, R!ReadAtEnd
<1>2. ~R!Drained /\ rerr = "nil" /\ EntriesAre /\ got # <<>> /\ (rpc = "read" => cur.kind \in {"plain", "enc"})
  BY <1>1 DEF Finds
<1>3. PICK b : b = out[rpos] /\ b = R!Block
  BY DEF R!Block
<1>4. CASE R!SkipBlock
  <2>1. rpc = "skip" /\ rpos' = rpos + 1
    BY <1>1, <1>4 DEF R!SkipBlock
  <2>2. CASE b.kind \in R!Discarded /\ UNCHANGED <<rpc, got>>
    BY <1>1, <1>3, <2>1, <2>2, GotSame DEF Elsewhere, PassesNothing, R!Discarded, KeyKinds, StreamKinds
  <2>3. ASSUME NEW e \in {"nil", "Message"}, R!SkipReturns(e), b.kind \in {"EOS", "Error"} PROVE Elsewhere
    <3>1. GotKept /\ R!Return("skip", e)
      BY <2>1, <2>3, SkippedKept
    <3> QED BY <1>1, <1>3, <2>1, <2>3, <3>1 DEF Elsewhere, PassesNothing, R!Return, KeyKinds, StreamKinds
  <2>4. CASE R!SkipReturns("BlockType")
    <3>1. GotKept /\ R!Return("skip", "BlockType")
      BY <2>1, <2>4, SkippedKept
    <3>2. R!Stopped' /\ ~Arrived' /\ rpc' # "pass"
      BY <3>1, TypeStops
    <3> QED BY <1>1, <3>1, <3>2 DEF Elsewhere
  <2> QED BY <1>3, <1>4, <2>2, <2>3, <2>4 DEF R!SkipBlock
<1>5. CASE R!ReadBlock
  <2>1. rpc = "read" /\ rpos' = rpos + 1 /\ cur.kind \in {"plain", "enc"}
    BY <1>1, <1>5, <1>2 DEF R!ReadBlock
  <2>2. ASSUME NEW c, NEW e, R!SourceReturns(c, e),
               b.kind \notin KeyKinds \cup StreamKinds
        PROVE  Elsewhere
    <3>1. GotKept /\ rpc' = "idle"
      BY <2>1, <2>2, SourceKept DEF R!Return
    <3> QED BY <1>1, <1>3, <2>1, <2>2, <3>1 DEF Elsewhere, PassesNothing
  <2>3. CASE b.kind = "Datablock" /\ R!ReadData(b.payload)
    <3>1. /\ rpc' # "pass"
          /\ got' = got \/ (\E body : got' = R!Received(body)) \/ got' = R!Ended("NotAuthentic")
      BY <2>1, <2>3 DEF R!ReadData, R!Return, R!Proceed
    <3>2. GotKept
      BY <1>2, <3>1, LastKept, GotSame
    <3> QED BY <1>1, <1>3, <2>1, <2>3, <3>1, <3>2 DEF Elsewhere, PassesNothing, KeyKinds, StreamKinds
  <2>4. CASE b.kind = "EOS" /\ R!ReadEOS(b)
    <3>1. \/ R!SourceReturns([cur EXCEPT !.isEOF = TRUE], "EOF")
          \/ R!SourceReturns(cur, "Checksum")
      BY <1>2, <2>4 DEF R!ReadEOS, R!Kept
    <3>2. b.kind \notin KeyKinds \cup StreamKinds
      BY <2>4 DEF KeyKinds, StreamKinds
    <3> QED BY <2>2, <3>1, <3>2
  <2>5. CASE b.kind = "Error" /\ R!SourceReturns(cur, "Message")
    BY <2>2, <2>5 DEF KeyKinds, StreamKinds
  <2>6. CASE R!SourceReturns(cur, "BlockType")
    <3>2. GotKept
      BY <2>1, <2>6, SourceKept
    <3>3. R!Return("read", "BlockType")
      BY <2>6 DEF R!SourceReturns
    <3>4. R!Stopped' /\ ~Arrived' /\ rpc' # "pass"
      BY <3>3, TypeStops
    <3> QED BY <1>1, <3>2, <3>4 DEF Elsewhere
  <2>7. CASE b.kind = "Skippable" /\ UNCHANGED <<got, rpc>>
    BY <1>1, <1>3, <2>1, <2>7, GotSame DEF Elsewhere, PassesNothing, KeyKinds, StreamKinds
  <2>8. R!Kept("Message") = "Message"
    BY <1>2 DEF R!Kept
  <2> QED BY <1>3, <1>5, <2>3, <2>4, <2>5, <2>6, <2>7, <2>8 DEF R!ReadBlock
<1>6. ~R!SkipAtEnd /\ ~R!ReadAtEnd
  BY <1>2 DEF R!SkipAtEnd, R!ReadAtEnd
<1> QED BY <1>4, <1>5, <1>6

\* NextStream at a block: a key that it cannot open stops it.
LEMMA NextGives ==
  ASSUME Finds, Given, R!NextBlock
  PROVE  Given'
<1>1. rpc = "next" /\ rpos' = rpos + 1 /\ opt' = opt
  BY DEF R!NextBlock
<1>2. /\ ~R!Stopped /\ rerr = "nil" /\ out' = out /\ handles' = handles /\ rpos \in Nat \ {0} /\ rpos \in DOMAIN out
      /\ KeyedHeader(rpos) /\ (out[rpos].kind \in KeyKinds => out[rpos].key # NoKey)
      /\ \E S : got \in Seq(S)
  <2>1. rpc # "idle"
    BY <1>1
  <2> QED BY <2>1 DEF Finds, EntriesAre
<1>3. Handed /\ NoKeyYet /\ opt = [skip |-> FALSE, nondec |-> FALSE]
  BY <1>2 DEF Given
<1>4. PICK b : b = out[rpos] /\ b = R!Block
  BY DEF R!Block
<1>5. R!NoKey = NoKey /\ R!KeyKinds = KeyKinds /\ R!StreamKinds = StreamKinds
  BY DEF R!NoKey, NoKey, R!KeyKinds, KeyKinds, R!StreamKinds, StreamKinds
<1>6. ASSUME b.kind \notin KeyKinds \cup StreamKinds, got' = got, rkey' = rkey, rpc' # "pass" PROVE Given'
  <2>1. Handed' /\ NoKeyYet'
    BY <1>1, <1>2, <1>3, <1>4, <1>6, GotSame, NothingPassed DEF PassesNothing
  <2> QED BY <1>1, <1>3, <1>6, <2>1 DEF Given
<1>7. ASSUME b.kind \in KeyKinds, got' = got, rkey' = b.key, rpc' # "pass" PROVE Given'
  <2>1. \A h \in 1..(rpos' - 1) : h \in 1..(rpos - 1) \/ h = rpos
    BY <1>1, <1>2
  <2>2. Handed'
    BY <1>2, <1>3, <1>4, <1>7, <2>1 DEF Handed, KeyKinds, StreamKinds
  <2>4. b.key # NoKey
    BY <1>2, <1>4, <1>7
  <2> QED BY <1>1, <1>3, <1>7, <2>2, <2>4 DEF Given, NoKeyYet
<1>8. ASSUME R!Return("next", "NoPrivate") \/ R!Return("next", "RSA") PROVE Given'
  <2>1. R!Stopped' /\ ~Arrived' /\ rpc' # "pass"
    BY <1>8 DEF R!Return, R!Stopped, R!Failures, Arrived
  <2> QED BY <1>1, <1>3, <2>1 DEF Given
<1>9. ASSUME NEW kind, NEW e, R!Deliver(b, kind, e), b.kind \in StreamKinds, rkey' = rkey,
             kind \in {"plain", "enc"} \/ b.sid \notin DOMAIN handles
      PROVE  Given'
  <2>1. PICK g : g = [sid |-> b.sid, kind |-> kind, data |-> <<>>, end |-> "open"]
    OBVIOUS
  <2>2. got' = Append(got, g) /\ rpc' = "idle" /\ g.sid = b.sid /\ g.kind = kind
    BY <1>9, <2>1 DEF R!Deliver, R!Return
  <2>3. PICK n \in Nat : n = Len(got) /\ Len(got') = n + 1 /\ got'[n + 1] = g /\ \A i \in 1..n : got'[i] = got[i]
    BY <1>2, <2>2
  <2>4. \A h \in 1..(rpos' - 1) : h \in 1..(rpos - 1) \/ h = rpos
    BY <1>1, <1>2
  <2>5. ASSUME NEW h \in 1..(rpos' - 1), out[h].kind \in StreamKinds, out[h].sid \in DOMAIN handles
        PROVE  \E i \in 1..Len(got') : got'[i].sid = out[h].sid /\ got'[i].kind # "nokey"
    <3>1. CASE h = rpos
      <4>1. kind # "nokey"
        BY <1>4, <1>9, <2>5, <3>1
      <4>2. n + 1 \in 1..Len(got')
        BY <2>3
      <4>3. b = out[h]
        BY <1>4, <3>1
      <4>4. got'[n + 1].sid = out[h].sid /\ got'[n + 1].kind # "nokey"
        BY <2>2, <2>3, <4>1, <4>3
      <4> QED BY <4>2, <4>4
    <3>2. CASE h \in 1..(rpos - 1)
      <4>1. PICK i \in 1..n : got[i].sid = out[h].sid /\ got[i].kind # "nokey"
        BY <1>3, <2>3, <2>5, <3>2 DEF Handed
      <4>2. i \in 1..Len(got') /\ got'[i] = got[i]
        BY <2>3
      <4> QED BY <4>1, <4>2
    <3> QED BY <2>4, <3>1, <3>2
  <2>6. Handed'
    BY <1>2, <2>5 DEF Handed
  <2>7. NoKeyYet'
    BY <1>2, <1>3, <1>4, <1>9, <2>4 DEF NoKeyYet, KeyKinds, StreamKinds
  <2> QED BY <1>1, <1>3, <2>2, <2>6, <2>7 DEF Given
<1>10. b.kind = "EncStream" /\ b.sid \in DOMAIN handles => rkey # NoKey
  <2> SUFFICES ASSUME b.kind = "EncStream", b.sid \in DOMAIN handles, rkey = NoKey PROVE FALSE
    OBVIOUS
  <2>1. \A i \in 1..(rpos - 1) : out[i].kind \notin KeyKinds
    BY <1>3 DEF NoKeyYet
  <2>2. rpos \in DOMAIN out /\ out[rpos].kind = "EncStream" /\ out[rpos].sid = b.sid
    BY <1>2, <1>4
  <2> QED BY <1>2, <2>1, <2>2 DEF KeyedHeader
<1>11. CASE b.kind = "PlainKey"
  BY <1>4, <1>5, <1>7, <1>11, <1>1 DEF R!NextBlock, R!PlainKeyRead, R!Proceed, KeyKinds, StreamKinds
<1>12. CASE b.kind = "EncryptedKey"
  <2>1. R!NextEncryptedKey(b) /\ got' = got
    BY <1>4, <1>12 DEF R!NextBlock
  <2>2. ~opt.skip /\ ~opt.nondec
    BY <1>3
  <2>3. \/ rkey' = b.key /\ R!Proceed
        \/ R!Return("next", "NoPrivate")
        \/ R!Return("next", "RSA")
    BY <1>2, <2>1, <2>2 DEF R!NextEncryptedKey, R!Kept
  <2> QED BY <1>1, <1>7, <1>8, <1>12, <2>1, <2>3 DEF KeyKinds, R!Proceed
<1>13. CASE b.kind \in StreamKinds
  <2>1. \E kind, e : /\ R!Deliver(b, kind, e) /\ rkey' = rkey
                     /\ kind \in {"plain", "enc"} \/ b.sid \notin DOMAIN handles
    BY <1>3, <1>4, <1>5, <1>10, <1>13 DEF R!NextBlock, StreamKinds
  <2> QED BY <1>9, <1>13, <2>1
<1>14. CASE b.kind \notin KeyKinds \cup StreamKinds
  <2>1. got' = got /\ rkey' = rkey /\ rpc' # "pass"
    BY <1>1, <1>4, <1>14 DEF R!NextBlock, R!Return, R!Proceed, KeyKinds, StreamKinds
  <2> QED BY <1>6, <1>14, <2>1
<1> QED BY <1>11, <1>12, <1>13, <1>14 DEF KeyKinds

LEMMA ElsewhereGives ==
  ASSUME Finds, Given, Elsewhere, rpc # "idle" \/ ~R!Stopped
  PROVE  Given'
<1>1. ~R!Stopped /\ out' = out /\ handles' = handles /\ rpos \in Nat \ {0}
  BY DEF Finds
<1>2. Handed /\ NoKeyYet
  BY <1>1 DEF Given
<1>3. PassesNothing => Handed' /\ NoKeyYet'
  BY <1>1, <1>2, NothingPassed DEF Elsewhere
<1> QED BY <1>3 DEF Given, Elsewhere

\* Every step of the Reader, who sets none of its options.
LEMMA ReaderGives ==
  ASSUME Finds, Given, R!Next, sets \in Nat, sets' # sets => opt' = opt
  PROVE  Given'
<1>1. Careful /\ rpc # "pass"
  BY DEF Finds, Given
<1>2. CASE R!Setters
  <2>1. sets' = sets + 1 /\ UNCHANGED <<rpos, rkey, rpc, ret, got>>
    BY <1>2 DEF R!Setters, R!Configure, R!SetPrivateKey, R!PrivateKeyProvider, R!SkipEncrypted,
       R!ReturnNonDecryptable
  <2>2. opt' = opt /\ out' = out /\ handles' = handles
    BY <2>1 DEF Finds
  <2> QED BY <2>1, <2>2 DEF Given, R!Stopped, Arrived, Handed, NoKeyYet
<1>3. CASE R!NextBlock
  BY <1>3, NextGives
<1>4. CASE R!NewReader \/ R!NextStream \/ R!Skip \/ R!Read
  <2>1. rpc # "idle" \/ ~R!Stopped
    BY <1>1, <1>4 DEF R!NewReader, R!NextStream, R!Skip, R!Read
  <2> QED BY <1>1, <1>4, <2>1, CallsElsewhere, ElsewhereGives
<1>5. CASE R!SkipBlock \/ R!SkipAtEnd \/ R!ReadBlock \/ R!ReadAtEnd
  <2>1. rpc # "idle"
    BY <1>5 DEF R!SkipBlock, R!SkipAtEnd, R!ReadBlock, R!ReadAtEnd
  <2> QED BY <1>1, <1>5, <2>1, DataElsewhere, ElsewhereGives
<1>6. ~R!NextAtEnd
  <2>1. rpc = "next" => ~R!Drained
    BY DEF Finds
  <2> QED BY <2>1 DEF R!NextAtEnd
<1> QED BY <1>2, <1>3, <1>4, <1>5, <1>6 DEF R!Next, R!Progress

----------------------------------------------------------------------------
(* The Writer is that of EStreamWriterProofs.                               *)

D == INSTANCE EStreamWriterProofs

LEMMA RekeyWriter == D!WriterAssumption
BY RekeyAssumption DEF D!WriterAssumption

LEMMA SameSends == \A bs : W!SendOutcomes(bs) = D!SendOutcomes(bs)
BY DEF W!SendOutcomes, D!SendOutcomes, W!Faults, D!Faults, W!Leftovers, D!Leftovers,
       W!Sticky, D!Sticky, W!Partial, D!Partial, W!CutsOf, D!CutsOf, W!Cuts, D!Cuts

LEMMA SameWriterInit == W!Init => D!Init
BY DEF W!Init, D!Init, W!VersionBlock, D!VersionBlock, W!NoKey, D!NoKey

\* The calls on a stream.
LEMMA SameCalls ==
  /\ \A s, c : W!WritePlain(s, c) => D!WritePlain(s, c)
  /\ \A s, c : W!WriteEncrypted(s, c) => D!WriteEncrypted(s, c)
  /\ \A s : W!ClosePlain(s) => D!ClosePlain(s)
  /\ \A s : W!CloseEncrypted(s) => D!CloseEncrypted(s)
<1>1. \A s, c : W!WritePlain(s, c) => D!WritePlain(s, c)
  BY SameSends DEF W!WritePlain, D!WritePlain, W!MayUse, D!MayUse, W!IsOpen, D!IsOpen, W!Send,
                   D!Send, W!Datablock, D!Datablock, W!Clear, D!Clear, W!NoKey, D!NoKey
<1>2. \A s, c : W!WriteEncrypted(s, c) => D!WriteEncrypted(s, c)
  <2>1. \A hd, l : W!Fragment(hd, l) = D!Fragment(hd, l)
    BY DEF W!Fragment, D!Fragment, W!Sealed, D!Sealed
  <2>2. \A p : W!Datablock(p) = D!Datablock(p)
    BY DEF W!Datablock, D!Datablock
  <2>3. \A s : W!MayUse(s) <=> D!MayUse(s)
    BY DEF W!MayUse, D!MayUse, W!IsOpen, D!IsOpen
  <2>4. \A o : W!Send(o) <=> D!Send(o)
    BY DEF W!Send, D!Send
  <2>5. ASSUME NEW s, NEW c, W!WriteEncrypted(s, c), handles[s].pend # <<>>
        PROVE  D!WriteEncrypted(s, c)
    <3>1. \E o \in D!SendOutcomes(<< D!Datablock(D!Fragment(handles[s], FALSE)) >>) : D!Send(o)
      BY SameSends, <2>1, <2>2, <2>4, <2>5 DEF W!WriteEncrypted
    <3> QED BY <2>1, <2>3, <2>5, <3>1 DEF W!WriteEncrypted, D!WriteEncrypted
  <2>6. ASSUME NEW s, NEW c, W!WriteEncrypted(s, c), handles[s].pend = <<>>
        PROVE  D!WriteEncrypted(s, c)
    BY <2>3, <2>6 DEF W!WriteEncrypted, D!WriteEncrypted
  <2> QED BY <2>5, <2>6
<1>3. \A s : W!ClosePlain(s) => D!ClosePlain(s)
  BY SameSends DEF W!ClosePlain, D!ClosePlain, W!MayUse, D!MayUse, W!IsOpen, D!IsOpen, W!Send,
                   D!Send, W!EOSBlocks, D!EOSBlocks, W!EOS, D!EOS, W!Acked, D!Acked
<1>4. \A s : W!CloseEncrypted(s) => D!CloseEncrypted(s)
  BY SameSends DEF W!CloseEncrypted, D!CloseEncrypted, W!MayUse, D!MayUse, W!IsOpen, D!IsOpen,
                   W!Send, D!Send, W!EOSBlocks, D!EOSBlocks, W!EOS, D!EOS, W!Acked, D!Acked,
                   W!Datablock, D!Datablock, W!Fragment, D!Fragment, W!Sealed, D!Sealed,
                   W!AfterSioClose, D!AfterSioClose
<1> QED BY <1>1, <1>2, <1>3, <1>4

\* Every call.
LEMMA SameWriterNext == W!Next => D!Next
<1>1. W!AddKeyPlain => D!AddKeyPlain
  BY SameSends DEF W!AddKeyPlain, D!AddKeyPlain, W!MayAdd, D!MayAdd, W!Opened, D!Opened,
                   W!IsOpen, D!IsOpen, W!Send, D!Send, W!PlainKey, D!PlainKey
<1>2. \A p : W!AddKeyEncrypted(p) => D!AddKeyEncrypted(p)
  BY SameSends DEF W!AddKeyEncrypted, D!AddKeyEncrypted, W!MayAdd, D!MayAdd, W!Opened, D!Opened,
                   W!IsOpen, D!IsOpen, W!Send, D!Send, W!EncryptedKey, D!EncryptedKey
<1>3. W!AddError => D!AddError
  BY SameSends DEF W!AddError, D!AddError, W!Send, D!Send, W!ErrorBlock, D!ErrorBlock
<1>4. W!AddUnencryptedStream => D!AddUnencryptedStream
  BY SameSends DEF W!AddUnencryptedStream, D!AddUnencryptedStream, W!MayAdd, D!MayAdd, W!Opened,
                   D!Opened, W!IsOpen, D!IsOpen, W!Send, D!Send, W!PlainStream, D!PlainStream,
                   W!Handle, D!Handle, W!NoKey, D!NoKey
<1>5. W!AddEncryptedStream => D!AddEncryptedStream
  BY SameSends DEF W!AddEncryptedStream, D!AddEncryptedStream, W!MayAdd, D!MayAdd, W!Opened,
                   D!Opened, W!IsOpen, D!IsOpen, W!Send, D!Send, W!EncStream, D!EncStream,
                   W!Handle, D!Handle, W!NoKey, D!NoKey, W!NextNonce, D!NextNonce
<1>6. W!CloseWriter => D!CloseWriter
  BY SameSends DEF W!CloseWriter, D!CloseWriter, W!Opened, D!Opened, W!IsOpen, D!IsOpen, W!Send,
                   D!Send, W!EOFBlock, D!EOFBlock
<1> QED BY <1>1, <1>2, <1>3, <1>4, <1>5, <1>6, SameCalls
        DEF W!Next, D!Next, W!Opened, D!Opened

----------------------------------------------------------------------------
(* Whose keys open the copy.                                                *)

\* Inductive invariant: the original is a sequence of blocks, the copy is one of
\* it, and the Reader has keys from the copy; before it reads it has done nothing.
RekeyInv ==
  /\ D!HandlesInv /\ CopyInv /\ KeysRead
  /\ phase = "read" => cret # "running" /\ rpos <= Len(out) + 1
  /\ phase # "read" => R!Init
  /\ phase = "write" => cpos = 1 /\ cret = "running"

\* The Writer of this module and that of EStreamWriterProofs have the same blocks.
LEMMA SameBlocks == D!Blocks = W!Blocks /\ (D!HandlesInv => wire \in Seq(W!Blocks))
<1>1. D!Blocks = W!Blocks
  BY DEF D!Blocks, W!Blocks, D!VersionBlock, W!VersionBlock, D!EOFBlock, W!EOFBlock, D!ErrorBlock,
         W!ErrorBlock, D!Skippable, W!Skippable, D!Payloads, W!Payloads, D!Cuts, W!Cuts
<1>2. D!HandlesInv => wire \in Seq(W!Blocks)
  BY <1>1 DEF D!HandlesInv, D!TypeOK
<1> QED BY <1>1, <1>2

\* Every step of the module.
LEMMA RekeyStart == Init => RekeyInv
<1> SUFFICES ASSUME Init PROVE RekeyInv
  OBVIOUS
<1>1. D!HandlesInv
  BY SameWriterInit, D!HandlesInit, RekeyWriter DEF Init
<1>9. phase = "write" => cpos = 1 /\ cret = "running"
  BY DEF Init, C!Init
<1>2. wire \in Seq(W!Blocks) /\ Len(wire) \in Nat
  BY <1>1, SameBlocks
<1>3. out = << >> /\ cpos = 1 /\ cret = "running" /\ asked = << >>
  BY DEF Init, C!Init
<1>4. Len(out) = 0 /\ out \in Seq(W!Blocks) /\ DOMAIN asked = {}
  BY <1>3
<1>5. Copied(0)
  BY <1>2, <1>4 DEF Copied
<1>6. CopyInv
  <2>1. cpos \in 1..(Len(wire) + 1)
    BY <1>2, <1>3
  <2>2. \E n \in 0..Len(out) :
          Copied(n) /\ Len(out) <= n + 1 /\ \A i \in (n + 1)..Len(out) : out[i].kind = "Partial"
    BY <1>4, <1>5
  <2> QED BY <1>3, <1>4, <1>5, <2>1, <2>2 DEF CopyInv
<1>7. KeysRead
  BY DEF Init, R!Init, KeysRead, R!NoStream, R!NoKey, NoKey
<1>8. R!Init /\ phase = "write"
  BY DEF Init
<1> QED BY <1>1, <1>6, <1>7, <1>8, <1>9 DEF RekeyInv

\* Before the copying starts the copy is empty.
LEMMA WriterKeepsCopy ==
  ASSUME CopyInv, cpos = 1, cret = "running", wire' \in Seq(W!Blocks), UNCHANGED copy
  PROVE  CopyInv'
<1>1. UNCHANGED <<out, cpos, asked, cret>>
  BY DEF copy
<1>2. out \in Seq(W!Blocks) /\ Len(out) = 0 /\ DOMAIN asked \subseteq 1..(cpos - 1)
  BY DEF CopyInv
<1>3. Copied(0)' /\ cpos' \in 1..(Len(wire') + 1)
  BY <1>1, <1>2 DEF Copied
<1>4. \E n \in 0..Len(out') :
        Copied(n)' /\ Len(out') <= n + 1 /\ \A i \in (n + 1)..Len(out') : out'[i].kind = "Partial"
  BY <1>1, <1>2, <1>3
<1> QED BY <1>1, <1>2, <1>3, <1>4 DEF CopyInv

\* What the Reader has done stays; nothing of it depends on what is written.
LEMMA ReaderUntouched ==
  ASSUME RekeyInv, phase # "read", UNCHANGED rown
  PROVE  KeysRead' /\ R!Init'
<1>1. R!Init
  BY DEF RekeyInv
<1>2. R!Init'
  BY <1>1 DEF R!Init, rown
<1>3. KeysRead'
  BY <1>2 DEF R!Init, KeysRead, R!NoStream, R!NoKey, NoKey
<1> QED BY <1>2, <1>3

LEMMA RekeyGoesOn == RekeyInv /\ [Next]_vars => RekeyInv'
<1> SUFFICES ASSUME RekeyInv, [Next]_vars PROVE RekeyInv'
  OBVIOUS
<1>0. D!HandlesInv /\ CopyInv /\ KeysRead /\ wire \in Seq(W!Blocks) /\ Len(wire) \in Nat
  BY SameBlocks DEF RekeyInv
<1>1. UNCHANGED wvars => D!HandlesInv' /\ wire' = wire
  <2> SUFFICES ASSUME UNCHANGED wvars PROVE D!HandlesInv' /\ wire' = wire
    OBVIOUS
  <2>1. UNCHANGED D!wvars
    BY DEF wvars, D!wvars
  <2> QED BY <1>0, <2>1, D!HandlesStep, RekeyWriter DEF wvars
<1>2. UNCHANGED copy /\ wire' = wire => CopyInv'
  BY <1>0 DEF copy, CopyInv, Copied, BlockCopied
<1>3. CASE WriterStep
  <2>1. D!HandlesInv' /\ UNCHANGED <<copy, rown, phase>> /\ phase = "write"
    BY <1>0, <1>3, SameWriterNext, D!HandlesStep, RekeyWriter DEF WriterStep
  <2>2. wire' \in Seq(W!Blocks)
    BY <2>1, SameBlocks DEF D!HandlesInv, D!TypeOK
  <2>3. UNCHANGED <<copy, cpos, cret>> /\ cpos = 1 /\ cret = "running" /\ phase' = "write"
    BY <2>1 DEF RekeyInv, copy
  <2>4. CopyInv'
    BY <1>0, <2>2, <2>3, WriterKeepsCopy
  <2>5. KeysRead' /\ R!Init'
    BY <2>1, ReaderUntouched
  <2> QED BY <2>1, <2>3, <2>4, <2>5 DEF RekeyInv
<1>4. CASE StartCopy
  <2>1. UNCHANGED <<wvars, copy, rown>> /\ phase' = "copy" /\ phase = "write"
    BY <1>4 DEF StartCopy
  <2> QED BY <1>1, <1>2, <2>1, ReaderUntouched DEF RekeyInv
<1>5. CASE CopyStep
  <2>1. UNCHANGED <<wvars, rown>> /\ phase' = "copy" /\ phase = "copy" /\ C!Next
    BY <1>5 DEF CopyStep
  <2>2. CopyInv'
    BY <1>0, <1>1, <2>1, CopyGoesOn
  <2> QED BY <1>1, <2>1, <2>2, ReaderUntouched DEF RekeyInv
<1>6. CASE StartRead
  <2>1. UNCHANGED <<wvars, copy, rown>> /\ phase' = "read" /\ phase = "copy" /\ cret' # "running"
    BY <1>6 DEF StartRead, copy
  <2>2. R!Init' /\ KeysRead'
    BY <2>1, ReaderUntouched
  <2>3. rpos' <= Len(out') + 1
    <3>1. rpos' = 1 /\ out' \in Seq(W!Blocks)
      BY <1>0, <1>1, <1>2, <2>1, <2>2 DEF R!Init, CopyInv
    <3> QED BY <3>1
  <2> QED BY <1>1, <1>2, <2>1, <2>2, <2>3 DEF RekeyInv
<1>7. CASE ReaderStep
  <2>1. UNCHANGED <<wvars, copy>> /\ phase' = "read" /\ phase = "read"
    BY <1>7 DEF ReaderStep
  <2>2. KeysRead' /\ (rpos' = rpos \/ (rpos' = rpos + 1 /\ rpos <= Len(out))) /\ rpos \in Nat
    BY <1>0, <1>7, ReaderKeepsKeys DEF KeysRead
  <2>3. rpos' <= Len(out') + 1 /\ cret' # "running"
    <3>1. out' = out /\ cret' = cret /\ Len(out) \in Nat
      BY <1>0, <2>1 DEF copy, CopyInv
    <3> QED BY <2>1, <2>2, <3>1 DEF RekeyInv
  <2> QED BY <1>1, <1>2, <2>1, <2>2, <2>3 DEF RekeyInv
<1>8. CASE UNCHANGED vars
  <2>1. UNCHANGED <<wvars, copy, rown, phase>>
    BY <1>8 DEF vars
  <2>2. UNCHANGED <<rpos, rkey, cur, calls, sets, rpc, src, out, cret>>
    BY <2>1 DEF rown, copy
  <2>3. KeysRead'
    BY <1>0, <2>2 DEF KeysRead, KeyRead
  <2>4. phase # "read" => R!Init'
    BY <2>1, ReaderUntouched
  <2>5. UNCHANGED <<phase, cpos, cret, rpos, out>>
    BY <2>1, <2>2 DEF copy
  <2> QED BY <1>1, <1>2, <2>1, <2>3, <2>4, <2>5 DEF RekeyInv
<1> QED BY <1>3, <1>4, <1>5, <1>6, <1>7, <1>8 DEF Next

\* A key that the Reader of the copy has is one that ReplaceFn made out to it, or
\* left in the clear.
LEMMA RekeyMeans == RekeyInv => CopyOpensAsAnswered
<1> SUFFICES ASSUME RekeyInv, cur.kind = "enc"
             PROVE  \E i \in DOMAIN wire :
                      /\ wire[i].kind \in KeyKinds /\ wire[i].key = cur.key
                      /\ \/ NamedFor(i) \subseteq src.holds
                         \/ wire[i].kind = "PlainKey" /\ NamedFor(i) = {Nil}
  BY DEF CopyOpensAsAnswered
<1>1. wire \in Seq(W!Blocks) /\ Len(wire) \in Nat /\ DOMAIN wire = 1..Len(wire) /\ out \in Seq(W!Blocks) /\ Len(out) \in Nat
  BY SameBlocks DEF RekeyInv, CopyInv
<1>2. KeyRead(cur.key) /\ phase = "read" /\ rpos \in Nat /\ rpos <= Len(out) + 1
  BY DEF RekeyInv, KeysRead, R!Init, R!NoStream
<1>3. PICK j \in 1..(rpos - 1) : /\ out[j].kind \in KeyKinds /\ out[j].key = cur.key
                                 /\ out[j].kind = "EncryptedKey" => out[j].pub \in src.holds
  BY <1>2 DEF KeyRead
<1>4. PICK n \in 0..Len(out) :
        Copied(n) /\ Len(out) <= n + 1 /\ \A i \in (n + 1)..Len(out) : out[i].kind = "Partial"
  BY DEF RekeyInv, CopyInv
<1>5. j \in 1..Len(out)
  BY <1>1, <1>2
<1>6. j \in 1..n
  <2>1. j \notin (n + 1)..Len(out)
    BY <1>3, <1>4 DEF KeyKinds
  <2> QED BY <1>1, <1>4, <1>5, <2>1
<1>7. BlockCopied(out[j], j) /\ j \in DOMAIN wire
  <2>1. n <= Len(wire)
    BY <1>4 DEF Copied
  <2> QED BY <1>1, <1>4, <1>6, <2>1 DEF Copied
<1>8. wire[j].kind \in KeyKinds /\ wire[j].key = cur.key
  BY <1>3, <1>7 DEF BlockCopied, SameBlock
<1>9. CASE out[j].kind = "EncryptedKey"
  BY <1>3, <1>7, <1>8, <1>9 DEF BlockCopied, NamedFor
<1>10. CASE out[j].kind = "PlainKey"
  BY <1>3, <1>7, <1>8, <1>10 DEF BlockCopied, NamedFor
<1> QED BY <1>3, <1>9, <1>10 DEF KeyKinds

\* Whatever ReplaceFn answers, whatever the Writer's caller does and wherever the
\* copying stops, a stream of the copy opens only for the holder of a key pair that
\* ReplaceFn named for its key, unless the key was in the clear and was left so
\* (stream.go:38, the loop of ReplaceKeys; reader.go:161).
THEOREM RekeyOpensAsAnswered == Spec => []CopyOpensAsAnswered
<1>1. Spec => []RekeyInv
  BY RekeyStart, RekeyGoesOn, PTL DEF Spec
<1> QED BY <1>1, RekeyMeans, PTL

----------------------------------------------------------------------------
(* The original, whatever its Writer's caller does; and what it is if the   *)
(* caller keeps the contract.                                               *)

Original ==
  /\ D!HandlesInv /\ D!SealInv /\ D!HeaderKeys /\ D!ErrorsTold
  /\ \A b \in Range(wire) : D!BlockFits(b)
  /\ Disciplined => D!StreamsInv /\ D!DataCarried /\ D!EndsLast /\ D!ErrorsLast

LEMMA OriginalStart == Init => Original
<1> SUFFICES ASSUME Init PROVE Original
  OBVIOUS
<1>1. D!Init
  BY SameWriterInit DEF Init
<1>2. D!HandlesInv /\ D!SealInv /\ D!HeaderKeys /\ D!StreamsInv /\ D!DataCarried
  BY <1>1, D!HandlesInit, D!SealInit, D!HeaderInit, D!StreamsInit, RekeyWriter
<1>3. \A i \in DOMAIN wire : wire[i].kind = "Version"
  BY <1>1 DEF D!Init, D!VersionBlock
<1>4. D!ErrorsTold /\ D!EndsLast /\ D!ErrorsLast /\ \A b \in Range(wire) : D!BlockFits(b)
  BY <1>3 DEF Range, D!ErrorsTold, D!EndsLast, D!ErrorsLast, D!BlockFits
<1> QED BY <1>2, <1>4 DEF Original

\* The blocks that were there, and those that a call sends.
LEMMA OriginalFits ==
  ASSUME Original, W!Next
  PROVE  \A b \in Range(wire') : D!BlockFits(b)'
<1>1. D!HandlesInv /\ D!Next /\ wire \in Seq(D!Blocks)
  BY SameWriterNext DEF Original, D!HandlesInv, D!TypeOK
<1>2. D!HandlesInv' /\ D!HandlesGrow
  BY <1>1, D!HandlesStep, RekeyWriter
<1>3. PICK t \in Seq(D!Blocks) : wire' = wire \o t /\ \A i \in 1..Len(t) : D!BlockFits(t[i])'
  BY <1>1, D!FreshFit, RekeyWriter
<1>4. /\ Len(wire) \in Nat /\ DOMAIN wire = 1..Len(wire) /\ DOMAIN wire' = 1..Len(wire')
      /\ Len(t) \in Nat /\ Len(wire') = Len(wire) + Len(t)
      /\ \A i \in 1..Len(wire) : wire'[i] = wire[i]
      /\ \A i \in 1..Len(t) : wire'[Len(wire) + i] = t[i]
  BY <1>1, <1>3, D!WireGrows, RekeyWriter
<1>5. ASSUME NEW b \in Range(wire') PROVE D!BlockFits(b)'
  <2>0. PICK i \in DOMAIN wire' : b = wire'[i]
    BY <1>5 DEF Range
  <2>1. CASE i \in 1..Len(wire)
    <3>1. D!BlockFits(b)
      BY <1>4, <2>0, <2>1 DEF Original, Range
    <3> QED BY <1>1, <1>2, <3>1, D!FitsStay, RekeyWriter
  <2>2. CASE i \notin 1..Len(wire)
    <3>1. PICK k : k = i - Len(wire)
      OBVIOUS
    <3>2. k \in 1..Len(t) /\ b = t[k]
      BY <1>4, <2>0, <2>2, <3>1
    <3> QED BY <1>3, <3>2
  <2> QED BY <2>1, <2>2
<1> QED BY <1>5

LEMMA OriginalStep ==
  ASSUME Original, W!Next
  PROVE  Original'
<1>1. D!HandlesInv /\ D!Next /\ D!TypeOK
  BY SameWriterNext DEF Original, D!HandlesInv
<1>2. D!HandlesInv' /\ D!SealInv' /\ D!HeaderKeys'
  BY <1>1, D!HandlesStep, D!SealStep, D!HeaderStep, RekeyWriter DEF Original
<1>3. PICK t \in Seq(D!Blocks) : D!NextHeaders(t)
  BY <1>1, D!HeadersSentAre, RekeyWriter
<1>4. D!ErrorsTold' /\ (Disciplined => D!EndsLast' /\ D!ErrorsLast')
  BY <1>1, <1>3, D!SendsErrorsTold, D!SendsEndsLast, D!SendsErrorsLast, RekeyWriter DEF Original
<1>5. Disciplined => D!StreamsInv' /\ D!DataCarried'
  BY <1>1, D!StreamsStep, RekeyWriter DEF Original
<1>6. (\A b \in Range(wire) : D!BlockFits(b))'
  BY OriginalFits DEF Range
<1> QED BY <1>2, <1>4, <1>5, <1>6 DEF Original

----------------------------------------------------------------------------
(* The copy, for its Reader, is a pipe that the original went through: it    *)
(* broke off where the copying stopped, and the keys of the streams are     *)
(* encrypted for others.                                                    *)

P == INSTANCE EStreamPipeProofs WITH
       wire <- out, harm <- {"cut"}, foreign <- 0, MaxForeign <- 0, Harms <- {}

LEMMA CopyPipe == P!PipeAssumption
BY RekeyAssumption DEF P!PipeAssumption

\* The same handles and blocks, with Bad among the chunks.
LEMMA SameTypes ==
  /\ Seq(W!Blocks) \subseteq Seq(P!D!Blocks) /\ Seq(D!Handles) \subseteq Seq(P!D!Handles)
  /\ D!Payloads \subseteq P!D!Payloads
<1>1. Seq(Chunks) \subseteq Seq(Chunks \cup {Bad})
  OBVIOUS
<1>2. D!Payloads \subseteq P!D!Payloads
  BY <1>1 DEF D!Payloads, P!D!Payloads
<1>3. Seq(D!Payloads) \subseteq Seq(P!D!Payloads)
  BY <1>2
<1>4. D!Handles \subseteq P!D!Handles
  BY <1>1, <1>3 DEF D!Handles, P!D!Handles
<1>5. W!Blocks \subseteq P!D!Blocks
  <2>1. W!Blocks = D!Blocks
    BY SameBlocks
  <2>2. ASSUME NEW b \in D!Blocks PROVE b \in P!D!Blocks
    <3>1. CASE b \in [kind : {"Datablock"}, payload : D!Payloads]
      BY <1>2, <3>1 DEF P!D!Blocks
    <3>2. CASE b \in [kind : {"EOS"}, sum : Seq(D!Payloads)]
      BY <1>3, <3>2 DEF P!D!Blocks
    <3>3. CASE b \notin [kind : {"Datablock"}, payload : D!Payloads] \cup [kind : {"EOS"}, sum : Seq(D!Payloads)]
      BY <2>2, <3>3 DEF D!Blocks, P!D!Blocks, D!VersionBlock, P!D!VersionBlock, D!EOFBlock, P!D!EOFBlock,
                  D!ErrorBlock, P!D!ErrorBlock, D!Skippable, P!D!Skippable, D!Cuts, P!D!Cuts
    <3> QED BY <3>1, <3>2, <3>3
  <2> QED BY <2>1, <2>2
<1>6. Seq(W!Blocks) \subseteq Seq(P!D!Blocks)
  BY <1>5
<1>7. Seq(D!Handles) \subseteq Seq(P!D!Handles)
  BY <1>4
<1> QED BY <1>2, <1>6, <1>7

\* Nothing is known of the handles that depends on the copy.
LEMMA SameHandles ==
  ASSUME D!HandlesInv, out \in Seq(W!Blocks)
  PROVE  /\ P!D!HandlesInv /\ P!D!Opened = D!Opened
         /\ \A s : s \in DOMAIN handles => handles[s].wrote \in Seq(Chunks)
<1>1. D!TypeOK /\ out \in Seq(P!D!Blocks) /\ handles \in Seq(D!Handles) /\ handles \in Seq(P!D!Handles)
  BY SameTypes DEF D!HandlesInv, D!TypeOK
<1>2. P!D!TypeOK
  BY <1>1 DEF D!TypeOK, P!D!TypeOK
<1>3. P!D!Opened = D!Opened
  BY DEF D!Opened, P!D!Opened
<1>4. P!D!NoncesDiffer
  BY <1>3 DEF D!HandlesInv, D!NoncesDiffer, P!D!NoncesDiffer
<1>5. \A hd, k : P!D!PayloadOf(hd, k) = D!PayloadOf(hd, k)
  BY DEF D!PayloadOf, P!D!PayloadOf, D!Sealed, P!D!Sealed, D!Clear, P!D!Clear, D!NoKey, P!D!NoKey
<1>6. \A hd : D!HandleFits(hd) => P!D!HandleFits(hd)
  BY <1>5 DEF D!HandleFits, P!D!HandleFits, D!Buffers, P!D!Buffers, D!NoKey, P!D!NoKey
<1>7. \A s \in P!D!Opened : P!D!HandleFits(handles[s])
  BY <1>3, <1>6 DEF D!HandlesInv
<1>8. \A s : s \in DOMAIN handles => handles[s].wrote \in Seq(Chunks)
  <2>1. \A s : s \in DOMAIN handles => handles[s] \in D!Handles
    BY <1>1
  <2> QED BY <2>1 DEF D!Handles
<1> QED BY <1>2, <1>3, <1>4, <1>7, <1>8 DEF P!D!HandlesInv

\* Block for block, the first n blocks of the copy are those of the original, but
\* for whom the keys are encrypted; the rest is not a whole block.
Like(n) ==
  /\ \A i \in 1..n : i \in DOMAIN out /\ i \in DOMAIN wire /\ SameBlock(out[i], wire[i])
  /\ \A i \in DOMAIN out : i \in 1..n \/ out[i].kind = "Partial"

LEMMA CopyIsLike ==
  ASSUME CopyInv, wire \in Seq(W!Blocks)
  PROVE  \E n \in Nat : Like(n)
<1>1. PICK n \in 0..Len(out) :
        Copied(n) /\ Len(out) <= n + 1 /\ \A i \in (n + 1)..Len(out) : out[i].kind = "Partial"
  BY DEF CopyInv
<1>2. Len(out) \in Nat /\ DOMAIN out = 1..Len(out) /\ Len(wire) \in Nat /\ DOMAIN wire = 1..Len(wire)
  BY DEF CopyInv
<1>3. \A i \in 1..n : i \in DOMAIN out /\ i \in DOMAIN wire
  BY <1>1, <1>2 DEF Copied
<1>4. \A i \in DOMAIN out : i \in 1..n \/ i \in (n + 1)..Len(out)
  BY <1>2
<1>5. Like(n) /\ n \in Nat
  BY <1>1, <1>2, <1>3, <1>4 DEF Like, Copied, BlockCopied
<1> QED BY <1>5

\* A block of the copy that is no key is that of the original, and nothing else
\* becomes one.
LEMMA LikeBlocks ==
  ASSUME NEW n \in Nat, Like(n), NEW i \in DOMAIN out, out[i].kind # "Partial"
  PROVE  /\ i \in 1..n /\ i \in DOMAIN wire
         /\ wire[i].kind \in KeyKinds <=> out[i].kind \in KeyKinds
         /\ out[i].kind \in KeyKinds => out[i].key = wire[i].key
         /\ out[i].kind \notin KeyKinds => out[i] = wire[i]
BY DEF Like, SameBlock

LEMMA LikeKinds ==
  ASSUME NEW n \in Nat, Like(n), NEW i \in 1..n
  PROVE  /\ \A k : k \notin KeyKinds => (out[i].kind = k <=> wire[i].kind = k)
         /\ out[i].kind \in KeyKinds <=> wire[i].kind \in KeyKinds
         /\ out[i].kind \in KeyKinds => out[i].key = wire[i].key
         /\ i \in DOMAIN wire /\ i \in DOMAIN out
BY DEF Like, SameBlock

LEMMA SameCount == \A S : P!D!Cardinality(S) = D!Cardinality(S)
BY Zenon DEF P!D!Cardinality, D!Cardinality

\* The copy is as good as the original was.
LEMMA CopyStreams ==
  ASSUME D!HandlesInv, out \in Seq(W!Blocks), NEW n \in Nat, Like(n),
         D!OneAtATime, D!FailedKept, D!HeadersNamed, D!DataPlaced, D!DataCarried
  PROVE  P!D!OneAtATime /\ P!D!FailedKept /\ P!D!HeadersNamed /\ P!D!DataPlaced /\ P!D!DataCarried
<1>0. Len(out) \in Nat /\ DOMAIN out = 1..Len(out) /\ P!D!Opened = D!Opened
  BY SameHandles
<1>1. P!D!OneAtATime /\ P!D!FailedKept
  BY <1>0 DEF D!OneAtATime, P!D!OneAtATime, D!FailedKept, P!D!FailedKept, D!IsOpen, P!D!IsOpen
<1>2. \A h \in DOMAIN out : out[h].kind \in P!D!StreamKinds =>
        h \in 1..n /\ h \in DOMAIN wire /\ wire[h] = out[h] /\ wire[h].kind \in D!StreamKinds
  BY LikeBlocks DEF P!D!StreamKinds, D!StreamKinds, KeyKinds
<1>3. P!D!HeadersNamed
  <2>1. \A s : P!D!Header(s) = D!Header(s)
    BY DEF P!D!Header, D!Header, P!D!EncStream, D!EncStream, P!D!PlainStream, D!PlainStream
  <2> QED BY <1>0, <1>2, <2>1 DEF P!D!HeadersNamed, D!HeadersNamed, P!D!KindAt, D!KindAt
<1>4. ASSUME NEW h \in DOMAIN out, NEW j \in 1..n, P!D!Within(h, j)
      PROVE  /\ h \in DOMAIN wire /\ j \in DOMAIN wire /\ j \in Nat /\ wire[h] = out[h] /\ D!Within(h, j)
             /\ P!D!NumData(h, j) = D!NumData(h, j)
  <2>1. h < j /\ h \in 1..n /\ h \in DOMAIN wire /\ wire[h] = out[h] /\ wire[h].kind \in D!StreamKinds
    BY <1>0, <1>2, <1>4 DEF P!D!Within, P!D!KindAt
  <2>2. \A m \in (h + 1)..j : m \in 1..n
    BY <1>0, <2>1
  <2>3. \A m \in (h + 1)..j : out[m].kind = "Datablock" <=> wire[m].kind = "Datablock"
    BY <2>2, LikeKinds DEF KeyKinds
  <2>4. \A m \in (h + 1)..j : out[m].kind \in P!D!Marks <=> wire[m].kind \in D!Marks
    BY <2>2, LikeKinds DEF KeyKinds, P!D!Marks, D!Marks, P!D!StreamKinds, D!StreamKinds
  <2>5. P!D!DataAt(h, j) = D!DataAt(h, j)
    BY <2>3 DEF P!D!DataAt, D!DataAt, P!D!KindAt, D!KindAt
  <2>6. P!D!NumData(h, j) = D!NumData(h, j)
    BY <2>5, SameCount DEF P!D!NumData, D!NumData
  <2>7. \A m \in (h + 1)..(j - 1) : m \in (h + 1)..j
    BY <1>0
  <2>8. D!Within(h, j)
    BY <1>4, <2>1, <2>4, <2>7 DEF D!Within, D!Inside, D!KindAt, P!D!Within, P!D!Inside, P!D!KindAt
  <2>9. j \in DOMAIN wire
    BY LikeKinds
  <2> QED BY <2>1, <2>6, <2>8, <2>9
<1>5. ASSUME NEW h \in DOMAIN out, NEW j \in DOMAIN out, P!D!Within(h, j)
      PROVE  P!D!Placed(h, j) /\ P!D!Carried(h, j)
  <2>1. CASE out[j].kind = "Partial"
    BY <2>1 DEF P!D!Placed, P!D!Carried, P!D!KindAt
  <2>2. CASE out[j].kind # "Partial"
    <3>1. j \in 1..n
      BY <2>2 DEF Like
    <3>2. /\ h \in DOMAIN wire /\ j \in DOMAIN wire /\ wire[h] = out[h] /\ D!Within(h, j)
          /\ P!D!NumData(h, j) = D!NumData(h, j)
      BY <1>4, <1>5, <3>1
    <3>3. D!Placed(h, j) /\ D!Carried(h, j)
      BY <3>2 DEF D!DataPlaced, D!DataCarried
    <3>4. wire[j].kind \notin KeyKinds
      BY <3>3 DEF D!Placed, D!KindAt, KeyKinds
    <3>5. wire[j] = out[j]
      BY <2>2, <3>4, LikeBlocks
    <3>6. P!D!NoKey = D!NoKey
      BY DEF P!D!NoKey, D!NoKey
    <3> QED BY <1>0, <3>2, <3>3, <3>5, <3>6 DEF D!Placed, P!D!Placed, D!Carried, P!D!Carried, D!KindAt, P!D!KindAt,
                                          D!IsOpen, P!D!IsOpen
  <2> QED BY <2>1, <2>2
<1> QED BY <1>1, <1>3, <1>5 DEF P!D!DataPlaced, P!D!DataCarried

\* The keys of the headers are where they were.
LEMMA CopyHeadersFit ==
  ASSUME Original, out \in Seq(W!Blocks), NEW n \in Nat, Like(n)
  PROVE  P!HeadersFit
<1>1. out \in Seq(P!D!Blocks) /\ D!HandlesInv /\ D!HeaderKeys /\ Len(out) \in Nat /\ DOMAIN out = 1..Len(out)
  BY SameTypes DEF Original
<1>2. ASSUME NEW h \in DOMAIN out, out[h].kind = "EncStream"
      PROVE  IF out[h].sid \in DOMAIN handles THEN P!KeyBefore(h, handles[out[h].sid].key) ELSE werr
  <2>1. h \in 1..n /\ h \in DOMAIN wire /\ wire[h] = out[h]
    BY <1>2, LikeBlocks DEF KeyKinds
  <2>2. IF out[h].sid \in DOMAIN handles THEN D!LatestKeyIs(h, handles[out[h].sid].key) ELSE werr
    BY <1>1, <1>2, <2>1 DEF D!HeaderKeys, D!KindAt, D!Opened
  <2>3. ASSUME NEW k, D!LatestKeyIs(h, k) PROVE P!KeyBefore(h, k)
    <3>1. PICK j \in 1..(h - 1) :
            /\ wire[j].kind \in KeyKinds /\ wire[j].key = k
            /\ \A m \in (j + 1)..(h - 1) : wire[m].kind \notin KeyKinds
      BY <2>3 DEF D!LatestKeyIs, D!KindAt, D!KeyKinds, KeyKinds
    <3>2. j \in 1..n /\ \A m \in (j + 1)..(h - 1) : m \in 1..n
      BY <2>1
    <3>3. out[j].kind \in KeyKinds /\ out[j].key = k /\ \A m \in (j + 1)..(h - 1) : out[m].kind \notin KeyKinds
      BY <3>1, <3>2, LikeKinds
    <3> QED BY <3>3 DEF P!KeyBefore, P!KeyKinds, KeyKinds
  <2> QED BY <2>2, <2>3
<1> QED BY <1>1, <1>2 DEF P!HeadersFit

\* What holds of a block of the original holds of it in the copy.
LEMMA FitsInCopy ==
  ASSUME NEW b, D!BlockFits(b)
  PROVE  P!BlockSound(b)
<1>1. P!D!Opened = D!Opened /\ P!D!NoKey = D!NoKey /\ P!NoKey = D!NoKey
  BY DEF P!D!Opened, D!Opened, P!D!NoKey, P!NoKey, D!NoKey
<1>2. \A p : D!Genuine(p) => P!D!Genuine(p)
  BY <1>1 DEF D!Genuine, P!D!Genuine
<1>3. \A body : D!Clear(body) = P!D!Clear(body) /\ D!Clear(body) = P!Clear(body)
  BY DEF D!Clear, P!D!Clear, P!Clear, D!NoKey, P!D!NoKey, P!NoKey
<1>4. b.kind = "Datablock" /\ b.payload.key = D!NoKey =>
        \E c \in Chunks \cup {Bad} : b.payload = P!D!Clear(<<c>>) /\ b.payload = P!Clear(<<c>>)
  BY <1>3 DEF D!BlockFits
<1>5. P!D!BlockFits(b)
  BY <1>1, <1>2, <1>4 DEF D!BlockFits, P!D!BlockFits
<1> QED BY <1>1, <1>4, <1>5 DEF P!BlockSound

LEMMA CopyFeeds ==
  ASSUME Original, CopyInv, ended = TRUE
  PROVE  P!FeedInv /\ P!HeadersFit /\ P!OwnData
<1>1. D!HandlesInv /\ out \in Seq(W!Blocks) /\ wire \in Seq(W!Blocks) /\ DOMAIN wire = 1..Len(wire)
  BY SameBlocks DEF Original, CopyInv
<1>2. PICK n \in Nat : Like(n)
  BY <1>1, CopyIsLike
<1>3. P!D!HandlesInv /\ P!HeadersFit /\ P!OwnData
  BY <1>1, <1>2, SameHandles, CopyHeadersFit DEF P!OwnData
<1>4. ASSUME NEW b \in P!Range(out) PROVE P!BlockSound(b)
  <2>1. PICK i \in DOMAIN out : b = out[i]
    BY DEF P!Range
  <2>2. CASE b.kind = "Partial"
    BY <2>2 DEF P!BlockSound, P!Intact
  <2>3. CASE b.kind \in KeyKinds
    BY <2>3 DEF P!BlockSound, P!D!BlockFits, KeyKinds
  <2>4. CASE b.kind \notin KeyKinds \cup {"Partial"}
    <3>1. i \in DOMAIN wire /\ b = wire[i]
      BY <1>2, <2>1, <2>4, LikeBlocks
    <3>2. D!BlockFits(b)
      BY <3>1 DEF Original, Range
    <3> QED BY <3>2, FitsInCopy
  <2> QED BY <2>2, <2>3, <2>4
<1>5. Disciplined => P!StreamsKept
  BY <1>1, <1>2, CopyStreams DEF Original, D!StreamsInv, P!StreamsKept
<1> QED BY <1>3, <1>4, <1>5 DEF P!FeedInv

\* When ReplaceKeys returned nil the copy is whole.
LEMMA CopyIsWhole ==
  ASSUME CopyInv, wire \in Seq(W!Blocks), cret = "nil"
  PROVE  P!WholeInput
<1>1. out # <<>> /\ Copied(Len(out)) /\ out[Len(out)].kind \in Ends /\ Len(out) \in Nat /\ DOMAIN out = 1..Len(out)
  BY DEF CopyInv
<1>2. ASSUME NEW i \in DOMAIN out
      PROVE  out[i].kind # "Partial" /\ (i # Len(out) => out[i].kind \notin Ends)
  <2>1. SameBlock(out[i], wire[i]) /\ wire[i].kind # "Partial"
    BY <1>1 DEF Copied, BlockCopied
  <2>2. i # Len(out) => wire[i].kind \notin Ends
    BY <1>1 DEF Copied
  <2> QED BY <2>1, <2>2 DEF SameBlock, KeyKinds, Ends
<1> QED BY <1>1, <1>2 DEF P!WholeInput, P!EndKinds, Ends

----------------------------------------------------------------------------
(* The Reader of the copy is the Reader of that pipe.                       *)

LEMMA SameInput ==
  /\ R!HasBlock <=> P!R!HasBlock
  /\ R!Block = P!R!Block
  /\ R!Drained <=> P!R!Drained
  /\ \A loop : R!AtEnd(loop) = P!R!AtEnd(loop)
  /\ \A e : R!Kept(e) = P!R!Kept(e)
  /\ \A c, e : R!Return(c, e) <=> P!R!Return(c, e)
  /\ R!Calling <=> P!R!Calling
  /\ R!Proceed <=> P!R!Proceed
  /\ R!Stopped <=> P!R!Stopped
BY DEF R!HasBlock, P!R!HasBlock, R!Block, P!R!Block, R!Drained, P!R!Drained, R!AtEnd, P!R!AtEnd,
       R!Kept, P!R!Kept, R!Return, P!R!Return, R!Calling, P!R!Calling, R!Proceed, P!R!Proceed,
       R!Stopped, P!R!Stopped, R!Failures, P!R!Failures

LEMMA SameReaderInit == R!Init => P!R!Init
BY DEF R!Init, P!R!Init, R!NoKey, P!R!NoKey, R!NoStream, P!R!NoStream

LEMMA SameSetters == R!Setters => P!R!Setters
BY DEF R!Setters, P!R!Setters, R!Configure, P!R!Configure, R!SetPrivateKey, P!R!SetPrivateKey,
       R!PrivateKeyProvider, P!R!PrivateKeyProvider, R!SkipEncrypted, P!R!SkipEncrypted,
       R!ReturnNonDecryptable, P!R!ReturnNonDecryptable

LEMMA SameNewReader == R!NewReader => P!R!NewReader
BY SameInput DEF R!NewReader, P!R!NewReader

LEMMA SameNextStream == R!NextStream => P!R!NextStream
BY SameInput DEF R!NextStream, P!R!NextStream

LEMMA SameKinds ==
  /\ R!KeyKinds = P!R!KeyKinds /\ R!StreamKinds = P!R!StreamKinds /\ R!NoKey = P!R!NoKey
  /\ R!Discarded = P!R!Discarded
BY DEF R!KeyKinds, P!R!KeyKinds, R!StreamKinds, P!R!StreamKinds, R!NoKey, P!R!NoKey,
       R!Discarded, P!R!Discarded

LEMMA SameNextBlock == R!NextBlock => P!R!NextBlock
<1>1. \A b : R!NextEncryptedKey(b) => P!R!NextEncryptedKey(b)
  BY SameInput, SameKinds DEF R!NextEncryptedKey, P!R!NextEncryptedKey, R!PrivateFor, P!R!PrivateFor
<1>2. \A b, k, e : R!Deliver(b, k, e) => P!R!Deliver(b, k, e)
  BY SameInput, SameKinds DEF R!Deliver, P!R!Deliver, R!HasReader, P!R!HasReader, R!StreamOf, P!R!StreamOf,
     R!NoStream, P!R!NoStream
<1>3. \A b : R!PlainKeyRead(b) = P!R!PlainKeyRead(b)
  BY DEF R!PlainKeyRead, P!R!PlainKeyRead
<1> SUFFICES ASSUME R!NextBlock PROVE P!R!NextBlock
  OBVIOUS
<1>4. PICK b : b = R!Block
  OBVIOUS
<1>5. b = P!R!Block /\ P!R!HasBlock
  BY <1>4, SameInput DEF R!NextBlock
<1>6. CASE b.kind \in {"Datablock", "EOS", "EOF"}
  BY <1>4, <1>5, <1>6, SameInput DEF R!NextBlock, P!R!NextBlock
<1>7. CASE b.kind = "EncStream"
  BY <1>2, <1>4, <1>5, <1>7, SameKinds DEF R!NextBlock, P!R!NextBlock
<1>8. CASE b.kind \notin {"Datablock", "EOS", "EOF", "EncStream"}
  <2>1. CASE b.kind = "EncryptedKey"
    BY <1>1, <1>4, <1>5, <2>1 DEF R!NextBlock, P!R!NextBlock
  <2>2. CASE b.kind = "PlainStream"
    BY <1>2, <1>4, <1>5, <2>2 DEF R!NextBlock, P!R!NextBlock
  <2>3. CASE b.kind \notin {"EncryptedKey", "PlainStream"}
    BY <1>3, <1>4, <1>5, <1>8, <2>3, SameInput DEF R!NextBlock, P!R!NextBlock
  <2> QED BY <2>1, <2>2, <2>3
<1> QED BY <1>6, <1>7, <1>8

LEMMA SameNextAtEnd == R!NextAtEnd => P!R!NextAtEnd
BY SameInput DEF R!NextAtEnd, P!R!NextAtEnd

LEMMA SameSkip ==
  /\ R!Skip => P!R!Skip
  /\ R!SkipBlock => P!R!SkipBlock
  /\ R!SkipAtEnd => P!R!SkipAtEnd
<1>1. \A e : R!SkipReturns(e) => P!R!SkipReturns(e)
  BY SameInput DEF R!SkipReturns, P!R!SkipReturns, R!Ended, P!R!Ended, R!EndOf, P!R!EndOf
<1>2. R!Skip => P!R!Skip
  BY SameInput DEF R!Skip, P!R!Skip
<1>3. R!SkipBlock => P!R!SkipBlock
  BY <1>1, SameInput, SameKinds DEF R!SkipBlock, P!R!SkipBlock
<1>4. R!SkipAtEnd => P!R!SkipAtEnd
  BY <1>1, SameInput DEF R!SkipAtEnd, P!R!SkipAtEnd
<1> QED BY <1>2, <1>3, <1>4

LEMMA SameSource ==
  /\ \A p, l : R!Opens(p, l) <=> P!R!Opens(p, l)
  /\ \A body : R!Received(body) = P!R!Received(body)
  /\ \A e : R!Ended(e) = P!R!Ended(e)
  /\ \A c, e : R!SourceReturns(c, e) => P!R!SourceReturns(c, e)
<1>1. /\ \A p, l : R!Opens(p, l) <=> P!R!Opens(p, l)
      /\ \A body : R!Received(body) = P!R!Received(body)
      /\ \A e : R!Ended(e) = P!R!Ended(e)
  BY DEF R!Opens, P!R!Opens, R!Received, P!R!Received, R!Ended, P!R!Ended
<1>2. ASSUME NEW c, NEW e, R!SourceReturns(c, e) PROVE P!R!SourceReturns(c, e)
  <2>1. PICK opened \in BOOLEAN : opened = (c.pend # <<>> /\ R!Opens(c.pend[1], TRUE))
    OBVIOUS
  <2>2. PICK r : r = IF c.kind = "enc" /\ e = "EOF" /\ ~opened THEN "NotAuthentic" ELSE e
    OBVIOUS
  <2>3. PICK body : body = IF c.kind = "enc" /\ e = "EOF" /\ opened THEN c.pend[1].body ELSE <<>>
    OBVIOUS
  <2>4. PICK g : g = R!Received(body)
    OBVIOUS
  <2>5. /\ cur' = [c EXCEPT !.dead = IF c.kind = "enc" THEN r ELSE @, !.done = (@ \/ r = "EOF")]
        /\ got' = [g EXCEPT ![Len(got)].end = IF @ = "open" THEN r ELSE @]
        /\ R!Return("read", r)
    BY <1>2, <2>1, <2>2, <2>3, <2>4 DEF R!SourceReturns
  <2>6. /\ opened = (c.pend # <<>> /\ P!R!Opens(c.pend[1], TRUE)) /\ g = P!R!Received(body)
        /\ P!R!Return("read", r)
    BY <1>1, <2>1, <2>4, <2>5, SameInput
  <2> QED BY <2>2, <2>3, <2>5, <2>6 DEF P!R!SourceReturns
<1> QED BY <1>1, <1>2

LEMMA SameRead ==
  /\ R!Read => P!R!Read
  /\ R!ReadBlock => P!R!ReadBlock
  /\ R!ReadAtEnd => P!R!ReadAtEnd
<1>1. R!Read => P!R!Read
  BY SameInput, SameSource DEF R!Read, P!R!Read
<1>2. \A p : R!ReadData(p) => P!R!ReadData(p)
  BY SameInput, SameSource DEF R!ReadData, P!R!ReadData
<1>3. \A b : R!ReadEOS(b) => P!R!ReadEOS(b)
  BY SameInput, SameSource DEF R!ReadEOS, P!R!ReadEOS, R!SumMatches, P!R!SumMatches
<1>4. R!ReadBlock => P!R!ReadBlock
  BY <1>2, <1>3, SameInput, SameSource, SameKinds DEF R!ReadBlock, P!R!ReadBlock
<1>5. R!ReadAtEnd => P!R!ReadAtEnd
  BY SameInput, SameSource DEF R!ReadAtEnd, P!R!ReadAtEnd
<1> QED BY <1>1, <1>4, <1>5

LEMMA SameReaderNext == R!Next => P!R!Next
BY SameSetters, SameNewReader, SameNextStream, SameNextBlock, SameNextAtEnd, SameSkip, SameRead
   DEF R!Next, P!R!Next, R!Progress, P!R!Progress


\* A call that returns says which it was and how it ended.
RetIs == \E c, e : ret = [call |-> c, err |-> e]
LEMMA ReturnsAre ==
  ASSUME R!Next, RetIs
  PROVE  RetIs'
<1>0. \A c, e : R!SourceReturns(c, e) => \E x : R!Return("read", x)
  BY DEF R!SourceReturns
<1>1. ASSUME ret' = ret \/ \E c, e : R!Return(c, e) PROVE RetIs'
  BY <1>1 DEF RetIs, R!Return
<1>2. \A e : R!SkipReturns(e) => ret' = ret \/ \E c, x : R!Return(c, x)
  BY DEF R!SkipReturns
<1>3. R!Setters => ret' = ret
  BY DEF R!Setters, R!SetPrivateKey, R!PrivateKeyProvider, R!SkipEncrypted, R!ReturnNonDecryptable, R!Configure
<1>4. R!NextStream => ret' = ret \/ \E e : R!Return("next", e)
  BY DEF R!NextStream
<1>5. R!NewReader => \E e : ret' = [call |-> "new", err |-> e]
  BY DEF R!NewReader, R!Return
<1>6. R!NextBlock \/ R!NextAtEnd => ret' = ret \/ \E e : R!Return("next", e)
  <2>1. \A b : R!NextEncryptedKey(b) => ret' = ret \/ \E e : R!Return("next", e)
    BY DEF R!NextEncryptedKey, R!Proceed
  <2>2. \A b, k, e : R!Deliver(b, k, e) => R!Return("next", e)
    BY DEF R!Deliver
  <2> QED BY <2>1, <2>2 DEF R!NextBlock, R!NextAtEnd, R!Proceed
<1>7. R!Skip \/ R!SkipBlock \/ R!SkipAtEnd => ret' = ret \/ \E c, e : R!Return(c, e)
  BY <1>2 DEF R!Skip, R!SkipBlock, R!SkipAtEnd, R!Proceed
<1>8. R!Read \/ R!ReadBlock \/ R!ReadAtEnd => ret' = ret \/ \E e : R!Return("read", e)
  <2>1. \A p : R!ReadData(p) => ret' = ret \/ \E e : R!Return("read", e)
    BY DEF R!ReadData, R!Proceed
  <2>2. \A b : R!ReadEOS(b) => \E e : R!Return("read", e)
    BY <1>0 DEF R!ReadEOS
  <2>3. R!Read => ret' = ret \/ \E e : R!Return("read", e)
    BY <1>0 DEF R!Read
  <2>4. R!ReadBlock => ret' = ret \/ \E e : R!Return("read", e)
    BY <1>0, <2>1, <2>2 DEF R!ReadBlock
  <2>5. R!ReadAtEnd => \E e : R!Return("read", e)
    BY <1>0 DEF R!ReadAtEnd
  <2> QED BY <2>3, <2>4, <2>5
<1>9. (\E e : ret' = [call |-> "new", err |-> e]) => RetIs'
  BY DEF RetIs
<1> QED BY <1>1, <1>3, <1>4, <1>5, <1>6, <1>7, <1>8, <1>9 DEF R!Next, R!Progress

----------------------------------------------------------------------------
(* What the copy holds.                                                     *)

\* Inductive invariant: the original and the copy are in order; once the copy is
\* read, what the Reader has is what a pipe that breaks off lets through, and what
\* a careful caller is told of a whole copy, and given of it, is there.
ReadInv ==
  /\ RekeyInv /\ Original /\ ended = TRUE /\ RetIs
  /\ phase = "read" =>
       /\ P!ReceiveInv
       /\ Careful => P!ReaderInv
       /\ Careful /\ Disciplined /\ cret = "nil" => P!Sound /\ Given

LEMMA ReadStart == Init => ReadInv
<1> SUFFICES ASSUME Init PROVE ReadInv
  OBVIOUS
<1>1. RekeyInv /\ Original
  BY RekeyStart, OriginalStart
<1>2. ended = TRUE /\ RetIs /\ phase = "write"
  BY DEF Init, R!Init, RetIs
<1> QED BY <1>1, <1>2 DEF ReadInv

\* When the Writer is done the original stays.
LEMMA OriginalStays ==
  ASSUME Original, UNCHANGED wvars
  PROVE  Original'
<1>1. UNCHANGED <<wire, werr, wkey, nkeys, nonce, handles, adds, errors, closes>> /\ UNCHANGED D!wvars
  BY DEF wvars, D!wvars
<1>2. D!HandlesInv /\ D!TypeOK
  BY DEF Original, D!HandlesInv
<1>3. D!HandlesInv' /\ D!HandlesGrow
  BY <1>1, <1>2, D!HandlesStep, RekeyWriter
<1>4. D!SealInv' /\ D!HeaderKeys'
  BY <1>1, <1>2, D!SealStep, D!HeaderStep, RekeyWriter DEF Original
<1>5. Disciplined => D!StreamsInv' /\ D!DataCarried'
  BY <1>1, <1>2, D!StreamsStep, RekeyWriter DEF Original
<1>6. D!ErrorsTold' /\ (Disciplined => D!EndsLast' /\ D!ErrorsLast')
  BY <1>1 DEF Original, D!ErrorsTold, D!EndsLast, D!ErrorsLast
<1>7. (\A b \in Range(wire) : D!BlockFits(b))'
  <2>1. ASSUME NEW b \in Range(wire') PROVE D!BlockFits(b)'
    <3>1. D!BlockFits(b)
      BY <1>1, <2>1 DEF Original, Range
    <3> QED BY <1>2, <1>3, <3>1, D!FitsStay, RekeyWriter
  <2> QED BY <2>1
<1> QED BY <1>3, <1>4, <1>5, <1>6, <1>7 DEF Original

\* What such a Reader finds in a whole copy.
LEMMA CertainFound ==
  ASSUME P!Certain
  PROVE  Finds
<1>1. Careful /\ P!ReceiveInv /\ P!HeadersFit
  BY DEF P!Certain, P!Reading
<1>2. out' = out /\ handles' = handles /\ rpos \in Nat \ {0} /\ out \in Seq(P!D!Blocks) /\ P!ReaderTypes
  BY P!CertainFinds, CopyPipe
<1>3. EntriesAre
  <2>1. got \in Seq(P!Entries)
    BY <1>2 DEF P!ReaderTypes
  <2>2. ASSUME NEW g \in P!Entries PROVE {"sid", "kind", "data", "end"} \subseteq DOMAIN g
    BY <2>2 DEF P!Entries
  <2> QED BY <2>1, <2>2 DEF EntriesAre
<1>4. ASSUME NEW h \in DOMAIN out PROVE KeyedHeader(h)
  <2>1. out[h].kind = "EncStream" /\ out[h].sid \in DOMAIN handles => P!KeyBefore(h, handles[out[h].sid].key)
    BY <1>1 DEF P!HeadersFit
  <2> QED BY <2>1 DEF KeyedHeader, P!KeyBefore, P!KeyKinds, KeyKinds
<1>5. ASSUME NEW h \in DOMAIN out, out[h].kind \in KeyKinds PROVE out[h].key # NoKey
  <2>1. out[h] \in P!D!Blocks
    BY <1>2
  <2>2. PICK b : b = out[h] /\ b \in P!D!Blocks
    BY <2>1
  <2> QED BY <1>5, <2>2, RekeyAssumption DEF RekeyAssumption, P!D!Blocks, P!D!VersionBlock, P!D!EOFBlock, P!D!ErrorBlock,
       P!D!Skippable, NoKey, KeyKinds
<1>6. ASSUME rpc # "idle" \/ ~R!Stopped
      PROVE  rpos \in DOMAIN out /\ ~R!Drained /\ rerr = "nil" /\ ~R!Stopped /\ (cur.kind # "none" => got # <<>>)
  BY <1>2, <1>6, SameInput, P!Running, CopyPipe
<1>7. rpc \in {"skip", "read"} => cur.kind # "none"
  BY DEF P!Certain, P!Sound, P!SoundLoop
<1>8. rpc = "read" => cur.kind \in {"plain", "enc"}
  BY <1>1 DEF P!ReceiveInv
<1>9. ASSUME rpc = "idle", ~R!Stopped, cur.kind \in {"plain", "enc"}, ~cur.done
      PROVE  cur.dead = "nil" /\ ~cur.isEOF
  <2>1. ~P!R!Stopped
    BY <1>9, SameInput
  <2> QED BY <1>9, <2>1 DEF P!Certain, P!Sound, P!SoundStream, P!InFull
<1> QED BY <1>1, <1>2, <1>3, <1>4, <1>5, <1>6, <1>7, <1>8, <1>9 DEF Finds

\* When the copy is handed to its Reader.
LEMMA ReadingStarts ==
  ASSUME ReadInv, phase # "read"
  PROVE  P!ReceiveInv /\ P!ReaderInv /\ (cret = "nil" => P!Sound) /\ Given
<1>1. P!R!Init /\ R!Init
  BY SameReaderInit DEF ReadInv, RekeyInv
<1>2. wire \in Seq(W!Blocks) /\ CopyInv /\ Len(out) \in Nat
  BY SameBlocks DEF ReadInv, RekeyInv, CopyInv
<1>3. P!ReceiveInv /\ P!ReaderInv
  BY <1>1, <1>2, P!ReceiverFresh, P!ReaderFresh, CopyPipe
<1>4. cret = "nil" => P!Sound
  BY <1>1, <1>2, CopyIsWhole, P!SoundStart, CopyPipe
<1>5. Given
  <2>1. rpos = 1 /\ opt = [skip |-> FALSE, nondec |-> FALSE] /\ rpc # "pass"
    BY <1>1 DEF R!Init
  <2> QED BY <2>1 DEF Given, Handed, NoKeyYet
<1> QED BY <1>3, <1>4, <1>5

\* A step of the Reader.
LEMMA ReadingGoesOn ==
  ASSUME ReadInv, ReaderStep
  PROVE  /\ P!ReceiveInv' /\ ended' = ended /\ RetIs'
         /\ Careful => P!ReaderInv'
         /\ Careful /\ Disciplined /\ cret = "nil" => P!Sound' /\ Given'
<1>1. phase = "read" /\ R!Next /\ UNCHANGED <<wvars, copy>> /\ (sets' # sets => opt' = opt)
  BY DEF ReaderStep
<1>2. P!ReaderStep /\ P!R!Next
  <2>1. P!R!Next
    BY <1>1, SameReaderNext
  <2> QED BY <1>1, <2>1 DEF P!ReaderStep, P!wown, wvars
<1>3. P!FeedInv /\ P!HeadersFit /\ P!OwnData /\ P!ReceiveInv
  BY <1>1, CopyFeeds DEF ReadInv, RekeyInv
<1>4. P!ReceiveInv'
  BY <1>2, <1>3, P!ReaderReceives, CopyPipe
<1>5. UNCHANGED <<out, P!wown, ended>>
  BY <1>2, P!ReaderLeaves, CopyPipe
<1>6. ASSUME Careful PROVE P!ReaderInv'
  <2>1. P!Reads
    BY <1>1, <1>3, <1>5, <1>6 DEF ReadInv, P!Reads
  <2> QED BY <1>2, <1>6, <2>1, P!ReaderKeepsInv, CopyPipe
<1>7. ASSUME Careful, Disciplined, cret = "nil" PROVE P!Sound' /\ Given'
  <2>1. P!WholeInput
    BY <1>7, CopyIsWhole, SameBlocks DEF ReadInv, RekeyInv
  <2>2. P!Certain
    BY <1>1, <1>3, <1>5, <1>7, <2>1 DEF ReadInv, P!Certain, P!Reading
  <2>3. P!Sound'
    BY <1>2, <2>2, P!ReaderSound, CopyPipe
  <2>4. sets \in Nat /\ Given
    BY <1>1, <1>7 DEF ReadInv, RekeyInv, KeysRead
  <2>5. Given'
    BY <1>1, <2>2, <2>4, CertainFound, ReaderGives
  <2> QED BY <2>3, <2>5
<1>8. RetIs'
  BY <1>1, ReturnsAre DEF ReadInv
<1> QED BY <1>4, <1>5, <1>6, <1>7, <1>8

\* The Reader's state, and what it reads, when neither changes.
LEMMA ReadingStays ==
  ASSUME ReadInv, P!ReceiveInv, Careful => P!ReaderInv, UNCHANGED <<wvars, copy, rown>>
  PROVE  P!ReceiveInv' /\ (Careful => P!ReaderInv') /\ (P!Sound => P!Sound') /\ (Given => Given')
<1>1. UNCHANGED <<wire, werr, wkey, nkeys, nonce, handles, adds, errors, closes, out>>
  BY DEF wvars, copy
<1>2. UNCHANGED <<ended, rpos, rerr, inStream, rkey, src, opt, rpc, cur, ret, got, calls, sets>>
  BY DEF rown
<1>3. UNCHANGED P!vars
  BY <1>1, <1>2 DEF P!vars, P!wown, P!rown
<1>4. P!FeedInv /\ P!HeadersFit /\ ended = TRUE
  BY CopyFeeds DEF ReadInv, RekeyInv
<1>5. P!ReceiveInv'
  BY <1>3, <1>4, P!ReceiveGoesOn, CopyPipe
<1>6. Careful => P!ReaderInv'
  <2>1. P!PipeInv
    BY <1>4 DEF P!PipeInv
  <2> QED BY <1>3, <2>1, P!PipeGoesOn, CopyPipe
<1>7. P!SoundLoop => P!SoundLoop'
  BY <1>1, <1>2 DEF P!SoundLoop, P!AtStop, P!R!Stopped
<1>8. P!SoundStream => P!SoundStream'
  <2>1. \A h, c : P!HeaderOf(h, c) => P!HeaderOf(h, c)'
    BY <1>1, <1>2 DEF P!HeaderOf, P!D!Inside, P!D!KindAt, P!D!NumData, P!D!DataAt, P!D!Opened, P!D!Cardinality
  <2>2. \A c : P!InFull(c) => P!InFull(c)'
    BY <1>2, <2>1 DEF P!InFull, P!HeldBack
  <2>3. \A c : c = cur /\ P!InFull(c)' => P!InFull(cur)'
    BY <1>2 DEF P!InFull, P!HeldBack, P!HeaderOf
  <2> QED BY <1>2, <2>2, <2>3 DEF P!SoundStream, P!R!Stopped
<1>9. P!NoFaults /\ P!Told => P!NoFaults' /\ P!Told'
  BY <1>1, <1>2 DEF P!NoFaults, P!Told, P!ReportedEnd
<1>10. P!Passed => P!Passed'
  <2>1. P!Accounted => P!Accounted'
    BY <1>1, <1>2 DEF P!Accounted, P!Known, P!Locked
  <2>2. P!KeyKept => P!KeyKept'
    BY <1>1, <1>2 DEF P!KeyKept, P!KeyBefore
  <2> QED BY <1>2, <2>1, <2>2 DEF P!Passed, P!R!Stopped, P!ReportedEnd
<1>11. Given => Given'
  BY <1>1, <1>2 DEF Given, Handed, NoKeyYet, R!Stopped, Arrived
<1> QED BY <1>5, <1>6, <1>7, <1>8, <1>9, <1>10, <1>11 DEF P!Sound

LEMMA ReadGoesOn == ReadInv /\ [Next]_vars => ReadInv'
<1> SUFFICES ASSUME ReadInv, [Next]_vars PROVE ReadInv'
  OBVIOUS
<1>1. RekeyInv'
  BY RekeyGoesOn DEF ReadInv
<1>2. RekeyInv /\ Original /\ ended = TRUE /\ RetIs
  BY DEF ReadInv
<1>3. UNCHANGED wvars => Original'
  BY <1>2, OriginalStays
<1>4. UNCHANGED rown => ended' = TRUE /\ RetIs'
  BY <1>2 DEF rown, RetIs
<1>5. CASE WriterStep
  <2>1. Original' /\ UNCHANGED rown /\ phase' # "read"
    BY <1>2, <1>5, OriginalStep DEF WriterStep
  <2> QED BY <1>1, <1>4, <2>1 DEF ReadInv
<1>6. CASE StartCopy
  BY <1>1, <1>3, <1>4, <1>6 DEF StartCopy, ReadInv
<1>7. CASE CopyStep
  BY <1>1, <1>3, <1>4, <1>7 DEF CopyStep, ReadInv
<1>8. CASE StartRead
  <2>1. UNCHANGED <<wvars, copy, rown>> /\ phase # "read" /\ cret' = cret
    BY <1>8 DEF StartRead, copy
  <2>2. P!ReceiveInv /\ P!ReaderInv /\ (cret = "nil" => P!Sound) /\ Given
    BY <2>1, ReadingStarts
  <2>3. P!ReceiveInv' /\ (Careful => P!ReaderInv') /\ (P!Sound => P!Sound') /\ (Given => Given')
    BY <2>1, <2>2, ReadingStays
  <2> QED BY <1>1, <1>3, <1>4, <2>1, <2>2, <2>3 DEF ReadInv
<1>9. CASE ReaderStep
  <2>1. phase = "read" /\ UNCHANGED <<wvars, phase>> /\ cret' = cret
    BY <1>9 DEF ReaderStep, copy
  <2> QED BY <1>1, <1>2, <1>3, <1>9, <2>1, ReadingGoesOn DEF ReadInv
<1>10. CASE UNCHANGED vars
  <2>1. UNCHANGED <<wvars, copy, rown, phase>> /\ cret' = cret
    BY <1>10 DEF vars, copy
  <2>2. ASSUME phase = "read"
        PROVE  /\ P!ReceiveInv' /\ (Careful => P!ReaderInv')
               /\ Careful /\ Disciplined /\ cret = "nil" => P!Sound' /\ Given'
    BY <2>1, <2>2, ReadingStays DEF ReadInv
  <2> QED BY <1>1, <1>3, <1>4, <2>1, <2>2 DEF ReadInv
<1> QED BY <1>5, <1>6, <1>7, <1>8, <1>9, <1>10 DEF Next

----------------------------------------------------------------------------
(* What the Reader of the copy is given.                                    *)

\* Before the copy is read nothing has been received.
LEMMA ReadInvMeans ==
  ASSUME ReadInv, Disciplined, Careful
  PROVE  CopyReadsAsOriginal
<1>1. CASE phase # "read"
  BY <1>1 DEF ReadInv, RekeyInv, R!Init, CopyReadsAsOriginal
<1>2. CASE phase = "read"
  <2>1. P!FeedInv /\ P!ReceiveInv
    BY <1>2, CopyFeeds DEF ReadInv, RekeyInv
  <2>2. P!EncryptedReceived /\ P!ReceivedIsPrefix
    BY <2>1, P!ReceiveInvMeans, CopyPipe
  <2>3. DOMAIN got = 1..Len(got)
    BY <2>1 DEF P!ReceiveInv, P!ReaderTypes
  <2>4. cret = "nil" => P!NoFaults
    BY <1>2 DEF ReadInv, P!Sound
  <2>5. \A s : P!Wrote(s) = Wrote(s)
    BY DEF P!Wrote, Wrote
  <2>6. \A i \in DOMAIN got : IsPrefix(got[i].data, Wrote(got[i].sid))
    BY <2>2, <2>5 DEF P!ReceivedIsPrefix, IsPrefix, P!IsPrefix
  <2>7. \A i \in DOMAIN got : got[i].kind = "enc" /\ got[i].end = "EOF" => got[i].data = Wrote(got[i].sid)
    BY <2>2, <2>5 DEF P!EncryptedReceived
  <2>8. cret = "nil" => \A i \in DOMAIN got : got[i].end \notin P!Faults
    BY <2>3, <2>4 DEF P!NoFaults
  <2> QED BY <2>6, <2>7, <2>8 DEF CopyReadsAsOriginal, P!Faults
<1> QED BY <1>1, <1>2

\* The last block of a whole copy is that of the original that ends it, and all
\* headers are before it.
LEMMA CopyEnds ==
  ASSUME ReadInv, cret = "nil", Disciplined
  PROVE  /\ out[Len(out)].kind = "Error" => errors > 0
         /\ out[Len(out)].kind = "EOF" => closes # <<>>
         /\ \A s \in DOMAIN handles :
              \E h \in 1..(Len(out) - 1) : out[h].kind \in P!StreamKinds /\ out[h].sid = s
<1>1. /\ Copied(Len(out)) /\ Len(out) \in Nat \ {0} /\ Len(wire) \in Nat
      /\ DOMAIN wire = 1..Len(wire) /\ wire \in Seq(W!Blocks) /\ out[Len(out)].kind \in Ends
  <2>1. out # <<>> /\ Copied(Len(out)) /\ out \in Seq(W!Blocks) /\ wire \in Seq(W!Blocks)
        /\ out[Len(out)].kind \in Ends
    BY SameBlocks DEF ReadInv, RekeyInv, CopyInv
  <2> QED BY <2>1
<1>2. PICK n : n = Len(out)
  OBVIOUS
<1>3. n \in 1..Len(wire) /\ \A i \in 1..n : SameBlock(out[i], wire[i])
  BY <1>1, <1>2 DEF Copied, BlockCopied
<1>4. SameBlock(out[n], wire[n])
  BY <1>1, <1>2, <1>3
<1>5. wire[n].kind = out[n].kind
  BY <1>1, <1>2, <1>4 DEF SameBlock, KeyKinds, Ends
<1>6. out[n].kind = "Error" => errors > 0
  BY <1>1, <1>3, <1>5 DEF ReadInv, Original, D!ErrorsTold
<1>7. out[n].kind = "EOF" => closes # <<>>
  BY <1>1, <1>3, <1>5 DEF ReadInv, Original, D!EndsLast
<1>8. \A h \in DOMAIN wire : wire[h].kind \in D!StreamKinds => h < n
  BY <1>1, <1>2, <1>3, <1>5 DEF ReadInv, Original, D!EndsLast, D!ErrorsLast, Ends
<1>9. ASSUME NEW s \in DOMAIN handles
      PROVE  \E h \in 1..(n - 1) : out[h].kind \in P!StreamKinds /\ out[h].sid = s
  <2>1. PICK h \in DOMAIN wire : wire[h] = D!Header(s)
    BY <1>9 DEF ReadInv, Original, D!StreamsInv, D!HeadersSent, D!Opened
  <2>2. wire[h].kind \in D!StreamKinds /\ wire[h].sid = s
    BY <2>1 DEF D!Header, D!EncStream, D!PlainStream, D!StreamKinds
  <2>3. h \in 1..n /\ h \in 1..(n - 1)
    BY <1>1, <1>3, <1>8, <2>2
  <2>4. SameBlock(out[h], wire[h])
    BY <1>3, <2>3
  <2>5. out[h] = wire[h]
    BY <2>2, <2>4 DEF SameBlock, KeyKinds, D!StreamKinds
  <2> QED BY <2>2, <2>3, <2>5 DEF D!StreamKinds, P!StreamKinds
<1> QED BY <1>2, <1>6, <1>7, <1>9

LEMMA WholeCopyMeans ==
  ASSUME ReadInv, Disciplined, Careful
  PROVE  NilMeansWholeCopy
<1> SUFFICES ASSUME cret = "nil", Arrived
             PROVE  /\ ret.err # "Unexpected"
                    /\ ret.err = "EOF" => closes # <<>>
                    /\ ret.err = "Message" => errors > 0
                    /\ \A s \in DOMAIN handles :
                         \E i \in DOMAIN got : got[i].sid = s /\ got[i].kind # "nokey"
  BY DEF NilMeansWholeCopy
<1>1. phase = "read"
  <2>1. phase # "read" => ret = [call |-> "none", err |-> "nil"]
    BY DEF ReadInv, RekeyInv, R!Init
  <2> QED BY <2>1 DEF Arrived
<1>2. P!Told /\ P!ReceiveInv /\ Given
  BY <1>1 DEF ReadInv, P!Sound
<1>3. DOMAIN got = 1..Len(got) /\ rpos \in Nat
  BY <1>2 DEF P!ReceiveInv, P!ReaderTypes
<1>4. ret.err # "Unexpected"
  BY <1>2 DEF P!Told
<1>5. /\ ret.err = "Message" => out[Len(out)].kind = "Error"
      /\ ret.err # "Message" => out[Len(out)].kind = "EOF"
      /\ rpos = Len(out) + 1
  <2>1. ret.err # "Message" => P!ReportedEnd
    BY <1>4 DEF Arrived, P!ReportedEnd
  <2> QED BY <1>2, <2>1 DEF P!Told
<1>6. /\ ret.err = "EOF" => closes # <<>>
      /\ ret.err = "Message" => errors > 0
  <2>1. ret.err = "EOF" => ret.err # "Message"
    OBVIOUS
  <2> QED BY <1>5, <2>1, CopyEnds
<1>7. ASSUME NEW s \in DOMAIN handles
      PROVE  \E i \in DOMAIN got : got[i].sid = s /\ got[i].kind # "nokey"
  <2>1. PICK h \in 1..(Len(out) - 1) : out[h].kind \in P!StreamKinds /\ out[h].sid = s
    BY CopyEnds
  <2>2. h \in 1..(rpos - 1)
    BY <1>3, <1>5, <2>1
  <2> QED BY <1>2, <1>3, <1>7, <2>1, <2>2 DEF Given, Handed, P!StreamKinds, StreamKinds
<1> QED BY <1>4, <1>6, <1>7

\* Whatever keys ReplaceFn names, and wherever the copying stops, a careful reader
\* of a copy of what a disciplined caller wrote receives the streams of the
\* original: data from their beginning, all of it when an encrypted stream ends
\* with io.EOF, and, when ReplaceKeys returned nil, no stream that is reported to
\* be broken (stream.go:121, :172; reader.go:161, :211).
THEOREM RekeyReadsAsOriginal == Spec => [](Disciplined /\ Careful => CopyReadsAsOriginal)
<1>1. Spec => []ReadInv
  BY ReadStart, ReadGoesOn, PTL DEF Spec
<1>2. ReadInv => (Disciplined /\ Careful => CopyReadsAsOriginal)
  BY ReadInvMeans
<1> QED BY <1>1, <1>2, PTL

\* When ReplaceKeys returned nil such a reader comes to the end that the Writer
\* wrote, or to its error message, and has then been given every stream of the
\* original, opened: one that lacks a key stops before (stream.go:205, :210;
\* reader.go:286).
THEOREM RekeyNilMeansWhole == Spec => [](Disciplined /\ Careful => NilMeansWholeCopy)
<1>1. Spec => []ReadInv
  BY ReadStart, ReadGoesOn, PTL DEF Spec
<1>2. ReadInv => (Disciplined /\ Careful => NilMeansWholeCopy)
  BY WholeCopyMeans
<1> QED BY <1>1, <1>2, PTL
=============================================================================
