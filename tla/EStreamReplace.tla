--------------------------- MODULE EStreamReplace ---------------------------
(***************************************************************************)
(* estream.ReplaceKeys (estream/stream.go): copies a stream block by block  *)
(* and re-encrypts the stream keys.  One step per block.  The output goes   *)
(* through msgp.Writer, whose buffer is flushed as it fills; only the       *)
(* successful returns flush what is left of it.                             *)
(***************************************************************************)
EXTENDS EStreamBlocks, SequencesExt

CONSTANTS
  PubKeys,   \* RSA key pairs in use
  Nil        \* the nil *rsa.PrivateKey and the nil *rsa.PublicKey

VARIABLES
  wire,      \* the input, complete
  cpos,      \* index of the next block to copy
  out,       \* the blocks handed to the msgp.Writer; once ReplaceKeys has
             \* returned, what has reached w
  cret,      \* "running", or how ReplaceKeys returned
  copts,     \* ReplaceKeysOptions
  asked      \* history: what ReplaceFn answered for the key block at an
             \* index, unless it was refused

Init ==
  /\ cpos = 1 /\ out = <<>> /\ cret = "running"
  /\ copts \in [encryptAll : BOOLEAN, passErrors : BOOLEAN]
  /\ asked = <<>>

Input == wire[cpos]
HasInput == cpos <= Len(wire) /\ Input.kind # "Partial"

\* An error leaves in w what happened to be flushed, up to any byte.
Flushed(o) ==
  UNION {{SubSeq(o, 1, n)}
         \cup (IF n < Len(o) THEN {Append(SubSeq(o, 1, n), Partial(c)) : c \in CutsOf(o[n + 1])}
               ELSE {}) : n \in 0..Len(o)}

Fails(how, o) ==
  cret' = how /\ \E s \in Flushed(o) : out' = s

\* Mutant: the last return does not flush.
Succeeds_Unflushed(o) == cret' = "nil" /\ \E s \in Flushed(o) : out' = s

Succeeds(o) == cret' = "nil" /\ out' = o

\* Mutant: a data block is written again.
WriteBlock_Twice(b) ==
  /\ out' = IF b.kind = "Datablock" THEN out \o <<b, b>> ELSE Append(out, b)
  /\ UNCHANGED cret

\* writeBlock: w may fail at any time, and then ReplaceKeys returns.
WriteBlock(b) ==
  \/ out' = Append(out, b) /\ UNCHANGED cret
  \/ Fails("write", Append(out, b))
WriteLast(b) ==
  \/ Succeeds(Append(out, b))
  \/ Fails("write", Append(out, b))

----------------------------------------------------------------------------
(* What ReplaceFn returned: a private key or Nil, and a public key, which   *)
(* may be the very pointer it was given.                                    *)
Answers == [priv : PubKeys \cup {Nil}, pub : PubKeys \cup {Nil}, same : BOOLEAN]
Sensible(b, a) == a.same => a.pub = b.pub
KeepAsIs(a)    == a.priv = Nil /\ a.same
Ask(a)         ==
  asked' = [i \in DOMAIN asked \cup {cpos} |->
              IF i = cpos THEN [keep |-> KeepAsIs(a), pub |-> a.pub] ELSE asked[i]]

\* Mutant: the key stays encrypted with the key pair it came with.
Rekeyed_OldPub(b, a) == EncryptedKey(b.pub, b.key)

Rekeyed(b, a) == EncryptedKey(a.pub, b.key)

\* A nil public key is dereferenced by rsa.EncryptOAEP; one that is too small
\* is refused.
ReplaceEncryptedKey(b, a) ==
  /\ Sensible(b, a)
  /\ \/ /\ KeepAsIs(a) /\ Ask(a)
        /\ Fails("refused", Append(out, b)) \/ Fails("write", Append(out, b))
     \/ a.priv = Nil /\ ~a.same /\ Fails("refused", out) /\ UNCHANGED asked
     \/ a.priv \notin {Nil, b.pub} /\ Fails("refused", out) /\ UNCHANGED asked
     \/ a.priv = b.pub /\ a.pub = Nil /\ Fails("panic", out) /\ UNCHANGED asked
     \/ a.priv = b.pub /\ a.pub # Nil /\ Fails("refused", out) /\ UNCHANGED asked
     \/ a.priv = b.pub /\ a.pub # Nil /\ WriteBlock(Rekeyed(b, a)) /\ Ask(a)

\* Without EncryptAll ReplaceFn is not called.
ReplacePlainKey(b) ==
  \/ ~copts.encryptAll /\ WriteBlock(b) /\ UNCHANGED asked
  \/ /\ copts.encryptAll
     /\ \E p \in PubKeys \cup {Nil} :
          /\ Ask([priv |-> Nil, pub |-> p, same |-> FALSE])
          /\ \/ WriteBlock(IF p = Nil THEN b ELSE EncryptedKey(p, b.key))
             \/ p # Nil /\ Fails("refused", out)

\* One round of the loop.  A block of an unknown kind is copied like any other.
CopyBlock ==
  /\ cret = "running" /\ HasInput
  /\ cpos' = cpos + 1
  /\ \/ Input.kind = "EncryptedKey" /\ \E a \in Answers : ReplaceEncryptedKey(Input, a)
     \/ Input.kind = "PlainKey" /\ ReplacePlainKey(Input)
     \/ Input.kind = "EOF" /\ WriteLast(Input) /\ UNCHANGED asked
     \/ /\ Input.kind = "Error" /\ UNCHANGED asked
        /\ IF copts.passErrors THEN WriteLast(Input) ELSE Fails("message", out)
     \/ /\ Input.kind \notin KeyKinds \cup {"EOF", "Error"}
        /\ WriteBlock(Input) /\ UNCHANGED asked
  /\ UNCHANGED copts

\* The input ends between two blocks or inside one: an error in any case.
CopyAtEnd ==
  /\ cret = "running" /\ ~HasInput
  /\ Fails("input", out)
  /\ UNCHANGED <<cpos, copts, asked>>

Next == CopyBlock \/ CopyAtEnd
=============================================================================
