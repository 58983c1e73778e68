---------------------------- MODULE EStreamRekey ----------------------------
(***************************************************************************)
(* A stream is written to a file, ReplaceKeys makes a copy of the file with *)
(* other keys, and a Reader reads the copy.                                 *)
(***************************************************************************)
EXTENDS EStreamBlocks, FiniteSets, SequencesExt

CONSTANTS
  PubKeys, WeakKeys, Chunks, Bad, Nil,
  MaxKeys, MaxStreams, MaxWrites, MaxErrors, MaxCloses, NonceMax,
  WriteFaults, Disciplined, MaxCalls, MaxSets, Careful

ASSUME RekeyAssumption ==
  /\ WeakKeys \subseteq PubKeys /\ Bad \notin Chunks /\ Nil \notin PubKeys
  /\ {MaxKeys, MaxStreams, MaxWrites, MaxErrors, MaxCloses, NonceMax} \subseteq Nat
  /\ MaxStreams < NonceMax
  /\ {WriteFaults, Disciplined} \subseteq BOOLEAN
  /\ {MaxCalls, MaxSets} \subseteq Nat /\ Careful \in BOOLEAN

VARIABLES
  wire, werr, wkey, nkeys, nonce, handles, adds, errors, closes,
  cpos, out, cret, copts, asked,
  ended, rpos, rerr, inStream, rkey, src, opt, rpc, cur, ret, got, calls, sets,
  phase    \* "write", "copy" or "read"

W == INSTANCE EStreamWriter
C == INSTANCE EStreamReplace
R == INSTANCE EStreamReader WITH wire <- out

wvars == <<wire, werr, wkey, nkeys, nonce, handles, adds, errors, closes>>
copy  == <<cpos, out, cret, copts, asked>>
rown  == <<ended, rpos, rerr, inStream, rkey, src, opt, rpc, cur, ret, got, calls, sets>>
vars  == <<wvars, copy, rown, phase>>

Init == W!Init /\ C!Init /\ R!Init /\ ended = TRUE /\ phase = "write"

WriterStep == phase = "write" /\ W!Next /\ UNCHANGED <<copy, rown, phase>>
\* The writer may also go away without closing.
StartCopy  == phase = "write" /\ phase' = "copy" /\ UNCHANGED <<wvars, copy, rown>>
CopyStep   == phase = "copy" /\ C!Next /\ UNCHANGED <<wvars, rown, phase>>
StartRead  == /\ phase = "copy" /\ cret # "running" /\ phase' = "read"
              /\ UNCHANGED <<wvars, copy, rown>>
\* The Reader is given its private keys, and nothing else, before it is used.
ReaderStep == /\ phase = "read" /\ UNCHANGED <<wvars, copy, phase>>
              /\ R!Next /\ (sets' # sets => calls = 0 /\ opt' = opt /\ src' # src)

Next == WriterStep \/ StartCopy \/ CopyStep \/ StartRead \/ ReaderStep
Spec == Init /\ [][Next]_vars

----------------------------------------------------------------------------
(* Properties.                                                              *)

\* A header may have gone out when its call failed: there is no handle to write to.
Wrote(s) == IF s \in DOMAIN handles THEN handles[s].wrote ELSE <<>>

\* What a reader of the copy receives is what was written to the original
\* stream, whatever keys were replaced, how and where the copy stopped: a
\* stream that needs its stream key is never opened with another one
\* (stream.go case blockEncryptedKey and blockPlainKey).  Streams of a copy
\* that was made without an error are also undamaged and end where they did.
CopyReadsAsOriginal ==
  \A i \in DOMAIN got :
    /\ IsPrefix(got[i].data, Wrote(got[i].sid))
    /\ got[i].kind = "enc" /\ got[i].end = "EOF" =>
         got[i].data = Wrote(got[i].sid)
    /\ cret = "nil" =>
         got[i].end \notin {"NotAuthentic", "Checksum", "BlockType", "Unexpected"}

\* When ReplaceKeys returned nil the copy is whole: a Reader of it that comes to
\* io.EOF or to the passed-on message, in whatever call, has been given every
\* stream of the original, opened.  One that lacks a key does not come so far:
\* it stops at the key block (stream.go:84, reader.go case blockEncryptedKey).
Arrived == ret = [call |-> "next", err |-> "EOF"] \/ ret.err \in {"Message", "Unexpected"}
NilMeansWholeCopy ==
  cret = "nil" /\ Arrived =>
    /\ ret.err # "Unexpected"
    /\ ret.err = "EOF" => closes # <<>>
    /\ ret.err = "Message" => errors > 0
    /\ \A s \in DOMAIN handles :
         \E i \in DOMAIN got : got[i].sid = s /\ got[i].kind # "nokey"

\* A stream of the copy opens only for the holder of a key pair that ReplaceFn
\* named for its key, unless the key was in the clear and was left so, because
\* EncryptAll is not set or ReplaceFn returned nothing (ReplaceFn, stream.go:38).
NamedFor(i) == IF i \in DOMAIN asked THEN {asked[i].pub} ELSE {Nil}
CopyOpensAsAnswered ==
  cur.kind = "enc" =>
    \E i \in DOMAIN wire :
      /\ wire[i].kind \in KeyKinds /\ wire[i].key = cur.key
      /\ \/ NamedFor(i) \subseteq src.holds
         \/ wire[i].kind = "PlainKey" /\ NamedFor(i) = {Nil}

----------------------------------------------------------------------------
(* What the documentation says and the code does not do (violation runs).   *)

\* stream.go:44-45: "If no private key is sent and the public key matches the
\* one sent to the function the key will be kept as is."
KeptAsIs ==
  cpos - 1 \in DOMAIN asked /\ asked[cpos - 1].keep => cret # "refused"

\* stream.go:45: "Other returned values will cause an error."
OtherValuesAreErrors == cret # "panic"
=============================================================================
