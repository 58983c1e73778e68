---------------------------- MODULE EStreamPipe ----------------------------
(***************************************************************************)
(* A Writer and a Reader at the two ends of a byte stream (a pipe, a        *)
(* connection or a file): the output of the one is the input of the other.  *)
(* The stream may break off at any byte and a data block may be damaged.    *)
(***************************************************************************)
EXTENDS EStreamBlocks, FiniteSets, SequencesExt

CONSTANTS
  PubKeys, WeakKeys, Chunks, Bad,
  MaxKeys, MaxStreams, MaxWrites, MaxErrors, MaxCloses, NonceMax,
  WriteFaults, Disciplined,
  MaxCalls, MaxSets, Careful,
  MaxForeign,  \* bound: skippable blocks of a newer minor version
  Harms        \* what may happen to the bytes: a subset of {"cut", "damage"}

ASSUME PipeAssumption ==
  /\ WeakKeys \subseteq PubKeys /\ Bad \notin Chunks
  /\ {MaxKeys, MaxStreams, MaxWrites, MaxErrors, MaxCloses, NonceMax} \subseteq Nat
  /\ MaxStreams < NonceMax
  /\ {WriteFaults, Disciplined} \subseteq BOOLEAN
  /\ {MaxCalls, MaxSets, MaxForeign} \subseteq Nat
  /\ Careful \in BOOLEAN /\ Harms \subseteq {"cut", "damage"}

VARIABLES
  wire, werr, wkey, nkeys, nonce, handles, adds, errors, closes,
  ended, rpos, rerr, inStream, rkey, src, opt, rpc, cur, ret, got, calls, sets,
  harm,        \* what has happened to the bytes: a subset of Harms
  foreign      \* skippable blocks so far

W == INSTANCE EStreamWriter
R == INSTANCE EStreamReader

wown == <<werr, wkey, nkeys, nonce, handles, adds, errors, closes>>
rown == <<rpos, rerr, inStream, rkey, src, opt, rpc, cur, ret, got, calls, sets>>
vars == <<wire, wown, ended, rown, harm, foreign>>

Init == W!Init /\ R!Init /\ ended = FALSE /\ harm = {} /\ foreign = 0

WriterStep == ~ended /\ W!Next /\ UNCHANGED <<ended, rown, harm, foreign>>
ReaderStep == R!Next /\ UNCHANGED <<wown, harm, foreign>>

\* A block of a kind this version does not know, with a negative id.
Foreign ==
  /\ ~ended /\ foreign < MaxForeign /\ foreign' = foreign + 1
  /\ wire' = Append(wire, Skippable)
  /\ UNCHANGED <<wown, ended, rown, harm>>

\* The sending process has closed the Writer and then its end of the stream.
HangUp ==
  /\ ~ended /\ closes # <<>> /\ ended' = TRUE
  /\ UNCHANGED <<wire, wown, rown, harm, foreign>>

\* The stream breaks off: somewhere in what has been written and not yet read.
Cut ==
  /\ "cut" \in Harms /\ ~ended /\ ended' = TRUE /\ harm' = harm \cup {"cut"}
  /\ \E n \in (rpos - 1)..Len(wire) :
       \E t \in {<<>>} \cup
                (IF n < Len(wire) THEN {<<Partial(c)>> : c \in CutsOf(wire[n + 1])} ELSE {}) :
         wire' = SubSeq(wire, 1, n) \o t
  /\ UNCHANGED <<wown, rown, foreign>>

\* The contents of a data block change on the way.
Damage ==
  /\ "damage" \in Harms \ harm /\ harm' = harm \cup {"damage"}
  /\ \E i \in rpos..Len(wire) :
       /\ wire[i].kind = "Datablock"
       /\ wire' = [wire EXCEPT ![i].payload.body = <<Bad>>]
  /\ UNCHANGED <<wown, ended, rown, foreign>>

Next == WriterStep \/ ReaderStep \/ Foreign \/ HangUp \/ Cut \/ Damage

Spec == Init /\ [][Next]_vars
\* A call that is running and has input goes on: nothing in the Reader waits
\* for anything but the input.
FairSpec == Spec /\ WF_vars(R!Progress /\ UNCHANGED <<wire, wown, harm, foreign>>)

----------------------------------------------------------------------------
(* Properties.                                                              *)

\* Nothing was written to a stream whose header went out when the call failed:
\* there is no handle to write to.
Wrote(s) == IF s \in DOMAIN handles THEN handles[s].wrote ELSE <<>>
ReportedEnd == ret = [call |-> "next", err |-> "EOF"]

\* The Reader's fields have their types, its position is in the input, and it
\* is in a stream only when the caller has a Stream that can be read.
ReaderTypeOK ==
  /\ rpos \in 1..(Len(wire) + 1) /\ inStream \in BOOLEAN
  /\ rerr \in {"nil", "EOF", "Unexpected", "Checksum", "Message", "NoPrivate", "BlockType"}
  /\ rkey \in 0..MaxKeys /\ src \in R!Sources /\ opt \in R!Options
  /\ rpc \in {"new", "failed", "idle", "next", "pass", "skip", "read"}
  /\ cur.kind \in {"none", "plain", "enc", "nokey"} /\ cur.sid \in 0..MaxStreams
  /\ Len(got) <= MaxStreams
  /\ inStream => cur.kind \in {"plain", "enc"} /\ cur.sid = got[Len(got)].sid

\* What has been received of a stream is the beginning of what was written to
\* it: nothing is lost in the middle, repeated, reordered or taken from another
\* stream.  For an encrypted stream this is so even if the bytes were damaged.
ReceivedIsPrefix ==
  \A i \in DOMAIN got :
    "damage" \notin harm \/ got[i].kind = "enc" => IsPrefix(got[i].data, Wrote(got[i].sid))

\* A stream that ended with io.EOF is complete and undamaged, provided the
\* bytes did not break off, on the way or because the io.Writer failed; an
\* encrypted stream in any case, because sio marks the last fragment.
CompleteIsIntact ==
  \A i \in DOMAIN got :
    got[i].end = "EOF" /\ (("cut" \notin harm /\ ~werr) \/ got[i].kind = "enc") =>
      /\ got[i].data = Wrote(got[i].sid)
      /\ got[i].sid \in DOMAIN handles /\ ~W!IsOpen(got[i].sid)

\* A stream whose key needs a private key.
Locked(s) ==
  handles[s].enc /\ \E i \in DOMAIN wire :
    wire[i].kind = "EncryptedKey" /\ wire[i].key = handles[s].key
\* Once the Reader has come to an error block, its message is what the caller
\* got and no further block is read (README.md:235, "returns the message and
\* stops processing").
ErrorBlockStops ==
  (\E i \in 1..(rpos - 1) : wire[i].kind = "Error") =>
    rpc = "idle" /\ ret.err = "Message"

\* A stream is decrypted with the key its Writer used: the latest on the wire
\* (README.md:158 and :168, "only the latest key should be used").  There is no
\* such stream when the header went out and the Writer then failed.
OpenedWithItsKey ==
  cur.kind = "enc" /\ cur.sid \in DOMAIN handles => cur.key = handles[cur.sid].key

\* A call whose input has ended returns.
CallsReturn == ended /\ rpc \notin {"idle", "failed"} ~> rpc \in {"idle", "failed"}

----------------------------------------------------------------------------
(* Without harm to the bytes the pipe implements the abstract archive.      *)

EndName(e) == CASE e = "open" -> "open" [] e = "EOF" -> "complete" [] OTHER -> "abandoned"

Put   == [s \in DOMAIN handles |->
            [data |-> Wrote(s), shut |-> ~W!IsOpen(s), locked |-> Locked(s)]]
Taken == [i \in DOMAIN got |->
            [sid |-> got[i].sid, data |-> got[i].data, end |-> EndName(got[i].end)]]
Over  == IF ReportedEnd THEN "end"
         ELSE IF R!Stopped \/ rpc = "failed" THEN "failed" ELSE "no"

Archive == INSTANCE EStreamArchive WITH
  put <- Put, finished <- closes # <<>>, taken <- Taken, over <- Over
ArchiveSpec == Archive!Spec

----------------------------------------------------------------------------
(* What the documentation says and the code does not do (violation runs).   *)

\* README.md:16: "Streams cannot be truncated by early EOF."
NotTruncatedByEarlyEOF ==
  \A i \in DOMAIN got : got[i].end = "EOF" => got[i].data = Wrote(got[i].sid)

\* reader.go:113: "Will return nil, io.EOF when there are no more streams."
EOFMeansNoMoreStreams ==
  ReportedEnd => \A s \in DOMAIN handles : Locked(s) \/ \E i \in DOMAIN got : got[i].sid = s

\* README.md:168: "only the latest key should be used to decrypt a stream."
OnlyLatestKey ==
  cur.kind = "enc" =>
    \E h \in 1..(rpos - 1) :
      /\ wire[h].kind = "EncStream" /\ wire[h].sid = cur.sid
      /\ W!LatestKeyIs(h, cur.key)

\* README.md:235: "the parser returns the message and stops processing."
StopsProcessing ==
  [][(\E i \in 1..(rpos - 1) : wire[i].kind = "Error") => rpos' = rpos]_vars
=============================================================================
