--------------------------- MODULE EStreamBlocks ---------------------------
(***************************************************************************)
(* The blocks of an encrypted stream (estream/types.go and the layouts in   *)
(* the addBlock/sendBlock call sites of estream/writer.go).                 *)
(*                                                                          *)
(* A block on the wire is a record whose "kind" is the blockID and whose    *)
(* other fields are the message-pack contents of the block.  Key material   *)
(* is a positive number (a key is fresh random data, so its identity is all *)
(* that matters), 0 is the nil key.  An RSA key pair is named by its public *)
(* key: EncryptedKey(p, k) is k encrypted with p, and it can be opened by   *)
(* the holder of the private half of p only.                                *)
(*                                                                          *)
(* The payload of a data block is a record.  In the clear its key is 0.     *)
(* For an encrypted stream it is one sio fragment, which authenticates the  *)
(* stream key, the nonce, its own number and whether it is the last.        *)
(***************************************************************************)
EXTENDS Naturals, Sequences

NoKey == 0

\* blockID constants.  "Skippable" stands for every negative id (a block kind
\* of a newer minor version), "Partial" for bytes that end inside a block.
KeyKinds    == {"PlainKey", "EncryptedKey"}
StreamKinds == {"PlainStream", "EncStream"}

VersionBlock        == [kind |-> "Version", major |-> 2]
PlainKey(k)         == [kind |-> "PlainKey", key |-> k]
EncryptedKey(p, k)  == [kind |-> "EncryptedKey", pub |-> p, key |-> k]
PlainStream(s)      == [kind |-> "PlainStream", sid |-> s]
EncStream(s, n)     == [kind |-> "EncStream", sid |-> s, nonce |-> n]
Datablock(p)        == [kind |-> "Datablock", payload |-> p]
EOS(sum)            == [kind |-> "EOS", sum |-> sum]
EOFBlock            == [kind |-> "EOF"]
ErrorBlock          == [kind |-> "Error"]
Skippable           == [kind |-> "Skippable"]

\* Where the bytes may end inside a block: after its id, inside its length
\* field, after its length (header written, body not), inside its body.  The
\* EOF block has no body: its header is the whole block.
Cuts        == {"id", "length", "header", "body"}
CutsOf(b)   == IF b.kind = "EOF" THEN {"id", "length"} ELSE Cuts
Partial(c)  == [kind |-> "Partial", cut |-> c]

Clear(body) ==
  [key |-> NoKey, nonce |-> 0, frag |-> 0, last |-> FALSE, body |-> body]
Sealed(k, n, f, l, body) ==
  [key |-> k, nonce |-> n, frag |-> f, last |-> l, body |-> body]
=============================================================================
