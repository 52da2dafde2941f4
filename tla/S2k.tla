-------------------------------- MODULE S2k ---------------------------------
(* compute_key (opgp.c) and the hash below it (sha1.c): a passphrase and a    *)
(* salt are hashed over and over until count bytes are hashed.  The hash gets *)
(* them in pieces of any length, gathers them in a buffer and processes a     *)
(* chunk at a time.                                                           *)
(*                                                                            *)
(* What the compression function makes of the chunks is left out: the hash is *)
(* the bytes that were processed, in their order.  A byte is known by where   *)
(* it comes from.                                                             *)
EXTENDS Integers, Sequences

CONSTANTS
  CHUNK,          \* SHA1_CHUNK_SIZE, 64
  LENGTH_BYTES,   \* of the length behind the message, 8
  SALT_LEN,       \* 8
  PHRASE_LENS,    \* bound: lengths of a passphrase
  COUNTS          \* bound: the counts of a session key packet

ASSUME ChunkAssumption ==
  /\ CHUNK \in Nat /\ LENGTH_BYTES \in Nat \ {0} /\ LENGTH_BYTES < CHUNK
ASSUME MaterialAssumption ==
  SALT_LEN \in Nat \ {0} /\ PHRASE_LENS \subseteq Nat /\ COUNTS \subseteq Nat

SALTED_S2K == 1         \* the count of a salted S2K: salt and passphrase once

VARIABLES
  phrase,       \* passphrase_len
  count,        \* key->count
  passes,       \* n, the passes still to come
  sha,          \* the context: buf, len, and what has been processed
  hashing       \* "idle", "passes", "finish", "done" or "computed"

s2kVars == <<phrase, count, passes, sha, hashing>>

(* A byte of the material, of the padding, and of the message's length.       *)
Material(i) == <<"material", i, 0>>
Pad(i) == <<"pad", IF i = 1 THEN 128 ELSE 0, 0>>
LengthByte(len, i) == <<"length", len, i>>
Unset == <<"unset", 0, 0>>

SubSeqFrom(m, i) == SubSeq(m, i, Len(m))

-----------------------------------------------------------------------------
(* sha1.c *)

ShaInit == [len |-> 0, buf |-> [k \in 0..CHUNK - 1 |-> Unset], hashed |-> <<>>]

Fill(ctx) == ctx.len % CHUNK

(* memcpy(ctx->buf + at, m, Len(m)) *)
Copied(buf, at, m) ==
  [k \in 0..CHUNK - 1 |-> IF k \in at..at + Len(m) - 1 THEN m[k - at + 1] ELSE buf[k]]

Chunk(buf) == [i \in 1..CHUNK |-> buf[i - 1]]

(* sha1_update.  The buffer is filled and processed, whole chunks are taken   *)
(* from where they are, and the rest is kept.                                 *)
Update(ctx, m) ==
  LET fill  == Fill(ctx)
      top   == IF fill > 0 /\ Len(m) >= CHUNK - fill THEN CHUNK - fill ELSE 0
      rest  == SubSeqFrom(m, top + 1)
      whole == (Len(rest) \div CHUNK) * CHUNK
      full  == Copied(ctx.buf, fill, SubSeq(m, 1, top))
  IN [len    |-> ctx.len + Len(m),
      buf    |-> Copied(full, IF top > 0 THEN 0 ELSE fill, SubSeqFrom(rest, whole + 1)),
      hashed |-> ctx.hashed \o (IF top > 0 THEN Chunk(full) ELSE <<>>)
                            \o SubSeq(rest, 1, whole)]

PaddingTight(ctx) ==            \* mutant: no room for the padding's first byte
  LET room == CHUNK - LENGTH_BYTES
      n    == IF Fill(ctx) <= room THEN room - Fill(ctx) ELSE CHUNK + room - Fill(ctx)
  IN [i \in 1..n |-> Pad(i)]

Padding(ctx) ==
  LET room == CHUNK - LENGTH_BYTES
      n    == IF Fill(ctx) < room THEN room - Fill(ctx) ELSE CHUNK + room - Fill(ctx)
  IN [i \in 1..n |-> Pad(i)]

(* sha1_finish *)
Finish(ctx) ==
  Update(Update(ctx, Padding(ctx)),
         [i \in 1..LENGTH_BYTES |-> LengthByte(ctx.len, i)])

-----------------------------------------------------------------------------
(* compute_key, for a key that has not been computed yet *)

Salt == [i \in 1..SALT_LEN |-> Material(i)]
Phrase == [i \in 1..phrase |-> Material(SALT_LEN + i)]

Once == phrase + SALT_LEN       \* len

S2kInit == phrase = 0 /\ count = 0 /\ passes = 0 /\ sha = ShaInit /\ hashing = "idle"

(* A packet says how much is hashed: a salted S2K as much as there is.        *)
ComputeKey ==
  /\ hashing = "idle"
  /\ phrase' \in PHRASE_LENS
  /\ \E c \in COUNTS : count' = IF c = SALTED_S2K THEN Once' ELSE c
  /\ passes' = count' \div Once'
  /\ sha' = ShaInit /\ hashing' = "passes"

(* while (n--) *)
Pass ==
  /\ hashing = "passes" /\ passes > 0
  /\ passes' = passes - 1
  /\ sha' = Update(Update(sha, Salt), Phrase)
  /\ UNCHANGED <<phrase, count, hashing>>

(* m and p: what is left of the salt, then of the passphrase *)
Rest ==
  LET m == count % Once
      p == IF m > SALT_LEN THEN SALT_LEN ELSE m
  IN
  /\ hashing = "passes" /\ passes = 0
  /\ sha' = Update(Update(sha, SubSeq(Salt, 1, p)), SubSeq(Phrase, 1, m - p))
  /\ hashing' = "finish"
  /\ UNCHANGED <<phrase, count, passes>>

FinishHash ==
  /\ hashing = "finish"
  /\ sha' = Finish(sha) /\ hashing' = "done"
  /\ UNCHANGED <<phrase, count, passes>>

HashKey == Pass \/ Rest \/ FinishHash

(* The key is the digest; the context is given up.                            *)
KeyComputed ==
  /\ hashing = "done"
  /\ phrase' = 0 /\ count' = 0 /\ passes' = 0 /\ sha' = ShaInit
  /\ hashing' = "computed"

-----------------------------------------------------------------------------
(* The message is what a reader of compute_key's comment expects: count bytes *)
(* of the material, read over and over.  Its padding is that of the hash.     *)

Message(i) == Material(((i - 1) % Once) + 1)

PaddedLength == CHUNK * ((count + LENGTH_BYTES) \div CHUNK + 1)

Padded ==
  [i \in 1..PaddedLength |->
     IF i <= count THEN Message(i)
     ELSE IF i <= PaddedLength - LENGTH_BYTES THEN Pad(i - count)
     ELSE LengthByte(count, i - (PaddedLength - LENGTH_BYTES))]

S2kNext == ComputeKey \/ HashKey \/ KeyComputed

S2kSpec == S2kInit /\ [][S2kNext]_s2kVars

-----------------------------------------------------------------------------
Byte == {"material", "pad", "length", "unset"} \X Nat \X Nat

ShaContexts == [len : Nat, buf : [0..CHUNK - 1 -> Byte], hashed : Seq(Byte)]

S2kTypeOK ==
  /\ phrase \in PHRASE_LENS \cup {0} /\ count \in Nat /\ passes \in Nat
  /\ sha \in ShaContexts
  /\ hashing \in {"idle", "passes", "finish", "done", "computed"}

(* KeyHashed.  Whatever pieces the hash gets the salt and the passphrase in,  *)
(* and whatever their lengths, what it has processed in the end is the        *)
(* message, padded once: no byte is lost, doubled or moved where a piece      *)
(* meets the end of a chunk.                                                  *)
KeyHashed == hashing = "done" => sha.hashed = Padded
=============================================================================
