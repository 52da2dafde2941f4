------------------------------ MODULE Streams -------------------------------
(* The streams that the key file is read through: the FatFs file              *)
(* (ff_stream.c), and on it, each if there is such a packet, the decrypting,  *)
(* the inflating and the literal stream (opgp.c).  Each is opened when the    *)
(* packet before has been read, and is read in pieces of any length, by the   *)
(* stream on top of it or by the decoder.                                     *)
(*                                                                            *)
(* A byte is known by its place: in the file, or in what is inflated.  A byte *)
(* that was decrypted wrong, or inflated from wrong or missing bytes, is Junk.*)
EXTENDS S2k, Cfb

CONSTANTS
  Junk,
  FILE_SIZES,     \* bound: sizes of the file
  PACKET_LENS,    \* bound: what headers say of encrypted packets' lengths
  YIELDS,         \* bound: packets, by how much comes of their first i bytes
  TEXT_LENS,      \* bound: lengths of literal packets, and one that has wrapped
  READ_SIZES,     \* bound: how much is asked for
  Z_BUF,          \* Z_BUF_SIZE, 32
  Z_OUT_BUF       \* Z_OUT_BUF_SIZE, 32768

None == [kind |-> "none"]

ASSUME SizesAssumption ==
  /\ FILE_SIZES \subseteq Nat /\ PACKET_LENS \subseteq Nat
  /\ TEXT_LENS \subseteq Nat /\ READ_SIZES \subseteq Nat \ {0}
  /\ Z_BUF \in Nat \ {0} /\ Z_OUT_BUF \in Nat \ {0}
ASSUME YieldsAssumption == \A y \in YIELDS :
  y \in Seq(Nat) \ {<<>>} /\ \A i, j \in 1..Len(y) : i <= j => y[i] <= y[j]
ASSUME JunkAssumption == Junk \notin Nat

VARIABLES
  file,         \* the file: size, fptr, FA__ERROR; failed: a read has failed
  encr,         \* the decrypting stream: len, the context, where it began
  z,            \* the inflating stream
  lit,          \* the literal stream: len
  call,         \* the read that z_sread is in the loop of
  last,         \* the last read: what was asked for, and what it returned
  due,          \* the place of the next byte to be read
  end           \* the last place of what can be read

streamVars == <<file, encr, z, lit, call, last, due, end>>
vars == <<s2kVars, streamVars>>

Lesser(a, b) == IF a < b THEN a ELSE b

Nothing == [asked |-> 0, bytes |-> <<>>]
Idle == [asked |-> 0, want |-> 0, got |-> <<>>]

Init ==
  /\ S2kInit
  /\ \E s \in FILE_SIZES :
       file = [size |-> s, pos |-> 0, error |-> FALSE, failed |-> FALSE] /\ end = s
  /\ encr = None /\ z = None /\ lit = None
  /\ call = Idle /\ last = Nothing /\ due = 1

-----------------------------------------------------------------------------
(* Below the inflating stream.  A read is what it returns and what it leaves. *)

FileEnded == file.pos = file.size

Unready == [count |-> 0, error |-> FALSE, failed |-> TRUE]

(* ff_sread: f_read returns all there is, or fails after some of it.  It      *)
(* fails before the first byte, and nothing remembers that, if the card is    *)
(* not ready.                                                                 *)
FileReads(n) ==
  IF FileEnded \/ file.error
  THEN {[count |-> 0, error |-> file.error, failed |-> file.error]}
  ELSE LET all == Lesser(n, file.size - file.pos)
       IN {[count |-> all, error |-> FALSE, failed |-> FALSE], Unready}
          \cup {[count |-> k, error |-> TRUE, failed |-> TRUE] : k \in 0..all - 1}

FileAfter(r) ==
  [file EXCEPT !.pos = @ + r.count, !.error = r.error, !.failed = @ \/ r.failed]

FileBytes(r) == [i \in 1..r.count |-> file.pos + i]

EncrAskedFreely(n) == n         \* mutant: the packet's length is not looked at

(* encr_sread *)
EncrAsked(n) == Lesser(n, encr.len)

EncrAfter(r, asked) ==
  [encr EXCEPT !.len = @ - asked, !.ctx = Afterwards(@, FileBytes(r))]

EncrBytes(r) ==
  [i \in 1..r.count |->
     IF Decrypted(encr.ctx, FileBytes(r))[i] = Plain(encr.base, file.pos + i)
     THEN file.pos + i ELSE Junk]

BelowEnded == FileEnded \/ (encr # None /\ encr.len = 0)

(* mpgp_sread on what the inflating stream reads from, or would. *)
BelowReads(n) ==
  IF encr = None
  THEN {[bytes |-> FileBytes(r), file |-> FileAfter(r), encr |-> None] :
          r \in FileReads(n)}
  ELSE IF encr.len = 0 THEN {[bytes |-> <<>>, file |-> file, encr |-> encr]}
  ELSE {[bytes |-> EncrBytes(r), file |-> FileAfter(r),
         encr |-> IF FileEnded \/ file.error THEN encr
                  ELSE EncrAfter(r, EncrAsked(n))] :
          r \in FileReads(EncrAsked(n))}

-----------------------------------------------------------------------------
(* Opening.  The decoder opens a stream when it has read a header from the    *)
(* one on top; what it does when opening fails is modelled in OpenPgp.        *)

Reading == call = Idle /\ hashing \in {"idle", "computed"}

Opened(first, last_) == last' = Nothing /\ due' = first /\ end' = last_

(* mpgp_encr_sopen reads BLOCK + 2 bytes, and check_key computes the key.     *)
OpenEncr ==
  /\ Reading /\ hashing = "idle"
  /\ encr = None /\ z = None /\ lit = None
  /\ \E r \in FileReads(BLOCK + 2), len \in PACKET_LENS :
       /\ r.count = BLOCK + 2
       /\ file' = FileAfter(r)
       /\ encr' = [kind |-> "encr", len |-> len, ctx |-> CfbInit, base |-> file.pos]
  /\ ComputeKey
  /\ UNCHANGED <<z, lit, call, last, due, end>>

(* check_key: the last two bytes decrypted repeat the two before.  The bytes  *)
(* are the key's if they are combined with the encrypted null block and with  *)
(* the first block.                                                           *)
Prefix == [i \in 1..BLOCK + 2 |-> encr.base + i]

KeyFits ==
  LET padd == Decrypted(CfbInit, Prefix) IN
  /\ padd[BLOCK - 1] = Clear(encr.base + BLOCK - 1, ZeroIv, BLOCK - 2)
  /\ padd[BLOCK]     = Clear(encr.base + BLOCK, ZeroIv, BLOCK - 1)
  /\ \A i \in 1..2 :
       padd[BLOCK + i] = Clear(encr.base + BLOCK + i, BlockAt(Prefix, 0), i - 1)

(* The context begins anew with the last BLOCK of the bytes read.  The header *)
(* has counted the prefix too, and the code does not take it off again: what  *)
(* it reads are len more bytes, the last BLOCK + 2 of them from behind the    *)
(* packet if the file goes on there.                                          *)
CheckKey ==
  /\ KeyComputed
  /\ KeyFits
  /\ encr' = [encr EXCEPT !.base = file.pos,
                          !.ctx = Reinit(Afterwards(@, Prefix), BlockAt(Prefix, 2))]
  /\ Opened(file.pos + 1, Lesser(file.size, file.pos + encr.len))
  /\ UNCHANGED <<file, z, lit, call>>

(* mpgp_z_sopen reads the algorithm. *)
OpenZ ==
  /\ Reading /\ z = None /\ lit = None
  /\ ~BelowEnded /\ ~file.error
  /\ \E r \in BelowReads(1), y \in YIELDS :
       /\ Len(r.bytes) = 1
       /\ file' = r.file /\ encr' = r.encr
       /\ z' = [kind |-> "z", base |-> r.file.pos, yield |-> y, fed |-> 0,
                whole |-> r.file.pos + Len(y) <= end,
                sound |-> TRUE, lost |-> FALSE, in |-> <<>>, out |-> <<>>,
                consumed |-> 0, error |-> FALSE, eof |-> FALSE]
       /\ Opened(1, y[Len(y)])
  /\ UNCHANGED <<s2kVars, lit, call>>

(* mpgp_lit_sopen has read the literal packet's own header. *)
OpenLit ==
  /\ Reading /\ lit = None
  /\ \E len \in TEXT_LENS :
       /\ lit' = [kind |-> "lit", len |-> len]
       /\ Opened(due, Lesser(end, due - 1 + len))
  /\ UNCHANGED <<s2kVars, file, encr, z, call>>

-----------------------------------------------------------------------------
(* Inflate (tinfl.c): from the bytes in, some bytes out, as many as there is  *)
(* room for.  Behind the last byte it reads zeros, unless it is told that     *)
(* there is more.                                                             *)

Yield(i) == IF i = 0 THEN 0 ELSE z.yield[i]

Codes == Len(z.yield)

Room == Z_OUT_BUF - Len(z.out)

Right(in) == z.sound /\ \A i \in 1..Len(in) : in[i] = z.base + z.fed + i

Outcome(used, items, status) == [used |-> used, items |-> items, status |-> status]

(* What comes of zeros or of wrong bytes, behind the first right items. *)
Rubbish(in, right) ==
  {o \in {Outcome(Len(in), right \o [i \in 1..j |-> Junk], s) :
            j \in 0..Room - Len(right), s \in {"failed", "done", "output", "input"}} :
     /\ o.status = "output" => Len(o.items) = Room
     /\ o.status = "input" => in # <<>>}

Inflated(in) ==
  LET fed     == Lesser(z.fed + Len(in), Codes)
      pending == Yield(fed) - Len(z.out)
      right   == [i \in 1..Lesser(pending, Room) |-> Len(z.out) + i]
  IN
  IF z.lost THEN {Outcome(0, <<>>, "failed")}
  ELSE IF ~Right(in) THEN Rubbish(in, <<>>)
  ELSE IF pending > Room
       THEN {Outcome(i - z.fed, right, "output") :
               i \in {i \in z.fed..fed : Yield(i) > Z_OUT_BUF}}
  ELSE IF fed = Codes THEN {Outcome(fed - z.fed, right, "done")}
  ELSE IF in # <<>> THEN {Outcome(Len(in), right, "input")}
  ELSE Rubbish(in, right)

(* The input ends before the packet does. *)
Starved(in) == ~z.lost /\ Right(in) /\ in = <<>> /\ z.fed < Codes
               /\ Yield(z.fed) - Len(z.out) <= Room

-----------------------------------------------------------------------------
(* Reading.  mpgp_sread returns nothing at the end and after an error, and    *)
(* asks the stream otherwise.                                                 *)

LitAsked(n) == IF lit = None THEN n ELSE Lesser(n, lit.len)

LitAfter(n) == IF lit = None THEN None ELSE [lit EXCEPT !.len = @ - LitAsked(n)]

LitEnded == lit # None /\ lit.len = 0

Refused == \/ LitEnded \/ file.error
           \/ IF z = None THEN BelowEnded ELSE z.eof \/ z.error

Return(asked, bytes) ==
  /\ last' = [asked |-> asked, bytes |-> bytes]
  /\ due' = due + Len(bytes)

ReadNothing ==
  /\ Reading /\ Refused
  /\ \E n \in READ_SIZES : Return(n, <<>>)
  /\ UNCHANGED <<s2kVars, file, encr, z, lit, call, end>>

(* lit_sread, encr_sread and ff_sread *)
ReadThrough ==
  /\ Reading /\ ~Refused /\ z = None
  /\ \E n \in READ_SIZES : \E r \in BelowReads(LitAsked(n)) :
       /\ lit' = LitAfter(n)
       /\ file' = r.file /\ encr' = r.encr
       /\ Return(n, r.bytes)
  /\ UNCHANGED <<s2kVars, z, call, end>>

(* The first of what out holds and has not been asked for. *)
Consume(out, n) == SubSeq(out, z.consumed + 1, z.consumed + Lesser(n, Len(out) - z.consumed))

(* z_sread, up to its loop: what has been inflated before *)
ReadInflated ==
  /\ Reading /\ ~Refused /\ z # None
  /\ \E n \in READ_SIZES :
       LET want  == LitAsked(n)
           bytes == Consume(z.out, want)
       IN /\ lit' = LitAfter(n)
          /\ z' = [z EXCEPT !.consumed = @ + Len(bytes)]
          /\ IF Len(bytes) = want THEN Return(n, bytes) /\ UNCHANGED call
             ELSE /\ call' = [asked |-> n, want |-> want - Len(bytes), got |-> bytes]
                  /\ UNCHANGED <<last, due>>
  /\ UNCHANGED <<s2kVars, file, encr, end>>

(* The bytes to inflate: those that are left, or else new ones. *)
Inputs ==
  IF z.in # <<>> THEN {[bytes |-> z.in, file |-> file, encr |-> encr]}
  ELSE IF BelowEnded \/ file.error
  THEN {[bytes |-> <<>>, file |-> file, encr |-> encr]}
  ELSE BelowReads(Z_BUF)

ZAfter(in, o, n) ==
  [z EXCEPT !.in = SubSeqFrom(in, o.used + 1),
            !.fed = IF Right(in) THEN @ + o.used ELSE @,
            !.sound = @ /\ Right(in) /\ ~Starved(in),
            !.out = @ \o o.items, !.consumed = @ + n]

(* A turn of z_sread's loop.  It returns as soon as it has what was asked     *)
(* for.  When out is full and used up, it goes on with the wrong buffer:      *)
(* inflate refuses that.                                                      *)
Inflate ==
  /\ call # Idle
  /\ \E r \in Inputs : \E o \in Inflated(r.bytes) :
       LET bytes == Consume(z.out \o o.items, call.want)
           after == ZAfter(r.bytes, o, Len(bytes))
           got   == call.got \o bytes
       IN
       /\ file' = r.file /\ encr' = r.encr
       /\ IF Len(bytes) = call.want
          THEN z' = after /\ Return(call.asked, got) /\ call' = Idle
          ELSE /\ z' = [after EXCEPT !.lost = @ \/ Len(after.out) = Z_OUT_BUF,
                                     !.error = o.status = "failed",
                                     !.eof = o.status = "done"]
               /\ IF o.status \in {"failed", "done"}
                  THEN Return(call.asked, got) /\ call' = Idle
                  ELSE /\ call' = [call EXCEPT !.want = @ - Len(bytes), !.got = got]
                       /\ UNCHANGED <<last, due>>
  /\ UNCHANGED <<s2kVars, lit, end>>

-----------------------------------------------------------------------------
Hash == HashKey /\ UNCHANGED streamVars

Next ==
  \/ OpenEncr \/ Hash \/ CheckKey \/ OpenZ \/ OpenLit
  \/ ReadNothing \/ ReadThrough \/ ReadInflated \/ Inflate

Spec == Init /\ [][Next]_vars

-----------------------------------------------------------------------------
Bytes == Seq(Nat \cup {Junk})

CfbContexts == [fr : [Offsets -> Nat], fre : [Offsets -> Nat], n : 1..BLOCK]

(* Every variable keeps its type: no stream has read more than its packet,    *)
(* no buffer holds more than it has room for, and the position in the cipher  *)
(* block is one.                                                              *)
TypeOK ==
  /\ S2kTypeOK
  /\ file \in [size : Nat, pos : Nat, error : BOOLEAN, failed : BOOLEAN]
  /\ file.pos <= file.size
  /\ encr \in {None} \cup [kind : {"encr"}, len : Nat, ctx : CfbContexts, base : Nat]
  /\ lit \in {None} \cup [kind : {"lit"}, len : Nat]
  /\ z \in {None} \cup [kind : {"z"}, base : Nat, yield : YIELDS, fed : Nat,
                        whole : BOOLEAN, sound : BOOLEAN, lost : BOOLEAN,
                        in : Bytes, out : Bytes, consumed : Nat,
                        error : BOOLEAN, eof : BOOLEAN]
  /\ z # None => /\ z.fed <= Codes /\ Len(z.in) <= Z_BUF
                 /\ z.consumed <= Len(z.out) /\ Len(z.out) <= Z_OUT_BUF
  /\ call \in [asked : Nat, want : Nat, got : Bytes]
  /\ last \in [asked : Nat, bytes : Bytes]
  /\ due \in Nat /\ end \in Nat

(* The medium has failed the reader: the card cannot be read, once or for     *)
(* good, the file ends inside the compressed packet, or more has been inflated*)
(* than z_sread can keep.                                                     *)
Failed == file.failed \/ (z # None /\ (~z.whole \/ z.lost))

Source == INSTANCE ByteSource WITH next <- due, failed <- Failed

(* ImplementsByteSource.  However headers, list and refills of the buffers    *)
(* split the reading, the bytes that the decoder gets from the stream on top  *)
(* are those of the stream's row, each once and in order, and a read of the   *)
(* list gets all of it at once, unless the medium fails.  The row is the one  *)
(* that the code delimits, for an encrypted packet to the end that CheckKey   *)
(* gives it; and the wrong buffer that z_sread goes on with is an exception,  *)
(* in Failed.                                                                 *)
ImplementsByteSource == Source!Spec
=============================================================================
