------------------------------ MODULE OpenPgp ------------------------------
(* How the key file becomes the list: decrypt_file (main.c) opens the file,   *)
(* mpgp_open (opgp.c) puts one stream on another, a stream for every packet   *)
(* that holds packets, and the list is read from the top.  Every object comes *)
(* from one small heap; any allocation and any read may fail.                 *)
(*                                                                            *)
(* A file is met packet by packet.  What a packet's fields say is abstracted  *)
(* to what the decoder does about it.  The streams below the top are never    *)
(* looked at by name: a read that fails anywhere is a packet that is not      *)
(* whole.                                                                     *)
EXTENDS Integers, Sequences, FiniteSets

CONSTANTS
  BLOCKS,               \* the heap
  Malloc(_),            \* which of the free blocks malloc may hand out
  NoBlock,              \* NULL
  PASSPHRASES,
  NoPassphrase,         \* whose key is the hash of nothing: a simple S2K
  Unhandled,            \* a version, an algorithm or a type that is refused
  PACKETS,              \* bound: the packets that the files are made of
  MAX_PACKETS,          \* bound: the packets of a file
  LIST_LEN              \* buf_len: room for the list, 1024

(* use: the passphrase of a session key packet, and Unhandled for anything    *)
(* that is refused; sized: the header has a length; whole: the packet's       *)
(* fields can be read; text: how much can be read of a literal packet's text. *)
Packet == [tag : {"skesk", "compressed", "encrypted", "literal", "other"},
           use : PASSPHRASES \cup {NoPassphrase, Unhandled},
           sized : BOOLEAN, whole : BOOLEAN, text : Nat]

ASSUME BlocksAssumption == NoBlock \notin BLOCKS
ASSUME MallocAssumption == \A free \in SUBSET BLOCKS : Malloc(free) \subseteq free
ASSUME PassphrasesAssumption ==
  NoPassphrase \notin PASSPHRASES /\ Unhandled \notin PASSPHRASES
ASSUME PacketsAssumption == PACKETS \subseteq Packet
ASSUME LengthAssumption == MAX_PACKETS \in Nat /\ LIST_LEN \in Nat \ {0}

Kinds == {"file", "ctx", "encrypted", "compressed", "literal", "key", "list"}

VARIABLES
  heap,         \* what each block is used for
  pc,           \* "idle", "packets" (mpgp_open_r) or "list" (decrypt_file)
  passphrase,   \* the passphrase tried
  read,         \* the packets read in this attempt
  length,       \* "zero", "own" or "stale": what *length holds
  ends,         \* "data", "early", "empty": where the opened streams end
  stack,        \* the blocks of the opened streams, the file's first
  chain,        \* the key chain, newest key first
  items,        \* the list in use
  list,         \* the length of its text
  overrun,      \* this attempt put its terminator behind its buffer
  torn,         \* the card failed while it was read
  fileOpen,     \* file_object is open
  verdict,      \* how the last attempt ended
  starved,      \* the list's buffer could not be allocated: since power-on
  failed,       \* an allocation failed in this attempt
  chance,       \* a key has passed the check by chance in this attempt
  wild          \* something was freed that was not there to be freed

vars == <<heap, pc, passphrase, read, length, ends, stack, chain, items, list,
          overrun, torn, fileOpen, verdict, starved, failed, chance, wild>>

Init ==
  /\ heap = [b \in BLOCKS |-> "free"]
  /\ pc = "idle" /\ passphrase \in PASSPHRASES /\ read = <<>>
  /\ length = "zero" /\ ends = "data"
  /\ stack = <<>> /\ chain = <<>>
  /\ items = NoBlock /\ list = 0 /\ overrun = FALSE /\ torn = FALSE
  /\ fileOpen = FALSE /\ verdict = "none"
  /\ starved = FALSE /\ failed = FALSE /\ chance = FALSE /\ wild = FALSE

-----------------------------------------------------------------------------
(* The heap.  An object is a block and what it is used for.                   *)

FreeIn(h) == {b \in BLOCKS : h[b] = "free"}

Available == Malloc(FreeIn(heap))

Object(b, kind) == [block |-> b, kind |-> kind]

Use(h, b, kind) == [h EXCEPT ![b] = kind]

Held(objects, b) == \E i \in DOMAIN objects : objects[i].block = b

Release(h, objects) ==
  [b \in BLOCKS |-> IF Held(objects, b) THEN "free" ELSE h[b]]

(* Each object is there, for the use it is freed from, and is freed once.     *)
Releasable(h, objects) ==
  /\ \A i \in DOMAIN objects : h[objects[i].block] = objects[i].kind
  /\ \A i, j \in DOMAIN objects :
       i # j => objects[i].block # objects[j].block

(* free_keys *)
KeyObjects == [i \in DOMAIN chain |-> Object(chain[i].block, "key")]

-----------------------------------------------------------------------------
(* mpgp_open_r gives up: mpgp_sclose closes the stream it was given and, each *)
(* stream closing the one it reads from, all below it; mpgp_open frees the    *)
(* keys.  h is the heap by then.                                              *)

BailKeepingFile(h, lack) ==             \* mutant: the file is not closed
  /\ pc' = "idle" /\ verdict' = "refused"
  /\ heap' = Release(h, stack \o KeyObjects)
  /\ wild' = (wild \/ ~Releasable(h, stack \o KeyObjects))
  /\ stack' = <<>> /\ chain' = <<>>
  /\ failed' = lack
  /\ UNCHANGED <<items, list, overrun, torn, starved, fileOpen>>

BailFreeingList(h, lack) ==             \* mutant: the list goes with the rest
  LET old == IF items = NoBlock THEN <<>> ELSE <<Object(items, "list")>>
      all == stack \o KeyObjects \o old
  IN
  /\ pc' = "idle" /\ verdict' = "refused"
  /\ heap' = Release(h, all)
  /\ wild' = (wild \/ ~Releasable(h, all))
  /\ stack' = <<>> /\ chain' = <<>> /\ fileOpen' = FALSE
  /\ failed' = lack
  /\ UNCHANGED <<items, list, overrun, torn, starved>>

Bail(h, lack) ==
  /\ pc' = "idle" /\ verdict' = "refused"
  /\ heap' = Release(h, stack \o KeyObjects)
  /\ wild' = (wild \/ ~Releasable(h, stack \o KeyObjects))
  /\ stack' = <<>> /\ chain' = <<>> /\ fileOpen' = FALSE
  /\ failed' = lack
  /\ UNCHANGED <<items, list, overrun, torn, starved>>

(* mpgp_open_r goes on, with objects b and those opened before. *)
GoOn(h, objects, keys) ==
  /\ heap' = h /\ stack' = stack \o objects /\ chain' = keys
  /\ UNCHANGED <<pc, verdict, wild, items, list, overrun, torn, starved, failed,
                 fileOpen>>

-----------------------------------------------------------------------------
(* decrypt_file.  The file cannot be wrapped if no memory is left: then it    *)
(* stays open.                                                                *)

Begin(p) ==
  /\ pc = "idle" /\ ~wild
  /\ passphrase' = p /\ read' = <<>> /\ length' = "zero" /\ ends' = "data"
  /\ chance' = FALSE /\ verdict' = "none"
  /\ overrun' = FALSE /\ torn' = FALSE
  /\ UNCHANGED <<items, list, starved, chain, wild>>

(* f_open clears the file object first. *)
Unreadable ==
  /\ \E p \in PASSPHRASES : Begin(p)
  /\ fileOpen' = FALSE /\ failed' = FALSE
  /\ UNCHANGED <<heap, stack, pc>>

Unwrapped ==
  /\ \E p \in PASSPHRASES : Begin(p)
  /\ fileOpen' = TRUE /\ failed' = TRUE
  /\ UNCHANGED <<heap, stack, pc>>

DecryptFileFreeingFirst ==      \* mutant: the old list goes first
  LET old == IF items = NoBlock THEN {} ELSE {items} IN
  /\ \E p \in PASSPHRASES : Begin(p)
  /\ fileOpen' = TRUE /\ failed' = FALSE /\ pc' = "packets"
  /\ \E b \in Malloc(FreeIn(heap) \cup old) :
       /\ heap' = [c \in BLOCKS |-> IF c = b THEN "file"
                                  ELSE IF c \in old THEN "free" ELSE heap[c]]
       /\ stack' = <<Object(b, "file")>>

DecryptFile ==
  /\ \E p \in PASSPHRASES : Begin(p)
  /\ fileOpen' = TRUE /\ failed' = FALSE /\ pc' = "packets"
  /\ \E b \in Available :
       /\ heap' = Use(heap, b, "file")
       /\ stack' = <<Object(b, "file")>>

-----------------------------------------------------------------------------
(* mpgp_open_r.  read_packet_header leaves *length alone if the header has    *)
(* none, and the variable starts at zero for every stream.                    *)

HeaderLength(p) ==
  IF p.sized THEN "own" ELSE IF length = "zero" THEN "zero" ELSE "stale"

Handled(p) == p.tag # "other" /\ p.use # Unhandled

(* The file, or the stream that was opened last, ends here, or the card       *)
(* cannot be read.                                                            *)
NoPacket == [tag |-> "other", use |-> Unhandled, sized |-> FALSE,
             whole |-> FALSE, text |-> 0]

NoMorePackets ==
  /\ pc = "packets" /\ Bail(heap, FALSE)
  /\ read' = Append(read, NoPacket)
  /\ UNCHANGED <<passphrase, length, ends, chance>>

(* The header of p, and its fields if ok.  A stream of a stale length may end *)
(* at any read, one of no length ends at the first.                           *)
Reads(p, tag, ok) ==
  /\ pc = "packets" /\ Len(read) < MAX_PACKETS
  /\ ends # "empty"
  /\ p.tag = tag
  /\ read' = Append(read, p)
  /\ IF ok THEN p.whole ELSE ~p.whole \/ ends = "early"
  /\ UNCHANGED passphrase

CutShort == \E p \in PACKETS :
  /\ Reads(p, p.tag, FALSE)
  /\ Bail(heap, FALSE)
  /\ UNCHANGED <<length, ends, chance>>

(* No bit 7, a partial length, an unknown tag, version, algorithm or type.    *)
Refused == \E p \in PACKETS :
  /\ Reads(p, p.tag, TRUE) /\ ~Handled(p)
  /\ Bail(heap, FALSE)
  /\ UNCHANGED <<length, ends, chance>>

(* read_skesk_packet and read_s2k *)
SessionKey == \E p \in PACKETS :
  /\ Reads(p, "skesk", TRUE) /\ Handled(p)
  /\ \/ \E b \in Available :
          GoOn(Use(heap, b, "key"), <<>>, <<[block |-> b, use |-> p.use]>> \o chain)
     \/ Bail(heap, TRUE)
  /\ length' = HeaderLength(p)
  /\ UNCHANGED <<ends, chance>>

(* mpgp_z_sopen, which has no use for the length.  The packets inside are     *)
(* read by a call of its own, with a length of its own.                       *)
Compressed == \E p \in PACKETS :
  /\ Reads(p, "compressed", TRUE) /\ Handled(p)
  /\ \/ \E b \in Available :
          GoOn(Use(heap, b, "compressed"), <<Object(b, "compressed")>>, chain)
     \/ Bail(heap, TRUE)
  /\ length' = "zero"
  /\ UNCHANGED <<ends, chance>>

-----------------------------------------------------------------------------
(* mpgp_encr_sopen.  check_key has its context first, then tries the keys,    *)
(* newest first.  Only two bytes are compared: a key may pass by chance.      *)

RightKeyNewest == chain # <<>> /\ chain[1].use = passphrase
                                \* mutant: the chain is not followed

RightKey == \E i \in DOMAIN chain : chain[i].use = passphrase

EncrEnds(p) ==
  CASE HeaderLength(p) = "own" -> ends
    [] HeaderLength(p) = "zero" -> "empty"
    [] HeaderLength(p) = "stale" -> "early"

Encrypted(p) == Reads(p, "encrypted", TRUE) /\ Handled(p)

NoContext == \E p \in PACKETS :
  /\ Encrypted(p)
  /\ Bail(heap, TRUE)
  /\ UNCHANGED <<length, ends, chance>>

WrongPassphraseKeepingContext == \E p \in PACKETS, c \in Available :
  /\ Encrypted(p) /\ ~RightKey          \* mutant: the context is not freed
  /\ Bail(Use(heap, c, "ctx"), FALSE)
  /\ UNCHANGED <<length, ends, chance>>

WrongPassphrase == \E p \in PACKETS, c \in Available :
  /\ Encrypted(p) /\ ~RightKey
  /\ Bail(Release(Use(heap, c, "ctx"), <<Object(c, "ctx")>>), FALSE)
  /\ UNCHANGED <<length, ends, chance>>

NoStream == \E p \in PACKETS, c \in Available :
  /\ Encrypted(p) /\ chain # <<>>
  /\ Bail(Release(Use(heap, c, "ctx"), <<Object(c, "ctx")>>), TRUE)
  /\ UNCHANGED <<length, ends, chance>>

DecryptingKeepingLength == \E p \in PACKETS, c \in Available :
  /\ Encrypted(p)      \* mutant: a nested call goes on with its caller's length
  /\ \/ RightKey /\ UNCHANGED chance
     \/ chain # <<>> /\ chance' = TRUE
  /\ \E b \in Malloc(FreeIn(heap) \ {c}) :
       GoOn(Use(Use(heap, c, "ctx"), b, "encrypted"),
            <<Object(c, "ctx"), Object(b, "encrypted")>>, chain)
  /\ length' = HeaderLength(p) /\ ends' = EncrEnds(p)

Decrypting == \E p \in PACKETS, c \in Available :
  /\ Encrypted(p)
  /\ \/ RightKey /\ UNCHANGED chance
     \/ chain # <<>> /\ chance' = TRUE
  /\ \E b \in Malloc(FreeIn(heap) \ {c}) :
       GoOn(Use(Use(heap, c, "ctx"), b, "encrypted"),
            <<Object(c, "ctx"), Object(b, "encrypted")>>, chain)
  /\ length' = "zero" /\ ends' = EncrEnds(p)

-----------------------------------------------------------------------------
(* mpgp_lit_sopen.  Without a length the length left over is too large by     *)
(* wrapping around, so the text is read to its end.                           *)

Literal == \E p \in PACKETS :
  /\ Reads(p, "literal", TRUE) /\ Handled(p)
  /\ \/ \E b \in Available :
          LET h == Use(heap, b, "literal") IN
          /\ pc' = "list"
          /\ heap' = Release(h, KeyObjects)
          /\ wild' = (wild \/ ~Releasable(h, KeyObjects))
          /\ stack' = Append(stack, Object(b, "literal"))
          /\ chain' = <<>>
          /\ UNCHANGED <<verdict, items, list, overrun, torn, starved, failed,
                         fileOpen>>
     \/ Bail(heap, TRUE)
  /\ length' = HeaderLength(p)
  /\ ends' = IF length' = "stale" THEN "early" ELSE ends
  /\ UNCHANGED chance

-----------------------------------------------------------------------------
(* decrypt_file again: the old list is freed before the buffer of the new one *)
(* is allocated; without one the streams stay open.                           *)

OldList == IF items = NoBlock THEN <<>> ELSE <<Object(items, "list")>>

Text == read[Len(read)].text

Most == IF Text < LIST_LEN THEN Text ELSE LIST_LEN

BytesReadUnlimited ==           \* mutant: the buffer's length is forgotten
  IF ends = "early" THEN 0..Text ELSE {Text}

BytesRead == IF ends = "early" THEN 0..Most ELSE {Most}

(* An error of the card is not asked for: what has been read by then counts.  *)
Counts(cardFails) == IF cardFails THEN 0..Most ELSE BytesRead

NoBuffer ==
  /\ pc = "list"
  /\ pc' = "idle" /\ verdict' = "refused"
  /\ heap' = Release(heap, OldList)
  /\ wild' = (wild \/ ~Releasable(heap, OldList))
  /\ stack' = <<>>
  /\ starved' = TRUE /\ failed' = TRUE
  /\ UNCHANGED <<passphrase, read, length, ends, chain, items, list, overrun,
                 torn, fileOpen, chance>>

(* The terminator goes to the place behind the n bytes read, buf[n].  If that *)
(* is none of the buffer's, the code goes on as if it were: what malloc made  *)
(* the block larger than asked for takes the byte, or what lies behind it.    *)
BufferPlaces == 0..(LIST_LEN - 1)

ReadList ==
  LET h == Release(heap, OldList) IN
  /\ pc = "list"
  /\ pc' = "idle" /\ verdict' = "listed"
  /\ torn' \in BOOLEAN
  /\ \E b \in Malloc(FreeIn(h)), n \in Counts(torn') :
       /\ items' = b /\ list' = n
       /\ overrun' = (n \notin BufferPlaces)
       /\ heap' = Release(Use(h, b, "list"), stack)
       /\ wild' = (wild \/ ~Releasable(heap, OldList)
                        \/ ~Releasable(Use(h, b, "list"), stack))
  /\ stack' = <<>> /\ fileOpen' = FALSE
  /\ UNCHANGED <<passphrase, read, length, ends, chain, starved, failed, chance>>

(* The heap does not outlive the power. *)
PowerCycle ==
  /\ heap' = [b \in BLOCKS |-> "free"]
  /\ pc' = "idle" /\ read' = <<>> /\ length' = "zero" /\ ends' = "data"
  /\ stack' = <<>> /\ chain' = <<>> /\ items' = NoBlock /\ list' = 0
  /\ overrun' = FALSE /\ torn' = FALSE
  /\ fileOpen' = FALSE /\ verdict' = "none" /\ starved' = FALSE
  /\ failed' = FALSE /\ chance' = FALSE /\ wild' = FALSE
  /\ UNCHANGED passphrase

OpenPackets ==
  \/ NoMorePackets \/ CutShort \/ Refused
  \/ SessionKey \/ Compressed \/ Literal
  \/ NoContext \/ WrongPassphrase \/ NoStream \/ Decrypting

Next ==
  \/ Unreadable \/ Unwrapped \/ DecryptFile
  \/ OpenPackets
  \/ NoBuffer \/ ReadList
  \/ PowerCycle

Spec == Init /\ [][Next]_vars

-----------------------------------------------------------------------------
(* What a file says, whoever reads it. *)

(* The packet is the first of those that its stream holds. *)
FirstOfStream(packets, i) == i = 1 \/ packets[i - 1].tag # "skesk"

(* Every stream is opened with a length its own packet gave, or needs none.   *)
(* mpgp_open_r ignores have_length: an encrypted packet whose header has no   *)
(* length, or such a literal packet behind a session key packet, is given     *)
(* what *length holds, the session key packet's length or zero.               *)
OwnLengths(packets) == \A i \in DOMAIN packets :
  \/ packets[i].sized \/ packets[i].tag \in {"skesk", "compressed", "other"}
  \/ packets[i].tag = "literal" /\ FirstOfStream(packets, i)

OpenedBy(packets, i, p) ==
  \E k \in 1..(i - 1) : packets[k].tag = "skesk" /\ packets[k].use = p

(* Everything can be read and is handled, and what is encrypted comes behind  *)
(* a session key packet for the passphrase.                                   *)
Readable(packets, p) ==
  \A i \in DOMAIN packets :
    /\ packets[i].whole /\ Handled(packets[i])
    /\ packets[i].tag = "encrypted" => OpenedBy(packets, i, p)

-----------------------------------------------------------------------------
(* The variables have their types.  The text of a list fits its buffer; its   *)
(* terminator need not, see overrun.                                          *)
TypeOK ==
  /\ heap \in [BLOCKS -> Kinds \cup {"free"}]
  /\ pc \in {"idle", "packets", "list"}
  /\ passphrase \in PASSPHRASES
  /\ read \in Seq(PACKETS \cup {NoPacket})
  /\ length \in {"zero", "own", "stale"}
  /\ ends \in {"data", "early", "empty"}
  /\ stack \in Seq([block : BLOCKS, kind : Kinds \ {"key", "list"}])
  /\ chain \in Seq([block : BLOCKS, use : PASSPHRASES \cup {NoPassphrase}])
  /\ items \in BLOCKS \cup {NoBlock} /\ list \in 0..LIST_LEN
  /\ overrun \in BOOLEAN /\ torn \in BOOLEAN
  /\ verdict \in {"none", "refused", "listed"}
  /\ fileOpen \in BOOLEAN /\ starved \in BOOLEAN /\ failed \in BOOLEAN
  /\ chance \in BOOLEAN /\ wild \in BOOLEAN

(* Wherever the decoder gives up, it frees nothing twice and nothing that it  *)
(* does not own (mpgp_open_r's bail, free_keys, decrypt_file), unless the     *)
(* list's buffer could not be allocated: then items keeps pointing to the     *)
(* list that has been freed, and the next list frees it again.                *)
FreedOnce == wild => starved

(* Between two attempts nothing is allocated but the list in use, again       *)
(* unless the list's buffer could not be allocated, which leaves the streams  *)
(* open.                                                                      *)
NothingLeaks ==
  pc = "idle" /\ ~starved => \A b \in BLOCKS : heap[b] # "free" <=> b = items

(* The file is closed when an attempt is over, by the streams on top of it,   *)
(* unless an allocation failed.                                               *)
FileClosed == pc = "idle" /\ fileOpen => failed

(* Decoding one packet at a time, with a chain of keys that spans the nested  *)
(* calls, comes to the list when the packets up to it say so, whatever the    *)
(* order of the session keys, and only then, chance apart.  When it gives up, *)
(* memory not lacking, a packet gave it reason to, except in a file in which  *)
(* a stream is opened with a length that is not its packet's (opgp.c:526,     *)
(* 676): the code may refuse such a file although its packets are readable.   *)
ListedIfReadable ==
  /\ verdict = "listed" /\ ~chance
       => Readable(read, passphrase) /\ read[Len(read)].tag = "literal"
  /\ verdict = "refused" /\ ~failed /\ OwnLengths(read)
       => ~Readable(read, passphrase)

(* The list holds the whole text, as far as the buffer goes, unless the card  *)
(* fails under it or a stream is opened with a length that is not its         *)
(* packet's: the code may cut such a text short, and lists what is left.  So  *)
(* no length gets from a packet into the call that reads what is inside it.   *)
(* The terminator that main.c:231 writes stays within the buffer, unless the  *)
(* text is as long as that or longer: then it lies one byte behind it.        *)
ListWhole ==
  verdict = "listed" =>
    /\ OwnLengths(read) /\ ~torn
         => list = IF Text < LIST_LEN THEN Text ELSE LIST_LEN
    /\ overrun => Text >= LIST_LEN

(* An attempt that fails, for whatever reason, leaves the list in use as it   *)
(* was: decrypt_file frees it only once the new one can be read, except that  *)
(* it does not wait for the buffer.                                           *)
RefusedKeepsList ==
  [][verdict' = "refused" /\ ~starved' /\ items # NoBlock
       => items' = items /\ list' = list /\ heap'[items] = "list"]_vars
=============================================================================
