--------------------------- MODULE OpenPgpProofs ---------------------------
(* Proofs about OpenPgp: its types, what it owns of the heap, and that a file *)
(* that cannot be read leaves the list alone, for every heap, every malloc    *)
(* and every set of packets.                                                  *)
EXTENDS OpenPgp, TLAPS

Heaps == [BLOCKS -> Kinds \cup {"free"}]
Objects == [block : BLOCKS, kind : Kinds]
StreamObjects == [block : BLOCKS, kind : Kinds \ {"key", "list"}]

-----------------------------------------------------------------------------
(* The heap *)

LEMMA UseType ==
  ASSUME NEW h \in Heaps, NEW b \in BLOCKS, NEW k \in Kinds
  PROVE  Use(h, b, k) \in Heaps
  BY DEF Use, Heaps

LEMMA ReleaseType ==
  ASSUME NEW h \in Heaps, NEW s
  PROVE  Release(h, s) \in Heaps
  BY DEF Release, Heaps

LEMMA AvailableFree ==
  ASSUME NEW h \in Heaps, NEW c \in SUBSET BLOCKS,
         NEW b \in Malloc(FreeIn(h) \ c)
  PROVE  b \in BLOCKS /\ h[b] = "free" /\ b \notin c
  <1>1. FreeIn(h) \ c \in SUBSET BLOCKS
    BY DEF FreeIn
  <1>2. Malloc(FreeIn(h) \ c) \subseteq FreeIn(h) \ c
    BY <1>1, MallocAssumption
  <1> QED BY <1>2 DEF FreeIn

LEMMA HeapAvailable ==
  ASSUME NEW h \in Heaps, NEW b \in Malloc(FreeIn(h))
  PROVE  b \in BLOCKS /\ h[b] = "free"
  <1>1. FreeIn(h) \in SUBSET BLOCKS
    BY DEF FreeIn
  <1>2. Malloc(FreeIn(h)) \subseteq FreeIn(h)
    BY <1>1, MallocAssumption
  <1> QED BY <1>2 DEF FreeIn

LEMMA HeldConcat ==
  ASSUME NEW s \in Seq(Objects), NEW t \in Seq(Objects), NEW b
  PROVE  Held(s \o t, b) <=> Held(s, b) \/ Held(t, b)
  <1>1. ASSUME Held(s \o t, b) PROVE Held(s, b) \/ Held(t, b)
    <2>1. PICK i \in 1..(Len(s) + Len(t)) : (s \o t)[i].block = b
      BY <1>1 DEF Held
    <2>2. CASE i <= Len(s)
      BY <2>1, <2>2 DEF Held
    <2>3. CASE i > Len(s)
      <3>1. i - Len(s) \in DOMAIN t /\ (s \o t)[i] = t[i - Len(s)]
        BY <2>1, <2>3
      <3> QED BY <3>1, <2>1 DEF Held
    <2> QED BY <2>2, <2>3
  <1>2. ASSUME Held(s, b) PROVE Held(s \o t, b)
    <2>1. PICK i \in DOMAIN s : s[i].block = b
      BY <1>2 DEF Held
    <2>2. i \in DOMAIN (s \o t) /\ (s \o t)[i] = s[i]
      OBVIOUS
    <2> QED BY <2>1, <2>2 DEF Held
  <1>3. ASSUME Held(t, b) PROVE Held(s \o t, b)
    <2>1. PICK i \in DOMAIN t : t[i].block = b
      BY <1>3 DEF Held
    <2>2. Len(s) + i \in DOMAIN (s \o t) /\ (s \o t)[Len(s) + i] = t[i]
      BY <2>1
    <2> QED BY <2>1, <2>2 DEF Held
  <1> QED BY <1>1, <1>2, <1>3

(* Objects of different uses are different. *)
LEMMA ReleasableConcat ==
  ASSUME NEW h \in Heaps, NEW s \in Seq(Objects), NEW t \in Seq(Objects),
         Releasable(h, s), Releasable(h, t),
         \A i \in DOMAIN s, j \in DOMAIN t : s[i].kind # t[j].kind
  PROVE  Releasable(h, s \o t)
  <1> DEFINE u == s \o t
  <1>1. \A i \in DOMAIN u :
          \/ i \in DOMAIN s /\ u[i] = s[i]
          \/ i - Len(s) \in DOMAIN t /\ u[i] = t[i - Len(s)] /\ i > Len(s)
    OBVIOUS
  <1>2. \A i \in DOMAIN u : h[u[i].block] = u[i].kind
    BY <1>1 DEF Releasable
  <1>3. \A i, j \in DOMAIN s : i # j => s[i].block # s[j].block
    BY DEF Releasable
  <1>4. \A i, j \in DOMAIN t : i # j => t[i].block # t[j].block
    BY DEF Releasable
  <1>5. \A i \in DOMAIN s, j \in DOMAIN t : s[i].block # t[j].block
    BY DEF Releasable
  <1>6. ASSUME NEW i \in DOMAIN u, NEW j \in DOMAIN u, i # j
        PROVE  u[i].block # u[j].block
    <2> DOMAIN u \subseteq Int
      OBVIOUS
    <2>1. CASE i \in DOMAIN s /\ u[i] = s[i]
      BY <1>1, <1>3, <1>5, <1>6, <2>1
    <2>2. CASE i - Len(s) \in DOMAIN t /\ u[i] = t[i - Len(s)] /\ i > Len(s)
      <3>1. CASE j \in DOMAIN s /\ u[j] = s[j]
        BY <2>2, <3>1, <1>5
      <3>2. CASE j - Len(s) \in DOMAIN t /\ u[j] = t[j - Len(s)] /\ j > Len(s)
        <4>1. i - Len(s) # j - Len(s)
          BY <1>6
        <4> QED BY <2>2, <3>2, <4>1, <1>4
      <3> QED BY <3>1, <3>2, <1>1
    <2> QED BY <1>1, <2>1, <2>2
  <1> QED BY <1>2, <1>6 DEF Releasable

LEMMA ReleasableUse ==
  ASSUME NEW h \in Heaps, NEW s \in Seq(Objects), Releasable(h, s),
         NEW b \in BLOCKS, h[b] = "free", NEW k \in Kinds
  PROVE  Releasable(Use(h, b, k), s)
  <1>1. \A i \in DOMAIN s : s[i] \in Objects
    OBVIOUS
  <1>2. \A i \in DOMAIN s : s[i].block # b /\ s[i].block \in BLOCKS
    BY <1>1 DEF Releasable, Kinds, Objects
  <1>3. \A c \in BLOCKS : c # b => Use(h, b, k)[c] = h[c]
    BY DEF Use, Heaps
  <1> QED BY <1>2, <1>3 DEF Releasable

LEMMA ReleasableOne ==
  ASSUME NEW h, NEW b, NEW k, h[b] = k
  PROVE  Releasable(h, <<Object(b, k)>>)
  BY DEF Releasable, Object

LEMMA ReleaseUse ==
  ASSUME NEW h \in Heaps, NEW c \in BLOCKS, h[c] = "free", NEW k
  PROVE  Release(Use(h, c, k), <<Object(c, k)>>) = h
  <1>1. \A b : Held(<<Object(c, k)>>, b) <=> b = c
    BY DEF Held, Object
  <1>2. \A b \in BLOCKS : b # c => Use(h, c, k)[b] = h[b]
    BY DEF Use, Heaps
  <1> QED BY <1>1, <1>2 DEF Release, Heaps

-----------------------------------------------------------------------------
(* Types *)

LEMMA KeysAreObjects ==
  ASSUME TypeOK
  PROVE  /\ KeyObjects \in Seq(Objects)
         /\ \A i \in DOMAIN KeyObjects : KeyObjects[i].kind = "key"
         /\ DOMAIN KeyObjects = DOMAIN chain
  <1> DEFINE Keys == [block : BLOCKS, use : PASSPHRASES \cup {NoPassphrase}]
  <1>a. chain \in Seq(Keys)
    BY DEF TypeOK
  <1>b. \A i \in DOMAIN chain : chain[i] \in Keys
    <2> HIDE DEF Keys
    <2> QED BY <1>a
  <1>1. \A i \in DOMAIN chain : chain[i].block \in BLOCKS
    BY <1>b
  <1>2. \A i \in DOMAIN chain : Object(chain[i].block, "key") \in Objects
    BY <1>1 DEF Object, Objects, Kinds
  <1>3. DOMAIN chain = 1..Len(chain) /\ Len(chain) \in Nat
    BY DEF TypeOK
  <1>4. KeyObjects \in [1..Len(chain) -> Objects]
    BY <1>2, <1>3 DEF KeyObjects
  <1> QED BY <1>3, <1>4 DEF KeyObjects, Object

LEMMA StreamsAreObjects ==
  ASSUME TypeOK
  PROVE  /\ stack \in Seq(Objects) /\ stack \in Seq(StreamObjects)
         /\ \A i \in DOMAIN stack : stack[i].kind \in Kinds \ {"key", "list"}
  <1>1. stack \in Seq(StreamObjects)
    BY DEF TypeOK, StreamObjects
  <1>2. StreamObjects \subseteq Objects
    BY DEF StreamObjects, Objects
  <1>3. \A i \in DOMAIN stack : stack[i] \in StreamObjects
    BY <1>1
  <1>4. stack \in Seq(Objects)
    BY <1>1, <1>2
  <1> QED BY <1>1, <1>3, <1>4 DEF StreamObjects

LEMMA EmptySequences ==
  /\ <<>> \in Seq([block : BLOCKS, kind : Kinds \ {"key", "list"}])
  /\ <<>> \in Seq([block : BLOCKS, use : PASSPHRASES \cup {NoPassphrase}])
  /\ <<>> \in Seq(PACKETS \cup {NoPacket})
  OBVIOUS

LEMMA ZeroLength == 0 \in 0..LIST_LEN
  BY LengthAssumption

LEMMA FreshHeap == [b \in BLOCKS |-> "free"] \in [BLOCKS -> Kinds \cup {"free"}]
  OBVIOUS

LEMMA InitType == Init => TypeOK
  BY EmptySequences, ZeroLength, FreshHeap, Zenon DEF Init, TypeOK

LEMMA PowerCycleType == TypeOK /\ PowerCycle => TypeOK'
  BY EmptySequences, ZeroLength, FreshHeap, Zenon DEF PowerCycle, TypeOK

(* The part of the types that a step which gives up can change.               *)
LEMMA BailType ==
  ASSUME TypeOK, NEW h \in Heaps, NEW lack \in BOOLEAN, Bail(h, lack)
  PROVE  /\ heap' \in Heaps /\ pc' = "idle" /\ verdict' = "refused"
         /\ stack' = <<>> /\ chain' = <<>> /\ fileOpen' = FALSE
         /\ wild' \in BOOLEAN /\ failed' = lack
         /\ items' = items /\ list' = list /\ starved' = starved
         /\ overrun' = overrun /\ torn' = torn
  BY ReleaseType DEF Bail, TypeOK

LEMMA ReadType ==
  ASSUME TypeOK, NEW p \in PACKETS, read' = Append(read, p)
  PROVE  read' \in Seq(PACKETS \cup {NoPacket})
  BY DEF TypeOK

LEMMA HeaderLengthType ==
  ASSUME TypeOK, NEW p
  PROVE  /\ HeaderLength(p) \in {"zero", "own", "stale"}
         /\ EncrEnds(p) \in {"data", "early", "empty"}
  BY DEF TypeOK, HeaderLength, EncrEnds

LEMMA GoOnType ==
  ASSUME TypeOK, NEW h \in Heaps, NEW objects \in Seq(StreamObjects),
         NEW keys \in Seq([block : BLOCKS, use : PASSPHRASES \cup {NoPassphrase}]),
         GoOn(h, objects, keys)
  PROVE  /\ heap' \in Heaps
         /\ stack' \in Seq([block : BLOCKS, kind : Kinds \ {"key", "list"}])
         /\ chain' \in Seq([block : BLOCKS, use : PASSPHRASES \cup {NoPassphrase}])
         /\ UNCHANGED <<pc, verdict, wild, items, list, overrun, torn, starved, failed,
                        fileOpen>>
  BY DEF GoOn, TypeOK, StreamObjects

USE DEF Heaps

LEMMA BeginType ==
  ASSUME TypeOK, Unreadable \/ Unwrapped \/ DecryptFile
  PROVE  TypeOK'
  <1>1. PICK p \in PASSPHRASES : Begin(p)
    BY DEF Unreadable, Unwrapped, DecryptFile
  <1>2. CASE Unreadable
    BY <1>1, <1>2, EmptySequences, Zenon DEF Unreadable, Begin, TypeOK
  <1>3. CASE Unwrapped
    BY <1>1, <1>3, EmptySequences, Zenon DEF Unwrapped, Begin, TypeOK
  <1>4. CASE DecryptFile
    <2>1. PICK b \in Available : /\ heap' = Use(heap, b, "file")
                              /\ stack' = <<Object(b, "file")>>
      BY <1>4 DEF DecryptFile
    <2>2. b \in BLOCKS
      BY <2>1, HeapAvailable DEF Available, TypeOK
    <2>3. heap' \in Heaps
      BY <2>1, <2>2, UseType DEF TypeOK, Kinds
    <2>4. Object(b, "file") \in [block : BLOCKS, kind : Kinds \ {"key", "list"}]
      BY <2>2 DEF Object, Kinds
    <2>5. stack' \in Seq([block : BLOCKS, kind : Kinds \ {"key", "list"}])
      BY <2>1, <2>4
    <2> QED
      BY <1>1, <1>4, <2>3, <2>5, EmptySequences, Zenon
      DEF DecryptFile, Begin, TypeOK, Heaps
  <1> QED BY <1>2, <1>3, <1>4

(* An action that reads a packet and gives up. *)
LEMMA GivesUpType ==
  ASSUME TypeOK, NEW p \in PACKETS \cup {NoPacket}, read' = Append(read, p),
         NEW lack \in BOOLEAN, Bail(heap, lack),
         length' \in {"zero", "own", "stale"},
         ends' \in {"data", "early", "empty"},
         passphrase' = passphrase, chance' \in BOOLEAN
  PROVE  TypeOK'
  <1>1. heap \in Heaps
    BY DEF TypeOK
  <1>2. /\ heap' \in Heaps /\ pc' = "idle" /\ verdict' = "refused"
        /\ stack' = <<>> /\ chain' = <<>> /\ fileOpen' = FALSE
        /\ wild' \in BOOLEAN /\ failed' = lack
        /\ items' = items /\ list' = list /\ starved' = starved
         /\ overrun' = overrun /\ torn' = torn
    BY <1>1, BailType
  <1>3. read' \in Seq(PACKETS \cup {NoPacket})
    BY DEF TypeOK
  <1> QED BY <1>2, <1>3, EmptySequences, Zenon DEF TypeOK, Heaps

(* An action that reads a packet and goes on. *)
LEMMA GoesOnType ==
  ASSUME TypeOK, NEW p \in PACKETS, read' = Append(read, p),
         NEW h \in Heaps, NEW objects \in Seq(StreamObjects),
         NEW keys \in Seq([block : BLOCKS, use : PASSPHRASES \cup {NoPassphrase}]),
         GoOn(h, objects, keys),
         length' \in {"zero", "own", "stale"},
         ends' \in {"data", "early", "empty"},
         passphrase' = passphrase, chance' \in BOOLEAN
  PROVE  TypeOK'
  <1>1. /\ heap' \in Heaps
        /\ stack' \in Seq([block : BLOCKS, kind : Kinds \ {"key", "list"}])
        /\ chain' \in Seq([block : BLOCKS, use : PASSPHRASES \cup {NoPassphrase}])
        /\ UNCHANGED <<pc, verdict, wild, items, list, overrun, torn, starved, failed,
                        fileOpen>>
    BY GoOnType
  <1>2. read' \in Seq(PACKETS \cup {NoPacket})
    BY ReadType
  <1> QED BY <1>1, <1>2, Zenon DEF TypeOK, Heaps

LEMMA NothingHeld ==
  ASSUME TypeOK, NEW c \in Available
  PROVE  /\ c \in BLOCKS /\ heap[c] = "free" /\ heap \in Heaps
         /\ Release(Use(heap, c, "ctx"), <<Object(c, "ctx")>>) = heap
  <1>1. heap \in Heaps
    BY DEF TypeOK
  <1>2. c \in BLOCKS /\ heap[c] = "free"
    BY <1>1, HeapAvailable DEF Available
  <1> QED BY <1>1, <1>2, ReleaseUse

(* What the actions that give up have in common. *)
GivesUp ==
  /\ \E p \in PACKETS \cup {NoPacket} : read' = Append(read, p)
  /\ \E lack \in BOOLEAN : Bail(heap, lack)
  /\ passphrase' = passphrase /\ chance' = chance
  /\ length' \in {"zero", "own", "stale"}
  /\ ends' \in {"data", "early", "empty"}

LEMMA GivesUpActions ==
  ASSUME TypeOK,
         \/ NoMorePackets \/ CutShort \/ Refused
         \/ NoContext \/ WrongPassphrase \/ NoStream
  PROVE  GivesUp
  <1>1. length \in {"zero", "own", "stale"} /\ ends \in {"data", "early", "empty"}
    BY DEF TypeOK
  <1>2. CASE NoMorePackets
    BY <1>1, <1>2 DEF NoMorePackets, GivesUp
  <1>3. CASE CutShort
    BY <1>1, <1>3 DEF CutShort, Reads, GivesUp
  <1>4. CASE Refused
    BY <1>1, <1>4 DEF Refused, Reads, GivesUp
  <1>5. CASE NoContext
    BY <1>1, <1>5 DEF NoContext, Encrypted, Reads, GivesUp
  <1>6. CASE WrongPassphrase
    BY <1>1, <1>6, NothingHeld DEF WrongPassphrase, Encrypted, Reads, GivesUp
  <1>7. CASE NoStream
    BY <1>1, <1>7, NothingHeld DEF NoStream, Encrypted, Reads, GivesUp
  <1> QED BY <1>2, <1>3, <1>4, <1>5, <1>6, <1>7

(* What the actions that open a packet have in common: some blocks that were  *)
(* free are used for streams, with their context, or for a key.               *)
Opens(b, kind, keys) ==
  /\ b \in BLOCKS /\ heap[b] = "free"
  /\ GoOn(Use(heap, b, kind), IF kind = "key" THEN <<>> ELSE <<Object(b, kind)>>,
          keys)

LEMMA SessionKeyOpens ==
  ASSUME TypeOK, SessionKey
  PROVE  \/ GivesUp
         \/ \E p \in PACKETS, b \in Available :
              /\ read' = Append(read, p) /\ p.tag = "skesk" /\ p.use # Unhandled
              /\ p.whole /\ pc = "packets"
              /\ GoOn(Use(heap, b, "key"), <<>>,
                      <<[block |-> b, use |-> p.use]>> \o chain)
              /\ length' = HeaderLength(p)
              /\ UNCHANGED <<ends, chance, passphrase>>
  BY HeaderLengthType
  DEF SessionKey, Reads, Handled, GivesUp, TypeOK

LEMMA CompressedOpens ==
  ASSUME TypeOK, Compressed
  PROVE  \/ GivesUp
         \/ \E p \in PACKETS, b \in Available :
              /\ read' = Append(read, p) /\ p.tag = "compressed" /\ p.use # Unhandled
              /\ p.whole /\ pc = "packets"
              /\ GoOn(Use(heap, b, "compressed"), <<Object(b, "compressed")>>, chain)
              /\ length' = "zero"
              /\ UNCHANGED <<ends, chance, passphrase>>
  BY DEF Compressed, Reads, Handled, GivesUp, TypeOK

LEMMA SessionKeyType == ASSUME TypeOK, SessionKey PROVE TypeOK'
  <1>1. CASE GivesUp
    BY <1>1, GivesUpType DEF GivesUp, TypeOK
  <1>2. CASE ~GivesUp
    <2>1. PICK p \in PACKETS, b \in Available :
            /\ read' = Append(read, p) /\ p.tag = "skesk" /\ p.use # Unhandled
            /\ p.whole /\ pc = "packets"
            /\ GoOn(Use(heap, b, "key"), <<>>,
                    <<[block |-> b, use |-> p.use]>> \o chain)
            /\ length' = HeaderLength(p)
            /\ UNCHANGED <<ends, chance, passphrase>>
      BY <1>2, SessionKeyOpens
    <2> DEFINE Keys == [block : BLOCKS, use : PASSPHRASES \cup {NoPassphrase}]
    <2>2. b \in BLOCKS
      BY NothingHeld
    <2>3. Use(heap, b, "key") \in Heaps
      BY <2>2, UseType DEF TypeOK, Kinds
    <2>4. p.use \in PASSPHRASES \cup {NoPassphrase}
      BY <2>1, PacketsAssumption DEF Packet
    <2>5. [block |-> b, use |-> p.use] \in Keys
      BY <2>2, <2>4
    <2>6. chain \in Seq(Keys)
      BY DEF TypeOK
    <2>7. <<[block |-> b, use |-> p.use]>> \o chain \in Seq(Keys)
      <3> DEFINE k == [block |-> b, use |-> p.use]
      <3>1. k \in Keys
        BY <2>5
      <3> HIDE DEF k, Keys
      <3>2. <<k>> \o chain \in Seq(Keys)
        BY <3>1, <2>6
      <3> QED BY <3>2 DEF k
    <2>8. /\ length' \in {"zero", "own", "stale"}
          /\ ends' \in {"data", "early", "empty"}
          /\ chance' \in BOOLEAN
      BY <2>1, HeaderLengthType DEF TypeOK
    <2>9. <<>> \in Seq(StreamObjects)
      OBVIOUS
    <2> QED BY <2>1, <2>3, <2>7, <2>8, <2>9, GoesOnType
  <1> QED BY <1>1, <1>2

LEMMA CompressedType == ASSUME TypeOK, Compressed PROVE TypeOK'
  <1>1. CASE GivesUp
    BY <1>1, GivesUpType DEF GivesUp, TypeOK
  <1>2. CASE ~GivesUp
    <2>1. PICK p \in PACKETS, b \in Available :
            /\ read' = Append(read, p)
            /\ GoOn(Use(heap, b, "compressed"), <<Object(b, "compressed")>>, chain)
            /\ length' = "zero"
            /\ UNCHANGED <<ends, chance, passphrase>>
      BY <1>2, CompressedOpens
    <2>2. b \in BLOCKS
      BY NothingHeld
    <2>3. Use(heap, b, "compressed") \in Heaps
      BY <2>2, UseType DEF TypeOK, Kinds
    <2>4. Object(b, "compressed") \in StreamObjects
      BY <2>2 DEF Object, StreamObjects, Kinds
    <2>5. <<Object(b, "compressed")>> \in Seq(StreamObjects)
      BY <2>4
    <2>6. /\ length' \in {"zero", "own", "stale"}
          /\ ends' \in {"data", "early", "empty"}
          /\ chance' \in BOOLEAN
          /\ chain \in Seq([block : BLOCKS, use : PASSPHRASES \cup {NoPassphrase}])
      BY <2>1 DEF TypeOK
    <2> QED BY <2>1, <2>3, <2>5, <2>6, GoesOnType
  <1> QED BY <1>1, <1>2

(* The two blocks of an encrypted stream are different and were free. *)
LEMMA DecryptingOpens ==
  ASSUME TypeOK, Decrypting
  PROVE  \E p \in PACKETS, c \in BLOCKS, b \in BLOCKS :
           /\ b # c /\ heap[b] = "free" /\ heap[c] = "free"
           /\ read' = Append(read, p) /\ p.tag = "encrypted" /\ p.use # Unhandled
           /\ p.whole /\ pc = "packets"
           /\ GoOn(Use(Use(heap, c, "ctx"), b, "encrypted"),
                   <<Object(c, "ctx"), Object(b, "encrypted")>>, chain)
           /\ length' = "zero" /\ ends' = EncrEnds(p)
           /\ passphrase' = passphrase
           /\ \/ RightKey /\ UNCHANGED chance
              \/ chain # <<>> /\ chance' = TRUE
  <1>1. PICK p \in PACKETS, c \in Available :
          /\ Encrypted(p)
          /\ \/ RightKey /\ UNCHANGED chance
             \/ chain # <<>> /\ chance' = TRUE
          /\ \E b \in Malloc(FreeIn(heap) \ {c}) :
               GoOn(Use(Use(heap, c, "ctx"), b, "encrypted"),
                    <<Object(c, "ctx"), Object(b, "encrypted")>>, chain)
          /\ length' = "zero" /\ ends' = EncrEnds(p)
    BY DEF Decrypting
  <1>2. PICK b \in Malloc(FreeIn(heap) \ {c}) :
          GoOn(Use(Use(heap, c, "ctx"), b, "encrypted"),
               <<Object(c, "ctx"), Object(b, "encrypted")>>, chain)
    BY <1>1
  <1>3. c \in BLOCKS /\ heap[c] = "free" /\ heap \in Heaps
    BY NothingHeld
  <1>4. b \in BLOCKS /\ heap[b] = "free" /\ b # c
    <2> DEFINE used == {c}
    <2>1. used \in SUBSET BLOCKS /\ b \in Malloc(FreeIn(heap) \ used)
      BY <1>3
    <2>2. c \in used
      OBVIOUS
    <2> HIDE DEF used
    <2>3. b \in BLOCKS /\ heap[b] = "free" /\ b \notin used
      BY <1>3, <2>1, AvailableFree
    <2> QED BY <2>2, <2>3
  <1>5. /\ read' = Append(read, p) /\ p.tag = "encrypted" /\ p.use # Unhandled
        /\ p.whole /\ pc = "packets" /\ passphrase' = passphrase
    BY <1>1, Zenon DEF Encrypted, Reads, Handled
  <1> QED BY <1>1, <1>2, <1>3, <1>4, <1>5, Zenon

LEMMA DecryptingType == ASSUME TypeOK, Decrypting PROVE TypeOK'
  <1>1. PICK p \in PACKETS, c \in BLOCKS, b \in BLOCKS :
          /\ b # c /\ heap[b] = "free" /\ heap[c] = "free"
          /\ read' = Append(read, p)
          /\ GoOn(Use(Use(heap, c, "ctx"), b, "encrypted"),
                  <<Object(c, "ctx"), Object(b, "encrypted")>>, chain)
          /\ length' = "zero" /\ ends' = EncrEnds(p)
          /\ passphrase' = passphrase
          /\ chance' = chance \/ chance' = TRUE
    BY DecryptingOpens
  <1>2. Use(heap, c, "ctx") \in Heaps
    BY UseType DEF TypeOK, Kinds
  <1>3. Use(Use(heap, c, "ctx"), b, "encrypted") \in Heaps
    BY <1>2, UseType DEF Kinds
  <1>4. /\ Object(c, "ctx") \in StreamObjects
        /\ Object(b, "encrypted") \in StreamObjects
    BY DEF Object, StreamObjects, Kinds
  <1>5. <<Object(c, "ctx"), Object(b, "encrypted")>> \in Seq(StreamObjects)
    BY <1>4
  <1>6. /\ length' \in {"zero", "own", "stale"}
        /\ ends' \in {"data", "early", "empty"}
        /\ chain \in Seq([block : BLOCKS, use : PASSPHRASES \cup {NoPassphrase}])
    BY <1>1, HeaderLengthType DEF TypeOK
  <1>7. chance' \in BOOLEAN
    BY <1>1, Zenon DEF TypeOK
  <1> QED BY <1>1, <1>3, <1>5, <1>6, <1>7, GoesOnType

LEMMA LiteralOpens ==
  ASSUME TypeOK, Literal
  PROVE  \/ GivesUp
         \/ \E p \in PACKETS, b \in Available :
              /\ read' = Append(read, p) /\ p.tag = "literal" /\ p.use # Unhandled
              /\ p.whole /\ pc = "packets" /\ pc' = "list"
              /\ heap' = Release(Use(heap, b, "literal"), KeyObjects)
              /\ wild' = (wild \/ ~Releasable(Use(heap, b, "literal"), KeyObjects))
              /\ stack' = Append(stack, Object(b, "literal"))
              /\ chain' = <<>>
              /\ length' = HeaderLength(p)
              /\ ends' = IF length' = "stale" THEN "early" ELSE ends
              /\ UNCHANGED <<verdict, items, list, overrun, torn, starved, failed, fileOpen,
                             chance, passphrase>>
  BY HeaderLengthType DEF Literal, Reads, Handled, GivesUp, TypeOK

LEMMA LiteralType == ASSUME TypeOK, Literal PROVE TypeOK'
  <1>1. CASE GivesUp
    BY <1>1, GivesUpType DEF GivesUp, TypeOK
  <1>2. CASE ~GivesUp
    <2>1. PICK p \in PACKETS, b \in Available :
            /\ read' = Append(read, p) /\ pc' = "list"
            /\ heap' = Release(Use(heap, b, "literal"), KeyObjects)
            /\ wild' = (wild \/ ~Releasable(Use(heap, b, "literal"), KeyObjects))
            /\ stack' = Append(stack, Object(b, "literal"))
            /\ chain' = <<>>
            /\ length' = HeaderLength(p)
            /\ ends' = IF length' = "stale" THEN "early" ELSE ends
            /\ UNCHANGED <<verdict, items, list, overrun, torn, starved, failed, fileOpen,
                           chance, passphrase>>
      BY <1>2, LiteralOpens
    <2>2. b \in BLOCKS
      BY NothingHeld
    <2>3. heap' \in Heaps
      BY <2>1, <2>2, UseType, ReleaseType DEF TypeOK, Kinds
    <2>4. Object(b, "literal") \in StreamObjects
      BY <2>2 DEF Object, StreamObjects, Kinds
    <2>5. stack \in Seq(StreamObjects)
      BY DEF TypeOK, StreamObjects
    <2>6. stack' \in Seq(StreamObjects)
      <3> DEFINE o == Object(b, "literal")
      <3>1. o \in StreamObjects
        BY <2>4
      <3> HIDE DEF o
      <3>2. Append(stack, o) \in Seq(StreamObjects)
        BY <3>1, <2>5
      <3> QED BY <2>1, <3>2 DEF o
    <2>7. length' \in {"zero", "own", "stale"} /\ ends' \in {"data", "early", "empty"}
      BY <2>1, HeaderLengthType DEF TypeOK
    <2>8. read' \in Seq(PACKETS \cup {NoPacket})
      BY <2>1, ReadType
    <2> QED
      BY <2>1, <2>3, <2>6, <2>7, <2>8, EmptySequences, Zenon
      DEF TypeOK, Heaps, StreamObjects
  <1> QED BY <1>1, <1>2

LEMMA BytesType ==
  ASSUME TypeOK, pc = "list", NEW fails, NEW n \in Counts(fails), Text \in Nat
  PROVE  n \in 0..LIST_LEN /\ n <= Text
  BY LengthAssumption DEF Counts, BytesRead, Most

(* In the list's state the last packet read is a literal. *)
TextKnown == pc = "list" => read # <<>> /\ read[Len(read)] \in PACKETS

LEMMA NoBufferType == ASSUME TypeOK, NoBuffer PROVE TypeOK'
  <1>1. heap' \in Heaps
    BY ReleaseType DEF NoBuffer, TypeOK
  <1>2. wild' \in BOOLEAN
    BY Zenon DEF NoBuffer, TypeOK
  <1> QED BY <1>1, <1>2, EmptySequences, Zenon DEF NoBuffer, TypeOK, Heaps

LEMMA ReadListType == ASSUME TypeOK, TextKnown, ReadList PROVE TypeOK'
  <1> DEFINE h == Release(heap, OldList)
  <1>1. PICK b \in Malloc(FreeIn(h)), n \in Counts(torn') :
          /\ items' = b /\ list' = n /\ overrun' = (n \notin BufferPlaces)
          /\ heap' = Release(Use(h, b, "list"), stack)
          /\ wild' = (wild \/ ~Releasable(heap, OldList)
                           \/ ~Releasable(Use(h, b, "list"), stack))
    BY Zenon DEF ReadList
  <1>2. h \in Heaps
    BY ReleaseType DEF TypeOK
  <1> HIDE DEF h
  <1>3. b \in BLOCKS
    BY <1>2, HeapAvailable
  <1>4. heap' \in Heaps
    BY <1>1, <1>2, <1>3, UseType, ReleaseType DEF Kinds
  <1>5. pc = "list"
    BY DEF ReadList
  <1>6. Text \in Nat
    BY <1>5, PacketsAssumption DEF Text, TextKnown, Packet
  <1>7. n \in 0..LIST_LEN
    BY <1>5, <1>6, BytesType
  <1>8. wild' \in BOOLEAN /\ overrun' \in BOOLEAN
    BY <1>1, Zenon
  <1> QED
    BY <1>1, <1>3, <1>4, <1>7, <1>8, EmptySequences, Zenon
    DEF ReadList, TypeOK, Heaps

LEMMA NextTextKnown ==
  ASSUME TypeOK, TextKnown, [Next]_vars
  PROVE  TextKnown'
  <1>1. CASE Literal
    <2>1. CASE GivesUp
      BY <2>1 DEF GivesUp, Bail, TextKnown
    <2>2. CASE ~GivesUp
      <3>1. PICK p \in PACKETS : read' = Append(read, p)
        BY <1>1, <2>2, LiteralOpens
      <3>2. read \in Seq(PACKETS \cup {NoPacket})
        BY DEF TypeOK
      <3>3. read' # <<>> /\ read'[Len(read')] = p
        BY <3>1, <3>2
      <3> QED BY <3>3 DEF TextKnown
    <2> QED BY <2>1, <2>2
  <1>2. CASE NoMorePackets \/ CutShort \/ Refused
             \/ NoContext \/ WrongPassphrase \/ NoStream
    BY <1>2, GivesUpActions DEF GivesUp, Bail, TextKnown
  <1>3. CASE SessionKey
    BY <1>3 DEF SessionKey, Reads, GoOn, Bail, TextKnown
  <1>4. CASE Compressed
    BY <1>4 DEF Compressed, Reads, GoOn, Bail, TextKnown
  <1>5. CASE Decrypting
    BY <1>5 DEF Decrypting, Encrypted, Reads, GoOn, TextKnown
  <1>6. CASE Unreadable \/ Unwrapped \/ DecryptFile
    BY <1>6 DEF Unreadable, Unwrapped, DecryptFile, Begin, TextKnown
  <1>7. CASE NoBuffer \/ ReadList \/ PowerCycle
    BY <1>7, Zenon DEF NoBuffer, ReadList, PowerCycle, TextKnown
  <1>8. CASE UNCHANGED vars
    BY <1>8 DEF vars, TextKnown
  <1> QED
    BY <1>1, <1>2, <1>3, <1>4, <1>5, <1>6, <1>7, <1>8 DEF Next, OpenPackets

LEMMA NextType ==
  ASSUME TypeOK, TextKnown, [Next]_vars
  PROVE  TypeOK'
  <1>1. CASE NoMorePackets \/ CutShort \/ Refused
             \/ NoContext \/ WrongPassphrase \/ NoStream
    <2>1. GivesUp
      BY <1>1, GivesUpActions
    <2> QED BY <2>1, GivesUpType DEF GivesUp, TypeOK
  <1>2. CASE UNCHANGED vars
    <2>1. /\ heap' = heap /\ pc' = pc /\ passphrase' = passphrase
          /\ read' = read /\ length' = length /\ ends' = ends
          /\ stack' = stack /\ chain' = chain /\ items' = items
          /\ list' = list /\ fileOpen' = fileOpen /\ verdict' = verdict
          /\ starved' = starved /\ failed' = failed /\ chance' = chance
          /\ wild' = wild /\ overrun' = overrun /\ torn' = torn
      BY <1>2 DEF vars
    <2>2. /\ fileOpen' \in BOOLEAN /\ starved' \in BOOLEAN /\ failed' \in BOOLEAN
          /\ chance' \in BOOLEAN /\ wild' \in BOOLEAN
          /\ overrun' \in BOOLEAN /\ torn' \in BOOLEAN
      BY <2>1, Zenon DEF TypeOK
    <2>3. /\ heap' \in Heaps /\ pc' \in {"idle", "packets", "list"}
          /\ passphrase' \in PASSPHRASES
          /\ read' \in Seq(PACKETS \cup {NoPacket})
          /\ length' \in {"zero", "own", "stale"}
          /\ ends' \in {"data", "early", "empty"}
          /\ stack' \in Seq([block : BLOCKS, kind : Kinds \ {"key", "list"}])
          /\ chain' \in Seq([block : BLOCKS, use : PASSPHRASES \cup {NoPassphrase}])
          /\ items' \in BLOCKS \cup {NoBlock} /\ list' \in 0..LIST_LEN
          /\ verdict' \in {"none", "refused", "listed"}
      BY <2>1 DEF TypeOK
    <2> QED BY <2>2, <2>3, Zenon DEF TypeOK, Heaps
  <1> QED
    BY <1>1, <1>2, SessionKeyType, CompressedType, DecryptingType, LiteralType,
       BeginType, NoBufferType, ReadListType, PowerCycleType
    DEF Next, OpenPackets

(* The variables have their types: whatever malloc does and whatever the file *)
(* holds (mpgp_open_r, decrypt_file), a list's text never outgrows its        *)
(* buffer.  Of the terminator behind the text it says nothing: ListWhole.     *)
THEOREM OpenPgpTypeCorrect == Spec => []TypeOK
  <1>1. Init => TypeOK /\ TextKnown
    BY InitType DEF Init, TextKnown
  <1>2. TypeOK /\ TextKnown /\ [Next]_vars => (TypeOK /\ TextKnown)'
    BY NextType, NextTextKnown
  <1> QED BY <1>1, <1>2, PTL DEF Spec

-----------------------------------------------------------------------------
(* What is allocated, and for whom: the streams and keys are there, each once, *)
(* the list is there, and nothing else is.                                    *)

Owns(h, s, k, list_block) ==
  /\ Releasable(h, s) /\ Releasable(h, k)
  /\ list_block # NoBlock => h[list_block] = "list"
  /\ \A b \in BLOCKS : h[b] = "free" \/ Held(s, b) \/ Held(k, b) \/ b = list_block

Owned ==
  /\ pc = "idle" => stack = <<>> /\ chain = <<>>
  /\ pc = "list" => chain = <<>>
  /\ wild => starved
  /\ ~starved => Owns(heap, stack, KeyObjects, items)
  /\ pc = "idle" /\ fileOpen => failed

LEMMA NoKeys ==
  ASSUME chain = <<>>
  PROVE  /\ DOMAIN KeyObjects = {} /\ \A b : ~Held(KeyObjects, b)
         /\ \A h : Releasable(h, KeyObjects)
  BY DEF KeyObjects, Held, Releasable

LEMMA NoStreams ==
  ASSUME stack = <<>>
  PROVE  /\ \A b : ~Held(stack, b)
         /\ \A h : Releasable(h, stack)
  BY DEF Held, Releasable

LEMMA NoKeysNext ==
  ASSUME chain' = <<>>
  PROVE  /\ \A b : ~Held(KeyObjects', b)
         /\ \A h : Releasable(h, KeyObjects')
  BY DEF KeyObjects, Held, Releasable

LEMMA NoStreamsNext ==
  ASSUME stack' = <<>>
  PROVE  /\ \A b : ~Held(stack', b)
         /\ \A h : Releasable(h, stack')
  BY DEF Held, Releasable

(* The list is in none of the blocks that are freed with the streams.         *)
LEMMA ListNotHeld ==
  ASSUME TypeOK, NEW h, Owns(h, stack, KeyObjects, items), items # NoBlock
  PROVE  ~Held(stack, items) /\ ~Held(KeyObjects, items) /\ items \in BLOCKS
  <1>1. ASSUME Held(stack, items) PROVE FALSE
    <2>1. PICK i \in DOMAIN stack : stack[i].block = items
      BY <1>1 DEF Held
    <2>2. h[items] = stack[i].kind /\ h[items] = "list"
      BY <2>1 DEF Owns, Releasable
    <2>3. stack[i].kind # "list"
      BY <2>1, StreamsAreObjects
    <2> QED BY <2>2, <2>3
  <1>2. ASSUME Held(KeyObjects, items) PROVE FALSE
    <2>1. PICK i \in DOMAIN KeyObjects : KeyObjects[i].block = items
      BY <1>2 DEF Held
    <2>2. h[items] = KeyObjects[i].kind /\ h[items] = "list"
      BY <2>1 DEF Owns, Releasable
    <2>3. KeyObjects[i].kind = "key"
      BY <2>1, KeysAreObjects
    <2> QED BY <2>2, <2>3
  <1> QED BY <1>1, <1>2 DEF TypeOK

(* Giving up frees all that the attempt has allocated, and nothing else.      *)
LEMMA BailOwns ==
  ASSUME TypeOK, Owned, ~starved, NEW lack, Bail(heap, lack)
  PROVE  /\ Owns(heap', stack', KeyObjects', items') /\ ~wild'
         /\ items # NoBlock => heap'[items] = "list"
  <1> DEFINE all == stack \o KeyObjects
  <1>1. Owns(heap, stack, KeyObjects, items)
    BY DEF Owned
  <1>2. heap \in Heaps /\ stack \in Seq(Objects) /\ KeyObjects \in Seq(Objects)
    BY StreamsAreObjects, KeysAreObjects DEF TypeOK
  <1>3. \A i \in DOMAIN stack, j \in DOMAIN KeyObjects :
          stack[i].kind # KeyObjects[j].kind
    BY StreamsAreObjects, KeysAreObjects
  <1>4. Releasable(heap, all)
    BY <1>1, <1>2, <1>3, ReleasableConcat DEF Owns
  <1>5. \A b : Held(all, b) <=> Held(stack, b) \/ Held(KeyObjects, b)
    BY <1>2, HeldConcat
  <1>6. heap' = Release(heap, all) /\ wild' = (wild \/ ~Releasable(heap, all))
        /\ stack' = <<>> /\ chain' = <<>> /\ items' = items
    BY DEF Bail
  <1> HIDE DEF all
  <1>7. \A b \in BLOCKS : heap'[b] = IF Held(all, b) THEN "free" ELSE heap[b]
    BY <1>6 DEF Release
  <1>8. ASSUME items # NoBlock PROVE heap'[items] = "list"
    <2>1. items \in BLOCKS /\ ~Held(all, items)
      BY <1>1, <1>5, <1>8, ListNotHeld
    <2> QED BY <2>1, <1>1, <1>7, <1>8 DEF Owns
  <1>9. \A b \in BLOCKS : heap'[b] = "free" \/ b = items
    BY <1>1, <1>5, <1>7 DEF Owns
  <1>10. ~wild'
    BY <1>4, <1>6 DEF Owned
  <1> QED
    BY <1>6, <1>8, <1>9, <1>10, NoKeysNext, NoStreamsNext DEF Owns

LEMMA GivesUpOwned ==
  ASSUME TypeOK, Owned, GivesUp
  PROVE  Owned'
  <1>1. PICK lack \in BOOLEAN : Bail(heap, lack)
    BY DEF GivesUp
  <1>2. /\ pc' = "idle" /\ stack' = <<>> /\ chain' = <<>> /\ fileOpen' = FALSE
        /\ starved' = starved
    BY <1>1 DEF Bail
  <1>3. CASE starved
    BY <1>2, <1>3 DEF Owned
  <1>4. CASE ~starved
    <2>1. Owns(heap', stack', KeyObjects', items') /\ ~wild'
      BY <1>1, <1>4, BailOwns
    <2> QED BY <1>2, <2>1 DEF Owned
  <1> QED BY <1>3, <1>4

(* A free block that is put to use is held by nobody yet.                     *)
LEMMA UseOwns ==
  ASSUME NEW h \in Heaps, NEW s \in Seq(Objects), NEW k \in Seq(Objects),
         NEW l, Owns(h, s, k, l), l = NoBlock \/ l \in BLOCKS,
         NEW b \in BLOCKS, h[b] = "free", NEW kind \in Kinds
  PROVE  /\ Releasable(Use(h, b, kind), s) /\ Releasable(Use(h, b, kind), k)
         /\ l # NoBlock => Use(h, b, kind)[l] = "list" /\ l # b
         /\ ~Held(s, b) /\ ~Held(k, b)
         /\ \A c \in BLOCKS : \/ Use(h, b, kind)[c] = "free" \/ c = b
                             \/ Held(s, c) \/ Held(k, c) \/ c = l
         /\ Use(h, b, kind)[b] = kind
  <1>1. Releasable(h, s) /\ Releasable(h, k)
    BY DEF Owns
  <1>2. Releasable(Use(h, b, kind), s) /\ Releasable(Use(h, b, kind), k)
    BY <1>1, ReleasableUse
  <1>3. \A c \in BLOCKS : Use(h, b, kind)[c] = IF c = b THEN kind ELSE h[c]
    BY DEF Use, Heaps
  <1>4. \A i \in DOMAIN s : s[i].block # b
    <2>1. \A i \in DOMAIN s : s[i] \in Objects
      OBVIOUS
    <2> QED BY <1>1, <2>1 DEF Releasable, Objects, Kinds
  <1>5. \A i \in DOMAIN k : k[i].block # b
    <2>1. \A i \in DOMAIN k : k[i] \in Objects
      OBVIOUS
    <2> QED BY <1>1, <2>1 DEF Releasable, Objects, Kinds
  <1>6. ~Held(s, b) /\ ~Held(k, b)
    BY <1>4, <1>5 DEF Held
  <1>7. l # NoBlock => Use(h, b, kind)[l] = "list" /\ l # b
    BY <1>3 DEF Owns
  <1>8. \A c \in BLOCKS : \/ Use(h, b, kind)[c] = "free" \/ c = b
                        \/ Held(s, c) \/ Held(k, c) \/ c = l
    BY <1>3 DEF Owns
  <1>9. Use(h, b, kind)[b] = kind
    BY <1>3
  <1> QED BY <1>2, <1>6, <1>7, <1>8, <1>9

LEMMA HeldAppend ==
  ASSUME NEW s \in Seq(Objects), NEW o \in Objects, NEW b
  PROVE  Held(Append(s, o), b) <=> Held(s, b) \/ b = o.block
  <1> DEFINE t == Append(s, o)
  <1>1. Len(t) = Len(s) + 1 /\ t[Len(s) + 1] = o
        /\ \A i \in 1..Len(s) : t[i] = s[i]
    OBVIOUS
  <1>2. DOMAIN t = 1..(Len(s) + 1) /\ DOMAIN s = 1..Len(s)
    OBVIOUS
  <1>3. \A i \in 1..(Len(s) + 1) : i \in 1..Len(s) \/ i = Len(s) + 1
    OBVIOUS
  <1> HIDE DEF t
  <1>4. Held(t, b) => Held(s, b) \/ b = o.block
    BY <1>1, <1>2, <1>3 DEF Held
  <1>5. Held(s, b) => Held(t, b)
    BY <1>1, <1>2 DEF Held
  <1>6. b = o.block => Held(t, b)
    BY <1>1, <1>2 DEF Held
  <1> QED BY <1>4, <1>5, <1>6 DEF t

LEMMA ReleasableAppend ==
  ASSUME NEW h, NEW s \in Seq(Objects), NEW o \in Objects,
         Releasable(h, s), h[o.block] = o.kind, ~Held(s, o.block)
  PROVE  Releasable(h, Append(s, o))
  <1> DEFINE t == Append(s, o)
  <1>1. Len(t) = Len(s) + 1 /\ t[Len(s) + 1] = o
        /\ \A i \in 1..Len(s) : t[i] = s[i]
    OBVIOUS
  <1>2. DOMAIN t = 1..(Len(s) + 1) /\ DOMAIN s = 1..Len(s)
    OBVIOUS
  <1>3. \A i \in 1..(Len(s) + 1) : i \in 1..Len(s) \/ i = Len(s) + 1
    OBVIOUS
  <1> HIDE DEF t
  <1>4. \A i \in DOMAIN t : h[t[i].block] = t[i].kind
    BY <1>1, <1>2, <1>3 DEF Releasable
  <1>5. \A i \in 1..Len(s) : s[i].block # o.block
    BY <1>2 DEF Held
  <1>6. \A i, j \in DOMAIN t : i # j => t[i].block # t[j].block
    BY <1>1, <1>2, <1>3, <1>5 DEF Releasable
  <1> QED BY <1>4, <1>6 DEF Releasable, t

LEMMA ConcatOne ==
  ASSUME NEW s \in Seq(Objects), NEW o \in Objects
  PROVE  s \o <<o>> = Append(s, o)
  OBVIOUS

LEMMA ConcatTwo ==
  ASSUME NEW s \in Seq(Objects), NEW o \in Objects, NEW q \in Objects
  PROVE  s \o <<o, q>> = Append(Append(s, o), q)
  OBVIOUS

(* A stream is opened on top of those that are open. *)
LEMMA PushOwns ==
  ASSUME NEW h \in Heaps, NEW s \in Seq(Objects), NEW k \in Seq(Objects),
         NEW l, Owns(h, s, k, l), l = NoBlock \/ l \in BLOCKS,
         NEW b \in BLOCKS, h[b] = "free", NEW kind \in Kinds
  PROVE  /\ Owns(Use(h, b, kind), Append(s, Object(b, kind)), k, l)
         /\ Append(s, Object(b, kind)) \in Seq(Objects)
         /\ Use(h, b, kind) \in Heaps
  <1> DEFINE o == Object(b, kind)
             g == Use(h, b, kind)
  <1>1. o \in Objects /\ o.block = b /\ o.kind = kind
    BY DEF Object, Objects
  <1>2. g \in Heaps
    BY UseType
  <1>3. /\ Releasable(g, s) /\ Releasable(g, k)
        /\ l # NoBlock => g[l] = "list" /\ l # b
        /\ ~Held(s, b) /\ ~Held(k, b)
        /\ \A c \in BLOCKS : g[c] = "free" \/ c = b \/ Held(s, c) \/ Held(k, c) \/ c = l
        /\ g[b] = kind
    BY UseOwns
  <1> HIDE DEF o, g
  <1>4. Append(s, o) \in Seq(Objects)
    BY <1>1
  <1>5. Releasable(g, Append(s, o))
    BY <1>1, <1>3, ReleasableAppend
  <1>6. \A c : Held(Append(s, o), c) <=> Held(s, c) \/ c = b
    BY <1>1, HeldAppend
  <1>7. Owns(g, Append(s, o), k, l)
    BY <1>3, <1>5, <1>6 DEF Owns
  <1> QED BY <1>2, <1>4, <1>7 DEF o, g

LEMMA BeginOwned ==
  ASSUME TypeOK, Owned, Unreadable \/ Unwrapped \/ DecryptFile
  PROVE  Owned'
  <1>1. /\ pc = "idle" /\ ~wild /\ items' = items /\ starved' = starved
        /\ chain' = chain /\ wild' = wild /\ stack = <<>> /\ chain = <<>>
    BY DEF Unreadable, Unwrapped, DecryptFile, Begin, Owned
  <1>2. KeyObjects' = KeyObjects
    BY <1>1 DEF KeyObjects
  <1>3. CASE Unreadable
    BY <1>1, <1>2, <1>3 DEF Unreadable, Owned
  <1>4. CASE Unwrapped
    BY <1>1, <1>2, <1>4 DEF Unwrapped, Owned
  <1>5. CASE DecryptFile
    <2>1. PICK b \in Available : /\ heap' = Use(heap, b, "file")
                              /\ stack' = <<Object(b, "file")>>
      BY <1>5 DEF DecryptFile
    <2>2. b \in BLOCKS /\ heap[b] = "free" /\ heap \in Heaps
      BY <2>1, NothingHeld
    <2>3. stack' = Append(stack, Object(b, "file"))
      BY <1>1, <2>1
    <2>4. CASE ~starved
      <3>1. Owns(heap, stack, KeyObjects, items)
        BY <2>4 DEF Owned
      <3>2. /\ items = NoBlock \/ items \in BLOCKS
            /\ "file" \in Kinds /\ stack \in Seq(Objects)
            /\ KeyObjects \in Seq(Objects)
        BY StreamsAreObjects, KeysAreObjects DEF TypeOK, Kinds
      <3>3. Owns(heap', stack', KeyObjects, items)
        <4>1. Owns(Use(heap, b, "file"), Append(stack, Object(b, "file")),
                   KeyObjects, items)
          BY <2>2, <3>1, <3>2, PushOwns
        <4> QED BY <2>1, <2>3, <4>1
      <3>4. Owns(heap', stack', KeyObjects', items')
        BY <1>1, <1>2, <3>3
      <3>5. pc' = "packets" /\ ~wild'
        BY <1>1, <1>5 DEF DecryptFile
      <3> QED BY <3>4, <3>5 DEF Owned
    <2>5. CASE starved
      BY <1>1, <1>5, <2>5 DEF DecryptFile, Owned
    <2> QED BY <2>4, <2>5
  <1> QED BY <1>3, <1>4, <1>5

LEMMA CompressedOwned == ASSUME TypeOK, Owned, Compressed PROVE Owned'
  <1>1. CASE GivesUp
    BY <1>1, GivesUpOwned
  <1>2. CASE ~GivesUp
    <2>1. PICK p \in PACKETS, b \in Available :
            /\ pc = "packets"
            /\ GoOn(Use(heap, b, "compressed"), <<Object(b, "compressed")>>, chain)
      BY <1>2, CompressedOpens
    <2>2. b \in BLOCKS /\ heap[b] = "free" /\ heap \in Heaps
      BY NothingHeld
    <2>3. Object(b, "compressed") \in Objects
      BY <2>2 DEF Object, Objects, Kinds
    <2>4. /\ heap' = Use(heap, b, "compressed")
          /\ stack' = Append(stack, Object(b, "compressed"))
          /\ chain' = chain /\ pc' = pc /\ wild' = wild
          /\ items' = items /\ starved' = starved
      BY <2>1, <2>3, ConcatOne, StreamsAreObjects DEF GoOn
    <2>5. KeyObjects' = KeyObjects
      BY <2>4 DEF KeyObjects
    <2>6. ASSUME ~starved PROVE Owns(heap', stack', KeyObjects', items')
      BY <2>2, <2>4, <2>5, <2>6, PushOwns, StreamsAreObjects, KeysAreObjects
      DEF Kinds, TypeOK, Owned
    <2> QED BY <2>1, <2>4, <2>6 DEF Owned
  <1> QED BY <1>1, <1>2

LEMMA DecryptingOwned == ASSUME TypeOK, Owned, Decrypting PROVE Owned'
  <1>1. PICK p \in PACKETS, c \in BLOCKS, b \in BLOCKS :
          /\ b # c /\ heap[b] = "free" /\ heap[c] = "free" /\ pc = "packets"
          /\ GoOn(Use(Use(heap, c, "ctx"), b, "encrypted"),
                  <<Object(c, "ctx"), Object(b, "encrypted")>>, chain)
    BY DecryptingOpens
  <1>2. heap \in Heaps /\ stack \in Seq(Objects) /\ KeyObjects \in Seq(Objects)
    BY StreamsAreObjects, KeysAreObjects DEF TypeOK
  <1> DEFINE o == Object(c, "ctx")
             q == Object(b, "encrypted")
             g == Use(heap, c, "ctx")
  <1>3. o \in Objects /\ q \in Objects
    BY DEF Object, Objects, Kinds
  <1>4. /\ heap' = Use(g, b, "encrypted")
        /\ stack' = Append(Append(stack, o), q)
        /\ chain' = chain /\ pc' = pc /\ wild' = wild
        /\ items' = items /\ starved' = starved
    BY <1>1, <1>2, <1>3, ConcatTwo DEF GoOn
  <1>5. KeyObjects' = KeyObjects
    BY <1>4 DEF KeyObjects
  <1>6. ASSUME ~starved PROVE Owns(heap', stack', KeyObjects', items')
    <2>1. items = NoBlock \/ items \in BLOCKS
      BY DEF TypeOK
    <2>2. Owns(g, Append(stack, o), KeyObjects, items)
          /\ Append(stack, o) \in Seq(Objects) /\ g \in Heaps
      BY <1>1, <1>2, <1>6, <2>1, PushOwns DEF Owned, Kinds
    <2>3. g[b] = "free"
      BY <1>1, <1>2 DEF Use, Heaps
    <2> HIDE DEF o, q, g
    <2>4. Owns(Use(g, b, "encrypted"), Append(Append(stack, o), q), KeyObjects, items)
      BY <1>2, <2>1, <2>2, <2>3, PushOwns DEF q, Kinds
    <2> QED BY <1>4, <1>5, <2>4
  <1> QED BY <1>1, <1>4, <1>6 DEF Owned

(* A key is put in front of the chain. *)
LEMMA SessionKeyOwned == ASSUME TypeOK, Owned, SessionKey PROVE Owned'
  <1>1. CASE GivesUp
    BY <1>1, GivesUpOwned
  <1>2. CASE ~GivesUp
    <2>1. PICK p \in PACKETS, b \in Available :
            /\ pc = "packets"
            /\ GoOn(Use(heap, b, "key"), <<>>,
                    <<[block |-> b, use |-> p.use]>> \o chain)
      BY <1>2, SessionKeyOpens
    <2>2. b \in BLOCKS /\ heap[b] = "free" /\ heap \in Heaps
      BY NothingHeld
    <2> DEFINE Keys == [block : BLOCKS, use : PASSPHRASES \cup {NoPassphrase}]
               first == [block |-> b, use |-> p.use]
    <2>3. chain \in Seq(Keys)
      BY DEF TypeOK
    <2>4. first.block = b
      OBVIOUS
    <2>5. chain' = <<first>> \o chain
      BY <2>1 DEF GoOn
    <2>6. /\ heap' = Use(heap, b, "key") /\ stack' = stack /\ pc' = pc
          /\ wild' = wild /\ items' = items /\ starved' = starved
      BY <2>1, StreamsAreObjects DEF GoOn
    <2> HIDE DEF Keys, first
    <2>7. /\ Len(chain) \in Nat /\ DOMAIN chain = 1..Len(chain)
          /\ DOMAIN chain' = 1..(Len(chain) + 1)
          /\ chain'[1] = first
          /\ \A i \in 2..(Len(chain) + 1) : chain'[i] = chain[i - 1]
      BY <2>3, <2>5
    <2>8. /\ DOMAIN KeyObjects' = 1..(Len(chain) + 1)
          /\ KeyObjects'[1] = Object(b, "key")
          /\ \A i \in 2..(Len(chain) + 1) :
               /\ i - 1 \in DOMAIN KeyObjects
               /\ KeyObjects'[i] = KeyObjects[i - 1]
          /\ DOMAIN KeyObjects = 1..Len(chain)
      BY <2>4, <2>7 DEF KeyObjects
    <2>9. \A i \in 1..(Len(chain) + 1) : i = 1 \/ i \in 2..(Len(chain) + 1)
      BY <2>7
    <2>10. ASSUME ~starved PROVE Owns(heap', stack', KeyObjects', items')
      <3>1. Owns(heap, stack, KeyObjects, items)
        BY <2>10 DEF Owned
      <3>2. /\ Releasable(heap', stack) /\ Releasable(heap', KeyObjects)
            /\ items # NoBlock => heap'[items] = "list"
            /\ ~Held(KeyObjects, b)
            /\ \A c \in BLOCKS : \/ heap'[c] = "free" \/ c = b
                                \/ Held(stack, c) \/ Held(KeyObjects, c) \/ c = items
            /\ heap'[b] = "key"
        BY <2>2, <2>6, <3>1, UseOwns, StreamsAreObjects, KeysAreObjects
        DEF TypeOK, Kinds
      <3>3. Object(b, "key").block = b /\ Object(b, "key").kind = "key"
        BY DEF Object
      <3>4. \A i \in DOMAIN KeyObjects' : heap'[KeyObjects'[i].block] = KeyObjects'[i].kind
        BY <2>8, <2>9, <3>2, <3>3 DEF Releasable
      <3>5. \A i \in DOMAIN KeyObjects : KeyObjects[i].block # b
        BY <3>2 DEF Held
      <3>6. ASSUME NEW i \in DOMAIN KeyObjects', NEW j \in DOMAIN KeyObjects', i # j
            PROVE  KeyObjects'[i].block # KeyObjects'[j].block
        <4>1. CASE i = 1
          BY <2>8, <2>9, <3>3, <3>5, <3>6, <4>1
        <4>2. CASE j = 1
          BY <2>8, <2>9, <3>3, <3>5, <3>6, <4>2
        <4>3. CASE i # 1 /\ j # 1
          <5>1. i - 1 # j - 1
            BY <2>7, <2>8, <3>6
          <5>2. i \in 2..(Len(chain) + 1) /\ j \in 2..(Len(chain) + 1)
            BY <2>8, <2>9, <4>3
          <5>3. KeyObjects[i - 1].block # KeyObjects[j - 1].block
            BY <2>8, <3>2, <5>1, <5>2 DEF Releasable
          <5> QED BY <2>8, <5>2, <5>3
        <4> QED BY <4>1, <4>2, <4>3
      <3>7. Releasable(heap', KeyObjects')
        BY <3>4, <3>6 DEF Releasable
      <3>8. Held(KeyObjects', b)
        BY <2>7, <2>8, <3>3 DEF Held
      <3>9. ASSUME NEW c, Held(KeyObjects, c) PROVE Held(KeyObjects', c)
        <4>1. PICK i \in DOMAIN KeyObjects : KeyObjects[i].block = c
          BY <3>9 DEF Held
        <4>2. i + 1 \in 2..(Len(chain) + 1) /\ (i + 1) - 1 = i
          BY <2>7, <2>8
        <4>3. KeyObjects'[i + 1] = KeyObjects[i] /\ i + 1 \in DOMAIN KeyObjects'
          BY <2>8, <2>7, <4>2
        <4> QED BY <4>1, <4>3 DEF Held
      <3> QED BY <2>6, <3>2, <3>7, <3>8, <3>9 DEF Owns
    <2> QED BY <2>1, <2>6, <2>10 DEF Owned
  <1> QED BY <1>1, <1>2

(* The keys are freed once the list can be read. *)
LEMMA LiteralOwned == ASSUME TypeOK, Owned, Literal PROVE Owned'
  <1>1. CASE GivesUp
    BY <1>1, GivesUpOwned
  <1>2. CASE ~GivesUp
    <2> DEFINE Opened(b) == Use(heap, b, "literal")
    <2>1. PICK p \in PACKETS, b \in Available :
            /\ pc' = "list"
            /\ heap' = Release(Opened(b), KeyObjects)
            /\ wild' = (wild \/ ~Releasable(Opened(b), KeyObjects))
            /\ stack' = Append(stack, Object(b, "literal"))
            /\ chain' = <<>>
            /\ items' = items /\ starved' = starved
      BY <1>2, LiteralOpens
    <2>2. b \in BLOCKS /\ heap[b] = "free" /\ heap \in Heaps
      BY NothingHeld
    <2> DEFINE g == Opened(b)
               o == Object(b, "literal")
               s == Append(stack, o)
    <2>3. CASE starved
      BY <2>1, <2>3 DEF Owned
    <2>4. CASE ~starved
      <3>1. /\ items = NoBlock \/ items \in BLOCKS
            /\ "literal" \in Kinds /\ stack \in Seq(Objects)
            /\ KeyObjects \in Seq(Objects)
        BY StreamsAreObjects, KeysAreObjects DEF TypeOK, Kinds
      <3>2. Owns(heap, stack, KeyObjects, items)
        BY <2>4 DEF Owned
      <3>3. Owns(g, s, KeyObjects, items) /\ s \in Seq(Objects)
        BY <2>2, <3>1, <3>2, PushOwns
      <3>4. \A i \in DOMAIN s : s[i].kind \in Kinds \ {"key", "list"}
        <4>1. o \in StreamObjects /\ stack \in Seq(StreamObjects)
          BY <2>2, StreamsAreObjects DEF Object, StreamObjects, Kinds
        <4> HIDE DEF o
        <4>2. s \in Seq(StreamObjects)
          BY <4>1
        <4>3. \A i \in DOMAIN s : s[i] \in StreamObjects
          BY <4>2
        <4> QED BY <4>3 DEF StreamObjects
      <3> HIDE DEF g, s
      <3>5. \A i \in DOMAIN s : ~Held(KeyObjects, s[i].block)
        <4>1. ASSUME NEW i \in DOMAIN s, Held(KeyObjects, s[i].block) PROVE FALSE
          <5>1. PICK j \in DOMAIN KeyObjects : KeyObjects[j].block = s[i].block
            BY <4>1 DEF Held
          <5>2. g[s[i].block] = "key"
            BY <3>3, <5>1, KeysAreObjects DEF Owns, Releasable
          <5>3. g[s[i].block] = s[i].kind
            BY <3>3 DEF Owns, Releasable
          <5> QED BY <3>4, <5>2, <5>3
        <4> QED BY <4>1
      <3>6. \A i \in DOMAIN s : s[i].block \in BLOCKS
        <4>1. \A i \in DOMAIN s : s[i] \in Objects
          BY <3>3
        <4> QED BY <4>1 DEF Objects
      <3>7. \A c \in BLOCKS : heap'[c] = IF Held(KeyObjects, c) THEN "free" ELSE g[c]
        BY <2>1 DEF Release, g
      <3>8. Releasable(heap', s)
        BY <3>3, <3>5, <3>6, <3>7 DEF Owns, Releasable
      <3>9. ASSUME items # NoBlock PROVE heap'[items] = "list"
        <4>1. ~Held(KeyObjects, items) /\ items \in BLOCKS
          BY <3>2, <3>9, ListNotHeld
        <4> QED BY <3>3, <3>7, <3>9, <4>1 DEF Owns
      <3>10. \A c \in BLOCKS : heap'[c] = "free" \/ Held(s, c) \/ c = items
        BY <3>3, <3>7 DEF Owns
      <3>11. stack' = s
        BY <2>1 DEF s
      <3>12. Owns(heap', stack', KeyObjects', items')
        BY <2>1, <3>8, <3>9, <3>10, <3>11, NoKeysNext DEF Owns
      <3>13. ~wild'
        BY <2>1, <2>4, <3>3 DEF Owned, Owns, g
      <3> QED BY <2>1, <3>12, <3>13 DEF Owned
    <2> QED BY <2>3, <2>4
  <1> QED BY <1>1, <1>2

LEMMA ReadListOwned == ASSUME TypeOK, Owned, ReadList PROVE Owned'
  <1> DEFINE h == Release(heap, OldList)
  <1>1. PICK b \in Malloc(FreeIn(h)), n \in Counts(torn') :
          /\ items' = b /\ list' = n /\ overrun' = (n \notin BufferPlaces)
          /\ heap' = Release(Use(h, b, "list"), stack)
          /\ wild' = (wild \/ ~Releasable(heap, OldList)
                           \/ ~Releasable(Use(h, b, "list"), stack))
    BY Zenon DEF ReadList
  <1>2. h \in Heaps
    BY ReleaseType DEF TypeOK
  <1>3. /\ pc = "list" /\ pc' = "idle" /\ stack' = <<>> /\ fileOpen' = FALSE
        /\ chain' = chain /\ chain = <<>> /\ starved' = starved
    BY DEF ReadList, Owned
  <1>4. CASE starved
    BY <1>3, <1>4 DEF Owned
  <1>5. CASE ~starved
    <2>1. Owns(heap, stack, KeyObjects, items)
      BY <1>5 DEF Owned
    <2>2. \A c \in BLOCKS : h[c] = IF c = items THEN "free" ELSE heap[c]
      <3>1. \A c : Held(OldList, c) <=> (items # NoBlock /\ c = items)
        BY DEF Held, OldList, Object
      <3> QED BY <3>1, BlocksAssumption DEF Release
    <2>3. Releasable(heap, OldList)
      BY <2>1 DEF OldList, Owns, Releasable, Object
    <2>4. \A c \in BLOCKS : h[c] = "free" \/ Held(stack, c)
      BY <2>1, <2>2, <1>3, NoKeys DEF Owns
    <2>5. Releasable(h, stack)
      <3>1. \A i \in DOMAIN stack : stack[i].block \in BLOCKS
        <4>1. \A i \in DOMAIN stack : stack[i] \in Objects
          BY StreamsAreObjects
        <4> QED BY <4>1 DEF Objects
      <3>2. \A i \in DOMAIN stack : stack[i].block # items
        <4>1. CASE items = NoBlock
          BY <3>1, <4>1, BlocksAssumption
        <4>2. CASE items # NoBlock
          BY <2>1, <4>2, ListNotHeld DEF Held
        <4> QED BY <4>1, <4>2
      <3> QED BY <2>1, <2>2, <3>1, <3>2 DEF Owns, Releasable
    <2> HIDE DEF h
    <2>6. b \in BLOCKS /\ h[b] = "free"
      BY <1>2, HeapAvailable
    <2>7. stack \in Seq(Objects) /\ "list" \in Kinds
      BY StreamsAreObjects DEF Kinds
    <2>8. Releasable(Use(h, b, "list"), stack)
      BY <1>2, <2>5, <2>6, <2>7, ReleasableUse
    <2>9. ~Held(stack, b)
      <3>1. \A i \in DOMAIN stack : stack[i].kind # "free"
        BY StreamsAreObjects DEF Kinds
      <3> QED BY <2>5, <2>6, <3>1 DEF Held, Releasable
    <2>10. \A c \in BLOCKS : heap'[c] = IF Held(stack, c) THEN "free"
                                     ELSE IF c = b THEN "list" ELSE h[c]
      BY <1>1, <1>2 DEF Release, Use, Heaps
    <2>11. Owns(heap', stack', KeyObjects', items')
      BY <1>1, <1>3, <2>4, <2>6, <2>9, <2>10, NoKeysNext, NoStreamsNext DEF Owns
    <2>12. ~wild'
      BY <1>1, <1>5, <2>3, <2>8 DEF Owned
    <2> QED BY <1>3, <2>11, <2>12 DEF Owned
  <1> QED BY <1>4, <1>5

LEMMA PowerCycleOwned == ASSUME PowerCycle PROVE Owned'
  <1>1. /\ heap' = [b \in BLOCKS |-> "free"] /\ stack' = <<>> /\ chain' = <<>>
        /\ items' = NoBlock /\ ~wild' /\ fileOpen' = FALSE
    BY DEF PowerCycle
  <1>2. Owns(heap', stack', KeyObjects', items')
    BY <1>1, NoKeysNext, NoStreamsNext DEF Owns
  <1> QED BY <1>1, <1>2 DEF Owned

LEMMA InitOwned == Init => Owned
  BY NoKeys, NoStreams DEF Init, Owned, Owns

LEMMA NextOwned == ASSUME TypeOK, Owned, [Next]_vars PROVE Owned'
  <1>1. CASE NoMorePackets \/ CutShort \/ Refused
             \/ NoContext \/ WrongPassphrase \/ NoStream
    BY <1>1, GivesUpActions, GivesUpOwned
  <1>2. CASE NoBuffer
    <2>1. /\ pc' = "idle" /\ stack' = <<>> /\ chain' = chain /\ pc = "list"
          /\ starved' /\ failed'
      BY <1>2 DEF NoBuffer
    <2> QED BY <2>1 DEF Owned
  <1>3. CASE UNCHANGED vars
    <2>1. /\ heap' = heap /\ pc' = pc /\ stack' = stack /\ chain' = chain
          /\ items' = items /\ fileOpen' = fileOpen
          /\ starved' = starved /\ failed' = failed /\ wild' = wild
      BY <1>3 DEF vars
    <2>2. KeyObjects' = KeyObjects
      BY <2>1 DEF KeyObjects
    <2> QED BY <2>1, <2>2, Zenon DEF Owned
  <1> QED
    BY <1>1, <1>2, <1>3, SessionKeyOwned, CompressedOwned, DecryptingOwned,
       LiteralOwned, BeginOwned, ReadListOwned, PowerCycleOwned
    DEF Next, OpenPackets

LEMMA Always == Spec => [](TypeOK /\ TextKnown /\ Owned)
  <1>1. Init => TypeOK /\ TextKnown /\ Owned
    BY InitType, InitOwned DEF Init, TextKnown
  <1>2. TypeOK /\ TextKnown /\ Owned /\ [Next]_vars
          => (TypeOK /\ TextKnown /\ Owned)'
    BY NextType, NextTextKnown, NextOwned
  <1> QED BY <1>1, <1>2, PTL DEF Spec

(* mpgp_open_r's bail, free_keys and decrypt_file free nothing twice, as long *)
(* as there has been room for every list's buffer.                            *)
THEOREM AlwaysFreedOnce == Spec => []FreedOnce
  <1>1. Owned => FreedOnce
    BY DEF Owned, FreedOnce
  <1> QED BY <1>1, Always, PTL

(* Nothing but the list stays allocated when decrypt_file returns.            *)
THEOREM NothingEverLeaks == Spec => []NothingLeaks
  <1>1. ASSUME TypeOK, Owned, pc = "idle", ~starved, NEW b \in BLOCKS
        PROVE  heap[b] # "free" <=> b = items
    <2>1. stack = <<>> /\ chain = <<>> /\ Owns(heap, stack, KeyObjects, items)
      BY <1>1 DEF Owned
    <2>2. heap[b] = "free" \/ b = items
      BY <2>1, NoKeys, NoStreams DEF Owns
    <2>3. b = items => heap[b] = "list"
      BY <2>1, BlocksAssumption DEF Owns
    <2> QED BY <2>2, <2>3
  <1>2. TypeOK /\ Owned => NothingLeaks
    BY <1>1 DEF NothingLeaks
  <1> QED BY <1>2, Always, PTL

(* The file is closed when decrypt_file returns, unless an allocation failed. *)
THEOREM FileAlwaysClosed == Spec => []FileClosed
  <1>1. Owned => FileClosed
    BY DEF Owned, FileClosed
  <1> QED BY <1>1, Always, PTL

(* Every step but those that end with a list, or without power, keeps items   *)
(* and list as they are.                                                      *)
LEMMA RefusedStep ==
  ASSUME TypeOK, Owned, [Next]_vars, verdict' = "refused", ~starved',
         items # NoBlock
  PROVE  items' = items /\ list' = list /\ heap'[items] = "list"
  <1>1. ~ReadList /\ ~PowerCycle /\ ~NoBuffer
    BY DEF ReadList, PowerCycle, NoBuffer
  <1>2. items' = items /\ list' = list
    <2>2. CASE NoMorePackets \/ CutShort \/ Refused
               \/ NoContext \/ WrongPassphrase \/ NoStream
      BY <2>2, GivesUpActions DEF GivesUp, Bail
    <2>3. CASE SessionKey \/ Compressed \/ Decrypting
      BY <2>3 DEF SessionKey, Compressed, Decrypting, GoOn, Bail
    <2>4. CASE Literal
      BY <2>4 DEF Literal, Bail
    <2>5. CASE Unreadable \/ Unwrapped \/ DecryptFile
      BY <2>5 DEF Unreadable, Unwrapped, DecryptFile, Begin
    <2>6. CASE UNCHANGED vars
      BY <2>6 DEF vars
    <2> QED BY <1>1, <2>2, <2>3, <2>4, <2>5, <2>6 DEF Next, OpenPackets
  <1>3. Owned'
    BY NextOwned
  <1> QED BY <1>2, <1>3 DEF Owned, Owns

(* An attempt that is refused leaves the list in use alone: decrypt_file      *)
(* frees it when mpgp_open has succeeded and not before.                      *)
THEOREM RefusedAlwaysKeepsList == Spec => RefusedKeepsList
  <1>1. TypeOK /\ Owned /\ [Next]_vars
          => [verdict' = "refused" /\ ~starved' /\ items # NoBlock
                => items' = items /\ list' = list /\ heap'[items] = "list"]_vars
    BY RefusedStep
  <1> QED BY <1>1, Always, PTL DEF Spec, RefusedKeepsList

-----------------------------------------------------------------------------
(* What has been read, and what follows from it for the keys, for the end of  *)
(* the streams and for the length left over.                                  *)

AnyPackets == Seq(PACKETS \cup {NoPacket})

First(packets) == packets = <<>> \/ packets[Len(packets)].tag # "skesk"

LEMMA Appended ==
  ASSUME NEW r \in AnyPackets, NEW p \in PACKETS \cup {NoPacket}
  PROVE  /\ Append(r, p) \in AnyPackets
         /\ Len(r) \in Nat /\ Len(Append(r, p)) = Len(r) + 1
         /\ DOMAIN r = 1..Len(r) /\ DOMAIN Append(r, p) = 1..(Len(r) + 1)
         /\ \A i \in 1..Len(r) : Append(r, p)[i] = r[i]
         /\ Append(r, p)[Len(r) + 1] = p
         /\ \A i \in 1..(Len(r) + 1) : i \in 1..Len(r) \/ i = Len(r) + 1
         /\ Append(r, p) # <<>>
  BY DEF AnyPackets

LEMMA AppendReadable ==
  ASSUME NEW r \in AnyPackets, NEW p \in PACKETS \cup {NoPacket}, NEW w
  PROVE  Readable(Append(r, p), w) <=>
           /\ Readable(r, w) /\ p.whole /\ Handled(p)
           /\ p.tag = "encrypted" =>
                \E k \in DOMAIN r : r[k].tag = "skesk" /\ r[k].use = w
  <1> DEFINE q == Append(r, p)
             n == Len(r)
  <1>1. /\ n \in Nat /\ DOMAIN r = 1..n /\ DOMAIN q = 1..(n + 1)
        /\ \A i \in 1..n : q[i] = r[i]
        /\ q[n + 1] = p
        /\ \A i \in 1..(n + 1) : i \in 1..n \/ i = n + 1
    BY Appended
  <1> HIDE DEF q, n
  <1>2. \A i \in 1..n : OpenedBy(q, i, w) <=> OpenedBy(r, i, w)
    <2>1. \A i \in 1..n : \A k \in 1..(i - 1) : k \in 1..n
      BY <1>1
    <2> QED BY <1>1, <2>1 DEF OpenedBy
  <1>3. OpenedBy(q, n + 1, w) <=>
          \E k \in 1..n : r[k].tag = "skesk" /\ r[k].use = w
    BY <1>1 DEF OpenedBy
  <1>4. ASSUME Readable(q, w)
        PROVE  /\ Readable(r, w) /\ p.whole /\ Handled(p)
               /\ p.tag = "encrypted" => OpenedBy(q, n + 1, w)
    BY <1>1, <1>2, <1>4 DEF Readable
  <1>5. ASSUME Readable(r, w), p.whole, Handled(p),
               p.tag = "encrypted" => OpenedBy(q, n + 1, w)
        PROVE  Readable(q, w)
    <2>1. ASSUME NEW i \in 1..n
          PROVE  /\ q[i].whole /\ Handled(q[i])
                 /\ q[i].tag = "encrypted" => OpenedBy(q, i, w)
      BY <1>1, <1>2, <1>5, <2>1 DEF Readable
    <2> QED BY <1>1, <1>5, <2>1 DEF Readable
  <1> QED BY <1>1, <1>3, <1>4, <1>5 DEF q

LEMMA AppendOwnLengths ==
  ASSUME NEW r \in AnyPackets, NEW p \in PACKETS \cup {NoPacket},
         OwnLengths(Append(r, p))
  PROVE  /\ OwnLengths(r)
         /\ \/ p.sized \/ p.tag \in {"skesk", "compressed", "other"}
            \/ p.tag = "literal" /\ First(r)
  <1> DEFINE q == Append(r, p)
             n == Len(r)
  <1>1. /\ n \in Nat /\ DOMAIN r = 1..n /\ DOMAIN q = 1..(n + 1)
        /\ \A i \in 1..n : q[i] = r[i]
        /\ q[n + 1] = p /\ n + 1 \in 1..(n + 1)
    BY Appended
  <1>2. r # <<>> <=> n > 0
    BY DEF AnyPackets
  <1>3. n = Len(r) /\ OwnLengths(q)
    OBVIOUS
  <1> HIDE DEF q, n
  <1>4. \A i \in 1..n : FirstOfStream(q, i) => FirstOfStream(r, i)
    <2>1. \A i \in 1..n : i = 1 \/ i - 1 \in 1..n
      BY <1>1
    <2> QED BY <1>1, <2>1 DEF FirstOfStream
  <1>5. FirstOfStream(q, n + 1) => First(r)
    BY <1>1, <1>2, <1>3 DEF FirstOfStream, First
  <1>6. OwnLengths(r)
    BY <1>1, <1>3, <1>4 DEF OwnLengths
  <1>7. \/ p.sized \/ p.tag \in {"skesk", "compressed", "other"}
        \/ p.tag = "literal" /\ FirstOfStream(q, n + 1)
    BY <1>1, <1>3 DEF OwnLengths
  <1> QED BY <1>5, <1>6, <1>7

KeysRead ==
  /\ \A i \in DOMAIN chain : \E k \in DOMAIN read :
       read[k].tag = "skesk" /\ read[k].use = chain[i].use
  /\ \A k \in DOMAIN read : read[k].tag = "skesk" =>
       \E i \in DOMAIN chain : chain[i].use = read[k].use

Sure ==
  /\ chance \/ Readable(read, passphrase)
  /\ OwnLengths(read) => ends = "data"

Told ==
  /\ pc = "packets" => KeysRead /\ Sure /\ (First(read) => length = "zero")
  /\ pc = "list" => Sure /\ read # <<>> /\ read[Len(read)].tag = "literal"
  /\ pc = "idle" => ListedIfReadable /\ ListWhole
  /\ pc # "idle" => verdict = "none"

LEMMA ReadIsPackets == TypeOK => read \in AnyPackets
  BY DEF TypeOK, AnyPackets

(* With verdict "none" there is nothing to tell. *)
LEMMA NothingTold ==
  ASSUME verdict' = "none" PROVE ListedIfReadable' /\ ListWhole'
  BY DEF ListedIfReadable, ListWhole

(* A refusal for a reason: the last packet is unreadable, or a length is not  *)
(* its own.                                                                   *)
LEMMA RefusalTold ==
  ASSUME verdict' = "refused",
         failed' \/ ~OwnLengths(read)' \/ ~Readable(read, passphrase)'
  PROVE  ListedIfReadable' /\ ListWhole'
  BY DEF ListedIfReadable, ListWhole

LEMMA RefusesTold ==
  ASSUME TypeOK, Told,
         \/ NoMorePackets \/ CutShort \/ Refused
         \/ NoContext \/ WrongPassphrase \/ NoStream
  PROVE  Told'
  <1>1. read \in AnyPackets
    BY ReadIsPackets
  <1>2. pc' = "idle" /\ verdict' = "refused" /\ passphrase' = passphrase
    BY GivesUpActions DEF GivesUp, Bail
  <1>3. pc = "packets" /\ KeysRead /\ Sure
    BY DEF NoMorePackets, CutShort, Refused, NoContext, WrongPassphrase, NoStream,
           Encrypted, Reads, Told
  <1>4. failed' \/ ~OwnLengths(read') \/ ~Readable(read', passphrase)
    <2>1. CASE NoMorePackets
      <3>1. ~NoPacket.whole /\ read' = Append(read, NoPacket)
        BY <2>1 DEF NoMorePackets, NoPacket
      <3> QED BY <1>1, <3>1, AppendReadable
    <2>2. CASE CutShort
      <3>1. SUFFICES ASSUME NEW p \in PACKETS, read' = Append(read, p),
                            ~p.whole \/ ends = "early"
                     PROVE  failed' \/ ~OwnLengths(read')
                                    \/ ~Readable(read', passphrase)
        BY <2>2 DEF CutShort, Reads
      <3>2. CASE ~p.whole
        <4>1. p \in PACKETS \cup {NoPacket}
          OBVIOUS
        <4>2. ASSUME Readable(Append(read, p), passphrase) PROVE FALSE
          <5>1. p.whole
            BY <1>1, <4>1, <4>2, AppendReadable
          <5> QED BY <3>2, <5>1
        <4>3. ~Readable(Append(read, p), passphrase)
          BY <4>2
        <4> QED BY <3>1, <4>3
      <3>3. CASE ends = "early"
        <4>1. ~OwnLengths(read)
          BY <1>3, <3>3 DEF Sure
        <4>2. p \in PACKETS \cup {NoPacket}
          OBVIOUS
        <4>3. ASSUME OwnLengths(Append(read, p)) PROVE FALSE
          <5>1. OwnLengths(read)
            BY <1>1, <4>2, <4>3, AppendOwnLengths
          <5> QED BY <4>1, <5>1
        <4>4. ~OwnLengths(Append(read, p))
          BY <4>3
        <4> QED BY <3>1, <4>4
      <3> QED BY <3>1, <3>2, <3>3
    <2>3. CASE Refused
      <3>1. PICK p \in PACKETS : read' = Append(read, p) /\ ~Handled(p)
        BY <2>3 DEF Refused, Reads
      <3> QED BY <1>1, <3>1, AppendReadable
    <2>4. CASE NoContext
      BY <2>4 DEF NoContext, Bail
    <2>5. CASE NoStream
      BY <2>5 DEF NoStream, Bail
    <2>6. CASE WrongPassphrase
      <3>1. PICK p \in PACKETS : read' = Append(read, p) /\ p.tag = "encrypted"
        BY <2>6 DEF WrongPassphrase, Encrypted, Reads
      <3>2. ~RightKey
        BY <2>6 DEF WrongPassphrase
      <3>3. ~\E k \in DOMAIN read : read[k].tag = "skesk" /\ read[k].use = passphrase
        BY <1>3, <3>2 DEF KeysRead, RightKey
      <3> QED BY <1>1, <3>1, <3>3, AppendReadable
    <2> QED BY <2>1, <2>2, <2>3, <2>4, <2>5, <2>6
  <1>5. ListedIfReadable' /\ ListWhole'
    BY <1>2, <1>4, RefusalTold
  <1> QED BY <1>2, <1>5 DEF Told

(* A step that opens a packet, or fails to for lack of memory. *)
LEMMA LackTold ==
  ASSUME TypeOK, NEW h, Bail(h, TRUE)
  PROVE  Told'
  <1>1. pc' = "idle" /\ verdict' = "refused" /\ failed'
    BY DEF Bail
  <1>2. ListedIfReadable' /\ ListWhole'
    BY <1>1, RefusalTold
  <1> QED BY <1>1, <1>2 DEF Told

(* Going on with one more packet, that can be read or was by chance.          *)
LEMMA SureStep ==
  ASSUME TypeOK, Sure, NEW p \in PACKETS, read' = Append(read, p),
         passphrase' = passphrase,
         p.whole, Handled(p),
         \/ chance'
         \/ /\ chance' = chance
            /\ p.tag = "encrypted" => \E k \in DOMAIN read :
                 read[k].tag = "skesk" /\ read[k].use = passphrase,
         OwnLengths(read') /\ ends = "data" => ends' = "data"
  PROVE  Sure'
  <1>1. read \in AnyPackets
    BY ReadIsPackets
  <1>2. chance' \/ Readable(read', passphrase')
    BY <1>1, AppendReadable DEF Sure
  <1>3. OwnLengths(read') => ends' = "data"
    BY <1>1, AppendOwnLengths DEF Sure
  <1> QED BY <1>2, <1>3 DEF Sure

LEMMA KeysReadStep ==
  ASSUME TypeOK, KeysRead, NEW p \in PACKETS, read' = Append(read, p),
         p.tag # "skesk", chain' = chain
  PROVE  KeysRead'
  <1>1. read \in AnyPackets
    BY ReadIsPackets
  <1> DEFINE n == Len(read)
  <1>2. /\ n \in Nat /\ DOMAIN read = 1..n /\ DOMAIN read' = 1..(n + 1)
        /\ \A i \in 1..n : read'[i] = read[i]
        /\ read'[n + 1] = p
        /\ \A i \in 1..(n + 1) : i \in 1..n \/ i = n + 1
    BY <1>1, Appended
  <1>3. \A i \in 1..n : i \in 1..(n + 1)
    BY <1>2
  <1> HIDE DEF n
  <1>4. \A i \in DOMAIN chain' : \E k \in DOMAIN read' :
          read'[k].tag = "skesk" /\ read'[k].use = chain'[i].use
    BY <1>2, <1>3 DEF KeysRead
  <1>5. \A k \in DOMAIN read' : read'[k].tag = "skesk" =>
          \E i \in DOMAIN chain' : chain'[i].use = read'[k].use
    BY <1>2 DEF KeysRead
  <1> QED BY <1>4, <1>5 DEF KeysRead

LEMMA FirstAppended ==
  ASSUME TypeOK, NEW p \in PACKETS, read' = Append(read, p)
  PROVE  First(read') <=> p.tag # "skesk"
  <1>1. read \in AnyPackets
    BY ReadIsPackets
  <1>2. read' # <<>> /\ read'[Len(read')] = p
    BY <1>1, Appended
  <1> QED BY <1>2 DEF First

LEMMA SessionKeyTold == ASSUME TypeOK, Told, SessionKey PROVE Told'
  <1>1. CASE \E h : Bail(h, TRUE)
    BY <1>1, LackTold
  <1>2. CASE ~\E h : Bail(h, TRUE)
    <2>1. PICK p \in PACKETS, b \in Available :
            /\ Reads(p, "skesk", TRUE) /\ Handled(p)
            /\ GoOn(Use(heap, b, "key"), <<>>,
                    <<[block |-> b, use |-> p.use]>> \o chain)
            /\ UNCHANGED <<ends, chance>>
      BY <1>2 DEF SessionKey
    <2>2. /\ pc = "packets" /\ p.tag = "skesk" /\ read' = Append(read, p)
          /\ p.whole /\ passphrase' = passphrase
          /\ pc' = pc /\ verdict' = verdict /\ chance' = chance /\ ends' = ends
          /\ chain' = <<[block |-> b, use |-> p.use]>> \o chain
      BY <2>1 DEF Reads, GoOn
    <2>3. Sure /\ KeysRead /\ verdict = "none"
      BY <2>2 DEF Told
    <2>4. Sure'
      BY <2>1, <2>2, <2>3, SureStep
    <2>5. ~First(read')
      BY <2>2, FirstAppended
    <2>6. KeysRead'
      <3> DEFINE first == [block |-> b, use |-> p.use]
                 Keys == [block : BLOCKS, use : PASSPHRASES \cup {NoPassphrase}]
                 m == Len(chain)
                 n == Len(read)
      <3>1. chain \in Seq(Keys) /\ chain' = <<first>> \o chain /\ first.use = p.use
        BY <2>2 DEF TypeOK
      <3> HIDE DEF first, Keys
      <3>2. /\ m \in Nat /\ DOMAIN chain = 1..m /\ DOMAIN chain' = 1..(m + 1)
            /\ chain'[1] = first
            /\ \A i \in 2..(m + 1) : chain'[i] = chain[i - 1] /\ i - 1 \in 1..m
            /\ \A i \in 1..(m + 1) : i = 1 \/ i \in 2..(m + 1)
            /\ \A i \in 1..m : i + 1 \in 2..(m + 1) /\ (i + 1) - 1 = i
            /\ 1 \in 1..(m + 1) /\ \A i \in 2..(m + 1) : i \in 1..(m + 1)
        BY <3>1
      <3>3. /\ n \in Nat /\ DOMAIN read = 1..n /\ DOMAIN read' = 1..(n + 1)
            /\ \A i \in 1..n : read'[i] = read[i]
            /\ read'[n + 1] = p /\ n + 1 \in 1..(n + 1)
            /\ \A i \in 1..n : i \in 1..(n + 1)
            /\ \A i \in 1..(n + 1) : i \in 1..n \/ i = n + 1
        <4>1. read \in AnyPackets
          BY ReadIsPackets
        <4> QED BY <2>2, <4>1, Appended
      <3> HIDE DEF m, n
      <3>4. ASSUME NEW i \in 1..(m + 1)
            PROVE  \E k \in 1..(n + 1) : read'[k].tag = "skesk"
                                       /\ read'[k].use = chain'[i].use
        <4>1. CASE i = 1
          BY <2>2, <3>1, <3>2, <3>3, <4>1
        <4>2. CASE i \in 2..(m + 1)
          <5>1. PICK k \in 1..n : read[k].tag = "skesk" /\ read[k].use = chain[i - 1].use
            BY <2>3, <3>2, <3>3, <4>2 DEF KeysRead
          <5> QED BY <3>2, <3>3, <4>2, <5>1
        <4> QED BY <3>2, <4>1, <4>2
      <3>5. ASSUME NEW k \in 1..(n + 1), read'[k].tag = "skesk"
            PROVE  \E i \in 1..(m + 1) : chain'[i].use = read'[k].use
        <4>1. CASE k = n + 1
          BY <3>1, <3>2, <3>3, <4>1
        <4>2. CASE k \in 1..n
          <5>1. PICK i \in 1..m : chain[i].use = read[k].use
            BY <2>3, <3>2, <3>3, <3>5, <4>2 DEF KeysRead
          <5>2. chain'[i + 1] = chain[i] /\ i + 1 \in 1..(m + 1)
            BY <3>2, <5>1
          <5> QED BY <3>3, <4>2, <5>1, <5>2
        <4> QED BY <3>3, <4>1, <4>2
      <3> QED BY <3>2, <3>3, <3>4, <3>5 DEF KeysRead
    <2> QED BY <2>2, <2>3, <2>4, <2>5, <2>6 DEF Told
  <1> QED BY <1>1, <1>2

LEMMA CompressedTold == ASSUME TypeOK, Told, Compressed PROVE Told'
  <1>1. CASE \E h : Bail(h, TRUE)
    BY <1>1, LackTold
  <1>2. CASE ~\E h : Bail(h, TRUE)
    <2>1. PICK p \in PACKETS, b \in Available :
            /\ Reads(p, "compressed", TRUE) /\ Handled(p)
            /\ GoOn(Use(heap, b, "compressed"), <<Object(b, "compressed")>>, chain)
            /\ length' = "zero"
            /\ UNCHANGED <<ends, chance>>
      BY <1>2 DEF Compressed
    <2>2. /\ pc = "packets" /\ p.tag = "compressed" /\ read' = Append(read, p)
          /\ p.whole /\ passphrase' = passphrase
          /\ pc' = pc /\ verdict' = verdict /\ chance' = chance /\ ends' = ends
          /\ chain' = chain
      BY <2>1 DEF Reads, GoOn
    <2>3. Sure /\ KeysRead /\ verdict = "none"
      BY <2>2 DEF Told
    <2>4. Sure'
      BY <2>1, <2>2, <2>3, SureStep
    <2>5. KeysRead'
      BY <2>2, <2>3, KeysReadStep
    <2> QED BY <2>1, <2>2, <2>3, <2>4, <2>5 DEF Told
  <1> QED BY <1>1, <1>2

LEMMA DecryptingTold == ASSUME TypeOK, Told, Decrypting PROVE Told'
  <1>1. PICK p \in PACKETS, c \in Available :
          /\ Encrypted(p)
          /\ \/ RightKey /\ UNCHANGED chance
             \/ chain # <<>> /\ chance' = TRUE
          /\ \E b \in Malloc(FreeIn(heap) \ {c}) :
               GoOn(Use(Use(heap, c, "ctx"), b, "encrypted"),
                    <<Object(c, "ctx"), Object(b, "encrypted")>>, chain)
          /\ length' = "zero" /\ ends' = EncrEnds(p)
    BY DEF Decrypting
  <1>2. /\ pc = "packets" /\ p.tag = "encrypted" /\ read' = Append(read, p)
        /\ p.whole /\ Handled(p) /\ passphrase' = passphrase
        /\ pc' = pc /\ verdict' = verdict /\ chain' = chain
    BY <1>1 DEF Encrypted, Reads, GoOn
  <1>3. Sure /\ KeysRead /\ verdict = "none"
    BY <1>2 DEF Told
  <1>4. \/ chance'
        \/ /\ chance' = chance
           /\ \E k \in DOMAIN read : read[k].tag = "skesk" /\ read[k].use = passphrase
    BY <1>1, <1>3 DEF RightKey, KeysRead
  <1>5. OwnLengths(read') /\ ends = "data" => ends' = "data"
    <2>1. read \in AnyPackets /\ p \in PACKETS \cup {NoPacket}
      BY ReadIsPackets
    <2>2. OwnLengths(read') => p.sized
      BY <1>2, <2>1, AppendOwnLengths
    <2> QED BY <1>1, <2>2 DEF EncrEnds, HeaderLength
  <1>6. Sure'
    BY <1>2, <1>3, <1>4, <1>5, SureStep
  <1>7. KeysRead'
    BY <1>2, <1>3, KeysReadStep
  <1> QED BY <1>1, <1>2, <1>3, <1>6, <1>7 DEF Told

LEMMA LiteralTold == ASSUME TypeOK, Told, Literal PROVE Told'
  <1>1. CASE \E h : Bail(h, TRUE)
    BY <1>1, LackTold
  <1>2. CASE ~\E h : Bail(h, TRUE)
    <2>1. PICK p \in PACKETS :
            /\ Reads(p, "literal", TRUE) /\ Handled(p)
            /\ pc' = "list" /\ verdict' = verdict
            /\ length' = HeaderLength(p)
            /\ ends' = IF length' = "stale" THEN "early" ELSE ends
            /\ UNCHANGED chance
      BY <1>2 DEF Literal
    <2>2. /\ pc = "packets" /\ p.tag = "literal" /\ read' = Append(read, p)
          /\ p.whole /\ passphrase' = passphrase /\ chance' = chance
      BY <2>1 DEF Reads
    <2>3. Sure /\ (First(read) => length = "zero") /\ verdict = "none"
      BY <2>2 DEF Told
    <2>4. read \in AnyPackets /\ p \in PACKETS \cup {NoPacket}
      BY ReadIsPackets
    <2>5. OwnLengths(read') => p.sized \/ First(read)
      BY <2>2, <2>4, AppendOwnLengths
    <2>6. OwnLengths(read') /\ ends = "data" => ends' = "data"
      BY <2>1, <2>3, <2>5 DEF HeaderLength
    <2>7. Sure'
      BY <2>1, <2>2, <2>3, <2>6, SureStep
    <2>8. read' # <<>> /\ read'[Len(read')].tag = "literal"
      BY <2>2, <2>4, Appended
    <2> QED BY <2>1, <2>3, <2>7, <2>8 DEF Told
  <1> QED BY <1>1, <1>2

LEMMA ReadListTold == ASSUME TypeOK, TextKnown, Told, ReadList PROVE Told'
  <1>1. /\ pc = "list" /\ pc' = "idle" /\ verdict' = "listed"
        /\ read' = read /\ passphrase' = passphrase /\ chance' = chance
        /\ list' \in Counts(torn') /\ torn' \in BOOLEAN
        /\ overrun' = (list' \notin BufferPlaces)
    BY DEF ReadList
  <1>2. Sure /\ read[Len(read)].tag = "literal"
    BY <1>1 DEF Told
  <1>3. ListedIfReadable'
    BY <1>1, <1>2 DEF ListedIfReadable, Sure
  <1>4. Text' = Text
    BY <1>1 DEF Text
  <1>5. OwnLengths(read) /\ ~torn'
          => list' = IF Text < LIST_LEN THEN Text ELSE LIST_LEN
    BY <1>1, <1>2 DEF Counts, BytesRead, Most, Sure
  <1>6. Text \in Nat
    BY <1>1, PacketsAssumption DEF Text, TextKnown, Packet
  <1>7. overrun' => Text >= LIST_LEN
    <2>1. list' \in 0..LIST_LEN /\ list' <= Text
      BY <1>1, <1>6, BytesType
    <2>2. list' \notin BufferPlaces => LIST_LEN <= list'
      BY <2>1, LengthAssumption DEF BufferPlaces
    <2>3. overrun' => list' \notin BufferPlaces
      BY <1>1, Zenon
    <2> QED BY <1>6, <2>1, <2>2, <2>3, LengthAssumption
  <1>8. ListWhole'
    BY <1>1, <1>4, <1>5, <1>7 DEF ListWhole
  <1> QED BY <1>1, <1>3, <1>8 DEF Told

LEMMA BeginTold ==
  ASSUME TypeOK, Owned, Unreadable \/ Unwrapped \/ DecryptFile PROVE Told'
  <1>1. /\ verdict' = "none" /\ read' = <<>> /\ length' = "zero" /\ ends' = "data"
        /\ chain' = <<>> /\ pc' \in {"idle", "packets"}
    BY DEF Unreadable, Unwrapped, DecryptFile, Begin, Owned
  <1>2. ListedIfReadable' /\ ListWhole'
    BY <1>1, NothingTold
  <1>3. Sure'
    BY <1>1 DEF Sure, Readable
  <1>4. CASE pc' = "idle"
    BY <1>1, <1>2, <1>4 DEF Told
  <1>5. CASE pc' = "packets"
    BY <1>1, <1>3, <1>5 DEF Told, KeysRead
  <1> QED BY <1>1, <1>4, <1>5

LEMMA NoBufferTold == ASSUME NoBuffer PROVE Told'
  <1>1. pc' = "idle" /\ verdict' = "refused" /\ failed'
    BY DEF NoBuffer
  <1>2. ListedIfReadable' /\ ListWhole'
    BY <1>1, RefusalTold
  <1> QED BY <1>1, <1>2 DEF Told

LEMMA PowerCycleTold == ASSUME PowerCycle PROVE Told'
  <1>1. pc' = "idle" /\ verdict' = "none"
    BY DEF PowerCycle
  <1>2. ListedIfReadable' /\ ListWhole'
    BY <1>1, NothingTold
  <1> QED BY <1>1, <1>2 DEF Told

LEMMA NextTold == ASSUME TypeOK, TextKnown, Owned, Told, [Next]_vars PROVE Told'
  <1>1. CASE UNCHANGED vars
    <2>1. /\ pc' = pc /\ passphrase' = passphrase /\ read' = read
          /\ length' = length /\ ends' = ends /\ chain' = chain
          /\ list' = list /\ verdict' = verdict /\ failed' = failed
          /\ chance' = chance /\ overrun' = overrun /\ torn' = torn
      BY <1>1 DEF vars
    <2>2. ListedIfReadable' = ListedIfReadable /\ ListWhole' = ListWhole
      BY <2>1 DEF ListedIfReadable, ListWhole, Text
    <2>3. KeysRead' = KeysRead /\ Sure' = Sure
      BY <2>1 DEF KeysRead, Sure
    <2> QED BY <2>1, <2>2, <2>3 DEF Told
  <1> QED
    BY <1>1, RefusesTold, SessionKeyTold, CompressedTold, DecryptingTold,
       LiteralTold, BeginTold, NoBufferTold, ReadListTold, PowerCycleTold
    DEF Next, OpenPackets

LEMMA AlwaysTold == Spec => []Told
  <1>1. Init => Told
    BY DEF Init, Told, ListedIfReadable, ListWhole
  <1>2. Told /\ (TypeOK /\ TextKnown /\ Owned) /\ [Next]_vars => Told'
    BY NextTold
  <1> QED BY <1>1, <1>2, Always, PTL DEF Spec

LEMMA BetweenAttempts ==
  ASSUME Told PROVE ListedIfReadable /\ ListWhole
  <1>1. CASE pc = "idle"
    BY <1>1 DEF Told
  <1>2. CASE pc # "idle"
    BY <1>2 DEF Told, ListedIfReadable, ListWhole
  <1> QED BY <1>1, <1>2

(* Packet by packet, mpgp_open_r and check_key come to what the whole file    *)
(* says, but for files in which a stream takes a length from another packet,  *)
(* which may be refused: the invariant relates the key chain to the session   *)
(* keys read, and the end of the streams to the headers with a length.        *)
THEOREM AlwaysListedIfReadable == Spec => []ListedIfReadable
  BY AlwaysTold, BetweenAttempts, PTL

(* A list is cut short by its buffer, a card that fails while it is read, or  *)
(* a stream that takes its length from another packet, and by nothing else;   *)
(* and its terminator leaves the buffer for a text that fills it only.        *)
THEOREM ListAlwaysWhole == Spec => []ListWhole
  BY AlwaysTold, BetweenAttempts, PTL
=============================================================================
