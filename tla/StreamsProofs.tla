--------------------------- MODULE StreamsProofs ----------------------------
(***************************************************************************)
(* Proofs about Streams, for every size of blocks, buffers, files, packets *)
(* and reads: the types, the key's hash (by S2kProofs), and that the       *)
(* streams implement ByteSource.                                           *)
(*                                                                         *)
(* The decrypting stream hands out right bytes because the context's       *)
(* register holds the right ciphertext at every place of a block (CfbInv). *)
(* What the inflating stream has made of its input is right as long as its *)
(* input is (InflateInv), and a read in its loop accounts for what it has, *)
(* what it still wants and what the literal packet has left (ReadInv).     *)
(***************************************************************************)
EXTENDS Streams, S2kProofs

-----------------------------------------------------------------------------
(* The hash of the key.                                                    *)

LEMMA StreamsS2kInit == Init => S2kInit
BY DEF Init

LEMMA StreamsS2kStep == [Next]_vars => [S2kNext]_s2kVars
<1> SUFFICES ASSUME [Next]_vars PROVE [S2kNext]_s2kVars
  OBVIOUS
<1>1. CASE OpenEncr
  BY <1>1 DEF OpenEncr, S2kNext
<1>2. CASE Hash
  BY <1>2 DEF Hash, S2kNext
<1>3. CASE CheckKey
  BY <1>3 DEF CheckKey, S2kNext
<1>4. CASE OpenZ
  BY <1>4 DEF OpenZ
<1>5. CASE OpenLit
  BY <1>5 DEF OpenLit
<1>6. CASE ReadNothing
  BY <1>6 DEF ReadNothing
<1>7. CASE ReadThrough
  BY <1>7 DEF ReadThrough
<1>8. CASE ReadInflated
  BY <1>8 DEF ReadInflated
<1>9. CASE Inflate
  BY <1>9 DEF Inflate
<1>10. CASE UNCHANGED vars
  BY <1>10 DEF vars
<1> QED
  BY <1>1, <1>2, <1>3, <1>4, <1>5, <1>6, <1>7, <1>8, <1>9, <1>10 DEF Next

THEOREM StreamsS2kInv == Spec => []S2kInv
<1>1. Init => S2kInv
  BY StreamsS2kInit, S2kInitInv
<1>2. S2kInv /\ [Next]_vars => S2kInv'
  BY StreamsS2kStep, S2kStepInv
<1> QED
  BY <1>1, <1>2, PTL DEF Spec

(* The key that the file is decrypted with is the hash of the right bytes. *)
THEOREM StreamsKeyHashed == Spec => []KeyHashed
<1>1. S2kInv => KeyHashed
  BY DEF S2kInv
<1> QED
  BY <1>1, StreamsS2kInv, PTL

-----------------------------------------------------------------------------
(* CFB.  c are the bytes behind place p of the file.                       *)

\* The block that place p is in begins behind place p - n: it is one of those
\* behind base.  The register holds the places of that block up to p, and behind
\* them those of the block before.
CfbInv(ctx, base, p) ==
  /\ ctx \in CfbContexts
  /\ \E b \in Nat : p - ctx.n + BLOCK = base + BLOCK * b /\ (ctx.n < BLOCK => b > 0)
  /\ \A k \in Offsets :
       ctx.fr[k] = IF k < ctx.n THEN p - ctx.n + k + 1 ELSE p - ctx.n - BLOCK + k + 1
  /\ ctx.n < BLOCK => \A k \in Offsets : ctx.fre[k] = p - ctx.n - BLOCK + k + 1

Places(p, m) == [i \in 1..m |-> p + i]

\* The block before the one that begins behind place top.
Before(top) == [k \in Offsets |-> top - BLOCK + k + 1]

LEMMA BeforeFacts ==
  ASSUME NEW top
  PROVE  /\ Before(top) = [k \in Offsets |-> Before(top)[k]]
         /\ \A k \in Offsets : Before(top)[k] = top - BLOCK + k + 1
BY DEF Before

LEMMA BeforeOnly ==
  ASSUME NEW f, NEW top \in Int, f = [k \in Offsets |-> f[k]],
         \A k \in Offsets : f[k] = top - BLOCK + k + 1
  PROVE  f = Before(top)
<1>1. [k \in Offsets |-> f[k]] = [k \in Offsets |-> top - BLOCK + k + 1]
  OBVIOUS
<1> QED
  BY <1>1, Zenon DEF Before

LEMMA BlockFacts == BLOCK \in Nat /\ BLOCK >= 2
BY BlockAssumption

LEMMA PlacesFacts ==
  ASSUME NEW p \in Nat, NEW m \in Nat
  PROVE  Places(p, m) \in Seq(Nat) /\ Len(Places(p, m)) = m
         /\ \A i \in 1..m : Places(p, m)[i] = p + i
BY DEF Places

\* The block that is known by its end, top, is what a place in it is combined with.
LEMMA PlainFacts ==
  ASSUME NEW base \in Nat, NEW b \in Nat, NEW j \in Offsets, NEW q \in Nat,
         q = base + BLOCK * b + j + 1
  PROVE  Plain(base, q) = Clear(q, Before(base + BLOCK * b), j)
<1>1. j \in Nat /\ j \in 0..BLOCK - 1 /\ BLOCK \in Nat \ {0} /\ BLOCK * b \in Nat
  BY BlockFacts, Products DEF Offsets
<1>2. q - base - 1 = BLOCK * b + j
  BY <1>1
<1>3. q - base - 1 \in Nat
  BY <1>1, <1>2
<1>4. (q - base - 1) \div BLOCK = b
  BY <1>1, <1>2, <1>3, DivModUnique
<1>5. b * BLOCK = BLOCK * b
  BY <1>1, Products
<1>6. BlockStart(base, q) = base + BLOCK * b
  BY <1>4, <1>5 DEF BlockStart
<1>7. q - (base + BLOCK * b) - 1 = j
  BY <1>1
<1>8. Plain(base, q) = Clear(q, Before(BlockStart(base, q)), q - BlockStart(base, q) - 1)
  BY DEF Plain, Before
<1> QED
  BY <1>6, <1>7, <1>8

\* Lengths: what uses up fre, whole blocks, and the rest.
LEMMA CfbSplit ==
  ASSUME NEW ctx, ctx \in CfbContexts, NEW c, c \in Seq(Nat)
  PROVE  /\ Old(ctx, c) \in 0..Len(c) /\ Old(ctx, c) <= BLOCK - ctx.n
         /\ Old(ctx, c) = Len(c) \/ Old(ctx, c) = BLOCK - ctx.n
         /\ Whole(ctx, c) \in Nat /\ Left(ctx, c) \in 0..BLOCK - 1
         /\ BLOCK * Whole(ctx, c) \in Nat
         /\ Len(c) - Old(ctx, c) = BLOCK * Whole(ctx, c) + Left(ctx, c)
<1> DEFINE old == Old(ctx, c)
           m == Len(c)
<1>1. ctx.n \in 1..BLOCK /\ m \in Nat /\ BLOCK \in Nat \ {0}
  BY BlockFacts DEF CfbContexts
<1>2. old \in 0..m /\ old <= BLOCK - ctx.n /\ (old = m \/ old = BLOCK - ctx.n)
  BY <1>1 DEF Old
<1> HIDE DEF old, m
<1>3. m - old \in Nat
  BY <1>1, <1>2
<1>4. /\ (m - old) \div BLOCK \in Nat /\ (m - old) % BLOCK \in 0..BLOCK - 1
      /\ m - old = BLOCK * ((m - old) \div BLOCK) + ((m - old) % BLOCK)
  BY <1>1, <1>3, DivMod
<1>5. BLOCK * ((m - old) \div BLOCK) \in Nat
  BY <1>1, <1>4, Products
<1> QED
  BY <1>2, <1>4, <1>5 DEF Whole, Left, old, m

\* The register, wherever the reads before have left it.
LEMMA RegisterFacts ==
  ASSUME NEW ctx, NEW base \in Nat, NEW p \in Nat, NEW m \in Nat, CfbInv(ctx, base, p),
         NEW c, c = Places(p, m), Old(ctx, c) = BLOCK - ctx.n,
         NEW r \in Nat, BLOCK * r <= m - Old(ctx, c)
  PROVE  Register(ctx, c, r) = [k \in Offsets |-> p - ctx.n + BLOCK * r + k + 1]
<1> DEFINE n == ctx.n
           old == Old(ctx, c)
<1>1. /\ n \in 1..BLOCK /\ BLOCK \in Nat /\ ctx.fr \in [Offsets -> Nat]
      /\ \A k \in Offsets : k < n => ctx.fr[k] = p - n + k + 1
  <2>1. \A k \in Offsets : ctx.fr[k] = IF k < n THEN p - n + k + 1 ELSE p - n - BLOCK + k + 1
    BY Zenon DEF CfbInv
  <2>2. n \in 1..BLOCK /\ BLOCK \in Nat /\ ctx.fr \in [Offsets -> Nat]
    BY BlockFacts DEF CfbInv, CfbContexts
  <2> QED
    BY <2>1, <2>2
<1>2. old = BLOCK - n /\ old \in 0..m /\ \A i \in 1..m : c[i] = p + i
  <2>1. c \in Seq(Nat) /\ Len(c) = m /\ \A i \in 1..m : c[i] = p + i
    BY PlacesFacts
  <2>2. old \in 0..Len(c)
    BY <2>1, CfbSplit DEF CfbInv
  <2> QED
    BY <2>1, <2>2
<1> HIDE DEF n
<1>3. CASE r = 0
  <2>1. ASSUME NEW k \in Offsets PROVE Shifted(ctx, c)[k] = p - n + k + 1
    <3>1. CASE k < n
      BY <1>1, <1>2, <3>1 DEF Shifted, Offsets, n
    <3>2. CASE k >= n
      <4>1. k \in n..n + old - 1 /\ k - n + 1 \in 1..m /\ p + (k - n + 1) = p - n + k + 1
        <5>1. k \in Nat /\ k <= BLOCK - 1
          BY BlockFacts DEF Offsets
        <5>2. n \in Nat /\ n <= BLOCK /\ old \in Nat /\ old = BLOCK - n /\ old <= m
              /\ BLOCK \in Nat
          BY <1>1, <1>2
        <5> HIDE DEF old
        <5> QED
          BY <3>2, <5>1, <5>2
      <4>2. Shifted(ctx, c)[k] = c[k - n + 1]
        BY <4>1 DEF Shifted, n
      <4> QED
        BY <1>2, <4>1, <4>2
    <3> QED
      BY <1>1, <3>1, <3>2 DEF Offsets
  <2>2. Shifted(ctx, c) = [k \in Offsets |-> Shifted(ctx, c)[k]]
    BY DEF Shifted
  <2>3. BLOCK * r = 0
    BY <1>1, <1>3
  <2>4. \A k \in Offsets : p - n + k + 1 = p - n + BLOCK * r + k + 1
    BY <1>1, <2>3 DEF Offsets
  <2>5. Shifted(ctx, c) = [k \in Offsets |-> p - n + BLOCK * r + k + 1]
    BY <2>1, <2>2, <2>4
  <2> QED
    BY <1>3, <2>5 DEF Register, n
<1>4. CASE r # 0
  <2>1. r - 1 \in Nat /\ (r - 1) + 1 = r
    BY <1>4
  <2>2. /\ BLOCK * (r - 1) \in Nat /\ BLOCK * r = BLOCK * (r - 1) + BLOCK
        /\ (r - 1) * BLOCK = BLOCK * (r - 1)
    BY <1>1, <2>1, Products
  <2> DEFINE d == BLOCK * (r - 1)
             e == BLOCK * r
  <2>3. d \in Nat /\ e = d + BLOCK /\ e <= m - old
    BY <2>2
  <2>4. Register(ctx, c, r) = BlockAt(c, old + d)
    BY <1>4, <2>2 DEF Register
  <2> HIDE DEF d, e, old
  <2>5. ASSUME NEW k \in Offsets PROVE c[old + d + k + 1] = p - n + e + k + 1
    <3>1. old + d + k + 1 \in 1..m /\ p + (old + d + k + 1) = p - n + e + k + 1
      BY <1>1, <1>2, <2>3 DEF Offsets
    <3> QED
      BY <1>2, <3>1
  <2> QED
    BY <2>4, <2>5 DEF BlockAt, e, n
<1> QED
  BY <1>3, <1>4

LEMMA DecryptedPlain ==
  ASSUME NEW ctx, NEW base \in Nat, NEW p \in Nat, NEW m \in Nat, CfbInv(ctx, base, p),
         NEW i \in 1..m
  PROVE  Decrypted(ctx, Places(p, m))[i] = Plain(base, p + i)
<1> DEFINE n == ctx.n
           c == Places(p, m)
           old == Old(ctx, c)
           j == i - 1 - old
<1>1. n \in 1..BLOCK /\ BLOCK \in Nat \ {0} /\ ctx.fre \in [Offsets -> Nat]
      /\ ctx \in CfbContexts
  BY BlockFacts DEF CfbInv, CfbContexts
<1>2. c \in Seq(Nat) /\ Len(c) = m /\ c[i] = p + i
  BY PlacesFacts
<1>3. old \in 0..m /\ old <= BLOCK - n /\ (old = m \/ old = BLOCK - n)
  BY <1>1, <1>2, CfbSplit
<1>4. Decrypted(ctx, c)[i] =
        IF j < 0 THEN Clear(c[i], ctx.fre, n + i - 1)
        ELSE Clear(c[i], Register(ctx, c, j \div BLOCK), j % BLOCK)
  BY <1>2 DEF Decrypted
<1>5. PICK b \in Nat : p - n + BLOCK = base + BLOCK * b /\ (n < BLOCK => b > 0)
  BY DEF CfbInv
<1>5a. n < BLOCK => \A k \in Offsets : ctx.fre[k] = p - n - BLOCK + k + 1
  BY Zenon DEF CfbInv
<1> HIDE DEF n, old
<1>6. CASE j < 0
  <2>1. n < BLOCK /\ b - 1 \in Nat /\ (b - 1) + 1 = b
    BY <1>1, <1>3, <1>5, <1>6
  <2>2. BLOCK * (b - 1) \in Nat /\ BLOCK * b = BLOCK * (b - 1) + BLOCK
    BY <1>1, <2>1, Products
  <2> DEFINE d == BLOCK * (b - 1)
             e == BLOCK * b
  <2>3. d \in Nat /\ e = d + BLOCK /\ p - n + BLOCK = base + e
    BY <1>5, <2>2
  <2>4. p - n = base + d
    <3> HIDE DEF d, e
    <3> QED
      BY <1>1, <2>3
  <2>5. n + i - 1 \in Offsets /\ p + i = base + d + (n + i - 1) + 1
    <3> HIDE DEF d
    <3> QED
      BY <1>1, <1>3, <1>6, <2>3, <2>4 DEF Offsets
  <2>6. ctx.fre = Before(base + d)
    <3> HIDE DEF d
    <3>2. ASSUME NEW k \in Offsets PROVE ctx.fre[k] = base + d - BLOCK + k + 1
      BY <1>1, <1>5a, <2>1, <2>3, <2>4 DEF Offsets
    <3>3. ctx.fre = [k \in Offsets |-> ctx.fre[k]]
      BY <1>1
    <3>4. PICK top \in Int : top = base + d
      BY <2>3
    <3>4a. PICK fre : fre = ctx.fre
      OBVIOUS
    <3>5. fre = [k \in Offsets |-> fre[k]]
      BY <3>3, <3>4a
    <3>6. \A k \in Offsets : fre[k] = top - BLOCK + k + 1
      BY <1>1, <2>3, <3>2, <3>4, <3>4a DEF Offsets
    <3>7. fre = Before(top)
      BY <3>5, <3>6, BeforeOnly
    <3> QED
      BY <3>4, <3>4a, <3>7
  <2>7. Plain(base, p + i) = Clear(p + i, Before(base + d), n + i - 1)
    <3>1. p + i \in Nat /\ p + i = base + BLOCK * (b - 1) + (n + i - 1) + 1
      BY <2>5
    <3> QED
      BY <2>1, <2>5, <3>1, PlainFacts
  <2> QED
    BY <1>2, <1>4, <1>6, <2>6, <2>7
<1>7. CASE ~(j < 0)
  <2> DEFINE r == j \div BLOCK
             q == j % BLOCK
             f == BLOCK * r
  <2>1. j \in Nat /\ old = BLOCK - n /\ j < m - old /\ p + old = p - n + BLOCK
    BY <1>1, <1>3, <1>7
  <2>2. r \in Nat /\ q \in 0..BLOCK - 1 /\ j = f + q
    BY <1>1, <2>1, DivMod
  <2>3. f \in Nat
    BY <1>1, <2>2, Products
  <2> HIDE DEF r, q
  <2>4. f <= m - old
    BY <1>3, <2>1, <2>2, <2>3
  <2>5. Register(ctx, c, r) = [k \in Offsets |-> p - n + f + k + 1]
    BY <2>1, <2>2, <2>4, RegisterFacts DEF n, old
  <2>6. BLOCK * (b + r) = BLOCK * b + f /\ BLOCK * b \in Nat /\ b + r \in Nat
    <3>1. BLOCK * (b + r) = BLOCK * b + BLOCK * r
      BY <1>1, <2>2, SMTT(30)
    <3> QED
      BY <1>1, <2>2, <3>1, Products
  <2> DEFINE e == BLOCK * b
             g == BLOCK * (b + r)
  <2>7. e \in Nat /\ g = e + f /\ p - n + BLOCK = base + e
    BY <1>5, <2>6
  <2> HIDE DEF e, f, g
  <2>8. Register(ctx, c, r) = Before(base + g)
    <3>1. Register(ctx, c, r) = [k \in Offsets |-> p - n + f + k + 1]
      BY <2>5 DEF f
    <3>2. \A k \in Offsets : p - n + f + k + 1 = base + g - BLOCK + k + 1
      BY <1>1, <2>3, <2>7 DEF Offsets
    <3>3. PICK top \in Int : top = base + g
      BY <2>3, <2>7
    <3>3a. PICK reg : reg = Register(ctx, c, r)
      OBVIOUS
    <3>4. reg = [k \in Offsets |-> p - n + f + k + 1]
      BY <3>1, <3>3a
    <3>5. reg = [k \in Offsets |-> reg[k]]
      BY <3>4
    <3>6. \A k \in Offsets : reg[k] = top - BLOCK + k + 1
      BY <1>1, <2>3, <2>7, <3>2, <3>3, <3>4 DEF Offsets
    <3>7. reg = Before(top)
      BY <3>5, <3>6, BeforeOnly
    <3> QED
      BY <3>3, <3>3a, <3>7
  <2>9. p + i = base + g + q + 1 /\ q \in Offsets /\ p + i \in Nat
    BY <1>1, <2>1, <2>2, <2>3, <2>7 DEF Offsets
  <2>10. Plain(base, p + i) = Clear(p + i, Before(base + g), q)
    <3>1. p + i = base + BLOCK * (b + r) + q + 1
      BY <2>9 DEF g
    <3>2. Plain(base, p + i) = Clear(p + i, Before(base + BLOCK * (b + r)), q)
      BY <2>6, <2>9, <3>1, PlainFacts
    <3> QED
      BY <3>2 DEF g
  <2> QED
    BY <1>2, <1>4, <1>7, <2>8, <2>10 DEF r, q
<1> QED
  BY <1>6, <1>7

\* What a context is, from the places of its register.
LEMMA CfbIntro ==
  ASSUME NEW base \in Nat, NEW b \in Nat, NEW p \in Nat, NEW n \in 1..BLOCK, NEW q \in Int,
         q = p - n, q + BLOCK = base + BLOCK * b, n < BLOCK => b > 0,
         NEW fr, fr \in [Offsets -> Nat], NEW fre, fre \in [Offsets -> Nat],
         \A k \in Offsets : fr[k] = IF k < n THEN q + k + 1 ELSE q - BLOCK + k + 1,
         n < BLOCK => \A k \in Offsets : fre[k] = q - BLOCK + k + 1
  PROVE  CfbInv([fr |-> fr, fre |-> fre, n |-> n], base, p)
<1> DEFINE ctx == [fr |-> fr, fre |-> fre, n |-> n]
<1>1. ctx \in CfbContexts
  BY DEF CfbContexts
<1>2. ctx.n = n /\ ctx.fr = fr /\ ctx.fre = fre
  OBVIOUS
<1> HIDE DEF ctx
<1>3. p - n + BLOCK = base + BLOCK * b /\ (n < BLOCK => b > 0)
  OBVIOUS
<1>4. \A k \in Offsets : fr[k] = IF k < n THEN p - n + k + 1 ELSE p - n - BLOCK + k + 1
  OBVIOUS
<1>5. n < BLOCK => \A k \in Offsets : fre[k] = p - n - BLOCK + k + 1
  OBVIOUS
<1>6. CfbInv(ctx, base, p)
  BY <1>1, <1>2, <1>3, <1>4, <1>5, Zenon DEF CfbInv
<1> QED
  BY <1>6 DEF ctx

\* A read in pieces: the register goes on where it was.
LEMMA CfbStep ==
  ASSUME NEW ctx, NEW base \in Nat, NEW p \in Nat, NEW m \in Nat, CfbInv(ctx, base, p)
  PROVE  CfbInv(Afterwards(ctx, Places(p, m)), base, p + m)
<1> DEFINE n == ctx.n
           c == Places(p, m)
           old == Old(ctx, c)
           whole == Whole(ctx, c)
           left == Left(ctx, c)
           f == BLOCK * whole
           new == Afterwards(ctx, c)
<1>1. /\ n \in 1..BLOCK /\ BLOCK \in Nat \ {0} /\ BLOCK >= 2
      /\ ctx.fr \in [Offsets -> Nat] /\ ctx.fre \in [Offsets -> Nat] /\ ctx \in CfbContexts
  BY BlockFacts DEF CfbInv, CfbContexts
<1>2. c \in Seq(Nat) /\ Len(c) = m /\ \A i \in 1..m : c[i] = p + i
  BY PlacesFacts
<1>3. /\ old \in 0..m /\ old <= BLOCK - n /\ (old = m \/ old = BLOCK - n)
      /\ whole \in Nat /\ left \in 0..BLOCK - 1 /\ f \in Nat /\ m - old = f + left
  BY <1>1, <1>2, CfbSplit
<1>4. PICK b \in Nat : p - n + BLOCK = base + BLOCK * b /\ (n < BLOCK => b > 0)
  BY DEF CfbInv
<1>5. n < BLOCK => \A k \in Offsets : ctx.fre[k] = p - n - BLOCK + k + 1
  BY Zenon DEF CfbInv
<1>6. \A k \in Offsets : ctx.fr[k] = IF k < n THEN p - n + k + 1 ELSE p - n - BLOCK + k + 1
  BY Zenon DEF CfbInv
<1>7. f = whole * BLOCK /\ BLOCK * b \in Nat
  BY <1>1, <1>3, <1>4, Products
<1>8. new = [fr  |-> [k \in Offsets |-> IF k < left THEN c[old + f + k + 1]
                                        ELSE Register(ctx, c, whole)[k]],
             fre |-> IF left > 0 THEN Register(ctx, c, whole)
                     ELSE IF whole > 0 THEN Register(ctx, c, whole - 1) ELSE ctx.fre,
             n   |-> IF left > 0 THEN left ELSE n + old]
  BY <1>7 DEF Afterwards, Position
<1>9. p - n + 1 \in Nat
  <2>1. 0 \in Offsets
    BY <1>1 DEF Offsets
  <2>2. ctx.fr[0] = p - n + 1 /\ ctx.fr[0] \in Nat
    BY <1>1, <1>6, <2>1
  <2> QED
    BY <2>2
<1> HIDE DEF n, old, whole, left, new
<1>10. CASE old # BLOCK - n
  <2>1. old = m /\ old < BLOCK - n /\ f = 0 /\ left = 0 /\ whole = 0
    <3>1. old = m /\ old < BLOCK - n /\ f = 0 /\ left = 0
      <4> HIDE DEF f
      <4> QED
        BY <1>1, <1>3, <1>10
    <3>2. whole = 0
      BY <1>1, <1>3, <3>1
    <3> QED
      BY <3>1, <3>2
  <2> HIDE DEF f
  <2> DEFINE fr == [k \in Offsets |-> IF k < left THEN c[old + f + k + 1]
                                      ELSE Register(ctx, c, whole)[k]]
  <2>2. fr = [k \in Offsets |-> IF k \in n..n + m - 1 THEN c[k - n + 1] ELSE ctx.fr[k]]
    <3>1. \A k \in Offsets : ~(k < left)
      BY <1>1, <2>1 DEF Offsets
    <3>2. Register(ctx, c, whole) = Shifted(ctx, c)
      BY <2>1 DEF Register
    <3>3. \A k \in Offsets :
            Shifted(ctx, c)[k] = IF k \in n..n + m - 1 THEN c[k - n + 1] ELSE ctx.fr[k]
      BY <2>1 DEF Shifted, n, old
    <3> QED
      BY <3>1, <3>2, <3>3
  <2>3. new = [fr |-> fr, fre |-> ctx.fre, n |-> n + m]
    BY <1>8, <2>1
  <2> HIDE DEF fr
  <2>4. ASSUME NEW k \in Offsets
        PROVE  fr[k] = IF k < n + m THEN p - n + k + 1 ELSE p - n - BLOCK + k + 1
    <3>0. k \in Nat /\ k <= BLOCK - 1
      BY <1>1 DEF Offsets
    <3>1. CASE k < n
      BY <1>1, <1>6, <2>2, <3>0, <3>1
    <3>2. CASE k >= n /\ k < n + m
      <4>1. k \in n..n + m - 1 /\ k - n + 1 \in 1..m
        BY <1>1, <3>0, <3>2
      <4> QED
        BY <1>1, <1>2, <2>2, <3>0, <3>2, <4>1
    <3>3. CASE k >= n + m
      BY <1>1, <1>6, <2>2, <3>0, <3>3
    <3> QED
      BY <1>1, <3>0, <3>1, <3>2, <3>3
  <2>5. fr \in [Offsets -> Nat]
    <3>1. ASSUME NEW k \in Offsets PROVE fr[k] \in Nat
      <4>0. k \in Nat
        BY <1>1 DEF Offsets
      <4>1. CASE k < n + m
        BY <1>1, <1>9, <2>4, <4>0, <4>1
      <4>2. CASE k >= n + m
        BY <1>1, <2>2, <4>0, <4>2
      <4> QED
        BY <1>1, <4>0, <4>1, <4>2
    <3> QED
      BY <2>2, <3>1
  <2>6. n + m \in 1..BLOCK /\ n + m < BLOCK /\ p + m \in Nat /\ n < BLOCK /\ b > 0
    BY <1>1, <1>4, <2>1
  <2> DEFINE nn == n + m
             pp == p + m
             q == p - n
  <2>7. q \in Int /\ q = pp - nn /\ q + BLOCK = base + BLOCK * b
    BY <1>1, <1>4
  <2>8. \A k \in Offsets : fr[k] = IF k < nn THEN q + k + 1 ELSE q - BLOCK + k + 1
    BY <2>4
  <2>9. \A k \in Offsets : ctx.fre[k] = q - BLOCK + k + 1
    BY <1>5, <2>6
  <2>10. nn \in 1..BLOCK /\ pp \in Nat
    BY <2>6
  <2> HIDE DEF nn, pp, q
  <2>11. CfbInv([fr |-> fr, fre |-> ctx.fre, n |-> nn], base, pp)
    BY <1>1, <2>5, <2>6, <2>7, <2>8, <2>9, <2>10, CfbIntro
  <2> QED
    BY <2>3, <2>11 DEF new, nn, pp
<1>11. CASE old = BLOCK - n
  <2>1. ASSUME NEW r \in Nat, r <= whole
        PROVE  /\ Register(ctx, c, r) = [k \in Offsets |-> p - n + BLOCK * r + k + 1]
               /\ Register(ctx, c, r) \in [Offsets -> Nat]
    <3>1. BLOCK * r \in Nat /\ BLOCK * r <= f
      <4>1. whole - r \in Nat /\ whole = r + (whole - r)
        BY <1>3, <2>1
      <4>2. BLOCK * (r + (whole - r)) = BLOCK * r + BLOCK * (whole - r)
        BY <1>1, <4>1, SMTT(30)
      <4>3. BLOCK * r \in Nat /\ BLOCK * (whole - r) \in Nat
        BY <1>1, <2>1, <4>1, Products
      <4>4. f = BLOCK * r + BLOCK * (whole - r)
        BY <4>1, <4>2
      <4> HIDE DEF f
      <4> QED
        BY <4>3, <4>4
    <3>2. Register(ctx, c, r) = [k \in Offsets |-> p - n + BLOCK * r + k + 1]
      <4>1. BLOCK * r <= m - old
        <5> HIDE DEF f
        <5> QED
          BY <1>3, <3>1
      <4> QED
        BY <1>11, <4>1, RegisterFacts DEF n, old
    <3> DEFINE e == BLOCK * r
    <3>3. e \in Nat
      BY <3>1
    <3> HIDE DEF e
    <3>4. \A k \in Offsets : p - n + e + k + 1 \in Nat
      BY <1>1, <1>9, <3>3 DEF Offsets
    <3> QED
      BY <3>2, <3>4 DEF e
  <2>2. Register(ctx, c, whole) = [k \in Offsets |-> p - n + f + k + 1]
        /\ Register(ctx, c, whole) \in [Offsets -> Nat]
    <3>1. whole \in Nat /\ whole <= whole
      BY <1>3
    <3> QED
      BY <2>1, <3>1
  <2>3. whole > 0 => Register(ctx, c, whole - 1) \in [Offsets -> Nat]
    <3>1. whole > 0 => whole - 1 \in Nat /\ whole - 1 <= whole
      BY <1>3
    <3> QED
      BY <2>1, <3>1
  <2>4. BLOCK * (b + whole) = BLOCK * b + f
        /\ BLOCK * (b + whole + 1) = BLOCK * b + f + BLOCK
    BY <1>1, <1>3, <1>4, SMTT(30)
  <2> HIDE DEF f
  <2>5. CASE left = 0
    <3> DEFINE fr == Register(ctx, c, whole)
               fre == IF whole > 0 THEN Register(ctx, c, whole - 1) ELSE ctx.fre
               q == p - n + f
               pp == p + m
    <3>1. fr \in [Offsets -> Nat] /\ fre \in [Offsets -> Nat]
      BY <1>1, <2>2, <2>3
    <3>2. new = [fr |-> fr, fre |-> fre, n |-> BLOCK]
      <4>1. \A k \in Offsets : ~(k < left)
        BY <1>1, <2>5 DEF Offsets
      <4>2. n + old = BLOCK
        BY <1>1, <1>3, <1>11
      <4>3. [k \in Offsets |-> IF k < left THEN c[old + f + k + 1]
                                        ELSE Register(ctx, c, whole)[k]] = fr
        BY <4>1, <3>1
      <4> QED
        BY <1>8, <4>2, <4>3, <2>5
    <3>3. q \in Int /\ q = pp - BLOCK /\ q + BLOCK = base + BLOCK * (b + whole)
          /\ pp \in Nat /\ b + whole \in Nat /\ BLOCK \in 1..BLOCK
      <4>1. q + BLOCK = base + BLOCK * b + f
        BY <1>1, <1>3, <1>4
      <4>2. pp = p + old + f /\ b + whole \in Nat
        BY <1>1, <1>3, <1>4, <2>5
      <4> QED
        BY <1>1, <1>3, <1>11, <2>4, <4>1, <4>2
    <3>4. \A k \in Offsets : fr[k] = IF k < BLOCK THEN q + k + 1 ELSE q - BLOCK + k + 1
      <4>1. \A k \in Offsets : k < BLOCK /\ fr[k] = q + k + 1
        BY <1>1, <2>2 DEF Offsets
      <4> QED
        BY <4>1
    <3> HIDE DEF fr, fre, q, pp
    <3>5. CfbInv([fr |-> fr, fre |-> fre, n |-> BLOCK], base, pp)
      <4>1. PICK d \in Nat : d = b + whole
        BY <3>3
      <4>2. PICK n1 \in 1..BLOCK : n1 = BLOCK
        BY <3>3
      <4>3. q = pp - n1 /\ q + BLOCK = base + BLOCK * d /\ ~(n1 < BLOCK)
        BY <1>1, <3>3, <4>1, <4>2
      <4>4. \A k \in Offsets : fr[k] = IF k < n1 THEN q + k + 1 ELSE q - BLOCK + k + 1
        BY <3>4, <4>2
      <4>5. CfbInv([fr |-> fr, fre |-> fre, n |-> n1], base, pp)
        BY <3>1, <3>3, <4>3, <4>4, CfbIntro
      <4> QED
        BY <4>2, <4>5
    <3> QED
      BY <3>2, <3>5 DEF new, pp
  <2>6. CASE left # 0
    <3> DEFINE fr == [k \in Offsets |-> IF k < left THEN c[old + f + k + 1]
                                        ELSE Register(ctx, c, whole)[k]]
               fre == Register(ctx, c, whole)
               q == p + old + f
               pp == p + m
    <3>1. left \in 1..BLOCK /\ left < BLOCK /\ left > 0
      BY <1>1, <1>3, <2>6
    <3>2. new = [fr |-> fr, fre |-> fre, n |-> left]
      BY <1>8, <3>1
    <3>3. q \in Int /\ q = pp - left /\ q + BLOCK = base + BLOCK * (b + whole + 1)
          /\ pp \in Nat /\ b + whole + 1 \in Nat /\ b + whole + 1 > 0
      <4>1. q + BLOCK = base + BLOCK * b + f + BLOCK
        BY <1>1, <1>3, <1>4, <1>11
      <4>2. pp = p + old + f + left /\ b + whole + 1 \in Nat /\ b + whole + 1 > 0
        BY <1>1, <1>3, <1>4
      <4> QED
        BY <1>1, <1>3, <2>4, <4>1, <4>2
    <3>4. ASSUME NEW k \in Offsets
          PROVE  fr[k] = IF k < left THEN q + k + 1 ELSE q - BLOCK + k + 1
      <4>0. k \in Nat /\ k <= BLOCK - 1
        BY <1>1 DEF Offsets
      <4>1. CASE k < left
        <5>1. old + f + k + 1 \in 1..m
          BY <1>3, <4>0, <4>1
        <5>2. fr[k] = p + (old + f + k + 1)
          BY <1>2, <4>1, <5>1
        <5> QED
          BY <1>3, <4>0, <4>1, <5>2
      <4>2. CASE k >= left
        BY <1>1, <1>3, <1>11, <2>2, <4>0, <4>2
      <4> QED
        BY <1>3, <4>0, <4>1, <4>2
    <3>5. fr \in [Offsets -> Nat] /\ fre \in [Offsets -> Nat]
      <4>1. ASSUME NEW k \in Offsets PROVE fr[k] \in Nat
        <5>0. k \in Nat
          BY <1>1 DEF Offsets
        <5>1. CASE k < left
          BY <1>3, <3>4, <5>0, <5>1
        <5>2. CASE ~(k < left)
          BY <2>2, <5>2
        <5> QED
          BY <5>1, <5>2
      <4> QED
        BY <2>2, <4>1
    <3>6. \A k \in Offsets : fre[k] = q - BLOCK + k + 1
      BY <1>1, <1>3, <1>11, <2>2 DEF Offsets
    <3> HIDE DEF fr, fre, q, pp
    <3>7. CfbInv([fr |-> fr, fre |-> fre, n |-> left], base, pp)
      BY <1>1, <3>1, <3>3, <3>4, <3>5, <3>6, CfbIntro
    <3> QED
      BY <3>2, <3>7 DEF new, pp
  <2> QED
    BY <2>5, <2>6
<1> QED
  BY <1>10, <1>11

\* A context keeps its type, whatever bytes it is given.
LEMMA AfterwardsType ==
  ASSUME NEW ctx, ctx \in CfbContexts, NEW c, c \in Seq(Nat)
  PROVE  Afterwards(ctx, c) \in CfbContexts
<1> DEFINE n == ctx.n
           old == Old(ctx, c)
           whole == Whole(ctx, c)
           left == Left(ctx, c)
           f == BLOCK * whole
           m == Len(c)
           new == Afterwards(ctx, c)
<1>1. /\ n \in 1..BLOCK /\ BLOCK \in Nat \ {0} /\ m \in Nat
      /\ ctx.fr \in [Offsets -> Nat] /\ ctx.fre \in [Offsets -> Nat]
  BY BlockFacts DEF CfbContexts
<1>2. /\ old \in 0..m /\ old <= BLOCK - n /\ (old = m \/ old = BLOCK - n)
      /\ whole \in Nat /\ left \in 0..BLOCK - 1 /\ f \in Nat /\ m - old = f + left
  BY CfbSplit
<1>3. f = whole * BLOCK
  BY <1>1, <1>2, Products
<1>4. new = [fr  |-> [k \in Offsets |-> IF k < left THEN c[old + f + k + 1]
                                        ELSE Register(ctx, c, whole)[k]],
             fre |-> IF left > 0 THEN Register(ctx, c, whole)
                     ELSE IF whole > 0 THEN Register(ctx, c, whole - 1) ELSE ctx.fre,
             n   |-> IF left > 0 THEN left ELSE n + old]
  BY <1>3 DEF Afterwards, Position
<1>5. ASSUME NEW r \in Nat, r <= whole
      PROVE  Register(ctx, c, r) \in [Offsets -> Nat]
  <2>1. CASE r = 0
    <3>1. ASSUME NEW k \in Offsets, k \in n..n + old - 1 PROVE c[k - n + 1] \in Nat
      <4>1. k - n + 1 \in 1..m
        <5> HIDE DEF n, old, m
        <5> QED
          BY <1>1, <1>2, <3>1 DEF Offsets
      <4> QED
        BY <4>1 DEF m
    <3>2. Shifted(ctx, c) \in [Offsets -> Nat]
      BY <1>1, <3>1 DEF Shifted, n, old
    <3> QED
      BY <2>1, <3>2 DEF Register
  <2>2. CASE r # 0
    <3>1. /\ whole - r \in Nat /\ r - 1 \in Nat
          /\ BLOCK * (r - 1) \in Nat /\ (r - 1) * BLOCK = BLOCK * (r - 1)
      <4>1. whole - r \in Nat /\ r - 1 \in Nat
        BY <1>2, <1>5, <2>2
      <4> QED
        BY <1>1, <4>1, Products
    <3>2. BLOCK * (r - 1) + BLOCK <= f
      <4>1. BLOCK * (r - 1) + BLOCK + BLOCK * (whole - r) = f
        BY <1>1, <1>2, <3>1, <1>5, SMTT(30)
      <4>2. BLOCK * (whole - r) \in Nat
        BY <1>1, <3>1, Products
      <4> DEFINE d == BLOCK * (r - 1)
                 e == BLOCK * (whole - r)
      <4>3. d + BLOCK + e = f /\ d \in Nat /\ e \in Nat
        BY <3>1, <4>1, <4>2
      <4> HIDE DEF d, e, f
      <4>4. d + BLOCK <= f
        BY <1>1, <1>2, <4>3
      <4> QED
        BY <4>4 DEF d
    <3> DEFINE d == BLOCK * (r - 1)
    <3>3. Register(ctx, c, r) = BlockAt(c, old + d)
      BY <2>2, <3>1 DEF Register
    <3>4. d \in Nat /\ d + BLOCK <= f
      BY <3>1, <3>2
    <3>5. ASSUME NEW k \in Offsets PROVE c[old + d + k + 1] \in Nat
      <4>1. old + d + k + 1 \in 1..m
        <5> HIDE DEF n, old, m, f, d, left
        <5>1. k \in Nat /\ k <= BLOCK - 1
          BY <1>1 DEF Offsets
        <5>2. f <= m - old /\ old \in Nat /\ m \in Nat /\ f \in Nat
          BY <1>1, <1>2
        <5> QED
          BY <1>1, <3>4, <5>1, <5>2
      <4> QED
        BY <4>1 DEF m
    <3> QED
      BY <3>3, <3>5 DEF BlockAt
  <2> QED
    BY <2>1, <2>2
<1>6. Register(ctx, c, whole) \in [Offsets -> Nat]
  <2>1. whole \in Nat /\ whole <= whole
    BY <1>2
  <2> QED
    BY <1>5, <2>1
<1>7. whole > 0 => Register(ctx, c, whole - 1) \in [Offsets -> Nat]
  <2>1. whole > 0 => whole - 1 \in Nat /\ whole - 1 <= whole
    BY <1>2
  <2> QED
    BY <1>5, <2>1
<1>8. ASSUME NEW k \in Offsets, k < left PROVE c[old + f + k + 1] \in Nat
  <2>1. old + f + k + 1 \in 1..m
    <3> HIDE DEF n, old, m, f, left
    <3> QED
      BY <1>1, <1>2, <1>8 DEF Offsets
  <2> QED
    BY <2>1 DEF m
<1> HIDE DEF n, old, whole, left, f, m, new
<1>9. new.fr \in [Offsets -> Nat]
  BY <1>4, <1>6, <1>8
<1>10. new.fre \in [Offsets -> Nat]
  BY <1>1, <1>4, <1>6, <1>7
<1>11. new.n \in 1..BLOCK
  BY <1>1, <1>2, <1>4
<1>12. new = [fr |-> new.fr, fre |-> new.fre, n |-> new.n]
  BY <1>4
<1>13. new \in CfbContexts
  BY <1>9, <1>10, <1>11, <1>12 DEF CfbContexts
<1> QED
  BY <1>13 DEF new

-----------------------------------------------------------------------------
(* The file and the decrypting stream.                                     *)

FileRecords == [size : Nat, pos : Nat, error : BOOLEAN, failed : BOOLEAN]
EncrRecords == [kind : {"encr"}, len : Nat, ctx : CfbContexts, base : Nat]

BelowOK(f, e, h) ==
  /\ f \in FileRecords /\ f.pos <= f.size /\ (f.error => f.failed)
  /\ e \in {None} \cup EncrRecords
  /\ e = None <=> h = "idle"
  /\ h = "computed" => CfbInv(e.ctx, e.base, f.pos)

\* The last place that can be read below the inflating stream.
EndBelow(f, e) == IF e = None THEN f.size ELSE Lesser(f.size, f.pos + e.len)

EndedBelow(f, e) == f.pos = f.size \/ (e # None /\ e.len = 0)

LEMMA FileReadsFacts ==
  ASSUME file \in FileRecords, file.pos <= file.size, NEW n \in Nat \ {0},
         NEW r \in FileReads(n)
  PROVE  /\ r.count \in 0..n /\ file.pos + r.count <= file.size
         /\ r.error \in BOOLEAN /\ r.failed \in BOOLEAN
         /\ (r.error => r.failed) /\ (file.error => r.error)
         /\ ~r.failed => r.count = Lesser(n, file.size - file.pos)
         /\ (r.count = 0 /\ ~FileEnded) => r.failed
         /\ (FileEnded \/ file.error) => r.count = 0
         /\ r.count = n => ~r.error /\ ~file.error
<1>1. file.size \in Nat /\ file.pos \in Nat /\ file.error \in BOOLEAN
  BY DEF FileRecords
<1>2. CASE FileEnded \/ file.error
  <2>1. r.count = 0 /\ r.error = file.error /\ r.failed = file.error
    BY <1>2 DEF FileReads
  <2>2. FileEnded => Lesser(n, file.size - file.pos) = 0
    BY <1>1 DEF FileEnded, Lesser
  <2> QED
    BY <1>1, <1>2, <2>1, <2>2
<1>3. CASE ~(FileEnded \/ file.error)
  <2> DEFINE all == Lesser(n, file.size - file.pos)
  <2>1. all \in Nat \ {0} /\ all <= n /\ file.pos + all <= file.size
    BY <1>1, <1>3 DEF FileEnded, Lesser
  <2>2. \/ r.count = all /\ r.error = FALSE /\ r.failed = FALSE
        \/ r.count = 0 /\ r.error = FALSE /\ r.failed = TRUE
        \/ r.count \in 0..all - 1 /\ r.error = TRUE /\ r.failed = TRUE
    BY <1>3 DEF FileReads, Unready
  <2> HIDE DEF all
  <2>3. r.count \in 0..n /\ file.pos + r.count <= file.size
    BY <1>1, <2>1, <2>2
  <2>4. ~r.failed => r.count = all
    BY <2>2
  <2>5. r.count = 0 => r.failed
    BY <2>1, <2>2
  <2>6. r.count = n => ~r.error
    BY <2>1, <2>2
  <2>7. r.error \in BOOLEAN /\ r.failed \in BOOLEAN /\ (r.error => r.failed)
    BY <2>2
  <2> QED
    BY <1>3, <2>3, <2>4, <2>5, <2>6, <2>7 DEF all
<1> QED
  BY <1>2, <1>3

LEMMA FileAfterFacts ==
  ASSUME file \in FileRecords, NEW s, s.error \in BOOLEAN, s.failed \in BOOLEAN,
         s.count \in Nat
  PROVE  /\ FileAfter(s).size = file.size /\ FileAfter(s).pos = file.pos + s.count
         /\ FileAfter(s).error = s.error /\ FileAfter(s) \in FileRecords
         /\ FileAfter(s).failed <=> (file.failed \/ s.failed)
<1>1. PICK k, e : k = s.count /\ e = s.error
  OBVIOUS
<1>2. PICK w \in BOOLEAN : w <=> (file.failed \/ s.failed)
  OBVIOUS
<1>3. e \in BOOLEAN /\ k \in Nat
  BY <1>1
<1>4. (file.failed \/ s.failed) = w
  <2>1. (file.failed \/ s.failed) \in BOOLEAN
    OBVIOUS
  <2> QED
    BY <1>2, <2>1, Zenon
<1>5. FileAfter(s) = [file EXCEPT !.pos = @ + k, !.error = e, !.failed = w]
  BY <1>1, <1>4, Zenon DEF FileAfter
<1>6. [file EXCEPT !.pos = @ + k] \in FileRecords
  BY <1>3 DEF FileRecords
<1>7. \A f \in FileRecords : [f EXCEPT !.error = e] \in FileRecords
  BY <1>3 DEF FileRecords
<1>8. \A f \in FileRecords : [f EXCEPT !.failed = w] \in FileRecords
  BY DEF FileRecords
<1>9. [file EXCEPT !.pos = @ + k, !.error = e, !.failed = w]
        = [[[file EXCEPT !.pos = @ + k] EXCEPT !.error = e] EXCEPT !.failed = w]
  OBVIOUS
<1>10. FileAfter(s) \in FileRecords
  BY <1>5, <1>6, <1>7, <1>8, <1>9
<1>11. /\ FileAfter(s).size = file.size /\ FileAfter(s).pos = file.pos + k
       /\ FileAfter(s).error = e /\ FileAfter(s).failed = w
  BY <1>3, <1>5 DEF FileRecords
<1> QED
  BY <1>1, <1>2, <1>10, <1>11

\* A read below the inflating stream hands out the right bytes, and all there are.
ReadBelow(n, r) ==
  /\ r.bytes \in Seq(Nat) /\ Len(r.bytes) <= n
  /\ \A i \in 1..Len(r.bytes) : r.bytes[i] = file.pos + i
  /\ r.file \in FileRecords /\ r.file.size = file.size
  /\ r.file.pos = file.pos + Len(r.bytes) /\ (file.failed => r.file.failed)
  /\ BelowOK(r.file, r.encr, hashing)
  /\ r.bytes = <<>> => r.file.failed \/ EndedBelow(r.file, r.encr)
  /\ ~r.file.failed => /\ EndBelow(r.file, r.encr) = EndBelow(file, encr)
                       /\ Len(r.bytes) < n => r.file.pos = EndBelow(file, encr)

LEMMA BelowFacts ==
  ASSUME BelowOK(file, encr, hashing), hashing \in {"idle", "computed"},
         NEW n \in Nat \ {0}, NEW r \in BelowReads(n)
  PROVE  ReadBelow(n, r)
<1>1. file \in FileRecords /\ file.pos <= file.size
  BY DEF BelowOK
<1>2. file.size \in Nat /\ file.pos \in Nat /\ file.failed \in BOOLEAN /\ file.error \in BOOLEAN
      /\ (file.error => file.failed)
  BY <1>1 DEF BelowOK, FileRecords
<1>4. CASE encr = None
  <2>1. PICK s \in FileReads(n) :
          r = [bytes |-> FileBytes(s), file |-> FileAfter(s), encr |-> None]
    BY <1>4 DEF BelowReads
  <2>2. /\ s.count \in 0..n /\ file.pos + s.count <= file.size
        /\ s.error \in BOOLEAN /\ s.failed \in BOOLEAN /\ (s.error => s.failed)
        /\ ~s.failed => s.count = Lesser(n, file.size - file.pos)
        /\ (s.count = 0 /\ ~FileEnded) => s.failed
    BY <1>1, FileReadsFacts
  <2>3. FileBytes(s) \in Seq(Nat) /\ Len(FileBytes(s)) = s.count
        /\ \A i \in 1..s.count : FileBytes(s)[i] = file.pos + i
    BY <1>2, <2>2 DEF FileBytes
  <2>4. /\ r.file.failed <=> (file.failed \/ s.failed)
        /\ r.file.error => r.file.failed
        /\ r.file.size = file.size /\ r.file.pos = file.pos + s.count
        /\ r.file \in FileRecords /\ r.encr = None /\ r.bytes = FileBytes(s)
    <3>1. s.count \in Nat
      BY <2>2
    <3>2. FileAfter(s).size = file.size /\ FileAfter(s).pos = file.pos + s.count
          /\ FileAfter(s).error = s.error /\ FileAfter(s) \in FileRecords
          /\ (FileAfter(s).failed <=> (file.failed \/ s.failed))
      BY <1>1, <2>2, <3>1, FileAfterFacts
    <3>3. r.file = FileAfter(s) /\ r.encr = None /\ r.bytes = FileBytes(s)
      BY <2>1
    <3>4. r.file.error => r.file.failed
      BY <2>2, <3>2, <3>3, Zenon
    <3> QED
      BY <3>2, <3>3, <3>4
  <2>5. EndBelow(file, encr) = file.size /\ EndBelow(r.file, r.encr) = file.size
    BY <1>4, <2>4 DEF EndBelow
  <2>6. ~r.file.failed /\ Len(r.bytes) < n => r.file.pos = file.size
    BY <1>2, <2>2, <2>3, <2>4 DEF Lesser
  <2>7. r.bytes = <<>> => r.file.failed \/ EndedBelow(r.file, r.encr)
    BY <1>2, <2>2, <2>3, <2>4 DEF EndedBelow, FileEnded
  <2>8. hashing = "idle"
    BY <1>4 DEF BelowOK
  <2>9. BelowOK(r.file, r.encr, hashing)
    BY <2>2, <2>4, <2>8 DEF BelowOK
  <2> QED
    BY <2>2, <2>3, <2>4, <2>5, <2>6, <2>7, <2>9 DEF ReadBelow
<1>5. CASE encr # None
  <2>1. hashing = "computed" /\ CfbInv(encr.ctx, encr.base, file.pos) /\ encr \in EncrRecords
    BY <1>5 DEF BelowOK
  <2>2. encr.len \in Nat /\ encr.base \in Nat /\ encr.ctx \in CfbContexts
    BY <2>1 DEF EncrRecords
  <2>3. EndBelow(file, encr) = Lesser(file.size, file.pos + encr.len)
    BY <1>5 DEF EndBelow
  <2>4. CASE encr.len = 0
    <3>1. r = [bytes |-> <<>>, file |-> file, encr |-> encr]
      BY <1>5, <2>4 DEF BelowReads
    <3>2. EndBelow(file, encr) = file.pos
      BY <1>1, <1>2, <2>3, <2>4 DEF Lesser
    <3>3. EndedBelow(r.file, r.encr)
      BY <1>5, <2>4, <3>1 DEF EndedBelow
    <3>4. r.bytes = <<>> /\ r.file = file /\ r.encr = encr /\ r.bytes \in Seq(Nat)
          /\ Len(r.bytes) = 0
      BY <3>1
    <3>5. file.pos + 0 = file.pos
      BY <1>2
    <3> QED
      BY <1>1, <1>2, <3>2, <3>3, <3>4, <3>5 DEF ReadBelow
  <2>5. CASE encr.len # 0
    <3> DEFINE a == EncrAsked(n)
    <3>1. a \in Nat \ {0} /\ a <= n /\ a <= encr.len /\ (a = n \/ a = encr.len)
      BY <2>2, <2>5 DEF EncrAsked, Lesser
    <3>2. PICK s \in FileReads(a) :
            r = [bytes |-> EncrBytes(s), file |-> FileAfter(s),
                 encr |-> IF FileEnded \/ file.error THEN encr ELSE EncrAfter(s, a)]
      BY <1>5, <2>5 DEF BelowReads
    <3> HIDE DEF a
    <3>3. /\ s.count \in 0..a /\ file.pos + s.count <= file.size
          /\ s.error \in BOOLEAN /\ s.failed \in BOOLEAN /\ (s.error => s.failed)
          /\ ~s.failed => s.count = Lesser(a, file.size - file.pos)
          /\ (s.count = 0 /\ ~FileEnded) => s.failed
          /\ (FileEnded \/ file.error) => s.count = 0
      BY <1>1, <3>1, FileReadsFacts
    <3>4. FileBytes(s) = Places(file.pos, s.count)
      BY DEF FileBytes, Places
    <3>5. \A i \in 1..s.count :
            Decrypted(encr.ctx, FileBytes(s))[i] = Plain(encr.base, file.pos + i)
      <4> SUFFICES ASSUME NEW i \in 1..s.count
                   PROVE  Decrypted(encr.ctx, Places(file.pos, s.count))[i]
                            = Plain(encr.base, file.pos + i)
        BY <3>4
      <4>1. s.count \in Nat /\ file.pos \in Nat /\ encr.base \in Nat
        BY <1>2, <2>2, <3>3
      <4>2. PICK m \in Nat : m = s.count
        BY <4>1
      <4>3. PICK p \in Nat : p = file.pos
        BY <4>1
      <4>4. PICK base \in Nat : base = encr.base
        BY <4>1
      <4>5. PICK ctx : ctx = encr.ctx
        OBVIOUS
      <4>6. i \in 1..m /\ CfbInv(ctx, base, p)
        BY <2>1, <4>2, <4>3, <4>4, <4>5
      <4>7. Decrypted(ctx, Places(p, m))[i] = Plain(base, p + i)
        BY <4>6, DecryptedPlain
      <4> QED
        BY <4>2, <4>3, <4>4, <4>5, <4>7
    <3>6. EncrBytes(s) \in Seq(Nat) /\ Len(EncrBytes(s)) = s.count
          /\ \A i \in 1..s.count : EncrBytes(s)[i] = file.pos + i
      <4>1. EncrBytes(s) = [i \in 1..s.count |-> file.pos + i]
        BY <3>5 DEF EncrBytes
      <4> QED
        BY <1>2, <3>3, <4>1
    <3>7. /\ r.file.failed <=> (file.failed \/ s.failed)
          /\ r.file.error => r.file.failed
          /\ r.file.size = file.size /\ r.file.pos = file.pos + s.count
          /\ r.file \in FileRecords /\ r.bytes = EncrBytes(s)
      <4>1. s.count \in Nat
        BY <3>3
      <4>2. FileAfter(s).size = file.size /\ FileAfter(s).pos = file.pos + s.count
            /\ FileAfter(s).error = s.error /\ FileAfter(s) \in FileRecords
            /\ (FileAfter(s).failed <=> (file.failed \/ s.failed))
        BY <1>1, <3>3, <4>1, FileAfterFacts
      <4>3. r.file = FileAfter(s) /\ r.bytes = EncrBytes(s)
        BY <3>2
      <4>4. r.file.error => r.file.failed
        BY <3>3, <4>2, <4>3, Zenon
      <4> QED
        BY <4>2, <4>3, <4>4
    <3>8. r.bytes = <<>> => r.file.failed \/ EndedBelow(r.file, r.encr)
      BY <1>2, <3>3, <3>6, <3>7 DEF EndedBelow, FileEnded
    <3>9. CASE FileEnded \/ file.error
      <4>1. r.encr = encr /\ s.count = 0 /\ r.file.pos = file.pos
        BY <1>2, <3>2, <3>3, <3>7, <3>9
      <4>2. EndBelow(r.file, r.encr) = EndBelow(file, encr)
        BY <3>7, <4>1 DEF EndBelow
      <4>3. ~r.file.failed => file.pos = EndBelow(file, encr)
        BY <1>2, <2>2, <2>3, <3>3, <3>7, <3>9 DEF FileEnded, Lesser
      <4>4. BelowOK(r.file, r.encr, hashing)
        BY <1>1, <3>7, <4>1 DEF BelowOK
      <4> QED
        BY <1>2, <3>1, <3>3, <3>6, <3>7, <3>8, <4>1, <4>2, <4>3, <4>4 DEF ReadBelow
    <3>10. CASE ~(FileEnded \/ file.error)
      <4>1. r.encr = [kind |-> "encr", len |-> encr.len - a,
                      ctx |-> Afterwards(encr.ctx, FileBytes(s)), base |-> encr.base]
        BY <2>1, <3>2, <3>10 DEF EncrAfter, EncrRecords
      <4>2. encr.len - a \in Nat
        BY <2>2, <3>1
      <4>3. s.count \in Nat
        BY <3>3
      <4>4. Afterwards(encr.ctx, FileBytes(s)) \in CfbContexts
        BY <1>2, <2>2, <3>4, <4>3, AfterwardsType, PlacesFacts
      <4>5. CfbInv(Afterwards(encr.ctx, FileBytes(s)), encr.base, file.pos + s.count)
        BY <1>2, <2>1, <2>2, <3>4, <4>3, CfbStep
      <4>6. r.encr \in EncrRecords /\ r.encr # None /\ r.encr.len = encr.len - a
            /\ r.encr.ctx = Afterwards(encr.ctx, FileBytes(s)) /\ r.encr.base = encr.base
        <5>1. r.encr.kind = "encr" /\ None.kind = "none"
          BY <4>1 DEF None
        <5> QED
          BY <2>2, <4>1, <4>2, <4>4, <5>1 DEF EncrRecords
      <4>7. BelowOK(r.file, r.encr, hashing)
        BY <2>1, <3>3, <3>7, <4>5, <4>6 DEF BelowOK
      <4>8. EndBelow(r.file, r.encr) = Lesser(file.size, file.pos + s.count + (encr.len - a))
        BY <3>7, <4>6 DEF EndBelow
      <4>9. ~s.failed => EndBelow(r.file, r.encr) = EndBelow(file, encr)
        BY <1>2, <2>2, <2>3, <3>1, <3>3, <4>8 DEF Lesser
      <4>10. ~s.failed /\ s.count < n => file.pos + s.count = EndBelow(file, encr)
        BY <1>2, <2>2, <2>3, <3>1, <3>3 DEF Lesser
      <4> QED
        BY <1>2, <3>1, <3>3, <3>6, <3>7, <3>8, <4>7, <4>9, <4>10 DEF ReadBelow
    <3> QED
      BY <3>9, <3>10
  <2> QED
    BY <2>4, <2>5
<1> QED
  BY <1>4, <1>5

-----------------------------------------------------------------------------
(* The inflating stream.                                                   *)

ZRecords ==
  [kind : {"z"}, base : Nat, yield : YIELDS, fed : Nat, whole : BOOLEAN,
   sound : BOOLEAN, lost : BOOLEAN, in : Bytes, out : Bytes, consumed : Nat,
   error : BOOLEAN, eof : BOOLEAN]

ZShape(q) ==
  /\ q \in ZRecords
  /\ q.fed <= Len(q.yield) /\ Len(q.in) <= Z_BUF
  /\ q.consumed <= Len(q.out) /\ Len(q.out) <= Z_OUT_BUF

YieldOf(q, i) == IF i = 0 THEN 0 ELSE q.yield[i]

\* What has been inflated is right, and no more than comes of what has been taken.
Made(q) ==
  /\ \A i \in 1..Len(q.out) : q.out[i] = i \/ (q.out[i] = Junk /\ ~q.sound)
  /\ q.sound => Len(q.out) <= YieldOf(q, q.fed)

LEMMA PlacesAreBytes ==
  ASSUME NEW s \in Seq(Nat)
  PROVE  s \in Bytes
BY DEF Bytes

LEMMA ZTypes ==
  ASSUME NEW q \in ZRecords
  PROVE  /\ q.base \in Nat /\ q.yield \in YIELDS /\ q.fed \in Nat /\ q.consumed \in Nat
         /\ q.in \in Bytes /\ q.out \in Bytes /\ q.whole \in BOOLEAN /\ q.sound \in BOOLEAN
         /\ q.lost \in BOOLEAN /\ q.error \in BOOLEAN /\ q.eof \in BOOLEAN
         /\ Len(q.in) \in Nat /\ Len(q.out) \in Nat
BY DEF ZRecords, Bytes

LEMMA YieldFacts ==
  ASSUME NEW q \in ZRecords
  PROVE  /\ Len(q.yield) \in Nat \ {0}
         /\ \A i \in 0..Len(q.yield) : YieldOf(q, i) \in Nat
         /\ \A i, j \in 0..Len(q.yield) : i <= j => YieldOf(q, i) <= YieldOf(q, j)
<1>1. PICK y : y = q.yield
  OBVIOUS
<1>2. y \in YIELDS
  BY <1>1, ZTypes
<1>3. y \in Seq(Nat) /\ y # <<>> /\ \A i, j \in 1..Len(y) : i <= j => y[i] <= y[j]
  BY <1>2, YieldsAssumption
<1>4. Len(y) \in Nat \ {0} /\ \A i \in 1..Len(y) : y[i] \in Nat
  BY <1>3
<1>5. \A i \in 0..Len(y) : YieldOf(q, i) \in Nat
  BY <1>1, <1>4 DEF YieldOf
<1>6. \A i, j \in 0..Len(y) : i <= j => YieldOf(q, i) <= YieldOf(q, j)
  BY <1>1, <1>3, <1>4, <1>5 DEF YieldOf
<1> QED
  BY <1>1, <1>4, <1>5, <1>6

LEMMA RubbishFacts ==
  ASSUME ZShape(z), NEW in \in Bytes, NEW right \in Seq(Nat), Len(right) <= Room,
         NEW o \in Rubbish(in, right)
  PROVE  /\ o.used = Len(in) /\ o.items \in Bytes
         /\ Len(z.out) + Len(o.items) <= Z_OUT_BUF
         /\ \A i \in 1..Len(o.items) :
              (i <= Len(right) /\ o.items[i] = right[i]) \/ o.items[i] = Junk
<1>1. z \in ZRecords /\ Len(z.out) <= Z_OUT_BUF /\ Len(z.out) \in Nat /\ Z_OUT_BUF \in Nat
  BY ZTypes, SizesAssumption DEF ZShape
<1>2. Room \in Nat /\ Len(z.out) + Room = Z_OUT_BUF
  BY <1>1 DEF Room
<1>3. PICK j \in 0..Room - Len(right) :
        o.used = Len(in) /\ o.items = right \o [i \in 1..j |-> Junk]
  <2>1. PICK j \in 0..Room - Len(right), s \in {"failed", "done", "output", "input"} :
          o = Outcome(Len(in), right \o [i \in 1..j |-> Junk], s)
    <3>1. o \in {Outcome(Len(in), right \o [i \in 1..j |-> Junk], s) :
                   j \in 0..Room - Len(right), s \in {"failed", "done", "output", "input"}}
      BY DEF Rubbish
    <3> QED
      BY <3>1, SMTT(30)
  <2> QED
    BY <2>1 DEF Outcome
<1> DEFINE junk == [i \in 1..j |-> Junk]
<1>4. junk \in Bytes /\ Len(junk) = j /\ (\A i \in 1..j : junk[i] = Junk) /\ j \in Nat
  BY <1>2, <1>3 DEF Bytes
<1>5. right \in Bytes /\ Len(right) \in Nat
  BY DEF Bytes
<1> HIDE DEF junk
<1>6. /\ right \o junk \in Bytes /\ Len(right \o junk) = Len(right) + j
      /\ \A i \in 1..Len(right) : (right \o junk)[i] = right[i]
      /\ \A i \in 1..j : (right \o junk)[Len(right) + i] = Junk
  <2>1. right \in Seq(Nat \cup {Junk}) /\ junk \in Seq(Nat \cup {Junk})
    BY <1>4, <1>5 DEF Bytes
  <2>2. /\ right \o junk \in Seq(Nat \cup {Junk}) /\ Len(right \o junk) = Len(right) + Len(junk)
        /\ \A i \in 1..Len(right) : (right \o junk)[i] = right[i]
        /\ \A i \in 1..Len(junk) : (right \o junk)[Len(right) + i] = junk[i]
    BY <2>1, ConcatFacts
  <2> QED
    BY <1>4, <2>2 DEF Bytes
<1>7. o.items = right \o junk
  BY <1>3 DEF junk
<1>8. ASSUME NEW i \in 1..Len(right) + j, ~(i <= Len(right)) PROVE o.items[i] = Junk
  <2>1. i - Len(right) \in 1..j /\ Len(right) + (i - Len(right)) = i
    BY <1>4, <1>5, <1>8
  <2> QED
    BY <1>6, <1>7, <2>1
<1>9. Len(o.items) = Len(right) + j
  BY <1>6, <1>7
<1>10. Len(z.out) + Len(o.items) <= Z_OUT_BUF
  <2>1. Len(right) \in Nat /\ j \in Nat /\ j <= Room - Len(right)
    BY <1>2, <1>3, <1>5
  <2>2. Len(right) + j <= Room
    BY <1>2, <2>1
  <2>3. Len(z.out) + (Len(right) + j) <= Z_OUT_BUF
    <3>1. \A a, b, c, d \in Nat : a + b = c /\ d <= b => a + d <= c
      OBVIOUS
    <3>2. Len(right) + j \in Nat /\ Len(z.out) \in Nat /\ Z_OUT_BUF \in Nat
      BY <1>1, <2>1
    <3> QED
      BY <1>2, <2>2, <3>1, <3>2
  <2> QED
    BY <1>9, <2>3
<1>11. ASSUME NEW i \in 1..Len(o.items)
       PROVE  (i <= Len(right) /\ o.items[i] = right[i]) \/ o.items[i] = Junk
  BY <1>4, <1>5, <1>6, <1>7, <1>8, <1>9
<1> QED
  BY <1>3, <1>6, <1>7, <1>10, <1>11

\* What tinfl_decompress does with its input, which is right while z is sound.
OutcomeOK(in, o) ==
  LET good == z.sound /\ ~Starved(in) IN
  /\ o.used \in 0..Len(in) /\ o.items \in Bytes
  /\ Len(z.out) + Len(o.items) <= Z_OUT_BUF
  /\ z.sound => z.fed + o.used <= Codes
  /\ \A i \in 1..Len(o.items) :
       o.items[i] = Len(z.out) + i \/ (o.items[i] = Junk /\ ~good)
  /\ good => Len(z.out) + Len(o.items) <= Yield(z.fed + o.used)
  /\ o.status = "failed" => z.lost \/ ~good
  /\ o.status = "done" => (z.lost \/ ~good \/ Len(z.out) + Len(o.items) = Yield(Codes))

LEMMA OutcomeFacts ==
  ASSUME ZShape(z), Made(z), NEW in \in Bytes,
         z.sound => \A i \in 1..Len(in) : in[i] = z.base + z.fed + i,
         NEW o \in Inflated(in)
  PROVE  OutcomeOK(in, o)
<1>1. /\ z \in ZRecords /\ z.fed \in Nat /\ z.fed <= Codes /\ Codes \in Nat
      /\ Len(z.out) \in Nat /\ Z_OUT_BUF \in Nat /\ Len(z.out) <= Z_OUT_BUF
      /\ Len(in) \in Nat /\ z.sound \in BOOLEAN /\ z.lost \in BOOLEAN
  BY ZTypes, YieldFacts, SizesAssumption DEF ZShape, Codes, Bytes
<1>2. Room \in Nat /\ Len(z.out) + Room = Z_OUT_BUF
  BY <1>1 DEF Room
<1>3. /\ \A i \in 0..Codes : Yield(i) \in Nat
      /\ \A i, j \in 0..Codes : i <= j => Yield(i) <= Yield(j)
  BY <1>1, YieldFacts DEF Codes, Yield, YieldOf
<1>4. z.sound => Len(z.out) <= Yield(z.fed)
  BY DEF Made, Yield, YieldOf
<1>5. Right(in) <=> z.sound
  BY DEF Right
<1>6. <<>> \in Seq(Nat) /\ Len(<<>>) = 0 /\ <<>> \in Bytes
  BY DEF Bytes
<1>7. CASE z.lost
  <2>1. o.used = 0 /\ o.items = <<>> /\ o.status = "failed"
    BY <1>7 DEF Inflated, Outcome
  <2>2. z.sound => Len(z.out) + 0 <= Yield(z.fed + 0)
    BY <1>1, <1>3, <1>4
  <2> QED
    BY <1>1, <1>6, <1>7, <2>1, <2>2 DEF OutcomeOK
<1>8. CASE ~z.lost /\ ~z.sound
  <2>1. o \in Rubbish(in, <<>>)
    BY <1>5, <1>8 DEF Inflated
  <2>2. /\ o.used = Len(in) /\ o.items \in Bytes /\ Len(z.out) + Len(o.items) <= Z_OUT_BUF
        /\ \A i \in 1..Len(o.items) : o.items[i] = Junk
    <3>1. PICK right \in Seq(Nat) : right = <<>> /\ Len(right) = 0
      BY <1>6
    <3>2. Len(right) <= Room /\ o \in Rubbish(in, right)
      BY <1>2, <2>1, <3>1
    <3>3. /\ o.used = Len(in) /\ o.items \in Bytes /\ Len(z.out) + Len(o.items) <= Z_OUT_BUF
          /\ \A i \in 1..Len(o.items) :
               (i <= Len(right) /\ o.items[i] = right[i]) \/ o.items[i] = Junk
      BY <3>2, RubbishFacts
    <3>4. \A i \in 1..Len(o.items) : ~(i <= 0)
      <4>1. Len(o.items) \in Nat
        BY <3>3 DEF Bytes
      <4> QED
        BY <4>1
    <3> QED
      BY <3>1, <3>3, <3>4
  <2>5. o.used \in 0..Len(in)
    BY <1>1, <2>2
  <2> QED
    BY <1>8, <2>2, <2>5 DEF OutcomeOK
<1>9. CASE ~z.lost /\ z.sound
  <2> DEFINE fed     == Lesser(z.fed + Len(in), Codes)
             pending == Yield(fed) - Len(z.out)
             made    == Lesser(pending, Room)
             right   == [i \in 1..made |-> Len(z.out) + i]
  <2>1. fed \in Nat /\ fed <= Codes /\ z.fed <= fed /\ fed <= z.fed + Len(in)
        /\ (fed = Codes \/ fed = z.fed + Len(in))
    BY <1>1 DEF Lesser
  <2>2. Yield(fed) \in Nat /\ Yield(z.fed) <= Yield(fed) /\ Len(z.out) <= Yield(z.fed)
        /\ Yield(z.fed) \in Nat
    <3>1. fed \in 0..Codes /\ z.fed \in 0..Codes
      BY <1>1, <2>1
    <3> QED
      BY <1>3, <1>4, <1>9, <2>1, <3>1
  <2> HIDE DEF fed
  <2>3. pending \in Nat /\ Len(z.out) + pending = Yield(fed)
    BY <1>1, <2>2
  <2> HIDE DEF pending
  <2>4. made \in Nat /\ made <= pending /\ made <= Room /\ (pending <= Room => made = pending)
        /\ (pending > Room => made = Room)
    BY <1>2, <2>3 DEF Lesser
  <2> HIDE DEF made
  <2>5. right \in Seq(Nat) /\ Len(right) = made /\ right \in Bytes
        /\ \A i \in 1..made : right[i] = Len(z.out) + i
    <3>1. \A i \in 1..made : Len(z.out) + i \in Nat
      BY <1>1, <2>4
    <3>2. right \in Seq(Nat) /\ Len(right) = made
      BY <2>4, <3>1
    <3> QED
      BY <3>2, PlacesAreBytes
  <2>5a. Len(z.out) + made <= Z_OUT_BUF
    BY <1>1, <1>2, <2>4
  <2>6. CASE pending > Room
    <3>1. PICK i \in {i \in z.fed..fed : Yield(i) > Z_OUT_BUF} : o = Outcome(i - z.fed, right, "output")
      BY <1>5, <1>9, <2>6 DEF Inflated, fed, pending, made
    <3>2. o.used = i - z.fed /\ o.items = right /\ o.status = "output"
      BY <3>1 DEF Outcome
    <3> HIDE DEF right
    <3>3. i \in 0..Codes /\ i - z.fed \in 0..Len(in) /\ z.fed + (i - z.fed) = i
          /\ Yield(i) > Z_OUT_BUF
      BY <1>1, <2>1, <3>1
    <3>4. Len(z.out) + made <= Yield(i)
      <4>1. Yield(i) \in Nat
        BY <1>3, <3>3
      <4> QED
        BY <1>1, <2>4, <2>5a, <3>3, <4>1
    <3>5. o.used \in 0..Len(in) /\ z.fed + o.used = i /\ i <= Codes
      BY <3>2, <3>3
    <3> QED
      BY <2>5, <2>5a, <3>2, <3>4, <3>5 DEF OutcomeOK
  <2>7. CASE pending <= Room /\ fed = Codes
    <3>1. o = Outcome(fed - z.fed, right, "done")
      BY <1>2, <1>5, <1>9, <2>3, <2>7 DEF Inflated, fed, pending, made
    <3>2. o.used = fed - z.fed /\ o.items = right /\ o.status = "done"
      BY <3>1 DEF Outcome
    <3> HIDE DEF right
    <3>3. fed - z.fed \in 0..Len(in) /\ z.fed + (fed - z.fed) = fed /\ fed <= Codes
      BY <1>1, <2>1
    <3>4. Len(z.out) + made = Yield(fed)
      BY <2>3, <2>4, <2>7
    <3>5. Len(z.out) + made <= Yield(fed)
      BY <1>1, <2>2, <2>4, <3>4
    <3> QED
      BY <1>1, <2>5, <2>5a, <2>7, <3>2, <3>3, <3>4, <3>5 DEF OutcomeOK
  <2>8. CASE pending <= Room /\ fed # Codes /\ in # <<>>
    <3>1. o = Outcome(Len(in), right, "input")
      BY <1>2, <1>5, <1>9, <2>3, <2>8 DEF Inflated, fed, pending, made
    <3>2. o.used = Len(in) /\ o.items = right /\ o.status = "input"
      BY <3>1 DEF Outcome
    <3> HIDE DEF right
    <3>3. Len(in) \in 0..Len(in) /\ z.fed + Len(in) = fed /\ fed <= Codes
      BY <1>1, <2>1, <2>8
    <3>4. Len(z.out) + made <= Yield(fed)
      BY <1>1, <2>2, <2>3, <2>4, <2>8
    <3> QED
      BY <1>1, <2>5, <2>5a, <3>2, <3>3, <3>4 DEF OutcomeOK
  <2>9. CASE pending <= Room /\ fed # Codes /\ in = <<>>
    <3>1. o \in Rubbish(in, right)
      BY <1>2, <1>5, <1>9, <2>3, <2>9 DEF Inflated, fed, pending, made
    <3>2. Len(in) = 0 /\ fed = z.fed /\ z.fed < Codes
      <4>1. Len(in) = 0
        BY <1>6, <2>9
      <4> QED
        BY <1>1, <2>1, <2>9, <4>1
    <3>3. Starved(in)
      BY <1>5, <1>9, <2>9, <3>2 DEF Starved, pending
    <3> HIDE DEF right
    <3>4. /\ o.used = Len(in) /\ o.items \in Bytes /\ Len(z.out) + Len(o.items) <= Z_OUT_BUF
          /\ \A i \in 1..Len(o.items) :
               (i <= Len(right) /\ o.items[i] = right[i]) \/ o.items[i] = Junk
      BY <2>4, <2>5, <3>1, RubbishFacts
    <3>5. ASSUME NEW i \in 1..Len(o.items)
          PROVE  o.items[i] = Len(z.out) + i \/ o.items[i] = Junk
      BY <2>4, <2>5, <3>4
    <3>6. o.used \in 0..Len(in) /\ z.fed + o.used <= Codes
      BY <1>1, <3>2, <3>4
    <3> QED
      BY <3>3, <3>4, <3>5, <3>6 DEF OutcomeOK
  <2> QED
    BY <1>2, <2>3, <2>6, <2>7, <2>8, <2>9
<1> QED
  BY <1>1, <1>7, <1>8, <1>9

-----------------------------------------------------------------------------
(* The invariant.                                                          *)

LitRecords == [kind : {"lit"}, len : Nat]
Reads == [asked : Nat, bytes : Bytes]
Calls == [asked : Nat, want : Nat, got : Bytes]

FailedOf(f, q) == f.failed \/ (q # None /\ (~q.whole \/ q.lost))

ZEnd(q) == YieldOf(q, Len(q.yield))

\* The inflating stream: its input is what follows in the file, and whatever went
\* wrong with it, the medium has failed.
ZOK(q, f, e) ==
  /\ ZShape(q) /\ Made(q)
  /\ q.sound => f.pos = q.base + q.fed + Len(q.in)
  /\ q.sound => \A i \in 1..Len(q.in) : q.in[i] = q.base + q.fed + i
  /\ ~f.failed /\ q.whole => q.base + Len(q.yield) <= EndBelow(f, e)
  /\ ~q.sound => FailedOf(f, q)
  /\ q.error => FailedOf(f, q)
  /\ q.eof /\ ~FailedOf(f, q) => q.consumed = ZEnd(q)

\* A read of it: what it has got so far, still wants, and the literal packet has left.
CallOK(c, q, l, d, last_, f) ==
  /\ c \in Calls
  /\ d + Len(c.got) = q.consumed + 1
  /\ \A i \in 1..Len(c.got) : c.got[i] = d + i - 1 \/ (c.got[i] = Junk /\ FailedOf(f, q))
  /\ ~FailedOf(f, q) =>
       last_ = IF l = None THEN ZEnd(q) ELSE Lesser(ZEnd(q), q.consumed + c.want + l.len)
  /\ c # Idle => /\ q.consumed = Len(q.out) /\ c.want > 0
                 /\ Len(c.got) + c.want <= c.asked
                 /\ Len(c.got) + c.want < c.asked => l # None /\ l.len = 0

Settled == hashing \in {"idle", "computed"}

EndPlain(f, e, l, d) ==
  IF l = None THEN EndBelow(f, e) ELSE Lesser(EndBelow(f, e), d - 1 + l.len)

KeyPending ==
  ~Settled => /\ encr.ctx = CfbInit /\ file.pos = encr.base + BLOCK + 2
              /\ z = None /\ lit = None /\ ~file.error

PlainOK ==
  z = None => /\ call = Idle
              /\ Settled => /\ due = file.pos + 1
                            /\ ~file.failed => end = EndPlain(file, encr, lit, due)

ReadTypes ==
  lit \in {None} \cup LitRecords /\ last \in Reads /\ due \in Nat /\ end \in Nat

Inv ==
  /\ S2kInv
  /\ BelowOK(file, encr, hashing)
  /\ KeyPending
  /\ ReadTypes
  /\ PlainOK
  /\ z # None => ZOK(z, file, encr) /\ CallOK(call, z, lit, due, end, file)

LEMMA FailedIs == Failed = FailedOf(file, z) /\ Failed' = FailedOf(file', z')
BY DEF Failed, FailedOf

LEMMA IdleIs ==
  /\ Idle \in Calls /\ Idle.got = <<>> /\ Idle.want = 0 /\ Idle.asked = 0
  /\ Nothing \in Reads /\ <<>> \in Bytes /\ Len(<<>>) = 0
BY DEF Idle, Calls, Nothing, Reads, Bytes

-----------------------------------------------------------------------------
(* The steps of ByteSource.                                                *)

LEMMA SourceFails ==
  ASSUME Failed => Failed'
  PROVE  Source!Fail
<1>1. Failed' \in BOOLEAN
  BY DEF Failed
<1> QED
  BY <1>1 DEF Source!Fail

LEMMA SourceReads ==
  ASSUME NEW n \in Nat, NEW bytes \in Bytes, Return(n, bytes), end' = end,
         Failed => Failed', Len(bytes) <= n,
         \A i \in 1..Len(bytes) : bytes[i] = due + i - 1 \/ (bytes[i] = Junk /\ Failed'),
         ~Failed' => due' - 1 <= end /\ (Len(bytes) < n => due' - 1 = end)
  PROVE  [Source!Next]_(Source!vars) /\ last' \in Reads
<1>1. last' = [asked |-> n, bytes |-> bytes] /\ due' = due + Len(bytes)
  BY DEF Return
<1>2. last' \in Reads /\ last'.bytes = bytes /\ last'.asked = n
  BY <1>1 DEF Reads
<1>3. last' \in [asked : Nat, bytes : Seq(Nat \cup {Junk})]
  BY <1>2 DEF Reads, Bytes
<1>4. Source!Fail
  BY SourceFails
<1>5. Source!InPlace(last'.bytes)
  BY <1>2 DEF Source!InPlace
<1>6. Source!Complete(last')
  BY <1>2 DEF Source!Complete
<1>7. Source!Read
  BY <1>1, <1>2, <1>3, <1>4, <1>5, <1>6 DEF Source!Read
<1> QED
  BY <1>2, <1>7 DEF Source!Next

LEMMA SourceOpens ==
  ASSUME NEW d \in Nat, NEW e \in Nat, Opened(d, e), Failed => Failed'
  PROVE  [Source!Next]_(Source!vars) /\ last' \in Reads /\ due' \in Nat /\ end' \in Nat
<1>1. last' = Source!Nothing /\ due' \in Nat /\ end' \in Nat
  BY DEF Opened, Nothing, Source!Nothing
<1>2. Source!Fail
  BY SourceFails
<1>3. Source!Open
  BY <1>1, <1>2 DEF Source!Open
<1>4. last' \in Reads
  BY IdleIs DEF Opened
<1> QED
  BY <1>1, <1>3, <1>4 DEF Source!Next

LEMMA SourceStays ==
  ASSUME UNCHANGED <<last, due, end>>, Failed => Failed'
  PROVE  [Source!Next]_(Source!vars)
<1>1. Source!Fail
  BY SourceFails
<1> QED
  BY <1>1 DEF Source!Next, Source!vars

-----------------------------------------------------------------------------
(* Opening.                                                                *)

Implemented == Inv' /\ [Source!Next]_(Source!vars)

LEMMA S2kInvNext == Inv /\ [Next]_vars => S2kInv'
BY StreamsS2kStep, S2kStepInv DEF Inv

LEMMA CfbInitType == CfbInit \in CfbContexts /\ CfbInit.n = BLOCK
BY BlockFacts DEF CfbInit, CfbContexts, ZeroIv

LEMMA EncrIs ==
  ASSUME NEW len \in Nat, NEW ctx \in CfbContexts, NEW base \in Nat
  PROVE  LET e == [kind |-> "encr", len |-> len, ctx |-> ctx, base |-> base]
         IN e \in EncrRecords /\ e # None
<1> DEFINE e == [kind |-> "encr", len |-> len, ctx |-> ctx, base |-> base]
<1>1. e \in EncrRecords
  BY DEF EncrRecords
<1>2. e.kind = "encr" /\ None.kind = "none"
  BY DEF None
<1> QED
  BY <1>1, <1>2

LEMMA StepOpenEncr == ASSUME Inv, OpenEncr PROVE Implemented
<1>1. /\ hashing = "idle" /\ hashing' = "passes" /\ encr = None /\ z = None /\ lit = None
      /\ UNCHANGED <<z, lit, call, last, due, end>>
  BY DEF OpenEncr, ComputeKey
<1>2. PICK r \in FileReads(BLOCK + 2), len \in PACKET_LENS :
        /\ r.count = BLOCK + 2 /\ file' = FileAfter(r)
        /\ encr' = [kind |-> "encr", len |-> len, ctx |-> CfbInit, base |-> file.pos]
  BY DEF OpenEncr
<1>3. file \in FileRecords /\ file.pos <= file.size /\ file.pos \in Nat
  BY DEF Inv, BelowOK, FileRecords
<1>4. /\ file.pos + r.count <= file.size /\ r.error \in BOOLEAN /\ r.failed \in BOOLEAN
      /\ ~r.error /\ ~file.error
  <2>1. BLOCK + 2 \in Nat \ {0}
    BY BlockFacts
  <2> QED
    BY <1>2, <1>3, <2>1, FileReadsFacts
<1>5. /\ file' \in FileRecords /\ file'.size = file.size /\ file'.pos = file.pos + BLOCK + 2
      /\ file'.error = r.error /\ file'.pos <= file'.size
      /\ file.failed => file'.failed
  <2>1. r.count \in Nat /\ file.pos + r.count = file.pos + BLOCK + 2
    BY <1>2, <1>3, BlockFacts
  <2>2. FileAfter(r).size = file.size /\ FileAfter(r).pos = file.pos + r.count
        /\ FileAfter(r).error = r.error /\ FileAfter(r) \in FileRecords
        /\ (FileAfter(r).failed <=> (file.failed \/ r.failed))
    BY <1>3, <1>4, <2>1, FileAfterFacts
  <2> QED
    BY <1>2, <1>4, <2>1, <2>2
<1>6. len \in Nat
  BY SizesAssumption
<1>7. encr' \in EncrRecords /\ encr' # None
  BY <1>2, <1>3, <1>6, CfbInitType, EncrIs
<1>8. BelowOK(file', encr', hashing')
  BY <1>1, <1>4, <1>5, <1>7 DEF BelowOK
<1>9. encr'.ctx = CfbInit /\ encr'.base = file.pos
  BY <1>2
<1>10. KeyPending'
  BY <1>1, <1>4, <1>5, <1>9 DEF KeyPending
<1>11. PlainOK' /\ ReadTypes'
  BY <1>1 DEF Inv, PlainOK, ReadTypes, Settled
<1>12. S2kInv'
  BY S2kInvNext DEF Next
<1>13. Inv'
  BY <1>1, <1>8, <1>10, <1>11, <1>12 DEF Inv
<1>14. Failed => Failed'
  BY <1>1, <1>5 DEF Failed
<1> QED
  BY <1>1, <1>13, <1>14, SourceStays DEF Implemented

LEMMA StepHash == ASSUME Inv, Hash PROVE Implemented
<1>1. /\ hashing \notin {"idle", "computed"} /\ hashing' \notin {"idle", "computed"}
      /\ UNCHANGED <<file, encr, z, lit, call, last, due, end>>
  BY DEF Hash, HashKey, Pass, Rest, FinishHash, streamVars
<1>2. BelowOK(file', encr', hashing')
  BY <1>1 DEF Inv, BelowOK
<1>3. KeyPending' /\ PlainOK' /\ ReadTypes' /\ z' = None
  BY <1>1 DEF Inv, KeyPending, PlainOK, ReadTypes, Settled
<1>4. S2kInv'
  BY S2kInvNext DEF Next
<1>5. Inv'
  BY <1>2, <1>3, <1>4 DEF Inv
<1>6. Failed => Failed'
  BY <1>1 DEF Failed
<1> QED
  BY <1>1, <1>5, <1>6, SourceStays DEF Implemented

LEMMA StepCheckKey == ASSUME Inv, CheckKey PROVE Implemented
<1>1. /\ hashing = "done" /\ hashing' = "computed" /\ UNCHANGED <<file, z, lit, call>>
      /\ Opened(file.pos + 1, Lesser(file.size, file.pos + encr.len))
      /\ encr' = [encr EXCEPT !.base = file.pos,
                              !.ctx = Reinit(Afterwards(@, Prefix), BlockAt(Prefix, 2))]
  BY DEF CheckKey, KeyComputed
<1>2. /\ encr.ctx = CfbInit /\ file.pos = encr.base + BLOCK + 2 /\ z = None /\ lit = None
      /\ ~file.error
  BY <1>1 DEF Inv, KeyPending, Settled
<1>3. /\ file \in FileRecords /\ file.pos <= file.size /\ file.pos \in Nat /\ file.size \in Nat
      /\ encr \in EncrRecords /\ encr # None /\ encr.len \in Nat /\ encr.base \in Nat
  BY <1>1 DEF Inv, BelowOK, FileRecords, EncrRecords
<1> DEFINE old == Afterwards(CfbInit, Prefix)
           iv == BlockAt(Prefix, 2)
           ctx == Reinit(old, iv)
<1>4. Prefix \in Seq(Nat)
  BY <1>3, BlockFacts DEF Prefix
<1>5. old \in CfbContexts
  BY <1>4, CfbInitType, AfterwardsType
<1>6. iv \in [Offsets -> Nat] /\ \A k \in Offsets : iv[k] = file.pos - BLOCK + k + 1
  <2>1. ASSUME NEW k \in Offsets PROVE Prefix[2 + k + 1] = file.pos - BLOCK + k + 1
    <3>1. 2 + k + 1 \in 1..BLOCK + 2
      BY BlockFacts DEF Offsets
    <3>2. Prefix[2 + k + 1] = encr.base + (2 + k + 1)
      BY <3>1 DEF Prefix
    <3> QED
      BY <1>2, <1>3, <3>2, BlockFacts DEF Offsets
  <2>2. \A k \in Offsets : file.pos - BLOCK + k + 1 \in Nat
    BY <1>2, <1>3, BlockFacts DEF Offsets
  <2> QED
    BY <2>1, <2>2 DEF BlockAt
<1>7. ctx = [fr |-> iv, fre |-> old.fre, n |-> BLOCK] /\ old.fre \in [Offsets -> Nat]
  BY <1>5 DEF Reinit, CfbContexts
<1> HIDE DEF old, iv
<1>8. ctx \in CfbContexts /\ CfbInv(ctx, file.pos, file.pos)
  <2>1. PICK q \in Int : q = file.pos - BLOCK
    BY <1>3, BlockFacts
  <2>2. PICK p \in Nat : p = file.pos
    BY <1>3
  <2>3. PICK n \in 1..BLOCK : n = BLOCK
    BY BlockFacts
  <2>3a. PICK b \in Nat : b = 0
    OBVIOUS
  <2>4. q = p - n /\ q + BLOCK = p + BLOCK * b /\ (n < BLOCK => b > 0)
    BY <2>1, <2>2, <2>3, <2>3a, BlockFacts
  <2>5. \A k \in Offsets : iv[k] = IF k < n THEN q + k + 1 ELSE q - BLOCK + k + 1
    BY <1>3, <1>6, <2>1, <2>3, BlockFacts DEF Offsets
  <2>6. n < BLOCK => \A k \in Offsets : old.fre[k] = q - BLOCK + k + 1
    BY <2>3, BlockFacts
  <2>7. CfbInv([fr |-> iv, fre |-> old.fre, n |-> n], p, p)
    BY <1>6, <1>7, <2>4, <2>5, <2>6, CfbIntro
  <2>8. CfbInv(ctx, file.pos, file.pos)
    BY <1>7, <2>2, <2>3, <2>7
  <2> QED
    BY <2>8 DEF CfbInv
<1> HIDE DEF ctx
<1>9. encr' = [kind |-> "encr", len |-> encr.len, ctx |-> ctx, base |-> file.pos]
  BY <1>1, <1>2, <1>3 DEF EncrRecords, ctx, old, iv
<1>10. encr' \in EncrRecords /\ encr' # None
  BY <1>3, <1>8, <1>9, EncrIs
<1>11. encr'.ctx = ctx /\ encr'.base = file.pos /\ encr'.len = encr.len
  BY <1>9
<1>12. BelowOK(file', encr', hashing')
  BY <1>1, <1>2, <1>3, <1>8, <1>10, <1>11 DEF BelowOK
<1>13. file.pos + 1 \in Nat /\ Lesser(file.size, file.pos + encr.len) \in Nat
  BY <1>3 DEF Lesser
<1>14. Failed => Failed'
  BY <1>1 DEF Failed
<1>15. [Source!Next]_(Source!vars) /\ last' \in Reads /\ due' \in Nat /\ end' \in Nat
  BY <1>1, <1>13, <1>14, SourceOpens
<1>16. due' = file'.pos + 1 /\ end' = EndPlain(file', encr', lit', due')
  BY <1>1, <1>2, <1>10, <1>11 DEF Opened, EndPlain, EndBelow
<1>17. KeyPending' /\ PlainOK' /\ ReadTypes'
  BY <1>1, <1>2, <1>15, <1>16 DEF Inv, KeyPending, PlainOK, ReadTypes, Settled
<1>18. S2kInv'
  BY S2kInvNext DEF Next
<1>19. Inv'
  BY <1>1, <1>2, <1>12, <1>17, <1>18 DEF Inv
<1> QED
  BY <1>15, <1>19 DEF Implemented

\* Between two reads of the inflating stream.
LEMMA IdleCall ==
  ASSUME NEW q, q.consumed \in Nat, NEW l \in {None} \cup LitRecords, NEW d, NEW e, NEW f
  PROVE  CallOK(Idle, q, l, d, e, f) <=>
           /\ d + 0 = q.consumed + 1
           /\ ~FailedOf(f, q) =>
                e = IF l = None THEN ZEnd(q) ELSE Lesser(ZEnd(q), q.consumed + l.len)
<1>1. l # None => q.consumed + 0 + l.len = q.consumed + l.len
  <2>1. l # None => l.len \in Nat
    BY DEF LitRecords
  <2> QED
    BY <2>1
<1>2. (q.consumed + Idle.want + l.len) = (q.consumed + 0 + l.len) /\ Len(Idle.got) = 0
  BY IdleIs
<1>3. \A i \in 1..Len(Idle.got) : FALSE
  BY IdleIs
<1>4. CallOK(Idle, q, l, d, e, f) <=>
           /\ d + Len(Idle.got) = q.consumed + 1
           /\ ~FailedOf(f, q) =>
                e = IF l = None THEN ZEnd(q)
                    ELSE Lesser(ZEnd(q), q.consumed + Idle.want + l.len)
  BY <1>3, IdleIs, Zenon DEF CallOK
<1> QED
  BY <1>1, <1>2, <1>4

LEMMA LitIs ==
  ASSUME NEW n \in Nat
  PROVE  LET l == [kind |-> "lit", len |-> n] IN l \in LitRecords /\ l # None /\ l.len = n
<1> DEFINE l == [kind |-> "lit", len |-> n]
<1>1. l \in LitRecords /\ l.len = n
  BY DEF LitRecords
<1>2. l.kind = "lit" /\ None.kind = "none"
  BY DEF None
<1> QED
  BY <1>1, <1>2

LEMMA StepOpenZ == ASSUME Inv, OpenZ PROVE Implemented
<1>1. /\ call = Idle /\ Settled /\ z = None /\ lit = None
      /\ UNCHANGED <<phrase, count, passes, sha, hashing, lit, call>>
  BY DEF OpenZ, Reading, Settled, s2kVars
<1>2. PICK r \in BelowReads(1), y \in YIELDS :
        /\ Len(r.bytes) = 1 /\ file' = r.file /\ encr' = r.encr
        /\ z' = [kind |-> "z", base |-> r.file.pos, yield |-> y, fed |-> 0,
                 whole |-> r.file.pos + Len(y) <= end,
                 sound |-> TRUE, lost |-> FALSE, in |-> <<>>, out |-> <<>>,
                 consumed |-> 0, error |-> FALSE, eof |-> FALSE]
        /\ Opened(1, y[Len(y)])
  BY DEF OpenZ
<1>3. BelowOK(file, encr, hashing) /\ hashing \in {"idle", "computed"}
  BY <1>1 DEF Inv, Settled
<1>4. ReadBelow(1, r)
  <2>1. 1 \in Nat \ {0}
    OBVIOUS
  <2> QED
    BY <1>3, <2>1, BelowFacts
<1>5. /\ r.file \in FileRecords /\ BelowOK(file', encr', hashing')
      /\ ~r.file.failed => EndBelow(r.file, r.encr) = EndBelow(file, encr)
      /\ file.failed => r.file.failed
      /\ r.file.pos \in Nat
  <2>1. /\ r.file \in FileRecords /\ (file.failed => r.file.failed)
        /\ ~r.file.failed => EndBelow(r.file, r.encr) = EndBelow(file, encr)
        /\ BelowOK(r.file, r.encr, hashing)
    BY <1>4 DEF ReadBelow
  <2>2. BelowOK(file', encr', hashing')
    BY <1>1, <1>2, <2>1
  <2>3. r.file.pos \in Nat
    BY <2>1 DEF FileRecords
  <2> QED
    BY <2>1, <2>2, <2>3
<1>6. y \in Seq(Nat) /\ Len(y) \in Nat \ {0} /\ y[Len(y)] \in Nat
  BY YieldsAssumption
<1> DEFINE w == r.file.pos + Len(y) <= end
<1>7. w \in BOOLEAN
  OBVIOUS
<1> HIDE DEF w
<1>8. z' = [kind |-> "z", base |-> r.file.pos, yield |-> y, fed |-> 0, whole |-> w,
            sound |-> TRUE, lost |-> FALSE, in |-> <<>>, out |-> <<>>,
            consumed |-> 0, error |-> FALSE, eof |-> FALSE]
  BY <1>2 DEF w
<1>9. /\ z'.kind = "z" /\ z'.base = r.file.pos /\ z'.yield = y /\ z'.fed = 0 /\ z'.whole = w
      /\ z'.sound = TRUE /\ z'.lost = FALSE /\ z'.in = <<>> /\ z'.out = <<>>
      /\ z'.consumed = 0 /\ z'.error = FALSE /\ z'.eof = FALSE
  BY <1>8
<1>10. z' \in ZRecords /\ z' # None
  <2>1. z' \in ZRecords
    BY <1>5, <1>7, <1>8, IdleIs DEF ZRecords
  <2>2. None.kind = "none"
    BY DEF None
  <2> QED
    BY <1>9, <2>1, <2>2
<1>11. ZShape(z') /\ Made(z')
  <2>1. ZShape(z')
    BY <1>6, <1>9, <1>10, IdleIs, SizesAssumption DEF ZShape
  <2>2. Made(z')
    BY <1>9, IdleIs DEF Made, YieldOf
  <2> QED
    BY <2>1, <2>2
<1>12. ~file'.failed /\ z'.whole => z'.base + Len(z'.yield) <= EndBelow(file', encr')
  <2>1. ~file.failed => end = EndBelow(file, encr)
    BY <1>1 DEF Inv, PlainOK, EndPlain
  <2> QED
    BY <1>2, <1>5, <1>9, <2>1 DEF w
<1>13. ZOK(z', file', encr')
  <2>1. file'.pos = z'.base + z'.fed + Len(z'.in)
    BY <1>2, <1>5, <1>9, IdleIs
  <2>2. \A i \in 1..Len(z'.in) : z'.in[i] = z'.base + z'.fed + i
    BY <1>9, IdleIs
  <2> QED
    BY <1>9, <1>11, <1>12, <2>1, <2>2 DEF ZOK
<1>14. Failed => Failed'
  BY <1>1, <1>2, <1>5 DEF Failed
<1>15. [Source!Next]_(Source!vars) /\ last' \in Reads /\ due' \in Nat /\ end' \in Nat
  <2>1. 1 \in Nat
    OBVIOUS
  <2> QED
    BY <1>2, <1>6, <1>14, <2>1, SourceOpens
<1>16. CallOK(call', z', lit', due', end', file')
  <2>1. due' = 1 /\ end' = y[Len(y)] /\ ZEnd(z') = y[Len(y)]
    BY <1>2, <1>6, <1>9 DEF Opened, ZEnd, YieldOf
  <2>2. lit' \in {None} \cup LitRecords /\ lit' = None /\ call' = Idle
    BY <1>1
  <2>3. CallOK(Idle, z', lit', due', end', file')
    <3>1. due' + 0 = z'.consumed + 1 /\ z'.consumed \in Nat
      BY <1>9, <2>1
    <3> QED
      BY <2>1, <2>2, <3>1, IdleCall
  <2> QED
    BY <2>2, <2>3
<1>17. KeyPending' /\ PlainOK' /\ ReadTypes'
  BY <1>1, <1>10, <1>15 DEF KeyPending, PlainOK, ReadTypes, Settled
<1>18. S2kInv'
  BY S2kInvNext DEF Next
<1>19. Inv'
  BY <1>5, <1>13, <1>16, <1>17, <1>18 DEF Inv
<1> QED
  BY <1>15, <1>19 DEF Implemented

LEMMA StepOpenLit == ASSUME Inv, OpenLit PROVE Implemented
<1>1. /\ call = Idle /\ Settled /\ lit = None
      /\ UNCHANGED <<phrase, count, passes, sha, hashing, file, encr, z, call>>
  BY DEF OpenLit, Reading, Settled, s2kVars
<1>2. PICK len \in TEXT_LENS :
        lit' = [kind |-> "lit", len |-> len] /\ Opened(due, Lesser(end, due - 1 + len))
  BY DEF OpenLit
<1>3. len \in Nat /\ due \in Nat /\ end \in Nat
  BY SizesAssumption DEF Inv, ReadTypes
<1>4. lit' \in LitRecords /\ lit' # None /\ lit'.len = len
  BY <1>2, <1>3, LitIs
<1>5. z # None => z.consumed \in Nat /\ due + 0 = z.consumed + 1
                  /\ (~FailedOf(file, z) => end = ZEnd(z))
  <2>1. SUFFICES ASSUME z # None PROVE z.consumed \in Nat /\ due + 0 = z.consumed + 1
                  /\ (~FailedOf(file, z) => end = ZEnd(z))
    OBVIOUS
  <2>2. ZOK(z, file, encr) /\ CallOK(Idle, z, None, due, end, file)
    BY <1>1, <2>1 DEF Inv
  <2>3. z.consumed \in Nat
    BY <2>2, ZTypes DEF ZOK, ZShape
  <2> QED
    BY <2>2, <2>3, IdleCall
<1>6. z = None => due = file.pos + 1 /\ file.pos \in Nat
  BY <1>1 DEF Inv, PlainOK, BelowOK, FileRecords
<1>7. due - 1 \in Nat
  BY <1>3, <1>5, <1>6
<1>8. Lesser(end, due - 1 + len) \in Nat
  BY <1>3, <1>7 DEF Lesser
<1>9. Failed => Failed'
  BY <1>1 DEF Failed
<1>10. [Source!Next]_(Source!vars) /\ last' \in Reads /\ due' \in Nat /\ end' \in Nat
  BY <1>2, <1>3, <1>8, <1>9, SourceOpens
<1>11. due' = due /\ end' = Lesser(end, due - 1 + len)
  BY <1>2 DEF Opened
<1>12. PlainOK'
  <2> SUFFICES ASSUME z = None PROVE PlainOK'
    BY <1>1 DEF PlainOK
  <2>1. ~file.failed => end = EndBelow(file, encr)
    BY <1>1 DEF Inv, PlainOK, EndPlain
  <2>2. ~file.failed => end' = EndPlain(file, encr, lit', due')
    BY <1>4, <1>11, <2>1 DEF EndPlain
  <2> QED
    BY <1>1, <1>6, <1>11, <2>2 DEF PlainOK, Settled
<1>13. z # None => ZOK(z', file', encr') /\ CallOK(call', z', lit', due', end', file')
  <2> SUFFICES ASSUME z # None
               PROVE  ZOK(z, file, encr) /\ CallOK(Idle, z, lit', due', end', file)
    BY <1>1
  <2>1. due - 1 = z.consumed
    BY <1>3, <1>5
  <2>2. ~FailedOf(file, z) => end' = Lesser(ZEnd(z), z.consumed + lit'.len)
    BY <1>4, <1>5, <1>11, <2>1
  <2>3. CallOK(Idle, z, lit', due', end', file)
    BY <1>4, <1>5, <1>11, <2>2, IdleCall
  <2> QED
    BY <2>3 DEF Inv
<1>14. KeyPending' /\ ReadTypes' /\ BelowOK(file', encr', hashing')
  BY <1>1, <1>4, <1>10 DEF Inv, KeyPending, ReadTypes, Settled
<1>15. S2kInv'
  BY S2kInvNext DEF Next
<1>16. Inv'
  BY <1>1, <1>12, <1>13, <1>14, <1>15 DEF Inv
<1> QED
  BY <1>10, <1>16 DEF Implemented

-----------------------------------------------------------------------------
(* Reading without the inflating stream.                                   *)

\* How much a read asks the streams below for, and what is left of the packet.
LEMMA LitFacts ==
  ASSUME lit \in {None} \cup LitRecords, ~LitEnded, NEW n \in READ_SIZES
  PROVE  /\ n \in Nat \ {0} /\ LitAsked(n) \in Nat \ {0} /\ LitAsked(n) <= n
         /\ LitAfter(n) \in {None} \cup LitRecords
         /\ lit = None <=> LitAfter(n) = None
         /\ lit = None => LitAsked(n) = n
         /\ lit # None => /\ lit.len \in Nat /\ LitAsked(n) <= lit.len
                          /\ LitAfter(n).len = lit.len - LitAsked(n)
                          /\ LitAsked(n) < n => LitAsked(n) = lit.len
<1>1. n \in Nat \ {0}
  BY SizesAssumption
<1>2. CASE lit = None
  BY <1>1, <1>2 DEF LitAsked, LitAfter
<1>3. CASE lit # None
  <2>1. lit \in LitRecords /\ lit.len \in Nat \ {0}
    BY <1>3 DEF LitRecords, LitEnded
  <2>2. LitAsked(n) = Lesser(n, lit.len)
    BY <1>3 DEF LitAsked
  <2>3. LitAsked(n) \in Nat \ {0} /\ LitAsked(n) <= n /\ LitAsked(n) <= lit.len
        /\ (LitAsked(n) < n => LitAsked(n) = lit.len)
    BY <1>1, <2>1, <2>2 DEF Lesser
  <2>4. PICK m \in Nat : m = lit.len - LitAsked(n)
    BY <2>1, <2>3
  <2>5. LitAfter(n) = [kind |-> "lit", len |-> m]
    BY <1>3, <2>1, <2>4 DEF LitAfter, LitRecords
  <2>6. LitAfter(n) \in LitRecords /\ LitAfter(n) # None /\ LitAfter(n).len = m
    BY <2>5, LitIs
  <2> QED
    BY <1>1, <1>3, <2>1, <2>3, <2>4, <2>6
<1> QED
  BY <1>2, <1>3

LEMMA StepReadNothing == ASSUME Inv, ReadNothing PROVE Implemented
<1>1. /\ call = Idle /\ Settled /\ Refused
      /\ UNCHANGED <<phrase, count, passes, sha, hashing, file, encr, z, lit, call, end>>
  BY DEF ReadNothing, Reading, Settled, s2kVars
<1>2. PICK n \in READ_SIZES : Return(n, <<>>)
  BY DEF ReadNothing
<1>3. n \in Nat /\ due \in Nat /\ end \in Nat /\ lit \in {None} \cup LitRecords
  BY SizesAssumption DEF Inv, ReadTypes
<1>4. due' = due
  BY <1>2, <1>3, IdleIs DEF Return
<1>5. Failed' <=> Failed
  BY <1>1 DEF Failed
<1>6. ~Failed => due - 1 = end
  <2>1. CASE z = None
    <3>1. due = file.pos + 1 /\ (~file.failed => end = EndPlain(file, encr, lit, due))
      BY <1>1, <2>1 DEF Inv, PlainOK
    <3>2. /\ file.pos \in Nat /\ file.size \in Nat /\ file.pos <= file.size
          /\ encr # None => encr.len \in Nat
      BY DEF Inv, BelowOK, FileRecords, EncrRecords
    <3>3. lit # None => lit.len \in Nat
      BY <1>3 DEF LitRecords
    <3>4. EndBelow(file, encr) \in Nat /\ file.pos <= EndBelow(file, encr)
      BY <3>2 DEF EndBelow, Lesser
    <3>5. CASE LitEnded
      BY <3>1, <3>2, <3>4, <3>5, <2>1 DEF Failed, LitEnded, EndPlain, Lesser
    <3>6. CASE file.error
      BY <3>6 DEF Inv, BelowOK, Failed
    <3>7. CASE BelowEnded
      <4>1. EndBelow(file, encr) = file.pos
        BY <3>2, <3>7 DEF BelowEnded, FileEnded, EndBelow, Lesser
      <4> QED
        BY <2>1, <3>1, <3>2, <3>3, <4>1 DEF Failed, EndPlain, Lesser
    <3> QED
      BY <1>1, <2>1, <3>5, <3>6, <3>7 DEF Refused
  <2>2. CASE z # None
    <3>1. ZOK(z, file, encr) /\ CallOK(Idle, z, lit, due, end, file)
      BY <1>1, <2>2 DEF Inv
    <3>2. /\ z \in ZRecords /\ z.consumed \in Nat /\ z.fed \in Nat /\ z.fed <= Len(z.yield)
          /\ z.consumed <= Len(z.out) /\ Len(z.out) \in Nat
      BY <3>1, ZTypes DEF ZOK, ZShape
    <3>3. ZEnd(z) \in Nat /\ YieldOf(z, z.fed) \in Nat /\ YieldOf(z, z.fed) <= ZEnd(z)
      <4>1. Len(z.yield) \in Nat /\ z.fed \in 0..Len(z.yield) /\ Len(z.yield) \in 0..Len(z.yield)
        BY <3>2, YieldFacts
      <4> QED
        BY <3>2, <4>1, YieldFacts DEF ZEnd
    <3>4. due + 0 = z.consumed + 1 /\
          (~FailedOf(file, z) =>
             end = IF lit = None THEN ZEnd(z) ELSE Lesser(ZEnd(z), z.consumed + lit.len))
      BY <1>3, <3>1, <3>2, IdleCall
    <3>5. ~FailedOf(file, z) => z.consumed <= ZEnd(z)
      <4>1. ~FailedOf(file, z) => z.sound
        BY <3>1 DEF ZOK
      <4>2. z.sound => Len(z.out) <= YieldOf(z, z.fed)
        BY <3>1 DEF ZOK, Made
      <4> QED
        BY <3>2, <3>3, <4>1, <4>2
    <3>6. lit # None => lit.len \in Nat
      BY <1>3 DEF LitRecords
    <3>7. CASE LitEnded
      BY <1>3, <3>2, <3>3, <3>4, <3>5, <3>7, FailedIs DEF LitEnded, Lesser
    <3>8. CASE file.error
      BY <3>8 DEF Inv, BelowOK, Failed
    <3>9. CASE z.eof
      <4>1. ~FailedOf(file, z) => z.consumed = ZEnd(z)
        BY <3>1, <3>9 DEF ZOK
      <4> QED
        BY <1>3, <3>2, <3>3, <3>4, <3>6, <4>1, FailedIs DEF Lesser
    <3>10. CASE z.error
      BY <3>1, <3>10, FailedIs DEF ZOK
    <3> QED
      BY <1>1, <2>2, <3>7, <3>8, <3>9, <3>10 DEF Refused
  <2> QED
    BY <2>1, <2>2
<1>7. [Source!Next]_(Source!vars) /\ last' \in Reads
  <2>1. PICK bytes \in Bytes : bytes = <<>> /\ Len(bytes) = 0
    BY IdleIs
  <2>2. /\ Return(n, bytes) /\ end' = end /\ (Failed => Failed') /\ Len(bytes) <= n
        /\ \A i \in 1..Len(bytes) : bytes[i] = due + i - 1 \/ (bytes[i] = Junk /\ Failed')
        /\ ~Failed' => due' - 1 <= end /\ (Len(bytes) < n => due' - 1 = end)
    BY <1>1, <1>2, <1>3, <1>4, <1>5, <1>6, <2>1
  <2> QED
    BY <1>3, <2>2, SourceReads
<1>8. KeyPending' /\ PlainOK' /\ ReadTypes' /\ BelowOK(file', encr', hashing')
  BY <1>1, <1>4, <1>7 DEF Inv, KeyPending, PlainOK, ReadTypes, Settled
<1>9. S2kInv'
  BY S2kInvNext DEF Next
<1>10. Inv'
  BY <1>1, <1>4, <1>8, <1>9 DEF Inv
<1> QED
  BY <1>7, <1>10 DEF Implemented

LEMMA StepReadThrough == ASSUME Inv, ReadThrough PROVE Implemented
<1>1. /\ call = Idle /\ Settled /\ z = None /\ ~LitEnded
      /\ UNCHANGED <<phrase, count, passes, sha, hashing, z, call, end>>
  BY DEF ReadThrough, Reading, Refused, Settled, s2kVars
<1>2. PICK n \in READ_SIZES : \E r \in BelowReads(LitAsked(n)) :
        /\ lit' = LitAfter(n) /\ file' = r.file /\ encr' = r.encr /\ Return(n, r.bytes)
  BY DEF ReadThrough
<1>3. PICK r \in BelowReads(LitAsked(n)) :
        /\ lit' = LitAfter(n) /\ file' = r.file /\ encr' = r.encr /\ Return(n, r.bytes)
  BY <1>2
<1>4. lit \in {None} \cup LitRecords /\ due \in Nat /\ end \in Nat
  BY DEF Inv, ReadTypes
<1>5. /\ n \in Nat \ {0} /\ LitAsked(n) \in Nat \ {0} /\ LitAsked(n) <= n
      /\ lit' \in {None} \cup LitRecords
      /\ lit = None <=> lit' = None
      /\ lit = None => LitAsked(n) = n
      /\ lit # None => /\ lit.len \in Nat /\ LitAsked(n) <= lit.len
                       /\ lit'.len = lit.len - LitAsked(n)
                       /\ LitAsked(n) < n => LitAsked(n) = lit.len
  BY <1>1, <1>3, <1>4, LitFacts
<1>6. ReadBelow(LitAsked(n), r)
  BY <1>1, <1>5, BelowFacts DEF Inv, Settled
<1>7. PICK m \in Nat : m = Len(r.bytes)
  BY <1>6 DEF ReadBelow
<1>8. PICK a \in Nat \ {0} : a = LitAsked(n)
  BY <1>5
<1>9. /\ r.bytes \in Bytes /\ m <= a /\ \A i \in 1..m : r.bytes[i] = file.pos + i
      /\ file' \in FileRecords /\ file'.size = file.size /\ file'.pos = file.pos + m
      /\ BelowOK(file', encr', hashing')
      /\ file.failed => file'.failed
      /\ ~file'.failed => /\ EndBelow(file', encr') = EndBelow(file, encr)
                          /\ m < a => file'.pos = EndBelow(file, encr)
  <2>1. r.bytes \in Bytes /\ m <= a /\ \A i \in 1..m : r.bytes[i] = file.pos + i
    BY <1>6, <1>7, <1>8, PlacesAreBytes DEF ReadBelow
  <2>2. /\ r.file \in FileRecords /\ r.file.size = file.size
        /\ r.file.pos = file.pos + Len(r.bytes)
        /\ BelowOK(r.file, r.encr, hashing)
        /\ file.failed => r.file.failed
        /\ ~r.file.failed => /\ EndBelow(r.file, r.encr) = EndBelow(file, encr)
                             /\ Len(r.bytes) < LitAsked(n) => r.file.pos = EndBelow(file, encr)
    BY <1>6 DEF ReadBelow
  <2> QED
    BY <1>1, <1>3, <1>7, <1>8, <2>1, <2>2
<1>10. /\ due = file.pos + 1 /\ file.pos \in Nat
       /\ ~file.failed => end = EndPlain(file, encr, lit, due)
  BY <1>1 DEF Inv, PlainOK, BelowOK, FileRecords
<1>11. PICK e \in Nat : e = EndBelow(file, encr)
  BY DEF Inv, BelowOK, FileRecords, EncrRecords, EndBelow, Lesser
<1>12. ~file'.failed => file'.pos <= e
  <2>1. file'.pos <= EndBelow(file', encr')
    BY <1>9 DEF BelowOK, FileRecords, EncrRecords, EndBelow, Lesser
  <2> QED
    BY <1>9, <1>11, <2>1
<1>13. due' = due + m /\ due' = file'.pos + 1
  <2>1. due' = due + Len(r.bytes)
    BY <1>3 DEF Return
  <2>2. file'.pos = file.pos + m
    BY <1>9
  <2>3. due' = due + m
    BY <1>7, <2>1
  <2> QED
    BY <1>10, <2>2, <2>3
<1>14. end' = end /\ (lit = None /\ ~file'.failed => end = e)
       /\ (lit # None /\ ~file'.failed => end = Lesser(e, due - 1 + lit.len))
  BY <1>1, <1>9, <1>10, <1>11 DEF EndPlain
<1>15. ~file'.failed => end' = EndPlain(file', encr', lit', due')
  <2>1. CASE lit = None
    BY <1>5, <1>9, <1>11, <1>14, <2>1 DEF EndPlain
  <2>2. CASE lit # None
    <3>1. ~file'.failed => EndPlain(file', encr', lit', due') = Lesser(e, due' - 1 + lit'.len)
      BY <1>5, <1>9, <1>11, <2>2 DEF EndPlain
    <3>2. lit'.len = lit.len - a /\ lit.len \in Nat /\ a <= lit.len
      BY <1>5, <1>8, <2>2
    <3>3. ~file'.failed => Lesser(e, due' - 1 + lit'.len) = Lesser(e, due - 1 + lit.len)
      <4>1. CASE m = a
        <5>1. due' - 1 + lit'.len = due - 1 + lit.len
          BY <1>4, <1>13, <3>2, <4>1
        <5> QED
          BY <5>1
      <4>2. CASE m < a
        BY <1>4, <1>9, <1>11, <1>13, <3>2, <4>2 DEF Lesser
      <4> QED
        BY <1>9, <4>1, <4>2
    <3> QED
      BY <1>14, <2>2, <3>1, <3>3
  <2> QED
    BY <2>1, <2>2
<1>16. Failed' <=> file'.failed
  BY <1>1 DEF Failed
<1>17. Failed => Failed'
  BY <1>1, <1>9 DEF Failed
<1>18. ~Failed' => due' - 1 <= end /\ (m < n => due' - 1 = end)
  <2> SUFFICES ASSUME ~file'.failed PROVE due' - 1 <= end /\ (m < n => due' - 1 = end)
    BY <1>16
  <2>1. due' - 1 = file'.pos /\ file'.pos \in Nat /\ file'.pos <= e /\ (m < a => file'.pos = e)
    BY <1>9, <1>11, <1>12, <1>13 DEF FileRecords
  <2>2. CASE lit = None
    BY <1>5, <1>8, <1>14, <2>1, <2>2
  <2>3. CASE lit # None
    <3>1. lit.len \in Nat /\ a <= lit.len /\ (a < n => a = lit.len) /\ a <= n
      BY <1>5, <1>8, <2>3
    <3>2. file'.pos = due - 1 + m
      BY <1>4, <1>13, <2>1
    <3> QED
      BY <1>4, <1>5, <1>9, <1>14, <2>1, <2>3, <3>1, <3>2 DEF Lesser
  <2> QED
    BY <2>2, <2>3
<1>19. [Source!Next]_(Source!vars) /\ last' \in Reads
  <2>1. \A i \in 1..Len(r.bytes) : r.bytes[i] = due + i - 1
    BY <1>7, <1>9, <1>10
  <2>2. Len(r.bytes) <= n
    BY <1>5, <1>7, <1>8, <1>9
  <2> QED
    BY <1>3, <1>5, <1>7, <1>9, <1>14, <1>17, <1>18, <2>1, <2>2, SourceReads
<1>20. due' \in Nat
  BY <1>4, <1>13
<1>21. KeyPending' /\ PlainOK' /\ ReadTypes'
  BY <1>1, <1>4, <1>5, <1>13, <1>14, <1>15, <1>19, <1>20
  DEF KeyPending, PlainOK, ReadTypes, Settled
<1>22. S2kInv'
  BY S2kInvNext DEF Next
<1>23. Inv'
  BY <1>1, <1>9, <1>21, <1>22 DEF Inv
<1> QED
  BY <1>19, <1>23 DEF Implemented

-----------------------------------------------------------------------------
(* Reading the inflating stream.                                           *)

LEMMA MiddleFacts ==
  ASSUME NEW S, NEW s \in Seq(S), NEW c \in Nat, NEW k \in Nat, c + k <= Len(s)
  PROVE  /\ SubSeq(s, c + 1, c + k) \in Seq(S) /\ Len(SubSeq(s, c + 1, c + k)) = k
         /\ \A i \in 1..k : SubSeq(s, c + 1, c + k)[i] = s[c + i]
<1>1. Len(SubSeq(s, c + 1, c + k)) = k
  OBVIOUS
<1>2. \A i \in 1..k : SubSeq(s, c + 1, c + k)[i] = s[c + i]
  OBVIOUS
<1>3. SubSeq(s, c + 1, c + k) \in Seq(S)
  OBVIOUS
<1> QED
  BY <1>1, <1>2, <1>3

LEMMA ConsumeFacts ==
  ASSUME NEW out \in Bytes, z.consumed \in Nat, z.consumed <= Len(out), NEW n \in Nat
  PROVE  /\ Consume(out, n) \in Bytes
         /\ Len(Consume(out, n)) = Lesser(n, Len(out) - z.consumed)
         /\ Len(Consume(out, n)) \in Nat
         /\ \A i \in 1..Len(Consume(out, n)) : Consume(out, n)[i] = out[z.consumed + i]
<1>1. PICK k \in Nat : k = Lesser(n, Len(out) - z.consumed)
  BY DEF Lesser, Bytes
<1>2. PICK c \in Nat : c = z.consumed
  OBVIOUS
<1>3. Len(out) \in Nat /\ c + k <= Len(out)
  BY <1>1, <1>2 DEF Lesser, Bytes
<1>4. Consume(out, n) = SubSeq(out, c + 1, c + k)
  BY <1>1, <1>2 DEF Consume
<1>5. /\ SubSeq(out, c + 1, c + k) \in Bytes
      /\ Len(SubSeq(out, c + 1, c + k)) = k
      /\ \A i \in 1..k : SubSeq(out, c + 1, c + k)[i] = out[c + i]
  <2>1. PICK S : S = Nat \cup {Junk}
    OBVIOUS
  <2>2. PICK s \in Seq(S) : s = out
    BY <2>1 DEF Bytes
  <2>3. /\ SubSeq(s, c + 1, c + k) \in Seq(S) /\ Len(SubSeq(s, c + 1, c + k)) = k
        /\ \A i \in 1..k : SubSeq(s, c + 1, c + k)[i] = s[c + i]
    BY <1>3, <2>2, MiddleFacts
  <2> QED
    BY <2>1, <2>2, <2>3 DEF Bytes
<1> QED
  BY <1>1, <1>2, <1>4, <1>5

\* While nothing has failed, what has been read is part of what there is.
LEMMA ConsumedFacts ==
  ASSUME NEW q, NEW f, NEW e, ZOK(q, f, e)
  PROVE  /\ q \in ZRecords /\ q.consumed \in Nat /\ q.consumed <= Len(q.out)
         /\ q.out \in Bytes /\ Len(q.out) \in Nat /\ ZEnd(q) \in Nat
         /\ q.sound => Len(q.out) <= ZEnd(q)
         /\ ~FailedOf(f, q) => q.sound /\ q.consumed <= ZEnd(q)
<1>1. /\ q \in ZRecords /\ q.consumed \in Nat /\ q.consumed <= Len(q.out)
      /\ q.out \in Bytes /\ Len(q.out) \in Nat /\ q.fed \in Nat /\ q.fed <= Len(q.yield)
  BY ZTypes DEF ZOK, ZShape
<1>2. /\ Len(q.yield) \in Nat /\ q.fed \in 0..Len(q.yield)
      /\ Len(q.yield) \in 0..Len(q.yield)
  BY <1>1, YieldFacts
<1>3. YieldOf(q, q.fed) \in Nat /\ ZEnd(q) \in Nat /\ YieldOf(q, q.fed) <= ZEnd(q)
  BY <1>1, <1>2, YieldFacts DEF ZEnd
<1>4. q.sound => Len(q.out) <= YieldOf(q, q.fed)
  BY DEF ZOK, Made
<1>5. q.sound => Len(q.out) <= ZEnd(q)
  BY <1>1, <1>3, <1>4
<1>6. ~FailedOf(f, q) => q.sound
  BY DEF ZOK
<1> QED
  BY <1>1, <1>3, <1>5, <1>6

\* Consuming changes nothing else.
LEMMA ConsumedOnly ==
  ASSUME NEW q \in ZRecords, NEW k \in Nat, NEW p, p = [q EXCEPT !.consumed = @ + k]
  PROVE  /\ p \in ZRecords /\ p # None /\ p.consumed = q.consumed + k
         /\ p.base = q.base /\ p.yield = q.yield /\ p.fed = q.fed /\ p.whole = q.whole
         /\ p.sound = q.sound /\ p.lost = q.lost /\ p.in = q.in /\ p.out = q.out
         /\ p.error = q.error /\ p.eof = q.eof
         /\ ZEnd(p) = ZEnd(q) /\ YieldOf(p, p.fed) = YieldOf(q, q.fed)
<1>1. p \in ZRecords /\ p.consumed = q.consumed + k
  BY DEF ZRecords
<1>2. /\ p.base = q.base /\ p.yield = q.yield /\ p.fed = q.fed /\ p.whole = q.whole
      /\ p.sound = q.sound /\ p.lost = q.lost /\ p.in = q.in /\ p.out = q.out
      /\ p.error = q.error /\ p.eof = q.eof
  BY DEF ZRecords
<1>3. p.kind = "z" /\ None.kind = "none"
  BY <1>1 DEF ZRecords, None
<1>4. ZEnd(p) = ZEnd(q) /\ YieldOf(p, p.fed) = YieldOf(q, q.fed)
  BY <1>2 DEF ZEnd, YieldOf
<1> QED
  BY <1>1, <1>2, <1>3, <1>4

LEMMA StepReadInflated == ASSUME Inv, ReadInflated PROVE Implemented
<1>1. /\ call = Idle /\ Settled /\ z # None /\ ~LitEnded /\ ~z.eof /\ ~z.error
      /\ UNCHANGED <<phrase, count, passes, sha, hashing, file, encr, end>>
  BY DEF ReadInflated, Reading, Refused, Settled, s2kVars
<1>2. PICK n \in READ_SIZES :
        LET want  == LitAsked(n)
            bytes == Consume(z.out, want)
        IN /\ lit' = LitAfter(n)
           /\ z' = [z EXCEPT !.consumed = @ + Len(bytes)]
           /\ IF Len(bytes) = want THEN Return(n, bytes) /\ UNCHANGED call
              ELSE /\ call' = [asked |-> n, want |-> want - Len(bytes), got |-> bytes]
                   /\ UNCHANGED <<last, due>>
  BY DEF ReadInflated
<1>3. lit \in {None} \cup LitRecords /\ due \in Nat /\ end \in Nat
  BY DEF Inv, ReadTypes
<1>4. /\ n \in Nat \ {0} /\ LitAsked(n) \in Nat \ {0} /\ LitAsked(n) <= n
      /\ lit' \in {None} \cup LitRecords
      /\ lit = None <=> lit' = None
      /\ lit = None => LitAsked(n) = n
      /\ lit # None => /\ lit.len \in Nat /\ LitAsked(n) <= lit.len
                       /\ lit'.len = lit.len - LitAsked(n)
                       /\ LitAsked(n) < n => LitAsked(n) = lit.len
  BY <1>1, <1>2, <1>3, LitFacts
<1>5. PICK want \in Nat \ {0} : want = LitAsked(n)
  BY <1>4
<1>6. ZOK(z, file, encr) /\ CallOK(Idle, z, lit, due, end, file)
  BY <1>1 DEF Inv
<1>7. /\ z \in ZRecords /\ z.consumed \in Nat /\ z.consumed <= Len(z.out)
      /\ z.out \in Bytes /\ Len(z.out) \in Nat /\ ZEnd(z) \in Nat
      /\ z.sound => Len(z.out) <= ZEnd(z)
      /\ ~FailedOf(file, z) => z.sound /\ z.consumed <= ZEnd(z)
  BY <1>6, ConsumedFacts
<1>8. PICK bytes : bytes = Consume(z.out, want)
  OBVIOUS
<1>9. /\ bytes \in Bytes /\ Len(bytes) = Lesser(want, Len(z.out) - z.consumed)
      /\ Len(bytes) \in Nat /\ \A i \in 1..Len(bytes) : bytes[i] = z.out[z.consumed + i]
  BY <1>7, <1>8, ConsumeFacts
<1>10. PICK k \in Nat : k = Len(bytes)
  BY <1>9
<1>11. k <= want /\ z.consumed + k <= Len(z.out) /\ (k < want => z.consumed + k = Len(z.out))
  BY <1>7, <1>9, <1>10 DEF Lesser
<1>12. z' = [z EXCEPT !.consumed = @ + k]
  BY <1>2, <1>5, <1>8, <1>10
<1>13. /\ z' \in ZRecords /\ z' # None /\ z'.consumed = z.consumed + k
       /\ z'.base = z.base /\ z'.yield = z.yield /\ z'.fed = z.fed /\ z'.whole = z.whole
       /\ z'.sound = z.sound /\ z'.lost = z.lost /\ z'.in = z.in /\ z'.out = z.out
       /\ z'.error = z.error /\ z'.eof = z.eof
       /\ ZEnd(z') = ZEnd(z) /\ YieldOf(z', z'.fed) = YieldOf(z, z.fed)
  <2>1. PICK p : p = z'
    OBVIOUS
  <2>2. PICK q \in ZRecords : q = z
    BY <1>7
  <2>3. p = [q EXCEPT !.consumed = @ + k]
    BY <1>12, <2>1, <2>2
  <2>4. /\ p \in ZRecords /\ p # None /\ p.consumed = q.consumed + k
        /\ p.base = q.base /\ p.yield = q.yield /\ p.fed = q.fed /\ p.whole = q.whole
        /\ p.sound = q.sound /\ p.lost = q.lost /\ p.in = q.in /\ p.out = q.out
        /\ p.error = q.error /\ p.eof = q.eof
        /\ ZEnd(p) = ZEnd(q) /\ YieldOf(p, p.fed) = YieldOf(q, q.fed)
    BY <2>3, ConsumedOnly
  <2> QED
    BY <2>1, <2>2, <2>4
<1>14. (FailedOf(file', z') <=> FailedOf(file, z)) /\ (Failed => Failed')
       /\ (Failed' <=> FailedOf(file, z))
  BY <1>1, <1>13, FailedIs DEF FailedOf
<1>15. ZOK(z', file', encr')
  <2>1. ZShape(z')
    BY <1>6, <1>11, <1>13 DEF ZOK, ZShape
  <2>2. Made(z')
    BY <1>6, <1>13 DEF ZOK, Made
  <2> QED
    BY <1>1, <1>6, <1>13, <1>14, <2>1, <2>2 DEF ZOK
<1>16. due = z.consumed + 1 /\
       (~FailedOf(file, z) =>
          end = IF lit = None THEN ZEnd(z) ELSE Lesser(ZEnd(z), z.consumed + lit.len))
  <2>1. due + 0 = z.consumed + 1 /\
        (~FailedOf(file, z) =>
           end = IF lit = None THEN ZEnd(z) ELSE Lesser(ZEnd(z), z.consumed + lit.len))
    BY <1>3, <1>6, <1>7, IdleCall
  <2> QED
    BY <1>3, <2>1
<1>17. ASSUME NEW i \in 1..Len(bytes)
       PROVE  bytes[i] = due + i - 1 \/ (bytes[i] = Junk /\ FailedOf(file, z))
  <2>1. z.consumed + i \in 1..Len(z.out)
    BY <1>7, <1>10, <1>11
  <2>2. z.out[z.consumed + i] = z.consumed + i \/ (z.out[z.consumed + i] = Junk /\ ~z.sound)
    BY <1>6, <2>1 DEF ZOK, Made
  <2>3. due + i - 1 = z.consumed + i
    BY <1>7, <1>16
  <2> QED
    BY <1>7, <1>9, <2>2, <2>3
<1>18. lit # None => lit.len \in Nat /\ want <= lit.len /\ lit'.len = lit.len - want
                     /\ (want < n => want = lit.len)
  BY <1>4, <1>5
<1>19. lit = None => want = n
  BY <1>4, <1>5
<1>20. CASE k = want
  <2>1. Return(n, bytes) /\ call' = Idle
    BY <1>1, <1>2, <1>5, <1>8, <1>10, <1>20
  <2>2. due' = due + k /\ due' \in Nat
    BY <1>3, <1>10, <2>1 DEF Return
  <2>3. ~Failed' => due' - 1 <= end /\ (Len(bytes) < n => due' - 1 = end)
    <3> SUFFICES ASSUME ~FailedOf(file, z)
                 PROVE  due' - 1 <= end /\ (k < n => due' - 1 = end)
      BY <1>10, <1>14
    <3>1. due' - 1 = z.consumed + k /\ z.consumed + k <= ZEnd(z)
      BY <1>7, <1>11, <1>16, <2>2
    <3>2. CASE lit = None
      BY <1>16, <1>19, <1>20, <3>1, <3>2
    <3>3. CASE lit # None
      BY <1>4, <1>5, <1>7, <1>16, <1>18, <1>20, <3>1, <3>3 DEF Lesser
    <3> QED
      BY <3>2, <3>3
  <2>4. [Source!Next]_(Source!vars) /\ last' \in Reads
    <3>1. Len(bytes) <= n
      BY <1>4, <1>5, <1>10, <1>20
    <3>2. \A i \in 1..Len(bytes) : bytes[i] = due + i - 1 \/ (bytes[i] = Junk /\ Failed')
      BY <1>14, <1>17
    <3> QED
      BY <1>1, <1>4, <1>9, <1>14, <2>1, <2>3, <3>1, <3>2, SourceReads
  <2>5. CallOK(call', z', lit', due', end', file')
    <3>1. due' + 0 = z'.consumed + 1
      BY <1>7, <1>13, <1>16, <2>2
    <3>2. lit # None => z'.consumed + lit'.len = z.consumed + lit.len
      BY <1>7, <1>13, <1>18, <1>20
    <3>3. ~FailedOf(file', z') =>
             end' = IF lit' = None THEN ZEnd(z') ELSE Lesser(ZEnd(z'), z'.consumed + lit'.len)
      BY <1>1, <1>4, <1>13, <1>14, <1>16, <3>2
    <3>4. z'.consumed \in Nat
      BY <1>7, <1>13
    <3> QED
      BY <1>4, <2>1, <3>1, <3>3, <3>4, IdleCall
  <2>6. KeyPending' /\ PlainOK' /\ ReadTypes' /\ BelowOK(file', encr', hashing') /\ S2kInv'
    BY <1>1, <1>3, <1>4, <1>13, <2>2, <2>4, S2kInvNext
    DEF Inv, KeyPending, PlainOK, ReadTypes, Settled, Next
  <2>7. Inv'
    BY <1>15, <2>5, <2>6 DEF Inv
  <2> QED
    BY <2>4, <2>7 DEF Implemented
<1>21. CASE k # want
  <2>1. /\ call' = [asked |-> n, want |-> want - Len(bytes), got |-> bytes]
        /\ UNCHANGED <<last, due>>
    BY <1>2, <1>5, <1>8, <1>10, <1>21
  <2>2. PICK w \in Nat \ {0} : w = want - k
    BY <1>11, <1>21
  <2>3. call'.asked = n /\ call'.want = w /\ call'.got = bytes /\ call' \in Calls
    <3>1. call' = [asked |-> n, want |-> w, got |-> bytes]
      BY <1>10, <2>1, <2>2
    <3> QED
      BY <1>4, <1>9, <3>1 DEF Calls
  <2>4. CallOK(call', z', lit', due', end', file')
    <3>1. due' + Len(call'.got) = z'.consumed + 1
      BY <1>7, <1>10, <1>13, <1>16, <2>1, <2>3
    <3>2. lit # None => z'.consumed + w + lit'.len = z.consumed + lit.len
      BY <1>7, <1>13, <1>18, <2>2
    <3>3. ~FailedOf(file', z') =>
             end' = IF lit' = None THEN ZEnd(z')
                    ELSE Lesser(ZEnd(z'), z'.consumed + call'.want + lit'.len)
      BY <1>1, <1>4, <1>13, <1>14, <1>16, <2>3, <3>2
    <3>4. \A i \in 1..Len(call'.got) :
            call'.got[i] = due' + i - 1 \/ (call'.got[i] = Junk /\ FailedOf(file', z'))
      BY <1>14, <1>17, <2>1, <2>3
    <3>5. z'.consumed = Len(z'.out) /\ call'.want > 0
      BY <1>11, <1>13, <1>21, <2>2, <2>3
    <3>6. Len(call'.got) + call'.want = want
      BY <1>10, <2>2, <2>3
    <3>7. want <= n /\ (want < n => lit' # None /\ lit'.len = 0)
      BY <1>4, <1>5, <1>18, <1>19
    <3> QED
      BY <2>3, <3>1, <3>3, <3>4, <3>5, <3>6, <3>7 DEF CallOK
  <2>5. [Source!Next]_(Source!vars)
    BY <1>1, <1>14, <2>1, SourceStays
  <2>6. KeyPending' /\ PlainOK' /\ ReadTypes' /\ BelowOK(file', encr', hashing') /\ S2kInv'
    BY <1>1, <1>3, <1>4, <1>13, <2>1, S2kInvNext
    DEF Inv, KeyPending, PlainOK, ReadTypes, Settled, Next
  <2>7. Inv'
    BY <1>15, <2>4, <2>6 DEF Inv
  <2> QED
    BY <2>5, <2>7 DEF Implemented
<1> QED
  BY <1>20, <1>21

-----------------------------------------------------------------------------
(* A turn of the inflating stream's loop.                                  *)

InputOK(r) ==
  /\ r.bytes \in Bytes /\ Len(r.bytes) <= Z_BUF
  /\ z.sound => \A i \in 1..Len(r.bytes) : r.bytes[i] = z.base + z.fed + i
  /\ r.file \in FileRecords /\ BelowOK(r.file, r.encr, hashing)
  /\ z.sound => r.file.pos = z.base + z.fed + Len(r.bytes)
  /\ file.failed => r.file.failed
  /\ ~r.file.failed => EndBelow(r.file, r.encr) = EndBelow(file, encr)
  /\ r.bytes = <<>> => EndedBelow(r.file, r.encr) \/ r.file.failed

LEMMA InputFacts ==
  ASSUME ZOK(z, file, encr), BelowOK(file, encr, hashing), Settled, NEW r \in Inputs
  PROVE  InputOK(r)
<1>1. /\ z \in ZRecords /\ z.base \in Nat /\ z.fed \in Nat /\ z.in \in Bytes
      /\ Len(z.in) \in Nat /\ Len(z.in) <= Z_BUF
      /\ z.sound => file.pos = z.base + z.fed + Len(z.in)
      /\ z.sound => \A i \in 1..Len(z.in) : z.in[i] = z.base + z.fed + i
  BY ZTypes DEF ZOK, ZShape
<1>2. file \in FileRecords /\ (file.error => file.failed)
  BY DEF BelowOK
<1>3. BelowEnded <=> EndedBelow(file, encr)
  BY DEF BelowEnded, EndedBelow, FileEnded
<1>4. CASE z.in # <<>>
  <2>1. r.bytes = z.in /\ r.file = file /\ r.encr = encr
    BY <1>4 DEF Inputs
  <2> QED
    BY <1>1, <1>2, <1>4, <2>1 DEF InputOK
<1>5. CASE z.in = <<>> /\ (BelowEnded \/ file.error)
  <2>1. r.bytes = <<>> /\ r.file = file /\ r.encr = encr
    BY <1>5 DEF Inputs
  <2>2. Len(z.in) = 0
    BY <1>5, IdleIs
  <2> QED
    BY <1>1, <1>2, <1>3, <1>5, <2>1, <2>2, IdleIs, SizesAssumption DEF InputOK
<1>6. CASE z.in = <<>> /\ ~(BelowEnded \/ file.error)
  <2>1. r \in BelowReads(Z_BUF)
    BY <1>6 DEF Inputs
  <2>2. ReadBelow(Z_BUF, r)
    BY <2>1, BelowFacts, SizesAssumption DEF Settled
  <2>4. z.sound => file.pos = z.base + z.fed
    BY <1>1, <1>6, IdleIs
  <2>5. r.bytes \in Bytes
    BY <2>2, PlacesAreBytes DEF ReadBelow
  <2> QED
    <3>1. /\ Len(r.bytes) <= Z_BUF /\ \A i \in 1..Len(r.bytes) : r.bytes[i] = file.pos + i
          /\ r.file \in FileRecords /\ r.file.pos = file.pos + Len(r.bytes)
      BY <2>2 DEF ReadBelow
    <3>2. /\ (file.failed => r.file.failed) /\ BelowOK(r.file, r.encr, hashing)
          /\ r.bytes = <<>> => EndedBelow(r.file, r.encr) \/ r.file.failed
          /\ ~r.file.failed => EndBelow(r.file, r.encr) = EndBelow(file, encr)
      BY <2>2 DEF ReadBelow
    <3>3. z.sound => /\ r.file.pos = z.base + z.fed + Len(r.bytes)
                     /\ \A i \in 1..Len(r.bytes) : r.bytes[i] = z.base + z.fed + i
      BY <2>4, <3>1
    <3> QED
      BY <2>5, <3>1, <3>2, <3>3 DEF InputOK
<1> QED
  BY <1>4, <1>5, <1>6

LEMMA StarvedFails ==
  ASSUME ZOK(z, file, encr), BelowOK(file, encr, hashing), NEW r, InputOK(r),
         Starved(r.bytes)
  PROVE  r.bytes = <<>> /\ FailedOf(r.file, z)
<1>1. r.bytes = <<>> /\ z.fed < Len(z.yield) /\ z.sound
  BY DEF Starved, Codes, Right
<1>2. SUFFICES ASSUME ~r.file.failed /\ z.whole PROVE FALSE
  <2>1. z # None
    BY DEF ZOK, ZShape, ZRecords, None
  <2> QED
    BY <1>1, <2>1 DEF FailedOf
<1>3. EndedBelow(r.file, r.encr) /\ ~file.failed
  BY <1>1, <1>2 DEF InputOK
<1>4. z.base + Len(z.yield) <= EndBelow(r.file, r.encr)
  BY <1>2, <1>3 DEF ZOK, InputOK
<1>5. r.file.pos = z.base + z.fed /\ z.base \in Nat /\ z.fed \in Nat /\ Len(z.yield) \in Nat
  BY <1>1, ZTypes, YieldFacts, IdleIs DEF InputOK, ZOK, ZShape
<1>6. EndBelow(r.file, r.encr) <= r.file.pos
  <2>1. /\ r.file.size \in Nat /\ r.file.pos \in Nat
        /\ r.encr # None => r.encr.len \in Nat
    BY DEF InputOK, BelowOK, FileRecords, EncrRecords
  <2> QED
    BY <1>3, <2>1 DEF EndBelow, EndedBelow, Lesser
<1>7. EndBelow(r.file, r.encr) \in Nat
  BY DEF InputOK, BelowOK, FileRecords, EncrRecords, EndBelow, Lesser
<1> QED
  BY <1>1, <1>4, <1>5, <1>6, <1>7

\* What a turn leaves of the stream, when it has handed out k bytes.
Turned(p, r, o, k) ==
  /\ p \in ZRecords /\ p # None
  /\ p.base = z.base /\ p.yield = z.yield /\ p.whole = z.whole
  /\ p.in = SubSeqFrom(r.bytes, o.used + 1)
  /\ p.fed = IF z.sound THEN z.fed + o.used ELSE z.fed
  /\ p.sound <=> (z.sound /\ ~Starved(r.bytes))
  /\ p.out = z.out \o o.items /\ p.consumed = z.consumed + k
  /\ z.lost => p.lost
  /\ p.error => z.error \/ o.status = "failed"
  /\ p.eof => z.eof \/ (o.status = "done" /\ k = Len(o.items))

LEMMA TurnedFacts ==
  ASSUME ZOK(z, file, encr), BelowOK(file, encr, hashing), NEW r, InputOK(r),
         NEW o, OutcomeOK(r.bytes, o), NEW k \in Nat, k <= Len(o.items),
         z.consumed = Len(z.out), NEW p, Turned(p, r, o, k)
  PROVE  /\ ZOK(p, r.file, r.encr) /\ ZEnd(p) = ZEnd(z)
         /\ FailedOf(file, z) => FailedOf(r.file, p)
         /\ o.status = "failed" => FailedOf(r.file, p)
         /\ o.status = "done" /\ k = Len(o.items) /\ ~FailedOf(r.file, p) =>
              p.consumed = ZEnd(p)
<1>1. /\ z \in ZRecords /\ z.base \in Nat /\ z.fed \in Nat /\ z.consumed \in Nat
      /\ z.out \in Bytes /\ Len(z.out) \in Nat /\ z.sound \in BOOLEAN /\ z.yield \in YIELDS
      /\ Len(z.yield) \in Nat
  BY ZTypes, YieldFacts DEF ZOK, ZShape
<1>2. /\ p \in ZRecords /\ p # None
      /\ p.base = z.base /\ p.yield = z.yield /\ p.whole = z.whole
      /\ p.in = SubSeqFrom(r.bytes, o.used + 1)
      /\ p.fed = IF z.sound THEN z.fed + o.used ELSE z.fed
      /\ p.sound <=> (z.sound /\ ~Starved(r.bytes))
      /\ p.out = z.out \o o.items /\ p.consumed = z.consumed + k
      /\ z.lost => p.lost
      /\ p.error => z.error \/ o.status = "failed"
      /\ p.eof => z.eof \/ (o.status = "done" /\ k = Len(o.items))
  BY DEF Turned
<1>3. /\ r.bytes \in Bytes /\ Len(r.bytes) <= Z_BUF /\ Len(r.bytes) \in Nat
      /\ z.sound => \A i \in 1..Len(r.bytes) : r.bytes[i] = z.base + z.fed + i
      /\ z.sound => r.file.pos = z.base + z.fed + Len(r.bytes)
      /\ file.failed => r.file.failed
      /\ r.file.failed \in BOOLEAN
  BY DEF InputOK, Bytes, FileRecords
<1>4. PICK used \in Nat : used = o.used /\ used <= Len(r.bytes)
  BY <1>3 DEF OutcomeOK
<1>5. /\ o.items \in Bytes /\ Len(o.items) \in Nat
      /\ Len(z.out) + Len(o.items) <= Z_OUT_BUF
      /\ z.sound => z.fed + used <= Len(z.yield)
      /\ \A i \in 1..Len(o.items) :
           o.items[i] = Len(z.out) + i \/ (o.items[i] = Junk /\ ~p.sound)
      /\ p.sound => Len(z.out) + Len(o.items) <= Yield(z.fed + used)
      /\ o.status = "failed" => z.lost \/ ~p.sound
      /\ o.status = "done" => \/ z.lost \/ ~p.sound
                              \/ Len(z.out) + Len(o.items) = Yield(Codes)
  <2>1. /\ o.items \in Bytes /\ Len(z.out) + Len(o.items) <= Z_OUT_BUF
        /\ z.sound => z.fed + used <= Len(z.yield)
    BY <1>4 DEF OutcomeOK, Codes
  <2>2. \A i \in 1..Len(o.items) :
          o.items[i] = Len(z.out) + i \/ (o.items[i] = Junk /\ ~p.sound)
    BY <1>2 DEF OutcomeOK
  <2>3. p.sound => Len(z.out) + Len(o.items) <= Yield(z.fed + used)
    BY <1>2, <1>4 DEF OutcomeOK
  <2>4. /\ o.status = "failed" => z.lost \/ ~p.sound
        /\ o.status = "done" => \/ z.lost \/ ~p.sound
                                \/ Len(z.out) + Len(o.items) = Yield(Codes)
    BY <1>2 DEF OutcomeOK
  <2>5. Len(o.items) \in Nat
    BY <2>1 DEF Bytes
  <2> QED
    BY <2>1, <2>2, <2>3, <2>4, <2>5
<1>6. /\ p.sound => YieldOf(p, p.fed) = Yield(z.fed + used)
      /\ ZEnd(p) = ZEnd(z) /\ ZEnd(z) = Yield(Codes)
  BY <1>2, <1>4 DEF YieldOf, Yield, ZEnd, Codes
<1>7. /\ p.in \in Bytes /\ Len(p.in) = Len(r.bytes) - used
      /\ \A i \in 1..Len(p.in) : p.in[i] = r.bytes[used + i]
  <2>1. PICK S : S = Nat \cup {Junk}
    OBVIOUS
  <2>2. PICK m \in Seq(S) : m = r.bytes
    BY <1>3, <2>1 DEF Bytes
  <2>3. /\ SubSeqFrom(m, used + 1) \in Seq(S) /\ Len(SubSeqFrom(m, used + 1)) = Len(m) - used
        /\ \A i \in 1..Len(m) - used : SubSeqFrom(m, used + 1)[i] = m[used + i]
    BY <1>4, <2>2, DropFacts
  <2>4. p.in = SubSeqFrom(m, used + 1)
    BY <1>2, <1>4, <2>2
  <2> QED
    BY <2>1, <2>2, <2>3, <2>4 DEF Bytes
<1>8. /\ Len(p.out) = Len(z.out) + Len(o.items)
      /\ \A i \in 1..Len(z.out) : p.out[i] = z.out[i]
      /\ \A i \in 1..Len(o.items) : p.out[Len(z.out) + i] = o.items[i]
  <2>1. PICK S : S = Nat \cup {Junk}
    OBVIOUS
  <2>2. PICK s \in Seq(S) : s = z.out
    BY <1>1, <2>1 DEF Bytes
  <2>3. PICK t \in Seq(S) : t = o.items
    BY <1>5, <2>1 DEF Bytes
  <2>4. p.out = s \o t
    BY <1>2, <2>2, <2>3
  <2>5. /\ Len(s \o t) = Len(s) + Len(t)
        /\ \A i \in 1..Len(s) : (s \o t)[i] = s[i]
        /\ \A i \in 1..Len(t) : (s \o t)[Len(s) + i] = t[i]
    BY ConcatFacts
  <2> QED
    BY <2>2, <2>3, <2>4, <2>5
<1>9. ZShape(p)
  <2>1. Len(p.in) <= Z_BUF
    BY <1>3, <1>4, <1>7, SizesAssumption
  <2>2. p.consumed <= Len(p.out)
    BY <1>1, <1>2, <1>5, <1>8
  <2>3. p.fed <= Len(p.yield)
    BY <1>2, <1>4, <1>5 DEF ZOK, ZShape
  <2> QED
    BY <1>2, <1>5, <1>8, <2>1, <2>2, <2>3 DEF ZShape
<1>10. Made(p)
  <2>1. ASSUME NEW i \in 1..Len(p.out) PROVE p.out[i] = i \/ (p.out[i] = Junk /\ ~p.sound)
    <3>1. CASE i <= Len(z.out)
      <4>1. i \in 1..Len(z.out)
        BY <1>1, <3>1
      <4>2. z.out[i] = i \/ (z.out[i] = Junk /\ ~z.sound)
        BY <4>1 DEF ZOK, Made
      <4> QED
        BY <1>2, <1>8, <4>1, <4>2
    <3>2. CASE ~(i <= Len(z.out))
      <4>1. i - Len(z.out) \in 1..Len(o.items) /\ Len(z.out) + (i - Len(z.out)) = i
        <5>1. PICK a \in Nat : a = Len(z.out)
          BY <1>1
        <5>2. PICK b \in Nat : b = Len(o.items)
          BY <1>5
        <5>3. Len(p.out) = a + b /\ ~(i <= a)
          BY <1>8, <3>2, <5>1, <5>2
        <5>4. i \in 1..a + b
          BY <5>3
        <5>5. i - a \in 1..b /\ a + (i - a) = i
          BY <5>3, <5>4
        <5> QED
          BY <5>1, <5>2, <5>5
      <4> QED
        BY <1>5, <1>8, <4>1
    <3> QED
      BY <3>1, <3>2
  <2> QED
    BY <1>5, <1>6, <1>8, <2>1 DEF Made
<1>11. FailedOf(file, z) => FailedOf(r.file, p)
  <2>1. z # None
    BY <1>1 DEF ZRecords, None
  <2> QED
    BY <1>2, <1>3, <2>1 DEF FailedOf
<1>12. ~p.sound => FailedOf(r.file, p)
  <2>1. CASE ~z.sound
    BY <1>11, <2>1 DEF ZOK
  <2>2. CASE Starved(r.bytes)
    <3>1. FailedOf(r.file, z)
      BY <2>2, StarvedFails
    <3> QED
      BY <1>2, <3>1 DEF FailedOf
  <2> QED
    BY <1>2, <2>1, <2>2
<1>13. p.lost => FailedOf(r.file, p)
  BY <1>2 DEF FailedOf
<1>14. o.status = "failed" => FailedOf(r.file, p)
  BY <1>2, <1>5, <1>12, <1>13
<1>15. o.status = "done" /\ k = Len(o.items) /\ ~FailedOf(r.file, p) => p.consumed = ZEnd(p)
  BY <1>2, <1>5, <1>6, <1>12, <1>13
<1>16. p.sound => r.file.pos = p.base + p.fed + Len(p.in)
  <2> SUFFICES ASSUME p.sound PROVE r.file.pos = p.base + p.fed + Len(p.in)
    OBVIOUS
  <2>1. z.sound
    BY <1>2
  <2>2. r.file.pos = z.base + z.fed + Len(r.bytes)
    BY <1>3, <2>1
  <2>3. p.fed = z.fed + used
    BY <1>2, <1>4, <2>1
  <2>4. PICK m \in Nat : m = Len(r.bytes)
    BY <1>3
  <2>5. Len(p.in) = m - used /\ r.file.pos = z.base + z.fed + m /\ p.base = z.base
    BY <1>2, <1>7, <2>2, <2>4
  <2>6. \A b, c \in Nat : b + c + m = b + (c + used) + (m - used)
    OBVIOUS
  <2> QED
    BY <1>1, <2>3, <2>5, <2>6
<1>17. p.sound => \A i \in 1..Len(p.in) : p.in[i] = p.base + p.fed + i
  <2> SUFFICES ASSUME p.sound, NEW i \in 1..Len(p.in) PROVE p.in[i] = p.base + p.fed + i
    OBVIOUS
  <2>1. used + i \in 1..Len(r.bytes) /\ z.base + z.fed + (used + i) = p.base + p.fed + i
    <3>1. PICK m \in Nat : m = Len(r.bytes)
      BY <1>3
    <3>2. i \in 1..m - used /\ used <= m
      BY <1>4, <1>7, <3>1
    <3>3. used + i \in 1..m /\ i \in Nat
      BY <1>4, <3>1, <3>2
    <3>4. p.base = z.base /\ p.fed = z.fed + used
      BY <1>2, <1>4
    <3>5. z.base \in Nat /\ z.fed \in Nat /\ used \in Nat
      BY <1>1, <1>4
    <3>6. \A b, c \in Nat : b + c + (used + i) = b + (c + used) + i
      BY <3>3, <3>5
    <3> QED
      BY <3>1, <3>3, <3>4, <3>5, <3>6
  <2> QED
    BY <1>2, <1>3, <1>7, <2>1
<1>18. ~r.file.failed /\ p.whole => p.base + Len(p.yield) <= EndBelow(r.file, r.encr)
  BY <1>2, <1>3 DEF ZOK, InputOK
<1>20. p.error => FailedOf(r.file, p)
  BY <1>2, <1>11, <1>14 DEF ZOK
<1>21. p.eof /\ ~FailedOf(r.file, p) => p.consumed = ZEnd(p)
  <2> SUFFICES ASSUME p.eof, ~FailedOf(r.file, p), z.eof PROVE p.consumed = ZEnd(p)
    BY <1>2, <1>15
  <2>1. z.consumed = ZEnd(z)
    BY <1>11 DEF ZOK
  <2>2. p.sound
    BY <1>12
  <2>3. /\ z.fed + used \in 0..Len(z.yield) /\ Len(z.yield) \in 0..Len(z.yield)
        /\ z.fed + used <= Len(z.yield)
    BY <1>1, <1>2, <1>4, <1>5, <2>2
  <2>4. /\ YieldOf(z, z.fed + used) <= YieldOf(z, Len(z.yield))
        /\ YieldOf(z, z.fed + used) \in Nat /\ YieldOf(z, Len(z.yield)) \in Nat
    BY <1>1, <2>3, YieldFacts
  <2>5. Len(z.out) + Len(o.items) <= ZEnd(z) /\ ZEnd(z) \in Nat
    <3>1. Yield(z.fed + used) = YieldOf(z, z.fed + used) /\ ZEnd(z) = YieldOf(z, Len(z.yield))
      BY DEF ZEnd, Yield, YieldOf
    <3>2. PICK m \in Nat : m = Len(z.out)
      BY <1>1
    <3>2a. PICK n \in Nat : n = Len(o.items)
      BY <1>5
    <3>3. PICK a \in Nat : a = m + n
      OBVIOUS
    <3>4. a <= YieldOf(z, z.fed + used)
      BY <1>5, <2>2, <3>1, <3>2, <3>2a, <3>3
    <3>5. \A b, c \in Nat : a <= b /\ b <= c => a <= c
      OBVIOUS
    <3>6. a <= YieldOf(z, Len(z.yield))
      BY <2>4, <3>4, <3>5
    <3> QED
      BY <2>4, <3>1, <3>2, <3>2a, <3>3, <3>6
  <2> QED
    BY <1>1, <1>2, <1>5, <1>6, <2>1, <2>5
<1>22. ZOK(p, r.file, r.encr)
  BY <1>9, <1>10, <1>12, <1>16, <1>17, <1>18, <1>20, <1>21 DEF ZOK
<1> QED
  BY <1>6, <1>11, <1>14, <1>15, <1>22

ZMade(q, in, fed, sound, out, consumed) ==
  [q EXCEPT !.in = in, !.fed = fed, !.sound = sound, !.out = out, !.consumed = consumed]

\* The record that a turn leaves, field by field.
LEMMA ZUpdated ==
  ASSUME NEW q \in ZRecords, NEW in \in Bytes, NEW fed \in Nat, NEW sound \in BOOLEAN,
         NEW out \in Bytes, NEW consumed \in Nat, NEW p,
         p = ZMade(q, in, fed, sound, out, consumed)
  PROVE  /\ p \in ZRecords /\ p.in = in /\ p.fed = fed /\ p.sound = sound /\ p.out = out
         /\ p.consumed = consumed /\ p.base = q.base /\ p.yield = q.yield
         /\ p.whole = q.whole /\ p.lost = q.lost /\ p.error = q.error /\ p.eof = q.eof
<1>1. \A s \in ZRecords : [s EXCEPT !.in = in] \in ZRecords
  BY DEF ZRecords
<1>2. \A s \in ZRecords : [s EXCEPT !.fed = fed] \in ZRecords
  BY DEF ZRecords
<1>3. \A s \in ZRecords : [s EXCEPT !.sound = sound] \in ZRecords
  BY DEF ZRecords
<1>4. \A s \in ZRecords : [s EXCEPT !.out = out] \in ZRecords
  BY DEF ZRecords
<1>5. \A s \in ZRecords : [s EXCEPT !.consumed = consumed] \in ZRecords
  BY DEF ZRecords
<1>6. p = [[[[[q EXCEPT !.in = in] EXCEPT !.fed = fed] EXCEPT !.sound = sound]
               EXCEPT !.out = out] EXCEPT !.consumed = consumed]
  BY DEF ZMade
<1>7. p \in ZRecords
  BY <1>1, <1>2, <1>3, <1>4, <1>5, <1>6
<1>8. /\ p.in = in /\ p.fed = fed /\ p.sound = sound /\ p.out = out /\ p.consumed = consumed
      /\ p.base = q.base /\ p.yield = q.yield
      /\ p.whole = q.whole /\ p.lost = q.lost /\ p.error = q.error /\ p.eof = q.eof
  BY DEF ZMade, ZRecords
<1> QED
  BY <1>7, <1>8

\* When it has handed out all it has made, it also notes how inflating went.
ZFlagged(q, status) ==
  [q EXCEPT !.lost = @ \/ Len(q.out) = Z_OUT_BUF,
            !.error = status = "failed", !.eof = status = "done"]

LEMMA ZFlaggedFacts ==
  ASSUME NEW q \in ZRecords, NEW status, NEW p, p = ZFlagged(q, status)
  PROVE  /\ p \in ZRecords /\ (q.lost => p.lost)
         /\ (p.error => status = "failed") /\ (p.eof => status = "done")
         /\ p.in = q.in /\ p.fed = q.fed /\ p.sound = q.sound /\ p.out = q.out
         /\ p.consumed = q.consumed /\ p.base = q.base /\ p.yield = q.yield
         /\ p.whole = q.whole
<1> DEFINE lost == q.lost \/ Len(q.out) = Z_OUT_BUF
           error == status = "failed"
           eof == status = "done"
<1>1. lost \in BOOLEAN /\ error \in BOOLEAN /\ eof \in BOOLEAN
  OBVIOUS
<1>2. p = [q EXCEPT !.lost = lost, !.error = error, !.eof = eof]
  BY DEF ZFlagged
<1>3. (q.lost => lost) /\ (error => status = "failed") /\ (eof => status = "done")
  OBVIOUS
<1> HIDE DEF lost, error, eof
<1>4. \A s \in ZRecords : [s EXCEPT !.lost = lost] \in ZRecords
  BY <1>1 DEF ZRecords
<1>5. \A s \in ZRecords : [s EXCEPT !.error = error] \in ZRecords
  BY <1>1 DEF ZRecords
<1>6. \A s \in ZRecords : [s EXCEPT !.eof = eof] \in ZRecords
  BY <1>1 DEF ZRecords
<1>7. p = [[[q EXCEPT !.lost = lost] EXCEPT !.error = error] EXCEPT !.eof = eof]
  BY <1>2
<1>8. p \in ZRecords
  BY <1>4, <1>5, <1>6, <1>7
<1>9. /\ p.lost = lost /\ p.error = error /\ p.eof = eof
      /\ p.in = q.in /\ p.fed = q.fed /\ p.sound = q.sound /\ p.out = q.out
      /\ p.consumed = q.consumed /\ p.base = q.base /\ p.yield = q.yield
      /\ p.whole = q.whole
  BY <1>2 DEF ZRecords
<1> QED
  BY <1>3, <1>8, <1>9

LEMMA AfterFacts ==
  ASSUME ZOK(z, file, encr), NEW r, InputOK(r), NEW o, OutcomeOK(r.bytes, o), NEW k \in Nat,
         NEW p, p = ZAfter(r.bytes, o, k)
  PROVE  Turned(p, r, o, k) /\ p.error = z.error /\ p.eof = z.eof /\ p.lost = z.lost
<1>1. /\ z \in ZRecords /\ z.fed \in Nat /\ z.consumed \in Nat /\ z.out \in Bytes
      /\ z.sound \in BOOLEAN /\ r.bytes \in Bytes /\ o.used \in 0..Len(r.bytes)
      /\ o.items \in Bytes /\ Len(r.bytes) \in Nat
  BY ZTypes DEF ZOK, ZShape, InputOK, OutcomeOK, Bytes
<1>2. PICK S : S = Nat \cup {Junk}
  OBVIOUS
<1>3. PICK in : in = SubSeqFrom(r.bytes, o.used + 1)
  OBVIOUS
<1>4. in \in Bytes
  <2>1. PICK m \in Seq(S) : m = r.bytes
    BY <1>1, <1>2 DEF Bytes
  <2>2. PICK n \in Nat : n = o.used
    BY <1>1
  <2>3. SubSeqFrom(m, n + 1) \in Seq(S)
    BY <1>1, <2>1, <2>2, DropFacts
  <2> QED
    BY <1>2, <1>3, <2>1, <2>2, <2>3 DEF Bytes
<1>5. PICK out : out = z.out \o o.items
  OBVIOUS
<1>6. out \in Bytes
  <2>1. PICK s \in Seq(S) : s = z.out
    BY <1>1, <1>2 DEF Bytes
  <2>2. PICK t \in Seq(S) : t = o.items
    BY <1>1, <1>2 DEF Bytes
  <2>3. s \o t \in Seq(S)
    BY ConcatFacts
  <2> QED
    BY <1>2, <1>5, <2>1, <2>2, <2>3 DEF Bytes
<1>7. PICK sound \in BOOLEAN : sound = (z.sound /\ Right(r.bytes) /\ ~Starved(r.bytes))
  <2>1. (z.sound /\ Right(r.bytes) /\ ~Starved(r.bytes)) \in BOOLEAN
    OBVIOUS
  <2> QED
    BY <2>1
<1>8. sound <=> (z.sound /\ ~Starved(r.bytes))
  <2>1. z.sound => Right(r.bytes)
    BY DEF Right, InputOK
  <2> QED
    BY <1>7, <2>1
<1>9. PICK fed \in Nat : fed = IF Right(r.bytes) THEN z.fed + o.used ELSE z.fed
  BY <1>1
<1>10. PICK consumed \in Nat : consumed = z.consumed + k
  BY <1>1
<1>11. PICK q \in ZRecords : q = z
  BY <1>1
<1>12. p = ZMade(q, in, fed, sound, out, consumed)
  BY <1>3, <1>5, <1>7, <1>9, <1>10, <1>11, Zenon DEF ZAfter, ZMade
<1>13. /\ p \in ZRecords /\ p.in = in /\ p.fed = fed /\ p.sound = sound /\ p.out = out
       /\ p.consumed = consumed /\ p.base = q.base /\ p.yield = q.yield
       /\ p.whole = q.whole /\ p.lost = q.lost /\ p.error = q.error /\ p.eof = q.eof
  BY <1>4, <1>6, <1>12, ZUpdated
<1>14. p # None
  BY <1>13 DEF ZRecords, None
<1>15. p.fed = IF z.sound THEN z.fed + o.used ELSE z.fed
  <2>1. Right(r.bytes) <=> z.sound
    BY DEF Right, InputOK
  <2> QED
    BY <1>9, <1>13, <2>1
<1> QED
  BY <1>3, <1>5, <1>8, <1>10, <1>11, <1>13, <1>14, <1>15 DEF Turned

LEMMA StepInflate == ASSUME Inv, Inflate PROVE Implemented
<1>1. call # Idle /\ UNCHANGED <<phrase, count, passes, sha, hashing, lit, end>>
  BY DEF Inflate, s2kVars
<1>2. z # None
  BY <1>1 DEF Inv, PlainOK
<1>3. Settled /\ BelowOK(file, encr, hashing) /\ ZOK(z, file, encr)
      /\ CallOK(call, z, lit, due, end, file)
  BY <1>2 DEF Inv, KeyPending
<1>4. /\ lit \in {None} \cup LitRecords /\ due \in Nat /\ end \in Nat /\ last \in Reads
      /\ lit # None => lit.len \in Nat
  BY DEF Inv, ReadTypes, LitRecords
<1>5a. PICK r \in Inputs : \E o \in Inflated(r.bytes) :
        LET bytes == Consume(z.out \o o.items, call.want)
            after == ZAfter(r.bytes, o, Len(bytes))
            got   == call.got \o bytes
        IN
        /\ file' = r.file /\ encr' = r.encr
        /\ IF Len(bytes) = call.want
           THEN z' = after /\ Return(call.asked, got) /\ call' = Idle
           ELSE /\ z' = [after EXCEPT !.lost = @ \/ Len(after.out) = Z_OUT_BUF,
                                      !.error = o.status = "failed",
                                      !.eof = o.status = "done"]
                /\ IF o.status \in {"failed", "done"}
                   THEN Return(call.asked, got) /\ call' = Idle
                   ELSE /\ call' = [call EXCEPT !.want = @ - Len(bytes), !.got = got]
                        /\ UNCHANGED <<last, due>>
  BY DEF Inflate
<1>5. PICK o \in Inflated(r.bytes) :
        LET bytes == Consume(z.out \o o.items, call.want)
            after == ZAfter(r.bytes, o, Len(bytes))
            got   == call.got \o bytes
        IN
        /\ file' = r.file /\ encr' = r.encr
        /\ IF Len(bytes) = call.want
           THEN z' = after /\ Return(call.asked, got) /\ call' = Idle
           ELSE /\ z' = [after EXCEPT !.lost = @ \/ Len(after.out) = Z_OUT_BUF,
                                      !.error = o.status = "failed",
                                      !.eof = o.status = "done"]
                /\ IF o.status \in {"failed", "done"}
                   THEN Return(call.asked, got) /\ call' = Idle
                   ELSE /\ call' = [call EXCEPT !.want = @ - Len(bytes), !.got = got]
                        /\ UNCHANGED <<last, due>>
  BY <1>5a
<1>6. InputOK(r)
  BY <1>3, InputFacts
<1>7. OutcomeOK(r.bytes, o)
  <2>1. r.bytes \in Bytes /\ (z.sound => \A i \in 1..Len(r.bytes) : r.bytes[i] = z.base + z.fed + i)
    BY <1>6 DEF InputOK
  <2>2. ZShape(z) /\ Made(z)
    BY <1>3 DEF ZOK
  <2> QED
    BY <2>1, <2>2, OutcomeFacts
\* What the read has and wants.
<1>8. /\ call.got \in Bytes /\ Len(call.got) \in Nat /\ call.asked \in Nat
      /\ call.want \in Nat \ {0} /\ call \in Calls
      /\ due + Len(call.got) = z.consumed + 1
      /\ \A i \in 1..Len(call.got) :
           call.got[i] = due + i - 1 \/ (call.got[i] = Junk /\ FailedOf(file, z))
      /\ ~FailedOf(file, z) =>
           end = IF lit = None THEN ZEnd(z) ELSE Lesser(ZEnd(z), z.consumed + call.want + lit.len)
      /\ z.consumed = Len(z.out)
      /\ Len(call.got) + call.want <= call.asked
      /\ Len(call.got) + call.want < call.asked => lit # None /\ lit.len = 0
  BY <1>1, <1>3 DEF CallOK, Calls, Bytes
<1>9. /\ z \in ZRecords /\ z.consumed \in Nat /\ z.out \in Bytes /\ Len(z.out) \in Nat
      /\ ZEnd(z) \in Nat
  BY <1>3, ConsumedFacts
<1>10. o.items \in Bytes /\ Len(o.items) \in Nat
       /\ \A i \in 1..Len(o.items) :
            o.items[i] = Len(z.out) + i \/ (o.items[i] = Junk /\ ~(z.sound /\ ~Starved(r.bytes)))
  BY <1>7 DEF OutcomeOK, Bytes
<1>11. PICK c \in Nat : c = z.consumed
  BY <1>9
<1>12. PICK want \in Nat \ {0} : want = call.want
  BY <1>8
<1>13. PICK had \in Nat : had = Len(call.got)
  BY <1>8
<1>14. PICK new \in Nat : new = Len(o.items)
  BY <1>10
<1>15. PICK bytes : bytes = Consume(z.out \o o.items, call.want)
  OBVIOUS
<1>16. /\ bytes \in Bytes /\ Len(bytes) = Lesser(want, new)
       /\ \A i \in 1..Len(bytes) : bytes[i] = o.items[i]
  <2>1. PICK S : S = Nat \cup {Junk}
    OBVIOUS
  <2>2. PICK s \in Seq(S) : s = z.out
    BY <1>9, <2>1 DEF Bytes
  <2>3. PICK t \in Seq(S) : t = o.items
    BY <1>10, <2>1 DEF Bytes
  <2>4. /\ s \o t \in Seq(S) /\ Len(s \o t) = Len(s) + Len(t)
        /\ \A i \in 1..Len(t) : (s \o t)[Len(s) + i] = t[i]
    BY ConcatFacts
  <2>5. Len(s) = c /\ Len(t) = new
    BY <1>8, <1>11, <1>14, <2>2, <2>3
  <2>6. s \o t \in Bytes /\ z.consumed <= Len(s \o t) /\ Len(s \o t) - z.consumed = new
    BY <1>11, <2>1, <2>4, <2>5 DEF Bytes
  <2>7. /\ Consume(s \o t, want) \in Bytes
        /\ Len(Consume(s \o t, want)) = Lesser(want, Len(s \o t) - z.consumed)
        /\ \A i \in 1..Len(Consume(s \o t, want)) :
             Consume(s \o t, want)[i] = (s \o t)[z.consumed + i]
    BY <1>9, <2>6, ConsumeFacts
  <2>8. bytes = Consume(s \o t, want)
    BY <1>12, <1>15, <2>2, <2>3
  <2>9. Len(bytes) = Lesser(want, new) /\ bytes \in Bytes
    BY <2>6, <2>7, <2>8
  <2>10. ASSUME NEW i \in 1..Len(bytes) PROVE bytes[i] = o.items[i]
    <3>1. i \in 1..new
      BY <2>9 DEF Lesser
    <3>2. bytes[i] = (s \o t)[c + i]
      BY <1>11, <2>7, <2>8
    <3> QED
      BY <2>3, <2>4, <2>5, <3>1, <3>2
  <2> QED
    BY <2>9, <2>10
<1>17. PICK k \in Nat : k = Len(bytes)
  BY <1>16 DEF Bytes
<1>18. k <= want /\ k <= new /\ (k # want => k < want /\ k = new)
  BY <1>16, <1>17 DEF Lesser
<1>19. PICK after : after = ZAfter(r.bytes, o, k)
  OBVIOUS
<1>20. Turned(after, r, o, k) /\ after.error = z.error /\ after.eof = z.eof
       /\ after.lost = z.lost
  BY <1>3, <1>6, <1>7, <1>19, AfterFacts
<1>21. after \in ZRecords
  BY <1>20 DEF Turned
<1>22. PICK got : got = call.got \o bytes
  OBVIOUS
<1>23. /\ got \in Bytes /\ Len(got) = had + k
       /\ \A i \in 1..had : got[i] = call.got[i]
       /\ \A i \in 1..k : got[had + i] = bytes[i]
  <2>1. PICK S : S = Nat \cup {Junk}
    OBVIOUS
  <2>2. PICK s \in Seq(S) : s = call.got
    BY <1>8, <2>1 DEF Bytes
  <2>3. PICK t \in Seq(S) : t = bytes
    BY <1>16, <2>1 DEF Bytes
  <2>4. /\ s \o t \in Seq(S) /\ Len(s \o t) = Len(s) + Len(t)
        /\ \A i \in 1..Len(s) : (s \o t)[i] = s[i]
        /\ \A i \in 1..Len(t) : (s \o t)[Len(s) + i] = t[i]
    BY ConcatFacts
  <2>5. got = s \o t /\ Len(s) = had /\ Len(t) = k
    BY <1>13, <1>17, <1>22, <2>2, <2>3
  <2> QED
    BY <2>1, <2>2, <2>3, <2>4, <2>5 DEF Bytes
<1>24. file' = r.file /\ encr' = r.encr
  BY <1>5
<1>25. k = want => z' = after /\ Return(call.asked, got) /\ call' = Idle
  BY <1>5, <1>12, <1>15, <1>17, <1>19, <1>22
<1>26. k # want =>
         /\ z' = [after EXCEPT !.lost = @ \/ Len(after.out) = Z_OUT_BUF,
                               !.error = o.status = "failed", !.eof = o.status = "done"]
         /\ IF o.status \in {"failed", "done"}
            THEN Return(call.asked, got) /\ call' = Idle
            ELSE /\ call' = [call EXCEPT !.want = @ - k, !.got = got]
                 /\ UNCHANGED <<last, due>>
  BY <1>5, <1>12, <1>15, <1>17, <1>19, <1>22
<1>27. Turned(z', r, o, k)
  <2>1. CASE k = want
    BY <1>20, <1>25, <2>1
  <2>2. CASE k # want
    <3>1. PICK q \in ZRecords : q = after
      BY <1>21
    <3>2. PICK p : p = z'
      OBVIOUS
    <3>3. p = ZFlagged(q, o.status)
      BY <1>26, <2>2, <3>1, <3>2, Zenon DEF ZFlagged
    <3>4. /\ p \in ZRecords /\ (q.lost => p.lost)
          /\ (p.error => o.status = "failed") /\ (p.eof => o.status = "done")
          /\ p.in = q.in /\ p.fed = q.fed /\ p.sound = q.sound /\ p.out = q.out
          /\ p.consumed = q.consumed /\ p.base = q.base /\ p.yield = q.yield
          /\ p.whole = q.whole
      BY <3>3, ZFlaggedFacts
    <3>5. p # None
      BY <3>4 DEF ZRecords, None
    <3>6. Turned(q, r, o, k)
      BY <1>20, <3>1
    <3>7. z.lost => p.lost
      BY <1>20, <3>1, <3>4
    <3>8. (p.error => o.status = "failed") /\ (p.eof => o.status = "done")
      BY <3>4
    <3>9. k = Len(o.items)
      BY <1>14, <1>18, <2>2
    <3>10. Turned(p, r, o, k)
      BY <3>4, <3>5, <3>6, <3>7, <3>8, <3>9 DEF Turned
    <3> QED
      BY <3>2, <3>10
  <2> QED
    BY <2>1, <2>2
<1>28. /\ ZOK(z', file', encr') /\ ZEnd(z') = ZEnd(z)
       /\ FailedOf(file, z) => FailedOf(file', z')
       /\ o.status = "failed" => FailedOf(file', z')
       /\ o.status = "done" /\ k = new /\ ~FailedOf(file', z') => z'.consumed = ZEnd(z')
  <2>1. PICK p : p = z'
    OBVIOUS
  <2>2. Turned(p, r, o, k) /\ k <= Len(o.items)
    BY <1>14, <1>18, <1>27, <2>1
  <2>3. /\ ZOK(p, r.file, r.encr) /\ ZEnd(p) = ZEnd(z)
        /\ FailedOf(file, z) => FailedOf(r.file, p)
        /\ o.status = "failed" => FailedOf(r.file, p)
        /\ o.status = "done" /\ k = Len(o.items) /\ ~FailedOf(r.file, p) =>
             p.consumed = ZEnd(p)
    BY <1>3, <1>6, <1>7, <1>8, <2>2, TurnedFacts
  <2> QED
    BY <1>14, <1>24, <2>1, <2>3
<1>29. z' # None /\ z'.consumed = c + k
  BY <1>11, <1>27 DEF Turned
<1>30. (Failed' <=> FailedOf(file', z')) /\ (Failed => Failed')
  BY <1>28, FailedIs
<1>31. /\ z'.sound => z'.consumed <= ZEnd(z)
       /\ ~Failed' => z'.consumed <= ZEnd(z)
  <2>1. PICK p : p = z'
    OBVIOUS
  <2>2. PICK f : f = file'
    OBVIOUS
  <2>3. PICK e : e = encr'
    OBVIOUS
  <2>4. ZOK(p, f, e)
    BY <1>28, <2>1, <2>2, <2>3
  <2>5. /\ p.consumed \in Nat /\ p.consumed <= Len(p.out) /\ Len(p.out) \in Nat /\ ZEnd(p) \in Nat
        /\ p.sound => Len(p.out) <= ZEnd(p)
        /\ ~FailedOf(f, p) => p.sound /\ p.consumed <= ZEnd(p)
    BY <2>4, ConsumedFacts
  <2> QED
    BY <1>28, <1>30, <2>1, <2>2, <2>5
<1>32. due + had = c + 1 /\ had + want <= call.asked
       /\ (had + want < call.asked => lit # None /\ lit.len = 0)
  BY <1>8, <1>11, <1>12, <1>13
\* What the read has by now is right.
<1>33. ASSUME NEW i \in 1..Len(got)
       PROVE  got[i] = due + i - 1 \/ (got[i] = Junk /\ FailedOf(file', z'))
  <2>1. i \in 1..had + k /\ i \in Nat
    BY <1>23
  <2>2. CASE i <= had
    <3>1. i \in 1..had
      BY <2>1, <2>2
    <3> QED
      BY <1>8, <1>13, <1>23, <1>28, <3>1
  <2>3. CASE ~(i <= had)
    <3>1. PICK j \in 1..k : had + j = i
      <4>1. i - had \in 1..k /\ had + (i - had) = i
        BY <2>1, <2>3
      <4> QED
        BY <4>1
    <3>2. j \in 1..Len(o.items) /\ j \in 1..Len(bytes)
      BY <1>14, <1>17, <1>18
    <3>3. got[i] = o.items[j]
      BY <1>16, <1>23, <3>1, <3>2
    <3>4. o.items[j] = c + j \/ (o.items[j] = Junk /\ ~z'.sound)
      <4>1. z'.sound <=> (z.sound /\ ~Starved(r.bytes))
        BY <1>27 DEF Turned
      <4>2. Len(z.out) = c
        BY <1>8, <1>11
      <4>3. o.items[j] = Len(z.out) + j
            \/ (o.items[j] = Junk /\ ~(z.sound /\ ~Starved(r.bytes)))
        BY <1>10, <3>2
      <4> QED
        BY <4>1, <4>2, <4>3
    <3>5. c + j = due + i - 1
      <4>1. PICK d \in Nat : d = due
        BY <1>4
      <4>2. d + had = c + 1
        BY <1>32, <4>1
      <4>3. c + j = d + i - 1 /\ j \in Nat
        BY <2>1, <3>1, <4>2
      <4> QED
        BY <4>1, <4>3
    <3>6. ~z'.sound => FailedOf(file', z')
      BY <1>28 DEF ZOK
    <3> QED
      BY <3>3, <3>4, <3>5, <3>6
  <2> QED
    BY <2>2, <2>3
<1>34. ~Failed' => end = IF lit = None THEN ZEnd(z) ELSE Lesser(ZEnd(z), c + want + lit.len)
  BY <1>8, <1>11, <1>12, <1>28, <1>30
<1>35. S2kInv' /\ BelowOK(file', encr', hashing') /\ KeyPending' /\ PlainOK'
       /\ lit' = lit /\ end' = end
  <2>1. S2kInv'
    BY S2kInvNext DEF Next
  <2>2. BelowOK(file', encr', hashing')
    BY <1>1, <1>6, <1>24 DEF InputOK
  <2> QED
    BY <1>1, <1>3, <1>29, <2>1, <2>2 DEF KeyPending, PlainOK, Settled
\* The read returns.
<1>36. CASE k = want \/ o.status \in {"failed", "done"}
  <2>1. Return(call.asked, got) /\ call' = Idle
    BY <1>25, <1>26, <1>36
  <2>2. due' = due + (had + k) /\ due' \in Nat /\ due' = c + k + 1
    <3>1. due' = due + Len(got)
      BY <2>1 DEF Return
    <3>2. PICK d \in Nat : d = due
      BY <1>4
    <3>3. d + had = c + 1
      BY <1>32, <3>2
    <3>4. d + (had + k) = c + k + 1 /\ d + (had + k) \in Nat
      BY <3>3
    <3>5. due' = d + (had + k)
      BY <1>23, <3>1, <3>2
    <3> QED
      BY <3>2, <3>4, <3>5
  <2>3. ~Failed' => end = IF lit = None THEN ZEnd(z) ELSE Lesser(ZEnd(z), c + k + lit.len)
    <3>1. CASE k = want
      BY <1>34, <3>1
    <3>2. CASE k # want
      <4> SUFFICES ASSUME ~Failed'
                   PROVE  end = IF lit = None THEN ZEnd(z)
                                ELSE Lesser(ZEnd(z), c + k + lit.len)
        OBVIOUS
      <4>1. c + k = ZEnd(z) /\ k < want
        BY <1>18, <1>28, <1>29, <1>30, <1>36, <3>2
      <4>2. CASE lit = None
        BY <1>34, <4>2
      <4>3. CASE lit # None
        <5>1. PICK l \in Nat : l = lit.len
          BY <1>4, <4>3
        <5>2. Lesser(ZEnd(z), c + want + l) = ZEnd(z) /\ Lesser(ZEnd(z), c + k + l) = ZEnd(z)
          BY <1>9, <4>1, <5>1 DEF Lesser
        <5> QED
          BY <1>34, <4>3, <5>1, <5>2
      <4> QED
        BY <4>2, <4>3
    <3> QED
      BY <3>1, <3>2
  <2>4. ~Failed' => due' - 1 <= end /\ (Len(got) < call.asked => due' - 1 = end)
    <3> SUFFICES ASSUME ~Failed'
                 PROVE  c + k <= end /\ (had + k < call.asked => c + k = end)
      BY <1>23, <2>2
    <3>1. c + k <= ZEnd(z)
      BY <1>29, <1>31
    <3>2. PICK e \in Nat : e = ZEnd(z)
      BY <1>9
    <3>3. k # want => c + k = e
      BY <1>18, <1>28, <1>29, <1>30, <1>36, <3>2
    <3>4. PICK a \in Nat : a = call.asked
      BY <1>8
    <3>5. CASE lit = None
      <4>1. end = e
        BY <2>3, <3>2, <3>5
      <4>2. had + want = a
        BY <1>32, <3>4, <3>5
      <4> QED
        BY <3>1, <3>2, <3>3, <3>4, <4>1, <4>2
    <3>6. CASE lit # None
      <4>1. PICK l \in Nat : l = lit.len
        BY <1>4, <3>6
      <4>2. end = Lesser(e, c + k + l)
        BY <2>3, <3>2, <3>6, <4>1
      <4>3. c + k <= end
        BY <3>1, <3>2, <4>2 DEF Lesser
      <4>4. had + want < a => l = 0
        BY <1>32, <3>4, <4>1
      <4>5. had + want <= a
        BY <1>32, <3>4
      <4>6. had + k < a => c + k = end
        BY <1>18, <3>1, <3>2, <3>3, <4>2, <4>4, <4>5 DEF Lesser
      <4> QED
        BY <3>4, <4>3, <4>6
    <3> QED
      BY <3>5, <3>6
  <2>5. [Source!Next]_(Source!vars) /\ last' \in Reads
    <3>1. Len(got) <= call.asked
      <4>1. PICK a \in Nat : a = call.asked
        BY <1>8
      <4>2. had + want <= a
        BY <1>32, <4>1
      <4> QED
        BY <1>18, <1>23, <4>1, <4>2
    <3>2. \A i \in 1..Len(got) : got[i] = due + i - 1 \/ (got[i] = Junk /\ Failed')
      BY <1>30, <1>33
    <3>3. PICK a \in Nat : a = call.asked
      BY <1>8
    <3>4. Return(a, got) /\ Len(got) <= a
          /\ (~Failed' => due' - 1 <= end /\ (Len(got) < a => due' - 1 = end))
      BY <2>1, <2>4, <3>1, <3>3
    <3> QED
      BY <1>23, <1>30, <1>35, <3>2, <3>4, SourceReads
  <2>6. CallOK(call', z', lit', due', end', file')
    <3>1. due' + 0 = z'.consumed + 1 /\ z'.consumed \in Nat
      BY <1>29, <2>2
    <3>2. ~FailedOf(file', z') =>
             end' = IF lit' = None THEN ZEnd(z') ELSE Lesser(ZEnd(z'), z'.consumed + lit'.len)
      BY <1>28, <1>29, <1>30, <1>35, <2>3
    <3>3. lit' \in {None} \cup LitRecords
      BY <1>4, <1>35
    <3> QED
      BY <2>1, <3>1, <3>2, <3>3, IdleCall
  <2>7. ReadTypes'
    BY <1>4, <1>35, <2>2, <2>5 DEF ReadTypes
  <2>8. Inv'
    BY <1>28, <1>35, <2>6, <2>7 DEF Inv
  <2> QED
    BY <2>5, <2>8 DEF Implemented
\* It goes on.
<1>37. CASE k # want /\ o.status \notin {"failed", "done"}
  <2>1. call' = [call EXCEPT !.want = @ - k, !.got = got] /\ UNCHANGED <<last, due>>
    BY <1>26, <1>37
  <2>2. PICK w \in Nat \ {0} : w = want - k
    BY <1>18, <1>37
  <2>3. call'.asked = call.asked /\ call'.want = w /\ call'.got = got /\ call' \in Calls
    <3>1. call' = [asked |-> call.asked, want |-> w, got |-> got]
      BY <1>8, <1>12, <2>1, <2>2 DEF Calls
    <3> QED
      BY <1>8, <1>23, <3>1 DEF Calls
  <2>4. CallOK(call', z', lit', due', end', file')
    <3>1. due' + Len(call'.got) = z'.consumed + 1
      <4>1. PICK d \in Nat : d = due
        BY <1>4
      <4>2. d + had = c + 1
        BY <1>32, <4>1
      <4>3. d + (had + k) = c + k + 1
        BY <4>2
      <4>4. due' = d /\ Len(call'.got) = had + k /\ z'.consumed = c + k
        BY <1>23, <1>29, <2>1, <2>3, <4>1
      <4> QED
        BY <4>3, <4>4
    <3>2. z'.consumed + call'.want = c + want
      BY <1>29, <2>2, <2>3
    <3>3. ~FailedOf(file', z') =>
             end' = IF lit' = None THEN ZEnd(z')
                    ELSE Lesser(ZEnd(z'), z'.consumed + call'.want + lit'.len)
      BY <1>28, <1>30, <1>34, <1>35, <3>2
    <3>4. \A i \in 1..Len(call'.got) :
            call'.got[i] = due' + i - 1 \/ (call'.got[i] = Junk /\ FailedOf(file', z'))
      BY <1>33, <2>1, <2>3
    <3>5. z'.consumed = Len(z'.out) /\ call'.want > 0
      <4>1. PICK S : S = Nat \cup {Junk}
        OBVIOUS
      <4>2. PICK s \in Seq(S) : s = z.out
        BY <1>9, <4>1 DEF Bytes
      <4>3. PICK t \in Seq(S) : t = o.items
        BY <1>10, <4>1 DEF Bytes
      <4>4. Len(s \o t) = Len(s) + Len(t)
        BY ConcatFacts
      <4>5. z'.out = s \o t
        BY <1>27, <4>2, <4>3 DEF Turned
      <4>6. Len(s) = c /\ Len(t) = k
        BY <1>8, <1>11, <1>14, <1>18, <1>37, <4>2, <4>3
      <4> QED
        BY <1>29, <2>2, <2>3, <4>4, <4>5, <4>6
    <3>6. Len(call'.got) + call'.want = had + want
      BY <1>23, <2>2, <2>3
    <3>7. had + want <= call'.asked /\ (had + want < call'.asked => lit' # None /\ lit'.len = 0)
      BY <1>32, <1>35, <2>3
    <3> QED
      BY <2>3, <3>1, <3>3, <3>4, <3>5, <3>6, <3>7 DEF CallOK
  <2>5. [Source!Next]_(Source!vars)
    BY <1>30, <1>35, <2>1, SourceStays
  <2>6. ReadTypes'
    BY <1>4, <1>35, <2>1 DEF ReadTypes
  <2>7. Inv'
    BY <1>28, <1>35, <2>4, <2>6 DEF Inv
  <2> QED
    BY <2>5, <2>7 DEF Implemented
<1> QED
  BY <1>36, <1>37

-----------------------------------------------------------------------------
LEMMA InitInv == Init => Inv
<1> SUFFICES ASSUME Init PROVE Inv
  OBVIOUS
<1>1. S2kInv
  BY StreamsS2kInit, S2kInitInv
<1>2. /\ encr = None /\ z = None /\ lit = None /\ call = Idle /\ last = Nothing /\ due = 1
      /\ hashing = "idle"
  BY DEF Init, S2kInit
<1>3. PICK s \in FILE_SIZES :
        file = [size |-> s, pos |-> 0, error |-> FALSE, failed |-> FALSE] /\ end = s
  BY DEF Init
<1>4. s \in Nat
  BY SizesAssumption
<1>5. /\ file \in FileRecords /\ file.pos = 0 /\ file.size = s /\ file.pos <= file.size
      /\ end \in Nat /\ ~file.error
  BY <1>3, <1>4 DEF FileRecords
<1>6. BelowOK(file, encr, hashing)
  BY <1>2, <1>5 DEF BelowOK
<1>7. KeyPending /\ PlainOK
  BY <1>2, <1>3, <1>5 DEF KeyPending, PlainOK, Settled, EndPlain, EndBelow
<1>8. ReadTypes
  BY <1>2, <1>5, IdleIs DEF ReadTypes
<1> QED
  BY <1>1, <1>2, <1>6, <1>7, <1>8 DEF Inv

LEMMA StepImplements == Inv /\ [Next]_vars => Implemented
<1> SUFFICES ASSUME Inv, [Next]_vars PROVE Implemented
  OBVIOUS
<1>1. CASE UNCHANGED vars
  <2>1. UNCHANGED <<phrase, count, passes, sha, hashing, file, encr, z, lit, call, last, due, end>>
    BY <1>1 DEF vars, s2kVars, streamVars
  <2>2. S2kInv'
    BY S2kInvNext
  <2>3. Inv'
    BY <2>1, <2>2 DEF Inv, KeyPending, PlainOK, ReadTypes, Settled
  <2>4. Failed => Failed'
    BY <2>1 DEF Failed
  <2> QED
    BY <2>1, <2>3, <2>4, SourceStays DEF Implemented
<1> QED
  BY <1>1, StepOpenEncr, StepHash, StepCheckKey, StepOpenZ, StepOpenLit, StepReadNothing,
     StepReadThrough, StepReadInflated, StepInflate DEF Next

THEOREM StreamsInv == Spec => []Inv
<1>1. Inv /\ [Next]_vars => Inv'
  BY StepImplements DEF Implemented
<1> QED
  BY InitInv, <1>1, PTL DEF Spec

LEMMA InvTypeOK == Inv => TypeOK
<1> SUFFICES ASSUME Inv PROVE TypeOK
  OBVIOUS
<1>1. S2kTypeOK
  BY DEF Inv, S2kInv
<1>2. /\ file \in FileRecords /\ file.pos <= file.size /\ encr \in {None} \cup EncrRecords
      /\ lit \in {None} \cup LitRecords /\ last \in Reads /\ due \in Nat /\ end \in Nat
  BY DEF Inv, BelowOK, ReadTypes
<1>3. z # None => ZShape(z) /\ z \in ZRecords /\ call \in Calls
  BY DEF Inv, ZOK, CallOK, ZShape
<1>4. z = None => call \in Calls
  BY IdleIs DEF Inv, PlainOK
<1>5. z # None => /\ z.fed <= Codes /\ Len(z.in) <= Z_BUF
                  /\ z.consumed <= Len(z.out) /\ Len(z.out) <= Z_OUT_BUF
  BY <1>3 DEF ZShape, Codes
<1> QED
  BY <1>1, <1>2, <1>3, <1>4, <1>5
  DEF TypeOK, FileRecords, EncrRecords, LitRecords, ZRecords, Calls, Reads

(* Every variable of the streams keeps its type, and every buffer its bounds. *)
THEOREM StreamsTypeCorrect == Spec => []TypeOK
BY StreamsInv, InvTypeOK, PTL

(* However headers, list and refills split the reading, the streams hand out  *)
(* the bytes of the stream on top, each once and in order.                    *)
THEOREM StreamsImplementByteSource == Spec => ImplementsByteSource
<1>1. Init => Source!Init
  <2> SUFFICES ASSUME Init PROVE Source!Init
    OBVIOUS
  <2>1. last = Source!Nothing /\ due = 1 /\ end \in Nat
    BY InitInv DEF Init, Nothing, Source!Nothing, Inv, ReadTypes
  <2>2. Failed = FALSE
    BY DEF Init, Failed
  <2> QED
    BY <2>1, <2>2 DEF Source!Init
<1>2. Inv /\ [Next]_vars => [Source!Next]_(Source!vars)
  BY StepImplements DEF Implemented
<1> QED
  BY <1>1, <1>2, StreamsInv, PTL DEF Spec, Source!Spec, ImplementsByteSource

=============================================================================
