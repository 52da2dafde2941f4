----------------------------- MODULE S2kProofs ------------------------------
(***************************************************************************)
(* Proofs about S2k: the pieces that the hash is given do not matter, for  *)
(* every chunk, salt and passphrase length and every count.                *)
(*                                                                         *)
(* The bytes that a context holds are those it has processed and those of  *)
(* its buffer that count, in this order (Held).  Update appends a piece to *)
(* them (UpdateAppends), which is all that compute_key rests on.           *)
(***************************************************************************)
EXTENDS S2k, TLAPS

-----------------------------------------------------------------------------
(* Arithmetic.                                                             *)

LEMMA DivMod ==
  ASSUME NEW a \in Nat, NEW c \in Nat \ {0}
  PROVE  a \div c \in Nat /\ a % c \in 0..c - 1 /\ a = c * (a \div c) + (a % c)
BY SMTT(30)

LEMMA DivModUnique ==
  ASSUME NEW a \in Nat, NEW c \in Nat \ {0}, NEW q \in Nat, NEW r \in 0..c - 1,
         a = c * q + r
  PROVE  a \div c = q /\ a % c = r
BY SMTT(30)

LEMMA DivBelow ==
  ASSUME NEW c \in Nat \ {0}, NEW a \in 0..c - 1
  PROVE  a \div c = 0
<1>1. a \in Nat /\ 0 \in Nat /\ a = c * 0 + a
  OBVIOUS
<1> QED
  BY <1>1, DivModUnique

LEMMA Products ==
  ASSUME NEW c \in Nat, NEW q \in Nat
  PROVE  c * q \in Nat /\ c * (q + 1) = c * q + c /\ q * c = c * q
BY SMTT(30)

\* A multiple and a remainder.
LEMMA ModOfMultiple ==
  ASSUME NEW c \in Nat \ {0}, NEW a \in Nat, a % c = 0, NEW r \in 0..c - 1
  PROVE  (a + r) % c = r
<1>1. a \div c \in Nat /\ a = c * (a \div c)
  BY DivMod
<1>2. a + r = c * (a \div c) + r
  BY <1>1
<1> QED
  BY <1>1, <1>2, DivModUnique

\* Multiples add up.
LEMMA SumOfMultiples ==
  ASSUME NEW c \in Nat \ {0}, NEW a \in Nat, a % c = 0, NEW b \in Nat, b % c = 0
  PROVE  (a + b) % c = 0
<1> DEFINE q == a \div c  r == b \div c
<1>1. q \in Nat /\ a = c * q /\ r \in Nat /\ b = c * r
  BY DivMod
<1> HIDE DEF q, r
<1>2. a + b = c * (q + r) + 0
  <2>1. c * (q + r) = c * q + c * r
    BY <1>1, SMTT(30)
  <2> QED
    BY <1>1, <2>1
<1> QED
  BY <1>1, <1>2, DivModUnique

LEMMA SelfMultiple ==
  ASSUME NEW c \in Nat \ {0}, NEW q \in Nat
  PROVE  (c * q) % c = 0 /\ c % c = 0
<1>1. c * q \in Nat /\ c * q = c * q + 0
  BY Products
<1>2. c = c * 1 + 0
  OBVIOUS
<1> QED
  BY <1>1, <1>2, DivModUnique

-----------------------------------------------------------------------------
(* The hash's context.                                                     *)

WholeChunks(ctx) == Len(ctx.hashed) = ctx.len - (ctx.len % CHUNK)

CtxOK(ctx) == ctx \in ShaContexts /\ WholeChunks(ctx)

\* The bytes that the context was given, in their order.
Held(ctx, i) ==
  IF i <= Len(ctx.hashed) THEN ctx.hashed[i] ELSE ctx.buf[i - Len(ctx.hashed) - 1]

LEMMA ChunkPositive == CHUNK \in Nat \ {0}
BY ChunkAssumption

LEMMA FillFacts ==
  ASSUME NEW ctx, CtxOK(ctx)
  PROVE  /\ Fill(ctx) \in 0..CHUNK - 1
         /\ Len(ctx.hashed) \in Nat /\ Len(ctx.hashed) % CHUNK = 0
         /\ ctx.len = Len(ctx.hashed) + Fill(ctx)
<1>1. ctx.len \in Nat /\ ctx.hashed \in Seq(Byte) /\ Len(ctx.hashed) \in Nat
  BY DEF CtxOK, ShaContexts
<1>2. ctx.len \div CHUNK \in Nat /\ ctx.len % CHUNK \in 0..CHUNK - 1
      /\ ctx.len = CHUNK * (ctx.len \div CHUNK) + (ctx.len % CHUNK)
  BY <1>1, DivMod, ChunkPositive
<1>3. Len(ctx.hashed) = CHUNK * (ctx.len \div CHUNK)
  BY <1>1, <1>2, Products, ChunkPositive DEF CtxOK, WholeChunks
<1>4. Len(ctx.hashed) % CHUNK = 0
  BY <1>2, <1>3, SelfMultiple, ChunkPositive
<1> QED
  BY <1>1, <1>2, <1>3, <1>4, Products, ChunkPositive DEF CtxOK, WholeChunks, Fill

\* WholeChunks chunks of a piece, and what is left of it.
LEMMA WholeFacts ==
  ASSUME NEW n \in Nat
  PROVE  LET w == (n \div CHUNK) * CHUNK
         IN w \in 0..n /\ w % CHUNK = 0 /\ n - w \in 0..CHUNK - 1
<1>1. n \div CHUNK \in Nat /\ n % CHUNK \in 0..CHUNK - 1
      /\ n = CHUNK * (n \div CHUNK) + (n % CHUNK)
  BY DivMod, ChunkPositive
<1>2. (n \div CHUNK) * CHUNK = CHUNK * (n \div CHUNK)
      /\ CHUNK * (n \div CHUNK) \in Nat
  BY <1>1, Products, ChunkPositive
<1>3. (CHUNK * (n \div CHUNK)) % CHUNK = 0
  BY <1>1, SelfMultiple, ChunkPositive
<1> QED
  BY <1>1, <1>2, <1>3, ChunkPositive

LEMMA CopiedFacts ==
  ASSUME NEW buf \in [0..CHUNK - 1 -> Byte], NEW at \in 0..CHUNK - 1, NEW m \in Seq(Byte),
         at + Len(m) <= CHUNK
  PROVE  /\ Copied(buf, at, m) \in [0..CHUNK - 1 -> Byte]
         /\ \A k \in 0..at - 1 : Copied(buf, at, m)[k] = buf[k]
         /\ \A i \in 1..Len(m) : Copied(buf, at, m)[at + i - 1] = m[i]
<1>1. Copied(buf, at, m) \in [0..CHUNK - 1 -> Byte]
  BY ChunkPositive DEF Copied
<1>2. \A k \in 0..at - 1 : Copied(buf, at, m)[k] = buf[k]
  BY ChunkPositive DEF Copied
<1>3. \A i \in 1..Len(m) : Copied(buf, at, m)[at + i - 1] = m[i]
  BY ChunkPositive DEF Copied
<1> QED
  BY <1>1, <1>2, <1>3

\* The first bytes of a piece, and the others.
LEMMA TakeFacts ==
  ASSUME NEW S, NEW m \in Seq(S), NEW n \in Nat, n <= Len(m)
  PROVE  /\ SubSeq(m, 1, n) \in Seq(S) /\ Len(SubSeq(m, 1, n)) = n
         /\ \A k \in 1..n : SubSeq(m, 1, n)[k] = m[k]
OBVIOUS

LEMMA DropFacts ==
  ASSUME NEW S, NEW m \in Seq(S), NEW n \in Nat, n <= Len(m)
  PROVE  /\ SubSeqFrom(m, n + 1) \in Seq(S) /\ Len(SubSeqFrom(m, n + 1)) = Len(m) - n
         /\ \A k \in 1..Len(m) - n : SubSeqFrom(m, n + 1)[k] = m[n + k]
BY DEF SubSeqFrom

LEMMA ConcatFacts ==
  ASSUME NEW S, NEW s \in Seq(S), NEW t \in Seq(S)
  PROVE  /\ s \o t \in Seq(S) /\ Len(s \o t) = Len(s) + Len(t)
         /\ \A i \in 1..Len(s) : (s \o t)[i] = s[i]
         /\ \A i \in 1..Len(t) : (s \o t)[Len(s) + i] = t[i]
OBVIOUS

LEMMA Concat3Facts ==
  ASSUME NEW S, NEW s \in Seq(S), NEW t \in Seq(S), NEW u \in Seq(S)
  PROVE  /\ s \o t \o u \in Seq(S) /\ Len(s \o t \o u) = Len(s) + Len(t) + Len(u)
         /\ \A i \in 1..Len(s) : (s \o t \o u)[i] = s[i]
         /\ \A i \in 1..Len(t) : (s \o t \o u)[Len(s) + i] = t[i]
         /\ \A i \in 1..Len(u) : (s \o t \o u)[Len(s) + Len(t) + i] = u[i]
OBVIOUS

\* sha1_update appends the piece to what the context holds.
LEMMA UpdateAppends ==
  ASSUME NEW ctx, CtxOK(ctx), NEW m \in Seq(Byte)
  PROVE  /\ CtxOK(Update(ctx, m))
         /\ Update(ctx, m).len = ctx.len + Len(m)
         /\ \A i \in 1..ctx.len : Held(Update(ctx, m), i) = Held(ctx, i)
         /\ \A i \in 1..Len(m) : Held(Update(ctx, m), ctx.len + i) = m[i]
<1> DEFINE fill  == Fill(ctx)
           top   == IF fill > 0 /\ Len(m) >= CHUNK - fill THEN CHUNK - fill ELSE 0
           rest  == SubSeqFrom(m, top + 1)
           whole == (Len(rest) \div CHUNK) * CHUNK
           start == SubSeq(m, 1, top)
           full  == Copied(ctx.buf, fill, start)
           left  == SubSeqFrom(rest, whole + 1)
           at    == IF top > 0 THEN 0 ELSE fill
           head  == IF top > 0 THEN Chunk(full) ELSE <<>>
           body  == SubSeq(rest, 1, whole)
           new   == Update(ctx, m)
           L     == Len(ctx.hashed)
<1>0. L % CHUNK = 0
  BY FillFacts
<1>1. fill \in 0..CHUNK - 1 /\ L \in Nat /\ ctx.len = L + fill
  BY FillFacts
<1>2. ctx.len \in Nat /\ Len(m) \in Nat /\ CHUNK \in Nat \ {0}
  BY ChunkPositive DEF CtxOK, ShaContexts
<1>2a. ctx.buf \in [0..CHUNK - 1 -> Byte] /\ ctx.hashed \in Seq(Byte)
  BY DEF CtxOK, ShaContexts
<1>3. new = [len |-> ctx.len + Len(m), buf |-> Copied(full, at, left),
             hashed |-> ctx.hashed \o head \o body]
  BY DEF Update
<1>4. top \in 0..Len(m) /\ fill + top <= CHUNK
      /\ (top > 0 => fill + top = CHUNK) /\ (top = 0 => fill = 0 \/ fill + Len(m) < CHUNK)
  BY <1>1, <1>2
<1> HIDE DEF fill, top, new, L
<1>5. /\ start \in Seq(Byte) /\ Len(start) = top
      /\ \A i \in 1..top : start[i] = m[i]
  BY <1>2, <1>4, TakeFacts
<1>6. /\ rest \in Seq(Byte) /\ Len(rest) = Len(m) - top
      /\ \A i \in 1..Len(m) - top : rest[i] = m[top + i]
  BY <1>2, <1>4, DropFacts
<1> HIDE DEF start, rest
<1>6b. Len(rest) \in Nat /\ Len(rest) = Len(m) - top /\ top \in Nat
  BY <1>2, <1>4, <1>6
<1>6a. whole % CHUNK = 0
  BY <1>6b, WholeFacts
<1>7. whole \in 0..Len(rest) /\ Len(rest) - whole \in 0..CHUNK - 1
  BY <1>6b, WholeFacts
<1>8. (top = 0 /\ fill # 0) => whole = 0
  <2>1. SUFFICES ASSUME top = 0, fill # 0, whole # 0 PROVE FALSE
    OBVIOUS
  <2>2. Len(rest) < CHUNK
    BY <1>1, <1>2, <1>4, <1>6, <2>1
  <2>3. Len(rest) \div CHUNK = 0
    <3>1. Len(rest) \in 0..CHUNK - 1
      BY <1>6b, <2>2, ChunkPositive
    <3> QED
      BY <3>1, ChunkPositive, DivBelow
  <2>4. whole = 0
    BY <1>2, <2>3
  <2> QED
    BY <2>1, <2>4
<1> HIDE DEF whole
<1>8a. /\ rest \in Seq(Byte) /\ whole + 1 \in Nat \ {0} /\ whole \in Nat
       /\ whole + 1 <= Len(rest) + 1 /\ whole <= Len(rest)
       /\ Len(rest) - (whole + 1) + 1 = Len(rest) - whole
       /\ whole - 1 + 1 = whole
  BY <1>6, <1>6b, <1>7
<1>9. /\ left \in Seq(Byte) /\ Len(left) = Len(rest) - whole
      /\ \A i \in 1..Len(rest) - whole : left[i] = m[top + whole + i]
  <2>1. /\ left \in Seq(Byte) /\ Len(left) = Len(rest) - whole
        /\ \A i \in 1..Len(rest) - whole : left[i] = rest[whole + i]
    BY <1>8a, DropFacts
  <2>2. ASSUME NEW i \in 1..Len(rest) - whole PROVE rest[whole + i] = m[top + whole + i]
    <3>1. whole + i \in 1..Len(m) - top /\ top + (whole + i) = top + whole + i
      BY <1>2, <1>6b, <1>8a
    <3>2. rest[whole + i] = m[top + (whole + i)]
      BY <1>6, <3>1
    <3> QED
      BY <3>1, <3>2
  <2> QED
    BY <2>1, <2>2
<1>10. /\ body \in Seq(Byte) /\ Len(body) = whole
       /\ \A i \in 1..whole : body[i] = m[top + i]
  <2>1. /\ body \in Seq(Byte) /\ Len(body) = whole
        /\ \A i \in 1..whole : body[i] = rest[i]
    BY <1>8a, TakeFacts
  <2>2. ASSUME NEW i \in 1..whole PROVE rest[i] = m[top + i]
    <3>1. i \in 1..Len(m) - top
      BY <1>2, <1>6b, <1>8a
    <3> QED
      BY <1>6, <3>1
  <2> QED
    BY <2>1, <2>2
<1> HIDE DEF left, body
<1>11. /\ full \in [0..CHUNK - 1 -> Byte]
       /\ \A k \in 0..fill - 1 : full[k] = ctx.buf[k]
       /\ \A i \in 1..top : full[fill + i - 1] = m[i]
  BY <1>1, <1>2, <1>2a, <1>4, <1>5, CopiedFacts
<1> HIDE DEF full
<1>12. at \in 0..CHUNK - 1 /\ at + Len(left) <= CHUNK
  BY <1>1, <1>2, <1>4, <1>6, <1>7, <1>8, <1>9
<1>13. /\ new.buf \in [0..CHUNK - 1 -> Byte]
       /\ \A k \in 0..at - 1 : new.buf[k] = full[k]
       /\ \A i \in 1..Len(left) : new.buf[at + i - 1] = left[i]
  BY <1>3, <1>9, <1>11, <1>12, CopiedFacts
<1>14. /\ head \in Seq(Byte) /\ Len(head) = IF top > 0 THEN CHUNK ELSE 0
       /\ top > 0 => \A i \in 1..CHUNK : head[i] = full[i - 1]
  <2>1. CASE top = 0
    BY <2>1
  <2>2. CASE top > 0
    BY <2>2, <1>2, <1>11 DEF Chunk
  <2> QED
    BY <2>1, <2>2, <1>4
<1> HIDE DEF head, at
<1>15. ctx.hashed \in Seq(Byte) /\ head \in Seq(Byte) /\ body \in Seq(Byte)
       /\ Len(ctx.hashed) = L /\ Len(body) = whole
  BY <1>2a, <1>10, <1>14 DEF L
<1>16. /\ new.hashed \in Seq(Byte) /\ Len(new.hashed) = L + Len(head) + whole
       /\ \A i \in 1..L : new.hashed[i] = ctx.hashed[i]
       /\ \A i \in 1..Len(head) : new.hashed[L + i] = head[i]
       /\ \A i \in 1..whole : new.hashed[L + Len(head) + i] = m[top + i]
  <2> DEFINE old == ctx.hashed
  <2>1. new.hashed = old \o head \o body /\ old \in Seq(Byte) /\ Len(old) = L
    BY <1>3, <1>15
  <2> HIDE DEF old
  <2>1a. old \in Seq(Byte) /\ head \in Seq(Byte) /\ body \in Seq(Byte)
    BY <1>15, <2>1
  <2>2. /\ old \o head \o body \in Seq(Byte)
        /\ Len(old \o head \o body) = Len(old) + Len(head) + Len(body)
        /\ \A i \in 1..Len(old) : (old \o head \o body)[i] = old[i]
        /\ \A i \in 1..Len(head) : (old \o head \o body)[Len(old) + i] = head[i]
        /\ \A i \in 1..Len(body) :
             (old \o head \o body)[Len(old) + Len(head) + i] = body[i]
    BY <2>1a, Concat3Facts
  <2> QED
    BY <1>10, <1>15, <2>1, <2>2 DEF old
<1>16a. /\ Len(head) = IF top > 0 THEN CHUNK ELSE 0
        /\ Len(new.hashed) = L + Len(head) + whole
  BY <1>14, <1>16
<1>16b. whole \in Nat /\ Len(rest) - whole \in 0..CHUNK - 1 /\ Len(left) = Len(rest) - whole
  BY <1>6b, <1>7, <1>9
<1>17. new \in ShaContexts /\ new.len = ctx.len + Len(m)
  BY <1>2, <1>3, <1>13, <1>16 DEF ShaContexts
<1>18. Len(new.hashed) % CHUNK = 0 /\ new.len - Len(new.hashed) \in 0..CHUNK - 1
  <2>1. Len(head) \in Nat /\ Len(head) % CHUNK = 0
    <3>1. 0 % CHUNK = 0 /\ CHUNK % CHUNK = 0
      <4>1. CHUNK * 0 = 0
        BY <1>2
      <4> QED
        BY <4>1, <1>2, SelfMultiple
    <3> QED
      BY <1>2, <1>4, <1>16a, <3>1
  <2>2. (L + Len(head)) % CHUNK = 0
    BY <1>0, <1>1, <1>2, <2>1, SumOfMultiples
  <2>3. (L + Len(head) + whole) % CHUNK = 0
    <3>1. L + Len(head) \in Nat
      BY <1>1, <2>1
    <3> QED
      BY <1>2, <1>6a, <1>16b, <2>2, <3>1, SumOfMultiples
  <2>4. new.len - Len(new.hashed) = fill + Len(m) - Len(head) - whole
    BY <1>1, <1>2, <1>16a, <1>16b, <1>17, <2>1
  <2>5. CASE top > 0
    BY <2>3, <2>4, <2>5, <1>1, <1>2, <1>4, <1>6b, <1>16a, <1>16b
  <2>6. CASE top = 0 /\ fill = 0
    BY <2>3, <2>4, <2>6, <1>1, <1>2, <1>4, <1>6b, <1>16a, <1>16b
  <2>7. CASE top = 0 /\ fill # 0
    BY <2>3, <2>4, <2>7, <1>1, <1>2, <1>4, <1>6b, <1>8, <1>16a, <1>16b
  <2> QED
    BY <2>5, <2>6, <2>7, <1>4
<1>19. CtxOK(new)
  <2>1. Len(new.hashed) \in Nat /\ new.len \in Nat
    BY <1>17, <1>16 DEF ShaContexts
  <2>2. new.len = Len(new.hashed) + (new.len - Len(new.hashed))
    BY <2>1
  <2>3. new.len % CHUNK = new.len - Len(new.hashed)
    BY <1>2, <1>18, <2>1, <2>2, ModOfMultiple
  <2> QED
    BY <1>17, <2>1, <2>3 DEF CtxOK, WholeChunks
<1>20. ASSUME NEW i \in 1..ctx.len PROVE Held(new, i) = Held(ctx, i)
  <2>1. CASE i <= L
    <3>1. i \in 1..L /\ i <= Len(new.hashed)
      BY <2>1, <1>1, <1>2, <1>4, <1>16a, <1>16b
    <3> QED
      BY <3>1, <1>16, <2>1 DEF Held, L
  <2>2. CASE i > L /\ top > 0
    <3>1. i - L \in 1..CHUNK /\ i - L - 1 \in 0..fill - 1 /\ i <= Len(new.hashed)
      BY <2>2, <1>1, <1>2, <1>4, <1>6, <1>7, <1>14, <1>16
    <3>2. new.hashed[i] = head[i - L]
      BY <3>1, <2>2, <1>1, <1>2, <1>14, <1>16
    <3>3. head[i - L] = ctx.buf[i - L - 1]
      BY <3>1, <2>2, <1>1, <1>11, <1>14
    <3> QED
      BY <3>1, <3>2, <3>3, <2>2, <1>1, <1>2 DEF Held, L
  <2>3. CASE i > L /\ top = 0
    <3>1. fill # 0 /\ whole = 0 /\ Len(new.hashed) = L /\ at = fill /\ i - L - 1 \in 0..fill - 1
      BY <2>3, <1>1, <1>2, <1>8, <1>14, <1>16 DEF at
    <3>2. new.buf[i - L - 1] = ctx.buf[i - L - 1]
      BY <3>1, <1>11, <1>13
    <3> QED
      BY <3>1, <3>2, <2>3, <1>1, <1>2 DEF Held, L
  <2> QED
    BY <2>1, <2>2, <2>3, <1>1, <1>4
<1>21. ASSUME NEW i \in 1..Len(m) PROVE Held(new, ctx.len + i) = m[i]
  <2>1. CASE i <= top
    <3>1. fill + i \in 1..CHUNK /\ ctx.len + i = L + (fill + i) /\ ctx.len + i <= Len(new.hashed)
          /\ Len(head) = CHUNK
      BY <2>1, <1>1, <1>2, <1>4, <1>6b, <1>16a, <1>16b
    <3>2. new.hashed[ctx.len + i] = full[fill + i - 1]
      BY <3>1, <2>1, <1>1, <1>4, <1>14, <1>16
    <3>3. full[fill + i - 1] = m[i]
      BY <2>1, <1>4, <1>11
    <3> QED
      BY <3>1, <3>2, <3>3 DEF Held
  <2>2. CASE i > top /\ i <= top + whole
    <3>1. ctx.len + i = L + Len(head) + (i - top) /\ i - top \in 1..whole
          /\ ctx.len + i <= Len(new.hashed)
      BY <2>2, <1>1, <1>2, <1>4, <1>6b, <1>8, <1>16a, <1>16b
    <3>2. new.hashed[ctx.len + i] = m[i]
      BY <3>1, <1>4, <1>16
    <3> QED
      BY <3>1, <3>2 DEF Held
  <2>3. CASE i > top + whole
    <3> DEFINE j == i - top - whole
    <3>1. j \in 1..Len(left) /\ top + whole + j = i
      BY <2>3, <1>2, <1>6b, <1>16b
    <3>2. left[j] = m[i]
      <4>1. left[j] = m[top + whole + j]
        BY <3>1, <1>9
      <4> QED
        BY <3>1, <4>1
    <3>2a. at = IF top > 0 THEN 0 ELSE fill
      BY DEF at
    <3>2b. ctx.len + i = Len(new.hashed) + at + j /\ Len(new.hashed) \in Nat
      <4> HIDE DEF j
      <4>1. j \in Nat /\ i \in Nat
        BY <3>1, <1>9, <1>16b DEF j
      <4>2. CASE top > 0
        BY <3>1, <3>2a, <4>1, <4>2, <1>1, <1>2, <1>4, <1>6b, <1>16a, <1>16b
      <4>3. CASE top = 0
        BY <3>1, <3>2a, <4>1, <4>3, <1>1, <1>2, <1>4, <1>6b, <1>8, <1>16a, <1>16b
      <4> QED
        BY <4>2, <4>3, <1>4
    <3> HIDE DEF j
    <3>3. new.buf[at + j - 1] = left[j]
      BY <3>1, <1>13
    <3> QED
      BY <3>1, <3>2, <3>2b, <3>3, <1>12 DEF Held
  <2> QED
    BY <2>1, <2>2, <2>3, <1>4, <1>7
<1> QED
  BY <1>17, <1>19, <1>20, <1>21 DEF new

-----------------------------------------------------------------------------
(* compute_key.  What has been hashed is the beginning of the message.     *)

Begun(ctx, n) == ctx.len = n /\ \A i \in 1..n : Held(ctx, i) = Message(i)

\* In between the passes: whole passes are behind, and the rest is to come.
PassesInv ==
  hashing = "passes" =>
    /\ sha.len % Once = 0 /\ sha.len + Once * passes + (count % Once) = count
    /\ Begun(sha, sha.len)

S2kInv ==
  /\ S2kTypeOK
  /\ CtxOK(sha)
  /\ PassesInv
  /\ hashing = "finish" => Begun(sha, count)
  /\ KeyHashed

LEMMA OnceFacts == ASSUME S2kTypeOK PROVE Once \in Nat \ {0} /\ phrase \in Nat
BY MaterialAssumption DEF S2kTypeOK, Once

LEMMA ShaInitOK == CtxOK(ShaInit) /\ ShaInit.len = 0
<1>1. ShaInit \in ShaContexts
  BY ChunkPositive DEF ShaInit, ShaContexts, Unset, Byte
<1>2. 0 % CHUNK = 0
  BY ChunkPositive, DivModUnique, CHUNK * 0 = 0
<1> QED
  BY <1>1, <1>2 DEF ShaInit, CtxOK, WholeChunks

\* The material goes on where a whole pass begins.
LEMMA MessageFacts ==
  ASSUME S2kTypeOK, NEW n \in Nat, n % Once = 0, NEW i \in 1..Once
  PROVE  Message(n + i) = Material(i)
<1>1. Once \in Nat \ {0} /\ i - 1 \in 0..Once - 1 /\ n + i - 1 = n + (i - 1)
  BY OnceFacts
<1>2. (n + (i - 1)) % Once = i - 1
  BY <1>1, ModOfMultiple
<1>3. (n + i - 1) % Once = i - 1
  BY <1>1, <1>2
<1>4. ((n + i - 1) % Once) + 1 = i
  BY <1>1, <1>3
<1> QED
  BY <1>4 DEF Message

LEMMA MaterialByte == \A i \in Nat : Material(i) \in Byte
BY DEF Material, Byte

LEMMA SaltFacts ==
  ASSUME S2kTypeOK, NEW p \in 0..SALT_LEN, NEW q \in 0..phrase
  PROVE  /\ SubSeq(Salt, 1, p) \in Seq(Byte) /\ Len(SubSeq(Salt, 1, p)) = p
         /\ \A i \in 1..p : SubSeq(Salt, 1, p)[i] = Material(i)
         /\ SubSeq(Phrase, 1, q) \in Seq(Byte) /\ Len(SubSeq(Phrase, 1, q)) = q
         /\ \A i \in 1..q : SubSeq(Phrase, 1, q)[i] = Material(SALT_LEN + i)
         /\ SubSeq(Salt, 1, SALT_LEN) = Salt /\ SubSeq(Phrase, 1, phrase) = Phrase
<1>1. Salt \in Seq(Byte) /\ Len(Salt) = SALT_LEN
      /\ \A i \in 1..SALT_LEN : Salt[i] = Material(i)
  BY MaterialByte, MaterialAssumption DEF Salt
<1>2. Phrase \in Seq(Byte) /\ Len(Phrase) = phrase
      /\ \A i \in 1..phrase : Phrase[i] = Material(SALT_LEN + i)
  BY MaterialByte, MaterialAssumption, OnceFacts DEF Phrase
<1> QED
  BY <1>1, <1>2, MaterialAssumption, OnceFacts

\* The two updates of a pass, of which the second is empty or the first whole.
LEMMA PieceHashed ==
  ASSUME S2kTypeOK, NEW ctx, CtxOK(ctx), Begun(ctx, ctx.len), ctx.len % Once = 0,
         NEW p \in 0..SALT_LEN, NEW q \in 0..phrase, p = SALT_LEN \/ q = 0
  PROVE  LET new == Update(Update(ctx, SubSeq(Salt, 1, p)), SubSeq(Phrase, 1, q))
         IN CtxOK(new) /\ Begun(new, ctx.len + p + q)
<1> DEFINE salt == SubSeq(Salt, 1, p)
           tail == SubSeq(Phrase, 1, q)
           mid  == Update(ctx, salt)
           new  == Update(mid, tail)
           n    == ctx.len
<1>1. /\ salt \in Seq(Byte) /\ Len(salt) = p /\ \A i \in 1..p : salt[i] = Material(i)
      /\ tail \in Seq(Byte) /\ Len(tail) = q
      /\ \A i \in 1..q : tail[i] = Material(SALT_LEN + i)
  BY SaltFacts
<1>2. n \in Nat /\ p \in Nat /\ q \in Nat /\ phrase \in Nat /\ SALT_LEN \in Nat
  BY OnceFacts, MaterialAssumption DEF CtxOK, ShaContexts
<1> HIDE DEF salt, tail, mid, new
<1>3. /\ CtxOK(mid) /\ mid.len = n + p
      /\ \A i \in 1..n : Held(mid, i) = Held(ctx, i)
      /\ \A i \in 1..p : Held(mid, n + i) = salt[i]
  BY <1>1, UpdateAppends DEF mid
<1>4. /\ CtxOK(new) /\ new.len = n + p + q
      /\ \A i \in 1..n + p : Held(new, i) = Held(mid, i)
      /\ \A i \in 1..q : Held(new, n + p + i) = tail[i]
  <2>1. /\ CtxOK(new) /\ new.len = mid.len + Len(tail)
        /\ \A i \in 1..mid.len : Held(new, i) = Held(mid, i)
        /\ \A i \in 1..Len(tail) : Held(new, mid.len + i) = tail[i]
    BY <1>1, <1>3, UpdateAppends DEF new
  <2> QED
    BY <1>1, <1>3, <2>1
<1>5. ASSUME NEW i \in 1..n + p + q PROVE Held(new, i) = Message(i)
  <2>1. CASE i <= n
    BY <1>2, <1>3, <1>4, <2>1 DEF Begun
  <2>2. CASE i > n /\ i <= n + p
    <3>1. i - n \in 1..p /\ i - n \in 1..Once /\ n + (i - n) = i /\ i \in 1..n + p
      BY <1>2, <2>2 DEF Once
    <3>2. Held(new, i) = Material(i - n)
      BY <1>1, <1>3, <1>4, <3>1
    <3>3. Message(n + (i - n)) = Material(i - n)
      BY <1>2, <3>1, MessageFacts
    <3> QED
      BY <3>1, <3>2, <3>3
  <2>3. CASE i > n + p
    <3>1. /\ p = SALT_LEN /\ i - n - p \in 1..q /\ n + p + (i - n - p) = i
          /\ i - n \in 1..Once /\ n + (i - n) = i /\ SALT_LEN + (i - n - p) = i - n
      BY <1>2, <2>3 DEF Once
    <3>2. Held(new, i) = Material(i - n)
      BY <1>1, <1>4, <3>1
    <3>3. Message(n + (i - n)) = Material(i - n)
      BY <1>2, <3>1, MessageFacts
    <3> QED
      BY <3>1, <3>2, <3>3
  <2> QED
    BY <1>2, <2>1, <2>2, <2>3
<1> QED
  BY <1>4, <1>5 DEF Begun, new, mid, salt, tail

-----------------------------------------------------------------------------
(* The padding: what sha1_finish appends makes the chunks whole.           *)

LEMMA PaddedLengthFacts ==
  ASSUME NEW ctx, CtxOK(ctx), ctx.len = count
  PROVE  /\ Padding(ctx) \in Seq(Byte) /\ Len(Padding(ctx)) \in Nat
         /\ \A i \in 1..Len(Padding(ctx)) : Padding(ctx)[i] = Pad(i)
         /\ PaddedLength = count + Len(Padding(ctx)) + LENGTH_BYTES
         /\ PaddedLength \in Nat /\ PaddedLength % CHUNK = 0
<1> DEFINE f == Fill(ctx)
           q == count \div CHUNK
           room == CHUNK - LENGTH_BYTES
           n == IF f < room THEN room - f ELSE CHUNK + room - f
<1>1. count \in Nat /\ f = count % CHUNK /\ f \in 0..CHUNK - 1 /\ q \in Nat
      /\ count = CHUNK * q + f
  BY DivMod, ChunkPositive DEF CtxOK, ShaContexts, Fill
<1>2. Padding(ctx) = [i \in 1..n |-> Pad(i)]
  BY DEF Padding
<1> HIDE DEF f, q
<1>3. n \in Nat
  BY <1>1, ChunkAssumption
<1> HIDE DEF n
<1>4. \A i \in Nat : Pad(i) \in Byte
  BY DEF Pad, Byte
<1>5. Padding(ctx) \in Seq(Byte) /\ Len(Padding(ctx)) = n
      /\ \A i \in 1..n : Padding(ctx)[i] = Pad(i)
  BY <1>2, <1>3, <1>4
<1>6. /\ CHUNK * q \in Nat /\ CHUNK * (q + 1) = CHUNK * q + CHUNK
      /\ CHUNK * (q + 1) \in Nat /\ CHUNK * ((q + 1) + 1) = CHUNK * (q + 1) + CHUNK
  BY <1>1, Products, ChunkAssumption
<1>7. CASE f < room
  <2>1. count + LENGTH_BYTES = CHUNK * q + (f + LENGTH_BYTES)
        /\ f + LENGTH_BYTES \in 0..CHUNK - 1 /\ count + LENGTH_BYTES \in Nat
    BY <1>1, <1>6, <1>7, ChunkAssumption
  <2>2. (count + LENGTH_BYTES) \div CHUNK = q
    BY <1>1, <2>1, DivModUnique, ChunkPositive
  <2>3. PaddedLength = CHUNK * (q + 1)
    BY <2>2 DEF PaddedLength
  <2>4. PaddedLength = count + n + LENGTH_BYTES
    BY <1>1, <1>6, <1>7, <2>3, ChunkAssumption DEF n
  <2>5. (CHUNK * (q + 1)) % CHUNK = 0
    <3>1. q + 1 \in Nat
      BY <1>1
    <3> QED
      BY <3>1, SelfMultiple, ChunkPositive
  <2> QED
    BY <1>3, <1>5, <1>6, <2>3, <2>4, <2>5
<1>8. CASE ~(f < room)
  <2>1. count + LENGTH_BYTES = CHUNK * (q + 1) + (f + LENGTH_BYTES - CHUNK)
        /\ f + LENGTH_BYTES - CHUNK \in 0..CHUNK - 1 /\ count + LENGTH_BYTES \in Nat
        /\ q + 1 \in Nat
    BY <1>1, <1>6, <1>8, ChunkAssumption
  <2>2. (count + LENGTH_BYTES) \div CHUNK = q + 1
    BY <2>1, DivModUnique, ChunkPositive
  <2>3. PaddedLength = CHUNK * ((q + 1) + 1) /\ (q + 1) + 1 \in Nat
    BY <1>1, <2>2 DEF PaddedLength
  <2>4. PaddedLength = count + n + LENGTH_BYTES
    BY <1>1, <1>6, <1>8, <2>3, ChunkAssumption DEF n
  <2>5. PaddedLength \in Nat
    BY <1>6, <2>3, ChunkAssumption
  <2> QED
    BY <1>3, <1>5, <2>3, <2>4, <2>5, SelfMultiple, ChunkPositive
<1> QED
  BY <1>7, <1>8

LEMMA FinishHashes ==
  ASSUME NEW ctx, CtxOK(ctx), Begun(ctx, count)
  PROVE  CtxOK(Finish(ctx)) /\ Finish(ctx).hashed = Padded
<1> DEFINE pad == Padding(ctx)
           mid == Update(ctx, pad)
           lb  == [i \in 1..LENGTH_BYTES |-> LengthByte(ctx.len, i)]
           new == Update(mid, lb)
           n   == Len(pad)
<1>1. count \in Nat /\ ctx.len = count /\ LENGTH_BYTES \in Nat
  BY ChunkAssumption DEF Begun, CtxOK, ShaContexts
<1>2. /\ pad \in Seq(Byte) /\ n \in Nat
      /\ \A i \in 1..n : pad[i] = Pad(i)
      /\ PaddedLength = count + n + LENGTH_BYTES
      /\ PaddedLength \in Nat /\ PaddedLength % CHUNK = 0
  BY <1>1, PaddedLengthFacts
<1>3. lb \in Seq(Byte) /\ Len(lb) = LENGTH_BYTES
      /\ \A i \in 1..LENGTH_BYTES : lb[i] = LengthByte(count, i)
  BY <1>1 DEF LengthByte, Byte
<1> HIDE DEF pad, mid, lb, new
<1>4. /\ CtxOK(mid) /\ mid.len = count + n
      /\ \A i \in 1..count : Held(mid, i) = Held(ctx, i)
      /\ \A i \in 1..n : Held(mid, count + i) = pad[i]
  BY <1>1, <1>2, UpdateAppends DEF mid
<1>5. /\ CtxOK(new) /\ new.len = count + n + LENGTH_BYTES
      /\ \A i \in 1..count + n : Held(new, i) = Held(mid, i)
      /\ \A i \in 1..LENGTH_BYTES : Held(new, count + n + i) = lb[i]
  <2>1. /\ CtxOK(new) /\ new.len = mid.len + Len(lb)
        /\ \A i \in 1..mid.len : Held(new, i) = Held(mid, i)
        /\ \A i \in 1..Len(lb) : Held(new, mid.len + i) = lb[i]
    BY <1>3, <1>4, UpdateAppends DEF new
  <2> QED
    BY <1>3, <1>4, <2>1
<1>6. new.hashed \in Seq(Byte) /\ Len(new.hashed) = PaddedLength
  BY <1>2, <1>5 DEF CtxOK, ShaContexts, WholeChunks
<1>7. ASSUME NEW i \in 1..PaddedLength PROVE new.hashed[i] = Padded[i]
  <2>1. new.hashed[i] = Held(new, i)
    BY <1>6 DEF Held
  <2>2. CASE i <= count
    <3>1. i \in 1..count + n /\ i \in 1..count
      BY <1>1, <1>2, <2>2
    <3>2. Held(new, i) = Message(i)
      BY <1>4, <1>5, <3>1 DEF Begun
    <3> QED
      BY <2>1, <2>2, <3>2 DEF Padded
  <2>3. CASE i > count /\ i <= count + n
    <3>1. /\ i \in 1..count + n /\ i - count \in 1..n /\ count + (i - count) = i
          /\ PaddedLength - LENGTH_BYTES = count + n
      BY <1>1, <1>2, <2>3
    <3>2. Held(new, i) = Pad(i - count)
      BY <1>2, <1>4, <1>5, <3>1
    <3> QED
      BY <1>1, <2>1, <2>3, <3>1, <3>2 DEF Padded
  <2>4. CASE i > count + n
    <3>1. /\ i - (count + n) \in 1..LENGTH_BYTES /\ count + n + (i - (count + n)) = i
          /\ PaddedLength - LENGTH_BYTES = count + n /\ ~(i <= count) /\ ~(i <= count + n)
      BY <1>1, <1>2, <2>4
    <3>2. Held(new, i) = LengthByte(count, i - (count + n))
      BY <1>3, <1>5, <3>1
    <3> QED
      BY <2>1, <3>1, <3>2 DEF Padded
  <2> QED
    BY <1>1, <1>2, <2>2, <2>3, <2>4
<1>8. new.hashed = Padded
  <2>1. Padded = [i \in 1..PaddedLength |-> Padded[i]]
    BY DEF Padded
  <2>2. new.hashed = [i \in 1..PaddedLength |-> new.hashed[i]]
    BY <1>6
  <2> QED
    BY <1>7, <2>1, <2>2
<1>9. Finish(ctx) = new
  BY DEF Finish, new, mid, lb, pad
<1> QED
  BY <1>5, <1>8, <1>9

-----------------------------------------------------------------------------
(* The invariant is inductive.                                             *)

LEMMA S2kInitInv == S2kInit => S2kInv
<1> SUFFICES ASSUME S2kInit PROVE S2kInv
  OBVIOUS
<1>1. CtxOK(sha) /\ sha \in ShaContexts
  BY ShaInitOK DEF S2kInit, CtxOK
<1> QED
  BY <1>1 DEF S2kInit, S2kInv, S2kTypeOK, PassesInv, KeyHashed

LEMMA ComputeKeyInv == S2kInv /\ ComputeKey => S2kInv'
<1> SUFFICES ASSUME S2kInv, ComputeKey PROVE S2kInv'
  OBVIOUS
<1>1. phrase' \in PHRASE_LENS /\ phrase' \in Nat /\ Once' \in Nat \ {0}
  <2>1. phrase' \in PHRASE_LENS
    BY DEF ComputeKey
  <2>2. Once' = phrase' + SALT_LEN
    BY DEF Once
  <2>3. phrase' \in Nat
    BY <2>1, MaterialAssumption
  <2>4. phrase' + SALT_LEN \in Nat \ {0}
    <3> DEFINE n == phrase'
    <3>1. n \in Nat /\ SALT_LEN \in Nat \ {0}
      BY <2>3, MaterialAssumption
    <3> HIDE DEF n
    <3>2. n + SALT_LEN \in Nat \ {0}
      BY <3>1
    <3> QED
      BY <3>2 DEF n
  <2> QED
    BY <2>1, <2>2, <2>3, <2>4
<1>2. count' \in Nat
  BY <1>1, MaterialAssumption DEF ComputeKey
<1>3. count' \div Once' \in Nat /\ count' = Once' * (count' \div Once') + (count' % Once')
      /\ count' % Once' \in Nat
  <2> DEFINE c == count'  o == Once'
  <2>1. c \in Nat /\ o \in Nat \ {0}
    BY <1>1, <1>2
  <2> HIDE DEF c, o
  <2>2. c \div o \in Nat /\ c = o * (c \div o) + (c % o) /\ c % o \in Nat
    <3>1. c \div o \in Nat /\ c % o \in 0..o - 1 /\ c = o * (c \div o) + (c % o)
      BY <2>1, DivMod
    <3> QED
      BY <2>1, <3>1
  <2> QED
    BY <2>2, Zenon DEF c, o
<1>4. passes' = count' \div Once' /\ sha' = ShaInit /\ hashing' = "passes"
  BY DEF ComputeKey
<1>5. CtxOK(sha)' /\ sha'.len = 0
  <2>1. CtxOK(sha') /\ sha'.len = 0
    BY <1>4, ShaInitOK
  <2> QED
    BY <2>1 DEF CtxOK, ShaContexts, WholeChunks
<1>6. sha'.len % Once' = 0
  <2> DEFINE o == Once'
  <2>1. o \in Nat \ {0}
    BY <1>1
  <2> HIDE DEF o
  <2>2. o * 0 = 0 /\ (o * 0) % o = 0
    BY <2>1, SelfMultiple
  <2>3. 0 % o = 0
    BY <2>2
  <2> QED
    BY <1>5, <2>3 DEF o
<1>7. sha'.len + Once' * passes' + (count' % Once') = count'
  <2>1. Once' * passes' \in Nat
    BY <1>1, <1>3, <1>4, Products
  <2> QED
    BY <1>3, <1>4, <1>5, <2>1
<1>8. PassesInv'
  <2>1. \A i \in 1..sha'.len : Held(sha', i) = Message(i)'
    BY <1>5
  <2> QED
    BY <1>6, <1>7, <2>1 DEF PassesInv, Begun, Held
<1>9. S2kTypeOK'
  BY <1>1, <1>2, <1>3, <1>4, <1>5 DEF S2kTypeOK, CtxOK
<1> QED
  BY <1>4, <1>5, <1>8, <1>9 DEF S2kInv, KeyHashed

LEMMA PassInv == S2kInv /\ Pass => S2kInv'
<1> SUFFICES ASSUME S2kInv, Pass PROVE S2kInv'
  OBVIOUS
<1>1. S2kTypeOK /\ CtxOK(sha) /\ sha.len % Once = 0 /\ Begun(sha, sha.len)
      /\ sha.len + Once * passes + (count % Once) = count
  BY DEF S2kInv, PassesInv, Pass
<1>2. /\ Once \in Nat \ {0} /\ phrase \in Nat /\ SALT_LEN \in Nat /\ sha.len \in Nat
      /\ passes \in Nat /\ passes > 0 /\ passes' = passes - 1 /\ count \in Nat
      /\ count' = count /\ phrase' = phrase /\ hashing' = "passes"
  BY <1>1, OnceFacts, MaterialAssumption DEF Pass, S2kTypeOK, CtxOK, ShaContexts
<1>3. sha' = Update(Update(sha, SubSeq(Salt, 1, SALT_LEN)), SubSeq(Phrase, 1, phrase))
  <2>1. SubSeq(Salt, 1, SALT_LEN) = Salt /\ SubSeq(Phrase, 1, phrase) = Phrase
    BY <1>1, <1>2, SaltFacts
  <2> QED
    BY <2>1 DEF Pass
<1>4. CtxOK(sha') /\ Begun(sha', sha.len + SALT_LEN + phrase)
  BY <1>1, <1>2, <1>3, PieceHashed
<1>5. sha'.len = sha.len + Once /\ Begun(sha', sha'.len) /\ sha.len + SALT_LEN + phrase = sha'.len
  BY <1>2, <1>4 DEF Begun, Once
<1>6. sha'.len % Once = 0
  <2>1. Once % Once = 0
    BY <1>2, SelfMultiple
  <2> QED
    BY <1>1, <1>2, <1>5, <2>1, SumOfMultiples
<1>7. sha'.len + Once * passes' + (count % Once) = count
  <2>1. Once * passes = Once * passes' + Once /\ Once * passes' \in Nat
    <3>1. passes' \in Nat /\ passes = passes' + 1
      BY <1>2
    <3> QED
      BY <1>2, <3>1, Products
  <2>2. count % Once \in Nat
    BY <1>2, DivMod
  <2> QED
    BY <1>1, <1>2, <1>5, <2>1, <2>2
<1>8. Once' = Once
  BY <1>2 DEF Once
<1>9. PassesInv'
  <2>1. \A i \in 1..sha'.len : Held(sha', i) = Message(i)'
    BY <1>5, <1>8 DEF Begun, Message
  <2> QED
    BY <1>2, <1>6, <1>7, <1>8, <2>1 DEF PassesInv, Begun, Held
<1>10. S2kTypeOK' /\ CtxOK(sha)'
  BY <1>1, <1>2, <1>4 DEF S2kTypeOK, CtxOK, ShaContexts, WholeChunks
<1> QED
  BY <1>2, <1>9, <1>10 DEF S2kInv, KeyHashed

LEMMA RestInv == S2kInv /\ Rest => S2kInv'
<1> SUFFICES ASSUME S2kInv, Rest PROVE S2kInv'
  OBVIOUS
<1> DEFINE m == count % Once
           p == IF m > SALT_LEN THEN SALT_LEN ELSE m
<1>1. S2kTypeOK /\ CtxOK(sha) /\ sha.len % Once = 0 /\ Begun(sha, sha.len)
      /\ sha.len + Once * passes + m = count
  BY DEF S2kInv, PassesInv, Rest
<1>2. /\ Once \in Nat \ {0} /\ phrase \in Nat /\ SALT_LEN \in Nat /\ sha.len \in Nat
      /\ passes = 0 /\ passes' = passes /\ count \in Nat
      /\ count' = count /\ phrase' = phrase /\ hashing' = "finish"
      /\ sha' = Update(Update(sha, SubSeq(Salt, 1, p)), SubSeq(Phrase, 1, m - p))
  BY <1>1, OnceFacts, MaterialAssumption DEF Rest, S2kTypeOK, CtxOK, ShaContexts
<1>3. m \in 0..Once - 1 /\ Once * passes = 0
  BY <1>2, DivMod
<1> HIDE DEF m
<1>4. p \in 0..SALT_LEN /\ m - p \in 0..phrase /\ (p = SALT_LEN \/ m - p = 0)
      /\ sha.len + p + (m - p) = count
  <2>1. sha.len + m = count /\ m \in 0..phrase + SALT_LEN - 1
    BY <1>1, <1>2, <1>3 DEF Once
  <2> QED
    BY <1>2, <2>1
<1> HIDE DEF p
<1>5. CtxOK(sha') /\ Begun(sha', count)
  <2>1. CtxOK(sha') /\ Begun(sha', sha.len + p + (m - p))
    BY <1>1, <1>2, <1>4, PieceHashed
  <2> QED
    BY <1>4, <2>1
<1>6. Begun(sha, count)'
  <2>1. Once' = Once
    BY <1>2 DEF Once
  <2>2. \A i \in 1..count' : Held(sha', i) = Message(i)'
    BY <1>2, <1>5, <2>1 DEF Begun, Message
  <2> QED
    BY <1>2, <1>5, <2>2 DEF Begun, Held
<1>7. S2kTypeOK' /\ CtxOK(sha)'
  BY <1>1, <1>2, <1>5 DEF S2kTypeOK, CtxOK, ShaContexts, WholeChunks
<1> QED
  BY <1>2, <1>6, <1>7 DEF S2kInv, KeyHashed, PassesInv

LEMMA FinishHashInv == S2kInv /\ FinishHash => S2kInv'
<1> SUFFICES ASSUME S2kInv, FinishHash PROVE S2kInv'
  OBVIOUS
<1>1. S2kTypeOK /\ CtxOK(sha) /\ Begun(sha, count)
  BY DEF S2kInv, FinishHash
<1>2. /\ phrase' = phrase /\ count' = count /\ passes' = passes
      /\ sha' = Finish(sha) /\ hashing' = "done"
  BY DEF FinishHash
<1>3. CtxOK(sha') /\ sha'.hashed = Padded
  BY <1>1, <1>2, FinishHashes
<1>4. Padded' = Padded
  BY <1>2 DEF Padded, PaddedLength, Message, Once
<1>5. S2kTypeOK' /\ CtxOK(sha)'
  BY <1>1, <1>2, <1>3 DEF S2kTypeOK, CtxOK, ShaContexts, WholeChunks
<1> QED
  BY <1>2, <1>3, <1>4, <1>5 DEF S2kInv, KeyHashed, PassesInv

LEMMA KeyComputedInv == S2kInv /\ KeyComputed => S2kInv'
<1> SUFFICES ASSUME S2kInv, KeyComputed PROVE S2kInv'
  OBVIOUS
<1>1. /\ phrase' = 0 /\ count' = 0 /\ passes' = 0
      /\ sha' = ShaInit /\ hashing' = "computed"
  BY DEF KeyComputed
<1>2. CtxOK(sha)' /\ sha' \in ShaContexts
  BY <1>1, ShaInitOK DEF CtxOK, ShaContexts, WholeChunks
<1> QED
  BY <1>1, <1>2 DEF S2kInv, S2kTypeOK, KeyHashed, PassesInv

LEMMA S2kStutterInv == S2kInv /\ UNCHANGED s2kVars => S2kInv'
<1> SUFFICES ASSUME S2kInv, UNCHANGED s2kVars PROVE S2kInv'
  OBVIOUS
<1>1. phrase' = phrase /\ count' = count /\ passes' = passes /\ sha' = sha
      /\ hashing' = hashing
  BY DEF s2kVars
<1>2. Once' = Once /\ Padded' = Padded
  BY <1>1 DEF Padded, PaddedLength, Message, Once
<1> QED
  BY <1>1, <1>2
  DEF S2kInv, S2kTypeOK, CtxOK, ShaContexts, WholeChunks, PassesInv, Begun, Held, Message, KeyHashed

LEMMA S2kStepInv == S2kInv /\ [S2kNext]_s2kVars => S2kInv'
BY ComputeKeyInv, PassInv, RestInv, FinishHashInv, KeyComputedInv, S2kStutterInv
DEF S2kNext, HashKey

\* S2kInv is inductive: whatever uses compute_key in these steps alone keeps it.
THEOREM S2kInvariant == S2kSpec => []S2kInv
<1>1. S2kInit => S2kInv
  BY S2kInitInv
<1>2. S2kInv /\ [S2kNext]_s2kVars => S2kInv'
  BY S2kStepInv
<1> QED
  BY <1>1, <1>2, PTL DEF S2kSpec

(* Whatever the lengths of the chunks, of the salt and of the passphrase, and *)
(* however often they are hashed: compute_key hashes count bytes of them, and *)
(* sha1.c loses none of them between two pieces.                              *)
THEOREM KeyAlwaysHashed == S2kSpec => []KeyHashed
<1>1. S2kInv => KeyHashed
  BY DEF S2kInv
<1> QED
  BY <1>1, S2kInvariant, PTL
=============================================================================
