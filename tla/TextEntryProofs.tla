-------------------------- MODULE TextEntryProofs ---------------------------
(***************************************************************************)
(* Proofs about TextEntry, for every set of characters and digits and      *)
(* every size of the buffers: types, the wheel's index, and that the       *)
(* buffers implement EditedText.                                           *)
(*                                                                         *)
(* As long as a buffer holds NUL from its length on (Shaped), its string   *)
(* is known.  A PIN buffer whose text was replaced under pin_len can have  *)
(* NULs anywhere; that it holds a string at all is the principle that of   *)
(* the places of NUL one is the first (Least).                             *)
(***************************************************************************)
EXTENDS TextEntry, SequenceTheorems, WellFoundedInduction, TLAPS

-----------------------------------------------------------------------------
(* Strings.                                                                *)

LEMMA Least ==
  ASSUME NEW T, T \subseteq Nat, T # {}
  PROVE  \E x \in T : \A y \in T : x <= y
<1>1. PICK R : R = OpToRel(<,Nat)
  OBVIOUS
<1>2. IsWellFoundedOn(R, Nat)
  BY <1>1, NatLessThanWellFounded
<1>3. \E x \in T : \A y \in T : <<y, x>> \notin R
  BY <1>2, WFMin
<1>4. \A x, y \in Nat : y < x => <<y, x>> \in R
  BY <1>1 DEF OpToRel
<1>5. PICK x \in T : \A y \in T : <<y, x>> \notin R
  BY <1>3
<1>6. ASSUME NEW y \in T PROVE x <= y
  <2>1. x \in Nat /\ y \in Nat
    OBVIOUS
  <2>2. ~(y < x)
    BY <1>4, <1>5, <2>1
  <2> QED
    BY <2>1, <2>2
<1> QED
  BY <1>6

Ends(s, n) == n \in DOMAIN s /\ s[n] = NUL /\ \A i \in 0 .. n - 1 : s[i] # NUL

Shaped(s, n) == \A i \in DOMAIN s : s[i] = NUL <=> i >= n

LEMMA StrLenIs ==
  ASSUME NEW m \in Nat, NEW s, DOMAIN s = 0 .. m - 1, NEW n, Ends(s, n)
  PROVE  StrLen(s) = n /\ n \in 0 .. m - 1
<1>1. n \in 0 .. m - 1 /\ s[n] = NUL /\ \A i \in 0 .. n - 1 : s[i] # NUL
  BY DEF Ends
<1> DEFINE k == StrLen(s)
<1>2. k \in DOMAIN s /\ s[k] = NUL /\ \A i \in 0 .. k - 1 : s[i] # NUL
  BY <1>1 DEF StrLen
<1> HIDE DEF k
<1>3. k \in 0 .. m - 1
  BY <1>2
<1>4. ~(k < n) /\ ~(n < k)
  BY <1>1, <1>2, <1>3
<1>5. k = n
  BY <1>1, <1>3, <1>4
<1> QED
  BY <1>1, <1>5 DEF k

\* A buffer of m characters from S, some of them NUL.
Buffers(m, S) == [0 .. m - 1 -> S \cup {NUL}]

LEMMA StrIs ==
  ASSUME NEW m \in Nat, NEW S, NEW s \in Buffers(m, S), NEW n, Ends(s, n)
  PROVE  /\ n \in 0 .. m - 1 /\ Str(s) = [i \in 1 .. n |-> s[i - 1]]
         /\ Str(s) \in [1 .. n -> S] /\ Str(s) \in Seq(S) /\ Len(Str(s)) = n
         /\ \A i \in 1 .. n : Str(s)[i] = s[i - 1]
<1>0. DOMAIN s = 0 .. m - 1 /\ \A i \in 0 .. m - 1 : s[i] \in S \cup {NUL}
  BY DEF Buffers
<1>1. StrLen(s) = n /\ n \in 0 .. m - 1
  BY <1>0, StrLenIs
<1>2. Str(s) = [i \in 1 .. n |-> s[i - 1]]
  BY <1>1 DEF Str
<1>3. ASSUME NEW i \in 1 .. n PROVE s[i - 1] \in S
  <2>1. i - 1 \in 0 .. n - 1 /\ i - 1 \in 0 .. m - 1
    BY <1>1
  <2> QED
    BY <1>0, <2>1 DEF Ends
<1>4. Str(s) \in [1 .. n -> S]
  BY <1>2, <1>3
<1>5. Str(s) \in Seq(S) /\ Len(Str(s)) = n
  BY <1>1, <1>2, <1>3
<1> QED
  BY <1>1, <1>2, <1>4, <1>5

LEMMA ShapedEnds ==
  ASSUME NEW m \in Nat, NEW s, DOMAIN s = 0 .. m - 1, NEW n \in 0 .. m - 1, Shaped(s, n)
  PROVE  Ends(s, n)
BY DEF Shaped, Ends

LEMMA Terminates ==
  ASSUME NEW m \in Nat \ {0}, NEW s, DOMAIN s = 0 .. m - 1, s[m - 1] = NUL
  PROVE  \E n \in 0 .. m - 1 : Ends(s, n)
<1> DEFINE T == {i \in 0 .. m - 1 : s[i] = NUL}
<1>1. T \subseteq Nat /\ m - 1 \in T
  OBVIOUS
<1>2. PICK n \in T : \A i \in T : n <= i
  BY <1>1, Least
<1>3. n \in 0 .. m - 1 /\ s[n] = NUL
  OBVIOUS
<1>4. ASSUME NEW i \in 0 .. n - 1 PROVE s[i] # NUL
  <2>1. i \in 0 .. m - 1 /\ ~(n <= i)
    BY <1>3
  <2> QED
    BY <1>2, <2>1
<1> QED
  BY <1>3, <1>4 DEF Ends

-----------------------------------------------------------------------------
(* Writing into a buffer at or before the end of its text.                 *)

Put(s, i, c) == [s EXCEPT ![i] = c]

LEMMA SeqEq ==
  ASSUME NEW S, NEW u \in Seq(S), NEW v \in Seq(S), Len(u) = Len(v),
         \A i \in 1 .. Len(u) : u[i] = v[i]
  PROVE  u = v
OBVIOUS

LEMMA SeqEnds ==
  ASSUME NEW S, NEW u \in Seq(S), NEW c \in S
  PROVE  /\ Append(u, c) \in Seq(S) /\ Len(Append(u, c)) = Len(u) + 1
         /\ \A i \in 1 .. Len(u) + 1 : Append(u, c)[i] = IF i = Len(u) + 1 THEN c ELSE u[i]
         /\ u # <<>> <=> Len(u) > 0
         /\ Len(u) > 0 => /\ Texts!Front(u) \in Seq(S) /\ Len(Texts!Front(u)) = Len(u) - 1
                          /\ \A i \in 1 .. Len(u) - 1 : Texts!Front(u)[i] = u[i]
                          /\ \A i \in 1 .. Len(u) : /\ [u EXCEPT ![i] = c] \in Seq(S)
                                                  /\ Len([u EXCEPT ![i] = c]) = Len(u)
<1>1. Append(u, c) \in Seq(S) /\ Len(Append(u, c)) = Len(u) + 1
  OBVIOUS
<1>2. \A i \in 1 .. Len(u) + 1 : Append(u, c)[i] = IF i = Len(u) + 1 THEN c ELSE u[i]
  OBVIOUS
<1>3. u # <<>> <=> Len(u) > 0
  OBVIOUS
<1>4. ASSUME Len(u) > 0
      PROVE  /\ Texts!Front(u) \in Seq(S) /\ Len(Texts!Front(u)) = Len(u) - 1
             /\ \A i \in 1 .. Len(u) - 1 : Texts!Front(u)[i] = u[i]
  <2>1. PICK k \in Nat : k = Len(u) - 1 /\ k + 1 = Len(u)
    BY <1>4
  <2>2. Texts!Front(u) = SubSeq(u, 1, k)
    BY <2>1 DEF Texts!Front
  <2>3. /\ SubSeq(u, 1, k) \in Seq(S) /\ Len(SubSeq(u, 1, k)) = k
        /\ \A i \in 1 .. k : SubSeq(u, 1, k)[i] = u[i]
    BY <2>1, SubSeqProperties
  <2> QED
    BY <2>1, <2>2, <2>3
<1>5. ASSUME NEW i \in 1 .. Len(u)
      PROVE  [u EXCEPT ![i] = c] \in Seq(S) /\ Len([u EXCEPT ![i] = c]) = Len(u)
  OBVIOUS
<1> QED
  BY <1>1, <1>2, <1>3, <1>4, <1>5

\* What Shaped says of a buffer.
LEMMA ShapedIs ==
  ASSUME NEW m \in Nat, NEW S, NEW s \in Buffers(m, S),
         NEW n \in 0 .. m - 1, Shaped(s, n)
  PROVE  /\ Str(s) \in Seq(S) /\ Len(Str(s)) = n
         /\ \A i \in 1 .. n : Str(s)[i] = s[i - 1] /\ s[i - 1] \in S
<1>1. Ends(s, n)
  BY ShapedEnds DEF Buffers
<1>2. Str(s) \in [1 .. n -> S] /\ Str(s) \in Seq(S) /\ Len(Str(s)) = n
      /\ \A i \in 1 .. n : Str(s)[i] = s[i - 1]
  BY <1>1, StrIs
<1> QED
  BY <1>2

LEMMA PutNext ==
  ASSUME NEW m \in Nat, NEW S, NUL \notin S, NEW s \in Buffers(m, S),
         NEW n \in Nat, n < m - 1, Shaped(s, n), NEW c \in S
  PROVE  /\ Put(s, n, c) \in Buffers(m, S) /\ Shaped(Put(s, n, c), n + 1)
         /\ Str(Put(s, n, c)) = Append(Str(s), c)
<1>0. PICK t : t = Put(s, n, c)
  OBVIOUS
<1>1. /\ t \in Buffers(m, S) /\ DOMAIN t = 0 .. m - 1 /\ n \in 0 .. m - 1 /\ n + 1 \in 0 .. m - 1
      /\ \A i \in 0 .. m - 1 : t[i] = IF i = n THEN c ELSE s[i]
  BY <1>0 DEF Put, Buffers
<1>2. Shaped(t, n + 1)
  <2>1. ASSUME NEW i \in 0 .. m - 1 PROVE t[i] = NUL <=> i >= n + 1
    BY <1>1 DEF Shaped, Buffers
  <2> QED
    BY <1>1, <2>1 DEF Shaped
<1>3. /\ Str(s) \in Seq(S) /\ Len(Str(s)) = n
      /\ \A i \in 1 .. n : Str(s)[i] = s[i - 1]
  BY <1>1, ShapedIs
<1>4. /\ Str(t) \in Seq(S) /\ Len(Str(t)) = n + 1
      /\ \A i \in 1 .. n + 1 : Str(t)[i] = t[i - 1]
  BY <1>1, <1>2, ShapedIs
<1>5. PICK u \in Seq(S) : u = Str(s)
  BY <1>3
<1>6. PICK v \in Seq(S) : v = Str(t)
  BY <1>4
<1>7. /\ Append(u, c) \in Seq(S) /\ Len(Append(u, c)) = Len(u) + 1
      /\ \A i \in 1 .. Len(u) + 1 : Append(u, c)[i] = IF i = Len(u) + 1 THEN c ELSE u[i]
  BY SeqEnds
<1>8. ASSUME NEW i \in 1 .. n + 1 PROVE v[i] = Append(u, c)[i]
  <2>1. i - 1 \in 0 .. m - 1 /\ v[i] = t[i - 1]
    BY <1>1, <1>4, <1>6
  <2>2. t[i - 1] = IF i = n + 1 THEN c ELSE s[i - 1]
    BY <1>1, <2>1
  <2>3. i # n + 1 => u[i] = s[i - 1]
    BY <1>3, <1>5
  <2>4. Append(u, c)[i] = IF i = n + 1 THEN c ELSE u[i]
    BY <1>3, <1>5, <1>7
  <2> QED
    BY <2>1, <2>2, <2>3, <2>4
<1>9. v = Append(u, c)
  <2>1. Len(v) = n + 1 /\ Len(Append(u, c)) = n + 1
    BY <1>3, <1>4, <1>5, <1>6, <1>7
  <2> QED
    BY <1>7, <1>8, <2>1, SeqEq
<1> QED
  BY <1>0, <1>1, <1>2, <1>5, <1>6, <1>9

LEMMA PutEnd ==
  ASSUME NEW m \in Nat, NEW S, NUL \notin S, NEW s \in Buffers(m, S),
         NEW n \in 1 .. m - 1, Shaped(s, n)
  PROVE  /\ Put(s, n - 1, NUL) \in Buffers(m, S)
         /\ Shaped(Put(s, n - 1, NUL), n - 1)
         /\ Str(Put(s, n - 1, NUL)) = Texts!Front(Str(s))
<1>0. PICK t : t = Put(s, n - 1, NUL)
  OBVIOUS
<1>1. /\ t \in Buffers(m, S) /\ DOMAIN t = 0 .. m - 1 /\ n \in 0 .. m - 1 /\ n - 1 \in 0 .. m - 1
      /\ \A i \in 0 .. m - 1 : t[i] = IF i = n - 1 THEN NUL ELSE s[i]
  BY <1>0 DEF Put, Buffers
<1>2. Shaped(t, n - 1)
  <2>1. ASSUME NEW i \in 0 .. m - 1 PROVE t[i] = NUL <=> i >= n - 1
    BY <1>1 DEF Shaped, Buffers
  <2> QED
    BY <1>1, <2>1 DEF Shaped
<1>3. /\ Str(s) \in Seq(S) /\ Len(Str(s)) = n
      /\ \A i \in 1 .. n : Str(s)[i] = s[i - 1] /\ s[i - 1] \in S
  BY <1>1, ShapedIs
<1>4. /\ Str(t) \in Seq(S) /\ Len(Str(t)) = n - 1
      /\ \A i \in 1 .. n - 1 : Str(t)[i] = t[i - 1]
  BY <1>1, <1>2, ShapedIs
<1>5. PICK u \in Seq(S) : u = Str(s)
  BY <1>3
<1>6. PICK v \in Seq(S) : v = Str(t)
  BY <1>4
<1>7. /\ Texts!Front(u) \in Seq(S) /\ Len(Texts!Front(u)) = n - 1
      /\ \A i \in 1 .. n - 1 : Texts!Front(u)[i] = u[i]
  <2>1. PICK c \in S : TRUE
    BY <1>3
  <2>2. Len(u) = n /\ Len(u) > 0
    BY <1>3, <1>5
  <2> QED
    BY <2>2, SeqEnds
<1>8. ASSUME NEW i \in 1 .. n - 1 PROVE v[i] = Texts!Front(u)[i]
  <2>1. i - 1 \in 0 .. m - 1 /\ i - 1 # n - 1 /\ i \in 1 .. n
    OBVIOUS
  <2>2. v[i] = t[i - 1] /\ t[i - 1] = s[i - 1]
    BY <1>1, <1>4, <1>6, <2>1
  <2>3. u[i] = s[i - 1]
    BY <1>3, <1>5, <2>1
  <2> QED
    BY <1>7, <2>2, <2>3
<1>9. v = Texts!Front(u)
  <2>1. PICK w \in Seq(S) : w = Texts!Front(u)
    BY <1>7
  <2>2. Len(v) = n - 1 /\ Len(w) = n - 1
    BY <1>4, <1>6, <1>7, <2>1
  <2>3. \A i \in 1 .. Len(v) : v[i] = w[i]
    BY <1>8, <2>1, <2>2
  <2>4. v = w
    BY <2>2, <2>3, SeqEq
  <2> QED
    BY <2>1, <2>4
<1> QED
  BY <1>0, <1>1, <1>2, <1>5, <1>6, <1>9

LEMMA PutLast ==
  ASSUME NEW m \in Nat, NEW S, NUL \notin S, NEW s \in Buffers(m, S),
         NEW n \in 1 .. m - 1, Shaped(s, n), NEW c \in S
  PROVE  /\ Put(s, n - 1, c) \in Buffers(m, S)
         /\ Shaped(Put(s, n - 1, c), n)
         /\ Str(Put(s, n - 1, c)) = [Str(s) EXCEPT ![n] = c]
<1>0. PICK t : t = Put(s, n - 1, c)
  OBVIOUS
<1>1. /\ t \in Buffers(m, S) /\ DOMAIN t = 0 .. m - 1 /\ n \in 0 .. m - 1 /\ n - 1 \in 0 .. m - 1
      /\ \A i \in 0 .. m - 1 : t[i] = IF i = n - 1 THEN c ELSE s[i]
  BY <1>0 DEF Put, Buffers
<1>2. Shaped(t, n)
  <2>1. ASSUME NEW i \in 0 .. m - 1 PROVE t[i] = NUL <=> i >= n
    BY <1>1 DEF Shaped, Buffers
  <2> QED
    BY <1>1, <2>1 DEF Shaped
<1>3. /\ Str(s) \in Seq(S) /\ Len(Str(s)) = n
      /\ \A i \in 1 .. n : Str(s)[i] = s[i - 1]
  BY <1>1, ShapedIs
<1>4. /\ Str(t) \in Seq(S) /\ Len(Str(t)) = n
      /\ \A i \in 1 .. n : Str(t)[i] = t[i - 1]
  BY <1>1, <1>2, ShapedIs
<1>5. PICK u \in Seq(S) : u = Str(s)
  BY <1>3
<1>6. PICK v \in Seq(S) : v = Str(t)
  BY <1>4
<1>7. PICK w \in Seq(S) : w = [u EXCEPT ![n] = c] /\ Len(w) = n
  <2>1. Len(u) = n /\ Len(u) > 0 /\ n \in 1 .. Len(u)
    BY <1>3, <1>5
  <2>2. [u EXCEPT ![n] = c] \in Seq(S) /\ Len([u EXCEPT ![n] = c]) = Len(u)
    BY <2>1, SeqEnds
  <2> QED
    BY <2>1, <2>2
<1>8. ASSUME NEW i \in 1 .. n PROVE v[i] = w[i]
  <2>1. i - 1 \in 0 .. m - 1 /\ v[i] = t[i - 1]
    BY <1>4, <1>6
  <2>2. t[i - 1] = IF i = n THEN c ELSE s[i - 1]
    BY <1>1, <2>1
  <2>3. u[i] = s[i - 1] /\ i \in DOMAIN u
    BY <1>3, <1>5
  <2>4. w[i] = IF i = n THEN c ELSE u[i]
    BY <1>7, <2>3
  <2> QED
    BY <2>1, <2>2, <2>3, <2>4
<1>9. v = w
  <2>1. Len(v) = n
    BY <1>4, <1>6
  <2> QED
    BY <1>7, <1>8, <2>1, SeqEq
<1> QED
  BY <1>0, <1>1, <1>2, <1>5, <1>6, <1>7, <1>9

-----------------------------------------------------------------------------
(* The characters.                                                         *)

LEMMA CharsetFacts ==
  /\ PASSPHRASE_CHARSET_LEN \in Nat \ {0} /\ DOMAIN Charset = 1 .. PASSPHRASE_CHARSET_LEN
  /\ \A i \in 0 .. PASSPHRASE_CHARSET_LEN - 1 : CharAt(i) \in Chars /\ CharAt(i) # NUL
  /\ \A c \in Chars : c # NUL /\ \E i \in 0 .. PASSPHRASE_CHARSET_LEN - 1 : CharAt(i) = c
<1>1. Charset \in Seq(Chars) /\ Charset # <<>>
  BY CharsetAssumption DEF Chars
<1>2. /\ PASSPHRASE_CHARSET_LEN \in Nat \ {0}
      /\ DOMAIN Charset = 1 .. PASSPHRASE_CHARSET_LEN
  BY <1>1 DEF PASSPHRASE_CHARSET_LEN
<1>3. \A i \in 1 .. PASSPHRASE_CHARSET_LEN : Charset[i] \in Chars /\ Charset[i] # NUL
  BY <1>2, CharsetAssumption DEF Chars
<1>4. ASSUME NEW i \in 0 .. PASSPHRASE_CHARSET_LEN - 1
      PROVE  CharAt(i) \in Chars /\ CharAt(i) # NUL
  <2>1. i + 1 \in 1 .. PASSPHRASE_CHARSET_LEN
    BY <1>2
  <2> QED
    BY <1>3, <2>1 DEF CharAt
<1>5. ASSUME NEW c \in Chars
      PROVE  c # NUL /\ \E i \in 0 .. PASSPHRASE_CHARSET_LEN - 1 : CharAt(i) = c
  <2>1. PICK j \in 1 .. PASSPHRASE_CHARSET_LEN : Charset[j] = c
    BY <1>2 DEF Chars
  <2>2. j - 1 \in 0 .. PASSPHRASE_CHARSET_LEN - 1 /\ (j - 1) + 1 = j
    BY <1>2
  <2>3. CharAt(j - 1) = c
    BY <2>1, <2>2 DEF CharAt
  <2> QED
    BY <1>3, <2>1, <2>2, <2>3
<1> QED
  BY <1>2, <1>4, <1>5

\* Up and down turn the wheel, over both ends.
LEMMA WheelFacts ==
  ASSUME NEW i \in 0 .. PASSPHRASE_CHARSET_LEN - 1
  PROVE  /\ LET n == IF i + 1 >= PASSPHRASE_CHARSET_LEN THEN 0 ELSE i + 1
            IN n \in 0 .. PASSPHRASE_CHARSET_LEN - 1 /\ Texts!Follows(CharAt(i), CharAt(n))
         /\ LET n == IF i - 1 < 0 THEN PASSPHRASE_CHARSET_LEN - 1 ELSE i - 1
            IN n \in 0 .. PASSPHRASE_CHARSET_LEN - 1 /\ Texts!Follows(CharAt(n), CharAt(i))
<1> DEFINE len == PASSPHRASE_CHARSET_LEN
<1>1. len \in Nat \ {0} /\ len = Len(Charset)
  BY CharsetFacts DEF PASSPHRASE_CHARSET_LEN
<1> HIDE DEF len
<1>2. ASSUME NEW j \in 0 .. len - 1
      PROVE  LET n == IF j + 1 >= len THEN 0 ELSE j + 1
             IN n \in 0 .. len - 1 /\ Texts!Follows(CharAt(j), CharAt(n))
  <2> DEFINE n == IF j + 1 >= len THEN 0 ELSE j + 1
  <2>1. n \in 0 .. len - 1 /\ j + 1 \in 1 .. len
    BY <1>1
  <2>2. (j + 1) % len = n
    <3>1. CASE j + 1 >= len
      <4>1. j + 1 = len /\ n = 0
        BY <1>1, <3>1
      <4>2. len % len = 0
        BY <1>1
      <4> QED
        BY <4>1, <4>2
    <3>2. CASE ~(j + 1 >= len)
      <4>1. j + 1 \in 0 .. len - 1
        BY <1>1, <3>2
      <4>2. \A k \in 0 .. len - 1 : k % len = k
        BY <1>1
      <4> QED
        BY <3>2, <4>1, <4>2
    <3> QED
      BY <3>1, <3>2
  <2>3. CharAt(j) = Charset[j + 1] /\ CharAt(n) = Charset[((j + 1) % len) + 1]
    BY <2>2 DEF CharAt
  <2>4. Texts!Follows(CharAt(j), CharAt(n))
    BY <1>1, <2>1, <2>3 DEF Texts!Follows
  <2> QED
    BY <2>1, <2>4
<1>3. LET n == IF i - 1 < 0 THEN len - 1 ELSE i - 1
      IN n \in 0 .. len - 1 /\ Texts!Follows(CharAt(n), CharAt(i))
  <2> DEFINE n == IF i - 1 < 0 THEN len - 1 ELSE i - 1
  <2>1. n \in 0 .. len - 1 /\ i \in 0 .. len - 1
    BY <1>1 DEF len
  <2>2. i = IF n + 1 >= len THEN 0 ELSE n + 1
    BY <1>1, <2>1
  <2>3. Texts!Follows(CharAt(n), CharAt(i))
    BY <1>2, <2>1, <2>2
  <2> QED
    BY <2>1, <2>3
<1>4. i \in 0 .. len - 1
  BY DEF len
<1> QED
  BY <1>2, <1>3, <1>4 DEF len

-----------------------------------------------------------------------------
(* The invariant.                                                          *)

IInv ==
  /\ TypeOK
  /\ Shaped(passphrase, passphraseLen)
  /\ WheelShowsLast
  /\ view = "PASS" => passphraseLen > 0
  /\ view = "PIN" => pinCaption \in PinNames

PassBuffers == Buffers(PASSPHRASE_BUFSIZE, Chars)

Pins == [b \in PinNames |-> Str(pin[b])]

TextVars == <<Str(passphrase), Pins, pinCaption, PinReplaced>>

LEMMA SizeFacts ==
  /\ PASSPHRASE_BUFSIZE \in Nat /\ PASSPHRASE_BUFSIZE > 1
  /\ PIN_BUFSIZE \in Nat /\ PIN_BUFSIZE > 1 /\ NUL \notin Digits
BY PinAssumption

\* The passphrase as a string.
LEMMA PassFacts ==
  ASSUME NEW s \in PassBuffers, NEW n \in 0 .. PASSPHRASE_BUFSIZE - 1, Shaped(s, n)
  PROVE  /\ Str(s) = [i \in 1 .. n |-> s[i - 1]] /\ Str(s) \in Seq(Chars) /\ Len(Str(s)) = n
         /\ \A i \in 1 .. n : Str(s)[i] = s[i - 1]
<1>1. PASSPHRASE_BUFSIZE \in Nat /\ s \in Buffers(PASSPHRASE_BUFSIZE, Chars)
  BY SizeFacts DEF PassBuffers
<1>2. Ends(s, n)
  BY <1>1, ShapedEnds DEF Buffers
<1> QED
  BY <1>1, <1>2, StrIs

\* A step that edits the passphrase.
LEMMA PassStep ==
  ASSUME IInv, UNCHANGED <<pin, pinCaption, pinLen>>, pinSet' \in BOOLEAN,
         view' = "PASS", passphrase' \in PassBuffers,
         passphraseLen' \in 1 .. PASSPHRASE_BUFSIZE - 1,
         passphraseIndex' \in 0 .. PASSPHRASE_CHARSET_LEN - 1,
         Shaped(passphrase', passphraseLen'),
         passphrase'[passphraseLen' - 1] = CharAt(passphraseIndex'),
         Texts!AskPassphrase \/ Texts!EditPassphrase
  PROVE  IInv' /\ [Texts!Next]_TextVars
<1>1. TypeOK'
  BY SizeFacts DEF IInv, TypeOK, PassBuffers, Buffers
<1>2. IInv'
  BY <1>1, SizeFacts DEF IInv, WheelShowsLast
<1>3. UNCHANGED <<Pins, pinCaption, PinReplaced>>
  BY DEF Pins, PinReplaced
<1>4. Texts!Next
  BY <1>3 DEF Texts!Next, Pins, PinNames, Texts!PinNames
<1> QED
  BY <1>2, <1>4

LEMMA StepAskPassphrase == ASSUME IInv, AskPassphrase PROVE IInv' /\ [Texts!Next]_TextVars
<1>1. PICK p : p = passphrase'
  OBVIOUS
<1>2. /\ view' = "PASS" /\ passphraseLen' = 1 /\ passphraseIndex' = 0 /\ pinSet' = FALSE
      /\ p = [i \in 0 .. PASSPHRASE_BUFSIZE - 1 |-> IF i = 0 THEN CharAt(0) ELSE NUL]
      /\ UNCHANGED <<pin, pinCaption, pinLen>>
  BY <1>1 DEF AskPassphrase, pinVars
<1>3. /\ PASSPHRASE_CHARSET_LEN \in Nat \ {0} /\ 0 \in 0 .. PASSPHRASE_CHARSET_LEN - 1
      /\ CharAt(0) \in Chars /\ CharAt(0) # NUL
  BY CharsetFacts
<1>4. /\ DOMAIN p = 0 .. PASSPHRASE_BUFSIZE - 1 /\ 1 \in 0 .. PASSPHRASE_BUFSIZE - 1
      /\ p[0] = CharAt(0) /\ \A i \in 0 .. PASSPHRASE_BUFSIZE - 1 : i >= 1 => p[i] = NUL
  BY <1>2, SizeFacts
<1>5. p \in PassBuffers
  BY <1>2, <1>3 DEF PassBuffers, Buffers
<1>6. Shaped(p, 1)
  <2>1. \A i \in 0 .. PASSPHRASE_BUFSIZE - 1 : i >= 1 \/ i = 0
    BY SizeFacts
  <2> QED
    BY <1>3, <1>4, <2>1 DEF Shaped
<1>7. Str(p) = <<Charset[1]>>
  <2>1. Str(p) \in Seq(Chars) /\ Len(Str(p)) = 1 /\ Str(p)[1] = p[0]
    <3>1. PICK n \in 0 .. PASSPHRASE_BUFSIZE - 1 : n = 1
      BY <1>4
    <3>2. /\ Str(p) \in Seq(Chars) /\ Len(Str(p)) = n
          /\ \A i \in 1 .. n : Str(p)[i] = p[i - 1]
      BY <1>5, <1>6, <3>1, PassFacts
    <3>3. 1 \in 1 .. n /\ 1 - 1 = 0
      BY <3>1
    <3> QED
      BY <3>1, <3>2, <3>3
  <2>2. PICK u \in Seq(Chars) : u = Str(p)
    BY <2>1
  <2>3. p[0] = Charset[1] /\ Charset[1] \in Chars
    BY <1>3, <1>4 DEF CharAt
  <2>4. u = <<Charset[1]>>
    BY <2>1, <2>2, <2>3
  <2> QED
    BY <2>2, <2>4
<1>8. Texts!AskPassphrase
  BY <1>1, <1>7 DEF Texts!AskPassphrase
<1>9. passphrase'[passphraseLen' - 1] = CharAt(passphraseIndex')
  BY <1>1, <1>2, <1>4
<1>10. passphraseLen' \in 1 .. PASSPHRASE_BUFSIZE - 1
  BY <1>2, SizeFacts
<1> QED
  BY <1>1, <1>2, <1>3, <1>5, <1>6, <1>8, <1>9, <1>10, PassStep

\* Before a click in the passphrase view.
LEMMA Clicked ==
  ASSUME IInv, PassClick
  PROVE  /\ passphraseLen \in 1 .. PASSPHRASE_BUFSIZE - 1
         /\ passphraseIndex \in 0 .. PASSPHRASE_CHARSET_LEN - 1
         /\ PASSPHRASE_BUFSIZE \in Nat /\ passphrase \in Buffers(PASSPHRASE_BUFSIZE, Chars)
         /\ NUL \notin Chars /\ Shaped(passphrase, passphraseLen)
         /\ passphrase[passphraseLen - 1] = CharAt(passphraseIndex)
         /\ view' = "PASS" /\ pinSet' \in BOOLEAN /\ UNCHANGED <<pin, pinCaption, pinLen>>
<1>1. /\ passphraseLen > 0 /\ passphraseLen \in 0 .. PASSPHRASE_BUFSIZE - 1
      /\ passphraseIndex \in 0 .. PASSPHRASE_CHARSET_LEN - 1
      /\ Shaped(passphrase, passphraseLen) /\ pinSet \in BOOLEAN
      /\ view' = "PASS" /\ UNCHANGED pinSet /\ UNCHANGED <<pin, pinCaption, pinLen>>
  BY DEF IInv, TypeOK, PassClick, pinVars
<1>2. passphrase \in Buffers(PASSPHRASE_BUFSIZE, Chars)
  BY DEF IInv, TypeOK, Buffers
<1>3. NUL \notin Chars
  BY CharsetFacts
<1>4. passphrase[passphraseLen - 1] = CharAt(passphraseIndex)
  BY <1>1 DEF IInv, WheelShowsLast
<1> QED
  BY <1>1, <1>2, <1>3, <1>4, SizeFacts

LEMMA StepPassBack == ASSUME IInv, PassBack PROVE IInv' /\ [Texts!Next]_TextVars
<1>1. PICK n : n = passphraseLen
  OBVIOUS
<1>2. PICK s : s = passphrase
  OBVIOUS
<1>3. PICK m \in Nat : m = PASSPHRASE_BUFSIZE
  BY SizeFacts
<1>4. /\ PassClick /\ n > 1 /\ passphrase' = Put(s, n - 1, NUL)
      /\ passphraseLen' = n - 1 /\ passphraseIndex' = IndexOf(s[n - 2])
  BY <1>1, <1>2 DEF PassBack, Put
<1>5. /\ n \in 1 .. m - 1 /\ s \in Buffers(m, Chars) /\ NUL \notin Chars /\ Shaped(s, n)
      /\ view' = "PASS" /\ pinSet' \in BOOLEAN /\ UNCHANGED <<pin, pinCaption, pinLen>>
  BY <1>1, <1>2, <1>3, <1>4, Clicked
<1>6. /\ Put(s, n - 1, NUL) \in Buffers(m, Chars) /\ Shaped(Put(s, n - 1, NUL), n - 1)
      /\ Str(Put(s, n - 1, NUL)) = Texts!Front(Str(s))
  BY <1>5, PutEnd
<1>7. Len(Str(s)) = n
  BY <1>5, ShapedIs
<1>8. Texts!EditPassphrase
  <2>1. Str(passphrase)' = Texts!Front(Str(passphrase))
    BY <1>2, <1>4, <1>6
  <2>2. Len(Str(passphrase)) > 1
    BY <1>2, <1>4, <1>7
  <2> QED
    BY <2>1, <2>2 DEF Texts!EditPassphrase, Texts!Shorten
<1>9. /\ passphraseIndex' \in 0 .. PASSPHRASE_CHARSET_LEN - 1
      /\ passphrase'[passphraseLen' - 1] = CharAt(passphraseIndex')
  <2>1. n - 2 \in 0 .. m - 1 /\ n - 2 # n - 1 /\ (n - 1) - 1 = n - 2 /\ n - 1 \in 1 .. n
    BY <1>4, <1>5
  <2>2. s[n - 2] \in Chars
    <3>1. \A i \in 1 .. n : s[i - 1] \in Chars
      BY <1>5, ShapedIs
    <3> QED
      BY <2>1, <3>1
  <2>3. \E i \in 0 .. PASSPHRASE_CHARSET_LEN - 1 : CharAt(i) = s[n - 2]
    BY <2>2, CharsetFacts
  <2>4. /\ IndexOf(s[n - 2]) \in 0 .. PASSPHRASE_CHARSET_LEN - 1
        /\ CharAt(IndexOf(s[n - 2])) = s[n - 2]
    BY <2>3 DEF IndexOf
  <2>5. Put(s, n - 1, NUL)[n - 2] = s[n - 2]
    BY <1>5, <2>1 DEF Put, Buffers
  <2> QED
    BY <1>4, <2>1, <2>4, <2>5
<1>10. passphraseLen' \in 1 .. PASSPHRASE_BUFSIZE - 1
  BY <1>3, <1>4, <1>5
<1>11. passphrase' \in PassBuffers /\ Shaped(passphrase', passphraseLen')
  BY <1>3, <1>4, <1>6 DEF PassBuffers
<1> QED
  BY <1>5, <1>8, <1>9, <1>10, <1>11, PassStep

LEMMA StepPassFwd == ASSUME IInv, PassFwd PROVE IInv' /\ [Texts!Next]_TextVars
<1>1. PICK n : n = passphraseLen
  OBVIOUS
<1>2. PICK s : s = passphrase
  OBVIOUS
<1>3. PICK m \in Nat : m = PASSPHRASE_BUFSIZE
  BY SizeFacts
<1>4. PICK c : c = CharAt(passphraseIndex)
  OBVIOUS
<1>5. /\ PassClick /\ n < m - 1 /\ passphrase' = Put(s, n, c)
      /\ passphraseLen' = n + 1 /\ passphraseIndex' = passphraseIndex
  BY <1>1, <1>2, <1>3, <1>4 DEF PassFwd, NewChar, Put
<1>6. /\ n \in 1 .. m - 1 /\ s \in Buffers(m, Chars) /\ NUL \notin Chars /\ Shaped(s, n)
      /\ s[n - 1] = c /\ passphraseIndex \in 0 .. PASSPHRASE_CHARSET_LEN - 1
      /\ view' = "PASS" /\ pinSet' \in BOOLEAN /\ UNCHANGED <<pin, pinCaption, pinLen>>
  BY <1>1, <1>2, <1>3, <1>4, <1>5, Clicked
<1>7. c \in Chars /\ n \in Nat
  BY <1>4, <1>6, CharsetFacts
<1>8. /\ Put(s, n, c) \in Buffers(m, Chars) /\ Shaped(Put(s, n, c), n + 1)
      /\ Str(Put(s, n, c)) = Append(Str(s), c)
  BY <1>5, <1>6, <1>7, PutNext
<1>9. Len(Str(s)) = n /\ Str(s)[n] = c
  BY <1>6, ShapedIs
<1>10. Texts!EditPassphrase
  <2>1. Str(passphrase)' = Append(Str(passphrase), Str(passphrase)[Len(Str(passphrase))])
    BY <1>2, <1>5, <1>8, <1>9
  <2>2. Len(Str(passphrase)) \in 1 .. (PASSPHRASE_BUFSIZE - 1) - 1
    BY <1>2, <1>3, <1>5, <1>6, <1>9
  <2> QED
    BY <2>1, <2>2 DEF Texts!EditPassphrase, Texts!Extend
<1>11. passphrase'[passphraseLen' - 1] = CharAt(passphraseIndex')
  <2>1. n \in 0 .. m - 1 /\ (n + 1) - 1 = n
    BY <1>6
  <2>2. Put(s, n, c)[n] = c
    BY <1>6, <2>1 DEF Put, Buffers
  <2> QED
    BY <1>4, <1>5, <2>1, <2>2
<1>12. passphraseLen' \in 1 .. PASSPHRASE_BUFSIZE - 1
  BY <1>3, <1>5, <1>6
<1>13. passphrase' \in PassBuffers /\ Shaped(passphrase', passphraseLen')
  BY <1>3, <1>5, <1>8 DEF PassBuffers
<1> QED
  BY <1>5, <1>6, <1>10, <1>11, <1>12, <1>13, PassStep

LEMMA StepTurnTo ==
  ASSUME IInv, NEW i \in 0 .. PASSPHRASE_CHARSET_LEN - 1, TurnTo(i),
         \/ Texts!Follows(CharAt(passphraseIndex), CharAt(i))
         \/ Texts!Follows(CharAt(i), CharAt(passphraseIndex))
  PROVE  IInv' /\ [Texts!Next]_TextVars
<1>1. PICK n : n = passphraseLen
  OBVIOUS
<1>2. PICK s : s = passphrase
  OBVIOUS
<1>3. PICK m \in Nat : m = PASSPHRASE_BUFSIZE
  BY SizeFacts
<1>4. PICK c : c = CharAt(i)
  OBVIOUS
<1>5. /\ PassClick /\ passphrase' = Put(s, n - 1, c)
      /\ passphraseLen' = n /\ passphraseIndex' = i
  BY <1>1, <1>2, <1>4 DEF TurnTo, Put
<1>6. /\ n \in 1 .. m - 1 /\ s \in Buffers(m, Chars) /\ NUL \notin Chars /\ Shaped(s, n)
      /\ s[n - 1] = CharAt(passphraseIndex)
      /\ view' = "PASS" /\ pinSet' \in BOOLEAN /\ UNCHANGED <<pin, pinCaption, pinLen>>
  BY <1>1, <1>2, <1>3, <1>5, Clicked
<1>7. c \in Chars
  BY <1>4, CharsetFacts
<1>8. /\ Put(s, n - 1, c) \in Buffers(m, Chars) /\ Shaped(Put(s, n - 1, c), n)
      /\ Str(Put(s, n - 1, c)) = [Str(s) EXCEPT ![n] = c]
  BY <1>6, <1>7, PutLast
<1>9. Str(s) \in Seq(Chars) /\ Len(Str(s)) = n /\ Str(s)[n] = s[n - 1]
  BY <1>6, ShapedIs
<1>10. Texts!EditPassphrase
  <2>1. PICK u \in Seq(Chars) : u = Str(s)
    BY <1>9
  <2>2. PICK v : v = [u EXCEPT ![n] = c]
    OBVIOUS
  <2>3. /\ Str(passphrase) = u /\ Str(passphrase)' = v /\ Len(u) = n /\ u # <<>>
        /\ v[n] = c /\ u[n] = CharAt(passphraseIndex)
    BY <1>2, <1>5, <1>6, <1>8, <1>9, <2>1, <2>2
  <2>4. PICK j \in 1 .. Len(Charset) : c = Charset[j]
    <3>1. i + 1 \in 1 .. Len(Charset)
      BY CharsetFacts DEF PASSPHRASE_CHARSET_LEN
    <3> QED
      BY <1>4, <3>1 DEF CharAt
  <2>5. Texts!Follows(u[n], v[n]) \/ Texts!Follows(v[n], u[n])
    BY <1>4, <2>3
  <2>6. \E k \in 1 .. Len(Charset) : v = [u EXCEPT ![Len(u)] = Charset[k]]
    BY <2>2, <2>3, <2>4
  <2>7. Texts!Turn
    BY <2>3, <2>5, <2>6 DEF Texts!Turn
  <2> QED
    BY <2>7 DEF Texts!EditPassphrase
<1>11. passphrase'[passphraseLen' - 1] = CharAt(passphraseIndex')
  <2>1. n - 1 \in 0 .. m - 1
    BY <1>6
  <2>2. Put(s, n - 1, c)[n - 1] = c
    BY <1>6, <2>1 DEF Put, Buffers
  <2> QED
    BY <1>4, <1>5, <2>2
<1>12. passphraseLen' \in 1 .. PASSPHRASE_BUFSIZE - 1
  BY <1>3, <1>5, <1>6
<1>13. passphrase' \in PassBuffers /\ Shaped(passphrase', passphraseLen')
  BY <1>3, <1>5, <1>8 DEF PassBuffers
<1> QED
  BY <1>5, <1>6, <1>10, <1>11, <1>12, <1>13, PassStep

LEMMA StepTurn == ASSUME IInv, PassUp \/ PassDown PROVE IInv' /\ [Texts!Next]_TextVars
<1>1. passphraseIndex \in 0 .. PASSPHRASE_CHARSET_LEN - 1
  BY DEF IInv, TypeOK
<1>2. CASE PassUp
  <2>1. PICK n : n = IF passphraseIndex + 1 >= PASSPHRASE_CHARSET_LEN
                     THEN 0 ELSE passphraseIndex + 1
    OBVIOUS
  <2>2. TurnTo(n)
    BY <1>2, <2>1 DEF PassUp
  <2>3. /\ n \in 0 .. PASSPHRASE_CHARSET_LEN - 1
        /\ Texts!Follows(CharAt(passphraseIndex), CharAt(n))
    BY <1>1, <2>1, WheelFacts
  <2> QED
    BY <2>2, <2>3, StepTurnTo
<1>3. CASE PassDown
  <2>1. PICK n : n = IF passphraseIndex - 1 < 0
                     THEN PASSPHRASE_CHARSET_LEN - 1 ELSE passphraseIndex - 1
    OBVIOUS
  <2>2. TurnTo(n)
    BY <1>3, <2>1 DEF PassDown
  <2>3. /\ n \in 0 .. PASSPHRASE_CHARSET_LEN - 1
        /\ Texts!Follows(CharAt(n), CharAt(passphraseIndex))
    BY <1>1, <2>1, WheelFacts
  <2> QED
    BY <2>2, <2>3, StepTurnTo
<1> QED
  BY <1>2, <1>3

-----------------------------------------------------------------------------
(* The PIN.                                                                *)

LEMMA PinReplacedIs ==
  /\ PinReplaced \in BOOLEAN /\ PinReplaced' \in BOOLEAN
  /\ TypeOK => (PinReplaced <=> pinCaption \in PinNames /\ ~Shaped(pin[pinCaption], pinLen))
  /\ TypeOK' =>
       (PinReplaced' <=> pinCaption' \in PinNames /\ ~Shaped(pin'[pinCaption'], pinLen'))
<1>1. PinReplaced \in BOOLEAN /\ PinReplaced' \in BOOLEAN
  BY DEF PinReplaced
<1>2. \A s \in PinBuffers : DOMAIN s = DOMAIN EmptyPin
  BY DEF PinBuffers, EmptyPin
<1>3. ASSUME TypeOK, pinCaption \in PinNames
      PROVE  PinReplaced <=> ~Shaped(pin[pinCaption], pinLen)
  <2>1. DOMAIN pin[pinCaption] = DOMAIN EmptyPin
    BY <1>2, <1>3 DEF TypeOK
  <2> QED
    BY <1>3, <2>1, Zenon DEF PinReplaced, Shaped
<1>4. ASSUME TypeOK', pinCaption' \in PinNames
      PROVE  PinReplaced' <=> ~Shaped(pin'[pinCaption'], pinLen')
  <2>1. DOMAIN pin'[pinCaption'] = DOMAIN EmptyPin
    BY <1>2, <1>4 DEF TypeOK
  <2> QED
    BY <1>4, <2>1, Zenon DEF PinReplaced, Shaped
<1>5. PinReplaced => pinCaption \in PinNames
  BY DEF PinReplaced
<1>6. PinReplaced' => pinCaption' \in PinNames
  BY DEF PinReplaced
<1> QED
  BY <1>1, <1>3, <1>4, <1>5, <1>6

\* Whatever is in a PIN buffer, as a string it is a text that fits.
LEMMA PinText ==
  ASSUME NEW s \in PinBuffers, s[PIN_BUFSIZE - 1] = NUL
  PROVE  Str(s) \in Texts!PinTexts
<1>1. PICK m \in Nat \ {0} : m = PIN_BUFSIZE
  BY SizeFacts
<1>2. s \in Buffers(m, Digits) /\ DOMAIN s = 0 .. m - 1 /\ s[m - 1] = NUL
  BY <1>1 DEF PinBuffers, Buffers
<1>3. PICK n \in 0 .. m - 1 : Ends(s, n)
  BY <1>2, Terminates
<1>4. Str(s) \in [1 .. n -> Digits]
  BY <1>2, <1>3, StrIs
<1>5. n \in 0 .. PIN_BUFSIZE - 1
  BY <1>1
<1> QED
  BY <1>4, <1>5 DEF Texts!PinTexts

\* Writing one of the buffers.
LEMMA PinPut ==
  ASSUME TypeOK, NEW b \in PinNames, NEW s \in PinBuffers, s[PIN_BUFSIZE - 1] = NUL,
         pin' = Put(pin, b, s)
  PROVE  /\ pin' \in [PinNames -> PinBuffers] /\ \A a \in PinNames : pin'[a][PIN_BUFSIZE - 1] = NUL
         /\ pin'[b] = s /\ \A a \in PinNames \ {b} : pin'[a] = pin[a]
         /\ Pins' = [Pins EXCEPT ![b] = Str(s)]
<1>1. pin \in [PinNames -> PinBuffers] /\ \A a \in PinNames : pin[a][PIN_BUFSIZE - 1] = NUL
  BY DEF TypeOK
<1>2. PICK p : p = pin'
  OBVIOUS
<1>3. /\ p \in [PinNames -> PinBuffers] /\ p[b] = s
      /\ \A a \in PinNames \ {b} : p[a] = pin[a]
  BY <1>1, <1>2 DEF Put
<1>4. \A a \in PinNames : p[a][PIN_BUFSIZE - 1] = NUL
  BY <1>1, <1>3
<1>5. [a \in PinNames |-> Str(p[a])] = [[a \in PinNames |-> Str(pin[a])] EXCEPT ![b] = Str(s)]
  BY <1>3
<1>6. Pins' = [a \in PinNames |-> Str(p[a])]
  BY <1>2, Zenon DEF Pins
<1> QED
  BY <1>2, <1>3, <1>4, <1>5, <1>6 DEF Pins

\* A step of the PIN's.
LEMMA PinStep ==
  ASSUME IInv, UNCHANGED passVars, pin' \in [PinNames -> PinBuffers],
         \A b \in PinNames : pin'[b][PIN_BUFSIZE - 1] = NUL,
         view' = "PIN", pinCaption' \in PinNames, pinLen' \in 0 .. PIN_BUFSIZE - 1,
         pinSet' \in BOOLEAN
  PROVE  /\ IInv' /\ UNCHANGED Str(passphrase)
         /\ Texts!AskPin \/ Texts!EditPin \/ Texts!AssignPin => Texts!Next
<1>1. UNCHANGED <<passphrase, passphraseLen, passphraseIndex>>
  BY DEF passVars
<1>2. TypeOK'
  BY <1>1 DEF IInv, TypeOK
<1>3. IInv'
  BY <1>1, <1>2 DEF IInv, WheelShowsLast
<1>4. UNCHANGED Str(passphrase)
  BY <1>1
<1>5. PinReplaced' \in BOOLEAN
  BY PinReplacedIs
<1> QED
  BY <1>3, <1>4, <1>5 DEF Texts!Next

LEMMA EmptyPinFacts ==
  /\ EmptyPin \in PinBuffers /\ EmptyPin[PIN_BUFSIZE - 1] = NUL
  /\ Shaped(EmptyPin, 0) /\ Str(EmptyPin) = <<>>
<1>1. PICK m \in Nat : m = PIN_BUFSIZE /\ m > 1
  BY SizeFacts
<1>2. EmptyPin \in Buffers(m, Digits) /\ DOMAIN EmptyPin = 0 .. m - 1
      /\ \A i \in 0 .. m - 1 : EmptyPin[i] = NUL
  BY <1>1 DEF EmptyPin, Buffers
<1>3. Shaped(EmptyPin, 0) /\ 0 \in 0 .. m - 1 /\ m - 1 \in 0 .. m - 1
  BY <1>1, <1>2 DEF Shaped
<1>4. Str(EmptyPin) \in Seq(Digits) /\ Len(Str(EmptyPin)) = 0
  BY <1>2, <1>3, ShapedIs
<1> QED
  BY <1>1, <1>2, <1>3, <1>4 DEF PinBuffers, Buffers

LEMMA StepAskPin == ASSUME IInv, AskPin PROVE IInv' /\ [Texts!Next]_TextVars
<1>1. TypeOK
  BY DEF IInv
<1>2. PICK b \in PinNames : b = pinCaption'
  BY DEF AskPin, PinNames
<1>3. /\ view' = "PIN" /\ pin' = Put(pin, b, EmptyPin) /\ pinLen' = 0
      /\ UNCHANGED passVars /\ UNCHANGED pinSet
  BY <1>2 DEF AskPin, Put
<1>4. /\ pin' \in [PinNames -> PinBuffers] /\ \A a \in PinNames : pin'[a][PIN_BUFSIZE - 1] = NUL
      /\ pin'[b] = EmptyPin /\ Pins' = [Pins EXCEPT ![b] = <<>>]
  BY <1>1, <1>3, PinPut, EmptyPinFacts
<1>5. pinLen' \in 0 .. PIN_BUFSIZE - 1 /\ pinSet' \in BOOLEAN /\ pinCaption' \in PinNames
  BY <1>1, <1>2, <1>3, SizeFacts DEF TypeOK
<1>6. /\ IInv' /\ UNCHANGED Str(passphrase)
      /\ Texts!AskPin \/ Texts!EditPin \/ Texts!AssignPin => Texts!Next
  BY <1>3, <1>4, <1>5, PinStep
<1>7. PinReplaced' = FALSE
  <2>1. Shaped(pin'[pinCaption'], pinLen') /\ TypeOK'
    BY <1>2, <1>3, <1>4, <1>6, EmptyPinFacts DEF IInv
  <2> QED
    BY <2>1, PinReplacedIs
<1>8. Texts!AskPin
  BY <1>2, <1>4, <1>7 DEF Texts!AskPin, Pins, PinNames, Texts!PinNames
<1> QED
  BY <1>6, <1>8

\* A click that writes the buffer it edits: its text is kept to PinHasRoom and
\* the other guards unless it was replaced.
LEMMA PinEdit ==
  ASSUME IInv, PinClick, NEW s \in PinBuffers, s[PIN_BUFSIZE - 1] = NUL,
         pin' = Put(pin, pinCaption, s), pinLen' \in 0 .. PIN_BUFSIZE - 1, UNCHANGED pinSet,
         Shaped(pin[pinCaption], pinLen) =>
           /\ Shaped(s, pinLen')
           /\ \/ /\ Len(Str(pin[pinCaption])) < PIN_BUFSIZE - 1
                 /\ \E d \in Digits : Str(s) = Append(Str(pin[pinCaption]), d)
              \/ /\ Str(pin[pinCaption]) # <<>>
                 /\ Str(s) = Texts!Front(Str(pin[pinCaption]))
  PROVE  IInv' /\ [Texts!Next]_TextVars
<1>1. TypeOK
  BY DEF IInv
<1>2. PICK b \in PinNames : b = pinCaption
  BY DEF IInv, PinClick
<1>3. view' = "PIN" /\ UNCHANGED passVars /\ pinCaption' = b
  BY <1>2 DEF PinClick
<1>4. /\ pin' \in [PinNames -> PinBuffers] /\ \A a \in PinNames : pin'[a][PIN_BUFSIZE - 1] = NUL
      /\ pin'[b] = s /\ Pins' = [Pins EXCEPT ![b] = Str(s)]
  BY <1>1, <1>2, PinPut
<1>5. pinSet' \in BOOLEAN
  BY <1>1 DEF TypeOK
<1>6. /\ IInv' /\ UNCHANGED Str(passphrase)
      /\ Texts!AskPin \/ Texts!EditPin \/ Texts!AssignPin => Texts!Next
  BY <1>3, <1>4, <1>5, PinStep
<1>7. b \in Texts!PinNames
  BY DEF PinNames, Texts!PinNames
<1>8. Pins[b] = Str(pin[b])
  BY DEF Pins
<1>9. CASE PinReplaced
  <2>1. Str(s) \in Texts!PinTexts
    BY PinText
  <2>2. Texts!EditPin
    BY <1>2, <1>3, <1>4, <1>7, <1>9, <2>1 DEF Texts!EditPin, Pins
  <2> QED
    BY <1>6, <2>2
<1>10. CASE ~PinReplaced
  <2>1. Shaped(pin[b], pinLen)
    BY <1>1, <1>2, <1>10, PinReplacedIs
  <2>2. ~PinReplaced'
    <3>1. Shaped(pin'[pinCaption'], pinLen') /\ TypeOK'
      BY <1>2, <1>3, <1>4, <1>6, <2>1 DEF IInv
    <3> QED
      BY <3>1, PinReplacedIs
  <2>3. UNCHANGED PinReplaced
    BY <1>10, <2>2, PinReplacedIs
  <2>4. CASE Texts!TypeDigit
    BY <1>2, <1>3, <1>6, <1>7, <1>10, <2>3, <2>4 DEF Texts!EditPin
  <2>5. CASE Texts!EraseDigit
    BY <1>2, <1>3, <1>6, <1>7, <1>10, <2>3, <2>5 DEF Texts!EditPin
  <2>6. Texts!TypeDigit \/ Texts!EraseDigit
    <3>1. CASE /\ Len(Str(pin[b])) < PIN_BUFSIZE - 1
               /\ \E d \in Digits : Str(s) = Append(Str(pin[b]), d)
      <4>1. PICK d \in Digits : Str(s) = Append(Str(pin[b]), d)
        BY <3>1
      <4>2. Pins' = [Pins EXCEPT ![b] = Append(@, d)]
        BY <1>4, <4>1 DEF Pins
      <4> QED
        BY <1>2, <1>8, <3>1, <4>2 DEF Texts!TypeDigit, Pins
    <3>2. CASE Str(pin[b]) # <<>> /\ Str(s) = Texts!Front(Str(pin[b]))
      <4>1. Pins' = [Pins EXCEPT ![b] = Texts!Front(@)]
        BY <1>4, <3>2 DEF Pins
      <4> QED
        BY <1>2, <1>8, <3>2, <4>1 DEF Texts!EraseDigit, Pins
    <3> QED
      BY <1>2, <2>1, <3>1, <3>2
  <2> QED
    BY <2>4, <2>5, <2>6
<1> QED
  BY <1>9, <1>10

LEMMA StepPinDigit ==
  ASSUME IInv, NEW d \in Digits, PinDigit(d)
  PROVE  IInv' /\ [Texts!Next]_TextVars
<1>1. PICK m \in Nat : m = PIN_BUFSIZE /\ m > 1
  BY SizeFacts
<1>2. PICK o : o = pin[pinCaption]
  OBVIOUS
<1>3. PICK n \in Nat : n = pinLen
  BY SizeFacts DEF IInv, TypeOK
<1>4. PICK s : s = Put(o, n, d)
  OBVIOUS
<1>5. pinCaption \in PinNames /\ pin \in [PinNames -> PinBuffers] /\ o \in PinBuffers
      /\ o[m - 1] = NUL
  BY <1>1, <1>2 DEF IInv, TypeOK, PinDigit, PinClick
<1>6. PinClick /\ n < m - 1 /\ pinLen' = n + 1 /\ UNCHANGED pinSet
  BY <1>1, <1>3 DEF PinDigit, PinHasRoom
<1>7. pin' = Put(pin, pinCaption, s)
  BY <1>2, <1>3, <1>4, <1>5 DEF PinDigit, Put
<1>8. o \in Buffers(m, Digits) /\ NUL \notin Digits
  BY <1>1, <1>5, SizeFacts DEF PinBuffers, Buffers
<1>9. s \in Buffers(m, Digits) /\ s[m - 1] = NUL
  BY <1>4, <1>5, <1>6, <1>8 DEF Put, Buffers
<1>10. s \in PinBuffers /\ s[PIN_BUFSIZE - 1] = NUL /\ pinLen' \in 0 .. PIN_BUFSIZE - 1
  BY <1>1, <1>6, <1>9 DEF PinBuffers, Buffers
<1>11. ASSUME Shaped(o, n)
       PROVE  /\ Shaped(s, n + 1) /\ Len(Str(o)) < m - 1
              /\ Str(s) = Append(Str(o), d)
  <2>1. Shaped(s, n + 1) /\ Str(s) = Append(Str(o), d)
    BY <1>4, <1>6, <1>8, <1>11, PutNext
  <2>2. n \in 0 .. m - 1
    BY <1>6
  <2>3. Len(Str(o)) = n
    BY <1>8, <1>11, <2>2, ShapedIs
  <2> QED
    BY <1>6, <2>1, <2>3
<1> QED
  BY <1>1, <1>2, <1>3, <1>6, <1>7, <1>10, <1>11, PinEdit

LEMMA StepPinBack == ASSUME IInv, PinBack PROVE IInv' /\ [Texts!Next]_TextVars
<1>1. PICK m \in Nat : m = PIN_BUFSIZE /\ m > 1
  BY SizeFacts
<1>2. PICK o : o = pin[pinCaption]
  OBVIOUS
<1>3. PICK n \in 1 .. m - 1 : n = pinLen
  BY <1>1 DEF IInv, TypeOK, PinBack
<1>4. PICK s : s = Put(o, n - 1, NUL)
  OBVIOUS
<1>5. pinCaption \in PinNames /\ pin \in [PinNames -> PinBuffers] /\ o \in PinBuffers
      /\ o[m - 1] = NUL
  BY <1>1, <1>2 DEF IInv, TypeOK, PinBack, PinClick
<1>6. PinClick /\ pinLen' = n - 1 /\ UNCHANGED pinSet
  BY <1>3 DEF PinBack
<1>7. pin' = Put(pin, pinCaption, s)
  BY <1>2, <1>3, <1>4, <1>5 DEF PinBack, Put
<1>8. o \in Buffers(m, Digits) /\ NUL \notin Digits
  BY <1>1, <1>5, SizeFacts DEF PinBuffers, Buffers
<1>9. s \in Buffers(m, Digits) /\ s[m - 1] = NUL
  BY <1>3, <1>4, <1>5, <1>8 DEF Put, Buffers
<1>10. s \in PinBuffers /\ s[PIN_BUFSIZE - 1] = NUL /\ pinLen' \in 0 .. PIN_BUFSIZE - 1
  BY <1>1, <1>3, <1>6, <1>9 DEF PinBuffers, Buffers
<1>11. ASSUME Shaped(o, n)
       PROVE  Shaped(s, n - 1) /\ Str(o) # <<>> /\ Str(s) = Texts!Front(Str(o))
  <2>1. Shaped(s, n - 1) /\ Str(s) = Texts!Front(Str(o))
    BY <1>4, <1>8, <1>11, PutEnd
  <2>2. n \in 0 .. m - 1
    BY <1>1
  <2>3. Str(o) \in Seq(Digits) /\ Len(Str(o)) = n
    BY <1>8, <1>11, <2>2, ShapedIs
  <2> QED
    BY <2>1, <2>3
<1> QED
  BY <1>1, <1>2, <1>3, <1>6, <1>7, <1>10, <1>11, PinEdit

\* strcpy copies the string.
LEMMA StrCpyFacts ==
  ASSUME NEW to \in PinBuffers, NEW from \in PinBuffers,
         to[PIN_BUFSIZE - 1] = NUL, from[PIN_BUFSIZE - 1] = NUL
  PROVE  /\ StrCpy(to, from) \in PinBuffers /\ StrCpy(to, from)[PIN_BUFSIZE - 1] = NUL
         /\ Str(StrCpy(to, from)) = Str(from)
<1>1. PICK m \in Nat \ {0} : m = PIN_BUFSIZE
  BY SizeFacts
<1>2. /\ to \in Buffers(m, Digits) /\ from \in Buffers(m, Digits)
      /\ DOMAIN to = 0 .. m - 1 /\ DOMAIN from = 0 .. m - 1
      /\ to[m - 1] = NUL /\ from[m - 1] = NUL
  BY <1>1 DEF PinBuffers, Buffers
<1>3. PICK n \in 0 .. m - 1 : Ends(from, n)
  BY <1>2, Terminates
<1>4. StrLen(from) = n
  BY <1>2, <1>3, StrLenIs
<1>5. PICK s : s = StrCpy(to, from)
  OBVIOUS
<1>6. s = [i \in 0 .. m - 1 |-> IF i <= n THEN from[i] ELSE to[i]]
  BY <1>2, <1>4, <1>5 DEF StrCpy
<1>7. s \in Buffers(m, Digits) /\ s[m - 1] = NUL
  BY <1>2, <1>6 DEF Buffers
<1>8. \A i \in 0 .. n : i \in 0 .. m - 1 /\ s[i] = from[i]
  BY <1>6
<1>9. Ends(s, n)
  <2>1. n \in 0 .. n /\ \A i \in 0 .. n - 1 : i \in 0 .. n
    OBVIOUS
  <2>2. DOMAIN s = 0 .. m - 1
    BY <1>6
  <2> QED
    BY <1>3, <1>8, <2>1, <2>2 DEF Ends
<1>10. /\ Str(s) \in [1 .. n -> Digits] /\ \A i \in 1 .. n : Str(s)[i] = s[i - 1]
       /\ Str(from) \in [1 .. n -> Digits] /\ \A i \in 1 .. n : Str(from)[i] = from[i - 1]
  <2>1. m \in Nat
    OBVIOUS
  <2>2. ASSUME NEW u \in Buffers(m, Digits), Ends(u, n)
        PROVE  Str(u) \in [1 .. n -> Digits] /\ \A i \in 1 .. n : Str(u)[i] = u[i - 1]
    BY <2>1, <2>2, StrIs
  <2> QED
    BY <1>2, <1>3, <1>7, <1>9, <2>2
<1>11. \A i \in 1 .. n : s[i - 1] = from[i - 1]
  BY <1>8
<1> QED
  BY <1>1, <1>5, <1>7, <1>10, <1>11 DEF PinBuffers, Buffers

LEMMA StepAssignPin == ASSUME IInv, AssignPin PROVE IInv' /\ [Texts!Next]_TextVars
<1>1. TypeOK
  BY DEF IInv
<1>2. PICK s : s = StrCpy(pin["pin"], pin["g_state"])
  OBVIOUS
<1>3. /\ pin \in [PinNames -> PinBuffers] /\ pinCaption \in PinNames
      /\ "pin" \in PinNames /\ "g_state" \in PinNames
      /\ \A b \in PinNames : pin[b][PIN_BUFSIZE - 1] = NUL
  BY DEF IInv, TypeOK, AssignPin, PinClick, PinNames
<1>4. s \in PinBuffers /\ s[PIN_BUFSIZE - 1] = NUL /\ Str(s) = Str(pin["g_state"])
  BY <1>2, <1>3, StrCpyFacts
<1>5. /\ view' = "PIN" /\ UNCHANGED passVars /\ UNCHANGED pinCaption /\ UNCHANGED pinLen
      /\ pinSet' = TRUE /\ pin' = Put(pin, "pin", s)
  BY <1>2, <1>3 DEF AssignPin, PinClick, Put
<1>6. /\ pin' \in [PinNames -> PinBuffers] /\ \A a \in PinNames : pin'[a][PIN_BUFSIZE - 1] = NUL
      /\ \A a \in PinNames \ {"pin"} : pin'[a] = pin[a]
      /\ Pins' = [Pins EXCEPT !["pin"] = Str(s)]
  BY <1>1, <1>3, <1>4, <1>5, PinPut
<1>7. /\ IInv' /\ UNCHANGED Str(passphrase)
      /\ Texts!AskPin \/ Texts!EditPin \/ Texts!AssignPin => Texts!Next
  <2>1. pinLen' \in 0 .. PIN_BUFSIZE - 1 /\ pinCaption' \in PinNames /\ pinSet' \in BOOLEAN
    BY <1>1, <1>3, <1>5 DEF TypeOK
  <2> QED
    BY <1>5, <1>6, <2>1, PinStep
<1>8. pinCaption = "g_state" => UNCHANGED PinReplaced
  <2>1. ASSUME pinCaption = "g_state" PROVE PinReplaced' <=> PinReplaced
    <3>1. pin'[pinCaption'] = pin[pinCaption] /\ TypeOK'
      BY <1>3, <1>5, <1>6, <1>7, <2>1 DEF IInv
    <3> QED
      BY <1>1, <1>5, <3>1, PinReplacedIs
  <2> QED
    BY <2>1, PinReplacedIs
<1>9. Texts!AssignPin
  <2>1. Pins["g_state"] = Str(pin["g_state"])
    BY <1>3 DEF Pins
  <2> QED
    BY <1>4, <1>5, <1>6, <1>8, <2>1 DEF Texts!AssignPin, Pins
<1> QED
  BY <1>7, <1>9

LEMMA StepLockOut == ASSUME IInv, LockOut PROVE IInv' /\ [Texts!Next]_TextVars
<1>1. /\ view' = "PIN" /\ UNCHANGED passVars /\ UNCHANGED <<pin, pinCaption, pinLen>>
      /\ pinSet' = FALSE /\ pinCaption \in PinNames
  BY DEF IInv, LockOut, PinClick
<1>2. /\ pin' \in [PinNames -> PinBuffers] /\ \A a \in PinNames : pin'[a][PIN_BUFSIZE - 1] = NUL
      /\ pinLen' \in 0 .. PIN_BUFSIZE - 1 /\ pinSet' \in BOOLEAN
  BY <1>1 DEF IInv, TypeOK
<1>3. IInv' /\ UNCHANGED Str(passphrase)
  BY <1>1, <1>2, PinStep
<1>4. UNCHANGED <<Pins, pinCaption, PinReplaced>>
  BY <1>1 DEF Pins, PinReplaced
<1> QED
  BY <1>3, <1>4 DEF TextVars

-----------------------------------------------------------------------------
(* The theorems.                                                           *)

LEMMA Initially == Init => IInv /\ Texts!Init
<1> SUFFICES ASSUME Init PROVE IInv /\ Texts!Init
  OBVIOUS
<1>1. PICK p : p = passphrase
  OBVIOUS
<1>2. /\ view = "none" /\ p = [i \in 0 .. PASSPHRASE_BUFSIZE - 1 |-> NUL]
      /\ passphraseLen = 0 /\ passphraseIndex = 0 /\ pinCaption = "none" /\ pinLen = 0
      /\ pinSet \in BOOLEAN
  BY <1>1 DEF Init
<1>3. p \in PassBuffers /\ Shaped(p, 0) /\ 0 \in 0 .. PASSPHRASE_BUFSIZE - 1
  BY <1>2, SizeFacts DEF PassBuffers, Buffers, Shaped
<1>4. Str(p) = <<>>
  <2>1. Str(p) \in Seq(Chars) /\ Len(Str(p)) = 0
    BY <1>3, PassFacts
  <2> QED
    BY <2>1
<1>5. PICK s \in PinBuffers :
         /\ \E n \in DOMAIN s : \A i \in DOMAIN s : s[i] = NUL <=> i >= n
         /\ pin = [b \in PinNames |-> IF b = "g_state" THEN s ELSE EmptyPin]
  BY DEF Init
<1>6. s[PIN_BUFSIZE - 1] = NUL
  <2>1. DOMAIN s = 0 .. PIN_BUFSIZE - 1
    BY DEF PinBuffers
  <2>2. PICK n \in 0 .. PIN_BUFSIZE - 1 : \A i \in 0 .. PIN_BUFSIZE - 1 : s[i] = NUL <=> i >= n
    BY <1>5, <2>1
  <2>3. PIN_BUFSIZE - 1 \in 0 .. PIN_BUFSIZE - 1 /\ PIN_BUFSIZE - 1 >= n
    BY SizeFacts
  <2> QED
    BY <2>2, <2>3
<1>7. /\ pin \in [PinNames -> PinBuffers] /\ \A b \in PinNames : pin[b][PIN_BUFSIZE - 1] = NUL
  BY <1>5, <1>6, EmptyPinFacts
<1>8. TypeOK
  <2>1. passphrase \in [0 .. PASSPHRASE_BUFSIZE - 1 -> Chars \cup {NUL}]
    BY <1>1, <1>3 DEF PassBuffers, Buffers
  <2>2. 0 \in 0 .. PASSPHRASE_CHARSET_LEN - 1 /\ 0 \in 0 .. PIN_BUFSIZE - 1
    BY CharsetFacts, SizeFacts
  <2> QED
    BY <1>2, <1>3, <1>7, <2>1, <2>2 DEF TypeOK
<1>9. IInv
  BY <1>1, <1>2, <1>3, <1>8 DEF IInv, WheelShowsLast
<1>10. Pins \in [PinNames -> Texts!PinTexts]
  BY <1>7, PinText DEF Pins
<1>11. PinReplaced = FALSE
  <2>1. pinCaption \notin PinNames
    BY <1>2 DEF PinNames
  <2> QED
    BY <2>1 DEF PinReplaced
<1>12. Texts!Init
  BY <1>1, <1>2, <1>4, <1>10, <1>11 DEF Texts!Init, Pins, PinNames, Texts!PinNames
<1> QED
  BY <1>9, <1>12

LEMMA Step == IInv /\ [Next]_vars => IInv' /\ [Texts!Next]_TextVars
<1> SUFFICES ASSUME IInv, [Next]_vars PROVE IInv' /\ [Texts!Next]_TextVars
  OBVIOUS
<1>1. CASE AskPassphrase
  BY <1>1, StepAskPassphrase
<1>2. CASE PassBack
  BY <1>2, StepPassBack
<1>3. CASE PassUp \/ PassDown
  BY <1>3, StepTurn
<1>4. CASE PassFwd
  BY <1>4, StepPassFwd
<1>5. CASE AskPin
  BY <1>5, StepAskPin
<1>6. CASE \E d \in Digits : PinDigit(d)
  BY <1>6, StepPinDigit
<1>7. CASE PinBack
  BY <1>7, StepPinBack
<1>8. CASE AssignPin
  BY <1>8, StepAssignPin
<1>9. CASE LockOut
  BY <1>9, StepLockOut
<1>10. CASE UNCHANGED vars
  <2>1. UNCHANGED <<view, passphrase, passphraseLen, passphraseIndex, pin, pinCaption,
                    pinLen, pinSet>>
    BY <1>10 DEF vars, passVars, pinVars
  <2>2. UNCHANGED <<Str(passphrase), Pins, pinCaption, PinReplaced>>
    BY <2>1 DEF Pins, PinReplaced
  <2>3. IInv'
    BY <2>1 DEF IInv, TypeOK, WheelShowsLast
  <2> QED
    BY <2>2, <2>3 DEF TextVars
<1> QED
  BY <1>1, <1>2, <1>3, <1>4, <1>5, <1>6, <1>7, <1>8, <1>9, <1>10 DEF Next

\* Every variable keeps its type, and both PIN buffers stay terminated,
\* whatever lcd_pin_ok copies under the length that pin_btn_click goes on with.
THEOREM TextEntryTypeCorrect == Spec => []TypeOK
<1>1. IInv => TypeOK
  BY DEF IInv
<1> QED
  BY <1>1, Initially, Step, PTL DEF Spec

\* passphrase_index is the place on the wheel of the character shown last,
\* after every click of the passphrase view.
THEOREM TextEntryWheelShowsLast == Spec => []WheelShowsLast
<1>1. IInv => WheelShowsLast
  BY DEF IInv
<1> QED
  BY <1>1, Initially, Step, PTL DEF Spec

\* As strings the buffers of ui.c are the texts that EditedText promises,
\* for every wheel, every set of digits and every size of the buffers.
THEOREM TextEntryImplementsEditedText == Spec => ImplementsEditedText
<1>1. [Texts!Next]_TextVars =>
        [Texts!Next]_<<Str(passphrase), [b \in PinNames |-> Str(pin[b])], pinCaption, PinReplaced>>
  BY DEF TextVars, Pins
<1> QED
  BY <1>1, Initially, Step, PTL DEF Spec, ImplementsEditedText, Texts!Spec

=============================================================================
