---------------------------- MODULE KeyListProofs ---------------------------
(***************************************************************************)
(* Proofs of the invariants of KeyList, for every length of the text.      *)
(*                                                                         *)
(* The scans are recursive functions of a position, and the prover has no  *)
(* induction over them: each induction below is the least counterexample   *)
(* of a set of numbers, and that the functions are what their equations    *)
(* say is a lemma of its own (StartsExist, ScanExists).  The argument goes *)
(* along the walk from entry to entry: validate_lbx_items counts its steps *)
(* (ValidateCounts), lbx_advance_entry takes them (AdvancedStep), and a    *)
(* cut of the text into lines has no choice but to follow it (CutIsEnds).  *)
(***************************************************************************)
EXTENDS KeyList, FiniteSetTheorems, WellFoundedInduction, SequenceTheorems, TLAPS

-----------------------------------------------------------------------------
(* Least and greatest numbers.                                             *)

\* A set of numbers that is not empty has a least one.
LEMMA Least ==
  ASSUME NEW T, T \subseteq Nat, T # {}
  PROVE  \E x \in T : \A y \in T : x <= y
  <1>1. PICK R : R = OpToRel(<, Nat)
    OBVIOUS
  <1>2. \E x \in T : \A y \in T : <<y, x>> \notin R
    <2>1. IsWellFoundedOn(R, Nat)
      BY <1>1, NatLessThanWellFounded
    <2> QED BY <2>1, WFMin
  <1>3. \A x, y \in Nat : y < x => <<y, x>> \in R
    BY <1>1 DEF OpToRel
  <1>4. PICK x \in T : \A y \in T : <<y, x>> \notin R
    BY <1>2
  <1>5. ASSUME NEW y \in T PROVE x <= y
    <2>1. x \in Nat /\ y \in Nat
      OBVIOUS
    <2>2. ~(y < x)
      BY <1>3, <1>4, <2>1
    <2> QED BY <2>1, <2>2
  <1> QED BY <1>5

\* And a greatest, when it is bounded: the one that Max returns.
LEMMA Greatest ==
  ASSUME NEW T, T \subseteq Nat, T # {}, NEW n \in Nat, \A x \in T : x <= n
  PROVE  Max(T) \in T /\ \A y \in T : y <= Max(T)
  <1> DEFINE D == {d \in 0 .. n : n - d \in T}
  <1>1. \E x \in T : \A y \in T : x >= y
    <2>1. PICK t \in T : t \in Nat /\ t <= n
      OBVIOUS
    <2>2. n - t \in D /\ D \subseteq Nat
      BY <2>1
    <2>3. PICK d \in D : \A e \in D : d <= e
      BY <2>2, Least
    <2>4. n - d \in T /\ d \in 0 .. n
      OBVIOUS
    <2>5. ASSUME NEW y \in T PROVE n - d >= y
      <3>1. y \in Nat /\ y <= n
        OBVIOUS
      <3>2. n - y \in D
        BY <3>1
      <3>3. d <= n - y /\ d \in Nat
        BY <2>3, <2>4, <3>2
      <3> QED BY <3>1, <3>3
    <2> QED BY <2>4, <2>5
  <1>2. Max(T) \in T /\ \A y \in T : Max(T) >= y
    BY <1>1 DEF Max
  <1>3. \A y \in T : y \in Nat
    OBVIOUS
  <1> QED BY <1>2, <1>3

\* Max is known by its two properties.
LEMMA MaxIs ==
  ASSUME NEW T, T \subseteq Nat, NEW m \in T, \A x \in T : x <= m
  PROVE  Max(T) = m
  <1>1. m \in Nat
    OBVIOUS
  <1>2. Max(T) \in T /\ \A y \in T : y <= Max(T)
    BY <1>1, Greatest
  <1>3. PICK k \in Nat : k = Max(T)
    BY <1>2
  <1> QED BY <1>1, <1>2, <1>3

-----------------------------------------------------------------------------
(* A scan over characters of a class.                                      *)

TextOK == text \in Seq(Classes)

\* The characters of the text are classes.
LEMMA TextType ==
  ASSUME TextOK
  PROVE  /\ Len(text) \in Nat
         /\ \A k \in 1 .. Len(text) : text[k] \in Classes
  BY DEF TextOK

\* A scan counts characters of its class, and stops at one that is not.
LEMMA CountStops ==
  ASSUME TextOK, NEW C, NEW p \in 0 .. Len(text)
  PROVE  /\ Count(p, C) \in 0 .. Len(text) - p
         /\ \A k \in p + 1 .. p + Count(p, C) : text[k] \in C
         /\ p + Count(p, C) < Len(text) => text[p + Count(p, C) + 1] \notin C
  <1> DEFINE T == {n \in 0 .. Len(text) - p :
                     \A k \in p + 1 .. p + n : text[k] \in C}
  <1>1. PICK len \in Nat : len = Len(text)
    BY TextType
  <1>2. T \subseteq Nat /\ 0 \in T /\ len - p \in Nat /\ \A n \in T : n <= len - p
    BY <1>1
  <1>3. Count(p, C) = Max(T)
    BY DEF Count
  <1>4. Max(T) \in T /\ \A n \in T : n <= Max(T)
    BY <1>2, Greatest
  <1>5. PICK c \in T : c = Max(T)
    BY <1>4
  <1>6. c \in 0 .. len - p /\ \A k \in p + 1 .. p + c : text[k] \in C
    BY <1>1, <1>5
  <1>7. ASSUME p + c < len, text[p + c + 1] \in C
        PROVE  FALSE
    <2>1. \A k \in p + 1 .. p + (c + 1) : k \in p + 1 .. p + c \/ k = p + c + 1
      BY <1>1, <1>6
    <2>2. c + 1 \in T
      BY <1>1, <1>6, <1>7, <2>1
    <2> QED BY <1>4, <1>5, <1>6, <2>2
  <1> QED BY <1>1, <1>3, <1>5, <1>6, <1>7

\* And nothing else does.
LEMMA CountIs ==
  ASSUME TextOK, NEW C, NEW p \in 0 .. Len(text), NEW e \in p .. Len(text),
         AllIn(p, e, C), e = Len(text) \/ text[e + 1] \notin C
  PROVE  Count(p, C) = e - p
  <1>1. PICK len \in Nat : len = Len(text)
    BY TextType
  <1>2. PICK c \in 0 .. len - p : c = Count(p, C)
    BY <1>1, CountStops
  <1>3. /\ \A k \in p + 1 .. p + c : text[k] \in C
        /\ p + c < len => text[p + c + 1] \notin C
    BY <1>1, <1>2, CountStops
  <1>4. \A k \in p + 1 .. e : text[k] \in C
    BY DEF AllIn
  <1>5. ~(c < e - p)
    <2>1. c < e - p => p + c + 1 \in p + 1 .. e /\ p + c < len
      BY <1>1, <1>2
    <2> QED BY <1>3, <1>4, <2>1
  <1>6. ~(e - p < c)
    <2>1. e - p < c => e + 1 \in p + 1 .. p + c /\ e # len
      BY <1>1, <1>2
    <2> QED BY <1>1, <1>3, <2>1
  <1> QED BY <1>1, <1>2, <1>5, <1>6

-----------------------------------------------------------------------------
(* An entry and a line.                                                    *)

\* The same, said of the position where the scan ends.
LEMMA ScanEnds ==
  ASSUME TextOK, NEW C, NEW p \in 0 .. Len(text), NEW e, e = p + Count(p, C)
  PROVE  /\ e \in p .. Len(text) /\ AllIn(p, e, C)
         /\ e = Len(text) \/ text[e + 1] \notin C
  <1>1. PICK len \in Nat : len = Len(text)
    BY TextType
  <1>2. PICK c \in 0 .. len - p : c = Count(p, C)
    BY <1>1, CountStops
  <1>3. /\ \A k \in p + 1 .. p + c : text[k] \in C
        /\ p + c < len => text[p + c + 1] \notin C
    BY <1>1, <1>2, CountStops
  <1> QED BY <1>1, <1>2, <1>3 DEF AllIn

(* The four scans follow one another.                                      *)
LEMMA EntryParts ==
  ASSUME TextOK, NEW p \in 0 .. Len(text)
  PROVE  /\ KeyEnd(p) \in p .. Len(text) /\ AllIn(p, KeyEnd(p), KeyChars)
         /\ DelimiterEnd(p) \in KeyEnd(p) .. Len(text)
         /\ AllIn(KeyEnd(p), DelimiterEnd(p), KeyValueDelimiters)
         /\ ValueEnd(p) \in DelimiterEnd(p) .. Len(text)
         /\ AllIn(DelimiterEnd(p), ValueEnd(p), ValueChars)
         /\ EntryEnd(p) \in ValueEnd(p) .. Len(text)
         /\ AllIn(ValueEnd(p), EntryEnd(p), EntryDelimiters)
  <1>1. PICK len \in Nat : len = Len(text)
    BY TextType
  <1>2. PICK k : k = KeyEnd(p)
    OBVIOUS
  <1>3. k \in p .. len /\ AllIn(p, k, KeyChars)
    BY <1>1, <1>2, ScanEnds DEF KeyEnd
  <1>4. k \in 0 .. len
    BY <1>3
  <1>5. PICK d : d = DelimiterEnd(p)
    OBVIOUS
  <1>6. d \in k .. len /\ AllIn(k, d, KeyValueDelimiters)
    BY <1>1, <1>2, <1>4, <1>5, ScanEnds DEF DelimiterEnd
  <1>7. d \in 0 .. len
    BY <1>4, <1>6
  <1>8. PICK v : v = ValueEnd(p)
    OBVIOUS
  <1>9. v \in d .. len /\ AllIn(d, v, ValueChars)
    BY <1>1, <1>5, <1>7, <1>8, ScanEnds DEF ValueEnd
  <1>10. v \in 0 .. len
    BY <1>7, <1>9
  <1>11. PICK e : e = EntryEnd(p)
    OBVIOUS
  <1>12. e \in v .. len /\ AllIn(v, e, EntryDelimiters)
    BY <1>1, <1>8, <1>10, <1>11, ScanEnds DEF EntryEnd
  <1> QED BY <1>1, <1>2, <1>3, <1>5, <1>6, <1>8, <1>9, <1>11, <1>12

\* An entry stays within the text, and is longer than 0 when it is accepted.
LEMMA EntryBounds ==
  ASSUME TextOK, NEW p \in 0 .. Len(text)
  PROVE  /\ EntryEnd(p) \in p .. Len(text)
         /\ EntryLength(p) = 0 \/ (EntryLength(p) = EntryEnd(p) - p /\ EntryEnd(p) > p)
         /\ EntryLength(p) # 0 => HasParts(p) /\ p < Len(text)
  <1>1. PICK len \in Nat : len = Len(text)
    BY TextType
  <1>2. PICK k \in p .. len : k = KeyEnd(p)
    BY <1>1, EntryParts
  <1>3. PICK d \in k .. len : d = DelimiterEnd(p)
    BY <1>1, <1>2, EntryParts
  <1>4. PICK v \in d .. len : v = ValueEnd(p)
    BY <1>1, <1>3, EntryParts
  <1>5. PICK e \in v .. len : e = EntryEnd(p)
    BY <1>1, <1>4, EntryParts
  <1>6. HasParts(p) => p < k
    BY <1>2 DEF HasParts
  <1>7. EntryLength(p) = 0 \/ (HasParts(p) /\ EntryLength(p) = e - p)
    BY <1>5 DEF EntryLength
  <1> QED BY <1>1, <1>2, <1>3, <1>4, <1>5, <1>6, <1>7

(* What validate_lbx_entry accepts is a line.                              *)
LEMMA EntryIsLine ==
  ASSUME TextOK, NEW p \in 0 .. Len(text), EntryLength(p) # 0
  PROVE  IsLine(p, EntryEnd(p))
  <1>1. PICK len \in Nat : len = Len(text)
    BY TextType
  <1>2. PICK k \in p .. len : k = KeyEnd(p)
    BY <1>1, EntryParts
  <1>3. PICK d \in k .. len : d = DelimiterEnd(p)
    BY <1>1, <1>2, EntryParts
  <1>4. PICK v \in d .. len : v = ValueEnd(p)
    BY <1>1, <1>3, EntryParts
  <1>5. PICK e \in v .. len : e = EntryEnd(p)
    BY <1>1, <1>4, EntryParts
  <1>6. /\ AllIn(p, k, KeyChars) /\ AllIn(k, d, KeyValueDelimiters)
        /\ AllIn(d, v, ValueChars) /\ AllIn(v, e, EntryDelimiters)
    BY <1>2, <1>3, <1>4, <1>5, EntryParts
  <1>7. HasParts(p) /\ (EntryEnd(p) > ValueEnd(p) \/ AtEnd(EntryEnd(p)))
    BY DEF EntryLength
  <1>8. p < k /\ k < d /\ d < v
    BY <1>2, <1>3, <1>4, <1>7 DEF HasParts
  <1>9. v = e => AtEnd(e)
    BY <1>4, <1>5, <1>7
  <1>10. k \in p .. e /\ d \in p .. e /\ v \in p .. e
    BY <1>2, <1>3, <1>4, <1>5
  <1>11. IsLine(p, e)
    BY <1>6, <1>8, <1>9, <1>10 DEF IsLine
  <1> QED BY <1>5, <1>11

(* And a line is accepted whole, when the text ends behind it or a name    *)
(* follows.                                                                *)
LEMMA LineIsEntry ==
  ASSUME TextOK, NEW p \in 0 .. Len(text), NEW to \in 0 .. Len(text), IsLine(p, to),
         to = Len(text) \/ text[to + 1] \in KeyChars
  PROVE  EntryLength(p) # 0 /\ EntryEnd(p) = to
  <1>1. PICK len \in Nat : len = Len(text)
    BY TextType
  <1>2. PICK k \in p .. to, d \in p .. to, v \in p .. to :
          /\ p < k /\ k < d /\ d < v
          /\ AllIn(p, k, KeyChars)
          /\ AllIn(k, d, KeyValueDelimiters)
          /\ AllIn(d, v, ValueChars)
          /\ AllIn(v, to, EntryDelimiters)
          /\ v = to => AtEnd(to)
    BY DEF IsLine
  <1>3. /\ k \in p .. len /\ k \in 0 .. len /\ d \in k .. len /\ d \in 0 .. len
        /\ v \in d .. len /\ v \in 0 .. len /\ to \in v .. len
    BY <1>1, <1>2
  <1>4. KeyEnd(p) = k
    <2>1. text[k + 1] \notin KeyChars
      <3>1. k + 1 \in k + 1 .. d
        BY <1>2
      <3> QED BY <1>2, <3>1 DEF AllIn, KeyChars, KeyValueDelimiters
    <2>2. Count(p, KeyChars) = k - p
      BY <1>1, <1>2, <1>3, <2>1, CountIs
    <2> QED BY <1>3, <2>2 DEF KeyEnd
  <1>5. DelimiterEnd(p) = d
    <2>1. text[d + 1] \notin KeyValueDelimiters
      <3>1. d + 1 \in d + 1 .. v
        BY <1>2
      <3> QED BY <1>2, <3>1 DEF AllIn, ValueChars, KeyValueDelimiters
    <2>2. Count(k, KeyValueDelimiters) = d - k
      BY <1>1, <1>2, <1>3, <2>1, CountIs
    <2> QED BY <1>3, <1>4, <2>2 DEF DelimiterEnd
  <1>6. ValueEnd(p) = v
    <2>1. v = len \/ text[v + 1] \notin ValueChars
      <3>1. CASE v = to
        BY <1>1, <1>2, <3>1 DEF AtEnd
      <3>2. CASE v # to
        <4>1. v + 1 \in v + 1 .. to
          BY <1>2, <3>2
        <4> QED BY <1>2, <4>1 DEF AllIn, ValueChars, EntryDelimiters
      <3> QED BY <3>1, <3>2
    <2>2. Count(d, ValueChars) = v - d
      BY <1>1, <1>2, <1>3, <2>1, CountIs
    <2> QED BY <1>3, <1>5, <2>2 DEF ValueEnd
  <1>7. EntryEnd(p) = to
    <2>1. to = len \/ text[to + 1] \notin EntryDelimiters
      BY <1>1 DEF KeyChars, EntryDelimiters
    <2>2. Count(v, EntryDelimiters) = to - v
      BY <1>1, <1>2, <1>3, <2>1, CountIs
    <2> QED BY <1>3, <1>6, <2>2 DEF EntryEnd
  <1>8. HasParts(p)
    BY <1>2, <1>4, <1>5, <1>6 DEF HasParts
  <1>9. to > v \/ AtEnd(to)
    BY <1>2
  <1>10. EntryLength(p) = to - p
    BY <1>6, <1>7, <1>8, <1>9 DEF EntryLength
  <1> QED BY <1>2, <1>7, <1>10

\* A line begins with a character of a name.
LEMMA LineStart ==
  ASSUME NEW p \in Nat, NEW to \in Nat, IsLine(p, to)
  PROVE  p < to /\ text[p + 1] \in KeyChars
  <1>1. PICK k \in p .. to : p < k /\ AllIn(p, k, KeyChars)
    BY DEF IsLine
  <1>2. p + 1 \in p + 1 .. k
    BY <1>1
  <1> QED BY <1>1, <1>2 DEF AllIn

-----------------------------------------------------------------------------
(* The two recursive functions exist, and are what their equations say.    *)

\* The function that lbx_advance_entry, called t times, computes.
Starts(f, t) == f = [j \in 0 .. t |-> IF j = 0 THEN 0 ELSE Advance(f[j - 1])]

\* There is one, for every t.
LEMMA StartsExist ==
  ASSUME NEW n \in Nat
  PROVE  \E f : Starts(f, n)
  <1> DEFINE Bad == {t \in Nat : ~\E f : Starts(f, t)}
  <1> SUFFICES ASSUME Bad # {} PROVE FALSE
    OBVIOUS
  <1>1. PICK t \in Bad : \A u \in Bad : t <= u
    <2>1. Bad \subseteq Nat
      OBVIOUS
    <2> QED BY <2>1, Least
  <1>2. t \in Nat /\ ~\E f : Starts(f, t)
    OBVIOUS
  <1>3. CASE t = 0
    <2> DEFINE f == [j \in 0 .. 0 |-> 0]
    <2>1. f = [j \in 0 .. 0 |-> IF j = 0 THEN 0 ELSE Advance(f[j - 1])]
      OBVIOUS
    <2> QED BY <1>2, <1>3, <2>1 DEF Starts
  <1>4. CASE t # 0
    <2>1. t - 1 \in Nat /\ ~(t <= t - 1)
      BY <1>2, <1>4
    <2>2. t - 1 \notin Bad
      BY <1>1, <2>1
    <2>3. PICK f : Starts(f, t - 1)
      BY <2>1, <2>2
    <2> DEFINE g == [j \in 0 .. t |-> IF j = t THEN Advance(f[t - 1]) ELSE f[j]]
    <2>4. \A j \in 0 .. t - 1 : f[j] = IF j = 0 THEN 0 ELSE Advance(f[j - 1])
      BY <2>3 DEF Starts
    <2>5. \A j \in 0 .. t : j # t => j \in 0 .. t - 1 /\ j - 1 # t
      BY <1>2
    <2>6. \A j \in 0 .. t : j # 0 => j - 1 \in 0 .. t /\ j - 1 # t
      BY <1>2
    <2>7. \A j \in 0 .. t : j # 0 => g[j - 1] = f[j - 1]
      BY <2>6
    <2>8. \A j \in 0 .. t : g[j] = IF j = 0 THEN 0 ELSE Advance(g[j - 1])
      BY <1>4, <2>4, <2>5, <2>7
    <2>9. g = [j \in 0 .. t |-> g[j]]
      OBVIOUS
    <2> HIDE DEF g
    <2>10. Starts(g, t)
      BY <2>8, <2>9 DEF Starts
    <2> QED BY <1>2, <2>10
  <1> QED BY <1>3, <1>4

\* Two of them agree as far as both go.
LEMMA StartsAgree ==
  ASSUME NEW n \in Nat, NEW m \in Nat, n <= m, NEW f, NEW g,
         Starts(f, n), Starts(g, m)
  PROVE  \A j \in 0 .. n : f[j] = g[j]
  <1> DEFINE Bad == {j \in 0 .. n : f[j] # g[j]}
  <1> SUFFICES ASSUME Bad # {} PROVE FALSE
    OBVIOUS
  <1>1. PICK t \in Bad : \A u \in Bad : t <= u
    <2>1. Bad \subseteq Nat
      OBVIOUS
    <2> QED BY <2>1, Least
  <1>2. t \in 0 .. n /\ f[t] # g[t] /\ t \in 0 .. m
    OBVIOUS
  <1>3. /\ f[t] = IF t = 0 THEN 0 ELSE Advance(f[t - 1])
        /\ g[t] = IF t = 0 THEN 0 ELSE Advance(g[t - 1])
    BY <1>2 DEF Starts
  <1>4. CASE t = 0
    BY <1>2, <1>3, <1>4
  <1>5. CASE t # 0
    <2>1. t - 1 \in 0 .. n /\ ~(t <= t - 1)
      BY <1>2, <1>5
    <2>2. f[t - 1] = g[t - 1]
      BY <1>1, <2>1
    <2> QED BY <1>2, <1>3, <2>2
  <1> QED BY <1>4, <1>5

\* So the calls add up.
LEMMA AdvancedIs ==
  ASSUME NEW n \in Nat
  PROVE  Advanced(0) = 0 /\ Advanced(n + 1) = EntryEnd(Advanced(n))
  <1>1. ASSUME NEW t \in Nat
        PROVE  \E f : Starts(f, t) /\ Advanced(t) = f[t]
    <2> DEFINE c == CHOOSE f : Starts(f, t)
    <2>1. Starts(c, t)
      BY StartsExist
    <2>2. Advanced(t) = c[t]
      BY DEF Advanced, Starts
    <2> HIDE DEF c
    <2> QED BY <2>1, <2>2
  <1>2. PICK z : Starts(z, 0) /\ Advanced(0) = z[0]
    BY <1>1
  <1>3. z[0] = 0
    BY <1>2 DEF Starts
  <1>4. PICK f : Starts(f, n) /\ Advanced(n) = f[n]
    BY <1>1
  <1>5. PICK g : Starts(g, n + 1) /\ Advanced(n + 1) = g[n + 1]
    BY <1>1
  <1>6. n \in 0 .. n /\ n <= n + 1 /\ n + 1 \in Nat
    OBVIOUS
  <1>7. f[n] = g[n]
    BY <1>4, <1>5, <1>6, StartsAgree
  <1>8. g[n + 1] = Advance(g[n])
    <2>1. n + 1 \in 0 .. n + 1 /\ n + 1 # 0 /\ n + 1 - 1 = n
      OBVIOUS
    <2>2. g[n + 1] = IF n + 1 = 0 THEN 0 ELSE Advance(g[n + 1 - 1])
      BY <1>5, <2>1 DEF Starts
    <2> QED BY <2>1, <2>2
  <1> QED BY <1>2, <1>3, <1>4, <1>5, <1>7, <1>8 DEF Advance

\* The function that validate_lbx_items computes, from position a on.
ScanAt(f, p) ==
  IF EntryLength(p) = 0 THEN [stop |-> p, n |-> 0]
  ELSE [f[p + EntryLength(p)] EXCEPT !.n = @ + 1]

ScansFrom(f, a) == f = [p \in a .. Len(text) |-> ScanAt(f, p)]

\* There is one for the whole text, built from its end.
LEMMA ScanExists ==
  ASSUME TextOK
  PROVE  \E f : ScansFrom(f, 0)
  <1>1. PICK len \in Nat : len = Len(text)
    BY TextType
  <1> DEFINE Bad == {n \in 0 .. len : ~\E f : ScansFrom(f, len - n)}
  <1>2. Bad = {}
    <2> SUFFICES ASSUME Bad # {} PROVE FALSE
      OBVIOUS
    <2>1. PICK n \in Bad : \A u \in Bad : n <= u
      <3>1. Bad \subseteq Nat
        OBVIOUS
      <3> QED BY <3>1, Least
    <2>2. n \in 0 .. len /\ ~\E f : ScansFrom(f, len - n)
      OBVIOUS
    <2>3. PICK a \in 0 .. len : a = len - n
      BY <2>2
    <2>4. PICK f : n # 0 => ScansFrom(f, a + 1)
      <3>1. CASE n = 0
        BY <3>1
      <3>2. CASE n # 0
        <4>1. n - 1 \in 0 .. len /\ ~(n <= n - 1)
          BY <2>2, <3>2
        <4>2. n - 1 \notin Bad
          BY <2>1, <4>1
        <4>3. \E f : ScansFrom(f, len - (n - 1))
          BY <4>1, <4>2
        <4>4. len - (n - 1) = a + 1
          BY <2>2, <2>3
        <4> QED BY <4>3, <4>4
      <3> QED BY <3>1, <3>2
    <2> HIDE DEF Bad
    <2> DEFINE h == ScanAt(f, a)
               g == [p \in a .. len |-> IF p = a THEN h ELSE f[p]]
    <2>5. ASSUME NEW p \in a .. len, EntryLength(p) # 0
          PROVE  /\ p + EntryLength(p) \in a .. len
                 /\ p + EntryLength(p) # a
      <3>1. PICK e \in p .. len : e = EntryEnd(p)
        BY <1>1, EntryBounds
      <3>2. EntryLength(p) = e - p /\ e > p
        BY <1>1, <2>5, <3>1, EntryBounds
      <3> QED BY <3>1, <3>2
    <2>6. ASSUME NEW p \in a .. len
          PROVE  ScanAt(g, p) = ScanAt(f, p)
      <3>1. CASE EntryLength(p) = 0
        BY <3>1 DEF ScanAt
      <3>2. CASE EntryLength(p) # 0
        <4>1. g[p + EntryLength(p)] = f[p + EntryLength(p)]
          BY <2>5, <3>2
        <4> HIDE DEF g
        <4> QED BY <4>1 DEF ScanAt
      <3> QED BY <3>1, <3>2
    <2>7. ASSUME NEW p \in a .. len
          PROVE  g[p] = ScanAt(g, p)
      <3>1. CASE p = a
        BY <2>6, <3>1
      <3>2. CASE p # a
        <4>1. p \in a + 1 .. len /\ n # 0
          BY <2>2, <2>3, <3>2
        <4>2. f[p] = ScanAt(f, p)
          BY <1>1, <2>4, <4>1 DEF ScansFrom
        <4> QED BY <2>6, <3>2, <4>2
      <3> QED BY <3>1, <3>2
    <2>8. g = [p \in a .. len |-> g[p]]
      OBVIOUS
    <2> HIDE DEF g
    <2>9. ScansFrom(g, a)
      BY <1>1, <2>7, <2>8 DEF ScansFrom
    <2> QED BY <2>2, <2>3, <2>9
  <1>3. len \in 0 .. len /\ len - len = 0
    OBVIOUS
  <1> QED BY <1>2, <1>3

Scan == CHOOSE f : ScansFrom(f, 0)

\* The result of validate_lbx_items is what such a function says at 0.
LEMMA ValidateIs ==
  ASSUME TextOK
  PROVE  /\ ScansFrom(Scan, 0)
         /\ Validate = IF AtEnd(Scan[0].stop) THEN Scan[0].n ELSE -1
  <1>1. ScansFrom(Scan, 0)
    BY ScanExists DEF Scan
  <1>2. Validate = IF AtEnd(Scan[0].stop) THEN Scan[0].n ELSE -1
    BY DEF Validate, Scan, ScansFrom, ScanAt
  <1> QED BY <1>1, <1>2

\* It depends on the text alone.
LEMMA ValidateSame ==
  ASSUME text' = text
  PROVE  Validate' = Validate
  <1>1. \A p, C : Count(p, C)' = Count(p, C)
    BY Zenon DEF Count
  <1>2. \A p : KeyEnd(p)' = KeyEnd(p)
    BY <1>1, Zenon DEF KeyEnd, KeyChars
  <1>3. \A p : DelimiterEnd(p)' = DelimiterEnd(p)
    BY <1>1, <1>2, Zenon DEF DelimiterEnd, KeyValueDelimiters
  <1>4. \A p : ValueEnd(p)' = ValueEnd(p)
    BY <1>1, <1>3, Zenon DEF ValueEnd, ValueChars
  <1>5. \A p : EntryEnd(p)' = EntryEnd(p)
    BY <1>1, <1>4, Zenon DEF EntryEnd, EntryDelimiters
  <1>6. \A p : EntryLength(p)' = EntryLength(p)
    BY <1>2, <1>3, <1>4, <1>5, Zenon DEF EntryLength, HasParts, AtEnd
  <1>7. \A f : ScansFrom(f, 0)' <=> ScansFrom(f, 0)
    BY <1>6, Zenon DEF ScansFrom, ScanAt
  <1>8. Scan' = Scan
    BY <1>7, Zenon DEF Scan
  <1>9. Validate = IF AtEnd(Scan[0].stop) THEN Scan[0].n ELSE -1
    BY DEF Validate, Scan, ScansFrom, ScanAt
  <1>10. (Validate = IF AtEnd(Scan[0].stop) THEN Scan[0].n ELSE -1)'
    BY DEF Validate, Scan, ScansFrom, ScanAt
  <1> QED BY <1>8, <1>9, <1>10 DEF AtEnd

-----------------------------------------------------------------------------
(* The walk from entry to entry.  Walk(n) says that the first n entries are *)
(* accepted and the next is not.                                           *)

Walk(n) ==
  /\ \A j \in 0 .. n - 1 : EntryLength(Advanced(j)) # 0
  /\ EntryLength(Advanced(n)) = 0

\* Advancing never leaves the text,
LEMMA AdvancedRange ==
  ASSUME TextOK, NEW n \in Nat
  PROVE  Advanced(n) \in 0 .. Len(text)
  <1> DEFINE Bad == {i \in Nat : Advanced(i) \notin 0 .. Len(text)}
  <1> SUFFICES ASSUME Bad # {} PROVE FALSE
    OBVIOUS
  <1>1. PICK t \in Bad : \A u \in Bad : t <= u
    <2>1. Bad \subseteq Nat
      OBVIOUS
    <2> QED BY <2>1, Least
  <1>2. t \in Nat /\ Advanced(t) \notin 0 .. Len(text)
    OBVIOUS
  <1>3. t # 0
    <2>1. 0 \in Nat /\ Advanced(0) = 0
      BY AdvancedIs
    <2>2. 0 \in 0 .. Len(text)
      BY TextType
    <2> QED BY <1>2, <2>1, <2>2
  <1>4. t - 1 \in Nat /\ ~(t <= t - 1) /\ t - 1 + 1 = t
    BY <1>2, <1>3
  <1>5. Advanced(t - 1) \in 0 .. Len(text)
    BY <1>1, <1>4
  <1>6. PICK p \in 0 .. Len(text) : p = Advanced(t - 1)
    BY <1>5
  <1>7. Advanced(t) = EntryEnd(p)
    BY <1>4, <1>6, AdvancedIs
  <1>8. EntryEnd(p) \in p .. Len(text)
    BY EntryBounds
  <1>9. EntryEnd(p) \in 0 .. Len(text)
    BY <1>6, <1>8, TextType
  <1> QED BY <1>2, <1>7, <1>9

\* passes a line when the entry is accepted,
LEMMA AdvancedStep ==
  ASSUME TextOK, NEW n \in Nat, EntryLength(Advanced(n)) # 0
  PROVE  /\ Advanced(n + 1) = Advanced(n) + EntryLength(Advanced(n))
         /\ Advanced(n) < Advanced(n + 1)
         /\ IsLine(Advanced(n), Advanced(n + 1))
  <1>1. PICK p \in 0 .. Len(text) : p = Advanced(n)
    BY AdvancedRange
  <1>2. Advanced(n + 1) = EntryEnd(p)
    BY <1>1, AdvancedIs
  <1>3. EntryLength(p) = EntryEnd(p) - p /\ EntryEnd(p) > p
    BY <1>1, EntryBounds
  <1>4. PICK e \in Nat : e = EntryEnd(p)
    <2>1. EntryEnd(p) \in p .. Len(text)
      BY EntryBounds
    <2> QED BY <1>1, <2>1, TextType
  <1>5. IsLine(p, e)
    BY <1>1, <1>4, EntryIsLine
  <1> QED BY <1>1, <1>2, <1>3, <1>4, <1>5

\* and comes to an entry that is not accepted.
LEMMA WalkEnds ==
  ASSUME TextOK
  PROVE  \E n \in Nat : Walk(n)
  <1>1. PICK len \in Nat : len = Len(text)
    BY TextType
  <1> DEFINE T == {i \in Nat : EntryLength(Advanced(i)) = 0}
  <1>2. T # {}
    <2> SUFFICES ASSUME T = {} PROVE FALSE
      OBVIOUS
    <2>1. \A i \in Nat : EntryLength(Advanced(i)) # 0
      OBVIOUS
    <2> DEFINE Bad == {i \in Nat : ~(i <= Advanced(i))}
    <2>2. Bad = {}
      <3> SUFFICES ASSUME Bad # {} PROVE FALSE
        OBVIOUS
      <3>1. PICK t \in Bad : \A u \in Bad : t <= u
        <4>1. Bad \subseteq Nat
          OBVIOUS
        <4> QED BY <4>1, Least
      <3>2. t \in Nat /\ ~(t <= Advanced(t))
        OBVIOUS
      <3>3. t # 0
        <4>1. Advanced(0) = 0
          BY AdvancedIs
        <4> QED BY <3>2, <4>1
      <3>4. t - 1 \in Nat /\ ~(t <= t - 1) /\ t - 1 + 1 = t
        BY <3>2, <3>3
      <3>5. PICK u \in Nat : u = t - 1
        BY <3>4
      <3>6. u <= Advanced(u) /\ u + 1 = t
        BY <3>1, <3>4, <3>5
      <3>7. EntryLength(Advanced(u)) # 0
        BY <2>1, <3>5
      <3>8. Advanced(u) < Advanced(u + 1)
        BY <3>5, <3>7, AdvancedStep
      <3>9. Advanced(u) \in Nat /\ Advanced(u + 1) \in Nat
        <4>1. \A m \in 0 .. Len(text) : m \in Nat
          BY TextType
        <4>2. u + 1 \in Nat
          BY <3>5
        <4> QED BY <3>5, <4>1, <4>2, AdvancedRange
      <3> HIDE DEF Bad
      <3> QED BY <3>2, <3>5, <3>6, <3>8, <3>9
    <2>3. len + 1 \in Nat
      OBVIOUS
    <2>4. len + 1 <= Advanced(len + 1)
      BY <2>2, <2>3
    <2>5. Advanced(len + 1) \in 0 .. len
      BY <1>1, <2>3, AdvancedRange
    <2> QED BY <2>4, <2>5
  <1>3. PICK n \in T : \A i \in T : n <= i
    <2>1. T \subseteq Nat
      OBVIOUS
    <2> QED BY <1>2, <2>1, Least
  <1>4. n \in Nat /\ EntryLength(Advanced(n)) = 0
    OBVIOUS
  <1>5. ASSUME NEW j \in 0 .. n - 1
        PROVE  EntryLength(Advanced(j)) # 0
    <2>1. j \in Nat /\ ~(n <= j)
      BY <1>4
    <2> QED BY <1>3, <2>1
  <1> QED BY <1>4, <1>5 DEF Walk

\* The starts of the entries grow along the walk.
LEMMA WalkGrows ==
  ASSUME TextOK, NEW n \in Nat, Walk(n), NEW i \in 0 .. n, NEW j \in 0 .. n, i < j
  PROVE  Advanced(i) < Advanced(j)
  <1> DEFINE Bad == {k \in 0 .. n : i < k /\ ~(Advanced(i) < Advanced(k))}
  <1> SUFFICES ASSUME Bad # {} PROVE FALSE
    OBVIOUS
  <1>1. PICK t \in Bad : \A u \in Bad : t <= u
    <2>1. Bad \subseteq Nat
      OBVIOUS
    <2> QED BY <2>1, Least
  <1>2. t \in 0 .. n /\ i < t /\ ~(Advanced(i) < Advanced(t))
    OBVIOUS
  <1>3. t - 1 \in 0 .. n - 1 /\ t - 1 \in 0 .. n /\ t - 1 \in Nat /\ t - 1 + 1 = t
        /\ ~(t <= t - 1)
    BY <1>2
  <1>4. Advanced(t - 1) < Advanced(t)
    BY <1>3, AdvancedStep DEF Walk
  <1>5. t - 1 = i \/ Advanced(i) < Advanced(t - 1)
    <2>1. t - 1 = i \/ i < t - 1
      BY <1>2, <1>3
    <2> QED BY <1>1, <1>3, <2>1
  <1>6. Advanced(i) \in Nat /\ Advanced(t - 1) \in Nat /\ Advanced(t) \in Nat
    <2>1. i \in Nat /\ t \in Nat
      BY <1>2
    <2>2. \A m \in 0 .. Len(text) : m \in Nat
      BY TextType
    <2> QED BY <1>3, <2>1, <2>2, AdvancedRange
  <1> QED BY <1>2, <1>4, <1>5, <1>6

(* validate_lbx_items counts the entries of the walk.                      *)
LEMMA ScanCounts ==
  ASSUME TextOK, NEW n \in Nat, Walk(n), NEW f, ScansFrom(f, 0), NEW i \in 0 .. n
  PROVE  f[Advanced(i)] = [stop |-> Advanced(n), n |-> n - i]
  <1> DEFINE R(j) == [stop |-> Advanced(n), n |-> n - j]
             Bad == {d \in 0 .. n : f[Advanced(n - d)] # R(n - d)}
  <1>1. Bad = {}
    <2> SUFFICES ASSUME Bad # {} PROVE FALSE
      OBVIOUS
    <2>1. PICK d \in Bad : \A u \in Bad : d <= u
      <3>1. Bad \subseteq Nat
        OBVIOUS
      <3> QED BY <3>1, Least
    <2>2. d \in 0 .. n /\ f[Advanced(n - d)] # R(n - d)
      OBVIOUS
    <2>3. PICK j \in 0 .. n : j = n - d
      BY <2>2
    <2>4. PICK p \in 0 .. Len(text) : p = Advanced(j)
      BY <2>3, AdvancedRange
    <2>5. f[p] = ScanAt(f, p)
      BY <2>4, TextType DEF ScansFrom
    <2>6. CASE d = 0
      <3>1. j = n
        BY <2>3, <2>6
      <3>2. f[p] = [stop |-> p, n |-> 0]
        BY <2>4, <2>5, <3>1 DEF ScanAt, Walk
      <3>3. n - n = 0
        OBVIOUS
      <3> QED BY <2>2, <2>3, <2>4, <3>1, <3>2, <3>3
    <2>7. CASE d # 0
      <3>1. d - 1 \in 0 .. n /\ ~(d <= d - 1) /\ n - (d - 1) = j + 1 /\ j \in 0 .. n - 1
            /\ j \in Nat
        BY <2>2, <2>3, <2>7
      <3>2. f[Advanced(j + 1)] = R(j + 1)
        <4>1. f[Advanced(n - (d - 1))] = R(n - (d - 1))
          BY <2>1, <3>1
        <4> QED BY <3>1, <4>1
      <3>3. EntryLength(p) # 0
        BY <2>4, <3>1 DEF Walk
      <3>4. Advanced(j + 1) = p + EntryLength(p)
        BY <2>4, <3>1, <3>3, AdvancedStep
      <3>5. f[p] = [R(j + 1) EXCEPT !.n = @ + 1]
        BY <2>5, <3>2, <3>3, <3>4 DEF ScanAt
      <3>6. PICK m \in Nat : m = n - (j + 1)
        BY <2>3, <3>1
      <3>7. m + 1 = n - j
        BY <2>3, <3>6
      <3>8. R(j + 1) = [stop |-> Advanced(n), n |-> m]
        BY <3>6
      <3>9. f[p] = [stop |-> Advanced(n), n |-> n - j]
        BY <3>5, <3>7, <3>8
      <3> QED BY <2>2, <2>3, <2>4, <3>9
    <2> QED BY <2>6, <2>7
  <1>2. n - i \in 0 .. n /\ n - (n - i) = i
    OBVIOUS
  <1>3. f[Advanced(n - (n - i))] = R(n - (n - i))
    BY <1>1, <1>2
  <1> QED BY <1>2, <1>3

\* And returns their number when the walk ends where the text does.
LEMMA ValidateCounts ==
  ASSUME TextOK, NEW n \in Nat, Walk(n)
  PROVE  Validate = IF Advanced(n) = Len(text) THEN n ELSE -1
  <1>1. PICK f : /\ ScansFrom(f, 0)
                 /\ Validate = IF AtEnd(f[0].stop) THEN f[0].n ELSE -1
    BY ValidateIs, Zenon
  <1>2. 0 \in 0 .. n /\ Advanced(0) = 0 /\ n - 0 = n
    BY AdvancedIs
  <1>3. f[0] = [stop |-> Advanced(n), n |-> n]
    <2>1. f[Advanced(0)] = [stop |-> Advanced(n), n |-> n - 0]
      BY <1>1, <1>2, ScanCounts
    <2> QED BY <1>2, <2>1
  <1> QED BY <1>1, <1>3 DEF AtEnd

-----------------------------------------------------------------------------
(* The ends of the first n entries.                                        *)

\* Behind the last entry there is nothing to advance over.
LEMMA AfterEnd ==
  ASSUME TextOK, NEW n \in Nat, Advanced(n) = Len(text), NEW i \in Nat, n <= i
  PROVE  Advanced(i) = Len(text)
  <1>1. PICK len \in Nat : len = Len(text)
    BY TextType
  <1> DEFINE Bad == {k \in Nat : n <= k /\ Advanced(k) # len}
  <1> SUFFICES ASSUME Bad # {} PROVE FALSE
    BY <1>1
  <1>2. PICK t \in Bad : \A u \in Bad : t <= u
    <2>1. Bad \subseteq Nat
      OBVIOUS
    <2> QED BY <2>1, Least
  <1>3. t \in Nat /\ n <= t /\ Advanced(t) # len
    OBVIOUS
  <1>4. n # t
    BY <1>1, <1>3
  <1>5. PICK u \in Nat : u + 1 = t /\ n <= u /\ ~(t <= u)
    <2>1. t - 1 \in Nat /\ t - 1 + 1 = t /\ n <= t - 1 /\ ~(t <= t - 1)
      BY <1>3, <1>4
    <2> QED BY <2>1
  <1>6. Advanced(u) = len
    BY <1>2, <1>5
  <1> HIDE DEF Bad
  <1>7. Advanced(t) = EntryEnd(len)
    BY <1>5, <1>6, AdvancedIs
  <1>8. EntryEnd(len) \in len .. len
    BY <1>1, EntryBounds
  <1> QED BY <1>3, <1>7, <1>8

EndsTo(n) == {Advanced(j) : j \in 1 .. n}

\* No two of them are the same.
LEMMA EndsCard ==
  ASSUME TextOK, NEW n \in Nat, Walk(n), NEW i \in 0 .. n
  PROVE  IsFiniteSet(EndsTo(i)) /\ Cardinality(EndsTo(i)) = i
  <1> DEFINE f == [j \in 1 .. i |-> Advanced(j)]
  <1>1. IsFiniteSet(1 .. i) /\ Cardinality(1 .. i) = i
    <2>1. i \in Int /\ 1 \in Int
      OBVIOUS
    <2>2. IsFiniteSet(1 .. i) /\ Cardinality(1 .. i) = IF 1 > i THEN 0 ELSE i - 1 + 1
      BY <2>1, FS_Interval
    <2> QED BY <2>2
  <1>2. f \in [1 .. i -> EndsTo(i)]
    BY DEF EndsTo
  <1>3. \A e \in EndsTo(i) : \E j \in 1 .. i : f[j] = e
    BY DEF EndsTo
  <1>4. ASSUME NEW j \in 1 .. i, NEW k \in 1 .. i, f[j] = f[k]
        PROVE  j = k
    <2>1. /\ j \in 0 .. n /\ k \in 0 .. n
          /\ Advanced(j) = Advanced(k)
      BY <1>4
    <2>2. Advanced(j) \in Nat
      <3>1. \A m \in 0 .. Len(text) : m \in Nat
        BY TextType
      <3>2. j \in Nat
        OBVIOUS
      <3> QED BY <3>1, <3>2, AdvancedRange
    <2>3. ~(j < k)
      BY <2>1, <2>2, WalkGrows
    <2>4. ~(k < j)
      BY <2>1, <2>2, WalkGrows
    <2> QED BY <2>3, <2>4
  <1> HIDE DEF f
  <1>5. f \in Bijection(1 .. i, EndsTo(i))
    BY <1>2, <1>3, <1>4 DEF Bijection, Injection, Surjection, IsInjective
  <1>6. ExistsBijection(1 .. i, EndsTo(i))
    BY <1>5 DEF ExistsBijection
  <1> QED BY <1>1, <1>6, FS_Bijection

\* A start is a number.
LEMMA AdvancedNat ==
  ASSUME TextOK, NEW n \in Nat
  PROVE  Advanced(n) \in Nat
  <1>1. \A m \in 0 .. Len(text) : m \in Nat
    BY TextType
  <1> QED BY <1>1, AdvancedRange

\* The ends before one of them, and the last of those.
LEMMA EndsBefore ==
  ASSUME TextOK, NEW n \in Nat, Walk(n), NEW j \in 1 .. n
  PROVE  /\ {x \in EndsTo(n) : x < Advanced(j)} = EndsTo(j - 1)
         /\ Max({0} \cup EndsTo(j - 1)) = Advanced(j - 1)
  <1>1. ASSUME NEW i \in 1 .. n
        PROVE  Advanced(i) < Advanced(j) <=> i \in 1 .. j - 1
    <2>1. Advanced(i) \in Nat /\ Advanced(j) \in Nat
      BY AdvancedNat
    <2>2. i \in 0 .. n /\ j \in 0 .. n
      OBVIOUS
    <2>3. i < j => Advanced(i) < Advanced(j)
      BY <2>2, WalkGrows
    <2>4. j < i => Advanced(j) < Advanced(i)
      BY <2>2, WalkGrows
    <2>5. i \in 1 .. j - 1 <=> i < j
      OBVIOUS
    <2>6. CASE i < j
      BY <2>3, <2>5, <2>6
    <2>7. CASE j < i
      BY <2>1, <2>4, <2>5, <2>7
    <2>8. CASE i = j
      BY <2>1, <2>5, <2>8
    <2> QED BY <2>6, <2>7, <2>8
  <1>2. 1 .. j - 1 \subseteq 1 .. n
    OBVIOUS
  <1>3. {x \in EndsTo(n) : x < Advanced(j)} = EndsTo(j - 1)
    BY <1>1, <1>2, Zenon DEF EndsTo
  <1>4. {0} \cup EndsTo(j - 1) \subseteq Nat
    <2>1. \A i \in 1 .. j - 1 : i \in Nat
      OBVIOUS
    <2> QED BY <2>1, AdvancedNat DEF EndsTo
  <1>5. Advanced(0) = 0
    BY AdvancedIs
  <1>6. Advanced(j - 1) \in {0} \cup EndsTo(j - 1)
    <2>1. j - 1 = 0 \/ j - 1 \in 1 .. j - 1
      OBVIOUS
    <2> QED BY <1>5, <2>1 DEF EndsTo
  <1>7. \A x \in {0} \cup EndsTo(j - 1) : x <= Advanced(j - 1)
    <2>1. j - 1 \in Nat
      OBVIOUS
    <2>2. PICK a \in Nat : a = Advanced(j - 1)
      BY <2>1, AdvancedNat
    <2>3. ASSUME NEW i \in 1 .. j - 1
          PROVE  Advanced(i) <= a
      <3>1. i = j - 1 \/ i < j - 1
        OBVIOUS
      <3>2. i \in 0 .. n /\ j - 1 \in 0 .. n /\ i \in Nat
        OBVIOUS
      <3>3. PICK b \in Nat : b = Advanced(i)
        BY <3>2, AdvancedNat
      <3>4. i < j - 1 => b < a
        BY <2>2, <3>2, <3>3, WalkGrows
      <3> QED BY <2>2, <3>1, <3>3, <3>4
    <2> QED BY <2>2, <2>3 DEF EndsTo
  <1>8. PICK a : a = Advanced(j - 1)
    OBVIOUS
  <1>9. PICK M : M = {0} \cup EndsTo(j - 1)
    OBVIOUS
  <1>10. M \subseteq Nat /\ a \in M /\ \A x \in M : x <= a
    BY <1>4, <1>6, <1>7, <1>8, <1>9
  <1>11. Max(M) = a
    BY <1>10, MaxIs
  <1> QED BY <1>3, <1>8, <1>9, <1>11

(* The ends of the walk cut the text into lines, when it reaches the end.  *)
LEMMA EndsAreCut ==
  ASSUME TextOK, NEW n \in Nat, Walk(n), Advanced(n) = Len(text)
  PROVE  EndsTo(n) \in Cuts
  <1>1. PICK len \in Nat : len = Len(text)
    BY TextType
  <1>2. Advanced(0) = 0
    BY AdvancedIs
  <1>3. ASSUME NEW j \in 1 .. n
        PROVE  /\ Advanced(j) \in 1 .. len
               /\ IsLine(Max({0} \cup {x \in EndsTo(n) : x < Advanced(j)}), Advanced(j))
    <2>1. Max({0} \cup {x \in EndsTo(n) : x < Advanced(j)}) = Advanced(j - 1)
      BY EndsBefore
    <2>2. PICK i \in 0 .. n - 1 : i = j - 1
      OBVIOUS
    <2>3. i \in Nat /\ i + 1 = j
      BY <2>2
    <2>4. EntryLength(Advanced(i)) # 0
      BY DEF Walk
    <2>5. Advanced(i) < Advanced(j) /\ IsLine(Advanced(i), Advanced(j))
      BY <2>3, <2>4, AdvancedStep
    <2>6. Advanced(i) \in Nat
      BY <2>3, AdvancedNat
    <2>7. Advanced(j) \in 0 .. len
      <3>1. j \in Nat
        OBVIOUS
      <3> QED BY <1>1, <3>1, AdvancedRange
    <2> QED BY <2>1, <2>2, <2>5, <2>6, <2>7
  <1>4. EndsTo(n) \in SUBSET (1 .. Len(text))
    BY <1>1, <1>3 DEF EndsTo
  <1>5. text # <<>> => Len(text) \in EndsTo(n)
    <2>1. CASE n = 0
      <3>1. Len(text) = 0
        BY <1>2, <2>1
      <3>2. text = <<>>
        BY <3>1 DEF TextOK
      <3> QED BY <3>2
    <2>2. CASE n # 0
      <3>1. n \in 1 .. n
        BY <2>2
      <3> QED BY <3>1 DEF EndsTo
    <2> QED BY <2>1, <2>2
  <1>6. \A to \in EndsTo(n) : IsLine(Max({0} \cup {x \in EndsTo(n) : x < to}), to)
    <2> SUFFICES ASSUME NEW j \in 1 .. n
                 PROVE  IsLine(Max({0} \cup {x \in EndsTo(n) : x < Advanced(j)}),
                               Advanced(j))
      BY Zenon DEF EndsTo
    <2> QED BY <1>3
  <1> QED BY <1>4, <1>5, <1>6 DEF Cuts

-----------------------------------------------------------------------------
(* A cut of the text is the ends of the walk.                              *)

(* Behind a line of a cut that does not end the text another begins.       *)
LEMMA CutLine ==
  ASSUME TextOK, NEW S \in Cuts, NEW p \in {0} \cup S, p # Len(text)
  PROVE  \E e \in S : p < e /\ IsLine(p, e) /\ \A x \in S : p < x => e <= x
  <1>1. PICK len \in Nat : len = Len(text)
    BY TextType
  <1>2. /\ S \subseteq 1 .. len
        /\ \A to \in S : IsLine(Max({0} \cup {x \in S : x < to}), to)
    BY <1>1, Zenon DEF Cuts
  <1>3. p \in 0 .. len /\ p < len
    BY <1>1, <1>2
  <1>4. len \in S
    <2>1. text # <<>>
      BY <1>1, <1>3
    <2> QED BY <1>1, <2>1 DEF Cuts
  <1> DEFINE T == {x \in S : p < x}
  <1>5. PICK e \in T : \A y \in T : e <= y
    <2>1. \A x \in 1 .. len : x \in Nat
      OBVIOUS
    <2>2. T \subseteq Nat
      BY <1>2, <2>1
    <2>3. len \in T
      BY <1>3, <1>4
    <2> QED BY <2>2, <2>3, Least
  <1>6. e \in S /\ p < e /\ \A x \in S : p < x => e <= x
    BY <1>5
  <1> HIDE DEF T
  <1>7. PICK B : B = {0} \cup {x \in S : x < e}
    OBVIOUS
  <1>8. B \subseteq Nat /\ p \in B /\ \A x \in B : x <= p
    <2>1. p \in Nat /\ \A x \in 1 .. len : x \in Nat
      BY <1>3
    <2>2. B \subseteq Nat
      <3>1. ASSUME NEW x \in S PROVE x \in Nat
        BY <1>2, <2>1
      <3>2. 0 \in Nat
        OBVIOUS
      <3> QED BY <1>7, <3>1, <3>2, Zenon
    <2>3. p \in B
      BY <1>6, <1>7
    <2>4. ASSUME NEW x \in S, x < e PROVE x <= p
      <3>1. x \in Nat /\ e \in Nat
        BY <1>2, <1>6, <2>1
      <3>2. ~(e <= x)
        BY <2>4, <3>1
      <3>3. ~(p < x)
        BY <1>6, <3>2
      <3> QED BY <2>1, <3>1, <3>3
    <2> QED BY <1>7, <2>1, <2>2, <2>3, <2>4
  <1>9. Max(B) = p
    BY <1>8, MaxIs
  <1>10. IsLine(p, e)
    BY <1>2, <1>6, <1>7, <1>9
  <1> QED BY <1>6, <1>10

(* And the walk takes that line whole.                                     *)
LEMMA CutEntry ==
  ASSUME TextOK, NEW S \in Cuts, NEW p \in {0} \cup S, p # Len(text)
  PROVE  /\ EntryLength(p) # 0 /\ EntryEnd(p) \in S
         /\ \A x \in S : p < x => EntryEnd(p) <= x
  <1>1. PICK len \in Nat : len = Len(text)
    BY TextType
  <1>2. S \subseteq 1 .. len
    BY <1>1, Zenon DEF Cuts
  <1>3. PICK e \in S : p < e /\ IsLine(p, e) /\ \A x \in S : p < x => e <= x
    BY CutLine
  <1>4. p \in 0 .. len /\ e \in 0 .. len
    BY <1>2
  <1>5. e = len \/ text[e + 1] \in KeyChars
    <2>1. CASE e = len
      BY <2>1
    <2>2. CASE e # len
      <3>1. PICK d \in S : e < d /\ IsLine(e, d)
        BY <1>1, <1>3, <2>2, CutLine
      <3>2. d \in Nat /\ e \in Nat
        BY <1>2, <1>3
      <3> QED BY <3>1, <3>2, LineStart
    <2> QED BY <2>1, <2>2
  <1>6. EntryLength(p) # 0 /\ EntryEnd(p) = e
    BY <1>1, <1>3, <1>4, <1>5, LineIsEntry
  <1> QED BY <1>3, <1>6

\* As far as the walk goes, its ends are the ends of every cut.
LEMMA CutHasEnds ==
  ASSUME TextOK, NEW n \in Nat, Walk(n), NEW S \in Cuts, NEW i \in 0 .. n
  PROVE  /\ Advanced(i) \in {0} \cup S
         /\ \A x \in S : x <= Advanced(i) => x \in EndsTo(i)
  <1> DEFINE Good(j) == /\ Advanced(j) \in {0} \cup S
                        /\ \A x \in S : x <= Advanced(j) => x \in EndsTo(j)
             Bad == {j \in 0 .. n : ~Good(j)}
  <1> SUFFICES ASSUME Bad # {} PROVE FALSE
    OBVIOUS
  <1>1. PICK len \in Nat : len = Len(text)
    BY TextType
  <1>2. S \subseteq 1 .. len
    BY <1>1, Zenon DEF Cuts
  <1>3. PICK t \in Bad : \A u \in Bad : t <= u
    <2>1. Bad \subseteq Nat
      OBVIOUS
    <2> QED BY <2>1, Least
  <1>4. t \in 0 .. n /\ ~Good(t)
    OBVIOUS
  <1>5. t # 0
    <2>1. Advanced(0) = 0
      BY AdvancedIs
    <2>2. Good(0)
      BY <1>2, <2>1
    <2> QED BY <1>4, <2>2
  <1>6. PICK u \in 0 .. n - 1 : u + 1 = t /\ u \in 0 .. n /\ ~(t <= u)
    <2>1. t - 1 \in 0 .. n - 1 /\ t - 1 + 1 = t /\ t - 1 \in 0 .. n /\ ~(t <= t - 1)
      BY <1>4, <1>5
    <2> QED BY <2>1
  <1>7. Good(u)
    BY <1>3, <1>6
  <1> HIDE DEF Bad
  <1>8. PICK p \in {0} \cup S : p = Advanced(u)
    BY <1>7
  <1>9. p \in 0 .. len
    BY <1>2
  <1>10. EntryLength(p) # 0
    BY <1>6, <1>8 DEF Walk
  <1>11. p # len
    BY <1>1, <1>9, <1>10, EntryBounds
  <1>12. EntryEnd(p) \in S /\ \A x \in S : p < x => EntryEnd(p) <= x
    BY <1>1, <1>11, CutEntry
  <1>13. Advanced(t) = EntryEnd(p)
    <2>1. u \in Nat
      BY <1>6
    <2> QED BY <1>6, <1>8, <2>1, AdvancedIs
  <1>14. PICK e \in S : e = EntryEnd(p)
    BY <1>12
  <1>15. EndsTo(u) \subseteq EndsTo(t) /\ e \in EndsTo(t)
    <2>1. 1 .. u \subseteq 1 .. t /\ t \in 1 .. t
      BY <1>4, <1>6
    <2> QED BY <1>13, <1>14, <2>1 DEF EndsTo
  <1>16. ASSUME NEW x \in S, x <= e
         PROVE  x \in EndsTo(t)
    <2>1. CASE x <= p
      BY <1>7, <1>8, <1>15, <2>1
    <2>2. CASE p < x
      <3>1. e <= x
        BY <1>12, <1>14, <2>2
      <3>2. x = e
        BY <1>2, <1>16, <3>1
      <3> QED BY <1>15, <3>2
    <2> QED BY <1>2, <1>9, <2>1, <2>2
  <1>17. Good(t)
    BY <1>13, <1>14, <1>16
  <1> QED BY <1>4, <1>17

(* So there is one cut at most, and none when the walk stops early.        *)
LEMMA CutIsEnds ==
  ASSUME TextOK, NEW n \in Nat, Walk(n), NEW S \in Cuts
  PROVE  Advanced(n) = Len(text) /\ S = EndsTo(n)
  <1>1. PICK len \in Nat : len = Len(text)
    BY TextType
  <1>2. S \subseteq 1 .. len
    BY <1>1, Zenon DEF Cuts
  <1>3. n \in 0 .. n
    OBVIOUS
  <1>4. /\ Advanced(n) \in {0} \cup S
        /\ \A x \in S : x <= Advanced(n) => x \in EndsTo(n)
    BY <1>3, CutHasEnds
  <1>5. Advanced(n) = len
    <2>1. PICK p \in {0} \cup S : p = Advanced(n)
      BY <1>4
    <2>2. EntryLength(p) = 0
      BY <2>1 DEF Walk
    <2> QED BY <1>1, <2>1, <2>2, CutEntry
  <1>6. \A x \in S : x \in EndsTo(n)
    BY <1>2, <1>4, <1>5
  <1>7. ASSUME NEW j \in 1 .. n
        PROVE  Advanced(j) \in S
    <2>1. j \in 0 .. n /\ 0 \in 0 .. n /\ 0 < j /\ j \in Nat
      OBVIOUS
    <2>2. Advanced(j) \in {0} \cup S
      BY <2>1, CutHasEnds
    <2>3. Advanced(0) < Advanced(j)
      BY <2>1, WalkGrows
    <2>4. Advanced(0) = 0
      BY AdvancedIs
    <2>5. Advanced(j) # 0
      BY <2>3, <2>4
    <2> QED BY <2>2, <2>5
  <1>8. S = EndsTo(n)
    BY <1>6, <1>7 DEF EndsTo
  <1> QED BY <1>1, <1>5, <1>8

-----------------------------------------------------------------------------
(* What the property's words mean on the walk.                             *)

\* Line i of the cut is entry i of the walk.
LEMMA LineOfEnds ==
  ASSUME TextOK, NEW n \in Nat, Walk(n), NEW i \in 0 .. n - 1
  PROVE  Line(EndsTo(n), i) = <<Advanced(i), Advanced(i + 1)>>
  <1> DEFINE S == EndsTo(n)
             P(l) == /\ Cardinality({x \in S : x < l[2]}) = i
                     /\ l[1] = Max({0} \cup {x \in S : x < l[2]})
             w == <<Advanced(i), Advanced(i + 1)>>
  <1>1. ASSUME NEW j \in 1 .. n
        PROVE  /\ Cardinality({x \in S : x < Advanced(j)}) = j - 1
               /\ Max({0} \cup {x \in S : x < Advanced(j)}) = Advanced(j - 1)
    <2>1. /\ {x \in S : x < Advanced(j)} = EndsTo(j - 1)
          /\ Max({0} \cup EndsTo(j - 1)) = Advanced(j - 1)
      BY EndsBefore
    <2>2. j - 1 \in 0 .. n
      OBVIOUS
    <2>3. Cardinality(EndsTo(j - 1)) = j - 1
      BY <2>2, EndsCard
    <2> HIDE DEF S
    <2> QED BY <2>1, <2>3
  <1>2. \A e \in S : \E j \in 1 .. n : e = Advanced(j)
    BY DEF EndsTo
  <1>3. i + 1 \in 1 .. n /\ i + 1 - 1 = i /\ i \in Nat
    OBVIOUS
  <1>4. w \in (0 .. Len(text)) \X S
    <2>1. Advanced(i) \in 0 .. Len(text)
      BY <1>3, AdvancedRange
    <2>2. Advanced(i + 1) \in S
      BY <1>3 DEF EndsTo
    <2> HIDE DEF S
    <2> QED BY <2>1, <2>2
  <1> HIDE DEF S
  <1>5. P(w)
    BY <1>1, <1>3
  <1>6. ASSUME NEW l \in (0 .. Len(text)) \X S, P(l)
        PROVE  l = w
    <2>1. l[2] \in S /\ l = <<l[1], l[2]>>
      OBVIOUS
    <2>2. PICK j \in 1 .. n : l[2] = Advanced(j)
      BY <1>2, <2>1
    <2>3. j - 1 = i /\ l[1] = Advanced(j - 1)
      BY <1>1, <1>6, <2>2
    <2>4. j = i + 1
      BY <2>3
    <2> QED BY <2>1, <2>2, <2>3, <2>4
  <1> HIDE DEF w
  <1>7. (CHOOSE l \in (0 .. Len(text)) \X S : P(l)) = w
    <2> HIDE DEF P
    <2> QED BY <1>4, <1>5, <1>6
  <1>8. Line(S, i) = CHOOSE l \in (0 .. Len(text)) \X S : P(l)
    BY DEF Line
  <1> QED BY <1>7, <1>8 DEF S, w

\* Min of two numbers.
LEMMA LeastOfTwo ==
  ASSUME NEW a \in Int, NEW b \in Int, a <= b
  PROVE  Min({a, b}) = a
  BY DEF Min

\* The characters of a piece of the text.
LEMMA SpanIs ==
  ASSUME TextOK, NEW a \in 0 .. Len(text), NEW b \in a .. Len(text)
  PROVE  /\ Span(a, b) \in Seq(Classes) /\ Len(Span(a, b)) = b - a
         /\ \A i \in 1 .. b - a : Span(a, b)[i] = text[a + i]
  <1>1. PICK len \in Nat : len = Len(text)
    BY TextType
  <1>2. a + 1 \in Int /\ b \in Int /\ a \in 0 .. len /\ b \in a .. len
    BY <1>1
  <1>3. \A i \in a + 1 .. b : text[i] \in Classes
    <2>1. \A i \in a + 1 .. b : i \in 1 .. len
      BY <1>2
    <2> QED BY <1>1, <2>1, TextType
  <1>4. PICK c \in Int : c = a + 1
    BY <1>2
  <1>5. \A i \in c .. b : text[i] \in Classes
    BY <1>3, <1>4
  <1>6. /\ SubSeq(text, c, b) \in Seq(Classes)
        /\ Len(SubSeq(text, c, b)) = IF c <= b THEN b - c + 1 ELSE 0
        /\ \A i \in 1 .. b - c + 1 : SubSeq(text, c, b)[i] = text[c + i - 1]
    BY <1>2, <1>5, SubSeqProperties
  <1>7. PICK s : s = SubSeq(text, c, b)
    OBVIOUS
  <1>8. s \in Seq(Classes)
    BY <1>6, <1>7
  <1>9. Len(s) = b - a
    BY <1>2, <1>4, <1>6, <1>7
  <1>10. \A i \in 1 .. b - a : s[i] = text[a + i]
    <2>1. b - c + 1 = b - a
      BY <1>2, <1>4
    <2>2. \A i \in 1 .. b - a : c + i - 1 = a + i
      BY <1>2, <1>4
    <2> QED BY <1>6, <1>7, <2>1, <2>2
  <1>11. Span(a, b) = s
    BY <1>4, <1>7 DEF Span
  <1> QED BY <1>8, <1>9, <1>10, <1>11

Run(c, n) == [k \in 1 .. n |-> c]

\* A piece of one class is that class repeated.
LEMMA SpanOfOne ==
  ASSUME TextOK, NEW a \in 0 .. Len(text), NEW b \in a .. Len(text), NEW c,
         AllIn(a, b, {c})
  PROVE  Span(a, b) = Run(c, b - a)
  <1>1. PICK len \in Nat : len = Len(text)
    BY TextType
  <1>2. PICK s : s = Span(a, b)
    OBVIOUS
  <1>3. /\ s \in Seq(Classes) /\ Len(s) = b - a
        /\ \A i \in 1 .. b - a : s[i] = text[a + i]
    BY <1>2, SpanIs
  <1>4. ASSUME NEW i \in 1 .. b - a PROVE s[i] = c
    <2>1. a + i \in a + 1 .. b
      BY <1>1
    <2> QED BY <1>3, <2>1 DEF AllIn
  <1>5. s = [i \in 1 .. b - a |-> s[i]]
    BY <1>3
  <1>6. s = [i \in 1 .. b - a |-> c]
    BY <1>4, <1>5
  <1> QED BY <1>2, <1>6 DEF Run

\* Adjacent pieces join.
LEMMA SpansJoin ==
  ASSUME TextOK, NEW a \in 0 .. Len(text), NEW b \in a .. Len(text),
         NEW c \in b .. Len(text)
  PROVE  Span(a, b) \o Span(b, c) = Span(a, c)
  <1>1. PICK len \in Nat : len = Len(text)
    BY TextType
  <1>2. PICK m \in 1 .. len + 1 : m = a + 1
    BY <1>1
  <1>3. b \in m - 1 .. Len(text) /\ m \in 1 .. Len(text) + 1
    BY <1>1, <1>2
  <1>4. SubSeq(text, m, b) \o SubSeq(text, b + 1, c) = SubSeq(text, m, c)
    BY <1>3, ConcatAdjacentSubSeq DEF TextOK
  <1> QED BY <1>2, <1>4 DEF Span

-----------------------------------------------------------------------------
(* The invariant.                                                          *)

Shown ==
  /\ TextOK /\ Len(text) <= MaxLength
  /\ items = "text" => Validate >= 0 /\ nItems = Validate

\* lcd_set_keys validates what it shows, and reading hides it.
LEMMA ShownInvariant == Spec => []Shown
  <1>1. Init => Shown
    <2> SUFFICES ASSUME Init PROVE Shown
      OBVIOUS
    <2>1. text = <<>> /\ items = "NULL"
      BY DEF Init
    <2>2. <<>> \in Seq(Classes) /\ Len(<<>>) = 0
      OBVIOUS
    <2> QED BY <2>1, <2>2, LengthAssumption DEF Shown, TextOK
  <1>2. Shown /\ [Next]_vars => Shown'
    <2> SUFFICES ASSUME Shown, [Next]_vars PROVE Shown'
      OBVIOUS
    <2>1. CASE SetKeys
      <3>1. text' = text
        BY <2>1 DEF SetKeys
      <3>2. Validate' = Validate
        BY <3>1, ValidateSame
      <3>3. items' = "text" => Validate >= 0 /\ nItems' = Validate
        BY <2>1 DEF SetKeys
      <3> QED BY <3>1, <3>2, <3>3 DEF Shown, TextOK
    <2>2. ASSUME NEW c \in Classes, Read(c) PROVE Shown'
      <3>1. text' = Append(text, c) /\ items' = "NULL" /\ Len(text) < MaxLength
        BY <2>2 DEF Read
      <3>2. text' \in Seq(Classes) /\ Len(text') = Len(text) + 1
        BY <3>1 DEF Shown, TextOK
      <3>3. Len(text) \in Nat
        BY TextType DEF Shown
      <3>4. Len(text') <= MaxLength
        BY <3>1, <3>2, <3>3, LengthAssumption
      <3> QED BY <3>1, <3>2, <3>4 DEF Shown, TextOK
    <2>3. CASE UNCHANGED vars
      <3>1. text' = text /\ items' = items /\ nItems' = nItems
        BY <2>3 DEF vars
      <3>2. Validate' = Validate
        BY <3>1, ValidateSame
      <3> QED BY <3>1, <3>2 DEF Shown, TextOK
    <2> QED BY <2>1, <2>2, <2>3 DEF Next
  <1> QED BY <1>1, <1>2, PTL DEF Spec

(* What the invariant says of the walk.                                    *)
LEMMA ShownWalk ==
  ASSUME Shown, items = "text"
  PROVE  nItems \in Nat /\ Walk(nItems) /\ Advanced(nItems) = Len(text)
  <1>1. TextOK /\ Validate >= 0 /\ nItems = Validate
    BY DEF Shown
  <1>2. PICK n \in Nat : Walk(n)
    BY <1>1, WalkEnds
  <1>3. Validate = IF Advanced(n) = Len(text) THEN n ELSE -1
    BY <1>1, <1>2, ValidateCounts
  <1>4. ~(-1 >= 0)
    OBVIOUS
  <1> QED BY <1>1, <1>2, <1>3, <1>4

-----------------------------------------------------------------------------
(* The theorems.                                                           *)

\* lcd_set_keys (ui.c) refuses no file of the grammar and accepts no other,
\* whatever the text: a file that it accepts has one reading, and its lines are
\* counted.
THEOREM AlwaysCountsLines == Spec => []CountsLines
  <1>1. Shown => CountsLines
    <2> SUFFICES ASSUME Shown PROVE CountsLines
      OBVIOUS
    <2>1. TextOK
      BY DEF Shown
    <2>2. ASSUME NEW S \in Cuts PROVE Validate >= 0
      <3>1. PICK n \in Nat : Walk(n)
        BY <2>1, WalkEnds
      <3>2. Advanced(n) = Len(text)
        BY <2>1, <3>1, CutIsEnds
      <3>3. Validate = n
        BY <2>1, <3>1, <3>2, ValidateCounts
      <3> QED BY <3>1, <3>3
    <2>3. ASSUME items = "text"
          PROVE  /\ Cardinality(Cuts) = 1
                 /\ \A S \in Cuts : nItems = Cardinality(S)
      <3>1. PICK n \in Nat : n = nItems /\ Walk(n) /\ Advanced(n) = Len(text)
        BY <2>3, ShownWalk
      <3>2. EndsTo(n) \in Cuts
        BY <2>1, <3>1, EndsAreCut
      <3>3. \A S \in Cuts : S = EndsTo(n)
        BY <2>1, <3>1, CutIsEnds
      <3>4. Cuts = {EndsTo(n)}
        BY <3>2, <3>3
      <3>5. n \in 0 .. n
        BY <3>1
      <3>6. Cardinality(EndsTo(n)) = n
        BY <2>1, <3>1, <3>5, EndsCard
      <3>7. PICK E : E = EndsTo(n)
        OBVIOUS
      <3>8. Cardinality({E}) = 1
        BY FS_Singleton
      <3> QED BY <3>1, <3>3, <3>4, <3>6, <3>7, <3>8
    <2> QED BY <2>2, <2>3 DEF CountsLines
  <1> QED BY <1>1, ShownInvariant, PTL

\* An item number behind the end of the list that is shown, still selected from
\* another one, types nothing when lbx_long_press looks it up.
THEOREM AlwaysStaleItemTypesNothing == Spec => []StaleItemTypesNothing
  <1>1. Shown => StaleItemTypesNothing
    <2> SUFFICES ASSUME Shown, items = "text", NEW i \in nItems .. MaxLength
                 PROVE  TypedValue(i) = <<>>
      BY DEF StaleItemTypesNothing
    <2>1. TextOK
      BY DEF Shown
    <2>2. PICK n \in Nat : n = nItems /\ Advanced(n) = Len(text)
      BY ShownWalk
    <2>3. i \in Nat /\ n <= i
      BY <2>2
    <2>4. PICK len \in Nat : len = Len(text)
      BY <2>1, TextType
    <2>5. EntryStart(i) = len
      BY <2>1, <2>2, <2>3, <2>4, AfterEnd DEF EntryStart
    <2>6. len \in 0 .. Len(text)
      BY <2>4
    <2>7. KeyEnd(len) \in len .. len
      BY <2>1, <2>4, <2>6, EntryParts
    <2>8. DelimiterEnd(len) \in KeyEnd(len) .. len
      BY <2>1, <2>4, <2>6, EntryParts
    <2>9. ValueEnd(len) \in DelimiterEnd(len) .. len
      BY <2>1, <2>4, <2>6, EntryParts
    <2>10. DelimiterEnd(len) = len
      BY <2>7, <2>8
    <2>11. ValueEnd(len) = len
      BY <2>9, <2>10
    <2>12. PICK m \in Nat : m = len + BUF_LEN - 1 /\ len <= m
      <3>1. len + BUF_LEN - 1 \in Nat /\ len <= len + BUF_LEN - 1
        BY LengthAssumption
      <3> QED BY <3>1
    <2>13. Min({len, m}) = len
      BY <2>12, LeastOfTwo
    <2>14. TypedValue(i) = Span(len, len)
      BY <2>5, <2>10, <2>11, <2>12, <2>13 DEF TypedValue
    <2>15. Span(len, len) = <<>>
      <3>1. len + 1 \in Int /\ len \in Int /\ len < len + 1
        OBVIOUS
      <3> QED BY <3>1, SubSeqEmpty DEF Span
    <2> QED BY <2>14, <2>15
  <1> QED BY <1>1, ShownInvariant, PTL

(* The name and the value of an accepted entry are drawn and typed whole, and *)
(* are not empty.                                                          *)
Whole(i, p, end) ==
  \E k, d, v \in p .. end :
    /\ p < k /\ k < d /\ d < v
    /\ DrawnKey(i) = Span(p, k) /\ TypedValue(i) = Span(d, v)
    /\ Span(k, d) = Run("tab", d - k)
    /\ Span(v, end) = Run("eol", end - v)

LEMMA EntryWhole ==
  ASSUME Shown, NEW i \in Nat, NEW p \in 0 .. Len(text), p = Advanced(i),
         EntryLength(p) # 0
  PROVE  Whole(i, p, EntryEnd(p))
  <1> TextOK
    BY DEF Shown
  <1>1. PICK len \in Nat : len = Len(text)
    BY TextType
  <1>2. PICK k \in p .. len : k = KeyEnd(p)
    BY <1>1, EntryParts
  <1>3. PICK d \in k .. len : d = DelimiterEnd(p)
    BY <1>1, <1>2, EntryParts
  <1>4. PICK v \in d .. len : v = ValueEnd(p)
    BY <1>1, <1>3, EntryParts
  <1>5. PICK e \in v .. len : e = EntryEnd(p)
    BY <1>1, <1>4, EntryParts
  <1>6. AllIn(k, d, {"tab"}) /\ AllIn(v, e, {"eol"})
    BY <1>2, <1>3, <1>4, <1>5, EntryParts DEF KeyValueDelimiters, EntryDelimiters
  <1>7. p < k /\ k < d /\ d < v
    BY <1>2, <1>3, <1>4, EntryBounds DEF HasParts
  <1>8. len <= BUF_LEN /\ BUF_LEN \in Nat
    BY <1>1, LengthAssumption, BufferAssumption DEF Shown
  <1>9. DrawnKey(i) = Span(p, k)
    <2>1. PICK m \in Int : m = p + BUF_LEN - 1 /\ k <= m
      <3>1. p + BUF_LEN - 1 \in Int /\ k <= p + BUF_LEN - 1
        BY <1>1, <1>2, <1>3, <1>7, <1>8
      <3> QED BY <3>1
    <2>2. k \in Int
      BY <1>1, <1>2
    <2>3. Min({k, m}) = k
      BY <2>1, <2>2, LeastOfTwo
    <2> QED BY <1>2, <2>1, <2>3 DEF DrawnKey, EntryStart
  <1>10. TypedValue(i) = Span(d, v)
    <2>1. PICK m \in Int : m = d + BUF_LEN - 1 /\ v <= m
      <3>1. d + BUF_LEN - 1 \in Int /\ v <= d + BUF_LEN - 1
        BY <1>1, <1>2, <1>3, <1>4, <1>7, <1>8
      <3> QED BY <3>1
    <2>2. v \in Int
      BY <1>1, <1>2, <1>3, <1>4
    <2>3. Min({v, m}) = v
      BY <2>1, <2>2, LeastOfTwo
    <2> QED BY <1>3, <1>4, <2>1, <2>3 DEF TypedValue, EntryStart
  <1>11. /\ k \in 0 .. Len(text) /\ d \in k .. Len(text)
         /\ v \in 0 .. Len(text) /\ e \in v .. Len(text)
    BY <1>1, <1>2, <1>3, <1>4, <1>5
  <1>12. Span(k, d) = Run("tab", d - k)
    BY <1>6, <1>11, SpanOfOne
  <1>13. Span(v, e) = Run("eol", e - v)
    BY <1>6, <1>11, SpanOfOne
  <1>14. k \in p .. e /\ d \in p .. e /\ v \in p .. e
    BY <1>1, <1>2, <1>3, <1>4, <1>5
  <1> QED BY <1>5, <1>7, <1>9, <1>10, <1>12, <1>13, <1>14 DEF Whole

\* The scans that draw item i and type its value find line i of the cut that was
\* counted: a name, tabs, a value and line ends, none of them cut short.
THEOREM AlwaysScansAgree == Spec => []ScansAgree
  <1>1. Shown => ScansAgree
    <2> DEFINE Agrees(a, b, name, value) ==
                 /\ name # <<>> /\ value # <<>>
                 /\ \E t \in 1 .. b - a, z \in 0 .. b - a :
                      Span(a, b) = name \o Run("tab", t)
                                   \o value \o Run("eol", z)
    <2> SUFFICES ASSUME Shown, items = "text", NEW S \in Cuts,
                        NEW i \in 0 .. nItems - 1
                 PROVE  Agrees(Line(S, i)[1], Line(S, i)[2], DrawnKey(i), TypedValue(i))
      BY Zenon DEF ScansAgree, Run
    <2>1. TextOK
      BY DEF Shown
    <2>2. PICK n \in Nat : n = nItems /\ Walk(n)
      BY ShownWalk
    <2>3. i \in 0 .. n - 1 /\ i \in Nat
      BY <2>2
    <2>4. Line(S, i) = <<Advanced(i), Advanced(i + 1)>>
      BY <2>1, <2>2, <2>3, CutIsEnds, LineOfEnds
    <2>5. PICK p \in 0 .. Len(text) : p = Advanced(i)
      BY <2>1, <2>3, AdvancedRange
    <2>6. EntryLength(p) # 0
      BY <2>2, <2>3, <2>5 DEF Walk
    <2>7. PICK len \in Nat : len = Len(text)
      BY <2>1, TextType
    <2>8. PICK e \in p .. len : e = EntryEnd(p)
      BY <2>1, <2>7, EntryBounds
    <2>9. Advanced(i + 1) = e
      BY <2>3, <2>5, <2>8, AdvancedIs
    <2>10. PICK k \in p .. e, d \in p .. e, v \in p .. e :
             /\ p < k /\ k < d /\ d < v
             /\ DrawnKey(i) = Span(p, k) /\ TypedValue(i) = Span(d, v)
             /\ Span(k, d) = Run("tab", d - k)
             /\ Span(v, e) = Run("eol", e - v)
      <3>1. Whole(i, p, e)
        BY <2>3, <2>5, <2>6, <2>8, EntryWhole
      <3> QED BY <3>1 DEF Whole
    <2>11. /\ p \in 0 .. Len(text) /\ k \in p .. Len(text) /\ d \in k .. Len(text)
           /\ d \in p .. Len(text) /\ v \in d .. Len(text) /\ v \in p .. Len(text)
           /\ d \in 0 .. Len(text) /\ e \in v .. Len(text)
      BY <2>7, <2>8, <2>10
    <2>12. Span(p, e) = Span(p, k) \o Span(k, d) \o Span(d, v) \o Span(v, e)
      <3>1. Span(p, k) \o Span(k, d) = Span(p, d)
        BY <2>1, <2>11, SpansJoin
      <3>2. Span(p, d) \o Span(d, v) = Span(p, v)
        BY <2>1, <2>11, SpansJoin
      <3>3. Span(p, v) \o Span(v, e) = Span(p, e)
        BY <2>1, <2>11, SpansJoin
      <3> QED BY <3>1, <3>2, <3>3
    <2>13. Span(p, k) # <<>> /\ Span(d, v) # <<>>
      <3>1. Len(Span(p, k)) = k - p /\ Len(Span(d, v)) = v - d
        BY <2>1, <2>11, SpanIs
      <3>2. k - p # 0 /\ v - d # 0
        BY <2>10
      <3>3. Len(<<>>) = 0
        OBVIOUS
      <3> QED BY <3>1, <3>2, <3>3
    <2>14. PICK t \in 1 .. e - p : t = d - k
      BY <2>7, <2>8, <2>10
    <2>15. PICK z \in 0 .. e - p : z = e - v
      BY <2>7, <2>8, <2>10
    <2>16. Span(p, e) = Span(p, k) \o Run("tab", t)
                        \o Span(d, v) \o Run("eol", z)
      BY <2>10, <2>12, <2>14, <2>15
    <2>17. Agrees(p, e, Span(p, k), Span(d, v))
      BY <2>13, <2>16
    <2>18. Line(S, i)[1] = p /\ Line(S, i)[2] = e
      BY <2>4, <2>5, <2>9
    <2>19. Agrees(p, e, DrawnKey(i), TypedValue(i))
      BY <2>10, <2>17
    <2> HIDE DEF Agrees
    <2> QED BY <2>18, <2>19
  <1> QED BY <1>1, ShownInvariant, PTL

=============================================================================
