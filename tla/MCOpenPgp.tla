----------------------------- MODULE MCOpenPgp -----------------------------
(* Values for TLC: blocks are of one size, and malloc takes the first. *)
EXTENDS OpenPgp

CONSTANT right

P(tag, use, sized, whole, text) ==
  [tag |-> tag, use |-> use, sized |-> sized, whole |-> whole, text |-> text]

SessionKeys ==
  {P("skesk", use, TRUE, TRUE, 0) :
     use \in PASSPHRASES \cup {NoPassphrase, Unhandled}}

Containers ==
  {P("encrypted", right, sized, TRUE, 0) : sized \in BOOLEAN}
    \cup {P("compressed", right, FALSE, TRUE, 0)}

Literals == {P("literal", right, sized, TRUE, n) : sized \in BOOLEAN, n \in {1, 3}}

Damaged == {P(tag, right, TRUE, FALSE, 0) : tag \in {"encrypted", "literal"}}

MCPackets ==
  SessionKeys \cup Containers \cup Literals \cup Damaged
    \cup {P("compressed", Unhandled, TRUE, TRUE, 0), P("other", right, TRUE, TRUE, 0)}

LowestFree(free) ==
  IF free = {} THEN {} ELSE {CHOOSE b \in free : \A c \in free : b <= c}
=============================================================================
