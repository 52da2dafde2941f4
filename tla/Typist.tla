------------------------------- MODULE Typist -------------------------------
(* What the keyboard promises the host: of the keys struck, in their order,   *)
(* it types some, each at most once, and never one that was not struck.  Keys *)
(* may be missing (nobody was listening), none is invented, repeated or       *)
(* moved.  Keyboard.tla implements this.                                      *)
EXTENDS Integers, Sequences

CONSTANT KEYS           \* the keys of the keyboard

VARIABLES
  sent,         \* the keys struck so far
  typed,        \* the keys the host took down
  last          \* the number of the last key typed, 0 when there is none

vars == <<sent, typed, last>>

Init == sent = <<>> /\ typed = <<>> /\ last = 0

Strike == \E k \in KEYS : sent' = Append(sent, k) /\ UNCHANGED <<typed, last>>

Type == \E i \in 1..Len(sent) :
          /\ i > last
          /\ typed' = Append(typed, sent[i])
          /\ last' = i
          /\ UNCHANGED sent

Next == Strike \/ Type

Spec == Init /\ [][Next]_vars
=============================================================================
