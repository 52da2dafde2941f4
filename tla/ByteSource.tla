----------------------------- MODULE ByteSource -----------------------------
(* What a stream promises whoever reads it: a row of bytes, handed out once   *)
(* each and in order, however the reading is split.  A read falls short at    *)
(* the end of the row only, or once the medium has failed; from then on there *)
(* may be junk in the place of bytes.  Streams.tla implements this.           *)
EXTENDS Integers, Sequences

CONSTANT Junk

VARIABLES
  last,         \* the last read: how much was asked for, and what it returned
  next,         \* the place of the next byte
  end,          \* the last place
  failed        \* the medium has failed

vars == <<last, next, end, failed>>

Nothing == [asked |-> 0, bytes |-> <<>>]

Init == last = Nothing /\ next = 1 /\ end \in Nat /\ failed = FALSE

Fail == failed' \in BOOLEAN /\ (failed => failed')

(* A stream is put on top: it has a row of its own. *)
Open == last' = Nothing /\ next' \in Nat /\ end' \in Nat /\ Fail

(* The bytes of a read that starts at place next. *)
InPlace(bytes) ==
  \A i \in 1..Len(bytes) : \/ bytes[i] = next + i - 1
                           \/ bytes[i] = Junk /\ failed'

Complete(read) ==
  \/ failed'
  \/ next' - 1 <= end /\ (Len(read.bytes) < read.asked => next' - 1 = end)

Read ==
  /\ last' \in [asked : Nat, bytes : Seq(Nat \cup {Junk})]
  /\ InPlace(last'.bytes)
  /\ Len(last'.bytes) <= last'.asked
  /\ next' = next + Len(last'.bytes)
  /\ Complete(last')
  /\ UNCHANGED end
  /\ Fail

Next == Open \/ Read \/ (Fail /\ UNCHANGED <<last, next, end>>)

Spec == Init /\ [][Next]_vars
=============================================================================
