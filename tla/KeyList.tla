------------------------------ MODULE KeyList -------------------------------
(***************************************************************************)
(* The text of a key file and the list box that shows it (ui.c): a list of *)
(* lines, each a name to show, tabs, and a value to type.  lcd_set_keys    *)
(* counts and validates the items with one scan; drawing an item and       *)
(* typing its value each scan the text again from its beginning.  The      *)
(* scans are compared with the grammar they stand for.                     *)
(*                                                                         *)
(* A character is its class, all that any scan looks at: "alnum" may stand *)
(* in names and values, "other" in names only, "tab" separates them, "eol" *)
(* ends a line, and "control" has no glyph and may stand nowhere.  The     *)
(* text is a string: the NUL behind it belongs to no class.                *)
(***************************************************************************)
EXTENDS Integers, Sequences, FiniteSets, FiniteSetsExt

CONSTANTS
  MaxLength,    \* the longest text decrypt_file reads (1024)
  BUF_LEN       \* LBX_BUF_LEN: room for a value and its terminator (1024)

ASSUME LengthAssumption == MaxLength \in Nat /\ BUF_LEN \in Nat \ {0}

\* No name and no value fills the buffer it is copied to.
ASSUME BufferAssumption == MaxLength <= BUF_LEN

Classes == {"alnum", "other", "tab", "eol", "control"}

KeyChars == {"alnum", "other"}
ValueChars == {"alnum"}
KeyValueDelimiters == {"tab"}
EntryDelimiters == {"eol"}

VARIABLES
  text,         \* what decrypt_file has read
  items,        \* key_lbx.items: whether it points to the text, or is NULL
  nItems        \* key_lbx.n_items

vars == <<text, items, nItems>>

\* The count_lbx_..._chars functions: how many characters from position p on
\* are in C.  Positions count from 0, as in C.
Count(p, C) ==
  Max({n \in 0 .. Len(text) - p : \A k \in p + 1 .. p + n : text[k] \in C})

AtEnd(p) == p = Len(text)

\* Where the parts of the entry at p end.
KeyEnd(p) == p + Count(p, KeyChars)
DelimiterEnd(p) == KeyEnd(p) + Count(KeyEnd(p), KeyValueDelimiters)
ValueEnd(p) == DelimiterEnd(p) + Count(DelimiterEnd(p), ValueChars)
EntryEnd(p) == ValueEnd(p) + Count(ValueEnd(p), EntryDelimiters)

\* validate_lbx_entry: the length of the entry at p, or 0.  The last entry
\* needs no final delimiter; the mutant never asks for one.
HasParts(p) == KeyEnd(p) > p /\ DelimiterEnd(p) > KeyEnd(p) /\ ValueEnd(p) > DelimiterEnd(p)

EntryLengthAnyEnd(p) == IF HasParts(p) THEN EntryEnd(p) - p ELSE 0

EntryLength(p) ==
  IF HasParts(p) /\ (EntryEnd(p) > ValueEnd(p) \/ AtEnd(EntryEnd(p)))
  THEN EntryEnd(p) - p ELSE 0

\* validate_lbx_items: the number of items, or -1.
Validate ==
  LET scan[p \in 0 .. Len(text)] ==
        IF EntryLength(p) = 0 THEN [stop |-> p, n |-> 0]
        ELSE LET rest == scan[p + EntryLength(p)]
             IN [rest EXCEPT !.n = @ + 1]
  IN IF AtEnd(scan[0].stop) THEN scan[0].n ELSE -1

\* lbx_advance_entry.  The mutant stays before the delimiters.
AdvanceToDelimiter(p) == ValueEnd(p)
Advance(p) == EntryEnd(p)

Advanced(times) ==
  LET start[j \in 0 .. times] == IF j = 0 THEN 0 ELSE Advance(start[j - 1])
  IN start[times]

\* Where item i begins.  The mutant advances once too few.
EntryStartEarly(i) == Advanced(Max({0, i - 1}))
EntryStart(i) == Advanced(i)

Span(from, to) == SubSeq(text, from + 1, to)

\* lbx_long_press: the value that is typed for item i, cut to the buffer.
TypedValue(i) ==
  LET p == EntryStart(i)
  IN Span(DelimiterEnd(p), Min({ValueEnd(p), DelimiterEnd(p) + BUF_LEN - 1}))

\* lbx_render: the name that is drawn for item i.
DrawnKey(i) ==
  LET p == EntryStart(i)
  IN Span(p, Min({KeyEnd(p), p + BUF_LEN - 1}))

-----------------------------------------------------------------------------

Init == text = <<>> /\ items = "NULL" /\ nItems = 0

\* decrypt_file reads another character.
Read(c) ==
  /\ Len(text) < MaxLength
  /\ text' = Append(text, c)
  /\ items' = "NULL" /\ nItems' = 0

\* lcd_set_keys, which is lbx_set_items
SetKeys ==
  /\ IF Validate >= 0 THEN items' = "text" /\ nItems' = Validate
                      ELSE items' = "NULL" /\ nItems' = 0
  /\ UNCHANGED text

Next == SetKeys \/ \E c \in Classes : Read(c)

Spec == Init /\ [][Next]_vars

-----------------------------------------------------------------------------
(* The grammar: a file is a sequence of lines, and a line is a name, tabs,  *)
(* a value and line ends, which only the last line may lack.                *)

AllIn(from, to, C) == \A k \in from + 1 .. to : text[k] \in C

IsLine(from, to) ==
  \E k, d, v \in from .. to :
    /\ from < k /\ k < d /\ d < v
    /\ AllIn(from, k, KeyChars)
    /\ AllIn(k, d, KeyValueDelimiters)
    /\ AllIn(d, v, ValueChars)
    /\ AllIn(v, to, EntryDelimiters)
    /\ v = to => AtEnd(to)

\* The ways to cut the text into lines, each the set of the lines' ends.
Cuts ==
  {S \in SUBSET (1 .. Len(text)) :
     /\ text # <<>> => Len(text) \in S
     /\ \A to \in S : IsLine(Max({0} \cup {x \in S : x < to}), to)}

\* Line i of a cut, counted from 0, as its first position and its end.
Line(S, i) ==
  CHOOSE l \in (0 .. Len(text)) \X S :
    /\ Cardinality({x \in S : x < l[2]}) = i
    /\ l[1] = Max({0} \cup {x \in S : x < l[2]})

IsAlnumRun(from, to) == from < to /\ AllIn(from, to, ValueChars)

\* lcd_set_keys refuses no file of the grammar, and accepts no other; each has
\* one reading, and its lines are counted.
CountsLines ==
  /\ Cuts # {} => Validate >= 0
  /\ items = "text" =>
       /\ Cardinality(Cuts) = 1
       /\ \A S \in Cuts : nItems = Cardinality(S)

\* The scans that draw an item and that type it find the same line as the
\* scan that counted it: the name is the beginning of line i, and the value
\* follows its tabs.
ScansAgree ==
  items = "text" =>
    \A S \in Cuts : \A i \in 0 .. nItems - 1 :
      LET l == Line(S, i)
          name == DrawnKey(i)
          value == TypedValue(i)
      IN /\ name # <<>> /\ value # <<>>
         /\ \E t \in 1 .. l[2] - l[1], e \in 0 .. l[2] - l[1] :
              Span(l[1], l[2]) =
                name \o [k \in 1 .. t |-> "tab"] \o value \o [k \in 1 .. e |-> "eol"]

\* The number of an item of another list, still selected when this one is
\* shown (see Ui), types nothing if it lies behind this list's end, however far;
\* one that does not lie there types the value of this list's item.
StaleItemTypesNothing ==
  items = "text" => \A i \in nItems .. MaxLength : TypedValue(i) = <<>>
=============================================================================
