----------------------------- MODULE EditedText -----------------------------
(***************************************************************************)
(* What the passphrase and PIN views promise: each edits a text that keeps *)
(* to a length and changes at its end only.  TextEntry refines it, with    *)
(* the buffers, lengths and indices of ui.c.                               *)
(*                                                                         *)
(* The promise for the PIN ends where lcd_pin_ok replaces the text that is *)
(* being edited (AssignPin while "pin" is edited): from then to the next   *)
(* AskPin an edit may leave any text that fits.                            *)
(***************************************************************************)
EXTENDS Integers, Sequences

CONSTANTS
  Charset,        \* the characters of a passphrase, in the order of the wheel
  PASSPHRASE_MAX, \* the longest passphrase
  Digits,
  PIN_MAX         \* the longest PIN

VARIABLES
  passphrase,     \* the text, <<>> until it is first asked for
  pins,           \* the PIN that is asked for and the one that is set
  edited,         \* which of them the view edits, if any
  lost            \* the edited PIN was replaced

PinNames == {"pin", "g_state"}
PinTexts == UNION {[1 .. n -> Digits] : n \in 0 .. PIN_MAX}

Front(s) == SubSeq(s, 1, Len(s) - 1)

Init ==
  /\ passphrase = <<>>
  /\ pins \in [PinNames -> PinTexts]
  /\ edited = "none"
  /\ lost = FALSE

AskPassphrase == passphrase' = <<Charset[1]>>

\* The wheel has no ends: d comes after c.
Follows(c, d) ==
  \E i \in 1 .. Len(Charset) : c = Charset[i] /\ d = Charset[(i % Len(Charset)) + 1]

Turn ==
  /\ passphrase # <<>>
  /\ \E i \in 1 .. Len(Charset) :
       passphrase' = [passphrase EXCEPT ![Len(passphrase)] = Charset[i]]
  /\ LET last == passphrase[Len(passphrase)]
         next == passphrase'[Len(passphrase)]
     IN Follows(last, next) \/ Follows(next, last)

\* A new character starts as a copy of the last one.
Extend ==
  /\ Len(passphrase) \in 1 .. PASSPHRASE_MAX - 1
  /\ passphrase' = Append(passphrase, passphrase[Len(passphrase)])

\* A passphrase keeps one character.
Shorten ==
  /\ Len(passphrase) > 1
  /\ passphrase' = Front(passphrase)

EditPassphrase == Turn \/ Extend \/ Shorten

AskPin ==
  /\ edited' \in PinNames
  /\ pins' = [pins EXCEPT ![edited'] = <<>>]
  /\ lost' = FALSE

TypeDigit ==
  /\ Len(pins[edited]) < PIN_MAX
  /\ \E d \in Digits : pins' = [pins EXCEPT ![edited] = Append(@, d)]

EraseDigit ==
  /\ pins[edited] # <<>>
  /\ pins' = [pins EXCEPT ![edited] = Front(@)]

EditPin ==
  /\ edited \in PinNames
  /\ IF lost THEN \E s \in PinTexts : pins' = [pins EXCEPT ![edited] = s]
             ELSE (TypeDigit \/ EraseDigit) /\ UNCHANGED lost
  /\ UNCHANGED edited

\* The PIN that is set is copied over the other one.
AssignPin ==
  /\ pins' = [pins EXCEPT !["pin"] = pins["g_state"]]
  /\ edited = "g_state" => UNCHANGED lost
  /\ UNCHANGED edited

Next ==
  \/ (AskPassphrase \/ EditPassphrase) /\ UNCHANGED <<pins, edited, lost>>
  \/ (AskPin \/ EditPin \/ AssignPin) /\ lost' \in BOOLEAN /\ UNCHANGED passphrase

Spec == Init /\ [][Next]_<<passphrase, pins, edited, lost>>
=============================================================================
