----------------------------- MODULE TextEntry ------------------------------
(***************************************************************************)
(* The text half of ui.c: the passphrase, whose last character turns like  *)
(* a wheel, and the PIN, typed digit by digit into one of two buffers.     *)
(* Buffers are arrays that end in NUL, and main.c reads them as strings;   *)
(* the length of the text is kept apart, in pin_len and passphrase_len.    *)
(* The calls of main.c that share the buffers are the actions Ask...,      *)
(* AssignPin and LockOut.  Clicks are atomic, being handled in SysTick.    *)
(***************************************************************************)
EXTENDS Integers, Sequences, FiniteSets

CONSTANTS
  Charset,             \* passphrase_charset (A-Z, a-z, 0-9)
  NUL,
  PASSPHRASE_BUFSIZE,  \* room for a passphrase and its terminator (101)
  Digits,              \* captions of the digit buttons
  PIN_BUFSIZE          \* room for a PIN and its terminator (101)

ASSUME CharsetAssumption ==
  /\ Charset # <<>>
  /\ Charset \in Seq({Charset[i] : i \in DOMAIN Charset})
  /\ \A i, j \in DOMAIN Charset : Charset[i] = Charset[j] => i = j
  /\ \A i \in DOMAIN Charset : Charset[i] # NUL

ASSUME PinAssumption ==
  /\ NUL \notin Digits
  /\ PASSPHRASE_BUFSIZE \in Nat /\ PASSPHRASE_BUFSIZE > 1
  /\ PIN_BUFSIZE \in Nat /\ PIN_BUFSIZE > 1

PinNames == {"pin", "g_state"}
Chars == {Charset[i] : i \in DOMAIN Charset}
PASSPHRASE_CHARSET_LEN == Len(Charset)

VARIABLES
  view,             \* the view that takes the clicks: "PASS", "PIN" or "none"
  passphrase,       \* g_state.passphrase
  passphraseLen, passphraseIndex,
  pin,              \* the two PIN buffers: pin and g_state.pin
  pinCaption,       \* which of them pin_code.caption points to
  pinLen,
  pinSet            \* g_state.pin_set

passVars == <<passphrase, passphraseLen, passphraseIndex>>
pinVars == <<pin, pinCaption, pinLen>>
vars == <<view, passVars, pinVars, pinSet>>

PinBuffers == [0 .. PIN_BUFSIZE - 1 -> Digits \cup {NUL}]
EmptyPin == [i \in 0 .. PIN_BUFSIZE - 1 |-> NUL]

\* strlen, and the string in a buffer.
StrLen(s) == CHOOSE n \in DOMAIN s : s[n] = NUL /\ \A i \in 0 .. n - 1 : s[i] # NUL
Str(s) == [i \in 1 .. StrLen(s) |-> s[i - 1]]

\* strcpy: what lies behind the terminator stays.
StrCpy(to, from) == [i \in DOMAIN to |-> IF i <= StrLen(from) THEN from[i] ELSE to[i]]

-----------------------------------------------------------------------------
(* The passphrase.                                                          *)

\* passphrase_charset, indexed as in C.
CharAt(i) == Charset[i + 1]

\* lcd_set_passphrase_buffer, and the pin_set of its caller
AskPassphrase ==
  /\ view' = "PASS"
  /\ passphrase' = [i \in 0 .. PASSPHRASE_BUFSIZE - 1 |-> IF i = 0 THEN CharAt(0) ELSE NUL]
  /\ passphraseLen' = 1
  /\ passphraseIndex' = 0
  /\ pinSet' = FALSE
  /\ UNCHANGED pinVars

PassClick == view = "PASS" /\ UNCHANGED <<view, pinVars, pinSet>>

\* pass_back_click's search for the last character.  The mutant keeps the
\* index of the erased one.
IndexOfErased(c) == passphraseIndex
IndexOf(c) == CHOOSE i \in 0 .. PASSPHRASE_CHARSET_LEN - 1 : CharAt(i) = c

PassBack ==
  /\ PassClick
  /\ passphraseLen > 1
  /\ passphrase' = [passphrase EXCEPT ![passphraseLen - 1] = NUL]
  /\ passphraseLen' = passphraseLen - 1
  /\ passphraseIndex' = IndexOf(passphrase[passphraseLen - 2])

TurnTo(i) ==
  /\ PassClick
  /\ passphraseIndex' = i
  /\ passphrase' = [passphrase EXCEPT ![passphraseLen - 1] = CharAt(i)]
  /\ UNCHANGED passphraseLen

PassUp ==
  TurnTo(IF passphraseIndex + 1 >= PASSPHRASE_CHARSET_LEN THEN 0 ELSE passphraseIndex + 1)
PassDown ==
  TurnTo(IF passphraseIndex - 1 < 0 THEN PASSPHRASE_CHARSET_LEN - 1 ELSE passphraseIndex - 1)

\* The character that pass_fwd_click appends.  The mutant starts over.
FirstChar == CharAt(0)
NewChar == CharAt(passphraseIndex)

PassFwd ==
  /\ PassClick
  /\ passphraseLen < PASSPHRASE_BUFSIZE - 1
  /\ passphrase' = [passphrase EXCEPT ![passphraseLen] = NewChar]
  /\ passphraseLen' = passphraseLen + 1
  /\ UNCHANGED passphraseIndex

-----------------------------------------------------------------------------
(* The PIN.                                                                 *)

\* lcd_set_pin_buffer: for a new PIN it is given the buffer in g_state.
AskPin ==
  /\ view' = "PIN"
  /\ pinCaption' = IF pinSet THEN "pin" ELSE "g_state"
  /\ pin' = [pin EXCEPT ![pinCaption'] = EmptyPin]
  /\ pinLen' = 0
  /\ UNCHANGED <<passVars, pinSet>>

PinClick == view = "PIN" /\ UNCHANGED <<view, passVars, pinCaption>>

\* pin_btn_click has room.  The mutant forgets the terminator.
PinFills == pinLen < PIN_BUFSIZE
PinHasRoom == pinLen < PIN_BUFSIZE - 1

PinDigit(d) ==
  /\ PinClick
  /\ PinHasRoom
  /\ pin' = [pin EXCEPT ![pinCaption][pinLen] = d]
  /\ pinLen' = pinLen + 1
  /\ UNCHANGED pinSet

PinBack ==
  /\ PinClick
  /\ pinLen > 0
  /\ pinLen' = pinLen - 1
  /\ pin' = [pin EXCEPT ![pinCaption][pinLen - 1] = NUL]
  /\ UNCHANGED pinSet

\* lcd_pin_ok when no PIN is set: the buffer in g_state becomes the PIN, and
\* pin a copy of it.
AssignPin ==
  /\ PinClick
  /\ ~pinSet
  /\ pinSet' = TRUE
  /\ pin' = [pin EXCEPT !["pin"] = StrCpy(@, pin["g_state"])]
  /\ UNCHANGED pinLen

\* lcd_pin_ok after the last wrong PIN: until the fade-out is over the view
\* takes further clicks.
LockOut ==
  /\ PinClick
  /\ pinSet
  /\ Str(pin["pin"]) # Str(pin["g_state"])
  /\ pinSet' = FALSE
  /\ UNCHANGED <<pin, pinLen>>

-----------------------------------------------------------------------------

\* After a reset: pin is zero, and g_state was read from the flash.
Init ==
  /\ view = "none"
  /\ passphrase = [i \in 0 .. PASSPHRASE_BUFSIZE - 1 |-> NUL]
  /\ passphraseLen = 0 /\ passphraseIndex = 0
  /\ \E s \in PinBuffers :
       /\ \E n \in DOMAIN s : \A i \in DOMAIN s : s[i] = NUL <=> i >= n
       /\ pin = [b \in PinNames |-> IF b = "g_state" THEN s ELSE EmptyPin]
  /\ pinCaption = "none" /\ pinLen = 0
  /\ pinSet \in BOOLEAN

Next ==
  \/ AskPassphrase \/ PassBack \/ PassUp \/ PassDown \/ PassFwd
  \/ AskPin \/ PinBack \/ AssignPin \/ LockOut
  \/ \E d \in Digits : PinDigit(d)

Spec == Init /\ [][Next]_vars

-----------------------------------------------------------------------------
(* Properties.                                                              *)

\* Every variable keeps its type.  main.c never reads past a PIN buffer: both
\* stay terminated, even when the text under pin_len was replaced.
TypeOK ==
  /\ view \in {"none", "PASS", "PIN"}
  /\ passphrase \in [0 .. PASSPHRASE_BUFSIZE - 1 -> Chars \cup {NUL}]
  /\ passphraseLen \in 0 .. PASSPHRASE_BUFSIZE - 1
  /\ passphraseIndex \in 0 .. PASSPHRASE_CHARSET_LEN - 1
  /\ pin \in [PinNames -> PinBuffers]
  /\ \A b \in PinNames : pin[b][PIN_BUFSIZE - 1] = NUL
  /\ pinCaption \in PinNames \cup {"none"}
  /\ pinLen \in 0 .. PIN_BUFSIZE - 1
  /\ pinSet \in BOOLEAN

\* However the passphrase was edited, up and down go on from the character
\* that is shown last: passphrase_index is its place on the wheel.
WheelShowsLast ==
  passphraseLen > 0 => passphrase[passphraseLen - 1] = CharAt(passphraseIndex)

\* The edited buffer is not what pin_len says: the text was replaced.
PinReplaced ==
  /\ pinCaption \in PinNames
  /\ ~\A i \in DOMAIN EmptyPin : pin[pinCaption][i] = NUL <=> i >= pinLen

\* As strings the buffers behave like the texts of EditedText, whatever lies
\* behind their terminators.
Texts == INSTANCE EditedText WITH
  PASSPHRASE_MAX <- PASSPHRASE_BUFSIZE - 1,
  PIN_MAX <- PIN_BUFSIZE - 1,
  passphrase <- Str(passphrase),
  pins <- [b \in PinNames |-> Str(pin[b])],
  edited <- pinCaption,
  lost <- PinReplaced

ImplementsEditedText == Texts!Spec
=============================================================================
