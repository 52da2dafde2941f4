----------------------------- MODULE Keynjector -----------------------------
(***************************************************************************)
(* The control core of the keynjector firmware (main.c with the command    *)
(* and text-entry half of ui.c), composed with the card slot it polls.     *)
(*                                                                         *)
(* Two threads of control share every variable below.                      *)
(*   - The main loop walks the user through the calibration points and     *)
(*     then polls the SD slot.  Its steps are the values of pc.            *)
(*   - SysTick_Handler interrupts the main loop between any two steps and  *)
(*     runs to completion.  It delivers touches to the shown view and      *)
(*     animates that view; the end of an animation, and the OK buttons,    *)
(*     call back into main.c and so choose the next view, decrypt the key  *)
(*     file and write the flash.  Each of its actions is one atomic step.  *)
(* The environment inserts and removes cards and cuts the power.           *)
(***************************************************************************)
EXTENDS Integers, Sequences

CONSTANTS
  Cards,            \* the cards a user may insert
  NoCard,           \* the slot is empty
  UnusableCards,    \* cards whose initialisation fails
  EmptyCards,       \* cards on which 0:keys.gpg does not exist
  WellFormedCards,  \* cards whose key file lcd_set_keys accepts
  FileKey,          \* the passphrase each card's key file is encrypted with
  Passphrases,      \* the texts the passphrase view can hold
  NoPassphrase,     \* the all-zero passphrase of init_state
  FirstPassphrase,  \* the text lcd_set_passphrase_buffer starts from
  Digits,           \* captions of the digit buttons
  PIN_BUFSIZE,      \* room for a PIN and its terminator (101)
  Corrupt,          \* flash content whose digest does not match
  ANIMATION_TICKS,  \* ticks of an animation (10)
  DEBOUNCE_TICKS,   \* ticks the slot's debounce delay lasts (1 s: 20)
  TIMER_SLACK,      \* bound: how far below 0 the animation timer is followed
  IoResults         \* whether file accesses may fail: {TRUE} or BOOLEAN

ASSUME CardsAssumption ==
  /\ NoCard \notin Cards
  /\ UnusableCards \subseteq Cards
  /\ EmptyCards \subseteq Cards
  /\ WellFormedCards \subseteq Cards
  /\ FileKey \in [Cards -> Passphrases]
  /\ IoResults \subseteq BOOLEAN

ASSUME TextAssumption ==
  /\ FirstPassphrase \in Passphrases
  /\ PIN_BUFSIZE \in Nat \ {0}

ASSUME TimingAssumption ==
  /\ ANIMATION_TICKS \in Nat \ {0}
  /\ DEBOUNCE_TICKS \in Nat
  /\ TIMER_SLACK \in Nat

N_CALIB_POINTS == 5
CALIB_INIT == 0
CALIB_DONE == N_CALIB_POINTS + 1

\* UI commands, numbered as in ui.h.
NO_COMMAND == 0
CMD_CALIB_LBL_FADE_IN == 1
CMD_CALIB_LBL_FADE_OUT == 2
CMD_CALIB_POINT_FADE_IN(i) == 2 * i + 1
CMD_CALIB_POINT_FADE_OUT(i) == 2 * i + 2
CMD_FADE_IN == 13
CMD_FADE_OUT == 14

CalibCommands == CMD_CALIB_LBL_FADE_IN .. CMD_CALIB_POINT_FADE_OUT(N_CALIB_POINTS)
FadeCommands == {CMD_FADE_IN, CMD_FADE_OUT}

Commands == {NO_COMMAND} \cup CalibCommands \cup FadeCommands
Timers == -TIMER_SLACK .. ANIMATION_TICKS

\* VIEW_TITLE is shown with one of four messages, and is named by it.
Titles == {"INSERT_SD", "SD_INVALID", "NO_FILE", "FILE_BAD_FORMAT"}
Views == {"LOGO", "CALIB", "PASS", "PIN", "KEY"} \cup Titles

\* A call of lcd_start_command: the view it reaches and the command.
StartCalls == [view : Views, command : Commands]

\* The commands that a view's start_command and timer_tick know.
Handled(v, c) == IF v = "CALIB" THEN c \in CalibCommands ELSE c \in FadeCommands

\* sd_mmc_err_t, the values sd_mmc_check returns for a valid slot.
SdErrors == {"OK", "INIT_ONGOING", "ERR_NO_CARD", "ERR_UNUSABLE"}
SlotStates == {"NO_CARD", "DEBOUNCE", "INIT", "READY", "UNUSABLE"}

VARIABLES
  g,                \* g_state: calib_state, passphrase, pin, and their flags
  nv,               \* its image in flash, or Corrupt
  pin, pinOk, pinEntered, pinAttempts,
  pinBuffer,        \* the buffer the PIN view edits
  decryptAttempted, decryptOk, fileFormatValid,
  items,            \* the card whose key list items points to, or NoCard (NULL)
  lbxItems,         \* what key_lbx.items points to: "null", "live" or "freed"
  view, command, timer,
  sdCardInserted, lastErr, newErr,
  pc,               \* where the main loop is
  starting,         \* arguments of main's lcd_start_command: view and command
  delay,            \* ticks left of the main loop's debounce delay
  card,             \* what is in the slot
  slot              \* the driver's state for it (sd_mmc_cards[0].state)

pinVars == <<pin, pinOk, pinEntered, pinAttempts, pinBuffer>>
fileVars == <<decryptAttempted, decryptOk, fileFormatValid, items, lbxItems>>
screenVars == <<view, command, timer>>
sdVars == <<sdCardInserted, lastErr, newErr>>
mainVars == <<pc, starting, delay>>
vars == <<g, nv, pinVars, fileVars, screenVars, sdVars, mainVars, card, slot>>

Pins == {s \in Seq(Digits) : Len(s) < PIN_BUFSIZE}

State == [calib : CALIB_INIT .. CALIB_DONE,
          pass : Passphrases \cup {NoPassphrase}, pin : Pins,
          passSet : BOOLEAN, pinSet : BOOLEAN]

ASSUME CorruptAssumption == Corrupt \notin State

DefaultState == [calib |-> CALIB_INIT, pass |-> NoPassphrase, pin |-> <<>>,
                 passSet |-> FALSE, pinSet |-> FALSE]

-----------------------------------------------------------------------------
(* The card slot.  SysTick runs, so the driver's debounce delay is a busy   *)
(* wait and the time-out is over as soon as somebody asks for it.           *)

\* sd_mmc_select_slot: the driver's next state and its result.
SelectSlot ==
  IF card = NoCard THEN [slot |-> "NO_CARD", err |-> "ERR_NO_CARD"]
  ELSE CASE slot = "NO_CARD"  -> [slot |-> "DEBOUNCE", err |-> "ERR_NO_CARD"]
         [] slot = "UNUSABLE" -> [slot |-> "UNUSABLE", err |-> "ERR_UNUSABLE"]
         [] slot = "READY"    -> [slot |-> "READY", err |-> "OK"]
         [] OTHER             -> [slot |-> "INIT", err |-> "INIT_ONGOING"]

\* The slot's state after sd_mmc_check, run without interruption, has
\* initialised the card that SelectSlot asked it to.
SlotAfterCheck ==
  IF SelectSlot.slot # "INIT" THEN SelectSlot.slot
  ELSE IF card \in UnusableCards THEN "UNUSABLE" ELSE "READY"

SdValid == SlotAfterCheck = "READY"
FileExists(io) == io /\ card \notin EmptyCards

\* decrypt_file returns 1.
Decrypts(io) == SdValid /\ FileExists(io) /\ FileKey[card] = g.pass

\* key_lbx.items once decrypt_file has freed the previous list.
LbxAfterDecrypt == IF lbxItems = "live" THEN "freed" ELSE lbxItems

-----------------------------------------------------------------------------
(* Commands and views.                                                      *)

StartCommand(v, c) ==
  IF Handled(v, c) THEN command' = c /\ timer' = ANIMATION_TICKS
                   ELSE UNCHANGED <<command, timer>>

\* write_state: g_state as this step leaves it.  The mutant saves too early.
WriteStateFirst == nv' = g
WriteState == nv' = g'

Show(v, c) == view' = v /\ command' = c /\ timer' = ANIMATION_TICKS
ShowTitle(v) == Show(v, CMD_FADE_IN)

(* set_next_view, one operator per return of the function. *)

CalibrationNeeded ==
  /\ g.calib # CALIB_DONE
  /\ g' = [g EXCEPT !.calib = CALIB_INIT]
  /\ Show("CALIB", CMD_CALIB_LBL_FADE_IN)
  /\ UNCHANGED <<pinVars, fileVars, slot>>

CardMissing ==
  /\ g.calib = CALIB_DONE
  /\ ~sdCardInserted
  /\ decryptAttempted' = FALSE /\ decryptOk' = FALSE /\ fileFormatValid' = TRUE
  /\ pinOk' = FALSE /\ pinEntered' = FALSE
  /\ ShowTitle("INSERT_SD")
  /\ UNCHANGED <<g, pin, pinAttempts, pinBuffer, items, lbxItems, slot>>

CardReached ==
  /\ g.calib = CALIB_DONE
  /\ sdCardInserted
  /\ slot' = SlotAfterCheck

CardInvalid ==
  /\ CardReached
  /\ ~SdValid
  /\ ShowTitle("SD_INVALID")
  /\ UNCHANGED <<g, pinVars, fileVars>>

FileMissing(io) ==
  /\ CardReached
  /\ SdValid
  /\ ~FileExists(io)
  /\ ShowTitle("NO_FILE")
  /\ UNCHANGED <<g, pinVars, fileVars>>

\* The stored passphrase is tried once per insertion.  The mutant tries it
\* before every view.
TriesAgain == g.passSet
TriesStored == ~decryptAttempted /\ g.passSet

PassphraseNeeded(io) ==
  /\ CardReached
  /\ SdValid
  /\ IF TriesStored THEN ~Decrypts(io) ELSE ~decryptOk
  /\ g' = [g EXCEPT !.pass = FirstPassphrase, !.passSet = FALSE, !.pinSet = FALSE]
  /\ decryptOk' = FALSE /\ decryptAttempted' = FALSE
  /\ Show("PASS", CMD_FADE_IN)
  /\ UNCHANGED <<pinVars, fileFormatValid, items, lbxItems>>

\* decrypt_ok holds, whether decrypt_file ran now or earlier.
Decrypted(io) ==
  /\ CardReached
  /\ SdValid
  /\ decryptAttempted' = TRUE /\ decryptOk' = TRUE
  /\ IF TriesStored THEN Decrypts(io) /\ items' = card
                    ELSE decryptOk /\ items' = items

\* A list that lcd_set_keys refuses sends set_next_view round again, and the
\* file may not be there the second time.
FormatBad(io) ==
  /\ Decrypted(io)
  /\ ~fileFormatValid \/ items' \notin WellFormedCards
  /\ fileFormatValid' = FALSE
  /\ lbxItems' = IF fileFormatValid THEN "null"
                 ELSE IF TriesStored THEN LbxAfterDecrypt ELSE lbxItems
  /\ \/ ShowTitle("FILE_BAD_FORMAT")
     \/ fileFormatValid /\ FALSE \in IoResults /\ ShowTitle("NO_FILE")
  /\ UNCHANGED <<g, pinVars>>

\* lcd_set_keys accepts the list.  The mutant sets a list once only.
KeysSetOnce(io) ==
  /\ Decrypted(io)
  /\ fileFormatValid
  /\ items' \in WellFormedCards
  /\ lbxItems' = IF lbxItems = "null" THEN "live" ELSE lbxItems
  /\ UNCHANGED fileFormatValid

KeysSet(io) ==
  /\ Decrypted(io)
  /\ fileFormatValid
  /\ items' \in WellFormedCards
  /\ lbxItems' = "live"
  /\ UNCHANGED fileFormatValid

PinUnassigned(io) ==
  /\ KeysSet(io)
  /\ ~g.pinSet
  /\ g' = [g EXCEPT !.pin = <<>>]
  /\ pinBuffer' = "g_state"
  /\ pinEntered' = FALSE /\ pinOk' = FALSE
  /\ Show("PIN", CMD_FADE_IN)
  /\ UNCHANGED <<pin, pinAttempts>>

\* verify_pin's result, kept if it is not called.  The mutant trusts the flag.
UnverifiedPinOk == pinEntered \/ pinOk
VerifiedPinOk == IF pinEntered THEN pin = g.pin ELSE pinOk

PinNeeded(io) ==
  /\ KeysSet(io)
  /\ g.pinSet
  /\ ~pinEntered \/ ~VerifiedPinOk
  /\ pinOk' = VerifiedPinOk
  /\ pin' = <<>> /\ pinBuffer' = "pin"
  /\ pinEntered' = FALSE /\ pinAttempts' = 3
  /\ Show("PIN", CMD_FADE_IN)
  /\ UNCHANGED g

KeysShown(io) ==
  /\ KeysSet(io)
  /\ g.pinSet
  /\ pinEntered /\ VerifiedPinOk
  /\ pinOk' = TRUE
  /\ Show("KEY", CMD_FADE_IN)
  /\ UNCHANGED <<g, pin, pinEntered, pinAttempts, pinBuffer>>

SetNextView ==
  \/ CalibrationNeeded
  \/ CardMissing
  \/ CardInvalid
  \/ \E io \in IoResults : FileMissing(io)
  \/ \E io, io2 \in IoResults :
       /\ FileExists(io)
       /\ \/ PassphraseNeeded(io2)
          \/ FormatBad(io2)
          \/ PinUnassigned(io2)
          \/ PinNeeded(io2)
          \/ KeysShown(io2)

-----------------------------------------------------------------------------
(* SysTick: lcd_timer_tick and lcd_command_complete.                        *)

ticked == delay' = IF delay > 0 THEN delay - 1 ELSE 0
tickUnchanged == UNCHANGED <<pc, starting, sdVars, card>>

\* A tick that does not end an animation.
Animate ==
  /\ command # NO_COMMAND \/ delay > 0
  /\ IF command # NO_COMMAND
     THEN /\ ~(Handled(view, command) /\ timer = 1)
          /\ timer > -TIMER_SLACK
          /\ timer' = timer - 1
     ELSE UNCHANGED timer
  /\ ticked /\ tickUnchanged
  /\ UNCHANGED <<g, nv, pinVars, fileVars, view, command, slot>>

\* The tick that ends the animation of command c.
Completes(c) ==
  /\ command = c
  /\ Handled(view, c)
  /\ timer = 1
  /\ ticked /\ tickUnchanged

\* An animation that is followed by another in the same view.
CompleteInto(c, next) ==
  /\ Completes(c)
  /\ command' = next /\ timer' = ANIMATION_TICKS
  /\ UNCHANGED <<nv, pinVars, fileVars, view, slot>>

CalibLabelShown ==
  /\ CompleteInto(CMD_CALIB_LBL_FADE_IN, CMD_CALIB_POINT_FADE_IN(1))
  /\ UNCHANGED g

CalibPointShown(i) ==
  /\ Completes(CMD_CALIB_POINT_FADE_IN(i))
  /\ command' = NO_COMMAND /\ timer' = 0
  /\ g' = [g EXCEPT !.calib = i]
  /\ UNCHANGED <<nv, pinVars, fileVars, view, slot>>

CalibPointHidden(i) ==
  /\ i < N_CALIB_POINTS
  /\ CompleteInto(CMD_CALIB_POINT_FADE_OUT(i), CMD_CALIB_POINT_FADE_IN(i + 1))
  /\ UNCHANGED g

\* rtouch_compute_calibration rejects the points: start again.
CalibRejected ==
  /\ CompleteInto(CMD_CALIB_POINT_FADE_OUT(N_CALIB_POINTS), CMD_CALIB_POINT_FADE_IN(1))
  /\ UNCHANGED g

\* It accepts them: the calibration is saved at once.
CalibAccepted ==
  /\ Completes(CMD_CALIB_POINT_FADE_OUT(N_CALIB_POINTS))
  /\ command' = CMD_CALIB_LBL_FADE_OUT /\ timer' = ANIMATION_TICKS
  /\ g' = [g EXCEPT !.calib = CALIB_DONE]
  /\ WriteState
  /\ UNCHANGED <<pinVars, fileVars, view, slot>>

FadedIn ==
  /\ Completes(CMD_FADE_IN)
  /\ IF view = "LOGO" THEN command' = CMD_FADE_OUT /\ timer' = ANIMATION_TICKS
                      ELSE command' = NO_COMMAND /\ timer' = 0
  /\ UNCHANGED <<g, nv, pinVars, fileVars, view, slot>>

FadedOut ==
  /\ \E c \in {CMD_CALIB_LBL_FADE_OUT, CMD_FADE_OUT} : Completes(c)
  /\ SetNextView
  /\ UNCHANGED nv

Tick ==
  \/ Animate
  \/ CalibLabelShown
  \/ \E i \in 1 .. N_CALIB_POINTS : CalibPointShown(i) \/ CalibPointHidden(i)
  \/ CalibRejected
  \/ CalibAccepted
  \/ FadedIn
  \/ FadedOut

-----------------------------------------------------------------------------
(* SysTick: touches.  A view takes them whether or not it is being faded.   *)

touchUnchanged == UNCHANGED <<sdVars, mainVars, card>>

\* One of the edit buttons of the passphrase view.
EditPassphrase ==
  /\ view = "PASS"
  /\ \E p \in Passphrases : g' = [g EXCEPT !.pass = p]
  /\ touchUnchanged
  /\ UNCHANGED <<nv, pinVars, fileVars, screenVars, slot>>

\* lcd_passphrase_ok
PassphraseOk(io) ==
  /\ view = "PASS"
  /\ g' = [g EXCEPT !.passSet = TRUE]
  /\ slot' = SlotAfterCheck
  /\ decryptAttempted' = TRUE
  /\ decryptOk' = Decrypts(io)
  /\ IF Decrypts(io)
     THEN /\ items' = card /\ lbxItems' = LbxAfterDecrypt
          /\ StartCommand(view, CMD_FADE_OUT)
     ELSE UNCHANGED <<items, lbxItems, command, timer>>
  /\ touchUnchanged
  /\ UNCHANGED <<nv, pinVars, fileFormatValid, view>>

EditedPin == IF pinBuffer = "g_state" THEN g.pin ELSE pin

SetEditedPin(s) ==
  IF pinBuffer = "g_state" THEN g' = [g EXCEPT !.pin = s] /\ UNCHANGED pin
                           ELSE pin' = s /\ UNCHANGED g

\* Room for another digit.  The mutant forgets the terminator.
PinFills == Len(EditedPin) < PIN_BUFSIZE
PinHasRoom == Len(EditedPin) < PIN_BUFSIZE - 1

\* pin_btn_click and pin_back_click
EditPin ==
  /\ view = "PIN"
  /\ \/ /\ PinHasRoom
        /\ \E d \in Digits : SetEditedPin(Append(EditedPin, d))
     \/ /\ EditedPin # <<>>
        /\ SetEditedPin(SubSeq(EditedPin, 1, Len(EditedPin) - 1))
  /\ touchUnchanged
  /\ UNCHANGED <<nv, pinOk, pinEntered, pinAttempts, pinBuffer, fileVars, screenVars, slot>>

(* lcd_pin_ok, one operator per outcome. *)

PinAssigned ==
  /\ ~g.pinSet
  /\ g' = [g EXCEPT !.pinSet = TRUE]
  /\ pin' = g.pin
  /\ pinEntered' = TRUE
  /\ WriteState
  /\ StartCommand(view, CMD_FADE_OUT)
  /\ UNCHANGED <<pinOk, pinAttempts, decryptAttempted, decryptOk>>

PinAccepted ==
  /\ g.pinSet
  /\ pin = g.pin
  /\ pinEntered' = TRUE
  /\ StartCommand(view, CMD_FADE_OUT)
  /\ UNCHANGED <<g, nv, pin, pinOk, pinAttempts, decryptAttempted, decryptOk>>

\* pin_attempts at or below 0 behaves as 0: it stays there.
AttemptsLeft == IF pinAttempts > 0 THEN pinAttempts - 1 ELSE 0

PinRejected ==
  /\ g.pinSet
  /\ pin # g.pin
  /\ pinAttempts' = AttemptsLeft
  /\ AttemptsLeft \in {1, 2}
  /\ UNCHANGED <<g, nv, pin, pinOk, pinEntered, decryptAttempted, decryptOk, command, timer>>

\* The mutant keeps the passphrase.
LockedStateKeepingPass == [g EXCEPT !.pinSet = FALSE]
LockedState == [g EXCEPT !.passSet = FALSE, !.pinSet = FALSE]

LockedOut ==
  /\ g.pinSet
  /\ pin # g.pin
  /\ pinAttempts' = AttemptsLeft
  /\ AttemptsLeft \notin {1, 2}
  /\ g' = LockedState
  /\ decryptAttempted' = FALSE /\ decryptOk' = FALSE
  /\ pinOk' = FALSE /\ pinEntered' = FALSE
  /\ WriteState
  /\ StartCommand(view, CMD_FADE_OUT)
  /\ UNCHANGED pin

PinOk ==
  /\ view = "PIN"
  /\ PinAssigned \/ PinAccepted \/ PinRejected \/ LockedOut
  /\ touchUnchanged
  /\ UNCHANGED <<pinBuffer, fileFormatValid, items, lbxItems, view, slot>>

Touch ==
  \/ EditPassphrase
  \/ \E io \in IoResults : PassphraseOk(io)
  \/ EditPin
  \/ PinOk

-----------------------------------------------------------------------------
(* The main loop.                                                           *)

\* Outside lcd_start_command its arguments do not matter.
NotStarting == [view |-> "LOGO", command |-> NO_COMMAND]

mainUnchanged == UNCHANGED <<nv, pinVars, fileVars, view, card>>

\* get_calib_point sampled point i; main then starts its fade-out.  A pen
\* lifted while sampling changes nothing.
SampleCalibPoint ==
  /\ pc = "loop"
  /\ g.calib \in 1 .. N_CALIB_POINTS
  /\ g' = [g EXCEPT !.calib = CALIB_INIT]
  /\ pc' = "load"
  /\ starting' = [starting EXCEPT !.command = CMD_CALIB_POINT_FADE_OUT(g.calib)]
  /\ mainUnchanged
  /\ UNCHANGED <<command, timer, sdVars, delay, slot>>

\* rtouch_wait_released returns.
PenReleased ==
  /\ pc = "waitReleased"
  /\ pc' = "loop"
  /\ mainUnchanged
  /\ UNCHANGED <<g, command, timer, sdVars, starting, delay, slot>>

\* The polling part of the main loop.  The mutant does not wait for the
\* calibration.
AtPollUncalibrated == pc = "loop"
AtPoll == pc = "loop" /\ g.calib = CALIB_DONE

\* sd_mmc_check up to the end of sd_mmc_select_slot's decisions.
Poll ==
  /\ AtPoll
  /\ slot' = SelectSlot.slot
  /\ IF slot' = "DEBOUNCE"
     THEN pc' = "debounce" /\ delay' = DEBOUNCE_TICKS
     ELSE pc' = (IF slot' = "INIT" THEN "init" ELSE "compare") /\ UNCHANGED delay
  /\ newErr' = SelectSlot.err
  /\ mainUnchanged
  /\ UNCHANGED <<g, command, timer, sdCardInserted, lastErr, starting>>

\* delay_ms(SD_MMC_DEBOUNCE_TIMEOUT) is over.
Debounced ==
  /\ pc = "debounce"
  /\ delay = 0
  /\ pc' = "compare"
  /\ mainUnchanged
  /\ UNCHANGED <<g, command, timer, sdVars, starting, delay, slot>>

\* sd_mmc_mci_card_init returns.
CardInitialised ==
  /\ pc = "init"
  /\ IF card \in Cards \ UnusableCards
     THEN slot' = "READY" /\ newErr' = "INIT_ONGOING"
     ELSE slot' = "UNUSABLE" /\ newErr' = "ERR_UNUSABLE"
  /\ pc' = "compare"
  /\ mainUnchanged
  /\ UNCHANGED <<g, command, timer, sdCardInserted, lastErr, starting, delay>>

\* The change of state triggers a fade out.
Compare ==
  /\ pc = "compare"
  /\ IF newErr # lastErr
     THEN /\ sdCardInserted' = (newErr # "ERR_NO_CARD")
          /\ lastErr' = newErr
          /\ starting' = [starting EXCEPT !.command = CMD_FADE_OUT]
          /\ pc' = "load"
     ELSE pc' = "loop" /\ UNCHANGED <<sdCardInserted, lastErr, starting>>
  /\ mainUnchanged
  /\ UNCHANGED <<g, command, timer, newErr, delay, slot>>

\* lcd_start_command reads current_view ...
LoadView ==
  /\ pc = "load"
  /\ starting' = [starting EXCEPT !.view = view]
  /\ pc' = "setCommand"
  /\ mainUnchanged
  /\ UNCHANGED <<g, command, timer, sdVars, delay, slot>>

AfterStart == IF starting.command \in CalibCommands THEN "waitReleased" ELSE "loop"

\* start_command knows the command.  The mutant also wants the view idle.
AcceptedWhenIdle == Handled(starting.view, starting.command) /\ command = NO_COMMAND
Accepted == Handled(starting.view, starting.command)

\* ... and that view's start_command stores the command ...
SetCommand ==
  /\ pc = "setCommand"
  /\ IF Accepted
     THEN command' = starting.command /\ pc' = "setTimer" /\ UNCHANGED starting
     ELSE pc' = AfterStart /\ starting' = NotStarting /\ UNCHANGED command
  /\ mainUnchanged
  /\ UNCHANGED <<g, timer, sdVars, delay, slot>>

\* ... and then the timer.
SetTimer ==
  /\ pc = "setTimer"
  /\ timer' = ANIMATION_TICKS
  /\ pc' = AfterStart
  /\ starting' = NotStarting
  /\ mainUnchanged
  /\ UNCHANGED <<g, command, sdVars, delay, slot>>

Main ==
  \/ SampleCalibPoint \/ PenReleased
  \/ Poll \/ Debounced \/ CardInitialised \/ Compare
  \/ LoadView \/ SetCommand \/ SetTimer

-----------------------------------------------------------------------------
(* The environment.                                                         *)

\* By hand, a card is not replaced before the main loop has seen it gone.
InsertCard ==
  /\ card = NoCard
  /\ slot \in {"NO_CARD", "DEBOUNCE"}
  /\ lastErr = "ERR_NO_CARD"
  /\ card' \in Cards
  /\ UNCHANGED <<g, nv, pinVars, fileVars, screenVars, sdVars, mainVars, slot>>

RemoveCard ==
  /\ card # NoCard
  /\ card' = NoCard
  /\ UNCHANGED <<g, nv, pinVars, fileVars, screenVars, sdVars, mainVars, slot>>

\* g_state once read_state has read image; init_state if its digest is wrong.
ReadState(image) == IF image = Corrupt THEN DefaultState ELSE image

\* main's first sd_mmc_check finds no card yet: one that is there is debounced.
FirstSlot == IF card = NoCard THEN "NO_CARD" ELSE "DEBOUNCE"

FirstCommand == [NotStarting EXCEPT !.command = CMD_FADE_IN]

\* A reset, up to main's first lcd_start_command.
Boot(image) ==
  /\ g' = ReadState(image)
  /\ nv' = image
  /\ pin' = <<>> /\ pinOk' = FALSE /\ pinEntered' = FALSE
  /\ pinAttempts' = 0 /\ pinBuffer' = "pin"
  /\ decryptAttempted' = FALSE /\ decryptOk' = FALSE /\ fileFormatValid' = TRUE
  /\ items' = NoCard /\ lbxItems' = "null"
  /\ view' = "LOGO" /\ command' = NO_COMMAND /\ timer' = 0
  /\ sdCardInserted' = FALSE /\ lastErr' = "ERR_NO_CARD" /\ newErr' = "ERR_NO_CARD"
  /\ pc' = "load" /\ starting' = FirstCommand /\ delay' = 0
  /\ slot' = FirstSlot
  /\ UNCHANGED card

PowerCycle == Boot(nv)

\* The next step would write the flash.
WritesFlash ==
  \/ view = "PIN" /\ ~g.pinSet
  \/ view = "PIN" /\ pin # g.pin /\ AttemptsLeft \notin {1, 2}
  \/ view = "CALIB" /\ command = CMD_CALIB_POINT_FADE_OUT(N_CALIB_POINTS) /\ timer = 1

\* The power fails while the page is being erased and written.
PowerCycleInWrite ==
  /\ WritesFlash
  /\ Boot(Corrupt)

Environment == InsertCard \/ RemoveCard \/ PowerCycle \/ PowerCycleInWrite

-----------------------------------------------------------------------------

\* The first boot of a device whose flash has never been written.
Init ==
  /\ g = DefaultState
  /\ nv = Corrupt
  /\ pin = <<>> /\ pinOk = FALSE /\ pinEntered = FALSE
  /\ pinAttempts = 0 /\ pinBuffer = "pin"
  /\ decryptAttempted = FALSE /\ decryptOk = FALSE /\ fileFormatValid = TRUE
  /\ items = NoCard /\ lbxItems = "null"
  /\ view = "LOGO" /\ command = NO_COMMAND /\ timer = 0
  /\ sdCardInserted = FALSE /\ lastErr = "ERR_NO_CARD" /\ newErr = "ERR_NO_CARD"
  /\ pc = "load" /\ starting = FirstCommand /\ delay = 0
  /\ card \in Cards \cup {NoCard}
  /\ slot = FirstSlot

Next == Tick \/ Touch \/ Main \/ Environment

Spec == Init /\ [][Next]_vars

\* Steps of the main loop that do not wait for the user's pen.
MainRuns == Poll \/ Debounced \/ CardInitialised \/ Compare \/ LoadView \/ SetCommand \/ SetTimer

FairSpec == Spec /\ WF_vars(Tick) /\ WF_vars(MainRuns)

-----------------------------------------------------------------------------
(* Properties.                                                              *)

TypePin ==
  /\ g \in State
  /\ nv \in State \cup {Corrupt}
  /\ pin \in Pins
  /\ pinAttempts \in 0 .. 3
  /\ pinBuffer \in {"g_state", "pin"}

TypeFlags ==
  /\ pinOk \in BOOLEAN
  /\ pinEntered \in BOOLEAN
  /\ decryptAttempted \in BOOLEAN
  /\ decryptOk \in BOOLEAN
  /\ fileFormatValid \in BOOLEAN
  /\ sdCardInserted \in BOOLEAN

TypeFile ==
  /\ items \in Cards \cup {NoCard}
  /\ lbxItems \in {"null", "live", "freed"}
  /\ slot \in SlotStates

TypeScreen ==
  /\ view \in Views
  /\ command \in Commands
  /\ timer \in Timers

TypeMain ==
  /\ lastErr \in SdErrors
  /\ newErr \in SdErrors
  /\ pc \in {"loop", "waitReleased", "debounce", "init", "compare",
             "load", "setCommand", "setTimer"}
  /\ starting \in StartCalls
  /\ delay \in 0 .. DEBOUNCE_TICKS
  /\ card \in Cards \cup {NoCard}

\* In particular no PIN outgrows its buffer and the animation timer never
\* passes below its floor.
TypeOK == TypePin /\ TypeFlags /\ TypeFile /\ TypeScreen /\ TypeMain

\* The list is shown only when the file has been decrypted, the list box
\* holds that list and not one decrypt_file has freed, and the PIN typed is
\* the PIN set (set_next_view's last return).
KeyViewUnlocked ==
  view = "KEY" =>
    /\ decryptOk /\ lbxItems = "live" /\ items \in WellFormedCards
    /\ g.pinSet /\ pinEntered /\ pinOk /\ pin = g.pin

\* Whatever the interleaving of main's lcd_start_command with the tick that
\* changes the view, a pending command is one the view's timer_tick ends; one
\* that it does not know would leave the view waiting for ever.
CommandFitsView == command # NO_COMMAND => Handled(view, command)

CardViews == {"SD_INVALID", "NO_FILE", "FILE_BAD_FORMAT", "PASS", "PIN", "KEY"}

\* main is about to start, or the tick to finish, a fade-out.
FadeOutPending ==
  \/ command = CMD_FADE_OUT
  \/ pc \in {"load", "setCommand"} /\ starting.command = CMD_FADE_OUT

\* A change of sd_card_inserted that the shown view does not reflect is still
\* going to be acted upon: no interleaving loses the fade-out of the main loop.
CardChangePending ==
  (IF sdCardInserted THEN view = "INSERT_SD" ELSE view \in CardViews) => FadeOutPending

\* A finished calibration has reached the flash (lcd_command_complete).
CalibrationSaved == g.calib = CALIB_DONE => nv # Corrupt /\ nv.calib = CALIB_DONE

\* No crash or sequence of PIN and passphrase entries leaves a passphrase in
\* the flash that the next boot would use without asking for a PIN.
StoredPassphraseHasPin == nv # Corrupt /\ nv.passSet => nv.pinSet

\* Whenever the power fails, the flash holds what the next boot can go on with:
\* the calibration as soon as it is done, and no passphrase without its PIN.
FlashConsistent == CalibrationSaved /\ StoredPassphraseHasPin

\* The flash says that there is a passphrase to try.
PassphraseSaved == nv # Corrupt /\ nv.passSet

\* There is no passphrase to try, here or after the next boot, and no list.
Locked == ~g.passSet /\ ~decryptOk /\ ~PassphraseSaved

\* The last wrong PIN locks the device, in memory and in flash at once.  It
\* then stays locked through the OKs of the fading PIN view, the titles, cards
\* that come and go and power cuts, until OK is pressed in the passphrase view.
\* That OK counts in memory even if the passphrase is wrong (lcd_passphrase_ok
\* sets passphrase_set before it tries it), but no write_state takes a
\* passphrase to the flash before a file has been decrypted.
LockoutDurable ==
  [][/\ view = "PIN" /\ view' = "PIN" /\ decryptOk /\ ~decryptOk' => Locked'
     /\ Locked /\ ~Locked' => view = "PASS" /\ view' = "PASS" /\ ~PassphraseSaved'
     /\ ~decryptOk /\ ~PassphraseSaved => ~PassphraseSaved']_vars

\* A PIN that is set is the one in the flash (lcd_pin_ok: "write new PIN to
\* NVRAM").
AssignedPinSaved == g.pinSet => nv # Corrupt /\ nv.pin = g.pin

\* A change of the card switches to the appropriate view: the list shown is
\* that of the card that the driver has ready (main's "a change in SD inserted
\* state triggers a fade out and switch to appropriate view").
ListFromCard == view = "KEY" /\ card # NoCard /\ slot = "READY" => items = card

\* What Ui sees of the screen: one view of titles, and in the list box a list
\* as long as that is not freed.
UiView == IF view \in {"PASS", "PIN", "KEY"} THEN view ELSE "TITLE"
UiList == IF lbxItems = "live" THEN items ELSE NoCard

Shown == INSTANCE Screen WITH
  Lists <- WellFormedCards, NoList <- NoCard, view <- UiView, list <- UiList

\* Views follow each other, and the list changes under them, only as Ui takes
\* for granted: from the key view set_next_view leads to that view or a title,
\* and while the PIN or the key view is shown and faded, whatever card comes
\* and whatever file access fails, the list box keeps its list.
ImplementsScreen == Shown!Spec

\* The user eventually leaves the device alone, and powered.
LeftAlone == <>[][~(Touch \/ PowerCycle \/ PowerCycleInWrite)]_vars

\* The main loop is done with the pen: it polls the slot.
Calibrated == <>[](g.calib = CALIB_DONE /\ pc # "waitReleased")

\* A card that stays out is eventually asked for (set_next_view's second
\* return), whatever main and the tick were doing when it went.
RemovalShown ==
  LeftAlone /\ Calibrated /\ <>[](card = NoCard) => <>[](view = "INSERT_SD")

\* The views that are about card c: a file that cannot be read is missing.
ViewsOf(c) ==
  IF c \in UnusableCards THEN {"SD_INVALID"}
  ELSE IF c \in EmptyCards THEN {"NO_FILE"}
  ELSE {"PASS", "PIN", "KEY", "FILE_BAD_FORMAT"}
         \cup (IF FALSE \in IoResults THEN {"NO_FILE"} ELSE {})

\* A card that stays in is eventually shown, although the main loop reports
\* it in two changes of state and the tick may act between them.
InsertionShown ==
  \A c \in Cards :
    LeftAlone /\ Calibrated /\ <>[](card = c) => <>[](view \in ViewsOf(c))

=============================================================================
