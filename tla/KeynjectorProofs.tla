-------------------------- MODULE KeynjectorProofs --------------------------
(***************************************************************************)
(* Proofs of the type correctness and the safety invariants of Keynjector, *)
(* for every set of cards, texts and digits and every length of the        *)
(* animation and of the debounce delay.                                    *)
(*                                                                         *)
(* KeyViewUnlocked and PinViewLocked are inductive once the types are     *)
(* known.  The others are not: a step of the main loop's lcd_start_command *)
(* stores a command for the view that an earlier step has read, so that    *)
(* what the main loop remembers must be related to what is shown now.      *)
(* IInv is that strengthening.                                             *)
(***************************************************************************)
EXTENDS Keynjector, SequenceTheorems, TLAPS

-----------------------------------------------------------------------------
(* What the operators of the slot and of the PIN buffer return.             *)

LEMMA SlotTypes ==
  ASSUME slot \in SlotStates
  PROVE  /\ SelectSlot.slot \in SlotStates
         /\ SelectSlot.err \in SdErrors
         /\ SlotAfterCheck \in SlotStates
BY DEF SlotStates, SdErrors, SelectSlot, SlotAfterCheck

LEMMA EmptyPin == <<>> \in Pins
BY TextAssumption DEF Pins

LEMMA LongerPin ==
  ASSUME NEW s \in Pins, Len(s) < PIN_BUFSIZE - 1, NEW d \in Digits
  PROVE  Append(s, d) \in Pins
BY TextAssumption DEF Pins

LEMMA ShorterPin ==
  ASSUME NEW s \in Pins, s # <<>>
  PROVE  SubSeq(s, 1, Len(s) - 1) \in Pins
<1>1. s \in Seq(Digits) /\ Len(s) \in Nat /\ Len(s) > 0 /\ Len(s) < PIN_BUFSIZE
  BY DEF Pins
<1>2. \A i \in 1 .. Len(s) - 1 : s[i] \in Digits
  BY <1>1
<1>3. /\ SubSeq(s, 1, Len(s) - 1) \in Seq(Digits)
      /\ Len(SubSeq(s, 1, Len(s) - 1)) =
           IF 1 <= Len(s) - 1 THEN Len(s) - 1 - 1 + 1 ELSE 0
  BY <1>1, <1>2, SubSeqProperties
<1>4. Len(SubSeq(s, 1, Len(s) - 1)) < PIN_BUFSIZE
  BY <1>1, <1>3, TextAssumption
<1> QED
  BY <1>3, <1>4 DEF Pins

-----------------------------------------------------------------------------
(* Type correctness.                                                        *)

LEMMA DefaultStateType == DefaultState \in State
BY EmptyPin DEF DefaultState, State, CALIB_INIT, CALIB_DONE, N_CALIB_POINTS

LEMMA CommandTypes ==
  /\ CMD_CALIB_LBL_FADE_IN \in Commands
  /\ CMD_CALIB_LBL_FADE_OUT \in Commands
  /\ \A i \in 1 .. N_CALIB_POINTS : /\ CMD_CALIB_POINT_FADE_IN(i) \in Commands
                                    /\ CMD_CALIB_POINT_FADE_OUT(i) \in Commands
  /\ CMD_FADE_IN \in Commands
  /\ CMD_FADE_OUT \in Commands
  /\ NO_COMMAND \in Commands
BY DEF Commands, FadeCommands, CalibCommands, CMD_CALIB_LBL_FADE_IN, CMD_CALIB_LBL_FADE_OUT,
       CMD_CALIB_POINT_FADE_IN, CMD_CALIB_POINT_FADE_OUT, N_CALIB_POINTS

LEMMA TimerTypes == ANIMATION_TICKS \in Timers /\ 0 \in Timers
BY TimingAssumption DEF Timers

LEMMA FirstTypes == FirstCommand \in StartCalls /\ FirstSlot \in SlotStates
BY CommandTypes DEF FirstCommand, NotStarting, StartCalls, Views, FirstSlot, SlotStates

LEMMA TypeInit == Init => TypeOK
<1> SUFFICES ASSUME Init PROVE TypeOK
  OBVIOUS
<1> USE DEF Init
<1>1. TypePin
  BY EmptyPin, DefaultStateType DEF TypePin
<1>2. TypeFlags
  BY Zenon DEF TypeFlags
<1>3. TypeFile
  BY FirstTypes DEF TypeFile
<1>4. TypeScreen
  BY CommandTypes, TimerTypes DEF TypeScreen, Views
<1>5. TypeMain
  BY FirstTypes, TimingAssumption DEF TypeMain, SdErrors
<1> QED
  BY <1>1, <1>2, <1>3, <1>4, <1>5 DEF TypeOK

-----------------------------------------------------------------------------
(* set_next_view, return by return.                                         *)

\* What the returns leave alone.
LEMMA TypeShow ==
  ASSUME NEW v \in Views, NEW c \in Commands, Show(v, c)
  PROVE  TypeScreen'
BY TimerTypes DEF Show, TypeScreen

LEMMA FlagsKept ==
  ASSUME TypeFlags, UNCHANGED <<pinVars, fileVars, sdVars>>
  PROVE  TypeFlags'
BY Zenon DEF TypeFlags, pinVars, fileVars, sdVars

LEMMA VerifiedPinOkType ==
  ASSUME TypeFlags
  PROVE  VerifiedPinOk \in BOOLEAN
BY Zenon DEF TypeFlags, VerifiedPinOk

LEMMA TypeSetNextView ==
  ASSUME TypeOK, SetNextView, UNCHANGED <<nv, sdVars>>
  PROVE  TypePin' /\ TypeFlags' /\ TypeFile' /\ TypeScreen'
<1> USE DEF TypeOK
<1>1. CASE CalibrationNeeded
  <2>1. g' \in State
    BY <1>1 DEF CalibrationNeeded, TypePin, State, CALIB_INIT, CALIB_DONE, N_CALIB_POINTS
  <2>2. TypePin' /\ TypeFile'
    BY <1>1, <2>1 DEF CalibrationNeeded, TypePin, TypeFile, pinVars, fileVars
  <2>3. TypeFlags'
    BY <1>1, FlagsKept DEF CalibrationNeeded
  <2>4. TypeScreen'
    BY <1>1, TypeShow, CommandTypes DEF CalibrationNeeded, Views
  <2> QED
    BY <2>2, <2>3, <2>4
<1>2. CASE CardMissing
  <2>1. TypePin' /\ TypeFile'
    BY <1>2 DEF CardMissing, TypePin, TypeFile
  <2>2. TypeFlags'
    BY <1>2, Zenon DEF CardMissing, TypeFlags, sdVars
  <2>3. TypeScreen'
    BY <1>2, TypeShow, CommandTypes DEF CardMissing, ShowTitle, Views, Titles
  <2> QED
    BY <2>1, <2>2, <2>3
<1>3. CASE CardInvalid
  <2>1. TypePin' /\ TypeFile'
    BY <1>3, SlotTypes DEF CardInvalid, CardReached, TypePin, TypeFile, pinVars, fileVars
  <2>2. TypeFlags'
    BY <1>3, FlagsKept DEF CardInvalid
  <2>3. TypeScreen'
    BY <1>3, TypeShow, CommandTypes DEF CardInvalid, ShowTitle, Views, Titles
  <2> QED
    BY <2>1, <2>2, <2>3
<1>4. ASSUME NEW io \in IoResults, FileMissing(io)
      PROVE  TypePin' /\ TypeFlags' /\ TypeFile' /\ TypeScreen'
  <2>1. TypePin' /\ TypeFile'
    BY <1>4, SlotTypes DEF FileMissing, CardReached, TypePin, TypeFile, pinVars, fileVars
  <2>2. TypeFlags'
    BY <1>4, FlagsKept DEF FileMissing
  <2>3. TypeScreen'
    BY <1>4, TypeShow, CommandTypes DEF FileMissing, ShowTitle, Views, Titles
  <2> QED
    BY <2>1, <2>2, <2>3
<1>5. ASSUME NEW io \in IoResults, PassphraseNeeded(io)
      PROVE  TypePin' /\ TypeFlags' /\ TypeFile' /\ TypeScreen'
  <2>1. g' \in State
    BY <1>5, TextAssumption DEF PassphraseNeeded, TypePin, State
  <2>2. TypePin' /\ TypeFile'
    BY <1>5, <2>1, SlotTypes DEF PassphraseNeeded, CardReached, TypePin, TypeFile, pinVars
  <2>3. TypeFlags'
    BY <1>5, Zenon DEF PassphraseNeeded, TypeFlags, pinVars, sdVars
  <2>4. TypeScreen'
    BY <1>5, TypeShow, CommandTypes DEF PassphraseNeeded, Views
  <2> QED
    BY <2>2, <2>3, <2>4
<1>6. ASSUME NEW io \in IoResults, FormatBad(io)
      PROVE  TypePin' /\ TypeFlags' /\ TypeFile' /\ TypeScreen'
  <2>1. TypePin' /\ TypeFile'
    BY <1>6, SlotTypes DEF FormatBad, Decrypted, CardReached, TypePin, TypeFile, pinVars,
       LbxAfterDecrypt, TypeMain
  <2>2. TypeFlags'
    BY <1>6, Zenon DEF FormatBad, Decrypted, TypeFlags, pinVars, sdVars
  <2>3. TypeScreen'
    BY <1>6, TypeShow, CommandTypes DEF FormatBad, ShowTitle, Views, Titles
  <2> QED
    BY <2>1, <2>2, <2>3
<1>7. ASSUME NEW io \in IoResults, KeysSet(io)
      PROVE  TypeFile' /\ fileFormatValid' \in BOOLEAN /\ decryptAttempted' \in BOOLEAN
                       /\ decryptOk' \in BOOLEAN
  <2>1. TypeFile'
    BY <1>7, SlotTypes DEF KeysSet, Decrypted, CardReached, TypeFile, TypeMain
  <2>2. /\ fileFormatValid' \in BOOLEAN
        /\ decryptAttempted' \in BOOLEAN
        /\ decryptOk' \in BOOLEAN
    BY <1>7, Zenon DEF KeysSet, Decrypted, TypeFlags
  <2> QED
    BY <2>1, <2>2
<1>8. ASSUME NEW io \in IoResults, PinUnassigned(io)
      PROVE  TypePin' /\ TypeFlags' /\ TypeFile' /\ TypeScreen'
  <2>0. KeysSet(io)
    BY <1>8 DEF PinUnassigned
  <2>1. g' \in State
    BY <1>8, EmptyPin DEF PinUnassigned, TypePin, State
  <2>2. TypePin'
    BY <1>8, <2>1 DEF PinUnassigned, TypePin
  <2>3. TypeFlags'
    BY <1>7, <1>8, <2>0, Zenon DEF PinUnassigned, TypeFlags, sdVars
  <2>4. TypeScreen'
    BY <1>8, TypeShow, CommandTypes DEF PinUnassigned, Views
  <2> QED
    BY <1>7, <2>0, <2>2, <2>3, <2>4
<1>9. ASSUME NEW io \in IoResults, PinNeeded(io)
      PROVE  TypePin' /\ TypeFlags' /\ TypeFile' /\ TypeScreen'
  <2>0. KeysSet(io)
    BY <1>9 DEF PinNeeded
  <2>1. TypePin'
    BY <1>9, EmptyPin DEF PinNeeded, TypePin
  <2>2. TypeFlags'
    BY <1>7, <1>9, <2>0, VerifiedPinOkType, Zenon DEF PinNeeded, TypeFlags, sdVars
  <2>3. TypeScreen'
    BY <1>9, TypeShow, CommandTypes DEF PinNeeded, Views
  <2> QED
    BY <1>7, <2>0, <2>1, <2>2, <2>3
<1>10. ASSUME NEW io \in IoResults, KeysShown(io)
       PROVE  TypePin' /\ TypeFlags' /\ TypeFile' /\ TypeScreen'
  <2>0. KeysSet(io)
    BY <1>10 DEF KeysShown
  <2>1. TypePin'
    BY <1>10 DEF KeysShown, TypePin
  <2>2. TypeFlags'
    BY <1>7, <1>10, <2>0, Zenon DEF KeysShown, TypeFlags, sdVars
  <2>3. TypeScreen'
    BY <1>10, TypeShow, CommandTypes DEF KeysShown, Views
  <2> QED
    BY <1>7, <2>0, <2>1, <2>2, <2>3
<1> QED
  BY <1>1, <1>2, <1>3, <1>4, <1>5, <1>6, <1>8, <1>9, <1>10 DEF SetNextView

-----------------------------------------------------------------------------
(* Type correctness, thread by thread.                                      *)

LEMMA DelayType == TypeMain /\ ticked => delay' \in 0 .. DEBOUNCE_TICKS
BY TimingAssumption DEF TypeMain, ticked

LEMMA TypeMainKept ==
  ASSUME TypeMain, ticked, tickUnchanged
  PROVE  TypeMain'
<1>1. delay' \in 0 .. DEBOUNCE_TICKS
  BY DelayType
<1> QED
  BY <1>1 DEF TypeMain, tickUnchanged, sdVars

\* A tick that leaves the flags, the file and the PIN alone and writes no flash.
LEMMA TypeCompleteInto ==
  ASSUME TypeOK, NEW c, NEW d \in Commands, CompleteInto(c, d), UNCHANGED g
  PROVE  TypeOK'
<1> USE DEF TypeOK
<1>1. TypePin' /\ TypeFile'
  BY DEF CompleteInto, TypePin, TypeFile, pinVars, fileVars
<1>2. TypeFlags'
  BY FlagsKept DEF CompleteInto, Completes, tickUnchanged
<1>3. TypeScreen'
  BY TimerTypes DEF CompleteInto, TypeScreen
<1>4. TypeMain'
  BY TypeMainKept DEF CompleteInto, Completes
<1> QED
  BY <1>1, <1>2, <1>3, <1>4

LEMMA TypeTick == TypeOK /\ Tick => TypeOK'
<1> SUFFICES ASSUME TypeOK, Tick PROVE TypeOK'
  OBVIOUS
<1>1. CASE Animate
  <2>1. TypePin' /\ TypeFile'
    BY <1>1 DEF Animate, TypeOK, TypePin, TypeFile, pinVars, fileVars
  <2>2. TypeFlags'
    BY <1>1, FlagsKept DEF Animate, TypeOK, tickUnchanged
  <2>3. TypeScreen'
    BY <1>1, TimingAssumption DEF Animate, TypeOK, TypeScreen, Timers
  <2>4. TypeMain'
    BY <1>1, TypeMainKept DEF Animate, TypeOK
  <2> QED
    BY <2>1, <2>2, <2>3, <2>4 DEF TypeOK
<1>2. CASE CalibLabelShown
  <2>1. CMD_CALIB_POINT_FADE_IN(1) \in Commands
    BY CommandTypes DEF N_CALIB_POINTS
  <2> QED
    BY <1>2, <2>1, TypeCompleteInto DEF CalibLabelShown
<1>3. ASSUME NEW i \in 1 .. N_CALIB_POINTS, CalibPointShown(i)
      PROVE  TypeOK'
  <2>1. g' \in State
    BY <1>3 DEF CalibPointShown, TypeOK, TypePin, State, CALIB_INIT, CALIB_DONE, N_CALIB_POINTS
  <2>2. TypePin' /\ TypeFile'
    BY <1>3, <2>1 DEF CalibPointShown, TypeOK, TypePin, TypeFile, pinVars, fileVars
  <2>3. TypeFlags'
    BY <1>3, FlagsKept DEF CalibPointShown, Completes, TypeOK, tickUnchanged
  <2>4. TypeScreen'
    BY <1>3, TimerTypes, CommandTypes DEF CalibPointShown, TypeOK, TypeScreen
  <2>5. TypeMain'
    BY <1>3, TypeMainKept DEF CalibPointShown, Completes, TypeOK
  <2> QED
    BY <2>2, <2>3, <2>4, <2>5 DEF TypeOK
<1>4. ASSUME NEW i \in 1 .. N_CALIB_POINTS, CalibPointHidden(i)
      PROVE  TypeOK'
  <2>1. i + 1 \in 1 .. N_CALIB_POINTS
    BY <1>4 DEF CalibPointHidden, N_CALIB_POINTS
  <2>2. CMD_CALIB_POINT_FADE_IN(i + 1) \in Commands
    BY <2>1, CommandTypes
  <2> QED
    BY <1>4, <2>2, TypeCompleteInto DEF CalibPointHidden
<1>5. CASE CalibRejected
  <2>1. CMD_CALIB_POINT_FADE_IN(1) \in Commands
    BY CommandTypes DEF N_CALIB_POINTS
  <2> QED
    BY <1>5, <2>1, TypeCompleteInto DEF CalibRejected
<1>6. CASE CalibAccepted
  <2>1. g' \in State /\ nv' = g'
    BY <1>6 DEF CalibAccepted, WriteState, TypeOK, TypePin, State, CALIB_INIT, CALIB_DONE,
       N_CALIB_POINTS
  <2>2. TypePin' /\ TypeFile'
    BY <1>6, <2>1 DEF CalibAccepted, TypeOK, TypePin, TypeFile, pinVars, fileVars
  <2>3. TypeFlags'
    BY <1>6, FlagsKept DEF CalibAccepted, Completes, TypeOK, tickUnchanged
  <2>4. TypeScreen'
    BY <1>6, TimerTypes, CommandTypes DEF CalibAccepted, TypeOK, TypeScreen
  <2>5. TypeMain'
    BY <1>6, TypeMainKept DEF CalibAccepted, Completes, TypeOK
  <2> QED
    BY <2>2, <2>3, <2>4, <2>5 DEF TypeOK
<1>7. CASE FadedIn
  <2>1. TypePin' /\ TypeFile'
    BY <1>7 DEF FadedIn, TypeOK, TypePin, TypeFile, pinVars, fileVars
  <2>2. TypeFlags'
    BY <1>7, FlagsKept DEF FadedIn, Completes, TypeOK, tickUnchanged
  <2>3. TypeScreen'
    BY <1>7, TimerTypes, CommandTypes DEF FadedIn, TypeOK, TypeScreen
  <2>4. TypeMain'
    BY <1>7, TypeMainKept DEF FadedIn, Completes, TypeOK
  <2> QED
    BY <2>1, <2>2, <2>3, <2>4 DEF TypeOK
<1>8. CASE FadedOut
  <2>1. TypePin' /\ TypeFlags' /\ TypeFile' /\ TypeScreen'
    BY <1>8, TypeSetNextView DEF FadedOut, Completes, tickUnchanged
  <2>2. TypeMain'
    BY <1>8, TypeMainKept DEF FadedOut, Completes, TypeOK
  <2> QED
    BY <2>1, <2>2 DEF TypeOK
<1> QED
  BY <1>1, <1>2, <1>3, <1>4, <1>5, <1>6, <1>7, <1>8 DEF Tick

LEMMA TypeStartCommand ==
  ASSUME TypeScreen, NEW v, NEW c \in Commands, StartCommand(v, c), view' = view
  PROVE  TypeScreen'
BY TimerTypes DEF TypeScreen, StartCommand

\* What every touch leaves alone.
LEMMA TypeTouchKept ==
  ASSUME TypeMain, touchUnchanged
  PROVE  TypeMain'
BY DEF TypeMain, touchUnchanged, sdVars, mainVars

LEMMA EditedPinTypes ==
  ASSUME TypePin, NEW s \in Pins, SetEditedPin(s), UNCHANGED <<nv, pinAttempts, pinBuffer>>
  PROVE  TypePin' /\ EditedPin \in Pins
BY DEF TypePin, State, SetEditedPin, EditedPin

LEMMA TypePinOk == TypeOK /\ PinOk => TypeOK'
<1> SUFFICES ASSUME TypeOK, PinOk PROVE TypeOK'
  OBVIOUS
<1>1. TypeMain' /\ TypeFile'
  BY TypeTouchKept DEF PinOk, TypeOK, TypeFile
<1>2. CASE PinAssigned
  <2>1. g' \in State /\ nv' = g' /\ pin' \in Pins
    BY <1>2 DEF PinAssigned, WriteState, TypeOK, TypePin, State
  <2>2. TypePin'
    BY <1>2, <2>1 DEF PinOk, PinAssigned, TypeOK, TypePin
  <2>3. TypeFlags'
    BY <1>2, Zenon DEF PinOk, PinAssigned, TypeOK, TypeFlags, touchUnchanged, sdVars
  <2>4. TypeScreen'
    BY <1>2, TypeStartCommand, CommandTypes DEF PinOk, PinAssigned, TypeOK
  <2> QED
    BY <1>1, <2>2, <2>3, <2>4 DEF TypeOK
<1>3. CASE PinAccepted
  <2>1. TypePin'
    BY <1>3 DEF PinOk, PinAccepted, TypeOK, TypePin
  <2>2. TypeFlags'
    BY <1>3, Zenon DEF PinOk, PinAccepted, TypeOK, TypeFlags, touchUnchanged, sdVars
  <2>3. TypeScreen'
    BY <1>3, TypeStartCommand, CommandTypes DEF PinOk, PinAccepted, TypeOK
  <2> QED
    BY <1>1, <2>1, <2>2, <2>3 DEF TypeOK
<1>4. CASE PinRejected
  <2>1. TypePin' /\ TypeScreen'
    BY <1>4 DEF PinOk, PinRejected, TypeOK, TypePin, TypeScreen
  <2>2. TypeFlags'
    BY <1>4, Zenon DEF PinOk, PinRejected, TypeOK, TypeFlags, touchUnchanged, sdVars
  <2> QED
    BY <1>1, <2>1, <2>2 DEF TypeOK
<1>5. CASE LockedOut
  <2>0. g \in State /\ pinAttempts \in 0 .. 3
    BY DEF TypeOK, TypePin
  <2>1. LockedState \in State
    BY <2>0 DEF LockedState, State
  <2>2. TypePin'
    BY <1>5, <2>0, <2>1 DEF PinOk, LockedOut, AttemptsLeft, WriteState, TypeOK, TypePin
  <2>3. TypeFlags'
    BY <1>5, Zenon DEF PinOk, LockedOut, TypeOK, TypeFlags, touchUnchanged, sdVars
  <2>4. TypeScreen'
    BY <1>5, TypeStartCommand, CommandTypes DEF PinOk, LockedOut, TypeOK
  <2> QED
    BY <1>1, <2>2, <2>3, <2>4 DEF TypeOK
<1> QED
  BY <1>2, <1>3, <1>4, <1>5 DEF PinOk

LEMMA TypeTouch == TypeOK /\ Touch => TypeOK'
<1> SUFFICES ASSUME TypeOK, Touch PROVE TypeOK'
  OBVIOUS
<1>1. CASE EditPassphrase
  <2>1. TypePin' /\ TypeFile' /\ TypeScreen'
    BY <1>1 DEF EditPassphrase, TypeOK, TypePin, TypeFile, TypeScreen, State, pinVars, fileVars,
       screenVars
  <2>2. TypeFlags'
    BY <1>1, FlagsKept DEF EditPassphrase, touchUnchanged, TypeOK
  <2>3. TypeMain'
    BY <1>1, TypeTouchKept DEF EditPassphrase, TypeOK
  <2> QED
    BY <2>1, <2>2, <2>3 DEF TypeOK
<1>2. ASSUME NEW io \in IoResults, PassphraseOk(io)
      PROVE  TypeOK'
  <2>1. TypePin'
    BY <1>2 DEF PassphraseOk, TypeOK, TypePin, State, pinVars
  <2>2. TypeFile'
    BY <1>2, SlotTypes DEF PassphraseOk, TypeOK, TypeFile, TypeMain, LbxAfterDecrypt
  <2>3. TypeScreen'
    BY <1>2, TypeStartCommand, CommandTypes DEF PassphraseOk, TypeOK, TypeScreen
  <2>4. Decrypts(io) \in BOOLEAN
    BY CardsAssumption DEF Decrypts, SdValid, FileExists
  <2>5. TypeFlags'
    BY <1>2, <2>4, Zenon DEF PassphraseOk, TypeOK, TypeFlags, touchUnchanged, sdVars, pinVars
  <2>6. TypeMain'
    BY <1>2, TypeTouchKept DEF PassphraseOk, TypeOK
  <2> QED
    BY <2>1, <2>2, <2>3, <2>5, <2>6 DEF TypeOK
<1>3. CASE EditPin
  <2>1. EditedPin \in Pins
    BY DEF TypeOK, TypePin, State, EditedPin
  <2>2. PICK s \in Pins : SetEditedPin(s)
    BY <1>3, <2>1, LongerPin, ShorterPin DEF EditPin, PinHasRoom
  <2>3. TypePin'
    BY <1>3, <2>2, EditedPinTypes DEF EditPin, TypeOK
  <2>4. TypeFile' /\ TypeScreen'
    BY <1>3 DEF EditPin, TypeOK, TypeFile, TypeScreen, fileVars, screenVars
  <2>5. TypeFlags'
    BY <1>3, Zenon DEF EditPin, TypeOK, TypeFlags, touchUnchanged, sdVars, fileVars
  <2>6. TypeMain'
    BY <1>3, TypeTouchKept DEF EditPin, TypeOK
  <2> QED
    BY <2>3, <2>4, <2>5, <2>6 DEF TypeOK
<1> QED
  BY <1>1, <1>2, <1>3, TypePinOk DEF Touch

\* What the steps of the main loop leave alone.
LEMMA TypeMainLoopKept ==
  ASSUME TypeOK, mainUnchanged, UNCHANGED <<g, slot>>
  PROVE  TypePin' /\ TypeFile'
BY DEF TypeOK, TypePin, TypeFile, mainUnchanged, pinVars, fileVars

LEMMA TypeFlagsKeptByMain ==
  ASSUME TypeFlags, mainUnchanged, UNCHANGED sdCardInserted
  PROVE  TypeFlags'
BY Zenon DEF TypeFlags, mainUnchanged, pinVars, fileVars

LEMMA TypeMainStep == TypeOK /\ Main => TypeOK'
<1> SUFFICES ASSUME TypeOK, Main PROVE TypeOK'
  OBVIOUS
<1>1. CASE SampleCalibPoint
  <2>1. g' \in State
    BY <1>1 DEF SampleCalibPoint, TypeOK, TypePin, State, CALIB_INIT, CALIB_DONE, N_CALIB_POINTS
  <2>2. TypePin' /\ TypeFile' /\ TypeScreen'
    BY <1>1, <2>1 DEF SampleCalibPoint, mainUnchanged, TypeOK, TypePin, TypeFile, TypeScreen,
       pinVars, fileVars
  <2>3. TypeFlags'
    BY <1>1, TypeFlagsKeptByMain DEF SampleCalibPoint, sdVars, TypeOK
  <2>4. CMD_CALIB_POINT_FADE_OUT(g.calib) \in Commands
    BY <1>1, CommandTypes DEF SampleCalibPoint
  <2>5. TypeMain'
    BY <1>1, <2>4 DEF SampleCalibPoint, mainUnchanged, sdVars, TypeOK, TypeMain, StartCalls
  <2> QED
    BY <2>2, <2>3, <2>5 DEF TypeOK
<1>2. CASE PenReleased
  <2>1. TypePin' /\ TypeFile' /\ TypeScreen' /\ TypeMain'
    BY <1>2, TypeMainLoopKept DEF PenReleased, mainUnchanged, sdVars, TypeOK, TypeScreen, TypeMain
  <2>2. TypeFlags'
    BY <1>2, TypeFlagsKeptByMain DEF PenReleased, sdVars, TypeOK
  <2> QED
    BY <2>1, <2>2 DEF TypeOK
<1>3. CASE Poll
  <2>1. SelectSlot.slot \in SlotStates /\ SelectSlot.err \in SdErrors
    BY SlotTypes DEF TypeOK, TypeFile
  <2>2. TypePin' /\ TypeFile' /\ TypeScreen'
    BY <1>3, <2>1 DEF Poll, mainUnchanged, TypeOK, TypePin, TypeFile, TypeScreen, pinVars, fileVars
  <2>3. TypeFlags'
    BY <1>3, TypeFlagsKeptByMain DEF Poll, TypeOK
  <2>4. TypeMain'
    BY <1>3, <2>1, TimingAssumption DEF Poll, mainUnchanged, TypeOK, TypeMain
  <2> QED
    BY <2>2, <2>3, <2>4 DEF TypeOK
<1>4. CASE Debounced
  <2>1. TypePin' /\ TypeFile' /\ TypeScreen' /\ TypeMain'
    BY <1>4, TypeMainLoopKept DEF Debounced, mainUnchanged, sdVars, TypeOK, TypeScreen, TypeMain
  <2>2. TypeFlags'
    BY <1>4, TypeFlagsKeptByMain DEF Debounced, sdVars, TypeOK
  <2> QED
    BY <2>1, <2>2 DEF TypeOK
<1>5. CASE CardInitialised
  <2>1. TypePin' /\ TypeFile' /\ TypeScreen'
    BY <1>5 DEF CardInitialised, mainUnchanged, TypeOK, TypePin, TypeFile, TypeScreen, pinVars,
       fileVars, SlotStates
  <2>2. TypeFlags'
    BY <1>5, TypeFlagsKeptByMain DEF CardInitialised, TypeOK
  <2>3. TypeMain'
    BY <1>5 DEF CardInitialised, mainUnchanged, TypeOK, TypeMain, SdErrors
  <2> QED
    BY <2>1, <2>2, <2>3 DEF TypeOK
<1>6. CASE Compare
  <2>1. TypePin' /\ TypeFile' /\ TypeScreen'
    BY <1>6, TypeMainLoopKept DEF Compare, mainUnchanged, TypeOK, TypeScreen
  <2>2. sdCardInserted' \in BOOLEAN
    BY <1>6, Zenon DEF Compare, TypeOK, TypeFlags
  <2>3. TypeFlags'
    BY <1>6, <2>2, Zenon DEF Compare, mainUnchanged, TypeOK, TypeFlags, pinVars, fileVars
  <2>4. TypeMain'
    BY <1>6, CommandTypes DEF Compare, mainUnchanged, TypeOK, TypeMain, StartCalls
  <2> QED
    BY <2>1, <2>3, <2>4 DEF TypeOK
<1>7. CASE LoadView
  <2>1. TypePin' /\ TypeFile' /\ TypeScreen' /\ TypeMain'
    BY <1>7, TypeMainLoopKept DEF LoadView, mainUnchanged, sdVars, TypeOK, TypeScreen, TypeMain,
       StartCalls
  <2>2. TypeFlags'
    BY <1>7, TypeFlagsKeptByMain DEF LoadView, sdVars, TypeOK
  <2> QED
    BY <2>1, <2>2 DEF TypeOK
<1>8. NotStarting \in StartCalls
  BY CommandTypes DEF NotStarting, StartCalls, Views
<1>9. CASE SetCommand
  <2>1. TypePin' /\ TypeFile' /\ TypeScreen' /\ TypeMain'
    BY <1>8, <1>9, TypeMainLoopKept DEF SetCommand, AfterStart, mainUnchanged, sdVars, TypeOK,
       TypeScreen, TypeMain, StartCalls
  <2>2. TypeFlags'
    BY <1>9, TypeFlagsKeptByMain DEF SetCommand, sdVars, TypeOK
  <2> QED
    BY <2>1, <2>2 DEF TypeOK
<1>10. CASE SetTimer
  <2>1. TypePin' /\ TypeFile' /\ TypeScreen' /\ TypeMain'
    BY <1>8, <1>10, TypeMainLoopKept, TimerTypes DEF SetTimer, AfterStart, mainUnchanged, sdVars,
       TypeOK, TypeScreen, TypeMain
  <2>2. TypeFlags'
    BY <1>10, TypeFlagsKeptByMain DEF SetTimer, sdVars, TypeOK
  <2> QED
    BY <2>1, <2>2 DEF TypeOK
<1> QED
  BY <1>1, <1>2, <1>3, <1>4, <1>5, <1>6, <1>7, <1>9, <1>10 DEF Main

LEMMA TypeBoot ==
  ASSUME TypeOK, NEW image \in State \cup {Corrupt}, Boot(image)
  PROVE  TypeOK'
<1>1. g' \in State
  BY DefaultStateType DEF Boot, ReadState
<1>2. TypePin'
  BY <1>1, EmptyPin DEF Boot, TypePin
<1>3. TypeFlags'
  BY Zenon DEF Boot, TypeFlags
<1>4. TypeFile'
  BY FirstTypes DEF Boot, TypeFile
<1>5. TypeScreen'
  BY CommandTypes, TimerTypes DEF Boot, TypeScreen, Views
<1>6. TypeMain'
  BY FirstTypes, TimingAssumption DEF Boot, TypeOK, TypeMain, SdErrors
<1> QED
  BY <1>2, <1>3, <1>4, <1>5, <1>6 DEF TypeOK

LEMMA TypeEnvironment == TypeOK /\ Environment => TypeOK'
<1> SUFFICES ASSUME TypeOK, Environment PROVE TypeOK'
  OBVIOUS
<1>1. CASE InsertCard \/ RemoveCard
  <2>1. TypePin' /\ TypeFile' /\ TypeScreen' /\ TypeMain'
    BY <1>1 DEF InsertCard, RemoveCard, TypeOK, TypePin, TypeFile, TypeScreen, TypeMain, pinVars,
       fileVars, screenVars, sdVars, mainVars
  <2>2. TypeFlags'
    BY <1>1, FlagsKept DEF InsertCard, RemoveCard, TypeOK
  <2> QED
    BY <2>1, <2>2 DEF TypeOK
<1>2. CASE PowerCycle \/ PowerCycleInWrite
  BY <1>2, TypeBoot DEF PowerCycle, PowerCycleInWrite, TypeOK, TypePin
<1> QED
  BY <1>1, <1>2 DEF Environment

LEMMA TypeStutter == TypeOK /\ UNCHANGED vars => TypeOK'
<1> SUFFICES ASSUME TypeOK, UNCHANGED vars PROVE TypeOK'
  OBVIOUS
<1>1. TypePin' /\ TypeFile' /\ TypeScreen' /\ TypeMain'
  BY DEF vars, TypeOK, TypePin, TypeFile, TypeScreen, TypeMain, pinVars, fileVars, screenVars,
     sdVars, mainVars
<1>2. TypeFlags'
  BY FlagsKept DEF vars, TypeOK
<1> QED
  BY <1>1, <1>2 DEF TypeOK

\* Every variable keeps its type: the PIN of lcd_pin_ok never outgrows its
\* buffer, and the commands, views and results of the driver stay known ones.
THEOREM TypeCorrect == Spec => []TypeOK
<1>1. TypeOK /\ [Next]_vars => TypeOK'
  BY TypeTick, TypeTouch, TypeMainStep, TypeEnvironment, TypeStutter DEF Next
<1> QED
  BY <1>1, TypeInit, PTL DEF Spec

-----------------------------------------------------------------------------
\* A step that changes g_state.calib_state alone.
LEMMA CalibOnly ==
  ASSUME TypeOK, NEW c, g' = [g EXCEPT !.calib = c]
  PROVE  /\ g'.calib = c
         /\ g'.pinSet = g.pinSet
         /\ g'.pin = g.pin
         /\ g'.passSet = g.passSet
BY DEF TypeOK, TypePin, State

-----------------------------------------------------------------------------
(* The key view.                                                            *)

LEMMA KeyViewStep == TypeOK /\ KeyViewUnlocked /\ [Next]_vars => KeyViewUnlocked'
<1> SUFFICES ASSUME TypeOK, KeyViewUnlocked, [Next]_vars PROVE KeyViewUnlocked'
  OBVIOUS
\* A step that keeps the lock's variables.
<1>1. ASSUME UNCHANGED <<view, decryptOk, lbxItems, items, pinEntered, pinOk, pin>>,
             g'.pinSet = g.pinSet, g'.pin = g.pin
      PROVE  KeyViewUnlocked'
  BY <1>1, Zenon DEF KeyViewUnlocked
\* A step that shows another view.
<1>2. ASSUME view' # "KEY" PROVE KeyViewUnlocked'
  BY <1>2 DEF KeyViewUnlocked
<1>3. CASE Tick
  <2>1. CASE FadedOut
    <3>1. ASSUME NEW io \in IoResults, KeysShown(io) PROVE KeyViewUnlocked'
      BY <3>1, Zenon DEF KeysShown, KeysSet, Decrypted, VerifiedPinOk, KeyViewUnlocked
    <3>2. CalibrationNeeded \/ CardMissing \/ CardInvalid => view' # "KEY"
      BY DEF CalibrationNeeded, CardMissing, CardInvalid, Show, ShowTitle
    <3>3. \A io \in IoResults :
            FileMissing(io) \/ PassphraseNeeded(io) \/ FormatBad(io) \/ PinUnassigned(io)
              \/ PinNeeded(io) => view' # "KEY"
      BY DEF FileMissing, PassphraseNeeded, FormatBad, PinUnassigned, PinNeeded, Show, ShowTitle
    <3> QED
      BY <1>2, <2>1, <3>1, <3>2, <3>3 DEF FadedOut, SetNextView
  <2>2. CASE CalibAccepted \/ \E i \in 1 .. N_CALIB_POINTS : CalibPointShown(i)
    <3>1. PICK c : g' = [g EXCEPT !.calib = c]
      BY <2>2 DEF CalibAccepted, CalibPointShown
    <3>2. g'.pinSet = g.pinSet /\ g'.pin = g.pin
      BY <3>1, CalibOnly
    <3>3. UNCHANGED <<view, decryptOk, lbxItems, items, pinEntered, pinOk, pin>>
      BY <2>2 DEF CalibAccepted, CalibPointShown, pinVars, fileVars
    <3> QED
      BY <1>1, <3>2, <3>3
  <2>3. CASE Animate \/ CalibLabelShown \/ CalibRejected \/ FadedIn
             \/ \E i \in 1 .. N_CALIB_POINTS : CalibPointHidden(i)
    BY <1>1, <2>3 DEF Animate, CalibLabelShown, CalibRejected, FadedIn, CalibPointHidden,
       CompleteInto, pinVars, fileVars
  <2> QED
    BY <1>3, <2>1, <2>2, <2>3 DEF Tick
<1>4. CASE Touch
  BY <1>2, <1>4 DEF Touch, EditPassphrase, PassphraseOk, EditPin, PinOk, screenVars
<1>5. CASE Main
  <2>1. CASE SampleCalibPoint
    <3>1. g'.pinSet = g.pinSet /\ g'.pin = g.pin
      BY <2>1, CalibOnly DEF SampleCalibPoint
    <3>2. UNCHANGED <<view, decryptOk, lbxItems, items, pinEntered, pinOk, pin>>
      BY <2>1 DEF SampleCalibPoint, mainUnchanged, pinVars, fileVars
    <3> QED
      BY <1>1, <3>1, <3>2
  <2>2. CASE Main /\ ~SampleCalibPoint
    BY <1>1, <2>2 DEF Main, PenReleased, Poll, Debounced, CardInitialised, Compare, LoadView,
       SetCommand, SetTimer, mainUnchanged, pinVars, fileVars
  <2> QED
    BY <1>5, <2>1, <2>2
<1>6. CASE Environment
  BY <1>1, <1>2, <1>6 DEF Environment, InsertCard, RemoveCard, PowerCycle, PowerCycleInWrite,
     Boot, pinVars, fileVars, screenVars
<1>7. CASE UNCHANGED vars
  BY <1>1, <1>7 DEF vars, pinVars, fileVars, screenVars
<1> QED
  BY <1>3, <1>4, <1>5, <1>6, <1>7 DEF Next

\* However main, the tick and the user interleave, the key list is shown only
\* after this file was decrypted and the PIN that is set was entered
\* (set_next_view's last return, reached only past verify_pin).
THEOREM KeyViewAlwaysUnlocked == Spec => []KeyViewUnlocked
<1>1. Init => KeyViewUnlocked
  BY DEF Init, KeyViewUnlocked
<1> QED
  BY <1>1, KeyViewStep, TypeCorrect, PTL DEF Spec

-----------------------------------------------------------------------------
(* The lock-out after the last wrong PIN.                                   *)

\* What lcd_pin_ok does to the flags and to the flash.
LEMMA PinOkEffect ==
  ASSUME TypeOK, PinOk
  PROVE  /\ g' \in State
         /\ g'.calib = g.calib
         /\ nv' = nv \/ nv' = g'
         /\ \/ nv' = nv /\ UNCHANGED <<g, decryptOk>>
            \/ nv' = g' /\ g'.pinSet /\ g'.passSet = g.passSet /\ UNCHANGED decryptOk
            \/ nv' = g' /\ ~g'.passSet /\ ~decryptOk'
<1> USE DEF TypeOK, TypePin, State
<1>1. CASE PinAssigned
  BY <1>1 DEF PinAssigned, WriteState
<1>2. CASE PinAccepted \/ PinRejected
  BY <1>2 DEF PinAccepted, PinRejected
<1>3. CASE LockedOut
  BY <1>3 DEF LockedOut, LockedState, WriteState
<1> QED
  BY <1>1, <1>2, <1>3 DEF PinOk

\* What the PIN and passphrase editors do to g_state.
LEMMA EditEffect ==
  ASSUME TypeOK, EditPassphrase \/ EditPin
  PROVE  g'.calib = g.calib /\ g'.passSet = g.passSet /\ g'.pinSet = g.pinSet
BY DEF TypeOK, TypePin, State, EditPassphrase, EditPin, SetEditedPin

\* Without a decrypted file the PIN view is that of a lock-out.
PinViewLocked ==
  view = "PIN" /\ ~decryptOk => ~g.passSet /\ nv # Corrupt /\ ~nv.passSet

LEMMA PinViewStep == TypeOK /\ PinViewLocked /\ [Next]_vars => PinViewLocked'
<1> SUFFICES ASSUME TypeOK, PinViewLocked, [Next]_vars PROVE PinViewLocked'
  OBVIOUS
<1>1. ASSUME view' # "PIN" \/ decryptOk' PROVE PinViewLocked'
  BY <1>1 DEF PinViewLocked
<1>2. ASSUME UNCHANGED <<view, decryptOk, nv>>, g'.passSet = g.passSet PROVE PinViewLocked'
  BY <1>2, Zenon DEF PinViewLocked
<1>3. CASE Tick
  <2>1. CASE FadedOut
    <3>1. CalibrationNeeded \/ CardMissing \/ CardInvalid => view' # "PIN"
      BY DEF CalibrationNeeded, CardMissing, CardInvalid, Show, ShowTitle
    <3>2. \A io \in IoResults : FileMissing(io) \/ PassphraseNeeded(io) => view' # "PIN"
      BY DEF FileMissing, PassphraseNeeded, Show, ShowTitle
    <3>3. \A io \in IoResults :
            FormatBad(io) \/ PinUnassigned(io) \/ PinNeeded(io) \/ KeysShown(io) => decryptOk'
      BY Zenon DEF FormatBad, PinUnassigned, PinNeeded, KeysShown, KeysSet, Decrypted
    <3> QED
      BY <1>1, <2>1, <3>1, <3>2, <3>3 DEF FadedOut, SetNextView
  <2>2. CASE CalibAccepted
    BY <1>1, <2>2 DEF CalibAccepted, Completes, Handled, FadeCommands, CMD_FADE_IN, CMD_FADE_OUT,
       CMD_CALIB_POINT_FADE_OUT, N_CALIB_POINTS
  <2>3. ASSUME NEW i \in 1 .. N_CALIB_POINTS, CalibPointShown(i) PROVE PinViewLocked'
    BY <1>2, <2>3, CalibOnly DEF CalibPointShown, fileVars
  <2>4. CASE Animate \/ CalibLabelShown \/ CalibRejected \/ FadedIn
             \/ \E i \in 1 .. N_CALIB_POINTS : CalibPointHidden(i)
    BY <1>2, <2>4 DEF Animate, CalibLabelShown, CalibRejected, FadedIn, CalibPointHidden,
       CompleteInto, fileVars
  <2> QED
    BY <1>3, <2>1, <2>2, <2>3, <2>4 DEF Tick
<1>4. CASE Touch
  <2>1. CASE EditPassphrase \/ EditPin
    BY <1>2, <2>1, EditEffect DEF EditPassphrase, EditPin, fileVars, screenVars
  <2>2. CASE \E io \in IoResults : PassphraseOk(io)
    BY <1>1, <2>2 DEF PassphraseOk
  <2>3. CASE PinOk
    <3>1. view = "PIN" /\ view' = view
      BY <2>3 DEF PinOk
    <3>2. CASE nv' = nv /\ UNCHANGED <<g, decryptOk>>
      BY <1>2, <3>1, <3>2
    <3>3. CASE nv' = g' /\ g'.passSet = g.passSet /\ UNCHANGED decryptOk
      <4>1. nv' # Corrupt
        BY <2>3, <3>3, PinOkEffect, CorruptAssumption
      <4> QED
        BY <3>1, <3>3, <4>1, Zenon DEF PinViewLocked
    <3>4. CASE nv' = g' /\ ~g'.passSet /\ ~decryptOk'
      <4>1. nv' # Corrupt
        BY <2>3, <3>4, PinOkEffect, CorruptAssumption
      <4> QED
        BY <3>4, <4>1, Zenon DEF PinViewLocked
    <3> QED
      BY <2>3, <3>2, <3>3, <3>4, PinOkEffect
  <2> QED
    BY <1>4, <2>1, <2>2, <2>3 DEF Touch
<1>5. CASE Main
  <2>1. CASE SampleCalibPoint
    BY <1>2, <2>1, CalibOnly DEF SampleCalibPoint, mainUnchanged, fileVars
  <2>2. CASE Main /\ ~SampleCalibPoint
    BY <1>2, <2>2 DEF Main, PenReleased, Poll, Debounced, CardInitialised, Compare, LoadView,
       SetCommand, SetTimer, mainUnchanged, fileVars
  <2> QED
    BY <1>5, <2>1, <2>2
<1>6. CASE Environment
  BY <1>1, <1>2, <1>6 DEF Environment, InsertCard, RemoveCard, PowerCycle, PowerCycleInWrite,
     Boot, fileVars, screenVars
<1>7. CASE UNCHANGED vars
  BY <1>2, <1>7 DEF vars, fileVars, screenVars
<1> QED
  BY <1>3, <1>4, <1>5, <1>6, <1>7 DEF Next

LEMMA PinViewAlwaysLocked == Spec => []PinViewLocked
<1>1. Init => PinViewLocked
  BY DEF Init, PinViewLocked
<1> QED
  BY <1>1, PinViewStep, TypeCorrect, PTL DEF Spec

-----------------------------------------------------------------------------
(* The strengthening.                                                       *)

\* Until the calibration is done there is nothing but its view, and no passphrase.
UncalibratedViews == g.calib # CALIB_DONE => view \in {"LOGO", "CALIB"}
NoPassphraseYet == g.calib # CALIB_DONE \/ view = "CALIB" => ~g.passSet

\* A calibration point that is to be touched stays on the screen.
PointShown ==
  g.calib \in 1 .. N_CALIB_POINTS => view = "CALIB" /\ command = NO_COMMAND

\* A finished calibration leaves its view.
CalibrationLeft == g.calib = CALIB_DONE /\ view = "CALIB" => command = CMD_CALIB_LBL_FADE_OUT

\* What the flash holds is a finished calibration.
SavedCalibrated == nv # Corrupt => nv.calib = CALIB_DONE

CalibrationInv ==
  /\ UncalibratedViews /\ NoPassphraseYet /\ PointShown /\ CalibrationLeft /\ SavedCalibrated
  /\ CalibrationSaved /\ StoredPassphraseHasPin

\* The main loop starts a fade-out of the view because a card came or went: the
\* calibration is over, so a view it has read is not replaced by the calibration.
StartingFadeOut ==
  /\ g.calib = CALIB_DONE
  /\ pc = "setCommand" /\ starting.view # "CALIB" => view # "CALIB"

\* It starts another animation: nothing else does, and the view waits for it.
StartingOther ==
  /\ g.calib \notin 1 .. N_CALIB_POINTS
  /\ command = NO_COMMAND
  /\ view \in {"LOGO", "CALIB"}
  /\ Handled(view, starting.command)
  /\ pc = "setCommand" => starting.view = view

MainStarting ==
  /\ pc \in {"debounce", "init", "compare"} => g.calib = CALIB_DONE
  /\ pc \in {"load", "setCommand"} =>
       IF starting.command = CMD_FADE_OUT THEN StartingFadeOut ELSE StartingOther

ScreenInv == CommandFitsView /\ MainStarting

\* The view agrees with sd_card_inserted.
CardShown == IF sdCardInserted THEN view # "INSERT_SD" ELSE view \notin CardViews

\* A fade-out that main is about to lose, having read the calibration view, is
\* not needed.
LostFadeOut ==
  pc = "setCommand" /\ starting.command = CMD_FADE_OUT /\ starting.view = "CALIB"
    => CardShown \/ command = CMD_FADE_OUT

CardInv == CardChangePending /\ LostFadeOut

IInv == CalibrationInv /\ ScreenInv /\ CardInv

-----------------------------------------------------------------------------
(* IInv is inductive.                                                       *)

LEMMA CommandFacts ==
  /\ CMD_FADE_OUT \notin CalibCommands /\ CMD_FADE_IN \notin CalibCommands
  /\ CMD_FADE_IN # CMD_FADE_OUT
  /\ CMD_FADE_IN # NO_COMMAND /\ CMD_FADE_OUT # NO_COMMAND
  /\ NO_COMMAND \notin CalibCommands
  /\ CMD_CALIB_LBL_FADE_IN \in CalibCommands /\ CMD_CALIB_LBL_FADE_OUT \in CalibCommands
  /\ \A i \in 1 .. N_CALIB_POINTS : /\ CMD_CALIB_POINT_FADE_IN(i) \in CalibCommands
                                    /\ CMD_CALIB_POINT_FADE_OUT(i) \in CalibCommands
  /\ CALIB_INIT \notin 1 .. N_CALIB_POINTS /\ CALIB_DONE \notin 1 .. N_CALIB_POINTS
  /\ CALIB_INIT # CALIB_DONE
  /\ \A i \in 1 .. N_CALIB_POINTS : /\ CMD_CALIB_POINT_FADE_IN(i) # CMD_CALIB_LBL_FADE_OUT
                                    /\ CMD_CALIB_POINT_FADE_OUT(i) # CMD_CALIB_LBL_FADE_OUT
  /\ CMD_CALIB_LBL_FADE_IN # CMD_CALIB_LBL_FADE_OUT
BY DEF CalibCommands, CMD_FADE_IN, CMD_FADE_OUT, NO_COMMAND, CMD_CALIB_LBL_FADE_IN,
   CMD_CALIB_LBL_FADE_OUT, CMD_CALIB_POINT_FADE_IN, CMD_CALIB_POINT_FADE_OUT, N_CALIB_POINTS,
   CALIB_INIT, CALIB_DONE

\* A step that leaves alone what IInv is about.
LEMMA IInvKept ==
  ASSUME IInv, UNCHANGED <<nv, view, command, pc, starting, sdCardInserted>>,
         g'.calib = g.calib, g'.passSet = g.passSet
  PROVE  IInv'
<1>1. CalibrationInv'
  BY Zenon DEF IInv, CalibrationInv, UncalibratedViews, NoPassphraseYet, PointShown,
     CalibrationLeft, SavedCalibrated, CalibrationSaved, StoredPassphraseHasPin
<1>2. ScreenInv'
  BY Zenon DEF IInv, ScreenInv, CommandFitsView, MainStarting, StartingFadeOut, StartingOther
<1>3. CardInv'
  BY Zenon DEF IInv, CardInv, CardChangePending, FadeOutPending, LostFadeOut, CardShown
<1> QED
  BY <1>1, <1>2, <1>3 DEF IInv

\* set_next_view shows the calibration view or one that agrees with the card.
LEMMA SetNextViewEffect ==
  ASSUME TypeOK, SetNextView, UNCHANGED sdCardInserted
  PROVE  \/ /\ g.calib # CALIB_DONE /\ g'.calib = CALIB_INIT /\ g'.passSet = g.passSet
            /\ view' = "CALIB" /\ command' = CMD_CALIB_LBL_FADE_IN
         \/ /\ g.calib = CALIB_DONE /\ g'.calib = CALIB_DONE
            /\ view' \notin {"LOGO", "CALIB"} /\ command' = CMD_FADE_IN
            /\ CardShown'
<1> USE DEF Show, ShowTitle, CardShown, CardViews
<1>1. CASE CalibrationNeeded
  BY <1>1, CalibOnly DEF CalibrationNeeded
<1>2. CASE CardMissing \/ CardInvalid
  BY <1>2 DEF CardMissing, CardInvalid, CardReached
<1>3. ASSUME NEW io \in IoResults, FileMissing(io) \/ PinNeeded(io) \/ KeysShown(io) \/ FormatBad(io)
      PROVE  /\ g.calib = CALIB_DONE /\ g' = g /\ command' = CMD_FADE_IN
             /\ view' \notin {"LOGO", "CALIB"} /\ CardShown'
  BY <1>3 DEF FileMissing, PinNeeded, KeysShown, FormatBad, KeysSet, Decrypted, CardReached
<1>4. ASSUME NEW io \in IoResults, PassphraseNeeded(io) \/ PinUnassigned(io)
      PROVE  /\ g.calib = CALIB_DONE /\ g'.calib = g.calib /\ command' = CMD_FADE_IN
             /\ view' \notin {"LOGO", "CALIB"} /\ CardShown'
  BY <1>4 DEF PassphraseNeeded, PinUnassigned, KeysSet, Decrypted, CardReached, TypeOK, TypePin, State
<1> QED
  BY <1>1, <1>2, <1>3, <1>4 DEF SetNextView

\* The end of a fade-out.
LEMMA IInvFadedOut == TypeOK /\ IInv /\ FadedOut => IInv'
<1> SUFFICES ASSUME TypeOK, IInv, FadedOut PROVE IInv'
  OBVIOUS
<1>1. UNCHANGED <<nv, pc, starting, sdCardInserted>>
  BY DEF FadedOut, Completes, tickUnchanged, sdVars
<1>2. command # NO_COMMAND
  BY CommandFacts DEF FadedOut, Completes
<1>3. ~(pc \in {"load", "setCommand"} /\ starting.command # CMD_FADE_OUT)
  BY <1>2 DEF IInv, ScreenInv, MainStarting, StartingOther
<1>4. CASE /\ g.calib # CALIB_DONE /\ g'.calib = CALIB_INIT /\ g'.passSet = g.passSet
           /\ view' = "CALIB" /\ command' = CMD_CALIB_LBL_FADE_IN
  <2>1. CalibrationInv'
    BY <1>1, <1>4, CommandFacts DEF IInv, CalibrationInv, UncalibratedViews, NoPassphraseYet,
       PointShown, CalibrationLeft, SavedCalibrated, CalibrationSaved, StoredPassphraseHasPin
  <2>2. ScreenInv'
    BY <1>1, <1>3, <1>4, CommandFacts DEF IInv, ScreenInv, CommandFitsView, MainStarting,
       StartingFadeOut, StartingOther, Handled
  <2>3. CardInv'
    BY <1>1, <1>4 DEF CardInv, CardChangePending, LostFadeOut, CardShown, CardViews
  <2> QED
    BY <2>1, <2>2, <2>3 DEF IInv
<1>5. CASE /\ g.calib = CALIB_DONE /\ g'.calib = CALIB_DONE
           /\ view' \notin {"LOGO", "CALIB"} /\ command' = CMD_FADE_IN
           /\ CardShown'
  <2>1. CalibrationInv'
    BY <1>1, <1>5, CommandFacts DEF IInv, CalibrationInv, UncalibratedViews, NoPassphraseYet,
       PointShown, CalibrationLeft, SavedCalibrated, CalibrationSaved, StoredPassphraseHasPin
  <2>2. ScreenInv'
    BY <1>1, <1>3, <1>5, CommandFacts DEF IInv, ScreenInv, CommandFitsView, MainStarting,
       StartingFadeOut, StartingOther, Handled, FadeCommands
  <2>3. CardInv'
    BY <1>1, <1>5 DEF CardInv, CardChangePending, LostFadeOut, CardShown
  <2> QED
    BY <2>1, <2>2, <2>3 DEF IInv
<1> QED
  BY <1>1, <1>4, <1>5, SetNextViewEffect DEF FadedOut

\* The animations of the calibration view that are followed by another.
PointCommands == CalibCommands \ {CMD_CALIB_LBL_FADE_OUT}

LEMMA PointCommandFacts ==
  /\ CMD_CALIB_LBL_FADE_IN \in PointCommands
  /\ \A i \in 1 .. N_CALIB_POINTS : /\ CMD_CALIB_POINT_FADE_IN(i) \in PointCommands
                                    /\ CMD_CALIB_POINT_FADE_OUT(i) \in PointCommands
BY CommandFacts DEF PointCommands

\* While one of them runs, the calibration is not done and no point waits.
LEMMA CalibrationRuns ==
  ASSUME TypeOK, IInv, NEW c \in PointCommands, Completes(c)
  PROVE  /\ view = "CALIB" /\ g.calib # CALIB_DONE /\ g.calib \notin 1 .. N_CALIB_POINTS
         /\ ~g.passSet
         /\ command = c /\ c # NO_COMMAND /\ c # CMD_FADE_OUT
BY CommandFacts DEF PointCommands, Completes, Handled, FadeCommands, IInv, CalibrationInv,
   CalibrationLeft, PointShown, NoPassphraseYet

\* The end of an animation that is followed in the same view by command next.
LEMMA IInvAnimated ==
  ASSUME TypeOK, IInv, UNCHANGED <<g, nv, pc, starting, sdCardInserted, view>>,
         command \notin {NO_COMMAND, CMD_FADE_OUT, CMD_CALIB_LBL_FADE_OUT},
         command' # NO_COMMAND => Handled(view, command')
  PROVE  IInv'
<1>1. ~(pc \in {"load", "setCommand"} /\ starting.command # CMD_FADE_OUT)
  BY DEF IInv, ScreenInv, MainStarting, StartingOther
<1>2. CalibrationInv'
  BY CommandFacts DEF IInv, CalibrationInv, UncalibratedViews, NoPassphraseYet,
     PointShown, CalibrationLeft, SavedCalibrated, CalibrationSaved, StoredPassphraseHasPin
<1>3. ScreenInv'
  BY <1>1 DEF IInv, ScreenInv, CommandFitsView, MainStarting, StartingFadeOut, Handled
<1>4. CardInv'
  BY DEF IInv, CardInv, CardChangePending, FadeOutPending, LostFadeOut, CardShown
<1> QED
  BY <1>2, <1>3, <1>4 DEF IInv

LEMMA IInvCompleteInto ==
  ASSUME TypeOK, IInv, NEW c \in PointCommands, NEW next \in CalibCommands,
         CompleteInto(c, next), UNCHANGED g
  PROVE  IInv'
<1>1. UNCHANGED <<nv, pc, starting, sdCardInserted, view>> /\ command' = next
  BY DEF CompleteInto, Completes, tickUnchanged, sdVars
<1>2. view = "CALIB" /\ command \notin {NO_COMMAND, CMD_FADE_OUT, CMD_CALIB_LBL_FADE_OUT}
  BY CalibrationRuns DEF CompleteInto, PointCommands
<1> QED
  BY <1>1, <1>2, IInvAnimated DEF Handled

\* A point is shown, and waits for the pen.
LEMMA IInvPointShown ==
  ASSUME TypeOK, IInv, NEW i \in 1 .. N_CALIB_POINTS, CalibPointShown(i)
  PROVE  IInv'
<1>1. /\ UNCHANGED <<nv, pc, starting, sdCardInserted, view>> /\ command' = NO_COMMAND
      /\ g'.calib = i /\ g'.passSet = g.passSet
  BY CalibOnly DEF CalibPointShown, Completes, tickUnchanged, sdVars
<1>2. /\ view = "CALIB" /\ g.calib # CALIB_DONE /\ ~g.passSet
      /\ command # NO_COMMAND /\ command # CMD_FADE_OUT
  BY CalibrationRuns, PointCommandFacts DEF CalibPointShown
<1>3. pc \notin {"load", "setCommand"}
  BY <1>2 DEF IInv, ScreenInv, MainStarting, StartingFadeOut, StartingOther
<1>4. CalibrationInv'
  BY <1>1, <1>2, CommandFacts DEF IInv, CalibrationInv, UncalibratedViews, NoPassphraseYet,
     PointShown, CalibrationLeft, SavedCalibrated, CalibrationSaved, StoredPassphraseHasPin
<1>5. ScreenInv'
  BY <1>1, <1>2, <1>3 DEF IInv, ScreenInv, CommandFitsView, MainStarting
<1>6. CardInv'
  BY <1>1, <1>2, <1>3 DEF IInv, CardInv, CardChangePending, LostFadeOut, CardViews
<1> QED
  BY <1>4, <1>5, <1>6 DEF IInv

\* The calibration is accepted and saved.
LEMMA IInvCalibAccepted ==
  ASSUME TypeOK, IInv, CalibAccepted
  PROVE  IInv'
<1>1. /\ UNCHANGED <<pc, starting, sdCardInserted, view>>
      /\ command' = CMD_CALIB_LBL_FADE_OUT /\ g' = [g EXCEPT !.calib = CALIB_DONE] /\ nv' = g'
  BY DEF CalibAccepted, Completes, tickUnchanged, sdVars, WriteState
<1>2. g'.calib = CALIB_DONE /\ g'.passSet = g.passSet
  BY <1>1, CalibOnly
<1>3. nv' # Corrupt
  BY <1>1, CorruptAssumption DEF TypeOK, TypePin, State, CALIB_INIT, CALIB_DONE, N_CALIB_POINTS
<1>4. /\ view = "CALIB" /\ g.calib # CALIB_DONE /\ ~g.passSet
      /\ command # NO_COMMAND /\ command # CMD_FADE_OUT
  <2>1. CMD_CALIB_POINT_FADE_OUT(N_CALIB_POINTS) \in PointCommands
    BY PointCommandFacts DEF N_CALIB_POINTS
  <2> QED
    BY <2>1, CalibrationRuns DEF CalibAccepted
<1>5. pc \notin {"load", "setCommand"}
  BY <1>4 DEF IInv, ScreenInv, MainStarting, StartingFadeOut, StartingOther
<1>6. CalibrationInv'
  BY <1>1, <1>2, <1>3, <1>4, CommandFacts DEF CalibrationInv, UncalibratedViews, NoPassphraseYet,
     PointShown, CalibrationLeft, SavedCalibrated, CalibrationSaved, StoredPassphraseHasPin
<1>7. ScreenInv'
  BY <1>1, <1>2, <1>4, <1>5, CommandFacts DEF IInv, ScreenInv, CommandFitsView, MainStarting, Handled
<1>8. CardInv'
  BY <1>1, <1>4, <1>5 DEF IInv, CardInv, CardChangePending, LostFadeOut, CardViews
<1> QED
  BY <1>6, <1>7, <1>8 DEF IInv

LEMMA IInvTick == TypeOK /\ IInv /\ Tick => IInv'
<1> SUFFICES ASSUME TypeOK, IInv, Tick PROVE IInv'
  OBVIOUS
<1>1. CASE Animate
  BY <1>1, IInvKept DEF Animate, tickUnchanged, sdVars
<1>2. CASE CalibLabelShown
  <2>1. CMD_CALIB_POINT_FADE_IN(1) \in CalibCommands
    BY CommandFacts DEF N_CALIB_POINTS
  <2> QED
    BY <1>2, <2>1, IInvCompleteInto, PointCommandFacts DEF CalibLabelShown
<1>3. ASSUME NEW i \in 1 .. N_CALIB_POINTS, CalibPointHidden(i) PROVE IInv'
  <2>1. i + 1 \in 1 .. N_CALIB_POINTS
    BY <1>3 DEF CalibPointHidden, N_CALIB_POINTS
  <2> QED
    BY <1>3, <2>1, IInvCompleteInto, CommandFacts, PointCommandFacts DEF CalibPointHidden
<1>4. CASE CalibRejected
  <2>1. /\ CMD_CALIB_POINT_FADE_IN(1) \in CalibCommands
        /\ CMD_CALIB_POINT_FADE_OUT(N_CALIB_POINTS) \in PointCommands
    BY CommandFacts, PointCommandFacts DEF N_CALIB_POINTS
  <2> QED
    BY <1>4, <2>1, IInvCompleteInto DEF CalibRejected
<1>5. CASE FadedIn
  <2>1. UNCHANGED <<g, nv, pc, starting, sdCardInserted, view>>
    BY <1>5 DEF FadedIn, Completes, tickUnchanged, sdVars
  <2>2. command = CMD_FADE_IN /\ CMD_FADE_IN # CMD_CALIB_LBL_FADE_OUT
    BY <1>5 DEF FadedIn, Completes, CMD_FADE_IN, CMD_CALIB_LBL_FADE_OUT
  <2>3. command' # NO_COMMAND => Handled(view, command')
    BY <1>5 DEF FadedIn, Handled, FadeCommands
  <2> QED
    BY <2>1, <2>2, <2>3, IInvAnimated, CommandFacts
<1> QED
  BY <1>1, <1>2, <1>3, <1>4, <1>5, IInvPointShown, IInvCalibAccepted, IInvFadedOut DEF Tick

\* An OK button: the fade-out of the passphrase or the PIN view may start.
LEMMA IInvOk ==
  ASSUME TypeOK, IInv, view \in {"PASS", "PIN"},
         UNCHANGED <<pc, starting, sdCardInserted, view>>,
         command' \in {command, CMD_FADE_OUT}, g'.calib = g.calib,
         nv' = nv \/ (nv' = g' /\ g' \in State),
         nv' # nv => (g'.passSet => g'.pinSet)
  PROVE  IInv'
<1>1. g.calib = CALIB_DONE
  BY DEF IInv, CalibrationInv, UncalibratedViews
<1>2. nv' = nv \/ nv' # Corrupt
  BY CorruptAssumption
<1>3. CalibrationInv'
  BY <1>1, <1>2, CommandFacts DEF IInv, CalibrationInv, UncalibratedViews, NoPassphraseYet,
     PointShown, CalibrationLeft, SavedCalibrated, CalibrationSaved, StoredPassphraseHasPin
<1>4. ScreenInv'
  BY <1>1, CommandFacts DEF IInv, ScreenInv, CommandFitsView, MainStarting, StartingFadeOut,
     StartingOther, Handled, FadeCommands
<1>5. CardInv'
  BY DEF IInv, CardInv, CardChangePending, FadeOutPending, LostFadeOut, CardShown
<1> QED
  BY <1>3, <1>4, <1>5 DEF IInv

LEMMA IInvTouch == TypeOK /\ IInv /\ Touch => IInv'
<1> SUFFICES ASSUME TypeOK, IInv, Touch PROVE IInv'
  OBVIOUS
<1>1. CASE EditPassphrase \/ EditPin
  BY <1>1, IInvKept, EditEffect DEF EditPassphrase, EditPin, touchUnchanged, sdVars, mainVars,
     screenVars
<1>2. ASSUME NEW io \in IoResults, PassphraseOk(io) PROVE IInv'
  <2>1. UNCHANGED <<nv, pc, starting, sdCardInserted, view>> /\ view = "PASS"
    BY <1>2 DEF PassphraseOk, touchUnchanged, sdVars, mainVars
  <2>2. command' \in {command, CMD_FADE_OUT}
    BY <1>2 DEF PassphraseOk, StartCommand
  <2>3. g'.calib = g.calib
    BY <1>2 DEF PassphraseOk, TypeOK, TypePin, State
  <2> QED
    BY <2>1, <2>2, <2>3, IInvOk
<1>3. CASE PinOk
  <2>1. UNCHANGED <<pc, starting, sdCardInserted, view>> /\ view = "PIN"
    BY <1>3 DEF PinOk, touchUnchanged, sdVars, mainVars
  <2>2. command' \in {command, CMD_FADE_OUT}
    BY <1>3 DEF PinOk, PinAssigned, PinAccepted, PinRejected, LockedOut, StartCommand
  <2> QED
    BY <1>3, <2>1, <2>2, IInvOk, PinOkEffect
<1> QED
  BY <1>1, <1>2, <1>3 DEF Touch

\* A step of the main loop outside lcd_start_command.
LEMMA IInvMainWaits ==
  ASSUME TypeOK, IInv, UNCHANGED <<g, nv, view, command, starting, sdCardInserted>>,
         pc \notin {"load", "setCommand"}, pc' \notin {"load", "setCommand"},
         pc' \in {"debounce", "init", "compare"} => g.calib = CALIB_DONE
  PROVE  IInv'
<1>1. CalibrationInv'
  BY DEF IInv, CalibrationInv, UncalibratedViews, NoPassphraseYet, PointShown,
     CalibrationLeft, SavedCalibrated, CalibrationSaved, StoredPassphraseHasPin
<1>2. ScreenInv'
  BY DEF IInv, ScreenInv, CommandFitsView, MainStarting
<1>3. CardInv'
  BY DEF IInv, CardInv, CardChangePending, FadeOutPending, LostFadeOut, CardShown
<1> QED
  BY <1>1, <1>2, <1>3 DEF IInv

LEMMA IInvMain == TypeOK /\ IInv /\ Main => IInv'
<1> SUFFICES ASSUME TypeOK, IInv, Main PROVE IInv'
  OBVIOUS
<1>1. UNCHANGED <<nv, view>>
  BY DEF Main, SampleCalibPoint, PenReleased, Poll, Debounced, CardInitialised, Compare, LoadView,
     SetCommand, SetTimer, mainUnchanged
<1>2. CASE SampleCalibPoint
  <2>1. /\ UNCHANGED <<command, sdCardInserted>> /\ pc' = "load"
        /\ starting'.command = CMD_CALIB_POINT_FADE_OUT(g.calib)
        /\ g'.calib = CALIB_INIT /\ g'.passSet = g.passSet
    BY <1>2, CalibOnly DEF SampleCalibPoint, sdVars, TypeOK, TypeMain, StartCalls
  <2>2. /\ view = "CALIB" /\ command = NO_COMMAND /\ ~g.passSet
        /\ CMD_CALIB_POINT_FADE_OUT(g.calib) \in CalibCommands
    BY <1>2, CommandFacts DEF SampleCalibPoint, IInv, CalibrationInv, PointShown, NoPassphraseYet
  <2>3. CalibrationInv'
    BY <1>1, <2>1, <2>2, CommandFacts DEF IInv, CalibrationInv, UncalibratedViews, NoPassphraseYet,
       PointShown, CalibrationLeft, SavedCalibrated, CalibrationSaved, StoredPassphraseHasPin
  <2>4. ScreenInv'
    BY <1>1, <2>1, <2>2, CommandFacts DEF ScreenInv, CommandFitsView, MainStarting,
       StartingOther, Handled
  <2>5. CardInv'
    BY <1>1, <2>1, <2>2 DEF CardInv, CardChangePending, LostFadeOut, CardViews
  <2> QED
    BY <2>3, <2>4, <2>5 DEF IInv
<1>3. CASE PenReleased
  BY <1>1, <1>3, IInvMainWaits DEF PenReleased, sdVars
<1>4. CASE Poll
  BY <1>1, <1>4, IInvMainWaits DEF Poll, AtPoll
<1>5. CASE Debounced \/ CardInitialised
  BY <1>1, <1>5, IInvMainWaits DEF Debounced, CardInitialised, sdVars, IInv, ScreenInv, MainStarting
<1>6. CASE Compare
  <2>1. CASE newErr = lastErr
    BY <1>1, <1>6, <2>1, IInvMainWaits DEF Compare
  <2>2. CASE newErr # lastErr
    <3>1. /\ UNCHANGED <<g, command>> /\ pc = "compare" /\ pc' = "load"
          /\ starting'.command = CMD_FADE_OUT
      BY <1>6, <2>2 DEF Compare, TypeOK, TypeMain, StartCalls
    <3>2. CalibrationInv'
      BY <1>1, <3>1 DEF IInv, CalibrationInv, UncalibratedViews, NoPassphraseYet, PointShown,
         CalibrationLeft, SavedCalibrated, CalibrationSaved, StoredPassphraseHasPin
    <3>3. ScreenInv'
      BY <1>1, <3>1 DEF IInv, ScreenInv, CommandFitsView, MainStarting, StartingFadeOut
    <3>4. CardInv'
      BY <3>1 DEF CardInv, CardChangePending, FadeOutPending, LostFadeOut
    <3> QED
      BY <3>2, <3>3, <3>4 DEF IInv
  <2> QED
    BY <2>1, <2>2
<1>7. CASE LoadView
  <2>1. /\ UNCHANGED <<g, command, sdCardInserted>> /\ pc = "load" /\ pc' = "setCommand"
        /\ starting'.command = starting.command /\ starting'.view = view
    BY <1>7 DEF LoadView, sdVars, TypeOK, TypeMain, StartCalls
  <2>2. CalibrationInv'
    BY <1>1, <2>1 DEF IInv, CalibrationInv, UncalibratedViews, NoPassphraseYet, PointShown,
       CalibrationLeft, SavedCalibrated, CalibrationSaved, StoredPassphraseHasPin
  <2>3. ScreenInv'
    BY <1>1, <2>1 DEF IInv, ScreenInv, CommandFitsView, MainStarting, StartingFadeOut, StartingOther
  <2>4. CardInv'
    BY <1>1, <2>1 DEF IInv, CardInv, CardChangePending, FadeOutPending, LostFadeOut, CardShown,
       CardViews
  <2> QED
    BY <2>2, <2>3, <2>4 DEF IInv
<1>8. CASE SetCommand
  <2>1. UNCHANGED <<g, sdCardInserted>> /\ pc = "setCommand"
        /\ pc' \notin {"load", "setCommand", "debounce", "init", "compare"}
    BY <1>8 DEF SetCommand, sdVars, AfterStart
  <2>2. CASE Accepted
    <3>1. command' = starting.command
      BY <1>8, <2>2 DEF SetCommand
    <3>2. /\ Handled(view, starting.command)
          /\ g.calib \notin 1 .. N_CALIB_POINTS
          /\ view = "CALIB" => g.calib # CALIB_DONE
      BY <2>1, <2>2, CommandFacts DEF Accepted, IInv, CalibrationInv, ScreenInv, MainStarting,
         StartingFadeOut, StartingOther, Handled, FadeCommands, CalibrationLeft
    <3>3. CalibrationInv'
      BY <1>1, <2>1, <3>1, <3>2 DEF IInv, CalibrationInv, UncalibratedViews, NoPassphraseYet,
         PointShown, CalibrationLeft, SavedCalibrated, CalibrationSaved, StoredPassphraseHasPin
    <3>4. ScreenInv'
      BY <1>1, <2>1, <3>1, <3>2 DEF ScreenInv, CommandFitsView, MainStarting, Handled
    <3>5. CardInv'
      BY <1>1, <2>1, <3>1 DEF IInv, CardInv, CardChangePending, FadeOutPending, LostFadeOut,
         ScreenInv, MainStarting, StartingOther, CardViews
    <3> QED
      BY <3>3, <3>4, <3>5 DEF IInv
  <2>3. CASE ~Accepted
    <3>1. command' = command
      BY <1>8, <2>3 DEF SetCommand
    <3>2. CalibrationInv'
      BY <1>1, <2>1, <3>1 DEF IInv, CalibrationInv, UncalibratedViews, NoPassphraseYet,
         PointShown, CalibrationLeft, SavedCalibrated, CalibrationSaved, StoredPassphraseHasPin
    <3>3. ScreenInv'
      BY <1>1, <2>1, <3>1 DEF IInv, ScreenInv, CommandFitsView, MainStarting
    <3>4. starting.command = CMD_FADE_OUT => starting.view = "CALIB"
      BY <2>3, CommandFacts DEF Accepted, Handled, FadeCommands
    <3>5. CardInv'
      BY <1>1, <2>1, <3>1, <3>4 DEF IInv, CardInv, CardChangePending, FadeOutPending, LostFadeOut,
         CardShown, ScreenInv, MainStarting, StartingOther, CardViews
    <3> QED
      BY <3>2, <3>3, <3>5 DEF IInv
  <2> QED
    BY <2>2, <2>3
<1>9. CASE SetTimer
  <2>1. UNCHANGED <<g, command, sdCardInserted>> /\ pc = "setTimer"
        /\ pc' \notin {"load", "setCommand", "debounce", "init", "compare"}
    BY <1>9 DEF SetTimer, sdVars, AfterStart
  <2>2. CalibrationInv'
    BY <1>1, <2>1 DEF IInv, CalibrationInv, UncalibratedViews, NoPassphraseYet,
       PointShown, CalibrationLeft, SavedCalibrated, CalibrationSaved, StoredPassphraseHasPin
  <2>3. ScreenInv' /\ CardInv'
    BY <1>1, <2>1 DEF IInv, ScreenInv, CommandFitsView, MainStarting, CardInv, CardChangePending,
       FadeOutPending, LostFadeOut, CardShown
  <2> QED
    BY <2>2, <2>3 DEF IInv
<1> QED
  BY <1>2, <1>3, <1>4, <1>5, <1>6, <1>7, <1>8, <1>9 DEF Main

LEMMA IInvEnvironment == TypeOK /\ IInv /\ Environment => IInv'
<1> SUFFICES ASSUME TypeOK, IInv, Environment PROVE IInv'
  OBVIOUS
<1>1. CASE InsertCard \/ RemoveCard
  BY <1>1, IInvKept DEF InsertCard, RemoveCard, screenVars, sdVars, mainVars
<1>2. ASSUME NEW image \in {nv, Corrupt}, Boot(image) PROVE IInv'
  <2>1. /\ nv' = image /\ g' = ReadState(image)
        /\ view' = "LOGO" /\ command' = NO_COMMAND /\ sdCardInserted' = FALSE
        /\ pc' = "load" /\ starting'.command = CMD_FADE_IN
    BY <1>2 DEF Boot, FirstCommand, NotStarting
  <2>2. CASE image = Corrupt
    <3>1. g'.calib = CALIB_INIT /\ ~g'.passSet /\ nv' = Corrupt
      BY <2>1, <2>2 DEF ReadState, DefaultState
    <3>2. CalibrationInv'
      BY <2>1, <3>1, CommandFacts DEF CalibrationInv, UncalibratedViews, NoPassphraseYet,
         PointShown, CalibrationLeft, SavedCalibrated, CalibrationSaved, StoredPassphraseHasPin
    <3>3. ScreenInv'
      BY <2>1, <3>1, CommandFacts DEF ScreenInv, CommandFitsView, MainStarting, StartingOther,
         Handled, FadeCommands
    <3>4. CardInv'
      BY <2>1 DEF CardInv, CardChangePending, LostFadeOut, CardViews
    <3> QED
      BY <3>2, <3>3, <3>4 DEF IInv
  <2>3. CASE image # Corrupt
    <3>1. g' = nv /\ nv' = nv /\ nv # Corrupt
      BY <2>1, <2>3 DEF ReadState
    <3>2. nv.calib = CALIB_DONE /\ (nv.passSet => nv.pinSet)
      BY <3>1 DEF IInv, CalibrationInv, SavedCalibrated, StoredPassphraseHasPin
    <3>3. CalibrationInv'
      BY <2>1, <3>1, <3>2, CommandFacts DEF CalibrationInv, UncalibratedViews, NoPassphraseYet,
         PointShown, CalibrationLeft, SavedCalibrated, CalibrationSaved, StoredPassphraseHasPin
    <3>4. ScreenInv'
      BY <2>1, <3>1, <3>2, CommandFacts DEF ScreenInv, CommandFitsView, MainStarting,
         StartingOther, Handled, FadeCommands
    <3>5. CardInv'
      BY <2>1 DEF CardInv, CardChangePending, LostFadeOut, CardViews
    <3> QED
      BY <3>3, <3>4, <3>5 DEF IInv
  <2> QED
    BY <2>2, <2>3
<1> QED
  BY <1>1, <1>2 DEF Environment, PowerCycle, PowerCycleInWrite

LEMMA IInvInit == Init => IInv
<1> SUFFICES ASSUME Init PROVE IInv
  OBVIOUS
<1>1. /\ g.calib = CALIB_INIT /\ ~g.passSet /\ nv = Corrupt
      /\ view = "LOGO" /\ command = NO_COMMAND /\ sdCardInserted = FALSE
      /\ pc = "load" /\ starting.command = CMD_FADE_IN
  BY DEF Init, DefaultState, FirstCommand, NotStarting
<1>2. CalibrationInv
  BY <1>1, CommandFacts DEF CalibrationInv, UncalibratedViews, NoPassphraseYet,
     PointShown, CalibrationLeft, SavedCalibrated, CalibrationSaved, StoredPassphraseHasPin
<1>3. ScreenInv
  BY <1>1, CommandFacts DEF ScreenInv, CommandFitsView, MainStarting, StartingOther,
     Handled, FadeCommands
<1>4. CardInv
  BY <1>1 DEF CardInv, CardChangePending, LostFadeOut, CardViews
<1> QED
  BY <1>2, <1>3, <1>4 DEF IInv

LEMMA IInvAlways == Spec => []IInv
<1>1. IInv /\ UNCHANGED vars => IInv'
  <2> SUFFICES ASSUME IInv, UNCHANGED vars PROVE IInv'
    OBVIOUS
  <2> QED
    BY IInvKept DEF vars, screenVars, sdVars, mainVars
<1>2. TypeOK /\ IInv /\ [Next]_vars => IInv'
  BY <1>1, IInvTick, IInvTouch, IInvMain, IInvEnvironment DEF Next
<1> QED
  BY <1>2, IInvInit, TypeCorrect, PTL DEF Spec

-----------------------------------------------------------------------------
(* What it establishes.                                                     *)

\* main's lcd_start_command reads the view in one step and stores the command
\* in another; in no interleaving with SysTick is the stored command one that
\* the view then shown cannot finish.
THEOREM CommandAlwaysFits == Spec => []CommandFitsView
<1>1. IInv => CommandFitsView
  BY DEF IInv, ScreenInv
<1> QED
  BY <1>1, IInvAlways, PTL

\* A card that comes or goes is never forgotten: main's fade-out is under way
\* until set_next_view has looked at sd_card_inserted.
THEOREM CardChangeAlwaysPending == Spec => []CardChangePending
<1>1. IInv => CardChangePending
  BY DEF IInv, CardInv
<1> QED
  BY <1>1, IInvAlways, PTL

\* Wherever the power fails, the next boot finds a calibration that was done,
\* and in no image that any write_state leaves a passphrase that would let it
\* open the file and then have a new PIN assigned to it.
THEOREM FlashAlwaysConsistent == Spec => []FlashConsistent
<1>1. IInv => FlashConsistent
  BY DEF IInv, CalibrationInv, FlashConsistent
<1> QED
  BY <1>1, IInvAlways, PTL

-----------------------------------------------------------------------------
(* The lock.                                                                *)

\* A step but the end of a fade-out, a reset, and the steps that LockoutDurable
\* is about leaves the lock alone.
LEMMA LockKept ==
  ASSUME TypeOK, (Tick /\ ~FadedOut /\ ~CalibAccepted) \/ EditPassphrase \/ EditPin
                   \/ Main \/ InsertCard \/ RemoveCard \/ UNCHANGED vars
  PROVE  g'.passSet = g.passSet /\ UNCHANGED <<view, decryptOk, nv>>
<1>1. CASE Tick /\ ~FadedOut /\ ~CalibAccepted
  <2>1. ASSUME NEW i \in 1 .. N_CALIB_POINTS, CalibPointShown(i)
        PROVE  g'.passSet = g.passSet /\ UNCHANGED <<view, decryptOk, nv>>
    BY <2>1, CalibOnly DEF CalibPointShown, fileVars
  <2>2. CASE Animate \/ CalibLabelShown \/ CalibRejected \/ FadedIn
             \/ \E i \in 1 .. N_CALIB_POINTS : CalibPointHidden(i)
    BY <2>2 DEF Animate, CalibLabelShown, CalibRejected, FadedIn, CalibPointHidden,
       CompleteInto, fileVars
  <2> QED
    BY <1>1, <2>1, <2>2 DEF Tick
<1>2. CASE EditPassphrase \/ EditPin
  BY <1>2, EditEffect DEF EditPassphrase, EditPin, fileVars, screenVars
<1>3. CASE SampleCalibPoint
  BY <1>3, CalibOnly DEF SampleCalibPoint, mainUnchanged, fileVars
<1>4. CASE Main /\ ~SampleCalibPoint
  BY <1>4 DEF Main, PenReleased, Poll, Debounced, CardInitialised, Compare, LoadView,
     SetCommand, SetTimer, mainUnchanged, fileVars
<1>5. CASE InsertCard \/ RemoveCard \/ UNCHANGED vars
  BY <1>5 DEF InsertCard, RemoveCard, vars, fileVars, screenVars
<1> QED
  BY <1>1, <1>2, <1>3, <1>4, <1>5

\* set_next_view tries the stored passphrase only if there is one.
LEMMA NextViewLock ==
  ASSUME TypeOK, SetNextView
  PROVE  /\ g'.passSet => g.passSet
         /\ ~g.passSet /\ ~decryptOk => ~decryptOk'
         /\ view' = "PIN" => decryptOk'
<1>1. CASE CalibrationNeeded
  BY <1>1, CalibOnly DEF CalibrationNeeded, Show, fileVars
<1>2. CASE CardMissing \/ CardInvalid \/ \E io \in IoResults : FileMissing(io)
  BY <1>2 DEF CardMissing, CardInvalid, FileMissing, ShowTitle, Show, fileVars
<1>3. ASSUME NEW io \in IoResults, PassphraseNeeded(io)
      PROVE  ~g'.passSet /\ ~decryptOk' /\ view' = "PASS"
  BY <1>3 DEF PassphraseNeeded, Show, TypeOK, TypePin, State
<1>4. ASSUME NEW io \in IoResults,
             FormatBad(io) \/ PinUnassigned(io) \/ PinNeeded(io) \/ KeysShown(io)
      PROVE  g'.passSet = g.passSet /\ decryptOk' /\ (g.passSet \/ decryptOk)
  <2>1. Decrypted(io)
    BY <1>4 DEF FormatBad, PinUnassigned, PinNeeded, KeysShown, KeysSet
  <2>2. decryptOk' /\ (g.passSet \/ decryptOk)
    BY <2>1, Zenon DEF Decrypted, TriesStored
  <2>3. g' = g \/ g' = [g EXCEPT !.pin = <<>>]
    BY <1>4 DEF FormatBad, PinUnassigned, PinNeeded, KeysShown
  <2> QED
    BY <2>2, <2>3 DEF TypeOK, TypePin, State
<1> QED
  BY <1>1, <1>2, <1>3, <1>4 DEF SetNextView

LEMMA LockoutStep ==
  ASSUME TypeOK, IInv, PinViewLocked, [Next]_vars
  PROVE  /\ view = "PIN" /\ view' = "PIN" /\ decryptOk /\ ~decryptOk' => Locked'
         /\ Locked /\ ~Locked' => view = "PASS" /\ view' = "PASS" /\ ~PassphraseSaved'
         /\ ~decryptOk /\ ~PassphraseSaved => ~PassphraseSaved'
<1> USE DEF Locked, PassphraseSaved
<1> DEFINE Goal ==
      /\ view = "PIN" /\ view' = "PIN" /\ decryptOk /\ ~decryptOk' => Locked'
      /\ Locked /\ ~Locked' => view = "PASS" /\ view' = "PASS" /\ ~PassphraseSaved'
      /\ ~decryptOk /\ ~PassphraseSaved => ~PassphraseSaved'
<1>1. CASE FadedOut
  BY <1>1, NextViewLock DEF FadedOut
<1>2. CASE CalibAccepted
  <2>1. view = "CALIB" /\ ~g.passSet
    BY <1>2 DEF CalibAccepted, Completes, Handled, FadeCommands, CMD_FADE_IN, CMD_FADE_OUT,
       CMD_CALIB_POINT_FADE_OUT, N_CALIB_POINTS, IInv, CalibrationInv, NoPassphraseYet
  <2>2. ~g'.passSet /\ nv' = g' /\ UNCHANGED <<view, decryptOk>>
    BY <1>2, <2>1, CalibOnly DEF CalibAccepted, WriteState, fileVars
  <2> QED
    BY <2>1, <2>2
<1>3. ASSUME NEW io \in IoResults, PassphraseOk(io) PROVE Goal
  BY <1>3 DEF PassphraseOk
<1>4. CASE PinOk
  <2>1. view = "PIN" /\ view' = "PIN"
    BY <1>4 DEF PinOk
  <2>2. CASE nv' = nv /\ UNCHANGED <<g, decryptOk>>
    BY <2>1, <2>2
  <2>3. CASE nv' = g' /\ g'.passSet = g.passSet /\ UNCHANGED decryptOk
    <3>1. ~decryptOk => ~g.passSet
      BY <2>1 DEF PinViewLocked
    <3> QED
      BY <2>1, <2>3, <3>1
  <2>4. CASE nv' = g' /\ ~g'.passSet /\ ~decryptOk'
    BY <2>1, <2>4
  <2> QED
    BY <1>4, <2>2, <2>3, <2>4, PinOkEffect
<1>5. CASE PowerCycle \/ PowerCycleInWrite
  <2>1. /\ view' = "LOGO" /\ ~decryptOk'
        /\ nv' \in {nv, Corrupt} /\ g' = ReadState(nv')
    BY <1>5 DEF PowerCycle, PowerCycleInWrite, Boot
  <2>2. CASE nv' = Corrupt
    <3>1. ~g'.passSet
      BY <2>1, <2>2 DEF ReadState, DefaultState
    <3> QED
      BY <2>1, <2>2, <3>1
  <2>3. CASE nv' # Corrupt
    BY <2>1, <2>3 DEF ReadState
  <2> QED
    BY <2>2, <2>3
<1>6. CASE (Tick /\ ~FadedOut /\ ~CalibAccepted) \/ EditPassphrase \/ EditPin
             \/ Main \/ InsertCard \/ RemoveCard \/ UNCHANGED vars
  BY <1>6, LockKept
<1> QED
  BY <1>1, <1>2, <1>3, <1>4, <1>5, <1>6 DEF Next, Touch, Environment

\* With the last wrong PIN the device is locked, in memory and in flash; only
\* OK in the passphrase view can end that, whatever is touched, inserted or
\* switched off meanwhile; and before a file has been decrypted no write_state
\* takes a passphrase to the flash (lcd_pin_ok, lcd_passphrase_ok).
THEOREM LockoutAlwaysDurable == Spec => LockoutDurable
<1>1. TypeOK /\ IInv /\ PinViewLocked /\ [Next]_vars =>
        [/\ view = "PIN" /\ view' = "PIN" /\ decryptOk /\ ~decryptOk' => Locked'
         /\ Locked /\ ~Locked' => view = "PASS" /\ view' = "PASS" /\ ~PassphraseSaved'
         /\ ~decryptOk /\ ~PassphraseSaved => ~PassphraseSaved']_vars
  BY LockoutStep
<1> QED
  BY <1>1, TypeCorrect, IInvAlways, PinViewAlwaysLocked, PTL DEF Spec, LockoutDurable

-----------------------------------------------------------------------------
(* What Ui sees.                                                            *)

\* The file that is being shown was tried, found well formed, and is in the
\* list box: so no step of the PIN and key views reads another one.
TriedOnce == decryptOk => decryptAttempted

ListLoaded ==
  view \in {"PIN", "KEY"} /\ decryptOk =>
    lbxItems = "live" /\ items \in WellFormedCards /\ fileFormatValid

ListInv == TriedOnce /\ ListLoaded

\* What set_next_view does to the file's flags.
LEMMA KeysSetEffect ==
  ASSUME NEW io \in IoResults, KeysSet(io)
  PROVE  /\ decryptAttempted' /\ decryptOk'
         /\ lbxItems' = "live" /\ items' \in WellFormedCards /\ fileFormatValid'
BY DEF KeysSet, Decrypted

LEMMA NextViewEffect ==
  ASSUME SetNextView
  PROVE  \/ /\ view' = "CALIB"
            /\ UNCHANGED fileVars
         \/ /\ view' \in Titles \cup {"PASS"}
            /\ decryptOk' => decryptAttempted'
            /\ UNCHANGED <<items, lbxItems>>
         \/ /\ view' \in Titles
            /\ UNCHANGED fileVars
         \/ \E io \in IoResults : FormatBad(io)
         \/ /\ view' \in {"PIN", "KEY"}
            /\ \E io \in IoResults : KeysSet(io)
<1>1. CASE CalibrationNeeded
  BY <1>1 DEF CalibrationNeeded, Show
<1>2. CASE CardMissing
  BY <1>2 DEF CardMissing, ShowTitle, Show, Titles
<1>3. CASE CardInvalid
  BY <1>3 DEF CardInvalid, ShowTitle, Show, Titles
<1>4. ASSUME NEW io \in IoResults, FileMissing(io)
      PROVE  view' \in Titles /\ UNCHANGED fileVars
  BY <1>4 DEF FileMissing, ShowTitle, Show, Titles
<1>5. ASSUME NEW io \in IoResults, PassphraseNeeded(io)
      PROVE  view' = "PASS" /\ ~decryptOk' /\ UNCHANGED <<items, lbxItems>>
  BY <1>5 DEF PassphraseNeeded, Show
<1>6. ASSUME NEW io \in IoResults, PinUnassigned(io) \/ PinNeeded(io) \/ KeysShown(io)
      PROVE  view' \in {"PIN", "KEY"} /\ KeysSet(io)
  BY <1>6 DEF PinUnassigned, PinNeeded, KeysShown, Show
<1> QED
  BY <1>1, <1>2, <1>3, <1>4, <1>5, <1>6 DEF SetNextView

\* Of the touches, only a passphrase and a PIN that is wrong change them.
LEMMA TouchEffect ==
  ASSUME Touch
  PROVE  /\ view' = view
         /\ \/ view = "PASS" /\ \E io \in IoResults : PassphraseOk(io)
            \/ /\ UNCHANGED <<fileFormatValid, items, lbxItems>>
               /\ UNCHANGED <<decryptAttempted, decryptOk>> \/ ~decryptOk'
<1>1. CASE EditPassphrase \/ EditPin
  BY <1>1 DEF EditPassphrase, EditPin, fileVars, screenVars
<1>2. CASE \E io \in IoResults : PassphraseOk(io)
  BY <1>2 DEF PassphraseOk
<1>3. CASE PinOk
  BY <1>3 DEF PinOk, PinAssigned, PinAccepted, PinRejected, LockedOut
<1> QED
  BY <1>1, <1>2, <1>3 DEF Touch

\* Ticks but for the end of a fade-out, and the main loop, leave them alone.
LEMMA RestEffect ==
  ASSUME (Tick /\ ~FadedOut) \/ Main \/ InsertCard \/ RemoveCard \/ UNCHANGED vars
  PROVE  UNCHANGED <<view, decryptAttempted, decryptOk, fileFormatValid, items, lbxItems>>
<1>1. CASE Tick /\ ~FadedOut
  BY <1>1 DEF Tick, Animate, CalibLabelShown, CalibPointShown, CalibPointHidden, CalibRejected,
     CalibAccepted, FadedIn, CompleteInto, fileVars
<1>2. CASE Main
  BY <1>2 DEF Main, SampleCalibPoint, PenReleased, Poll, Debounced, CardInitialised, Compare,
     LoadView, SetCommand, SetTimer, mainUnchanged, fileVars
<1>3. CASE InsertCard \/ RemoveCard \/ UNCHANGED vars
  BY <1>3 DEF InsertCard, RemoveCard, vars, fileVars, screenVars
<1> QED
  BY <1>1, <1>2, <1>3

LEMMA BootEffect ==
  ASSUME PowerCycle \/ PowerCycleInWrite
  PROVE  view' = "LOGO" /\ ~decryptOk' /\ lbxItems' = "null"
BY DEF PowerCycle, PowerCycleInWrite, Boot

LEMMA ListStep == TypeOK /\ ListInv /\ [Next]_vars => ListInv'
<1> SUFFICES ASSUME TypeOK, ListInv, [Next]_vars PROVE ListInv'
  OBVIOUS
<1> USE DEF ListInv, TriedOnce, ListLoaded
<1>1. CASE FadedOut
  <2>1. ASSUME NEW io \in IoResults, FormatBad(io) PROVE ListInv'
    BY <2>1 DEF FormatBad, Decrypted, ShowTitle, Show
  <2>2. ASSUME NEW io \in IoResults, KeysSet(io) PROVE ListInv'
    BY <2>2, KeysSetEffect
  <2> QED
    BY <1>1, <2>1, <2>2, NextViewEffect DEF FadedOut, fileVars, Titles
<1>2. CASE Touch
  <2>1. ASSUME NEW io \in IoResults, PassphraseOk(io) PROVE ListInv'
    BY <2>1 DEF PassphraseOk
  <2> QED
    BY <1>2, <2>1, TouchEffect
<1>3. CASE PowerCycle \/ PowerCycleInWrite
  BY <1>3, BootEffect
<1>4. CASE (Tick /\ ~FadedOut) \/ Main \/ InsertCard \/ RemoveCard \/ UNCHANGED vars
  BY <1>4, RestEffect
<1> QED
  BY <1>1, <1>2, <1>3, <1>4 DEF Next, Environment

LEMMA ListAlways == Spec => []ListInv
<1>1. Init => ListInv
  BY DEF Init, ListInv, TriedOnce, ListLoaded
<1> QED
  BY <1>1, ListStep, TypeCorrect, PTL DEF Spec

\* The views that know the list are left without trying a passphrase.
LEMMA ListViewsTryNothing ==
  ASSUME KeyViewUnlocked, PinViewLocked, ListInv, view \in {"PIN", "KEY"}
  PROVE  /\ ~TriesStored
         /\ decryptOk => lbxItems = "live" /\ items \in WellFormedCards /\ fileFormatValid
BY DEF KeyViewUnlocked, PinViewLocked, ListInv, TriedOnce, ListLoaded, TriesStored

LEMMA ViewOf ==
  /\ view \in Titles \cup {"LOGO", "CALIB"} => UiView = "TITLE"
  /\ view \in {"PASS", "PIN", "KEY"} => UiView = view
  /\ UiView \in {"PIN", "KEY"} => view = UiView
BY DEF UiView, Titles

LEMMA ScreenKept ==
  ASSUME UNCHANGED <<view, items, lbxItems>>
  PROVE  UNCHANGED Shown!vars
BY Zenon DEF Shown!vars, UiView, UiList

\* A fade-out that ends shows a next view, with the list it may have.
LEMMA ScreenFadedOut ==
  ASSUME TypeOK, KeyViewUnlocked, PinViewLocked, ListInv, FadedOut
  PROVE  Shown!ShowNext
<1>1. SetNextView
  BY DEF FadedOut
<1>2. UiView \in {"TITLE", "PASS", "PIN", "KEY"}
  BY DEF UiView
\* To a title or the passphrase view, with the list box kept or emptied.
<1>3. ASSUME view' \in Titles \cup {"CALIB"} \/ (view' = "PASS" /\ UiView # "KEY"),
             (UiList' = UiList) \/ (UiList' = NoCard /\ UiView \notin {"PIN", "KEY"})
      PROVE  Shown!ShowNext
  <2>1. UiView' = "TITLE" \/ (UiView' = "PASS" /\ UiView # "KEY")
    BY <1>3 DEF UiView, Titles
  <2> QED
    BY <1>2, <1>3, <2>1 DEF Shown!ShowNext, Shown!NextViews, Shown!NextLists, Shown!Views,
       Shown!ListViews
\* To one of the views that know the list.
<1>4. ASSUME NEW v \in {"PIN", "KEY"}, view' = v, UiView = "KEY" => v = "KEY",
             UiList' \in WellFormedCards, UiView \in {"PIN", "KEY"} => UiList' = UiList
      PROVE  Shown!ShowNext
  <2>1. UiView' = v
    BY <1>4 DEF UiView
  <2> QED
    BY <1>2, <1>4, <2>1 DEF Shown!ShowNext, Shown!NextViews, Shown!NextLists, Shown!Views,
       Shown!ListViews
<1>5. items' = items /\ lbxItems' = lbxItems => UiList' = UiList
  BY DEF UiList
<1>6. UiView = "KEY" => view = "KEY"
  BY DEF UiView
<1>7. CASE /\ view' \in Titles \cup {"CALIB"}
           /\ UNCHANGED <<items, lbxItems>>
  BY <1>3, <1>5, <1>7
<1>8. CASE \E io \in IoResults : PassphraseNeeded(io)
  <2>1. view' = "PASS" /\ UNCHANGED <<items, lbxItems>>
    BY <1>8 DEF PassphraseNeeded, Show
  <2>2. view # "KEY"
    BY <1>8, ListViewsTryNothing DEF PassphraseNeeded, KeyViewUnlocked
  <2> QED
    BY <1>3, <1>5, <1>6, <2>1, <2>2
<1>9. ASSUME NEW io \in IoResults, FormatBad(io) PROVE Shown!ShowNext
  <2>1. view' \in Titles
    BY <1>9 DEF FormatBad, ShowTitle, Show, Titles
  <2>2. view \notin {"PIN", "KEY"}
    BY <1>9, ListViewsTryNothing DEF FormatBad, Decrypted
  <2>3. UiView \notin {"PIN", "KEY"}
    BY <2>2, ViewOf
  <2>4. CASE fileFormatValid \/ TriesStored
    <3>1. lbxItems' # "live"
      BY <1>9, <2>4 DEF FormatBad, LbxAfterDecrypt
    <3> QED
      BY <1>3, <2>1, <2>3, <3>1 DEF UiList
  <2>5. CASE ~fileFormatValid /\ ~TriesStored
    BY <1>3, <1>5, <1>9, <2>1, <2>3, <2>5 DEF FormatBad, Decrypted
  <2> QED
    BY <2>4, <2>5
<1>10. ASSUME NEW io \in IoResults, PinUnassigned(io) \/ PinNeeded(io) \/ KeysShown(io)
       PROVE  Shown!ShowNext
  <2>1. KeysSet(io)
    BY <1>10 DEF PinUnassigned, PinNeeded, KeysShown
  <2>2. UiList' = items' /\ UiList' \in WellFormedCards
    BY <2>1, KeysSetEffect DEF UiList
  <2>3. ASSUME view \in {"PIN", "KEY"} PROVE UiList' = UiList
    <3>1. ~TriesStored
      BY <2>3, ListViewsTryNothing
    <3>2. decryptOk /\ items' = items
      BY <2>1, <3>1 DEF KeysSet, Decrypted
    <3>3. lbxItems = "live"
      BY <2>3, <3>2, ListViewsTryNothing
    <3> QED
      BY <2>2, <3>2, <3>3 DEF UiList
  <2>4. CASE PinUnassigned(io) \/ PinNeeded(io)
    <3>1. view' = "PIN"
      BY <2>4 DEF PinUnassigned, PinNeeded, Show
    <3>2. view # "KEY"
      BY <2>4 DEF PinUnassigned, PinNeeded, VerifiedPinOk, KeyViewUnlocked
    <3> QED
      BY <1>4, <1>6, <2>2, <2>3, <3>1, <3>2, ViewOf
  <2>5. CASE KeysShown(io)
    <3>1. view' = "KEY"
      BY <2>5 DEF KeysShown, Show
    <3> QED
      BY <1>4, <2>2, <2>3, <3>1, ViewOf
  <2> QED
    BY <1>10, <2>4, <2>5
<1>11. CASE CalibrationNeeded \/ CardMissing \/ CardInvalid \/ \E io \in IoResults : FileMissing(io)
  BY <1>7, <1>11 DEF CalibrationNeeded, CardMissing, CardInvalid, FileMissing, ShowTitle, Show,
     Titles, fileVars
<1> QED
  BY <1>1, <1>8, <1>9, <1>10, <1>11 DEF SetNextView

LEMMA ScreenStep ==
  TypeOK /\ KeyViewUnlocked /\ PinViewLocked /\ ListInv /\ [Next]_vars
    => [Shown!Next]_(Shown!vars)
<1> SUFFICES ASSUME TypeOK, KeyViewUnlocked, PinViewLocked, ListInv, [Next]_vars
             PROVE  Shown!Next \/ UNCHANGED Shown!vars
  OBVIOUS
<1>1. CASE FadedOut
  BY <1>1, ScreenFadedOut DEF Shown!Next
<1>2. CASE Touch
  <2>1. view' = view
    BY <1>2, TouchEffect
  <2>2. CASE UNCHANGED <<items, lbxItems>>
    BY <2>1, <2>2, ScreenKept
  <2>3. ASSUME view = "PASS", NEW io \in IoResults, PassphraseOk(io), ~UNCHANGED <<items, lbxItems>>
        PROVE  Shown!FreeList
    <3>1. lbxItems' # "live"
      BY <2>3 DEF PassphraseOk, LbxAfterDecrypt
    <3>2. UiList' = NoCard /\ UiView = "PASS" /\ UiView' = "PASS"
      BY <2>1, <2>3, <3>1 DEF UiList, UiView
    <3> QED
      BY <3>2 DEF Shown!FreeList
  <2> QED
    BY <1>2, <2>2, <2>3, TouchEffect DEF Shown!Next
<1>3. CASE PowerCycle \/ PowerCycleInWrite
  <2>1. UiView' = "TITLE" /\ UiList' = NoCard
    BY <1>3, BootEffect DEF UiView, UiList
  <2> QED
    BY <2>1 DEF Shown!Next, Shown!Reset
<1>4. CASE (Tick /\ ~FadedOut) \/ Main \/ InsertCard \/ RemoveCard \/ UNCHANGED vars
  BY <1>4, RestEffect, ScreenKept
<1> QED
  BY <1>1, <1>2, <1>3, <1>4 DEF Next, Environment

\* The views follow each other, and the list box changes its list, only as the
\* animations and touches of ui.c take for granted, whatever cards come and go,
\* whatever is typed and whichever file accesses fail: main.c implements Screen.
THEOREM KeynjectorImplementsScreen == Spec => ImplementsScreen
<1>1. Init => Shown!Init
  BY DEF Init, Shown!Init, UiView, UiList
<1> QED
  BY <1>1, ScreenStep, TypeCorrect, KeyViewAlwaysUnlocked, PinViewAlwaysLocked, ListAlways, PTL
  DEF Spec, ImplementsScreen, Shown!Spec

=============================================================================
