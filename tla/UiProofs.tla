------------------------------ MODULE UiProofs ------------------------------
(***************************************************************************)
(* Proofs of the safety properties of Ui, for every screen, list and       *)
(* duration.                                                               *)
(*                                                                         *)
(* Every handler of the views is one of seven operators (TouchHandler).    *)
(* Each property is shown for those and for the tick; the pen's own steps  *)
(* change nothing that it speaks of.                                       *)
(***************************************************************************)
EXTENDS Ui, TLAPS

-----------------------------------------------------------------------------
(* Arithmetic.                                                              *)

LEMMA DivBounds ==
  ASSUME NEW a \in Nat, NEW d \in Nat \ {0}
  PROVE  a \div d \in Nat /\ (a \div d) * d <= a /\ a < (a \div d) * d + d
BY SMTT(30)

LEMMA MaxIntFacts ==
  ASSUME NEW a \in Int, NEW b \in Int
  PROVE  MaxInt(a, b) \in {a, b} /\ a <= MaxInt(a, b) /\ b <= MaxInt(a, b)
BY DEF MaxInt

LEMMA MinIntFacts ==
  ASSUME NEW a \in Int, NEW b \in Int
  PROVE  MinInt(a, b) \in {a, b} /\ MinInt(a, b) <= a /\ MinInt(a, b) <= b
BY DEF MinInt

LEMMA MaxOriginType == ASSUME nItems \in Nat PROVE MaxOrigin \in Nat
<1> DEFINE rows == LIST_HEIGHT \div ITEM_HEIGHT
<1>1. rows \in Nat
  BY DivBounds, SizeAssumption
<1> HIDE DEF rows
<1>2. (nItems - (rows - 2)) * ITEM_HEIGHT \in Int
  BY <1>1, SizeAssumption
<1> QED
  BY <1>2, MaxIntFacts DEF MaxOrigin, rows

\* The hit test of the list, and the row that lbx_render draws there.
LEMMA ItemAtFacts ==
  ASSUME NEW y \in Int, origin \in Nat, nItems \in Nat
  PROVE  /\ ItemAt(y) \in Nat \cup {NoItem}
         /\ ItemAt(y) # NoItem => /\ ItemTop(ItemAt(y), origin) <= y
                                  /\ y < ItemTop(ItemAt(y), origin) + ITEM_HEIGHT
<1> DEFINE selectedY == y - LIST_Y - ITEM_HEIGHT + origin
           item == selectedY \div ITEM_HEIGHT
<1>1. selectedY \in Int
  BY SizeAssumption
<1>2. CASE selectedY < 0 \/ item >= nItems
  BY <1>2 DEF ItemAt
<1>3. CASE selectedY >= 0 /\ item < nItems
  <2>1. item \in Nat /\ item * ITEM_HEIGHT <= selectedY /\ selectedY < item * ITEM_HEIGHT + ITEM_HEIGHT
    BY <1>1, <1>3, DivBounds, SizeAssumption
  <2>2. ItemAt(y) = item
    BY <1>1, <1>3, <2>1 DEF ItemAt
  <2> HIDE DEF item
  <2>3. (item + 1) * ITEM_HEIGHT = item * ITEM_HEIGHT + ITEM_HEIGHT
    BY <2>1, SizeAssumption
  <2>4. item * ITEM_HEIGHT \in Int
    BY <2>1, SizeAssumption
  <2> QED
    BY <2>1, <2>2, <2>3, <2>4, SizeAssumption DEF ItemTop
<1>4. selectedY >= 0 => item \in Nat
  BY <1>1, DivBounds, SizeAssumption
<1> QED
  BY <1>1, <1>2, <1>3, <1>4

LEMMA PageFacts == Page \in Nat
BY SizeAssumption DEF Page

-----------------------------------------------------------------------------
(* What each step may be.                                                   *)

\* A handler of the shown view, called with the sampled position.
TouchHandler ==
  \/ Ignored
  \/ Receiver(panel') = List /\ ListDown(panel')
  \/ ListMove(panel')
  \/ ListUp
  \/ \E b \in Buttons : Receiver(panel') = b /\ ButtonDown(b)
  \/ \E b \in Buttons : ButtonMove(b, panel') \/ ButtonUp(b)

\* A step that touches no control.
ControlsKept == UNCHANGED <<capture, inverted, listVars>>

LEMMA ProcessCases == Process => TouchHandler /\ UNCHANGED <<viewVars, nItems>>
BY DEF Process, Sample, Sampled, Determine, TouchHandler, MouseDown, MouseMove, MouseUp

LEMMA NextCases ==
  ASSUME [Next]_vars
  PROVE  \/ Process
         \/ Tick
         \/ ControlsKept /\ UNCHANGED nItems
BY DEF Next, Contact, Lift, PenHandler, Slide, BeginFadeOut, screenUnchanged, vars, ControlsKept

-----------------------------------------------------------------------------
(* Types.                                                                   *)

TypeTouchPanel ==
  /\ pen \in Points \cup {NoPen}
  /\ penState \in {"RELEASED", "DEBOUNCE", "PRESSED"}
  /\ pressAge \in Ages /\ releaseAge \in Ages
  /\ panel \in Points
  /\ sampling \in BOOLEAN

TypeView ==
  /\ view \in Views
  /\ fading \in 0 .. ANIMATION_TICKS
  /\ nItems \in ItemCounts \cup {0}

TypeControls ==
  /\ capture \in [Views -> Controls \cup {NoControl}]
  /\ inverted \in [Buttons -> BOOLEAN]

TypeList ==
  /\ origin \in Nat
  /\ selected \in Nat \cup {NoItem}
  /\ longPressTimer \in 0 .. LONG_PRESS_TICKS
  /\ mouseDownY \in Points \cup {0}
  /\ mouseDownOrigin \in Nat

LEMMA TypeParts == TypeOK <=> TypeTouchPanel /\ TypeView /\ TypeControls /\ TypeList
BY Zenon DEF TypeOK, TypeTouchPanel, TypeView, TypeControls, TypeList

LEMMA AgeTypes ==
  /\ 0 \in Ages /\ DEBOUNCE_TIME + 1 \in Ages
  /\ \A age \in Ages : Older(age) \in Ages
BY TimeAssumption DEF Ages, Older

LEMMA TypeInit == Init => TypeOK
<1> SUFFICES ASSUME Init PROVE TypeOK
  OBVIOUS
<1>1. TypeTouchPanel
  BY AgeTypes DEF Init, TypeTouchPanel
<1>2. TypeView
  BY TimeAssumption DEF Init, TypeView, Views
<1>3. TypeControls
  BY Zenon DEF Init, TypeControls
<1>4. TypeList
  BY TimeAssumption DEF Init, TypeList
<1> QED
  BY <1>1, <1>2, <1>3, <1>4, TypeParts

LEMMA HandledStateType ==
  ASSUME TypeTouchPanel, NEW p
  PROVE  /\ HandledState(p) \in {"RELEASED", "DEBOUNCE", "PRESSED"}
         /\ StateAfter(p) \in {"RELEASED", "DEBOUNCE", "PRESSED"}
BY DEF TypeTouchPanel, HandledState, StateAfter

LEMMA TypeTouchPanelStep == TypeTouchPanel /\ [Next]_vars => TypeTouchPanel'
<1> SUFFICES ASSUME TypeTouchPanel, [Next]_vars PROVE TypeTouchPanel'
  OBVIOUS
<1>1. ASSUME NEW p \in Points \cup {NoPen}, PenHandler(p) PROVE TypeTouchPanel'
  <2>1. pressAge' \in Ages /\ releaseAge' \in Ages
    BY <1>1, AgeTypes DEF PenHandler, TypeTouchPanel
  <2>2. pen' \in Points \cup {NoPen} /\ penState' \in {"RELEASED", "DEBOUNCE", "PRESSED"}
    BY <1>1, HandledStateType DEF PenHandler
  <2> QED
    BY <1>1, <2>1, <2>2 DEF PenHandler, TypeTouchPanel
<1>2. ASSUME NEW p \in Points, Slide(p) PROVE TypeTouchPanel'
  BY <1>2 DEF Slide, TypeTouchPanel
<1>3. CASE Sample
  <2>1. pressAge' \in Ages /\ releaseAge' \in Ages
    BY <1>3, AgeTypes DEF Sample, Sampled, TypeTouchPanel
  <2>2. penState' \in {"RELEASED", "DEBOUNCE", "PRESSED"}
    BY <1>3, HandledStateType DEF Sample, Sampled
  <2>3. pen' \in Points \cup {NoPen} /\ panel' \in Points /\ sampling' \in BOOLEAN
    BY <1>3 DEF Sample, Sampled, TypeTouchPanel, Pressed
  <2> QED
    BY <2>1, <2>2, <2>3 DEF TypeTouchPanel
<1>4. CASE Determine
  <2>1. pressAge' \in Ages /\ releaseAge' \in Ages
    BY <1>4, AgeTypes DEF Determine, AgesKept, TypeTouchPanel
  <2>2. penState' \in {"RELEASED", "DEBOUNCE", "PRESSED"}
    BY <1>4, HandledStateType DEF Determine
  <2>3. pen' \in Points \cup {NoPen} /\ panel' \in Points /\ sampling' \in BOOLEAN
    BY <1>4 DEF Determine, TypeTouchPanel
  <2> QED
    BY <2>1, <2>2, <2>3 DEF TypeTouchPanel
<1>5. CASE Tick \/ BeginFadeOut \/ UNCHANGED vars
  BY <1>5 DEF Tick, BeginFadeOut, vars, touchVars, TypeTouchPanel
<1> QED
  BY <1>1, <1>2, <1>3, <1>4, <1>5 DEF Next, Contact, Lift, Process

LEMMA TypeViewStep == TypeView /\ [Next]_vars => TypeView'
<1> SUFFICES ASSUME TypeView, [Next]_vars PROVE TypeView'
  OBVIOUS
<1> USE DEF TypeView
<1>1. CASE Tick
  <2>1. fading' \in 0 .. ANIMATION_TICKS
    BY <1>1, TimeAssumption DEF Tick, FadeTick
  <2>2. view' \in Views
    BY <1>1 DEF Tick, FadeTick, Shown!ShowNext, Shown!NextViews, Shown!Views, Views
  <2>3. nItems' \in ItemCounts \cup {0}
    BY <1>1 DEF Tick, FadeTick, Shown!ShowNext, Shown!NextLists
  <2> QED
    BY <2>1, <2>2, <2>3
<1>2. CASE BeginFadeOut
  BY <1>2, TimeAssumption DEF BeginFadeOut
<1>3. CASE Process
  BY <1>3, ProcessCases DEF viewVars
<1>4. CASE Contact \/ Lift \/ \E p \in Points : Slide(p)
  BY <1>4 DEF Contact, Lift, PenHandler, Slide, screenUnchanged, viewVars
<1>5. CASE UNCHANGED vars
  BY <1>5 DEF vars, viewVars
<1> QED
  BY <1>1, <1>2, <1>3, <1>4, <1>5 DEF Next

\* What the handlers do to the capture of the shown view.
LEMMA TypeControlsStep == TypeView /\ TypeControls /\ [Next]_vars => TypeControls'
<1> SUFFICES ASSUME TypeView, TypeControls, [Next]_vars PROVE TypeControls'
  OBVIOUS
<1> USE DEF TypeControls
<1>1. CASE Process
  <2>1. TouchHandler
    BY <1>1, ProcessCases
  <2>2. capture' \in [Views -> Controls \cup {NoControl}]
    BY <2>1, Zenon DEF TouchHandler, Ignored, ListDown, ListMove, ListUp, ButtonDown, ButtonMove,
       ButtonUp, Controls
  <2>3. inverted' \in [Buttons -> BOOLEAN]
    BY <2>1, Zenon DEF TouchHandler, Ignored, ListDown, ListMove, ListUp, ButtonDown, ButtonMove,
       ButtonUp, NotInverted
  <2> QED
    BY <2>2, <2>3
<1>2. CASE ControlsKept
  BY <1>2, Zenon DEF ControlsKept
<1>3. CASE Tick
  BY <1>3, Zenon DEF Tick
<1> QED
  BY <1>1, <1>2, <1>3, NextCases
\* Where a drag or a scroll button leaves the list.
LEMMA OriginTypes ==
  ASSUME TypeOK, NEW y \in Points
  PROVE  /\ MaxInt(0, MinInt(MaxOrigin, mouseDownOrigin - (y - mouseDownY))) \in Nat
         /\ PageUp \in Nat
         /\ PageDown \in Nat
<1>1. MaxOrigin \in Nat
  BY MaxOriginType, SizeAssumption DEF TypeOK
<1>2. /\ mouseDownOrigin - (y - mouseDownY) \in Int
      /\ origin - Page \in Int
      /\ origin + Page \in Nat
  BY PageFacts, SizeAssumption DEF TypeOK
<1> QED
  BY <1>1, <1>2, MaxIntFacts, MinIntFacts DEF PageUp, PageDown

LEMMA TypeListStep == TypeOK /\ [Next]_vars => TypeList'
<1> SUFFICES ASSUME TypeOK, [Next]_vars PROVE TypeList'
  OBVIOUS
<1> USE DEF TypeList
<1>0. TypeList
  BY TypeParts
<1>1. CASE Process
  <2>1. TouchHandler /\ panel' \in Points
    BY <1>1, ProcessCases, TypeParts, TypeTouchPanelStep DEF TypeTouchPanel
  <2>2. CASE ListDown(panel')
    <3>1. ItemAt(panel') \in Nat \cup {NoItem}
      BY <2>1, ItemAtFacts, SizeAssumption DEF TypeOK
    <3> QED
      BY <1>0, <2>1, <2>2, <3>1, TimeAssumption DEF ListDown, TimerAfterPress
  <2>3. CASE ListMove(panel')
    BY <1>0, <2>1, <2>3, OriginTypes DEF ListMove
  <2>4. CASE ListUp
    BY <1>0, <2>4, TimeAssumption DEF ListUp
  <2>5. ASSUME NEW b \in Buttons, ButtonUp(b) PROVE TypeList'
    BY <1>0, <2>1, <2>5, OriginTypes DEF ButtonUp, Scroll, listVars
  <2>6. CASE Ignored \/ \E b \in Buttons : ButtonDown(b) \/ ButtonMove(b, panel')
    BY <1>0, <2>6 DEF Ignored, ButtonDown, ButtonMove, listVars
  <2> QED
    BY <2>1, <2>2, <2>3, <2>4, <2>5, <2>6 DEF TouchHandler
<1>2. CASE ControlsKept
  BY <1>0, <1>2 DEF ControlsKept, listVars
<1>3. CASE Tick
  <2>1. /\ selected' \in Nat \cup {NoItem}
        /\ longPressTimer' \in 0 .. LONG_PRESS_TICKS
    BY <1>0, <1>3, TimeAssumption DEF Tick, ListTick, ListTicking
  <2> QED
    BY <1>0, <1>3, <2>1 DEF Tick
<1> QED
  BY <1>1, <1>2, <1>3, NextCases

\* Every variable keeps its type; no scroll goes above the first item.
THEOREM UiTypeCorrect == Spec => []TypeOK
<1>1. TypeOK /\ [Next]_vars => TypeOK'
  <2> SUFFICES ASSUME TypeOK, [Next]_vars PROVE TypeOK'
    OBVIOUS
  <2>1. TypeTouchPanel' /\ TypeView' /\ TypeControls' /\ TypeList'
    BY TypeParts, TypeTouchPanelStep, TypeViewStep, TypeControlsStep, TypeListStep
  <2> QED
    BY <2>1, Zenon DEF TypeOK, TypeTouchPanel, TypeView, TypeControls, TypeList
<1> QED
  BY TypeInit, <1>1, PTL DEF Spec

-----------------------------------------------------------------------------
(* The list's timer and the item under the pen.                             *)

LEMMA SelectedTimedStep == TypeOK /\ SelectedTimed /\ [Next]_vars => SelectedTimed'
<1> SUFFICES ASSUME TypeOK, SelectedTimed, [Next]_vars PROVE SelectedTimed'
  OBVIOUS
<1> USE DEF SelectedTimed
<1>1. CASE Process
  BY <1>1, ProcessCases, TimeAssumption DEF TouchHandler, Ignored, ListDown, ListMove, ListUp,
     ButtonDown, ButtonMove, ButtonUp, Scroll, TimerAfterPress, listVars
<1>2. CASE Tick
  BY <1>2 DEF Tick, ListTick, ListTicking, LongPress, TypeOK
<1>3. CASE ControlsKept
  BY <1>3 DEF ControlsKept, listVars
<1> QED
  BY <1>1, <1>2, <1>3, NextCases

\* A selected item always has time left until it is typed (lbx_mouse_down
\* starts the timer, and lbx_mouse_up stops it with the selection).
THEOREM SelectedAlwaysTimed == Spec => []SelectedTimed
<1>1. Init => SelectedTimed
  BY DEF Init, SelectedTimed
<1> QED
  BY <1>1, SelectedTimedStep, UiTypeCorrect, PTL DEF Spec

LEMMA SelectedUnderPressStep ==
  TypeOK /\ SelectedUnderPress /\ [Next]_vars => SelectedUnderPress'
<1> SUFFICES ASSUME TypeOK, SelectedUnderPress, [Next]_vars PROVE SelectedUnderPress'
  OBVIOUS
\* A selection that is kept or dropped.
<1>1. ASSUME selected' \in {selected, NoItem}, UNCHANGED <<mouseDownY, mouseDownOrigin>>
      PROVE  SelectedUnderPress'
  BY <1>1 DEF SelectedUnderPress, ItemTop
<1>2. CASE Process
  <2>1. TouchHandler /\ panel' \in Points
    BY <1>2, ProcessCases, TypeParts, TypeTouchPanelStep DEF TypeTouchPanel
  <2>2. CASE ListDown(panel')
    <3>1. /\ selected' = ItemAt(panel')
          /\ mouseDownY' = panel'
          /\ mouseDownOrigin' = origin
      BY <2>2 DEF ListDown
    <3>2. selected' # NoItem => /\ ItemTop(selected', origin) <= panel'
                                /\ panel' < ItemTop(selected', origin) + ITEM_HEIGHT
      BY <2>1, <3>1, ItemAtFacts, SizeAssumption DEF TypeOK
    <3> QED
      BY <3>1, <3>2 DEF SelectedUnderPress, ItemTop
  <2>3. CASE ListMove(panel') \/ ListUp
    BY <1>1, <2>3 DEF ListMove, ListUp
  <2>4. CASE Ignored \/ \E b \in Buttons : ButtonDown(b) \/ ButtonMove(b, panel') \/ ButtonUp(b)
    BY <1>1, <2>4 DEF Ignored, ButtonDown, ButtonMove, ButtonUp, Scroll, listVars
  <2> QED
    BY <2>1, <2>2, <2>3, <2>4 DEF TouchHandler
<1>3. CASE Tick
  BY <1>1, <1>3 DEF Tick, ListTick
<1>4. CASE ControlsKept
  BY <1>1, <1>4 DEF ControlsKept, listVars
<1> QED
  BY <1>2, <1>3, <1>4, NextCases

\* The hit test of lbx_mouse_down and the layout of lbx_render agree on
\* every screen and at every scroll position: the item selected is the one
\* that was drawn under the pen.
THEOREM SelectedAlwaysUnderPress == Spec => []SelectedUnderPress
<1>1. Init => SelectedUnderPress
  BY DEF Init, SelectedUnderPress
<1> QED
  BY <1>1, SelectedUnderPressStep, UiTypeCorrect, PTL DEF Spec

-----------------------------------------------------------------------------
(* The scroll position.                                                     *)

LEMMA ScrollStep ==
  TypeOK /\ [Next]_vars => [origin <= MaxOrigin /\ nItems' = nItems => origin' <= MaxOrigin]_vars
<1> SUFFICES ASSUME TypeOK, [Next]_vars, origin <= MaxOrigin PROVE origin' <= MaxOrigin
  OBVIOUS
<1>1. MaxOrigin \in Nat /\ origin \in Nat
  BY MaxOriginType, SizeAssumption DEF TypeOK
<1> HIDE DEF MaxOrigin
<1>2. CASE Process
  <2>1. TouchHandler /\ panel' \in Points
    BY <1>2, ProcessCases, TypeParts, TypeTouchPanelStep DEF TypeTouchPanel
  <2>2. CASE ListMove(panel')
    <3>1. mouseDownOrigin - (panel' - mouseDownY) \in Int
      BY <2>1, SizeAssumption DEF TypeOK
    <3> QED
      BY <1>1, <2>2, <3>1, MaxIntFacts, MinIntFacts DEF ListMove
  <2>3. PageUp <= MaxOrigin /\ PageDown <= MaxOrigin
    BY <1>1, PageFacts, MaxIntFacts, MinIntFacts DEF PageUp, PageDown
  <2>4. ASSUME NEW b \in Buttons, ButtonUp(b) PROVE origin' <= MaxOrigin
    BY <2>3, <2>4 DEF ButtonUp, Scroll, listVars
  <2>5. CASE Ignored \/ ListDown(panel') \/ ListUp
             \/ \E b \in Buttons : ButtonDown(b) \/ ButtonMove(b, panel')
    BY <2>5 DEF Ignored, ListDown, ListUp, ButtonDown, ButtonMove, listVars
  <2> QED
    BY <2>1, <2>2, <2>4, <2>5 DEF TouchHandler
<1>3. CASE Tick \/ ControlsKept
  BY <1>3 DEF Tick, ControlsKept, listVars
<1> QED
  BY <1>2, <1>3, NextCases

\* lbx_mouse_move and the clicks of the two scroll buttons clamp the scroll
\* position in different orders; none of them, and nothing else, takes a
\* list that is within its range out of it.
THEOREM ScrollAlwaysStaysInRange == Spec => ScrollStaysInRange
BY ScrollStep, UiTypeCorrect, PTL DEF Spec, ScrollStaysInRange

-----------------------------------------------------------------------------
(* The capture.  HighlightCaptured is inductive only with the fact that     *)
(* the list captures the pen in the key view alone.                         *)

CaptureInv ==
  /\ \A v \in Views : capture[v] = List => v = "KEY"
  /\ HighlightCaptured

\* A press goes to the capturing control if there is one.
LEMMA ReceiverFacts ==
  ASSUME TypeOK, NEW c \in Controls, NEW p \in Points, Receiver(p) = c
  PROVE  /\ capture[view] \in {c, NoControl}
         /\ capture[view] = c \/ At[view][p] = c
BY Zenon DEF Receiver

LEMMA CapturePress ==
  ASSUME TypeOK, CaptureInv, NEW c \in Controls, NEW p \in Points, Receiver(p) = c,
         capture' = [capture EXCEPT ![view] = c]
  PROVE  /\ \A v \in Views : capture'[v] = List => v = "KEY"
         /\ \A b \in Buttons : inverted[b] => \E v \in Views : capture'[v] = b
         /\ c = List => capture'["KEY"] = List
         /\ capture["KEY"] = List => capture'["KEY"] = List
         /\ capture'[view] = c
<1>1. view \in Views /\ capture \in [Views -> Controls \cup {NoControl}] /\ "KEY" \in Views
  BY Zenon DEF TypeOK, Views
<1>2. capture[view] \in {c, NoControl} /\ (capture[view] = c \/ At[view][p] = c)
  BY ReceiverFacts
<1>3. c = List => view = "KEY"
  BY <1>1, <1>2, ControlAssumption DEF CaptureInv
<1>4. capture'[view] = c /\ \A v \in Views : v # view => capture'[v] = capture[v]
  BY <1>1
<1>5. \A b \in Buttons : inverted[b] => \E v \in Views : capture'[v] = b
  <2> SUFFICES ASSUME NEW b \in Buttons, inverted[b] PROVE \E v \in Views : capture'[v] = b
    OBVIOUS
  <2>1. PICK v \in Views : capture[v] = b
    BY Zenon DEF CaptureInv, HighlightCaptured
  <2>2. b # NoControl
    BY ControlAssumption DEF Controls
  <2> QED
    BY <1>1, <1>2, <1>4, <2>1, <2>2
<1>6. NoControl # List
  BY ControlAssumption DEF Controls
<1> QED
  BY <1>1, <1>2, <1>3, <1>4, <1>5, <1>6, Zenon DEF CaptureInv

LEMMA CaptureRelease ==
  ASSUME TypeOK, CaptureInv, NEW c \in Controls, capture[view] = c,
         capture' = [capture EXCEPT ![view] = NoControl]
  PROVE  /\ \A v \in Views : capture'[v] = List => v = "KEY"
         /\ \A b \in Buttons : inverted[b] /\ b # c => \E v \in Views : capture'[v] = b
         /\ c # List /\ capture["KEY"] = List => capture'["KEY"] = List
<1>1. view \in Views /\ capture \in [Views -> Controls \cup {NoControl}] /\ "KEY" \in Views
  BY Zenon DEF TypeOK, Views
<1>2. capture'[view] = NoControl /\ \A v \in Views : v # view => capture'[v] = capture[v]
  BY <1>1
<1>3. \A b \in Buttons : inverted[b] /\ b # c => \E v \in Views : capture'[v] = b
  BY <1>1, <1>2, Zenon DEF CaptureInv, HighlightCaptured
<1>4. NoControl # List
  BY ControlAssumption DEF Controls
<1> QED
  BY <1>1, <1>2, <1>3, <1>4, Zenon DEF CaptureInv

LEMMA CaptureStep == TypeOK /\ CaptureInv /\ [Next]_vars => CaptureInv'
<1> SUFFICES ASSUME TypeOK, CaptureInv, [Next]_vars PROVE CaptureInv'
  OBVIOUS
<1>1. ASSUME UNCHANGED <<capture, inverted>>, selected' \in {selected, NoItem}
      PROVE  CaptureInv'
  BY <1>1, Zenon DEF CaptureInv, HighlightCaptured
<1>2. CASE Process
  <2>1. TouchHandler /\ panel' \in Points
    BY <1>2, ProcessCases, TypeParts, TypeTouchPanelStep DEF TypeTouchPanel
  <2>2. CASE Receiver(panel') = List /\ ListDown(panel')
    <3>1. capture' = [capture EXCEPT ![view] = List] /\ UNCHANGED inverted
      BY <2>2, Zenon DEF ListDown
    <3>2. /\ \A v \in Views : capture'[v] = List => v = "KEY"
          /\ \A b \in Buttons : inverted[b] => \E v \in Views : capture'[v] = b
          /\ capture'["KEY"] = List
      BY <2>1, <2>2, <3>1, CapturePress DEF Controls
    <3> QED
      BY <3>1, <3>2, Zenon DEF CaptureInv, HighlightCaptured
  <2>3. CASE ListUp
    <3>1. /\ capture[view] = List /\ capture' = [capture EXCEPT ![view] = NoControl]
          /\ UNCHANGED inverted /\ selected' = NoItem
      BY <2>3, Zenon DEF ListUp
    <3>2. /\ \A v \in Views : capture'[v] = List => v = "KEY"
          /\ \A b \in Buttons : inverted[b] /\ b # List => \E v \in Views : capture'[v] = b
      BY <3>1, CaptureRelease DEF Controls
    <3>3. \A b \in Buttons : b # List
      BY ControlAssumption
    <3> QED
      BY <3>1, <3>2, <3>3, Zenon DEF CaptureInv, HighlightCaptured
  <2>4. ASSUME NEW b \in Buttons, Receiver(panel') = b, ButtonDown(b) PROVE CaptureInv'
    <3>1. /\ inverted' = [inverted EXCEPT ![b] = TRUE]
          /\ capture' = [capture EXCEPT ![view] = b]
          /\ UNCHANGED selected
      BY <2>4, Zenon DEF ButtonDown, listVars
    <3>2. /\ \A v \in Views : capture'[v] = List => v = "KEY"
          /\ \A d \in Buttons : inverted[d] => \E v \in Views : capture'[v] = d
          /\ capture["KEY"] = List => capture'["KEY"] = List
          /\ capture'[view] = b
      BY <2>1, <2>4, <3>1, CapturePress DEF Controls
    <3>3. view \in Views /\ inverted \in [Buttons -> BOOLEAN]
      BY Zenon DEF TypeOK
    <3> QED
      BY <3>1, <3>2, <3>3, Zenon DEF CaptureInv, HighlightCaptured
  <2>5. ASSUME NEW b \in Buttons, ButtonMove(b, panel') PROVE CaptureInv'
    <3>1. /\ capture[view] = b /\ UNCHANGED <<capture, selected>>
          /\ inverted' = [inverted EXCEPT ![b] = (At[view][panel'] = b)]
      BY <2>5, Zenon DEF ButtonMove, listVars
    <3>2. view \in Views /\ inverted \in [Buttons -> BOOLEAN]
      BY Zenon DEF TypeOK
    <3> QED
      BY <3>1, <3>2, Zenon DEF CaptureInv, HighlightCaptured
  <2>6. ASSUME NEW b \in Buttons, ButtonUp(b) PROVE CaptureInv'
    <3>1. /\ capture[view] = b /\ capture' = [capture EXCEPT ![view] = NoControl]
          /\ inverted' = [inverted EXCEPT ![b] = FALSE] /\ UNCHANGED selected
      BY <2>6, Zenon DEF ButtonUp, NotInverted, Scroll, listVars
    <3>2. b # List
      BY ControlAssumption
    <3>3. /\ \A v \in Views : capture'[v] = List => v = "KEY"
          /\ \A d \in Buttons : inverted[d] /\ d # b => \E v \in Views : capture'[v] = d
          /\ capture["KEY"] = List => capture'["KEY"] = List
      BY <3>1, <3>2, CaptureRelease DEF Controls
    <3>4. inverted \in [Buttons -> BOOLEAN]
      BY Zenon DEF TypeOK
    <3> QED
      BY <3>1, <3>3, <3>4, Zenon DEF CaptureInv, HighlightCaptured
  <2>7. CASE Ignored \/ ListMove(panel')
    BY <1>1, <2>7, Zenon DEF Ignored, ListMove, listVars
  <2> QED
    BY <2>1, <2>2, <2>3, <2>4, <2>5, <2>6, <2>7, Zenon DEF TouchHandler
<1>3. CASE Tick
  BY <1>1, <1>3, Zenon DEF Tick, ListTick
<1>4. CASE ControlsKept
  BY <1>1, <1>4, Zenon DEF ControlsKept, listVars
<1> QED
  BY <1>2, <1>3, <1>4, NextCases

\* Whatever presses, drags, releases and changes of view follow each other,
\* what is painted as held still holds the pen (btn_mouse_down and
\* lbx_mouse_down set both, and only the capturing control's mouse_up ends
\* them).
THEOREM HighlightAlwaysCaptured == Spec => []HighlightCaptured
<1>1. Init => CaptureInv
  <2> SUFFICES ASSUME Init PROVE CaptureInv
    OBVIOUS
  <2>1. NoControl # List
    BY ControlAssumption DEF Controls
  <2> QED
    BY <2>1, Zenon DEF Init, CaptureInv, HighlightCaptured
<1>2. CaptureInv => HighlightCaptured
  BY DEF CaptureInv
<1> QED
  BY <1>1, <1>2, CaptureStep, UiTypeCorrect, PTL DEF Spec
=============================================================================
