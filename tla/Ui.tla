--------------------------------- MODULE Ui ---------------------------------
(***************************************************************************)
(* From the pen to the views: the touch panel driver (rtouch.c), the view  *)
(* framework and the list of keys (ui.c), once the panel is calibrated.    *)
(*                                                                         *)
(* Two interrupts share this state.  SysTick samples the panel every 10 ms *)
(* and hands events to the shown view, and ticks that view every 50 ms;    *)
(* the relative rate of the two is left open.  The pen interrupt starts a  *)
(* debounce.  Its priority is higher (board_init): it may come between any *)
(* two accesses of rtouch_process, which is two steps here for that, each  *)
(* of which the pen may interrupt.                                         *)
(*                                                                         *)
(* The screen is its vertical axis: the list spans the width of the        *)
(* screen and nothing in list or buttons depends on x once a control is    *)
(* found.  What chooses the next view (module Keynjector) is left open     *)
(* too: a fade-out may begin at any time, and ends in a view and with a    *)
(* list that may follow (module Screen).                                   *)
(***************************************************************************)
EXTENDS Integers

CONSTANTS
  Points,            \* the heights at which the pen can touch
  Buttons,           \* controls with the btn_mouse_* handlers
  List,              \* key_lbx, the control with the lbx_mouse_* handlers
  NoControl,         \* no control, or one without handlers
  At,                \* At[v][p]: what view v has at height p
  NoPen,             \* the pen is off the panel
  POINTS_MAX_ERROR,  \* moves up to this length are not reported (10)
  DEBOUNCE_TIME,     \* samples to wait for a steady contact (6)
  LIST_Y,            \* key_lbx.y (10)
  LIST_HEIGHT,       \* key_lbx.height (250)
  ITEM_HEIGHT,       \* LBX_ITEM_HEIGHT (30)
  LONG_PRESS_TICKS,  \* ticks until a held item is typed (20)
  ANIMATION_TICKS,   \* ticks of a fade-out (10)
  ItemCounts,        \* the numbers of items key files can have
  Up, Down           \* the scroll buttons of the key view

Views == {"TITLE", "PASS", "PIN", "KEY"}
Controls == Buttons \cup {List}
NoItem == -1

ASSUME ControlAssumption ==
  /\ List \notin Buttons
  /\ NoControl \notin Controls
  /\ {Up, Down} \subseteq Buttons
  /\ At \in [Views -> [Points -> Controls \cup {NoControl}]]
  /\ \A v \in Views : \A p \in Points : At[v][p] = List => v = "KEY"
  /\ \A v, w \in Views : \A p, q \in Points :
       At[v][p] \in Buttons /\ At[v][p] = At[w][q] => v = w

ASSUME SizeAssumption ==
  /\ Points \subseteq Int
  /\ NoPen \notin Points
  /\ LIST_Y \in Nat
  /\ ITEM_HEIGHT \in Nat \ {0}
  /\ LIST_HEIGHT \in Nat
  /\ LIST_HEIGHT >= ITEM_HEIGHT
  /\ ItemCounts \subseteq Nat

ASSUME TimeAssumption ==
  /\ POINTS_MAX_ERROR \in Nat
  /\ DEBOUNCE_TIME \in Nat
  /\ LONG_PRESS_TICKS \in Nat \ {0}
  /\ ANIMATION_TICKS \in Nat \ {0}

VARIABLES
  pen,          \* where the pen is
  penState,     \* pen_state
  pressAge,     \* g_ul_timestamp - g_ul_timepress
  releaseAge,   \* g_ul_timestamp - g_ul_timerelease
  panel,        \* event.panel, the last sampled position
  sampling,     \* rtouch_process is between its two readings of the pen
  view,         \* current_view
  fading,       \* ticks left of a fade-out, 0 if there is none
  capture,      \* capturing_control of every view
  inverted,     \* inverted of every button
  origin, selected, longPressTimer,     \* key_lbx
  mouseDownY, mouseDownOrigin,
  nItems

\* What main.c promises of the view and the list (Keynjector implements it).
Shown == INSTANCE Screen WITH Lists <- ItemCounts, NoList <- 0, list <- nItems

touchVars == <<pen, penState, pressAge, releaseAge, panel, sampling>>
viewVars == <<view, fading>>
listVars == <<origin, selected, longPressTimer, mouseDownY, mouseDownOrigin>>
vars == <<touchVars, viewVars, capture, inverted, listVars, nItems>>

\* Ages are only compared with DEBOUNCE_TIME, and are not followed past it.
Ages == 0 .. DEBOUNCE_TIME + 1
Older(age) == IF age > DEBOUNCE_TIME THEN age ELSE age + 1

Pressed == pen # NoPen

MaxInt(a, b) == IF a > b THEN a ELSE b
MinInt(a, b) == IF a < b THEN a ELSE b

-----------------------------------------------------------------------------
(* The list of keys.                                                        *)

\* Scrolling stops where the last item is two rows above the bottom.
MaxOrigin == MaxInt(0, (nItems - (LIST_HEIGHT \div ITEM_HEIGHT - 2)) * ITEM_HEIGHT)

\* lbx_render draws item i here, below a margin of one row that scrolls along.
ItemTop(i, o) == LIST_Y + (i + 1) * ITEM_HEIGHT - o

\* lbx_mouse_down's hit test.  The mutant ignores the margin.
ItemAtWithoutMargin(y) ==
  LET selectedY == y - LIST_Y + origin
      item == selectedY \div ITEM_HEIGHT
  IN IF selectedY < 0 \/ item >= nItems THEN NoItem ELSE item

ItemAt(y) ==
  LET selectedY == y - LIST_Y - ITEM_HEIGHT + origin
      item == selectedY \div ITEM_HEIGHT
  IN IF selectedY < 0 \/ item >= nItems THEN NoItem ELSE item

\* lbx_mouse_down's timer.  The mutant does not start it.
TimerNotStarted(item) == longPressTimer
TimerAfterPress(item) == IF item = NoItem THEN longPressTimer ELSE LONG_PRESS_TICKS

ListDown(y) ==
  /\ mouseDownY' = y
  /\ mouseDownOrigin' = origin
  /\ selected' = ItemAt(y)
  /\ longPressTimer' = TimerAfterPress(selected')
  /\ capture' = [capture EXCEPT ![view] = List]
  /\ UNCHANGED <<origin, inverted>>

\* lbx_mouse_up: key_lbx has no click handler.
ListUp ==
  /\ capture[view] = List
  /\ capture' = [capture EXCEPT ![view] = NoControl]
  /\ selected' = NoItem
  /\ longPressTimer' = 0
  /\ UNCHANGED <<origin, mouseDownY, mouseDownOrigin, inverted>>

Distance(a, b) == MaxInt(a - b, b - a)

ListMove(y) ==
  /\ capture[view] = List
  /\ selected' = IF Distance(y, mouseDownY) > ITEM_HEIGHT \div 2 THEN NoItem ELSE selected
  /\ origin' = IF y = mouseDownY THEN origin
               ELSE MaxInt(0, MinInt(MaxOrigin, mouseDownOrigin - (y - mouseDownY)))
  /\ UNCHANGED <<longPressTimer, mouseDownY, mouseDownOrigin, capture, inverted>>

\* A page is the list's height less a row.  The mutants do not stop at the
\* ends of the list.
Page == LIST_HEIGHT - ITEM_HEIGHT
PageUpUnlimited == origin - Page
PageUp == MaxInt(0, origin - Page)

PageDownUnlimited == origin + Page
PageDown == MinInt(MaxOrigin, origin + Page)

-----------------------------------------------------------------------------
(* Buttons.                                                                 *)

ButtonDown(b) ==
  /\ inverted' = [inverted EXCEPT ![b] = TRUE]
  /\ capture' = [capture EXCEPT ![view] = b]
  /\ UNCHANGED listVars

ButtonMove(b, p) ==
  /\ capture[view] = b
  /\ inverted' = [inverted EXCEPT ![b] = (At[view][p] = b)]
  /\ UNCHANGED <<capture, listVars>>

\* The click handlers of the scroll buttons.  Those of the other views start
\* a fade-out (BeginFadeOut) or edit a text (TextEntry).
Scroll(b) ==
  /\ origin' = CASE b = Up -> PageUp
                 [] b = Down -> PageDown
                 [] OTHER -> origin
  /\ UNCHANGED <<selected, longPressTimer, mouseDownY, mouseDownOrigin>>

\* btn_mouse_up's new inverted.  The mutant leaves the button painted.
StillInverted(b) == inverted
NotInverted(b) == [inverted EXCEPT ![b] = FALSE]

ButtonUp(b) ==
  /\ capture[view] = b
  /\ capture' = [capture EXCEPT ![view] = NoControl]
  /\ inverted' = NotInverted(b)
  /\ IF inverted[b] THEN Scroll(b) ELSE UNCHANGED listVars

-----------------------------------------------------------------------------
(* Views: get_receiver and the view_mouse_* handlers.                       *)

Receiver(p) == IF capture[view] # NoControl THEN capture[view] ELSE At[view][p]

Ignored == UNCHANGED <<capture, inverted, listVars>>

MouseDown(p) ==
  \/ Receiver(p) = NoControl /\ Ignored
  \/ Receiver(p) = List /\ ListDown(p)
  \/ \E b \in Buttons : Receiver(p) = b /\ ButtonDown(b)

\* A control that did not capture the pen ignores its moves and its release.
MouseMove(p) ==
  \/ capture[view] = NoControl /\ Ignored
  \/ ListMove(p)
  \/ \E b \in Buttons : ButtonMove(b, p)

MouseUp ==
  \/ capture[view] = NoControl /\ Ignored
  \/ ListUp
  \/ \E b \in Buttons : ButtonUp(b)

-----------------------------------------------------------------------------
(* The touch panel driver.                                                  *)

screenUnchanged == UNCHANGED <<viewVars, capture, inverted, listVars, nItems>>

\* rtouch_pen_handler for a pen that is now at p: a debounce starts.
PressStarts(p) == p # NoPen /\ penState = "RELEASED"
ReleaseStarts(p) == p = NoPen /\ penState = "PRESSED"
HandledState(p) == IF PressStarts(p) \/ ReleaseStarts(p) THEN "DEBOUNCE" ELSE penState

\* The pen touches the panel at p, or leaves it.
Edge(p) == Pressed <=> p = NoPen

PenHandler(p) ==
  /\ Edge(p)
  /\ pen' = p
  /\ penState' = HandledState(p)
  /\ pressAge' = IF PressStarts(p) THEN 0 ELSE pressAge
  /\ releaseAge' = IF ReleaseStarts(p) THEN 0 ELSE releaseAge
  /\ UNCHANGED <<panel, sampling>>
  /\ screenUnchanged

Contact == \E p \in Points : PenHandler(p)
Lift == PenHandler(NoPen)

\* The pen slides along the panel, which interrupts nothing.  Where it is
\* does not matter to the second half of rtouch_process.
Slide(p) ==
  /\ Pressed /\ ~sampling
  /\ pen # p
  /\ pen' = p
  /\ UNCHANGED <<penState, pressAge, releaseAge, panel, sampling>>
  /\ screenUnchanged

\* Between reading the pen and acting on it, rtouch_process may be
\* interrupted by one edge of the pen.  Bound: no two edges fall between.
Interrupted(p) == p = pen \/ Edge(p)
StateAfter(p) == IF p = pen THEN penState ELSE HandledState(p)

\* The first half of rtouch_process: the position is sampled.
Sampled ==
  /\ ~sampling
  /\ sampling' = TRUE
  /\ panel' = IF Pressed THEN pen ELSE panel
  /\ pen' \in Points \cup {NoPen} /\ Interrupted(pen')
  /\ penState' = StateAfter(pen')
  /\ pressAge' = IF pen' # pen /\ PressStarts(pen') THEN 0 ELSE Older(pressAge)
  /\ releaseAge' = IF pen' # pen /\ ReleaseStarts(pen') THEN 0 ELSE Older(releaseAge)
  /\ UNCHANGED <<viewVars, nItems>>

MoveEvent == Pressed /\ penState' = "PRESSED" /\ Distance(pen, panel) > POINTS_MAX_ERROR

Sample ==
  /\ Sampled
  /\ IF MoveEvent THEN MouseMove(panel') ELSE Ignored

\* g_ul_timepress and g_ul_timerelease in the second half, which also make
\* what the pen interrupt sets them to there.  The mutant restarts both.
AgesRestarted == pressAge' = 0 /\ releaseAge' = 0

AgesKept ==
  /\ pressAge' = IF Pressed THEN pressAge ELSE 0
  /\ releaseAge' = IF Pressed THEN 0 ELSE releaseAge

\* The second half: a debounce ends.
PressEvent(state) == Pressed /\ state = "DEBOUNCE" /\ pressAge > DEBOUNCE_TIME
ReleaseEvent(state) == ~Pressed /\ state = "DEBOUNCE" /\ releaseAge > DEBOUNCE_TIME

Determine ==
  /\ sampling
  /\ sampling' = FALSE
  /\ pen' \in Points \cup {NoPen} /\ Interrupted(pen')
  /\ AgesKept
  /\ LET state == StateAfter(pen')
     IN \/ PressEvent(state) /\ penState' = "PRESSED" /\ MouseDown(panel)
        \/ ReleaseEvent(state) /\ penState' = "RELEASED" /\ MouseUp
        \/ ~(PressEvent(state) \/ ReleaseEvent(state)) /\ penState' = state /\ Ignored
  /\ UNCHANGED <<panel, viewVars, nItems>>

Process == Sample \/ Determine

-----------------------------------------------------------------------------
(* lcd_timer_tick.                                                          *)

\* lbx_timer_tick: the list's timer runs while its view is shown.  The
\* mutant runs it during animations only.
ListTickingAnimated == view = "KEY" /\ fading > 0 /\ selected # NoItem /\ longPressTimer > 0
ListTicking == view = "KEY" /\ selected # NoItem /\ longPressTimer > 0

\* lbx_long_press: the item's value is typed.
LongPress == ListTicking /\ longPressTimer = 1

ListTick ==
  IF ListTicking
  THEN /\ longPressTimer' = longPressTimer - 1
       /\ selected' = IF LongPress THEN NoItem ELSE selected
  ELSE UNCHANGED <<longPressTimer, selected>>

FadeTick ==
  /\ fading' = IF fading > 0 THEN fading - 1 ELSE 0
  /\ IF fading = 1
     THEN Shown!ShowNext
     ELSE UNCHANGED <<view, nItems>>

Tick ==
  /\ ~sampling
  /\ ListTicking \/ fading > 0
  /\ ListTick
  /\ FadeTick
  /\ UNCHANGED <<touchVars, capture, inverted, origin, mouseDownY, mouseDownOrigin>>

\* The main loop has seen the card change, or an OK button was clicked.
BeginFadeOut ==
  /\ ~sampling
  /\ fading' = ANIMATION_TICKS
  /\ UNCHANGED <<touchVars, view, capture, inverted, listVars, nItems>>

-----------------------------------------------------------------------------

\* The calibration is over: its last point was sampled with the pen released.
Init ==
  /\ pen = NoPen /\ penState = "RELEASED"
  /\ pressAge = 0 /\ releaseAge = DEBOUNCE_TIME + 1
  /\ panel \in Points /\ sampling = FALSE
  /\ view = "TITLE" /\ fading = 0
  /\ capture = [v \in Views |-> NoControl]
  /\ inverted = [b \in Buttons |-> FALSE]
  /\ origin = 0 /\ selected = NoItem /\ longPressTimer = 0
  /\ mouseDownY = 0 /\ mouseDownOrigin = 0
  /\ nItems = 0

Next ==
  \/ Contact
  \/ Lift
  \/ \E p \in Points : Slide(p)
  \/ Process
  \/ Tick
  \/ BeginFadeOut

Spec == Init /\ [][Next]_vars

\* SysTick never stops: rtouch_process runs on, and between its runs, when it
\* is time, lcd_timer_tick.
FairSpec == Spec /\ WF_vars(Process) /\ SF_vars(Tick)

-----------------------------------------------------------------------------
(* Properties.                                                              *)

TypeOK ==
  /\ pen \in Points \cup {NoPen}
  /\ penState \in {"RELEASED", "DEBOUNCE", "PRESSED"}
  /\ pressAge \in Ages /\ releaseAge \in Ages
  /\ panel \in Points
  /\ sampling \in BOOLEAN
  /\ view \in Views
  /\ fading \in 0 .. ANIMATION_TICKS
  /\ capture \in [Views -> Controls \cup {NoControl}]
  /\ inverted \in [Buttons -> BOOLEAN]
  /\ origin \in Nat
  /\ selected \in Nat \cup {NoItem}
  /\ longPressTimer \in 0 .. LONG_PRESS_TICKS
  /\ mouseDownY \in Points \cup {0}
  /\ mouseDownOrigin \in Nat
  /\ nItems \in ItemCounts \cup {0}

\* Whatever is painted as held holds the pen: an inverted button or a
\* selected item belongs to a view in which it is the capturing control, so
\* that the next release seen there ends it, whatever views came between.
HighlightCaptured ==
  /\ \A b \in Buttons : inverted[b] => \E v \in Views : capture[v] = b
  /\ selected # NoItem => capture["KEY"] = List

\* A selected item has time left on the long press timer: it cannot stay
\* selected with a timer that has run out and never be typed.
SelectedTimed == selected # NoItem => longPressTimer > 0

\* The item lbx_mouse_down selects is the one lbx_render had drawn under the
\* pen, however far the list was scrolled.
SelectedUnderPress ==
  selected # NoItem =>
    LET top == ItemTop(selected, mouseDownOrigin)
    IN top <= mouseDownY /\ mouseDownY < top + ITEM_HEIGHT

\* No drag, no scroll button and no event in another view takes a list that
\* is within its range out of it.
ScrollStaysInRange ==
  [][origin <= MaxOrigin /\ nItems' = nItems => origin' <= MaxOrigin]_vars

\* The pen comes to rest, on the panel or off it.
PenRests == <>[]Pressed \/ <>[]~Pressed

\* An item is not selected for ever while the key view is shown: it is typed,
\* or let go.
HeldItemTyped == PenRests => ~<>[](view = "KEY" /\ selected # NoItem)

\* However the pen bounced, and wherever its edges fell in rtouch_process, a
\* debounce ends.
DebounceEnds == PenRests => <>[](penState # "DEBOUNCE")

\* Said of lbx_timer_tick: a long press is generated if the timer runs out
\* before the item is released.
LongPressWhileHeld ==
  [][LongPress /\ Tick => penState # "RELEASED"]_vars

=============================================================================
