SPECIFICATION Spec
CONSTANTS
  up = up  down = down  ok = ok  list = list  none = none
  Points = {8, 10, 12}
  Buttons = {up, down, ok}
  List = list
  NoControl = none
  At <- Screen
  NoPen = NoPen
  POINTS_MAX_ERROR = 1
  DEBOUNCE_TIME = 1
  LIST_Y = 1
  LIST_HEIGHT = 8
  ITEM_HEIGHT = 4
  LONG_PRESS_TICKS = 2
  ANIMATION_TICKS = 1
  ItemCounts = {0, 2}
  Up = up
  Down = down
INVARIANTS TypeOK HighlightCaptured SelectedTimed SelectedUnderPress
PROPERTY ScrollStaysInRange
