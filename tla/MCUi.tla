-------------------------------- MODULE MCUi --------------------------------
(* Ui for TLC: a list of two rows above the scroll buttons, and the OK      *)
(* button of the PIN view where the list is in the key view.                *)
EXTENDS Ui

CONSTANTS up, down, ok, list, none

Screen ==
  [v \in Views |->
     [p \in Points |->
        CASE v = "KEY" /\ p < LIST_Y + LIST_HEIGHT -> list
          [] v = "KEY" /\ p = 10 -> up
          [] v = "KEY" /\ p = 12 -> down
          [] v = "PIN" /\ p = 8 -> ok
          [] OTHER -> none]]
=============================================================================
