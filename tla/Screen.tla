------------------------------- MODULE Screen -------------------------------
(***************************************************************************)
(* Which view follows which, and when the list of keys changes under them: *)
(* what main.c, which chooses the views, promises to ui.c, which animates  *)
(* them and gives them touches.  Keynjector implements it, and Ui relies   *)
(* on it.                                                                  *)
(***************************************************************************)
CONSTANTS Lists, NoList

VARIABLES
  view,         \* what is shown
  list          \* the list that the list box holds

vars == <<view, list>>

Views == {"TITLE", "PASS", "PIN", "KEY"}

\* The views that know that there is a list.
ListViews == {"PIN", "KEY"}

\* The views that may follow v.
NextViews(v) == IF v = "KEY" THEN {"KEY", "TITLE"} ELSE Views

\* A list comes on the way to the views that know it, and stays while they
\* are shown; it may be given up on the way from one of the others.
NextLists(from, to) ==
  IF from \in ListViews THEN {list}
  ELSE IF to \in ListViews THEN Lists
  ELSE {list, NoList}

Init == view = "TITLE" /\ list = NoList

\* A fade-out ends.
ShowNext ==
  /\ view' \in NextViews(view)
  /\ list' \in NextLists(view, view')

\* Another passphrase decrypts the file again.
FreeList ==
  /\ view = "PASS"
  /\ list' = NoList
  /\ UNCHANGED view

Reset == view' = "TITLE" /\ list' = NoList

Next == ShowNext \/ FreeList \/ Reset

Spec == Init /\ [][Next]_vars
=============================================================================
