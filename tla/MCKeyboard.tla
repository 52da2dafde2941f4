----------------------------- MODULE MCKeyboard -----------------------------
(* Two keys, texts of up to two characters.                                   *)
EXTENDS Keyboard
=============================================================================
