---------------------------- MODULE MCTextEntry -----------------------------
(* TextEntry for TLC: a wheel of three characters.                          *)
EXTENDS TextEntry

CONSTANTS A, B, C

Wheel == <<A, B, C>>
=============================================================================
