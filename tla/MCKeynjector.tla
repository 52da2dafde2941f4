---------------------------- MODULE MCKeynjector ----------------------------
(* Keynjector for TLC: the values the configurations give its CONSTANTS.    *)
EXTENDS Keynjector

CONSTANTS good, other, dead, empty, key, first

GoodKey == [c \in Cards |-> key]
=============================================================================
