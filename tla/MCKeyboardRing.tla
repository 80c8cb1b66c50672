--------------------------- MODULE MCKeyboardRing ---------------------------
(* KeyboardRing scaled to a ring of three bytes that wraps, and, for the     *)
(* overlap with the data area, with the geometry of bda.h and keyboard.c.    *)
EXTENDS KeyboardRing
MCCodes == {30, 158, 42, 170, 54, 182}   \* make and break of A and of both shifts
OneKey == {30}
=============================================================================
