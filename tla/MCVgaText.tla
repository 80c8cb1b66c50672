----------------------------- MODULE MCVgaText -----------------------------
(* VgaText on a screen of three lines by three columns, with bytes of six    *)
(* values, so that both halves of a cursor's index are in use.               *)
EXTENDS VgaText
=============================================================================
