---------------------------- MODULE MCSerialRing ----------------------------
(* SerialRing with constants small enough for TLC; MCSerialRing.cfg gives a   *)
(* ring of four slots and more characters than it holds.                      *)
EXTENDS SerialRing
=============================================================================
