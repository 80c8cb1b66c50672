------------------------------ MODULE MCTimer ------------------------------
(* A counter of twelve values, which wraps while main sleeps.               *)
EXTENDS Timer

MCSleeps == {0, 1, 4}
=============================================================================
