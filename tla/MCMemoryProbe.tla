--------------------------- MODULE MCMemoryProbe ---------------------------
(* Boards of up to 2.5 MB, each layout with a size and perhaps one address  *)
(* line that it does not use, so that memory repeats itself.                *)
EXTENDS MemoryProbe

Sizes == {0, 4, 6, 8, 10}
Lines == {0, 1, 2, 4, 8}        \* 0: all used; 256 KB, 512 KB, 1 MB, 2 MB
Without(a, line) == IF line > 0 /\ (a \div line) % 2 = 1 THEN a - line ELSE a

\* Between 512 KB and 1 MB lie the video memory and the ROMs.
Layout(size, line) ==
  [a \in 0..Top |-> IF a >= size \/ a \in 2..3 THEN NoRam ELSE Without(a, line)]
Layouts == {Layout(s, l) : s \in Sizes, l \in Lines}
MCBoards == [Configs -> Layouts]
=============================================================================
