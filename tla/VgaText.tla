------------------------------ MODULE VgaText ------------------------------
(***************************************************************************)
(* The text screen of vga.c: vgaPutChar moves a position kept in two plain *)
(* bytes, cur_line and cur_col, and the cursor of the display adapter.     *)
(* main prints through it with interrupts enabled, and so does the line 1  *)
(* handler that interrupts it; nothing protects the two bytes or the       *)
(* adapter's index register.  What is on the screen is left out.           *)
(***************************************************************************)
EXTENDS Integers, Sequences

CONSTANTS
  Lines, Cols,   \* the screen, 25 by 80
  Byte           \* values of a char, 256

ASSUME ScreenAssumption ==
  /\ Lines \in Nat \ {0} /\ Cols \in Nat \ {0}
  /\ Byte \in Nat /\ Lines < Byte /\ Cols < Byte

CursorHi == 14   \* registers 0x0E and 0x0F of the display adapter
CursorLo == 15
NoStore  == -1

VARIABLES
  phase, ifl, enabled,  \* how far main is, the interrupt flag, vga_enabled
  line, col,            \* cur_line and cur_col, in memory
  todo, ln, cl,         \* what main's vgaPutChar or vgaCls has to do yet; its copies
  sel, crt,             \* the adapter's index register and its cursor registers
  at,                   \* where in display memory the latest character went
  placed, torn          \* history, see below

\* placed: a character was finished, or the cursor set, since the position was
\*         last left undefined.
\* torn:   the latest character of main was interrupted by one of a handler's,
\*         or the position was changed without the cursor.
state == <<phase, ifl, enabled>>
pos   == <<line, col>>
regs  == <<ln, cl>>
hw    == <<sel, crt>>
vars  == <<state, pos, todo, regs, hw, at, placed, torn>>

Chars == 0..Byte - 1
Inc(x) == (x + 1) % Byte
Index(l, c) == l * Cols + c
CursorAt(l, c) ==
  [r \in {CursorHi, CursorLo} |->
     IF r = CursorLo THEN Index(l, c) % Byte ELSE (Index(l, c) \div Byte) % Byte]

Wraps_Late(c) == c > Cols
Wraps(c) == c >= Cols
Below_Late(l) == l > Lines
Below(l) == l >= Lines

\* Memory holds anything before initRuntime() has cleared .bss.
Init ==
  /\ phase = "reset" /\ ifl = FALSE /\ enabled \in BOOLEAN
  /\ line \in Chars /\ col \in Chars
  /\ todo = <<>> /\ ln = 0 /\ cl = 0
  /\ sel = CursorHi /\ crt = CursorAt(0, 0)
  /\ at = NoStore /\ placed = FALSE /\ torn = TRUE

-----------------------------------------------------------------------------
(* main() and boot_from_hd, as far as the screen goes.                      *)

AtRest == todo = <<>>
Phase(here, there) == AtRest /\ phase = here /\ phase' = there
Do(op) == todo # <<>> /\ Head(todo) = op
Then(ops) == todo' = ops \o Tail(todo)
Keep == UNCHANGED <<state, at, placed, torn>>

\* vgaCls takes a line, which none of its callers passes.
VgaCls(here, there) ==
  /\ Phase(here, there)
  /\ todo' = <<"clsLine", "clsCol">> /\ ln' \in Chars /\ placed' = FALSE /\ torn' = TRUE
  /\ UNCHANGED <<ifl, enabled, pos, cl, hw, at>>
ClsStore ==
  /\ Do("clsLine") \/ Do("clsCol")
  /\ Then(<<>>)
  /\ line' = IF Do("clsLine") THEN ln ELSE line
  /\ col'  = IF Do("clsCol") THEN 0 ELSE col
  /\ UNCHANGED <<regs, hw>> /\ Keep

\* The end of initRuntime(), which clears .bss.
InitRuntime ==
  /\ Phase("runtime", "post")
  /\ enabled' = FALSE /\ line' = 0 /\ col' = 0 /\ placed' = FALSE /\ torn' = TRUE
  /\ UNCHANGED <<ifl, todo, regs, hw, at>>

\* vgaCls() if there is a VGA BIOS, and vgaSetCursor(0, 0).
FindVga ==
  /\ Phase("post", "text")
  /\ enabled' \in BOOLEAN
  /\ line' = 0 /\ col' = 0 /\ sel' = CursorHi /\ crt' = CursorAt(0, 0)
  /\ placed' = TRUE /\ torn' = FALSE
  /\ UNCHANGED <<ifl, todo, regs, at>>

ItrEnable ==
  /\ Phase("text", "boot")
  /\ ifl' = TRUE
  /\ UNCHANGED <<enabled, pos, todo, regs, hw, at, placed, torn>>

\* itr_setup_real_mode() and set_vga_enabled(0).
Launch ==
  /\ Phase("cleared", "guest")
  /\ ifl' = FALSE /\ enabled' = FALSE
  /\ UNCHANGED <<pos, todo, regs, hw, at, placed, torn>>

-----------------------------------------------------------------------------
(* vgaPutChar in main, one step per access that a handler can come between. *)
(* The two bytes are not volatile: wherever the code reads one, the program *)
(* may use the value it last read or wrote instead.                         *)

SetCursor == <<"args", "line", "col", "selLo", "lo", "selHi", "hi">>
Script(kind) ==
  CASE kind = "char" -> <<"show", "right", "wrap", "below">> \o SetCursor
    [] kind = "\n"   -> <<"return", "feed", "wrap", "below">> \o SetCursor
    [] kind = "\r"   -> <<"return", "wrap", "below">> \o SetCursor

Putc(kind) ==
  /\ enabled /\ AtRest /\ phase \notin {"cleared", "guest"}
  /\ todo' = Script(kind) /\ ln' = line /\ cl' = col /\ torn' = FALSE
  /\ UNCHANGED <<state, pos, hw, at, placed>>

Show ==
  /\ Do("show") /\ Then(<<>>)
  /\ ln' \in {line, ln} /\ cl' \in {col, cl} /\ at' = Index(ln', cl')
  /\ UNCHANGED <<state, pos, hw, placed, torn>>
Right ==
  /\ Do("right") /\ Then(<<>>)
  /\ cl' \in {Inc(col), Inc(cl)} /\ col' = cl'
  /\ UNCHANGED <<line, ln, hw>> /\ Keep
Return ==
  /\ Do("return") /\ Then(<<>>)
  /\ col' = 0 /\ cl' = 0
  /\ UNCHANGED <<line, ln, hw>> /\ Keep
Feed ==
  /\ Do("feed") /\ Then(<<>>)
  /\ ln' \in {Inc(line), Inc(ln)} /\ line' = ln'
  /\ UNCHANGED <<col, cl, hw>> /\ Keep
Wrap ==
  /\ Do("wrap") /\ cl' \in {col, cl}
  /\ Then(IF Wraps(cl') THEN <<"feed", "return">> ELSE <<>>)
  /\ UNCHANGED <<pos, ln, hw>> /\ Keep
CheckBelow ==
  /\ Do("below") /\ ln' \in {line, ln}
  /\ Then(IF Below(ln') THEN <<"scroll">> ELSE <<>>)
  /\ UNCHANGED <<pos, cl, hw>> /\ Keep
Scroll ==
  /\ Do("scroll") /\ Then(<<>>)
  /\ ln' = Lines - 1 /\ line' = ln'
  /\ UNCHANGED <<col, cl, hw>> /\ Keep

\* vgaSetCursor: both bytes are stored, and the index goes out in two halves.
Args ==
  /\ Do("args") /\ Then(<<>>)
  /\ ln' \in {line, ln} /\ cl' \in {col, cl}
  /\ UNCHANGED <<pos, hw>> /\ Keep
Store ==
  /\ Do("line") \/ Do("col")
  /\ Then(<<>>)
  /\ line' = IF Do("line") THEN ln ELSE line
  /\ col'  = IF Do("col") THEN cl ELSE col
  /\ UNCHANGED <<regs, hw>> /\ Keep
Select_LoOnly == CursorLo
Select == IF Do("selLo") THEN CursorLo ELSE CursorHi
SelectCursor ==
  /\ Do("selLo") \/ Do("selHi")
  /\ Then(<<>>) /\ sel' = Select
  /\ UNCHANGED <<pos, regs, crt>> /\ Keep
Half == CursorAt(ln, cl)[IF Do("lo") THEN CursorLo ELSE CursorHi]
WriteCursor ==
  /\ Do("lo") \/ Do("hi")
  /\ Then(<<>>) /\ crt' = [crt EXCEPT ![sel] = Half]
  /\ placed' = (placed \/ Do("hi"))
  /\ UNCHANGED <<state, pos, regs, sel, at, torn>>

-----------------------------------------------------------------------------
\* The line 1 handler prints: it runs with interrupts disabled, so that each of
\* its characters is put whole, wherever main is with its own.
Advanced(kind) ==
  CASE kind = "char" -> <<line, Inc(col)>>
    [] kind = "\n"   -> <<Inc(line), 0>>
    [] kind = "\r"   -> <<line, 0>>
Wrapped(p) == IF Wraps(p[2]) THEN <<Inc(p[1]), 0>> ELSE p
Scrolled(p) == IF Below(p[1]) THEN <<Lines - 1, p[2]>> ELSE p

IrqPutc(kind) ==
  LET p == Scrolled(Wrapped(Advanced(kind)))
  IN  /\ ifl /\ enabled
      /\ line' = p[1] /\ col' = p[2]
      /\ sel' = CursorHi /\ crt' = CursorAt(p[1], p[2])
      /\ at' = IF kind = "char" THEN Index(line, col) ELSE at
      /\ placed' = (placed \/ AtRest) /\ torn' = ~AtRest
      /\ UNCHANGED <<state, todo, regs>>

-----------------------------------------------------------------------------
Boot == \/ VgaCls("reset", "runtime") \/ InitRuntime \/ FindVga \/ ItrEnable
        \/ VgaCls("boot", "cleared") \/ ClsStore \/ Launch
PutChar == \/ Show \/ Right \/ Return \/ Feed \/ Wrap \/ CheckBelow \/ Scroll
           \/ Args \/ Store \/ SelectCursor \/ WriteCursor
Next == Boot \/ PutChar \/ \E kind \in {"char", "\n", "\r"} : Putc(kind) \/ IrqPutc(kind)

Spec == Init /\ [][Next]_vars
-----------------------------------------------------------------------------
\* Between two characters of main the position is on the screen, whatever
\* handlers printed while main was moving it, and whichever of its own copies
\* main went on with; one character puts even an undefined position right.
PositionOnScreen == AtRest /\ placed => line < Lines /\ col < Cols

\* A handler that interrupts main between the end of a row and the scroll
\* prints below the screen, but never more than one row and one character.
StoresNearScreen == [][placed /\ at' # at => at' =< Index(Lines, Cols)]_vars

\* A character that was not interrupted leaves the adapter's cursor where the
\* next one goes, even if the halves of two positions were mixed up before.
CursorHeals == AtRest /\ ~torn => crt = CursorAt(line, col)
=============================================================================
