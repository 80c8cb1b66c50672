---------------------------- MODULE MemoryProbe ----------------------------
(***************************************************************************)
(* How the BIOS finds out how much memory it has on the two boards whose   *)
(* chipset must be told the layout of the memory modules: try every layout *)
(* the chipset knows, probe upwards from 1 MB until memory ends, write to  *)
(* what was found to see whether it is the same memory over and over, and  *)
(* keep the layout that shows most.  The UM82C480 goes straight on; the    *)
(* SiS 85C460 starts main() afresh.  POST then probes again and reports.   *)
(* Addresses and cells of memory count in blocks of 256 KB.                *)
(***************************************************************************)
EXTENDS Integers

CONSTANTS
  NumConfigs,\* layouts tried: 16 on the UM82C480, 32 on the SiS
  Top,       \* first block above every address the board can decode
  Boards     \* [Configs -> [0..Top -> cell or NoRam]]

NoRam == -1
Configs == 0..(NumConfigs - 1)
Cells == 0..(Top - 1)
MB == 4                      \* blocks in a megabyte
Grid == 2                    \* detectMirroring looks every 512 KB

ASSUME ConfigAssumption == NumConfigs \in Nat /\ NumConfigs > 1
ASSUME BoardAssumption ==
  /\ Top \in Nat /\ Top > MB
  /\ Boards \subseteq [Configs -> [0..Top -> Cells \cup {NoRam}]]
  /\ \A b \in Boards, c \in Configs : b[c][Top] = NoRam

VARIABLES
  chip,      \* "um" or "sis": which chipset file the BIOS was built with
  board,     \* what each layout makes of each address
  reg,       \* the layout selected, register 0x9a or 0x50
  mem,       \* what each cell of memory holds: an address, or NoRam for else
  pc,
  config,    \* the loop variable
  i,         \* the address probed or checked
  found,     \* what probeRam returned
  best, most,\* best_config, best_mem_count (best_cfg, most_ram)
  memory     \* bda.memory_kb

hw   == <<chip, board>>
loop == <<config, best, most>>
vars == <<hw, reg, mem, pc, loop, i, found, memory>>

Decode(a) == board[reg][a]
Default(k) == IF k = "um" THEN 1 ELSE 0

\* The program runs: the layout of reset has memory where its stack is.
Init ==
  /\ chip \in {"um", "sis"} /\ board \in Boards /\ board[Default(chip)][0] # NoRam
  /\ reg = Default(chip) /\ mem = [c \in Cells |-> NoRam]
  /\ pc = "start" /\ config = 0 /\ best = Default(chip) /\ most = 0
  /\ i = 0 /\ found = 0 /\ memory = 0

Goto(here, there) == pc = here /\ pc' = there

-----------------------------------------------------------------------------
(* The scan: chipset_init of um82c480.c, detectDramConfig of sis8c460.c.    *)

\* SiS: only when the register still holds its reset value.
Start ==
  /\ pc = "start"
  /\ IF chip = "sis" /\ reg # 0
     THEN pc' = "post" /\ UNCHANGED loop
     ELSE pc' = "select" /\ config' = 0 /\ best' = Default(chip) /\ most' = 0
  /\ UNCHANGED <<hw, reg, mem, i, found, memory>>

\* UM passes over a layout that cannot hold a byte at 0x1000; SiS calls probeRam
\* with its stack, below 0x2000, in memory that is not there, and never returns.
Select ==
  /\ pc = "select" /\ config \in Configs
  /\ \/ /\ board[config][0] # NoRam
        /\ reg' = config /\ pc' = "probe" /\ i' = MB /\ UNCHANGED config
     \/ /\ board[config][0] = NoRam /\ chip = "um"
        /\ reg' = best /\ config' = config + 1 /\ UNCHANGED <<pc, i>>
     \/ /\ board[config][0] = NoRam /\ chip = "sis"
        /\ reg' = config /\ pc' = "crashed" /\ UNCHANGED <<config, i>>
  /\ UNCHANGED <<hw, mem, best, most, found, memory>>

\* probeRam from 1 MB: two patterns written and read back, the old value
\* restored, until an address has no memory.
Probe ==
  /\ pc = "probe"
  /\ IF Decode(i) # NoRam
     THEN i' = i + 1 /\ UNCHANGED <<pc, found>>
     ELSE i' = MB /\ pc' = "compare" /\ found' = i - MB
  /\ UNCHANGED <<hw, reg, mem, loop, memory>>

\* UM compares before it looks for mirrors, SiS afterwards.
Compare ==
  /\ pc = "compare"
  /\ IF chip = "um" /\ found =< most
     THEN pc' = "select" /\ config' = config + 1
     ELSE pc' = "write" /\ UNCHANGED config
  /\ UNCHANGED <<hw, reg, mem, i, found, best, most, memory>>

\* detectMirroring(size).  UM passes the end of the memory found, SiS its size,
\* so that SiS leaves the last megabyte unchecked.
End(size) == IF chip = "um" THEN size + MB ELSE size
MirrorEnd_Size == found
MirrorEnd == End(found)
MirrorWrite ==
  /\ pc = "write"
  /\ IF i < MirrorEnd
     THEN /\ mem' = [mem EXCEPT ![Decode(i)] = i]
          /\ i' = i + Grid /\ UNCHANGED pc
     ELSE i' = MB /\ pc' = "check" /\ UNCHANGED mem
  /\ UNCHANGED <<hw, reg, loop, found, memory>>

Better == found > most
Judge(mirrored) ==
  /\ pc' = "select" /\ config' = config + 1
  /\ reg' = IF chip = "sis" THEN 0 ELSE reg
  /\ IF ~mirrored /\ Better
     THEN best' = config /\ most' = found
     ELSE UNCHANGED <<best, most>>
MirrorCheck ==
  /\ pc = "check"
  /\ IF i < MirrorEnd /\ mem[Decode(i)] = i
     THEN i' = i + Grid /\ UNCHANGED <<pc, reg, loop>>
     ELSE Judge(i < MirrorEnd) /\ UNCHANGED i
  /\ UNCHANGED <<hw, mem, found, memory>>

\* The layout is set; SiS jumps to main(), which comes back to chipset_init.
Settle_Forget ==
  /\ pc = "select" /\ config \notin Configs
  /\ pc' = IF chip = "sis" THEN "start" ELSE "post"
  /\ UNCHANGED <<hw, reg, mem, loop, i, found, memory>>
Settle ==
  /\ pc = "select" /\ config \notin Configs
  /\ reg' = best
  /\ pc' = IF chip = "sis" THEN "start" ELSE "post"
  /\ UNCHANGED <<hw, mem, loop, i, found, memory>>

-----------------------------------------------------------------------------
(* POST: checkRam of post.c.                                                *)

FirstHole(from) ==
  CHOOSE a \in from..Top : Decode(a) = NoRam /\ \A x \in from..(a - 1) : Decode(x) # NoRam

CheckRam ==
  /\ Goto("post", "done")
  /\ memory' = FirstHole(0) + (FirstHole(MB) - MB)
  /\ UNCHANGED <<hw, reg, mem, loop, i, found>>

Next == \/ Start \/ Select \/ Probe \/ Compare \/ MirrorWrite \/ MirrorCheck
        \/ Settle \/ CheckRam
Spec == Init /\ [][Next]_vars /\ WF_vars(Next)

-----------------------------------------------------------------------------
\* The addresses detectMirroring looks at, and whether they are all different
\* memory in layout c.
GridTo(end) == {a \in MB..(end - 1) : a % Grid = 0}
Distinct(c, end) == \A a, b \in GridTo(end) : a # b => board[c][a] # board[c][b]

\* What the layouts are worth, read off the board instead of probed.
Extended(c) ==
  LET holes == {a \in MB..Top : board[c][a] = NoRam}
  IN  (CHOOSE a \in holes : \A x \in holes : a =< x) - MB
Usable(c) ==
  /\ Extended(c) > 0
  /\ chip = "um" => board[c][0] # NoRam
  /\ Distinct(c, End(Extended(c)))
Best(c) ==
  /\ Usable(c)
  /\ \A d \in Configs : Usable(d) => \/ Extended(d) < Extended(c)
                                     \/ Extended(d) = Extended(c) /\ c =< d

\* The layout the machine runs on is the first of those with most memory among
\* the layouts whose checked addresses are all different memory, and the reset
\* layout when there is none; what POST reports is the memory of that layout.
\* What one layout leaves behind in memory never makes another look mirrored
\* or whole.
KeptIsBest ==
  pc = "done" =>
    IF \E c \in Configs : Usable(c)
    THEN Best(reg) /\ memory = FirstHole(0) + Extended(reg)
    ELSE reg = Default(chip)

\* The machine comes up: the UM82C480 whatever the board; the SiS if every layout
\* has memory where the stack is, and one other than 0 is kept, so that the second
\* pass through chipset_init finds the register set and goes on.
ComesUp ==
  (chip = "sis" => /\ \A c \in Configs : board[c][0] # NoRam
                   /\ \E c \in Configs \ {0} : Best(c)) ~> pc = "done"
=============================================================================
