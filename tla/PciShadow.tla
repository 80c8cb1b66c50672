------------------------------ MODULE PciShadow ------------------------------
(***************************************************************************)
(* PCI configuration and ROM shadowing on the 440FX: chipset_init copies   *)
(* the BIOS at 0xF0000 into the RAM under it, initRuntime clears the       *)
(* chipset handle, chipset_post looks it up again, and pci_configure finds *)
(* the VGA controller, maps its expansion ROM above memory, copies it to   *)
(* 0xC0000 and unmaps it.  Memory from 0xC0000 to 0xFFFFF is sixteen pages *)
(* of 16 KB; lengths are in KB; of a device's registers only its ROM base  *)
(* and its command register are kept.  Bus 0 is the only one populated.    *)
(***************************************************************************)
EXTENDS Integers, Sequences

CONSTANTS
  LastSlot,   \* bound: device numbers 0..LastSlot are looked at, 31 in the code
  RomLens     \* sizes of the expansion ROM of a VGA controller

ASSUME SlotAssumption == LastSlot \in Nat
ASSUME LenAssumption == RomLens \subseteq Nat

Slots == 0..LastSlot
Pages == 0..15
BiosPages == 12..15
Segments == 1..13
WriteOnly_ReadWrite == 3
WriteOnly == 2                    \* PAM_WRITE_ONLY
ReadWrite == 3                    \* PAM_READ_WRITE
HighRom == 100                    \* the page 0xEFFC0000 stands for

VARIABLES
  slots, romLen, premapped,  \* the hardware found on the bus
  bar, cmd,                  \* per slot: ROM base register, enabled decoding
  original,                  \* the value query_bar_size read, and puts back
  pam, ram,                  \* 440FX registers 0x59..0x5F; RAM under the pages
  handle,                    \* does `chipset' address the 440FX?
  pc, at, calls              \* main; scanned slot; shadowing calls in progress

hw == <<slots, romLen, premapped>>
vars == <<hw, bar, cmd, original, pam, ram, handle, pc, at, calls>>

Preset(s) == IF premapped /\ slots[s] = "vga" THEN "preset" ELSE "zero"

Init ==
  /\ slots \in [Slots -> {"none", "host", "vga", "other"}]
  /\ romLen \in RomLens /\ premapped \in BOOLEAN
  /\ bar = [s \in Slots |-> Preset(s)] /\ cmd = [s \in Slots |-> {}]
  /\ original = "zero"
  /\ pam = [b \in 89..95 |-> 0] /\ ram = [p \in Pages |-> <<"junk">>]
  /\ handle = FALSE /\ pc = "init" /\ at = 0 /\ calls = <<>>

-----------------------------------------------------------------------------
(* pam_set_mode: two segments share a register, four bits each, of which    *)
(* two are the mode.  Without a handle no configuration cycle is made.      *)

Register(seg) == 89 + seg \div 2
Nibble(seg) == IF seg % 2 = 1 THEN 16 ELSE 1
ModeIn(reg, seg) == (reg \div Nibble(seg)) % 4
Mode(seg) == ModeIn(pam[Register(seg)], seg)

PamByte(reg, seg, mode) == reg + (mode - ModeIn(reg, seg)) * Nibble(seg)
PamSet(seg, mode) ==
  IF handle THEN [pam EXCEPT ![Register(seg)] = PamByte(@, seg, mode)] ELSE pam

(* Reads of a page come from RAM or from ROM, and writes reach RAM or are   *)
(* lost, as the mode of its segment says.                                   *)

Seg(page) == IF page \in BiosPages THEN 1 ELSE page + 2
RomPage(page) == IF page \in BiosPages THEN <<"bios", page>> ELSE <<"open">>
Window(page) ==
  IF \E s \in Slots : /\ slots[s] = "vga" /\ bar[s] = "high" /\ "memory" \in cmd[s]
                      /\ 16 * page < romLen
  THEN <<"vga", page>> ELSE <<"open">>
Read(page) ==
  IF page >= HighRom THEN Window(page - HighRom)
  ELSE IF Mode(Seg(page)) \in {1, 3} THEN ram[page] ELSE RomPage(page)

-----------------------------------------------------------------------------
(* chipset_shadow_rom_from_src.  Called for 128 KB it calls itself for the  *)
(* upper half, opens the lower half only, and then copies both.             *)

Call(page, len, src) == [page |-> page, len |-> len, src |-> src, i |-> 0,
                         phase |-> "enter"]
Top == calls[Len(calls)]
Below == SubSeq(calls, 1, Len(calls) - 1)
Go(phase, i) == calls' = [calls EXCEPT ![Len(calls)].phase = phase, ![Len(calls)].i = i]

\* How many segments the arguments stand for, 0 if they are refused.
Regions(page, len) ==
  IF page = 12 THEN IF len % 64 = 0 THEN 1 ELSE 0
  ELSE IF len % 16 = 0 /\ len \div 16 \in 0..4 \cup {8} THEN len \div 16 ELSE 0
Opened == IF Regions(Top.page, Top.len) = 8 THEN 4 ELSE Regions(Top.page, Top.len)

In(phase) == calls # <<>> /\ Top.phase = phase
Rest == <<hw, bar, cmd, original, handle, pc, at>>

Refuse ==
  /\ In("enter") /\ Regions(Top.page, Top.len) = 0
  /\ calls' = Below
  /\ UNCHANGED <<Rest, pam, ram>>
Accept ==
  /\ In("enter") /\ Regions(Top.page, Top.len) \in 1..4
  /\ Go("open", 0)
  /\ UNCHANGED <<Rest, pam, ram>>
Split ==
  /\ In("enter") /\ Regions(Top.page, Top.len) = 8
  /\ calls' = Append(Append(Below, [Top EXCEPT !.phase = "open"]),
                     Call(Top.page + 4, 64, Top.src + 4))
  /\ UNCHANGED <<Rest, pam, ram>>

OpenSegment ==
  /\ In("open")
  /\ IF Top.i < Opened
     THEN pam' = PamSet(Seg(Top.page) + Top.i, WriteOnly) /\ Go("open", Top.i + 1)
     ELSE pam' = pam /\ Go("copy", 0)
  /\ UNCHANGED <<Rest, ram>>
CopyPage ==
  /\ In("copy")
  /\ IF 16 * Top.i < Top.len
     THEN /\ Go("copy", Top.i + 1)
          /\ ram' = LET to == Top.page + Top.i
                    IN  IF Mode(Seg(to)) \in {2, 3}
                        THEN [ram EXCEPT ![to] = Read(Top.src + Top.i)] ELSE ram
     ELSE Go("enable", 0) /\ UNCHANGED ram
  /\ UNCHANGED <<Rest, pam>>
EnableSegment ==
  /\ In("enable")
  /\ IF Top.i < Opened
     THEN pam' = PamSet(Seg(Top.page) + Top.i, ReadWrite) /\ Go("enable", Top.i + 1)
     ELSE pam' = pam /\ calls' = Below
  /\ UNCHANGED <<Rest, ram>>

-----------------------------------------------------------------------------
(* main, chipset_init, chipset_post and pci_configure                       *)

Goto(here, there) == calls = <<>> /\ pc = here /\ pc' = there

\* pci_find_device gives up at the first empty slot.
ChipsetFound ==
  \E s \in Slots : slots[s] = "host" /\ \A t \in Slots : t < s => slots[t] # "none"

ChipsetInit ==
  /\ Goto("init", "runtime")
  /\ handle' = ChipsetFound
  /\ calls' = IF ChipsetFound THEN <<Call(12, 64, 12)>> ELSE <<>>
  /\ UNCHANGED <<hw, bar, cmd, original, pam, ram, at>>
\* The handle is in .bss, which initRuntime clears.
InitRuntime ==
  /\ Goto("runtime", "post") /\ handle' = FALSE
  /\ UNCHANGED <<hw, bar, cmd, original, pam, ram, at, calls>>
ChipsetPost_Skipped ==
  /\ Goto("post", "scan")
  /\ UNCHANGED <<hw, bar, cmd, original, pam, ram, at, calls, handle>>
ChipsetPost ==
  /\ Goto("post", "scan") /\ handle' = ChipsetFound
  /\ UNCHANGED <<hw, bar, cmd, original, pam, ram, at, calls>>

SkipSlot ==
  /\ Goto("scan", "scan")
  /\ at \in Slots /\ slots[at] = "none" /\ at' = at + 1
  /\ UNCHANGED <<hw, bar, cmd, original, pam, ram, handle, calls>>
ScanEnd ==
  /\ Goto("scan", "done") /\ at = LastSlot + 1
  /\ UNCHANGED <<hw, bar, cmd, original, pam, ram, handle, at, calls>>

\* query_bar_size: the base register is read, ones are written to it and read back.
SizeBar(here, there) ==
  /\ Goto(here, there)
  /\ at \in Slots /\ slots[at] # "none"
  /\ original' = bar[at] /\ bar' = [bar EXCEPT ![at] = "ones"]
  /\ UNCHANGED <<hw, cmd, pam, ram, handle, at, calls>>
Restored_ReadLate == bar[at]
Restored == original
FirstSized ==
  /\ \/ Goto("sized", "resize") /\ slots[at] = "vga" /\ Restored = "zero" /\ at' = at
     \/ Goto("sized", "scan") /\ ~(slots[at] = "vga" /\ Restored = "zero") /\ at' = at + 1
  /\ bar' = [bar EXCEPT ![at] = Restored]
  /\ UNCHANGED <<hw, cmd, original, pam, ram, handle, calls>>
SecondSized ==
  /\ Goto("resized", "map")
  /\ bar' = [bar EXCEPT ![at] = Restored]
  /\ UNCHANGED <<hw, cmd, original, pam, ram, handle, at, calls>>

\* pci_map_bar, then the three bits of the command register.
MapBar ==
  /\ Goto("map", "enable")
  /\ bar' = [bar EXCEPT ![at] = "high"]
  /\ UNCHANGED <<hw, cmd, original, pam, ram, handle, at, calls>>
EnableDevice ==
  /\ Goto("enable", "unmap")
  /\ cmd' = [cmd EXCEPT ![at] = {"master", "io", "memory"}]
  /\ calls' = <<Call(0, romLen, HighRom)>>
  /\ UNCHANGED <<hw, bar, original, pam, ram, handle, at>>
\* Whatever chipset_shadow_rom_from_src returned.
UnmapBar ==
  /\ Goto("unmap", "done")
  /\ bar' = [bar EXCEPT ![at] = "zero"]
  /\ UNCHANGED <<hw, cmd, original, pam, ram, handle, at, calls>>
-----------------------------------------------------------------------------
Shadow == Refuse \/ Accept \/ Split \/ OpenSegment \/ CopyPage \/ EnableSegment
Configure == \/ SkipSlot \/ ScanEnd \/ SizeBar("scan", "sized") \/ FirstSized
             \/ SizeBar("resize", "resized") \/ SecondSized
             \/ MapBar \/ EnableDevice \/ UnmapBar
Next == Shadow \/ ChipsetInit \/ InitRuntime \/ ChipsetPost \/ Configure
Spec == Init /\ [][Next]_vars

-----------------------------------------------------------------------------
Contents == {<<"junk">>, <<"open">>} \cup ({"bios", "vga"} \X Pages)

\* Every variable has its type; a shadowing call nests at most one other.
TypeOK ==
  /\ slots \in [Slots -> {"none", "host", "vga", "other"}]
  /\ romLen \in RomLens /\ premapped \in BOOLEAN
  /\ bar \in [Slots -> {"zero", "preset", "ones", "high"}]
  /\ original \in {"zero", "preset", "ones", "high"}
  /\ cmd \in [Slots -> SUBSET {"master", "io", "memory"}]
  /\ pam \in [89..95 -> 0..255]
  /\ DOMAIN ram = Pages /\ \A p \in Pages : ram[p] \in Contents
  /\ handle \in BOOLEAN /\ at \in 0..LastSlot + 1 /\ Len(calls) \in 0..2
  /\ pc \in {"init", "runtime", "post", "scan", "sized", "resize", "resized",
             "map", "enable", "unmap", "done"}

\* What can be read between 0xC0000 and 0xFFFFF is a ROM or its complete copy,
\* at every moment of the copying: no segment is read from RAM before the ROM
\* is there, and the BIOS never disappears from under the running code.
ShadowIsRom ==
  \A p \in Pages : Mode(Seg(p)) \in {1, 3} =>
    ram[p] = IF p \in BiosPages THEN <<"bios", p>> ELSE <<"vga", p>>

\* The controllers whose ROM pci_configure finds unmapped.
VgaSlots == {s \in Slots : slots[s] = "vga" /\ Preset(s) = "zero"}

\* When pci_configure is done, the whole ROM of an unmapped VGA controller can be
\* read at 0xC0000, for each of the lengths the shadowing accepts, and although
\* the handle chipset_init found was lost in between.
VgaRomShadowed ==
  (pc = "done" /\ ChipsetFound /\ VgaSlots # {} /\ romLen \in {16, 32, 64, 128}) =>
    \A p \in Pages : 16 * p < romLen => Read(p) = <<"vga", p>>

\* When pci_configure is done every ROM base register holds what it held: sizing
\* restores it, and the one ROM mapped for the copy is unmapped again.
BarsAsFound == pc = "done" => bar = [s \in Slots |-> Preset(s)]
=============================================================================
