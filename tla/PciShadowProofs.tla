-------------------------- MODULE PciShadowProofs --------------------------
(***************************************************************************)
(* Proofs about PciShadow, for every number of slots, every population of  *)
(* the bus and every length of the expansion ROM: what can be read below   *)
(* 1 MB is a ROM or its whole copy at every moment of the shadowing, a     *)
(* VGA ROM of a length that can be shadowed is, and each ROM base register *)
(* holds in the end what it held before.                                   *)
(***************************************************************************)
EXTENDS PciShadow, SequenceTheorems, TLAPS

Phases == {"enter", "open", "copy", "enable"}
Frame == [page : Nat, len : Nat, src : Nat, i : Nat, phase : Phases]

\* What a page holds once its ROM is copied, and where the RAM of one is read.
Rom(page) == IF page \in BiosPages THEN <<"bios", page>> ELSE <<"vga", page>>
Scanning == {"scan", "sized", "resize", "resized", "map", "enable", "unmap", "done"}
Mapping == {"resize", "resized", "map", "enable", "unmap"}

(***************************************************************************)
(* The inductive invariant.                                                *)
(***************************************************************************)

\* The handle is found, lost and found again, and nothing is opened without it.
HandleInv ==
  /\ handle => ChipsetFound
  /\ pc \in Scanning /\ ChipsetFound => handle
  /\ ~ChipsetFound => \A seg \in Segments : Mode(seg) = 0

\* pci_configure passes over the VGA controllers that are mapped already, and
\* works on one that is not; only the base register it is at may differ.
ScanInv ==
  /\ pc \in {"init", "runtime", "post"} => at = 0
  /\ at \in Slots \/ pc \in {"scan", "done"}
  /\ pc \in {"scan", "sized"} => \A s \in VgaSlots : s >= at
  /\ pc = "done" /\ at \notin Slots => VgaSlots = {}
  /\ pc \in Mapping => at \in VgaSlots
BarInv ==
  \A s \in Slots :
    bar[s] = CASE s = at /\ pc \in {"sized", "resized"} -> "ones"
               [] s = at /\ pc \in {"enable", "unmap"}  -> "high"
               [] OTHER                                 -> Preset(s)
\* What query_bar_size has kept is what the register held.
OriginalInv == pc \in {"sized", "resized"} => original = Preset(at)
MemoryEnabled == pc = "unmap" => "memory" \in cmd[at]

\* Which calls there are: for the BIOS, for the VGA ROM, and for its upper half.
CallsInv ==
  /\ calls \in Seq(Frame) /\ Len(calls) \in 0..2
  /\ calls # <<>> => pc \in {"runtime", "unmap"}
  /\ calls # <<>> /\ pc = "runtime" =>
       Len(calls) = 1 /\ handle /\ Top.page = 12 /\ Top.len = 64 /\ Top.src = 12
  /\ Len(calls) = 1 /\ pc = "unmap" =>
       Top.page = 0 /\ Top.len = romLen /\ Top.src = HighRom
  /\ Len(calls) = 2 =>
       /\ pc = "unmap" /\ romLen = 128
       /\ calls[1] = [Call(0, romLen, HighRom) EXCEPT !.phase = "open"]
       /\ Top.page = 4 /\ Top.len = 64 /\ Top.src = HighRom + 4

\* How far the innermost call is.
Copied(page, n) == \A j \in 0..15 : j < n => ram[page + j] = Rom(page + j)
Progress ==
  calls # <<>> =>
    /\ Top.phase = "enter" => Top.i = 0
    /\ Top.phase # "enter" => Opened \in 1..4
    /\ Top.phase = "open" =>
         /\ Top.i =< Opened
         /\ handle => \A j \in 0..3 : j < Top.i => Mode(Seg(Top.page) + j) = 2
    /\ Top.phase = "copy" =>
         /\ 16 * Top.i =< Top.len
         /\ handle => Copied(Top.page, Top.i)
         /\ handle => \A j \in 0..3 : j < Opened => Mode(Seg(Top.page) + j) = 2
    /\ Top.phase = "enable" =>
         /\ Top.i =< Opened
         /\ handle => \A j \in 0..15 : 16 * j < Top.len => ram[Top.page + j] = Rom(Top.page + j)
         /\ handle => \A j \in 0..3 : j < Opened =>
                        Mode(Seg(Top.page) + j) = IF j < Top.i THEN 3 ELSE 2

\* What a finished call leaves: all of the ROM can be read, or its upper half.
UpperShadowed ==
  pc = "unmap" /\ Len(calls) = 1 /\ Top.phase # "enter" /\ romLen = 128 /\ handle =>
    \A p \in 4..7 : Mode(Seg(p)) = 3
Shadowed ==
  pc \in {"unmap", "done"} /\ calls = <<>> /\ at \in Slots /\ handle /\ Regions(0, romLen) # 0 =>
    \A p \in Pages : 16 * p < romLen => Mode(Seg(p)) = 3

IInv == /\ TypeOK /\ HandleInv /\ ScanInv /\ BarInv /\ MemoryEnabled
        /\ CallsInv /\ Progress /\ UpperShadowed /\ Shadowed /\ ShadowIsRom

-----------------------------------------------------------------------------
(***************************************************************************)
(* The segment registers.                                                  *)
(***************************************************************************)

\* Two modes are held in a register, in its low two bits and in bits 4 and 5;
\* setting one leaves the other alone.
Byte == 0..255
Low(reg) == reg % 4
High(reg) == (reg \div 16) % 4

LEMMA LowHalf ==
  ASSUME NEW reg \in Byte, NEW mode \in 0..3, NEW seg, Nibble(seg) = 1
  PROVE  /\ PamByte(reg, seg, mode) \in Byte
         /\ Low(PamByte(reg, seg, mode)) = mode
         /\ High(PamByte(reg, seg, mode)) = High(reg)
<1> DEFINE new == PamByte(reg, seg, mode)
<1>1. PICK q \in 0..63, r \in 0..3 : reg = 4 * q + r /\ reg % 4 = r
  <2>1. reg \div 4 \in 0..63 /\ reg % 4 \in 0..3 /\ reg = 4 * (reg \div 4) + (reg % 4)
    BY DEF Byte
  <2> QED
    BY <2>1
<1>2. new = 4 * q + mode
  <2>1. new = reg + (mode - (reg % 4))
    BY DEF PamByte, ModeIn, Byte
  <2> QED
    BY <1>1, <2>1
<1> HIDE DEF new
<1>3. new \in Byte /\ Low(new) = mode
  BY <1>2 DEF Byte, Low
<1>4. new \div 16 = q \div 4 /\ reg \div 16 = q \div 4
  BY <1>1, <1>2
<1>5. High(new) = High(reg)
  BY <1>4 DEF High
<1> QED
  BY <1>3, <1>5 DEF new

LEMMA HighHalf ==
  ASSUME NEW reg \in Byte, NEW mode \in 0..3, NEW seg, Nibble(seg) = 16
  PROVE  /\ PamByte(reg, seg, mode) \in Byte
         /\ Low(PamByte(reg, seg, mode)) = Low(reg)
         /\ High(PamByte(reg, seg, mode)) = mode
<1> DEFINE new == PamByte(reg, seg, mode)
<1>1. PICK h \in 0..3, q \in 0..3, r \in 0..15 :
         reg = 64 * h + 16 * q + r /\ reg \div 16 = 4 * h + q /\ (reg \div 16) % 4 = q
  <2>1. /\ reg \div 16 \in 0..15 /\ reg % 16 \in 0..15
        /\ reg = 16 * (reg \div 16) + (reg % 16)
    BY DEF Byte
  <2>2. PICK d \in 0..15 : d = reg \div 16
    BY <2>1
  <2>3. d \div 4 \in 0..3 /\ d % 4 \in 0..3 /\ d = 4 * (d \div 4) + (d % 4)
    OBVIOUS
  <2> QED
    BY <2>1, <2>2, <2>3 DEF Byte
<1>2. new = 64 * h + 16 * mode + r
  <2>1. new = reg + (mode - ((reg \div 16) % 4)) * 16
    BY DEF PamByte, ModeIn
  <2> QED
    BY <1>1, <2>1
<1> HIDE DEF new
<1>3. new \in Byte /\ Low(new) = Low(reg)
  <2>1. new % 4 = r % 4 /\ reg % 4 = r % 4
    BY <1>1, <1>2
  <2> QED
    BY <1>2, <2>1 DEF Byte, Low
<1>4. new \div 16 = 4 * h + mode
  BY <1>2
<1>5. High(new) = mode
  BY <1>4 DEF High
<1> QED
  BY <1>3, <1>5 DEF new

\* Two segments that share a register are in different halves of it.
LEMMA Halves ==
  ASSUME NEW seg \in Segments
  PROVE  /\ Register(seg) \in 89..95
         /\ Nibble(seg) \in {1, 16}
         /\ \A other \in Segments :
              other # seg /\ Register(other) = Register(seg) => Nibble(other) # Nibble(seg)
<1>1. Register(seg) \in 89..95
  BY DEF Register, Segments
<1>2. Nibble(seg) \in {1, 16}
  BY DEF Nibble
<1>3. ASSUME NEW other \in Segments, other # seg, Register(other) = Register(seg)
      PROVE  Nibble(other) # Nibble(seg)
  <2>1. seg \div 2 = other \div 2
    BY <1>3 DEF Register, Segments
  <2>2. seg % 2 # other % 2
    BY <2>1, <1>3 DEF Segments
  <2>3. seg % 2 \in {0, 1} /\ other % 2 \in {0, 1}
    BY DEF Segments
  <2> QED
    BY <2>2, <2>3 DEF Nibble
<1> QED
  BY <1>1, <1>2, <1>3

\* A segment is in one half of a register, which holds a mode and no more.
LEMMA ModeInHalf ==
  ASSUME NEW reg \in Byte, NEW seg \in Segments
  PROVE  /\ ModeIn(reg, seg) = IF Nibble(seg) = 1 THEN Low(reg) ELSE High(reg)
         /\ ModeIn(reg, seg) \in 0..3
<1>1. reg \div 1 = reg /\ reg % 4 \in 0..3 /\ (reg \div 16) % 4 \in 0..3
  BY DEF Byte
<1>2. CASE Nibble(seg) = 1
  BY <1>1, <1>2 DEF ModeIn, Low
<1>3. CASE Nibble(seg) = 16
  BY <1>1, <1>3 DEF ModeIn, High
<1> QED
  BY <1>2, <1>3, Halves

LEMMA NibbleFacts ==
  ASSUME NEW reg \in Byte, NEW seg \in Segments, NEW mode \in 0..3
  PROVE  /\ PamByte(reg, seg, mode) \in Byte
         /\ ModeIn(PamByte(reg, seg, mode), seg) = mode
         /\ \A other \in Segments :
              other # seg /\ Register(other) = Register(seg) =>
                ModeIn(PamByte(reg, seg, mode), other) = ModeIn(reg, other)
<1>1. CASE Nibble(seg) = 1
  <2>1. ASSUME NEW other \in Segments, other # seg, Register(other) = Register(seg)
        PROVE  Nibble(other) # 1
    BY <2>1, <1>1, Halves
  <2> QED
    BY <2>1, <1>1, LowHalf, ModeInHalf
<1>2. CASE Nibble(seg) = 16
  <2>1. ASSUME NEW other \in Segments, other # seg, Register(other) = Register(seg)
        PROVE  Nibble(other) = 1
    BY <2>1, <1>2, Halves
  <2> QED
    BY <2>1, <1>2, HighHalf, ModeInHalf
<1> QED
  BY <1>1, <1>2, Halves

\* pam_set_mode sets the mode of one segment and leaves the others alone.
LEMMA PamSetFacts ==
  ASSUME pam \in [89..95 -> Byte], NEW seg \in Segments, NEW mode \in 0..3,
         pam' = PamSet(seg, mode)
  PROVE  /\ pam' \in [89..95 -> Byte]
         /\ handle => \A s \in Segments : Mode(s)' = IF s = seg THEN mode ELSE Mode(s)
         /\ ~handle => pam' = pam
<1>1. CASE handle
  <2> DEFINE reg == pam[Register(seg)]
             new == PamByte(reg, seg, mode)
  <2>1. Register(seg) \in 89..95 /\ reg \in Byte
    BY Halves
  <2>2. pam' = [pam EXCEPT ![Register(seg)] = new]
    BY <1>1 DEF PamSet
  <2>3. /\ new \in Byte /\ ModeIn(new, seg) = mode
        /\ \A other \in Segments : other # seg /\ Register(other) = Register(seg) =>
             ModeIn(new, other) = ModeIn(reg, other)
    <3> HIDE DEF reg
    <3> QED
      BY <2>1, NibbleFacts
  <2>4. pam' \in [89..95 -> Byte]
    BY <2>1, <2>2, <2>3
  <2>5. ASSUME NEW s \in Segments PROVE Mode(s)' = IF s = seg THEN mode ELSE Mode(s)
    <3>1. Register(s) \in 89..95 /\ Mode(s)' = ModeIn(pam'[Register(s)], s)
      BY Halves DEF Mode
    <3>2. CASE Register(s) = Register(seg)
      <4>1. pam'[Register(s)] = new
        BY <2>1, <2>2, <3>2
      <4> HIDE DEF new, reg
      <4>2. CASE s = seg
        BY <4>1, <4>2, <3>1, <2>3
      <4>3. CASE s # seg
        BY <4>1, <4>3, <3>1, <3>2, <2>3 DEF Mode, reg
      <4> QED
        BY <4>2, <4>3
    <3>3. CASE Register(s) # Register(seg)
      BY <3>1, <3>3, <2>1, <2>2 DEF Mode
    <3> QED
      BY <3>2, <3>3
  <2> QED
    BY <1>1, <2>4, <2>5
<1>2. CASE ~handle
  BY <1>2 DEF PamSet
<1> QED
  BY <1>1, <1>2

\* The lengths that are accepted are whole segments.
LEMMA RegionFacts ==
  /\ Regions(12, 64) = 1 /\ Regions(4, 64) = 4
  /\ \A len \in Nat : /\ Regions(0, len) \in 0..4 \cup {8}
                      /\ Regions(0, len) # 0 => len = 16 * Regions(0, len)
<1>1. Regions(12, 64) = 1 /\ Regions(4, 64) = 4
  BY DEF Regions
<1>2. ASSUME NEW len \in Nat
      PROVE  /\ Regions(0, len) \in 0..4 \cup {8}
             /\ Regions(0, len) # 0 => len = 16 * Regions(0, len)
  BY DEF Regions
<1> QED
  BY <1>1, <1>2

-----------------------------------------------------------------------------
(***************************************************************************)
(* The calls in progress.                                                  *)
(***************************************************************************)

LEMMA GoFacts ==
  ASSUME calls \in Seq(Frame), calls # <<>>, NEW phase \in Phases, NEW i \in Nat, Go(phase, i)
  PROVE  /\ calls' \in Seq(Frame) /\ Len(calls') = Len(calls) /\ calls' # <<>>
         /\ Top' = [Top EXCEPT !.phase = phase, !.i = i] /\ Top' \in Frame
         /\ Len(calls) = 2 => calls'[1] = calls[1]
<1>1. Len(calls) \in Nat /\ Len(calls) >= 1 /\ Top \in Frame
  BY EmptySeq, ElementOfSeq, LenProperties DEF Top
<1>2. calls' = [calls EXCEPT ![Len(calls)] = [Top EXCEPT !.phase = phase, !.i = i]]
  BY <1>1 DEF Go, Top
<1>3. [Top EXCEPT !.phase = phase, !.i = i] \in Frame
  BY <1>1 DEF Frame
<1>4. calls' \in Seq(Frame) /\ Len(calls') = Len(calls)
  BY <1>1, <1>2, <1>3, ExceptSeq
<1> QED
  BY <1>1, <1>2, <1>3, <1>4 DEF Top

LEMMA BelowFacts ==
  ASSUME calls \in Seq(Frame), calls # <<>>
  PROVE  /\ Len(calls) = 1 => Below = <<>>
         /\ Len(calls) = 2 => /\ Below \in Seq(Frame) /\ Len(Below) = 1
                              /\ Below[1] = calls[1]
<1>1. CASE Len(calls) = 1
  BY <1>1, SubSeqEmpty DEF Below
<1>2. CASE Len(calls) = 2
  <2>1. \A i \in 1..1 : calls[i] \in Frame
    BY <1>2, ElementOfSeq
  <2>2. Below = SubSeq(calls, 1, 1)
    BY <1>2 DEF Below
  <2> QED
    BY <1>2, <2>1, <2>2, SubSeqProperties
<1> QED
  BY <1>1, <1>2

\* The call in progress is one of three.
LEMMA TopFacts ==
  ASSUME CallsInv, calls # <<>>
  PROVE  /\ Top \in Frame /\ Len(calls) \in 1..2
         /\ \/ /\ Top.page = 12 /\ Top.len = 64 /\ Top.src = 12
               /\ pc = "runtime" /\ handle /\ Len(calls) = 1
            \/ /\ Top.page = 0 /\ Top.len = romLen /\ Top.src = HighRom
               /\ pc = "unmap" /\ Len(calls) = 1
            \/ /\ Top.page = 4 /\ Top.len = 64 /\ Top.src = HighRom + 4
               /\ pc = "unmap" /\ Len(calls) = 2 /\ romLen = 128
<1>1. Len(calls) \in 1..2 /\ calls \in Seq(Frame)
  BY EmptySeq DEF CallsInv
<1>2. Top \in Frame
  BY <1>1, ElementOfSeq DEF Top
<1>3. pc = "runtime" \/ pc = "unmap"
  BY DEF CallsInv
<1>4. CASE pc = "runtime"
  BY <1>1, <1>2, <1>4 DEF CallsInv
<1>5. CASE pc = "unmap" /\ Len(calls) = 1
  BY <1>1, <1>2, <1>5 DEF CallsInv
<1>6. CASE pc = "unmap" /\ Len(calls) = 2
  BY <1>1, <1>2, <1>6 DEF CallsInv
<1> QED
  BY <1>1, <1>3, <1>4, <1>5, <1>6

\* What it opens are whole segments of the ROM it copies.
LEMMA OpenedFacts ==
  ASSUME CallsInv, calls # <<>>, romLen \in Nat, Opened \in 1..4
  PROVE  /\ Top.page = 12 => Opened = 1
         /\ Top.page = 4  => Opened = 4
         /\ Top.page = 0  => (romLen = 128 /\ Opened = 4) \/ romLen = 16 * Opened
<1>1. CASE Top.page = 12
  BY <1>1, TopFacts, RegionFacts DEF Opened
<1>2. CASE Top.page = 4
  BY <1>2, TopFacts, RegionFacts DEF Opened
<1>3. CASE Top.page = 0
  <2>1. Top.len = romLen
    BY <1>3, TopFacts
  <2> DEFINE n == Regions(0, romLen)
  <2>2. n \in 0..4 \cup {8} /\ (n # 0 => romLen = 16 * n)
    BY RegionFacts
  <2>3. Opened = IF n = 8 THEN 4 ELSE n
    BY <1>3, <2>1 DEF Opened
  <2> HIDE DEF n
  <2> QED
    BY <1>3, <2>2, <2>3
<1> QED
  BY <1>1, <1>2, <1>3

LEMMA ModeFacts ==
  ASSUME pam \in [89..95 -> Byte]
  PROVE  \A seg \in Segments : Mode(seg) \in 0..3
BY Halves, ModeInHalf DEF Mode

LEMMA SegFacts ==
  /\ \A p \in Pages : /\ Seg(p) \in Segments
                      /\ p \in BiosPages <=> p \in 12..15
                      /\ p \in BiosPages => Seg(p) = 1
                      /\ p \notin BiosPages => Seg(p) = p + 2
  /\ Seg(12) = 1 /\ Seg(0) = 2 /\ Seg(4) = 6
BY DEF Pages, Seg, Segments, BiosPages

-----------------------------------------------------------------------------
(***************************************************************************)
(* The invariant holds initially.                                          *)
(***************************************************************************)

LEMMA InitIInv == ASSUME Init PROVE IInv
<1>1. TypeOK
  <2>1. bar \in [Slots -> {"zero", "preset", "ones", "high"}]
    BY DEF Init, Preset
  <2>2. pam \in [89..95 -> 0..255]
    BY DEF Init
  <2>3. DOMAIN ram = Pages /\ \A p \in Pages : ram[p] \in Contents
    BY DEF Init, Contents
  <2>4. at \in 0..LastSlot + 1 /\ Len(calls) \in 0..2
    BY SlotAssumption, EmptySeq DEF Init
  <2>5. cmd \in [Slots -> SUBSET {"master", "io", "memory"}]
    BY DEF Init
  <2> QED
    BY <2>1, <2>2, <2>3, <2>4, <2>5 DEF Init, TypeOK
<1>2. \A seg \in Segments : Mode(seg) = 0
  <2>1. ASSUME NEW seg \in Segments PROVE Mode(seg) = 0
    <3>1. Register(seg) \in 89..95 /\ Nibble(seg) \in {1, 16}
      BY Halves
    <3>2. pam[Register(seg)] = 0
      BY <3>1 DEF Init
    <3> QED
      BY <3>1, <3>2 DEF Mode, ModeIn
  <2> QED
    BY <2>1
<1>3. HandleInv
  BY <1>2 DEF Init, HandleInv, Scanning
<1>4. ScanInv
  BY SlotAssumption DEF Init, ScanInv, Slots, Mapping
<1>5. BarInv
  BY DEF Init, BarInv
<1>6. MemoryEnabled /\ Progress /\ UpperShadowed /\ Shadowed
  BY DEF Init, MemoryEnabled, Progress, UpperShadowed, Shadowed
<1>7. CallsInv
  BY EmptySeq DEF Init, CallsInv
<1>8. ShadowIsRom
  BY <1>2, SegFacts DEF ShadowIsRom
<1> QED
  BY <1>1, <1>3, <1>4, <1>5, <1>6, <1>7, <1>8 DEF IInv

-----------------------------------------------------------------------------
(***************************************************************************)
(* The steps of a shadowing call.                                          *)
(***************************************************************************)

\* They leave the bus and pci_configure where they are.
LEMMA RestKept ==
  ASSUME IInv, UNCHANGED Rest
  PROVE  ScanInv' /\ BarInv' /\ MemoryEnabled' /\ ChipsetFound' = ChipsetFound
<1>1. /\ slots' = slots /\ romLen' = romLen /\ premapped' = premapped /\ bar' = bar
      /\ cmd' = cmd /\ handle' = handle /\ pc' = pc /\ at' = at /\ original' = original
  BY DEF Rest, hw
<1>2. \A s \in Slots : Preset(s)' = Preset(s)
  BY <1>1 DEF Preset
<1>3. VgaSlots' = VgaSlots
  BY <1>1, <1>2 DEF VgaSlots
<1>4. ScanInv' /\ MemoryEnabled'
  BY <1>1, <1>3 DEF IInv, ScanInv, MemoryEnabled
<1>5. BarInv'
  BY <1>1, <1>2 DEF IInv, BarInv
<1>6. ChipsetFound' = ChipsetFound
  BY <1>1 DEF ChipsetFound
<1> QED
  BY <1>4, <1>5, <1>6

\* The types, given those of what a step changes.
LEMMA RestTypes ==
  ASSUME TypeOK, UNCHANGED Rest, pam' \in [89..95 -> Byte], Len(calls)' \in 0..2,
         DOMAIN ram' = Pages, \A p \in Pages : ram'[p] \in Contents
  PROVE  TypeOK'
BY DEF TypeOK, Rest, hw, Byte, Contents, Slots, Pages

LEMMA CallsTypes ==
  ASSUME TypeOK, UNCHANGED Rest, UNCHANGED pam, UNCHANGED ram, Len(calls)' \in 0..2
  PROVE  TypeOK'
<1>1. /\ pam' \in [89..95 -> Byte] /\ DOMAIN ram' = Pages
      /\ \A p \in Pages : ram'[p] \in Contents
  BY DEF TypeOK, Byte
<1> QED
  BY <1>1, RestTypes

\* While the registers and the RAM stay, so does what can be read.
LEMMA MemoryKept ==
  ASSUME UNCHANGED <<pam, ram>>
  PROVE  /\ \A seg \in Segments : Mode(seg)' = Mode(seg)
         /\ ShadowIsRom => ShadowIsRom'
BY DEF Mode, ShadowIsRom

\* The call that split returns to its own opening of the lower half.
LEMMA PopFacts ==
  ASSUME CallsInv, calls # <<>>, calls' = Below, UNCHANGED <<pc, romLen, handle>>
  PROVE  /\ CallsInv'
         /\ Len(calls) = 1 => calls' = <<>> /\ Len(calls)' = 0
         /\ Len(calls) = 2 => /\ calls' # <<>> /\ Len(calls)' = 1
                              /\ Top' = [Call(0, romLen, HighRom) EXCEPT !.phase = "open"]
<1>1. Len(calls) \in 1..2 /\ calls \in Seq(Frame) /\ (pc = "runtime" \/ pc = "unmap")
  BY TopFacts DEF CallsInv
<1>2. CASE Len(calls) = 1
  <2>1. calls' = <<>> /\ Len(calls)' = 0
    BY <1>1, <1>2, BelowFacts, EmptySeq
  <2>2. CallsInv'
    BY <2>1, EmptySeq DEF CallsInv
  <2> QED
    BY <1>2, <2>1, <2>2
<1>3. CASE Len(calls) = 2
  <2> DEFINE outer == [Call(0, romLen, HighRom) EXCEPT !.phase = "open"]
  <2>1. pc = "unmap" /\ calls[1] = outer
    BY <1>3 DEF CallsInv
  <2>2. calls' \in Seq(Frame) /\ Len(calls)' = 1 /\ calls'[1] = calls[1]
    BY <1>1, <1>3, BelowFacts
  <2>3. calls' # <<>> /\ Top' = outer
    BY <2>1, <2>2, EmptySeq DEF Top
  <2>4. Top'.page = 0 /\ Top'.len = romLen /\ Top'.src = HighRom
    BY <2>3 DEF Call
  <2>5. CallsInv'
    BY <2>1, <2>2, <2>3, <2>4 DEF CallsInv
  <2> QED
    BY <1>3, <2>2, <2>3, <2>5
<1> QED
  BY <1>1, <1>2, <1>3

LEMMA GoKeepsCalls ==
  ASSUME CallsInv, calls # <<>>, NEW phase \in Phases, NEW i \in Nat, Go(phase, i),
         UNCHANGED <<pc, romLen, handle>>
  PROVE  /\ CallsInv' /\ calls' # <<>> /\ Len(calls') = Len(calls)
         /\ Top'.page = Top.page /\ Top'.len = Top.len /\ Top'.src = Top.src
         /\ Top'.phase = phase /\ Top'.i = i /\ Opened' = Opened
<1>1. /\ calls' \in Seq(Frame) /\ Len(calls') = Len(calls) /\ calls' # <<>>
      /\ Top' = [Top EXCEPT !.phase = phase, !.i = i]
      /\ Len(calls) = 2 => calls'[1] = calls[1]
  BY GoFacts DEF CallsInv
<1>2. /\ Top'.page = Top.page /\ Top'.len = Top.len /\ Top'.src = Top.src
      /\ Top'.phase = phase /\ Top'.i = i
  BY <1>1, TopFacts DEF Frame
<1>3. CallsInv'
  BY <1>1, <1>2 DEF CallsInv
<1>4. Opened' = Opened
  BY <1>2 DEF Opened
<1> QED
  BY <1>1, <1>2, <1>3, <1>4

LEMMA RefuseIInv == ASSUME IInv, Refuse PROVE IInv'
<1>1. /\ UNCHANGED <<Rest, pam, ram>> /\ calls # <<>> /\ calls' = Below
      /\ Top.phase = "enter" /\ Regions(Top.page, Top.len) = 0
  BY DEF Refuse, In
<1>2. /\ TypeOK /\ CallsInv /\ HandleInv /\ ShadowIsRom
      /\ UNCHANGED <<pc, romLen, handle, at>> /\ romLen \in Nat
  BY <1>1, LenAssumption DEF IInv, TypeOK, Rest, hw
<1>3. Len(calls) = 1 /\ (pc = "unmap" => Top.page = 0 /\ Top.len = romLen)
  BY <1>1, <1>2, TopFacts, RegionFacts
<1>4. CallsInv' /\ calls' = <<>> /\ Len(calls)' = 0
  BY <1>1, <1>2, <1>3, PopFacts
<1>5. TypeOK'
  BY <1>1, <1>2, <1>4, CallsTypes
<1>6. HandleInv'
  BY <1>1, <1>2, RestKept, MemoryKept DEF HandleInv
<1>7. Progress' /\ UpperShadowed'
  BY <1>4 DEF Progress, UpperShadowed
<1>8. Shadowed'
  BY <1>1, <1>2, <1>3, TopFacts DEF Shadowed
<1> QED
  BY <1>1, <1>2, <1>4, <1>5, <1>6, <1>7, <1>8, RestKept, MemoryKept DEF IInv

LEMMA AcceptIInv == ASSUME IInv, Accept PROVE IInv'
<1>1. /\ UNCHANGED <<Rest, pam, ram>> /\ calls # <<>> /\ Go("open", 0)
      /\ Top.phase = "enter" /\ Regions(Top.page, Top.len) \in 1..4
  BY DEF Accept, In
<1>2. /\ TypeOK /\ CallsInv /\ HandleInv /\ ShadowIsRom
      /\ UNCHANGED <<pc, romLen, handle, at>> /\ romLen \in Nat
  BY <1>1, LenAssumption DEF IInv, TypeOK, Rest, hw
<1>3. /\ CallsInv' /\ calls' # <<>> /\ Len(calls') = Len(calls) /\ Opened' = Opened
      /\ Top'.page = Top.page /\ Top'.len = Top.len /\ Top'.phase = "open" /\ Top'.i = 0
  BY <1>1, <1>2, GoKeepsCalls DEF Phases
<1>4. TypeOK'
  BY <1>1, <1>2, <1>3, TopFacts, CallsTypes
<1>5. HandleInv'
  BY <1>1, <1>2, RestKept, MemoryKept DEF HandleInv
<1>6. Progress'
  <2>1. Opened \in 1..4
    BY <1>1 DEF Opened
  <2> QED
    BY <1>3, <2>1 DEF Progress
<1>7. UpperShadowed'
  <2>1. CASE pc = "unmap" /\ Len(calls) = 1 /\ romLen = 128
    BY <1>1, <1>2, <2>1, TopFacts DEF Regions
  <2> QED
    BY <1>2, <1>3, <2>1 DEF UpperShadowed
<1>8. Shadowed'
  BY <1>3 DEF Shadowed
<1> QED
  BY <1>1, <1>2, <1>3, <1>4, <1>5, <1>6, <1>7, <1>8, RestKept, MemoryKept DEF IInv

LEMMA PairFacts ==
  ASSUME NEW S, NEW a \in S, NEW b \in S, NEW pair, pair = Append(Append(<<>>, a), b)
  PROVE  pair \in Seq(S) /\ pair # <<>> /\ Len(pair) = 2 /\ pair[1] = a /\ pair[2] = b
OBVIOUS

LEMMA SplitIInv == ASSUME IInv, Split PROVE IInv'
<1> DEFINE outer == [Top EXCEPT !.phase = "open"]
           inner == Call(Top.page + 4, 64, Top.src + 4)
<1>1. /\ UNCHANGED <<Rest, pam, ram>> /\ calls # <<>>
      /\ calls' = Append(Append(Below, outer), inner)
      /\ Top.phase = "enter" /\ Regions(Top.page, Top.len) = 8
  BY DEF Split, In
<1>2. /\ TypeOK /\ CallsInv /\ HandleInv /\ ShadowIsRom /\ Progress
      /\ UNCHANGED <<pc, romLen, handle, at>> /\ romLen \in Nat
  BY <1>1, LenAssumption DEF IInv, TypeOK, Rest, hw
<1>3. /\ Top.page = 0 /\ Top.len = romLen /\ Top.src = HighRom /\ Top.i = 0 /\ romLen = 128
      /\ pc = "unmap" /\ Len(calls) = 1 /\ Top \in Frame
  BY <1>1, <1>2, TopFacts, RegionFacts DEF Progress
<1>4. outer = [Call(0, romLen, HighRom) EXCEPT !.phase = "open"] /\ outer \in Frame
  <2>1. Top = [page |-> 0, len |-> romLen, src |-> HighRom, i |-> 0, phase |-> "enter"]
    BY <1>1, <1>3 DEF Frame
  <2> QED
    BY <1>2, <2>1 DEF Call, Frame, Phases, HighRom
<1>5. inner = Call(4, 64, HighRom + 4) /\ inner \in Frame
  BY <1>3 DEF Call, Frame, Phases, HighRom
<1> HIDE DEF outer, inner
<1>6. Below = <<>>
  BY <1>1, <1>2, <1>3, BelowFacts DEF CallsInv
<1>7. /\ calls' \in Seq(Frame) /\ Len(calls') = 2 /\ calls' # <<>>
      /\ calls'[1] = outer /\ Top' = inner
  <2>1. calls' = Append(Append(<<>>, outer), inner)
    BY <1>1, <1>6
  <2>2. /\ calls' \in Seq(Frame) /\ Len(calls') = 2 /\ calls' # <<>>
        /\ calls'[1] = outer /\ calls'[2] = inner
    BY <1>4, <1>5, <2>1, PairFacts
  <2> QED
    BY <2>2 DEF Top
<1>8. Top'.page = 4 /\ Top'.len = 64 /\ Top'.src = HighRom + 4 /\ Top'.phase = "enter" /\ Top'.i = 0
  BY <1>5, <1>7 DEF Call
<1>9. CallsInv'
  BY <1>2, <1>3, <1>4, <1>7, <1>8 DEF CallsInv
<1>10. TypeOK'
  BY <1>1, <1>2, <1>7, CallsTypes
<1>11. HandleInv'
  BY <1>1, <1>2, RestKept, MemoryKept DEF HandleInv
<1>12. Progress' /\ UpperShadowed' /\ Shadowed'
  BY <1>7, <1>8 DEF Progress, UpperShadowed, Shadowed
<1> QED
  BY <1>1, <1>2, <1>9, <1>10, <1>11, <1>12, RestKept, MemoryKept DEF IInv

\* The segment at which an opened call is.
LEMMA SegmentFacts ==
  ASSUME IInv, calls # <<>>, Top.phase # "enter", NEW j \in 0..3, j < Opened
  PROVE  /\ Seg(Top.page) + j \in Segments
         /\ Top.page = 12 => j = 0
         /\ Top.page \in {0, 4} => Top.page + j \in Pages /\ Seg(Top.page + j) = Seg(Top.page) + j
<1>1. CallsInv /\ romLen \in Nat /\ Opened \in 1..4
  BY LenAssumption DEF IInv, TypeOK, Progress
<1>2. Top.page \in {0, 4, 12} /\ (Top.page = 12 => Opened = 1)
  BY <1>1, TopFacts, OpenedFacts
<1>3. CASE Top.page = 12
  BY <1>2, <1>3 DEF Seg, Segments, BiosPages
<1>4. CASE Top.page = 0
  BY <1>4 DEF Seg, Segments, BiosPages, Pages
<1>5. CASE Top.page = 4
  BY <1>5 DEF Seg, Segments, BiosPages, Pages
<1> QED
  BY <1>2, <1>3, <1>4, <1>5

\* Without a 440FX no call changes a register or gets at the RAM.
LEMMA NoChipset ==
  ASSUME IInv, calls # <<>>, ~handle
  PROVE  pc = "unmap" /\ ~ChipsetFound /\ \A seg \in Segments : Mode(seg) = 0
<1>1. pc = "unmap"
  BY TopFacts DEF IInv
<1> QED
  BY <1>1 DEF IInv, HandleInv, Scanning

LEMMA OpenSegmentIInv == ASSUME IInv, OpenSegment PROVE IInv'
<1>1. UNCHANGED <<Rest, ram>> /\ calls # <<>> /\ Top.phase = "open"
  BY DEF OpenSegment, In
<1>2. /\ TypeOK /\ CallsInv /\ HandleInv /\ ShadowIsRom /\ Progress /\ UpperShadowed
      /\ UNCHANGED <<pc, romLen, handle, at>> /\ romLen \in Nat /\ handle \in BOOLEAN
      /\ pam \in [89..95 -> Byte]
  BY <1>1, LenAssumption DEF IInv, TypeOK, Rest, hw, Byte
<1>3. /\ Top \in Frame /\ Opened \in 1..4 /\ Top.i \in Nat /\ Top.i =< Opened
      /\ Top.len \in Nat /\ Top.page \in Nat
      /\ handle => \A j \in 0..3 : j < Top.i => Mode(Seg(Top.page) + j) = 2
  BY <1>1, <1>2, TopFacts DEF Progress, Frame
<1>4. CASE Top.i < Opened
  <2> DEFINE seg == Seg(Top.page) + Top.i
  <2>1. pam' = PamSet(seg, 2) /\ Go("open", Top.i + 1)
    BY <1>1, <1>4 DEF OpenSegment, WriteOnly
  <2>2. /\ CallsInv' /\ calls' # <<>> /\ Len(calls') = Len(calls) /\ Opened' = Opened
        /\ Top'.page = Top.page /\ Top'.len = Top.len
        /\ Top'.phase = "open" /\ Top'.i = Top.i + 1
    BY <1>1, <1>2, <1>3, <2>1, GoKeepsCalls DEF Phases
  <2>3. seg \in Segments
    BY <1>1, <1>3, <1>4, SegmentFacts
  <2> HIDE DEF seg
  <2>4. /\ pam' \in [89..95 -> Byte]
        /\ handle => \A s \in Segments : Mode(s)' = IF s = seg THEN 2 ELSE Mode(s)
        /\ ~handle => pam' = pam
    BY <1>2, <2>1, <2>3, PamSetFacts
  <2>5. TypeOK'
    BY <1>1, <1>2, <2>2, <2>4, TopFacts, RestTypes DEF TypeOK
  <2>6. HandleInv'
    BY <1>1, <1>2, <2>4, RestKept, MemoryKept DEF HandleInv
  <2>7. Progress'
    <3>1. PICK page \in Nat : page = Top.page
      BY <1>3
    <3>2. ASSUME handle, NEW j \in 0..3, j < Top.i + 1 PROVE Mode(Seg(page) + j)' = 2
      <4>1. j < Opened
        BY <1>3, <1>4, <3>2
      <4>2. Seg(page) + j \in Segments
        BY <1>1, <3>1, <4>1, SegmentFacts
      <4>3. CASE j = Top.i
        BY <2>4, <3>1, <3>2, <4>2, <4>3 DEF seg
      <4>4. CASE j < Top.i
        BY <1>3, <2>4, <3>1, <3>2, <4>2, <4>4
      <4> QED
        BY <1>3, <3>2, <4>3, <4>4
    <3> QED
      BY <1>2, <1>3, <1>4, <2>2, <3>1, <3>2 DEF Progress
  <2>8. UpperShadowed'
    <3>1. SUFFICES ASSUME pc = "unmap", Len(calls) = 1, romLen = 128, handle, NEW p \in 4..7
                   PROVE  Mode(Seg(p))' = 3
      BY <1>2, <2>2, <3>1 DEF UpperShadowed
    <3>2. Mode(Seg(p)) = 3 /\ Seg(p) \in Segments /\ Seg(p) = p + 2
      BY <1>1, <1>2, <3>1, SegFacts DEF UpperShadowed, Pages, BiosPages
    <3>3. Top.page = 0
      BY <1>2, <3>1, <1>1, TopFacts
    <3>4. seg = 2 + Top.i
      BY <3>3, SegFacts DEF seg
    <3> QED
      BY <1>3, <1>4, <2>4, <3>1, <3>2, <3>4
  <2>9. ShadowIsRom'
    BY <1>1, <1>2, <2>4, SegFacts, MemoryKept DEF ShadowIsRom
  <2> QED
    BY <1>1, <2>2, <2>5, <2>6, <2>7, <2>8, <2>9, RestKept DEF IInv, Shadowed
<1>5. CASE ~(Top.i < Opened)
  <2>1. pam' = pam /\ Go("copy", 0)
    BY <1>1, <1>5 DEF OpenSegment
  <2>2. /\ CallsInv' /\ calls' # <<>> /\ Len(calls') = Len(calls) /\ Opened' = Opened
        /\ Top'.page = Top.page /\ Top'.len = Top.len /\ Top'.phase = "copy" /\ Top'.i = 0
    BY <1>1, <1>2, <2>1, GoKeepsCalls DEF Phases
  <2>3. TypeOK'
    BY <1>1, <1>2, <2>1, <2>2, TopFacts, RestTypes DEF TypeOK
  <2>4. HandleInv'
    BY <1>1, <1>2, <2>1, RestKept, MemoryKept DEF HandleInv
  <2>5. Progress'
    <3>1. PICK page \in Nat : page = Top.page
      BY <1>3
    <3>2. ASSUME handle, NEW j \in 0..3, j < Opened PROVE Mode(Seg(page) + j)' = 2
      <4>1. Seg(page) + j \in Segments /\ Mode(Seg(page) + j) = 2
        BY <1>1, <1>3, <1>5, <3>1, <3>2, SegmentFacts
      <4> QED
        BY <1>1, <2>1, <4>1, MemoryKept
    <3> QED
      BY <1>2, <1>3, <2>2, <3>1, <3>2 DEF Progress, Copied
  <2>6. UpperShadowed'
    BY <1>1, <1>2, <2>1, <2>2, MemoryKept, SegFacts DEF UpperShadowed, Pages
  <2> QED
    BY <1>1, <1>2, <2>1, <2>2, <2>3, <2>4, <2>5, <2>6, RestKept, MemoryKept DEF IInv, Shadowed
<1> QED
  BY <1>4, <1>5

\* What a call copies is the ROM: the BIOS is read where it is shadowed, whose
\* segment is read from ROM while it is opened; the VGA ROM in its window.
LEMMA ReadFacts ==
  ASSUME IInv, calls # <<>>, Top.phase = "copy", handle, 16 * Top.i < Top.len
  PROVE  /\ Top.page + Top.i \in Pages
         /\ Read(Top.src + Top.i) = Rom(Top.page + Top.i)
         /\ Mode(Seg(Top.page + Top.i)) \in {2, 3}
<1>1. /\ CallsInv /\ romLen \in Nat /\ Opened \in 1..4 /\ Top.i \in Nat
      /\ \A j \in 0..3 : j < Opened => Mode(Seg(Top.page) + j) = 2
  BY LenAssumption, TopFacts DEF IInv, TypeOK, Progress, Frame
<1>2. CASE Top.page = 12
  <2>1. Top.src = 12 /\ Top.len = 64 /\ Opened = 1
    BY <1>1, <1>2, TopFacts, OpenedFacts
  <2>2. Top.i \in 0..3 /\ 12 + Top.i \in Pages /\ 12 + Top.i \in BiosPages
    BY <1>1, <2>1 DEF Pages, BiosPages
  <2>3. Seg(12 + Top.i) = 1
    BY <2>2 DEF Seg
  <2>4. Mode(1) = 2
    <3>1. Mode(Seg(12) + 0) = 2 /\ Seg(12) + 0 = 1
      BY <1>1, <1>2, <2>1, SegFacts
    <3> QED
      BY <3>1
  <2>5. Read(12 + Top.i) = RomPage(12 + Top.i)
    BY <2>2, <2>3, <2>4 DEF Read, HighRom
  <2> QED
    BY <1>2, <2>1, <2>2, <2>3, <2>4, <2>5 DEF RomPage, Rom
<1>3. CASE Top.page \in {0, 4}
  <2>1. pc = "unmap" /\ Top.src = HighRom + Top.page /\ romLen \in Nat
    BY <1>1, <1>3, TopFacts DEF HighRom
  <2>2. /\ 16 * (Top.page + Top.i) < romLen /\ Top.page + Top.i \in 0..7
        /\ Top.i < Opened \/ (Top.page = 0 /\ romLen = 128 /\ Opened = 4)
    <3>1. CASE Top.page = 0
      <4>1. Top.len = romLen
        BY <1>1, <3>1, TopFacts
      <4>2. (romLen = 128 /\ Opened = 4) \/ romLen = 16 * Opened
        BY <1>1, <3>1, OpenedFacts
      <4> QED
        BY <1>1, <3>1, <4>1, <4>2
    <3>2. CASE Top.page = 4
      <4>1. Top.len = 64 /\ romLen = 128 /\ Opened = 4
        BY <1>1, <3>2, TopFacts, OpenedFacts
      <4> QED
        BY <1>1, <3>2, <4>1
    <3> QED
      BY <1>3, <3>1, <3>2
  <2> DEFINE to == Top.page + Top.i
  <2>3. to \in Pages /\ to \notin BiosPages /\ Seg(to) = to + 2
    BY <2>2 DEF Pages, BiosPages, Seg
  <2>4. at \in Slots /\ slots[at] = "vga" /\ bar[at] = "high" /\ "memory" \in cmd[at]
    BY <2>1 DEF IInv, ScanInv, Mapping, VgaSlots, BarInv, MemoryEnabled
  <2>5. Window(to) = <<"vga", to>>
    BY <2>2, <2>4 DEF Window
  <2>6. Read(Top.src + Top.i) = Window(to)
    <3>1. Top.src + Top.i = HighRom + to
      BY <1>1, <1>3, <2>1 DEF HighRom
    <3>2. Read(HighRom + to) = Window(HighRom + to - HighRom) /\ HighRom + to - HighRom = to
      BY <2>2 DEF HighRom, Read
    <3> QED
      BY <3>1, <3>2
  <2>7. Mode(Seg(to)) \in {2, 3}
    <3>1. CASE Top.i < Opened
      <4>1. Top.i \in 0..3
        BY <1>1, <3>1
      <4>2. Mode(Seg(Top.page) + Top.i) = 2
        BY <1>1, <3>1, <4>1
      <4> QED
        BY <1>3, <3>1, <4>1, <4>2, SegmentFacts
    <3>2. CASE ~(Top.i < Opened)
      <4>1. Len(calls) = 1 /\ romLen = 128 /\ Top.page = 0
        BY <1>1, <2>2, <3>2, TopFacts
      <4>2. to \in 4..7
        BY <1>1, <2>2, <3>2, <4>1
      <4> QED
        BY <2>1, <4>1, <4>2 DEF IInv, UpperShadowed
    <3> QED
      BY <3>1, <3>2
  <2> QED
    BY <2>3, <2>5, <2>6, <2>7 DEF Rom
<1> QED
  BY <1>1, <1>2, <1>3, TopFacts

LEMMA CopyPageIInv == ASSUME IInv, CopyPage PROVE IInv'
<1>1. UNCHANGED <<Rest, pam>> /\ calls # <<>> /\ Top.phase = "copy"
  BY DEF CopyPage, In
<1>2. /\ TypeOK /\ CallsInv /\ HandleInv /\ ShadowIsRom /\ Progress /\ UpperShadowed
      /\ UNCHANGED <<pc, romLen, handle, at>> /\ romLen \in Nat /\ handle \in BOOLEAN
      /\ pam \in [89..95 -> Byte] /\ DOMAIN ram = Pages /\ \A p \in Pages : ram[p] \in Contents
  BY <1>1, LenAssumption DEF IInv, TypeOK, Rest, hw, Byte
<1>3. /\ Top \in Frame /\ Opened \in 1..4 /\ Top.i \in Nat /\ 16 * Top.i =< Top.len
      /\ Top.len \in Nat /\ Top.page \in {0, 4, 12}
      /\ handle => Copied(Top.page, Top.i)
      /\ handle => \A j \in 0..3 : j < Opened => Mode(Seg(Top.page) + j) = 2
  BY <1>1, <1>2, TopFacts DEF Progress, Frame
<1>4. PICK page \in {0, 4, 12} : page = Top.page
  BY <1>3
<1>5. PICK i \in Nat : i = Top.i
  BY <1>3
<1>6. \A seg \in Segments : Mode(seg)' = Mode(seg)
  BY <1>1 DEF Mode
<1>7. HandleInv'
  BY <1>1, <1>2, <1>6, RestKept DEF HandleInv
<1>8. handle => \A j \in 0..3 : j < Opened => Mode(Seg(page) + j)' = 2
  <2>1. ASSUME handle, NEW j \in 0..3, j < Opened PROVE Mode(Seg(page) + j)' = 2
    <3>1. Seg(page) + j \in Segments /\ Mode(Seg(page) + j) = 2
      BY <1>1, <1>3, <1>4, <2>1, SegmentFacts
    <3> QED
      BY <1>6, <3>1
  <2> QED
    BY <2>1
<1>9. CASE 16 * Top.i < Top.len
  <2> DEFINE to == page + i
  <2>1. /\ Go("copy", Top.i + 1)
        /\ ram' = IF Mode(Seg(to)) \in {2, 3} THEN [ram EXCEPT ![to] = Read(Top.src + i)] ELSE ram
    BY <1>4, <1>5, <1>9 DEF CopyPage
  <2>2. /\ CallsInv' /\ calls' # <<>> /\ Len(calls') = Len(calls) /\ Opened' = Opened
        /\ Top'.page = Top.page /\ Top'.len = Top.len
        /\ Top'.phase = "copy" /\ Top'.i = Top.i + 1
    BY <1>1, <1>2, <1>3, <2>1, GoKeepsCalls DEF Phases
  <2>3. handle => to \in Pages /\ ram' = [ram EXCEPT ![to] = Rom(to)]
    BY <1>1, <1>4, <1>5, <1>9, <2>1, ReadFacts
  <2>4. ~handle => ram' = ram
    <3>1. CASE ~handle
      <4>1. to \in Pages
        <5>0. Top.page \in {0, 4} /\ (Top.page = 4 => Top.len = 64)
          BY <1>1, <1>2, <3>1, TopFacts
        <5>a. Top.page = 0 => Top.len =< 128
          <6>1. Top.page = 0 => Top.len = romLen
            BY <1>1, <1>2, TopFacts
          <6>2. Top.page = 0 => romLen = 128 \/ romLen = 16 * Opened
            BY <1>1, <1>2, <1>3, OpenedFacts
          <6> QED
            BY <1>3, <6>1, <6>2
        <5>1. page \in {0, 4} /\ 16 * i < 128
          BY <1>3, <1>4, <1>5, <1>9, <5>0, <5>a
        <5> QED
          BY <5>1, <1>5 DEF Pages
      <4>2. Mode(Seg(to)) = 0
        BY <1>1, <3>1, <4>1, NoChipset, SegFacts
      <4> QED
        BY <2>1, <4>2
    <3> QED
      BY <3>1
  <2>5. DOMAIN ram' = Pages /\ \A p \in Pages : ram'[p] = ram[p] \/ ram'[p] = Rom(p)
    BY <1>2, <2>3, <2>4
  <2>6. TypeOK'
    <3>1. \A p \in Pages : Rom(p) \in Contents
      BY DEF Rom, Contents
    <3>2. \A p \in Pages : ram'[p] \in Contents
      BY <1>2, <2>5, <3>1
    <3> QED
      BY <1>1, <1>2, <2>2, <2>5, <3>2, TopFacts, RestTypes DEF TypeOK
  <2>7. handle => Copied(page, i + 1)'
    <3>1. ASSUME handle, NEW j \in 0..15, j < i + 1 PROVE ram'[page + j] = Rom(page + j)
      <4>1. CASE j = i
        BY <1>2, <2>3, <3>1, <4>1
      <4>2. CASE j < i
        <5>1. ram[page + j] = Rom(page + j)
          BY <1>3, <1>4, <1>5, <3>1, <4>2 DEF Copied
        <5>2. page + j \in Pages /\ page + j # to
          BY <1>5, <2>3, <3>1, <4>2 DEF Pages
        <5> QED
          BY <1>2, <2>3, <3>1, <5>1, <5>2
      <4> QED
        BY <1>5, <3>1, <4>1, <4>2
    <3> QED
      BY <3>1 DEF Copied
  <2>8. 16 * (Top.i + 1) =< Top.len
    <3>1. Top.len = 64 \/ Top.len = 128 \/ Top.len = 16 * Opened
      BY <1>1, <1>2, <1>3, TopFacts, OpenedFacts
    <3> QED
      BY <1>3, <1>9, <3>1
  <2>9. Progress'
    BY <1>2, <1>3, <1>4, <1>5, <1>8, <2>2, <2>7, <2>8 DEF Progress
  <2>10. UpperShadowed'
    BY <1>1, <1>2, <1>6, <2>2, SegFacts DEF UpperShadowed, Pages
  <2>11. ShadowIsRom'
    BY <1>2, <1>6, <2>5, SegFacts DEF ShadowIsRom, Rom
  <2> QED
    BY <1>1, <1>7, <2>2, <2>6, <2>9, <2>10, <2>11, RestKept DEF IInv, Shadowed
<1>10. CASE ~(16 * Top.i < Top.len)
  <2>1. ram' = ram /\ Go("enable", 0)
    BY <1>1, <1>10 DEF CopyPage
  <2>2. /\ CallsInv' /\ calls' # <<>> /\ Len(calls') = Len(calls) /\ Opened' = Opened
        /\ Top'.page = Top.page /\ Top'.len = Top.len /\ Top'.phase = "enable" /\ Top'.i = 0
    BY <1>1, <1>2, <2>1, GoKeepsCalls DEF Phases
  <2>3. TypeOK'
    BY <1>1, <1>2, <2>1, <2>2, TopFacts, RestTypes DEF TypeOK
  <2>4. handle => \A j \in 0..15 : 16 * j < Top.len => ram[page + j] = Rom(page + j)
    BY <1>3, <1>4, <1>10 DEF Copied
  <2>5. Progress'
    BY <1>2, <1>3, <1>4, <1>8, <2>1, <2>2, <2>4 DEF Progress
  <2>6. UpperShadowed'
    BY <1>1, <1>2, <1>6, <2>2, SegFacts DEF UpperShadowed, Pages
  <2> QED
    BY <1>1, <1>2, <1>7, <2>1, <2>2, <2>3, <2>5, <2>6, RestKept, MemoryKept DEF IInv, Shadowed
<1> QED
  BY <1>9, <1>10

LEMMA EnableSegmentIInv == ASSUME IInv, EnableSegment PROVE IInv'
<1>1. UNCHANGED <<Rest, ram>> /\ calls # <<>> /\ Top.phase = "enable"
  BY DEF EnableSegment, In
<1>2. /\ TypeOK /\ CallsInv /\ HandleInv /\ ShadowIsRom /\ Progress /\ UpperShadowed
      /\ UNCHANGED <<pc, romLen, handle, at>> /\ romLen \in Nat /\ handle \in BOOLEAN
      /\ pam \in [89..95 -> Byte]
  BY <1>1, LenAssumption DEF IInv, TypeOK, Rest, hw, Byte
<1>3. /\ Top \in Frame /\ Opened \in 1..4 /\ Top.i \in Nat /\ Top.i =< Opened
      /\ Top.len \in Nat /\ Top.page \in {0, 4, 12}
      /\ handle => \A j \in 0..15 : 16 * j < Top.len => ram[Top.page + j] = Rom(Top.page + j)
      /\ handle => \A j \in 0..3 : j < Opened =>
                     Mode(Seg(Top.page) + j) = IF j < Top.i THEN 3 ELSE 2
  BY <1>1, <1>2, TopFacts DEF Progress, Frame
<1>4. PICK page \in {0, 4, 12} : page = Top.page
  BY <1>3
<1>5. CASE Top.i < Opened
  <2> DEFINE seg == Seg(page) + Top.i
  <2>1. pam' = PamSet(seg, 3) /\ Go("enable", Top.i + 1)
    BY <1>1, <1>4, <1>5 DEF EnableSegment, ReadWrite
  <2>2. /\ CallsInv' /\ calls' # <<>> /\ Len(calls') = Len(calls) /\ Opened' = Opened
        /\ Top'.page = Top.page /\ Top'.len = Top.len
        /\ Top'.phase = "enable" /\ Top'.i = Top.i + 1
    BY <1>1, <1>2, <1>3, <2>1, GoKeepsCalls DEF Phases
  <2>3. seg \in Segments
    BY <1>1, <1>3, <1>4, <1>5, SegmentFacts
  <2> HIDE DEF seg
  <2>4. /\ pam' \in [89..95 -> Byte]
        /\ handle => \A s \in Segments : Mode(s)' = IF s = seg THEN 3 ELSE Mode(s)
        /\ ~handle => pam' = pam
    BY <1>2, <2>1, <2>3, PamSetFacts
  <2>5. TypeOK'
    BY <1>1, <1>2, <2>2, <2>4, TopFacts, RestTypes DEF TypeOK
  <2>6. HandleInv'
    BY <1>1, <1>2, <2>4, RestKept, MemoryKept DEF HandleInv
  <2>7. Progress'
    <3>1. ASSUME handle, NEW j \in 0..3, j < Opened
          PROVE  Mode(Seg(page) + j)' = IF j < Top.i + 1 THEN 3 ELSE 2
      <4>1. Seg(page) + j \in Segments /\ Seg(page) \in Int
        BY <1>1, <1>4, <3>1, SegmentFacts DEF Seg
      <4>2. Mode(Seg(page) + j) = IF j < Top.i THEN 3 ELSE 2
        BY <1>3, <1>4, <3>1
      <4>3. CASE j = Top.i
        BY <1>3, <2>4, <3>1, <4>1, <4>3 DEF seg
      <4>4. CASE j # Top.i
        <5>1. Seg(page) + j # seg
          BY <1>3, <4>1, <4>4 DEF seg
        <5> QED
          BY <1>3, <2>4, <3>1, <4>1, <4>2, <4>4, <5>1
      <4> QED
        BY <4>3, <4>4
    <3> QED
      BY <1>1, <1>2, <1>3, <1>4, <1>5, <2>2, <3>1 DEF Progress
  <2>8. UpperShadowed'
    BY <1>1, <1>2, <2>2, <2>4, SegFacts DEF UpperShadowed, Pages
  <2>9. ShadowIsRom'
    <3>1. ASSUME handle, NEW p \in Pages, Mode(Seg(p))' \in {1, 3}
          PROVE  ram[p] = Rom(p)
      <4>1. CASE Seg(p) = seg
        <5>1. CASE page = 12
          <6>1. seg = 1 /\ Top.len = 64
            BY <1>1, <1>2, <1>4, <1>5, <1>3, <5>1, SegmentFacts, TopFacts, SegFacts DEF seg
          <6>2. p \in 12..15
            BY <4>1, <6>1, SegFacts DEF Pages, BiosPages
          <6>3. ram[12 + (p - 12)] = Rom(12 + (p - 12))
            BY <1>3, <1>4, <3>1, <5>1, <6>1, <6>2
          <6> QED
            BY <6>2, <6>3
        <5>2. CASE page \in {0, 4}
          <6>1. Top.i \in 0..3 /\ page + Top.i \in Pages /\ Seg(page + Top.i) = seg
            BY <1>1, <1>3, <1>4, <1>5, <5>2, SegmentFacts DEF seg
          <6>2. page + Top.i = p
            <7>1. page + Top.i \in 0..7 /\ page + Top.i \notin BiosPages
              BY <1>3, <5>2, <6>1 DEF BiosPages
            <7>2. Seg(p) = page + Top.i + 2 /\ Seg(p) \in 2..9
              BY <4>1, <6>1, <7>1, SegFacts
            <7>3. Seg(p) = p + 2
              BY <7>2, SegFacts
            <7> QED
              BY <7>1, <7>2, <7>3 DEF Pages
          <6>3. 16 * Top.i < Top.len
            <7>1. Top.len = 64 \/ Top.len = 128 \/ Top.len = 16 * Opened
              BY <1>1, <1>2, <1>3, TopFacts, OpenedFacts
            <7> QED
              BY <1>3, <1>5, <7>1
          <6> QED
            BY <1>3, <1>4, <3>1, <6>1, <6>2, <6>3
        <5> QED
          BY <5>1, <5>2
      <4>2. CASE Seg(p) # seg
        BY <1>2, <2>4, <3>1, <4>2, SegFacts DEF ShadowIsRom, Rom
      <4> QED
        BY <4>1, <4>2
    <3>2. CASE handle
      BY <1>1, <3>1, <3>2 DEF ShadowIsRom, Rom
    <3>3. CASE ~handle
      BY <1>1, <1>2, <2>4, <3>3, MemoryKept
    <3> QED
      BY <3>2, <3>3
  <2> QED
    BY <1>1, <2>2, <2>5, <2>6, <2>7, <2>8, <2>9, RestKept DEF IInv, Shadowed
<1>6. CASE ~(Top.i < Opened)
  <2>1. pam' = pam /\ calls' = Below
    BY <1>1, <1>6 DEF EnableSegment
  <2>2. CallsInv'
    BY <1>1, <1>2, <2>1, PopFacts
  <2>3. HandleInv'
    BY <1>1, <1>2, <2>1, RestKept, MemoryKept DEF HandleInv
  <2>4. handle => \A j \in 0..3 : j < Opened => Mode(Seg(page) + j) = 3
    BY <1>3, <1>4, <1>6
  <2>5. CASE Len(calls) = 1
    <3>1. calls' = <<>> /\ Len(calls)' = 0
      BY <1>1, <1>2, <2>1, <2>5, PopFacts
    <3>2. TypeOK'
      BY <1>1, <1>2, <2>1, <3>1, RestTypes DEF TypeOK
    <3>3. Progress' /\ UpperShadowed'
      BY <3>1 DEF Progress, UpperShadowed
    <3>4. Shadowed'
      <4>1. SUFFICES ASSUME pc = "unmap", handle, NEW p \in Pages, 16 * p < romLen
                     PROVE  Mode(Seg(p)) = 3
        BY <1>1, <1>2, <2>1, MemoryKept, SegFacts, TopFacts, <4>1 DEF Shadowed
      <4>2. page = 0 /\ Seg(0) = 2
        BY <1>1, <1>2, <1>4, <2>5, <4>1, TopFacts, SegFacts
      <4>3. (romLen = 128 /\ Opened = 4) \/ romLen = 16 * Opened
        BY <1>1, <1>2, <1>3, <1>4, <4>2, OpenedFacts
      <4>4. CASE p < Opened
        <5>1. p \in 0..3 /\ Seg(p) = 2 + p
          BY <1>3, <4>4, SegFacts DEF Pages, BiosPages
        <5> QED
          BY <2>4, <4>1, <4>2, <4>4, <5>1
      <4>5. CASE ~(p < Opened)
        <5>1. romLen = 128 /\ p \in 4..7
          BY <1>3, <4>1, <4>3, <4>5 DEF Pages
        <5> QED
          BY <1>1, <1>2, <2>5, <4>1, <5>1 DEF UpperShadowed
      <4> QED
        BY <4>4, <4>5
    <3> QED
      BY <1>1, <1>2, <2>1, <2>2, <2>3, <3>2, <3>3, <3>4, RestKept, MemoryKept DEF IInv
  <2>6. CASE Len(calls) = 2
    <3>1. /\ calls' # <<>> /\ Len(calls)' = 1
          /\ Top' = [Call(0, romLen, HighRom) EXCEPT !.phase = "open"]
          /\ pc = "unmap" /\ page = 4 /\ romLen = 128 /\ Opened = 4
      BY <1>1, <1>2, <1>3, <1>4, <2>1, <2>6, PopFacts, TopFacts, OpenedFacts
    <3>2. TypeOK'
      BY <1>1, <1>2, <2>1, <3>1, RestTypes DEF TypeOK
    <3>3. Top'.page = 0 /\ Top'.len = 128 /\ Top'.phase = "open" /\ Top'.i = 0
      BY <3>1 DEF Call
    <3>4. Progress'
      <4>1. Opened' = 4
        BY <3>3 DEF Opened, Regions
      <4> QED
        BY <3>3, <4>1 DEF Progress
    <3>5. UpperShadowed'
      <4>1. ASSUME handle, NEW p \in 4..7 PROVE Mode(Seg(p)) = 3 /\ Seg(p) \in Segments
        <5>1. Seg(p) = Seg(4) + (p - 4) /\ p - 4 \in 0..3
          BY SegFacts DEF Pages, BiosPages
        <5> QED
          BY <2>4, <3>1, <4>1, <5>1, SegFacts DEF Pages
      <4> QED
        BY <1>1, <1>2, <2>1, <4>1, MemoryKept DEF UpperShadowed
    <3> QED
      BY <1>1, <1>2, <2>1, <2>2, <2>3, <3>1, <3>2, <3>4, <3>5, RestKept, MemoryKept
         DEF IInv, Shadowed
  <2> QED
    BY <1>1, <1>2, <2>5, <2>6, TopFacts
<1> QED
  BY <1>5, <1>6

LEMMA ShadowIInv == ASSUME IInv, Shadow PROVE IInv'
BY RefuseIInv, AcceptIInv, SplitIInv, OpenSegmentIInv, CopyPageIInv, EnableSegmentIInv DEF Shadow

-----------------------------------------------------------------------------
(***************************************************************************)
(* The steps of main and of pci_configure, which make no access below 1 MB.*)
(***************************************************************************)

LEMMA MainKept ==
  ASSUME IInv, UNCHANGED <<hw, pam, ram>>, handle' \in BOOLEAN, handle' => ChipsetFound,
         pc' \in Scanning /\ ChipsetFound => handle'
  PROVE  /\ HandleInv' /\ ShadowIsRom' /\ ChipsetFound' = ChipsetFound
         /\ VgaSlots' = VgaSlots /\ \A s \in Slots : Preset(s)' = Preset(s)
         /\ \A seg \in Segments : Mode(seg)' = Mode(seg)
<1>1. slots' = slots /\ romLen' = romLen /\ premapped' = premapped /\ pam' = pam /\ ram' = ram
  BY DEF hw
<1>2. \A s \in Slots : Preset(s)' = Preset(s)
  BY <1>1 DEF Preset
<1>3. VgaSlots' = VgaSlots /\ ChipsetFound' = ChipsetFound
  BY <1>1, <1>2 DEF VgaSlots, ChipsetFound
<1>4. HandleInv'
  BY <1>1, <1>3, MemoryKept DEF IInv, HandleInv
<1> QED
  BY <1>1, <1>2, <1>3, <1>4, MemoryKept DEF IInv

LEMMA MainTypes ==
  ASSUME TypeOK, UNCHANGED <<hw, pam, ram>>, handle' \in BOOLEAN, at' \in 0..LastSlot + 1,
         bar' \in [Slots -> {"zero", "preset", "ones", "high"}],
         original' \in {"zero", "preset", "ones", "high"},
         cmd' \in [Slots -> SUBSET {"master", "io", "memory"}], Len(calls)' \in 0..2,
         pc' \in Scanning \cup {"init", "runtime", "post"}
  PROVE  TypeOK'
BY DEF TypeOK, hw, Contents, Slots, Pages, Scanning

\* Where no call is in progress before or after, there is little to it.
LEMMA NoCalls ==
  ASSUME calls' = <<>>
  PROVE  /\ CallsInv' /\ Progress' /\ UpperShadowed' /\ Len(calls)' \in 0..2
         /\ (pc' \notin {"unmap", "done"} \/ at' \notin Slots => Shadowed')
BY EmptySeq DEF CallsInv, Progress, UpperShadowed, Shadowed, Slots

LEMMA ChipsetInitIInv == ASSUME IInv, ChipsetInit PROVE IInv'
<1>1. /\ calls = <<>> /\ pc = "init" /\ pc' = "runtime" /\ handle' = ChipsetFound
      /\ UNCHANGED <<hw, bar, cmd, original, pam, ram, at>>
      /\ calls' = IF ChipsetFound THEN <<Call(12, 64, 12)>> ELSE <<>>
  BY DEF ChipsetInit, Goto
<1>2. TypeOK /\ ScanInv /\ BarInv /\ romLen \in Nat /\ at' = 0 /\ at \in 0..LastSlot + 1
  BY <1>1, LenAssumption DEF IInv, TypeOK, ScanInv
<1>3. handle' \in BOOLEAN
  BY <1>1 DEF ChipsetFound
<1>4. /\ HandleInv' /\ ShadowIsRom' /\ \A s \in Slots : Preset(s)' = Preset(s)
  BY <1>1, <1>3, MainKept DEF Scanning
<1>5. ScanInv' /\ BarInv' /\ MemoryEnabled' /\ UpperShadowed' /\ Shadowed'
  BY <1>1, <1>2, <1>4, SlotAssumption
     DEF ScanInv, BarInv, MemoryEnabled, UpperShadowed, Shadowed, Slots, Mapping
<1>6. CallsInv' /\ Progress' /\ Len(calls)' \in 0..2
  <2>1. CASE ChipsetFound
    <3>1. calls' = <<Call(12, 64, 12)>> /\ Call(12, 64, 12) \in Frame
      BY <1>1, <2>1 DEF Call, Frame, Phases
    <3>2. calls' \in Seq(Frame) /\ Len(calls)' = 1 /\ calls' # <<>> /\ Top' = Call(12, 64, 12)
      BY <3>1 DEF Top
    <3>3. Top'.page = 12 /\ Top'.len = 64 /\ Top'.src = 12 /\ Top'.phase = "enter" /\ Top'.i = 0
      BY <3>2 DEF Call
    <3> QED
      BY <1>1, <2>1, <3>2, <3>3 DEF CallsInv, Progress
  <2>2. CASE ~ChipsetFound
    BY <1>1, <2>2, NoCalls
  <2> QED
    BY <2>1, <2>2
<1>7. TypeOK'
  BY <1>1, <1>2, <1>3, <1>6, MainTypes DEF TypeOK
<1> QED
  BY <1>4, <1>5, <1>6, <1>7 DEF IInv

LEMMA InitRuntimeIInv == ASSUME IInv, InitRuntime PROVE IInv'
<1>1. /\ calls' = <<>> /\ pc = "runtime" /\ pc' = "post" /\ handle' = FALSE
      /\ UNCHANGED <<hw, bar, cmd, original, pam, ram, at>>
  BY DEF InitRuntime, Goto
<1>2. TypeOK /\ ScanInv /\ BarInv /\ at' = 0
  BY <1>1 DEF IInv, TypeOK, ScanInv
<1>3. /\ HandleInv' /\ ShadowIsRom' /\ \A s \in Slots : Preset(s)' = Preset(s)
  BY <1>1, MainKept DEF Scanning
<1>4. ScanInv' /\ BarInv' /\ MemoryEnabled'
  BY <1>1, <1>2, <1>3, SlotAssumption DEF ScanInv, BarInv, MemoryEnabled, Slots, Mapping
<1>5. TypeOK'
  BY <1>1, <1>2, NoCalls, MainTypes DEF TypeOK
<1> QED
  BY <1>1, <1>3, <1>4, <1>5, NoCalls DEF IInv

LEMMA ChipsetPostIInv == ASSUME IInv, ChipsetPost PROVE IInv'
<1>1. /\ calls' = <<>> /\ pc = "post" /\ pc' = "scan" /\ handle' = ChipsetFound
      /\ UNCHANGED <<hw, bar, cmd, original, pam, ram, at>>
  BY DEF ChipsetPost, Goto
<1>2. TypeOK /\ ScanInv /\ BarInv /\ at' = 0 /\ handle' \in BOOLEAN
  BY <1>1 DEF IInv, TypeOK, ScanInv, ChipsetFound
<1>3. /\ HandleInv' /\ ShadowIsRom' /\ \A s \in Slots : Preset(s)' = Preset(s)
  BY <1>1, <1>2, MainKept DEF Scanning
<1>4. ScanInv' /\ BarInv' /\ MemoryEnabled'
  BY <1>1, <1>2, <1>3, SlotAssumption
     DEF ScanInv, BarInv, MemoryEnabled, Slots, VgaSlots, Mapping
<1>5. TypeOK'
  BY <1>1, <1>2, NoCalls, MainTypes DEF TypeOK, Scanning
<1> QED
  BY <1>1, <1>3, <1>4, <1>5, NoCalls DEF IInv

\* What the steps of pci_configure have in common.
LEMMA ConfigureKept ==
  ASSUME IInv, pc \in Scanning, pc' \in Scanning, UNCHANGED <<hw, pam, ram, handle>>
  PROVE  /\ HandleInv' /\ ShadowIsRom' /\ VgaSlots' = VgaSlots
         /\ \A s \in Slots : Preset(s)' = Preset(s)
         /\ \A seg \in Segments : Mode(seg)' = Mode(seg)
<1>1. handle \in BOOLEAN /\ handle' = handle /\ (handle <=> ChipsetFound)
  BY DEF IInv, TypeOK, HandleInv
<1> QED
  BY <1>1, MainKept

LEMMA SkipSlotIInv == ASSUME IInv, SkipSlot PROVE IInv'
<1>1. /\ calls' = <<>> /\ pc = "scan" /\ pc' = "scan" /\ at \in Slots /\ slots[at] = "none"
      /\ at' = at + 1 /\ UNCHANGED <<hw, bar, cmd, original, pam, ram, handle>>
  BY DEF SkipSlot, Goto
<1>2. TypeOK /\ ScanInv /\ BarInv /\ at' \in 0..LastSlot + 1 /\ handle \in BOOLEAN
  BY <1>1, SlotAssumption DEF IInv, TypeOK, Slots
<1>3. /\ HandleInv' /\ ShadowIsRom' /\ VgaSlots' = VgaSlots
      /\ \A s \in Slots : Preset(s)' = Preset(s)
  BY <1>1, ConfigureKept DEF Scanning
<1>4. ScanInv'
  <2>1. \A s \in VgaSlots : s >= at /\ s # at /\ s \in Slots
    BY <1>1, <1>2 DEF ScanInv, VgaSlots
  <2>2. \A s \in VgaSlots : s >= at + 1
    BY <1>1, <2>1, SlotAssumption DEF Slots
  <2> QED
    BY <1>1, <1>3, <2>2 DEF ScanInv, Mapping
<1>5. BarInv' /\ MemoryEnabled'
  BY <1>1, <1>2, <1>3 DEF BarInv, MemoryEnabled
<1>6. TypeOK'
  BY <1>1, <1>2, NoCalls, MainTypes DEF TypeOK, Scanning
<1> QED
  BY <1>1, <1>3, <1>4, <1>5, <1>6, NoCalls DEF IInv

LEMMA ScanEndIInv == ASSUME IInv, ScanEnd PROVE IInv'
<1>1. /\ calls' = <<>> /\ pc = "scan" /\ pc' = "done" /\ at = LastSlot + 1
      /\ UNCHANGED <<hw, bar, cmd, original, pam, ram, handle, at>>
  BY DEF ScanEnd, Goto
<1>2. TypeOK /\ ScanInv /\ BarInv /\ at \in 0..LastSlot + 1 /\ handle \in BOOLEAN
  BY DEF IInv, TypeOK
<1>3. /\ HandleInv' /\ ShadowIsRom' /\ VgaSlots' = VgaSlots
      /\ \A s \in Slots : Preset(s)' = Preset(s)
  BY <1>1, ConfigureKept DEF Scanning
<1>4. at \notin Slots
  BY <1>1, SlotAssumption DEF Slots
<1>5. ScanInv'
  <2>1. VgaSlots = {}
    <3>1. ASSUME NEW s \in VgaSlots PROVE FALSE
      <4>1. s \in Slots /\ s >= LastSlot + 1
        BY <1>1, <1>2 DEF ScanInv, VgaSlots
      <4> QED
        BY <4>1, SlotAssumption DEF Slots
    <3> QED
      BY <3>1
  <2> QED
    BY <1>1, <1>3, <2>1 DEF ScanInv, Mapping
<1>6. BarInv' /\ MemoryEnabled'
  BY <1>1, <1>2, <1>3, <1>4 DEF BarInv, MemoryEnabled
<1>7. TypeOK'
  BY <1>1, <1>2, NoCalls, MainTypes DEF TypeOK, Scanning
<1> QED
  BY <1>1, <1>3, <1>4, <1>5, <1>6, <1>7, NoCalls DEF IInv

\* Sizing, restoring, mapping and unmapping the ROM base register of a slot.
LEMMA BarWritten ==
  ASSUME IInv, pc \in Scanning, pc' \in Scanning, at \in Slots, at' \in {at, at + 1},
         UNCHANGED <<hw, cmd, pam, ram, handle>>, calls' = <<>>, original' \in {original, bar[at]},
         NEW value \in {"zero", "preset", "ones", "high"}, bar' = [bar EXCEPT ![at] = value]
  PROVE  /\ TypeOK' /\ HandleInv' /\ ShadowIsRom' /\ VgaSlots' = VgaSlots
         /\ \A s \in Slots : Preset(s)' = Preset(s)
         /\ \A seg \in Segments : Mode(seg)' = Mode(seg)
         /\ CallsInv' /\ Progress' /\ UpperShadowed'
         /\ \A s \in Slots \ {at} : bar[s] = Preset(s)
         /\ \A s \in Slots : bar'[s] = IF s = at THEN value ELSE bar[s]
<1>1. TypeOK /\ BarInv /\ handle \in BOOLEAN
  BY DEF IInv, TypeOK
<1>2. bar' \in [Slots -> {"zero", "preset", "ones", "high"}]
  BY <1>1 DEF TypeOK
<1>3. at' \in 0..LastSlot + 1
  BY SlotAssumption DEF Slots
<1>4. TypeOK'
  BY <1>1, <1>2, <1>3, NoCalls, MainTypes DEF TypeOK
<1>5. \A s \in Slots \ {at} : bar[s] = Preset(s)
  BY <1>1 DEF BarInv
<1>6. \A s \in Slots : bar'[s] = IF s = at THEN value ELSE bar[s]
  BY <1>1 DEF TypeOK
<1> QED
  BY <1>4, <1>5, <1>6, NoCalls, ConfigureKept

LEMMA ScanSizeBarIInv == ASSUME IInv, SizeBar("scan", "sized") PROVE IInv'
<1>1. /\ calls' = <<>> /\ pc = "scan" /\ pc' = "sized" /\ at \in Slots /\ at' = at
      /\ bar' = [bar EXCEPT ![at] = "ones"] /\ original' = bar[at]
      /\ UNCHANGED <<hw, cmd, pam, ram, handle>>
  BY DEF SizeBar, Goto
<1>2. pc \in Scanning /\ pc' \in Scanning
  BY <1>1 DEF Scanning
<1>3. /\ TypeOK' /\ HandleInv' /\ ShadowIsRom' /\ VgaSlots' = VgaSlots
      /\ CallsInv' /\ Progress' /\ UpperShadowed'
      /\ \A s \in Slots : Preset(s)' = Preset(s)
      /\ \A s \in Slots : bar'[s] = IF s = at THEN "ones" ELSE Preset(s)
  BY <1>1, <1>2, BarWritten
<1>4. ScanInv'
  BY <1>1, <1>3 DEF IInv, ScanInv, Mapping
<1>5. BarInv' /\ MemoryEnabled' /\ Shadowed'
  BY <1>1, <1>3 DEF BarInv, MemoryEnabled, Shadowed
<1> QED
  BY <1>3, <1>4, <1>5 DEF IInv

LEMMA ResizeBarIInv == ASSUME IInv, SizeBar("resize", "resized") PROVE IInv'
<1>1. /\ calls' = <<>> /\ pc = "resize" /\ pc' = "resized" /\ at \in Slots /\ at' = at
      /\ bar' = [bar EXCEPT ![at] = "ones"] /\ original' = bar[at]
      /\ UNCHANGED <<hw, cmd, pam, ram, handle>>
  BY DEF SizeBar, Goto
<1>2. pc \in Scanning /\ pc' \in Scanning
  BY <1>1 DEF Scanning
<1>3. /\ TypeOK' /\ HandleInv' /\ ShadowIsRom' /\ VgaSlots' = VgaSlots
      /\ CallsInv' /\ Progress' /\ UpperShadowed'
      /\ \A s \in Slots : Preset(s)' = Preset(s)
      /\ \A s \in Slots : bar'[s] = IF s = at THEN "ones" ELSE Preset(s)
  BY <1>1, <1>2, BarWritten
<1>4. ScanInv'
  BY <1>1, <1>3 DEF IInv, ScanInv, Mapping
<1>5. BarInv' /\ MemoryEnabled' /\ Shadowed'
  BY <1>1, <1>3 DEF BarInv, MemoryEnabled, Shadowed
<1> QED
  BY <1>3, <1>4, <1>5 DEF IInv

LEMMA FirstSizedIInv == ASSUME IInv, OriginalInv, FirstSized PROVE IInv'
<1>1. /\ calls' = <<>> /\ pc = "sized" /\ at' \in {at, at + 1}
      /\ bar' = [bar EXCEPT ![at] = Preset(at)] /\ UNCHANGED <<hw, cmd, original, pam, ram, handle>>
      /\ \/ pc' = "resize" /\ slots[at] = "vga" /\ Preset(at) = "zero" /\ at' = at
         \/ pc' = "scan" /\ ~(slots[at] = "vga" /\ Preset(at) = "zero") /\ at' = at + 1
  BY DEF FirstSized, Goto, Restored, OriginalInv
<1>2. TypeOK /\ ScanInv /\ at \in Slots /\ pc \in Scanning /\ pc' \in Scanning
  BY <1>1 DEF IInv, ScanInv, Scanning
<1>3. Preset(at) \in {"zero", "preset", "ones", "high"}
  BY DEF Preset
<1>4. /\ TypeOK' /\ HandleInv' /\ ShadowIsRom' /\ VgaSlots' = VgaSlots
      /\ CallsInv' /\ Progress' /\ UpperShadowed'
      /\ \A s \in Slots : Preset(s)' = Preset(s)
      /\ \A s \in Slots : bar'[s] = Preset(s)
  BY <1>1, <1>2, <1>3, BarWritten
<1>5. ScanInv'
  <2>1. CASE pc' = "resize"
    <3>1. at \in VgaSlots
      BY <1>1, <1>2, <2>1 DEF VgaSlots
    <3> QED
      BY <1>1, <1>2, <1>4, <2>1, <3>1 DEF ScanInv, Mapping
  <2>2. CASE pc' = "scan"
    <3>1. \A s \in VgaSlots : s >= at /\ s # at /\ s \in Slots
      BY <1>1, <1>2, <2>2 DEF ScanInv, VgaSlots
    <3>2. \A s \in VgaSlots : s >= at + 1
      BY <1>2, <3>1, SlotAssumption DEF Slots
    <3> QED
      BY <1>1, <1>4, <2>2, <3>2 DEF ScanInv, Mapping
  <2> QED
    BY <1>1, <2>1, <2>2
<1>6. BarInv' /\ MemoryEnabled' /\ Shadowed'
  BY <1>1, <1>4 DEF BarInv, MemoryEnabled, Shadowed
<1> QED
  BY <1>4, <1>5, <1>6 DEF IInv

LEMMA SecondSizedIInv == ASSUME IInv, OriginalInv, SecondSized PROVE IInv'
<1>1. /\ calls' = <<>> /\ pc = "resized" /\ pc' = "map" /\ at' = at
      /\ bar' = [bar EXCEPT ![at] = Preset(at)] /\ UNCHANGED <<hw, cmd, original, pam, ram, handle>>
  BY DEF SecondSized, Goto, Restored, OriginalInv
<1>2. ScanInv /\ at \in Slots /\ pc \in Scanning /\ pc' \in Scanning
  BY <1>1 DEF IInv, ScanInv, Scanning
<1>3. Preset(at) \in {"zero", "preset", "ones", "high"}
  BY DEF Preset
<1>4. /\ TypeOK' /\ HandleInv' /\ ShadowIsRom' /\ VgaSlots' = VgaSlots
      /\ CallsInv' /\ Progress' /\ UpperShadowed'
      /\ \A s \in Slots : Preset(s)' = Preset(s)
      /\ \A s \in Slots : bar'[s] = Preset(s)
  BY <1>1, <1>2, <1>3, BarWritten
<1>5. ScanInv'
  BY <1>1, <1>2, <1>4 DEF ScanInv, Mapping
<1>6. BarInv' /\ MemoryEnabled' /\ Shadowed'
  BY <1>1, <1>4 DEF BarInv, MemoryEnabled, Shadowed
<1> QED
  BY <1>4, <1>5, <1>6 DEF IInv

LEMMA MapBarIInv == ASSUME IInv, MapBar PROVE IInv'
<1>1. /\ calls' = <<>> /\ pc = "map" /\ pc' = "enable" /\ at' = at
      /\ bar' = [bar EXCEPT ![at] = "high"] /\ UNCHANGED <<hw, cmd, original, pam, ram, handle>>
  BY DEF MapBar, Goto
<1>2. ScanInv /\ at \in Slots /\ pc \in Scanning /\ pc' \in Scanning
  BY <1>1 DEF IInv, ScanInv, Scanning
<1>3. /\ TypeOK' /\ HandleInv' /\ ShadowIsRom' /\ VgaSlots' = VgaSlots
      /\ CallsInv' /\ Progress' /\ UpperShadowed'
      /\ \A s \in Slots : Preset(s)' = Preset(s)
      /\ \A s \in Slots : bar'[s] = IF s = at THEN "high" ELSE Preset(s)
  BY <1>1, <1>2, BarWritten
<1>4. ScanInv'
  BY <1>1, <1>2, <1>3 DEF ScanInv, Mapping
<1>5. BarInv' /\ MemoryEnabled' /\ Shadowed'
  BY <1>1, <1>3 DEF BarInv, MemoryEnabled, Shadowed
<1> QED
  BY <1>3, <1>4, <1>5 DEF IInv

LEMMA EnableDeviceIInv == ASSUME IInv, EnableDevice PROVE IInv'
<1>1. /\ pc = "enable" /\ pc' = "unmap" /\ cmd' = [cmd EXCEPT ![at] = {"master", "io", "memory"}]
      /\ calls' = <<Call(0, romLen, HighRom)>> /\ UNCHANGED <<hw, bar, original, pam, ram, handle, at>>
  BY DEF EnableDevice, Goto
<1>2. /\ TypeOK /\ ScanInv /\ BarInv /\ at \in Slots /\ pc \in Scanning /\ pc' \in Scanning
      /\ handle \in BOOLEAN /\ romLen \in Nat /\ romLen' = romLen
  BY <1>1, LenAssumption DEF IInv, TypeOK, ScanInv, Scanning, hw
<1>3. /\ HandleInv' /\ ShadowIsRom' /\ VgaSlots' = VgaSlots
      /\ \A s \in Slots : Preset(s)' = Preset(s)
  BY <1>1, <1>2, ConfigureKept
<1>4. ScanInv' /\ BarInv'
  BY <1>1, <1>2, <1>3 DEF ScanInv, BarInv, Mapping
<1>5. cmd' \in [Slots -> SUBSET {"master", "io", "memory"}] /\ "memory" \in cmd'[at]
  BY <1>1, <1>2 DEF TypeOK
<1>6. /\ calls' \in Seq(Frame) /\ Len(calls)' = 1 /\ calls' # <<>>
      /\ Top' = Call(0, romLen, HighRom)
  <2>1. Call(0, romLen, HighRom) \in Frame
    BY <1>2 DEF Call, Frame, Phases, HighRom
  <2> QED
    BY <1>1, <2>1 DEF Top
<1>7. Top'.page = 0 /\ Top'.len = romLen /\ Top'.src = HighRom /\ Top'.phase = "enter" /\ Top'.i = 0
  BY <1>6 DEF Call
<1>8. CallsInv' /\ Progress' /\ UpperShadowed' /\ Shadowed' /\ MemoryEnabled'
  BY <1>1, <1>2, <1>5, <1>6, <1>7
     DEF CallsInv, Progress, UpperShadowed, Shadowed, MemoryEnabled
<1>9. TypeOK'
  BY <1>1, <1>2, <1>5, <1>6, MainTypes DEF TypeOK
<1> QED
  BY <1>3, <1>4, <1>8, <1>9 DEF IInv

LEMMA UnmapBarIInv == ASSUME IInv, UnmapBar PROVE IInv'
<1>1. /\ calls = <<>> /\ calls' = <<>> /\ pc = "unmap" /\ pc' = "done" /\ at' = at
      /\ bar' = [bar EXCEPT ![at] = "zero"] /\ UNCHANGED <<hw, cmd, original, pam, ram, handle>>
  BY DEF UnmapBar, Goto
<1>2. /\ ScanInv /\ Shadowed /\ at \in VgaSlots /\ at \in Slots
      /\ pc \in Scanning /\ pc' \in Scanning /\ romLen' = romLen /\ handle' = handle
  BY <1>1 DEF IInv, ScanInv, Scanning, Mapping, hw
<1>3. Preset(at) = "zero"
  BY <1>2 DEF VgaSlots
<1>4. /\ TypeOK' /\ HandleInv' /\ ShadowIsRom' /\ VgaSlots' = VgaSlots
      /\ CallsInv' /\ Progress' /\ UpperShadowed'
      /\ \A s \in Slots : Preset(s)' = Preset(s)
      /\ \A seg \in Segments : Mode(seg)' = Mode(seg)
      /\ \A s \in Slots : bar'[s] = Preset(s)
  BY <1>1, <1>2, <1>3, BarWritten
<1>5. ScanInv' /\ BarInv' /\ MemoryEnabled'
  BY <1>1, <1>2, <1>4 DEF ScanInv, BarInv, MemoryEnabled, Mapping
<1>6. Shadowed'
  BY <1>1, <1>2, <1>4, SegFacts DEF Shadowed
<1> QED
  BY <1>4, <1>5, <1>6 DEF IInv

LEMMA NextOriginal == ASSUME IInv, OriginalInv, [Next]_vars PROVE OriginalInv'
<1>1. CASE UNCHANGED <<pc, at, hw, original>>
  BY <1>1 DEF OriginalInv, Preset, hw
<1>2. CASE Shadow \/ UNCHANGED vars
  BY <1>1, <1>2 DEF Shadow, Refuse, Accept, Split, OpenSegment, CopyPage, EnableSegment, Rest, vars
<1>3. CASE ChipsetInit \/ InitRuntime \/ ChipsetPost
  BY <1>3 DEF ChipsetInit, InitRuntime, ChipsetPost, Goto, OriginalInv
<1>4. CASE SizeBar("scan", "sized") \/ SizeBar("resize", "resized")
  <2>1. /\ pc \in {"scan", "resize"} /\ at \in Slots /\ at' = at /\ original' = bar[at] /\ UNCHANGED hw
    BY <1>4 DEF SizeBar, Goto
  <2>2. bar[at] = Preset(at)
    BY <2>1 DEF IInv, BarInv
  <2> QED
    BY <2>1, <2>2 DEF OriginalInv, Preset, hw
<1>5. CASE SkipSlot \/ ScanEnd \/ FirstSized \/ SecondSized \/ MapBar \/ EnableDevice \/ UnmapBar
  BY <1>5 DEF SkipSlot, ScanEnd, FirstSized, SecondSized, MapBar, EnableDevice, UnmapBar, Goto, OriginalInv
<1> QED
  BY <1>2, <1>3, <1>4, <1>5 DEF Next, Configure

LEMMA NextIInv == ASSUME IInv, OriginalInv, [Next]_vars PROVE IInv'
<1>1. CASE Shadow
  BY <1>1, ShadowIInv
<1>2. CASE ChipsetInit \/ InitRuntime \/ ChipsetPost
  BY <1>2, ChipsetInitIInv, InitRuntimeIInv, ChipsetPostIInv
<1>3. CASE Configure
  BY <1>3, SkipSlotIInv, ScanEndIInv, ScanSizeBarIInv, ResizeBarIInv, FirstSizedIInv,
     SecondSizedIInv, MapBarIInv, EnableDeviceIInv, UnmapBarIInv DEF Configure
<1>4. CASE UNCHANGED vars
  <2>1. UNCHANGED <<Rest, pam, ram, calls>>
    BY <1>4 DEF vars, Rest, hw
  <2>2. /\ TypeOK /\ HandleInv /\ CallsInv /\ Progress /\ UpperShadowed /\ Shadowed /\ ShadowIsRom
        /\ UNCHANGED <<pc, romLen, handle, at>>
    BY <2>1 DEF IInv, Rest, hw
  <2>3. TypeOK'
    BY <2>1, <2>2, CallsTypes DEF CallsInv
  <2>4. HandleInv' /\ ShadowIsRom'
    BY <2>1, <2>2, RestKept, MemoryKept DEF HandleInv
  <2>5. CallsInv' /\ Progress' /\ UpperShadowed' /\ Shadowed'
    <3>1. /\ UNCHANGED <<pc, at, calls, romLen, handle, ram>> /\ Top' = Top
          /\ \A seg \in Segments : Mode(seg)' = Mode(seg)
      BY <2>1, <2>2 DEF Top, Mode
    <3>2. pam' = pam
      BY <2>1
    <3>3. CallsInv'
      BY <2>2, <3>1 DEF CallsInv
    <3>4. Progress'
      BY <2>2, <3>1, <3>2 DEF Progress, Opened, Mode, Copied
    <3>5. UpperShadowed' /\ Shadowed'
      BY <2>2, <3>1, <3>2 DEF UpperShadowed, Shadowed, Mode
    <3> QED
      BY <3>3, <3>4, <3>5
  <2> QED
    BY <2>1, <2>3, <2>4, <2>5, RestKept DEF IInv
<1> QED
  BY <1>1, <1>2, <1>3, <1>4 DEF Next

-----------------------------------------------------------------------------
(***************************************************************************)
(* The theorems.                                                           *)
(***************************************************************************)

THEOREM Invariant == Spec => []IInv
<1>1. Init => IInv
  BY InitIInv
<1>2. IInv /\ OriginalInv /\ [Next]_vars => IInv'
  BY NextIInv
<1>3. Init => OriginalInv
  BY DEF Init, OriginalInv
<1>4. IInv /\ OriginalInv /\ [Next]_vars => OriginalInv'
  BY NextOriginal
<1> QED
  BY <1>1, <1>2, <1>3, <1>4, PTL DEF Spec

\* Every variable keeps its type, so that every byte written to the 440FX is a
\* byte, and chipset_shadow_rom_from_src calls itself no deeper than once.
THEOREM TypeCorrect == Spec => []TypeOK
<1>1. IInv => TypeOK
  BY DEF IInv
<1> QED
  BY <1>1, Invariant, PTL

\* At every step of chipset_shadow_rom_from_src, for the BIOS as for a VGA ROM of
\* any length, no segment is read from RAM before its pages hold the ROM.
THEOREM ReadsAreRom == Spec => []ShadowIsRom
<1>1. IInv => ShadowIsRom
  BY DEF IInv
<1> QED
  BY <1>1, Invariant, PTL

\* However many slots are looked at and whatever is found in them, the sizing of
\* query_bar_size and the one ROM mapped by pci_configure leave no trace.
THEOREM BarsRestored == Spec => []BarsAsFound
<1>1. IInv => BarsAsFound
  <2>1. SUFFICES ASSUME IInv, pc = "done" PROVE bar = [s \in Slots |-> Preset(s)]
    BY DEF BarsAsFound
  <2>2. \A s \in Slots : bar[s] = Preset(s)
    BY <2>1 DEF IInv, BarInv
  <2> QED
    BY <2>1, <2>2 DEF IInv, TypeOK
<1> QED
  BY <1>1, Invariant, PTL

\* The whole ROM of an unmapped VGA controller can be read at 0xC0000 when
\* pci_configure is done, for each length that chipset_shadow_rom_from_src takes:
\* the handle was looked up again in chipset_post, and the upper half of 128 KB
\* was opened by the inner call before the outer call copied into it.
THEOREM VgaRomIsShadowed == Spec => []VgaRomShadowed
<1>1. IInv => VgaRomShadowed
  <2>1. SUFFICES ASSUME IInv, pc = "done", ChipsetFound, VgaSlots # {}, romLen \in {16, 32, 64, 128},
                        NEW p \in Pages, 16 * p < romLen
                 PROVE  Read(p) = <<"vga", p>>
    BY DEF VgaRomShadowed
  <2>2. handle /\ at \in Slots /\ calls = <<>>
    BY <2>1 DEF IInv, HandleInv, ScanInv, CallsInv, Scanning
  <2>3. Regions(0, romLen) # 0
    BY <2>1 DEF Regions
  <2>4. Mode(Seg(p)) = 3
    BY <2>1, <2>2, <2>3 DEF IInv, Shadowed
  <2>5. p \notin BiosPages /\ ~(p >= HighRom)
    BY <2>1 DEF BiosPages, Pages, HighRom
  <2>6. ram[p] = <<"vga", p>>
    BY <2>1, <2>4, <2>5 DEF IInv, ShadowIsRom
  <2> QED
    BY <2>4, <2>5, <2>6 DEF Read
<1> QED
  BY <1>1, Invariant, PTL
=============================================================================
