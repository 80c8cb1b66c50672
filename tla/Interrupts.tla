----------------------------- MODULE Interrupts -----------------------------
(***************************************************************************)
(* Interrupt delivery while the BIOS boots: the pair of 8259 controllers,  *)
(* the CPU's mode, interrupt flag and interrupt table, the handler tables  *)
(* of interrupt.c, the real-mode stubs of interrupt.asm with their one     *)
(* fixed save area, and the boot sequence of main.c that moves between     *)
(* them.  What a handler does to its device is the business of the other   *)
(* modules; here it is the end-of-interrupt commands it issues.            *)
(***************************************************************************)
EXTENDS Integers, Sequences

CONSTANTS
  Irqs,       \* interrupt lines on which some device may raise a request
  GuestVecs,  \* software interrupts a boot sector or option ROM issues
  Drives      \* number of entries of dev_ata_drives that main tries to boot

ASSUME IrqAssumption == Irqs \subseteq (0..15 \ {2})
ASSUME GuestVecAssumption == GuestVecs \subseteq (16..31)
ASSUME DriveAssumption == Drives \in Nat

NoIrq == 16                          \* the frame of a software interrupt
ExceptionGates == 0..14              \* gates whose handlers call halt()
BiosVecs == {17, 18, 19, 20, 21, 22, 26}   \* INT 11h..16h and 1Ah

VARIABLES
  irr, isr, masked, base,            \* the 8259 pair
  mode, ifl, idtr, cpu, stack, save, \* the CPU and the save area at 0x9c000
  gates, irqH, biosH,                \* idt[], irq_handlers[], BIOS services
  pc, callee, drive, launched,       \* main()
  orphan, lost                       \* history, see below

\* orphan: lines whose latest delivery reached no handler that ends it.
\* lost:   lines with a registered handler that were dispatched elsewhere.
pic  == <<irr, isr, masked, base>>
core == <<mode, ifl, idtr, cpu, stack, save>>
tabs == <<gates, irqH, biosH>>
prog == <<pc, callee, drive, launched>>
hist == <<orphan, lost>>
vars == <<pic, core, tabs, prog, hist>>

-----------------------------------------------------------------------------
(* The 8259 pair: slave lines 8..15 reach the CPU through master line 2.   *)

Line(i) == IF i >= 8 THEN 2 ELSE i

\* A non-specific end-of-interrupt clears the highest-priority bit in service.
EoiMaster_Dropped(S) == S
EoiMaster(S) == S \ {s \in S : s < 8 /\ \A t \in S : t < 8 => s =< t}
EoiSlave(S)  == S \ {s \in S : s >= 8 /\ \A t \in S : t >= 8 => s =< t}

\* A request is presented when nothing of its priority or above is in service
\* and no other such request beats it.
Ready(i) ==
  /\ i \in irr /\ ~masked
  /\ \A s \in isr : /\ s < 8 => Line(i) < s
                    /\ (s >= 8 /\ i >= 8) => i < s
Deliverable(i) ==
  /\ Ready(i)
  /\ \A j \in Irqs : Ready(j) =>
       (Line(i) < Line(j) \/ (Line(i) = Line(j) /\ i =< j))

\* initialize_pic_protected_mode: 0x20 and 0x28; initialize_pic_real_mode:
\* 0x08 and 0x70.
PicVec_SlaveOffset(i) == IF base = "prot"
                         THEN IF i < 8 THEN 32 + i ELSE 112 + (i - 8)
                         ELSE IF i < 8 THEN 8 + i ELSE 112 + (i - 8)
PicVec(i) == IF base = "prot" THEN 32 + i
             ELSE IF i < 8 THEN 8 + i ELSE 112 + (i - 8)

\* The real-mode vector itr_set_irq_handler enters a line's handler at.
RealVec(i) == IF i >= 8 THEN 112 + i ELSE 8 + i

\* itr_handle_irq: the serial handler on line 4 sends an EOI of its own.
HandleIrq(i, S) ==
  LET own == IF i = 4 THEN EoiMaster(S) ELSE S
  IN  EoiMaster(IF i >= 8 THEN EoiSlave(own) ELSE own)

-----------------------------------------------------------------------------
Running == cpu = "run"
MainRuns == Running /\ stack = <<>>
Depth == Len(stack)
Top == stack[Depth]
Pop(n) == SubSeq(stack, 1, n - 1)
Frame(v, i, state) == [vec |-> v, irq |-> i, ifl |-> ifl, at |-> state]

Init ==
  /\ irr = {} /\ isr = {} /\ masked = FALSE /\ base = "none"
  /\ mode = "prot" /\ ifl = FALSE /\ idtr = "ivt" /\ cpu = "run"
  /\ stack = <<>> /\ save = 0
  /\ gates = FALSE /\ irqH = {} /\ biosH = FALSE
  /\ pc = "start" /\ callee = "oprom" /\ drive = 0 /\ launched = FALSE
  /\ orphan = {} /\ lost = {}

RaiseIrq(i) ==
  /\ Running /\ i \notin irr
  /\ irr' = irr \cup {i}
  /\ UNCHANGED <<isr, masked, base, core, tabs, prog, hist>>

\* Interrupt gates and the real-mode table clear IF; the trap gates of itr_init,
\* which are those of exceptions, keep it.
IfAfter_TrapGates(i) == mode = "prot"
IfAfter(i) == mode = "prot" /\ PicVec(i) \in ExceptionGates \ {2, 8}

\* The CPU takes a request.  A protected-mode CPU that finds the real-mode table,
\* or gates nobody has filled, in IDTR is lost.
Deliver(i) ==
  /\ Running /\ ifl /\ Deliverable(i)
  /\ irr' = irr \ {i}
  /\ isr' = isr \cup {i, Line(i)}
  /\ IF mode = "prot" /\ (idtr = "ivt" \/ ~gates)
     THEN /\ cpu' = "crashed"
          /\ UNCHANGED <<stack, ifl>>
     ELSE /\ stack' = Append(stack, Frame(PicVec(i), i,
                               IF mode = "prot" THEN "gate" ELSE "entry"))
          /\ ifl' = IfAfter(i)
          /\ UNCHANGED cpu
  /\ UNCHANGED <<masked, base, mode, idtr, save, tabs, prog, hist>>

\* What a dispatch that reached handler h (or none) says about line i.
Account(i, h) ==
  /\ lost' = IF i \in irqH /\ h # i THEN lost \cup {i} ELSE lost
  /\ orphan' = IF i = NoIrq \/ h = i THEN orphan \ {i} ELSE orphan \cup {i}

\* DEFAULT_INTERRUPT and its special cases, in protected mode.
RunGate ==
  /\ Running /\ stack # <<>> /\ Top.at = "gate"
  /\ IF Top.vec \in ExceptionGates
     THEN /\ cpu' = "hung"
          /\ UNCHANGED <<isr, stack, ifl, hist>>
     ELSE /\ CASE Top.vec = 39 ->                       \* handle_itr_39
                    isr' = EoiMaster(isr) /\ Account(Top.irq, Top.irq)
               [] Top.vec # 39 /\ Top.vec - 32 \in irqH ->
                    isr' = HandleIrq(Top.vec - 32, isr) /\ Account(Top.irq, Top.vec - 32)
               [] OTHER ->
                    isr' = isr /\ Account(Top.irq, NoIrq)
          /\ ifl' = Top.ifl /\ stack' = Pop(Depth)
          /\ UNCHANGED cpu
  /\ UNCHANGED <<irr, masked, base, mode, idtr, save, tabs, prog>>

-----------------------------------------------------------------------------
(* Real-mode vectors: the assembly handlers of bios.asm, and the stubs that *)
(* trampoline into protected mode over the one save area.                   *)

AsmVecs == {8, 9}

RunAsmHandler ==
  /\ Running /\ stack # <<>> /\ Top.at = "entry" /\ Top.vec \in AsmVecs
  /\ isr' = EoiMaster(isr)
  /\ ifl' = Top.ifl /\ stack' = Pop(Depth)
  /\ Account(Top.irq, Top.irq)
  /\ UNCHANGED <<irr, masked, base, mode, idtr, cpu, save, tabs, prog>>

\* interrupt_handler and the stores of trampoline_to_32: cli comes first.
StubEntryIf_NoCli == ifl
StubEntryIf == FALSE
StubEnter ==
  /\ Running /\ stack # <<>> /\ Top.at = "entry" /\ Top.vec \notin AsmVecs
  /\ ifl' = StubEntryIf
  /\ stack' = [stack EXCEPT ![Depth].at = "stored"]
  /\ save' = Depth
  /\ UNCHANGED <<mode, idtr, cpu, pic, tabs, prog, hist>>
StubProtect ==
  /\ Running /\ stack # <<>> /\ Top.at = "stored"
  /\ stack' = [stack EXCEPT ![Depth].at = "saved"]
  /\ mode' = "prot"
  /\ UNCHANGED <<ifl, save, idtr, cpu, pic, tabs, prog, hist>>

\* The line, if any, whose handler itr_set_real_mode_handler entered at v.
RealHandler(v) == {i \in irqH : RealVec(i) = v}

\* itr_real_mode_interrupt.  A vector below 0x10 that nobody registered is
\* taken for an exception: hlt for ever with IF clear.
StubDispatch ==
  /\ Running /\ stack # <<>> /\ Top.at = "saved"
  /\ idtr' = "idt"
  /\ IF RealHandler(Top.vec) # {}
     THEN \E i \in RealHandler(Top.vec) :
            isr' = HandleIrq(i, isr) /\ Account(Top.irq, i)
     ELSE isr' = isr /\ Account(Top.irq, NoIrq)
  /\ IF RealHandler(Top.vec) = {} /\ ~(biosH /\ Top.vec \in BiosVecs) /\ Top.vec < 16
     THEN cpu' = "hung" /\ UNCHANGED stack
     ELSE stack' = [stack EXCEPT ![Depth].at = "done"] /\ UNCHANGED cpu
  /\ UNCHANGED <<irr, masked, base, mode, ifl, save, tabs, prog>>

\* The rest of trampoline_to_32: real-mode table and mode, then the stack
\* pointer found in the save area, whoever put it there, then iret.
StubReturn ==
  /\ Running /\ stack # <<>> /\ Top.at = "done"
  /\ idtr' = "ivt" /\ mode' = "real"
  /\ ifl' = stack[save].ifl /\ stack' = Pop(save)
  /\ UNCHANGED <<cpu, save, pic, tabs, prog, hist>>

-----------------------------------------------------------------------------
(* The program real_mode_call hands the CPU to: a VGA option ROM or a boot  *)
(* sector.  It leaves the controllers and the vector table alone.           *)

InGuest == MainRuns /\ pc = "guest"

\* int n clears IF; the pushf and far call of a chained handler keep it.
GuestCall(v, keep) ==
  /\ InGuest
  /\ stack' = Append(stack, Frame(v, NoIrq, "entry"))
  /\ ifl' = (keep /\ ifl)
  /\ UNCHANGED <<mode, idtr, cpu, save, pic, tabs, prog, hist>>

GuestSetIf(on) ==
  /\ InGuest /\ ifl # on
  /\ ifl' = on
  /\ UNCHANGED <<mode, idtr, cpu, stack, save, pic, tabs, prog, hist>>

\* The far return into call_real_mode.S: cli, protected mode, and sti before
\* anyone has reloaded IDTR.
GuestReturn ==
  /\ InGuest
  /\ ifl' = TRUE /\ mode' = "prot" /\ pc' = "window"
  /\ UNCHANGED <<idtr, cpu, stack, save, callee, drive, launched, pic, tabs, hist>>

-----------------------------------------------------------------------------
(* main()                                                                   *)

Goto(here, there) ==
  /\ MainRuns /\ pc = here /\ pc' = there
  /\ UNCHANGED <<callee, drive, launched>>
Remap(b, m) == irr' = {} /\ isr' = {} /\ masked' = m /\ base' = b
SetIrqHandlers(S) == irqH' = irqH \cup S /\ UNCHANGED <<gates, biosH>>
SetIf(on) == ifl' = on /\ UNCHANGED <<mode, idtr, cpu, stack, save>>

ItrDisable_SkipMask ==
  /\ Goto("start", "oprom")
  /\ SetIf(FALSE)
  /\ UNCHANGED <<pic, tabs, hist>>
ItrDisable ==
  /\ Goto("start", "oprom")
  /\ masked' = TRUE /\ UNCHANGED <<irr, isr, base>>
  /\ SetIf(FALSE)
  /\ UNCHANGED <<tabs, hist>>

\* real_mode_call up to the far call; IF is clear until its own sti.
EnterRealMode(who) ==
  /\ MainRuns
  /\ pc' = "guest" /\ callee' = who
  /\ mode' = "real" /\ idtr' = "ivt" /\ ifl' = TRUE
  /\ UNCHANGED <<cpu, stack, save, tabs>>

CallOprom ==
  /\ pc = "oprom" /\ EnterRealMode("oprom")
  /\ UNCHANGED <<drive, launched, pic, hist>>
SkipOprom == Goto("oprom", "init") /\ UNCHANGED <<core, pic, tabs, hist>>

\* itr_reload_idt, the last thing real_mode_call does.
ReloadIdt ==
  /\ MainRuns /\ pc = "window"
  /\ idtr' = "idt"
  /\ pc' = IF callee = "oprom" THEN "init" ELSE "boot"
  /\ drive' = IF callee = "boot" THEN drive + 1 ELSE drive
  /\ UNCHANGED <<mode, ifl, cpu, stack, save, callee, launched, pic, tabs, hist>>

ItrInit_NoLidt ==
  /\ Goto("init", "timer")
  /\ Remap("prot", TRUE)
  /\ gates' = TRUE /\ UNCHANGED <<irqH, biosH>>
  /\ SetIf(FALSE)
  /\ orphan' = {} /\ UNCHANGED lost
ItrInit ==
  /\ Goto("init", "timer")
  /\ Remap("prot", TRUE)
  /\ gates' = TRUE /\ UNCHANGED <<irqH, biosH>>
  /\ ifl' = FALSE /\ idtr' = "idt" /\ UNCHANGED <<mode, cpu, stack, save>>
  /\ orphan' = {} /\ UNCHANGED lost
TimerInit == Goto("timer", "serial") /\ SetIrqHandlers({0}) /\ UNCHANGED <<core, pic, hist>>
SerialSetBuffered == Goto("serial", "hd") /\ SetIrqHandlers({4}) /\ UNCHANGED <<core, pic, hist>>

\* hd_init registers a handler for each controller it detects.
HdInit ==
  /\ Goto("hd", "bios")
  /\ \E found \in SUBSET {14, 15} : SetIrqHandlers(found)
  /\ UNCHANGED <<core, pic, hist>>
BiosInit ==
  /\ Goto("bios", "enable") /\ biosH' = TRUE
  /\ UNCHANGED <<gates, irqH, core, pic, hist>>
ItrEnable ==
  /\ Goto("enable", "kbd")
  /\ masked' = FALSE /\ UNCHANGED <<irr, isr, base>>
  /\ SetIf(TRUE)
  /\ UNCHANGED <<tabs, hist>>

\* keyboard_init talks to the controller first and registers its handler last,
\* unless the controller or the keyboard fails its test.
KeyboardInit ==
  /\ Goto("kbd", "boot")
  /\ \E served \in SUBSET {1} : SetIrqHandlers(served)
  /\ UNCHANGED <<core, pic, hist>>

\* boot_from_hd on an absent drive or one without a boot signature.
BootSkip_NoBound ==
  /\ MainRuns /\ pc = "boot" /\ drive =< Drives
  /\ drive' = drive + 1
  /\ UNCHANGED <<pc, callee, launched, core, pic, tabs, hist>>
BootSkip ==
  /\ MainRuns /\ pc = "boot" /\ drive < Drives
  /\ drive' = drive + 1
  /\ UNCHANGED <<pc, callee, launched, core, pic, tabs, hist>>
BootFromHd ==
  /\ pc = "boot" /\ drive < Drives /\ EnterRealMode("boot")
  /\ Remap("real", FALSE) /\ launched' = TRUE /\ orphan' = {}
  /\ UNCHANGED <<drive, lost>>
FailedToBoot ==
  /\ drive = Drives /\ Goto("boot", "failed")
  /\ UNCHANGED <<core, pic, tabs, hist>>
-----------------------------------------------------------------------------
TakeIrq == \E i \in Irqs : Deliver(i)
RunHandler == RunGate \/ RunAsmHandler \/ StubEnter \/ StubProtect
              \/ StubDispatch \/ StubReturn
Guest == \/ \E v \in GuestVecs, keep \in BOOLEAN : GuestCall(v, keep)
         \/ \E on \in BOOLEAN : GuestSetIf(on)
         \/ GuestReturn
Main == \/ ItrDisable \/ CallOprom \/ SkipOprom \/ ReloadIdt \/ ItrInit
        \/ TimerInit \/ SerialSetBuffered \/ HdInit \/ BiosInit \/ ItrEnable
        \/ KeyboardInit \/ BootSkip \/ BootFromHd \/ FailedToBoot

Next == \/ \E i \in Irqs : RaiseIrq(i)
        \/ TakeIrq \/ RunHandler \/ Guest \/ Main

\* The CPU takes a presented interrupt, and runs the handler it entered.
Fairness == WF_vars(TakeIrq) /\ WF_vars(RunHandler)
Spec == Init /\ [][Next]_vars /\ Fairness

-----------------------------------------------------------------------------
Frames == [vec : 0..127, irq : 0..NoIrq, ifl : BOOLEAN,
           at : {"gate", "entry", "stored", "saved", "done"}]

\* Every variable has its type; main never tries a drive past the last.
TypeOK ==
  /\ irr \subseteq Irqs /\ isr \subseteq 0..15 /\ masked \in BOOLEAN
  /\ base \in {"none", "prot", "real"}
  /\ mode \in {"prot", "real"} /\ ifl \in BOOLEAN /\ idtr \in {"ivt", "idt"}
  /\ cpu \in {"run", "hung", "crashed"} /\ stack \in Seq(Frames) /\ save \in Nat
  /\ gates \in BOOLEAN /\ irqH \subseteq 0..15 /\ biosH \in BOOLEAN
  /\ pc \in {"start", "oprom", "guest", "window", "init", "timer", "serial",
             "hd", "bios", "enable", "kbd", "boot", "failed"}
  /\ callee \in {"oprom", "boot"} /\ drive \in 0..Drives /\ launched \in BOOLEAN
  /\ orphan \subseteq 0..15 /\ lost \subseteq 0..15

\* trampoline_to_32 is not reentrant: it keeps the interrupted stack pointer at
\* the fixed address 0x9c000.  While a stub is between its store and its iret,
\* the area holds that stub's own value, so no other stub has entered since.
SaveAreaIntact ==
  \A k \in 1..Depth : stack[k].at \in {"stored", "saved", "done"} => save = k

\* Until a boot sector is given control, no interleaving of device interrupts
\* with main or an option ROM hangs the machine (an exception gate, or hlt in
\* itr_real_mode_interrupt) or sends an interrupt through the wrong table.
RunsUntilLaunch == ~launched => cpu = "run"

\* When no handler is running, an in-service bit belongs to a line whose last
\* delivery found no handler (DEFAULT_INTERRUPT, itr_real_mode_interrupt): every
\* handler that runs has ended its own interrupt.  The cascade bit stands only
\* for such a slave line.
ServedIrqsAreEnded ==
  MainRuns => /\ isr \subseteq orphan \cup {2}
              /\ 2 \in isr => \E s \in isr : s >= 8

\* An EOI names no line: it ends whatever is highest in service.  Still, unless the
\* controllers are programmed anew, what ends is the service of the line whose
\* handler runs, with the cascade of a slave.  Only the second EOI of line 4
\* (serial.c and itr_handle_irq) may end another line's, and then that of a line
\* nobody handles, never of one whose handler has yet to run.
EoiEndsOwnLine ==
  [][pc' = pc => \A i \in isr \ isr' : \/ i \in {Top.irq, Line(Top.irq)}
                                       \/ Top.irq = 4 /\ i \in orphan]_isr

\* Until a boot sector is given control, an interrupt of a line that has a
\* handler is dispatched to that handler and to no other code.
HandlersReached == ~launched => lost = {}

\* The machine is lost to an interrupt through the table of the other mode only
\* between the sti and the lidt that follow a boot sector's return
\* (call_real_mode.S, util.c): the one window the code leaves open.
CrashOnlyInWindow ==
  [][cpu' = "crashed" => pc = "window" /\ callee = "boot"]_cpu

\* Once interrupts are enabled in protected mode the timer line is served,
\* whatever other lines are stuck in service for want of a handler.
TimerServed ==
  (0 \in irr /\ pc \in {"kbd", "boot", "failed"} /\ base = "prot")
    ~> (0 \notin irr)

\* What a comment in the code says, and the code does not do:
\* keyboard_init ends with the keyboard interrupt enabled, so that line 1 is
\* not left in service when no handler runs.
KeyboardIrqUsable ==
  (pc = "boot" /\ 1 \in irqH /\ stack = <<>>) => 1 \notin isr
=============================================================================
