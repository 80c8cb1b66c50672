-------------------------- MODULE InterruptsProofs --------------------------
(***************************************************************************)
(* Proofs about Interrupts, for every set of interrupt lines, every set of *)
(* guest interrupts and every number of drives: types, the save area of    *)
(* the real-mode stubs, and what holds until a boot sector is started.     *)
(***************************************************************************)
EXTENDS Interrupts, SequenceTheorems, TLAPS

(***************************************************************************)
(* The inductive invariant.                                                *)
(***************************************************************************)

\* A stub past its store is the innermost frame, owns the save area, and runs
\* with interrupts disabled.
ActiveAts == {"stored", "saved", "done"}
StubInv ==
  \A k \in 1..Len(stack) : stack[k].at \in ActiveAts =>
    k = Len(stack) /\ save = k /\ ~ifl

\* Stubs run while a guest does, in the mode their position says; protected
\* mode is entered by gates otherwise.
ModeInv ==
  /\ pc = "guest" => \A k \in 1..Len(stack) : stack[k].at # "gate"
  /\ (pc = "guest" /\ mode = "prot") =>
       stack # <<>> /\ stack[Len(stack)].at \in {"saved", "done"}
  /\ pc # "guest" => mode = "prot" /\ \A k \in 1..Len(stack) : stack[k].at = "gate"

\* The controllers stay masked from itr_disable to itr_enable, an option ROM
\* included; afterwards the gates are filled.
InCall == pc \in {"guest", "window"}
Quiet == \/ pc \in {"oprom", "init", "timer", "serial", "hd", "bios", "enable"}
         \/ InCall /\ callee = "oprom"
Initialised == pc \in {"timer", "serial", "hd", "bios", "enable", "kbd", "boot", "failed"}
PhaseInv ==
  /\ pc = "start" => ~ifl /\ stack = <<>>
  /\ Quiet => masked
  /\ (pc # "start" /\ ~Quiet) => gates
  /\ Initialised => idtr = "idt" /\ gates
  /\ (Initialised /\ ~launched) => base = "prot"

\* Who called real_mode_call, and for which drive.
CallInv ==
  /\ callee = "boot" => launched
  /\ (InCall /\ callee = "boot") => drive < Drives

\* Before a boot sector runs, a gate frame is a device's at the vector it was
\* programmed for, and a stub's frame is a software interrupt's.
FrameInv ==
  ~launched => \A k \in 1..Len(stack) :
    IF stack[k].at = "gate"
    THEN stack[k].vec = 32 + stack[k].irq
    ELSE stack[k].irq = NoIrq /\ stack[k].vec >= 16

IInv == /\ TypeOK /\ StubInv /\ ModeInv /\ PhaseInv /\ CallInv /\ FrameInv
        /\ RunsUntilLaunch /\ HandlersReached

-----------------------------------------------------------------------------
(***************************************************************************)
(* Facts about stacks of frames.                                           *)
(***************************************************************************)

\* Entering a handler pushes one frame and leaves the others alone.
LEMMA PushFrame ==
  ASSUME NEW s \in Seq(Frames), NEW f \in Frames
  PROVE  /\ Append(s, f) \in Seq(Frames)
         /\ Len(Append(s, f)) = Len(s) + 1
         /\ Append(s, f)[Len(s) + 1] = f
         /\ \A k \in 1..Len(s) : Append(s, f)[k] = s[k]
  BY AppendProperties

\* Returning from one drops the innermost frame.
LEMMA PopFrame ==
  ASSUME NEW s \in Seq(Frames), s # <<>>
  PROVE  /\ Len(s) \in Nat \ {0}
         /\ SubSeq(s, 1, Len(s) - 1) \in Seq(Frames)
         /\ Len(SubSeq(s, 1, Len(s) - 1)) = Len(s) - 1
         /\ \A k \in 1..Len(s) - 1 : SubSeq(s, 1, Len(s) - 1)[k] = s[k]
<1> DEFINE n == Len(s) - 1
<1>1. Len(s) \in Nat \ {0}
  BY EmptySeq
<1>2. n \in Nat /\ n < Len(s)
  BY <1>1
<1> HIDE DEF n
<1>3. /\ SubSeq(s, 1, n) \in Seq(Frames)
      /\ Len(SubSeq(s, 1, n)) = n
      /\ \A k \in 1..n : SubSeq(s, 1, n)[k] = s[k]
  BY <1>2
<1> QED
  BY <1>1, <1>3 DEF n

\* An end-of-interrupt puts no line in service.
LEMMA EoiShrinks ==
  ASSUME NEW S, NEW i
  PROVE  /\ EoiMaster(S) \subseteq S /\ EoiSlave(S) \subseteq S
         /\ HandleIrq(i, S) \subseteq S
  BY DEF EoiMaster, EoiSlave, HandleIrq

\* A device interrupt enters at one of the 128 vectors below 80h.
LEMMA VectorRange ==
  ASSUME NEW i \in Irqs
  PROVE  PicVec(i) \in 0..127 /\ i \in 0..15 /\ Line(i) \in 0..15
  BY IrqAssumption DEF PicVec, Line

\* No device vector is an exception's, and those below 10h are not software's.
LEMMA VectorFacts ==
  \A v \in 0..127 :
    /\ v >= 16 => v \in 16..127
    /\ v < 16 => v \notin 16..127
    /\ \A i \in 0..NoIrq : v = 32 + i => v \notin ExceptionGates
  BY DEF NoIrq, ExceptionGates

\* The history of a dispatch to handler h stays within the lines.
LEMMA AccountTypes ==
  ASSUME TypeOK, NEW i \in 0..NoIrq, NEW h \in 0..NoIrq, Account(i, h)
  PROVE  /\ orphan' \subseteq 0..15 /\ lost' \subseteq 0..15
         /\ (i = h \/ i \notin irqH) => lost' = lost
  BY DEF TypeOK, Account, NoIrq

-----------------------------------------------------------------------------
(***************************************************************************)
(* The invariant holds initially and in every step.                        *)
(***************************************************************************)

\* The machine main() starts on satisfies the invariant.
THEOREM InitInv == Init => IInv
<1> SUFFICES ASSUME Init PROVE IInv
  OBVIOUS
<1>1. Len(stack) = 0 /\ stack \in Seq(Frames)
  BY DEF Init
<1>2. /\ irr \subseteq Irqs /\ isr \subseteq 0..15 /\ irqH \subseteq 0..15
      /\ drive \in 0..Drives /\ orphan \subseteq 0..15 /\ lost \subseteq 0..15
  BY DriveAssumption DEF Init
<1>3. TypeOK
  BY <1>1, <1>2 DEF Init, TypeOK
<1> QED
  BY <1>1, <1>3 DEF Init, IInv, StubInv, ModeInv, PhaseInv, CallInv, FrameInv,
     RunsUntilLaunch, HandlersReached, Quiet, InCall, Initialised

\* main() runs with no handler on the stack: what it does to mode, IDTR, mask
\* and gates keeps the phases of the boot sequence.
LEMMA MainInv == ASSUME IInv, Main PROVE IInv'
<1> USE DEF IInv, StubInv, ModeInv, CallInv, FrameInv, RunsUntilLaunch,
            HandlersReached, InCall, Running, MainRuns
<1>0. stack = <<>> /\ Len(stack) = 0 /\ UNCHANGED stack
  BY DEF Main, ItrDisable, CallOprom, SkipOprom, ReloadIdt, ItrInit, TimerInit,
     SerialSetBuffered, HdInit, BiosInit, ItrEnable, KeyboardInit, BootSkip,
     BootFromHd, FailedToBoot, Goto, EnterRealMode, SetIf, core
<1>1. CASE ItrDisable
  BY <1>0, <1>1 DEF ItrDisable, Goto, SetIf, tabs, hist, TypeOK, PhaseInv, Quiet, Initialised
<1>2. CASE CallOprom
  BY <1>0, <1>2 DEF CallOprom, EnterRealMode, tabs, pic, hist, TypeOK, PhaseInv, Quiet, Initialised
<1>3. CASE SkipOprom
  BY <1>0, <1>3 DEF SkipOprom, Goto, core, pic, tabs, hist, TypeOK, PhaseInv, Quiet, Initialised
<1>4. CASE ReloadIdt
  BY <1>0, <1>4, DriveAssumption
     DEF ReloadIdt, pic, tabs, hist, TypeOK, PhaseInv, Quiet, Initialised
<1>5. CASE ItrInit
  BY <1>0, <1>5 DEF ItrInit, Goto, Remap, TypeOK, PhaseInv, Quiet, Initialised
<1>6. CASE TimerInit
  BY <1>0, <1>6 DEF TimerInit, Goto, SetIrqHandlers, core, pic, hist, TypeOK, PhaseInv, Quiet, Initialised
<1>7. CASE SerialSetBuffered
  BY <1>0, <1>7 DEF SerialSetBuffered, Goto, SetIrqHandlers, core, pic, hist, TypeOK, PhaseInv, Quiet, Initialised
<1>8. CASE HdInit
  BY <1>0, <1>8 DEF HdInit, Goto, SetIrqHandlers, core, pic, hist, TypeOK, PhaseInv, Quiet, Initialised
<1>9. CASE BiosInit
  BY <1>0, <1>9 DEF BiosInit, Goto, core, pic, hist, TypeOK, PhaseInv, Quiet, Initialised
<1>10. CASE ItrEnable
  <2>1. TypeOK'
    BY <1>0, <1>10 DEF ItrEnable, Goto, SetIf, tabs, hist, TypeOK
  <2>2. PhaseInv'
    BY <1>0, <1>10 DEF ItrEnable, Goto, SetIf, tabs, hist, PhaseInv, Quiet, Initialised
  <2> QED
    BY <1>0, <1>10, <2>1, <2>2 DEF ItrEnable, Goto, SetIf, tabs, hist
<1>11. CASE KeyboardInit
  BY <1>0, <1>11 DEF KeyboardInit, Goto, SetIrqHandlers, core, pic, hist, TypeOK, PhaseInv, Quiet, Initialised
<1>12. CASE BootSkip
  BY <1>0, <1>12, DriveAssumption
     DEF BootSkip, core, pic, tabs, hist, TypeOK, PhaseInv, Quiet, Initialised
<1>13. CASE BootFromHd
  <2>1. TypeOK'
    BY <1>0, <1>13 DEF BootFromHd, EnterRealMode, Remap, tabs, TypeOK
  <2>2. PhaseInv'
    BY <1>0, <1>13 DEF BootFromHd, EnterRealMode, Remap, tabs, PhaseInv, Quiet, Initialised
  <2> QED
    BY <1>0, <1>13, <2>1, <2>2, DriveAssumption
       DEF BootFromHd, EnterRealMode, Remap, tabs, TypeOK
<1>14. CASE FailedToBoot
  BY <1>0, <1>14 DEF FailedToBoot, Goto, core, pic, tabs, hist, TypeOK, PhaseInv, Quiet, Initialised
<1> QED
  BY <1>1, <1>2, <1>3, <1>4, <1>5, <1>6, <1>7, <1>8, <1>9, <1>10, <1>11, <1>12,
     <1>13, <1>14 DEF Main

\* The controllers may deliver before the launch only once main() enabled
\* interrupts: then the new frame is a gate of the protected-mode table.
LEMMA DeliverInv == ASSUME IInv, NEW i \in Irqs, Deliver(i) PROVE IInv'
<1> USE DEF IInv, Running
<1> DEFINE at == IF mode = "prot" THEN "gate" ELSE "entry"
           crash == mode = "prot" /\ (idtr = "ivt" \/ ~gates)
           f == Frame(PicVec(i), i, at)
<1>1. /\ ifl = TRUE /\ masked = FALSE /\ cpu = "run"
      /\ \A k \in 1..Len(stack) : stack[k].at \notin ActiveAts
  BY DEF Deliver, Deliverable, Ready, TypeOK, StubInv
<1>2. f \in Frames /\ f.at = at /\ f.vec = PicVec(i) /\ f.irq = i
  BY <1>1, VectorRange DEF Frame, Frames, NoIrq
<1>3. /\ Append(stack, f) \in Seq(Frames)
      /\ Len(Append(stack, f)) = Len(stack) + 1
      /\ Append(stack, f)[Len(stack) + 1] = f
      /\ \A k \in 1..Len(stack) : Append(stack, f)[k] = stack[k]
  BY <1>2, PushFrame DEF TypeOK
<1>4. pc # "start" /\ ~Quiet /\ gates
  BY <1>1 DEF PhaseInv
<1>5. ~launched => /\ Initialised /\ pc # "guest" /\ ~crash /\ at = "gate"
                   /\ PicVec(i) = 32 + i
  BY <1>4, VectorRange DEF TypeOK, PhaseInv, CallInv, ModeInv, Quiet, InCall, Initialised, PicVec
<1>6. CASE crash
  <2>1. cpu' = "crashed" /\ UNCHANGED <<stack, ifl>> /\ launched
    BY <1>5, <1>6 DEF Deliver, TypeOK
  <2>2. TypeOK'
    <3>1. /\ irr' = irr \ {i} /\ isr' = isr \cup {i, Line(i)}
          /\ masked' = masked /\ base' = base /\ mode' = mode /\ idtr' = idtr /\ save' = save
          /\ UNCHANGED tabs /\ UNCHANGED prog /\ UNCHANGED hist
      BY DEF Deliver
    <3>2. irr' \subseteq Irqs /\ isr' \subseteq 0..15
      BY <3>1, VectorRange DEF TypeOK
    <3>3. /\ masked' \in BOOLEAN /\ base' \in {"none", "prot", "real"} /\ ifl' \in BOOLEAN
          /\ mode' \in {"prot", "real"} /\ idtr' \in {"ivt", "idt"}
          /\ cpu' \in {"run", "hung", "crashed"} /\ stack' \in Seq(Frames) /\ save' \in Nat
      BY <2>1, <3>1 DEF TypeOK
    <3>4. gates' \in BOOLEAN /\ irqH' \subseteq 0..15 /\ biosH' \in BOOLEAN
      BY <3>1 DEF TypeOK, tabs
    <3>5. /\ pc' \in {"start", "oprom", "guest", "window", "init", "timer", "serial",
                     "hd", "bios", "enable", "kbd", "boot", "failed"}
          /\ callee' \in {"oprom", "boot"} /\ drive' \in 0..Drives /\ launched' \in BOOLEAN
      BY <3>1 DEF TypeOK, prog
    <3>6. orphan' \subseteq 0..15 /\ lost' \subseteq 0..15
      BY <3>1 DEF TypeOK, hist
    <3> QED
      BY <3>2, <3>3, <3>4, <3>5, <3>6 DEF TypeOK
  <2>3. StubInv' /\ ModeInv'
    BY <2>1 DEF Deliver, prog, StubInv, ModeInv
  <2>4. PhaseInv' /\ CallInv' /\ FrameInv' /\ RunsUntilLaunch' /\ HandlersReached'
    BY <2>1 DEF Deliver, prog, tabs, PhaseInv, CallInv, FrameInv, RunsUntilLaunch,
       HandlersReached, Quiet, InCall, Initialised
  <2> QED
    BY <2>2, <2>3, <2>4
<1>7. CASE ~crash
  <2>1. stack' = Append(stack, f) /\ cpu' = cpu
    BY <1>7 DEF Deliver
  <2>2. Len(stack) \in Nat /\ 1..Len(stack') = 1..(Len(stack) + 1)
    BY <1>3, <2>1 DEF TypeOK
  <2>3. TypeOK'
    <3>1. stack' \in Seq(Frames) /\ ifl' \in BOOLEAN
      BY <1>3, <2>1, <1>7 DEF Deliver, IfAfter
    <3>2. isr' \subseteq 0..15 /\ irr' \subseteq Irqs
      BY VectorRange DEF Deliver, TypeOK
    <3>3. UNCHANGED <<masked, base, mode, idtr, cpu, save, gates, irqH, biosH, pc,
                      callee, drive, launched, orphan, lost>>
      BY <2>1 DEF Deliver, prog, tabs, hist
    <3> QED
      BY <3>1, <3>2, <3>3 DEF TypeOK
  <2>4. StubInv'
    BY <1>1, <1>2, <1>3, <2>1, <2>2 DEF StubInv, ActiveAts
  <2>5. ModeInv'
    BY <1>1, <1>2, <1>3, <2>1, <2>2 DEF Deliver, prog, ModeInv, ActiveAts
  <2>6. PhaseInv' /\ CallInv'
    BY <1>4 DEF Deliver, prog, tabs, PhaseInv, CallInv, Quiet, InCall, Initialised
  <2>7. FrameInv'
    BY <1>2, <1>3, <1>5, <2>1, <2>2 DEF Deliver, prog, FrameInv
  <2>8. RunsUntilLaunch' /\ HandlersReached'
    BY <1>5, <2>1 DEF Deliver, prog, hist, RunsUntilLaunch, HandlersReached
  <2> QED
    BY <2>3, <2>4, <2>5, <2>6, <2>7, <2>8
<1> QED
  BY <1>6, <1>7

\* A handler runs on the innermost frame; a gate or an assembly handler returns
\* at once, so that no stub is active below it.
LEMMA TopFrame ==
  ASSUME IInv, stack # <<>>
  PROVE  /\ Len(stack) \in 1..Len(stack) /\ Len(stack) \in Nat \ {0}
         /\ Top = stack[Len(stack)] /\ Top \in Frames
         /\ Top.vec \in 0..127 /\ Top.irq \in 0..NoIrq /\ Top.ifl \in BOOLEAN
<1>1. Len(stack) \in Nat \ {0}
  BY EmptySeq DEF IInv, TypeOK
<1>2. stack[Len(stack)] \in Frames
  BY <1>1, ElementOfSeq DEF IInv, TypeOK
<1> QED
  BY <1>1, <1>2 DEF Top, Depth, Frames

\* A gate ends its interrupt, or hangs on an exception: before the launch every
\* gate frame is a device's, at 20h or above, so that neither an exception nor
\* another line's handler is reached.
LEMMA RunGateInv == ASSUME IInv, RunGate PROVE IInv'
<1> USE DEF Running
<1>0. stack # <<>> => Len(stack) \in 1..Len(stack) /\ Top = stack[Len(stack)]
                      /\ Top.vec \in 0..127 /\ Top.irq \in 0..NoIrq /\ Top.ifl \in BOOLEAN
  BY TopFrame
<1> USE DEF IInv
<1>1. /\ stack # <<>> /\ Top.at = "gate" /\ cpu = "run"
      /\ UNCHANGED <<irr, masked, base, mode, idtr, save, gates, irqH, biosH, pc,
                     callee, drive, launched>>
  BY DEF RunGate, tabs, prog
<1>2. \A k \in 1..Len(stack) : stack[k].at \notin ActiveAts
  BY <1>0, <1>1 DEF StubInv, ActiveAts
<1>3. ~launched => Top.vec = 32 + Top.irq /\ Top.vec \notin ExceptionGates
  <2>1. ~launched => Top.vec = 32 + Top.irq
    BY <1>0, <1>1 DEF FrameInv
  <2> QED
    BY <1>0, <1>1, <2>1, VectorFacts, Zenon
<1>4. PhaseInv' /\ CallInv'
  BY <1>0, <1>1 DEF PhaseInv, CallInv, Quiet, InCall, Initialised
<1>5. CASE Top.vec \in ExceptionGates
  <2>1. UNCHANGED <<isr, stack, ifl, orphan, lost>> /\ cpu' = "hung" /\ launched
    BY <1>3, <1>5 DEF RunGate, hist, TypeOK
  <2> QED
    BY <1>1, <1>4, <2>1 DEF TypeOK, StubInv, ModeInv, FrameInv, RunsUntilLaunch, HandlersReached
<1>6. CASE Top.vec \notin ExceptionGates
  <2>1. /\ isr' \subseteq isr /\ ifl' = Top.ifl /\ cpu' = cpu
        /\ stack' = SubSeq(stack, 1, Len(stack) - 1)
    BY <1>6, EoiShrinks DEF RunGate, Pop, Depth
  <2>2. /\ orphan' \subseteq 0..15 /\ lost' \subseteq 0..15
        /\ ~launched => lost' = lost
    <3>1. \/ Top.vec = 39 /\ Account(Top.irq, Top.irq)
          \/ Top.vec # 39 /\ Top.vec - 32 \in irqH /\ Account(Top.irq, Top.vec - 32)
          \/ Top.vec - 32 \notin irqH /\ Account(Top.irq, NoIrq)
      BY <1>6, Zenon DEF RunGate
    <3>2. Top.vec - 32 \in irqH => Top.vec - 32 \in 0..NoIrq
      <4>1. \A h \in irqH : h \in 0..NoIrq
        BY DEF TypeOK, NoIrq
      <4> QED
        BY <4>1
    <3>3. TypeOK /\ Top.irq \in 0..NoIrq /\ NoIrq \in 0..NoIrq
      BY <1>0, <1>1 DEF NoIrq
    <3>4. CASE Top.vec = 39 /\ Account(Top.irq, Top.irq)
      BY <3>3, <3>4, AccountTypes, Zenon
    <3>5. CASE Top.vec # 39 /\ Top.vec - 32 \in irqH /\ Account(Top.irq, Top.vec - 32)
      <4>1. ~launched => Top.irq = Top.vec - 32
        BY <1>0, <1>1, <1>3
      <4> QED
        BY <3>2, <3>3, <3>5, <4>1, AccountTypes, Zenon
    <3>6. CASE Top.vec - 32 \notin irqH /\ Account(Top.irq, NoIrq)
      <4>1. ~launched => Top.irq \notin irqH
        BY <1>0, <1>1, <1>3, <3>6
      <4> QED
        BY <3>3, <3>6, <4>1, AccountTypes, Zenon
    <3> QED
      BY <3>1, <3>4, <3>5, <3>6, Zenon
  <2>3. /\ stack' \in Seq(Frames) /\ Len(stack') = Len(stack) - 1
        /\ \A k \in 1..Len(stack') : k \in 1..Len(stack) /\ stack'[k] = stack[k]
    BY <1>1, <2>1, TopFrame, PopFrame DEF TypeOK
  <2>4. TypeOK'
    BY <1>1, <2>1, <2>2, <2>3, TopFrame DEF TypeOK
  <2>5. StubInv' /\ ModeInv' /\ FrameInv'
    BY <1>1, <1>2, <2>1, <2>3, TopFrame DEF StubInv, ModeInv, FrameInv, ActiveAts
  <2> QED
    BY <1>1, <1>4, <2>1, <2>2, <2>4, <2>5 DEF RunsUntilLaunch, HandlersReached
<1> QED
  BY <1>5, <1>6

\* The assembly handlers run in real mode only, and end their line.
LEMMA AsmHandlerInv == ASSUME IInv, RunAsmHandler PROVE IInv'
<1> USE DEF Running
<1>0. stack # <<>> => Len(stack) \in 1..Len(stack) /\ Top = stack[Len(stack)]
                      /\ Top.vec \in 0..127 /\ Top.irq \in 0..NoIrq /\ Top.ifl \in BOOLEAN
  BY TopFrame
<1> USE DEF IInv
<1>1. /\ stack # <<>> /\ Top.at = "entry" /\ Top.vec \in AsmVecs /\ cpu = "run"
      /\ ifl' = Top.ifl /\ stack' = SubSeq(stack, 1, Len(stack) - 1)
      /\ isr' \subseteq isr /\ Account(Top.irq, Top.irq)
      /\ UNCHANGED <<irr, masked, base, mode, idtr, cpu, save, gates, irqH, biosH, pc,
                     callee, drive, launched>>
  BY EoiShrinks DEF RunAsmHandler, tabs, prog, Pop, Depth
<1>2. launched /\ pc = "guest"
  BY <1>0, <1>1 DEF FrameInv, ModeInv, AsmVecs, TypeOK
<1>3. \A k \in 1..Len(stack) : stack[k].at \notin ActiveAts
  BY <1>0, <1>1 DEF StubInv, ActiveAts
<1>4. PhaseInv' /\ CallInv'
  BY <1>1, <1>2 DEF PhaseInv, CallInv, Quiet, InCall, Initialised
<1>5. /\ orphan' \subseteq 0..15 /\ lost' \subseteq 0..15
  <2>1. TypeOK /\ Top.irq \in 0..NoIrq
    BY <1>0, <1>1
  <2> QED
    BY <1>1, <2>1, AccountTypes, Zenon
<1>6. /\ stack' \in Seq(Frames) /\ Len(stack') = Len(stack) - 1
      /\ \A k \in 1..Len(stack') : k \in 1..Len(stack) /\ stack'[k] = stack[k]
  BY <1>1, TopFrame, PopFrame DEF TypeOK
<1>7. TypeOK'
  BY <1>0, <1>1, <1>5, <1>6 DEF TypeOK
<1>8. StubInv' /\ ModeInv'
  BY <1>0, <1>1, <1>2, <1>3, <1>6 DEF StubInv, ModeInv, ActiveAts
<1> QED
  BY <1>1, <1>2, <1>4, <1>7, <1>8 DEF FrameInv, RunsUntilLaunch, HandlersReached

\* What a stub does to its own frame: it moves it on and leaves those below.
LEMMA MoveTop ==
  ASSUME IInv, stack # <<>>, NEW a \in {"entry", "stored", "saved", "done"},
         Top.at # "gate", stack' = [stack EXCEPT ![Depth].at = a],
         UNCHANGED <<pc, launched>>
  PROVE  /\ stack' \in Seq(Frames) /\ Len(stack') = Len(stack) /\ stack' # <<>>
         /\ stack'[Len(stack)].at = a
         /\ \A k \in 1..Len(stack) - 1 : stack'[k] = stack[k]
         /\ pc = "guest" /\ FrameInv'
<1>1. /\ Len(stack) \in 1..Len(stack) /\ Top = stack[Len(stack)]
      /\ stack \in Seq(Frames) /\ Len(stack) \in Nat \ {0}
  BY TopFrame DEF IInv, TypeOK
<1>2. /\ stack' \in Seq(Frames) /\ Len(stack') = Len(stack) /\ stack' # <<>>
      /\ \A k \in 1..Len(stack) : stack'[k].vec = stack[k].vec /\ stack'[k].irq = stack[k].irq
      /\ \A k \in 1..Len(stack) - 1 : stack'[k] = stack[k]
      /\ stack'[Len(stack)].at = a
  <2> DEFINE n == Len(stack)
             e == [stack[n] EXCEPT !.at = a]
  <2>1. n \in 1..n /\ stack[n] \in Frames
    BY <1>1, ElementOfSeq
  <2>2. /\ e \in Frames /\ e.at = a
        /\ e.vec = stack[n].vec /\ e.irq = stack[n].irq
    BY <2>1 DEF Frames
  <2>3. /\ stack' \in Seq(Frames) /\ Len(stack') = n
        /\ \A j \in 1..n : stack'[j] = IF j = n THEN e ELSE stack[j]
    <3>1. stack' = [stack EXCEPT ![n].at = a]
      BY DEF Depth
    <3>2. Len(stack') = n
      BY <1>1, <3>1
    <3>3. \A j \in 1..n : stack'[j] = IF j = n THEN e ELSE stack[j]
      BY <1>1, <2>1, <3>1
    <3>4. [stack EXCEPT ![n] = e] \in Seq(Frames)
      <4> HIDE DEF e
      <4> QED
        BY <1>1, <2>1, <2>2, ExceptSeq
    <3> QED
      BY <3>1, <3>2, <3>3, <3>4, Zenon
  <2>4. stack' # <<>>
    BY <2>1, <2>3, EmptySeq
  <2> HIDE DEF e
  <2> QED
    BY <1>1, <2>1, <2>2, <2>3, <2>4
<1>3. pc = "guest"
  BY <1>1 DEF IInv, ModeInv
<1>4. \A k \in 1..Len(stack) : stack[k].at # "gate" /\ stack'[k].at # "gate"
  <2>1. \A k \in 1..Len(stack) : k = Len(stack) \/ k \in 1..Len(stack) - 1
    BY <1>1
  <2> QED
    BY <1>1, <1>2, <1>3, <2>1 DEF IInv, ModeInv
<1>5. FrameInv'
  BY <1>2, <1>4 DEF IInv, FrameInv
<1> QED
  BY <1>2, <1>3, <1>5

\* A stub's step from one position to the next: it owns the save area with
\* interrupts disabled, and no stub is active below it.
LEMMA StubStep ==
  ASSUME IInv, stack # <<>>, NEW a \in ActiveAts, Top.at # "gate",
         stack' = [stack EXCEPT ![Depth].at = a],
         ~ifl', save' = Len(stack),
         mode' = "prot" => a \in {"saved", "done"},
         UNCHANGED <<pc, launched>>
  PROVE  StubInv' /\ ModeInv' /\ FrameInv' /\ pc = "guest" /\ stack' \in Seq(Frames)
<1>1. /\ stack' \in Seq(Frames) /\ Len(stack') = Len(stack) /\ stack' # <<>>
      /\ stack'[Len(stack)].at = a
      /\ \A k \in 1..Len(stack) - 1 : stack'[k] = stack[k]
      /\ pc = "guest" /\ FrameInv'
  BY MoveTop DEF ActiveAts
<1>2. Len(stack) \in Nat \ {0}
  BY TopFrame
<1>3. \A k \in 1..Len(stack) : k = Len(stack) \/ k \in 1..Len(stack) - 1
  BY <1>2
<1>4. StubInv'
  BY <1>1, <1>2, <1>3 DEF IInv, StubInv, ActiveAts
<1>5. ModeInv'
  BY <1>1, <1>2, <1>3 DEF IInv, ModeInv, ActiveAts
<1> QED
  BY <1>1, <1>4, <1>5

\* The entry of a stub disables interrupts before it takes the save area.
LEMMA StubEnterInv == ASSUME IInv, StubEnter PROVE IInv'
<1>1. /\ stack # <<>> /\ Top.at = "entry" /\ ~ifl' /\ ifl' \in BOOLEAN
      /\ stack' = [stack EXCEPT ![Depth].at = "stored"] /\ save' = Len(stack)
      /\ UNCHANGED <<irr, isr, masked, base, mode, idtr, cpu, gates, irqH, biosH, pc,
                     callee, drive, launched, orphan, lost>>
  BY DEF StubEnter, StubEntryIf, pic, tabs, prog, hist, Depth
<1>2. Len(stack) \in Nat \ {0} /\ Top = stack[Len(stack)]
  BY <1>1, TopFrame
<1>3. mode = "real"
  BY <1>1, <1>2 DEF IInv, ModeInv, TypeOK
<1>4. StubInv' /\ ModeInv' /\ FrameInv' /\ pc = "guest" /\ stack' \in Seq(Frames)
  BY <1>1, <1>3, StubStep DEF ActiveAts
<1>5. TypeOK'
  BY <1>1, <1>2, <1>4 DEF IInv, TypeOK
<1>6. PhaseInv' /\ CallInv' /\ RunsUntilLaunch' /\ HandlersReached'
  BY <1>1, <1>4 DEF IInv, PhaseInv, CallInv, RunsUntilLaunch, HandlersReached,
                    Quiet, InCall, Initialised
<1> QED
  BY <1>4, <1>5, <1>6 DEF IInv

\* Entering protected mode moves the stub on, and changes nobody else's frame.
LEMMA StubProtectInv == ASSUME IInv, StubProtect PROVE IInv'
<1>1. /\ stack # <<>> /\ Top.at = "stored" /\ mode' = "prot"
      /\ stack' = [stack EXCEPT ![Depth].at = "saved"]
      /\ UNCHANGED <<irr, isr, masked, base, ifl, save, idtr, cpu, gates, irqH, biosH, pc,
                     callee, drive, launched, orphan, lost>>
  BY DEF StubProtect, pic, tabs, prog, hist, Depth
<1>2. /\ Len(stack) \in 1..Len(stack) /\ Top = stack[Len(stack)]
  BY <1>1, TopFrame
<1>3. ~ifl /\ save = Len(stack)
  BY <1>1, <1>2 DEF IInv, StubInv, ActiveAts
<1>4. StubInv' /\ ModeInv' /\ FrameInv' /\ pc = "guest" /\ stack' \in Seq(Frames)
  BY <1>1, <1>3, StubStep DEF ActiveAts
<1>5. TypeOK'
  BY <1>1, <1>4 DEF IInv, TypeOK
<1>6. PhaseInv' /\ CallInv' /\ RunsUntilLaunch' /\ HandlersReached'
  BY <1>1, <1>4 DEF IInv, PhaseInv, CallInv, RunsUntilLaunch, HandlersReached,
                    Quiet, InCall, Initialised
<1> QED
  BY <1>4, <1>5, <1>6 DEF IInv

\* itr_real_mode_interrupt: before the launch it serves software interrupts
\* only, none of which it takes for an exception.
LEMMA StubDispatchInv == ASSUME IInv, StubDispatch PROVE IInv'
<1>1. /\ stack # <<>> /\ Top.at = "saved" /\ idtr' = "idt"
      /\ UNCHANGED <<irr, masked, base, mode, ifl, save, gates, irqH, biosH, pc,
                     callee, drive, launched>>
  BY DEF StubDispatch, tabs, prog
<1>2. /\ Len(stack) \in 1..Len(stack) /\ Len(stack) \in Nat \ {0}
      /\ Top = stack[Len(stack)] /\ Top.irq \in 0..NoIrq /\ Top.vec \in 0..127
  BY <1>1, TopFrame
<1>3. ~ifl /\ save = Len(stack) /\ pc = "guest"
  BY <1>1, <1>2 DEF IInv, StubInv, ModeInv, ActiveAts
<1>4. ~launched => Top.irq = NoIrq /\ Top.vec \in 16..127
  <2>1. ~launched => Top.irq = NoIrq /\ Top.vec >= 16
    BY <1>1, <1>2 DEF IInv, FrameInv
  <2> QED
    BY <1>2, <2>1, VectorFacts, Zenon
<1>5. PhaseInv' /\ CallInv'
  BY <1>1, <1>3 DEF IInv, PhaseInv, CallInv, Quiet, InCall, Initialised
<1>6. \E h \in 0..NoIrq : isr' \subseteq isr /\ Account(Top.irq, h)
  <2>1. CASE RealHandler(Top.vec) # {}
    <3>1. PICK i \in RealHandler(Top.vec) : isr' = HandleIrq(i, isr) /\ Account(Top.irq, i)
      BY <2>1 DEF StubDispatch
    <3>2. i \in 0..NoIrq
      BY DEF RealHandler, IInv, TypeOK, NoIrq
    <3> QED
      BY <3>1, <3>2, EoiShrinks, Zenon
  <2>2. CASE RealHandler(Top.vec) = {}
    <3>1. NoIrq \in 0..NoIrq /\ isr' = isr /\ Account(Top.irq, NoIrq)
      BY <2>2 DEF StubDispatch, NoIrq
    <3> QED
      BY <3>1, Zenon
  <2> QED
    BY <2>1, <2>2
<1>7. /\ orphan' \subseteq 0..15 /\ lost' \subseteq 0..15 /\ isr' \subseteq isr
      /\ ~launched => lost' = lost
  <2>1. TypeOK /\ Top.irq \in 0..NoIrq /\ (~launched => Top.irq \notin irqH)
    BY <1>2, <1>4 DEF IInv, TypeOK, NoIrq
  <2> QED
    BY <1>6, <2>1, AccountTypes, Zenon
<1>8. CASE cpu' = "hung" /\ UNCHANGED stack /\ Top.vec \notin 16..127
  <2>1. launched = TRUE
    <3>1. launched \in BOOLEAN
      BY DEF IInv, TypeOK
    <3> QED
      BY <1>4, <1>8, <3>1, Zenon
  <2>2. TypeOK'
    <3>1. stack' \in Seq(Frames) /\ cpu' = "hung"
      BY <1>8 DEF IInv, TypeOK
    <3> QED
      BY <1>1, <1>7, <3>1 DEF IInv, TypeOK
  <2>3. StubInv' /\ ModeInv' /\ FrameInv'
    BY <1>1, <1>8 DEF IInv, StubInv, ModeInv, FrameInv
  <2> QED
    BY <1>1, <1>5, <2>1, <2>2, <2>3 DEF IInv, RunsUntilLaunch, HandlersReached
<1>9. CASE stack' = [stack EXCEPT ![Depth].at = "done"] /\ UNCHANGED cpu
  <2>1. StubInv' /\ ModeInv' /\ FrameInv' /\ pc = "guest" /\ stack' \in Seq(Frames)
    BY <1>1, <1>3, <1>9, StubStep DEF ActiveAts
  <2>2. TypeOK'
    BY <1>1, <1>7, <1>9, <2>1 DEF IInv, TypeOK
  <2> QED
    BY <1>1, <1>5, <1>7, <1>9, <2>1, <2>2 DEF IInv, RunsUntilLaunch, HandlersReached
<1>10. Top.vec < 16 => Top.vec \notin 16..127
  BY <1>2, VectorFacts, Zenon
<1> QED
  BY <1>8, <1>9, <1>10, Zenon DEF StubDispatch

\* The return pops the stub's own frame: the save area still names it.
LEMMA StubReturnInv == ASSUME IInv, StubReturn PROVE IInv'
<1>1. /\ stack # <<>> /\ Top.at = "done" /\ idtr' = "ivt" /\ mode' = "real"
      /\ ifl' = stack[save].ifl /\ stack' = SubSeq(stack, 1, save - 1)
      /\ UNCHANGED <<irr, isr, masked, base, cpu, save, gates, irqH, biosH, pc,
                     callee, drive, launched, orphan, lost>>
  BY DEF StubReturn, Pop, pic, tabs, prog, hist
<1>2. /\ Len(stack) \in 1..Len(stack) /\ Len(stack) \in Nat \ {0}
      /\ Top = stack[Len(stack)] /\ Top.ifl \in BOOLEAN
  BY <1>1, TopFrame
<1>3. save = Len(stack) /\ pc = "guest"
  BY <1>1, <1>2 DEF IInv, StubInv, ModeInv, ActiveAts
<1>4. /\ stack' \in Seq(Frames) /\ Len(stack') = Len(stack) - 1
      /\ \A k \in 1..Len(stack') : k \in 1..Len(stack) /\ stack'[k] = stack[k]
  BY <1>1, <1>2, <1>3, PopFrame DEF IInv, TypeOK
<1>5. ifl' \in BOOLEAN
  BY <1>1, <1>2, <1>3
<1>6. TypeOK'
  BY <1>1, <1>4, <1>5 DEF IInv, TypeOK
<1>7. \A k \in 1..Len(stack') : k # Len(stack)
  BY <1>2, <1>4
<1>8. StubInv' /\ ModeInv' /\ FrameInv'
  BY <1>1, <1>3, <1>4, <1>7 DEF IInv, StubInv, ModeInv, FrameInv, ActiveAts
<1> QED
  BY <1>1, <1>3, <1>6, <1>8
     DEF IInv, PhaseInv, CallInv, RunsUntilLaunch, HandlersReached, Quiet, InCall, Initialised

\* A guest runs with an empty stack; it calls software interrupts only, and its
\* return leads into the window after the far call.
LEMMA GuestInv == ASSUME IInv, Guest PROVE IInv'
<1>1. /\ stack = <<>> /\ Len(stack) = 0 /\ pc = "guest" /\ cpu = "run"
  BY DEF Guest, GuestCall, GuestSetIf, GuestReturn, InGuest, MainRuns, Running
<1>2. mode = "real"
  BY <1>1 DEF IInv, ModeInv, TypeOK
<1>3. ASSUME NEW v \in GuestVecs, NEW keep \in BOOLEAN, GuestCall(v, keep)
      PROVE  IInv'
  <2> DEFINE f == Frame(v, NoIrq, "entry")
  <2>1. /\ stack' = Append(stack, f) /\ ifl' = (keep /\ ifl)
        /\ UNCHANGED <<irr, isr, masked, base, mode, idtr, cpu, save, gates, irqH, biosH,
                       pc, callee, drive, launched, orphan, lost>>
    BY <1>3 DEF GuestCall, pic, tabs, prog, hist
  <2>2. f \in Frames /\ f.at = "entry" /\ f.irq = NoIrq /\ f.vec = v /\ v \in 16..31
    BY GuestVecAssumption DEF Frame, Frames, NoIrq, IInv, TypeOK
  <2> HIDE DEF f
  <2>3. stack' \in Seq(Frames) /\ Len(stack') = 1 /\ stack'[1] = f
    BY <1>1, <2>1, <2>2, PushFrame DEF IInv, TypeOK
  <2>4. ifl' \in BOOLEAN
    BY <2>1
  <2>5. TypeOK'
    BY <2>1, <2>3, <2>4 DEF IInv, TypeOK
  <2>6. StubInv' /\ ModeInv' /\ FrameInv'
    BY <1>1, <1>2, <2>1, <2>2, <2>3 DEF IInv, StubInv, ModeInv, FrameInv, ActiveAts
  <2> QED
    BY <1>1, <2>1, <2>5, <2>6
       DEF IInv, PhaseInv, CallInv, RunsUntilLaunch, HandlersReached, Quiet, InCall, Initialised
<1>4. ASSUME NEW on \in BOOLEAN, GuestSetIf(on)
      PROVE  IInv'
  <2>1. /\ ifl' = on
        /\ UNCHANGED <<irr, isr, masked, base, mode, idtr, cpu, stack, save, gates, irqH,
                       biosH, pc, callee, drive, launched, orphan, lost>>
    BY <1>4 DEF GuestSetIf, pic, tabs, prog, hist
  <2> QED
    BY <1>1, <2>1 DEF IInv, TypeOK, StubInv, ModeInv, FrameInv, PhaseInv, CallInv,
       RunsUntilLaunch, HandlersReached, Quiet, InCall, Initialised
<1>5. CASE GuestReturn
  <2>1. /\ ifl' = TRUE /\ mode' = "prot" /\ pc' = "window"
        /\ UNCHANGED <<irr, isr, masked, base, idtr, cpu, stack, save, gates, irqH, biosH,
                       callee, drive, launched, orphan, lost>>
    BY <1>5 DEF GuestReturn, pic, tabs, hist
  <2>2. TypeOK'
    BY <2>1 DEF IInv, TypeOK
  <2>3. StubInv' /\ ModeInv' /\ FrameInv'
    BY <1>1, <2>1 DEF IInv, StubInv, ModeInv, FrameInv
  <2> QED
    BY <1>1, <2>1, <2>2, <2>3
       DEF IInv, PhaseInv, CallInv, RunsUntilLaunch, HandlersReached, Quiet, InCall, Initialised
<1> QED
  BY <1>3, <1>4, <1>5 DEF Guest

\* Every step keeps the invariant.
THEOREM StepInv == IInv /\ [Next]_vars => IInv'
<1> SUFFICES ASSUME IInv, [Next]_vars PROVE IInv'
  OBVIOUS
<1>1. ASSUME NEW i \in Irqs, RaiseIrq(i) PROVE IInv'
  BY <1>1 DEF RaiseIrq, core, tabs, prog, hist, IInv, TypeOK, StubInv, ModeInv, PhaseInv,
     CallInv, FrameInv, RunsUntilLaunch, HandlersReached, Quiet, InCall, Initialised
<1>2. CASE TakeIrq
  BY <1>2, DeliverInv DEF TakeIrq
<1>3. CASE RunHandler
  BY <1>3, RunGateInv, AsmHandlerInv, StubEnterInv, StubProtectInv, StubDispatchInv,
     StubReturnInv DEF RunHandler
<1>4. CASE Guest
  BY <1>4, GuestInv
<1>5. CASE Main
  BY <1>5, MainInv
<1>6. CASE UNCHANGED vars
  BY <1>6 DEF vars, pic, core, tabs, prog, hist, IInv, TypeOK, StubInv, ModeInv, PhaseInv,
     CallInv, FrameInv, RunsUntilLaunch, HandlersReached, Quiet, InCall, Initialised
<1> QED
  BY <1>1, <1>2, <1>3, <1>4, <1>5, <1>6 DEF Next

-----------------------------------------------------------------------------
(***************************************************************************)
(* What the invariant gives.                                               *)
(***************************************************************************)

\* The inductive invariant holds in every reachable state.
THEOREM Invariant == Spec => []IInv
<1>1. Init => IInv
  BY InitInv
<1>2. IInv /\ [Next]_vars => IInv'
  BY StepInv
<1> QED
  BY <1>1, <1>2, PTL DEF Spec

\* Every variable keeps its type, and main tries no drive past the last.
THEOREM TypeCorrect == Spec => []TypeOK
<1>1. IInv => TypeOK
  BY DEF IInv
<1> QED
  BY <1>1, Invariant, PTL

\* The one save area at 0x9c000 always belongs to the stub that will return
\* through it, whatever interrupts the guest chains and the devices raise.
THEOREM SaveAreaSafe == Spec => []SaveAreaIntact
<1>1. IInv => SaveAreaIntact
  BY DEF IInv, StubInv, SaveAreaIntact, ActiveAts, Depth
<1> QED
  BY <1>1, Invariant, PTL

\* Nothing hangs or crashes the machine before a boot sector is started.
THEOREM BootRuns == Spec => []RunsUntilLaunch
<1>1. IInv => RunsUntilLaunch
  BY DEF IInv
<1> QED
  BY <1>1, Invariant, PTL

\* Before a boot sector is started every line with a handler reaches it.
THEOREM HandlersAreReached == Spec => []HandlersReached
<1>1. IInv => HandlersReached
  BY DEF IInv
<1> QED
  BY <1>1, Invariant, PTL

\* An interrupt goes through the wrong mode's table only in the window between
\* sti and lidt after a boot sector returned.
THEOREM CrashWindow == Spec => CrashOnlyInWindow
<1>1. IInv /\ [Next]_vars =>
        [cpu' = "crashed" => pc = "window" /\ callee = "boot"]_cpu
  <2> SUFFICES ASSUME IInv, Next, cpu' = "crashed", cpu # "crashed"
               PROVE  pc = "window" /\ callee = "boot"
    BY DEF vars, core
  <2>1. PICK i \in Irqs : Deliver(i)
    BY DEF Next, TakeIrq, RaiseIrq, RunHandler, RunGate, RunAsmHandler, StubEnter,
       StubProtect, StubDispatch, StubReturn, Guest, GuestCall, GuestSetIf, GuestReturn,
       Main, ItrDisable, CallOprom, SkipOprom, ReloadIdt, ItrInit, TimerInit,
       SerialSetBuffered, HdInit, BiosInit, ItrEnable, KeyboardInit, BootSkip, BootFromHd,
       FailedToBoot, EnterRealMode, SetIf, core, Running
  <2>2. ifl /\ ~masked /\ mode = "prot" /\ (idtr = "ivt" \/ ~gates)
    BY <2>1 DEF Deliver, Deliverable, Ready
  <2>3. pc # "start" /\ ~Quiet /\ ~Initialised
    BY <2>2 DEF IInv, PhaseInv, TypeOK
  <2>4. pc # "guest"
    BY <2>2, TopFrame DEF IInv, ModeInv, StubInv, ActiveAts
  <2> QED
    BY <2>3, <2>4 DEF IInv, TypeOK, Quiet, InCall, Initialised
<1> QED
  BY <1>1, Invariant, PTL DEF Spec, CrashOnlyInWindow

-----------------------------------------------------------------------------
(***************************************************************************)
(* What is in service.  While a device's interrupt waits for its handler,  *)
(* the controllers hold its bits on top of what was in service before;     *)
(* otherwise only lines that nobody serves are left there.                 *)
(***************************************************************************)

\* Lines whose latest delivery was served by nobody, and their cascade bit.
Settled(S, O) == S \subseteq O \cup {2} /\ (2 \in S => \E s \in S : s >= 8)

\* Line i was presented over the lines S in service.
Over(i, S) == \A s \in S : /\ s < 8 => Line(i) < s
                           /\ (s >= 8 /\ i >= 8) => i < s

Unserved == stack # <<>> /\ Top.irq # NoIrq /\ Top.at # "done"
WaitsOver(i, S) ==
  /\ i \in Irqs /\ isr = S \cup {i, Line(i)} /\ Over(i, S) /\ Settled(S, orphan)

\* A frame whose vector has a handler is that handler's own.
OwnVector(f) ==
  IF f.at = "gate"
  THEN f.vec - 32 \in 0..15 => f.irq = f.vec - 32
  ELSE /\ f.vec \in AsmVecs => f.irq = f.vec - 8
       /\ \A j \in 0..15 : RealVec(j) = f.vec => f.irq = j

\* Once a device's interrupt has entered an exception gate, main never runs
\* again, and whatever nests above it does not matter.
Doomed == \E k \in 1..Len(stack) : stack[k].at = "gate" /\ stack[k].vec \in ExceptionGates

BaseInv == (InCall /\ callee = "boot") => base = "real"
VectorInv == \A k \in 1..Len(stack) : OwnVector(stack[k])
ServiceInv ==
  Running /\ ~Doomed =>
    /\ \A k \in 1..Len(stack) - 1 : stack[k].irq = NoIrq
    /\ Unserved => ~ifl /\ \E S \in SUBSET (0..15) : WaitsOver(Top.irq, S)
    /\ ~Unserved => Settled(isr, orphan)

ServeInv == BaseInv /\ VectorInv /\ ServiceInv

\* An end-of-interrupt command ends the line of highest priority in service.
LEMMA EoiMasterEnds ==
  ASSUME NEW S \in SUBSET (0..15), NEW n \in 0..7, \A s \in S : s < 8 => n < s
  PROVE  EoiMaster(S \cup {n}) = S
<1>1. n \notin S /\ n < 8
  OBVIOUS
<1>2. \A s \in S \cup {n} : (s < 8 /\ \A t \in S \cup {n} : t < 8 => s =< t) <=> s = n
  <2> SUFFICES ASSUME NEW s \in S \cup {n}
               PROVE  (s < 8 /\ \A t \in S \cup {n} : t < 8 => s =< t) <=> s = n
    OBVIOUS
  <2>1. CASE s = n
    BY <2>1, <1>1
  <2>2. CASE s # n
    BY <2>2, <1>1
  <2> QED
    BY <2>1, <2>2
<1> QED
  BY <1>1, <1>2 DEF EoiMaster

LEMMA EoiSlaveEnds ==
  ASSUME NEW S \in SUBSET (0..15), NEW n \in 8..15, \A s \in S : s >= 8 => n < s
  PROVE  EoiSlave(S \cup {n}) = S
<1>1. n \notin S /\ n >= 8
  OBVIOUS
<1>2. \A s \in S \cup {n} : (s >= 8 /\ \A t \in S \cup {n} : t >= 8 => s =< t) <=> s = n
  <2> SUFFICES ASSUME NEW s \in S \cup {n}
               PROVE  (s >= 8 /\ \A t \in S \cup {n} : t >= 8 => s =< t) <=> s = n
    OBVIOUS
  <2>1. CASE s = n
    BY <2>1, <1>1
  <2>2. CASE s # n
    BY <2>2, <1>1
  <2> QED
    BY <2>1, <2>2
<1> QED
  BY <1>1, <1>2 DEF EoiSlave

\* Fewer lines in service, none of them the cascade, are settled still.
LEMMA SettledSubset ==
  ASSUME NEW S, NEW T, NEW O, Settled(S, O), T \subseteq S, 2 \notin S
  PROVE  Settled(T, O)
BY DEF Settled

LEMMA SettledWithout ==
  ASSUME NEW S, NEW O, NEW i, Settled(S, O), i \notin S PROVE Settled(S, O \ {i})
BY DEF Settled

\* A handler that runs ends its own interrupt, and whatever the serial
\* handler's second command ends besides was orphaned.
LEMMA HandlerEnds ==
  ASSUME NEW S \in SUBSET (0..15), NEW O, NEW i \in 0..15, i # 2, Over(i, S), Settled(S, O)
  PROVE  /\ Settled(HandleIrq(i, S \cup {i, Line(i)}), O \ {i})
         /\ i < 8 => Settled(EoiMaster(S \cup {i, Line(i)}), O \ {i})
         /\ Settled(S \cup {i, Line(i)}, O \cup {i})
<1>1. i \notin S
  BY DEF Over, Line
<1>2. Settled(S, O \ {i})
  BY <1>1, SettledWithout
<1>3. CASE i < 8
  <2>1. S \cup {i, Line(i)} = S \cup {i} /\ \A s \in S : s < 8 => i < s
    BY <1>3 DEF Line, Over
  <2>2. EoiMaster(S \cup {i, Line(i)}) = S
    <3>1. i \in 0..7
      BY <1>3
    <3>2. EoiMaster(S \cup {i}) = S
      BY <2>1, <3>1, EoiMasterEnds
    <3> QED
      BY <2>1, <3>2
  <2>3. Settled(HandleIrq(i, S \cup {i, Line(i)}), O \ {i})
    <3>1. CASE i = 4
      <4>1. HandleIrq(i, S \cup {i, Line(i)}) = EoiMaster(S)
        BY <1>3, <2>2, <3>1 DEF HandleIrq
      <4>2. 2 \notin S /\ EoiMaster(S) \subseteq S
        BY <2>1, <3>1 DEF EoiMaster
      <4> QED
        BY <1>2, <4>1, <4>2, SettledSubset
    <3>2. CASE i # 4
      <4>1. HandleIrq(i, S \cup {i, Line(i)}) = S
        BY <1>3, <2>2, <3>2 DEF HandleIrq
      <4> QED
        BY <1>2, <4>1
    <3> QED
      BY <3>1, <3>2
  <2>4. Settled(S \cup {i}, O \cup {i})
    BY DEF Settled
  <2> QED
    BY <1>2, <2>1, <2>2, <2>3, <2>4
<1>4. CASE ~(i < 8)
  <2>1. i \in 8..15 /\ Line(i) = 2
    BY <1>4 DEF Line
  <2>2. (\A s \in S : s >= 8 => i < s) /\ (\A s \in S : s < 8 => 2 < s)
    BY <2>1 DEF Over
  <2>3. S \cup {2} \in SUBSET (0..15) /\ \A s \in S \cup {2} : s >= 8 => i < s
    BY <2>2
  <2>4. S \cup {i, Line(i)} = (S \cup {2}) \cup {i}
    BY <2>1
  <2>5. EoiSlave(S \cup {i, Line(i)}) = S \cup {2}
    BY <2>1, <2>3, <2>4, EoiSlaveEnds
  <2>6. EoiMaster(S \cup {2}) = S
    <3>1. 2 \in 0..7
      OBVIOUS
    <3> QED
      BY <2>2, <3>1, EoiMasterEnds
  <2>7. HandleIrq(i, S \cup {i, Line(i)}) = S
    BY <2>1, <2>5, <2>6 DEF HandleIrq
  <2>8. Settled(S \cup {i, 2}, O \cup {i})
    BY <2>1 DEF Settled
  <2> QED
    BY <1>2, <1>4, <2>1, <2>7, <2>8
<1> QED
  BY <1>3, <1>4

-----------------------------------------------------------------------------
(***************************************************************************)
(* Every step keeps it.                                                    *)
(***************************************************************************)
LEMMA InitServeInv == Init => ServeInv
<1> SUFFICES ASSUME Init PROVE ServeInv
  OBVIOUS
<1>1. stack = <<>> /\ Len(stack) = 0
  BY DEF Init
<1> QED
  BY <1>1 DEF Init, ServeInv, BaseInv, VectorInv, ServiceInv, Unserved, Settled, InCall

\* No handler runs after the step.
LEMMA EmptyServe ==
  ASSUME stack' = <<>>, Settled(isr', orphan') PROVE VectorInv' /\ ServiceInv'
<1>1. Len(stack') = 0
  OBVIOUS
<1> QED
  BY <1>1 DEF VectorInv, ServiceInv, Unserved

\* Before the step none did.
LEMMA EmptySettled ==
  ASSUME ServeInv, stack = <<>>, Running PROVE Settled(isr, orphan)
<1>1. Len(stack) = 0
  OBVIOUS
<1> QED
  BY <1>1 DEF ServeInv, ServiceInv, Doomed, Unserved

\* A handler returns: what it leaves is settled, and below it is software only.
LEMMA PopServe ==
  ASSUME IInv, ServeInv, Running, stack # <<>>, cpu' = cpu,
         stack' = SubSeq(stack, 1, Len(stack) - 1),
         ~(Top.at = "gate" /\ Top.vec \in ExceptionGates),
         ~Doomed => Settled(isr', orphan')
  PROVE  VectorInv' /\ ServiceInv'
<1>1. /\ Len(stack) \in Nat \ {0} /\ Top = stack[Len(stack)]
      /\ Len(stack') = Len(stack) - 1
      /\ \A k \in 1..Len(stack') : k \in 1..Len(stack) /\ k # Len(stack) /\ stack'[k] = stack[k]
  BY TopFrame, PopFrame DEF IInv, TypeOK
<1>2. VectorInv'
  BY <1>1 DEF ServeInv, VectorInv
<1>3. Doomed => Doomed'
  <2> SUFFICES ASSUME Doomed PROVE Doomed'
    OBVIOUS
  <2>1. PICK k \in 1..Len(stack) : stack[k].at = "gate" /\ stack[k].vec \in ExceptionGates
    BY DEF Doomed
  <2>2. k \in 1..Len(stack')
    BY <1>1, <2>1
  <2> QED
    BY <1>1, <2>1, <2>2 DEF Doomed
<1>4. ASSUME Running', ~Doomed' 
      PROVE  /\ \A k \in 1..Len(stack') : stack'[k].irq = NoIrq
             /\ Settled(isr', orphan')
  <2>1. \A k \in 1..Len(stack) - 1 : stack[k].irq = NoIrq
    BY <1>3, <1>4 DEF ServeInv, ServiceInv
  <2> QED
    BY <1>1, <1>3, <1>4, <2>1
<1>5. ASSUME Unserved' PROVE Len(stack') \in 1..Len(stack') /\ stack'[Len(stack')].irq # NoIrq
  <2>1. stack' # <<>> /\ stack' \in Seq(Frames)
    BY <1>5, PopFrame DEF Unserved, IInv, TypeOK
  <2>2. Len(stack') # 0
    BY <2>1, EmptySeq
  <2> QED
    BY <1>1, <1>5, <2>2 DEF Unserved, Top, Depth
<1>6. Len(stack') - 1 \in Int /\ \A k \in 1..Len(stack') - 1 : k \in 1..Len(stack')
  BY <1>1
<1> QED
  BY <1>2, <1>4, <1>5, <1>6 DEF ServiceInv

\* A stub moves on: the frame keeps its vector and its line.
LEMMA MovedFrame ==
  ASSUME IInv, stack # <<>>, NEW a \in ActiveAts, Top.at # "gate",
         stack' = [stack EXCEPT ![Depth].at = a]
  PROVE  /\ Len(stack) \in Nat \ {0} /\ Len(stack') = Len(stack) /\ stack' # <<>>
         /\ Top'.at = a /\ Top'.irq = Top.irq /\ Top'.vec = Top.vec
         /\ \A k \in 1..Len(stack) - 1 : stack'[k] = stack[k]
         /\ VectorInv => VectorInv'
         /\ Doomed <=> Doomed'
<1> DEFINE n == Len(stack)
<1>1. n \in Nat \ {0} /\ n \in 1..n /\ Top = stack[n] /\ stack \in Seq(Frames) /\ Top \in Frames
  BY TopFrame DEF IInv, TypeOK
<1>2. Len(stack') = n /\ stack' = [stack EXCEPT ![n].at = a]
  BY <1>1 DEF Depth
<1>3. /\ stack'[n].at = a /\ stack'[n].irq = Top.irq /\ stack'[n].vec = Top.vec
      /\ \A k \in 1..n - 1 : stack'[k] = stack[k]
  <2>1. stack'[n] = [Top EXCEPT !.at = a]
    BY <1>1, <1>2
  <2>2. /\ [Top EXCEPT !.at = a].at = a /\ [Top EXCEPT !.at = a].irq = Top.irq
        /\ [Top EXCEPT !.at = a].vec = Top.vec
    BY <1>1 DEF Frames
  <2>3. \A k \in 1..n - 1 : stack'[k] = stack[k]
    BY <1>1, <1>2
  <2> QED
    BY <2>1, <2>2, <2>3
<1>4. Top' = stack'[n]
  BY <1>2 DEF Top, Depth
<1>5. stack' # <<>>
  BY <1>1, <1>2
<1>6. \A k \in 1..n : k = n \/ k \in 1..n - 1
  BY <1>1
<1>7. a # "gate"
  BY DEF ActiveAts
<1>8. ASSUME VectorInv PROVE VectorInv'
  <2>1. OwnVector(Top)
    BY <1>1, <1>8 DEF VectorInv
  <2>2. OwnVector(stack'[n])
    BY <1>3, <1>7, <2>1 DEF OwnVector
  <2>3. \A k \in 1..n - 1 : OwnVector(stack'[k])
    BY <1>3, <1>6, <1>8, <1>1 DEF VectorInv
  <2> QED
    BY <1>2, <1>6, <2>2, <2>3 DEF VectorInv
<1>9. Doomed <=> Doomed'
  BY <1>1, <1>2, <1>3, <1>6, <1>7 DEF Doomed
<1> QED
  BY <1>1, <1>2, <1>3, <1>4, <1>5, <1>8, <1>9

LEMMA MainServe == ASSUME IInv, ServeInv, Main PROVE ServeInv'
<1>1. stack = <<>> /\ stack' = <<>> /\ Running
  BY DEF Main, ItrDisable, CallOprom, SkipOprom, ReloadIdt, ItrInit, TimerInit,
     SerialSetBuffered, HdInit, BiosInit, ItrEnable, KeyboardInit, BootSkip,
     BootFromHd, FailedToBoot, Goto, EnterRealMode, SetIf, core, MainRuns
<1>2. (isr' = isr /\ orphan' = orphan) \/ isr' = {}
  BY DEF Main, ItrDisable, CallOprom, SkipOprom, ReloadIdt, ItrInit, TimerInit,
     SerialSetBuffered, HdInit, BiosInit, ItrEnable, KeyboardInit, BootSkip,
     BootFromHd, FailedToBoot, Remap, pic, hist
<1>3. Settled(isr', orphan')
  <2>1. Settled(isr, orphan)
    BY <1>1, EmptySettled
  <2> QED
    BY <1>2, <2>1 DEF Settled
<1>4. BaseInv'
  BY DEF Main, ItrDisable, CallOprom, SkipOprom, ReloadIdt, ItrInit, TimerInit,
     SerialSetBuffered, HdInit, BiosInit, ItrEnable, KeyboardInit, BootSkip,
     BootFromHd, FailedToBoot, Goto, EnterRealMode, Remap, pic, ServeInv, BaseInv, InCall
<1> QED
  BY <1>1, <1>3, <1>4, EmptyServe DEF ServeInv

\* The line presented waits over the lines in service before; no other device's
\* interrupt does, or IF would be clear.
LEMMA DeliverServe == ASSUME IInv, ServeInv, NEW i \in Irqs, Deliver(i) PROVE ServeInv'
<1> DEFINE f == Frame(PicVec(i), i, IF mode = "prot" THEN "gate" ELSE "entry")
<1>1. /\ Running /\ ifl = TRUE /\ ~masked /\ isr' = isr \cup {i, Line(i)}
      /\ UNCHANGED <<masked, base, mode, pc, callee, orphan>>
      /\ \A k \in 1..Len(stack) : stack[k].at \notin ActiveAts
  BY DEF Deliver, Deliverable, Ready, IInv, TypeOK, StubInv, prog, hist
<1>2. BaseInv'
  BY <1>1 DEF ServeInv, BaseInv, InCall
<1>3. CASE cpu' = "crashed"
  <2>1. stack' = stack
    BY <1>3, <1>1 DEF Deliver, Running
  <2> QED
    BY <1>2, <1>3, <2>1 DEF ServeInv, VectorInv, ServiceInv, Running
<1>4. CASE cpu' # "crashed"
  <2>1. /\ stack' = Append(stack, f) /\ cpu' = cpu
        /\ ifl' = (mode = "prot" /\ PicVec(i) \in ExceptionGates \ {2, 8})
    BY <1>4 DEF Deliver, IfAfter
  <2>2. /\ f \in Frames /\ f.vec = PicVec(i) /\ f.irq = i /\ i # NoIrq /\ i \in 0..15 /\ i # 2
        /\ f.at = IF mode = "prot" THEN "gate" ELSE "entry"
    <3>1. i \in 0..15 /\ i # 2 /\ i # NoIrq /\ i \in 0..NoIrq
      BY IrqAssumption DEF NoIrq
    <3>2. PicVec(i) \in 0..127 /\ ifl \in BOOLEAN
      BY <1>1, VectorRange
    <3>3. /\ f.vec = PicVec(i) /\ f.irq = i
          /\ f.at = IF mode = "prot" THEN "gate" ELSE "entry"
      BY DEF Frame
    <3>4. f \in Frames
      BY <3>1, <3>2 DEF Frame, Frames
    <3> QED
      BY <3>1, <3>3, <3>4
  <2> HIDE DEF f
  <2>3. /\ stack' \in Seq(Frames) /\ Len(stack') = Len(stack) + 1 /\ stack' # <<>>
        /\ stack'[Len(stack')] = f /\ Top' = f /\ Len(stack) \in Nat
        /\ \A k \in 1..Len(stack) : stack'[k] = stack[k]
    BY <2>1, <2>2, PushFrame DEF IInv, TypeOK, Top, Depth
  <2>4. OwnVector(f)
    <3>1. CASE mode = "prot"
      BY <2>2, <3>1 DEF OwnVector, PicVec
    <3>2. CASE mode # "prot"
      <4>1. pc = "guest" /\ callee = "boot"
        BY <1>1, <3>2 DEF IInv, ModeInv, PhaseInv, TypeOK, Quiet, InCall
      <4>2. base = "real"
        BY <4>1 DEF ServeInv, BaseInv, InCall
      <4>3. f.at # "gate" /\ f.vec = IF i < 8 THEN 8 + i ELSE 112 + (i - 8)
        BY <2>2, <3>2, <4>2 DEF PicVec
      <4>4. f.vec \in AsmVecs => i = f.vec - 8
        BY <2>2, <4>3 DEF AsmVecs
      <4>5. \A j \in 0..15 : RealVec(j) = f.vec => i = j
        BY <2>2, <4>3 DEF RealVec
      <4> QED
        BY <2>2, <4>3, <4>4, <4>5 DEF OwnVector
    <3> QED
      BY <3>1, <3>2
  <2>5. VectorInv'
    BY <2>3, <2>4 DEF ServeInv, VectorInv
  <2>6. ServiceInv'
    <3> SUFFICES ASSUME ~Doomed'
                 PROVE  /\ \A k \in 1..Len(stack') - 1 : stack'[k].irq = NoIrq
                        /\ Unserved' => ~ifl' /\ \E S \in SUBSET (0..15) : WaitsOver(Top.irq, S)'
                        /\ Unserved'
      BY DEF ServiceInv
    <3>1. ~Doomed /\ ~(f.at = "gate" /\ f.vec \in ExceptionGates)
      BY <2>3 DEF Doomed
    <3>2. ~Unserved /\ Settled(isr, orphan) /\ \A k \in 1..Len(stack) - 1 : stack[k].irq = NoIrq
      BY <1>1, <3>1 DEF ServeInv, ServiceInv
    <3>3. stack # <<>> => stack[Len(stack)].irq = NoIrq
      BY <1>1, <3>2, TopFrame DEF Unserved, ActiveAts
    <3>4. \A k \in 1..Len(stack') - 1 : stack'[k].irq = NoIrq
      <4>1. \A k \in 1..Len(stack) : stack # <<>> /\ (k = Len(stack) \/ k \in 1..Len(stack) - 1)
        BY <2>3
      <4> QED
        BY <2>3, <3>2, <3>3, <4>1
    <3>5. Unserved'
      BY <2>2, <2>3 DEF Unserved
    <3>6. ~ifl'
      BY <2>1, <2>2, <3>1
    <3>7. Over(i, isr)
      BY DEF Deliver, Deliverable, Ready, Over
    <3>8. PICK S \in SUBSET (0..15) : S = isr
      BY DEF IInv, TypeOK
    <3>9. WaitsOver(Top.irq, S)'
      BY <1>1, <2>2, <2>3, <3>2, <3>7, <3>8 DEF WaitsOver
    <3> QED
      BY <3>4, <3>5, <3>6, <3>8, <3>9
  <2> QED
    BY <1>2, <2>5, <2>6 DEF ServeInv
<1> QED
  BY <1>3, <1>4

\* The interrupt of the innermost frame as its handler finds it.
LEMMA TopWaits ==
  ASSUME IInv, ServeInv, Running, stack # <<>>, ~Doomed, Top.irq # NoIrq, Top.at # "done"
  PROVE  /\ Top.irq \in 0..15 /\ Top.irq # 2 /\ ~ifl
         /\ Settled(HandleIrq(Top.irq, isr), orphan \ {Top.irq})
         /\ Top.irq < 8 => Settled(EoiMaster(isr), orphan \ {Top.irq})
         /\ Settled(isr, orphan \cup {Top.irq})
<1>1. PICK S \in SUBSET (0..15) : WaitsOver(Top.irq, S)
  BY DEF ServeInv, ServiceInv, Unserved
<1>2. /\ Top.irq \in 0..15 /\ Top.irq # 2 /\ isr = S \cup {Top.irq, Line(Top.irq)}
      /\ Over(Top.irq, S) /\ Settled(S, orphan)
  BY <1>1, IrqAssumption DEF WaitsOver
<1>3. ~ifl
  BY DEF ServeInv, ServiceInv, Unserved
<1> QED
  BY <1>2, <1>3, HandlerEnds

\* The frame of a software interrupt, or of a stub that is done, changes nothing.
LEMMA TopSettled ==
  ASSUME IInv, ServeInv, Running, stack # <<>>, ~Doomed, Top.irq = NoIrq \/ Top.at = "done"
  PROVE  Settled(isr, orphan) /\ Settled(isr, orphan \ {NoIrq})
<1>1. Settled(isr, orphan)
  BY DEF ServeInv, ServiceInv, Unserved
<1>2. NoIrq \notin isr
  BY DEF IInv, TypeOK, NoIrq
<1> QED
  BY <1>1, <1>2, SettledWithout

\* What Account leaves as orphans.
LEMMA Orphans ==
  ASSUME NEW i, NEW h, Account(i, h)
  PROVE  /\ h = i => orphan' = orphan \ {i}
         /\ i = NoIrq => orphan' = orphan \ {i}
         /\ (i # NoIrq /\ h # i) => orphan' = orphan \cup {i}
BY DEF Account

LEMMA TopOwns == ASSUME IInv, ServeInv, stack # <<>> PROVE OwnVector(Top)
BY TopFrame DEF ServeInv, VectorInv

LEMMA RunGateServe == ASSUME IInv, ServeInv, RunGate PROVE ServeInv'
<1>1. /\ Running /\ stack # <<>> /\ Top.at = "gate"
      /\ UNCHANGED <<base, pc, callee>>
  BY DEF RunGate, prog
<1>2. Top.irq \in 0..NoIrq /\ Top.vec \in 0..127 /\ Len(stack) \in 1..Len(stack)
      /\ Top = stack[Len(stack)]
  BY <1>1, TopFrame
<1>3. BaseInv'
  BY <1>1 DEF ServeInv, BaseInv, InCall
<1>4. CASE Top.vec \in ExceptionGates
  <2>1. cpu' = "hung" /\ stack' = stack
    BY <1>4 DEF RunGate
  <2> QED
    BY <1>3, <2>1 DEF ServeInv, VectorInv, ServiceInv, Running
<1>5. CASE Top.vec \notin ExceptionGates
  <2>1. cpu' = cpu /\ stack' = SubSeq(stack, 1, Len(stack) - 1)
    BY <1>5 DEF RunGate, Pop, Depth
  <2>2. \/ Top.vec = 39 /\ isr' = EoiMaster(isr) /\ Account(Top.irq, Top.irq)
        \/ /\ Top.vec # 39 /\ Top.vec - 32 \in irqH
           /\ isr' = HandleIrq(Top.vec - 32, isr) /\ Account(Top.irq, Top.vec - 32)
        \/ isr' = isr /\ Account(Top.irq, NoIrq)
    BY <1>5, Zenon DEF RunGate
  <2>3. Top.vec - 32 \in 0..15 => Top.irq = Top.vec - 32
    BY <1>1, TopOwns DEF OwnVector
  <2>4. ASSUME ~Doomed PROVE Settled(isr', orphan')
    <3>1. CASE Top.vec = 39 /\ isr' = EoiMaster(isr) /\ Account(Top.irq, Top.irq)
      <4>1. Top.irq = 7 /\ Top.irq # NoIrq /\ Top.irq < 8
        BY <2>3, <3>1 DEF NoIrq
      <4>2. Settled(EoiMaster(isr), orphan \ {Top.irq})
        BY <1>1, <2>4, <4>1, TopWaits
      <4> QED
        BY <3>1, <4>2, Orphans
    <3>2. CASE /\ Top.vec # 39 /\ Top.vec - 32 \in irqH
               /\ isr' = HandleIrq(Top.vec - 32, isr) /\ Account(Top.irq, Top.vec - 32)
      <4>1. Top.vec - 32 \in 0..15
        BY <3>2 DEF IInv, TypeOK
      <4>2. Top.irq = Top.vec - 32 /\ Top.irq # NoIrq
        <5>1. Top.irq = Top.vec - 32
          BY <2>3, <4>1
        <5>2. \A n \in 0..15 : n # NoIrq
          BY DEF NoIrq
        <5> QED
          BY <4>1, <5>1, <5>2
      <4>3. Settled(HandleIrq(Top.irq, isr), orphan \ {Top.irq})
        BY <1>1, <2>4, <4>2, TopWaits
      <4>4. isr' = HandleIrq(Top.irq, isr) /\ Account(Top.irq, Top.irq)
        BY <3>2, <4>2
      <4> QED
        BY <4>3, <4>4, Orphans
    <3>3. CASE isr' = isr /\ Account(Top.irq, NoIrq)
      <4>1. CASE Top.irq = NoIrq
        BY <1>1, <2>4, <3>3, <4>1, TopSettled, Orphans
      <4>2. CASE Top.irq # NoIrq
        <5>1. Settled(isr, orphan \cup {Top.irq})
          BY <1>1, <2>4, <4>2, TopWaits
        <5> QED
          BY <3>3, <4>2, <5>1, Orphans
      <4> QED
        BY <4>1, <4>2
    <3> QED
      BY <2>2, <3>1, <3>2, <3>3, Zenon
  <2>5. VectorInv' /\ ServiceInv'
    BY <1>1, <1>5, <2>1, <2>4, PopServe
  <2> QED
    BY <1>3, <2>5 DEF ServeInv
<1> QED
  BY <1>4, <1>5

\* The real-mode timer and keyboard handlers end the line they are entered for.
LEMMA AsmHandlerServe == ASSUME IInv, ServeInv, RunAsmHandler PROVE ServeInv'
<1>1. /\ Running /\ stack # <<>> /\ Top.at = "entry" /\ Top.vec \in AsmVecs
      /\ isr' = EoiMaster(isr) /\ cpu' = cpu /\ Account(Top.irq, Top.irq)
      /\ stack' = SubSeq(stack, 1, Len(stack) - 1)
      /\ UNCHANGED <<base, pc, callee>>
  BY DEF RunAsmHandler, prog, Pop, Depth
<1>2. BaseInv'
  BY <1>1 DEF ServeInv, BaseInv, InCall
<1>3. Top.irq \in {0, 1} /\ Top.irq # NoIrq /\ Top.irq < 8
  BY <1>1, TopOwns DEF OwnVector, AsmVecs, NoIrq
<1>4. ASSUME ~Doomed PROVE Settled(isr', orphan')
  <2>1. Settled(EoiMaster(isr), orphan \ {Top.irq})
    BY <1>1, <1>3, <1>4, TopWaits
  <2> QED
    BY <1>1, <2>1, Orphans
<1>5. VectorInv' /\ ServiceInv'
  BY <1>1, <1>4, PopServe
<1> QED
  BY <1>2, <1>5 DEF ServeInv

\* A stub on its way to the dispatch: the line waits on.
LEMMA StubMoves ==
  ASSUME IInv, ServeInv, Running, stack # <<>>, NEW a \in {"stored", "saved"},
         Top.at \in {"entry", "stored"}, stack' = [stack EXCEPT ![Depth].at = a], ~ifl',
         UNCHANGED <<isr, orphan, base, cpu, pc, callee>>
  PROVE  ServeInv'
<1>1. /\ Len(stack) \in Nat \ {0} /\ Len(stack') = Len(stack) /\ stack' # <<>>
      /\ Top'.at = a /\ Top'.irq = Top.irq /\ Top'.vec = Top.vec
      /\ \A k \in 1..Len(stack) - 1 : stack'[k] = stack[k]
      /\ VectorInv => VectorInv'
      /\ Doomed <=> Doomed'
  BY MovedFrame DEF ActiveAts
<1>2. BaseInv'
  BY DEF ServeInv, BaseInv, InCall
<1>3. Unserved' <=> Unserved
  BY <1>1 DEF Unserved
<1>4. ASSUME NEW S \in SUBSET (0..15), WaitsOver(Top.irq, S) PROVE WaitsOver(Top.irq, S)'
  BY <1>1, <1>4 DEF WaitsOver
<1>5. ServiceInv'
  <2> SUFFICES ASSUME ~Doomed'
               PROVE  /\ \A k \in 1..Len(stack') - 1 : stack'[k].irq = NoIrq
                      /\ Unserved' => ~ifl' /\ \E S \in SUBSET (0..15) : WaitsOver(Top.irq, S)'
                      /\ ~Unserved' => Settled(isr', orphan')
    BY DEF ServiceInv
  <2>1. /\ \A k \in 1..Len(stack) - 1 : stack[k].irq = NoIrq
        /\ Unserved => \E S \in SUBSET (0..15) : WaitsOver(Top.irq, S)
        /\ ~Unserved => Settled(isr, orphan)
    BY <1>1 DEF ServeInv, ServiceInv
  <2> QED
    BY <1>1, <1>3, <1>4, <2>1
<1> QED
  BY <1>1, <1>2, <1>5 DEF ServeInv

LEMMA StubEnterServe == ASSUME IInv, ServeInv, StubEnter PROVE ServeInv'
<1>1. /\ Running /\ stack # <<>> /\ Top.at = "entry" /\ ~ifl'
      /\ stack' = [stack EXCEPT ![Depth].at = "stored"]
      /\ UNCHANGED <<isr, orphan, base, cpu, pc, callee>>
  BY DEF StubEnter, StubEntryIf, pic, prog, hist
<1> QED
  BY <1>1, StubMoves

LEMMA StubProtectServe == ASSUME IInv, ServeInv, StubProtect PROVE ServeInv'
<1>1. /\ Running /\ stack # <<>> /\ Top.at = "stored" /\ ifl' = ifl
      /\ stack' = [stack EXCEPT ![Depth].at = "saved"]
      /\ UNCHANGED <<isr, orphan, base, cpu, pc, callee>>
  BY DEF StubProtect, pic, prog, hist
<1>2. ~ifl
  BY <1>1, TopFrame DEF IInv, StubInv, ActiveAts
<1> QED
  BY <1>1, <1>2, StubMoves

\* The dispatch: a registered line's handler ends it, any other line is left.
LEMMA StubDispatchServe == ASSUME IInv, ServeInv, StubDispatch PROVE ServeInv'
<1>1. /\ Running /\ stack # <<>> /\ Top.at = "saved"
      /\ UNCHANGED <<base, pc, callee>>
  BY DEF StubDispatch, prog
<1>2. BaseInv'
  BY <1>1 DEF ServeInv, BaseInv, InCall
<1>3. CASE cpu' = "hung" /\ stack' = stack
  BY <1>2, <1>3 DEF ServeInv, VectorInv, ServiceInv, Running
<1>4. CASE cpu' = cpu /\ stack' = [stack EXCEPT ![Depth].at = "done"]
  <2>1. /\ Len(stack) \in Nat \ {0} /\ Len(stack') = Len(stack)
        /\ Top'.at = "done"
        /\ \A k \in 1..Len(stack) - 1 : stack'[k] = stack[k]
        /\ VectorInv => VectorInv'
        /\ Doomed <=> Doomed'
    BY <1>1, <1>4, MovedFrame DEF ActiveAts
  <2>2. ASSUME ~Doomed PROVE Settled(isr', orphan')
    <3>1. CASE RealHandler(Top.vec) # {}
      <4>1. PICK i \in RealHandler(Top.vec) : isr' = HandleIrq(i, isr) /\ Account(Top.irq, i)
        BY <3>1 DEF StubDispatch
      <4>2. i \in 0..15 /\ RealVec(i) = Top.vec
        BY DEF RealHandler, IInv, TypeOK
      <4>3. Top.irq = i /\ Top.irq # NoIrq
        <5>1. OwnVector(Top)
          BY <1>1, TopOwns
        <5>2. Top.irq = i
          BY <1>1, <4>2, <5>1 DEF OwnVector
        <5>3. \A n \in 0..15 : n # NoIrq
          BY DEF NoIrq
        <5> QED
          BY <4>2, <5>2, <5>3
      <4>4. Settled(HandleIrq(Top.irq, isr), orphan \ {Top.irq})
        BY <1>1, <2>2, <4>3, TopWaits
      <4> QED
        BY <4>1, <4>3, <4>4, Orphans
    <3>2. CASE RealHandler(Top.vec) = {}
      <4>1. isr' = isr /\ Account(Top.irq, NoIrq)
        BY <3>2 DEF StubDispatch
      <4>2. CASE Top.irq = NoIrq
        BY <1>1, <2>2, <4>1, <4>2, TopSettled, Orphans
      <4>3. CASE Top.irq # NoIrq
        <5>1. Settled(isr, orphan \cup {Top.irq})
          BY <1>1, <2>2, <4>3, TopWaits
        <5> QED
          BY <4>1, <4>3, <5>1, Orphans
      <4> QED
        BY <4>2, <4>3
    <3> QED
      BY <3>1, <3>2
  <2>3. ~Unserved'
    BY <2>1 DEF Unserved
  <2>4. ~Doomed => \A k \in 1..Len(stack) - 1 : stack[k].irq = NoIrq
    BY <1>1 DEF ServeInv, ServiceInv
  <2>5. ServiceInv'
    BY <2>1, <2>2, <2>3, <2>4 DEF ServiceInv
  <2> QED
    BY <1>2, <2>1, <2>5 DEF ServeInv
<1> QED
  BY <1>3, <1>4 DEF StubDispatch

LEMMA StubReturnServe == ASSUME IInv, ServeInv, StubReturn PROVE ServeInv'
<1>1. /\ Running /\ stack # <<>> /\ Top.at = "done"
      /\ stack' = SubSeq(stack, 1, save - 1)
      /\ UNCHANGED <<isr, orphan, base, cpu, pc, callee>>
  BY DEF StubReturn, Pop, pic, prog, hist
<1>2. save = Len(stack)
  BY <1>1, TopFrame DEF IInv, StubInv, ActiveAts
<1>3. BaseInv'
  BY <1>1 DEF ServeInv, BaseInv, InCall
<1>4. ~Doomed => Settled(isr', orphan')
  BY <1>1, TopSettled
<1>5. VectorInv' /\ ServiceInv'
  BY <1>1, <1>2, <1>4, PopServe
<1> QED
  BY <1>3, <1>5 DEF ServeInv

LEMMA GuestServe == ASSUME IInv, ServeInv, Guest PROVE ServeInv'
<1>1. Running /\ stack = <<>> /\ Settled(isr, orphan) /\ UNCHANGED <<isr, orphan, base, callee>>
      /\ pc = "guest"
  <2>1. Running /\ stack = <<>> /\ UNCHANGED <<isr, orphan, base, callee>> /\ pc = "guest"
    BY DEF Guest, GuestCall, GuestSetIf, GuestReturn, InGuest, MainRuns, pic, prog, hist
  <2> QED
    BY <2>1, EmptySettled
<1>2. BaseInv'
  BY <1>1 DEF ServeInv, BaseInv, InCall
<1>3. ASSUME NEW v \in GuestVecs, NEW keep \in BOOLEAN, GuestCall(v, keep) PROVE ServeInv'
  <2> DEFINE f == Frame(v, NoIrq, "entry")
  <2>1. stack' = Append(stack, f) /\ v \in 16..31
    BY <1>3, GuestVecAssumption DEF GuestCall
  <2>2. f.vec = v /\ f.irq = NoIrq /\ f.at = "entry"
    BY DEF Frame
  <2> HIDE DEF f
  <2>3. Len(stack') = 1 /\ stack'[1] = f /\ Top' = f
    BY <1>1, <2>1 DEF Top, Depth
  <2>4. OwnVector(f)
    BY <2>1, <2>2 DEF OwnVector, AsmVecs, RealVec
  <2>5. VectorInv'
    BY <2>3, <2>4 DEF VectorInv
  <2>6. ServiceInv'
    <3>1. ~Unserved'
      BY <2>2, <2>3 DEF Unserved
    <3> QED
      BY <1>1, <2>3, <3>1 DEF ServiceInv
  <2> QED
    BY <1>2, <2>5, <2>6 DEF ServeInv
<1>4. ASSUME NEW on \in BOOLEAN, GuestSetIf(on) PROVE ServeInv'
  <2>1. stack' = <<>>
    BY <1>1, <1>4 DEF GuestSetIf
  <2> QED
    BY <1>1, <1>2, <2>1, EmptyServe DEF ServeInv
<1>5. CASE GuestReturn
  <2>1. stack' = <<>>
    BY <1>1, <1>5 DEF GuestReturn
  <2> QED
    BY <1>1, <1>2, <2>1, EmptyServe DEF ServeInv
<1> QED
  BY <1>3, <1>4, <1>5 DEF Guest

LEMMA NextServe == IInv /\ ServeInv /\ [Next]_vars => ServeInv'
<1> SUFFICES ASSUME IInv, ServeInv, [Next]_vars PROVE ServeInv'
  OBVIOUS
<1>1. ASSUME UNCHANGED <<isr, orphan, stack, ifl, cpu, base, pc, callee>> PROVE ServeInv'
  BY <1>1 DEF ServeInv, BaseInv, VectorInv, ServiceInv, InCall, Running, Doomed, Unserved,
     WaitsOver, Top, Depth
<1>2. ASSUME NEW i \in Irqs, RaiseIrq(i) PROVE ServeInv'
  BY <1>1, <1>2 DEF RaiseIrq, core, prog, hist
<1>3. CASE UNCHANGED vars
  BY <1>1, <1>3 DEF vars, pic, core, prog, hist
<1>4. CASE RunHandler
  BY <1>4, RunGateServe, AsmHandlerServe, StubEnterServe, StubProtectServe,
     StubDispatchServe, StubReturnServe DEF RunHandler
<1> QED
  BY <1>2, <1>3, <1>4, DeliverServe, GuestServe, MainServe DEF Next, TakeIrq

\* Whenever main or a guest runs, the only bits in service are of lines whose
\* last interrupt found no handler, before and after a boot sector is started:
\* whatever nested, every handler ended its own interrupt.
THEOREM ServedAreEnded == Spec => []ServedIrqsAreEnded
<1>1. Init => ServeInv
  BY InitServeInv
<1>2. IInv /\ ServeInv /\ [Next]_vars => ServeInv'
  BY NextServe
<1>3. ServeInv => ServedIrqsAreEnded
  <2> SUFFICES ASSUME ServeInv, MainRuns PROVE Settled(isr, orphan)
    BY DEF ServedIrqsAreEnded, Settled
  <2> QED
    BY EmptySettled DEF MainRuns
<1> QED
  BY <1>1, <1>2, <1>3, Invariant, PTL DEF Spec
-----------------------------------------------------------------------------
(***************************************************************************)
(* Whose service an end-of-interrupt command ends.                         *)
(***************************************************************************)

\* From the launch on the controllers keep the vectors of the real-mode table, so
\* that no device reaches the gates 20h to 2Fh of the lines' handlers.
LaunchInv ==
  launched =>
    /\ base = "real" /\ pc \in {"guest", "window", "boot", "failed"}
    /\ InCall => callee = "boot"
    /\ \A k \in 1..Len(stack) : stack[k].at = "gate" => stack[k].vec \notin 32..47

LEMMA NextLaunch == IInv /\ LaunchInv /\ [Next]_vars => LaunchInv'
<1> SUFFICES ASSUME IInv, LaunchInv, [Next]_vars PROVE LaunchInv'
  OBVIOUS
<1>1. ASSUME UNCHANGED <<launched, base, pc, callee>>,
             \A k \in 1..Len(stack') : stack'[k].at = "gate" =>
               k \in 1..Len(stack) /\ stack'[k] = stack[k]
      PROVE  LaunchInv'
  BY <1>1 DEF LaunchInv, InCall
<1>2. ASSUME NEW i \in Irqs, RaiseIrq(i) PROVE LaunchInv'
  BY <1>1, <1>2 DEF RaiseIrq, core, prog
<1>3. ASSUME NEW i \in Irqs, Deliver(i) PROVE LaunchInv'
  <2> DEFINE f == Frame(PicVec(i), i, IF mode = "prot" THEN "gate" ELSE "entry")
  <2>1. UNCHANGED <<launched, base, pc, callee>> /\ (stack' = stack \/ stack' = Append(stack, f))
    BY <1>3 DEF Deliver, prog
  <2>2. CASE stack' = stack
    BY <1>1, <2>1, <2>2
  <2>3. CASE stack' = Append(stack, f)
    <3>1. f \in Frames /\ f.vec = PicVec(i)
      BY <1>3, VectorRange DEF Frame, Frames, NoIrq, Deliver, IInv, TypeOK
    <3>2. /\ Len(stack') = Len(stack) + 1 /\ stack'[Len(stack) + 1] = f
          /\ \A k \in 1..Len(stack) : stack'[k] = stack[k]
      BY <2>3, <3>1, PushFrame DEF IInv, TypeOK
    <3>3. base = "real" => f.vec \notin 32..47
      BY <3>1, VectorRange DEF PicVec
    <3>4. Len(stack) \in Nat
      BY DEF IInv, TypeOK
    <3>5. \A k \in 1..Len(stack') : k \in 1..Len(stack) \/ k = Len(stack) + 1
      BY <3>2, <3>4
    <3> HIDE DEF f
    <3> QED
      BY <2>1, <3>2, <3>3, <3>5 DEF LaunchInv, InCall
  <2> QED
    BY <2>1, <2>2, <2>3
<1>4. CASE RunHandler
  <2>1. UNCHANGED <<launched, base, pc, callee>> /\ stack # <<>>
    BY <1>4 DEF RunHandler, RunGate, RunAsmHandler, StubEnter, StubProtect, StubDispatch,
       StubReturn, pic, prog
  <2>2. ASSUME NEW n \in Nat, n < Len(stack), stack' = SubSeq(stack, 1, n) PROVE LaunchInv'
    <3>1. Len(stack') = n /\ \A k \in 1..n : stack'[k] = stack[k] /\ k \in 1..Len(stack)
      BY <2>2 DEF IInv, TypeOK
    <3> QED
      BY <1>1, <2>1, <3>1
  <2>3. CASE stack' = SubSeq(stack, 1, Len(stack) - 1)
    <3>1. Len(stack) - 1 \in Nat /\ Len(stack) - 1 < Len(stack)
      BY <2>1, PopFrame DEF IInv, TypeOK
    <3> QED
      BY <2>2, <2>3, <3>1
  <2>4. ASSUME NEW a \in ActiveAts, Top.at # "gate", stack' = [stack EXCEPT ![Depth].at = a]
        PROVE  LaunchInv'
    <3>1. /\ Len(stack') = Len(stack) /\ Top'.at = a
          /\ \A k \in 1..Len(stack) - 1 : stack'[k] = stack[k]
      BY <2>1, <2>4, MovedFrame
    <3>2. Top' = stack'[Len(stack)] /\ a # "gate"
      BY <3>1 DEF Top, Depth, ActiveAts
    <3>3. Len(stack) \in Nat
      BY DEF IInv, TypeOK
    <3>4. \A k \in 1..Len(stack) : k = Len(stack) \/ k \in 1..Len(stack) - 1
      BY <3>3
    <3> QED
      BY <1>1, <2>1, <3>1, <3>2, <3>4
  <2>5. CASE stack' = stack
    BY <1>1, <2>1, <2>5
  <2>6. CASE RunGate \/ RunAsmHandler
    BY <2>3, <2>5, <2>6 DEF RunGate, RunAsmHandler, Pop, Depth
  <2>7. CASE StubEnter \/ StubProtect \/ StubDispatch
    BY <2>4, <2>5, <2>7 DEF StubEnter, StubProtect, StubDispatch, ActiveAts
  <2>8. CASE StubReturn
    <3>1. save = Len(stack) /\ stack' = SubSeq(stack, 1, save - 1)
      BY <2>8, TopFrame DEF StubReturn, Pop, IInv, StubInv, ActiveAts
    <3> QED
      BY <2>3, <3>1
  <2> QED
    BY <1>4, <2>6, <2>7, <2>8 DEF RunHandler
<1>5. CASE Guest
  <2>1. /\ UNCHANGED <<launched, base, callee>> /\ pc = "guest" /\ stack = <<>>
        /\ pc' \in {"guest", "window"}
    BY <1>5 DEF Guest, GuestCall, GuestSetIf, GuestReturn, InGuest, MainRuns, pic, prog
  <2>2. \A k \in 1..Len(stack') : stack'[k].at # "gate"
    <3>1. ASSUME NEW v \in GuestVecs, stack' = Append(stack, Frame(v, NoIrq, "entry"))
          PROVE  \A k \in 1..Len(stack') : stack'[k].at # "gate"
      <4>1. Len(stack') = 1 /\ stack'[1] = Frame(v, NoIrq, "entry")
        BY <2>1, <3>1
      <4>2. Frame(v, NoIrq, "entry").at = "entry"
        BY DEF Frame
      <4> QED
        BY <4>1, <4>2
    <3>2. stack' = stack => Len(stack') = 0
      BY <2>1
    <3> QED
      BY <1>5, <3>1, <3>2 DEF Guest, GuestCall, GuestSetIf, GuestReturn
  <2> QED
    BY <2>1, <2>2 DEF LaunchInv, InCall
<1>6. CASE Main
  <2>1. stack = <<>> /\ Len(stack) = 0 /\ UNCHANGED stack
    BY <1>6 DEF Main, ItrDisable, CallOprom, SkipOprom, ReloadIdt, ItrInit, TimerInit,
       SerialSetBuffered, HdInit, BiosInit, ItrEnable, KeyboardInit, BootSkip,
       BootFromHd, FailedToBoot, Goto, EnterRealMode, SetIf, MainRuns, core
  <2>2. CASE BootFromHd
    BY <2>1, <2>2 DEF BootFromHd, EnterRealMode, Remap, LaunchInv, InCall
  <2>3. CASE ReloadIdt
    BY <2>1, <2>3 DEF ReloadIdt, pic, LaunchInv, InCall
  <2>4. CASE ~BootFromHd /\ ~ReloadIdt
    <3>1. UNCHANGED launched
      BY <1>6, <2>4 DEF Main, ItrDisable, CallOprom, SkipOprom, ItrInit, TimerInit,
         SerialSetBuffered, HdInit, BiosInit, ItrEnable, KeyboardInit, BootSkip,
         FailedToBoot, Goto
    <3>2. launched => pc' \in {"boot", "failed"} /\ base' = base
      <4>1. pc \in {"guest", "window", "boot", "failed"} /\ launched => BootSkip \/ FailedToBoot
        BY <1>6, <2>4 DEF Main, ItrDisable, CallOprom, SkipOprom, ItrInit, TimerInit,
           SerialSetBuffered, HdInit, BiosInit, ItrEnable, KeyboardInit, Goto
      <4> QED
        BY <4>1 DEF LaunchInv, BootSkip, FailedToBoot, Goto, pic
    <3> QED
      BY <2>1, <3>1, <3>2 DEF LaunchInv, InCall
  <2> QED
    BY <2>2, <2>3, <2>4
<1>7. CASE UNCHANGED vars
  BY <1>1, <1>7 DEF vars, pic, core, prog
<1> QED
  BY <1>2, <1>3, <1>4, <1>5, <1>6, <1>7 DEF Next, TakeIrq

\* A handler ends its own interrupt, and the serial handler's second command at
\* most one more, which nobody serves.
LEMMA HandlerEndsOwn ==
  ASSUME NEW S \in SUBSET (0..15), NEW O, NEW i \in 0..15, i # 2, Over(i, S), Settled(S, O),
         NEW j \in S \cup {i, Line(i)}, j \notin {i, Line(i)}
  PROVE  /\ j \notin HandleIrq(i, S \cup {i, Line(i)}) => i = 4 /\ j \in O
         /\ i < 8 => j \in EoiMaster(S \cup {i, Line(i)})
<1>1. CASE i < 8
  <2>1. S \cup {i, Line(i)} = S \cup {i} /\ \A s \in S : s < 8 => i < s
    BY <1>1 DEF Line, Over
  <2>2. EoiMaster(S \cup {i, Line(i)}) = S
    <3>1. i \in 0..7
      BY <1>1
    <3> QED
      BY <2>1, <3>1, EoiMasterEnds
  <2>3. i # 4 => HandleIrq(i, S \cup {i, Line(i)}) = S
    BY <1>1, <2>2 DEF HandleIrq
  <2>4. i = 4 => 2 \notin S
    BY <2>1
  <2> QED
    BY <2>2, <2>3, <2>4 DEF Settled
<1>2. CASE ~(i < 8)
  <2>1. i \in 8..15 /\ Line(i) = 2
    BY <1>2 DEF Line
  <2>2. (\A s \in S : s >= 8 => i < s) /\ (\A s \in S : s < 8 => 2 < s)
    BY <2>1 DEF Over
  <2>3. S \cup {2} \in SUBSET (0..15) /\ \A s \in S \cup {2} : s >= 8 => i < s
    BY <2>2
  <2>4. S \cup {i, Line(i)} = (S \cup {2}) \cup {i}
    BY <2>1
  <2>5. EoiSlave(S \cup {i, Line(i)}) = S \cup {2}
    BY <2>1, <2>3, <2>4, EoiSlaveEnds
  <2>6. EoiMaster(S \cup {2}) = S
    <3>1. 2 \in 0..7
      OBVIOUS
    <3> QED
      BY <2>2, <3>1, EoiMasterEnds
  <2>7. HandleIrq(i, S \cup {i, Line(i)}) = S
    BY <2>1, <2>5, <2>6 DEF HandleIrq
  <2> QED
    BY <1>2, <2>7
<1> QED
  BY <1>1, <1>2

\* The same of the handler that runs on the innermost frame.
LEMMA TopEndsOwn ==
  ASSUME IInv, ServeInv, Running, stack # <<>>, ~Doomed, Top.irq # NoIrq, Top.at # "done",
         NEW j \in isr, j \notin {Top.irq, Line(Top.irq)}
  PROVE  /\ j \notin HandleIrq(Top.irq, isr) => Top.irq = 4 /\ j \in orphan
         /\ Top.irq < 8 => j \in EoiMaster(isr)
<1>1. PICK S \in SUBSET (0..15) : WaitsOver(Top.irq, S)
  BY DEF ServeInv, ServiceInv, Unserved
<1>2. /\ Top.irq \in 0..15 /\ Top.irq # 2 /\ isr = S \cup {Top.irq, Line(Top.irq)}
      /\ Over(Top.irq, S) /\ Settled(S, orphan)
  BY <1>1, IrqAssumption DEF WaitsOver
<1> QED
  BY <1>2, HandlerEndsOwn

\* An exception gate on the stack is entered after the launch, and no handler
\* that ends anything runs above it.
LEMMA DoomedEndsNothing ==
  ASSUME IInv, LaunchInv, Doomed, stack # <<>>, RunGate \/ RunAsmHandler \/ StubDispatch
  PROVE  isr' = isr
<1>1. PICK k \in 1..Len(stack) : stack[k].at = "gate" /\ stack[k].vec \in ExceptionGates
  BY DEF Doomed
<1>2. launched
  <2>1. stack[k] \in Frames
    BY ElementOfSeq DEF IInv, TypeOK
  <2>2. stack[k].irq \in 0..NoIrq /\ stack[k].vec \in 0..127
    BY <2>1 DEF Frames
  <2>3. stack[k].vec # 32 + stack[k].irq
    BY <1>1, <2>2, VectorFacts, Zenon
  <2> QED
    BY <1>1, <2>3 DEF IInv, FrameInv, TypeOK
<1>3. Len(stack) \in 1..Len(stack) /\ Top = stack[Len(stack)] /\ Top.vec \in 0..127
  BY TopFrame
<1>4. Top.at = "gate"
  BY <1>1, <1>3 DEF IInv, ModeInv
<1>5. Top.vec \notin 32..47
  BY <1>2, <1>3, <1>4 DEF LaunchInv
<1>6. Top.vec # 39 /\ Top.vec - 32 \notin irqH
  <2>1. irqH \subseteq 0..15
    BY DEF IInv, TypeOK
  <2>2. \A v \in 0..127 : v \notin 32..47 => v # 39 /\ v - 32 \notin 0..15
    OBVIOUS
  <2>3. Top.vec # 39 /\ Top.vec - 32 \notin 0..15
    BY <1>3, <1>5, <2>2, Zenon
  <2> QED
    BY <2>1, <2>3
<1>7. RunGate
  BY <1>4 DEF RunAsmHandler, StubDispatch
<1>8. \/ isr' = isr
      \/ Top.vec = 39
      \/ Top.vec - 32 \in irqH
  BY <1>7, Zenon DEF RunGate
<1> QED
  BY <1>6, <1>8

\* The end-of-interrupt of a handler, which names no line, ends that handler's own;
\* only the second one of line 4 reaches another line, and one that nobody serves.
THEOREM EndsOwnLine == Spec => EoiEndsOwnLine
<1> DEFINE Own(j) == j \in {Top.irq, Line(Top.irq)} \/ (Top.irq = 4 /\ j \in orphan)
<1>1. ASSUME IInv, ServeInv, LaunchInv, Next, pc' = pc, NEW j \in isr \ isr' PROVE Own(j)
  <2>1. RunGate \/ RunAsmHandler \/ StubDispatch
    BY <1>1 DEF Next, TakeIrq, Deliver, RaiseIrq, RunHandler, StubEnter, StubProtect,
       StubReturn, Guest, GuestCall, GuestSetIf, GuestReturn, InGuest,
       Main, ItrDisable, CallOprom, SkipOprom, ReloadIdt, ItrInit, TimerInit,
       SerialSetBuffered, HdInit, BiosInit, ItrEnable, KeyboardInit, BootSkip, BootFromHd,
       FailedToBoot, EnterRealMode, Goto, pic
  <2>2. Running /\ stack # <<>> /\ Top.at # "done" /\ isr' # isr
    BY <1>1, <2>1 DEF RunGate, RunAsmHandler, StubDispatch
  <2>3. ~Doomed
    BY <1>1, <2>1, <2>2, DoomedEndsNothing
  <2>4. OwnVector(Top) /\ Top.vec \in 0..127 /\ irqH \subseteq 0..15
    BY <1>1, <2>2, TopOwns, TopFrame DEF IInv, TypeOK
  <2>5. \A n \in 0..15 : n # NoIrq
    BY DEF NoIrq
  <2>6. ASSUME Top.irq \in 0..15, \/ isr' = HandleIrq(Top.irq, isr)
                                  \/ Top.irq < 8 /\ isr' = EoiMaster(isr)
        PROVE  Own(j)
    BY <1>1, <2>2, <2>3, <2>5, <2>6, TopEndsOwn
  <2>7. CASE RunGate
    <3>1. \/ Top.vec = 39 /\ isr' = EoiMaster(isr)
          \/ Top.vec - 32 \in irqH /\ isr' = HandleIrq(Top.vec - 32, isr)
      BY <2>2, <2>7, Zenon DEF RunGate
    <3>2. Top.at = "gate"
      BY <2>7 DEF RunGate
    <3>3. Top.vec - 32 \in 0..15 => Top.irq = Top.vec - 32
      BY <2>4, <3>2 DEF OwnVector
    <3>4. Top.vec = 39 => Top.irq = 7
      BY <3>3
    <3>5. Top.vec - 32 \in irqH => Top.irq \in 0..15 /\ Top.irq = Top.vec - 32
      BY <2>4, <3>3
    <3> QED
      BY <2>6, <3>1, <3>4, <3>5
  <2>8. CASE RunAsmHandler
    <3>1. Top.irq \in {0, 1} /\ isr' = EoiMaster(isr)
      BY <2>4, <2>8 DEF RunAsmHandler, OwnVector, AsmVecs
    <3> QED
      BY <2>6, <3>1
  <2>9. CASE StubDispatch
    <3>1. PICK i \in RealHandler(Top.vec) : isr' = HandleIrq(i, isr)
      BY <2>2, <2>9 DEF StubDispatch
    <3>2. i \in 0..15 /\ RealVec(i) = Top.vec
      BY <2>4 DEF RealHandler
    <3>3. Top.irq = i
      BY <2>4, <2>9, <3>2 DEF OwnVector, StubDispatch
    <3> QED
      BY <2>6, <3>1, <3>2, <3>3
  <2> QED
    BY <2>1, <2>7, <2>8, <2>9
<1>2. IInv /\ ServeInv /\ LaunchInv /\ [Next]_vars =>
        [pc' = pc =>
           \A i \in isr \ isr' :
             \/ i \in {Top.irq, Line(Top.irq)}
             \/ Top.irq = 4 /\ i \in orphan]_isr
  BY <1>1 DEF vars, pic
<1>3. Init => ServeInv /\ LaunchInv
  BY InitServeInv DEF Init, LaunchInv
<1>4. IInv /\ ServeInv /\ LaunchInv /\ [Next]_vars => ServeInv' /\ LaunchInv'
  BY NextServe, NextLaunch
<1> QED
  BY <1>2, <1>3, <1>4, Invariant, PTL DEF Spec, EoiEndsOwnLine
=============================================================================
