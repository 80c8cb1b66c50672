---------------------- MODULE KeyboardTimerProofs ----------------------
(***************************************************************************)
(* The two parts of the BIOS that live by the tick.                        *)
(*                                                                         *)
(* Timer: the clock counts every interrupt and msleep waits as long as it  *)
(* should, for every word size, every sleep and every delay of main.       *)
(*                                                                         *)
(* KeyboardController: keyboard_init leaves set 1 codes behind it, and the *)
(* LEDs follow the lock flags, for every limit of the waits, every number  *)
(* of resets and keys, every keyboard and every state of the 8042.         *)
(***************************************************************************)
EXTENDS KeyboardController, Timer, SequenceTheorems, TLAPS

-----------------------------------------------------------------------------
(* Timer.                                                                   *)

SlotRegistered == callback = "inc_ticks" /\ interval = 1 /\ counter = 0

\* No interrupt is served while main fills the slot, store by store.
SlotFilled ==
  /\ step \in Booting => ~ifl /\ ticks = 0 /\ interval \in 0..1 /\ counter = 0
  /\ step \in {"interval", "counter", "enable"} => callback = "inc_ticks"
  /\ step \in {"counter", "enable"} => interval = 1
  /\ step \notin Booting => SlotRegistered

OwnsLine0 == route = "stub" => step = "guest"

\* The interrupts since msleep began are the wrapped difference it computes.
SleepCounted ==
  /\ Asleep => elapsed = Minus(ticks, start)
  /\ step = "check"  => elapsed =< need + MaxLag + lag
  /\ step = "hlt"    => elapsed < need + lag
  /\ step = "halted" => elapsed < need + MaxLag /\ lag = 0

TimerInv == TypeOK /\ ClockCountsTicks /\ SlotFilled /\ OwnsLine0 /\ SleepCounted
-----------------------------------------------------------------------------
(* u32 arithmetic.                                                          *)

LEMMA PlusInU32 ==
  ASSUME NEW a \in U32, NEW b \in U32
  PROVE  Plus(a, b) \in U32
  BY WordAssumption DEF U32, Plus

\* One more tick is one more on the difference msleep computes, as long as the
\* difference stays below a full turn of the counter.
LEMMA MinusCounts ==
  ASSUME NEW a \in U32, NEW s \in U32, Minus(a, s) + 1 < Word
  PROVE  Minus(Plus(a, 1), s) = Minus(a, s) + 1
  BY WordAssumption DEF U32, Plus, Minus

-----------------------------------------------------------------------------
LEMMA InitTimerInv == ClockInit => TimerInv
<1> SUFFICES ASSUME ClockInit PROVE TimerInv
  OBVIOUS
<1>1. /\ ticks \in U32 /\ clock \in U32 /\ handled \in U32 /\ start \in U32
      /\ lag \in 0..MaxLag /\ elapsed \in Nat /\ counter \in Nat /\ interval \in 0..1
  BY WordAssumption, LagAssumption DEF ClockInit, U32
<1>2. irq0 \in BOOLEAN /\ ifl \in BOOLEAN
  BY Zenon DEF ClockInit
<1>3. /\ callback \in {"NULL", "inc_ticks"} /\ route \in {"gate", "stub", "exception"}
      /\ step \in PCs /\ need \in Sleeps \cup {0}
  BY DEF ClockInit, PCs, Booting
<1>4. TypeOK
  BY <1>1, <1>2, <1>3 DEF TypeOK
<1>5. ClockCountsTicks /\ SlotFilled /\ OwnsLine0 /\ SleepCounted
  BY DEF ClockInit, ClockCountsTicks, SlotFilled, OwnsLine0, SleepCounted, Asleep, Booting
<1> QED
  BY <1>4, <1>5 DEF TimerInv

LEMMA NextTimerInv == TimerInv /\ [ClockNext]_clockVars => TimerInv'
<1> SUFFICES ASSUME TimerInv, [ClockNext]_clockVars PROVE TimerInv'
  OBVIOUS
<1> USE WordAssumption, LagAssumption, SleepAssumption
<1> USE DEF TimerInv, TypeOK, ClockCountsTicks, SlotFilled, OwnsLine0, SleepCounted,
            SlotRegistered, Asleep, Booting, PCs, slot, nap
<1>1. CASE Raise
  BY <1>1 DEF Raise, Goto
<1>2. CASE ServeGate
  <2>1. step \notin Booting /\ SlotRegistered
    BY <1>2 DEF ServeGate
  <2>2. /\ ticks' = Plus(ticks, 1) /\ clock' = Plus(clock, 1) /\ handled' = Plus(handled, 1)
        /\ UNCHANGED <<callback, interval, counter, start, need, ifl, route>> /\ irq0' = FALSE
    BY <1>2, <2>1 DEF ServeGate, HandleTimer, CheckCallbacks, Due, Count
  <2>3. /\ elapsed' = IF Asleep THEN elapsed + 1 ELSE elapsed
        /\ lag' = IF step \in {"check", "hlt"} THEN lag + 1 ELSE lag
        /\ step' = IF step = "halted" THEN "check" ELSE step
        /\ step \in {"check", "hlt"} => lag < MaxLag
    BY <1>2 DEF ServeGate, Count, Wake, InTime
  <2>4. 1 \in U32 /\ ticks' \in U32 /\ clock' \in U32 /\ handled' \in U32
    BY <2>2, PlusInU32 DEF U32
  <2>5. TypeOK'
    <3>1. step' \in PCs /\ lag' \in 0..MaxLag /\ elapsed' \in Nat
      BY <2>3
    <3>2. irq0' \in BOOLEAN /\ ifl' \in BOOLEAN
      BY <2>2, Zenon
    <3> QED
      BY <2>2, <2>4, <3>1, <3>2
  <2>6. SleepCounted'
    <3>1. CASE Asleep
      <4>1. need \in Nat /\ need + 2 * MaxLag + 2 < Word
        OBVIOUS
      <4>2. elapsed = Minus(ticks, start) /\ elapsed + 1 < Word
        BY <3>1, <2>3, <4>1
      <4>3. elapsed' = Minus(ticks', start')
        BY <3>1, <4>2, <2>2, <2>3, MinusCounts
      <4> QED
        BY <3>1, <4>1, <4>3, <2>2, <2>3
    <3>2. CASE ~Asleep
      BY <3>2, <2>3
    <3> QED
      BY <3>1, <3>2
  <2> QED
    BY <2>1, <2>2, <2>3, <2>5, <2>6
<1>3. CASE ServeStub
  <2>1. /\ clock' = Plus(clock, 1) /\ handled' = Plus(handled, 1) /\ step = "guest"
        /\ UNCHANGED <<ticks, slot, start, need, lag, elapsed, ifl, route, step>> /\ irq0' = FALSE
    BY <1>3 DEF ServeStub, AsmTick, Count, Wake
  <2>2. clock' \in U32 /\ handled' \in U32
    BY <2>1, PlusInU32 DEF U32
  <2> QED
    BY <2>1, <2>2
<1>4. CASE ServeException
  BY <1>4 DEF ServeException, Goto
<1>5. CASE OtherIrq
  BY <1>5 DEF OtherIrq, Wake, Goto
<1>6. CASE TimerInit
  BY <1>6 DEF TimerInit, Goto
<1>7. CASE Publish
  BY <1>7 DEF Publish, Goto
<1>8. CASE SetInterval
  BY <1>8 DEF SetInterval, Goto
<1>9. CASE SetCounter
  BY <1>9 DEF SetCounter, Goto
<1>10. CASE ItrEnable
  BY <1>10 DEF ItrEnable, Goto
<1>11. CASE SleepCheck
  BY <1>11 DEF SleepCheck, Over, Goto
<1>12. CASE Halt
  BY <1>12 DEF Halt, Goto
<1>13. CASE EnterGuest
  BY <1>13 DEF EnterGuest, Goto
<1>14. CASE GuestReturn
  BY <1>14 DEF GuestReturn, Goto
<1>15. ASSUME NEW m \in Sleeps, SleepBegin(m) PROVE TimerInv'
  BY <1>15 DEF SleepBegin, Goto, Minus, U32
<1>16. CASE UNCHANGED clockVars
  BY <1>16 DEF clockVars
<1> QED
  BY <1>1, <1>2, <1>3, <1>4, <1>5, <1>6, <1>7, <1>8, <1>9, <1>10, <1>11, <1>12, <1>13, <1>14, <1>15, <1>16 DEF ClockNext, Serve, Register, Sleep

LEMMA SpecTimerInv == ClockSpec => []TimerInv
<1> QED
  BY InitTimerInv, NextTimerInv, PTL DEF ClockSpec

\* Every variable has its type in every reachable state.
THEOREM TypeCorrect == ClockSpec => []TypeOK
<1>1. TimerInv => TypeOK
  BY DEF TimerInv
<1> QED
  BY SpecTimerInv, <1>1, PTL

\* The BIOS clock equals the number of timer interrupts served, whichever
\* handler served them.
THEOREM ClockCounts == ClockSpec => []ClockCountsTicks
<1>1. TimerInv => ClockCountsTicks
  BY DEF TimerInv
<1> QED
  BY SpecTimerInv, <1>1, PTL

\* msleep(n ticks) sees at least n interrupts before it returns, and at most
\* n + 2 * MaxLag, wherever in its 32-bit range the counter starts.
THEOREM SleepsLongEnough == ClockSpec => SleepBounds
<1>1. TimerInv /\ [ClockNext]_clockVars
        => [step = "check" /\ step' = "run" => elapsed >= need /\ elapsed =< need + 2 * MaxLag]_step
  <2> SUFFICES ASSUME TimerInv, [ClockNext]_clockVars, step = "check", step' = "run"
               PROVE  elapsed >= need /\ elapsed =< need + 2 * MaxLag
    OBVIOUS
  <2>1. SleepCheck /\ Over
    BY DEF clockVars, ClockNext, Raise, Serve, ServeGate, ServeStub, ServeException, OtherIrq, Wake,
           TimerInit, Register, Publish, SetInterval, SetCounter, ItrEnable, Sleep,
           SleepBegin, SleepCheck, Halt, EnterGuest, GuestReturn, Goto
  <2>2. elapsed = Minus(ticks, start) /\ elapsed =< need + MaxLag + lag
    BY DEF TimerInv, SleepCounted, Asleep
  <2>3. /\ ticks \in U32 /\ start \in U32 /\ need \in Nat
        /\ lag \in 0..MaxLag /\ elapsed \in Nat /\ MaxLag \in Nat
    BY LagAssumption, SleepAssumption DEF TimerInv, TypeOK
  <2> QED
    BY <2>1, <2>2, <2>3 DEF Over
<1> QED
  BY SpecTimerInv, <1>1, PTL DEF ClockSpec, SleepBounds

-----------------------------------------------------------------------------
(* KeyboardController: types.  The numbers are those of the steps of Script. *)

TxSteps == {4, 5, 11, 13, 14, 15, 16, 18, 19, 29, 30}
SendSteps == {9, 23, 27}
ReadSteps == {3, 7, 12, 17, 21, 25}
CmdSteps == {1, 2, 6, 8, 10, 20, 22, 24, 26}
\* The codes the two keys have in sets 1 and 2.
Keys == {30, CapsKey, 28, 88}
\* A byte on its way to the keyboard, as keyboard_send_data writes it.
Byte(b) == <<"data", b>>
ServicePhases == {"idle", "key", "sendCmd", "recvCmd", "sendLeds", "recvLeds"}

\* What each device and each of the two programs may hold; the handler of line 1
\* runs only once keyboard_init has registered it.
KbdType ==
  /\ DOMAIN kbd = {"alive", "sets", "resends", "set", "leds", "want", "ans", "keys", "last"}
  /\ kbd.set \in Int /\ kbd.last \in Int /\ kbd.ans \in Seq(Int) /\ kbd.keys \in Seq(Keys)
  /\ kbd.want \in {"cmd", "leds", "set"}
CtlType ==
  /\ DOMAIN ctl = {"irq", "xlat", "off", "cfg", "out"}
  /\ ctl.out \in {Empty, TestOk} \cup 0..81
PortType ==
  /\ ob \in Int
  /\ ib # <<>> => \E b \in Int : ib \in {<<"cmd", b>>, Byte(b)}
MainType ==
  /\ pc \in 1..Failed /\ data \in Int
  /\ CASE pc \in TxSteps -> ph \in {"send", "recv"}
       [] pc \in SendSteps -> ph = "send"
       [] pc \in ReadSteps -> ph = "recv"
       [] OTHER -> ph = "go"
  /\ mode \in {"prot", "real"} /\ (mode = "real" => pc \in {Done, Failed})
  /\ late \in 0..2
ServiceType ==
  /\ sv \in ServicePhases /\ sdata \in Int /\ caps \in BOOLEAN
  /\ pc =< RegisterStep => ~served /\ sv = "idle"
  /\ pc > RegisterStep /\ pc =< Done => served
Types == KbdType /\ CtlType /\ PortType /\ MainType /\ ServiceType

-----------------------------------------------------------------------------
(* The script of keyboard_init, and what the keyboard answers.              *)

LEMMA ScriptOps ==
  /\ Len(Script) = 31 /\ Done = 32 /\ Failed = 33
  /\ \A i \in 1..31 : /\ Script[i].op = "tx" <=> i \in TxSteps
                      /\ Script[i].op = "send" <=> i \in SendSteps
                      /\ Script[i].op = "cmd" <=> i \in CmdSteps
                      /\ Script[i].op = "register" <=> i = 28
                      /\ Script[i].op = "clear" <=> i = 31
                      /\ Script[i].op \in {"tx", "send", "cmd", "register", "clear", "test", "config", "reset", "set", "xlat", "noxlat"}
                      /\ Script[i].byte \in Int
  BY DEF Script, Tx, Cmd, Do, TxSteps, SendSteps, CmdSteps, Done, Failed, SetLeds, Reset, ScanSet

LEMMA OpOfStep ==
  ASSUME pc \in 1..Failed
  PROVE  /\ Op = "tx" <=> pc \in TxSteps
         /\ Op = "send" <=> pc \in SendSteps
         /\ Op = "cmd" <=> pc \in CmdSteps
         /\ Op = "register" <=> pc = 28
         /\ Op = "clear" <=> pc = 31
         /\ Op \in {"test", "config", "reset", "set", "xlat", "noxlat"} <=> pc \in ReadSteps
  BY ScriptOps DEF Op, TxSteps, SendSteps, CmdSteps, ReadSteps

\* The phase a step begins in follows from its kind.
LEMMA Enters ==
  ASSUME NEW i \in 1..Failed, NEW byte \in Int, Enter(i, byte)
  PROVE  /\ pc' = i /\ data' \in Int
         /\ i \in TxSteps => ph' = "send" /\ data' = Script[i].byte
         /\ i \notin TxSteps => data' = byte
         /\ i \in SendSteps => ph' = "send"
         /\ i \in ReadSteps => ph' = "recv"
         /\ i \notin TxSteps \cup SendSteps \cup ReadSteps => ph' = "go"
<1>1. CASE i \in 1..31
  BY <1>1, ScriptOps DEF Enter, TxSteps, SendSteps, CmdSteps, ReadSteps
<1>2. CASE i \notin 1..31
  BY <1>2, ScriptOps DEF Enter, TxSteps, SendSteps, CmdSteps, ReadSteps
<1> QED
  BY <1>1, <1>2

\* The answer of the keyboard, by what it takes the byte for.
LEMMA AnswerFields ==
  ASSUME KbdType, NEW b \in Int
  PROVE  DOMAIN Answered(kbd, b) = DOMAIN kbd /\ Answered(kbd, b).alive = kbd.alive
  BY DEF KbdType, Answered, SetLeds, ScanSet, Reset, Resend, Ack, BatOk

LEMMA AnswersLeds ==
  ASSUME KbdType, NEW b \in Int, kbd.want = "leds", NEW a, a = Answered(kbd, b)
  PROVE  a.leds = (b % 8) /\ a.want = "cmd" /\ a.ans = <<Ack>> /\ a.set = kbd.set
         /\ a.keys = kbd.keys /\ a.last = kbd.last
  BY DEF KbdType, Answered

LEMMA AnswersSet ==
  ASSUME KbdType, NEW b \in Int, kbd.want = "set", NEW a, a = Answered(kbd, b)
  PROVE  /\ a.leds = kbd.leds /\ a.want = "cmd" /\ a.keys = kbd.keys /\ a.last = kbd.last
         /\ b = 0 => a.ans = <<Ack, kbd.set>> /\ a.set = kbd.set
         /\ b # 0 => \/ a.set = b /\ a.ans = <<Ack>>
                     \/ a.set = kbd.set /\ a.ans = <<Resend>>
<1>1. CASE b = 0
  BY <1>1 DEF KbdType, Answered
<1>2. CASE b # 0 /\ b \in kbd.sets
  <2>1. a = [kbd EXCEPT !.set = b, !.want = "cmd", !.ans = <<Ack>>]
    BY <1>2 DEF Answered
  <2> QED
    BY <1>2, <2>1 DEF KbdType
<1>3. CASE b # 0 /\ b \notin kbd.sets
  BY <1>3 DEF KbdType, Answered
<1> QED
  BY <1>1, <1>2, <1>3

LEMMA AnswersCommand ==
  ASSUME KbdType, NEW b \in Int, kbd.want = "cmd", NEW a, a = Answered(kbd, b)
  PROVE  /\ a.last = kbd.last
         /\ b = Reset => a.leds = 0 /\ a.want = "cmd" /\ a.ans = <<Ack, BatOk>> /\ a.set = 2 /\ a.keys = <<>>
         /\ b # Reset => a.leds = kbd.leds /\ a.set = kbd.set /\ a.keys = kbd.keys
         /\ b = SetLeds => a.want = "leds" /\ a.ans = <<Ack>>
         /\ b = ScanSet => a.want = "set" /\ a.ans = <<Ack>>
         /\ b \notin {SetLeds, ScanSet, Reset} => a.want = "cmd" /\ (a.ans = <<Resend>> \/ a.ans = <<kbd.last>>)
         /\ b \notin {SetLeds, ScanSet, Reset, Resend} => a.ans = <<Resend>>
  BY DEF KbdType, Answered, SetLeds, ScanSet, Reset, Resend

LEMMA AnswerType ==
  ASSUME KbdType, NEW b \in Int, NEW a, a = Answered(kbd, b)
  PROVE  /\ a.set \in Int /\ a.last \in Int /\ a.ans \in Seq(Int) /\ a.keys \in Seq(Keys)
         /\ a.want \in {"cmd", "leds", "set"}
<1>0. <<>> \in Seq(Keys) /\ \A x, y \in Int : <<x>> \in Seq(Int) /\ <<x, y>> \in Seq(Int)
  OBVIOUS
<1>a. Ack \in Int /\ Resend \in Int /\ BatOk \in Int
  BY DEF Ack, Resend, BatOk
<1>1. CASE kbd.want = "leds"
  BY <1>0, <1>a, <1>1, AnswersLeds DEF KbdType
<1>2. CASE kbd.want = "set"
  <2>1. a.want = "cmd" /\ a.keys = kbd.keys /\ a.last = kbd.last
    BY <1>2, AnswersSet
  <2>2. a.set \in {b, kbd.set} /\ a.ans \in {<<Ack, kbd.set>>, <<Ack>>, <<Resend>>}
    BY <1>2, AnswersSet
  <2> QED
    BY <1>0, <1>a, <2>1, <2>2 DEF KbdType
<1>3. CASE kbd.want = "cmd"
  <2>1. a.last = kbd.last /\ a.want \in {"cmd", "leds", "set"}
    BY <1>3, AnswersCommand
  <2>2. a.set \in {2, kbd.set} /\ a.ans \in {<<Ack>>, <<Ack, BatOk>>, <<Resend>>, <<kbd.last>>}
    BY <1>3, AnswersCommand
  <2>3. a.keys \in {<<>>, kbd.keys}
    BY <1>3, AnswersCommand
  <2>4. a.ans \in Seq(Int)
    BY <1>0, <1>a, <2>2 DEF KbdType
  <2>5. /\ a.keys \in Seq(Keys)
        /\ a.set \in Int
        /\ a.last \in Int
    <3>1. <<>> \in Seq(Keys) /\ kbd.keys \in Seq(Keys)
      BY DEF KbdType
    <3>2. a.keys \in Seq(Keys)
      BY <2>3, <3>1, Zenon
    <3>3. kbd.set \in Int /\ kbd.last \in Int
      BY DEF KbdType
    <3>4. a.set \in Int
      BY <2>2, <3>3
    <3>5. a.last \in Int
      BY <2>1, <3>3
    <3> QED
      BY <3>2, <3>4, <3>5
  <2> QED
    BY <2>1, <2>4, <2>5
<1> QED
  BY <1>1, <1>2, <1>3 DEF KbdType

\* Translation neither makes an acknowledgement nor hides one.
LEMMA TranslateAck ==
  ASSUME NEW b \in Int
  PROVE  Translate(b) \in Int /\ (Translate(b) = Ack <=> b = Ack)
  BY DEF Translate, Ack, CapsKey

LEMMA ConfigByteRange == ConfigByte \in 0..81
  BY DEF ConfigByte
-----------------------------------------------------------------------------
(* What a step of a chip does to the ports.                                *)

\* The 8042 takes a command, takes its configuration, and answers.
LEMMA TakesCmd ==
  ASSUME Types, Takes("cmd"), Controller
  PROVE  /\ ib' = <<>> /\ ob' = ob /\ kbd' = kbd /\ DOMAIN ctl' = DOMAIN ctl
         /\ ctl'.xlat = ctl.xlat /\ ctl'.irq = ctl.irq
         /\ ctl'.out \in {Empty, TestOk} \cup 0..81
         /\ ib[2] = 96 => ctl' = [ctl EXCEPT !.cfg = TRUE]
         /\ ib[2] # 96 => ctl'.cfg = ctl.cfg
         /\ ib[2] = 170 => ctl'.out = TestOk /\ ctl'.off = ctl.off
         /\ ib[2] = 32 => ctl'.out = ConfigByte /\ ctl'.off = ctl.off
         /\ ib[2] \notin {170, 32} => ctl'.out = Empty
         /\ ib[2] \notin {170, 32, 96} => ctl'.off = (ib[2] = 173)
<1>1. ctl.out = Empty /\ ib # <<>> /\ ib[1] = "cmd" /\ ib' = <<>> /\ UNCHANGED kbd
  BY DEF Controller, Takes
<1>2. SetOutput(ob, CASE ib[2] = 170 -> [ctl EXCEPT !.out = TestOk]
                      [] ib[2] = 32  -> [ctl EXCEPT !.out = ConfigByte]
                      [] ib[2] = 96  -> [ctl EXCEPT !.cfg = TRUE]
                      [] OTHER       -> [ctl EXCEPT !.off = (ib[2] = 173)])
  BY <1>1 DEF Controller, Takes
<1>3. ob' = ob /\ ctl' = CASE ib[2] = 170 -> [ctl EXCEPT !.out = TestOk]
                      [] ib[2] = 32  -> [ctl EXCEPT !.out = ConfigByte]
                      [] ib[2] = 96  -> [ctl EXCEPT !.cfg = TRUE]
                      [] OTHER       -> [ctl EXCEPT !.off = (ib[2] = 173)]
  BY <1>2 DEF SetOutput
<1>4. CASE ib[2] = 170
  BY <1>1, <1>3, <1>4 DEF Types, CtlType, TestOk
<1>5. CASE ib[2] = 32
  BY <1>1, <1>3, <1>5, ConfigByteRange DEF Types, CtlType
<1>6. CASE ib[2] = 96
  BY <1>1, <1>3, <1>6 DEF Types, CtlType
<1>7. CASE ib[2] \notin {170, 32, 96}
  BY <1>1, <1>3, <1>7 DEF Types, CtlType
<1> QED
  BY <1>4, <1>5, <1>6, <1>7

LEMMA TakesConfig ==
  ASSUME Types, Takes("data"), Controller
  PROVE  /\ ctl.cfg /\ ib' = <<>> /\ ob' = ob /\ kbd' = kbd
         /\ ctl' = [irq |-> Bit(ib[2], 1), off |-> Bit(ib[2], 16),
                    xlat |-> Bit(ib[2], 64), cfg |-> FALSE, out |-> Empty]
  BY DEF Controller, Takes, SetOutput

LEMMA ControllerAnswers ==
  ASSUME Types, Controller, ~Takes("cmd"), ~Takes("data")
  PROVE  /\ ib' = ib /\ ob = Empty /\ ctl.out # Empty /\ ob' = ctl.out /\ kbd' = kbd
         /\ ctl' = [ctl EXCEPT !.out = Empty] /\ ob' # Ack
<1>1. ob = Empty /\ ctl.out # Empty /\ ib' = ib /\ kbd' = kbd /\ SetOutput(ctl.out, [ctl EXCEPT !.out = Empty])
  BY DEF Controller
<1> QED
  BY <1>1 DEF SetOutput, Types, CtlType, Ack, TestOk, Empty
LEMMA HeadOfBoth ==
  ASSUME NEW s \in Seq(Int), NEW t \in Seq(Int), s # <<>>
  PROVE  Head(s \o t) = s[1] /\ s[1] \in Int
<1>1. Len(s) \in Nat /\ Len(t) \in Nat /\ Len(s) # 0
  OBVIOUS
<1>2. (s \o t)[1] = s[1] /\ s \o t \in Seq(Int) /\ s \o t # <<>>
  BY <1>1
<1> QED
  BY <1>1, <1>2

LEMMA Sending ==
  ASSUME Types, KeyboardSends
  PROVE  /\ ob = Empty /\ ctl.out = Empty /\ ctl' = ctl /\ ib' = ib
         /\ \/ /\ kbd.ans # <<>> /\ ob' = Translate(kbd.ans[1])
               /\ kbd'.ans = Tail(kbd.ans) /\ kbd'.keys = kbd.keys
            \/ /\ kbd.ans = <<>> /\ kbd'.ans = <<>> /\ kbd.keys # <<>>
               /\ ob' \in {3, 50, 30, 58, 28, 88} /\ kbd'.keys = Tail(kbd.keys)
         /\ DOMAIN kbd' = DOMAIN kbd /\ kbd'.last \in Int
         /\ kbd'.want = kbd.want /\ kbd'.leds = kbd.leds /\ kbd'.set = kbd.set
         /\ kbd'.alive = kbd.alive
<1> DEFINE all == kbd.ans \o kbd.keys
           b == Head(all)
           k == [IF kbd.ans # <<>> THEN [kbd EXCEPT !.ans = Tail(@)]
                                   ELSE [kbd EXCEPT !.keys = Tail(@)]
                 EXCEPT !.last = IF b = Resend THEN @ ELSE b]
<1>1. /\ ob = Empty /\ ctl.out = Empty /\ all # <<>> /\ SetOutput(Translate(b), ctl)
      /\ kbd' = k /\ ib' = ib
  BY DEF KeyboardSends
<1>2. ob' = Translate(b) /\ ctl' = ctl
  BY <1>1 DEF SetOutput
<1>3. kbd.ans \in Seq(Int) /\ kbd.keys \in Seq(Keys) /\ kbd.keys \in Seq(Int)
  BY DEF Types, KbdType, Keys, CapsKey
<1>4. kbd.ans # <<>> => b = kbd.ans[1] /\ b \in Int
  BY <1>3, HeadOfBoth
<1>5. kbd.ans = <<>> => kbd.keys # <<>> /\ b = kbd.keys[1] /\ b \in Keys
  BY <1>1, <1>3
<1>6. /\ DOMAIN k = DOMAIN kbd /\ k.want = kbd.want /\ k.leds = kbd.leds /\ k.set = kbd.set
      /\ k.alive = kbd.alive
      /\ kbd.ans # <<>> => k.ans = Tail(kbd.ans) /\ k.keys = kbd.keys
      /\ kbd.ans = <<>> => k.ans = <<>> /\ k.keys = Tail(kbd.keys)
      /\ k.last \in {kbd.last, b}
  <2> HIDE DEF b, all
  <2> QED
    BY DEF Types, KbdType
<1>7. b \in Keys => Translate(b) \in {3, 50, 30, 58, 28, 88}
  <2> HIDE DEF b
  <2> QED
    BY DEF Translate, Keys, CapsKey
<1>8. b \in Int
  <2>1. Keys \subseteq Int
    BY DEF Keys, CapsKey
  <2> QED
    BY <1>4, <1>5, <2>1
<1>9. k.last \in Int
  BY <1>6, <1>8 DEF Types, KbdType
<1> HIDE DEF b, all, k
<1> QED
  BY <1>1, <1>2, <1>4, <1>5, <1>6, <1>7, <1>9

LEMMA Taking ==
  ASSUME Types, KeyboardTakes
  PROVE  /\ ib' = <<>> /\ ob' = ob /\ ctl' = [ctl EXCEPT !.off = FALSE]
         /\ ctl.out = Empty /\ ~ctl.cfg
         /\ ib[2] \in Int /\ ib = Byte(ib[2])
         /\ kbd' = IF kbd.alive THEN Answered(kbd, ib[2]) ELSE kbd
<1>1. /\ ib # <<>> /\ ib[1] = "data" /\ ctl.out = Empty /\ ib' = <<>> /\ ~ctl.cfg
      /\ SetOutput(ob, [ctl EXCEPT !.off = FALSE])
      /\ kbd' = IF kbd.alive THEN Answered(kbd, ib[2]) ELSE kbd
  BY DEF KeyboardTakes, Takes
<1>2. ib[2] \in Int /\ ib = Byte(ib[2])
  BY <1>1 DEF Types, PortType, Byte
<1> QED
  BY <1>1, <1>2 DEF SetOutput
-----------------------------------------------------------------------------
(* What a step of main does to its place in the script.                    *)

LEMMA ConfigInt ==
  ASSUME NEW v \in Int
  PROVE  Config(v) \in Int
  BY DEF Config, With, Without

\* No byte main reads takes it past the registration of the handler.
LEMMA TargetSteps ==
  ASSUME Types, pc \in ReadSteps, NEW v
  PROVE  Target(v) \in 1..RegisterStep \cup {Failed} /\ Target(v) # RegisterStep
  BY ScriptOps DEF Types, MainType, Target, After, SetOneStep, SetTwoEnd, RegisterStep, ResetStep, ReadSteps

\* What main makes of a byte: it goes on, or it sends in the same transaction what it read.
LEMMA Using ==
  ASSUME Types, ph = "recv", NEW v \in Int, Use(v)
  PROVE  /\ pc \in TxSteps \cup ReadSteps
         /\ \/ pc \in TxSteps /\ Enter(pc + 1, 0)
            \/ pc \in TxSteps /\ v # Ack /\ ph' = "send" /\ data' = v /\ pc' = pc
            \/ pc \in ReadSteps /\ Enter(Target(v), Config(v))
         /\ pc \in TxSteps /\ v = Ack => Enter(pc + 1, 0)
<1>1. pc \in TxSteps \cup ReadSteps /\ pc \in 1..Failed
  BY DEF Types, MainType
<1>2. pc \in TxSteps => After = pc + 1
  BY DEF After, TxSteps, SetTwoEnd
<1> QED
  BY <1>1, <1>2, OpOfStep DEF Use, NextTx, TxSteps, ReadSteps

LEMMA Entered ==
  ASSUME NEW i \in 1..Failed, NEW byte \in Int, Enter(i, byte), UNCHANGED <<mode, late>>, Types,
         mode = "prot"
  PROVE  MainType'
  BY Enters DEF MainType, Types

-----------------------------------------------------------------------------
(* Types is an invariant.                                                  *)

LEMMA InitTypes == Init => Types
<1> SUFFICES ASSUME Init PROVE Types
  OBVIOUS
<1>1. KbdType
  BY DEF Init, KbdType, BatOk
<1>2. CtlType
  BY DEF Init, CtlType
<1>3. PortType
  BY PowerOnAssumption DEF Init, PortType
<1>4. MainType
  BY ScriptOps DEF Init, MainType, TxSteps, SendSteps, ReadSteps
<1>5. ServiceType
  <2>1. caps \in BOOLEAN
    BY Zenon DEF Init
  <2>2. pc =< RegisterStep /\ ~served /\ sv = "idle" /\ sdata = 0
    BY DEF Init, RegisterStep
  <2> QED
    BY <2>1, <2>2, pc \in Int DEF ServiceType, ServicePhases, RegisterStep, Init
<1> QED
  BY <1>1, <1>2, <1>3, <1>4, <1>5 DEF Types

\* What the chips leave alone.
ChipKeeps == UNCHANGED <<pc, ph, data, mode, late, sv, sdata, caps, served>>
LEMMA ChipTypes ==
  ASSUME Types, ChipKeeps
  PROVE  MainType' /\ ServiceType'
<1>1. MainType'
  BY DEF Types, MainType, ChipKeeps
<1>2. ServiceType'
  BY DEF Types, ServiceType, ChipKeeps
<1> QED
  BY <1>1, <1>2

LEMMA NextTypes == Types /\ [Next]_vars => Types'
<1> SUFFICES ASSUME Types, [Next]_vars PROVE Types'
  OBVIOUS
<1>t. KbdType /\ CtlType /\ PortType /\ MainType /\ ServiceType
  BY DEF Types
<1>1. CASE Controller
  <2>1. kbd' = kbd /\ ChipKeeps
    BY <1>1 DEF Controller, ChipKeeps, main, service, hist
  <2>2. KbdType'
    BY <1>t, <2>1 DEF KbdType
  <2>3. PortType' /\ CtlType'
    <3>1. CASE Takes("cmd")
      BY <1>t, <1>1, <3>1, TakesCmd DEF PortType, CtlType
    <3>2. CASE Takes("data")
      BY <1>t, <1>1, <3>2, TakesConfig DEF PortType, CtlType
    <3>3. CASE ~Takes("cmd") /\ ~Takes("data")
      <4>1. ib' = ib /\ ob' = ctl.out /\ ctl' = [ctl EXCEPT !.out = Empty]
        BY <1>1, <3>3, ControllerAnswers
      <4>2. ctl.out \in Int
        BY <1>t DEF CtlType, Empty, TestOk
      <4> QED
        BY <1>t, <4>1, <4>2 DEF PortType, CtlType
    <3> QED
      BY <3>1, <3>2, <3>3
  <2> QED
    BY <2>1, <2>2, <2>3, ChipTypes DEF Types
<1>2. CASE KeyboardTakes
  <2>1. ChipKeeps
    BY <1>2 DEF KeyboardTakes, ChipKeeps, main, service, hist
  <2>2. PortType' /\ CtlType'
    BY <1>t, <1>2, Taking DEF PortType, CtlType
  <2>3. CASE ~kbd.alive
    <3>1. kbd' = kbd
      BY <1>2, <2>3, Taking
    <3> QED
      BY <1>t, <2>1, <2>2, <3>1, ChipTypes DEF Types, KbdType
  <2>4. CASE kbd.alive
    <3>1. kbd' = Answered(kbd, ib[2]) /\ ib[2] \in Int
      BY <1>2, <2>4, Taking
    <3>2. KbdType'
      BY <1>t, <3>1, AnswerFields, AnswerType DEF KbdType
    <3> QED
      BY <2>1, <2>2, <3>2, ChipTypes DEF Types
  <2> QED
    BY <2>3, <2>4
<1>3. CASE KeyboardSends
  <2>1. ChipKeeps
    BY <1>3 DEF KeyboardSends, ChipKeeps, main, service, hist
  <2>2. ob' \in Int /\ ib' = ib /\ ctl' = ctl
    <3>1. kbd.ans # <<>> => kbd.ans[1] \in Int
      BY <1>t DEF KbdType
    <3>2. kbd.ans # <<>> => Translate(kbd.ans[1]) \in Int
      BY <3>1, TranslateAck
    <3> QED
      BY <1>3, <3>2, Sending
  <2>3. PortType' /\ CtlType'
    BY <1>t, <2>2 DEF PortType, CtlType
  <2>4. KbdType'
    <3>1. /\ kbd.ans \in Seq(Int) /\ kbd.keys \in Seq(Keys)
      BY <1>t DEF KbdType
    <3>2. kbd'.ans \in Seq(Int) /\ kbd'.keys \in Seq(Keys)
      <4>1. CASE kbd.ans # <<>>
        <5>1. kbd'.ans = Tail(kbd.ans) /\ kbd'.keys = kbd.keys
          BY <1>3, <4>1, Sending
        <5> QED
          BY <3>1, <4>1, <5>1
      <4>2. CASE kbd.ans = <<>>
        <5>1. kbd'.ans = <<>> /\ kbd'.keys = Tail(kbd.keys) /\ kbd.keys # <<>>
          BY <1>3, <4>2, Sending
        <5> QED
          BY <3>1, <5>1
      <4> QED
        BY <4>1, <4>2
    <3>3. /\ DOMAIN kbd' = DOMAIN kbd /\ kbd'.last \in Int
          /\ kbd'.want = kbd.want /\ kbd'.set = kbd.set
      BY <1>3, Sending
    <3> QED
      BY <1>t, <3>2, <3>3 DEF KbdType
  <2> QED
    BY <2>1, <2>3, <2>4, ChipTypes DEF Types
<1>4. CASE KeyPress
  <2>1. ChipKeeps /\ UNCHANGED <<ib, ob, ctl>>
    BY <1>4 DEF KeyPress, ChipKeeps, main, service, line
  <2>2. PICK c \in Keys : kbd' = [kbd EXCEPT !.keys = Append(@, c)]
    BY <1>4 DEF KeyPress, Keys
  <2>3. KbdType'
    BY <1>t, <2>2 DEF KbdType
  <2> QED
    BY <1>t, <2>1, <2>3, ChipTypes DEF Types, PortType, CtlType
<1>5. CASE Unplug
  <2>1. ChipKeeps /\ UNCHANGED <<ib, ob, ctl>>
    BY <1>5 DEF Unplug, ChipKeeps, main, service, line, hist
  <2>2. KbdType'
    BY <1>t, <1>5 DEF KbdType, Unplug
  <2> QED
    BY <1>t, <2>1, <2>2, ChipTypes DEF Types, PortType, CtlType
<1>6. CASE ControllerCmd
  <2>1. /\ ib' = <<"cmd", Script[pc].byte>> /\ Enter(pc + 1, data) /\ mode = "prot" /\ sv = "idle" /\ pc \in CmdSteps
        /\ UNCHANGED <<kbd, ob, ctl, mode, late, sv, sdata, caps, served>>
    BY <1>t, <1>6, OpOfStep DEF ControllerCmd, MainRuns, MainType, line, service, hist
  <2>2. pc + 1 \in 1..Failed /\ data \in Int /\ pc < RegisterStep
    BY <1>t, <2>1, ScriptOps DEF CmdSteps, MainType, RegisterStep
  <2>3. MainType' /\ pc' = pc + 1
    BY <2>1, <2>2, Entered, Enters
  <2>4. ServiceType'
    <3>1. pc \in Int /\ pc' = pc + 1
      BY <1>t, <2>3 DEF MainType
    <3> QED
      BY <1>t, <2>1, <2>2, <3>1 DEF ServiceType, RegisterStep
  <2>5. PortType'
    <3>1. Script[pc].byte \in Int
      BY <2>1, ScriptOps DEF CmdSteps
    <3> QED
      BY <1>t, <2>1, <3>1 DEF PortType
  <2> QED
    BY <1>t, <2>1, <2>3, <2>4, <2>5 DEF Types, KbdType, CtlType
<1>7. CASE MainSends
  <2>1. /\ UNCHANGED <<kbd, ob, ctl, mode, sv, sdata, caps, served>> /\ ib' \in {ib, Byte(data)}
        /\ mode = "prot" /\ sv = "idle" /\ ph = "send"
    BY <1>7 DEF MainSends, line, service, Byte, MainRuns
  <2>2. late' \in 0..2
    BY <1>t, <1>7 DEF MainSends, GaveUp, MainType
  <2>3. PortType'
    BY <1>t, <2>1 DEF PortType, MainType
  <2>4. CASE pc \in SendSteps
    <3>1. Enter(After, 0) /\ After \in 1..RegisterStep
      <4>1. Op = "send" /\ pc \in 1..Failed
        BY <1>t, <2>4, OpOfStep DEF MainType
      <4> QED
        BY <1>7, <2>4, <4>1 DEF MainSends, After, SendSteps, SetTwoEnd, RegisterStep
    <3>2. After \in 1..Failed /\ 0 \in Int
      BY <3>1, ScriptOps DEF RegisterStep
    <3>3. MainType'
      BY <1>t, <2>1, <2>2, <3>1, <3>2, Enters DEF MainType
    <3>4. ServiceType'
      BY <1>t, <2>1, <2>4, <3>1, <3>2, Enters DEF ServiceType, SendSteps, RegisterStep
    <3> QED
      BY <1>t, <2>1, <2>3, <3>3, <3>4 DEF Types, KbdType, CtlType
  <2>5. CASE pc \notin SendSteps
    <3>1. ph' = "recv" /\ UNCHANGED <<pc, data>> /\ pc \in TxSteps
      BY <1>t, <1>7, <2>1, <2>5, OpOfStep DEF MainSends, MainType
    <3>2. MainType'
      BY <1>t, <2>1, <2>2, <3>1 DEF MainType, TxSteps, SendSteps, ReadSteps
    <3> QED
      BY <1>t, <2>1, <2>3, <3>1, <3>2 DEF Types, KbdType, CtlType, ServiceType
  <2> QED
    BY <2>4, <2>5
<1>8. CASE MainReads
  <2>1. /\ UNCHANGED <<kbd, ib, mode, sv, sdata, caps, served>>
        /\ mode = "prot" /\ sv = "idle" /\ ph = "recv" /\ ctl' = ctl /\ ob' \in {Empty, ob}
    BY <1>8 DEF MainReads, service, MainRuns, SetOutput
  <2>2. PICK v \in {0, ob} : Use(v)
    BY <1>8 DEF MainReads
  <2>3. late' \in 0..2
    BY <1>t, <1>8 DEF MainReads, GaveUp, MainType
  <2>4. PortType' /\ v \in Int
    BY <1>t, <2>1 DEF PortType, Empty
  <2>5. CASE pc \in TxSteps /\ pc' = pc
    <3>1. ph' = "send" /\ data' = v
      <4>1. ~Enter(pc + 1, 0) /\ pc \notin ReadSteps
        BY <1>t, <2>5 DEF Enter, TxSteps, ReadSteps
      <4> QED
        BY <2>1, <2>2, <2>4, <4>1, Using
    <3>2. MainType' /\ ServiceType'
      BY <1>t, <2>1, <2>3, <2>4, <2>5, <3>1 DEF MainType, ServiceType, TxSteps, SendSteps, ReadSteps
    <3> QED
      BY <1>t, <2>1, <2>4, <3>2 DEF Types, KbdType, CtlType
  <2>6. CASE ~(pc \in TxSteps /\ pc' = pc)
    <3>1. PICK i \in 1..Failed, byte \in Int : Enter(i, byte) /\ (i < Failed => pc < Failed /\ (i > RegisterStep <=> pc > RegisterStep))
      <4>1. CASE pc \in TxSteps
        <5>1. Enter(pc + 1, 0)
          BY <2>1, <2>2, <2>4, <2>6, <4>1, Using DEF TxSteps, ReadSteps
        <5>2. pc + 1 \in 1..Failed /\ (pc + 1 > RegisterStep <=> pc > RegisterStep) /\ pc < Failed
          BY <4>1, ScriptOps DEF TxSteps, RegisterStep
        <5> QED
          BY <5>1, <5>2
      <4>2. CASE pc \notin TxSteps
        <5>1. Enter(Target(v), Config(v)) /\ pc \in ReadSteps
          BY <2>1, <2>2, <2>4, <4>2, Using
        <5>2. Target(v) \in 1..RegisterStep \cup {Failed} /\ Config(v) \in Int
          BY <5>1, <2>4, TargetSteps, ConfigInt
        <5> QED
          BY <5>1, <5>2, ScriptOps DEF RegisterStep, ReadSteps
      <4> QED
        BY <4>1, <4>2
    <3>2. MainType' /\ pc' = i
      BY <1>t, <2>1, <2>3, <3>1, Enters DEF MainType
    <3>3. ServiceType'
      <4>1. pc \in Int /\ i \in Int /\ Done = 32 /\ Failed = 33
        BY <1>t, ScriptOps DEF MainType
      <4>2. i =< Done => (pc > RegisterStep <=> i > RegisterStep) /\ pc =< Done
        BY <3>1, <4>1
      <4> QED
        BY <1>t, <2>1, <3>2, <4>1, <4>2 DEF ServiceType, RegisterStep
    <3> QED
      BY <1>t, <2>1, <2>4, <3>2, <3>3 DEF Types, KbdType, CtlType
  <2> QED
    BY <2>5, <2>6
<1>9. CASE RegisterHandler
  <2>1. /\ UNCHANGED <<kbd, ib, ob, ctl, mode, sv, sdata, caps, late>> /\ served' = TRUE
        /\ mode = "prot" /\ sv = "idle" /\ pc = 28 /\ Enter(pc + 1, 0)
    BY <1>9, <1>t, OpOfStep DEF RegisterHandler, service, MainRuns, device, hist, MainType
  <2>2. 29 \in 1..Failed /\ 0 \in Int /\ Enter(29, 0)
    BY <2>1, ScriptOps
  <2>3. MainType' /\ pc' = 29
    BY <2>1, <2>2, Entered, Enters
  <2>4. ServiceType'
    BY <1>t, <2>1, <2>3 DEF ServiceType, RegisterStep
  <2> QED
    BY <1>t, <2>1, <2>3, <2>4 DEF Types, KbdType, CtlType, PortType
<1>10. CASE ClearFlags
  <2>1. /\ UNCHANGED <<kbd, ib, ob, ctl, mode, sv, sdata, late, served>> /\ caps' = FALSE
        /\ mode = "prot" /\ sv = "idle" /\ pc = 31 /\ Enter(Done, 0)
    BY <1>10, <1>t, OpOfStep DEF ClearFlags, MainRuns, device, line, MainType
  <2>2. Done \in 1..Failed /\ 0 \in Int
    BY ScriptOps
  <2>3. MainType' /\ pc' = Done
    BY <2>1, <2>2, Entered, Enters
  <2>4. ServiceType'
    <3>1. served /\ Done = 32
      BY <1>t, <2>1, ScriptOps DEF ServiceType, RegisterStep
    <3> QED
      BY <1>t, <2>1, <2>3, <3>1, caps' \in BOOLEAN DEF ServiceType, RegisterStep
  <2> QED
    BY <1>t, <2>1, <2>3, <2>4 DEF Types, KbdType, CtlType, PortType
<1>11. CASE Tick \/ TickBetween
  <2>1. ChipKeeps /\ UNCHANGED <<kbd, ib, ob, ctl>>
    BY <1>11 DEF Tick, TickBetween, ChipKeeps, device, service, line, hist
  <2> QED
    BY <1>t, <2>1, ChipTypes DEF Types, KbdType, PortType, CtlType
<1>12. CASE StartGuest
  <2>1. /\ UNCHANGED <<kbd, ib, ob, ctl, pc, ph, data, late, sv, sdata, caps, served>>
        /\ mode' = "real" /\ pc \in {Done, Failed}
    BY <1>12 DEF StartGuest, device, main, service, hist
  <2>2. MainType' /\ ServiceType'
    BY <1>t, <2>1 DEF MainType, ServiceType
  <2> QED
    BY <1>t, <2>1, <2>2 DEF Types, KbdType, PortType, CtlType
<1>13. CASE Irq1 \/ Poll
  <2>1. /\ UNCHANGED <<kbd, ib, ob, ctl, pc, ph, data, late, sdata, caps, served, mode>>
        /\ sv' \in {sv, "key"} /\ (sv' # sv => served \/ mode = "real")
    BY <1>13 DEF Irq1, Poll, device, main, hist, line
  <2>2. MainType' /\ ServiceType'
    BY <1>t, <2>1, ScriptOps DEF MainType, ServiceType, ServicePhases, RegisterStep
  <2> QED
    BY <1>t, <2>1, <2>2 DEF Types, KbdType, PortType, CtlType
<1>14. CASE ServiceKey \/ ServiceReads
  <2>1. /\ UNCHANGED <<kbd, ib, pc, ph, data, late, served, mode>> /\ ob' = Empty /\ ctl' = ctl /\ sv # "idle"
        /\ sv' \in ServicePhases /\ sdata' \in {SetLeds, Leds, 0, sdata, ob} /\ caps' \in BOOLEAN
    BY <1>t, <1>14 DEF ServiceKey, ServiceReads, main, hist, SetOutput, ServicePhases, ServiceType
  <2>2. sdata' \in Int
    BY <1>t, <2>1 DEF SetLeds, Leds, PortType, ServiceType
  <2>3. MainType' /\ ServiceType'
    BY <1>t, <2>1, <2>2 DEF MainType, ServiceType
  <2> QED
    BY <1>t, <2>1, <2>3 DEF Types, KbdType, PortType, CtlType, Empty
<1>15. CASE ServiceSends
  <2>1. /\ UNCHANGED <<kbd, ob, ctl, pc, ph, data, late, served, mode, sdata, caps>>
        /\ ib' = Byte(sdata) /\ sv # "idle" /\ sv' \in ServicePhases
    BY <1>15 DEF ServiceSends, main, hist, line, ServicePhases, Byte
  <2>2. MainType' /\ ServiceType' /\ PortType'
    BY <1>t, <2>1 DEF MainType, ServiceType, PortType
  <2> QED
    BY <1>t, <2>1, <2>2 DEF Types, KbdType, CtlType
<1>16. CASE UNCHANGED vars
  <2>1. ChipKeeps /\ UNCHANGED <<kbd, ib, ob, ctl>>
    BY <1>16 DEF vars, ChipKeeps, device, line, main, service, hist
  <2> QED
    BY <1>t, <2>1, ChipTypes DEF Types, KbdType, PortType, CtlType
<1> QED
  BY <1>1, <1>2, <1>3, <1>4, <1>5, <1>6, <1>7, <1>8, <1>9, <1>10, <1>11, <1>12, <1>13, <1>14, <1>15, <1>16
     DEF Next, MainStep, ServiceStep
-----------------------------------------------------------------------------
(* Aligned: the keyboard and the two programs agree where they are in the   *)
(* dialogue.  It has to say, at every step of keyboard_init and of the      *)
(* handler, what the keyboard takes the next byte for, what is on its way,  *)
(* and how many acknowledgements have been neither read nor forgotten; for  *)
(* a byte sent one step early would be taken for a command, or for LEDs.    *)

\* What the keyboard takes a byte of step i for.
WantAt(i) == IF i \in {5, 30} THEN "leds" ELSE IF i \in {14, 16, 19} THEN "set" ELSE "cmd"

\* Acknowledgements on their way: the one in the output buffer, the one to come.
Acks == (IF ob = Ack THEN 1 ELSE 0)
        + (IF kbd.ans # <<>> /\ kbd.ans[1] = Ack THEN 1 ELSE 0)
AnswerShape ==
  /\ Len(kbd.ans) =< 2 /\ (Len(kbd.ans) = 2 => kbd.ans[2] # Ack)
  /\ kbd.set \in {1, 2}
\* What is in the input buffer, and what the keyboard takes the next byte for.
At(in, w) == ib = in /\ kbd.want = w
DataWaits == ib # <<>> /\ ib[1] = "data"

\* Until the handler is registered only main talks: a transaction has its byte on
\* the way, or its acknowledgement, or (the byte was swallowed as configuration)
\* nothing at all, and then its wait gives up.
BeforeHandler ==
  /\ IF ph = "recv" /\ pc \in TxSteps
     THEN \/ Acks = 0 /\ (DataWaits => ctl.cfg)
          \/ Acks = 0 /\ At(Byte(Script[pc].byte), WantAt(pc)) /\ ~ctl.cfg
          \/ Acks = 1 /\ At(<<>>, WantAt(pc + 1))
     ELSE Acks = 0 /\ kbd.want = WantAt(pc) /\ (DataWaits => ctl.cfg)
  /\ pc \in TxSteps /\ ph = "send" => data = Script[pc].byte
  /\ pc \in SendSteps => ib = <<"cmd", 96>> \/ (ib = <<>> /\ ctl.cfg)
  /\ pc = RegisterStep => IF ctl.cfg THEN DataWaits ELSE ib = <<>>

\* From then on a lock key may start an exchange between any two steps of main.
\* InStep: main waits for `owed' acknowledgements and the handler for its own;
\* each byte on the way is one of the dialogue, taken for what it is.
Outstanding == Acks + (IF ib = <<>> THEN 0 ELSE 1)
Between == sv \in {"idle", "key", "sendCmd"}
InStep(owed) ==
  /\ sv \in {"recvCmd", "sendLeds"} => At(Byte(SetLeds), "cmd") \/ At(<<>>, "leds")
  /\ sv = "recvLeds" => \/ At(Byte(Leds), "leds")
                        \/ At(<<>>, "cmd") /\ kbd.leds = Leds
  /\ Between => At(<<>>, "cmd") \/ \E x \in {0, 4} : At(Byte(x), "leds")
  /\ Outstanding =< IF sv \in {"recvCmd", "recvLeds"} THEN owed + 1 ELSE owed
\* The LEDs show v, or are about to.
Shown(v) == sv \in {"idle", "key"} => IF ib = <<>> THEN kbd.leds = v ELSE ib[2] = v
\* What they show once main has put them out: what the last lock key after that
\* made of them; and when main has cleared the flags.
LitBefore == IF stale THEN Leds ELSE 0
LitAfter == IF caps \/ stale THEN 4 ELSE 0
\* main has sent SetLeds and waits for the acknowledgement, which the handler's
\* exchange may take from it: the byte of one may be taken for that of the other.
Asking ==
  /\ sv = "recvCmd" =>
       \/ Acks =< 1 /\ (At(<<>>, "leds") \/ At(Byte(SetLeds), "leds"))
       \/ At(<<>>, "cmd")
       \/ Acks = 0 /\ At(Byte(SetLeds), "cmd")
  /\ sv = "sendLeds" =>
       \/ Acks =< 1 /\ At(<<>>, "cmd")
       \/ Acks = 0 /\ (At(<<>>, "leds") \/ At(Byte(SetLeds), "leds"))
  /\ sv = "recvLeds" =>
       \/ Acks =< 1 /\ (At(<<>>, "cmd") \/ At(Byte(Leds), "cmd"))
       \/ Acks = 0 /\ At(Byte(Leds), "leds")
  /\ Between =>
       \/ Acks =< 1 /\ At(<<>>, "leds")
       \/ Acks = 0 /\ \E in \in {<<>>, Byte(SetLeds), Byte(0), Byte(4)} : At(in, "cmd")
\* main has its acknowledgement and is about to send the LEDs.
Telling ==
  /\ sv = "recvCmd" => \/ Acks = 0 /\ At(Byte(SetLeds), "leds")
                       \/ Acks =< 1 /\ At(<<>>, "cmd")
  /\ sv = "sendLeds" => Acks = 0 /\ At(<<>>, "cmd")
  /\ sv = "recvLeds" => Acks = 0 /\ (At(<<>>, "cmd") \/ At(Byte(Leds), "cmd"))
  /\ Between => Acks = 0 /\ At(<<>>, "leds")
\* The configuration is still in the input buffer, and main cannot send yet.
Configuring == pc = 29 /\ ph = "send" /\ ctl.cfg
\* The dialogue, from the registration of the handler to the end.
Dialogue ==
  /\ Configuring =>
       /\ Between /\ DataWaits /\ kbd.want = "cmd" /\ Acks = 0
  /\ pc = 29 /\ ph = "send" /\ ~ctl.cfg => InStep(0)
  /\ pc = 29 /\ ph = "recv" => Asking
  /\ pc = 30 /\ ph = "send" => Telling
  /\ pc = 30 /\ ph = "recv" => InStep(1) /\ Shown(LitBefore)
  /\ pc = 31 => InStep(0) /\ Shown(LitBefore)
  /\ pc = Done => InStep(0) /\ Shown(LitAfter)
WithHandler ==
  /\ sv = "sendCmd" => sdata = SetLeds
  /\ sv = "sendLeds" => sdata = Leds
  /\ ph = "send" => data = Script[pc].byte
  /\ ctl.cfg => Configuring
  /\ Dialogue
\* Nothing gave up, nothing was taken for something else.
Good == late = 0 /\ ~mixed /\ kbd.alive /\ pc # Failed
\* The inductive invariant for LedsFollowFlags.
Aligned == AnswerShape /\ IF pc =< RegisterStep THEN BeforeHandler ELSE WithHandler
\* When a lock key has come after main put the LEDs out: from then until main clears
\* the flags each exchange is one of these, and later none is.
WhenStale ==
  /\ stale \in BOOLEAN
  /\ stale => LedByteSent \/ pc = Done
  /\ LedByteSent /\ sv \notin {"idle", "key"} => stale
  /\ pc = Done /\ sv \notin {"idle", "key"} => ~stale
AInv == Types /\ (Good => Aligned /\ WhenStale)

-----------------------------------------------------------------------------
(* Counting acknowledgements.                                              *)

LEMMA AcksRange == ASSUME Types PROVE Acks \in 0..2
  BY DEF Acks

LEMMA ShortTail ==
  ASSUME NEW s \in Seq(Int), s # <<>>, Len(s) =< 2
  PROVE  /\ Len(Tail(s)) \in Int /\ Len(Tail(s)) =< 1
         /\ Tail(s) # <<>> => Len(s) = 2 /\ Tail(s)[1] = s[2]
<1>0. Len(s) \in Nat \ {0}
  BY EmptySeq
<1>a. \A n \in Nat \ {0} : n =< 2 => n = 1 \/ n = 2
  OBVIOUS
<1>1. Len(s) = 1 \/ Len(s) = 2
  BY <1>0, <1>a, Zenon
<1>2. Tail(s) \in Seq(Int) /\ Len(Tail(s)) = Len(s) - 1
  BY HeadTailProperties
<1>3. Tail(s) # <<>> => Len(s) = 2
  BY <1>1, <1>2, EmptySeq
<1>4. Len(s) = 2 => Tail(s)[1] = s[2]
  <2>1. \A i \in 1..Len(Tail(s)) : Tail(s)[i] = s[i + 1]
    BY HeadTailProperties
  <2>2. \A t : Len(t) = 1 /\ (\A i \in 1..Len(t) : t[i] = s[i + 1]) => t[1] = s[2]
    OBVIOUS
  <2>3. Len(s) = 2 => Len(Tail(s)) = 1
    BY <1>2
  <2> QED
    BY <2>1, <2>2, <2>3, Zenon
<1> QED
  BY <1>1, <1>2, <1>3, <1>4

\* A step of the dialogue moves an acknowledgement, takes it away or adds one.
LEMMA AcksSent ==
  ASSUME Types, AnswerShape, KeyboardSends
  PROVE  Acks' = Acks /\ AnswerShape'
<1>1. kbd.ans \in Seq(Int) /\ Len(kbd.ans) \in Nat /\ ob = Empty /\ Empty # Ack /\ Len(kbd.ans) =< 2
  BY Sending DEF Types, KbdType, Empty, Ack, AnswerShape
<1>2. kbd'.set \in {1, 2}
  BY Sending DEF AnswerShape
<1>3. CASE kbd.ans = <<>>
  <2>1. kbd'.ans = <<>> /\ ob' # Ack
    BY <1>3, Sending DEF Ack
  <2> QED
    BY <1>1, <1>2, <1>3, <2>1 DEF Acks, AnswerShape
<1>4. CASE kbd.ans # <<>>
  <2>1. kbd'.ans = Tail(kbd.ans) /\ ob' = Translate(kbd.ans[1]) /\ kbd.ans[1] \in Int
    BY <1>1, <1>4, Sending
  <2>2. ob' = Ack <=> kbd.ans[1] = Ack
    BY <2>1, TranslateAck
  <2>3. /\ Len(kbd'.ans) \in Int /\ Len(kbd'.ans) =< 1
        /\ kbd'.ans # <<>> => kbd'.ans[1] # Ack
    BY <1>1, <1>4, <2>1, ShortTail DEF AnswerShape
  <2>4. AnswerShape'
    BY <1>2, <2>3 DEF AnswerShape
  <2>5. Acks = IF kbd.ans[1] = Ack THEN 1 ELSE 0
    BY <1>1, <1>4 DEF Acks
  <2>6. Acks' = IF ob' = Ack THEN 1 ELSE 0
    BY <2>3 DEF Acks
  <2> QED
    BY <2>2, <2>4, <2>5, <2>6
<1> QED
  BY <1>3, <1>4

LEMMA AcksRead ==
  ASSUME Types, ob' = Empty, UNCHANGED kbd
  PROVE  /\ ob = Ack => Acks' = Acks - 1 /\ Acks > 0
         /\ ob # Ack => Acks' = Acks
  BY DEF Acks, Empty, Ack

\* The keyboard acknowledges a byte, or has it resent.
LEMMA AcksTaken ==
  ASSUME Types, AnswerShape, UNCHANGED ob
  PROVE  /\ \A x \in Int : kbd'.ans = <<Ack, x>> => 1 =< Acks' /\ Acks' =< Acks + 1
         /\ kbd'.ans = <<Ack>> => 1 =< Acks' /\ Acks' =< Acks + 1
         /\ kbd'.ans = <<Resend>> => Acks' =< Acks
  BY DEF Acks, Ack, Resend

LEMMA AcksKept ==
  ASSUME UNCHANGED ob, kbd'.ans = kbd.ans PROVE Acks' = Acks
  BY DEF Acks
-----------------------------------------------------------------------------
(* Good is never restored, and steps that do not touch the dialogue.        *)

\* The two histories of what went wrong are never forgotten.
LEMMA Remembered ==
  ASSUME [Next]_vars
  PROVE  (late' = late \/ GaveUp) /\ (mixed => mixed')
<1>1. late' = late \/ GaveUp
  BY Zenon DEF Next, MainStep, ServiceStep, vars, hist, Controller, KeyboardTakes, KeyboardSends,
       KeyPress, Unplug, ControllerCmd, MainSends, MainReads, RegisterHandler, ClearFlags, Tick,
       TickBetween, StartGuest, Irq1, Poll, ServiceKey, ServiceSends, ServiceReads
<1>2. \/ mixed' = mixed \/ mixed' = (mixed \/ ob # Ack)
      \/ mixed' = (mixed \/ (Op = "tx" /\ ob # Ack))
  BY Zenon DEF Next, MainStep, ServiceStep, vars, hist, Controller, KeyboardTakes,
       KeyboardSends, KeyPress, Unplug, ControllerCmd, MainSends, MainReads, GaveUp, RegisterHandler,
       ClearFlags, Tick, TickBetween, StartGuest, Irq1, Poll, ServiceKey, ServiceSends, ServiceReads
<1>3. mixed => mixed'
  BY <1>2, Zenon
<1> QED
  BY <1>1, <1>3

LEMMA AliveBefore ==
  ASSUME Types, [Next]_vars, ~kbd.alive
  PROVE  ~kbd'.alive
<1>1. CASE KeyboardTakes
  BY <1>1, Taking
<1>2. CASE KeyboardSends
  BY <1>2, Sending
<1>3. CASE KeyPress \/ Unplug
  BY <1>3 DEF KeyPress, Unplug
<1>4. CASE ~KeyboardTakes /\ ~KeyboardSends /\ ~KeyPress /\ ~Unplug
  <2>1. kbd' = kbd
    BY <1>4 DEF Next, MainStep, ServiceStep, vars, device, Controller, ControllerCmd, MainSends, MainReads,
       RegisterHandler, ClearFlags, Tick, TickBetween, StartGuest, Irq1, Poll, ServiceKey, ServiceSends,
       ServiceReads
  <2> QED
    BY <2>1
<1> QED
  BY <1>1, <1>2, <1>3, <1>4

\* What is good after a step was good before it.
LEMMA GoodBefore ==
  ASSUME Types, [Next]_vars, Good'
  PROVE  Good
<1>1. late = 0
  BY Remembered DEF GaveUp, Good
<1>2. ~mixed
  BY Remembered, Zenon DEF Good
<1>3. pc # Failed
  <2> SUFFICES ASSUME pc = Failed PROVE FALSE
    OBVIOUS
  <2>1. ph = "go" /\ Op = "end" /\ pc = 33
    BY ScriptOps DEF Types, MainType, Op, TxSteps, SendSteps, ReadSteps
  <2>2. pc' = pc
    BY <2>1 DEF Next, MainStep, ServiceStep, vars, Controller, KeyboardTakes,
         KeyboardSends, KeyPress, Unplug, ControllerCmd, MainSends, MainReads, RegisterHandler, main,
         ClearFlags, Tick, TickBetween, StartGuest, Irq1, Poll, ServiceKey, ServiceSends, ServiceReads
  <2> QED
    BY <2>2 DEF Good
<1>4. kbd.alive
  BY AliveBefore DEF Good
<1> QED
  BY <1>1, <1>2, <1>3, <1>4 DEF Good

\* A step that moves no byte of the dialogue but from the keyboard to its buffer.
Unmoved ==
  /\ UNCHANGED <<ib, pc, ph, data, sdata, caps, stale>>
  /\ kbd'.want = kbd.want /\ kbd'.leds = kbd.leds /\ ctl'.cfg = ctl.cfg /\ Acks' = Acks
  /\ sv' = sv \/ (sv = "idle" /\ sv' = "key")

LEMMA UnmovedBefore == ASSUME BeforeHandler, Unmoved PROVE BeforeHandler'
  BY DEF BeforeHandler, Unmoved, DataWaits, At

LEMMA UnmovedDialogue == ASSUME Dialogue, Unmoved, Types PROVE Dialogue'
<1>1. sv \in ServicePhases /\ sv' \in ServicePhases
  BY DEF Types, ServiceType, Unmoved, ServicePhases
<1>2. Leds' = Leds /\ Outstanding' = Outstanding
  BY DEF Unmoved, Leds, Outstanding
<1>3. \A i \in {0, 1} : InStep(i) => InStep(i)'
  BY <1>1, <1>2 DEF InStep, Between, Unmoved, At, ServicePhases
<1>4. /\ Shown(LitBefore) => Shown(LitBefore)'
      /\ Shown(LitAfter) => Shown(LitAfter)'
  BY <1>1, <1>2 DEF Shown, Unmoved, ServicePhases, LitBefore, LitAfter
<1>5. (Asking => Asking') /\ (Telling => Telling')
  BY <1>1, <1>2 DEF Asking, Between, Telling, Unmoved, At, ServicePhases
<1>6. /\ Configuring' = Configuring /\ UNCHANGED <<pc, ph>> /\ ctl'.cfg = ctl.cfg
      /\ Configuring => (DataWaits' = DataWaits /\ kbd'.want = kbd.want /\ Acks' = Acks)
      /\ Between => Between'
  BY <1>1 DEF Configuring, Between, Unmoved, DataWaits
<1> QED
  BY <1>3, <1>4, <1>5, <1>6 DEF Dialogue, Configuring

LEMMA UnmovedAligned ==
  ASSUME Types, Aligned, AnswerShape', Unmoved
  PROVE  Aligned'
<1>1. CASE pc =< RegisterStep
  BY <1>1, UnmovedBefore DEF Aligned, Unmoved
<1>2. CASE ~(pc =< RegisterStep)
  <2>1. Leds' = Leds /\ (Configuring => Configuring')
    BY DEF Leds, Unmoved, Configuring
  <2>2. WithHandler'
    BY <1>2, <2>1, UnmovedDialogue DEF Aligned, Unmoved, WithHandler
  <2> QED
    BY <1>2, <2>2 DEF Aligned, Unmoved
<1> QED
  BY <1>1, <1>2
-----------------------------------------------------------------------------
(* The keyboard takes a byte.                                              *)

LEMMA Bytes ==
  ASSUME NEW b \in Int
  PROVE  Byte(b) # <<>> /\ Byte(b)[1] = "data" /\ Byte(b)[2] = b
  BY DEF Byte

LEMMA SameByte ==
  ASSUME NEW b \in Int, NEW c \in Int, Byte(b) = Byte(c)
  PROVE  b = c
  BY Bytes

LEMMA Shapes ==
  ASSUME kbd'.set \in {1, 2},
         kbd'.ans \in {<<Ack>>, <<Resend>>, <<Ack, BatOk>>, <<Ack, 1>>, <<Ack, 2>>}
  PROVE  AnswerShape'
<1>1. \A x, y : Len(<<x>>) = 1 /\ Len(<<x, y>>) = 2 /\ <<x, y>>[2] = y
  OBVIOUS
<1>2. CASE kbd'.ans = <<Ack>> \/ kbd'.ans = <<Resend>>
  <2>1. Len(kbd'.ans) = 1
    BY <1>1, <1>2
  <2> QED
    BY <2>1 DEF AnswerShape
<1>3. ASSUME NEW x \in {1, 2, BatOk}, kbd'.ans = <<Ack, x>> PROVE AnswerShape'
  <2>1. Len(kbd'.ans) = 2 /\ kbd'.ans[2] # Ack
    BY <1>1, <1>3 DEF Ack, BatOk
  <2> QED
    BY <2>1 DEF AnswerShape
<1> QED
  BY <1>2, <1>3

LEMMA LedsRange == ASSUME Types PROVE Leds \in {0, 4} /\ (~caps => Leds = 0)
  BY DEF Leds

\* What the keyboard makes of a byte of the dialogue.
Taken(b) ==
  /\ ib = Byte(b) /\ ib' = <<>> /\ ~ctl.cfg /\ ~ctl'.cfg
  /\ UNCHANGED <<pc, ph, data, sv, sdata, caps, stale>>
  /\ kbd.want = "leds" =>
       kbd'.want = "cmd" /\ kbd'.leds = b % 8 /\ 1 =< Acks' /\ Acks' =< Acks + 1
  /\ kbd.want = "cmd" /\ b = SetLeds =>
       kbd'.want = "leds" /\ 1 =< Acks' /\ Acks' =< Acks + 1
  /\ kbd.want = "cmd" /\ b \in {0, 4} =>
       kbd'.want = "cmd" /\ Acks' =< Acks

LEMMA TakenInStep ==
  ASSUME Types, NEW b \in Int, Taken(b), NEW i \in {0, 1}, InStep(i), NEW v
  PROVE  InStep(i)' /\ (Shown(v) => Shown(v)')
<1> USE DEF Taken, At
<1>1. /\ ib # <<>> /\ Acks \in Nat /\ Acks' \in Nat /\ Leds \in {0, 4} /\ Leds' = Leds /\ ib[2] = b
      /\ \A c \in {SetLeds, Leds, 0, 4} : ib = Byte(c) => b = c
      /\ sv \in ServicePhases
  BY Bytes, AcksRange, LedsRange DEF SetLeds, Leds, Acks, Types, ServiceType
<1>2. Outstanding = Acks + 1 /\ Outstanding' = Acks'
  <2>1. ib # <<>> /\ ib' = <<>>
    BY <1>1
  <2> HIDE DEF Taken
  <2>2. Outstanding = Acks + 1
    BY <1>1, <2>1 DEF Outstanding
  <2>3. Outstanding' = Acks'
    <3>1. Acks' \in Nat
      BY <1>1
    <3>2. Outstanding' = Acks' + (IF ib' = <<>> THEN 0 ELSE 1)
      BY DEF Outstanding
    <3>3. Outstanding' = Acks' + 0
      BY <2>1, <3>2
    <3>4. \A n \in Nat : n + 0 = n
      OBVIOUS
    <3> QED
      BY <3>1, <3>3, <3>4, Zenon
  <2> QED
    BY <2>2, <2>3
<1>3. CASE sv = "recvCmd"
  BY <1>1, <1>2, <1>3 DEF InStep, Between, Shown
<1>4. CASE sv = "sendLeds"
  BY <1>1, <1>2, <1>4 DEF InStep, Between, Shown
<1>5. CASE sv = "recvLeds"
  BY <1>1, <1>2, <1>5 DEF InStep, Between, Shown
<1>6. CASE sv \in {"idle", "key", "sendCmd"}
  <2>1. b \in {0, 4} /\ kbd.want = "leds"
    BY <1>1, <1>6 DEF InStep, Between
  <2>2. kbd'.leds = b /\ kbd'.want = "cmd"
    BY <2>1
  <2> QED
    BY <1>1, <1>2, <1>6, <2>1, <2>2 DEF InStep, Between, Shown
<1> QED
  BY <1>1, <1>3, <1>4, <1>5, <1>6 DEF ServicePhases

LEMMA TakenAsking ==
  ASSUME Types, NEW b \in Int, Taken(b)
  PROVE  (Asking => Asking') /\ (Telling => Telling')
<1>1. /\ ib # <<>> /\ Acks \in 0..2 /\ Acks' \in Nat /\ Leds \in {0, 4} /\ Leds' = Leds
      /\ \A c \in {SetLeds, Leds, 0, 4} : ib = Byte(c) => b = c
      /\ sv \in ServicePhases /\ sv' = sv /\ ib = Byte(b) /\ ib' = <<>>
  <2>1. ib = Byte(b) /\ sv' = sv /\ caps' = caps /\ ib' = <<>>
    BY DEF Taken
  <2>2. \A c \in Int : ib = Byte(c) => b = c
    BY <2>1, SameByte
  <2> QED
    BY <2>1, <2>2, Bytes, AcksRange, LedsRange DEF SetLeds, Leds, Acks, Types, ServiceType
<1>2. CASE kbd.want = "leds"
  <2>1. kbd'.want = "cmd" /\ Acks' =< Acks + 1
    BY <1>2 DEF Taken
  <2> QED
    BY <1>1, <1>2, <2>1 DEF Asking, Between, Telling, At, ServicePhases
<1>3. CASE kbd.want = "cmd" /\ b = SetLeds
  <2>1. kbd'.want = "leds" /\ Acks' =< Acks + 1
    BY <1>3 DEF Taken
  <2> QED
    BY <1>1, <1>3, <2>1 DEF Asking, Between, Telling, At, ServicePhases, SetLeds
<1>4. CASE kbd.want = "cmd" /\ b \in {0, 4}
  <2>1. kbd'.want = "cmd" /\ Acks' =< Acks /\ ib # Byte(SetLeds)
    BY <1>1, <1>4 DEF Taken, SetLeds
  <2>2. Asking => Asking'
    BY <1>1, <1>4, <2>1 DEF Asking, Between, At, ServicePhases
  <2>3. Telling => Telling'
    BY <1>1, <1>4, <2>1 DEF Telling, Between, At, ServicePhases
  <2> QED
    BY <2>2, <2>3
<1>5. Asking \/ Telling => kbd.want = "leds" \/ (kbd.want = "cmd" /\ b \in {SetLeds, 0, 4})
  BY <1>1 DEF Asking, Between, Telling, At, ServicePhases
<1> QED
  BY <1>2, <1>3, <1>4, <1>5

\* Every byte on its way to the keyboard is one of the dialogue.
LEMMA TakesAligned ==
  ASSUME Types, Aligned, Good, KeyboardTakes
  PROVE  Aligned'
<1> DEFINE b == ib[2]
<1>1. /\ ib' = <<>> /\ ob' = ob /\ ~ctl.cfg /\ ctl'.cfg = ctl.cfg
      /\ b \in Int /\ ib = Byte(b) /\ kbd' = Answered(kbd, b)
  BY Taking DEF Good, Types, CtlType
<1>2. UNCHANGED <<pc, ph, data, sv, sdata, caps, stale>>
  BY DEF KeyboardTakes, main, service, hist
<1>3. KbdType /\ AnswerShape /\ Acks \in 0..2 /\ ib # <<>> /\ ib[1] = "data"
  BY <1>1, AcksRange, Bytes DEF Types, Aligned
<1> HIDE DEF b
<1>4. CASE pc =< RegisterStep
  <2>1. BeforeHandler
    BY <1>4 DEF Aligned
  <2>2. ph = "recv" /\ pc \in TxSteps /\ Acks = 0 /\ b = Script[pc].byte /\ kbd.want = WantAt(pc)
    <3>1. ph = "recv" /\ pc \in TxSteps /\ Acks = 0 /\ ib = Byte(Script[pc].byte) /\ kbd.want = WantAt(pc)
      BY <1>1, <1>3, <2>1 DEF BeforeHandler, DataWaits, At
    <3>2. Script[pc].byte \in Int
      BY <3>1, ScriptOps DEF TxSteps
    <3> QED
      BY <1>1, <3>1, <3>2, Bytes
  <2>3. pc \in {4, 5, 11, 13, 14, 15, 16, 18, 19}
    BY <1>4, <2>2 DEF TxSteps, RegisterStep
  <2>4. AnswerShape' /\ (Acks' = 0 \/ (Acks' = 1 /\ kbd'.want = WantAt(pc + 1)))
    <3>1. CASE pc \in {4, 11, 13, 15, 18}
      <4>1. b = (IF pc = 4 THEN SetLeds ELSE IF pc = 11 THEN Reset ELSE ScanSet) /\ kbd.want = "cmd"
        BY <2>2, <3>1 DEF Script, Tx, Cmd, Do, WantAt
      <4>2. /\ kbd'.ans = <<Ack>> \/ kbd'.ans = <<Ack, BatOk>>
            /\ kbd'.set \in {1, 2} /\ kbd'.want = WantAt(pc + 1)
        BY <1>1, <1>3, <3>1, <4>1, AnswersCommand DEF AnswerShape, SetLeds, Reset, ScanSet, WantAt
      <4>3. Acks' = 1
        BY <1>1, <1>3, <2>2, <4>2 DEF Acks, Ack
      <4> QED
        BY <4>2, <4>3, Shapes
    <3>2. CASE pc = 5
      <4>1. kbd'.ans = <<Ack>> /\ kbd'.set \in {1, 2} /\ kbd'.want = WantAt(pc + 1)
        BY <1>1, <1>3, <2>2, <3>2, AnswersLeds DEF AnswerShape, WantAt
      <4>2. Acks' = 1
        BY <1>1, <1>3, <2>2, <4>1, AcksTaken DEF Acks
      <4> QED
        BY <4>1, <4>2, Shapes
    <3>3. CASE pc \in {14, 16, 19}
      <4>1. b = (IF pc = 14 THEN 1 ELSE IF pc = 16 THEN 0 ELSE 2) /\ kbd.want = "set"
        BY <2>2, <3>3 DEF Script, Tx, Cmd, Do, WantAt
      <4>2. kbd.set \in {1, 2} /\ b \in {0, 1, 2} /\ WantAt(pc + 1) = "cmd"
        BY <1>3, <3>3, <4>1 DEF AnswerShape, WantAt
      <4>3. /\ kbd'.ans \in {<<Ack>>, <<Ack, kbd.set>>, <<Resend>>}
            /\ kbd'.set \in {1, 2} /\ kbd'.want = "cmd"
        BY <1>1, <1>3, <4>1, <4>2, AnswersSet
      <4>4. AnswerShape'
        BY <4>2, <4>3, Shapes
      <4>5. Acks' \in {0, 1}
        BY <1>1, <1>3, <2>2, <4>3 DEF Acks, Ack, Resend
      <4> QED
        BY <4>2, <4>3, <4>4, <4>5
    <3> QED
      BY <2>3, <3>1, <3>2, <3>3
  <2>5. BeforeHandler'
    BY <1>1, <1>2, <2>1, <2>2, <2>3, <2>4 DEF BeforeHandler, At, DataWaits, SendSteps, RegisterStep
  <2> QED
    BY <1>2, <1>4, <2>4, <2>5 DEF Aligned
<1>5. CASE ~(pc =< RegisterStep)
  <2>1. WithHandler /\ pc \in {29, 30, 31, 32}
    BY <1>5, ScriptOps DEF Aligned, Good, Types, MainType, RegisterStep
  <2>2. kbd.want = "leds" \/ (kbd.want = "cmd" /\ b \in {SetLeds, 0, 4})
    <3>1. sv \in ServicePhases /\ Leds \in {0, 4}
      BY LedsRange DEF Types, ServiceType
    <3>2. \A c \in {SetLeds, Leds, 0, 4} : ib = Byte(c) => b = c
      <4>1. {SetLeds, Leds, 0, 4} \subseteq Int
        BY <3>1 DEF SetLeds
      <4> QED
        BY <1>1, <4>1, SameByte
    <3>3. InStep(0) \/ InStep(1) \/ Asking \/ Telling
      BY <1>1, <2>1, ScriptOps DEF WithHandler, Dialogue, Types, MainType, TxSteps
    <3> QED
      BY <1>3, <3>1, <3>2, <3>3 DEF InStep, Between, Asking, Telling, At, ServicePhases
  <2>3. Taken(b) /\ AnswerShape'
    <3>1. CASE kbd.want = "leds"
      <4>1. kbd'.ans = <<Ack>> /\ kbd'.set \in {1, 2} /\ kbd'.want = "cmd" /\ kbd'.leds = (b % 8)
        BY <1>1, <1>3, <3>1, AnswersLeds DEF AnswerShape
      <4>2. 1 =< Acks' /\ Acks' =< Acks + 1
        BY <1>1, <1>3, <4>1, AcksTaken
      <4> QED
        BY <1>1, <1>2, <3>1, <4>1, <4>2, Shapes DEF Taken
    <3>2. CASE kbd.want = "cmd" /\ b = SetLeds
      <4>1. kbd'.ans = <<Ack>> /\ kbd'.set \in {1, 2} /\ kbd'.want = "leds"
        BY <1>1, <1>3, <3>2, AnswersCommand DEF AnswerShape, SetLeds, Reset
      <4>2. 1 =< Acks' /\ Acks' =< Acks + 1
        BY <1>1, <1>3, <4>1, AcksTaken
      <4> QED
        <5>1. AnswerShape'
          BY <4>1, Shapes
        <5>2. Taken(b)
          BY <1>1, <1>2, <3>2, <4>1, <4>2 DEF Taken, SetLeds
        <5> QED
          BY <5>1, <5>2
    <3>3. CASE kbd.want = "cmd" /\ b \in {0, 4}
      <4>1. kbd'.ans = <<Resend>> /\ kbd'.set \in {1, 2} /\ kbd'.want = "cmd"
        BY <1>1, <1>3, <3>3, AnswersCommand DEF AnswerShape, SetLeds, ScanSet, Reset, Resend
      <4>2. Acks' =< Acks
        BY <1>1, <1>3, <4>1, AcksTaken
      <4> QED
        BY <1>1, <1>2, <3>3, <4>1, <4>2, Shapes DEF Taken, SetLeds
    <3> QED
      BY <2>2, <3>1, <3>2, <3>3
  <2>4. Dialogue'
    <3>1. \A i \in {0, 1} : InStep(i) => InStep(i)'
      BY <1>1, <2>3, TakenInStep
    <3>2. /\ \A i \in {0, 1} : InStep(i) /\ Shown(LitBefore) => Shown(LitBefore)'
          /\ \A i \in {0, 1} : InStep(i) /\ Shown(LitAfter) => Shown(LitAfter)'
      <4>1. LitBefore' = LitBefore /\ LitAfter' = LitAfter
        BY <1>2 DEF Leds, LitBefore, LitAfter
      <4> QED
        BY <1>1, <2>3, <4>1, TakenInStep DEF Shown
    <3>3. (Asking => Asking') /\ (Telling => Telling')
      BY <1>1, <2>3, TakenAsking
    <3>4. ~Configuring /\ ~Configuring'
      BY <1>1 DEF Configuring
    <3> QED
      BY <1>1, <1>2, <2>1, <3>1, <3>2, <3>3, <3>4 DEF Dialogue, WithHandler
  <2>5. Leds' = Leds
    BY <1>2 DEF Leds
  <2> QED
    BY <1>1, <1>2, <1>5, <2>1, <2>3, <2>4, <2>5 DEF Aligned, WithHandler
<1> QED
  BY <1>4, <1>5
-----------------------------------------------------------------------------
(* The 8042, and the steps that leave the dialogue where it is.             *)

LEMMA ControllerAligned ==
  ASSUME Types, Aligned, Good, Controller
  PROVE  Aligned'
<1>1. UNCHANGED <<pc, ph, data, sv, sdata, caps, stale, kbd>>
  BY DEF Controller, main, service, hist
<1>2. AnswerShape /\ AnswerShape'
  BY <1>1 DEF Aligned, AnswerShape
<1>3. CASE Takes("cmd")
  <2>1. ib # <<>> /\ ib[1] = "cmd" /\ ib' = <<>> /\ ob' = ob
    BY <1>3, TakesCmd DEF Takes
  <2>2. Acks' = Acks
    BY <1>1, <2>1 DEF Acks
  <2>3. \A b \in Int : ib # Byte(b)
    BY <2>1, Bytes
  <2>4. CASE pc =< RegisterStep
    <3>1. BeforeHandler
      BY <2>4 DEF Aligned
    <3>2. ph = "recv" /\ pc \in TxSteps => Acks = 0
      <4>1. pc \in TxSteps => Script[pc].byte \in Int
        BY ScriptOps DEF TxSteps
      <4> QED
        BY <2>1, <2>3, <3>1, <4>1 DEF BeforeHandler, At
    <3>3. pc \in SendSteps => ctl'.cfg
      <4>1. pc \in SendSteps => ib[2] = 96
        BY <2>1, <3>1 DEF BeforeHandler
      <4> QED
        BY <1>3, <4>1, TakesCmd DEF Types, CtlType
    <3>4. pc # RegisterStep
      BY <2>1, <3>1 DEF BeforeHandler, DataWaits
    <3>5. ~DataWaits'
      BY <2>1 DEF DataWaits
    <3>6. BeforeHandler'
      BY <1>1, <2>1, <2>2, <3>1, <3>2, <3>3, <3>4, <3>5 DEF BeforeHandler
    <3> QED
      BY <1>1, <1>2, <2>4, <3>6 DEF Aligned
  <2>5. CASE ~(pc =< RegisterStep)
    <3>1. WithHandler /\ pc \in {29, 30, 31, 32} /\ sv \in ServicePhases /\ Leds \in {0, 4}
      BY <2>5, ScriptOps, LedsRange DEF Aligned, Good, Types, MainType, ServiceType, RegisterStep
    <3>2. Configuring \/ InStep(0) \/ InStep(1) \/ Asking \/ Telling
      BY <3>1, ScriptOps DEF WithHandler, Dialogue, Configuring, Types, MainType, TxSteps
    <3>3. SetLeds \in Int /\ {0, 4, Leds} \subseteq Int
      BY <3>1 DEF SetLeds
    <3> QED
      BY <2>1, <2>3, <3>1, <3>2, <3>3 DEF WithHandler, Dialogue, DataWaits, InStep, Between, Asking,
         Telling, At, ServicePhases
  <2> QED
    BY <2>4, <2>5
<1>4. CASE Takes("data")
  <2>1. ctl.cfg /\ ib' = <<>> /\ ob' = ob /\ ib # <<>> /\ ib[1] = "data" /\ ~ctl'.cfg
    BY <1>4, TakesConfig DEF Takes
  <2>2. Acks' = Acks /\ DataWaits /\ ~DataWaits'
    BY <1>1, <2>1 DEF Acks, DataWaits
  <2>4. CASE pc =< RegisterStep
    <3>1. BeforeHandler /\ pc \notin SendSteps
      BY <2>1, <2>4 DEF Aligned, BeforeHandler
    <3>2. ph = "recv" /\ pc \in TxSteps => Acks = 0
      BY <2>1, <3>1 DEF BeforeHandler, At
    <3>3. BeforeHandler'
      BY <1>1, <2>1, <2>2, <3>1, <3>2 DEF BeforeHandler
    <3> QED
      BY <1>1, <1>2, <2>4, <3>3 DEF Aligned
  <2>5. CASE ~(pc =< RegisterStep)
    <3>1. WithHandler /\ Configuring
      BY <2>1, <2>5 DEF Aligned, WithHandler
    <3>2. pc = 29 /\ ph = "send" /\ Between /\ kbd.want = "cmd" /\ Acks = 0
      BY <3>1 DEF WithHandler, Dialogue, Configuring
    <3>3. Between' /\ At(<<>>, "cmd")' /\ Outstanding' = 0
      BY <1>1, <2>1, <2>2, <3>2 DEF Between, At, Outstanding
    <3>4. InStep(0)'
      BY <3>3 DEF InStep, Between
    <3>5. ~Configuring'
      BY <2>1 DEF Configuring
    <3>6. Dialogue'
      BY <1>1, <2>1, <3>2, <3>4, <3>5, ScriptOps DEF Dialogue
    <3>7. Leds' = Leds
      BY <1>1 DEF Leds
    <3> QED
      BY <1>1, <1>2, <2>1, <2>5, <3>1, <3>6, <3>7 DEF Aligned, WithHandler
  <2> QED
    BY <2>4, <2>5
<1>5. CASE ~Takes("cmd") /\ ~Takes("data")
  <2>1. ib' = ib /\ ob = Empty /\ ob' # Ack /\ ctl'.cfg = ctl.cfg
    BY <1>5, ControllerAnswers DEF Types, CtlType
  <2>2. Acks' = Acks
    BY <1>1, <2>1 DEF Acks, Empty, Ack
  <2> QED
    BY <1>1, <1>2, <2>1, <2>2, UnmovedAligned DEF Unmoved
<1> QED
  BY <1>3, <1>4, <1>5

\* Steps that leave the dialogue where it is.
LEMMA UnmovedSteps ==
  ASSUME Types, Aligned,
         KeyboardSends \/ KeyPress \/ Tick \/ TickBetween \/ StartGuest \/ Irq1 \/ Poll \/ UNCHANGED vars
  PROVE  Aligned'
<1>1. CASE KeyboardSends
  <2>1. Acks' = Acks /\ AnswerShape'
    BY <1>1, AcksSent DEF Aligned
  <2>2. UNCHANGED <<ib, pc, ph, data, sv, sdata, caps, stale>>
    BY <1>1 DEF KeyboardSends, main, service, hist
  <2> QED
    BY <1>1, <2>1, <2>2, Sending, UnmovedAligned DEF Unmoved
<1>2. CASE KeyPress
  <2>1. \E c : kbd' = [kbd EXCEPT !.keys = Append(@, c)]
    BY <1>2 DEF KeyPress
  <2>2. kbd'.ans = kbd.ans /\ kbd'.want = kbd.want /\ kbd'.leds = kbd.leds /\ kbd'.set = kbd.set
    BY <2>1 DEF Types, KbdType
  <2>3. UNCHANGED <<ib, ob, ctl, pc, ph, data, sv, sdata, caps, stale>>
    BY <1>2 DEF KeyPress, main, service
  <2>4. Acks' = Acks /\ AnswerShape'
    BY <2>2, <2>3, AcksKept DEF Aligned, AnswerShape
  <2> QED
    BY <2>2, <2>3, <2>4, UnmovedAligned DEF Unmoved
<1>3. CASE Tick \/ TickBetween \/ StartGuest \/ Irq1 \/ Poll \/ UNCHANGED vars
  <2>1. UNCHANGED <<kbd, ib, ob, ctl, pc, ph, data, sdata, caps, stale>>
    BY <1>3 DEF Tick, TickBetween, StartGuest, Irq1, Poll, vars, device, main, service, hist
  <2>2. sv' = sv \/ (sv = "idle" /\ sv' = "key")
    BY <1>3, Zenon DEF Tick, TickBetween, StartGuest, Irq1, Poll, vars, device, main, service, MainRuns
  <2>3. Acks' = Acks /\ AnswerShape'
    BY <2>1 DEF Acks, Aligned, AnswerShape
  <2> QED
    BY <2>1, <2>2, <2>3, UnmovedAligned DEF Unmoved
<1> QED
  BY <1>1, <1>2, <1>3
-----------------------------------------------------------------------------
(* The handler: keyboard_process_keystroke and update_leds.                *)

\* The handler runs only once main has registered it.
LEMMA ServicePlace ==
  ASSUME Types, Aligned, Good, sv # "idle"
  PROVE  /\ WithHandler /\ pc \in {29, 30, 31, 32} /\ sv \in ServicePhases
         /\ Leds \in {0, 4} /\ Acks \in 0..2
  BY ScriptOps, LedsRange, AcksRange DEF Aligned, Good, Types, MainType, ServiceType, RegisterStep

\* What has to be shown of a step of the handler.
LEMMA ServiceAligned ==
  ASSUME Types, Aligned, Good, sv # "idle", UNCHANGED <<kbd, pc, ph, data>>, ctl'.cfg = ctl.cfg,
         sv' = "sendCmd" => sdata' = SetLeds,
         sv' = "sendLeds" => sdata' = Leds',
         Configuring => Configuring' /\ (Between /\ DataWaits /\ Acks = 0 => (Between /\ DataWaits /\ Acks = 0)'),
         \A i \in {0, 1} : InStep(i) => InStep(i)',
         \A i \in {0, 1} : LedByteSent /\ InStep(i) /\ Shown(LitBefore) => Shown(LitBefore)',
         pc = Done /\ InStep(0) /\ Shown(LitAfter) => Shown(LitAfter)',
         Asking => Asking', Telling => Telling'
  PROVE  Aligned'
<1>1. WithHandler /\ pc \in {29, 30, 31, 32} /\ ~(pc =< RegisterStep)
  BY ServicePlace DEF RegisterStep
<1>2. AnswerShape'
  BY DEF Aligned, AnswerShape
<1>3. Configuring' => Configuring
  BY DEF Configuring
<1>4. Dialogue'
  BY <1>1, <1>3 DEF WithHandler, Dialogue, LedByteSent, ClearStep
<1> QED
  BY <1>1, <1>2, <1>4 DEF Aligned, WithHandler

LEMMA ServiceKeyAligned ==
  ASSUME Types, Aligned, Good, ServiceKey
  PROVE  Aligned'
<1>1. /\ sv = "key" /\ UNCHANGED <<kbd, ib, pc, ph, data>> /\ ob' = Empty /\ ctl' = ctl
      /\ \/ sv' = "idle" /\ caps' = caps /\ stale' = stale
         \/ sv' = "sendCmd" /\ sdata' = SetLeds
  BY DEF ServiceKey, SetOutput, main
<1>2. Acks \in Nat /\ Acks' \in Nat /\ Acks' =< Acks
  BY <1>1, AcksRange, AcksRead DEF Acks
<1>3. Outstanding \in Int /\ Outstanding' \in Int /\ Outstanding' =< Outstanding
  <2>1. ib' = ib
    BY <1>1
  <2>2. PICK w \in {0, 1} : Outstanding = Acks + w /\ Outstanding' = Acks' + w
    BY <2>1 DEF Outstanding
  <2>3. \A m, n \in Nat : m =< n => n + w \in Int /\ m + w \in Int /\ m + w =< n + w
    OBVIOUS
  <2> QED
    BY <1>2, <2>2, <2>3, Zenon
<1>4. Between /\ Between' /\ sv' \in {"idle", "sendCmd"}
  BY <1>1 DEF Between
<1>5. \A i \in {0, 1} : InStep(i) => InStep(i)'
  BY <1>1, <1>3, <1>4 DEF InStep, At
<1>6. /\ Shown(LitBefore) => Shown(LitBefore)'
      /\ Shown(LitAfter) => Shown(LitAfter)'
  BY <1>1 DEF Shown, LitBefore, LitAfter, Leds
<1>7. (Asking => Asking') /\ (Telling => Telling')
  BY <1>1, <1>2, <1>4 DEF Asking, Telling, At
<1>8. Configuring => Configuring' /\ (Between /\ DataWaits /\ Acks = 0 => (Between /\ DataWaits /\ Acks = 0)')
  BY <1>1, <1>2, <1>4 DEF Configuring, DataWaits
<1> QED
  BY <1>1, <1>5, <1>6, <1>7, <1>8, ServiceAligned

LEMMA ServiceSendsAligned ==
  ASSUME Types, Aligned, Good, ServiceSends
  PROVE  Aligned'
<1>1. /\ sv \in {"sendCmd", "sendLeds"} /\ ib = <<>> /\ ib' = Byte(sdata)
      /\ sv' = IF sv = "sendCmd" THEN "recvCmd" ELSE "recvLeds"
      /\ UNCHANGED <<kbd, ob, ctl, pc, ph, data, sdata, caps>>
  BY DEF ServiceSends, Byte, main
<1>2. Acks \in Nat /\ Acks' = Acks /\ Leds' = Leds
  BY <1>1, AcksRange DEF Acks, Leds
<1>3. /\ sv = "sendCmd" => ib' = Byte(SetLeds) /\ sv' = "recvCmd"
      /\ sv = "sendLeds" => ib' = Byte(Leds) /\ sv' = "recvLeds"
  BY <1>1, ServicePlace DEF WithHandler
<1>4. Outstanding = Acks /\ Outstanding' = Acks + 1
  <2>1. ib' # <<>>
    BY <1>1 DEF Byte
  <2>2. Outstanding' = Acks' + 1
    BY <2>1 DEF Outstanding
  <2>3. Outstanding = Acks + 0
    BY <1>1 DEF Outstanding
  <2> QED
    BY <1>2, <2>2, <2>3
<1>5. ASSUME NEW i \in {0, 1}, InStep(i) PROVE InStep(i)'
  <2>a. Outstanding =< i
    BY <1>1, <1>5 DEF InStep
  <2>b. Outstanding' =< i + 1
    <3>1. \A n \in Nat : n =< i => n + 1 =< i + 1
      OBVIOUS
    <3> QED
      BY <1>2, <1>4, <2>a, <3>1, Zenon
  <2>1. CASE sv = "sendCmd"
    <3>1. At(<<>>, "cmd")
      BY <1>1, <1>5, <2>1 DEF InStep, Between, At, Byte
    <3> QED
      BY <1>1, <1>3, <2>1, <2>b, <3>1 DEF InStep, At, Between
  <2>2. CASE sv = "sendLeds"
    <3>1. At(<<>>, "leds")
      BY <1>1, <1>5, <2>2 DEF InStep, At, Byte
    <3> QED
      BY <1>1, <1>2, <1>3, <2>2, <2>b, <3>1 DEF InStep, At, Between
  <2> QED
    BY <1>1, <2>1, <2>2
<1>6. Shown(LitBefore)' /\ Shown(LitAfter)'
  BY <1>1 DEF Shown
<1>7. (Asking => Asking') /\ (Telling => Telling')
  BY <1>1, <1>2, <1>3 DEF Asking, Telling, At, Between
<1>8. ~Configuring
  BY <1>1, ServicePlace DEF WithHandler, Dialogue, DataWaits
<1> QED
  BY <1>1, <1>5, <1>6, <1>7, <1>8, ServiceAligned

LEMMA ServiceReadsAligned ==
  ASSUME Types, Aligned, WhenStale, Good, Good', ServiceReads
  PROVE  Aligned'
<1>1. /\ sv \in {"recvCmd", "recvLeds"} /\ ob = Ack /\ ob' = Empty
      /\ sv' = IF sv = "recvCmd" THEN "sendLeds" ELSE "idle"
      /\ sv = "recvCmd" => sdata' = Leds
      /\ UNCHANGED <<kbd, ib, ctl, pc, ph, data, caps, stale>>
  BY DEF ServiceReads, SetOutput, Good, main
<1>2. Acks \in 0..2 /\ Acks' = Acks - 1 /\ Acks > 0 /\ Leds' = Leds /\ Leds \in {0, 4}
  <2>1. Leds' = Leds
    BY <1>1 DEF Leds
  <2> QED
    BY <1>1, <2>1, AcksRange, AcksRead, LedsRange
<1>3. Outstanding \in Int /\ Outstanding' = Outstanding - 1
  <2>1. ib' = ib
    BY <1>1
  <2> QED
    BY <1>2, <2>1 DEF Outstanding
<1>4. \A i \in {0, 1} : InStep(i) => InStep(i)'
  BY <1>1, <1>2, <1>3 DEF InStep, At, Between
<1>5. /\ \A i \in {0, 1} : LedByteSent /\ InStep(i) => Shown(LitBefore)'
      /\ pc = Done /\ InStep(0) => Shown(LitAfter)'
  <2>1. \A i \in {0, 1} : InStep(i) => Shown(Leds)'
    BY <1>1, <1>2, Bytes DEF InStep, At, Shown
  <2>2. LedByteSent => LitBefore' = Leds'
    BY <1>1, <1>2 DEF WhenStale, LitBefore
  <2>3. pc = Done => LitAfter' = Leds'
    BY <1>1 DEF WhenStale, LitAfter, Leds
  <2> QED
    BY <2>1, <2>2, <2>3 DEF Shown
<1>6. (Asking => Asking') /\ (Telling => Telling')
  BY <1>1, <1>2 DEF Asking, Telling, At, Between
<1>7. ~Configuring
  BY <1>1, ServicePlace DEF WithHandler, Dialogue, Between
<1> QED
  BY <1>1, <1>2, <1>4, <1>5, <1>6, <1>7, ServiceAligned
-----------------------------------------------------------------------------
(* main: keyboard_init.                                                    *)

LEMMA TargetOf ==
  ASSUME pc \in ReadSteps, NEW v
  PROVE  Target(v) \in {4, 8, 13, 18, 22, 26, ResetStep, SetOneStep, Failed}
<1>1. After \in {4, 8, 13, 18, 22, 26}
  BY DEF After, SetTwoEnd, ReadSteps
<1> QED
  BY <1>1 DEF Target

\* keyboard_init writes its configuration in two places.
LEMMA AfterSend ==
  ASSUME pc \in SendSteps
  PROVE  After \in {10, RegisterStep}
  BY DEF After, SetTwoEnd, SendSteps, RegisterStep

\* main goes from one of its first steps to another.
LEMMA EntersBefore ==
  ASSUME NEW i \in 1..RegisterStep, NEW x \in Int, Enter(i, x), AnswerShape', Acks' = 0,
         kbd'.want = WantAt(i), DataWaits' => ctl'.cfg,
         i \in SendSteps => ib' = <<"cmd", 96>>,
         i = RegisterStep => IF ctl'.cfg THEN DataWaits' ELSE ib' = <<>>
  PROVE  Aligned'
<1>1. i \in 1..Failed
  BY ScriptOps DEF RegisterStep
<1>2. /\ pc' = i /\ (i \in TxSteps => ph' = "send" /\ data' = Script[i].byte)
  BY <1>1, Enters
<1>3. BeforeHandler'
  BY <1>2 DEF BeforeHandler
<1> QED
  BY <1>2, <1>3 DEF Aligned, RegisterStep

LEMMA ControllerCmdAligned ==
  ASSUME Types, Aligned, Good, ControllerCmd
  PROVE  Aligned'
<1>1. pc \in CmdSteps /\ BeforeHandler
  BY OpOfStep DEF ControllerCmd, Types, MainType, Aligned, CmdSteps, RegisterStep
<1>2. /\ ib' = <<"cmd", Script[pc].byte>> /\ Enter(pc + 1, data) /\ data \in Int
      /\ UNCHANGED <<kbd, ob, ctl>>
  BY DEF ControllerCmd, Types, MainType
<1>3. Acks' = Acks /\ AnswerShape' /\ ~DataWaits'
  BY <1>2 DEF Acks, Aligned, AnswerShape, DataWaits
<1>4. Acks = 0 /\ kbd.want = WantAt(pc)
  BY <1>1 DEF BeforeHandler, CmdSteps, TxSteps
<1>5. WantAt(pc + 1) = "cmd" /\ WantAt(pc) = "cmd" /\ pc + 1 \in 1..RegisterStep /\ pc + 1 # RegisterStep
  BY <1>1 DEF WantAt, CmdSteps, RegisterStep
<1>6. pc + 1 \in SendSteps => Script[pc].byte = 96
  <2>1. pc + 1 \in SendSteps => pc \in {8, 22, 26}
    BY <1>1 DEF SendSteps, CmdSteps
  <2> QED
    BY <2>1 DEF Script, Cmd, Tx, Do
<1> QED
  BY <1>2, <1>3, <1>4, <1>5, <1>6, EntersBefore

LEMMA RegisterAligned ==
  ASSUME Types, Aligned, Good, RegisterHandler
  PROVE  Aligned'
<1>1. pc = 28 /\ BeforeHandler /\ sv = "idle"
  BY OpOfStep DEF RegisterHandler, MainRuns, Types, MainType, Aligned, RegisterStep
<1>2. /\ Enter(29, 0) /\ UNCHANGED <<kbd, ib, ob, ctl, sv, sdata, caps>>
  BY <1>1 DEF RegisterHandler, device, service
<1>3. pc' = 29 /\ ph' = "send" /\ data' = Script[29].byte
  BY <1>2, Enters, ScriptOps DEF TxSteps
<1>4. Acks' = Acks /\ AnswerShape' /\ DataWaits' = DataWaits
  BY <1>2 DEF Acks, Aligned, AnswerShape, DataWaits
<1>5. Acks = 0 /\ kbd.want = "cmd" /\ IF ctl.cfg THEN DataWaits ELSE ib = <<>>
  BY <1>1 DEF BeforeHandler, TxSteps, WantAt, RegisterStep
<1>6. Between' /\ (ctl'.cfg => Configuring') /\ (Configuring' => ctl.cfg) /\ ~(sv' = "sendCmd") /\ ~(sv' = "sendLeds")
  BY <1>1, <1>2, <1>3 DEF Between, Configuring
<1>7. ~ctl.cfg => InStep(0)'
  <2> SUFFICES ASSUME ~ctl.cfg PROVE InStep(0)'
    OBVIOUS
  <2>1. Outstanding' = 0 /\ At(<<>>, "cmd")'
    BY <1>2, <1>4, <1>5 DEF Outstanding, At
  <2> QED
    BY <1>6, <2>1 DEF InStep, Between
<1>8. Dialogue'
  BY <1>2, <1>3, <1>4, <1>5, <1>6, <1>7, ScriptOps DEF Dialogue
<1> QED
  BY <1>3, <1>4, <1>6, <1>8 DEF Aligned, WithHandler, RegisterStep

LEMMA ClearAligned ==
  ASSUME Types, Aligned, WhenStale, Good, ClearFlags
  PROVE  Aligned'
<1>1. pc = 31 /\ WithHandler /\ sv = "idle"
  BY OpOfStep DEF ClearFlags, MainRuns, Types, MainType, Aligned, RegisterStep
<1>2. Enter(Done, 0) /\ UNCHANGED <<kbd, ib, ob, ctl, sv>> /\ caps' = FALSE /\ stale' = (stale /\ caps)
  BY DEF ClearFlags, device
<1>3. pc' = Done /\ ph' = "go"
  BY <1>2, Enters, ScriptOps DEF TxSteps, SendSteps, ReadSteps
<1>4. Acks' = Acks /\ AnswerShape'
  BY <1>2 DEF Acks, Aligned, AnswerShape
<1>5. ~Configuring /\ ~Configuring' /\ ~ctl.cfg
  BY <1>1, <1>3, ScriptOps DEF Configuring, WithHandler
<1>6. InStep(0) /\ Shown(LitBefore)
  BY <1>1, ScriptOps DEF WithHandler, Dialogue
<1>7. InStep(0)'
  <2>1. Outstanding' = Outstanding
    BY <1>2, <1>4 DEF Outstanding
  <2> QED
    BY <1>1, <1>2, <1>6, <2>1 DEF InStep, Between, At
<1>8. Shown(LitAfter)'
  <2>1. LitAfter' = LitBefore
    BY <1>2 DEF LitAfter, LitBefore, Leds, WhenStale
  <2> QED
    BY <1>2, <1>6, <2>1 DEF Shown
<1>9. Dialogue'
  BY <1>3, <1>5, <1>7, <1>8, ScriptOps DEF Dialogue
<1>10. WithHandler'
  BY <1>1, <1>2, <1>3, <1>5, <1>9 DEF WithHandler
<1> QED
  BY <1>3, <1>4, <1>10, ScriptOps DEF Aligned, RegisterStep
\* The transactions of main that the handler may interrupt.
LEMMA MainPlace ==
  ASSUME Types, Aligned, Good, ~(pc =< RegisterStep), ph # "go"
  PROVE  pc \in {29, 30} /\ WithHandler
  BY DEF Types, MainType, Aligned, RegisterStep, TxSteps, SendSteps, ReadSteps

\* main sends: before the handler is registered its byte is the only one.
LEMMA SendsAligned ==
  ASSUME Types, Aligned, WhenStale, Good, Good', MainSends
  PROVE  Aligned'
<1>1. /\ sv = "idle" /\ ph = "send" /\ ib = <<>> /\ ib' = Byte(data)
      /\ IF Op = "send" THEN Enter(After, 0) ELSE ph' = "recv" /\ UNCHANGED <<pc, data>>
      /\ UNCHANGED <<kbd, ob, ctl, sv, sdata, caps, stale>>
  BY DEF MainSends, MainRuns, GaveUp, Good, Byte, service
<1>2. Acks' = Acks /\ AnswerShape' /\ Acks \in Nat
  BY <1>1, AcksRange DEF Acks, Aligned, AnswerShape
<1>3. pc \in TxSteps \/ pc \in SendSteps
  BY <1>1 DEF Types, MainType
<1>4. CASE pc =< RegisterStep /\ pc \in SendSteps
  <2>1. BeforeHandler /\ Enter(After, 0) /\ pc \notin TxSteps
    BY <1>1, <1>4, OpOfStep DEF Aligned, Types, MainType, SendSteps, TxSteps
  <2>2. ctl.cfg /\ Acks = 0 /\ kbd.want = "cmd"
    BY <1>1, <1>4, <2>1 DEF BeforeHandler, WantAt, SendSteps
  <2>3. DataWaits' /\ ctl'.cfg
    BY <1>1, <2>2 DEF DataWaits, Byte
  <2>4. WantAt(10) = "cmd" /\ WantAt(RegisterStep) = "cmd" /\ 10 \notin SendSteps /\ RegisterStep \notin SendSteps
        /\ 10 \in 1..RegisterStep /\ RegisterStep \in 1..RegisterStep /\ 10 # RegisterStep
    BY DEF WantAt, RegisterStep, SendSteps
  <2> QED
    BY <1>1, <1>2, <1>4, <2>1, <2>2, <2>3, <2>4, AfterSend, EntersBefore
<1>5. CASE pc =< RegisterStep /\ pc \in TxSteps
  <2>1. /\ BeforeHandler /\ pc' = pc /\ ph' = "recv" /\ data = Script[pc].byte
        /\ pc \notin SendSteps /\ pc # RegisterStep
    BY <1>1, <1>5, OpOfStep DEF Aligned, BeforeHandler, Types, MainType, TxSteps, SendSteps, RegisterStep
  <2>2. Acks = 0 /\ kbd.want = WantAt(pc)
    BY <1>1, <2>1 DEF BeforeHandler
  <2>3. BeforeHandler'
    BY <1>1, <1>2, <1>5, <2>1, <2>2 DEF BeforeHandler, At, DataWaits
  <2> QED
    BY <1>2, <1>5, <2>1, <2>3 DEF Aligned
<1>6. CASE ~(pc =< RegisterStep)
  <2>1. pc \in {29, 30} /\ WithHandler /\ pc' = pc /\ ph' = "recv" /\ data = Script[pc].byte
    BY <1>1, <1>6, MainPlace, OpOfStep DEF WithHandler, Types, MainType, SendSteps
  <2>2. ~Configuring /\ ~Configuring' /\ ~ctl'.cfg /\ Between /\ Between' /\ sv' = "idle" /\ ib' # <<>>
    <3>1. Configuring => ib # <<>>
      BY <2>1 DEF WithHandler, Dialogue, DataWaits
    <3>2. ~Configuring /\ ~ctl.cfg
      BY <1>1, <2>1, <3>1 DEF WithHandler
    <3>3. ~Configuring'
      BY <2>1 DEF Configuring
    <3> QED
      BY <1>1, <3>2, <3>3 DEF Between, Byte
  <2>3. CASE pc = 29
    <3>1. InStep(0)
      BY <1>1, <2>1, <2>2, <2>3 DEF WithHandler, Dialogue, Configuring
    <3>2. At(<<>>, "cmd") /\ Outstanding =< 0
      BY <1>1, <2>2, <3>1 DEF InStep, At, Byte
    <3>3. Acks = 0
      BY <1>1, <1>2, <3>2 DEF Outstanding
    <3>4. data = SetLeds
      BY <2>1, <2>3 DEF Script, Tx, Cmd, Do
    <3>5. Asking'
      BY <1>1, <1>2, <2>2, <3>2, <3>3, <3>4 DEF Asking, At, Between
    <3>6. Dialogue'
      BY <2>1, <2>2, <2>3, <3>5, ScriptOps DEF Dialogue
    <3> QED
      BY <1>2, <1>6, <2>1, <2>2, <3>6 DEF Aligned, WithHandler
  <2>4. CASE pc = 30
    <3>1. Telling
      BY <1>1, <2>1, <2>4 DEF WithHandler, Dialogue
    <3>2. At(<<>>, "leds") /\ Acks = 0
      BY <2>2, <3>1 DEF Telling
    <3>3. data = 0
      BY <2>1, <2>4 DEF Script, Tx, Cmd, Do
    <3>4. Outstanding' = 1 /\ At(Byte(0), "leds")'
      BY <1>1, <1>2, <2>2, <3>2, <3>3 DEF Outstanding, At
    <3>5. InStep(1)'
      BY <2>2, <3>4 DEF InStep, Between
    <3>6. Shown(LitBefore)'
      <4>1. ~stale'
        BY <1>1, <2>4, ScriptOps DEF WhenStale, LedByteSent, ClearStep
      <4> QED
        BY <2>2, <3>4, <4>1, Bytes DEF Shown, At, LitBefore
    <3>7. Dialogue'
      BY <2>1, <2>2, <2>4, <3>5, <3>6, ScriptOps DEF Dialogue
    <3> QED
      BY <1>2, <1>6, <2>1, <2>2, <3>7 DEF Aligned, WithHandler
  <2> QED
    BY <2>1, <2>3, <2>4
<1> QED
  BY <1>3, <1>4, <1>5, <1>6

\* main reads: if nothing is mixed, a transaction reads its acknowledgement.
LEMMA ReadsAligned ==
  ASSUME Types, Aligned, Good, Good', MainReads
  PROVE  Aligned'
<1>1. /\ sv = "idle" /\ ph = "recv" /\ ob # Empty /\ Use(ob) /\ ob' = Empty /\ ctl' = ctl
      /\ Op = "tx" => ob = Ack
      /\ UNCHANGED <<kbd, ib, sv, sdata, caps, stale>>
  <2>1. ~GaveUp /\ ~mixed'
    BY DEF GaveUp, Good
  <2>2. /\ sv = "idle" /\ ph = "recv" /\ ob # Empty /\ Use(ob) /\ SetOutput(Empty, ctl)
        /\ mixed' = (mixed \/ (Op = "tx" /\ ob # Ack)) /\ UNCHANGED <<kbd, ib, service, stale>>
    BY <2>1 DEF MainReads, MainRuns
  <2>3. Op = "tx" => ob = Ack
    BY <2>1, <2>2, Zenon
  <2> QED
    BY <2>2, <2>3 DEF SetOutput, service
<1>2. AnswerShape' /\ DataWaits' = DataWaits /\ ob \in Int /\ Acks \in 0..2 /\ ib' = ib /\ kbd' = kbd /\ ctl' = ctl
  BY <1>1, AcksRange DEF Aligned, AnswerShape, DataWaits, Types, PortType
<1>3. /\ ob = Ack => Acks' = Acks - 1 /\ Acks > 0
      /\ ob # Ack => Acks' = Acks
  BY <1>1, AcksRead
<1>4. pc \in TxSteps \cup ReadSteps /\ (pc \in TxSteps => ob = Ack)
  BY <1>1, <1>2, Using, OpOfStep DEF Types, MainType
<1>5. CASE pc \in TxSteps
  <2>1. ob = Ack /\ Enter(pc + 1, 0) /\ Acks' = Acks - 1 /\ Acks > 0
    BY <1>1, <1>2, <1>3, <1>4, <1>5, Using
  <2>2. CASE pc =< RegisterStep
    <3>1. Acks = 1 /\ At(<<>>, WantAt(pc + 1))
      BY <1>1, <1>5, <2>1, <2>2 DEF Aligned, BeforeHandler
    <3>2. Acks' = 0 /\ ib = <<>> /\ kbd.want = WantAt(pc + 1) /\ ~DataWaits
      BY <2>1, <3>1 DEF At, DataWaits
    <3>3. pc + 1 \in 1..RegisterStep /\ pc + 1 \notin SendSteps /\ pc + 1 # RegisterStep
      BY <1>5, <2>2 DEF TxSteps, SendSteps, RegisterStep
    <3> QED
      BY <1>2, <2>1, <3>2, <3>3, EntersBefore
  <2>3. CASE ~(pc =< RegisterStep)
    <3>1. pc \in {29, 30} /\ WithHandler /\ ~ctl.cfg
      BY <1>1, <2>3, MainPlace DEF WithHandler, Configuring
    <3>2. /\ pc' = pc + 1 /\ (pc = 29 => ph' = "send" /\ data' = Script[30].byte) /\ (pc = 30 => ph' = "go")
          /\ Leds' = Leds /\ Leds \in {0, 4}
      BY <1>1, <2>1, <3>1, Enters, ScriptOps, LedsRange DEF TxSteps, SendSteps, ReadSteps, Leds
    <3>3. ~Configuring' /\ Between /\ Between' /\ sv' = "idle" /\ sv = "idle"
      BY <1>1, <3>1 DEF Between, Configuring
    <3>4. CASE pc = 29
      <4>1. Asking
        BY <1>1, <3>1, <3>4 DEF WithHandler, Dialogue
      <4>2. At(<<>>, "leds") /\ Acks = 1
        BY <1>2, <2>1, <3>3, <4>1 DEF Asking
      <4>3. Telling'
        BY <1>1, <2>1, <3>3, <4>2 DEF Telling, At, Between
      <4>4. Dialogue'
        BY <3>2, <3>3, <3>4, <4>3, <1>2, <3>1, ScriptOps DEF Dialogue
      <4> QED
        BY <1>2, <3>1, <3>2, <3>3, <3>4, <4>4 DEF Aligned, WithHandler, RegisterStep
    <3>5. CASE pc = 30
      <4>1. InStep(1) /\ Shown(LitBefore)
        BY <1>1, <3>1, <3>5 DEF WithHandler, Dialogue
      <4>2. Outstanding =< 1
        BY <3>3, <4>1 DEF InStep
      <4>3. ib = <<>> /\ Acks = 1
        BY <1>2, <2>1, <4>2 DEF Outstanding
      <4>4. At(<<>>, "cmd")
        BY <3>3, <4>1, <4>3, Bytes DEF InStep, At
      <4>5. Outstanding' = 0 /\ At(<<>>, "cmd")'
        BY <1>1, <2>1, <4>3, <4>4 DEF Outstanding, At
      <4>6. InStep(0)'
        BY <3>3, <4>5 DEF InStep, Between
      <4>7. Shown(LitBefore)'
        BY <1>1, <3>2, <3>3, <4>1 DEF Shown, LitBefore
      <4>8. Dialogue'
        BY <3>2, <3>3, <3>5, <4>6, <4>7, ScriptOps DEF Dialogue
      <4> QED
        BY <1>2, <3>1, <3>2, <3>3, <3>5, <4>8 DEF Aligned, WithHandler, RegisterStep
    <3> QED
      BY <3>1, <3>4, <3>5
  <2> QED
    BY <2>2, <2>3
<1>6. CASE pc \in ReadSteps
  <2>1. /\ Enter(Target(ob), Config(ob)) /\ Config(ob) \in Int /\ BeforeHandler
        /\ Target(ob) \in {4, 8, 13, 18, 22, 26, ResetStep, SetOneStep}
        /\ pc \notin TxSteps
    <3>1. pc \notin TxSteps /\ BeforeHandler
      BY <1>6 DEF ReadSteps, TxSteps, Aligned, RegisterStep
    <3>2. Enter(Target(ob), Config(ob))
      BY <1>1, <1>2, <1>6, <3>1, Using
    <3>3. Target(ob) # Failed
      BY <3>2 DEF Enter, Good
    <3> QED
      BY <1>2, <1>6, <3>1, <3>2, <3>3, TargetOf, ConfigInt
  <2>2. Acks = 0 /\ kbd.want = "cmd" /\ (DataWaits => ctl.cfg) /\ Acks' = 0
    BY <1>3, <1>6, <2>1 DEF BeforeHandler, WantAt, ReadSteps
  <2>3. /\ Target(ob) \in 1..RegisterStep /\ Target(ob) \notin SendSteps /\ Target(ob) # RegisterStep
        /\ WantAt(Target(ob)) = "cmd"
    BY <2>1 DEF WantAt, SendSteps, RegisterStep, ResetStep, SetOneStep
  <2> QED
    BY <1>2, <2>1, <2>2, <2>3, EntersBefore
<1> QED
  BY <1>4, <1>5, <1>6
-----------------------------------------------------------------------------
(* LedsFollowFlags.                                                        *)

\* The three facts of the induction.
LEMMA InitAligned == Init => AInv
<1> SUFFICES ASSUME Init PROVE AInv
  OBVIOUS
<1>1. Types
  BY InitTypes
<1>2. /\ kbd.ans = <<>> /\ kbd.set = 2 /\ kbd.want = "cmd" /\ ib = <<>> /\ pc = 1 /\ ph = "go"
  BY DEF Init
<1>3. Good => ob = Empty
  BY Zenon DEF Init, Good
<1>4. AnswerShape
  BY <1>2 DEF AnswerShape
<1>5. Good => Acks = 0
  BY <1>2, <1>3 DEF Acks, Empty, Ack
<1>6. Good => BeforeHandler
  BY <1>2, <1>5 DEF BeforeHandler, WantAt, DataWaits, TxSteps, SendSteps, RegisterStep
<1>7. WhenStale
  BY <1>2, ScriptOps, stale = FALSE DEF Init, WhenStale, LedByteSent, ClearStep
<1> QED
  BY <1>1, <1>2, <1>4, <1>6, <1>7 DEF AInv, Aligned, RegisterStep

LEMMA NextStale ==
  ASSUME Types, Aligned, WhenStale, Good, Good', [Next]_vars
  PROVE  WhenStale'
<1>1. CASE /\ UNCHANGED <<pc, ph, stale>>
           /\ sv' = sv \/ (sv = "idle" /\ sv' = "key")
  BY <1>1 DEF WhenStale, LedByteSent
<1>2. CASE Controller \/ KeyboardTakes \/ KeyboardSends \/ KeyPress \/ Unplug \/ Tick \/ TickBetween
           \/ StartGuest \/ Irq1 \/ Poll \/ UNCHANGED vars
  <2>1. UNCHANGED <<pc, ph, stale>>
    BY <1>2, Zenon DEF Controller, KeyboardTakes, KeyboardSends, KeyPress, Unplug, Tick, TickBetween, StartGuest,
         Irq1, Poll, vars, main, hist
  <2>2. sv' = sv \/ (sv = "idle" /\ sv' = "key")
    BY <1>2, Zenon DEF Controller, KeyboardTakes, KeyboardSends, KeyPress, Unplug, Tick, TickBetween, StartGuest,
         Irq1, Poll, vars, service, MainRuns
  <2> QED
    BY <1>1, <2>1, <2>2
<1>3. CASE ControllerCmd \/ RegisterHandler \/ MainSends
  <2>1. /\ sv' = "idle" /\ stale' = stale
        /\ pc \in CmdSteps \/ pc = 28 \/ ph = "send"
    BY <1>3, OpOfStep DEF ControllerCmd, RegisterHandler, MainSends, MainRuns, service, hist, Types, MainType
  <2>2. ~stale
    BY <2>1, ScriptOps DEF WhenStale, LedByteSent, ClearStep, Types, MainType, CmdSteps, TxSteps, SendSteps, ReadSteps
  <2> QED
    BY <2>1, <2>2 DEF WhenStale
<1>4. CASE MainReads
  <2>1. sv = "idle" /\ ph = "recv" /\ ob # Empty /\ Use(ob) /\ UNCHANGED <<sv, stale>>
    BY <1>4 DEF MainReads, MainRuns, GaveUp, Good, service
  <2>2. Op = "tx" => ob = Ack
    <3>1. mixed' = (mixed \/ (Op = "tx" /\ ob # Ack)) /\ ~mixed'
      BY <1>4 DEF MainReads, GaveUp, Good
    <3> QED
      BY <3>1, Zenon
  <2>3. stale => pc = 30
    BY <2>1, ScriptOps DEF WhenStale, LedByteSent, ClearStep, Types, MainType, TxSteps, SendSteps, ReadSteps
  <2>4. pc = 30 => pc' = 31
    <3> SUFFICES ASSUME pc = 30 PROVE pc' = 31
      OBVIOUS
    <3>1. Op = "tx" /\ ob = Ack /\ ob \in Int
      BY <2>2, OpOfStep, ScriptOps DEF TxSteps, Types, PortType
    <3>2. Enter(pc + 1, 0)
      BY <2>1, <3>1, Using DEF TxSteps
    <3> QED
      BY <3>2, ScriptOps, Enters
  <2> QED
    BY <2>1, <2>3, <2>4 DEF WhenStale, LedByteSent, ClearStep
<1>5. CASE ClearFlags
  <2>1. sv' = "idle" /\ stale' = (stale /\ caps) /\ pc' = Done
    BY <1>5, ScriptOps, Enters DEF ClearFlags, MainRuns
  <2> QED
    BY <2>1 DEF WhenStale
<1>6. CASE ServiceKey
  <2>1. /\ UNCHANGED <<pc, ph>>
        /\ \/ sv' = "idle" /\ stale' = stale /\ sv = "key"
           \/ sv' = "sendCmd" /\ stale' = LedByteSent
    BY <1>6 DEF ServiceKey, main
  <2>2. LedByteSent' = LedByteSent /\ ~(LedByteSent /\ pc = Done) /\ LedByteSent \in BOOLEAN
    BY <2>1, ScriptOps DEF LedByteSent, ClearStep
  <2> QED
    BY <2>1, <2>2 DEF WhenStale
<1>7. CASE ServiceSends \/ ServiceReads
  <2>1. UNCHANGED <<pc, ph, stale>> /\ sv \notin {"idle", "key"}
    BY <1>7 DEF ServiceSends, ServiceReads, main, hist
  <2> QED
    BY <2>1 DEF WhenStale, LedByteSent
<1> QED
  BY <1>2, <1>3, <1>4, <1>5, <1>6, <1>7 DEF Next, MainStep, ServiceStep

LEMMA NextAligned == AInv /\ [Next]_vars => AInv'
<1> SUFFICES ASSUME AInv, [Next]_vars PROVE AInv'
  OBVIOUS
<1>1. Types /\ Types'
  BY NextTypes DEF AInv
<1>2. SUFFICES ASSUME Good' PROVE Aligned' /\ WhenStale'
  BY <1>1 DEF AInv
<1>3. Good /\ Aligned /\ WhenStale
  BY <1>1, <1>2, GoodBefore DEF AInv
<1>a. WhenStale'
  BY <1>1, <1>2, <1>3, NextStale
<1>4. CASE Controller
  BY <1>1, <1>3, <1>a, <1>4, ControllerAligned
<1>5. CASE KeyboardTakes
  BY <1>1, <1>3, <1>a, <1>5, TakesAligned
<1>6. CASE KeyboardSends \/ KeyPress \/ Tick \/ TickBetween \/ StartGuest \/ Irq1 \/ Poll \/ UNCHANGED vars
  BY <1>1, <1>3, <1>a, <1>6, UnmovedSteps
<1>7. CASE Unplug
  <2>1. ~kbd'.alive
    BY <1>1, <1>7 DEF Unplug, Types, KbdType
  <2> QED
    BY <1>2, <2>1 DEF Good
<1>8. CASE MainStep
  BY <1>1, <1>2, <1>3, <1>a, <1>8, ControllerCmdAligned, SendsAligned, ReadsAligned, RegisterAligned, ClearAligned
     DEF MainStep
<1>9. CASE ServiceStep
  BY <1>1, <1>2, <1>3, <1>a, <1>9, ServiceKeyAligned, ServiceSendsAligned, ServiceReadsAligned DEF ServiceStep
<1> QED
  BY <1>4, <1>5, <1>6, <1>7, <1>8, <1>9 DEF Next

LEMMA AlignedShows == AInv => LedsFollowFlags
<1> SUFFICES ASSUME AInv, pc = Done, ~Waiting, late = 0, ~mixed, kbd.alive
             PROVE  kbd.leds = (IF caps \/ stale THEN 4 ELSE 0)
  BY DEF LedsFollowFlags
<1>1. Good /\ WithHandler /\ sv = "idle" /\ Acks \in 0..2
  BY ScriptOps, AcksRange DEF Good, Waiting, AInv, Aligned, RegisterStep
<1>2. InStep(0) /\ Shown(LitAfter)
  BY <1>1, ScriptOps DEF WithHandler, Dialogue
<1>3. Outstanding =< 0
  BY <1>1, <1>2 DEF InStep
<1>4. ib = <<>>
  BY <1>1, <1>3 DEF Outstanding
<1> QED
  BY <1>1, <1>2, <1>4 DEF Shown, LitAfter

\* Whenever keyboard_init is done and no keystroke is being processed, the LEDs
\* show the lock flags, if no wait gave up and no byte was taken for another: the
\* exchange update_leds starts in the handler never leaves its answer behind,
\* wherever in the last commands of keyboard_init it comes.  The one difference
\* between LEDs and flags is a lock key that comes after the LEDs are put out and
\* before keyboard.c:312: its flag is cleared, and its LED is lit until the next.
THEOREM LedsShowFlags == Spec => []LedsFollowFlags
<1>1. Init => AInv
  BY InitAligned
<1>2. AInv /\ [Next]_vars => AInv'
  BY NextAligned
<1>3. AInv => LedsFollowFlags
  BY AlignedShows
<1> QED
  BY <1>1, <1>2, <1>3, PTL DEF Spec
-----------------------------------------------------------------------------
(* Lone: without a key pressed and with a keyboard that answers in time, no *)
(* other dialogue comes in the way of keyboard_init, and at each step it is *)
(* known what is on the ports and what has been achieved so far.            *)

\* The configuration main writes: interrupts on, interface on, translation as it
\* is, in all three places.  The number of set 1 arrives as 1 only if the 8042 does
\* not translate, so that the last two find translation as they would set it.
NewConfig == 1 + (IF ctl.xlat THEN 64 ELSE 0)
\* Nothing is on its way to main, or at all.
Quiet == ob = Empty /\ ctl.out = Empty /\ kbd.ans = <<>>
Idle == Quiet /\ ib = <<>>
\* main waits for the answer v of the 8042 to command c.
Asked(c, v) ==
  \/ Quiet /\ ib = <<"cmd", c>>
  \/ /\ ib = <<>> /\ kbd.ans = <<>>
     /\ (ob = Empty /\ ctl.out = v) \/ (ob = v /\ ctl.out = Empty)
\* main waits for the answers s of the keyboard.
Answering(s) ==
  /\ ib = <<>> /\ ctl.out = Empty
  /\ (ob = Empty /\ kbd.ans = s) \/ (ob = Translate(s[1]) /\ kbd.ans = Tail(s))
\* The answers to a transaction, of which keyboard_transact reads the first.
Whole == IF pc = 11 THEN <<Ack, BatOk>> ELSE IF pc = 16 THEN <<Ack, 1>> ELSE <<Ack>>
\* What keyboard_init has achieved before its step i.
Facts(i) ==
  /\ i >= 5 /\ i # 11 => ~ctl.off
  /\ i = 11 => ctl.cfg \/ ctl.irq
  /\ i >= 12 => ctl.irq /\ kbd.leds = 0
  /\ i \in 18..23 => ctl.xlat
  /\ i \in 24..27 => ~ctl.xlat
  /\ i \in 15..19 \cup 24..27 => kbd.set = 1
  /\ i \in 20..23 => kbd.set = 2
  /\ i >= 28 => kbd.set = IF ctl.xlat THEN 2 ELSE 1
\* The ports, at each step of keyboard_init before it registers the handler.
OnScript ==
  /\ late = 0
  /\ ~(pc \in TxSteps /\ ph = "recv") => Facts(pc)
  /\ (ctl.cfg => pc \in SendSteps \cup {10, 11, 28})
  /\ pc \in {1, 6, 8, 20, 22, 24, 26} => Idle
  /\ pc \in {8, 22, 26} \cup SendSteps => data = NewConfig
  /\ pc \in SendSteps \cup {2, 10, 28} => Quiet
  /\ pc = 2 => ib \in {<<>>, <<"cmd", 173>>}
  /\ pc = 3 => Asked(170, TestOk)
  /\ pc \in {7, 21, 25} => Asked(32, ConfigByte)
  /\ pc \in {10, 28} => IF ctl.cfg THEN ib = Byte(NewConfig) ELSE ib = <<>> /\ ctl.irq
  /\ pc = 12 => Answering(<<BatOk>>)
  /\ pc = 17 => Answering(<<1>>)
  /\ pc \in TxSteps /\ ph = "send" => Quiet /\ (ib = <<>> \/ (pc = 11 /\ ib = <<"cmd", 174>>))
  /\ pc \in TxSteps /\ ph = "recv" =>
       \/ Quiet /\ ib = Byte(Script[pc].byte) /\ Facts(pc)
       \/ Answering(Whole) /\ ~ctl.cfg /\ Facts(pc + 1)
       \/ Answering(<<Resend>>)
       \/ pc = 11 /\ Idle
\* And afterwards: the handler may take the acknowledgements from main, so that
\* only what cannot be undone by LED commands is left to say.
Registered ==
  /\ pc \in 29..Done /\ Facts(28)
  /\ ctl.out = Empty /\ ob \in {Empty, Ack, Resend} /\ kbd.ans \in {<<>>, <<Ack>>, <<Resend>>}
  /\ IF ctl.cfg THEN ib = Byte(NewConfig) /\ kbd.want = "cmd"
     ELSE ib \in {<<>>, Byte(0)} \/ (ib = Byte(SetLeds) /\ kbd.want = "cmd")
  /\ kbd.want \in {"cmd", "leds"}
  /\ ph = "send" => \/ data = 0
                    \/ data = SetLeds /\ kbd.want = "cmd" /\ (ib = <<>> \/ ctl.cfg)
\* The inductive invariant for InitLeavesSet1.
Lone ==
  /\ kbd.keys = <<>> /\ ~caps /\ sv \in {"idle", "key"}
  /\ IF pc =< RegisterStep THEN OnScript ELSE Registered
RInv == AInv /\ pressed \in Nat /\ (Undisturbed => Lone)

\* What is undisturbed after a step was undisturbed before it.
LEMMA UndisturbedBefore ==
  ASSUME Types, pressed \in Nat, [Next]_vars, Undisturbed'
  PROVE  Undisturbed /\ ~KeyPress
<1>1. late < 2
  BY Remembered DEF GaveUp, Undisturbed, Types, MainType
<1>2. ~mixed
  BY Remembered, Zenon DEF Undisturbed
<1>3. pressed = 0 /\ ~KeyPress
  <2>1. pressed' = pressed \/ KeyPress
    BY Zenon DEF Next, MainStep, ServiceStep, vars, hist, Controller, KeyboardTakes,
         KeyboardSends, KeyPress, Unplug, ControllerCmd, MainSends, MainReads, GaveUp, RegisterHandler,
         ClearFlags, Tick, TickBetween, StartGuest, Irq1, Poll, ServiceKey, ServiceSends, ServiceReads
  <2>2. ~KeyPress
    BY DEF KeyPress, Undisturbed
  <2> QED
    BY <2>1, <2>2 DEF Undisturbed
<1>4. kbd.alive
  <2> SUFFICES ASSUME ~kbd.alive PROVE ~kbd'.alive
    BY DEF Undisturbed
  <2> QED
    BY AliveBefore
<1> QED
  BY <1>1, <1>2, <1>3, <1>4 DEF Undisturbed
-----------------------------------------------------------------------------
(* The chips, before the handler is registered.                            *)

LEMMA RestLone ==
  ASSUME Lone, UNCHANGED <<kbd, ib, ob, ctl, pc, ph, data, caps, late>>, sv' \in {"idle", "key"}
  PROVE  Lone'
<1>1. /\ \A i : Facts(i) => Facts(i)'
      /\ Idle' = Idle /\ Quiet' = Quiet /\ NewConfig' = NewConfig /\ Whole' = Whole /\ ConfigByte' = ConfigByte
  BY DEF Facts, Idle, Quiet, NewConfig, Whole, ConfigByte
<1>2. /\ \A c, v : Asked(c, v) => Asked(c, v)'
      /\ \A s : Answering(s) => Answering(s)'
  BY <1>1 DEF Asked, Answering, Translate, Quiet
<1>3. OnScript => OnScript'
  BY <1>1, <1>2 DEF OnScript
<1>4. Registered => Registered'
  BY <1>1 DEF Registered
<1> QED
  BY <1>3, <1>4 DEF Lone

\* The 8042 takes the configuration: it changes nothing but what it should.
LEMMA ConfigTaken ==
  ASSUME Types, ib = Byte(NewConfig), Controller, Takes("data")
  PROVE  /\ ib' = <<>> /\ ob' = ob /\ kbd' = kbd /\ ctl'.irq /\ ~ctl'.off /\ ~ctl'.cfg /\ ctl'.out = Empty
         /\ ctl'.xlat <=> ctl.xlat
<1>1. ib[2] = IF ctl.xlat THEN 65 ELSE 1
  BY DEF Byte, NewConfig
<1>4. /\ Bit(65, 1) /\ ~Bit(65, 16) /\ Bit(65, 64)
      /\ Bit(1, 1) /\ ~Bit(1, 16) /\ ~Bit(1, 64)
  BY DEF Bit
<1>2. CASE ctl.xlat
  BY <1>1, <1>2, <1>4, TakesConfig
<1>3. CASE ~ctl.xlat
  BY <1>1, <1>3, <1>4, TakesConfig
<1> QED
  BY <1>2, <1>3

LEMMA ControllerOnScript ==
  ASSUME Types, BeforeHandler, OnScript, pc =< RegisterStep, Controller
  PROVE  OnScript'
<1>1. UNCHANGED <<pc, ph, data, kbd, late>> /\ pc \in Int /\ Len(Script) = 31
  BY ScriptOps DEF Controller, main, hist, Types, MainType, Failed
<1>2. CASE Takes("cmd")
  <2>1. ib # <<>> /\ ib[1] = "cmd" /\ ib' = <<>> /\ ob' = ob /\ ctl.out = Empty /\ \A b : ib # Byte(b)
    BY <1>2, TakesCmd DEF Takes, Byte
  <2>2. /\ ctl'.xlat = ctl.xlat /\ ctl'.irq = ctl.irq /\ NewConfig' = NewConfig
    BY <1>2, TakesCmd DEF NewConfig
  <2>3. CASE pc = 2
    <3>1. ib[2] = 173 /\ Quiet
      BY <2>1, <2>3 DEF OnScript
    <3>2. ctl'.out = Empty /\ ctl'.cfg = ctl.cfg
      BY <1>2, <3>1, TakesCmd
    <3> QED
      BY <1>1, <2>1, <2>3, <3>1, <3>2 DEF OnScript, Facts, Quiet, TxSteps, SendSteps
  <2>4. CASE pc \in {3, 7, 21, 25}
    <3>1. Quiet /\ ib = <<"cmd", IF pc = 3 THEN 170 ELSE 32>>
      BY <2>1, <2>4 DEF OnScript, Asked
    <3>2. ctl'.cfg = ctl.cfg /\ ctl'.off = ctl.off /\ ctl'.out = IF pc = 3 THEN TestOk ELSE ConfigByte
      BY <1>2, <3>1, TakesCmd
    <3>3. ConfigByte' = ConfigByte
      BY <2>2, <3>2 DEF ConfigByte
    <3>4. Facts(pc) => Facts(pc)'
      BY <1>1, <2>2, <3>2 DEF Facts
    <3>5. pc = 3 => Asked(170, TestOk)'
      BY <1>1, <2>1, <3>1, <3>2 DEF Asked, Quiet
    <3>6. pc # 3 => Asked(32, ConfigByte)'
      BY <1>1, <2>1, <3>1, <3>2, <3>3 DEF Asked, Quiet
    <3> QED
      BY <1>1, <2>4, <3>2, <3>4, <3>5, <3>6 DEF OnScript, TxSteps, SendSteps
  <2>5. CASE pc \in SendSteps
    <3>1. ib[2] = 96 /\ Quiet
      BY <2>1, <2>5 DEF OnScript, BeforeHandler
    <3>2. ctl'.cfg /\ ctl'.off = ctl.off /\ ctl'.out = Empty
      BY <1>2, <2>1, <3>1, TakesCmd DEF Types, CtlType
    <3>3. Facts(pc) => Facts(pc)'
      BY <1>1, <2>2, <3>2 DEF Facts
    <3>4. Quiet'
      BY <1>1, <2>1, <3>1, <3>2 DEF Quiet
    <3> QED
      BY <1>1, <2>1, <2>2, <2>5, <3>2, <3>3, <3>4 DEF OnScript, TxSteps, SendSteps
  <2>6. CASE pc = 11
    <3>1. ph = "send" /\ Quiet /\ ib[2] = 174
      BY <2>1, <2>6 DEF OnScript, TxSteps, Types, MainType, Answering, Idle
    <3>2. ctl'.cfg = ctl.cfg /\ ctl'.out = Empty
      BY <1>2, <3>1, TakesCmd
    <3>3. Facts(11)' /\ Quiet'
      <4>1. Facts(11)
        BY <2>6, <3>1 DEF OnScript
      <4> QED
        BY <1>1, <2>1, <2>2, <3>1, <3>2, <4>1 DEF Facts, Quiet
    <3> QED
      BY <1>1, <2>1, <2>6, <3>1, <3>2, <3>3 DEF OnScript, TxSteps, SendSteps
  <2>7. pc = 2 \/ pc \in {3, 7, 21, 25} \/ pc \in SendSteps \/ pc = 11
    <3>1. pc \in {10, 28} => ib = Byte(NewConfig) \/ ib = <<>>
      BY DEF OnScript
    <3>2. pc \in {1, 6, 8, 20, 22, 24, 26, 12, 17} => ib = <<>>
      BY DEF OnScript, Idle, Answering
    <3>3. pc \in TxSteps /\ pc # 11 => ib = <<>> \/ ib = Byte(Script[pc].byte)
      BY DEF OnScript, Idle, Answering, Types, MainType
    <3>4. pc \in 1..28
      BY <1>1 DEF Types, MainType, RegisterStep
    <3> QED
      BY <2>1, <3>1, <3>2, <3>3, <3>4 DEF TxSteps, SendSteps
  <2> QED
    BY <2>3, <2>4, <2>5, <2>6, <2>7
<1>3. CASE Takes("data")
  <2>1. ib # <<>> /\ ib[1] = "data" /\ ib' = <<>> /\ ob' = ob /\ ctl.cfg /\ ~ctl'.cfg /\ ctl'.out = Empty
    BY <1>3, TakesConfig DEF Takes
  <2>2. pc \in {10, 11, 28}
    BY <2>1 DEF OnScript, BeforeHandler
  <2>3. CASE pc \in {10, 28}
    <3>1. ib = Byte(NewConfig) /\ Quiet /\ Facts(pc)
      BY <2>1, <2>3 DEF OnScript, TxSteps
    <3>2. ctl'.irq /\ ~ctl'.off /\ (ctl'.xlat <=> ctl.xlat)
      BY <1>3, <3>1, ConfigTaken
    <3>3. Facts(pc)' /\ Quiet'
      BY <1>1, <2>1, <2>3, <3>1, <3>2 DEF Facts, Quiet
    <3> QED
      BY <1>1, <2>1, <2>3, <3>2, <3>3 DEF OnScript, TxSteps, SendSteps
  <2>4. CASE pc = 11
    <3>1. ph = "recv" /\ Quiet
      BY <2>1, <2>4 DEF OnScript, TxSteps, Types, MainType, Answering, Idle
    <3>2. Idle'
      BY <1>1, <2>1, <3>1 DEF Idle, Quiet
    <3> QED
      BY <1>1, <2>1, <2>4, <3>1, <3>2 DEF OnScript, TxSteps, SendSteps
  <2> QED
    BY <2>2, <2>3, <2>4
<1>4. CASE ~Takes("cmd") /\ ~Takes("data")
  <2>1. ib' = ib /\ ob = Empty /\ ob' = ctl.out /\ ctl.out # Empty /\ ctl' = [ctl EXCEPT !.out = Empty]
    BY <1>4, ControllerAnswers
  <2>2. ctl'.out = Empty /\ UNCHANGED <<ctl.irq, ctl.off, ctl.xlat, ctl.cfg>>
    BY <2>1 DEF Types, CtlType
  <2>3. pc \in {3, 7, 21, 25}
    <3>1. pc \in 1..28
      BY <1>1 DEF Types, MainType, RegisterStep
    <3>2. pc \in TxSteps => ctl.out = Empty
      BY DEF OnScript, Answering, Types, MainType, Idle, Quiet
    <3>3. pc \notin TxSteps /\ pc \notin {3, 7, 21, 25} => ctl.out = Empty
      BY <3>1 DEF OnScript, Answering, Idle, Quiet, TxSteps, SendSteps
    <3> QED
      BY <2>1, <3>2, <3>3
  <2>4. Facts(pc) => Facts(pc)'
    BY <1>1, <2>2 DEF Facts
  <2>5. ConfigByte' = ConfigByte
    BY <2>2 DEF ConfigByte
  <2>6. \A c, v : v # Empty /\ Asked(c, v) => ib = <<>> /\ kbd.ans = <<>> /\ ctl.out = v
    BY <2>1 DEF Asked, Quiet
  <2>7. \A c, v : v # Empty /\ Asked(c, v) => ib' = <<>> /\ kbd'.ans = <<>> /\ ob' = v
    BY <1>1, <2>1, <2>6
  <2>8. TestOk # Empty /\ ConfigByte # Empty
    BY ConfigByteRange DEF TestOk, Empty
  <2>9. pc = 3 => Asked(170, TestOk)'
    <3>1. pc = 3 => Asked(170, TestOk)
      BY DEF OnScript
    <3> QED
      BY <2>2, <2>7, <2>8, <3>1 DEF Asked
  <2>10. pc # 3 => Asked(32, ConfigByte)'
    <3>1. pc # 3 => Asked(32, ConfigByte)
      BY <2>3 DEF OnScript
    <3>2. pc # 3 => ib' = <<>> /\ kbd'.ans = <<>> /\ ob' = ConfigByte
      BY <2>7, <2>8, <3>1
    <3> QED
      BY <2>2, <2>5, <3>2 DEF Asked
  <2> QED
    BY <1>1, <2>2, <2>3, <2>4, <2>9, <2>10 DEF OnScript, TxSteps, SendSteps
<1> QED
  BY <1>2, <1>3, <1>4
LEMMA ScriptBytes ==
  /\ Script[4].byte = SetLeds /\ Script[5].byte = 7 /\ Script[11].byte = Reset
  /\ Script[13].byte = ScanSet /\ Script[14].byte = 1 /\ Script[15].byte = ScanSet
  /\ Script[16].byte = 0 /\ Script[18].byte = ScanSet /\ Script[19].byte = 2
  /\ Script[29].byte = SetLeds /\ Script[30].byte = 0
  BY DEF Script, Tx, Cmd, Do

LEMMA FirstSteps ==
  ASSUME Types, pc =< RegisterStep
  PROVE  pc \in 1..28
<1>1. pc \in 1..Failed /\ Failed = 33 /\ pc =< 28
  BY ScriptOps DEF Types, MainType, RegisterStep
<1>2. \A i \in 1..33 : i =< 28 => i \in 1..28
  OBVIOUS
<1> QED
  BY <1>1, <1>2, Zenon

LEMMA TxBytes == \A i \in TxSteps : Script[i].byte \in Int
  BY ScriptBytes DEF TxSteps, SetLeds, Reset, ScanSet

\* The keyboard answers the byte of the transaction main is in.
LEMMA TakesOnScript ==
  ASSUME Types, BeforeHandler, OnScript, AnswerShape, kbd.alive, pc =< RegisterStep, KeyboardTakes,
         kbd.keys = <<>>
  PROVE  OnScript' /\ kbd'.keys = <<>>
<1> DEFINE b == ib[2]
<1>1. /\ ib' = <<>> /\ ob' = ob /\ ~ctl.cfg /\ ctl'.cfg = ctl.cfg /\ ctl.out = Empty /\ ctl'.out = Empty
      /\ ctl'.irq = ctl.irq /\ ctl'.xlat = ctl.xlat /\ ~ctl'.off
      /\ b \in Int /\ ib = Byte(b) /\ kbd' = Answered(kbd, b)
  BY Taking DEF Types, CtlType
<1>2. UNCHANGED <<pc, ph, data, late>> /\ KbdType /\ pc \in 1..28
  <2>1. UNCHANGED <<pc, ph, data, late>>
    BY DEF KeyboardTakes, main, hist
  <2>2. KbdType /\ pc \in 1..28
    BY FirstSteps DEF Types
  <2> QED
    BY <2>1, <2>2
<1> HIDE DEF b
<1>3. ib # <<>> /\ ib[1] = "data"
  BY <1>1, Bytes
<1>4. pc \in TxSteps /\ ph = "recv" /\ Quiet /\ ib = Byte(Script[pc].byte) /\ Facts(pc)
  <2>1. pc \notin {10, 28} \cup SendSteps
    BY <1>1, <1>3 DEF OnScript, BeforeHandler
  <2>2. pc \notin {1, 6, 8, 20, 22, 24, 26, 12, 17}
    BY <1>3 DEF OnScript, Idle, Answering
  <2>3. pc \notin {2, 3, 7, 21, 25}
    BY <1>3 DEF OnScript, Asked
  <2>4. pc \in TxSteps
    BY <1>2, <2>1, <2>2, <2>3 DEF TxSteps, SendSteps
  <2>5. ph = "recv"
    BY <1>3, <2>4 DEF OnScript, Types, MainType
  <2> QED
    BY <1>3, <2>4, <2>5 DEF OnScript, Answering, Idle
<1>5. b = Script[pc].byte /\ kbd.want = WantAt(pc)
  <2>1. Script[pc].byte \in Int
    BY <1>4, TxBytes
  <2>2. b = Script[pc].byte
    BY <1>1, <1>4, <2>1, SameByte
  <2>3. kbd.want = WantAt(pc)
    BY <1>1, <1>3, <1>4 DEF BeforeHandler, DataWaits, At
  <2> QED
    BY <2>2, <2>3
<1>6. \A s : kbd'.ans = s => Answering(s)'
  BY <1>1, <1>4 DEF Answering, Quiet
<1>7. SUFFICES /\ \/ kbd'.ans = Whole /\ Facts(pc + 1)'
                  \/ kbd'.ans = <<Resend>>
               /\ kbd'.keys = <<>>
  <2>1. Whole' = Whole
    BY <1>2 DEF Whole
  <2>2. Answering(Whole)' \/ ~(kbd'.ans = Whole)
    BY <1>6, <2>1 DEF Answering
  <2>3. Answering(<<Resend>>)' \/ ~(kbd'.ans = <<Resend>>)
    BY <1>6
  <2>4. pc' = pc /\ ph' = ph /\ ~ctl'.cfg /\ late' = late
    BY <1>1, <1>2
  <2>5. pc \notin SendSteps \cup {1, 2, 3, 6, 7, 8, 10, 12, 17, 20, 21, 22, 24, 25, 26, 28}
    BY <1>4 DEF TxSteps, SendSteps
  <2>6. (Answering(Whole)' /\ Facts(pc + 1)') \/ Answering(<<Resend>>)' => OnScript'
    BY <1>4, <2>4, <2>5 DEF OnScript
  <2> QED
    BY <2>2, <2>3, <2>6
<1>8. CASE pc \in {4, 13, 15, 18}
  <2>1. b \in {SetLeds, ScanSet} /\ kbd.want = "cmd"
    BY <1>5, <1>8, ScriptBytes DEF WantAt
  <2>2. kbd'.ans = <<Ack>> /\ kbd'.leds = kbd.leds /\ kbd'.set = kbd.set /\ kbd'.keys = kbd.keys
    BY <1>1, <1>2, <2>1, AnswersCommand DEF SetLeds, ScanSet, Reset
  <2>3. Facts(pc + 1)'
    BY <1>1, <1>2, <1>4, <1>8, <2>2 DEF Facts
  <2> QED
    BY <1>8, <2>2, <2>3 DEF Whole
<1>9. CASE pc = 5
  <2>1. kbd'.ans = <<Ack>> /\ kbd'.set = kbd.set /\ kbd'.keys = kbd.keys
    BY <1>1, <1>2, <1>5, <1>9, AnswersLeds DEF WantAt
  <2>2. Facts(pc + 1)'
    BY <1>1, <1>2, <1>9 DEF Facts
  <2> QED
    BY <1>9, <2>1, <2>2 DEF Whole
<1>10. CASE pc = 11
  <2>1. b = Reset /\ kbd.want = "cmd"
    BY <1>5, <1>10, ScriptBytes DEF WantAt
  <2>2. kbd'.ans = <<Ack, BatOk>> /\ kbd'.leds = 0 /\ kbd'.keys = <<>>
    BY <1>1, <1>2, <2>1, AnswersCommand
  <2>3. Facts(pc + 1)'
    BY <1>1, <1>2, <1>4, <1>10, <2>2 DEF Facts
  <2> QED
    BY <1>10, <2>2, <2>3 DEF Whole
<1>11. CASE pc \in {14, 16, 19}
  <2>1. b = (IF pc = 14 THEN 1 ELSE IF pc = 16 THEN 0 ELSE 2) /\ kbd.want = "set"
    BY <1>5, <1>11, ScriptBytes DEF WantAt
  <2>2. kbd'.leds = kbd.leds /\ kbd'.keys = kbd.keys
    BY <1>1, <1>2, <2>1, AnswersSet
  <2>3. CASE pc = 16
    <3>1. kbd'.ans = <<Ack, kbd.set>> /\ kbd'.set = kbd.set /\ kbd.set = 1
      BY <1>1, <1>2, <1>4, <2>1, <2>3, AnswersSet DEF Facts
    <3>2. Facts(pc + 1)'
      BY <1>1, <1>2, <1>4, <2>2, <2>3, <3>1 DEF Facts
    <3> QED
      BY <2>2, <2>3, <3>1, <3>2 DEF Whole
  <2>4. CASE pc # 16
    <3>1. \/ kbd'.set = b /\ kbd'.ans = <<Ack>>
          \/ kbd'.ans = <<Resend>>
      BY <1>1, <1>2, <1>11, <2>1, <2>4, AnswersSet
    <3>2. kbd'.set = b => Facts(pc + 1)'
      BY <1>1, <1>2, <1>4, <1>11, <2>1, <2>2, <2>4 DEF Facts
    <3> QED
      BY <1>11, <2>2, <2>4, <3>1, <3>2 DEF Whole
  <2> QED
    BY <2>3, <2>4
<1> QED
  BY <1>2, <1>4, <1>8, <1>9, <1>10, <1>11 DEF TxSteps

LEMMA SendsOnScript ==
  ASSUME Types, OnScript, pc =< RegisterStep, KeyboardSends, kbd.keys = <<>>
  PROVE  OnScript' /\ kbd'.keys = <<>>
<1>1. /\ ob = Empty /\ ctl.out = Empty /\ ctl' = ctl /\ ib' = ib /\ kbd.ans # <<>>
      /\ ob' = Translate(kbd.ans[1]) /\ kbd'.ans = Tail(kbd.ans) /\ kbd'.keys = <<>>
      /\ kbd'.leds = kbd.leds /\ kbd'.set = kbd.set
  BY Sending
<1>2. UNCHANGED <<pc, ph, data, late>> /\ pc \in 1..28
  <2>1. UNCHANGED <<pc, ph, data, late>>
    BY DEF KeyboardSends, main, hist
  <2>2. pc \in 1..28
    BY FirstSteps DEF Types
  <2> QED
    BY <2>1, <2>2
<1>3. /\ \A x : Translate(x)' = Translate(x)
      /\ \A i : Facts(i) => Facts(i)'
      /\ Whole' = Whole
  BY <1>1, <1>2 DEF Translate, Facts, Whole
<1>4. \A s : s[1] \in {Ack, Resend, BatOk, 1} /\ Answering(s) => Answering(s)'
  <2> SUFFICES ASSUME NEW s, s[1] \in {Ack, Resend, BatOk, 1}, Answering(s) PROVE Answering(s)'
    OBVIOUS
  <2>1. Translate(s[1]) # Empty
    BY DEF Translate, Ack, Resend, BatOk, Empty, CapsKey
  <2>2. kbd.ans = s /\ ib = <<>>
    BY <1>1, <2>1 DEF Answering
  <2>3. ib' = <<>> /\ ctl'.out = Empty /\ ob' = Translate(s[1])' /\ kbd'.ans = Tail(s)
    BY <1>1, <1>3, <2>2
  <2> QED
    BY <2>3 DEF Answering
<1>5. ~Quiet /\ ~Idle /\ \A c, v : v # Empty => ~Asked(c, v)
  BY <1>1 DEF Quiet, Idle, Asked
<1>6. TestOk # Empty /\ ConfigByte # Empty
  BY ConfigByteRange DEF TestOk, Empty
<1>7. pc \in TxSteps \cup {12, 17}
  BY <1>2, <1>5, <1>6 DEF OnScript, SendSteps, TxSteps
<1>8. ctl' = ctl /\ (pc \in TxSteps => ph = "recv")
  BY <1>1, <1>5, <1>7 DEF OnScript, Types, MainType
<1>9. \A s \in {Whole, <<Resend>>, <<BatOk>>, <<1>>} : s[1] \in {Ack, Resend, BatOk, 1}
  BY DEF Whole
<1>10. CASE pc \in TxSteps
  <2>1. /\ Answering(Whole) /\ ~ctl.cfg /\ Facts(pc + 1)
        \/ Answering(<<Resend>>)
    BY <1>5, <1>8, <1>10 DEF OnScript
  <2>2. Answering(Whole) => Answering(Whole)'
    BY <1>3, <1>4, <1>9 DEF Answering
  <2>3. Answering(<<Resend>>) => Answering(<<Resend>>)'
    BY <1>4, <1>9
  <2>4. Facts(pc + 1) => Facts(pc + 1)'
    BY <1>1, <1>2 DEF Facts
  <2> QED
    BY <1>1, <1>2, <1>8, <1>10, <2>1, <2>2, <2>3, <2>4 DEF OnScript, TxSteps, SendSteps
<1>11. CASE pc \in {12, 17}
  <2>0. Facts(pc) => Facts(pc)'
    BY <1>1, <1>2 DEF Facts
  <2>1. /\ Answering(<<BatOk>>) => Answering(<<BatOk>>)'
        /\ Answering(<<1>>) => Answering(<<1>>)'
    BY <1>2, <1>3, <1>4, <1>9 DEF Answering
  <2>2. pc' = pc /\ ph' = ph /\ late' = late /\ ctl' = ctl
    BY <1>1, <1>2
  <2>3. pc \notin TxSteps \cup SendSteps
    BY <1>11 DEF TxSteps, SendSteps
  <2>4. pc \notin {1, 2, 3, 6, 7, 8, 10, 11, 20, 21, 22, 24, 25, 26, 28}
    BY <1>11
  <2>5. Facts(pc)' /\ (pc = 12 => Answering(<<BatOk>>)') /\ (pc = 17 => Answering(<<1>>)')
    BY <2>0, <2>1, <2>3 DEF OnScript
  <2>6. ~ctl'.cfg /\ late' = 0
    BY <1>1, <1>2, <2>3, <2>4 DEF OnScript
  <2>7. OnScript'
    BY <2>2, <2>3, <2>4, <2>5, <2>6 DEF OnScript
  <2> QED
    BY <1>1, <2>7
<1> QED
  BY <1>1, <1>7, <1>10, <1>11
-----------------------------------------------------------------------------
(* main, before the handler is registered.                                 *)

\* What has to be shown when main enters a step.
LEMMA EntersScript ==
  ASSUME NEW i \in 1..28, NEW x \in Int, Enter(i, x), late' = 0, Facts(i)',
         ctl'.cfg => i \in SendSteps \cup {10, 11, 28},
         i \in {1, 6, 8, 20, 22, 24, 26} => Idle',
         i \in {8, 22, 26} \cup SendSteps => x = NewConfig',
         i \in SendSteps \cup {2, 10, 28} => Quiet',
         i = 2 => ib' \in {<<>>, <<"cmd", 173>>},
         i = 3 => Asked(170, TestOk)',
         i \in {7, 21, 25} => Asked(32, ConfigByte)',
         i \in {10, 28} => IF ctl'.cfg THEN ib' = Byte(NewConfig)' ELSE ib' = <<>> /\ ctl'.irq,
         i = 12 => Answering(<<BatOk>>)',
         i = 17 => Answering(<< 1 >>)',
         i \in TxSteps => Quiet' /\ (ib' = <<>> \/ (i = 11 /\ ib' = <<"cmd", 174>>))
  PROVE  OnScript' /\ pc' = i
<1>1. i \in 1..Failed
  BY ScriptOps
<1>2. pc' = i /\ (i \in TxSteps => ph' = "send") /\ (i \notin TxSteps => data' = x)
  BY <1>1, Enters
<1>3. i \in {8, 22, 26} \cup SendSteps => i \notin TxSteps
  BY DEF TxSteps, SendSteps
<1>4. Facts(pc)'
  BY <1>2 DEF Facts
<1> QED
  BY <1>2, <1>3, <1>4 DEF OnScript

LEMMA CmdOnScript ==
  ASSUME Types, OnScript, pc =< RegisterStep, ControllerCmd
  PROVE  OnScript' /\ pc' =< RegisterStep
<1>1. pc \in CmdSteps /\ RegisterStep = 28
  BY FirstSteps, OpOfStep DEF ControllerCmd, Types, MainType, RegisterStep
<1>2. PICK i \in 1..28 : i = pc + 1
  BY <1>1 DEF CmdSteps
<1>3. /\ ib' = <<"cmd", Script[pc].byte>> /\ Enter(i, data) /\ data \in Int
      /\ UNCHANGED <<kbd, ob, ctl, late>>
  BY <1>2 DEF ControllerCmd, Types, MainType, hist
<1>4. /\ Quiet' = Quiet /\ NewConfig' = NewConfig /\ ConfigByte' = ConfigByte
      /\ \A j : Facts(j) => Facts(j)'
      /\ Idle => Quiet
  BY <1>3 DEF Quiet, NewConfig, ConfigByte, Facts, Idle
<1>5. Facts(pc) /\ late' = 0
  <2>1. pc \notin TxSteps
    BY <1>1 DEF CmdSteps, TxSteps
  <2>2. Facts(pc) /\ late = 0
    BY <2>1, Zenon DEF OnScript
  <2> QED
    BY <1>3, <2>2
<1>6. CASE pc \in {1, 2}
  <2>1. Quiet' /\ ~ctl'.cfg
    BY <1>3, <1>4, <1>6 DEF OnScript, SendSteps
  <2>2. ib' = <<"cmd", IF pc = 1 THEN 173 ELSE 170>>
    BY <1>3, <1>6 DEF Script, Cmd
  <2>3. Facts(i)'
    BY <1>2, <1>6 DEF Facts
  <2>4. pc = 2 => Asked(170, TestOk)'
    BY <2>1, <2>2 DEF Asked
  <2>5. i \in {2, 3} /\ i \notin SendSteps \cup TxSteps
    BY <1>2, <1>6 DEF SendSteps, TxSteps
  <2>6. OnScript' /\ pc' = i
    BY <1>2, <1>3, <1>5, <1>6, <2>1, <2>2, <2>3, <2>4, <2>5, EntersScript
  <2> QED
    BY <1>1, <2>6
<1>7. CASE pc \in {6, 20, 24}
  <2>1. Quiet' /\ ~ctl'.cfg
    BY <1>3, <1>4, <1>7 DEF OnScript, SendSteps
  <2>2. ib' = <<"cmd", 32>>
    BY <1>3, <1>7 DEF Script, Cmd, Tx, Do
  <2>3. Facts(i)'
    BY <1>3, <1>5, <1>2, <1>7 DEF Facts
  <2>4. Asked(32, ConfigByte)'
    BY <2>1, <2>2 DEF Asked
  <2>5. i \in {7, 21, 25} /\ i \notin SendSteps \cup TxSteps
    BY <1>2, <1>7 DEF SendSteps, TxSteps
  <2>6. OnScript' /\ pc' = i
    BY <1>3, <1>5, <2>1, <2>3, <2>4, <2>5, EntersScript
  <2> QED
    BY <1>1, <2>6
<1>8. CASE pc \in {8, 22, 26}
  <2>1. Quiet' /\ ~ctl'.cfg /\ data = NewConfig'
    BY <1>3, <1>4, <1>8 DEF OnScript, SendSteps
  <2>2. Facts(i)'
    BY <1>3, <1>5, <1>2, <1>8 DEF Facts
  <2>3. i \in {9, 23, 27} /\ i \notin TxSteps
    BY <1>2, <1>8 DEF TxSteps
  <2>4. OnScript' /\ pc' = i
    BY <1>3, <1>5, <2>1, <2>2, <2>3, EntersScript
  <2> QED
    BY <1>1, <2>4
<1>9. CASE pc = 10
  <2>1. Quiet' /\ (ctl.cfg \/ ctl.irq)
    BY <1>3, <1>4, <1>9 DEF OnScript, SendSteps
  <2>2. ib' = <<"cmd", 174>>
    BY <1>3, <1>9 DEF Script, Cmd, Tx, Do
  <2>3. Facts(i)'
    BY <1>3, <1>2, <1>9, <2>1 DEF Facts
  <2>4. i = 11 /\ i \notin SendSteps
    BY <1>2, <1>9 DEF SendSteps
  <2>5. OnScript' /\ pc' = i
    BY <1>3, <1>5, <2>1, <2>2, <2>3, <2>4, EntersScript
  <2> QED
    BY <1>1, <2>5
<1> QED
  BY <1>1, <1>6, <1>7, <1>8, <1>9 DEF CmdSteps

LEMMA SendsScript ==
  ASSUME Types, BeforeHandler, OnScript, pc =< RegisterStep, MainSends, late' < 2
  PROVE  OnScript' /\ pc' =< RegisterStep
<1>1. /\ ph = "send" /\ ib = <<>> /\ ib' = Byte(data)
      /\ IF Op = "send" THEN Enter(After, 0) ELSE ph' = "recv" /\ UNCHANGED pc
      /\ UNCHANGED <<kbd, ob, ctl, late>>
  <2>1. ~GaveUp
    BY DEF GaveUp, Types, ServiceType
  <2> QED
    BY <2>1 DEF MainSends, Byte
<1>2. /\ Quiet' = Quiet /\ NewConfig' = NewConfig /\ (Idle => Quiet) /\ pc \in 1..28
      /\ \A i : Facts(i) => Facts(i)'
  BY <1>1, FirstSteps DEF Quiet, NewConfig, Facts, Idle
<1>3. CASE pc \in SendSteps
  <2>1. Enter(After, 0) /\ Facts(pc) /\ late = 0 /\ Quiet /\ data = NewConfig
    BY <1>1, <1>2, <1>3, OpOfStep DEF OnScript, Types, MainType, SendSteps, TxSteps
  <2>2. ctl.cfg
    BY <1>1, <1>3 DEF BeforeHandler
  <2>3. After \in {10, 28} /\ (pc = 9 <=> After = 10)
    BY <1>3 DEF After, SetTwoEnd, SendSteps, RegisterStep
  <2>0. PICK i \in {10, 28} : i = After
    BY <2>3
  <2>4. Facts(i)'
    BY <1>1, <1>3, <2>0, <2>1, <2>3 DEF Facts, SendSteps
  <2>5. i \notin SendSteps \cup TxSteps
    BY <2>0 DEF SendSteps, TxSteps
  <2> QED
    BY <1>1, <1>2, <2>0, <2>1, <2>2, <2>4, <2>5, EntersScript DEF RegisterStep
<1>4. CASE pc \notin SendSteps
  <2>1. pc \in TxSteps /\ ph' = "recv" /\ pc' = pc /\ data = Script[pc].byte
    BY <1>1, <1>4, OpOfStep DEF Types, MainType, BeforeHandler
  <2>2. late = 0 /\ Quiet /\ Facts(pc) /\ (ctl.cfg => pc \in SendSteps \cup {10, 11, 28})
    BY <1>1, <2>1 DEF OnScript
  <2>3. Facts(pc)' /\ Quiet' /\ ib' = Byte(Script[pc].byte)
    BY <1>1, <1>2, <2>1, <2>2 DEF Facts
  <2>4. pc \notin {1, 2, 3, 6, 7, 8, 10, 12, 17, 20, 21, 22, 24, 25, 26, 28}
    BY <2>1 DEF TxSteps
  <2> QED
    BY <1>1, <1>4, <2>1, <2>2, <2>3, <2>4 DEF OnScript
<1> QED
  BY <1>3, <1>4
LEMMA ReadOps ==
  /\ pc = 3 => Op = "test"
  /\ pc = 7 => Op = "config"
  /\ pc = 12 => Op = "reset"
  /\ pc = 17 => Op = "set"
  /\ pc = 21 => Op = "xlat"
  /\ pc = 25 => Op = "noxlat"
  BY DEF Op, Script, Do, Tx, Cmd

\* The three uses of the configuration byte agree on what is written back.
LEMMA ConfigsAlike ==
  ASSUME ~ctl.off, (pc = 7) \/ (pc = 21 /\ ctl.irq /\ ctl.xlat) \/ (pc = 25 /\ ctl.irq /\ ~ctl.xlat)
  PROVE  Config(ConfigByte) = NewConfig
<1>1. /\ With(0, 1) = 1 /\ With(1, 1) = 1 /\ With(64, 1) = 65 /\ With(65, 1) = 65
      /\ With(65, 64) = 65 /\ Without(1, 64) = 1
  BY DEF With, Without, Bit
<1>2. ConfigByte = (IF ctl.irq THEN 1 ELSE 0) + (IF ctl.xlat THEN 64 ELSE 0)
  BY DEF ConfigByte
<1>3. NewConfig = IF ctl.xlat THEN 65 ELSE 1
  BY DEF NewConfig
<1>4. ConfigByte = IF ctl.xlat THEN IF ctl.irq THEN 65 ELSE 64 ELSE IF ctl.irq THEN 1 ELSE 0
  BY <1>2
<1>5. CASE pc = 7
  BY <1>1, <1>3, <1>4, <1>5, ReadOps DEF Config
<1>6. CASE pc = 21 /\ ctl.irq /\ ctl.xlat
  BY <1>1, <1>3, <1>4, <1>6, ReadOps DEF Config
<1>7. CASE pc = 25 /\ ctl.irq /\ ~ctl.xlat
  BY <1>1, <1>3, <1>4, <1>7, ReadOps DEF Config
<1> QED
  BY <1>5, <1>6, <1>7

LEMMA TailsOfAnswers ==
  /\ Tail(<<Ack>>) = <<>> /\ Tail(<<Ack, BatOk>>) = <<BatOk>> /\ Tail(<<Ack, 1>>) = <<1>>
  /\ Tail(<<BatOk>>) = <<>> /\ Tail(<<1>>) = <<>> /\ Tail(<<Resend>>) = <<>>
  OBVIOUS

\* main reads the answer it waits for and nothing else.
LEMMA ReadsScript ==
  ASSUME Types, OnScript, pc =< RegisterStep, MainReads, late' < 2, ~mixed'
  PROVE  OnScript' /\ pc' =< RegisterStep
<1>1. /\ ph = "recv" /\ ob # Empty /\ Use(ob) /\ ob' = Empty
      /\ Op = "tx" => ob = Ack
      /\ UNCHANGED <<kbd, ib, ctl, late>> /\ ob \in Int
  <2>1. ~GaveUp
    BY DEF GaveUp, Types, ServiceType
  <2>2. /\ ph = "recv" /\ ob # Empty /\ Use(ob) /\ SetOutput(Empty, ctl)
        /\ mixed' = (mixed \/ (Op = "tx" /\ ob # Ack)) /\ UNCHANGED <<kbd, ib, late>>
    BY <2>1 DEF MainReads
  <2>3. Op = "tx" => ob = Ack
    BY <2>2, Zenon
  <2> QED
    BY <2>2, <2>3 DEF SetOutput, Types, PortType
<1>2. /\ pc \in 1..28 /\ pc \in TxSteps \cup ReadSteps /\ NewConfig' = NewConfig /\ RegisterStep = 28
      /\ Empty \notin {Ack, Resend, BatOk, TestOk, 1}
      /\ \A i : Facts(i) => Facts(i)'
  <2>1. pc \in TxSteps \cup ReadSteps
    BY <1>1, Using
  <2> QED
    BY <1>1, <2>1, FirstSteps DEF NewConfig, RegisterStep, Facts, Empty, Ack, Resend, BatOk, TestOk
<1>3. CASE pc \in TxSteps
  <2>1. ob = Ack /\ Enter(pc + 1, 0)
    BY <1>1, <1>2, <1>3, Using, OpOfStep DEF Types, MainType
  <2>2. Answering(Whole) /\ ~ctl.cfg /\ Facts(pc + 1)
    <3>1. ~Quiet /\ ~Idle
      BY <1>1 DEF Quiet, Idle
    <3>2. ~Answering(<<Resend>>)
      BY <1>1, <2>1 DEF Answering, Translate, Ack, Resend, CapsKey
    <3> QED
      BY <1>1, <1>3, <3>1, <3>2 DEF OnScript
  <2>3. ib = <<>> /\ ctl.out = Empty /\ kbd.ans = Tail(Whole)
    BY <1>1, <2>2 DEF Answering
  <2>4. PICK i \in 1..28 : i = pc + 1
    BY <1>2, <1>3 DEF TxSteps
  <2>5. Facts(i)'
    BY <1>2, <2>2, <2>4
  <2>6. i \in {5, 6, 12, 14, 15, 16, 17, 19, 20}
    BY <1>2, <1>3, <2>4 DEF TxSteps
  <2>7. kbd.ans = IF i = 12 THEN <<BatOk>> ELSE IF i = 17 THEN <<1>> ELSE <<>>
    <3>1. (pc = 11 <=> i = 12) /\ (pc = 16 <=> i = 17)
      BY <1>2, <2>4
    <3>2. CASE pc = 11
      BY <2>3, <3>1, <3>2, TailsOfAnswers DEF Whole
    <3>3. CASE pc = 16
      BY <2>3, <3>1, <3>3, TailsOfAnswers DEF Whole
    <3>4. CASE pc \notin {11, 16}
      BY <2>3, <3>1, <3>4, TailsOfAnswers DEF Whole
    <3> QED
      BY <3>2, <3>3, <3>4
  <2>8. i \notin {12, 17} => Idle' /\ Quiet'
    BY <1>1, <2>3, <2>7 DEF Idle, Quiet
  <2>9. (i = 12 => Answering(<<BatOk>>)') /\ (i = 17 => Answering(<<1>>)')
    <3>1. kbd'.ans = kbd.ans /\ ib' = <<>> /\ ob' = Empty /\ ctl'.out = Empty
      BY <1>1, <2>3
    <3>2. \A s : kbd.ans = s => Answering(s)'
      BY <3>1 DEF Answering
    <3> QED
      BY <2>7, <3>2
  <2>10. i \notin {12, 17} \/ i \notin TxSteps
    BY DEF TxSteps
  <2>11. i \notin SendSteps \cup {1, 2, 3, 7, 8, 10, 21, 22, 24, 25, 26, 28}
    BY <2>6 DEF SendSteps
  <2>12. late' = 0 /\ ~ctl'.cfg /\ ib' = <<>>
    BY <1>1, <2>2, <2>3 DEF OnScript
  <2>13. Enter(i, 0)
    BY <2>1, <2>4
  <2>14. OnScript' /\ pc' = i
    <3>1. i \in {6, 20} => Idle'
      BY <2>8
    <3>2. i \in TxSteps => Quiet' /\ ib' = <<>>
      BY <2>8, <2>10, <2>12
    <3>3. 0 \in Int
      OBVIOUS
    <3> QED
      BY <2>5, <2>9, <2>11, <2>12, <2>13, <3>1, <3>2, <3>3, EntersScript
  <2> QED
    BY <1>2, <2>14
<1>4. CASE pc \in ReadSteps
  <2>1. pc \notin TxSteps /\ pc \notin SendSteps /\ pc \notin {10, 11, 28}
    BY <1>4 DEF ReadSteps, TxSteps, SendSteps
  <2>2. Enter(Target(ob), Config(ob)) /\ Facts(pc) /\ ~ctl.cfg /\ late = 0 /\ Config(ob) \in Int
    BY <1>1, <2>1, Using, ConfigInt DEF OnScript
  <2>3. /\ \A c, v : Asked(c, v) => ib = <<>> /\ kbd.ans = <<>> /\ ob = v /\ ctl.out = Empty
        /\ \A s : s[1] \in {BatOk, 1} /\ Answering(s) => ib = <<>> /\ kbd.ans = Tail(s) /\ ctl.out = Empty /\ ob = Translate(s[1])
    BY <1>1 DEF Asked, Quiet, Answering
  <2>4. ib = <<>> /\ kbd.ans = <<>> /\ ctl.out = Empty
    <3>1. pc \in {3, 7, 21, 25} => \E c, v : Asked(c, v)
      BY DEF OnScript
    <3>2. pc \in {12, 17} => \E s \in {<<BatOk>>, <<1>>} : Answering(s)
      BY DEF OnScript
    <3> QED
      BY <1>4, <2>3, <3>1, <3>2, TailsOfAnswers DEF ReadSteps
  <2>5. Idle' /\ Quiet' /\ late' = 0 /\ ~ctl'.cfg /\ ib' = <<>>
    BY <1>1, <2>2, <2>4 DEF Idle, Quiet
  <2>6. ASSUME NEW i \in {4, 8, 13, 18, 22, 24, 26}, i = Target(ob), Facts(i),
               i \in {8, 22, 26} => Config(ob) = NewConfig
        PROVE  OnScript' /\ pc' =< RegisterStep
    <3>1. i \notin SendSteps \cup {1, 2, 3, 6, 7, 10, 11, 12, 17, 20, 21, 25, 28} /\ i \in 1..28
      BY <2>6 DEF SendSteps
    <3>2. Facts(i)' /\ (i \in {8, 22, 26} => Config(ob) = NewConfig')
      BY <1>2, <2>6
    <3>3. Enter(i, Config(ob)) /\ Config(ob) \in Int
      BY <2>2, <2>6
    <3>4. i \in {8, 22, 26} \cup SendSteps => Config(ob) = NewConfig'
      BY <3>1, <3>2
    <3>5. OnScript' /\ pc' = i
      BY <2>5, <3>1, <3>2, <3>3, <3>4, EntersScript
    <3> QED
      BY <1>2, <3>1, <3>5
  <2>7. CASE pc = 3
    <3>1. ob = TestOk
      BY <2>3, <2>7 DEF OnScript
    <3>2. Target(ob) = 4
      BY <2>7, <3>1, ReadOps DEF Target, After, SetTwoEnd
    <3> QED
      BY <2>6, <3>2 DEF Facts
  <2>8. CASE pc \in {7, 21, 25}
    <3>1. ob = ConfigByte
      BY <2>3, <2>8 DEF OnScript
    <3>2. Target(ob) = pc + 1 /\ pc + 1 \in {8, 22, 26}
      BY <2>8, ReadOps DEF Target, After, SetTwoEnd
    <3>3. Config(ob) = NewConfig
      BY <2>2, <2>8, <3>1, ConfigsAlike DEF Facts
    <3>4. Facts(pc + 1)
      BY <2>2, <2>8 DEF Facts
    <3> QED
      BY <2>6, <3>2, <3>3, <3>4
  <2>9. CASE pc = 12
    <3>1. ob = BatOk
      BY <2>3, <2>9 DEF OnScript, Translate, BatOk, CapsKey
    <3>2. Target(ob) = 13
      BY <2>9, <3>1, ReadOps DEF Target, After, SetTwoEnd
    <3>3. Facts(13)
      BY <2>2, <2>9 DEF Facts
    <3> QED
      BY <2>6, <3>2, <3>3
  <2>10. CASE pc = 17
    <3>1. ob = IF ctl.xlat THEN 67 ELSE 1
      BY <2>3, <2>10 DEF OnScript, Translate, CapsKey
    <3>2. Target(ob) = IF ctl.xlat THEN 18 ELSE 24
      BY <2>10, <3>1, ReadOps DEF Target, After, SetTwoEnd, SetOneStep
    <3>3. Facts(IF ctl.xlat THEN 18 ELSE 24)
      BY <2>2, <2>10 DEF Facts
    <3> QED
      BY <2>6, <3>2, <3>3
  <2> QED
    BY <1>4, <2>7, <2>8, <2>9, <2>10 DEF ReadSteps
<1> QED
  BY <1>2, <1>3, <1>4

LEMMA RegisterRegistered ==
  ASSUME Types, BeforeHandler, OnScript, pc =< RegisterStep, RegisterHandler
  PROVE  Registered'
<1>1. pc = 28 /\ RegisterStep = 28
  BY FirstSteps, OpOfStep DEF RegisterHandler, RegisterStep, Types, MainType
<1>2. Enter(29, 0) /\ UNCHANGED <<kbd, ib, ob, ctl>>
  BY <1>1 DEF RegisterHandler, device
<1>3. pc' = 29 /\ ph' = "send" /\ data' = SetLeds /\ Done = 32
  BY <1>2, Enters, ScriptOps, ScriptBytes DEF TxSteps
<1>4. Quiet /\ Facts(28) /\ kbd.want = "cmd" /\ IF ctl.cfg THEN ib = Byte(NewConfig) ELSE ib = <<>>
  BY <1>1 DEF OnScript, TxSteps, BeforeHandler, WantAt
<1>5. NewConfig' = NewConfig /\ Facts(28)'
  BY <1>2, <1>4 DEF NewConfig, Facts
<1> QED
  BY <1>2, <1>3, <1>4, <1>5 DEF Registered, Quiet
-----------------------------------------------------------------------------
(* After the handler is registered.                                        *)

LEMMA ControllerRegistered ==
  ASSUME Types, Registered, Controller
  PROVE  Registered'
<1>1. UNCHANGED <<pc, ph, data, kbd, late>>
  BY DEF Controller, main, hist
<1>2. ctl.cfg /\ ib = Byte(NewConfig) /\ Takes("data")
  <2>1. ~Takes("cmd")
    BY DEF Registered, Takes, Byte
  <2>2. Takes("data")
    BY <2>1, ControllerAnswers DEF Registered
  <2> QED
    BY <2>2, TakesConfig DEF Registered
<1>3. /\ ib' = <<>> /\ ob' = ob /\ ctl'.irq /\ ~ctl'.off /\ ~ctl'.cfg /\ ctl'.out = Empty
      /\ ctl'.xlat <=> ctl.xlat
  BY <1>2, ConfigTaken
<1>4. Facts(28)'
  BY <1>1, <1>3 DEF Registered, Facts
<1> QED
  BY <1>1, <1>2, <1>3, <1>4 DEF Registered

LEMMA TakesRegistered ==
  ASSUME Types, Registered, kbd.alive, KeyboardTakes, kbd.keys = <<>>
  PROVE  Registered' /\ kbd'.keys = <<>>
<1>1. /\ ib' = <<>> /\ ob' = ob /\ ~ctl.cfg /\ ctl'.cfg = ctl.cfg /\ ctl.out = Empty /\ ctl'.out = Empty
      /\ ctl'.irq = ctl.irq /\ ctl'.xlat = ctl.xlat /\ ~ctl'.off
      /\ ib[2] \in Int /\ ib = Byte(ib[2]) /\ kbd' = Answered(kbd, ib[2])
  BY Taking DEF Types, CtlType
<1>2. UNCHANGED <<pc, ph, data, late>> /\ KbdType
  BY DEF KeyboardTakes, main, hist, Types
<1>3. ib[2] = 0 \/ (ib[2] = SetLeds /\ kbd.want = "cmd")
  <2>1. ib = Byte(0) \/ (ib = Byte(SetLeds) /\ kbd.want = "cmd")
    BY <1>1, Bytes DEF Registered
  <2>2. {0, SetLeds} \subseteq Int
    BY DEF SetLeds
  <2> QED
    BY <2>1, <2>2, Bytes
<1>4. /\ kbd'.leds = 0 /\ kbd'.set = kbd.set /\ kbd'.keys = <<>>
      /\ kbd'.ans \in {<<Ack>>, <<Resend>>} /\ kbd'.want \in {"cmd", "leds"}
      /\ (ib[2] = 0 => kbd'.want = "cmd")
  <2>1. kbd.leds = 0 /\ kbd.want \in {"cmd", "leds"}
    BY DEF Registered, Facts
  <2>2. CASE kbd.want = "leds"
    <3>1. ib[2] = 0 /\ (0 % 8) = 0
      BY <1>3, <2>2
    <3>2. /\ kbd'.leds = (ib[2] % 8) /\ kbd'.want = "cmd" /\ kbd'.ans = <<Ack>> /\ kbd'.set = kbd.set
          /\ kbd'.keys = kbd.keys
      BY <1>1, <1>2, <2>2, AnswersLeds
    <3> QED
      BY <3>1, <3>2
  <2>3. CASE kbd.want = "cmd" /\ ib[2] = 0
    <3>1. ib[2] \notin {SetLeds, ScanSet, Reset, Resend}
      BY <2>3 DEF SetLeds, ScanSet, Reset, Resend
    <3>2. /\ kbd'.leds = kbd.leds /\ kbd'.want = "cmd" /\ kbd'.ans = <<Resend>> /\ kbd'.set = kbd.set
          /\ kbd'.keys = kbd.keys
      BY <1>1, <1>2, <2>3, <3>1, AnswersCommand
    <3> QED
      BY <2>1, <3>2
  <2>4. CASE kbd.want = "cmd" /\ ib[2] = SetLeds
    <3>1. ib[2] # Reset /\ ib[2] # 0
      BY <2>4 DEF SetLeds, Reset
    <3>2. /\ kbd'.leds = kbd.leds /\ kbd'.want = "leds" /\ kbd'.ans = <<Ack>> /\ kbd'.set = kbd.set
          /\ kbd'.keys = kbd.keys
      BY <1>1, <1>2, <2>4, <3>1, AnswersCommand
    <3> QED
      BY <2>1, <3>1, <3>2
  <2> QED
    BY <1>3, <2>1, <2>2, <2>3, <2>4
<1>5. Facts(28)'
  BY <1>1, <1>4 DEF Registered, Facts
<1>6. ph = "send" => data = 0 \/ (data = SetLeds /\ kbd.want = "cmd" /\ ib = <<>>)
  BY <1>1 DEF Registered
<1>7. ib # <<>>
  BY <1>1, Bytes
<1> QED
  BY <1>1, <1>2, <1>4, <1>5, <1>6, <1>7 DEF Registered

LEMMA SendsRegistered ==
  ASSUME Types, Registered, KeyboardSends, kbd.keys = <<>>
  PROVE  Registered' /\ kbd'.keys = <<>>
<1>1. /\ ctl' = ctl /\ ib' = ib /\ kbd.ans # <<>>
      /\ ob' = Translate(kbd.ans[1]) /\ kbd'.ans = Tail(kbd.ans) /\ kbd'.keys = <<>>
      /\ kbd'.leds = kbd.leds /\ kbd'.set = kbd.set /\ kbd'.want = kbd.want
  BY Sending
<1>2. UNCHANGED <<pc, ph, data>>
  BY DEF KeyboardSends, main
<1>3. kbd.ans = <<Ack>> \/ kbd.ans = <<Resend>>
  BY <1>1 DEF Registered
<1>4. ob' \in {Ack, Resend} /\ kbd'.ans = <<>>
  <2>1. Translate(Ack) = Ack /\ Translate(Resend) = Resend
    BY DEF Translate, Ack, Resend, CapsKey
  <2>2. CASE kbd.ans = <<Ack>>
    BY <1>1, <2>1, <2>2, TailsOfAnswers
  <2>3. CASE kbd.ans = <<Resend>>
    BY <1>1, <2>1, <2>3, TailsOfAnswers
  <2> QED
    BY <1>3, <2>2, <2>3
<1>5. Facts(28)' /\ NewConfig' = NewConfig
  BY <1>1 DEF Registered, Facts, NewConfig
<1> QED
  BY <1>1, <1>2, <1>4, <1>5 DEF Registered

\* A transaction that gives up, or whose byte is asked for again, still ends.
LEMMA MainRegistered ==
  ASSUME Types, Registered, MainStep, ~mixed'
  PROVE  Registered' /\ kbd' = kbd
<1>1. pc \in 29..32 /\ Done = 32 /\ Failed = 33
  BY ScriptOps DEF Registered
<1>2. ~ControllerCmd /\ ~RegisterHandler
  BY <1>1, OpOfStep DEF ControllerCmd, RegisterHandler, CmdSteps
<1>3. UNCHANGED <<kbd, ctl>> /\ Facts(28)' /\ NewConfig' = NewConfig
  <2>1. UNCHANGED <<kbd, ctl>>
    BY <1>2 DEF MainStep, MainSends, MainReads, ClearFlags, device, SetOutput
  <2> QED
    BY <2>1 DEF Registered, Facts, NewConfig
<1>4. CASE ClearFlags
  <2>1. Enter(Done, 0) /\ UNCHANGED <<ib, ob>>
    BY <1>4 DEF ClearFlags, device
  <2>2. pc' = Done /\ ph' = "go"
    BY <1>1, <2>1, Enters DEF TxSteps, SendSteps, ReadSteps
  <2> QED
    BY <1>1, <1>3, <2>1, <2>2 DEF Registered
<1>5. CASE MainSends
  <2>1. ph = "send" /\ pc \notin SendSteps
    BY <1>1, <1>5 DEF MainSends, SendSteps
  <2>2. Op # "send"
    BY <1>1, <2>1, OpOfStep
  <2>3. ph' = "recv" /\ UNCHANGED <<pc, ob>> /\ (ib' = ib \/ (ib = <<>> /\ ib' = Byte(data)))
    BY <1>5, <2>2 DEF MainSends, Byte
  <2>4. ib' = Byte(data) /\ ib = <<>> => ~ctl.cfg /\ (ib' = Byte(0) \/ (ib' = Byte(SetLeds) /\ kbd.want = "cmd"))
    BY <2>1 DEF Registered, Byte
  <2> QED
    BY <1>1, <1>3, <2>3, <2>4 DEF Registered
<1>6. CASE MainReads
  <2>1. ph = "recv" /\ ib' = ib /\ pc \in {29, 30}
    BY <1>1, <1>6 DEF MainReads, Types, MainType, TxSteps, ReadSteps, SendSteps
  <2>2. Op = "tx"
    BY <1>1, <2>1, OpOfStep DEF TxSteps
  <2>3. /\ ob' \in {ob, Empty}
        /\ Use(Ack) \/ Use(0)
    <3>1. CASE ob # Empty /\ Use(ob) /\ SetOutput(Empty, ctl) /\ mixed' = (mixed \/ (Op = "tx" /\ ob # Ack))
      <4>1. ob = Ack
        BY <2>2, <3>1, Zenon
      <4> QED
        BY <3>1, <4>1 DEF SetOutput
    <3>2. CASE Use(0) /\ UNCHANGED ob
      BY <3>2
    <3> QED
      BY <1>6, <3>1, <3>2 DEF MainReads
  <2>4. \/ Enter(pc + 1, 0)
        \/ ph' = "send" /\ data' = 0 /\ pc' = pc
    <3>1. Ack \in Int /\ pc \notin ReadSteps
      BY <2>1 DEF Ack, ReadSteps
    <3> QED
      BY <2>1, <2>3, <3>1, Using
  <2>5. /\ pc' \in 29..32 /\ (ph' = "send" => data' = 0)
    <3>1. CASE Enter(pc + 1, 0)
      <4>1. PICK i \in {30, 31} : i = pc + 1
        BY <2>1
      <4>2. Enter(i, 0) /\ i \in 1..Failed
        BY <1>1, <3>1, <4>1
      <4> QED
        BY <4>1, <4>2, Enters, ScriptBytes DEF TxSteps, SendSteps, ReadSteps
    <3>2. CASE ph' = "send" /\ data' = 0 /\ pc' = pc
      BY <1>1, <3>2
    <3> QED
      BY <2>4, <3>1, <3>2
  <2> QED
    BY <1>1, <1>3, <2>1, <2>3, <2>5 DEF Registered
<1> QED
  BY <1>2, <1>3, <1>4, <1>5, <1>6 DEF MainStep

\* The handler finds no lock key: what it reads from main it drops.
LEMMA ServiceLone ==
  ASSUME Types, Lone, ServiceStep
  PROVE  Lone'
<1>1. sv = "key" /\ ServiceKey
  BY DEF ServiceStep, ServiceKey, ServiceSends, ServiceReads, Lone
<1>2. ~(pc =< RegisterStep) /\ Registered
  BY <1>1 DEF Types, ServiceType, Lone
<1>3. ob # CapsKey
  BY <1>2 DEF Registered, Empty, Ack, Resend, CapsKey
<1>4. sv' = "idle" /\ ob' = Empty /\ ctl' = ctl /\ UNCHANGED <<kbd, ib, pc, ph, data, caps>>
  BY <1>1, <1>3 DEF ServiceKey, SetOutput, main
<1>5. Facts(28)' /\ NewConfig' = NewConfig
  BY <1>2, <1>4 DEF Registered, Facts, NewConfig
<1>6. Registered'
  BY <1>2, <1>4, <1>5 DEF Registered
<1> QED
  BY <1>2, <1>4, <1>6 DEF Lone

-----------------------------------------------------------------------------
(* InitLeavesSet1.                                                         *)

LEMMA InitLone == Init => RInv
<1> SUFFICES ASSUME Init PROVE RInv
  OBVIOUS
<1>1. AInv /\ pressed = 0
  BY InitAligned DEF Init
<1>2. /\ kbd.ans = <<>> /\ kbd.keys = <<>> /\ ib = <<>> /\ pc = 1 /\ ph = "go" /\ late = 0 /\ ~caps /\ sv = "idle"
      /\ ctl.out = Empty /\ ~ctl.cfg
  BY DEF Init
<1>3. ~mixed => Idle
  BY <1>2, Zenon DEF Init, Idle, Quiet
<1>4. ~mixed => OnScript
  BY <1>2, <1>3 DEF OnScript, Facts, TxSteps, SendSteps
<1> QED
  BY <1>1, <1>2, <1>4 DEF RInv, Lone, Undisturbed, RegisterStep

LEMMA NextLone ==
  ASSUME RInv, [Next]_vars, Undisturbed'
  PROVE  Lone'
<1>1. Types /\ Undisturbed /\ ~KeyPress /\ Lone /\ RegisterStep = 28
  BY UndisturbedBefore DEF RInv, AInv, RegisterStep
<1>2. kbd.keys = <<>> /\ ~caps /\ sv \in {"idle", "key"} /\ kbd.alive
  BY <1>1 DEF Lone, Undisturbed
<1>3. late' < 2 /\ ~mixed'
  BY DEF Undisturbed
<1>4. pc =< RegisterStep => OnScript /\ BeforeHandler /\ AnswerShape
  <2> SUFFICES ASSUME pc =< RegisterStep PROVE OnScript /\ BeforeHandler /\ AnswerShape
    OBVIOUS
  <2>1. OnScript
    BY <1>1 DEF Lone
  <2>2. Good
    BY <1>1, <2>1, ScriptOps DEF Good, OnScript, Undisturbed, RegisterStep
  <2> QED
    BY <2>1, <2>2 DEF RInv, AInv, Aligned
<1>6. CASE Controller
  <2>1. UNCHANGED <<pc, kbd, caps, sv>>
    BY <1>6 DEF Controller, main, service
  <2> QED
    BY <1>1, <1>2, <1>4, <1>6, <2>1, ControllerOnScript, ControllerRegistered DEF Lone
<1>7. CASE KeyboardTakes
  <2>1. UNCHANGED <<pc, caps, sv>>
    BY <1>7 DEF KeyboardTakes, main, service
  <2> QED
    BY <1>1, <1>2, <1>4, <1>7, <2>1, TakesOnScript, TakesRegistered DEF Lone
<1>8. CASE KeyboardSends
  <2>1. UNCHANGED <<pc, caps, sv>>
    BY <1>8 DEF KeyboardSends, main, service
  <2> QED
    BY <1>1, <1>2, <1>4, <1>8, <2>1, SendsOnScript, SendsRegistered DEF Lone
<1>9. CASE MainStep
  <2>1. sv' = sv /\ ~caps'
    BY <1>2, <1>9 DEF MainStep, ControllerCmd, MainSends, MainReads, RegisterHandler, ClearFlags, service
  <2>2. CASE pc =< RegisterStep
    <3>1. ~ClearFlags
      BY <1>1, <2>2, FirstSteps, OpOfStep DEF ClearFlags, Types, MainType
    <3>2. kbd' = kbd
      BY <1>9, <3>1 DEF MainStep, ControllerCmd, MainSends, MainReads, RegisterHandler, device
    <3>3. CASE RegisterHandler
      <4>1. Registered'
        BY <1>1, <1>4, <2>2, <3>3, RegisterRegistered
      <4>2. ~(pc' =< RegisterStep)
        BY <1>1, <4>1, ScriptOps DEF Registered
      <4> QED
        BY <1>2, <2>1, <3>2, <4>1, <4>2 DEF Lone
    <3>4. CASE ControllerCmd \/ MainSends \/ MainReads
      <4>1. OnScript' /\ pc' =< RegisterStep
        BY <1>1, <1>3, <1>4, <2>2, <3>4, CmdOnScript, SendsScript, ReadsScript
      <4>2. RegisterStep' = RegisterStep
        BY DEF RegisterStep
      <4> QED
        BY <1>2, <2>1, <3>2, <4>1, <4>2 DEF Lone
    <3> QED
      BY <1>9, <3>1, <3>3, <3>4 DEF MainStep
  <2>3. CASE ~(pc =< RegisterStep)
    <3>1. Registered' /\ kbd' = kbd
      BY <1>1, <1>3, <1>9, <2>3, MainRegistered DEF Lone
    <3>2. ~(pc' =< RegisterStep)
      BY <1>1, <3>1, ScriptOps DEF Registered
    <3> QED
      BY <1>2, <2>1, <3>1, <3>2 DEF Lone
  <2> QED
    BY <2>2, <2>3
<1>10. CASE ServiceStep
  BY <1>1, <1>10, ServiceLone
<1>11. CASE Tick \/ TickBetween \/ StartGuest \/ Irq1 \/ Poll \/ UNCHANGED vars
  <2>1. UNCHANGED <<kbd, ib, ob, ctl, pc, ph, data, caps, late>>
    BY <1>11 DEF Tick, TickBetween, StartGuest, Irq1, Poll, vars, device, main, service, hist
  <2>2. sv' \in {"idle", "key"}
    BY <1>2, <1>11, Zenon DEF Tick, TickBetween, StartGuest, Irq1, Poll, vars, service
  <2> QED
    BY <1>1, <2>1, <2>2, RestLone
<1>12. ~Unplug
  BY <1>1 DEF Unplug, Types, KbdType, Undisturbed
<1> QED
  BY <1>1, <1>6, <1>7, <1>8, <1>9, <1>10, <1>11, <1>12 DEF Next

LEMMA NextRInv == RInv /\ [Next]_vars => RInv'
<1> SUFFICES ASSUME RInv, [Next]_vars PROVE RInv'
  OBVIOUS
<1>1. AInv'
  BY NextAligned DEF RInv
<1>2. pressed' = pressed \/ pressed' = pressed + 1
  BY Zenon DEF Next, MainStep, ServiceStep, vars, hist, Controller, KeyboardTakes,
       KeyboardSends, KeyPress, Unplug, ControllerCmd, MainSends, MainReads, GaveUp, RegisterHandler,
       ClearFlags, Tick, TickBetween, StartGuest, Irq1, Poll, ServiceKey, ServiceSends, ServiceReads
<1>3. pressed' \in Nat
  BY <1>2 DEF RInv
<1> QED
  BY <1>1, <1>3, NextLone DEF RInv

\* When keyboard_init returns, with a keyboard that stayed plugged in, answered in
\* time, refused no command and had no key pressed, it has succeeded: the codes that
\* arrive are those of set 1, from the keyboard or by the translation of the 8042,
\* the interface is enabled and interrupts, and the LEDs are off; whatever the 8042
\* was configured for, and whenever the handler takes the answers to the last commands.
THEOREM SetOneIsLeft == Spec => []InitLeavesSet1
<1>1. Init => RInv
  BY InitLone
<1>2. RInv /\ [Next]_vars => RInv'
  BY NextRInv
<1>3. RInv => InitLeavesSet1
  <2> SUFFICES ASSUME RInv, pc \in {Done, Failed}, Undisturbed
               PROVE  /\ pc = Done /\ kbd.set = (IF ctl.xlat THEN 2 ELSE 1)
                      /\ ctl.irq /\ ~ctl.off /\ kbd.leds = 0
    BY DEF InitLeavesSet1
  <2>1. Registered /\ Done = 32 /\ Failed = 33
    BY ScriptOps DEF RInv, Lone, RegisterStep
  <2> QED
    BY <2>1 DEF Registered, Facts
<1> QED
  BY <1>1, <1>2, <1>3, PTL DEF Spec
=============================================================================
