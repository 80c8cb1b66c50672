------------------------- MODULE KeyboardController -------------------------
(***************************************************************************)
(* The dialogue with the 8042 and the keyboard behind it: keyboard_init in *)
(* the main program, and the LED exchange that a lock key starts inside    *)
(* the handler of line 1, or inside INT 16h once a boot sector runs.  All  *)
(* of them use the same two ports.  Timeouts count ticks, which pass only  *)
(* while interrupts are enabled; an age is the number of ticks since its   *)
(* wait began, and stops one past the limit.                               *)
(***************************************************************************)
EXTENDS Integers, Sequences

CONSTANTS
  ReadTicks, SendTicks, TransactTicks,  \* 18, 100 and 18 in the code
  Resets,     \* attempts at a keyboard reset, 10 in the code
  Keyboards,  \* what keyboards may know: sets of scan codes, to resend
  PowerOn,    \* how the code may find the 8042: irq, xlat, output buffer
  MaxKeys,    \* bound: keys pressed in a behaviour
  MaxSlow,    \* bound: ticks that pass while a chip is still at work
  MayDie,     \* can the keyboard be unplugged?
  MaxEvents   \* bound: keys, such ticks and unpluggings together

ASSUME TickAssumption == {ReadTicks, SendTicks, TransactTicks} \subseteq Nat
ASSUME PowerOnAssumption == PowerOn \subseteq [irq : BOOLEAN, xlat : BOOLEAN, ob : Int]
ASSUME BoundAssumption == Resets \in Nat \ {0} /\ {MaxKeys, MaxSlow, MaxEvents} \subseteq Nat

Ack == 250
Resend == 254
BatOk == 170
TestOk == 85
SetLeds == 237
ScanSet == 240
Reset == 255
CapsKey == 58   \* KB1_SC_CAPSLOCK
Empty == -1     \* no byte in a buffer

VARIABLES
  kbd,     \* the keyboard: alive, what it knows, set, leds, what it takes the
           \* next byte for, answers and scancodes to send, last byte sent
  ib, ob,  \* input buffer, with its port, and output buffer of the 8042
  ctl,     \* the 8042: irq, xlat and off of its configuration; cfg: is the
           \* next data byte that configuration? out: an answer it holds
  irr, stuck, served,      \* line 1: pending, never ended, has a handler
  mode, caps,              \* "prot" or "real"; caps lock bit in the data area
  pc, ph, data, age, txAge, tries,  \* keyboard_init: step, phase, its locals
  sv, sdata,               \* keyboard_process_keystroke: phase, byte to send
  slow,                    \* ticks that passed while a chip was at work
  pressed, late, mixed,    \* history: keys; did a wait give up, after or (2)
                           \* before the handler was registered; was something
                           \* else taken for an answer?
  stale                    \* history: did the last lock key come between the LED
                           \* byte of keyboard_init and its clearing of the flags,
                           \* so that it clears a flag whose LED is lit?

device == <<kbd, ib, ob, ctl>>
line == <<irr, stuck, served>>
main == <<pc, ph, data, age, txAge, tries>>
service == <<sv, sdata, caps>>
hist == <<slow, pressed, late, mixed, stale>>
vars == <<device, line, mode, main, service, hist>>

Bit(v, b) == (v \div b) % 2 = 1
With(v, b) == IF Bit(v, b) THEN v ELSE v + b
Without(v, b) == IF Bit(v, b) THEN v - b ELSE v

-----------------------------------------------------------------------------
(* The hardware, as the code uses it.                                       *)

\* Line 1 follows the output buffer; the interrupt controller latches its
\* rising edge and may forget it when the buffer is read before it is served;
\* an edge that cannot be served any more is not kept.
SetOutput(o, c) ==
  LET was == ob # Empty /\ ctl.irq
      is  == o # Empty /\ c.irq
  IN  /\ ob' = o /\ ctl' = c
      /\ irr' \in IF mode = "real" \/ stuck THEN {FALSE}
                  ELSE IF is /\ ~was THEN {TRUE}
                  ELSE IF was /\ ~is THEN {irr, FALSE} ELSE {irr}

\* Set 2 codes of the two keys, and the numbers of the sets, translated.
Translate(b) ==
  IF ~ctl.xlat THEN b
  ELSE CASE b = 28 -> 30 [] b = 88 -> CapsKey [] b = 30 -> 3 [] b = CapsKey -> 50
         [] b = 1 -> 67 [] b = 2 -> 65 [] OTHER -> b

ConfigByte == (IF ctl.irq THEN 1 ELSE 0) + (IF ctl.off THEN 16 ELSE 0)
              + (IF ctl.xlat THEN 64 ELSE 0)

\* The keyboard answers a byte, and forgets an older answer; what it does not
\* know it asks to have resent.
Answered(k, b) ==
  CASE k.want = "leds" -> [k EXCEPT !.leds = b % 8, !.want = "cmd", !.ans = <<Ack>>]
    [] k.want = "set" /\ b = 0 ->
         [k EXCEPT !.want = "cmd", !.ans = <<Ack, k.set>>]
    [] k.want = "set" /\ b \in k.sets \ {0} ->
         [k EXCEPT !.set = b, !.want = "cmd", !.ans = <<Ack>>]
    [] k.want = "cmd" /\ b = SetLeds -> [k EXCEPT !.want = "leds", !.ans = <<Ack>>]
    [] k.want = "cmd" /\ b = ScanSet -> [k EXCEPT !.want = "set", !.ans = <<Ack>>]
    [] k.want = "cmd" /\ b = Reset ->
         [k EXCEPT !.leds = 0, !.set = 2, !.keys = <<>>, !.ans = <<Ack, BatOk>>]
    [] k.want = "cmd" /\ b = Resend /\ k.resends -> [k EXCEPT !.ans = <<k.last>>]
    [] OTHER -> [k EXCEPT !.want = "cmd", !.ans = <<Resend>>]

\* The 8042 takes a byte once it is rid of its last answer.
Takes(port) == ib # <<>> /\ ib[1] = port /\ ctl.out = Empty /\ ib' = <<>>
Controller ==
  /\ \/ /\ Takes("cmd")
        /\ SetOutput(ob, CASE ib[2] = 170 -> [ctl EXCEPT !.out = TestOk]
                           [] ib[2] = 32  -> [ctl EXCEPT !.out = ConfigByte]
                           [] ib[2] = 96  -> [ctl EXCEPT !.cfg = TRUE]
                           [] OTHER       -> [ctl EXCEPT !.off = (ib[2] = 173)])
     \/ /\ Takes("data") /\ ctl.cfg
        /\ SetOutput(ob, [irq |-> Bit(ib[2], 1), off |-> Bit(ib[2], 16),
                          xlat |-> Bit(ib[2], 64), cfg |-> FALSE, out |-> Empty])
     \/ /\ ob = Empty /\ ctl.out # Empty /\ UNCHANGED ib
        /\ SetOutput(ctl.out, [ctl EXCEPT !.out = Empty])
  /\ UNCHANGED <<kbd, stuck, served, mode, main, service, hist>>

\* Any other byte goes to the keyboard, whose interface it enables; one that
\* is unplugged does not answer.
KeyboardTakes ==
  /\ Takes("data") /\ ~ctl.cfg
  /\ kbd' = IF kbd.alive THEN Answered(kbd, ib[2]) ELSE kbd
  /\ SetOutput(ob, [ctl EXCEPT !.off = FALSE])
  /\ UNCHANGED <<stuck, served, mode, main, service, hist>>

KeyboardSends ==
  /\ ob = Empty /\ ctl.out = Empty /\ ~ctl.off /\ kbd.ans \o kbd.keys # <<>>
  /\ LET b == Head(kbd.ans \o kbd.keys)
     IN  /\ SetOutput(Translate(b), ctl)
         /\ kbd' = [IF kbd.ans # <<>> THEN [kbd EXCEPT !.ans = Tail(@)]
                                      ELSE [kbd EXCEPT !.keys = Tail(@)]
                    EXCEPT !.last = IF b = Resend THEN @ ELSE b]
  /\ UNCHANGED <<ib, stuck, served, mode, main, service, hist>>

MoreEvents == pressed + slow + (IF kbd.alive THEN 0 ELSE 1) < MaxEvents

\* Key A or caps lock is pressed: codes of sets 1 and 2.
KeyPress ==
  /\ kbd.alive /\ MoreEvents /\ pressed < MaxKeys /\ pressed' = pressed + 1
  /\ \E c \in IF kbd.set = 1 THEN {30, CapsKey} ELSE {28, 88} :
       kbd' = [kbd EXCEPT !.keys = Append(@, c)]
  /\ UNCHANGED <<ib, ob, ctl, line, mode, main, service, slow, late, mixed, stale>>

Unplug ==
  /\ MayDie /\ kbd.alive /\ MoreEvents
  /\ kbd' = [kbd EXCEPT !.alive = FALSE, !.ans = <<>>, !.keys = <<>>]
  /\ UNCHANGED <<ib, ob, ctl, line, mode, main, service, hist>>

-----------------------------------------------------------------------------
(* keyboard_init, as the sequence of what it asks of the controller: a      *)
(* command, a transaction, a byte to send, or a byte to read and its use.   *)

Cmd(b) == [op |-> "cmd", byte |-> b]
Tx(b) == [op |-> "tx", byte |-> b]
Do(what) == [op |-> what, byte |-> 0]
Script ==
  <<Cmd(173), Cmd(170), Do("test"), Tx(SetLeds), Tx(7),
    Cmd(32), Do("config"), Cmd(96), Do("send"), Cmd(174),
    Tx(Reset), Do("reset"),
    Tx(ScanSet), Tx(1), Tx(ScanSet), Tx(0), Do("set"),
    Tx(ScanSet), Tx(2), Cmd(32), Do("xlat"), Cmd(96), Do("send"),
    Cmd(32), Do("noxlat"), Cmd(96), Do("send"),
    Do("register"), Tx(SetLeds), Tx(0), Do("clear")>>
ResetStep == 11
SetTwoEnd == 23
SetOneStep == 24
RegisterStep == 28
ClearStep == 31
Done == Len(Script) + 1
Failed == Len(Script) + 2
Op == IF pc <= Len(Script) THEN Script[pc].op ELSE "end"
After == IF pc = SetTwoEnd THEN RegisterStep ELSE pc + 1

\* main goes on with step i; `byte' is what it keeps for a later one.
Enter(i, byte) ==
  LET op == IF i <= Len(Script) THEN Script[i].op ELSE "end"
  IN  /\ pc' = i /\ age' = 0 /\ txAge' = 0
      /\ ph' = CASE op \in {"tx", "send"} -> "send"
                 [] op \in {"cmd", "register", "clear", "end"} -> "go"
                 [] OTHER -> "recv"
      /\ data' = IF op = "tx" THEN Script[i].byte ELSE byte

Init ==
  /\ \E know \in Keyboards :
       kbd = [alive |-> TRUE, sets |-> know.sets, resends |-> know.resends,
              set |-> 2, leds |-> 0, want |-> "cmd", ans |-> <<>>, keys |-> <<>>,
              last |-> BatOk]
  /\ \E on \in PowerOn :
       /\ ctl = [irq |-> on.irq, xlat |-> on.xlat, off |-> FALSE, cfg |-> FALSE,
                 out |-> Empty]
       /\ ob = on.ob /\ mixed = (on.ob # Empty)
  /\ ib = <<>> /\ irr = FALSE /\ stuck = FALSE /\ served = FALSE
  /\ mode = "prot" /\ caps = FALSE
  /\ pc = 1 /\ ph = "go" /\ data = 0 /\ age = 0 /\ txAge = 0 /\ tries = 0
  /\ sv = "idle" /\ sdata = 0
  /\ slow = 0 /\ pressed = 0 /\ late = 0 /\ stale = FALSE

\* main runs: protected mode, and no handler is in its way.
MainRuns == mode = "prot" /\ sv = "idle"
GaveUp == late' = IF served /\ late < 2 THEN 1 ELSE 2

\* controller_cmd writes at once, whatever the controller is still doing.
ControllerCmd ==
  /\ MainRuns /\ Op = "cmd"
  /\ ib' = <<"cmd", Script[pc].byte>>
  /\ Enter(pc + 1, data)
  /\ UNCHANGED <<kbd, ob, ctl, line, mode, tries, service, hist>>

\* keyboard_send_data: write when the input buffer is free, or give up.
MainSends ==
  /\ MainRuns /\ ph = "send"
  /\ \/ ib = <<>> /\ ib' = <<"data", data>> /\ UNCHANGED late
     \/ ib # <<>> /\ age > SendTicks /\ GaveUp /\ UNCHANGED ib
  /\ IF Op = "send" THEN Enter(After, 0)
     ELSE ph' = "recv" /\ age' = 0 /\ UNCHANGED <<pc, data, txAge>>
  /\ UNCHANGED <<kbd, ob, ctl, line, mode, tries, service, slow, pressed, mixed, stale>>

\* keyboard_transact: what was read is what is sent next, until it is an
\* acknowledgement or the transaction has taken too long.
NextTx_Endless(v) ==
  IF v = Ack THEN Enter(After, 0)
  ELSE ph' = "send" /\ data' = v /\ age' = 0 /\ UNCHANGED <<pc, txAge>>
NextTx(v) ==
  IF txAge > TransactTicks \/ v = Ack THEN Enter(After, 0)
  ELSE ph' = "send" /\ data' = v /\ age' = 0 /\ UNCHANGED <<pc, txAge>>

\* Where keyboard_init goes with the byte it has read, and what it makes of it.
Target(v) == CASE Op = "test" /\ v # TestOk -> Failed
               [] Op = "reset" /\ v # BatOk ->
                    IF tries + 1 < Resets THEN ResetStep ELSE Failed
               [] Op = "set" /\ v = 1 -> SetOneStep
               [] OTHER -> After
Config_KeepsXlat(v) == CASE Op = "config" -> With(v, 1)
               [] Op = "noxlat" -> Without(v, 64)
               [] OTHER -> 0
Config(v) == CASE Op = "config" -> With(v, 1)
               [] Op = "xlat" -> With(v, 64)
               [] Op = "noxlat" -> Without(v, 64)
               [] OTHER -> 0
Use(v) ==
  /\ tries' = CASE Op # "reset" -> tries [] v = BatOk -> 0 [] OTHER -> tries + 1
  /\ IF Op = "tx" THEN NextTx(v) ELSE Enter(Target(v), Config(v))

\* keyboard_read_data: the byte in the output buffer, or 0 after too long.
MainReads ==
  /\ MainRuns /\ ph = "recv"
  /\ \/ /\ ob # Empty /\ Use(ob) /\ SetOutput(Empty, ctl)
        /\ mixed' = (mixed \/ (Op = "tx" /\ ob # Ack)) /\ UNCHANGED late
     \/ /\ ob = Empty /\ age > ReadTicks /\ Use(0) /\ GaveUp
        /\ UNCHANGED <<ob, ctl, irr, mixed>>
  /\ UNCHANGED <<kbd, ib, stuck, served, mode, service, slow, pressed, stale>>

RegisterHandler ==
  /\ MainRuns /\ Op = "register"
  /\ served' = TRUE
  /\ Enter(pc + 1, 0)
  /\ UNCHANGED <<device, irr, stuck, mode, tries, service, hist>>

\* The flags are cleared whatever the handler has made of them meanwhile.
ClearFlags ==
  /\ MainRuns /\ Op = "clear"
  /\ caps' = FALSE /\ stale' = (stale /\ caps)
  /\ Enter(Done, 0)
  /\ UNCHANGED <<device, line, mode, tries, sv, sdata, slow, pressed, late, mixed>>

\* Can a chip proceed, or main with what it waits for?
AtWork ==
  \/ ib # <<>> /\ ctl.out = Empty
  \/ ob = Empty /\ (ctl.out # Empty \/ (kbd.ans \o kbd.keys # <<>> /\ ~ctl.off))
  \/ ph = "send" /\ ib = <<>>
  \/ ph = "recv" /\ ob # Empty

\* timer_ticks advances, which only a wait notices; and keyboard_transact,
\* also between two of its waits.
Older(a, limit) == IF a > limit THEN a ELSE a + 1
Tick ==
  /\ MainRuns /\ ph # "go"
  /\ AtWork => slow < MaxSlow /\ MoreEvents
  /\ slow' = IF AtWork THEN slow + 1 ELSE slow
  /\ age' = Older(age, IF ph = "send" THEN SendTicks ELSE ReadTicks)
  /\ txAge' = IF Op = "tx" THEN Older(txAge, TransactTicks) ELSE txAge
  /\ UNCHANGED <<device, line, mode, pc, ph, data, tries, service, pressed, late, mixed, stale>>
TickBetween ==
  /\ MainRuns /\ Op = "tx" /\ ph = "send" /\ data # Script[pc].byte /\ age = 0
  /\ txAge' = Older(txAge, TransactTicks)
  /\ UNCHANGED <<device, line, mode, pc, ph, data, age, tries, service, hist>>

\* boot_from_hd programs the interrupt controllers anew and starts a guest.
StartGuest ==
  /\ MainRuns /\ pc \in {Done, Failed}
  /\ mode' = "real" /\ irr' = FALSE /\ stuck' = FALSE
  /\ UNCHANGED <<device, served, main, service, hist>>

-----------------------------------------------------------------------------
(* keyboard_process_keystroke, with interrupts disabled: in the handler of  *)
(* line 1, or in INT 16h.                                                   *)

\* Without a handler the interrupt is reported and never ended.
Irq1 ==
  /\ MainRuns /\ irr /\ ~stuck
  /\ irr' = FALSE
  /\ IF served THEN sv' = "key" /\ UNCHANGED stuck
               ELSE stuck' = TRUE /\ UNCHANGED sv
  /\ UNCHANGED <<device, served, mode, main, sdata, caps, hist>>

\* keyboard_available in keyboard_get_scancode.
Poll ==
  /\ mode = "real" /\ sv = "idle" /\ ob # Empty
  /\ sv' = "key"
  /\ UNCHANGED <<device, line, mode, main, sdata, caps, hist>>

\* A lock key toggles its flag and starts update_leds.
LedByteSent == pc = ClearStep \/ (pc = ClearStep - 1 /\ ph = "recv")
ServiceKey ==
  /\ sv = "key" /\ ob # Empty
  /\ IF ob = CapsKey
     THEN /\ caps' = ~caps /\ sv' = "sendCmd" /\ sdata' = SetLeds
          /\ stale' = LedByteSent
     ELSE sv' = "idle" /\ UNCHANGED <<caps, sdata, stale>>
  /\ SetOutput(Empty, ctl)
  /\ UNCHANGED <<kbd, ib, stuck, served, mode, main, slow, pressed, late, mixed>>

ServiceSends ==
  /\ sv \in {"sendCmd", "sendLeds"} /\ ib = <<>>
  /\ ib' = <<"data", sdata>>
  /\ sv' = IF sv = "sendCmd" THEN "recvCmd" ELSE "recvLeds"
  /\ UNCHANGED <<kbd, ob, ctl, line, mode, main, sdata, caps, hist>>

Leds_NumLock == IF caps THEN 2 ELSE 0
Leds == IF caps THEN 4 ELSE 0
ServiceReads_TwoAcks ==
  /\ sv \in {"recvCmd", "recvLeds"} /\ ob # Empty
  /\ sv' = IF ob = Ack /\ sv = "recvCmd" THEN "sendLeds" ELSE sv
  /\ sdata' = Leds
  /\ SetOutput(Empty, ctl)
  /\ mixed' = (mixed \/ ob # Ack)
  /\ UNCHANGED <<kbd, ib, stuck, served, mode, main, caps, slow, pressed, late, stale>>
ServiceReads ==
  /\ sv \in {"recvCmd", "recvLeds"} /\ ob # Empty
  /\ sv' = CASE ob = Ack -> IF sv = "recvCmd" THEN "sendLeds" ELSE "idle"
             [] OTHER    -> IF sv = "recvCmd" THEN "sendCmd" ELSE "sendLeds"
  /\ sdata' = CASE ob # Ack -> ob
                [] sv = "recvCmd" -> Leds
                [] OTHER -> 0
  /\ SetOutput(Empty, ctl)
  /\ mixed' = (mixed \/ ob # Ack)
  /\ UNCHANGED <<kbd, ib, stuck, served, mode, main, caps, slow, pressed, late, stale>>

-----------------------------------------------------------------------------
MainStep == ControllerCmd \/ MainSends \/ MainReads \/ RegisterHandler \/ ClearFlags
ServiceStep == ServiceKey \/ ServiceSends \/ ServiceReads
Next == \/ Controller \/ KeyboardTakes \/ KeyboardSends \/ KeyPress \/ Unplug
        \/ MainStep \/ Tick \/ TickBetween \/ StartGuest \/ Irq1 \/ Poll \/ ServiceStep

\* The CPU runs, the timer ticks between handlers, the chips answer; nothing
\* says that they answer in time.
Fairness == /\ WF_vars(Controller) /\ WF_vars(KeyboardTakes) /\ WF_vars(KeyboardSends)
            /\ SF_vars(MainStep) /\ SF_vars(Tick \/ TickBetween) /\ WF_vars(ServiceStep)
Spec == Init /\ [][Next]_vars /\ Fairness

-----------------------------------------------------------------------------
Waiting == sv # "idle"
Undisturbed == late < 2 /\ ~mixed /\ pressed = 0 /\ kbd.alive

\* keyboard_init returns, whatever the keyboard does: every wait of it and
\* every transaction gives up in the end.  Only the handler of line 1, in
\* which no tick passes, can keep it from doing so.
InitReturns == <>(pc \in {Done, Failed}) \/ <>[]Waiting

\* With a keyboard that answers in time and refuses no command, and no key
\* pressed, initialisation succeeds and leaves set 1 codes, from the keyboard
\* or by translation, an enabled interface that interrupts, and the LEDs off;
\* also if the handler it has registered takes the answers to its last
\* commands from it.
InitLeavesSet1 ==
  pc \in {Done, Failed} /\ mode = "prot" /\ Undisturbed =>
    /\ pc = Done /\ kbd.set = (IF ctl.xlat THEN 2 ELSE 1)
    /\ ctl.irq /\ ~ctl.off /\ kbd.leds = 0

\* The LEDs show the lock flags, whenever no keystroke is being processed, if
\* no byte was taken for another and no wait gave up: then the answer to a
\* command is never left behind for the next one.  There is one exception, and no
\* other: keyboard.c:312 clears the flag, not the LED, of a lock key handled after
\* the LEDs were put out, and that LED stays lit until the next lock key.
LedsFollowFlags ==
  pc = Done /\ ~Waiting /\ late = 0 /\ ~mixed /\ kbd.alive =>
    kbd.leds = (IF caps \/ stale THEN 4 ELSE 0)

\* An LED exchange within INT 16h ends, although its timeouts cannot run,
\* while nothing has come between a command and its answer.
PollReturns ==
  (Waiting /\ mode = "real") ~> (~Waiting \/ mixed \/ late > 0 \/ ~kbd.alive)

\* What the code says, and does not do: keyboard_read_data reports "Keyboard read
\* timeout" and keyboard_transact gives up after 18 ticks, so that INT 16h comes to
\* an end; with interrupts disabled no tick passes.
KeystrokeEnds == (Waiting /\ mode = "real") ~> ~Waiting
=============================================================================
