------------------------------- MODULE Timer -------------------------------
(***************************************************************************)
(* The timer: line 0 interrupts counted by handle_timer while the BIOS     *)
(* owns the interrupt table and by the handler of bios.asm once a boot     *)
(* sector does, the callback main registers to keep the BIOS clock         *)
(* (irq0_counter, 0x46c), and msleep, which sleeps by watching the ticks.  *)
(* The watchdog of handle_timer is left out: nothing ever enables it.      *)
(***************************************************************************)
EXTENDS Integers

CONSTANTS
  Word,     \* number of values of a u32
  Sleeps,   \* tick counts msleep is called for: ms / 55
  MaxLag    \* timer interrupts that fit between two instructions of msleep

ASSUME WordAssumption == Word \in Nat /\ Word > 1
ASSUME LagAssumption == MaxLag \in Nat
ASSUME SleepAssumption ==
  \A n \in Sleeps \cup {0} : n \in Nat /\ n + 2 * MaxLag + 2 < Word

VARIABLES
  ticks,      \* timer_ticks
  callback,   \* timer_callbacks[0]: inc_ticks or NULL
  interval,   \* callback_intervals[0]
  counter,    \* callback_counters[0]
  clock,      \* bda.irq0_counter
  irq0, ifl,   \* line 0 requested; the CPU's interrupt flag
  route,      \* what vector the controller gives line 0, and what it leads to
  step,       \* main()
  start, need,\* msleep's locals
  lag,        \* interrupts since msleep's last instruction
  handled,    \* history: timer interrupts served
  elapsed     \* history: those of them since msleep read start

slot == <<callback, interval, counter>>
nap  == <<start, need, lag, elapsed>>
clockVars == <<ticks, slot, clock, irq0, ifl, route, step, nap, handled>>

U32 == 0..(Word - 1)
Plus_NoWrap(a, b) == a + b
Plus(a, b) == IF a + b < Word THEN a + b ELSE a + b - Word
Minus(a, b) == IF a >= b THEN a - b ELSE a - b + Word

\* The BDA is cleared before main, the timer structure with the other data.
ClockInit ==
  /\ ticks = 0 /\ clock = 0
  /\ callback = "NULL" /\ interval = 0 /\ counter = 0
  /\ irq0 \in BOOLEAN /\ ifl = FALSE /\ route = "gate" /\ step = "init"
  /\ start = 0 /\ need = 0 /\ lag = 0
  /\ handled = 0 /\ elapsed = 0

-----------------------------------------------------------------------------
(* Line 0.  The controller's channel 0 keeps raising it.                    *)

Raise ==
  /\ ~irq0 /\ irq0' = TRUE
  /\ UNCHANGED <<ticks, slot, clock, ifl, route, step, nap, handled>>

\* Any interrupt wakes the hlt of msleep.
Wake == step' = IF step = "halted" THEN "check" ELSE step
Asleep == step \in {"check", "hlt", "halted"}
InTime == step \in {"check", "hlt"} => lag < MaxLag
Count ==
  /\ handled' = Plus(handled, 1)
  /\ elapsed' = IF Asleep THEN elapsed + 1 ELSE elapsed
  /\ lag' = IF step \in {"check", "hlt"} THEN lag + 1 ELSE lag
  /\ UNCHANGED <<start, need>>

\* check_timer_callbacks for the one slot in use.  inc_ticks adds the interval
\* it is given to the clock and returns it; a callback that returns 0 is dropped.
Due == callback # "NULL" /\ counter + 1 >= interval
CheckCallbacks ==
  /\ clock' = IF Due THEN Plus(clock, interval) ELSE clock
  /\ callback' = IF Due /\ interval = 0 THEN "NULL" ELSE callback
  /\ counter' = CASE callback = "NULL" -> counter
                  [] Due /\ interval # 0 -> 0
                  [] OTHER -> counter + 1
  /\ UNCHANGED interval

\* handle_timer, behind the interrupt gate of vector 0x20.
HandleTimer ==
  ticks' = Plus(ticks, 1) /\ CheckCallbacks
ServeGate ==
  /\ irq0 /\ ifl /\ InTime /\ route = "gate"
  /\ irq0' = FALSE
  /\ HandleTimer /\ Count /\ Wake
  /\ UNCHANGED <<ifl, route>>

\* handle_timer of bios.asm, behind the real-mode vector 8.
AsmTick == clock' = Plus(clock, 1)
ServeStub ==
  /\ irq0 /\ ifl /\ route = "stub"
  /\ irq0' = FALSE
  /\ AsmTick /\ Count /\ Wake
  /\ UNCHANGED <<ticks, slot, ifl, route>>

\* A boot sector that returns leaves line 0 on vector 8, the gate of an
\* exception whose handler halts for good.
ServeException ==
  /\ irq0 /\ ifl /\ InTime /\ route = "exception" /\ step # "hung"
  /\ step' = "hung"
  /\ UNCHANGED <<ticks, slot, clock, irq0, ifl, route, nap, handled>>

\* An interrupt of another line, whose handler leaves the timer alone.
OtherIrq ==
  /\ ifl /\ step = "halted" /\ Wake
  /\ UNCHANGED <<ticks, slot, clock, irq0, ifl, route, nap, handled>>

-----------------------------------------------------------------------------
(* main()                                                                   *)

Goto(here, there) == step = here /\ step' = there

\* timer_init: the slot array is cleared, the handler is registered.
TimerInit ==
  /\ Goto("init", "publish")
  /\ ticks' = 0 /\ callback' = "NULL"
  /\ UNCHANGED <<interval, counter, clock, irq0, ifl, route, nap, handled>>

\* timer_register_callback(inc_ticks, 1): three stores, the callback first.
Publish_IrqsOn ==
  /\ Goto("publish", "interval") /\ callback' = "inc_ticks" /\ ifl' = TRUE
  /\ UNCHANGED <<ticks, interval, counter, clock, irq0, route, nap, handled>>
Publish ==
  /\ Goto("publish", "interval") /\ callback' = "inc_ticks"
  /\ UNCHANGED <<ticks, interval, counter, clock, irq0, ifl, route, nap, handled>>
SetInterval ==
  /\ Goto("interval", "counter") /\ interval' = 1
  /\ UNCHANGED <<ticks, callback, counter, clock, irq0, ifl, route, nap, handled>>
SetCounter ==
  /\ Goto("counter", "enable") /\ counter' = 0
  /\ UNCHANGED <<ticks, callback, interval, clock, irq0, ifl, route, nap, handled>>

ItrEnable ==
  /\ Goto("enable", "run") /\ ifl' = TRUE
  /\ UNCHANGED <<ticks, slot, clock, irq0, route, nap, handled>>

\* msleep(ms) with ms / 55 = n.
SleepBegin(n) ==
  /\ Goto("run", "check")
  /\ start' = ticks /\ need' = n /\ lag' = 0 /\ elapsed' = 0
  /\ UNCHANGED <<ticks, slot, clock, irq0, ifl, route, handled>>
Over_Absolute == ticks >= Plus(start, need)
Over == Minus(ticks, start) >= need
SleepCheck ==
  /\ step = "check"
  /\ step' = IF Over THEN "run" ELSE "hlt"
  /\ lag' = 0
  /\ UNCHANGED <<ticks, slot, clock, irq0, ifl, route, start, need, elapsed, handled>>
Halt_IrqsOff ==
  /\ Goto("hlt", "halted") /\ lag' = 0 /\ ifl' = FALSE
  /\ UNCHANGED <<ticks, slot, clock, irq0, route, start, need, elapsed, handled>>
Halt ==
  /\ Goto("hlt", "halted") /\ lag' = 0
  /\ UNCHANGED <<ticks, slot, clock, irq0, ifl, route, start, need, elapsed, handled>>

\* itr_setup_real_mode and the jump into the boot sector, and its return.
EnterGuest ==
  /\ Goto("run", "guest") /\ route' = "stub" /\ irq0' = FALSE
  /\ UNCHANGED <<ticks, slot, clock, ifl, nap, handled>>
GuestReturn ==
  /\ Goto("guest", "run") /\ route' = "exception"
  /\ UNCHANGED <<ticks, slot, clock, irq0, ifl, nap, handled>>

-----------------------------------------------------------------------------
Serve == ServeGate \/ ServeStub \/ ServeException
Register == Publish \/ SetInterval \/ SetCounter
Sleep == (\E n \in Sleeps : SleepBegin(n)) \/ SleepCheck \/ Halt
ClockNext == \/ Raise \/ Serve \/ OtherIrq
        \/ TimerInit \/ Register \/ ItrEnable \/ Sleep
        \/ EnterGuest \/ GuestReturn

\* The 8254 keeps ticking, the CPU takes the interrupt, msleep keeps running.
ClockFairness == WF_clockVars(Raise) /\ WF_clockVars(Serve) /\ WF_clockVars(SleepCheck \/ Halt)
ClockSpec == ClockInit /\ [][ClockNext]_clockVars /\ ClockFairness

-----------------------------------------------------------------------------
Booting == {"init", "publish", "interval", "counter", "enable"}
PCs == Booting \cup {"run", "check", "hlt", "halted", "guest", "hung"}

\* Every variable has its type; the tick counters stay 32-bit words.
TypeOK ==
  /\ ticks \in U32 /\ clock \in U32 /\ handled \in U32 /\ start \in U32
  /\ callback \in {"NULL", "inc_ticks"} /\ interval \in 0..1 /\ counter \in Nat
  /\ irq0 \in BOOLEAN /\ ifl \in BOOLEAN
  /\ route \in {"gate", "stub", "exception"} /\ step \in PCs
  /\ need \in Sleeps \cup {0} /\ lag \in 0..MaxLag /\ elapsed \in Nat

\* The BIOS clock at 0x46c has counted every timer interrupt served, through
\* the callback, through the real-mode handler and across the change from one
\* to the other: the slot is complete before the first interrupt can look at it
\* (main.c registers before itr_enable), and the callback is never dropped.
ClockCountsTicks == clock = handled

\* msleep returns only after the interrupts it was to wait for, however the
\* 32-bit counter wraps, and no later than the first look at the counter after
\* them: an interrupt lost between the look and the hlt costs one round.
SleepBounds ==
  [][step = "check" /\ step' = "run" => elapsed >= need /\ elapsed =< need + 2 * MaxLag]_step

\* While the BIOS owns the timer, msleep returns.
SleepEnds == (Asleep /\ route = "gate") ~> step = "run"
=============================================================================
