----------------------------- MODULE SerialRing -----------------------------
(***************************************************************************)
(* The buffered serial console: putc (output.c) and the transmit ring of   *)
(* serial.c, shared without locks by serial_write in the main program and  *)
(* serial_write_available_handler on interrupt line 4.  Characters are     *)
(* numbered in the order they are buffered, so that a slot or the wire     *)
(* says which one it holds; 0 is a character printed past the ring.        *)
(***************************************************************************)
EXTENDS Integers, Sequences

CONSTANTS
  N,          \* slots of buf[], 1024 in the code
  MaxChars,   \* bound: characters buffered in a behaviour
  MaxDirect   \* bound: characters printed with interrupts disabled

ASSUME RingAssumption == N \in Nat /\ N >= 2
ASSUME BoundAssumption == MaxChars \in Nat /\ MaxDirect \in Nat

VARIABLES
  ifl,                \* the interrupt flag, as itr_enabled() reads it
  ctx,                \* "main", or "irq": some other handler or INT service
  pc,                 \* where serial_write is
  launched,           \* boot_from_hd has given the machine to a boot sector
  buffered, buf, head, tail,
  ier, thre, irr,     \* UART: interrupt enable, holding register empty; IRQ 4
  wire,               \* what the UART was given to send, in order
  written, sent,      \* characters that entered and left the ring
  overrun             \* the holding register was written while full

cpu  == <<ifl, ctx, pc, launched>>
ring == <<buffered, buf, head, tail>>
uart == <<ier, thre, irr>>
hist == <<wire, written, sent, overrun>>
vars == <<cpu, ring, uart, hist>>

\* (x + 1) & (1024 - 1), for x in the ring.
Succ_NoMask(x) == x + 1
Succ(x) == IF x = N - 1 THEN 0 ELSE x + 1

Init ==
  /\ ifl = FALSE /\ ctx = "main" /\ pc = "idle" /\ launched = FALSE
  /\ buffered = FALSE /\ buf = [i \in 0..N - 1 |-> 0] /\ head = 0 /\ tail = 0
  /\ ier = FALSE /\ thre = TRUE /\ irr = FALSE
  /\ wire = <<>> /\ written = 0 /\ sent = 0 /\ overrun = FALSE

-----------------------------------------------------------------------------
(* The UART raises line 4 while its interrupt is enabled and its holding    *)
(* register empty.  The controller latches the rising edge, and may forget  *)
(* it if the line falls before the CPU has taken the interrupt.             *)

SetUart(e, t) ==
  /\ ier' = e /\ thre' = t
  /\ LET was == ier /\ thre
         is  == e /\ t
     IN  irr' \in IF is /\ ~was THEN {TRUE}
                  ELSE IF was /\ ~is THEN {irr, FALSE} ELSE {irr}

\* The shift register takes the character in the holding register.
Shift == ~thre /\ SetUart(ier, TRUE) /\ UNCHANGED <<cpu, ring, hist>>

\* outb(DATA_REGISTER, c)
Send(c, e) ==
  /\ SetUart(e, FALSE)
  /\ wire' = Append(wire, c)
  /\ overrun' = (overrun \/ ~thre)

-----------------------------------------------------------------------------
\* serial_set_buffered(true) and, later, itr_enable().
SerialSetBuffered ==
  /\ ctx = "main" /\ ~buffered
  /\ buffered' = TRUE /\ SetUart(TRUE, thre)
  /\ UNCHANGED <<cpu, buf, head, tail, hist>>
ItrEnable ==
  /\ ctx = "main" /\ buffered /\ ~ifl
  /\ ifl' = TRUE
  /\ UNCHANGED <<ctx, pc, launched, ring, uart, hist>>

\* boot_from_hd, after its last printf: itr_setup_real_mode and real_mode_call.
\* The first command word of the controllers' set-up forgets a latched edge, and a
\* line that stays high makes no new one.  Nothing between the cli and the sti
\* prints, so they are one step.  From then on only INT services print, with
\* interrupts disabled; what a boot sector's return does is in Interrupts.
StartGuest ==
  /\ ctx = "main" /\ pc = "idle" /\ ifl /\ ~launched
  /\ launched' = TRUE /\ irr' = FALSE
  /\ UNCHANGED <<ifl, ctx, pc, ring, ier, thre, hist>>

\* Another handler, an INT service or a guest runs with interrupts disabled.
EnterIrq ==
  /\ ctx = "main" /\ ifl
  /\ ctx' = "irq" /\ ifl' = FALSE
  /\ UNCHANGED <<pc, launched, ring, uart, hist>>
LeaveIrq ==
  /\ ctx = "irq"
  /\ ctx' = "main" /\ ifl' = TRUE
  /\ UNCHANGED <<pc, launched, ring, uart, hist>>

\* putc with interrupts disabled: serial_write_unbuffered waits for LSR bit 5.
Directs == Len(wire) - sent
PutcUnbuffered ==
  /\ ~ifl /\ thre /\ Directs < MaxDirect
  /\ Send(0, ier)
  /\ UNCHANGED <<cpu, ring, written, sent>>

\* putc with interrupts enabled: serial_write, one step per access that the
\* handler can come between.
InWrite(here, there) ==
  /\ ctx = "main" /\ pc = here /\ pc' = there
  /\ UNCHANGED <<ifl, ctx, launched>>
WriteStart ==
  /\ ifl /\ ~launched /\ written < MaxChars
  /\ InWrite("idle", "wait")
  /\ UNCHANGED <<ring, uart, hist>>
Full_Dropped == FALSE
Full == Succ(head) = tail
WriteWait ==
  /\ ~Full
  /\ InWrite("wait", "store")
  /\ UNCHANGED <<ring, uart, hist>>
WriteStore ==
  /\ InWrite("store", "advance")
  /\ buf' = [buf EXCEPT ![head] = written + 1]
  /\ UNCHANGED <<buffered, head, tail, uart, hist>>
WriteAdvance ==
  /\ InWrite("advance", "enable")
  /\ head' = Succ(head) /\ written' = written + 1
  /\ UNCHANGED <<buffered, buf, tail, uart, wire, sent, overrun>>
WriteEnable_Skipped ==
  /\ InWrite("enable", "idle")
  /\ UNCHANGED <<ring, uart, hist>>
WriteEnable ==
  /\ InWrite("enable", "idle")
  /\ SetUart(TRUE, thre)
  /\ UNCHANGED <<ring, hist>>

\* serial_write_available_handler, taken through line 4: it runs whole, since
\* interrupt gates keep IF clear.
LineReady_Unread == TRUE
LineReady == thre
Irq4 ==
  /\ irr /\ ifl
  /\ IF buffered /\ head # tail /\ LineReady
     THEN /\ ier' = ier /\ thre' = FALSE /\ irr' = FALSE
          /\ wire' = Append(wire, buf[tail])
          /\ overrun' = (overrun \/ ~thre)
          /\ tail' = Succ(tail) /\ sent' = sent + 1
          /\ UNCHANGED <<buffered, buf, head, written>>
     ELSE /\ ier' = IF buffered /\ head = tail THEN FALSE ELSE ier
          /\ thre' = thre /\ irr' = FALSE
          /\ UNCHANGED <<ring, hist>>
  /\ UNCHANGED cpu
-----------------------------------------------------------------------------
Writer == WriteStart \/ WriteWait \/ WriteStore \/ WriteAdvance \/ WriteEnable
Next == \/ Shift \/ Irq4 \/ Writer
        \/ SerialSetBuffered \/ ItrEnable \/ StartGuest
        \/ EnterIrq \/ LeaveIrq \/ PutcUnbuffered

\* The UART transmits, main gets past its initialisation, and other handlers
\* finish, as does a guest's stretch with interrupts disabled; they do not come so
\* fast that the writer or line 4 never runs.  No drive need be bootable.
Fairness ==
  /\ WF_vars(Shift) /\ WF_vars(LeaveIrq)
  /\ WF_vars(SerialSetBuffered) /\ WF_vars(ItrEnable)
  /\ SF_vars(WriteWait \/ WriteStore \/ WriteAdvance \/ WriteEnable)
  /\ SF_vars(Irq4)
Spec == Init /\ [][Next]_vars /\ Fairness

-----------------------------------------------------------------------------
\* Every variable has its type; head and tail stay inside the ring.
TypeOK ==
  /\ ifl \in BOOLEAN /\ ctx \in {"main", "irq"}
  /\ pc \in {"idle", "wait", "store", "advance", "enable"} /\ launched \in BOOLEAN
  /\ buffered \in BOOLEAN /\ buf \in [0..N - 1 -> Nat]
  /\ head \in 0..N - 1 /\ tail \in 0..N - 1
  /\ ier \in BOOLEAN /\ thre \in BOOLEAN /\ irr \in BOOLEAN
  /\ wire \in Seq(Nat) /\ written \in Nat /\ sent \in Nat /\ overrun \in BOOLEAN

Occupied == written - sent
Slot(x) == IF x < N THEN x ELSE x - N

\* head and tail, which only the writer and only the handler move, always tell
\* how many characters wait, and the slots between them hold exactly those, in
\* order: serial_write never stores over a character the handler has yet to
\* send, and the handler never reads a slot the writer has yet to fill.
RingContents ==
  /\ Occupied \in 0..N - 1
  /\ head = Slot(tail + Occupied)
  /\ \A j \in 0..N - 1 : j < Occupied => buf[Slot(tail + j)] = sent + 1 + j

\* Nobody writes the UART's holding register while it is full: a character
\* printed past the ring and one sent from it never overwrite each other.
NoOverrun == ~overrun

\* Characters wait while the UART holds line 4 high over an edge that the
\* launch's reprogramming of the controllers forgot.
Stranded == launched /\ ier /\ thre /\ ~irr /\ head # tail

\* Every character that entered the ring is sent: no interleaving of the
\* handler's disabling of the UART interrupt with serial_write's enabling of it
\* leaves characters in the ring with no interrupt to come.  Only the launch can
\* (interrupt.c:702 just after the UART has raised its line), and then they stay
\* there unless an INT service prints, which makes the line move again.
Drains ==
  \A k \in 1..MaxChars : (written >= k) ~> (sent >= k \/ []Stranded)

\* serial_write does not spin on a full ring for ever.
WriterReturns == (pc = "wait") ~> (pc = "idle")

\* The ring implements the channel it stands for.
Phase == IF ~launched THEN "boot" ELSE IF Stranded THEN "stalled" ELSE "guest"
Queue == [j \in 1..Occupied |-> buf[Slot(tail + j - 1)]]
Channel == INSTANCE SerialChannel
             WITH Capacity <- N - 1, Chars <- 1..MaxChars, Direct <- 0,
                  queue <- Queue, phase <- Phase
ImplementsChannel == Channel!Spec
=============================================================================
