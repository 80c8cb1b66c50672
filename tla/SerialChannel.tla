---------------------------- MODULE SerialChannel ----------------------------
(***************************************************************************)
(* What the serial console promises its callers: characters printed with   *)
(* interrupts enabled enter a bounded queue and reach the wire in order,   *)
(* each exactly once; characters printed with interrupts disabled go to    *)
(* the wire at once, past the queue.  Giving the machine to a boot sector  *)
(* ends the first kind, and may stall the queue until the second kind next *)
(* prints.  SerialRing implements this.                                    *)
(***************************************************************************)
EXTENDS Naturals, Sequences

CONSTANTS
  Capacity,   \* how many characters the queue holds
  Chars,      \* characters that pass through the queue
  Direct      \* a character printed past the queue

VARIABLES queue, wire,
          phase   \* "boot", then "guest", or "stalled" until something is printed
vars == <<queue, wire, phase>>

Init == queue = <<>> /\ wire = <<>> /\ phase = "boot"

Enqueue == /\ phase = "boot" /\ Len(queue) < Capacity
           /\ \E c \in Chars : queue' = Append(queue, c)
           /\ UNCHANGED <<wire, phase>>

Launch == /\ phase = "boot"
          /\ \/ phase' = "guest"
             \/ phase' = "stalled" /\ queue # <<>>
          /\ UNCHANGED <<queue, wire>>

Drain == /\ phase # "stalled" /\ queue # <<>>
         /\ wire' = Append(wire, Head(queue))
         /\ queue' = Tail(queue)
         /\ UNCHANGED phase

PrintDirect == /\ wire' = Append(wire, Direct)
               /\ phase' = IF phase = "stalled" THEN "guest" ELSE phase
               /\ UNCHANGED queue

Next == Enqueue \/ Launch \/ Drain \/ PrintDirect

\* Whatever is queued is eventually sent, unless the launch stalls it for good.
Spec == Init /\ [][Next]_vars /\ WF_vars(Drain)
=============================================================================
