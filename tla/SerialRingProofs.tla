-------------------------- MODULE SerialRingProofs --------------------------
(***************************************************************************)
(* Proofs about SerialRing, for every size of the ring and every number of *)
(* characters: the ring holds exactly what was written and not yet sent,   *)
(* nobody overruns the UART, and each step is a step of SerialChannel.     *)
(***************************************************************************)
EXTENDS SerialRing, SequenceTheorems, TLAPS

(***************************************************************************)
(* The inductive invariant: what serial_write knows at each of its steps.  *)
(***************************************************************************)
WriterInv ==
  /\ pc \in {"store", "advance"} => Occupied < N - 1
  /\ pc = "advance" => buf[head] = written + 1
  /\ pc \in {"wait", "store", "advance"} => written < MaxChars

\* Interrupts are enabled with the ring in use, and main prints nothing once a
\* boot sector runs.
LaunchInv ==
  /\ (ifl \/ ctx = "irq") => buffered
  /\ launched => buffered /\ pc = "idle"

IInv == TypeOK /\ RingContents /\ WriterInv /\ NoOverrun /\ LaunchInv

-----------------------------------------------------------------------------
(***************************************************************************)
(* Ring arithmetic.                                                        *)
(***************************************************************************)

\* Slots of one round of the ring stay inside it and are told apart.
LEMMA SlotFacts ==
  \A t \in 0..N - 1, j, k \in 0..N - 1 :
    /\ Slot(t + j) \in 0..N - 1
    /\ Slot(t + j) = Slot(t + k) => j = k
  BY RingAssumption DEF Slot

\* One more step along the ring is Succ, and starting one step further on
\* reaches the same slot one step earlier.
LEMMA SuccFacts ==
  \A t \in 0..N - 1, j \in 0..N - 1 :
    /\ Succ(t) \in 0..N - 1
    /\ j + 1 =< N - 1 => Succ(Slot(t + j)) = Slot(t + (j + 1))
    /\ j >= 1 => Slot(Succ(t) + (j - 1)) = Slot(t + j)
    /\ Slot(t) = t
  BY RingAssumption DEF Slot, Succ

\* The full test of serial_write leaves one slot free.
LEMMA FullTest ==
  ASSUME TypeOK, RingContents
  PROVE  Full <=> Occupied = N - 1
<1>1. /\ tail \in 0..N - 1 /\ Occupied \in 0..N - 1 /\ head = Slot(tail + Occupied)
  BY DEF TypeOK, RingContents
<1> QED
  BY <1>1, RingAssumption DEF Full, Succ, Slot

\* Neither side moves unless the ring lets it: tail equals head just when
\* nothing waits.
LEMMA EmptyTest ==
  ASSUME TypeOK, RingContents
  PROVE  head = tail <=> Occupied = 0
<1>1. /\ tail \in 0..N - 1 /\ Occupied \in 0..N - 1 /\ head = Slot(tail + Occupied)
  BY DEF TypeOK, RingContents
<1> QED
  BY <1>1, RingAssumption DEF Slot

-----------------------------------------------------------------------------
\* The console starts with an empty ring.
THEOREM InitInv == Init => IInv
<1> SUFFICES ASSUME Init PROVE IInv
  OBVIOUS
<1>1. TypeOK
  <2>1. /\ buf \in [0..N - 1 -> Nat] /\ head \in 0..N - 1 /\ tail \in 0..N - 1
        /\ wire \in Seq(Nat) /\ written \in Nat /\ sent \in Nat
    BY RingAssumption DEF Init
  <2> QED
    BY <2>1, Zenon DEF Init, TypeOK
<1>2. RingContents
  BY RingAssumption DEF Init, RingContents, Occupied, Slot
<1> QED
  BY <1>1, <1>2 DEF Init, IInv, WriterInv, NoOverrun, LaunchInv

\* A step that leaves the ring alone keeps what is known of its contents.
LEMMA RingFrame ==
  ASSUME RingContents, UNCHANGED <<buf, head, tail, written, sent>>
  PROVE  RingContents'
  BY DEF RingContents, Occupied

\* What to show of a step that does move it, with m characters waiting after.
LEMMA RingNext ==
  ASSUME NEW m \in 0..N - 1, Occupied' = m, head' = Slot(tail' + m),
         \A j \in 0..N - 1 : j < m => buf'[Slot(tail' + j)] = sent' + 1 + j
  PROVE  RingContents'
  BY DEF RingContents

\* The UART's own lines keep their type.
LEMMA UartTypes ==
  ASSUME TypeOK, NEW e \in BOOLEAN, NEW t \in BOOLEAN, SetUart(e, t)
  PROVE  ier' \in BOOLEAN /\ thre' \in BOOLEAN /\ irr' \in BOOLEAN
  BY DEF TypeOK, SetUart

\* serial_write stores into the slot behind those that wait.
LEMMA StoreInv == ASSUME IInv, WriteStore PROVE IInv'
<1>1. /\ pc = "store" /\ pc' = "advance" /\ buf' = [buf EXCEPT ![head] = written + 1]
      /\ UNCHANGED <<ifl, ctx, launched, buffered, head, tail, ier, thre, irr, wire, written, sent, overrun>>
  BY DEF WriteStore, InWrite, uart, hist
<1>2. /\ head \in 0..N - 1 /\ tail \in 0..N - 1 /\ written \in Nat /\ sent \in Nat
      /\ buf \in [0..N - 1 -> Nat]
      /\ Occupied \in 0..N - 1 /\ head = Slot(tail + Occupied)
  BY DEF IInv, TypeOK, RingContents
<1>3. TypeOK'
  BY <1>1, <1>2 DEF IInv, TypeOK
<1>4. RingContents'
  <2>1. \A j \in 0..N - 1 : j < Occupied => Slot(tail + j) # head /\ Slot(tail + j) \in 0..N - 1
    BY <1>2, SlotFacts
  <2> QED
    BY <1>1, <1>2, <2>1 DEF IInv, RingContents, Occupied
<1> QED
  BY <1>1, <1>2, <1>3, <1>4 DEF IInv, WriterInv, NoOverrun, LaunchInv, Occupied

\* Advancing the head hands that slot over.
LEMMA AdvanceInv == ASSUME IInv, WriteAdvance PROVE IInv'
<1>1. /\ pc = "advance" /\ pc' = "enable" /\ head' = Succ(head) /\ written' = written + 1
      /\ UNCHANGED <<ifl, ctx, launched, buffered, buf, tail, ier, thre, irr, wire, sent, overrun>>
  BY DEF WriteAdvance, InWrite, uart
<1>2. PICK n \in 0..N - 1 : Occupied = n
  BY DEF IInv, RingContents
<1>3. /\ head \in 0..N - 1 /\ tail \in 0..N - 1 /\ written \in Nat /\ sent \in Nat
      /\ head = Slot(tail + n) /\ n < N - 1 /\ buf[head] = written + 1
  BY <1>1, <1>2 DEF IInv, TypeOK, RingContents, WriterInv
<1>4. n + 1 \in 0..N - 1 /\ n + 1 =< N - 1
  BY <1>2, <1>3, RingAssumption
<1>5. head' = Slot(tail + (n + 1)) /\ head' \in 0..N - 1
  BY <1>1, <1>3, <1>4, SuccFacts
<1>6. Occupied' = n + 1 /\ written = sent + n
  BY <1>1, <1>2, <1>3 DEF Occupied
<1>7. TypeOK'
  BY <1>1, <1>3, <1>5 DEF IInv, TypeOK
<1>8. RingContents'
  <2>1. ASSUME NEW j \in 0..N - 1, j < n + 1
        PROVE  buf[Slot(tail + j)] = sent + 1 + j
    <3>1. CASE j < n
      BY <1>2, <3>1 DEF IInv, RingContents
    <3>2. CASE j = n
      BY <1>3, <1>6, <3>2
    <3> QED
      BY <2>1, <3>1, <3>2
  <2> QED
    BY <1>1, <1>4, <1>5, <1>6, <2>1, RingNext
<1> QED
  BY <1>1, <1>7, <1>8 DEF IInv, WriterInv, NoOverrun, LaunchInv

\* The handler sends the oldest waiting character, in an empty holding register.
LEMMA Irq4Inv == ASSUME IInv, Irq4 PROVE IInv'
<1>1. CASE buffered /\ head # tail /\ LineReady
  <2>1. /\ ier' = ier /\ thre' = FALSE /\ irr' = FALSE /\ thre = TRUE
        /\ wire' = Append(wire, buf[tail]) /\ overrun' = (overrun \/ ~thre)
        /\ tail' = Succ(tail) /\ sent' = sent + 1 /\ head # tail
        /\ UNCHANGED <<ifl, ctx, pc, launched, buffered, buf, head, written>>
    BY <1>1 DEF Irq4, LineReady, cpu, IInv, TypeOK
  <2>2. PICK n \in 0..N - 1 : Occupied = n /\ n # 0
    BY <2>1, EmptyTest DEF IInv, RingContents
  <2>3. /\ head \in 0..N - 1 /\ tail \in 0..N - 1 /\ written \in Nat /\ sent \in Nat
        /\ buf \in [0..N - 1 -> Nat] /\ wire \in Seq(Nat) /\ head = Slot(tail + n)
    BY <2>2 DEF IInv, TypeOK, RingContents
  <2>4. n >= 1 /\ n - 1 \in 0..N - 1
    BY <2>2, RingAssumption
  <2>5. tail' \in 0..N - 1 /\ head' = Slot(tail' + (n - 1))
    BY <2>1, <2>3, <2>4, SuccFacts
  <2>6. Occupied' = n - 1
    BY <2>1, <2>2, <2>3 DEF Occupied
  <2>7. TypeOK'
    <3>1. wire' \in Seq(Nat)
      BY <2>1, <2>3
    <3>2. overrun' = overrun
      BY <2>1 DEF IInv, TypeOK
    <3>3. sent' \in Nat /\ UNCHANGED <<ifl, ctx, pc, launched, buffered, buf, head, written>>
      BY <2>1, <2>3
    <3>4. ier' = ier /\ thre' \in BOOLEAN /\ irr' \in BOOLEAN
      BY <2>1, Zenon
    <3> QED
      BY <2>5, <3>1, <3>2, <3>3, <3>4 DEF IInv, TypeOK
  <2>8. RingContents'
    <3>1. ASSUME NEW j \in 0..N - 1, j < n - 1
          PROVE  buf[Slot(tail' + j)] = sent' + 1 + j
      <4>1. j + 1 \in 0..N - 1 /\ j + 1 < n /\ (j + 1) - 1 = j /\ j + 1 >= 1
        BY <2>4, <3>1, RingAssumption
      <4>2. Slot(tail' + j) = Slot(tail + (j + 1))
        BY <2>1, <2>3, <4>1, SuccFacts
      <4>3. buf[Slot(tail + (j + 1))] = sent + 1 + (j + 1)
        BY <2>2, <4>1 DEF IInv, RingContents
      <4> QED
        BY <2>1, <2>3, <4>2, <4>3
    <3> QED
      BY <2>1, <2>4, <2>5, <2>6, <3>1, RingNext
  <2>9. WriterInv' /\ NoOverrun' /\ LaunchInv'
    <3>1. n < N - 1 => n - 1 < N - 1
      BY <2>4, RingAssumption
    <3>2. pc \in {"store", "advance"} => n < N - 1
      BY <2>2 DEF IInv, WriterInv
    <3>3. Occupied' < N - 1 \/ pc \notin {"store", "advance"}
      BY <2>6, <3>1, <3>2
    <3> QED
      BY <2>1, <3>3 DEF IInv, WriterInv, NoOverrun, LaunchInv, TypeOK
  <2> QED
    BY <2>7, <2>8, <2>9 DEF IInv
<1>2. CASE ~(buffered /\ head # tail /\ LineReady)
  <2>1. /\ ier' = (IF buffered /\ head = tail THEN FALSE ELSE ier) /\ thre' = thre /\ irr' = FALSE
        /\ UNCHANGED <<ifl, ctx, pc, launched, buffered, buf, head, tail, wire, written, sent, overrun>>
    BY <1>2 DEF Irq4, cpu, ring, hist
  <2>2. ier' \in BOOLEAN
    BY <2>1 DEF IInv, TypeOK
  <2>3. TypeOK'
    BY <2>1, <2>2 DEF IInv, TypeOK
  <2>4. RingContents'
    BY <2>1, RingFrame DEF IInv
  <2> QED
    BY <2>1, <2>3, <2>4 DEF IInv, WriterInv, NoOverrun, LaunchInv, Occupied
<1> QED
  BY <1>1, <1>2

\* A character printed past the ring waits for the holding register to empty.
LEMMA DirectInv == ASSUME IInv, PutcUnbuffered PROVE IInv'
<1>1. /\ SetUart(ier, FALSE) /\ thre /\ wire' = Append(wire, 0) /\ overrun' = (overrun \/ ~thre)
      /\ UNCHANGED <<ifl, ctx, pc, launched, buffered, buf, head, tail, written, sent>>
  BY DEF PutcUnbuffered, Send, cpu, ring
<1>2. ier' \in BOOLEAN /\ thre' \in BOOLEAN /\ irr' \in BOOLEAN
  BY <1>1, UartTypes DEF IInv, TypeOK
<1>3. wire' \in Seq(Nat)
  BY <1>1 DEF IInv, TypeOK
<1>4. ~overrun' /\ overrun' \in BOOLEAN
  BY <1>1 DEF IInv, NoOverrun, TypeOK
<1>5. TypeOK'
  BY <1>1, <1>2, <1>3, <1>4 DEF IInv, TypeOK
<1>6. RingContents'
  BY <1>1, RingFrame DEF IInv
<1> QED
  BY <1>1, <1>4, <1>5, <1>6 DEF IInv, WriterInv, NoOverrun, LaunchInv, Occupied

\* The steps that touch neither the ring nor the wire.
LEMMA OtherInv ==
  ASSUME IInv, UNCHANGED <<buf, head, tail, wire, written, sent, overrun>>,
         pc' \in {"idle", "wait", "store", "advance", "enable"},
         pc' # pc => \/ pc' \in {"idle", "enable"}
                     \/ pc' = "wait" /\ written < MaxChars
                     \/ pc' = "store" /\ pc = "wait" /\ ~Full,
         ctx' \in {"main", "irq"}, ifl' \in BOOLEAN, buffered' \in BOOLEAN,
         launched' \in BOOLEAN, LaunchInv',
         ier' \in BOOLEAN, thre' \in BOOLEAN, irr' \in BOOLEAN
  PROVE  IInv'
<1>1. TypeOK'
  BY DEF IInv, TypeOK
<1>2. RingContents'
  BY RingFrame DEF IInv
<1>3. Full <=> Occupied = N - 1
  BY FullTest DEF IInv
<1>4. Occupied \in 0..N - 1 /\ Occupied' = Occupied
  BY DEF IInv, RingContents, Occupied
<1>5. WriterInv'
  <2>1. Occupied # N - 1 => Occupied < N - 1
    BY <1>4, RingAssumption
  <2> QED
    BY <1>3, <1>4, <2>1 DEF IInv, WriterInv
<1> QED
  BY <1>1, <1>2, <1>5 DEF IInv, NoOverrun

\* Every step keeps the invariant.
THEOREM StepInv == IInv /\ [Next]_vars => IInv'
<1> SUFFICES ASSUME IInv, [Next]_vars PROVE IInv'
  OBVIOUS
<1>0. TypeOK /\ LaunchInv
  BY DEF IInv
<1>1. CASE Shift
  <2>1. SetUart(ier, TRUE) /\ ier \in BOOLEAN
    BY <1>0, <1>1 DEF Shift, TypeOK
  <2>2. ier' \in BOOLEAN /\ thre' \in BOOLEAN /\ irr' \in BOOLEAN
    BY <1>0, <2>1, UartTypes
  <2> QED
    BY <1>0, <1>1, <2>2, OtherInv DEF Shift, cpu, ring, hist, TypeOK, LaunchInv
<1>2. CASE Irq4
  BY <1>2, Irq4Inv
<1>3. CASE WriteStart \/ WriteWait
  BY <1>0, <1>3, OtherInv DEF WriteStart, WriteWait, InWrite, ring, uart, hist, TypeOK, LaunchInv
<1>4. CASE WriteStore
  BY <1>4, StoreInv
<1>5. CASE WriteAdvance
  BY <1>5, AdvanceInv
<1>6. CASE WriteEnable
  <2>1. SetUart(TRUE, thre) /\ thre \in BOOLEAN
    BY <1>0, <1>6 DEF WriteEnable, TypeOK
  <2>2. ier' \in BOOLEAN /\ thre' \in BOOLEAN /\ irr' \in BOOLEAN
    BY <1>0, <2>1, UartTypes
  <2> QED
    BY <1>0, <1>6, <2>2, OtherInv DEF WriteEnable, InWrite, ring, hist, TypeOK, LaunchInv
<1>7. CASE SerialSetBuffered
  <2>1. SetUart(TRUE, thre) /\ thre \in BOOLEAN
    BY <1>0, <1>7 DEF SerialSetBuffered, TypeOK
  <2>2. ier' \in BOOLEAN /\ thre' \in BOOLEAN /\ irr' \in BOOLEAN
    BY <1>0, <2>1, UartTypes
  <2> QED
    BY <1>0, <1>7, <2>2, OtherInv DEF SerialSetBuffered, cpu, hist, TypeOK, LaunchInv
<1>8. CASE ItrEnable \/ EnterIrq \/ LeaveIrq
  <2>1. /\ buffered /\ ctx' \in {"main", "irq"} /\ ifl' \in BOOLEAN
        /\ UNCHANGED <<pc, launched, buffered, buf, head, tail, ier, thre, irr, wire, written, sent, overrun>>
    BY <1>0, <1>8 DEF ItrEnable, EnterIrq, LeaveIrq, ring, uart, hist, LaunchInv
  <2>2. LaunchInv'
    BY <1>0, <2>1 DEF LaunchInv
  <2> QED
    BY <1>0, <2>1, <2>2, OtherInv DEF TypeOK
<1>11. CASE StartGuest
  <2>1. /\ pc = "idle" /\ ifl /\ launched' \in BOOLEAN /\ irr' \in BOOLEAN
        /\ UNCHANGED <<ifl, ctx, pc, buffered, buf, head, tail, ier, thre, wire, written, sent, overrun>>
    BY <1>11 DEF StartGuest, ring, hist
  <2>2. LaunchInv'
    BY <1>0, <2>1 DEF LaunchInv
  <2> QED
    BY <1>0, <2>1, <2>2, OtherInv DEF TypeOK
<1>9. CASE PutcUnbuffered
  BY <1>9, DirectInv
<1>10. CASE UNCHANGED vars
  BY <1>0, <1>10, OtherInv DEF vars, cpu, ring, uart, hist, TypeOK, LaunchInv
<1> QED
  BY <1>1, <1>2, <1>3, <1>4, <1>5, <1>6, <1>7, <1>8, <1>9, <1>10, <1>11 DEF Next, Writer

\* The inductive invariant holds in every reachable state.
THEOREM Invariant == Spec => []IInv
<1>1. Init => IInv
  BY InitInv
<1>2. IInv /\ [Next]_vars => IInv'
  BY StepInv
<1> QED
  BY <1>1, <1>2, PTL DEF Spec

\* Every variable keeps its type, and both indices stay inside the ring.
THEOREM TypeCorrect == Spec => []TypeOK
<1>1. IInv => TypeOK
  BY DEF IInv
<1> QED
  BY <1>1, Invariant, PTL

\* The ring holds exactly the characters written and not yet sent, in order,
\* although serial_write and the handler share it without a lock.
THEOREM RingCorrect == Spec => []RingContents
<1>1. IInv => RingContents
  BY DEF IInv
<1> QED
  BY <1>1, Invariant, PTL

\* Buffered and unbuffered output never overwrite each other in the UART.
THEOREM UartNeverOverrun == Spec => []NoOverrun
<1>1. IInv => NoOverrun
  BY DEF IInv
<1> QED
  BY <1>1, Invariant, PTL

-----------------------------------------------------------------------------
(***************************************************************************)
(* Each step of the ring is a step of the channel it stands for.           *)
(***************************************************************************)

\* What the channel's queue holds when n characters wait: the next n numbers.
Waiting(s, n) == [j \in 1..n |-> s + j]

\* It grows at its end and shrinks at its front, as the channel's queue does.
LEMMA WaitingFacts ==
  ASSUME NEW s \in Nat, NEW n \in Nat
  PROVE  /\ Waiting(s, n) \in Seq(Nat) /\ Len(Waiting(s, n)) = n
         /\ Append(Waiting(s, n), s + n + 1) = Waiting(s, n + 1)
         /\ n # 0 => /\ Waiting(s, n) # <<>> /\ Head(Waiting(s, n)) = s + 1
                     /\ Tail(Waiting(s, n)) = Waiting(s + 1, n - 1)
<1>1. \A a, m \in Nat : /\ Waiting(a, m) \in Seq(Nat) /\ Len(Waiting(a, m)) = m
                        /\ \A j \in 1..m : Waiting(a, m)[j] = a + j
  BY DEF Waiting
<1>2. Append(Waiting(s, n), s + n + 1) = Waiting(s, n + 1)
  <2> DEFINE w == Waiting(s, n)
             l == Append(w, s + n + 1)
             r == Waiting(s, n + 1)
  <2>1. /\ w \in Seq(Nat) /\ Len(w) = n /\ \A j \in 1..n : w[j] = s + j
        /\ r \in Seq(Nat) /\ Len(r) = n + 1 /\ \A j \in 1..n + 1 : r[j] = s + j
    <3>1. n + 1 \in Nat
      OBVIOUS
    <3> QED
      BY <1>1, <3>1, Zenon
  <2> HIDE DEF w, r
  <2>2. l \in Seq(Nat) /\ Len(l) = n + 1 /\ \A j \in 1..n + 1 : l[j] = s + j
    BY <2>1
  <2> HIDE DEF l
  <2>3. l = r
    BY <2>1, <2>2, SeqEqual
  <2> QED
    BY <2>3 DEF l, w, r
<1>3. ASSUME n # 0
      PROVE  /\ Waiting(s, n) # <<>> /\ Head(Waiting(s, n)) = s + 1
             /\ Tail(Waiting(s, n)) = Waiting(s + 1, n - 1)
  <2> DEFINE w == Waiting(s, n)
             l == Tail(w)
             r == Waiting(s + 1, n - 1)
  <2>1. /\ w \in Seq(Nat) /\ Len(w) = n /\ \A j \in 1..n : w[j] = s + j
        /\ r \in Seq(Nat) /\ Len(r) = n - 1 /\ \A j \in 1..n - 1 : r[j] = (s + 1) + j
    <3>1. s + 1 \in Nat /\ n - 1 \in Nat
      BY <1>3
    <3> QED
      BY <1>1, <3>1, Zenon
  <2> HIDE DEF w, r
  <2>2. w # <<>> /\ Head(w) = s + 1
    BY <2>1, <1>3
  <2>3. /\ l \in Seq(Nat) /\ Len(l) = n - 1
        /\ \A j \in 1..n - 1 : l[j] = w[j + 1]
    BY <2>1, <2>2, HeadTailProperties
  <2>4. \A j \in 1..n - 1 : j + 1 \in 1..n /\ l[j] = (s + 1) + j
    BY <2>1, <2>3
  <2> HIDE DEF l
  <2>5. l = r
    BY <2>1, <2>3, <2>4, SeqEqual
  <2> QED
    BY <2>2, <2>5 DEF l, w, r
<1> QED
  BY <1>1, <1>2, <1>3

\* The refinement mapping reads the waiting characters off the ring.
LEMMA QueueIsWaiting == TypeOK /\ RingContents => Queue = Waiting(sent, Occupied)
<1> SUFFICES ASSUME TypeOK, RingContents
             PROVE  Queue = Waiting(sent, Occupied)
  OBVIOUS
<1>1. PICK n \in 0..N - 1 : Occupied = n
  BY DEF RingContents
<1>2. \A j \in 1..n : buf[Slot(tail + j - 1)] = sent + j
  <2> TAKE j \in 1..n
  <2>1. j - 1 \in 0..N - 1 /\ j - 1 < n /\ sent + 1 + (j - 1) = sent + j
        /\ tail + (j - 1) = tail + j - 1
    BY <1>1, RingAssumption DEF TypeOK
  <2> QED
    BY <1>1, <2>1 DEF RingContents
<1> QED
  BY <1>1, <1>2 DEF Queue, Waiting

\* The same after a step.
LEMMA QueueIsWaitingNext ==
  TypeOK' /\ RingContents' => (Queue = Waiting(sent, Occupied))'
  BY QueueIsWaiting, PTL

\* The empty ring is the empty channel.
THEOREM ChannelInit == Init => Channel!Init
<1> SUFFICES ASSUME Init PROVE Channel!Init
  OBVIOUS
<1>1. Occupied = 0 /\ wire = <<>> /\ Phase = "boot"
  BY DEF Init, Occupied, Phase
<1>2. Queue = <<>>
  BY <1>1 DEF Queue
<1> QED
  BY <1>1, <1>2 DEF Channel!Init

\* The phase of the launch: main writes only before it, the handler runs only
\* while its queue is not stalled, and only the launch stalls it.
LEMMA PhaseFacts ==
  ASSUME IInv, [Next]_vars
  PROVE  /\ WriteAdvance => Phase = "boot" /\ Phase' = "boot"
         /\ StartGuest => /\ Phase = "boot"
                          /\ Phase' = "guest" \/ (Phase' = "stalled" /\ head # tail)
         /\ Irq4 => Phase # "stalled" /\ Phase' = Phase
         /\ PutcUnbuffered => Phase' = IF Phase = "stalled" THEN "guest" ELSE Phase
         /\ ~StartGuest /\ ~PutcUnbuffered => Phase' = Phase
<1> USE DEF Phase, Stranded
<1>1. /\ launched => buffered /\ pc = "idle"
      /\ ier \in BOOLEAN /\ thre \in BOOLEAN /\ irr \in BOOLEAN /\ launched \in BOOLEAN
  BY DEF IInv, LaunchInv, TypeOK
<1>2. ASSUME WriteAdvance PROVE Phase = "boot" /\ Phase' = "boot"
  BY <1>1, <1>2 DEF WriteAdvance, InWrite
<1>3. ASSUME StartGuest
      PROVE  Phase = "boot" /\ (Phase' = "guest" \/ (Phase' = "stalled" /\ head # tail))
  BY <1>3 DEF StartGuest, ring
<1>4. ASSUME Irq4 PROVE Phase # "stalled" /\ Phase' = Phase
  <2>1. irr /\ UNCHANGED launched /\ ~irr'
    BY <1>4 DEF Irq4, cpu
  <2>2. CASE buffered /\ head # tail /\ LineReady
    <3>1. ~thre'
      BY <1>4, <2>2 DEF Irq4
    <3> QED
      BY <2>1, <3>1
  <2>3. CASE ~(buffered /\ head # tail /\ LineReady)
    <3>1. UNCHANGED <<head, tail, thre, buffered>>
      BY <1>4, <2>3 DEF Irq4, ring
    <3> QED
      BY <1>1, <2>1, <2>3, <3>1 DEF LineReady
  <2> QED
    BY <2>2, <2>3
<1>5. ASSUME PutcUnbuffered
      PROVE  Phase' = IF Phase = "stalled" THEN "guest" ELSE Phase
  BY <1>5 DEF PutcUnbuffered, Send, SetUart, cpu
<1>6. ASSUME Shift PROVE Phase' = Phase
  <2>1. ~thre /\ SetUart(ier, TRUE) /\ UNCHANGED <<launched, head, tail>>
    BY <1>6 DEF Shift, cpu, ring
  <2>2. ier' = ier /\ (ier => irr')
    BY <1>1, <2>1 DEF SetUart
  <2> QED
    BY <2>1, <2>2
<1>7. ASSUME WriteEnable \/ SerialSetBuffered PROVE Phase' = Phase
  <2>1. ~launched /\ UNCHANGED launched
    BY <1>1, <1>7 DEF WriteEnable, SerialSetBuffered, InWrite, cpu
  <2> QED
    BY <2>1
<1>8. ASSUME UNCHANGED <<launched, head, tail, ier, thre, irr>> PROVE Phase' = Phase
  BY <1>8
<1>9. ASSUME \/ WriteStart \/ WriteWait \/ WriteStore \/ ItrEnable \/ EnterIrq \/ LeaveIrq
             \/ UNCHANGED vars
      PROVE  Phase' = Phase
  BY <1>8, <1>9 DEF WriteStart, WriteWait, WriteStore, InWrite, ItrEnable, EnterIrq,
     LeaveIrq, ring, uart, vars, cpu
<1>10. ~StartGuest /\ ~PutcUnbuffered => Phase' = Phase
  BY <1>2, <1>4, <1>6, <1>7, <1>9 DEF Next, Writer
<1> QED
  BY <1>2, <1>3, <1>4, <1>5, <1>10

\* Every step enqueues one character, drains one, prints one past the queue,
\* launches, or leaves the channel as it was.
THEOREM ChannelStep == IInv /\ IInv' /\ [Next]_vars => [Channel!Next]_(Channel!vars)
<1> SUFFICES ASSUME IInv, IInv', [Next]_vars PROVE [Channel!Next]_(Channel!vars)
  OBVIOUS
<1>1. PICK n \in 0..N - 1 : Occupied = n
  BY DEF IInv, RingContents
<1>2. PICK m \in 0..N - 1 : Occupied' = m
  BY DEF IInv, RingContents
<1>3. /\ Queue = Waiting(sent, n) /\ Queue' = Waiting(sent', m)
      /\ sent \in Nat /\ written \in Nat /\ n \in Nat /\ m \in Nat /\ written = sent + n
      /\ Len(Queue) = n
  <2>1. Queue = Waiting(sent, n)
    BY <1>1, QueueIsWaiting DEF IInv
  <2>2. Queue' = Waiting(sent', m)
    BY <1>2, QueueIsWaitingNext DEF IInv
  <2>3. sent \in Nat /\ written \in Nat /\ n \in Nat /\ m \in Nat
    BY RingAssumption DEF IInv, TypeOK
  <2> QED
    BY <1>1, <2>1, <2>2, <2>3, WaitingFacts DEF Occupied
<1>4. CASE WriteAdvance
  <2>1. /\ pc = "advance" /\ written' = written + 1 /\ UNCHANGED <<sent, wire>>
    BY <1>4 DEF WriteAdvance, InWrite
  <2>2. n < N - 1 /\ written + 1 \in 1..MaxChars
    BY <1>1, <1>3, <2>1, BoundAssumption DEF IInv, WriterInv
  <2>3. m = n + 1 /\ written + 1 = sent + n + 1
    BY <1>2, <1>3, <2>1 DEF Occupied
  <2>4. Queue' = Append(Queue, written + 1)
    BY <1>3, <2>1, <2>3, WaitingFacts
  <2>5. Phase = "boot" /\ Phase' = "boot"
    BY <1>4, PhaseFacts
  <2> QED
    BY <1>3, <2>1, <2>2, <2>4, <2>5 DEF Channel!Next, Channel!Enqueue
<1>5. CASE Irq4 /\ buffered /\ head # tail /\ LineReady
  <2>1. /\ wire' = Append(wire, buf[tail]) /\ sent' = sent + 1 /\ written' = written
    BY <1>5 DEF Irq4
  <2>2. n # 0
    BY <1>1, <1>5, EmptyTest DEF IInv
  <2>3. buf[tail] = sent + 1
    <3>1. Slot(tail + 0) = tail /\ 0 \in 0..N - 1 /\ 0 < n
      BY <2>2, RingAssumption DEF IInv, TypeOK, Slot
    <3>2. buf[Slot(tail + 0)] = sent + 1 + 0
      BY <1>1, <3>1 DEF IInv, RingContents
    <3> QED
      BY <1>3, <3>1, <3>2
  <2>4. m = n - 1
    BY <1>2, <1>3, <2>1 DEF Occupied
  <2>5. Queue # <<>> /\ Head(Queue) = sent + 1 /\ Queue' = Tail(Queue)
    BY <1>3, <2>1, <2>2, <2>4, WaitingFacts
  <2>6. Phase # "stalled" /\ Phase' = Phase
    BY <1>5, PhaseFacts
  <2> QED
    BY <2>1, <2>3, <2>5, <2>6 DEF Channel!Next, Channel!Drain
<1>6. CASE PutcUnbuffered
  <2>1. wire' = Append(wire, 0) /\ sent' = sent /\ written' = written
    BY <1>6 DEF PutcUnbuffered, Send
  <2>2. m = n
    BY <1>1, <1>2, <1>3, <2>1 DEF Occupied
  <2>3. Phase' = IF Phase = "stalled" THEN "guest" ELSE Phase
    BY <1>6, PhaseFacts
  <2> QED
    BY <1>3, <2>1, <2>2, <2>3 DEF Channel!Next, Channel!PrintDirect
<1>7. CASE UNCHANGED <<written, sent, wire>>
  <2>1. m = n
    BY <1>1, <1>2, <1>3, <1>7 DEF Occupied
  <2>2. CASE StartGuest
    <3>1. head # tail => Queue # <<>>
      BY <1>1, <1>3, EmptyTest, WaitingFacts DEF IInv
    <3>2. Phase = "boot" /\ (Phase' = "guest" \/ (Phase' = "stalled" /\ head # tail))
      BY <2>2, PhaseFacts
    <3> QED
      BY <1>3, <1>7, <2>1, <3>1, <3>2 DEF Channel!Next, Channel!Launch
  <2>3. CASE ~StartGuest /\ ~PutcUnbuffered
    BY <1>3, <1>7, <2>1, <2>3, PhaseFacts DEF Channel!vars
  <2> QED
    BY <1>6, <2>2, <2>3
<1>8. \/ WriteAdvance \/ PutcUnbuffered \/ UNCHANGED <<written, sent, wire>>
      \/ Irq4 /\ buffered /\ head # tail /\ LineReady
  BY DEF Next, Writer, Shift, Irq4, WriteStart, WriteWait, WriteStore, WriteEnable, InWrite,
     SerialSetBuffered, ItrEnable, StartGuest, EnterIrq, LeaveIrq, vars, hist, ring
<1> QED
  BY <1>4, <1>5, <1>6, <1>7, <1>8

\* The safety part of ImplementsChannel: whatever the ring does, the channel
\* could have done.
THEOREM ImplementsChannelSafety ==
  Spec => Channel!Init /\ [][Channel!Next]_(Channel!vars)
<1>1. Init => Channel!Init
  BY ChannelInit
<1>2. IInv /\ IInv' /\ [Next]_vars => [Channel!Next]_(Channel!vars)
  BY ChannelStep
<1> QED
  BY <1>1, <1>2, Invariant, PTL DEF Spec
=============================================================================
