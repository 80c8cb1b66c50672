---------------------------- MODULE KeyboardRing ----------------------------
(***************************************************************************)
(* The keyboard buffer in the BIOS data area: keyboard_process_keystroke   *)
(* fills it, from line 1 while main runs in protected mode and from INT    *)
(* 16h, which polls the controller, once a boot sector runs; INT 16h       *)
(* empties it, giving each scancode the character keyboard_map finds with  *)
(* the flags of that moment: here, whether it is taken from the shift map. *)
(* The lock keys, whose LED dialogue with the keyboard is another          *)
(* protocol, are left out of the scancodes.                                *)
(***************************************************************************)
EXTENDS Integers, Sequences, SequencesExt

CONSTANTS
  RingSize,     \* KEYBOARD_BUFFER_SIZE, 128 in the code
  BufLen,       \* length of bda.keyboard_buffer, 32 in the code
  HeadAt,       \* offset of bda.keyboard_buffer_head from it, 98
  TailAt,       \* offset of bda.keyboard_buffer_tail from it, 100
  Codes,        \* scancodes the keyboard sends; break codes are >= 128
  MaxKeys,      \* bound: key presses in a behaviour
  MaxUnread,    \* key presses nobody has read yet
  PeekFirst     \* does the caller read only after INT 16h AH=1 saw a key?

ASSUME RingAssumption == RingSize \in Nat \ {0, 1} /\ BufLen \in Nat
ASSUME CodeAssumption == Codes \subseteq 1..255
ASSUME BoundAssumption == /\ HeadAt \in Nat /\ TailAt \in Nat
                          /\ MaxKeys \in Nat /\ MaxUnread \in Nat /\ PeekFirst \in BOOLEAN

IsMake(code) == code < 128
Key(code) == code % 128

\* The bits of keyboard_flags_xt and keyboard_flags_at each modifier key has.
Ctrl == 29
LeftShift == 42
RightShift == 54
Alt == 56
Insert == 82
Bits(key) ==
  CASE key = Ctrl       -> {"ctrl", "left_ctrl"}
    [] key = LeftShift  -> {"left_shift"}
    [] key = RightShift -> {"right_shift"}
    [] key = Alt        -> {"alt", "left_alt"}
    [] key = Insert     -> {"insert"}
    [] OTHER            -> {}
Shifts == Bits(LeftShift) \cup Bits(RightShift)
NoKey == [code |-> 0, upper |-> FALSE]

VARIABLES
  mode,                 \* "prot": line 1 has a handler; "real": a guest polls
  obf, irq1,            \* the 8042 output buffer (0: empty) and line 1
  mem, head, tail,      \* the bytes the ring covers, and its two indices
  flags,                \* keyboard_flags_xt and keyboard_flags_at, as a set of bits
  guest, seen, got,     \* where INT 16h is, what AH=1 last saw, answers of AH=0
  typed, held,          \* keys sent by the keyboard, and those held down
  early, clobbered      \* keys line 1 buffered; bytes hit outside the buffer

kbc  == <<obf, irq1>>
ring == <<mem, head, tail, clobbered>>
int16 == <<guest, seen, got>>
hand == <<typed, held>>
vars == <<mode, kbc, ring, flags, int16, hand, early>>

Init ==
  /\ mode = "prot" /\ obf = 0 /\ irq1 = FALSE
  /\ mem = [i \in 0..RingSize - 1 |-> 0] /\ head = 0 /\ tail = 0
  /\ flags = {} /\ guest = "idle" /\ seen = NoKey /\ got = <<>>
  /\ typed = <<>> /\ held = {} /\ early = 0 /\ clobbered = {}

\* The keyboard puts a scancode into the empty output buffer and raises line 1.
KeySend(code) ==
  /\ obf = 0
  /\ IsMake(code) => Len(typed) < MaxKeys /\ Len(typed) - Len(got) < MaxUnread
  /\ obf' = code /\ irq1' = TRUE
  /\ held' = IF IsMake(code) THEN held \cup {code} ELSE held \ {Key(code)}
  /\ typed' = IF IsMake(code)
              THEN Append(typed, [code |-> code, upper |-> held' \cap {LeftShift, RightShift} # {}])
              ELSE typed
  /\ UNCHANGED <<mode, ring, flags, int16, early>>

-----------------------------------------------------------------------------
Advance_NoWrap(i) == i + 1
Advance(i) == (i + 1) % RingSize

\* keyboard_buffer[head] = v; head = (head + 1) % 128.  The buffer is shorter
\* than the ring: a store past its end hits the fields that follow it, the two
\* indices (low byte, then high byte) among them, and whether head is read
\* again after the store is up to the compiler.
Push(v) ==
  /\ mem' = IF head < RingSize THEN [mem EXCEPT ![head] = v] ELSE mem
  /\ head' \in {Advance(head)} \cup (IF head = HeadAt THEN {Advance(v)} ELSE {})
  /\ tail' = CASE head = TailAt     -> v
               [] head = TailAt + 1 -> (tail % 256) + 256 * v
               [] OTHER             -> tail
  /\ clobbered' = IF head >= BufLen THEN clobbered \cup {head} ELSE clobbered

\* Insert is switched by each make code, the others go down and up.
FlagsAfter_MakeOnly(code) == flags \cup Bits(Key(code))
FlagsAfter(code) ==
  LET bits == Bits(Key(code))
  IN  IF ~IsMake(code) THEN flags \ bits
      ELSE IF code = Insert THEN (flags \ bits) \cup (bits \ flags) ELSE flags \cup bits

\* keyboard_process_keystroke, with a byte in the output buffer.
ProcessKeystroke ==
  /\ obf # 0 /\ obf' = 0
  /\ flags' = FlagsAfter(obf)
  /\ IF IsMake(obf) THEN Push(obf) ELSE UNCHANGED ring

\* keyboard_irq_handler; it waits for a byte if line 1 came without one.
Irq1 ==
  /\ mode = "prot" /\ irq1
  /\ irq1' = FALSE
  /\ ProcessKeystroke
  /\ early' = IF IsMake(obf) THEN early + 1 ELSE early
  /\ UNCHANGED <<mode, int16, hand>>

\* handle_keyboard in bios.asm only acknowledges the line.
Irq1Real ==
  /\ mode = "real" /\ irq1
  /\ irq1' = FALSE
  /\ UNCHANGED <<mode, obf, ring, flags, int16, hand, early>>

\* boot_from_hd reprograms the controllers, which forget a pending line.
StartGuest_Flush ==
  /\ mode = "prot"
  /\ mode' = "real" /\ irq1' = FALSE /\ tail' = head
  /\ UNCHANGED <<obf, mem, head, clobbered, flags, int16, hand, early>>
StartGuest ==
  /\ mode = "prot"
  /\ mode' = "real" /\ irq1' = FALSE
  /\ UNCHANGED <<obf, ring, flags, int16, hand, early>>

-----------------------------------------------------------------------------
(* INT 16h runs with interrupts disabled, so that keyboard_get_scancode     *)
(* takes its polling branch: each round of its recursion is one step, since *)
(* the keyboard may refill the output buffer between two.                   *)

Empty == head = tail
Available == ~Empty \/ obf # 0
Byte(i) == IF i \in DOMAIN mem THEN mem[i] ELSE 0

Call(service) ==
  /\ mode = "real" /\ guest = "idle"
  /\ service = "await" /\ PeekFirst => seen # NoKey
  /\ guest' = service
  /\ UNCHANGED <<mode, kbc, ring, flags, seen, got, hand, early>>

\* while (!keyboard_available());
Await ==
  /\ guest = "await" /\ Available
  /\ guest' = "read"
  /\ UNCHANGED <<mode, kbc, ring, flags, seen, got, hand, early>>

PollFirst_Always == TRUE
PollFirst == Empty
Poll ==
  /\ guest \in {"read", "peek"} /\ PollFirst
  /\ ProcessKeystroke
  /\ UNCHANGED <<mode, irq1, int16, hand, early>>

Scancode_Stale == Byte(tail)
Scancode == IF Empty THEN 0 ELSE Byte(tail)
\* keyboard_map, with the flags as they are now.
Answer == [code |-> Scancode, upper |-> flags \cap Shifts # {}]
PeekTail_Pops == Advance(tail)
PeekTail == tail
PeekReturn ==
  /\ guest = "peek" /\ (~Empty \/ obf = 0)
  /\ guest' = "idle" /\ seen' = IF Scancode > 0 THEN Answer ELSE NoKey
  /\ tail' = PeekTail
  /\ UNCHANGED <<mode, kbc, mem, head, clobbered, flags, got, hand, early>>

\* keyboard_pop_scancode advances the tail whatever it got.
ReadReturn ==
  /\ guest = "read" /\ (~Empty \/ obf = 0)
  /\ guest' = "idle" /\ seen' = NoKey
  /\ got' = Append(got, Answer)
  /\ tail' = Advance(tail)
  /\ UNCHANGED <<mode, kbc, mem, head, clobbered, flags, hand, early>>

-----------------------------------------------------------------------------
Int16 == Call("peek") \/ Call("await") \/ Await \/ Poll \/ PeekReturn \/ ReadReturn
Next == \/ \E code \in Codes : KeySend(code)
        \/ Irq1 \/ Irq1Real \/ StartGuest \/ Int16

\* main boots a drive, and the guest keeps polling and reads what it is told of.
Fairness == /\ WF_vars(StartGuest)
            /\ WF_vars(Await \/ Poll \/ PeekReturn \/ ReadReturn)
            /\ WF_vars(Call("peek")) /\ SF_vars(Call("await"))
Spec == Init /\ [][Next]_vars /\ Fairness

-----------------------------------------------------------------------------
\* What the two maps of keyboard.h tell apart: a scancode, and the map it is in.
Keys == [code : Codes \cup {0}, upper : BOOLEAN]
CodesOf(s) == [k \in DOMAIN s |-> s[k].code]

\* Every variable has its type; the indices stay inside the ring.
TypeOK ==
  /\ mode \in {"prot", "real"} /\ obf \in Codes \cup {0} /\ irq1 \in BOOLEAN
  /\ mem \in [0..RingSize - 1 -> Codes \cup {0}]
  /\ head \in 0..RingSize - 1 /\ tail \in 0..RingSize - 1
  /\ flags \subseteq UNION {Bits(Key(c)) : c \in Codes} /\ early \in 0..Len(typed)
  /\ guest \in {"idle", "await", "peek", "read"} /\ seen \in Keys
  /\ typed \in Seq(Keys) /\ got \in Seq(Keys)
  /\ held \subseteq {Key(c) : c \in Codes} /\ clobbered \subseteq Nat

\* A caller that reads only after AH=1 saw a key gets every key press once and
\* in order, whether line 1 buffered it in protected mode, the switch to real
\* mode left it in the controller, or INT 16h polled it.
KeysInOrder == IsPrefix(CodesOf(got), CodesOf(typed))

\* The ring keeps no flags beside a scancode: keyboard_map takes the ones of the
\* moment a key is read.  For a key that INT 16h polled they are still those of
\* the moment it was pressed, however fast shift was released after it, since
\* nothing more is taken from the controller before the key is read.
MappedAsPressed ==
  \A k \in DOMAIN got \cap DOMAIN typed : k > early => got[k] = typed[k]

\* The key and the character AH=1 announced are what the next AH=0 returns: the
\* keyboard cannot get between the two calls.
PeekAnnouncesRead == [][seen # NoKey /\ got' # got => Last(got') = seen]_vars

\* Once the controller's buffer is empty, the flags are those of the modifier
\* keys held down, although events are processed by two different paths; the
\* insert bit, which a make code switches, aside.
FlagsAreCurrent ==
  obf = 0 => flags \ {"insert"} = UNION {Bits(k) : k \in held \ {Insert}}

\* Every key press is returned to a guest that keeps polling.
KeysAreRead == \A k \in 1..MaxKeys : (Len(typed) >= k) ~> (Len(got) >= k)

\* What the code says elsewhere, and does not do:
\* bda.h declares 32 bytes for the buffer and asserts the offsets behind it;
\* keyboard stores stay inside those bytes.
StoresStayInBuffer == clobbered = {}
=============================================================================
