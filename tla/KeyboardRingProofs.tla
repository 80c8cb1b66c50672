------------------------- MODULE KeyboardRingProofs -------------------------
(***************************************************************************)
(* Proofs about KeyboardRing, for every size of the ring, every set of     *)
(* scancodes and every number of key presses: what AH=1 announces is what  *)
(* AH=0 returns and the flags are those of the keys held down, wherever    *)
(* the ring lies; and a caller that peeks first gets the keys in order,    *)
(* mapped as they were pressed, as long as the stores of the ring do not   *)
(* reach its own indices in the BIOS data area.                            *)
(***************************************************************************)
EXTENDS KeyboardRing, SequenceTheorems, TLAPS

\* Key presses taken from the controller, and those of them nobody has read.
Pushed == Len(typed) - (IF obf # 0 /\ IsMake(obf) THEN 1 ELSE 0)
Waiting == Pushed - Len(got)
Slot(i) == IF i < RingSize THEN i ELSE i - RingSize
ShiftHeld == held \cap {LeftShift, RightShift} # {}
BitsHeld(keys) == UNION {Bits(k) : k \in keys \ {Insert}}

(***************************************************************************)
(* The inductive invariant, wherever in the data area the ring lies.       *)
(***************************************************************************)
Types ==
  /\ mode \in {"prot", "real"} /\ obf \in Codes \cup {0} /\ irq1 \in BOOLEAN
  /\ mem \in [0..RingSize - 1 -> Codes \cup {0}]
  /\ head \in 0..RingSize - 1 /\ tail \in Nat
  /\ flags \subseteq UNION {Bits(Key(c)) : c \in Codes}
  /\ guest \in {"idle", "await", "peek", "read"} /\ seen \in Keys
  /\ typed \in Seq(Keys) /\ got \in Seq(Keys) /\ Len(typed) =< MaxKeys
  /\ held \subseteq {Key(c) : c \in Codes} /\ clobbered \subseteq Nat

\* The key in the controller's buffer is the last one pressed.
Pending ==
  obf # 0 /\ IsMake(obf) =>
    typed # <<>> /\ typed[Len(typed)] = [code |-> obf, upper |-> ShiftHeld]

\* Line 1 takes every key in protected mode, where nobody calls INT 16h.
Early ==
  /\ early \in Nat /\ early =< Pushed
  /\ mode = "prot" => early = Pushed /\ guest = "idle" /\ seen = NoKey /\ got = <<>>

\* The flags, with the event that is still in the controller.
FlagsFollow ==
  (IF obf = 0 THEN flags ELSE FlagsAfter(obf)) \ {"insert"} = BitsHeld(held)

\* What AH=1 saw is still there, and would still be mapped alike.
Announced == seen # NoKey => ~Empty /\ seen = Answer

IInv == Types /\ Pending /\ Early /\ FlagsFollow /\ Announced

(***************************************************************************)
(* What holds on top of it while no store reaches the indices: because the *)
(* ring ends before them, or because it was not filled that far; with the  *)
(* geometry of bda.h and keyboard.c, for the first 98 key presses.         *)
(***************************************************************************)
IndicesOutOfReach ==
  \/ RingSize =< HeadAt /\ RingSize =< TailAt
  \/ MaxKeys =< HeadAt /\ MaxKeys =< TailAt
InPlace == head =< Pushed /\ tail < RingSize

\* And for a caller that peeks before it reads, while the ring is not full.
PatientCaller == PeekFirst /\ MaxUnread < RingSize
Order ==
  /\ Waiting >= 0 /\ Len(typed) - Len(got) =< MaxUnread
  /\ head = Slot(tail + Waiting)
  /\ \A j \in 0..RingSize - 1 : j < Waiting =>
       mem[Slot(tail + j)] = typed[Len(got) + 1 + j].code
  /\ guest \in {"await", "read"} => Waiting > 0
  /\ \A k \in 1..Len(got) : got[k].code = typed[k].code
Mapped ==
  /\ mode = "real" /\ Waiting > 0 /\ Pushed > early =>
       Waiting = 1 /\ typed[Pushed].upper = (flags \cap Shifts # {})
  /\ MappedAsPressed

-----------------------------------------------------------------------------
(***************************************************************************)
(* The operators of the model.                                             *)
(***************************************************************************)

LEMMA AdvanceFacts ==
  /\ \A i \in 0..RingSize - 1 : Advance(i) = IF i + 1 < RingSize THEN i + 1 ELSE 0
  /\ \A i \in Nat : Advance(i) \in 0..RingSize - 1
BY RingAssumption DEF Advance

\* A scancode is the key's own when it is pressed.
LEMMA KeyFacts ==
  ASSUME NEW code \in Codes
  PROVE  /\ code \in 1..255 /\ Key(code) \in 0..127
         /\ IsMake(code) => Key(code) = code
BY CodeAssumption DEF Key, IsMake

\* No two keys share a bit, and only insert switches its own.
LEMMA BitsFacts ==
  /\ \A k, l \in Nat : k # l => Bits(k) \cap Bits(l) = {}
  /\ \A k \in Nat : /\ "insert" \in Bits(k) <=> k = Insert
                    /\ "left_shift" \in Bits(k) <=> k = LeftShift
                    /\ "right_shift" \in Bits(k) <=> k = RightShift
  /\ Bits(Insert) = {"insert"} /\ Shifts = {"left_shift", "right_shift"}
<1>1. /\ Bits(Ctrl) = {"ctrl", "left_ctrl"} /\ Bits(LeftShift) = {"left_shift"}
      /\ Bits(RightShift) = {"right_shift"} /\ Bits(Alt) = {"alt", "left_alt"}
      /\ Bits(Insert) = {"insert"}
      /\ \A k \in Nat : k \notin {Ctrl, LeftShift, RightShift, Alt, Insert} => Bits(k) = {}
  BY DEF Bits, Ctrl, LeftShift, RightShift, Alt, Insert
<1>2. /\ Ctrl # LeftShift /\ Ctrl # RightShift /\ Ctrl # Alt /\ Ctrl # Insert
      /\ LeftShift # RightShift /\ LeftShift # Alt /\ LeftShift # Insert
      /\ RightShift # Alt /\ RightShift # Insert /\ Alt # Insert
  BY DEF Ctrl, LeftShift, RightShift, Alt, Insert
<1>3. \A k, l \in Nat : k # l => Bits(k) \cap Bits(l) = {}
  BY <1>1, <1>2
<1>4. \A k \in Nat : /\ "insert" \in Bits(k) <=> k = Insert
                     /\ "left_shift" \in Bits(k) <=> k = LeftShift
                     /\ "right_shift" \in Bits(k) <=> k = RightShift
  <2>1. ASSUME NEW k \in Nat
        PROVE  /\ "insert" \in Bits(k) <=> k = Insert
               /\ "left_shift" \in Bits(k) <=> k = LeftShift
               /\ "right_shift" \in Bits(k) <=> k = RightShift
    <3>1. CASE k = Ctrl \/ k = Alt
      BY <1>1, <1>2, <3>1
    <3>2. CASE k = LeftShift \/ k = RightShift
      BY <1>1, <1>2, <3>2
    <3>3. CASE k = Insert
      BY <1>1, <1>2, <3>3
    <3>4. CASE k \notin {Ctrl, LeftShift, RightShift, Alt, Insert}
      BY <1>1, <3>4
    <3> QED
      BY <3>1, <3>2, <3>3, <3>4
  <2> QED
    BY <2>1
<1>5. Shifts = {"left_shift", "right_shift"}
  BY <1>1 DEF Shifts
<1> QED
  BY <1>1, <1>3, <1>4, <1>5

\* The event of one key, seen in the flags and seen on the keyboard.
LEMMA FlagsStep ==
  ASSUME NEW code \in Codes, NEW keys \in SUBSET Nat, NEW now,
         now = IF IsMake(code) THEN keys \cup {code} ELSE keys \ {Key(code)},
         flags \ {"insert"} = BitsHeld(keys)
  PROVE  FlagsAfter(code) \ {"insert"} = BitsHeld(now)
<1> DEFINE key == Key(code)
<1>1. key \in Nat /\ (IsMake(code) => key = code)
  BY KeyFacts
<1> HIDE DEF key
<1>2. CASE IsMake(code) /\ code = Insert
  <2>1. FlagsAfter(code) \ {"insert"} = flags \ {"insert"}
    BY <1>1, <1>2, BitsFacts DEF FlagsAfter, key
  <2>2. now \ {Insert} = keys \ {Insert}
    BY <1>2
  <2> QED
    BY <2>1, <2>2 DEF BitsHeld
<1>3. CASE IsMake(code) /\ code # Insert
  <2>1. FlagsAfter(code) = flags \cup Bits(code)
    BY <1>1, <1>3 DEF FlagsAfter, key
  <2>2. "insert" \notin Bits(code)
    BY <1>1, <1>3, BitsFacts
  <2>3. BitsHeld(now) = BitsHeld(keys) \cup Bits(code)
    BY <1>3 DEF BitsHeld
  <2> QED
    BY <2>1, <2>2, <2>3
<1>4. CASE ~IsMake(code)
  <2>1. FlagsAfter(code) = flags \ Bits(key)
    BY <1>4 DEF FlagsAfter, key
  <2>2. now = keys \ {key}
    BY <1>4 DEF key
  <2>3. CASE key = Insert
    <3>1. BitsHeld(now) = BitsHeld(keys)
      BY <2>2, <2>3 DEF BitsHeld
    <3> QED
      BY <2>1, <2>3, <3>1, BitsFacts
  <2>4. CASE key # Insert
    <3>1. BitsHeld(now) = BitsHeld(keys) \ Bits(key)
      BY <1>1, <2>2, <2>4, BitsFacts DEF BitsHeld
    <3> QED
      BY <2>1, <3>1
  <2> QED
    BY <2>3, <2>4
<1> QED
  BY <1>2, <1>3, <1>4

\* Once an event is taken, the shift bits say whether a shift key is down.
LEMMA ShiftFacts ==
  ASSUME Types, NEW set, set \ {"insert"} = BitsHeld(held)
  PROVE  set \cap Shifts # {} <=> ShiftHeld
<1>1. ASSUME NEW k \in held PROVE k \in Nat
  <2>1. PICK code \in Codes : k = Key(code)
    BY DEF Types
  <2> QED
    BY <2>1, KeyFacts
<1>2. "left_shift" \in set <=> LeftShift \in held
  BY <1>1, BitsFacts DEF BitsHeld, LeftShift, Insert
<1>3. "right_shift" \in set <=> RightShift \in held
  BY <1>1, BitsFacts DEF BitsHeld, RightShift, Insert
<1> QED
  BY <1>2, <1>3, BitsFacts DEF ShiftHeld

-----------------------------------------------------------------------------
(***************************************************************************)
(* The invariant that does not depend on where the ring lies.              *)
(***************************************************************************)

LEMMA InitIInv == ASSUME Init PROVE IInv
<1>1. Types
  <2>1. typed \in Seq(Keys) /\ got \in Seq(Keys) /\ Len(typed) =< MaxKeys
    BY EmptySeq, BoundAssumption DEF Init
  <2>2. seen \in Keys
    BY DEF Init, NoKey, Keys
  <2>3. head \in 0..RingSize - 1 /\ tail \in Nat /\ mem \in [0..RingSize - 1 -> Codes \cup {0}]
    BY RingAssumption DEF Init
  <2> QED
    BY <2>1, <2>2, <2>3 DEF Init, Types
<1>2. Pending /\ Announced
  BY DEF Init, Pending, Announced
<1>3. Early
  BY EmptySeq DEF Init, Early, Pushed
<1>4. FlagsFollow
  BY DEF Init, FlagsFollow, BitsHeld
<1> QED
  BY <1>1, <1>2, <1>3, <1>4 DEF IInv

\* A press is appended to those before, and stays in the controller.
LEMMA KeySendFacts ==
  ASSUME Types, NEW code \in Codes, KeySend(code)
  PROVE  /\ typed' \in Seq(Keys) /\ Len(typed)' =< MaxKeys /\ Len(typed) \in Nat
         /\ Len(typed)' = IF IsMake(code) THEN Len(typed) + 1 ELSE Len(typed)
         /\ IsMake(code) => /\ typed' # <<>>
                            /\ typed'[Len(typed)'] = [code |-> code, upper |-> ShiftHeld']
         /\ \A k \in 1..Len(typed) : typed'[k] = typed[k]
         /\ Pushed = Len(typed) /\ Pushed' = Len(typed)
<1>1. /\ obf = 0 /\ obf' = code /\ code # 0 /\ typed \in Seq(Keys) /\ Len(typed) =< MaxKeys
      /\ IsMake(code) => /\ Len(typed) < MaxKeys
                         /\ typed' = Append(typed, [code |-> code, upper |-> ShiftHeld'])
      /\ ~IsMake(code) => typed' = typed
  <2>1. code # 0
    BY CodeAssumption
  <2>2. typed \in Seq(Keys) /\ Len(typed) =< MaxKeys
    BY DEF Types
  <2> QED
    BY <2>1, <2>2 DEF KeySend, ShiftHeld
<1>2. Len(typed) \in Nat
  BY <1>1, LenProperties
<1>3. CASE IsMake(code)
  <2>1. [code |-> code, upper |-> ShiftHeld'] \in Keys
    BY DEF Keys, ShiftHeld
  <2>2. PICK key \in Keys : key = [code |-> code, upper |-> ShiftHeld']
    BY <2>1
  <2>3. typed' = Append(typed, key) /\ Len(typed) < MaxKeys
    BY <1>1, <1>3, <2>2
  <2>4. /\ typed' \in Seq(Keys) /\ Len(typed)' = Len(typed) + 1 /\ typed' # <<>>
        /\ typed'[Len(typed) + 1] = key /\ \A k \in 1..Len(typed) : typed'[k] = typed[k]
    BY <1>1, <2>3, AppendProperties
  <2>5. Pushed = Len(typed) /\ Pushed' = Len(typed)
    BY <1>1, <1>2, <1>3, <2>4 DEF Pushed
  <2> QED
    BY <1>2, <1>3, <2>2, <2>3, <2>4, <2>5, BoundAssumption
<1>4. CASE ~IsMake(code)
  BY <1>1, <1>2, <1>4 DEF Pushed
<1> QED
  BY <1>3, <1>4

LEMMA KeySendIInv == ASSUME IInv, NEW code \in Codes, KeySend(code) PROVE IInv'
<1>1. /\ obf = 0 /\ obf' = code /\ irq1' = TRUE /\ UNCHANGED <<mode, ring, flags, int16, early>>
      /\ held' = IF IsMake(code) THEN held \cup {code} ELSE held \ {Key(code)}
  BY DEF KeySend
<1>2. /\ UNCHANGED <<mem, head, tail, clobbered, guest, seen, got>>
      /\ Types /\ code # 0 /\ Key(code) \in Nat /\ (IsMake(code) => code = Key(code))
  <2>1. code \in 1..255 /\ Key(code) \in 0..127 /\ (IsMake(code) => Key(code) = code)
    BY KeyFacts
  <2>2. UNCHANGED <<mem, head, tail, clobbered, guest, seen, got>> /\ Types
    BY <1>1 DEF IInv, ring, int16
  <2> QED
    BY <2>1, <2>2
<1>3. /\ typed' \in Seq(Keys) /\ Len(typed)' =< MaxKeys
      /\ IsMake(code) => /\ typed' # <<>>
                         /\ typed'[Len(typed)'] = [code |-> code, upper |-> ShiftHeld']
      /\ Pushed' = Pushed
  BY <1>2, KeySendFacts
<1>4. held' \subseteq {Key(c) : c \in Codes}
  BY <1>1, <1>2 DEF Types
<1>5. Types'
  BY <1>1, <1>2, <1>3, <1>4 DEF Types
<1>6. Pending'
  BY <1>1, <1>3 DEF Pending
<1>7. Early'
  BY <1>1, <1>2, <1>3 DEF IInv, Early
<1>8. FlagsFollow'
  <2>1. \A k \in held : k \in Nat
    <3>1. ASSUME NEW k \in held PROVE k \in Nat
      <4>1. PICK c \in Codes : k = Key(c)
        BY <1>2 DEF Types
      <4> QED
        BY <4>1, KeyFacts
    <3> QED
      BY <3>1
  <2>2. flags \ {"insert"} = BitsHeld(held)
    BY <1>1 DEF IInv, FlagsFollow
  <2>3. held \in SUBSET Nat
    BY <2>1
  <2>4. PICK now : now = held'
    OBVIOUS
  <2>5. FlagsAfter(code) \ {"insert"} = BitsHeld(now)
    BY <1>1, <2>2, <2>3, <2>4, FlagsStep
  <2>6. (IF obf' = 0 THEN flags' ELSE FlagsAfter(obf)') = FlagsAfter(code)
    BY <1>1, <1>2 DEF FlagsAfter
  <2> QED
    BY <2>4, <2>5, <2>6 DEF FlagsFollow, BitsHeld
<1>9. Announced'
  BY <1>1, <1>2 DEF IInv, Announced, Empty, Answer, Scancode, Byte
<1> QED
  BY <1>5, <1>6, <1>7, <1>8, <1>9 DEF IInv

\* keyboard_process_keystroke empties the controller; it stores a press.
LEMMA PushFacts ==
  ASSUME Types, NEW v \in Codes, IsMake(v), Push(v)
  PROVE  /\ mem' \in [0..RingSize - 1 -> Codes \cup {0}] /\ mem' = [mem EXCEPT ![head] = v]
         /\ head' \in 0..RingSize - 1 /\ tail' \in Nat /\ clobbered' \subseteq Nat
         /\ IndicesOutOfReach /\ head < MaxKeys => head' = Advance(head) /\ tail' = tail
<1>1. /\ head \in 0..RingSize - 1 /\ head \in Nat /\ head < RingSize /\ tail \in Nat
      /\ v \in Nat /\ RingSize \in Nat
  <2>1. v \in 1..255
    BY KeyFacts
  <2> QED
    BY <2>1, RingAssumption DEF Types
<1>2. mem' = [mem EXCEPT ![head] = v]
  BY <1>1 DEF Push
<1>3. mem' \in [0..RingSize - 1 -> Codes \cup {0}]
  BY <1>1, <1>2 DEF Types
<1>4. head' \in 0..RingSize - 1
  BY <1>1, AdvanceFacts DEF Push
<1>5. tail' \in Nat
  <2>1. tail % 256 \in Nat /\ 256 * v \in Nat
    BY <1>1
  <2> QED
    BY <1>1, <2>1 DEF Push
<1>6. clobbered' \subseteq Nat
  BY <1>1 DEF Push, Types
<1>7. ASSUME IndicesOutOfReach, head < MaxKeys
      PROVE  head' = Advance(head) /\ tail' = tail
  <2>1. head # HeadAt /\ head # TailAt /\ head # TailAt + 1
    BY <1>1, <1>7, BoundAssumption DEF IndicesOutOfReach
  <2> QED
    BY <2>1 DEF Push
<1> QED
  BY <1>2, <1>3, <1>4, <1>5, <1>6, <1>7

LEMMA ProcessFacts ==
  ASSUME IInv, ProcessKeystroke, UNCHANGED <<mode, int16, hand>>, irq1' \in BOOLEAN
  PROVE  /\ Types' /\ Pending' /\ FlagsFollow' /\ obf \in Codes /\ obf' = 0
         /\ Len(typed) \in Nat /\ UNCHANGED <<guest, seen, got, typed, held>>
         /\ Pushed' = Len(typed) /\ Pushed = IF IsMake(obf) THEN Len(typed) - 1 ELSE Len(typed)
         /\ IsMake(obf) => Len(typed) >= 1
<1>1. /\ obf # 0 /\ obf' = 0 /\ flags' = FlagsAfter(obf)
      /\ IF IsMake(obf) THEN Push(obf) ELSE UNCHANGED ring
      /\ UNCHANGED <<guest, seen, got, typed, held>>
  BY DEF ProcessKeystroke, int16, hand
<1>2. Types /\ obf \in Codes /\ Key(obf) \in Nat
  <2>1. Types /\ obf \in Codes
    BY <1>1 DEF IInv, Types
  <2>2. Key(obf) \in 0..127
    BY <2>1, KeyFacts
  <2> QED
    BY <2>1, <2>2
<1>3. /\ mem' \in [0..RingSize - 1 -> Codes \cup {0}] /\ head' \in 0..RingSize - 1
      /\ tail' \in Nat /\ clobbered' \subseteq Nat
  <2>1. CASE IsMake(obf)
    BY <1>1, <1>2, <2>1, PushFacts
  <2>2. CASE ~IsMake(obf)
    BY <1>1, <1>2, <2>2 DEF Types, ring
  <2> QED
    BY <2>1, <2>2
<1>4. flags' \subseteq UNION {Bits(Key(c)) : c \in Codes}
  <2>1. Bits(Key(obf)) \subseteq UNION {Bits(Key(c)) : c \in Codes}
    BY <1>2
  <2> QED
    BY <1>1, <1>2, <2>1 DEF FlagsAfter, Types
<1>5. Types'
  BY <1>1, <1>2, <1>3, <1>4 DEF Types
<1>6. Pending' /\ FlagsFollow'
  BY <1>1 DEF Pending, IInv, FlagsFollow, BitsHeld
<1>7. /\ Len(typed) \in Nat /\ Pushed' = Len(typed)
      /\ Pushed = IF IsMake(obf) THEN Len(typed) - 1 ELSE Len(typed)
  BY <1>1, <1>2, LenProperties DEF Types, Pushed
<1>8. IsMake(obf) => Len(typed) >= 1
  BY <1>1, <1>2, <1>7, EmptySeq DEF IInv, Pending, Types
<1> QED
  BY <1>1, <1>2, <1>5, <1>6, <1>7, <1>8

LEMMA Irq1IInv == ASSUME IInv, Irq1 PROVE IInv'
<1>1. /\ mode = "prot" /\ irq1' = FALSE /\ ProcessKeystroke /\ UNCHANGED <<mode, int16, hand>>
      /\ early' = IF IsMake(obf) THEN early + 1 ELSE early
  BY DEF Irq1
<1>2. /\ Types' /\ Pending' /\ FlagsFollow' /\ Len(typed) \in Nat
      /\ UNCHANGED <<guest, seen, got, typed, held>>
      /\ Pushed' = Len(typed) /\ Pushed = IF IsMake(obf) THEN Len(typed) - 1 ELSE Len(typed)
  BY <1>1, ProcessFacts
<1>3. Early' /\ Announced'
  BY <1>1, <1>2 DEF IInv, Early, Announced
<1> QED
  BY <1>2, <1>3 DEF IInv

LEMMA PollIInv == ASSUME IInv, Poll PROVE IInv'
<1>1. /\ guest \in {"read", "peek"} /\ Empty /\ ProcessKeystroke
      /\ UNCHANGED <<mode, irq1, int16, hand, early>>
  BY DEF Poll, PollFirst
<1>2. irq1' \in BOOLEAN /\ UNCHANGED <<mode, int16, hand>>
  BY <1>1 DEF IInv, Types
<1>3. /\ Types' /\ Pending' /\ FlagsFollow' /\ Len(typed) \in Nat
      /\ UNCHANGED <<guest, seen, got, typed, held>>
      /\ Pushed' = Len(typed) /\ Pushed = IF IsMake(obf) THEN Len(typed) - 1 ELSE Len(typed)
  BY <1>1, <1>2, ProcessFacts
<1>4. seen = NoKey /\ mode # "prot"
  BY <1>1 DEF IInv, Announced, Early
<1>5. Early' /\ Announced'
  BY <1>1, <1>3, <1>4 DEF IInv, Early, Announced
<1> QED
  BY <1>3, <1>5 DEF IInv

LEMMA AnswerFacts == ASSUME Types PROVE Scancode \in Codes \cup {0} /\ Answer \in Keys
<1>1. Scancode \in Codes \cup {0}
  BY DEF Scancode, Byte, Types
<1> QED
  BY <1>1 DEF Answer, Keys

LEMMA PeekReturnIInv == ASSUME IInv, PeekReturn PROVE IInv'
<1>1. /\ guest = "peek" /\ guest' = "idle" /\ seen' = IF Scancode > 0 THEN Answer ELSE NoKey
      /\ UNCHANGED <<mode, kbc, ring, flags, got, hand, early>>
  BY DEF PeekReturn, PeekTail, ring
<1>2. /\ Types /\ UNCHANGED <<obf, irq1, mem, head, tail, clobbered, typed, held>>
      /\ mode # "prot" /\ NoKey \in Keys
  BY <1>1 DEF IInv, Early, kbc, ring, hand, NoKey, Keys
<1>3. Types'
  BY <1>1, <1>2, AnswerFacts DEF Types
<1>4. Pending' /\ FlagsFollow'
  BY <1>1, <1>2 DEF IInv, Pending, ShiftHeld, FlagsFollow, FlagsAfter, BitsHeld
<1>5. Early'
  BY <1>1, <1>2 DEF IInv, Early, Pushed
<1>6. Announced'
  <2>1. Empty' = Empty /\ Answer' = Answer
    BY <1>1, <1>2 DEF Empty, Answer, Scancode, Byte
  <2>2. Scancode > 0 => ~Empty
    BY DEF Scancode
  <2> QED
    BY <1>1, <2>1, <2>2 DEF Announced
<1> QED
  BY <1>3, <1>4, <1>5, <1>6 DEF IInv

LEMMA ReadReturnIInv == ASSUME IInv, ReadReturn PROVE IInv'
<1>1. /\ guest = "read" /\ guest' = "idle" /\ seen' = NoKey /\ got' = Append(got, Answer)
      /\ tail' = Advance(tail)
      /\ UNCHANGED <<mode, kbc, mem, head, clobbered, flags, hand, early>>
  BY DEF ReadReturn
<1>2. /\ Types /\ UNCHANGED <<obf, irq1, typed, held>> /\ mode # "prot" /\ NoKey \in Keys
  BY <1>1 DEF IInv, Early, kbc, hand, NoKey, Keys
<1>3. got' \in Seq(Keys)
  BY <1>1, <1>2, AnswerFacts, AppendProperties DEF Types
<1>4. tail' \in Nat
  BY <1>1, <1>2, AdvanceFacts DEF Types
<1>5. Types'
  BY <1>1, <1>2, <1>3, <1>4 DEF Types
<1>6. Pending' /\ FlagsFollow' /\ Announced'
  BY <1>1, <1>2
     DEF IInv, Pending, ShiftHeld, FlagsFollow, FlagsAfter, BitsHeld, Announced
<1>7. Early'
  BY <1>1, <1>2 DEF IInv, Early, Pushed
<1> QED
  BY <1>5, <1>6, <1>7 DEF IInv

\* The steps that touch neither the ring nor the controller's buffer.
LEMMA QuietIInv ==
  ASSUME IInv,
         UNCHANGED <<obf, ring, flags, seen, got, hand, early>>, irq1' \in BOOLEAN,
         mode' \in {"prot", "real"}, mode' = "prot" => mode = "prot" /\ guest' = "idle",
         guest' \in {"idle", "await", "peek", "read"}
  PROVE  IInv'
<1>1. Types /\ UNCHANGED <<mem, head, tail, clobbered, typed, held>>
  BY DEF IInv, ring, hand
<1>2. Types'
  BY <1>1 DEF Types
<1>3. Pending' /\ FlagsFollow'
  BY <1>1 DEF IInv, Pending, ShiftHeld, FlagsFollow, FlagsAfter, BitsHeld
<1>4. Early'
  BY <1>1 DEF IInv, Early, Pushed
<1>5. Announced'
  BY <1>1 DEF IInv, Announced, Empty, Answer, Scancode, Byte
<1> QED
  BY <1>2, <1>3, <1>4, <1>5 DEF IInv

LEMMA OtherIInv ==
  ASSUME IInv, Irq1Real \/ StartGuest \/ Call("peek") \/ Call("await") \/ Await
  PROVE  IInv'
<1>1. irq1 \in BOOLEAN /\ (guest # "idle" => mode = "real") /\ mode \in {"prot", "real"}
      /\ guest \in {"idle", "await", "peek", "read"}
  BY DEF IInv, Types, Early
<1>2. CASE Irq1Real
  BY <1>1, <1>2, QuietIInv DEF Irq1Real, int16
<1>3. CASE StartGuest
  BY <1>1, <1>3, QuietIInv DEF StartGuest, int16
<1>4. CASE Call("peek") \/ Call("await")
  BY <1>1, <1>4, QuietIInv DEF Call, kbc
<1>5. CASE Await
  BY <1>1, <1>5, QuietIInv DEF Await, kbc
<1> QED
  BY <1>2, <1>3, <1>4, <1>5

LEMMA NextIInv == ASSUME IInv, [Next]_vars PROVE IInv'
<1>1. CASE Next
  BY <1>1, KeySendIInv, Irq1IInv, PollIInv, PeekReturnIInv, ReadReturnIInv, OtherIInv
     DEF Next, Int16
<1>2. CASE UNCHANGED vars
  <2>1. UNCHANGED <<obf, irq1, mode, guest, ring, flags, seen, got, hand, early>>
    BY <1>2 DEF vars, kbc, int16
  <2>2. /\ irq1 \in BOOLEAN /\ mode \in {"prot", "real"} /\ (mode = "prot" => guest = "idle")
        /\ guest \in {"idle", "await", "peek", "read"}
    BY DEF IInv, Types, Early
  <2> QED
    BY <2>1, <2>2, QuietIInv
<1> QED
  BY <1>1, <1>2

-----------------------------------------------------------------------------
(***************************************************************************)
(* What the invariant shows by itself.                                     *)
(***************************************************************************)

THEOREM Invariant == Spec => []IInv
<1>1. Init => IInv
  BY InitIInv
<1>2. IInv /\ [Next]_vars => IInv'
  BY NextIInv
<1> QED
  BY <1>1, <1>2, PTL DEF Spec

\* The flags of the BIOS data area are those of the modifier keys held down once
\* the controller is empty, through line 1, through INT 16h and across the
\* switch, for every interleaving with the keyboard and every order of its keys.
THEOREM FlagsFollowKeys == Spec => []FlagsAreCurrent
<1>1. IInv => FlagsAreCurrent
  BY DEF IInv, FlagsFollow, FlagsAreCurrent, BitsHeld
<1> QED
  BY <1>1, Invariant, PTL

\* AH=0 returns the key and the character AH=1 announced, with the ring of any
\* size and anywhere: after AH=1 saw a key nothing is taken from the controller.
THEOREM PeekIsRead == Spec => PeekAnnouncesRead
<1>1. IInv /\ [Next]_vars => [seen # NoKey /\ got' # got => Last(got') = seen]_vars
  <2>1. SUFFICES ASSUME IInv, [Next]_vars, seen # NoKey, got' # got
                 PROVE  Last(got') = seen
    OBVIOUS
  <2>2. ReadReturn
    BY <2>1 DEF Next, KeySend, Irq1, Irq1Real, StartGuest, Int16, Call, Await, Poll, PeekReturn,
       vars, int16
  <2>3. Types /\ got \in Seq(Keys) /\ Answer \in Keys /\ got' = Append(got, Answer)
    BY <2>1, <2>2, AnswerFacts DEF IInv, Types, ReadReturn
  <2>4. Last(got') = Answer
    <3>1. Len(got') = Len(got) + 1 /\ got'[Len(got) + 1] = Answer
      BY <2>3, AppendProperties
    <3> QED
      BY <3>1 DEF Last
  <2> QED
    BY <2>1, <2>4 DEF IInv, Announced
<1> QED
  BY <1>1, Invariant, PTL DEF Spec, PeekAnnouncesRead

-----------------------------------------------------------------------------
(***************************************************************************)
(* While no store reaches the indices.                                     *)
(***************************************************************************)

\* A press is stored at the head, which moves on by one.
LEMMA StoreFacts ==
  ASSUME IndicesOutOfReach, IInv, InPlace, ProcessKeystroke, UNCHANGED <<mode, int16, hand>>,
         irq1' \in BOOLEAN
  PROVE  /\ tail' = tail /\ head' =< Pushed'
         /\ IsMake(obf) => head' = Advance(head) /\ mem' = [mem EXCEPT ![head] = obf]
         /\ ~IsMake(obf) => UNCHANGED <<head, mem>>
<1>1. /\ Types /\ head =< Pushed /\ obf \in Codes /\ Len(typed) \in Nat /\ Pushed' = Len(typed)
      /\ Pushed = IF IsMake(obf) THEN Len(typed) - 1 ELSE Len(typed)
      /\ head \in 0..RingSize - 1 /\ Len(typed) =< MaxKeys
  BY ProcessFacts DEF IInv, Types, InPlace
<1>2. CASE IsMake(obf)
  <2>1. Push(obf) /\ head < MaxKeys
    BY <1>1, <1>2, BoundAssumption, RingAssumption DEF ProcessKeystroke
  <2>2. head' = Advance(head) /\ tail' = tail /\ mem' = [mem EXCEPT ![head] = obf]
    BY <1>1, <1>2, <2>1, PushFacts
  <2>3. Advance(head) =< head + 1
    BY <1>1, AdvanceFacts, RingAssumption
  <2> QED
    <3>1. head \in Nat /\ Advance(head) \in Nat /\ head + 1 =< Len(typed)
      BY <1>1, <1>2, AdvanceFacts
    <3>2. head' =< Pushed'
      BY <1>1, <2>2, <2>3, <3>1
    <3> QED
      BY <1>2, <2>2, <3>2
<1>3. CASE ~IsMake(obf)
  BY <1>1, <1>3 DEF ProcessKeystroke, ring
<1> QED
  BY <1>2, <1>3

LEMMA InPlaceStep ==
  ASSUME IndicesOutOfReach, IInv, InPlace, [Next]_vars
  PROVE  InPlace'
<1>1. Types /\ Len(typed) \in Nat /\ tail < RingSize
  BY LenProperties DEF IInv, Types, InPlace
<1>2. ASSUME NEW code \in Codes, KeySend(code) PROVE InPlace'
  BY <1>1, <1>2, KeySendFacts DEF KeySend, ring, InPlace
<1>3. CASE Irq1 \/ Poll
  <2>1. ProcessKeystroke /\ UNCHANGED <<mode, int16, hand>> /\ irq1' \in BOOLEAN
    BY <1>1, <1>3 DEF Irq1, Poll, Types
  <2> QED
    BY <1>1, <2>1, StoreFacts DEF InPlace
<1>4. CASE ReadReturn
  <2>1. tail' \in 0..RingSize - 1
    BY <1>1, <1>4, AdvanceFacts DEF ReadReturn, Types
  <2>2. tail' < RingSize
    BY <2>1, RingAssumption
  <2> QED
    BY <1>4, <2>2 DEF ReadReturn, InPlace, Pushed, kbc, hand
<1>5. CASE UNCHANGED <<head, tail, obf, typed>>
  BY <1>5 DEF InPlace, Pushed
<1>6. CASE Irq1Real \/ StartGuest \/ Call("peek") \/ Call("await") \/ Await \/ PeekReturn
  <2>1. UNCHANGED <<head, tail, obf, typed>>
    BY <1>6 DEF Irq1Real, StartGuest, Call, Await, PeekReturn, PeekTail, ring, hand, kbc
  <2> QED
    BY <1>5, <2>1
<1>7. CASE UNCHANGED vars
  BY <1>5, <1>7 DEF vars, ring, hand, kbc
<1> QED
  BY <1>2, <1>3, <1>4, <1>6, <1>7 DEF Next, Int16

\* With a ring that ends before the indices, or one not filled that far, every
\* variable keeps its type: neither index leaves the ring.
THEOREM TypeCorrect == ASSUME IndicesOutOfReach PROVE Spec => []TypeOK
<1>1. Init => InPlace
  BY RingAssumption, EmptySeq DEF Init, InPlace, Pushed
<1>2. IInv /\ InPlace /\ [Next]_vars => InPlace'
  BY InPlaceStep
<1>3. IInv /\ InPlace => TypeOK
  <2>1. SUFFICES ASSUME IInv, InPlace PROVE TypeOK
    OBVIOUS
  <2>2. Len(typed) \in Nat /\ Types /\ early \in Nat /\ early =< Pushed
    BY <2>1, LenProperties DEF IInv, Types, Early
  <2>3. early \in 0..Len(typed)
    BY <2>2 DEF Pushed
  <2>4. tail \in 0..RingSize - 1
    BY <2>1, <2>2, RingAssumption DEF InPlace, Types
  <2> QED
    BY <2>2, <2>3, <2>4 DEF Types, TypeOK
<1> QED
  BY <1>1, <1>2, <1>3, Invariant, PTL DEF Spec

-----------------------------------------------------------------------------
(***************************************************************************)
(* And for a caller that peeks first.                                      *)
(***************************************************************************)
Ordered == IInv /\ InPlace /\ Order /\ Mapped

LEMMA Numbers ==
  ASSUME Ordered, PatientCaller
  PROVE  /\ Len(typed) \in Nat /\ Len(got) \in Nat /\ Pushed \in Nat /\ Waiting \in Nat
         /\ Pushed = Len(got) + Waiting /\ Pushed =< Len(typed) /\ Len(typed) =< Pushed + 1
         /\ Waiting =< MaxUnread /\ Waiting < RingSize /\ MaxUnread < RingSize
         /\ head \in 0..RingSize - 1 /\ tail \in 0..RingSize - 1 /\ RingSize \in Nat
<1>1. /\ Len(typed) \in Nat /\ Len(got) \in Nat /\ head \in 0..RingSize - 1 /\ tail \in Nat
      /\ tail < RingSize /\ Len(typed) - Len(got) =< MaxUnread /\ Waiting >= 0
      /\ RingSize \in Nat /\ MaxUnread \in Nat /\ MaxUnread < RingSize
  BY LenProperties, RingAssumption, BoundAssumption
     DEF Ordered, IInv, Types, InPlace, Order, PatientCaller
<1>2. Pushed = Len(typed) \/ Pushed = Len(typed) - 1
  BY <1>1 DEF Pushed
<1> QED
  BY <1>1, <1>2 DEF Waiting

\* The two indices are equal just when every key that was stored was read.
LEMMA EmptyTest == ASSUME Ordered, PatientCaller PROVE Empty <=> Waiting = 0
<1>1. head = Slot(tail + Waiting)
  BY DEF Ordered, Order
<1> QED
  BY <1>1, Numbers DEF Slot, Empty

\* Fewer steps than the ring has slots lead to different ones.
LEMMA SlotsApart ==
  ASSUME NEW t \in 0..RingSize - 1, NEW j \in Nat, NEW w \in Nat, j < w, w < RingSize
  PROVE  Slot(t + j) # Slot(t + w) /\ Slot(t + j) \in 0..RingSize - 1
<1>1. RingSize \in Nat /\ t \in Nat /\ t < RingSize
  BY RingAssumption
<1> QED
  BY <1>1 DEF Slot

\* One step further along the ring.
LEMMA SlotNext ==
  \A t \in 0..RingSize - 1, w \in 0..RingSize - 1 :
    /\ w + 1 < RingSize => Advance(Slot(t + w)) = Slot(t + (w + 1))
    /\ w >= 1 => Slot(Advance(t) + (w - 1)) = Slot(t + w)
<1>1. ASSUME NEW t \in 0..RingSize - 1, NEW w \in 0..RingSize - 1
      PROVE  /\ w + 1 < RingSize => Advance(Slot(t + w)) = Slot(t + (w + 1))
             /\ w >= 1 => Slot(Advance(t) + (w - 1)) = Slot(t + w)
  <2>1. Slot(t + w) \in 0..RingSize - 1
    BY RingAssumption DEF Slot
  <2>2. /\ Advance(Slot(t + w)) = IF Slot(t + w) + 1 < RingSize THEN Slot(t + w) + 1 ELSE 0
        /\ Advance(t) = IF t + 1 < RingSize THEN t + 1 ELSE 0
    BY <2>1, AdvanceFacts
  <2> QED
    BY <2>1, <2>2, RingAssumption DEF Slot
<1> QED
  BY <1>1

LEMMA KeySendOrder ==
  ASSUME Ordered, PatientCaller, NEW code \in Codes, KeySend(code)
  PROVE  Order' /\ Mapped'
<1>1. /\ UNCHANGED <<mode, mem, head, tail, guest, got, flags, early>>
      /\ IsMake(code) => Len(typed) - Len(got) < MaxUnread
  BY DEF KeySend, ring, int16
<1>2. Types /\ Order /\ Mapped
  BY DEF Ordered, IInv
<1>3. /\ Len(typed)' = IF IsMake(code) THEN Len(typed) + 1 ELSE Len(typed)
      /\ \A k \in 1..Len(typed) : typed'[k] = typed[k]
      /\ Pushed = Len(typed) /\ Pushed' = Len(typed)
      /\ typed \in Seq(Keys) /\ typed' \in Seq(Keys) /\ got \in Seq(Keys)
  BY <1>2, KeySendFacts DEF Types
<1>4. Waiting' = Waiting
  BY <1>1, <1>3 DEF Waiting
<1>5. Order'
  <2>1. Len(typed)' - Len(got)' =< MaxUnread
    <3>1. Len(typed) - Len(got) =< MaxUnread
      BY <1>2 DEF Order
    <3> QED
      BY <1>1, <1>3, <3>1, Numbers, BoundAssumption
  <2>2. \A j \in 0..RingSize - 1 : j < Waiting =>
          Len(got) + 1 + j \in 1..Len(typed) /\ mem[Slot(tail + j)] = typed[Len(got) + 1 + j].code
    <3>1. ASSUME NEW j \in 0..RingSize - 1, j < Waiting PROVE Len(got) + 1 + j \in 1..Len(typed)
      BY <1>3, <3>1, Numbers
    <3> QED
      BY <1>2, <3>1 DEF Order
  <2>3. \A k \in 1..Len(got) : k \in 1..Len(typed) /\ got[k].code = typed[k].code
    BY <1>2, <1>3, Numbers DEF Order
  <2> QED
    BY <1>1, <1>2, <1>3, <1>4, <2>1, <2>2, <2>3 DEF Order, Slot
<1>6. MappedAsPressed'
  <2>1. SUFFICES ASSUME NEW k \in DOMAIN got' \cap DOMAIN typed', k > early'
                 PROVE  got'[k] = typed'[k]
    BY DEF MappedAsPressed
  <2>2. k \in 1..Len(got) /\ k \in DOMAIN got
    BY <1>1, <1>3, <2>1, LenProperties
  <2>3. k \in 1..Len(typed) /\ k \in DOMAIN typed
    BY <1>3, <2>2, Numbers, LenProperties
  <2> QED
    BY <1>1, <1>2, <1>3, <2>1, <2>2, <2>3 DEF Mapped, MappedAsPressed
<1>7. Mapped'
  <2>1. CASE Waiting > 0
    <3>1. Pushed \in 1..Len(typed)
      BY <1>3, <2>1, Numbers
    <3>2. typed'[Pushed'] = typed[Pushed]
      BY <1>3, <3>1
    <3> QED
      BY <1>1, <1>2, <1>3, <1>4, <1>6, <3>2 DEF Mapped
  <2>2. CASE ~(Waiting > 0)
    BY <1>4, <1>6, <2>2 DEF Mapped
  <2> QED
    BY <2>1, <2>2
<1> QED
  BY <1>5, <1>7

\* Line 1 stores every key, and nobody has read one yet; INT 16h stores one only
\* when the ring is empty, with the flags of the moment the key was pressed.
LEMMA ProcessOrder ==
  ASSUME Ordered, PatientCaller, IndicesOutOfReach, Irq1 \/ Poll
  PROVE  Order' /\ Mapped'
<1>1. /\ ProcessKeystroke /\ UNCHANGED <<mode, int16, hand>> /\ irq1' \in BOOLEAN
      /\ Irq1 => mode = "prot" /\ (early' = early \/ early' = early + 1)
      /\ Poll => mode # "prot" /\ guest \in {"read", "peek"} /\ Empty /\ early' = early
  BY DEF Irq1, Poll, PollFirst, Ordered, IInv, Types, Early
<1>2. Types /\ Order /\ Mapped /\ FlagsFollow /\ Pending /\ Early /\ IInv /\ InPlace
  BY DEF Ordered, IInv
<1>3. /\ Types' /\ obf \in Codes /\ obf' = 0 /\ UNCHANGED <<guest, seen, got, typed, held>>
      /\ Pushed' = Len(typed) /\ Pushed = IF IsMake(obf) THEN Len(typed) - 1 ELSE Len(typed)
      /\ IsMake(obf) => Len(typed) >= 1
  BY <1>1, <1>2, ProcessFacts
<1>4. /\ tail' = tail
      /\ IsMake(obf) => head' = Advance(head) /\ mem' = [mem EXCEPT ![head] = obf]
      /\ ~IsMake(obf) => UNCHANGED <<head, mem>>
  BY <1>1, <1>2, StoreFacts
<1>5. Waiting' = IF IsMake(obf) THEN Waiting + 1 ELSE Waiting
  BY <1>3, Numbers DEF Waiting
<1>6. Waiting' \in Nat /\ Waiting' =< MaxUnread
  <2>1. Len(typed) - Len(got) =< MaxUnread
    BY <1>2 DEF Order
  <2>2. Waiting' = Len(typed) - Len(got)
    BY <1>3 DEF Waiting
  <2> QED
    BY <1>5, <2>1, <2>2, Numbers
<1>7. obf # 0
  BY <1>3, CodeAssumption
<1>8. Order'
  <2>1. head' = Slot(tail' + Waiting')
    <3>1. CASE IsMake(obf)
      <4>1. head = Slot(tail + Waiting) /\ head' = Advance(head)
        BY <1>2, <1>4, <3>1 DEF Order
      <4>2. Waiting' = Waiting + 1 /\ Waiting + 1 < RingSize
        BY <1>5, <1>6, <3>1, Numbers, BoundAssumption
      <4>3. head' = Slot(tail + (Waiting + 1))
        BY <4>1, <4>2, Numbers, SlotNext
      <4> QED
        BY <1>4, <4>2, <4>3
    <3>2. CASE ~IsMake(obf)
      BY <1>2, <1>4, <1>5, <3>2 DEF Order
    <3> QED
      BY <3>1, <3>2
  <2>2. ASSUME NEW j \in 0..RingSize - 1, j < Waiting'
        PROVE  mem'[Slot(tail + j)] = typed[Len(got) + 1 + j].code
    <3>1. CASE j < Waiting
      <4>1. mem[Slot(tail + j)] = typed[Len(got) + 1 + j].code
        BY <1>2, <3>1 DEF Order
      <4>2. head = Slot(tail + Waiting)
        BY <1>2 DEF Order
      <4>3. Slot(tail + j) # head /\ Slot(tail + j) \in 0..RingSize - 1
        <5>1. /\ tail \in 0..RingSize - 1 /\ j \in Nat /\ Waiting \in Nat
              /\ j < Waiting /\ Waiting < RingSize
          BY <3>1, Numbers
        <5>2. Slot(tail + j) # Slot(tail + Waiting) /\ Slot(tail + j) \in 0..RingSize - 1
          BY <5>1, SlotsApart
        <5> QED
          BY <4>2, <5>2
      <4> QED
        BY <1>2, <1>4, <4>1, <4>3 DEF Types
    <3>2. CASE ~(j < Waiting)
      <4>1. IsMake(obf) /\ j = Waiting /\ Len(got) + 1 + j = Len(typed)
        BY <1>3, <1>5, <2>2, <3>2, Numbers
      <4>2. head = Slot(tail + j)
        BY <1>2, <4>1 DEF Order
      <4>3. mem'[head] = obf
        BY <1>2, <1>4, <4>1 DEF Types
      <4>4. typed[Len(typed)].code = obf
        BY <1>2, <1>7, <4>1 DEF Pending
      <4> QED
        BY <4>1, <4>2, <4>3, <4>4
    <3> QED
      BY <3>1, <3>2
  <2>3. guest' \in {"await", "read"} => Waiting' > 0
    BY <1>2, <1>3, <1>5, Numbers DEF Order
  <2> QED
    BY <1>2, <1>3, <1>4, <1>6, <2>1, <2>2, <2>3 DEF Order, Slot
<1>9. MappedAsPressed'
  <2>1. CASE Irq1
    <3>1. got' = <<>>
      BY <1>1, <1>2, <1>3, <2>1 DEF Early
    <3> QED
      BY <3>1, EmptySeq DEF MappedAsPressed
  <2>2. CASE Poll
    BY <1>1, <1>2, <1>3, <2>2 DEF Mapped, MappedAsPressed
  <2> QED
    BY <2>1, <2>2
<1>10. Mapped'
  <2>1. CASE mode = "prot"
    BY <1>1, <1>9, <2>1 DEF Mapped
  <2>2. CASE mode # "prot"
    <3>1. Waiting = 0 /\ mode' = mode
      BY <1>1, <2>2, EmptyTest
    <3>2. ASSUME Waiting' > 0
          PROVE  Waiting' = 1 /\ typed'[Pushed'].upper = (flags' \cap Shifts # {})
      <4>1. IsMake(obf) /\ Waiting' = 1
        BY <1>5, <3>1, <3>2
      <4>2. typed[Len(typed)].upper = ShiftHeld
        BY <1>2, <1>7, <4>1 DEF Pending
      <4>3. flags' = FlagsAfter(obf) /\ FlagsAfter(obf) \ {"insert"} = BitsHeld(held)
        BY <1>1, <1>2, <1>7 DEF ProcessKeystroke, FlagsFollow
      <4>4. flags' \cap Shifts # {} <=> ShiftHeld
        BY <1>2, <4>3, ShiftFacts
      <4> QED
        BY <1>3, <4>1, <4>2, <4>4 DEF ShiftHeld
    <3> QED
      BY <1>9, <3>2 DEF Mapped
  <2> QED
    BY <2>1, <2>2
<1> QED
  BY <1>8, <1>10

\* AH=0 returns the oldest key that is waiting, and never finds the ring empty.
LEMMA ReadReturnOrder ==
  ASSUME Ordered, PatientCaller, ReadReturn
  PROVE  Order' /\ Mapped'
<1>1. /\ guest = "read" /\ guest' = "idle" /\ got' = Append(got, Answer)
      /\ tail' = Advance(tail) /\ UNCHANGED <<mode, obf, mem, head, flags, typed, early>>
  BY DEF ReadReturn, kbc, hand
<1>2. /\ Types /\ Order /\ Mapped /\ Early /\ mode = "real" /\ Answer \in Keys
      /\ got \in Seq(Keys) /\ typed \in Seq(Keys)
  BY <1>1, AnswerFacts DEF Ordered, IInv, Types, Early
<1>3. Waiting > 0 /\ ~Empty
  BY <1>1, <1>2, EmptyTest, Numbers DEF Order
<1>4. /\ got' \in Seq(Keys) /\ Len(got)' = Len(got) + 1 /\ got'[Len(got) + 1] = Answer
      /\ \A k \in 1..Len(got) : got'[k] = got[k]
  BY <1>1, <1>2, AppendProperties
<1>5. Pushed' = Pushed /\ Waiting' = Waiting - 1
  <2>1. Pushed' = Pushed
    BY <1>1 DEF Pushed
  <2> QED
    BY <1>4, <2>1, Numbers DEF Waiting
<1>6. Answer.code = typed[Len(got) + 1].code
  <2>1. mem[Slot(tail + 0)] = typed[Len(got) + 1 + 0].code
    BY <1>2, <1>3, Numbers DEF Order
  <2>2. Slot(tail + 0) = tail /\ Len(got) + 1 + 0 = Len(got) + 1 /\ tail \in DOMAIN mem
    BY <1>2, Numbers DEF Slot, Types
  <2>3. Answer.code = mem[tail]
    BY <1>3, <2>2 DEF Answer, Scancode, Byte
  <2> QED
    BY <2>1, <2>2, <2>3
<1>7. Order'
  <2>1. Waiting' \in Nat /\ Len(typed)' - Len(got)' =< MaxUnread
    <3>1. Len(typed) - Len(got) =< MaxUnread
      BY <1>2 DEF Order
    <3> QED
      BY <1>1, <1>3, <1>4, <1>5, <3>1, Numbers, BoundAssumption
  <2>2. head' = Slot(tail' + Waiting')
    <3>1. head = Slot(tail + Waiting)
      BY <1>2 DEF Order
    <3>2. Slot(Advance(tail) + (Waiting - 1)) = Slot(tail + Waiting)
      BY <1>3, Numbers, SlotNext
    <3> QED
      BY <1>1, <1>5, <3>1, <3>2
  <2>3. ASSUME NEW j \in 0..RingSize - 1, j < Waiting'
        PROVE  mem[Slot(tail' + j)] = typed[Len(got)' + 1 + j].code
    <3>1. j + 1 \in 0..RingSize - 1 /\ j + 1 < Waiting
      BY <1>5, <2>3, Numbers
    <3>2. mem[Slot(tail + (j + 1))] = typed[Len(got) + 1 + (j + 1)].code
      BY <1>2, <3>1 DEF Order
    <3>3. Slot(Advance(tail) + ((j + 1) - 1)) = Slot(tail + (j + 1))
      BY <3>1, Numbers, SlotNext
    <3>4. (j + 1) - 1 = j /\ Len(got)' + 1 + j = Len(got) + 1 + (j + 1)
      BY <1>4, Numbers
    <3> QED
      BY <1>1, <3>2, <3>3, <3>4
  <2>4. \A k \in 1..Len(got)' : got'[k].code = typed[k].code
    <3>1. ASSUME NEW k \in 1..Len(got)' PROVE got'[k].code = typed[k].code
      <4>1. CASE k = Len(got) + 1
        BY <1>4, <1>6, <4>1
      <4>2. CASE k # Len(got) + 1
        <5>1. k \in 1..Len(got)
          BY <1>4, <4>2, Numbers
        <5> QED
          BY <1>2, <1>4, <5>1 DEF Order
      <4> QED
        BY <4>1, <4>2
    <3> QED
      BY <3>1
  <2> QED
    BY <1>1, <2>1, <2>2, <2>3, <2>4 DEF Order, Slot
<1>8. Pushed > early => Waiting = 1 /\ Answer = typed[Len(got) + 1]
  <2>1. SUFFICES ASSUME Pushed > early
                 PROVE  Waiting = 1 /\ Answer = typed[Len(got) + 1]
    OBVIOUS
  <2>2. Waiting = 1 /\ typed[Pushed].upper = (flags \cap Shifts # {})
    BY <1>2, <1>3, <2>1 DEF Mapped
  <2>3. Pushed = Len(got) + 1 /\ Pushed \in 1..Len(typed)
    BY <2>2, Numbers
  <2>4. typed[Pushed] \in Keys
    BY <1>2, <2>3, ElementOfSeq
  <2>5. Answer.upper = typed[Pushed].upper /\ Answer.code = typed[Pushed].code
    BY <1>6, <2>2, <2>3 DEF Answer
  <2>6. Answer = typed[Pushed]
    BY <1>2, <2>4, <2>5 DEF Keys
  <2> QED
    BY <2>2, <2>3, <2>6
<1>9. MappedAsPressed'
  <2>1. SUFFICES ASSUME NEW k \in DOMAIN got' \cap DOMAIN typed, k > early
                 PROVE  got'[k] = typed[k]
    BY <1>1 DEF MappedAsPressed
  <2>2. k \in 1..Len(got) + 1 /\ early \in Nat
    BY <1>2, <1>4, <2>1, LenProperties DEF Early
  <2>3. CASE k = Len(got) + 1
    <3>1. Pushed > early
      BY <1>3, <2>1, <2>2, <2>3, Numbers
    <3> QED
      BY <1>4, <1>8, <2>3, <3>1
  <2>4. CASE k # Len(got) + 1
    <3>1. k \in 1..Len(got)
      BY <2>2, <2>4, Numbers
    <3>2. k \in DOMAIN got /\ got'[k] = got[k]
      BY <1>2, <1>4, <3>1, LenProperties
    <3> QED
      BY <1>2, <2>1, <3>2 DEF Mapped, MappedAsPressed
  <2> QED
    BY <2>3, <2>4
<1>10. Mapped'
  <2>1. Pushed' > early' => ~(Waiting' > 0)
    BY <1>1, <1>5, <1>8
  <2> QED
    BY <1>9, <2>1 DEF Mapped
<1> QED
  BY <1>7, <1>10

\* A caller that peeks first reads only while a key is waiting.
LEMMA QuietOrder ==
  ASSUME Ordered, PatientCaller,
         UNCHANGED <<obf, mem, head, tail, flags, got, typed, early>>,
         mode' = mode \/ StartGuest,
         guest' \in {"await", "read"} => Waiting > 0
  PROVE  Order' /\ Mapped'
<1>1. Order /\ Mapped /\ Early
  BY DEF Ordered, IInv
<1>2. Pushed' = Pushed /\ Waiting' = Waiting
  BY DEF Pushed, Waiting
<1>3. Order'
  BY <1>1, <1>2 DEF Order, Slot
<1>4. MappedAsPressed'
  BY <1>1 DEF Mapped, MappedAsPressed
<1>5. mode' = mode \/ Pushed = early
  BY <1>1 DEF StartGuest, Early
<1>6. Mapped'
  <2>1. CASE mode' = mode
    BY <1>1, <1>2, <1>4, <2>1 DEF Mapped
  <2>2. CASE Pushed = early
    <3>1. ~(Pushed' > early')
      BY <1>1, <1>2, <2>2 DEF Early
    <3> QED
      BY <1>4, <3>1 DEF Mapped
  <2> QED
    BY <1>5, <2>1, <2>2
<1> QED
  BY <1>3, <1>6

LEMMA OtherOrder ==
  ASSUME Ordered, PatientCaller,
         \/ Irq1Real \/ StartGuest \/ Call("peek") \/ Call("await") \/ Await \/ PeekReturn
         \/ UNCHANGED vars
  PROVE  Order' /\ Mapped'
<1>1. guest \in {"await", "read"} => Waiting > 0
  BY DEF Ordered, Order
<1>2. CASE Irq1Real
  BY <1>1, <1>2, QuietOrder DEF Irq1Real, ring, int16, hand
<1>3. CASE StartGuest
  BY <1>1, <1>3, QuietOrder DEF StartGuest, ring, int16, hand
<1>4. CASE Call("peek")
  BY <1>4, QuietOrder DEF Call, kbc, ring, hand
<1>5. CASE Call("await")
  <2>1. seen # NoKey
    BY <1>5 DEF Call, PatientCaller
  <2>2. Waiting > 0
    BY <2>1, EmptyTest, Numbers DEF Ordered, IInv, Announced
  <2> QED
    BY <1>5, <2>2, QuietOrder DEF Call, kbc, ring, hand
<1>6. CASE Await
  BY <1>1, <1>6, QuietOrder DEF Await, kbc, ring, hand
<1>7. CASE PeekReturn
  BY <1>7, QuietOrder DEF PeekReturn, PeekTail, kbc, hand
<1>8. CASE UNCHANGED vars
  BY <1>1, <1>8, QuietOrder DEF vars, kbc, ring, int16, hand
<1> QED
  BY <1>2, <1>3, <1>4, <1>5, <1>6, <1>7, <1>8

THEOREM InOrder == ASSUME IndicesOutOfReach, PatientCaller PROVE Spec => []Ordered
<1>1. Init => InPlace
  BY RingAssumption, EmptySeq DEF Init, InPlace, Pushed
<1>2. Init => Order /\ Mapped
  BY RingAssumption, BoundAssumption, EmptySeq
     DEF Init, Order, Mapped, MappedAsPressed, Waiting, Pushed, Slot
<1>3. Ordered /\ [Next]_vars => Order' /\ Mapped'
  <2>1. SUFFICES ASSUME Ordered, [Next]_vars PROVE Order' /\ Mapped'
    OBVIOUS
  <2> QED
    BY <2>1, KeySendOrder, ProcessOrder, ReadReturnOrder, OtherOrder DEF Next, Int16
<1>4. IInv /\ InPlace /\ [Next]_vars => InPlace'
  BY InPlaceStep
<1> QED
  BY <1>1, <1>2, <1>3, <1>4, InitIInv, NextIInv, PTL DEF Spec, Ordered

\* A caller that peeks before it reads gets every key press once and in order,
\* with a ring of any size that never fills, through line 1, the switch to real
\* mode and INT 16h.
THEOREM KeysAreReadInOrder ==
  ASSUME IndicesOutOfReach, PatientCaller PROVE Spec => []KeysInOrder
<1>1. Ordered => KeysInOrder
  <2>1. SUFFICES ASSUME Ordered PROVE KeysInOrder
    OBVIOUS
  <2> DEFINE m == Len(got)
             n == Len(typed)
             a == CodesOf(got)
             b == CodesOf(typed)
  <2>2. /\ m \in Nat /\ n \in Nat /\ m =< n /\ DOMAIN got = 1..m /\ DOMAIN typed = 1..n
        /\ got \in Seq(Keys) /\ typed \in Seq(Keys)
        /\ \A k \in 1..m : got[k].code = typed[k].code
    BY <2>1, Numbers, LenProperties DEF Ordered, IInv, Types, Order
  <2>3. a = [k \in 1..m |-> got[k].code] /\ b = [k \in 1..n |-> typed[k].code]
    BY <2>2 DEF CodesOf
  <2>4. /\ \A k \in 1..m : got[k].code \in Codes \cup {0}
        /\ \A k \in 1..n : typed[k].code \in Codes \cup {0}
    <3>1. (\A k \in 1..m : got[k] \in Keys) /\ (\A k \in 1..n : typed[k] \in Keys)
      BY <2>2
    <3> QED
      BY <3>1 DEF Keys
  <2>5. a \in Seq(Codes \cup {0}) /\ Len(a) = m /\ b \in Seq(Codes \cup {0}) /\ Len(b) = n
    BY <2>2, <2>3, <2>4
  <2>6. \A k \in 1..m : a[k] = b[k]
    BY <2>2, <2>3
  <2> HIDE DEF a, b, m, n
  <2>7. SubSeq(a, 1, m) = SubSeq(b, 1, m)
    <3>1. /\ SubSeq(a, 1, m) \in Seq(Codes \cup {0}) /\ SubSeq(b, 1, m) \in Seq(Codes \cup {0})
          /\ Len(SubSeq(a, 1, m)) = m /\ Len(SubSeq(b, 1, m)) = m
          /\ \A k \in 1..m : SubSeq(a, 1, m)[k] = a[k] /\ SubSeq(b, 1, m)[k] = b[k]
      BY <2>2, <2>5, SubSeqProperties, ElementOfSeq
    <3> QED
      BY <2>6, <3>1, SeqEqual
  <2> QED
    BY <2>2, <2>5, <2>7 DEF KeysInOrder, IsPrefix, a, b
<1> QED
  BY <1>1, InOrder, PTL

\* And a key that INT 16h polled is mapped with the shift state of the moment it
\* was pressed, however soon shift was released after it.
THEOREM KeysAreMappedAsPressed ==
  ASSUME IndicesOutOfReach, PatientCaller PROVE Spec => []MappedAsPressed
<1>1. Ordered => MappedAsPressed
  BY DEF Ordered, Mapped
<1> QED
  BY <1>1, InOrder, PTL
=============================================================================
