------------------------- MODULE MemoryProbeProofs -------------------------
(***************************************************************************)
(* Proofs about MemoryProbe, for every board and any number of layouts:    *)
(* the layout kept does not repeat memory at the addresses detectMirroring *)
(* looks at, and it is the best one of those.                              *)
(***************************************************************************)
EXTENDS MemoryProbe, TLAPS

Selected ==
  /\ pc \in {"probe", "compare", "write", "check"} => reg = config
  /\ pc \in {"start", "post", "done"} => reg = best

\* What has been checked still holds the address written there.
CheckedSoFar ==
  pc = "check" => /\ i \in Nat /\ i % Grid = 0
                  /\ \A a \in GridTo(i) : mem[Decode(a)] = a

KeepsDistinct == most > 0 => Distinct(best, End(most))

Sized == i \in Int /\ found \in Int /\ most \in Int

\* A layout that repeats memory at the addresses checked is never the one kept.
KeptIsDistinct ==
  pc \in {"post", "done"} => reg = best /\ (most > 0 => Distinct(reg, End(most)))

IInv == Selected /\ CheckedSoFar /\ KeepsDistinct /\ Sized

-----------------------------------------------------------------------------
LEMMA GridFrom == GridTo(MB) = {}
  BY DEF GridTo, MB

\* One more address checked is one more element of the grid.
LEMMA GridStep ==
  ASSUME NEW n \in Nat, n % Grid = 0, NEW a \in GridTo(n + Grid)
  PROVE  a \in GridTo(n) \/ a = n
  BY DEF GridTo, Grid, MB

\* Addresses that each hold themselves are different memory.
LEMMA HeldIsDistinct ==
  ASSUME NEW e \in Int, NEW n \in Int, n >= e,
         \A a \in GridTo(n) : mem[Decode(a)] = a
  PROVE  Distinct(reg, e)
  BY DEF GridTo, Distinct, Decode, MB

LEMMA InitIInv == Init => IInv
  BY DEF Init, IInv, Selected, CheckedSoFar, KeepsDistinct, Sized, NoRam

LEMMA NextIInv == IInv /\ [Next]_vars => IInv'
<1> SUFFICES ASSUME IInv, [Next]_vars PROVE IInv'
  OBVIOUS
<1> USE DEF IInv, Selected, CheckedSoFar, KeepsDistinct, Sized, hw, loop, Distinct, End
<1>1. CASE Start
  BY <1>1 DEF Start
<1>2. CASE Select
  BY <1>2 DEF Select, MB
<1>3. CASE Probe
  BY <1>3 DEF Probe, MB
<1>4. CASE Compare
  BY <1>4 DEF Compare
<1>5. CASE MirrorWrite
  BY <1>5, GridFrom DEF MirrorWrite, MB, Grid
<1>6. CASE MirrorCheck
  <2>1. CASE ~(i < MirrorEnd)
    <3>1. Distinct(reg, End(found))
      BY <1>6, <2>1, HeldIsDistinct DEF MirrorCheck, MirrorEnd, MB
    <3>2. Judge(FALSE) /\ UNCHANGED <<hw, mem, found, i>>
      BY <1>6, <2>1 DEF MirrorCheck, Judge
    <3>3. reg = config /\ pc' = "select"
      BY <1>6, <3>2 DEF MirrorCheck, Judge
    <3>4. KeepsDistinct' /\ Sized'
      BY <3>1, <3>2, <3>3 DEF Judge, Better
    <3> QED
      BY <3>3, <3>4
  <2>2. CASE i < MirrorEnd /\ mem[Decode(i)] # i
    BY <1>6, <2>2 DEF MirrorCheck, Judge
  <2>3. CASE i < MirrorEnd /\ mem[Decode(i)] = i
    <3>1. /\ i' = i + Grid /\ pc' = "check" /\ pc = "check"
          /\ UNCHANGED <<hw, reg, loop, mem, found>>
      BY <1>6, <2>3 DEF MirrorCheck
    <3>2. i' \in Nat /\ i' % Grid = 0
      BY <3>1 DEF Grid
    <3>3. \A a \in GridTo(i') : mem[Decode(a)] = a
      BY <2>3, <3>1, GridStep
    <3> QED
      BY <3>1, <3>2, <3>3 DEF Decode, Grid
  <2> QED
    BY <2>1, <2>2, <2>3
<1>7. CASE Settle
  BY <1>7 DEF Settle
<1>8. CASE CheckRam
  BY <1>8 DEF CheckRam, Goto
<1>9. CASE UNCHANGED vars
  BY <1>9 DEF vars, Decode
<1> QED
  BY <1>1, <1>2, <1>3, <1>4, <1>5, <1>6, <1>7, <1>8, <1>9 DEF Next

\* Whatever the board, neither chipset file settles for a layout that repeats
\* memory at the addresses it checks.
THEOREM KeepsUnmirrored == Spec => []KeptIsDistinct
<1>1. IInv => KeptIsDistinct
  BY DEF IInv, Selected, KeepsDistinct, KeptIsDistinct
<1> QED
  BY InitIInv, NextIInv, <1>1, PTL DEF Spec

-----------------------------------------------------------------------------
(***************************************************************************)
(* The layout kept is the best one.                                        *)
(***************************************************************************)
Types ==
  /\ chip \in {"um", "sis"} /\ board \in Boards /\ reg \in Configs /\ best \in Configs
  /\ mem \in [Cells -> Int] /\ i \in Nat /\ found \in Nat /\ most \in Nat
  /\ config \in 0..NumConfigs

\* What a probe that found n blocks in layout c says of the board.
FoundIn(c, n) ==
  /\ MB + n =< Top /\ board[c][MB + n] = NoRam
  /\ \A a \in MB..(MB + n - 1) : board[c][a] # NoRam

\* The layouts below c have been judged: the one kept is the first of those
\* with most memory, or none was usable.
Judged(c) ==
  /\ most = 0 => best = Default(chip)
  /\ most > 0 => best < c /\ Usable(best) /\ FoundIn(best, most)
  /\ \A d \in 0..(c - 1) : Usable(d) =>
       Extended(d) \in 1..most /\ (Extended(d) = most => best =< d)

Sizing == pc \in {"probe", "compare", "write", "check"}
LoopInv ==
  /\ (pc = "select" \/ Sizing) => Judged(config)
  /\ Sizing => config \in Configs /\ reg = config /\ (chip = "um" => board[config][0] # NoRam)
  /\ pc = "probe" => i \in MB..Top /\ \A a \in MB..(i - 1) : board[config][a] # NoRam
  /\ pc = "compare" => i = MB
  /\ pc \in {"compare", "write", "check"} => FoundIn(config, found)

\* If the addresses checked are different memory, each holds what was written
\* there, whatever earlier layouts left behind.
Held(n) == \A a \in GridTo(n) : a < MirrorEnd /\ mem[Decode(a)] = a
WriteInv ==
  /\ pc \in {"write", "check"} => i >= MB /\ (i % Grid) = 0
  /\ (pc = "write" /\ Distinct(reg, MirrorEnd)) => Held(i)
  /\ (pc = "check" /\ Distinct(reg, MirrorEnd)) => Held(MirrorEnd)

\* On the SiS board the second pass goes on only with a layout other than 0.
Settled == (pc = "start" /\ chip = "sis" /\ reg # 0) \/ pc \in {"post", "done"}
SettledInv ==
  /\ Settled => Judged(NumConfigs) /\ reg = best
  /\ pc = "done" /\ most > 0 => memory = FirstHole(0) + most

KeepInv == Types /\ LoopInv /\ WriteInv /\ SettledInv

-----------------------------------------------------------------------------
LEMMA BoardRange ==
  ASSUME Types, NEW c \in Configs, NEW a \in 0..Top
  PROVE  board[c][a] \in Cells \cup {NoRam}
BY BoardAssumption DEF Types

\* The first hole above 1 MB is where memory ends.
LEMMA ExtendedIs ==
  ASSUME NEW c, NEW n \in Nat, FoundIn(c, n) PROVE Extended(c) = n
<1> DEFINE holes == {a \in MB..Top : board[c][a] = NoRam}
<1>1. MB + n \in holes /\ \A x \in holes : MB + n =< x
  BY BoardAssumption DEF FoundIn, MB
<1>2. \A a \in holes : (\A x \in holes : a =< x) => a = MB + n
  BY <1>1, BoardAssumption DEF MB
<1> DEFINE end == CHOOSE a \in holes : \A x \in holes : a =< x
<1>3. end = MB + n
  <2> HIDE DEF holes
  <2> QED
    BY <1>1, <1>2
<1>4. Extended(c) = end - MB
  BY DEF Extended
<1> HIDE DEF end
<1> QED
  BY <1>3, <1>4 DEF MB

LEMMA FirstHoleIs ==
  ASSUME NEW n \in Nat, FoundIn(reg, n) PROVE FirstHole(MB) = MB + n
<1> DEFINE P(a) == Decode(a) = NoRam /\ \A x \in MB..(a - 1) : Decode(x) # NoRam
<1>1. MB + n \in MB..Top /\ P(MB + n)
  BY BoardAssumption DEF FoundIn, Decode, MB
<1>2. \A a \in MB..Top : P(a) => a = MB + n
  BY <1>1, BoardAssumption DEF MB
<1>3. (CHOOSE a \in MB..Top : P(a)) = MB + n
  <2> HIDE DEF P
  <2> QED
    BY <1>1, <1>2
<1> QED
  BY <1>3 DEF FirstHole

\* What was found of the board does not change with the scan.
LEMMA Frames ==
  ASSUME UNCHANGED hw, NEW c, NEW n
  PROVE  /\ FoundIn(c, n)' <=> FoundIn(c, n)
         /\ Usable(c)' <=> Usable(c)
         /\ Extended(c)' = Extended(c)
         /\ Distinct(c, n)' <=> Distinct(c, n)
BY DEF hw, FoundIn, Usable, Extended, Distinct, End

LEMMA JudgedFrame ==
  ASSUME UNCHANGED <<hw, best, most>>, NEW c, Judged(c) PROVE Judged(c)'
<1>1. \A d : (Usable(d)' <=> Usable(d)) /\ Extended(d)' = Extended(d)
  BY Frames
<1>2. PICK b, m : b = best /\ m = most
  OBVIOUS
<1>3. (Usable(b)' <=> Usable(b)) /\ (FoundIn(b, m)' <=> FoundIn(b, m))
  BY Frames
<1>4. best' = b /\ most' = m
  BY <1>2
<1>5. (Usable(b) /\ FoundIn(b, m)) => (Usable(best)' /\ FoundIn(best, most)')
  BY <1>3, <1>4
<1>6. (Usable(best) /\ FoundIn(best, most)) => (Usable(b) /\ FoundIn(b, m))
  BY <1>2
<1> QED
  BY <1>1, <1>5, <1>6 DEF Judged, Default, hw
\* A layout that is not usable, or no larger than the best, is passed over.
LEMMA JudgedWorse ==
  ASSUME Types, config \in Configs, Judged(config),
         Usable(config) => FoundIn(config, found) /\ found =< most
  PROVE  Judged(config + 1)
<1>1. Usable(config) => Extended(config) \in 1..most /\ best < config
  <2> SUFFICES ASSUME Usable(config) PROVE Extended(config) \in 1..most /\ best < config
    OBVIOUS
  <2>1. Extended(config) = found /\ found =< most /\ Extended(config) > 0
    BY ExtendedIs DEF Types, Usable
  <2> QED
    BY <2>1 DEF Judged, Types
<1>2. \A d \in 0..config : d = config \/ d \in 0..(config - 1)
  BY DEF Types
<1>3. (config + 1) - 1 = config /\ config \in Nat /\ best \in Nat
  BY DEF Types, Configs
<1>4. \A d \in 0..config : Usable(d) =>
         Extended(d) \in 1..most /\ (Extended(d) = most => best =< d)
  BY <1>1, <1>2, <1>3 DEF Judged
<1> QED
  BY <1>3, <1>4 DEF Judged

\* A usable layout with more memory than the best becomes the best.
LEMMA JudgedBetter ==
  ASSUME Types, config \in Configs, Judged(config), UNCHANGED hw, config' = config + 1,
         FoundIn(config, found), Usable(config), found > most,
         best' = config, most' = found
  PROVE  Judged(config)'
<1>1. found \in Nat /\ found > 0 /\ config \in Nat /\ (config + 1) - 1 = config /\ most \in Nat
  BY DEF Types, Configs
<1>2. \A d \in 0..config : d = config \/ d \in 0..(config - 1)
  BY <1>1
<1>3. Extended(config) = found
  BY <1>1, ExtendedIs
<1>4. \A d \in 0..config : Usable(d) =>
         Extended(d) \in 1..found /\ (Extended(d) = found => config =< d)
  <2> SUFFICES ASSUME NEW d \in 0..config, Usable(d)
               PROVE  Extended(d) \in 1..found /\ (Extended(d) = found => config =< d)
    OBVIOUS
  <2>1. CASE d = config
    BY <1>1, <1>3, <2>1
  <2>2. CASE d \in 0..(config - 1)
    <3>1. Extended(d) \in 1..most
      BY <2>2 DEF Judged
    <3> QED
      BY <1>1, <3>1
  <2> QED
    BY <1>2, <2>1, <2>2
<1>5. \A d \in 0..config : Usable(d)' =>
         Extended(d)' \in 1..found /\ (Extended(d)' = found => config =< d)
  BY <1>4, Frames
<1>6. PICK c : c = config
  OBVIOUS
<1>7. Usable(c)' /\ FoundIn(c, found)
  BY <1>6, Frames
<1>8. FoundIn(best, most)' /\ Usable(best)'
  BY <1>6, <1>7 DEF FoundIn, hw, Usable, Extended, Distinct, End
<1> QED
  BY <1>1, <1>5, <1>8 DEF Judged

-----------------------------------------------------------------------------
LEMMA InitKeepInv == Init => KeepInv
<1> SUFFICES ASSUME Init PROVE KeepInv
  OBVIOUS
<1>1. Default(chip) \in Configs /\ NumConfigs \in Nat
  BY ConfigAssumption DEF Init, Default, Configs
<1>2. Types
  BY <1>1 DEF Init, Types, NoRam
<1>3. LoopInv /\ WriteInv
  BY DEF Init, LoopInv, WriteInv, Sizing
<1>4. SettledInv
  BY DEF Init, SettledInv, Settled, Default
<1> QED
  BY <1>2, <1>3, <1>4 DEF KeepInv

\* A new pass over the layouts: none is judged yet.
LEMMA StartKeeps == ASSUME KeepInv, IInv, Start PROVE KeepInv'
<1>1. Types /\ SettledInv /\ pc = "start" /\ UNCHANGED <<hw, reg, mem, i, found, memory>>
      /\ reg = best
  BY DEF KeepInv, Start, IInv, Selected
<1>2. CASE chip = "sis" /\ reg # 0
  <2>1. pc' = "post" /\ UNCHANGED loop
    BY <1>2 DEF Start
  <2>2. Types'
    BY <1>1, <2>1 DEF Types, hw, loop
  <2>3. Judged(NumConfigs)
    BY <1>1, <1>2 DEF SettledInv, Settled
  <2>4. Judged(NumConfigs)'
    BY <1>1, <2>1, <2>3, JudgedFrame DEF loop
  <2>5. SettledInv'
    BY <1>1, <2>1, <2>4 DEF SettledInv, loop
  <2>6. LoopInv' /\ WriteInv'
    BY <2>1 DEF LoopInv, WriteInv, Sizing
  <2> QED
    BY <2>2, <2>5, <2>6 DEF KeepInv
<1>3. CASE ~(chip = "sis" /\ reg # 0)
  <2>1. pc' = "select" /\ config' = 0 /\ best' = Default(chip) /\ most' = 0
    BY <1>3 DEF Start
  <2>2. Types'
    <3>1. Default(chip) \in Configs /\ 0 \in 0..NumConfigs
      BY ConfigAssumption DEF Default, Configs
    <3> QED
      BY <1>1, <2>1, <3>1 DEF Types, hw
  <2>3. Judged(config)'
    BY <1>1, <2>1 DEF Judged, Default, hw
  <2>4. LoopInv' /\ WriteInv' /\ SettledInv'
    BY <2>1, <2>3 DEF LoopInv, WriteInv, SettledInv, Settled, Sizing
  <2> QED
    BY <2>2, <2>4 DEF KeepInv
<1> QED
  BY <1>2, <1>3

\* A layout passed over on the UM82C480 is one that is not usable.
LEMMA SelectKeeps == ASSUME KeepInv, Select PROVE KeepInv'
<1>1. /\ Types /\ Judged(config) /\ pc = "select" /\ config \in Configs
      /\ UNCHANGED <<hw, mem, best, most, found, memory>>
  BY DEF KeepInv, LoopInv, Select
<1>2. config + 1 \in 0..NumConfigs /\ MB \in Nat /\ MB \in MB..Top
  BY <1>1, ConfigAssumption, BoardAssumption DEF Configs, MB
<1>3. CASE chip = "um" /\ board[config][0] = NoRam
  <2>1. reg' = best /\ config' = config + 1 /\ pc' = "select" /\ i' = i
    BY <1>1, <1>3 DEF Select
  <2>2. Types'
    BY <1>1, <1>2, <2>1 DEF Types, hw
  <2>3. ~Usable(config)
    BY <1>3 DEF Usable
  <2>4. Judged(config + 1)
    BY <1>1, <2>3, JudgedWorse
  <2>5. PICK c : c = config + 1
    OBVIOUS
  <2>6. Judged(c)'
    BY <1>1, <2>4, <2>5, JudgedFrame
  <2>7. Judged(config)'
    BY <2>1, <2>5, <2>6 DEF Judged
  <2>8. LoopInv' /\ WriteInv' /\ SettledInv'
    BY <2>1, <2>7 DEF LoopInv, WriteInv, SettledInv, Settled, Sizing
  <2> QED
    BY <2>2, <2>8 DEF KeepInv
<1>5. CASE chip = "sis" /\ board[config][0] = NoRam
  <2>1. pc' = "crashed" /\ reg' = config /\ config' = config /\ i' = i
    BY <1>1, <1>5 DEF Select
  <2>2. Types'
    BY <1>1, <2>1 DEF Types, hw
  <2>3. LoopInv' /\ WriteInv' /\ SettledInv'
    BY <2>1 DEF LoopInv, WriteInv, SettledInv, Settled, Sizing
  <2> QED
    BY <2>2, <2>3 DEF KeepInv
<1>4. CASE board[config][0] # NoRam
  <2>1. reg' = config /\ pc' = "probe" /\ i' = MB /\ config' = config
    BY <1>1, <1>4 DEF Select
  <2>2. Types'
    BY <1>1, <1>2, <2>1 DEF Types, hw
  <2>3. PICK c : c = config
    OBVIOUS
  <2>4. Judged(c)'
    BY <1>1, <2>3, JudgedFrame
  <2>5. Judged(config)'
    BY <2>1, <2>3, <2>4 DEF Judged
  <2>6. LoopInv'
    <3>1. \A a \in MB..(MB - 1) : FALSE
      BY DEF MB
    <3> QED
      BY <1>1, <1>2, <1>4, <2>1, <2>5, <3>1 DEF LoopInv, hw
  <2>7. WriteInv' /\ SettledInv'
    BY <2>1 DEF WriteInv, SettledInv, Settled
  <2> QED
    BY <2>2, <2>6, <2>7 DEF KeepInv
<1> QED
  BY <1>1, <1>3, <1>4, <1>5 DEF Types

\* What holds of the layout being sized, and stays.
LEMMA SizingStays ==
  ASSUME Judged(config), UNCHANGED <<hw, best, most, config>> PROVE Judged(config)'
<1>1. PICK c : c = config
  OBVIOUS
<1>2. Judged(c)'
  BY <1>1, JudgedFrame
<1> QED
  BY <1>1, <1>2 DEF Judged

LEMMA ProbeKeeps == ASSUME KeepInv, Probe PROVE KeepInv'
<1>1. /\ Types /\ pc = "probe" /\ Judged(config) /\ config \in Configs /\ reg = config
      /\ chip = "um" => board[config][0] # NoRam
      /\ i \in MB..Top /\ \A a \in MB..(i - 1) : board[config][a] # NoRam
      /\ UNCHANGED <<hw, reg, mem, loop, memory>>
  BY DEF KeepInv, LoopInv, Sizing, Probe
<1>2. Judged(config)'
  BY <1>1, SizingStays DEF loop
<1>3. CASE Decode(i) # NoRam
  <2>1. i' = i + 1 /\ pc' = "probe" /\ found' = found
    BY <1>1, <1>3 DEF Probe
  <2>2. i # Top
    BY <1>1, <1>3, BoardAssumption DEF Decode, Types
  <2>3. i + 1 \in MB..Top /\ i + 1 \in Nat
    BY <1>1, <2>2, BoardAssumption DEF MB
  <2>4. \A a \in MB..((i + 1) - 1) : board[config][a] # NoRam
    <3>1. \A a \in MB..((i + 1) - 1) : a = i \/ a \in MB..(i - 1)
      BY <1>1, BoardAssumption DEF MB
    <3> QED
      BY <1>1, <1>3, <3>1 DEF Decode
  <2>5. Types'
    BY <1>1, <2>1, <2>3 DEF Types, hw, loop
  <2>6. LoopInv' /\ WriteInv' /\ SettledInv'
    BY <1>1, <1>2, <2>1, <2>3, <2>4 DEF LoopInv, WriteInv, SettledInv, Settled, Sizing, hw, loop
  <2> QED
    BY <2>5, <2>6 DEF KeepInv
<1>4. CASE Decode(i) = NoRam
  <2>1. i' = MB /\ pc' = "compare" /\ found' = i - MB
    BY <1>4 DEF Probe
  <2>2. i - MB \in Nat /\ MB \in Nat /\ MB + (i - MB) = i /\ i =< Top
    BY <1>1, BoardAssumption DEF MB
  <2>3. FoundIn(config, i - MB)
    BY <1>1, <1>4, <2>2 DEF FoundIn, Decode
  <2>4. FoundIn(config, found)'
    BY <1>1, <2>1, <2>3 DEF FoundIn, hw, loop
  <2>5. Types'
    BY <1>1, <2>1, <2>2 DEF Types, hw, loop
  <2>6. LoopInv' /\ WriteInv' /\ SettledInv'
    BY <1>1, <1>2, <2>1, <2>4 DEF LoopInv, WriteInv, SettledInv, Settled, Sizing, hw, loop
  <2> QED
    BY <2>5, <2>6 DEF KeepInv
<1> QED
  BY <1>3, <1>4

LEMMA GridStart == GridTo(MB) = {} /\ (MB % Grid) = 0 /\ MB \in Nat
BY DEF GridTo, MB, Grid

LEMMA CompareKeeps == ASSUME KeepInv, Compare PROVE KeepInv'
<1>1. /\ Types /\ pc = "compare" /\ Judged(config) /\ config \in Configs /\ reg = config
      /\ chip = "um" => board[config][0] # NoRam
      /\ i = MB /\ FoundIn(config, found)
      /\ UNCHANGED <<hw, reg, mem, i, found, best, most, memory>>
  BY DEF KeepInv, LoopInv, Sizing, Compare
<1>2. CASE chip = "um" /\ found =< most
  <2>1. pc' = "select" /\ config' = config + 1
    BY <1>2 DEF Compare
  <2>2. config + 1 \in 0..NumConfigs
    BY <1>1, ConfigAssumption DEF Configs
  <2>3. Types'
    BY <1>1, <2>1, <2>2 DEF Types, hw
  <2>4. Judged(config + 1)
    BY <1>1, <1>2, JudgedWorse
  <2>5. PICK c : c = config + 1
    OBVIOUS
  <2>6. Judged(c)'
    BY <1>1, <2>4, <2>5, JudgedFrame
  <2>7. Judged(config)'
    BY <2>1, <2>5, <2>6 DEF Judged
  <2>8. LoopInv' /\ WriteInv' /\ SettledInv'
    BY <2>1, <2>7 DEF LoopInv, WriteInv, SettledInv, Settled, Sizing
  <2> QED
    BY <2>3, <2>8 DEF KeepInv
<1>3. CASE ~(chip = "um" /\ found =< most)
  <2>1. pc' = "write" /\ config' = config
    BY <1>3 DEF Compare
  <2>2. Types'
    BY <1>1, <2>1 DEF Types, hw
  <2>3. Judged(config)'
    BY <1>1, <2>1, SizingStays
  <2>4. FoundIn(config, found)'
    BY <1>1, <2>1 DEF FoundIn, hw
  <2>5. LoopInv'
    BY <1>1, <2>1, <2>3, <2>4 DEF LoopInv, Sizing, hw
  <2>6. WriteInv'
    BY <1>1, <2>1, GridStart DEF WriteInv, Held, GridTo, MB, Grid
  <2>7. SettledInv'
    BY <2>1 DEF SettledInv, Settled
  <2> QED
    BY <2>2, <2>5, <2>6, <2>7 DEF KeepInv
<1> QED
  BY <1>2, <1>3

\* A cell written for one address is another's only if the two are the same
\* memory.
LEMMA WriteKeeps == ASSUME KeepInv, MirrorWrite PROVE KeepInv'
<1>1. /\ Types /\ pc = "write" /\ Judged(config) /\ config \in Configs /\ reg = config
      /\ chip = "um" => board[config][0] # NoRam
      /\ FoundIn(config, found) /\ i >= MB /\ (i % Grid) = 0 /\ i \in Nat /\ found \in Nat
      /\ Distinct(reg, MirrorEnd) => Held(i)
      /\ UNCHANGED <<hw, reg, loop, found, memory>>
  BY DEF KeepInv, Types, LoopInv, WriteInv, Sizing, MirrorWrite
<1>2. Judged(config)'
  BY <1>1, SizingStays DEF loop
<1>3. FoundIn(config, found)'
  BY <1>1 DEF FoundIn, hw, loop
<1>4. MirrorEnd \in Nat /\ MirrorEnd =< MB + found /\ MirrorEnd' = MirrorEnd
  BY <1>1 DEF MirrorEnd, End, MB, hw
<1>5. pc' \in {"write", "check"} => LoopInv' /\ SettledInv'
  BY <1>1, <1>2, <1>3 DEF LoopInv, SettledInv, Settled, Sizing, hw, loop
<1>6. Distinct(reg, MirrorEnd)' <=> Distinct(reg, MirrorEnd)
  BY <1>1, <1>4 DEF Distinct, hw
<1>7. CASE i < MirrorEnd
  <2>1. i' = i + Grid /\ pc' = "write" /\ mem' = [mem EXCEPT ![Decode(i)] = i]
    BY <1>1, <1>7 DEF MirrorWrite
  <2>2. i + Grid \in Nat /\ i + Grid >= MB /\ ((i + Grid) % Grid) = 0
    BY <1>1 DEF Grid, MB
  <2>3. Decode(i) \in Cells
    <3>1. i \in MB..(MB + found - 1) /\ i \in 0..Top
      BY <1>1, <1>4, <1>7, BoardAssumption DEF FoundIn, MB
    <3>2. board[reg][i] \in Cells \cup {NoRam} /\ board[reg][i] # NoRam
      BY <1>1, <3>1, BoardRange DEF FoundIn
    <3> QED
      BY <3>2 DEF Decode
  <2>4. mem \in [Cells -> Int] /\ mem' \in [Cells -> Int]
    <3>1. mem \in [Cells -> Int] /\ i \in Int
      BY <1>1 DEF Types
    <3> QED
      BY <2>1, <3>1
  <2>5. Types'
    BY <1>1, <2>1, <2>2, <2>4 DEF Types, hw, loop
  <2>6. ASSUME Distinct(reg, MirrorEnd) PROVE Held(i)'
    <3>1. \A a \in GridTo(i) : a < MirrorEnd /\ mem[Decode(a)] = a
      BY <1>1, <2>6 DEF Held
    <3>2. \A a : Decode(a)' = Decode(a)
      BY <1>1 DEF Decode, hw
    <3>3. ASSUME NEW a \in GridTo(i + Grid)
          PROVE  a < MirrorEnd /\ mem'[Decode(a)] = a
      <4>1. CASE a = i
        BY <1>7, <2>1, <2>3, <2>4, <4>1
      <4>2. CASE a # i
        <5>1. a \in GridTo(i)
          BY <1>1, <3>3, <4>2, GridStep
        <5>2. a \in GridTo(MirrorEnd) /\ i \in GridTo(MirrorEnd)
          BY <1>1, <1>4, <1>7, <3>1, <5>1 DEF GridTo
        <5>3. Decode(a) # Decode(i)
          BY <2>6, <4>2, <5>2 DEF Distinct, Decode
        <5> QED
          BY <2>1, <2>4, <3>1, <5>1, <5>3
      <4> QED
        BY <4>1, <4>2
    <3> QED
      BY <1>4, <2>1, <3>2, <3>3 DEF Held
  <2>7. WriteInv'
    BY <1>1, <1>6, <2>1, <2>2, <2>6 DEF WriteInv
  <2> QED
    BY <1>5, <2>1, <2>5, <2>7 DEF KeepInv
<1>8. CASE ~(i < MirrorEnd)
  <2>1. i' = MB /\ pc' = "check" /\ mem' = mem
    BY <1>8 DEF MirrorWrite
  <2>2. Types'
    BY <1>1, <2>1, GridStart DEF Types, hw, loop
  <2>3. ASSUME Distinct(reg, MirrorEnd) PROVE Held(MirrorEnd)'
    <3>1. GridTo(MirrorEnd) \subseteq GridTo(i)
      BY <1>1, <1>4, <1>8 DEF GridTo, MB
    <3>2. \A a \in GridTo(MirrorEnd) : a < MirrorEnd /\ mem[Decode(a)] = a
      BY <1>1, <2>3, <3>1 DEF Held
    <3> QED
      BY <1>1, <1>4, <2>1, <3>2 DEF Held, Decode, hw
  <2>4. WriteInv'
    BY <1>6, <2>1, <2>3, GridStart DEF WriteInv, MB
  <2> QED
    BY <1>5, <2>1, <2>2, <2>4 DEF KeepInv
<1> QED
  BY <1>7, <1>8

\* The verdict is right: an address that does not hold itself shares its memory
\* with another, and a layout where all do is usable if it holds anything.
LEMMA CheckKeeps == ASSUME KeepInv, IInv, MirrorCheck PROVE KeepInv'
<1>1. /\ Types /\ pc = "check" /\ Judged(config) /\ config \in Configs /\ reg = config
      /\ chip = "um" => board[config][0] # NoRam
      /\ FoundIn(config, found) /\ i >= MB /\ (i % Grid) = 0 /\ i \in Nat /\ found \in Nat
      /\ Distinct(reg, MirrorEnd) => Held(MirrorEnd)
      /\ UNCHANGED <<hw, mem, found, memory>>
  BY DEF KeepInv, Types, LoopInv, WriteInv, Sizing, MirrorCheck
<1>2. \A a \in GridTo(i) : mem[Decode(a)] = a
  BY <1>1 DEF IInv, CheckedSoFar
<1>3. MirrorEnd \in Nat /\ MirrorEnd = End(found)
  BY <1>1 DEF MirrorEnd, End, MB
<1>4. Extended(config) = found
  BY <1>1, ExtendedIs
<1>5. CASE i < MirrorEnd /\ mem[Decode(i)] = i
  <2>1. i' = i + Grid /\ pc' = "check" /\ UNCHANGED <<reg, loop>>
    BY <1>1, <1>5 DEF MirrorCheck
  <2>2. i + Grid \in Nat /\ i + Grid >= MB /\ ((i + Grid) % Grid) = 0
    BY <1>1 DEF Grid, MB
  <2>3. Types'
    BY <1>1, <2>1, <2>2 DEF Types, hw, loop
  <2>4. Judged(config)'
    BY <1>1, <2>1, SizingStays DEF loop
  <2>5. FoundIn(config, found)'
    BY <1>1, <2>1 DEF FoundIn, hw, loop
  <2>6. LoopInv' /\ SettledInv'
    BY <1>1, <2>1, <2>4, <2>5 DEF LoopInv, SettledInv, Settled, Sizing, hw, loop
  <2>7. WriteInv'
    <3>1. MirrorEnd' = MirrorEnd /\ (Distinct(reg, MirrorEnd)' <=> Distinct(reg, MirrorEnd))
      BY <1>1, <2>1 DEF MirrorEnd, End, Distinct, hw
    <3>2. Held(MirrorEnd)' <=> Held(MirrorEnd)
      BY <1>1, <2>1, <3>1 DEF Held, Decode, hw
    <3> QED
      BY <1>1, <2>1, <2>2, <3>1, <3>2 DEF WriteInv
  <2> QED
    BY <2>3, <2>6, <2>7 DEF KeepInv
<1>6. CASE ~(i < MirrorEnd /\ mem[Decode(i)] = i)
  <2>1. Judge(i < MirrorEnd) /\ i' = i
    BY <1>6 DEF MirrorCheck
  <2>2. pc' = "select" /\ config' = config + 1 /\ config + 1 \in 0..NumConfigs
    BY <1>1, <2>1, ConfigAssumption DEF Judge, Configs
  <2>3. reg' \in Configs
    BY <1>1, <2>1, ConfigAssumption DEF Judge, Configs
  <2>4. /\ (~(i < MirrorEnd) /\ found > most) => best' = config /\ most' = found
        /\ ~(~(i < MirrorEnd) /\ found > most) => best' = best /\ most' = most
    BY <2>1 DEF Judge, Better
  <2>5. Types'
    BY <1>1, <2>1, <2>2, <2>3, <2>4 DEF Types, hw
  <2>6. i < MirrorEnd => ~Usable(config)
    <3> SUFFICES ASSUME i < MirrorEnd PROVE ~Distinct(config, End(Extended(config)))
      BY DEF Usable
    <3>1. i \in GridTo(MirrorEnd)
      BY <1>1, <1>3 DEF GridTo, MB
    <3>2. mem[Decode(i)] # i
      BY <1>6
    <3> QED
      BY <1>1, <1>3, <1>4, <3>1, <3>2 DEF Held
  <2>7. ASSUME ~(i < MirrorEnd), found > 0 PROVE Usable(config)
    <3>1. Distinct(reg, MirrorEnd)
      BY <1>1, <1>2, <1>3, <2>7, HeldIsDistinct
    <3> QED
      BY <1>1, <1>3, <1>4, <2>7, <3>1 DEF Usable
  <2>8. Judged(config)'
    <3>1. CASE ~(i < MirrorEnd) /\ found > most
      <4>1. found > 0
        BY <1>1, <3>1 DEF Types
      <4> QED
        BY <1>1, <2>2, <2>4, <2>7, <3>1, <4>1, JudgedBetter
    <3>2. CASE ~(~(i < MirrorEnd) /\ found > most)
      <4>1. Usable(config) => found =< most
        BY <1>1, <2>6, <3>2 DEF Types
      <4>2. Judged(config + 1)
        BY <1>1, <4>1, JudgedWorse
      <4>3. PICK c : c = config + 1
        OBVIOUS
      <4>4. Judged(c)'
        BY <1>1, <2>4, <3>2, <4>2, <4>3, JudgedFrame
      <4> QED
        BY <2>2, <4>3, <4>4 DEF Judged
    <3> QED
      BY <3>1, <3>2
  <2>9. LoopInv' /\ WriteInv' /\ SettledInv'
    BY <2>2, <2>8 DEF LoopInv, WriteInv, SettledInv, Settled, Sizing
  <2> QED
    BY <2>5, <2>9 DEF KeepInv
<1> QED
  BY <1>5, <1>6

LEMMA SettleKeeps == ASSUME KeepInv, Settle PROVE KeepInv'
<1>1. /\ Types /\ pc = "select" /\ Judged(config) /\ config \notin Configs
      /\ reg' = best /\ pc' = IF chip = "sis" THEN "start" ELSE "post"
      /\ UNCHANGED <<hw, mem, loop, i, found, memory>>
  BY DEF KeepInv, LoopInv, Settle
<1>2. config = NumConfigs
  BY <1>1, ConfigAssumption DEF Types, Configs
<1>3. Types'
  BY <1>1 DEF Types, hw, loop
<1>4. Judged(NumConfigs)'
  BY <1>1, <1>2, JudgedFrame DEF loop
<1>5. SettledInv'
  BY <1>1, <1>4 DEF SettledInv, loop
<1>6. LoopInv' /\ WriteInv'
  BY <1>1 DEF LoopInv, WriteInv, Sizing
<1> QED
  BY <1>3, <1>5, <1>6 DEF KeepInv

LEMMA CheckRamKeeps == ASSUME KeepInv, CheckRam PROVE KeepInv'
<1>1. /\ Types /\ pc = "post" /\ pc' = "done" /\ Judged(NumConfigs) /\ reg = best
      /\ memory' = FirstHole(0) + (FirstHole(MB) - MB)
      /\ UNCHANGED <<hw, reg, mem, loop, i, found>>
  BY DEF KeepInv, SettledInv, Settled, CheckRam, Goto
<1>2. Types'
  BY <1>1 DEF Types, hw, loop
<1>3. Judged(NumConfigs)'
  BY <1>1, JudgedFrame DEF loop
<1>4. most > 0 => FirstHole(MB) - MB = most
  <2> SUFFICES ASSUME most > 0 PROVE FirstHole(MB) - MB = most
    OBVIOUS
  <2>1. most \in Nat /\ FoundIn(reg, most)
    BY <1>1 DEF Types, Judged
  <2>2. FirstHole(MB) = MB + most
    BY <2>1, FirstHoleIs
  <2> QED
    BY <2>1, <2>2 DEF MB
<1>5. most > 0 => memory' = FirstHole(0) + most
  BY <1>1, <1>4
<1>6. FirstHole(0)' = FirstHole(0)
  BY <1>1 DEF FirstHole, Decode, hw
<1>7. SettledInv'
  BY <1>1, <1>3, <1>5, <1>6 DEF SettledInv, loop
<1>8. LoopInv' /\ WriteInv'
  BY <1>1 DEF LoopInv, WriteInv, Sizing
<1> QED
  BY <1>2, <1>7, <1>8 DEF KeepInv

LEMMA NextKeepInv == IInv /\ KeepInv /\ [Next]_vars => KeepInv'
<1> SUFFICES ASSUME IInv, KeepInv, [Next]_vars PROVE KeepInv'
  OBVIOUS
<1>1. CASE UNCHANGED vars
  <2>1. Types' /\ UNCHANGED <<hw, reg, mem, pc, config, best, most, i, found, memory>>
    BY <1>1 DEF KeepInv, Types, vars, hw, loop
  <2>2. LoopInv'
    <3>1. (pc = "select" \/ Sizing) => Judged(config)'
      BY <2>1, SizingStays DEF KeepInv, LoopInv
    <3>2. FoundIn(config, found)' <=> FoundIn(config, found)
      BY <2>1 DEF FoundIn, hw
    <3> QED
      BY <2>1, <3>1, <3>2 DEF KeepInv, LoopInv, Sizing, hw
  <2>3. WriteInv'
    BY <2>1 DEF KeepInv, WriteInv, Held, Distinct, Decode, MirrorEnd, End, hw
  <2>4. SettledInv'
    <3>1. Settled => Judged(NumConfigs)'
      BY <2>1, JudgedFrame DEF KeepInv, SettledInv
    <3>2. FirstHole(0)' = FirstHole(0)
      BY <2>1 DEF FirstHole, Decode, hw
    <3> QED
      BY <2>1, <3>1, <3>2 DEF KeepInv, SettledInv, Settled, hw
  <2> QED
    BY <2>1, <2>2, <2>3, <2>4 DEF KeepInv
<1> QED
  BY <1>1, StartKeeps, SelectKeeps, ProbeKeeps, CompareKeeps, WriteKeeps, CheckKeeps,
     SettleKeeps, CheckRamKeeps DEF Next

\* On every board, whatever its layouts make of memory, the machine ends up on
\* the first of the layouts with most usable memory and POST reports that
\* memory; what one layout leaves in the cells never decides about another.
THEOREM KeepsBest == Spec => []KeptIsBest
<1>1. Init => IInv /\ KeepInv
  BY InitIInv, InitKeepInv
<1>2. IInv /\ KeepInv /\ [Next]_vars => IInv' /\ KeepInv'
  BY NextIInv, NextKeepInv
<1>3. KeepInv => KeptIsBest
  <2> SUFFICES ASSUME KeepInv, pc = "done"
               PROVE  IF \E c \in Configs : Usable(c)
                      THEN Best(reg) /\ memory = FirstHole(0) + Extended(reg)
                      ELSE reg = Default(chip)
    BY DEF KeptIsBest
  <2>1. Judged(NumConfigs) /\ reg = best /\ (most > 0 => memory = FirstHole(0) + most)
        /\ most \in Nat
    BY DEF KeepInv, SettledInv, Settled, Types
  <2>2. \A d \in Configs : Usable(d) => Extended(d) \in 1..most /\ (Extended(d) = most => best =< d)
    BY <2>1 DEF Judged, Configs
  <2>3. CASE most > 0
    <3>1. Usable(reg) /\ Extended(reg) = most
      BY <2>1, <2>3, ExtendedIs DEF Judged
    <3>2. Best(reg)
      BY <2>1, <2>2, <3>1 DEF Best
    <3>3. reg \in Configs
      BY DEF KeepInv, Types
    <3> QED
      BY <2>1, <2>3, <3>1, <3>2, <3>3
  <2>4. CASE most = 0
    <3>1. reg = Default(chip)
      BY <2>1, <2>4 DEF Judged
    <3>2. ~ \E c \in Configs : Usable(c)
      BY <2>2, <2>4
    <3> QED
      BY <3>1, <3>2
  <2> QED
    BY <2>1, <2>3, <2>4
<1> QED
  BY <1>1, <1>2, <1>3, PTL DEF Spec
=============================================================================
