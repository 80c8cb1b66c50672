--------------------------- MODULE AtaDiskProofs ----------------------------
(***************************************************************************)
(* Proofs about AtaDisk, for every population of the two channels, every   *)
(* geometry and every request: the table the scan leaves lists drives that *)
(* are there, a request moves the sectors that were asked for, of the      *)
(* drive that was meant, and no two addresses stand for one sector.        *)
(***************************************************************************)
EXTENDS AtaDisk, SequenceTheorems, TLAPS

Entry == Drives \cup {NoDrive}
Command == [state : {"idle", "bsy", "drq", "err"}, at : Int, left : Nat, drive : Entry,
            out : BOOLEAN]
Request == [kind : {"none", "mbr", "read", "write"}, ch : Channels, lba : Int, count : Nat,
            chs : Chs \cup {<<>>}, taken : BOOLEAN]
Moved == (Entry \X Int) \cup {Garbage}

(***************************************************************************)
(* The inductive invariant.                                                *)
(***************************************************************************)
Types ==
  /\ present \subseteq Drives
  /\ hwSel \in [Channels -> BOOLEAN] /\ cached \in [Channels -> BOOLEAN]
  /\ dev \in [Channels -> Command]
  /\ table \in [0..3 -> Entry] /\ found \in 0..4 /\ booted \in Entry
  /\ pc \in {"scan", "boot", "guest", "off"} /\ step \in 0..5
  /\ req \in Request /\ buf \in Seq(Moved) /\ failed \in BOOLEAN

\* The cache of a channel says "master" until its slave is asked.
ScanInv ==
  pc = "scan" =>
    /\ step \in 1..5 /\ found =< step - 1 /\ booted = NoDrive
    /\ step =< 2 => ~cached[0]
    /\ step =< 4 => ~cached[1]

\* The entries filled so far, until boot_from_hd swaps one to the front.
TableInv ==
  booted = NoDrive =>
    \A i \in 0..3 :
      /\ table[i] # NoDrive <=> i < found
      /\ i < found => /\ table[i] \in present
                      /\ pc = "scan" => \E k \in 1..step - 1 : table[i] = Scan[k]
      /\ \A j \in 0..3 : i < j /\ j < found => table[i] # table[j]

\* Nothing selects a drive behind the back of a running boot sector.
CallerInv ==
  /\ pc = "boot" => step \in 0..4
  /\ pc = "guest" => /\ step \in 0..3 /\ booted \in Drives /\ table[0] = booted
                     /\ cached[booted[1]] = booted[2]
  /\ req.kind = "none" => req = NoReq
  /\ req.kind = "mbr" => /\ pc = "boot" /\ step \in 0..3 /\ table[step] \in Drives
                         /\ req.chs = <<>> /\ cached[table[step][1]] = table[step][2]
  /\ req.kind \in {"read", "write"} =>
       /\ pc = "guest" /\ req.chs \in Chs
       /\ req.lba = Address(booted, req.chs[1], req.chs[2], req.chs[3])

\* A command that was taken is the one being executed, as far as buf says.
Want == IF req.kind = "mbr" THEN table[step] ELSE booted
Taken == req.kind # "none" /\ req.taken /\ ~failed /\ HeadFits
TransferInv ==
  Taken =>
    /\ \A i \in 1..Len(buf) : buf[i] = <<Want, req.lba + i - 1>>
    /\ Len(buf) < req.count =>
         /\ dev[req.ch].state \in {"bsy", "drq"} /\ dev[req.ch].drive = Want
         /\ dev[req.ch].at = req.lba + Len(buf) /\ dev[req.ch].left = req.count - Len(buf)
         /\ dev[req.ch].out <=> req.kind = "write"

IInv == Types /\ ScanInv /\ TableInv /\ CallerInv /\ TransferInv

-----------------------------------------------------------------------------
(***************************************************************************)
(* The model's operators.                                                  *)
(***************************************************************************)
LEMMA NoDriveIsNone == NoDrive \notin Drives
BY DEF NoDrive, Drives, Channels

LEMMA DriveParts ==
  ASSUME NEW d \in Drives
  PROVE  d[1] \in Channels /\ d[2] \in BOOLEAN /\ d = <<d[1], d[2]>>
BY DEF Drives, Channels

LEMMA DriveOf == \A c \in Channels, b \in BOOLEAN : <<c, b>> \in Drives
BY DEF Drives

LEMMA ScanLiteral ==
  /\ Scan[1] = <<0, FALSE>> /\ Scan[2] = <<0, TRUE>>
  /\ Scan[3] = <<1, FALSE>> /\ Scan[4] = <<1, TRUE>>
BY DEF Scan

LEMMA ScanRange == DOMAIN Scan = 1..4 /\ Len(Scan) = 4
BY DEF Scan

LEMMA ScanDrives == \A k \in 1..4 : Scan[k] \in Drives
<1>1. /\ <<0, FALSE>> \in Drives /\ <<0, TRUE>> \in Drives
      /\ <<1, FALSE>> \in Drives /\ <<1, TRUE>> \in Drives
  BY DEF Drives, Channels
<1>2. Scan[1] \in Drives /\ Scan[2] \in Drives /\ Scan[3] \in Drives /\ Scan[4] \in Drives
  BY <1>1, ScanLiteral
<1> QED
  BY <1>2

\* No drive is scanned twice.
LEMMA ScanOnce == \A j, k \in 1..4 : j # k => Scan[j] # Scan[k]
<1> SUFFICES ASSUME NEW j \in 1..4, NEW k \in 1..4, j # k
             PROVE  Scan[j] # Scan[k]
  OBVIOUS
<1>1. <<0, FALSE>> # <<0, TRUE>> /\ <<0, FALSE>> # <<1, FALSE>> /\ <<0, FALSE>> # <<1, TRUE>>
  OBVIOUS
<1>2. <<0, TRUE>> # <<1, FALSE>> /\ <<0, TRUE>> # <<1, TRUE>> /\ <<1, FALSE>> # <<1, TRUE>>
  OBVIOUS
<1>3. Scan[1] # Scan[2] /\ Scan[1] # Scan[3] /\ Scan[1] # Scan[4]
  BY <1>1, ScanLiteral
<1>4. Scan[2] # Scan[3] /\ Scan[2] # Scan[4] /\ Scan[3] # Scan[4]
  BY <1>2, ScanLiteral
<1> QED
  BY <1>3, <1>4

LEMMA NoAddress == <<>> \notin Chs
BY DEF Chs

LEMMA AddressParts ==
  ASSUME NEW a \in Chs
  PROVE  /\ a = <<a[1], a[2], a[3]>>
         /\ a[1] \in 0..Cylinders - 1 /\ a[2] \in 0..Heads /\ a[3] \in 1..Spt
BY DEF Chs

\* Quotient and remainder determine each other.
LEMMA DigitsUnique ==
  ASSUME NEW n \in Nat \ {0}, NEW a \in Int, NEW b \in 0..n - 1,
         NEW c \in Int, NEW d \in 0..n - 1, a * n + b = c * n + d
  PROVE  a = c /\ b = d
OBVIOUS

LEMMA TimesNat == ASSUME NEW m \in Nat, NEW n \in Nat PROVE m * n \in Nat
OBVIOUS

LEMMA ModBelow == ASSUME NEW n \in Nat \ {0}, NEW h \in Nat PROVE (h % n) \in 0..n - 1
OBVIOUS

LEMMA ModSmall == ASSUME NEW n \in Nat \ {0}, NEW h \in 0..n - 1 PROVE (h % n) = h
OBVIOUS

\* Three-part addresses with heads numbered below H.
LEMMA Injective ==
  ASSUME NEW H \in Nat \ {0}, NEW c \in Nat, NEW h \in 0..H - 1, NEW s \in 1..Spt,
         NEW d \in Nat, NEW g \in 0..H - 1, NEW t \in 1..Spt,
         (c * H + h) * Spt + s - 1 = (d * H + g) * Spt + t - 1
  PROVE  c = d /\ h = g /\ s = t
<1>1. Spt \in Nat \ {0}
  BY GeometryAssumption
<1>2. c * H \in Nat /\ d * H \in Nat
  BY TimesNat
<1>3. PICK x \in Nat : x = c * H + h
  BY <1>2
<1>4. PICK y \in Nat : y = d * H + g
  BY <1>2
<1>5. x * Spt \in Nat /\ y * Spt \in Nat
  BY <1>1, TimesNat
<1>6. x * Spt + s - 1 = y * Spt + t - 1
  BY <1>3, <1>4
<1>7. x * Spt + (s - 1) = y * Spt + (t - 1)
  BY <1>1, <1>5, <1>6
<1>8. x = y /\ s - 1 = t - 1
  BY <1>1, <1>7, DigitsUnique
<1>9. c = d /\ h = g
  BY <1>3, <1>4, <1>8, DigitsUnique
<1> QED
  BY <1>1, <1>8, <1>9

LEMMA LbaIsNat ==
  ASSUME NEW H \in Nat, NEW c \in Nat, NEW h \in Nat, NEW s \in 1..Spt
  PROVE  (c * H + h) * Spt + s - 1 \in Nat
<1>1. Spt \in Nat
  BY GeometryAssumption
<1>2. PICK x \in Nat : x = c * H + h
  BY TimesNat
<1>3. x * Spt \in Nat
  BY <1>1, TimesNat
<1> QED
  BY <1>1, <1>2, <1>3

LEMMA AddressIsInt ==
  ASSUME NEW d, NEW a \in Chs PROVE Address(d, a[1], a[2], a[3]) \in Int
<1>1. a[1] \in Nat /\ a[2] \in Nat /\ a[3] \in 1..Spt
  BY AddressParts, AddressAssumption, GeometryAssumption
<1>2. (a[2] % HeadField) \in Nat
  BY <1>1, GeometryAssumption
<1>3. Heads \in Nat /\ Heads + 1 \in Nat
  BY GeometryAssumption
<1>4. Lba(a[1], a[2], a[3]) \in Int
  BY <1>1, <1>3, LbaIsNat DEF Lba
<1>5. Native(a[1], (a[2] % HeadField), a[3]) \in Int
  BY <1>1, <1>2, <1>3, LbaIsNat DEF Native
<1> QED
  BY <1>4, <1>5 DEF Address, NoSector

\* Among the addresses AH=8 reports, with a head number that fits its field
\* on a drive that is given the three numbers, no two are one sector.
LEMMA AddressInjective ==
  ASSUME NEW d, NEW a \in Chs, NEW b \in Chs,
         d \in ChsDrives => a[2] < HeadField /\ b[2] < HeadField,
         Address(d, a[1], a[2], a[3]) = Address(d, b[1], b[2], b[3]),
         Address(d, a[1], a[2], a[3]) # NoSector
  PROVE  a = b
<1>1. /\ a = <<a[1], a[2], a[3]>> /\ b = <<b[1], b[2], b[3]>>
      /\ a[1] \in Nat /\ a[2] \in 0..Heads /\ a[3] \in 1..Spt
      /\ b[1] \in Nat /\ b[2] \in 0..Heads /\ b[3] \in 1..Spt
  BY AddressParts, AddressAssumption
<1>2. SUFFICES a[1] = b[1] /\ a[2] = b[2] /\ a[3] = b[3]
  BY <1>1
<1>3. CASE d \notin ChsDrives
  <2>1. Heads + 1 \in Nat \ {0} /\ 0..Heads = 0..(Heads + 1) - 1
    BY GeometryAssumption
  <2>2. Lba(a[1], a[2], a[3]) = Lba(b[1], b[2], b[3])
    BY <1>3 DEF Address
  <2>3. (a[1] * (Heads + 1) + a[2]) * Spt + a[3] - 1
          = (b[1] * (Heads + 1) + b[2]) * Spt + b[3] - 1
    BY <2>2 DEF Lba
  <2>4. PICK H \in Nat \ {0} : H = Heads + 1
    BY <2>1
  <2>5. a[2] \in 0..H - 1 /\ b[2] \in 0..H - 1
    BY <1>1, <2>1, <2>4
  <2> QED
    BY <1>1, <2>3, <2>4, <2>5, Injective
<1>4. CASE d \in ChsDrives
  <2>1. HeadField \in Nat \ {0} /\ Heads \in Nat
    BY GeometryAssumption
  <2>2. (a[2] % HeadField) = a[2] /\ (b[2] % HeadField) = b[2]
    <3>1. a[2] \in 0..HeadField - 1 /\ b[2] \in 0..HeadField - 1
      BY <1>1, <1>4, <2>1
    <3> QED
      BY <2>1, <3>1, ModSmall
  <2>3. /\ Address(d, a[1], a[2], a[3])
             = IF a[2] < Heads THEN Native(a[1], a[2], a[3]) ELSE NoSector
        /\ Address(d, b[1], b[2], b[3])
             = IF b[2] < Heads THEN Native(b[1], b[2], b[3]) ELSE NoSector
    BY <1>4, <2>2 DEF Address
  <2>4. a[2] < Heads /\ b[2] < Heads
    BY <2>3
  <2>5. Native(a[1], a[2], a[3]) = Native(b[1], b[2], b[3])
    BY <2>3, <2>4
  <2>6. (a[1] * Heads + a[2]) * Spt + a[3] - 1 = (b[1] * Heads + b[2]) * Spt + b[3] - 1
    BY <2>5 DEF Native
  <2>7. Heads \in Nat \ {0} /\ a[2] \in 0..Heads - 1 /\ b[2] \in 0..Heads - 1
    BY <1>1, <2>1, <2>4
  <2> QED
    BY <1>1, <2>6, <2>7, Injective
<1> QED
  BY <1>3, <1>4

\* Issuing a command: the request that is served, and what the drive does if
\* it takes it.
Started(c, drv, r) ==
  /\ req' \in Request /\ buf' = <<>> /\ failed' = FALSE
  /\ req'.kind = r.kind /\ req'.ch = r.ch /\ req'.lba = r.lba
  /\ req'.count = r.count /\ req'.chs = r.chs
  /\ hwSel' \in [Channels -> BOOLEAN] /\ dev' \in [Channels -> Command]
  /\ req'.taken =>
       /\ dev'[c].state = "bsy" /\ dev'[c].at = r.lba /\ dev'[c].drive = <<c, drv>>
       /\ r.count # 0 => dev'[c].left = r.count
       /\ dev'[c].out <=> r.kind = "write"

LEMMA StartFacts ==
  ASSUME Types, NEW c \in Channels, NEW drv \in BOOLEAN, NEW r \in Request, Start(c, drv, r)
  PROVE  Started(c, drv, r)
<1> DEFINE left == IF r.count = 0 THEN ZeroCount ELSE r.count
           cmd == [state |-> "bsy", at |-> r.lba, left |-> left, drive |-> <<c, drv>>,
                   out |-> (r.kind = "write")]
<1>1. PICK t \in BOOLEAN : req' = [r EXCEPT !.taken = t]
  BY DEF Start, Accepts
<1>2. /\ req' \in Request
      /\ req'.kind = r.kind /\ req'.ch = r.ch /\ req'.lba = r.lba
      /\ req'.count = r.count /\ req'.chs = r.chs
  BY <1>1 DEF Request
<1>3. cmd \in Command
  <2>1. left \in Nat /\ r.lba \in Int
    BY CountAssumption DEF Request
  <2>2. <<c, drv>> \in Entry
    BY DriveOf DEF Entry
  <2> QED
    BY <2>1, <2>2 DEF Command
<1>4. dev' = IF req'.taken THEN [dev EXCEPT ![c] = cmd] ELSE dev
  BY DEF Start
<1>5. dev \in [Channels -> Command] /\ hwSel \in [Channels -> BOOLEAN]
  BY DEF Types
<1>6. hwSel' \in [Channels -> BOOLEAN]
  BY <1>5 DEF Start
<1>7. dev' \in [Channels -> Command]
  BY <1>3, <1>4, <1>5
<1>8. req'.taken => dev'[c] = cmd
  BY <1>4, <1>5
<1>9. /\ cmd.state = "bsy" /\ cmd.at = r.lba /\ cmd.drive = <<c, drv>>
      /\ r.count # 0 => cmd.left = r.count
      /\ cmd.out <=> r.kind = "write"
  OBVIOUS
<1>10. buf' = <<>> /\ failed' = FALSE
  BY DEF Start
<1> QED
  BY <1>2, <1>6, <1>7, <1>8, <1>9, <1>10 DEF Started

LEMMA IdleIsCommand == Idle \in Command
BY DEF Idle, Command, Entry

LEMMA NoReqIsRequest == NoReq \in Request /\ NoReq.kind = "none"
BY DEF NoReq, Request, Channels

-----------------------------------------------------------------------------
(***************************************************************************)
(* Every step keeps the inductive invariant.                               *)
(***************************************************************************)
LEMMA InitIInv == Init => IInv
<1> SUFFICES ASSUME Init PROVE IInv
  OBVIOUS
<1>1. Types
  <2>1. present \subseteq Drives /\ hwSel \in [Channels -> BOOLEAN]
        /\ cached \in [Channels -> BOOLEAN]
    BY DriveAssumption DEF Init
  <2>2. dev \in [Channels -> Command]
    BY IdleIsCommand DEF Init
  <2>3. table \in [0..3 -> Entry] /\ found \in 0..4 /\ booted \in Entry
    BY DEF Init, Entry
  <2>4. pc \in {"scan", "boot", "guest", "off"} /\ step \in 0..5
    BY DEF Init
  <2>5. req \in Request /\ buf \in Seq(Moved) /\ failed \in BOOLEAN
    <3>1. <<>> \in Seq(Moved)
      OBVIOUS
    <3> QED
      BY <3>1, NoReqIsRequest DEF Init
  <2> QED
    BY <2>1, <2>2, <2>3, <2>4, <2>5 DEF Types
<1>2. ScanInv
  BY DEF Init, ScanInv, Channels
<1>3. TableInv
  BY DEF Init, TableInv
<1>4. CallerInv
  BY NoReqIsRequest DEF Init, CallerInv
<1>5. TransferInv
  BY NoReqIsRequest DEF Init, TransferInv, Taken
<1> QED
  BY <1>1, <1>2, <1>3, <1>4, <1>5 DEF IInv

\* The drive asked to identify itself is the one the entry is filled with.
LEMMA ScanDriveInv == ASSUME IInv, ScanDrive PROVE IInv'
<1> DEFINE d == Scan[step]
           c == d[1]
<1>1. /\ pc = "scan" /\ step \in 1..4 /\ step' = step + 1
      /\ UNCHANGED <<present, dev, pc, req, buf, failed, booted>>
  BY ScanRange DEF ScanDrive
<1>2. Types /\ ScanInv /\ TableInv /\ CallerInv /\ TransferInv
  BY DEF IInv
<1>3. d \in Drives /\ c \in Channels /\ d[2] \in BOOLEAN /\ d = <<c, d[2]>>
  BY <1>1, ScanDrives, DriveParts
<1>4. /\ found \in 0..3 /\ found =< step - 1 /\ booted = NoDrive
      /\ step =< 2 => ~cached[0]
      /\ step =< 4 => ~cached[1]
  BY <1>1, <1>2 DEF Types, ScanInv
<1>5. /\ step = 1 => c = 0 /\ d[2] = FALSE
      /\ step = 2 => c = 0 /\ d[2] = TRUE
      /\ step = 3 => c = 1 /\ d[2] = FALSE
      /\ step = 4 => c = 1 /\ d[2] = TRUE
  <2>1. /\ Scan[1][1] = 0 /\ Scan[2][1] = 0 /\ Scan[3][1] = 1 /\ Scan[4][1] = 1
    BY ScanLiteral
  <2>2. /\ Scan[1][2] = FALSE /\ Scan[2][2] = TRUE /\ Scan[3][2] = FALSE /\ Scan[4][2] = TRUE
    BY ScanLiteral
  <2> QED
    BY <2>1, <2>2
<1>6. /\ present \subseteq Drives /\ hwSel \in [Channels -> BOOLEAN]
      /\ cached \in [Channels -> BOOLEAN] /\ table \in [0..3 -> Entry]
  BY <1>2 DEF Types
<1>7. CallerInv'
  <2>1. req = NoReq /\ NoReq.kind = "none"
    BY <1>1, <1>2, NoReqIsRequest DEF CallerInv, Types, Request
  <2> QED
    BY <1>1, <2>1 DEF CallerInv
<1>8. TransferInv'
  <2>1. req.kind = "none"
    BY <1>1, <1>2 DEF CallerInv, Types, Request
  <2> QED
    BY <1>1, <2>1 DEF TransferInv, Taken
<1>9. CASE \E slave \in BOOLEAN : <<c, slave>> \in present
  <2>1. Select(c, d[2], IF d[2] THEN cached[c] ELSE InitCache)
    BY <1>9 DEF ScanDrive
  <2>2. PICK ok \in IF <<c, hwSel'[c]>> \in present THEN BOOLEAN ELSE {FALSE} :
               /\ table' = [table EXCEPT ![found] = IF ok THEN d ELSE NoDrive]
               /\ found' = ScanNext(ok)
    BY <1>9 DEF ScanDrive
  <2>3. cached' = [cached EXCEPT ![c] = d[2]] /\ cached' \in [Channels -> BOOLEAN]
    BY <2>1, <1>3, <1>6 DEF Select
  <2>4. hwSel' \in [Channels -> BOOLEAN] /\ hwSel'[c] = d[2]
    <3>1. CASE d[2] = TRUE
      <4>1. cached[c] = FALSE
        BY <1>1, <1>3, <1>4, <1>5, <1>6, <3>1
      <4>2. hwSel' = [hwSel EXCEPT ![c] = d[2]]
        BY <2>1, <3>1, <4>1 DEF Select
      <4> QED
        BY <4>2, <1>3, <1>6
    <3>2. CASE d[2] = FALSE
      <4>1. hwSel' = [hwSel EXCEPT ![c] = d[2]]
        BY <2>1, <3>2 DEF Select, InitCache
      <4> QED
        BY <4>1, <1>3, <1>6
    <3> QED
      BY <3>1, <3>2, <1>3
  <2>5. ok \in BOOLEAN /\ (ok => d \in present)
    <3>1. ok => <<c, hwSel'[c]>> \in present
      BY <2>2
    <3>2. <<c, hwSel'[c]>> = d
      BY <2>4, <1>3
    <3> QED
      BY <2>2, <3>1, <3>2
  <2>6. found' = IF ok THEN found + 1 ELSE found
    BY <2>2 DEF ScanNext
  <2>7. (IF ok THEN d ELSE NoDrive) \in Entry
    BY <1>3 DEF Entry
  <2>8. table' \in [0..3 -> Entry]
    BY <1>4, <1>6, <2>2, <2>7
  <2>9. \A i \in 0..3 : table'[i] = IF i = found THEN (IF ok THEN d ELSE NoDrive) ELSE table[i]
    BY <1>4, <1>6, <2>2
  <2>10. Types'
    <3>1. found' \in 0..4 /\ step' \in 0..5
      BY <1>1, <1>4, <2>6
    <3> QED
      BY <1>1, <1>2, <2>3, <2>4, <2>8, <3>1 DEF Types
  <2>11. ScanInv'
    <3>1. found' =< step' - 1 /\ step' \in 1..5 /\ booted' = NoDrive
      BY <1>1, <1>4, <2>6
    <3>2. step' =< 2 => ~cached'[0]
      BY <1>1, <1>3, <1>5, <1>6, <2>3
    <3>3. step' =< 4 => ~cached'[1]
      BY <1>1, <1>3, <1>4, <1>5, <1>6, <2>3 DEF Channels
    <3> QED
      BY <3>1, <3>2, <3>3 DEF ScanInv
  <2>12. TableInv'
    <3> SUFFICES ASSUME NEW i \in 0..3
                 PROVE  /\ table'[i] # NoDrive <=> i < found'
                        /\ i < found' => /\ table'[i] \in present
                                         /\ \E k \in 1..step' - 1 : table'[i] = Scan[k]
                        /\ \A j \in 0..3 : i < j /\ j < found' => table'[i] # table'[j]
      BY <1>1, <1>4 DEF TableInv
    <3>1. \A j \in 0..3 :
            /\ table[j] # NoDrive <=> j < found
            /\ j < found => table[j] \in present /\ \E k \in 1..step - 1 : table[j] = Scan[k]
            /\ \A n \in 0..3 : j < n /\ n < found => table[j] # table[n]
      BY <1>1, <1>2, <1>4 DEF TableInv
    <3>2. d # NoDrive
      BY <1>3, NoDriveIsNone
    <3>3. table'[i] # NoDrive <=> i < found'
      BY <1>4, <2>5, <2>6, <2>9, <3>1, <3>2
    <3>4. i < found' => table'[i] \in present
      BY <1>4, <2>5, <2>6, <2>9, <3>1
    <3>5. i < found' => \E k \in 1..step' - 1 : table'[i] = Scan[k]
      <4>1. i < found => table'[i] = table[i] /\ \E k \in 1..step - 1 : table[i] = Scan[k]
        BY <1>4, <2>9, <3>1
      <4>2. i = found /\ ok => table'[i] = Scan[step]
        BY <1>4, <2>9
      <4> QED
        BY <1>1, <1>4, <2>5, <2>6, <4>1, <4>2
    <3>6. ASSUME NEW j \in 0..3, i < j, j < found' PROVE table'[i] # table'[j]
      <4>1. i < found /\ table'[i] = table[i]
        BY <1>4, <2>5, <2>6, <2>9, <3>6
      <4>2. CASE j < found
        BY <4>1, <4>2, <2>9, <3>1, <3>6
      <4>3. CASE ~(j < found)
        <5>1. j = found /\ ok
          BY <4>3, <3>6, <1>4, <2>5, <2>6
        <5>2. table'[j] = Scan[step]
          BY <5>1, <2>9
        <5>3. PICK k \in 1..step - 1 : table[i] = Scan[k]
          BY <4>1, <3>1
        <5>4. k \in 1..4 /\ k # step
          BY <1>1
        <5> QED
          BY <4>1, <5>2, <5>3, <5>4, <1>1, ScanOnce
      <4> QED
        BY <4>2, <4>3
    <3> QED
      BY <3>3, <3>4, <3>5, <3>6
  <2> QED
    BY <1>7, <1>8, <2>10, <2>11, <2>12 DEF IInv
<1>10. CASE ~ \E slave \in BOOLEAN : <<c, slave>> \in present
  <2>1. UNCHANGED <<table, found, cached, hwSel>>
    BY <1>10 DEF ScanDrive
  <2>2. Types'
    <3>1. step' \in 0..5
      BY <1>1
    <3> QED
      BY <1>1, <1>2, <2>1, <3>1 DEF Types
  <2>3. ScanInv'
    <3>1. step' \in 1..5 /\ found' =< step' - 1
      BY <1>1, <1>4, <2>1
    <3>2. ~cached'[1] /\ (step' =< 2 => ~cached'[0])
      BY <1>1, <1>4, <2>1
    <3> QED
      BY <1>1, <1>4, <3>1, <3>2 DEF ScanInv
  <2>4. TableInv'
    <3>1. \A x : (\E k \in 1..step - 1 : x = Scan[k]) => \E k \in 1..step' - 1 : x = Scan[k]
      BY <1>1
    <3> QED
      BY <1>1, <1>2, <1>4, <2>1, <3>1 DEF TableInv
  <2> QED
    BY <1>7, <1>8, <2>2, <2>3, <2>4 DEF IInv
<1> QED
  BY <1>9, <1>10

\* Nothing but the scan and the launch of a boot sector touches the table.
LEMMA TableKept ==
  ASSUME TableInv, UNCHANGED <<present, table, found, booted>>, pc' # "scan"
  PROVE  TableInv'
BY DEF TableInv

LEMMA ScanOver == ASSUME pc' # "scan" PROVE ScanInv'
BY DEF ScanInv

LEMMA NoRequest == ASSUME req' = NoReq PROVE TransferInv'
BY NoReqIsRequest DEF TransferInv, Taken

LEMMA RequestKinds == ASSUME Types PROVE req.kind \in {"none", "mbr", "read", "write"}
BY DEF Types, Request

LEMMA ScanDoneInv == ASSUME IInv, ScanDone PROVE IInv'
<1>1. /\ pc = "scan" /\ pc' = "boot" /\ step' = 0
      /\ UNCHANGED <<hw, cached, table, found, req, buf, failed, booted>>
  BY DEF ScanDone
<1>2. Types /\ ScanInv /\ TableInv /\ CallerInv
  BY DEF IInv
<1>3. req = NoReq /\ req' = NoReq
  BY <1>1, <1>2, RequestKinds DEF CallerInv
<1>4. Types'
  BY <1>1, <1>2 DEF Types, hw
<1>5. ScanInv' /\ TableInv'
  BY <1>1, <1>2, ScanOver, TableKept DEF hw
<1>6. CallerInv'
  BY <1>1, <1>3, NoReqIsRequest DEF CallerInv
<1> QED
  BY <1>3, <1>4, <1>5, <1>6, NoRequest DEF IInv

LEMMA BootAbsentInv == ASSUME IInv, BootAbsent PROVE IInv'
<1>1. /\ pc = "boot" /\ pc' = "boot" /\ req.kind = "none" /\ step \in 0..3 /\ step' = step + 1
      /\ UNCHANGED <<hw, cached, table, found, req, buf, failed, booted>>
  BY DEF BootAbsent
<1>2. Types /\ ScanInv /\ TableInv /\ CallerInv
  BY DEF IInv
<1>3. req = NoReq /\ req' = NoReq
  BY <1>1, <1>2 DEF CallerInv
<1>4. Types'
  <2>1. step' \in 0..5
    BY <1>1
  <2> QED
    BY <1>1, <1>2, <2>1 DEF Types, hw
<1>5. ScanInv' /\ TableInv'
  BY <1>1, <1>2, ScanOver, TableKept DEF hw
<1>6. CallerInv'
  BY <1>1, <1>3, NoReqIsRequest DEF CallerInv
<1> QED
  BY <1>3, <1>4, <1>5, <1>6, NoRequest DEF IInv

LEMMA BootRequest ==
  ASSUME NEW c \in Channels, NEW x \in Int
  PROVE  LET r == [NoReq EXCEPT !.kind = "mbr", !.ch = c, !.count = 1, !.lba = x]
         IN  r \in Request /\ r.kind = "mbr" /\ r.ch = c /\ r.count = 1 /\ r.chs = <<>>
BY DEF NoReq, Request

\* The boot sector is asked of the drive just selected.
LEMMA BootReadInv == ASSUME IInv, BootRead PROVE IInv'
<1> DEFINE d == table[step]
           r == [NoReq EXCEPT !.kind = "mbr", !.ch = d[1], !.count = 1,
                              !.lba = IF d \in ChsDrives THEN NoSector ELSE 0]
<1>1. /\ pc = "boot" /\ step \in 0..3 /\ d # NoDrive
      /\ cached' = [cached EXCEPT ![d[1]] = d[2]]
      /\ Start(d[1], d[2], r)
      /\ UNCHANGED <<present, table, found, pc, step, booted>>
  BY DEF BootRead, BootCache
<1>2. Types /\ ScanInv /\ TableInv /\ CallerInv
  BY DEF IInv
<1>3. d \in Drives
  BY <1>1, <1>2 DEF Types, Entry
<1>4. d[1] \in Channels /\ d[2] \in BOOLEAN /\ d = <<d[1], d[2]>>
  BY <1>3, DriveParts
<1>5. r \in Request /\ r.kind = "mbr" /\ r.ch = d[1] /\ r.count = 1 /\ r.chs = <<>>
  <2>1. (IF d \in ChsDrives THEN NoSector ELSE 0) \in Int
    BY DEF NoSector
  <2> QED
    BY <1>4, <2>1, BootRequest
<1> HIDE DEF r
<1>6. /\ req' \in Request /\ buf' = <<>> /\ failed' = FALSE
      /\ req'.kind = "mbr" /\ req'.ch = d[1] /\ req'.lba = r.lba
      /\ req'.count = 1 /\ req'.chs = <<>>
      /\ hwSel' \in [Channels -> BOOLEAN] /\ dev' \in [Channels -> Command]
      /\ req'.taken =>
           /\ dev'[d[1]].state = "bsy" /\ dev'[d[1]].at = r.lba /\ dev'[d[1]].drive = d
           /\ dev'[d[1]].left = 1
           /\ dev'[d[1]].out <=> r.kind = "write"
  <2>1. Started(d[1], d[2], r)
    BY <1>1, <1>2, <1>4, <1>5, StartFacts
  <2> QED
    BY <1>4, <1>5, <2>1 DEF Started
<1>7. cached' \in [Channels -> BOOLEAN] /\ cached'[d[1]] = d[2]
  BY <1>1, <1>2, <1>4 DEF Types
<1>8. Types'
  <2>1. buf' \in Seq(Moved) /\ failed' \in BOOLEAN
    <3>1. <<>> \in Seq(Moved)
      OBVIOUS
    <3> QED
      BY <1>6, <3>1
  <2> QED
    BY <1>1, <1>2, <1>6, <1>7, <2>1 DEF Types
<1>9. ScanInv' /\ TableInv'
  BY <1>1, <1>2, ScanOver, TableKept
<1>10. CallerInv'
  BY <1>1, <1>3, <1>6, <1>7 DEF CallerInv
<1>11. TransferInv'
  <2>1. Want' = d /\ Len(buf') = 0
    BY <1>1, <1>6 DEF Want
  <2>2. req'.lba \in Int
    BY <1>6 DEF Request
  <2>3. SUFFICES ASSUME req'.taken
                 PROVE  /\ dev'[d[1]].state \in {"bsy", "drq"} /\ dev'[d[1]].drive = d
                        /\ dev'[d[1]].at = req'.lba + 0 /\ dev'[d[1]].left = req'.count - 0
                        /\ dev'[d[1]].out <=> req'.kind = "write"
    BY <1>6, <2>1 DEF TransferInv, Taken
  <2> QED
    BY <1>5, <1>6, <2>2, <2>3
<1> QED
  BY <1>8, <1>9, <1>10, <1>11 DEF IInv

\* What remains when the request of a caller is over.
LEMMA EndFacts ==
  ASSUME EndRequest
  PROVE  /\ req' = NoReq /\ req' \in Request /\ req'.kind = "none"
         /\ buf' = <<>> /\ buf' \in Seq(Moved) /\ failed' \in BOOLEAN
<1>1. <<>> \in Seq(Moved)
  OBVIOUS
<1> QED
  BY <1>1, NoReqIsRequest DEF EndRequest

\* The drive whose boot sector is started is first in the table, and selected.
LEMMA LaunchInv == ASSUME IInv, Launch PROVE IInv'
<1>1. /\ req.kind = "mbr" /\ table' = [table EXCEPT ![0] = table[step]]
      /\ booted' = table[step] /\ pc' = "guest" /\ EndRequest
      /\ UNCHANGED <<hw, cached, found, step>>
  BY DEF Launch, Done, BootEntry
<1>2. Types /\ CallerInv
  BY DEF IInv
<1>3. step \in 0..3 /\ booted' \in Drives /\ cached[booted'[1]] = booted'[2]
  BY <1>1, <1>2 DEF CallerInv
<1>4. Types'
  <2>1. table' \in [0..3 -> Entry] /\ booted' \in Entry
    BY <1>1, <1>2, <1>3 DEF Types, Entry
  <2> QED
    BY <1>1, <1>2, <2>1, EndFacts DEF Types, hw
<1>5. ScanInv' /\ TableInv'
  BY <1>1, <1>3, ScanOver, NoDriveIsNone DEF TableInv
<1>6. CallerInv'
  <2>1. table'[0] = booted'
    BY <1>1, <1>2 DEF Types
  <2> QED
    BY <1>1, <1>3, <2>1, EndFacts DEF CallerInv
<1> QED
  BY <1>1, <1>4, <1>5, <1>6, EndFacts, NoRequest DEF IInv

LEMMA BadSignatureInv == ASSUME IInv, BadSignature PROVE IInv'
<1>1. /\ req.kind = "mbr" /\ step' = step + 1 /\ EndRequest
      /\ UNCHANGED <<hw, cached, table, found, pc, booted>>
  BY DEF BadSignature, Done
<1>2. Types /\ ScanInv /\ TableInv /\ CallerInv
  BY DEF IInv
<1>3. pc = "boot" /\ pc' = "boot" /\ step \in 0..3 /\ step' \in 0..4
  BY <1>1, <1>2 DEF CallerInv
<1>4. Types'
  <2>1. step' \in 0..5
    BY <1>3
  <2> QED
    BY <1>1, <1>2, <2>1, EndFacts DEF Types, hw
<1>5. ScanInv' /\ TableInv'
  BY <1>1, <1>2, <1>3, ScanOver, TableKept DEF hw
<1>6. CallerInv'
  BY <1>1, <1>3, EndFacts DEF CallerInv
<1> QED
  BY <1>1, <1>4, <1>5, <1>6, EndFacts, NoRequest DEF IInv

LEMMA GuestReturnsInv == ASSUME IInv, GuestReturns PROVE IInv'
<1>1. /\ pc = "guest" /\ req.kind = "none" /\ pc' = "boot" /\ step' = step + 1
      /\ UNCHANGED <<hw, cached, table, found, req, buf, failed, booted>>
  BY DEF GuestReturns
<1>2. Types /\ ScanInv /\ TableInv /\ CallerInv
  BY DEF IInv
<1>3. req' = NoReq /\ req = NoReq /\ step \in 0..3 /\ step' \in 0..4
  BY <1>1, <1>2 DEF CallerInv
<1>4. Types'
  <2>1. step' \in 0..5
    BY <1>3
  <2> QED
    BY <1>1, <1>2, <2>1 DEF Types, hw
<1>5. ScanInv' /\ TableInv'
  BY <1>1, <1>2, ScanOver, TableKept DEF hw
<1>6. CallerInv'
  BY <1>1, <1>3, NoReqIsRequest DEF CallerInv
<1> QED
  BY <1>3, <1>4, <1>5, <1>6, NoRequest DEF IInv

LEMMA FailedToBootInv == ASSUME IInv, FailedToBoot PROVE IInv'
<1>1. /\ pc = "boot" /\ step = 4 /\ pc' = "off"
      /\ UNCHANGED <<hw, cached, table, found, step, req, buf, failed, booted>>
  BY DEF FailedToBoot
<1>2. Types /\ ScanInv /\ TableInv /\ CallerInv
  BY DEF IInv
<1>3. req = NoReq /\ req' = NoReq
  BY <1>1, <1>2, RequestKinds DEF CallerInv
<1>4. Types'
  BY <1>1, <1>2 DEF Types, hw
<1>5. ScanInv' /\ TableInv'
  BY <1>1, <1>2, ScanOver, TableKept DEF hw
<1>6. CallerInv'
  BY <1>1, <1>3, NoReqIsRequest DEF CallerInv
<1> QED
  BY <1>3, <1>4, <1>5, <1>6, NoRequest DEF IInv

LEMMA Int13ReturnInv == ASSUME IInv, Int13Return PROVE IInv'
<1>1. /\ req.kind \in {"read", "write"} /\ EndRequest
      /\ UNCHANGED <<hw, cached, table, found, pc, step, booted>>
  BY DEF Int13Return, Done
<1>2. Types /\ ScanInv /\ TableInv /\ CallerInv
  BY DEF IInv
<1>3. pc = "guest" /\ pc' = "guest"
  BY <1>1, <1>2 DEF CallerInv
<1>4. Types'
  BY <1>1, <1>2, EndFacts DEF Types, hw
<1>5. ScanInv' /\ TableInv'
  BY <1>1, <1>2, <1>3, ScanOver, TableKept DEF hw
<1>6. CallerInv'
  BY <1>1, <1>2, <1>3, EndFacts DEF CallerInv
<1> QED
  BY <1>1, <1>4, <1>5, <1>6, EndFacts, NoRequest DEF IInv

\* INT 13h selects no drive: it relies on the cache saying the one that was
\* booted, and on a head number that leaves the DRV bit alone.
LEMMA Int13StartInv ==
  ASSUME IInv, NEW kind \in {"read", "write"}, NEW n \in Counts, NEW a \in Addresses,
         Int13Start(kind, a[1], a[2], a[3], n)
  PROVE  IInv'
<1> DEFINE d == table[0]
<1>1. a \in Chs /\ a = <<a[1], a[2], a[3]>> /\ n \in Nat
  <2>1. a \in Chs /\ n \in Nat
    BY AddressAssumption, CountAssumption
  <2> QED
    BY <2>1, AddressParts
<1>2. PICK x \in Int : x = Address(d, a[1], a[2], a[3])
  BY <1>1, AddressIsInt
<1>3. PICK drv \in BOOLEAN : drv = Drv(d, a[2])
  BY DEF Drv
<1> DEFINE r == [NoReq EXCEPT !.kind = kind, !.ch = d[1], !.count = n, !.lba = x, !.chs = a]
<1>4. /\ pc = "guest" /\ req.kind = "none"
      /\ Start(d[1], drv, r)
      /\ UNCHANGED <<cached, present, table, found, pc, step, booted>>
  BY <1>1, <1>2, <1>3 DEF Int13Start
<1>5. /\ Types /\ ScanInv /\ TableInv /\ CallerInv
      /\ d = booted /\ d \in Drives /\ step \in 0..3 /\ cached[d[1]] = d[2]
      /\ d[1] \in Channels /\ d[2] \in BOOLEAN /\ d = <<d[1], d[2]>>
  <2>1. Types /\ ScanInv /\ TableInv /\ CallerInv
    BY DEF IInv
  <2>2. d = booted /\ d \in Drives /\ step \in 0..3 /\ cached[d[1]] = d[2]
    BY <1>4, <2>1 DEF CallerInv
  <2> QED
    BY <2>1, <2>2, DriveParts
<1>6. r \in Request /\ r.kind = kind /\ r.ch = d[1] /\ r.count = n /\ r.lba = x /\ r.chs = a
  <2>1. PICK c \in Channels : c = d[1]
    BY <1>5
  <2>2. r.kind = kind /\ r.ch = c /\ r.count = n /\ r.lba = x /\ r.chs = a
    BY <2>1 DEF NoReq
  <2>3. r \in Request
    BY <1>1, <2>1 DEF NoReq, Request
  <2> QED
    BY <2>1, <2>2, <2>3
<1> HIDE DEF r
<1>7. Started(d[1], drv, r)
  <2>1. d[1] \in Channels /\ r \in Request /\ Start(d[1], drv, r) /\ Types
    BY <1>4, <1>5, <1>6
  <2> QED
    BY <2>1, StartFacts
<1>8. Types'
  <2>1. buf' \in Seq(Moved) /\ failed' \in BOOLEAN
    <3>1. <<>> \in Seq(Moved)
      OBVIOUS
    <3> QED
      BY <1>7, <3>1 DEF Started
  <2> QED
    BY <1>4, <1>5, <1>7, <2>1 DEF Types, Started
<1>9. ScanInv' /\ TableInv'
  BY <1>4, <1>5, ScanOver, TableKept
<1>10. CallerInv'
  <2>1. req'.lba = Address(booted', a[1], a[2], a[3])
    BY <1>2, <1>4, <1>5, <1>6, <1>7 DEF Started
  <2> QED
    BY <1>1, <1>4, <1>5, <1>6, <1>7, <2>1 DEF CallerInv, Started
<1>11. TransferInv'
  <2>1. Want' = d /\ Len(buf') = 0
    BY <1>4, <1>5, <1>6, <1>7 DEF Want, Started
  <2>2. req'.lba \in Int /\ req'.count = n /\ n \in Nat /\ req'.ch = d[1] /\ req'.kind = kind
    BY <1>1, <1>6, <1>7 DEF Request, Started
  <2>3. HeadFits' => (d \in ChsDrives => a[2] < HeadField)
    BY <1>1, <1>4, <1>5, <1>6, <1>7, NoAddress DEF HeadFits, Started
  <2>4. HeadFits' => drv = d[2]
    <3>1. a[2] \in Nat /\ HeadField \in Nat
      BY <1>1, AddressParts, GeometryAssumption
    <3>2. ~(d \in ChsDrives /\ a[2] >= HeadField) => drv = d[2]
      BY <1>3, <1>5 DEF Drv
    <3> QED
      BY <2>3, <3>1, <3>2
  <2>5. SUFFICES ASSUME req'.taken, HeadFits', 0 < n
                 PROVE  /\ dev'[d[1]].state \in {"bsy", "drq"} /\ dev'[d[1]].drive = d
                        /\ dev'[d[1]].at = req'.lba + 0 /\ dev'[d[1]].left = req'.count - 0
                        /\ dev'[d[1]].out <=> req'.kind = "write"
    BY <1>7, <2>1, <2>2 DEF TransferInv, Taken, Started
  <2> QED
    BY <1>5, <1>6, <1>7, <2>2, <2>4, <2>5 DEF Started
<1> QED
  BY <1>8, <1>9, <1>10, <1>11 DEF IInv

LEMMA MovedPair == ASSUME NEW e \in Entry, NEW x \in Int PROVE <<e, x>> \in Moved
BY DEF Moved

\* One more sector in the caller's buffer: while a taken request is not
\* complete the drive holds exactly what is left of it.
LEMMA TransferKeeps == ASSUME IInv, Transfer PROVE IInv'
<1> DEFINE c == req.ch
           d == dev[c]
<1>1. /\ req.kind # "none" /\ Len(buf) < req.count /\ d.state # "bsy"
      /\ UNCHANGED <<present, hwSel, cached, table, found, pc, step, req, failed, booted>>
  BY DEF Transfer, Serving, NotBusy
<1>2. Types /\ ScanInv /\ TableInv /\ CallerInv /\ TransferInv
  BY DEF IInv
<1>3. /\ c \in Channels /\ d \in Command /\ req.count \in Nat /\ req.lba \in Int
      /\ dev \in [Channels -> Command] /\ buf \in Seq(Moved)
  BY <1>2 DEF Types, Request
<1>4. d.at \in Int /\ d.left \in Nat /\ d.drive \in Entry /\ d.out \in BOOLEAN
  BY <1>3 DEF Command
<1> DEFINE moves == d.state = "drq" /\ d.out = (req.kind = "write")
           item == IF moves THEN <<d.drive, d.at>> ELSE Garbage
<1>5. buf' = Append(buf, item) /\ item \in Moved
  <2>1. <<d.drive, d.at>> \in Moved /\ Garbage \in Moved
    BY <1>4, MovedPair DEF Moved
  <2> QED
    BY <2>1 DEF Transfer
<1>6. buf' \in Seq(Moved) /\ Len(buf') = Len(buf) + 1 /\ buf'[Len(buf) + 1] = item
      /\ \A i \in 1..Len(buf) : buf'[i] = buf[i]
  <2> HIDE DEF item
  <2> QED
    BY <1>3, <1>5, AppendProperties
<1>7. moves => dev' = [dev EXCEPT ![c] =
                 IF d.left > 1
                 THEN [d EXCEPT !.state = "bsy", !.at = d.at + 1, !.left = d.left - 1]
                 ELSE IF d.out THEN [Idle EXCEPT !.state = "bsy"] ELSE Idle]
  BY DEF Transfer
<1>8. ~moves => dev' = dev
  BY DEF Transfer
<1>9. dev' \in [Channels -> Command]
  <2>1. ASSUME d.left > 1
        PROVE  [d EXCEPT !.state = "bsy", !.at = d.at + 1, !.left = d.left - 1] \in Command
    <3>1. d.at + 1 \in Int /\ d.left - 1 \in Nat
      BY <1>4, <2>1
    <3> QED
      BY <1>3, <3>1 DEF Command
  <2>2. [Idle EXCEPT !.state = "bsy"] \in Command /\ Idle \in Command
    BY IdleIsCommand DEF Command
  <2> HIDE DEF moves
  <2> QED
    BY <1>3, <1>7, <1>8, <2>1, <2>2
<1>10. Types'
  BY <1>1, <1>2, <1>6, <1>9 DEF Types
<1>11. ScanInv' /\ TableInv' /\ CallerInv'
  <2>1. pc' # "scan"
    BY <1>1, <1>2, RequestKinds DEF CallerInv
  <2>2. CallerInv'
    BY <1>1, <1>2 DEF CallerInv
  <2> QED
    BY <1>1, <1>2, <2>1, <2>2, ScanOver, TableKept
<1>12. TransferInv'
  <2>1. (Taken' <=> Taken) /\ Want' = Want
    BY <1>1 DEF Taken, HeadFits, Want
  <2>2. SUFFICES ASSUME Taken
                 PROVE  /\ \A i \in 1..Len(buf') : buf'[i] = <<Want, req.lba + i - 1>>
                        /\ Len(buf') < req.count =>
                             /\ dev'[c].state \in {"bsy", "drq"} /\ dev'[c].drive = Want
                             /\ dev'[c].at = req.lba + Len(buf')
                             /\ dev'[c].left = req.count - Len(buf')
                             /\ dev'[c].out <=> req.kind = "write"
    BY <1>1, <2>1 DEF TransferInv
  <2>3. /\ \A i \in 1..Len(buf) : buf[i] = <<Want, req.lba + i - 1>>
        /\ d.state \in {"bsy", "drq"} /\ d.drive = Want
        /\ d.at = req.lba + Len(buf) /\ d.left = req.count - Len(buf)
        /\ d.out <=> req.kind = "write"
    BY <1>1, <1>2, <2>2 DEF TransferInv
  <2>4. moves
    BY <1>1, <1>4, <2>3
  <2>5. Len(buf) \in Nat
    BY <1>3
  <2>6. ASSUME NEW i \in 1..Len(buf') PROVE buf'[i] = <<Want, req.lba + i - 1>>
    <3>1. CASE i \in 1..Len(buf)
      BY <1>6, <2>3, <3>1
    <3>2. CASE i = Len(buf) + 1
      <4>1. buf'[i] = <<d.drive, d.at>>
        BY <1>6, <2>4, <3>2
      <4>2. d.at = req.lba + i - 1
        BY <1>3, <2>3, <2>5, <3>2
      <4> QED
        BY <2>3, <4>1, <4>2
    <3> QED
      BY <1>6, <2>5, <3>1, <3>2
  <2>7. ASSUME Len(buf') < req.count
        PROVE  /\ dev'[c].state \in {"bsy", "drq"} /\ dev'[c].drive = Want
               /\ dev'[c].at = req.lba + Len(buf')
               /\ dev'[c].left = req.count - Len(buf')
               /\ dev'[c].out <=> req.kind = "write"
    <3>1. d.left > 1
      BY <1>3, <1>6, <2>3, <2>5, <2>7
    <3>2. dev'[c] = [d EXCEPT !.state = "bsy", !.at = d.at + 1, !.left = d.left - 1]
      BY <1>3, <1>7, <2>4, <3>1
    <3>3. /\ dev'[c].state = "bsy" /\ dev'[c].at = d.at + 1 /\ dev'[c].left = d.left - 1
          /\ dev'[c].drive = d.drive /\ dev'[c].out = d.out
      BY <1>3, <3>2 DEF Command
    <3> QED
      BY <1>3, <1>6, <2>3, <2>5, <3>3
  <2> QED
    BY <2>6, <2>7
<1> QED
  BY <1>10, <1>11, <1>12 DEF IInv

\* A drive that gets ready changes its state only; one with nothing left was
\* storing the last sector of a write, and no request counts on it.
LEMMA DeviceReadyInv == ASSUME IInv, NEW c \in Channels, DeviceReady(c) PROVE IInv'
<1> DEFINE d == dev[c]
<1>1. /\ d.state = "bsy"
      /\ dev' = [dev EXCEPT ![c] = IF d.left = 0 THEN Idle ELSE [d EXCEPT !.state = "drq"]]
      /\ UNCHANGED <<present, hwSel, cached, table, found, pc, step, req, buf, failed, booted>>
  BY DEF DeviceReady
<1>2. Types /\ ScanInv /\ TableInv /\ CallerInv /\ TransferInv
  BY DEF IInv
<1>3. d \in Command /\ dev \in [Channels -> Command]
  BY <1>2 DEF Types
<1>4. dev' \in [Channels -> Command]
  <2>1. [d EXCEPT !.state = "drq"] \in Command
    BY <1>3 DEF Command
  <2> QED
    BY <1>1, <1>3, <2>1, IdleIsCommand
<1>5. Types'
  BY <1>1, <1>2, <1>4 DEF Types
<1>6. ScanInv' /\ TableInv' /\ CallerInv'
  <2>1. ScanInv'
    BY <1>1, <1>2 DEF ScanInv
  <2>2. TableInv'
    BY <1>1, <1>2 DEF TableInv
  <2>3. CallerInv'
    BY <1>1, <1>2 DEF CallerInv
  <2> QED
    BY <2>1, <2>2, <2>3
<1>7. TransferInv'
  <2>1. (Taken' <=> Taken) /\ Want' = Want
    BY <1>1 DEF Taken, HeadFits, Want
  <2>2. CASE c # req.ch
    <3>1. dev'[req.ch] = dev[req.ch]
      BY <1>1, <1>2, <2>2 DEF Types, Request
    <3> QED
      BY <1>1, <1>2, <2>1, <3>1 DEF TransferInv
  <2>3. CASE c = req.ch /\ d.left # 0
    <3>1. dev'[c] = [d EXCEPT !.state = "drq"]
      BY <1>1, <1>3, <2>3
    <3>2. /\ dev'[c].state = "drq" /\ dev'[c].drive = d.drive /\ dev'[c].at = d.at
          /\ dev'[c].left = d.left /\ dev'[c].out = d.out
      BY <1>3, <3>1 DEF Command
    <3> QED
      BY <1>1, <1>2, <2>1, <2>3, <3>2 DEF TransferInv
  <2>4. CASE c = req.ch /\ d.left = 0
    <3>1. Len(buf) \in Nat /\ req.count \in Nat
      BY <1>2 DEF Types, Request
    <3>2. Taken => ~(Len(buf) < req.count)
      BY <1>2, <2>4, <3>1 DEF TransferInv
    <3> QED
      BY <1>1, <1>2, <2>1, <3>2 DEF TransferInv
  <2> QED
    BY <2>2, <2>3, <2>4
<1> QED
  BY <1>5, <1>6, <1>7 DEF IInv

LEMMA DeviceErrorInv == ASSUME IInv, NEW c \in Channels, DeviceError(c) PROVE IInv'
<1>1. /\ dev' = [dev EXCEPT ![c] = [Idle EXCEPT !.state = "err"]]
      /\ failed' = TRUE
      /\ UNCHANGED <<present, hwSel, cached, table, found, pc, step, req, buf, booted>>
  BY DEF DeviceError
<1>2. Types /\ ScanInv /\ TableInv /\ CallerInv
  BY DEF IInv
<1>3. dev' \in [Channels -> Command]
  <2>1. [Idle EXCEPT !.state = "err"] \in Command
    BY IdleIsCommand DEF Command
  <2> QED
    BY <1>1, <1>2, <2>1 DEF Types
<1>4. Types'
  BY <1>1, <1>2, <1>3 DEF Types
<1>5. ScanInv'
  BY <1>1, <1>2 DEF ScanInv
<1>6. TableInv'
  BY <1>1, <1>2 DEF TableInv
<1>7. CallerInv'
  BY <1>1, <1>2 DEF CallerInv
<1>8. TransferInv'
  BY <1>1 DEF TransferInv, Taken
<1> QED
  BY <1>4, <1>5, <1>6, <1>7, <1>8 DEF IInv

LEMMA StutterIInv == ASSUME IInv, UNCHANGED vars PROVE IInv'
<1>1. Types /\ ScanInv /\ TableInv /\ CallerInv /\ TransferInv
  BY DEF IInv
<1>2. Types'
  BY <1>1 DEF Types, vars, hw
<1>3. ScanInv' /\ TableInv'
  BY <1>1 DEF ScanInv, TableInv, vars, hw
<1>4. CallerInv'
  BY <1>1 DEF CallerInv, vars, hw
<1>5. TransferInv'
  BY <1>1 DEF TransferInv, Taken, HeadFits, Want, vars, hw
<1> QED
  BY <1>2, <1>3, <1>4, <1>5 DEF IInv

LEMMA NextIInv == IInv /\ [Next]_vars => IInv'
<1> SUFFICES ASSUME IInv, [Next]_vars PROVE IInv'
  OBVIOUS
<1>1. CASE Main
  BY <1>1, ScanDriveInv, ScanDoneInv, BootAbsentInv, BootReadInv, TransferKeeps, LaunchInv,
     BadSignatureInv, FailedToBootInv, Int13ReturnInv DEF Main
<1>2. CASE Guest
  BY <1>2, GuestReturnsInv, Int13StartInv DEF Guest
<1>3. ASSUME NEW c \in Channels, DeviceReady(c) \/ DeviceError(c) PROVE IInv'
  BY <1>3, DeviceReadyInv, DeviceErrorInv
<1>4. CASE UNCHANGED vars
  BY <1>4, StutterIInv
<1> QED
  BY <1>1, <1>2, <1>3, <1>4 DEF Next

-----------------------------------------------------------------------------
(***************************************************************************)
(* The theorems.                                                           *)
(***************************************************************************)
\* What the scan, boot_from_hd and INT 13h preserve between them.
THEOREM Invariant == Spec => []IInv
BY InitIInv, NextIInv, PTL DEF Spec

\* The table a finished scan leaves lists, without gaps and each once, only
\* drives that answer, under their own channel and position, whatever drive
\* each channel had selected before and whichever drives there are.
THEOREM TableListsDrives == Spec => []TableIsHardware
<1>1. IInv => TableIsHardware
  BY DEF IInv, TableInv, TableIsHardware
<1> QED
  BY <1>1, Invariant, PTL

\* A request the drive took and served without an error moved the sectors
\* asked for, in order, of the drive that was meant, although INT 13h selects
\* no drive and the polling loop looks at neither ERR nor DRQ.
THEOREM RequestsMoveWhatWasAsked == Spec => []RequestedSectorsMoved
<1>1. ASSUME IInv PROVE RequestedSectorsMoved
  <2>1. TransferInv /\ buf \in Seq(Moved)
    BY <1>1 DEF IInv, Types
  <2>2. DOMAIN buf = 1..Len(buf)
    BY <2>1
  <2> QED
    BY <2>1, <2>2 DEF TransferInv, Taken, Want, RequestedSectorsMoved
<1> QED
  BY <1>1, Invariant, PTL

\* For every geometry a drive may report, no two of the addresses AH=8 admits
\* are translated to one sector.
THEOREM AddressesAreDistinct == Spec => []ChsIsInjective
<1>1. ASSUME IInv PROVE ChsIsInjective
  <2> DEFINE Target(a) == Address(booted, a[1], a[2], a[3])
  <2>1. SUFFICES ASSUME req.chs # <<>>, req.lba # NoSector, HeadFits, NEW a \in Chs,
                        Target(a) = req.lba, booted \in ChsDrives => a[2] < HeadField
                 PROVE  a = req.chs
    BY DEF ChsIsInjective
  <2>2. req.kind \in {"read", "write"}
    BY <1>1, <2>1, RequestKinds, NoReqIsRequest DEF IInv, CallerInv, NoReq
  <2>3. req.chs \in Chs /\ req.lba = Target(req.chs)
    BY <1>1, <2>2 DEF IInv, CallerInv
  <2>4. booted \in ChsDrives => req.chs[2] < HeadField
    BY <2>1 DEF HeadFits
  <2> QED
    BY <2>1, <2>3, <2>4, AddressInjective
<1> QED
  BY <1>1, Invariant, PTL
=============================================================================
