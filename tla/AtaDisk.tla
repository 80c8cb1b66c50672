------------------------------- MODULE AtaDisk -------------------------------
(***************************************************************************)
(* The ATA driver and its callers: hd_init scans the channels and fills    *)
(* dev_ata_drives, boot_from_hd tries the drives in turn, and INT 13h      *)
(* serves the boot sector that was started.  Two drives share a channel,   *)
(* and the driver caches which of them is selected.  A transfer is         *)
(* abstracted to the drive and sector it reached.  The INT 13h services    *)
(* that touch no drive are left out.                                       *)
(***************************************************************************)
EXTENDS Integers, Sequences, FiniteSets

CONSTANTS
  Heads, Spt,     \* geometry IDENTIFY reports: heads, sectors per track
  HeadField,      \* head numbers the drive/head register has room for, 16
  Cylinders,      \* bound: cylinders of a drive
  Populations,    \* which sets of drives there may be
  Addresses,      \* cylinder, head and sector a boot sector asks for
  Counts,         \* and how many sectors
  ZeroCount,      \* sectors a drive takes a count of 0 for, 256
  ChsDrives       \* drives without ATA_DRIVE_LBA28

Channels == {0, 1}
Drives == Channels \X BOOLEAN          \* <<channel, slave?>>
Chs == (0..Cylinders - 1) \X (0..Heads) \X (1..Spt)   \* as AH=8 reports them

ASSUME GeometryAssumption ==
  /\ Heads \in Nat /\ Spt \in Nat \ {0}
  /\ HeadField \in Nat \ {0} /\ Heads =< HeadField
ASSUME CountAssumption ==
  ZeroCount \in Nat \ {0} /\ Counts \subseteq 0..(ZeroCount - 1)
ASSUME AddressAssumption == Cylinders \in Nat /\ Addresses \subseteq Chs
ASSUME DriveAssumption == ChsDrives \subseteq Drives /\ Populations \subseteq SUBSET Drives

Scan == << <<0, FALSE>>, <<0, TRUE>>, <<1, FALSE>>, <<1, TRUE>> >>
NoDrive == <<>>                        \* an entry whose dev is NULL
Garbage == <<>>                        \* what the data port gives without DRQ
NoSector == -1                         \* an address a drive does not have
Idle == [state |-> "idle", at |-> 0, left |-> 0, drive |-> NoDrive, out |-> FALSE]

VARIABLES
  present,       \* the drives that answer IDENTIFY
  hwSel, cached, \* per channel: the DRV bit last written, dev->slave_selected
  dev,           \* per channel: the command the selected drive executes
  table, found,  \* dev_ata_drives, num_drives
  pc, step,      \* main: "scan", "boot", "guest", "off"; scan or boot index
  req, buf,      \* the request being served and the sectors it moved
  failed,        \* the drive reported an error during this request
  booted         \* the drive main last started

hw == <<present, hwSel, dev>>
vars == <<hw, cached, table, found, pc, step, req, buf, failed, booted>>

NoReq == [kind |-> "none", ch |-> 0, lba |-> 0, count |-> 0, chs |-> <<>>,
          taken |-> FALSE]

Init ==
  /\ present \in Populations
  /\ hwSel \in {sel \in [Channels -> BOOLEAN] : \A c \in Channels :
                 sel[c] => \E slave \in BOOLEAN : <<c, slave>> \in present}
  /\ cached = [c \in Channels |-> FALSE]
  /\ dev = [c \in Channels |-> Idle]
  /\ table = [i \in 0..3 |-> NoDrive] /\ found = 0
  /\ pc = "scan" /\ step = 1
  /\ req = NoReq /\ buf = <<>> /\ failed = FALSE /\ booted = NoDrive

-----------------------------------------------------------------------------
(* ata_drive_select writes the drive/head register only if its cache says   *)
(* another drive is selected.  ata_init sets the cache to the slave first,  *)
(* whatever the register holds, so that the master really is selected.      *)

Select(c, slave, was) ==
  /\ cached' = [cached EXCEPT ![c] = slave]
  /\ hwSel' = IF was = slave THEN hwSel ELSE [hwSel EXCEPT ![c] = slave]
InitCache_Unset == FALSE
InitCache == TRUE

\* One round of scan_dev: ata_init before the master of a channel, then
\* ata_identify of the drive into the next free entry.  A channel where
\* nothing answers is not detected, and neither of its drives is asked.
ScanNext(ok) == IF ok THEN found + 1 ELSE found
ScanDrive ==
  /\ pc = "scan" /\ step \in DOMAIN Scan
  /\ LET d == Scan[step]
         c == d[1]
     IN  IF \E slave \in BOOLEAN : <<c, slave>> \in present
         THEN /\ Select(c, d[2], IF d[2] THEN cached[c] ELSE InitCache)
              /\ \E ok \in IF <<c, hwSel'[c]>> \in present THEN BOOLEAN ELSE {FALSE} :
                   /\ table' = [table EXCEPT ![found] = IF ok THEN d ELSE NoDrive]
                   /\ found' = ScanNext(ok)
         ELSE UNCHANGED <<table, found, cached, hwSel>>
  /\ step' = step + 1
  /\ UNCHANGED <<present, dev, pc, req, buf, failed, booted>>

ScanDone ==
  /\ pc = "scan" /\ step = Len(Scan) + 1
  /\ pc' = "boot" /\ step' = 0
  /\ UNCHANGED <<hw, cached, table, found, req, buf, failed, booted>>

-----------------------------------------------------------------------------
(* ata_read_lba, ata_write_lba, ata_read_chs and ata_write_chs: the         *)
(* registers and the command, whatever the drive is doing, then one poll of *)
(* BSY and one sector per round; nothing looks at ERR or DRQ.  A drive that *)
(* is busy, or in the middle of a transfer, ignores both.                   *)

NotBusy_UntilDrq(c) == dev[c].state = "drq"
NotBusy(c) == dev[c].state # "bsy"

Accepts(c) == dev[c].state \in {"idle", "err"}
Start(c, drv, r) ==
  /\ req' = [r EXCEPT !.taken = Accepts(c) /\ <<c, drv>> \in present]
  /\ buf' = <<>> /\ failed' = FALSE
  /\ hwSel' = IF Accepts(c) THEN [hwSel EXCEPT ![c] = drv] ELSE hwSel
  /\ dev' = IF req'.taken
            THEN [dev EXCEPT ![c] = [state |-> "bsy", at |-> r.lba,
                    left |-> IF r.count = 0 THEN ZeroCount ELSE r.count,
                    drive |-> <<c, drv>>, out |-> (r.kind = "write")]]
            ELSE dev

\* The drive can move the next sector, has stored the last, or gives up; it
\* always does on an address it does not have.
DeviceReady(c) ==
  /\ dev[c].state = "bsy" /\ dev[c].at # NoSector
  /\ dev' = [dev EXCEPT ![c] = IF dev[c].left = 0 THEN Idle
                               ELSE [dev[c] EXCEPT !.state = "drq"]]
  /\ UNCHANGED <<present, hwSel, cached, table, found, pc, step, req, buf,
                 failed, booted>>
DeviceError(c) ==
  /\ dev[c].state = "bsy"
  /\ dev' = [dev EXCEPT ![c] = [Idle EXCEPT !.state = "err"]]
  /\ failed' = TRUE
  /\ UNCHANGED <<present, hwSel, cached, table, found, pc, step, req, buf,
                 booted>>

Serving == req.kind # "none" /\ Len(buf) < req.count

\* After the last sector of a write the drive is busy storing it, and nobody
\* waits for that.  A drive that waits for data gives none, and the other way
\* round.
Transfer ==
  /\ Serving /\ NotBusy(req.ch)
  /\ LET d == dev[req.ch]
     IN  IF d.state = "drq" /\ d.out = (req.kind = "write")
         THEN /\ buf' = Append(buf, <<d.drive, d.at>>)
              /\ dev' = [dev EXCEPT ![req.ch] =
                   IF d.left > 1
                   THEN [d EXCEPT !.state = "bsy", !.at = d.at + 1, !.left = d.left - 1]
                   ELSE IF d.out THEN [Idle EXCEPT !.state = "bsy"] ELSE Idle]
         ELSE /\ buf' = Append(buf, Garbage)
              /\ UNCHANGED dev
  /\ UNCHANGED <<present, hwSel, cached, table, found, pc, step, req, failed,
                 booted>>
Done(kind) == req.kind = kind /\ Len(buf) = req.count
EndRequest == req' = NoReq /\ buf' = <<>> /\ failed' = FALSE

-----------------------------------------------------------------------------
\* boot_from_hd: an entry without a drive is passed over, another is selected
\* and its first sector read to 0x7C00.  ata_drive_select, when its cache says
\* another drive is selected, waits until the channel is not busy.  The sector
\* is read by its block number whether or not the drive knows those.
BootAbsent ==
  /\ pc = "boot" /\ req.kind = "none" /\ step \in 0..3 /\ table[step] = NoDrive
  /\ step' = step + 1
  /\ UNCHANGED <<hw, cached, table, found, pc, req, buf, failed, booted>>
BootCache(c, slave) == [cached EXCEPT ![c] = slave]
BootRead ==
  /\ pc = "boot" /\ req.kind = "none" /\ step \in 0..3 /\ table[step] # NoDrive
  /\ LET d == table[step]
     IN  /\ cached[d[1]] = d[2] \/ NotBusy(d[1])
         /\ cached' = BootCache(d[1], d[2])
         /\ Start(d[1], d[2], [NoReq EXCEPT !.kind = "mbr", !.ch = d[1], !.count = 1,
                                 !.lba = IF d \in ChsDrives THEN NoSector ELSE 0])
  /\ UNCHANGED <<present, table, found, pc, step, booted>>

\* The number of bytes read is compared with 512, which ata_read_lba always
\* returns; then the signature decides, and garbage may carry one.
BootEntry_Kept == table
BootEntry == [table EXCEPT ![0] = table[step]]
Launch ==
  /\ Done("mbr")
  /\ table' = BootEntry
  /\ booted' = table[step] /\ pc' = "guest"
  /\ EndRequest
  /\ UNCHANGED <<hw, cached, found, step>>
BadSignature ==
  /\ Done("mbr")
  /\ step' = step + 1 /\ EndRequest
  /\ UNCHANGED <<hw, cached, table, found, pc, booted>>
GuestReturns ==
  /\ pc = "guest" /\ req.kind = "none"
  /\ pc' = "boot" /\ step' = step + 1
  /\ UNCHANGED <<hw, cached, table, found, req, buf, failed, booted>>
FailedToBoot ==
  /\ pc = "boot" /\ step = 4
  /\ pc' = "off"
  /\ UNCHANGED <<hw, cached, table, found, step, req, buf, failed, booted>>

\* INT 13h AH=2 and AH=3 on drive 80h.  AH=8 reports info->heads as the largest head
\* number, and the translation counts heads + 1 of them.
Lba_HeadCount(c, h, s) == (c * Heads + h) * Spt + s - 1
Lba(c, h, s) == (c * (Heads + 1) + h) * Spt + s - 1
\* A drive without LBA28 is given the three numbers.  A head number too large
\* for its field runs into the DRV bit above it.
Native(c, h, s) == (c * Heads + h) * Spt + s - 1
Address(d, c, h, s) ==
  IF d \notin ChsDrives THEN Lba(c, h, s)
  ELSE IF h % HeadField < Heads THEN Native(c, h % HeadField, s) ELSE NoSector
Drv(d, h) == cached[d[1]] \/ (d \in ChsDrives /\ h >= HeadField)
Int13Start(kind, c, h, s, n) ==
  /\ pc = "guest" /\ req.kind = "none"
  /\ UNCHANGED cached
  /\ LET d == table[0]
     IN  Start(d[1], Drv(d, h),
               [NoReq EXCEPT !.kind = kind, !.ch = d[1], !.count = n,
                             !.lba = Address(d, c, h, s), !.chs = <<c, h, s>>])
  /\ UNCHANGED <<present, table, found, pc, step, booted>>
Int13Return ==
  /\ Done("read") \/ Done("write")
  /\ EndRequest
  /\ UNCHANGED <<hw, cached, table, found, pc, step, booted>>
-----------------------------------------------------------------------------
Main == ScanDrive \/ ScanDone \/ BootAbsent \/ BootRead \/ Transfer \/ Launch
        \/ BadSignature \/ FailedToBoot \/ Int13Return
Guest == \/ GuestReturns
         \/ \E kind \in {"read", "write"}, n \in Counts, a \in Addresses :
              Int13Start(kind, a[1], a[2], a[3], n)
Next == Main \/ Guest \/ \E c \in Channels : DeviceReady(c) \/ DeviceError(c)

\* The CPU runs, and a drive finishes what it was asked.
Fairness == WF_vars(Main) /\ \A c \in Channels : WF_vars(DeviceReady(c) \/ DeviceError(c))
Spec == Init /\ [][Next]_vars /\ Fairness

-----------------------------------------------------------------------------
\* When the scan is over the table lists, without gaps, only drives that are
\* there, each under its own channel and position: the selection the driver
\* believes in was the real one each time it asked a drive to identify itself.
TableIsHardware ==
  (pc = "boot" /\ booted = NoDrive) =>
    /\ \A i \in 0..3 : table[i] # NoDrive <=> i < found
    /\ \A i \in 0..3 : i < found => table[i] \in present
    /\ \A i, j \in 0..3 : (i < j /\ j < found) => table[i] # table[j]

\* The head number fits the register it goes to.  AH=8 reports one head too many,
\* so that a caller may use number 16 on a drive of 16 heads.
HeadFits == req.chs # <<>> /\ booted \in ChsDrives => req.chs[2] < HeadField

\* A request that the drive took and that met no device error moved exactly the
\* sectors asked for, in order, of the drive asked for: main's own drive for the
\* boot sector, and for INT 13h, which selects nothing, the drive whose boot
\* sector is running; whatever a request for 0 sectors left the drive with.
RequestedSectorsMoved ==
  req.kind # "none" /\ req.taken /\ ~failed /\ HeadFits =>
    LET want == IF req.kind = "mbr" THEN table[step] ELSE booted
    IN  \A i \in DOMAIN buf : buf[i] = <<want, req.lba + i - 1>>

\* No other cylinder, head and sector number within what AH=8 reports stands for
\* the sector an INT 13h request addresses.
ChsIsInjective ==
  req.chs # <<>> /\ req.lba # NoSector /\ HeadFits =>
    \A a \in Chs :
      /\ Address(booted, a[1], a[2], a[3]) = req.lba
      /\ booted \in ChsDrives => a[2] < HeadField
      => a = req.chs

\* Every request returns: the polling loop does not wait for a state the drive
\* never enters.
RequestsReturn == [](req.kind # "none" => <>(req.kind = "none"))
=============================================================================
