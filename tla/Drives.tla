------------------------------ MODULE Drives -------------------------------
(***************************************************************************)
(* How the kernel finds its disks, their partitions and the root file      *)
(* system at boot (ide.c, disk.c, partitions.c, drive.c, fs.c).  Nothing   *)
(* else runs yet.  The loops over disks, over partition entries and over   *)
(* drives have a step per turn; any transfer may fail.                     *)
(*                                                                         *)
(*   machine  the hardware: of each IDE bus the four places for a disk     *)
(*   mutex    current_count of the semaphore of each disk                  *)
(*   drives   the list of drives, its head first                           *)
(*   fss      the list of file systems, its head first                     *)
(*   boot     the loop that boot is in and its local variables             *)
(*   errors   how many transfers the devices have failed                   *)
(***************************************************************************)
EXTENDS Integers, SequencesExt

CONSTANTS
  Machine,   \* the machines that are considered
  None,      \* no disk
  SignBit,   \* 2^31
  Word,      \* 2^64
  MaxErrors  \* bound on the transfers that fail

VARIABLES machine, mutex, drives, fss, boot, errors

bootVars == <<machine, mutex, drives, fss, boot, errors>>

DRIVE_TYPE_RAW == "raw"

DRIVE_TYPE_MBR == "mbr"

DRIVE_TYPE_GPT == "gpt"

DRIVE_TYPE_FS == "fs"

\* The drives the IDE driver finds, by bus, channel and place on the channel.
ide_refresh_disks(m) ==
  LET place(n) == m[((n - 1) \div 4) + 1][((n - 1) % 4) + 1]
      found[n \in 0 .. 4 * Len(m)] ==
        IF n = 0 THEN <<>> ELSE
        IF place(n) = None THEN found[n - 1] ELSE Append(found[n - 1], place(n))
  IN  found[4 * Len(m)]

Ide == ide_refresh_disks(machine)

\* The sector_count of a disk.
SectorCount(dev) == IF dev.lba48 # 0 THEN dev.lba48 ELSE dev.lba28

(***************************************************************************)
(* What is on a disk: whether there is a GPT, the entries of the MBR, at   *)
(* which sectors an ext2 file system starts, whose superblock is two       *)
(* sectors behind, and which of these have group counts that do not match. *)
(***************************************************************************)
Disk == [lba28 : Nat, lba48 : Nat, gpt : BOOLEAN, fs : SUBSET Nat, bad : SUBSET Nat,
         mbr : [1 .. 4 -> [used : BOOLEAN, start : 0 .. 2 * SignBit - 1,
                           count : 0 .. 2 * SignBit - 1]]]

\* A disk has the sectors that check_drive() reads, and far fewer than there are
\* 64-bit numbers.
IsDisk(dev) ==
  /\ dev \in Disk
  /\ SectorCount(dev) > 2
  /\ 2 * SectorCount(dev) < Word - SignBit
  /\ \A s \in dev.fs : s + 2 < SectorCount(dev)

ASSUME DrivesAssumption ==
  /\ MaxErrors \in Nat
  /\ SignBit \in Nat \ {0} /\ Word \in Nat /\ 2 * SignBit <= Word
  /\ \A m \in Machine :
       /\ m \in Seq([1 .. 4 -> Disk \cup {None}])
       /\ \A b \in DOMAIN m : \A s \in 1 .. 4 : m[b][s] # None => IsDisk(m[b][s])

-----------------------------------------------------------------------------
\* The sum of two 64-bit numbers.
Plus(a, b) == IF a + b < Word THEN a + b ELSE a + b - Word

\* ide_pio_read48() and ide_pio_write48(): ide_pio_poll() may report an error.
ide_pio(dev, lba, amount) ==
  IF dev.lba48 < Plus(lba, amount) THEN {"refused"} ELSE {"ok", "error"}

(***************************************************************************)
(* The outcomes of drive_read_sectors() and drive_write_sectors().  The    *)
(* range check does not add the starting sector.                           *)
(***************************************************************************)
drive_sectors(dev, start, lba, amount) ==
  IF lba + amount > SectorCount(dev) THEN {"range"} ELSE
  IF amount = 0 THEN {"empty"} ELSE ide_pio(dev, Plus(start, lba), amount)

ErrorKeepsSemaphore_Mutant(outcome) == IF outcome \in {"range", "empty", "error"} THEN 1 ELSE 0

\* Two of the outcomes are returns that do not release the semaphore.
Held(outcome) == IF outcome \in {"range", "empty"} THEN 1 ELSE 0

\* What check_drive() may say about the drive at start: its type, and what it
\* leaves of the semaphore and of the device.
check_drive(dev, start) ==
  LET first == drive_sectors(dev, start, 1, 1)
      second == drive_sectors(dev, start, 2, 1)
      Found(o) == IF o = "ok" /\ start \in dev.fs THEN DRIVE_TYPE_FS ELSE DRIVE_TYPE_MBR
  IN  {[type |-> DRIVE_TYPE_RAW, last |-> o] : o \in first \ {"ok"}}
        \cup (IF "ok" \notin first THEN {}
              ELSE IF dev.gpt /\ start = 0 THEN {[type |-> DRIVE_TYPE_GPT, last |-> "ok"]}
              ELSE {[type |-> Found(o), last |-> o] : o \in second})

\* A transfer needs the semaphore; only MaxErrors of them fail.
Transferred(i, outcome) ==
  /\ mutex[i] = 0
  /\ mutex' = [mutex EXCEPT ![i] = Held(outcome)]
  /\ outcome = "error" => errors < MaxErrors
  /\ errors' = IF outcome = "error" THEN errors + 1 ELSE errors

Drive(i, start, count, type) == [dev |-> i, start |-> start, count |-> count, type |-> type]

IsValid(d) ==
  LET all == SectorCount(Ide[d.dev])
  IN  d.start <= all /\ d.count <= all /\ d.count # 0 /\ d.start + d.count <= all

RegisterAtEnd_Mutant(d) == Append(drives, d)

register_drive(d) == <<d>> \o drives

-----------------------------------------------------------------------------
\* init_ide() has filled the list of IDE drives; refresh_disks() is called
\* first by init_disk() and then by init_fs().
BootInit ==
  /\ machine \in Machine
  /\ mutex = [i \in DOMAIN Ide |-> 0]
  /\ drives = <<>> /\ fss = <<>> /\ errors = 0
  /\ boot = [at |-> IF Ide = <<>> THEN "failed" ELSE "disk", pass |-> 1, i |-> 1]

\* register_disk() and the start of register_drives(): what is on the disk?
register_disk ==
  /\ boot.at = "disk" /\ boot.i <= Len(Ide)
  /\ \E c \in check_drive(Ide[boot.i], 0) :
       /\ Transferred(boot.i, c.last)
       /\ boot' = [at |-> IF c.type = DRIVE_TYPE_MBR THEN "mbr" ELSE "whole",
                   pass |-> boot.pass, i |-> boot.i, type |-> c.type]
  /\ UNCHANGED <<machine, drives, fss>>

\* drive_parse_mbr() reads the sector.  Its error code is not 0, and is taken
\* for a number of partitions.
ReadMbr ==
  /\ boot.at = "mbr"
  /\ \E o \in drive_sectors(Ide[boot.i], 0, 0, 1) :
       /\ Transferred(boot.i, o)
       /\ boot' = IF o = "ok" THEN [at |-> "entry", pass |-> boot.pass, i |-> boot.i,
                                    type |-> boot.type, e |-> 1, found |-> 0]
                              ELSE [boot EXCEPT !.at = "whole"]
  /\ UNCHANGED <<machine, drives, fss>>

\* The four bytes of a number are put together as a signed int, which is then
\* widened: a number from 2^31 on becomes one that is beyond every disk.
Widened(n) == IF n < SignBit THEN n ELSE n + (Word - 2 * SignBit)

\* What drive_parse_mbr() makes of an entry.
MbrEntry(dev, e) ==
  [used |-> dev.mbr[e].used, start |-> Widened(dev.mbr[e].start),
   count |-> Widened(dev.mbr[e].count)]

\* A turn of drive_parse_mbr().  An invalid partition ends the loop; those
\* before it stay registered.
ParseEntry ==
  LET dev == Ide[boot.i]
      entry == MbrEntry(dev, boot.e)
  IN  /\ boot.at = "entry" /\ boot.e <= 4
      /\ IF ~entry.used
         THEN /\ boot' = [boot EXCEPT !.e = @ + 1]
              /\ UNCHANGED <<mutex, errors, drives>>
         ELSE \E c \in check_drive(dev, entry.start) :
                LET d == Drive(boot.i, entry.start, entry.count, c.type)
                IN  /\ Transferred(boot.i, c.last)
                    /\ IF IsValid(d)
                       THEN /\ drives' = register_drive(d)
                            /\ boot' = [boot EXCEPT !.e = @ + 1, !.found = @ + 1]
                       ELSE /\ boot' = [boot EXCEPT !.at = "whole", !.type = DRIVE_TYPE_RAW]
                            /\ UNCHANGED drives
      /\ UNCHANGED <<machine, fss>>

ParsedMbr ==
  /\ boot.at = "entry" /\ boot.e > 4
  /\ boot' = [boot EXCEPT !.at = "whole", !.type = IF boot.found = 0 THEN DRIVE_TYPE_RAW ELSE @]
  /\ UNCHANGED <<machine, mutex, drives, fss, errors>>

\* The end of register_drives(): the disk itself is a drive, too.
register_drives ==
  /\ boot.at = "whole"
  /\ drives' = register_drive(Drive(boot.i, 0, SectorCount(Ide[boot.i]), boot.type))
  /\ boot' = [at |-> "disk", pass |-> boot.pass, i |-> boot.i + 1]
  /\ UNCHANGED <<machine, mutex, fss, errors>>

\* The second refresh_disks() frees the lists and makes them, and the
\* semaphores, anew.
init_fs ==
  /\ boot.at = "disk" /\ boot.i > Len(Ide)
  /\ boot' = IF boot.pass = 1 THEN [at |-> "disk", pass |-> 2, i |-> 1]
                              ELSE [at |-> "fs", pass |-> 2, i |-> 1]
  /\ drives' = IF boot.pass = 1 THEN <<>> ELSE drives
  /\ mutex' = IF boot.pass = 1 THEN [i \in DOMAIN Ide |-> 0] ELSE mutex
  /\ UNCHANGED <<machine, fss, errors>>

\* A turn of init_fs(): register_fs() reads the superblock again.
register_fs ==
  LET d == drives[boot.i]
      dev == Ide[d.dev]
  IN  /\ boot.at = "fs" /\ boot.i <= Len(drives)
      /\ boot' = [boot EXCEPT !.i = @ + 1]
      /\ IF d.type # DRIVE_TYPE_FS
         THEN UNCHANGED <<mutex, errors, fss>>
         ELSE \E o \in drive_sectors(dev, d.start, 2, 1) :
                /\ Transferred(d.dev, o)
                /\ fss' = IF o = "ok" /\ d.start \in dev.fs \ dev.bad THEN <<d>> \o fss ELSE fss
      /\ UNCHANGED <<machine, drives>>

\* fs_set_root() mounts the head of the list; without any the kernel stops.
fs_set_root ==
  /\ boot.at = "fs" /\ boot.i > Len(drives)
  /\ boot' = [boot EXCEPT !.at = IF fss = <<>> THEN "failed" ELSE "up"]
  /\ UNCHANGED <<machine, mutex, drives, fss, errors>>

Boot ==
  \/ register_disk \/ ReadMbr \/ ParseEntry \/ ParsedMbr \/ register_drives
  \/ init_fs \/ register_fs \/ fs_set_root

root_fs == Head(fss)

-----------------------------------------------------------------------------
\* The partitions of a disk that are registered if no transfer fails: the
\* entries in use before the first one that does not fit on the disk.
Partitions(i) ==
  LET dev == Ide[i]
      Part(e) == Drive(i, MbrEntry(dev, e).start, MbrEntry(dev, e).count, "")
      fits(e) == dev.mbr[e].used => IsValid(Part(e))
  IN  {e \in 1 .. 4 : dev.mbr[e].used /\ \A f \in 1 .. e : fits(f)}

\* The file systems on a disk, in the order of the partition table.
FsOn(i) ==
  LET dev == Ide[i]
      start(e) == MbrEntry(dev, e).start
      part(e) == IF e \in Partitions(i) /\ start(e) \in dev.fs \ dev.bad
                 THEN <<[dev |-> i, start |-> start(e)]>> ELSE <<>>
  IN  IF dev.lba48 = 0 \/ dev.gpt THEN <<>>
      ELSE IF 0 \in dev.fs THEN (IF 0 \in dev.bad THEN <<>> ELSE <<[dev |-> i, start |-> 0]>>)
      ELSE part(1) \o part(2) \o part(3) \o part(4)

(***************************************************************************)
(* Unless a device fails, boot finds every ext2 file system on a disk that *)
(* has LBA48 and no GPT once, although refresh_disks() runs twice, and the *)
(* root is the first of them in the order of disks and partitions: the two *)
(* lists that are built from the front undo each other (disk.c,            *)
(* register_drive, and fs.c, register_fs); without any the kernel does not *)
(* come up.  Not found are those behind a partition that does not fit, and *)
(* in or behind one that starts at sector 2^31 or later or is as large.    *)
(***************************************************************************)
FsFound ==
  boot.at \in {"up", "failed"} /\ errors = 0
    => [x \in DOMAIN fss |-> [dev |-> fss[x].dev, start |-> fss[x].start]]
         = FlattenSeq([i \in DOMAIN Ide |-> FsOn(i)])

=============================================================================
