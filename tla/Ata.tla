--------------------------------- MODULE Ata ---------------------------------
(***************************************************************************)
(* The primary disk: the PIO driver of src/drivers/ata.c writing sectors,  *)
(* the drive it talks to, and the power they share.                        *)
(*                                                                         *)
(* disk is what is on the platters, cache what the drive has accepted and  *)
(* not yet written there.  dev is the drive: its status ("ready", "busy",  *)
(* "drq", "err", or "dead" for a drive that stays busy for ever), the      *)
(* command it works on, the sector to come next, how many are missing, the *)
(* sector it has received and not stored, and the sectors it could not     *)
(* write.  io is the driver's call in progress.  waited says whether the   *)
(* five seconds of ata_status_wait are over; the timer interrupt, which    *)
(* advances the clock, is enabled during system calls.                     *)
(*                                                                         *)
(* acked and unread are history: what the driver reported as written, and  *)
(* those of the sectors whose failure or delay is in a status the driver   *)
(* does not read.                                                          *)
(***************************************************************************)
EXTENDS Integers, Sequences, FiniteSets, Functions, TLC

CONSTANTS
    LBA28,         \* sectors a 28-bit address reaches
    MaxTrouble     \* bound: faults, delays, failures and power cuts together

VARIABLES disk, cache, dev, io, waited, trouble, acked, unread

ataVars == <<disk, cache, dev, io, waited, trouble, acked, unread>>

NoIo == [pc |-> "idle", lba |-> 0, data |-> <<>>, sent |-> 0, rc |-> 0]
ReadyDrive == [st |-> "ready", op |-> "none", lba |-> 0, left |-> 0, got |-> <<>>, bad |-> {}]

\* What reading a sector returns.
Current == cache @@ disk

Sectors(lba, data) == lba..(lba + Len(data) - 1)

-----------------------------------------------------------------------------
(* Identification.  id is what IDENTIFY returns.                           *)

ata_identify_chs_capacity(id) == id.cylinders * id.heads * id.spt

ata_identify(id) ==
    LET wide == id.lba48 /\ id.cap48 # 0
        sectors == IF wide THEN id.cap48
                   ELSE IF id.cap28 # 0 THEN id.cap28
                   ELSE ata_identify_chs_capacity(id)
    IN  [exists |-> id.present /\ sectors # 0,
         sectors |-> IF id.present THEN sectors ELSE 0,
         lba48 |-> wide]

-----------------------------------------------------------------------------
(* The waits.  BSY is clear and DRDY set in every state but busy and dead, *)
(* DRQ is set in drq alone.                                                *)

ata_wait_ready == dev.st \notin {"busy", "dead"}
ata_wait_drq == dev.st = "drq"

\* Mutant: the wait has no limit.
NeverExpires == FALSE

\* ata_status_wait gives up, and returns a status that is not the one
\* waited for.
Expired == waited

Awaited ==
    \/ io.pc \in {"select", "flush"} /\ ata_wait_ready
    \/ io.pc = "drq" /\ ata_wait_drq

\* Time passes while the driver waits.  A drive that would still answer is
\* overtaken only as often as MaxTrouble allows.
Tick ==
    /\ io.pc \in {"select", "drq", "flush"}
    /\ ~Awaited /\ ~waited
    /\ waited' = TRUE
    /\ IF dev.st = "busy"
       THEN trouble < MaxTrouble /\ trouble' = trouble + 1
       ELSE UNCHANGED trouble
    /\ UNCHANGED <<disk, cache, dev, io, acked, unread>>

-----------------------------------------------------------------------------
(* ata_write_sectors.                                                      *)

\* The call: refused, or on its way to the drive.  sys_disk_write has the
\* same conditions, and a limit of 255 sectors the callers keep.
ata_write_sectors(ata, lba, data) ==
    /\ io.pc \in {"idle", "done"}
    /\ io' = IF ~ata.exists \/ lba + Len(data) > ata.sectors
             THEN [NoIo EXCEPT !.pc = "done", !.rc = -1]
             ELSE [NoIo EXCEPT !.pc = "select", !.lba = lba, !.data = data]
    /\ waited' = FALSE
    /\ UNCHANGED <<disk, cache, dev, trouble, acked, unread>>

Fail == io' = [io EXCEPT !.pc = "done", !.rc = -1]

\* Bound: the drive's cache holds the sectors of one command.
SelectAndCommand ==
    /\ io.pc = "select"
    /\ \/ /\ ata_wait_ready
          /\ dev' = [st |-> "busy", op |-> "write", lba |-> io.lba % LBA28,
                     left |-> Len(io.data), got |-> <<>>, bad |-> {}]
          /\ io' = [io EXCEPT !.pc = "drq"]
          /\ acked' = Restrict(acked, DOMAIN acked \ Sectors(io.lba, io.data))
          /\ disk' = Current /\ cache' = <<>>
       \/ /\ ~ata_wait_ready /\ Expired
          /\ Fail /\ UNCHANGED <<dev, acked, disk, cache>>
    /\ waited' = FALSE
    /\ UNCHANGED <<trouble, unread>>

\* Behind the last sector comes the flush command, which a drive that is
\* still busy with that sector does not take.
Flushed(d) == IF d.st = "busy" THEN d ELSE [d EXCEPT !.st = "busy", !.op = "flush"]

SendSector ==
    /\ io.pc = "drq"
    /\ ata_wait_drq
    /\ dev' = [dev EXCEPT !.st = "busy", !.got = <<io.data[io.sent + 1]>>]
    /\ io' = [io EXCEPT !.sent = @ + 1, !.pc = IF io.sent + 1 = Len(io.data) THEN "last" ELSE "drq"]
    /\ waited' = FALSE
    /\ UNCHANGED <<disk, cache, trouble, acked, unread>>

\* Mutant: takes the wait's end for the drive's readiness.
SendsAnyway ==
    /\ io.pc = "drq"
    /\ ~ata_wait_drq /\ Expired
    /\ io' = [io EXCEPT !.sent = @ + 1, !.pc = IF io.sent + 1 = Len(io.data) THEN "last" ELSE "drq"]
    /\ waited' = FALSE
    /\ UNCHANGED <<disk, cache, dev, trouble, acked, unread>>

DrqExpires ==
    /\ io.pc = "drq"
    /\ ~ata_wait_drq /\ Expired
    /\ Fail
    /\ UNCHANGED <<disk, cache, dev, waited, trouble, acked, unread>>

FlushCommand ==
    /\ io.pc = "last"
    /\ io' = [io EXCEPT !.pc = "flush"]
    /\ dev' = IF dev.st = "dead" THEN dev ELSE Flushed(dev)
    /\ waited' = FALSE
    /\ UNCHANGED <<disk, cache, trouble, acked, unread>>

\* The result of the last wait is not looked at, nor is the drive's error
\* bit.  What the drive has failed to write, or still holds unstored, is
\* unread.
WriteReturns ==
    /\ io.pc = "flush"
    /\ ata_wait_ready \/ Expired
    /\ io' = [io EXCEPT !.pc = "done", !.rc = 0]
    /\ acked' = [s \in Sectors(io.lba, io.data) |-> io.data[s - io.lba + 1]] @@ acked
    /\ unread' = (unread \ Sectors(io.lba, io.data)) \cup dev.bad
                   \cup IF dev.got = <<>> THEN {} ELSE {dev.lba}
    /\ UNCHANGED <<disk, cache, dev, waited, trouble>>

-----------------------------------------------------------------------------
(* The drive.                                                              *)

\* Asks for the first sector, stores the one it received and asks for the
\* next, or writes its cache out.
DriveWorks ==
    /\ dev.st = "busy"
    /\ IF dev.op = "flush"
       THEN /\ disk' = Current /\ cache' = <<>>
            /\ dev' = [dev EXCEPT !.st = "ready", !.op = "none"]
            /\ UNCHANGED unread
       ELSE IF dev.got = <<>>
       THEN /\ dev' = [dev EXCEPT !.st = "drq"]
            /\ UNCHANGED <<disk, cache, unread>>
       ELSE /\ cache' = (dev.lba :> dev.got[1]) @@ cache
            /\ dev' = [dev EXCEPT !.got = <<>>, !.lba = @ + 1, !.left = @ - 1,
                                  !.st = IF dev.left = 1 THEN "ready" ELSE "drq",
                                  !.op = IF dev.left = 1 THEN "none" ELSE @]
            /\ unread' = unread \ {dev.lba}
            /\ UNCHANGED disk
    /\ UNCHANGED <<io, waited, trouble, acked>>

\* The drive gives the command up with its error bit set.
DriveFaults ==
    /\ dev.st = "busy" /\ dev.op = "write"
    /\ trouble < MaxTrouble
    /\ trouble' = trouble + 1
    /\ dev' = [dev EXCEPT !.st = "err", !.op = "none", !.got = <<>>,
                          !.bad = IF dev.got = <<>> THEN @ ELSE @ \cup {dev.lba}]
    /\ UNCHANGED <<disk, cache, io, waited, acked, unread>>

DriveDies ==
    /\ dev.st = "busy"
    /\ trouble < MaxTrouble
    /\ trouble' = trouble + 1
    /\ dev' = [dev EXCEPT !.st = "dead"]
    /\ UNCHANGED <<disk, cache, io, waited, acked, unread>>

\* The power goes.  Of its cache the drive has written all or nothing;
\* what it lost was not flushed.
PowerCut ==
    /\ trouble < MaxTrouble
    /\ trouble' = trouble + 1
    /\ \E kept \in {DOMAIN cache, {}} :
          /\ disk' = Restrict(cache, kept) @@ disk
          /\ acked' = Restrict(acked, DOMAIN acked \ (DOMAIN cache \ kept))
    /\ cache' = <<>>
    /\ dev' = ReadyDrive
    /\ io' = NoIo
    /\ waited' = FALSE
    /\ UNCHANGED unread

-----------------------------------------------------------------------------
\* A write the driver reported as done can be read back, through whatever
\* the drive, the installer and the power did since, except where the
\* drive refused or delayed the last sector of a command, which
\* ata_write_sectors does not notice, and except what a power cut took
\* from the drive's cache.
AckedStays ==
    \E d \in {Current} : \A s \in DOMAIN acked : s \in unread \/ d[s] = acked[s]

=============================================================================
