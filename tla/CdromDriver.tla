----------------------------- MODULE CdromDriver -----------------------------
(***************************************************************************)
(* The ATAPI driver of stage 2 (bootloader/stage2/src/cdrom.c): cdrom_init *)
(* and cdrom_read_sector, one action per access that the drive or an       *)
(* interrupt handler can observe, interleaved with the drive (external,    *)
(* the PACKET / PIO data-in protocol as the driver uses it) and with the   *)
(* interrupts of IrqLatch.                                                 *)
(***************************************************************************)
EXTENDS IrqLatch

CONSTANTS Lba,         \* logical block addresses callers ask for
          NoSector,    \* buffer contents that are no sector of the disc
          DiskIrq,     \* the boot drive's line: 14 (primary) or 15 (secondary)
          Quirk        \* what drive and board may do beyond the plain protocol

(***************************************************************************)
(* "checkCondition": a command the drive accepted ends with ERR and no     *)
(* data (unit attention, medium error).  "intrDrq": the drive interrupts   *)
(* when it wants the packet.  "slowIrq": the driver may execute on while a *)
(* request travels from the drive through the 8259s to the CPU.            *)
(***************************************************************************)
Quirks == {"checkCondition", "intrDrq", "slowIrq"}

ASSUME DriveAssumption == /\ DiskIrq \in Line \cap {14, 15}
                          /\ NoSector \notin Lba
                          /\ Lba # {}
                          /\ Quirk \subseteq Quirks

VARIABLES pc,          \* the driver's next access
          lba, buf,    \* cdrom_read_sector's arguments: sector, buffer contents
          size,        \* rd_size of the call in progress
          result,      \* what the last call returned
          drive,       \* the drive's protocol state
          cdbLba,      \* the address in the packet the drive last received
          count,       \* byte count registers: "none" (0) or "full" (2048)
          intrq        \* the drive asserts its interrupt line

driverVars == <<pc, lba, buf, size, result>>
driveVars == <<drive, cdbLba, count, intrq>>
vars == <<driverVars, driveVars, latchVars>>

Count == {"none", "full"}
DriveState == {"resetting", "idle", "preparing", "awaitPacket", "working",
               "dataReady", "finishing", "failed"}
InitPc == {"softReset", "resetWait", "signature"}
ReadPc == {"clear", "issue", "pollBusy", "pollDrq", "sendPacket", "wait",
           "readSize", "transfer", "pollEnd"}
Pc == InitPc \cup ReadPc \cup {"idle", "halted"}

\* The status register, as the driver reads it at io_port + 7.
BSY == drive \in {"resetting", "preparing", "working", "finishing"}
DRQ == drive \in {"awaitPacket", "dataReady"}
ERR == drive = "failed"

Init == /\ LatchInit
        /\ pc = "softReset"
        /\ lba \in Lba /\ buf = NoSector
        /\ size = "none" /\ result = "none"
        /\ drive = "idle" /\ cdbLba = lba /\ count = "none" /\ intrq = FALSE

-----------------------------------------------------------------------------
(* The drive and the other devices (external).                             *)

\* INTRQ rises: an edge for the controller unless it was asserted already.
Assert == /\ intrq' = TRUE
          /\ IF intrq THEN UNCHANGED latchVars ELSE Raise(DiskIrq)

DriveResetDone == /\ drive = "resetting"
                  /\ drive' = "idle"
                  /\ UNCHANGED <<cdbLba, count, intrq, latchVars>>

DriveWantsPacket == /\ drive = "preparing"
                    /\ drive' = "awaitPacket"
                    /\ IF "intrDrq" \in Quirk
                       THEN Assert
                       ELSE UNCHANGED <<intrq, latchVars>>
                    /\ UNCHANGED <<cdbLba, count>>

DriveAborts == /\ drive = "preparing"
               /\ drive' = "failed"
               /\ Assert
               /\ UNCHANGED <<cdbLba, count>>

DriveHasData == /\ drive = "working"
                /\ drive' = "dataReady"
                /\ count' = "full"
                /\ Assert
                /\ UNCHANGED cdbLba

DriveChecksCondition == /\ "checkCondition" \in Quirk
                        /\ drive = "working"
                        /\ drive' = "failed"
                        /\ \E c \in Count : count' = c
                        /\ Assert
                        /\ UNCHANGED cdbLba

DriveFinishes == /\ drive = "finishing"
                 /\ drive' = "idle"
                 /\ Assert
                 /\ UNCHANGED <<cdbLba, count>>

DriveStep == /\ \/ DriveResetDone \/ DriveWantsPacket \/ DriveAborts
                \/ DriveHasData \/ DriveChecksCondition \/ DriveFinishes
             /\ UNCHANGED driverVars

\* A line other than the two disk channels interrupts (timer, keyboard).
OtherDevice == /\ \E i \in Line \ {14, 15} : Raise(i)
               /\ UNCHANGED <<driverVars, driveVars>>

\* A handler runs between two accesses of the driver.
Interrupt(i) == Serve(i) /\ UNCHANGED <<driverVars, driveVars>>

-----------------------------------------------------------------------------
(* Accesses of the driver.                                                 *)

\* Reading the status register makes the drive release INTRQ.
ReadStatus == /\ intrq' = FALSE
              /\ \/ UNCHANGED latchVars
                 \/ intrq /\ Withdraw(DiskIrq)
              /\ UNCHANGED <<drive, cdbLba, count>>

Goto(from, to) == pc = from /\ pc' = to

\* cdrom_soft_reset pulses SRST; the drive resets and raises no interrupt.
SoftReset == /\ Goto("softReset", "resetWait")
             /\ drive' = "resetting"
             /\ intrq' = FALSE
             /\ UNCHANGED <<lba, buf, size, result, cdbLba, count, latchVars>>

\* It polls the alternate status register, which leaves INTRQ alone.
ResetWait == /\ ~BSY
             /\ Goto("resetWait", "signature")
             /\ UNCHANGED <<lba, buf, size, result, driveVars, latchVars>>

\* Only PATAPI_ID is supported; on anything else main halts.
CheckSignature == /\ \/ Goto("signature", "idle")
                     \/ Goto("signature", "halted")
                  /\ UNCHANGED <<lba, buf, size, result, driveVars, latchVars>>

\* cdrom_search or main asks for sector l, into the buffer of the last call
\* or into memory that holds no sector yet.
Call(l) == /\ Goto("idle", "clear")
           /\ lba' = l
           /\ buf' \in {buf, NoSector}
           /\ UNCHANGED <<size, result, driveVars, latchVars>>

ClearDataReady == /\ Goto("clear", "issue")
                  /\ ClearReady
                  /\ UNCHANGED <<lba, buf, size, result, driveVars>>

\* Selects the drive, sets the byte count limit, writes the PACKET command.
IssuePacket == /\ Goto("issue", "pollBusy")
               /\ drive' = "preparing"
               /\ count' = "full"
               /\ intrq' = FALSE
               /\ UNCHANGED <<lba, buf, size, result, cdbLba, latchVars>>

PollBusy == /\ ReadStatus
            /\ IF BSY THEN pc = "pollBusy" /\ UNCHANGED pc
                      ELSE Goto("pollBusy", "pollDrq")
            /\ UNCHANGED <<lba, buf, size, result>>

\* Slip: the loop waits for DRQ whatever the drive answers.
PollDrqOnly == /\ ReadStatus
               /\ IF ~DRQ THEN pc = "pollDrq" /\ UNCHANGED pc
                          ELSE Goto("pollDrq", "sendPacket")
               /\ UNCHANGED <<lba, buf, size, result>>

PollDrq == /\ ReadStatus
           /\ \/ ~DRQ /\ ~ERR /\ pc = "pollDrq" /\ UNCHANGED <<pc, result>>
              \/ ERR /\ Goto("pollDrq", "idle") /\ result' = "none"
              \/ DRQ /\ Goto("pollDrq", "sendPacket") /\ UNCHANGED result
           /\ UNCHANGED <<lba, buf, size>>

\* Slip: the address enters a static packet only after the packet is sent.
SendOldPacket == /\ Goto("sendPacket", "wait")
                 /\ drive' = "working"
                 /\ UNCHANGED <<lba, buf, size, result, cdbLba, count, intrq,
                                latchVars>>

SendPacket == /\ Goto("sendPacket", "wait")
              /\ drive' = "working"
              /\ cdbLba' = lba
              /\ UNCHANGED <<lba, buf, size, result, count, intrq, latchVars>>

\* Slip: the driver goes on as soon as the packet is out.
DoNotWait == /\ Goto("wait", "readSize")
             /\ UNCHANGED <<lba, buf, size, result, driveVars, latchVars>>

\* Slip: the waiting loop reads the status register, as the others do.
WaitPollingStatus == /\ ReadStatus
                     /\ IF ready = {} THEN pc = "wait" /\ UNCHANGED pc
                                      ELSE Goto("wait", "readSize")
                     /\ UNCHANGED <<lba, buf, size, result>>

WaitReady == /\ ready # {}
             /\ Goto("wait", "readSize")
             /\ UNCHANGED <<lba, buf, size, result, driveVars, latchVars>>

\* The byte count registers hold nothing defined while the drive is busy.
ReadSize == /\ Goto("readSize", "transfer")
            /\ size' \in IF BSY THEN Count ELSE {count}
            /\ UNCHANGED <<lba, buf, result, driveVars, latchVars>>

\* insw of rd_size / 2 words from the data register. Only a drive that has
\* DRQ up for a sector provides it; otherwise the words are meaningless.
Transfer == /\ Goto("transfer", "pollEnd")
            /\ LET sector == size = "full" /\ drive = "dataReady" IN
                 /\ buf' = CASE size = "none" -> buf
                             [] sector -> cdbLba
                             [] OTHER -> NoSector
                 /\ drive' = IF sector THEN "finishing" ELSE drive
            /\ UNCHANGED <<lba, size, result, cdbLba, count, intrq, latchVars>>

\* Slip: mask 0x08 for 0x88, the driver does not wait for BSY to fall.
PollEndDrqOnly == /\ ReadStatus
                  /\ IF DRQ
                     THEN pc = "pollEnd" /\ UNCHANGED <<pc, result>>
                     ELSE Goto("pollEnd", "idle") /\ result' = size
                  /\ UNCHANGED <<lba, buf, size>>

PollEnd == /\ ReadStatus
           /\ IF BSY \/ DRQ
              THEN pc = "pollEnd" /\ UNCHANGED <<pc, result>>
              ELSE Goto("pollEnd", "idle") /\ result' = size
           /\ UNCHANGED <<lba, buf, size>>

\* Interrupts are enabled throughout: unless the board is slow, a disk request
\* is handled before the driver's next access.
Prompt == "slowIrq" \in Quirk \/ pending \cap {14, 15} = {}

DriverStep ==
  /\ Prompt
  /\ \/ SoftReset \/ ResetWait \/ CheckSignature
     \/ ClearDataReady \/ IssuePacket \/ PollBusy \/ PollDrq \/ SendPacket
     \/ WaitReady \/ ReadSize \/ Transfer \/ PollEnd

Caller == Prompt /\ \E l \in Lba : Call(l)

Next == \/ DriveStep \/ OtherDevice \/ DriverStep \/ Caller
        \/ \E i \in Line : Interrupt(i)

(***************************************************************************)
(* The drive answers, every latched request is handled in the end (shown   *)
(* for the two controllers in BootInterrupts), and the main code runs    *)
(* whenever no handler does. Nobody has to call the driver.                *)
(***************************************************************************)
Fairness == /\ WF_vars(DriveStep) /\ WF_vars(DriverStep)
            /\ \A i \in Line : WF_vars(Interrupt(i))

Spec == Init /\ [][Next]_vars /\ Fairness

-----------------------------------------------------------------------------
(* Properties.                                                             *)

\* Every variable stays in its range; in particular data_ready only ever
\* holds the bits of the two disk channels (interrupt.c:131-145).
TypeOK == /\ pc \in Pc
          /\ lba \in Lba /\ cdbLba \in Lba
          /\ buf \in Lba \cup {NoSector}
          /\ size \in Count /\ result \in Count /\ count \in Count
          /\ drive \in DriveState
          /\ intrq \in BOOLEAN
          /\ pending \subseteq Line /\ ready \subseteq Bit

\* A call that returned a size left the sector it was asked for in the
\* buffer (cdrom.h:47-48), whatever interrupts arrived in the meantime.
SectorIntact == pc = "idle" /\ result = "full" => buf = lba

\* Between two calls nothing of the last one is left: the drive is not in the
\* middle of a command, and none of its interrupts is still under way to
\* wake the next call's wait at cdrom.c:198 before that call's data is there.
QuietBetweenCalls ==
  pc \in {"idle", "clear"} =>
      drive \in {"idle", "failed"} /\ DiskIrq \notin pending

\* The interrupt a call waits for is never lost: once the drive has answered
\* the packet, data_ready is set or the interrupt that sets it is on its way,
\* because data_ready is cleared before the command is issued (cdrom.c:165).
NoLostWakeup ==
  pc = "wait" /\ drive \in {"dataReady", "failed"}
    => ready # {} \/ DiskIrq \in pending

\* Every call returns: none of the polling loops of cdrom_read_sector (lines
\* 179, 183, 198, 205) goes on forever when the drive answers.
CallReturns == pc = "clear" ~> pc = "idle"

\* cdrom_read_sector implements the atomic read its callers rely on.
Reader == INSTANCE SectorRead WITH
  phase <- CASE pc \in InitPc \cup {"idle", "halted"} -> "idle"
             [] pc = "pollEnd" -> "done"
             [] OTHER -> "busy",
  result <- IF pc = "pollEnd" THEN size ELSE result
ImplementsSectorRead == Reader!ReadSpec
=============================================================================
