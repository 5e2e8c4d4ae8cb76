------------------------- MODULE CdromDriverProofs -------------------------
(***************************************************************************)
(* Proofs about CdromDriver, for any set of sectors and lines: types and   *)
(* the wakeup for every drive and board, the other safety properties for   *)
(* a drive that keeps to the plain protocol on a prompt board.             *)
(***************************************************************************)
EXTENDS CdromDriver, TLAPS

(***************************************************************************)
(* Why the wakeup is not lost: when the packet is sent the drive's line is *)
(* low, so that its answer is an edge the controller latches.              *)
(***************************************************************************)
WakeupInv ==
  /\ TypeOK
  /\ pc \in {"pollBusy", "pollDrq"}
        => drive \in {"preparing", "awaitPacket", "failed"}
  /\ pc = "sendPacket" => drive = "awaitPacket" /\ ~intrq
  /\ pc = "wait" => drive \in {"working", "dataReady", "failed"}
  /\ pc = "wait" /\ drive = "working" => ~intrq
  /\ NoLostWakeup

(***************************************************************************)
(* What holds at each access when Quirk is empty.                          *)
(***************************************************************************)
Resting == drive \in {"idle", "failed"} /\ DiskIrq \notin pending
Unanswered == ready = {} /\ DiskIrq \notin pending

DriveInv ==
  /\ pc \in InitPc => result = "none"
  /\ pc = "softReset" => drive = "idle" /\ DiskIrq \notin pending
  /\ pc = "resetWait"
        => drive \in {"resetting", "idle"} /\ DiskIrq \notin pending
  /\ pc \in {"signature", "halted"} => drive = "idle" /\ DiskIrq \notin pending
  /\ pc \in {"idle", "clear", "issue"} => Resting
  /\ pc = "issue" => ready = {}
  /\ pc \in {"pollBusy", "pollDrq"}
        => drive \in {"preparing", "awaitPacket", "failed"}
  /\ pc \in {"pollBusy", "pollDrq"} /\ drive # "failed" => Unanswered
  /\ pc = "sendPacket" => drive = "awaitPacket" /\ Unanswered
  /\ pc = "wait" => drive \in {"working", "dataReady"} /\ cdbLba = lba
  /\ pc = "wait" /\ drive = "working" => Unanswered
  /\ pc = "wait" /\ drive = "dataReady" => count = "full"
  /\ pc \in {"readSize", "transfer"}
        => drive = "dataReady" /\ cdbLba = lba /\ count = "full"
  /\ pc \in {"transfer", "pollEnd"} => size = "full"
  /\ pc = "pollEnd" => drive \in {"finishing", "idle"} /\ buf = lba

\* No request comes from the channel without the drive, and the latched one
\* of the drive is still asserted.
LineInv == /\ pending \cap {14, 15} \subseteq {DiskIrq}
           /\ DiskIrq \in pending => intrq

IInv == TypeOK /\ DriveInv /\ LineInv /\ SectorIntact

-----------------------------------------------------------------------------
USE DEF latchVars, driverVars, driveVars, vars

LEMMA TypeInit == Init => TypeOK
  BY DriveAssumption DEF Init, LatchInit, TypeOK, Pc, InitPc, ReadPc, Count,
     DriveState

LEMMA TypeNext == TypeOK /\ [Next]_vars => TypeOK'
<1> SUFFICES ASSUME TypeOK, [Next]_vars PROVE TypeOK'
  OBVIOUS
<1> USE DriveAssumption, LineAssumption
    DEF TypeOK, Pc, InitPc, ReadPc, Count, DriveState, Bit
<1>1. CASE DriveStep
  BY <1>1 DEF DriveStep, DriveResetDone, DriveWantsPacket, DriveAborts,
     DriveHasData, DriveChecksCondition, DriveFinishes, Assert, Raise
<1>2. CASE OtherDevice
  BY <1>2 DEF OtherDevice, Raise
<1>3. ASSUME NEW i \in Line, Interrupt(i) PROVE TypeOK'
  <2>1. /\ UNCHANGED <<driverVars, driveVars>>
        /\ pending' \subseteq pending /\ ready' = ready \cup DiskBit(i)
    BY <1>3 DEF Interrupt, Serve
  <2>2. ready' \subseteq Bit
    BY <2>1 DEF DiskBit
  <2> QED
    BY <2>1, <2>2 DEF driverVars, driveVars
<1>4. CASE DriverStep
  <2>1. CASE SoftReset
    BY <2>1 DEF SoftReset, Goto
  <2>2. CASE ResetWait
    BY <2>2 DEF ResetWait, Goto
  <2>3. CASE CheckSignature
    BY <2>3 DEF CheckSignature, Goto
  <2>4. CASE ClearDataReady
    BY <2>4 DEF ClearDataReady, ClearReady, Goto
  <2>5. CASE IssuePacket
    BY <2>5 DEF IssuePacket, Goto
  <2>6. CASE PollBusy
    BY <2>6 DEF PollBusy, ReadStatus, Withdraw, DiskBit, Goto
  <2>7. CASE PollDrq
    BY <2>7 DEF PollDrq, ReadStatus, Withdraw, DiskBit, Goto
  <2>8. CASE SendPacket
    BY <2>8 DEF SendPacket, Goto
  <2>9. CASE WaitReady
    BY <2>9 DEF WaitReady, Goto
  <2>10. CASE ReadSize
    BY <2>10 DEF ReadSize, Goto
  <2>11. CASE Transfer
    BY <2>11 DEF Transfer, Goto
  <2>12. CASE PollEnd
    BY <2>12 DEF PollEnd, ReadStatus, Withdraw, DiskBit, Goto
  <2> QED
    BY <1>4, <2>1, <2>2, <2>3, <2>4, <2>5, <2>6, <2>7, <2>8, <2>9, <2>10,
       <2>11, <2>12 DEF DriverStep
<1>5. CASE Caller
  BY <1>5 DEF Caller, Call, Goto
<1>6. CASE UNCHANGED vars
  BY <1>6
<1> QED
  BY <1>1, <1>2, <1>3, <1>4, <1>5, <1>6 DEF Next

\* Every behaviour of the driver keeps its variables in their ranges, whatever
\* the drive and the board do.
THEOREM TypeCorrect == Spec => []TypeOK
  BY TypeInit, TypeNext, PTL DEF Spec

-----------------------------------------------------------------------------
(* The wakeup.                                                             *)

LEMMA WakeupInit == Init => WakeupInv
  BY TypeInit DEF Init, LatchInit, WakeupInv, NoLostWakeup

LEMMA WakeupNext == WakeupInv /\ [Next]_vars => WakeupInv'
<1> SUFFICES ASSUME WakeupInv, [Next]_vars PROVE WakeupInv'
  OBVIOUS
<1>0. TypeOK'
  BY TypeNext DEF WakeupInv
<1> USE DriveAssumption, <1>0 DEF WakeupInv, NoLostWakeup, TypeOK, Bit
<1>1. CASE DriveStep
  BY <1>1 DEF DriveStep, DriveResetDone, DriveWantsPacket, DriveAborts,
     DriveHasData, DriveChecksCondition, DriveFinishes, Assert, Raise
<1>2. CASE OtherDevice
  BY <1>2 DEF OtherDevice, Raise
<1>3. ASSUME NEW i \in Line, Interrupt(i) PROVE WakeupInv'
  <2>1. DiskBit(DiskIrq) # {}
    BY DEF DiskBit
  <2> QED
    BY <1>3, <2>1 DEF Interrupt, Serve
<1>4. CASE DriverStep
  <2>1. CASE SendPacket
    BY <2>1 DEF SendPacket, Goto
  <2>2. CASE PollBusy \/ PollDrq
    BY <2>2 DEF PollBusy, PollDrq, ReadStatus, Goto, DRQ
  <2>3. CASE IssuePacket
    BY <2>3 DEF IssuePacket, Goto
  <2>4. CASE \/ SoftReset \/ ResetWait \/ CheckSignature \/ ClearDataReady
             \/ WaitReady \/ ReadSize
    BY <2>4 DEF SoftReset, ResetWait, CheckSignature, ClearDataReady,
       WaitReady, ReadSize, Goto
  <2>5. CASE Transfer \/ PollEnd
    BY <2>5 DEF Transfer, PollEnd, Goto
  <2> QED
    BY <1>4, <2>1, <2>2, <2>3, <2>4, <2>5 DEF DriverStep
<1>5. CASE Caller
  BY <1>5 DEF Caller, Call, Goto
<1>6. CASE UNCHANGED vars
  BY <1>6
<1> QED
  BY <1>1, <1>2, <1>3, <1>4, <1>5, <1>6 DEF Next

\* The interrupt that ends the wait at cdrom.c:198 is never lost, with every
\* drive and board CdromDriver describes.
THEOREM WakeupSafe == Spec => []NoLostWakeup
<1>1. Spec => []WakeupInv
  BY WakeupInit, WakeupNext, PTL DEF Spec
<1>2. WakeupInv => NoLostWakeup
  BY DEF WakeupInv
<1> QED
  BY <1>1, <1>2, PTL

-----------------------------------------------------------------------------
(* A drive that keeps to the plain protocol on a prompt board.             *)

LEMMA DriveInit == Init => IInv
  BY TypeInit, DriveAssumption
  DEF Init, LatchInit, IInv, DriveInv, LineInv, SectorIntact, InitPc

LEMMA DriveNext == ASSUME Quirk = {} PROVE IInv /\ [Next]_vars => IInv'
<1> SUFFICES ASSUME Quirk = {}, IInv, [Next]_vars PROVE IInv'
  OBVIOUS
<1>0. TypeOK'
  BY TypeNext DEF IInv
<1> USE DriveAssumption, <1>0
    DEF IInv, DriveInv, LineInv, SectorIntact, Resting, Unanswered, InitPc
<1>1. CASE DriveStep
  <2>1. CASE DriveResetDone
    BY <2>1, <1>1 DEF DriveResetDone, DriveStep, TypeOK
  <2>2. CASE DriveWantsPacket
    BY <2>2, <1>1 DEF DriveWantsPacket, DriveStep, TypeOK
  <2>3. CASE DriveAborts
    BY <2>3, <1>1 DEF DriveAborts, DriveStep, Assert, Raise, TypeOK
  <2>4. CASE DriveHasData
    BY <2>4, <1>1 DEF DriveHasData, DriveStep, Assert, Raise, TypeOK
  <2>5. CASE DriveFinishes
    BY <2>5, <1>1 DEF DriveFinishes, DriveStep, Assert, Raise, TypeOK
  <2> QED
    BY <1>1, <2>1, <2>2, <2>3, <2>4, <2>5 DEF DriveStep, DriveChecksCondition
<1>2. CASE OtherDevice
  BY <1>2 DEF OtherDevice, Raise
<1>3. ASSUME NEW i \in Line, Interrupt(i) PROVE IInv'
  <2>1. i # DiskIrq => DiskBit(i) = {}
    BY <1>3, LineAssumption DEF Interrupt, Serve, DiskBit, Bit
  <2> QED
    BY <1>3, <2>1 DEF Interrupt, Serve
<1>4. CASE DriverStep
  <2>0. pending \cap {14, 15} = {}
    BY <1>4 DEF DriverStep, Prompt
  <2>1. CASE SoftReset \/ ResetWait \/ CheckSignature
    BY <2>0, <2>1 DEF SoftReset, ResetWait, CheckSignature, Goto, BSY
  <2>2. CASE ClearDataReady
    BY <2>0, <2>2 DEF ClearDataReady, ClearReady, Goto
  <2>3. CASE IssuePacket
    BY <2>0, <2>3 DEF IssuePacket, Goto
  <2>4. CASE PollBusy
    BY <2>0, <2>4 DEF PollBusy, ReadStatus, Withdraw, Goto
  <2>5. CASE PollDrq
    BY <2>0, <2>5 DEF PollDrq, ReadStatus, Withdraw, Goto, DRQ, ERR
  <2>6. CASE SendPacket
    BY <2>0, <2>6 DEF SendPacket, Goto
  <2>7. CASE WaitReady
    BY <2>0, <2>7 DEF WaitReady, Goto
  <2>8. CASE ReadSize
    BY <2>0, <2>8 DEF ReadSize, Goto, BSY
  <2>9. CASE Transfer
    BY <2>0, <2>9 DEF Transfer, Goto
  <2>10. CASE PollEnd
    BY <2>0, <2>10 DEF PollEnd, ReadStatus, Withdraw, Goto, BSY
  <2> QED
    BY <1>4, <2>1, <2>2, <2>3, <2>4, <2>5, <2>6, <2>7, <2>8, <2>9, <2>10
    DEF DriverStep
<1>5. CASE Caller
  BY <1>5 DEF Caller, Prompt, Call, Goto
<1>6. CASE UNCHANGED vars
  BY <1>6
<1> QED
  BY <1>1, <1>2, <1>3, <1>4, <1>5, <1>6 DEF Next

LEMMA DriveInvariant == ASSUME Quirk = {} PROVE Spec => []IInv
<1>1. Init => IInv
  BY DriveInit
<1>2. IInv /\ [Next]_vars => IInv'
  BY DriveNext
<1> QED
  BY <1>1, <1>2, PTL DEF Spec

\* With a drive that keeps to the plain protocol on a prompt board, a call that
\* returns a size returns the sector asked for.
THEOREM ReadsAreIntact == ASSUME Quirk = {} PROVE Spec => []SectorIntact
<1>1. Spec => []IInv
  BY DriveInvariant
<1>2. IInv => SectorIntact
  BY DEF IInv
<1> QED
  BY <1>1, <1>2, PTL

\* Under the same assumption no call leaves an unfinished command, or an
\* interrupt under way, to the next.
THEOREM CallsAreSeparate == ASSUME Quirk = {} PROVE Spec => []QuietBetweenCalls
<1>1. Spec => []IInv
  BY DriveInvariant
<1>2. IInv => QuietBetweenCalls
  BY DEF IInv, DriveInv, Resting, QuietBetweenCalls
<1> QED
  BY <1>1, <1>2, PTL

-----------------------------------------------------------------------------
(* The driver implements SectorRead.                                       *)

LEMMA ReaderInit == Init => Reader!ReadInit
  BY DEF Init, Reader!ReadInit, InitPc

LEMMA ReaderNext ==
  ASSUME Quirk = {}, IInv, [Next]_vars
  PROVE  [Reader!ReadNext]_(Reader!readVars)
<1> USE DEF Reader!ReadNext, Reader!readVars, InitPc
<1>1. CASE DriveStep \/ OtherDevice \/ UNCHANGED vars
  BY <1>1 DEF DriveStep, OtherDevice
<1>2. ASSUME NEW i \in Line, Interrupt(i)
      PROVE  [Reader!ReadNext]_(Reader!readVars)
  BY <1>2 DEF Interrupt
<1>3. CASE Caller
  <2>1. PICK l \in Lba : Call(l)
    BY <1>3 DEF Caller
  <2>2. Reader!Begin(l)
    BY <2>1 DEF Call, Goto, Reader!Begin
  <2> QED
    BY <2>2
<1>4. CASE PollDrq
  <2>1. CASE pc' = "idle"
    BY <1>4, <2>1 DEF PollDrq, Goto, Reader!Refuse
  <2>2. CASE pc' # "idle"
    BY <1>4, <2>2 DEF PollDrq, Goto
  <2> QED
    BY <2>1, <2>2
<1>5. CASE Transfer
  <2>1. Reader!Deliver
    BY <1>5 DEF Transfer, Goto, Reader!Deliver, IInv, DriveInv
  <2> QED
    BY <2>1
<1>6. CASE PollEnd
  <2>1. CASE pc' = "idle"
    BY <1>6, <2>1 DEF PollEnd, Goto, Reader!End
  <2>2. CASE pc' # "idle"
    BY <1>6, <2>2 DEF PollEnd, Goto
  <2> QED
    BY <2>1, <2>2
<1>7. CASE \/ SoftReset \/ ResetWait \/ CheckSignature \/ ClearDataReady
           \/ IssuePacket \/ PollBusy \/ SendPacket \/ WaitReady \/ ReadSize
  BY <1>7 DEF SoftReset, ResetWait, CheckSignature, ClearDataReady,
     IssuePacket, PollBusy, SendPacket, WaitReady, ReadSize, Goto
<1> QED
  BY <1>1, <1>2, <1>3, <1>4, <1>5, <1>6, <1>7 DEF Next, DriverStep

\* With a drive that keeps to the plain protocol on a prompt board, every step
\* of cdrom_read_sector, the drive and the handlers is a step of an atomic
\* read of one sector, or no step of it.
THEOREM DriverImplementsRead ==
  ASSUME Quirk = {} PROVE Spec => ImplementsSectorRead
<1>1. Spec => []IInv
  BY DriveInvariant
<1>2. Init => Reader!ReadInit
  BY ReaderInit
<1>3. IInv /\ [Next]_vars => [Reader!ReadNext]_(Reader!readVars)
  BY ReaderNext
<1> QED
  BY <1>1, <1>2, <1>3, PTL DEF Spec, ImplementsSectorRead, Reader!ReadSpec
=============================================================================
