------------------------------ MODULE IrqLatch ------------------------------
(***************************************************************************)
(* What the interrupt side of the stage 2 bootloader promises to the code  *)
(* that runs with interrupts enabled (bootloader/stage2/src/interrupt.c):  *)
(* a request that reached the interrupt controllers is a member of         *)
(* `pending`, and its handler runs as one step as far as that code can     *)
(* tell, because every IRQ gate is an interrupt gate (G_IRQ_32), which     *)
(* keeps the CPU from leaving the handler before its iret.                 *)
(*                                                                         *)
(* BootInterrupts shows that the handlers, the IDT and the two 8259s     *)
(* implement this; CdromDriver is built on top of it.                      *)
(***************************************************************************)
EXTENDS Integers

CONSTANT Line          \* the IRQ lines of the two cascaded 8259s in use

ASSUME LineAssumption == Line \subseteq 0..15 \ {2}

VARIABLES pending,     \* lines whose request is latched and not yet handled
          ready        \* the bits set in stage2.c's `data_ready`

latchVars == <<pending, ready>>

Bit == {1, 2}

\* Slip: the line's number for its bit.
LineNumber(i) == {i} \cap {14, 15}

\* What the handler of line i adds to *data_ready: irq_disk1 (primary channel)
\* sets 0x01, irq_disk2 (secondary channel) 0x02, irq_low and irq_high nothing.
DiskBit(i) == {b \in Bit : i = 13 + b}

LatchInit == pending = {} /\ ready = {}

\* A device asserts its line: the controller latches the rising edge.
Raise(i) == /\ pending' = pending \cup {i}
            /\ UNCHANGED ready

\* The line falls before the CPU acknowledged the request. Either the request
\* is forgotten, or the CPU was already asking for it: then the lowest line of
\* the controller is handled instead, 7 of the master or, for a line of the
\* slave, 15 of the slave.
Withdraw(i) == /\ i \in pending
               /\ pending' = pending \ {i}
               /\ \/ UNCHANGED ready
                  \/ i >= 8 /\ ready' = ready \cup DiskBit(15)

\* The handler of line i runs from its entry to its iret.
Serve(i) == /\ i \in pending
            /\ pending' = pending \ {i}
            /\ ready' = ready \cup DiskBit(i)

\* The disk driver forgets earlier interrupts before it issues a command.
ClearReady == ready' = {} /\ UNCHANGED pending

\* run disables interrupts for good: what is latched is left to the kernel.
Leave == pending' = {} /\ UNCHANGED ready

LatchNext == \/ \E i \in Line : Raise(i) \/ Withdraw(i) \/ Serve(i)
             \/ ClearReady \/ Leave

LatchSpec == LatchInit /\ [][LatchNext]_latchVars
=============================================================================
