--------------------------- MODULE BootInterrupts ---------------------------
(***************************************************************************)
(* Interrupts from stage 2 to the kernel.  Stage 2's init_idt              *)
(* (bootloader/stage2/src/interrupt.c) builds an IDT, remaps the two 8259  *)
(* controllers and enables interrupts; its handlers run between the        *)
(* instructions of main.  run (stub.asm) disables interrupts and enters    *)
(* long mode, and the kernel's interrupts_init (kernel/src/interrupts/)    *)
(* does it all again.  One action per port access or store of a handler;   *)
(* the controllers and the CPU's interrupt entry and iret are external.    *)
(***************************************************************************)
EXTENDS Integers, Sequences, FiniteSetsExt

CONSTANT Line          \* the IRQ lines that devices drive

ASSUME LineAssumption == Line \subseteq 0..15 \ {2}

VARIABLES program,     \* whose code runs
          pc,          \* its next step
          idt,         \* the gates generated so far, by program and vector
          idtr,        \* the program whose IDT is loaded, or "none"
          base,        \* the vector of each controller's first line
          irr, isr,    \* requested and in-service lines of the controllers
          intf,        \* the CPU's interrupt enable flag
          running,     \* the handlers entered and not yet left, innermost last
          ready        \* the bits set in stage 2's `data_ready`

setupVars == <<program, pc, idt, idtr, base>>
picVars == <<irr, isr>>
vars == <<setupVars, picVars, intf, running, ready>>

Program == {"stage2", "kernel"}
Pc == {"exceptionGates", "irqGates", "lidt", "remap_pic", "sti", "main",
       "longMode"}
Master == 0..7
Slave == 8..15
Cascade == 2           \* the master line the slave's output is wired to
Bit == {1, 2}

-----------------------------------------------------------------------------
(* The handlers and their gates.                                           *)

\* Slip: irq_high tells the slave alone.
BodyNoMasterEoi == [irq_low   |-> <<"eoiMaster">>,
                    irq_high  |-> <<"eoiSlave">>,
                    irq_disk1 |-> <<"or1", "eoiSlave", "eoiMaster">>,
                    irq_disk2 |-> <<"or2", "eoiSlave", "eoiMaster">>,
                    isr_low   |-> <<"eoiMaster">>,
                    isr_high  |-> <<"eoiSlave", "eoiMaster">>,
                    exception |-> <<"forever">>]

\* Slip: the kernel wraps the slave's lines as it wraps the master's.
BodyNoSlaveEoi == [irq_low   |-> <<"eoiMaster">>,
                   irq_high  |-> <<"eoiSlave", "eoiMaster">>,
                   irq_disk1 |-> <<"or1", "eoiSlave", "eoiMaster">>,
                   irq_disk2 |-> <<"or2", "eoiSlave", "eoiMaster">>,
                   isr_low   |-> <<"eoiMaster">>,
                   isr_high  |-> <<"eoiMaster">>,
                   exception |-> <<"forever">>]

\* What each handler does before its iret, in program order. isr_low and
\* isr_high are the kernel's wrappers of isr_0 to isr_15, which are empty. The
\* exception handlers of both programs never get to their iret.
Body == [irq_low   |-> <<"eoiMaster">>,
         irq_high  |-> <<"eoiSlave", "eoiMaster">>,
         irq_disk1 |-> <<"or1", "eoiSlave", "eoiMaster">>,
         irq_disk2 |-> <<"or2", "eoiSlave", "eoiMaster">>,
         isr_low   |-> <<"eoiMaster">>,
         isr_high  |-> <<"eoiSlave", "eoiMaster">>,
         exception |-> <<"forever">>]

\* An interrupt gate clears IF on entry, a trap gate does not.
Trap(h) == [handler |-> h, irqGate |-> FALSE]

\* Slip: trap gates for the interrupts as well.
IrqTrap(h) == [handler |-> h, irqGate |-> FALSE]

Irq(h) == [handler |-> h, irqGate |-> TRUE]

ExceptionGates == [v \in 0..31 |-> Trap("exception")]

\* Slip: stage 2's two disk handlers in each other's place.
IrqGatesSwapped(p) ==
  [v \in 32..47 |->
     IF p = "kernel" THEN Irq(IF v < 40 THEN "isr_low" ELSE "isr_high")
     ELSE CASE v < 40 -> Irq("irq_low")
            [] v \in 40..45 -> Irq("irq_high")
            [] v = 46 -> Irq("irq_disk2")
            [] v = 47 -> Irq("irq_disk1")]

IrqGates(p) ==
  [v \in 32..47 |->
     IF p = "kernel" THEN Irq(IF v < 40 THEN "isr_low" ELSE "isr_high")
     ELSE CASE v < 40 -> Irq("irq_low")
            [] v \in 40..45 -> Irq("irq_high")
            [] v = 46 -> Irq("irq_disk1")
            [] v = 47 -> Irq("irq_disk2")]

\* The gate the CPU uses for vector v. Without a usable one it faults, and
\* ends in an exception handler or, when there is none either, in a reset.
NoGate == Trap("exception")
GateOf(v) == IF idtr # "none" /\ v \in 0..47 THEN idt[idtr][v] ELSE NoGate

\* The BIOS leaves the controllers at vectors 0x08 and 0x70, and requests of
\* its time may be latched in them. Stage 2's main is entered with IF clear
\* (stub.asm:369), its bss, with the IDT in it, zeroed (stub.asm:420-424).
Init == /\ program = "stage2" /\ pc = "exceptionGates"
        /\ idt = [p \in Program |-> [v \in 0..47 |-> NoGate]]
        /\ idtr = "none"
        /\ base = [master |-> 8, slave |-> 112]
        /\ irr \in SUBSET Line /\ isr = {}
        /\ intf = FALSE /\ running = <<>> /\ ready = {}

-----------------------------------------------------------------------------
(* Steps of the two programs, which run when no handler does.              *)

Goto(from, to) == /\ running = <<>> /\ UNCHANGED running
                  /\ pc = from /\ pc' = to

\* gen_entry for a run of vectors.
Generate(gates) ==
  idt' = [idt EXCEPT ![program] =
            [v \in 0..47 |-> IF v \in DOMAIN gates THEN gates[v] ELSE @[v]]]

GenerateExceptions == /\ Goto("exceptionGates", "irqGates")
                      /\ Generate(ExceptionGates)
                      /\ UNCHANGED <<program, idtr, base, picVars, intf, ready>>

GenerateIrqs == /\ Goto("irqGates", "lidt")
                /\ Generate(IrqGates(program))
                /\ UNCHANGED <<program, idtr, base, picVars, intf, ready>>

LoadIdt == /\ Goto("lidt", "remap_pic")
           /\ idtr' = program
           /\ UNCHANGED <<program, idt, base, picVars, intf, ready>>

\* Slip: the master's ICW2 sent to both controllers.
RemapBothTo32 == /\ Goto("remap_pic", "sti")
                 /\ base' = [master |-> 32, slave |-> 32]
                 /\ irr' = {} /\ isr' = {}
                 /\ UNCHANGED <<program, idt, idtr, intf, ready>>

\* ICW1 drops whatever was requested or in service, ICW2 sets the vectors,
\* OCW1 unmasks every line.
RemapPic == /\ Goto("remap_pic", "sti")
            /\ base' = [master |-> 32, slave |-> 40]
            /\ irr' = {} /\ isr' = {}
            /\ UNCHANGED <<program, idt, idtr, intf, ready>>

EnableInterrupts == /\ Goto("sti", "main")
                    /\ intf' = TRUE
                    /\ UNCHANGED <<program, idt, idtr, base, picVars, ready>>

\* cdrom_read_sector, called by stage 2's main.
ClearDataReady == /\ program = "stage2" /\ Goto("main", "main")
                  /\ ready' = {}
                  /\ UNCHANGED <<program, idt, idtr, base, picVars, intf>>

\* Slip: run leaves interrupts on.
RunWithoutCli == /\ program = "stage2" /\ Goto("main", "longMode")
                 /\ UNCHANGED <<program, idt, idtr, base, picVars, intf, ready>>

\* The first instruction of run.
Run == /\ program = "stage2" /\ Goto("main", "longMode")
       /\ intf' = FALSE
       /\ UNCHANGED <<program, idt, idtr, base, picVars, ready>>

\* In long mode the CPU cannot use gates of stage 2's format.
EnterLongMode == /\ Goto("longMode", "exceptionGates")
                 /\ program' = "kernel"
                 /\ idtr' = "none"
                 /\ UNCHANGED <<idt, base, picVars, intf, ready>>

-----------------------------------------------------------------------------
(* The devices, the controllers and the CPU (external).                    *)

Raise(i) == /\ irr' = irr \cup {i}
            /\ UNCHANGED <<setupVars, isr, intf, running, ready>>

\* The line falls and the controller forgets its request.
Withdraw(i) == /\ i \in irr
               /\ irr' = irr \ {i}
               /\ UNCHANGED <<setupVars, isr, intf, running, ready>>

Wired(i) == IF i \in Slave THEN Cascade ELSE i

\* Fully nested mode: the slave passes on what is above all it has in service,
\* the master takes the highest line above all it has in service.
Passed == {i \in irr : i \in Slave => \A j \in isr \cap Slave : i < j}
Above(i, j) == Wired(i) < Wired(j) \/ (Wired(i) = Wired(j) /\ i < j)
Chosen(i) == /\ i \in Passed
             /\ \A j \in Passed \ {i} : Above(i, j)
             /\ \A j \in isr \cap Master : Wired(i) < j

Vector(i) == IF i \in Slave THEN base.slave + (i - 8) ELSE base.master + i

\* The CPU pushes a frame with the old IF and goes through the gate.
Enter(i) == LET gate == GateOf(Vector(i)) IN
            /\ running' = Append(running, [handler |-> gate.handler,
                                           line |-> i, at |-> 1, intf |-> intf])
            /\ intf' = (intf /\ ~gate.irqGate)

Acknowledge(i) == /\ intf /\ Chosen(i)
                  /\ irr' = irr \ {i}
                  /\ isr' = isr \cup {i, Wired(i)}
                  /\ Enter(i)
                  /\ UNCHANGED <<setupVars, ready>>

\* The chosen line falls as the CPU acknowledges it: the controller answers
\* with its lowest line and puts nothing in service, except the cascade in the
\* master when it is the slave that answers.
Spurious(i) == /\ intf /\ Chosen(i)
               /\ irr' = irr \ {i}
               /\ \/ Enter(7) /\ UNCHANGED isr
                  \/ i \in Slave /\ Enter(15) /\ isr' = isr \cup {Cascade}
               /\ UNCHANGED <<setupVars, ready>>

\* A non-specific EOI ends the highest line in service.
Eoi(controller) == LET served == isr \cap controller IN
                   isr' = IF served = {} THEN isr ELSE isr \ {Min(served)}

-----------------------------------------------------------------------------
(* The innermost handler.                                                  *)

Top == running[Len(running)]

Execute(op) ==
  CASE op = "or1" -> ready' = ready \cup {1} /\ UNCHANGED isr
    [] op = "or2" -> ready' = ready \cup {2} /\ UNCHANGED isr
    [] op = "eoiSlave" -> Eoi(Slave) /\ UNCHANGED ready
    [] op = "eoiMaster" -> Eoi(Master) /\ UNCHANGED ready

HandlerStep == /\ running # <<>>
               /\ Top.handler # "exception"
               /\ Top.at <= Len(Body[Top.handler])
               /\ Execute(Body[Top.handler][Top.at])
               /\ running' = [running EXCEPT ![Len(running)].at = @ + 1]
               /\ UNCHANGED <<setupVars, irr, intf>>

Iret == /\ running # <<>>
        /\ Top.at > Len(Body[Top.handler])
        /\ intf' = Top.intf
        /\ running' = SubSeq(running, 1, Len(running) - 1)
        /\ UNCHANGED <<setupVars, picVars, ready>>

Initialise == \/ GenerateExceptions \/ GenerateIrqs \/ LoadIdt \/ RemapPic
              \/ EnableInterrupts \/ EnterLongMode

Cpu == \/ Initialise \/ HandlerStep \/ Iret
       \/ \E i \in Line : Acknowledge(i) \/ Spurious(i)

Next == \/ Cpu
        \/ ClearDataReady \/ Run
        \/ \E i \in Line : Raise(i) \/ Withdraw(i)

\* The CPU executes instructions and takes interrupts. Devices may be silent,
\* and stage 2 need not find a kernel to run.
Spec == Init /\ [][Next]_vars /\ WF_vars(Cpu)

-----------------------------------------------------------------------------
(* Properties.                                                             *)

\* Every variable stays in its range.
TypeOK == /\ program \in Program /\ pc \in Pc
          /\ idt \in [Program -> [0..47 -> [handler : DOMAIN Body,
                                            irqGate : BOOLEAN]]]
          /\ idtr \in Program \cup {"none"}
          /\ base \in [master : {8, 32}, slave : {40, 112}]
          /\ irr \subseteq Line /\ isr \subseteq Line \cup {Cascade}
          /\ intf \in BOOLEAN /\ ready \subseteq Bit
          /\ running \in Seq([handler : DOMAIN Body, line : Master \cup Slave,
                              at : 1..4, intf : BOOLEAN])

\* No device request is ever taken for a CPU exception, whose handlers hang
\* forever, and none meets the CPU without an IDT it can use: both programs
\* enable interrupts only when their IDT is loaded and the controllers have
\* left the exception vectors (interrupt.c:200-202, interrupts.c:97-111), and
\* in between run has disabled them (stub.asm:429).
NeverAnException == \A k \in DOMAIN running : running[k].handler # "exception"

\* A handler is never interrupted by another, so that its read-modify-write of
\* data_ready (interrupt.c:134, 142) is not torn and main's stack stays small.
HandlersDoNotNest == Len(running) <= 1

\* Only what a running handler was entered for is in service: the EOIs of a
\* handler end its own service, also after a spurious request, and no line
\* stays in service, which would mute it and every line below it for good.
OnlyRunningInService ==
  \A i \in isr : \E k \in DOMAIN running :
                    i \in {running[k].line, Wired(running[k].line)}

\* Every request is handled or withdrawn in the end, unless a line above it
\* goes on interrupting forever.
EveryRequestEnds ==
  \A i \in Line :
     (\A j \in Line \ {i} : Above(j, i) => <>[](j \notin irr))
        => (pc = "main" /\ i \in irr ~> i \notin irr)

\* The interrupts stage 2's main sees are those of IrqLatch: a handler takes
\* effect as a whole when it is entered, as main does not run before its end.
Storing == {b \in Bit : \E k \in DOMAIN running :
              LET h == running[k].handler
                  op == IF b = 1 THEN "or1" ELSE "or2"
              IN \E n \in running[k].at .. Len(Body[h]) : Body[h][n] = op}

Latch == INSTANCE IrqLatch WITH
           pending <- IF program = "stage2" /\ pc \in {"sti", "main"}
                      THEN irr ELSE {},
           ready <- ready \cup Storing
ImplementsIrqLatch == Latch!LatchSpec
=============================================================================
