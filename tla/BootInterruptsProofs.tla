------------------------ MODULE BootInterruptsProofs ------------------------
(***************************************************************************)
(* Proofs about BootInterrupts, for any set of lines.                      *)
(***************************************************************************)
EXTENDS BootInterrupts, TLAPS

(***************************************************************************)
(* The order of the two initialisations: interrupts are enabled only in    *)
(* main, and there the gates of the lines are in place, loaded and the     *)
(* ones the controllers ask for.                                           *)
(***************************************************************************)
SetupInv ==
  /\ intf => pc = "main" /\ running = <<>>
  /\ pc \in {"lidt", "remap_pic", "sti", "main"}
        => \A v \in 32..47 : idt[program][v] = IrqGates(program)[v]
  /\ pc \in {"remap_pic", "sti", "main"} => idtr = program
  /\ pc \in {"sti", "main"} => base = [master |-> 32, slave |-> 40]

(***************************************************************************)
(* The running handler: there is one at most, it belongs to its line, and  *)
(* what it has still to do ends what is in service.                        *)
(***************************************************************************)
LowHandler == {"irq_low", "isr_low"}
HighHandler == {"irq_high", "irq_disk1", "irq_disk2", "isr_high"}
Remaining(r) == Len(Body[r.handler]) + 1 - r.at

Serves(r, serving) ==
  /\ r.intf = TRUE /\ r.line \in 0..15 \ {2}
  /\ r.line \in Slave => r.handler \in HighHandler
  /\ r.line \notin Slave => r.handler \in LowHandler
  /\ serving \subseteq {r.line, Wired(r.line)}
  /\ Remaining(r) >= 0
  /\ Remaining(r) = 1 => serving \cap Slave = {}
  /\ Remaining(r) = 0 => serving = {}

ServiceInv ==
  /\ running = <<>> => isr = {}
  /\ running # <<>> => pc = "main" /\ Len(running) = 1 /\ Serves(running[1], isr)

IInv == TypeOK /\ SetupInv /\ ServiceInv

-----------------------------------------------------------------------------
USE DEF setupVars, picVars, vars

Run1 == [handler : DOMAIN Body, line : Master \cup Slave, at : 1..4,
         intf : BOOLEAN]

\* The handlers' bodies, written out.
LEMMA Bodies ==
  /\ DOMAIN Body = LowHandler \cup HighHandler \cup {"exception"}
  /\ \A h \in LowHandler : Body[h] = <<"eoiMaster">>
  /\ Body["irq_high"] = <<"eoiSlave", "eoiMaster">>
  /\ Body["isr_high"] = <<"eoiSlave", "eoiMaster">>
  /\ Body["irq_disk1"] = <<"or1", "eoiSlave", "eoiMaster">>
  /\ Body["irq_disk2"] = <<"or2", "eoiSlave", "eoiMaster">>
  /\ Body["exception"] = <<"forever">>
BY DEF Body, LowHandler, HighHandler

LEMMA Lengths ==
  ASSUME NEW h \in LowHandler \cup HighHandler PROVE Len(Body[h]) \in 1..3
BY Bodies DEF LowHandler, HighHandler

\* Every gate of the lines is an interrupt gate of a handler of its controller.
LEMMA Gates ==
  ASSUME NEW p \in Program, NEW v \in 32..47
  PROVE  /\ IrqGates(p)[v].irqGate = TRUE
         /\ IrqGates(p)[v].handler
              \in IF v < 40 THEN LowHandler ELSE HighHandler
         /\ IrqGates(p)[v] \in [handler : DOMAIN Body, irqGate : BOOLEAN]
BY Bodies DEF IrqGates, Irq, LowHandler, HighHandler, Program

\* The lowest of the elements of a set of one.
LEMMA MinOne == ASSUME NEW x \in Nat PROVE Min({x}) = x
BY DEF Min

LEMMA SetupInit == Init => IInv
<1> SUFFICES ASSUME Init PROVE IInv
  OBVIOUS
<1>1. NoGate \in [handler : DOMAIN Body, irqGate : BOOLEAN]
  BY Bodies DEF NoGate, Trap
<1>2. idt \in [Program -> [0..47 -> [handler : DOMAIN Body, irqGate : BOOLEAN]]]
  BY <1>1 DEF Init
<1>3. running \in Seq(Run1)
  BY DEF Init
<1>4. base \in [master : {8, 32}, slave : {40, 112}]
  BY DEF Init
<1>5. TypeOK
  BY <1>2, <1>3, <1>4 DEF Init, TypeOK, Program, Pc, Run1
<1> QED
  BY <1>5 DEF Init, IInv, SetupInv, ServiceInv

\* A line the CPU takes is handled through its gate, of the current program.
LEMMA EnterFacts ==
  ASSUME IInv, intf, NEW i \in 0..15 \ {2}, Enter(i)
  PROVE  /\ pc = "main" /\ running = <<>> /\ isr = {}
         /\ intf' = FALSE
         /\ running' = <<[handler |-> IrqGates(program)[32 + i].handler,
                          line |-> i, at |-> 1, intf |-> TRUE]>>
         /\ 32 + i \in 32..47
<1> DEFINE gate == IrqGates(program)[32 + i]
           r == [handler |-> gate.handler, line |-> i, at |-> 1, intf |-> TRUE]
<1>1. /\ pc = "main" /\ running = <<>>
      /\ idtr = program /\ base = [master |-> 32, slave |-> 40]
      /\ \A v \in 32..47 : idt[program][v] = IrqGates(program)[v]
  BY DEF IInv, SetupInv
<1>2. isr = {} /\ program \in Program /\ intf = TRUE
  <2>1. isr = {} /\ program \in Program /\ intf \in BOOLEAN
    BY <1>1 DEF IInv, TypeOK, ServiceInv
  <2> QED
    BY <2>1
<1>3. Vector(i) = 32 + i /\ 32 + i \in 32..47
  <2>1. base.master = 32 /\ base.slave = 40
    BY <1>1
  <2>2. i \in Int /\ 0 <= i /\ i <= 15 /\ (i \in Slave <=> i >= 8)
    BY DEF Slave
  <2> QED
    BY <2>1, <2>2 DEF Vector
<1>4. GateOf(Vector(i)) = gate
  <2>1. idtr # "none" /\ Vector(i) \in 0..47
    BY <1>1, <1>2, <1>3 DEF Program
  <2>2. GateOf(Vector(i)) = idt[idtr][Vector(i)]
    BY <2>1 DEF GateOf
  <2> QED
    BY <1>1, <1>3, <2>2
<1>5. gate.irqGate = TRUE
  BY <1>2, <1>3, Gates
<1>6. running' = Append(<<>>, r) /\ intf' = (intf /\ ~gate.irqGate)
  BY <1>1, <1>2, <1>4 DEF Enter
<1>7. intf' = FALSE
  <2> HIDE DEF gate
  <2> QED
    BY <1>5, <1>6
<1>8. running' = <<r>>
  <2> HIDE DEF r
  <2> QED
    BY <1>6
<1> QED
  BY <1>1, <1>2, <1>3, <1>7, <1>8

\* Entering a handler with at most its own lines in service.
LEMMA EnterNext ==
  ASSUME IInv, intf, NEW i \in 0..15 \ {2}, Enter(i),
         isr' \subseteq {i, Wired(i)}, isr' \subseteq Line \cup {Cascade},
         irr' \subseteq Line, UNCHANGED <<setupVars, ready>>
  PROVE  IInv'
<1> DEFINE h == IrqGates(program)[32 + i].handler
           r == [handler |-> h, line |-> i, at |-> 1, intf |-> TRUE]
<1>1. /\ pc = "main" /\ intf' = FALSE /\ running' = <<r>> /\ 32 + i \in 32..47
  BY EnterFacts
<1>2. h \in (IF i \in Slave THEN HighHandler ELSE LowHandler)
  <2>1. program \in Program
    BY DEF IInv, TypeOK
  <2>2. 32 + i < 40 <=> i \notin Slave
    BY DEF Slave
  <2> QED
    BY <1>1, <2>1, <2>2, Gates
<1>3. h \in DOMAIN Body
  BY <1>2, Bodies DEF Slave
<1>4. r \in Run1
  BY <1>3 DEF Run1, Master, Slave
<1>5. running' \in Seq(Run1)
  BY <1>1, <1>4
<1>6. TypeOK'
  BY <1>1, <1>5 DEF IInv, TypeOK, Run1
<1>7. SetupInv'
  BY <1>1 DEF IInv, SetupInv
<1>8. Remaining(r) \in Nat /\ Remaining(r) # 0 /\ (Remaining(r) = 1 => i \notin Slave)
  BY <1>2, Bodies DEF Remaining, LowHandler, HighHandler
<1>9. Serves(r, isr')
  <2>1. i \notin Slave => isr' \cap Slave = {}
    BY DEF Wired, Slave
  <2>2. r.handler = h /\ r.line = i /\ r.intf = TRUE
    OBVIOUS
  <2> HIDE DEF r, h
  <2> QED
    BY <1>2, <1>8, <2>1, <2>2 DEF Serves
<1>10. ServiceInv'
  <2> HIDE DEF r
  <2>1. running' # <<>> /\ running'[1] = r /\ Len(running') = 1
    BY <1>1
  <2> QED
    BY <1>1, <1>9, <2>1 DEF ServiceInv
<1> QED
  BY <1>6, <1>7, <1>10 DEF IInv

\* What is known of the handler that runs.
LEMMA RunningFacts ==
  ASSUME IInv, running # <<>>
  PROVE  /\ Len(running) = 1 /\ Top = running[1] /\ running = <<running[1]>>
         /\ running[1] \in Run1
         /\ running[1].handler \in LowHandler \cup HighHandler
         /\ pc = "main" /\ intf = FALSE /\ running[1].intf = TRUE
<1>1. /\ running \in Seq(Run1) /\ Len(running) = 1
      /\ pc = "main" /\ running[1].intf
      /\ running[1].handler \in LowHandler \cup HighHandler
  BY DEF IInv, TypeOK, ServiceInv, Serves, Run1
<1>2. running[1] \in Run1 /\ Top = running[1] /\ running = <<running[1]>>
  BY <1>1 DEF Top
<1>3. running[1].intf \in BOOLEAN
  BY <1>2 DEF Run1
<1>4. intf = FALSE
  <2>1. intf \in BOOLEAN /\ ~intf
    BY DEF IInv, TypeOK, SetupInv
  <2> QED
    BY <2>1
<1> QED
  BY <1>1, <1>2, <1>3, <1>4

\* What a handler does with so many accesses to go.
LEMMA Steps ==
  ASSUME NEW h \in LowHandler \cup HighHandler, NEW k \in 1..4,
         k <= Len(Body[h])
  PROVE  /\ Len(Body[h]) \in 1..3
         /\ \/ Body[h][k] = "eoiMaster" /\ k = Len(Body[h])
            \/ Body[h][k] = "eoiSlave" /\ k = Len(Body[h]) - 1
            \/ Body[h][k] \in {"or1", "or2"} /\ k = Len(Body[h]) - 2
<1>1. CASE h \in LowHandler
  <2>1. Body[h] = <<"eoiMaster">>
    BY <1>1, Bodies
  <2>2. Len(Body[h]) = 1 /\ k = 1 /\ Body[h][1] = "eoiMaster"
    BY <2>1
  <2> QED
    BY <2>2
<1>2. CASE h \in {"irq_high", "isr_high"}
  <2>1. Body[h] = <<"eoiSlave", "eoiMaster">>
    BY <1>2, Bodies
  <2>2. /\ Len(Body[h]) = 2 /\ k \in 1..2
        /\ Body[h][1] = "eoiSlave" /\ Body[h][2] = "eoiMaster"
    BY <2>1
  <2> QED
    BY <2>2
<1>3. CASE h \in {"irq_disk1", "irq_disk2"}
  <2>1. PICK o \in {"or1", "or2"} : Body[h] = <<o, "eoiSlave", "eoiMaster">>
    BY <1>3, Bodies
  <2>2. /\ Len(Body[h]) = 3 /\ k \in 1..3
        /\ Body[h][1] = o
        /\ Body[h][2] = "eoiSlave" /\ Body[h][3] = "eoiMaster"
    BY <2>1
  <2> QED
    BY <2>2
<1> QED
  BY <1>1, <1>2, <1>3 DEF LowHandler, HighHandler

\* A handler's next access leaves it that much less to do.
LEMMA HandlerNext == ASSUME IInv, HandlerStep PROVE IInv'
<1> DEFINE r == running[1]
           op == Body[r.handler][r.at]
<1>1. /\ running # <<>> /\ Top.at <= Len(Body[Top.handler])
      /\ Execute(Body[Top.handler][Top.at])
      /\ running' = [running EXCEPT ![Len(running)].at = @ + 1]
      /\ UNCHANGED <<setupVars, irr, intf>>
  BY DEF HandlerStep
<1>2. /\ Len(running) = 1 /\ Top = r /\ running = <<r>> /\ r \in Run1
      /\ r.handler \in LowHandler \cup HighHandler
      /\ pc = "main" /\ intf = FALSE
  BY <1>1, RunningFacts
<1>3. running' = <<[r EXCEPT !.at = @ + 1]>>
  BY <1>1, <1>2
<1>4. Execute(op) /\ r.at <= Len(Body[r.handler])
  BY <1>1, <1>2
<1>5. Serves(r, isr)
  BY <1>1 DEF IInv, ServiceInv
<1>6. r.at \in 1..4 /\ r.handler \in DOMAIN Body /\ r.intf \in BOOLEAN
  BY <1>2 DEF Run1
<1> DEFINE n == [r EXCEPT !.at = @ + 1]
<1>7. /\ n.handler = r.handler /\ n.line = r.line /\ n.intf = r.intf
      /\ n.at = r.at + 1
  BY <1>2 DEF Run1
<1>8. /\ Len(Body[r.handler]) \in 1..3
      /\ \/ op = "eoiMaster" /\ Remaining(r) = 1
         \/ op = "eoiSlave" /\ Remaining(r) = 2
         \/ op \in {"or1", "or2"} /\ Remaining(r) = 3
  BY <1>2, <1>4, <1>6, Steps DEF Remaining
<1>9. Remaining(n) = Remaining(r) - 1 /\ n.at \in 1..4
  <2> HIDE DEF n, r, op
  <2>1. r.at \in 1..3
    <3> DEFINE length == Len(Body[r.handler])
    <3>1. r.at <= length /\ length \in 1..3 /\ r.at \in 1..4
      BY <1>4, <1>6, <1>8
    <3> HIDE DEF length
    <3> QED
      BY <3>1
  <2> QED
    BY <1>7, <1>8, <2>1 DEF Remaining
<1>10. n \in Run1
  BY <1>2, <1>9 DEF Run1
<1>11. /\ isr' \subseteq isr
       /\ Remaining(n) = 1 => isr' \cap Slave = {}
       /\ Remaining(n) = 0 => isr' = {}
       /\ ready' \subseteq Bit
  <2>1. ready \subseteq Bit
    BY DEF IInv, TypeOK
  <2>2. CASE op = "eoiMaster"
    <3>1. Eoi(Master) /\ UNCHANGED ready
      BY <1>4, <2>2 DEF Execute
    <3>2. isr \subseteq {Wired(r.line)} /\ Wired(r.line) \in Nat \cap Master
      BY <1>5, <1>8, <2>2 DEF Serves, Wired, Slave, Master, Cascade
    <3>3. isr' = {}
      BY <3>1, <3>2, MinOne DEF Eoi
    <3> QED
      BY <1>8, <1>9, <2>1, <2>2, <3>1, <3>3
  <2>3. CASE op = "eoiSlave"
    <3>1. Eoi(Slave) /\ UNCHANGED ready
      BY <1>4, <2>3 DEF Execute
    <3>2. isr \cap Slave \subseteq {r.line} /\ r.line \in Nat
      BY <1>5 DEF Serves, Wired, Slave, Cascade
    <3>3. isr' \subseteq isr /\ isr' \cap Slave = {}
      BY <3>1, <3>2, MinOne DEF Eoi
    <3> QED
      BY <1>8, <1>9, <2>1, <2>3, <3>1, <3>3
  <2>4. CASE op \in {"or1", "or2"}
    <3>1. UNCHANGED isr /\ ready' \subseteq ready \cup {1, 2}
      BY <1>4, <2>4 DEF Execute
    <3> QED
      BY <1>8, <1>9, <2>1, <2>4, <3>1 DEF Bit
  <2> QED
    BY <1>8, <2>2, <2>3, <2>4
<1>12. running' = <<n>> /\ UNCHANGED setupVars /\ UNCHANGED <<irr, intf>>
  BY <1>1, <1>3
<1> HIDE DEF n, r, op
<1>13. TypeOK'
  <2>1. running' \in Seq(Run1)
    BY <1>10, <1>12
  <2> QED
    BY <1>11, <1>12, <2>1 DEF IInv, TypeOK, Run1
<1>14. SetupInv'
  BY <1>2, <1>12 DEF IInv, SetupInv
<1>15. Serves(n, isr')
  BY <1>5, <1>7, <1>8, <1>9, <1>11 DEF Serves
<1>16. ServiceInv'
  <2>1. running' # <<>> /\ running'[1] = n /\ Len(running') = 1
    BY <1>12
  <2> QED
    BY <1>2, <1>12, <1>15, <2>1 DEF ServiceInv
<1> QED
  BY <1>13, <1>14, <1>16 DEF IInv

\* The last instruction of a handler, after which nothing is in service.
LEMMA IretNext == ASSUME IInv, Iret PROVE IInv'
<1>1. /\ running # <<>> /\ Top.at > Len(Body[Top.handler])
      /\ intf' = Top.intf
      /\ running' = SubSeq(running, 1, Len(running) - 1)
      /\ UNCHANGED <<setupVars, picVars, ready>>
  BY DEF Iret
<1>2. /\ Len(running) = 1 /\ Top = running[1] /\ running = <<running[1]>>
      /\ running[1] \in Run1 /\ pc = "main"
      /\ running[1].handler \in LowHandler \cup HighHandler
      /\ running[1].intf = TRUE
  BY <1>1, RunningFacts
<1>3. running' = <<>> /\ intf' = TRUE
  BY <1>1, <1>2
<1>4. isr = {}
  <2>1. Remaining(running[1]) = 0
    <3>1. /\ Len(Body[running[1].handler]) \in 1..3 /\ running[1].at \in 1..4
      BY <1>2, Bodies DEF LowHandler, HighHandler, Run1
    <3>2. Remaining(running[1]) >= 0
      BY <1>1 DEF IInv, ServiceInv, Serves
    <3> QED
      BY <1>1, <1>2, <3>1, <3>2 DEF Remaining
  <2> QED
    BY <1>1, <2>1 DEF IInv, ServiceInv, Serves
<1>5. TypeOK'
  <2>1. running' \in Seq(Run1)
    BY <1>3
  <2> QED
    BY <1>1, <1>3, <2>1 DEF IInv, TypeOK, Run1
<1>6. SetupInv'
  BY <1>1, <1>2, <1>3 DEF IInv, SetupInv
<1>7. ServiceInv'
  BY <1>1, <1>3, <1>4 DEF ServiceInv
<1> QED
  BY <1>5, <1>6, <1>7 DEF IInv

\* A step of the initialisation, or of main, that takes no handler's place.
LEMMA ProgramNext ==
  ASSUME IInv, Initialise \/ ClearDataReady \/ Run
  PROVE  IInv'
<1> USE DEF Goto
<1>1. /\ running = <<>> /\ running' = <<>> /\ isr = {}
  BY DEF IInv, ServiceInv, Initialise, GenerateExceptions, GenerateIrqs,
         LoadIdt, RemapPic, EnableInterrupts, EnterLongMode, ClearDataReady, Run
<1>2. isr' = {} /\ running' \in Seq(Run1)
  BY <1>1 DEF Initialise, GenerateExceptions, GenerateIrqs, LoadIdt, RemapPic,
              EnableInterrupts, EnterLongMode, ClearDataReady, Run
<1>3. ServiceInv'
  BY <1>1, <1>2 DEF ServiceInv
<1>4. CASE GenerateExceptions
  <2>1. ExceptionGates \in [0..31 -> [handler : DOMAIN Body, irqGate : BOOLEAN]]
    BY Bodies DEF ExceptionGates, Trap
  <2>2. idt' \in [Program -> [0..47 -> [handler : DOMAIN Body, irqGate : BOOLEAN]]]
    <3>1. /\ program \in Program
          /\ idt \in [Program -> [0..47 -> [handler : DOMAIN Body, irqGate : BOOLEAN]]]
      BY DEF IInv, TypeOK
    <3>2. /\ idt' = [idt EXCEPT ![program] =
                       [v \in 0..47 |-> IF v \in DOMAIN ExceptionGates
                                        THEN ExceptionGates[v] ELSE @[v]]]
          /\ DOMAIN ExceptionGates = 0..31
      BY <1>4 DEF GenerateExceptions, Generate, ExceptionGates
    <3> QED
      BY <2>1, <3>1, <3>2
  <2>3. TypeOK'
    BY <1>2, <1>4, <2>2 DEF GenerateExceptions, IInv, TypeOK, Run1, Pc
  <2>4. SetupInv'
    BY <1>1, <1>4 DEF GenerateExceptions, IInv, SetupInv
  <2> QED
    BY <1>3, <2>3, <2>4 DEF IInv
<1>5. CASE GenerateIrqs
  <2>1. /\ program \in Program
        /\ idt \in [Program -> [0..47 -> [handler : DOMAIN Body, irqGate : BOOLEAN]]]
    BY DEF IInv, TypeOK
  <2>2. /\ idt' = [idt EXCEPT ![program] =
                     [v \in 0..47 |-> IF v \in DOMAIN IrqGates(program)
                                      THEN IrqGates(program)[v] ELSE @[v]]]
        /\ DOMAIN IrqGates(program) = 32..47
    BY <1>5 DEF GenerateIrqs, Generate, IrqGates
  <2>3. \A v \in 32..47 :
            IrqGates(program)[v] \in [handler : DOMAIN Body, irqGate : BOOLEAN]
    BY <2>1, Gates
  <2>4. idt' \in [Program -> [0..47 -> [handler : DOMAIN Body, irqGate : BOOLEAN]]]
    BY <2>1, <2>2, <2>3
  <2>5. \A v \in 32..47 : idt'[program][v] = IrqGates(program)[v]
    BY <2>1, <2>2
  <2>6. TypeOK'
    BY <1>2, <1>5, <2>4 DEF GenerateIrqs, IInv, TypeOK, Run1, Pc
  <2>7. SetupInv'
    BY <1>1, <1>5, <2>5 DEF GenerateIrqs, IInv, SetupInv, IrqGates
  <2> QED
    BY <1>3, <2>6, <2>7 DEF IInv
<1>6. CASE LoadIdt \/ EnableInterrupts \/ ClearDataReady \/ Run \/ EnterLongMode
  <2>1. TypeOK'
    BY <1>2, <1>6 DEF LoadIdt, EnableInterrupts, ClearDataReady, Run,
                      EnterLongMode, IInv, TypeOK, Run1, Pc, Program, Bit
  <2>2. SetupInv'
    <3>1. CASE LoadIdt
      BY <1>1, <3>1 DEF LoadIdt, IInv, SetupInv, IrqGates
    <3>2. CASE EnableInterrupts
      BY <1>1, <3>2 DEF EnableInterrupts, IInv, SetupInv, IrqGates
    <3>3. CASE ClearDataReady
      BY <1>1, <3>3 DEF ClearDataReady, IInv, SetupInv, IrqGates
    <3>4. CASE Run
      BY <1>1, <3>4 DEF Run, IInv, SetupInv
    <3>5. CASE EnterLongMode
      BY <1>1, <3>5 DEF EnterLongMode, IInv, SetupInv
    <3> QED
      BY <1>6, <3>1, <3>2, <3>3, <3>4, <3>5
  <2> QED
    BY <1>3, <2>1, <2>2 DEF IInv
<1>7. CASE RemapPic
  <2>1. TypeOK'
    BY <1>2, <1>7 DEF RemapPic, IInv, TypeOK, Run1, Pc
  <2>2. SetupInv'
    BY <1>1, <1>7 DEF RemapPic, IInv, SetupInv, IrqGates
  <2> QED
    BY <1>3, <2>1, <2>2 DEF IInv
<1> QED
  BY <1>4, <1>5, <1>6, <1>7 DEF Initialise

\* A request, withdrawn, taken or answered as a spurious one.
LEMMA LineNext ==
  ASSUME IInv, NEW i \in Line,
         Raise(i) \/ Withdraw(i) \/ Acknowledge(i) \/ Spurious(i)
  PROVE  IInv'
<1>1. i \in 0..15 \ {2} /\ irr \subseteq Line /\ isr \subseteq Line \cup {Cascade}
  BY LineAssumption DEF IInv, TypeOK
<1>2. CASE Raise(i) \/ Withdraw(i)
  <2>1. /\ UNCHANGED <<setupVars, isr, intf, running, ready>>
        /\ irr' \subseteq Line
    BY <1>1, <1>2 DEF Raise, Withdraw
  <2> QED
    BY <2>1 DEF IInv, TypeOK, SetupInv, ServiceInv, Serves, Remaining, Wired,
                IrqGates
<1>3. CASE Acknowledge(i)
  <2>1. intf /\ Enter(i) /\ UNCHANGED <<setupVars, ready>>
        /\ irr' = irr \ {i} /\ isr' = isr \cup {i, Wired(i)}
    BY <1>3 DEF Acknowledge
  <2>2. isr = {}
    BY <1>1, <2>1, EnterFacts
  <2>3. Wired(i) \in {i, Cascade}
    BY DEF Wired
  <2> QED
    BY <1>1, <2>1, <2>2, <2>3, EnterNext
<1>4. CASE Spurious(i)
  <2>1. intf /\ UNCHANGED <<setupVars, ready>> /\ irr' \subseteq Line
    BY <1>1, <1>4 DEF Spurious
  <2>2. CASE Enter(7) /\ UNCHANGED isr
    <3>1. 7 \in 0..15 \ {2}
      OBVIOUS
    <3>2. isr = {}
      BY <2>1, <2>2, <3>1, EnterFacts
    <3>3. isr' \subseteq {7, Wired(7)} /\ isr' \subseteq Line \cup {Cascade}
      BY <2>2, <3>2
    <3> QED
      BY <2>1, <2>2, <3>1, <3>3, EnterNext
  <2>3. CASE Enter(15) /\ isr' = isr \cup {Cascade}
    <3>1. 15 \in 0..15 \ {2} /\ Wired(15) = Cascade
      BY DEF Wired, Slave
    <3>2. isr = {}
      BY <2>1, <2>3, <3>1, EnterFacts
    <3>3. isr' \subseteq {15, Wired(15)} /\ isr' \subseteq Line \cup {Cascade}
      BY <2>3, <3>1, <3>2
    <3> QED
      BY <2>1, <2>3, <3>1, <3>3, EnterNext
  <2> QED
    BY <1>4, <2>2, <2>3 DEF Spurious
<1> QED
  BY <1>2, <1>3, <1>4

LEMMA IInvNext == IInv /\ [Next]_vars => IInv'
<1> SUFFICES ASSUME IInv, [Next]_vars PROVE IInv'
  OBVIOUS
<1>1. CASE Initialise \/ ClearDataReady \/ Run
  BY <1>1, ProgramNext
<1>2. CASE \E i \in Line :
              Raise(i) \/ Withdraw(i) \/ Acknowledge(i) \/ Spurious(i)
  BY <1>2, LineNext
<1>3. CASE HandlerStep
  BY <1>3, HandlerNext
<1>4. CASE Iret
  BY <1>4, IretNext
<1>5. CASE UNCHANGED vars
  BY <1>5 DEF IInv, TypeOK, SetupInv, ServiceInv, Serves, Remaining, Wired,
              IrqGates
<1> QED
  BY <1>1, <1>2, <1>3, <1>4, <1>5 DEF Next, Cpu

THEOREM Invariance == Spec => []IInv
BY SetupInit, IInvNext, PTL DEF Spec

-----------------------------------------------------------------------------
\* Every variable stays in its range.
THEOREM TypeCorrect == Spec => []TypeOK
BY Invariance, PTL DEF IInv

\* No device request reaches an exception handler of either program, and none
\* meets the CPU without an IDT it can use.
THEOREM RequestsAreNoExceptions == Spec => []NeverAnException
<1>1. IInv => NeverAnException
  <2> SUFFICES ASSUME IInv, NEW k \in DOMAIN running
               PROVE  running[k].handler # "exception"
    BY DEF NeverAnException
  <2>1. running # <<>>
    BY DEF IInv, TypeOK
  <2>2. /\ running = <<running[1]>>
        /\ running[1].handler \in LowHandler \cup HighHandler
    BY <2>1, RunningFacts
  <2>3. DOMAIN <<running[1]>> = {1}
    OBVIOUS
  <2>4. k = 1
    BY <2>2, <2>3
  <2> QED
    BY <2>2, <2>4 DEF LowHandler, HighHandler
<1> QED
  BY <1>1, Invariance, PTL

\* No handler is interrupted by another.
THEOREM NoNesting == Spec => []HandlersDoNotNest
<1>1. IInv => HandlersDoNotNest
  <2> SUFFICES ASSUME IInv PROVE Len(running) <= 1
    BY DEF HandlersDoNotNest
  <2>1. CASE running = <<>>
    BY <2>1
  <2>2. CASE running # <<>>
    <3>1. Len(running) = 1
      BY <2>2, RunningFacts
    <3> QED
      BY <3>1
  <2> QED
    BY <2>1, <2>2
<1> QED
  BY <1>1, Invariance, PTL

\* Whatever is in service belongs to the running handler, also after a
\* spurious request: no line is left in service.
THEOREM ServiceEnds == Spec => []OnlyRunningInService
<1>1. IInv => OnlyRunningInService
  <2> SUFFICES ASSUME IInv, NEW i \in isr
               PROVE  \E k \in DOMAIN running :
                         i \in {running[k].line, Wired(running[k].line)}
    BY DEF OnlyRunningInService
  <2>1. running # <<>>
    BY DEF IInv, ServiceInv
  <2>2. running = <<running[1]>> /\ Len(running) = 1
    BY <2>1, RunningFacts
  <2>3. 1 \in DOMAIN running
    <3>1. DOMAIN <<running[1]>> = {1}
      OBVIOUS
    <3> QED
      BY <2>2, <3>1
  <2>4. i \in {running[1].line, Wired(running[1].line)}
    BY <2>1 DEF IInv, ServiceInv, Serves
  <2> QED
    BY <2>3, <2>4
<1> QED
  BY <1>1, Invariance, PTL

-----------------------------------------------------------------------------
(***************************************************************************)
(* The refinement of IrqLatch.                                             *)
(***************************************************************************)
\* The bits a handler has still to store.
Bits(r) == {b \in Bit :
              LET op == IF b = 1 THEN "or1" ELSE "or2"
              IN \E n \in r.at .. Len(Body[r.handler]) : Body[r.handler][n] = op}

LEMMA StoringIsBits ==
  /\ running = <<>> => Storing = {}
  /\ \A r : running = <<r>> => Storing = Bits(r)
<1>1. ASSUME running = <<>> PROVE Storing = {}
  <2>1. DOMAIN running = {}
    BY <1>1
  <2> QED
    BY <2>1 DEF Storing
<1>2. ASSUME NEW r, running = <<r>> PROVE Storing = Bits(r)
  <2>1. DOMAIN running = {1} /\ running[1] = r
    BY <1>2
  <2> QED
    BY <2>1 DEF Storing, Bits
<1> QED
  BY <1>1, <1>2

\* Only the disk handlers store a bit, with their first access.
LEMMA BitsOf ==
  ASSUME NEW r \in Run1, r.handler \in LowHandler \cup HighHandler
  PROVE  Bits(r) = IF r.at = 1
                   THEN {b \in Bit : r.handler = IF b = 1 THEN "irq_disk1"
                                                         ELSE "irq_disk2"}
                   ELSE {}
<1> DEFINE body == Body[r.handler]
<1>1. r.at \in 1..4
  BY DEF Run1
<1>2. CASE r.handler \in {"irq_low", "isr_low"}
  <2>1. Len(body) = 1 /\ body[1] = "eoiMaster"
    BY <1>2, Bodies DEF LowHandler
  <2> HIDE DEF body
  <2>2. \A n \in r.at .. Len(body) : body[n] \notin {"or1", "or2"}
    BY <1>1, <2>1
  <2>3. Bits(r) = {}
    BY <2>2 DEF Bits, body
  <2> QED
    BY <1>2, <2>3 DEF Bit
<1>3. CASE r.handler \in {"irq_high", "isr_high"}
  <2>1. Len(body) = 2 /\ body[1] = "eoiSlave" /\ body[2] = "eoiMaster"
    BY <1>3, Bodies
  <2> HIDE DEF body
  <2>2. \A n \in r.at .. Len(body) : body[n] \notin {"or1", "or2"}
    BY <1>1, <2>1
  <2>3. Bits(r) = {}
    BY <2>2 DEF Bits, body
  <2> QED
    BY <1>3, <2>3 DEF Bit
<1>4. ASSUME NEW b \in Bit,
             r.handler = IF b = 1 THEN "irq_disk1" ELSE "irq_disk2"
      PROVE  Bits(r) = IF r.at = 1 THEN {b} ELSE {}
  <2> DEFINE op == IF b = 1 THEN "or1" ELSE "or2"
  <2>1. body = <<op, "eoiSlave", "eoiMaster">>
    BY <1>4, Bodies DEF Bit
  <2>2. /\ Len(body) = 3 /\ body[1] = op
        /\ body[2] = "eoiSlave" /\ body[3] = "eoiMaster"
    BY <2>1
  <2> HIDE DEF body
  <2>3. \A n \in 2..3 : body[n] \notin {"or1", "or2"}
    BY <2>2
  <2>4. CASE r.at = 1
    <3>1. \A o \in {"or1", "or2"} :
             (\E n \in r.at .. Len(body) : body[n] = o) <=> o = op
      BY <2>2, <2>3, <2>4
    <3> HIDE DEF op
    <3>2. \A c \in Bit : (IF c = 1 THEN "or1" ELSE "or2") = op <=> c = b
      BY DEF op, Bit
    <3>3. \A c \in Bit : (IF c = 1 THEN "or1" ELSE "or2") \in {"or1", "or2"}
      BY DEF Bit
    <3> QED
      BY <2>4, <3>1, <3>2, <3>3 DEF Bits, body
  <2>5. CASE r.at # 1
    <3>1. \A n \in r.at .. Len(body) : body[n] \notin {"or1", "or2"}
      BY <1>1, <2>2, <2>3, <2>5
    <3> QED
      BY <2>5, <3>1 DEF Bits, body
  <2> QED
    BY <2>4, <2>5
<1>5. CASE r.handler = "irq_disk1"
  <2>1. Bits(r) = IF r.at = 1 THEN {1} ELSE {}
    <3>1. 1 \in Bit
      BY DEF Bit
    <3> HIDE DEF body
    <3> QED
      BY <1>4, <1>5, <3>1
  <2>2. {b \in Bit : r.handler = IF b = 1 THEN "irq_disk1" ELSE "irq_disk2"} = {1}
    BY <1>5 DEF Bit
  <2> QED
    BY <2>1, <2>2
<1>6. CASE r.handler = "irq_disk2"
  <2>1. Bits(r) = IF r.at = 1 THEN {2} ELSE {}
    <3>1. 2 \in Bit
      BY DEF Bit
    <3> HIDE DEF body
    <3> QED
      BY <1>4, <1>6, <3>1
  <2>2. {b \in Bit : r.handler = IF b = 1 THEN "irq_disk1" ELSE "irq_disk2"} = {2}
    BY <1>6 DEF Bit
  <2> QED
    BY <2>1, <2>2
<1> QED
  BY <1>2, <1>3, <1>5, <1>6 DEF LowHandler, HighHandler

Pending == IF program = "stage2" /\ pc \in {"sti", "main"} THEN irr ELSE {}

LEMMA LatchStart == Init => Latch!LatchInit
BY StoringIsBits DEF Init, Latch!LatchInit

\* The gates of the lines, by what their handlers store.
LEMMA GateBits ==
  ASSUME NEW p \in Program, NEW i \in 0..15, NEW r \in Run1, r.at = 1,
         r.handler = IrqGates(p)[32 + i].handler
  PROVE  Bits(r) = IF p = "stage2" THEN Latch!DiskBit(i) ELSE {}
<1>1. 32 + i \in 32..47
  OBVIOUS
<1>2. r.handler \in LowHandler \cup HighHandler
  BY <1>1, Gates
<1>3. Bits(r) = {b \in Bit : r.handler = IF b = 1 THEN "irq_disk1"
                                                  ELSE "irq_disk2"}
  BY <1>2, BitsOf
<1>4. CASE p = "kernel"
  <2>1. r.handler \in {"isr_low", "isr_high"}
    BY <1>1, <1>4 DEF IrqGates, Irq
  <2> QED
    BY <1>3, <1>4, <2>1 DEF Bit
<1>5. CASE p = "stage2"
  <2>1. /\ r.handler = "irq_disk1" <=> i = 14
        /\ r.handler = "irq_disk2" <=> i = 15
    BY <1>1, <1>5 DEF IrqGates, Irq
  <2>2. Latch!DiskBit(i) = {b \in Bit : i = 13 + b}
    BY DEF Latch!DiskBit, Latch!Bit, Bit
  <2>3. \A b \in Bit : i = 13 + b
                    <=> r.handler = IF b = 1 THEN "irq_disk1" ELSE "irq_disk2"
    BY <2>1 DEF Bit
  <2> QED
    BY <1>3, <1>5, <2>2, <2>3
<1> QED
  BY <1>4, <1>5 DEF Program

\* Entering a handler adds its bit to what main will see.
LEMMA EnterBits ==
  ASSUME IInv, intf, NEW i \in 0..15 \ {2}, Enter(i)
  PROVE  /\ Storing = {}
         /\ Storing' = IF program = "stage2" THEN Latch!DiskBit(i) ELSE {}
<1> DEFINE r == [handler |-> IrqGates(program)[32 + i].handler,
                 line |-> i, at |-> 1, intf |-> TRUE]
<1>1. running = <<>> /\ running' = <<r>> /\ 32 + i \in 32..47
  BY EnterFacts
<1>2. program \in Program
  BY DEF IInv, TypeOK
<1>3. r.handler \in DOMAIN Body
  BY <1>1, <1>2, Gates, Bodies
<1>4. r \in Run1 /\ r.at = 1 /\ r.handler = IrqGates(program)[32 + i].handler
  BY <1>3 DEF Run1, Master, Slave
<1>5. Bits(r) = IF program = "stage2" THEN Latch!DiskBit(i) ELSE {}
  <2> HIDE DEF r
  <2> QED
    BY <1>2, <1>4, GateBits
<1>6. Storing' = Bits(r)
  <2>1. DOMAIN running' = {1} /\ running'[1] = r
    BY <1>1
  <2> HIDE DEF r
  <2> QED
    BY <2>1 DEF Storing, Bits
<1> QED
  BY <1>1, <1>5, <1>6, StoringIsBits

\* The handler's own steps do not change what main will see.
LEMMA HandlerBits ==
  ASSUME IInv, HandlerStep \/ Iret
  PROVE  (ready \cup Storing)' = ready \cup Storing
<1> DEFINE r == running[1]
<1>1. /\ running # <<>> /\ Len(running) = 1 /\ Top = r /\ running = <<r>>
      /\ r \in Run1 /\ r.handler \in LowHandler \cup HighHandler
  BY RunningFacts DEF HandlerStep, Iret
<1>2. r.at \in 1..4 /\ Storing = Bits(r)
  BY <1>1, StoringIsBits DEF Run1
<1>3. CASE Iret
  <2>1. r.at > Len(Body[r.handler]) /\ UNCHANGED ready /\ running' = <<>>
    BY <1>1, <1>3 DEF Iret
  <2>2. Storing' = {}
    BY <2>1 DEF Storing
  <2>3. Bits(r) = {}
    <3> DEFINE length == Len(Body[r.handler])
    <3>1. length \in 1..3
      BY <1>1, Lengths
    <3>2. r.at # 1
      <4> HIDE DEF length
      <4>1. r.at > length
        BY <2>1 DEF length
      <4> QED
        BY <1>2, <3>1, <4>1
    <3> QED
      BY <1>1, <3>2, BitsOf
  <2> QED
    BY <1>2, <2>1, <2>2, <2>3
<1>4. CASE HandlerStep
  <2> DEFINE n == [r EXCEPT !.at = @ + 1]
             op == Body[r.handler][r.at]
  <2>1. /\ running' = <<n>> /\ Execute(op) /\ r.at <= Len(Body[r.handler])
    BY <1>1, <1>4 DEF HandlerStep
  <2>2. n \in Run1 /\ n.at # 1 /\ n.handler = r.handler
    <3> DEFINE length == Len(Body[r.handler])
    <3>1. length \in 1..3 /\ r.at <= length
      BY <1>1, <2>1, Lengths
    <3>2. r.at \in 1..3
      <4> HIDE DEF length, r
      <4> QED
        BY <1>2, <3>1
    <3> QED
      BY <1>1, <3>2 DEF Run1
  <2>3. Storing' = {}
    <3>1. DOMAIN running' = {1} /\ running'[1] = n
      BY <2>1
    <3>2. Storing' = Bits(n)
      <4> HIDE DEF n
      <4> QED
        BY <3>1 DEF Storing, Bits
    <3> HIDE DEF n
    <3> QED
      BY <1>1, <2>2, <3>2, BitsOf
  <2>4. ready' = ready \cup Bits(r)
    <3>1. CASE r.at = 1 /\ r.handler \in {"irq_disk1", "irq_disk2"}
      <4>1. PICK b \in Bit : r.handler = IF b = 1 THEN "irq_disk1" ELSE "irq_disk2"
        BY <3>1 DEF Bit
      <4>2. Bits(r) = {b}
        <5>1. Bits(r) = {c \in Bit : r.handler = IF c = 1 THEN "irq_disk1"
                                                          ELSE "irq_disk2"}
          BY <1>1, <3>1, BitsOf
        <5> QED
          BY <4>1, <5>1 DEF Bit
      <4>3. op = IF b = 1 THEN "or1" ELSE "or2"
        BY <3>1, <4>1, Bodies DEF Bit
      <4>4. ready' = ready \cup {b}
        BY <2>1, <4>3 DEF Execute, Bit
      <4> QED
        BY <4>2, <4>4
    <3>2. CASE ~(r.at = 1 /\ r.handler \in {"irq_disk1", "irq_disk2"})
      <4>1. Bits(r) = {}
        BY <1>1, <3>2, BitsOf DEF Bit
      <4>2. op \in {"eoiSlave", "eoiMaster"}
        BY <1>1, <1>2, <2>1, <3>2, Bodies DEF LowHandler, HighHandler
      <4>3. UNCHANGED ready
        BY <2>1, <4>2 DEF Execute
      <4> QED
        BY <4>1, <4>3
    <3> QED
      BY <3>1, <3>2
  <2> QED
    BY <1>2, <2>3, <2>4
<1> QED
  BY <1>3, <1>4

LEMMA LatchStep ==
  ASSUME IInv, [Next]_vars
  PROVE  [Latch!LatchNext]_(Latch!latchVars)
<1> USE DEF Latch!latchVars
<1>1. irr \subseteq Line /\ program \in Program
  BY DEF IInv, TypeOK
<1>2. CASE Initialise
  <2>1. running = <<>> /\ running' = <<>> /\ UNCHANGED ready
    BY <1>2 DEF Initialise, GenerateExceptions, GenerateIrqs, LoadIdt, RemapPic,
                EnableInterrupts, EnterLongMode, Goto
  <2>2. Storing = {} /\ Storing' = {}
    BY <2>1 DEF Storing
  <2>3. Pending' = Pending
    BY <1>2 DEF Initialise, GenerateExceptions, GenerateIrqs, LoadIdt, RemapPic,
                EnableInterrupts, EnterLongMode, Goto, Pending
  <2> QED
    BY <2>1, <2>2, <2>3 DEF Pending
<1>3. CASE HandlerStep \/ Iret
  <2>1. (ready \cup Storing)' = ready \cup Storing
    BY <1>3, HandlerBits
  <2>2. Pending' = Pending
    BY <1>3 DEF HandlerStep, Iret, Pending
  <2> QED
    BY <2>1, <2>2 DEF Pending
<1>4. CASE ClearDataReady
  <2>1. running = <<>> /\ running' = <<>> /\ ready' = {}
    BY <1>4 DEF ClearDataReady, Goto
  <2>2. Storing' = {}
    BY <2>1 DEF Storing
  <2>3. Pending' = Pending
    BY <1>4 DEF ClearDataReady, Goto, Pending
  <2>4. Latch!ClearReady
    BY <2>1, <2>2, <2>3 DEF Latch!ClearReady, Pending
  <2> QED
    BY <2>4 DEF Latch!LatchNext
<1>5. CASE Run
  <2>1. running = <<>> /\ running' = <<>> /\ UNCHANGED ready
    BY <1>5 DEF Run, Goto
  <2>2. Storing = {} /\ Storing' = {}
    BY <2>1 DEF Storing
  <2>3. Pending' = {}
    BY <1>5 DEF Run, Goto, Pending
  <2>4. Latch!Leave
    BY <2>1, <2>2, <2>3 DEF Latch!Leave, Pending
  <2> QED
    BY <2>4 DEF Latch!LatchNext
<1>6. ASSUME NEW i \in Line, Raise(i) \/ Withdraw(i)
      PROVE  [Latch!LatchNext]_(Latch!latchVars)
  <2>1. UNCHANGED <<program, pc, running, ready>>
    BY <1>6 DEF Raise, Withdraw
  <2>2. UNCHANGED Storing
    BY <2>1 DEF Storing
  <2>3. CASE program = "stage2" /\ pc \in {"sti", "main"}
    <3>1. Pending = irr /\ Pending' = irr'
      BY <2>1, <2>3 DEF Pending
    <3>2. Latch!Raise(i) \/ Latch!Withdraw(i)
      BY <1>6, <2>1, <2>2, <3>1
         DEF Raise, Withdraw, Pending, Latch!Raise, Latch!Withdraw
    <3> QED
      BY <3>2 DEF Latch!LatchNext
  <2>4. CASE ~(program = "stage2" /\ pc \in {"sti", "main"})
    BY <2>1, <2>2, <2>4
  <2> QED
    BY <2>3, <2>4
<1>7. ASSUME NEW i \in Line, Acknowledge(i) \/ Spurious(i)
      PROVE  [Latch!LatchNext]_(Latch!latchVars)
  <2>1. intf /\ i \in irr /\ irr' = irr \ {i} /\ UNCHANGED <<setupVars, ready>>
    BY <1>7 DEF Acknowledge, Spurious, Chosen, Passed
  <2>2. pc = "main" /\ i \in 0..15 \ {2}
    BY <2>1, LineAssumption DEF IInv, SetupInv
  <2>3. \A k \in 0..15 \ {2} : Enter(k) =>
           /\ Storing = {}
           /\ Storing' = IF program = "stage2" THEN Latch!DiskBit(k) ELSE {}
    BY <2>1, EnterBits
  <2>4. CASE program = "kernel"
    <3>1. ASSUME NEW k \in 0..15 \ {2}, Enter(k)
          PROVE  [Latch!LatchNext]_(Latch!latchVars)
      BY <2>1, <2>3, <2>4, <3>1
    <3>2. 7 \in 0..15 \ {2} /\ 15 \in 0..15 \ {2}
      OBVIOUS
    <3>3. CASE Acknowledge(i)
      <4>1. Enter(i)
        BY <3>3 DEF Acknowledge
      <4> QED
        BY <2>2, <3>1, <4>1
    <3>4. CASE Spurious(i)
      <4>1. CASE Enter(7)
        BY <3>1, <3>2, <4>1
      <4>2. CASE Enter(15)
        BY <3>1, <3>2, <4>2
      <4> QED
        BY <3>4, <4>1, <4>2 DEF Spurious
    <3> QED
      BY <1>7, <3>3, <3>4
  <2>5. CASE program = "stage2"
    <3>1. Pending = irr /\ Pending' = irr'
      BY <2>1, <2>2, <2>5 DEF Pending
    <3>2. ASSUME NEW k \in 0..15 \ {2}, Enter(k)
          PROVE  (ready \cup Storing)' = (ready \cup Storing) \cup Latch!DiskBit(k)
      BY <2>1, <2>3, <2>5, <3>2
    <3>3. CASE Acknowledge(i)
      <4>1. Enter(i)
        BY <3>3 DEF Acknowledge
      <4>2. (ready \cup Storing)' = (ready \cup Storing) \cup Latch!DiskBit(i)
        BY <2>2, <3>2, <4>1
      <4>3. Latch!Serve(i)
        BY <2>1, <3>1, <4>2 DEF Latch!Serve, Pending
      <4> QED
        BY <4>3 DEF Latch!LatchNext
    <3>4. CASE Spurious(i)
      <4>1. CASE Enter(7)
        <5>1. Latch!DiskBit(7) = {} /\ 7 \in 0..15 \ {2}
          BY DEF Latch!DiskBit, Latch!Bit
        <5>2. (ready \cup Storing)' = (ready \cup Storing) \cup Latch!DiskBit(7)
          BY <3>2, <4>1, <5>1
        <5>3. Latch!Withdraw(i)
          BY <2>1, <3>1, <5>1, <5>2 DEF Latch!Withdraw, Pending
        <5> QED
          BY <5>3 DEF Latch!LatchNext
      <4>2. CASE i \in Slave /\ Enter(15)
        <5>1. i >= 8 /\ 15 \in 0..15 \ {2}
          BY <4>2 DEF Slave
        <5>2. (ready \cup Storing)' = (ready \cup Storing) \cup Latch!DiskBit(15)
          BY <3>2, <4>2, <5>1
        <5>3. Latch!Withdraw(i)
          BY <2>1, <3>1, <5>1, <5>2 DEF Latch!Withdraw, Pending
        <5> QED
          BY <5>3 DEF Latch!LatchNext
      <4> QED
        BY <3>4, <4>1, <4>2 DEF Spurious
    <3> QED
      BY <1>7, <3>3, <3>4
  <2> QED
    BY <1>1, <2>4, <2>5 DEF Program
<1>8. CASE UNCHANGED vars
  BY <1>8 DEF Storing
<1> QED
  BY <1>2, <1>3, <1>4, <1>5, <1>6, <1>7, <1>8 DEF Next, Cpu

\* What stage 2's main sees of its interrupts, the handlers' steps, the
\* controllers' priorities and spurious answers included, is IrqLatch.
THEOREM InterruptsImplementLatch == Spec => ImplementsIrqLatch
<1>1. Init => Latch!LatchInit
  BY LatchStart
<1>2. IInv /\ [Next]_vars => [Latch!LatchNext]_(Latch!latchVars)
  BY LatchStep
<1> QED
  BY <1>1, <1>2, Invariance, PTL DEF Spec, ImplementsIrqLatch, Latch!LatchSpec
=============================================================================
