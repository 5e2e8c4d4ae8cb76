------------------------------ MODULE KernelLog ------------------------------
(***************************************************************************)
(* The kernel's main (kernel/src/init/kernel.c), its debug output          *)
(* (debug/debug.c) over the polled serial port (serial/serial.c), and the  *)
(* report of a CPU exception (interrupts/wrapper_exc.asm, debug_crash).    *)
(* The UART, which sends a character in its own time, and the CPU's        *)
(* exception entry are external.  A word of text is one character here, a  *)
(* number is the word that names it.                                       *)
(***************************************************************************)
EXTENDS Integers, SequencesExt

CONSTANTS FifoSize,    \* how many characters the UART holds
          Regions,     \* the number of free regions mm_init reports
          Vectors,     \* the exceptions that may be raised
          Quirk        \* what the machine may do beyond the plain case

ASSUME SizeAssumption == FifoSize \in Nat \ {0} /\ Regions \in Nat
ASSUME VectorAssumption == Vectors \subseteq 0..31
ASSUME QuirkAssumption == Quirk \subseteq {"slowLoopback", "input", "nmi"}

VARIABLES build,       \* whether the kernel is compiled with DEBUG
          port,        \* what is behind the BDA's entry for COM1
          pc,          \* the kernel's next step
          opened,      \* whether ctx[0].port is set
          result,      \* what debug_init returned
          todo,        \* what the running serial_print has still to send
          loopback,    \* the UART's loopback mode
          held, rbr,   \* characters to be sent, and received
          wire,        \* the characters that left the machine
          written,     \* the characters serial_putc wrote
          vector,      \* the exception that was raised, or -1
          stack        \* the words pushed since, the last one on top

progVars == <<pc, opened, result, todo, written>>
uartVars == <<loopback, held, rbr, wire>>
crashVars == <<vector, stack>>
vars == <<build, port, progVars, uartVars, crashVars>>

SerialInit == {"configure", "loopback", "data", "check", "publish", "restore"}
Main == {"interrupts_init", "bda", "mm_init", "started", "mm_peek"}
              \cup SerialInit
Pc == Main \cup {"loop", "report", "halted", "reset"}

\* The exceptions of which the CPU pushes an error code (external). Stage 2's
\* handlers agree (interrupt.c:160-183), also on 21 and 29.
PushesError == {8, 10, 11, 12, 13, 14, 17, 21, 29, 30}

Init == /\ build \in {"DEBUG", "release"}
        /\ port \in {"none", "dead", "uart"}
        /\ pc = "interrupts_init" /\ opened = FALSE /\ result = "none"
        /\ todo = <<>> /\ written = <<>>
        /\ loopback = FALSE /\ held = <<>> /\ rbr = <<>> /\ wire = <<>>
        /\ vector = -1 /\ stack = <<>>

-----------------------------------------------------------------------------
(* The UART (external).                                                    *)

\* A character leaves the machine, or comes back in loopback mode.
Shift == /\ held # <<>>
         /\ held' = Tail(held)
         /\ IF loopback THEN rbr' = Append(rbr, Head(held)) /\ UNCHANGED wire
                        ELSE wire' = Append(wire, Head(held)) /\ UNCHANGED rbr
         /\ UNCHANGED <<build, port, progVars, loopback, crashVars>>

\* Somebody types at the other end.
Input == /\ "input" \in Quirk /\ port = "uart" /\ ~loopback /\ rbr = <<>>
         /\ rbr' = <<"input">>
         /\ UNCHANGED <<build, port, progVars, loopback, held, wire, crashVars>>

\* A write to the data register; with all places taken the last one is lost.
WriteData(c) ==
  held' = IF port # "uart" THEN held
          ELSE IF Len(held) < FifoSize THEN Append(held, c)
          ELSE [held EXCEPT ![FifoSize] = c]

\* Bit TX_EMPTY of LINE_STS_REG; where nothing answers all bits are set.
TxEmpty == port # "uart" \/ held = <<>>

-----------------------------------------------------------------------------
(* debug.c and serial.c.                                                   *)

print_msg(header, msg) == <<header, msg, "\n">>

\* debug_info and debug_num are empty without DEBUG.
Debugged(lines) == IF build = "DEBUG" THEN lines ELSE <<>>

\* serial_print of each of the words, EPERM before serial_init has succeeded.
serial_print(words) == todo' = IF opened THEN words ELSE <<>>

\* Slip: the character is written without looking at the line status.
PutcUnpolled == /\ todo # <<>>
                /\ WriteData(Head(todo))
                /\ written' = Append(written, Head(todo))
                /\ todo' = Tail(todo)
                /\ UNCHANGED <<build, port, pc, opened, result, loopback, rbr,
                               wire, crashVars>>

\* Slip: the status bit is taken for one that says "busy".
PutcWhenBusy == /\ todo # <<>> /\ ~TxEmpty
                /\ WriteData(Head(todo))
                /\ written' = Append(written, Head(todo))
                /\ todo' = Tail(todo)
                /\ UNCHANGED <<build, port, pc, opened, result, loopback, rbr,
                               wire, crashVars>>

serial_putc == /\ todo # <<>> /\ TxEmpty
               /\ WriteData(Head(todo))
               /\ written' = Append(written, Head(todo))
               /\ todo' = Tail(todo)
               /\ UNCHANGED <<build, port, pc, opened, result, loopback, rbr,
                              wire, crashVars>>

Goto(from, to) == /\ todo = <<>>
                  /\ pc = from /\ pc' = to

ReadBda == /\ \/ port = "none" /\ Goto("bda", "mm_init") /\ result' = "EIO"
              \/ port # "none" /\ Goto("bda", "configure") /\ UNCHANGED result
           /\ UNCHANGED <<build, port, opened, todo, written, uartVars,
                          crashVars>>

\* Speed, format, modem lines; 0xC7 empties the FIFOs.
Configure == /\ Goto("configure", "loopback")
             /\ held' = <<>> /\ rbr' = <<>> /\ loopback' = FALSE
             /\ UNCHANGED <<build, port, opened, result, todo, written, wire,
                            crashVars>>

EnterLoopback == /\ Goto("loopback", "data")
                 /\ loopback' = TRUE
                 /\ UNCHANGED <<build, port, opened, result, todo, written,
                                held, rbr, wire, crashVars>>

SendTest == /\ Goto("data", "check")
            /\ WriteData("test")
            /\ UNCHANGED <<build, port, opened, result, todo, written,
                           loopback, rbr, wire, crashVars>>

\* Slip: nothing received counts as the right answer.
TestNotRefuted == IF rbr = <<>> THEN TRUE ELSE Head(rbr) = "test"

TestReturned == IF rbr = <<>> THEN FALSE ELSE Head(rbr) = "test"

\* The data register is read at once. A UART that is not slow has returned
\* the character by then.
CheckTest ==
  /\ "slowLoopback" \notin Quirk => held = <<>>
  /\ rbr' = IF rbr = <<>> THEN <<>> ELSE Tail(rbr)
  /\ \/ TestReturned /\ Goto("check", "publish") /\ UNCHANGED result
     \/ ~TestReturned /\ Goto("check", "mm_init") /\ result' = "EIO"
  /\ UNCHANGED <<build, port, opened, todo, written, loopback, held, wire,
                 crashVars>>

PublishPort == /\ Goto("publish", "restore")
               /\ opened' = TRUE
               /\ UNCHANGED <<build, port, result, todo, written, uartVars,
                              crashVars>>

\* Slip: the port is left in loopback mode.
LeaveInLoopback == /\ Goto("restore", "mm_init")
                   /\ result' = "0"
                   /\ UNCHANGED <<build, port, opened, todo, written, uartVars,
                                  crashVars>>

LeaveLoopback == /\ Goto("restore", "mm_init")
                 /\ loopback' = FALSE /\ result' = "0"
                 /\ UNCHANGED <<build, port, opened, todo, written, held, rbr,
                                wire, crashVars>>

-----------------------------------------------------------------------------
(* The other steps of main.                                                *)

InterruptsInit == /\ Goto("interrupts_init", "bda")
                  /\ UNCHANGED <<build, port, opened, result, todo, written,
                                 uartVars, crashVars>>

Say(from, to, lines) ==
  /\ Goto(from, to)
  /\ serial_print(Debugged(lines))
  /\ UNCHANGED <<build, port, opened, result, written, uartVars, crashVars>>

MmInit ==
  Say("mm_init", "started",
      FlattenSeq([r \in 1..Regions |-> print_msg("Base: ", "base")
                                         \o print_msg("End: ", "end")])
        \o print_msg("Bitmap allocator requirements: ", "req")
        \o print_msg("Max address: ", "max"))

Started == Say("started", "mm_peek", print_msg("INFO: ", "Kernel started"))
MmPeek == Say("mm_peek", "loop", <<>>)

-----------------------------------------------------------------------------
(* An exception: the CPU's frame, the wrapper's pushes, debug_crash.       *)

Frame(v) == <<"ss", "rsp", "rflags", "cs", "rip">>
              \o IF v \in PushesError THEN <<"err">> ELSE <<>>

\* Slip: a wrapper that does not know that the CPU pushes an error code.
WrappedPlain(v) == <<"0", "rax", "rbx", "rcx", "rdx", "rsi", "rdi", "rbp", "r8",
                     "r9", "r10", "r11", "r12", "r13", "r14", "r15",
                     "cr0", "cr2", "cr3", "cr4">>

\* exc_wrap_err leaves the place of the error code to the CPU. The wrappers of
\* 21 and 29 do not use it (wrapper_exc.asm:102,110): see Expected.
WithError == {8, 10, 11, 12, 13, 14, 17, 30}
Wrapped(v) == (IF v \in WithError THEN <<>> ELSE <<"0">>)
                \o <<"rax", "rbx", "rcx", "rdx", "rsi", "rdi", "rbp", "r8",
                     "r9", "r10", "r11", "r12", "r13", "r14", "r15",
                     "cr0", "cr2", "cr3", "cr4">>

\* struct dump_data, which debug_crash lays over the stack.
DumpData == <<"cr4", "cr3", "cr2", "cr0", "r15", "r14", "r13", "r12", "r11",
              "r10", "r9", "r8", "rbp", "rdi", "rsi", "rdx", "rcx", "rbx",
              "rax", "err", "rip", "cs", "rflags", "rsp", "ss">>

Dump(words, field) ==
  words[Len(words) + 1 - CHOOSE n \in DOMAIN DumpData : DumpData[n] = field]

\* The fields in the order in which debug_crash prints them.
Rows == <<"err", "rax", "rbx", "rcx", "rdx", "rsp", "rbp", "rsi", "rdi", "r8",
          "r9", "r10", "r11", "r12", "r13", "r14", "r15", "rip", "rflags",
          "cr0", "cr2", "cr3", "cr4", "cs", "ss">>

\* The strings of all rows, three for each.
CrashLines(words) ==
  [n \in 1..(3 * Len(Rows)) |->
     LET field == Rows[((n - 1) \div 3) + 1]
     IN print_msg(field, Dump(words, field))[((n - 1) % 3) + 1]]

debug_crash(words) ==
  print_msg("CRASH", "") \o print_msg("name", " EXCEPTION")
    \o Debugged(CrashLines(words))

\* Port accesses, the store to ctx and the endless loops cannot fault. An NMI
\* comes anywhere, but no second one before an iret, which never comes.
Possible(v) ==
  IF v = 2 THEN "nmi" \in Quirk /\ vector # 2
           ELSE pc \in Main \ SerialInit

\* Before interrupts_init there is no IDT and the machine resets. After it the
\* wrapper is entered on the same stack (no IST), and what it interrupted, main
\* or the report of another exception, is never returned to.
Exception(v) ==
  /\ pc \in Main \cup {"loop", "report", "halted"} /\ Possible(v)
  /\ vector' = v
  /\ LET words == stack \o Frame(v) \o Wrapped(v) IN
     IF pc = "interrupts_init"
     THEN pc' = "reset" /\ UNCHANGED <<todo, stack>>
     ELSE pc' = "report" /\ stack' = words /\ serial_print(debug_crash(words))
  /\ UNCHANGED <<build, port, opened, result, written, uartVars>>

Halt == /\ Goto("report", "halted")
        /\ UNCHANGED <<build, port, opened, result, todo, written, uartVars,
                       crashVars>>

Kernel == \/ InterruptsInit \/ ReadBda \/ Configure \/ EnterLoopback
          \/ SendTest \/ CheckTest \/ PublishPort \/ LeaveLoopback
          \/ MmInit \/ Started \/ MmPeek \/ serial_putc \/ Halt

Next == \/ Kernel \/ Shift \/ Input
        \/ \E v \in Vectors : Exception(v)

\* The CPU goes on and the UART sends what it was given.
Spec == Init /\ [][Next]_vars /\ WF_vars(Kernel) /\ WF_vars(Shift)

-----------------------------------------------------------------------------
(* Properties.                                                             *)

\* Every variable stays in its range, and the UART is never given more than
\* it can hold.
TypeOK == /\ build \in {"DEBUG", "release"} /\ port \in {"none", "dead", "uart"}
          /\ pc \in Pc /\ opened \in BOOLEAN
          /\ result \in {"none", "0", "EIO"} /\ loopback \in BOOLEAN
          /\ Len(held) <= FifoSize
          /\ vector \in Vectors \cup {-1}
          /\ (opened => port = "uart")

\* Of a port that serial_init has returned 0 for: what serial_putc wrote is on
\* the wire or on its way there, each character once and in order, as the
\* polling of serial.c:59 loses none.
LogIsWhole == result = "0" => wire \o held = written

\* "Print crash message via initialized debug interface" (debug.h:75): when
\* the handler has come to its endless loop, such a port has carried the whole
\* report of the last exception, whatever main, or the report of an earlier one,
\* was printing when it came. (An NMI between serial.c:98 and serial.c:100 is
\* reported to a port still in loopback mode.)
CrashIsReported ==
  pc = "halted" /\ result = "0" => IsSuffix(debug_crash(stack), wire \o held)
                                   /\ ~loopback

\* The report names every register with the value it had: the order of the
\* pushes of the CPU and the wrapper is that of struct dump_data, with and
\* without an error code. (Left out are 21 and 29, of which the CPU pushes an
\* error code that the wrapper does not expect: every field above it is one
\* place off. They need CET and SEV-ES, which nothing here turns on.)
Expected(v) == v \in PushesError <=> v \in WithError
Truth(v, field) == IF field = "err" /\ v \notin PushesError THEN "0" ELSE field
ReportIsTrue ==
  pc \in {"report", "halted"} /\ Expected(vector) =>
     \A n \in DOMAIN Rows : Dump(stack, Rows[n]) = Truth(vector, Rows[n])

\* The kernel comes to one of its endless loops with everything it printed
\* sent: no poll waits forever.
Settled == \/ pc = "reset"
           \/ /\ pc \in {"loop", "halted"} /\ todo = <<>>
              /\ result = "0" => wire = written
KernelSettles == <>Settled
=============================================================================
