-------------------------- MODULE KernelLogProofs --------------------------
(***************************************************************************)
(* Proofs about KernelLog, for UARTs of any size, any number of free       *)
(* regions and all quirks.                                                 *)
(***************************************************************************)
EXTENDS KernelLog, SequenceTheorems, TLAPS

-----------------------------------------------------------------------------
(* Sequences.                                                              *)

\* A character goes from the front of one queue to the end of another.
LEMMA MoveHead ==
  ASSUME NEW S, NEW s \in Seq(S), NEW t \in Seq(S), t # <<>>
  PROVE  /\ Append(s, Head(t)) \in Seq(S) /\ Tail(t) \in Seq(S)
         /\ Append(s, Head(t)) \o Tail(t) = s \o t
<1>1. Head(t) \in S /\ Tail(t) \in Seq(S) /\ t = <<Head(t)>> \o Tail(t)
  BY HeadTailProperties, SubSeqFull, SubSeqRecursiveFirst, TailIsSubSeq
<1>2. Append(s, Head(t)) = s \o <<Head(t)>> /\ Append(s, Head(t)) \in Seq(S)
  BY <1>1, AppendIsConcat, AppendProperties
<1>3. <<Head(t)>> \in Seq(S)
  BY <1>1
<1>4. (s \o <<Head(t)>>) \o Tail(t) = s \o (<<Head(t)>> \o Tail(t))
  BY <1>1, <1>3, ConcatAssociative
<1> QED
  BY <1>1, <1>2, <1>4

-----------------------------------------------------------------------------
(* The log.                                                                *)

\* The steps before the port is known to work.
Early == {"interrupts_init", "bda", "configure", "loopback", "data", "check",
          "publish", "restore"}

Ranges == /\ build \in {"DEBUG", "release"} /\ port \in {"none", "dead", "uart"}
          /\ pc \in Pc /\ opened \in BOOLEAN
          /\ result \in {"none", "0", "EIO"} /\ loopback \in BOOLEAN
          /\ vector \in Vectors \cup {-1}

Sequences == \E S : /\ held \in Seq(S) /\ rbr \in Seq(S)
                    /\ wire \in Seq(S) /\ written \in Seq(S)

\* What serial_init relies on, step by step: nothing was printed before it, so
\* that the one character in the UART is its test.
EarlyInv ==
  pc \in Early =>
    /\ wire = <<>> /\ written = <<>> /\ todo = <<>> /\ result = "none"
    /\ pc # "check" => held = <<>>
    /\ pc \in {"data", "check", "publish", "restore"} => loopback
    /\ pc \in {"data", "check"} => \/ held = <<>>
                                   \/ held = <<"test">> /\ rbr = <<>>
                                   \/ held = <<"test">> /\ rbr = <<"input">>
    /\ pc \in {"loopback", "data"} => rbr \in {<<>>, <<"input">>}
    /\ pc \in {"publish", "restore"} => port = "uart"
    /\ opened <=> pc = "restore"

LogInv ==
  /\ Ranges /\ Sequences /\ EarlyInv
  /\ Len(held) <= FifoSize
  /\ opened => port = "uart"
  /\ port # "uart" => held = <<>> /\ rbr = <<>>
  /\ result = "0" => opened /\ ~loopback /\ wire \o held = written

LEMMA LogInit == Init => LogInv
<1> SUFFICES ASSUME Init PROVE LogInv
  OBVIOUS
<1>1. Sequences
  <2>1. <<>> \in Seq({})
    BY EmptySeq
  <2> QED
    BY <2>1 DEF Init, Sequences
<1>2. Ranges
  BY DEF Init, Ranges, Pc, Main
<1>3. EarlyInv
  BY DEF Init, EarlyInv, Early
<1>4. Len(held) = 0
  BY DEF Init
<1> QED
  BY <1>1, <1>2, <1>3, <1>4, SizeAssumption DEF Init, LogInv

LEMMA ShiftStep == ASSUME LogInv, Shift PROVE LogInv'
<1>1. PICK S : /\ held \in Seq(S) /\ rbr \in Seq(S)
               /\ wire \in Seq(S) /\ written \in Seq(S)
  BY DEF LogInv, Sequences
<1>2. /\ held # <<>> /\ held' = Tail(held)
      /\ UNCHANGED <<build, port, pc, opened, result, todo, written, loopback, vector>>
      /\ loopback => rbr' = Append(rbr, Head(held)) /\ wire' = wire
      /\ ~loopback => wire' = Append(wire, Head(held)) /\ rbr' = rbr
  BY DEF Shift, progVars, crashVars
<1>3. /\ Append(rbr, Head(held)) \in Seq(S) /\ Append(wire, Head(held)) \in Seq(S)
      /\ Append(wire, Head(held)) \o Tail(held) = wire \o held
      /\ Tail(held) \in Seq(S)
  BY <1>1, <1>2, MoveHead
<1>4. Sequences'
  <2>1. held' \in Seq(S) /\ rbr' \in Seq(S) /\ wire' \in Seq(S) /\ written' \in Seq(S)
    BY <1>1, <1>2, <1>3 DEF LogInv, Ranges
  <2> QED
    BY <2>1 DEF Sequences
<1>5. Len(held') <= FifoSize
  <2>1. Len(Tail(held)) = Len(held) - 1 /\ Len(held) \in Nat
    BY <1>1, <1>2, HeadTailProperties, LenProperties
  <2> QED
    BY <1>2, <2>1, SizeAssumption DEF LogInv
<1>6. EarlyInv'
  <2> SUFFICES ASSUME pc \in Early PROVE EarlyInv'
    BY <1>2 DEF EarlyInv
  <2>1. pc = "check" /\ held = <<"test">> /\ loopback
    BY <1>2 DEF LogInv, EarlyInv
  <2>2. held' = <<>> /\ wire' = wire
    BY <1>2, <2>1
  <2> QED
    BY <1>2, <2>1, <2>2 DEF LogInv, EarlyInv, Early
<1>7. Ranges'
  BY <1>2 DEF LogInv, Ranges
<1>8. port = "uart"
  BY <1>2 DEF LogInv
<1> QED
  BY <1>2, <1>3, <1>4, <1>5, <1>6, <1>7, <1>8 DEF LogInv

LEMMA InputStep == ASSUME LogInv, Input PROVE LogInv'
<1>1. PICK S : /\ held \in Seq(S) /\ rbr \in Seq(S)
               /\ wire \in Seq(S) /\ written \in Seq(S)
  BY DEF LogInv, Sequences
<1>2. /\ rbr' = <<"input">> /\ rbr = <<>> /\ port = "uart" /\ ~loopback
      /\ UNCHANGED <<build, port, pc, opened, result, todo, written, loopback,
                     held, wire, vector>>
  BY DEF Input, progVars, crashVars
<1>3. Sequences'
  <2> DEFINE T == S \cup {"input"}
  <2>1. held \in Seq(T) /\ wire \in Seq(T) /\ written \in Seq(T)
    BY <1>1, SeqMonotonic
  <2>2. <<"input">> \in Seq(T)
    OBVIOUS
  <2> HIDE DEF T
  <2> QED
    BY <1>2, <2>1, <2>2 DEF Sequences
<1>4. EarlyInv' /\ Ranges'
  BY <1>2 DEF LogInv, EarlyInv, Ranges
<1> QED
  BY <1>2, <1>3, <1>4 DEF LogInv

\* Where nothing is held the UART takes what it is given, or is not there.
LEMMA WriteFacts ==
  ASSUME NEW c, WriteData(c), held = <<>>
  PROVE  /\ port = "uart" => held' = <<c>>
         /\ port # "uart" => held' = <<>>
         /\ Len(held') <= FifoSize
<1>1. Len(held) = 0 /\ Append(held, c) = <<c>>
  OBVIOUS
<1>2. port = "uart" => held' = <<c>>
  BY <1>1, SizeAssumption DEF WriteData
<1>3. port # "uart" => held' = <<>>
  BY DEF WriteData
<1>4. Len(<<c>>) = 1 /\ Len(<<>>) = 0
  OBVIOUS
<1> QED
  BY <1>2, <1>3, <1>4, SizeAssumption

LEMMA PutcStep == ASSUME LogInv, serial_putc PROVE LogInv'
<1>1. PICK S : /\ held \in Seq(S) /\ rbr \in Seq(S)
               /\ wire \in Seq(S) /\ written \in Seq(S)
  BY DEF LogInv, Sequences
<1> DEFINE c == Head(todo)
           T == S \cup {c}
<1>2. /\ todo # <<>> /\ TxEmpty /\ WriteData(c) /\ written' = Append(written, c)
      /\ UNCHANGED <<build, port, pc, opened, result, loopback, rbr, wire, vector>>
  BY DEF serial_putc, crashVars
<1>3. /\ held \in Seq(T) /\ wire \in Seq(T) /\ written \in Seq(T) /\ rbr \in Seq(T)
      /\ c \in T
  BY <1>1, SeqMonotonic
<1> HIDE DEF T, c
<1>4. /\ held = <<>>
      /\ port = "uart" => held' = <<c>>
      /\ port # "uart" => held' = <<>>
      /\ Len(held') <= FifoSize
  BY <1>2, WriteFacts DEF TxEmpty, LogInv
<1>5. Append(written, c) \in Seq(T) /\ Append(written, c) = written \o <<c>>
      /\ <<c>> \in Seq(T) /\ <<>> \in Seq(T)
  BY <1>3, AppendProperties, AppendIsConcat, EmptySeq
<1>6. Sequences'
  BY <1>2, <1>3, <1>4, <1>5 DEF Sequences
<1>7. result = "0" => wire' \o held' = written'
  <2>1. wire \o <<>> = wire
    BY <1>3, ConcatEmptySeq
  <2> QED
    BY <1>2, <1>4, <1>5, <2>1 DEF LogInv
<1>8. pc \notin Early
  BY <1>2 DEF LogInv, EarlyInv
<1>9. Ranges' /\ EarlyInv'
  BY <1>2, <1>8 DEF LogInv, Ranges, EarlyInv
<1> QED
  BY <1>2, <1>4, <1>6, <1>7, <1>9 DEF LogInv

LEMMA LogNext == LogInv /\ [Next]_vars => LogInv'
<1> SUFFICES ASSUME LogInv, [Next]_vars PROVE LogInv'
  OBVIOUS
<1> USE DEF Goto, uartVars, progVars, crashVars
<1>1. CASE InterruptsInit \/ ReadBda
  <2>1. UNCHANGED <<build, port, opened, todo, written, uartVars, vector>>
    BY <1>1 DEF InterruptsInit, ReadBda
  <2>2. \/ pc = "interrupts_init" /\ pc' = "bda" /\ result' = result
        \/ pc = "bda" /\ pc' = "configure" /\ result' = result
        \/ pc = "bda" /\ pc' = "mm_init" /\ result' = "EIO"
    BY <1>1 DEF InterruptsInit, ReadBda
  <2>3. Sequences' /\ Ranges'
    BY <2>1, <2>2 DEF LogInv, Sequences, Ranges, Pc, Main, SerialInit
  <2>4. EarlyInv'
    BY <2>1, <2>2 DEF LogInv, EarlyInv, Early
  <2> QED
    BY <2>1, <2>2, <2>3, <2>4 DEF LogInv, EarlyInv, Early
<1>2. CASE Configure
  <2>1. /\ UNCHANGED <<build, port, opened, result, todo, written, wire, vector>>
        /\ held' = <<>> /\ rbr' = <<>> /\ loopback' = FALSE
        /\ pc = "configure" /\ pc' = "loopback"
    BY <1>2 DEF Configure
  <2>2. Sequences'
    BY <2>1, EmptySeq DEF LogInv, Sequences
  <2>3. Ranges'
    BY <2>1 DEF LogInv, Ranges, Pc, Main, SerialInit
  <2>4. EarlyInv'
    BY <2>1 DEF LogInv, EarlyInv, Early
  <2>5. result = "none" /\ Len(<<>>) = 0
    BY <2>1 DEF LogInv, EarlyInv, Early
  <2> QED
    BY <2>1, <2>2, <2>3, <2>4, <2>5, SizeAssumption DEF LogInv
<1>3. CASE EnterLoopback
  <2>1. /\ UNCHANGED <<build, port, opened, result, todo, written, wire, vector,
                       held, rbr>>
        /\ loopback' = TRUE /\ pc = "loopback" /\ pc' = "data"
    BY <1>3 DEF EnterLoopback
  <2>2. Sequences' /\ Ranges'
    BY <2>1 DEF LogInv, Ranges, Pc, Main, SerialInit, Sequences
  <2>3. EarlyInv' /\ result = "none"
    BY <2>1 DEF LogInv, EarlyInv, Early
  <2> QED
    BY <2>1, <2>2, <2>3 DEF LogInv
<1>4. CASE SendTest
  <2>1. /\ UNCHANGED <<build, port, opened, result, todo, written, wire, vector,
                       loopback, rbr>>
        /\ WriteData("test") /\ pc = "data" /\ pc' = "check"
    BY <1>4 DEF SendTest
  <2>2. held = <<>> /\ result = "none" /\ loopback /\ rbr \in {<<>>, <<"input">>}
    BY <2>1 DEF LogInv, EarlyInv, Early
  <2>3. /\ held' \in {<<>>, <<"test">>} /\ Len(held') <= FifoSize
        /\ port # "uart" => held' = <<>>
    BY <2>1, <2>2, WriteFacts
  <2>4. Sequences'
    <3>1. PICK S : /\ held \in Seq(S) /\ rbr \in Seq(S)
                   /\ wire \in Seq(S) /\ written \in Seq(S)
      BY DEF LogInv, Sequences
    <3> DEFINE T == S \cup {"test"}
    <3>2. rbr \in Seq(T) /\ wire \in Seq(T) /\ written \in Seq(T)
      BY <3>1, SeqMonotonic
    <3>3. <<>> \in Seq(T) /\ <<"test">> \in Seq(T)
      BY EmptySeq
    <3> HIDE DEF T
    <3> QED
      BY <2>1, <2>3, <3>2, <3>3 DEF Sequences
  <2>5. Ranges'
    BY <2>1 DEF LogInv, Ranges, Pc, Main, SerialInit
  <2>6. EarlyInv'
    BY <2>1, <2>2, <2>3 DEF LogInv, EarlyInv, Early
  <2> QED
    BY <2>1, <2>2, <2>3, <2>4, <2>5, <2>6 DEF LogInv
<1>5. CASE CheckTest
  <2>1. /\ UNCHANGED <<build, port, opened, todo, written, wire, vector,
                       loopback, held>>
        /\ rbr' = IF rbr = <<>> THEN <<>> ELSE Tail(rbr)
        /\ pc = "check"
        /\ \/ TestReturned /\ pc' = "publish" /\ UNCHANGED result
           \/ pc' = "mm_init" /\ result' = "EIO"
    BY <1>5 DEF CheckTest
  <2>2. Sequences'
    <3>1. PICK S : /\ held \in Seq(S) /\ rbr \in Seq(S)
                   /\ wire \in Seq(S) /\ written \in Seq(S)
      BY DEF LogInv, Sequences
    <3>2. rbr' \in Seq(S)
      BY <2>1, <3>1, EmptySeq, HeadTailProperties
    <3> QED
      BY <2>1, <3>1, <3>2 DEF Sequences
  <2>3. TestReturned => held = <<>> /\ port = "uart" /\ rbr # <<>>
    <3>1. Head(<<"input">>) = "input" /\ "input" # "test"
      OBVIOUS
    <3> QED
      BY <2>1, <3>1 DEF LogInv, EarlyInv, Early, TestReturned
  <2>4. Ranges'
    BY <2>1 DEF LogInv, Ranges, Pc, Main, SerialInit
  <2>5. EarlyInv'
    BY <2>1, <2>3 DEF LogInv, EarlyInv, Early
  <2>6. result = "none" /\ (port # "uart" => rbr' = <<>>)
    BY <2>1 DEF LogInv, EarlyInv, Early
  <2> QED
    BY <2>1, <2>2, <2>4, <2>5, <2>6 DEF LogInv
<1>6. CASE PublishPort
  <2>1. /\ UNCHANGED <<build, port, result, todo, written, wire, vector,
                       loopback, held, rbr>>
        /\ opened' = TRUE /\ pc = "publish" /\ pc' = "restore"
    BY <1>6 DEF PublishPort
  <2>2. Sequences' /\ Ranges'
    BY <2>1 DEF LogInv, Ranges, Pc, Main, SerialInit, Sequences
  <2>3. EarlyInv' /\ result = "none" /\ port = "uart"
    BY <2>1 DEF LogInv, EarlyInv, Early
  <2> QED
    BY <2>1, <2>2, <2>3 DEF LogInv
<1>7. CASE LeaveLoopback
  <2>1. /\ UNCHANGED <<build, port, opened, todo, written, wire, vector, held, rbr>>
        /\ loopback' = FALSE /\ result' = "0" /\ pc = "restore" /\ pc' = "mm_init"
    BY <1>7 DEF LeaveLoopback
  <2>2. Sequences' /\ Ranges'
    BY <2>1 DEF LogInv, Ranges, Pc, Main, SerialInit, Sequences
  <2>3. EarlyInv' /\ opened /\ wire = <<>> /\ held = <<>> /\ written = <<>>
    BY <2>1 DEF LogInv, EarlyInv, Early
  <2>4. <<>> \o <<>> = <<>>
    BY EmptySeq, ConcatEmptySeq
  <2> QED
    BY <2>1, <2>2, <2>3, <2>4 DEF LogInv
<1>8. CASE MmInit \/ Started \/ MmPeek \/ Halt
  <2>1. /\ UNCHANGED <<build, port, opened, result, written, uartVars, vector>>
        /\ pc \notin Early /\ pc' \notin Early /\ pc' \in Pc
    BY <1>8 DEF MmInit, Started, MmPeek, Say, Halt, Early, Pc, Main, SerialInit
  <2> QED
    BY <2>1 DEF LogInv, Ranges, Sequences, EarlyInv
<1>9. ASSUME NEW v \in Vectors, Exception(v) PROVE LogInv'
  <2>1. /\ UNCHANGED <<build, port, opened, result, written, uartVars>>
        /\ vector' = v /\ pc' \in {"reset", "report"}
    BY <1>9 DEF Exception
  <2>2. pc' \notin Early /\ pc' \in Pc
    BY <2>1 DEF Early, Pc, Main, SerialInit
  <2> QED
    BY <2>1, <2>2 DEF LogInv, Ranges, Sequences, EarlyInv
<1>10. CASE UNCHANGED vars
  BY <1>10 DEF vars, LogInv, Ranges, Sequences, EarlyInv
<1> QED
  BY <1>1, <1>2, <1>3, <1>4, <1>5, <1>6, <1>7, <1>8, <1>9, <1>10, ShiftStep,
     InputStep, PutcStep DEF Next, Kernel

\* Whatever the UART holds and the machine does, the kernel writes no more to
\* the UART than it can hold.
THEOREM TypeCorrect == Spec => []TypeOK
<1>1. LogInv => TypeOK
  BY DEF LogInv, Ranges, TypeOK
<1> QED
  BY <1>1, LogInit, LogNext, PTL DEF Spec

\* Whatever the machine does: what was written to a port that works is on the
\* wire or in the UART, each character once and in order.
THEOREM LogReachesWire == Spec => []LogIsWhole
<1>1. LogInv => LogIsWhole
  BY DEF LogInv, LogIsWhole
<1> QED
  BY <1>1, LogInit, LogNext, PTL DEF Spec

-----------------------------------------------------------------------------
(* The report.                                                             *)

\* Concatenation, when the provers need not look into it.
Cat(s, t) == s \o t

\* The words the CPU and the wrapper push around the error code or its place.
Below == <<"ss", "rsp", "rflags", "cs", "rip">>
Above == <<"rax", "rbx", "rcx", "rdx", "rsi", "rdi", "rbp", "r8",
           "r9", "r10", "r11", "r12", "r13", "r14", "r15",
           "cr0", "cr2", "cr3", "cr4">>
Names == {"ss", "rsp", "rflags", "cs", "rip", "err", "0", "rax", "rbx", "rcx",
          "rdx", "rsi", "rdi", "rbp", "r8", "r9", "r10", "r11", "r12", "r13",
          "r14", "r15", "cr0", "cr2", "cr3", "cr4"}
ErrorCode(v) == IF v \in PushesError THEN "err" ELSE "0"
Pushed(v) == Cat(Below, Cat(<<ErrorCode(v)>>, Above))

LEMMA CatAt ==
  ASSUME NEW S, NEW s \in Seq(S), NEW t \in Seq(S)
  PROVE  /\ Cat(s, t) \in Seq(S) /\ Len(Cat(s, t)) = Len(s) + Len(t)
         /\ \A j \in 1..(Len(s) + Len(t)) :
              Cat(s, t)[j] = IF j <= Len(s) THEN s[j] ELSE t[j - Len(s)]
  BY ConcatProperties DEF Cat

LEMMA Parts == /\ Below \in Seq(Names) /\ Len(Below) = 5
               /\ Above \in Seq(Names) /\ Len(Above) = 19
<1>1. Below \in Seq(Names)
  BY DEF Below, Names
<1>2. Len(Below) = 5
  BY DEF Below
<1>3. Above \in Seq(Names)
  BY DEF Above, Names
<1>4. Len(Above) = 19
  BY DEF Above
<1> QED
  BY <1>1, <1>2, <1>3, <1>4

LEMMA PushesAreNames ==
  ASSUME NEW v
  PROVE  Frame(v) \in Seq(Names) /\ Wrapped(v) \in Seq(Names)
<1>1. /\ Below \in Seq(Names) /\ Above \in Seq(Names) /\ <<>> \in Seq(Names)
      /\ <<"err">> \in Seq(Names) /\ <<"0">> \in Seq(Names)
  BY Parts, EmptySeq DEF Names
<1>2. /\ Frame(v) = Below \o IF v \in PushesError THEN <<"err">> ELSE <<>>
      /\ Wrapped(v) = (IF v \in WithError THEN <<>> ELSE <<"0">>) \o Above
  BY DEF Frame, Below, Wrapped, Above
<1> QED
  BY <1>1, <1>2, ConcatProperties

LEMMA PushedIs ==
  ASSUME NEW v, Expected(v)
  PROVE  /\ Pushed(v) \in Seq(Names)
         /\ Frame(v) \o Wrapped(v) = Pushed(v)
<1>1. /\ Below \in Seq(Names) /\ Above \in Seq(Names) /\ <<>> \in Seq(Names)
      /\ <<"err">> \in Seq(Names) /\ <<"0">> \in Seq(Names)
  BY Parts, EmptySeq DEF Names
<1>2. CASE v \in PushesError
  <2>1. Frame(v) = Below \o <<"err">>
    BY <1>2 DEF Frame, Below
  <2>2. Wrapped(v) = <<>> \o Above
    BY <1>2 DEF Wrapped, Above, Expected
  <2>3. Wrapped(v) = Above /\ <<"err">> \o Above \in Seq(Names)
    BY <1>1, <2>2, ConcatEmptySeq, ConcatProperties
  <2>4. Pushed(v) = Below \o (<<"err">> \o Above)
    BY <1>2 DEF Pushed, ErrorCode, Cat
  <2> QED
    BY <1>1, <2>1, <2>3, <2>4, ConcatAssociative, ConcatProperties
<1>3. CASE v \notin PushesError
  <2>1. Frame(v) = Below \o <<>>
    BY <1>3 DEF Frame, Below
  <2>2. Wrapped(v) = <<"0">> \o Above
    BY <1>3 DEF Wrapped, Above, Expected
  <2>3. Frame(v) = Below /\ <<"0">> \o Above \in Seq(Names)
    BY <1>1, <2>1, ConcatEmptySeq, ConcatProperties
  <2>4. Pushed(v) = Below \o (<<"0">> \o Above)
    BY <1>3 DEF Pushed, ErrorCode, Cat
  <2> QED
    BY <1>1, <2>2, <2>3, <2>4, ConcatProperties
<1> QED
  BY <1>2, <1>3

\* The pushes are struct dump_data, from its end.
LEMMA PushedAt ==
  ASSUME NEW v
  PROVE  /\ Len(Pushed(v)) = 25
         /\ \A k \in 1..25 : Pushed(v)[26 - k] = Truth(v, DumpData[k])
<1> DEFINE E == <<ErrorCode(v)>>
<1>1. E \in Seq(Names) /\ Len(E) = 1 /\ E[1] = ErrorCode(v)
  BY DEF ErrorCode, Names
<1> HIDE DEF E
<1> DEFINE R == Cat(E, Above)
<1>2. /\ R \in Seq(Names) /\ Len(R) = 20
      /\ R[1] = ErrorCode(v)
      /\ \A j \in 2..20 : R[j] = Above[j - 1]
  <2>1. /\ R \in Seq(Names) /\ Len(R) = Len(E) + Len(Above)
        /\ \A j \in 1..(Len(E) + Len(Above)) :
             R[j] = IF j <= Len(E) THEN E[j] ELSE Above[j - Len(E)]
    BY <1>1, Parts, CatAt
  <2> HIDE DEF R
  <2>2. Len(E) + Len(Above) = 20
    BY <1>1, Parts
  <2>3. R[1] = E[1]
    BY <1>1, <2>1, <2>2
  <2>4. ASSUME NEW j \in 2..20 PROVE R[j] = Above[j - 1]
    BY <1>1, <2>1, <2>2
  <2> QED
    BY <1>1, <2>1, <2>2, <2>3, <2>4
<1>3. /\ Len(Pushed(v)) = 25
      /\ \A j \in 1..5 : Pushed(v)[j] = Below[j]
      /\ \A j \in 6..25 : Pushed(v)[j] = R[j - 5]
  <2>1. Pushed(v) = Cat(Below, R)
    BY DEF Pushed, E
  <2> HIDE DEF R
  <2>2. /\ Len(Cat(Below, R)) = Len(Below) + Len(R)
        /\ \A j \in 1..(Len(Below) + Len(R)) :
             Cat(Below, R)[j] = IF j <= Len(Below) THEN Below[j]
                                ELSE R[j - Len(Below)]
    BY <1>2, Parts, CatAt
  <2> QED
    BY <1>2, <2>1, <2>2, Parts
<1> HIDE DEF R
<1>4. ASSUME NEW k \in 21..25
      PROVE  Below[26 - k] = DumpData[k] /\ DumpData[k] # "err"
  <2>1. k = 21 \/ k = 22 \/ k = 23 \/ k = 24 \/ k = 25
    OBVIOUS
  <2> QED
    BY <2>1 DEF Below, DumpData
<1>5. DumpData[20] = "err"
  BY DEF DumpData
<1>6. ASSUME NEW k \in 1..19
      PROVE  Above[20 - k] = DumpData[k] /\ DumpData[k] # "err"
  <2>1. CASE k \in 1..10
    <3>1. \/ k = 1 \/ k = 2 \/ k = 3 \/ k = 4 \/ k = 5 \/ k = 6 \/ k = 7
          \/ k = 8 \/ k = 9 \/ k = 10
      BY <2>1
    <3> QED
      BY <3>1 DEF Above, DumpData
  <2>2. CASE k \in 11..19
    <3>1. \/ k = 11 \/ k = 12 \/ k = 13 \/ k = 14 \/ k = 15 \/ k = 16
          \/ k = 17 \/ k = 18 \/ k = 19
      BY <2>2
    <3> QED
      BY <3>1 DEF Above, DumpData
  <2> QED
    BY <2>1, <2>2
<1>7. ASSUME NEW k \in 1..25
      PROVE  Pushed(v)[26 - k] = Truth(v, DumpData[k])
  <2>1. CASE k \in 21..25
    <3>1. 26 - k \in 1..5
      BY <2>1
    <3>2. Pushed(v)[26 - k] = Below[26 - k]
      BY <1>3, <3>1
    <3> QED
      BY <1>4, <2>1, <3>2 DEF Truth
  <2>2. CASE k = 20
    <3>1. Pushed(v)[6] = R[1]
      BY <1>3
    <3>2. 26 - k = 6
      BY <2>2
    <3> QED
      BY <1>2, <1>5, <2>2, <3>1, <3>2 DEF Truth, ErrorCode
  <2>3. CASE k \in 1..19
    <3>1. 26 - k \in 6..25 /\ (26 - k) - 5 = 21 - k
      BY <2>3
    <3>2. Pushed(v)[26 - k] = R[21 - k]
      BY <1>3, <3>1
    <3>3. 21 - k \in 2..20 /\ (21 - k) - 1 = 20 - k
      BY <2>3
    <3>4. R[21 - k] = Above[20 - k]
      BY <1>2, <3>3
    <3> QED
      BY <1>6, <2>3, <3>2, <3>4 DEF Truth
  <2> QED
    BY <2>1, <2>2, <2>3
<1> QED
  BY <1>3, <1>7

\* Every field that is printed is one of struct dump_data.
LEMMA RowsAreFields ==
  /\ Len(DumpData) = 25 /\ DOMAIN DumpData = 1..25
  /\ Len(Rows) = 25 /\ DOMAIN Rows = 1..25
  /\ \A n \in 1..25 : \E k \in 1..25 : DumpData[k] = Rows[n]
<1>1. Len(DumpData) = 25 /\ DOMAIN DumpData = 1..25
  BY DEF DumpData
<1>2. Len(Rows) = 25 /\ DOMAIN Rows = 1..25
  BY DEF Rows
<1>3. /\ DumpData[1] = "cr4" /\ DumpData[2] = "cr3" /\ DumpData[3] = "cr2"
      /\ DumpData[4] = "cr0" /\ DumpData[5] = "r15" /\ DumpData[6] = "r14"
      /\ DumpData[7] = "r13" /\ DumpData[8] = "r12" /\ DumpData[9] = "r11"
      /\ DumpData[10] = "r10" /\ DumpData[11] = "r9" /\ DumpData[12] = "r8"
      /\ DumpData[13] = "rbp"
  BY DEF DumpData
<1>4. /\ DumpData[14] = "rdi" /\ DumpData[15] = "rsi" /\ DumpData[16] = "rdx"
      /\ DumpData[17] = "rcx" /\ DumpData[18] = "rbx" /\ DumpData[19] = "rax"
      /\ DumpData[20] = "err" /\ DumpData[21] = "rip" /\ DumpData[22] = "cs"
      /\ DumpData[23] = "rflags" /\ DumpData[24] = "rsp" /\ DumpData[25] = "ss"
  BY DEF DumpData
<1>5. /\ Rows[1] = "err" /\ Rows[2] = "rax" /\ Rows[3] = "rbx" /\ Rows[4] = "rcx"
      /\ Rows[5] = "rdx" /\ Rows[6] = "rsp" /\ Rows[7] = "rbp" /\ Rows[8] = "rsi"
      /\ Rows[9] = "rdi" /\ Rows[10] = "r8" /\ Rows[11] = "r9" /\ Rows[12] = "r10"
      /\ Rows[13] = "r11"
  BY DEF Rows
<1>6. /\ Rows[14] = "r12" /\ Rows[15] = "r13" /\ Rows[16] = "r14"
      /\ Rows[17] = "r15" /\ Rows[18] = "rip" /\ Rows[19] = "rflags"
      /\ Rows[20] = "cr0" /\ Rows[21] = "cr2" /\ Rows[22] = "cr3"
      /\ Rows[23] = "cr4" /\ Rows[24] = "cs" /\ Rows[25] = "ss"
  BY DEF Rows
<1>7. ASSUME NEW n \in 1..13 PROVE \E k \in 1..25 : DumpData[k] = Rows[n]
  <2>1. \/ n = 1 \/ n = 2 \/ n = 3 \/ n = 4 \/ n = 5 \/ n = 6 \/ n = 7
        \/ n = 8 \/ n = 9 \/ n = 10 \/ n = 11 \/ n = 12 \/ n = 13
    OBVIOUS
  <2> QED
    BY <1>3, <1>4, <1>5, <2>1
<1>8. ASSUME NEW n \in 14..25 PROVE \E k \in 1..25 : DumpData[k] = Rows[n]
  <2>1. \/ n = 14 \/ n = 15 \/ n = 16 \/ n = 17 \/ n = 18 \/ n = 19 \/ n = 20
        \/ n = 21 \/ n = 22 \/ n = 23 \/ n = 24 \/ n = 25
    OBVIOUS
  <2> QED
    BY <1>3, <1>4, <1>6, <2>1
<1> QED
  BY <1>1, <1>2, <1>7, <1>8

\* Whatever was on the stack before.
LEMMA DumpIsTrue ==
  ASSUME NEW v, Expected(v), NEW s \in Seq(Names), NEW n \in DOMAIN Rows
  PROVE  Dump(s \o Frame(v) \o Wrapped(v), Rows[n]) = Truth(v, Rows[n])
<1> DEFINE words == s \o Frame(v) \o Wrapped(v)
<1>1. /\ Pushed(v) \in Seq(Names) /\ Len(Pushed(v)) = 25
      /\ words = Cat(s, Pushed(v))
  <2>1. (s \o Frame(v)) \o Wrapped(v) = s \o (Frame(v) \o Wrapped(v))
    BY PushesAreNames, ConcatAssociative
  <2> QED
    BY <2>1, PushedIs, PushedAt DEF Cat
<1> HIDE DEF words
<1>2. PICK l \in Nat : l = Len(s)
  BY LenProperties
<1>3. /\ Len(words) = l + 25
      /\ \A j \in (l + 1)..(l + 25) : words[j] = Pushed(v)[j - l]
  <2>1. /\ Len(words) = Len(s) + Len(Pushed(v))
        /\ \A j \in 1..(Len(s) + Len(Pushed(v))) :
             words[j] = IF j <= Len(s) THEN s[j] ELSE Pushed(v)[j - Len(s)]
    BY <1>1, CatAt
  <2> QED
    BY <1>1, <1>2, <2>1
<1>4. PICK k : /\ k = CHOOSE m \in DOMAIN DumpData : DumpData[m] = Rows[n]
               /\ k \in 1..25 /\ DumpData[k] = Rows[n]
  BY RowsAreFields
<1>5. Dump(words, Rows[n]) = words[Len(words) + 1 - k]
  BY <1>4 DEF Dump
<1>6. /\ l + (26 - k) \in (l + 1)..(l + 25) /\ (l + (26 - k)) - l = 26 - k
      /\ Len(words) + 1 - k = l + (26 - k)
  <2>1. k \in 1..25 /\ l \in Nat /\ Len(words) = l + 25
    BY <1>3, <1>4
  <2> QED
    BY ONLY <2>1
<1>7. words[l + (26 - k)] = Pushed(v)[26 - k]
  BY <1>6, <1>3
<1>8. Dump(words, Rows[n]) = Truth(v, Rows[n])
  BY <1>4, <1>5, <1>6, <1>7, PushedAt
<1> QED
  BY <1>8 DEF words

StackInv == stack \in Seq(Names) /\ ReportIsTrue

LEMMA StackNext == StackInv /\ [Next]_vars => StackInv'
<1> SUFFICES ASSUME StackInv, [Next]_vars PROVE StackInv'
  OBVIOUS
<1>1. ASSUME NEW v \in Vectors, Exception(v) PROVE StackInv'
  <2>1. CASE pc' = "reset" /\ stack' = stack
    BY <2>1 DEF StackInv, ReportIsTrue
  <2>2. CASE stack' = stack \o Frame(v) \o Wrapped(v)
    <3>1. stack' \in Seq(Names)
      BY <2>2, PushesAreNames, ConcatProperties DEF StackInv
    <3>2. vector' = v
      BY <1>1 DEF Exception
    <3>3. Expected(v) =>
            \A n \in DOMAIN Rows : Dump(stack', Rows[n]) = Truth(v, Rows[n])
      BY <2>2, DumpIsTrue DEF StackInv
    <3> QED
      BY <3>1, <3>2, <3>3 DEF StackInv, ReportIsTrue, Dump, Truth, Expected
  <2> QED
    BY <1>1, <2>1, <2>2 DEF Exception
<1>2. CASE Kernel \/ Shift \/ Input \/ UNCHANGED vars
  <2>1. UNCHANGED <<vector, stack>>
    BY <1>2 DEF Kernel, Shift, Input, vars, crashVars, InterruptsInit, ReadBda,
       Configure, EnterLoopback, SendTest, CheckTest, PublishPort, LeaveLoopback,
       MmInit, Started, MmPeek, Say, serial_putc, Halt
  <2>2. pc' \in {"report", "halted"} => pc \in {"report", "halted"}
    BY <1>2 DEF Kernel, Shift, Input, vars, progVars, Goto, InterruptsInit, ReadBda,
       Configure, EnterLoopback, SendTest, CheckTest, PublishPort, LeaveLoopback,
       MmInit, Started, MmPeek, Say, serial_putc, Halt
  <2> QED
    BY <2>1, <2>2 DEF StackInv, ReportIsTrue, Dump, Truth, Expected
<1> QED
  BY <1>1, <1>2 DEF Next

\* The exceptions of which the wrapper expects what the CPU pushes.
LEMMA AllButTwo == \A v \in 0..31 : Expected(v) <=> v \notin {21, 29}
BY DEF Expected, PushesError, WithError

\* However deep the stack is, and whatever was on it, the report of an exception
\* shows what the registers held, for every one of which wrapper and CPU agree
\* whether there is an error code: all but 21 and 29 (AllButTwo).
THEOREM ReportsAreTrue == Spec => []ReportIsTrue
<1>1. Init => StackInv
  BY EmptySeq DEF Init, StackInv, ReportIsTrue
<1>2. StackInv => ReportIsTrue
  BY DEF StackInv
<1> QED
  BY <1>1, <1>2, StackNext, PTL DEF Spec

-----------------------------------------------------------------------------
(* The report on the wire.                                                 *)

LEMMA Triple == ASSUME NEW a, NEW b, NEW c
                PROVE  <<a, b, c>> \in Seq({a, b, c})
OBVIOUS

Sequential(s) == \E S : s \in Seq(S)

LEMMA ConcatSequential ==
  ASSUME NEW s, NEW t, Sequential(s), Sequential(t) PROVE Sequential(s \o t)
<1>1. PICK S : s \in Seq(S)
  BY DEF Sequential
<1>2. PICK T : t \in Seq(T)
  BY DEF Sequential
<1>3. s \in Seq(S \cup T) /\ t \in Seq(S \cup T)
  BY <1>1, <1>2, SeqMonotonic
<1>4. s \o t \in Seq(S \cup T)
  BY <1>3, ConcatProperties
<1> QED
  BY <1>4 DEF Sequential

LEMMA PrintSequential == ASSUME NEW a, NEW b PROVE Sequential(print_msg(a, b))
<1>1. PICK c : print_msg(a, b) = <<a, b, c>>
  BY Zenon DEF print_msg
<1>2. <<a, b, c>> \in Seq({a, b, c})
  BY Triple
<1> QED
  BY <1>1, <1>2, Zenon DEF Sequential

LEMMA LinesSequential == ASSUME NEW words PROVE Sequential(CrashLines(words))
<1> DEFINE f == CrashLines(words)
           S == {f[n] : n \in 1..75}
<1>1. Len(Rows) = 25
  BY DEF Rows
<1>2. f = [n \in 1..75 |-> f[n]]
  BY <1>1 DEF CrashLines
<1>3. \A n \in 1..75 : f[n] \in S
  OBVIOUS
<1> HIDE DEF f, S
<1>4. [n \in 1..75 |-> f[n]] \in Seq(S)
  BY <1>3
<1>5. f \in Seq(S)
  BY <1>2, <1>4
<1> QED
  BY <1>5 DEF Sequential, f

LEMMA CrashSequential == ASSUME NEW words PROVE Sequential(debug_crash(words))
<1>1. Sequential(Debugged(CrashLines(words)))
  <2>1. Sequential(<<>>)
    BY EmptySeq DEF Sequential
  <2> QED
    BY <2>1, LinesSequential DEF Debugged
<1>2. PICK a, b, c, d : debug_crash(words) =
        (print_msg(a, b) \o print_msg(c, d)) \o Debugged(CrashLines(words))
  BY Zenon DEF debug_crash
<1>3. Sequential(print_msg(a, b) \o print_msg(c, d))
  BY PrintSequential, ConcatSequential
<1> QED
  BY <1>1, <1>2, <1>3, ConcatSequential

LEMMA SuffixOfConcat ==
  ASSUME NEW S, NEW p \in Seq(S), NEW d \in Seq(S) PROVE IsSuffix(d, p \o d)
<1> DEFINE t == p \o d
           m == Len(d)
           l == Len(p)
<1>1. /\ t \in Seq(S) /\ Len(t) = l + m /\ m \in Nat /\ l \in Nat
      /\ \A j \in 1..(l + m) : t[j] = IF j <= l THEN p[j] ELSE d[j - l]
  BY ConcatProperties, LenProperties
<1>2. \A j \in 1..m : d[j] \in S
  BY ElementOfSeq
<1>3. \A j \in 1..(l + m) : t[j] \in S
  BY <1>1, ElementOfSeq
<1> HIDE DEF t, m, l
<1>4. /\ Reverse(d) = [j \in 1..m |-> d[(m - j) + 1]]
      /\ Reverse(t) = [j \in 1..(l + m) |-> t[((l + m) - j) + 1]]
  BY <1>1 DEF Reverse, m
<1>5. Len(Reverse(d)) = m /\ Len(Reverse(t)) = l + m
  BY <1>1, <1>4
<1>6. \A j \in 1..m : Reverse(d)[j] = d[(m - j) + 1] /\ Reverse(d)[j] \in S
  BY <1>1, <1>2, <1>4
<1>7. \A j \in 1..m : Reverse(t)[j] = d[(m - j) + 1] /\ Reverse(t)[j] \in S
  <2> SUFFICES ASSUME NEW j \in 1..m
               PROVE  Reverse(t)[j] = d[(m - j) + 1] /\ d[(m - j) + 1] \in S
    OBVIOUS
  <2>1. /\ ((l + m) - j) + 1 \in 1..(l + m) /\ ~(((l + m) - j) + 1 <= l)
        /\ (((l + m) - j) + 1) - l = (m - j) + 1 /\ j \in 1..(l + m)
        /\ (m - j) + 1 \in 1..m
    BY <1>1
  <2>2. t[((l + m) - j) + 1] = d[(m - j) + 1]
    BY <1>1, <2>1
  <2> QED
    BY <1>2, <1>4, <2>1, <2>2
<1>8. /\ SubSeq(Reverse(d), 1, m) \in Seq(S) /\ SubSeq(Reverse(t), 1, m) \in Seq(S)
      /\ Len(SubSeq(Reverse(d), 1, m)) = m /\ Len(SubSeq(Reverse(t), 1, m)) = m
      /\ \A j \in 1..m : SubSeq(Reverse(d), 1, m)[j] = Reverse(d)[1 + j - 1]
      /\ \A j \in 1..m : SubSeq(Reverse(t), 1, m)[j] = Reverse(t)[1 + j - 1]
  BY <1>1, <1>6, <1>7, SubSeqProperties
<1>9. \A j \in 1..m : SubSeq(Reverse(d), 1, m)[j] = SubSeq(Reverse(t), 1, m)[j]
  BY <1>1, <1>6, <1>7, <1>8
<1>10. SubSeq(Reverse(d), 1, m) = SubSeq(Reverse(t), 1, m)
  BY <1>8, <1>9, SeqEqual
<1> QED
  BY <1>1, <1>5, <1>10 DEF IsSuffix, IsPrefix, t

\* Of the report of the last exception a part is written and the rest is what
\* the running serial_print has still to send; `before` is what it interrupted.
Reporting ==
  \E S : \E before \in Seq(S), done \in Seq(S) :
     /\ todo \in Seq(S) /\ written = before \o done
     /\ debug_crash(stack) = done \o todo

ReportInv == /\ LogInv
             /\ pc = "halted" => todo = <<>>
             /\ pc \in {"report", "halted"} /\ result = "0" => Reporting

LEMMA PutcReports ==
  ASSUME LogInv, Reporting, serial_putc PROVE Reporting'
<1>1. PICK S : \E before \in Seq(S), done \in Seq(S) :
                 /\ todo \in Seq(S) /\ written = before \o done
                 /\ debug_crash(stack) = done \o todo
  BY DEF Reporting
<1>2. PICK before \in Seq(S), done \in Seq(S) :
         /\ todo \in Seq(S) /\ written = before \o done
         /\ debug_crash(stack) = done \o todo
  BY <1>1
<1>3. /\ todo # <<>> /\ todo' = Tail(todo) /\ written' = Append(written, Head(todo))
      /\ UNCHANGED <<build, stack>>
  BY DEF serial_putc, crashVars
<1> DEFINE more == Append(done, Head(todo))
<1>4. more \in Seq(S) /\ todo' \in Seq(S) /\ more \o todo' = done \o todo
  BY <1>2, <1>3, MoveHead
<1>5. written' = before \o more
  <2>1. Head(todo) \in S
    BY <1>2, <1>3, HeadTailProperties
  <2>2. <<Head(todo)>> \in Seq(S)
    BY <2>1
  <2>3. written' = written \o <<Head(todo)>> /\ more = done \o <<Head(todo)>>
    <3>1. written \in Seq(S)
      BY <1>2, ConcatProperties
    <3> QED
      BY <1>2, <1>3, <2>1, <3>1, AppendIsConcat
  <2>4. (before \o done) \o <<Head(todo)>> = before \o (done \o <<Head(todo)>>)
    BY <1>2, <2>2, ConcatAssociative
  <2> QED
    BY <1>2, <2>3, <2>4
<1>6. debug_crash(stack)' = debug_crash(stack)
  BY <1>3, Zenon DEF debug_crash, Debugged
<1> HIDE DEF more
<1>7. \E b \in Seq(S), d \in Seq(S) :
         /\ todo' \in Seq(S) /\ written' = b \o d /\ debug_crash(stack)' = d \o todo'
  BY <1>2, <1>4, <1>5, <1>6
<1> QED
  BY <1>7 DEF Reporting

LEMMA ExceptionReports ==
  ASSUME LogInv, NEW v \in Vectors, Exception(v), result = "0", pc' = "report"
  PROVE  Reporting'
<1>1. opened /\ UNCHANGED <<build, written>> /\ todo' = debug_crash(stack')
  <2>1. opened /\ UNCHANGED <<build, written>>
    BY DEF LogInv, Exception
  <2>2. CASE pc = "interrupts_init"
    BY <2>2 DEF Exception
  <2>3. CASE pc # "interrupts_init"
    <3>1. /\ stack' = stack \o Frame(v) \o Wrapped(v)
          /\ serial_print(debug_crash(stack \o Frame(v) \o Wrapped(v)))
      BY <2>3, Zenon DEF Exception
    <3> QED
      BY <2>1, <3>1, Zenon DEF serial_print
  <2> QED
    BY <2>1, <2>2, <2>3
<1>2. debug_crash(stack)' = todo'
  <2>1. debug_crash(stack)' = debug_crash(stack')
    BY <1>1, Zenon DEF debug_crash, Debugged
  <2> QED
    BY <1>1, <2>1
<1>3. PICK S : todo' \in Seq(S)
  BY <1>1, CrashSequential DEF Sequential
<1>4. PICK T : written \in Seq(T)
  BY DEF LogInv, Sequences
<1> DEFINE U == S \cup T
<1>5. written' \in Seq(U) /\ todo' \in Seq(U) /\ <<>> \in Seq(U)
  BY <1>1, <1>3, <1>4, SeqMonotonic, EmptySeq
<1> HIDE DEF U
<1>6. written' = written' \o <<>> /\ debug_crash(stack)' = <<>> \o todo'
  BY <1>2, <1>5, ConcatEmptySeq
<1> QED
  BY <1>5, <1>6 DEF Reporting

LEMMA ReportNext == ReportInv /\ [Next]_vars => ReportInv'
<1> SUFFICES ASSUME ReportInv, [Next]_vars PROVE ReportInv'
  OBVIOUS
<1>1. LogInv'
  BY LogNext DEF ReportInv
<1>2. CASE serial_putc
  <2>1. UNCHANGED <<pc, result>> /\ todo # <<>>
    BY <1>2 DEF serial_putc
  <2> QED
    BY <1>1, <1>2, <2>1, PutcReports DEF ReportInv
<1>3. ASSUME NEW v \in Vectors, Exception(v) PROVE ReportInv'
  <2>1. pc' \in {"report", "reset"} /\ result' = result
    BY <1>3 DEF Exception
  <2> QED
    BY <1>1, <1>3, <2>1, ExceptionReports DEF ReportInv
<1>4. CASE Shift \/ Input \/ Halt \/ UNCHANGED vars
  <2>1. UNCHANGED <<todo, written, stack, build, result>>
    BY <1>4 DEF Shift, Input, Halt, vars, progVars, crashVars
  <2>2. \/ pc' = pc
        \/ pc = "report" /\ pc' = "halted" /\ todo = <<>>
    BY <1>4 DEF Shift, Input, Halt, Goto, vars, progVars
  <2>3. Reporting => Reporting'
    <3>1. debug_crash(stack)' = debug_crash(stack)
      BY <2>1, Zenon DEF debug_crash, Debugged
    <3> QED
      BY <2>1, <3>1 DEF Reporting
  <2> QED
    BY <1>1, <2>1, <2>2, <2>3 DEF ReportInv
<1>5. CASE \/ InterruptsInit \/ ReadBda \/ Configure \/ EnterLoopback \/ SendTest
           \/ CheckTest \/ PublishPort \/ LeaveLoopback
           \/ MmInit \/ Started \/ MmPeek
  <2>1. pc' \notin {"report", "halted"}
    BY <1>5 DEF Goto, InterruptsInit, ReadBda, Configure, EnterLoopback, SendTest,
       CheckTest, PublishPort, LeaveLoopback, MmInit, Started, MmPeek, Say
  <2> QED
    BY <1>1, <2>1 DEF ReportInv
<1> QED
  BY <1>2, <1>3, <1>4, <1>5 DEF Next, Kernel

\* At whatever step an exception comes, also in the report of another one, its
\* report ends what has been given to a port that works.
THEOREM ReportsAreComplete == Spec => []CrashIsReported
<1>1. Init => ReportInv
  BY LogInit DEF Init, ReportInv
<1>2. ReportInv => CrashIsReported
  <2> SUFFICES ASSUME ReportInv, pc = "halted", result = "0"
               PROVE  IsSuffix(debug_crash(stack), wire \o held) /\ ~loopback
    BY Zenon DEF CrashIsReported
  <2>1. ~loopback /\ wire \o held = written /\ todo = <<>> /\ Reporting
    BY DEF ReportInv, LogInv
  <2>2. PICK S : \E before \in Seq(S), done \in Seq(S) :
                    /\ todo \in Seq(S) /\ written = before \o done
                    /\ debug_crash(stack) = done \o todo
    BY <2>1 DEF Reporting
  <2>3. PICK before \in Seq(S), done \in Seq(S) :
            /\ written = before \o done /\ debug_crash(stack) = done \o <<>>
    BY <2>1, <2>2
  <2>4. debug_crash(stack) = done
    BY <2>3, ConcatEmptySeq
  <2>5. IsSuffix(done, before \o done)
    BY SuffixOfConcat
  <2> QED
    BY <2>1, <2>3, <2>4, <2>5
<1> QED
  BY <1>1, <1>2, ReportNext, PTL DEF Spec
=============================================================================
