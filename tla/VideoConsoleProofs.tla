------------------------- MODULE VideoConsoleProofs -------------------------
(***************************************************************************)
(* Proofs about BootProbe and VideoConsole, for any machines: what the     *)
(* BIOS answers, the modes it lists and the size of the font.              *)
(***************************************************************************)
EXTENDS VideoConsole, SequenceTheorems, WellFoundedInduction, TLAPS

-----------------------------------------------------------------------------
(* Real mode.                                                              *)

\* As Candidates and Pixels, of the words that the search looks at.
Fit == {k \in DOMAIN Words :
          LET m == Words[k] IN /\ m.answered /\ m.is.bpp = 32 /\ m.is.supported
                               /\ m.is.height < TooHigh}
Size(k) == Words[k].is.width * Words[k].is.height

\* What the assumption says of the machine that the boot has met.
LEMMA MachineFacts ==
  ASSUME bios \in Bios
  PROVE  /\ Len(Words) \in Nat \ {0} /\ DOMAIN Words = 1..Len(Words)
         /\ \A k \in DOMAIN Words : Words[k] \in Mode
         /\ bios.legacy \in Mode /\ bios.zero \in Mode
         /\ bios.leftover \in Description
         /\ Len(bios.e820) \in Nat /\ bios.vbe \in Nat
<1>1. /\ Words \in Seq(Mode) /\ Words # <<>>
      /\ bios.legacy \in Mode /\ bios.zero \in Mode
      /\ bios.leftover \in Description
      /\ bios.e820 \in Seq(Range(bios.e820)) /\ bios.vbe \in Nat
  BY BiosAssumption DEF Words
<1>2. Len(Words) # 0 /\ Len(Words) \in Nat
  BY <1>1, EmptySeq
<1> QED
  BY <1>1, <1>2, LenProperties, ElementOfSeq

LEMMA WordsStay == ASSUME UNCHANGED bios PROVE UNCHANGED Words
BY DEF Words

LEMMA PixelsNat == ASSUME NEW d \in Description PROVE d.width * d.height \in Nat
<1>1. d.width \in Nat /\ d.height \in Nat
  BY DEF Description
<1> QED
  BY <1>1

\* Where a mode has been set, whose description main is told.
Settled == {"set_mode", "map_memory", "a20", "main"}

\* The search of the list: the best so far, if the BIOS describes it, is one of
\* the candidates, and none that was considered is bigger.
SearchInv ==
  /\ best.mode # 0 /\ Words[best.mode].answered =>
        best.mode \in Fit /\ best.pixels = Size(best.mode)
  /\ pc = "modes" => bios.vbe >= 2
                     /\ \A j \in Fit : j < n => Size(j) <= best.pixels
  /\ pc = "describe" => bios.vbe >= 2
  /\ pc = "legacy" => bios.vbe < 2
  /\ pc = "describe" \/ (pc \in Settled /\ bios.vbe >= 2) =>
        \A j \in Fit : Size(j) <= best.pixels
  /\ best.mode = 0 => best.pixels = 0
  /\ pc \in Settled \ {"set_mode"} => Chosen.settable
  /\ pc \in Settled =>
        /\ Chosen.answered
        /\ rm_data.width = Chosen.is.width /\ rm_data.height = Chosen.is.height
        /\ rm_data.bpp = Chosen.is.bpp

\* The messages are in the segment that ds points at from stage 2 on.
MessageInv ==
  /\ pc # "halted" => shown = "none"
  /\ pc \notin {"check_edd", "halted"} => ds = "zero"
  /\ pc = "check_edd" => ds = "stage1"
  /\ MessageIsShown

ProbeInv ==
  /\ bios \in Bios
  /\ pc \in Settled \cup {"check_edd", "load", "id_drive", "check_cpu", "get_font",
                          "svga", "modes", "legacy", "describe", "halted"}
  /\ best \in [mode : Nat, pixels : Nat] /\ memmap \in Seq(Range(bios.e820))
  /\ rm_data \in [io : {rm_data.io}, ctl : {rm_data.ctl}, slave : BOOLEAN,
                  width : Nat, height : Nat, bpp : Nat, memmap_size : Nat]
  /\ pc \notin {"map_memory", "a20", "main", "halted"} => memmap = <<>>
  /\ TypeOK /\ SearchInv /\ MessageInv

LEMMA ProbeStarts == Init => ProbeInv
<1> SUFFICES ASSUME Init PROVE ProbeInv
  OBVIOUS
<1>1. bios.leftover \in Description /\ Len(Words) \in Nat
  BY MachineFacts DEF Init
<1>2. memmap = <<>> /\ memmap \in Seq(Range(bios.e820)) /\ Len(memmap) = 0
  BY EmptySeq DEF Init
<1>3. TypeOK
  BY <1>1, <1>2 DEF Init, NoMode, TypeOK
<1>4. SearchInv
  BY DEF Init, NoMode, SearchInv, Settled
<1>5. MessageInv
  BY DEF Init, MessageInv, MessageIsShown
<1> QED
  BY <1>2, <1>3, <1>4, <1>5 DEF Init, NoMode, ProbeInv

\* A failure leaves everything but the screen and the end.
LEMMA FailStep ==
  ASSUME ProbeInv, NEW m, Fail(m), m # "garbage",
         bios.edd => pc # "check_edd", pc # "halted"
  PROVE  ProbeInv'
<1>1. TypeOK'
  BY DEF ProbeInv, TypeOK, Fail, Words
<1>2. SearchInv'
  BY DEF ProbeInv, SearchInv, Fail, Fit, Size, Settled, Chosen, Words
<1>3. MessageInv'
  BY DEF ProbeInv, MessageInv, MessageIsShown, Fail
<1> QED
  BY <1>1, <1>2, <1>3 DEF ProbeInv, Fail

\* One turn of the search: a description that is no better than the best so far
\* is none that the maximum is looked for among, or none that is bigger.
LEMMA ConsiderStep == ASSUME ProbeInv, ConsiderMode PROVE ProbeInv'
<1> DEFINE d == IF Words[n].answered THEN Words[n].is ELSE info
<1>1. /\ bios \in Bios /\ n \in Nat \ {0} /\ n <= Len(Words)
      /\ best \in [mode : Nat, pixels : Nat] /\ info \in Description
      /\ Len(Words) \in Nat \ {0}
  BY MachineFacts DEF ProbeInv, TypeOK, ConsiderMode
<1>1a. /\ n \in DOMAIN Words /\ DOMAIN Words = 1..Len(Words)
      /\ Words[n] \in Mode
  <2>1. DOMAIN Words = 1..Len(Words) /\ \A k \in DOMAIN Words : Words[k] \in Mode
    BY <1>1, MachineFacts
  <2>2. n \in 1..Len(Words)
    BY <1>1
  <2> QED
    BY <2>1, <2>2
<1>2. d \in Description
  BY <1>1a, <1>1 DEF Mode
<1>3. d.width * d.height \in Nat /\ d.height \in Nat
  BY <1>2, PixelsNat DEF Description
<1>4. /\ info' = d /\ n' = n + 1
      /\ best' = IF Better(d) THEN [mode |-> n, pixels |-> d.width * d.height]
                              ELSE best
      /\ pc = "modes" /\ pc' = IF n = Len(Words) THEN "describe" ELSE "modes"
      /\ UNCHANGED <<bios, ds, memmap, rm_data, shown>> /\ UNCHANGED Words
  BY WordsStay DEF ConsiderMode
<1> HIDE DEF d
<1>5. best' \in [mode : Nat, pixels : Nat]
  BY <1>1, <1>3, <1>4
<1>6. TypeOK'
  <2>1. best'.mode \in 0..Len(Words) /\ best'.pixels \in Nat
    BY <1>1, <1>3, <1>4 DEF ProbeInv, TypeOK
  <2>2. Len(memmap) < n + 1
    BY <1>1, LenProperties DEF ProbeInv, TypeOK
  <2>3. pc' = "modes" => n' <= Len(Words)
    BY <1>1, <1>4
  <2> QED
    BY <1>1, <1>2, <1>4, <2>1, <2>2, <2>3 DEF ProbeInv, TypeOK
<1>7. \A j \in Fit : Size(j) \in Nat /\ j \in DOMAIN Words
  <2> SUFFICES ASSUME NEW j \in Fit
               PROVE  Size(j) \in Nat /\ j \in DOMAIN Words
    OBVIOUS
  <2>1. j \in DOMAIN Words /\ Words[j].is \in Description
    BY <1>1, <1>1a, MachineFacts DEF Fit, Mode
  <2> QED
    BY <2>1, PixelsNat DEF Size
<1>8. n \in Fit => d.bpp = 32 /\ d.supported /\ d.height < TooHigh
                          /\ Size(n) = d.width * d.height
  BY DEF Fit, Size, d
<1>9. \A j \in Fit : j < n + 1 => Size(j) <= best'.pixels
  <2> SUFFICES ASSUME NEW j \in Fit, j < n + 1
               PROVE  Size(j) <= best'.pixels
    OBVIOUS
  <2>1. Size(j) \in Nat /\ j \in Nat
    BY <1>1a, <1>1, <1>7
  <2>2. best.pixels \in Nat /\ best.pixels <= best'.pixels
    BY <1>1, <1>3, <1>4 DEF Better
  <2>3. CASE j < n
    <3>1. Size(j) <= best.pixels
      BY <2>3, <1>4 DEF ProbeInv, SearchInv
    <3> QED
      BY <1>5, <2>1, <2>2, <3>1
  <2>4. CASE j = n
    BY <1>1, <1>3, <1>4, <1>8, <2>4 DEF Better
  <2> QED
    BY <1>1, <2>1, <2>3, <2>4
<1>10. best'.mode # 0 /\ Words[best'.mode].answered =>
          best'.mode \in Fit /\ best'.pixels = Size(best'.mode)
  <2>1. CASE Better(d)
    <3>1. /\ d = IF Words[n].answered THEN Words[n].is ELSE info
          /\ best'.mode = n /\ best'.pixels = d.width * d.height
      BY <1>1, <1>3, <1>4, <2>1 DEF d
    <3> QED
      BY <1>1a, <2>1, <3>1 DEF Better, Fit, Size
  <2>2. CASE ~Better(d)
    BY <1>4, <2>2 DEF ProbeInv, SearchInv
  <2> QED
    BY <2>1, <2>2
<1>11. pc' = "describe" => \A j \in Fit : j < n + 1
  <2>1. \A j \in Fit : j \in 1..Len(Words)
    BY <1>1a, <1>7
  <2> QED
    BY <1>1, <1>4, <2>1
<1>12. SearchInv'
  <2>1. Fit' = Fit /\ \A j : Size(j)' = Size(j)
    BY <1>4 DEF Fit, Size, Words
  <2>2. bios.vbe >= 2
    BY <1>4 DEF ProbeInv, SearchInv
  <2>3. /\ best'.mode # 0 /\ Words'[best'.mode].answered =>
             best'.mode \in Fit' /\ best'.pixels = Size(best.mode)'
        /\ pc' = "modes" \/ pc' = "describe"
        /\ \A j \in Fit' : j < n' => Size(j)' <= best'.pixels
        /\ pc' = "describe" => \A j \in Fit' : Size(j)' <= best'.pixels
    BY <1>4, <1>9, <1>10, <1>11, <2>1 DEF Size
  <2>4. best'.mode = 0 => best'.pixels = 0
    BY <1>1, <1>4 DEF ProbeInv, SearchInv
  <2> QED
    BY <1>4, <2>2, <2>3, <2>4, WordsStay DEF SearchInv, Settled, Size
<1>13. MessageInv'
  BY <1>4 DEF ProbeInv, MessageInv, MessageIsShown
<1> QED
  BY <1>4, <1>5, <1>6, <1>12, <1>13 DEF ProbeInv

LEMMA DescribeStep == ASSUME ProbeInv, DescribeMode PROVE ProbeInv'
<1> DEFINE Known == /\ Chosen.answered
                    /\ rm_data' = [rm_data EXCEPT !.width = Chosen.is.width,
                                                  !.height = Chosen.is.height,
                                                  !.bpp = Chosen.is.bpp]
                    /\ pc' = "set_mode"
                    /\ UNCHANGED <<bios, ds, n, info, best, memmap, shown>>
<1>1. pc \in {"legacy", "describe"}
  BY Zenon DEF DescribeMode
<1>2. Fail("ERR_MSG_SVGA_FAIL") \/ Known
  BY Zenon DEF DescribeMode
<1>3. CASE Fail("ERR_MSG_SVGA_FAIL")
  <2>1. PICK m : Fail(m) /\ m # "garbage"
    BY <1>3
  <2> QED
    BY <1>1, <2>1, FailStep
<1>4. CASE Known
  <2>1. Chosen \in Mode
    <3>1. CASE bios.vbe < 2
      BY <3>1, MachineFacts DEF ProbeInv, Chosen
    <3>2. CASE ~(bios.vbe < 2) /\ best.mode = 0
      BY <3>2, MachineFacts DEF ProbeInv, Chosen
    <3>3. CASE ~(bios.vbe < 2) /\ best.mode # 0
      <4>1. best.mode \in DOMAIN Words
        BY <3>3, MachineFacts DEF ProbeInv, TypeOK
      <4> QED
        BY <3>3, <4>1, MachineFacts DEF ProbeInv, Chosen
    <3> QED
      BY <3>1, <3>2, <3>3
  <2>2. /\ Chosen.is.width \in Nat /\ Chosen.is.height \in Nat
        /\ Chosen.is.bpp \in Nat
    BY <2>1 DEF Mode, Description
  <2>3. /\ rm_data' \in [io : {rm_data'.io}, ctl : {rm_data'.ctl}, slave : BOOLEAN,
                         width : Nat, height : Nat, bpp : Nat, memmap_size : Nat]
        /\ rm_data'.width = Chosen.is.width /\ rm_data'.height = Chosen.is.height
        /\ rm_data'.bpp = Chosen.is.bpp
    BY <1>4, <2>2 DEF ProbeInv
  <2>4. TypeOK'
    BY <1>4, <2>2, <2>3, WordsStay DEF ProbeInv, TypeOK
  <2>5. Fit' = Fit /\ \A j : Size(j)' = Size(j)
    BY <1>4 DEF Fit, Size, Words
  <2>6. Chosen' = Chosen
    BY <1>4 DEF Chosen, Words
  <2>7. bios.vbe >= 2 => pc = "describe"
    BY <1>1, MachineFacts DEF ProbeInv, SearchInv
  <2>8. SearchInv'
    BY <1>1, <1>4, <2>3, <2>5, <2>6, <2>7, WordsStay DEF ProbeInv, SearchInv, Settled, Size
  <2>9. MessageInv'
    BY <1>1, <1>4 DEF ProbeInv, MessageInv, MessageIsShown
  <2>10. memmap' = <<>> \/ pc' # "set_mode"
    BY <1>1, <1>4 DEF ProbeInv
  <2> QED
    BY <1>4, <2>3, <2>4, <2>8, <2>9, <2>10 DEF ProbeInv, Settled
<1> QED
  BY <1>2, <1>3, <1>4

\* A step that says nothing of modes.
LEMMA KeepsSearch ==
  ASSUME ProbeInv, UNCHANGED <<bios, best>>,
         \/ pc' \notin Settled \cup {"modes", "legacy", "describe"}
         \/ pc \in Settled /\ pc' \in Settled /\ rm_data'.width = rm_data.width
            /\ rm_data'.height = rm_data.height /\ rm_data'.bpp = rm_data.bpp
            /\ (pc = "set_mode" /\ pc' # pc => Chosen.settable)
  PROVE  SearchInv'
<1>1. Fit' = Fit /\ \A j : Size(j)' = Size(j)
  BY DEF Fit, Size, Words
<1>2. Chosen' = Chosen
  BY DEF Chosen, Words
<1> QED
  BY <1>1, <1>2, WordsStay DEF ProbeInv, SearchInv, Settled, Size

LEMMA MapStep == ASSUME ProbeInv, E820Answer PROVE ProbeInv'
<1> DEFINE Taken == /\ memmap' = IF Keep(bios.e820[n]) THEN Append(memmap, bios.e820[n])
                                                     ELSE memmap
                    /\ pc' = IF n = Len(bios.e820) /\ ~bios.carry THEN "a20" ELSE pc
                    /\ n' = n + 1
                    /\ UNCHANGED <<bios, ds, info, best, rm_data, shown>>
<1>1. pc = "map_memory" /\ n <= Len(bios.e820)
  BY Zenon DEF E820Answer
<1>2. Fail("ERR_MSG_E820_FAIL") \/ Taken
  BY Zenon DEF E820Answer
<1>3. CASE Fail("ERR_MSG_E820_FAIL")
  <2>1. PICK m : Fail(m) /\ m # "garbage"
    BY <1>3
  <2> QED
    BY <1>1, <2>1, FailStep
<1>4. CASE Taken
  <2>1. n \in 1..Len(bios.e820) /\ bios.e820 \in Seq(Range(bios.e820))
    BY <1>1, BiosAssumption, MachineFacts DEF ProbeInv, TypeOK
  <2>2. bios.e820[n] \in Range(bios.e820)
    BY <2>1, ElementOfSeq
  <2>3. /\ memmap' \in Seq(Range(bios.e820))
        /\ Len(memmap') \in {Len(memmap), Len(memmap) + 1}
    <3>1. memmap \in Seq(Range(bios.e820)) /\ UNCHANGED bios
      BY <1>4 DEF ProbeInv
    <3>2. CASE Keep(bios.e820[n])
      BY <1>4, <2>2, <3>1, <3>2, AppendProperties, Zenon
    <3>3. CASE ~Keep(bios.e820[n])
      BY <1>4, <3>1, <3>3, Zenon
    <3> QED
      BY <3>2, <3>3
  <2>4. Len(memmap') < n'
    BY <1>4, <2>1, <2>3, LenProperties DEF ProbeInv, TypeOK
  <2>5. pc' \in {"a20", "map_memory"}
    BY <1>1, <1>4
  <2>6. TypeOK'
    BY <1>4, <2>1, <2>4, <2>5, WordsStay DEF ProbeInv, TypeOK
  <2>7. SearchInv'
    BY <1>1, <1>4, <2>5, KeepsSearch DEF Settled
  <2>8. MessageInv'
    BY <1>1, <1>4, <2>5 DEF ProbeInv, MessageInv, MessageIsShown
  <2> QED
    BY <1>4, <2>3, <2>5, <2>6, <2>7, <2>8 DEF ProbeInv, Settled
<1> QED
  BY <1>2, <1>3, <1>4

\* A step that goes on, which may change fields of rm_data that say nothing of
\* the mode.
Places == {"load", "id_drive", "check_cpu", "get_font", "svga"}
OtherFields ==
  \/ UNCHANGED rm_data
  \/ \E a, b : rm_data' = [rm_data EXCEPT !.io = a, !.ctl = b]
  \/ rm_data' = [rm_data EXCEPT !.memmap_size = Len(memmap)]

LEMMA PlainStep ==
  ASSUME ProbeInv, UNCHANGED <<bios, info, best, memmap, shown>>, OtherFields,
         pc # "halted", ds' = "zero", n' = n \/ (n' = 1 /\ memmap = <<>>),
         \/ pc \in Places \cup {"check_edd"} /\ pc' \in Places
         \/ pc \in Settled /\ pc' \in Settled \ {"set_mode"}
            /\ (pc = "set_mode" => Chosen.settable)
  PROVE  ProbeInv'
<1>1. Len(memmap) \in Nat
  BY LenProperties DEF ProbeInv
<1>2. /\ rm_data' \in [io : {rm_data'.io}, ctl : {rm_data'.ctl}, slave : BOOLEAN,
                       width : Nat, height : Nat, bpp : Nat, memmap_size : Nat]
      /\ rm_data'.width = rm_data.width /\ rm_data'.height = rm_data.height
      /\ rm_data'.bpp = rm_data.bpp
  <2>1. CASE UNCHANGED rm_data
    BY <2>1 DEF ProbeInv
  <2>2. ASSUME NEW a, NEW b, rm_data' = [rm_data EXCEPT !.io = a, !.ctl = b]
        PROVE  <1>2!1 /\ <1>2!2
    BY <2>2 DEF ProbeInv
  <2>3. CASE rm_data' = [rm_data EXCEPT !.memmap_size = Len(memmap)]
    BY <1>1, <2>3 DEF ProbeInv
  <2> QED
    BY <2>1, <2>2, <2>3 DEF OtherFields
<1>3. TypeOK'
  BY <1>2, EmptySeq, WordsStay DEF ProbeInv, TypeOK, Settled, Places
<1>4. SearchInv'
  BY <1>2, KeepsSearch DEF Settled, Places
<1>5. MessageInv'
  BY DEF ProbeInv, MessageInv, MessageIsShown, Settled, Places
<1> QED
  BY <1>2, <1>3, <1>4, <1>5 DEF ProbeInv, Settled, Places

\* Each piece of code that may fail does, or goes on from `from` to `to`.
Messages == {"ERR_MSG_EDD_NSUP", "ERR_MSG_CD_READ", "ERR_MSG_ID_DRIVE_FAIL",
             "ERR_MSG_NO_CPUID", "ERR_MSG_NOT_64BIT", "ERR_MSG_SVGA_FAIL",
             "ERR_MSG_E820_FAIL", "ERR_MSG_A20_FAIL"}
Fails == \E m \in Messages : Fail(m)
Goes(to) == /\ pc' = to /\ UNCHANGED <<bios, n, info, best, memmap, shown>>
            /\ ds' \in {ds, "zero"} /\ OtherFields

LEMMA Branch ==
  ASSUME ProbeInv, NEW from, NEW to, pc = from, from # "check_edd",
         from # "halted",
         Fails \/ (Goes(to) /\ (from = "set_mode" => Chosen.settable)),
         \/ from \in Places /\ to \in Places
         \/ from \in Settled /\ to \in Settled \ {"set_mode"}
  PROVE  ProbeInv'
<1>1. CASE Fails
  <2>1. PICK m : Fail(m) /\ m # "garbage"
    BY <1>1 DEF Fails, Messages
  <2> QED
    BY <2>1, FailStep
<1>2. CASE Goes(to) /\ (from = "set_mode" => Chosen.settable)
  <2>1. ds = "zero"
    BY DEF ProbeInv, MessageInv
  <2>2. /\ UNCHANGED <<bios, info, best, memmap, shown>> /\ OtherFields
        /\ n' = n /\ ds' = "zero" /\ pc' = to
        /\ (pc = "set_mode" => Chosen.settable)
    BY <1>2, <2>1 DEF Goes
  <2> QED
    BY <2>2, PlainStep
<1> QED
  BY <1>1, <1>2

LEMMA ProbeNext == ASSUME ProbeInv, [Next]_vars PROVE ProbeInv'
<1>1. CASE CheckEdd
  <2>1. pc = "check_edd" /\ (bios.edd => Goes("load") /\ ds' = "zero")
    BY <1>1, Zenon DEF CheckEdd, Goes, OtherFields
  <2>2. ~bios.edd => Fails
    BY <1>1, Zenon DEF CheckEdd, Fails, Messages
  <2>3. CASE bios.edd
    <3>1. /\ UNCHANGED <<bios, info, best, memmap, shown>> /\ OtherFields
          /\ n' = n /\ ds' = "zero" /\ pc' = "load"
      BY <2>1, <2>3 DEF Goes
    <3> QED
      BY <2>1, <3>1, PlainStep DEF Places
  <2>4. CASE ~bios.edd
    <3>1. PICK m : Fail(m) /\ m # "garbage"
      BY <2>2, <2>4 DEF Fails, Messages
    <3> QED
      BY <2>1, <2>4, <3>1, FailStep
  <2> QED
    BY <2>3, <2>4
<1>2. CASE LoadStage2
  <2>1. pc = "load" /\ (Fails \/ Goes("id_drive"))
    BY <1>2, Zenon DEF LoadStage2, Fails, Messages, Goes, OtherFields
  <2> QED
    BY <2>1, Branch DEF Places
<1>3. CASE IdDrive
  <2>1. pc = "id_drive" /\ (Fails \/ Goes("check_cpu"))
    BY <1>3, Zenon DEF IdDrive, Fails, Messages, Goes, OtherFields
  <2> QED
    BY <2>1, Branch DEF Places
<1>4. CASE CheckCpu
  <2>1. pc = "check_cpu" /\ (Fails \/ Goes("get_font"))
    BY <1>4, Zenon DEF CheckCpu, Fails, Messages, Goes, OtherFields
  <2> QED
    BY <2>1, Branch DEF Places
<1>5. CASE GetFont
  <2>1. pc = "get_font" /\ Goes("svga")
    BY <1>5, Zenon DEF GetFont, Goes, OtherFields
  <2> QED
    BY <2>1, Branch DEF Places
<1>6. CASE ListModes
  <2>1. /\ pc = "svga" /\ pc' = IF bios.vbe >= 2 THEN "modes" ELSE "legacy"
        /\ n' = 1 /\ UNCHANGED <<bios, ds, info, best, memmap, rm_data, shown>>
    BY <1>6 DEF ListModes
  <2>2. Fit' = Fit /\ \A j : Size(j)' = Size(j)
    BY <2>1 DEF Fit, Size, Words
  <2>3. \A j \in Fit : j \in Nat /\ j >= 1
    BY MachineFacts DEF ProbeInv, Fit
  <2>4. SearchInv'
    BY <2>1, <2>2, <2>3, MachineFacts, WordsStay DEF ProbeInv, SearchInv, Settled, Size
  <2>5. TypeOK'
    BY <2>1, MachineFacts, EmptySeq, WordsStay DEF ProbeInv, TypeOK
  <2>6. MessageInv'
    BY <2>1 DEF ProbeInv, MessageInv, MessageIsShown
  <2> QED
    BY <2>1, <2>4, <2>5, <2>6 DEF ProbeInv
<1>7. CASE SetMode
  <2>1. pc = "set_mode"
    BY <1>7, Zenon DEF SetMode
  <2>2. Fails \/ /\ pc' = "map_memory" /\ n' = 1
                 /\ Chosen.settable
                 /\ UNCHANGED <<bios, ds, info, best, memmap, rm_data, shown>>
    BY <1>7, Zenon DEF SetMode, Fails, Messages
  <2>3. CASE Fails
    BY <2>1, <2>3, Branch DEF Settled
  <2>4. CASE ~Fails
    BY <2>1, <2>2, <2>4, PlainStep DEF Settled, OtherFields, ProbeInv, MessageInv
  <2> QED
    BY <2>3, <2>4
<1>8. CASE E820End
  <2>1. pc = "map_memory" /\ (Fails \/ Goes("a20"))
    BY <1>8, Zenon DEF E820End, Fails, Messages, Goes, OtherFields
  <2> QED
    BY <2>1, Branch DEF Settled
<1>9. CASE EnterMain
  <2>1. pc = "a20" /\ (Fails \/ Goes("main"))
    BY <1>9, Zenon DEF EnterMain, Fails, Messages, Goes, OtherFields
  <2> QED
    BY <2>1, Branch DEF Settled
<1>10. CASE UNCHANGED vars
  <2>1. TypeOK' /\ SearchInv' /\ MessageInv'
    BY <1>10 DEF vars, ProbeInv, TypeOK, SearchInv, MessageInv, MessageIsShown,
                Fit, Size, Chosen, Words
  <2> QED
    BY <1>10, <2>1 DEF vars, ProbeInv
<1> QED
  BY <1>1, <1>2, <1>3, <1>4, <1>5, <1>6, <1>7, <1>8, <1>9, <1>10,
     ConsiderStep, DescribeStep, MapStep DEF Next

-----------------------------------------------------------------------------
(* The memory map.                                                         *)

\* It lists those of the answers so far that are kept: all that are wanted but
\* the ones whose halves cancel out.
Kept == Wanted \ Cancelling
Before == {k \in Kept : k < n}
MapInv ==
  /\ pc \in {"map_memory", "a20", "main"} => Lists(Before)
  /\ pc \in {"a20", "main"} => n > Len(bios.e820)
  /\ pc = "map_memory" => n <= Len(bios.e820) + 1
  /\ pc = "main" => rm_data.memmap_size = Len(memmap)

LEMMA AnswerFacts ==
  ASSUME bios \in Bios
  PROVE  /\ DOMAIN bios.e820 = 1..Len(bios.e820) /\ Len(bios.e820) \in Nat
         /\ Kept \subseteq Nat
         /\ \A k \in DOMAIN bios.e820 : k \in Kept <=> Keep(bios.e820[k])
<1>1. bios.e820 \in Seq(Range(bios.e820)) /\ Half \in Nat \ {0}
  BY BiosAssumption
<1>2. DOMAIN bios.e820 = 1..Len(bios.e820) /\ Len(bios.e820) \in Nat
  BY <1>1, LenProperties
<1>3. ASSUME NEW k \in DOMAIN bios.e820
      PROVE  k \in Kept <=> Keep(bios.e820[k])
  <2>1. \A x \in Nat : x < 2 * Half => x % Half = IF x < Half THEN x ELSE x - Half
    BY <1>1
  <2>2. \A lo, hi \in 0..(Half - 1) :
           (lo + hi) % Half # 0 <=> (lo # 0 \/ hi # 0) /\ lo + hi # Half
    BY <1>1, <2>1
  <2>3. /\ bios.e820[k].size \in {0, 20, 24}
        /\ bios.e820[k].lo \in 0..(Half - 1) /\ bios.e820[k].hi \in 0..(Half - 1)
    BY BiosAssumption
  <2>4. (bios.e820[k].lo + bios.e820[k].hi) % Half # 0 <=>
          (bios.e820[k].lo # 0 \/ bios.e820[k].hi # 0) /\ bios.e820[k].lo + bios.e820[k].hi # Half
    BY <2>2, <2>3
  <2>5. bios.e820[k].size > 20 <=> bios.e820[k].size = 24
    BY <2>3
  <2> QED
    BY <2>4, <2>5, Zenon DEF Kept, Wanted, Cancelling, Worthy, Keep
<1> QED
  BY <1>2, <1>3 DEF Kept, Wanted, Cancelling

\* One answer more: it is listed last, or not at all.
LEMMA AnswerIsListed ==
  ASSUME ProbeInv, MapInv, E820Answer, bios.e820[n].sig
  PROVE  MapInv'
<1>1. /\ pc = "map_memory" /\ n <= Len(bios.e820) /\ bios.e820[n].sig
      /\ memmap' = IF Keep(bios.e820[n]) THEN Append(memmap, bios.e820[n])
                                         ELSE memmap
      /\ pc' = IF n = Len(bios.e820) /\ ~bios.carry THEN "a20" ELSE pc
      /\ n' = n + 1 /\ UNCHANGED bios
  <2>1. ~Fail("ERR_MSG_E820_FAIL") \/ n' = n
    BY DEF Fail
  <2> QED
    BY <2>1, Zenon DEF E820Answer
<1>2. /\ n \in Nat \ {0} /\ memmap \in Seq(Range(bios.e820)) /\ bios \in Bios
      /\ n \in DOMAIN bios.e820 /\ bios.e820[n] \in Range(bios.e820)
  <2>1. n \in Nat \ {0} /\ memmap \in Seq(Range(bios.e820)) /\ bios \in Bios
    BY DEF ProbeInv, TypeOK
  <2>2. n \in DOMAIN bios.e820
    BY <1>1, <2>1, AnswerFacts
  <2> QED
    BY <2>1, <2>2 DEF Range
<1>3. /\ n \in Kept => Before' = Before \cup {n}
      /\ n \notin Kept => Before' = Before
  <2>1. Kept' = Kept /\ Kept \subseteq Nat
    BY <1>1, <1>2, AnswerFacts DEF Kept, Wanted, Cancelling
  <2>2. \A k \in Kept : k < n + 1 <=> k < n \/ k = n
    BY <1>2, <2>1
  <2>3. Before' = {k \in Kept : k < n + 1}
    BY <1>1, <2>1 DEF Before
  <2> QED
    BY <2>2, <2>3 DEF Before
<1>4. PICK at \in [DOMAIN memmap -> Before] :
         /\ \A i \in DOMAIN memmap : memmap[i] = bios.e820[at[i]]
         /\ \A k \in Before : \E i \in DOMAIN memmap : at[i] = k
         /\ \A i, j \in DOMAIN memmap : i < j => at[i] < at[j]
  BY <1>1 DEF MapInv, Lists
<1>5. \E to \in [DOMAIN memmap' -> Before'] :
         /\ \A i \in DOMAIN memmap' : memmap'[i] = bios.e820[to[i]]
         /\ \A k \in Before' : \E i \in DOMAIN memmap' : to[i] = k
         /\ \A i, j \in DOMAIN memmap' : i < j => to[i] < to[j]
  <2>1. CASE ~Keep(bios.e820[n])
    <3>1. memmap' = memmap /\ n \notin Kept
      BY <1>1, <1>2, <2>1, AnswerFacts
    <3> QED
      BY <1>3, <1>4, <3>1
  <2>2. CASE Keep(bios.e820[n])
    <3> DEFINE L == Len(memmap) + 1
               to == [i \in 1..L |-> IF i = L THEN n ELSE at[i]]
    <3>1. memmap' = Append(memmap, bios.e820[n]) /\ n \in Kept
      BY <1>1, <1>2, <2>2, AnswerFacts
    <3>2. L \in Nat \ {0} /\ DOMAIN memmap = 1..(L - 1)
      BY <1>2, LenProperties
    <3>3. /\ DOMAIN memmap' = 1..L /\ memmap'[L] = bios.e820[n]
          /\ \A i \in 1..(L - 1) : memmap'[i] = memmap[i]
      BY <1>2, <3>1, AppendProperties, LenProperties
    <3> HIDE DEF L
    <3>4. Before' = Before \cup {n}
      BY <1>3, <3>1
    <3>5. /\ to[L] = n /\ \A i \in 1..(L - 1) : to[i] = at[i] /\ at[i] \in Before
          /\ \A i \in 1..L : i = L \/ i \in 1..(L - 1)
      BY <1>4, <3>2
    <3>6. to \in [DOMAIN memmap' -> Before']
      BY <1>4, <3>2, <3>3, <3>4
    <3>7. \A i \in DOMAIN memmap' : memmap'[i] = bios.e820[to[i]]
      BY <1>4, <3>2, <3>3, <3>5
    <3>8. \A k \in Before' : \E i \in DOMAIN memmap' : to[i] = k
      <4>1. \A k \in Before : \E i \in 1..(L - 1) : to[i] = k
        BY <1>4, <3>2, <3>5
      <4>2. \A i \in 1..(L - 1) : i \in 1..L
        BY <3>2
      <4> QED
        BY <3>2, <3>3, <3>4, <3>5, <4>1, <4>2
    <3>9. \A k \in Before : k < n
      BY DEF Before
    <3>10. \A i, j \in DOMAIN memmap' : i < j => to[i] < to[j]
      BY <1>4, <3>2, <3>3, <3>5, <3>9
    <3> QED
      BY <3>6, <3>7, <3>8, <3>10
  <2> QED
    BY <2>1, <2>2
<1>6. Lists(Before)'
  <2>1. bios' = bios
    BY <1>1
  <2> QED
    BY <1>5, <2>1, Zenon DEF Lists
<1>7. /\ pc' = "map_memory" \/ (pc' = "a20" /\ n' > Len(bios.e820))
      /\ n' <= Len(bios.e820) + 1
  BY <1>1, <1>2, MachineFacts
<1> QED
  BY <1>1, <1>6, <1>7 DEF MapInv

LEMMA MapStays == ASSUME ProbeInv, MapInv, [Next]_vars PROVE MapInv'
<1>1. ASSUME pc' \notin {"map_memory", "a20", "main"} PROVE MapInv'
  BY <1>1 DEF MapInv
<1>2. ASSUME UNCHANGED <<bios, memmap, n>>
      PROVE  Lists(Before)' <=> Lists(Before)
  <2>1. Before' = Before
    BY <1>2 DEF Before, Kept, Wanted, Cancelling
  <2> QED
    BY <1>2, <2>1 DEF Lists
<1>3. CASE SetMode
  <2>1. ASSUME pc' = "map_memory" PROVE MapInv'
    <3>1. /\ n' = 1 /\ memmap' = memmap /\ memmap = <<>> /\ bios' = bios
          /\ bios \in Bios
      BY <1>3, <2>1, Zenon DEF SetMode, Fail, ProbeInv
    <3>2. Before' = {}
      <4>1. Kept' = Kept /\ \A k \in Kept : k \in 1..Len(bios.e820)
        BY <3>1, AnswerFacts DEF Kept, Wanted, Cancelling
      <4> QED
        BY <3>1, <4>1, AnswerFacts DEF Before
    <3>3. <<>> \in [{} -> {}] /\ 1 <= Len(bios.e820) + 1
      BY <3>1, EmptySeq, MachineFacts
    <3> QED
      BY <2>1, <3>1, <3>2, <3>3 DEF MapInv, Lists
  <2> QED
    BY <1>1, <1>3, <2>1, Zenon DEF SetMode, Fail
<1>4. CASE E820Answer
  <2>1. bios.e820[n].sig \/ pc' = "halted"
    BY <1>4, Zenon DEF E820Answer, Fail
  <2> QED
    BY <1>1, <1>4, <2>1, AnswerIsListed
<1>5. CASE E820End
  <2>1. /\ pc = "map_memory" /\ n > Len(bios.e820)
        /\ pc' = "halted" \/ (pc' = "a20" /\ UNCHANGED <<bios, memmap, n>>)
    BY <1>5, Zenon DEF E820End, Fail
  <2> QED
    BY <1>1, <1>2, <2>1 DEF MapInv
<1>6. CASE EnterMain
  <2>1. /\ pc = "a20" /\ UNCHANGED <<bios, memmap, n>>
        /\ \/ pc' = "halted"
           \/ /\ pc' = "main"
              /\ rm_data' = [rm_data EXCEPT !.memmap_size = Len(memmap)]
    BY <1>6, Zenon DEF EnterMain, Fail
  <2>2. pc' = "main" => rm_data'.memmap_size = Len(memmap)
    BY <2>1 DEF ProbeInv
  <2> QED
    BY <1>1, <1>2, <2>1, <2>2 DEF MapInv
<1>7. CASE UNCHANGED vars
  BY <1>2, <1>7 DEF vars, MapInv
<1>8. CASE \/ CheckEdd \/ LoadStage2 \/ IdDrive \/ CheckCpu \/ GetFont
           \/ ListModes \/ ConsiderMode \/ DescribeMode
  <2>1. pc' \in {"halted", "load", "id_drive", "check_cpu", "get_font", "svga",
                 "modes", "legacy", "describe", "set_mode"}
    BY <1>8 DEF CheckEdd, LoadStage2, IdDrive, CheckCpu, GetFont, ListModes,
       ConsiderMode, DescribeMode, Fail
  <2> QED
    BY <1>1, <2>1
<1> QED
  BY <1>3, <1>4, <1>5, <1>6, <1>7, <1>8, Zenon DEF Next

-----------------------------------------------------------------------------
(* The console.                                                            *)

LEMMA MaxOfTwo == ASSUME NEW a \in Nat, NEW b \in Nat
                  PROVE  Max({a, b}) = IF a >= b THEN a ELSE b
BY DEF Max

LEMMA TimesMonotone == ASSUME NEW a \in Nat, NEW b \in Nat, NEW c \in Nat, a <= b
                       PROVE  a * c <= b * c /\ a * c \in Nat
<1>1. b * c = a * c + (b - a) * c /\ (b - a) * c \in Nat /\ a * c \in Nat
  OBVIOUS
<1>2. b * c \in Nat
  OBVIOUS
<1> QED
  BY <1>1, <1>2

LEMMA DivTimes == ASSUME NEW x \in Nat, NEW d \in Nat \ {0}
                  PROVE  x \div d \in Nat /\ (x \div d) * d <= x
BY SMTT(30)

LEMMA DivPositive == ASSUME NEW x \in Nat, NEW d \in Nat \ {0}, x >= d
                     PROVE  x \div d >= 1
BY SMTT(30)

\* What real mode tells main is a mode that a character fits in, and with four
\* bytes a pixel if it was found good enough.
LEMMA ModeFits ==
  ASSUME ProbeInv, Started
  PROVE  /\ rm_data.width \in Nat /\ rm_data.height \in Nat
         /\ rm_data.width >= FontX /\ rm_data.height >= FontY
         /\ bios.vbe >= 2 /\ best.mode # 0 => rm_data.bpp = 32
<1>1. /\ rm_data.width = Chosen.is.width /\ rm_data.height = Chosen.is.height
      /\ rm_data.bpp = Chosen.is.bpp /\ Chosen.answered
  BY DEF ProbeInv, SearchInv, Started, Settled
<1>2. CASE bios.vbe < 2 \/ best.mode = 0
  <2>1. Chosen \in {bios.legacy, bios.zero} /\ bios \in Bios
    BY <1>2 DEF ProbeInv, Chosen
  <2>2. Chosen.is.width >= FontX /\ Chosen.is.height >= FontY
    BY <2>1, FontAssumption
  <2> QED
    BY <1>1, <1>2, <2>2, MachineFacts DEF ProbeInv, TypeOK
<1>3. CASE bios.vbe >= 2 /\ best.mode # 0
  <2>1. best.mode # 0 /\ Chosen = Words[best.mode]
    BY <1>1, <1>3, MachineFacts DEF ProbeInv, Chosen
  <2>2. best.mode \in Fit /\ best.mode \in DOMAIN Words
    BY <1>1, <2>1 DEF ProbeInv, SearchInv, Fit
  <2>3. Words[best.mode] \in Range(bios.modes) \cup Range(bios.beyond)
    BY <2>2 DEF Range, Words
  <2>4. Chosen.is.width >= FontX /\ Chosen.is.height >= FontY
    BY <2>1, <2>3, FontAssumption DEF ProbeInv
  <2>5. Chosen.is.bpp = 32
    BY <2>1, <2>2 DEF Fit
  <2> QED
    BY <1>1, <2>4, <2>5 DEF ProbeInv, TypeOK
<1> QED
  BY <1>2, <1>3, MachineFacts DEF ProbeInv

\* A candidate of the BIOS's list is one of the words that are looked at, and
\* the search has found something then.
LEMMA CandidatesAreFit ==
  ASSUME bios \in Bios, bios.modes # <<>> \/ Candidates # {}
  PROVE  /\ Words = bios.modes /\ Fit = Candidates
         /\ \A j \in DOMAIN Words : Size(j) = Pixels(j)
<1>1. Words = bios.modes
  BY DEF Words, Candidates
<1> QED
  BY <1>1 DEF Fit, Candidates, Size, Pixels

LEMMA SearchFinds ==
  ASSUME ProbeInv, Started, bios.vbe >= 2, Candidates # {}
  PROVE  best.mode # 0
<1>1. PICK j : j \in Candidates
  OBVIOUS
<1>2. j \in Fit /\ j \in DOMAIN bios.modes /\ Size(j) = Pixels(j)
  BY <1>1, CandidatesAreFit DEF ProbeInv, Candidates
<1>3. bios.modes[j] \in Range(bios.modes) /\ bios.modes[j].is \in Description
  BY <1>1, <1>2, CandidatesAreFit, MachineFacts DEF ProbeInv, Range, Mode
<1>4. /\ bios.modes[j].is.width \in Nat \ {0}
      /\ bios.modes[j].is.height \in Nat \ {0}
  <2>1. /\ bios.modes[j].is.width >= FontX /\ bios.modes[j].is.height >= FontY
        /\ FontX \in Nat \ {0} /\ FontY \in Nat \ {0}
    BY <1>3, FontAssumption DEF ProbeInv
  <2>2. bios.modes[j].is.width \in Nat /\ bios.modes[j].is.height \in Nat
    BY <1>3 DEF Description
  <2> QED
    BY <2>1, <2>2
<1>5. Size(j) > 0
  <2>1. \A w, h \in Nat \ {0} : w * h > 0
    OBVIOUS
  <2> QED
    BY <1>2, <1>4, <2>1 DEF Pixels
<1>6. Size(j) <= best.pixels
  BY <1>2 DEF ProbeInv, SearchInv, Started, Settled
<1>7. best.mode = 0 => best.pixels = 0
  BY DEF ProbeInv, SearchInv
<1>8. Size(j) \in Nat
  BY <1>2, <1>3, PixelsNat DEF Pixels
<1> QED
  BY <1>5, <1>6, <1>7, <1>8

\* The cursor is in the grid, or behind the end of one of its lines.
ConsoleInv ==
  /\ ProbeInv
  /\ reach \in Nat /\ text_row \in Nat /\ text_col \in Nat
  /\ reach # 0 => Started
  /\ Started => /\ text_row < Rows /\ text_col <= Cols
                /\ reach <= 4 * (rm_data.width * rm_data.height)
  /\ ~Started => text_row = 0 /\ text_col = 0

LEMMA GridFacts ==
  ASSUME ProbeInv, Started
  PROVE  /\ Cols \in Nat /\ Cols >= 1 /\ Cols * FontX <= rm_data.width
         /\ Rows \in Nat /\ Rows >= 1 /\ Rows * FontY <= rm_data.height
BY ModeFits, DivTimes, DivPositive, FontAssumption DEF Cols, Rows

\* The last pixel of a cell of the grid is one of the screen's.
LEMMA CellInMemory ==
  ASSUME ProbeInv, Started, NEW row \in Nat, NEW col \in Nat,
         row < Rows, col < Cols
  PROVE  /\ CellEnd(row, col) \in Nat
         /\ CellEnd(row, col) <= 4 * (rm_data.width * rm_data.height)
<1> DEFINE w == rm_data.width
           h == rm_data.height
           y == (row + 1) * FontY
           x == (col + 1) * FontX
<1>1. w \in Nat /\ h \in Nat /\ FontX \in Nat \ {0} /\ FontY \in Nat \ {0}
  BY ModeFits, FontAssumption
<1>2. y \in Nat /\ y <= Rows * FontY /\ x \in Nat /\ x <= Cols * FontX
  BY <1>1, GridFacts, TimesMonotone
<1>3. y <= h /\ x <= w /\ Rows * FontY \in Nat /\ Cols * FontX \in Nat
  BY <1>1, <1>2, GridFacts
<1>4. y >= 1
  <2>1. 1 * FontY <= (row + 1) * FontY
    BY <1>1, TimesMonotone
  <2> QED
    BY <1>1, <1>2, <2>1
<1> HIDE DEF x, y, w, h
<1>5. (y - 1) * w <= (h - 1) * w /\ (y - 1) * w \in Nat
  BY <1>1, <1>2, <1>3, <1>4, TimesMonotone
<1>6. (h - 1) * w + w = w * h /\ (h - 1) * w \in Int
  BY <1>1
<1>7. (y - 1) * w + x <= w * h /\ (y - 1) * w + x \in Nat /\ w * h \in Nat
  BY <1>1, <1>2, <1>3, <1>5, <1>6
<1>8. CellEnd(row, col) = 4 * ((y - 1) * w + x)
  BY DEF CellEnd, y, w, x
<1> QED
  BY <1>7, <1>8 DEF w, h

LEMMA RowStays ==
  ASSUME ConsoleInv, Started
  PROVE  NextRow(text_row) \in Nat /\ NextRow(text_row) < Rows
BY GridFacts DEF ConsoleInv, NextRow

LEMMA ConsoleStarts == ConsoleInit => ConsoleInv
BY ProbeStarts DEF ConsoleInit, ConsoleInv, Init, Started

LEMMA ConsoleNextInv ==
  ASSUME ConsoleInv, [ConsoleNext]_<<vars, consoleVars>> PROVE ConsoleInv'
<1>1. CASE [Next]_vars /\ UNCHANGED consoleVars
  <2>1. ProbeInv' /\ UNCHANGED <<text_row, text_col, reach>>
    BY <1>1, ProbeNext DEF ConsoleInv, consoleVars
  <2>2. CASE Started
    <3>1. UNCHANGED <<pc, rm_data>>
      <4>1. pc = "main"
        BY <2>2 DEF Started
      <4>2. ~Next
        BY <4>1, Zenon DEF Next, CheckEdd, LoadStage2, IdDrive, CheckCpu, GetFont,
           ListModes, ConsiderMode, DescribeMode, SetMode, E820End, E820Answer,
           EnterMain
      <4> QED
        BY <1>1, <4>2 DEF vars
    <3> QED
      BY <2>1, <3>1 DEF ConsoleInv, Started, Rows, Cols
  <2>3. CASE ~Started
    <3>1. text_row' = 0 /\ text_col' = 0 /\ reach' = 0
      BY <2>1, <2>3 DEF ConsoleInv
    <3>2. Started' => (Cols >= 1 /\ Rows >= 1 /\ Cols \in Nat /\ Rows \in Nat)'
      BY <2>1, GridFacts, PTL
    <3>3. Started' => rm_data'.width * rm_data'.height \in Nat
      BY <2>1 DEF ProbeInv, TypeOK
    <3> QED
      BY <2>1, <3>1, <3>2, <3>3 DEF ConsoleInv
  <2> QED
    BY <2>2, <2>3
<1>2. CASE (ClearScreen \/ PrintNewLine \/ PrintChar) /\ UNCHANGED vars
  <2>1. ProbeInv' /\ Started /\ Started' /\ UNCHANGED <<rm_data, bios, pc>>
    <3>1. ProbeInv'
      BY <1>2, ProbeNext DEF ConsoleInv
    <3> QED
      BY <1>2, <3>1 DEF vars, Started, ClearScreen, PrintNewLine, PrintChar
  <2>2. /\ rm_data.width * rm_data.height \in Nat
        /\ 4 * rm_data.width * rm_data.height = 4 * (rm_data.width * rm_data.height)
    BY DEF ConsoleInv, ProbeInv, TypeOK
  <2>3. Rows' = Rows /\ Cols' = Cols
    BY <2>1 DEF Rows, Cols
  <2>4. CASE ClearScreen
    BY <2>1, <2>2, <2>3, <2>4 DEF ClearScreen, ConsoleInv
  <2>5. CASE PrintNewLine
    BY <2>1, <2>3, <2>5, RowStays, GridFacts DEF PrintNewLine, NewLine, ConsoleInv
  <2>6. CASE PrintChar
    <3> DEFINE full == text_col >= Cols
               col == IF full THEN 0 ELSE text_col
               row == IF full THEN NextRow(text_row) ELSE text_row
    <3>1. /\ reach' = Max({reach, CellEnd(row, col)})
          /\ text_row' = row /\ text_col' = col + 1
      BY <2>6 DEF PrintChar, Draw
    <3>2. row \in Nat /\ row < Rows /\ col \in Nat /\ col < Cols
      BY <2>1, RowStays, GridFacts DEF ConsoleInv
    <3> HIDE DEF row, col
    <3>3. /\ CellEnd(row, col) \in Nat
          /\ CellEnd(row, col) <= 4 * (rm_data.width * rm_data.height)
      BY <2>1, <3>2, CellInMemory DEF ConsoleInv
    <3>4. reach' \in Nat /\ reach' <= 4 * (rm_data.width * rm_data.height)
      BY <2>1, <2>2, <3>1, <3>3, MaxOfTwo DEF ConsoleInv
    <3>5. text_col' \in Nat /\ text_col' <= Cols
      BY <2>1, <3>1, <3>2, GridFacts DEF ConsoleInv
    <3> QED
      BY <2>1, <2>3, <3>1, <3>2, <3>4, <3>5 DEF ConsoleInv
  <2> QED
    BY <1>2, <2>4, <2>5, <2>6
<1> QED
  BY <1>1, <1>2 DEF ConsoleNext, vars, consoleVars

LEMMA ConsoleInvariant == ConsoleSpec => []ConsoleInv
BY ConsoleStarts, ConsoleNextInv, PTL DEF ConsoleSpec

-----------------------------------------------------------------------------
(* What the screen shows: arithmetic, then the lines of the text.          *)

\* Induction: a set of natural numbers that is not empty has a least element.
LEMMA Least ==
  ASSUME NEW T, T \subseteq Nat, T # {}
  PROVE  \E m \in T : \A k \in T : m <= k
<1> DEFINE R == OpToRel(<, Nat)
<1>1. IsWellFoundedOn(R, Nat)
  BY NatLessThanWellFounded
<1>2. ASSUME NEW x \in Nat, NEW y \in Nat, x < y PROVE <<x, y>> \in R
  BY <1>2 DEF OpToRel
<1> HIDE DEF R
<1>3. PICK m \in T : \A k \in T : ~(<<k, m>> \in R)
  BY <1>1, WFMin
<1>4. \A k \in T : ~(k < m)
  BY <1>2, <1>3
<1> QED
  BY <1>4

LEMMA MaxIsGreatest ==
  ASSUME NEW b \in Nat, NEW S, S \subseteq 0..b, S # {}
  PROVE  Max(S) \in S /\ \A x \in S : x <= Max(S)
<1> DEFINE T == {m \in Nat : \A x \in S : x <= m}
<1>1. T \subseteq Nat /\ b \in T
  OBVIOUS
<1>2. PICK m \in T : \A k \in T : m <= k
  <2> HIDE DEF T
  <2> QED
    BY <1>1, Least
<1>3. m \in S
  <2> SUFFICES ASSUME m \notin S PROVE FALSE
    OBVIOUS
  <2>1. PICK x \in S : TRUE
    OBVIOUS
  <2>2. m - 1 \in T
    BY <1>2, <2>1
  <2> QED
    BY <1>2, <2>2
<1>4. \A x \in S : x <= m /\ x \in Nat
  BY <1>2
<1> HIDE DEF T
<1> QED
  BY <1>3, <1>4 DEF Max

\* The division that goes on by one, as the cursor does.
LEMMA DivModStep ==
  ASSUME NEW x \in Nat, NEW d \in Nat \ {0}
  PROVE  /\ x % d \in 0..(d - 1) /\ x \div d \in Nat
         /\ (x % d) + 1 >= d => (x + 1) % d = 0 /\ (x + 1) \div d = (x \div d) + 1
         /\ (x % d) + 1 < d => /\ (x + 1) % d = (x % d) + 1
                               /\ (x + 1) \div d = x \div d
<1>1. x = (x \div d) * d + (x % d) /\ x % d \in 0..(d - 1) /\ x \div d \in Nat
  BY SMTT(30)
<1>2. /\ (x + 1) = ((x + 1) \div d) * d + ((x + 1) % d)
      /\ (x + 1) % d \in 0..(d - 1) /\ (x + 1) \div d \in Nat
  BY SMTT(30)
<1>3. ASSUME NEW q \in Nat, NEW r \in 0..(d - 1), NEW p \in Nat,
             NEW s \in 0..(d - 1), q * d + r = p * d + s
      PROVE  q = p /\ r = s
  <2>1. CASE q < p
    <3>1. (p - q) * d >= d /\ p * d = q * d + (p - q) * d
      BY <2>1
    <3> QED
      BY <1>3, <3>1
  <2>2. CASE p < q
    <3>1. (q - p) * d >= d /\ q * d = p * d + (q - p) * d
      BY <2>2
    <3> QED
      BY <1>3, <3>1
  <2>3. CASE p = q
    BY <1>3, <2>3
  <2> QED
    BY <2>1, <2>2, <2>3
<1>4. CASE (x % d) + 1 >= d
  <2>1. (x \div d + 1) * d = (x \div d) * d + d
    BY <1>1
  <2>2. x + 1 = (x \div d + 1) * d + 0
    BY <1>1, <1>4, <2>1
  <2> QED
    BY <1>1, <1>2, <1>3, <1>4, <2>2
<1>5. CASE (x % d) + 1 < d
  <2>1. x + 1 = (x \div d) * d + ((x % d) + 1)
    BY <1>1, <1>5
  <2> QED
    BY <1>1, <1>2, <1>3, <1>5, <2>1
<1> QED
  BY <1>1, <1>4, <1>5

\* f[k] is the sum of the first k numbers, up to the last one.
Sums(f, g, last) == f = [k \in 0..last |-> IF k = 0 THEN 0 ELSE f[k - 1] + g[k]]

LEMMA SumsExist ==
  ASSUME NEW last \in Nat, NEW g \in [1..last -> Nat]
  PROVE  \E f : Sums(f, g, last)
<1> DEFINE T == {k \in 0..last : ~\E f : Sums(f, g, k)}
<1>1. T \subseteq Nat
  OBVIOUS
<1> SUFFICES ASSUME T # {} PROVE FALSE
  <2>1. last \in 0..last
    OBVIOUS
  <2>2. last \notin T => \E f : Sums(f, g, last)
    BY <2>1
  <2> QED
    BY <2>2
<1>2. PICK m \in T : \A k \in T : m <= k
  <2> HIDE DEF T
  <2> QED
    BY <1>1, Least
<1>3. CASE m = 0
  <2>1. Sums([k \in 0..0 |-> 0], g, 0)
    BY DEF Sums
  <2> QED
    BY <1>2, <1>3, <2>1
<1>4. CASE m # 0
  <2>1. m - 1 \in 0..last /\ m - 1 \notin T
    BY <1>2, <1>4
  <2>2. PICK f : Sums(f, g, m - 1)
    BY <2>1
  <2> DEFINE h == [k \in 0..m |-> IF k = m THEN f[m - 1] + g[m] ELSE f[k]]
  <2>3. m \in Nat \ {0}
    BY <1>2, <1>4
  <2>4. \A k \in 0..m : h[k] = IF k = 0 THEN 0 ELSE h[k - 1] + g[k]
    BY <2>2, <2>3 DEF Sums
  <2>5. Sums(h, g, m)
    BY <2>4 DEF Sums
  <2> QED
    BY <1>2, <2>5
<1> QED
  BY <1>3, <1>4

LEMMA SumsAreNat ==
  ASSUME NEW last \in Nat, NEW g \in [1..last -> Nat], NEW f, Sums(f, g, last)
  PROVE  \A k \in 0..last : f[k] \in Nat
<1> DEFINE T == {k \in 0..last : f[k] \notin Nat}
<1>1. T \subseteq Nat
  OBVIOUS
<1> SUFFICES ASSUME T # {} PROVE FALSE
  OBVIOUS
<1>2. PICK m \in T : \A k \in T : m <= k
  <2> HIDE DEF T
  <2> QED
    BY <1>1, Least
<1>3. f[m] = IF m = 0 THEN 0 ELSE f[m - 1] + g[m]
  BY <1>2 DEF Sums
<1>4. m # 0 => m - 1 \in 0..last /\ m - 1 \notin T /\ m \in 1..last
  BY <1>2
<1> QED
  BY <1>2, <1>3, <1>4

\* The sums of longer and of shorter lists agree where both are there.
LEMMA SumsAgree ==
  ASSUME NEW last \in Nat, NEW p \in Nat, last <= p, NEW g, NEW h, NEW e, NEW f,
         Sums(e, g, last), Sums(f, h, p), \A k \in 1..last : g[k] = h[k]
  PROVE  \A k \in 0..last : e[k] = f[k]
<1> DEFINE T == {k \in 0..last : e[k] # f[k]}
<1>1. T \subseteq Nat
  OBVIOUS
<1> SUFFICES ASSUME T # {} PROVE FALSE
  OBVIOUS
<1>2. PICK m \in T : \A k \in T : m <= k
  <2> HIDE DEF T
  <2> QED
    BY <1>1, Least
<1>3. /\ e[m] = IF m = 0 THEN 0 ELSE e[m - 1] + g[m]
      /\ f[m] = IF m = 0 THEN 0 ELSE f[m - 1] + h[m]
  BY <1>2 DEF Sums
<1>4. m # 0 => m - 1 \in 0..last /\ m - 1 \notin T /\ m \in 1..last
  BY <1>2
<1> QED
  BY <1>2, <1>3, <1>4

TextOK(N) == /\ text \in Seq({"char", "newline"}) /\ Len(text) = N
             /\ Cols \in Nat \ {0}
Ends(k) == IF text[k] = "newline" THEN Height(k - LineStart(k)) ELSE 0

LEMMA LineFacts ==
  ASSUME NEW k \in Nat \ {0}
  PROVE  /\ LineStart(k) \in 1..k
         /\ \A j \in 1..(k - 1) : text[j] = "newline" => j < LineStart(k)
<1> DEFINE S == {0} \cup {j \in 1..(k - 1) : text[j] = "newline"}
           m == Max(S)
<1>1. S \subseteq 0..(k - 1) /\ S # {} /\ k - 1 \in Nat
  OBVIOUS
<1>2. m \in S /\ \A x \in S : x <= m
  <2> HIDE DEF S
  <2> QED
    BY <1>1, MaxIsGreatest
<1>3. LineStart(k) = m + 1
  BY DEF LineStart
<1>4. \A j \in 1..(k - 1) : text[j] = "newline" => j \in S
  OBVIOUS
<1> HIDE DEF S, m
<1>5. m \in 0..(k - 1)
  BY <1>1, <1>2
<1>6. m + 1 \in 1..k /\ \A x \in 0..(k - 1) : x <= m => x < m + 1
  BY <1>5
<1>7. \A j \in 1..(k - 1) : j \in 0..(k - 1)
  OBVIOUS
<1> QED
  BY <1>2, <1>3, <1>4, <1>6, <1>7

LEMMA HeightFacts ==
  ASSUME Cols \in Nat \ {0}, NEW len \in Nat
  PROVE  /\ Height(len) \in Nat
         /\ len # 0 => Height(len) = ((len - 1) \div Cols) + 1
<1>1. CASE len = 0
  BY <1>1 DEF Height
<1>2. CASE len # 0
  <2>1. ASSUME NEW c \in Nat \ {0}, NEW x \in Nat
        PROVE  (x + c) \div c = (x \div c) + 1 /\ x \div c \in Nat
    BY <2>1, SMTT(30)
  <2>2. len - 1 \in Nat /\ len + Cols - 1 = (len - 1) + Cols
    BY <1>2
  <2>3. Height(len) = ((len - 1) + Cols) \div Cols
    BY <1>2, <2>2 DEF Height
  <2>4. /\ ((len - 1) + Cols) \div Cols = ((len - 1) \div Cols) + 1
        /\ (len - 1) \div Cols \in Nat
    BY <2>1, <2>2
  <2> QED
    BY <2>3, <2>4
<1> QED
  BY <1>1, <1>2

RowsOK(N) == /\ N \in Nat /\ Sums(RowsAbove, [k \in 1..N |-> Ends(k)], N)
             /\ \A k \in 0..N : RowsAbove[k] \in Nat
LEMMA RowsFacts == \A N : TextOK(N) => RowsOK(N)
<1> SUFFICES ASSUME NEW N, TextOK(N)
             PROVE  /\ N \in Nat /\ Sums(RowsAbove, [k \in 1..N |-> Ends(k)], N)
                    /\ \A k \in 0..N : RowsAbove[k] \in Nat
  BY DEF RowsOK
<1> DEFINE g == [k \in 1..N |-> Ends(k)]
<1>1. N \in Nat
  BY LenProperties DEF TextOK
<1>2. g \in [1..N -> Nat]
  <2>1. ASSUME NEW k \in 1..N PROVE Ends(k) \in Nat
    <3>1. k - LineStart(k) \in Nat
      BY <1>1, LineFacts
    <3> QED
      BY <3>1, HeightFacts DEF Ends, TextOK
  <2> QED
    BY <2>1
<1>3. RowsAbove = CHOOSE f : Sums(f, g, N)
  <2>1. \A k \in 0..N : k # 0 => g[k] = Ends(k)
    BY <1>1
  <2>2. \A f : [k \in 0..N |-> IF k = 0 THEN 0 ELSE f[k - 1] + g[k]]
                 = [k \in 0..N |-> IF k = 0 THEN 0 ELSE f[k - 1] + Ends(k)]
    <3> HIDE DEF g
    <3> QED
      BY <2>1
  <2>3. RowsAbove = CHOOSE f : f = [k \in 0..Len(text) |->
                        IF k = 0 THEN 0 ELSE f[k - 1] + Ends(k)]
    BY Zenon DEF RowsAbove, Ends
  <2>4. Len(text) = N
    BY DEF TextOK
  <2> HIDE DEF g
  <2> QED
    BY <2>2, <2>3, <2>4, Zenon DEF Sums
<1> HIDE DEF g
<1>4. Sums(RowsAbove, g, N)
  BY <1>1, <1>2, <1>3, SumsExist, Zenon
<1>5. \A k \in 0..N : RowsAbove[k] \in Nat
  BY <1>1, <1>2, <1>4, SumsAreNat
<1> QED
  BY <1>1, <1>4, <1>5 DEF g

LEMMA RowsFactsNext == \A N : TextOK(N)' => RowsOK(N)'
<1>1. (\A N : TextOK(N) => RowsOK(N))'
  BY RowsFacts, PTL
<1> QED
  BY <1>1

\* What is printed moves nothing that was printed before.
LEMMA TextGrows ==
  ASSUME NEW N, TextOK(N), NEW M, M = N + 1, NEW c \in {"char", "newline"},
         text' = Append(text, c), rm_data' = rm_data
  PROVE  /\ TextOK(M)' /\ N \in Nat
         /\ text'[M] = c /\ \A k \in 1..N : text'[k] = text[k]
         /\ \A k : k = M + 1 =>
              LineStart(k)' = IF c = "newline" THEN k ELSE LineStart(M)
         /\ RowsAbove'[M] = RowsAbove[N] +
              (IF c = "newline" THEN Height(M - LineStart(M)) ELSE 0)
         /\ \A k \in 1..M : Place(k)' = Place(k)
<1>1. /\ TextOK(M)' /\ N \in Nat /\ Cols' = Cols /\ Rows' = Rows
      /\ text'[M] = c /\ \A k \in 1..N : text'[k] = text[k]
  BY AppendProperties, LenProperties DEF TextOK, Cols, Rows
<1>2. ASSUME NEW k \in 1..M PROVE LineStart(k)' = LineStart(k)
  <2>1. \A j \in 1..(k - 1) : text'[j] = text[j]
    <3>1. \A j \in 1..(k - 1) : j \in 1..N
      BY <1>1
    <3> QED
      BY <1>1, <3>1
  <2>2. {j \in 1..(k - 1) : text'[j] = "newline"}
          = {j \in 1..(k - 1) : text[j] = "newline"}
    BY <2>1
  <2> QED
    BY <2>2, Zenon DEF LineStart
<1>3. ASSUME NEW q, q = M + 1
      PROVE  LineStart(q)' = IF c = "newline" THEN q ELSE LineStart(M)
  <2> DEFINE old == {0} \cup {j \in 1..N : text[j] = "newline"}
             new == {0} \cup {j \in 1..M : text'[j] = "newline"}
  <2>1. new = IF c = "newline" THEN old \cup {N + 1} ELSE old
    <3>1. \A j : j \in 1..M <=> j \in 1..N \/ j = N + 1
      BY <1>1
    <3> QED
      BY <1>1, <3>1
  <2>2. LineStart(q)' = Max(new) + 1
    <3>1. q - 1 = N + 1
      BY <1>1, <1>3
    <3> QED
      BY <3>1 DEF LineStart
  <2>3. LineStart(M) = Max(old) + 1
    <3>1. M - 1 = N
      BY <1>1
    <3> QED
      BY <3>1 DEF LineStart
  <2>4. Max(old \cup {N + 1}) = M
    <3> DEFINE S == old \cup {N + 1}
    <3>1. S \subseteq 0..(N + 1) /\ S # {} /\ N + 1 \in Nat /\ N + 1 \in S
      BY <1>1
    <3> HIDE DEF S
    <3>2. Max(S) \in S /\ N + 1 <= Max(S)
      BY <3>1, MaxIsGreatest
    <3>3. Max(S) = M
      <4>1. Max(S) \in 0..(N + 1)
        BY <3>1, <3>2
      <4> QED
        BY <3>1, <3>2, <4>1
    <3> QED
      BY <3>3 DEF S
  <2> HIDE DEF old, new
  <2>5. CASE c = "newline"
    BY <1>1, <1>3, <2>1, <2>2, <2>4, <2>5
  <2>6. CASE c # "newline"
    BY <2>1, <2>2, <2>3, <2>6
  <2> QED
    BY <2>5, <2>6
<1>4. \A k \in 1..M : Height(k - LineStart(k))' = Height(k - LineStart(k))
  BY <1>1, <1>2 DEF Height
<1>5. \A k \in 1..N : k \in 1..M
  BY <1>1
<1>6. \A k \in 1..N : Ends(k)' = Ends(k)
  BY <1>1, <1>4, <1>5 DEF Ends
<1>7. Sums(RowsAbove, [k \in 1..N |-> Ends(k)], N)
  BY RowsFacts DEF RowsOK
<1>8. Sums(RowsAbove', [k \in 1..M |-> Ends(k)'], M)
  <2>1. RowsOK(M)'
    BY <1>1, RowsFactsNext
  <2> QED
    BY <2>1 DEF RowsOK
<1>9. \A k \in 0..N : RowsAbove[k] = RowsAbove'[k]
  <2> DEFINE g == [k \in 1..N |-> Ends(k)]
             h == [k \in 1..M |-> Ends(k)']
  <2>1. \A k \in 1..N : g[k] = h[k]
    BY <1>5, <1>6
  <2>2. Sums(RowsAbove, g, N) /\ Sums(RowsAbove', h, M)
    BY <1>7, <1>8
  <2>3. N \in Nat /\ M \in Nat /\ N <= M
    BY <1>1
  <2> HIDE DEF g, h
  <2> QED
    BY <2>1, <2>2, <2>3, SumsAgree
<1>10. RowsAbove'[M] = RowsAbove'[N] + Ends(M)'
  <2> DEFINE h == [k \in 1..M |-> Ends(k)']
  <2>1. M \in 0..M /\ M # 0 /\ M - 1 = N /\ M \in 1..M
    BY <1>1
  <2>2. h[M] = Ends(M)'
    BY <2>1
  <2>3. Sums(RowsAbove', h, M)
    BY <1>8
  <2> HIDE DEF h
  <2>4. RowsAbove'[M] = RowsAbove'[N] + h[M]
    BY <1>1, <2>1, <2>3 DEF Sums
  <2> QED
    BY <2>2, <2>4
<1>11. Ends(M)' = IF c = "newline" THEN Height(M - LineStart(M)) ELSE 0
  <2>1. \A k \in 1..M :
           Ends(k)' = IF text'[k] = "newline" THEN Height(k - LineStart(k)) ELSE 0
    BY <1>4 DEF Ends
  <2>2. M \in 1..M
    BY <1>1
  <2> QED
    BY <1>1, <2>1, <2>2
<1>12. ASSUME NEW k \in 1..M PROVE Place(k)' = Place(k)
  <2>1. RowsAbove'[k - 1] = RowsAbove[k - 1]
    BY <1>1, <1>9
  <2> QED
    BY <1>1, <1>2, <2>1 DEF Place
<1>13. N \in 0..N
  BY <1>1
<1>14. RowsAbove'[M] = RowsAbove[N] +
         (IF c = "newline" THEN Height(M - LineStart(M)) ELSE 0)
  BY <1>9, <1>10, <1>11, <1>13
<1> QED
  BY <1>1, <1>3, <1>12, <1>14

-----------------------------------------------------------------------------
(* The cursor and the cells.                                               *)

\* After N characters the cursor is behind the last one of its line, or at the
\* line's start; K is the number of the next one.
Cursor(N, K) ==
  LET len == K - LineStart(K) IN
  /\ len = 0 => text_col = 0 /\ text_row = RowsAbove[N] % Rows
  /\ len # 0 => /\ text_col = ((len - 1) % Cols) + 1
                /\ text_row = (RowsAbove[N] + (len - 1) \div Cols) % Rows
CursorOK == \A N, K : N = Len(text) /\ K = N + 1 => Cursor(N, K)

ScreenInv ==
  /\ text \in Seq({"char", "newline"})
  /\ reach = 0 => text = <<>> /\ cells = <<>> /\ text_row = 0 /\ text_col = 0
  /\ Started => CursorOK
  /\ ScreenShowsText

LEMMA NextRowIs ==
  ASSUME NEW x \in Nat, Rows \in Nat \ {0}
  PROVE  NextRow(x % Rows) = (x + 1) % Rows
<1>1. /\ x % Rows \in 0..(Rows - 1)
      /\ (x % Rows) + 1 >= Rows => (x + 1) % Rows = 0
      /\ (x % Rows) + 1 < Rows => (x + 1) % Rows = (x % Rows) + 1
  BY DivModStep
<1> QED
  BY <1>1 DEF NextRow

LEMMA CursorFacts ==
  ASSUME NEW N, TextOK(N), NEW K, K = N + 1
  PROVE  /\ N \in Nat /\ K \in Nat \ {0} /\ K - LineStart(K) \in Nat
         /\ RowsAbove[N] \in Nat
         /\ Place(K) = <<(RowsAbove[N] + (K - LineStart(K)) \div Cols) % Rows,
                         (K - LineStart(K)) % Cols>>
<1>1. N \in Nat /\ K \in Nat \ {0} /\ K - 1 = N /\ RowsAbove[N] \in Nat
  <2>1. N \in Nat /\ \A k \in 0..N : RowsAbove[k] \in Nat
    BY RowsFacts DEF RowsOK
  <2> QED
    BY <2>1
<1>2. K - LineStart(K) \in Nat
  BY <1>1, LineFacts
<1>3. Place(K) = <<(RowsAbove[N] + (K - LineStart(K)) \div Cols) % Rows,
                   (K - LineStart(K)) % Cols>>
  BY <1>1 DEF Place
<1> QED
  BY <1>1, <1>2, <1>3

\* The next character goes to its place, on the next row if the line is full.
LEMMA CharGoesToItsPlace ==
  ASSUME NEW N, TextOK(N), NEW K, K = N + 1, Cursor(N, K), Rows \in Nat \ {0}
  PROVE  LET full == text_col >= Cols
         IN Place(K) = <<IF full THEN NextRow(text_row) ELSE text_row,
                         IF full THEN 0 ELSE text_col>>
<1> DEFINE len == K - LineStart(K)
           above == RowsAbove[N]
<1>1. /\ len \in Nat /\ above \in Nat /\ Cols \in Nat \ {0}
      /\ Place(K) = <<(above + len \div Cols) % Rows, len % Cols>>
  BY CursorFacts DEF TextOK
<1>2. /\ len = 0 => text_col = 0 /\ text_row = above % Rows
      /\ len # 0 => /\ text_col = ((len - 1) % Cols) + 1
                    /\ text_row = (above + (len - 1) \div Cols) % Rows
  BY DEF Cursor
<1> HIDE DEF len, above
<1>3. CASE len = 0
  <2>1. 0 \div Cols = 0 /\ 0 % Cols = 0 /\ above + 0 = above /\ ~(0 >= Cols)
    BY <1>1
  <2> QED
    BY <1>1, <1>2, <1>3, <2>1
<1>4. CASE len # 0
  <2> DEFINE x == len - 1
  <2>1. x \in Nat /\ x + 1 = len
    BY <1>1, <1>4
  <2> HIDE DEF x
  <2>2. /\ x % Cols \in 0..(Cols - 1) /\ x \div Cols \in Nat
        /\ (x % Cols) + 1 >= Cols => len % Cols = 0 /\ len \div Cols = (x \div Cols) + 1
        /\ (x % Cols) + 1 < Cols => /\ len % Cols = (x % Cols) + 1
                                    /\ len \div Cols = x \div Cols
    BY <1>1, <2>1, DivModStep
  <2>3. text_col = (x % Cols) + 1 /\ text_row = (above + x \div Cols) % Rows
    BY <1>2, <1>4 DEF x
  <2>4. above + x \div Cols \in Nat
    BY <1>1, <2>2
  <2>5. NextRow(text_row) = ((above + x \div Cols) + 1) % Rows
    BY <2>3, <2>4, NextRowIs
  <2>6. CASE (x % Cols) + 1 >= Cols
    <3>1. above + len \div Cols = (above + x \div Cols) + 1
      BY <1>1, <2>2, <2>6
    <3> QED
      BY <1>1, <2>2, <2>3, <2>5, <2>6, <3>1
  <2>7. CASE (x % Cols) + 1 < Cols
    BY <1>1, <2>2, <2>3, <2>7
  <2> QED
    BY <1>1, <2>2, <2>6, <2>7
<1> QED
  BY <1>3, <1>4

\* The row that a new line starts on is the one behind all rows of the old one.
LEMMA NewLineGoesOn ==
  ASSUME NEW N, TextOK(N), NEW K, K = N + 1, Cursor(N, K), Rows \in Nat \ {0}
  PROVE  NextRow(text_row) = (RowsAbove[N] + Height(K - LineStart(K))) % Rows
<1> DEFINE len == K - LineStart(K)
           above == RowsAbove[N]
<1>1. /\ len \in Nat /\ above \in Nat /\ Cols \in Nat \ {0}
  BY CursorFacts DEF TextOK
<1>2. /\ len = 0 => text_row = above % Rows
      /\ len # 0 => text_row = (above + (len - 1) \div Cols) % Rows
  BY DEF Cursor
<1> HIDE DEF len, above
<1>3. CASE len = 0
  <2>1. Height(len) = 1
    BY <1>3 DEF Height
  <2>2. NextRow(text_row) = (above + 1) % Rows
    BY <1>1, <1>2, <1>3, NextRowIs
  <2> QED
    BY <2>1, <2>2 DEF len, above
<1>4. CASE len # 0
  <2>1. Height(len) = ((len - 1) \div Cols) + 1 /\ len - 1 \in Nat
    BY <1>1, <1>4, HeightFacts
  <2>2. (len - 1) \div Cols \in Nat
    BY <1>1, <2>1, DivModStep
  <2>3. above + (len - 1) \div Cols \in Nat
    BY <1>1, <2>2
  <2>4. NextRow(text_row) = ((above + (len - 1) \div Cols) + 1) % Rows
    BY <1>2, <1>4, <2>3, NextRowIs
  <2>5. (above + (len - 1) \div Cols) + 1 = above + Height(len)
    BY <1>1, <2>1, <2>2
  <2> QED
    BY <2>4, <2>5 DEF len, above
<1> QED
  BY <1>3, <1>4

LEMMA BlankScreen ==
  ProbeInv /\ Started /\ text = <<>> /\ text_row = 0 /\ text_col = 0 => CursorOK
<1> SUFFICES ASSUME ProbeInv, Started, text = <<>>, text_row = 0, text_col = 0,
                    NEW N, NEW K, N = Len(text), K = N + 1
             PROVE  Cursor(N, K)
  BY DEF CursorOK
<1>1. N = 0 /\ K = 1
  BY EmptySeq
<1>2. LineStart(1) = 1
  BY LineFacts
<1>3. Cols \in Nat \ {0} /\ Rows \in Nat \ {0}
  BY GridFacts
<1>4. TextOK(0)
  BY <1>1, <1>3, EmptySeq DEF TextOK
<1>5. RowsAbove[0] = 0
  BY <1>4, RowsFacts DEF RowsOK, Sums
<1>6. 0 % Rows = 0
  BY <1>3
<1> QED
  BY <1>1, <1>2, <1>5, <1>6 DEF Cursor

Chars == {k \in DOMAIN text : text[k] = "char"}

LEMMA NewLineShows ==
  ASSUME ConsoleInv, ScreenInv, PrintNewLine, UNCHANGED vars
  PROVE  ScreenInv'
<1> DEFINE N == Len(text)
<1>1. /\ Started /\ Started' /\ reach' = reach /\ reach > 0 /\ rm_data' = rm_data
      /\ cells' = cells /\ text' = Append(text, "newline")
      /\ text_col' = 0 /\ text_row' = NextRow(text_row)
  BY DEF PrintNewLine, NewLine, Started, vars
<1>2. Cols \in Nat \ {0} /\ Rows \in Nat \ {0} /\ Rows' = Rows
  BY <1>1, GridFacts DEF ConsoleInv, Rows
<1>3. TextOK(N)
  BY <1>2 DEF TextOK, ScreenInv
<1>4. N \in Nat
  BY LenProperties DEF ScreenInv
<1>5. PICK M : M = N + 1
  OBVIOUS
<1> HIDE DEF N
<1>6. /\ TextOK(M)' /\ text'[M] = "newline"
      /\ \A k \in 1..N : text'[k] = text[k]
      /\ \A k : k = M + 1 => LineStart(k)' = k
      /\ RowsAbove'[M] = RowsAbove[N] + Height(M - LineStart(M))
      /\ \A k \in 1..M : Place(k)' = Place(k)
  BY <1>1, <1>3, <1>5, TextGrows
<1>7. Cursor(N, M)
  BY <1>1, <1>5 DEF ScreenInv, CursorOK, N
<1>8. NextRow(text_row) = RowsAbove'[M] % Rows
  BY <1>2, <1>3, <1>5, <1>6, <1>7, NewLineGoesOn
<1>9. CursorOK'
  <2> SUFFICES ASSUME NEW A, NEW K, A = Len(text'), K = A + 1 PROVE Cursor(A, K)'
    BY DEF CursorOK
  <2>1. A = M /\ K = M + 1 /\ M \in Nat
    BY <1>4, <1>5, <1>6 DEF TextOK
  <2>2. LineStart(K)' = K /\ K - K = 0
    BY <1>6, <2>1
  <2> QED
    BY <1>1, <1>2, <1>8, <2>1, <2>2 DEF Cursor
<1>10. Chars' = Chars /\ Chars \subseteq 1..N
  <2>1. DOMAIN text = 1..N /\ DOMAIN text' = 1..M
    BY <1>3, <1>6, LenProperties DEF TextOK
  <2>2. \A k : k \in 1..M <=> k \in 1..N \/ k = M
    BY <1>4, <1>5
  <2> QED
    BY <1>6, <2>1, <2>2 DEF Chars
<1>11. \A k \in Chars : Place(k)' = Place(k)
  <2>1. \A k \in 1..N : k \in 1..M
    BY <1>4, <1>5
  <2> QED
    BY <1>6, <1>10, <2>1
<1>12. ScreenShowsText'
  <2>1. {Place(k)' : k \in Chars} = {Place(k) : k \in Chars}
    BY <1>11
  <2>2. \A c : {k \in Chars : Place(k)' = c} = {k \in Chars : Place(k) = c}
    BY <1>11
  <2>3. /\ DOMAIN cells = {Place(k) : k \in Chars}
        /\ \A c \in DOMAIN cells : cells[c] = Max({k \in Chars : Place(k) = c})
    BY Zenon DEF ScreenInv, ScreenShowsText, Chars
  <2>4. /\ DOMAIN cells' = {Place(k)' : k \in Chars'}
        /\ \A c \in DOMAIN cells' : cells'[c] = Max({k \in Chars' : Place(k)' = c})
    BY <1>1, <1>10, <2>1, <2>2, <2>3, Zenon
  <2> QED
    BY <2>4, Zenon DEF ScreenShowsText, Chars
<1>13. reach' # 0 /\ text' \in Seq({"char", "newline"})
  BY <1>1, <1>6 DEF TextOK, ConsoleInv
<1> QED
  BY <1>9, <1>12, <1>13 DEF ScreenInv

LEMMA CharShows ==
  ASSUME ConsoleInv, ScreenInv, PrintChar, UNCHANGED vars
  PROVE  ScreenInv'
<1> DEFINE N == Len(text)
           full == text_col >= Cols
           col == IF full THEN 0 ELSE text_col
           row == IF full THEN NextRow(text_row) ELSE text_row
           cell == <<row, col>>
<1>1. /\ Started /\ Started' /\ reach > 0 /\ rm_data' = rm_data
      /\ text' = Append(text, "char")
      /\ cells' = [c \in DOMAIN cells \cup {cell} |->
                     IF c = cell THEN N + 1 ELSE cells[c]]
      /\ reach' = Max({reach, CellEnd(row, col)})
      /\ text_col' = col + 1 /\ text_row' = row
  BY DEF PrintChar, Draw, Started, vars
<1>2. Cols \in Nat \ {0} /\ Rows \in Nat \ {0} /\ Rows' = Rows /\ Cols' = Cols
  BY <1>1, GridFacts DEF ConsoleInv, Rows, Cols
<1>3. TextOK(N)
  BY <1>2 DEF TextOK, ScreenInv
<1>4. N \in Nat
  BY LenProperties DEF ScreenInv
<1>5. PICK M : M = N + 1
  OBVIOUS
<1>6. reach' # 0
  <2>1. row \in Nat /\ col \in Nat /\ row < Rows /\ col < Cols /\ reach \in Nat
    BY <1>1, RowStays, GridFacts DEF ConsoleInv
  <2> HIDE DEF row, col
  <2>2. CellEnd(row, col) \in Nat
    BY <1>1, <2>1, CellInMemory DEF ConsoleInv
  <2> QED
    BY <1>1, <2>1, <2>2, MaxOfTwo
<1>7. Cursor(N, M)
  BY <1>1, <1>5 DEF ScreenInv, CursorOK
<1>8. Place(M) = cell
  BY <1>2, <1>3, <1>5, <1>7, CharGoesToItsPlace
<1> HIDE DEF N, col, row, cell
<1>9. /\ TextOK(M)' /\ text'[M] = "char"
      /\ \A k \in 1..N : text'[k] = text[k]
      /\ \A k : k = M + 1 => LineStart(k)' = LineStart(M)
      /\ RowsAbove'[M] = RowsAbove[N] + 0
      /\ \A k \in 1..M : Place(k)' = Place(k)
  BY <1>1, <1>3, <1>5, TextGrows
<1>10. /\ M \in Nat \ {0} /\ M - LineStart(M) \in Nat /\ RowsAbove[N] \in Nat
       /\ row = (RowsAbove[N] + (M - LineStart(M)) \div Cols) % Rows
       /\ col = (M - LineStart(M)) % Cols
  BY <1>3, <1>5, <1>8, CursorFacts DEF cell
<1>11. CursorOK'
  <2> SUFFICES ASSUME NEW A, NEW K, A = Len(text'), K = A + 1 PROVE Cursor(A, K)'
    BY DEF CursorOK
  <2>1. A = M /\ K = M + 1
    BY <1>9 DEF TextOK
  <2>2. LineStart(K)' = LineStart(M) /\ RowsAbove'[A] = RowsAbove[N]
    BY <1>9, <1>10, <2>1
  <2>3. /\ K - LineStart(M) # 0
        /\ K - LineStart(M) - 1 = M - LineStart(M)
    BY <1>10, <2>1, LineFacts
  <2> QED
    BY <1>1, <1>2, <1>10, <2>2, <2>3 DEF Cursor
<1>12. Chars' = Chars \cup {M} /\ Chars \subseteq 1..N /\ M \notin Chars
  <2>1. DOMAIN text = 1..N /\ DOMAIN text' = 1..M
    BY <1>3, <1>9, LenProperties DEF TextOK
  <2>2. (\A k : k \in 1..M <=> k \in 1..N \/ k = M) /\ M \notin 1..N
    BY <1>4, <1>5
  <2> QED
    BY <1>9, <2>1, <2>2 DEF Chars
<1>13. (\A k \in Chars : Place(k)' = Place(k)) /\ Place(M)' = cell
  <2>1. (\A k \in 1..N : k \in 1..M) /\ M \in 1..M
    BY <1>4, <1>5
  <2>2. \A k \in Chars \cup {M} : Place(k)' = Place(k)
    BY <1>9, <1>12, <2>1
  <2> QED
    BY <1>8, <2>2
<1>14. ScreenShowsText'
  <2>1. /\ DOMAIN cells = {Place(k) : k \in Chars}
        /\ \A c \in DOMAIN cells : cells[c] = Max({k \in Chars : Place(k) = c})
    BY Zenon DEF ScreenInv, ScreenShowsText, Chars
  <2>2. {Place(k)' : k \in Chars \cup {M}} = {Place(k) : k \in Chars} \cup {cell}
    BY <1>13
  <2>3. ASSUME NEW c \in DOMAIN cells'
        PROVE  cells'[c] = Max({k \in Chars' : Place(k)' = c})
    <3> DEFINE S == {k \in Chars \cup {M} : Place(k)' = c}
    <3>1. CASE c = cell
      <4>1. M \in S /\ S \subseteq 0..M /\ M \in Nat
        <5>1. M \in Nat /\ \A k : k \in 1..N \/ k = M => k \in 0..M
          BY <1>4, <1>5
        <5>2. S \subseteq Chars \cup {M}
          OBVIOUS
        <5>3. \A k \in S : k \in 0..M
          BY <1>12, <5>1, <5>2
        <5>4. M \in S
          BY <1>13, <3>1
        <5> QED
          BY <5>1, <5>3, <5>4
      <4> HIDE DEF S
      <4>2. Max(S) \in S /\ M <= Max(S)
        BY <4>1, MaxIsGreatest
      <4>3. Max(S) = M
        <5>1. Max(S) \in 0..M
          BY <4>1, <4>2
        <5> QED
          BY <4>1, <4>2, <5>1
      <4> QED
        BY <1>1, <1>5, <1>12, <3>1, <4>3 DEF S
    <3>2. CASE c # cell
      <4>1. S = {k \in Chars : Place(k) = c}
        BY <1>13, <3>2
      <4>2. c \in DOMAIN cells /\ cells'[c] = cells[c]
        BY <1>1, <3>2
      <4> QED
        BY <1>12, <2>1, <4>1, <4>2
    <3> QED
      BY <3>1, <3>2
  <2>4. DOMAIN cells' = {Place(k)' : k \in Chars'}
    BY <1>1, <1>12, <2>1, <2>2
  <2> QED
    BY <2>3, <2>4, Zenon DEF ScreenShowsText, Chars
<1> QED
  BY <1>6, <1>9, <1>11, <1>14 DEF ScreenInv, TextOK

LEMMA ScreenNext ==
  ASSUME ConsoleInv, ScreenInv, [ConsoleNext]_<<vars, consoleVars>>
  PROVE  ScreenInv'
<1>1. CASE PrintNewLine /\ UNCHANGED vars
  BY <1>1, NewLineShows
<1>2. CASE PrintChar /\ UNCHANGED vars
  BY <1>2, CharShows
<1>3. CASE ClearScreen /\ UNCHANGED vars
  <2>1. /\ UNCHANGED <<text, text_col, text_row, cells, rm_data>>
        /\ Started /\ reach = 0
    BY <1>3 DEF ClearScreen, vars
  <2>2. CursorOK'
    <3>1. Rows' = Rows /\ Cols' = Cols /\ CursorOK
      BY <2>1 DEF Rows, Cols, ScreenInv
    <3>2. \A k : LineStart(k)' = LineStart(k)
      BY <2>1 DEF LineStart
    <3>3. RowsAbove' = RowsAbove
      BY <2>1, <3>1, <3>2 DEF RowsAbove, Height
    <3> QED
      BY <2>1, <3>1, <3>2, <3>3 DEF CursorOK, Cursor
  <2>3. ScreenShowsText'
    BY <2>1, EmptySeq DEF ScreenInv, ScreenShowsText
  <2> QED
    BY <2>1, <2>2, <2>3 DEF ScreenInv
<1>4. CASE [Next]_vars /\ UNCHANGED consoleVars
  <2>1. /\ UNCHANGED <<text, text_col, text_row, cells, reach>>
        /\ ConsoleInv'
    BY <1>4, ConsoleNextInv DEF consoleVars, ConsoleNext, vars
  <2>2. CASE reach = 0
    <3>1. text = <<>> /\ cells = <<>> /\ text_row = 0 /\ text_col = 0
      BY <2>2 DEF ScreenInv
    <3>2. ScreenShowsText'
      BY <2>1, <3>1, EmptySeq DEF ScreenShowsText
    <3>3. Started' => CursorOK'
      <4>1. (ProbeInv /\ Started /\ text = <<>> /\ text_row = 0 /\ text_col = 0
               => CursorOK)'
        BY BlankScreen, PTL
      <4> QED
        BY <2>1, <3>1, <4>1 DEF ConsoleInv
    <3> QED
      BY <2>1, <3>1, <3>2, <3>3 DEF ScreenInv
  <2>3. CASE reach # 0
    <3>1. pc = "main"
      BY <2>3 DEF ConsoleInv, Started
    <3>2. ~Next
      BY <3>1, Zenon DEF Next, CheckEdd, LoadStage2, IdDrive, CheckCpu, GetFont,
         ListModes, ConsiderMode, DescribeMode, SetMode, E820End, E820Answer,
         EnterMain
    <3>3. UNCHANGED <<rm_data, pc, text, text_col, text_row, cells, reach>>
      BY <1>4, <2>1, <3>2 DEF vars
    <3>4. Rows' = Rows /\ Cols' = Cols
      BY <3>3 DEF Rows, Cols
    <3>5. \A k : LineStart(k)' = LineStart(k)
      BY <3>3 DEF LineStart
    <3>6. RowsAbove' = RowsAbove
      BY <3>3, <3>4, <3>5 DEF RowsAbove, Height
    <3>7. \A k : Place(k)' = Place(k)
      BY <3>4, <3>5, <3>6 DEF Place
    <3>8. CursorOK' <=> CursorOK
      BY <3>3, <3>4, <3>5, <3>6 DEF CursorOK, Cursor
    <3>9. ScreenShowsText' <=> ScreenShowsText
      BY <3>3, <3>7 DEF ScreenShowsText
    <3> QED
      BY <3>3, <3>8, <3>9 DEF ScreenInv, Started
  <2> QED
    BY <2>2, <2>3
<1> QED
  BY <1>1, <1>2, <1>3, <1>4 DEF ConsoleNext, vars, consoleVars

\* Every variable of real mode stays in its range. The e820 answers, and the
\* list of modes unless it is empty, are not read beyond their end; of an empty
\* list the words up to the next end mark are read.
THEOREM TypeCorrect == ConsoleSpec => []TypeOK
<1>1. ConsoleInv => TypeOK
  BY DEF ConsoleInv, ProbeInv
<1> QED
  BY <1>1, ConsoleInvariant, PTL

\* What stops stage 2's stub leaves its own message, read from the segment in
\* which it is.
THEOREM MessagesAreShown == ConsoleSpec => []MessageIsShown
<1>1. ConsoleInv => MessageIsShown
  BY DEF ConsoleInv, ProbeInv, MessageInv
<1> QED
  BY <1>1, ConsoleInvariant, PTL

\* main gets a mode the BIOS describes as good enough, and the biggest of them,
\* for any list but an empty one, with modes it does not describe at any place;
\* and if there is no such mode it is started on mode 0 or not at all.
THEOREM ModeIsRight == ConsoleSpec => []ModeIsBiggest
<1>1. ConsoleInv => ModeIsBiggest
  <2> SUFFICES ASSUME ConsoleInv, Started, bios.vbe >= 2, bios.modes # <<>>
               PROVE  \/ \E k \in Candidates : IsBiggest(k)
                      \/ /\ Candidates = {}
                         /\ bios.zero.answered /\ bios.zero.settable
    BY DEF ModeIsBiggest
  <2>1. /\ rm_data.width = Chosen.is.width /\ rm_data.height = Chosen.is.height
        /\ Chosen.answered /\ Chosen.settable
        /\ \A j \in Fit : Size(j) <= best.pixels
    BY DEF ConsoleInv, ProbeInv, SearchInv, Started, Settled
  <2>2. /\ Words = bios.modes /\ Fit = Candidates
        /\ \A j \in DOMAIN Words : Size(j) = Pixels(j)
    BY CandidatesAreFit DEF ConsoleInv, ProbeInv
  <2>3. CASE best.mode # 0
    <3>1. Chosen = bios.modes[best.mode]
      BY <2>2, <2>3, MachineFacts DEF ConsoleInv, ProbeInv, Chosen
    <3>2. best.mode \in Candidates /\ best.pixels = Size(best.mode)
      BY <2>1, <2>2, <2>3, <3>1 DEF ConsoleInv, ProbeInv, SearchInv
    <3>3. \A j \in Candidates : Size(j) = Pixels(j)
      BY <2>2 DEF Candidates
    <3>4. IsBiggest(best.mode)
      BY <2>1, <2>2, <3>1, <3>2, <3>3 DEF IsBiggest
    <3> QED
      BY <3>2, <3>4
  <2>4. CASE best.mode = 0
    <3>1. Chosen = bios.zero
      BY <2>4, MachineFacts DEF ConsoleInv, ProbeInv, Chosen
    <3> QED
      BY <2>1, <2>4, <3>1, SearchFinds DEF ConsoleInv
  <2> QED
    BY <2>3, <2>4
<1> QED
  BY <1>1, ConsoleInvariant, PTL

LEMMA MapInvariant == ConsoleSpec => []MapInv
<1>1. ConsoleInit => MapInv
  BY DEF ConsoleInit, Init, MapInv
<1>2. ConsoleInv /\ MapInv /\ [ConsoleNext]_<<vars, consoleVars>> => MapInv'
  <2> SUFFICES ASSUME ConsoleInv, MapInv, [ConsoleNext]_<<vars, consoleVars>>
               PROVE  MapInv'
    OBVIOUS
  <2>1. [Next]_vars
    BY DEF ConsoleNext, vars
  <2> QED
    BY <2>1, MapStays DEF ConsoleInv
<1> QED
  BY <1>1, <1>2, ConsoleInvariant, PTL DEF ConsoleSpec

\* main gets the entries of the BIOS's memory map that are neither empty nor
\* invalid, each of them once and in the BIOS's order, however many there are
\* and whichever way the BIOS ends the map; of those among them with a length
\* whose halves add up to 2^32 it may get some or none.
THEOREM MapIsRight == ConsoleSpec => []MapIsBios
<1>1. ConsoleInv /\ MapInv => MapIsBios
  <2> SUFFICES ASSUME ConsoleInv, MapInv, Started PROVE MapIsBios
    BY DEF MapIsBios
  <2>1. /\ Lists(Before) /\ n > Len(bios.e820)
        /\ rm_data.memmap_size = Len(memmap)
    BY DEF MapInv, Started
  <2>2. \A k \in Kept : k < n
    <3>1. n \in Nat /\ bios \in Bios
      BY DEF ConsoleInv, ProbeInv, TypeOK
    <3> QED
      BY <2>1, <3>1, AnswerFacts DEF Kept, Wanted, Cancelling
  <2>3. Before = Kept
    BY <2>2 DEF Before
  <2>4. Before = Wanted \ Cancelling /\ Cancelling \in SUBSET Cancelling
    BY <2>3 DEF Kept
  <2> QED
    BY <2>1, <2>4 DEF MapIsBios
<1> QED
  BY <1>1, ConsoleInvariant, MapInvariant, PTL

\* If the BIOS's list has a good mode, the console writes nothing beyond the
\* video memory of the one that was set, whatever is printed, for any font and
\* any size of the screen.
THEOREM ScreenIsSafe == ConsoleSpec => []InVideoMemory
<1>1. ConsoleInv => InVideoMemory
  <2> SUFFICES ASSUME ConsoleInv, bios.vbe >= 2, Candidates # {}
               PROVE  reach <= rm_data.width * rm_data.height * (rm_data.bpp \div 8)
    BY DEF InVideoMemory
  <2>1. CASE Started
    <3>1. rm_data.bpp = 32 /\ 32 \div 8 = 4
      BY <2>1, ModeFits, SearchFinds DEF ConsoleInv
    <3>2. /\ rm_data.width * rm_data.height \in Nat
          /\ reach <= 4 * (rm_data.width * rm_data.height)
      BY <2>1, ModeFits DEF ConsoleInv
    <3> QED
      BY <3>1, <3>2
  <2>2. CASE ~Started
    <3>1. reach = 0
      BY <2>2 DEF ConsoleInv
    <3>2. /\ rm_data.width \in Nat /\ rm_data.height \in Nat
          /\ rm_data.bpp \in Nat
      BY DEF ConsoleInv, ProbeInv
    <3>3. rm_data.width * rm_data.height \in Nat /\ rm_data.bpp \div 8 \in Nat
      BY <3>2
    <3> QED
      BY <3>1, <3>3
  <2> QED
    BY <2>1, <2>2
<1> QED
  BY <1>1, ConsoleInvariant, PTL

\* A cell shows the character that was printed to it last, on the row and in the
\* column where lines of any length put it, whatever the size of the screen and
\* of the font and however long the text.
THEOREM ScreenIsRight == ConsoleSpec => []ScreenShowsText
<1>1. ConsoleInit => ScreenInv
  <2> SUFFICES ASSUME ConsoleInit PROVE ScreenInv
    OBVIOUS
  <2>1. text = <<>> /\ cells = <<>> /\ text_row = 0 /\ text_col = 0 /\ ~Started
    BY DEF ConsoleInit, Init, Started
  <2>2. ScreenShowsText
    BY <2>1, EmptySeq DEF ScreenShowsText
  <2> QED
    BY <2>1, <2>2, EmptySeq DEF ScreenInv
<1>2. ConsoleInv /\ ScreenInv /\ [ConsoleNext]_<<vars, consoleVars>> => ScreenInv'
  BY ScreenNext
<1>3. ScreenInv => ScreenShowsText
  BY DEF ScreenInv
<1> QED
  BY <1>1, <1>2, <1>3, ConsoleInvariant, PTL DEF ConsoleSpec

-----------------------------------------------------------------------------
(* The boot cannot go round in circles: at most so many steps are left of  *)
(* it, one for each place on the way, for each mode and for each answer.   *)

Ahead == [check_edd |-> 10, load |-> 9, id_drive |-> 8, check_cpu |-> 7,
          get_font |-> 6, svga |-> 5, modes |-> 4, legacy |-> 4, describe |-> 4,
          set_mode |-> 3, map_memory |-> 2, a20 |-> 1, main |-> 0, halted |-> 0]
ModesLeft == IF pc \in Places \cup {"check_edd"} THEN Len(Words)
             ELSE IF pc = "modes" THEN Len(Words) + 1 - n ELSE 0
AnswersLeft == IF pc \in {"a20", "main", "halted"} THEN 0
               ELSE IF pc = "map_memory" THEN Len(bios.e820) + 1 - n
               ELSE Len(bios.e820)
StepsLeft == Ahead[pc] + ModesLeft + AnswersLeft

LEMMA PartsAreNat ==
  ASSUME ProbeInv, MapInv
  PROVE  /\ Ahead[pc] \in 0..10
         /\ pc \notin {"main", "halted"} => Ahead[pc] > 0
         /\ ModesLeft \in 0..Len(Words)
         /\ AnswersLeft \in 0..Len(bios.e820)
<1>1. /\ Len(Words) \in Nat \ {0} /\ Len(bios.e820) \in Nat /\ n \in Nat \ {0}
      /\ pc = "modes" => n <= Len(Words)
      /\ pc = "map_memory" => n <= Len(bios.e820) + 1
  BY MachineFacts DEF ProbeInv, TypeOK, MapInv
<1>2. /\ Ahead[pc] \in 0..10
      /\ pc \notin {"main", "halted"} => Ahead[pc] > 0
  BY DEF ProbeInv, Settled, Ahead
<1>3. ModesLeft \in 0..Len(Words)
  BY <1>1 DEF ModesLeft
<1>4. AnswersLeft \in 0..Len(bios.e820)
  BY <1>1 DEF AnswersLeft
<1> QED
  BY <1>2, <1>3, <1>4

LEMMA StepsAreNat ==
  ASSUME ProbeInv, MapInv
  PROVE  /\ StepsLeft \in Nat
         /\ StepsLeft <= 10 + Len(Words) + Len(bios.e820)
<1>1. Len(Words) \in Nat /\ Len(bios.e820) \in Nat
  BY MachineFacts DEF ProbeInv
<1>2. \A m, e \in Nat : \A a \in 0..10, b \in 0..m, c \in 0..e :
        a + b + c \in Nat /\ a + b + c <= 10 + m + e
  OBVIOUS
<1> QED
  BY <1>1, <1>2, PartsAreNat DEF StepsLeft

\* What a step does to the place it is at and to the entry that is next.
LEMMA StepsGoOn ==
  ASSUME ProbeInv, MapInv, Next
  PROVE  /\ bios' = bios
         /\ \/ pc \notin {"main", "halted"} /\ pc' = "halted"
            \/ pc = "check_edd" /\ pc' = "load"
            \/ pc = "load" /\ pc' = "id_drive"
            \/ pc = "id_drive" /\ pc' = "check_cpu"
            \/ pc = "check_cpu" /\ pc' = "get_font"
            \/ pc = "get_font" /\ pc' = "svga"
            \/ pc = "svga" /\ pc' = "modes" /\ n' = 1
            \/ pc = "svga" /\ pc' = "legacy"
            \/ pc = "modes" /\ pc' = "modes" /\ n' = n + 1 /\ n < Len(Words)
            \/ pc = "modes" /\ pc' = "describe"
            \/ pc \in {"legacy", "describe"} /\ pc' = "set_mode"
            \/ pc = "set_mode" /\ pc' = "map_memory" /\ n' = 1
            \/ /\ pc = "map_memory" /\ pc' = "map_memory" /\ n' = n + 1
               /\ n <= Len(bios.e820)
            \/ pc = "map_memory" /\ pc' = "a20"
            \/ pc = "a20" /\ pc' = "main"
<1>1. /\ Len(Words) \in Nat /\ n \in Nat
      /\ pc = "modes" => n <= Len(Words)
  BY MachineFacts DEF ProbeInv, TypeOK
<1>2. CASE CheckEdd \/ LoadStage2 \/ IdDrive
  BY <1>2 DEF CheckEdd, LoadStage2, IdDrive, Fail
<1>3. CASE CheckCpu \/ GetFont
  BY <1>3 DEF CheckCpu, GetFont, Fail
<1>4. CASE ListModes
  BY <1>4 DEF ListModes
<1>5. CASE ConsiderMode
  BY <1>1, <1>5 DEF ConsiderMode
<1>6. CASE DescribeMode
  BY <1>6 DEF DescribeMode, Fail
<1>7. CASE SetMode
  BY <1>7 DEF SetMode, Fail
<1>8. CASE E820End
  BY <1>8 DEF E820End, Fail
<1>9. CASE E820Answer
  BY <1>9 DEF E820Answer, Fail
<1>10. CASE EnterMain
  BY <1>10 DEF EnterMain, Fail
<1> QED
  BY <1>2, <1>3, <1>4, <1>5, <1>6, <1>7, <1>8, <1>9, <1>10 DEF Next

LEMMA StepsFall ==
  ASSUME ProbeInv, MapInv, Next, ProbeInv', MapInv'
  PROVE  StepsLeft' < StepsLeft
<1> PICK m \in Nat \ {0}, e \in Nat : m = Len(Words) /\ e = Len(bios.e820)
  BY MachineFacts DEF ProbeInv
<1>1. /\ n \in Nat \ {0}
      /\ pc = "modes" => n <= m
      /\ pc = "map_memory" => n <= e + 1
  BY DEF ProbeInv, TypeOK, MapInv
<1>2. bios' = bios
  BY StepsGoOn
<1>3. /\ ModesLeft = IF pc \in Places \cup {"check_edd"} THEN m
                     ELSE IF pc = "modes" THEN m + 1 - n ELSE 0
      /\ ModesLeft' = IF pc' \in Places \cup {"check_edd"} THEN m
                      ELSE IF pc' = "modes" THEN m + 1 - n' ELSE 0
  BY <1>2, WordsStay DEF ModesLeft
<1>4. /\ AnswersLeft = IF pc \in {"a20", "main", "halted"} THEN 0
                       ELSE IF pc = "map_memory" THEN e + 1 - n ELSE e
      /\ AnswersLeft' = IF pc' \in {"a20", "main", "halted"} THEN 0
                        ELSE IF pc' = "map_memory" THEN e + 1 - n' ELSE e
  BY <1>2 DEF AnswersLeft
<1>5. /\ Ahead[pc] \in Nat /\ ModesLeft \in Nat /\ AnswersLeft \in Nat
      /\ Ahead[pc'] \in Nat /\ ModesLeft' \in Nat /\ AnswersLeft' \in Nat
  <2>1. /\ n' \in Nat
        /\ pc' = "modes" => n' <= m
        /\ pc' = "map_memory" => n' <= e + 1
    BY <1>2, WordsStay DEF ProbeInv, TypeOK, MapInv
  <2>2. Ahead[pc] \in Nat /\ Ahead[pc'] \in Nat
    <3>1. \A p \in DOMAIN Ahead : Ahead[p] \in Nat
      BY DEF Ahead
    <3>2. pc \in DOMAIN Ahead
      BY DEF ProbeInv, Settled, Ahead
    <3>3. pc' \in DOMAIN Ahead
      BY StepsGoOn DEF Ahead
    <3> QED
      BY <3>1, <3>2, <3>3
  <2> QED
    BY <1>1, <1>3, <1>4, <2>1, <2>2
<1>6. /\ Ahead[pc'] <= Ahead[pc] /\ ModesLeft' <= ModesLeft
      /\ AnswersLeft' <= AnswersLeft
      /\ \/ Ahead[pc'] < Ahead[pc]
         \/ ModesLeft' < ModesLeft
         \/ AnswersLeft' < AnswersLeft
  <2>1. CASE pc' = "halted" /\ pc \notin {"main", "halted"}
    <3>1. ModesLeft' = 0 /\ AnswersLeft' = 0 /\ Ahead[pc'] = 0
      BY <1>3, <1>4, <2>1 DEF Places, Ahead
    <3> QED
      BY <1>5, <2>1, <3>1, PartsAreNat
  <2>2. CASE pc \in Places \cup {"check_edd"} /\ pc' \in Places
    <3>1. Ahead[pc'] < Ahead[pc]
      BY StepsGoOn, <2>2 DEF Ahead, Places
    <3> QED
      BY <1>1, <1>3, <1>4, <1>5, <2>2, <3>1 DEF Places
  <2>3. CASE pc = "svga" /\ pc' \in {"modes", "legacy"}
    <3>1. Ahead[pc'] < Ahead[pc] /\ (pc' = "modes" => n' = 1)
      BY StepsGoOn, <2>3 DEF Ahead
    <3> QED
      BY <1>1, <1>3, <1>4, <1>5, <2>3, <3>1 DEF Places
  <2>4. CASE pc = "modes" /\ pc' \in {"modes", "describe"}
    <3>1. Ahead[pc'] = 4 /\ Ahead[pc] = 4 /\ (pc' = "modes" => n' = n + 1)
      BY StepsGoOn, <2>4 DEF Ahead
    <3> QED
      BY <1>1, <1>3, <1>4, <1>5, <2>4, <3>1 DEF Places
  <2>5. CASE \/ pc \in {"legacy", "describe"} /\ pc' = "set_mode"
             \/ pc = "set_mode" /\ pc' = "map_memory"
             \/ pc = "map_memory" /\ pc' = "a20"
             \/ pc = "a20" /\ pc' = "main"
    <3>1. Ahead[pc'] < Ahead[pc]
      BY <2>5 DEF Ahead
    <3>2. pc = "set_mode" => n' = 1
      BY StepsGoOn, <2>5
    <3> QED
      BY <1>1, <1>3, <1>4, <1>5, <2>5, <3>1, <3>2 DEF Places
  <2>6. CASE pc = "map_memory" /\ pc' = "map_memory"
    <3>1. n' = n + 1 /\ Ahead[pc'] = 2 /\ Ahead[pc] = 2
      BY StepsGoOn, <2>6 DEF Ahead
    <3>2. /\ ModesLeft' = 0 /\ ModesLeft = 0
          /\ AnswersLeft' = e + 1 - n' /\ AnswersLeft = e + 1 - n
      BY <1>3, <1>4, <2>6 DEF Places
    <3>3. Ahead[pc'] <= Ahead[pc] /\ ModesLeft' <= ModesLeft
      BY <3>1, <3>2
    <3>4. AnswersLeft' < AnswersLeft
      <4>1. \A i, k \in Nat : i + 1 - (k + 1) < i + 1 - k
        OBVIOUS
      <4>2. e \in Nat /\ n \in Nat
        BY <1>1
      <4> QED
        BY <3>1, <3>2, <4>1, <4>2
    <3> QED
      BY <1>5, <3>3, <3>4
  <2> QED
    BY StepsGoOn, <2>1, <2>2, <2>3, <2>4, <2>5, <2>6 DEF Places
<1>7. \A a, b, c, x, y, z \in Nat :
        x <= a /\ y <= b /\ z <= c /\ (x < a \/ y < b \/ z < c)
          => x + y + z < a + b + c
  OBVIOUS
<1>8. /\ StepsLeft = Ahead[pc] + ModesLeft + AnswersLeft
      /\ StepsLeft' = Ahead[pc'] + ModesLeft' + AnswersLeft'
  BY DEF StepsLeft, Ahead
<1> HIDE DEF Ahead
<1> QED
  BY <1>5, <1>6, <1>7, <1>8

\* The boot is a countdown, though it has two loops (.getMaximum and .e820_loop
\* in stub.asm): whatever the BIOS answers, in a memory map that ends and with a
\* list of modes that ends, or an empty one and whatever lies behind it, every
\* step leaves fewer to be made, of no more than one for each place on the way,
\* each word that is taken for a mode and each answer.
THEOREM BootCountsDown ==
  ConsoleSpec => /\ [](/\ StepsLeft \in Nat
                       /\ StepsLeft <= 10 + Len(Words) + Len(bios.e820))
                 /\ [][StepsLeft' < StepsLeft]_vars
<1>1. ConsoleInv /\ MapInv =>
        StepsLeft \in Nat /\ StepsLeft <= 10 + Len(Words) + Len(bios.e820)
  BY StepsAreNat DEF ConsoleInv
<1>2. /\ ConsoleInv /\ MapInv /\ ConsoleInv' /\ MapInv'
      /\ [ConsoleNext]_<<vars, consoleVars>>
      => [StepsLeft' < StepsLeft]_vars
  <2> SUFFICES ASSUME ConsoleInv, MapInv, ConsoleInv', MapInv',
                      [ConsoleNext]_<<vars, consoleVars>>, ~UNCHANGED vars
               PROVE  StepsLeft' < StepsLeft
    OBVIOUS
  <2>1. Next
    BY DEF ConsoleNext
  <2> QED
    BY <2>1, StepsFall DEF ConsoleInv
<1> QED
  BY <1>1, <1>2, ConsoleInvariant, MapInvariant, PTL DEF ConsoleSpec
=============================================================================
