-------------------------- MODULE BootMemoryProofs --------------------------
(***************************************************************************)
(* Proofs about BootMemory, for any page, sector and word size, any memory *)
(* map and any kernel image that the module's assumptions admit.           *)
(***************************************************************************)
EXTENDS BootMemory, SequenceTheorems, TLAPS

-----------------------------------------------------------------------------
(* Rounding.                                                               *)

LEMMA DivMod == ASSUME NEW x \in Nat, NEW d \in Nat \ {0}
                PROVE  /\ x \div d \in Nat
                       /\ x % d \in 0..(d - 1)
                       /\ x = (x \div d) * d + (x % d)
  BY Z3T(30)

LEMMA ModSmall == ASSUME NEW d \in Nat \ {0}, NEW x \in Nat, x < d
                  PROVE  x % d = x
  BY Z3T(30)

LEMMA PageUpFacts == ASSUME NEW x \in Nat
                     PROVE  /\ PageUp(x) \in Nat
                            /\ x <= PageUp(x) /\ PageUp(x) < x + Page
                            /\ \E q \in Nat : PageUp(x) = q * Page
<1> DEFINE y == x + Page - 1
<1>1. y \in Nat
  BY SizeAssumption
<1>2. y = PageUp(x) + (y % Page)
  BY <1>1, DivMod, SizeAssumption DEF PageUp
<1>3. y % Page \in 0..(Page - 1)
  BY <1>1, DivMod, SizeAssumption
<1>4. y \div Page \in Nat
  BY <1>1, DivMod, SizeAssumption
<1>5. PageUp(x) \in Nat
  BY <1>4, SizeAssumption DEF PageUp
<1>6. x <= PageUp(x) /\ PageUp(x) < x + Page
  BY <1>2, <1>3, <1>5, SizeAssumption
<1> QED
  BY <1>4, <1>5, <1>6 DEF PageUp

LEMMA PageDownFacts == ASSUME NEW x \in Nat
                       PROVE  PageDown(x) \in Nat /\ PageDown(x) <= x
<1>1. x \div Page \in Nat /\ x % Page \in Nat
  BY DivMod, SizeAssumption
<1>2. x = PageDown(x) + (x % Page)
  BY DivMod, SizeAssumption DEF PageDown
<1>3. PageDown(x) \in Nat
  BY <1>1, SizeAssumption DEF PageDown
<1> QED
  BY <1>1, <1>2, <1>3

\* Whole pages stay as they are.
LEMMA PageUpWhole == ASSUME NEW x \in Nat, x % Page = 0
                     PROVE  /\ PageUp(x) = x
                            /\ PageCnt(x) \in Nat
                            /\ x = PageCnt(x) * Page
<1>1. PICK k \in Nat : k = x \div Page /\ x = k * Page
  BY DivMod, SizeAssumption
<1>2. PageUp(x) = x
  <2>1. PICK q \in Nat : PageUp(x) = q * Page
    BY PageUpFacts
  <2>2. x <= PageUp(x) /\ PageUp(x) < x + Page
    BY PageUpFacts
  <2>3. k * Page <= q * Page /\ q * Page < k * Page + Page
    BY <1>1, <2>1, <2>2
  <2>4. q = k
    BY <2>3, SizeAssumption, Z3T(30)
  <2> QED
    BY <1>1, <2>1, <2>4
<1> QED
  BY <1>1, <1>2 DEF PageCnt

-----------------------------------------------------------------------------
(* The layout.                                                             *)

Placed == Planned \/ pc \in {"mm_init", "kernel"}

\* The region main took: the layout starts at its base, rounded up.
Taken(e) == Fits(e) /\ load_buf = PageUp(e.base)

LayoutInv ==
  /\ TypeOK
  /\ pc \notin {"mm_init", "kernel"} => e820 \in MemMaps
  /\ pc = "layout" => \E k \in DOMAIN e820 : /\ Suitable(e820[k])
                                             /\ buf = PageUp(e820[k].base)
  /\ Placed => /\ pages = load_buf + image.size
               /\ stack = pages + Tables
               /\ buf = stack + image.stack
  /\ Planned => \E k \in DOMAIN e820 : Taken(e820[k])

LEMMA ImageFacts ==
  ASSUME NEW g \in Images
  PROVE  /\ g.size \in Nat \ {0} /\ g.stack \in Nat \ {0}
         /\ PageUp(g.size) = g.size
         /\ g.size = PageCnt(g.size) * Page /\ PageCnt(g.size) \in Nat
         /\ g.stack = PageCnt(g.stack) * Page /\ PageCnt(g.stack) \in Nat
         /\ g.size + g.stack + Tables + Slack < Word
         /\ g.size <= EntryCnt * Page /\ g.stack < EntryCnt * Page
<1>1. g \in Image
  BY InputAssumption
<1>2. /\ g.size \in Nat \ {0} /\ g.size % Page = 0
      /\ g.stack \in Nat \ {0} /\ g.stack % Page = 0
  BY <1>1 DEF Image
<1> QED
  BY <1>1, <1>2, PageUpWhole DEF Image

LEMMA TotalSizeFact ==
  ASSUME TypeOK PROVE TotalSize = image.size + image.stack + 12 * Page
<1>0. /\ image.size \in Nat /\ image.stack \in Nat
      /\ Tables = 10 * Page /\ Slack = 2 * Page
  BY ImageFacts DEF TypeOK, Tables, Slack
<1>1. image.size + image.stack + Tables + Slack \in Nat
  BY <1>0, SizeAssumption
<1>2. image.size + image.stack + Tables + Slack < Word
  BY ImageFacts DEF TypeOK
<1>3. TotalSize = image.size + image.stack + Tables + Slack
  BY <1>1, <1>2, ModSmall, SizeAssumption DEF TotalSize, U32
<1> QED
  BY <1>0, <1>3, SizeAssumption

LEMMA MapFacts == ASSUME NEW m \in MemMaps, NEW k \in DOMAIN m
                  PROVE  m \in Seq(Entry) /\ m[k] \in Entry /\ m[k].base \in Nat
                         /\ m[k].len \in Nat /\ m[k].type \in Nat
<1>1. m \in Seq(Entry) /\ k \in 1..Len(m)
  BY InputAssumption
<1>2. m[k] \in Entry
  BY <1>1, ElementOfSeq
<1> QED
  BY <1>1, <1>2 DEF Entry

\* The heart of the allocation: a region that is large enough for the total
\* size holds the layout from its base rounded up, and one page more.
LEMMA SuitableFits ==
  ASSUME LayoutInv, Layout
  PROVE  \E k \in DOMAIN e820 : Taken(e820[k])'
<1>1. PICK k \in DOMAIN e820 : Suitable(e820[k]) /\ buf = PageUp(e820[k].base)
  BY DEF LayoutInv, Layout
<1> DEFINE e == e820[k]
<1>2. /\ e.base \in Nat /\ e.len \in Nat
      /\ e.base <= buf /\ buf < e.base + Page /\ buf \in Nat
  BY <1>1, MapFacts, PageUpFacts DEF LayoutInv, Layout
<1>3. /\ load_buf' = buf /\ pages' = buf + image.size
      /\ stack' = buf + image.size + 10 * Page
      /\ buf' = buf + image.size + 10 * Page + image.stack
      /\ e820' = e820
  BY ImageFacts DEF LayoutInv, TypeOK, Layout, Tables
<1>4. e.len >= image.size + image.stack + 12 * Page
  BY <1>1, TotalSizeFact DEF LayoutInv, Suitable
<1>5. image.size \in Nat \ {0} /\ image.stack \in Nat \ {0}
  BY ImageFacts DEF LayoutInv, TypeOK
<1>6. buf' + Page <= e.base + e.len
  BY <1>2, <1>3, <1>4, <1>5, SizeAssumption
<1>7. load_buf' < pages' /\ pages' < stack' /\ stack' < buf'
  BY <1>2, <1>3, <1>5, SizeAssumption
<1>8. Fits(e)'
  BY <1>1, <1>2, <1>3, <1>6, <1>7 DEF Fits, Suitable
<1>9. Taken(e)'
  BY <1>1, <1>3, <1>8 DEF Taken
<1> QED
  BY <1>9, <1>3

LEMMA LayoutInit == Init => LayoutInv
<1> SUFFICES ASSUME Init PROVE LayoutInv
  OBVIOUS
<1>1. e820 \in Seq(Entry)
  BY InputAssumption DEF Init
<1> QED
  BY <1>1, SizeAssumption
  DEF Init, LayoutInv, TypeOK, Placed, Planned

LEMMA LayoutNext == LayoutInv /\ [Next]_vars => LayoutInv'
<1> SUFFICES ASSUME LayoutInv, [Next]_vars PROVE LayoutInv'
  OBVIOUS
<1> USE DEF LayoutInv, TypeOK, Placed, Planned, Taken, Fits, vars, layout
<1>1. CASE SkipRegion \/ NoMemory
  <2>1. /\ pc' \in {"alloc", "halted"} /\ i' \in Nat /\ e820' = e820
        /\ pc = "alloc"
    BY <1>1 DEF SkipRegion, NoMemory
  <2>2. UNCHANGED <<image, layout, mem, failed>>
    BY <1>1 DEF SkipRegion, NoMemory
  <2> QED
    BY <2>1, <2>2
<1>2. CASE TakeRegion
  <2>1. PageUp(e820[i + 1].base) \in Nat
    BY <1>2, MapFacts, PageUpFacts DEF TakeRegion
  <2>2. i + 1 \in DOMAIN e820
    BY <1>2 DEF TakeRegion
  <2> QED
    BY <1>2, <2>1, <2>2 DEF TakeRegion, Suitable, TotalSize
<1>3. CASE Layout
  <2>1. \E k \in DOMAIN e820 : Taken(e820[k])'
    BY <1>3, SuitableFits
  <2>2. /\ image.size \in Nat /\ image.stack \in Nat
        /\ PageUp(image.size) = image.size
    BY ImageFacts
  <2>3. Tables \in Nat
    BY SizeAssumption DEF Tables
  <2>4. TypeOK'
    <3>1. /\ load_buf' = buf /\ pages' = buf + image.size
          /\ stack' = pages' + Tables /\ buf' = stack' + image.stack
      BY <1>3, <2>2 DEF Layout
    <3>2. load_buf' \in Nat /\ pages' \in Nat /\ stack' \in Nat /\ buf' \in Nat
      BY <2>2, <2>3, <3>1
    <3> QED
      BY <1>3, <3>2 DEF Layout
  <2>5. Placed' /\ pc' # "layout" /\ e820' = e820 /\ pc \notin {"mm_init", "kernel"}
    BY <1>3 DEF Layout
  <2>6. /\ pages' = load_buf' + image'.size /\ stack' = pages' + Tables
        /\ buf' = stack' + image'.stack
    BY <1>3, <2>2 DEF Layout
  <2> QED
    BY <2>1, <2>4, <2>5, <2>6
<1>4. CASE ClearTables \/ ClearForever \/ BuildTables \/ LoadSector \/ Run
  BY <1>4 DEF ClearTables, ClearForever, BuildTables, LoadSector, Run, Fill
<1>5. CASE ClearBss
  BY <1>5 DEF ClearBss
<1>6. CASE TrimRegion
  <2> DEFINE e == e820[i + 1]
  <2>1. e \in Entry /\ i + 1 \in DOMAIN e820
    BY <1>6, ElementOfSeq DEF TrimRegion
  <2>2. load_buf <= buf
    <3>1. image.size \in Nat /\ image.stack \in Nat
      BY ImageFacts
    <3>2. Tables \in Nat
      BY SizeAssumption DEF Tables
    <3> QED
      BY <1>6, <3>1, <3>2 DEF TrimRegion
  <2>3. PageUp(buf) - load_buf \in Nat
    <3>1. buf \in Nat /\ load_buf \in Nat
      OBVIOUS
    <3>2. PageUp(buf) \in Nat /\ buf <= PageUp(buf)
      BY <3>1, PageUpFacts
    <3> HIDE DEF LayoutInv
    <3> QED
      BY <2>2, <3>1, <3>2
  <2>4. /\ e.base \in Nat /\ e.len \in Nat /\ e.type \in Nat
        /\ PageUp(e.base) \in Nat /\ PageDown(e.base + e.len) \in Nat
    <3>1. e.base \in Nat /\ e.len \in Nat /\ e.type \in Nat
      BY <2>1 DEF Entry
    <3>2. e.base + e.len \in Nat
      BY <3>1
    <3> QED
      BY <3>1, <3>2, PageUpFacts, PageDownFacts
  <2>5. Trim(e) \in Entry
    <3> DEFINE b == PageUp(e.base)
               s == PageUp(buf) - load_buf
    <3> HIDE DEF b, s
    <3>1. (IF b = load_buf THEN b + s ELSE b) \in Nat
      BY <2>3, <2>4 DEF b, s
    <3> QED
      BY <2>4, <3>1 DEF Trim, Entry, b, s
  <2> QED
    BY <1>6, <2>1, <2>5 DEF TrimRegion
<1>7. CASE MapReady
  BY <1>7 DEF MapReady
<1>8. CASE UNCHANGED vars
  BY <1>8 DEF Suitable, TotalSize
<1> QED
  BY <1>1, <1>2, <1>3, <1>4, <1>5, <1>6, <1>7, <1>8 DEF Next

\* Whatever the memory map and the image, main's variables stay in their
\* ranges and mm_init computes no negative base or end.
THEOREM TypeCorrect == Spec => []TypeOK
<1>1. Spec => []LayoutInv
  BY LayoutInit, LayoutNext, PTL DEF Spec
<1>2. LayoutInv => TypeOK
  BY DEF LayoutInv
<1> QED
  BY <1>1, <1>2, PTL

\* Whatever the memory map and the image, what main lays out, and the page
\* after it, fit in one free region above 1 MB.
THEOREM AllocationIsSafe == Spec => []AllocationFits
<1>1. Spec => []LayoutInv
  BY LayoutInit, LayoutNext, PTL DEF Spec
<1>2. LayoutInv => AllocationFits
  BY DEF LayoutInv, Taken, AllocationFits
<1> QED
  BY <1>1, <1>2, PTL

-----------------------------------------------------------------------------
(* The mapping.                                                            *)

FramesInv ==
  /\ pc = "tables" \/ Mapped => buf < Word
  /\ Mapped => pteKer = KernelFrames /\ pteSta = StackFrames

LEMMA FramesInit == Init => FramesInv
  BY DEF Init, FramesInv, Mapped

LEMMA FramesNext == FramesInv /\ [Next]_vars => FramesInv'
<1> SUFFICES ASSUME FramesInv, [Next]_vars PROVE FramesInv'
  OBVIOUS
<1> USE DEF FramesInv, Mapped, vars, layout
<1>1. CASE \/ SkipRegion \/ TakeRegion \/ NoMemory \/ Layout \/ ClearTables
           \/ ClearForever
  BY <1>1 DEF SkipRegion, TakeRegion, NoMemory, Layout, ClearTables,
     ClearForever
<1>2. CASE BuildTables
  BY <1>2 DEF BuildTables, KernelFrames, StackFrames
<1>3. CASE LoadSector \/ Run \/ ClearBss \/ TrimRegion \/ MapReady
  <2>1. UNCHANGED <<image, layout, pteKer, pteSta>> /\ Mapped /\ Mapped'
    BY <1>3 DEF LoadSector, Run, ClearBss, TrimRegion, MapReady
  <2> QED
    BY <2>1 DEF KernelFrames, StackFrames
<1>4. CASE UNCHANGED vars
  BY <1>4 DEF KernelFrames, StackFrames
<1> QED
  BY <1>1, <1>2, <1>3, <1>4 DEF Next

LEMMA PageSteps ==
  ASSUME NEW c \in Nat, NEW k \in 0..(c - 1)
  PROVE  k * Page \in Nat /\ k * Page + Page <= c * Page
  BY SizeAssumption, Z3T(30)

LEMMA PageStepsDiffer ==
  ASSUME NEW j \in Nat, NEW k \in Nat, j # k
  PROVE  j * Page # k * Page
  BY SizeAssumption, Z3T(30)

\* The frames are consecutive pages: upwards from load_buf, downwards from buf.
LEMMA KernelFrame ==
  ASSUME LayoutInv, FramesInv, Mapped, NEW k \in DOMAIN pteKer
  PROVE  /\ k \in Nat
         /\ pteKer[k] = load_buf + k * Page
         /\ k * Page \in Nat /\ k * Page + Page <= image.size
<1>0. /\ image.size \in Nat /\ image.stack \in Nat
      /\ image.size = PageCnt(image.size) * Page /\ PageCnt(image.size) \in Nat
  BY ImageFacts DEF LayoutInv, TypeOK
<1>1. pages - load_buf = image.size
  BY <1>0 DEF LayoutInv, TypeOK, Placed, Planned, Mapped
<1>2. k \in 0..(PageCnt(image.size) - 1) /\ pteKer[k] = U32(load_buf + k * Page)
  BY <1>1 DEF FramesInv, KernelFrames
<1>3. k * Page \in Nat /\ k * Page + Page <= image.size
  BY <1>0, <1>2, PageSteps
<1>4. load_buf + k * Page \in Nat /\ load_buf + k * Page < Word
  <2>1. Tables \in Nat
    BY SizeAssumption DEF Tables
  <2>2. buf = load_buf + image.size + Tables + image.stack
    BY <1>0 DEF LayoutInv, TypeOK, Placed, Planned, Mapped
  <2>3. buf < Word /\ load_buf \in Nat
    BY DEF FramesInv, LayoutInv, TypeOK
  <2> QED
    BY <1>0, <1>3, <2>1, <2>2, <2>3, SizeAssumption
<1> QED
  BY <1>2, <1>3, <1>4, ModSmall, SizeAssumption DEF U32

LEMMA StackFrame ==
  ASSUME LayoutInv, FramesInv, Mapped, NEW k \in DOMAIN pteSta
  PROVE  LET d == EntryCnt - 1 - k IN
         /\ d \in Nat
         /\ pteSta[k] = buf - d * Page
         /\ d * Page \in Nat /\ d * Page + Page <= image.stack
<1> DEFINE d == EntryCnt - 1 - k
<1>0. /\ image.size \in Nat /\ image.stack \in Nat
      /\ image.stack = PageCnt(image.stack) * Page
      /\ PageCnt(image.stack) \in Nat
  BY ImageFacts DEF LayoutInv, TypeOK
<1>1. /\ k \in (EntryCnt - PageCnt(image.stack))..(EntryCnt - 1)
      /\ pteSta[k] = U32(buf - d * Page)
  BY DEF FramesInv, StackFrames
<1>2. d \in 0..(PageCnt(image.stack) - 1)
  BY <1>0, <1>1, SizeAssumption
<1>3. d * Page \in Nat /\ d * Page + Page <= image.stack
  BY <1>0, <1>2, PageSteps
<1> HIDE DEF d
<1>4. buf - d * Page \in Nat /\ buf - d * Page < Word
  <2>1. Tables \in Nat
    BY SizeAssumption DEF Tables
  <2>2. buf = load_buf + image.size + Tables + image.stack
    BY <1>0 DEF LayoutInv, TypeOK, Placed, Planned, Mapped
  <2>3. buf < Word /\ load_buf \in Nat
    BY DEF FramesInv, LayoutInv, TypeOK
  <2> QED
    BY <1>0, <1>3, <2>1, <2>2, <2>3, SizeAssumption
<1>5. pteSta[k] = buf - d * Page
  BY <1>1, <1>4, ModSmall, SizeAssumption DEF U32
<1> QED
  BY <1>2, <1>3, <1>5 DEF d

\* Whatever the memory map and the image, PTE_KER and PTE_STA map each page of
\* the image and of the stack to a frame of its own, the image's before the
\* paging structures and the stack's behind them.
THEOREM FramesAreApart == Spec => []FramesApart
<1>1. Spec => [](LayoutInv /\ FramesInv)
  BY LayoutInit, LayoutNext, FramesInit, FramesNext, PTL DEF Spec
<1>2. LayoutInv /\ FramesInv => FramesApart
  <2> SUFFICES ASSUME LayoutInv, FramesInv, Mapped PROVE FramesApart
    BY DEF FramesApart
  <2>0. /\ pages = load_buf + image.size /\ buf = stack + image.stack
        /\ load_buf \in Nat /\ buf \in Nat /\ stack \in Nat
        /\ image.size \in Nat /\ image.stack \in Nat
    BY ImageFacts DEF LayoutInv, TypeOK, Placed, Planned, Mapped
  <2>1. ASSUME NEW k \in DOMAIN pteKer
        PROVE  load_buf <= pteKer[k] /\ pteKer[k] < pages
    BY <2>0, KernelFrame, SizeAssumption
  <2>2. ASSUME NEW k \in DOMAIN pteSta
        PROVE  stack <= pteSta[k] /\ pteSta[k] <= buf
    BY <2>0, StackFrame, SizeAssumption
  <2>3. ASSUME NEW j \in DOMAIN pteKer, NEW k \in DOMAIN pteKer, j # k
        PROVE  pteKer[j] # pteKer[k]
    BY <2>0, <2>3, KernelFrame, PageStepsDiffer
  <2>4. ASSUME NEW j \in DOMAIN pteSta, NEW k \in DOMAIN pteSta, j # k
        PROVE  pteSta[j] # pteSta[k]
    <3>1. j \in Int /\ k \in Int
      BY ImageFacts, SizeAssumption
      DEF FramesInv, StackFrames, LayoutInv, TypeOK
    <3>2. EntryCnt - 1 - j # EntryCnt - 1 - k
      BY <2>4, <3>1, SizeAssumption
    <3> QED
      BY <2>0, <3>2, StackFrame, PageStepsDiffer
  <2> QED
    BY <2>1, <2>2, <2>3, <2>4 DEF FramesApart
<1> QED
  BY <1>1, <1>2, PTL

-----------------------------------------------------------------------------
(* The free memory.                                                        *)

\* While mm_init works through the map, entries 1 to i are trimmed ones of a
\* map of the BIOS, the others still that map's.
TrimInv ==
  pc \in {"mm_init", "kernel"} =>
    \E m \in MemMaps :
       /\ \E k \in DOMAIN m : Taken(m[k])
       /\ DOMAIN e820 = DOMAIN m /\ i <= Len(m)
       /\ pc = "kernel" => i = Len(m)
       /\ \A j \in DOMAIN m : e820[j] = IF j <= i THEN Trim(m[j]) ELSE m[j]

LEMMA TrimNext ==
  ASSUME LayoutInv, LayoutInv', TrimInv, [Next]_vars PROVE TrimInv'
<1> USE DEF vars, layout
<1>1. CASE ClearBss
  <2>1. /\ e820 \in MemMaps /\ e820' = e820 /\ i' = 0 /\ pc' = "mm_init"
        /\ \E k \in DOMAIN e820 : Taken(e820[k])
        /\ UNCHANGED layout
    BY <1>1 DEF ClearBss, LayoutInv, Planned
  <2>2. e820 \in Seq(Entry)
    BY DEF LayoutInv, TypeOK
  <2>3. DOMAIN e820 = 1..Len(e820) /\ Len(e820) \in Nat
    BY <2>2
  <2> QED
    BY <2>1, <2>3 DEF TrimInv, Taken, Fits
<1>2. CASE TrimRegion
  <2>1. PICK m \in MemMaps :
          /\ \E k \in DOMAIN m : Taken(m[k])
          /\ DOMAIN e820 = DOMAIN m /\ i <= Len(m)
          /\ \A j \in DOMAIN m : e820[j] = IF j <= i THEN Trim(m[j]) ELSE m[j]
    BY <1>2 DEF TrimInv, TrimRegion
  <2>2. /\ m \in Seq(Entry) /\ e820 \in Seq(Entry) /\ i \in Nat
    BY InputAssumption DEF LayoutInv, TypeOK
  <2>3. /\ DOMAIN m = 1..Len(m) /\ Len(m) \in Nat
        /\ DOMAIN e820 = 1..Len(e820) /\ Len(e820) \in Nat
    BY <2>2
  <2>4. Len(m) = Len(e820)
    BY <2>1, <2>3
  <2>5. /\ i + 1 \in DOMAIN m /\ i' = i + 1 /\ i' <= Len(m)
        /\ e820' = [e820 EXCEPT ![i + 1] = Trim(e820[i + 1])]
        /\ UNCHANGED <<pc, layout>> /\ pc = "mm_init"
    BY <1>2, <2>2, <2>3, <2>4 DEF TrimRegion
  <2>6. e820[i + 1] = m[i + 1]
    BY <2>1, <2>2, <2>5
  <2>7. ASSUME NEW j \in DOMAIN m
        PROVE  e820'[j] = IF j <= i' THEN Trim(m[j])' ELSE m[j]
    <3>1. Trim(m[j])' = Trim(m[j])
      BY <2>5 DEF Trim
    <3>2. CASE j = i + 1
      BY <2>1, <2>2, <2>3, <2>5, <2>6, <3>1, <3>2
    <3>3. CASE j # i + 1
      <4>1. e820'[j] = e820[j] /\ (j <= i' <=> j <= i)
        BY <2>1, <2>2, <2>3, <2>5, <3>3
      <4> QED
        BY <2>1, <3>1, <4>1
    <3> QED
      BY <3>2, <3>3
  <2>8. DOMAIN e820' = DOMAIN m
    BY <2>1, <2>5
  <2>9. \E k \in DOMAIN m : Taken(m[k])'
    BY <2>1, <2>5 DEF Taken, Fits
  <2> QED
    BY <2>5, <2>7, <2>8, <2>9 DEF TrimInv
<1>3. CASE MapReady
  <2>1. PICK m \in MemMaps :
          /\ \E k \in DOMAIN m : Taken(m[k])
          /\ DOMAIN e820 = DOMAIN m /\ i <= Len(m)
          /\ \A j \in DOMAIN m : e820[j] = IF j <= i THEN Trim(m[j]) ELSE m[j]
    BY <1>3 DEF TrimInv, MapReady
  <2>2. Len(m) = Len(e820)
    <3>1. m \in Seq(Entry) /\ e820 \in Seq(Entry)
      BY InputAssumption DEF LayoutInv, TypeOK
    <3> QED
      BY <2>1, <3>1
  <2>3. UNCHANGED <<e820, i, layout>> /\ i = Len(m) /\ pc' = "kernel"
    BY <1>3, <2>2 DEF MapReady
  <2> QED
    BY <2>1, <2>3 DEF TrimInv, Taken, Fits, Trim
<1>4. CASE \/ SkipRegion \/ TakeRegion \/ NoMemory \/ Layout \/ ClearTables
           \/ ClearForever \/ BuildTables \/ LoadSector \/ Run
  BY <1>4 DEF SkipRegion, TakeRegion, NoMemory, Layout, ClearTables,
     ClearForever, BuildTables, LoadSector, Run, TrimInv
<1>5. CASE UNCHANGED vars
  BY <1>5 DEF TrimInv, Taken, Fits, Trim
<1> QED
  BY <1>1, <1>2, <1>3, <1>4, <1>5 DEF Next

\* An entry that does not overlap the chosen one does not reach into it, and
\* the chosen one starts after the layout.
LEMMA TrimmedIsFree ==
  ASSUME LayoutInv, Placed, NEW m \in MemMaps, NEW k \in DOMAIN m, Taken(m[k]),
         NEW j \in DOMAIN m
  PROVE  Trim(m[j]).len <= load_buf \/ buf <= Trim(m[j]).base
<1>1. /\ m[j].base \in Nat /\ m[j].len \in Nat
      /\ m[k].base \in Nat /\ m[k].len \in Nat
      /\ load_buf \in Nat /\ buf \in Nat
  BY MapFacts DEF LayoutInv, TypeOK
<1>2. /\ PageUp(buf) \in Nat /\ buf <= PageUp(buf)
      /\ PageUp(m[j].base) \in Nat /\ m[j].base <= PageUp(m[j].base)
      /\ PageDown(m[j].base + m[j].len) <= m[j].base + m[j].len
      /\ PageDown(m[j].base + m[j].len) \in Nat
  <2>1. m[j].base + m[j].len \in Nat
    BY <1>1
  <2> QED
    BY <1>1, <2>1, PageUpFacts, PageDownFacts
<1>3. load_buf <= buf /\ pages \in Nat /\ stack \in Nat
  BY <1>1 DEF Taken, Fits, LayoutInv, TypeOK
<1>4. /\ Trim(m[j]).len = PageDown(m[j].base + m[j].len)
      /\ Trim(m[j]).base >= PageUp(m[j].base)
      /\ PageUp(m[j].base) = load_buf => Trim(m[j]).base = PageUp(buf)
  BY <1>1, <1>2, <1>3 DEF Trim
<1>5. CASE j = k
  BY <1>2, <1>4, <1>5 DEF Taken
<1>6. CASE m[j].base + m[j].len <= m[k].base
  BY <1>1, <1>2, <1>3, <1>4, <1>6 DEF Taken, Fits
<1>7. CASE m[k].base + m[k].len <= m[j].base
  <2>1. buf + Page <= m[k].base + m[k].len
    BY DEF Taken, Fits
  <2>2. Trim(m[j]).base \in Nat
    BY <1>1, <1>2, <1>3 DEF Trim
  <2> QED
    BY <1>1, <1>2, <1>4, <1>7, <2>1, <2>2, SizeAssumption
<1> QED
  BY <1>5, <1>6, <1>7, InputAssumption DEF Disjoint

\* Whatever the memory map (without overlaps) and the image, the memory that
\* mm_init counts as free is not what stage 2 laid out for the kernel.
THEOREM FreeMemoryIsFree == Spec => []FreeIsFree
<1>1. Spec => [](LayoutInv /\ TrimInv)
  <2>1. Init => TrimInv
    BY DEF Init, TrimInv
  <2>2. LayoutInv /\ TrimInv /\ [Next]_vars => LayoutInv' /\ TrimInv'
    BY LayoutNext, TrimNext
  <2> QED
    BY <2>1, <2>2, LayoutInit, PTL DEF Spec
<1>2. LayoutInv /\ TrimInv => FreeIsFree
  <2> SUFFICES ASSUME LayoutInv, TrimInv, pc = "kernel",
                      NEW j \in DOMAIN e820
               PROVE  e820[j].len <= load_buf \/ buf <= e820[j].base
    BY DEF FreeIsFree, FreeRegions
  <2>1. PICK m \in MemMaps :
          /\ \E k \in DOMAIN m : Taken(m[k])
          /\ DOMAIN e820 = DOMAIN m /\ i = Len(m)
          /\ \A n \in DOMAIN m : e820[n] = IF n <= i THEN Trim(m[n]) ELSE m[n]
    BY DEF TrimInv
  <2>2. PICK k \in DOMAIN m : Taken(m[k])
    BY <2>1
  <2>3. m \in Seq(Entry)
    BY InputAssumption
  <2>4. e820[j] = Trim(m[j])
    BY <2>1, <2>3
  <2>5. Placed
    BY DEF Placed
  <2> QED
    BY <2>1, <2>2, <2>4, <2>5, TrimmedIsFree
<1> QED
  BY <1>1, <1>2, PTL

-----------------------------------------------------------------------------
(* The image.                                                              *)

\* The first k sectors of the file are in place, except those that failed.
Loaded(k) == \A n \in 0..(k - 1) \ failed : \A a \in DOMAIN mem :
                a * Sector = load_buf + n * Sector => mem[a] = File(n)

TablesBuilt == \A a \in DOMAIN mem :
                 pages <= a * Sector /\ a * Sector < stack => mem[a] = Table

BssIsZero == \A a \in DOMAIN mem :
               load_buf + image.bss <= a * Sector /\ a * Sector < pages
                 => mem[a] = Zero

ImageInv ==
  /\ Placed => \E q \in Nat : load_buf = q * Page
  /\ pc = "load" => i \in 0..FileSectors /\ Loaded(i)
  /\ pc \in {"start", "mm_init", "kernel"} => Loaded(FileSectors)
  /\ Mapped => TablesBuilt
  /\ pc \in {"mm_init", "kernel"} => BssIsZero

LEMMA Associate == ASSUME NEW j \in Int, NEW k \in Int, NEW d \in Int
                   PROVE  j * (k * d) = (j * k) * d
  BY Z3T(30)

LEMMA Step == ASSUME NEW j \in Nat, NEW k \in Nat, NEW d \in Nat \ {0},
                     j * d < k * d
              PROVE  j < k /\ j * d + d <= k * d
  BY Z3T(30)

\* Pages are whole sectors.
LEMMA PageOfSectors == \E c \in Nat \ {0} : Page = c * Sector
<1>1. /\ Page \div Sector \in Nat
      /\ Page = (Page \div Sector) * Sector + (Page % Sector)
  BY DivMod, SizeAssumption
<1>2. PICK c \in Nat : c = Page \div Sector
  BY <1>1
<1>3. Page % Sector = 0 /\ c * Sector \in Nat
  BY <1>2, SizeAssumption
<1>4. Page = c * Sector
  BY <1>1, <1>2, <1>3
<1>5. c # 0
  BY <1>4, SizeAssumption
<1> QED
  BY <1>4, <1>5

LEMMA BssFacts ==
  ASSUME NEW g \in Images
  PROVE  /\ g.bss \in Nat /\ g.load \in Nat \ {0}
         /\ g.load <= g.bss /\ g.bss <= g.size
         /\ \E k \in Nat : g.bss = k * Page
<1>1. g \in Image
  BY InputAssumption
<1>2. g.bss \in Nat /\ g.bss % Page = 0
  BY <1>1 DEF Image
<1> QED
  BY <1>1, <1>2, PageUpWhole DEF Image

\* The file's last sector ends before the bss.
LEMMA SectorsEndEarly ==
  ASSUME image \in Images, NEW n \in Nat, n < FileSectors
  PROVE  n * Sector \in Nat /\ n * Sector + Sector <= image.bss
<1> DEFINE l == image.load
           y == l + Sector - 1
<1>1. l \in Nat \ {0} /\ l <= image.bss /\ y \in Nat /\ y = l + Sector - 1
  BY BssFacts, SizeAssumption
<1>2. PICK f \in Nat : f = y \div Sector /\ f = FileSectors
  BY <1>1, DivMod, SizeAssumption DEF FileSectors
<1> HIDE DEF y, l
<1>3. y = f * Sector + (y % Sector) /\ y % Sector \in 0..(Sector - 1)
  BY <1>1, <1>2, DivMod, SizeAssumption
<1>4. f * Sector \in Nat /\ n * Sector \in Nat
  BY SizeAssumption
<1>5. n * Sector + Sector <= f * Sector
  BY <1>2, SizeAssumption, Z3T(30)
<1>6. f * Sector <= y
  BY <1>1, <1>3, <1>4, SizeAssumption
<1>7. n * Sector < l
  BY <1>1, <1>4, <1>5, <1>6, SizeAssumption
<1>8. PICK c \in Nat \ {0} : Page = c * Sector
  BY PageOfSectors
<1>9. PICK k \in Nat : image.bss = k * Page
  BY BssFacts
<1>10. PICK b \in Nat : b = k * c /\ image.bss = b * Sector
  <2>1. k * Page = (k * c) * Sector /\ k * c \in Nat
    BY <1>8, Associate, SizeAssumption
  <2> QED
    BY <1>9, <2>1
<1>11. n * Sector < b * Sector
  BY <1>1, <1>4, <1>7, <1>10, BssFacts
<1> QED
  BY <1>4, <1>10, <1>11, Step, SizeAssumption

LEMMA LoadStep ==
  ASSUME LayoutInv, ImageInv, LoadSector PROVE ImageInv'
<1>0. /\ image \in Images /\ load_buf \in Nat /\ pages \in Nat
      /\ pages = load_buf + image.size /\ image.size \in Nat /\ image.bss \in Nat
      /\ image.bss <= image.size
  BY ImageFacts, BssFacts DEF LoadSector, LayoutInv, TypeOK, Placed, Planned
<1>1. /\ pc = "load" /\ pc' = "load" /\ i \in 0..FileSectors /\ i < FileSectors
      /\ i' = i + 1 /\ UNCHANGED <<image, load_buf, pages, stack>>
      /\ Loaded(i) /\ TablesBuilt
  BY DEF LoadSector, ImageInv, Mapped, layout
<1>2. i \in Nat /\ i' \in 0..FileSectors
  <2>1. FileSectors \in Nat
    <3>1. image.load + Sector - 1 \in Nat
      BY <1>0, BssFacts, SizeAssumption
    <3> QED
      BY <3>1, DivMod, SizeAssumption DEF FileSectors
  <2> QED
    BY <1>1, <2>1
<1>3. i * Sector \in Nat /\ load_buf + (i + 1) * Sector <= pages
      /\ (i + 1) * Sector = i * Sector + Sector
  <2>1. i * Sector \in Nat /\ i * Sector + Sector <= image.bss
    BY <1>0, <1>1, <1>2, SectorsEndEarly
  <2>2. (i + 1) * Sector = i * Sector + Sector
    BY <1>2, SizeAssumption, Z3T(30)
  <2> QED
    BY <1>0, <2>1, <2>2, SizeAssumption
<1>4. i' - 1 = i
  BY <1>1, <1>2
<1>5. CASE UNCHANGED mem /\ failed' = failed \cup {i}
  <2>1. Loaded(i)'
    <3> SUFFICES ASSUME NEW n \in 0..i, n \notin failed', NEW a \in DOMAIN mem,
                        a * Sector = load_buf + n * Sector
                 PROVE  mem[a] = File(n)
      BY <1>1, <1>2, <1>5, <1>4 DEF Loaded
    <3>1. n \in 0..(i - 1) \ failed
      BY <1>2, <1>5
    <3> QED
      BY <1>1, <3>1 DEF Loaded
  <2>2. TablesBuilt'
    BY <1>1, <1>5 DEF TablesBuilt
  <2> QED
    BY <1>1, <1>2, <2>1, <2>2 DEF ImageInv, Placed, Planned, Mapped, Loaded, FileSectors
<1>6. CASE UNCHANGED failed /\ mem' = Fill(load_buf + i * Sector,
                                    load_buf + (i + 1) * Sector, File(i))
  <2>1. ASSUME NEW a \in DOMAIN mem, NEW n \in Nat, n < i,
               a * Sector = load_buf + n * Sector
        PROVE  mem'[a] = mem[a]
    <3>1. n * Sector \in Nat /\ n * Sector + Sector <= i * Sector
      BY <1>2, <2>1, SizeAssumption, Z3T(30)
    <3>2. ~(load_buf + i * Sector <= a * Sector)
      BY <1>0, <1>3, <2>1, <3>1, SizeAssumption
    <3> QED
      BY <1>6, <3>2 DEF Fill
  <2>2. Loaded(i)'
    <3> SUFFICES ASSUME NEW n \in 0..i, n \notin failed, NEW a \in DOMAIN mem,
                        a * Sector = load_buf + n * Sector
                 PROVE  mem'[a] = File(n)
      BY <1>1, <1>2, <1>6, <1>4 DEF Loaded, Fill
    <3>1. CASE n = i
      <4>1. load_buf + i * Sector <= a * Sector
        BY <1>0, <1>3, <3>1
      <4>2. a * Sector < load_buf + (i + 1) * Sector
        BY <1>0, <1>3, <3>1, SizeAssumption
      <4> QED
        BY <1>6, <3>1, <4>1, <4>2 DEF Fill
    <3>2. CASE n # i
      <4>1. n \in 0..(i - 1) \ failed /\ n \in Nat /\ n < i
        BY <1>2, <3>2
      <4> QED
        BY <1>1, <2>1, <4>1 DEF Loaded
    <3> QED
      BY <3>1, <3>2
  <2>3. TablesBuilt'
    <3> SUFFICES ASSUME NEW a \in DOMAIN mem, pages <= a * Sector, a * Sector < stack
                 PROVE  mem'[a] = Table
      BY <1>1, <1>6 DEF TablesBuilt, Fill
    <3>1. a \in Nat /\ a * Sector \in Nat
      BY SizeAssumption DEF LayoutInv, TypeOK
    <3>2. ~(a * Sector < load_buf + (i + 1) * Sector)
      BY <1>0, <1>3, <3>1, SizeAssumption
    <3> QED
      BY <1>1, <1>6, <3>2 DEF Fill, TablesBuilt
  <2> QED
    BY <1>1, <1>2, <2>2, <2>3 DEF ImageInv, Placed, Planned, Mapped, Loaded, FileSectors
<1> QED
  BY <1>5, <1>6 DEF LoadSector

\* Clearing the bss through the tables clears the image from its bss to its end
\* and nothing else.
LEMMA ClearedCells ==
  ASSUME LayoutInv, FramesInv, ImageInv, ClearBss, NEW a \in DOMAIN mem
  PROVE  mem'[a] = IF load_buf + image.bss <= a * Sector /\ a * Sector < pages
                   THEN Zero ELSE mem[a]
<1> DEFINE at == a * Sector
           Hit(v) == /\ image.bss <= v * Page /\ v * Page < image.size
                     /\ pteKer[v] <= at /\ at < pteKer[v] + Page
<1>0. /\ load_buf \in Nat /\ pages = load_buf + image.size
      /\ image.size \in Nat /\ image.bss \in Nat /\ image.bss <= image.size
      /\ pc = "start" /\ Mapped
      /\ image.size = PageCnt(image.size) * Page /\ PageCnt(image.size) \in Nat
  BY ImageFacts, BssFacts, SizeAssumption
  DEF ClearBss, LayoutInv, TypeOK, Placed, Planned, Mapped
<1>1. at \in Nat
  BY SizeAssumption DEF LayoutInv, TypeOK
<1>2. mem'[a] = IF \E v \in DOMAIN pteKer : Hit(v) THEN Zero ELSE mem[a]
  BY DEF ClearBss
<1> HIDE DEF at
<1>3. ASSUME NEW v \in DOMAIN pteKer, Hit(v)
      PROVE  load_buf + image.bss <= at /\ at < pages
  <2>1. /\ pteKer[v] = load_buf + v * Page /\ v * Page \in Nat
        /\ v * Page + Page <= image.size
    BY <1>0, <1>1, KernelFrame
  <2> QED
    BY <1>0, <1>1, <1>3, <2>1, SizeAssumption
<1>4. ASSUME load_buf + image.bss <= at, at < pages
      PROVE  \E v \in DOMAIN pteKer : Hit(v)
  <2>1. PICK x \in Nat : at = load_buf + x /\ image.bss <= x /\ x < image.size
    BY <1>0, <1>1, <1>4
  <2>2. PICK v \in Nat, r \in 0..(Page - 1) : x = v * Page + r
    <3>1. /\ x \div Page \in Nat /\ x % Page \in 0..(Page - 1)
          /\ x = (x \div Page) * Page + (x % Page)
      BY DivMod, SizeAssumption
    <3> QED
      BY <3>1
  <2>3. v * Page \in Nat /\ v * Page <= x /\ x < v * Page + Page
    BY <2>2, SizeAssumption
  <2>4. v < PageCnt(image.size)
    <3>1. v * Page < PageCnt(image.size) * Page
      BY <1>0, <1>1, <2>1, <2>3
    <3> QED
      BY <1>0, <1>1, <3>1, Step, SizeAssumption
  <2>5. image.bss <= v * Page
    <3>1. PICK b \in Nat : image.bss = b * Page
      BY BssFacts DEF LayoutInv, TypeOK
    <3>2. b * Page < (v + 1) * Page
      <4>1. (v + 1) * Page = v * Page + Page
        BY SizeAssumption, Z3T(30)
      <4> QED
        BY <1>0, <1>1, <2>1, <2>3, <3>1, <4>1, SizeAssumption
    <3>3. b < v + 1
      BY <3>2, Step, SizeAssumption
    <3> QED
      BY <3>1, <3>3, SizeAssumption, Z3T(30)
  <2>6. v \in DOMAIN pteKer
    <3>1. pages - load_buf = image.size
      BY <1>0
    <3>2. DOMAIN pteKer = 0..(PageCnt(image.size) - 1)
      BY <1>0, <1>1, <3>1 DEF FramesInv, KernelFrames
    <3> QED
      BY <1>0, <1>1, <2>4, <3>2
  <2>7. pteKer[v] = load_buf + v * Page
    BY <1>0, <1>1, <2>6, KernelFrame
  <2>8. Hit(v)
    BY <1>0, <1>1, <2>1, <2>3, <2>5, <2>7, SizeAssumption
  <2> QED
    BY <2>6, <2>8
<1> HIDE DEF Hit
<1> QED
  BY <1>2, <1>3, <1>4 DEF at

LEMMA ClearBssStep ==
  ASSUME LayoutInv, FramesInv, ImageInv, ClearBss PROVE ImageInv'
<1>1. /\ pc = "start" /\ pc' = "mm_init" /\ image \in Images
      /\ UNCHANGED <<image, layout, failed>> /\ DOMAIN mem' = DOMAIN mem
      /\ load_buf \in Nat /\ pages = load_buf + image.size
      /\ image.bss \in Nat /\ image.size \in Nat
  BY ImageFacts, BssFacts DEF ClearBss, LayoutInv, TypeOK, Placed, Planned
<1>2. Loaded(FileSectors) /\ TablesBuilt
  BY <1>1 DEF ImageInv, Mapped
<1>3. Loaded(FileSectors)'
  <2>1. FileSectors' = FileSectors
    BY <1>1 DEF FileSectors
  <2>2. FileSectors \in Nat
    <3>1. image.load + Sector - 1 \in Nat
      BY <1>1, BssFacts, SizeAssumption
    <3> QED
      BY <3>1, DivMod, SizeAssumption DEF FileSectors
  <2> SUFFICES ASSUME NEW n \in 0..(FileSectors - 1) \ failed, NEW a \in DOMAIN mem,
                      a * Sector = load_buf + n * Sector
               PROVE  mem'[a] = File(n)
    BY <1>1, <2>1 DEF Loaded, layout
  <2>3. n * Sector \in Nat /\ n * Sector + Sector <= image.bss
    BY <1>1, <2>2, SectorsEndEarly
  <2>4. ~(load_buf + image.bss <= a * Sector)
    BY <1>1, <2>3, SizeAssumption
  <2>5. mem'[a] = mem[a]
    BY <2>4, ClearedCells
  <2> QED
    BY <1>2, <2>5 DEF Loaded
<1>4. TablesBuilt'
  <2> SUFFICES ASSUME NEW a \in DOMAIN mem, pages <= a * Sector, a * Sector < stack
               PROVE  mem'[a] = Table
    BY <1>1 DEF TablesBuilt, layout
  <2>1. a * Sector \in Nat
    BY SizeAssumption DEF LayoutInv, TypeOK
  <2>2. ~(a * Sector < pages)
    BY <1>1, <2>1
  <2> QED
    BY <1>2, <2>2, ClearedCells DEF TablesBuilt
<1>5. BssIsZero'
  BY <1>1, ClearedCells DEF BssIsZero, layout
<1> QED
  BY <1>1, <1>3, <1>4, <1>5 DEF ImageInv, Placed, Planned, Mapped, layout

LEMMA ImageNext ==
  ASSUME LayoutInv, FramesInv, ImageInv, [Next]_vars PROVE ImageInv'
<1> USE DEF vars, layout
<1>1. CASE SkipRegion \/ TakeRegion \/ NoMemory
  BY <1>1 DEF SkipRegion, TakeRegion, NoMemory, ImageInv, Placed, Planned, Mapped
<1>2. CASE Layout
  <2>1. PICK k \in DOMAIN e820 : buf = PageUp(e820[k].base)
    BY <1>2 DEF Layout, LayoutInv
  <2>2. \E q \in Nat : buf = q * Page
    BY <1>2, <2>1, MapFacts, PageUpFacts DEF Layout, LayoutInv
  <2>3. load_buf' = buf /\ pc' = "clear"
    BY <1>2 DEF Layout
  <2> QED
    BY <2>2, <2>3 DEF ImageInv, Mapped
<1>3. CASE ClearTables \/ ClearForever
  BY <1>3 DEF ClearTables, ClearForever, ImageInv, Placed, Planned, Mapped
<1>4. CASE BuildTables
  <2>1. /\ pc = "tables" /\ pc' = "load" /\ i' = 0 /\ image \in Images
        /\ UNCHANGED <<image, layout, failed>> /\ mem' = Fill(pages, stack, Table)
    BY <1>4 DEF BuildTables, LayoutInv, TypeOK
  <2>2. FileSectors' \in Nat
    <3>1. image.load + Sector - 1 \in Nat
      BY <2>1, BssFacts, SizeAssumption
    <3> QED
      BY <2>1, <3>1, DivMod, SizeAssumption DEF FileSectors
  <2>3. Loaded(i)'
    BY <2>1 DEF Loaded
  <2>4. TablesBuilt'
    BY <2>1 DEF TablesBuilt, Fill
  <2> QED
    BY <2>1, <2>2, <2>3, <2>4 DEF ImageInv, Placed, Planned, Mapped
<1>5. CASE LoadSector
  BY <1>5, LoadStep
<1>6. CASE Run
  <2>1. /\ pc = "load" /\ pc' = "start" /\ i = FileSectors
        /\ UNCHANGED <<image, layout, failed, mem>>
    BY <1>6 DEF Run
  <2>2. Loaded(FileSectors) /\ TablesBuilt
    BY <2>1 DEF ImageInv, Mapped
  <2> QED
    BY <2>1, <2>2 DEF ImageInv, Placed, Planned, Mapped, Loaded, FileSectors,
       TablesBuilt
<1>7. CASE ClearBss
  BY <1>7, ClearBssStep
<1>8. CASE TrimRegion \/ MapReady
  <2>1. /\ pc = "mm_init" /\ pc' \in {"mm_init", "kernel"}
        /\ UNCHANGED <<image, layout, failed, mem>>
    BY <1>8 DEF TrimRegion, MapReady
  <2> QED
    BY <2>1 DEF ImageInv, Placed, Planned, Mapped, Loaded, FileSectors,
       TablesBuilt, BssIsZero
<1>9. CASE UNCHANGED vars
  BY <1>9 DEF ImageInv, Placed, Planned, Mapped, Loaded, FileSectors,
     TablesBuilt, BssIsZero
<1> QED
  BY <1>1, <1>2, <1>3, <1>4, <1>5, <1>6, <1>7, <1>8, <1>9 DEF Next

LEMMA ImageInvShows == LayoutInv /\ FramesInv /\ ImageInv => KernelImage
<1> SUFFICES ASSUME LayoutInv, FramesInv, ImageInv, pc \in {"mm_init", "kernel"}
             PROVE  KernelImage
  BY DEF KernelImage
<1>1. /\ image \in Images /\ Mapped /\ load_buf \in Nat /\ buf < Word
      /\ pages = load_buf + image.size
      /\ buf = load_buf + image.size + Tables + image.stack
      /\ image.size \in Nat /\ image.stack \in Nat /\ image.bss \in Nat
      /\ image.size = PageCnt(image.size) * Page /\ PageCnt(image.size) \in Nat
      /\ PageUp(image.size) = image.size /\ image.bss <= image.size
  BY ImageFacts, BssFacts
  DEF LayoutInv, FramesInv, TypeOK, Placed, Planned, Mapped
<1>2. 0..(image.size \div Page - 1) \subseteq DOMAIN pteKer
  <2>1. PageCnt(image.size) = image.size \div Page
    BY <1>1 DEF PageCnt
  <2>2. pages - load_buf = image.size
    BY <1>1
  <2>3. DOMAIN pteKer = 0..(PageCnt(image.size) - 1)
    BY <1>1, <2>2 DEF FramesInv, KernelFrames
  <2> QED
    BY <2>1, <2>3
<1>3. FileSectors \in Nat
  <2>1. image.load + Sector - 1 \in Nat
    BY <1>1, BssFacts, SizeAssumption
  <2> QED
    BY <2>1, DivMod, SizeAssumption DEF FileSectors
<1>4. ASSUME NEW n \in 0..(FileSectors - 1) \ failed
      PROVE  mem[load_buf \div Sector + n] = File(n)
  <2>1. PICK c \in Nat \ {0} : Page = c * Sector
    BY PageOfSectors
  <2>2. PICK q \in Nat : load_buf = q * Page
    BY <1>1 DEF ImageInv, Placed
  <2>3. PICK l \in Nat : load_buf = l * Sector
    <3>1. q * Page = (q * c) * Sector /\ q * c \in Nat
      BY <2>1, <2>2, Associate, SizeAssumption
    <3> QED
      BY <2>2, <3>1
  <2>4. load_buf \div Sector = l
    BY <2>3, SizeAssumption, Z3T(30)
  <2>5. (l + n) * Sector = load_buf + n * Sector
    BY <1>3, <2>3, SizeAssumption, Z3T(30)
  <2>6. n * Sector \in Nat /\ n * Sector + Sector <= image.bss
    BY <1>1, <1>3, SectorsEndEarly
  <2>7. Tables \in Nat
    BY SizeAssumption DEF Tables
  <2>8. (l + n) * Sector < Cells * Sector
    BY <1>1, <2>5, <2>6, <2>7, SizeAssumption
  <2>9. l + n \in DOMAIN mem
    <3>1. l + n < Cells
      BY <1>3, <2>8, SizeAssumption, Step
    <3> QED
      BY <1>3, <3>1, SizeAssumption DEF LayoutInv, TypeOK
  <2> QED
    BY <1>1, <2>4, <2>5, <2>9 DEF ImageInv, Loaded
<1>5. BssIsZero /\ TablesBuilt
  BY <1>1 DEF ImageInv
<1> QED
  BY <1>2, <1>4, <1>5 DEF KernelImage, BssIsZero, TablesBuilt

\* Whatever the memory map and the image, the kernel's C code starts with those
\* sectors of its file in place that could be read, with its bss zero and mapped,
\* and with its tables as they were built. (Nothing is said of the bytes between
\* the file's end and the bss, nor of the place of a sector that was not read.)
THEOREM ImageIsWhole == Spec => []KernelImage
<1>1. Init => ImageInv
  BY DEF Init, ImageInv, Placed, Planned, Mapped
<1>2. LayoutInv /\ FramesInv /\ ImageInv /\ [Next]_vars
        => LayoutInv' /\ FramesInv' /\ ImageInv'
  BY LayoutNext, FramesNext, ImageNext
<1> QED
  BY <1>1, <1>2, LayoutInit, FramesInit, ImageInvShows, PTL DEF Spec
=============================================================================
