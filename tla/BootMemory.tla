----------------------------- MODULE BootMemory -----------------------------
(***************************************************************************)
(* The memory the kernel starts in: stage 2's main (stage2.c) picks a      *)
(* region of the e820 map for kernel image, paging structures and initial  *)
(* stack, clears it, builds the page tables and loads the image; the       *)
(* kernel's entry (init.asm) clears its bss, and mm_init (mm.c) takes the  *)
(* rest of the map for free memory.  Everything runs in one thread; the    *)
(* difficulty is that five pieces of code must agree on one layout.        *)
(*                                                                         *)
(* Addresses are numbers, sizes are parameters: the code's are Page =      *)
(* 4096, Sector = 2048, LowMem = 0x100000, EntryCnt = 512, Word = 2^32.    *)
(***************************************************************************)
EXTENDS Integers, Sequences

CONSTANTS Page, Sector,   \* PAGE_SIZE and CD_SECTOR_SIZE
          LowMem,         \* regions below are never used
          EntryCnt,       \* entries of a paging structure
          Word,           \* number of values of a uint32_t
          Cells,          \* number of sectors of memory, at least to 4 GB
          MemMaps,        \* the e820 maps the BIOS may report
          Images          \* the kernel images, as POTATO.BIN's header has them

FREE_RAM == 1

PageUp(x) == ((x + Page - 1) \div Page) * Page
PageDown(x) == (x \div Page) * Page
PageCnt(x) == PageUp(x) \div Page
U32(x) == x % Word

\* In use: ten pages of paging structures; the allocation asks for two more.
Tables == 10 * Page
Slack == 2 * Page

(***************************************************************************)
(* An e820 entry has base, len and type; entries do not overlap.  An image *)
(* has size (ebss - stext), bss (sbss - stext), stack (stack_size) and     *)
(* load, the size of the file, which ends before the bss (linker.ld).      *)
(***************************************************************************)
Entry == [base : Nat, len : Nat, type : Nat]
Disjoint(m) == \A j, k \in DOMAIN m :
                  j # k => \/ m[j].base + m[j].len <= m[k].base
                           \/ m[k].base + m[k].len <= m[j].base

Image == {g \in [size : Nat, bss : Nat, stack : Nat, load : Nat] :
            /\ g.size % Page = 0 /\ g.bss % Page = 0
            /\ g.stack % Page = 0 /\ g.stack > 0
            /\ 0 < g.load /\ g.load <= g.bss /\ g.bss <= g.size
            /\ g.size <= EntryCnt * Page /\ g.stack < EntryCnt * Page
            /\ g.size + g.stack + Tables + Slack < Word}

ASSUME SizeAssumption ==
  /\ Sector \in Nat \ {0} /\ Page \in Nat \ {0} /\ Page % Sector = 0
  /\ LowMem \in Nat \ {0} /\ EntryCnt \in Nat \ {0} /\ Word \in Nat \ {0}
  /\ Cells \in Nat /\ Word <= Cells * Sector

ASSUME InputAssumption ==
  /\ Images \subseteq Image
  /\ \A m \in MemMaps : m \in Seq(Entry) /\ Disjoint(m)

VARIABLES pc,             \* the next piece of code
          e820,           \* the memory map, which mm_init rewrites in place
          image,          \* the kernel to load
          i,              \* the loop index of that code
          buf,            \* main's allocation pointer, at last load_end
          load_buf, pages, stack,
          mem,            \* what each sector of memory holds
          pteKer, pteSta, \* PTE_KER and PTE_STA: the frame of each entry
          failed          \* sectors of the file that could not be read

vars == <<pc, e820, image, i, buf, load_buf, pages, stack, mem, pteKer,
          pteSta, failed>>
layout == <<buf, load_buf, pages, stack>>

\* What a sector of memory may hold.
Junk == [kind |-> "junk", n |-> 0]
Zero == [kind |-> "zero", n |-> 0]
Table == [kind |-> "table", n |-> 0]
File(n) == [kind |-> "file", n |-> n]

\* mem after [from, to) was filled with c.
Fill(from, to, c) == [a \in DOMAIN mem |->
                        IF from <= a * Sector /\ a * Sector < to THEN c
                                                                 ELSE mem[a]]

\* Slip: nothing for rounding the base up.
TotalSizeNoSlack == U32(image.size + image.stack + Tables)

\* main's total_size, a uint32_t.
TotalSize == U32(image.size + image.stack + Tables + Slack)
FileSectors == (image.load + Sector - 1) \div Sector

Init == /\ pc = "alloc" /\ i = 0
        /\ e820 \in MemMaps /\ image \in Images
        /\ buf = 0 /\ load_buf = 0 /\ pages = 0 /\ stack = 0
        /\ mem = [a \in 0..(Cells - 1) |-> Junk]
        /\ pteKer = <<>> /\ pteSta = <<>>
        /\ failed = {}

-----------------------------------------------------------------------------
(* stage2.c: the allocation.                                               *)

Suitable(e) == e.type = FREE_RAM /\ e.base >= LowMem /\ e.len >= TotalSize

\* Slip: the `continue` jumps over the increment.
SkipWithoutStep == /\ pc = "alloc" /\ i < Len(e820)
                   /\ ~Suitable(e820[i + 1])
                   /\ UNCHANGED vars

SkipRegion == /\ pc = "alloc" /\ i < Len(e820)
              /\ ~Suitable(e820[i + 1])
              /\ i' = i + 1
              /\ UNCHANGED <<pc, e820, image, layout, mem, pteKer, pteSta,
                             failed>>

TakeRegion == /\ pc = "alloc" /\ i < Len(e820)
              /\ Suitable(e820[i + 1])
              /\ buf' = PageUp(e820[i + 1].base)
              /\ pc' = "layout"
              /\ UNCHANGED <<e820, image, i, load_buf, pages, stack, mem,
                             pteKer, pteSta, failed>>

NoMemory == /\ pc = "alloc" /\ i = Len(e820)
            /\ pc' = "halted"
            /\ UNCHANGED <<e820, image, i, layout, mem, pteKer, pteSta,
                           failed>>

\* Slip: the image's room is that of its file, without the bss.
LayoutOfFile == /\ pc = "layout"
                /\ load_buf' = buf
                /\ pages' = load_buf' + PageUp(image.load)
                /\ stack' = pages' + Tables
                /\ buf' = stack' + image.stack
                /\ pc' = "clear"
                /\ UNCHANGED <<e820, image, i, mem, pteKer, pteSta, failed>>

Layout == /\ pc = "layout"
          /\ load_buf' = buf
          /\ pages' = load_buf' + PageUp(image.size)
          /\ stack' = pages' + Tables
          /\ buf' = stack' + image.stack
          /\ pc' = "clear"
          /\ UNCHANGED <<e820, image, i, mem, pteKer, pteSta, failed>>

\* for (i = pages; i < buf; i++), with a uint32_t i and a uint64_t buf.
ClearTables == /\ pc = "clear" /\ buf < Word
               /\ mem' = Fill(pages, buf, Zero)
               /\ pc' = "tables"
               /\ UNCHANGED <<e820, image, i, layout, pteKer, pteSta, failed>>

\* Above 4 GB the index wraps before it reaches buf: the loop clears all of
\* the memory again and again, the code of stage 2 included.
ClearForever == /\ pc = "clear" /\ buf >= Word
                /\ pc' = "lost"
                /\ UNCHANGED <<e820, image, i, layout, mem, pteKer, pteSta,
                               failed>>

\* Slip: the image is taken to end where the stack begins.
KernelFramesToStack == [k \in 0..(PageCnt(stack - load_buf) - 1) |->
                          U32(load_buf + k * Page)]

\* The frames of the two last-level tables.
KernelFrames == [k \in 0..(PageCnt(pages - load_buf) - 1) |->
                   U32(load_buf + k * Page)]
StackFrames == [k \in (EntryCnt - PageCnt(image.stack))..(EntryCnt - 1) |->
                  U32(buf - (EntryCnt - 1 - k) * Page)]

BuildTables == /\ pc = "tables"
               /\ mem' = Fill(pages, stack, Table)
               /\ pteKer' = KernelFrames
               /\ pteSta' = StackFrames
               /\ i' = 0
               /\ pc' = "load"
               /\ UNCHANGED <<e820, image, layout, failed>>

\* cdrom_read_sector may fail; main does not look at its result.
LoadSector == /\ pc = "load" /\ i < FileSectors
              /\ \/ /\ mem' = Fill(load_buf + i * Sector,
                                   load_buf + (i + 1) * Sector, File(i))
                    /\ UNCHANGED failed
                 \/ /\ failed' = failed \cup {i}
                    /\ UNCHANGED mem
              /\ i' = i + 1
              /\ UNCHANGED <<pc, e820, image, layout, pteKer, pteSta>>

Run == /\ pc = "load" /\ i = FileSectors
       /\ pc' = "start"
       /\ UNCHANGED <<e820, image, i, layout, mem, pteKer, pteSta, failed>>

-----------------------------------------------------------------------------
(* The kernel: _start (init.asm) and mm_init (mm.c).                       *)

\* From virtual _sbss to _ebss, through the tables of stage 2.
ClearBss == /\ pc = "start"
            /\ mem' = [a \in DOMAIN mem |->
                         IF \E v \in DOMAIN pteKer :
                               /\ image.bss <= v * Page
                               /\ v * Page < image.size
                               /\ pteKer[v] <= a * Sector
                               /\ a * Sector < pteKer[v] + Page
                         THEN Zero ELSE mem[a]]
            /\ i' = 0
            /\ pc' = "mm_init"
            /\ UNCHANGED <<e820, image, layout, pteKer, pteSta, failed>>

\* Slip: the union is read as the length it was.
TrimToLength(e) == LET base == PageUp(e.base) IN
                   [base |-> IF base = load_buf
                             THEN base + (PageUp(buf) - load_buf) ELSE base,
                    len |-> PageDown(e.base + e.len) - base,
                    type |-> e.type]

\* Slip: the region is looked for before its base is rounded.
TrimUnrounded(e) == LET base == PageUp(e.base) IN
                    [base |-> IF e.base = load_buf
                              THEN base + (PageUp(buf) - load_buf) ELSE base,
                     len |-> PageDown(e.base + e.len),
                     type |-> e.type]

\* An entry as mm_init leaves it: len becomes the end (they are a union), and
\* the region the kernel was loaded to loses its first part.
Trim(e) == LET base == PageUp(e.base)
               load_size == PageUp(buf) - load_buf
           IN [base |-> IF base = load_buf THEN base + load_size ELSE base,
               len |-> PageDown(e.base + e.len),
               type |-> e.type]

TrimRegion == /\ pc = "mm_init" /\ i < Len(e820)
              /\ e820' = [e820 EXCEPT ![i + 1] = Trim(e820[i + 1])]
              /\ i' = i + 1
              /\ UNCHANGED <<pc, image, layout, mem, pteKer, pteSta, failed>>

MapReady == /\ pc = "mm_init" /\ i = Len(e820)
            /\ pc' = "kernel"
            /\ UNCHANGED <<e820, image, i, layout, mem, pteKer, pteSta,
                           failed>>

Next == \/ SkipRegion \/ TakeRegion \/ NoMemory \/ Layout
        \/ ClearTables \/ ClearForever \/ BuildTables \/ LoadSector \/ Run
        \/ ClearBss \/ TrimRegion \/ MapReady

Spec == Init /\ [][Next]_vars /\ WF_vars(Next)

-----------------------------------------------------------------------------
(* Properties.                                                             *)

Planned == pc \in {"clear", "lost", "tables", "load", "start"}
Mapped == pc \in {"load", "start", "mm_init", "kernel"}

\* Every variable stays in its range; no address or size goes below zero.
TypeOK == /\ pc \in {"alloc", "layout", "halted", "clear", "lost", "tables",
                     "load", "start", "mm_init", "kernel"}
          /\ e820 \in Seq(Entry) /\ image \in Images
          /\ i \in Nat /\ failed \subseteq Nat
          /\ buf \in Nat /\ load_buf \in Nat /\ pages \in Nat /\ stack \in Nat
          /\ DOMAIN mem = 0..(Cells - 1)

\* What main lays out lies in one free region above 1 MB, and so does the page
\* after it, which BuildTables maps as the top of the stack: the two pages
\* added at stage2.c:264 pay for rounding the base up and for that page.
Fits(e) == /\ e.type = FREE_RAM
           /\ LowMem <= e.base /\ e.base <= load_buf
           /\ load_buf < pages /\ pages < stack /\ stack < buf
           /\ buf + Page <= e.base + e.len

AllocationFits == Planned => \E k \in DOMAIN e820 : Fits(e820[k])

\* The kernel's C code starts with every sector of its file that could be read
\* in place, its bss mapped and zero and the tables as they were built: rounding
\* the file up to sectors overwrites neither, and clearing the bss, to which
\* stage 2's tables must reach, erases no code.
KernelImage ==
  pc \in {"mm_init", "kernel"} =>
     /\ 0..(image.size \div Page - 1) \subseteq DOMAIN pteKer
     /\ \A n \in 0..(FileSectors - 1) \ failed :
           mem[load_buf \div Sector + n] = File(n)
     /\ \A a \in DOMAIN mem :
           LET at == a * Sector IN
           /\ load_buf + image.bss <= at /\ at < pages => mem[a] = Zero
           /\ pages <= at /\ at < stack => mem[a] = Table

\* The last-level tables of the kernel's half, PTE_KER and PTE_STA, give each page
\* of the image and of the stack a frame of its own, the image's before the
\* tables and the stack's behind them: at its addresses there the kernel's stack,
\* as deep as it was asked for, overwrites neither the image nor a paging
\* structure. (Through the identity block of stage2.c:324 the tables can be
\* reached when they lie below 2 MB; mm_peek relies on that, PeekReachesScreen.)
FramesApart ==
  Mapped =>
    /\ \A k \in DOMAIN pteKer : load_buf <= pteKer[k] /\ pteKer[k] < pages
    /\ \A k \in DOMAIN pteSta : stack <= pteSta[k] /\ pteSta[k] <= buf
    /\ \A j, k \in DOMAIN pteKer : j # k => pteKer[j] # pteKer[k]
    /\ \A j, k \in DOMAIN pteSta : j # k => pteSta[j] # pteSta[k]

\* The free memory mm_init finds (mm.c:139-141), whole pages of it, does not
\* overlap what stage 2 laid out: mm_init recognises the region by its base
\* alone (mm.c:135).
FreeRegions == {k \in DOMAIN e820 : /\ e820[k].type = FREE_RAM
                                    /\ e820[k].base >= LowMem
                                    /\ e820[k].base < e820[k].len}
FreeIsFree ==
  pc = "kernel" => \A k \in FreeRegions : \/ e820[k].len <= load_buf
                                          \/ buf <= e820[k].base

\* The table of bootloader/README.md puts the initial stack right after the
\* paging structures, stack_size long.
StackInItsPlace ==
  Mapped => \A k \in DOMAIN pteSta : stack <= pteSta[k] /\ pteSta[k] < buf
=============================================================================
