------------------------------ MODULE Handover ------------------------------
(***************************************************************************)
(* The hand-over from stage 2 to the kernel, on the memory of BootMemory:  *)
(* main builds the upper paging structures and fills lm_data (stage2.c),   *)
(* run turns paging on under its own feet and jumps (stub.asm), and the    *)
(* kernel's main maps the frame buffer through the entry it was given      *)
(* (kernel.c, mm.c).  A virtual page is named by its four indices.         *)
(***************************************************************************)
EXTENDS BootMemory

CONSTANT Screens           \* the frame buffers: base, a block's, and size

Block == EntryCnt * Page   \* BLOCK_SIZE: what an entry of a PDE table spans

ASSUME HandoverAssumption ==
  /\ EntryCnt >= 4 /\ LowMem <= Block
  /\ \A s \in Screens : /\ s.base \in Nat /\ s.base % Block = 0
                        /\ s.size \in 1..(EntryCnt * Block)

VARIABLES tab,             \* the present entries of the eight upper tables
          lm_data,         \* what the kernel is told
          cpu,             \* where run and the kernel's main are
          screen           \* the frame buffer of the mode that is set

hvars == <<vars, tab, lm_data, cpu, screen>>

PML4E == 0
PDPE_T == 1
PDPE_M == 2
PDPE_B == 3
PDE_KER == 4
PDE_STA == 5
PDE_MID == 6
PDE_LOW == 7
PTE_KER == 8
PTE_STA == 9

Top == EntryCnt - 1        \* index 511
Mid == EntryCnt \div 2     \* index 256

\* &page_tab[t][0], through a uint32_t, and entries (gen_pml4e_pdpe_pte,
\* gen_pde): of table t, at index k, to a table or to a block.
TableAt(t) == U32(pages + t * Page)
Link(t, k, next) == [table |-> t, at |-> k, addr |-> TableAt(next), big |-> FALSE]
Big(t, k, addr) == [table |-> t, at |-> k, addr |-> addr, big |-> TRUE]

\* Slip: the kernel's and the stack's 1 GB are each in the other's place.
TopLinksCrossed == {Link(PDPE_T, Top, PDE_KER), Link(PDPE_T, Top - 1, PDE_STA)}

TopLinks == {Link(PDPE_T, Top - 1, PDE_KER), Link(PDPE_T, Top, PDE_STA)}

\* Slip: gen_pde without the big flag: low memory's entry leads to a table.
LowBlockSmall == {[Big(PDE_LOW, 0, 0) EXCEPT !.big = FALSE]}

LowBlock == {Big(PDE_LOW, 0, 0)}

UpperTables ==
  TopLinks \cup LowBlock \cup
  {Link(PML4E, Top, PDPE_T), Link(PML4E, Mid, PDPE_M), Link(PML4E, 0, PDPE_B),
   Link(PDPE_M, 0, PDE_MID), Link(PDPE_B, 0, PDE_LOW),
   Link(PDE_KER, 0, PTE_KER), Link(PDE_STA, Top, PTE_STA)}

ToldPeekEntry == TableAt(PDE_MID)

HandoverInit == /\ Init
                /\ tab = {} /\ cpu = "stage2" /\ screen \in Screens
                /\ lm_data = [peek_entry |-> 0, framebuf_ptr |-> 0]

-----------------------------------------------------------------------------
(* main and run.                                                           *)

BuildAllTables == /\ BuildTables
                  /\ tab' = UpperTables
                  /\ UNCHANGED <<lm_data, cpu, screen>>

FillLmData == /\ Run
              /\ lm_data' = [peek_entry |-> ToldPeekEntry,
                             framebuf_ptr |-> screen.base]
              /\ UNCHANGED <<tab, cpu, screen>>

\* cr3, long mode, PG: the next instruction is fetched through the tables.
EnablePaging == /\ pc = "start" /\ cpu = "stage2"
                /\ cpu' = "paged"
                /\ UNCHANGED <<vars, tab, lm_data, screen>>

\* From the far jump to the kernel's first instruction, with its own stack.
JumpToKernel == /\ cpu = "paged"
                /\ cpu' = "kernel"
                /\ UNCHANGED <<vars, tab, lm_data, screen>>

StartKernel == ClearBss /\ cpu = "kernel" /\ UNCHANGED <<tab, lm_data, cpu, screen>>

OtherStep == /\ \/ SkipRegion \/ TakeRegion \/ NoMemory \/ Layout
                \/ ClearTables \/ ClearForever \/ LoadSector
                \/ TrimRegion \/ MapReady
             /\ UNCHANGED <<tab, lm_data, cpu, screen>>

-----------------------------------------------------------------------------
(* The processor's page walk (external) and the kernel's main.             *)

\* The tables and the blocks that the entries at index k of tables lead to.
Down(tables, k) == {e.addr : e \in {f \in tab : /\ TableAt(f.table) \in tables
                                               /\ f.at = k /\ ~f.big}}
BlocksAt(tables, k) == {e.addr : e \in {f \in tab : /\ TableAt(f.table) \in tables
                                                   /\ f.at = k /\ f.big}}

\* The physical pages that a virtual page is mapped to: one or none.
Frames(i4, i3, i2, i1) ==
  LET pds == Down(Down({TableAt(PML4E)}, i4), i3)
      pts == Down(pds, i2)
      Last(t, pte) == {pte[k] : k \in {j \in DOMAIN pte :
                                         j = i1 /\ TableAt(t) \in pts}}
  IN {b + i1 * Page : b \in BlocksAt(pds, i2)}
       \cup Last(PTE_KER, pteKer) \cup Last(PTE_STA, pteSta)

\* The page of a low address, of the image and of the window at PEEK_ADDR.
LowPage(p) == Frames(0, p \div (EntryCnt * Block), (p \div Block) % EntryCnt,
                     (p \div Page) % EntryCnt)
ImagePage(v) == Frames(Top, Top - 1, 0, v)
StackPage(k) == Frames(Top, Top, Top, k)
PeekPage(o) == Frames(Mid, 0, o \div Block, (o \div Page) % EntryCnt)

\* mm_peek: the entries are written through peek_entry, a physical address
\* used as a virtual one, which faults where low memory is not mapped to itself.
PeekFaults == /\ pc = "kernel" /\ cpu = "kernel"
              /\ LowPage(lm_data.peek_entry) = {}
              /\ cpu' = "fault"
              /\ UNCHANGED <<vars, tab, lm_data, screen>>

\* Slip: a block that the range only begins or ends in does not count.
PeekCountDown == screen.size \div Block

PeekCount == (screen.size + Block - 1) \div Block

PeekScreen ==
  /\ pc = "kernel" /\ cpu = "kernel"
  /\ LowPage(lm_data.peek_entry) # {}
  /\ tab' = tab \cup
       {Big(t, k, lm_data.framebuf_ptr + k * Block) :
          t \in {u \in 0..7 : TableAt(u) \in LowPage(lm_data.peek_entry)},
          k \in 0..(PeekCount - 1)}
  /\ cpu' = "peeked"
  /\ UNCHANGED <<vars, lm_data, screen>>

HandoverNext == \/ OtherStep \/ BuildAllTables \/ FillLmData \/ EnablePaging
                \/ JumpToKernel \/ StartKernel \/ PeekFaults \/ PeekScreen

\* One thread, whose steps all come if they can.
HandoverSpec == HandoverInit /\ [][HandoverNext]_hvars /\ WF_hvars(HandoverNext)

-----------------------------------------------------------------------------
(* Properties.                                                             *)

\* From the instruction that turns paging on, run finds its code, its stack
\* and its GDT, and the kernel its memory map and lm_data, where they were.
LowMemoryStays ==
  cpu # "stage2" => \A p \in 0..(LowMem - 1) :
                       LowPage(p) = {PageDown(p)}

\* The kernel's image is at the addresses it was linked for, every page of it
\* and nothing else, and its stack's pages end at the top of the addresses.
KernelInItsPlace ==
  cpu # "stage2" =>
    /\ \A v \in 0..Top :
         ImagePage(v) = IF v * Page < image.size THEN {load_buf + v * Page} ELSE {}
    /\ \A k \in (EntryCnt - PageCnt(image.stack))..Top :
         \E p \in stack..buf : StackPage(k) = {p}

\* What the kernel's main peeks at is the whole frame buffer, and nothing it
\* had before moves (LowMemoryStays, KernelInItsPlace hold then as well). It can
\* peek unless stage 2 had to put the directory for it beyond the first block
\* (mm.h:84: "Pointer to PTE entry used for peeking").
PeekReachesScreen ==
  /\ cpu = "peeked" => \A o \in 0..(screen.size - 1) :
                          PeekPage(o) = {PageDown(screen.base + o)}
  /\ cpu = "fault" => pages + PDE_MID * Page >= Block

\* With all memory below 4 GB the boot ends: with a message, with the frame
\* buffer mapped or with that fault.
HandoverEnds ==
  (\A k \in DOMAIN e820 : e820[k].base + e820[k].len < Word)
     => <>(pc = "halted" \/ cpu \in {"peeked", "fault"})
=============================================================================
