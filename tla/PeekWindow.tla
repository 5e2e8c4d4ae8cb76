----------------------------- MODULE PeekWindow -----------------------------
(***************************************************************************)
(* mm_peek of the kernel's memory manager (kernel/src/memory/mm.c): it     *)
(* maps physical memory into a window of 1 GB at PEEK_ADDR, through a page *)
(* directory that stage 2 left empty, in pages of 2 MB (blocks).  The CPU  *)
(* walks the directory and keeps what it found in its TLB (external).      *)
(* Addresses in the window are offsets from PEEK_ADDR.                     *)
(***************************************************************************)
EXTENDS Integers

CONSTANTS Page, Block, ENTRY_CNT,  \* a page, a block, the directory's entries
          Phys, Size               \* what callers ask for

ASSUME PageAssumption == /\ Page \in Nat \ {0}
                         /\ Block \in Nat \ {0} /\ Block % Page = 0
                         /\ ENTRY_CNT \in Nat \ {0}
ASSUME CallAssumption == Phys \subseteq Nat /\ Size \subseteq Nat

VARIABLES ready,       \* whether mm_init has set peek_pde
          pde,         \* the addresses in the directory, or None
          tlb,         \* the entries the CPU holds, or None
          pc,          \* mm_peek's next step
          call,        \* its arguments
          i, cnt,      \* its loop
          window       \* the window it last returned, or None

vars == <<ready, pde, tlb, pc, call, i, cnt, window>>

M1GB == ENTRY_CNT * Block
Entries == 0 .. ENTRY_CNT - 1
None == [none |-> TRUE]
Some(a) == [addr |-> a]
PageDown(a) == a - (a % Page)
BlockDown(a) == a - (a % Block)
BlockUp(a) == BlockDown(a + Block - 1)
NoCall == [phys |-> 0, size |-> 0]

Init == /\ ready = FALSE
        /\ pde = [k \in Entries |-> None] /\ tlb = [k \in Entries |-> None]
        /\ pc = "idle" /\ call = NoCall /\ i = 0 /\ cnt = 0
        /\ window = None

MmInit == /\ ~ready /\ ready' = TRUE
          /\ UNCHANGED <<pde, tlb, pc, call, i, cnt, window>>

-----------------------------------------------------------------------------
(* mm_peek.                                                                *)

\* Slip: the block in which the range begins does not count.
BlocksOfSize(phys, size) == BlockUp(size) \div Block

Blocks(phys, size) == (BlockUp(phys + size) - BlockDown(phys)) \div Block

\* Slip: the size alone is looked at.
RefusedBySize(phys, size) == size > M1GB

Refused(phys, size) == size > M1GB \/ Blocks(phys, size) > ENTRY_CNT

\* EPERM before mm_init, ENOTSUP.
Fail(phys, size) == /\ pc = "idle"
                    /\ ~ready \/ Refused(phys, size)
                    /\ UNCHANGED vars

Begin(phys, size) == /\ pc = "idle" /\ ready /\ ~Refused(phys, size)
                     /\ call' = [phys |-> phys, size |-> size]
                     /\ cnt' = Blocks(phys, size) /\ i' = 0
                     /\ pc' = "map" /\ window' = None
                     /\ UNCHANGED <<ready, pde, tlb>>

\* Slip: no invlpg.
MapEntryOnly == /\ pc = "map" /\ i < cnt
                /\ pde' = [pde EXCEPT ![i] =
                             Some(PageDown(call.phys + i * Block))]
                /\ i' = i + 1
                /\ UNCHANGED <<ready, tlb, pc, call, cnt, window>>

\* One turn of the loop: the entry gets the address of a page.
MapBlock == /\ pc = "map" /\ i < cnt
            /\ pde' = [pde EXCEPT ![i] = Some(PageDown(call.phys + i * Block))]
            /\ tlb' = [tlb EXCEPT ![i] = None]
            /\ i' = i + 1
            /\ UNCHANGED <<ready, pc, call, cnt, window>>

Return == /\ pc = "map" /\ i = cnt
          /\ window' = [virt |-> call.phys % Block, phys |-> call.phys,
                        size |-> call.size]
          /\ pc' = "idle" /\ call' = NoCall /\ i' = 0 /\ cnt' = 0
          /\ UNCHANGED <<ready, pde, tlb>>

-----------------------------------------------------------------------------
(* The CPU's page walk (external).                                         *)

\* In an entry of a block the lowest page bit is the PAT bit, the other bits
\* below the block's address must be 0, or an access faults.
Usable(e) == e # None /\ e.addr % Block < 2 * Page

Fill(k) == /\ Usable(pde[k]) /\ tlb[k] = None
           /\ tlb' = [tlb EXCEPT ![k] = pde[k]]
           /\ UNCHANGED <<ready, pde, pc, call, i, cnt, window>>

EntryAt(v) == LET k == v \div Block IN IF tlb[k] # None THEN tlb[k] ELSE pde[k]
Reaches(v, a) == /\ v \div Block \in Entries
                 /\ Usable(EntryAt(v))
                 /\ BlockDown(EntryAt(v).addr) + (v % Block) = a

Next == \/ MmInit \/ MapBlock \/ Return
        \/ \E phys \in Phys, size \in Size : Fail(phys, size) \/ Begin(phys, size)
        \/ \E k \in Entries : Fill(k)

Spec == Init /\ [][Next]_vars

-----------------------------------------------------------------------------
(* Properties.                                                             *)

\* Every variable stays in its range; the loop does not leave the directory
\* (mm.c:178 refuses a range of 1 GB that touches one block more).
TypeOK == /\ ready \in BOOLEAN /\ pc \in {"idle", "map"}
          /\ \A k \in Entries : pde[k] # None => pde[k].addr % Page = 0
          /\ cnt <= ENTRY_CNT /\ i <= cnt

\* "Map physical memory to virtual memory with a given size" (mm.h:99): every
\* byte of the range is reached through the window.
WindowMaps(w) == \A o \in 0 .. w.size - 1 : Reaches(w.virt + o, w.phys + o)
PeekMaps == window # None => WindowMaps(window)

\* It is if the range begins in the first page of a block, or in the second,
\* whatever earlier peeks left in the directory and in the TLB.
AlignedPeekMaps ==
  window # None /\ window.phys % Block < 2 * Page => WindowMaps(window)
=============================================================================
