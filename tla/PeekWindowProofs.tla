-------------------------- MODULE PeekWindowProofs --------------------------
(***************************************************************************)
(* Proofs about PeekWindow, for pages, blocks and directories of any size, *)
(* any physical address and any size of the memory that is asked for.      *)
(***************************************************************************)
EXTENDS PeekWindow, TLAPS

-----------------------------------------------------------------------------
(* Rounding.                                                               *)

LEMMA DivMod == ASSUME NEW x \in Nat, NEW d \in Nat \ {0}
                PROVE  /\ x \div d \in Nat
                       /\ x % d \in 0..(d - 1)
                       /\ x = (x \div d) * d + (x % d)
  BY Z3T(30)

LEMMA DivModPick == ASSUME NEW x \in Nat, NEW d \in Nat \ {0}
                    PROVE  \E q \in Nat : \E r \in 0..(d - 1) :
                              q = x \div d /\ r = x % d /\ x = q * d + r
<1>1. /\ x \div d \in Nat /\ x % d \in 0..(d - 1)
      /\ x = (x \div d) * d + (x % d)
  BY DivMod
<1>2. \E q : \E r : q = x \div d /\ r = x % d
  OBVIOUS
<1> QED
  BY <1>1, <1>2, Zenon

\* Quotient and remainder are the only ones there are.
LEMMA DivModUnique ==
  ASSUME NEW d \in Nat \ {0}, NEW q \in Nat, NEW r \in 0..(d - 1)
  PROVE  (q * d + r) % d = r /\ (q * d + r) \div d = q
<1> DEFINE x == q * d + r
<1>1. x \in Nat
  OBVIOUS
<1>2. PICK p \in Nat, s \in 0..(d - 1) :
         p = x \div d /\ s = x % d /\ x = p * d + s
  BY <1>1, DivMod
<1>3. p * d + s = q * d + r
  BY <1>2
<1>4. p = q
  BY <1>3, Z3T(30)
<1> QED
  BY <1>2, <1>3, <1>4

\* A sum of multiples is a multiple.
LEMMA Distribute == ASSUME NEW j \in Int, NEW k \in Int, NEW d \in Int
                    PROVE  (j + k) * d = j * d + k * d
  BY Z3T(30)

LEMMA Associate == ASSUME NEW j \in Int, NEW k \in Int, NEW d \in Int
                   PROVE  j * (k * d) = (j * k) * d
  BY Z3T(30)

LEMMA BlockUpFacts ==
  ASSUME NEW a \in Nat
  PROVE  \E k \in Nat : BlockUp(a) = k * Block /\ a <= k * Block
<1> DEFINE y == a + Block - 1
<1>1. y \in Nat
  BY PageAssumption
<1>2. PICK k \in Nat, r \in 0..(Block - 1) :
        k = y \div Block /\ r = y % Block /\ y = k * Block + r
  BY <1>1, DivModPick, PageAssumption
<1>3. k * Block \in Nat
  BY PageAssumption
<1>4. BlockUp(a) = k * Block
  BY <1>1, <1>2, <1>3, PageAssumption DEF BlockUp, BlockDown
<1>5. a <= k * Block
  BY <1>2, <1>3, PageAssumption
<1> QED
  BY <1>4, <1>5

\* A block that begins below the end of the range is one of its blocks.
LEMMA BlocksReach ==
  ASSUME NEW q \in Nat, NEW r \in 0..(Block - 1), NEW size \in Nat,
         NEW k \in Nat, k * Block < r + size
  PROVE  k < Blocks(q * Block + r, size)
<1> DEFINE a == q * Block + r
<1>1. q * Block \in Nat /\ a \in Nat
  BY PageAssumption
<1>2. a % Block = r
  BY DivModUnique, PageAssumption
<1>3. BlockDown(a) = q * Block
  BY <1>1, <1>2, PageAssumption DEF BlockDown
<1>4. PICK u \in Nat : BlockUp(a + size) = u * Block /\ a + size <= u * Block
  BY <1>1, BlockUpFacts
<1>5. u * Block \in Nat /\ k * Block \in Nat
  BY PageAssumption
<1>6. q * Block + k * Block < u * Block
  BY <1>1, <1>4, <1>5
<1>7. (q + k) * Block < u * Block
  BY <1>6, Distribute, PageAssumption
<1>8. q + k < u
  BY <1>7, PageAssumption, Z3T(30)
<1>9. u * Block - q * Block = (u - q) * Block
  BY PageAssumption, Z3T(30)
<1>10. u - q \in Nat
  BY <1>8
<1>11. ((u - q) * Block + 0) \div Block = u - q
  BY <1>10, DivModUnique, PageAssumption
<1>12. (u - q) * Block + 0 = (u - q) * Block
  BY <1>10, PageAssumption
<1>13. Blocks(a, size) = u - q
  BY <1>3, <1>4, <1>9, <1>11, <1>12 DEF Blocks
<1> QED
  BY <1>8, <1>13

\* In the first two pages of a block rounding to a page leaves the block's
\* address and at most one bit more, the PAT bit.
LEMMA FirstPages ==
  ASSUME NEW n \in Nat, NEW r \in 0..(Block - 1), r < 2 * Page
  PROVE  LET e == PageDown(n * Block + r) IN
         /\ e % Block < 2 * Page
         /\ BlockDown(e) = n * Block
<1>1. PICK c \in Nat : Block = c * Page
  <2>1. /\ Block \div Page \in Nat
        /\ Block = (Block \div Page) * Page + (Block % Page)
    BY DivMod, PageAssumption
  <2>2. Block % Page = 0 /\ (Block \div Page) * Page \in Nat
    BY <2>1, PageAssumption
  <2>3. Block = (Block \div Page) * Page
    BY <2>1, <2>2
  <2> QED
    BY <2>1, <2>3
<1>2. PICK p \in Nat, s \in 0..(Page - 1) :
         p = r \div Page /\ s = r % Page /\ r = p * Page + s
  BY DivModPick, PageAssumption
<1>3. p * Page \in Nat /\ p * Page <= r /\ p * Page \in 0..(Block - 1)
  BY <1>2, PageAssumption
<1>4. n * c \in Nat /\ n * c + p \in Nat
  OBVIOUS
<1>5. n * Block + r = (n * c + p) * Page + s
  <2>1. n * Block = (n * c) * Page
    BY <1>1, Associate, PageAssumption
  <2>2. (n * c + p) * Page = (n * c) * Page + p * Page
    BY <1>4, Distribute, PageAssumption
  <2>3. (n * c) * Page \in Nat
    BY <1>4, PageAssumption
  <2> QED
    BY <1>2, <1>3, <2>1, <2>2, <2>3
<1>6. (n * Block + r) % Page = s
  <2>1. PICK m \in Nat : m = n * c + p
    BY <1>4
  <2>2. (m * Page + s) % Page = s
    BY DivModUnique, PageAssumption
  <2> QED
    BY <1>5, <2>1, <2>2
<1>7. n * Block \in Nat
  BY PageAssumption
<1>8. PageDown(n * Block + r) = n * Block + p * Page
  BY <1>2, <1>3, <1>6, <1>7 DEF PageDown
<1>9. (n * Block + p * Page) % Block = p * Page
  BY <1>3, DivModUnique, PageAssumption
<1> QED
  BY <1>3, <1>7, <1>8, <1>9, PageAssumption DEF BlockDown

-----------------------------------------------------------------------------
(* The directory.                                                          *)

\* What mm_peek has put, or puts, into entry k for a range at phys.
Target(phys, k) == Some(PageDown(phys + k * Block))

\* The first m entries show the range at phys, to the CPU as well.
Shows(phys, m) == \A k \in 0..(m - 1) :
                     pde[k] = Target(phys, k) /\ tlb[k] \in {None, pde[k]}

Addresses == {None} \cup {Some(a) : a \in Nat}

PeekInv ==
  /\ ready \in BOOLEAN /\ pc \in {"idle", "map"}
  /\ pde \in [Entries -> Addresses] /\ tlb \in [Entries -> Addresses]
  /\ \A k \in Entries : pde[k] # None => pde[k].addr % Page = 0
  /\ call \in [phys : Nat, size : Nat]
  /\ cnt \in 0..ENTRY_CNT /\ i \in 0..cnt
  /\ pc = "map" => /\ window = None
                   /\ cnt = Blocks(call.phys, call.size)
                   /\ Shows(call.phys, i)
  /\ window # None =>
       /\ window \in [virt : Nat, phys : Nat, size : Nat]
       /\ window.virt = window.phys % Block
       /\ Blocks(window.phys, window.size) \in 0..ENTRY_CNT
       /\ Shows(window.phys, Blocks(window.phys, window.size))

LEMMA PageDownFacts == ASSUME NEW a \in Nat
                       PROVE  PageDown(a) \in Nat /\ PageDown(a) % Page = 0
<1>1. PICK q \in Nat, r \in 0..(Page - 1) :
        q = a \div Page /\ r = a % Page /\ a = q * Page + r
  BY DivModPick, PageAssumption
<1>2. q * Page \in Nat /\ PageDown(a) = q * Page + 0
  BY <1>1, PageAssumption DEF PageDown
<1>3. (q * Page + 0) % Page = 0
  BY DivModUnique, PageAssumption
<1> QED
  BY <1>2, <1>3

LEMMA BlocksNat == ASSUME NEW phys \in Nat, NEW size \in Nat,
                          ~Refused(phys, size)
                   PROVE  Blocks(phys, size) \in 0..ENTRY_CNT
<1>1. PICK q \in Nat, r \in 0..(Block - 1) :
        q = phys \div Block /\ r = phys % Block /\ phys = q * Block + r
  BY DivModPick, PageAssumption
<1>2. q * Block \in Nat
  BY PageAssumption
<1>3. BlockDown(phys) = q * Block
  BY <1>1, <1>2 DEF BlockDown
<1>4. PICK u \in Nat : BlockUp(phys + size) = u * Block
                       /\ phys + size <= u * Block
  BY BlockUpFacts
<1>5. q * Block <= u * Block
  BY <1>1, <1>2, <1>4, PageAssumption
<1>6. q <= u
  BY <1>5, PageAssumption, Z3T(30)
<1>7. PICK v \in Nat : v = u - q
  BY <1>6
<1>8. u * Block - q * Block = v * Block + 0
  BY <1>7, PageAssumption, Z3T(30)
<1>9. (v * Block + 0) \div Block = v
  BY DivModUnique, PageAssumption
<1>10. Blocks(phys, size) = v
  BY <1>3, <1>4, <1>8, <1>9 DEF Blocks
<1> QED
  BY <1>10, PageAssumption DEF Refused

LEMMA PeekInit == Init => PeekInv
<1> SUFFICES ASSUME Init PROVE PeekInv
  OBVIOUS
<1>1. None \in Addresses
  BY DEF Addresses
<1>2. /\ pde \in [Entries -> Addresses] /\ tlb \in [Entries -> Addresses]
      /\ \A k \in Entries : pde[k] = None
  BY <1>1 DEF Init
<1>3. /\ ready = FALSE /\ pc = "idle" /\ i = 0 /\ cnt = 0 /\ window = None
      /\ call \in [phys : Nat, size : Nat]
  BY DEF Init, NoCall
<1>4. 0 \in 0..ENTRY_CNT /\ 0 \in 0..0
  BY PageAssumption
<1> QED
  BY <1>2, <1>3, <1>4 DEF PeekInv

LEMMA PeekNext == PeekInv /\ [Next]_vars => PeekInv'
<1> SUFFICES ASSUME PeekInv, [Next]_vars PROVE PeekInv'
  OBVIOUS
<1>1. CASE MmInit
  BY <1>1 DEF MmInit, PeekInv, Shows
<1>2. ASSUME NEW phys \in Phys, NEW size \in Size, Fail(phys, size)
      PROVE  PeekInv'
  BY <1>2 DEF Fail, vars, PeekInv, Shows
<1>3. ASSUME NEW phys \in Phys, NEW size \in Size, Begin(phys, size)
      PROVE  PeekInv'
  <2>1. phys \in Nat /\ size \in Nat /\ Blocks(phys, size) \in 0..ENTRY_CNT
    BY <1>3, CallAssumption, BlocksNat DEF Begin
  <2> QED
    BY <1>3, <2>1 DEF Begin, PeekInv, Shows
<1>4. CASE MapBlock
  <2> DEFINE a == PageDown(call.phys + i * Block)
  <2>1. /\ i \in Nat /\ i \in Entries /\ i + 1 \in 0..cnt
    <3>1. i \in 0..cnt /\ cnt \in 0..ENTRY_CNT /\ i < cnt
      BY <1>4 DEF MapBlock, PeekInv
    <3> QED
      BY <3>1, PageAssumption DEF Entries
  <2>2. call.phys + i * Block \in Nat
    BY <2>1, PageAssumption DEF PeekInv
  <2>3. a \in Nat /\ a % Page = 0
    BY <2>2, PageDownFacts
  <2> HIDE DEF a
  <2>4. pde' = [pde EXCEPT ![i] = Some(a)] /\ tlb' = [tlb EXCEPT ![i] = None]
    BY <1>4 DEF MapBlock, a
  <2>5. /\ pde' \in [Entries -> Addresses] /\ tlb' \in [Entries -> Addresses]
        /\ \A k \in Entries : pde'[k] # None => pde'[k].addr % Page = 0
    BY <2>1, <2>3, <2>4 DEF PeekInv, Addresses, Some
  <2>6. \A k \in 0..i : /\ pde'[k] = Target(call.phys, k)
                        /\ tlb'[k] \in {None, pde'[k]}
    <3> SUFFICES ASSUME NEW k \in 0..i
                 PROVE  pde'[k] = Target(call.phys, k) /\ tlb'[k] \in {None, pde'[k]}
      OBVIOUS
    <3>1. CASE k = i
      BY <2>1, <2>4, <3>1 DEF PeekInv, Target, a
    <3>2. CASE k # i
      <4>1. k \in 0..(i - 1) /\ k \in Entries
        BY <2>1, <3>2, PageAssumption DEF Entries
      <4>2. pde[k] = Target(call.phys, k) /\ tlb[k] \in {None, pde[k]}
        BY <1>4, <4>1 DEF PeekInv, Shows, MapBlock
      <4> QED
        BY <2>4, <3>2, <4>1, <4>2 DEF PeekInv
    <3> QED
      BY <3>1, <3>2
  <2>7. /\ i' = i + 1 /\ call' = call /\ cnt' = cnt /\ pc' = "map" /\ ready' = ready
        /\ window' = None
    BY <1>4 DEF MapBlock, PeekInv
  <2>8. 0..(i' - 1) = 0..i
    BY <2>1, <2>7
  <2>9. Shows(call.phys, i)'
    BY <2>6, <2>7, <2>8 DEF Shows, Target
  <2>10. /\ ready' \in BOOLEAN /\ pc' \in {"idle", "map"}
         /\ call' \in [phys : Nat, size : Nat] /\ cnt' \in 0..ENTRY_CNT
         /\ i' \in 0..cnt'
    BY <2>1, <2>7 DEF PeekInv
  <2>11. cnt' = Blocks(call.phys, call.size)'
    BY <1>4, <2>7 DEF PeekInv, MapBlock, Blocks
  <2> QED
    BY <2>5, <2>7, <2>9, <2>10, <2>11 DEF PeekInv
<1>5. CASE Return
  <2>1. call.phys \in Nat /\ call.size \in Nat /\ call.phys % Block \in Nat
    BY DivMod, PageAssumption DEF PeekInv
  <2>2. /\ window'.phys = call.phys /\ window'.size = call.size
        /\ window'.virt = call.phys % Block
        /\ window' \in [virt : Nat, phys : Nat, size : Nat]
    BY <1>5, <2>1 DEF Return
  <2>3. /\ UNCHANGED <<ready, pde, tlb>> /\ pc' = "idle"
        /\ call' \in [phys : Nat, size : Nat] /\ i' \in 0..cnt'
        /\ cnt' \in 0..ENTRY_CNT
    BY <1>5, PageAssumption DEF Return, NoCall
  <2>4. /\ i = Blocks(call.phys, call.size) /\ i \in 0..ENTRY_CNT
        /\ Shows(call.phys, i)
    BY <1>5, PageAssumption DEF Return, PeekInv
  <2>5. Shows(window.phys, Blocks(window.phys, window.size))'
    BY <2>2, <2>3, <2>4 DEF Shows, Target, Blocks
  <2>6. (Blocks(window.phys, window.size) \in 0..ENTRY_CNT)'
    BY <2>2, <2>4 DEF Blocks
  <2> QED
    BY <2>2, <2>3, <2>5, <2>6 DEF PeekInv
<1>6. ASSUME NEW k \in Entries, Fill(k) PROVE PeekInv'
  <2>1. /\ tlb' = [tlb EXCEPT ![k] = pde[k]] /\ tlb' \in [Entries -> Addresses]
        /\ UNCHANGED <<ready, pde, pc, call, i, cnt, window>>
    BY <1>6 DEF Fill, PeekInv
  <2>2. ASSUME NEW phys \in Nat, NEW m \in 0..ENTRY_CNT, Shows(phys, m)
        PROVE  Shows(phys, m)'
    <3>1. 0..(m - 1) \subseteq Entries
      BY PageAssumption DEF Entries
    <3> QED
      BY <2>1, <2>2, <3>1 DEF Shows, Target, PeekInv
  <2>3. pc = "map" => Shows(call.phys, i)'
    <3>1. i \in 0..ENTRY_CNT /\ call.phys \in Nat
      BY PageAssumption DEF PeekInv
    <3> QED
      BY <2>1, <2>2, <3>1 DEF PeekInv, Shows
  <2>4. window # None => Shows(window.phys, Blocks(window.phys, window.size))'
    BY <2>1, <2>2 DEF PeekInv, Shows
  <2> QED
    BY <2>1, <2>3, <2>4 DEF PeekInv, Shows
<1>7. CASE UNCHANGED vars
  BY <1>7 DEF vars, PeekInv, Shows
<1> QED
  BY <1>1, <1>2, <1>3, <1>4, <1>5, <1>6, <1>7 DEF Next

\* Whatever is asked for, the entries hold addresses of pages and the loop
\* stays in the directory.
THEOREM TypeCorrect == Spec => []TypeOK
<1>1. PeekInv => TypeOK
  BY PageAssumption DEF PeekInv, TypeOK
<1> QED
  BY <1>1, PeekInit, PeekNext, PTL DEF Spec

\* Whatever is asked for, and whatever earlier calls left in the directory and
\* in the TLB: every byte of a range that begins in the first two pages of a
\* block is reached through the window.
THEOREM AlignedPeeks == Spec => []AlignedPeekMaps
<1>1. PeekInv => AlignedPeekMaps
  <2> SUFFICES ASSUME PeekInv, window # None, window.phys % Block < 2 * Page,
                      NEW o \in 0..(window.size - 1)
               PROVE  Reaches(window.virt + o, window.phys + o)
    BY DEF AlignedPeekMaps, WindowMaps
  <2>1. /\ window.phys \in Nat /\ window.size \in Nat
        /\ window.virt = window.phys % Block
    BY DEF PeekInv
  <2>2. PICK q \in Nat, r \in 0..(Block - 1) :
          r = window.phys % Block /\ window.phys = q * Block + r
    <3>1. PICK w \in Nat : w = window.phys
      BY <2>1
    <3>2. \E q \in Nat : \E r \in 0..(Block - 1) :
            q = w \div Block /\ r = w % Block /\ w = q * Block + r
      BY DivModPick, PageAssumption
    <3> QED
      BY <3>1, <3>2
  <2> DEFINE v == r + o
  <2>3. v \in Nat /\ window.virt + o = v
    BY <2>1, <2>2
  <2>4. PICK k \in Nat, s \in 0..(Block - 1) :
          k = v \div Block /\ s = v % Block /\ v = k * Block + s
    BY <2>3, DivModPick, PageAssumption
  <2>5. k * Block \in Nat /\ k * Block < r + window.size
    BY <2>1, <2>2, <2>3, <2>4, PageAssumption
  <2>6. k < Blocks(window.phys, window.size)
    BY <2>1, <2>2, <2>5, BlocksReach
  <2>7. k \in Entries /\ k \in 0..(Blocks(window.phys, window.size) - 1)
    BY <2>6, PageAssumption DEF PeekInv, Entries
  <2>8. pde[k] = Target(window.phys, k) /\ tlb[k] \in {None, pde[k]}
    BY <2>7 DEF PeekInv, Shows
  <2>9. EntryAt(v) = Some(PageDown(window.phys + k * Block))
    BY <2>4, <2>8 DEF EntryAt, Target
  <2>10. PICK n \in Nat : /\ n = q + k
                          /\ window.phys + k * Block = n * Block + r
                          /\ n * Block = q * Block + k * Block
    <3>1. (q + k) * Block = q * Block + k * Block
      BY Distribute, PageAssumption
    <3>2. q * Block \in Nat /\ q + k \in Nat
      BY PageAssumption
    <3> QED
      BY <2>2, <2>5, <3>1, <3>2
  <2> DEFINE e == PageDown(n * Block + r)
  <2>11. r < 2 * Page
    BY <2>2
  <2>12. e % Block < 2 * Page /\ BlockDown(e) = n * Block
    BY <2>11, FirstPages
  <2> HIDE DEF e
  <2>13. EntryAt(v) = Some(e)
    BY <2>9, <2>10 DEF e
  <2>14. Usable(EntryAt(v))
    BY <2>12, <2>13 DEF Usable, Some, None
  <2>15. BlockDown(EntryAt(v).addr) + (v % Block) = window.phys + o
    <3>1. EntryAt(v).addr = e
      BY <2>13 DEF Some
    <3>2. q * Block \in Nat
      BY PageAssumption
    <3>3. BlockDown(EntryAt(v).addr) = q * Block + k * Block
      BY <2>10, <2>12, <3>1
    <3>4. v % Block = s /\ r + o = k * Block + s
      BY <2>4
    <3>5. window.phys = q * Block + r
      BY <2>2
    <3> HIDE DEF v
    <3> QED
      BY <2>5, <3>2, <3>3, <3>4, <3>5
  <2> QED
    BY <2>3, <2>4, <2>7, <2>14, <2>15 DEF Reaches
<1> QED
  BY <1>1, PeekInit, PeekNext, PTL DEF Spec
=============================================================================
