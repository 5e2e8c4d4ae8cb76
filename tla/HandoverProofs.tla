--------------------------- MODULE HandoverProofs ---------------------------
(***************************************************************************)
(* Proofs about Handover, for any page size, size of tables, memory map,   *)
(* image and frame buffer that its assumptions admit.  They rest on the    *)
(* invariants of BootMemoryProofs: every step of Handover is one of        *)
(* BootMemory or leaves its variables alone.                               *)
(***************************************************************************)
EXTENDS Handover, BootMemoryProofs

-----------------------------------------------------------------------------
(* The tables.                                                             *)

Tags == {PML4E, PDPE_T, PDPE_M, PDPE_B, PDE_KER, PDE_STA, PDE_MID, PDE_LOW,
         PTE_KER, PTE_STA}

\* What mm_peek adds for the frame buffer.
ScreenEntries == {Big(PDE_MID, k, screen.base + k * Block) :
                    k \in 0..(PeekCount - 1)}

\* Where the tables lead to: table, index, next table.
Leads == {<<PML4E, Top, PDPE_T>>, <<PML4E, Mid, PDPE_M>>, <<PML4E, 0, PDPE_B>>,
          <<PDPE_T, Top - 1, PDE_KER>>, <<PDPE_T, Top, PDE_STA>>,
          <<PDPE_M, 0, PDE_MID>>, <<PDPE_B, 0, PDE_LOW>>,
          <<PDE_KER, 0, PTE_KER>>, <<PDE_STA, Top, PTE_STA>>}

LEMMA Tagged == Tags = 0..9
  BY DEF Tags, PML4E, PDPE_T, PDPE_M, PDPE_B, PDE_KER, PDE_STA, PDE_MID, PDE_LOW,
     PTE_KER, PTE_STA

Apart == \A t, u \in Tags : TableAt(t) = TableAt(u) => t = u

LEMMA TablesApart ==
  ASSUME LayoutInv, FramesInv, Mapped
  PROVE  /\ Apart
         /\ \A t \in Tags : TableAt(t) = pages + t * Page /\ t * Page \in Nat
<1>1. /\ pages \in Nat /\ buf = pages + Tables + image.stack /\ buf < Word
      /\ image.stack \in Nat
  BY ImageFacts DEF LayoutInv, FramesInv, TypeOK, Placed, Planned, Mapped
<1>2. ASSUME NEW t \in Tags
      PROVE  TableAt(t) = pages + t * Page /\ t * Page \in Nat
  <2>1. t * Page \in Nat /\ t * Page < Tables
    BY Tagged, SizeAssumption DEF Tables
  <2>2. pages + t * Page \in Nat /\ pages + t * Page < Word
    BY <1>1, <2>1, SizeAssumption DEF Tables
  <2> QED
    BY <2>1, <2>2, ModSmall, SizeAssumption DEF TableAt, U32
<1>3. Apart
  <2> SUFFICES ASSUME NEW t \in Tags, NEW u \in Tags, TableAt(t) = TableAt(u)
               PROVE  t = u
    BY DEF Apart
  <2>1. t * Page = u * Page
    BY <1>1, <1>2
  <2> QED
    BY <2>1, Tagged, PageStepsDiffer
<1> QED
  BY <1>2, <1>3

\* The entries stage 2 wrote and, maybe, those of the peek.
TabInv == tab = UpperTables \/ tab = UpperTables \cup ScreenEntries

LEMMA LinksAreLeads ==
  ASSUME TabInv, NEW e
  PROVE  e \in tab /\ ~e.big <=> \E l \in Leads : e = Link(l[1], l[2], l[3])
<1>1. ASSUME NEW t, NEW k, NEW n PROVE Link(t, k, n).big = FALSE
  BY DEF Link
<1>2. ASSUME NEW t, NEW k, NEW n PROVE Big(t, k, n).big = TRUE
  BY DEF Big
<1> DEFINE Links == {Link(PML4E, Top, PDPE_T), Link(PML4E, Mid, PDPE_M),
                     Link(PML4E, 0, PDPE_B), Link(PDPE_T, Top - 1, PDE_KER),
                     Link(PDPE_T, Top, PDE_STA), Link(PDPE_M, 0, PDE_MID),
                     Link(PDPE_B, 0, PDE_LOW), Link(PDE_KER, 0, PTE_KER),
                     Link(PDE_STA, Top, PTE_STA)}
<1>3. UpperTables = Links \cup {Big(PDE_LOW, 0, 0)}
  BY DEF UpperTables, TopLinks, LowBlock
<1>4. e \in Links <=> \E l \in Leads : e = Link(l[1], l[2], l[3])
  BY DEF Leads
<1>5. e \in Links => ~e.big
  BY <1>1
<1>6. e \in ScreenEntries => e.big
  BY <1>2 DEF ScreenEntries
<1> HIDE DEF Links
<1> QED
  BY <1>2, <1>3, <1>4, <1>5, <1>6 DEF TabInv

LEMMA DownLeads ==
  ASSUME TabInv, Apart, NEW t \in Tags, NEW k
  PROVE  Down({TableAt(t)}, k) =
           {TableAt(n) : n \in {m \in Tags : <<t, k, m>> \in Leads}}
<1>1. \A l \in Leads : l[1] \in Tags /\ l[3] \in Tags /\ l = <<l[1], l[2], l[3]>>
  BY DEF Leads, Tags
<1>2. ASSUME NEW u, NEW j, NEW n
      PROVE  /\ Link(u, j, n).table = u /\ Link(u, j, n).at = j
             /\ Link(u, j, n).addr = TableAt(n)
  BY DEF Link
<1>3. ASSUME NEW e \in tab, TableAt(e.table) = TableAt(t), e.at = k, ~e.big
      PROVE  \E n \in Tags : <<t, k, n>> \in Leads /\ e.addr = TableAt(n)
  <2>1. PICK l \in Leads : e = Link(l[1], l[2], l[3])
    BY <1>3, LinksAreLeads
  <2>2. l[1] = t /\ l[2] = k
    BY <1>1, <1>2, <1>3, <2>1 DEF Apart
  <2> QED
    BY <1>1, <1>2, <2>1, <2>2
<1>4. ASSUME NEW n \in Tags, <<t, k, n>> \in Leads
      PROVE  \E e \in tab : /\ TableAt(e.table) = TableAt(t) /\ e.at = k /\ ~e.big
                            /\ e.addr = TableAt(n)
  <2> DEFINE l == <<t, k, n>>
             e == Link(l[1], l[2], l[3])
  <2>1. e \in tab /\ ~e.big
    BY <1>4, LinksAreLeads
  <2> QED
    BY <1>2, <2>1
<1> DEFINE Found == {f \in tab : /\ TableAt(f.table) \in {TableAt(t)}
                                 /\ f.at = k /\ ~f.big}
<1>5. Down({TableAt(t)}, k) = {e.addr : e \in Found}
  BY DEF Down
<1>6. ASSUME NEW x PROVE x \in Down({TableAt(t)}, k) <=>
                         \E n \in Tags : <<t, k, n>> \in Leads /\ x = TableAt(n)
  <2>1. x \in Down({TableAt(t)}, k) <=> \E e \in Found : x = e.addr
    BY <1>5
  <2> QED
    BY <1>3, <1>4, <2>1
<1> HIDE DEF Found
<1>7. ASSUME NEW x
      PROVE  x \in {TableAt(n) : n \in {m \in Tags : <<t, k, m>> \in Leads}}
             <=> \E n \in Tags : <<t, k, n>> \in Leads /\ x = TableAt(n)
  OBVIOUS
<1> QED
  BY <1>6, <1>7

LEMMA BigsAre ==
  ASSUME TabInv, NEW e
  PROVE  e \in tab /\ e.big <=> \/ e = Big(PDE_LOW, 0, 0)
                                \/ e \in ScreenEntries /\ e \in tab
<1>1. ASSUME NEW t, NEW k, NEW n PROVE Link(t, k, n).big = FALSE
  BY DEF Link
<1>2. ASSUME NEW t, NEW k, NEW n PROVE Big(t, k, n).big = TRUE
  BY DEF Big
<1> DEFINE Links == {Link(PML4E, Top, PDPE_T), Link(PML4E, Mid, PDPE_M),
                     Link(PML4E, 0, PDPE_B), Link(PDPE_T, Top - 1, PDE_KER),
                     Link(PDPE_T, Top, PDE_STA), Link(PDPE_M, 0, PDE_MID),
                     Link(PDPE_B, 0, PDE_LOW), Link(PDE_KER, 0, PTE_KER),
                     Link(PDE_STA, Top, PTE_STA)}
<1>3. UpperTables = Links \cup {Big(PDE_LOW, 0, 0)}
  BY DEF UpperTables, TopLinks, LowBlock
<1>4. e \in Links => e.big = FALSE
  BY <1>1
<1>5. e \in ScreenEntries => e.big = TRUE
  BY <1>2 DEF ScreenEntries
<1> HIDE DEF Links
<1> QED
  BY <1>2, <1>3, <1>4, <1>5 DEF TabInv

\* Only the directory of low memory, at its first index, and that of the
\* window hold blocks.
LEMMA BlocksFound ==
  ASSUME TabInv, Apart, NEW t \in Tags, NEW k
  PROVE  /\ t \notin {PDE_LOW, PDE_MID} => BlocksAt({TableAt(t)}, k) = {}
         /\ t = PDE_LOW => BlocksAt({TableAt(t)}, k) = IF k = 0 THEN {0} ELSE {}
         /\ t = PDE_MID /\ tab = UpperTables \cup ScreenEntries
                        /\ k \in 0..(PeekCount - 1)
              => BlocksAt({TableAt(t)}, k) = {screen.base + k * Block}
<1> DEFINE Found == {f \in tab : TableAt(f.table) \in {TableAt(t)} /\ f.at = k /\ f.big}
<1>1. BlocksAt({TableAt(t)}, k) = {e.addr : e \in Found}
  BY DEF BlocksAt
<1>2. ASSUME NEW u, NEW j, NEW n
      PROVE  Big(u, j, n).table = u /\ Big(u, j, n).at = j /\ Big(u, j, n).addr = n
  BY DEF Big
<1>3. PDE_LOW \in Tags /\ PDE_MID \in Tags /\ PDE_LOW # PDE_MID
  BY DEF Tags, PDE_LOW, PDE_MID
<1>4. ASSUME NEW e PROVE e \in Found <=> /\ \/ e = Big(PDE_LOW, 0, 0)
                                            \/ e \in ScreenEntries /\ e \in tab
                                         /\ e.table = t /\ e.at = k
  <2>1. e \in Found <=> e \in tab /\ TableAt(e.table) = TableAt(t) /\ e.at = k /\ e.big
    OBVIOUS
  <2>2. e \in ScreenEntries => e.table = PDE_MID
    BY <1>2 DEF ScreenEntries
  <2> HIDE DEF Found
  <2> QED
    BY <1>2, <1>3, <2>1, <2>2, BigsAre DEF Apart
<1> HIDE DEF Found
<1>5. ASSUME t \notin {PDE_LOW, PDE_MID} PROVE Found = {}
  <2>1. \A e \in ScreenEntries : e.table = PDE_MID
    BY <1>2 DEF ScreenEntries
  <2> QED
    BY <1>2, <1>4, <1>5, <2>1
<1>6. ASSUME t = PDE_LOW
      PROVE  Found = IF k = 0 THEN {Big(PDE_LOW, 0, 0)} ELSE {}
  <2>1. \A e \in ScreenEntries : e.table = PDE_MID
    BY <1>2 DEF ScreenEntries
  <2> QED
    BY <1>2, <1>3, <1>4, <1>6, <2>1
<1>7. ASSUME t = PDE_MID, tab = UpperTables \cup ScreenEntries,
             k \in 0..(PeekCount - 1)
      PROVE  Found = {Big(PDE_MID, k, screen.base + k * Block)}
  <2>1. \A e : e \in ScreenEntries =>
               \E j \in 0..(PeekCount - 1) : e = Big(PDE_MID, j, screen.base + j * Block)
    BY DEF ScreenEntries
  <2>2. Big(PDE_MID, k, screen.base + k * Block) \in ScreenEntries
    BY <1>7 DEF ScreenEntries
  <2> QED
    BY <1>2, <1>3, <1>4, <1>7, <2>1, <2>2
<1>8. ASSUME NEW a, Found = {a} PROVE BlocksAt({TableAt(t)}, k) = {a.addr}
  BY <1>1, <1>8
<1>9. t \notin {PDE_LOW, PDE_MID} => BlocksAt({TableAt(t)}, k) = {}
  BY <1>1, <1>5
<1>10. t = PDE_LOW => BlocksAt({TableAt(t)}, k) = IF k = 0 THEN {0} ELSE {}
  <2>1. ASSUME t = PDE_LOW, k = 0 PROVE BlocksAt({TableAt(t)}, k) = {0}
    <3>1. Found = {Big(PDE_LOW, 0, 0)}
      BY <1>6, <2>1
    <3>2. BlocksAt({TableAt(t)}, k) = {Big(PDE_LOW, 0, 0).addr}
      BY <1>8, <3>1
    <3> QED
      BY <1>2, <3>2
  <2>2. ASSUME t = PDE_LOW, k # 0 PROVE BlocksAt({TableAt(t)}, k) = {}
    BY <1>1, <1>6, <2>2
  <2> QED
    BY <2>1, <2>2
<1>11. ASSUME t = PDE_MID, tab = UpperTables \cup ScreenEntries,
              k \in 0..(PeekCount - 1)
       PROVE  BlocksAt({TableAt(t)}, k) = {screen.base + k * Block}
  <2> DEFINE a == screen.base + k * Block
  <2>1. Found = {Big(PDE_MID, k, a)}
    BY <1>7, <1>11
  <2> HIDE DEF a
  <2>2. BlocksAt({TableAt(t)}, k) = {Big(PDE_MID, k, a).addr}
    BY <1>8, <2>1
  <2>3. BlocksAt({TableAt(t)}, k) = {a}
    BY <1>2, <2>2
  <2> QED
    BY <2>3 DEF a
<1> QED
  BY <1>9, <1>10, <1>11

LEMMA Indices == /\ EntryCnt \in Nat /\ EntryCnt >= 4 /\ Mid \in Nat
                 /\ 0 < Mid /\ Mid < Top /\ Top = EntryCnt - 1
<1>1. EntryCnt \in Nat /\ EntryCnt >= 4
  BY SizeAssumption, HandoverAssumption
<1>2. /\ Mid \in Nat /\ EntryCnt % 2 \in 0..(2 - 1)
      /\ EntryCnt = Mid * 2 + (EntryCnt % 2)
  <2>1. 2 \in Nat \ {0}
    OBVIOUS
  <2> QED
    BY <1>1, <2>1, DivMod, Zenon DEF Mid
<1> QED
  BY <1>1, <1>2 DEF Top

\* Every table that is reached from the first, and what lies behind it.
LEMMA Walks ==
  ASSUME TabInv, Apart
  PROVE  /\ Down({TableAt(PML4E)}, 0) = {TableAt(PDPE_B)}
         /\ Down({TableAt(PML4E)}, Mid) = {TableAt(PDPE_M)}
         /\ Down({TableAt(PML4E)}, Top) = {TableAt(PDPE_T)}
         /\ Down({TableAt(PDPE_T)}, Top - 1) = {TableAt(PDE_KER)}
         /\ Down({TableAt(PDPE_T)}, Top) = {TableAt(PDE_STA)}
         /\ Down({TableAt(PDPE_M)}, 0) = {TableAt(PDE_MID)}
         /\ Down({TableAt(PDE_KER)}, 0) = {TableAt(PTE_KER)}
         /\ Down({TableAt(PDE_STA)}, Top) = {TableAt(PTE_STA)}
         /\ \A k : /\ Down({TableAt(PDPE_B)}, k) =
                        IF k = 0 THEN {TableAt(PDE_LOW)} ELSE {}
                   /\ Down({TableAt(PDE_LOW)}, k) = {}
                   /\ Down({TableAt(PDE_MID)}, k) = {}
                   /\ Down({}, k) = {} /\ BlocksAt({}, k) = {}
<1> DEFINE Next3(t, k) == {m \in Tags : <<t, k, m>> \in Leads}
<1>1. /\ Next3(PML4E, 0) = {PDPE_B} /\ Next3(PML4E, Mid) = {PDPE_M}
      /\ Next3(PML4E, Top) = {PDPE_T}
  BY Indices DEF Leads, Tags, PML4E, PDPE_T, PDPE_M, PDPE_B, PDE_KER, PDE_STA,
     PDE_MID, PDE_LOW, PTE_KER, PTE_STA
<1>2. /\ Next3(PDPE_T, Top - 1) = {PDE_KER} /\ Next3(PDPE_T, Top) = {PDE_STA}
      /\ Next3(PDPE_M, 0) = {PDE_MID}
  BY Indices DEF Leads, Tags, PML4E, PDPE_T, PDPE_M, PDPE_B, PDE_KER, PDE_STA,
     PDE_MID, PDE_LOW, PTE_KER, PTE_STA
<1>3. Next3(PDE_KER, 0) = {PTE_KER} /\ Next3(PDE_STA, Top) = {PTE_STA}
  BY Indices DEF Leads, Tags, PML4E, PDPE_T, PDPE_M, PDPE_B, PDE_KER, PDE_STA,
     PDE_MID, PDE_LOW, PTE_KER, PTE_STA
<1>4. \A k : /\ Next3(PDPE_B, k) = IF k = 0 THEN {PDE_LOW} ELSE {}
             /\ Next3(PDE_LOW, k) = {} /\ Next3(PDE_MID, k) = {}
  BY Indices DEF Leads, Tags, PML4E, PDPE_T, PDPE_M, PDPE_B, PDE_KER, PDE_STA,
     PDE_MID, PDE_LOW, PTE_KER, PTE_STA
<1>5. \A t \in Tags : \A k : Down({TableAt(t)}, k) = {TableAt(n) : n \in Next3(t, k)}
  BY DownLeads
<1>6. {PML4E, PDPE_T, PDPE_M, PDPE_B, PDE_KER, PDE_STA, PDE_MID, PDE_LOW} \subseteq Tags
  BY DEF Tags
<1>7. \A k : Down({}, k) = {} /\ BlocksAt({}, k) = {}
  BY DEF Down, BlocksAt
<1> HIDE DEF Next3
<1>8. ASSUME NEW t \in Tags, NEW n, NEW k, Next3(t, k) = {n}
      PROVE  Down({TableAt(t)}, k) = {TableAt(n)}
  BY <1>5, <1>8
<1>9. ASSUME NEW t \in Tags, NEW k, Next3(t, k) = {} PROVE Down({TableAt(t)}, k) = {}
  BY <1>5, <1>9
<1>10. ASSUME NEW k
       PROVE  Down({TableAt(PDPE_B)}, k) = IF k = 0 THEN {TableAt(PDE_LOW)} ELSE {}
  <2>1. CASE k = 0
    BY <1>4, <1>6, <1>8, <2>1
  <2>2. CASE k # 0
    BY <1>4, <1>6, <1>9, <2>2
  <2> QED
    BY <2>1, <2>2
<1>11. \A k : Down({TableAt(PDE_LOW)}, k) = {} /\ Down({TableAt(PDE_MID)}, k) = {}
  BY <1>4, <1>6, <1>9
<1>12. /\ Down({TableAt(PML4E)}, 0) = {TableAt(PDPE_B)}
       /\ Down({TableAt(PML4E)}, Mid) = {TableAt(PDPE_M)}
       /\ Down({TableAt(PML4E)}, Top) = {TableAt(PDPE_T)}
  BY <1>1, <1>6, <1>8
<1>13. /\ Down({TableAt(PDPE_T)}, Top - 1) = {TableAt(PDE_KER)}
       /\ Down({TableAt(PDPE_T)}, Top) = {TableAt(PDE_STA)}
       /\ Down({TableAt(PDPE_M)}, 0) = {TableAt(PDE_MID)}
  BY <1>2, <1>6, <1>8
<1>14. /\ Down({TableAt(PDE_KER)}, 0) = {TableAt(PTE_KER)}
       /\ Down({TableAt(PDE_STA)}, Top) = {TableAt(PTE_STA)}
  BY <1>3, <1>6, <1>8
<1> QED
  BY <1>7, <1>10, <1>11, <1>12, <1>13, <1>14

-----------------------------------------------------------------------------
(* The virtual pages.                                                      *)

\* A walk that ends at a directory.
LEMMA FramesIn ==
  ASSUME NEW i4, NEW i3, NEW i2, NEW i1, NEW d,
         Down(Down({TableAt(PML4E)}, i4), i3) = d
  PROVE  LET pts == Down(d, i2) IN
         /\ pts = {} => Frames(i4, i3, i2, i1) =
                          {b + i1 * Page : b \in BlocksAt(d, i2)}
         /\ pts = {TableAt(PTE_KER)} /\ BlocksAt(d, i2) = {} /\ Apart
              => Frames(i4, i3, i2, i1) =
                   IF i1 \in DOMAIN pteKer THEN {pteKer[i1]} ELSE {}
         /\ pts = {TableAt(PTE_STA)} /\ BlocksAt(d, i2) = {} /\ Apart
              => Frames(i4, i3, i2, i1) =
                   IF i1 \in DOMAIN pteSta THEN {pteSta[i1]} ELSE {}
<1> DEFINE pts == Down(d, i2)
           Last(t, pte) == {pte[k] : k \in {j \in DOMAIN pte :
                                              j = i1 /\ TableAt(t) \in pts}}
<1>1. Frames(i4, i3, i2, i1) = {b + i1 * Page : b \in BlocksAt(d, i2)}
        \cup Last(PTE_KER, pteKer) \cup Last(PTE_STA, pteSta)
  BY DEF Frames
<1> HIDE DEF pts
<1>2. ASSUME NEW t, NEW pte, TableAt(t) \notin pts PROVE Last(t, pte) = {}
  BY <1>2
<1>3. ASSUME NEW t, NEW pte, TableAt(t) \in pts
      PROVE  Last(t, pte) = IF i1 \in DOMAIN pte THEN {pte[i1]} ELSE {}
  BY <1>3
<1>4. Apart => TableAt(PTE_KER) # TableAt(PTE_STA)
  BY DEF Apart, Tags, PTE_KER, PTE_STA
<1> HIDE DEF Last
<1>5. pts = {} => Frames(i4, i3, i2, i1) = {b + i1 * Page : b \in BlocksAt(d, i2)}
  BY <1>1, <1>2
<1>6. pts = {TableAt(PTE_KER)} /\ BlocksAt(d, i2) = {} /\ Apart
        => Frames(i4, i3, i2, i1) =
             IF i1 \in DOMAIN pteKer THEN {pteKer[i1]} ELSE {}
  BY <1>1, <1>2, <1>3, <1>4
<1>7. pts = {TableAt(PTE_STA)} /\ BlocksAt(d, i2) = {} /\ Apart
        => Frames(i4, i3, i2, i1) =
             IF i1 \in DOMAIN pteSta THEN {pteSta[i1]} ELSE {}
  BY <1>1, <1>2, <1>3, <1>4
<1> QED
  BY <1>5, <1>6, <1>7 DEF pts

LEMMA DivZero == ASSUME NEW x \in Nat, NEW d \in Nat \ {0}
                 PROVE  x \div d = 0 <=> x < d
  BY Z3T(30)

LEMMA BlockNat == Block \in Nat \ {0} /\ Block = EntryCnt * Page
                  /\ EntryCnt * Block \in Nat \ {0}
<1>1. Block \in Nat \ {0}
  BY SizeAssumption, Z3T(30) DEF Block
<1>2. EntryCnt * Block \in Nat \ {0}
  BY <1>1, SizeAssumption, Z3T(30)
<1> QED
  BY <1>1, <1>2 DEF Block

\* A low address is mapped to itself if it is in the first block, and nowhere
\* otherwise.
LEMMA LowPages ==
  ASSUME TabInv, Apart, NEW p \in Nat
  PROVE  LowPage(p) = IF p < Block THEN {PageDown(p)} ELSE {}
<1> DEFINE j3 == p \div (EntryCnt * Block)
           j2 == (p \div Block) % EntryCnt
           j1 == (p \div Page) % EntryCnt
<1>1. LowPage(p) = Frames(0, j3, j2, j1)
  BY DEF LowPage
<1>2. j3 = 0 <=> p < EntryCnt * Block
  BY BlockNat, DivZero
<1>3. CASE j3 # 0
  <2>1. Down(Down({TableAt(PML4E)}, 0), j3) = {}
    BY <1>3, Walks
  <2> HIDE DEF j1, j2, j3
  <2>2. Frames(0, j3, j2, j1) = {}
    <3>1. Down({}, j2) = {} /\ BlocksAt({}, j2) = {}
      BY Walks
    <3>2. Frames(0, j3, j2, j1) = {b + j1 * Page : b \in BlocksAt({}, j2)}
      BY <2>1, <3>1, FramesIn
    <3> QED
      BY <3>1, <3>2
  <2>3. ~(p < Block)
    BY <1>2, <1>3, BlockNat, SizeAssumption, Z3T(30)
  <2> QED
    BY <1>1, <2>2, <2>3
<1>4. CASE j3 = 0
  <2>1. Down(Down({TableAt(PML4E)}, 0), j3) = {TableAt(PDE_LOW)}
    BY <1>4, Walks
  <2>2. Frames(0, j3, j2, j1) =
          {b + j1 * Page : b \in BlocksAt({TableAt(PDE_LOW)}, j2)}
    BY <2>1, FramesIn, Walks
  <2>3. BlocksAt({TableAt(PDE_LOW)}, j2) = IF j2 = 0 THEN {0} ELSE {}
    BY BlocksFound DEF Tags
  <2>4. j2 = p \div Block
    <3>1. p < EntryCnt * Block /\ p \div Block \in Nat
      BY <1>2, <1>4, BlockNat, DivMod
    <3>2. p \div Block < EntryCnt
      <4>1. PICK q \in Nat : q = p \div Block
        BY <3>1
      <4>2. q * Block \in Nat /\ q * Block <= p
        <5>0. p = (p \div Block) * Block + (p % Block) /\ p % Block \in 0..(Block - 1)
          BY BlockNat, DivMod
        <5>1. p = q * Block + (p % Block) /\ p % Block \in Nat
          BY <4>1, <5>0, BlockNat
        <5> QED
          BY <5>1, BlockNat
      <4>3. q * Block < EntryCnt * Block
        BY <3>1, <4>2, BlockNat
      <4> QED
        BY <4>1, <4>3, Step, BlockNat, SizeAssumption
    <3> QED
      BY <3>1, <3>2, ModSmall, SizeAssumption
  <2>5. j2 = 0 <=> p < Block
    BY <2>4, DivZero, BlockNat
  <2>6. ASSUME p < Block PROVE {0 + j1 * Page} = {PageDown(p)}
    <3>1. PICK q \in Nat : q = p \div Page
      BY DivMod, SizeAssumption
    <3>2. q * Page \in Nat /\ q * Page <= p
      <4>1. p = q * Page + (p % Page) /\ p % Page \in Nat
        BY <3>1, DivMod, SizeAssumption
      <4> QED
        BY <4>1, SizeAssumption
    <3>3. q * Page < EntryCnt * Page
      BY <2>6, <3>2, BlockNat
    <3>4. q < EntryCnt
      BY <3>3, Step, SizeAssumption
    <3>5. j1 = q
      BY <3>1, <3>4, ModSmall, SizeAssumption
    <3> QED
      BY <3>1, <3>2, <3>5 DEF PageDown
  <2> HIDE DEF j1, j2, j3
  <2>7. CASE p < Block
    BY <1>1, <2>2, <2>3, <2>5, <2>6, <2>7
  <2>8. CASE ~(p < Block)
    BY <1>1, <2>2, <2>3, <2>5, <2>8
  <2> QED
    BY <2>7, <2>8
<1> QED
  BY <1>3, <1>4

LEMMA ImagePages ==
  ASSUME TabInv, Apart, NEW v
  PROVE  ImagePage(v) = IF v \in DOMAIN pteKer THEN {pteKer[v]} ELSE {}
<1>1. Down(Down({TableAt(PML4E)}, Top), Top - 1) = {TableAt(PDE_KER)}
  BY Walks
<1>2. Down({TableAt(PDE_KER)}, 0) = {TableAt(PTE_KER)}
  BY Walks
<1>3. BlocksAt({TableAt(PDE_KER)}, 0) = {}
  <2>1. PDE_KER \in Tags /\ PDE_KER \notin {PDE_LOW, PDE_MID}
    BY DEF Tags, PDE_KER, PDE_LOW, PDE_MID
  <2> QED
    BY <2>1, BlocksFound
<1> QED
  BY <1>1, <1>2, <1>3, FramesIn DEF ImagePage

LEMMA StackPages ==
  ASSUME TabInv, Apart, NEW v
  PROVE  StackPage(v) = IF v \in DOMAIN pteSta THEN {pteSta[v]} ELSE {}
<1>1. Down(Down({TableAt(PML4E)}, Top), Top) = {TableAt(PDE_STA)}
  BY Walks
<1>2. Down({TableAt(PDE_STA)}, Top) = {TableAt(PTE_STA)}
  BY Walks
<1>3. BlocksAt({TableAt(PDE_STA)}, Top) = {}
  <2>1. PDE_STA \in Tags /\ PDE_STA \notin {PDE_LOW, PDE_MID}
    BY DEF Tags, PDE_STA, PDE_LOW, PDE_MID
  <2> QED
    BY <2>1, BlocksFound
<1> QED
  BY <1>1, <1>2, <1>3, FramesIn DEF StackPage

\* Quotient and remainder are the only ones there are.
LEMMA DivModUnique ==
  ASSUME NEW d \in Nat \ {0}, NEW q \in Nat, NEW r \in 0..(d - 1)
  PROVE  (q * d + r) % d = r /\ (q * d + r) \div d = q
<1> DEFINE x == q * d + r
<1>1. x \in Nat
  OBVIOUS
<1>2. PICK p \in Nat, s \in 0..(d - 1) :
         p = x \div d /\ s = x % d /\ x = p * d + s
  BY <1>1, DivMod
<1>3. p * d + s = q * d + r
  BY <1>2
<1>4. p = q
  BY <1>3, Z3T(30)
<1> QED
  BY <1>2, <1>3, <1>4

LEMMA DivModPick == ASSUME NEW x \in Nat, NEW d \in Nat \ {0}
                    PROVE  \E q \in Nat : \E r \in 0..(d - 1) :
                              q = x \div d /\ r = x % d /\ x = q * d + r
<1>1. /\ x \div d \in Nat /\ x % d \in 0..(d - 1)
      /\ x = (x \div d) * d + (x % d)
  BY DivMod
<1>2. \E q : \E r : q = x \div d /\ r = x % d
  OBVIOUS
<1> QED
  BY <1>1, <1>2, Zenon

\* A block's entries cover its pages one by one.
LEMMA PageInBlock ==
  ASSUME NEW m \in Nat, NEW n \in Nat, NEW j \in 0..(EntryCnt - 1),
         NEW s \in 0..(Page - 1), NEW o \in Nat, NEW a \in Nat,
         o = n * Block + j * Page + s, a = m * Block + o
  PROVE  /\ (o \div Page) % EntryCnt = j
         /\ PageDown(a) = m * Block + n * Block + j * Page
<1>1. ASSUME NEW c \in Nat
      PROVE  /\ c * Block = (c * EntryCnt) * Page /\ c * EntryCnt \in Nat
             /\ (c * EntryCnt + j) * Page = (c * EntryCnt) * Page + j * Page
  <2>1. c * EntryCnt \in Nat
    BY SizeAssumption
  <2>2. c * (EntryCnt * Page) = (c * EntryCnt) * Page
    BY SizeAssumption, Associate
  <2>3. PICK x \in Nat : x = c * EntryCnt
    BY <2>1
  <2>4. (x + j) * Page = x * Page + j * Page
    BY SizeAssumption, Z3T(30)
  <2> QED
    BY <2>1, <2>2, <2>3, <2>4, BlockNat
<1>2. PICK x \in Nat : /\ x = n * EntryCnt /\ n * Block = x * Page
                       /\ (x + j) * Page = x * Page + j * Page
  BY <1>1
<1>3. PICK y \in Nat : y = x + j
  BY SizeAssumption
<1>4. o = y * Page + s
  BY <1>2, <1>3
<1>5. o \div Page = y
  BY <1>4, DivModUnique, SizeAssumption
<1>6. (n * EntryCnt + j) % EntryCnt = j
  BY DivModUnique, SizeAssumption
<1>7. (o \div Page) % EntryCnt = j
  BY <1>2, <1>3, <1>5, <1>6
<1>8. PICK z \in Nat : z = m * EntryCnt /\ m * Block = z * Page
  BY <1>1
<1>9. PICK w \in Nat : w = z + y
  OBVIOUS
<1>10. w * Page = z * Page + y * Page
  BY <1>9, SizeAssumption, Z3T(30)
<1>11. z * Page \in Nat /\ y * Page \in Nat
  BY SizeAssumption
<1>12. a = w * Page + s
  BY <1>4, <1>8, <1>10, <1>11
<1>13. a \div Page = w
  BY <1>12, DivModUnique, SizeAssumption
<1>14. PageDown(a) = z * Page + y * Page
  BY <1>10, <1>13 DEF PageDown
<1>15. x * Page \in Nat /\ j * Page \in Nat /\ y * Page = x * Page + j * Page
  BY <1>2, <1>3, SizeAssumption
<1>16. PageDown(a) = m * Block + n * Block + j * Page
  BY <1>2, <1>8, <1>11, <1>14, <1>15
<1> QED
  BY <1>7, <1>16

LEMMA ScreenFacts ==
  ASSUME NEW s \in Screens
  PROVE  /\ s.base \in Nat /\ s.size \in Nat \ {0}
         /\ \E m \in Nat : s.base = m * Block
<1>1. s.base \in Nat /\ s.base % Block = 0 /\ s.size \in 1..(EntryCnt * Block)
  BY HandoverAssumption
<1>2. PICK m \in Nat, r \in 0..(Block - 1) :
        m = s.base \div Block /\ r = s.base % Block /\ s.base = m * Block + r
  BY <1>1, BlockNat, DivModPick
<1>3. m * Block \in Nat /\ r = 0
  BY <1>1, <1>2, BlockNat
<1>4. s.base = m * Block
  BY <1>2, <1>3
<1>5. s.size \in Nat \ {0}
  BY <1>1, BlockNat
<1> QED
  BY <1>1, <1>4, <1>5

LEMMA PeekPages ==
  ASSUME tab = UpperTables \cup ScreenEntries, Apart, screen \in Screens,
         NEW o \in 0..(screen.size - 1)
  PROVE  PeekPage(o) = {PageDown(screen.base + o)}
<1>1. PICK m \in Nat : screen.base = m * Block /\ m * Block \in Nat
  BY ScreenFacts
<1>2. PICK n \in Nat, r \in 0..(Block - 1) :
        n = o \div Block /\ r = o % Block /\ o = n * Block + r
  <2>1. o \in Nat
    BY ScreenFacts
  <2> QED
    BY <2>1, BlockNat, DivModPick
<1>3. PICK j \in Nat, s \in 0..(Page - 1) :
        j = r \div Page /\ s = r % Page /\ r = j * Page + s
  <2>1. r \in Nat
    BY BlockNat
  <2> QED
    BY <2>1, SizeAssumption, DivModPick
<1>4. j \in 0..(EntryCnt - 1)
  <2>1. j * Page \in Nat /\ j * Page < EntryCnt * Page
    BY <1>3, BlockNat, SizeAssumption
  <2>2. j < EntryCnt
    BY <2>1, Step, SizeAssumption
  <2> QED
    BY <2>2, SizeAssumption
<1>5. n * Block \in Nat /\ j * Page \in Nat
  BY BlockNat, SizeAssumption
<1>6. /\ (o \div Page) % EntryCnt = j
      /\ PageDown(screen.base + o) = m * Block + n * Block + j * Page
  <2>1. o \in Nat /\ o = n * Block + j * Page + s
    BY <1>2, <1>3, <1>5, ScreenFacts, SizeAssumption
  <2>2. screen.base + o \in Nat /\ screen.base + o = m * Block + o
    BY <1>1, <2>1
  <2> QED
    BY <1>4, <2>1, <2>2, PageInBlock
<1>7. n \in 0..(PeekCount - 1)
  <2> DEFINE z == screen.size + Block - 1
  <2>1. z \in Nat /\ z = screen.size + Block - 1
    BY ScreenFacts, BlockNat
  <2>2. PeekCount = z \div Block
    BY DEF PeekCount
  <2> HIDE DEF z
  <2>3. /\ PeekCount \in Nat /\ z % Block \in 0..(Block - 1)
        /\ z = PeekCount * Block + (z % Block)
    BY <2>1, <2>2, BlockNat, DivMod
  <2>4. PICK c \in Nat : c = PeekCount
    BY <2>3
  <2>5. c * Block \in Nat
    BY BlockNat
  <2>6. screen.size <= c * Block
    BY <2>1, <2>3, <2>4, <2>5, BlockNat, ScreenFacts
  <2>7. n * Block < c * Block
    <3>1. o < screen.size /\ o \in Nat /\ screen.size \in Nat
      BY ScreenFacts
    <3>2. n * Block <= o
      BY <1>2, <1>5, <3>1, BlockNat
    <3> QED
      BY <1>5, <2>5, <2>6, <3>1, <3>2
  <2>8. n < c
    BY <2>7, Step, BlockNat
  <2> QED
    BY <2>4, <2>8
<1>8. TabInv /\ PDE_MID \in Tags
  BY DEF TabInv, Tags
<1>9. BlocksAt({TableAt(PDE_MID)}, n) = {screen.base + n * Block}
  BY <1>7, <1>8, BlocksFound
<1>10. Frames(Mid, 0, n, j) = {b + j * Page : b \in BlocksAt({TableAt(PDE_MID)}, n)}
  <2>1. Down(Down({TableAt(PML4E)}, Mid), 0) = {TableAt(PDE_MID)}
    BY <1>8, Walks
  <2>2. Down({TableAt(PDE_MID)}, n) = {}
    BY <1>8, Walks
  <2> QED
    BY <2>1, <2>2, FramesIn
<1>11. PeekPage(o) = Frames(Mid, 0, n, j)
  BY <1>2, <1>6 DEF PeekPage
<1>12. PeekPage(o) = {(screen.base + n * Block) + j * Page}
  BY <1>9, <1>10, <1>11
<1> QED
  BY <1>1, <1>5, <1>6, <1>12

-----------------------------------------------------------------------------
(* The steps.                                                              *)

\* Every step of Handover is one of BootMemory, or leaves its variables alone.
LEMMA StepsAreSteps == HandoverNext => [Next]_vars
  BY DEF HandoverNext, OtherStep, BuildAllTables, FillLmData, EnablePaging,
     JumpToKernel, StartKernel, PeekFaults, PeekScreen, Next

Told == pc \in {"start", "mm_init", "kernel"}

HandInv ==
  /\ screen \in Screens
  /\ cpu \in {"stage2", "paged", "kernel", "fault", "peeked"}
  /\ cpu # "stage2" => Told
  /\ Mapped => tab = IF cpu = "peeked" THEN UpperTables \cup ScreenEntries
                                       ELSE UpperTables
  /\ Told => /\ lm_data.peek_entry = TableAt(PDE_MID)
             /\ lm_data.framebuf_ptr = screen.base
  /\ cpu = "fault" => pages + PDE_MID * Page >= Block

AllInv == LayoutInv /\ FramesInv /\ ImageInv /\ HandInv

\* The tables stay where they are.
LEMMA SamePages ==
  ASSUME pages' = pages, screen' = screen
  PROVE  /\ UpperTables' = UpperTables /\ ScreenEntries' = ScreenEntries
         /\ \A t : TableAt(t)' = TableAt(t)
  BY DEF UpperTables, ScreenEntries, TopLinks, LowBlock, Link, Big, TableAt, U32,
     PeekCount, Block

\* Where the directory for the window is, and what mm_peek finds there.
LEMMA PeekEntry ==
  ASSUME AllInv, Told, cpu # "peeked"
  PROVE  LET e == lm_data.peek_entry IN
         /\ e = TableAt(PDE_MID) /\ e = pages + PDE_MID * Page
         /\ LowPage(e) = IF e < Block THEN {e} ELSE {}
<1>1. Mapped /\ TabInv /\ Apart
  <2>1. Mapped
    BY DEF Told, Mapped
  <2> QED
    BY <2>1, TablesApart DEF AllInv, HandInv, TabInv
<1>2. TableAt(PDE_MID) = pages + PDE_MID * Page /\ PDE_MID \in Tags
  BY <1>1, TablesApart DEF AllInv, Tags
<1>3. PICK n \in Nat : pages + PDE_MID * Page = n * Page
  <2>1. PICK q \in Nat : load_buf = q * Page
    BY DEF AllInv, ImageInv, Placed, Planned, Told
  <2>2. PICK g \in Nat : image.size = g * Page
    BY ImageFacts DEF AllInv, LayoutInv, TypeOK
  <2>3. pages = load_buf + image.size
    BY DEF AllInv, LayoutInv, Placed, Planned, Told
  <2>4. (q + g + 6) * Page = q * Page + g * Page + 6 * Page
    BY SizeAssumption, Z3T(30)
  <2>5. q + g + 6 \in Nat
    OBVIOUS
  <2> QED
    BY <2>1, <2>2, <2>3, <2>4, <2>5 DEF PDE_MID
<1>4. n * Page \in Nat /\ PageDown(n * Page) = n * Page
  <2>1. n * Page \in Nat /\ (n * Page + 0) \div Page = n /\ n * Page + 0 = n * Page
    BY SizeAssumption, DivModUnique
  <2> QED
    BY <2>1 DEF PageDown
<1>5. PICK e \in Nat : e = n * Page
  BY <1>4
<1>6. LowPage(e) = IF e < Block THEN {e} ELSE {}
  BY <1>1, <1>4, <1>5, LowPages
<1> QED
  BY <1>2, <1>3, <1>5, <1>6 DEF AllInv, HandInv

LEMMA HandInit == HandoverInit => AllInv
<1>1. Init => ImageInv
  BY DEF Init, ImageInv, Placed, Planned, Mapped
<1> QED
  BY <1>1, LayoutInit, FramesInit
  DEF HandoverInit, AllInv, HandInv, Told, Mapped, Init

LEMMA HandNext == AllInv /\ [HandoverNext]_hvars => AllInv'
<1> SUFFICES ASSUME AllInv, [HandoverNext]_hvars PROVE AllInv'
  OBVIOUS
<1>1. LayoutInv' /\ FramesInv' /\ ImageInv'
  <2>1. [Next]_vars
    BY StepsAreSteps DEF hvars
  <2> QED
    BY <2>1, LayoutNext, FramesNext, ImageNext DEF AllInv
<1>2. CASE OtherStep /\ ~Mapped'
  <2>1. ~Told /\ ~Told' /\ UNCHANGED <<tab, lm_data, cpu, screen>>
    BY <1>2 DEF OtherStep, Told, Mapped, SkipRegion, TakeRegion,
       NoMemory, Layout, ClearTables, ClearForever, LoadSector, TrimRegion, MapReady
  <2> QED
    BY <1>1, <1>2, <2>1 DEF AllInv, HandInv
<1>3. CASE OtherStep /\ Mapped'
  <2>1. /\ pages' = pages /\ Mapped /\ (Told' <=> Told)
        /\ UNCHANGED <<tab, lm_data, cpu, screen>>
    BY <1>3 DEF OtherStep, AllInv, HandInv, Told, Mapped, SkipRegion, TakeRegion,
       NoMemory, Layout, ClearTables, ClearForever, LoadSector, TrimRegion,
       MapReady, layout
  <2> QED
    BY <1>1, <2>1, SamePages DEF AllInv, HandInv
<1>4. CASE BuildAllTables
  <2>1. /\ pages' = pages /\ screen' = screen /\ pc' = "load" /\ pc = "tables"
        /\ cpu' = cpu /\ tab' = UpperTables
    BY <1>4 DEF BuildAllTables, BuildTables, layout
  <2>2. UpperTables' = UpperTables
    BY <2>1, SamePages
  <2> QED
    BY <1>1, <2>1, <2>2 DEF AllInv, HandInv, Told
<1>5. CASE FillLmData
  <2>1. /\ pages' = pages /\ screen' = screen /\ pc' = "start" /\ pc = "load"
        /\ cpu' = cpu /\ tab' = tab /\ lm_data'.peek_entry = TableAt(PDE_MID)
        /\ lm_data'.framebuf_ptr = screen.base
    BY <1>5 DEF FillLmData, Run, layout, ToldPeekEntry
  <2>2. UpperTables' = UpperTables /\ TableAt(PDE_MID)' = TableAt(PDE_MID)
    BY <2>1, SamePages
  <2> QED
    BY <1>1, <2>1, <2>2 DEF AllInv, HandInv, Told, Mapped
<1>6. CASE EnablePaging \/ JumpToKernel \/ StartKernel
  <2>1. /\ pages' = pages /\ UNCHANGED <<tab, lm_data, screen>>
        /\ Told /\ Told' /\ Mapped
        /\ cpu \notin {"peeked", "fault"} /\ cpu' \in {"paged", "kernel"}
    BY <1>6 DEF EnablePaging, JumpToKernel, StartKernel, ClearBss, AllInv, HandInv,
       Told, Mapped, vars, layout
  <2>2. UpperTables' = UpperTables /\ TableAt(PDE_MID)' = TableAt(PDE_MID)
    BY <2>1, SamePages
  <2> QED
    BY <1>1, <2>1, <2>2 DEF AllInv, HandInv
<1>7. CASE PeekFaults
  <2>1. /\ Told /\ Told' /\ Mapped /\ cpu # "peeked" /\ cpu' = "fault"
        /\ pages' = pages /\ UNCHANGED <<tab, lm_data, screen>>
        /\ LowPage(lm_data.peek_entry) = {}
    BY <1>7 DEF PeekFaults, Told, Mapped, vars
  <2>2. ~(lm_data.peek_entry < Block) /\ lm_data.peek_entry = pages + PDE_MID * Page
    BY <2>1, PeekEntry
  <2>3. pages + PDE_MID * Page >= Block
    <3>1. pages \in Nat
      BY DEF AllInv, LayoutInv, TypeOK
    <3> QED
      BY <2>2, <3>1, BlockNat, SizeAssumption DEF PDE_MID
  <2>4. UpperTables' = UpperTables /\ TableAt(PDE_MID)' = TableAt(PDE_MID)
    BY <2>1, SamePages
  <2> QED
    BY <1>1, <2>1, <2>3, <2>4 DEF AllInv, HandInv
<1>8. CASE PeekScreen
  <2> DEFINE Hit == {u \in 0..7 : TableAt(u) \in LowPage(lm_data.peek_entry)}
  <2>1. /\ Told /\ Told' /\ Mapped /\ cpu = "kernel" /\ cpu' = "peeked"
        /\ pages' = pages /\ UNCHANGED <<lm_data, screen>>
        /\ LowPage(lm_data.peek_entry) # {}
        /\ tab' = tab \cup {Big(t, k, lm_data.framebuf_ptr + k * Block) :
                              t \in Hit, k \in 0..(PeekCount - 1)}
    BY <1>8 DEF PeekScreen, Told, Mapped, vars
  <2>2. LowPage(lm_data.peek_entry) = {TableAt(PDE_MID)}
    BY <2>1, PeekEntry
  <2>3. Hit = {PDE_MID}
    <3>1. Apart
      BY <2>1, TablesApart DEF AllInv
    <3>2. 0..7 \subseteq Tags /\ PDE_MID \in 0..7 /\ PDE_MID \in Tags
      BY Tagged DEF PDE_MID
    <3> QED
      BY <2>2, <3>1, <3>2 DEF Apart
  <2> HIDE DEF Hit
  <2>4. lm_data.framebuf_ptr = screen.base /\ tab = UpperTables
    BY <2>1 DEF AllInv, HandInv
  <2>5. tab' = UpperTables \cup ScreenEntries
    BY <2>1, <2>3, <2>4 DEF ScreenEntries
  <2>6. /\ UpperTables' = UpperTables /\ TableAt(PDE_MID)' = TableAt(PDE_MID)
        /\ ScreenEntries' = ScreenEntries
    BY <2>1, SamePages
  <2> QED
    BY <1>1, <2>1, <2>5, <2>6 DEF AllInv, HandInv
<1>9. CASE UNCHANGED hvars
  <2>1. pages' = pages /\ pc' = pc /\ UNCHANGED <<tab, lm_data, cpu, screen>>
    BY <1>9 DEF hvars, vars, layout
  <2> QED
    BY <1>1, <2>1, SamePages DEF AllInv, HandInv, Told, Mapped
<1> QED
  BY <1>2, <1>3, <1>4, <1>5, <1>6, <1>7, <1>8, <1>9 DEF HandoverNext

LEMMA TablesKnown ==
  ASSUME AllInv, cpu # "stage2"
  PROVE  Mapped /\ TabInv /\ Apart /\ screen \in Screens
<1>1. Mapped
  BY DEF AllInv, HandInv, Told, Mapped
<1> QED
  BY <1>1, TablesApart DEF AllInv, HandInv, TabInv

\* The boot with its hand-over is a boot of BootMemory: what the theorems of
\* BootMemoryProofs say of the layout, the image and the free memory holds in it.
THEOREM HandoverIsBoot == HandoverSpec => Init /\ [][Next]_vars
<1>1. HandoverInit => Init
  BY DEF HandoverInit
<1>2. [HandoverNext]_hvars => [Next]_vars
  BY StepsAreSteps DEF hvars
<1> QED
  BY <1>1, <1>2, PTL DEF HandoverSpec

\* Whatever the memory map and the image: from the instruction that turns
\* paging on, low memory is where it was, and stays there when the kernel's
\* main maps the frame buffer.
THEOREM LowMemoryIsMapped == HandoverSpec => []LowMemoryStays
<1>1. AllInv => LowMemoryStays
  <2> SUFFICES ASSUME AllInv, cpu # "stage2", NEW p \in 0..(LowMem - 1)
               PROVE  LowPage(p) = {PageDown(p)}
    BY DEF LowMemoryStays
  <2>1. p \in Nat /\ p < Block
    BY SizeAssumption, HandoverAssumption, BlockNat
  <2> QED
    BY <2>1, TablesKnown, LowPages
<1> QED
  BY <1>1, HandInit, HandNext, PTL DEF HandoverSpec

\* Whatever the memory map and the image, the kernel's image and its stack are
\* where it was linked to find them.
THEOREM KernelIsMapped == HandoverSpec => []KernelInItsPlace
<1>1. AllInv => KernelInItsPlace
  <2> SUFFICES ASSUME AllInv, cpu # "stage2" PROVE KernelInItsPlace
    BY DEF KernelInItsPlace
  <2>1. Mapped /\ TabInv /\ Apart
    BY TablesKnown
  <2>2. /\ image.size \in Nat /\ image.stack \in Nat
        /\ image.size = PageCnt(image.size) * Page /\ PageCnt(image.size) \in Nat
        /\ pages = load_buf + image.size /\ buf = stack + image.stack
        /\ load_buf \in Nat /\ stack \in Nat /\ buf \in Nat
        /\ PageCnt(image.stack) \in Nat
    BY <2>1, ImageFacts DEF AllInv, LayoutInv, TypeOK, Placed, Planned, Mapped
  <2>3. DOMAIN pteKer = 0..(PageCnt(image.size) - 1)
    <3>1. pages - load_buf = image.size
      BY <2>2
    <3> QED
      BY <2>1, <3>1 DEF AllInv, FramesInv, KernelFrames
  <2>4. ASSUME NEW v \in 0..Top
        PROVE  ImagePage(v) = IF v * Page < image.size THEN {load_buf + v * Page}
                                                       ELSE {}
    <3>1. v \in Nat
      BY Indices
    <3>2. v \in DOMAIN pteKer <=> v < PageCnt(image.size)
      BY <2>2, <2>3, <3>1
    <3>3. v < PageCnt(image.size) <=> v * Page < image.size
      <4>1. PICK c \in Nat : c = PageCnt(image.size) /\ image.size = c * Page
        BY <2>2
      <4>2. v < c <=> v * Page < c * Page
        BY <3>1, SizeAssumption, Z3T(30)
      <4> QED
        BY <4>1, <4>2
    <3>4. v \in DOMAIN pteKer => pteKer[v] = load_buf + v * Page
      BY <2>1, KernelFrame DEF AllInv
    <3> QED
      BY <2>1, <3>2, <3>3, <3>4, ImagePages
  <2>5. ASSUME NEW k \in (EntryCnt - PageCnt(image.stack))..Top
        PROVE  \E p \in stack..buf : StackPage(k) = {p}
    <3>1. k \in DOMAIN pteSta
      BY <2>1, Indices DEF AllInv, FramesInv, StackFrames, Top
    <3>2. stack <= pteSta[k] /\ pteSta[k] <= buf /\ pteSta[k] \in Int
      BY <2>1, <2>2, <3>1, StackFrame, SizeAssumption DEF AllInv
    <3> QED
      BY <2>1, <2>2, <3>1, <3>2, StackPages
  <2> QED
    BY <2>4, <2>5 DEF KernelInItsPlace
<1> QED
  BY <1>1, HandInit, HandNext, PTL DEF HandoverSpec

\* Whatever the memory map and the frame buffer (blocks of it, of at most the
\* window's size), the kernel's main maps all of it, or faults because stage 2
\* put the directory for it beyond the first block.
THEOREM ScreenIsMapped == HandoverSpec => []PeekReachesScreen
<1>1. AllInv => PeekReachesScreen
  <2> SUFFICES ASSUME AllInv PROVE PeekReachesScreen
    OBVIOUS
  <2>1. ASSUME cpu = "peeked"
        PROVE  \A o \in 0..(screen.size - 1) : PeekPage(o) = {PageDown(screen.base + o)}
    <3>1. Mapped /\ Apart /\ screen \in Screens
      BY <2>1, TablesKnown
    <3>2. tab = UpperTables \cup ScreenEntries
      BY <2>1, <3>1 DEF AllInv, HandInv
    <3> QED
      BY <3>1, <3>2, PeekPages
  <2> QED
    BY <2>1 DEF PeekReachesScreen, AllInv, HandInv
<1> QED
  BY <1>1, HandInit, HandNext, PTL DEF HandoverSpec

-----------------------------------------------------------------------------
(* The boot goes forward: it is lost above 4 GB only, and nothing else in  *)
(* it goes on for ever.                                                    *)

\* How far the loops are, and where main, run and the kernel are meanwhile.
WayInv ==
  /\ pc = "alloc" => i <= Len(e820)
  /\ pc = "load" => i <= FileSectors
  /\ pc = "mm_init" => i <= Len(e820) /\ cpu = "kernel"
  /\ pc = "kernel" => cpu # "paged"
  /\ pc = "lost" => buf >= Word
  /\ cpu = "paged" => pc = "start"
  /\ cpu \in {"fault", "peeked"} => pc = "kernel"

Ahead == [alloc |-> 8, layout |-> 7, clear |-> 6, tables |-> 5, load |-> 4,
          start |-> 3, mm_init |-> 2, kernel |-> 1, halted |-> 0, lost |-> 0]
CpuAhead == [stage2 |-> 3, paged |-> 2, kernel |-> 1, fault |-> 0, peeked |-> 0]

\* The turns that are left of the three loops.
RegionsLeft == IF pc = "alloc" THEN Len(e820) - i ELSE 0
SectorsLeft == IF pc \in {"alloc", "layout", "clear", "tables"} THEN FileSectors
               ELSE IF pc = "load" THEN FileSectors - i ELSE 0
TrimsLeft == IF pc \in {"alloc", "layout", "clear", "tables", "load", "start"}
             THEN Len(e820)
             ELSE IF pc = "mm_init" THEN Len(e820) - i ELSE 0
BootLeft == Ahead[pc] + CpuAhead[cpu] + RegionsLeft + SectorsLeft + TrimsLeft

LEMMA WayFacts ==
  ASSUME AllInv
  PROVE  /\ i \in Nat /\ Len(e820) \in Nat /\ FileSectors \in Nat
         /\ pc \in DOMAIN Ahead /\ cpu \in DOMAIN CpuAhead
<1>1. i \in Nat /\ Len(e820) \in Nat /\ image \in Images
  BY DEF AllInv, LayoutInv, TypeOK
<1>2. image.load \in Nat /\ Sector \in Nat \ {0}
  BY <1>1, InputAssumption, SizeAssumption DEF Image
<1>3. \A x \in Nat, d \in Nat \ {0} : (x + d - 1) \div d \in Nat
  OBVIOUS
<1>4. FileSectors \in Nat
  BY <1>2, <1>3 DEF FileSectors
<1>5. pc \in DOMAIN Ahead
  BY DEF AllInv, LayoutInv, TypeOK, Ahead
<1>6. cpu \in DOMAIN CpuAhead
  BY DEF AllInv, HandInv, CpuAhead
<1> QED
  BY <1>1, <1>4, <1>5, <1>6

\* What a step does to the place main, run or the kernel is at.
BootStep ==
  \/ pc = "alloc" /\ pc' = "alloc" /\ cpu' = cpu /\ i' = i + 1 /\ i < Len(e820)
  \/ pc = "alloc" /\ pc' \in {"layout", "halted"} /\ cpu' = cpu
  \/ pc = "layout" /\ pc' = "clear" /\ cpu' = cpu
  \/ pc = "clear" /\ pc' = "tables" /\ cpu' = cpu
  \/ pc = "clear" /\ pc' = "lost" /\ cpu' = cpu /\ buf' = buf /\ buf >= Word
  \/ pc = "tables" /\ pc' = "load" /\ cpu' = cpu /\ i' = 0
  \/ pc = "load" /\ pc' = "load" /\ cpu' = cpu /\ i' = i + 1 /\ i < FileSectors
  \/ pc = "load" /\ pc' = "start" /\ cpu' = cpu
  \/ pc = "start" /\ pc' = "start" /\ cpu = "stage2" /\ cpu' = "paged"
  \/ cpu = "paged" /\ cpu' = "kernel" /\ pc' = pc
  \/ pc = "start" /\ pc' = "mm_init" /\ cpu = "kernel" /\ cpu' = cpu /\ i' = 0
  \/ pc = "mm_init" /\ pc' = "mm_init" /\ cpu' = cpu /\ i' = i + 1 /\ i < Len(e820)
  \/ pc = "mm_init" /\ pc' = "kernel" /\ cpu' = cpu
  \/ pc = "kernel" /\ pc' = pc /\ cpu = "kernel" /\ cpu' \in {"fault", "peeked"}

LEMMA BootGoesOn ==
  ASSUME AllInv, HandoverNext
  PROVE  BootStep /\ Len(e820') = Len(e820) /\ FileSectors' = FileSectors
<1>1. e820 \in Seq(Entry)
  BY DEF AllInv, LayoutInv, TypeOK
<1>2. image' = image
  <2>1. [Next]_vars
    BY StepsAreSteps
  <2> QED
    BY <2>1 DEF Next, SkipRegion, TakeRegion, NoMemory, Layout, ClearTables,
       ClearForever, BuildTables, LoadSector, Run, ClearBss, TrimRegion, MapReady,
       vars
<1>3. FileSectors' = FileSectors
  BY <1>2 DEF FileSectors
<1>4. CASE SkipRegion /\ cpu' = cpu
  BY <1>3, <1>4 DEF SkipRegion, BootStep
<1>5. CASE (TakeRegion \/ NoMemory \/ Layout \/ ClearTables) /\ cpu' = cpu
  BY <1>3, <1>5 DEF TakeRegion, NoMemory, Layout, ClearTables, BootStep
<1>6. CASE ClearForever /\ cpu' = cpu
  BY <1>3, <1>6 DEF ClearForever, BootStep, layout
<1>7. CASE LoadSector /\ cpu' = cpu
  BY <1>3, <1>7 DEF LoadSector, BootStep
<1>8. CASE TrimRegion /\ cpu' = cpu
  <2>1. Len(e820') = Len(e820)
    BY <1>1, <1>8 DEF TrimRegion
  <2> QED
    BY <1>3, <1>8, <2>1 DEF TrimRegion, BootStep
<1>9. CASE MapReady /\ cpu' = cpu
  BY <1>3, <1>9 DEF MapReady, BootStep
<1>10. CASE BuildAllTables \/ FillLmData
  BY <1>3, <1>10 DEF BuildAllTables, BuildTables, FillLmData, Run, BootStep
<1>11. CASE EnablePaging \/ JumpToKernel \/ PeekFaults \/ PeekScreen
  BY <1>3, <1>11 DEF EnablePaging, JumpToKernel, PeekFaults, PeekScreen, BootStep,
     vars
<1>12. CASE StartKernel
  BY <1>3, <1>12 DEF StartKernel, ClearBss, BootStep
<1> QED
  BY <1>4, <1>5, <1>6, <1>7, <1>8, <1>9, <1>10, <1>11, <1>12
  DEF HandoverNext, OtherStep

LEMMA WayInit == HandoverInit => WayInv
<1> SUFFICES ASSUME HandoverInit PROVE WayInv
  OBVIOUS
<1>1. Len(e820) \in Nat
  BY InputAssumption DEF HandoverInit, Init
<1> QED
  BY <1>1 DEF HandoverInit, Init, WayInv

LEMMA WayNext ==
  ASSUME AllInv, WayInv, [HandoverNext]_hvars
  PROVE  WayInv'
<1>1. CASE HandoverNext
  <2>1. BootStep /\ Len(e820') = Len(e820) /\ FileSectors' = FileSectors
    BY <1>1, BootGoesOn
  <2>2. i \in Nat /\ Len(e820) \in Nat /\ FileSectors \in Nat
    BY WayFacts
  <2>3. /\ pc' = "alloc" => i' <= Len(e820')
        /\ pc' = "load" => i' <= FileSectors'
        /\ pc' = "mm_init" => i' <= Len(e820')
    BY <2>1, <2>2 DEF BootStep, WayInv
  <2>4. /\ pc' = "mm_init" => cpu' = "kernel"
        /\ pc' = "kernel" => cpu' # "paged"
        /\ cpu' = "paged" => pc' = "start"
        /\ cpu' \in {"fault", "peeked"} => pc' = "kernel"
    BY <2>1 DEF BootStep, WayInv
  <2>5. pc' = "lost" => buf' >= Word
    BY <2>1 DEF BootStep, WayInv
  <2> QED
    BY <2>3, <2>4, <2>5 DEF WayInv
<1>2. CASE UNCHANGED hvars
  BY <1>2 DEF hvars, vars, layout, WayInv, FileSectors
<1> QED
  BY <1>1, <1>2

LEMMA WayInvariant == HandoverSpec => [](AllInv /\ WayInv)
  BY HandInit, HandNext, WayInit, WayNext, PTL DEF HandoverSpec

\* The parts of BootLeft are natural numbers within their bounds.
LEMMA PartsAreNat ==
  ASSUME AllInv, WayInv
  PROVE  /\ Ahead[pc] \in 0..8 /\ CpuAhead[cpu] \in 0..3
         /\ RegionsLeft \in 0..Len(e820) /\ SectorsLeft \in 0..FileSectors
         /\ TrimsLeft \in 0..Len(e820)
         /\ pc # "alloc" => RegionsLeft = 0
<1>1. Ahead[pc] \in 0..8 /\ CpuAhead[cpu] \in 0..3
  <2>1. /\ \A p \in DOMAIN Ahead : Ahead[p] \in 0..8
        /\ \A p \in DOMAIN CpuAhead : CpuAhead[p] \in 0..3
    BY DEF Ahead, CpuAhead
  <2> QED
    BY <2>1, WayFacts
<1>2. \A x, y \in Nat : x <= y => y - x \in 0..y
  OBVIOUS
<1>3. RegionsLeft \in 0..Len(e820)
  BY <1>2, WayFacts DEF WayInv, RegionsLeft
<1>4. SectorsLeft \in 0..FileSectors
  BY <1>2, WayFacts DEF WayInv, SectorsLeft
<1>5. TrimsLeft \in 0..Len(e820)
  BY <1>2, WayFacts DEF WayInv, TrimsLeft
<1> QED
  BY <1>1, <1>3, <1>4, <1>5 DEF RegionsLeft

LEMMA BootLeftIsNat ==
  ASSUME AllInv, WayInv
  PROVE  BootLeft \in Nat /\ BootLeft <= 11 + 2 * Len(e820) + FileSectors
<1>1. \A l, s \in Nat : \A a \in 0..8, c \in 0..3, r \in 0..l, t \in 0..s, u \in 0..l :
        a + c + r + t + u \in Nat /\ a + c + r + t + u <= 11 + 2 * l + s
  OBVIOUS
<1> QED
  BY <1>1, WayFacts, PartsAreNat DEF BootLeft

LEMMA BootLeftFalls ==
  ASSUME AllInv, WayInv, AllInv', WayInv', HandoverNext
  PROVE  BootLeft' < BootLeft
<1> PICK l \in Nat, s \in Nat : l = Len(e820) /\ s = FileSectors
  BY WayFacts
<1>1. BootStep /\ Len(e820') = l /\ FileSectors' = s
  BY BootGoesOn
<1>2. /\ i \in Nat /\ pc \in DOMAIN Ahead /\ cpu \in DOMAIN CpuAhead
      /\ pc = "alloc" => i <= l
      /\ pc = "load" => i <= s
      /\ pc = "mm_init" => i <= l
  BY WayFacts DEF WayInv
<1>3. /\ i' \in Nat
      /\ pc' = "alloc" => i' <= l
      /\ pc' = "load" => i' <= s
      /\ pc' = "mm_init" => i' <= l
  BY <1>1 DEF AllInv, LayoutInv, TypeOK, WayInv
<1>4. /\ RegionsLeft = IF pc = "alloc" THEN l - i ELSE 0
      /\ RegionsLeft' = IF pc' = "alloc" THEN l - i' ELSE 0
  BY <1>1 DEF RegionsLeft
<1>5. /\ SectorsLeft = IF pc \in {"alloc", "layout", "clear", "tables"} THEN s
                       ELSE IF pc = "load" THEN s - i ELSE 0
      /\ SectorsLeft' = IF pc' \in {"alloc", "layout", "clear", "tables"} THEN s
                        ELSE IF pc' = "load" THEN s - i' ELSE 0
  BY <1>1 DEF SectorsLeft
<1>6. /\ TrimsLeft =
           IF pc \in {"alloc", "layout", "clear", "tables", "load", "start"} THEN l
           ELSE IF pc = "mm_init" THEN l - i ELSE 0
      /\ TrimsLeft' =
           IF pc' \in {"alloc", "layout", "clear", "tables", "load", "start"} THEN l
           ELSE IF pc' = "mm_init" THEN l - i' ELSE 0
  BY <1>1 DEF TrimsLeft
<1>7. /\ pc' = "alloc" => pc = "alloc" /\ i' = i + 1
      /\ pc' = "load" => pc = "tables" \/ (pc = "load" /\ i' = i + 1)
      /\ pc' = "mm_init" => pc = "start" \/ (pc = "mm_init" /\ i' = i + 1)
      /\ pc' \in {"alloc", "layout", "clear", "tables"}
           => pc \in {"alloc", "layout", "clear", "tables"}
      /\ pc' \in {"alloc", "layout", "clear", "tables", "load", "start"}
           => pc \in {"alloc", "layout", "clear", "tables", "load", "start"}
  BY <1>1 DEF BootStep, WayInv
<1>8. \A x, y \in Nat : /\ x <= y => y - x \in Nat /\ y - x <= y
                        /\ y - (x + 1) <= y - x
  OBVIOUS
<1>9. /\ RegionsLeft' <= RegionsLeft /\ RegionsLeft \in Nat /\ RegionsLeft' \in Nat
      /\ SectorsLeft' <= SectorsLeft /\ SectorsLeft \in Nat /\ SectorsLeft' \in Nat
      /\ TrimsLeft' <= TrimsLeft /\ TrimsLeft \in Nat /\ TrimsLeft' \in Nat
  <2>1. RegionsLeft \in Nat /\ RegionsLeft' \in Nat
    BY <1>2, <1>3, <1>4, <1>8
  <2>2. SectorsLeft \in Nat /\ SectorsLeft' \in Nat
    BY <1>2, <1>3, <1>5, <1>8
  <2>3. TrimsLeft \in Nat /\ TrimsLeft' \in Nat
    BY <1>2, <1>3, <1>6, <1>8
  <2>4. RegionsLeft' <= RegionsLeft
    BY <1>2, <1>4, <1>7, <1>8, <2>1
  <2>5. SectorsLeft' <= SectorsLeft
    <3>1. CASE pc' \in {"alloc", "layout", "clear", "tables"}
      BY <1>5, <1>7, <2>2, <3>1
    <3>2. CASE pc' = "load" /\ pc = "tables"
      BY <1>3, <1>5, <1>8, <2>2, <3>2
    <3>3. CASE pc' = "load" /\ pc = "load"
      BY <1>2, <1>5, <1>7, <1>8, <2>2, <3>3
    <3>4. CASE pc' \notin {"alloc", "layout", "clear", "tables", "load"}
      BY <1>5, <2>2, <3>4
    <3> QED
      BY <1>7, <3>1, <3>2, <3>3, <3>4
  <2>6. TrimsLeft' <= TrimsLeft
    BY <1>2, <1>3, <1>6, <1>7, <1>8, <2>3
  <2> QED
    BY <2>1, <2>2, <2>3, <2>4, <2>5, <2>6
<1>10. /\ Ahead[pc'] <= Ahead[pc] /\ Ahead[pc] \in Nat /\ Ahead[pc'] \in Nat
       /\ pc' # pc => Ahead[pc'] < Ahead[pc]
  BY <1>1, <1>2 DEF BootStep, Ahead
<1>11. /\ CpuAhead[cpu'] <= CpuAhead[cpu]
       /\ CpuAhead[cpu] \in Nat /\ CpuAhead[cpu'] \in Nat
       /\ cpu' # cpu => CpuAhead[cpu'] < CpuAhead[cpu]
  BY <1>1, <1>2 DEF BootStep, CpuAhead
<1>12. \/ pc' # pc \/ cpu' # cpu
       \/ RegionsLeft' < RegionsLeft
       \/ SectorsLeft' < SectorsLeft
       \/ TrimsLeft' < TrimsLeft
  <2>1. ASSUME pc' = pc, cpu' = cpu
        PROVE  pc \in {"alloc", "load", "mm_init"} /\ i' = i + 1
    BY <1>1, <2>1 DEF BootStep
  <2>2. \A x, y \in Nat : x - (y + 1) < x - y
    OBVIOUS
  <2> QED
    BY <1>2, <1>4, <1>5, <1>6, <2>1, <2>2
<1>13. \A a, b, c, d, e, v, w, x, y, z \in Nat :
         /\ v <= a /\ w <= b /\ x <= c /\ y <= d /\ z <= e
         /\ v < a \/ w < b \/ x < c \/ y < d \/ z < e
         => v + w + x + y + z < a + b + c + d + e
  OBVIOUS
<1>14. BootLeft' = Ahead[pc'] + CpuAhead[cpu'] + RegionsLeft' + SectorsLeft'
                   + TrimsLeft'
  BY DEF BootLeft, Ahead, CpuAhead
<1>15. Ahead[pc'] < Ahead[pc] \/ CpuAhead[cpu'] < CpuAhead[cpu]
       \/ RegionsLeft' < RegionsLeft \/ SectorsLeft' < SectorsLeft
       \/ TrimsLeft' < TrimsLeft
  BY <1>10, <1>11, <1>12
<1> QED
  BY <1>9, <1>10, <1>11, <1>13, <1>14, <1>15 DEF BootLeft

\* From main's allocation to the kernel's peek the boot is a countdown: every
\* step leaves fewer to be made, of no more than eleven, one for each sector of
\* the file and two for each entry of the map, for the three loops of main and
\* mm_init end whatever the map is and whichever reads are refused.
THEOREM HandoverCountsDown ==
  HandoverSpec => /\ [](/\ BootLeft \in Nat
                        /\ BootLeft <= 11 + 2 * Len(e820) + FileSectors)
                  /\ [][BootLeft' < BootLeft]_hvars
<1>1. AllInv /\ WayInv =>
        BootLeft \in Nat /\ BootLeft <= 11 + 2 * Len(e820) + FileSectors
  BY BootLeftIsNat
<1>2. /\ AllInv /\ WayInv /\ AllInv' /\ WayInv' /\ [HandoverNext]_hvars
      => [BootLeft' < BootLeft]_hvars
  BY BootLeftFalls
<1> QED
  BY <1>1, <1>2, WayInvariant, PTL DEF HandoverSpec

\* The clearing loop (stage2.c:305) is the one that may have no end, and that
\* only when the region main took ends above 4 GB.
THEOREM LostAboveOnly ==
  HandoverSpec => [](pc = "lost" => \E k \in DOMAIN e820 :
                                       e820[k].base + e820[k].len > Word)
<1>1. ASSUME AllInv, WayInv, pc = "lost"
      PROVE  \E k \in DOMAIN e820 : e820[k].base + e820[k].len > Word
  <2>1. PICK k \in DOMAIN e820 : Fits(e820[k])
    BY <1>1 DEF AllInv, LayoutInv, Planned, Taken
  <2>2. e820[k].base \in Nat /\ e820[k].len \in Nat /\ buf \in Nat
    BY <1>1, <2>1, MapFacts DEF AllInv, LayoutInv, TypeOK
  <2>3. buf >= Word /\ buf + Page <= e820[k].base + e820[k].len
    BY <1>1, <2>1 DEF WayInv, Fits
  <2> QED
    BY <2>2, <2>3, SizeAssumption
<1> QED
  BY <1>1, WayInvariant, PTL
=============================================================================
