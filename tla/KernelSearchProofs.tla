------------------------- MODULE KernelSearchProofs -------------------------
(* Theorems about KernelSearch, for all discs, sizes and names.            *)
EXTENDS KernelSearch, WellFoundedInduction, TLAPS

(* Induction over data: every set of naturals has a least member.          *)
LEMMA Least ==
  ASSUME NEW T, T \subseteq Nat, T # {}
  PROVE  \E m \in T : \A k \in T : m <= k
<1> DEFINE R == OpToRel(<, Nat)
<1>1. IsWellFoundedOn(R, Nat)
  BY NatLessThanWellFounded
<1>2. ASSUME NEW x \in Nat, NEW y \in Nat, x < y PROVE <<x, y>> \in R
  BY <1>2 DEF OpToRel
<1> HIDE DEF R
<1>3. PICK m \in T : \A k \in T : ~(<<k, m>> \in R)
  BY <1>1, WFMin
<1>4. \A k \in T : ~(k < m)
  BY <1>2, <1>3
<1> QED
  BY <1>4

LEMMA MinIsLeast ==
  ASSUME NEW T, T \subseteq Nat, T # {}
  PROVE  Min(T) \in T /\ \A k \in T : Min(T) <= k
BY Least DEF Min

-----------------------------------------------------------------------------
(* FlattenSeq.                                                             *)

\* f[k] is the concatenation of the first k of n sequences.
Flattens(f, seqs, n) ==
  f = [i \in 1..n |-> IF i = 1 THEN seqs[i] ELSE f[i - 1] \o seqs[i]]

LEMMA FlattenExists ==
  ASSUME NEW seqs, NEW n \in Nat
  PROVE  \E f : Flattens(f, seqs, n)
<1> DEFINE T == {k \in Nat : ~\E f : Flattens(f, seqs, k)}
<1> SUFFICES ASSUME T # {} PROVE FALSE
  OBVIOUS
<1>1. PICK m \in T : \A k \in T : m <= k
  BY Least
<1>2. CASE m = 0
  <2>1. Flattens([i \in 1..0 |-> 0], seqs, 0)
    BY DEF Flattens
  <2> QED
    BY <1>2, <2>1
<1>3. CASE m # 0
  <2>1. m - 1 \in Nat /\ m - 1 \notin T
    BY <1>1, <1>3
  <2>2. PICK f : Flattens(f, seqs, m - 1)
    BY <2>1
  <2> DEFINE g == [i \in 1..m |->
                     IF i = m
                     THEN IF m = 1 THEN seqs[m] ELSE f[m - 1] \o seqs[m]
                     ELSE f[i]]
  <2>3. ASSUME NEW i \in 1..m
        PROVE  g[i] = IF i = 1 THEN seqs[i] ELSE g[i - 1] \o seqs[i]
    <3>1. CASE i = m
      BY <3>1, <1>3
    <3>2. CASE i # m
      <4>1. i \in 1..(m - 1) /\ (i # 1 => i - 1 \in 1..(m - 1) /\ i - 1 # m)
        BY <3>2
      <4>2. f[i] = IF i = 1 THEN seqs[i] ELSE f[i - 1] \o seqs[i]
        BY <2>2, <4>1 DEF Flattens
      <4> QED
        BY <3>2, <4>1, <4>2
    <3> QED
      BY <3>1, <3>2
  <2>4. g = [i \in 1..m |-> IF i = 1 THEN seqs[i] ELSE g[i - 1] \o seqs[i]]
    BY <2>3
  <2>5. Flattens(g, seqs, m)
    BY <2>4, Zenon DEF Flattens
  <2> QED
    BY <2>5
<1> QED
  BY <1>2, <1>3

LEMMA FlattenIs ==
  ASSUME NEW seqs, Len(seqs) \in Nat \ {0}
  PROVE  \E f : Flattens(f, seqs, Len(seqs)) /\ FlattenSeq(seqs) = f[Len(seqs)]
<1> DEFINE f == CHOOSE f : Flattens(f, seqs, Len(seqs))
<1>1. Flattens(f, seqs, Len(seqs))
  BY FlattenExists, Zenon
<1>2. FlattenSeq(seqs) = f[Len(seqs)]
  BY Zenon DEF FlattenSeq, Flattens
<1> QED
  BY <1>1, <1>2, Zenon

\* Each of the sequences is in the result, from start[j] on, one after the
\* other, and there is nothing else in it.
Parts(start, seqs, N, flat) ==
  /\ start \in [1..N -> Nat]
  /\ \A j \in 1..N : \A i \in 1..Len(seqs[j]) :
        start[j] + i \in DOMAIN flat /\ flat[start[j] + i] = seqs[j][i]
  /\ \A n \in DOMAIN flat :
        \E j \in 1..N : \E i \in 1..Len(seqs[j]) : n = start[j] + i
  /\ \A j, k \in 1..N : j < k => start[j] + Len(seqs[j]) <= start[k]

LEMMA ConcatFacts ==
  ASSUME NEW S, NEW s \in Seq(S), NEW u \in Seq(S)
  PROVE  /\ s \o u \in Seq(S) /\ Len(s \o u) = Len(s) + Len(u)
         /\ \A i \in 1..Len(s) : (s \o u)[i] = s[i]
         /\ \A i \in 1..Len(u) : (s \o u)[Len(s) + i] = u[i]
OBVIOUS

LEMMA FlattenSteps ==
  ASSUME NEW S, NEW N \in Nat, NEW seqs \in [1..N -> Seq(S)], NEW f,
         Flattens(f, seqs, N)
  PROVE  \A k \in 1..N :
           /\ f[k] \in Seq(S)
           /\ f[k] = IF k = 1 THEN seqs[k] ELSE f[k - 1] \o seqs[k]
<1>1. ASSUME NEW k \in 1..N
      PROVE  f[k] = IF k = 1 THEN seqs[k] ELSE f[k - 1] \o seqs[k]
  BY DEF Flattens
<1> DEFINE T == {k \in 1..N : f[k] \notin Seq(S)}
<1>2. ASSUME T # {} PROVE FALSE
  <2>0. T \subseteq Nat
    OBVIOUS
  <2>1. PICK m \in T : \A k \in T : m <= k
    <3> HIDE DEF T
    <3> QED BY <1>2, <2>0, Least
  <2>2. CASE m = 1
    BY <2>2, <1>1
  <2>3. CASE m # 1
    <3>1. m - 1 \in 1..N /\ m - 1 \notin T
      BY <2>1, <2>3
    <3>2. f[m] = f[m - 1] \o seqs[m] /\ seqs[m] \in Seq(S)
      BY <1>1, <2>3
    <3>3. f[m - 1] \in Seq(S)
      BY <3>1
    <3> QED
      BY <3>2, <3>3, ConcatFacts
  <2> QED
    BY <2>2, <2>3
<1> QED
  BY <1>1, <1>2

Extends(s, u) == Len(u) <= Len(s) /\ \A i \in 1..Len(u) : s[i] = u[i]

LEMMA ExtendsConcat ==
  ASSUME NEW S, NEW u \in Seq(S), NEW s \in Seq(S), NEW v \in Seq(S),
         Extends(s, u)
  PROVE  Extends(s \o v, u)
BY ConcatFacts DEF Extends

LEMMA FlattenGrows ==
  ASSUME NEW S, NEW N \in Nat, NEW seqs \in [1..N -> Seq(S)], NEW f,
         Flattens(f, seqs, N),
         NEW j \in 1..N, NEW k \in j..N
  PROVE  Extends(f[k], f[j])
<1>0. \A n \in 1..N : f[n] \in Seq(S)
  BY FlattenSteps
<1>1. \A n \in 1..N :
         f[n] = IF n = 1 THEN seqs[n] ELSE f[n - 1] \o seqs[n]
  BY DEF Flattens
<1>2. ASSUME NEW m \in j..N, m # j, Extends(f[m - 1], f[j])
      PROVE  Extends(f[m], f[j])
  <2>1. m - 1 \in 1..N /\ m \in 1..N /\ m # 1
    BY <1>2
  <2>2. /\ f[m] = f[m - 1] \o seqs[m] /\ f[m - 1] \in Seq(S)
        /\ f[j] \in Seq(S) /\ seqs[m] \in Seq(S)
    BY <1>0, <1>1, <2>1
  <2> QED
    BY <1>2, <2>2, ExtendsConcat
<1>3. Extends(f[j], f[j])
  <2>1. f[j] \in Seq(S)
    BY <1>0
  <2> QED
    BY <2>1 DEF Extends
<1> DEFINE T == {n \in j..N : ~Extends(f[n], f[j])}
<1>4. ASSUME T # {} PROVE FALSE
  <2>1. T \subseteq Nat
    OBVIOUS
  <2>2. PICK m \in T : \A n \in T : m <= n
    <3> HIDE DEF T
    <3> QED BY <1>4, <2>1, Least
  <2>3. m \in j..N /\ m # j /\ m - 1 \notin T /\ m - 1 \in j..N
    BY <1>3, <2>2
  <2> QED
    BY <1>2, <2>3
<1> QED
  BY <1>4

LEMMA FlattenParts ==
  ASSUME NEW S, NEW N \in Nat, NEW seqs \in [1..N -> Seq(S)]
  PROVE  /\ FlattenSeq(seqs) \in Seq(S)
         /\ \E start : Parts(start, seqs, N, FlattenSeq(seqs))
<1> DEFINE flat == FlattenSeq(seqs)
<1>0. Len(seqs) = N /\ seqs \in Seq(Seq(S))
  OBVIOUS
<1>1. CASE N = 0
  <2>1. seqs = <<>> /\ flat = <<>>
    BY <1>0, <1>1 DEF FlattenSeq
  <2> HIDE DEF flat
  <2>2. Parts([j \in 1..0 |-> 0], seqs, N, flat)
    BY <1>1, <2>1 DEF Parts
  <2>3. flat \in Seq(S)
    BY <2>1
  <2> QED
    BY <2>2, <2>3 DEF flat
<1>2. CASE N # 0
  <2>1. PICK f : Flattens(f, seqs, N) /\ flat = f[N]
    BY <1>0, <1>2, FlattenIs
  <2> HIDE DEF flat
  <2>2. \A k \in 1..N :
           /\ f[k] \in Seq(S) /\ seqs[k] \in Seq(S)
           /\ f[k] = IF k = 1 THEN seqs[k] ELSE f[k - 1] \o seqs[k]
    BY <2>1, FlattenSteps
  <2>3. flat \in Seq(S) /\ N \in 1..N
    BY <1>2, <2>1, <2>2
  <2> DEFINE start == [j \in 1..N |-> Len(f[j]) - Len(seqs[j])]
  <2>4. ASSUME NEW j \in 1..N
        PROVE  /\ start[j] = IF j = 1 THEN 0 ELSE Len(f[j - 1])
               /\ start[j] \in Nat /\ Len(seqs[j]) \in Nat
               /\ Len(f[j]) = start[j] + Len(seqs[j])
               /\ \A i \in 1..Len(seqs[j]) : f[j][start[j] + i] = seqs[j][i]
    <3>1. CASE j = 1
      BY <3>1, <2>2
    <3>2. CASE j # 1
      <4>1. j - 1 \in 1..N
        BY <3>2
      <4>2. /\ f[j] = f[j - 1] \o seqs[j] /\ f[j - 1] \in Seq(S)
            /\ seqs[j] \in Seq(S)
        BY <2>2, <3>2, <4>1
      <4>3. Len(f[j]) = Len(f[j - 1]) + Len(seqs[j])
        BY <4>2, ConcatFacts
      <4>4. Len(f[j - 1]) \in Nat /\ Len(seqs[j]) \in Nat
        BY <4>2
      <4>5. \A i \in 1..Len(seqs[j]) : f[j][Len(f[j - 1]) + i] = seqs[j][i]
        BY <4>2, ConcatFacts
      <4>6. start[j] = Len(f[j - 1])
        BY <4>3, <4>4
      <4> QED
        BY <3>2, <4>3, <4>4, <4>5, <4>6
    <3> QED
      BY <3>1, <3>2
  <2>5. ASSUME NEW j \in 1..N, NEW k \in j..N
        PROVE  /\ Len(f[j]) <= Len(f[k])
               /\ \A i \in 1..Len(f[j]) : f[k][i] = f[j][i]
    BY <2>1, FlattenGrows DEF Extends
  <2>6. start \in [1..N -> Nat]
    BY <2>4
  <2> HIDE DEF start
  <2>7. ASSUME NEW j \in 1..N, NEW i \in 1..Len(seqs[j])
        PROVE  start[j] + i \in DOMAIN flat /\ flat[start[j] + i] = seqs[j][i]
    <3>1. N \in j..N
      OBVIOUS
    <3>2. start[j] + i \in 1..Len(f[j]) /\ f[j][start[j] + i] = seqs[j][i]
      BY <2>4
    <3>3. Len(f[j]) <= Len(flat) /\ flat[start[j] + i] = f[j][start[j] + i]
      BY <2>1, <2>5, <3>1, <3>2
    <3>4. Len(f[j]) \in Nat /\ Len(flat) \in Nat /\ DOMAIN flat = 1..Len(flat)
      BY <2>2, <2>3
    <3> QED
      BY <3>2, <3>3, <3>4
  <2>8. ASSUME NEW n \in DOMAIN flat
        PROVE  \E j \in 1..N : \E i \in 1..Len(seqs[j]) : n = start[j] + i
    <3> DEFINE T == {j \in 1..N : n <= Len(f[j])}
    <3>1. n \in 1..Len(flat) /\ Len(flat) \in Nat
      BY <2>3
    <3>2. N \in T
      BY <2>1, <2>3, <3>1
    <3>3. PICK j \in T : \A k \in T : j <= k
      <4>1. T \subseteq Nat
        OBVIOUS
      <4> HIDE DEF T
      <4> QED BY <3>2, <4>1, Least
    <3>4. start[j] < n
      <4>1. CASE j = 1
        BY <4>1, <2>4, <3>1
      <4>2. CASE j # 1
        <5>1. j - 1 \in 1..N /\ j - 1 \notin T
          BY <3>3, <4>2
        <5>2. Len(f[j - 1]) \in Nat
          BY <2>2, <5>1
        <5> QED
          BY <2>4, <4>2, <5>1, <5>2, <3>1
      <4> QED
        BY <4>1, <4>2
    <3>5. n - start[j] \in 1..Len(seqs[j]) /\ n = start[j] + (n - start[j])
      BY <2>4, <3>1, <3>3, <3>4
    <3> QED
      BY <3>5
  <2>9. ASSUME NEW j \in 1..N, NEW k \in 1..N, j < k
        PROVE  start[j] + Len(seqs[j]) <= start[k]
    <3>1. k - 1 \in j..N /\ k # 1
      BY <2>9
    <3>2. Len(f[j]) <= Len(f[k - 1])
      BY <2>5, <3>1
    <3> QED
      BY <2>4, <3>1, <3>2
  <2> QED
    BY <2>3, <2>6, <2>7, <2>8, <2>9 DEF Parts, flat
<1> QED
  BY <1>1, <1>2

-----------------------------------------------------------------------------
(* The records of the root directory, sector by sector.                    *)

First(rs) == SelectInSeq(rs, NameMatches)
Part(n) == RecordsAt(Descriptor.dirLba + n - 1)
AnyRecord == UNION {Range(RecordsAt(l)) : l \in Nat}

LEMMA FirstFacts ==
  ASSUME NEW S, NEW rs \in Seq(S)
  PROVE  /\ First(rs) \in 0..Len(rs)
         /\ First(rs) = 0 => \A i \in 1..Len(rs) : ~NameMatches(rs[i])
         /\ First(rs) # 0 => /\ NameMatches(rs[First(rs)])
                             /\ \A i \in 1..Len(rs) :
                                   NameMatches(rs[i]) => First(rs) <= i
<1> DEFINE I == {i \in 1..Len(rs) : NameMatches(rs[i])}
<1>1. First(rs) = IF I # {} THEN Min(I) ELSE 0
  BY Zenon DEF First, SelectInSeq
<1>2. I \subseteq Nat /\ Len(rs) \in Nat
  OBVIOUS
<1>3. I # {} => Min(I) \in I /\ \A k \in I : Min(I) <= k
  <2> HIDE DEF I
  <2> QED BY <1>2, MinIsLeast
<1> QED
  BY <1>1, <1>2, <1>3

LEMMA SectorFacts ==
  ASSUME disc \in Discs, NEW l \in DOMAIN disc
  PROVE  /\ l \in Lba /\ l \in Nat /\ IsSector(disc[l])
         /\ disc[l].records \in Seq(AnyRecord)
<1>1. l \in Lba /\ IsSector(disc[l])
  BY SearchAssumption
<1>2. l \in Nat
  BY <1>1 DEF Lba
<1>3. disc[l].records \in Seq(Range(disc[l].records))
  BY <1>1 DEF IsSector
<1>4. Range(disc[l].records) \subseteq AnyRecord
  BY <1>2 DEF AnyRecord, RecordsAt
<1>5. \A s, T : s \in Seq(Range(s)) /\ Range(s) \subseteq T => s \in Seq(T)
  OBVIOUS
<1> QED
  BY <1>1, <1>2, <1>3, <1>4, <1>5

LEMMA RecordsAtType ==
  ASSUME disc \in Discs, NEW l
  PROVE  RecordsAt(l) \in Seq(AnyRecord)
BY SectorFacts DEF RecordsAt

\* The records of the directory that the code's comparison takes for the kernel.
Matching == {n \in DOMAIN RootRecords : NameMatches(RootRecords[n])}
FirstMatching == RootRecords[Min(Matching)]

Rooted == disc \in Discs /\ DescriptorLba \in DOMAIN disc

LEMMA RootFacts ==
  ASSUME Rooted
  PROVE  RootSectors \in Nat /\ Descriptor.dirLba \in Nat
<1>1. IsSector(Descriptor)
  BY SectorFacts DEF Rooted, Descriptor
<1>2. Descriptor.dirSize \in Nat /\ Descriptor.dirLba \in Nat
  BY <1>1 DEF IsSector
<1>3. SectorSize \in Nat \ {0}
  BY SearchAssumption
<1> QED
  BY <1>2, <1>3 DEF RootSectors

LEMMA RootParts ==
  ASSUME Rooted
  PROVE  /\ RootRecords \in Seq(AnyRecord)
         /\ \E start : Parts(start, [n \in 1..RootSectors |-> Part(n)],
                             RootSectors, RootRecords)
<1>1. [n \in 1..RootSectors |-> Part(n)] \in [1..RootSectors -> Seq(AnyRecord)]
  BY RecordsAtType DEF Part, Rooted
<1>2. RootRecords = FlattenSeq([n \in 1..RootSectors |-> Part(n)])
  BY DEF RootRecords, Part
<1> QED
  BY <1>1, <1>2, RootFacts, FlattenParts

\* A matching record of a sector is one of the directory.
LEMMA ListedMatches ==
  ASSUME Rooted, NEW j \in 1..RootSectors, NEW i \in 1..Len(Part(j)),
         NameMatches(Part(j)[i])
  PROVE  \E n \in Matching : RootRecords[n] = Part(j)[i]
<1>1. PICK start : Parts(start, [n \in 1..RootSectors |-> Part(n)],
                         RootSectors, RootRecords)
  BY RootParts
<1>2. /\ start[j] + i \in DOMAIN RootRecords
      /\ RootRecords[start[j] + i] = Part(j)[i]
  BY <1>1 DEF Parts
<1>3. start[j] + i \in Matching
  BY <1>2 DEF Matching
<1> QED
  BY <1>2, <1>3

\* The directory's first match is that of the first sector that has one.
LEMMA FirstIsFirst ==
  ASSUME Rooted, Matching # {}
  PROVE  \E j \in 1..RootSectors :
           /\ First(Part(j)) # 0 /\ FirstMatching = Part(j)[First(Part(j))]
           /\ \A k \in 1..(j - 1) : First(Part(k)) = 0
<1> DEFINE N == RootSectors
           m == Min(Matching)
<1>1. PICK start : Parts(start, [n \in 1..N |-> Part(n)], N, RootRecords)
  BY RootParts
<1>2. N \in Nat /\ RootRecords \in Seq(AnyRecord)
  BY RootFacts, RootParts
<1>3. m \in Matching /\ \A n \in Matching : m <= n
  <2>1. Matching \subseteq Nat
    BY <1>2 DEF Matching
  <2> QED
    BY <2>1, MinIsLeast
<1> HIDE DEF m, N
<1>4. \A j \in 1..N : /\ start[j] \in Nat /\ Part(j) \in Seq(AnyRecord)
                      /\ \A i \in 1..Len(Part(j)) :
                            /\ start[j] + i \in DOMAIN RootRecords
                            /\ RootRecords[start[j] + i] = Part(j)[i]
  BY <1>1, RecordsAtType DEF Parts, Part, Rooted
<1>5. \A j \in 1..N : \A k \in 1..N :
         j < k => start[j] + Len(Part(j)) <= start[k]
  BY <1>1 DEF Parts
<1>6. PICK j \in 1..N : \E i \in 1..Len(Part(j)) : m = start[j] + i
  BY <1>1, <1>3 DEF Parts, Matching
<1>7. PICK i \in 1..Len(Part(j)) : m = start[j] + i
  BY <1>6
<1>8. FirstMatching = Part(j)[i] /\ NameMatches(Part(j)[i])
  BY <1>3, <1>4, <1>7 DEF FirstMatching, m, Matching
<1>9. ASSUME NEW k \in 1..N, NEW h \in 1..Len(Part(k)), NameMatches(Part(k)[h])
      PROVE  start[j] + i <= start[k] + h
  BY <1>3, <1>4, <1>7, <1>9 DEF Matching
<1>10. First(Part(j)) = i
  <2>1. /\ First(Part(j)) \in 0..Len(Part(j))
        /\ First(Part(j)) = 0 => \A h \in 1..Len(Part(j)) : ~NameMatches(Part(j)[h])
        /\ First(Part(j)) # 0 => /\ NameMatches(Part(j)[First(Part(j))])
                                 /\ First(Part(j)) <= i
    BY <1>4, <1>8, FirstFacts
  <2>2. First(Part(j)) \in 1..Len(Part(j))
    BY <1>8, <2>1
  <2>3. start[j] + i <= start[j] + First(Part(j))
    BY <1>9, <2>1, <2>2
  <2> QED
    BY <1>4, <2>1, <2>2, <2>3
<1>11. ASSUME NEW k \in 1..(j - 1), First(Part(k)) # 0 PROVE FALSE
  <2>1. k \in 1..N /\ k < j
    BY <1>2 DEF N
  <2>2. First(Part(k)) \in 1..Len(Part(k)) /\ NameMatches(Part(k)[First(Part(k))])
    BY <1>4, <1>11, <2>1, FirstFacts
  <2>3. start[j] + i <= start[k] + First(Part(k))
    BY <1>9, <2>1, <2>2
  <2>4. start[k] + Len(Part(k)) <= start[j]
    BY <1>5, <2>1
  <2>5. start[k] \in Nat /\ start[j] \in Nat /\ Len(Part(k)) \in Nat
    BY <1>4, <2>1
  <2> QED
    BY <2>2, <2>3, <2>4, <2>5
<1>12. First(Part(j)) # 0
  BY <1>10
<1> QED
  BY <1>8, <1>10, <1>11, <1>12 DEF N

\* A name that is the kernel's, with a version or without, matches.
LEMMA KernelMatches ==
  ASSUME NEW r, IsKernel(r)
  PROVE  NameMatches(r)
<1> DEFINE S == Range(KernelName) \cup {";1"}
<1>1. KernelName \in Seq(S)
  <2>1. KernelName \in Seq(Range(KernelName)) /\ Range(KernelName) \subseteq S
    BY SearchAssumption
  <2>2. \A s, T : s \in Seq(Range(s)) /\ Range(s) \subseteq T => s \in Seq(T)
    OBVIOUS
  <2> QED
    BY <2>1, <2>2
<1>2. PICK v \in Version : r.name = KernelName \o v
  BY DEF IsKernel
<1>3. v \in Seq(S)
  <2>1. ";1" \in S
    OBVIOUS
  <2> HIDE DEF S
  <2>2. \A T, x : x \in T => <<>> \in Seq(T) /\ <<x>> \in Seq(T)
    OBVIOUS
  <2> QED
    BY <2>1, <2>2 DEF Version
<1> HIDE DEF S
<1>4. /\ Len(KernelName) \in Nat /\ Len(KernelName) <= Len(KernelName \o v)
      /\ \A i \in 1..Len(KernelName) : (KernelName \o v)[i] = KernelName[i]
  <2>1. /\ Len(KernelName \o v) = Len(KernelName) + Len(v)
        /\ \A i \in 1..Len(KernelName) : (KernelName \o v)[i] = KernelName[i]
    BY <1>1, <1>3, ConcatFacts
  <2>2. Len(KernelName) \in Nat /\ Len(v) \in Nat
    BY <1>1, <1>3
  <2> QED
    BY <2>1, <2>2
<1>5. SubSeq(KernelName, 1, Len(KernelName)) =
        SubSeq(KernelName \o v, 1, Len(KernelName))
  BY <1>4
<1> QED
  BY <1>2, <1>4, <1>5 DEF NameMatches, IsPrefix

\* What matches is the kernel or a look-alike.
LEMMA KernelsMatch == Matching = Kernels \cup LookAlikes
BY KernelMatches DEF Matching, Kernels, LookAlikes

\* Without a look-alike before it, the first match is the kernel.
LEMMA KernelIsFirst ==
  ASSUME Rooted, \A n \in LookAlikes : \E k \in Kernels : k < n
  PROVE  /\ Kernels = {} <=> Matching = {}
         /\ Kernels # {} => FirstFile = FirstMatching
<1>1. Matching \subseteq Nat /\ Kernels \subseteq Nat
  BY RootParts DEF Matching, Kernels
<1>2. Kernels \subseteq Matching /\ (Kernels = {} <=> Matching = {})
  BY KernelsMatch
<1>3. ASSUME Kernels # {} PROVE Min(Kernels) = Min(Matching)
  <2> DEFINE a == Min(Kernels)
             b == Min(Matching)
  <2>1. a \in Kernels /\ \A k \in Kernels : a <= k
    BY <1>1, <1>3, MinIsLeast
  <2>2. b \in Matching /\ \A k \in Matching : b <= k
    BY <1>1, <1>2, <1>3, MinIsLeast
  <2> HIDE DEF a, b
  <2>3. a \in Nat /\ b \in Nat /\ b <= a
    BY <1>1, <1>2, <2>1, <2>2
  <2>4. b \in Kernels
    <3>1. ASSUME NEW k \in Kernels, k < b PROVE FALSE
      <4>1. k \in Nat /\ b <= k
        BY <1>1, <1>2, <2>2
      <4> QED
        BY <2>3, <3>1, <4>1
    <3> QED
      BY <2>2, <3>1, KernelsMatch
  <2>5. a <= b
    BY <2>1, <2>4
  <2>6. a = b
    BY <2>3, <2>5
  <2> QED
    BY <2>6 DEF a, b
<1> QED
  BY <1>2, <1>3 DEF FirstFile, FirstMatching

-----------------------------------------------------------------------------
(* The invariant.                                                          *)

\* A read that has ended left its sector in the buffer, or failed.
ReadInv ==
  /\ pc # "pvd" \/ off > 0 => phase = "busy" \/ lba \in failed \/ buf = lba
  /\ phase # "idle" => pc \in {"records", "header"} \/ (pc = "pvd" /\ off > 0)

\* Looking for the descriptor, main has passed over nothing it has read.
DescriptorInv ==
  pc = "pvd" =>
    /\ off > 0 => lba = PvdStart + off - 1
    /\ buf # NoSector => buf \in PvdStart..(PvdStart + off - 1)
    /\ \A k \in PvdStart..(PvdStart + off - 2) : k \in failed \/ ~LooksRight(k)

\* What it takes is the disc's descriptor, if that was read.
RootInv ==
  pc # "pvd" =>
    /\ DescriptorLba \in PvdStart..LastLba /\ IsDescriptor(DescriptorLba)
    /\ DescriptorLba \notin failed => /\ dirLba = Descriptor.dirLba
                                      /\ dirSectors = RootSectors % Word16

\* A sector without a match, or whose first match has no extent.
Missed(n) == First(Part(n)) # 0 => Part(n)[First(Part(n))].lba = 0

\* In the directory the buffer holds a sector of it, still the descriptor, or
\* nothing, and when all could be read, the sectors behind were rightly left.
DirectoryInv ==
  /\ pc = "records" => off < dirSectors /\ lba = dirLba + off
  /\ pc \in {"dir", "records"} =>
       /\ DescriptorLba \notin failed =>
            \/ buf \in {NoSector, DescriptorLba}
            \/ \E n \in 1..dirSectors : buf = dirLba + n - 1
       /\ failed = {} => \A n \in 1..off : Missed(n)

HeaderInv == pc \in {"header", "allocate"} => lba = kernelLba

\* What the search finds, of the names that begin with the kernel's.
PrefixSearch ==
  pc \in {"found", "halted"} /\ failed = {} /\ RootSectors < Word16
  => IF Matching = {} THEN pc = "halted" /\ loadSize = 0
     ELSE FirstMatching.lba # 0 => /\ pc = "found"
                                   /\ kernelLba = FirstMatching.lba
                                   /\ loadSize = FirstMatching.size

SearchInv == /\ TypeOK /\ ReadInv /\ DescriptorInv /\ RootInv /\ DirectoryInv
             /\ HeaderInv /\ PrefixSearch /\ FoundIsListed

LEMMA SearchStarts == Init => SearchInv
<1> SUFFICES ASSUME Init PROVE SearchInv
  OBVIOUS
<1>1. PvdStart \in Nat /\ Word16 \in Nat \ {0}
  BY SearchAssumption DEF Lba
<1>2. TypeOK
  BY <1>1 DEF Init, TypeOK
<1>3. ReadInv /\ DescriptorInv /\ RootInv /\ DirectoryInv /\ HeaderInv
  BY <1>1 DEF Init, ReadInv, DescriptorInv, RootInv, DirectoryInv, HeaderInv
<1>4. PrefixSearch /\ FoundIsListed
  BY DEF Init, PrefixSearch, FoundIsListed
<1> QED
  BY <1>2, <1>3, <1>4 DEF SearchInv

\* All that is said of the disc stays true of it.
LEMMA SameDisc ==
  ASSUME disc' = disc
  PROVE  /\ DescriptorLba' = DescriptorLba /\ Descriptor' = Descriptor
         /\ RootSectors' = RootSectors /\ RootRecords' = RootRecords
         /\ Matching' = Matching /\ FirstMatching' = FirstMatching
         /\ Kernels' = Kernels /\ LookAlikes' = LookAlikes
         /\ \A l : LooksRight(l)' = LooksRight(l)
         /\ \A l : IsDescriptor(l)' = IsDescriptor(l)
         /\ \A n : Part(n)' = Part(n) /\ Missed(n)' = Missed(n)
<1>1. /\ \A l : LooksRight(l)' = LooksRight(l)
      /\ \A l : RecordsAt(l)' = RecordsAt(l)
  BY DEF LooksRight, RecordsAt
<1>2. \A l : IsDescriptor(l)' = IsDescriptor(l)
  BY <1>1 DEF IsDescriptor
<1>3. DescriptorLba' = DescriptorLba
  BY <1>2 DEF DescriptorLba
<1>4. Descriptor' = Descriptor /\ RootSectors' = RootSectors
  BY <1>3 DEF Descriptor, RootSectors
<1>5. RootRecords' = RootRecords
  BY <1>1, <1>4 DEF RootRecords
<1>6. Matching' = Matching /\ FirstMatching' = FirstMatching
  BY <1>5 DEF Matching, FirstMatching
<1>7. Kernels' = Kernels /\ LookAlikes' = LookAlikes
  BY <1>5 DEF Kernels, LookAlikes
<1>8. \A n : Part(n)' = Part(n)
  BY <1>1, <1>4 DEF Part
<1>9. \A n : Missed(n)' = Missed(n)
  BY <1>8 DEF Missed
<1> QED
  BY <1>1, <1>2, <1>3, <1>4, <1>5, <1>6, <1>7, <1>8, <1>9

LEMMA BufferFacts ==
  ASSUME TypeOK
  PROVE  /\ IsSector(Buffer) /\ Buffer.records \in Seq(AnyRecord)
         /\ buf \in DOMAIN disc => Buffer = disc[buf]
         /\ Buffer.first = PVD_SIGNATURE => buf \in DOMAIN disc
<1>1. CASE buf = NoSector
  <2>1. buf \notin DOMAIN disc
    BY <1>1, SearchAssumption DEF TypeOK
  <2>2. Buffer = Zeroes
    BY <1>1 DEF Buffer
  <2> QED
    BY <2>1, <2>2 DEF Zeroes, IsSector, PVD_SIGNATURE, Range
<1>2. CASE buf # NoSector
  <2>1. buf \in DOMAIN disc /\ Buffer = disc[buf] /\ disc \in Discs
    BY <1>2 DEF TypeOK, Buffer
  <2> QED
    BY <2>1, SectorFacts
<1> QED
  BY <1>1, <1>2

LEMMA ConstFacts ==
  /\ PvdStart \in Nat /\ PvdStart <= LastLba /\ Lba \subseteq Nat
  /\ LastLba \in Nat => Lba = 0..LastLba
  /\ SectorSize \in Nat \ {0} /\ Word16 \in Nat \ {0} /\ NoSector \notin Lba
BY SearchAssumption DEF Lba

LEMMA ReadKeeps ==
  ASSUME SearchInv, ReadStep
  PROVE  SearchInv'
<1> USE DEF Reader!Deliver, Reader!Refuse, Reader!End, Garble
<1>1. /\ UNCHANGED <<disc, searchVars>> /\ lba' = lba
      /\ failed \subseteq failed' /\ phase # "idle"
  BY DEF ReadStep
<1>2. UNCHANGED <<pc, off, dirLba, dirSectors, kernelLba, loadSize>>
  BY <1>1 DEF searchVars
<1>3. buf' = buf \/ buf' = NoSector \/ (buf' = lba /\ lba \in DOMAIN disc)
  BY DEF ReadStep
<1>4. TypeOK'
  BY <1>1, <1>2, <1>3 DEF SearchInv, TypeOK, ReadStep
<1>5. pc \in {"pvd", "records", "header"}
  BY <1>1 DEF SearchInv, ReadInv
<1>6. ReadInv'
  <2>1. ASSUME pc # "pvd" \/ off > 0
        PROVE  phase' = "busy" \/ lba' \in failed' \/ buf' = lba'
    BY <2>1 DEF ReadStep, SearchInv, ReadInv
  <2>2. pc \in {"records", "header"} \/ (pc = "pvd" /\ off > 0)
    BY <1>1 DEF SearchInv, ReadInv
  <2> QED
    BY <1>2, <2>1, <2>2 DEF ReadInv
<1>7. DescriptorInv'
  <2> SUFFICES ASSUME pc = "pvd" PROVE DescriptorInv'
    BY <1>2 DEF DescriptorInv
  <2>1. /\ off > 0 => lba = PvdStart + off - 1
        /\ buf # NoSector => buf \in PvdStart..(PvdStart + off - 1)
        /\ \A k \in PvdStart..(PvdStart + off - 2) : k \in failed \/ ~LooksRight(k)
    BY DEF SearchInv, DescriptorInv
  <2>2. off > 0 /\ off \in Nat
    BY <1>1 DEF SearchInv, TypeOK, ReadInv
  <2>3. buf' # NoSector => buf' \in PvdStart..(PvdStart + off - 1)
    BY <1>3, <2>1, <2>2, ConstFacts
  <2> QED
    BY <1>1, <1>2, <2>1, <2>3, SameDisc DEF DescriptorInv
<1>8. RootInv'
  BY <1>1, <1>2, SameDisc DEF SearchInv, RootInv
<1>9. DirectoryInv'
  <2> SUFFICES ASSUME pc = "records" PROVE DirectoryInv'
    BY <1>2, <1>5 DEF DirectoryInv
  <2>1. /\ off < dirSectors /\ lba = dirLba + off
        /\ DescriptorLba \notin failed =>
             \/ buf \in {NoSector, DescriptorLba}
            \/ \E n \in 1..dirSectors : buf = dirLba + n - 1
        /\ failed = {} => \A n \in 1..off : Missed(n)
    BY DEF SearchInv, DirectoryInv
  <2>2. off + 1 \in 1..dirSectors /\ lba = dirLba + (off + 1) - 1
    BY <2>1 DEF SearchInv, TypeOK
  <2>3. DescriptorLba \notin failed' =>
          \/ buf' \in {NoSector, DescriptorLba}
          \/ \E n \in 1..dirSectors : buf' = dirLba + n - 1
    BY <1>1, <1>3, <2>1, <2>2
  <2>4. failed' = {} => failed = {}
    BY <1>1
  <2> QED
    BY <1>1, <1>2, <2>1, <2>3, <2>4, SameDisc DEF DirectoryInv
<1>10. HeaderInv'
  BY <1>1, <1>2 DEF SearchInv, HeaderInv
<1>11. PrefixSearch'
  BY <1>2, <1>5 DEF PrefixSearch
<1>12. FoundIsListed'
  BY <1>1, <1>2, SameDisc DEF SearchInv, FoundIsListed
<1> QED
  BY <1>4, <1>6, <1>7, <1>8, <1>9, <1>10, <1>11, <1>12 DEF SearchInv

LEMMA NextDescriptorKeeps ==
  ASSUME SearchInv, NextDescriptor, UNCHANGED failed
  PROVE  SearchInv'
<1> USE DEF Read, Reader!Begin, Returned
<1>1. /\ UNCHANGED <<disc, pc, dirLba, dirSectors, kernelLba, loadSize, buf,
                     result, failed>>
      /\ pc = "pvd" /\ phase = "idle" /\ phase' = "busy"
      /\ lba' = PvdStart + off /\ off' = off + 1 /\ off \in Nat
      /\ Buffer.first # PVD_SIGNATURE
  BY DEF NextDescriptor, SearchInv, TypeOK
<1>2. TypeOK'
  BY <1>1, ConstFacts DEF SearchInv, TypeOK
<1>3. ReadInv'
  BY <1>1 DEF ReadInv
<1>4. DescriptorInv'
  <2>1. /\ off > 0 => lba = PvdStart + off - 1
        /\ buf # NoSector => buf \in PvdStart..(PvdStart + off - 1)
        /\ \A k \in PvdStart..(PvdStart + off - 2) : k \in failed \/ ~LooksRight(k)
    BY <1>1 DEF SearchInv, DescriptorInv
  <2>2. ASSUME NEW k \in PvdStart..(PvdStart + off' - 2)
        PROVE  k \in failed \/ ~LooksRight(k)
    <3>1. CASE k \in PvdStart..(PvdStart + off - 2)
      BY <2>1, <3>1
    <3>2. CASE k = PvdStart + off - 1
      <4>1. off > 0 /\ lba = k
        BY <1>1, <2>1, <3>2, ConstFacts
      <4>2. k \in failed \/ buf = k
        BY <1>1, <4>1 DEF SearchInv, ReadInv
      <4>3. buf = k => ~LooksRight(k)
        BY <1>1, BufferFacts DEF LooksRight, SearchInv
      <4> QED
        BY <4>2, <4>3
    <3> QED
      BY <1>1, <3>1, <3>2, ConstFacts
  <2> QED
    BY <1>1, <2>1, <2>2, SameDisc, ConstFacts DEF DescriptorInv
<1>5. RootInv' /\ DirectoryInv' /\ HeaderInv' /\ PrefixSearch' /\ FoundIsListed'
  BY <1>1 DEF RootInv, DirectoryInv, HeaderInv, PrefixSearch, FoundIsListed
<1> QED
  BY <1>2, <1>3, <1>4, <1>5 DEF SearchInv

\* If a sector of the disc looks like a descriptor, there is a first one.
LEMMA DescriptorIsFirst ==
  ASSUME disc \in Discs, NEW l \in Nat, LooksRight(l), PvdStart <= l
  PROVE  /\ DescriptorLba \in PvdStart..LastLba /\ IsDescriptor(DescriptorLba)
         /\ DescriptorLba <= l
<1> DEFINE T == {k \in Nat : PvdStart <= k /\ LooksRight(k)}
<1>1. T \subseteq Nat /\ l \in T
  OBVIOUS
<1>2. PICK m \in T : \A k \in T : m <= k
  <2> HIDE DEF T
  <2> QED BY <1>1, Least
<1>3. \A k \in DOMAIN disc : k \in Lba
  BY SearchAssumption
<1>4. m \in PvdStart..LastLba
  BY <1>3, ConstFacts DEF LooksRight, Lba
<1>5. IsDescriptor(m)
  BY <1>2, ConstFacts DEF IsDescriptor
<1>6. DescriptorLba \in PvdStart..LastLba /\ IsDescriptor(DescriptorLba)
  BY <1>4, <1>5 DEF DescriptorLba
<1>7. DescriptorLba <= l
  <2>1. DescriptorLba \in Nat
    BY <1>3, <1>6 DEF IsDescriptor, LooksRight, Lba
  <2>2. ~(l \in PvdStart..(DescriptorLba - 1))
    BY <1>6 DEF IsDescriptor
  <2> QED
    BY <2>1, <2>2, ConstFacts
<1> QED
  BY <1>6, <1>7

LEMMA TakeKeeps ==
  ASSUME SearchInv, TakeDescriptor, UNCHANGED failed
  PROVE  SearchInv'
<1>1. /\ UNCHANGED <<disc, kernelLba, loadSize, phase, lba, buf, result, failed>>
      /\ pc = "pvd" /\ phase = "idle" /\ pc' = "dir" /\ off' = 0
      /\ Buffer.first = PVD_SIGNATURE
      /\ dirLba' = Buffer.dirLba
      /\ dirSectors' = (Buffer.dirSize \div SectorSize) % Word16
  BY DEF TakeDescriptor, Returned, readVars
<1>2. disc \in Discs /\ off \in Nat
  BY DEF SearchInv, TypeOK
<1>3. buf \in DOMAIN disc /\ Buffer = disc[buf] /\ IsSector(Buffer)
  BY <1>1, BufferFacts DEF SearchInv
<1>4. buf \in PvdStart..(PvdStart + off - 1) /\ off > 0 /\ buf \in Nat
  <2>1. buf # NoSector
    BY <1>3, <1>2, SearchAssumption
  <2> QED
    BY <2>1, <1>1, <1>2, ConstFacts DEF SearchInv, DescriptorInv
<1>5. LooksRight(buf)
  BY <1>1, <1>3 DEF LooksRight
<1>6. /\ DescriptorLba \in PvdStart..LastLba /\ IsDescriptor(DescriptorLba)
      /\ DescriptorLba <= buf
  BY <1>2, <1>4, <1>5, DescriptorIsFirst, ConstFacts
<1>7. ASSUME DescriptorLba \notin failed PROVE buf = DescriptorLba
  <2>1. LooksRight(DescriptorLba)
    BY <1>6 DEF IsDescriptor
  <2>2. DescriptorLba \notin PvdStart..(PvdStart + off - 2)
    BY <1>1, <1>7, <2>1 DEF SearchInv, DescriptorInv
  <2> QED
    BY <1>2, <1>4, <1>6, <2>2, ConstFacts
<1>8. Buffer.dirLba \in Nat /\ Buffer.dirSize \div SectorSize \in Nat
  <2>1. Buffer.dirLba \in Nat /\ Buffer.dirSize \in Nat
    BY <1>3 DEF IsSector
  <2>2. SectorSize \in Nat \ {0}
    BY ConstFacts
  <2> QED
    BY <2>1, <2>2
<1>9. TypeOK'
  BY <1>1, <1>8, ConstFacts DEF SearchInv, TypeOK
<1>10. ReadInv' /\ DescriptorInv' /\ HeaderInv' /\ PrefixSearch' /\ FoundIsListed'
  BY <1>1, <1>4 DEF SearchInv, ReadInv, DescriptorInv, HeaderInv, PrefixSearch,
     FoundIsListed
<1>11. RootInv'
  BY <1>1, <1>3, <1>6, <1>7, SameDisc DEF RootInv, Descriptor, RootSectors
<1>12. DirectoryInv'
  BY <1>1, <1>7, SameDisc DEF DirectoryInv
<1> QED
  BY <1>9, <1>10, <1>11, <1>12 DEF SearchInv

LEMMA ReadDirectoryKeeps ==
  ASSUME SearchInv, ReadDirectory, UNCHANGED failed
  PROVE  SearchInv'
<1> USE DEF Read, Reader!Begin, Returned
<1>1. /\ UNCHANGED <<disc, off, dirLba, dirSectors, kernelLba, loadSize, buf,
                     result, failed>>
      /\ pc = "dir" /\ pc' = "records" /\ phase = "idle" /\ phase' = "busy"
      /\ lba' = dirLba + off /\ off < dirSectors
  BY DEF ReadDirectory
<1>2. TypeOK'
  BY <1>1 DEF SearchInv, TypeOK
<1>3. ReadInv' /\ DescriptorInv' /\ HeaderInv' /\ PrefixSearch' /\ FoundIsListed'
  BY <1>1 DEF ReadInv, DescriptorInv, HeaderInv, PrefixSearch, FoundIsListed
<1>4. RootInv'
  BY <1>1, SameDisc DEF SearchInv, RootInv
<1>5. DirectoryInv'
  BY <1>1, SameDisc DEF SearchInv, DirectoryInv
<1> QED
  BY <1>2, <1>3, <1>4, <1>5 DEF SearchInv

\* At the end of a sector, and of the directory, nothing was missed in it.
LEMMA RootIsKnown ==
  ASSUME TypeOK, RootInv, pc # "pvd"
  PROVE  /\ Rooted /\ RootSectors \in Nat
         /\ DescriptorLba \notin failed =>
              /\ dirLba = Descriptor.dirLba
              /\ dirSectors <= RootSectors
              /\ RootSectors < Word16 => dirSectors = RootSectors
<1>1. Rooted
  BY DEF TypeOK, RootInv, Rooted, IsDescriptor, LooksRight
<1>2. RootSectors \in Nat
  BY <1>1, RootFacts
<1>3. \A w \in Nat \ {0} : /\ RootSectors % w <= RootSectors
                           /\ RootSectors < w => RootSectors % w = RootSectors
  BY <1>2
<1> QED
  BY <1>1, <1>2, <1>3, ConstFacts DEF RootInv

LEMMA SectorKeeps ==
  ASSUME SearchInv, SearchSector, UNCHANGED failed
  PROVE  SearchInv'
<1> DEFINE n == First(Buffer.records)
           r == Buffer.records[n]
           hit == n # 0 /\ r.lba # 0
<1>1. /\ UNCHANGED <<disc, dirLba, dirSectors, phase, lba, buf, result, failed>>
      /\ pc = "records" /\ phase = "idle"
      /\ kernelLba' = IF hit THEN r.lba ELSE 0
      /\ loadSize' = IF n # 0 THEN r.size ELSE loadSize
      /\ pc' = IF hit THEN "found" ELSE "dir"
      /\ off' = IF hit THEN off ELSE off + 1
  BY DEF SearchSector, Returned, readVars, FirstMatch, First
<1>2. TypeOK /\ RootInv /\ IsSector(Buffer) /\ Buffer.records \in Seq(AnyRecord)
  BY BufferFacts DEF SearchInv
<1>3. /\ n \in 0..Len(Buffer.records)
      /\ n # 0 => n \in DOMAIN Buffer.records /\ NameMatches(r)
  BY <1>2, FirstFacts
<1>4. n # 0 => r.lba \in Nat /\ r.size \in Nat
  BY <1>2, <1>3 DEF IsSector
<1>5. /\ Rooted /\ RootSectors \in Nat
      /\ DescriptorLba \notin failed =>
           /\ dirLba = Descriptor.dirLba
           /\ dirSectors <= RootSectors
           /\ RootSectors < Word16 => dirSectors = RootSectors
  BY <1>1, <1>2, RootIsKnown
<1>6. /\ off < dirSectors /\ lba = dirLba + off
      /\ DescriptorLba \notin failed =>
           \/ buf \in {NoSector, DescriptorLba}
           \/ \E k \in 1..dirSectors : buf = dirLba + k - 1
      /\ failed = {} => \A k \in 1..off : Missed(k)
      /\ off \in Nat /\ dirLba \in Nat /\ dirSectors \in Nat
      /\ lba \in failed \/ buf = lba
  BY <1>1 DEF SearchInv, DirectoryInv, ReadInv, TypeOK
\* The buffer is the directory's sector when no read failed.
<1>7. ASSUME failed = {}
      PROVE  /\ off + 1 \in 1..RootSectors /\ Part(off + 1) = RecordsAt(buf)
             /\ \A k \in 1..off : Missed(k)
             /\ RootSectors < Word16 => dirSectors = RootSectors
  BY <1>5, <1>6, <1>7 DEF Part
<1>8. buf \in DOMAIN disc => Buffer.records = RecordsAt(buf)
  BY <1>2, BufferFacts DEF RecordsAt
<1>9. buf \notin DOMAIN disc => Buffer.records = <<>> /\ RecordsAt(buf) = <<>>
  BY <1>2 DEF TypeOK, Buffer, Zeroes, RecordsAt
<1>10. failed = {} => Part(off + 1) = Buffer.records
  BY <1>7, <1>8, <1>9
<1> HIDE DEF n, r
<1>11. TypeOK'
  BY <1>1, <1>2, <1>4, <1>6 DEF TypeOK
<1>12. ReadInv' /\ DescriptorInv' /\ HeaderInv'
  BY <1>1 DEF SearchInv, ReadInv, DescriptorInv, HeaderInv
<1>13. RootInv'
  BY <1>1, SameDisc DEF SearchInv, RootInv
<1>14. DirectoryInv'
  <2>1. CASE hit
    BY <1>1, <2>1 DEF DirectoryInv
  <2>2. CASE ~hit
    <3>1. failed = {} => Missed(off + 1)
      BY <1>10, <2>2 DEF Missed, n, r
    <3>2. failed = {} => \A k \in 1..(off + 1) : Missed(k)
      BY <1>6, <3>1
    <3> QED
      BY <1>1, <1>6, <2>2, <3>2, SameDisc DEF DirectoryInv
  <2> QED
    BY <2>1, <2>2
<1>15. PrefixSearch'
  <2> SUFFICES ASSUME hit, failed = {}, RootSectors < Word16
               PROVE  /\ Matching # {}
                      /\ FirstMatching.lba # 0 => /\ r.lba = FirstMatching.lba
                                              /\ r.size = FirstMatching.size
    BY <1>1, SameDisc DEF PrefixSearch
  <2>1. off + 1 \in 1..RootSectors /\ Part(off + 1) = Buffer.records
    BY <1>7, <1>10
  <2>2. Matching # {}
    BY <1>3, <1>5, <2>1, ListedMatches DEF n, r
  <2>3. PICK j \in 1..RootSectors :
           /\ First(Part(j)) # 0 /\ FirstMatching = Part(j)[First(Part(j))]
           /\ \A k \in 1..(j - 1) : First(Part(k)) = 0
    BY <1>5, <2>2, FirstIsFirst
  <2>4. ASSUME FirstMatching.lba # 0 PROVE FirstMatching = r
    <3>1. ~(j \in 1..off)
      BY <1>7, <2>3, <2>4 DEF Missed
    <3>2. ~(off + 1 \in 1..(j - 1))
      BY <2>1, <2>3 DEF n
    <3>3. j = off + 1
      BY <1>6, <3>1, <3>2
    <3> QED
      BY <2>1, <2>3, <3>3 DEF n, r
  <2> QED
    BY <2>2, <2>4
<1>16. FoundIsListed'
  <2> SUFFICES ASSUME hit, DescriptorLba \notin failed,
                      \A m \in DOMAIN Descriptor.records :
                         ~NameMatches(Descriptor.records[m])
               PROVE  \E m \in Matching : /\ RootRecords[m].lba = r.lba
                                          /\ RootRecords[m].size = r.size
    BY <1>1, SameDisc, KernelsMatch DEF FoundIsListed
  <2>1. buf # DescriptorLba
    <3>1. buf = DescriptorLba => Buffer = Descriptor
      BY <1>2, <1>5, BufferFacts DEF Rooted, Descriptor
    <3> QED
      BY <1>3, <3>1 DEF r
  <2>5. buf # NoSector
    <3>1. buf = NoSector => Buffer.records = <<>>
      BY DEF Buffer, Zeroes
    <3> QED
      BY <1>3, <3>1
  <2>2. PICK k \in 1..dirSectors : buf = dirLba + k - 1
    BY <1>6, <2>1, <2>5
  <2>3. k \in 1..RootSectors /\ Part(k) = Buffer.records
    BY <1>5, <1>6, <1>8, <1>9, <2>2 DEF Part
  <2>4. \E m \in Matching : RootRecords[m] = r
    BY <1>3, <1>5, <2>3, ListedMatches DEF n, r
  <2> QED
    BY <2>4
<1> QED
  BY <1>11, <1>12, <1>13, <1>14, <1>15, <1>16 DEF SearchInv
LEMMA NotFoundKeeps ==
  ASSUME SearchInv, NotFound, UNCHANGED failed
  PROVE  SearchInv'
<1>1. /\ UNCHANGED <<disc, off, dirLba, dirSectors, kernelLba, phase, lba, buf,
                     result, failed>>
      /\ pc = "dir" /\ pc' = "halted" /\ phase = "idle"
      /\ off = dirSectors /\ loadSize' = 0
  BY DEF NotFound, Returned, readVars
<1>2. TypeOK'
  BY <1>1 DEF SearchInv, TypeOK
<1>3. /\ ReadInv' /\ DescriptorInv' /\ DirectoryInv' /\ HeaderInv'
      /\ FoundIsListed'
  BY <1>1 DEF SearchInv, ReadInv, DescriptorInv, DirectoryInv, HeaderInv,
     FoundIsListed
<1>4. RootInv'
  BY <1>1, SameDisc DEF SearchInv, RootInv
<1>5. PrefixSearch'
  <2> SUFFICES ASSUME failed = {}, RootSectors < Word16, Matching # {},
                      FirstMatching.lba # 0
               PROVE  FALSE
    BY <1>1, SameDisc DEF PrefixSearch
  <2>1. Rooted /\ dirSectors = RootSectors
    BY <1>1, RootIsKnown DEF SearchInv
  <2>2. PICK j \in 1..RootSectors :
           First(Part(j)) # 0 /\ FirstMatching = Part(j)[First(Part(j))]
    BY <2>1, FirstIsFirst
  <2>3. Missed(j)
    BY <1>1, <2>1 DEF SearchInv, DirectoryInv
  <2> QED
    BY <2>2, <2>3 DEF Missed
<1> QED
  BY <1>2, <1>3, <1>4, <1>5 DEF SearchInv

LEMMA HeaderKeeps ==
  ASSUME SearchInv, ReadHeader \/ UseHeader, UNCHANGED failed
  PROVE  SearchInv'
<1> USE DEF Read, Reader!Begin, Returned, readVars
<1>1. /\ UNCHANGED <<disc, off, dirLba, dirSectors, kernelLba, loadSize, buf,
                     failed>>
      /\ pc \in {"found", "header"} /\ pc' \in {"header", "allocate"}
      /\ phase = "idle"
      /\ \/ phase' = "busy" /\ pc' = "header"
         \/ phase' = "idle" /\ pc = "header" /\ UNCHANGED lba
      /\ pc = "found" => lba' = kernelLba
      /\ pc = "header" => UNCHANGED lba
      /\ result' \in {"none", "full"}
  BY DEF ReadHeader, UseHeader, SearchInv, TypeOK
<1>2. TypeOK'
  BY <1>1 DEF SearchInv, TypeOK
<1>3. HeaderInv'
  BY <1>1 DEF SearchInv, HeaderInv
<1>4. ReadInv'
  BY <1>1 DEF SearchInv, ReadInv
<1>5. DescriptorInv' /\ DirectoryInv' /\ PrefixSearch'
  BY <1>1 DEF DescriptorInv, DirectoryInv, PrefixSearch
<1>6. RootInv' /\ FoundIsListed'
  BY <1>1, SameDisc DEF SearchInv, RootInv, FoundIsListed
<1> QED
  BY <1>2, <1>3, <1>4, <1>5, <1>6 DEF SearchInv

LEMMA SearchNextKeeps == SearchInv /\ [Next]_vars => SearchInv'
<1> SUFFICES ASSUME SearchInv, [Next]_vars PROVE SearchInv'
  OBVIOUS
<1>1. CASE Next
  BY <1>1, ReadKeeps, NextDescriptorKeeps, TakeKeeps, ReadDirectoryKeeps,
     SectorKeeps, NotFoundKeeps, HeaderKeeps DEF Next, Search
<1>2. CASE UNCHANGED vars
  <2>1. UNCHANGED <<disc, phase, lba, buf, result, pc, off, dirLba, dirSectors,
                    kernelLba, loadSize, failed>>
    BY <1>2 DEF vars, readVars, searchVars
  <2>2. TypeOK' /\ ReadInv' /\ HeaderInv'
    BY <2>1 DEF SearchInv, TypeOK, ReadInv, HeaderInv
  <2>3. DescriptorInv' /\ RootInv' /\ DirectoryInv'
    BY <2>1, SameDisc DEF SearchInv, DescriptorInv, RootInv, DirectoryInv
  <2>4. PrefixSearch' /\ FoundIsListed'
    BY <2>1, SameDisc DEF SearchInv, PrefixSearch, FoundIsListed
  <2> QED
    BY <2>2, <2>3, <2>4 DEF SearchInv
<1> QED
  BY <1>1, <1>2

\* In every state the invariant holds.
THEOREM SearchInvariant == Spec => []SearchInv
<1>1. Init => SearchInv
  BY SearchStarts
<1>2. SearchInv /\ [Next]_vars => SearchInv'
  BY SearchNextKeeps
<1> QED
  BY <1>1, <1>2, PTL DEF Spec

-----------------------------------------------------------------------------
(* What the module promises, for every disc.                               *)

\* The variables of cdrom_search, and of main around it, stay in their ranges,
\* and the loop over the root directory never runs past its last sector.
THEOREM TypeCorrect == Spec => []TypeOK
<1>1. SearchInv => TypeOK
  BY DEF SearchInv
<1> QED
  BY <1>1, SearchInvariant, PTL

\* When every read succeeds, cdrom_search returns the extent and the size of the
\* root directory's first file with exactly the kernel's name (cdrom.h:58), in
\* whichever of its sectors it is listed, and 0 when there is none, provided the
\* directory lists no longer name that begins so before it.
THEOREM SearchRight == Spec => []SearchIsRight
<1>1. SearchInv => SearchIsRight
  <2> SUFFICES ASSUME SearchInv, pc \in {"found", "halted"}, failed = {},
                      RootSectors < Word16,
                      \A n \in LookAlikes : \E k \in Kernels : k < n
               PROVE  IF Kernels = {} THEN pc = "halted" /\ loadSize = 0
                      ELSE FirstFile.lba # 0 => /\ pc = "found"
                                                /\ kernelLba = FirstFile.lba
                                                /\ loadSize = FirstFile.size
    BY DEF SearchIsRight
  <2>1. Rooted
    BY RootIsKnown DEF SearchInv
  <2> QED
    BY <2>1, KernelIsFirst DEF SearchInv, PrefixSearch
<1> QED
  BY <1>1, SearchInvariant, PTL

\* When every read succeeds, main reads the header it goes by from the kernel's
\* first sector, whatever cdrom_search left in cdrom_buf.
THEOREM HeaderRight == Spec => []HeaderIsKernels
<1>1. SearchInv => HeaderIsKernels
  BY DEF SearchInv, ReadInv, HeaderInv, HeaderIsKernels
<1> QED
  BY <1>1, SearchInvariant, PTL

\* Whatever reads of the directory are refused, or fail and fill cdrom_buf with
\* nothing that looks like a record, a kernel that cdrom_search returns is one
\* of the files that the root directory lists under a name that begins with the
\* kernel's, with its own extent and size.
THEOREM ListedFound == Spec => []FoundIsListed
<1>1. SearchInv => FoundIsListed
  BY DEF SearchInv
<1> QED
  BY <1>1, SearchInvariant, PTL

-----------------------------------------------------------------------------
(* Once it has a volume descriptor the search cannot go on for ever.       *)

\* The steps of a call of cdrom_read_sector, then those of the search: four for
\* each sector of the directory, and four for main to read the header.
InRead == CASE phase = "idle" -> 0 [] phase = "done" -> 1 [] phase = "busy" -> 2
InSearch == CASE pc \in {"dir", "records"} -> 5 + 4 * (dirSectors - off)
              [] pc = "found" -> 4
              [] pc = "header" -> 1
              [] pc \in {"halted", "allocate"} -> 0
SearchLeft == IF pc = "records" THEN InSearch + InRead - 3 ELSE InSearch + InRead

\* What a step does to them.
LEMMA SearchGoesOn ==
  ASSUME SearchInv, Next, pc # "pvd"
  PROVE  /\ phase \in {"idle", "done", "busy"} /\ off \in Nat /\ dirSectors \in Nat
         /\ dirSectors' = dirSectors
         /\ pc \in {"dir", "found"} => phase = "idle"
         /\ \/ /\ pc \in {"records", "header"} /\ pc' = pc /\ off' = off
               /\ \/ phase = "busy" /\ phase' \in {"done", "idle"}
                  \/ phase = "done" /\ phase' = "idle"
               /\ pc = "records" => off < dirSectors
            \/ /\ pc = "dir" /\ pc' = "records" /\ phase' = "busy"
               /\ off < dirSectors /\ off' = off
            \/ /\ pc = "records" /\ pc' = "dir" /\ off' = off + 1
               /\ off < dirSectors /\ phase = "idle" /\ phase' = "idle"
            \/ /\ pc = "records" /\ pc' = "found" /\ off < dirSectors
               /\ phase = "idle" /\ phase' = "idle"
            \/ /\ pc = "dir" /\ pc' = "halted" /\ off = dirSectors
               /\ phase' = "idle"
            \/ pc = "found" /\ pc' = "header" /\ phase' = "busy"
            \/ pc = "header" /\ pc' = "allocate" /\ phase = "idle" /\ phase' = "idle"
<1>1. /\ phase \in {"idle", "done", "busy"} /\ off \in Nat
      /\ dirSectors \in 0..(Word16 - 1) /\ Word16 \in Nat
      /\ pc = "records" => off < dirSectors
      /\ phase # "idle" => pc \in {"records", "header"}
  BY ConstFacts DEF SearchInv, TypeOK, DirectoryInv, ReadInv
<1>2. CASE ReadStep
  BY <1>1, <1>2
     DEF ReadStep, Reader!Deliver, Reader!Refuse, Reader!End, Garble, searchVars
<1>3. CASE NextDescriptor \/ TakeDescriptor
  BY <1>3 DEF NextDescriptor, TakeDescriptor
<1>4. CASE ReadDirectory
  BY <1>1, <1>4 DEF ReadDirectory, Returned, Read, Reader!Begin
<1>5. CASE SearchSector
  <2>1. /\ pc = "records" /\ phase = "idle" /\ phase' = phase
        /\ dirSectors' = dirSectors
    BY <1>5 DEF SearchSector, Returned, readVars
  <2>2. pc' = "found" \/ (pc' = "dir" /\ off' = off + 1)
    BY <1>5 DEF SearchSector
  <2> QED
    BY <1>1, <2>1, <2>2
<1>6. CASE NotFound
  BY <1>1, <1>6 DEF NotFound, Returned, readVars
<1>7. CASE ReadHeader
  BY <1>1, <1>7 DEF ReadHeader, Returned, Read, Reader!Begin
<1>8. CASE UseHeader
  BY <1>1, <1>8 DEF UseHeader, Returned, readVars
<1> QED
  BY <1>2, <1>3, <1>4, <1>5, <1>6, <1>7, <1>8 DEF Next, Search

LEMMA SearchLeftIsNat ==
  ASSUME SearchInv, pc # "pvd"
  PROVE  SearchLeft \in Nat /\ SearchLeft <= 5 + 4 * dirSectors
<1>1. /\ phase \in {"idle", "done", "busy"} /\ off \in Nat /\ dirSectors \in Nat
      /\ pc = "records" => off < dirSectors
      /\ pc = "dir" => off <= dirSectors
      /\ phase # "idle" => pc \in {"records", "header"}
      /\ pc \in {"dir", "records", "found", "halted", "header", "allocate"}
  BY ConstFacts DEF SearchInv, TypeOK, DirectoryInv, ReadInv
<1>2. InRead \in 0..2 /\ (phase = "idle" => InRead = 0)
  BY <1>1 DEF InRead
<1>3. CASE pc \in {"dir", "records"}
  <2>1. InSearch = 5 + 4 * (dirSectors - off)
    BY <1>3 DEF InSearch
  <2> QED
    BY <1>1, <1>2, <1>3, <2>1 DEF SearchLeft
<1>4. CASE pc \in {"found", "halted", "header", "allocate"}
  <2>1. InSearch \in 0..4 /\ (pc = "header" => InSearch = 1)
    BY <1>4 DEF InSearch
  <2> QED
    BY <1>1, <1>2, <1>4, <2>1 DEF SearchLeft
<1> QED
  BY <1>1, <1>3, <1>4

LEMMA SearchFalls ==
  ASSUME SearchInv, Next, pc # "pvd"
  PROVE  SearchLeft' < SearchLeft
<1>1. off \in Nat /\ dirSectors \in Nat /\ dirSectors' = dirSectors
  BY SearchGoesOn
<1>2. CASE pc \in {"records", "header"} /\ pc' = pc
  <2>1. /\ InRead \in Nat /\ InRead' \in Nat /\ InRead' < InRead /\ off' = off
        /\ pc = "records" => off < dirSectors
    BY <1>2, SearchGoesOn DEF InRead
  <2>2. InSearch' = InSearch /\ InSearch \in Int
    BY <1>1, <1>2, <2>1 DEF InSearch
  <2>3. \A i \in Int, j, k \in Nat : j < k => i + j < i + k /\ i + j - 3 < i + k - 3
    OBVIOUS
  <2>4. \/ SearchLeft = InSearch + InRead /\ SearchLeft' = InSearch + InRead'
        \/ /\ SearchLeft = InSearch + InRead - 3
           /\ SearchLeft' = InSearch + InRead' - 3
    BY <1>2, <2>2 DEF SearchLeft
  <2> QED
    BY <2>1, <2>2, <2>3, <2>4
<1>3. CASE pc = "dir" /\ pc' = "records"
  <2>1. InRead' = 2 /\ InRead = 0 /\ off' = off
    BY <1>3, SearchGoesOn DEF InRead
  <2>2. InSearch' = InSearch /\ InSearch \in Int
    BY <1>1, <1>3, <2>1 DEF InSearch
  <2> QED
    BY <1>3, <2>1, <2>2 DEF SearchLeft
<1>4. CASE pc = "records" /\ pc' = "dir"
  <2>1. InRead' = 0 /\ InRead = 0 /\ off' = off + 1
    BY <1>4, SearchGoesOn DEF InRead
  <2>2. InSearch' = InSearch - 4 /\ InSearch \in Int
    BY <1>1, <1>4, <2>1 DEF InSearch
  <2> QED
    BY <1>4, <2>1, <2>2 DEF SearchLeft
<1>5. CASE pc = "records" /\ pc' = "found"
  <2>1. InRead' = 0 /\ InRead = 0 /\ off < dirSectors
    BY <1>5, SearchGoesOn DEF InRead
  <2>2. InSearch' = 4 /\ InSearch = 5 + 4 * (dirSectors - off)
    BY <1>5 DEF InSearch
  <2>3. 4 * (dirSectors - off) >= 4
    BY <1>1, <2>1
  <2> QED
    BY <1>1, <1>5, <2>1, <2>2, <2>3 DEF SearchLeft
<1>6. CASE pc = "dir" /\ pc' = "halted"
  <2>1. InRead' = 0 /\ InRead = 0 /\ off = dirSectors
    BY <1>6, SearchGoesOn DEF InRead
  <2>2. InSearch' = 0 /\ InSearch = 5 + 4 * (dirSectors - off)
    BY <1>6 DEF InSearch
  <2> QED
    BY <1>1, <1>6, <2>1, <2>2 DEF SearchLeft
<1>7. CASE \/ pc = "found" /\ pc' = "header"
           \/ pc = "header" /\ pc' = "allocate"
  BY <1>7, SearchGoesOn DEF InRead, InSearch, SearchLeft
<1> QED
  BY SearchGoesOn, <1>2, <1>3, <1>4, <1>5, <1>6, <1>7

\* From the volume descriptor on the search is a countdown: whatever the disc
\* holds and whichever reads fail, no more than four steps for a sector
\* of the directory and five more are left, and each makes them fewer, until
\* "kernel not found" or the kernel's header. (Only the loop before it, which
\* looks for the descriptor, has no other end.)
THEOREM SearchCountsDown ==
  Spec => /\ [](pc # "pvd" => SearchLeft \in Nat /\ SearchLeft <= 5 + 4 * dirSectors)
          /\ [][pc # "pvd" => SearchLeft' < SearchLeft]_vars
<1>1. SearchInv =>
        (pc # "pvd" => SearchLeft \in Nat /\ SearchLeft <= 5 + 4 * dirSectors)
  BY SearchLeftIsNat
<1>2. SearchInv /\ [Next]_vars => [pc # "pvd" => SearchLeft' < SearchLeft]_vars
  BY SearchFalls
<1> QED
  BY <1>1, <1>2, SearchInvariant, PTL DEF Spec
=============================================================================
