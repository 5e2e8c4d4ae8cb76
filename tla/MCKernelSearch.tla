--------------------------- MODULE MCKernelSearch ---------------------------
(* KernelSearch on small discs: one or two directory sectors with up to    *)
(* two records, the volume descriptor first or after a boot record, and a  *)
(* path table, whose first byte is 1 as well (the root's name is 1 long).  *)
EXTENDS KernelSearch

MCName == <<"P">>

Record(name, at, size) == [name |-> name, lba |-> at, size |-> size]
Records == {Record(<<"P", ";1">>, 7, 3), Record(<<"P", "x", ";1">>, 8, 2),
            Record(<<"Q", ";1">>, 9, 1)}
EmptyFile == Record(<<"P", ";1">>, 0, 0)

Boot == [first |-> 0, dirLba |-> 0, dirSize |-> 0, records |-> <<>>]
Pvd(size) == [first |-> 1, dirLba |-> 5, dirSize |-> size, records |-> <<>>]
PathTable == [first |-> 1, dirLba |-> 6, dirSize |-> 2, records |-> <<>>]
Directory(rs) == [first |-> 34, dirLba |-> 0, dirSize |-> 0, records |-> rs]
Data == [first |-> 34, dirLba |-> 0, dirSize |-> 0, records |-> <<>>]

Distinct(s) == \A j, k \in DOMAIN s : j # k => s[j].name # s[k].name
DirectorySectors ==
  {s \in BoundedSeq(Records \cup {EmptyFile}, 2) : Distinct(s)}

MCDisc(last, pvd, size, s, t) ==
  [l \in 2..last |->
     CASE l = pvd -> Pvd(size)
       [] l = 3 /\ pvd = 2 -> Boot
       [] l < pvd -> Boot
       [] l = 4 -> PathTable
       [] l = 5 -> Directory(s)
       [] l = 6 -> Directory(t)
       [] OTHER -> Data]

\* Also a directory of more sectors than dir_sectors holds, and one of which
\* the disc has only the first sector.
MCDiscs ==
  LET short == {u \in DirectorySectors : Len(u) = 1} IN
  {MCDisc(9, pvd, 4, s, t) : pvd \in {2, 3}, s \in DirectorySectors, t \in short}
  \cup {MCDisc(9, pvd, 2, s, <<Record(<<"P", ";1">>, 7, 3)>>) :
          pvd \in {2, 3}, s \in DirectorySectors}
  \cup {MCDisc(9, 2, 10, s, t) : s \in short, t \in short}
  \cup {MCDisc(5, 2, 4, s, <<>>) : s \in DirectorySectors}
=============================================================================
