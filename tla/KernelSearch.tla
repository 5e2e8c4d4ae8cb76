---------------------------- MODULE KernelSearch ----------------------------
(***************************************************************************)
(* How stage 2 finds the kernel on the disc: cdrom_search and              *)
(* search_directory (cdrom.c), called by main (stage2.c), which then reads *)
(* the kernel's header.  The code looks at no read's result; the reads are *)
(* those of SectorRead, which the driver implements.                       *)
(***************************************************************************)
EXTENDS Integers, SequencesExt

CONSTANTS Discs,          \* the discs that may be in the drive
          NoSector,       \* a buffer that holds no sector of the disc
          KernelName,     \* kernel_name
          PvdStart,       \* PVD_START
          LastLba,        \* no disc is longer
          SectorSize,     \* CD_SECTOR_SIZE
          Word16          \* number of values of a uint16_t

(***************************************************************************)
(* A disc maps its readable addresses to sectors.  A sector is what        *)
(* cdrom_search reads in it: its first byte, the extent of the root        *)
(* directory if it is taken for a volume descriptor, the records up to the *)
(* first of length 0 if it is taken for a part of a directory.             *)
(***************************************************************************)
Lba == 0..LastLba
IsSector(s) == /\ s.first \in 0..255
               /\ s.dirLba \in Nat /\ s.dirSize \in Nat
               /\ s.records \in Seq(Range(s.records))
               /\ \A n \in DOMAIN s.records :
                     s.records[n].lba \in Nat /\ s.records[n].size \in Nat

ASSUME SearchAssumption ==
  /\ PvdStart \in Lba /\ SectorSize \in Nat \ {0} /\ Word16 \in Nat \ {0}
  /\ NoSector \notin Lba /\ KernelName \in Seq(Range(KernelName))
  /\ \A d \in Discs : \A l \in DOMAIN d : l \in Lba /\ IsSector(d[l])

VARIABLES disc,
          phase, lba, buf, result,   \* the call of cdrom_read_sector
          pc,                        \* where cdrom_search, or main, is
          off,                       \* lba_off, then cur_dir_lba
          dirLba, dirSectors,        \* dir_lba, dir_sectors
          kernelLba, loadSize,       \* what cdrom_search returned to main
          failed                     \* the addresses whose read failed

readVars == <<phase, lba, buf, result>>
searchVars == <<pc, off, dirLba, dirSectors, kernelLba, loadSize>>
vars == <<disc, readVars, searchVars, failed>>

Reader == INSTANCE SectorRead

\* A buffer without a sector shows neither a descriptor nor a record. Before
\* the first read it is bss, and so zero.
PVD_SIGNATURE == 1
Zeroes == [first |-> 0, dirLba |-> 0, dirSize |-> 0, records |-> <<>>]
Buffer == IF buf = NoSector THEN Zeroes ELSE disc[buf]

Init == /\ disc \in Discs
        /\ phase = "idle" /\ lba = 0 /\ buf = NoSector /\ result = "none"
        /\ pc = "pvd" /\ off = 0
        /\ dirLba = 0 /\ dirSectors = 0
        /\ kernelLba = 0 /\ loadSize = 0
        /\ failed = {}

-----------------------------------------------------------------------------
(* The reads.  The drive refuses what is not on the disc, and may refuse a *)
(* sector that is: the buffer then keeps what it held.  A read that fails  *)
(* only after the packet returns a size all the same (CdromDriver's quirk  *)
(* "checkCondition"), and has filled the buffer from a port without data.  *)

Read(l) == Reader!Begin(l) /\ buf' = buf

\* (That a port without data shows neither a volume descriptor nor a record of
\* the kernel's is assumed.)
Garble == /\ phase = "busy" /\ phase' = "done"
          /\ buf' = NoSector /\ result' = "full"
          /\ UNCHANGED lba

ReadStep == /\ \/ lba \in DOMAIN disc /\ Reader!Deliver /\ UNCHANGED failed
               \/ (Reader!Refuse \/ Garble) /\ failed' = failed \cup {lba}
               \/ Reader!End /\ UNCHANGED failed
            /\ UNCHANGED <<disc, searchVars>>

Returned == phase = "idle"

-----------------------------------------------------------------------------
(* cdrom_search.                                                           *)

\* Slip: the same sector is read again.
SameDescriptor == /\ pc = "pvd" /\ Returned
                  /\ Buffer.first # PVD_SIGNATURE
                  /\ Read(PvdStart + off)
                  /\ UNCHANGED <<disc, searchVars>>

\* while (buff[0] != PVD_SIGNATURE) read the next sector. The code goes on
\* beyond the end of the disc; LastLba bounds that.
NextDescriptor == /\ pc = "pvd" /\ Returned
                  /\ Buffer.first # PVD_SIGNATURE
                  /\ PvdStart + off <= LastLba
                  /\ Read(PvdStart + off)
                  /\ off' = off + 1
                  /\ UNCHANGED <<disc, pc, dirLba, dirSectors, kernelLba,
                                 loadSize>>

\* dir_sectors is a uint16_t.
TakeDescriptor == /\ pc = "pvd" /\ Returned
                  /\ Buffer.first = PVD_SIGNATURE
                  /\ dirLba' = Buffer.dirLba
                  /\ dirSectors' = (Buffer.dirSize \div SectorSize) % Word16
                  /\ off' = 0
                  /\ pc' = "dir"
                  /\ UNCHANGED <<disc, readVars, kernelLba, loadSize>>

\* Slip: one sector too many.
ReadBeyondDirectory == /\ pc = "dir" /\ Returned
                       /\ off <= dirSectors
                       /\ Read(dirLba + off)
                       /\ pc' = "records"
                       /\ UNCHANGED <<disc, off, dirLba, dirSectors, kernelLba,
                                      loadSize>>

ReadDirectory == /\ pc = "dir" /\ Returned
                 /\ off < dirSectors
                 /\ Read(dirLba + off)
                 /\ pc' = "records"
                 /\ UNCHANGED <<disc, off, dirLba, dirSectors, kernelLba,
                                loadSize>>

\* compare_str returns 0: every character of the name is there. What follows
\* them in the record, normally the version, is not looked at.
NameMatches(r) == IsPrefix(KernelName, r.name)

\* Slip: the search goes on after a match.
LastMatch(s) == SelectLastInSeq(s.records, NameMatches)

\* search_directory: the first record of the sector that matches.
FirstMatch(s) == SelectInSeq(s.records, NameMatches)

\* A file without an extent (lba 0) is taken for no match.
SearchSector ==
  /\ pc = "records" /\ Returned
  /\ LET n == FirstMatch(Buffer)
         hit == n # 0 /\ Buffer.records[n].lba # 0
     IN /\ kernelLba' = IF hit THEN Buffer.records[n].lba ELSE 0
        /\ loadSize' = IF n # 0 THEN Buffer.records[n].size ELSE loadSize
        /\ pc' = IF hit THEN "found" ELSE "dir"
        /\ off' = IF hit THEN off ELSE off + 1
  /\ UNCHANGED <<disc, readVars, dirLba, dirSectors>>

NotFound == /\ pc = "dir" /\ Returned
            /\ off = dirSectors
            /\ loadSize' = 0
            /\ pc' = "halted"
            /\ UNCHANGED <<disc, readVars, off, dirLba, dirSectors, kernelLba>>

-----------------------------------------------------------------------------
(* main.                                                                   *)

\* Slip: what is in cdrom_buf after the search is taken for the header.
SkipHeader == /\ pc = "found" /\ Returned
              /\ pc' = "header"
              /\ UNCHANGED <<disc, readVars, off, dirLba, dirSectors,
                             kernelLba, loadSize>>

ReadHeader == /\ pc = "found" /\ Returned
              /\ Read(kernelLba)
              /\ pc' = "header"
              /\ UNCHANGED <<disc, off, dirLba, dirSectors, kernelLba,
                             loadSize>>

UseHeader == /\ pc = "header" /\ Returned
             /\ pc' = "allocate"
             /\ UNCHANGED <<disc, readVars, off, dirLba, dirSectors, kernelLba,
                            loadSize>>

Search == \/ NextDescriptor \/ TakeDescriptor \/ ReadDirectory \/ SearchSector
          \/ NotFound \/ ReadHeader \/ UseHeader

Next == ReadStep \/ (Search /\ UNCHANGED failed)

\* The driver's calls return (CdromDriver!CallReturns); main runs on.
Spec == Init /\ [][Next]_vars /\ WF_vars(Next)

-----------------------------------------------------------------------------
(* Properties.                                                             *)

\* Every variable stays in its range; the loop over the directory never runs
\* past its last sector.
TypeOK == /\ disc \in Discs
          /\ phase \in {"idle", "busy", "done"} /\ lba \in Nat
          /\ buf \in DOMAIN disc \cup {NoSector} /\ result \in {"none", "full"}
          /\ pc \in {"pvd", "dir", "records", "found", "halted", "header",
                     "allocate"}
          /\ off \in Nat /\ (pc \in {"dir", "records"} => off <= dirSectors)
          /\ dirLba \in Nat /\ dirSectors \in 0..(Word16 - 1)
          /\ kernelLba \in Nat /\ loadSize \in Nat /\ failed \subseteq Nat

(***************************************************************************)
(* The reference: the root directory of the first volume descriptor of the *)
(* disc, as one sequence of records, as far as it is on the disc.          *)
(***************************************************************************)
LooksRight(l) == l \in DOMAIN disc /\ disc[l].first = PVD_SIGNATURE
IsDescriptor(l) == LooksRight(l) /\ \A k \in PvdStart..(l - 1) : ~LooksRight(k)
DescriptorLba == CHOOSE l \in PvdStart..LastLba : IsDescriptor(l)
Descriptor == disc[DescriptorLba]

RootSectors == Descriptor.dirSize \div SectorSize
RecordsAt(l) == IF l \in DOMAIN disc THEN disc[l].records ELSE <<>>
RootRecords ==
  FlattenSeq([n \in 1..RootSectors |-> RecordsAt(Descriptor.dirLba + n - 1)])

\* The kernel's file has "exact name" (cdrom.h:58), here with the version that
\* ISO 9660 puts behind it. A look-alike has a longer name that begins so.
Version == {<<>>, <<";1">>}
IsKernel(r) == \E v \in Version : r.name = KernelName \o v
Kernels == {n \in DOMAIN RootRecords : IsKernel(RootRecords[n])}
LookAlikes == {n \in DOMAIN RootRecords : /\ NameMatches(RootRecords[n])
                                          /\ ~IsKernel(RootRecords[n])}
FirstFile == RootRecords[Min(Kernels)]

\* When every read succeeds, the search ends with the extent and the size of
\* the directory's first file with the kernel's name, and with "not found" when
\* there is none, on a disc that lists no look-alike before it. (The code takes
\* a look-alike for the kernel if it is listed first: cdrom.c:115. An empty file
\* may have no extent, and then hides the rest of its sector; of a directory of
\* 65536 sectors or more only a part is looked at, as dir_sectors has 16 bits.)
SearchIsRight ==
  /\ pc \in {"found", "halted"} /\ failed = {} /\ RootSectors < Word16
  /\ \A n \in LookAlikes : \E k \in Kernels : k < n
  => IF Kernels = {} THEN pc = "halted" /\ loadSize = 0
     ELSE FirstFile.lba # 0 => /\ pc = "found"
                               /\ kernelLba = FirstFile.lba
                               /\ loadSize = FirstFile.size

\* When every read succeeds, the header main uses is the first sector of the
\* file, not what the search left in the buffer they share (cdrom_buf).
HeaderIsKernels == pc = "allocate" /\ failed = {} => buf = kernelLba

\* Whatever other reads failed and left an older sector in the buffer, or no
\* sector at all, once the volume descriptor was read the extent and the size
\* that main goes on with are those of one file of the directory whose name
\* begins with the kernel's. (The descriptor itself may be that older sector:
\* what it holds must not look like the kernel's record. "Kernel not found" may
\* be shown for a kernel that is there.)
FoundIsListed ==
  /\ pc \in {"found", "header", "allocate"}
  /\ DescriptorLba \notin failed
  /\ \A n \in DOMAIN Descriptor.records : ~NameMatches(Descriptor.records[n])
  => \E n \in Kernels \cup LookAlikes : /\ RootRecords[n].lba = kernelLba
                                        /\ RootRecords[n].size = loadSize

\* When every read succeeds, the search ends.
SearchEnds == [](failed = {}) => <>(pc \in {"halted", "allocate"})
=============================================================================
