----------------------------- MODULE BootProbe -----------------------------
(***************************************************************************)
(* The boot in real mode: stage 1 (stage1.asm) loads stage 2, whose stub   *)
(* (stub.asm) asks the BIOS for the boot drive's ports, the processor, a   *)
(* graphics mode and the memory map, and enters protected mode and main.   *)
(* Each question may fail in its own way; what is learnt is left in        *)
(* rm_data for main.  The BIOS's answers are data, chosen once: `bios`.    *)
(***************************************************************************)
EXTENDS Integers, SequencesExt

CONSTANTS Bios,          \* the machines the boot may meet
          Half,          \* number of values of a uint32_t
          TooHigh        \* lines from which on a mode is passed over

(***************************************************************************)
(* A machine: edd, whether the extended disk calls are there; disc,        *)
(* whether stage 2 can be read; dpte, the drive's ports, or NoTable; cpu;  *)
(* vbe, the version, with the list `modes`, which a word 0xFFFF ends, and   *)
(* the modes of number 0x115, `legacy`, and of number 0, `zero`; beyond,   *)
(* what .getMaximum finds if the list is empty: that 0xFFFF taken for a    *)
(* mode, and the words behind it up to the next 0xFFFF (si comes round to  *)
(* the same one at the latest); leftover, what memory held where the       *)
(* answers go; e820, the answers to that call, carry, whether the end of   *)
(* the map is a call that fails; a20.                                      *)
(* A mode is answered or not, may be set or not, and has a description.    *)
(* An e820 answer has its length's halves lo and hi, the size that was     *)
(* stored and, if that is 24, the ACPI bit `valid`; sig, the signature.    *)
(***************************************************************************)
NoTable == [io |-> 0, ctl |-> 0, slave |-> FALSE]
Description == [width : Nat, height : Nat, bpp : Nat, supported : BOOLEAN]
Mode == [answered : BOOLEAN, settable : BOOLEAN, is : Description]

ASSUME BiosAssumption ==
  /\ Half \in Nat \ {0}
  /\ \A b \in Bios :
       /\ b.modes \in Seq(Mode)
       /\ b.beyond \in Seq(Mode) /\ b.beyond # <<>>
       /\ b.legacy \in Mode /\ b.zero \in Mode
       /\ b.leftover \in Description
       /\ b.vbe \in Nat /\ b.e820 \in Seq(Range(b.e820))
       /\ \A k \in DOMAIN b.e820 : /\ b.e820[k].size \in {0, 20, 24}
                                   /\ b.e820[k].lo \in 0..(Half - 1)
                                   /\ b.e820[k].hi \in 0..(Half - 1)

VARIABLES bios,
          pc,            \* the next piece of code
          ds,            \* what the segment register points at
          n,             \* the entry of the BIOS's list that is next
          info,          \* the mode description at es:512
          best,          \* screen_mode and screen_pixels
          memmap,        \* the entries at MEMMAP_SEG that bp counts
          rm_data,       \* what main is told
          shown          \* the message on the screen

vars == <<bios, pc, ds, n, info, best, memmap, rm_data, shown>>

NoMode == [mode |-> 0, pixels |-> 0]

\* Stage 1 has copied itself to 0x800 and jumped into the copy, with ds still
\* at the segment it was loaded to.
Init == /\ bios \in Bios
        /\ pc = "check_edd" /\ ds = "stage1" /\ n = 1
        /\ info = bios.leftover /\ best = NoMode
        /\ memmap = <<>> /\ shown = "none"
        /\ rm_data = [io |-> 0, ctl |-> 0, slave |-> FALSE, width |-> 0,
                      height |-> 0, bpp |-> 0, memmap_size |-> 0]

\* read_fail, boot_fail16: the message is read from ds, then the boot stops.
Fail(message) ==
  /\ shown' = IF ds = "zero" THEN message ELSE "garbage"
  /\ pc' = "halted"
  /\ UNCHANGED <<bios, ds, n, info, best, memmap, rm_data>>

-----------------------------------------------------------------------------
(* stage1.asm.                                                             *)

CheckEdd ==
  /\ pc = "check_edd"
  /\ \/ ~bios.edd /\ Fail("ERR_MSG_EDD_NSUP")
     \/ /\ bios.edd
        /\ ds' = "zero" /\ pc' = "load"
        /\ UNCHANGED <<bios, n, info, best, memmap, rm_data, shown>>

LoadStage2 ==
  /\ pc = "load"
  /\ \/ ~bios.disc /\ Fail("ERR_MSG_CD_READ")
     \/ /\ bios.disc
        /\ pc' = "id_drive"
        /\ UNCHANGED <<bios, ds, n, info, best, memmap, rm_data, shown>>

-----------------------------------------------------------------------------
(* stub.asm: the drive and the processor.                                  *)

\* The ports are stored through es, which is zero, the slave flag through ds,
\* which points at the BIOS's table then: it does not reach rm_data.
IdDrive ==
  /\ pc = "id_drive"
  /\ \/ bios.dpte = NoTable /\ Fail("ERR_MSG_ID_DRIVE_FAIL")
     \/ /\ bios.dpte # NoTable
        /\ rm_data' = [rm_data EXCEPT !.io = bios.dpte.io,
                                      !.ctl = bios.dpte.ctl]
        /\ pc' = "check_cpu"
        /\ UNCHANGED <<bios, ds, n, info, best, memmap, shown>>

CheckCpu ==
  /\ pc = "check_cpu"
  /\ \/ bios.cpu = "old" /\ Fail("ERR_MSG_NO_CPUID")
     \/ bios.cpu = "32bit" /\ Fail("ERR_MSG_NOT_64BIT")
     \/ /\ bios.cpu = "64bit"
        /\ pc' = "get_font"
        /\ UNCHANGED <<bios, ds, n, info, best, memmap, rm_data, shown>>

\* Slip: ds is left at the BIOS's font.
GetFontLosesDs ==
  /\ pc = "get_font"
  /\ ds' = "font" /\ pc' = "svga"
  /\ UNCHANGED <<bios, n, info, best, memmap, rm_data, shown>>

\* Copies the font with ds at the BIOS's, and puts ds back.
GetFont ==
  /\ pc = "get_font"
  /\ ds' = "zero" /\ pc' = "svga"
  /\ UNCHANGED <<bios, n, info, best, memmap, rm_data, shown>>

-----------------------------------------------------------------------------
(* stub.asm: the graphics mode.                                            *)

ListModes ==
  /\ pc = "svga"
  /\ pc' = IF bios.vbe >= 2 THEN "modes" ELSE "legacy"
  /\ n' = 1
  /\ UNCHANGED <<bios, ds, info, best, memmap, rm_data, shown>>

\* The words that .getMaximum takes for modes: it looks for the list's end
\* only behind the first one.
Words == IF bios.modes = <<>> THEN bios.beyond ELSE bios.modes

\* Slip: any depth will do.
BetterAnyDepth(d) == /\ d.supported
                     /\ d.height < TooHigh
                     /\ d.width * d.height > best.pixels

Better(d) == /\ d.bpp = 32 /\ d.supported
             /\ d.height < TooHigh
             /\ d.width * d.height > best.pixels

\* Slip: the list is left after its end marker.
PastTheList ==
  /\ pc = "modes"
  /\ LET d == IF Words[n].answered THEN Words[n].is ELSE info IN
     /\ info' = d
     /\ best' = IF Better(d) THEN [mode |-> n, pixels |-> d.width * d.height]
                             ELSE best
  /\ n' = n + 1
  /\ pc' = IF n > Len(Words) THEN "describe" ELSE "modes"
  /\ UNCHANGED <<bios, ds, memmap, rm_data, shown>>

\* Slip: what counts as best so far is not raised.
LastCandidate ==
  /\ pc = "modes"
  /\ LET d == IF Words[n].answered THEN Words[n].is ELSE info IN
     /\ info' = d
     /\ best' = IF Better(d) THEN [mode |-> n, pixels |-> 0] ELSE best
  /\ n' = n + 1
  /\ pc' = IF n = Len(Words) THEN "describe" ELSE "modes"
  /\ UNCHANGED <<bios, ds, memmap, rm_data, shown>>

\* Slip: si moves on only with a mode that is taken.
SameModeAgain ==
  /\ pc = "modes"
  /\ LET d == IF Words[n].answered THEN Words[n].is ELSE info IN
     /\ info' = d
     /\ best' = IF Better(d) THEN [mode |-> n, pixels |-> d.width * d.height]
                             ELSE best
     /\ n' = IF Better(d) THEN n + 1 ELSE n
  /\ pc' = IF n' > Len(Words) THEN "describe" ELSE "modes"
  /\ UNCHANGED <<bios, ds, memmap, rm_data, shown>>

\* One turn of .getMaximum. The result of the call is not looked at: where the
\* BIOS gives no answer the last description is considered again.
ConsiderMode ==
  /\ pc = "modes"
  /\ LET d == IF Words[n].answered THEN Words[n].is ELSE info IN
     /\ info' = d
     /\ best' = IF Better(d) THEN [mode |-> n, pixels |-> d.width * d.height]
                             ELSE best
  /\ n' = n + 1
  /\ pc' = IF n = Len(Words) THEN "describe" ELSE "modes"
  /\ UNCHANGED <<bios, ds, memmap, rm_data, shown>>

\* The mode whose number is in screen_mode: still 0 if none was good enough.
Chosen == IF bios.vbe < 2 THEN bios.legacy
          ELSE IF best.mode = 0 THEN bios.zero ELSE Words[best.mode]

\* .SetVBE: asks for the mode once more and keeps its description.
DescribeMode ==
  /\ pc \in {"legacy", "describe"}
  /\ \/ ~Chosen.answered /\ Fail("ERR_MSG_SVGA_FAIL")
     \/ /\ Chosen.answered
        /\ rm_data' = [rm_data EXCEPT !.width = Chosen.is.width,
                                      !.height = Chosen.is.height,
                                      !.bpp = Chosen.is.bpp]
        /\ pc' = "set_mode"
        /\ UNCHANGED <<bios, ds, n, info, best, memmap, shown>>

SetMode ==
  /\ pc = "set_mode"
  /\ \/ ~Chosen.settable /\ Fail("ERR_MSG_SVGA_FAIL")
     \/ /\ Chosen.settable
        /\ pc' = "map_memory" /\ n' = 1
        /\ UNCHANGED <<bios, ds, info, best, memmap, rm_data, shown>>

-----------------------------------------------------------------------------
(* stub.asm: the memory map, A20 and the end of real mode.                 *)

\* Slip: only the low half of the length is looked at.
KeepByLowHalf(a) == a.size # 0 /\ (a.size > 20 => a.valid) /\ a.lo # 0

\* The two halves of the length are added up in 32 bits.
Keep(a) == a.size # 0 /\ (a.size > 20 => a.valid) /\ (a.lo + a.hi) % Half # 0

\* A call beyond the last answer fails: no memory map at all if it is the
\* first (label .fail), the end of the map otherwise.
E820End ==
  /\ pc = "map_memory" /\ n > Len(bios.e820)
  /\ \/ n = 1 /\ Fail("ERR_MSG_E820_FAIL")
     \/ /\ n > 1
        /\ pc' = "a20"
        /\ UNCHANGED <<bios, ds, n, info, best, memmap, rm_data, shown>>

\* The answer is kept or its place is used again. ebx is 0 after the last one,
\* unless the BIOS has a call that fails end the map.
E820Answer ==
  /\ pc = "map_memory" /\ n <= Len(bios.e820)
  /\ \/ ~bios.e820[n].sig /\ Fail("ERR_MSG_E820_FAIL")
     \/ /\ bios.e820[n].sig
        /\ memmap' = IF Keep(bios.e820[n]) THEN Append(memmap, bios.e820[n])
                                           ELSE memmap
        /\ pc' = IF n = Len(bios.e820) /\ ~bios.carry THEN "a20" ELSE pc
        /\ n' = n + 1
        /\ UNCHANGED <<bios, ds, info, best, rm_data, shown>>

\* save_memmap, activate_a20, load_gdt, code32: main is called.
EnterMain ==
  /\ pc = "a20"
  /\ \/ ~bios.a20 /\ Fail("ERR_MSG_A20_FAIL")
     \/ /\ bios.a20
        /\ rm_data' = [rm_data EXCEPT !.memmap_size = Len(memmap)]
        /\ pc' = "main"
        /\ UNCHANGED <<bios, ds, n, info, best, memmap, shown>>

Next == \/ CheckEdd \/ LoadStage2 \/ IdDrive \/ CheckCpu \/ GetFont
        \/ ListModes \/ ConsiderMode \/ DescribeMode \/ SetMode
        \/ E820End \/ E820Answer \/ EnterMain

\* One thread, with interrupts the BIOS handles; its calls return.
Spec == Init /\ [][Next]_vars /\ WF_vars(Next)

-----------------------------------------------------------------------------
(* Properties.                                                             *)

Started == pc = "main"

\* Every variable stays in its range. A list of modes that is not empty is not
\* read beyond its end, nor are the words after an empty one beyond theirs.
TypeOK == /\ n \in Nat \ {0}
          /\ ds \in {"stage1", "zero"}
          /\ info \in Description
          /\ pc = "modes" => n <= Len(Words)
          /\ best.mode \in 0..Len(Words) /\ best.pixels \in Nat
          /\ Len(memmap) < n
          /\ rm_data.width \in Nat /\ rm_data.height \in Nat

\* rm_data tells main "for slave drive" (cdrom.h:36) what the table says.
SlaveIsBios == Started => rm_data.slave = bios.dpte.slave

\* "find biggest supported mode" (stub.asm:160): if the BIOS describes a mode
\* of its list as supported, with 32 bits, main gets the size of one that none
\* of these exceeds, though a mode it answers nothing to is judged by the
\* description of another, or by what memory held. If it describes none so,
\* the boot goes on only where the BIOS takes mode 0. (An empty list is left
\* out: there the mode may be any word that memory holds.)
Candidates == {k \in DOMAIN bios.modes :
                 LET m == bios.modes[k] IN
                 /\ m.answered /\ m.is.bpp = 32 /\ m.is.supported
                 /\ m.is.height < TooHigh}
Pixels(k) == bios.modes[k].is.width * bios.modes[k].is.height
IsBiggest(k) == /\ \A j \in Candidates : Pixels(j) <= Pixels(k)
                /\ rm_data.width = bios.modes[k].is.width
                /\ rm_data.height = bios.modes[k].is.height
ModeIsBiggest ==
  Started /\ bios.vbe >= 2 /\ bios.modes # <<>> =>
    \/ \E k \in Candidates : IsBiggest(k)
    \/ Candidates = {} /\ bios.zero.answered /\ bios.zero.settable

\* "ignore some entries (eiter empty or invalid)" (stub.asm:304): main gets the
\* others, all of them and in the BIOS's order, whichever way the map ends.
\* (Left out are entries with a length whose halves add up to 2^32: the
\* property allows main to get them or not. The code drops them all.)
Worthy(a) == a.size # 0 /\ (a.size = 24 => a.valid) /\ (a.lo # 0 \/ a.hi # 0)
Wanted == {k \in DOMAIN bios.e820 : Worthy(bios.e820[k])}
Cancelling == {k \in Wanted : bios.e820[k].lo + bios.e820[k].hi = Half}
Lists(places) == \E at \in [DOMAIN memmap -> places] :
                    /\ \A i \in DOMAIN memmap : memmap[i] = bios.e820[at[i]]
                    /\ \A k \in places : \E i \in DOMAIN memmap : at[i] = k
                    /\ \A i, j \in DOMAIN memmap : i < j => at[i] < at[j]
MapIsBios ==
  Started => /\ rm_data.memmap_size = Len(memmap)
             /\ \E dropped \in SUBSET Cancelling : Lists(Wanted \ dropped)

\* Whatever stops stage 2's stub, its own message is on the screen, whichever
\* segment its code used last. (Stage 1 has ds elsewhere when it finds that
\* EDD is missing: stage1.asm:88.)
MessageIsShown == pc = "halted" /\ bios.edd => shown # "garbage"

\* The boot comes to main or to a message.
ProbeEnds == <>(pc = "halted" \/ Started)
=============================================================================
