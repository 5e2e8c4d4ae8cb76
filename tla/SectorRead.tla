----------------------------- MODULE SectorRead -----------------------------
(***************************************************************************)
(* What cdrom_read_sector promises its callers (cdrom_search and main of   *)
(* stage2.c): a call ends with the requested sector in the buffer and its  *)
(* size as result, or with result 0 and the buffer as it was.              *)
(***************************************************************************)
CONSTANTS Lba,         \* the logical block addresses a caller may ask for
          NoSector     \* a buffer that holds no sector of the disc

VARIABLES phase,       \* "idle", "busy" from the call on, "done" once decided
          lba,         \* the sector asked for
          buf,         \* the sector the caller's buffer holds
          result       \* "none" for the C result 0, "full" for CD_SECTOR_SIZE

readVars == <<phase, lba, buf, result>>

ReadInit == /\ phase = "idle"
            /\ lba \in Lba
            /\ buf = NoSector
            /\ result = "none"

Begin(l) == /\ phase = "idle"
            /\ phase' = "busy"
            /\ lba' = l
            /\ buf' \in {buf, NoSector}
            /\ UNCHANGED result

Deliver == /\ phase = "busy"
           /\ phase' = "done"
           /\ buf' = lba
           /\ result' = "full"
           /\ UNCHANGED lba

\* The drive refused the command: the call ends, at once or after a last wait.
Refuse == /\ phase = "busy"
          /\ phase' \in {"done", "idle"}
          /\ result' = "none"
          /\ UNCHANGED <<lba, buf>>

End == /\ phase = "done"
       /\ phase' = "idle"
       /\ UNCHANGED <<lba, buf, result>>

ReadNext == \/ \E l \in Lba : Begin(l)
            \/ Deliver \/ Refuse \/ End

ReadSpec == ReadInit /\ [][ReadNext]_readVars
=============================================================================
