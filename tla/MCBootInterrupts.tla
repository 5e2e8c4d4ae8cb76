-------------------------- MODULE MCBootInterrupts --------------------------
(* BootInterrupts with the timer (0), the lines of spurious requests (7    *)
(* and 15), a slave line without a driver (8) and the primary disk (14).   *)
EXTENDS BootInterrupts

MCLine == {0, 7, 8, 14, 15}
=============================================================================
