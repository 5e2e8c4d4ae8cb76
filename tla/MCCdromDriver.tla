---------------------------- MODULE MCCdromDriver ----------------------------
(* CdromDriver with two sectors, the timer (0), the highest lines (7, 15)  *)
(* that spurious requests appear on, and the boot drive on line 14.        *)
EXTENDS CdromDriver

MCLine == {0, 7, 14, 15}
=============================================================================
