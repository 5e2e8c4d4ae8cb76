---------------------------- MODULE MCKernelLog ----------------------------
(* Instances of KernelLog for TLC. *)
EXTENDS KernelLog

AllFaults == {"slowLoopback", "input", "nmi"}

\* NMI, page fault, control protection.
SomeVectors == {2, 14, 21}
=============================================================================
