---------------------------- MODULE MCPeekWindow ----------------------------
(* Instances of PeekWindow for TLC: two bytes in a page, four pages in a    *)
(* block, three blocks in the window.                                      *)
EXTENDS PeekWindow

Anywhere == 0 .. 11
SomeSizes == {0, 1, 8, 17, 24, 25}
=============================================================================
