----------------------------- MODULE MCHandover -----------------------------
(* Handover with pages of two sectors of two bytes and blocks of 16 pages. *)
(* The maps have a low region, a reserved one that ends at any offset of a *)
(* page, a free one of a size around what the images need, and one that    *)
(* directly follows it; in one map the free region comes so late that the  *)
(* tables are beyond the first block, in one it crosses the end of 32-bit  *)
(* addresses.                                                              *)
EXTENDS Handover

MCPage == 4

MCImages == {g \in [size : {4, 8}, bss : {4, 8}, stack : {4, 8},
                    load : {1, 4, 7}] : g.load <= g.bss /\ g.bss <= g.size}

MCMemMaps ==
  {<<[base |-> 0, len |-> 3, type |-> FREE_RAM],
     [base |-> 3, len |-> b - 3, type |-> 2],
     [base |-> b, len |-> l, type |-> FREE_RAM],
     [base |-> b + l, len |-> t, type |-> FREE_RAM]>> :
        b \in 8..11, l \in {1, 12, 55, 56, 60, 64, 66}, t \in {3, 65}}
  \cup {<<[base |-> b, len |-> 70, type |-> FREE_RAM]>> : b \in {39, 150}}

MCScreens == {[base |-> 192, size |-> 70]}
=============================================================================
