---------------------------- MODULE MCBlockTree ----------------------------
(***************************************************************************)
(* A tree of nine headers in which every kind of change of tip happens:    *)
(*                                                                         *)
(*      0 - 1 - 2 - 3            4 - 5 - 6 overtakes 1 - 2 - 3 or ties it; *)
(*       \   \                   7 has the work of three blocks, so its    *)
(*        \    7 (work 3)        chain is shorter and heavier; 6 fails the *)
(*         4 - 5 - 6             proof-of-work check; 8 has no parent.     *)
(***************************************************************************)
EXTENDS BlockTreeInv, BlockTreeRefinement

MCHeader == 0 .. 8
MCPrev == [h \in MCHeader |-> CASE h \in {1, 4} -> 0
                                [] h \in {2, 7} -> 1
                                [] h \in {3, 5, 6} -> h - 1
                                [] OTHER -> -1]
MCWork == [h \in MCHeader |-> IF h = 7 THEN 3 ELSE 1]
MCValidPow == MCHeader \ {6}
MCNoHeader == -1
=============================================================================
