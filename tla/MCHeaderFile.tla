---------------------------- MODULE MCHeaderFile ----------------------------
(***************************************************************************)
(* Six headers: a chain of four records, and a branch whose first block    *)
(* alone has the work of three.                                            *)
(*                                                                         *)
(*      0 - 1 - 2 - 3                                                      *)
(*       \                                                                 *)
(*        4 - 5            (4 has work 3)                                  *)
(***************************************************************************)
EXTENDS HeaderFile

MCHeader == 0 .. 5
MCPrev == [h \in MCHeader |-> IF h = 4 THEN 0 ELSE h - 1]
MCWork == [h \in MCHeader |-> IF h = 4 THEN 3 ELSE 1]
MCNoHeader == -1
=============================================================================
