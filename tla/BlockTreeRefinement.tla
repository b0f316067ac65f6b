------------------------ MODULE BlockTreeRefinement ------------------------
(***************************************************************************)
(* How BlockTree implements HeaderTree.  While insertHeader is running its *)
(* header does not count as inserted, and the best chain is the one pHead  *)
(* still points to.                                                        *)
(***************************************************************************)
EXTENDS BlockTree

Running == pc # "idle"

known == IF Running THEN mHeaderHashMap \ {header} ELSE mHeaderHashMap
best  == IF Running THEN Chain(pHead) ELSE inBestChain

HT == INSTANCE HeaderTree WITH known <- known, tip <- pHead, best <- best

(* Every call of insertHeader is one step of the abstract tree: the tip is  *)
(* the one the total work of the headers decides, and the flagged headers   *)
(* are the ancestors of the tip.                                            *)
ImplementsHeaderTree == HT!Spec
=============================================================================
