----------------------------- MODULE HeaderTree -----------------------------
(***************************************************************************)
(* What a block tree promises to its users: a set of headers closed under  *)
(* parents, and a tip that moves only to a header with more total work     *)
(* (or, when the caller asks for it, with as much).  Total work and the    *)
(* best chain are those of module Headers, computed from the headers       *)
(* alone, so that an implementation that maintains them incrementally can  *)
(* be compared with them.                                                  *)
(***************************************************************************)
EXTENDS Headers

VARIABLES
    known,  \* the headers in the tree
    tip,    \* the tip of the best chain
    best    \* the best chain, as a set

Init == known = {} /\ tip = NoHeader /\ best = {}

SetGenesis ==
    /\ known = {}
    /\ known' = {Genesis}
    /\ tip' = Genesis
    /\ best' = {Genesis}

Adopts(h, replace) ==
    \/ TotalWork(h) > TotalWork(tip)
    \/ replace /\ TotalWork(h) = TotalWork(tip)

Insert(h, replace) ==
    /\ h \notin known
    /\ Prev[h] \in known
    /\ known' = known \cup {h}
    /\ tip' = IF Adopts(h, replace) THEN h ELSE tip
    /\ best' = Chain(tip')

Clear == known' = {} /\ tip' = NoHeader /\ best' = {}

Next ==
    \/ SetGenesis
    \/ \E h \in Header, replace \in BOOLEAN : Insert(h, replace)
    \/ Clear

Spec == Init /\ [][Next]_<<known, tip, best>>
=============================================================================
