------------------------------ MODULE Headers ------------------------------
(***************************************************************************)
(* Block headers and what follows from their links alone: the total work   *)
(* and the ancestors of a header.                                          *)
(***************************************************************************)
EXTENDS Integers

CONSTANTS
    Header,     \* the block headers there are, named by their hash
    Genesis,    \* the header setGenesisBlock is called with
    NoHeader,   \* NULL, and the hash of a block nobody has
    Prev,       \* Prev[h] = h.prevBlockHash()
    Work        \* Work[h] = h.getWork()

ASSUME HeaderAssumption == Genesis \in Header /\ NoHeader \notin Header
ASSUME PrevAssumption   == Prev \in [Header -> Header \cup {NoHeader}]
\* A target lies strictly between 0 and 2^256, so (2^256 / (target + 1)) >= 1.
ASSUME WorkAssumption   == Work \in [Header -> Nat \ {0}]
\* A header contains the hash of its parent, so no set of headers has the
\* parents of all its members.
ASSUME LinkAssumption   == \A S \in SUBSET Header : S # {} => \E h \in S : Prev[h] \notin S

(* Where following prevBlockHash ends. *)
IsRoot(h) == h = Genesis \/ Prev[h] \notin Header

(* The total work and the headers of the chain that h makes of p. *)
NoLine == [work |-> 0, chain |-> {}]
Extend(p, h) == [work |-> p.work + Work[h], chain |-> p.chain \cup {h}]

Line[h \in Header] == IF IsRoot(h) THEN Extend(NoLine, h) ELSE Extend(Line[Prev[h]], h)

TotalWork(h) == Line[h].work
Chain(h)     == Line[h].chain
=============================================================================
