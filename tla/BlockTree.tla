------------------------------ MODULE BlockTree ------------------------------
(***************************************************************************)
(* CoinQBlockTreeMem (deps/CoinQ/src/CoinQ_blocks.{h,cpp}): the in-memory  *)
(* tree of block headers and its best chain.                               *)
(*                                                                         *)
(* insertHeader is one call, but the work it does when the best chain      *)
(* changes is three loops over pointers into the tree: setBestChain walks  *)
(* back from the new header to the fork, unsetBestChain walks forward from *)
(* the fork along the old best chain, and setBestChain then pops its stack *)
(* to mark the new one.  Every loop iteration is a step of this module,    *)
(* sequenced by pc, because the code fires a signal from most of them and  *)
(* because whether the loops end at all is one of the questions asked.     *)
(* No other operation of the tree is enabled until pc is "idle" again.     *)
(*                                                                         *)
(* A definition placed just before the one it resembles and used nowhere   *)
(* is a mutant of it: the mistake a property below is there to catch.      *)
(***************************************************************************)
EXTENDS Headers, Sequences, FiniteSets

CONSTANT
    ValidPow    \* the headers whose proof-of-work hash is within the target

ASSUME PowAssumption == ValidPow \subseteq Header

VARIABLES
    mHeaderHashMap,     \* the keys of the hash map: the headers in the tree
    height,             \* ChainHeader::height, -1 outside the tree
    chainWork,          \* ChainHeader::chainWork
    childHashes,        \* ChainHeader::childHashes
    inBestChain,        \* the headers whose inBestChain flag is set
    mHeaderHeightMap,   \* height -> header
    mBestHeight,
    mTotalWork,
    pHead,
    bFlushed,           \* nothing changed since the tree was last on disk
    pc,                 \* the loop insertHeader is in, "idle" outside it
    header,             \* the argument of setBestChain
    pParent,            \* the loop's cursor
    newBestChain        \* the stack of setBestChain, its top last

treeVars == <<mHeaderHashMap, height, chainWork, childHashes>>
bestVars == <<inBestChain, mHeaderHeightMap, mBestHeight, mTotalWork, pHead>>
loopVars == <<pc, header, pParent, newBestChain>>
vars == <<treeVars, bestVars, bFlushed, loopVars>>

-----------------------------------------------------------------------------
(* The constructor and clear() leave the same tree; only the constructor    *)
(* touches bFlushed.                                                        *)

Init ==
    /\ mHeaderHashMap = {}
    /\ height = [h \in Header |-> -1]
    /\ chainWork = [h \in Header |-> 0]
    /\ childHashes = [h \in Header |-> {}]
    /\ inBestChain = {}
    /\ mHeaderHeightMap = <<>>
    /\ mBestHeight = -1
    /\ mTotalWork = 0
    /\ pHead = NoHeader
    /\ bFlushed = TRUE
    /\ pc = "idle"
    /\ header = NoHeader
    /\ pParent = NoHeader
    /\ newBestChain = <<>>

Clear ==
    /\ pc = "idle"
    /\ mHeaderHashMap' = {}
    /\ height' = [h \in Header |-> -1]
    /\ chainWork' = [h \in Header |-> 0]
    /\ childHashes' = [h \in Header |-> {}]
    /\ inBestChain' = {}
    /\ mHeaderHeightMap' = <<>>
    /\ mBestHeight' = -1
    /\ mTotalWork' = 0
    /\ pHead' = NoHeader
    /\ UNCHANGED <<bFlushed, loopVars>>

(* mHeaderHeightMap[n] = h, and mHeaderHeightMap.erase(n). *)
EraseNothing(map, n) == map

Put(map, n, h) == [i \in DOMAIN map \cup {n} |-> IF i = n THEN h ELSE map[i]]
Erase(map, n)  == [i \in DOMAIN map \ {n} |-> map[i]]

SetGenesisBlock ==
    /\ pc = "idle"
    /\ mHeaderHashMap = {}          \* "Tree is not empty."
    /\ mHeaderHashMap' = {Genesis}
    /\ height' = [height EXCEPT ![Genesis] = 0]
    /\ chainWork' = [chainWork EXCEPT ![Genesis] = Work[Genesis]]
    /\ inBestChain' = {Genesis}
    /\ mHeaderHeightMap' = Put(mHeaderHeightMap, 0, Genesis)
    /\ mBestHeight' = 0
    /\ mTotalWork' = Work[Genesis]
    /\ pHead' = Genesis
    /\ bFlushed' = FALSE
    /\ UNCHANGED <<childHashes, loopVars>>

-----------------------------------------------------------------------------
(* insertHeader.  A header that is already there, has no parent in the tree *)
(* or fails the proof-of-work check is rejected and changes nothing.        *)

Accepts(h, bCheckProofOfWork) ==
    /\ h \notin mHeaderHashMap
    /\ Prev[h] \in mHeaderHashMap       \* "Parent not found."
    /\ bCheckProofOfWork => h \in ValidPow

BecomesBestIfAsked(work, bReplaceTip) == bReplaceTip /\ work >= mTotalWork
BecomesBestWhenAsked(work, bReplaceTip) == work > mTotalWork \/ bReplaceTip

BecomesBest(work, bReplaceTip) ==
    \/ work > mTotalWork
    \/ bReplaceTip /\ work >= mTotalWork

InsertHeader(h, bCheckProofOfWork, bReplaceTip) ==
    LET parent == Prev[h]
        work   == chainWork[parent] + Work[h]
    IN  /\ pc = "idle"
        /\ Accepts(h, bCheckProofOfWork)
        /\ mHeaderHashMap' = mHeaderHashMap \cup {h}
        /\ height' = [height EXCEPT ![h] = height[parent] + 1]
        /\ chainWork' = [chainWork EXCEPT ![h] = work]
        /\ childHashes' = [childHashes EXCEPT ![parent] = @ \cup {h}]
        /\ IF BecomesBest(work, bReplaceTip)
           THEN /\ pc' = "retrace"
                /\ header' = h
                /\ pParent' = h
                /\ UNCHANGED <<bFlushed, newBestChain>>
           ELSE /\ bFlushed' = FALSE
                /\ UNCHANGED loopVars
        /\ UNCHANGED bestVars

(* setBestChain's first loop: push everything back to the fork. *)
Retrace ==
    /\ pc = "retrace"
    /\ pParent \notin inBestChain
    /\ newBestChain' = Append(newBestChain, pParent)
    /\ pParent' = Prev[pParent]
    /\ UNCHANGED <<treeVars, bestVars, bFlushed, pc, header>>

NoBestChildren(h) == {}
BestChildren(h) == childHashes[h] \cap inBestChain

(* "First set these so we have the most current info." *)
StartSetting ==
    /\ pc' = "set"
    /\ mBestHeight' = height[header]
    /\ mTotalWork' = chainWork[header]

(* The fork is found.  Its child on the old best chain, if there is one, is *)
(* handed to unsetBestChain, which takes it off the best chain but, unlike  *)
(* its descendants, leaves its entry in the height map to be overwritten.   *)
ForkAtTip ==
    /\ pc = "retrace"
    /\ pParent \in inBestChain
    /\ BestChildren(pParent) = {}
    /\ StartSetting
    /\ UNCHANGED <<treeVars, inBestChain, mHeaderHeightMap, pHead, bFlushed,
                   header, pParent, newBestChain>>

UnsetFirst(child) ==
    /\ pc = "retrace"
    /\ pParent \in inBestChain
    /\ child \in BestChildren(pParent)
    /\ height[child] # 0            \* "Cannot remove genesis block ..."
    /\ mBestHeight' = height[pParent]
    /\ mTotalWork' = chainWork[pParent]
    /\ inBestChain' = inBestChain \ {child}
    /\ pParent' = child
    /\ pc' = "unset"
    /\ UNCHANGED <<treeVars, mHeaderHeightMap, pHead, bFlushed, header, newBestChain>>

(* unsetBestChain's loop: while the cursor has children, step to the one on *)
(* the best chain and unset it.  With children but none on the best chain   *)
(* the code's loop neither moves nor ends: no step of this module either.   *)
UnsetNext(child) ==
    /\ pc = "unset"
    /\ child \in BestChildren(pParent)
    /\ mHeaderHeightMap' = Erase(mHeaderHeightMap, height[child])
    /\ inBestChain' = inBestChain \ {child}
    /\ pParent' = child
    /\ UNCHANGED <<treeVars, mBestHeight, mTotalWork, pHead, bFlushed, pc, header,
                   newBestChain>>

UnsetDone ==
    /\ pc = "unset"
    /\ childHashes[pParent] = {}
    /\ StartSetting
    /\ UNCHANGED <<treeVars, inBestChain, mHeaderHeightMap, pHead, bFlushed,
                   header, pParent, newBestChain>>

(* setBestChain's last loop: pop the stack, fork side first. *)
SetNext ==
    LET top == newBestChain[Len(newBestChain)]
    IN  /\ pc = "set"
        /\ newBestChain # <<>>
        /\ inBestChain' = inBestChain \cup {top}
        /\ mHeaderHeightMap' = Put(mHeaderHeightMap, height[top], top)
        /\ newBestChain' = SubSeq(newBestChain, 1, Len(newBestChain) - 1)
        /\ UNCHANGED <<treeVars, mBestHeight, mTotalWork, pHead, bFlushed, pc, header,
                       pParent>>

SetDone ==
    /\ pc = "set"
    /\ newBestChain = <<>>
    /\ pHead' = header
    /\ bFlushed' = FALSE
    /\ pc' = "idle"
    /\ header' = NoHeader
    /\ pParent' = NoHeader
    /\ UNCHANGED <<treeVars, inBestChain, mHeaderHeightMap, mBestHeight, mTotalWork,
                   newBestChain>>

-----------------------------------------------------------------------------
(* flushToFile, as far as the tree is concerned (module HeaderFile has the  *)
(* file): needs a tree, and every height up to mBestHeight in the map.      *)
FlushToFile ==
    /\ pc = "idle"
    /\ mBestHeight # -1
    /\ 0 .. mBestHeight \subseteq DOMAIN mHeaderHeightMap
    /\ bFlushed' = TRUE
    /\ UNCHANGED <<treeVars, bestVars, loopVars>>

SetBestChainStep ==
    \/ Retrace
    \/ ForkAtTip
    \/ \E child \in Header : UnsetFirst(child) \/ UnsetNext(child)
    \/ UnsetDone
    \/ SetNext
    \/ SetDone

Next ==
    \/ Clear
    \/ SetGenesisBlock
    \/ \E h \in Header, check \in BOOLEAN, replace \in BOOLEAN :
           InsertHeader(h, check, replace)
    \/ SetBestChainStep
    \/ FlushToFile

(* The loops run to their end in the thread that called insertHeader. *)
Spec == Init /\ [][Next]_vars /\ WF_vars(SetBestChainStep)
-----------------------------------------------------------------------------
(* Properties.                                                              *)

Loops == {"idle", "retrace", "unset", "set"}

(* The variables keep their types: finite data of the C++ members. *)
TypeOK ==
    /\ mHeaderHashMap \subseteq Header
    /\ height \in [Header -> Int]
    /\ chainWork \in [Header -> Nat]
    /\ childHashes \in [Header -> SUBSET Header]
    /\ inBestChain \subseteq Header
    /\ DOMAIN mHeaderHeightMap \subseteq Nat
    /\ \A i \in DOMAIN mHeaderHeightMap : mHeaderHeightMap[i] \in Header
    /\ mBestHeight \in Int
    /\ mTotalWork \in Nat
    /\ pHead \in Header \cup {NoHeader}
    /\ bFlushed \in BOOLEAN
    /\ pc \in Loops
    /\ header \in Header \cup {NoHeader}
    /\ pParent \in Header \cup {NoHeader}
    /\ newBestChain \in Seq(Header)

Settled == pc = "idle" /\ mHeaderHashMap # {}

(* Between two calls of insertHeader the flagged headers are one path from  *)
(* the genesis block to pHead: the parent of a flagged header is flagged,   *)
(* no height has two, and none is above pHead.  A reorganisation that       *)
(* forgets to unflag the old branch, or stops one block short, breaks it.   *)
BestChainIsPath ==
    Settled =>
        /\ {Genesis, pHead} \subseteq inBestChain
        /\ \A h \in inBestChain \ {Genesis} : Prev[h] \in inBestChain
        /\ \A g, h \in inBestChain : height[g] = height[h] => g = h
        /\ \A h \in inBestChain : height[h] <= height[pHead]

(* Between two calls the height map is exactly the index of the best chain, *)
(* so getHeader(int), getLocatorHashes, getHeaderBefore and flushToFile     *)
(* read the best chain and find every height up to mBestHeight, even after  *)
(* a reorganisation to a chain that is shorter but has more work.           *)
HeightMapIndexesBestChain ==
    Settled =>
        /\ mBestHeight = height[pHead]
        /\ mTotalWork = chainWork[pHead]
        /\ DOMAIN mHeaderHeightMap = 0 .. mBestHeight
        /\ \A h \in inBestChain : mHeaderHeightMap[height[h]] = h

(* The tip getTip() returns has at least the work of every header in the    *)
(* tree: no branch with more work is left unadopted.                        *)
TipHasMostWork ==
    Settled => \A h \in mHeaderHashMap : chainWork[h] <= chainWork[pHead]

(* The while loop of unsetBestChain can always go on or stop: a cursor with *)
(* children has one on the best chain.  Where this fails, the loop spins    *)
(* for ever inside insertHeader with the file-flush mutex held.             *)
UnsetNeverSpins ==
    pc = "unset" => childHashes[pParent] = {} \/ BestChildren(pParent) # {}

(* The bookkeeping unsetBestChain's two map lookups rely on: the cursor of  *)
(* the first two loops is in the tree, so at(prevBlockHash()) never throws  *)
(* out of setBestChain halfway through a reorganisation.                    *)
RetraceStaysInTree == pc \in {"retrace", "unset"} => pParent \in mHeaderHashMap

(* A change of tip never loses work, whichever of the two rules chose it.   *)
HeadOnlyGainsWork ==
    [][pHead # NoHeader /\ pHead' # NoHeader => chainWork'[pHead'] >= chainWork[pHead]]_vars

(* Every insertHeader returns. *)
InsertReturns == pc # "idle" ~> pc = "idle"
=============================================================================
