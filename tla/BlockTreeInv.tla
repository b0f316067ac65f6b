---------------------------- MODULE BlockTreeInv ----------------------------
(***************************************************************************)
(* The inductive invariant of BlockTree: what holds between any two steps, *)
(* in the middle of a reorganisation too.  It is what the loops of         *)
(* setBestChain and unsetBestChain rely on and nowhere say.                *)
(***************************************************************************)
EXTENDS BlockTree

(* The tree itself: closed under parents, with the height, the work and the *)
(* children each header's ancestry gives it.                                *)
TreeInv ==
    /\ mHeaderHashMap # {} => /\ Genesis \in mHeaderHashMap
                              /\ Genesis \in inBestChain
                              /\ height[Genesis] = 0
    /\ inBestChain \subseteq mHeaderHashMap
    /\ \A h \in mHeaderHashMap \ {Genesis} :
           /\ Prev[h] \in mHeaderHashMap
           /\ height[h] = height[Prev[h]] + 1
           /\ chainWork[h] = chainWork[Prev[h]] + Work[h]
    /\ \A h \in mHeaderHashMap : height[h] \in Nat
    /\ \A g, h \in Header :
           g \in childHashes[h] <=> g \in mHeaderHashMap \ {Genesis} /\ Prev[g] = h

Top == newBestChain[Len(newBestChain)]

(* The header the stack hangs from: the cursor while retracing, the fork    *)
(* once it is found, and then the last header that was marked.              *)
Base == IF newBestChain = <<>> THEN header ELSE Prev[Top]

(* The stack is the path from the new header down to a child of Base, and   *)
(* none of it is on the best chain yet.                                     *)
StackInv ==
    /\ header \in mHeaderHashMap \ {Genesis}
    /\ newBestChain # <<>> => newBestChain[1] = header
    /\ \A i \in 1 .. Len(newBestChain) :
           /\ newBestChain[i] \in mHeaderHashMap \ {Genesis}
           /\ newBestChain[i] \notin inBestChain
           /\ height[newBestChain[i]] = height[header] + 1 - i
           /\ i < Len(newBestChain) => Prev[newBestChain[i]] = newBestChain[i + 1]

(* The flagged headers up to the height of a header t are a path that ends  *)
(* in t, and the height map is its index.                                   *)
PathTo(t) ==
    /\ t \in inBestChain
    /\ \A h \in inBestChain \ {Genesis} : Prev[h] \in inBestChain
    /\ \A h \in inBestChain :
           /\ height[h] <= height[t]
           /\ height[h] \in DOMAIN mHeaderHeightMap
           /\ mHeaderHeightMap[height[h]] = h
    /\ \A n \in 0 .. height[t] :
           /\ n \in DOMAIN mHeaderHeightMap
           /\ mHeaderHeightMap[n] \in inBestChain
           /\ height[mHeaderHeightMap[n]] = n

EmptyInv ==
    /\ inBestChain = {}
    /\ DOMAIN mHeaderHeightMap = {}
    /\ mBestHeight = -1
    /\ mTotalWork = 0
    /\ pHead = NoHeader

(* pHead is the tip, as it is whenever the loops are not running and until  *)
(* unsetBestChain is called.                                                *)
TipInv ==
    /\ PathTo(pHead)
    /\ DOMAIN mHeaderHeightMap = 0 .. height[pHead]
    /\ mBestHeight = height[pHead]
    /\ mTotalWork = chainWork[pHead]

IdleInv ==
    pc = "idle" =>
        /\ newBestChain = <<>>
        /\ mHeaderHashMap = {} => EmptyInv
        /\ mHeaderHashMap # {} =>
               /\ TipInv
               /\ \A h \in mHeaderHashMap : chainWork[h] <= chainWork[pHead]

(* While insertHeader runs, its header is the only one with more work than  *)
(* the old tip.                                                             *)
RunningInv ==
    pc # "idle" =>
        /\ StackInv
        /\ pHead \in mHeaderHashMap \ {header}
        /\ chainWork[pHead] <= chainWork[header]
        /\ \A h \in mHeaderHashMap \ {header} : chainWork[h] <= chainWork[pHead]

RetraceInv ==
    pc = "retrace" =>
        /\ TipInv
        /\ header \notin inBestChain
        /\ pParent \in mHeaderHashMap
        /\ pParent = Base
        /\ height[pParent] = height[header] - Len(newBestChain)

(* While unsetting, the best chain has a gap: it goes from the genesis      *)
(* block to the fork and again from a child of the cursor to the old tip.   *)
(* The map keeps one stale entry, just above the fork.                      *)
UnsetInv ==
    pc = "unset" =>
        /\ newBestChain # <<>>
        /\ Prev[header] # pHead
        /\ Base \in inBestChain
        /\ pParent \in mHeaderHashMap \ inBestChain
        /\ height[Base] < height[pParent]
        /\ height[pParent] <= height[pHead]
        /\ pHead \in inBestChain \cup {pParent}
        /\ \A h \in inBestChain \ {Genesis} : Prev[h] \in inBestChain \cup {pParent}
        /\ \A h \in inBestChain :
               /\ height[h] \in DOMAIN mHeaderHeightMap
               /\ mHeaderHeightMap[height[h]] = h
               /\ height[h] <= height[pHead]
               /\ height[h] <= height[Base] \/ height[h] > height[pParent]
        /\ DOMAIN mHeaderHeightMap = 0 .. (height[Base] + 1)
                                        \cup (height[pParent] + 1) .. height[pHead]
        /\ \A n \in DOMAIN mHeaderHeightMap \ {height[Base] + 1} :
               /\ mHeaderHeightMap[n] \in inBestChain
               /\ height[mHeaderHeightMap[n]] = n

SetInv ==
    pc = "set" =>
        /\ PathTo(Base)
        /\ DOMAIN mHeaderHeightMap \subseteq 0 .. (height[Base] + 1)
        /\ newBestChain = <<>> => DOMAIN mHeaderHeightMap = 0 .. height[Base]
        /\ mBestHeight = height[header]
        /\ mTotalWork = chainWork[header]

(* The inductive invariant. *)
Inv ==
    /\ TypeOK
    /\ TreeInv
    /\ IdleInv
    /\ RunningInv
    /\ RetraceInv
    /\ UnsetInv
    /\ SetInv
=============================================================================
