-------------------------- MODULE BlockTreeProofs --------------------------
(***************************************************************************)
(* Proofs about the block tree, for every set of headers, every shape of   *)
(* the tree and every positive work.                                       *)
(***************************************************************************)
EXTENDS BlockTreeInv, SequenceTheorems, TLAPS

USE HeaderAssumption, PrevAssumption, WorkAssumption, PowAssumption

(* The empty tree of the constructor satisfies the invariant. *)
LEMMA InitInv == Init => Inv
<1> SUFFICES ASSUME Init PROVE Inv
  OBVIOUS
<1>1. DOMAIN mHeaderHeightMap = {}
  BY DEF Init
<1>2. TypeOK
  BY <1>1 DEF Init, TypeOK, Loops
<1>3. TreeInv /\ IdleInv
  BY <1>1 DEF Init, TreeInv, IdleInv, EmptyInv
<1>4. RunningInv /\ RetraceInv /\ UnsetInv /\ SetInv
  BY DEF Init, RunningInv, RetraceInv, UnsetInv, SetInv
<1> QED
  BY <1>2, <1>3, <1>4 DEF Inv

(* clear() returns to it. *)
LEMMA ClearInv == ASSUME Inv, Clear PROVE Inv'
<1>1. (DOMAIN mHeaderHeightMap = {})'
  BY DEF Clear
<1>2. TypeOK'
  BY <1>1 DEF Clear, TypeOK, Inv, loopVars
<1>3. TreeInv' /\ IdleInv'
  BY <1>1 DEF Clear, TreeInv, IdleInv, EmptyInv, loopVars, Inv
<1>4. RunningInv' /\ RetraceInv' /\ UnsetInv' /\ SetInv'
  BY DEF Clear, RunningInv, RetraceInv, UnsetInv, SetInv, loopVars
<1> QED
  BY <1>2, <1>3, <1>4 DEF Inv

(* setGenesisBlock makes a best chain of one header. *)
LEMMA SetGenesisInv == ASSUME Inv, SetGenesisBlock PROVE Inv'
<1> USE DEF SetGenesisBlock, loopVars
<1>0. EmptyInv /\ inBestChain = {} /\ newBestChain = <<>>
  BY DEF Inv, IdleInv, EmptyInv
<1>1. /\ DOMAIN mHeaderHeightMap' = {0}
      /\ mHeaderHeightMap'[0] = Genesis
  BY <1>0 DEF EmptyInv, Put
<1>2. TypeOK'
  <2>1. bFlushed' \in BOOLEAN
    OBVIOUS
  <2>2. height' \in [Header -> Int] /\ chainWork' \in [Header -> Nat]
    BY DEF TypeOK, Inv
  <2>3. mBestHeight' \in Int /\ mTotalWork' \in Nat
    BY DEF TypeOK, Inv
  <2> QED
    BY <1>1, <2>1, <2>2, <2>3 DEF TypeOK, Inv
<1>3. TreeInv'
  BY DEF TreeInv, TypeOK, Inv
<1>4. IdleInv'
  <2>1. PathTo(pHead)'
    BY <1>1 DEF PathTo, Inv, TypeOK
  <2>2. TipInv'
    BY <1>1, <2>1 DEF TipInv, Inv, TypeOK
  <2> QED
    BY <1>0, <2>2 DEF IdleInv, Inv, TypeOK
<1>5. RunningInv' /\ RetraceInv' /\ UnsetInv' /\ SetInv'
  BY DEF RunningInv, RetraceInv, UnsetInv, SetInv
<1> QED
  BY <1>2, <1>3, <1>4, <1>5 DEF Inv

(* insertHeader hangs the header under its parent.  Whether it becomes the  *)
(* best or not, the best chain is still the one that ends in pHead.         *)
LEMMA InsertInv ==
  ASSUME Inv, NEW h \in Header, NEW check \in BOOLEAN, NEW replace \in BOOLEAN,
         InsertHeader(h, check, replace)
  PROVE  Inv'
<1> DEFINE p == Prev[h]
<1> USE DEF InsertHeader, Accepts, treeVars, bestVars, loopVars
<1>1. /\ h \notin mHeaderHashMap /\ p \in mHeaderHashMap /\ h # Genesis
      /\ h \notin inBestChain /\ p \in Header /\ h # p
      /\ mHeaderHashMap \subseteq Header /\ inBestChain \subseteq mHeaderHashMap
  BY DEF Inv, TypeOK, TreeInv
<1>2. /\ TypeOK /\ TreeInv /\ newBestChain = <<>> /\ TipInv
      /\ \A g \in mHeaderHashMap : chainWork[g] <= chainWork[pHead]
  BY <1>1 DEF Inv, IdleInv
<1>3. /\ height' = [height EXCEPT ![h] = height[p] + 1]
      /\ chainWork' = [chainWork EXCEPT ![h] = chainWork[p] + Work[h]]
      /\ childHashes' = [childHashes EXCEPT ![p] = @ \cup {h}]
      /\ mHeaderHashMap' = mHeaderHashMap \cup {h}
      /\ UNCHANGED <<inBestChain, mHeaderHeightMap, mBestHeight, mTotalWork, pHead>>
  OBVIOUS
<1>4. TypeOK'
  <2>1. bFlushed' \in BOOLEAN /\ pc' \in Loops
    BY <1>2 DEF TypeOK, Loops
  <2>2. header' \in Header \cup {NoHeader} /\ pParent' \in Header \cup {NoHeader}
    BY <1>2 DEF TypeOK
  <2>3. newBestChain' \in Seq(Header)
    BY <1>2 DEF TypeOK
  <2>4. height' \in [Header -> Int] /\ chainWork' \in [Header -> Nat]
    BY <1>1, <1>2, <1>3 DEF TypeOK
  <2>5. childHashes' \in [Header -> SUBSET Header]
    BY <1>1, <1>2, <1>3 DEF TypeOK
  <2>6. mHeaderHashMap' \subseteq Header /\ inBestChain' \subseteq Header
    BY <1>1, <1>3
  <2> HIDE DEF InsertHeader
  <2> QED
    BY <1>2, <1>3, <2>1, <2>2, <2>3, <2>4, <2>5, <2>6 DEF TypeOK
<1>5. /\ \A g \in mHeaderHashMap : height'[g] = height[g] /\ chainWork'[g] = chainWork[g]
      /\ height'[h] = height[p] + 1
      /\ chainWork'[h] = chainWork[p] + Work[h]
  BY <1>1, <1>2, <1>3 DEF TypeOK
<1>6. TreeInv'
  <2>1. \A g, k \in Header : g \in childHashes'[k] <=>
            g \in mHeaderHashMap' \ {Genesis} /\ Prev[g] = k
    <3> SUFFICES ASSUME NEW g \in Header, NEW k \in Header
                 PROVE  g \in childHashes'[k] <=>
                            g \in mHeaderHashMap' \ {Genesis} /\ Prev[g] = k
      OBVIOUS
    <3>1. g \in childHashes[k] <=> g \in mHeaderHashMap \ {Genesis} /\ Prev[g] = k
      BY <1>2 DEF TreeInv
    <3>2. childHashes'[k] = IF k = p THEN childHashes[k] \cup {h} ELSE childHashes[k]
      BY <1>1, <1>2, <1>3 DEF TypeOK
    <3> QED
      BY <3>1, <3>2, <1>1, <1>3
  <2> HIDE DEF p
  <2>2. \A g \in mHeaderHashMap' : height'[g] \in Nat
    BY <1>1, <1>2, <1>3, <1>5 DEF TreeInv
  <2>3. \A g \in mHeaderHashMap' \ {Genesis} :
            /\ Prev[g] \in mHeaderHashMap'
            /\ height'[g] = height'[Prev[g]] + 1
            /\ chainWork'[g] = chainWork'[Prev[g]] + Work[g]
    BY <1>1, <1>2, <1>3, <1>5 DEF TreeInv, p
  <2> QED
    BY <1>1, <1>2, <1>3, <1>5, <2>1, <2>2, <2>3 DEF TreeInv
<1>7. TipInv' /\ pHead \in mHeaderHashMap
  BY <1>1, <1>2, <1>3, <1>5 DEF TipInv, PathTo
<1>8. CASE BecomesBest(chainWork[p] + Work[h], replace)
  <2>1. pc' = "retrace" /\ header' = h /\ pParent' = h /\ newBestChain' = <<>>
    BY <1>2, <1>8
  <2>2. IdleInv' /\ UnsetInv' /\ SetInv'
    BY <2>1 DEF IdleInv, UnsetInv, SetInv
  <2>3. StackInv'
    BY <1>1, <1>3, <2>1 DEF StackInv
  <2>4. RunningInv'
    <3>1. chainWork'[pHead] <= chainWork'[h]
      BY <1>2, <1>5, <1>7, <1>8 DEF BecomesBest, TipInv, TypeOK
    <3> QED
      BY <1>1, <1>2, <1>3, <1>5, <1>7, <2>1, <2>3, <3>1 DEF RunningInv
  <2>5. RetraceInv'
    <3>1. height'[h] \in Int /\ Len(newBestChain') = 0
      BY <2>1, <1>4, <1>1 DEF TypeOK
    <3> QED
      BY <1>1, <1>3, <1>7, <2>1, <3>1 DEF RetraceInv, Base
  <2> QED
    BY <1>4, <1>6, <2>2, <2>4, <2>5 DEF Inv
<1>9. CASE ~ BecomesBest(chainWork[p] + Work[h], replace)
  <2>1. pc' = "idle" /\ newBestChain' = <<>>
    BY <1>2, <1>9
  <2>2. RunningInv' /\ RetraceInv' /\ UnsetInv' /\ SetInv'
    BY <2>1 DEF RunningInv, RetraceInv, UnsetInv, SetInv
  <2>3. chainWork'[h] <= chainWork'[pHead]
    BY <1>1, <1>2, <1>5, <1>7, <1>9 DEF BecomesBest, TipInv, TypeOK
  <2>4. IdleInv'
    BY <1>1, <1>2, <1>3, <1>5, <1>7, <2>1, <2>3 DEF IdleInv
  <2> QED
    BY <1>4, <1>6, <2>2, <2>4 DEF Inv
<1> QED
  BY <1>8, <1>9

(* The retracing loop pushes a header that is off the best chain; its       *)
(* parent is in the tree, so at() does not throw.                           *)
LEMMA RetraceStep == ASSUME Inv, Retrace PROVE Inv'
<1> DEFINE s == newBestChain
           L == Len(newBestChain)
<1> USE DEF Retrace, treeVars, bestVars
<1>1. /\ TypeOK /\ TreeInv /\ StackInv /\ TipInv /\ RunningInv
      /\ header \notin inBestChain /\ pParent \in mHeaderHashMap
      /\ pParent = Base /\ height[pParent] = height[header] - L
  BY DEF Inv, RunningInv, RetraceInv
<1>2. /\ pParent # Genesis /\ pParent \in Header
      /\ Prev[pParent] \in mHeaderHashMap /\ Prev[pParent] \in Header
      /\ height[pParent] = height[Prev[pParent]] + 1
      /\ height[pParent] \in Int /\ height[header] \in Int
      /\ height[Prev[pParent]] \in Int
      /\ header \in Header
  <2>1. /\ pParent # Genesis /\ pParent \in Header /\ header \in Header
        /\ pParent \in mHeaderHashMap \ {Genesis}
    BY <1>1 DEF TypeOK, TreeInv, StackInv
  <2>2. /\ Prev[pParent] \in mHeaderHashMap
        /\ height[pParent] = height[Prev[pParent]] + 1
    BY <1>1, <2>1 DEF TreeInv
  <2> QED
    BY <1>1, <2>1, <2>2 DEF TypeOK
<1>3. /\ newBestChain' \in Seq(Header) /\ newBestChain' # <<>>
      /\ L \in Nat /\ Len(newBestChain') = L + 1
      /\ \A i \in 1 .. L : newBestChain'[i] = s[i]
      /\ newBestChain'[L + 1] = pParent
  <2>1. s \in Seq(Header) /\ newBestChain' = Append(s, pParent) /\ pParent \in Header
    BY <1>1, <1>2 DEF TypeOK
  <2> HIDE DEF Retrace
  <2>2. newBestChain' \in Seq(Header) /\ L \in Nat /\ Len(newBestChain') = L + 1
    BY <2>1
  <2>3. (\A i \in 1 .. L : newBestChain'[i] = s[i]) /\ newBestChain'[L + 1] = pParent
    BY <2>1
  <2>4. newBestChain' # <<>>
    BY <2>2
  <2> QED
    BY <2>2, <2>3, <2>4
<1>4. TypeOK'
  <2>1. pParent' \in Header \cup {NoHeader}
    BY <1>2
  <2> QED
    BY <1>1, <1>3, <2>1 DEF TypeOK
<1>5. TreeInv' /\ TipInv'
  BY <1>1 DEF TreeInv, TipInv, PathTo
<1>6. Base' = Prev[pParent]
  BY <1>3 DEF Base, Top
<1>7. StackInv'
  <2>1. newBestChain'[1] = header
    <3>1. CASE L = 0
      BY <3>1, <1>1, <1>3 DEF Base, TypeOK
    <3>2. CASE L # 0
      BY <3>2, <1>1, <1>3 DEF StackInv, TypeOK
    <3> QED
      BY <3>1, <3>2
  <2>2. ASSUME NEW i \in 1 .. L + 1
        PROVE  /\ newBestChain'[i] \in mHeaderHashMap \ {Genesis}
               /\ newBestChain'[i] \notin inBestChain
               /\ height[newBestChain'[i]] = height[header] + 1 - i
               /\ i < L + 1 => Prev[newBestChain'[i]] = newBestChain'[i + 1]
    <3>1. CASE i = L + 1
      BY <3>1, <1>1, <1>2, <1>3
    <3>2. CASE i < L
      BY <3>2, <1>1, <1>3 DEF StackInv
    <3>3. CASE i = L
      <4>1. s # <<>> /\ Prev[s[L]] = pParent
        BY <3>3, <1>1, <1>3 DEF Base, Top, TypeOK
      <4> QED
        BY <4>1, <3>3, <1>1, <1>3 DEF StackInv
    <3> QED
      BY <3>1, <3>2, <3>3, <1>3
  <2> QED
    BY <2>1, <2>2, <1>1, <1>3 DEF StackInv
<1>8. RunningInv'
  BY <1>1, <1>7 DEF RunningInv
<1>9. RetraceInv'
  <2>1. /\ pParent' = Base' /\ pParent' \in mHeaderHashMap'
        /\ pParent' = Prev[pParent] /\ height' = height /\ header' = header
    BY <1>2, <1>6
  <2> HIDE DEF Retrace, s
  <2>2. height[Prev[pParent]] = height[header] - (L + 1)
    BY <1>1, <1>2, <1>3
  <2>3. height'[pParent'] = height'[header'] - Len(newBestChain')
    BY <1>3, <2>1, <2>2
  <2> QED
    BY <1>1, <1>5, <2>1, <2>3 DEF RetraceInv, Retrace
<1>10. IdleInv' /\ UnsetInv' /\ SetInv'
  BY DEF IdleInv, UnsetInv, SetInv
<1> QED
  BY <1>4, <1>5, <1>8, <1>9, <1>10 DEF Inv

(* Below a flagged header that is not the tip there is a flagged child: the *)
(* one the height map has at the next height.                               *)
LEMMA BestChildBelowTip ==
  ASSUME TypeOK, TreeInv, PathTo(pHead), NEW f \in inBestChain, f # pHead
  PROVE  BestChildren(f) # {}
<1> DEFINE c == mHeaderHeightMap[height[f] + 1]
<1>1. /\ f \in mHeaderHashMap /\ f \in Header /\ height[f] \in Nat
      /\ pHead \in mHeaderHashMap /\ height[pHead] \in Nat
  BY DEF TypeOK, TreeInv, PathTo
<1>2. height[f] < height[pHead]
  BY <1>1 DEF PathTo
<1>3. c \in inBestChain /\ height[c] = height[f] + 1
  BY <1>1, <1>2 DEF PathTo
<1>4. c \in mHeaderHashMap \ {Genesis} /\ c \in Header
  BY <1>1, <1>3 DEF TreeInv, TypeOK
<1>5. Prev[c] \in inBestChain /\ height[Prev[c]] = height[f]
  <2>1. Prev[c] \in inBestChain /\ Prev[c] \in mHeaderHashMap
    BY <1>3, <1>4 DEF TreeInv, PathTo
  <2>2. height[c] = height[Prev[c]] + 1 /\ height[Prev[c]] \in Nat
    BY <1>4, <2>1 DEF TreeInv
  <2> QED
    BY <1>1, <1>3, <2>1, <2>2
<1>6. Prev[c] = f
  BY <1>5 DEF PathTo
<1> QED
  BY <1>1, <1>3, <1>4, <1>6 DEF TreeInv, BestChildren

(* What the end of both loops before the marking loop needs: once the best  *)
(* chain is a path to the fork, setBestChain may mark the stack.            *)
LEMMA ForkAtTipInv == ASSUME Inv, ForkAtTip PROVE Inv'
<1> USE DEF ForkAtTip, StartSetting, treeVars
<1>1. /\ TypeOK /\ TreeInv /\ StackInv /\ TipInv /\ RunningInv
      /\ header \in Header /\ pParent = Base /\ header \notin inBestChain
  BY DEF Inv, RunningInv, RetraceInv, StackInv, TypeOK
<1>2. pParent = pHead
  BY <1>1, BestChildBelowTip DEF TipInv
<1>3. newBestChain # <<>>
  BY <1>1 DEF Base
<1>4. TypeOK'
  BY <1>1 DEF TypeOK, Loops
<1>5. TreeInv' /\ StackInv' /\ PathTo(pHead)' /\ Base' = Base
  BY <1>1 DEF TreeInv, StackInv, TipInv, PathTo, Base, Top
<1>6. RunningInv'
  BY <1>1, <1>5 DEF RunningInv
<1>7. SetInv'
  <2>1. PathTo(Base)'
    BY <1>1, <1>2, <1>5 DEF PathTo
  <2>2. height[pHead] \in Nat
    BY <1>1 DEF TreeInv, TipInv, PathTo
  <2>3. /\ DOMAIN mHeaderHeightMap' = 0 .. height[pHead]
        /\ height'[Base'] = height[pHead]
    BY <1>1, <1>2, <1>5 DEF TipInv
  <2>4. DOMAIN mHeaderHeightMap' \subseteq 0 .. (height'[Base'] + 1)
    BY <2>2, <2>3
  <2> QED
    BY <1>3, <2>1, <2>4 DEF SetInv
<1>8. IdleInv' /\ RetraceInv' /\ UnsetInv'
  BY DEF IdleInv, RetraceInv, UnsetInv
<1> QED
  BY <1>4, <1>5, <1>6, <1>7, <1>8 DEF Inv

(* A child by the childHashes sets is a child by prevBlockHash. *)
LEMMA ChildFacts ==
  ASSUME TypeOK, TreeInv, NEW f \in Header, NEW c \in childHashes[f]
  PROVE  /\ c \in mHeaderHashMap \ {Genesis} /\ c \in Header
         /\ Prev[c] = f /\ f \in mHeaderHashMap /\ c # f
         /\ height[f] \in Nat /\ height[c] = height[f] + 1
<1>1. c \in Header
  BY DEF TypeOK
<1>2. c \in mHeaderHashMap \ {Genesis} /\ Prev[c] = f
  BY <1>1 DEF TreeInv
<1>3. f \in mHeaderHashMap /\ height[c] = height[f] + 1
  BY <1>2 DEF TreeInv
<1>4. height[f] \in Nat
  BY <1>3 DEF TreeInv
<1> QED
  BY <1>1, <1>2, <1>3, <1>4

(* unsetBestChain takes the fork's child off the best chain.  That opens    *)
(* the gap, and the new header cannot be a child of the old tip.            *)
LEMMA UnsetFirstInv ==
  ASSUME Inv, NEW child \in Header, UnsetFirst(child)
  PROVE  Inv'
<1> USE DEF UnsetFirst, BestChildren, treeVars
<1>1. /\ TypeOK /\ TreeInv /\ StackInv /\ TipInv /\ PathTo(pHead) /\ RunningInv
      /\ header \in Header /\ pParent = Base /\ header \notin inBestChain
      /\ pParent \in inBestChain /\ child \in inBestChain
      /\ pParent \in Header /\ child \in childHashes[pParent]
  BY DEF Inv, RunningInv, RetraceInv, StackInv, TypeOK, TipInv
<1>2. /\ child \in mHeaderHashMap \ {Genesis}
      /\ Prev[child] = pParent /\ child # pParent
      /\ height[pParent] \in Nat /\ height[child] = height[pParent] + 1
  BY <1>1, ChildFacts
<1>3. newBestChain # <<>>
  BY <1>1 DEF Base
<1>4. /\ height[child] <= height[pHead] /\ pHead # pParent /\ pHead \in inBestChain
      /\ height[pHead] \in Nat
  BY <1>1, <1>2 DEF PathTo, TreeInv
<1>5. Prev[header] # pHead
  <2>1. /\ newBestChain[1] = header /\ newBestChain \in Seq(Header)
        /\ Len(newBestChain) \in Nat \ {0}
    BY <1>1, <1>3 DEF StackInv, TypeOK
  <2>2. CASE Len(newBestChain) = 1
    BY <2>1, <2>2, <1>1, <1>3, <1>4 DEF Base, Top
  <2>3. CASE Len(newBestChain) > 1
    <3>1. Prev[newBestChain[1]] = newBestChain[2] /\ newBestChain[2] \notin inBestChain
      BY <2>1, <2>3, <1>1 DEF StackInv
    <3> QED
      BY <2>1, <3>1, <1>4
  <2>4. \A n \in Nat \ {0} : n = 1 \/ n > 1
    OBVIOUS
  <2> QED
    BY <2>1, <2>2, <2>3, <2>4
<1>6. TypeOK'
  <2>1. mBestHeight' \in Int /\ mTotalWork' \in Nat
    BY <1>1 DEF TypeOK
  <2> QED
    BY <1>1, <2>1 DEF TypeOK, Loops
<1>7. TreeInv' /\ StackInv' /\ Base' = pParent
  <2>1. TreeInv'
    BY <1>1, <1>2 DEF TreeInv
  <2>2. StackInv'
    BY <1>1 DEF StackInv
  <2> QED
    BY <2>1, <2>2, <1>1 DEF Base, Top
<1>8. RunningInv'
  BY <1>1, <1>7 DEF RunningInv
<1>9. UnsetInv'
  <2>1. /\ pParent' = child /\ inBestChain' = inBestChain \ {child}
        /\ mHeaderHeightMap' = mHeaderHeightMap /\ height' = height
        /\ pHead' = pHead /\ header' = header /\ newBestChain' = newBestChain
        /\ mHeaderHashMap' = mHeaderHashMap
    OBVIOUS
  <2> HIDE DEF UnsetFirst
  <2>2. \A h \in inBestChain' \ {Genesis} : Prev[h] \in inBestChain' \cup {child}
    BY <2>1, <1>1 DEF PathTo
  <2>3. ASSUME NEW h \in inBestChain'
        PROVE  /\ height[h] \in DOMAIN mHeaderHeightMap
               /\ mHeaderHeightMap[height[h]] = h
               /\ height[h] <= height[pHead]
               /\ height[h] <= height[pParent] \/ height[h] > height[child]
    <3>1. /\ h \in inBestChain /\ height[h] \in Nat /\ h # child
      BY <2>1, <1>1 DEF TreeInv
    <3>2. /\ height[h] \in DOMAIN mHeaderHeightMap
          /\ mHeaderHeightMap[height[h]] = h
          /\ mHeaderHeightMap[height[child]] = child
          /\ height[h] <= height[pHead]
      BY <3>1, <1>1 DEF PathTo
    <3> QED
      BY <3>1, <3>2, <1>2
  <2>4. DOMAIN mHeaderHeightMap = 0 .. (height[pParent] + 1)
                                      \cup (height[child] + 1) .. height[pHead]
    BY <1>1, <1>2, <1>4 DEF TipInv
  <2>5. ASSUME NEW n \in DOMAIN mHeaderHeightMap \ {height[pParent] + 1}
        PROVE  /\ mHeaderHeightMap[n] \in inBestChain'
               /\ height[mHeaderHeightMap[n]] = n
    BY <2>1, <1>1, <1>2 DEF PathTo, TipInv
  <2>6. /\ height[pParent] < height[child] /\ child \in mHeaderHashMap \ inBestChain'
        /\ pParent \in inBestChain' /\ pHead \in inBestChain' \cup {child}
    BY <2>1, <1>1, <1>2, <1>4
  <2> QED
    BY <2>1, <2>2, <2>3, <2>4, <2>5, <2>6, <1>3, <1>4, <1>5, <1>7 DEF UnsetInv
<1>10. IdleInv' /\ RetraceInv' /\ SetInv'
  BY DEF IdleInv, RetraceInv, SetInv
<1> QED
  BY <1>6, <1>7, <1>8, <1>9, <1>10 DEF Inv

(* The unsetting loop moves the gap up by one. *)
LEMMA UnsetNextInv ==
  ASSUME Inv, NEW child \in Header, UnsetNext(child)
  PROVE  Inv'
<1> USE DEF UnsetNext, BestChildren, treeVars
<1>1. /\ TypeOK /\ TreeInv /\ StackInv /\ RunningInv /\ UnsetInv /\ pc = "unset"
      /\ child \in inBestChain /\ pParent \in Header /\ child \in childHashes[pParent]
  BY DEF Inv, RunningInv, TypeOK, UnsetInv
<1>2. /\ child \in mHeaderHashMap \ {Genesis}
      /\ Prev[child] = pParent /\ child # pParent
      /\ height[pParent] \in Nat /\ height[child] = height[pParent] + 1
  BY <1>1, ChildFacts
<1>3. /\ DOMAIN mHeaderHeightMap' = DOMAIN mHeaderHeightMap \ {height[child]}
      /\ \A n \in DOMAIN mHeaderHeightMap' : mHeaderHeightMap'[n] = mHeaderHeightMap[n]
  BY DEF Erase
<1>4. TypeOK'
  BY <1>1, <1>3 DEF TypeOK
<1>5. TreeInv' /\ StackInv' /\ Base' = Base
  <2>1. TreeInv'
    BY <1>1, <1>2 DEF TreeInv
  <2>2. StackInv'
    BY <1>1 DEF StackInv
  <2> QED
    BY <2>1, <2>2 DEF Base, Top
<1>6. RunningInv'
  BY <1>1, <1>5 DEF RunningInv
<1>7. UnsetInv'
  <2>1. /\ pParent' = child /\ inBestChain' = inBestChain \ {child}
        /\ height' = height /\ mHeaderHashMap' = mHeaderHashMap
        /\ pHead' = pHead /\ header' = header /\ newBestChain' = newBestChain
    OBVIOUS
  <2> HIDE DEF UnsetNext
  <2>2. /\ Base \in inBestChain /\ height[Base] \in Nat /\ height[Base] < height[pParent]
        /\ height[pHead] \in Nat /\ height[child] <= height[pHead]
        /\ height[child] \in DOMAIN mHeaderHeightMap
        /\ mHeaderHeightMap[height[child]] = child
        /\ pHead \in inBestChain \cup {pParent} /\ pHead \in mHeaderHashMap
        /\ pParent \notin inBestChain /\ newBestChain # <<>> /\ Prev[header] # pHead
    BY <1>1 DEF UnsetInv, TreeInv, RunningInv
  <2>3. \A h \in inBestChain' \ {Genesis} : Prev[h] \in inBestChain' \cup {child}
    <3> SUFFICES ASSUME NEW h \in inBestChain', h # Genesis
                 PROVE  Prev[h] \in inBestChain' \cup {child}
      OBVIOUS
    <3>1. h \in inBestChain /\ h # child /\ h \in mHeaderHashMap
      BY <2>1, <1>1 DEF TreeInv
    <3>2. Prev[h] \in inBestChain \cup {pParent}
      BY <3>1, <1>1 DEF UnsetInv
    <3>3. Prev[h] # pParent
      <4>1. ASSUME Prev[h] = pParent PROVE FALSE
        <5>1. height[h] = height[child]
          BY <4>1, <3>1, <1>1, <1>2 DEF TreeInv
        <5>2. mHeaderHeightMap[height[h]] = h
          BY <3>1, <1>1 DEF UnsetInv
        <5> QED
          BY <5>1, <5>2, <2>2, <3>1
      <4> QED
        BY <4>1
    <3> QED
      BY <3>2, <3>3, <2>1
  <2>4. ASSUME NEW h \in inBestChain'
        PROVE  /\ height[h] \in DOMAIN mHeaderHeightMap'
               /\ mHeaderHeightMap'[height[h]] = h
               /\ height[h] <= height[pHead]
               /\ height[h] <= height[Base] \/ height[h] > height[child]
    <3>1. /\ h \in inBestChain /\ height[h] \in Nat /\ h # child
      BY <2>1, <1>1 DEF TreeInv
    <3>2. /\ height[h] \in DOMAIN mHeaderHeightMap
          /\ mHeaderHeightMap[height[h]] = h
          /\ height[h] <= height[pHead]
          /\ height[h] <= height[Base] \/ height[h] > height[pParent]
      BY <3>1, <1>1 DEF UnsetInv
    <3>3. height[h] # height[child]
      BY <3>1, <3>2, <2>2
    <3> QED
      BY <3>1, <3>2, <3>3, <2>2, <1>2, <1>3
  <2>5. DOMAIN mHeaderHeightMap' = 0 .. (height[Base] + 1)
                                      \cup (height[child] + 1) .. height[pHead]
    <3>1. DOMAIN mHeaderHeightMap = 0 .. (height[Base] + 1)
                                      \cup (height[pParent] + 1) .. height[pHead]
      BY <1>1 DEF UnsetInv
    <3> QED
      BY <3>1, <1>2, <1>3, <2>2
  <2>6. ASSUME NEW n \in DOMAIN mHeaderHeightMap' \ {height[Base] + 1}
        PROVE  /\ mHeaderHeightMap'[n] \in inBestChain'
               /\ height[mHeaderHeightMap'[n]] = n
    <3>1. /\ n \in DOMAIN mHeaderHeightMap \ {height[Base] + 1} /\ n # height[child]
          /\ mHeaderHeightMap'[n] = mHeaderHeightMap[n]
      BY <1>3
    <3>2. mHeaderHeightMap[n] \in inBestChain /\ height[mHeaderHeightMap[n]] = n
      BY <3>1, <1>1 DEF UnsetInv
    <3> QED
      BY <3>1, <3>2, <2>1
  <2>7. /\ height[Base] < height[child] /\ child \in mHeaderHashMap \ inBestChain'
        /\ Base \in inBestChain' /\ pHead \in inBestChain' \cup {child}
    <3>1. Base # child
      BY <2>2, <1>2
    <3>2. pHead # pParent
      BY <2>2, <1>2
    <3> QED
      BY <3>1, <3>2, <2>1, <2>2, <1>2
  <2> QED
    BY <2>1, <2>2, <2>3, <2>4, <2>5, <2>6, <2>7, <1>5 DEF UnsetInv
<1>8. IdleInv' /\ RetraceInv' /\ SetInv'
  BY <1>1 DEF IdleInv, RetraceInv, SetInv
<1> QED
  BY <1>4, <1>5, <1>6, <1>7, <1>8 DEF Inv

(* While the gap has not reached the old tip, the cursor has a child on the *)
(* best chain.                                                              *)
LEMMA BestChildAboveGap ==
  ASSUME TypeOK, TreeInv, UnsetInv, pc = "unset", pHead \in mHeaderHashMap,
         pParent # pHead
  PROVE  BestChildren(pParent) # {}
<1> DEFINE c == mHeaderHeightMap[height[pParent] + 1]
<1>1. /\ Base \in inBestChain /\ pHead \in inBestChain
      /\ height[Base] \in Nat /\ height[pParent] \in Nat /\ height[pHead] \in Nat
      /\ height[Base] < height[pParent] /\ height[pParent] < height[pHead]
      /\ pParent \in mHeaderHashMap /\ pParent \in Header
  <2>1. Base \in inBestChain /\ pHead \in inBestChain /\ pParent \in mHeaderHashMap
    BY DEF UnsetInv
  <2>2. height[Base] \in Nat /\ height[pParent] \in Nat /\ height[pHead] \in Nat
    BY <2>1 DEF TreeInv
  <2>3. height[Base] < height[pParent] /\ height[pParent] < height[pHead]
    BY <2>1, <2>2 DEF UnsetInv
  <2> QED
    BY <2>1, <2>2, <2>3 DEF TypeOK
<1>2. c \in inBestChain /\ height[c] = height[pParent] + 1
  <2>1. height[pParent] + 1 \in DOMAIN mHeaderHeightMap \ {height[Base] + 1}
    BY <1>1 DEF UnsetInv
  <2> QED
    BY <2>1 DEF UnsetInv
<1>3. c \in mHeaderHashMap \ {Genesis} /\ c \in Header
  BY <1>1, <1>2 DEF TreeInv, TypeOK
<1>4. Prev[c] \in mHeaderHashMap /\ height[Prev[c]] = height[pParent]
  <2>1. Prev[c] \in mHeaderHashMap /\ height[c] = height[Prev[c]] + 1
    BY <1>3 DEF TreeInv
  <2>2. height[Prev[c]] \in Nat
    BY <2>1 DEF TreeInv
  <2> QED
    BY <1>1, <1>2, <2>1, <2>2
<1>5. Prev[c] \in inBestChain \cup {pParent}
  BY <1>2, <1>3 DEF UnsetInv
<1>6. Prev[c] = pParent
  <2>1. ASSUME Prev[c] \in inBestChain PROVE FALSE
    <3>1. height[Prev[c]] <= height[Base] \/ height[Prev[c]] > height[pParent]
      BY <2>1 DEF UnsetInv
    <3> QED
      BY <3>1, <1>1, <1>4
  <2> QED
    BY <2>1, <1>5
<1> QED
  BY <1>1, <1>2, <1>3, <1>6 DEF TreeInv, BestChildren

(* When the unsetting loop ends it has reached the old tip, and the best    *)
(* chain is a path to the fork.                                             *)
LEMMA UnsetDoneInv == ASSUME Inv, UnsetDone PROVE Inv'
<1> USE DEF UnsetDone, StartSetting, treeVars
<1>1. /\ TypeOK /\ TreeInv /\ StackInv /\ RunningInv /\ UnsetInv /\ pc = "unset"
      /\ header \in Header /\ pHead \in mHeaderHashMap
  BY DEF Inv, RunningInv, TypeOK, StackInv
<1>2. pParent = pHead
  BY <1>1, BestChildAboveGap DEF BestChildren
<1>3. /\ newBestChain # <<>> /\ Base \in inBestChain /\ Base \in mHeaderHashMap
      /\ height[Base] \in Nat /\ height[pHead] \in Nat /\ height[Base] < height[pHead]
      /\ \A h \in inBestChain : h \in mHeaderHashMap /\ height[h] \in Nat
  BY <1>1, <1>2 DEF UnsetInv, TreeInv
<1>4. TypeOK'
  BY <1>1 DEF TypeOK, Loops
<1>5. TreeInv' /\ StackInv' /\ Base' = Base
  BY <1>1 DEF TreeInv, StackInv, Base, Top
<1>6. RunningInv'
  BY <1>1, <1>5 DEF RunningInv
<1>7. DOMAIN mHeaderHeightMap = 0 .. (height[Base] + 1)
  <2>1. DOMAIN mHeaderHeightMap = 0 .. (height[Base] + 1)
                                     \cup (height[pHead] + 1) .. height[pHead]
    BY <1>1, <1>2 DEF UnsetInv
  <2> QED
    BY <2>1, <1>3
<1>8. \A h \in inBestChain \ {Genesis} : Prev[h] \in inBestChain
  <2> SUFFICES ASSUME NEW h \in inBestChain \ {Genesis}, Prev[h] = pHead
               PROVE  FALSE
    BY <1>1, <1>2 DEF UnsetInv
  <2>1. height[h] = height[pHead] + 1
    BY <1>3, <1>1 DEF TreeInv
  <2>2. height[h] <= height[pHead]
    BY <1>1 DEF UnsetInv
  <2> QED
    BY <2>1, <2>2, <1>3
<1>9. \A h \in inBestChain :
          /\ height[h] <= height[Base]
          /\ height[h] \in DOMAIN mHeaderHeightMap
          /\ mHeaderHeightMap[height[h]] = h
  <2> SUFFICES ASSUME NEW h \in inBestChain
               PROVE  /\ height[h] <= height[Base]
                      /\ height[h] \in DOMAIN mHeaderHeightMap
                      /\ mHeaderHeightMap[height[h]] = h
    OBVIOUS
  <2>1. /\ height[h] \in DOMAIN mHeaderHeightMap
        /\ mHeaderHeightMap[height[h]] = h
        /\ height[h] <= height[pHead]
        /\ height[h] <= height[Base] \/ height[h] > height[pHead]
    BY <1>1, <1>2 DEF UnsetInv
  <2> QED
    BY <2>1, <1>3
<1>10. \A n \in 0 .. height[Base] :
          /\ n \in DOMAIN mHeaderHeightMap
          /\ mHeaderHeightMap[n] \in inBestChain
          /\ height[mHeaderHeightMap[n]] = n
  <2> SUFFICES ASSUME NEW n \in 0 .. height[Base]
               PROVE  /\ n \in DOMAIN mHeaderHeightMap
                      /\ mHeaderHeightMap[n] \in inBestChain
                      /\ height[mHeaderHeightMap[n]] = n
    OBVIOUS
  <2>1. n \in DOMAIN mHeaderHeightMap \ {height[Base] + 1}
    BY <1>3, <1>7
  <2> QED
    BY <2>1, <1>1 DEF UnsetInv
<1>11. SetInv'
  <2>1. PathTo(Base)
    BY <1>3, <1>8, <1>9, <1>10 DEF PathTo
  <2>2. PathTo(Base)'
    BY <2>1, <1>5 DEF PathTo
  <2>3. DOMAIN mHeaderHeightMap' \subseteq 0 .. (height'[Base'] + 1)
    BY <1>5, <1>7
  <2> QED
    BY <1>3, <2>2, <2>3 DEF SetInv
<1>12. IdleInv' /\ RetraceInv' /\ UnsetInv'
  BY DEF IdleInv, RetraceInv, UnsetInv
<1> QED
  BY <1>4, <1>5, <1>6, <1>11, <1>12 DEF Inv

(* Arithmetic about the length of a stack that is not empty. *)
LEMMA StackLength ==
  ASSUME NEW n \in Nat \ {0}
  PROVE  /\ n \in 1 .. n /\ n - 1 \in Int /\ (n - 1) + 1 = n
         /\ n # 1 => n - 1 \in 1 .. n - 1
         /\ \A i \in 1 .. n - 1 :
                /\ i \in 1 .. n /\ i < n /\ i \in Int
                /\ i < n - 1 => i + 1 \in 1 .. n - 1
OBVIOUS

(* What pop() leaves of a stack kept as a sequence. *)
LEMMA PopFacts ==
  ASSUME NEW S, NEW q \in Seq(S), q # <<>>
  PROVE  /\ Len(q) \in Nat \ {0}
         /\ SubSeq(q, 1, Len(q) - 1) \in Seq(S)
         /\ Len(SubSeq(q, 1, Len(q) - 1)) = Len(q) - 1
         /\ \A i \in 1 .. Len(q) - 1 : SubSeq(q, 1, Len(q) - 1)[i] = q[i]
         /\ SubSeq(q, 1, Len(q) - 1) = <<>> <=> Len(q) = 1
<1>1. Len(q) \in Nat \ {0} /\ DOMAIN q = 1 .. Len(q) /\ \A i \in 1 .. Len(q) : q[i] \in S
  BY EmptySeq, LenProperties
<1>2. PICK n \in Nat \ {0} : n = Len(q)
  BY <1>1
<1>3. \A i \in 1 .. n - 1 : q[i] \in S
  BY <1>1, <1>2
<1> DEFINE r == SubSeq(q, 1, n - 1)
<1>4. /\ r \in Seq(S)
      /\ Len(r) = IF 1 <= n - 1 THEN (n - 1) - 1 + 1 ELSE 0
      /\ \A i \in 1 .. (n - 1) - 1 + 1 : r[i] = q[1 + i - 1]
  BY <1>3, SubSeqProperties
<1> HIDE DEF r
<1>5. Len(r) = n - 1 /\ \A i \in 1 .. n - 1 : r[i] = q[i]
  BY <1>4
<1>6. r = <<>> <=> n = 1
  <2>1. r = <<>> <=> Len(r) = 0
    BY <1>4, EmptySeq
  <2> QED
    BY <2>1, <1>5
<1> QED
  BY <1>1, <1>2, <1>4, <1>5, <1>6 DEF r

(* The marking loop pops the header above the end of the marked path. *)
LEMMA SetNextInv == ASSUME Inv, SetNext PROVE Inv'
<1> DEFINE s == newBestChain
           L == Len(newBestChain)
           t == newBestChain[Len(newBestChain)]
<1> USE DEF SetNext, treeVars
<1>1. /\ TypeOK /\ TreeInv /\ StackInv /\ RunningInv /\ SetInv /\ pc = "set"
      /\ newBestChain # <<>> /\ PathTo(Base)
  BY DEF Inv, RunningInv, SetInv
<1>2. L \in Nat \ {0} /\ L \in 1 .. L
  BY <1>1, PopFacts, StackLength DEF TypeOK
<1>3. /\ t \in mHeaderHashMap \ {Genesis} /\ t \notin inBestChain /\ t \in Header
      /\ height[t] = height[header] + 1 - L
      /\ header \in Header /\ height[header] \in Int
  BY <1>1, <1>2 DEF StackInv, TypeOK
<1>4. /\ Base = Prev[t] /\ Base \in inBestChain /\ Base \in mHeaderHashMap
      /\ height[Base] \in Nat /\ height[t] = height[Base] + 1
  <2>1. Base = Prev[t] /\ Base \in inBestChain
    BY <1>1 DEF Base, Top, PathTo
  <2>2. Base \in mHeaderHashMap
    BY <2>1, <1>1 DEF TreeInv
  <2> QED
    BY <2>1, <2>2, <1>1, <1>3 DEF TreeInv
<1>5. /\ newBestChain' \in Seq(Header) /\ Len(newBestChain') = L - 1
      /\ \A i \in 1 .. L - 1 : newBestChain'[i] = s[i]
      /\ newBestChain' = <<>> <=> L = 1
  BY <1>1, PopFacts DEF TypeOK
<1>6. /\ inBestChain' = inBestChain \cup {t}
      /\ DOMAIN mHeaderHeightMap' = DOMAIN mHeaderHeightMap \cup {height[t]}
      /\ \A n \in DOMAIN mHeaderHeightMap' :
             mHeaderHeightMap'[n] = IF n = height[t] THEN t ELSE mHeaderHeightMap[n]
      /\ height' = height /\ chainWork' = chainWork /\ mHeaderHashMap' = mHeaderHashMap
      /\ header' = header /\ pHead' = pHead /\ pc' = pc /\ childHashes' = childHashes
      /\ mBestHeight' = mBestHeight /\ mTotalWork' = mTotalWork /\ pParent' = pParent
      /\ bFlushed' = bFlushed
  BY DEF Put
<1> HIDE DEF SetNext
<1>7. TypeOK'
  <2>1. DOMAIN mHeaderHeightMap' \subseteq Nat
    <3>1. height[t] \in Nat
      BY <1>4
    <3> QED
      BY <3>1, <1>1, <1>6 DEF TypeOK
  <2>2. \A n \in DOMAIN mHeaderHeightMap' : mHeaderHeightMap'[n] \in Header
    BY <1>1, <1>3, <1>6 DEF TypeOK
  <2> QED
    BY <1>1, <1>3, <1>5, <1>6, <2>1, <2>2 DEF TypeOK
<1>8. TreeInv'
  BY <1>1, <1>3, <1>6 DEF TreeInv
<1>9. ASSUME NEW i \in 1 .. L - 1
      PROVE  /\ newBestChain'[i] = s[i] /\ i \in 1 .. L /\ i \in Int
             /\ s[i] \in mHeaderHashMap \ {Genesis}
             /\ s[i] \notin inBestChain \cup {t}
             /\ height[s[i]] = height[header] + 1 - i
             /\ Prev[s[i]] = s[i + 1]
             /\ i < L - 1 => newBestChain'[i + 1] = s[i + 1]
  <2>1. i \in 1 .. L /\ i < L /\ i \in Int /\ newBestChain'[i] = s[i]
    BY <1>2, <1>5, StackLength
  <2>2. /\ s[i] \in mHeaderHashMap \ {Genesis} /\ s[i] \notin inBestChain
        /\ height[s[i]] = height[header] + 1 - i
        /\ Prev[s[i]] = s[i + 1]
    BY <1>1, <2>1 DEF StackInv
  <2>3. height[s[i]] # height[t]
    BY <1>2, <1>3, <2>1, <2>2
  <2>4. i < L - 1 => newBestChain'[i + 1] = s[i + 1]
    BY <1>2, <1>5, StackLength
  <2> QED
    BY <2>1, <2>2, <2>3, <2>4
<1>10. Base' = t
  <2>1. CASE L = 1
    <3>1. newBestChain' = <<>>
      BY <2>1, <1>5
    <3>2. t = header
      BY <2>1, <1>1 DEF StackInv
    <3> QED
      BY <3>1, <3>2, <1>6 DEF Base
  <2>2. CASE L # 1
    <3>1. L - 1 \in 1 .. L - 1 /\ (L - 1) + 1 = L
      BY <2>2, <1>2, StackLength
    <3>2. newBestChain'[L - 1] = s[L - 1] /\ Prev[s[L - 1]] = s[L]
      BY <3>1, <1>9
    <3>3. newBestChain' # <<>> /\ Len(newBestChain') = L - 1
      BY <2>2, <1>5
    <3> QED
      BY <3>2, <3>3 DEF Base, Top
  <2> QED
    BY <2>1, <2>2
<1>11. StackInv'
  <2>1. newBestChain' # <<>> => newBestChain'[1] = header
    <3> SUFFICES ASSUME newBestChain' # <<>> PROVE newBestChain'[1] = header
      OBVIOUS
    <3>1. 1 \in 1 .. L - 1
      BY <1>2, <1>5
    <3> QED
      BY <3>1, <1>1, <1>9 DEF StackInv
  <2>2. Len(newBestChain') = L - 1 /\ header' = header
    BY <1>5, <1>6
  <2>3. header' \in mHeaderHashMap' \ {Genesis}
    BY <1>1, <1>6, <2>2 DEF StackInv
  <2>4. ASSUME NEW i \in 1 .. Len(newBestChain')
        PROVE  /\ newBestChain'[i] \in mHeaderHashMap' \ {Genesis}
               /\ newBestChain'[i] \notin inBestChain'
               /\ height'[newBestChain'[i]] = height'[header'] + 1 - i
               /\ i < Len(newBestChain') => Prev[newBestChain'[i]] = newBestChain'[i + 1]
    <3>1. i \in 1 .. L - 1
      BY <2>2
    <3> QED
      BY <3>1, <2>2, <1>6, <1>9
  <2> QED
    BY <2>1, <2>2, <2>3, <2>4 DEF StackInv
<1>12. RunningInv'
  BY <1>1, <1>6, <1>11 DEF RunningInv
<1>13. PathTo(Base)'
  <2>1. \A h \in inBestChain' \ {Genesis} : Prev[h] \in inBestChain'
    BY <1>1, <1>4, <1>6 DEF PathTo
  <2>2. ASSUME NEW h \in inBestChain'
        PROVE  /\ height[h] <= height[t] /\ height[h] \in DOMAIN mHeaderHeightMap'
               /\ mHeaderHeightMap'[height[h]] = h
    <3>1. CASE h = t
      BY <3>1, <1>4, <1>6
    <3>2. CASE h # t
      <4>1. h \in inBestChain /\ height[h] \in Nat
        BY <3>2, <1>1, <1>6 DEF TreeInv
      <4>2. /\ height[h] <= height[Base] /\ height[h] \in DOMAIN mHeaderHeightMap
            /\ mHeaderHeightMap[height[h]] = h
        BY <4>1, <1>1 DEF PathTo
      <4> QED
        BY <4>1, <4>2, <1>4, <1>6
    <3> QED
      BY <3>1, <3>2
  <2>3. ASSUME NEW n \in 0 .. height[t]
        PROVE  /\ n \in DOMAIN mHeaderHeightMap'
               /\ mHeaderHeightMap'[n] \in inBestChain'
               /\ height[mHeaderHeightMap'[n]] = n
    <3>1. CASE n = height[t]
      BY <3>1, <1>6
    <3>2. CASE n # height[t]
      <4>1. n \in 0 .. height[Base]
        BY <3>2, <1>4
      <4>2. /\ n \in DOMAIN mHeaderHeightMap /\ mHeaderHeightMap[n] \in inBestChain
            /\ height[mHeaderHeightMap[n]] = n
        BY <4>1, <1>1 DEF PathTo
      <4> QED
        BY <4>2, <3>2, <1>6
    <3> QED
      BY <3>1, <3>2
  <2> QED
    BY <2>1, <2>2, <2>3, <1>6, <1>10 DEF PathTo
<1>14. SetInv'
  <2>1. DOMAIN mHeaderHeightMap' = 0 .. height[t]
    <3>1. \A n \in 0 .. height[Base] : n \in DOMAIN mHeaderHeightMap
      BY <1>1 DEF PathTo
    <3>2. DOMAIN mHeaderHeightMap \subseteq 0 .. (height[Base] + 1)
      BY <1>1 DEF SetInv
    <3> QED
      BY <3>1, <3>2, <1>4, <1>6
  <2>2. DOMAIN mHeaderHeightMap' \subseteq 0 .. (height[t] + 1)
    BY <2>1, <1>4
  <2>3. mBestHeight' = height'[header'] /\ mTotalWork' = chainWork'[header']
    BY <1>1, <1>6 DEF SetInv
  <2> QED
    BY <2>1, <2>2, <2>3, <1>6, <1>10, <1>13 DEF SetInv
<1>15. IdleInv' /\ RetraceInv' /\ UnsetInv'
  BY <1>1, <1>6 DEF IdleInv, RetraceInv, UnsetInv
<1> QED
  BY <1>7, <1>8, <1>12, <1>14, <1>15 DEF Inv

(* With the stack empty the path ends in the new header, which becomes pHead. *)
LEMMA SetDoneInv == ASSUME Inv, SetDone PROVE Inv'
<1> USE DEF SetDone, treeVars
<1>1. /\ TypeOK /\ TreeInv /\ StackInv /\ RunningInv /\ SetInv /\ pc = "set"
      /\ PathTo(header) /\ Base = header
  BY DEF Inv, RunningInv, SetInv, Base
<1>2. /\ header \in mHeaderHashMap /\ header \in Header
      /\ DOMAIN mHeaderHeightMap = 0 .. height[header]
      /\ mBestHeight = height[header] /\ mTotalWork = chainWork[header]
  BY <1>1 DEF SetInv, StackInv, TypeOK
<1>3. TypeOK'
  <2>1. bFlushed' \in BOOLEAN /\ pc' \in Loops
    BY DEF Loops
  <2> QED
    BY <1>1, <1>2, <2>1 DEF TypeOK
<1>4. TreeInv' /\ PathTo(pHead)'
  BY <1>1 DEF TreeInv, PathTo
<1>5. TipInv'
  BY <1>2, <1>4 DEF TipInv
<1>6. \A h \in mHeaderHashMap : chainWork[h] <= chainWork[header]
  <2> SUFFICES ASSUME NEW h \in mHeaderHashMap, h # header
               PROVE  chainWork[h] <= chainWork[header]
    BY <1>1, <1>2 DEF TypeOK
  <2>1. /\ chainWork[h] <= chainWork[pHead] /\ chainWork[pHead] <= chainWork[header]
        /\ pHead \in mHeaderHashMap
    BY <1>1 DEF RunningInv
  <2>2. chainWork[h] \in Nat /\ chainWork[pHead] \in Nat /\ chainWork[header] \in Nat
    BY <2>1, <1>1, <1>2 DEF TypeOK
  <2> QED
    BY <2>1, <2>2
<1>7. IdleInv'
  BY <1>2, <1>5, <1>6 DEF IdleInv
<1>8. RunningInv' /\ RetraceInv' /\ UnsetInv' /\ SetInv'
  BY DEF RunningInv, RetraceInv, UnsetInv, SetInv
<1> QED
  BY <1>3, <1>4, <1>7, <1>8 DEF Inv

(* flushToFile changes only bFlushed, and no other step changes nothing at all. *)
LEMMA UnchangedInv ==
  ASSUME Inv, UNCHANGED <<treeVars, bestVars, loopVars>>, bFlushed' \in BOOLEAN
  PROVE  Inv'
<1> USE DEF treeVars, bestVars, loopVars
<1>1. TypeOK'
  BY DEF Inv, TypeOK
<1>2. TreeInv' /\ StackInv' = StackInv /\ Base' = Base /\ TipInv' = TipInv
  BY DEF Inv, TreeInv, StackInv, Base, Top, TipInv, PathTo
<1>3. IdleInv' /\ RunningInv' /\ RetraceInv'
  BY <1>2 DEF Inv, IdleInv, EmptyInv, RunningInv, RetraceInv
<1>4. UnsetInv'
  BY <1>2 DEF Inv, UnsetInv
<1>5. SetInv'
  BY <1>2 DEF Inv, SetInv, PathTo
<1> QED
  BY <1>1, <1>2, <1>3, <1>4, <1>5 DEF Inv

(* Every step of the tree preserves the invariant. *)
LEMMA NextInv == Inv /\ [Next]_vars => Inv'
<1> SUFFICES ASSUME Inv, [Next]_vars PROVE Inv'
  OBVIOUS
<1>0. bFlushed \in BOOLEAN
  BY DEF Inv, TypeOK
<1>1. CASE Clear
  BY <1>1, ClearInv
<1>2. CASE SetGenesisBlock
  BY <1>2, SetGenesisInv
<1>3. CASE \E h \in Header, check \in BOOLEAN, replace \in BOOLEAN :
               InsertHeader(h, check, replace)
  BY <1>3, InsertInv
<1>4. CASE SetBestChainStep
  <2>1. CASE Retrace
    BY <2>1, RetraceStep
  <2>2. CASE ForkAtTip
    BY <2>2, ForkAtTipInv
  <2>3. CASE \E child \in Header : UnsetFirst(child) \/ UnsetNext(child)
    BY <2>3, UnsetFirstInv, UnsetNextInv
  <2>4. CASE UnsetDone
    BY <2>4, UnsetDoneInv
  <2>5. CASE SetNext
    BY <2>5, SetNextInv
  <2>6. CASE SetDone
    BY <2>6, SetDoneInv
  <2> QED
    BY <1>4, <2>1, <2>2, <2>3, <2>4, <2>5, <2>6 DEF SetBestChainStep
<1>5. CASE FlushToFile
  <2>1. bFlushed' \in BOOLEAN /\ UNCHANGED <<treeVars, bestVars, loopVars>>
    BY <1>5 DEF FlushToFile
  <2> QED
    BY <2>1, UnchangedInv
<1>6. CASE UNCHANGED vars
  <2>1. bFlushed' \in BOOLEAN /\ UNCHANGED <<treeVars, bestVars, loopVars>>
    BY <1>0, <1>6 DEF vars
  <2> QED
    BY <2>1, UnchangedInv
<1> QED
  BY <1>1, <1>2, <1>3, <1>4, <1>5, <1>6 DEF Next

(* The invariant holds in every reachable state of CoinQBlockTreeMem. *)
THEOREM InvHolds == Spec => []Inv
BY InitInv, NextInv, PTL DEF Spec

(* Type correctness: in particular setBestChain's stack only ever holds     *)
(* headers, which needs the whole invariant.                                *)
THEOREM TypeCorrect == Spec => []TypeOK
<1>1. Inv => TypeOK
  BY DEF Inv
<1> QED
  BY <1>1, InvHolds, PTL

(* Between calls of insertHeader the headers flagged inBestChain are one    *)
(* path from the genesis block to pHead, whatever reorganisations happened. *)
THEOREM BestChainIsAlwaysPath == Spec => []BestChainIsPath
<1>1. Inv => BestChainIsPath
  BY DEF Inv, IdleInv, TipInv, PathTo, TreeInv, BestChainIsPath, Settled
<1> QED
  BY <1>1, InvHolds, PTL

(* Between calls the height map is exactly the index of the best chain, so  *)
(* every reader of it sees the best chain and flushToFile finds every block.*)
THEOREM HeightMapIsIndex == Spec => []HeightMapIndexesBestChain
<1>1. Inv => HeightMapIndexesBestChain
  BY DEF Inv, IdleInv, TipInv, PathTo, HeightMapIndexesBestChain, Settled
<1> QED
  BY <1>1, InvHolds, PTL

(* getTip returns a header of maximal total work. *)
THEOREM TipIsHeaviest == Spec => []TipHasMostWork
<1>1. Inv => TipHasMostWork
  BY DEF Inv, IdleInv, TipHasMostWork, Settled
<1> QED
  BY <1>1, InvHolds, PTL

(* at(prevBlockHash()) never throws out of the two walking loops. *)
THEOREM CursorStaysInTree == Spec => []RetraceStaysInTree
<1>1. Inv => RetraceStaysInTree
  BY DEF Inv, RetraceInv, UnsetInv, RetraceStaysInTree
<1> QED
  BY <1>1, InvHolds, PTL

(* unsetBestChain's while loop never spins: its cursor either has a child   *)
(* on the best chain or is the old tip, whose only possible child, the      *)
(* header being inserted, is known to hang elsewhere.                       *)
THEOREM UnsetLoopNeverSpins == Spec => []UnsetNeverSpins
<1>1. Inv => UnsetNeverSpins
  <2> SUFFICES ASSUME Inv, pc = "unset", BestChildren(pParent) = {}
               PROVE  childHashes[pParent] = {}
    BY DEF UnsetNeverSpins
  <2>1. /\ TypeOK /\ TreeInv /\ UnsetInv /\ Prev[header] # pHead
        /\ pHead \in mHeaderHashMap /\ pHead \in Header
        /\ \A h \in mHeaderHashMap \ {header} : chainWork[h] <= chainWork[pHead]
    BY DEF Inv, RunningInv, UnsetInv, TypeOK
  <2>2. pParent = pHead
    BY <2>1, BestChildAboveGap
  <2>3. ASSUME NEW g \in childHashes[pHead] PROVE FALSE
    <3>1. g \in mHeaderHashMap \ {Genesis} /\ Prev[g] = pHead /\ g \in Header
      BY <2>1, ChildFacts
    <3>2. g # header
      BY <3>1, <2>1
    <3>3. chainWork[g] = chainWork[pHead] + Work[g]
      BY <3>1, <2>1 DEF TreeInv
    <3>4. chainWork[g] <= chainWork[pHead]
      BY <3>1, <3>2, <2>1
    <3>5. chainWork[pHead] \in Nat /\ Work[g] \in Nat \ {0}
      BY <3>1, <2>1 DEF TypeOK
    <3> QED
      BY <3>3, <3>4, <3>5
  <2> QED
    BY <2>2, <2>3
<1> QED
  BY <1>1, InvHolds, PTL

(* Whatever makes a header the tip, the new tip has at least the work of    *)
(* the old one.                                                             *)
THEOREM TipNeverLosesWork == Spec => HeadOnlyGainsWork
<1> DEFINE Gains == pHead # NoHeader /\ pHead' # NoHeader
                        => chainWork'[pHead'] >= chainWork[pHead]
<1>1. Inv /\ [Next]_vars => [Gains]_vars
  <2> SUFFICES ASSUME Inv, Next, pHead # NoHeader, pHead' # NoHeader
               PROVE  chainWork'[pHead'] >= chainWork[pHead]
    OBVIOUS
  <2>0. pHead \in Header /\ chainWork[pHead] \in Nat
    BY DEF Inv, TypeOK
  <2>1. CASE pHead' = pHead /\ chainWork'[pHead] = chainWork[pHead]
    BY <2>0, <2>1
  <2>2. CASE SetDone
    <3>1. header \in Header /\ chainWork[header] \in Nat
      BY <2>2 DEF Inv, TypeOK, RunningInv, StackInv, SetDone
    <3>2. chainWork[pHead] <= chainWork[header]
      BY <2>2 DEF Inv, RunningInv, SetDone
    <3> QED
      BY <2>0, <2>2, <3>1, <3>2 DEF SetDone, treeVars
  <2>3. CASE Clear
    BY <2>3 DEF Clear
  <2>4. CASE SetGenesisBlock
    BY <2>4 DEF SetGenesisBlock, Inv, IdleInv, EmptyInv
  <2>5. CASE \E h \in Header, check \in BOOLEAN, replace \in BOOLEAN :
                 InsertHeader(h, check, replace)
    <3>1. PICK h \in Header, check \in BOOLEAN, replace \in BOOLEAN :
                 InsertHeader(h, check, replace)
      BY <2>5
    <3>2. pHead \in mHeaderHashMap /\ h \notin mHeaderHashMap
      BY <3>1 DEF InsertHeader, Accepts, Inv, IdleInv, TipInv, PathTo, TreeInv
    <3>3. pHead' = pHead /\ chainWork'[pHead] = chainWork[pHead]
      BY <2>0, <3>1, <3>2 DEF InsertHeader, bestVars, Inv, TypeOK
    <3> QED
      BY <3>3, <2>1
  <2>6. CASE Retrace \/ ForkAtTip \/ UnsetDone \/ SetNext \/ FlushToFile
    BY <2>1, <2>6 DEF Retrace, ForkAtTip, UnsetDone, SetNext, FlushToFile,
                      treeVars, bestVars
  <2>7. CASE \E child \in Header : UnsetFirst(child) \/ UnsetNext(child)
    BY <2>1, <2>7 DEF UnsetFirst, UnsetNext, treeVars
  <2> QED
    BY <2>2, <2>3, <2>4, <2>5, <2>6, <2>7 DEF Next, SetBestChainStep
<1> QED
  BY <1>1, InvHolds, PTL DEF Spec, HeadOnlyGainsWork
=============================================================================
