--------------------- MODULE BlockTreeRefinementProofs ---------------------
(***************************************************************************)
(* BlockTree implements HeaderTree, for every tree of headers: the heights *)
(* and works that insertHeader adds up and the flags its loops set and     *)
(* clear are what the links of the headers alone say, and every call is    *)
(* one step of the abstract tree.                                          *)
(*                                                                         *)
(* Line is a recursive function, so that it has first to be shown to       *)
(* satisfy its equation.  Induction along the links is by a member of the  *)
(* set of counterexamples whose parent is not one (LinkAssumption).        *)
(***************************************************************************)
EXTENDS BlockTreeRefinement, BlockTreeProofs

USE HeaderAssumption, PrevAssumption, WorkAssumption

-----------------------------------------------------------------------------
(* The recursive definition.                                                *)

(* The equation of Line, on a set A of headers that contains the parents of *)
(* its members.                                                             *)
Step(g, h) == IF IsRoot(h) THEN Extend(NoLine, h) ELSE Extend(g[Prev[h]], h)

Solves(g, A) ==
    /\ A \subseteq Header
    /\ \A h \in A : ~ IsRoot(h) => Prev[h] \in A
    /\ \A h \in A : g[h] = Step(g, h)

(* Two partial solutions agree. *)
LEMMA SolutionsAgree ==
  ASSUME NEW f, NEW A, Solves(f, A), NEW g, NEW B, Solves(g, B)
  PROVE  \A h \in A \cap B : f[h] = g[h]
<1> DEFINE S == {h \in A \cap B : f[h] # g[h]}
<1> SUFFICES ASSUME S # {} PROVE FALSE
  OBVIOUS
<1>1. S \in SUBSET Header
  BY DEF Solves
<1>2. PICK h \in S : Prev[h] \notin S
  BY <1>1, LinkAssumption
<1>3. f[h] = Step(f, h) /\ g[h] = Step(g, h) /\ f[h] # g[h]
  BY <1>2 DEF Solves
<1>4. ~ IsRoot(h)
  BY <1>3 DEF Step
<1>5. Prev[h] \in A \cap B
  BY <1>2, <1>4 DEF Solves
<1>6. f[Prev[h]] = g[Prev[h]]
  BY <1>2, <1>5
<1> QED
  BY <1>3, <1>6 DEF Step

(* Every header is in a partial solution. *)
LEMMA SolutionsExist ==
  ASSUME NEW x \in Header
  PROVE  \E g, A : Solves(g, A) /\ x \in A
<1> DEFINE S == {h \in Header : ~ \E g, A : Solves(g, A) /\ h \in A}
<1> SUFFICES ASSUME S # {} PROVE FALSE
  OBVIOUS
<1>1. S \in SUBSET Header
  OBVIOUS
<1>2. PICK h \in S : Prev[h] \notin S
  BY <1>1, LinkAssumption
<1>3. h \in Header /\ \A g, A : Solves(g, A) => h \notin A
  BY <1>2
<1>4. CASE IsRoot(h)
  <2> DEFINE f == [y \in {h} |-> Extend(NoLine, h)]
  <2>1. f[h] = Step(f, h)
    BY <1>4 DEF Step
  <2>2. Solves(f, {h})
    BY <1>3, <1>4, <2>1 DEF Solves
  <2> QED
    BY <1>3, <2>2
<1>5. CASE ~ IsRoot(h)
  <2>1. Prev[h] \in Header
    BY <1>5 DEF IsRoot
  <2>2. PICK g, A : Solves(g, A) /\ Prev[h] \in A
    BY <1>2, <2>1
  <2>3. h \notin A
    BY <1>3, <2>2
  <2> DEFINE B == A \cup {h}
             f == [y \in B |-> IF y = h THEN Extend(g[Prev[h]], h) ELSE g[y]]
  <2>4. \A y \in A : f[y] = g[y]
    BY <2>3
  <2>5. f[h] = Extend(g[Prev[h]], h)
    OBVIOUS
  <2> HIDE DEF f
  <2>6. ASSUME NEW y \in B PROVE f[y] = Step(f, y) /\ (~ IsRoot(y) => Prev[y] \in B)
    <3>1. CASE y = h
      BY <1>5, <2>2, <2>4, <2>5, <3>1 DEF Step
    <3>2. CASE y \in A
      <4>1. g[y] = Step(g, y) /\ (~ IsRoot(y) => Prev[y] \in A)
        BY <2>2, <3>2 DEF Solves
      <4>2. f[y] = g[y] /\ (~ IsRoot(y) => f[Prev[y]] = g[Prev[y]])
        BY <2>4, <3>2, <4>1
      <4> QED
        BY <4>1, <4>2 DEF Step
    <3> QED
      BY <3>1, <3>2
  <2>7. Solves(f, B)
    BY <1>3, <2>2, <2>6 DEF Solves
  <2> QED
    BY <1>3, <2>7
<1> QED
  BY <1>4, <1>5

(* Line satisfies its equation. *)
LEMMA LineStep == \A h \in Header : Line[h] = Step(Line, h)
<1> DEFINE F == [h \in Header |-> CHOOSE w : \E g, A : Solves(g, A) /\ h \in A /\ w = g[h]]
<1>1. ASSUME NEW h \in Header, NEW g, NEW A, Solves(g, A), h \in A PROVE F[h] = g[h]
  <2>1. \E w : \E k, B : Solves(k, B) /\ h \in B /\ w = k[h]
    BY <1>1
  <2>2. PICK k, B : Solves(k, B) /\ h \in B /\ F[h] = k[h]
    BY <2>1
  <2> QED
    BY <1>1, <2>2, SolutionsAgree
<1> HIDE DEF F
<1>2. ASSUME NEW h \in Header PROVE F[h] = Step(F, h)
  <2>1. PICK g, A : Solves(g, A) /\ h \in A
    BY SolutionsExist
  <2>2. F[h] = g[h] /\ g[h] = Step(g, h)
    BY <1>1, <2>1 DEF Solves
  <2>3. ~ IsRoot(h) => F[Prev[h]] = g[Prev[h]]
    BY <1>1, <2>1 DEF Solves
  <2> QED
    BY <2>2, <2>3 DEF Step
<1>3. F = [h \in Header |-> Step(F, h)]
  BY <1>2 DEF F
<1>4. F = [h \in Header |-> IF IsRoot(h) THEN Extend(NoLine, h) ELSE Extend(F[Prev[h]], h)]
  BY <1>3 DEF Step
<1>5. Line = [h \in Header |->
                 IF IsRoot(h) THEN Extend(NoLine, h) ELSE Extend(Line[Prev[h]], h)]
  BY <1>4 DEF Line
<1> QED
  BY <1>5 DEF Step

(* Total work and ancestors of the genesis block ... *)
LEMMA GenesisLine == TotalWork(Genesis) = Work[Genesis] /\ Chain(Genesis) = {Genesis}
<1>1. Line[Genesis] = Extend(NoLine, Genesis)
  BY LineStep DEF Step, IsRoot
<1> QED
  BY <1>1 DEF TotalWork, Chain, Extend, NoLine

(* ... and of a header with a parent. *)
LEMMA ParentLine ==
  ASSUME NEW h \in Header \ {Genesis}, Prev[h] \in Header
  PROVE  TotalWork(h) = TotalWork(Prev[h]) + Work[h] /\ Chain(h) = Chain(Prev[h]) \cup {h}
<1>1. Line[h] = Extend(Line[Prev[h]], h)
  BY LineStep DEF Step, IsRoot
<1> QED
  BY <1>1 DEF TotalWork, Chain, Extend

-----------------------------------------------------------------------------
(* What the tree has added up.                                              *)

(* The work of the genesis block, which insertHeader adds to. *)
GenesisWork == mHeaderHashMap # {} => chainWork[Genesis] = Work[Genesis]

(* No step changes it. *)
LEMMA GenesisWorkKept == Inv /\ GenesisWork /\ [Next]_vars => GenesisWork'
<1> SUFFICES ASSUME Inv, GenesisWork, [Next]_vars PROVE GenesisWork'
  OBVIOUS
<1>0. TypeOK /\ TreeInv
  BY DEF Inv
<1>1. CASE Clear
  BY <1>1 DEF Clear, GenesisWork
<1>2. CASE SetGenesisBlock
  BY <1>0, <1>2 DEF SetGenesisBlock, GenesisWork, TypeOK
<1>3. ASSUME NEW h \in Header, NEW check \in BOOLEAN, NEW replace \in BOOLEAN,
             InsertHeader(h, check, replace)
      PROVE  GenesisWork'
  <2>1. /\ h \notin mHeaderHashMap /\ mHeaderHashMap # {}
        /\ chainWork' = [chainWork EXCEPT ![h] = chainWork[Prev[h]] + Work[h]]
    BY <1>3 DEF InsertHeader, Accepts
  <2>2. h # Genesis
    BY <1>0, <2>1 DEF TreeInv
  <2> QED
    BY <1>0, <2>1, <2>2 DEF GenesisWork, TypeOK
<1>4. CASE UNCHANGED <<mHeaderHashMap, chainWork>>
  BY <1>4 DEF GenesisWork
<1>5. SetBestChainStep \/ FlushToFile \/ UNCHANGED vars
          => UNCHANGED <<mHeaderHashMap, chainWork>>
  BY DEF SetBestChainStep, Retrace, ForkAtTip, UnsetFirst, UnsetNext, UnsetDone, SetNext,
         SetDone, FlushToFile, vars, treeVars
<1> QED
  BY <1>1, <1>2, <1>3, <1>4, <1>5 DEF Next

(* chainWork is the total work of the header's ancestry. *)
LEMMA WorkIsTotal ==
  ASSUME Inv, GenesisWork
  PROVE  \A h \in mHeaderHashMap : TotalWork(h) = chainWork[h]
<1> DEFINE S == {h \in mHeaderHashMap : TotalWork(h) # chainWork[h]}
<1> SUFFICES ASSUME S # {} PROVE FALSE
  OBVIOUS
<1>1. TypeOK /\ TreeInv /\ S \in SUBSET Header
  BY DEF Inv, TypeOK
<1>2. PICK h \in S : Prev[h] \notin S
  BY <1>1, LinkAssumption
<1>3. h \in mHeaderHashMap /\ h \in Header /\ TotalWork(h) # chainWork[h]
  BY <1>1, <1>2
<1>4. h # Genesis
  BY <1>3, GenesisLine DEF GenesisWork
<1>5. /\ Prev[h] \in mHeaderHashMap /\ Prev[h] \in Header
      /\ chainWork[h] = chainWork[Prev[h]] + Work[h]
  BY <1>1, <1>3, <1>4 DEF TreeInv, TypeOK
<1>6. TotalWork(Prev[h]) = chainWork[Prev[h]]
  BY <1>2, <1>5
<1>7. TotalWork(h) = TotalWork(Prev[h]) + Work[h]
  BY <1>3, <1>4, <1>5, ParentLine
<1> QED
  BY <1>3, <1>5, <1>6, <1>7

(* A flagged path that ends in t has all the ancestors of its members ...   *)
LEMMA AncestorsFlagged ==
  ASSUME TypeOK, TreeInv, NEW t, PathTo(t)
  PROVE  \A h \in inBestChain : Chain(h) \subseteq inBestChain
<1> DEFINE S == {h \in inBestChain : ~ (Chain(h) \subseteq inBestChain)}
<1> SUFFICES ASSUME S # {} PROVE FALSE
  OBVIOUS
<1>1. S \in SUBSET Header
  BY DEF TypeOK
<1>2. PICK h \in S : Prev[h] \notin S
  BY <1>1, LinkAssumption
<1>3. h \in inBestChain /\ h \in Header /\ h \in mHeaderHashMap
  BY <1>1, <1>2 DEF TreeInv
<1>4. h # Genesis
  BY <1>2, <1>3, GenesisLine
<1>5. Prev[h] \in inBestChain /\ Prev[h] \in Header
  BY <1>3, <1>4 DEF PathTo, TypeOK
<1>6. Chain(Prev[h]) \subseteq inBestChain
  BY <1>2, <1>5
<1>7. Chain(h) = Chain(Prev[h]) \cup {h}
  BY <1>3, <1>4, <1>5, ParentLine
<1> QED
  BY <1>2, <1>3, <1>6, <1>7

(* ... and nothing else. *)
LEMMA FlaggedAreAncestors ==
  ASSUME TypeOK, TreeInv, NEW t, PathTo(t)
  PROVE  \A h, g \in inBestChain : height[g] <= height[h] => g \in Chain(h)
<1> DEFINE S == {h \in inBestChain : \E g \in inBestChain : height[g] <= height[h]
                                                              /\ g \notin Chain(h)}
<1> SUFFICES ASSUME S # {} PROVE FALSE
  OBVIOUS
<1>0. \A h \in inBestChain : h \in Header /\ h \in mHeaderHashMap /\ height[h] \in Nat
  BY DEF TypeOK, TreeInv
<1>1. S \in SUBSET Header
  BY <1>0
<1>2. PICK h \in S : Prev[h] \notin S
  BY <1>1, LinkAssumption
<1>3. PICK g \in inBestChain : height[g] <= height[h] /\ g \notin Chain(h)
  BY <1>2
<1>4. h \in inBestChain /\ h \in Header /\ h \in mHeaderHashMap /\ height[h] \in Nat
  BY <1>0, <1>2
<1>5. h \in Chain(h)
  <2>1. CASE h = Genesis
    BY <2>1, GenesisLine
  <2>2. CASE h # Genesis
    <3>1. Prev[h] \in Header
      BY <1>4, <2>2 DEF TreeInv, TypeOK
    <3> QED
      BY <1>4, <2>2, <3>1, ParentLine
  <2> QED
    BY <2>1, <2>2
<1>6. height[g] # height[h] /\ height[g] \in Nat
  BY <1>0, <1>3, <1>4, <1>5 DEF PathTo
<1>7. h # Genesis
  BY <1>3, <1>4, <1>6 DEF TreeInv
<1>8. /\ Prev[h] \in inBestChain /\ Prev[h] \in Header /\ height[Prev[h]] \in Nat
      /\ height[h] = height[Prev[h]] + 1
  BY <1>0, <1>4, <1>7 DEF PathTo, TreeInv
<1>9. height[g] <= height[Prev[h]]
  BY <1>3, <1>4, <1>6, <1>8
<1>10. g \in Chain(Prev[h])
  BY <1>2, <1>8, <1>9
<1> QED
  BY <1>3, <1>4, <1>7, <1>8, <1>10, ParentLine

(* The flagged headers of a path to t are t's chain. *)
LEMMA PathIsChain ==
  ASSUME TypeOK, TreeInv, NEW t, PathTo(t)
  PROVE  inBestChain = Chain(t)
<1>1. t \in inBestChain /\ \A g \in inBestChain : height[g] <= height[t]
  BY DEF PathTo
<1> QED
  BY <1>1, AncestorsFlagged, FlaggedAreAncestors

-----------------------------------------------------------------------------
(* The refinement.                                                          *)

(* The abstract tree's notions of total work and chain are the same. *)
LEMMA SameLine == \A h : HT!TotalWork(h) = TotalWork(h) /\ HT!Chain(h) = Chain(h)
<1>1. HT!Line = Line
  BY DEF Line, HT!Line, IsRoot, HT!IsRoot, Extend, HT!Extend, NoLine, HT!NoLine
<1> QED
  BY <1>1 DEF TotalWork, Chain, HT!TotalWork, HT!Chain

(* A tree that is empty is the abstract one's initial state. *)
LEMMA RefinesInit == Init => HT!Init
BY DEF Init, HT!Init, known, best, Running

(* Between and during calls, the abstract best chain is that of pHead. *)
LEMMA BestIsChain ==
  ASSUME Inv, mHeaderHashMap # {}
  PROVE  best = Chain(pHead)
<1>1. CASE pc = "idle"
  <2>1. TypeOK /\ TreeInv /\ PathTo(pHead)
    BY <1>1 DEF Inv, IdleInv, TipInv
  <2> QED
    BY <1>1, <2>1, PathIsChain DEF best, Running
<1>2. CASE pc # "idle"
  BY <1>2 DEF best, Running
<1> QED
  BY <1>1, <1>2

(* insertHeader's first step: nothing yet if the header becomes the tip,    *)
(* and the whole insertion if it does not.                                  *)
LEMMA RefinesInsert ==
  ASSUME Inv, GenesisWork, NEW h \in Header, NEW check \in BOOLEAN,
         NEW replace \in BOOLEAN, InsertHeader(h, check, replace)
  PROVE  HT!Insert(h, replace) \/ UNCHANGED <<known, pHead, best>>
<1> DEFINE work == chainWork[Prev[h]] + Work[h]
<1>0. TypeOK /\ TreeInv
  BY DEF Inv
<1>1. /\ pc = "idle" /\ h \notin mHeaderHashMap /\ Prev[h] \in mHeaderHashMap
      /\ mHeaderHashMap' = mHeaderHashMap \cup {h}
      /\ UNCHANGED <<inBestChain, pHead>>
  BY DEF InsertHeader, Accepts, bestVars
<1>2. h # Genesis /\ Prev[h] \in Header /\ mHeaderHashMap # {}
  BY <1>0, <1>1 DEF TreeInv, TypeOK
<1>3. best = Chain(pHead) /\ best = inBestChain /\ known = mHeaderHashMap
  BY <1>1, <1>2, BestIsChain DEF best, known, Running
<1>4. CASE BecomesBest(work, replace)
  <2>1. pc' = "retrace" /\ header' = h
    BY <1>4 DEF InsertHeader
  <2>2. known' = mHeaderHashMap /\ best' = Chain(pHead)
    BY <1>1, <2>1 DEF known, best, Running
  <2> QED
    BY <1>1, <1>3, <2>2
<1>5. CASE ~ BecomesBest(work, replace)
  <2>1. pc' = "idle"
    BY <1>1, <1>5 DEF InsertHeader, loopVars
  <2>2. known' = known \cup {h} /\ best' = Chain(pHead) /\ pHead' = pHead
    BY <1>1, <1>3, <2>1 DEF known, best, Running
  <2>3. /\ pHead \in mHeaderHashMap /\ mTotalWork = chainWork[pHead]
    BY <1>1, <1>2 DEF Inv, IdleInv, TipInv, PathTo, TreeInv
  <2>4. /\ TotalWork(pHead) = mTotalWork /\ TotalWork(Prev[h]) = chainWork[Prev[h]]
        /\ TotalWork(h) = TotalWork(Prev[h]) + Work[h]
    BY <1>1, <1>2, <2>3, WorkIsTotal, ParentLine
  <2>5. TotalWork(h) = work /\ work \in Nat /\ mTotalWork \in Nat
    <3>1. chainWork \in [Header -> Nat] /\ mTotalWork \in Nat
      BY <1>0 DEF TypeOK
    <3> QED
      BY <1>2, <2>4, <3>1
  <2>6. ~ HT!Adopts(h, replace)
    BY <1>5, <2>4, <2>5, SameLine DEF BecomesBest, HT!Adopts
  <2> QED
    BY <1>1, <1>3, <2>2, <2>6, SameLine DEF HT!Insert
<1> QED
  BY <1>4, <1>5

(* The last step of setBestChain is the insertion of a header that becomes  *)
(* the tip.                                                                 *)
LEMMA RefinesSetDone ==
  ASSUME Inv, GenesisWork, SetDone
  PROVE  HT!Insert(header, TRUE) /\ header \in Header
<1>1. /\ pc = "set" /\ pc' = "idle" /\ pHead' = header /\ newBestChain = <<>>
      /\ UNCHANGED <<mHeaderHashMap, inBestChain>>
  BY DEF SetDone, treeVars
<1>2. /\ TypeOK /\ TreeInv /\ PathTo(header)
      /\ header \in mHeaderHashMap \ {Genesis} /\ pHead \in mHeaderHashMap \ {header}
      /\ chainWork[pHead] <= chainWork[header]
  BY <1>1 DEF Inv, SetInv, RunningInv, StackInv, Base
<1>3. /\ header \in Header /\ Prev[header] \in mHeaderHashMap /\ Prev[header] # header
      /\ pHead \in Header
  BY <1>2 DEF TreeInv, TypeOK
<1>4. known = mHeaderHashMap \ {header} /\ known' = mHeaderHashMap /\ best' = inBestChain
  BY <1>1 DEF known, best, Running
<1>5. inBestChain = Chain(header)
  BY <1>2, PathIsChain
<1>6. TotalWork(header) = chainWork[header] /\ TotalWork(pHead) = chainWork[pHead]
  BY <1>2, WorkIsTotal
<1>7. HT!Adopts(header, TRUE)
  <2>1. chainWork[header] \in Nat /\ chainWork[pHead] \in Nat
    BY <1>2, <1>3 DEF TypeOK
  <2> QED
    BY <1>2, <1>6, <2>1, SameLine DEF HT!Adopts
<1>8. known' = known \cup {header}
  BY <1>2, <1>4
<1> QED
  BY <1>1, <1>2, <1>3, <1>4, <1>5, <1>7, <1>8, SameLine DEF HT!Insert

(* Every step of the tree is a step of the abstract one or none. *)
LEMMA RefinesNext ==
  Inv /\ GenesisWork /\ [Next]_vars => [HT!Next]_<<known, pHead, best>>
<1> SUFFICES ASSUME Inv, GenesisWork, [Next]_vars
             PROVE  HT!Next \/ UNCHANGED <<known, pHead, best>>
  OBVIOUS
<1>1. CASE Clear
  <2>1. HT!Clear
    BY <1>1 DEF Clear, HT!Clear, known, best, Running, loopVars
  <2> QED
    BY <2>1 DEF HT!Next
<1>2. CASE SetGenesisBlock
  <2>1. HT!SetGenesis
    BY <1>2 DEF SetGenesisBlock, HT!SetGenesis, known, best, Running, loopVars
  <2> QED
    BY <2>1 DEF HT!Next
<1>3. ASSUME NEW h \in Header, NEW check \in BOOLEAN, NEW replace \in BOOLEAN,
             InsertHeader(h, check, replace)
      PROVE  HT!Next \/ UNCHANGED <<known, pHead, best>>
  BY <1>3, RefinesInsert DEF HT!Next
<1>4. CASE SetBestChainStep
  <2>1. CASE SetDone
    BY <2>1, RefinesSetDone DEF HT!Next
  <2>2. CASE ~ SetDone
    <3>1. /\ pc # "idle" /\ pc' # "idle" /\ UNCHANGED <<mHeaderHashMap, header, pHead>>
      BY <1>4, <2>2
         DEF SetBestChainStep, Retrace, ForkAtTip, UnsetFirst, UnsetNext, UnsetDone, SetNext,
             StartSetting, treeVars, bestVars
    <3> QED
      BY <3>1 DEF known, best, Running
  <2> QED
    BY <2>1, <2>2
<1>5. CASE FlushToFile \/ UNCHANGED vars
  <2>1. UNCHANGED <<mHeaderHashMap, inBestChain, pHead, pc, header>>
    BY <1>5 DEF FlushToFile, vars, treeVars, bestVars, loopVars
  <2> QED
    BY <2>1 DEF known, best, Running
<1> QED
  BY <1>1, <1>2, <1>3, <1>4, <1>5 DEF Next

(* The tree with its three loops implements the abstract tree: whatever the *)
(* order of insertions, after every call the tip is the one the total work  *)
(* of the headers decides, and the flagged headers are its ancestors.       *)
THEOREM BlockTreeImplementsHeaderTree == Spec => ImplementsHeaderTree
<1>1. Init => GenesisWork
  BY DEF Init, GenesisWork
<1> QED
  BY <1>1, InvHolds, GenesisWorkKept, RefinesInit, RefinesNext, PTL
     DEF Spec, ImplementsHeaderTree, HT!Spec
=============================================================================
