---------------------------- MODULE NetSyncProofs ----------------------------
(***************************************************************************)
(* Proofs about NetSync, for every tree of blocks and every choice of      *)
(* their transactions; the last part, what is synched, is for one chain.   *)
(***************************************************************************)
EXTENDS NetSync, WellFoundedInduction, TLAPS

-----------------------------------------------------------------------------
(* Induction and recursion over the natural numbers.                        *)

(* A set of natural numbers that has 0 and with every number of it below n  *)
(* the next one has all numbers up to n.                                    *)
LEMMA Induction ==
    ASSUME NEW n \in Nat, NEW P, 0 \in P, \A k \in 0 .. n : k \in P /\ k < n => k + 1 \in P
    PROVE  \A k \in 0 .. n : k \in P
<1> DEFINE T == {k \in 0 .. n : k \notin P}
           R == OpToRel(<, Nat)
<1> SUFFICES ASSUME T # {} PROVE FALSE
  OBVIOUS
<1>a. T \subseteq Nat
  OBVIOUS
<1>b. IsWellFoundedOn(R, Nat)
  BY NatLessThanWellFounded
<1>c. \A x, y \in Nat : x < y => <<x, y>> \in R
  BY DEF OpToRel
<1> HIDE DEF R
<1>1. PICK x \in T : \A y \in T : ~ (<<y, x>> \in R)
  <2> HIDE DEF T
  <2> QED
    BY <1>a, <1>b, WFMin
<1>2. \A y \in T : ~ (y < x)
  BY <1>1, <1>a, <1>c
<1>3. x # 0 /\ x - 1 \in 0 .. n /\ x - 1 < x
  OBVIOUS
<1>4. x - 1 \in P
  BY <1>2, <1>3
<1> QED
  BY <1>3, <1>4

(* f[k] takes S to S, for every k up to n; g takes these steps in turn.     *)
Steps(S, n, f) == \A k \in 1 .. n : \A x \in S : f[k][x] \in S

Iterates(S, s, n, f) ==
    \E g \in [0 .. n -> S] : g[0] = s /\ \A k \in 1 .. n : g[k] = f[k][g[k - 1]]

(* Steps can always be taken in turn. *)
LEMMA Iteration ==
    ASSUME NEW S, NEW s \in S, NEW n \in Nat, NEW f, Steps(S, n, f)
    PROVE  Iterates(S, s, n, f)
<1> DEFINE Good(g, m) == g[0] = s /\ \A k \in 1 .. m : g[k] = f[k][g[k - 1]]
           P == {m \in 0 .. n : \E g \in [0 .. m -> S] : Good(g, m)}
<1>1. 0 \in P
  <2> DEFINE g == [k \in 0 .. 0 |-> s]
  <2>1. g \in [0 .. 0 -> S] /\ g[0] = s
    OBVIOUS
  <2>2. Good(g, 0)
    BY <2>1
  <2> HIDE DEF g
  <2> QED
    BY <2>1, <2>2
<1>2. ASSUME NEW m \in 0 .. n, m \in P, m < n
      PROVE  m + 1 \in P
  <2>1. PICK g \in [0 .. m -> S] : Good(g, m)
    BY <1>2
  <2> DEFINE h == [k \in 0 .. m + 1 |-> IF k <= m THEN g[k] ELSE f[m + 1][g[m]]]
  <2>2. f[m + 1][g[m]] \in S
    BY <1>2, <2>1 DEF Steps
  <2>3. h \in [0 .. m + 1 -> S]
    BY <2>1, <2>2
  <2>4. Good(h, m + 1)
    <3>1. h[0] = s
      BY <2>1, <1>2
    <3>2. ASSUME NEW k \in 1 .. m + 1
          PROVE  h[k] = f[k][h[k - 1]]
      <4>1. k <= m => h[k] = g[k] /\ h[k - 1] = g[k - 1] /\ k \in 1 .. m
        BY <1>2
      <4>2. k > m => k = m + 1 /\ h[k] = f[m + 1][g[m]] /\ h[m] = g[m]
        BY <1>2
      <4>3. CASE k <= m
        BY <4>1, <4>3, <2>1
      <4>4. CASE k > m
        BY <4>2, <4>4, <1>2
      <4> QED
        BY <4>3, <4>4, <1>2
    <3> HIDE DEF h
    <3> QED
      BY <3>1, <3>2
  <2> HIDE DEF h
  <2>5. m + 1 \in 0 .. n
    BY <1>2
  <2> QED
    BY <2>5, <2>3, <2>4
<1> HIDE DEF P
<1>3. n \in P
  BY <1>1, <1>2, Induction
<1> QED
  BY <1>3 DEF P, Iterates

-----------------------------------------------------------------------------
(* The tree of blocks.                                                      *)

(* Heights count from the genesis block, and a block is one above its       *)
(* parent.                                                                  *)
LEMMA Heights ==
    ASSUME NEW b \in Blocks
    PROVE  /\ Path[b] \in Seq(Blocks) /\ Len(Path[b]) \in Nat /\ Len(Path[b]) = Height(b) + 1
           /\ Height(b) \in Nat
           /\ Path[b][Height(b) + 1] = b
           /\ Height(b) = 0 => b = Genesis
           /\ b # Genesis => /\ Parent(b) \in Blocks /\ Parent(b) \in Range(Path[b])
                             /\ Height(b) > 0 /\ Height(Parent(b)) = Height(b) - 1
<1>1. /\ Path[b] \in Seq(Blocks) /\ Path[b] # <<>>
      /\ Path[b][1] = Genesis /\ Path[b][Len(Path[b])] = b
      /\ \A i \in 1 .. Len(Path[b]) : Path[Path[b][i]] = SubSeq(Path[b], 1, i)
  BY NetSyncAssumption
<1> DEFINE n == Len(Path[b])
<1>2. n \in Nat /\ n >= 1 /\ DOMAIN Path[b] = 1 .. n
  BY <1>1
<1>3. Height(b) = n - 1
  BY DEF Height
<1>4. n = 1 => b = Genesis
  BY <1>1
<1>6. /\ Path[b][1] = Genesis /\ Path[b][n] = b /\ Len(Path[b]) = n
      /\ \A i \in 1 .. n : Path[b][i] \in Blocks /\ Len(Path[Path[b][i]]) = i
  BY <1>1
<1> HIDE DEF n
<1>5. ASSUME b # Genesis
      PROVE  /\ Parent(b) \in Blocks /\ Parent(b) \in Range(Path[b])
             /\ Height(b) > 0 /\ Height(Parent(b)) = Height(b) - 1
  <2>1. n >= 2
    BY <1>2, <1>4, <1>5
  <2>2. Parent(b) = Path[b][n - 1]
    BY <1>3, <1>5 DEF Parent
  <2>3. Parent(b) \in Blocks /\ Parent(b) \in Range(Path[b])
    BY <1>2, <1>6, <2>1, <2>2 DEF Range
  <2>4. Len(Path[Parent(b)]) = n - 1
    BY <1>2, <1>6, <2>1, <2>2
  <2> QED
    BY <1>2, <1>3, <2>1, <2>3, <2>4 DEF Height
<1> QED
  BY <1>1, <1>2, <1>3, <1>4, <1>5, <1>6

(* The path to a block on the path to b is the beginning of the latter.     *)
LEMMA PathPrefix ==
    ASSUME NEW b \in Blocks, NEW i \in 1 .. Len(Path[b])
    PROVE  /\ Path[b][i] \in Blocks /\ Height(Path[b][i]) = i - 1
           /\ Len(Path[Path[b][i]]) = i
           /\ \A j \in 1 .. i : Path[Path[b][i]][j] = Path[b][j]
<1>1. Path[b] \in Seq(Blocks) /\ Path[Path[b][i]] = SubSeq(Path[b], 1, i)
  BY NetSyncAssumption
<1>4. Path[b][i] \in Blocks /\ i \in Nat
  BY <1>1
<1>2. Len(Path[Path[b][i]]) = i
  BY <1>1
<1>3. \A j \in 1 .. i : Path[Path[b][i]][j] = Path[b][j]
  BY <1>1
<1>5. Height(Path[b][i]) = i - 1
  BY <1>2 DEF Height
<1> QED
  BY <1>2, <1>3, <1>4, <1>5

(* The genesis block is at height 0. *)
LEMMA GenesisHeight == Height(Genesis) = 0 /\ Genesis \in Blocks /\ Parent(Genesis) = NoBlock
<1>1. Genesis \in Blocks /\ Path[Genesis] \in Seq(Blocks) /\ Path[Genesis] # <<>>
      /\ Path[Genesis][1] = Genesis
  BY NetSyncAssumption
<1>2. 1 \in 1 .. Len(Path[Genesis])
  BY <1>1
<1>3. Len(Path[Path[Genesis][1]]) = 1
  BY <1>1, <1>2, PathPrefix
<1> QED
  BY <1>1, <1>3 DEF Height, Parent

(* A set of natural numbers up to n that is not empty has a largest one.    *)
LEMMA Largest ==
    ASSUME NEW n \in Nat, NEW S \in SUBSET (0 .. n), S # {}
    PROVE  \E x \in S : \A y \in S : x >= y
<1> DEFINE P == {k \in 0 .. n : (\E x \in S : x <= k) => \E x \in S : \A y \in S : y <= k => x >= y}
<1>1. 0 \in P
  OBVIOUS
<1>2. ASSUME NEW k \in 0 .. n, k \in P, k < n
      PROVE  k + 1 \in P
  <2>1. CASE k + 1 \in S
    BY <2>1, <1>2
  <2>2. CASE k + 1 \notin S
    <3>1. \A y \in S : y <= k + 1 => y <= k
      BY <2>2
    <3> QED
      BY <3>1, <1>2
  <2> QED
    BY <2>1, <2>2
<1> HIDE DEF P
<1>3. n \in P
  BY <1>1, <1>2, Induction
<1>4. \A y \in S : y <= n
  OBVIOUS
<1> QED
  BY <1>3, <1>4 DEF P

-----------------------------------------------------------------------------
(* The transactions of a block that match the filter.                       *)

(* q is found, in order, in s after its j-th and up to its k-th element. *)
Embeds(q, s, j, k) ==
    \E e \in [1 .. Len(q) -> (j + 1) .. k] :
        /\ \A h, i \in 1 .. Len(q) : h < i => e[h] < e[i]
        /\ \A i \in 1 .. Len(q) : s[e[i]] = q[i]

(* One more element that is in q. *)
LEMMA EmbedsAppend ==
    ASSUME NEW S, NEW q \in Seq(S), NEW s, NEW k \in Nat, Embeds(q, s, 0, k), s[k + 1] \in S
    PROVE  Embeds(Append(q, s[k + 1]), s, 0, k + 1)
<1> DEFINE n == Len(q)
           r == Append(q, s[k + 1])
<1>1. PICK e \in [1 .. n -> 1 .. k] :
        /\ \A h, i \in 1 .. n : h < i => e[h] < e[i]
        /\ \A i \in 1 .. n : s[e[i]] = q[i]
  BY DEF Embeds
<1>2. n \in Nat /\ Len(r) = n + 1 /\ r[n + 1] = s[k + 1] /\ \A i \in 1 .. n : r[i] = q[i]
  OBVIOUS
<1> DEFINE d == [i \in 1 .. n + 1 |-> IF i <= n THEN e[i] ELSE k + 1]
<1> HIDE DEF n, r
<1>3. d \in [1 .. Len(r) -> 0 + 1 .. k + 1]
  BY <1>1, <1>2
<1>4. \A h, i \in 1 .. Len(r) : h < i => d[h] < d[i]
  BY <1>1, <1>2
<1>5. \A i \in 1 .. Len(r) : s[d[i]] = r[i]
  BY <1>1, <1>2
<1> HIDE DEF d
<1>6. Embeds(r, s, 0, k + 1)
  BY <1>3, <1>4, <1>5, Zenon DEF Embeds
<1> QED
  BY <1>6 DEF r

(* One more element that is not. *)
LEMMA EmbedsSkip ==
    ASSUME NEW S, NEW q \in Seq(S), NEW s, NEW k \in Nat, Embeds(q, s, 0, k)
    PROVE  Embeds(q, s, 0, k + 1)
<1> DEFINE n == Len(q)
<1>1. PICK e \in [1 .. n -> 1 .. k] :
        /\ \A h, i \in 1 .. n : h < i => e[h] < e[i]
        /\ \A i \in 1 .. n : s[e[i]] = q[i]
  BY DEF Embeds
<1>2. n \in Nat
  OBVIOUS
<1> HIDE DEF n
<1>3. e \in [1 .. n -> 1 .. k + 1]
  BY <1>1, <1>2
<1> QED
  BY <1>1, <1>3 DEF Embeds, n

(* Matched keeps elements of S only, and those in the order of s. *)
LEMMA MatchedInOrder ==
    ASSUME NEW R, NEW s \in Seq(R), NEW S
    PROVE  Matched(s, S) \in Seq(S) /\ Embeds(Matched(s, S), s, 0, Len(s))
<1> DEFINE L == Len(s)
           Q == Seq(S)
           One(q, k) == IF s[k] \in S THEN Append(q, s[k]) ELSE q
           Step(g) == [n \in 0 .. L |-> IF n = 0 THEN <<>>
                          ELSE IF s[n] \in S THEN Append(g[n - 1], s[n]) ELSE g[n - 1]]
           m == CHOOSE g : g = Step(g)
           f == [k \in 1 .. L |-> [q \in Q |-> One(q, k)]]
<1>1. L \in Nat /\ <<>> \in Q
  OBVIOUS
<1>2. Matched(s, S) = m[L]
  BY DEF Matched
<1> HIDE DEF L
<1>3. \A q \in Q : \A k \in 1 .. L : One(q, k) \in Q
  OBVIOUS
<1> HIDE DEF One, Q
<1>4. Steps(Q, L, f)
  BY <1>3 DEF Steps
<1>5. \A q \in Q : \A k \in 1 .. L : f[k][q] = One(q, k)
  OBVIOUS
<1> HIDE DEF f
<1>6. PICK g \in [0 .. L -> Q] :
        g[0] = <<>> /\ \A k \in 1 .. L : g[k] = f[k][g[k - 1]]
  <2> DEFINE z == <<>>
  <2>1. z \in Q
    BY <1>1
  <2> HIDE DEF z
  <2>2. Iterates(Q, z, L, f)
    BY <1>1, <1>4, <2>1, Iteration
  <2> QED
    BY <2>2 DEF Iterates, z
<1>7. \A k \in 1 .. L : g[k] = One(g[k - 1], k)
  <2>1. ASSUME NEW k \in 1 .. L PROVE g[k - 1] \in Q
    BY <1>1
  <2> QED
    BY <2>1, <1>5, <1>6
<1>8. g = Step(g)
  <2>1. \A k \in 0 .. L : g[k] = IF k = 0 THEN <<>> ELSE One(g[k - 1], k)
    BY <1>1, <1>6, <1>7
  <2> QED
    BY <2>1 DEF One
<1>9. m = Step(m)
  <2> HIDE DEF Step
  <2> QED
    BY <1>8
<1> HIDE DEF m
<1>10. m[0] = <<>> /\ \A k \in 0 .. L : k < L => m[k + 1] = One(m[k], k + 1)
  <2>1. \A k \in 0 .. L : m[k] = IF k = 0 THEN <<>> ELSE One(m[k - 1], k)
    BY <1>9 DEF One
  <2>2. ASSUME NEW k \in 0 .. L, k < L PROVE k + 1 \in 0 .. L /\ k + 1 # 0 /\ (k + 1) - 1 = k
    BY <1>1, <2>2
  <2>3. 0 \in 0 .. L
    BY <1>1
  <2> HIDE DEF Step
  <2> QED
    BY <2>1, <2>2, <2>3
<1> HIDE DEF Step
<1> DEFINE P == {k \in 0 .. L : m[k] \in Q /\ Embeds(m[k], s, 0, k)}
<1>11. 0 \in P
  <2>1. Embeds(<<>>, s, 0, 0)
    <3> DEFINE e == [i \in 1 .. 0 |-> 0]
    <3>1. e \in [1 .. Len(<<>>) -> 0 + 1 .. 0]
      OBVIOUS
    <3>2. \A i \in 1 .. Len(<<>>) : FALSE
      OBVIOUS
    <3> QED
      BY <3>1, <3>2, Zenon DEF Embeds
  <2>2. m[0] \in Q /\ Embeds(m[0], s, 0, 0)
    BY <1>1, <1>10, <2>1, Zenon
  <2> QED
    BY <1>1, <2>2
<1>12. ASSUME NEW k \in 0 .. L, k \in P, k < L PROVE k + 1 \in P
  <2>1. k \in Nat /\ k + 1 \in 0 .. L
    BY <1>1, <1>12
  <2>2. m[k + 1] = One(m[k], k + 1)
    BY <1>10, <1>12
  <2>3. m[k] \in Q /\ Embeds(m[k], s, 0, k)
    BY <1>12
  <2>4. m[k + 1] \in Q
    BY <1>1, <1>3, <1>12, <2>2, <2>3
  <2>5. CASE s[k + 1] \in S
    <3>1. m[k + 1] = Append(m[k], s[k + 1])
      BY <2>2, <2>5 DEF One
    <3>2. Embeds(Append(m[k], s[k + 1]), s, 0, k + 1)
      BY <2>1, <2>3, <2>5, EmbedsAppend DEF Q
    <3>3. Embeds(m[k + 1], s, 0, k + 1)
      BY <3>1, <3>2, Zenon
    <3> QED
      BY <3>3, <2>1, <2>4
  <2>6. CASE s[k + 1] \notin S
    <3>1. m[k + 1] = m[k]
      BY <2>2, <2>6 DEF One
    <3>2. Embeds(m[k], s, 0, k + 1)
      BY <2>1, <2>3, EmbedsSkip DEF Q
    <3>3. Embeds(m[k + 1], s, 0, k + 1)
      BY <3>1, <3>2, Zenon
    <3> QED
      BY <3>3, <2>1, <2>4
  <2> QED
    BY <2>5, <2>6
<1> HIDE DEF P
<1>13. L \in P
  <2>1. L \in 0 .. L
    BY <1>1
  <2> QED
    BY <1>1, <1>11, <1>12, <2>1, Induction
<1> QED
  BY <1>2, <1>13 DEF P, Q, L

(* The matched transactions of a block are ours and in the block's order.   *)
LEMMA TxsOfBlock ==
    ASSUME NEW b \in Blocks
    PROVE  TxsOf(b) \in Seq(Ours) /\ Embeds(TxsOf(b), BlockTxs[b], 0, Len(BlockTxs[b]))
<1>1. BlockTxs[b] \in Seq(Range(BlockTxs[b]))
  BY NetSyncAssumption
<1> QED
  BY <1>1, MatchedInOrder DEF TxsOf

-----------------------------------------------------------------------------
(* The vault.                                                               *)

(* VaultIsChain, for any set of blocks. *)
IsPath(C) ==
    \A b, c \in C : /\ Height(b) = Height(c) => b = c
                    /\ Height(b) < Height(c) => Parent(c) \in C

SoundVaults(T) == {v \in Vaults(T) : v.complete \subseteq v.chain /\ IsPath(v.chain)}

(* What is kept below b, and b, are a path again. *)
LEMMA PathExtends ==
    ASSUME NEW C \in SUBSET Blocks, IsPath(C), NEW b \in Blocks,
           C = {} \/ Parent(b) \in C
    PROVE  IsPath({c \in C : Height(c) < Height(b)} \cup {b})
<1> DEFINE K == {c \in C : Height(c) < Height(b)}
<1>1. \A c \in C \cup {b} : Height(c) \in Nat
  BY Heights
<1>2. \A c \in K : c \in C /\ Height(c) < Height(b)
  OBVIOUS
<1>3. ASSUME NEW c \in K \cup {b}, NEW d \in K \cup {b}
      PROVE  /\ Height(c) = Height(d) => c = d
             /\ Height(c) < Height(d) => Parent(d) \in K \cup {b}
  <2>1. Height(c) = Height(d) => c = d
    BY <1>1, <1>2 DEF IsPath
  <2>2. ASSUME Height(c) < Height(d) PROVE Parent(d) \in K \cup {b}
    <3>1. d # Genesis /\ d \in Blocks
      BY <1>1, <1>2, <2>2, GenesisHeight
    <3>2. Height(Parent(d)) = Height(d) - 1
      BY <3>1, Heights
    <3>3. c \in C /\ Height(d) <= Height(b) /\ Height(d) \in Nat /\ Height(b) \in Nat
      BY <1>1, <1>2, <2>2
    <3>4. Parent(d) \in C
      <4>1. CASE d = b
        BY <4>1, <3>3
      <4>2. CASE d \in K
        BY <4>2, <1>2, <2>2, <3>3 DEF IsPath
      <4> QED
        BY <4>1, <4>2
    <3> QED
      BY <3>2, <3>3, <3>4
  <2> QED
    BY <2>1, <2>2
<1> QED
  BY <1>3 DEF IsPath

(* The three fields of a vault, and what makes it sound. *)
LEMMA VaultFields ==
    ASSUME NEW T, NEW v \in SoundVaults(T)
    PROVE  /\ v = [chain |-> v.chain, complete |-> v.complete, conf |-> v.conf]
           /\ v.chain \subseteq T /\ v.complete \subseteq v.chain /\ IsPath(v.chain)
           /\ DOMAIN v.conf \subseteq Ours
           /\ v.conf \in [DOMAIN v.conf -> T \cup {NoBlock}]
<1>1. v \in Vaults(T) /\ v.complete \subseteq v.chain /\ IsPath(v.chain)
  BY DEF SoundVaults
<1>2. v.conf \in UNION {[D -> T \cup {NoBlock}] : D \in SUBSET Ours} /\ v.chain \subseteq T
      /\ v = [chain |-> v.chain, complete |-> v.complete, conf |-> v.conf]
  BY <1>1 DEF Vaults
<1>3. PICK D \in SUBSET Ours : v.conf \in [D -> T \cup {NoBlock}]
  BY <1>2
<1>4. DOMAIN v.conf = D
  BY <1>3
<1> QED
  BY <1>1, <1>2, <1>3, <1>4

(* Conversely, such a record is a sound vault. *)
LEMMA SoundVault ==
    ASSUME NEW T, NEW C \in SUBSET T, NEW D \in SUBSET C, IsPath(C),
           NEW E \in SUBSET Ours, NEW f \in [E -> T \cup {NoBlock}]
    PROVE  [chain |-> C, complete |-> D, conf |-> f] \in SoundVaults(T)
<1>1. f \in UNION {[X -> T \cup {NoBlock}] : X \in SUBSET Ours}
  OBVIOUS
<1>2. [chain |-> C, complete |-> D, conf |-> f] \in Vaults(T)
  BY <1>1 DEF Vaults
<1> QED
  BY <1>2 DEF SoundVaults

(* A block that connects is stored: what is left of the chain and the block *)
(* are a path, and only transactions of blocks that went are unconfirmed.   *)
LEMMA AttachSound ==
    ASSUME NEW T \in SUBSET Blocks, NEW b \in T, NEW v \in SoundVaults(T),
           b \in v.chain \/ Connects(v, b), NEW w \in {Cut(v, b), PushOff(v, b)}
    PROVE  /\ Attach(v, b, w) \in SoundVaults(T)
           /\ b \in Attach(v, b, w).chain
           /\ DOMAIN Attach(v, b, w).conf = DOMAIN v.conf
           /\ \A t \in DOMAIN v.conf :
                \/ Attach(v, b, w).conf[t] = v.conf[t]
                \/ Attach(v, b, w).conf[t] = NoBlock /\ v.conf[t] \in v.chain
           /\ b \notin v.chain => Attach(v, b, w).complete \subseteq v.complete
<1> USE VaultFields
<1>1. CASE b \in v.chain
  BY <1>1 DEF Attach
<1>2. CASE b \notin v.chain
  <2> DEFINE K == Kept(v, b)
             C == K \cup {b}
             D == v.complete \cap K
             F == [t \in DOMAIN v.conf |->
                     IF v.conf[t] \in v.chain \ K THEN NoBlock ELSE v.conf[t]]
             p == [chain |-> C, complete |-> D, conf |-> v.conf]
             r == [chain |-> C, complete |-> D, conf |-> F]
  <2>a. v = [chain |-> v.chain, complete |-> v.complete, conf |-> v.conf]
    OBVIOUS
  <2>b. Cut(v, b) = [chain |-> K, complete |-> D, conf |-> v.conf]
    <3>1. v \in [chain : {v.chain}, complete : {v.complete}, conf : {v.conf}]
      BY <2>a
    <3>2. [v EXCEPT !.chain = K, !.complete = D]
            \in [chain : {K}, complete : {D}, conf : {v.conf}]
      BY ONLY <3>1
    <3>3. Cut(v, b) \in [chain : {K}, complete : {D}, conf : {v.conf}]
      BY ONLY <3>2, Zenon DEF Cut
    <3> HIDE DEF K, D
    <3> QED
      BY ONLY <3>3
  <2>c. PushOff(v, b) = [chain |-> K, complete |-> D, conf |-> F]
    BY ONLY <2>b DEF PushOff
  <2>1. Attach(v, b, Cut(v, b)) = p
    BY ONLY <1>2, <2>b DEF Attach
  <2>2. Attach(v, b, PushOff(v, b)) = r
    BY ONLY <1>2, <2>c DEF Attach
  <2>3. IsPath(C)
    BY <1>2, PathExtends DEF Connects, Kept
  <2>4. C \in SUBSET T /\ D \in SUBSET C /\ D \subseteq v.complete
    BY DEF Kept
  <2>5. F \in [DOMAIN v.conf -> T \cup {NoBlock}]
    OBVIOUS
  <2>6. \A t \in DOMAIN v.conf :
            F[t] = v.conf[t] \/ (F[t] = NoBlock /\ v.conf[t] \in v.chain)
    OBVIOUS
  <2>7. b \in C /\ DOMAIN F = DOMAIN v.conf
    OBVIOUS
  <2> HIDE DEF C, D, F
  <2>8. p \in SoundVaults(T) /\ r \in SoundVaults(T)
    BY <2>3, <2>4, <2>5, SoundVault
  <2>11. /\ p.chain = C /\ p.complete = D /\ p.conf = v.conf
         /\ r.chain = C /\ r.complete = D /\ r.conf = F
    OBVIOUS
  <2> HIDE DEF p, r
  <2>9. CASE w = Cut(v, b)
    <3>1. Attach(v, b, w) = p
      BY <2>1, <2>9
    <3> QED
      BY <3>1, <2>4, <2>7, <2>8, <2>11
  <2>10. CASE w = PushOff(v, b)
    <3>1. Attach(v, b, w) = r
      BY <2>2, <2>10
    <3> QED
      BY <3>1, <2>4, <2>6, <2>7, <2>8, <2>11
  <2> QED
    BY <2>9, <2>10
<1> QED
  BY <1>1, <1>2

(* w is v with t confirmed by b, if it is known. *)
Confirmed(T, v, b, known, t, w) ==
    /\ w \in SoundVaults(T) /\ w.chain = v.chain
    /\ DOMAIN w.conf = DOMAIN v.conf \cup known
    /\ \A x \in DOMAIN w.conf : w.conf[x] = IF x = t THEN b ELSE v.conf[x]

(* Confirming a transaction of a block in the chain, and completing the     *)
(* block with the last one.                                                 *)
LEMMA ConfirmSound ==
    ASSUME NEW T \in SUBSET Blocks, NEW b \in T, NEW v \in SoundVaults(T), b \in v.chain,
           NEW t \in Ours, NEW known, known \subseteq {t}, NEW i
    PROVE  Confirmed(T, v, b, known, t, Complete(Confirm(v, b, known, t), b, i))
<1> DEFINE w == Complete(Confirm(v, b, known, t), b, i)
<1> DEFINE E == DOMAIN v.conf \cup known
           f == [x \in E |-> IF x = t THEN b ELSE v.conf[x]]
           u == [chain |-> v.chain, complete |-> v.complete, conf |-> f]
           z == [chain |-> v.chain, complete |-> v.complete \cup {b}, conf |-> f]
<1>1. /\ v = [chain |-> v.chain, complete |-> v.complete, conf |-> v.conf]
      /\ v.chain \subseteq T /\ v.complete \subseteq v.chain /\ IsPath(v.chain)
      /\ DOMAIN v.conf \subseteq Ours
      /\ v.conf \in [DOMAIN v.conf -> T \cup {NoBlock}]
  BY VaultFields
<1>2. E \in SUBSET Ours /\ f \in [E -> T \cup {NoBlock}]
  BY <1>1
<1>3. Confirm(v, b, known, t) = u
  <2> HIDE DEF f
  <2>1. [v EXCEPT !.conf = f] = u
    BY ONLY <1>1
  <2> QED
    BY ONLY <2>1 DEF Confirm, f
<1>4. w = u \/ w = z
  <2>1. [u EXCEPT !.complete = u.complete \cup {b}] = z
    <3> HIDE DEF f
    <3> DEFINE X == v.complete \cup {b}
    <3>1. u.complete \cup {b} = X
      OBVIOUS
    <3> HIDE DEF X
    <3>2. [u EXCEPT !.complete = X] = [chain |-> v.chain, complete |-> X, conf |-> f]
      OBVIOUS
    <3> QED
      BY <3>1, <3>2 DEF X
  <2>2. w = Complete(u, b, i)
    BY ONLY <1>3, Zenon
  <2> HIDE DEF u, z
  <2> QED
    BY <2>1, <2>2 DEF Complete
<1>5. DOMAIN f = E /\ \A x \in E : f[x] = IF x = t THEN b ELSE v.conf[x]
  OBVIOUS
<1> HIDE DEF f
<1>6. u \in SoundVaults(T) /\ z \in SoundVaults(T)
  <2>1. v.complete \cup {b} \in SUBSET v.chain /\ v.complete \in SUBSET v.chain /\ v.chain \in SUBSET T
    BY <1>1
  <2> HIDE DEF E
  <2> QED
    BY <1>1, <1>2, <2>1, SoundVault
<1>7. u.chain = v.chain /\ u.conf = f /\ z.chain = v.chain /\ z.conf = f
  OBVIOUS
<1> HIDE DEF u, z, w
<1>8. Confirmed(T, v, b, known, t, w)
  BY <1>4, <1>5, <1>6, <1>7 DEF Confirmed
<1> QED
  BY <1>8 DEF w

(* The transaction t of the block b arrives in the vault v, which becomes   *)
(* w: it is refused with its block, which is not stored; or it is confirmed *)
(* by it, if it is known, and only blocks that go unconfirm others.         *)
Takes(v, b, t, w) ==
    \/ w = v /\ b \notin v.chain
    \/ /\ b \in w.chain
       /\ DOMAIN v.conf \subseteq DOMAIN w.conf
       /\ t \in DOMAIN w.conf => w.conf[t] = b
       /\ \A x \in DOMAIN v.conf \ {t} :
            \/ w.conf[x] = v.conf[x]
            \/ w.conf[x] = NoBlock /\ v.conf[x] \in v.chain

(* insertMerkleTx and confirmMerkleTx keep the chain a path. *)
LEMMA MerkleTxSound ==
    ASSUME NEW T \in SUBSET Blocks, NEW b \in T, NEW v \in SoundVaults(T),
           NEW t \in Ours, NEW i \in Nat,
           NEW w \in {InsertMerkleTx(v, b, t, i), ConfirmMerkleTx(v, b, t, i)}
    PROVE  w \in SoundVaults(T) /\ Takes(v, b, t, w)
<1>1. CASE Refuses(v, b, i)
  <2>1. w = v
    BY <1>1 DEF InsertMerkleTx, ConfirmMerkleTx
  <2> QED
    BY <1>1, <2>1 DEF Refuses, Takes
<1>2. CASE ~ Refuses(v, b, i)
  <2>1. b \in v.chain \/ Connects(v, b)
    BY <1>2 DEF Refuses
  <2>2. PICK c \in {Cut(v, b), PushOff(v, b)}, known \in {{}, {t}} :
            w = Complete(Confirm(Attach(v, b, c), b, known, t), b, i)
    BY <1>2 DEF InsertMerkleTx, ConfirmMerkleTx
  <2> DEFINE u == Attach(v, b, c)
  <2>3. /\ u \in SoundVaults(T) /\ b \in u.chain /\ DOMAIN u.conf = DOMAIN v.conf
        /\ \A x \in DOMAIN v.conf :
             u.conf[x] = v.conf[x] \/ (u.conf[x] = NoBlock /\ v.conf[x] \in v.chain)
    BY <2>1, AttachSound
  <2> HIDE DEF u
  <2>4. w = Complete(Confirm(u, b, known, t), b, i)
    BY <2>2 DEF u
  <2>5. Confirmed(T, u, b, known, t, w)
    BY <2>3, <2>4, ConfirmSound
  <2> QED
    BY <2>3, <2>5 DEF Takes, Confirmed
<1> QED
  BY <1>1, <1>2

(* insertMerkleBlock keeps the chain a path, and only blocks that go        *)
(* unconfirm transactions.                                                  *)
LEMMA MerkleBlockSound ==
    ASSUME NEW T \in SUBSET Blocks, NEW b \in T, NEW v \in SoundVaults(T),
           NEW w, w = InsertMerkleBlock(v, b)
    PROVE  /\ w \in SoundVaults(T)
           /\ w = v \/ b \in w.chain
           /\ DOMAIN w.conf = DOMAIN v.conf
           /\ \A x \in DOMAIN v.conf :
                w.conf[x] = v.conf[x] \/ (w.conf[x] = NoBlock /\ v.conf[x] \in v.chain)
<1>1. CASE b \in v.chain \/ ~ Connects(v, b) \/ b = Genesis
  BY <1>1 DEF InsertMerkleBlock
<1>2. CASE b \notin v.chain /\ Connects(v, b) /\ b # Genesis
  <2> DEFINE u == Attach(v, b, PushOff(v, b))
             z == [chain |-> u.chain, complete |-> u.complete \cup {b}, conf |-> u.conf]
  <2>1. PushOff(v, b) \in {Cut(v, b), PushOff(v, b)}
    OBVIOUS
  <2>2. /\ u \in SoundVaults(T) /\ b \in u.chain /\ DOMAIN u.conf = DOMAIN v.conf
        /\ \A x \in DOMAIN v.conf :
             u.conf[x] = v.conf[x] \/ (u.conf[x] = NoBlock /\ v.conf[x] \in v.chain)
    BY <1>2, <2>1, AttachSound
  <2>3. w = [u EXCEPT !.complete = @ \cup {b}]
    BY <1>2 DEF InsertMerkleBlock
  <2> HIDE DEF u
  <2>4. /\ u = [chain |-> u.chain, complete |-> u.complete, conf |-> u.conf]
        /\ u.chain \subseteq T /\ u.complete \subseteq u.chain /\ IsPath(u.chain)
        /\ DOMAIN u.conf \subseteq Ours
        /\ u.conf \in [DOMAIN u.conf -> T \cup {NoBlock}]
    BY <2>2, VaultFields
  <2>5. w = z
    BY ONLY <2>3, <2>4
  <2>6. z \in SoundVaults(T)
    <3>1. u.complete \cup {b} \in SUBSET u.chain /\ u.chain \in SUBSET T /\ DOMAIN u.conf \in SUBSET Ours
      BY <2>2, <2>4
    <3> QED
      BY <3>1, <2>4, SoundVault
  <2>7. z.chain = u.chain /\ z.conf = u.conf
    OBVIOUS
  <2> HIDE DEF z
  <2> QED
    BY <2>2, <2>5, <2>6, <2>7
<1> QED
  BY <1>1, <1>2

(* A transaction that is not in a block. *)
LEMMA NewTxSound ==
    ASSUME NEW T \in SUBSET Blocks, NEW v \in SoundVaults(T), NEW t \in Ours,
           NEW w, w = InsertNewTx(v, t)
    PROVE  /\ w \in SoundVaults(T) /\ DOMAIN v.conf \subseteq DOMAIN w.conf
           /\ \A x \in DOMAIN v.conf : w.conf[x] = v.conf[x]
<1>1. CASE t \in DOMAIN v.conf
  BY <1>1 DEF InsertNewTx
<1>2. CASE t \notin DOMAIN v.conf
  <2> DEFINE E == DOMAIN v.conf \cup {t}
             f == [x \in E |-> IF x = t THEN NoBlock ELSE v.conf[x]]
             u == [chain |-> v.chain, complete |-> v.complete, conf |-> f]
  <2>1. /\ v = [chain |-> v.chain, complete |-> v.complete, conf |-> v.conf]
        /\ v.chain \subseteq T /\ v.complete \subseteq v.chain /\ IsPath(v.chain)
        /\ DOMAIN v.conf \subseteq Ours
        /\ v.conf \in [DOMAIN v.conf -> T \cup {NoBlock}]
    BY VaultFields
  <2>2. E \in SUBSET Ours /\ f \in [E -> T \cup {NoBlock}]
    BY <2>1
  <2>3. DOMAIN f = E /\ \A x \in DOMAIN v.conf : f[x] = v.conf[x]
    BY <1>2
  <2>4. w = [v EXCEPT !.conf = f]
    BY <1>2 DEF InsertNewTx
  <2> HIDE DEF f
  <2>5. w = u
    BY ONLY <2>1, <2>4
  <2>6. u \in SoundVaults(T)
    <3>1. v.complete \in SUBSET v.chain /\ v.chain \in SUBSET T
      BY <2>1
    <3> HIDE DEF E
    <3> QED
      BY <3>1, <2>1, <2>2, SoundVault
  <2> QED
    BY <2>3, <2>5, <2>6
<1> QED
  BY <1>1, <1>2

-----------------------------------------------------------------------------
(* The queue of expected transactions.                                      *)

(* QueueIsRestOfBlock, for any queue. *)
RestOf(b, q, i) == q # <<>> => q = SubSeq(TxsOf(b), i + 1, Len(TxsOf(b)))

(* Storing the block b turned v into w: what was unconfirmed is in M. *)
Returned(b, v, w, M) ==
    \A t \in DOMAIN v.conf :
        /\ t \in DOMAIN w.conf
        /\ v.conf[t] # NoBlock /\ w.conf[t] = NoBlock => t \in M /\ b \in w.chain

Records(T) == [q : Seq(Ours), i : Nat, mem : SUBSET Ours, v : SoundVaults(T)]

(* The records that a handler can pass through which processes transactions *)
(* of b and found the vault v.                                              *)
States(T, b, v) ==
    {s \in Records(T) : /\ RestOf(b, s.q, s.i)
                        /\ Returned(b, v, s.v, s.mem)
                        /\ ~ vaultOpen => s.v = v}

(* Popping the front of a rest gives the next rest. *)
LEMMA TailOfRest ==
    ASSUME NEW S, NEW X \in Seq(S), NEW i \in Nat, NEW q,
           q = SubSeq(X, i + 1, Len(X)), q # <<>>
    PROVE  Tail(q) = SubSeq(X, (i + 1) + 1, Len(X))
<1> DEFINE n == Len(X)
           p == SubSeq(X, (i + 1) + 1, n)
<1>1. n \in Nat /\ q \in Seq(S)
  OBVIOUS
<1>2. i + 1 <= n
  OBVIOUS
<1>3. Len(q) = n - i
  BY <1>1, <1>2
<1>4. Len(Tail(q)) = n - i - 1 /\ Tail(q) \in Seq(S)
  BY <1>1, <1>2, <1>3
<1>5. p \in Seq(S) /\ Len(p) = n - i - 1
  BY <1>1, <1>2
<1>6. \A j \in 1 .. n - i - 1 : Tail(q)[j] = X[j + 1 + i] /\ p[j] = X[j + 1 + i]
  <2>1. \A j \in 1 .. n - i - 1 : Tail(q)[j] = q[j + 1] /\ j + 1 \in 1 .. n - i
    BY <1>1, <1>2, <1>3
  <2>2. \A j \in 1 .. n - i : q[j] = X[j + i]
    BY <1>1, <1>2
  <2>3. \A j \in 1 .. n - i - 1 : p[j] = X[j + 1 + i]
    BY <1>1, <1>2
  <2> QED
    BY <2>1, <2>2, <2>3, <1>1
<1> HIDE DEF p, n
<1>7. Tail(q) = p
  <2>1. \A j \in 1 .. n - i - 1 : Tail(q)[j] = p[j]
    BY <1>6
  <2> DEFINE u == Tail(q)
             k == n - i - 1
  <2>2. u \in Seq(S) /\ Len(u) = k /\ p \in Seq(S) /\ Len(p) = k
    BY <1>4, <1>5
  <2>3. \A j \in 1 .. k : u[j] = p[j]
    BY <2>1
  <2> HIDE DEF u, k
  <2>4. u \in [1 .. k -> S] /\ p \in [1 .. k -> S]
    BY <2>2
  <2>5. u = [j \in 1 .. k |-> u[j]] /\ p = [j \in 1 .. k |-> p[j]]
    BY <2>4
  <2>6. u = p
    BY <2>3, <2>5
  <2> QED
    BY <2>6 DEF u
<1> QED
  BY <1>7 DEF p, n

(* The front of the queue is handled, with the vault becoming w. *)
LEMMA PopGood ==
    ASSUME NEW T \in SUBSET Blocks, NEW b \in T, NEW v, NEW s \in States(T, b, v),
           s.q # <<>>, NEW t, t = Head(s.q), NEW w \in SoundVaults(T),
           IF vaultOpen THEN Takes(s.v, b, t, w) ELSE w = s.v
    PROVE  Pop(s, w, t) \in States(T, b, v)
<1> DEFINE M == (s.mem \cup PushedOff(s.v, w)) \ {t}
           r == [q |-> Tail(s.q), i |-> s.i + 1, mem |-> M, v |-> w]
<1>1. /\ s.q \in Seq(Ours) /\ s.i \in Nat /\ s.mem \in SUBSET Ours /\ s.v \in SoundVaults(T)
      /\ RestOf(b, s.q, s.i) /\ Returned(b, v, s.v, s.mem)
      /\ ~ vaultOpen => s.v = v
  BY DEF States, Records
<1>2. b \in Blocks /\ TxsOf(b) \in Seq(Ours)
  BY TxsOfBlock
<1>3. Tail(s.q) \in Seq(Ours) /\ t \in Ours
  BY <1>1
<1>4. RestOf(b, Tail(s.q), s.i + 1)
  <2>1. s.q = SubSeq(TxsOf(b), s.i + 1, Len(TxsOf(b)))
    BY <1>1 DEF RestOf
  <2>2. Tail(s.q) = SubSeq(TxsOf(b), (s.i + 1) + 1, Len(TxsOf(b)))
    BY <1>1, <1>2, <2>1, TailOfRest
  <2> QED
    BY <2>2 DEF RestOf
<1>5. /\ DOMAIN s.v.conf \subseteq Ours /\ w.chain \subseteq Blocks /\ NoBlock \notin Blocks
      /\ s.v.chain \subseteq Blocks
  BY <1>1, VaultFields, NetSyncAssumption
<1>6. M \in SUBSET Ours
  BY <1>1, <1>5 DEF PushedOff
<1>7. Returned(b, v, w, M)
  <2> SUFFICES ASSUME NEW x \in DOMAIN v.conf
               PROVE  /\ x \in DOMAIN w.conf
                      /\ v.conf[x] # NoBlock /\ w.conf[x] = NoBlock => x \in M /\ b \in w.chain
    BY DEF Returned
  <2>1. /\ x \in DOMAIN s.v.conf
        /\ v.conf[x] # NoBlock /\ s.v.conf[x] = NoBlock => x \in s.mem /\ b \in s.v.chain
    BY <1>1 DEF Returned
  <2>2. CASE ~ vaultOpen
    BY <2>2, <1>1, <2>1
  <2>3. CASE vaultOpen /\ w = s.v /\ b \notin s.v.chain
    BY <2>1, <2>3
  <2>4. CASE /\ b \in w.chain /\ DOMAIN s.v.conf \subseteq DOMAIN w.conf
             /\ t \in DOMAIN w.conf => w.conf[t] = b
             /\ \A y \in DOMAIN s.v.conf \ {t} :
                  \/ w.conf[y] = s.v.conf[y]
                  \/ w.conf[y] = NoBlock /\ s.v.conf[y] \in s.v.chain
    <3>1. x \in DOMAIN w.conf
      BY <2>1, <2>4
    <3>2. ASSUME v.conf[x] # NoBlock, w.conf[x] = NoBlock PROVE x \in M /\ b \in w.chain
      <4>1. x # t
        BY <1>2, <1>5, <2>4, <3>1, <3>2
      <4>2. CASE w.conf[x] = s.v.conf[x]
        BY <2>1, <2>4, <3>2, <4>1, <4>2
      <4>3. CASE w.conf[x] = NoBlock /\ s.v.conf[x] \in s.v.chain
        <5>1. x \in PushedOff(s.v, w)
          BY <1>5, <2>1, <4>3 DEF PushedOff
        <5> QED
          BY <5>1, <4>1, <2>4
      <4> QED
        BY <2>1, <2>4, <4>1, <4>2, <4>3
    <3> QED
      BY <3>1, <3>2
  <2> QED
    BY <2>2, <2>3, <2>4 DEF Takes
<1>8. ~ vaultOpen => w = v
  BY <1>1
<1>9. r \in Records(T) /\ r.q = Tail(s.q) /\ r.i = s.i + 1 /\ r.mem = M /\ r.v = w
  <2> HIDE DEF M
  <2> QED
    BY <1>1, <1>3, <1>6 DEF Records
<1>10. Pop(s, w, t) = r
  BY DEF Pop
<1> HIDE DEF M, r
<1>11. r \in States(T, b, v)
  BY <1>4, <1>7, <1>8, <1>9 DEF States
<1> QED
  BY <1>10, <1>11

(* processMempoolConfirmations handles the front of the queue or leaves it. *)
LEMMA ConfirmFrontGood ==
    ASSUME NEW T \in SUBSET Blocks, NEW b \in T, NEW v, NEW s \in States(T, b, v), NEW t
    PROVE  ConfirmFront(b, s, t) \in States(T, b, v)
<1>1. CASE s.q # <<>> /\ t = Head(s.q) /\ t \in s.mem
  <2> DEFINE w == IF vaultOpen THEN ConfirmMerkleTx(s.v, b, t, s.i) ELSE s.v
  <2>1. s.v \in SoundVaults(T) /\ s.i \in Nat /\ t \in Ours
    BY <1>1 DEF States, Records
  <2>2. w \in SoundVaults(T) /\ IF vaultOpen THEN Takes(s.v, b, t, w) ELSE w = s.v
    BY <2>1, MerkleTxSound
  <2>3. ConfirmFront(b, s, t) = Pop(s, w, t)
    BY <1>1 DEF ConfirmFront
  <2> HIDE DEF w
  <2> QED
    BY <1>1, <2>2, <2>3, PopGood
<1>2. CASE ~ (s.q # <<>> /\ t = Head(s.q) /\ t \in s.mem)
  BY <1>2 DEF ConfirmFront
<1> QED
  BY <1>1, <1>2

(* notifyMerkleTx for the front of the queue. *)
LEMMA InsertFrontGood ==
    ASSUME NEW T \in SUBSET Blocks, NEW b \in T, NEW v, NEW s \in States(T, b, v),
           s.q # <<>>, NEW t, t = Head(s.q)
    PROVE  InsertFront(b, s, t) \in States(T, b, v)
<1> DEFINE w == IF vaultOpen THEN InsertMerkleTx(s.v, b, t, s.i) ELSE s.v
<1>1. s.v \in SoundVaults(T) /\ s.i \in Nat /\ t \in Ours
  BY DEF States, Records
<1>2. w \in SoundVaults(T) /\ IF vaultOpen THEN Takes(s.v, b, t, w) ELSE w = s.v
  BY <1>1, MerkleTxSound
<1>3. InsertFront(b, s, t) = Pop(s, w, t)
  BY DEF InsertFront
<1> HIDE DEF w
<1> QED
  BY <1>2, <1>3, PopGood

(* The whole of processMempoolConfirmations: what each of its rounds keeps, *)
(* it keeps.                                                                *)
LEMMA MempoolLoop ==
    ASSUME NEW b, NEW Q, NEW s \in Q, Len(s.q) \in Nat,
           \A r \in Q : \A t : ConfirmFront(b, r, t) \in Q
    PROVE  MempoolConfirmations(b, s) \in Q
<1> DEFINE L == Len(s.q)
           One(r, k) == ConfirmFront(b, r, s.q[k])
           Step(g) == [n \in 0 .. L |-> IF n = 0 THEN s ELSE ConfirmFront(b, g[n - 1], s.q[n])]
           m == CHOOSE g : g = Step(g)
           f == [k \in 1 .. L |-> [r \in Q |-> One(r, k)]]
<1>1. L \in Nat /\ s \in Q
  OBVIOUS
<1>2. MempoolConfirmations(b, s) = m[L]
  BY DEF MempoolConfirmations
<1> HIDE DEF L
<1>3. \A r \in Q : \A k \in 1 .. L : One(r, k) \in Q
  OBVIOUS
<1> HIDE DEF One
<1>4. Steps(Q, L, f)
  BY <1>3 DEF Steps
<1>5. \A r \in Q : \A k \in 1 .. L : f[k][r] = One(r, k)
  OBVIOUS
<1> HIDE DEF f
<1>6. PICK g \in [0 .. L -> Q] : g[0] = s /\ \A k \in 1 .. L : g[k] = f[k][g[k - 1]]
  <2>1. Iterates(Q, s, L, f)
    BY <1>1, <1>4, Iteration
  <2> QED
    BY <2>1 DEF Iterates
<1>7. \A k \in 1 .. L : g[k] = One(g[k - 1], k)
  <2>1. ASSUME NEW k \in 1 .. L PROVE g[k - 1] \in Q
    BY <1>1
  <2> QED
    BY <2>1, <1>5, <1>6
<1>8. g = Step(g)
  <2>1. \A k \in 0 .. L : g[k] = IF k = 0 THEN s ELSE One(g[k - 1], k)
    BY <1>1, <1>6, <1>7
  <2> QED
    BY <2>1 DEF One
<1>9. m = Step(m)
  <2> HIDE DEF Step
  <2> QED
    BY <1>8
<1> HIDE DEF m
<1>10. m[0] = s /\ \A k \in 0 .. L : k < L => m[k + 1] = One(m[k], k + 1)
  <2>1. \A k \in 0 .. L : m[k] = IF k = 0 THEN s ELSE One(m[k - 1], k)
    BY <1>9 DEF One
  <2>2. ASSUME NEW k \in 0 .. L, k < L PROVE k + 1 \in 0 .. L /\ k + 1 # 0 /\ (k + 1) - 1 = k
    BY <1>1, <2>2
  <2>3. 0 \in 0 .. L
    BY <1>1
  <2> HIDE DEF Step
  <2> QED
    BY <2>1, <2>2, <2>3
<1> HIDE DEF Step
<1> DEFINE P == {k \in 0 .. L : m[k] \in Q}
<1>11. 0 \in P
  BY <1>1, <1>10
<1>12. ASSUME NEW k \in 0 .. L, k \in P, k < L PROVE k + 1 \in P
  <2>1. k + 1 \in 1 .. L /\ k + 1 \in 0 .. L
    BY <1>1, <1>12
  <2>2. m[k + 1] = One(m[k], k + 1)
    BY <1>10, <1>12
  <2> QED
    BY <1>3, <1>12, <2>1, <2>2
<1> HIDE DEF P
<1>13. L \in P
  <2>1. L \in 0 .. L
    BY <1>1
  <2> QED
    BY <1>1, <1>11, <1>12, <2>1, Induction
<1> QED
  BY <1>2, <1>13 DEF P

(* So it works through states of the block. *)
LEMMA MempoolGood ==
    ASSUME NEW T \in SUBSET Blocks, NEW b \in T, NEW v, NEW s \in States(T, b, v)
    PROVE  MempoolConfirmations(b, s) \in States(T, b, v)
<1>1. Len(s.q) \in Nat
  BY DEF States, Records
<1>2. \A r \in States(T, b, v) : \A t : ConfirmFront(b, r, t) \in States(T, b, v)
  BY ConfirmFrontGood
<1> QED
  BY <1>1, <1>2, MempoolLoop

(* One transaction of a whole block. *)
LEMMA ScanTxGood ==
    ASSUME NEW T \in SUBSET Blocks, NEW b \in T, NEW v, NEW s \in States(T, b, v), NEW t
    PROVE  ScanTx(b, s, t) \in States(T, b, v)
BY InsertFrontGood DEF ScanTx

(* What the queue expects is found in s after its k-th element, and where   *)
(* the front is not the next element, further on.                           *)
LEMMA EmbedsScan ==
    ASSUME NEW S, NEW q \in Seq(S), NEW s, NEW k \in Nat, NEW n \in Nat, k < n,
           Embeds(q, s, k, n)
    PROVE  /\ q # <<>> /\ s[k + 1] = Head(q) => Embeds(Tail(q), s, k + 1, n)
           /\ q = <<>> \/ s[k + 1] # Head(q) => Embeds(q, s, k + 1, n)
<1> DEFINE l == Len(q)
<1>1. PICK e \in [1 .. l -> (k + 1) .. n] :
        /\ \A h, i \in 1 .. l : h < i => e[h] < e[i]
        /\ \A i \in 1 .. l : s[e[i]] = q[i]
  BY DEF Embeds
<1>2. l \in Nat
  OBVIOUS
<1>3. ASSUME q # <<>>, s[k + 1] = Head(q) PROVE Embeds(Tail(q), s, k + 1, n)
  <2> DEFINE p == Tail(q)
             d == [i \in 1 .. l - 1 |-> e[i + 1]]
  <2>1. Len(p) = l - 1 /\ l >= 1 /\ \A i \in 1 .. l - 1 : p[i] = q[i + 1]
    BY <1>3
  <2> HIDE DEF l, p
  <2>2. \A i \in 1 .. l - 1 : /\ i + 1 \in 1 .. l /\ 1 \in 1 .. l /\ d[i] = e[i + 1]
                              /\ e[i + 1] > e[1] /\ e[1] >= k + 1 /\ e[1] \in Nat
                              /\ e[i + 1] \in (k + 1) .. n
    BY <1>1, <1>2, <2>1
  <2>3. d \in [1 .. Len(p) -> ((k + 1) + 1) .. n]
    BY <2>1, <2>2
  <2>4. \A h, i \in 1 .. Len(p) : h < i => d[h] < d[i]
    BY <1>1, <1>2, <2>1, <2>2
  <2>5. \A i \in 1 .. Len(p) : s[d[i]] = p[i]
    BY <1>1, <2>1, <2>2
  <2> HIDE DEF d
  <2>6. Embeds(p, s, k + 1, n)
    BY <2>3, <2>4, <2>5, Zenon DEF Embeds
  <2> QED
    BY <2>6 DEF p
<1>4. ASSUME q = <<>> \/ s[k + 1] # Head(q) PROVE Embeds(q, s, k + 1, n)
  <2>1. l >= 1 => q[1] = Head(q) /\ q # <<>>
    OBVIOUS
  <2> HIDE DEF l
  <2>2. l >= 1 => 1 \in 1 .. l /\ e[1] # k + 1 /\ e[1] \in (k + 1) .. n
    BY <1>1, <1>2, <1>4, <2>1
  <2>3. \A i \in 1 .. l : /\ e[i] \in (k + 1) .. n /\ 1 \in 1 .. l /\ i \in Nat /\ l >= 1
                          /\ 1 < i => e[1] < e[i]
    BY <1>1, <1>2
  <2>4. \A i \in 1 .. l : e[i] \in ((k + 1) + 1) .. n
    BY <2>2, <2>3
  <2>5. e \in [1 .. l -> ((k + 1) + 1) .. n]
    BY <2>4
  <2> QED
    BY <1>1, <2>5, Zenon DEF Embeds, l
<1> QED
  BY <1>3, <1>4

(* Nothing is found anywhere. *)
LEMMA EmbedsNothing ==
    ASSUME NEW s, NEW j \in Nat, NEW k \in Nat
    PROVE  Embeds(<<>>, s, j, k)
<1> DEFINE e == [i \in 1 .. 0 |-> 0]
<1>1. e \in [1 .. Len(<<>>) -> (j + 1) .. k]
  OBVIOUS
<1>2. \A i \in 1 .. Len(<<>>) : FALSE
  OBVIOUS
<1> QED
  BY <1>1, <1>2, Zenon DEF Embeds

(* The rest of what is found is found too. *)
LEMMA EmbedsRest ==
    ASSUME NEW S, NEW X \in Seq(S), NEW s, NEW n \in Nat, Embeds(X, s, 0, n),
           NEW i \in Nat, NEW q, q = SubSeq(X, i + 1, Len(X)), q # <<>>
    PROVE  Embeds(q, s, 0, n)
<1> DEFINE l == Len(X)
<1>1. PICK e \in [1 .. l -> (0 + 1) .. n] :
        /\ \A h, j \in 1 .. l : h < j => e[h] < e[j]
        /\ \A j \in 1 .. l : s[e[j]] = X[j]
  BY DEF Embeds
<1>2. l \in Nat /\ i + 1 <= l /\ Len(q) = l - i /\ \A j \in 1 .. l - i : q[j] = X[j + i]
  OBVIOUS
<1> HIDE DEF l
<1> DEFINE d == [j \in 1 .. l - i |-> e[j + i]]
<1>3. \A j \in 1 .. l - i : j + i \in 1 .. l /\ d[j] = e[j + i]
  BY <1>2
<1>4. d \in [1 .. Len(q) -> (0 + 1) .. n]
  BY <1>1, <1>2, <1>3
<1>5. \A h, j \in 1 .. Len(q) : h < j => d[h] < d[j]
  BY <1>1, <1>2, <1>3
<1>6. \A j \in 1 .. Len(q) : s[d[j]] = q[j]
  BY <1>1, <1>2, <1>3
<1> HIDE DEF d
<1> QED
  BY <1>4, <1>5, <1>6, Zenon DEF Embeds

(* Only nothing is found after the end. *)
LEMMA EmbedsEnd ==
    ASSUME NEW S, NEW q \in Seq(S), NEW s, NEW n \in Nat, Embeds(q, s, n, n)
    PROVE  q = <<>>
<1> SUFFICES ASSUME q # <<>> PROVE FALSE
  OBVIOUS
<1>1. PICK e \in [1 .. Len(q) -> (n + 1) .. n] : TRUE
  BY DEF Embeds
<1>2. 1 \in 1 .. Len(q)
  OBVIOUS
<1>3. e[1] \in (n + 1) .. n
  BY <1>1, <1>2
<1> QED
  BY <1>3

(* The block handler's scan, and why a whole block always empties the       *)
(* queue: what is expected is found in the block in order, so the first     *)
(* match of the front never skips a transaction that is needed later.       *)
(* What each transaction keeps, the scan keeps.                             *)
LEMMA ScanLoop ==
    ASSUME NEW T \in SUBSET Blocks, NEW b \in T, NEW v, NEW Q \in SUBSET States(T, b, v),
           Queue \in Q, \A r \in Q : \A t : ScanTx(b, r, t) \in Q
    PROVE  ScanBlock(b) \in Q /\ ScanBlock(b).q = <<>>
<1> DEFINE X == BlockTxs[b]
           L == Len(X)
           s == Queue
           One(r, k) == ScanTx(b, r, X[k])
           Step(g) == [n \in 0 .. L |-> IF n = 0 THEN s ELSE ScanTx(b, g[n - 1], X[n])]
           m == CHOOSE g : g = Step(g)
           f == [k \in 1 .. L |-> [r \in Q |-> One(r, k)]]
<1>1. L \in Nat /\ s \in Q /\ b \in Blocks
  BY NetSyncAssumption
<1>2. ScanBlock(b) = m[L]
  BY DEF ScanBlock
<1>14. Embeds(s.q, X, 0, L)
  <2>1. s.q \in Seq(Ours) /\ s.i \in Nat /\ RestOf(b, s.q, s.i)
    BY <1>1 DEF States, Records
  <2>2. TxsOf(b) \in Seq(Ours) /\ Embeds(TxsOf(b), X, 0, L)
    BY <1>1, TxsOfBlock
  <2>3. CASE s.q = <<>>
    <3>1. Embeds(<<>>, X, 0, L)
      BY <1>1, EmbedsNothing
    <3> QED
      BY <2>3, <3>1, Zenon
  <2>4. CASE s.q # <<>>
    <3>1. s.q = SubSeq(TxsOf(b), s.i + 1, Len(TxsOf(b)))
      BY <2>1, <2>4 DEF RestOf
    <3> HIDE DEF s, X, L
    <3> QED
      BY <1>1, <2>1, <2>2, <2>4, <3>1, EmbedsRest
  <2> QED
    BY <2>3, <2>4
<1> HIDE DEF L, s, X
<1>3. \A r \in Q : \A k \in 1 .. L : One(r, k) \in Q
  OBVIOUS
<1>15. ASSUME NEW r \in Q, NEW k \in Nat, k < L, Embeds(r.q, X, k, L)
       PROVE  Embeds(One(r, k + 1).q, X, k + 1, L)
  <2>1. r.q \in Seq(Ours)
    BY DEF States, Records
  <2>2. CASE r.q # <<>> /\ X[k + 1] = Head(r.q)
    <3>1. Embeds(Tail(r.q), X, k + 1, L)
      BY <1>1, <1>15, <2>1, <2>2, EmbedsScan
    <3>2. One(r, k + 1).q = Tail(r.q)
      BY <2>2 DEF ScanTx, InsertFront, Pop
    <3> QED
      BY <3>1, <3>2, Zenon
  <2>3. CASE r.q = <<>> \/ X[k + 1] # Head(r.q)
    <3>1. Embeds(r.q, X, k + 1, L)
      BY <1>1, <1>15, <2>1, <2>3, EmbedsScan
    <3>2. One(r, k + 1) = r
      BY <2>3 DEF ScanTx
    <3> QED
      BY <3>1, <3>2, Zenon
  <2> QED
    BY <2>2, <2>3
<1>16. \A r \in Q : r.q \in Seq(Ours)
  BY DEF States, Records
<1> HIDE DEF One
<1>4. Steps(Q, L, f)
  BY <1>3 DEF Steps
<1>5. \A r \in Q : \A k \in 1 .. L : f[k][r] = One(r, k)
  OBVIOUS
<1> HIDE DEF f
<1>6. PICK g \in [0 .. L -> Q] : g[0] = s /\ \A k \in 1 .. L : g[k] = f[k][g[k - 1]]
  <2>1. Iterates(Q, s, L, f)
    BY <1>1, <1>4, Iteration
  <2> QED
    BY <2>1 DEF Iterates
<1>7. \A k \in 1 .. L : g[k] = One(g[k - 1], k)
  <2>1. ASSUME NEW k \in 1 .. L PROVE g[k - 1] \in Q
    BY <1>1
  <2> QED
    BY <2>1, <1>5, <1>6
<1>8. g = Step(g)
  <2>1. \A k \in 0 .. L : g[k] = IF k = 0 THEN s ELSE One(g[k - 1], k)
    BY <1>1, <1>6, <1>7
  <2> QED
    BY <2>1 DEF One
<1>9. m = Step(m)
  <2> HIDE DEF Step
  <2> QED
    BY <1>8
<1> HIDE DEF m
<1>10. m[0] = s /\ \A k \in 0 .. L : k < L => m[k + 1] = One(m[k], k + 1)
  <2>1. \A k \in 0 .. L : m[k] = IF k = 0 THEN s ELSE One(m[k - 1], k)
    BY <1>9 DEF One
  <2>2. ASSUME NEW k \in 0 .. L, k < L PROVE k + 1 \in 0 .. L /\ k + 1 # 0 /\ (k + 1) - 1 = k
    BY <1>1, <2>2
  <2>3. 0 \in 0 .. L
    BY <1>1
  <2> HIDE DEF Step
  <2> QED
    BY <2>1, <2>2, <2>3
<1> HIDE DEF Step
<1> DEFINE P == {k \in 0 .. L : m[k] \in Q /\ Embeds(m[k].q, X, k, L)}
<1>11. 0 \in P
  <2>1. m[0] \in Q /\ Embeds(m[0].q, X, 0, L)
    BY <1>1, <1>10, <1>14, Zenon
  <2> QED
    BY <1>1, <2>1
<1>12. ASSUME NEW k \in 0 .. L, k \in P, k < L PROVE k + 1 \in P
  <2>1. k + 1 \in 1 .. L /\ k + 1 \in 0 .. L /\ k \in Nat
    BY <1>1, <1>12
  <2>2. m[k + 1] = One(m[k], k + 1)
    BY <1>10, <1>12
  <2>3. m[k] \in Q /\ Embeds(m[k].q, X, k, L)
    BY <1>12
  <2>4. m[k + 1] \in Q
    BY <1>3, <2>1, <2>2, <2>3
  <2>5. Embeds(One(m[k], k + 1).q, X, k + 1, L)
    BY <1>12, <1>15, <2>1, <2>3
  <2>6. Embeds(m[k + 1].q, X, k + 1, L)
    BY <2>2, <2>5, Zenon
  <2> QED
    BY <2>1, <2>4, <2>6
<1> HIDE DEF P
<1>13. L \in P
  <2>1. L \in 0 .. L
    BY <1>1
  <2> QED
    BY <1>1, <1>11, <1>12, <2>1, Induction
<1>17. m[L] \in Q /\ Embeds(m[L].q, X, L, L)
  BY <1>13 DEF P
<1>18. m[L].q = <<>>
  BY <1>1, <1>16, <1>17, EmbedsEnd
<1> QED
  BY <1>2, <1>17, <1>18

(* So it works through states of the block. *)
LEMMA ScanGood ==
    ASSUME NEW T \in SUBSET Blocks, NEW b \in T, NEW v, Queue \in States(T, b, v)
    PROVE  ScanBlock(b) \in States(T, b, v) /\ ScanBlock(b).q = <<>>
<1>1. \A r \in States(T, b, v) : \A t : ScanTx(b, r, t) \in States(T, b, v)
  BY ScanTxGood
<1> QED
  BY <1>1, ScanLoop

-----------------------------------------------------------------------------
(* The invariant.                                                           *)

(* With every block the tree has the path to it. *)
Closed(T) == Genesis \in T /\ \A b \in T : Range(Path[b]) \subseteq T

(* Requests ask for headers from a block of ours, or for what the peer has. *)
Requests(T) ==
         ({"getheaders", "getheadersafter"} \X T)
    \cup ({"getmerkle", "getblock"} \X Blocks)
    \cup ({"gettx"} \X Ours)

(* The end of a path, above a block of T: such headers connect. *)
Segments(T) ==
    {s \in Seq(Blocks) : \E p \in Blocks : \E n \in 1 .. Len(Path[p]) :
        Path[p][n] \in T /\ s = SubSeq(Path[p], n + 1, Len(Path[p]))}

Messages(T) ==
         ({"headers"} \X Segments(T))
    \cup ({"merkle", "block", "invblock"} \X Blocks)
    \cup ({"tx", "invtx"} \X Ours)

(* Requests and messages stay valid while the tree grows, so that what was  *)
(* asked from an older tip still connects when it arrives.                  *)
WireOK == toPeer \in Seq(Requests(tree)) /\ toUs \in Seq(Messages(tree))

(* The rest of the state, in the parts the handlers deal with.              *)
FlagsOK ==
    /\ {m_bConnected, m_bHeadersSynched, m_bMissingTxs, m_bInsertMerkleBlocks, vaultOpen}
            \subseteq BOOLEAN
    /\ connects \in 0 .. MaxConnects /\ vaultOps \in 0 .. MaxVaultOps

TreeOK == tree \subseteq Blocks /\ tip \in tree /\ Closed(tree)

PeerOK == peerTip \in Blocks /\ sent \subseteq Ours

HashesOK ==
    /\ m_lastRequestedBlockHash \in tree \cup {NoBlock}
    /\ m_lastRequestedMerkleBlockHash \in tree \cup {NoBlock}
    /\ m_lastSynchedMerkleBlockHash \in tree \cup {NoBlock}

(* The queue belongs to the current merkle block. *)
QueueOK ==
    /\ m_mempoolTxs \subseteq Ours
    /\ m_currentMerkleBlock \in tree \cup {NoBlock}
    /\ m_currentMerkleTxHashes \in Seq(Ours)
    /\ m_currentMerkleTxIndex \in Nat
    /\ m_currentMerkleTxHashes # <<>> => m_currentMerkleBlock # NoBlock
    /\ RestOf(m_currentMerkleBlock, m_currentMerkleTxHashes, m_currentMerkleTxIndex)

VaultOK == vault \in SoundVaults(tree)

Inv == FlagsOK /\ TreeOK /\ PeerOK /\ HashesOK /\ QueueOK /\ VaultOK /\ WireOK

(* What PushedOffGoesToMempool says of one step. *)
Returns ==
    \A t \in DOMAIN vault.conf \cap DOMAIN vault'.conf :
        vault.conf[t] # NoBlock /\ vault'.conf[t] = NoBlock => t \in m_mempoolTxs'

(* The invariant has the properties that are checked. *)
LEMMA InvSuffices == Inv => TypeOK /\ QueueIsRestOfBlock /\ VaultIsChain
<1> SUFFICES ASSUME Inv PROVE TypeOK /\ QueueIsRestOfBlock /\ VaultIsChain
  OBVIOUS
<1>1. FlagsOK /\ TreeOK /\ PeerOK /\ HashesOK /\ QueueOK /\ vault \in SoundVaults(tree)
  BY DEF Inv, VaultOK
<1>2. vault \in Vaults(tree) /\ vault.complete \subseteq vault.chain /\ IsPath(vault.chain)
  BY <1>1 DEF SoundVaults
<1>3. TypeOK
  BY <1>1, <1>2 DEF TypeOK, FlagsOK, TreeOK, PeerOK, HashesOK, QueueOK
<1>4. QueueIsRestOfBlock
  BY <1>1 DEF QueueIsRestOfBlock, QueueOK, RestOf
<1>5. VaultIsChain
  BY <1>2 DEF VaultIsChain, IsPath
<1> QED
  BY <1>3, <1>4, <1>5

-----------------------------------------------------------------------------
(* Helpers of the actions.                                                  *)

(* Sequences over a larger set. *)
LEMMA SeqGrows ==
    ASSUME NEW S, NEW T, S \subseteq T, NEW s \in Seq(S)
    PROVE  s \in Seq(T)
OBVIOUS

(* What is valid for a tree is valid for a larger one. *)
LEMMA WireGrows ==
    ASSUME NEW T, NEW U, T \subseteq U
    PROVE  Requests(T) \subseteq Requests(U) /\ Messages(T) \subseteq Messages(U)
<1>1. Requests(T) \subseteq Requests(U)
  BY DEF Requests
<1>2. Segments(T) \subseteq Segments(U)
  BY DEF Segments
<1>3. Messages(T) \subseteq Messages(U)
  BY <1>2 DEF Messages
<1> QED
  BY <1>1, <1>3

(* Headers that connect keep the tree closed. *)
LEMMA SegmentCloses ==
    ASSUME NEW T \in SUBSET Blocks, Closed(T), NEW s \in Segments(T)
    PROVE  Closed(T \cup Range(s)) /\ Range(s) \subseteq Blocks /\ s \in Seq(Blocks)
<1>1. PICK p \in Blocks : \E n \in 1 .. Len(Path[p]) :
        Path[p][n] \in T /\ s = SubSeq(Path[p], n + 1, Len(Path[p]))
  BY DEF Segments
<1>2. PICK n \in 1 .. Len(Path[p]) :
        Path[p][n] \in T /\ s = SubSeq(Path[p], n + 1, Len(Path[p]))
  BY <1>1
<1> DEFINE l == Len(Path[p])
<1>3. l \in Nat /\ Path[p] \in Seq(Blocks) /\ s \in Seq(Blocks)
  BY Heights DEF Segments
<1>4. Range(s) = {Path[p][i] : i \in (n + 1) .. l}
  <2>1. Len(s) = l - n /\ DOMAIN s = 1 .. l - n /\ \A j \in 1 .. l - n : s[j] = Path[p][j + n]
    BY <1>2, <1>3
  <2> HIDE DEF l
  <2>2. ASSUME NEW x \in Range(s) PROVE x \in {Path[p][i] : i \in (n + 1) .. l}
    <3>1. PICK j \in 1 .. l - n : x = s[j]
      BY <2>1, <2>2 DEF Range
    <3>2. x = Path[p][j + n] /\ j + n \in (n + 1) .. l
      BY <1>3, <2>1, <3>1
    <3> QED
      BY <3>2
  <2>3. ASSUME NEW i \in (n + 1) .. l PROVE Path[p][i] \in Range(s)
    <3>1. i - n \in 1 .. l - n /\ (i - n) + n = i
      BY <1>3
    <3>2. s[i - n] = Path[p][i]
      BY <2>1, <3>1
    <3> QED
      BY <2>1, <3>1, <3>2 DEF Range
  <2> QED
    BY <2>2, <2>3
<1>5. \A j \in 1 .. n : Path[p][j] \in T
  <2>1. /\ Path[p][n] \in Blocks /\ Len(Path[Path[p][n]]) = n
        /\ \A j \in 1 .. n : Path[Path[p][n]][j] = Path[p][j]
    BY <1>2, PathPrefix
  <2>2. Range(Path[Path[p][n]]) \subseteq T /\ Path[Path[p][n]] \in Seq(Blocks)
    BY <1>2, <2>1, Heights DEF Closed
  <2>3. DOMAIN Path[Path[p][n]] = 1 .. n
    BY <2>1, <2>2
  <2> QED
    BY <2>1, <2>2, <2>3 DEF Range
<1>6. \A i \in 1 .. l : Path[p][i] \in T \cup Range(s)
  <2> HIDE DEF l
  <2>1. \A i \in 1 .. l : i \in 1 .. n \/ i \in (n + 1) .. l
    BY <1>2, <1>3
  <2> QED
    BY <1>4, <1>5, <2>1
<1>7. \A i \in 1 .. l : Path[p][i] \in Blocks
  BY <1>3
<1>8. ASSUME NEW c \in Range(s) PROVE Range(Path[c]) \subseteq T \cup Range(s)
  <2>1. PICK i \in 1 .. l : c = Path[p][i]
    BY <1>2, <1>3, <1>4
  <2>2. /\ c \in Blocks /\ Len(Path[c]) = i
        /\ \A j \in 1 .. i : Path[c][j] = Path[p][j]
    BY <2>1, PathPrefix
  <2>3. DOMAIN Path[c] = 1 .. i
    BY <2>2, Heights
  <2>4. \A j \in 1 .. i : j \in 1 .. l
    BY <1>3
  <2> HIDE DEF l
  <2> QED
    BY <1>6, <2>2, <2>3, <2>4 DEF Range
<1>9. Range(s) \subseteq Blocks
  BY <1>3 DEF Range
<1> QED
  BY <1>3, <1>8, <1>9 DEF Closed

(* A sound vault is one of a larger tree too. *)
LEMMA VaultsGrow ==
    ASSUME NEW T, NEW U, T \subseteq U, NEW v \in SoundVaults(T)
    PROVE  v \in SoundVaults(U)
<1>1. /\ v = [chain |-> v.chain, complete |-> v.complete, conf |-> v.conf]
      /\ v.chain \subseteq T /\ v.complete \subseteq v.chain /\ IsPath(v.chain)
      /\ DOMAIN v.conf \subseteq Ours
      /\ v.conf \in [DOMAIN v.conf -> T \cup {NoBlock}]
  BY VaultFields
<1>2. /\ v.chain \in SUBSET U /\ v.complete \in SUBSET v.chain /\ DOMAIN v.conf \in SUBSET Ours
      /\ v.conf \in [DOMAIN v.conf -> U \cup {NoBlock}]
  BY <1>1
<1>3. [chain |-> v.chain, complete |-> v.complete, conf |-> v.conf] \in SoundVaults(U)
  BY <1>1, <1>2, SoundVault
<1> QED
  BY <1>1, <1>3, Zenon

(* A new vault is empty. *)
LEMMA EmptyVaultSound ==
    ASSUME NEW T
    PROVE  EmptyVault \in SoundVaults(T) /\ DOMAIN EmptyVault.conf = {}
<1> DEFINE f == [t \in {} |-> NoBlock]
           E == {}
<1>1. f \in [E -> T \cup {NoBlock}] /\ DOMAIN f = {}
  OBVIOUS
<1>2. E \in SUBSET T /\ E \in SUBSET E /\ E \in SUBSET Ours /\ IsPath(E)
  BY DEF IsPath
<1>3. EmptyVault = [chain |-> E, complete |-> E, conf |-> f]
  BY DEF EmptyVault
<1> HIDE DEF f, E
<1>4. [chain |-> E, complete |-> E, conf |-> f] \in SoundVaults(T)
  BY <1>1, <1>2, SoundVault
<1> QED
  BY <1>1, <1>3, <1>4

(* The tip after some headers is the old one or one of them, and none of    *)
(* them has more work.                                                      *)
LEMMA BestIsHeaviest ==
    ASSUME NEW h \in Seq(Blocks), tip \in Blocks
    PROVE  /\ Best(h) \in {tip} \cup Range(h)
           /\ \A x \in {tip} \cup Range(h) : ChainWork[x] <= ChainWork[Best(h)]
<1> DEFINE L == Len(h)
           Q == {tip} \cup Range(h)
           One(r, k) == Heavier(r, h[k])
           Step(g) == [n \in 0 .. L |-> IF n = 0 THEN tip ELSE Heavier(g[n - 1], h[n])]
           m == CHOOSE g : g = Step(g)
           f == [k \in 1 .. L |-> [r \in Q |-> One(r, k)]]
<1>1. L \in Nat /\ tip \in Q
  OBVIOUS
<1>2. Best(h) = m[L]
  BY DEF Best
<1>3. \A r \in Q : \A k \in 1 .. L : One(r, k) \in Q
  BY DEF Heavier, Range
<1>a. /\ \A x \in Q : ChainWork[x] \in Nat
      /\ \A x \in Q : x = tip \/ \E k \in 1 .. L : x = h[k]
      /\ \A k \in 1 .. L : h[k] \in Q
  <2>1. \A x \in Blocks : ChainWork[x] \in Nat
    BY NetSyncAssumption
  <2> QED
    BY <2>1 DEF Range
<1> HIDE DEF L
<1>b. \A r \in Q : \A k \in 1 .. L : /\ ChainWork[r] <= ChainWork[One(r, k)]
                                     /\ ChainWork[h[k]] <= ChainWork[One(r, k)]
  BY <1>a DEF Heavier
<1> HIDE DEF One, Q
<1>4. Steps(Q, L, f)
  BY <1>3 DEF Steps
<1>5. \A r \in Q : \A k \in 1 .. L : f[k][r] = One(r, k)
  OBVIOUS
<1> HIDE DEF f
<1>6. PICK g \in [0 .. L -> Q] : g[0] = tip /\ \A k \in 1 .. L : g[k] = f[k][g[k - 1]]
  <2> DEFINE z == tip
  <2>1. z \in Q
    BY <1>1
  <2> HIDE DEF z
  <2>2. Iterates(Q, z, L, f)
    BY <1>1, <1>4, <2>1, Iteration
  <2> QED
    BY <2>2 DEF Iterates, z
<1>7. \A k \in 1 .. L : g[k] = One(g[k - 1], k)
  <2>1. ASSUME NEW k \in 1 .. L PROVE g[k - 1] \in Q
    BY <1>1
  <2> QED
    BY <2>1, <1>5, <1>6
<1>8. g = Step(g)
  <2>1. \A k \in 0 .. L : g[k] = IF k = 0 THEN tip ELSE One(g[k - 1], k)
    BY <1>1, <1>6, <1>7
  <2> QED
    BY <2>1 DEF One
<1>9. m = Step(m)
  <2> HIDE DEF Step
  <2> QED
    BY <1>8
<1> HIDE DEF m
<1>10. m[0] = tip /\ \A k \in 0 .. L : k < L => m[k + 1] = One(m[k], k + 1)
  <2>1. \A k \in 0 .. L : m[k] = IF k = 0 THEN tip ELSE One(m[k - 1], k)
    BY <1>9 DEF One
  <2>2. ASSUME NEW k \in 0 .. L, k < L PROVE k + 1 \in 0 .. L /\ k + 1 # 0 /\ (k + 1) - 1 = k
    BY <1>1, <2>2
  <2>3. 0 \in 0 .. L
    BY <1>1
  <2> HIDE DEF Step
  <2> QED
    BY <2>1, <2>2, <2>3
<1> HIDE DEF Step
<1> DEFINE P == {k \in 0 .. L : /\ m[k] \in Q /\ ChainWork[tip] <= ChainWork[m[k]]
                                /\ \A j \in 1 .. k : ChainWork[h[j]] <= ChainWork[m[k]]}
<1>11. 0 \in P
  BY <1>1, <1>a, <1>10
<1>12. ASSUME NEW k \in 0 .. L, k \in P, k < L PROVE k + 1 \in P
  <2>1. k + 1 \in 1 .. L /\ k + 1 \in 0 .. L
    BY <1>1, <1>12
  <2> DEFINE y == m[k + 1]
  <2>2. y = One(m[k], k + 1) /\ m[k] \in Q
    BY <1>10, <1>12
  <2>3. /\ y \in Q /\ ChainWork[m[k]] <= ChainWork[y]
        /\ ChainWork[h[k + 1]] <= ChainWork[y]
    BY <1>3, <1>b, <2>1, <2>2
  <2>4. ChainWork[y] \in Nat /\ ChainWork[m[k]] \in Nat /\ ChainWork[tip] \in Nat
    BY <1>1, <1>a, <2>2, <2>3
  <2>5. ChainWork[tip] <= ChainWork[y]
    <3> HIDE DEF y
    <3> QED
      BY <1>12, <2>3, <2>4
  <2>6. ASSUME NEW j \in 1 .. k + 1 PROVE ChainWork[h[j]] <= ChainWork[y]
    <3>1. ChainWork[h[j]] \in Nat
      BY <1>1, <1>a, <2>1
    <3>2. j = k + 1 \/ j \in 1 .. k
      BY <1>12
    <3> HIDE DEF y
    <3> QED
      BY <1>12, <2>3, <2>4, <3>1, <3>2
  <2> QED
    BY <2>1, <2>3, <2>5, <2>6
<1> HIDE DEF P
<1>13. L \in P
  <2>1. L \in 0 .. L
    BY <1>1
  <2> QED
    BY <1>1, <1>11, <1>12, <2>1, Induction
<1>14. /\ m[L] \in Q /\ ChainWork[tip] <= ChainWork[m[L]]
       /\ \A j \in 1 .. L : ChainWork[h[j]] <= ChainWork[m[L]]
  BY <1>13 DEF P
<1> QED
  BY <1>2, <1>14, <1>a DEF Q

(* Two chains have a last block in common. *)
LEMMA CommonBlock ==
    ASSUME NEW a \in Blocks, NEW b \in Blocks, NEW n, n = CommonPrefix(Path[a], Path[b])
    PROVE  n \in 1 .. Len(Path[a]) /\ Path[a][n] \in Range(Path[b])
<1> DEFINE p == Path[a]
           q == Path[b]
           m == Min({Len(p), Len(q)})
           S == {k \in 0 .. m : SubSeq(p, 1, k) = SubSeq(q, 1, k)}
<1>1. /\ p \in Seq(Blocks) /\ q \in Seq(Blocks) /\ Len(p) \in Nat /\ Len(q) \in Nat
      /\ Len(p) >= 1 /\ Len(q) >= 1 /\ p[1] = Genesis /\ q[1] = Genesis
  <2>1. p[1] = Genesis /\ q[1] = Genesis
    BY NetSyncAssumption
  <2>2. \A c \in {a, b} : Path[c] \in Seq(Blocks) /\ Len(Path[c]) = Height(c) + 1 /\ Height(c) \in Nat
    BY Heights
  <2> QED
    BY <2>1, <2>2
<1> HIDE DEF p, q
<1>2. m \in {Len(p), Len(q)} /\ m <= Len(p) /\ m <= Len(q)
  BY <1>1 DEF Min
<1> HIDE DEF m
<1>3. 1 \in S
  BY <1>1, <1>2
<1>4. m \in Nat /\ S \in SUBSET (0 .. m)
  BY <1>1, <1>2
<1>5. n = Max(S)
  BY DEF CommonPrefix, p, q, m
<1>6. n \in S /\ \A k \in S : n >= k
  <2> HIDE DEF S
  <2>1. \E x \in S : \A y \in S : x >= y
    BY <1>3, <1>4, Largest
  <2> QED
    BY <1>5, <2>1 DEF Max
<1>7. n >= 1 /\ n \in 0 .. m /\ SubSeq(p, 1, n) = SubSeq(q, 1, n)
  BY <1>3, <1>6
<1>8. n \in 1 .. Len(p) /\ n \in 1 .. Len(q)
  BY <1>1, <1>2, <1>7
<1>9. SubSeq(p, 1, n)[n] = p[n] /\ SubSeq(q, 1, n)[n] = q[n]
  BY <1>1, <1>8
<1>10. q[n] \in Range(q)
  BY <1>1, <1>8 DEF Range
<1> QED
  BY <1>7, <1>8, <1>9, <1>10 DEF p, q

(* The headers the peer sends connect to the block it was asked with.       *)
LEMMA HeadersConnect ==
    ASSUME NEW T \in SUBSET Blocks, Closed(T), peerTip \in Blocks,
           NEW r \in {"getheaders", "getheadersafter"} \X T
    PROVE  HeadersAfter(r) \in Segments(T)
<1> DEFINE p == Path[peerTip]
           n == IF r[1] = "getheaders" THEN CommonPrefix(p, Path[r[2]])
                ELSE IF r[2] \in Range(p) THEN Height(r[2]) + 1 ELSE 1
<1>1. HeadersAfter(r) = SubSeq(p, n + 1, Len(p))
  BY DEF HeadersAfter
<1>2. /\ p \in Seq(Blocks) /\ Len(p) \in Nat /\ Len(p) >= 1 /\ p[1] = Genesis
      /\ r[2] \in T /\ r[2] \in Blocks
  BY NetSyncAssumption, Heights
<1>3. n \in 1 .. Len(p) /\ p[n] \in T
  <2>1. CASE r[1] = "getheaders"
    <3>1. n \in 1 .. Len(p) /\ p[n] \in Range(Path[r[2]])
      BY <1>2, <2>1, CommonBlock
    <3> HIDE DEF n, p
    <3> QED
      BY <1>2, <3>1 DEF Closed
  <2>2. CASE r[1] # "getheaders" /\ r[2] \in Range(p)
    <3>1. PICK i \in 1 .. Len(p) : r[2] = p[i]
      BY <1>2, <2>2 DEF Range
    <3>2. Height(r[2]) = i - 1
      BY <3>1, PathPrefix
    <3>3. n = i
      BY <1>2, <2>2, <3>1, <3>2
    <3> QED
      BY <1>2, <3>1, <3>3
  <2>3. CASE r[1] # "getheaders" /\ r[2] \notin Range(p)
    BY <1>2, <2>3 DEF Closed
  <2> QED
    BY <2>1, <2>2, <2>3
<1> HIDE DEF n
<1>4. SubSeq(p, n + 1, Len(p)) \in Seq(Blocks)
  <2> HIDE DEF p
  <2> QED
    BY <1>2, <1>3
<1> QED
  BY <1>1, <1>3, <1>4 DEF Segments

(* What the peer answers is valid, and the transactions it sends are ours.  *)
LEMMA ReplyValid ==
    ASSUME NEW T \in SUBSET Blocks, Closed(T), peerTip \in Blocks, NEW r \in Requests(T)
    PROVE  /\ Reply(r) \in Seq(Messages(T))
           /\ {Reply(r)[i][2] : i \in {j \in DOMAIN Reply(r) : Reply(r)[j][1] = "tx"}} \subseteq Ours
<1>1. Reply(r) \in Seq(Messages(T))
  <2>1. CASE r \in {"getheaders", "getheadersafter"} \X T
    <3>1. HeadersAfter(r) \in Segments(T)
      BY <2>1, HeadersConnect
    <3>2. Reply(r) = <<<<"headers", HeadersAfter(r)>>>>
      BY <2>1 DEF Reply
    <3>3. <<"headers", HeadersAfter(r)>> \in Messages(T)
      BY <3>1 DEF Messages
    <3> QED
      BY <3>2, <3>3
  <2>2. CASE r \in {"getmerkle"} \X Blocks
    <3> DEFINE S == IF SkipsKnown THEN Ours \ sent ELSE Ours
               x == Matched(TxsOf(r[2]), S)
               y == TxMessages(x)
    <3>1. Reply(r) = <<<<"merkle", r[2]>>>> \o y
      BY <2>2 DEF Reply
    <3>2. TxsOf(r[2]) \in Seq(Ours)
      BY <2>2, TxsOfBlock
    <3>3. S \subseteq Ours
      OBVIOUS
    <3> HIDE DEF S
    <3>4. x \in Seq(S)
      BY <3>2, MatchedInOrder
    <3>5. x \in Seq(Ours)
      BY <3>3, <3>4, SeqGrows
    <3> HIDE DEF x
    <3>6. y \in Seq(Messages(T))
      <4>1. \A i \in DOMAIN x : <<"tx", x[i]>> \in Messages(T)
        BY <3>5 DEF Messages
      <4>2. DOMAIN x = 1 .. Len(x) /\ Len(x) \in Nat
        BY <3>5
      <4> QED
        BY <4>1, <4>2 DEF TxMessages
    <3> HIDE DEF y
    <3>7. <<"merkle", r[2]>> \in Messages(T)
      BY <2>2 DEF Messages
    <3> QED
      BY <3>1, <3>6, <3>7
  <2>3. CASE r \in {"getblock"} \X Blocks
    <3>1. Reply(r) = <<<<"block", r[2]>>>>
      BY <2>3 DEF Reply
    <3>2. <<"block", r[2]>> \in Messages(T)
      BY <2>3 DEF Messages
    <3> QED
      BY <3>1, <3>2
  <2>4. CASE r \in {"gettx"} \X Ours
    <3>1. Reply(r) = <<<<"tx", r[2]>>>>
      BY <2>4 DEF Reply
    <3>2. <<"tx", r[2]>> \in Messages(T)
      BY <2>4 DEF Messages
    <3> QED
      BY <3>1, <3>2
  <2> QED
    BY <2>1, <2>2, <2>3, <2>4 DEF Requests
<1>2. \A m \in Messages(T) : m[1] = "tx" => m[2] \in Ours
  BY DEF Messages
<1> HIDE DEF Reply
<1> QED
  BY <1>1, <1>2

(* A block of the path to the tip is in the tree. *)
LEMMA TipPath ==
    ASSUME TreeOK, NEW i \in 1 .. Height(tip) + 1
    PROVE  Path[tip][i] \in tree /\ Path[tip][i] \in Blocks
<1>1. tip \in Blocks /\ Range(Path[tip]) \subseteq tree /\ tree \subseteq Blocks
  BY DEF TreeOK, Closed
<1>2. Path[tip] \in Seq(Blocks) /\ DOMAIN Path[tip] = 1 .. Height(tip) + 1
  BY <1>1, Heights
<1> QED
  BY <1>1, <1>2 DEF Range

(* What Advance and SyncBlocks may change, with the tree as it is: the      *)
(* hashes, and requests that are sent.                                      *)
Asks ==
    /\ m_lastRequestedMerkleBlockHash' \in tree \cup {NoBlock}
    /\ m_lastSynchedMerkleBlockHash' \in tree \cup {NoBlock}
    /\ toPeer' \in Seq(Requests(tree))

(* The block after b is requested only below the tip. *)
LEMMA AdvanceAsks ==
    ASSUME TreeOK, HashesOK, NEW b \in tree, NEW asked \in Seq(Requests(tree)), Advance(b, asked)
    PROVE  Asks
<1>1. tip \in tree /\ tree \subseteq Blocks /\ Height(b) \in Nat /\ Height(tip) \in Nat
  BY Heights DEF TreeOK
<1>2. CASE b = tip
  BY <1>1, <1>2 DEF Advance, Asks
<1>3. CASE b # tip /\ Height(b) < Height(tip)
  <2> DEFINE c == Path[tip][Height(b) + 2]
  <2>1. Height(b) + 2 \in 1 .. Height(tip) + 1
    BY <1>1, <1>3
  <2>2. c \in tree /\ c \in Blocks
    BY <2>1, TipPath
  <2>3. <<"getmerkle", c>> \in Requests(tree)
    BY <2>2 DEF Requests
  <2>4. /\ m_lastRequestedMerkleBlockHash' = c /\ toPeer' = Append(asked, <<"getmerkle", c>>)
        /\ m_lastSynchedMerkleBlockHash' = m_lastSynchedMerkleBlockHash
    BY <1>3 DEF Advance
  <2> HIDE DEF c
  <2> QED
    BY <2>2, <2>3, <2>4 DEF Asks, HashesOK
<1>4. CASE b # tip /\ ~ (Height(b) < Height(tip))
  BY <1>4 DEF Advance, Asks, HashesOK
<1> QED
  BY <1>2, <1>3, <1>4

(* The smaller of two numbers. *)
LEMMA Smaller ==
    ASSUME NEW a \in Nat, NEW b \in Nat
    PROVE  Min({a, b}) \in 0 .. b
<1>1. \E x \in {a, b} : \A y \in {a, b} : x =< y
  OBVIOUS
<1>2. Min({a, b}) \in {a, b} /\ \A y \in {a, b} : Min({a, b}) =< y
  BY <1>1 DEF Min
<1> QED
  BY <1>2

(* syncBlocks starts at a block of the best chain. *)
LEMMA SyncBlocksAsks ==
    ASSUME TreeOK, HashesOK, WireOK, NEW v \in SoundVaults(tree), SyncBlocks(v)
    PROVE  Asks /\ m_bInsertMerkleBlocks' = TRUE
<1> DEFINE known == {b \in Locator(v) : InBestChain(b)}
           from == CHOOSE b \in known : \A c \in known : Height(c) <= Height(b)
           i == IF known # {} THEN Height(from) + 1 ELSE Min({StartHeight, Height(tip)})
           start == Path[tip][1 + i]
<1>1. tip \in tree /\ tree \subseteq Blocks /\ Height(tip) \in Nat /\ toPeer \in Seq(Requests(tree))
  BY Heights DEF TreeOK, WireOK
<1>2. known \subseteq tree /\ \A b \in known : Height(b) \in 0 .. Height(tip)
  <2>1. Locator(v) \subseteq tree
    BY VaultFields DEF Locator
  <2>2. \A b \in known : Height(b) <= Height(tip) /\ Height(b) \in Nat
    BY <1>1, <2>1, Heights DEF InBestChain
  <2> QED
    BY <1>1, <2>1, <2>2
<1>3. known # {} => from \in known
  <2> DEFINE S == {Height(b) : b \in known}
  <2>1. ASSUME known # {} PROVE \E b \in known : \A c \in known : Height(c) <= Height(b)
    <3>1. S \in SUBSET (0 .. Height(tip)) /\ S # {}
      BY <1>2, <2>1
    <3>2. \E x \in S : \A y \in S : x >= y
      <4> HIDE DEF S
      <4> QED
        BY <1>1, <3>1, Largest
    <3>3. PICK b \in known : \A y \in S : Height(b) >= y
      BY <3>2
    <3>4. \A c \in known : Height(c) \in S /\ Height(c) \in Nat /\ Height(b) \in Nat
      BY <1>2
    <3>5. \A c \in known : Height(c) <= Height(b)
      <4> HIDE DEF S, known
      <4> QED
        BY <3>3, <3>4
    <3> QED
      BY <3>5
  <2> HIDE DEF known
  <2> QED
    BY <2>1
<1>4. /\ m_bInsertMerkleBlocks' = TRUE
      /\ IF known # {} /\ Height(from) = Height(tip)
         THEN /\ m_lastSynchedMerkleBlockHash' = from
              /\ UNCHANGED <<m_lastRequestedMerkleBlockHash, toPeer>>
         ELSE /\ m_lastSynchedMerkleBlockHash' = NoBlock
              /\ m_lastRequestedMerkleBlockHash' = start
              /\ toPeer' = Append(toPeer, <<"getmerkle", start>>)
  BY DEF SyncBlocks
<1> HIDE DEF known, from
<1>5. CASE known # {} /\ Height(from) = Height(tip)
  BY <1>1, <1>2, <1>3, <1>4, <1>5 DEF Asks, HashesOK
<1>6. CASE ~ (known # {} /\ Height(from) = Height(tip))
  <2>1. 1 + i \in 1 .. Height(tip) + 1
    <3>1. CASE known # {}
      BY <1>1, <1>2, <1>3, <1>6, <3>1
    <3>2. CASE known = {}
      <4>1. StartHeight \in Nat
        BY NetSyncAssumption
      <4>2. Min({StartHeight, Height(tip)}) \in 0 .. Height(tip)
        BY <1>1, <4>1, Smaller
      <4> QED
        BY <1>1, <3>2, <4>2
    <3> QED
      BY <3>1, <3>2
  <2>2. start \in tree /\ start \in Blocks
    <3> HIDE DEF i
    <3> QED
      BY <2>1, TipPath
  <2> HIDE DEF start
  <2>3. <<"getmerkle", start>> \in Requests(tree)
    BY <2>2 DEF Requests
  <2>4. /\ m_lastSynchedMerkleBlockHash' = NoBlock /\ m_lastRequestedMerkleBlockHash' = start
        /\ toPeer' = Append(toPeer, <<"getmerkle", start>>)
    BY <1>4, <1>6
  <2> QED
    BY <1>1, <1>4, <2>2, <2>3, <2>4 DEF Asks
<1> QED
  BY <1>4, <1>5, <1>6

(* Nothing has been unconfirmed yet. *)
LEMMA StartsGood ==
    ASSUME NEW T, NEW b, NEW q \in Seq(Ours), NEW i \in Nat, NEW M \in SUBSET Ours,
           NEW v \in SoundVaults(T), RestOf(b, q, i)
    PROVE  [q |-> q, i |-> i, mem |-> M, v |-> v] \in States(T, b, v)
<1> DEFINE r == [q |-> q, i |-> i, mem |-> M, v |-> v]
<1>1. r \in Records(T) /\ r.q = q /\ r.i = i /\ r.mem = M /\ r.v = v
  BY DEF Records
<1>2. Returned(b, v, v, M)
  BY DEF Returned
<1> HIDE DEF r
<1>3. r \in States(T, b, v)
  BY <1>1, <1>2 DEF States
<1> QED
  BY <1>3 DEF r

(* syncMerkleBlock: the queue is set to the block's transactions, and those *)
(* of the mempool are confirmed; a block without any is stored by itself.   *)
LEMMA SyncMerkleBlockGood ==
    ASSUME NEW T \in SUBSET Blocks, NEW b \in T, vault \in SoundVaults(T),
           m_mempoolTxs \subseteq Ours, m_currentMerkleTxIndex \in Nat
    PROVE  /\ SyncMerkleBlock(b) \in States(T, b, vault)
           /\ TxsOf(b) = <<>> => SyncMerkleBlock(b).q = <<>>
<1>1. b \in Blocks /\ TxsOf(b) \in Seq(Ours)
  BY TxsOfBlock
<1>2. CASE TxsOf(b) # <<>>
  <2> DEFINE X == TxsOf(b)
             s == [q |-> X, i |-> 0, mem |-> m_mempoolTxs, v |-> vault]
  <2>1. SyncMerkleBlock(b) = MempoolConfirmations(b, s)
    BY <1>2 DEF SyncMerkleBlock
  <2>2. SubSeq(X, 0 + 1, Len(X)) = X
    <3> HIDE DEF X
    <3>1. X \in Seq(Ours)
      BY <1>1 DEF X
    <3> QED
      BY <3>1
  <2>3. RestOf(b, X, 0)
    BY <2>2 DEF RestOf
  <2>4. s \in States(T, b, vault)
    <3> HIDE DEF X
    <3>1. X \in Seq(Ours)
      BY <1>1 DEF X
    <3> QED
      BY <2>3, <3>1, StartsGood
  <2> HIDE DEF s, X
  <2>5. MempoolConfirmations(b, s) \in States(T, b, vault)
    BY <2>4, MempoolGood
  <2> QED
    BY <1>2, <2>1, <2>5
<1>3. CASE TxsOf(b) = <<>> /\ ~ (vaultOpen /\ m_bInsertMerkleBlocks)
  <2> DEFINE e == <<>>
             s == [q |-> e, i |-> m_currentMerkleTxIndex, mem |-> m_mempoolTxs, v |-> vault]
  <2>1. SyncMerkleBlock(b) = s /\ s.q = <<>>
    BY <1>3 DEF SyncMerkleBlock
  <2>2. e \in Seq(Ours) /\ RestOf(b, e, m_currentMerkleTxIndex)
    BY DEF RestOf
  <2> HIDE DEF e
  <2>3. s \in States(T, b, vault)
    BY <2>2, StartsGood
  <2> QED
    BY <2>1, <2>3
<1>4. CASE TxsOf(b) = <<>> /\ vaultOpen /\ m_bInsertMerkleBlocks
  <2> DEFINE e == <<>>
             w == InsertMerkleBlock(vault, b)
             M == m_mempoolTxs \cup PushedOff(vault, w)
             r == [q |-> e, i |-> m_currentMerkleTxIndex, mem |-> M, v |-> w]
  <2>1. SyncMerkleBlock(b) = r /\ r.q = <<>>
    BY <1>4 DEF SyncMerkleBlock
  <2>2. e \in Seq(Ours) /\ RestOf(b, e, m_currentMerkleTxIndex)
    BY DEF RestOf
  <2>3. /\ w \in SoundVaults(T)
        /\ w = vault \/ b \in w.chain
        /\ DOMAIN w.conf = DOMAIN vault.conf
        /\ \A x \in DOMAIN vault.conf :
             w.conf[x] = vault.conf[x] \/ (w.conf[x] = NoBlock /\ vault.conf[x] \in vault.chain)
    BY MerkleBlockSound
  <2> HIDE DEF w, e
  <2>4. w.chain \subseteq Blocks /\ NoBlock \notin Blocks /\ DOMAIN vault.conf \subseteq Ours
    BY <2>3, VaultFields, NetSyncAssumption
  <2>5. M \in SUBSET Ours
    BY <2>4 DEF PushedOff
  <2>6. Returned(b, vault, w, M)
    BY <2>3, <2>4 DEF Returned, PushedOff
  <2> HIDE DEF M
  <2>7. r \in Records(T) /\ r.q = e /\ r.i = m_currentMerkleTxIndex /\ r.mem = M /\ r.v = w
    BY <2>2, <2>3, <2>5 DEF Records
  <2> HIDE DEF r
  <2>8. r \in States(T, b, vault)
    BY <1>4, <2>2, <2>6, <2>7 DEF States
  <2> QED
    BY <2>1, <2>8
<1> QED
  BY <1>2, <1>3, <1>4

(* The record a handler ends with becomes the queue, mempool and vault.     *)
LEMMA SetQueueGood ==
    ASSUME NEW b, NEW s \in States(tree', b, vault), SetQueue(s),
           m_currentMerkleBlock' \in tree' \cup {NoBlock},
           s.q = <<>> \/ (m_currentMerkleBlock' = b /\ b # NoBlock)
    PROVE  QueueOK' /\ VaultOK' /\ Returns
<1>1. /\ s.q \in Seq(Ours) /\ s.i \in Nat /\ s.mem \in SUBSET Ours /\ s.v \in SoundVaults(tree')
      /\ RestOf(b, s.q, s.i) /\ Returned(b, vault, s.v, s.mem)
  BY DEF States, Records
<1>2. /\ m_currentMerkleTxHashes' = s.q /\ m_currentMerkleTxIndex' = s.i
      /\ m_mempoolTxs' = s.mem /\ vault' = s.v
  BY DEF SetQueue
<1>3. RestOf(m_currentMerkleBlock, m_currentMerkleTxHashes, m_currentMerkleTxIndex)'
  BY <1>1, <1>2 DEF RestOf
<1>4. QueueOK'
  BY <1>1, <1>2, <1>3 DEF QueueOK
<1>5. VaultOK'
  BY <1>1, <1>2 DEF VaultOK
<1>6. Returns
  BY <1>1, <1>2 DEF Returns, Returned
<1> QED
  BY <1>4, <1>5, <1>6

(* The queue and the vault stay as they are while the tree grows.           *)
LEMMA QueueStays ==
    ASSUME Inv, tree \subseteq tree', UNCHANGED <<txVars, vault>>
    PROVE  QueueOK' /\ VaultOK' /\ Returns
<1>1. /\ m_mempoolTxs' = m_mempoolTxs /\ m_currentMerkleBlock' = m_currentMerkleBlock
      /\ m_currentMerkleTxHashes' = m_currentMerkleTxHashes
      /\ m_currentMerkleTxIndex' = m_currentMerkleTxIndex /\ vault' = vault
  BY DEF txVars
<1>2. QueueOK /\ vault \in SoundVaults(tree)
  BY DEF Inv, VaultOK
<1>3. QueueOK'
  BY <1>1, <1>2 DEF QueueOK, RestOf
<1>4. VaultOK'
  BY <1>1, <1>2, VaultsGrow DEF VaultOK
<1>5. Returns
  BY <1>1 DEF Returns
<1> QED
  BY <1>3, <1>4, <1>5

(* The same for the hashes, and for what is on its way. *)
LEMMA AsksGood ==
    ASSUME Inv, UNCHANGED tree, Asks, m_lastRequestedBlockHash' \in tree \cup {NoBlock},
           toUs' \in Seq(Messages(tree))
    PROVE  HashesOK' /\ WireOK'
BY DEF Asks, HashesOK, WireOK

-----------------------------------------------------------------------------
(* The actions.                                                             *)

(* The hashes stay as they are while the tree grows. *)
LEMMA HashesStay ==
    ASSUME Inv, tree \subseteq tree', UNCHANGED blockVars
    PROVE  HashesOK'
BY DEF Inv, HashesOK, blockVars

(* The bounds are numbers. *)
LEMMA Bounds == MaxConnects \in Nat /\ MaxVaultOps \in Nat
BY NetSyncAssumption

(* The initial state. *)
LEMMA InitOK == Init => Inv
<1> SUFFICES ASSUME Init PROVE Inv
  OBVIOUS
<1> DEFINE T == {Genesis}
<1>1. Genesis \in Blocks /\ Path[Genesis] \in Seq(Blocks) /\ Len(Path[Genesis]) = 1
      /\ Path[Genesis][1] = Genesis
  <2>1. Genesis \in Blocks /\ Path[Genesis] \in Seq(Blocks) /\ Path[Genesis][1] = Genesis
    BY NetSyncAssumption
  <2>2. Len(Path[Genesis]) = Height(Genesis) + 1
    BY <2>1, Heights
  <2>3. Len(Path[Genesis]) = 1
    BY <2>2, GenesisHeight
  <2> QED
    BY <2>1, <2>3
<1>2. Closed(T)
  BY <1>1 DEF Closed, Range
<1>3. TreeOK
  BY <1>1, <1>2 DEF Init, TreeOK
<1>4. FlagsOK
  <2>1. connects \in 0 .. MaxConnects /\ vaultOps \in 0 .. MaxVaultOps
    BY Bounds DEF Init
  <2> QED
    BY <2>1, Zenon DEF Init, FlagsOK
<1>5. PeerOK /\ HashesOK
  BY DEF Init, PeerOK, HashesOK
<1>6. QueueOK
  BY DEF Init, QueueOK, RestOf
<1>7. VaultOK
  BY EmptyVaultSound DEF Init, VaultOK
<1>8. WireOK
  BY DEF Init, WireOK
<1> QED
  BY <1>3, <1>4, <1>5, <1>6, <1>7, <1>8 DEF Inv

(* start: the headers after our tip are asked for. *)
LEMMA OpenOK == Inv /\ Open => Inv' /\ Returns
<1> SUFFICES ASSUME Inv, Open PROVE Inv' /\ Returns
  OBVIOUS
<1>1. tree' = tree /\ tip' = tip /\ tree \subseteq tree' /\ UNCHANGED <<txVars, vault>>
      /\ UNCHANGED blockVars
  BY DEF Open, treeVars
<1>2. FlagsOK'
  <2>1. connects' \in 0 .. MaxConnects
    BY Bounds DEF Inv, FlagsOK, Open
  <2> QED
    BY <2>1 DEF Inv, FlagsOK, Open
<1>3. TreeOK' /\ PeerOK'
  BY <1>1 DEF Inv, TreeOK, PeerOK, Open
<1>4. HashesOK'
  BY <1>1, HashesStay
<1>5. QueueOK' /\ VaultOK' /\ Returns
  BY <1>1, QueueStays
<1>6. WireOK'
  <2>1. GetHeaders \in Requests(tree)
    BY DEF Inv, TreeOK, GetHeaders, Requests
  <2>2. toPeer' = <<GetHeaders>> /\ toUs' = <<>>
    BY DEF Open
  <2> HIDE DEF GetHeaders
  <2> QED
    BY <1>1, <2>1, <2>2 DEF WireOK
<1> QED
  BY <1>2, <1>3, <1>4, <1>5, <1>6 DEF Inv

(* stop: the queue and what is on its way are lost. *)
LEMMA StopOK == Inv /\ Stop => Inv' /\ Returns
<1> SUFFICES ASSUME Inv, Stop PROVE Inv' /\ Returns
  OBVIOUS
<1>1. tree' = tree /\ tip' = tip
  BY DEF Stop, treeVars
<1>2. FlagsOK'
  BY DEF Inv, FlagsOK, Stop, userVars
<1>3. TreeOK' /\ PeerOK' /\ HashesOK'
  BY <1>1 DEF Inv, TreeOK, PeerOK, HashesOK, Stop
<1>4. QueueOK'
  BY <1>1 DEF Inv, QueueOK, RestOf, Stop
<1>5. VaultOK' /\ Returns
  BY <1>1 DEF Inv, VaultOK, Returns, Stop
<1>6. WireOK'
  BY <1>1 DEF WireOK, Stop
<1> QED
  BY <1>2, <1>3, <1>4, <1>5, <1>6 DEF Inv

(* closeVault: the queue stays. *)
LEMMA CloseVaultOK == Inv /\ CloseVault => Inv' /\ Returns
<1> SUFFICES ASSUME Inv, CloseVault PROVE Inv' /\ Returns
  OBVIOUS
<1>1. tree' = tree /\ tip' = tip /\ tree \subseteq tree' /\ UNCHANGED <<txVars, vault>>
  BY DEF CloseVault, treeVars
<1>2. FlagsOK'
  <2>1. vaultOps' \in 0 .. MaxVaultOps
    BY Bounds DEF Inv, FlagsOK, CloseVault
  <2> QED
    BY <2>1 DEF Inv, FlagsOK, CloseVault
<1>3. TreeOK' /\ PeerOK' /\ HashesOK'
  BY <1>1 DEF Inv, TreeOK, PeerOK, HashesOK, CloseVault, peerVars
<1>4. QueueOK' /\ VaultOK' /\ Returns
  BY <1>1, QueueStays
<1>5. WireOK'
  BY <1>1 DEF Inv, WireOK, CloseVault
<1> QED
  BY <1>2, <1>3, <1>4, <1>5 DEF Inv

(* openVault: any vault that is opened is a sound one, while the queue may  *)
(* be of another's time.                                                    *)
LEMMA OpenVaultOK == Inv /\ OpenVault => Inv' /\ Returns
<1> SUFFICES ASSUME Inv, OpenVault PROVE Inv' /\ Returns
  OBVIOUS
<1>1. /\ tree' = tree /\ tip' = tip /\ UNCHANGED txVars /\ toUs' = toUs
      /\ m_lastRequestedBlockHash' = m_lastRequestedBlockHash
  BY DEF OpenVault, treeVars
<1>2. PICK v \in {vault, EmptyVault} : vault' = v
  BY DEF OpenVault
<1>3. v \in SoundVaults(tree) /\ (v # vault => DOMAIN v.conf = {})
  BY EmptyVaultSound DEF Inv, VaultOK
<1>4. VaultOK' /\ Returns
  BY <1>1, <1>2, <1>3 DEF VaultOK, Returns
<1>5. Asks /\ m_bInsertMerkleBlocks' \in BOOLEAN
  <2>1. CASE m_bConnected /\ m_bHeadersSynched
    <3>1. SyncBlocks(vault')
      BY <2>1 DEF OpenVault
    <3>2. SyncBlocks(v)
      BY <1>2, <3>1 DEF SyncBlocks
    <3> QED
      BY <1>3, <3>2, SyncBlocksAsks DEF Inv
  <2>2. CASE ~ (m_bConnected /\ m_bHeadersSynched)
    BY <2>2 DEF OpenVault, Asks, Inv, HashesOK, WireOK, FlagsOK
  <2> QED
    BY <2>1, <2>2
<1>6. HashesOK' /\ WireOK'
  BY <1>1, <1>5, AsksGood DEF Inv, HashesOK, WireOK
<1>7. FlagsOK'
  <2>1. vaultOps' \in 0 .. MaxVaultOps
    BY Bounds DEF Inv, FlagsOK, OpenVault
  <2> QED
    BY <1>5, <2>1 DEF Inv, FlagsOK, OpenVault
<1>8. TreeOK' /\ PeerOK'
  BY <1>1 DEF Inv, TreeOK, PeerOK, OpenVault, peerVars
<1>9. QueueOK'
  BY <1>1 DEF Inv, QueueOK, RestOf, txVars
<1> QED
  BY <1>4, <1>6, <1>7, <1>8, <1>9 DEF Inv

(* An opening that fails: the sync goes on without a vault. *)
LEMMA OpenVaultFailsOK == Inv /\ OpenVaultFails => Inv' /\ Returns
<1> SUFFICES ASSUME Inv, OpenVaultFails PROVE Inv' /\ Returns
  OBVIOUS
<1>1. tree' = tree /\ tip' = tip /\ tree \subseteq tree' /\ UNCHANGED <<txVars, vault>>
  BY DEF OpenVaultFails, treeVars
<1>2. FlagsOK'
  <2>1. vaultOps' \in 0 .. MaxVaultOps
    BY Bounds DEF Inv, FlagsOK, OpenVaultFails
  <2> QED
    BY <2>1 DEF Inv, FlagsOK, OpenVaultFails
<1>3. TreeOK' /\ PeerOK' /\ HashesOK'
  BY <1>1 DEF Inv, TreeOK, PeerOK, HashesOK, OpenVaultFails, peerVars, blockVars
<1>4. QueueOK' /\ VaultOK' /\ Returns
  BY <1>1, QueueStays
<1>5. WireOK'
  BY <1>1 DEF Inv, WireOK, OpenVaultFails
<1> QED
  BY <1>2, <1>3, <1>4, <1>5 DEF Inv

(* The peer's answer. *)
LEMMA PeerRepliesOK == Inv /\ PeerReplies => Inv' /\ Returns
<1> SUFFICES ASSUME Inv, PeerReplies PROVE Inv' /\ Returns
  OBVIOUS
<1>1. tree' = tree /\ tip' = tip /\ tree \subseteq tree' /\ UNCHANGED <<txVars, vault>>
      /\ UNCHANGED blockVars
  BY DEF PeerReplies, treeVars
<1> DEFINE r == Head(toPeer)
           m == Reply(r)
           M == {m[i][2] : i \in {j \in DOMAIN m : m[j][1] = "tx"}}
<1>2. r \in Requests(tree) /\ Tail(toPeer) \in Seq(Requests(tree)) /\ toUs \in Seq(Messages(tree))
  BY DEF Inv, WireOK, PeerReplies
<1>3. toPeer' = Tail(toPeer) /\ toUs' = toUs \o m /\ sent' = sent \cup M
  BY DEF PeerReplies
<1> HIDE DEF r
<1>4. m \in Seq(Messages(tree)) /\ M \subseteq Ours
  BY <1>2, ReplyValid DEF Inv, TreeOK, PeerOK
<1> HIDE DEF m, M
<1>5. FlagsOK'
  BY DEF Inv, FlagsOK, PeerReplies, userVars
<1>6. TreeOK' /\ PeerOK'
  BY <1>1, <1>3, <1>4 DEF Inv, TreeOK, PeerOK, PeerReplies
<1>7. HashesOK'
  BY <1>1, HashesStay
<1>8. QueueOK' /\ VaultOK' /\ Returns
  BY <1>1, QueueStays
<1>9. WireOK'
  BY <1>1, <1>2, <1>3, <1>4 DEF WireOK
<1> QED
  BY <1>5, <1>6, <1>7, <1>8, <1>9 DEF Inv

(* The peer's announcements. *)
LEMMA PeerAnnouncesOK == Inv /\ (PeerMines \/ PeerRelays) => Inv' /\ Returns
<1> SUFFICES ASSUME Inv, PeerMines \/ PeerRelays PROVE Inv' /\ Returns
  OBVIOUS
<1>1. /\ tree' = tree /\ tip' = tip /\ tree \subseteq tree' /\ UNCHANGED <<txVars, vault>>
      /\ UNCHANGED blockVars /\ toPeer' = toPeer
  BY DEF PeerMines, PeerRelays, treeVars
<1>2. FlagsOK'
  BY DEF Inv, FlagsOK, PeerMines, PeerRelays, userVars
<1>3. TreeOK' /\ PeerOK'
  BY <1>1 DEF Inv, TreeOK, PeerOK, PeerMines, PeerRelays, peerVars
<1>4. HashesOK'
  BY <1>1, HashesStay
<1>5. QueueOK' /\ VaultOK' /\ Returns
  BY <1>1, QueueStays
<1>6. toUs' \in Seq(Messages(tree))
  <2>1. toUs \in Seq(Messages(tree))
    BY DEF Inv, WireOK
  <2>2. /\ \A b \in Blocks : <<"invblock", b>> \in Messages(tree)
        /\ \A t \in Ours : <<"invtx", t>> \in Messages(tree)
    BY DEF Messages
  <2>3. CASE PeerMines
    <3>1. PICK b \in Blocks :
            toUs' = IF m_bConnected THEN Append(toUs, <<"invblock", b>>) ELSE toUs
      BY <2>3 DEF PeerMines
    <3> QED
      BY <2>1, <2>2, <3>1
  <2>4. CASE PeerRelays
    <3>1. PICK t \in Ours : toUs' = Append(toUs, <<"invtx", t>>)
      BY <2>4 DEF PeerRelays
    <3> QED
      BY <2>1, <2>2, <3>1
  <2> QED
    BY <2>3, <2>4
<1>7. WireOK'
  BY <1>1, <1>6 DEF Inv, WireOK
<1> QED
  BY <1>2, <1>3, <1>4, <1>5, <1>7 DEF Inv

(* A message is taken from the connection, and has what its kind says. *)
LEMMA ReceiveOK ==
    ASSUME Inv, NEW kind, Receive(kind)
    PROVE  /\ kind = "headers" => Head(toUs)[2] \in Segments(tree)
           /\ kind \in {"merkle", "block", "invblock"} => Head(toUs)[2] \in Blocks
           /\ kind \in {"tx", "invtx"} => Head(toUs)[2] \in Ours
           /\ toUs' \in Seq(Messages(tree))
           /\ PeerOK'
           /\ m_bConnected' = m_bConnected /\ vaultOpen' = vaultOpen
           /\ connects' = connects /\ vaultOps' = vaultOps
<1>1. toUs \in Seq(Messages(tree)) /\ toUs # <<>> /\ Head(toUs)[1] = kind /\ toUs' = Tail(toUs)
  BY DEF Inv, WireOK, Receive
<1>2. Head(toUs) \in Messages(tree) /\ toUs' \in Seq(Messages(tree))
  BY <1>1
<1>3. PeerOK' /\ m_bConnected' = m_bConnected /\ vaultOpen' = vaultOpen
      /\ connects' = connects /\ vaultOps' = vaultOps
  BY DEF Inv, PeerOK, Receive, peerVars, userVars
<1> DEFINE m == Head(toUs)
<1>4. m \in Messages(tree) /\ m[1] = kind
  BY <1>1, <1>2
<1> HIDE DEF m
<1>5. /\ kind = "headers" => m[2] \in Segments(tree)
      /\ kind \in {"merkle", "block", "invblock"} => m[2] \in Blocks
      /\ kind \in {"tx", "invtx"} => m[2] \in Ours
  BY <1>4 DEF Messages
<1> QED
  BY <1>2, <1>3, <1>5 DEF m

(* The flags after a handler. *)
LEMMA FlagsAfter ==
    ASSUME Inv, NEW kind, Receive(kind), m_bHeadersSynched' \in BOOLEAN,
           m_bMissingTxs' \in BOOLEAN, m_bInsertMerkleBlocks' \in BOOLEAN
    PROVE  FlagsOK'
<1>1. /\ m_bConnected' = m_bConnected /\ vaultOpen' = vaultOpen
      /\ connects' = connects /\ vaultOps' = vaultOps
  BY DEF Receive, userVars
<1> QED
  BY <1>1 DEF Inv, FlagsOK

(* Announcements are answered with requests. *)
LEMMA OnInvOK == Inv /\ OnInv => Inv' /\ Returns
<1> SUFFICES ASSUME Inv, OnInv PROVE Inv' /\ Returns
  OBVIOUS
<1>1. /\ tree' = tree /\ tip' = tip /\ tree \subseteq tree' /\ UNCHANGED <<txVars, vault>>
      /\ UNCHANGED blockVars
      /\ UNCHANGED <<m_bHeadersSynched, m_bMissingTxs, m_bInsertMerkleBlocks>>
  BY DEF OnInv, treeVars
<1>2. PICK kind \in {"invblock", "invtx"} : Receive(kind)
  BY DEF OnInv
<1>3. HashesOK' /\ TreeOK' /\ PeerOK'
  BY <1>1, <1>2, HashesStay, ReceiveOK DEF Inv, TreeOK
<1>4. QueueOK' /\ VaultOK' /\ Returns
  BY <1>1, QueueStays
<1>5. FlagsOK'
  BY <1>1, <1>2, FlagsAfter DEF Inv, FlagsOK
<1>6. toPeer' \in Seq(Requests(tree))
  <2>1. toPeer \in Seq(Requests(tree))
    BY DEF Inv, WireOK
  <2>2. /\ \A b \in Blocks : <<"getmerkle", b>> \in Requests(tree)
        /\ \A t \in Ours : <<"gettx", t>> \in Requests(tree)
    BY DEF Requests
  <2>3. CASE Receive("invblock") /\ toPeer' = Append(toPeer, <<"getmerkle", Head(toUs)[2]>>)
    <3>1. Head(toUs)[2] \in Blocks
      BY <2>3, ReceiveOK
    <3>2. <<"getmerkle", Head(toUs)[2]>> \in Requests(tree)
      BY <2>2, <3>1
    <3> QED
      BY <2>1, <2>3, <3>2
  <2>4. CASE Receive("invtx") /\ toPeer' = Append(toPeer, <<"gettx", Head(toUs)[2]>>)
    <3>1. Head(toUs)[2] \in Ours
      BY <2>4, ReceiveOK
    <3>2. <<"gettx", Head(toUs)[2]>> \in Requests(tree)
      BY <2>2, <3>1
    <3> QED
      BY <2>1, <2>4, <3>2
  <2> QED
    BY <2>3, <2>4 DEF OnInv
<1>7. WireOK'
  BY <1>1, <1>2, <1>6, ReceiveOK DEF WireOK
<1> QED
  BY <1>3, <1>4, <1>5, <1>7 DEF Inv

(* Requests and messages after the tree has grown. *)
LEMMA WireStays ==
    ASSUME tree \subseteq tree', toPeer' \in Seq(Requests(tree')), toUs' \in Seq(Messages(tree))
    PROVE  WireOK'
<1>1. Messages(tree) \subseteq Messages(tree')
  BY WireGrows
<1>2. toUs' \in Seq(Messages(tree'))
  BY <1>1, SeqGrows
<1> QED
  BY <1>2 DEF WireOK

(* headers: they connect to the tree, whatever was asked for meanwhile.     *)
LEMMA OnHeadersOK == Inv /\ OnHeaders => Inv' /\ Returns
<1> SUFFICES ASSUME Inv, OnHeaders PROVE Inv' /\ Returns
  OBVIOUS
<1> DEFINE h == Head(toUs)[2]
<1>1. Receive("headers")
  BY DEF OnHeaders
<1>2. h \in Segments(tree) /\ toUs' \in Seq(Messages(tree)) /\ PeerOK'
  BY <1>1, ReceiveOK
<1>3. /\ UNCHANGED <<txVars, vault>> /\ m_bMissingTxs' = m_bMissingTxs
      /\ m_lastRequestedBlockHash' = m_lastRequestedBlockHash
  BY DEF OnHeaders
<1>4. /\ tree \subseteq Blocks /\ tip \in tree /\ Closed(tree)
      /\ toPeer \in Seq(Requests(tree))
  BY DEF Inv, TreeOK, WireOK
<1>5. CASE h # <<>>
  <2>1. /\ tree' = tree \cup Range(h) /\ tip' = Best(h)
        /\ m_bHeadersSynched' = (m_bHeadersSynched /\ Range(h) \subseteq tree)
        /\ toPeer' = IF Last(h) = Best(h) THEN Append(toPeer, GetHeadersAfter(Best(h))) ELSE toPeer
        /\ UNCHANGED <<m_bInsertMerkleBlocks, m_lastRequestedMerkleBlockHash,
                       m_lastSynchedMerkleBlockHash>>
    BY <1>5 DEF OnHeaders
  <2> HIDE DEF h
  <2>2. Closed(tree \cup Range(h)) /\ Range(h) \subseteq Blocks /\ h \in Seq(Blocks)
    BY <1>2, <1>4, SegmentCloses
  <2>3. Best(h) \in {tip} \cup Range(h)
    BY <2>2, BestIsHeaviest DEF Inv, TreeOK
  <2>4. TreeOK'
    BY <1>4, <2>1, <2>2, <2>3 DEF TreeOK
  <2>5. tree \subseteq tree' /\ UNCHANGED blockVars
    BY <1>3, <2>1 DEF blockVars
  <2>6. HashesOK'
    BY <2>5, HashesStay
  <2>7. QueueOK' /\ VaultOK' /\ Returns
    BY <1>3, <2>5, QueueStays
  <2>8. toPeer' \in Seq(Requests(tree'))
    <3>1. Requests(tree) \subseteq Requests(tree')
      BY <2>5, WireGrows
    <3>2. toPeer \in Seq(Requests(tree'))
      BY <1>4, <3>1, SeqGrows
    <3>3. GetHeadersAfter(Best(h)) \in Requests(tree')
      BY <1>4, <2>1, <2>3 DEF GetHeadersAfter, Requests
    <3> QED
      BY <2>1, <3>2, <3>3
  <2>9. WireOK'
    BY <1>2, <2>5, <2>8, WireStays
  <2>10. FlagsOK'
    <3>1. m_bHeadersSynched' \in BOOLEAN
      BY <2>1
    <3>2. m_bMissingTxs' \in BOOLEAN /\ m_bInsertMerkleBlocks' \in BOOLEAN
      BY <1>3, <2>1 DEF Inv, FlagsOK
    <3> QED
      BY <1>1, <3>1, <3>2, FlagsAfter
  <2> QED
    BY <1>2, <2>4, <2>6, <2>7, <2>9, <2>10 DEF Inv
<1>6. CASE h = <<>>
  <2>1. /\ m_bHeadersSynched' = TRUE
        /\ IF ~ m_bHeadersSynched /\ vaultOpen
           THEN SyncBlocks(vault)
           ELSE UNCHANGED <<m_bInsertMerkleBlocks, m_lastRequestedMerkleBlockHash,
                            m_lastSynchedMerkleBlockHash, toPeer>>
        /\ tree' = tree /\ tip' = tip
    BY <1>6 DEF OnHeaders, treeVars
  <2>2. Asks /\ m_bInsertMerkleBlocks' \in BOOLEAN
    <3>1. CASE ~ m_bHeadersSynched /\ vaultOpen
      BY <2>1, <3>1, SyncBlocksAsks DEF Inv, VaultOK
    <3>2. CASE ~ (~ m_bHeadersSynched /\ vaultOpen)
      BY <2>1, <3>2 DEF Asks, Inv, HashesOK, WireOK, FlagsOK
    <3> QED
      BY <3>1, <3>2
  <2>3. HashesOK' /\ WireOK'
    BY <1>2, <1>3, <2>1, <2>2, AsksGood DEF Inv, HashesOK
  <2>4. TreeOK'
    BY <1>4, <2>1 DEF TreeOK
  <2>5. QueueOK' /\ VaultOK' /\ Returns
    BY <1>3, <2>1, QueueStays
  <2>6. FlagsOK'
    <3>1. m_bHeadersSynched' \in BOOLEAN /\ m_bMissingTxs' \in BOOLEAN
      BY <1>3, <2>1 DEF Inv, FlagsOK
    <3> QED
      BY <1>1, <2>2, <3>1, FlagsAfter
  <2> QED
    BY <1>2, <2>3, <2>4, <2>5, <2>6 DEF Inv
<1> QED
  BY <1>5, <1>6

(* A block that extends or replaces the tip has its parent in the tree.     *)
LEMMA ExtendsCloses ==
    ASSUME TreeOK, NEW b \in Blocks, ExtendsTip(b)
    PROVE  Closed(tree \cup {b})
<1>1. /\ tree \subseteq Blocks /\ tip \in tree /\ tip \in Blocks /\ Closed(tree)
      /\ NoBlock \notin Blocks
  BY NetSyncAssumption DEF TreeOK
<1>2. b # Genesis
  BY <1>1, GenesisHeight DEF ExtendsTip
<1>3. Parent(b) \in Blocks /\ Height(Parent(b)) = Height(b) - 1 /\ Height(b) > 0
      /\ Len(Path[b]) = Height(b) + 1 /\ Height(b) \in Nat /\ Path[b][Height(b) + 1] = b
      /\ Path[b] \in Seq(Blocks)
  BY <1>2, Heights
<1>4. Parent(b) \in tree
  <2>1. CASE Parent(b) = tip
    BY <1>1, <2>1
  <2>2. CASE Parent(b) = Parent(tip)
    <3>1. tip # Genesis
      BY <1>1, <1>3, <2>2, GenesisHeight
    <3>2. Parent(tip) \in Range(Path[tip])
      BY <1>1, <3>1, Heights
    <3> QED
      BY <1>1, <2>2, <3>2 DEF Closed
  <2> QED
    BY <2>1, <2>2 DEF ExtendsTip
<1>5. <<b>> \in Segments(tree) 
  <2> DEFINE n == Height(b)
             p == Path[b]
  <2>1. n \in 1 .. Len(p) /\ Len(p) = n + 1 /\ p \in Seq(Blocks) /\ p[n + 1] = b
    BY <1>3
  <2>2. p[n] \in tree
    BY <1>2, <1>4 DEF Parent
  <2> HIDE DEF n, p
  <2>3. <<b>> = SubSeq(p, n + 1, Len(p))
    BY <2>1
  <2>4. <<b>> \in Seq(Blocks)
    OBVIOUS
  <2> QED
    BY <2>1, <2>2, <2>3, <2>4 DEF Segments, p
<1>6. Range(<<b>>) = {b}
  BY DEF Range
<1>7. Closed(tree \cup Range(<<b>>))
  BY <1>1, <1>5, SegmentCloses
<1> QED
  BY <1>6, <1>7, Zenon

(* merkleblock: the requested block, one that extends or replaces the tip,  *)
(* or another.                                                              *)
LEMMA OnMerkleBlockOK == Inv /\ OnMerkleBlock => Inv' /\ Returns
<1> SUFFICES ASSUME Inv, OnMerkleBlock PROVE Inv' /\ Returns
  OBVIOUS
<1> DEFINE b == Head(toUs)[2]
           s == SyncMerkleBlock(b)
           asked == IF m_bHeadersSynched THEN toPeer ELSE Append(toPeer, GetHeaders)
           Requested ==
              /\ b = m_lastRequestedMerkleBlockHash
              /\ SetQueue(s) /\ SetCurrent(b)
              /\ IF s.q = <<>>
                 THEN Advance(b, asked)
                 ELSE /\ toPeer' = asked
                      /\ UNCHANGED <<m_lastRequestedMerkleBlockHash, m_lastSynchedMerkleBlockHash>>
              /\ UNCHANGED <<treeVars, m_bHeadersSynched>>
           Extending ==
              /\ b # m_lastRequestedMerkleBlockHash
              /\ ExtendsTip(b)
              /\ tree' = tree \cup {b} /\ tip' = Heavier(tip, b)
              /\ toPeer' = asked
              /\ IF m_lastSynchedMerkleBlockHash = tip
                 THEN /\ SetQueue(s) /\ SetCurrent(b)
                      /\ m_lastSynchedMerkleBlockHash' = IF s.q = <<>> THEN tip' ELSE tip
                 ELSE UNCHANGED <<txVars, vault, m_lastSynchedMerkleBlockHash>>
              /\ UNCHANGED <<m_lastRequestedMerkleBlockHash, m_bHeadersSynched>>
           Other ==
              /\ b # m_lastRequestedMerkleBlockHash
              /\ ~ ExtendsTip(b)
              /\ IF b \in tree
                 THEN toPeer' = asked /\ UNCHANGED m_bHeadersSynched
                 ELSE toPeer' = Append(asked, GetHeaders) /\ m_bHeadersSynched' = FALSE
              /\ UNCHANGED <<treeVars, txVars, vault, m_lastRequestedMerkleBlockHash,
                             m_lastSynchedMerkleBlockHash>>
<1>1. Receive("merkle")
  BY DEF OnMerkleBlock
<1>2. b \in Blocks /\ toUs' \in Seq(Messages(tree)) /\ PeerOK'
  BY <1>1, ReceiveOK
<1>3. /\ m_lastRequestedBlockHash' = m_lastRequestedBlockHash
      /\ m_bMissingTxs' = m_bMissingTxs /\ m_bInsertMerkleBlocks' = m_bInsertMerkleBlocks
  BY DEF OnMerkleBlock
<1>4. /\ tree \subseteq Blocks /\ tip \in tree /\ TreeOK /\ HashesOK
      /\ toPeer \in Seq(Requests(tree)) /\ NoBlock \notin Blocks
  BY NetSyncAssumption DEF Inv, TreeOK, WireOK
<1>5. GetHeaders \in Requests(tree) /\ asked \in Seq(Requests(tree))
  <2>1. GetHeaders \in Requests(tree)
    BY <1>4 DEF GetHeaders, Requests
  <2> HIDE DEF GetHeaders
  <2> QED
    BY <1>4, <2>1
<1>6. Requested \/ Extending \/ Other
  BY DEF OnMerkleBlock
<1>7. /\ m_mempoolTxs \subseteq Ours /\ m_currentMerkleTxIndex \in Nat
      /\ m_currentMerkleBlock \in tree \cup {NoBlock} /\ vault \in SoundVaults(tree)
  BY DEF Inv, QueueOK, VaultOK
<1>15. m_bHeadersSynched' \in BOOLEAN => FlagsOK'
  BY <1>1, <1>3, FlagsAfter DEF Inv, FlagsOK
<1> HIDE DEF b, asked
<1>8. ASSUME NEW T \in SUBSET Blocks, b \in T, tree' = T, tree \subseteq T, SetQueue(s), SetCurrent(b)
      PROVE  QueueOK' /\ VaultOK' /\ Returns
  <2>1. vault \in SoundVaults(T)
    BY <1>7, <1>8, VaultsGrow
  <2>2. s \in States(T, b, vault) /\ (TxsOf(b) = <<>> => s.q = <<>>)
    BY <1>7, <1>8, <2>1, SyncMerkleBlockGood
  <2>3. s \in States(tree', b, vault)
    BY <1>8, <2>2
  <2>4. m_currentMerkleBlock' \in tree' \cup {NoBlock}
    BY <1>7, <1>8 DEF SetCurrent
  <2>5. s.q = <<>> \/ (m_currentMerkleBlock' = b /\ b # NoBlock)
    BY <1>2, <1>4, <1>8, <2>2 DEF SetCurrent
  <2> HIDE DEF s
  <2> QED
    BY <1>8, <2>3, <2>4, <2>5, SetQueueGood
<1> HIDE DEF s
<1>9. CASE Requested
  <2>1. b \in tree
    BY <1>2, <1>4, <1>9 DEF HashesOK
  <2>2. tree' = tree /\ tip' = tip /\ m_bHeadersSynched' = m_bHeadersSynched
    BY <1>9 DEF treeVars
  <2>3. QueueOK' /\ VaultOK' /\ Returns
    BY <1>4, <1>8, <1>9, <2>1, <2>2
  <2>4. Asks
    <3>1. CASE s.q = <<>>
      BY <1>4, <1>5, <1>9, <2>1, <3>1, AdvanceAsks
    <3>2. CASE s.q # <<>>
      BY <1>4, <1>5, <1>9, <3>2 DEF Asks, HashesOK
    <3> QED
      BY <3>1, <3>2
  <2>5. HashesOK' /\ WireOK'
    BY <1>2, <1>3, <1>4, <2>2, <2>4, AsksGood DEF HashesOK
  <2>6. TreeOK' /\ FlagsOK'
    BY <1>4, <1>15, <2>2 DEF Inv, TreeOK, FlagsOK
  <2> QED
    BY <1>2, <2>3, <2>5, <2>6 DEF Inv
<1>10. CASE Extending
  <2>1. Closed(tree \cup {b})
    BY <1>2, <1>4, <1>10, ExtendsCloses
  <2>2. tree' = tree \cup {b} /\ tip' \in tree' /\ tree \subseteq tree' /\ tree' \subseteq Blocks
    BY <1>2, <1>4, <1>10 DEF Heavier
  <2>3. TreeOK'
    BY <2>1, <2>2 DEF TreeOK
  <2>4. QueueOK' /\ VaultOK' /\ Returns
    <3>1. CASE m_lastSynchedMerkleBlockHash = tip
      BY <1>8, <1>10, <2>2, <3>1
    <3>2. CASE m_lastSynchedMerkleBlockHash # tip
      <4>1. UNCHANGED <<txVars, vault>>
        BY <1>10, <3>2
      <4> QED
        BY <2>2, <4>1, QueueStays
    <3> QED
      BY <3>1, <3>2
  <2>5. HashesOK'
    <3>1. m_lastSynchedMerkleBlockHash' \in {tip, tip', m_lastSynchedMerkleBlockHash}
      BY <1>10
    <3>2. m_lastRequestedMerkleBlockHash' = m_lastRequestedMerkleBlockHash
      BY <1>10
    <3> QED
      BY <1>3, <1>4, <2>2, <3>1, <3>2 DEF HashesOK
  <2>6. WireOK'
    <3>1. Requests(tree) \subseteq Requests(tree')
      BY <2>2, WireGrows
    <3>2. toPeer' \in Seq(Requests(tree'))
      BY <1>5, <1>10, <3>1, SeqGrows
    <3> QED
      BY <1>2, <2>2, <3>2, WireStays
  <2>7. FlagsOK'
    BY <1>10, <1>15 DEF Inv, FlagsOK
  <2> QED
    BY <1>2, <2>3, <2>4, <2>5, <2>6, <2>7 DEF Inv
<1>11. CASE Other
  <2>1. /\ tree' = tree /\ tip' = tip /\ UNCHANGED <<txVars, vault>> /\ UNCHANGED blockVars
        /\ tree \subseteq tree'
    BY <1>3, <1>11 DEF treeVars, blockVars
  <2>2. QueueOK' /\ VaultOK' /\ Returns
    BY <2>1, QueueStays
  <2>3. HashesOK'
    BY <2>1, HashesStay
  <2>4. toPeer' \in Seq(Requests(tree'))
    BY <1>5, <1>11, <2>1
  <2>5. WireOK'
    BY <1>2, <2>1, <2>4, WireStays
  <2>6. TreeOK' /\ FlagsOK'
    <3>1. m_bHeadersSynched' \in BOOLEAN
      BY <1>11 DEF Inv, FlagsOK
    <3> QED
      BY <1>4, <1>15, <2>1, <3>1 DEF TreeOK
  <2> QED
    BY <1>2, <2>2, <2>3, <2>5, <2>6 DEF Inv
<1> QED
  BY <1>6, <1>9, <1>10, <1>11

(* The queue as a handler finds it. *)
LEMMA QueueGood ==
    ASSUME Inv, NEW b, b = m_currentMerkleBlock
    PROVE  Queue \in States(tree, b, vault)
<1>1. /\ m_currentMerkleTxHashes \in Seq(Ours) /\ m_currentMerkleTxIndex \in Nat
      /\ m_mempoolTxs \in SUBSET Ours /\ vault \in SoundVaults(tree)
      /\ RestOf(b, m_currentMerkleTxHashes, m_currentMerkleTxIndex)
  BY DEF Inv, QueueOK, VaultOK
<1> QED
  BY <1>1, StartsGood DEF Queue

(* processBlockTx. *)
LEMMA ProcessBlockTxOK ==
    ASSUME Inv, NEW t \in Ours, UNCHANGED treeVars, m_currentMerkleTxHashes # <<>>,
           m_currentMerkleBlock' = m_currentMerkleBlock, ProcessBlockTx(t)
    PROVE  /\ QueueOK' /\ VaultOK' /\ Returns /\ Asks
           /\ m_lastRequestedBlockHash' \in tree \cup {NoBlock} /\ m_bMissingTxs' \in BOOLEAN
<1> DEFINE b == m_currentMerkleBlock
           s == MempoolConfirmations(b, Queue)
           u == MempoolConfirmations(b, InsertFront(b, s, t))
           r == IF s.q # <<>> /\ t = Head(s.q) THEN u ELSE s
           fetch == /\ s.q # <<>> /\ t # Head(s.q)
                    /\ m_lastRequestedMerkleBlockHash # NoBlock
                    /\ m_lastRequestedBlockHash # m_lastRequestedMerkleBlockHash
<1>1. /\ b \in tree /\ b # NoBlock /\ tree \in SUBSET Blocks
      /\ TreeOK /\ HashesOK /\ toPeer \in Seq(Requests(tree))
  BY NetSyncAssumption DEF Inv, QueueOK, TreeOK, WireOK
<1>2. /\ SetQueue(r)
      /\ IF fetch
         THEN /\ m_bMissingTxs' = TRUE
              /\ m_lastRequestedBlockHash' = m_lastRequestedMerkleBlockHash
              /\ toPeer' = Append(toPeer, <<"getblock", m_lastRequestedMerkleBlockHash>>)
              /\ UNCHANGED <<m_lastRequestedMerkleBlockHash, m_lastSynchedMerkleBlockHash>>
         ELSE /\ IF r.q = <<>>
                 THEN Advance(b, toPeer)
                 ELSE UNCHANGED <<m_lastRequestedMerkleBlockHash,
                                  m_lastSynchedMerkleBlockHash, toPeer>>
              /\ UNCHANGED <<m_bMissingTxs, m_lastRequestedBlockHash>>
  BY DEF ProcessBlockTx
<1>3. Queue \in States(tree, b, vault)
  BY QueueGood
<1>4. m_currentMerkleBlock' = b /\ tree' = tree
  BY DEF treeVars
<1> HIDE DEF b
<1>5. s \in States(tree, b, vault)
  BY <1>1, <1>3, MempoolGood
<1> HIDE DEF s
<1>6. ASSUME s.q # <<>>, t = Head(s.q) PROVE u \in States(tree, b, vault)
  <2>1. InsertFront(b, s, t) \in States(tree, b, vault)
    BY <1>1, <1>5, <1>6, InsertFrontGood
  <2> QED
    BY <1>1, <2>1, MempoolGood
<1> HIDE DEF u
<1>7. r \in States(tree', b, vault)
  BY <1>4, <1>5, <1>6
<1> HIDE DEF r
<1>8. QueueOK' /\ VaultOK' /\ Returns
  BY <1>1, <1>2, <1>4, <1>7, SetQueueGood
<1> HIDE DEF fetch
<1>9. CASE fetch
  <2>1. m_lastRequestedMerkleBlockHash \in tree
    BY <1>1, <1>9 DEF fetch, HashesOK
  <2>2. <<"getblock", m_lastRequestedMerkleBlockHash>> \in Requests(tree)
    BY <1>1, <2>1 DEF Requests
  <2> QED
    BY <1>1, <1>2, <1>8, <1>9, <2>1, <2>2 DEF Asks, HashesOK
<1>10. CASE ~ fetch
  <2>1. Asks
    <3>1. CASE r.q = <<>>
      BY <1>1, <1>2, <1>10, <3>1, AdvanceAsks
    <3>2. CASE r.q # <<>>
      BY <1>1, <1>2, <1>10, <3>2 DEF Asks, HashesOK
    <3> QED
      BY <3>1, <3>2
  <2>2. m_lastRequestedBlockHash' \in tree \cup {NoBlock} /\ m_bMissingTxs' \in BOOLEAN
    BY <1>1, <1>2, <1>10 DEF HashesOK, Inv, FlagsOK
  <2> QED
    BY <1>8, <2>1, <2>2
<1> QED
  BY <1>9, <1>10

(* tx: a transaction of a block, one of the mempool, or one that a whole    *)
(* block will bring.                                                        *)
LEMMA OnTxOK == Inv /\ OnTx => Inv' /\ Returns
<1> SUFFICES ASSUME Inv, OnTx PROVE Inv' /\ Returns
  OBVIOUS
<1> DEFINE t == Head(toUs)[2]
<1>1. Receive("tx")
  BY DEF OnTx
<1>2. t \in Ours /\ toUs' \in Seq(Messages(tree)) /\ PeerOK'
  BY <1>1, ReceiveOK
<1>3. /\ m_bHeadersSynched' = m_bHeadersSynched /\ UNCHANGED treeVars /\ tree' = tree /\ tip' = tip
      /\ m_currentMerkleBlock' = m_currentMerkleBlock
      /\ m_bInsertMerkleBlocks' = m_bInsertMerkleBlocks
  BY DEF OnTx, treeVars
<1>4. TreeOK'
  BY <1>3 DEF Inv, TreeOK
<1>5. SUFFICES /\ QueueOK' /\ VaultOK' /\ Returns /\ Asks
               /\ m_lastRequestedBlockHash' \in tree \cup {NoBlock} /\ m_bMissingTxs' \in BOOLEAN
  <2>1. HashesOK' /\ WireOK'
    BY <1>2, <1>3, <1>5, AsksGood
  <2>2. FlagsOK'
    BY <1>1, <1>3, <1>5, FlagsAfter DEF Inv, FlagsOK
  <2> QED
    BY <1>2, <1>4, <1>5, <2>1, <2>2 DEF Inv
<1>6. CASE /\ m_currentMerkleTxHashes = <<>>
           /\ m_mempoolTxs' = m_mempoolTxs \cup {t}
           /\ vault' = IF vaultOpen THEN InsertNewTx(vault, t) ELSE vault
           /\ UNCHANGED <<m_currentMerkleTxHashes, m_currentMerkleTxIndex, blockVars,
                          m_bMissingTxs, toPeer>>
  <2> HIDE DEF t
  <2>1. vault \in SoundVaults(tree) /\ tree \in SUBSET Blocks
    BY DEF Inv, VaultOK, TreeOK
  <2>2. /\ vault' \in SoundVaults(tree)
        /\ \A x \in DOMAIN vault.conf : vault'.conf[x] = vault.conf[x]
    <3>1. CASE vaultOpen
      BY <1>2, <1>6, <2>1, <3>1, NewTxSound
    <3>2. CASE ~ vaultOpen
      BY <1>6, <2>1, <3>2
    <3> QED
      BY <3>1, <3>2
  <2>3. VaultOK' /\ Returns
    BY <1>3, <2>2 DEF VaultOK, Returns
  <2>4. QueueOK'
    BY <1>2, <1>3, <1>6 DEF Inv, QueueOK, RestOf
  <2>5. Asks /\ m_lastRequestedBlockHash' \in tree \cup {NoBlock} /\ m_bMissingTxs' \in BOOLEAN
    BY <1>6 DEF Inv, Asks, HashesOK, WireOK, FlagsOK, blockVars
  <2> QED
    BY <2>3, <2>4, <2>5
<1>7. CASE m_currentMerkleTxHashes # <<>> /\ ~ m_bMissingTxs /\ ProcessBlockTx(t)
  <2> HIDE DEF t
  <2> QED
    BY <1>2, <1>3, <1>7, ProcessBlockTxOK
<1>8. CASE UNCHANGED <<m_mempoolTxs, m_currentMerkleTxHashes, m_currentMerkleTxIndex,
                       vault, blockVars, m_bMissingTxs, toPeer>>
  <2>1. tree \subseteq tree' /\ UNCHANGED <<txVars, vault>>
    BY <1>3, <1>8 DEF txVars
  <2>2. QueueOK' /\ VaultOK' /\ Returns
    BY <2>1, QueueStays
  <2>3. Asks /\ m_lastRequestedBlockHash' \in tree \cup {NoBlock} /\ m_bMissingTxs' \in BOOLEAN
    BY <1>8 DEF Inv, Asks, HashesOK, WireOK, FlagsOK, blockVars
  <2> QED
    BY <2>2, <2>3
<1> QED
  BY <1>6, <1>7, <1>8 DEF OnTx

(* block: the whole block that was fetched, or another. *)
LEMMA OnBlockOK == Inv /\ OnBlock => Inv' /\ Returns
<1> SUFFICES ASSUME Inv, OnBlock PROVE Inv' /\ Returns
  OBVIOUS
<1> DEFINE b == Head(toUs)[2]
           s == ScanBlock(b)
<1>1. Receive("block")
  BY DEF OnBlock
<1>2. b \in Blocks /\ toUs' \in Seq(Messages(tree)) /\ PeerOK'
  BY <1>1, ReceiveOK
<1>3. /\ m_bHeadersSynched' = m_bHeadersSynched /\ UNCHANGED treeVars /\ tree' = tree /\ tip' = tip
      /\ m_currentMerkleBlock' = m_currentMerkleBlock
      /\ m_lastRequestedBlockHash' = m_lastRequestedBlockHash
      /\ m_bInsertMerkleBlocks' = m_bInsertMerkleBlocks
  BY DEF OnBlock, treeVars
<1>4. TreeOK'
  BY <1>3 DEF Inv, TreeOK
<1>5. SUFFICES QueueOK' /\ VaultOK' /\ Returns /\ Asks /\ m_bMissingTxs' \in BOOLEAN
  <2>1. HashesOK' /\ WireOK'
    BY <1>2, <1>3, <1>5, AsksGood DEF Inv, HashesOK
  <2>2. FlagsOK'
    BY <1>1, <1>3, <1>5, FlagsAfter DEF Inv, FlagsOK
  <2> QED
    BY <1>2, <1>4, <1>5, <2>1, <2>2 DEF Inv
<1>6. CASE m_bMissingTxs /\ m_currentMerkleBlock = b
  <2>1. /\ b \in tree /\ b # NoBlock /\ tree \in SUBSET Blocks
        /\ TreeOK /\ HashesOK /\ toPeer \in Seq(Requests(tree))
    BY <1>2, <1>6, NetSyncAssumption DEF Inv, QueueOK, TreeOK, WireOK
  <2>2. /\ SetQueue(s)
        /\ IF s.q = <<>>
           THEN m_bMissingTxs' = FALSE /\ Advance(b, toPeer)
           ELSE UNCHANGED <<m_bMissingTxs, m_lastRequestedMerkleBlockHash,
                            m_lastSynchedMerkleBlockHash, toPeer>>
    BY <1>6 DEF OnBlock
  <2> HIDE DEF b
  <2>3. Queue \in States(tree, b, vault)
    BY <1>6, QueueGood
  <2>4. s \in States(tree, b, vault) /\ s.q = <<>>
    BY <2>1, <2>3, ScanGood
  <2> HIDE DEF s
  <2>5. s \in States(tree', b, vault) /\ m_currentMerkleBlock' \in tree' \cup {NoBlock}
    BY <1>3, <1>6, <2>1, <2>4
  <2>6. QueueOK' /\ VaultOK' /\ Returns
    BY <2>2, <2>4, <2>5, SetQueueGood
  <2>7. Asks
    BY <2>1, <2>2, <2>4, AdvanceAsks
  <2> QED
    BY <2>2, <2>4, <2>6, <2>7
<1>7. CASE ~ (m_bMissingTxs /\ m_currentMerkleBlock = b)
  <2>1. UNCHANGED <<m_mempoolTxs, m_currentMerkleTxHashes, m_currentMerkleTxIndex, vault,
                    m_bMissingTxs, m_lastRequestedMerkleBlockHash,
                    m_lastSynchedMerkleBlockHash, toPeer>>
    BY <1>7 DEF OnBlock
  <2>2. tree \subseteq tree' /\ UNCHANGED <<txVars, vault>>
    BY <1>3, <2>1 DEF txVars
  <2>3. QueueOK' /\ VaultOK' /\ Returns
    BY <2>2, QueueStays
  <2>4. Asks /\ m_bMissingTxs' \in BOOLEAN
    BY <2>1 DEF Inv, Asks, HashesOK, WireOK, FlagsOK
  <2> QED
    BY <2>3, <2>4
<1> QED
  BY <1>6, <1>7

-----------------------------------------------------------------------------
(* The theorems.                                                            *)

(* Every step keeps the invariant, and returns what it pushes off. *)
LEMMA NextOK == Inv /\ [Next]_vars => Inv' /\ Returns
<1> SUFFICES ASSUME Inv, [Next]_vars PROVE Inv' /\ Returns
  OBVIOUS
<1>1. CASE OnInv \/ OnHeaders \/ OnMerkleBlock \/ OnTx \/ OnBlock
  BY <1>1, OnInvOK, OnHeadersOK, OnMerkleBlockOK, OnTxOK, OnBlockOK
<1>2. CASE PeerReplies \/ PeerMines \/ PeerRelays
  BY <1>2, PeerRepliesOK, PeerAnnouncesOK
<1>3. CASE Open \/ Stop \/ CloseVault \/ OpenVault \/ OpenVaultFails
  BY <1>3, OpenOK, StopOK, CloseVaultOK, OpenVaultOK, OpenVaultFailsOK
<1>4. CASE UNCHANGED vars
  <2>1. /\ tree' = tree /\ tip' = tip /\ tree \subseteq tree' /\ UNCHANGED <<txVars, vault>>
        /\ UNCHANGED blockVars
    BY <1>4 DEF vars, treeVars
  <2>2. QueueOK' /\ VaultOK' /\ Returns
    BY <2>1, QueueStays
  <2>3. HashesOK'
    BY <2>1, HashesStay
  <2>4. FlagsOK' /\ TreeOK' /\ PeerOK' /\ WireOK'
    BY <1>4, <2>1 DEF vars, userVars, peerVars, Inv, FlagsOK, TreeOK, PeerOK, WireOK
  <2> QED
    BY <2>2, <2>3, <2>4 DEF Inv
<1> QED
  BY <1>1, <1>2, <1>3, <1>4 DEF Next, Handlers, Peer, User

(* The inductive invariant: besides the properties, the tree has the path   *)
(* to each of its blocks, and headers on their way connect to it.           *)
THEOREM InvHolds == Spec => []Inv
<1>1. Inv /\ [Next]_vars => Inv'
  BY NextOK
<1> QED
  BY <1>1, InitOK, PTL DEF Spec

(* The flags, hashes, queues and the vault have their types. *)
THEOREM TypeCorrect == Spec => []TypeOK
<1>1. Inv => TypeOK
  BY InvSuffices
<1> QED
  BY <1>1, InvHolds, PTL

(* m_currentMerkleTxHashes is the rest of the current block's transactions  *)
(* from m_currentMerkleTxIndex on, through every interleaving of the        *)
(* handlers, stop and the vaults.                                           *)
THEOREM QueueHolds == Spec => []QueueIsRestOfBlock
<1>1. Inv => QueueIsRestOfBlock
  BY InvSuffices
<1> QED
  BY <1>1, InvHolds, PTL

(* The vault's merkle blocks form a path of the tree. *)
THEOREM VaultHolds == Spec => []VaultIsChain
<1>1. Inv => VaultIsChain
  BY InvSuffices
<1> QED
  BY <1>1, InvHolds, PTL

(* The block handler's "should never happen" never does: a fetched block    *)
(* empties the queue.                                                       *)
THEOREM BlockCompletesHolds == Spec => []BlockCompletesQueue
<1>1. Inv => BlockCompletesQueue
  <2> SUFFICES ASSUME Inv, NEW b \in Blocks, m_currentMerkleBlock = b
               PROVE  ScanBlock(b).q = <<>>
    BY DEF BlockCompletesQueue
  <2>1. b \in tree /\ tree \in SUBSET Blocks
    BY NetSyncAssumption DEF Inv, QueueOK, TreeOK
  <2>2. Queue \in States(tree, b, vault)
    BY QueueGood
  <2> QED
    BY <2>1, <2>2, ScanGood
<1> QED
  BY <1>1, InvHolds, PTL

(* A transaction that a step unconfirms is in the mempool after it. *)
THEOREM PushedOffHolds == Spec => PushedOffGoesToMempool
<1>1. Inv /\ [Next]_vars => [Returns]_vars
  BY NextOK
<1>2. [Returns]_vars =>
        [\A t \in DOMAIN vault.conf \cap DOMAIN vault'.conf :
           vault.conf[t] # NoBlock /\ vault'.conf[t] = NoBlock => t \in m_mempoolTxs']_vars
  BY DEF Returns
<1> QED
  BY <1>1, <1>2, InvHolds, PTL DEF Spec, PushedOffGoesToMempool

-----------------------------------------------------------------------------
(* Complete blocks and their confirmed transactions.                        *)

(* The path to a block has the path to its parent. *)
LEMMA ParentPath ==
    ASSUME NEW d \in Blocks, d # Genesis
    PROVE  Range(Path[Parent(d)]) \subseteq Range(Path[d])
<1> DEFINE i == Height(d)
<1>1. /\ Path[d] \in Seq(Blocks) /\ Len(Path[d]) = i + 1 /\ i \in Nat /\ i > 0
      /\ Parent(d) = Path[d][i]
  BY Heights DEF Parent
<1> HIDE DEF i
<1>2. i \in 1 .. Len(Path[d])
  BY <1>1
<1>3. Len(Path[Path[d][i]]) = i /\ \A j \in 1 .. i : Path[Path[d][i]][j] = Path[d][j]
  BY <1>2, PathPrefix
<1>4. Parent(d) \in Blocks /\ Path[Parent(d)] \in Seq(Blocks)
  BY Heights
<1>5. DOMAIN Path[Parent(d)] = 1 .. i /\ 1 .. i \subseteq DOMAIN Path[d]
  BY <1>1, <1>3, <1>4
<1> QED
  BY <1>1, <1>3, <1>5 DEF Range

(* Of two blocks of a vault's chain, the lower one is on the path to the    *)
(* other.                                                                   *)
LEMMA LowerOnPath ==
    ASSUME NEW C \in SUBSET Blocks, IsPath(C), NEW b \in C, NEW c \in C, Height(c) <= Height(b)
    PROVE  c \in Range(Path[b])
<1> DEFINE n == Height(b) - Height(c)
           P == {k \in 0 .. n : \A d \in C : Height(d) = Height(c) + k => c \in Range(Path[d])}
<1>1. \A d \in C : d \in Blocks /\ Height(d) \in Nat
  BY Heights
<1>2. n \in Nat /\ Height(b) = Height(c) + n
  BY <1>1
<1> HIDE DEF n
<1>3. 0 \in P
  <2>1. c \in Range(Path[c])
    <3>1. /\ Path[c] \in Seq(Blocks) /\ Len(Path[c]) = Height(c) + 1 /\ Height(c) \in Nat
          /\ Path[c][Height(c) + 1] = c
      BY Heights
    <3>2. Height(c) + 1 \in DOMAIN Path[c]
      BY <3>1
    <3> QED
      BY <3>1, <3>2 DEF Range
  <2>2. \A d \in C : Height(d) = Height(c) + 0 => d = c
    BY <1>1 DEF IsPath
  <2> QED
    BY <1>2, <2>1, <2>2
<1>4. ASSUME NEW k \in 0 .. n, k \in P, k < n PROVE k + 1 \in P
  <2>1. k + 1 \in 0 .. n
    BY <1>2, <1>4
  <2>2. ASSUME NEW d \in C, Height(d) = Height(c) + (k + 1) PROVE c \in Range(Path[d])
    <3>1. Height(c) < Height(d) /\ d # Genesis
      BY <1>1, <2>2, GenesisHeight
    <3>2. Parent(d) \in C
      BY <3>1 DEF IsPath
    <3>3. Height(Parent(d)) = Height(d) - 1
      BY <1>1, <3>1, Heights
    <3>4. Height(Parent(d)) = Height(c) + k
      BY <1>1, <2>2, <3>3
    <3>5. c \in Range(Path[Parent(d)])
      BY <1>4, <3>2, <3>4
    <3> QED
      BY <1>1, <3>1, <3>5, ParentPath
  <2> QED
    BY <2>1, <2>2
<1> HIDE DEF P
<1>5. n \in P
  BY <1>2, <1>3, <1>4, Induction
<1> QED
  BY <1>2, <1>5 DEF P

(* What a block has of ours is in the block. *)
LEMMA TxsInBlock ==
    ASSUME NEW b \in Blocks
    PROVE  Range(TxsOf(b)) \subseteq Range(BlockTxs[b]) \cap Ours
<1> DEFINE q == TxsOf(b)
           s == BlockTxs[b]
<1>1. q \in Seq(Ours) /\ Embeds(q, s, 0, Len(s)) /\ s \in Seq(Range(s))
  BY TxsOfBlock, NetSyncAssumption
<1> HIDE DEF q, s
<1>2. PICK e \in [1 .. Len(q) -> (0 + 1) .. Len(s)] : \A i \in 1 .. Len(q) : s[e[i]] = q[i]
  BY <1>1 DEF Embeds
<1>3. DOMAIN q = 1 .. Len(q) /\ DOMAIN s = 1 .. Len(s) /\ Len(q) \in Nat /\ Len(s) \in Nat
  BY <1>1
<1>4. ASSUME NEW i \in 1 .. Len(q) PROVE q[i] \in Range(s) /\ q[i] \in Ours
  <2>1. e[i] \in DOMAIN s /\ s[e[i]] = q[i]
    BY <1>2, <1>3
  <2> QED
    BY <1>1, <1>3, <2>1 DEF Range
<1>5. Range(q) \subseteq Range(s) \cap Ours
  BY <1>3, <1>4 DEF Range
<1> QED
  BY <1>5 DEF q, s

(* Two blocks of a vault's chain have no transaction in common. *)
LEMMA TxsApart ==
    ASSUME NEW C \in SUBSET Blocks, IsPath(C), NEW b \in C, NEW c \in C, b # c
    PROVE  Range(TxsOf(b)) \cap Range(TxsOf(c)) = {}
<1>1. Height(b) \in Nat /\ Height(c) \in Nat
  BY Heights
<1>2. c \in Range(Path[b]) \/ b \in Range(Path[c])
  BY <1>1, LowerOnPath
<1>3. Range(BlockTxs[b]) \cap Range(BlockTxs[c]) \cap Ours = {}
  BY <1>2, TxsAssumption
<1>4. /\ Range(TxsOf(b)) \subseteq Range(BlockTxs[b]) \cap Ours
      /\ Range(TxsOf(c)) \subseteq Range(BlockTxs[c]) \cap Ours
  BY TxsInBlock
<1> QED
  BY <1>3, <1>4

(* CompleteMeansConfirmed, for any vault. *)
Sure(v) ==
    \A c \in v.complete : \A t \in Range(TxsOf(c)) : t \in DOMAIN v.conf /\ v.conf[t] = c

(* If the vault has the block b, its first i transactions are confirmed. *)
UpTo(b, v, i) ==
    b \in v.chain =>
        \A j \in 1 .. i : TxsOf(b)[j] \in DOMAIN v.conf /\ v.conf[TxsOf(b)[j]] = b

(* The blocks that stay keep their transactions. *)
LEMMA AttachSure ==
    ASSUME NEW T \in SUBSET Blocks, NEW v \in SoundVaults(T), Sure(v), NEW b,
           NEW w \in {Cut(v, b), PushOff(v, b)}
    PROVE  Sure(Attach(v, b, w))
<1>1. /\ v = [chain |-> v.chain, complete |-> v.complete, conf |-> v.conf]
      /\ v.complete \subseteq v.chain
  BY VaultFields
<1> DEFINE K == Kept(v, b)
           D == v.complete \cap K
           f == [t \in DOMAIN v.conf |-> IF v.conf[t] \in v.chain \ K THEN NoBlock ELSE v.conf[t]]
           x == [chain |-> K, complete |-> D, conf |-> v.conf]
           y == [chain |-> K, complete |-> D, conf |-> f]
<1>2. Cut(v, b) = x
  <2>1. Cut(v, b) = [v EXCEPT !.chain = K, !.complete = v.complete \cap K]
    BY DEF Cut
  <2> HIDE DEF K, D
  <2> DEFINE z == [v EXCEPT !.chain = K, !.complete = D]
  <2>2. z \in [chain : {K}, complete : {D}, conf : {v.conf}]
    BY ONLY <1>1
  <2> QED
    BY <2>1, <2>2 DEF D
<1>3. PushOff(v, b) = y
  <2>1. PushOff(v, b) = [x EXCEPT !.conf = f]
    BY <1>2 DEF PushOff
  <2> HIDE DEF f, K, D
  <2>2. [x EXCEPT !.conf = f] = y
    OBVIOUS
  <2> QED
    BY <2>1, <2>2
<1>4. CASE b \in v.chain
  BY <1>4 DEF Attach
<1>5. CASE b \notin v.chain
  <2>1. ASSUME NEW g, w = [chain |-> K, complete |-> D, conf |-> g]
        PROVE  Attach(v, b, w).complete = D /\ Attach(v, b, w).conf = g
    <3> HIDE DEF K, D
    <3>1. Attach(v, b, w) = [w EXCEPT !.chain = @ \cup {b}]
      BY <1>5 DEF Attach
    <3> QED
      BY <2>1, <3>1
  <2>2. ASSUME NEW c \in D, NEW t \in Range(TxsOf(c))
        PROVE  t \in DOMAIN v.conf /\ v.conf[t] = c /\ t \in DOMAIN f /\ f[t] = c
    <3>1. t \in DOMAIN v.conf /\ v.conf[t] = c /\ c \in K
      BY <2>2 DEF Sure
    <3> HIDE DEF K
    <3> QED
      BY <3>1
  <2>3. w = x \/ w = y
    BY <1>2, <1>3
  <2> HIDE DEF K, D, f
  <2>4. CASE w = x
    BY <2>1, <2>2, <2>4 DEF Sure
  <2>5. CASE w = y
    BY <2>1, <2>2, <2>5 DEF Sure
  <2> QED
    BY <2>3, <2>4, <2>5
<1> QED
  BY <1>4, <1>5

(* The next transaction of the block is confirmed, and the block completed  *)
(* with its last: no other block loses one by it.                           *)
LEMMA ConfirmSure ==
    ASSUME NEW T \in SUBSET Blocks, NEW b \in T, NEW v \in SoundVaults(T), b \in v.chain,
           NEW i \in Nat, i + 1 \in 1 .. Len(TxsOf(b)), NEW t, t = TxsOf(b)[i + 1],
           NEW known, known \subseteq {t}, t \in DOMAIN v.conf \cup known,
           Sure(v), UpTo(b, v, i)
    PROVE  LET w == Complete(Confirm(v, b, known, t), b, i)
           IN  Sure(w) /\ UpTo(b, w, i + 1)
<1> DEFINE w == Complete(Confirm(v, b, known, t), b, i)
           E == DOMAIN v.conf \cup known
           f == [x \in E |-> IF x = t THEN b ELSE v.conf[x]]
           u == [chain |-> v.chain, complete |-> v.complete, conf |-> f]
           z == [chain |-> v.chain, complete |-> v.complete \cup {b}, conf |-> f]
           X == TxsOf(b)
<1>1. /\ v = [chain |-> v.chain, complete |-> v.complete, conf |-> v.conf]
      /\ v.chain \subseteq T /\ v.complete \subseteq v.chain /\ IsPath(v.chain)
  BY VaultFields
<1>2. X \in Seq(Ours) /\ DOMAIN X = 1 .. Len(X) /\ Len(X) \in Nat
  BY TxsOfBlock
<1>3. Confirm(v, b, known, t) = u
  <2> HIDE DEF f
  <2>1. [v EXCEPT !.conf = f] = u
    BY ONLY <1>1
  <2> QED
    BY ONLY <2>1 DEF Confirm, f
<1>4. IF i + 1 = Len(X) THEN w = z ELSE w = u
  <2>1. [u EXCEPT !.complete = u.complete \cup {b}] = z
    <3> HIDE DEF f
    <3> DEFINE Y == v.complete \cup {b}
    <3>1. u.complete \cup {b} = Y
      OBVIOUS
    <3> HIDE DEF Y
    <3>2. [u EXCEPT !.complete = Y] = [chain |-> v.chain, complete |-> Y, conf |-> f]
      OBVIOUS
    <3> QED
      BY <3>1, <3>2 DEF Y
  <2>2. w = Complete(u, b, i)
    BY ONLY <1>3, Zenon
  <2> HIDE DEF u, z
  <2> QED
    BY <2>1, <2>2 DEF Complete
<1>5. DOMAIN f = E /\ t \in E /\ f[t] = b /\ \A x \in DOMAIN v.conf \ {t} : x \in E /\ f[x] = v.conf[x]
  OBVIOUS
<1> HIDE DEF f
<1>6. /\ u.chain = v.chain /\ u.complete = v.complete /\ u.conf = f
      /\ z.chain = v.chain /\ z.complete = v.complete \cup {b} /\ z.conf = f
  OBVIOUS
<1> HIDE DEF u, z, w, E
<1>7. \A j \in 1 .. i + 1 : X[j] \in DOMAIN f /\ f[X[j]] = b
  <2> SUFFICES ASSUME NEW j \in 1 .. i + 1 PROVE X[j] \in DOMAIN f /\ f[X[j]] = b
    OBVIOUS
  <2>1. CASE X[j] = t
    BY <1>5, <2>1
  <2>2. CASE X[j] # t
    <3>1. j \in 1 .. i
      BY <2>2
    <3>2. X[j] \in DOMAIN v.conf /\ v.conf[X[j]] = b
      BY <3>1 DEF UpTo
    <3> QED
      BY <1>5, <2>2, <3>2
  <2> QED
    BY <2>1, <2>2
<1>8. UpTo(b, w, i + 1)
  BY <1>4, <1>6, <1>7 DEF UpTo
<1>9. ASSUME NEW c \in v.complete, NEW x \in Range(TxsOf(c)) PROVE x \in DOMAIN f /\ f[x] = c
  <2>1. x \in DOMAIN v.conf /\ v.conf[x] = c
    BY DEF Sure
  <2>2. CASE c = b
    BY <1>5, <2>1, <2>2
  <2>3. CASE c # b
    <3>1. t \in Range(X)
      BY <1>2 DEF Range
    <3>2. Range(TxsOf(b)) \cap Range(TxsOf(c)) = {}
      BY <1>1, <2>3, TxsApart
    <3> QED
      BY <1>5, <2>1, <3>1, <3>2
  <2> QED
    BY <2>2, <2>3
<1>10. i + 1 = Len(X) => \A x \in Range(X) : x \in DOMAIN f /\ f[x] = b
  BY <1>2, <1>7 DEF Range
<1>11. Sure(w)
  <2>1. CASE i + 1 = Len(X)
    <3>1. w.conf = f /\ w.complete = v.complete \cup {b}
      BY <1>4, <1>6, <2>1
    <3> QED
      BY <1>9, <1>10, <2>1, <3>1 DEF Sure
  <2>2. CASE i + 1 # Len(X)
    <3>1. w.conf = f /\ w.complete = v.complete
      BY <1>4, <1>6, <2>2
    <3> QED
      BY <1>9, <3>1 DEF Sure
  <2> QED
    BY <2>1, <2>2
<1> QED
  BY <1>8, <1>11 DEF w

(* insertMerkleTx, and confirmMerkleTx of a transaction the vault has. *)
LEMMA MerkleTxSure ==
    ASSUME NEW T \in SUBSET Blocks, NEW b \in T, NEW v \in SoundVaults(T),
           NEW i \in Nat, i + 1 \in 1 .. Len(TxsOf(b)), NEW t, t = TxsOf(b)[i + 1],
           Sure(v), UpTo(b, v, i), NEW w,
           \/ w = InsertMerkleTx(v, b, t, i)
           \/ w = ConfirmMerkleTx(v, b, t, i) /\ t \in DOMAIN v.conf
    PROVE  Sure(w) /\ UpTo(b, w, i + 1)
<1>1. CASE Refuses(v, b, i)
  <2>1. w = v /\ b \notin v.chain
    BY <1>1 DEF InsertMerkleTx, ConfirmMerkleTx, Refuses
  <2> QED
    BY <2>1 DEF UpTo
<1>2. CASE ~ Refuses(v, b, i)
  <2>1. b \in v.chain \/ (i = 0 /\ Connects(v, b))
    BY <1>2 DEF Refuses
  <2>2. PICK c \in {Cut(v, b), PushOff(v, b)}, known \in {{}, {t}} :
            /\ w = Complete(Confirm(Attach(v, b, c), b, known, t), b, i)
            /\ t \in DOMAIN v.conf \cup known
    BY <1>2 DEF InsertMerkleTx, ConfirmMerkleTx
  <2> DEFINE u == Attach(v, b, c)
  <2>3. u \in SoundVaults(T) /\ b \in u.chain /\ DOMAIN u.conf = DOMAIN v.conf
    BY <2>1, AttachSound
  <2>4. Sure(u)
    BY AttachSure
  <2>5. UpTo(b, u, i)
    <3>1. CASE b \in v.chain
      BY <3>1 DEF Attach
    <3>2. CASE b \notin v.chain
      BY <2>1, <3>2 DEF UpTo
    <3> QED
      BY <3>1, <3>2
  <2> HIDE DEF u
  <2>6. w = Complete(Confirm(u, b, known, t), b, i)
    BY <2>2 DEF u
  <2>7. t \in DOMAIN u.conf \cup known /\ known \subseteq {t}
    BY <2>2, <2>3
  <2> QED
    BY <2>3, <2>4, <2>5, <2>6, <2>7, ConfirmSure
<1> QED
  BY <1>1, <1>2

(* insertMerkleBlock: a block without transactions has none to confirm. *)
LEMMA MerkleBlockSure ==
    ASSUME NEW T \in SUBSET Blocks, NEW b \in T, NEW v \in SoundVaults(T), Sure(v),
           TxsOf(b) = <<>>
    PROVE  Sure(InsertMerkleBlock(v, b))
<1> DEFINE w == InsertMerkleBlock(v, b)
           u == Attach(v, b, PushOff(v, b))
<1>1. CASE b \in v.chain \/ ~ Connects(v, b) \/ b = Genesis
  BY <1>1 DEF InsertMerkleBlock
<1>2. CASE b \notin v.chain /\ Connects(v, b) /\ b # Genesis
  <2>1. PushOff(v, b) \in {Cut(v, b), PushOff(v, b)}
    OBVIOUS
  <2>2. u \in SoundVaults(T) /\ Sure(u)
    BY <1>2, <2>1, AttachSound, AttachSure
  <2>3. w = [u EXCEPT !.complete = @ \cup {b}]
    BY <1>2 DEF InsertMerkleBlock
  <2> HIDE DEF u, w
  <2>4. u = [chain |-> u.chain, complete |-> u.complete, conf |-> u.conf]
    BY <2>2, VaultFields
  <2>5. w.complete = u.complete \cup {b} /\ w.conf = u.conf
    BY ONLY <2>3, <2>4
  <2>6. Range(TxsOf(b)) = {}
    BY DEF Range
  <2>7. Sure(w)
    BY <2>2, <2>5, <2>6 DEF Sure
  <2> QED
    BY <2>7 DEF w
<1> QED
  BY <1>1, <1>2

(* A transaction that is not in a block confirms nothing. *)
LEMMA NewTxSure ==
    ASSUME NEW T \in SUBSET Blocks, NEW v \in SoundVaults(T), NEW t \in Ours, Sure(v)
    PROVE  LET w == InsertNewTx(v, t) IN Sure(w) /\ DOMAIN w.conf = DOMAIN v.conf \cup {t}
<1> DEFINE w == InsertNewTx(v, t)
<1>1. CASE t \in DOMAIN v.conf
  BY <1>1 DEF InsertNewTx
<1>2. CASE t \notin DOMAIN v.conf
  <2> DEFINE E == DOMAIN v.conf \cup {t}
             f == [x \in E |-> IF x = t THEN NoBlock ELSE v.conf[x]]
  <2>1. v = [chain |-> v.chain, complete |-> v.complete, conf |-> v.conf]
    BY VaultFields
  <2>2. DOMAIN f = E /\ \A x \in DOMAIN v.conf : x \in E /\ f[x] = v.conf[x]
    BY <1>2
  <2>3. w = [v EXCEPT !.conf = f]
    BY <1>2 DEF InsertNewTx
  <2> HIDE DEF f, E, w
  <2>4. w.complete = v.complete /\ w.conf = f
    BY ONLY <2>1, <2>3
  <2>5. Sure(w)
    BY <2>2, <2>4 DEF Sure
  <2> QED
    BY <2>2, <2>4, <2>5 DEF E, w
<1> QED
  BY <1>1, <1>2

(* The records of a handler, while the vault is open: what is in the        *)
(* mempool is in the vault, complete blocks have their transactions, and    *)
(* the block in the queue has them as far as the queue has come.            *)
Filled(b, s) ==
    /\ s.mem \subseteq DOMAIN s.v.conf
    /\ Sure(s.v)
    /\ s.q # <<>> => UpTo(b, s.v, s.i)

FilledStates(T, b, v) == {s \in States(T, b, v) : Filled(b, s)}

(* The front of the queue is the transaction at its index. *)
LEMMA FrontOfRest ==
    ASSUME NEW S, NEW X \in Seq(S), NEW i \in Nat, NEW q, q = SubSeq(X, i + 1, Len(X)), q # <<>>
    PROVE  i + 1 \in 1 .. Len(X) /\ Head(q) = X[i + 1]
<1>1. Len(X) \in Nat
  OBVIOUS
<1>2. i + 1 <= Len(X)
  OBVIOUS
<1> QED
  BY <1>1, <1>2

(* The front of the queue is handled. *)
LEMMA PopFilled ==
    ASSUME NEW T \in SUBSET Blocks, NEW b \in T, NEW v, NEW s \in FilledStates(T, b, v),
           s.q # <<>>, NEW t, t = Head(s.q), NEW w,
           \/ w = InsertMerkleTx(s.v, b, t, s.i)
           \/ w = ConfirmMerkleTx(s.v, b, t, s.i) /\ t \in s.mem
    PROVE  Filled(b, Pop(s, w, t))
<1>1. /\ s.q \in Seq(Ours) /\ s.i \in Nat /\ s.v \in SoundVaults(T) /\ RestOf(b, s.q, s.i)
      /\ s.mem \subseteq DOMAIN s.v.conf /\ Sure(s.v) /\ UpTo(b, s.v, s.i)
  BY DEF FilledStates, Filled, States, Records
<1>2. TxsOf(b) \in Seq(Ours) /\ t \in Ours
  BY <1>1, TxsOfBlock
<1>3. s.q = SubSeq(TxsOf(b), s.i + 1, Len(TxsOf(b)))
  BY <1>1 DEF RestOf
<1>4. s.i + 1 \in 1 .. Len(TxsOf(b)) /\ t = TxsOf(b)[s.i + 1]
  BY <1>1, <1>2, <1>3, FrontOfRest
<1>5. Sure(w) /\ UpTo(b, w, s.i + 1)
  BY <1>1, <1>4, MerkleTxSure
<1>6. DOMAIN s.v.conf \subseteq DOMAIN w.conf
  <2>1. Takes(s.v, b, t, w)
    BY <1>1, <1>2, MerkleTxSound
  <2> QED
    BY <2>1 DEF Takes
<1> DEFINE r == Pop(s, w, t)
<1>7. /\ r.i = s.i + 1 /\ r.v = w
      /\ r.mem = (s.mem \cup PushedOff(s.v, w)) \ {t}
  BY DEF Pop
<1> HIDE DEF r
<1>8. r.mem \subseteq DOMAIN w.conf
  BY <1>1, <1>6, <1>7 DEF PushedOff
<1>9. Filled(b, r)
  BY <1>5, <1>7, <1>8 DEF Filled
<1> QED
  BY <1>9 DEF r

(* A round of processMempoolConfirmations. *)
LEMMA ConfirmFrontFilled ==
    ASSUME NEW T \in SUBSET Blocks, NEW b \in T, NEW v, NEW s \in FilledStates(T, b, v), NEW t,
           vaultOpen
    PROVE  ConfirmFront(b, s, t) \in FilledStates(T, b, v)
<1>1. CASE s.q # <<>> /\ t = Head(s.q) /\ t \in s.mem
  <2> DEFINE w == ConfirmMerkleTx(s.v, b, t, s.i)
  <2>1. ConfirmFront(b, s, t) = Pop(s, w, t)
    BY <1>1 DEF ConfirmFront
  <2>2. Filled(b, Pop(s, w, t))
    BY <1>1, PopFilled
  <2>3. ConfirmFront(b, s, t) \in States(T, b, v)
    BY ConfirmFrontGood DEF FilledStates
  <2> HIDE DEF w
  <2> QED
    BY <2>1, <2>2, <2>3 DEF FilledStates
<1>2. CASE ~ (s.q # <<>> /\ t = Head(s.q) /\ t \in s.mem)
  BY <1>2 DEF ConfirmFront
<1> QED
  BY <1>1, <1>2

(* notifyMerkleTx for the front of the queue. *)
LEMMA InsertFrontFilled ==
    ASSUME NEW T \in SUBSET Blocks, NEW b \in T, NEW v, NEW s \in FilledStates(T, b, v),
           s.q # <<>>, NEW t, t = Head(s.q), vaultOpen
    PROVE  InsertFront(b, s, t) \in FilledStates(T, b, v)
<1> DEFINE w == InsertMerkleTx(s.v, b, t, s.i)
<1>1. InsertFront(b, s, t) = Pop(s, w, t)
  BY DEF InsertFront
<1>2. Filled(b, Pop(s, w, t))
  BY PopFilled
<1>3. InsertFront(b, s, t) \in States(T, b, v)
  BY InsertFrontGood DEF FilledStates
<1> HIDE DEF w
<1> QED
  BY <1>1, <1>2, <1>3 DEF FilledStates

(* processMempoolConfirmations. *)
LEMMA MempoolFilled ==
    ASSUME NEW T \in SUBSET Blocks, NEW b \in T, NEW v, NEW s \in FilledStates(T, b, v), vaultOpen
    PROVE  MempoolConfirmations(b, s) \in FilledStates(T, b, v)
<1>1. Len(s.q) \in Nat
  BY DEF FilledStates, States, Records
<1>2. \A r \in FilledStates(T, b, v) : \A t : ConfirmFront(b, r, t) \in FilledStates(T, b, v)
  BY ConfirmFrontFilled
<1> QED
  BY <1>1, <1>2, MempoolLoop

(* The scan of a whole block. *)
LEMMA ScanFilled ==
    ASSUME NEW T \in SUBSET Blocks, NEW b \in T, NEW v, Queue \in FilledStates(T, b, v), vaultOpen
    PROVE  ScanBlock(b) \in FilledStates(T, b, v)
<1>1. \A r \in FilledStates(T, b, v) : \A t : ScanTx(b, r, t) \in FilledStates(T, b, v)
  BY InsertFrontFilled DEF ScanTx
<1>2. FilledStates(T, b, v) \in SUBSET States(T, b, v)
  BY DEF FilledStates
<1> QED
  BY <1>1, <1>2, ScanLoop

(* syncMerkleBlock: a queue that starts has confirmed nothing yet, and a    *)
(* block without transactions is complete at once.                          *)
LEMMA SyncMerkleBlockFilled ==
    ASSUME NEW T \in SUBSET Blocks, NEW b \in T, vault \in SoundVaults(T), vaultOpen,
           m_mempoolTxs \subseteq Ours, m_currentMerkleTxIndex \in Nat,
           m_mempoolTxs \subseteq DOMAIN vault.conf, Sure(vault)
    PROVE  Filled(b, SyncMerkleBlock(b))
<1>1. b \in Blocks /\ TxsOf(b) \in Seq(Ours)
  BY TxsOfBlock
<1>2. CASE TxsOf(b) # <<>>
  <2> DEFINE X == TxsOf(b)
             s == [q |-> X, i |-> 0, mem |-> m_mempoolTxs, v |-> vault]
  <2>1. SyncMerkleBlock(b) = MempoolConfirmations(b, s)
    BY <1>2 DEF SyncMerkleBlock
  <2>2. X \in Seq(Ours)
    BY <1>1
  <2> HIDE DEF X
  <2>3. SubSeq(X, 0 + 1, Len(X)) = X
    BY <2>2
  <2>4. RestOf(b, X, 0)
    BY <2>3 DEF RestOf, X
  <2>5. s \in States(T, b, vault)
    BY <2>2, <2>4, StartsGood
  <2>6. s.i = 0 /\ s.mem = m_mempoolTxs /\ s.v = vault
    OBVIOUS
  <2> HIDE DEF s
  <2>7. UpTo(b, s.v, s.i)
    BY <2>6 DEF UpTo
  <2>8. s \in FilledStates(T, b, vault)
    BY <2>5, <2>6, <2>7 DEF FilledStates, Filled
  <2>9. MempoolConfirmations(b, s) \in FilledStates(T, b, vault)
    BY <2>8, MempoolFilled
  <2> QED
    BY <2>1, <2>9 DEF FilledStates
<1>3. CASE TxsOf(b) = <<>> /\ ~ m_bInsertMerkleBlocks
  <2>1. /\ SyncMerkleBlock(b).q = <<>> /\ SyncMerkleBlock(b).mem = m_mempoolTxs
        /\ SyncMerkleBlock(b).v = vault
    BY <1>3 DEF SyncMerkleBlock
  <2> QED
    BY <2>1 DEF Filled
<1>4. CASE TxsOf(b) = <<>> /\ m_bInsertMerkleBlocks
  <2> DEFINE w == InsertMerkleBlock(vault, b)
             r == SyncMerkleBlock(b)
  <2>1. /\ r.q = <<>> /\ r.mem = m_mempoolTxs \cup PushedOff(vault, w)
        /\ r.v = w
    BY <1>4 DEF SyncMerkleBlock
  <2>2. Sure(w) /\ DOMAIN w.conf = DOMAIN vault.conf
    BY <1>4, MerkleBlockSure, MerkleBlockSound
  <2> HIDE DEF w, r
  <2>3. Filled(b, r)
    BY <2>1, <2>2 DEF Filled, PushedOff
  <2> QED
    BY <2>3 DEF r
<1> QED
  BY <1>2, <1>3, <1>4

(* Until a vault is first closed or replaced. *)
Fills == vaultOps = 0 => vaultOpen /\ Filled(m_currentMerkleBlock, Queue)

(* The fields of the queue's record. *)
LEMMA QueueFields ==
    /\ Queue.q = m_currentMerkleTxHashes /\ Queue.i = m_currentMerkleTxIndex
    /\ Queue.mem = m_mempoolTxs /\ Queue.v = vault
BY DEF Queue

(* The record a handler ends with. *)
LEMMA SetQueueFills ==
    ASSUME NEW s, SetQueue(s), NEW b, Filled(b, s), s.q = <<>> \/ m_currentMerkleBlock' = b
    PROVE  Filled(m_currentMerkleBlock, Queue)'
<1>1. /\ Queue'.q = s.q /\ Queue'.i = s.i /\ Queue'.mem = s.mem /\ Queue'.v = s.v
  BY DEF SetQueue, Queue
<1>2. s.mem \subseteq DOMAIN s.v.conf /\ Sure(s.v) /\ (s.q # <<>> => UpTo(b, s.v, s.i))
  BY DEF Filled
<1>3. s.q # <<>> => UpTo(m_currentMerkleBlock', s.v, s.i)
  BY <1>2
<1> QED
  BY <1>1, <1>2, <1>3 DEF Filled, Sure, UpTo

(* The queue, the mempool and the vault stay as they are. *)
LEMMA FillsStays ==
    ASSUME Fills, UNCHANGED <<txVars, vault, vaultOpen, vaultOps>>
    PROVE  Fills'
<1>1. Queue' = Queue /\ m_currentMerkleBlock' = m_currentMerkleBlock
  BY DEF Queue, txVars
<1>2. vaultOps' = vaultOps /\ vaultOpen' = vaultOpen
  OBVIOUS
<1>3. Filled(m_currentMerkleBlock, Queue) => Filled(m_currentMerkleBlock, Queue)'
  BY <1>1 DEF Filled, Sure, UpTo
<1> QED
  BY <1>2, <1>3 DEF Fills

(* The user's operations: stop empties the queue. *)
LEMMA UserFills ==
    Inv /\ Fills /\ (Open \/ Stop \/ CloseVault \/ OpenVault \/ OpenVaultFails) => Fills'
<1> SUFFICES ASSUME Inv, Fills, Open \/ Stop \/ CloseVault \/ OpenVault \/ OpenVaultFails
             PROVE Fills'
  OBVIOUS
<1>1. CASE Open
  BY <1>1, FillsStays DEF Open
<1>2. CASE Stop
  <2>1. /\ vaultOps' = vaultOps /\ vaultOpen' = vaultOpen /\ vault' = vault
        /\ m_mempoolTxs' = m_mempoolTxs /\ m_currentMerkleTxHashes' = <<>>
    BY <1>2 DEF Stop, userVars
  <2>2. ASSUME Filled(m_currentMerkleBlock, Queue) PROVE Filled(m_currentMerkleBlock, Queue)'
    <3>1. m_mempoolTxs \subseteq DOMAIN vault.conf /\ Sure(vault)
      BY <2>2, QueueFields DEF Filled
    <3>2. Queue'.q = <<>> /\ Queue'.mem = m_mempoolTxs /\ Queue'.v = vault
      BY <2>1 DEF Queue
    <3> QED
      BY <3>1, <3>2 DEF Filled, Sure
  <2> QED
    BY <2>1, <2>2 DEF Fills
<1>3. CASE CloseVault
  <2>1. vaultOps \in Nat /\ vaultOps' = vaultOps + 1
    BY <1>3, Bounds DEF CloseVault, Inv, FlagsOK
  <2> QED
    BY <2>1 DEF Fills
<1>4. CASE OpenVault
  <2>1. vaultOps \in Nat /\ (vaultOps = 0 => vaultOpen)
    BY Bounds DEF Inv, FlagsOK, Fills
  <2>2. vaultOps' # 0
    BY <1>4, <2>1 DEF OpenVault
  <2> QED
    BY <2>2 DEF Fills
<1>5. CASE OpenVaultFails
  <2>1. vaultOps \in Nat /\ vaultOps' = vaultOps + 1
    BY <1>5, Bounds DEF OpenVaultFails, Inv, FlagsOK
  <2> QED
    BY <2>1 DEF Fills
<1> QED
  BY <1>1, <1>2, <1>3, <1>4, <1>5

(* The peer, its announcements and the headers leave the vault alone. *)
LEMMA PeerFills == Fills /\ (PeerReplies \/ PeerMines \/ PeerRelays \/ OnInv \/ OnHeaders) => Fills'
<1> SUFFICES ASSUME Fills, PeerReplies \/ PeerMines \/ PeerRelays \/ OnInv \/ OnHeaders PROVE Fills'
  OBVIOUS
<1>1. UNCHANGED <<txVars, vault, vaultOpen, vaultOps>>
  BY DEF PeerReplies, PeerMines, PeerRelays, OnInv, OnHeaders, Receive, userVars
<1> QED
  BY <1>1, FillsStays

(* merkleblock. *)
LEMMA OnMerkleBlockFills == Inv /\ Fills /\ OnMerkleBlock => Fills'
<1> SUFFICES ASSUME Inv, Fills, OnMerkleBlock PROVE Fills'
  OBVIOUS
<1> DEFINE b == Head(toUs)[2]
           s == SyncMerkleBlock(b)
<1>1. Receive("merkle")
  BY DEF OnMerkleBlock
<1>2. b \in Blocks
  BY <1>1, ReceiveOK
<1>3. vaultOps' = vaultOps /\ vaultOpen' = vaultOpen
  BY <1>1 DEF Receive, userVars
<1>4. (SetQueue(s) /\ SetCurrent(b)) \/ UNCHANGED <<txVars, vault>>
  BY DEF OnMerkleBlock
<1>5. CASE UNCHANGED <<txVars, vault>>
  BY <1>3, <1>5, FillsStays
<1>6. CASE SetQueue(s) /\ SetCurrent(b)
  <2> HIDE DEF b
  <2> SUFFICES ASSUME vaultOps = 0 PROVE vaultOpen' /\ Filled(m_currentMerkleBlock, Queue)'
    BY <1>3 DEF Fills
  <2>1. vaultOpen /\ Filled(m_currentMerkleBlock, Queue)
    BY DEF Fills
  <2>2. m_mempoolTxs \subseteq DOMAIN vault.conf /\ Sure(vault)
    BY <2>1, QueueFields DEF Filled
  <2>3. /\ m_mempoolTxs \subseteq Ours /\ m_currentMerkleTxIndex \in Nat
        /\ vault \in SoundVaults(tree) /\ tree \subseteq Blocks
    BY DEF Inv, QueueOK, VaultOK, TreeOK
  <2>4. vault \in SoundVaults(Blocks) /\ Blocks \in SUBSET Blocks
    BY <2>3, VaultsGrow
  <2>5. Filled(b, s) /\ s \in States(Blocks, b, vault) /\ (TxsOf(b) = <<>> => s.q = <<>>)
    BY <1>2, <2>1, <2>2, <2>3, <2>4, SyncMerkleBlockFilled, SyncMerkleBlockGood
  <2>6. s.q = <<>> \/ m_currentMerkleBlock' = b
    BY <1>6, <2>5 DEF SetCurrent
  <2> HIDE DEF s
  <2> QED
    BY <1>3, <1>6, <2>1, <2>5, <2>6, SetQueueFills
<1> QED
  BY <1>4, <1>5, <1>6

(* The queue as a handler finds it. *)
LEMMA QueueFilled ==
    ASSUME Inv, Filled(m_currentMerkleBlock, Queue)
    PROVE  Queue \in FilledStates(tree, m_currentMerkleBlock, vault)
BY QueueGood DEF FilledStates

(* tx. *)
LEMMA OnTxFills == Inv /\ Fills /\ OnTx => Fills'
<1> SUFFICES ASSUME Inv, Fills, OnTx PROVE Fills'
  OBVIOUS
<1> DEFINE t == Head(toUs)[2]
           b == m_currentMerkleBlock
<1>1. Receive("tx")
  BY DEF OnTx
<1>2. t \in Ours
  BY <1>1, ReceiveOK
<1>3. vaultOps' = vaultOps /\ vaultOpen' = vaultOpen /\ m_currentMerkleBlock' = b
  BY <1>1 DEF Receive, userVars, OnTx
<1>4. SUFFICES ASSUME vaultOps = 0 PROVE vaultOpen' /\ Filled(m_currentMerkleBlock, Queue)'
  BY <1>3 DEF Fills
<1>5. vaultOpen /\ Filled(b, Queue)
  BY <1>4 DEF Fills
<1>6. vault \in SoundVaults(tree) /\ tree \in SUBSET Blocks
  BY DEF Inv, VaultOK, TreeOK
<1>7. CASE /\ m_currentMerkleTxHashes = <<>>
           /\ m_mempoolTxs' = m_mempoolTxs \cup {t}
           /\ vault' = IF vaultOpen THEN InsertNewTx(vault, t) ELSE vault
           /\ UNCHANGED m_currentMerkleTxHashes
  <2> HIDE DEF t
  <2>1. m_mempoolTxs \subseteq DOMAIN vault.conf /\ Sure(vault)
    BY <1>5, QueueFields DEF Filled
  <2>2. vault' = InsertNewTx(vault, t)
    BY <1>5, <1>7
  <2>3. Sure(InsertNewTx(vault, t)) /\ DOMAIN InsertNewTx(vault, t).conf = DOMAIN vault.conf \cup {t}
    BY <1>2, <1>6, <2>1, NewTxSure
  <2>4. Queue'.q = <<>> /\ Queue'.mem = m_mempoolTxs \cup {t} /\ Queue'.v = InsertNewTx(vault, t)
    BY <1>7, <2>2 DEF Queue
  <2>5. Filled(m_currentMerkleBlock, Queue)'
    BY <2>1, <2>3, <2>4 DEF Filled, Sure
  <2> QED
    BY <1>3, <1>5, <2>5
<1>8. CASE m_currentMerkleTxHashes # <<>> /\ ProcessBlockTx(t)
  <2> DEFINE s == MempoolConfirmations(b, Queue)
             u == MempoolConfirmations(b, InsertFront(b, s, t))
             r == IF s.q # <<>> /\ t = Head(s.q) THEN u ELSE s
  <2>1. SetQueue(r)
    BY <1>8 DEF ProcessBlockTx
  <2>2. b \in tree /\ Queue \in FilledStates(tree, b, vault)
    BY <1>5, <1>8, QueueFilled DEF Inv, QueueOK
  <2> HIDE DEF b, t
  <2>3. s \in FilledStates(tree, b, vault)
    BY <1>5, <1>6, <2>2, MempoolFilled
  <2> HIDE DEF s
  <2>4. ASSUME s.q # <<>>, t = Head(s.q) PROVE u \in FilledStates(tree, b, vault)
    <3>1. InsertFront(b, s, t) \in FilledStates(tree, b, vault)
      BY <1>5, <1>6, <2>2, <2>3, <2>4, InsertFrontFilled
    <3> QED
      BY <1>5, <1>6, <2>2, <3>1, MempoolFilled
  <2> HIDE DEF u
  <2>5. Filled(b, r)
    BY <2>3, <2>4 DEF FilledStates
  <2> HIDE DEF r
  <2> QED
    BY <1>3, <1>5, <2>1, <2>5, SetQueueFills
<1>9. CASE UNCHANGED <<m_mempoolTxs, m_currentMerkleTxHashes, m_currentMerkleTxIndex, vault>>
  <2>1. UNCHANGED <<txVars, vault, vaultOpen, vaultOps>>
    BY <1>3, <1>9 DEF txVars
  <2> QED
    BY <1>3, <1>4, <2>1, FillsStays DEF Fills
<1> QED
  BY <1>7, <1>8, <1>9 DEF OnTx

(* block. *)
LEMMA OnBlockFills == Inv /\ Fills /\ OnBlock => Fills'
<1> SUFFICES ASSUME Inv, Fills, OnBlock PROVE Fills'
  OBVIOUS
<1> DEFINE b == Head(toUs)[2]
           s == ScanBlock(b)
<1>1. Receive("block")
  BY DEF OnBlock
<1>2. b \in Blocks
  BY <1>1, ReceiveOK
<1>3. /\ vaultOps' = vaultOps /\ vaultOpen' = vaultOpen
      /\ m_currentMerkleBlock' = m_currentMerkleBlock
  BY <1>1 DEF Receive, userVars, OnBlock
<1>4. SUFFICES ASSUME vaultOps = 0 PROVE vaultOpen' /\ Filled(m_currentMerkleBlock, Queue)'
  BY <1>3 DEF Fills
<1>5. vaultOpen /\ Filled(m_currentMerkleBlock, Queue)
  BY <1>4 DEF Fills
<1>6. CASE m_bMissingTxs /\ m_currentMerkleBlock = b
  <2>1. SetQueue(s)
    BY <1>6 DEF OnBlock
  <2>2. b \in tree /\ tree \in SUBSET Blocks /\ Queue \in FilledStates(tree, b, vault)
    BY <1>2, <1>5, <1>6, QueueFilled, NetSyncAssumption DEF Inv, QueueOK, TreeOK
  <2> HIDE DEF b
  <2>3. Filled(b, s)
    BY <1>5, <2>2, ScanFilled DEF FilledStates
  <2> HIDE DEF s
  <2> QED
    BY <1>3, <1>5, <1>6, <2>1, <2>3, SetQueueFills
<1>7. CASE ~ (m_bMissingTxs /\ m_currentMerkleBlock = b)
  <2>1. UNCHANGED <<txVars, vault, vaultOpen, vaultOps>>
    BY <1>3, <1>7 DEF OnBlock, txVars
  <2> QED
    BY <1>3, <1>4, <2>1, FillsStays DEF Fills
<1> QED
  BY <1>6, <1>7

(* Nothing is complete at the start. *)
LEMMA InitFills == Init => Fills
<1> SUFFICES ASSUME Init PROVE vaultOpen /\ Filled(m_currentMerkleBlock, Queue)
  BY DEF Fills
<1>1. /\ vaultOpen = TRUE /\ vault = EmptyVault /\ m_mempoolTxs = {}
      /\ m_currentMerkleTxHashes = <<>>
  BY DEF Init
<1>2. EmptyVault.complete = {}
  BY DEF EmptyVault
<1> QED
  BY <1>1, <1>2, QueueFields DEF Filled, Sure

(* Until a vault is first closed or replaced, a complete block's            *)
(* transactions are all in the vault and confirmed by it: whatever the      *)
(* order in which they come as mempool transactions, with the merkle block  *)
(* or with the whole block, through reorganisations of any depth and any    *)
(* number of connections.                                                   *)
THEOREM CompleteUntilClosed == Spec => [](vaultOps = 0 => CompleteMeansConfirmed)
<1>1. Inv /\ Fills /\ [Next]_vars => Fills'
  <2> SUFFICES ASSUME Inv, Fills, [Next]_vars PROVE Fills'
    OBVIOUS
  <2>1. CASE UNCHANGED vars
    <3>1. UNCHANGED <<txVars, vault, vaultOpen, vaultOps>>
      BY <2>1 DEF vars, userVars
    <3> QED
      BY <3>1, FillsStays
  <2>2. CASE OnInv \/ OnHeaders \/ OnMerkleBlock \/ OnTx \/ OnBlock
    BY <2>2, PeerFills, OnMerkleBlockFills, OnTxFills, OnBlockFills
  <2>3. CASE PeerReplies \/ PeerMines \/ PeerRelays
    BY <2>3, PeerFills
  <2>4. CASE Open \/ Stop \/ CloseVault \/ OpenVault \/ OpenVaultFails
    BY <2>4, UserFills
  <2> QED
    BY <2>1, <2>2, <2>3, <2>4 DEF Next, Handlers, Peer, User
<1>2. Fills => (vaultOps = 0 => CompleteMeansConfirmed)
  BY QueueFields DEF Fills, Filled, Sure, CompleteMeansConfirmed
<1> QED
  BY <1>1, <1>2, InitFills, InvHolds, PTL DEF Spec

(* So a program whose vault stays open has CompleteMeansConfirmed always. *)
THEOREM CompleteHolds == ASSUME MaxVaultOps = 0 PROVE Spec => []CompleteMeansConfirmed
<1>1. Inv => vaultOps = 0
  BY DEF Inv, FlagsOK
<1> QED
  BY <1>1, InvHolds, CompleteUntilClosed, PTL

-----------------------------------------------------------------------------
(* Synchronising one chain.                                                 *)

(* The blocks are one chain, which the vault's start time does not cover    *)
(* from its first block.                                                    *)
OneChain ==
    /\ StartHeight \in Nat /\ StartHeight >= 1
    /\ \A b, c \in Blocks : /\ Height(b) = Height(c) => b = c
                            /\ Height(b) < Height(c) => ChainWork[b] < ChainWork[c]

(* The lower of two blocks is on the path to the other, and has less work.  *)
LEMMA ChainOrder ==
    ASSUME OneChain, NEW b \in Blocks, NEW c \in Blocks
    PROVE  /\ Height(b) \in Nat /\ Height(c) \in Nat
           /\ ChainWork[b] \in Nat /\ ChainWork[c] \in Nat
           /\ Height(b) = Height(c) => b = c
           /\ Height(b) < Height(c) => ChainWork[b] < ChainWork[c]
           /\ ChainWork[b] < ChainWork[c] => Height(b) < Height(c)
           /\ Height(b) <= Height(c) => Path[c][Height(b) + 1] = b
           /\ Height(b) <= Height(c) => b \in Range(Path[c])
<1>1. /\ Height(b) \in Nat /\ Height(c) \in Nat
      /\ Path[c] \in Seq(Blocks) /\ Len(Path[c]) = Height(c) + 1
  BY Heights
<1>2. ChainWork[b] \in Nat /\ ChainWork[c] \in Nat
  BY NetSyncAssumption
<1>3. /\ Height(b) = Height(c) => b = c
      /\ Height(b) < Height(c) => ChainWork[b] < ChainWork[c]
      /\ Height(c) < Height(b) => ChainWork[c] < ChainWork[b]
  BY DEF OneChain
<1>4. ChainWork[b] < ChainWork[c] => Height(b) < Height(c)
  BY <1>1, <1>2, <1>3
<1>5. ASSUME Height(b) <= Height(c)
      PROVE  Path[c][Height(b) + 1] = b /\ b \in Range(Path[c])
  <2> DEFINE i == Height(b) + 1
  <2>1. i \in 1 .. Len(Path[c]) /\ i - 1 = Height(b)
    BY <1>1, <1>5
  <2> HIDE DEF i
  <2>2. Path[c][i] \in Blocks /\ Height(Path[c][i]) = i - 1
    BY <2>1, PathPrefix
  <2>3. Path[c][i] = b
    BY <2>1, <2>2 DEF OneChain
  <2>4. i \in DOMAIN Path[c]
    BY <1>1, <2>1
  <2> QED
    BY <2>3, <2>4 DEF i, Range
<1> QED
  BY <1>1, <1>2, <1>3, <1>4, <1>5

(* On one chain that is the highest of them. *)
LEMMA BestIsHighest ==
    ASSUME OneChain, NEW h \in Seq(Blocks), tip \in Blocks
    PROVE  /\ Best(h) \in {tip} \cup Range(h) /\ Best(h) \in Blocks
           /\ \A x \in {tip} \cup Range(h) : Height(x) <= Height(Best(h))
<1>1. Best(h) \in {tip} \cup Range(h) /\ Range(h) \subseteq Blocks
  BY BestIsHeaviest DEF Range
<1>2. ASSUME NEW x \in {tip} \cup Range(h) PROVE Height(x) <= Height(Best(h))
  <2>1. ChainWork[x] <= ChainWork[Best(h)]
    BY BestIsHeaviest
  <2>2. x \in Blocks /\ Best(h) \in Blocks
    BY <1>1
  <2>3. /\ Height(x) \in Nat /\ Height(Best(h)) \in Nat
        /\ ChainWork[x] \in Nat /\ ChainWork[Best(h)] \in Nat
        /\ Height(Best(h)) < Height(x) => ChainWork[Best(h)] < ChainWork[x]
    BY <2>2, ChainOrder
  <2> QED
    BY <2>1, <2>3
<1> QED
  BY <1>1, <1>2

-----------------------------------------------------------------------------
(* The vault while one chain is synched.                                    *)

(* Every block from the start height up to the height n is complete. *)
Full(v, n) ==
    \A c \in Blocks : StartHeight <= Height(c) /\ Height(c) <= n => c \in v.complete

(* So is every block below one of the vault, and one without transactions.  *)
Solid(v) ==
    \A c \in v.chain : /\ StartHeight <= Height(c)
                       /\ Full(v, Height(c) - 1)
                       /\ TxsOf(c) = <<>> => c \in v.complete

(* The block b can be stored next. *)
Ready(v, b) == StartHeight <= Height(b) /\ Full(v, Height(b) - 1)

(* A complete block of the vault makes it full up to there. *)
LEMMA FullUpTo ==
    ASSUME OneChain, NEW v, NEW b \in Blocks, Ready(v, b), b \in v.complete
    PROVE  Full(v, Height(b))
<1> SUFFICES ASSUME NEW c \in Blocks, StartHeight <= Height(c), Height(c) <= Height(b)
             PROVE  c \in v.complete
  BY DEF Full
<1>1. Height(c) \in Nat /\ Height(b) \in Nat /\ (Height(c) = Height(b) => c = b)
  BY ChainOrder
<1>2. CASE Height(c) = Height(b)
  BY <1>1, <1>2
<1>3. CASE Height(c) # Height(b)
  <2>1. Height(c) <= Height(b) - 1
    BY <1>1, <1>3
  <2> QED
    BY <2>1 DEF Ready, Full
<1> QED
  BY <1>2, <1>3

(* What is full stays so while blocks are completed, and a shorter part of  *)
(* it is full.                                                              *)
LEMMA FullStays ==
    ASSUME NEW v, NEW w, v.complete \subseteq w.complete, NEW n \in Int, NEW k \in Int, k <= n,
           Full(v, n)
    PROVE  Full(w, k)
<1> SUFFICES ASSUME NEW c \in Blocks, StartHeight <= Height(c), Height(c) <= k
             PROVE  c \in w.complete
  BY DEF Full
<1>1. Height(c) \in Nat
  BY Heights
<1>2. Height(c) <= n
  BY <1>1
<1> QED
  BY <1>2 DEF Full

(* A block that is ready and not stored is above those of the vault, and it *)
(* connects.                                                                *)
LEMMA ReadyConnects ==
    ASSUME OneChain, NEW T \in SUBSET Blocks, NEW v \in SoundVaults(T), Solid(v),
           NEW b \in Blocks, Ready(v, b)
    PROVE  /\ b # Genesis
           /\ b \notin v.chain => Connects(v, b) /\ Kept(v, b) = v.chain
<1>1. v.chain \subseteq Blocks /\ v.complete \subseteq v.chain
  BY VaultFields
<1>2. StartHeight \in Nat /\ StartHeight >= 1 /\ StartHeight <= Height(b) /\ Height(b) \in Nat
  BY Heights DEF OneChain, Ready
<1>3. b # Genesis
  BY <1>2, GenesisHeight
<1>4. ASSUME b \notin v.chain, NEW c \in v.chain PROVE Height(c) < Height(b)
  <2>1. /\ Height(c) \in Nat /\ (Height(b) = Height(c) => b = c)
        /\ StartHeight <= Height(c) /\ Full(v, Height(c) - 1)
    BY <1>1, ChainOrder DEF Solid
  <2>2. CASE Height(b) <= Height(c) - 1
    <3>1. b \in v.complete
      BY <1>2, <2>1, <2>2 DEF Full
    <3> QED
      BY <1>1, <1>4, <3>1
  <2> QED
    BY <1>2, <1>4, <2>1, <2>2
<1>5. ASSUME b \notin v.chain PROVE Connects(v, b)
  <2>1. Parent(b) \in Blocks /\ Height(Parent(b)) = Height(b) - 1
    BY <1>3, Heights
  <2>2. CASE StartHeight <= Height(b) - 1
    <3>1. Parent(b) \in v.complete
      BY <1>2, <2>1, <2>2 DEF Ready, Full
    <3> QED
      BY <1>1, <3>1 DEF Connects
  <2>3. CASE StartHeight = Height(b)
    <3>1. ASSUME NEW c \in v.chain PROVE FALSE
      <4>1. Height(c) < Height(b) /\ StartHeight <= Height(c) /\ Height(c) \in Nat
        BY <1>1, <1>4, <1>5, Heights DEF Solid
      <4> QED
        BY <1>2, <2>3, <4>1
    <3> QED
      BY <3>1 DEF Connects
  <2> QED
    BY <1>2, <2>2, <2>3
<1>6. b \notin v.chain => Kept(v, b) = v.chain
  BY <1>4 DEF Kept
<1> QED
  BY <1>3, <1>5, <1>6

(* The block b, and nothing else, is stored or completed in v. *)
Builds(v, b, w) ==
    /\ w.chain = v.chain \cup {b}
    /\ v.complete \subseteq w.complete /\ w.complete \subseteq v.complete \cup {b}

(* The vault stays solid. *)
LEMMA BuildsSolid ==
    ASSUME NEW v, NEW b \in Blocks, Solid(v), Ready(v, b), NEW w, Builds(v, b, w),
           TxsOf(b) = <<>> => b \in w.complete, v.chain \subseteq Blocks
    PROVE  Solid(w) /\ Ready(w, b)
<1>1. \A c \in Blocks : Height(c) - 1 \in Int
  BY Heights
<1>2. \A c \in Blocks : Full(v, Height(c) - 1) => Full(w, Height(c) - 1)
  BY <1>1, FullStays DEF Builds
<1>3. Ready(w, b)
  BY <1>2 DEF Ready
<1>4. ASSUME NEW c \in w.chain
      PROVE  /\ StartHeight <= Height(c) /\ Full(w, Height(c) - 1)
             /\ TxsOf(c) = <<>> => c \in w.complete
  <2>1. CASE c = b
    BY <1>3, <2>1 DEF Ready
  <2>2. CASE c \in v.chain
    BY <1>2, <2>2 DEF Solid, Builds
  <2> QED
    BY <2>1, <2>2 DEF Builds
<1> QED
  BY <1>3, <1>4 DEF Solid

(* The block is put on top. *)
LEMMA AttachBuilds ==
    ASSUME OneChain, NEW T \in SUBSET Blocks, NEW v \in SoundVaults(T), Solid(v),
           NEW b \in Blocks, Ready(v, b), NEW w \in {Cut(v, b), PushOff(v, b)}
    PROVE  /\ Attach(v, b, w).chain = v.chain \cup {b}
           /\ Attach(v, b, w).complete = v.complete
           /\ Attach(v, b, w) = [chain |-> Attach(v, b, w).chain,
                                 complete |-> Attach(v, b, w).complete,
                                 conf |-> Attach(v, b, w).conf]
<1>1. /\ v = [chain |-> v.chain, complete |-> v.complete, conf |-> v.conf]
      /\ v.complete \subseteq v.chain
  BY VaultFields
<1> DEFINE K == Kept(v, b)
           D == v.complete \cap K
           f == [t \in DOMAIN v.conf |-> IF v.conf[t] \in v.chain \ K THEN NoBlock ELSE v.conf[t]]
           x == [chain |-> K, complete |-> D, conf |-> v.conf]
           y == [chain |-> K, complete |-> D, conf |-> f]
<1>2. Cut(v, b) = x
  <2>1. Cut(v, b) = [v EXCEPT !.chain = K, !.complete = v.complete \cap K]
    BY DEF Cut
  <2> HIDE DEF K, D
  <2> DEFINE z == [v EXCEPT !.chain = K, !.complete = D]
  <2>2. z \in [chain : {K}, complete : {D}, conf : {v.conf}]
    BY ONLY <1>1
  <2> QED
    BY <2>1, <2>2 DEF D
<1>3. PushOff(v, b) = y
  <2>1. PushOff(v, b) = [x EXCEPT !.conf = f]
    BY <1>2 DEF PushOff
  <2> HIDE DEF f, K, D
  <2>2. [x EXCEPT !.conf = f] = y
    OBVIOUS
  <2> QED
    BY <2>1, <2>2
<1>4. CASE b \in v.chain
  <2>1. Attach(v, b, w) = v /\ v.chain \cup {b} = v.chain
    BY <1>4 DEF Attach
  <2> QED
    BY <1>1, <2>1
<1>5. CASE b \notin v.chain
  <2>1. K = v.chain /\ D = v.complete
    BY <1>1, <1>5, ReadyConnects
  <2>2. PICK g : w = [chain |-> K, complete |-> D, conf |-> g]
    BY <1>2, <1>3
  <2> HIDE DEF K, D, f
  <2>3. Attach(v, b, w) = [w EXCEPT !.chain = w.chain \cup {b}]
    BY <1>5 DEF Attach
  <2> DEFINE Y == K \cup {b}
  <2>4. w.chain \cup {b} = Y
    BY <2>2
  <2> HIDE DEF Y
  <2>5. Attach(v, b, w) = [chain |-> Y, complete |-> D, conf |-> g]
    BY <2>2, <2>3, <2>4
  <2>6. /\ Attach(v, b, w).chain = Y /\ Attach(v, b, w).complete = D
        /\ Attach(v, b, w).conf = g
    BY <2>5
  <2> HIDE DEF x, y
  <2> QED
    BY <2>1, <2>5, <2>6 DEF Y
<1> QED
  BY <1>4, <1>5

(* insertMerkleTx and confirmMerkleTx of the transaction with index i: the  *)
(* block is stored, and completed with the last.                            *)
LEMMA MerkleTxBuilds ==
    ASSUME OneChain, NEW T \in SUBSET Blocks, NEW v \in SoundVaults(T), Solid(v),
           NEW b \in Blocks, Ready(v, b), NEW i \in Nat, i > 0 => b \in v.chain, NEW t, NEW w,
           w = InsertMerkleTx(v, b, t, i) \/ w = ConfirmMerkleTx(v, b, t, i)
    PROVE  Builds(v, b, w) /\ (i + 1 = Len(TxsOf(b)) => b \in w.complete)
<1>1. ~ Refuses(v, b, i)
  BY ReadyConnects DEF Refuses
<1>2. PICK c \in {Cut(v, b), PushOff(v, b)}, known \in {{}, {t}} :
          w = Complete(Confirm(Attach(v, b, c), b, known, t), b, i)
  BY <1>1 DEF InsertMerkleTx, ConfirmMerkleTx
<1> DEFINE u == Attach(v, b, c)
<1>3. /\ u.chain = v.chain \cup {b} /\ u.complete = v.complete
      /\ u = [chain |-> u.chain, complete |-> u.complete, conf |-> u.conf]
  BY AttachBuilds
<1>4. w = Complete(Confirm(u, b, known, t), b, i)
  BY <1>2
<1> HIDE DEF u
<1> DEFINE f == [x \in DOMAIN u.conf \cup known |-> IF x = t THEN b ELSE u.conf[x]]
           z == [u EXCEPT !.conf = f]
<1>5. Confirm(u, b, known, t) = z
  BY DEF Confirm
<1> HIDE DEF f
<1>6. z = [chain |-> u.chain, complete |-> u.complete, conf |-> f]
  BY ONLY <1>3
<1> HIDE DEF z
<1>7. w = IF i + 1 = Len(TxsOf(b)) THEN [z EXCEPT !.complete = z.complete \cup {b}] ELSE z
  BY <1>4, <1>5 DEF Complete
<1>8. CASE i + 1 = Len(TxsOf(b))
  <2>1. w = [z EXCEPT !.complete = z.complete \cup {b}]
    BY <1>7, <1>8
  <2>2. w.chain = u.chain /\ w.complete = u.complete \cup {b}
    BY ONLY <1>6, <2>1
  <2> QED
    BY <1>3, <2>2 DEF Builds
<1>9. CASE i + 1 # Len(TxsOf(b))
  <2>1. w.chain = u.chain /\ w.complete = u.complete
    BY <1>6, <1>7, <1>9
  <2> QED
    BY <1>3, <1>9, <2>1 DEF Builds
<1> QED
  BY <1>8, <1>9

(* insertMerkleBlock. *)
LEMMA MerkleBlockBuilds ==
    ASSUME OneChain, NEW T \in SUBSET Blocks, NEW v \in SoundVaults(T), Solid(v),
           NEW b \in Blocks, Ready(v, b), TxsOf(b) = <<>>
    PROVE  LET w == InsertMerkleBlock(v, b) IN Builds(v, b, w) /\ b \in w.complete
<1> DEFINE w == InsertMerkleBlock(v, b)
           u == Attach(v, b, PushOff(v, b))
<1>1. CASE b \in v.chain
  <2>1. w = v /\ b \in v.complete
    BY <1>1 DEF InsertMerkleBlock, Solid
  <2> QED
    BY <1>1, <2>1 DEF Builds
<1>2. CASE b \notin v.chain
  <2>1. PushOff(v, b) \in {Cut(v, b), PushOff(v, b)}
    OBVIOUS
  <2>2. /\ u.chain = v.chain \cup {b} /\ u.complete = v.complete
        /\ u = [chain |-> u.chain, complete |-> u.complete, conf |-> u.conf]
    BY <2>1, AttachBuilds
  <2>3. w = [u EXCEPT !.complete = u.complete \cup {b}]
    BY <1>2, ReadyConnects DEF InsertMerkleBlock
  <2> HIDE DEF u, w
  <2>4. w.complete = u.complete \cup {b} /\ w.chain = u.chain
    BY ONLY <2>2, <2>3
  <2>5. Builds(v, b, w) /\ b \in w.complete
    BY <2>2, <2>4 DEF Builds
  <2> QED
    BY <2>5 DEF w
<1> QED
  BY <1>1, <1>2

-----------------------------------------------------------------------------
(* A handler at work on the block b, ready for the vault v that it found:   *)
(* an empty queue means that the block is complete.                         *)
Stored(b, v, s) ==
    /\ Solid(s.v) /\ Ready(s.v, b)
    /\ v.complete \subseteq s.v.complete
    /\ s.q # <<>> /\ s.i > 0 => b \in s.v.chain
    /\ s.q = <<>> => b \in s.v.complete

StoredStates(T, b, v) == {s \in States(T, b, v) : Stored(b, v, s)}

(* The front of the queue is handled. *)
LEMMA PopStored ==
    ASSUME OneChain, NEW T \in SUBSET Blocks, NEW b \in T, NEW v, NEW s \in StoredStates(T, b, v),
           s.q # <<>>, NEW t, NEW w,
           w = InsertMerkleTx(s.v, b, t, s.i) \/ w = ConfirmMerkleTx(s.v, b, t, s.i)
    PROVE  Stored(b, v, Pop(s, w, t))
<1>1. /\ s.q \in Seq(Ours) /\ s.i \in Nat /\ s.v \in SoundVaults(T) /\ RestOf(b, s.q, s.i)
      /\ Solid(s.v) /\ Ready(s.v, b) /\ v.complete \subseteq s.v.complete
      /\ s.i > 0 => b \in s.v.chain
  BY DEF StoredStates, Stored, States, Records
<1>2. TxsOf(b) \in Seq(Ours) /\ b \in Blocks /\ s.v.chain \subseteq Blocks
  BY <1>1, TxsOfBlock, VaultFields
<1>3. s.q = SubSeq(TxsOf(b), s.i + 1, Len(TxsOf(b)))
  BY <1>1 DEF RestOf
<1>4. s.i + 1 \in 1 .. Len(TxsOf(b))
  BY <1>1, <1>2, <1>3, FrontOfRest
<1>5. Builds(s.v, b, w) /\ (s.i + 1 = Len(TxsOf(b)) => b \in w.complete)
  BY <1>1, <1>2, MerkleTxBuilds
<1>6. TxsOf(b) # <<>>
  BY <1>2, <1>4
<1>7. Solid(w) /\ Ready(w, b)
  BY <1>1, <1>2, <1>5, <1>6, BuildsSolid
<1>8. Tail(s.q) = <<>> => s.i + 1 = Len(TxsOf(b))
  <2>1. Len(s.q) = Len(TxsOf(b)) - s.i /\ Len(TxsOf(b)) \in Nat
    BY <1>1, <1>2, <1>3, <1>4
  <2>2. Tail(s.q) = <<>> => Len(s.q) = 1
    <3>1. Len(s.q) \in Nat /\ Len(s.q) # 0 /\ Len(Tail(s.q)) = Len(s.q) - 1
      BY <1>1
    <3>2. Len(<<>>) = 0
      OBVIOUS
    <3>3. Tail(s.q) = <<>> => Len(Tail(s.q)) = Len(<<>>)
      BY Zenon
    <3> QED
      BY ONLY <3>1, <3>2, <3>3
  <2> QED
    BY <1>1, <2>1, <2>2
<1> DEFINE r == Pop(s, w, t)
<1>9. r.q = Tail(s.q) /\ r.i = s.i + 1 /\ r.v = w
  BY DEF Pop
<1> HIDE DEF r
<1>10. Stored(b, v, r)
  BY <1>1, <1>5, <1>7, <1>8, <1>9 DEF Stored, Builds
<1> QED
  BY <1>10 DEF r

(* A round of processMempoolConfirmations. *)
LEMMA ConfirmFrontStored ==
    ASSUME OneChain, NEW T \in SUBSET Blocks, NEW b \in T, NEW v, NEW s \in StoredStates(T, b, v),
           NEW t, vaultOpen
    PROVE  ConfirmFront(b, s, t) \in StoredStates(T, b, v)
<1>1. CASE s.q # <<>> /\ t = Head(s.q) /\ t \in s.mem
  <2> DEFINE w == ConfirmMerkleTx(s.v, b, t, s.i)
  <2>1. ConfirmFront(b, s, t) = Pop(s, w, t)
    BY <1>1 DEF ConfirmFront
  <2>2. Stored(b, v, Pop(s, w, t))
    BY <1>1, PopStored
  <2>3. ConfirmFront(b, s, t) \in States(T, b, v)
    BY ConfirmFrontGood DEF StoredStates
  <2> HIDE DEF w
  <2> QED
    BY <2>1, <2>2, <2>3 DEF StoredStates
<1>2. CASE ~ (s.q # <<>> /\ t = Head(s.q) /\ t \in s.mem)
  BY <1>2 DEF ConfirmFront
<1> QED
  BY <1>1, <1>2

(* notifyMerkleTx for the front of the queue. *)
LEMMA InsertFrontStored ==
    ASSUME OneChain, NEW T \in SUBSET Blocks, NEW b \in T, NEW v, NEW s \in StoredStates(T, b, v),
           s.q # <<>>, NEW t, t = Head(s.q), vaultOpen
    PROVE  InsertFront(b, s, t) \in StoredStates(T, b, v)
<1> DEFINE w == InsertMerkleTx(s.v, b, t, s.i)
<1>1. InsertFront(b, s, t) = Pop(s, w, t)
  BY DEF InsertFront
<1>2. Stored(b, v, Pop(s, w, t))
  BY PopStored
<1>3. InsertFront(b, s, t) \in States(T, b, v)
  BY InsertFrontGood DEF StoredStates
<1> HIDE DEF w
<1> QED
  BY <1>1, <1>2, <1>3 DEF StoredStates

(* processMempoolConfirmations. *)
LEMMA MempoolStored ==
    ASSUME OneChain, NEW T \in SUBSET Blocks, NEW b \in T, NEW v, NEW s \in StoredStates(T, b, v),
           vaultOpen
    PROVE  MempoolConfirmations(b, s) \in StoredStates(T, b, v)
<1>1. Len(s.q) \in Nat
  BY DEF StoredStates, States, Records
<1>2. \A r \in StoredStates(T, b, v) : \A t : ConfirmFront(b, r, t) \in StoredStates(T, b, v)
  BY ConfirmFrontStored
<1> QED
  BY <1>1, <1>2, MempoolLoop

(* The scan of a whole block. *)
LEMMA ScanStored ==
    ASSUME OneChain, NEW T \in SUBSET Blocks, NEW b \in T, NEW v, Queue \in StoredStates(T, b, v),
           vaultOpen
    PROVE  Stored(b, v, ScanBlock(b)) /\ ScanBlock(b).q = <<>>
<1>1. \A r \in StoredStates(T, b, v) : \A t : ScanTx(b, r, t) \in StoredStates(T, b, v)
  BY InsertFrontStored DEF ScanTx
<1>2. StoredStates(T, b, v) \in SUBSET States(T, b, v)
  BY DEF StoredStates
<1>3. ScanBlock(b) \in StoredStates(T, b, v) /\ ScanBlock(b).q = <<>>
  BY <1>1, <1>2, ScanLoop
<1> QED
  BY <1>3 DEF StoredStates

(* syncMerkleBlock, for a block that is ready. *)
LEMMA SyncMerkleBlockStored ==
    ASSUME OneChain, NEW T \in SUBSET Blocks, NEW b \in T, vault \in SoundVaults(T), vaultOpen,
           m_bInsertMerkleBlocks, m_mempoolTxs \subseteq Ours, m_currentMerkleTxIndex \in Nat,
           Solid(vault), Ready(vault, b)
    PROVE  Stored(b, vault, SyncMerkleBlock(b))
<1>1. b \in Blocks /\ TxsOf(b) \in Seq(Ours) /\ vault.chain \subseteq Blocks
  BY TxsOfBlock, VaultFields
<1>2. CASE TxsOf(b) # <<>>
  <2> DEFINE X == TxsOf(b)
             s == [q |-> X, i |-> 0, mem |-> m_mempoolTxs, v |-> vault]
  <2>1. SyncMerkleBlock(b) = MempoolConfirmations(b, s)
    BY <1>2 DEF SyncMerkleBlock
  <2>2. X \in Seq(Ours) /\ X # <<>>
    BY <1>1, <1>2
  <2> HIDE DEF X
  <2>3. SubSeq(X, 0 + 1, Len(X)) = X
    BY <2>2
  <2>4. RestOf(b, X, 0)
    BY <2>3 DEF RestOf, X
  <2>5. s \in States(T, b, vault)
    BY <2>2, <2>4, StartsGood
  <2>6. s.q # <<>> /\ s.i = 0 /\ s.v = vault
    BY <2>2
  <2> HIDE DEF s
  <2>7. Stored(b, vault, s)
    BY <2>6 DEF Stored
  <2>8. MempoolConfirmations(b, s) \in StoredStates(T, b, vault)
    BY <2>5, <2>7, MempoolStored DEF StoredStates
  <2> QED
    BY <2>1, <2>8 DEF StoredStates
<1>3. CASE TxsOf(b) = <<>>
  <2> DEFINE w == InsertMerkleBlock(vault, b)
             r == SyncMerkleBlock(b)
  <2>1. r.q = <<>> /\ r.v = w
    BY <1>3 DEF SyncMerkleBlock
  <2>2. Builds(vault, b, w) /\ b \in w.complete
    BY <1>1, <1>3, MerkleBlockBuilds
  <2> HIDE DEF w, r
  <2>3. Solid(w) /\ Ready(w, b)
    BY <1>1, <2>2, BuildsSolid
  <2>4. Stored(b, vault, r)
    BY <2>1, <2>2, <2>3 DEF Stored, Builds
  <2> QED
    BY <2>4 DEF r
<1> QED
  BY <1>2, <1>3

-----------------------------------------------------------------------------
(* Which block is asked for next.                                           *)

(* The tip is the highest block of the tree. *)
TipTop == \A c \in tree : Height(c) <= Height(tip)

(* The vault is full up to the tip, or the block c is asked for. *)
AsksFor(v, c, asked) ==
    /\ c \in tree /\ Ready(v, c)
    /\ m_lastRequestedMerkleBlockHash' = c
    /\ toPeer' = Append(asked, <<"getmerkle", c>>)

Continues(v, asked) ==
    \/ /\ m_lastSynchedMerkleBlockHash' = tip /\ Full(v, Height(tip))
       /\ m_lastRequestedMerkleBlockHash' = NoBlock
       /\ toPeer' = asked
    \/ /\ UNCHANGED m_lastSynchedMerkleBlockHash
       /\ \E c \in tree : AsksFor(v, c, asked)

(* A block between the start height and the tip, by its height. *)
LEMMA NextReady ==
    ASSUME OneChain, TreeOK, NEW v, NEW n \in Nat, StartHeight <= n, n <= Height(tip), Full(v, n - 1)
    PROVE  LET c == Path[tip][n + 1] IN c \in tree /\ Ready(v, c) /\ Height(c) = n
<1> DEFINE c == Path[tip][n + 1]
<1>1. tip \in Blocks /\ Height(tip) \in Nat /\ Len(Path[tip]) = Height(tip) + 1
  BY Heights DEF TreeOK
<1>2. n + 1 \in 1 .. Height(tip) + 1 /\ n + 1 \in 1 .. Len(Path[tip]) /\ (n + 1) - 1 = n
  BY <1>1
<1>3. c \in tree /\ Height(c) = n
  BY <1>1, <1>2, TipPath, PathPrefix
<1> HIDE DEF c
<1>4. Ready(v, c)
  BY <1>3 DEF Ready
<1> QED
  BY <1>3, <1>4 DEF c

(* After a complete block: the sync is at the tip, or goes on above it. *)
LEMMA AdvanceContinues ==
    ASSUME OneChain, TreeOK, TipTop, NEW b \in tree, NEW v, StartHeight <= Height(b),
           Full(v, Height(b)), NEW asked, Advance(b, asked)
    PROVE  Continues(v, asked)
<1>1. /\ tip \in Blocks /\ b \in Blocks /\ Height(tip) \in Nat /\ Height(b) \in Nat
      /\ Height(b) <= Height(tip) /\ (Height(b) = Height(tip) => b = tip) /\ StartHeight \in Nat
  BY ChainOrder DEF TreeOK, TipTop, OneChain
<1>2. CASE b = tip
  BY <1>2 DEF Advance, Continues
<1>3. CASE b # tip
  <2> DEFINE n == Height(b) + 1
             c == Path[tip][n + 1]
  <2>1. /\ n \in Nat /\ StartHeight <= n /\ n <= Height(tip) /\ Height(b) < Height(tip)
        /\ n - 1 = Height(b) /\ n + 1 = Height(b) + 2
    BY <1>1, <1>3
  <2>2. Full(v, n - 1)
    BY <2>1
  <2>3. /\ m_lastRequestedMerkleBlockHash' = c
        /\ toPeer' = Append(asked, <<"getmerkle", c>>)
        /\ UNCHANGED m_lastSynchedMerkleBlockHash
    BY <1>3, <2>1 DEF Advance
  <2> HIDE DEF n
  <2>4. c \in tree /\ Ready(v, c)
    BY <2>1, <2>2, NextReady
  <2> HIDE DEF c
  <2>5. AsksFor(v, c, asked)
    BY <2>3, <2>4 DEF AsksFor
  <2> QED
    BY <2>3, <2>4, <2>5 DEF Continues
<1> QED
  BY <1>2, <1>3

(* syncBlocks: the vault is full up to the tip, or the only block that is   *)
(* ready and not complete is asked for.                                     *)
Resumes(v, asked) ==
    /\ \/ /\ m_lastSynchedMerkleBlockHash' = tip /\ Full(v, Height(tip))
          /\ UNCHANGED m_lastRequestedMerkleBlockHash
          /\ toPeer' = asked
       \/ /\ m_lastSynchedMerkleBlockHash' = NoBlock
          /\ \E c \in tree : AsksFor(v, c, asked)
    /\ \A x \in tree : Ready(v, x) /\ x \notin v.complete => m_lastRequestedMerkleBlockHash' = x

(* syncBlocks does that. *)
LEMMA SyncBlocksResumes ==
    ASSUME OneChain, TreeOK, TipTop, StartHeight <= Height(tip), NEW v \in SoundVaults(tree),
           Solid(v), SyncBlocks(v)
    PROVE  m_bInsertMerkleBlocks' = TRUE /\ Resumes(v, toPeer)
<1> DEFINE known == {b \in Locator(v) : InBestChain(b)}
           from == CHOOSE b \in known : \A c \in known : Height(c) <= Height(b)
           i == IF known # {} THEN Height(from) + 1 ELSE Min({StartHeight, Height(tip)})
           start == Path[tip][1 + i]
<1>1. /\ tip \in Blocks /\ tree \subseteq Blocks /\ Height(tip) \in Nat
      /\ StartHeight \in Nat /\ StartHeight >= 1
      /\ v.complete \subseteq v.chain /\ v.chain \subseteq tree
  BY Heights, VaultFields DEF TreeOK, OneChain
<1>2. /\ m_bInsertMerkleBlocks' = TRUE
      /\ IF known # {} /\ Height(from) = Height(tip)
         THEN /\ m_lastSynchedMerkleBlockHash' = from
              /\ UNCHANGED <<m_lastRequestedMerkleBlockHash, toPeer>>
         ELSE /\ m_lastSynchedMerkleBlockHash' = NoBlock
              /\ m_lastRequestedMerkleBlockHash' = start
              /\ toPeer' = Append(toPeer, <<"getmerkle", start>>)
  BY DEF SyncBlocks
<1>3. \A b \in tree : b \in Blocks /\ Height(b) \in Nat /\ Height(b) <= Height(tip) /\ InBestChain(b)
  BY <1>1, ChainOrder DEF TipTop, InBestChain
<1>4. /\ known \subseteq v.chain /\ v.complete \subseteq known
      /\ \A b \in known : \E c \in v.complete : Height(b) <= Height(c)
  <2>1. \A b \in v.complete : Height(b) <= Height(b)
    BY <1>1, <1>3
  <2> QED
    BY <1>1, <1>3, <2>1 DEF Locator
<1> HIDE DEF known
<1>5. ASSUME known # {}
      PROVE  from \in v.complete /\ \A c \in known : Height(c) <= Height(from)
  <2> DEFINE S == {Height(b) : b \in known}
  <2>1. S \in SUBSET (0 .. Height(tip)) /\ S # {}
    BY <1>1, <1>3, <1>4, <1>5
  <2>2. \E x \in S : \A y \in S : x >= y
    <3> HIDE DEF S
    <3> QED
      BY <1>1, <2>1, Largest
  <2>3. PICK b \in known : \A y \in S : Height(b) >= y
    BY <2>2
  <2>4. \A c \in known : Height(c) \in S /\ Height(c) \in Nat /\ Height(b) \in Nat
    BY <1>1, <1>3, <1>4
  <2>5. \A c \in known : Height(c) <= Height(b)
    <3> HIDE DEF S
    <3> QED
      BY <2>3, <2>4
  <2>6. from \in known /\ \A c \in known : Height(c) <= Height(from)
    BY <2>5
  <2> HIDE DEF from
  <2>7. PICK c \in v.complete : Height(from) <= Height(c)
    BY <1>4, <2>6
  <2>8. Height(c) <= Height(from) /\ c \in Blocks /\ from \in Blocks
    BY <1>1, <1>3, <1>4, <2>6
  <2>9. Height(from) \in Nat /\ Height(c) \in Nat /\ (Height(from) = Height(c) => from = c)
    BY <2>8, ChainOrder
  <2>10. from = c
    BY <2>7, <2>8, <2>9
  <2> QED
    BY <2>6, <2>10
<1> HIDE DEF from
<1>6. ASSUME known # {}
      PROVE  /\ from \in tree /\ from \in Blocks /\ Height(from) \in Nat /\ Height(from) <= Height(tip)
             /\ StartHeight <= Height(from) /\ Full(v, Height(from))
  <2>1. from \in v.complete /\ from \in v.chain /\ from \in tree
    BY <1>1, <1>5, <1>6
  <2>2. Ready(v, from)
    BY <2>1 DEF Solid, Ready
  <2> QED
    BY <1>3, <2>1, <2>2, FullUpTo DEF Ready
<1>7. CASE known # {} /\ Height(from) = Height(tip)
  <2>1. from = tip
    BY <1>1, <1>6, <1>7, ChainOrder
  <2>2. Full(v, Height(tip))
    BY <1>6, <1>7
  <2>3. \A x \in tree : Ready(v, x) => x \in v.complete
    BY <1>3, <2>2 DEF Ready, Full
  <2> QED
    BY <1>2, <1>7, <2>1, <2>2, <2>3 DEF Resumes
<1>8. CASE ~ (known # {} /\ Height(from) = Height(tip))
  <2>1. i \in Nat /\ StartHeight <= i /\ i <= Height(tip)
    <3>1. CASE known # {}
      BY <1>1, <1>6, <1>8, <3>1
    <3>2. CASE known = {}
      <4>1. Min({StartHeight, Height(tip)}) = StartHeight
        <5>1. \E x \in {StartHeight, Height(tip)} : \A y \in {StartHeight, Height(tip)} : x =< y
          BY <1>1
        <5>2. /\ Min({StartHeight, Height(tip)}) \in {StartHeight, Height(tip)}
              /\ \A y \in {StartHeight, Height(tip)} : Min({StartHeight, Height(tip)}) =< y
          BY <5>1 DEF Min
        <5> QED
          BY <1>1, <5>2
      <4> QED
        BY <1>1, <3>2, <4>1
    <3> QED
      BY <3>1, <3>2
  <2>2. Full(v, i - 1)
    <3>1. CASE known # {}
      <4>1. i - 1 = Height(from)
        BY <1>6, <3>1
      <4> QED
        BY <1>6, <3>1, <4>1
    <3>2. CASE known = {}
      <4>1. i = Min({StartHeight, Height(tip)})
        BY <3>2
      <4>2. Min({StartHeight, Height(tip)}) \in 0 .. StartHeight
        <5>1. {StartHeight, Height(tip)} = {Height(tip), StartHeight}
          OBVIOUS
        <5> QED
          BY <1>1, <5>1, Smaller
      <4>3. i = StartHeight
        BY <1>1, <2>1, <4>1, <4>2
      <4> HIDE DEF i
      <4>4. \A c \in Blocks : Height(c) \in Nat
        BY Heights
      <4> QED
        BY <1>1, <4>3, <4>4 DEF Full
    <3> QED
      BY <3>1, <3>2
  <2>3. start \notin v.complete
    <3>1. i + 1 \in 1 .. Len(Path[tip]) /\ 1 + i = i + 1 /\ (i + 1) - 1 = i
      <4>1. Len(Path[tip]) = Height(tip) + 1
        BY <1>1, Heights
      <4> HIDE DEF i
      <4> QED
        BY <1>1, <2>1, <4>1
    <3>2. Height(start) = i
      <4> HIDE DEF i
      <4> QED
        BY <1>1, <3>1, PathPrefix
    <3> SUFFICES ASSUME start \in v.complete PROVE FALSE
      OBVIOUS
    <3>3. start \in known /\ known # {}
      BY <1>4
    <3> HIDE DEF start
    <3> QED
      BY <1>5, <1>6, <3>2, <3>3
  <2>4. Path[tip][i + 1] = start
    <3>1. i + 1 = 1 + i
      <4> HIDE DEF i
      <4> QED
        BY <2>1
    <3> QED
      BY <3>1
  <2>5. /\ m_lastSynchedMerkleBlockHash' = NoBlock
        /\ m_lastRequestedMerkleBlockHash' = start
        /\ toPeer' = Append(toPeer, <<"getmerkle", start>>)
    BY <1>2, <1>8
  <2> HIDE DEF start, i
  <2>6. start \in tree /\ Ready(v, start) /\ Height(start) = i
    BY <2>1, <2>2, <2>4, NextReady
  <2>7. ASSUME NEW x \in tree, Ready(v, x), x \notin v.complete PROVE x = start
    <3>1. /\ x \in Blocks /\ start \in Blocks /\ Height(x) \in Nat /\ Height(start) \in Nat
          /\ (Height(x) = Height(start) => x = start)
      BY <1>1, <2>6, ChainOrder
    <3>2. StartHeight <= Height(x) /\ Full(v, Height(x) - 1) /\ StartHeight <= Height(start)
      BY <2>6, <2>7 DEF Ready
    <3>3. ~ (Height(start) <= Height(x) - 1)
      BY <2>3, <3>1, <3>2 DEF Full
    <3>4. ~ (Height(x) <= i - 1)
      BY <2>2, <2>7, <3>1, <3>2 DEF Full
    <3> QED
      BY <2>1, <2>6, <3>1, <3>3, <3>4
  <2>8. AsksFor(v, start, toPeer)
    BY <2>5, <2>6 DEF AsksFor
  <2> QED
    BY <1>2, <2>5, <2>6, <2>7, <2>8 DEF Resumes
<1> QED
  BY <1>7, <1>8

-----------------------------------------------------------------------------
(* The connection before the headers are synched: no merkle block is above  *)
(* the tip when it arrives.                                                 *)

(* The height up to which a message, or the answer to a request, names      *)
(* blocks.                                                                  *)
Reaches(m) ==
    IF m[1] \in {"merkle", "invblock", "getmerkle"} THEN Height(m[2])
    ELSE IF m[1] = "headers" /\ m[2] # <<>> THEN Height(Last(m[2])) ELSE 0

AsksHeaders(r) == r[1] \in {"getheaders", "getheadersafter"}

(* With the tip at the height t, the headers us[k] are on their way, which  *)
(* take it to the height n, or end the phase.  Merkle blocks before them    *)
(* are not above the tip, and nothing that has been sent or asked for is    *)
(* above n.                                                                 *)
Covered(us, req, t, k, n) ==
    /\ k \in 1 .. Len(us) /\ us[k][1] = "headers"
    /\ n \in Nat /\ t <= n
    /\ us[k][2] = <<>> => n = t
    /\ us[k][2] # <<>> => n = Reaches(us[k])
    /\ \A j \in 1 .. k - 1 : /\ Reaches(us[j]) <= n
                             /\ us[j][1] = "merkle" => Reaches(us[j]) <= t
    /\ \A j \in 1 .. Len(us) : us[j][1] = "merkle" => Reaches(us[j]) <= n
    /\ \A j \in 1 .. Len(req) : Reaches(req[j]) <= n

(* Or the peer has been asked for headers by req[k], before it is asked for *)
(* a block above the tip.                                                   *)
Requested(us, req, t, k) ==
    /\ k \in 1 .. Len(req) /\ AsksHeaders(req[k])
    /\ \A j \in 1 .. Len(us) : us[j][1] = "merkle" => Reaches(us[j]) <= t
    /\ \A j \in 1 .. k - 1 : Reaches(req[j]) <= t

Due(us, req, t) ==
    \/ \E k, n \in Nat : Covered(us, req, t, k, n)
    \/ \E k \in Nat : Requested(us, req, t, k)

(* A queue of messages or requests. *)
Reaching(S) == \A m \in S : Reaches(m) \in Nat

(* A merkle block at the front is not above the tip. *)
LEMMA DueMerkle ==
    ASSUME NEW us, us # <<>>, NEW S, us \in Seq(S), NEW req, NEW t, Due(us, req, t),
           Head(us)[1] = "merkle"
    PROVE  Reaches(Head(us)) <= t
<1>1. Len(us) \in Nat /\ 1 \in 1 .. Len(us) /\ Head(us) = us[1]
  OBVIOUS
<1>2. ASSUME NEW k \in Nat, NEW n \in Nat, Covered(us, req, t, k, n) PROVE Reaches(us[1]) <= t
  <2>1. k # 1 /\ k \in 1 .. Len(us)
    BY <1>1, <1>2 DEF Covered
  <2>2. 1 \in 1 .. k - 1
    BY <1>1, <2>1
  <2> QED
    BY <1>1, <1>2, <2>2 DEF Covered
<1>3. ASSUME NEW k \in Nat, Requested(us, req, t, k) PROVE Reaches(us[1]) <= t
  BY <1>1, <1>3 DEF Requested
<1> QED
  BY <1>1, <1>2, <1>3 DEF Due

(* Messages that are not merkle blocks are sent. *)
LEMMA DueSent ==
    ASSUME NEW S, NEW us \in Seq(S), NEW more \in Seq(S), NEW req, NEW t, Due(us, req, t),
           \A j \in 1 .. Len(more) : more[j][1] # "merkle"
    PROVE  Due(us \o more, req, t)
<1> DEFINE u == us \o more
<1>1. /\ Len(us) \in Nat /\ Len(more) \in Nat /\ Len(u) = Len(us) + Len(more)
      /\ \A j \in 1 .. Len(us) : u[j] = us[j]
      /\ \A j \in 1 .. Len(u) : j > Len(us) => j - Len(us) \in 1 .. Len(more) /\ u[j] = more[j - Len(us)]
  OBVIOUS
<1> HIDE DEF u
<1>2. \A j \in 1 .. Len(u) : u[j][1] = "merkle" => j \in 1 .. Len(us) /\ u[j] = us[j]
  BY <1>1
<1>3. ASSUME NEW k \in Nat, NEW n \in Nat, Covered(us, req, t, k, n) PROVE Covered(u, req, t, k, n)
  <2>1. k \in 1 .. Len(us) /\ k \in 1 .. Len(u) /\ u[k] = us[k]
    BY <1>1, <1>3 DEF Covered
  <2>2. \A j \in 1 .. k - 1 : j \in 1 .. Len(us) /\ u[j] = us[j]
    BY <1>1, <2>1
  <2> QED
    BY <1>2, <1>3, <2>1, <2>2 DEF Covered
<1>4. ASSUME NEW k \in Nat, Requested(us, req, t, k) PROVE Requested(u, req, t, k)
  BY <1>2, <1>4 DEF Requested
<1>5. Due(u, req, t)
  BY <1>3, <1>4 DEF Due
<1> QED
  BY <1>5 DEF u

(* The same for one message. *)
LEMMA DueAnnounced ==
    ASSUME NEW S, NEW us \in Seq(S), NEW m \in S, NEW req, NEW t, Due(us, req, t), m[1] # "merkle"
    PROVE  Due(Append(us, m), req, t)
<1> DEFINE more == <<m>>
<1>1. more \in Seq(S) /\ Len(more) = 1 /\ \A j \in 1 .. Len(more) : more[j] = m
  OBVIOUS
<1>2. Append(us, m) = us \o more
  OBVIOUS
<1> HIDE DEF more
<1>3. \A j \in 1 .. Len(more) : more[j][1] # "merkle"
  BY <1>1
<1>4. Due(us \o more, req, t)
  BY <1>1, <1>3, DueSent
<1> QED
  BY <1>2, <1>4

(* A message that is not headers is taken, and a block not above what it    *)
(* names may be asked for.                                                  *)
LEMMA DueTaken ==
    ASSUME NEW S, NEW us \in Seq(S), us # <<>>, Reaching(S), NEW R, NEW req \in Seq(R),
           NEW r \in R, NEW asked \in {req, Append(req, r)},
           NEW t \in Nat, Due(us, req, t), Head(us)[1] # "headers",
           Reaches(r) \in {0, Reaches(Head(us))}
    PROVE  Due(Tail(us), asked, t)
<1> DEFINE u == Tail(us)
<1>1. /\ Len(us) \in Nat /\ Len(us) >= 1 /\ Head(us) = us[1] /\ Len(u) = Len(us) - 1
      /\ \A j \in 1 .. Len(u) : u[j] = us[j + 1] /\ j + 1 \in 1 .. Len(us)
      /\ \A j \in 1 .. Len(us) : us[j] \in S
  OBVIOUS
<1>2. /\ Len(req) \in Nat /\ \A j \in 1 .. Len(req) : asked[j] = req[j]
      /\ Len(asked) \in Nat /\ Len(asked) >= Len(req)
      /\ \A j \in 1 .. Len(asked) : j \in 1 .. Len(req) \/ asked[j] = r
  OBVIOUS
<1>a. \A j \in 1 .. Len(us) : Reaches(us[j]) \in Nat
  BY <1>1 DEF Reaching
<1> HIDE DEF u
<1>3. ASSUME NEW k \in Nat, NEW n \in Nat, Covered(us, req, t, k, n)
      PROVE  Covered(u, asked, t, k - 1, n) /\ k - 1 \in Nat
  <2>1. k \in 1 .. Len(us) /\ k # 1
    BY <1>1, <1>3 DEF Covered
  <2>2. k - 1 \in 1 .. Len(u) /\ k - 1 \in Nat /\ u[k - 1] = us[k]
    BY <1>1, <2>1
  <2>3. \A j \in 1 .. (k - 1) - 1 : u[j] = us[j + 1] /\ j + 1 \in 1 .. k - 1
    BY <1>1, <2>1
  <2>4. \A j \in 1 .. (k - 1) - 1 : /\ Reaches(u[j]) <= n
                                    /\ u[j][1] = "merkle" => Reaches(u[j]) <= t
    BY <1>3, <2>3 DEF Covered
  <2>5. \A j \in 1 .. Len(u) : u[j][1] = "merkle" => Reaches(u[j]) <= n
    BY <1>1, <1>3 DEF Covered
  <2>6. Reaches(r) <= n
    <3>1. 1 \in 1 .. k - 1
      BY <2>1
    <3>2. Reaches(us[1]) <= n
      BY <1>3, <3>1 DEF Covered
    <3> QED
      BY <1>1, <3>2
  <2>7. \A j \in 1 .. Len(asked) : Reaches(asked[j]) <= n
    BY <1>2, <1>3, <2>6 DEF Covered
  <2> QED
    BY <1>3, <2>2, <2>4, <2>5, <2>7 DEF Covered
<1>4. ASSUME NEW k \in Nat, Requested(us, req, t, k) PROVE Requested(u, asked, t, k)
  <2>1. k \in 1 .. Len(req) /\ k \in 1 .. Len(asked) /\ asked[k] = req[k]
    BY <1>2, <1>4 DEF Requested
  <2>2. \A j \in 1 .. k - 1 : j \in 1 .. Len(req) /\ asked[j] = req[j]
    BY <1>2, <2>1
  <2> QED
    BY <1>1, <1>4, <2>1, <2>2 DEF Requested
<1>5. Due(u, asked, t)
  BY <1>3, <1>4 DEF Due
<1> QED
  BY <1>5 DEF u

(* Headers are taken, and the next asked for unless a higher tip is known:  *)
(* the tip is at the height h then.                                         *)
LEMMA DueHeaders ==
    ASSUME NEW S, NEW us \in Seq(S), us # <<>>, Reaching(S), NEW R, Reaching(R),
           NEW req \in Seq(R), NEW r \in R, AsksHeaders(r), NEW asked \in {req, Append(req, r)},
           NEW t \in Nat, Due(us, req, t), Head(us)[1] = "headers", Head(us)[2] # <<>>,
           NEW h \in {t, Reaches(Head(us))}, t <= h, Reaches(Head(us)) <= h,
           h = Reaches(Head(us)) => asked = Append(req, r)
    PROVE  Due(Tail(us), asked, h)
<1> DEFINE u == Tail(us)
<1>1. /\ Len(us) \in Nat /\ Len(us) >= 1 /\ Head(us) = us[1] /\ Len(u) = Len(us) - 1
      /\ \A j \in 1 .. Len(u) : u[j] = us[j + 1] /\ j + 1 \in 1 .. Len(us)
      /\ \A j \in 1 .. Len(us) : us[j] \in S
  OBVIOUS
<1>2. /\ Len(req) \in Nat /\ \A j \in 1 .. Len(req) : asked[j] = req[j]
      /\ Len(asked) \in Nat /\ Len(asked) >= Len(req)
      /\ \A j \in 1 .. Len(asked) : j \in 1 .. Len(req) \/ asked[j] = r
  OBVIOUS
<1>d. asked = Append(req, r) => Len(asked) = Len(req) + 1 /\ asked[Len(req) + 1] = r
  <2>1. Len(Append(req, r)) = Len(req) + 1 /\ Append(req, r)[Len(req) + 1] = r
    OBVIOUS
  <2> QED
    BY ONLY <2>1
<1>a. /\ \A j \in 1 .. Len(us) : Reaches(us[j]) \in Nat
      /\ \A j \in 1 .. Len(u) : Reaches(u[j]) \in Nat
      /\ \A j \in 1 .. Len(req) : Reaches(req[j]) \in Nat
  BY <1>1 DEF Reaching
<1>b. h \in Nat
  BY <1>1, <1>a
<1>c. Reaches(r) = 0
  BY DEF Reaches, AsksHeaders
<1> HIDE DEF u
<1>3. ASSUME NEW n \in Nat, Covered(us, req, t, 1, n)
      PROVE  Requested(u, asked, h, Len(req) + 1)
  <2>1. n = Reaches(us[1]) /\ t <= n
    BY <1>1, <1>3 DEF Covered
  <2>2. h = n
    BY <1>1, <2>1
  <2>3. Len(req) + 1 \in 1 .. Len(asked) /\ asked[Len(req) + 1] = r
    BY <1>1, <1>2, <1>d, <2>1, <2>2
  <2>4. \A j \in 1 .. Len(u) : u[j][1] = "merkle" => Reaches(u[j]) <= n
    BY <1>1, <1>3 DEF Covered
  <2>5. \A j \in 1 .. (Len(req) + 1) - 1 : j \in 1 .. Len(req) /\ asked[j] = req[j]
    BY <1>2
  <2>6. \A j \in 1 .. (Len(req) + 1) - 1 : Reaches(asked[j]) <= n
    BY <1>3, <2>5 DEF Covered
  <2> QED
    BY <2>2, <2>3, <2>4, <2>6 DEF Requested
<1>4. ASSUME NEW k \in Nat, NEW n \in Nat, Covered(us, req, t, k, n), k # 1
      PROVE  Covered(u, asked, h, k - 1, n) /\ k - 1 \in Nat
  <2>1. k \in 1 .. Len(us) /\ 1 \in 1 .. k - 1
    BY <1>1, <1>4 DEF Covered
  <2>2. k - 1 \in 1 .. Len(u) /\ k - 1 \in Nat /\ u[k - 1] = us[k]
    BY <1>1, <1>4, <2>1
  <2>3. Reaches(us[1]) <= n /\ t <= n
    BY <1>4, <2>1 DEF Covered
  <2>4. h <= n /\ (n = t => n = h)
    BY <1>1, <1>b, <2>3
  <2>5. \A j \in 1 .. (k - 1) - 1 : u[j] = us[j + 1] /\ j + 1 \in 1 .. k - 1 /\ j \in 1 .. Len(u)
    BY <1>1, <2>1
  <2>6. \A j \in 1 .. (k - 1) - 1 : /\ Reaches(u[j]) <= n
                                    /\ u[j][1] = "merkle" => Reaches(u[j]) <= t
    BY <1>4, <2>5 DEF Covered
  <2>7. \A j \in 1 .. (k - 1) - 1 : u[j][1] = "merkle" => Reaches(u[j]) <= h
    <3>1. ASSUME NEW j \in 1 .. (k - 1) - 1, u[j][1] = "merkle" PROVE Reaches(u[j]) <= h
      <4>1. Reaches(u[j]) \in Nat /\ Reaches(u[j]) <= t
        BY <1>a, <2>5, <2>6, <3>1
      <4> QED
        BY <1>b, <4>1
    <3> QED
      BY <3>1
  <2>8. \A j \in 1 .. Len(u) : u[j][1] = "merkle" => Reaches(u[j]) <= n
    BY <1>1, <1>4 DEF Covered
  <2>9. \A j \in 1 .. Len(asked) : Reaches(asked[j]) <= n
    BY <1>2, <1>4, <1>c DEF Covered
  <2> QED
    BY <1>4, <2>2, <2>4, <2>6, <2>7, <2>8, <2>9 DEF Covered
<1>5. ASSUME NEW k \in Nat, Requested(us, req, t, k)
      PROVE  Requested(u, asked, h, k)
  <2>1. k \in 1 .. Len(req) /\ k \in 1 .. Len(asked) /\ asked[k] = req[k] /\ AsksHeaders(req[k])
    BY <1>2, <1>5 DEF Requested
  <2>2. \A j \in 1 .. k - 1 : j \in 1 .. Len(req) /\ asked[j] = req[j]
    BY <1>2, <2>1
  <2>3. \A j \in 1 .. Len(u) : u[j][1] = "merkle" => Reaches(u[j]) <= t
    BY <1>1, <1>5 DEF Requested
  <2>4. \A j \in 1 .. Len(u) : u[j][1] = "merkle" => Reaches(u[j]) <= h
    <3>1. ASSUME NEW j \in 1 .. Len(u), u[j][1] = "merkle" PROVE Reaches(u[j]) <= h
      <4>1. Reaches(u[j]) \in Nat /\ Reaches(u[j]) <= t
        BY <1>a, <2>3, <3>1
      <4> QED
        BY <1>b, <4>1
    <3> QED
      BY <3>1
  <2>5. \A j \in 1 .. k - 1 : Reaches(asked[j]) <= h
    <3>1. ASSUME NEW j \in 1 .. k - 1 PROVE Reaches(asked[j]) <= h
      <4>1. Reaches(req[j]) \in Nat /\ Reaches(req[j]) <= t /\ asked[j] = req[j]
        BY <1>5, <1>a, <2>2 DEF Requested
      <4> QED
        BY <1>b, <4>1
    <3> QED
      BY <3>1
  <2> QED
    BY <2>1, <2>4, <2>5 DEF Requested
<1>6. ASSUME NEW k \in Nat, NEW n \in Nat, Covered(us, req, t, k, n) PROVE Due(u, asked, h)
  <2>1. CASE k = 1
    <3>1. Requested(u, asked, h, Len(req) + 1)
      BY <1>3, <1>6, <2>1
    <3>2. Len(req) + 1 \in Nat
      BY <1>2
    <3> QED
      BY <3>1, <3>2 DEF Due
  <2>2. CASE k # 1
    BY <1>4, <1>6, <2>2 DEF Due
  <2> QED
    BY <2>1, <2>2
<1>7. Due(u, asked, h)
  BY <1>5, <1>6 DEF Due
<1> QED
  BY <1>7 DEF u

(* The peer answers a request for something else: a merkle block that it    *)
(* sends was asked for.                                                     *)
LEMMA DueReplied ==
    ASSUME NEW S, NEW us \in Seq(S), NEW more \in Seq(S), Reaching(S), NEW R, Reaching(R),
           NEW req \in Seq(R), req # <<>>, NEW t \in Nat, Due(us, req, t),
           ~ AsksHeaders(Head(req)),
           \A j \in 1 .. Len(more) : more[j][1] = "merkle" => Reaches(more[j]) = Reaches(Head(req))
    PROVE  Due(us \o more, Tail(req), t)
<1> DEFINE u == us \o more
           q == Tail(req)
<1>1. /\ Len(us) \in Nat /\ Len(more) \in Nat /\ Len(u) = Len(us) + Len(more)
      /\ \A j \in 1 .. Len(us) : u[j] = us[j]
      /\ \A j \in 1 .. Len(u) : j > Len(us) => j - Len(us) \in 1 .. Len(more) /\ u[j] = more[j - Len(us)]
  OBVIOUS
<1>2. /\ Len(req) \in Nat /\ Len(req) >= 1 /\ Head(req) = req[1] /\ Len(q) = Len(req) - 1
      /\ \A j \in 1 .. Len(q) : q[j] = req[j + 1] /\ j + 1 \in 1 .. Len(req)
  OBVIOUS
<1> HIDE DEF u, q
<1>3. \A j \in 1 .. Len(u) : u[j][1] = "merkle" =>
          \/ j \in 1 .. Len(us) /\ u[j] = us[j]
          \/ Reaches(u[j]) = Reaches(req[1])
  <2> SUFFICES ASSUME NEW j \in 1 .. Len(u), u[j][1] = "merkle", j \notin 1 .. Len(us)
               PROVE  Reaches(u[j]) = Reaches(req[1])
    BY <1>1
  <2>1. j > Len(us)
    BY <1>1
  <2>2. j - Len(us) \in 1 .. Len(more) /\ u[j] = more[j - Len(us)]
    BY <1>1, <2>1
  <2> DEFINE i == j - Len(us)
  <2>3. i \in 1 .. Len(more) /\ u[j] = more[i]
    BY <2>2
  <2> HIDE DEF i
  <2> QED
    BY <1>2, <2>3
<1>4. ASSUME NEW k \in Nat, NEW n \in Nat, Covered(us, req, t, k, n) PROVE Covered(u, q, t, k, n)
  <2>1. k \in 1 .. Len(us) /\ k \in 1 .. Len(u) /\ u[k] = us[k]
    BY <1>1, <1>4 DEF Covered
  <2>2. \A j \in 1 .. k - 1 : j \in 1 .. Len(us) /\ u[j] = us[j]
    BY <1>1, <2>1
  <2>3. Reaches(req[1]) <= n /\ \A j \in 1 .. Len(q) : Reaches(q[j]) <= n
    BY <1>2, <1>4 DEF Covered
  <2>4. \A j \in 1 .. Len(u) : u[j][1] = "merkle" => Reaches(u[j]) <= n
    BY <1>3, <1>4, <2>3 DEF Covered
  <2> QED
    BY <1>4, <2>1, <2>2, <2>3, <2>4 DEF Covered
<1>5. ASSUME NEW k \in Nat, Requested(us, req, t, k) PROVE Requested(u, q, t, k - 1) /\ k - 1 \in Nat
  <2>1. k \in 1 .. Len(req) /\ k # 1 /\ AsksHeaders(req[k])
    BY <1>2, <1>5 DEF Requested
  <2>2. k - 1 \in 1 .. Len(q) /\ k - 1 \in Nat /\ q[k - 1] = req[k] /\ 1 \in 1 .. k - 1
    BY <1>2, <2>1
  <2>3. \A j \in 1 .. (k - 1) - 1 : q[j] = req[j + 1] /\ j + 1 \in 1 .. k - 1
    <3>1. \A j \in 1 .. (k - 1) - 1 : j \in 1 .. Len(q) /\ j + 1 \in 1 .. k - 1
      BY <1>2, <2>1
    <3> QED
      BY <1>2, <3>1
  <2>4. Reaches(req[1]) <= t /\ \A j \in 1 .. (k - 1) - 1 : Reaches(q[j]) <= t
    BY <1>5, <2>2, <2>3 DEF Requested
  <2>5. \A j \in 1 .. Len(u) : u[j][1] = "merkle" => Reaches(u[j]) <= t
    BY <1>3, <1>5, <2>4 DEF Requested
  <2> QED
    BY <2>1, <2>2, <2>4, <2>5 DEF Requested
<1>6. Due(u, q, t)
  BY <1>4, <1>5 DEF Due
<1> QED
  BY <1>6 DEF u, q

(* It answers with headers up to its tip, at the height p, or with none if  *)
(* the tip is as high.                                                      *)
LEMMA DueAnswered ==
    ASSUME NEW S, NEW us \in Seq(S), NEW m \in S, Reaching(S), NEW R, Reaching(R),
           NEW req \in Seq(R), req # <<>>, NEW t \in Nat, Due(us, req, t),
           AsksHeaders(Head(req)), m[1] = "headers", NEW p \in Nat, t <= p,
           m[2] = <<>> => t = p, m[2] # <<>> => Reaches(m) = p,
           \A x \in S : Reaches(x) <= p, \A x \in R : Reaches(x) <= p
    PROVE  Due(us \o <<m>>, Tail(req), t)
<1> DEFINE u == us \o <<m>>
           q == Tail(req)
<1>1. /\ Len(us) \in Nat /\ Len(u) = Len(us) + 1
      /\ \A j \in 1 .. Len(us) : u[j] = us[j] /\ us[j] \in S
      /\ u[Len(us) + 1] = m
      /\ \A j \in 1 .. Len(u) : j \in 1 .. Len(us) \/ j = Len(us) + 1
  OBVIOUS
<1>2. /\ Len(req) \in Nat /\ Len(req) >= 1 /\ Head(req) = req[1] /\ Len(q) = Len(req) - 1
      /\ \A j \in 1 .. Len(q) : q[j] = req[j + 1] /\ j + 1 \in 1 .. Len(req)
      /\ \A j \in 1 .. Len(req) : req[j] \in R
  OBVIOUS
<1>a. /\ \A j \in 1 .. Len(us) : Reaches(us[j]) <= p
      /\ \A j \in 1 .. Len(q) : Reaches(q[j]) <= p
  BY <1>1, <1>2
<1> HIDE DEF u, q
<1>3. \A j \in 1 .. Len(u) : u[j][1] = "merkle" => j \in 1 .. Len(us) /\ u[j] = us[j]
  BY <1>1
<1>4. ASSUME NEW k \in Nat, NEW n \in Nat, Covered(us, req, t, k, n) PROVE Covered(u, q, t, k, n)
  <2>1. k \in 1 .. Len(us) /\ k \in 1 .. Len(u) /\ u[k] = us[k]
    BY <1>1, <1>4 DEF Covered
  <2>2. \A j \in 1 .. k - 1 : j \in 1 .. Len(us) /\ u[j] = us[j]
    BY <1>1, <2>1
  <2>3. \A j \in 1 .. Len(q) : Reaches(q[j]) <= n
    BY <1>2, <1>4 DEF Covered
  <2> QED
    BY <1>3, <1>4, <2>1, <2>2, <2>3 DEF Covered
<1>5. ASSUME NEW k \in Nat, Requested(us, req, t, k), k # 1
      PROVE  Requested(u, q, t, k - 1) /\ k - 1 \in Nat
  <2>1. k \in 1 .. Len(req) /\ AsksHeaders(req[k])
    BY <1>2, <1>5 DEF Requested
  <2>2. k - 1 \in 1 .. Len(q) /\ k - 1 \in Nat /\ q[k - 1] = req[k]
    BY <1>2, <1>5, <2>1
  <2>3. \A j \in 1 .. (k - 1) - 1 : q[j] = req[j + 1] /\ j + 1 \in 1 .. k - 1
    <3>1. \A j \in 1 .. (k - 1) - 1 : j \in 1 .. Len(q) /\ j + 1 \in 1 .. k - 1
      BY <1>2, <2>1
    <3> QED
      BY <1>2, <3>1
  <2> QED
    BY <1>3, <1>5, <2>1, <2>2, <2>3 DEF Requested
<1>6. ASSUME Requested(us, req, t, 1) PROVE Covered(u, q, t, Len(us) + 1, p)
  <2> DEFINE l == Len(us) + 1
  <2>1. l \in 1 .. Len(u) /\ u[l] = m /\ \A j \in 1 .. l - 1 : j \in 1 .. Len(us) /\ u[j] = us[j]
    BY <1>1
  <2> HIDE DEF l
  <2>2. \A j \in 1 .. Len(us) : us[j][1] = "merkle" => Reaches(us[j]) <= t
    BY <1>6 DEF Requested
  <2>3. \A j \in 1 .. l - 1 : Reaches(u[j]) <= p /\ (u[j][1] = "merkle" => Reaches(u[j]) <= t)
    BY <1>a, <2>1, <2>2
  <2>4. \A j \in 1 .. Len(u) : u[j][1] = "merkle" => Reaches(u[j]) <= p
    BY <1>3, <1>a
  <2>5. Covered(u, q, t, l, p)
    BY <1>a, <2>1, <2>3, <2>4 DEF Covered
  <2> QED
    BY <2>5 DEF l
<1>7. ASSUME NEW k \in Nat, Requested(us, req, t, k) PROVE Due(u, q, t)
  <2>1. CASE k = 1
    <3>1. Covered(u, q, t, Len(us) + 1, p) /\ Len(us) + 1 \in Nat
      BY <1>1, <1>6, <1>7, <2>1
    <3> QED
      BY <3>1 DEF Due
  <2>2. CASE k # 1
    BY <1>5, <1>7, <2>2 DEF Due
  <2> QED
    BY <2>1, <2>2
<1>8. Due(u, q, t)
  BY <1>4, <1>7 DEF Due
<1> QED
  BY <1>8 DEF u, q

-----------------------------------------------------------------------------
(* What is on its way.                                                      *)

(* Messages name no block above the height n; there are no empty headers    *)
(* unless the headers have come as far as the start height, and only whole  *)
(* blocks of F.                                                             *)
News(T, n, F, started) ==
    {m \in Messages(T) : /\ Reaches(m) <= n
                         /\ m[1] = "headers" /\ m[2] = <<>> => started
                         /\ m[1] = "block" => m[2] \in F}

(* The same for requests. *)
Asked(T, n, F) ==
    {r \in Requests(T) : Reaches(r) <= n /\ (r[1] = "getblock" => r[2] \in F)}

(* The heights are numbers. *)
LEMMA WireReaches ==
    ASSUME NEW T \in SUBSET Blocks
    PROVE  Reaching(Messages(T)) /\ Reaching(Requests(T))
<1>1. \A b \in Blocks : Height(b) \in Nat
  BY Heights
<1>2. ASSUME NEW m \in Messages(T) PROVE Reaches(m) \in Nat
  <2>1. CASE m \in {"headers"} \X Segments(T)
    <3>1. m[2] \in Seq(Blocks)
      BY <2>1 DEF Segments
    <3>2. m[2] # <<>> => Last(m[2]) \in Blocks
      BY <3>1 DEF Last
    <3> QED
      BY <1>1, <2>1, <3>2 DEF Reaches
  <2>2. CASE m \in {"merkle", "block", "invblock"} \X Blocks
    BY <1>1, <2>2 DEF Reaches
  <2>3. CASE m \in {"tx", "invtx"} \X Ours
    BY <2>3 DEF Reaches
  <2> QED
    BY <2>1, <2>2, <2>3 DEF Messages
<1>3. ASSUME NEW r \in Requests(T) PROVE Reaches(r) \in Nat
  BY <1>1, T \subseteq Blocks DEF Reaches, Requests
<1> QED
  BY <1>2, <1>3 DEF Reaching

(* What is on its way stays valid while the tree, the peer's chain and the  *)
(* blocks to be fetched grow.                                               *)
LEMMA NewsGrow ==
    ASSUME NEW T \in SUBSET Blocks, NEW U \in SUBSET Blocks, T \subseteq U, NEW n \in Nat,
           NEW p \in Nat, n <= p, NEW F, NEW G, F \subseteq G, NEW a \in BOOLEAN,
           NEW c \in BOOLEAN, a => c
    PROVE  News(T, n, F, a) \subseteq News(U, p, G, c) /\ Asked(T, n, F) \subseteq Asked(U, p, G)
<1>1. Requests(T) \subseteq Requests(U) /\ Messages(T) \subseteq Messages(U)
  BY WireGrows
<1>2. Reaching(Messages(T)) /\ Reaching(Requests(T))
  BY WireReaches
<1>3. ASSUME NEW m \in News(T, n, F, a) PROVE m \in News(U, p, G, c)
  <2>1. m \in Messages(T) /\ Reaches(m) <= n /\ Reaches(m) \in Nat
    BY <1>2, <1>3 DEF News, Reaching
  <2>2. Reaches(m) <= p
    BY <2>1
  <2> QED
    BY <1>1, <1>3, <2>1, <2>2 DEF News
<1>4. ASSUME NEW r \in Asked(T, n, F) PROVE r \in Asked(U, p, G)
  <2>1. r \in Requests(T) /\ Reaches(r) <= n /\ Reaches(r) \in Nat
    BY <1>2, <1>4 DEF Asked, Reaching
  <2>2. Reaches(r) <= p
    BY <2>1
  <2> QED
    BY <1>1, <1>4, <2>1, <2>2 DEF Asked
<1> QED
  BY <1>3, <1>4

(* On one chain headers lead to the peer's tip, and there are none only if  *)
(* the block they were asked from is as high.                               *)
LEMMA HeadersToTip ==
    ASSUME OneChain, peerTip \in Blocks, NEW r, r[2] \in Blocks, AsksHeaders(r)
    PROVE  /\ HeadersAfter(r) = <<>> => Height(peerTip) <= Height(r[2])
           /\ HeadersAfter(r) # <<>> => Last(HeadersAfter(r)) = peerTip
<1> DEFINE p == Path[peerTip]
           n == IF r[1] = "getheaders" THEN CommonPrefix(p, Path[r[2]])
                ELSE IF r[2] \in Range(p) THEN Height(r[2]) + 1 ELSE 1
           h == SubSeq(p, n + 1, Len(p))
<1>1. HeadersAfter(r) = h
  BY DEF HeadersAfter
<1>2. /\ p \in Seq(Blocks) /\ Len(p) \in Nat /\ Len(p) = Height(peerTip) + 1
      /\ Height(peerTip) \in Nat /\ Height(r[2]) \in Nat /\ p[Len(p)] = peerTip
  BY Heights
<1>3. n \in 1 .. Len(p) \/ (n \in Nat /\ n >= Len(p) /\ Height(peerTip) <= Height(r[2]))
  <2>1. CASE r[1] = "getheaders"
    BY <2>1, CommonBlock
  <2>2. CASE r[1] # "getheaders" /\ r[2] \in Range(p)
    BY <1>2, <2>2
  <2>3. CASE r[1] # "getheaders" /\ r[2] \notin Range(p)
    BY <1>2, <2>3
  <2> QED
    BY <2>1, <2>2, <2>3
<1>4. ASSUME n = Len(p) PROVE Height(peerTip) <= Height(r[2])
  <2>1. CASE r[1] = "getheaders"
    <3>1. p[n] \in Range(Path[r[2]])
      BY <2>1, CommonBlock
    <3>2. peerTip \in Range(Path[r[2]])
      <4> HIDE DEF n, p
      <4> QED
        BY <1>2, <1>4, <3>1
    <3>3. /\ Path[r[2]] \in Seq(Blocks) /\ Len(Path[r[2]]) = Height(r[2]) + 1
      BY Heights
    <3>4. PICK i \in 1 .. Len(Path[r[2]]) : peerTip = Path[r[2]][i]
      BY <3>2, <3>3 DEF Range
    <3>5. Height(peerTip) = i - 1
      BY <3>4, PathPrefix
    <3> QED
      BY <1>2, <3>3, <3>5
  <2>2. CASE r[1] # "getheaders" /\ r[2] \in Range(p)
    BY <1>2, <1>4, <2>2
  <2>3. CASE r[1] # "getheaders" /\ r[2] \notin Range(p)
    <3>1. ~ (Height(r[2]) <= Height(peerTip))
      BY <2>3, ChainOrder
    <3> QED
      BY <1>2, <3>1
  <2> QED
    BY <2>1, <2>2, <2>3
<1> HIDE DEF n, p
<1>5. CASE n \in Nat /\ n >= Len(p)
  <2>1. h = <<>>
    BY <1>2, <1>5
  <2> QED
    BY <1>1, <1>2, <1>3, <1>4, <1>5, <2>1
<1>6. CASE n \in 1 .. Len(p) /\ n # Len(p)
  <2>1. h \in Seq(Blocks) /\ Len(h) = Len(p) - n /\ Len(p) - n >= 1
    BY <1>2, <1>6
  <2>2. h[Len(h)] = p[Len(p)] /\ h # <<>>
    BY <1>2, <1>6, <2>1
  <2> QED
    BY <1>1, <1>2, <2>2 DEF Last
<1> QED
  BY <1>2, <1>3, <1>5, <1>6

(* So the peer's answers name no block above its tip, and a merkle block is *)
(* the one it was asked for.                                                *)
LEMMA ReplyNews ==
    ASSUME OneChain, NEW T \in SUBSET Blocks, Closed(T), peerTip \in Blocks, NEW F,
           NEW started \in BOOLEAN, NEW r \in Asked(T, Height(peerTip), F),
           AsksHeaders(r) /\ HeadersAfter(r) = <<>> => started
    PROVE  /\ Reply(r) \in Seq(News(T, Height(peerTip), F, started))
           /\ AsksHeaders(r) => Reply(r) = <<<<"headers", HeadersAfter(r)>>>>
           /\ ~ AsksHeaders(r) => \A j \in 1 .. Len(Reply(r)) :
                Reply(r)[j][1] = "merkle" => Reaches(Reply(r)[j]) = Reaches(r)
<1> DEFINE N == News(T, Height(peerTip), F, started)
<1>1. /\ r \in Requests(T) /\ Reaches(r) <= Height(peerTip) /\ (r[1] = "getblock" => r[2] \in F)
      /\ Height(peerTip) \in Nat
  BY Heights DEF Asked
<1>2. CASE r \in {"getheaders", "getheadersafter"} \X T
  <2> DEFINE m == <<"headers", HeadersAfter(r)>>
  <2>1. AsksHeaders(r) /\ Reply(r) = <<m>> /\ r[2] \in Blocks
    BY <1>2 DEF Reply, AsksHeaders
  <2>2. m \in Messages(T)
    BY <1>2, HeadersConnect DEF Messages
  <2>3. HeadersAfter(r) # <<>> => Last(HeadersAfter(r)) = peerTip
    BY <2>1, HeadersToTip
  <2>4. Reaches(m) <= Height(peerTip)
    BY <1>1, <2>3 DEF Reaches
  <2>5. m \in N
    BY <2>1, <2>2, <2>4 DEF News
  <2> HIDE DEF N, m
  <2>6. <<m>> \in Seq(N)
    BY <2>5
  <2> QED
    BY <2>1, <2>6 DEF N, m
<1>3. CASE r \in {"getmerkle"} \X Blocks
  <2> DEFINE S == IF SkipsKnown THEN Ours \ sent ELSE Ours
             x == Matched(TxsOf(r[2]), S)
             y == TxMessages(x)
             m == <<"merkle", r[2]>>
  <2>1. Reply(r) = <<m>> \o y /\ ~ AsksHeaders(r)
    BY <1>3 DEF Reply, AsksHeaders
  <2>2. TxsOf(r[2]) \in Seq(Ours)
    BY <1>3, TxsOfBlock
  <2>3. S \subseteq Ours
    OBVIOUS
  <2> HIDE DEF S
  <2>4. x \in Seq(S)
    BY <2>2, MatchedInOrder
  <2>5. x \in Seq(Ours)
    BY <2>3, <2>4, SeqGrows
  <2> HIDE DEF x
  <2>6. ASSUME NEW i \in 1 .. Len(x) PROVE <<"tx", x[i]>> \in N
    <3>1. x[i] \in Ours
      BY <2>5
    <3>2. <<"tx", x[i]>> \in Messages(T)
      BY <3>1 DEF Messages
    <3>3. Reaches(<<"tx", x[i]>>) = 0
      BY DEF Reaches
    <3> QED
      BY <1>1, <3>2, <3>3 DEF News
  <2>7. DOMAIN x = 1 .. Len(x) /\ Len(x) \in Nat
    BY <2>5
  <2>8. m \in N /\ Reaches(m) = Reaches(r)
    <3>1. m \in Messages(T)
      BY <1>3 DEF Messages
    <3>2. Reaches(m) = Reaches(r)
      BY <1>3 DEF Reaches
    <3> QED
      BY <1>1, <3>1, <3>2 DEF News
  <2> HIDE DEF N
  <2>9. y \in Seq(N) /\ \A j \in 1 .. Len(y) : y[j][1] = "tx"
    <3>1. y = [i \in 1 .. Len(x) |-> <<"tx", x[i]>>]
      BY <2>7 DEF TxMessages
    <3> HIDE DEF y
    <3>2. y \in Seq(N) /\ Len(y) = Len(x)
      BY <2>6, <2>7, <3>1
    <3> QED
      BY <3>1, <3>2
  <2> HIDE DEF y, m
  <2> DEFINE z == <<m>> \o y
  <2>10. z \in Seq(N) /\ \A j \in 1 .. Len(z) : z[j] = m \/ (j - 1 \in 1 .. Len(y) /\ z[j] = y[j - 1])
    BY <2>8, <2>9
  <2> HIDE DEF z
  <2>11. \A j \in 1 .. Len(z) : z[j][1] = "merkle" => Reaches(z[j]) = Reaches(r)
    <3> SUFFICES ASSUME NEW j \in 1 .. Len(z), z[j] # m, z[j][1] = "merkle" PROVE FALSE
      BY <2>8
    <3>1. j - 1 \in 1 .. Len(y) /\ z[j] = y[j - 1]
      BY <2>10
    <3> DEFINE k == j - 1
    <3>2. k \in 1 .. Len(y) /\ z[j] = y[k]
      BY <3>1
    <3> HIDE DEF k
    <3>3. z[j][1] = "tx"
      BY <2>9, <3>2
    <3> QED
      BY <3>3
  <2> QED
    BY <2>1, <2>10, <2>11 DEF z, N
<1>4. CASE r \in ({"getblock"} \X Blocks) \cup ({"gettx"} \X Ours)
  <2> DEFINE m == IF r[1] = "getblock" THEN <<"block", r[2]>> ELSE <<"tx", r[2]>>
  <2>1. Reply(r) = <<m>> /\ ~ AsksHeaders(r)
    BY <1>4 DEF Reply, AsksHeaders
  <2>2. m \in Messages(T) /\ Reaches(m) = 0 /\ m[1] \in {"block", "tx"}
    BY <1>4 DEF Messages, Reaches
  <2>3. m[1] = "block" => m[2] \in F
    BY <1>1, <1>4
  <2> HIDE DEF m
  <2>4. m \in N
    BY <1>1, <2>2, <2>3 DEF News
  <2> HIDE DEF N
  <2>5. <<m>> \in Seq(N) /\ Len(<<m>>) = 1 /\ \A j \in 1 .. 1 : <<m>>[j] = m
    BY <2>4
  <2> QED
    BY <2>1, <2>2, <2>5 DEF N
<1> QED
  BY <1>1, <1>2, <1>3, <1>4 DEF Requests

-----------------------------------------------------------------------------
(* The invariant of a sync that goes up one chain.                          *)

(* Blocks of the vault are asked for and awaited on a connection whose      *)
(* headers have been synched.                                               *)
Active == m_bConnected /\ m_bInsertMerkleBlocks

(* Whatever is asked for, awaited or reported as synched continues what the *)
(* vault has completely.                                                    *)
StoreOK ==
    /\ vaultOpen /\ Solid(vault)
    /\ m_lastRequestedMerkleBlockHash # NoBlock =>
         Active /\ Ready(vault, m_lastRequestedMerkleBlockHash)
    /\ m_currentMerkleTxHashes # <<>> =>
         /\ Active /\ Ready(vault, m_currentMerkleBlock)
         /\ m_currentMerkleTxIndex > 0 => m_currentMerkleBlock \in vault.chain
    /\ m_lastSynchedMerkleBlockHash # NoBlock =>
         Full(vault, Height(m_lastSynchedMerkleBlockHash))

(* The blocks that may be fetched as a whole: if one is the current block   *)
(* and not complete, its queue is not empty and it is the one requested.    *)
Fetched ==
    {x \in tree : /\ m_bInsertMerkleBlocks
                  /\ m_currentMerkleBlock = x /\ x \notin vault.complete =>
                       m_currentMerkleTxHashes # <<>> /\ m_lastRequestedMerkleBlockHash = x}

NewsNow == News(tree, Height(peerTip), Fetched, StartHeight <= Height(tip))
AskedNow == Asked(tree, Height(peerTip), Fetched)

(* The peer is ahead, blocks are inserted above the start height, and until *)
(* then no block above the tip is delivered.                                *)
SentOK ==
    /\ TipTop /\ Height(tip) <= Height(peerTip)
    /\ m_bInsertMerkleBlocks => StartHeight <= Height(tip)
    /\ toUs \in Seq(NewsNow) /\ toPeer \in Seq(AskedNow)
    /\ m_bConnected /\ ~ m_bInsertMerkleBlocks =>
         ~ m_bHeadersSynched /\ Due(toUs, toPeer, Height(tip))
    /\ ~ m_bConnected => toUs = <<>> /\ toPeer = <<>> /\ ~ m_bHeadersSynched

Climbs == StoreOK /\ SentOK

(* What has been sent stays valid. *)
LEMMA WireLater ==
    ASSUME OneChain, TreeOK, TreeOK', PeerOK, PeerOK', tree \subseteq tree', Fetched \subseteq Fetched',
           Height(tip) <= Height(tip'), Height(peerTip) <= Height(peerTip')
    PROVE  NewsNow \subseteq NewsNow' /\ AskedNow \subseteq AskedNow'
<1>1. /\ tree \subseteq Blocks /\ tree' \subseteq Blocks
      /\ tip \in Blocks /\ tip' \in Blocks /\ peerTip \in Blocks /\ peerTip' \in Blocks
  BY DEF TreeOK, PeerOK
<1>2. /\ Height(tip) \in Nat /\ Height(tip') \in Nat /\ Height(peerTip) \in Nat
      /\ Height(peerTip') \in Nat /\ StartHeight \in Nat
  BY <1>1, Heights DEF OneChain
<1> DEFINE a == StartHeight <= Height(tip)
           c == StartHeight <= Height(tip')
<1>3. a \in BOOLEAN /\ c \in BOOLEAN /\ (a => c)
  BY <1>2
<1>4. /\ NewsNow = News(tree, Height(peerTip), Fetched, a)
      /\ AskedNow = Asked(tree, Height(peerTip), Fetched)
      /\ NewsNow' = News(tree', Height(peerTip'), Fetched', c)
      /\ AskedNow' = Asked(tree', Height(peerTip'), Fetched')
  BY DEF NewsNow, AskedNow
<1> HIDE DEF a, c
<1> QED
  BY <1>1, <1>2, <1>3, <1>4, NewsGrow

(* Blocks stay worth fetching while the queue stays as it is. *)
LEMMA FetchedStays ==
    ASSUME tree \subseteq tree', m_bInsertMerkleBlocks' = m_bInsertMerkleBlocks,
           UNCHANGED <<txVars, vault, m_lastRequestedMerkleBlockHash>>
    PROVE  Fetched \subseteq Fetched'
BY DEF Fetched, txVars

(* The vault and the hashes stay as they are. *)
LEMMA StoreStays ==
    ASSUME StoreOK,
           UNCHANGED <<m_bConnected, m_bInsertMerkleBlocks, m_lastRequestedMerkleBlockHash,
                       m_lastSynchedMerkleBlockHash, txVars, vault, vaultOpen>>
    PROVE  StoreOK'
BY DEF StoreOK, txVars, Active

(* More blocks are completed: what was ready or full stays so. *)
LEMMA ReadyLater ==
    ASSUME NEW v, NEW w, v.complete \subseteq w.complete, NEW b \in Blocks
    PROVE  /\ Ready(v, b) => Ready(w, b)
           /\ Full(v, Height(b)) => Full(w, Height(b))
<1>1. Height(b) \in Int /\ Height(b) - 1 \in Int
  BY Heights
<1>2. Height(b) <= Height(b) /\ Height(b) - 1 <= Height(b) - 1
  BY <1>1
<1> QED
  BY <1>1, <1>2, FullStays DEF Ready

(* The start. *)
LEMMA InitClimbs == ASSUME OneChain, Init PROVE Climbs
<1>1. /\ vaultOpen = TRUE /\ vault = EmptyVault /\ tree = {Genesis} /\ tip = Genesis
      /\ m_lastRequestedMerkleBlockHash = NoBlock /\ m_lastSynchedMerkleBlockHash = NoBlock
      /\ m_currentMerkleTxHashes = <<>> /\ toPeer = <<>> /\ toUs = <<>>
      /\ m_bConnected = FALSE /\ m_bHeadersSynched = FALSE /\ m_bInsertMerkleBlocks = FALSE
      /\ peerTip \in Blocks /\ Height(peerTip) = 1
  BY DEF Init
<1>2. vault.chain = {}
  BY <1>1 DEF EmptyVault
<1>3. StoreOK
  BY <1>1, <1>2 DEF StoreOK, Solid
<1>4. TipTop /\ Height(tip) <= Height(peerTip)
  BY <1>1, GenesisHeight DEF TipTop
<1>5. toUs \in Seq(NewsNow) /\ toPeer \in Seq(AskedNow)
  BY <1>1
<1>6. SentOK
  BY <1>1, <1>4, <1>5 DEF SentOK
<1> QED
  BY <1>3, <1>6 DEF Climbs

(* start: the headers are asked for. *)
LEMMA OpenClimbs == ASSUME OneChain, Inv, Inv', Climbs, Open PROVE Climbs'
<1>1. /\ ~ m_bConnected /\ m_bConnected' = TRUE /\ m_bInsertMerkleBlocks' = FALSE
      /\ toPeer' = <<GetHeaders>> /\ toUs' = <<>>
      /\ m_bHeadersSynched' = m_bHeadersSynched /\ tree' = tree /\ tip' = tip /\ peerTip' = peerTip
      /\ UNCHANGED <<blockVars, txVars, vault, vaultOpen>>
  BY DEF Open, treeVars
<1>2. m_lastRequestedMerkleBlockHash = NoBlock /\ m_currentMerkleTxHashes = <<>>
  BY <1>1 DEF Climbs, StoreOK, Active
<1>3. StoreOK'
  BY <1>1, <1>2 DEF Climbs, StoreOK, blockVars, txVars
<1>4. /\ TipTop /\ Height(tip) <= Height(peerTip) /\ ~ m_bHeadersSynched
      /\ tip \in tree /\ tip \in Blocks /\ Height(peerTip) \in Nat
  BY <1>1, Heights DEF Climbs, SentOK, Inv, TreeOK, PeerOK
<1>5. TipTop'
  BY <1>1, <1>4 DEF TipTop
<1> DEFINE r == GetHeaders
           req == <<r>>
<1>6. r \in AskedNow' /\ AsksHeaders(r)
  <2>1. r \in Requests(tree') /\ Reaches(r) = 0 /\ r[1] # "getblock" /\ AsksHeaders(r)
    BY <1>1, <1>4 DEF GetHeaders, Requests, Reaches, AsksHeaders
  <2> HIDE DEF r
  <2> QED
    BY <1>1, <1>4, <2>1 DEF AskedNow, Asked
<1> HIDE DEF r
<1>7. Len(req) = 1 /\ req[1] = r /\ toPeer' \in Seq(AskedNow') /\ toUs' \in Seq(NewsNow')
  BY <1>1, <1>6 DEF r
<1>8. Due(<<>>, req, Height(tip'))
  <2>1. Requested(<<>>, req, Height(tip'), 1)
    BY <1>6, <1>7 DEF Requested
  <2> QED
    BY <2>1 DEF Due
<1>9. SentOK'
  BY <1>1, <1>4, <1>5, <1>7, <1>8 DEF SentOK, r
<1> QED
  BY <1>3, <1>9 DEF Climbs

(* stop: nothing is asked for or awaited any more. *)
LEMMA StopClimbs == ASSUME OneChain, Inv, Inv', Climbs, Stop PROVE Climbs'
<1>1. /\ m_bConnected' = FALSE /\ m_bHeadersSynched' = FALSE
      /\ m_lastRequestedMerkleBlockHash' = NoBlock /\ m_currentMerkleTxHashes' = <<>>
      /\ toPeer' = <<>> /\ toUs' = <<>> /\ tree' = tree /\ tip' = tip /\ peerTip' = peerTip
      /\ UNCHANGED <<m_lastSynchedMerkleBlockHash, m_bInsertMerkleBlocks, vault, vaultOpen>>
  BY DEF Stop, treeVars, userVars
<1>2. StoreOK'
  BY <1>1 DEF Climbs, StoreOK
<1>3. SentOK'
  <2>1. TipTop'
    BY <1>1 DEF Climbs, SentOK, TipTop
  <2>2. toUs' \in Seq(NewsNow') /\ toPeer' \in Seq(AskedNow')
    BY <1>1
  <2> QED
    BY <1>1, <2>1, <2>2 DEF Climbs, SentOK
<1> QED
  BY <1>2, <1>3 DEF Climbs

(* Messages and requests on their way name blocks by numbers. *)
LEMMA NowReaches ==
    ASSUME TreeOK, PeerOK
    PROVE  /\ Reaching(NewsNow) /\ Reaching(AskedNow)
           /\ \A m \in NewsNow : m \in Messages(tree) /\ Reaches(m) <= Height(peerTip)
           /\ \A r \in AskedNow : r \in Requests(tree) /\ Reaches(r) <= Height(peerTip)
BY WireReaches DEF Reaching, NewsNow, AskedNow, News, Asked, TreeOK

(* The peer answers.  Where it sends empty headers, ours have come as far   *)
(* as its own.                                                              *)
LEMMA PeerRepliesClimbs ==
    ASSUME OneChain, Inv, Inv', Climbs, PeerReplies, m_bConnected => StartHeight <= Height(peerTip)
    PROVE  Climbs'
<1> DEFINE r == Head(toPeer)
           more == Reply(r)
           h == HeadersAfter(r)
           m == <<"headers", h>>
           F == Fetched
           started == StartHeight <= Height(tip)
<1>1. /\ toPeer # <<>> /\ toPeer' = Tail(toPeer) /\ toUs' = toUs \o more
      /\ UNCHANGED <<m_bConnected, m_bHeadersSynched, m_bInsertMerkleBlocks>>
      /\ tree' = tree /\ tip' = tip /\ peerTip' = peerTip
      /\ UNCHANGED <<m_lastRequestedMerkleBlockHash, m_lastSynchedMerkleBlockHash, txVars, vault,
                     vaultOpen>>
  BY DEF PeerReplies, treeVars, blockVars, userVars
<1>2. StoreOK'
  BY <1>1, StoreStays DEF Climbs
<1>3. /\ TreeOK /\ PeerOK /\ tree \in SUBSET Blocks /\ Closed(tree) /\ peerTip \in Blocks
      /\ Height(tip) \in Nat /\ Height(peerTip) \in Nat /\ StartHeight \in Nat
  BY Heights DEF Inv, TreeOK, PeerOK, OneChain
<1>4. /\ toUs \in Seq(NewsNow) /\ toPeer \in Seq(AskedNow) /\ TipTop
      /\ Height(tip) <= Height(peerTip)
      /\ m_bConnected
      /\ ~ m_bInsertMerkleBlocks => ~ m_bHeadersSynched /\ Due(toUs, toPeer, Height(tip))
      /\ m_bInsertMerkleBlocks => started
  BY <1>1 DEF Climbs, SentOK
<1>5. NewsNow' = NewsNow /\ AskedNow' = AskedNow
  <2>1. Fetched' = Fetched
    BY <1>1 DEF Fetched, txVars
  <2> QED
    BY <1>1, <2>1 DEF NewsNow, AskedNow
<1>6. r \in AskedNow /\ toPeer' \in Seq(AskedNow)
  BY <1>1, <1>4
<1>7. AsksHeaders(r) => r[2] \in tree /\ r[2] \in Blocks
  <2>1. r \in Requests(tree)
    BY <1>3, <1>6, NowReaches
  <2> HIDE DEF r
  <2> QED
    BY <1>3, <2>1 DEF Requests, AsksHeaders
<1>8. AsksHeaders(r) => /\ h = <<>> => Height(tip) = Height(peerTip) /\ started
                        /\ h # <<>> => Last(h) = peerTip
  <2> SUFFICES ASSUME AsksHeaders(r)
               PROVE  /\ h = <<>> => Height(tip) = Height(peerTip) /\ started
                      /\ h # <<>> => Last(h) = peerTip
    OBVIOUS
  <2>1. /\ h = <<>> => Height(peerTip) <= Height(r[2])
        /\ h # <<>> => Last(h) = peerTip
    BY <1>3, <1>7, HeadersToTip
  <2>2. Height(r[2]) <= Height(tip) /\ Height(r[2]) \in Nat
    BY <1>4, <1>7, Heights DEF TipTop
  <2>3. StartHeight <= Height(peerTip)
    BY <1>4
  <2> HIDE DEF h, r
  <2> QED
    BY <1>3, <1>4, <2>1, <2>2, <2>3
<1>9. /\ more \in Seq(NewsNow)
      /\ AsksHeaders(r) => more = <<m>>
      /\ ~ AsksHeaders(r) => \A j \in 1 .. Len(more) :
           more[j][1] = "merkle" => Reaches(more[j]) = Reaches(r)
  <2>1. started \in BOOLEAN /\ r \in Asked(tree, Height(peerTip), F)
    BY <1>6 DEF AskedNow
  <2>2. AsksHeaders(r) /\ h = <<>> => started
    BY <1>8
  <2>3. NewsNow = News(tree, Height(peerTip), F, started)
    BY DEF NewsNow
  <2> HIDE DEF r, F, started
  <2> QED
    BY <1>3, <2>1, <2>2, <2>3, ReplyNews
<1> HIDE DEF r, more
<1>10. toUs' \in Seq(NewsNow)
  BY <1>1, <1>4, <1>9
<1>11. ASSUME ~ m_bInsertMerkleBlocks PROVE Due(toUs', toPeer', Height(tip))
  <2>1. Reaching(NewsNow) /\ Reaching(AskedNow)
    BY <1>3, NowReaches
  <2>2. Due(toUs, toPeer, Height(tip))
    BY <1>4, <1>11
  <2>3. CASE ~ AsksHeaders(r)
    BY <1>1, <1>3, <1>4, <1>9, <2>1, <2>2, <2>3, DueReplied DEF r
  <2>4. CASE AsksHeaders(r)
    <3>1. more = <<m>> /\ m \in NewsNow
      <4>1. more = <<m>>
        BY <1>9, <2>4
      <4> HIDE DEF m
      <4> QED
        BY <1>9, <4>1
    <3>2. m[1] = "headers" /\ m[2] = h /\ (h # <<>> => Reaches(m) = Height(peerTip))
      BY <1>8, <2>4 DEF Reaches
    <3>3. h = <<>> => Height(tip) = Height(peerTip)
      BY <1>8, <2>4
    <3>4. (\A x \in NewsNow : Reaches(x) <= Height(peerTip)) /\ \A x \in AskedNow : Reaches(x) <= Height(peerTip)
      BY <1>3, NowReaches
    <3> HIDE DEF m, h
    <3>5. Due(toUs \o <<m>>, Tail(toPeer), Height(tip))
      BY <1>1, <1>3, <1>4, <2>1, <2>2, <2>4, <3>1, <3>2, <3>3, <3>4, DueAnswered DEF r
    <3> QED
      BY <1>1, <3>1, <3>5
  <2> QED
    BY <2>3, <2>4
<1>12. TipTop'
  BY <1>1, <1>4 DEF TipTop
<1>13. SentOK'
  BY <1>1, <1>4, <1>5, <1>6, <1>10, <1>11, <1>12 DEF SentOK
<1> QED
  BY <1>2, <1>13 DEF Climbs

(* The peer's announcements. *)
LEMMA PeerAnnouncesClimbs ==
    ASSUME OneChain, Inv, Inv', Climbs, PeerMines \/ PeerRelays
    PROVE  Climbs'
<1>1. /\ toPeer' = toPeer
      /\ UNCHANGED <<m_bConnected, m_bHeadersSynched, m_bInsertMerkleBlocks>>
      /\ tree' = tree /\ tip' = tip
      /\ UNCHANGED <<m_lastRequestedMerkleBlockHash, m_lastSynchedMerkleBlockHash, txVars, vault,
                     vaultOpen>>
  BY DEF PeerMines, PeerRelays, treeVars, blockVars, userVars
<1>2. StoreOK'
  BY <1>1, StoreStays DEF Climbs
<1>3. TreeOK /\ TreeOK' /\ PeerOK /\ PeerOK' /\ Height(tip) \in Nat
  BY Heights DEF Inv, TreeOK
<1>4. /\ toUs \in Seq(NewsNow) /\ toPeer \in Seq(AskedNow) /\ TipTop
      /\ Height(tip) <= Height(peerTip)
      /\ m_bConnected /\ ~ m_bInsertMerkleBlocks =>
           ~ m_bHeadersSynched /\ Due(toUs, toPeer, Height(tip))
      /\ m_bInsertMerkleBlocks => StartHeight <= Height(tip)
      /\ ~ m_bConnected => toUs = <<>> /\ toPeer = <<>> /\ ~ m_bHeadersSynched
  BY DEF Climbs, SentOK
<1>5. /\ Height(peerTip) <= Height(peerTip') /\ Height(peerTip) \in Nat /\ Height(peerTip') \in Nat
      /\ \/ toUs' = toUs
         \/ /\ m_bConnected
            /\ \E m \in Messages(tree) : /\ toUs' = Append(toUs, m) /\ m[1] \in {"invblock", "invtx"}
                                         /\ Reaches(m) <= Height(peerTip')
  <2>1. peerTip \in Blocks /\ peerTip' \in Blocks
    BY <1>3 DEF PeerOK
  <2>2. Height(peerTip) \in Nat /\ Height(peerTip') \in Nat
    BY <2>1, Heights
  <2>3. CASE PeerMines
    <3>1. PICK b \in Blocks : /\ ChainWork[b] > ChainWork[peerTip] /\ peerTip' = b
                              /\ toUs' = IF m_bConnected THEN Append(toUs, <<"invblock", b>>) ELSE toUs
      BY <2>3 DEF PeerMines
    <3>2. Height(peerTip) < Height(b)
      <4>1. ChainWork[b] \in Nat /\ ChainWork[peerTip] \in Nat
        BY <2>1, ChainOrder
      <4>2. ChainWork[peerTip] < ChainWork[b]
        BY <3>1, <4>1
      <4> QED
        BY <2>1, <4>2, ChainOrder
    <3> DEFINE m == <<"invblock", b>>
    <3>3. m \in Messages(tree) /\ m[1] \in {"invblock", "invtx"} /\ Reaches(m) = Height(b)
      BY DEF Messages, Reaches
    <3>4. toUs' = toUs \/ (m_bConnected /\ toUs' = Append(toUs, m))
      BY <3>1
    <3> HIDE DEF m
    <3> QED
      BY <2>2, <3>1, <3>2, <3>3, <3>4
  <2>4. CASE PeerRelays
    <3>1. PICK t \in Ours : toUs' = Append(toUs, <<"invtx", t>>)
      BY <2>4 DEF PeerRelays
    <3>2. m_bConnected /\ peerTip' = peerTip
      BY <2>4 DEF PeerRelays, peerVars
    <3> DEFINE m == <<"invtx", t>>
    <3>3. m \in Messages(tree) /\ m[1] \in {"invblock", "invtx"} /\ Reaches(m) = 0
      BY DEF Messages, Reaches
    <3>4. toUs' = Append(toUs, m)
      BY <3>1
    <3> HIDE DEF m
    <3> QED
      BY <2>2, <3>2, <3>3, <3>4
  <2> QED
    BY <2>3, <2>4
<1>6. NewsNow \subseteq NewsNow' /\ AskedNow \subseteq AskedNow'
  <2>1. Fetched \subseteq Fetched'
    BY <1>1, FetchedStays
  <2>2. tree \subseteq tree' /\ Height(tip) <= Height(tip')
    BY <1>1, <1>3
  <2> QED
    BY <1>3, <1>5, <2>1, <2>2, WireLater
<1>7. toUs \in Seq(NewsNow') /\ toPeer' \in Seq(AskedNow')
  BY <1>1, <1>4, <1>6, SeqGrows
<1>8. TipTop' /\ Height(tip') <= Height(peerTip')
  BY <1>1, <1>3, <1>4, <1>5 DEF TipTop
<1>9. CASE toUs' = toUs
  BY <1>1, <1>4, <1>7, <1>8, <1>9, <1>2 DEF SentOK, Climbs
<1>10. ASSUME m_bConnected, NEW m \in Messages(tree), toUs' = Append(toUs, m),
              m[1] \in {"invblock", "invtx"}, Reaches(m) <= Height(peerTip')
       PROVE  Climbs'
  <2>1. m \in NewsNow'
    BY <1>1, <1>10 DEF NewsNow, News
  <2>2. toUs' \in Seq(NewsNow')
    BY <1>7, <1>10, <2>1
  <2>3. ~ m_bInsertMerkleBlocks => Due(toUs', toPeer, Height(tip))
    BY <1>4, <1>7, <1>10, <2>1, DueAnnounced
  <2>4. SentOK'
    BY <1>1, <1>4, <1>7, <1>8, <1>10, <2>2, <2>3 DEF SentOK
  <2> QED
    BY <1>2, <2>4 DEF Climbs
<1> QED
  BY <1>5, <1>9, <1>10

(* A message that is not headers is taken, the tree stays as it is, and the *)
(* answer, if there is one, is not above what it names.                     *)
LEMMA TakenSent ==
    ASSUME OneChain, Inv, Inv', Climbs, toUs # <<>>, Head(toUs)[1] # "headers", toUs' = Tail(toUs),
           UNCHANGED <<m_bConnected, m_bHeadersSynched, m_bInsertMerkleBlocks, tree, tip, peerTip>>,
           Fetched \subseteq Fetched', NEW r \in AskedNow', toPeer' \in {toPeer, Append(toPeer, r)},
           m_bInsertMerkleBlocks \/ Reaches(r) \in {0, Reaches(Head(toUs))}
    PROVE  SentOK'
<1>1. TreeOK /\ TreeOK' /\ PeerOK /\ PeerOK' /\ Height(tip) \in Nat /\ Height(peerTip) \in Nat
  BY Heights DEF Inv, TreeOK, PeerOK
<1>2. /\ toUs \in Seq(NewsNow) /\ toPeer \in Seq(AskedNow) /\ TipTop
      /\ Height(tip) <= Height(peerTip)
      /\ ~ m_bInsertMerkleBlocks => ~ m_bHeadersSynched /\ Due(toUs, toPeer, Height(tip))
      /\ m_bInsertMerkleBlocks => StartHeight <= Height(tip)
      /\ m_bConnected
  BY DEF Climbs, SentOK
<1>3. NewsNow \subseteq NewsNow' /\ AskedNow \subseteq AskedNow'
  <2>1. Height(tip) <= Height(tip') /\ Height(peerTip) <= Height(peerTip')
    BY <1>1
  <2> QED
    BY <1>1, <2>1, WireLater
<1>4. toUs \in Seq(NewsNow') /\ toPeer \in Seq(AskedNow')
  BY <1>2, <1>3, SeqGrows
<1>5. toUs' \in Seq(NewsNow') /\ toPeer' \in Seq(AskedNow')
  <2> DEFINE S == NewsNow'
             R == AskedNow'
             u == toUs'
             q == toPeer'
  <2>1. /\ toUs \in Seq(S) /\ u = Tail(toUs) /\ toUs # <<>>
        /\ toPeer \in Seq(R) /\ r \in R /\ (q = toPeer \/ q = Append(toPeer, r))
    BY <1>4
  <2> HIDE DEF S, R, u, q
  <2>2. u \in Seq(S)
    BY ONLY <2>1
  <2>3. q \in Seq(R)
    BY ONLY <2>1
  <2> QED
    BY <2>2, <2>3 DEF S, R, u, q
<1>6. ~ m_bInsertMerkleBlocks => Due(toUs', toPeer', Height(tip))
  <2> SUFFICES ASSUME ~ m_bInsertMerkleBlocks PROVE Due(toUs', toPeer', Height(tip))
    OBVIOUS
  <2>1. Reaching(NewsNow') /\ Reaching(AskedNow')
    BY <1>1, NowReaches, WireReaches DEF NewsNow, AskedNow, News, Asked, Reaching, TreeOK
  <2>2. Due(toUs, toPeer, Height(tip)) /\ Reaches(r) \in {0, Reaches(Head(toUs))}
    BY <1>2
  <2> DEFINE S == NewsNow'
             R == AskedNow'
             asked == toPeer'
  <2>3. /\ toUs \in Seq(S) /\ toPeer \in Seq(R) /\ r \in R /\ Reaching(S)
        /\ asked \in {toPeer, Append(toPeer, r)}
    BY <1>4, <2>1
  <2> HIDE DEF S, R, asked
  <2>4. Due(Tail(toUs), asked, Height(tip))
    BY <1>1, <2>2, <2>3, DueTaken
  <2> QED
    BY <2>4 DEF asked
<1>7. TipTop'
  BY <1>2 DEF TipTop
<1> QED
  BY <1>2, <1>5, <1>6, <1>7 DEF SentOK

(* inv: the block or the transaction is asked for. *)
LEMMA OnInvClimbs == ASSUME OneChain, Inv, Inv', Climbs, OnInv PROVE Climbs'
<1> DEFINE m == Head(toUs)
<1>1. /\ toUs # <<>> /\ toUs' = Tail(toUs)
      /\ UNCHANGED <<m_bConnected, m_bHeadersSynched, m_bInsertMerkleBlocks, tree, tip, peerTip>>
      /\ UNCHANGED <<m_lastRequestedMerkleBlockHash, m_lastSynchedMerkleBlockHash, txVars, vault,
                     vaultOpen>>
  BY DEF OnInv, Receive, treeVars, blockVars, userVars, peerVars
<1>2. StoreOK'
  BY <1>1, StoreStays DEF Climbs
<1>3. Fetched \subseteq Fetched'
  BY <1>1, FetchedStays
<1>4. m \in NewsNow /\ TreeOK /\ PeerOK /\ peerTip' = peerTip /\ tree' = tree
  BY <1>1 DEF Climbs, SentOK, Inv
<1>5. m \in Messages(tree) /\ Reaches(m) <= Height(peerTip) /\ Height(peerTip) \in Nat
  BY <1>4, NowReaches, Heights DEF PeerOK
<1>6. \/ m[1] = "invblock" /\ toPeer' = Append(toPeer, <<"getmerkle", m[2]>>)
      \/ m[1] = "invtx" /\ toPeer' = Append(toPeer, <<"gettx", m[2]>>)
  BY DEF OnInv, Receive
<1> HIDE DEF m
<1>7. PICK r \in Requests(tree) : /\ toPeer' = Append(toPeer, r) /\ r[1] # "getblock"
                                  /\ Reaches(r) = Reaches(m) /\ m[1] # "headers"
  <2>1. CASE m[1] = "invblock" /\ toPeer' = Append(toPeer, <<"getmerkle", m[2]>>)
    <3> DEFINE r == <<"getmerkle", m[2]>>
    <3>1. r \in Requests(tree) /\ r[1] # "getblock" /\ Reaches(r) = Reaches(m)
      BY <1>5, <2>1 DEF Requests, Messages, Reaches
    <3> QED
      BY <2>1, <3>1
  <2>2. CASE m[1] = "invtx" /\ toPeer' = Append(toPeer, <<"gettx", m[2]>>)
    <3> DEFINE r == <<"gettx", m[2]>>
    <3>1. r \in Requests(tree) /\ r[1] # "getblock" /\ Reaches(r) = Reaches(m)
      BY <1>5, <2>2 DEF Requests, Messages, Reaches
    <3> QED
      BY <2>2, <3>1
  <2> QED
    BY <1>6, <2>1, <2>2
<1>8. r \in AskedNow'
  BY <1>4, <1>5, <1>7 DEF AskedNow, Asked
<1>9. SentOK'
  BY <1>1, <1>3, <1>7, <1>8, TakenSent DEF m
<1> QED
  BY <1>2, <1>9 DEF Climbs

(* The last of the headers is the highest. *)
LEMMA LastIsHighest ==
    ASSUME NEW T, NEW s \in Segments(T), s # <<>>
    PROVE  /\ Last(s) \in Range(s) /\ s \in Seq(Blocks)
           /\ \A x \in Range(s) : Height(x) <= Height(Last(s))
<1>1. PICK p \in Blocks : \E n \in 1 .. Len(Path[p]) : s = SubSeq(Path[p], n + 1, Len(Path[p]))
  BY DEF Segments
<1>2. PICK n \in 1 .. Len(Path[p]) : s = SubSeq(Path[p], n + 1, Len(Path[p]))
  BY <1>1
<1> DEFINE X == Path[p]
           l == Len(X)
<1>3. X \in Seq(Blocks) /\ l \in Nat /\ s \in Seq(Blocks) /\ \A i \in 1 .. l : Height(X[i]) = i - 1
  BY Heights, PathPrefix DEF Segments
<1>4. n \in 1 .. l /\ s = SubSeq(X, n + 1, l)
  BY <1>2
<1> HIDE DEF X, l
<1>5. n < l /\ Len(s) = l - n /\ \A j \in 1 .. Len(s) : s[j] = X[j + n] /\ j + n \in 1 .. l
  <2>1. n # l
    <3>1. l + 1 > l
      BY <1>3
    <3>2. n = l => s = <<>>
      BY <1>3, <1>4, <3>1
    <3> QED
      BY <3>2
  <2>2. Len(s) = l - n
    BY <1>3, <1>4, <2>1 DEF l
  <2> QED
    BY <1>3, <1>4, <2>1, <2>2 DEF l
<1>6. \A j \in 1 .. Len(s) : Height(s[j]) = j + n - 1
  BY <1>3, <1>5
<1>7. Len(s) \in 1 .. Len(s) /\ Len(s) \in Nat /\ DOMAIN s = 1 .. Len(s)
  BY <1>3, <1>4, <1>5
<1>8. \A j \in 1 .. Len(s) : Height(s[j]) <= Height(s[Len(s)])
  BY <1>3, <1>4, <1>6, <1>7
<1> QED
  BY <1>3, <1>7, <1>8 DEF Last, Range

(* headers: the tip climbs to the last of them, unless it is above already. *)
LEMMA HeadersClimb ==
    ASSUME OneChain, Inv, Inv', Climbs, OnHeaders, Head(toUs)[2] # <<>>
    PROVE  Climbs'
<1> DEFINE m == Head(toUs)
           h == m[2]
           best == Best(h)
           r == GetHeadersAfter(best)
<1>1. /\ toUs # <<>> /\ toUs' = Tail(toUs) /\ m[1] = "headers" /\ h # <<>>
      /\ UNCHANGED <<m_bConnected, m_bInsertMerkleBlocks, peerTip, txVars, vault, vaultOpen,
                     m_lastRequestedMerkleBlockHash, m_lastSynchedMerkleBlockHash>>
      /\ tree' = tree \cup Range(h) /\ tip' = best
      /\ m_bHeadersSynched' = (m_bHeadersSynched /\ Range(h) \subseteq tree)
      /\ toPeer' = IF Last(h) = best THEN Append(toPeer, r) ELSE toPeer
  BY DEF OnHeaders, Receive, userVars, peerVars
<1>2. StoreOK'
  BY <1>1, StoreStays DEF Climbs
<1>3. /\ TreeOK /\ TreeOK' /\ PeerOK /\ PeerOK' /\ tip \in tree /\ tip' \in tree' /\ tree \subseteq Blocks
      /\ tip \in Blocks /\ tip' \in Blocks /\ peerTip \in Blocks /\ peerTip' = peerTip
  BY <1>1 DEF Inv, TreeOK, PeerOK
<1>4. Height(tip) \in Nat /\ Height(tip') \in Nat /\ Height(peerTip) \in Nat /\ StartHeight \in Nat
  BY <1>3, Heights DEF OneChain
<1>5. /\ toUs \in Seq(NewsNow) /\ toPeer \in Seq(AskedNow) /\ TipTop
      /\ Height(tip) <= Height(peerTip)
      /\ m_bConnected
      /\ ~ m_bInsertMerkleBlocks => ~ m_bHeadersSynched /\ Due(toUs, toPeer, Height(tip))
      /\ m_bInsertMerkleBlocks => StartHeight <= Height(tip)
  BY <1>1 DEF Climbs, SentOK
<1>6. m \in Messages(tree) /\ Reaches(m) <= Height(peerTip)
  <2>1. m \in NewsNow
    BY <1>1, <1>5
  <2> HIDE DEF m
  <2> QED
    BY <1>3, <2>1, NowReaches
<1> HIDE DEF m
<1>7. h \in Segments(tree) /\ Reaches(m) = Height(Last(h))
  BY <1>1, <1>6 DEF Messages, Reaches
<1> HIDE DEF h
<1>8. /\ Last(h) \in Range(h) /\ h \in Seq(Blocks)
      /\ \A x \in Range(h) : Height(x) <= Height(Last(h))
  BY <1>1, <1>7, LastIsHighest
<1>9. /\ best \in {tip} \cup Range(h) /\ best \in Blocks
      /\ \A x \in {tip} \cup Range(h) : Height(x) <= Height(best)
  BY <1>3, <1>8, BestIsHighest
<1>10. Last(h) \in Blocks /\ Height(Last(h)) \in Nat /\ Height(best) \in Nat /\ Range(h) \subseteq Blocks
  <2>1. Range(h) \subseteq Blocks
    BY <1>8 DEF Range
  <2> QED
    BY <1>8, <1>9, <2>1, Heights
<1>11. /\ Height(tip) <= Height(tip') /\ Height(tip') <= Height(peerTip)
       /\ Height(tip') \in {Height(tip), Reaches(m)} /\ Reaches(m) <= Height(tip')
       /\ Height(tip') = Reaches(m) => Last(h) = best
  <2>1. Height(tip) <= Height(best) /\ Height(Last(h)) <= Height(best)
    BY <1>8, <1>9
  <2>2. best = tip \/ Height(best) <= Height(Last(h))
    BY <1>8, <1>9
  <2>3. Height(best) = Height(Last(h)) => best = Last(h)
    BY <1>9, <1>10, ChainOrder
  <2>4. tip' = best /\ Height(tip) <= Height(peerTip) /\ Reaches(m) <= Height(peerTip)
    BY <1>1, <1>5, <1>6
  <2> HIDE DEF best
  <2>5. Height(tip') = Height(best)
    BY <2>4
  <2> QED
    BY <1>4, <1>7, <1>10, <2>1, <2>2, <2>3, <2>4, <2>5
<1>12. TipTop'
  <2>1. ASSUME NEW c \in tree' PROVE Height(c) <= Height(tip')
    <3>1. CASE c \in tree
      <4>1. Height(c) <= Height(tip) /\ Height(c) \in Nat
        BY <1>3, <1>5, <3>1, Heights DEF TipTop
      <4> QED
        BY <1>4, <1>11, <4>1
    <3>2. CASE c \in Range(h)
      BY <1>1, <1>9, <3>2
    <3> QED
      BY <1>1, <2>1, <3>1, <3>2
  <2> QED
    BY <2>1 DEF TipTop
<1>13. NewsNow \subseteq NewsNow' /\ AskedNow \subseteq AskedNow'
  <2>1. tree \subseteq tree'
    BY <1>1
  <2>2. Fetched \subseteq Fetched'
    BY <1>1, <2>1, FetchedStays
  <2>3. Height(peerTip) <= Height(peerTip')
    BY <1>3, <1>4
  <2> QED
    BY <1>3, <1>11, <2>1, <2>2, <2>3, WireLater
<1>14. r \in AskedNow' /\ AsksHeaders(r)
  <2>1. r \in Requests(tree') /\ Reaches(r) = 0 /\ r[1] # "getblock" /\ AsksHeaders(r)
    BY <1>1, <1>3 DEF GetHeadersAfter, Requests, Reaches, AsksHeaders
  <2> HIDE DEF r
  <2> QED
    BY <1>3, <1>4, <2>1 DEF AskedNow, Asked
<1>15. toUs \in Seq(NewsNow') /\ toPeer \in Seq(AskedNow')
  BY <1>5, <1>13, SeqGrows
<1> DEFINE S == NewsNow'
           R == AskedNow'
           u == toUs'
           q == toPeer'
<1>16. /\ u = Tail(toUs) /\ (q = toPeer \/ q = Append(toPeer, r))
       /\ toUs \in Seq(S) /\ toPeer \in Seq(R) /\ r \in R
       /\ Height(tip') = Reaches(m) => q = Append(toPeer, r)
  BY <1>1, <1>11, <1>14, <1>15
<1>17. Reaching(S) /\ Reaching(R)
  BY <1>3, WireReaches DEF NewsNow, AskedNow, News, Asked, Reaching, TreeOK
<1> HIDE DEF S, R, u, q, r, best
<1>18. u \in Seq(S)
  BY ONLY <1>1, <1>16
<1>19. q \in Seq(R)
  BY ONLY <1>16
<1>20. ~ m_bInsertMerkleBlocks => Due(u, q, Height(tip'))
  <2> SUFFICES ASSUME ~ m_bInsertMerkleBlocks PROVE Due(u, q, Height(tip'))
    OBVIOUS
  <2>1. Due(toUs, toPeer, Height(tip)) /\ q \in {toPeer, Append(toPeer, r)}
    BY <1>5, <1>16
  <2>2. Head(toUs)[1] = "headers" /\ Head(toUs)[2] # <<>>
    BY <1>1 DEF m, h
  <2>3. /\ Height(tip') \in {Height(tip), Reaches(Head(toUs))} /\ Reaches(Head(toUs)) <= Height(tip')
        /\ Height(tip') = Reaches(Head(toUs)) => q = Append(toPeer, r)
    BY <1>11, <1>16 DEF m
  <2> DEFINE t == Height(tip')
  <2>4. t \in {Height(tip), Reaches(Head(toUs))} /\ Height(tip) <= t
    BY <1>11, <2>3
  <2>5. Due(Tail(toUs), q, t)
    BY <1>1, <1>4, <1>14, <1>16, <1>17, <2>1, <2>2, <2>3, <2>4, DueHeaders
  <2> QED
    BY <1>16, <2>5
<1>21. SentOK'
  <2>1. toUs' \in Seq(NewsNow') /\ toPeer' \in Seq(AskedNow')
    BY <1>18, <1>19 DEF S, R, u, q
  <2>2. m_bInsertMerkleBlocks => StartHeight <= Height(tip')
    BY <1>4, <1>5, <1>11
  <2>3. ~ m_bInsertMerkleBlocks => Due(toUs', toPeer', Height(tip')) /\ ~ m_bHeadersSynched'
    BY <1>1, <1>5, <1>20 DEF u, q
  <2>4. Height(tip') <= Height(peerTip') /\ m_bConnected' /\ m_bInsertMerkleBlocks' = m_bInsertMerkleBlocks
    BY <1>1, <1>3, <1>5, <1>11
  <2> QED
    BY <1>12, <2>1, <2>2, <2>3, <2>4 DEF SentOK
<1> QED
  BY <1>2, <1>21 DEF Climbs

(* While blocks are inserted, a message is taken and blocks of the tree may *)
(* be asked for.                                                            *)
LEMMA ActiveSent ==
    ASSUME OneChain, Inv, Inv', Climbs, m_bConnected, m_bConnected', m_bInsertMerkleBlocks',
           toUs # <<>>, toUs' = Tail(toUs), tree \subseteq tree', Fetched \subseteq Fetched', TipTop',
           Height(tip) <= Height(tip'), Height(tip') <= Height(peerTip'), peerTip' = peerTip,
           StartHeight <= Height(tip), NEW asked \in Seq(AskedNow'),
           toPeer' = asked \/ \E c \in tree' : toPeer' = Append(asked, <<"getmerkle", c>>)
    PROVE  SentOK'
<1>1. /\ TreeOK /\ TreeOK' /\ PeerOK /\ PeerOK' /\ tree' \subseteq Blocks /\ tip \in Blocks
      /\ tip' \in tree' /\ peerTip' \in Blocks
  BY DEF Inv, TreeOK, PeerOK
<1>2. /\ Height(tip) \in Nat /\ Height(tip') \in Nat /\ Height(peerTip) \in Nat
      /\ Height(peerTip') \in Nat /\ StartHeight \in Nat
      /\ \A c \in tree' : Height(c) \in Nat
  BY <1>1, Heights DEF OneChain
<1>3. NewsNow \subseteq NewsNow'
  <2>1. Height(peerTip) <= Height(peerTip')
    BY <1>2
  <2> QED
    BY <1>1, <2>1, WireLater
<1>4. toUs \in Seq(NewsNow')
  BY <1>3, SeqGrows DEF Climbs, SentOK
<1>5. toUs' \in Seq(NewsNow')
  <2> DEFINE S == NewsNow'
  <2>1. toUs \in Seq(S)
    BY <1>4
  <2> HIDE DEF S
  <2>2. Tail(toUs) \in Seq(S)
    BY <2>1
  <2> QED
    BY <2>2 DEF S
<1>6. ASSUME NEW c \in tree' PROVE <<"getmerkle", c>> \in AskedNow'
  <2> DEFINE r == <<"getmerkle", c>>
  <2>1. r \in Requests(tree') /\ Reaches(r) = Height(c) /\ r[1] # "getblock"
    BY <1>1 DEF Requests, Reaches
  <2>2. Height(c) <= Height(peerTip')
    <3>1. Height(c) <= Height(tip')
      BY DEF TipTop
    <3> QED
      BY <1>2, <3>1
  <2> HIDE DEF r
  <2>3. r \in AskedNow'
    BY <2>1, <2>2 DEF AskedNow, Asked
  <2> QED
    BY <2>3 DEF r
<1>7. toPeer' \in Seq(AskedNow')
  <2> DEFINE R == AskedNow'
             q == toPeer'
  <2>1. asked \in Seq(R) /\ (q = asked \/ \E r \in R : q = Append(asked, r))
    BY <1>6
  <2> HIDE DEF R, q
  <2>2. q \in Seq(R)
    BY <2>1
  <2> QED
    BY <2>2 DEF R, q
<1>8. StartHeight <= Height(tip')
  BY <1>2
<1> QED
  BY <1>5, <1>7, <1>8 DEF SentOK

(* Requests that have been sent, while the tree stays. *)
LEMMA SentStays ==
    ASSUME OneChain, Inv, Inv', Climbs, UNCHANGED <<tree, tip, peerTip>>, Fetched \subseteq Fetched'
    PROVE  /\ toPeer \in Seq(AskedNow') /\ TipTop' /\ Height(tip) <= Height(tip')
           /\ Height(tip') <= Height(peerTip')
<1>1. /\ TreeOK /\ TreeOK' /\ PeerOK /\ PeerOK' /\ Height(tip) \in Nat /\ Height(peerTip) \in Nat
  BY Heights DEF Inv, TreeOK, PeerOK
<1>2. /\ toPeer \in Seq(AskedNow) /\ TipTop /\ Height(tip) <= Height(peerTip)
  BY DEF Climbs, SentOK
<1>3. Height(tip) <= Height(tip') /\ Height(peerTip) <= Height(peerTip')
  BY <1>1
<1>4. AskedNow \subseteq AskedNow'
  BY <1>1, <1>3, WireLater
<1>5. TipTop' /\ Height(tip') <= Height(peerTip')
  BY <1>2 DEF TipTop
<1> QED
  BY <1>2, <1>3, <1>4, <1>5, SeqGrows

(* Empty headers: if they were not synched, the blocks follow. *)
LEMMA NoHeadersClimb ==
    ASSUME OneChain, Inv, Inv', Climbs, OnHeaders, Head(toUs)[2] = <<>>
    PROVE  Climbs'
<1> DEFINE m == Head(toUs)
<1>1. /\ toUs # <<>> /\ toUs' = Tail(toUs) /\ m[1] = "headers" /\ m[2] = <<>>
      /\ UNCHANGED <<m_bConnected, peerTip, txVars, vault, vaultOpen>>
      /\ tree' = tree /\ tip' = tip
      /\ m_bHeadersSynched' = TRUE
      /\ IF ~ m_bHeadersSynched /\ vaultOpen
         THEN SyncBlocks(vault)
         ELSE UNCHANGED <<m_bInsertMerkleBlocks, m_lastRequestedMerkleBlockHash,
                          m_lastSynchedMerkleBlockHash, toPeer>>
  BY DEF OnHeaders, Receive, userVars, peerVars, treeVars
<1>2. /\ TreeOK /\ PeerOK /\ tip \in Blocks /\ Height(tip) \in Nat /\ StartHeight \in Nat
      /\ vault \in SoundVaults(tree) /\ tree \subseteq Blocks
      /\ m_lastRequestedMerkleBlockHash \in tree \cup {NoBlock} /\ NoBlock \notin Blocks
  BY Heights, NetSyncAssumption DEF Inv, TreeOK, OneChain, VaultOK, HashesOK
<1>3. /\ toUs \in Seq(NewsNow) /\ TipTop /\ m_bConnected /\ m_bConnected'
      /\ ~ m_bInsertMerkleBlocks => ~ m_bHeadersSynched
      /\ m_bInsertMerkleBlocks => StartHeight <= Height(tip)
  BY <1>1 DEF Climbs, SentOK
<1>4. vaultOpen /\ Solid(vault)
  BY DEF Climbs, StoreOK
<1>5. CASE m_bHeadersSynched
  <2>1. UNCHANGED <<m_bInsertMerkleBlocks, m_lastRequestedMerkleBlockHash,
                    m_lastSynchedMerkleBlockHash, toPeer>>
    BY <1>1, <1>5
  <2>2. m_bInsertMerkleBlocks /\ m_bInsertMerkleBlocks'
    BY <1>3, <1>5, <2>1
  <2>3. StoreOK'
    BY <1>1, <2>1, StoreStays DEF Climbs
  <2>4. Fetched \subseteq Fetched'
    BY <1>1, <2>1, FetchedStays
  <2>5. toPeer' \in Seq(AskedNow') /\ TipTop' /\ Height(tip) <= Height(tip') /\ Height(tip') <= Height(peerTip')
    BY <1>1, <2>1, <2>4, SentStays
  <2> DEFINE asked == toPeer'
  <2>6. asked \in Seq(AskedNow') /\ toPeer' = asked
    BY <2>5
  <2> HIDE DEF asked
  <2>7. SentOK'
    BY <1>1, <1>3, <2>2, <2>4, <2>5, <2>6, ActiveSent
  <2> QED
    BY <2>3, <2>7 DEF Climbs
<1>6. CASE ~ m_bHeadersSynched
  <2>1. StartHeight <= Height(tip)
    <3>1. m \in NewsNow
      BY <1>1, <1>3
    <3> HIDE DEF m
    <3> QED
      BY <1>1, <3>1 DEF NewsNow, News
  <2>2. m_bInsertMerkleBlocks' = TRUE /\ Resumes(vault, toPeer)
    BY <1>1, <1>2, <1>3, <1>4, <1>6, <2>1, SyncBlocksResumes
  <2>3. Fetched \subseteq Fetched'
    <3> SUFFICES ASSUME NEW x \in Fetched, m_currentMerkleBlock' = x, x \notin vault'.complete
                 PROVE  m_currentMerkleTxHashes' # <<>> /\ m_lastRequestedMerkleBlockHash' = x
      BY <1>1, <2>2 DEF Fetched
    <3>1. m_currentMerkleBlock = x /\ x \notin vault.complete /\ x \in tree
      BY <1>1 DEF Fetched, txVars
    <3>2. m_currentMerkleTxHashes # <<>> /\ m_lastRequestedMerkleBlockHash = x
      BY <3>1 DEF Fetched
    <3>3. Ready(vault, x)
      BY <1>2, <3>1, <3>2 DEF Climbs, StoreOK
    <3>4. m_lastRequestedMerkleBlockHash' = x
      BY <2>2, <3>1, <3>3 DEF Resumes
    <3> QED
      BY <1>1, <3>2, <3>4 DEF txVars
  <2>4. toPeer \in Seq(AskedNow') /\ TipTop' /\ Height(tip) <= Height(tip') /\ Height(tip') <= Height(peerTip')
    BY <1>1, <2>3, SentStays
  <2>5. toPeer' = toPeer \/ \E c \in tree' : toPeer' = Append(toPeer, <<"getmerkle", c>>)
    BY <1>1, <2>2 DEF Resumes, AsksFor
  <2>6. SentOK'
    BY <1>1, <1>3, <2>1, <2>2, <2>3, <2>4, <2>5, ActiveSent
  <2>7. Active' /\ vault' = vault /\ vaultOpen'
    BY <1>1, <1>3, <1>4, <2>2 DEF Active
  <2>8. m_lastRequestedMerkleBlockHash' # NoBlock => Ready(vault, m_lastRequestedMerkleBlockHash')
    BY <2>2 DEF Resumes, AsksFor, Climbs, StoreOK
  <2>9. m_lastSynchedMerkleBlockHash' # NoBlock => Full(vault, Height(m_lastSynchedMerkleBlockHash'))
    BY <2>2 DEF Resumes
  <2>10. m_currentMerkleTxHashes' # <<>> =>
           /\ Ready(vault, m_currentMerkleBlock')
           /\ m_currentMerkleTxIndex' > 0 => m_currentMerkleBlock' \in vault.chain
    BY <1>1 DEF Climbs, StoreOK, txVars
  <2>11. StoreOK'
    BY <1>4, <2>7, <2>8, <2>9, <2>10 DEF StoreOK
  <2> QED
    BY <2>6, <2>11 DEF Climbs
<1> QED
  BY <1>5, <1>6

(* A handler has worked on the block b, and the hashes are as they were or  *)
(* as the vault allows.                                                     *)
LEMMA StoreAfter ==
    ASSUME OneChain, Inv, StoreOK, NEW b, NEW s, SetQueue(s), Stored(b, vault, s), Active',
           vaultOpen', s.q = <<>> \/ m_currentMerkleBlock' = b,
           \/ m_lastRequestedMerkleBlockHash' \in {NoBlock, m_lastRequestedMerkleBlockHash}
           \/ Ready(s.v, m_lastRequestedMerkleBlockHash'),
           \/ m_lastSynchedMerkleBlockHash' \in {NoBlock, m_lastSynchedMerkleBlockHash}
           \/ Full(s.v, Height(m_lastSynchedMerkleBlockHash'))
    PROVE  StoreOK'
<1>1. /\ m_currentMerkleTxHashes' = s.q /\ m_currentMerkleTxIndex' = s.i /\ vault' = s.v
  BY DEF SetQueue
<1>2. /\ Solid(s.v) /\ Ready(s.v, b) /\ vault.complete \subseteq s.v.complete
      /\ s.q # <<>> /\ s.i > 0 => b \in s.v.chain
  BY DEF Stored
<1>3. /\ m_lastRequestedMerkleBlockHash \in Blocks \cup {NoBlock}
      /\ m_lastSynchedMerkleBlockHash \in Blocks \cup {NoBlock}
  BY DEF Inv, HashesOK, TreeOK
<1>4. m_lastRequestedMerkleBlockHash' # NoBlock => Ready(s.v, m_lastRequestedMerkleBlockHash')
  <2>1. m_lastRequestedMerkleBlockHash # NoBlock => Ready(s.v, m_lastRequestedMerkleBlockHash)
    BY <1>2, <1>3, ReadyLater DEF StoreOK
  <2> QED
    BY <2>1
<1>5. m_lastSynchedMerkleBlockHash' # NoBlock => Full(s.v, Height(m_lastSynchedMerkleBlockHash'))
  <2>1. m_lastSynchedMerkleBlockHash # NoBlock => Full(s.v, Height(m_lastSynchedMerkleBlockHash))
    BY <1>2, <1>3, ReadyLater DEF StoreOK
  <2> QED
    BY <2>1
<1>6. s.q # <<>> => /\ Ready(s.v, m_currentMerkleBlock')
                    /\ s.i > 0 => m_currentMerkleBlock' \in s.v.chain
  BY <1>2
<1> QED
  BY <1>1, <1>2, <1>4, <1>5, <1>6 DEF StoreOK

(* The block is complete, and the next is asked for. *)
LEMMA GoesOn ==
    ASSUME OneChain, TreeOK, TipTop, NEW b \in tree, NEW s, Stored(b, vault, s), s.q = <<>>,
           NEW asked, Advance(b, asked)
    PROVE  Continues(s.v, asked)
<1>1. Ready(s.v, b) /\ b \in s.v.complete /\ b \in Blocks
  BY DEF Stored, TreeOK
<1>2. Full(s.v, Height(b)) /\ StartHeight <= Height(b)
  BY <1>1, FullUpTo DEF Ready
<1> QED
  BY <1>2, AdvanceContinues

(* Headers may always be asked for. *)
LEMMA HeadersAsked ==
    ASSUME PeerOK', tip \in tree', toPeer \in Seq(AskedNow')
    PROVE  /\ GetHeaders \in AskedNow' /\ Reaches(GetHeaders) = 0
           /\ Append(toPeer, GetHeaders) \in Seq(AskedNow')
<1> DEFINE r == GetHeaders
           R == AskedNow'
<1>1. r \in Requests(tree') /\ Reaches(r) = 0 /\ r[1] # "getblock"
  BY DEF GetHeaders, Requests, Reaches
<1>2. Height(peerTip') \in Nat
  BY Heights DEF PeerOK
<1>3. r \in R
  <2> HIDE DEF r
  <2> QED
    BY <1>1, <1>2 DEF AskedNow, Asked
<1>4. toPeer \in Seq(R)
  OBVIOUS
<1> HIDE DEF r, R
<1>5. Append(toPeer, r) \in Seq(R)
  BY <1>3, <1>4
<1> QED
  BY <1>1, <1>3, <1>5 DEF r, R

(* merkleblock, of the block that was requested. *)
LEMMA RequestedClimbs ==
    ASSUME OneChain, Inv, Inv', Climbs, OnMerkleBlock,
           Head(toUs)[2] = m_lastRequestedMerkleBlockHash
    PROVE  Climbs'
<1> DEFINE b == Head(toUs)[2]
           s == SyncMerkleBlock(b)
           asked == IF m_bHeadersSynched THEN toPeer ELSE Append(toPeer, GetHeaders)
<1>1. /\ toUs # <<>> /\ toUs' = Tail(toUs) /\ Receive("merkle")
      /\ UNCHANGED <<m_bConnected, m_bInsertMerkleBlocks, peerTip, vaultOpen>>
      /\ tree' = tree /\ tip' = tip
      /\ SetQueue(s) /\ SetCurrent(b)
      /\ IF s.q = <<>>
         THEN Advance(b, asked)
         ELSE /\ toPeer' = asked
              /\ UNCHANGED <<m_lastRequestedMerkleBlockHash, m_lastSynchedMerkleBlockHash>>
  BY DEF OnMerkleBlock, Receive, userVars, peerVars, treeVars
<1>2. b \in Blocks
  BY <1>1, ReceiveOK DEF Inv
<1>3. /\ TreeOK /\ b \in tree /\ vault \in SoundVaults(tree) /\ tree \in SUBSET Blocks
      /\ m_mempoolTxs \subseteq Ours /\ m_currentMerkleTxIndex \in Nat /\ tip \in tree
  BY <1>2, NetSyncAssumption DEF Inv, TreeOK, HashesOK, VaultOK, QueueOK
<1>4. b = m_lastRequestedMerkleBlockHash
  OBVIOUS
<1> HIDE DEF b
<1>5. Active /\ Ready(vault, b) /\ Solid(vault) /\ vaultOpen /\ b # NoBlock
  BY <1>2, <1>4, NetSyncAssumption DEF Climbs, StoreOK
<1>6. Stored(b, vault, s) /\ (TxsOf(b) = <<>> => s.q = <<>>)
  BY <1>3, <1>5, SyncMerkleBlockStored, SyncMerkleBlockGood DEF Active
<1> HIDE DEF s
<1>7. s.q = <<>> \/ m_currentMerkleBlock' = b
  BY <1>1, <1>6 DEF SetCurrent
<1>8. TipTop /\ StartHeight <= Height(tip)
  BY <1>5 DEF Climbs, SentOK, Active
<1>9. s.q = <<>> => Continues(s.v, asked)
  <2> HIDE DEF asked
  <2> QED
    BY <1>1, <1>3, <1>6, <1>8, GoesOn
<1>10. StoreOK'
  <2>1. Active' /\ vaultOpen'
    BY <1>1, <1>5 DEF Active
  <2>2. \/ m_lastRequestedMerkleBlockHash' \in {NoBlock, m_lastRequestedMerkleBlockHash}
        \/ Ready(s.v, m_lastRequestedMerkleBlockHash')
    BY <1>1, <1>9 DEF Continues, AsksFor
  <2>3. \/ m_lastSynchedMerkleBlockHash' \in {NoBlock, m_lastSynchedMerkleBlockHash}
        \/ Full(s.v, Height(m_lastSynchedMerkleBlockHash'))
    BY <1>1, <1>9 DEF Continues
  <2> QED
    BY <1>1, <1>6, <1>7, <2>1, <2>2, <2>3, StoreAfter DEF Climbs
<1>11. Fetched \subseteq Fetched'
  <2> SUFFICES ASSUME NEW x \in Fetched, m_currentMerkleBlock' = x, x \notin vault'.complete
               PROVE  m_currentMerkleTxHashes' # <<>> /\ m_lastRequestedMerkleBlockHash' = x
    BY <1>1 DEF Fetched
  <2>1. m_currentMerkleTxHashes' = s.q /\ vault' = s.v /\ vault.complete \subseteq s.v.complete
    BY <1>1, <1>6 DEF SetQueue, Stored
  <2>2. x \notin vault.complete
    BY <2>1
  <2>3. s.q = <<>> => b \in s.v.complete
    BY <1>6 DEF Stored
  <2>4. x = b
    <3>1. CASE TxsOf(b) = <<>>
      <4>1. m_currentMerkleBlock = x
        BY <1>1, <3>1 DEF SetCurrent
      <4> QED
        BY <1>4, <2>2, <4>1 DEF Fetched
    <3>2. CASE TxsOf(b) # <<>>
      BY <1>1, <3>2 DEF SetCurrent
    <3> QED
      BY <3>1, <3>2
  <2> QED
    BY <1>1, <1>4, <2>1, <2>3, <2>4
<1>12. toPeer \in Seq(AskedNow') /\ TipTop' /\ Height(tip) <= Height(tip') /\ Height(tip') <= Height(peerTip')
  BY <1>1, <1>11, SentStays
<1>13. asked \in Seq(AskedNow')
  BY <1>1, <1>3, <1>12, HeadersAsked DEF Inv
<1>14. toPeer' = asked \/ \E c \in tree' : toPeer' = Append(asked, <<"getmerkle", c>>)
  BY <1>1, <1>9 DEF Continues, AsksFor
<1> HIDE DEF asked
<1>15. tree \subseteq tree' /\ m_bConnected /\ m_bConnected' /\ m_bInsertMerkleBlocks'
  BY <1>1, <1>5 DEF Active
<1>16. SentOK'
  BY <1>1, <1>8, <1>11, <1>12, <1>13, <1>14, <1>15, ActiveSent
<1> QED
  BY <1>10, <1>16 DEF Climbs

(* On one chain a block extends the tip only as the next block. *)
LEMMA ExtendsByOne ==
    ASSUME OneChain, TreeOK, NEW b \in Blocks, ExtendsTip(b)
    PROVE  Height(b) = Height(tip) + 1 /\ Heavier(tip, b) = b
<1>1. tip \in Blocks /\ NoBlock \notin Blocks /\ Parent(Genesis) = NoBlock
  BY NetSyncAssumption, GenesisHeight DEF TreeOK
<1>2. Parent(b) = tip
  <2> SUFFICES ASSUME b # Genesis, Parent(b) = Parent(tip), Work(b) > Work(tip) PROVE FALSE
    BY DEF ExtendsTip
  <2>1. Parent(b) \in Blocks /\ Height(Parent(b)) = Height(b) - 1 /\ Height(b) \in Nat
    BY Heights
  <2>2. tip # Genesis
    BY <1>1, <2>1
  <2>3. Height(Parent(tip)) = Height(tip) - 1 /\ Height(tip) \in Nat
    BY <1>1, <2>2, Heights
  <2>4. Height(b) = Height(tip)
    BY <2>1, <2>3
  <2>5. b = tip
    BY <1>1, <2>4 DEF OneChain
  <2>6. Work(b) \in Int
    <3>1. ChainWork[b] \in Nat /\ ChainWork[Parent(b)] \in Nat
      BY <2>1, NetSyncAssumption
    <3> QED
      BY <3>1 DEF Work
  <2>7. Work(b) > Work(b)
    BY <2>5
  <2> QED
    BY <2>6, <2>7
<1>3. b # Genesis
  BY <1>1, <1>2
<1>4. /\ Height(tip) = Height(b) - 1 /\ Height(b) \in Nat /\ Height(tip) \in Nat
      /\ ChainWork[b] \in Nat /\ ChainWork[tip] \in Nat
  BY <1>1, <1>2, <1>3, Heights, NetSyncAssumption
<1>5. ChainWork[tip] < ChainWork[b]
  <2>1. Height(tip) < Height(b)
    BY <1>4
  <2> QED
    BY <1>1, <2>1 DEF OneChain
<1>6. ChainWork[b] > ChainWork[tip]
  BY <1>4, <1>5
<1> QED
  BY <1>4, <1>6 DEF Heavier

(* merkleblock, of a block that extends the tip: it only comes once blocks  *)
(* are inserted, and is stored if the vault is synched up to the tip.       *)
LEMMA ExtendingClimbs ==
    ASSUME OneChain, Inv, Inv', Climbs, OnMerkleBlock,
           Head(toUs)[2] # m_lastRequestedMerkleBlockHash, ExtendsTip(Head(toUs)[2])
    PROVE  Climbs'
<1> DEFINE m == Head(toUs)
           b == m[2]
           s == SyncMerkleBlock(b)
           asked == IF m_bHeadersSynched THEN toPeer ELSE Append(toPeer, GetHeaders)
<1>1. /\ toUs # <<>> /\ toUs' = Tail(toUs) /\ Receive("merkle") /\ m[1] = "merkle"
      /\ UNCHANGED <<m_bConnected, m_bInsertMerkleBlocks, peerTip, vaultOpen,
                     m_lastRequestedMerkleBlockHash>>
      /\ tree' = tree \cup {b} /\ tip' = Heavier(tip, b)
      /\ toPeer' = asked
      /\ IF m_lastSynchedMerkleBlockHash = tip
         THEN /\ SetQueue(s) /\ SetCurrent(b)
              /\ m_lastSynchedMerkleBlockHash' = IF s.q = <<>> THEN tip' ELSE tip
         ELSE UNCHANGED <<txVars, vault, m_lastSynchedMerkleBlockHash>>
  BY DEF OnMerkleBlock, Receive, userVars, peerVars, treeVars
<1>2. b \in Blocks
  BY <1>1, ReceiveOK DEF Inv
<1>3. /\ TreeOK /\ TreeOK' /\ PeerOK /\ PeerOK' /\ tree \subseteq Blocks /\ tree' \subseteq Blocks
      /\ tip \in tree /\ tip \in Blocks
      /\ vault \in SoundVaults(tree) /\ vault \in SoundVaults(tree')
      /\ m_mempoolTxs \subseteq Ours /\ m_currentMerkleTxIndex \in Nat
      /\ NoBlock \notin Blocks
  <2>1. tree \subseteq tree'
    BY <1>1
  <2>2. vault \in SoundVaults(tree)
    BY DEF Inv, VaultOK
  <2> QED
    BY <2>1, <2>2, VaultsGrow, NetSyncAssumption DEF Inv, TreeOK, QueueOK
<1>4. /\ Height(b) = Height(tip) + 1 /\ tip' = b /\ Height(b) \in Nat /\ Height(tip) \in Nat
      /\ Height(peerTip) \in Nat /\ StartHeight \in Nat
  BY <1>1, <1>2, <1>3, ExtendsByOne, Heights DEF PeerOK, OneChain
<1>5. /\ toUs \in Seq(NewsNow) /\ toPeer \in Seq(AskedNow) /\ TipTop
      /\ Height(tip) <= Height(peerTip) /\ m_bConnected
      /\ ~ m_bInsertMerkleBlocks => ~ m_bHeadersSynched /\ Due(toUs, toPeer, Height(tip))
      /\ m_bInsertMerkleBlocks => StartHeight <= Height(tip)
  BY <1>1 DEF Climbs, SentOK
<1>6. Reaches(m) = Height(b) /\ m \in NewsNow
  BY <1>1, <1>5 DEF Reaches
<1>7. Height(b) <= Height(peerTip)
  BY <1>3, <1>6, NowReaches
<1>8. m_bInsertMerkleBlocks
  <2> SUFFICES ASSUME ~ m_bInsertMerkleBlocks PROVE FALSE
    OBVIOUS
  <2>1. Reaches(Head(toUs)) <= Height(tip)
    BY <1>1, <1>5, DueMerkle
  <2> QED
    BY <1>4, <1>6, <2>1
<1> HIDE DEF m
<1>9. Ready(vault, b) \/ m_lastSynchedMerkleBlockHash # tip
  <2> SUFFICES ASSUME m_lastSynchedMerkleBlockHash = tip PROVE Ready(vault, b)
    OBVIOUS
  <2>1. Full(vault, Height(tip)) /\ Height(b) - 1 = Height(tip)
    BY <1>3, <1>4 DEF Climbs, StoreOK
  <2> QED
    BY <1>4, <1>5, <1>8, <2>1 DEF Ready
<1>10. Active /\ Active' /\ Solid(vault) /\ vaultOpen /\ vaultOpen' /\ StoreOK
  BY <1>1, <1>5, <1>8 DEF Active, Climbs, StoreOK
<1>11. b \notin tree /\ TipTop' /\ Height(tip) <= Height(tip') /\ Height(tip') <= Height(peerTip')
  <2>1. \A c \in tree : Height(c) \in Nat /\ Height(c) <= Height(tip)
    BY <1>3, <1>5, Heights DEF TipTop
  <2>2. \A c \in tree' : Height(c) <= Height(b)
    BY <1>1, <1>4, <2>1
  <2> QED
    BY <1>1, <1>4, <1>7, <2>1, <2>2 DEF TipTop
<1> HIDE DEF b
<1>12. StoreOK' /\ Fetched \subseteq Fetched'
  <2>1. CASE m_lastSynchedMerkleBlockHash # tip
    <3>1. UNCHANGED <<txVars, vault, m_lastSynchedMerkleBlockHash>>
      BY <1>1, <2>1
    <3> QED
      BY <1>1, <1>10, <3>1, StoreStays, FetchedStays
  <2>2. CASE m_lastSynchedMerkleBlockHash = tip
    <3>1. /\ SetQueue(s) /\ SetCurrent(b)
          /\ m_lastSynchedMerkleBlockHash' = IF s.q = <<>> THEN b ELSE tip
      BY <1>1, <1>4, <2>2
    <3>2. b \in tree'
      BY <1>1
    <3>3. Stored(b, vault, s) /\ (TxsOf(b) = <<>> => s.q = <<>>)
      BY <1>3, <1>8, <1>9, <1>10, <2>2, <3>2, SyncMerkleBlockStored, SyncMerkleBlockGood
    <3> HIDE DEF s
    <3>4. s.q = <<>> \/ m_currentMerkleBlock' = b
      BY <3>1, <3>3 DEF SetCurrent
    <3>5. \/ m_lastSynchedMerkleBlockHash' \in {NoBlock, m_lastSynchedMerkleBlockHash}
          \/ Full(s.v, Height(m_lastSynchedMerkleBlockHash'))
      <4>1. CASE s.q = <<>>
        <5>1. Ready(s.v, b) /\ b \in s.v.complete
          BY <3>3, <4>1 DEF Stored
        <5>2. Full(s.v, Height(b))
          BY <1>2, <5>1, FullUpTo
        <5> QED
          BY <3>1, <4>1, <5>2
      <4>2. CASE s.q # <<>>
        BY <2>2, <3>1, <4>2
      <4> QED
        BY <4>1, <4>2
    <3>6. m_lastRequestedMerkleBlockHash' \in {NoBlock, m_lastRequestedMerkleBlockHash}
      BY <1>1
    <3>7. StoreOK'
      BY <1>10, <3>1, <3>3, <3>4, <3>5, <3>6, StoreAfter
    <3>8. Fetched \subseteq Fetched'
      <4> SUFFICES ASSUME NEW x \in Fetched, m_currentMerkleBlock' = x, x \notin vault'.complete
                   PROVE  FALSE
        BY <1>1 DEF Fetched
      <4>1. vault' = s.v /\ vault.complete \subseteq s.v.complete /\ x \in tree
        BY <3>1, <3>3 DEF SetQueue, Stored, Fetched
      <4>2. x \notin vault.complete /\ x # b /\ x \in Blocks
        BY <1>3, <1>11, <4>1
      <4>3. m_currentMerkleBlock = x
        BY <3>1, <4>2 DEF SetCurrent
      <4>4. m_lastRequestedMerkleBlockHash = x
        BY <4>2, <4>3 DEF Fetched
      <4>5. StartHeight <= Height(x)
        BY <1>3, <1>10, <4>2, <4>4 DEF StoreOK, Ready
      <4>6. Full(vault, Height(tip)) /\ Height(x) <= Height(tip)
        BY <1>3, <1>5, <1>10, <2>2, <4>1 DEF StoreOK, TipTop
      <4> QED
        BY <4>2, <4>5, <4>6 DEF Full
    <3> QED
      BY <3>7, <3>8
  <2> QED
    BY <2>1, <2>2
<1>13. toPeer \in Seq(AskedNow')
  <2>1. tree \subseteq tree' /\ Height(peerTip) <= Height(peerTip')
    BY <1>1, <1>4
  <2>2. AskedNow \subseteq AskedNow'
    BY <1>3, <1>11, <1>12, <2>1, WireLater
  <2> QED
    BY <1>5, <2>2, SeqGrows
<1>14. asked \in Seq(AskedNow')
  <2>1. tip \in tree'
    BY <1>1, <1>3
  <2> QED
    BY <1>3, <1>13, <2>1, HeadersAsked
<1> HIDE DEF asked
<1>15. /\ tree \subseteq tree' /\ m_bConnected /\ m_bConnected' /\ m_bInsertMerkleBlocks'
       /\ StartHeight <= Height(tip)
  BY <1>1, <1>5, <1>8
<1>16. SentOK'
  BY <1>1, <1>11, <1>12, <1>14, <1>15, ActiveSent
<1> QED
  BY <1>12, <1>16 DEF Climbs

(* merkleblock, of another block: it is ignored, and the headers are asked  *)
(* for if it is not known.                                                  *)
LEMMA IgnoredClimbs ==
    ASSUME OneChain, Inv, Inv', Climbs, OnMerkleBlock,
           Head(toUs)[2] # m_lastRequestedMerkleBlockHash, ~ ExtendsTip(Head(toUs)[2])
    PROVE  Climbs'
<1> DEFINE m == Head(toUs)
           b == m[2]
           r == GetHeaders
           asked == IF m_bHeadersSynched THEN toPeer ELSE Append(toPeer, r)
<1>1. /\ toUs # <<>> /\ toUs' = Tail(toUs) /\ Receive("merkle") /\ m[1] = "merkle"
      /\ UNCHANGED <<m_bConnected, m_bInsertMerkleBlocks, peerTip, vaultOpen, txVars, vault,
                     m_lastRequestedMerkleBlockHash, m_lastSynchedMerkleBlockHash>>
      /\ tree' = tree /\ tip' = tip
      /\ IF b \in tree
         THEN toPeer' = asked /\ UNCHANGED m_bHeadersSynched
         ELSE toPeer' = Append(asked, r) /\ m_bHeadersSynched' = FALSE
  BY DEF OnMerkleBlock, Receive, userVars, peerVars, treeVars
<1>2. b \in Blocks
  BY <1>1, ReceiveOK DEF Inv
<1>3. StoreOK' /\ Fetched \subseteq Fetched'
  BY <1>1, StoreStays, FetchedStays DEF Climbs
<1>4. /\ toPeer \in Seq(AskedNow') /\ TipTop' /\ Height(tip) <= Height(tip')
      /\ Height(tip') <= Height(peerTip')
  BY <1>1, <1>3, SentStays
<1>5. /\ r \in AskedNow' /\ Reaches(r) = 0 /\ Append(toPeer, r) \in Seq(AskedNow')
      /\ asked \in Seq(AskedNow')
  <2>1. tip \in tree' /\ PeerOK'
    BY <1>1 DEF Inv, TreeOK
  <2> QED
    BY <1>4, <2>1, HeadersAsked
<1>6. /\ m_bConnected
      /\ ~ m_bInsertMerkleBlocks => ~ m_bHeadersSynched /\ Due(toUs, toPeer, Height(tip))
      /\ m_bInsertMerkleBlocks => StartHeight <= Height(tip)
      /\ toUs \in Seq(NewsNow)
  BY <1>1 DEF Climbs, SentOK
<1>7. CASE m_bInsertMerkleBlocks
  <2> DEFINE q == toPeer'
             R == AskedNow'
  <2>1. /\ asked \in Seq(R) /\ r \in R /\ (q = asked \/ q = Append(asked, r))
    BY <1>1, <1>5
  <2> HIDE DEF q, R, r, asked
  <2>2. q \in Seq(R)
    BY ONLY <2>1
  <2>3. q \in Seq(AskedNow') /\ toPeer' = q
    BY <2>2 DEF q, R
  <2>4. tree \subseteq tree' /\ m_bConnected' /\ m_bInsertMerkleBlocks'
    BY <1>1, <1>6, <1>7
  <2>5. SentOK'
    BY <1>1, <1>3, <1>4, <1>6, <1>7, <2>3, <2>4, ActiveSent
  <2> QED
    BY <1>3, <2>5 DEF Climbs
<1>8. CASE ~ m_bInsertMerkleBlocks
  <2>1. Reaches(m) <= Height(tip) /\ Reaches(m) = Height(b)
    BY <1>1, <1>6, <1>8, DueMerkle DEF Reaches
  <2>2. b \in tree
    <3>1. tip \in tree /\ tip \in Blocks /\ Range(Path[tip]) \subseteq tree
      BY DEF Inv, TreeOK, Closed
    <3>2. b \in Range(Path[tip])
      BY <1>2, <2>1, <3>1, ChainOrder
    <3> QED
      BY <3>1, <3>2
  <2>3. toPeer' \in {toPeer, Append(toPeer, r)} /\ m_bHeadersSynched' = m_bHeadersSynched
    BY <1>1, <2>2
  <2> HIDE DEF r
  <2>4. SentOK'
    BY <1>1, <1>3, <1>5, <2>3, TakenSent
  <2> QED
    BY <1>3, <2>4 DEF Climbs
<1> QED
  BY <1>7, <1>8

(* A handler has worked on the current block: blocks stay worth fetching.   *)
LEMMA FetchedAfter ==
    ASSUME NEW b, NEW s, SetQueue(s), Stored(b, vault, s), m_currentMerkleBlock = b,
           m_currentMerkleBlock' = b, tree \subseteq tree',
           m_bInsertMerkleBlocks' = m_bInsertMerkleBlocks,
           s.q # <<>> => UNCHANGED m_lastRequestedMerkleBlockHash
    PROVE  Fetched \subseteq Fetched'
<1>1. /\ m_currentMerkleTxHashes' = s.q /\ vault' = s.v
      /\ vault.complete \subseteq s.v.complete /\ (s.q = <<>> => b \in s.v.complete)
  BY DEF SetQueue, Stored
<1> SUFFICES ASSUME NEW x \in Fetched, m_currentMerkleBlock' = x, x \notin vault'.complete
             PROVE  m_currentMerkleTxHashes' # <<>> /\ m_lastRequestedMerkleBlockHash' = x
  BY DEF Fetched
<1>2. x = b /\ x \notin vault.complete /\ s.q # <<>>
  BY <1>1
<1>3. m_lastRequestedMerkleBlockHash = x
  BY <1>2 DEF Fetched
<1> QED
  BY <1>1, <1>2, <1>3

(* The queue as a handler finds it, while it is not empty. *)
LEMMA QueueStored ==
    ASSUME OneChain, Inv, StoreOK, m_currentMerkleTxHashes # <<>>
    PROVE  Queue \in StoredStates(tree, m_currentMerkleBlock, vault)
<1> DEFINE b == m_currentMerkleBlock
<1>1. Queue \in States(tree, b, vault)
  BY QueueGood
<1>2. /\ Queue.q = m_currentMerkleTxHashes /\ Queue.i = m_currentMerkleTxIndex /\ Queue.v = vault
  BY DEF Queue
<1>3. Stored(b, vault, Queue)
  BY <1>2 DEF StoreOK, Stored
<1> QED
  BY <1>1, <1>3 DEF StoredStates

(* tx, while the queue is not empty. *)
LEMMA BlockTxClimbs ==
    ASSUME OneChain, Inv, Inv', Climbs, OnTx, m_currentMerkleTxHashes # <<>>,
           ProcessBlockTx(Head(toUs)[2])
    PROVE  Climbs'
<1> DEFINE t == Head(toUs)[2]
           b == m_currentMerkleBlock
           s == MempoolConfirmations(b, Queue)
           u == MempoolConfirmations(b, InsertFront(b, s, t))
           r == IF s.q # <<>> /\ t = Head(s.q) THEN u ELSE s
           fetch == /\ s.q # <<>> /\ t # Head(s.q)
                    /\ m_lastRequestedMerkleBlockHash # NoBlock
                    /\ m_lastRequestedBlockHash # m_lastRequestedMerkleBlockHash
           getblock == <<"getblock", m_lastRequestedMerkleBlockHash>>
<1>1. /\ SetQueue(r)
      /\ IF fetch
         THEN /\ toPeer' = Append(toPeer, getblock)
              /\ UNCHANGED <<m_lastRequestedMerkleBlockHash, m_lastSynchedMerkleBlockHash>>
         ELSE IF r.q = <<>>
         THEN Advance(b, toPeer)
         ELSE UNCHANGED <<m_lastRequestedMerkleBlockHash, m_lastSynchedMerkleBlockHash, toPeer>>
  BY DEF ProcessBlockTx
<1>2. /\ toUs # <<>> /\ toUs' = Tail(toUs)
      /\ UNCHANGED <<m_bConnected, m_bInsertMerkleBlocks, peerTip, vaultOpen, tree, tip>>
      /\ m_currentMerkleBlock' = b
  BY DEF OnTx, Receive, userVars, peerVars, treeVars
<1>3. /\ TreeOK /\ tree \in SUBSET Blocks /\ tip \in tree /\ b \in tree
      /\ m_lastRequestedMerkleBlockHash \in tree \cup {NoBlock}
  BY DEF Inv, TreeOK, QueueOK, HashesOK
<1>4. Active /\ vaultOpen /\ TipTop /\ StartHeight <= Height(tip)
  BY DEF Climbs, StoreOK, SentOK, Active
<1>5. Queue \in StoredStates(tree, b, vault)
  BY QueueStored DEF Climbs
<1> HIDE DEF b, t
<1>6. s \in StoredStates(tree, b, vault)
  BY <1>3, <1>4, <1>5, MempoolStored
<1> HIDE DEF s
<1>7. ASSUME s.q # <<>>, t = Head(s.q) PROVE u \in StoredStates(tree, b, vault)
  <2>1. InsertFront(b, s, t) \in StoredStates(tree, b, vault)
    BY <1>3, <1>4, <1>6, <1>7, InsertFrontStored
  <2> QED
    BY <1>3, <1>4, <2>1, MempoolStored
<1> HIDE DEF u
<1>8. Stored(b, vault, r)
  BY <1>6, <1>7 DEF StoredStates
<1>9. fetch => r.q # <<>>
  OBVIOUS
<1>10. fetch => m_lastRequestedMerkleBlockHash \in tree
  BY <1>3
<1> HIDE DEF r, fetch
<1>11. r.q = <<>> => Continues(r.v, toPeer)
  BY <1>1, <1>3, <1>4, <1>8, <1>9, GoesOn
<1>12. r.q # <<>> => UNCHANGED <<m_lastRequestedMerkleBlockHash, m_lastSynchedMerkleBlockHash>>
  BY <1>1
<1>13. StoreOK'
  <2>1. Active' /\ vaultOpen'
    BY <1>2, <1>4 DEF Active
  <2>2. \/ m_lastRequestedMerkleBlockHash' \in {NoBlock, m_lastRequestedMerkleBlockHash}
        \/ Ready(r.v, m_lastRequestedMerkleBlockHash')
    BY <1>11, <1>12 DEF Continues, AsksFor
  <2>3. \/ m_lastSynchedMerkleBlockHash' \in {NoBlock, m_lastSynchedMerkleBlockHash}
        \/ Full(r.v, Height(m_lastSynchedMerkleBlockHash'))
    BY <1>2, <1>11, <1>12 DEF Continues
  <2> QED
    BY <1>1, <1>2, <1>8, <2>1, <2>2, <2>3, StoreAfter DEF Climbs
<1>14. Fetched \subseteq Fetched'
  <2>1. tree \subseteq tree' /\ m_currentMerkleBlock = b
    BY <1>2 DEF b
  <2> QED
    BY <1>1, <1>2, <1>8, <1>12, <2>1, FetchedAfter
<1>15. /\ toPeer \in Seq(AskedNow') /\ TipTop' /\ Height(tip) <= Height(tip')
       /\ Height(tip') <= Height(peerTip')
  BY <1>2, <1>14, SentStays
<1>16. CASE fetch
  <2>1. m_lastRequestedMerkleBlockHash \in Fetched'
    BY <1>1, <1>2, <1>4, <1>9, <1>10, <1>16 DEF Fetched, SetQueue, Active
  <2>2. getblock \in Requests(tree') /\ Reaches(getblock) = 0
        /\ getblock[1] = "getblock" /\ getblock[2] = m_lastRequestedMerkleBlockHash
    BY <1>2, <1>3, <1>10, <1>16 DEF Requests, Reaches
  <2>3. Height(peerTip') \in Nat
    BY Heights DEF Inv, PeerOK
  <2>4. toPeer' = Append(toPeer, getblock)
    BY <1>1, <1>16
  <2> HIDE DEF getblock
  <2>5. getblock \in AskedNow'
    BY <2>1, <2>2, <2>3 DEF AskedNow, Asked
  <2> DEFINE R == AskedNow'
             q == toPeer'
  <2>6. toPeer \in Seq(R) /\ getblock \in R /\ q = Append(toPeer, getblock)
    BY <1>15, <2>4, <2>5
  <2> HIDE DEF R, q
  <2>7. q \in Seq(R)
    BY ONLY <2>6
  <2>8. q \in Seq(AskedNow') /\ toPeer' = q
    BY <2>7 DEF R, q
  <2>9. tree \subseteq tree' /\ m_bConnected /\ m_bConnected' /\ m_bInsertMerkleBlocks'
    BY <1>2, <1>4 DEF Active
  <2>10. SentOK'
    BY <1>2, <1>4, <1>14, <1>15, <2>8, <2>9, ActiveSent
  <2> QED
    BY <1>13, <2>10 DEF Climbs
<1>17. CASE ~ fetch
  <2>1. toPeer' = toPeer \/ \E c \in tree' : toPeer' = Append(toPeer, <<"getmerkle", c>>)
    BY <1>1, <1>2, <1>11, <1>17 DEF Continues, AsksFor
  <2>2. tree \subseteq tree' /\ m_bConnected /\ m_bConnected' /\ m_bInsertMerkleBlocks'
    BY <1>2, <1>4 DEF Active
  <2>3. SentOK'
    BY <1>2, <1>4, <1>14, <1>15, <2>1, <2>2, ActiveSent
  <2> QED
    BY <1>13, <2>3 DEF Climbs
<1> QED
  BY <1>16, <1>17

(* tx: the vault's blocks stay as they are while the queue is empty. *)
LEMMA OnTxClimbs == ASSUME OneChain, Inv, Inv', Climbs, OnTx PROVE Climbs'
<1> DEFINE t == Head(toUs)[2]
<1>1. CASE m_currentMerkleTxHashes # <<>> /\ ProcessBlockTx(t)
  BY <1>1, BlockTxClimbs
<1>2. CASE /\ m_currentMerkleTxHashes' = m_currentMerkleTxHashes
           /\ m_currentMerkleTxIndex' = m_currentMerkleTxIndex
           /\ UNCHANGED <<blockVars, toPeer>>
           /\ vault' \in {vault, InsertNewTx(vault, t)}
  <2>1. /\ toUs # <<>> /\ toUs' = Tail(toUs) /\ Head(toUs)[1] # "headers"
        /\ UNCHANGED <<m_bConnected, m_bHeadersSynched, m_bInsertMerkleBlocks, peerTip,
                       vaultOpen, tree, tip, m_currentMerkleBlock>>
    BY DEF OnTx, Receive, userVars, peerVars, treeVars
  <2> HIDE DEF t
  <2>2. vault'.chain = vault.chain /\ vault'.complete = vault.complete
    <3>1. vault = [chain |-> vault.chain, complete |-> vault.complete, conf |-> vault.conf]
      BY VaultFields DEF Inv, VaultOK, TreeOK
    <3>2. \A f : /\ [vault EXCEPT !.conf = f].chain = vault.chain
                 /\ [vault EXCEPT !.conf = f].complete = vault.complete
      BY ONLY <3>1
    <3> QED
      BY <1>2, <3>2 DEF InsertNewTx
  <2>3. UNCHANGED <<m_lastRequestedMerkleBlockHash, m_lastSynchedMerkleBlockHash>>
    BY <1>2 DEF blockVars
  <2>4. StoreOK'
    BY <1>2, <2>1, <2>2, <2>3 DEF Climbs, StoreOK, Solid, Ready, Full, Active
  <2>5. Fetched \subseteq Fetched'
    BY <1>2, <2>1, <2>2, <2>3 DEF Fetched
  <2>6. toPeer \in Seq(AskedNow') /\ tip \in tree' /\ PeerOK'
    BY <2>1, <2>5, SentStays DEF Inv, TreeOK
  <2>7. GetHeaders \in AskedNow' /\ Reaches(GetHeaders) = 0
    BY <2>6, HeadersAsked
  <2>8. SentOK'
    BY <1>2, <2>1, <2>5, <2>7, TakenSent
  <2> QED
    BY <2>4, <2>8 DEF Climbs
<1> QED
  BY <1>1, <1>2 DEF OnTx

(* block: a whole block that was fetched is on its way only while it is     *)
(* worth fetching, so its queue is the one of the current block.            *)
LEMMA OnBlockClimbs == ASSUME OneChain, Inv, Inv', Climbs, OnBlock PROVE Climbs'
<1> DEFINE m == Head(toUs)
           b == m[2]
           s == ScanBlock(b)
<1>1. /\ toUs # <<>> /\ toUs' = Tail(toUs) /\ Receive("block") /\ m[1] = "block"
      /\ UNCHANGED <<m_bConnected, m_bHeadersSynched, m_bInsertMerkleBlocks, peerTip, vaultOpen,
                     tree, tip, m_currentMerkleBlock>>
  BY DEF OnBlock, Receive, userVars, peerVars, treeVars
<1>2. /\ m_bConnected /\ toUs \in Seq(NewsNow) /\ StoreOK /\ vaultOpen /\ TipTop
      /\ m_bInsertMerkleBlocks => StartHeight <= Height(tip)
  BY <1>1 DEF Climbs, SentOK, StoreOK
<1>3. b \in Fetched
  BY <1>1, <1>2 DEF NewsNow, News
<1>4. /\ Active /\ StartHeight <= Height(tip) /\ b \in tree
      /\ b = m_currentMerkleBlock /\ b \notin vault.complete =>
            m_currentMerkleTxHashes # <<>> /\ m_lastRequestedMerkleBlockHash = b
  BY <1>2, <1>3 DEF Fetched, Active
<1>5. TreeOK /\ tree \in SUBSET Blocks /\ tip \in tree /\ NoBlock \notin Blocks
  BY NetSyncAssumption DEF Inv, TreeOK
<1>6. CASE m_bMissingTxs /\ m_currentMerkleBlock = b
  <2>1. /\ SetQueue(s)
        /\ IF s.q = <<>>
           THEN m_bMissingTxs' = FALSE /\ Advance(b, toPeer)
           ELSE UNCHANGED <<m_bMissingTxs, m_lastRequestedMerkleBlockHash,
                            m_lastSynchedMerkleBlockHash, toPeer>>
    BY <1>6 DEF OnBlock
  <2> HIDE DEF b
  <2>2. Queue \in StoredStates(tree, b, vault)
    <3>1. CASE m_currentMerkleTxHashes # <<>>
      BY <1>2, <1>6, <3>1, QueueStored
    <3>2. CASE m_currentMerkleTxHashes = <<>>
      <4>1. b \in vault.complete
        BY <1>4, <1>6, <3>2
      <4>2. Queue \in States(tree, b, vault)
        BY <1>6, QueueGood
      <4>3. vault.complete \subseteq vault.chain /\ b \in vault.chain
        BY <1>5, <4>1, VaultFields DEF Inv, VaultOK
      <4>4. Solid(vault) /\ Ready(vault, b)
        BY <1>2, <4>3 DEF StoreOK, Solid, Ready
      <4>5. Queue.q = <<>> /\ Queue.v = vault
        BY <3>2 DEF Queue
      <4>6. Stored(b, vault, Queue)
        BY <4>1, <4>4, <4>5 DEF Stored
      <4> QED
        BY <4>2, <4>6 DEF StoredStates
    <3> QED
      BY <3>1, <3>2
  <2>3. Stored(b, vault, s) /\ s.q = <<>>
    BY <1>2, <1>4, <1>5, <2>2, ScanStored
  <2> HIDE DEF s
  <2>4. Continues(s.v, toPeer)
    BY <1>2, <1>4, <1>5, <2>1, <2>3, GoesOn
  <2>5. Fetched \subseteq Fetched'
    <3>1. m_currentMerkleBlock' = b /\ tree \subseteq tree'
      BY <1>1, <1>6
    <3> QED
      BY <1>1, <1>6, <2>1, <2>3, <3>1, FetchedAfter
  <2>6. StoreOK'
    <3>1. Active' /\ vaultOpen'
      BY <1>1, <1>2, <1>4 DEF Active
    <3>2. \/ m_lastRequestedMerkleBlockHash' \in {NoBlock, m_lastRequestedMerkleBlockHash}
          \/ Ready(s.v, m_lastRequestedMerkleBlockHash')
      BY <2>4 DEF Continues, AsksFor
    <3>3. \/ m_lastSynchedMerkleBlockHash' \in {NoBlock, m_lastSynchedMerkleBlockHash}
          \/ Full(s.v, Height(m_lastSynchedMerkleBlockHash'))
      BY <1>1, <2>4 DEF Continues
    <3> QED
      BY <1>2, <2>1, <2>3, <3>1, <3>2, <3>3, StoreAfter
  <2>7. /\ toPeer \in Seq(AskedNow') /\ TipTop' /\ Height(tip) <= Height(tip')
        /\ Height(tip') <= Height(peerTip')
    BY <1>1, <2>5, SentStays
  <2>8. toPeer' = toPeer \/ \E c \in tree' : toPeer' = Append(toPeer, <<"getmerkle", c>>)
    BY <1>1, <2>4 DEF Continues, AsksFor
  <2>9. tree \subseteq tree' /\ m_bConnected' /\ m_bInsertMerkleBlocks'
    BY <1>1, <1>4 DEF Active
  <2>10. SentOK'
    BY <1>1, <1>2, <1>4, <2>5, <2>7, <2>8, <2>9, ActiveSent
  <2> QED
    BY <2>6, <2>10 DEF Climbs
<1>7. CASE ~ (m_bMissingTxs /\ m_currentMerkleBlock = b)
  <2>1. UNCHANGED <<txVars, vault, m_lastRequestedMerkleBlockHash, m_lastSynchedMerkleBlockHash,
                    toPeer>>
    BY <1>7 DEF OnBlock, txVars
  <2> HIDE DEF b
  <2>2. StoreOK'
    BY <1>1, <1>2, <2>1, StoreStays
  <2>3. Fetched \subseteq Fetched'
    BY <1>1, <2>1, FetchedStays
  <2>4. toPeer \in Seq(AskedNow') /\ tip \in tree' /\ PeerOK'
    BY <1>1, <2>3, SentStays DEF Inv, TreeOK
  <2>5. GetHeaders \in AskedNow' /\ Reaches(GetHeaders) = 0
    BY <2>4, HeadersAsked
  <2>6. SentOK'
    BY <1>1, <2>1, <2>3, <2>5, TakenSent
  <2> QED
    BY <2>2, <2>6 DEF Climbs
<1> QED
  BY <1>6, <1>7

-----------------------------------------------------------------------------
(* The theorems about one chain.                                            *)

(* A peer that we are connected to has the chain at least up to the start   *)
(* height.                                                                  *)
PeerReaches == m_bConnected => StartHeight <= Height(peerTip)

(* Until the vault is first closed or replaced. *)
Climbing == vaultOps = 0 => Climbs

(* Every step keeps it: closing or replacing the vault ends the period.     *)
LEMMA NextClimbs ==
    ASSUME OneChain, Inv, Inv', Climbing, PeerReaches, [Next]_vars
    PROVE  Climbing'
<1>1. vaultOps \in Nat
  BY Bounds DEF Inv, FlagsOK
<1>2. CASE UNCHANGED vars
  <2>1. UNCHANGED <<m_bConnected, m_bHeadersSynched, m_bInsertMerkleBlocks, tree, tip, peerTip,
                    m_lastRequestedMerkleBlockHash, m_lastSynchedMerkleBlockHash,
                    m_currentMerkleBlock, m_currentMerkleTxHashes, m_currentMerkleTxIndex,
                    vault, vaultOpen, toPeer, toUs, vaultOps>>
    BY <1>2 DEF vars, treeVars, blockVars, txVars, userVars, peerVars
  <2>2. Fetched' = Fetched
    BY <2>1 DEF Fetched
  <2>3. NewsNow' = NewsNow /\ AskedNow' = AskedNow
    BY <2>1, <2>2 DEF NewsNow, AskedNow
  <2>4. StoreOK' = StoreOK /\ TipTop' = TipTop
    BY <2>1 DEF StoreOK, Active, TipTop
  <2>5. SentOK => SentOK'
    BY <2>1, <2>3, <2>4 DEF SentOK
  <2> QED
    BY <2>1, <2>4, <2>5 DEF Climbing, Climbs
<1>3. CASE CloseVault
  BY <1>1, <1>3 DEF CloseVault, Climbing
<1>4. CASE OpenVault \/ OpenVaultFails
  <2>1. vaultOps = 0 /\ vaultOpen => vaultOps' # 0
    BY <1>1, <1>4 DEF OpenVault, OpenVaultFails
  <2> QED
    BY <1>1, <1>4, <2>1 DEF OpenVault, OpenVaultFails, Climbing, Climbs, StoreOK
<1>5. CASE Handlers \/ Peer \/ Open \/ Stop
  <2>1. vaultOps' = vaultOps
    BY <1>5 DEF Handlers, Peer, OnInv, OnHeaders, OnMerkleBlock, OnTx, OnBlock, Receive,
               PeerReplies, PeerMines, PeerRelays, Open, Stop, userVars
  <2> SUFFICES ASSUME Climbs PROVE Climbs'
    BY <2>1 DEF Climbing
  <2>2. OnMerkleBlock => Climbs'
    BY RequestedClimbs, ExtendingClimbs, IgnoredClimbs
  <2>3. OnHeaders => Climbs'
    BY HeadersClimb, NoHeadersClimb
  <2>4. PeerReplies => Climbs'
    BY PeerRepliesClimbs DEF PeerReaches
  <2>5. PeerMines \/ PeerRelays => Climbs'
    BY PeerAnnouncesClimbs
  <2> QED
    BY <1>5, <2>2, <2>3, <2>4, <2>5, OnInvClimbs, OnTxClimbs, OnBlockClimbs, OpenClimbs,
       StopClimbs DEF Handlers, Peer
<1> QED
  BY <1>2, <1>3, <1>4, <1>5 DEF Next, User

(* What is reported as synched is full, and the path to the tip has a block *)
(* at every height.                                                         *)
LEMMA ClimbsSynched == ASSUME Inv, Climbs PROVE SynchedMeansStored
<1> SUFFICES ASSUME m_lastSynchedMerkleBlockHash = tip, NEW i \in 1 .. Height(tip), i >= StartHeight
             PROVE  Path[tip][i + 1] \in vault.complete
  BY DEF SynchedMeansStored
<1>1. tip \in Blocks /\ NoBlock \notin Blocks /\ StartHeight \in Nat
  BY NetSyncAssumption DEF Inv, TreeOK
<1>2. Height(tip) \in Nat /\ Len(Path[tip]) = Height(tip) + 1
  BY <1>1, Heights
<1>3. Full(vault, Height(tip))
  BY <1>1 DEF Climbs, StoreOK
<1>4. i + 1 \in 1 .. Len(Path[tip]) /\ (i + 1) - 1 = i /\ StartHeight <= i /\ i <= Height(tip)
  BY <1>1, <1>2
<1> DEFINE c == Path[tip][i + 1]
<1>5. c \in Blocks /\ Height(c) = i
  BY <1>1, <1>4, PathPrefix
<1> HIDE DEF c
<1>6. c \in vault.complete
  BY <1>3, <1>4, <1>5 DEF Full
<1> QED
  BY <1>6 DEF c

(* Where the blocks are one chain, block sync is only reported complete     *)
(* when the vault has every block from the start height to the tip with all *)
(* its transactions, until the vault is first closed or replaced: through   *)
(* any number of connections, requests that a stop has cut off, and blocks  *)
(* announced at any time.                                                   *)
THEOREM SynchedUntilClosed ==
    ASSUME OneChain
    PROVE  Spec /\ []PeerReaches => [](vaultOps = 0 => SynchedMeansStored)
<1>1. Init => Climbing
  BY InitClimbs DEF Climbing
<1>2. Inv /\ Inv' /\ Climbing /\ PeerReaches /\ [Next]_vars => Climbing'
  BY NextClimbs
<1>3. Inv /\ Climbing => (vaultOps = 0 => SynchedMeansStored)
  BY ClimbsSynched DEF Climbing
<1> QED
  BY <1>1, <1>2, <1>3, InvHolds, PTL DEF Spec

(* The peer starts at height 1 and never goes back, so for a program whose  *)
(* vault starts there and stays open nothing is assumed of the peer.        *)
THEOREM SynchedHolds ==
    ASSUME OneChain, StartHeight = 1, MaxVaultOps = 0
    PROVE  Spec => []SynchedMeansStored
<1> DEFINE Mined == Height(peerTip) >= 1
<1>1. Init => Mined
  BY DEF Init
<1>2. ASSUME Inv, Inv', Mined, [Next]_vars PROVE Mined'
  <2>1. CASE peerTip' = peerTip
    BY <1>2, <2>1
  <2>2. CASE PeerMines
    <3>1. PICK b \in Blocks : ChainWork[b] > ChainWork[peerTip] /\ peerTip' = b
      BY <2>2 DEF PeerMines
    <3>2. peerTip \in Blocks
      BY <1>2 DEF Inv, PeerOK
    <3>3. ChainWork[b] \in Nat /\ ChainWork[peerTip] \in Nat
      BY <3>1, <3>2, ChainOrder
    <3>4. ChainWork[peerTip] < ChainWork[b]
      BY <3>1, <3>3
    <3>5. Height(peerTip) < Height(b) /\ Height(peerTip) \in Nat /\ Height(b) \in Nat
      BY <3>1, <3>2, <3>4, ChainOrder
    <3> QED
      BY <1>2, <3>1, <3>5
  <2> QED
    BY <1>2, <2>1, <2>2
       DEF Next, Handlers, Peer, User, OnInv, OnHeaders, OnMerkleBlock, OnTx, OnBlock, Receive,
           PeerReplies, PeerRelays, Open, Stop, CloseVault, OpenVault, OpenVaultFails, peerVars, vars
<1>3. Mined => PeerReaches
  BY DEF PeerReaches
<1>4. Inv => vaultOps = 0
  BY DEF Inv, FlagsOK
<1> HIDE DEF Mined
<1>5. Inv /\ Inv' /\ Mined /\ [Next]_vars => Mined'
  BY <1>2
<1> QED
  BY <1>1, <1>3, <1>4, <1>5, InvHolds, SynchedUntilClosed, PTL DEF Spec
=============================================================================
