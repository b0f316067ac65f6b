---------------------------- MODULE TxFlowProofs ----------------------------
(***************************************************************************)
(* What holds of payments for every number of transactions, keychains and  *)
(* required signatures: what is sent is signed, what is signed stays so,   *)
(* and only the transaction asked about is deleted, with those that spend  *)
(* from it.                                                                *)
(*                                                                         *)
(* The vault changes a transaction in several ways.  Becomes says what all *)
(* of them have in common, one lemma for each; the lemmas of the actions   *)
(* only need that.  Where a theorem assumes ~Segwit, the code does not     *)
(* keep the property for accounts with segregated witness: a transaction   *)
(* received from a peer is stored without its witness.                     *)
(***************************************************************************)
EXTENDS TxFlow, FiniteSetTheorems, TLAPS

SignedStatus == {"UNSENT", "PROPAGATED", "CONFIRMED"}

TxType == [status : {"none", "UNSIGNED"} \union SignedStatus,
           signers : SUBSET Keychains, block : BOOLEAN]

(* A set of signatures that can be sent: there are enough, and exactly as   *)
(* many as are needed unless copies of three or more signatures are merged. *)
Enough(S) ==
    Cardinality(S) >= MinSigs /\ (MinSigs <= 2 => Cardinality(S) = MinSigs)

TxOK(t) ==
    /\ t \in TxType
    /\ t.status = "none" => t = Absent
    /\ t.status = "UNSIGNED" => Cardinality(t.signers) < MinSigs
    /\ ~Segwit /\ t.block => t.status \in SignedStatus
    /\ ~Segwit /\ t.status \in SignedStatus => Enough(t.signers)

(* What every way to change a transaction keeps. *)
Becomes(t, u) ==
    /\ TxOK(u)
    /\ u = Absent => t = Absent
    /\ ~Segwit /\ t.status \in SignedStatus => u.status \in SignedStatus

USE TxFlowAssumption

-----------------------------------------------------------------------------
(* Keychains are finite, and so is every set of signatures. *)
LEMMA SignersFinite ==
    ASSUME NEW S \in SUBSET Keychains
    PROVE  /\ IsFiniteSet(S) /\ Cardinality(S) \in Nat
           /\ Cardinality(S) <= Cardinality(Keychains)
           /\ Cardinality(S) = 0 => S = {}
BY FS_Subset, FS_CardinalityType, FS_EmptySet

(* An account asks for at least one signature, of finitely many. *)
LEMMA MinSigsType == MinSigs \in Nat /\ MinSigs >= 1 /\ Cardinality(Keychains) \in Nat
BY FS_CardinalityType

(* The signatures of two disjoint sets add up. *)
LEMMA UnionSize ==
    ASSUME NEW S \in SUBSET Keychains, NEW T \in SUBSET Keychains
    PROVE  /\ Cardinality(S \union T) <= Cardinality(S) + Cardinality(T)
           /\ Cardinality(S \union T) >= Cardinality(S)
<1>1. /\ IsFiniteSet(S) /\ IsFiniteSet(T) /\ Cardinality(S) \in Nat
      /\ Cardinality(T) \in Nat /\ Cardinality(S \intersect T) \in Nat
      /\ IsFiniteSet(S \union T)
  BY SignersFinite
<1>2. Cardinality(S \union T) = Cardinality(S) + Cardinality(T) - Cardinality(S \intersect T)
  BY <1>1, FS_Union
<1>3. Cardinality(S) <= Cardinality(S \union T)
  BY <1>1, FS_Subset
<1> QED
  BY <1>1, <1>2, <1>3

(* Tx::updateStatus, for a transaction that the vault has and, unless it is *)
(* a segwit transaction, is not signed yet.                                 *)
LEMMA UpdateStatusOK ==
    ASSUME NEW t, t \in TxType, t.status # "none",
           ~Segwit => t.status = "UNSIGNED" /\ ~t.block,
           NEW S \in SUBSET Keychains, NEW s \in SignedStatus,
           MinSigs <= 2 /\ ~Segwit => Cardinality(S) <= MinSigs
    PROVE  /\ TxOK(UpdateStatus(t, S, s))
           /\ UpdateStatus(t, S, s) # Absent
<1> DEFINE st == IF Cardinality(S) < MinSigs THEN "UNSIGNED"
                 ELSE IF t.status # "UNSIGNED" THEN t.status ELSE s
           u == [t EXCEPT !.signers = S, !.status = st]
<1>1. UpdateStatus(t, S, s) = u
  BY DEF UpdateStatus, TxType
<1>2. u \in TxType /\ u.status = st /\ u.signers = S /\ u.block = t.block
  BY DEF TxType
<1>3. st # "none" /\ (st = "UNSIGNED" <=> Cardinality(S) < MinSigs)
  BY DEF SignedStatus
<1>4. Cardinality(S) \in Nat
  BY SignersFinite
<1> HIDE DEF u, st
<1>5. ~Segwit /\ u.status \in SignedStatus => Enough(S)
  <2> SUFFICES ASSUME ~Segwit, u.status \in SignedStatus PROVE Enough(S)
    OBVIOUS
  <2>1. ~(Cardinality(S) < MinSigs)
    BY <1>2, <1>3 DEF SignedStatus
  <2> QED
    BY <1>4, <2>1, MinSigsType DEF Enough
<1>6. TxOK(u) /\ u # Absent
  BY <1>2, <1>3, <1>5, MinSigsType DEF TxOK, Absent
<1> QED
  BY <1>1, <1>6

(* A transaction that stays as it is. *)
LEMMA StaysBecomes ==
    ASSUME NEW t, TxOK(t) PROVE Becomes(t, t)
BY DEF Becomes

(* Vault::signTx adds as many signatures as are needed and no more, so that *)
(* a complete transaction stays as it is.                                   *)
LEMMA SignedBecomes ==
    ASSUME NEW t, TxOK(t), t # Absent, NEW K \in SUBSET Keychains, NEW u,
           NEW S \in Signers(t, K, u)
    PROVE  Becomes(t, Signed(t, S)) /\ Signed(t, S) # Absent
<1>0. /\ t \in TxType /\ t.status # "none" /\ t.signers \in SUBSET Keychains
      /\ S \in SUBSET Keychains
  BY DEF TxOK, TxType, Signers
<1>1. /\ Cardinality(t.signers) \in Nat /\ Cardinality(S) \in Nat
      /\ MinSigs \in Nat
  BY <1>0, SignersFinite, MinSigsType
<1>2. Cardinality(S) <= SigsNeeded(t)
  <2> DEFINE can == (K \intersect u) \ t.signers
  <2>1. Cardinality(can) \in Nat
    BY SignersFinite
  <2>2. SigsNeeded(t) \in Nat
    BY <1>1 DEF SigsNeeded
  <2>3. Cardinality(S) = IF Cardinality(can) < SigsNeeded(t) THEN Cardinality(can)
                         ELSE SigsNeeded(t)
    BY DEF Signers
  <2> HIDE DEF can
  <2> QED
    BY <2>1, <2>2, <2>3
<1>3. CASE S = {}
  BY <1>3, StaysBecomes DEF Signed
<1>4. CASE S # {} /\ Segwit
  <2>1. t.signers \union S \in SUBSET Keychains /\ "UNSENT" \in SignedStatus
    BY <1>0 DEF SignedStatus
  <2>2. Signed(t, S) = UpdateStatus(t, t.signers \union S, "UNSENT")
    BY <1>4 DEF Signed
  <2> QED
    BY <1>0, <1>4, <2>1, <2>2, UpdateStatusOK DEF Becomes
<1>5. CASE S # {} /\ ~Segwit
  <2>1. Cardinality(S) > 0
    BY <1>0, <1>1, <1>5, SignersFinite
  <2>2. SigsNeeded(t) = MinSigs - Cardinality(t.signers) /\ Cardinality(t.signers) < MinSigs
    BY <1>1, <1>2, <2>1 DEF SigsNeeded
  <2>3. t.status = "UNSIGNED" /\ ~t.block
    BY <1>0, <1>1, <1>5, <2>2 DEF Enough, TxOK, TxType, SignedStatus
  <2>4. Cardinality(t.signers \union S) <= MinSigs
    <3>1. Cardinality(t.signers \union S) <= Cardinality(t.signers) + Cardinality(S)
      BY <1>0, UnionSize
    <3>2. Cardinality(t.signers \union S) \in Nat
      BY <1>0, SignersFinite
    <3> QED
      BY <1>1, <1>2, <2>2, <3>1, <3>2
  <2>5. Signed(t, S) = UpdateStatus(t, t.signers \union S, "UNSENT")
    BY <1>5 DEF Signed
  <2> QED
    BY <1>0, <1>5, <2>3, <2>4, <2>5, UpdateStatusOK DEF Becomes, SignedStatus
<1> QED
  BY <1>3, <1>4, <1>5

(* A payment that has just been made has no signatures. *)
LEMMA CreatedOK ==
    /\ TxOK(Absent) /\ Absent.status = "none" /\ ~Absent.block
    /\ TxOK([Absent EXCEPT !.status = "UNSIGNED"])
    /\ [Absent EXCEPT !.status = "UNSIGNED"].status = "UNSIGNED"
    /\ ~[Absent EXCEPT !.status = "UNSIGNED"].block
    /\ [Absent EXCEPT !.status = "UNSIGNED"] # Absent
<1> DEFINE new == [Absent EXCEPT !.status = "UNSIGNED"]
<1>1. Cardinality({}) < MinSigs
  BY FS_EmptySet, MinSigsType
<1>2. /\ Absent \in TxType /\ Absent.status = "none" /\ Absent.block = FALSE
      /\ Absent.signers = {}
  BY DEF Absent, TxType
<1>3. TxOK(Absent)
  BY <1>2 DEF TxOK, SignedStatus
<1>4. /\ new \in TxType /\ new.status = "UNSIGNED" /\ new.block = FALSE
      /\ new.signers = {}
  BY <1>2 DEF TxType
<1> HIDE DEF new
<1>5. TxOK(new) /\ new # Absent
  BY <1>1, <1>2, <1>4 DEF TxOK, SignedStatus
<1> QED
  BY <1>2, <1>3, <1>4, <1>5 DEF new

(* Vault::insertTx of an imported copy.  A copy with all its signatures     *)
(* replaces an unsigned transaction, another one is merged with it.         *)
LEMMA InsertTxBecomes ==
    ASSUME NEW t, TxOK(t), NEW S \in Full \union Partial, NEW s \in SignedStatus
    PROVE  Becomes(t, InsertTx(t, S, s))
<1> DEFINE new == [Absent EXCEPT !.status = "UNSIGNED"]
<1>0. /\ t \in TxType /\ t.signers \in SUBSET Keychains /\ S \in SUBSET Keychains
      /\ Cardinality(S) \in Nat /\ MinSigs \in Nat /\ Cardinality(S) <= MinSigs
      /\ Cardinality(t.signers) \in Nat
  BY SignersFinite, MinSigsType DEF TxOK, TxType, Full, Partial
<1>1. /\ new \in TxType /\ new.status = "UNSIGNED" /\ ~new.block
  BY CreatedOK DEF TxOK
<1>2. CASE t.status = "none"
  <2>1. InsertTx(t, S, s) = UpdateStatus(new, S, s)
    BY <1>2 DEF InsertTx
  <2> HIDE DEF new
  <2> QED
    BY <1>0, <1>1, <1>2, <2>1, UpdateStatusOK DEF Becomes, SignedStatus
<1>3. CASE t.status = "UNSIGNED" /\ S \in Full
  <2>1. InsertTx(t, S, s) = UpdateStatus(t, S, s)
    BY <1>3 DEF InsertTx
  <2>2. ~Segwit => ~t.block
    BY <1>3 DEF TxOK, SignedStatus
  <2> QED
    BY <1>0, <1>3, <2>1, <2>2, UpdateStatusOK DEF Becomes, SignedStatus
<1>4. CASE t.status = "UNSIGNED" /\ S \notin Full
  <2>1. InsertTx(t, S, s) = UpdateStatus(t, t.signers \union S, "UNSENT")
    BY <1>4 DEF InsertTx
  <2>2. ~Segwit => ~t.block
    BY <1>4 DEF TxOK, SignedStatus
  <2>3. Cardinality(S) < MinSigs /\ Cardinality(t.signers) < MinSigs
    BY <1>4 DEF Full, Partial, TxOK
  <2>4. MinSigs <= 2 => Cardinality(t.signers \union S) <= MinSigs
    <3>1. /\ Cardinality(t.signers \union S) <= Cardinality(t.signers) + Cardinality(S)
          /\ Cardinality(t.signers \union S) \in Nat
      BY <1>0, UnionSize, SignersFinite
    <3> QED
      BY <1>0, <2>3, <3>1
  <2> QED
    BY <1>0, <1>4, <2>1, <2>2, <2>4, UpdateStatusOK DEF Becomes, SignedStatus
<1>5. CASE t.status \in SignedStatus
  <2>1. InsertTx(t, S, s) \in {t, [t EXCEPT !.status = s]}
    BY <1>5 DEF InsertTx, SignedStatus
  <2> DEFINE u == [t EXCEPT !.status = s]
  <2>2. u \in TxType /\ u.status = s /\ u.signers = t.signers /\ u.block = t.block
    BY <1>0 DEF TxType
  <2>3. Becomes(t, u)
    <3> HIDE DEF u
    <3> QED
      BY <1>5, <2>2 DEF Becomes, TxOK, SignedStatus, Absent
  <2> QED
    BY <2>1, <2>3, StaysBecomes
<1> QED
  BY <1>0, <1>2, <1>3, <1>4, <1>5 DEF TxType

(* What the peer sends: Vault::insertNewTx, insertMerkleTx and a block that *)
(* removes others.  Its signatures are complete, as the network has         *)
(* accepted them; those of a segwit transaction are not taken over.         *)
LEMMA FromPeerBecomes ==
    ASSUME NEW t, TxOK(t), NEW S \in Full
    PROVE  Becomes(t, InsertNewTx(t, S)) /\ Becomes(t, InsertMerkleTx(t, S))
<1>0. /\ t \in TxType /\ t.signers \in SUBSET Keychains /\ S \in SUBSET Keychains
      /\ Enough(S)
  BY MinSigsType DEF TxOK, TxType, Full, Enough
<1>1. Becomes(t, InsertNewTx(t, S))
  <2>1. CASE t.status = "CONFIRMED"
    BY <2>1, StaysBecomes DEF InsertNewTx
  <2>2. CASE t.status # "CONFIRMED"
    <3> DEFINE sg == IF Segwit THEN t.signers ELSE S
    <3>1. InsertNewTx(t, S) = [status |-> "PROPAGATED", signers |-> sg, block |-> FALSE]
      BY <2>2 DEF InsertNewTx
    <3>2. sg \in SUBSET Keychains /\ (~Segwit => Enough(sg))
      BY <1>0
    <3> HIDE DEF sg
    <3> QED
      BY <3>1, <3>2 DEF Becomes, TxOK, TxType, SignedStatus, Absent
  <2> QED
    BY <2>1, <2>2
<1>2. Becomes(t, InsertMerkleTx(t, S))
  <2> DEFINE sg == IF Segwit \/ t.status \notin {"none", "UNSIGNED"} THEN t.signers ELSE S
  <2>1. InsertMerkleTx(t, S) = [status |-> "CONFIRMED", block |-> TRUE, signers |-> sg]
    BY DEF InsertMerkleTx
  <2>2. sg \in SUBSET Keychains /\ (~Segwit => Enough(sg))
    BY <1>0 DEF TxOK, TxType
  <2> HIDE DEF sg
  <2> QED
    BY <2>1, <2>2 DEF Becomes, TxOK, TxType, SignedStatus, Absent
<1> QED
  BY <1>1, <1>2

(* A block that held the transaction is removed. *)
LEMMA UnconfirmBecomes ==
    ASSUME NEW t, TxOK(t), t.block
    PROVE  Becomes(t, [t EXCEPT !.block = FALSE, !.status = "PROPAGATED"])
<1> DEFINE u == [t EXCEPT !.block = FALSE, !.status = "PROPAGATED"]
<1>1. u \in TxType /\ u.status = "PROPAGATED" /\ u.signers = t.signers /\ u.block = FALSE
  BY DEF TxOK, TxType, SignedStatus
<1>2. Becomes(t, u)
  <2> HIDE DEF u
  <2> QED
    BY <1>1 DEF Becomes, TxOK, SignedStatus, Absent
<1> QED
  BY <1>2

-----------------------------------------------------------------------------
(* TxModel::update: the rows are the transactions of the vault.  A list     *)
(* with as many rows as there are transactions, no row twice, has them all. *)
LEMMA ListsAreLists ==
    ASSUME NEW st, NEW list \in Lists(st)
    PROVE  /\ IsListOf(st, list)
           /\ Len(list) \in Nat /\ DOMAIN list = 1..Len(list)
           /\ \A i \in 1..Len(list) : list[i] \in Present(st)
<1> DEFINE T == {t \in Txs : st[t] # Absent}
           P == Present(st)
           f == [t \in T |-> RowOf(st, t)]
           n == Cardinality(P)
<1>1. IsFiniteSet(T)
  BY FS_Subset
<1>2. P = {RowOf(st, t) : t \in T}
  BY DEF Present
<1>3. f \in Surjection(T, P)
  BY <1>2 DEF Surjection
<1>4. IsFiniteSet(P)
  <2> HIDE DEF f, T, P
  <2> QED
    BY <1>1, <1>3, FS_Surjection
<1>5. n \in Nat
  BY <1>4, FS_CardinalityType
<1>6. list \in [1..n -> P] /\ Sorted(list)
  BY DEF Lists
<1> HIDE DEF P, n, T, f
<1>7. IsInjective(list)
  BY <1>6 DEF Sorted
<1>8. list \in Injection(1..n, P)
  BY <1>6, <1>7 DEF Injection
<1>9. IsFiniteSet(1..n) /\ Cardinality(1..n) = n
  BY <1>5, FS_Interval
<1>10. list \in Surjection(1..n, P)
  <2>1. Cardinality(1..n) = Cardinality(P)
    BY <1>9 DEF n
  <2> QED
    BY <2>1, <1>4, <1>8, FS_Injection
<1>11. Range(list) = P
  BY <1>6, <1>10 DEF Surjection, Range
<1>12. Len(list) = n
  BY <1>5, <1>6
<1> QED
  BY <1>5, <1>6, <1>11, <1>12 DEF IsListOf, P

-----------------------------------------------------------------------------
(* The inductive invariant.                                                 *)

OpKinds  == {"none", "delete", "create", "createPrompt", "signatures",
             "addPassphrase", "unlockPassphrase", "entropy", "sendPrompt"}
SigKinds == {"signatures", "addPassphrase", "unlockPassphrase", "entropy", "sendPrompt"}

OpType  == [kind : OpKinds, tx : Txs \union {None}, signers : SUBSET Keychains,
            status : {"SAVE", "SIGN"}, bKeychainLocked : BOOLEAN]
SigType == [tx : Txs \union {None}, byHash : BOOLEAN, needed : Nat,
            locked : SUBSET Private, hasSigned : SUBSET Keychains,
            current : Keychains \union {None}]

StoreOK(st) == st \in [Txs -> TxType] /\ \A t \in Txs : TxOK(st[t])

(* The rows may be older than the vault, but what a row shows as signed is  *)
(* signed.                                                                  *)
RowOK(r, st) ==
    /\ r.tx \in Txs
    /\ r.status \in {"UNSIGNED"} \union SignedStatus
    /\ ~Segwit /\ r.status \in SignedStatus => st[r.tx].status \in SignedStatus

RowsOK ==
    /\ Len(rows) \in Nat /\ DOMAIN rows = 1..Len(rows)
    /\ \A i \in 1..Len(rows) : RowOK(rows[i], store)
    /\ currentRow \in 0..Len(rows)
    /\ enabled \subseteq {"sign", "send", "delete"}

(* What the dialogs rely on: the row that is to be deleted is the one that  *)
(* was asked about or none is current, the transaction that is being signed *)
(* is in the vault, and what a prompt offers to send is complete.           *)
DialogOK ==
    /\ op \in OpType /\ sigs \in SigType
    /\ op.kind = "delete" /\ currentRow # 0 => rows[currentRow].tx = op.tx
    /\ op.kind \in SigKinds => sigs.tx \in Txs /\ store[sigs.tx] # Absent
    /\ op.kind \in {"addPassphrase", "unlockPassphrase", "entropy"} => sigs.current \in Private
    /\ ~Segwit /\ op.kind = "sendPrompt" => store[sigs.tx].status \in SignedStatus
    /\ ~Segwit /\ op.kind = "createPrompt" => Enough(op.signers)

SentOK ==
    /\ sent \subseteq 0..Cardinality(Keychains)
    /\ ~Segwit => \A n \in sent : n >= MinSigs /\ (MinSigs <= 2 => n = MinSigs)

ThreadsOK ==
    /\ unlocked \subseteq Private
    /\ m_bConnected \in BOOLEAN
    /\ networkState \in {"STOPPED", "STARTED", "SYNCHED"}
    /\ signals \in 0..MaxSignals
    /\ seeded \in {"no", "started", "done"} /\ signing \in BOOLEAN

Inv == StoreOK(store) /\ RowsOK /\ DialogOK /\ SentOK /\ ThreadsOK /\ RefreshIsQueued

(* TxOut::spent names a payment that does spend the change. *)
LinksOK ==
    /\ spent \in [Txs -> Txs \union {None}]
    /\ \A p \in Txs : spent[p] # None => p \in Inputs[spent[p]]

(* What a step does to the vault: each transaction becomes what it may      *)
(* become, or one is deleted after the question, with what is linked to it. *)
StoreKeeps ==
    \/ \A t \in Txs : Becomes(store[t], store'[t])
    \/ /\ op.kind = "delete" /\ op.tx \in Txs /\ store[op.tx] # Absent
       /\ store' = [t \in Txs |-> IF t \in Deleted(op.tx) THEN Absent ELSE store[t]]

(* A handler's effect on the vault and the list: either the list is made    *)
(* again or both stay.                                                      *)
Refreshed ==
    /\ StoreOK(store') /\ RowsOK'
    /\ \A t \in Txs : Becomes(store[t], store'[t])
    /\ IsListOf(store', rows') \/ UNCHANGED <<store, rows>>
    /\ currentRow' = 0 \/ UNCHANGED <<rows, currentRow>>

-----------------------------------------------------------------------------
(* TxModel::update makes rows that are as the vault is. *)
LEMMA FreshRows ==
    ASSUME NEW st, StoreOK(st), store' = st, UpdateRows(st)
    PROVE  RowsOK' /\ IsListOf(store', rows') /\ currentRow' = 0
<1>1. rows' \in Lists(st) /\ currentRow' = 0 /\ enabled' = {}
  BY DEF UpdateRows
<1>2. /\ IsListOf(st, rows') /\ Len(rows') \in Nat /\ DOMAIN rows' = 1..Len(rows')
      /\ \A i \in 1..Len(rows') : rows'[i] \in Present(st)
  BY <1>1, ListsAreLists
<1>3. ASSUME NEW r \in Present(st) PROVE RowOK(r, st)
  <2>1. PICK t \in Txs : st[t] # Absent /\ r = RowOf(st, t)
    BY <1>3 DEF Present
  <2>2. r.tx = t /\ r.status = st[t].status
    BY <2>1 DEF RowOf
  <2>3. st[t].status \in {"UNSIGNED"} \union SignedStatus
    BY <2>1 DEF StoreOK, TxOK, TxType
  <2> QED
    BY <2>2, <2>3 DEF RowOK
<1>4. \A i \in 1..Len(rows') : RowOK(rows'[i], store')
  BY <1>2, <1>3
<1> QED
  BY <1>1, <1>2, <1>4 DEF RowsOK

(* The vault changes and the list is made again. *)
LEMMA UpdatedRefreshed ==
    ASSUME StoreOK(store), store' \in [Txs -> TxType], UpdateRows(store'),
           \A t \in Txs : Becomes(store[t], store'[t])
    PROVE  Refreshed
<1>1. StoreOK(store')
  BY DEF StoreOK, Becomes
<1> QED
  BY <1>1, FreshRows DEF Refreshed

(* One transaction of the vault changes. *)
LEMMA OneChanges ==
    ASSUME StoreOK(store), NEW t \in Txs, NEW u, Becomes(store[t], u),
           store' = [store EXCEPT ![t] = u]
    PROVE  store' \in [Txs -> TxType] /\ \A x \in Txs : Becomes(store[x], store'[x])
<1>1. u \in TxType
  BY DEF Becomes, TxOK
<1>2. ASSUME NEW x \in Txs PROVE Becomes(store[x], store'[x])
  <2>1. CASE x = t
    BY <2>1 DEF StoreOK
  <2>2. CASE x # t
    BY <2>2, StaysBecomes DEF StoreOK
  <2> QED
    BY <2>1, <2>2
<1> QED
  BY <1>1, <1>2 DEF StoreOK

(* Nothing changes. *)
LEMMA UnchangedRefreshed ==
    ASSUME StoreOK(store), RowsOK, UNCHANGED <<store, uiVars>>
    PROVE  Refreshed
<1>1. \A t \in Txs : Becomes(store[t], store'[t])
  BY StaysBecomes DEF StoreOK
<1>2. StoreOK(store')
  OBVIOUS
<1>3. UNCHANGED <<rows, currentRow, enabled>>
  BY DEF uiVars
<1>4. RowsOK'
  BY <1>3 DEF RowsOK
<1> QED
  BY <1>1, <1>2, <1>3, <1>4 DEF Refreshed

(* A refresh leaves the dialog that is up what it relies on. *)
LEMMA RefreshedDialog ==
    ASSUME DialogOK, Refreshed, UNCHANGED <<op, sigs>>
    PROVE  DialogOK'
<1>1. op.kind \in SigKinds => sigs.tx \in Txs /\ store'[sigs.tx] # Absent
  BY DEF DialogOK, Refreshed, Becomes
<1>2. ~Segwit /\ op.kind = "sendPrompt" => store'[sigs.tx].status \in SignedStatus
  <2> SUFFICES ASSUME ~Segwit, op.kind = "sendPrompt"
               PROVE  store'[sigs.tx].status \in SignedStatus
    OBVIOUS
  <2>1. sigs.tx \in Txs /\ store[sigs.tx].status \in SignedStatus
    BY DEF DialogOK, SigKinds
  <2> QED
    BY <2>1 DEF Refreshed, Becomes
<1>3. op.kind = "delete" /\ currentRow' # 0 => rows'[currentRow'] = rows[currentRow]
                                               /\ currentRow # 0
  BY DEF Refreshed
<1> QED
  BY <1>1, <1>2, <1>3 DEF DialogOK

(* The dialog is left for the window, or the payment dialog is opened. *)
LEMMA WindowDialog ==
    ASSUME op' \in OpType, op'.kind \in {"none", "create"}, sigs' \in SigType
    PROVE  DialogOK'
BY DEF DialogOK, SigKinds

(* The signature dialog goes on with the transaction t. *)
LEMMA SignatureDialog ==
    ASSUME Refreshed, NEW t \in Txs, store'[t] # Absent,
           op' \in OpType, sigs' \in SigType, op'.kind \in SigKinds, sigs'.tx = t,
           op'.kind \in {"addPassphrase", "unlockPassphrase", "entropy"}
               => sigs'.current \in Private,
           ~Segwit /\ op'.kind = "sendPrompt" => store'[t].status \in SignedStatus
    PROVE  DialogOK'
BY DEF DialogOK, SigKinds

(* The list is as the vault is, or a refresh is queued as before. *)
LEMMA RefreshKept ==
    ASSUME RefreshIsQueued, Refreshed, UNCHANGED netVars
    PROVE  RefreshIsQueued'
<1>1. CASE IsListOf(store', rows')
  BY <1>1 DEF RefreshIsQueued, IsListOf, Present, RowOf, Sorted, Before, Rank
<1>2. CASE UNCHANGED <<store, rows>>
  BY <1>2 DEF RefreshIsQueued, IsListOf, Present, RowOf, Sorted, Before, Rank, netVars
<1> QED
  BY <1>1, <1>2 DEF Refreshed

(* The windows and dialogs the handlers put up. *)
LEMMA IdleType ==
    /\ Idle \in OpType /\ Idle.kind = "none" /\ NoSigs \in SigType
    /\ \A kind \in OpKinds : [Idle EXCEPT !.kind = kind] \in OpType
                             /\ [Idle EXCEPT !.kind = kind].kind = kind
                             /\ [Idle EXCEPT !.kind = kind].signers = {}
                             /\ [Idle EXCEPT !.kind = kind].tx = None
BY DEF Idle, OpType, OpKinds, NoSigs, SigType

(* A step of the window's thread: it refreshes the list or leaves it, and   *)
(* leaves the network's state alone.                                        *)
LEMMA HandlerKeeps ==
    ASSUME Inv, Refreshed, DialogOK', SentOK', UNCHANGED netVars,
           unlocked' \subseteq Private, seeded' \in {"no", "started", "done"},
           signing' \in BOOLEAN
    PROVE  Inv' /\ StoreKeeps
<1>1. RefreshIsQueued'
  BY RefreshKept DEF Inv
<1>2. ThreadsOK'
  BY DEF Inv, ThreadsOK, netVars
<1>3. StoreOK(store)' /\ RowsOK' /\ StoreKeeps
  BY DEF Refreshed, StoreKeeps, StoreOK, TxOK, Enough, TxType, SignedStatus, Absent
<1> QED
  BY <1>1, <1>2, <1>3 DEF Inv

(* A step that sends nothing. *)
LEMMA NothingSent ==
    ASSUME sent' = {} PROVE SentOK'
BY DEF SentOK

(* SynchedVault::sendTx of a set of signatures that is complete. *)
LEMMA SendOK ==
    ASSUME NEW S \in SUBSET Keychains, ~Segwit => Enough(S), Send(S)
    PROVE  SentOK'
<1>1. sent' \subseteq {Cardinality(S)}
  BY DEF Send
<1>2. Cardinality(S) \in 0..Cardinality(Keychains)
  BY SignersFinite, MinSigsType
<1> QED
  BY <1>1, <1>2 DEF SentOK, Enough

(* Vault::signTx of a transaction of the vault, and TxModel::update. *)
LEMMA SignRefreshed ==
    ASSUME StoreOK(store), NEW t \in Txs, store[t] # Absent,
           NEW K \in SUBSET Keychains, NEW u, NEW S \in Signers(store[t], K, u),
           store' = [store EXCEPT ![t] = Signed(@, S)], UpdateRows(store')
    PROVE  Refreshed /\ store'[t] # Absent
<1>1. TxOK(store[t]) /\ store \in [Txs -> TxType]
  BY DEF StoreOK
<1>2. Becomes(store[t], Signed(store[t], S)) /\ Signed(store[t], S) # Absent
  BY <1>1, SignedBecomes
<1>3. store' = [store EXCEPT ![t] = Signed(store[t], S)]
  OBVIOUS
<1>4. store' \in [Txs -> TxType] /\ \A x \in Txs : Becomes(store[x], store'[x])
  BY <1>2, <1>3, OneChanges
<1> QED
  BY <1>1, <1>2, <1>3, <1>4, UpdatedRefreshed

(* TxModel::signTx of the current row. *)
LEMMA SignCurrentRowRefreshed ==
    ASSUME Inv, SignCurrentRow PROVE Refreshed
<1>0. StoreOK(store) /\ RowsOK
  BY DEF Inv
<1> DEFINE here == currentRow # 0 /\ rows[currentRow].status = "UNSIGNED"
                   /\ store[rows[currentRow].tx] # Absent
<1>1. CASE here
  <2>1. rows[currentRow].tx \in Txs
    BY <1>0, <1>1 DEF RowsOK, RowOK
  <2>2. PICK S \in Signers(store[rows[currentRow].tx], Private, unlocked) :
            /\ store' = [store EXCEPT ![rows[currentRow].tx] = Signed(@, S)]
            /\ UpdateRows(store')
    BY <1>1 DEF SignCurrentRow
  <2> QED
    BY <1>0, <1>1, <2>1, <2>2, SignRefreshed
<1>2. CASE ~here
  BY <1>0, <1>2, UnchangedRefreshed DEF SignCurrentRow
<1> QED
  BY <1>1, <1>2

(* The actions on the current row. *)
LEMMA RowActionsKeep ==
    ASSUME Inv, \/ \E i \in 1..Cardinality(Txs) : Select(i)
                \/ SendTx \/ SignTx \/ SignTxSeeded \/ DeleteTx
    PROVE  Inv' /\ StoreKeeps
<1>0. StoreOK(store) /\ RowsOK /\ DialogOK /\ ThreadsOK
  BY DEF Inv
<1>1. CASE \E i \in 1..Cardinality(Txs) : Select(i)
  <2>1. PICK i \in 1..Cardinality(Txs) : Select(i)
    BY <1>1
  <2>2. /\ op = Idle /\ i \in 1..Len(rows) /\ currentRow' = i /\ sent' = {}
        /\ enabled' \subseteq {"sign", "send", "delete"}
        /\ UNCHANGED <<store, unlocked, rows, netVars, seeded, signing, op, sigs>>
    BY <2>1 DEF Select, AtWindow, EnabledFor
  <2>3. RowsOK'
    BY <1>0, <2>2 DEF RowsOK
  <2>4. DialogOK'
    BY <1>0, <2>2, IdleType DEF DialogOK, Idle, SigKinds
  <2>5. StoreOK(store)' /\ StoreKeeps
    BY <1>0, <2>2, StaysBecomes DEF StoreOK, StoreKeeps
  <2>6. ThreadsOK' /\ SentOK'
    BY <1>0, <2>2, NothingSent DEF ThreadsOK, netVars
  <2>7. RefreshIsQueued'
    BY <2>2 DEF Inv, RefreshIsQueued, IsListOf, Present, RowOf, Sorted, Before, Rank, netVars
  <2> QED
    BY <2>3, <2>4, <2>5, <2>6, <2>7 DEF Inv
<1>2. CASE SendTx
  <2> DEFINE r == rows[currentRow]
  <2>1. /\ currentRow # 0 /\ r.status \notin {"UNSIGNED", "PROPAGATED"}
        /\ Send(store[r.tx].signers)
        /\ UNCHANGED <<store, unlocked, uiVars, netVars, seeded, signing, op, sigs>>
    BY <1>2 DEF SendTx
  <2>2. RowOK(r, store)
    BY <1>0, <2>1 DEF RowsOK
  <2> HIDE DEF r
  <2>3. r.tx \in Txs /\ (~Segwit => store[r.tx].status \in SignedStatus)
    BY <2>1, <2>2 DEF RowOK, SignedStatus
  <2>4. store[r.tx].signers \in SUBSET Keychains /\ (~Segwit => Enough(store[r.tx].signers))
    BY <1>0, <2>3 DEF StoreOK, TxOK, TxType
  <2>5. SentOK'
    BY <2>1, <2>4, SendOK
  <2>6. Refreshed
    BY <1>0, <2>1, UnchangedRefreshed
  <2>7. DialogOK'
    BY <1>0, <2>1, <2>6, RefreshedDialog
  <2> QED
    BY <1>0, <2>1, <2>5, <2>6, <2>7, HandlerKeeps DEF ThreadsOK
<1>3. CASE SignTx
  <2>1. Refreshed
    <3>1. CASE SignCurrentRow
      BY <3>1, SignCurrentRowRefreshed
    <3>2. CASE UNCHANGED <<store, uiVars>>
      BY <3>2, <1>0, UnchangedRefreshed
    <3> QED
      BY <1>3, <3>1, <3>2 DEF SignTx
  <2>2. /\ UNCHANGED <<unlocked, netVars, op, sigs>> /\ sent' = {}
        /\ signing' \in BOOLEAN /\ seeded' \in {"no", "started", "done"}
    BY <1>0, <1>3 DEF SignTx, ThreadsOK
  <2>3. DialogOK' /\ SentOK'
    BY <1>0, <2>1, <2>2, RefreshedDialog, NothingSent
  <2> QED
    BY <1>0, <2>1, <2>2, <2>3, HandlerKeeps DEF ThreadsOK
<1>4. CASE SignTxSeeded
  <2>1. Refreshed
    BY <1>4, SignCurrentRowRefreshed DEF SignTxSeeded
  <2>2. /\ UNCHANGED <<unlocked, netVars, op, sigs, seeded>> /\ sent' = {}
        /\ signing' \in BOOLEAN
    BY <1>4 DEF SignTxSeeded
  <2>3. DialogOK' /\ SentOK'
    BY <1>0, <2>1, <2>2, RefreshedDialog, NothingSent
  <2> QED
    BY <1>0, <2>1, <2>2, <2>3, HandlerKeeps DEF ThreadsOK
<1>5. CASE DeleteTx
  <2>1. /\ currentRow # 0 /\ op' = [Idle EXCEPT !.kind = "delete", !.tx = rows[currentRow].tx]
        /\ UNCHANGED <<store, unlocked, uiVars, netVars, seeded, signing, sigs>> /\ sent' = {}
    BY <1>5 DEF DeleteTx
  <2>2. rows[currentRow].tx \in Txs
    BY <1>0, <2>1 DEF RowsOK, RowOK
  <2>3. op' \in OpType /\ op'.kind = "delete" /\ op'.tx = rows[currentRow].tx
    BY <2>1, <2>2, IdleType DEF OpType, OpKinds
  <2>4. Refreshed
    BY <1>0, <2>1, UnchangedRefreshed
  <2>5. DialogOK'
    BY <1>0, <2>1, <2>3 DEF DialogOK, SigKinds, uiVars
  <2> QED
    BY <1>0, <2>1, <2>4, <2>5, HandlerKeeps, NothingSent DEF ThreadsOK
<1> QED
  BY <1>1, <1>2, <1>3, <1>4, <1>5

(* TxActions::deleteTx deletes the current row after the question, which is *)
(* the row that was asked about if there is one.                            *)
LEMMA ConfirmDeleteKeeps ==
    ASSUME Inv, NEW ok \in BOOLEAN, ConfirmDelete(ok)
    PROVE  Inv' /\ StoreKeeps
<1>0. /\ StoreOK(store) /\ RowsOK /\ DialogOK /\ ThreadsOK
      /\ op.kind = "delete" /\ op' = Idle /\ sent' = {}
      /\ UNCHANGED <<unlocked, netVars, seeded, signing, sigs>>
  BY DEF Inv, ConfirmDelete
<1>1. DialogOK' /\ SentOK'
  <2>1. op' \in OpType /\ op'.kind = "none" /\ sigs' \in SigType
    BY <1>0, IdleType DEF Idle, DialogOK
  <2> QED
    BY <1>0, <2>1, WindowDialog, NothingSent
<1> DEFINE t == rows[currentRow].tx
           deletes == ok /\ currentRow # 0 /\ store[t] # Absent
<1>2. CASE deletes
  <2>1. /\ store' = [x \in Txs |-> IF x \in Deleted(t) THEN Absent ELSE store[x]]
        /\ UpdateRows(store')
    BY <1>2 DEF ConfirmDelete
  <2>2. t \in Txs /\ t = op.tx /\ store[t] # Absent
    BY <1>0, <1>2 DEF RowsOK, RowOK, DialogOK
  <2> HIDE DEF t
  <2>3. StoreOK(store')
    BY <1>0, <2>1, CreatedOK DEF StoreOK, TxOK
  <2>4. RowsOK' /\ IsListOf(store', rows')
    BY <2>1, <2>3, FreshRows
  <2>5. StoreKeeps
    BY <1>0, <2>1, <2>2 DEF StoreKeeps
  <2>6. ThreadsOK'
    BY <1>0 DEF ThreadsOK, netVars
  <2>7. RefreshIsQueued'
    BY <2>4 DEF RefreshIsQueued, IsListOf, Present, RowOf, Sorted, Before, Rank
  <2>8. StoreOK(store)'
    BY <2>3 DEF StoreOK, TxOK, Enough, TxType, SignedStatus, Absent
  <2> QED
    BY <1>1, <2>4, <2>5, <2>6, <2>7, <2>8 DEF Inv
<1>3. CASE ~deletes
  <2>1. Refreshed
    BY <1>0, <1>3, UnchangedRefreshed DEF ConfirmDelete
  <2> QED
    BY <1>0, <1>1, <2>1, HandlerKeeps DEF ThreadsOK
<1> QED
  BY <1>2, <1>3

(* An import: each transaction stays or becomes what insertTx makes of it. *)
LEMMA ImportedKeeps ==
    ASSUME Inv, NEW st \in [Txs -> TxType], Imported(st),
           \A t \in Txs : Becomes(store[t], st[t])
    PROVE  Inv' /\ StoreKeeps
<1>1. /\ StoreOK(store) /\ DialogOK /\ ThreadsOK
      /\ store' = st /\ UpdateRows(st) /\ sent' = {}
      /\ UNCHANGED <<unlocked, netVars, seeded, signing, op, sigs>>
  BY DEF Inv, Imported
<1>2. Refreshed
  BY <1>1, UpdatedRefreshed
<1>3. DialogOK' /\ SentOK'
  BY <1>1, <1>2, RefreshedDialog, NothingSent
<1> QED
  BY <1>1, <1>2, <1>3, HandlerKeeps DEF ThreadsOK

(* Vault::insertTx of one transaction of a file or of the clipboard. *)
LEMMA ImportKeeps ==
    ASSUME Inv, NEW t \in Txs, NEW S \in Full \union Partial, NEW s \in SignedStatus,
           ImportTxFromFile(t, S, s)
    PROVE  Inv' /\ StoreKeeps
<1>1. StoreOK(store) /\ TxOK(store[t])
  BY DEF Inv, StoreOK
<1> DEFINE u  == InsertTx(store[t], S, s)
           st == [store EXCEPT ![t] = u]
<1>2. Becomes(store[t], u)
  BY <1>1, InsertTxBecomes
<1>3. Imported(st) /\ store' = st
  BY DEF ImportTxFromFile, Imported
<1> HIDE DEF u
<1>4. store' \in [Txs -> TxType] /\ \A x \in Txs : Becomes(store[x], store'[x])
  BY <1>1, <1>2, <1>3, OneChanges
<1> HIDE DEF st
<1> QED
  BY <1>3, <1>4, ImportedKeeps

(* A file of several transactions. *)
LEMMA ImportTxsKeeps ==
    ASSUME Inv, NEW S \in Full \union Partial, NEW s \in SignedStatus, NEW c,
           c.signers = S, c.status = s, ImportTxsFromFile([t \in Txs |-> c])
    PROVE  Inv' /\ StoreKeeps
<1> DEFINE st == [t \in Txs |-> InsertTx(store[t], S, s)]
<1>1. Imported(st)
  <2>1. DOMAIN [t \in Txs |-> c] = Txs
    OBVIOUS
  <2>2. \A t \in Txs : [x \in Txs |-> c][t] = c
    OBVIOUS
  <2>3. st = [t \in Txs |-> IF t \notin DOMAIN [x \in Txs |-> c] THEN store[t]
                            ELSE InsertTx(store[t], [x \in Txs |-> c][t].signers,
                                          [x \in Txs |-> c][t].status)]
    BY <2>1, <2>2
  <2> QED
    BY <2>3 DEF ImportTxsFromFile
<1>2. \A t \in Txs : Becomes(store[t], st[t])
  BY InsertTxBecomes DEF Inv, StoreOK
<1>3. st \in [Txs -> TxType]
  <2>1. \A t \in Txs : st[t] \in TxType
    BY <1>2 DEF Becomes, TxOK
  <2> QED
    BY <2>1
<1> HIDE DEF st
<1> QED
  BY <1>1, <1>2, <1>3, ImportedKeeps

(* SignatureModel::updateAll. *)
LEMMA SignatureInfoType ==
    ASSUME NEW st, StoreOK(st), NEW t \in Txs, NEW byHash \in BOOLEAN, NEW u
    PROVE  /\ SignatureInfo(t, byHash, st, u) \in SigType
           /\ SignatureInfo(t, byHash, st, u).tx = t
<1>1. st[t].signers \in SUBSET Keychains
  BY DEF StoreOK, TxType
<1>2. SigsNeeded(st[t]) \in Nat
  BY <1>1, SignersFinite, MinSigsType DEF SigsNeeded
<1> QED
  BY <1>1, <1>2 DEF SignatureInfo, SigType

(* A transaction that needs no more signatures is signed; the vault has no  *)
(* unsigned transaction with all its signatures.                            *)
LEMMA CompleteIsSigned ==
    ASSUME NEW t, TxOK(t), t # Absent, SigsNeeded(t) = 0
    PROVE  t.status \in SignedStatus
<1>1. Cardinality(t.signers) \in Nat /\ MinSigs \in Nat
  BY SignersFinite, MinSigsType DEF TxOK, TxType
<1>2. t.status # "UNSIGNED"
  BY <1>1 DEF SigsNeeded, TxOK
<1> QED
  BY <1>2 DEF TxOK, TxType

(* The payment dialog is opened, cancelled, or its prompt is answered: the  *)
(* prompt sends the signatures it was shown for.                            *)
LEMMA CreatePromptKeeps ==
    ASSUME Inv, CreateTx \/ CancelCreateTx \/ \E yes \in BOOLEAN : AnswerCreatePrompt(yes)
    PROVE  Inv' /\ StoreKeeps
<1>0. StoreOK(store) /\ RowsOK /\ DialogOK /\ ThreadsOK
  BY DEF Inv
<1>1. /\ UNCHANGED <<store, unlocked, uiVars, netVars, seeded, signing, sigs>>
      /\ op' = Idle \/ op' = [Idle EXCEPT !.kind = "create"]
  BY DEF CreateTx, CancelCreateTx, AnswerCreatePrompt
<1>2. Refreshed
  BY <1>0, <1>1, UnchangedRefreshed
<1>3. DialogOK'
  <2>1. op' \in OpType /\ op'.kind \in {"none", "create"}
    BY <1>1, IdleType DEF OpKinds
  <2> QED
    BY <1>0, <1>1, <2>1, WindowDialog DEF DialogOK
<1>4. SentOK'
  <2>1. CASE sent' = {}
    BY <2>1, NothingSent
  <2>2. CASE op.kind = "createPrompt" /\ Send(op.signers)
    BY <1>0, <2>2, SendOK DEF DialogOK, OpType
  <2> QED
    BY <2>1, <2>2 DEF CreateTx, CancelCreateTx, AnswerCreatePrompt
<1> QED
  BY <1>0, <1>1, <1>2, <1>3, <1>4, HandlerKeeps DEF ThreadsOK

(* MainWindow::createTx. *)
LEMMA AcceptCreateTxKeeps ==
    ASSUME Inv, NEW t \in Txs, NEW button, NEW ok \in BOOLEAN, AcceptCreateTx(t, button, ok)
    PROVE  Inv' /\ StoreKeeps
<1> DEFINE status == IF button = "Sign" THEN "SIGN" ELSE op.status
           new    == [Absent EXCEPT !.status = "UNSIGNED"]
<1>0. /\ StoreOK(store) /\ RowsOK /\ DialogOK /\ ThreadsOK
      /\ op.kind = "create" /\ store[t] = Absent /\ sent' = {}
      /\ UNCHANGED <<unlocked, netVars, seeded, signing>>
  BY DEF Inv, AcceptCreateTx, CanCreate
<1>1. TxOK(new) /\ new # Absent /\ status \in {"SAVE", "SIGN"}
  BY <1>0, CreatedOK DEF DialogOK, OpType
<1>2. ASSUME NEW u, TxOK(u), u # Absent,
             store' = [store EXCEPT ![t] = u], UpdateRows(store')
      PROVE  Refreshed /\ store'[t] = u
  <2>1. Becomes(store[t], u)
    BY <1>0, <1>2, CreatedOK DEF Becomes, SignedStatus
  <2>2. store' \in [Txs -> TxType] /\ \A x \in Txs : Becomes(store[x], store'[x])
    BY <1>0, <1>2, <2>1, OneChanges
  <2> QED
    BY <1>0, <1>2, <2>2, UpdatedRefreshed DEF StoreOK
<1>3. CASE /\ ~ok /\ op' = [op EXCEPT !.status = status]
           /\ UNCHANGED <<store, uiVars, sigs>>
  <2>1. op' \in OpType /\ op'.kind = "create" /\ sigs' \in SigType
    <3> HIDE DEF status
    <3> QED
      BY <1>0, <1>1, <1>3 DEF OpType, DialogOK
  <2>2. Refreshed
    BY <1>0, <1>3, UnchangedRefreshed
  <2> QED
    BY <1>0, <2>1, <2>2, WindowDialog, NothingSent, HandlerKeeps DEF ThreadsOK
<1>4. CASE /\ store' = [store EXCEPT ![t] = new] /\ UpdateRows(store')
           /\ op' = Idle /\ UNCHANGED sigs
  <2>1. op' \in OpType /\ op'.kind = "none" /\ sigs' \in SigType
    BY <1>0, <1>4, IdleType DEF Idle, DialogOK
  <2>2. Refreshed
    <3> HIDE DEF new
    <3> QED
      BY <1>1, <1>2, <1>4
  <2> QED
    BY <1>0, <2>1, <2>2, WindowDialog, NothingSent, HandlerKeeps DEF ThreadsOK
<1>5. CASE /\ \E S \in Signers(new, Private, unlocked) :
                store' = [store EXCEPT ![t] = Signed(new, S)]
           /\ UpdateRows(store')
           /\ IF store'[t].status = "UNSIGNED"
              THEN /\ op' = [Idle EXCEPT !.kind = "signatures"]
                   /\ sigs' = SignatureInfo(t, FALSE, store', unlocked)
              ELSE /\ op' = IF networkState = "STOPPED" THEN Idle
                            ELSE [Idle EXCEPT !.kind = "createPrompt",
                                              !.signers = store'[t].signers]
                   /\ UNCHANGED sigs
  <2>1. PICK S \in Signers(new, Private, unlocked) :
            store' = [store EXCEPT ![t] = Signed(new, S)]
    BY <1>5
  <2> HIDE DEF new
  <2>2. Becomes(new, Signed(new, S)) /\ Signed(new, S) # Absent
    BY <1>1, SignedBecomes
  <2>3. /\ Refreshed /\ store'[t] # Absent /\ TxOK(store'[t])
        /\ StoreOK(store')
    <3>1. TxOK(Signed(new, S))
      BY <2>2 DEF Becomes
    <3>2. Refreshed /\ store'[t] = Signed(new, S)
      BY <1>2, <1>5, <2>1, <2>2, <3>1
    <3> QED
      BY <2>2, <3>1, <3>2 DEF Refreshed
  <2>4. CASE store'[t].status = "UNSIGNED"
    <3>1. op' \in OpType /\ op'.kind = "signatures"
      BY <1>5, <2>4, IdleType DEF OpKinds
    <3>2. sigs' \in SigType /\ sigs'.tx = t
      <4>1. sigs' = SignatureInfo(t, FALSE, store', unlocked)
        BY <1>5, <2>4
      <4> QED
        BY <2>3, <4>1, SignatureInfoType
    <3>3. DialogOK'
      BY <2>3, <3>1, <3>2, SignatureDialog DEF SigKinds
    <3> QED
      BY <1>0, <2>3, <3>3, NothingSent, HandlerKeeps DEF ThreadsOK
  <2>5. CASE store'[t].status # "UNSIGNED"
    <3>1. CASE op' = Idle
      <4>1. op' \in OpType /\ op'.kind = "none" /\ sigs' \in SigType
        BY <1>0, <1>5, <2>5, <3>1, IdleType DEF Idle, DialogOK
      <4> QED
        BY <1>0, <2>3, <4>1, WindowDialog, NothingSent, HandlerKeeps DEF ThreadsOK
    <3>2. CASE op' = [Idle EXCEPT !.kind = "createPrompt", !.signers = store'[t].signers]
      <4>1. store'[t].signers \in SUBSET Keychains /\ (~Segwit => Enough(store'[t].signers))
        BY <2>3, <2>5 DEF TxOK, TxType
      <4>2. op' \in OpType /\ op'.kind = "createPrompt" /\ op'.signers = store'[t].signers
        BY <3>2, <4>1, IdleType DEF OpType, OpKinds
      <4>3. sigs' \in SigType
        BY <1>0, <1>5, <2>5 DEF DialogOK
      <4>4. DialogOK'
        BY <4>1, <4>2, <4>3 DEF DialogOK, SigKinds, Enough
      <4> QED
        BY <1>0, <2>3, <4>4, NothingSent, HandlerKeeps DEF ThreadsOK
    <3> QED
      BY <1>5, <2>5, <3>1, <3>2
  <2> QED
    BY <2>4, <2>5
<1> QED
  BY <1>3, <1>4, <1>5 DEF AcceptCreateTx

(* A dialog that is opened. *)
LEMMA DialogType ==
    ASSUME NEW kind \in OpKinds PROVE Dialog(kind) \in OpType /\ Dialog(kind).kind = kind
BY IdleType DEF Dialog

(* The rest of addSignature: the transaction keeps what it has, and is      *)
(* offered for sending only when it needs nothing more.                     *)
LEMMA SignWithOK ==
    ASSUME Inv, op.kind \in SigKinds, sigs.current \in Private, NEW b \in BOOLEAN,
           NEW u \in SUBSET Private, SignWith(b, u)
    PROVE  Refreshed /\ DialogOK' /\ unlocked' \subseteq Private /\ seeded' = seeded
<1> DEFINE k == sigs.current
           t == sigs.tx
           from == IF sigs.byHash THEN {{}} ELSE Signers(store[t], {k}, u)
           left == Relock(u, k, b)
<1>0. /\ StoreOK(store) /\ RowsOK /\ DialogOK
      /\ t \in Txs /\ store[t] # Absent /\ TxOK(store[t]) /\ sigs \in SigType
  BY DEF Inv, DialogOK, StoreOK
<1>1. PICK S \in from :
        /\ store' = [store EXCEPT ![t] = Signed(@, S)]
        /\ unlocked' = left
        /\ IF S # {} \/ sigs.byHash THEN UpdateRows(store') ELSE UNCHANGED uiVars
        /\ sigs' = IF S # {} \/ sigs.byHash \/ b
                   THEN SignatureInfo(t, sigs.byHash, store', left) ELSE sigs
        /\ op' = IF (S # {} \/ sigs.byHash) /\ m_bConnected /\ SigsNeeded(store'[t]) = 0
                 THEN Dialog("sendPrompt") ELSE Dialog("signatures")
        /\ UNCHANGED seeded
  BY DEF SignWith
<1> HIDE DEF t, left, k
<1>2. Becomes(store[t], Signed(store[t], S)) /\ Signed(store[t], S) # Absent
  <2>1. CASE sigs.byHash
    <3>1. S = {}
      BY <2>1, <1>1
    <3>2. Signed(store[t], S) = store[t]
      BY <3>1 DEF Signed
    <3> QED
      BY <1>0, <3>2, StaysBecomes
  <2>2. CASE ~sigs.byHash
    <3>1. S \in Signers(store[t], {k}, u)
      BY <2>2, <1>1
    <3>2. {k} \in SUBSET Keychains
      BY DEF k
    <3> QED
      BY <1>0, <3>1, <3>2, SignedBecomes
  <2> QED
    BY <2>1, <2>2
<1>3. store' = [store EXCEPT ![t] = Signed(store[t], S)]
  BY <1>1
<1>4. /\ store' \in [Txs -> TxType] /\ \A x \in Txs : Becomes(store[x], store'[x])
      /\ store'[t] = Signed(store[t], S)
  BY <1>0, <1>2, <1>3, OneChanges DEF StoreOK
<1>5. Refreshed
  <2>1. CASE S # {} \/ sigs.byHash
    BY <1>0, <1>1, <1>4, <2>1, UpdatedRefreshed
  <2>2. CASE ~(S # {} \/ sigs.byHash)
    <3>1. store' = store
      BY <1>0, <1>3, <2>2 DEF Signed, StoreOK
    <3> QED
      BY <1>0, <1>1, <2>2, <3>1, UnchangedRefreshed
  <2> QED
    BY <2>1, <2>2
<1>6. StoreOK(store') /\ TxOK(store'[t]) /\ store'[t] # Absent
  BY <1>0, <1>2, <1>4, <1>5 DEF Refreshed, StoreOK
<1>7. sigs' \in SigType /\ sigs'.tx = t
  <2>1. sigs.byHash \in BOOLEAN
    BY <1>0 DEF SigType
  <2>2. /\ SignatureInfo(t, sigs.byHash, store', left) \in SigType
        /\ SignatureInfo(t, sigs.byHash, store', left).tx = t
    BY <1>0, <1>6, <2>1, SignatureInfoType
  <2> QED
    BY <1>0, <1>1, <2>2 DEF t
<1>8. /\ op' \in OpType /\ op'.kind \in {"signatures", "sendPrompt"}
      /\ op'.kind = "sendPrompt" => SigsNeeded(store'[t]) = 0
  BY <1>1, DialogType DEF OpKinds
<1>9. op'.kind = "sendPrompt" => store'[t].status \in SignedStatus
  BY <1>6, <1>8, CompleteIsSigned
<1>10. DialogOK'
  BY <1>0, <1>5, <1>6, <1>7, <1>8, <1>9, SignatureDialog DEF SigKinds
<1>11. unlocked' \subseteq Private
  BY <1>1 DEF left, Relock
<1> QED
  BY <1>1, <1>5, <1>10, <1>11

(* addSignature with the keychain unlocked: it signs, or waits for the seed.*)
LEMMA SeedAndSignOK ==
    ASSUME Inv, op.kind \in SigKinds, sigs.current \in Private, NEW b \in BOOLEAN,
           NEW u \in SUBSET Private, SeedAndSign(b, u)
    PROVE  /\ Refreshed /\ DialogOK' /\ unlocked' \subseteq Private
           /\ seeded' \in {"no", "started", "done"}
<1>0. /\ StoreOK(store) /\ RowsOK /\ DialogOK /\ ThreadsOK
      /\ sigs.tx \in Txs /\ store[sigs.tx] # Absent /\ sigs \in SigType
  BY DEF Inv, DialogOK
<1>1. CASE SignWith(b, u)
  BY <1>0, <1>1, SignWithOK DEF ThreadsOK
<1>2. CASE /\ op' = [Dialog("entropy") EXCEPT !.bKeychainLocked = b]
           /\ seeded' = "started" /\ unlocked' = u /\ UNCHANGED <<store, uiVars, sigs>>
  <2>1. Refreshed
    BY <1>0, <1>2, UnchangedRefreshed
  <2>2. op' \in OpType /\ op'.kind = "entropy"
    <3>1. Dialog("entropy") \in OpType /\ Dialog("entropy").kind = "entropy"
      BY DialogType DEF OpKinds
    <3> QED
      BY <1>2, <3>1 DEF OpType
  <2>3. DialogOK'
    BY <1>0, <1>2, <2>1, <2>2, SignatureDialog DEF SigKinds
  <2> QED
    BY <1>2, <2>1, <2>3
<1> QED
  BY <1>1, <1>2 DEF SeedAndSign

(* SignatureActions::addSignature, its passphrase and its entropy dialog. *)
LEMMA AddSignatureKeeps ==
    ASSUME Inv, \/ AddSignature \/ EntropySeeded \/ CancelEntropy
                \/ \E right \in BOOLEAN : AnswerAddPassphrase(right)
    PROVE  Inv' /\ StoreKeeps
<1>0. /\ StoreOK(store) /\ RowsOK /\ DialogOK /\ ThreadsOK
      /\ op.kind \in SigKinds => sigs.tx \in Txs /\ store[sigs.tx] # Absent /\ sigs \in SigType
  BY DEF Inv, DialogOK
<1>1. /\ op.kind \in SigKinds /\ sigs.current \in Private
      /\ UNCHANGED <<netVars, signing>> /\ sent' = {}
  BY <1>0 DEF AddSignature, EntropySeeded, CancelEntropy, AnswerAddPassphrase, SigKinds,
              CanAdd, DialogOK
<1>2. SentOK' /\ unlocked \subseteq Private
  BY <1>0, <1>1, NothingSent DEF ThreadsOK
<1>3. ASSUME NEW b \in BOOLEAN, NEW u \in SUBSET Private, SeedAndSign(b, u)
      PROVE  Inv' /\ StoreKeeps
  BY <1>0, <1>1, <1>2, <1>3, SeedAndSignOK, HandlerKeeps DEF ThreadsOK
<1>4. ASSUME NEW b \in BOOLEAN, SignWith(b, unlocked)
      PROVE  Inv' /\ StoreKeeps
  BY <1>0, <1>1, <1>2, <1>4, SignWithOK, HandlerKeeps DEF ThreadsOK
<1>5. ASSUME op' = Dialog("addPassphrase") \/ op' = Dialog("signatures"),
             UNCHANGED <<store, unlocked, uiVars, seeded, sigs>>
      PROVE  Inv' /\ StoreKeeps
  <2>1. Refreshed
    BY <1>0, <1>5, UnchangedRefreshed
  <2>2. op' \in OpType /\ op'.kind \in {"addPassphrase", "signatures"}
    BY <1>5, DialogType DEF OpKinds
  <2>3. DialogOK'
    BY <1>0, <1>1, <1>5, <2>1, <2>2, SignatureDialog DEF SigKinds
  <2> QED
    BY <1>0, <1>1, <1>2, <1>5, <2>1, <2>3, HandlerKeeps DEF ThreadsOK
<1>6. CASE AddSignature
  <2>1. \/ SeedAndSign(FALSE, unlocked)
        \/ SeedAndSign(TRUE, unlocked \union {sigs.current})
        \/ /\ op' = Dialog("addPassphrase")
           /\ UNCHANGED <<store, unlocked, uiVars, seeded, sigs>>
    BY <1>6 DEF AddSignature
  <2> QED
    BY <1>1, <1>2, <1>3, <1>5, <2>1
<1>7. CASE EntropySeeded
  <2>1. SignWith(op.bKeychainLocked, unlocked) /\ op.bKeychainLocked \in BOOLEAN
    BY <1>0, <1>7 DEF EntropySeeded, DialogOK, OpType
  <2> QED
    BY <1>4, <2>1
<1>8. CASE CancelEntropy
  BY <1>5, <1>8 DEF CancelEntropy
<1>9. CASE \E right \in BOOLEAN : AnswerAddPassphrase(right)
  <2>1. \/ SeedAndSign(TRUE, unlocked \union {sigs.current})
        \/ /\ op' = Dialog("signatures")
           /\ UNCHANGED <<store, unlocked, uiVars, seeded, sigs>>
    BY <1>9 DEF AnswerAddPassphrase
  <2> QED
    BY <1>1, <1>2, <1>3, <1>5, <2>1
<1> QED
  BY <1>6, <1>7, <1>8, <1>9

(* The rest of the signature dialog, none of which changes the vault's      *)
(* transactions.                                                            *)
LEMMA SignatureDialogKeeps ==
    ASSUME Inv, \/ ShowSignatureDialog \/ UnlockInDialog \/ LockInDialog
                \/ CloseSignatureDialog
                \/ \E k \in Keychains : SelectKeychain(k)
                \/ \E yes \in BOOLEAN : AnswerSendPrompt(yes)
                \/ \E right \in BOOLEAN : AnswerUnlockPassphrase(right)
    PROVE  Inv' /\ StoreKeeps
<1>0. /\ StoreOK(store) /\ RowsOK /\ DialogOK /\ ThreadsOK
      /\ op \in OpType /\ sigs \in SigType
      /\ op.kind \in SigKinds => sigs.tx \in Txs /\ store[sigs.tx] # Absent
  BY DEF Inv, DialogOK
<1>1. UNCHANGED <<store, uiVars, netVars, seeded, signing>>
  BY DEF ShowSignatureDialog, UnlockInDialog, LockInDialog, CloseSignatureDialog,
         SelectKeychain, AnswerSendPrompt, AnswerUnlockPassphrase
<1>2. Refreshed
  BY <1>0, <1>1, UnchangedRefreshed
<1>3. ASSUME sent' = {}, DialogOK', unlocked' \subseteq Private
      PROVE  Inv' /\ StoreKeeps
  BY <1>0, <1>1, <1>2, <1>3, NothingSent, HandlerKeeps DEF ThreadsOK
<1>4. ASSUME NEW t \in Txs, store[t] # Absent, op' \in OpType,
             op'.kind \in {"signatures", "unlockPassphrase"},
             op'.kind = "unlockPassphrase" => sigs'.current \in Private,
             sigs' \in SigType, sigs'.tx = t
      PROVE  DialogOK'
  BY <1>1, <1>2, <1>4, SignatureDialog DEF SigKinds
<1>5. ASSUME NEW u, op.kind \in SigKinds,
             sigs' = SignatureInfo(sigs.tx, sigs.byHash, store, u)
      PROVE  sigs' \in SigType /\ sigs'.tx = sigs.tx
  <2>1. sigs.byHash \in BOOLEAN
    BY <1>0 DEF SigType
  <2> QED
    BY <1>0, <1>5, <2>1, SignatureInfoType
<1>6. /\ Dialog("signatures") \in OpType /\ Dialog("signatures").kind = "signatures"
      /\ Dialog("unlockPassphrase") \in OpType
      /\ Dialog("unlockPassphrase").kind = "unlockPassphrase"
  BY DialogType DEF OpKinds
<1>7. CASE ShowSignatureDialog
  <2> DEFINE r == rows[currentRow]
             byHash == r.status # "UNSIGNED"
  <2>1. /\ currentRow # 0 /\ store[r.tx] # Absent /\ sent' = {} /\ UNCHANGED unlocked
        /\ sigs' = SignatureInfo(r.tx, byHash, store, unlocked)
        /\ op' = Dialog("signatures")
    BY <1>7 DEF ShowSignatureDialog
  <2>2. r.tx \in Txs /\ byHash \in BOOLEAN
    BY <1>0, <2>1 DEF RowsOK, RowOK
  <2> HIDE DEF r, byHash
  <2>3. sigs' \in SigType /\ sigs'.tx = r.tx
    BY <1>0, <2>1, <2>2, SignatureInfoType
  <2>4. DialogOK'
    BY <1>4, <1>6, <2>1, <2>2, <2>3
  <2> QED
    BY <1>0, <1>3, <2>1, <2>4 DEF ThreadsOK
<1>8. CASE UnlockInDialog
  <2>1. /\ op.kind = "signatures" /\ sigs.current \in sigs.locked /\ sent' = {}
        /\ \/ op' = Dialog("unlockPassphrase") /\ UNCHANGED <<unlocked, sigs>>
           \/ /\ unlocked' = unlocked \union {sigs.current}
              /\ sigs' = SignatureInfo(sigs.tx, sigs.byHash, store, unlocked')
              /\ UNCHANGED op
    BY <1>8 DEF UnlockInDialog
  <2>2. op.kind \in SigKinds /\ sigs.current \in Private
    BY <1>0, <2>1 DEF SigKinds, SigType
  <2>3. unlocked' \subseteq Private
    BY <1>0, <2>1, <2>2 DEF ThreadsOK
  <2>4. DialogOK'
    <3>1. CASE op' = Dialog("unlockPassphrase") /\ UNCHANGED <<unlocked, sigs>>
      BY <1>0, <1>4, <1>6, <2>2, <3>1
    <3>2. CASE sigs' = SignatureInfo(sigs.tx, sigs.byHash, store, unlocked') /\ UNCHANGED op
      BY <1>0, <1>4, <1>5, <2>1, <2>2, <3>2
    <3> QED
      BY <2>1, <3>1, <3>2
  <2> QED
    BY <1>3, <2>1, <2>3, <2>4
<1>9. CASE LockInDialog
  <2>1. /\ op.kind = "signatures" /\ sent' = {} /\ unlocked' = unlocked \ {sigs.current}
        /\ sigs' = SignatureInfo(sigs.tx, sigs.byHash, store, unlocked') /\ UNCHANGED op
    BY <1>9 DEF LockInDialog
  <2>2. op.kind \in SigKinds
    BY <2>1 DEF SigKinds
  <2>3. DialogOK'
    BY <1>0, <1>4, <1>5, <2>1, <2>2
  <2> QED
    BY <1>0, <1>3, <2>1, <2>3 DEF ThreadsOK
<1>10. CASE CloseSignatureDialog
  <2>1. op' = Idle /\ sigs' = NoSigs /\ sent' = {} /\ UNCHANGED unlocked
    BY <1>10 DEF CloseSignatureDialog
  <2>2. DialogOK'
    BY <2>1, IdleType, WindowDialog
  <2> QED
    BY <1>0, <1>3, <2>1, <2>2 DEF ThreadsOK
<1>11. CASE \E k \in Keychains : SelectKeychain(k)
  <2>1. PICK k \in Keychains : SelectKeychain(k)
    BY <1>11
  <2>2. /\ op.kind = "signatures" /\ sent' = {} /\ UNCHANGED <<unlocked, op>>
        /\ sigs' = [sigs EXCEPT !.current = k]
    BY <2>1 DEF SelectKeychain
  <2>3. sigs' \in SigType /\ sigs'.tx = sigs.tx /\ op.kind \in SigKinds
    BY <1>0, <2>2 DEF SigType, SigKinds
  <2>4. DialogOK'
    BY <1>0, <1>4, <2>2, <2>3
  <2> QED
    BY <1>0, <1>3, <2>2, <2>4 DEF ThreadsOK
<1>12. CASE \E yes \in BOOLEAN : AnswerSendPrompt(yes)
  <2>1. /\ op.kind = "sendPrompt" /\ op' = Dialog("signatures") /\ UNCHANGED <<unlocked, sigs>>
        /\ sent' = {} \/ Send(store[sigs.tx].signers)
    BY <1>12 DEF AnswerSendPrompt
  <2>2. sigs.tx \in Txs /\ store[sigs.tx] # Absent
        /\ (~Segwit => store[sigs.tx].status \in SignedStatus)
    BY <1>0, <2>1 DEF DialogOK, SigKinds
  <2>3. /\ store[sigs.tx].signers \in SUBSET Keychains
        /\ ~Segwit => Enough(store[sigs.tx].signers)
    BY <1>0, <2>2 DEF StoreOK, TxOK, TxType
  <2>4. SentOK'
    BY <2>1, <2>3, SendOK, NothingSent
  <2>5. DialogOK'
    BY <1>0, <1>4, <1>6, <2>1, <2>2
  <2> QED
    BY <1>0, <1>1, <1>2, <2>1, <2>4, <2>5, HandlerKeeps DEF ThreadsOK
<1>13. CASE \E right \in BOOLEAN : AnswerUnlockPassphrase(right)
  <2>1. /\ op.kind = "unlockPassphrase" /\ op' = Dialog("signatures") /\ sent' = {}
        /\ \/ UNCHANGED <<unlocked, sigs>>
           \/ /\ unlocked' = unlocked \union {sigs.current}
              /\ sigs' = SignatureInfo(sigs.tx, sigs.byHash, store, unlocked')
    BY <1>13 DEF AnswerUnlockPassphrase
  <2>2. op.kind \in SigKinds /\ sigs.current \in Private
    BY <1>0, <2>1 DEF SigKinds, DialogOK
  <2>3. unlocked' \subseteq Private
    BY <1>0, <2>1, <2>2 DEF ThreadsOK
  <2>4. DialogOK'
    BY <1>0, <1>4, <1>5, <1>6, <2>1, <2>2
  <2> QED
    BY <1>3, <2>1, <2>3, <2>4
<1> QED
  BY <1>7, <1>8, <1>9, <1>10, <1>11, <1>12, <1>13

(* The keychain view, and the entropy source's thread. *)
LEMMA KeysAndSeedKeep ==
    ASSUME Inv, EntropyDone \/ \E k \in Private : UseKeychainView(k)
    PROVE  Inv' /\ StoreKeeps
<1>0. StoreOK(store) /\ RowsOK /\ DialogOK /\ ThreadsOK
  BY DEF Inv
<1>1. /\ UNCHANGED <<store, uiVars, netVars, signing, op, sigs>> /\ sent' = {}
      /\ unlocked' \subseteq Private /\ seeded' \in {"no", "started", "done"}
  BY <1>0 DEF EntropyDone, UseKeychainView, ThreadsOK
<1>2. Refreshed
  BY <1>0, <1>1, UnchangedRefreshed
<1>3. DialogOK' /\ SentOK'
  BY <1>0, <1>1, <1>2, RefreshedDialog, NothingSent
<1> QED
  BY <1>0, <1>1, <1>2, <1>3, HandlerKeeps DEF ThreadsOK

(* The network's thread changes a transaction; the rows and the dialogs     *)
(* still rely on what holds, and the refresh that the change needs is       *)
(* queued.                                                                  *)
LEMMA FromNetworkKeeps ==
    ASSUME Inv, NEW t \in Txs, NEW new, NEW isBlock \in BOOLEAN,
           FromNetwork(t, new, isBlock), Becomes(store[t], new)
    PROVE  Inv' /\ StoreKeeps
<1>0. /\ StoreOK(store) /\ RowsOK /\ DialogOK /\ ThreadsOK
      /\ store' = [store EXCEPT ![t] = new] /\ sent' = {}
      /\ UNCHANGED <<unlocked, uiVars, m_bConnected, networkState, seeded, signing, op, sigs>>
  BY DEF Inv, FromNetwork
<1>1. store' \in [Txs -> TxType] /\ \A x \in Txs : Becomes(store[x], store'[x])
  BY <1>0, OneChanges
<1>2. StoreOK(store)' /\ StoreKeeps
  <2>1. \A x \in Txs : TxOK(store'[x])
    BY <1>1 DEF Becomes
  <2> QED
    BY <1>1, <2>1 DEF StoreOK, StoreKeeps
<1>3. RowsOK'
  <2>1. ASSUME NEW r, RowOK(r, store) PROVE RowOK(r, store')
    BY <1>1, <2>1 DEF RowOK, Becomes
  <2> QED
    BY <1>0, <2>1 DEF RowsOK, uiVars
<1>4. DialogOK'
  <2>1. op.kind \in SigKinds => sigs.tx \in Txs /\ store'[sigs.tx] # Absent
    BY <1>0, <1>1 DEF DialogOK, Becomes
  <2>2. ~Segwit /\ op.kind = "sendPrompt" => store'[sigs.tx].status \in SignedStatus
    <3> SUFFICES ASSUME ~Segwit, op.kind = "sendPrompt"
                 PROVE  store'[sigs.tx].status \in SignedStatus
      OBVIOUS
    <3>1. sigs.tx \in Txs /\ store[sigs.tx].status \in SignedStatus
      BY <1>0 DEF DialogOK, SigKinds
    <3> QED
      BY <1>1, <3>1 DEF Becomes
  <2> QED
    BY <1>0, <2>1, <2>2 DEF DialogOK, uiVars
<1>5. /\ signals' \in 0..MaxSignals
      /\ networkState = "SYNCHED" => signals' > 0
  <2>1. PICK n \in 0..1 : /\ QueuesRefresh(n) \/ (isBlock /\ n = 1)
                          /\ signals + n <= MaxSignals /\ signals' = signals + n
    BY DEF FromNetwork
  <2>2. networkState = "SYNCHED" => n = 1
    BY <2>1 DEF QueuesRefresh
  <2> QED
    BY <1>0, <2>1, <2>2 DEF ThreadsOK
<1>6. ThreadsOK' /\ SentOK'
  BY <1>0, <1>5, NothingSent DEF ThreadsOK
<1>7. RefreshIsQueued'
  BY <1>0, <1>5 DEF RefreshIsQueued
<1> QED
  BY <1>2, <1>3, <1>4, <1>6, <1>7 DEF Inv

(* SynchedVault's tx and merkle handlers. *)
LEMMA PeerKeeps ==
    ASSUME Inv, NEW t \in Txs,
           Unconfirm(t) \/ \E S \in Full : NewTx(t, S) \/ MerkleTx(t, S)
    PROVE  Inv' /\ StoreKeeps
<1>0. TxOK(store[t])
  BY DEF Inv, StoreOK
<1>1. CASE Unconfirm(t)
  <2>1. FromNetwork(t, [store[t] EXCEPT !.block = FALSE, !.status = "PROPAGATED"], TRUE)
    BY <1>1 DEF Unconfirm
  <2>2. Becomes(store[t], [store[t] EXCEPT !.block = FALSE, !.status = "PROPAGATED"])
    BY <1>0, <1>1, UnconfirmBecomes DEF Unconfirm
  <2> QED
    BY <2>1, <2>2, FromNetworkKeeps
<1>2. CASE \E S \in Full : NewTx(t, S) \/ MerkleTx(t, S)
  <2>1. PICK S \in Full : NewTx(t, S) \/ MerkleTx(t, S)
    BY <1>2
  <2>2. Becomes(store[t], InsertNewTx(store[t], S)) /\ Becomes(store[t], InsertMerkleTx(store[t], S))
    BY <1>0, FromPeerBecomes
  <2> QED
    BY <2>1, <2>2, FromNetworkKeeps DEF NewTx, MerkleTx
<1> QED
  BY <1>1, <1>2

(* MainWindow::updateNetworkState queues a refresh when it enters SYNCHED. *)
LEMMA NetworkChangesKeep ==
    ASSUME Inv, NetworkChanges
    PROVE  Inv' /\ StoreKeeps
<1>0. StoreOK(store) /\ RowsOK /\ DialogOK /\ ThreadsOK /\ RefreshIsQueued
  BY DEF Inv
<1>1. PICK state \in {"STOPPED", "STARTED", "SYNCHED"} :
          UpdateNetworkState(state) /\ m_bConnected' \in BOOLEAN
  BY <1>0 DEF NetworkChanges, NetworkStarted, ConnectionOpen, FetchingBlocks, BlocksSynched,
              ConnectionClosed, StopNetworkSync, ThreadsOK
<1>2. /\ networkState' = state /\ signals' <= MaxSignals /\ sent' = {}
      /\ signals' = IF state \notin {networkState, "STARTED"} THEN signals + 1 ELSE signals
      /\ UNCHANGED <<store, unlocked, uiVars, seeded, signing, op, sigs>>
  BY <1>1 DEF UpdateNetworkState
<1>3. Refreshed
  BY <1>0, <1>2, UnchangedRefreshed
<1>4. DialogOK' /\ SentOK'
  BY <1>0, <1>2, <1>3, RefreshedDialog, NothingSent
<1>5. signals' \in 0..MaxSignals /\ signals \in Nat
  BY <1>0, <1>2 DEF ThreadsOK
<1>6. ThreadsOK'
  BY <1>0, <1>1, <1>2, <1>5 DEF ThreadsOK
<1>7. RefreshIsQueued'
  <2>1. CASE networkState' = "SYNCHED" /\ networkState # "SYNCHED"
    BY <1>2, <1>5, <2>1 DEF RefreshIsQueued
  <2>2. CASE networkState' = "SYNCHED" /\ networkState = "SYNCHED"
    <3>1. UNCHANGED <<store, rows, signals>>
      BY <1>2, <2>2 DEF uiVars
    <3>2. IsListOf(store, rows)' <=> IsListOf(store, rows)
      BY <3>1 DEF IsListOf, Present, RowOf, Sorted, Before, Rank
    <3> QED
      BY <1>0, <2>2, <3>1, <3>2 DEF RefreshIsQueued
  <2>3. CASE networkState' # "SYNCHED"
    BY <2>3 DEF RefreshIsQueued
  <2> QED
    BY <2>1, <2>2, <2>3
<1>8. StoreOK(store)' /\ RowsOK' /\ StoreKeeps
  BY <1>0, <1>2, <1>3 DEF Refreshed, StoreKeeps
<1> QED
  BY <1>4, <1>6, <1>7, <1>8 DEF Inv

(* A queued refresh is delivered. *)
LEMMA DeliverSignalKeeps ==
    ASSUME Inv, DeliverSignal
    PROVE  Inv' /\ StoreKeeps
<1>0. /\ StoreOK(store) /\ DialogOK /\ ThreadsOK /\ UpdateRows(store) /\ store' = store
      /\ signals > 0 /\ signals' = signals - 1 /\ sent' = {}
      /\ UNCHANGED <<unlocked, m_bConnected, networkState, seeded, signing, op, sigs>>
  BY DEF Inv, DeliverSignal
<1>1. \A t \in Txs : Becomes(store[t], store'[t])
  BY <1>0, StaysBecomes DEF StoreOK
<1>2. UpdateRows(store') /\ store' \in [Txs -> TxType]
  BY <1>0 DEF StoreOK
<1>3. Refreshed
  BY <1>0, <1>1, <1>2, UpdatedRefreshed
<1>4. DialogOK' /\ SentOK'
  BY <1>0, <1>3, RefreshedDialog, NothingSent
<1>5. ThreadsOK'
  BY <1>0 DEF ThreadsOK
<1>6. IsListOf(store', rows') /\ RowsOK'
  BY <1>0, FreshRows
<1>7. RefreshIsQueued'
  BY <1>6 DEF RefreshIsQueued, IsListOf, Present, RowOf, Sorted, Before, Rank
<1>8. StoreOK(store)' /\ StoreKeeps
  BY <1>0, <1>1 DEF StoreKeeps
<1> QED
  BY <1>4, <1>5, <1>6, <1>7, <1>8 DEF Inv

-----------------------------------------------------------------------------
(* An empty vault, and no dialog. *)
LEMMA InitInv == Init => Inv
<1> SUFFICES ASSUME Init PROVE Inv
  OBVIOUS
<1>1. StoreOK(store)
  BY CreatedOK DEF Init, StoreOK, TxOK
<1>2. RowsOK
  BY DEF Init, RowsOK
<1>3. DialogOK
  BY IdleType DEF Init, DialogOK, SigKinds
<1>4. SentOK
  BY DEF Init, SentOK
<1>5. RefreshIsQueued
  BY DEF Init, RefreshIsQueued
<1>6. ThreadsOK
  <2>1. signals \in 0..MaxSignals
    BY DEF Init
  <2>2. m_bConnected \in BOOLEAN /\ signing \in BOOLEAN
    BY Zenon DEF Init
  <2> QED
    BY <2>1, <2>2, Zenon DEF Init, ThreadsOK
<1> QED
  BY <1>1, <1>2, <1>3, <1>4, <1>5, <1>6 DEF Inv

(* Every step keeps the invariant, and changes the vault's transactions as  *)
(* StoreKeeps says.                                                         *)
LEMMA NextKeeps == Inv /\ [Next]_vars => Inv' /\ StoreKeeps
<1> SUFFICES ASSUME Inv, [Next]_vars PROVE Inv' /\ StoreKeeps
  OBVIOUS
<1>1. CASE \/ \E i \in 1..Cardinality(Txs) : Select(i)
           \/ SendTx \/ SignTx \/ SignTxSeeded \/ DeleteTx
  BY <1>1, RowActionsKeep
<1>2. CASE \E ok \in BOOLEAN : ConfirmDelete(ok)
  BY <1>2, ConfirmDeleteKeeps
<1>3. ASSUME NEW c \in Copies
      PROVE  c.signers \in Full \union Partial /\ c.status \in SignedStatus
  BY <1>3 DEF Copies, SignedStatus
<1>4. CASE \E t \in Txs, c \in Copies :
              ImportTxFromFile(t, c.signers, c.status)
              \/ ImportTxFromClipboard(t, c.signers, c.status)
  BY <1>3, <1>4, ImportKeeps DEF ImportTxFromClipboard
<1>5. CASE \E c \in Copies : ImportTxsFromFile([t \in Txs |-> c])
  <2>1. PICK c \in Copies : ImportTxsFromFile([t \in Txs |-> c])
    BY <1>5
  <2> QED
    BY <1>3, <2>1, ImportTxsKeeps
<1>6. CASE \E t \in Txs, S \in Full \union Partial :
              InsertRawTxFromClipboard(t, S) \/ InsertRawTxFromFile(t, S)
  <2>1. "PROPAGATED" \in SignedStatus
    BY DEF SignedStatus
  <2> QED
    BY <1>6, <2>1, ImportKeeps DEF InsertRawTxFromClipboard, InsertRawTxFromFile
<1>7. CASE CreateTx \/ CancelCreateTx \/ \E yes \in BOOLEAN : AnswerCreatePrompt(yes)
  BY <1>7, CreatePromptKeeps
<1>8. CASE \E t \in Txs, button \in {"Sign", "Save Unsigned"}, ok \in BOOLEAN :
              AcceptCreateTx(t, button, ok)
  BY <1>8, AcceptCreateTxKeeps
<1>9. CASE \/ ShowSignatureDialog \/ UnlockInDialog \/ LockInDialog \/ CloseSignatureDialog
           \/ \E k \in Keychains : SelectKeychain(k)
           \/ \E yes \in BOOLEAN : AnswerSendPrompt(yes)
           \/ \E right \in BOOLEAN : AnswerUnlockPassphrase(right)
  BY <1>9, SignatureDialogKeeps
<1>10. CASE \/ AddSignature \/ EntropySeeded \/ CancelEntropy
            \/ \E right \in BOOLEAN : AnswerAddPassphrase(right)
  BY <1>10, AddSignatureKeeps
<1>11. CASE EntropyDone \/ \E k \in Private : UseKeychainView(k)
  BY <1>11, KeysAndSeedKeep
<1>12. CASE \E t \in Txs : Unconfirm(t) \/ \E S \in Full : NewTx(t, S) \/ MerkleTx(t, S)
  BY <1>12, PeerKeeps
<1>13. CASE NetworkChanges
  BY <1>13, NetworkChangesKeep
<1>14. CASE DeliverSignal
  BY <1>14, DeliverSignalKeeps
<1>15. CASE UNCHANGED vars
  <2>1. /\ UNCHANGED <<store, uiVars, netVars, unlocked, seeded, signing, op, sigs, sent>>
        /\ StoreOK(store) /\ RowsOK /\ DialogOK /\ ThreadsOK /\ SentOK
    BY <1>15 DEF vars, Inv
  <2>2. Refreshed
    BY <2>1, UnchangedRefreshed
  <2>3. DialogOK' /\ SentOK'
    BY <2>1, <2>2, RefreshedDialog DEF SentOK
  <2> QED
    BY <2>1, <2>2, <2>3, HandlerKeeps DEF ThreadsOK
<1> QED
  BY <1>1, <1>2, <1>4, <1>5, <1>6, <1>7, <1>8, <1>9, <1>10, <1>11, <1>12, <1>13, <1>14, <1>15
     DEF Next

(* The links that the vault finds are to payments that spend the change.    *)
LEMMA LinksAreOK ==
    ASSUME LinksOK, NEW st, NEW readable, spent' \in Links(st, readable)
    PROVE  LinksOK'
<1>1. spent' \in [Txs -> Txs \union {None}]
  BY DEF Links
<1>2. ASSUME NEW p \in Txs, spent'[p] # None PROVE p \in Inputs[spent'[p]]
  <2>1. spent'[p] \in Spenders(p, st, readable) \/ spent'[p] = spent[p]
    BY DEF Links
  <2> QED
    BY <1>2, <2>1 DEF Spenders, LinksOK
<1> QED
  BY <1>1, <1>2 DEF LinksOK

(* A step links payments, unlinks what it deletes, or leaves the links.     *)
LEMMA LinksKept == LinksOK /\ [Next]_vars => LinksOK'
<1> SUFFICES ASSUME LinksOK, [Next]_vars PROVE LinksOK'
  OBVIOUS
<1>1. CASE \E ok \in BOOLEAN : ConfirmDelete(ok)
  <2>1. PICK D : spent' \in {spent, [p \in Txs |-> IF p \in D \/ spent[p] \in D THEN None
                                                 ELSE spent[p]]}
    BY <1>1 DEF ConfirmDelete
  <2> QED
    BY <2>1 DEF LinksOK
<1>2. CASE \/ \E t \in Txs, c \in Copies :
                 ImportTxFromFile(t, c.signers, c.status)
                 \/ ImportTxFromClipboard(t, c.signers, c.status)
           \/ \E c \in Copies : ImportTxsFromFile([t \in Txs |-> c])
           \/ \E t \in Txs, S \in Full \union Partial :
                 InsertRawTxFromClipboard(t, S) \/ InsertRawTxFromFile(t, S)
  <2>1. PICK st : Imported(st)
    BY <1>2 DEF ImportTxFromFile, ImportTxFromClipboard, ImportTxsFromFile,
                InsertRawTxFromClipboard, InsertRawTxFromFile
  <2> QED
    BY <2>1, LinksAreOK DEF Imported
<1>3. CASE \E t \in Txs, button \in {"Sign", "Save Unsigned"}, ok \in BOOLEAN :
              AcceptCreateTx(t, button, ok)
  BY <1>3, LinksAreOK DEF AcceptCreateTx
<1>4. CASE \E t \in Txs : Unconfirm(t) \/ \E S \in Full : NewTx(t, S) \/ MerkleTx(t, S)
  <2>1. PICK t, new, isBlock : FromNetwork(t, new, isBlock)
    BY <1>4 DEF Unconfirm, NewTx, MerkleTx
  <2> QED
    BY <2>1, LinksAreOK DEF FromNetwork
<1>5. CASE UNCHANGED spent
  BY <1>5 DEF LinksOK
<1>6. CASE \/ \E i \in 1..Cardinality(Txs) : Select(i)
           \/ SendTx \/ SignTx \/ SignTxSeeded \/ DeleteTx \/ CreateTx \/ CancelCreateTx
           \/ \E yes \in BOOLEAN : AnswerCreatePrompt(yes) \/ AnswerSendPrompt(yes)
           \/ ShowSignatureDialog \/ AddSignature \/ UnlockInDialog \/ LockInDialog
           \/ CloseSignatureDialog \/ EntropySeeded \/ CancelEntropy
           \/ \E k \in Keychains : SelectKeychain(k)
           \/ \E k \in Private : UseKeychainView(k)
           \/ \E right \in BOOLEAN : AnswerAddPassphrase(right)
                                     \/ AnswerUnlockPassphrase(right)
           \/ EntropyDone \/ NetworkChanges \/ DeliverSignal \/ UNCHANGED vars
  <2>1. UNCHANGED spent
    BY <1>6 DEF Select, SendTx, SignTx, SignTxSeeded, DeleteTx, CreateTx, CancelCreateTx,
                AnswerCreatePrompt, AnswerSendPrompt, ShowSignatureDialog, AddSignature,
                UnlockInDialog, LockInDialog, CloseSignatureDialog, EntropySeeded,
                CancelEntropy, SelectKeychain, UseKeychainView, AnswerAddPassphrase,
                AnswerUnlockPassphrase, EntropyDone, NetworkChanges, NetworkStarted,
                ConnectionOpen, FetchingBlocks, BlocksSynched, ConnectionClosed,
                StopNetworkSync, UpdateNetworkState, DeliverSignal, vars
  <2> QED
    BY <1>5, <2>1
<1> QED
  BY <1>1, <1>2, <1>3, <1>4, <1>6 DEF Next

(* The inductive invariant holds in every reachable state. *)
THEOREM InvHolds == Spec => [](Inv /\ LinksOK)
<1>1. Inv /\ LinksOK /\ [Next]_vars => Inv' /\ LinksOK'
  BY NextKeeps, LinksKept
<1>2. Init => LinksOK
  BY DEF Init, LinksOK
<1> QED
  BY InitInv, <1>1, <1>2, PTL DEF Spec

(* The variables have their types. *)
THEOREM TypeCorrect == Spec => []TypeOK
<1>1. Inv /\ LinksOK => TypeOK
  <2> SUFFICES ASSUME Inv, LinksOK PROVE TypeOK
    OBVIOUS
  <2>1. Range(Statuses) = {"UNSIGNED"} \union SignedStatus
    BY DEF Range, Statuses, SignedStatus
  <2>2. store \in [Txs -> [status : Range(Statuses) \union {"none"},
                           signers : SUBSET Keychains, block : BOOLEAN]]
    BY <2>1 DEF Inv, StoreOK, TxType
  <2> QED
    BY <2>2 DEF Inv, LinksOK, TypeOK, RowsOK, SentOK, ThreadsOK
<1> QED
  BY InvHolds, <1>1, PTL

(* While the state is SYNCHED, the list shows the vault's transactions or a *)
(* refresh is queued, for any number of transactions.                       *)
THEOREM RefreshIsQueuedHolds == Spec => []RefreshIsQueued
<1>1. Inv => RefreshIsQueued
  BY DEF Inv
<1> QED
  BY InvHolds, <1>1, PTL

(* What any of the three ways to send sends has at least the signatures the *)
(* account asks for.                                                        *)
THEOREM SentIsComplete ==
    ASSUME ~Segwit PROVE Spec => [](\A n \in sent : n >= MinSigs)
<1>1. Inv => \A n \in sent : n >= MinSigs
  BY DEF Inv, SentOK
<1> QED
  BY InvHolds, <1>1, PTL

(* With at most two signatures required it has exactly those: merging two   *)
(* incomplete copies cannot give more.                                      *)
THEOREM SentHasMinSigsHolds ==
    ASSUME ~Segwit, MinSigs <= 2 PROVE Spec => []SentHasMinSigs
<1>1. Inv => SentHasMinSigs
  BY DEF Inv, SentOK, SentHasMinSigs
<1> QED
  BY InvHolds, <1>1, PTL

(* What is linked to a payment spends from it. *)
LEMMA DeletedSpendsFrom ==
    ASSUME LinksOK, NEW t \in Txs PROVE t \in Deleted(t) /\ Deleted(t) \subseteq SpendingFrom(t)
<1>1. ASSUME NEW x \in Deleted(t), NEW D \in SUBSET Txs, t \in D,
             \A y \in Txs : Inputs[y] \intersect D # {} => y \in D
      PROVE  x \in D
  <2>1. ASSUME NEW p \in D, spent[p] # None PROVE spent[p] \in D
    <3>1. spent[p] \in Txs /\ p \in Inputs[spent[p]]
      BY <2>1 DEF LinksOK
    <3> QED
      BY <1>1, <3>1
  <2> QED
    BY <1>1, <2>1 DEF Deleted
<1> QED
  BY <1>1 DEF Deleted, SpendingFrom

(* Transactions disappear from the vault only after the question about one  *)
(* of them was asked and only with what spends from it, whichever refreshes *)
(* come while the question is up and however the payments are linked.       *)
THEOREM DeletesWhatWasAskedHolds == Spec => DeletesWhatWasAsked
<1> DEFINE gone == {t \in Txs : store[t] # Absent /\ store'[t] = Absent}
<1>1. Inv /\ LinksOK /\ [Next]_vars =>
        [gone # {} => op.kind = "delete" /\ op.tx \in gone
                      /\ gone \subseteq SpendingFrom(op.tx)]_vars
  <2> SUFFICES ASSUME LinksOK, StoreKeeps, NEW t \in gone
               PROVE  op.kind = "delete" /\ op.tx \in gone /\ gone \subseteq SpendingFrom(op.tx)
    BY NextKeeps
  <2>1. /\ op.kind = "delete" /\ op.tx \in Txs /\ store[op.tx] # Absent
        /\ store' = [x \in Txs |-> IF x \in Deleted(op.tx) THEN Absent ELSE store[x]]
    BY DEF StoreKeeps, Becomes
  <2> QED
    BY <2>1, DeletedSpendsFrom
<1> QED
  BY InvHolds, <1>1, PTL DEF Spec, DeletesWhatWasAsked

(* A signed transaction stays signed until it is deleted. *)
THEOREM SignedStaysSignedHolds ==
    ASSUME ~Segwit PROVE Spec => SignedStaysSigned
<1>1. Inv /\ [Next]_vars =>
        [\A t \in Txs : store[t].status \notin {"none", "UNSIGNED"}
                           => store'[t].status # "UNSIGNED"]_vars
  <2> SUFFICES ASSUME Inv, [Next]_vars, NEW t \in Txs,
                      store[t].status \notin {"none", "UNSIGNED"}
               PROVE  store'[t].status # "UNSIGNED"
    OBVIOUS
  <2>1. store[t].status \in SignedStatus
    BY DEF Inv, StoreOK, TxType
  <2>2. StoreKeeps
    BY NextKeeps
  <2> QED
    BY <2>1, <2>2, CreatedOK DEF Inv, StoreOK, StoreKeeps, Becomes, SignedStatus
<1> QED
  BY InvHolds, <1>1, PTL DEF Spec, SignedStaysSigned
=============================================================================
