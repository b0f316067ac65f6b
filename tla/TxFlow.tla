------------------------------- MODULE TxFlow -------------------------------
(***************************************************************************)
(* A payment from its creation to the peer: CreateTxDialog and             *)
(* MainWindow::createTx, the list of transactions (TxModel) with the       *)
(* actions on its current row (TxActions), SignatureDialog with its list   *)
(* (SignatureModel) and actions (SignatureActions), EntropySource, and     *)
(* what they use of CoinDB::Vault.                                         *)
(*                                                                         *)
(* The handlers run on the user interface's thread.  They stop in modal    *)
(* dialogs, `op`, and signTx in a loop that processes events, `signing`;   *)
(* in both, queued refreshes are delivered, and in the loop the user can   *)
(* use the whole window.  The network's thread changes the vault between   *)
(* any two steps, and refreshes are queued only while the state is SYNCHED.*)
(*                                                                         *)
(* A signature is a keychain.  Those of a segwit account are in the        *)
(* witness, which the vault treats differently from the input script.  A   *)
(* handler that only shows an error changes nothing and is no action.  A   *)
(* payment has one output back to the account, its change.                 *)
(*                                                                         *)
(* A definition placed just before the one it resembles and used nowhere   *)
(* is a mutant of it.                                                      *)
(***************************************************************************)
EXTENDS Integers, Sequences, SequencesExt, FiniteSets

CONSTANTS
    Txs,            \* payments that can be made
    Keychains,      \* the account's keychains
    Private,        \* those whose private keys are in the vault
    Encrypted,      \* those of them that need a passphrase
    MinSigs,
    Inputs,         \* for each payment, those whose change it spends
    Segwit,         \* whether the account uses segregated witness
    MaxSignals,     \* refreshes that may wait in the event queue
    None

ASSUME TxFlowAssumption ==
    /\ None \notin Txs \union Keychains
    /\ Encrypted \subseteq Private /\ Private \subseteq Keychains
    /\ IsFiniteSet(Txs) /\ IsFiniteSet(Keychains)
    /\ MinSigs \in 1..Cardinality(Keychains)
    /\ Segwit \in BOOLEAN /\ MaxSignals \in Nat \ {0}

(* A payment spends what was made before it. *)
ASSUME InputsAssumption ==
    /\ Inputs \in [Txs -> SUBSET Txs]
    /\ \A D \in SUBSET Txs : D # {} => \E t \in D : Inputs[t] \intersect D = {}

VARIABLES
    store,          \* the vault's transactions
    spent,          \* TxOut::spent: which payment spends a payment's change
    unlocked,       \* the keychains the vault has keys for
    rows,           \* TxModel's rows, in order
    currentRow,     \* TxActions::currentRow; 0 for -1
    enabled,        \* the actions that are enabled for the current row
    m_bConnected,   \* SynchedVault::m_bConnected
    networkState,   \* MainWindow::networkState
    signals,        \* the refreshes that are queued
    seeded,         \* EntropySource: its thread has not started, runs, is done
    signing,        \* TxActions::signTx waits for the seed
    op,             \* the dialog that is up
    sigs,           \* SignatureModel
    sent            \* history: how many signatures what the last step sent has

uiVars  == <<rows, currentRow, enabled>>
netVars == <<m_bConnected, networkState, signals>>
vars    == <<store, spent, unlocked, uiVars, netVars, seeded, signing, op, sigs, sent>>

Statuses == <<"UNSIGNED", "UNSENT", "PROPAGATED", "CONFIRMED">>
Rank(s)  == CHOOSE i \in 1..4 : Statuses[i] = s

Absent == [status |-> "none", signers |-> {}, block |-> FALSE]
Full    == {S \in SUBSET Keychains : Cardinality(S) = MinSigs}
Partial == {S \in SUBSET Keychains : Cardinality(S) < MinSigs}

(* Copies that can be imported: an unsigned one has the status UNSENT, if   *)
(* it gets signed.                                                          *)
Copies == [signers : Full, status : {"UNSENT", "PROPAGATED", "CONFIRMED"}]
          \union [signers : Partial, status : {"UNSENT"}]

Idle   == [kind |-> "none", tx |-> None, signers |-> {}, status |-> "SAVE",
           bKeychainLocked |-> FALSE]
NoSigs == [tx |-> None, byHash |-> FALSE, needed |-> 0, locked |-> {},
           hasSigned |-> {}, current |-> None]

-----------------------------------------------------------------------------
(* The vault.                                                               *)

SigsNeeded(t) ==
    IF Cardinality(t.signers) > MinSigs THEN 0 ELSE MinSigs - Cardinality(t.signers)

(* Tx::updateStatus with the signatures checked. *)
UpdateUnchecked(t, signers, status) ==
    [t EXCEPT !.signers = signers,
              !.status = IF signers = {} THEN "UNSIGNED"
                         ELSE IF @ # "UNSIGNED" THEN @ ELSE status]

UpdateStatus(t, signers, status) ==
    [t EXCEPT !.signers = signers,
              !.status = IF Cardinality(signers) < MinSigs THEN "UNSIGNED"
                         ELSE IF @ # "UNSIGNED" THEN @ ELSE status]

(* Vault::signTx: which of the keychains K sign, as many as are needed and  *)
(* have a key that is unlocked in u.                                        *)
Signers(t, K, u) ==
    LET can == (K \intersect u) \ t.signers
        n   == IF Cardinality(can) < SigsNeeded(t) THEN Cardinality(can) ELSE SigsNeeded(t)
    IN  {S \in SUBSET can : Cardinality(S) = n}

Signed(t, S) == IF S = {} THEN t ELSE UpdateStatus(t, t.signers \union S, "UNSENT")

(* Vault::insertNewTx of a transaction the peer sent, signed by S: the      *)
(* input scripts are replaced, the witness is not, and the peer sends none. *)
InsertNewTx(t, S) ==
    IF t.status = "CONFIRMED" THEN t
    ELSE [status |-> "PROPAGATED", signers |-> IF Segwit THEN t.signers ELSE S,
          block |-> FALSE]

(* Vault::insertMerkleTx, and confirmMerkleTx for one that is known. *)
InsertMerkleTx(t, S) ==
    [status |-> "CONFIRMED", block |-> TRUE,
     signers |-> IF Segwit \/ t.status \notin {"none", "UNSIGNED"} THEN t.signers ELSE S]

(* Vault::insertTx of a transaction that was imported, signed by S and with *)
(* the status s in its file.  A signed one replaces the scripts and the     *)
(* witness of an unsigned one, signatures of unsigned ones are merged.      *)
InsertReplaces(t, S, s) ==
    UpdateStatus([Absent EXCEPT !.status = "UNSIGNED"], S, s)

InsertTx(t, S, s) ==
    CASE t.status = "none" -> UpdateStatus([Absent EXCEPT !.status = "UNSIGNED"], S, s)
      [] t.status = "UNSIGNED" /\ S \in Full -> UpdateStatus(t, S, s)
      [] t.status = "UNSIGNED" /\ S \notin Full ->
            UpdateStatus(t, t.signers \union S, "UNSENT")
      [] OTHER -> IF S \in Full /\ Rank(s) > Rank(t.status) THEN [t EXCEPT !.status = s]
                  ELSE t

(* The payments that the vault finds to spend the change of p when it takes *)
(* in those that st has and it has not: a new one that spends the change of *)
(* a stored one, if its inputs can be read, or the other way round, as they *)
(* may come out of order.                                                   *)
Spenders(p, st, readable) ==
    {c \in Txs : /\ p \in Inputs[c] /\ st[c] # Absent
                 /\ store[p] = Absent \/ (store[c] = Absent /\ readable)}

(* An input names the hash of a signed transaction, which an unsigned one   *)
(* does not have.                                                           *)
HasHash(t) == t.status \notin {"none", "UNSIGNED"}

(* TxOut::spent after that.  Of two that spend the same change either may   *)
(* be named, and one that was named before is forgotten.  A file may bring  *)
(* a spender before or after the signatures of what it spends.              *)
Links(st, readable) ==
    {sp \in [Txs -> Txs \union {None}] :
        \A p \in Txs :
           LET found == IF HasHash(st[p]) THEN Spenders(p, st, readable) ELSE {} IN
           \/ sp[p] \in found
           \/ sp[p] = spent[p] /\ (found = {} \/ store[p].status = "UNSIGNED")}

(* Vault::deleteTx_unwrapped: t, and first whatever spends its change.      *)
Deleted(t) ==
    {x \in Txs : \A D \in SUBSET Txs :
        t \in D /\ (\A p \in D : spent[p] # None => spent[p] \in D) => x \in D}

-----------------------------------------------------------------------------
(* TxModel and TxActions.                                                   *)

(* TxModel::update: one row for each transaction, ordered by status and     *)
(* then by confirmations; "0" stands for a transaction without a block.     *)
RowOf(st, t) == [tx |-> t, status |-> st[t].status,
                 zero |-> Rank(st[t].status) >= 3 /\ ~st[t].block]

Before(r, q) == \/ Rank(r.status) < Rank(q.status)
                \/ r.status = q.status /\ r.zero /\ ~q.zero

Present(st) == {RowOf(st, t) : t \in {t \in Txs : st[t] # Absent}}

Sorted(list) == /\ IsInjective(list)
                /\ \A i, j \in 1..Len(list) : Before(list[i], list[j]) => i < j

IsListOf(st, list) == Range(list) = Present(st) /\ Sorted(list)

Lists(st) ==
    LET present == Present(st)
    IN  {list \in [1..Cardinality(present) -> present] : Sorted(list)}

(* Removing the rows makes -1 the current row, for which updateCurrentTx    *)
(* disables the actions; signaturesAction stays enabled, and fails.         *)
UpdateKeepsRow(st) ==
    /\ rows' \in Lists(st)
    /\ currentRow' = IF currentRow > Len(rows') THEN 0 ELSE currentRow
    /\ UNCHANGED enabled

UpdateRows(st) ==
    /\ rows' \in Lists(st)
    /\ currentRow' = 0
    /\ enabled' = {}

(* updateCurrentTx for a row r. *)
EnabledFor(r) ==
    (IF r.status = "UNSIGNED" THEN {"sign"} ELSE {})
    \union (IF m_bConnected /\ (r.status = "UNSENT" \/ r.zero) THEN {"send"} ELSE {})
    \union (IF r.status # "CONFIRMED" THEN {"delete"} ELSE {})

(* A handler of the window can start: no dialog is up, and a signTx that    *)
(* waited for the seed and has it goes on first.                            *)
AtWindow == op = Idle /\ ~(signing /\ seeded = "done")

Select(i) ==
    /\ AtWindow
    /\ i \in 1..Len(rows)
    /\ currentRow' = i
    /\ enabled' = EnabledFor(rows[i])
    /\ UNCHANGED <<store, spent, unlocked, rows, netVars, seeded, signing, op, sigs>>
    /\ sent' = {}

(* SynchedVault::sendTx throws when it is not connected. *)
Send(signers) ==
    sent' = IF m_bConnected THEN {Cardinality(signers)} ELSE {}

(* TxActions::sendTx: the status that is tested is the row's, what is sent  *)
(* is the vault's.                                                          *)
SendTx ==
    /\ AtWindow /\ "send" \in enabled /\ currentRow # 0
    /\ LET r == rows[currentRow] IN
       /\ r.status \notin {"UNSIGNED", "PROPAGATED"}
       /\ store[r.tx] # Absent
       /\ Send(store[r.tx].signers)
    /\ UNCHANGED <<store, spent, unlocked, uiVars, netVars, seeded, signing, op, sigs>>

(* TxModel::signTx of the current row with all that is unlocked. *)
SignCurrentRow ==
    IF currentRow # 0 /\ rows[currentRow].status = "UNSIGNED"
       /\ store[rows[currentRow].tx] # Absent
    THEN LET t == rows[currentRow].tx IN
         \E S \in Signers(store[t], Private, unlocked) :
            /\ store' = [store EXCEPT ![t] = Signed(@, S)]
            /\ UpdateRows(store')
    ELSE UNCHANGED <<store, uiVars>>

(* TxActions::signTx waits for the entropy source in a loop that processes  *)
(* events, and then signs the row that is current.                          *)
SignTx ==
    /\ AtWindow /\ "sign" \in enabled
    /\ \/ seeded = "done" /\ SignCurrentRow /\ UNCHANGED <<seeded, signing>>
       \/ /\ seeded # "done" /\ ~signing
          /\ signing' = TRUE /\ seeded' = "started"
          /\ UNCHANGED <<store, uiVars>>
    /\ UNCHANGED <<spent, unlocked, netVars, op, sigs>> /\ sent' = {}

SignTxSeeded ==
    /\ signing /\ op = Idle /\ seeded = "done"
    /\ signing' = FALSE
    /\ SignCurrentRow
    /\ UNCHANGED <<spent, unlocked, netVars, seeded, op, sigs>> /\ sent' = {}

(* TxActions::deleteTx asks first and then deletes the row that is current, *)
(* and without asking what spends its change; what those spend is unspent.  *)
DeleteTx ==
    /\ AtWindow /\ "delete" \in enabled /\ currentRow # 0
    /\ op' = [Idle EXCEPT !.kind = "delete", !.tx = rows[currentRow].tx]
    /\ UNCHANGED <<store, spent, unlocked, uiVars, netVars, seeded, signing, sigs>> /\ sent' = {}

ConfirmDelete(ok) ==
    /\ op.kind = "delete"
    /\ op' = Idle
    /\ IF ok /\ currentRow # 0 /\ store[rows[currentRow].tx] # Absent
       THEN LET gone == Deleted(rows[currentRow].tx) IN
            /\ store' = [t \in Txs |-> IF t \in gone THEN Absent ELSE store[t]]
            /\ spent' = [p \in Txs |-> IF p \in gone \/ spent[p] \in gone THEN None
                                       ELSE spent[p]]
            /\ UpdateRows(store')
       ELSE UNCHANGED <<store, spent, uiVars>>
    /\ UNCHANGED <<unlocked, netVars, seeded, signing, sigs>> /\ sent' = {}

(* The vault holds st after an import, and the lists are updated. *)
Imported(st) ==
    /\ AtWindow
    /\ store' = st /\ spent' \in Links(st, TRUE)
    /\ UpdateRows(st)
    /\ UNCHANGED <<unlocked, netVars, seeded, signing, op, sigs>>
    /\ sent' = {}

(* One transaction, with its status: "Transaction not inserted." if the     *)
(* vault has nothing to learn from it.                                      *)
ImportTxFromFile(t, S, s) ==
    /\ AtWindow /\ InsertTx(store[t], S, s) # store[t]
    /\ Imported([store EXCEPT ![t] = InsertTx(@, S, s)])

ImportTxFromClipboard(t, S, s) == ImportTxFromFile(t, S, s)

(* A file of several transactions: they are inserted in one database        *)
(* transaction, and those the vault has nothing to learn from are no error. *)
(* Next takes files whose transactions are alike: a bound.                  *)
ImportTxsFromFile(copies) ==
    Imported([t \in Txs |-> IF t \notin DOMAIN copies THEN store[t]
                            ELSE InsertTx(store[t], copies[t].signers, copies[t].status)])

(* A raw transaction carries no status: Tx::set makes it PROPAGATED. *)
InsertRawTxFromClipboard(t, S) == ImportTxFromFile(t, S, "PROPAGATED")
InsertRawTxFromFile(t, S)      == ImportTxFromFile(t, S, "PROPAGATED")

-----------------------------------------------------------------------------
(* CreateTxDialog and MainWindow::createTx.                                 *)

CreateTx ==
    /\ AtWindow
    /\ op' = [Idle EXCEPT !.kind = "create"]
    /\ UNCHANGED <<store, spent, unlocked, uiVars, netVars, seeded, signing, sigs>> /\ sent' = {}

(* SignatureModel::updateAll: what the dialog shows of the transaction t of *)
(* st when the keychains u are unlocked.  No row is current afterwards.     *)
SignatureInfo(t, byHash, st, u) ==
    [tx |-> t, byHash |-> byHash, needed |-> SigsNeeded(st[t]), locked |-> Private \ u,
     hasSigned |-> st[t].signers, current |-> None]

(* Vault::createTx can make t: the coins it takes are of signed payments    *)
(* and unspent, and nothing in the vault spends its own yet.                *)
CanCreate(t) ==
    /\ store[t] = Absent
    /\ \A p \in Inputs[t] : HasHash(store[p]) /\ spent[p] = None
    /\ \A c \in Txs : t \in Inputs[c] => store[c] = Absent

(* The dialog is accepted, with Sign or with Save Unsigned, and the vault   *)
(* makes the transaction t or throws; then the dialog is shown again, with  *)
(* the status it had.  Sign tries the keychains that are unlocked first.    *)
AcceptCreateTx(t, button, ok) ==
    /\ op.kind = "create" /\ CanCreate(t)
    /\ LET status == IF button = "Sign" THEN "SIGN" ELSE op.status
           new    == [Absent EXCEPT !.status = "UNSIGNED"]
       IN
       \/ /\ ~ok
          /\ op' = [op EXCEPT !.status = status]
          /\ UNCHANGED <<store, uiVars, sigs>>
       \/ /\ ok /\ status = "SAVE"
          /\ store' = [store EXCEPT ![t] = new]
          /\ UpdateRows(store')
          /\ op' = Idle /\ UNCHANGED sigs
       \/ /\ ok /\ status = "SIGN"
          /\ \E S \in Signers(new, Private, unlocked) :
                store' = [store EXCEPT ![t] = Signed(new, S)]
          /\ UpdateRows(store')
          /\ IF store'[t].status = "UNSIGNED"
             THEN /\ op' = [Idle EXCEPT !.kind = "signatures"]
                  /\ sigs' = SignatureInfo(t, FALSE, store', unlocked)
             ELSE /\ op' = IF networkState = "STOPPED" THEN Idle
                           ELSE [Idle EXCEPT !.kind = "createPrompt",
                                             !.signers = store'[t].signers]
                  /\ UNCHANGED sigs
    /\ spent' \in Links(store', TRUE)
    /\ UNCHANGED <<unlocked, netVars, seeded, signing>> /\ sent' = {}

CancelCreateTx ==
    /\ op.kind = "create"
    /\ op' = Idle
    /\ UNCHANGED <<store, spent, unlocked, uiVars, netVars, seeded, signing, sigs>> /\ sent' = {}

(* createTx sends the transaction as it was when it was signed. *)
AnswerCreatePrompt(yes) ==
    /\ op.kind = "createPrompt"
    /\ op' = Idle
    /\ IF yes THEN Send(op.signers) ELSE sent' = {}
    /\ UNCHANGED <<store, spent, unlocked, uiVars, netVars, seeded, signing, sigs>>

-----------------------------------------------------------------------------
(* SignatureDialog and SignatureActions.                                    *)

Dialog(kind) == [Idle EXCEPT !.kind = kind]

(* A signed transaction is looked up by its hash, an unsigned one by its    *)
(* unsigned hash.                                                           *)
ShowSignatureDialog ==
    /\ AtWindow /\ currentRow # 0
    /\ LET r == rows[currentRow] IN
       /\ store[r.tx] # Absent
       /\ sigs' = SignatureInfo(r.tx, r.status # "UNSIGNED", store, unlocked)
    /\ op' = Dialog("signatures")
    /\ UNCHANGED <<store, spent, unlocked, uiVars, netVars, seeded, signing>> /\ sent' = {}

SelectKeychain(k) ==
    /\ op.kind = "signatures" /\ sigs.current # k
    /\ sigs' = [sigs EXCEPT !.current = k]
    /\ UNCHANGED <<store, spent, unlocked, uiVars, netVars, seeded, signing, op>> /\ sent' = {}

(* refreshCurrentKeychain: when addSignatureAction is enabled. *)
CanAdd == /\ sigs.current \in Private
          /\ sigs.current \notin sigs.hasSigned
          /\ sigs.needed > 0

(* The rest of addSignature once the entropy source is seeded: the vault    *)
(* signs, the keychain is locked again if it was, and what was added is     *)
(* shown.  A transaction that is found by its hash is left as it is.        *)
Relock(u, k, bKeychainLocked) == IF bKeychainLocked THEN u \ {k} ELSE u

SignWith(bKeychainLocked, u) ==
    LET k == sigs.current
        t == sigs.tx
    IN
    \E S \in IF sigs.byHash THEN {{}} ELSE Signers(store[t], {k}, u) :
       LET added == S # {} \/ sigs.byHash
           st    == [store EXCEPT ![t] = Signed(@, S)]
           left  == Relock(u, k, bKeychainLocked)
       IN  /\ store' = st
           /\ unlocked' = left
           /\ IF added THEN UpdateRows(st) ELSE UNCHANGED uiVars
           /\ sigs' = IF added \/ bKeychainLocked
                      THEN SignatureInfo(t, sigs.byHash, st, left) ELSE sigs
           /\ op' = IF added /\ m_bConnected /\ SigsNeeded(st[t]) = 0
                    THEN Dialog("sendPrompt") ELSE Dialog("signatures")
           /\ UNCHANGED seeded

(* seedEntropySource(false, &m_dialog): the pointer is taken for            *)
(* showDialog, so that the dialog that is shown can be cancelled.           *)
SeedAndSign(bKeychainLocked, u) ==
    IF seeded = "done" THEN SignWith(bKeychainLocked, u)
    ELSE /\ op' = [Dialog("entropy") EXCEPT !.bKeychainLocked = bKeychainLocked]
         /\ seeded' = "started"
         /\ unlocked' = u
         /\ UNCHANGED <<store, uiVars, sigs>>

AddSignature ==
    /\ op.kind = "signatures" /\ CanAdd
    /\ LET k == sigs.current IN
       \/ k \in unlocked /\ SeedAndSign(FALSE, unlocked)
       \/ k \notin unlocked \union Encrypted /\ SeedAndSign(TRUE, unlocked \union {k})
       \/ /\ k \in Encrypted \ unlocked
          /\ op' = Dialog("addPassphrase")
          /\ UNCHANGED <<store, unlocked, uiVars, seeded, sigs>>
    /\ UNCHANGED <<spent, netVars, signing>> /\ sent' = {}

AnswerAddPassphrase(right) ==
    /\ op.kind = "addPassphrase"
    /\ IF right THEN SeedAndSign(TRUE, unlocked \union {sigs.current})
       ELSE op' = Dialog("signatures") /\ UNCHANGED <<store, unlocked, uiVars, seeded, sigs>>
    /\ UNCHANGED <<spent, netVars, signing>> /\ sent' = {}

EntropySeeded ==
    /\ op.kind = "entropy" /\ seeded = "done"
    /\ SignWith(op.bKeychainLocked, unlocked)
    /\ UNCHANGED <<spent, netVars, signing>> /\ sent' = {}

(* The exception leaves addSignature. *)
CancelEntropy ==
    /\ op.kind = "entropy"
    /\ op' = Dialog("signatures")
    /\ UNCHANGED <<store, spent, unlocked, uiVars, netVars, seeded, signing, sigs>> /\ sent' = {}

AnswerSendPrompt(yes) ==
    /\ op.kind = "sendPrompt"
    /\ op' = Dialog("signatures")
    /\ IF yes THEN Send(store[sigs.tx].signers) ELSE sent' = {}
    /\ UNCHANGED <<store, spent, unlocked, uiVars, netVars, seeded, signing, sigs>>

(* SignatureActions::unlockKeychain and lockKeychain: what is enabled is    *)
(* the model's state, what is tested the vault's.                           *)
UnlockInDialog ==
    /\ op.kind = "signatures" /\ sigs.current \in sigs.locked \ unlocked
    /\ IF sigs.current \in Encrypted
       THEN op' = Dialog("unlockPassphrase") /\ UNCHANGED <<unlocked, sigs>>
       ELSE /\ unlocked' = unlocked \union {sigs.current}
            /\ sigs' = SignatureInfo(sigs.tx, sigs.byHash, store, unlocked')
            /\ UNCHANGED op
    /\ UNCHANGED <<store, spent, uiVars, netVars, seeded, signing>> /\ sent' = {}

AnswerUnlockPassphrase(right) ==
    /\ op.kind = "unlockPassphrase"
    /\ op' = Dialog("signatures")
    /\ IF right
       THEN /\ unlocked' = unlocked \union {sigs.current}
            /\ sigs' = SignatureInfo(sigs.tx, sigs.byHash, store, unlocked')
       ELSE UNCHANGED <<unlocked, sigs>>
    /\ UNCHANGED <<store, spent, uiVars, netVars, seeded, signing>> /\ sent' = {}

LockInDialog ==
    /\ op.kind = "signatures" /\ sigs.current \in unlocked \ sigs.locked
    /\ unlocked' = unlocked \ {sigs.current}
    /\ sigs' = SignatureInfo(sigs.tx, sigs.byHash, store, unlocked')
    /\ UNCHANGED <<store, spent, uiVars, netVars, seeded, signing, op>> /\ sent' = {}

CloseSignatureDialog ==
    /\ op.kind = "signatures"
    /\ op' = Idle /\ sigs' = NoSigs
    /\ UNCHANGED <<store, spent, unlocked, uiVars, netVars, seeded, signing>> /\ sent' = {}

(* The keychain view's unlock and lock, see module Keychains. *)
UseKeychainView(k) ==
    /\ AtWindow
    /\ unlocked' = IF k \in unlocked THEN unlocked \ {k} ELSE unlocked \union {k}
    /\ UNCHANGED <<store, spent, uiVars, netVars, seeded, signing, op, sigs>>
    /\ sent' = {}

-----------------------------------------------------------------------------
(* The other threads.                                                       *)

(* EntropySource's thread. *)
EntropyDone ==
    /\ seeded = "started"
    /\ seeded' = "done"
    /\ UNCHANGED <<store, spent, unlocked, uiVars, netVars, signing, op, sigs>>
    /\ sent' = {}

(* subscribeTxInserted and subscribeTxUpdated. *)
QueuesNothing(n) == n = 0

QueuesRefresh(n) == n = IF networkState = "SYNCHED" THEN 1 ELSE 0

(* The vault takes what the peer sent: a transaction, one that is in a      *)
(* block, or a block that removes others, whose transactions are            *)
(* PROPAGATED again.  The input of a segwit transaction cannot be read      *)
(* without its witness.  A block outside SYNCHED refreshes at every tenth   *)
(* height.                                                                  *)
FromNetwork(t, new, isBlock) ==
    /\ m_bConnected /\ new # store[t]
    /\ store' = [store EXCEPT ![t] = new]
    /\ spent' \in Links(store', ~Segwit)
    /\ \E n \in 0..1 :
          /\ QueuesRefresh(n) \/ (isBlock /\ n = 1)
          /\ signals + n <= MaxSignals
          /\ signals' = signals + n
    /\ UNCHANGED <<unlocked, uiVars, m_bConnected, networkState, seeded, signing, op,
                   sigs>>
    /\ sent' = {}

NewTx(t, S)    == FromNetwork(t, InsertNewTx(store[t], S), FALSE)
MerkleTx(t, S) == FromNetwork(t, InsertMerkleTx(store[t], S), TRUE)
Unconfirm(t)   == /\ store[t].block
                  /\ FromNetwork(t, [store[t] EXCEPT !.block = FALSE,
                                                     !.status = "PROPAGATED"], TRUE)

(* MainWindow::updateNetworkState: SYNCHING is STARTED here.                *)
UpdateNetworkState(state) ==
    /\ networkState' = state
    /\ signals' = IF state \notin {networkState, "STARTED"} THEN signals + 1 ELSE signals
    /\ signals' <= MaxSignals
    /\ UNCHANGED <<store, spent, unlocked, uiVars, seeded, signing, op, sigs>>
    /\ sent' = {}

(* SynchedVault starts, opens its connection, reports where the sync is,    *)
(* and loses the connection, or stops.                                      *)
NetworkStarted == networkState = "STOPPED" /\ UpdateNetworkState("STARTED")
                  /\ UNCHANGED m_bConnected

ConnectionOpen == networkState # "STOPPED" /\ ~m_bConnected /\ m_bConnected' = TRUE
                  /\ UpdateNetworkState("STARTED")

FetchingBlocks == m_bConnected /\ UpdateNetworkState("STARTED") /\ UNCHANGED m_bConnected
BlocksSynched  == m_bConnected /\ UpdateNetworkState("SYNCHED") /\ UNCHANGED m_bConnected

ConnectionClosed == m_bConnected' = FALSE /\ UpdateNetworkState(networkState)
StopNetworkSync  == m_bConnected' = FALSE /\ UpdateNetworkState("STOPPED")

NetworkChanges == NetworkStarted \/ ConnectionOpen \/ FetchingBlocks \/ BlocksSynched
                  \/ ConnectionClosed \/ StopNetworkSync

(* The event queue: refreshAccounts, also while a dialog is up. *)
DeliverSignal ==
    /\ signals > 0
    /\ signals' = signals - 1
    /\ UpdateRows(store)
    /\ UNCHANGED <<store, spent, unlocked, m_bConnected, networkState, seeded, signing, op, sigs>>
    /\ sent' = {}

-----------------------------------------------------------------------------

Init ==
    /\ store = [t \in Txs |-> Absent] /\ spent = [t \in Txs |-> None]
    /\ unlocked = {} /\ rows = <<>> /\ currentRow = 0 /\ enabled = {}
    /\ m_bConnected = FALSE /\ networkState = "STOPPED" /\ signals = 0
    /\ seeded = "no" /\ signing = FALSE
    /\ op = Idle /\ sigs = NoSigs
    /\ sent = {}

Next ==
    \/ \E i \in 1..Cardinality(Txs) : Select(i)
    \/ SendTx \/ SignTx \/ SignTxSeeded \/ DeleteTx
    \/ \E ok \in BOOLEAN : ConfirmDelete(ok)
    \/ \E t \in Txs, c \in Copies :
          ImportTxFromFile(t, c.signers, c.status) \/ ImportTxFromClipboard(t, c.signers, c.status)
    \/ \E c \in Copies : ImportTxsFromFile([t \in Txs |-> c])
    \/ \E t \in Txs, S \in Full \union Partial :
          InsertRawTxFromClipboard(t, S) \/ InsertRawTxFromFile(t, S)
    \/ CreateTx \/ CancelCreateTx
    \/ \E t \in Txs, button \in {"Sign", "Save Unsigned"}, ok \in BOOLEAN :
          AcceptCreateTx(t, button, ok)
    \/ \E yes \in BOOLEAN : AnswerCreatePrompt(yes) \/ AnswerSendPrompt(yes)
    \/ ShowSignatureDialog \/ AddSignature \/ UnlockInDialog \/ LockInDialog
    \/ CloseSignatureDialog \/ EntropySeeded \/ CancelEntropy
    \/ \E k \in Keychains : SelectKeychain(k)
    \/ \E k \in Private : UseKeychainView(k)
    \/ \E right \in BOOLEAN : AnswerAddPassphrase(right) \/ AnswerUnlockPassphrase(right)
    \/ EntropyDone \/ NetworkChanges \/ DeliverSignal
    \/ \E t \in Txs : Unconfirm(t) \/ \E S \in Full : NewTx(t, S) \/ MerkleTx(t, S)

Spec == Init /\ [][Next]_vars

-----------------------------------------------------------------------------
(* The variables have their types. *)
TypeOK ==
    /\ store \in [Txs -> [status : Range(Statuses) \union {"none"},
                          signers : SUBSET Keychains, block : BOOLEAN]]
    /\ spent \in [Txs -> Txs \union {None}]
    /\ unlocked \subseteq Private
    /\ currentRow \in 0..Len(rows)
    /\ enabled \subseteq {"sign", "send", "delete"}
    /\ signals \in 0..MaxSignals /\ seeded \in {"no", "started", "done"}
    /\ sent \subseteq 0..Cardinality(Keychains)

(* What is sent to the peer has the signatures the account asks for, no     *)
(* fewer and no more, on every way to send (sendTx of the current row, the  *)
(* prompts of addSignature and createTx), however the vault changed since   *)
(* the row was made or the prompt was shown.                                *)
SentHasMinSigs == sent \subseteq {MinSigs}

(* A transaction that has all its signatures never becomes unsigned again,  *)
(* whatever copies of it are imported or received: it is deleted or stays.  *)
SignedStaysSigned ==
    [][\A t \in Txs : store[t].status \notin {"none", "UNSIGNED"}
                         => store'[t].status # "UNSIGNED"]_vars

(* t and whatever spends from it, directly or through others.               *)
SpendingFrom(t) ==
    {x \in Txs : \A D \in SUBSET Txs :
        t \in D /\ (\A y \in Txs : Inputs[y] \intersect D # {} => y \in D) => x \in D}

(* When transactions disappear, it is the one whose row was current when    *)
(* TxActions::deleteTx asked, although refreshes reorder the rows while the *)
(* message box is up, and with it none but those that spend from it,        *)
(* whatever the vault has linked, unlinked and deleted before.              *)
DeletesWhatWasAsked ==
    [][LET gone == {t \in Txs : store[t] # Absent /\ store'[t] = Absent} IN
       gone # {} => op.kind = "delete" /\ op.tx \in gone
                    /\ gone \subseteq SpendingFrom(op.tx)]_vars

(* While the state is SYNCHED the list shows the vault's transactions with  *)
(* their statuses, or a refresh is on its way.                              *)
RefreshIsQueued ==
    networkState = "SYNCHED" /\ ~IsListOf(store, rows) => signals > 0

(* signatureactions.cpp:120: "Relock keychain if it was locked prior to     *)
(* adding this signature": addSignature that unlocked a keychain leaves it  *)
(* locked.  Cancelling the entropy dialog breaks it.                        *)
AddSignatureRelocks ==
    [][op.kind = "entropy" /\ op.bKeychainLocked /\ op'.kind # "entropy"
         => sigs.current \notin unlocked']_vars

=============================================================================
