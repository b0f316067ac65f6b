-------------------------- MODULE KeychainsProofs --------------------------
(***************************************************************************)
(* What holds of the keychain tab for every set of names, keys,            *)
(* passphrases, files and vaults: the invariants and action properties of  *)
(* Keychains, from one inductive invariant.                                *)
(***************************************************************************)
EXTENDS Keychains, TLAPS

(* What a vault may hold: a name that is free holds nothing, and a seed is  *)
(* sealed as the private key is.                                            *)
VaultOK(k) ==
    /\ k \in [Names -> Keychain]
    /\ \A n \in Names : /\ k[n].id = None => k[n] = Absent
                        /\ k[n].seed \in {"nothing", k[n].priv}

(* What a handler that waits relies on: its stage says which dialog is up,  *)
(* and with it whether the keychain was unlocked for the handler, and has   *)
(* been locked again.                                                       *)
WaitsFor(o) ==
    /\ o.stage \in {"passphrase", "dialog", "show", "wizard"} => o.name \in Names
    /\ o.stage = "passphrase" =>
          o.bLocked /\ o.kind \in {"unlock", "export", "setPassphrase", "backup",
                                   "viewBIP32", "viewBIP39"}
    /\ o.stage = "dialog" => o.kind \in {"export", "setPassphrase"}
    /\ o.stage = "show" => o.kind \in {"backup", "viewBIP32", "viewBIP39"}
    /\ o.stage \in {"ask", "wizard"} => ~o.bLocked

OpOK(o, k, u) ==
    \/ o = Idle
    \/ /\ o \in [kind : Kinds, name : Names \union {None}, bLocked : BOOLEAN,
                 private : BOOLEAN,
                 stage : {"passphrase", "dialog", "show", "ask", "wizard"}]
       /\ WaitsFor(o)
       /\ o.stage = "show" /\ o.private => IsPrivate(k[o.name])
       /\ o.stage = "show" /\ o.bLocked => u[o.name] = "nothing"

(* A key the vault has stored for a name was typed for it. *)
KeysWereTyped ==
    \A n \in Names : unlocked[n] \in Passphrases => unlocked[n] \in typed[n]

ListOK ==
    /\ rows \in [Names -> [status : {"none", "PUBLIC", "LOCKED", "UNLOCKED"},
                           encrypted : BOOLEAN]]
    /\ current \in Names \union {None}
    /\ stale \subseteq Names
    /\ RowsMirrorVault

(* Everything but the file that was exported and the menu's lock-all entry, *)
(* which only FinishExport and ReopenVault write.                           *)
TabOK ==
    /\ VaultOK(kc)
    /\ unlocked \in [Names -> Sealing]
    /\ typed \in [Names -> SUBSET Passphrases]
    /\ OpOK(op, kc, unlocked)
    /\ ListOK
    /\ KeysWereTyped
    /\ ShownSecretsWereUnlocked

FileOK == file \in Keychain /\ file.seed \in {"nothing", file.priv}

Inv == TabOK /\ FileOK /\ canLockAll \in BOOLEAN

USE KeychainsAssumption

-----------------------------------------------------------------------------
(* The row of a keychain has one of the four states of KeychainModel. *)
LEMMA RowOfType ==
    ASSUME NEW k, NEW key
    PROVE  RowOf(k, key) \in [status : {"none", "PUBLIC", "LOCKED", "UNLOCKED"},
                              encrypted : BOOLEAN]
BY DEF RowOf, NoRow, IsEncrypted, IsPrivate

(* KeychainModel::update makes the list of any vault and any keys. *)
LEMMA UpdateLists ==
    ASSUME NEW k, NEW u, Update(k, u), kc' = k, unlocked' = u
    PROVE  ListOK'
<1>1. rows' = [n \in Names |-> RowOf(k[n], u[n])] /\ current' = None /\ stale' = {}
  BY DEF Update
<1>2. rows' \in [Names -> [status : {"none", "PUBLIC", "LOCKED", "UNLOCKED"},
                           encrypted : BOOLEAN]]
  BY <1>1, RowOfType
<1>3. RowsMirrorVault'
  BY <1>1 DEF RowsMirrorVault, RowOf, NoRow, IsEncrypted, IsPrivate
<1> QED
  BY <1>1, <1>2, <1>3 DEF ListOK

(* A handler's step keeps the invariant if the vault it leaves is a vault,  *)
(* the stage it goes to is a stage, it updates the rows when it changes     *)
(* what they show, and every key it stores or shows was typed.              *)
LEMMA StepInv ==
    ASSUME TabOK, NEW o, NEW next, NEW k, NEW u, NEW entered, NEW touched \in BOOLEAN,
           Step(o, next, k, u, entered, touched),
           VaultOK(k), u \in [Names -> Sealing], entered \subseteq Passphrases,
           OpOK(next, k, u),
           touched \/ (k = kc /\ u = unlocked),
           \A n \in Names : u[n] \in Passphrases =>
               u[n] \in typed[n] \/ (n = o.name /\ u[n] \in entered),
           next.stage = "show" /\ next.private /\ IsEncrypted(k[next.name]) =>
               \/ k[next.name].priv \in typed[next.name]
               \/ next.name = o.name /\ k[next.name].priv \in entered
    PROVE  TabOK'
<1>1. op' = next /\ kc' = k /\ unlocked' = u
  BY DEF Step
<1>2. typed' = [n \in Names |->
                  IF u[n] = "nothing" /\ ~(next.stage = "show" /\ next.name = n) THEN {}
                  ELSE IF n = o.name THEN typed[n] \union entered ELSE typed[n]]
  BY DEF Step
<1>3. typed' \in [Names -> SUBSET Passphrases]
  BY <1>2 DEF TabOK
<1>4. ListOK'
  <2>1. CASE touched
    BY <2>1, <1>1, UpdateLists DEF Step
  <2>2. CASE ~touched
    BY <2>2, <1>1 DEF Step, TabOK, ListOK, RowsMirrorVault, RowOf, IsEncrypted, IsPrivate
  <2> QED
    BY <2>1, <2>2
<1>5. KeysWereTyped'
  BY <1>1, <1>2 DEF KeysWereTyped
<1>6. ShownSecretsWereUnlocked'
  <2> SUFFICES ASSUME next.stage = "show", next.private, IsEncrypted(k[next.name])
               PROVE  k[next.name].priv \in typed'[next.name]
    BY <1>1 DEF ShownSecretsWereUnlocked, IsEncrypted
  <2>1. next.name \in Names
    BY DEF OpOK, WaitsFor, Idle
  <2> QED
    BY <1>2, <2>1
<1>7. OpOK(op, kc, unlocked)'
  BY <1>1 DEF OpOK, IsPrivate
<1> QED
  BY <1>1, <1>3, <1>4, <1>5, <1>6, <1>7 DEF TabOK

(* Once the keychain is unlocked, or was not locked, the handler goes on:   *)
(* o is where it was, u the vault's keys now.                               *)
LEMMA ProceedInv ==
    ASSUME TabOK, NEW o, NEW u, NEW entered, Proceed(o, u, entered),
           o \in [kind : Kinds, name : Names, bLocked : BOOLEAN, private : BOOLEAN,
                  stage : {"passphrase"}],
           o.kind \in {"unlock", "export", "setPassphrase", "backup", "viewBIP32", "viewBIP39"},
           entered \subseteq Passphrases,
           u \in [Names -> Sealing],
           \A n \in Names \ {o.name} : u[n] = unlocked[n],
           o.bLocked => u[o.name] \in entered \union {"clear"},
           ~o.bLocked => u = unlocked
    PROVE  TabOK'
<1>0. VaultOK(kc)
  BY DEF TabOK
<1>1. \A n \in Names : u[n] \in Passphrases =>
          u[n] \in typed[n] \/ (n = o.name /\ u[n] \in entered)
  BY DEF TabOK, KeysWereTyped
<1>2. CASE o.kind = "unlock"
  <2>1. Step(o, Idle, kc, u, entered, TRUE)
    BY <1>2 DEF Proceed
  <2>2. OpOK(Idle, kc, u) /\ Idle.stage # "show"
    BY DEF OpOK, Idle
  <2> QED
    BY <2>1, <2>2, <1>0, <1>1, StepInv
<1>3. CASE o.kind \in {"export", "setPassphrase"}
  <2>1. Step(o, [o EXCEPT !.stage = "dialog"], kc, u, entered, o.bLocked)
    BY <1>3 DEF Proceed
  <2>2. OpOK([o EXCEPT !.stage = "dialog"], kc, u)
    BY <1>3 DEF OpOK, WaitsFor
  <2> QED
    BY <2>1, <2>2, <1>0, <1>1, StepInv
<1>4. CASE o.kind \in {"backup", "viewBIP32", "viewBIP39"}
  <2> DEFINE reads == o.private => StoredKeyReads(o.name, u)
             next == IF reads THEN [o EXCEPT !.stage = "show"] ELSE Idle
  <2>1. Step(o, next, kc, Relock(o, u), entered, o.bLocked)
    BY <1>4 DEF Proceed
  <2>2. Relock(o, u) \in [Names -> Sealing]
    BY DEF Relock, Without, Sealing
  <2>3. OpOK(next, kc, Relock(o, u))
    BY <1>4 DEF OpOK, WaitsFor, StoredKeyReads, Sealed, IsPrivate, Relock, Without
  <2>4. o.bLocked \/ Relock(o, u) = unlocked
    BY DEF Relock
  <2>5. \A n \in Names : Relock(o, u)[n] \in Passphrases =>
          Relock(o, u)[n] \in typed[n] \/ (n = o.name /\ Relock(o, u)[n] \in entered)
    BY <1>1 DEF Relock, Without
  <2>6. next.stage = "show" /\ next.private /\ IsEncrypted(kc[next.name]) =>
               \/ kc[next.name].priv \in typed[next.name]
               \/ next.name = o.name /\ kc[next.name].priv \in entered
    <3> SUFFICES ASSUME next.stage = "show", next.private, IsEncrypted(kc[next.name])
                 PROVE  \/ kc[next.name].priv \in typed[next.name]
                        \/ next.name = o.name /\ kc[next.name].priv \in entered
      OBVIOUS
    <3>1. reads /\ next.name = o.name /\ o.private
      BY DEF Idle
    <3>2. kc[o.name].priv = u[o.name]
      BY <3>1 DEF StoredKeyReads, Sealed, IsEncrypted
    <3> QED
      BY <3>1, <3>2, <1>1 DEF IsEncrypted
  <2> QED
    BY <2>1, <2>2, <2>3, <2>4, <2>5, <2>6, <1>0, StepInv
<1> QED
  BY <1>2, <1>3, <1>4

-----------------------------------------------------------------------------
(* The program starts in a state of the invariant: vaultOpened has filled   *)
(* the rows and no dialog is up.                                            *)
LEMMA InitInv == Init => Inv
<1> SUFFICES ASSUME Init PROVE Inv
  OBVIOUS
<1>1. VaultOK(kc)
  <2>1. kc \in [Names -> {Absent} \union
            {k \in Keychain : k.id # None /\ k.seed \in {"nothing", k.priv}}]
    BY OpenedVaultsAssumption DEF Init
  <2>2. Absent \in Keychain /\ Absent.seed = "nothing"
    BY DEF Absent, Fresh, Keychain, Sealing
  <2> QED
    BY <2>1, <2>2 DEF VaultOK
<1>2. unlocked \in [Names -> Sealing] /\ typed \in [Names -> SUBSET Passphrases]
  BY DEF Init, Sealing
<1>3. OpOK(op, kc, unlocked) /\ op.stage # "show"
  BY DEF Init, OpOK, Idle
<1>4. ListOK
  <2>1. rows \in [Names -> [status : {"none", "PUBLIC", "LOCKED", "UNLOCKED"},
                            encrypted : BOOLEAN]]
    BY RowOfType DEF Init
  <2> QED
    BY <2>1 DEF Init, ListOK, RowsMirrorVault
<1>5. KeysWereTyped
  BY DEF Init, KeysWereTyped
<1>6. FileOK /\ canLockAll \in BOOLEAN
  BY DEF Init, FileOK, Absent, Fresh, Keychain, Sealing
<1> QED
  BY <1>1, <1>2, <1>3, <1>4, <1>5, <1>6 DEF Inv, TabOK, ShownSecretsWereUnlocked

(* A step that only opens or leaves a dialog, and shows no secret. *)
LEMMA DialogInv ==
    ASSUME TabOK, UNCHANGED <<kc, unlocked, rows, current, typed, stale>>,
           OpOK(op', kc, unlocked), op'.stage # "show"
    PROVE  TabOK'
<1>1. OpOK(op, kc, unlocked)' /\ ShownSecretsWereUnlocked'
  BY DEF OpOK, IsPrivate, ShownSecretsWereUnlocked
<1>2. ListOK' /\ KeysWereTyped'
  BY DEF TabOK, ListOK, RowsMirrorVault, RowOf, IsEncrypted, IsPrivate, KeysWereTyped
<1> QED
  BY <1>1, <1>2 DEF TabOK

(* A handler that ends and locks what it locks: no key is new. *)
LEMMA EndsInv ==
    ASSUME TabOK, NEW o, NEW k, NEW u, NEW touched \in BOOLEAN,
           Step(o, Idle, k, u, {}, touched),
           VaultOK(k), u \in [Names -> Sealing],
           \A n \in Names : u[n] \in {unlocked[n], "nothing"},
           touched \/ (k = kc /\ u = unlocked)
    PROVE  TabOK'
<1>1. OpOK(Idle, k, u) /\ Idle.stage # "show"
  BY DEF OpOK, Idle
<1>2. \A n \in Names : u[n] \in Passphrases => u[n] \in typed[n]
  BY DEF TabOK, KeysWereTyped
<1> QED
  BY <1>1, <1>2, StepInv

(* The handlers of the menu that work on the current row. *)
LEMMA BeginInv ==
    ASSUME TabOK, NEW kind \in Kinds, NEW private \in BOOLEAN, Begin(kind, private),
           kind \in {"unlock", "export", "setPassphrase", "backup", "viewBIP32", "viewBIP39"}
    PROVE  TabOK'
<1> DEFINE locked == private /\ rows[current].status = "LOCKED"
           o == [kind |-> kind, name |-> current, bLocked |-> locked,
                 private |-> private, stage |-> "passphrase"]
           u == IF locked THEN [unlocked EXCEPT ![current] = "clear"] ELSE unlocked
<1>1. current \in Names
  BY DEF Begin, Offered, TabOK, ListOK
<1>2. o \in [kind : Kinds, name : Names, bLocked : BOOLEAN, private : BOOLEAN,
             stage : {"passphrase"}]
  BY <1>1
<1>3. CASE locked /\ IsEncrypted(kc[current])
  <2>1. Step(o, o, kc, unlocked, {}, FALSE)
    BY <1>3 DEF Begin
  <2>2. OpOK(o, kc, unlocked)
    BY <1>1, <1>3 DEF OpOK, WaitsFor
  <2>3. VaultOK(kc) /\ unlocked \in [Names -> Sealing] /\ o.stage # "show"
    BY DEF TabOK
  <2>4. \A n \in Names : unlocked[n] \in Passphrases => unlocked[n] \in typed[n]
    BY DEF TabOK, KeysWereTyped
  <2> HIDE DEF o
  <2> QED
    BY <2>1, <2>2, <2>3, <2>4, StepInv
<1>4. CASE ~(locked /\ IsEncrypted(kc[current]))
  <2>1. Proceed(o, u, {})
    BY <1>4 DEF Begin
  <2>2. u \in [Names -> Sealing]
    BY <1>1 DEF TabOK, Sealing
  <2>3. /\ \A n \in Names \ {o.name} : u[n] = unlocked[n]
        /\ o.bLocked => u[o.name] \in {} \union {"clear"}
        /\ ~o.bLocked => u = unlocked
    BY <1>1 DEF TabOK
  <2>4. o.kind \in {"unlock", "export", "setPassphrase", "backup", "viewBIP32", "viewBIP39"}
    OBVIOUS
  <2> HIDE DEF o, u
  <2> QED
    BY <2>1, <2>2, <2>3, <2>4, <1>2, ProceedInv
<1> QED
  BY <1>3, <1>4

(* A passphrase that is typed is stored only if it opens the keychain. *)
LEMMA EnterPassphraseInv ==
    ASSUME TabOK, NEW p \in Passphrases, EnterPassphrase(p)
    PROVE  TabOK'
<1>0. op.stage = "passphrase"
  BY DEF EnterPassphrase
<1>1. /\ op \in [kind : Kinds, name : Names \union {None}, bLocked : BOOLEAN,
                 private : BOOLEAN,
                 stage : {"passphrase", "dialog", "show", "ask", "wizard"}]
      /\ WaitsFor(op)
  BY <1>0 DEF TabOK, OpOK, Idle
<1>2. op.name \in Names /\ op.bLocked
  BY <1>0, <1>1 DEF WaitsFor
<1>3. CASE OpensWith(kc[op.name], p)
  <2> DEFINE u == [unlocked EXCEPT ![op.name] = p]
  <2>1. Proceed(op, u, {p})
    BY <1>3 DEF EnterPassphrase
  <2>2. op \in [kind : Kinds, name : Names, bLocked : BOOLEAN, private : BOOLEAN,
                stage : {"passphrase"}]
    BY <1>0, <1>1, <1>2
  <2>3. /\ u \in [Names -> Sealing]
        /\ \A n \in Names \ {op.name} : u[n] = unlocked[n]
        /\ u[op.name] = p
    BY <1>2 DEF TabOK, Sealing
  <2>4. op.kind \in {"unlock", "export", "setPassphrase", "backup", "viewBIP32", "viewBIP39"}
    BY <1>0, <1>1 DEF WaitsFor
  <2> HIDE DEF u
  <2> QED
    BY <2>1, <2>2, <2>3, <2>4, <1>2, ProceedInv
<1>4. CASE ~OpensWith(kc[op.name], p)
  <2>1. Step(op, Idle, kc, unlocked, {}, FALSE)
    BY <1>4 DEF EnterPassphrase
  <2>2. VaultOK(kc) /\ unlocked \in [Names -> Sealing]
    BY DEF TabOK
  <2> QED
    BY <2>1, <2>2, EndsInv
<1> QED
  BY <1>3, <1>4

(* Keychain::encrypt and decrypt seal the seed with what seals the key. *)
LEMMA ResealVault ==
    ASSUME VaultOK(kc), NEW n \in Names, kc[n].id # None,
           NEW s \in Passphrases \union {"clear"}, NEW key,
           NEW taken \in SUBSET (Passphrases \union {"clear"})
    PROVE  VaultOK([kc EXCEPT ![n] = Reseal(@, s, key, taken)])
<1> DEFINE k == Reseal(kc[n], s, key, taken)
<1>1. kc[n] \in Keychain /\ Sealed(kc[n], key) \in BOOLEAN
  BY DEF VaultOK, Sealed
<1>2. k \in Keychain /\ k.id = kc[n].id /\ k.seed \in {"nothing", k.priv}
  BY <1>1 DEF VaultOK, Keychain, Sealing, Reseal
<1> HIDE DEF k
<1>3. VaultOK([kc EXCEPT ![n] = k])
  BY <1>2 DEF VaultOK
<1> QED
  BY <1>3 DEF k

(* The keys a handler leaves are the vault's, without its own. *)
LEMMA RelockKeys ==
    ASSUME NEW u \in [Names -> Sealing], NEW o
    PROVE  /\ Relock(o, u) \in [Names -> Sealing]
           /\ \A n \in Names : Relock(o, u)[n] \in {u[n], "nothing"}
           /\ ~o.bLocked => Relock(o, u) = u
BY DEF Relock, Without, Sealing

(* The passphrase is changed, or the change fails. *)
LEMMA ChangePassphraseInv ==
    ASSUME TabOK, NEW s \in Passphrases \union {"clear"}, ChangePassphrase(s)
    PROVE  TabOK'
<1>0. PICK taken \in IF s = "clear" THEN {{}} ELSE Collisions :
          Step(op, Idle,
               IF StoredKeyOpensKeychain(op.name, unlocked)
               THEN [kc EXCEPT ![op.name] = Reseal(@, s, unlocked[op.name], taken)] ELSE kc,
               Relock(op, unlocked), {},
               StoredKeyOpensKeychain(op.name, unlocked) \/ op.bLocked)
  BY DEF ChangePassphrase
<1> DEFINE ok == StoredKeyOpensKeychain(op.name, unlocked)
           k == IF ok THEN [kc EXCEPT ![op.name] = Reseal(@, s, unlocked[op.name], taken)]
                ELSE kc
           u == Relock(op, unlocked)
<1>1. op.name \in Names /\ op.bLocked \in BOOLEAN
  BY DEF ChangePassphrase, TabOK, OpOK, WaitsFor, Idle
<1>2. Step(op, Idle, k, u, {}, ok \/ op.bLocked)
  BY <1>0
<1>3. VaultOK(k)
  <2>1. CASE ok
    <3>1. kc[op.name].id # None
      BY <1>1, <2>1
      DEF StoredKeyOpensKeychain, OpensWith, IsPrivate, TabOK, VaultOK, Absent, Fresh
    <3>2. taken \in SUBSET (Passphrases \union {"clear"}) /\ VaultOK(kc)
      BY DEF TabOK
    <3>3. VaultOK([kc EXCEPT ![op.name] = Reseal(@, s, unlocked[op.name], taken)])
      BY <1>1, <3>1, <3>2, ResealVault
    <3> QED
      BY <2>1, <3>3
  <2>2. CASE ~ok
    BY <2>2 DEF TabOK
  <2> QED
    BY <2>1, <2>2
<1>4. /\ u \in [Names -> Sealing]
      /\ \A n \in Names : u[n] \in {unlocked[n], "nothing"}
      /\ ~op.bLocked => u = unlocked
  BY RelockKeys DEF TabOK
<1>5. (ok \/ op.bLocked) \/ (k = kc /\ u = unlocked)
  BY <1>4
<1>6. (ok \/ op.bLocked) \in BOOLEAN
  BY <1>1 DEF StoredKeyOpensKeychain
<1> HIDE DEF k, u, ok
<1> QED
  BY <1>2, <1>3, <1>4, <1>5, <1>6, EndsInv

(* The file is written with the keychain as the vault holds it, or without  *)
(* its secrets.                                                             *)
LEMMA FinishExportInv ==
    ASSUME TabOK, FileOK, NEW save \in BOOLEAN, FinishExport(save)
    PROVE  TabOK' /\ FileOK'
<1>1. op.name \in Names /\ op.bLocked \in BOOLEAN
  BY DEF FinishExport, TabOK, OpOK, WaitsFor, Idle
<1>2. Step(op, Idle, kc, Relock(op, unlocked), {}, op.bLocked)
  BY DEF FinishExport
<1>3. TabOK'
  <2>1. VaultOK(kc) /\ unlocked \in [Names -> Sealing]
    BY DEF TabOK
  <2>2. /\ Relock(op, unlocked) \in [Names -> Sealing]
        /\ \A n \in Names : Relock(op, unlocked)[n] \in {unlocked[n], "nothing"}
        /\ op.bLocked \/ Relock(op, unlocked) = unlocked
    BY <2>1, RelockKeys
  <2> QED
    BY <1>1, <1>2, <2>1, <2>2, EndsInv
<1>4. FileOK'
  <2>1. kc[op.name] \in Keychain /\ kc[op.name].seed \in {"nothing", kc[op.name].priv}
    BY <1>1 DEF TabOK, VaultOK
  <2> QED
    BY <2>1 DEF FinishExport, FileOK, Public, Fresh, Keychain, Sealing
<1> QED
  BY <1>3, <1>4

(* The dialog with the secret is closed. *)
LEMMA CloseShownInv ==
    ASSUME TabOK, NEW kind, CloseShown(kind)
    PROVE  TabOK'
<1>1. Step(op, Idle, kc, unlocked, {}, FALSE)
  BY DEF CloseShown
<1> QED
  BY <1>1, EndsInv DEF TabOK

(* The keychains are locked, one or all. *)
LEMMA LocksInv ==
    ASSUME TabOK, LockKeychain \/ LockAllKeychains
    PROVE  TabOK'
<1>1. CASE LockKeychain
  <2>1. Step(Idle, Idle, kc, Without(unlocked, current), {}, TRUE)
    BY <1>1 DEF LockKeychain
  <2>2. /\ Without(unlocked, current) \in [Names -> Sealing]
        /\ \A n \in Names : Without(unlocked, current)[n] \in {unlocked[n], "nothing"}
    BY DEF TabOK, Without, Sealing
  <2> QED
    BY <2>1, <2>2, EndsInv DEF TabOK
<1>2. CASE LockAllKeychains
  <2> DEFINE u == [n \in Names |-> "nothing"]
  <2>1. Step(Idle, Idle, kc, u, {}, TRUE)
    BY <1>2 DEF LockAllKeychains
  <2>2. u \in [Names -> Sealing] /\ \A n \in Names : u[n] \in {unlocked[n], "nothing"}
    BY DEF Sealing
  <2> HIDE DEF u
  <2> QED
    BY <2>1, <2>2, EndsInv DEF TabOK
<1> QED
  BY <1>1, <1>2

(* A row is selected. *)
LEMMA SelectInv ==
    ASSUME TabOK, NEW n \in Names, Select(n)
    PROVE  TabOK'
BY DEF Select, TabOK, ListOK, OpOK, IsPrivate, KeysWereTyped, ShownSecretsWereUnlocked,
       RowsMirrorVault, RowOf, IsEncrypted, Idle

(* A keychain is renamed: its row is moved, the keys stay where they were. *)
LEMMA RenameKeychainInv ==
    ASSUME TabOK, NEW n \in Names, NEW m \in Names, RenameKeychain(n, m)
    PROVE  TabOK'
<1>0. /\ op = Idle /\ op' = Idle /\ n # m
      /\ kc' = [kc EXCEPT ![m] = kc[n], ![n] = Absent]
      /\ rows' = [rows EXCEPT ![m] = rows[n], ![n] = NoRow]
      /\ UNCHANGED <<unlocked, typed>>
  BY DEF RenameKeychain, Has
<1>1. VaultOK(kc')
  <2>1. Absent \in Keychain /\ Absent.seed = "nothing" /\ Absent.id = None
    BY DEF Absent, Fresh, Keychain, Sealing
  <2> QED
    BY <1>0, <2>1 DEF TabOK, VaultOK
<1>2. OpOK(op, kc, unlocked)' /\ ShownSecretsWereUnlocked' /\ KeysWereTyped'
  BY <1>0 DEF OpOK, ShownSecretsWereUnlocked, KeysWereTyped, TabOK, Idle
<1>3. ListOK'
  <2>1. rows' \in [Names -> [status : {"none", "PUBLIC", "LOCKED", "UNLOCKED"},
                             encrypted : BOOLEAN]]
    BY <1>0 DEF TabOK, ListOK, NoRow
  <2>2. current' \in Names \union {None} /\ stale' \subseteq Names
    BY DEF RenameKeychain, TabOK, ListOK
  <2>3. ASSUME NEW x \in Names \ stale'
        PROVE  rows'[x] = RowOf(kc[x], unlocked[x])'
    <3>1. x # m /\ (x # n => x \notin stale)
      BY <2>3 DEF RenameKeychain
    <3>2. CASE x = n
      BY <1>0, <3>2 DEF RowOf, Absent, Fresh, TabOK, ListOK, VaultOK
    <3>3. CASE x # n
      <4>1. rows'[x] = rows[x] /\ kc'[x] = kc[x]
        BY <1>0, <3>1, <3>3 DEF TabOK, ListOK, VaultOK
      <4> QED
        BY <1>0, <3>1, <3>3, <4>1
        DEF TabOK, ListOK, RowsMirrorVault, RowOf, IsEncrypted, IsPrivate
    <3> QED
      BY <3>2, <3>3
  <2> QED
    BY <2>1, <2>2, <2>3 DEF ListOK, RowsMirrorVault
<1> QED
  BY <1>0, <1>1, <1>2, <1>3 DEF TabOK

(* The dialogs that ask for a name, and those that are left. *)
LEMMA AskInv ==
    ASSUME TabOK, NEW kind \in {"new", "quickNew", "importBIP39", "importBIP32"}, Ask(kind)
    PROVE  TabOK'
<1>1. op'.stage # "show" /\ OpOK(op', kc, unlocked)
  BY DEF Ask, OpOK, WaitsFor, Idle, Kinds
<1> QED
  BY <1>1, DialogInv DEF Ask

(* A dialog is cancelled. *)
LEMMA CancelInv ==
    ASSUME TabOK, CancelPassphrase \/ CancelSetPassphrase \/ CancelAsk \/ CancelWizard
    PROVE  TabOK'
<1>1. op'.stage # "show" /\ OpOK(op', kc, unlocked)
  BY DEF CancelPassphrase, CancelSetPassphrase, CancelAsk, CancelWizard, OpOK, Idle
<1> QED
  BY <1>1, DialogInv DEF CancelPassphrase, CancelSetPassphrase, CancelAsk, CancelWizard

(* The words of the new seed are shown. *)
LEMMA BackupWizardInv ==
    ASSUME TabOK, NEW n \in Names, NewKeychain(n) \/ QuickNewAccount(n)
    PROVE  TabOK'
<1>1. op.stage = "ask" /\ BackupWizard(n)
  BY DEF NewKeychain, QuickNewAccount, Asked
<1>2. /\ op \in [kind : Kinds, name : Names \union {None}, bLocked : BOOLEAN,
                 private : BOOLEAN,
                 stage : {"passphrase", "dialog", "show", "ask", "wizard"}]
      /\ ~op.bLocked
  BY <1>1 DEF TabOK, OpOK, WaitsFor, Idle
<1>3. op' = [op EXCEPT !.name = n, !.stage = "wizard"]
  BY <1>1 DEF BackupWizard
<1>4. op'.stage # "show" /\ OpOK(op', kc, unlocked)
  BY <1>2, <1>3 DEF OpOK, WaitsFor
<1> QED
  BY <1>1, <1>4, DialogInv DEF BackupWizard

(* A keychain is put under a name of the vault. *)
LEMMA PutVault ==
    ASSUME VaultOK(kc), NEW n \in Names, NEW k \in Keychain,
           k.id # None, k.seed \in {"nothing", k.priv}
    PROVE  VaultOK([kc EXCEPT ![n] = k])
BY DEF VaultOK

(* The keychain that the wizard made is stored, if the name is still free. *)
LEMMA FinishWizardInv ==
    ASSUME TabOK, NEW i \in Ids, NEW made \in BOOLEAN, FinishWizard(i, made)
    PROVE  TabOK'
<1> DEFINE n == op.name
           new == Fresh(i, "clear", "clear")
           k == [kc EXCEPT ![n] = new]
<1>1. /\ n \in Names /\ op.kind \in Kinds
      /\ UNCHANGED <<unlocked, typed>>
  BY DEF FinishWizard, TabOK, OpOK, WaitsFor, Idle
<1>2. /\ \A x : OpOK(AskAgain(op.kind), x, unlocked) /\ OpOK(Idle, x, unlocked)
      /\ AskAgain(op.kind).stage # "show" /\ Idle.stage # "show"
  BY <1>1 DEF AskAgain, OpOK, WaitsFor, Idle
<1>3. CASE ~NewKeychainInVault(n, i)
  BY <1>2, <1>3, DialogInv DEF FinishWizard
<1>4. CASE NewKeychainInVault(n, i)
  <2>1. kc' = k /\ kc[n].id = None
    BY <1>4 DEF FinishWizard, NewKeychainInVault, Has
  <2>2. new \in Keychain /\ new.id # None /\ new.seed \in {"nothing", new.priv}
    BY DEF Fresh, Keychain, Sealing
  <2>3. VaultOK(kc')
    BY <1>1, <2>1, <2>2, PutVault DEF TabOK
  <2>4. op' \in {Idle, AskAgain(op.kind)}
    BY <1>4 DEF FinishWizard
  <2>5. OpOK(op, kc, unlocked)' /\ ShownSecretsWereUnlocked'
    <3>1. OpOK(op', kc', unlocked)
      BY <1>2, <2>4
    <3> QED
      BY <1>1, <1>2, <2>4, <3>1 DEF OpOK, ShownSecretsWereUnlocked
  <2>6. KeysWereTyped'
    BY <1>1 DEF TabOK, KeysWereTyped
  <2>7. ListOK'
    <3>1. CASE made
      <4>1. Update(k, unlocked)
        BY <1>4, <3>1 DEF FinishWizard
      <4> QED
        BY <1>1, <2>1, <4>1, UpdateLists
    <3>2. CASE ~made
      <4>1. stale' = stale \union {n} /\ UNCHANGED <<rows, current>>
        BY <1>4, <3>2 DEF FinishWizard
      <4>2. \A x \in Names \ {n} : kc'[x] = kc[x]
        BY <1>1, <2>1 DEF TabOK, VaultOK
      <4> QED
        BY <1>1, <4>1, <4>2
        DEF TabOK, ListOK, RowsMirrorVault, RowOf, IsEncrypted, IsPrivate
    <3> QED
      BY <3>1, <3>2
  <2> QED
    BY <1>1, <2>3, <2>5, <2>6, <2>7 DEF TabOK
<1> QED
  BY <1>3, <1>4

(* A seed or an extended key is typed in: the name was free. *)
LEMMA ImportTypedInv ==
    ASSUME TabOK, NEW n \in Names, NEW i \in Ids, NEW s \in {"nothing", "clear"},
           ImportBIP39(n, i) \/ ImportBIP32(n, i, s)
    PROVE  TabOK'
<1>1. PICK k \in {Fresh(i, "clear", "clear"), Fresh(i, s, "nothing")} :
          Step(Idle, Idle, [kc EXCEPT ![n] = k], unlocked, {}, TRUE)
  BY DEF ImportBIP39, ImportBIP32, Add
<1>2. k \in Keychain /\ k.id # None /\ k.seed \in {"nothing", k.priv}
  <2>1. i # None
    OBVIOUS
  <2>2. CASE k = Fresh(i, "clear", "clear")
    BY <2>1, <2>2 DEF Fresh, Keychain, Sealing
  <2>3. CASE k = Fresh(i, s, "nothing")
    BY <2>1, <2>3 DEF Fresh, Keychain, Sealing
  <2> QED
    BY <1>1, <2>2, <2>3
<1>3. VaultOK([kc EXCEPT ![n] = k])
  BY <1>2, PutVault DEF TabOK
<1>4. unlocked \in [Names -> Sealing]
  BY DEF TabOK
<1> QED
  BY <1>1, <1>3, <1>4, EndsInv

(* A file is imported, perhaps while a dialog is up: the keychain whose     *)
(* secret is on the screen has its private key already and is not touched.  *)
LEMMA ImportKeychainInv ==
    ASSUME TabOK, NEW n \in Names, NEW f \in Keychain, f.seed \in {"nothing", f.priv},
           ImportKeychain(n, f)
    PROVE  TabOK'
<1>1. PICK k :
          /\ Step(Idle, op, [kc EXCEPT ![n] = k], unlocked, {}, TRUE)
          /\ ~IsPrivate(kc[n])
          /\ k \in Keychain /\ k.id # None /\ k.seed \in {"nothing", k.priv}
  <2>1. kc[n] \in Keychain /\ kc[n].seed \in {"nothing", kc[n].priv}
        /\ (kc[n].id = None => kc[n] = Absent)
    BY DEF TabOK, VaultOK
  <2> DEFINE Wanted(k) ==
          /\ Step(Idle, op, [kc EXCEPT ![n] = k], unlocked, {}, TRUE)
          /\ ~IsPrivate(kc[n])
          /\ k \in Keychain /\ k.id # None /\ k.seed \in {"nothing", k.priv}
  <2>2. CASE {m \in Names : kc[m].id = f.id} = {}
    <3>1. /\ f.id # None /\ kc[n].id = None
          /\ Step(Idle, op, [kc EXCEPT ![n] = f], unlocked, {}, TRUE)
      BY <2>2 DEF ImportKeychain, Has, Add
    <3>2. ~IsPrivate(kc[n])
      BY <2>1, <3>1 DEF IsPrivate, Absent, Fresh
    <3>3. Wanted(f)
      BY <3>1, <3>2
    <3> QED
      BY <3>3
  <2>3. CASE {m \in Names : kc[m].id = f.id} # {}
    <3>1. PICK taken \in TakesAlone(f) :
              Add(n, [kc[n] EXCEPT !.priv = f.priv, !.takes = taken, !.intact = f.intact], op)
      BY <2>3 DEF ImportKeychain
    <3> DEFINE new == [kc[n] EXCEPT !.priv = f.priv, !.takes = taken, !.intact = f.intact]
    <3>2. ~IsPrivate(kc[n]) /\ kc[n].id = f.id /\ f.id # None
      BY <2>3 DEF ImportKeychain
    <3>3. kc[n].seed = "nothing"
      BY <2>1, <3>2 DEF IsPrivate
    <3>4. taken \in SUBSET (Passphrases \union {"clear"})
      BY DEF TakesAlone, Keychain
    <3>5. new \in Keychain /\ new.id # None /\ new.seed \in {"nothing", new.priv}
      BY <2>1, <3>2, <3>3, <3>4 DEF Keychain
    <3>6. Step(Idle, op, [kc EXCEPT ![n] = new], unlocked, {}, TRUE)
      BY <3>1 DEF Add
    <3> HIDE DEF new
    <3>7. Wanted(new)
      BY <3>2, <3>5, <3>6
    <3> QED
      BY <3>7
  <2> QED
    BY <2>2, <2>3
<1> DEFINE v == [kc EXCEPT ![n] = k]
<1>2. VaultOK(v) /\ VaultOK(kc)
  BY <1>1, PutVault DEF TabOK
<1>3. op.stage = "show" /\ op.private => op.name \in Names /\ v[op.name] = kc[op.name]
  <2> SUFFICES ASSUME op.stage = "show", op.private
               PROVE  op.name \in Names /\ v[op.name] = kc[op.name]
    OBVIOUS
  <2>1. op.name \in Names /\ IsPrivate(kc[op.name])
    BY DEF TabOK, OpOK, WaitsFor, Idle
  <2> QED
    BY <1>1, <1>2, <2>1 DEF VaultOK
<1>4. OpOK(op, v, unlocked)
  BY <1>3 DEF TabOK, OpOK
<1>5. /\ \A x \in Names : unlocked[x] \in Passphrases => unlocked[x] \in typed[x]
      /\ unlocked \in [Names -> Sealing]
  BY DEF TabOK, KeysWereTyped
<1>6. op.stage = "show" /\ op.private /\ IsEncrypted(v[op.name]) =>
          v[op.name].priv \in typed[op.name]
  BY <1>3 DEF TabOK, ShownSecretsWereUnlocked, IsEncrypted
<1>7. Step(Idle, op, v, unlocked, {}, TRUE)
  BY <1>1
<1> HIDE DEF v
<1> QED
  BY <1>2, <1>4, <1>5, <1>6, <1>7, StepInv

(* The vault is opened again under a dialog that shows no secret. *)
LEMMA ReopenVaultInv ==
    ASSUME TabOK, ReopenVault
    PROVE  TabOK' /\ canLockAll' \in BOOLEAN
<1> DEFINE u == [n \in Names |-> "nothing"]
<1>1. Step(op, op, kc, u, {}, TRUE) /\ canLockAll' \in BOOLEAN
  BY DEF ReopenVault
<1>2. op.stage # "show"
  BY DEF ReopenVault, TabOK, OpOK, WaitsFor, Idle
<1>3. OpOK(op, kc, u) /\ VaultOK(kc)
  BY <1>2 DEF TabOK, OpOK
<1>4. u \in [Names -> Sealing] /\ \A n \in Names : u[n] \notin Passphrases
  BY DEF Sealing
<1> HIDE DEF u
<1> QED
  BY <1>1, <1>2, <1>3, <1>4, StepInv

-----------------------------------------------------------------------------
(* Every handler, from the menu, from a dialog or from a command, keeps the *)
(* invariant.                                                               *)
LEMMA NextInv == Inv /\ [Next]_vars => Inv'
<1> SUFFICES ASSUME Inv, [Next]_vars PROVE Inv'
  OBVIOUS
<1> USE DEF Inv
<1>1. CASE Menu /\ UNCHANGED canLockAll
  <2>0. FileOK' /\ canLockAll' \in BOOLEAN
    BY <1>1 DEF Menu, FileOK, UnlockKeychain, LockKeychain, LockAllKeychains,
       SetKeychainPassphrase, MakeKeychainBackup, ViewBIP32, ViewBIP39, ExportKeychain,
       Begin, Select, RenameKeychain, NewKeychainDialog, QuickNewAccountDialog,
       ImportBIP39Dialog, ImportBIP32Dialog, Ask
  <2>1. CASE \/ UnlockKeychain \/ SetKeychainPassphrase \/ MakeKeychainBackup
             \/ ViewBIP32 \/ ViewBIP39 \/ ExportKeychain
    <3>1. PICK kind \in {"unlock", "export", "setPassphrase", "backup", "viewBIP32",
                         "viewBIP39"}, private \in BOOLEAN : Begin(kind, private)
      BY <2>1 DEF UnlockKeychain, SetKeychainPassphrase, MakeKeychainBackup, ViewBIP32,
                  ViewBIP39, ExportKeychain
    <3>2. kind \in Kinds
      BY DEF Kinds
    <3> QED
      BY <3>1, <3>2, <2>0, BeginInv
  <2>2. CASE LockKeychain \/ LockAllKeychains
    BY <2>0, <2>2, LocksInv
  <2>3. CASE \E n \in Names : Select(n)
    BY <2>0, <2>3, SelectInv
  <2>4. CASE \E n, m \in Names : RenameKeychain(n, m)
    BY <2>0, <2>4, RenameKeychainInv
  <2>5. CASE \/ NewKeychainDialog \/ QuickNewAccountDialog
             \/ ImportBIP39Dialog \/ ImportBIP32Dialog
    BY <2>0, <2>5, AskInv DEF NewKeychainDialog, QuickNewAccountDialog,
                              ImportBIP39Dialog, ImportBIP32Dialog
  <2> QED
    BY <1>1, <2>1, <2>2, <2>3, <2>4, <2>5 DEF Menu
<1>2. CASE Dialogs /\ UNCHANGED canLockAll
  <2>0. canLockAll' \in BOOLEAN
    BY <1>2
  <2>1. CASE \E p \in Passphrases : EnterPassphrase(p)
    BY <2>0, <2>1, EnterPassphraseInv DEF EnterPassphrase, FileOK
  <2>2. CASE \E s \in Passphrases \union {"clear"} : ChangePassphrase(s)
    BY <2>0, <2>2, ChangePassphraseInv DEF ChangePassphrase, FileOK
  <2>3. CASE \E save \in BOOLEAN : FinishExport(save)
    BY <2>0, <2>3, FinishExportInv
  <2>4. CASE CancelPassphrase \/ CancelSetPassphrase \/ CancelAsk \/ CancelWizard
    BY <2>0, <2>4, CancelInv
    DEF CancelPassphrase, CancelSetPassphrase, CancelAsk, CancelWizard, FileOK
  <2>5. CASE \E n \in Names : NewKeychain(n) \/ QuickNewAccount(n)
    BY <2>0, <2>5, BackupWizardInv DEF NewKeychain, QuickNewAccount, BackupWizard, FileOK
  <2>6. CASE \/ \E n \in Names, i \in Ids : ImportBIP39(n, i)
             \/ \E n \in Names, i \in Ids, s \in {"nothing", "clear"} : ImportBIP32(n, i, s)
    BY <2>0, <2>6, ImportTypedInv DEF ImportBIP39, ImportBIP32, FileOK
  <2>7. CASE CloseViewBIP32 \/ CloseViewBIP39 \/ FinishBackup
    BY <2>0, <2>7, CloseShownInv
    DEF CloseViewBIP32, CloseViewBIP39, FinishBackup, CloseShown, FileOK
  <2>8. CASE \E i \in Ids, made \in BOOLEAN : FinishWizard(i, made)
    BY <2>0, <2>8, FinishWizardInv DEF FinishWizard, FileOK
  <2> QED
    BY <1>2, <2>1, <2>2, <2>3, <2>4, <2>5, <2>6, <2>7, <2>8 DEF Dialogs
<1>3. CASE /\ \E n \in Names, f \in Files \union {file} : ImportKeychain(n, f)
           /\ UNCHANGED canLockAll
  <2>1. PICK n \in Names, f \in Files \union {file} : ImportKeychain(n, f)
    BY <1>3
  <2>2. f \in Keychain /\ f.seed \in {"nothing", f.priv}
    BY FilesAssumption DEF FileOK
  <2> QED
    BY <1>3, <2>1, <2>2, ImportKeychainInv DEF ImportKeychain, FileOK
<1>4. CASE ReopenVault
  BY <1>4, ReopenVaultInv DEF ReopenVault, FileOK
<1>5. CASE UNCHANGED vars
  BY <1>5 DEF vars, FileOK, TabOK, OpOK, IsPrivate, ListOK, RowsMirrorVault, RowOf,
              IsEncrypted, KeysWereTyped, ShownSecretsWereUnlocked
<1> QED
  BY <1>1, <1>2, <1>3, <1>4, <1>5 DEF Next

(* The inductive invariant of the keychain tab. *)
THEOREM InvHolds == Spec => []Inv
BY InitInv, NextInv, PTL DEF Spec

(* The variables of the tab, the vault and the waiting handler have their   *)
(* types.                                                                   *)
THEOREM TypeCorrect == Spec => []TypeOK
<1>1. Inv => TypeOK
  BY DEF Inv, TabOK, FileOK, VaultOK, ListOK, OpOK, TypeOK, Has
<1> QED
  BY <1>1, InvHolds, PTL

(* Keychain::encrypt, decrypt and importPrivateKey keep a keychain's seed   *)
(* sealed as its private key is.                                            *)
THEOREM SealedTogetherHolds == Spec => []SealedTogether
<1>1. Inv => SealedTogether
  BY DEF Inv, TabOK, VaultOK, SealedTogether
<1> QED
  BY <1>1, InvHolds, PTL

(* viewBIP32, viewBIP39 and makeKeychainBackup show the secrets of an       *)
(* encrypted keychain only after its passphrase was typed for it.           *)
THEOREM ShownSecretsWereUnlockedHolds == Spec => []ShownSecretsWereUnlocked
<1>1. Inv => ShownSecretsWereUnlocked
  BY DEF Inv, TabOK
<1> QED
  BY <1>1, InvHolds, PTL

(* The rows of KeychainModel show what the vault holds, but for the names   *)
(* that were renamed or left by a failed quickNewAccount.                   *)
THEOREM RowsMirrorVaultHolds == Spec => []RowsMirrorVault
<1>1. Inv => RowsMirrorVault
  BY DEF Inv, TabOK, ListOK
<1> QED
  BY <1>1, InvHolds, PTL

-----------------------------------------------------------------------------
(* Proceed, for a handler that had to unlock its keychain: if it ends here  *)
(* it was unlockKeychain, or its read failed and it locked the keychain.    *)
LEMMA ProceedRelocks ==
    ASSUME NEW o, NEW u \in [Names -> Sealing], NEW entered, Proceed(o, u, entered),
           o \in [kind : Kinds, name : Names, bLocked : BOOLEAN, private : BOOLEAN,
                  stage : {"passphrase"}],
           o.bLocked, op' = Idle
    PROVE  kc' = kc /\ (o.kind \in {"unlock", "setPassphrase"} \/ unlocked'[o.name] = "nothing")
<1>1. CASE o.kind = "unlock"
  BY <1>1 DEF Proceed, Step
<1>2. CASE o.kind \in {"export", "setPassphrase"}
  <2>1. op' = [o EXCEPT !.stage = "dialog"]
    BY <1>2 DEF Proceed, Step
  <2> QED
    BY <2>1 DEF Idle
<1>3. CASE o.kind \notin {"unlock", "export", "setPassphrase"}
  <2>1. kc' = kc /\ unlocked' = Relock(o, u)
    BY <1>3 DEF Proceed, Step
  <2> QED
    BY <2>1 DEF Relock, Without
<1> QED
  BY <1>1, <1>2, <1>3

(* A handler that unlocks a keychain for itself leaves it locked on every   *)
(* path out of its dialogs: the guards `if (bLocked) lockKeychain`.         *)
THEOREM ReadersRelockHolds == Spec => ReadersRelock
<1> DEFINE Relocks ==
      /\ op.bLocked /\ op' = Idle
      /\ op.kind \notin {"unlock", "setPassphrase"} \/ kc' # kc
      /\ op.stage # "passphrase" \/ unlocked' # unlocked
      => unlocked'[op.name] = "nothing"
<1>1. Inv /\ [Next]_vars => [Relocks]_vars
  <2> SUFFICES ASSUME Inv, Next, op.bLocked, op' = Idle,
                      op.kind \notin {"unlock", "setPassphrase"} \/ kc' # kc,
                      op.stage # "passphrase" \/ unlocked' # unlocked
               PROVE  unlocked'[op.name] = "nothing"
    OBVIOUS
  <2>1. /\ op # Idle /\ WaitsFor(op) /\ op.stage \in {"passphrase", "dialog", "show"}
        /\ op \in [kind : Kinds, name : Names, bLocked : BOOLEAN, private : BOOLEAN,
                   stage : {"passphrase", "dialog", "show"}]
    BY DEF Inv, TabOK, OpOK, WaitsFor, Idle
  <2>2. unlocked \in [Names -> Sealing]
    BY DEF Inv, TabOK
  <2>3. ~Menu
    BY <2>1 DEF Menu, UnlockKeychain, LockKeychain, LockAllKeychains,
       SetKeychainPassphrase, MakeKeychainBackup, ViewBIP32, ViewBIP39, ExportKeychain,
       Begin, Offered, Select, RenameKeychain, NewKeychainDialog, QuickNewAccountDialog,
       ImportBIP39Dialog, ImportBIP32Dialog, Ask
  <2>4. ~ReopenVault /\ \A n \in Names, f \in Files \union {file} : ~ImportKeychain(n, f)
    BY <2>1 DEF ReopenVault, ImportKeychain, Add, Step
  <2>5. CASE \E p \in Passphrases : EnterPassphrase(p)
    <3>1. PICK p \in Passphrases : EnterPassphrase(p)
      BY <2>5
    <3>2. CASE OpensWith(kc[op.name], p)
      <4>1. Proceed(op, [unlocked EXCEPT ![op.name] = p], {p})
        BY <3>1, <3>2 DEF EnterPassphrase
      <4>2. [unlocked EXCEPT ![op.name] = p] \in [Names -> Sealing]
        BY <2>2 DEF Sealing
      <4>3. op \in [kind : Kinds, name : Names, bLocked : BOOLEAN, private : BOOLEAN,
                    stage : {"passphrase"}]
        BY <2>1, <3>1 DEF EnterPassphrase
      <4> QED
        BY <4>1, <4>2, <4>3, ProceedRelocks
    <3>3. CASE ~OpensWith(kc[op.name], p)
      BY <3>1, <3>3 DEF EnterPassphrase, Step
    <3> QED
      BY <3>2, <3>3
  <2>6. CASE \E s \in Passphrases \union {"clear"} : ChangePassphrase(s)
    <3>1. unlocked' = Relock(op, unlocked)
      BY <2>6 DEF ChangePassphrase, Step
    <3> QED
      BY <2>1, <2>2, <3>1 DEF Relock, Without
  <2>7. CASE \E save \in BOOLEAN : FinishExport(save)
    <3>1. unlocked' = Relock(op, unlocked)
      BY <2>7 DEF FinishExport, Step
    <3> QED
      BY <2>1, <2>2, <3>1 DEF Relock, Without
  <2>8. CASE CancelPassphrase \/ CancelSetPassphrase
    BY <2>8 DEF CancelPassphrase, CancelSetPassphrase
  <2>9. CASE CloseViewBIP32 \/ CloseViewBIP39 \/ FinishBackup
    <3>1. op.stage = "show" /\ unlocked' = unlocked
      BY <2>9 DEF CloseViewBIP32, CloseViewBIP39, FinishBackup, CloseShown, Step
    <3> QED
      BY <2>1, <3>1 DEF Inv, TabOK, OpOK
  <2>10. CASE \/ CancelAsk \/ CancelWizard
              \/ \E n \in Names : NewKeychain(n) \/ QuickNewAccount(n)
              \/ \E n \in Names, i \in Ids : ImportBIP39(n, i)
              \/ \E n \in Names, i \in Ids, s \in {"nothing", "clear"} : ImportBIP32(n, i, s)
              \/ \E i \in Ids, made \in BOOLEAN : FinishWizard(i, made)
    BY <2>1, <2>10 DEF CancelAsk, CancelWizard, NewKeychain, QuickNewAccount, ImportBIP39,
                       ImportBIP32, Asked, FinishWizard
  <2> QED
    BY <2>3, <2>4, <2>5, <2>6, <2>7, <2>8, <2>9, <2>10 DEF Next, Dialogs
<1> QED
  BY <1>1, InvHolds, PTL DEF Spec, ReadersRelock

-----------------------------------------------------------------------------
(* Keychain k has everything keychain old had, but for secrets that were    *)
(* misread.                                                                 *)
Keeps(k, old, misread) ==
    /\ k.id = old.id
    /\ IsPrivate(old) => IsPrivate(k)
    /\ HasSeed(old) => HasSeed(k)
    /\ IsPrivate(old) /\ old.intact => k.intact \/ misread

(* A keychain is put where there was none, or over one it keeps. *)
LEMMA PutKeeps ==
    ASSUME VaultOK(kc), NEW n \in Names, NEW k, kc' = [kc EXCEPT ![n] = k],
           kc[n].id = None \/ Keeps(k, kc[n], Misread(n))
    PROVE  \A x \in Names : Has(x) => \E m \in Names : Keeps(kc'[m], kc[x], Misread(x))
<1> SUFFICES ASSUME NEW x \in Names, Has(x)
             PROVE  Keeps(kc'[x], kc[x], Misread(x))
  OBVIOUS
<1>1. CASE x = n
  BY <1>1 DEF VaultOK, Has
<1>2. CASE x # n
  <2>1. kc'[x] = kc[x]
    BY <1>2 DEF VaultOK
  <2> QED
    BY <2>1 DEF Keeps
<1> QED
  BY <1>1, <1>2

(* No handler and no command makes the vault lose a keychain, a private key *)
(* or a seed, whatever fails in it, but for the passphrase that is changed  *)
(* with a wrong key AES::decrypt takes.                                     *)
THEOREM NothingLostHolds == Spec => NothingLost
<1> DEFINE Kept == \A n \in Names : Has(n) =>
                      \E m \in Names :
                         /\ kc'[m].id = kc[n].id
                         /\ IsPrivate(kc[n]) => IsPrivate(kc'[m])
                         /\ HasSeed(kc[n]) => HasSeed(kc'[m])
                         /\ IsPrivate(kc[n]) /\ kc[n].intact => kc'[m].intact \/ Misread(n)
<1>1. Inv /\ [Next]_vars => [Kept]_vars
  <2> SUFFICES ASSUME Inv, Next
               PROVE  \A n \in Names : Has(n) =>
                         \E m \in Names : Keeps(kc'[m], kc[n], Misread(n))
    BY DEF Keeps
  <2>0. VaultOK(kc)
    BY DEF Inv, TabOK
  <2>1. CASE kc' = kc
    BY <2>1 DEF Keeps
  <2>2. CASE \E n, m \in Names : RenameKeychain(n, m)
    <3>1. PICK n \in Names, m \in Names : RenameKeychain(n, m)
      BY <2>2
    <3>2. /\ kc' = [kc EXCEPT ![m] = kc[n], ![n] = Absent]
          /\ Has(n) /\ ~Has(m)
      BY <3>1 DEF RenameKeychain
    <3>3. kc'[m] = kc[n] /\ \A x \in Names \ {n, m} : kc'[x] = kc[x]
      BY <2>0, <3>2 DEF VaultOK, Has
    <3> QED
      BY <3>2, <3>3 DEF Keeps
  <2>3. CASE \E s \in Passphrases \union {"clear"} : ChangePassphrase(s)
    <3>1. PICK s \in Passphrases \union {"clear"} : ChangePassphrase(s)
      BY <2>3
    <3>2. op.name \in Names
      BY <3>1 DEF ChangePassphrase, Inv, TabOK, OpOK, WaitsFor, Idle
    <3>3. CASE StoredKeyOpensKeychain(op.name, unlocked)
      <4> DEFINE key == unlocked[op.name]
                 Stored(taken) == Reseal(kc[op.name], s, key, taken)
      <4>1. PICK taken : kc' = [kc EXCEPT ![op.name] = Stored(taken)]
        BY <3>1, <3>3 DEF ChangePassphrase, Step
      <4>2. kc[op.name] \in Keychain
        BY <2>0, <3>2 DEF VaultOK
      <4>3. Sealed(kc[op.name], key) \/ Misread(op.name)
        BY <3>1, <3>3 DEF ChangePassphrase, StoredKeyOpensKeychain, OpensWith, Misread
      <4>4. Keeps(Stored(taken), kc[op.name], Misread(op.name))
        BY <4>2, <4>3 DEF Keeps, Reseal, Keychain, IsPrivate, HasSeed
      <4> HIDE DEF Stored
      <4> QED
        BY <2>0, <3>2, <4>1, <4>4, PutKeeps
    <3>4. CASE ~StoredKeyOpensKeychain(op.name, unlocked)
      BY <2>1, <3>1, <3>4 DEF ChangePassphrase, Step
    <3> QED
      BY <3>3, <3>4
  <2>4. CASE \E i \in Ids, made \in BOOLEAN : FinishWizard(i, made)
    <3>1. PICK i \in Ids, made \in BOOLEAN : FinishWizard(i, made)
      BY <2>4
    <3>2. op.name \in Names
      BY <3>1 DEF FinishWizard, Inv, TabOK, OpOK, WaitsFor, Idle
    <3>3. CASE NewKeychainInVault(op.name, i)
      <4>1. kc' = [kc EXCEPT ![op.name] = Fresh(i, "clear", "clear")]
        BY <3>1, <3>3 DEF FinishWizard
      <4>2. kc[op.name].id = None
        BY <3>3 DEF NewKeychainInVault, Has
      <4> QED
        BY <2>0, <3>2, <4>1, <4>2, PutKeeps
    <3>4. CASE ~NewKeychainInVault(op.name, i)
      BY <2>1, <3>1, <3>4 DEF FinishWizard
    <3> QED
      BY <3>3, <3>4
  <2>5. CASE \/ \E n \in Names, i \in Ids : ImportBIP39(n, i)
             \/ \E n \in Names, i \in Ids, s \in {"nothing", "clear"} : ImportBIP32(n, i, s)
    <3>1. PICK n \in Names : kc[n].id = None /\ \E k : kc' = [kc EXCEPT ![n] = k]
      BY <2>5 DEF ImportBIP39, ImportBIP32, NewKeychainInVault, Has, Add, Step
    <3> QED
      BY <2>0, <3>1, PutKeeps
  <2>6. CASE \E n \in Names, f \in Files \union {file} : ImportKeychain(n, f)
    <3>1. PICK n \in Names, f \in Files \union {file} : ImportKeychain(n, f)
      BY <2>6
    <3>2. CASE {m \in Names : kc[m].id = f.id} = {}
      <4>1. kc[n].id = None /\ kc' = [kc EXCEPT ![n] = f]
        BY <3>1, <3>2 DEF ImportKeychain, Add, Step, Has
      <4> QED
        BY <2>0, <4>1, PutKeeps
    <3>3. CASE {m \in Names : kc[m].id = f.id} # {}
      <4> DEFINE new(taken) == [kc[n] EXCEPT !.priv = f.priv, !.takes = taken,
                                             !.intact = f.intact]
      <4>1. PICK taken : kc' = [kc EXCEPT ![n] = new(taken)] /\ IsPrivate(f) /\ ~IsPrivate(kc[n])
        BY <3>1, <3>3 DEF ImportKeychain, Add, Step
      <4>2. kc[n] \in Keychain
        BY <2>0 DEF VaultOK
      <4>3. Keeps(new(taken), kc[n], Misread(n))
        BY <4>1, <4>2 DEF Keeps, Keychain, IsPrivate, HasSeed
      <4> HIDE DEF new
      <4> QED
        BY <2>0, <4>1, <4>3, PutKeeps
    <3> QED
      BY <3>2, <3>3
  <2>7. Menu \/ Dialogs => \/ kc' = kc
                           \/ \E n, m \in Names : RenameKeychain(n, m)
                           \/ \E s \in Passphrases \union {"clear"} : ChangePassphrase(s)
                           \/ \E i \in Ids, made \in BOOLEAN : FinishWizard(i, made)
                           \/ \E n \in Names, i \in Ids : ImportBIP39(n, i)
                           \/ \E n \in Names, i \in Ids, s \in {"nothing", "clear"} :
                                 ImportBIP32(n, i, s)
    BY DEF Menu, Dialogs, UnlockKeychain, LockKeychain, LockAllKeychains,
       SetKeychainPassphrase, MakeKeychainBackup, ViewBIP32, ViewBIP39, ExportKeychain,
       Begin, Select, NewKeychainDialog, QuickNewAccountDialog, Proceed, Step,
       ImportBIP39Dialog, ImportBIP32Dialog, Ask, EnterPassphrase, CancelPassphrase,
       CancelSetPassphrase, FinishExport, NewKeychain, QuickNewAccount, BackupWizard,
       CloseViewBIP32, CloseViewBIP39, FinishBackup, CloseShown, CancelAsk, CancelWizard
  <2>8. CASE ReopenVault
    BY <2>1, <2>8 DEF ReopenVault, Step
  <2> QED
    BY <2>1, <2>2, <2>3, <2>4, <2>5, <2>6, <2>7, <2>8 DEF Next
<1> QED
  BY <1>1, InvHolds, PTL DEF Spec, NothingLost
=============================================================================
