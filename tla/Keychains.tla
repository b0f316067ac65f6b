------------------------------ MODULE Keychains ------------------------------
(***************************************************************************)
(* The keychain tab of mSIGNA: the keychain operations of MainWindow       *)
(* (src/mainwindow.cpp), KeychainModel, whose rows are a copy of what the  *)
(* vault held when update() last ran, and the keychain operations of the   *)
(* vault they call (CoinDB::Vault and Keychain).                           *)
(*                                                                         *)
(* A keychain's private key and seed are each stored in the clear, sealed  *)
(* with a passphrase, or not at all.  The vault keeps the keys of unlocked *)
(* keychains under the NAME of the keychain (mapPrivateKeyUnlock).         *)
(*                                                                         *)
(* The handlers stop in modal dialogs.  A dialog runs an event loop of its *)
(* own: the user cannot reach the main window from it, but a command from  *)
(* a second instance of the program still imports a keychain file.  A      *)
(* handler is therefore an operation `op` with one action per dialog it    *)
(* leaves; what it read before the dialog (the name, whether the keychain  *)
(* was locked) is used after it.  A handler that only shows an error       *)
(* changes nothing and is no action.                                       *)
(*                                                                         *)
(* A definition placed just before the one it resembles and used nowhere   *)
(* is a mutant of it.                                                      *)
(***************************************************************************)
EXTENDS FiniteSets

CONSTANTS
    Names,          \* names a keychain can have
    Ids,            \* the keys themselves: a keychain's hash stands for them
    Passphrases,
    Files,          \* keychain files that come from elsewhere
    OpenedVaults,   \* what a vault holds when it is opened, or created: empty
    Collisions,     \* the sets of wrong keys that a cipher text may take
    None

ASSUME KeychainsAssumption ==
    /\ None \notin Names \union Ids
    /\ Passphrases \intersect {"clear", "nothing"} = {}
    /\ Collisions \subseteq SUBSET (Passphrases \union {"clear"})

(* How a secret is stored: not at all, with salt 0 (as it is), or sealed. *)
Sealing == {"nothing", "clear"} \union Passphrases

(* The key of an unlocked keychain is "clear" when it is empty.             *)
(* AES::decrypt only looks at the padding: of the keys that did not seal a  *)
(* cipher text, takes are those it accepts, and what they open is garbage   *)
(* (one key in 256 without a seed, one in 65536 with one).  The keychain is *)
(* intact as long as its secrets are the ones it was made with.             *)
Keychain == [id : Ids \union {None}, priv : Sealing, seed : Sealing,
             takes : SUBSET (Passphrases \union {"clear"}), intact : BOOLEAN]

Fresh(i, priv, seed) ==
    [id |-> i, priv |-> priv, seed |-> seed, takes |-> {}, intact |-> TRUE]

Absent == Fresh(None, "nothing", "nothing")

ASSUME FilesAssumption ==
    Files \subseteq {f \in Keychain : f.id # None /\ f.seed \in {"nothing", f.priv}}

ASSUME OpenedVaultsAssumption ==
    OpenedVaults \subseteq [Names -> {Absent} \union
        {k \in Keychain : k.id # None /\ k.seed \in {"nothing", k.priv}}]

VARIABLES
    kc,         \* the vault's keychains by name
    unlocked,   \* mapPrivateKeyUnlock: "nothing" if the name is not in it,
                \* "clear" for the empty key
    rows,       \* KeychainModel's rows
    current,    \* the name in the current row, None if no row is current
    op,         \* the handler that waits in a dialog
    file,       \* the keychain file that was exported last
    canLockAll, \* lockAllKeychainsAction: set by updateVaultStatus when the
                \* vault is opened, to whether the list then has rows
    typed,      \* history: the passphrases entered to unlock a name since it
                \* was last locked, or for the secret that is on the screen
    stale       \* history: names whose row was not made by the last update()

vars == <<kc, unlocked, rows, current, op, file, canLockAll, typed, stale>>

Kinds  == {"unlock", "setPassphrase", "backup", "export", "viewBIP32", "viewBIP39",
           "new", "quickNew", "importBIP39", "importBIP32"}
Idle   == [kind |-> "none", name |-> None, bLocked |-> FALSE, private |-> FALSE,
           stage |-> "idle"]
NoRow  == [status |-> "none", encrypted |-> FALSE]

-----------------------------------------------------------------------------
(* The vault.                                                               *)

Has(n)         == kc[n].id # None
IsPrivate(k)   == k.priv # "nothing"
IsEncrypted(k) == k.priv \in Passphrases
HasSeed(k)     == k.seed # "nothing"

(* A secret with salt 0 needs no key, the others need the key that sealed   *)
(* them.                                                                    *)
Sealed(k, key) ==
    /\ k.priv \in {"clear", key} \ {"nothing"}
    /\ k.seed \in {"nothing", "clear", key}

(* Keychain::unlock does not throw: for the private key, and for the seed   *)
(* with the same key.                                                       *)
OpensWith(k, key) == IsPrivate(k) /\ (Sealed(k, key) \/ key \in k.takes)

(* Vault::unlockKeychain_unwrapped with the key the vault has stored. *)
StoredKeyOpensKeychain(n, u) == u[n] # "nothing" /\ OpensWith(kc[n], u[n])

(* What is read can be shown.  Garbage has not the length of a key or of a  *)
(* word list, and HDKeychain and BIP39::toWordlist throw (a wrong key whose *)
(* padding leaves that length, one in 2^32 and fewer, is left out).         *)
ReadsWithoutKey(n, u) == IsPrivate(kc[n])

StoredKeyReads(n, u) == u[n] # "nothing" /\ Sealed(kc[n], u[n]) /\ kc[n].intact

(* Keychain::encrypt and Keychain::decrypt, on a keychain that key opened:  *)
(* garbage is stored as readily as the secrets.  A new salt makes another   *)
(* cipher text.                                                             *)
ResealKeyOnly(k, s, key, taken) == [k EXCEPT !.priv = s]

Reseal(k, s, key, taken) ==
    [k EXCEPT !.priv = s, !.seed = IF @ = "nothing" THEN @ ELSE s,
              !.takes = taken, !.intact = @ /\ Sealed(k, key)]

(* clearPrivateKey, on the copy that is exported. *)
Public(k) == Fresh(k.id, "nothing", "nothing")

-----------------------------------------------------------------------------
(* KeychainModel.                                                           *)

(* One row of KeychainModel::update, from getRootKeychainViews. *)
RowOf(k, key) ==
    IF k.id = None THEN NoRow
    ELSE [encrypted |-> IsEncrypted(k),
          status |-> IF ~IsPrivate(k) THEN "PUBLIC"
                     ELSE IF key = "nothing" THEN "LOCKED" ELSE "UNLOCKED"]

(* KeychainModel::update removes every row, which leaves no current row. *)
Unrefreshed(k, u) == UNCHANGED <<rows, current, stale>>

Update(k, u) ==
    /\ rows' = [n \in Names |-> RowOf(k[n], u[n])]
    /\ current' = None
    /\ stale' = {}

(* Vault::lockKeychain. *)
Without(u, n) == [u EXCEPT ![n] = "nothing"]

(* The locks of `if (bLocked) { lockKeychain(name); }`. *)
Relock(o, u) == IF o.bLocked THEN Without(u, o.name) ELSE u

(* A handler o goes on as next, with the keychains k and the keys u in the  *)
(* vault.  Every call of KeychainModel that changes something updates the   *)
(* rows.                                                                    *)
Step(o, next, k, u, entered, touched) ==
    /\ op' = next
    /\ kc' = k
    /\ unlocked' = u
    /\ typed' = [n \in Names |->
                    IF u[n] = "nothing" /\ ~(next.stage = "show" /\ next.name = n) THEN {}
                    ELSE IF n = o.name THEN typed[n] \union entered ELSE typed[n]]
    /\ IF touched THEN Update(k, u) ELSE UNCHANGED <<rows, current, stale>>

-----------------------------------------------------------------------------
(* What the menu offers for the current row: updateCurrentKeychain.  With   *)
(* no current row every one of these handlers shows an error and returns.   *)

Offered(kind, private) ==
    /\ op = Idle
    /\ current # None
    /\ LET status == rows[current].status
       IN  CASE kind = "unlock" -> status = "LOCKED"
             [] kind = "lock"   -> status = "UNLOCKED"
             [] kind \in {"viewBIP39", "backup"} ->
                    status # "PUBLIC" /\ HasSeed(kc[current])
             [] OTHER -> private => status # "PUBLIC"

(* What follows once the keychain is unlocked, or was not locked.           *)
(* setKeychainPassphrase and exportKeychain open their dialog.  The others  *)
(* read the secret, which needs the stored key, lock the keychain again     *)
(* and then show it; if the read throws they lock the keychain and return.  *)
Proceed(o, u, entered) ==
    LET reads == o.private => StoredKeyReads(o.name, u) IN
    CASE o.kind = "unlock" -> Step(o, Idle, kc, u, entered, TRUE)
      [] o.kind \in {"export", "setPassphrase"} ->
            Step(o, [o EXCEPT !.stage = "dialog"], kc, u, entered, o.bLocked)
      [] OTHER ->
            Step(o, IF reads THEN [o EXCEPT !.stage = "show"] ELSE Idle,
                 kc, Relock(o, u), entered, o.bLocked)

(* The menu starts a handler on the current row.  A locked keychain that    *)
(* is encrypted needs its passphrase; one that is not is unlocked with the  *)
(* empty key.                                                               *)
Begin(kind, private) ==
    LET locked == private /\ rows[current].status = "LOCKED"
        o == [kind |-> kind, name |-> current, bLocked |-> locked,
              private |-> private, stage |-> "passphrase"]
    IN  /\ Offered(kind, private)
        /\ IF locked /\ IsEncrypted(kc[current])
           THEN Step(o, o, kc, unlocked, {}, FALSE)
           ELSE Proceed(o, IF locked THEN [unlocked EXCEPT ![current] = "clear"]
                           ELSE unlocked, {})
        /\ UNCHANGED file

UnlockKeychain        == Begin("unlock", TRUE)
SetKeychainPassphrase == Begin("setPassphrase", TRUE)
MakeKeychainBackup    == Begin("backup", TRUE)
ViewBIP39             == Begin("viewBIP39", TRUE)
ViewBIP32             == \E private \in BOOLEAN : Begin("viewBIP32", private)
ExportKeychain        == \E private \in BOOLEAN : Begin("export", private)

(* PassphraseDialog accepted: KeychainModel::unlockKeychain stores the key  *)
(* only if it opens the keychain, and the handler ends otherwise.           *)
EnterPassphrase(p) ==
    /\ op.stage = "passphrase"
    /\ IF OpensWith(kc[op.name], p)
       THEN Proceed(op, [unlocked EXCEPT ![op.name] = p], {p})
       ELSE Step(op, Idle, kc, unlocked, {}, FALSE)
    /\ UNCHANGED file

CancelPassphrase ==
    /\ op.stage = "passphrase"
    /\ op' = Idle
    /\ UNCHANGED <<kc, unlocked, rows, current, file, typed, stale>>

(* SetPassphraseDialog accepted, with a passphrase or with none and the     *)
(* confirmation to store the keychain in the clear.  The vault opens the    *)
(* keychain with the stored key, which an earlier change of passphrase may  *)
(* have left behind.  KeychainModel reports a failure as an error, and the  *)
(* handler returns Accepted all the same.                                   *)
ChangePassphrase(s) ==
    LET n  == op.name
        ok == StoredKeyOpensKeychain(n, unlocked)
    IN  /\ op.kind = "setPassphrase" /\ op.stage = "dialog"
        /\ \E taken \in IF s = "clear" THEN {{}} ELSE Collisions :
              Step(op, Idle,
                   IF ok THEN [kc EXCEPT ![n] = Reseal(@, s, unlocked[n], taken)] ELSE kc,
                   Relock(op, unlocked), {}, ok \/ op.bLocked)
        /\ UNCHANGED file

(* The dialog is cancelled: a keychain that was unlocked for it stays so. *)
CancelSetPassphrase ==
    /\ op.kind = "setPassphrase" /\ op.stage = "dialog"
    /\ op' = Idle
    /\ UNCHANGED <<kc, unlocked, rows, current, file, typed, stale>>

(* exportKeychain's file dialog, left with a file name or without.  The     *)
(* file holds the secrets as they are stored.                               *)
FinishExportOpen(save) ==
    /\ op.kind = "export" /\ op.stage = "dialog"
    /\ file' = IF save THEN kc[op.name] ELSE file
    /\ Step(op, Idle, kc, IF save THEN Relock(op, unlocked) ELSE unlocked, {}, op.bLocked)

FinishExport(save) ==
    /\ op.kind = "export" /\ op.stage = "dialog"
    /\ file' = IF ~save THEN file
               ELSE IF op.private THEN kc[op.name] ELSE Public(kc[op.name])
    /\ Step(op, Idle, kc, Relock(op, unlocked), {}, op.bLocked)

(* The dialog with the secret, or the wizard with the words, is closed. *)
CloseShown(kind) ==
    /\ op.kind = kind /\ op.stage = "show"
    /\ Step(op, Idle, kc, unlocked, {}, FALSE)
    /\ UNCHANGED file

CloseViewBIP32 == CloseShown("viewBIP32")
CloseViewBIP39 == CloseShown("viewBIP39")
FinishBackup   == CloseShown("backup")

-----------------------------------------------------------------------------
(* The handlers without a dialog between what they read and what they do.   *)

LockKeychain ==
    /\ Offered("lock", TRUE)
    /\ Step(Idle, Idle, kc, Without(unlocked, current), {}, TRUE)
    /\ UNCHANGED file

LockAllKeychains ==
    /\ op = Idle /\ canLockAll
    /\ Step(Idle, Idle, kc, [n \in Names |-> "nothing"], {}, TRUE)
    /\ UNCHANGED file

Select(n) ==
    /\ op = Idle /\ rows[n] # NoRow
    /\ current' = n
    /\ UNCHANGED <<kc, unlocked, rows, op, file, typed, stale>>

(* KeychainModel::setData: the vault renames the keychain and the name item *)
(* of the row is replaced; mapPrivateKeyUnlock and the row's status are     *)
(* left alone.                                                              *)
RenameKeychain(n, m) ==
    /\ op = Idle /\ rows[n] # NoRow /\ Has(n) /\ ~Has(m)
    /\ kc' = [kc EXCEPT ![m] = kc[n], ![n] = Absent]
    /\ rows' = [rows EXCEPT ![m] = rows[n], ![n] = NoRow]
    /\ current' = IF current = n THEN m ELSE current
    /\ stale' = (stale \ {n}) \union {m}
    /\ UNCHANGED <<unlocked, op, file, typed>>

(* The dialogs that ask for a name and, to import, for a key. *)
Ask(kind) ==
    /\ op = Idle
    /\ op' = [Idle EXCEPT !.kind = kind, !.stage = "ask"]
    /\ UNCHANGED <<kc, unlocked, rows, current, file, typed, stale>>

NewKeychainDialog     == Ask("new")
QuickNewAccountDialog == Ask("quickNew")
ImportBIP39Dialog     == Ask("importBIP39")
ImportBIP32Dialog     == Ask("importBIP32")

Asked(kind) == op.kind = kind /\ op.stage = "ask"

(* The dialog is shown again after an error, except newKeychain's, which    *)
(* ends.                                                                    *)
AskAgain(kind) == IF kind = "new" THEN Idle ELSE [Idle EXCEPT !.kind = kind, !.stage = "ask"]

CancelAsk ==
    /\ op.stage = "ask"
    /\ op' = Idle
    /\ UNCHANGED <<kc, unlocked, rows, current, file, typed, stale>>

(* The words of the new seed are shown and asked for again. *)
BackupWizard(n) ==
    /\ op' = [op EXCEPT !.name = n, !.stage = "wizard"]
    /\ UNCHANGED <<kc, unlocked, rows, current, file, typed, stale>>

(* A name that the vault does not have.  quickNewAccount makes the names    *)
(* from the account's and takes those that are free; accounts of one        *)
(* keychain are a bound of the model.                                       *)
NewKeychain(n)     == Asked("new") /\ ~Has(n) /\ BackupWizard(n)
QuickNewAccount(n) == Asked("quickNew") /\ ~Has(n) /\ BackupWizard(n)

CancelWizard ==
    /\ op.stage = "wizard"
    /\ op' = Idle
    /\ UNCHANGED <<kc, unlocked, rows, current, file, typed, stale>>

(* Vault::newKeychain refuses a name and a hash it has: a command may have  *)
(* taken the name while the words were copied.  quickNewAccount goes on to  *)
(* make the account; if that fails the keychain stays and the rows are not  *)
(* updated.                                                                 *)
NewKeychainInVault(n, i) == ~Has(n) /\ \A m \in Names : kc[m].id # i

FinishWizard(i, made) ==
    LET n == op.name
        k == [kc EXCEPT ![n] = Fresh(i, "clear", "clear")]
    IN  /\ op.stage = "wizard"
        /\ made \/ op.kind = "quickNew"
        /\ IF ~NewKeychainInVault(n, i)
           THEN op' = AskAgain(op.kind) /\ UNCHANGED <<kc, rows, current, stale>>
           ELSE /\ kc' = k
                /\ IF made THEN op' = Idle /\ Update(k, unlocked)
                   ELSE /\ op' = AskAgain(op.kind)
                        /\ stale' = stale \union {n} /\ UNCHANGED <<rows, current>>
        /\ UNCHANGED <<unlocked, file, typed>>

Add(n, k, next) == Step(Idle, next, [kc EXCEPT ![n] = k], unlocked, {}, TRUE)

(* The same call with a seed that is typed in. *)
ImportBIP39(n, i) ==
    /\ Asked("importBIP39") /\ NewKeychainInVault(n, i)
    /\ Add(n, Fresh(i, "clear", "clear"), Idle)
    /\ UNCHANGED file

(* Vault::importBIP32 refuses only a name it has; there is no seed. *)
ImportBIP32(n, i, s) ==
    /\ Asked("importBIP32") /\ ~Has(n)
    /\ Add(n, Fresh(i, s, "nothing"), Idle)
    /\ UNCHANGED file

(* Vault::importKeychain of a file f: a hash the vault has is refused,      *)
(* unless the file adds the private key; the name is the file's or the      *)
(* next that is free.  From the menu, or by a command while a dialog is up. *)
(* importPrivateKey leaves the file's seed, and with it its padding, behind. *)
TakesAlone(f) ==
    {f.takes} \union {c \in Collisions : HasSeed(f) /\ IsEncrypted(f) /\ f.takes \subseteq c}

ImportOver(n, f) == f.id # None /\ Add(n, f, op) /\ UNCHANGED file

ImportKeychain(n, f) ==
    LET known == {m \in Names : kc[m].id = f.id} IN
    /\ f.id # None
    /\ IF known = {} THEN ~Has(n) /\ Add(n, f, op)
       ELSE /\ n \in known /\ ~IsPrivate(kc[n]) /\ IsPrivate(f)
            /\ \E taken \in TakesAlone(f) :
                  Add(n, [kc[n] EXCEPT !.priv = f.priv, !.takes = taken, !.intact = f.intact], op)
    /\ UNCHANGED file

(* openVault with the file that is open, from the menu or by a command: the *)
(* vault forgets its keys and the rows are made again.  While a handler     *)
(* waits with a VaultLock the command would lock a std::mutex that its own  *)
(* thread holds, which is undefined: that step is left out.                 *)
ReopenVault ==
    /\ op = Idle \/ op.stage \in {"ask", "wizard"} \/ op.kind \in {"unlock", "export"}
    /\ Step(op, op, kc, [n \in Names |-> "nothing"], {}, TRUE)
    /\ canLockAll' = \E n \in Names : Has(n)
    /\ UNCHANGED file

-----------------------------------------------------------------------------
(* vaultOpened fills the rows, and then updateVaultStatus runs. *)
Init ==
    /\ kc \in OpenedVaults
    /\ unlocked = [n \in Names |-> "nothing"]
    /\ rows = [n \in Names |-> RowOf(kc[n], unlocked[n])]
    /\ canLockAll = \E n \in Names : Has(n)
    /\ current = None
    /\ op = Idle
    /\ file = Absent
    /\ typed = [n \in Names |-> {}]
    /\ stale = {}

Menu ==
    \/ UnlockKeychain \/ LockKeychain \/ LockAllKeychains
    \/ SetKeychainPassphrase \/ MakeKeychainBackup
    \/ ViewBIP32 \/ ViewBIP39 \/ ExportKeychain
    \/ \E n \in Names : Select(n)
    \/ \E n, m \in Names : RenameKeychain(n, m)
    \/ NewKeychainDialog \/ QuickNewAccountDialog \/ ImportBIP39Dialog \/ ImportBIP32Dialog

Dialogs ==
    \/ \E p \in Passphrases : EnterPassphrase(p)
    \/ CancelPassphrase
    \/ \E s \in Passphrases \union {"clear"} : ChangePassphrase(s)
    \/ CancelSetPassphrase
    \/ \E save \in BOOLEAN : FinishExport(save)
    \/ \E n \in Names : NewKeychain(n) \/ QuickNewAccount(n)
    \/ \E n \in Names, i \in Ids : ImportBIP39(n, i)
    \/ \E n \in Names, i \in Ids, s \in {"nothing", "clear"} : ImportBIP32(n, i, s)
    \/ CloseViewBIP32 \/ CloseViewBIP39 \/ FinishBackup \/ CancelAsk \/ CancelWizard
    \/ \E i \in Ids, made \in BOOLEAN : FinishWizard(i, made)

Next ==
    \/ /\ Menu \/ Dialogs \/ \E n \in Names, f \in Files \union {file} : ImportKeychain(n, f)
       /\ UNCHANGED canLockAll
    \/ ReopenVault

Spec == Init /\ [][Next]_vars

-----------------------------------------------------------------------------
(* The variables have their types: a keychain that is absent holds nothing, *)
(* and a handler that waits knows the name it works on.                     *)
TypeOK ==
    /\ kc \in [Names -> Keychain]
    /\ \A n \in Names : ~Has(n) => kc[n] = Absent
    /\ unlocked \in [Names -> Sealing]
    /\ rows \in [Names -> [status : {"none", "PUBLIC", "LOCKED", "UNLOCKED"},
                           encrypted : BOOLEAN]]
    /\ current \in Names \union {None}
    /\ op = Idle \/ op \in [kind : Kinds, name : Names \union {None}, bLocked : BOOLEAN,
                            private : BOOLEAN,
                            stage : {"passphrase", "dialog", "show", "ask", "wizard"}]
    /\ file \in Keychain
    /\ typed \in [Names -> SUBSET Passphrases]
    /\ stale \subseteq Names
    /\ canLockAll \in BOOLEAN

(* A keychain's seed is stored the way its private key is, so that one      *)
(* passphrase opens both: whatever sequence of imports, exports, passphrase *)
(* changes and removals led there, a keychain that can sign can also be     *)
(* backed up.  Keychain::encrypt, decrypt, importPrivateKey.                *)
SealedTogether ==
    \A n \in Names : kc[n].seed \in {"nothing", kc[n].priv}

(* The secrets of an encrypted keychain are on the screen (viewBIP32,       *)
(* viewBIP39, makeKeychainBackup) only if the passphrase that seals them    *)
(* was entered for that name since the name was last locked, whatever       *)
(* passphrase changes, renames and imports lie between.                     *)
ShownSecretsWereUnlocked ==
    op.stage = "show" /\ op.private /\ IsEncrypted(kc[op.name])
        => kc[op.name].priv \in typed[op.name]

(* Between updates the rows show what the vault holds (KeychainModel::      *)
(* update), for every name but those that were renamed or left behind by a  *)
(* failed quickNewAccount since: no handler changes the vault and forgets   *)
(* the rows.                                                                *)
RowsMirrorVault ==
    \A n \in Names \ stale : rows[n] = RowOf(kc[n], unlocked[n])

(* A handler that unlocks a keychain for itself (export, view, backup)      *)
(* leaves it locked on every path out, and so does a change of passphrase;  *)
(* a passphrase that is refused leaves the keys as they are.                *)
ReadersRelock ==
    [][/\ op.bLocked /\ op' = Idle
       /\ op.kind \notin {"unlock", "setPassphrase"} \/ kc' # kc
       /\ op.stage # "passphrase" \/ unlocked' # unlocked
       => unlocked'[op.name] = "nothing"]_vars

(* The key that is stored for keychain n, whose passphrase is being         *)
(* changed, did not seal it, but AES::decrypt takes it.                     *)
Misread(n) ==
    /\ op.kind = "setPassphrase" /\ op.name = n
    /\ unlocked[n] \in kc[n].takes /\ ~Sealed(kc[n], unlocked[n])

(* No step loses a keychain, its private key or its seed: it may only get   *)
(* another name, another passphrase or a private key it did not have.  The  *)
(* secrets themselves survive every step, but for one: a change of          *)
(* passphrase that opened the keychain with a key that did not seal it.     *)
NothingLost ==
    [][\A n \in Names : Has(n) =>
          \E m \in Names :
             /\ kc'[m].id = kc[n].id
             /\ IsPrivate(kc[n]) => IsPrivate(kc'[m])
             /\ HasSeed(kc[n]) => HasSeed(kc'[m])
             /\ IsPrivate(kc[n]) /\ kc[n].intact => kc'[m].intact \/ Misread(n)]_vars
=============================================================================
