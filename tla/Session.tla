------------------------------- MODULE Session -------------------------------
(***************************************************************************)
(* The vault session of MainWindow: opening, creating, migrating and       *)
(* closing vaults, the three lists that show a vault (KeychainModel,       *)
(* AccountModel, TxModel), the account that is selected in them, and the   *)
(* list of recent vaults that survives a restart; the program's start      *)
(* (main.cpp) with the commands of other instances (CommandServer), and    *)
(* the dialog that issues invoices (RequestPaymentDialog).                 *)
(*                                                                         *)
(* Everything here runs on the user interface's thread, one handler at a   *)
(* time; the network's thread only queues signals for it.  The lists are   *)
(* copies: KeychainModel and TxModel hold a pointer to the vault they show *)
(* which SynchedVault deletes, AccountModel asks SynchedVault each time.   *)
(* SynchedVault::openVault tells the lists of the closing BEFORE it        *)
(* deletes the old vault, closeVault AFTER.  A slot that throws ends the   *)
(* program: `crashed`.                                                     *)
(*                                                                         *)
(* A definition placed just before the one it resembles and used nowhere   *)
(* is a mutant of it.                                                      *)
(***************************************************************************)
EXTENDS Integers, Sequences, SequencesExt, FiniteSets

CONSTANTS
    Vaults,         \* vault files
    Accounts,       \* names of accounts
    MAX_RECENTS,
    MaxSignals,     \* signals that may wait in the event queue
    MaxCommands,    \* connections that may wait for the command server
    MaxKeychains,   \* keychains a new account can have
    None

ASSUME SessionAssumption ==
    /\ None \notin Vaults \union Accounts
    /\ MAX_RECENTS \in Nat \ {0} /\ MaxSignals \in Nat
    /\ MaxCommands \in Nat /\ MaxKeychains \in Nat \ {0}

VARIABLES
    disk,           \* the accounts in each vault file; None if there is no file
    m_vault,        \* SynchedVault::m_vault: the vault that is open
    menu,           \* the vault in the title, whose actions are enabled
    migrating,      \* the vault that a message box of openVault is about:
                    \* whether to migrate it or, if done, where its backup is
    keychainVault,  \* KeychainModel::vault
    txVault,        \* TxModel::vault
    txAccount,      \* TxModel::accountName
    txRows,         \* the vault and account whose transactions are listed
    accountRows,    \* the vault whose accounts are listed, and their names
    selected,       \* the name in the selected row of the account list
    selectedAccount,\* MainWindow::selectedAccount
    signals,        \* refreshes the network's thread has queued
    recents,        \* MainWindow::recents and, between runs, the settings
    combo,          \* the accounts that RequestPaymentDialog offers
    invoicing,      \* RequestPaymentDialog is open; it is not modal
    newAccount,     \* NewAccountDialog or QuickNewAccountDialog, which are modal
    commands,       \* connections of other instances that wait
    run,            \* "running", "quit" (the program has ended) or "crashed"
    ready,          \* main has called CommandServer::uiReady
    lostVault,      \* history: an opening that replaces an open vault has
                    \* failed, and no vault was opened or closed since
    overtaken,      \* history: the menu shows a migrated vault that commands had
                    \* closed or replaced before openVault went on
    renamed         \* history: the selected row was renamed since it was selected

listVars == <<keychainVault, txVault, txAccount, txRows, accountRows, selected,
              selectedAccount, combo, renamed>>
vars == <<disk, m_vault, menu, migrating, listVars, signals, recents, invoicing,
          newAccount, commands, run, ready, lostVault, overtaken>>

NoAccounts == [of |-> None, names |-> {}]
NoTxs      == [of |-> None, account |-> None]
Running    == run = "running"

(* The dialog for a new account: the vault whose keychains it lists, how    *)
(* many of them are chosen, and the entry of the list of minimum signatures *)
(* that is chosen, 0 if the list is empty.                                  *)
NoDialog == [kind |-> "none", of |-> None, chosen |-> 0, minSigs |-> 0]

NotMigrating == [of |-> None, done |-> FALSE]

(* The user can use the window: the program has started and no message box  *)
(* or modal dialog is up.                                                   *)
AtWindow == Running /\ ready /\ migrating = NotMigrating /\ newAccount = NoDialog

-----------------------------------------------------------------------------
(* The lists as one record, so that a handler is a composition of the calls *)
(* it makes.                                                                *)

Lists == [keychains |-> keychainVault, vault |-> txVault, account |-> txAccount,
          txs |-> txRows, rows |-> accountRows, selected |-> selected,
          name |-> selectedAccount, combo |-> combo, throws |-> FALSE, renamed |-> renamed]

SetLists(l) ==
    /\ keychainVault' = l.keychains
    /\ txVault' = l.vault
    /\ txAccount' = l.account
    /\ txRows' = l.txs
    /\ accountRows' = l.rows
    /\ selected' = l.selected
    /\ selectedAccount' = l.name
    /\ combo' = l.combo
    /\ renamed' = l.renamed
    /\ run' = IF l.throws THEN "crashed" ELSE run

(* TxModel::update. *)
UpdateTxs(l) ==
    [l EXCEPT !.txs = IF l.vault = None \/ l.account = None THEN NoTxs
                      ELSE [of |-> l.vault, account |-> l.account]]

(* AccountModel::update removes the rows, so that none is selected, and     *)
(* fills them from the vault v that SynchedVault has at that moment.        *)
(* updateSelectedAccounts clears the selected account's name.  `updated` is *)
(* not emitted without a vault.                                             *)
UpdateKeepsRows(l, v, d) ==
    [l EXCEPT !.rows = IF v = None THEN @ ELSE [of |-> v, names |-> d[v]],
              !.selected = None, !.name = None, !.renamed = FALSE]

UpdateAccounts(l, v, d) ==
    [l EXCEPT !.rows = IF v = None THEN NoAccounts ELSE [of |-> v, names |-> d[v]],
              !.combo = IF v = None THEN @ ELSE [of |-> v, names |-> d[v]],
              !.selected = None, !.name = None, !.renamed = FALSE]

(* TxModel::setVault, and TxModel::setAccount, which throws if it has no    *)
(* vault or the vault does not have the account.                            *)
SetVault(l, v) == [l EXCEPT !.vault = v, !.account = None]

SetAccount(l, a, d) ==
    IF l.vault = None \/ a \notin d[l.vault] THEN [l EXCEPT !.throws = TRUE]
    ELSE UpdateTxs([l EXCEPT !.account = a, !.renamed = FALSE])

(* A row is selected: updateSelectedAccounts. *)
SelectForgetsTxs(l, a, d) == [l EXCEPT !.selected = a, !.name = a, !.renamed = FALSE]

SelectRow(l, a, d) == SetAccount([l EXCEPT !.selected = a, !.name = a], a, d)

(* selectAccount: nothing happens if there is no such row. *)
SelectAccount(l, a, d) == IF a \in l.rows.names THEN SelectRow(l, a, d) ELSE l

RefreshAccounts(l, v, d) ==
    LET u == UpdateAccounts(l, v, d)
    IN  IF l.name # u.name THEN SelectAccount(u, l.name, d) ELSE UpdateTxs(u)

(* The lambda of vaultClosed; v is what SynchedVault still has. *)
OnVaultClosedKeepsTxs(l, v, d) ==
    LET u == UpdateAccounts([l EXCEPT !.keychains = None], v, d)
    IN  UpdateTxs([u EXCEPT !.account = None])

OnVaultClosed(l, v, d) ==
    LET u == UpdateAccounts([l EXCEPT !.keychains = None], v, d)
    IN  UpdateTxs(SetVault(u, None))

(* The lambda of vaultOpened, which selects the first row; a is its account,*)
(* None if there is none.                                                   *)
OnVaultOpened(l, v, a, d) ==
    LET u == UpdateAccounts([l EXCEPT !.keychains = v], v, d)
        w == UpdateTxs(SetVault(u, v))
    IN  IF a = None THEN w ELSE SelectRow(w, a, d)

First(v, d) == IF d[v] = {} THEN {None} ELSE d[v]

(* addToRecents. *)
Without(s, v) ==
    LET kept[n \in 0..Len(s)] ==
            IF n = 0 THEN <<>>
            ELSE IF s[n] = v THEN kept[n - 1] ELSE Append(kept[n - 1], s[n])
    IN  kept[Len(s)]

AddKeepsOld(v) == recents' = SubSeq(<<v>> \o recents, 1,
    IF Len(recents) + 1 > MAX_RECENTS THEN MAX_RECENTS ELSE Len(recents) + 1)

AddToRecents(v) ==
    LET r == <<v>> \o Without(recents, v)
    IN  recents' = SubSeq(r, 1, IF Len(r) > MAX_RECENTS THEN MAX_RECENTS ELSE Len(r))

-----------------------------------------------------------------------------
(* Opening and closing.                                                     *)

(* SynchedVault::openVault once the database has opened. *)
Opened(v, l, d) ==
    /\ \E a \in First(v, d) : SetLists(OnVaultOpened(l, v, a, d))
    /\ m_vault' = v
    /\ disk' = d
    /\ lostVault' = FALSE

(* updateVaultStatus and addToRecents, with the name of the file. *)
ShowVault(v) == menu' = v /\ AddToRecents(v)

(* newVault does not close the vault that is open: SynchedVault replaces    *)
(* it, and the account list is filled again from the vault that is about    *)
(* to be deleted.  updateVaultStatus is called only if it succeeds.         *)
NewVault(v, ok) ==
    LET l == OnVaultClosed(Lists, m_vault, disk) IN
    /\ AtWindow
    /\ IF ok
       THEN /\ disk[v] = None
            /\ Opened(v, l, [disk EXCEPT ![v] = {}]) /\ ShowVault(v)
            /\ overtaken' = FALSE
       ELSE /\ SetLists(l)
            /\ m_vault' = None
            /\ lostVault' = (lostVault \/ m_vault # None)
            /\ UNCHANGED <<disk, menu, recents, overtaken>>
    /\ UNCHANGED <<migrating, signals>>

(* closeVault: SynchedVault returns at once if no vault is open; the menu   *)
(* is updated all the same.                                                 *)
Closed == IF m_vault = None THEN Lists ELSE OnVaultClosed(Lists, None, disk)

CloseKeepsMenu ==
    /\ AtWindow /\ menu # None
    /\ SetLists(Closed)
    /\ m_vault' = None
    /\ lostVault' = (lostVault /\ m_vault = None) /\ overtaken' = FALSE
    /\ UNCHANGED <<disk, menu, migrating, signals, recents>>

CloseVault ==
    /\ AtWindow /\ menu # None
    /\ SetLists(Closed)
    /\ m_vault' = None /\ menu' = None
    /\ lostVault' = (lostVault /\ m_vault = None) /\ overtaken' = FALSE
    /\ UNCHANGED <<disk, migrating, signals, recents>>

(* openVault closes the vault that is open; the file opens, cannot be       *)
(* opened, or needs a migration and a message box asks for it.  At most one *)
(* message box of openVault is up: a bound of the model.                    *)
OpenVault(v, outcome) ==
    LET l == OnVaultClosed(Closed, None, disk) IN
    /\ Running /\ disk[v] # None
    /\ migrating = NotMigrating \/ outcome # "migrate"
    /\ IF outcome = "opens"
       THEN Opened(v, l, disk) /\ ShowVault(v) /\ UNCHANGED migrating
       ELSE /\ SetLists(l)
            /\ m_vault' = None /\ menu' = None /\ lostVault' = FALSE
            /\ migrating' = IF outcome = "migrate" THEN [of |-> v, done |-> FALSE]
                            ELSE migrating
            /\ UNCHANGED <<disk, recents>>
    /\ overtaken' = FALSE
    /\ UNCHANGED signals

Asks == Running /\ migrating # NotMigrating /\ ~migrating.done

(* The answer to the message box: a backup and a second attempt, or none.   *)
(* A vault that a command has opened meanwhile is replaced as newVault      *)
(* does it.  A second message box says where the backup is: the vault is    *)
(* open by then, but the menu and the recent vaults are not updated.        *)
Migrate(opens) ==
    LET v == migrating.of
        l == OnVaultClosed(Lists, m_vault, disk)
    IN  /\ Asks
        /\ IF opens THEN Opened(v, l, disk) /\ migrating' = [of |-> v, done |-> TRUE]
           ELSE /\ SetLists(l)
                /\ migrating' = NotMigrating
                /\ m_vault' = None
                /\ lostVault' = (lostVault \/ m_vault # None)
                /\ UNCHANGED disk
        /\ UNCHANGED <<menu, recents, overtaken, signals>>

(* The second message box is closed, and openVault goes on with the name of *)
(* the file, whatever commands have done to the vault meanwhile.            *)
CloseBackupMade ==
    /\ Running /\ migrating.done
    /\ migrating' = NotMigrating
    /\ ShowVault(migrating.of)
    /\ overtaken' = (m_vault # migrating.of)
    /\ UNCHANGED <<disk, m_vault, listVars, signals, run, lostVault>>

DeclineMigration ==
    /\ Asks
    /\ migrating' = NotMigrating
    /\ UNCHANGED <<disk, m_vault, menu, listVars, signals, recents, run, lostVault, overtaken>>

-----------------------------------------------------------------------------
(* Accounts.                                                                *)

Slot(l, d) ==
    /\ Running
    /\ SetLists(l)
    /\ disk' = d
    /\ UNCHANGED <<m_vault, menu, migrating, signals, recents, lostVault, overtaken>>

Handler(l, d) == AtWindow /\ Slot(l, d)

With(a) == [disk EXCEPT ![m_vault] = @ \union {a}]

(* The end of newAccount, quickNewAccount and importAccount. *)
AccountAdded(a) ==
    LET d == With(a)
        u == UpdateAccounts(Lists, m_vault, d)
    IN  Slot(SelectAccount(u, a, d), d)

(* NewAccountDialog::updateMinSigs: the list has as many entries as there   *)
(* are chosen keychains, and keeps the entry that was chosen if it can.     *)
UpdateMinSigs(dlg, chosen) ==
    [dlg EXCEPT !.chosen = chosen,
                !.minSigs = IF @ = 0 /\ chosen > 0 THEN 1
                            ELSE IF @ > chosen THEN chosen ELSE @]

(* newAccount opens the dialog with the keychains that are selected in the  *)
(* keychain view.  The view may have none: then newKeychain is offered.     *)
NewAccountDialog(chosen) ==
    /\ AtWindow /\ menu # None /\ keychainVault # None
    /\ newAccount' = UpdateMinSigs([NoDialog EXCEPT !.kind = "new", !.of = keychainVault],
                                   chosen)
    /\ UNCHANGED <<disk, m_vault, menu, migrating, listVars, signals, recents, run,
                   lostVault, overtaken>>

(* quickNewAccount tests for an open vault outside of its try block. *)
QuickNewAccountDialog ==
    /\ AtWindow /\ menu # None
    /\ newAccount' = IF m_vault = None THEN NoDialog
                     ELSE [NoDialog EXCEPT !.kind = "quick", !.of = m_vault]
    /\ SetLists([Lists EXCEPT !.throws = m_vault = None])
    /\ UNCHANGED <<disk, m_vault, menu, migrating, signals, recents, lostVault, overtaken>>

InDialog(kind) == Running /\ migrating = NotMigrating /\ newAccount.kind = kind

(* A keychain is chosen or taken back, or another number of signatures is   *)
(* chosen.                                                                  *)
UpdateSelection(chosen) ==
    /\ InDialog("new") /\ chosen \in {newAccount.chosen - 1, newAccount.chosen + 1}
    /\ newAccount' = UpdateMinSigs(newAccount, chosen)
    /\ UNCHANGED <<disk, m_vault, menu, migrating, listVars, signals, recents, run,
                   lostVault, overtaken>>

ChooseMinSigs(n) ==
    /\ InDialog("new") /\ n \in 1..newAccount.chosen
    /\ newAccount' = [newAccount EXCEPT !.minSigs = n]
    /\ UNCHANGED <<disk, m_vault, menu, migrating, listVars, signals, recents, run,
                   lostVault, overtaken>>

(* The dialog is accepted.  The account is made in the vault that is open   *)
(* now, if that has the keychains: a command may have replaced the one the  *)
(* dialog was opened for.  An error ends newAccount.                        *)
NewAccount(a, found) ==
    /\ InDialog("new") /\ newAccount.chosen > 0
    /\ newAccount' = NoDialog
    /\ found \/ newAccount.of # m_vault
    /\ IF m_vault # None /\ a \notin disk[m_vault] /\ found THEN AccountAdded(a)
       ELSE UNCHANGED <<disk, m_vault, menu, migrating, listVars, signals, recents, run,
                        lostVault, overtaken>>

(* quickNewAccount makes the keychains, too; after an error its dialog is   *)
(* shown again.                                                             *)
QuickNewAccount(a) ==
    /\ InDialog("quick")
    /\ m_vault # None /\ a \notin disk[m_vault]
    /\ newAccount' = NoDialog
    /\ AccountAdded(a)

CancelNewAccount ==
    /\ Running /\ migrating = NotMigrating /\ newAccount # NoDialog
    /\ newAccount' = NoDialog
    /\ UNCHANGED <<disk, m_vault, menu, migrating, listVars, signals, recents, run,
                   lostVault, overtaken>>

(* importAccount: "No vault is loaded" is caught.                           *)
ImportAccount(a) ==
    /\ m_vault # None
    /\ a \notin disk[m_vault]
    /\ AccountAdded(a)

(* processFile: a vault or an account file.                                 *)
ProcessFile ==
    \/ \E v \in Vaults, o \in {"opens", "fails", "migrate"} : OpenVault(v, o)
    \/ \E a \in Accounts : ImportAccount(a)

(* CommandServer::processArgs of a second instance, which finds the server  *)
(* of the first, sends it the file it was started with and ends.            *)
ProcessArgs ==
    /\ Running /\ commands < MaxCommands
    /\ commands' = commands + 1
    /\ UNCHANGED <<disk, m_vault, menu, migrating, listVars, signals, recents, run,
                   lostVault, overtaken>>

(* CommandServer::handleConnection, in whatever event loop runs: that of    *)
(* the splash screen, of the license, of a message box or of a dialog.  A   *)
(* file of another kind, or one that cannot be imported, changes nothing.   *)
HandleConnection ==
    /\ Running /\ commands > 0
    /\ commands' = commands - 1
    /\ \/ ProcessFile
       \/ UNCHANGED <<disk, m_vault, menu, migrating, listVars, signals, recents, run,
                      lostVault, overtaken>>

(* dropEvent: a file is dropped on the window. *)
DropEvent == AtWindow /\ ProcessFile

(* AccountModel::setData: the row's name item is replaced, and neither the  *)
(* selection nor the transaction list is told.                              *)
RenameAccount(a, b) ==
    /\ a \in accountRows.names
    /\ m_vault # None /\ a \in disk[m_vault] /\ b \notin disk[m_vault]
    /\ Handler([Lists EXCEPT !.rows.names = (@ \ {a}) \union {b},
                             !.selected = IF @ = a THEN b ELSE @,
                             !.renamed = @ \/ selected = a],
               [disk EXCEPT ![m_vault] = (@ \ {a}) \union {b}])

(* The user selects a row. *)
SelectByUser(a) ==
    /\ a \in accountRows.names /\ a # selected
    /\ Handler(SelectRow(Lists, a, disk), disk)

(* A keychain is renamed: keychainChanged calls AccountModel::update alone. *)
KeychainRenamed == Handler(UpdateAccounts(Lists, m_vault, disk), disk)

(* requestPayment shows the dialog, which stays open while the window is    *)
(* used.                                                                    *)
RequestPayment ==
    /\ AtWindow /\ selected # None /\ ~invoicing
    /\ invoicing' = TRUE
    /\ UNCHANGED <<disk, m_vault, menu, migrating, listVars, signals, recents, run,
                   newAccount, commands, ready, lostVault, overtaken>>

CloseInvoices ==
    /\ AtWindow /\ invoicing
    /\ invoicing' = FALSE
    /\ UNCHANGED <<disk, m_vault, menu, migrating, listVars, signals, recents, run,
                   newAccount, commands, ready, lostVault, overtaken>>

(* AccountView::updateAll selects the row that has the place of the one     *)
(* that was selected.  The vault lists its accounts in the order in which   *)
(* they were made.                                                          *)
UpdateAll(l, v, d) ==
    LET u == UpdateAccounts(l, v, d)
    IN  IF l.selected = None THEN u ELSE SelectRow(u, l.selected, d)

(* An invoice for an account that the dialog offers; it is refused if the   *)
(* open vault does not have it.                                             *)
NewInvoice(a) ==
    /\ invoicing /\ a \in combo.names
    /\ m_vault # None /\ a \in disk[m_vault]
    /\ Handler(UpdateAll(Lists, m_vault, disk), disk)

(* TxActions::importTxFromFile and the others that import a transaction:    *)
(* both lists are updated and no account is selected.                       *)
ImportTx ==
    /\ m_vault # None
    /\ Handler(UpdateTxs(UpdateAccounts(Lists, m_vault, disk)), disk)

(* selectCurrencyUnit, selectTrailingDecimals, selectAddressVersions: the   *)
(* lists are refreshed at once.                                             *)
CurrencyUnitChanged == Handler(RefreshAccounts(Lists, m_vault, disk), disk)

(* The network's thread: signal_newTx, signal_newBlock,                     *)
(* signal_refreshAccounts.                                                  *)
NetworkSignal ==
    /\ Running /\ signals < MaxSignals
    /\ signals' = signals + 1
    /\ UNCHANGED <<disk, m_vault, menu, migrating, listVars, recents, run, lostVault, overtaken>>

(* The event loop, of the window or of a message box, delivers one. *)
DeliverSignal ==
    /\ Running /\ signals > 0
    /\ signals' = signals - 1
    /\ SetLists(RefreshAccounts(Lists, m_vault, disk))
    /\ UNCHANGED <<disk, m_vault, menu, migrating, recents, lostVault, overtaken>>

-----------------------------------------------------------------------------
(* closeEvent and the destructors, or a license that is not accepted:       *)
(* bQuitting keeps the lists from being updated.  A queued signal finds     *)
(* nobody.                                                                  *)
Quit ==
    /\ Running /\ migrating = NotMigrating /\ newAccount = NoDialog
    /\ run' = "quit" /\ m_vault' = None /\ signals' = 0
    /\ UNCHANGED <<disk, menu, migrating, listVars, recents, lostVault, overtaken>>

(* The next run, with the recent vaults that loadRecents reads back. *)
LoadRecents ==
    LET read[n \in 0..Len(recents)] ==
            IF n = 0 THEN <<>>
            ELSE IF Len(read[n - 1]) > MAX_RECENTS
                    \/ \E i \in 1..Len(read[n - 1]) : read[n - 1][i] = recents[n]
                 THEN read[n - 1]
                 ELSE Append(read[n - 1], recents[n])
    IN  read[Len(recents)]

Fresh ==
    /\ m_vault' = None /\ menu' = None /\ migrating' = NotMigrating
    /\ keychainVault' = None /\ txVault' = None /\ txAccount' = None
    /\ txRows' = NoTxs /\ accountRows' = NoAccounts
    /\ selected' = None /\ selectedAccount' = None /\ combo' = NoAccounts
    /\ invoicing' = FALSE /\ newAccount' = NoDialog
    /\ signals' = 0 /\ lostVault' = FALSE /\ overtaken' = FALSE /\ renamed' = FALSE

(* CommandServer::start: what waited for the server before is gone. *)
StartServer == commands' = 0

(* main: no other instance answers; the window is made, the command server  *)
(* started and the headers loaded.                                          *)
Start ==
    /\ ~Running
    /\ Fresh /\ StartServer
    /\ run' = "running" /\ ready' = FALSE
    /\ recents' = LoadRecents
    /\ UNCHANGED disk

(* CommandServer::uiReady: the file the program was started with, if any.   *)
UiReady ==
    /\ Running /\ ~ready /\ migrating = NotMigrating
    /\ ready' = TRUE
    /\ \/ ProcessFile
       \/ UNCHANGED <<disk, m_vault, menu, migrating, listVars, signals, recents, run,
                      lostVault, overtaken>>
    /\ UNCHANGED <<invoicing, newAccount, commands>>

Init ==
    /\ disk \in [Vaults -> {None, {}}]
    /\ m_vault = None /\ menu = None /\ migrating = NotMigrating
    /\ keychainVault = None /\ txVault = None /\ txAccount = None
    /\ txRows = NoTxs /\ accountRows = NoAccounts
    /\ selected = None /\ selectedAccount = None
    /\ signals = 0 /\ lostVault = FALSE /\ overtaken = FALSE /\ renamed = FALSE
    /\ combo = NoAccounts /\ invoicing = FALSE /\ newAccount = NoDialog /\ commands = 0
    /\ recents = <<>> /\ run = "quit" /\ ready = FALSE

AccountDialogs ==
    \/ \E n \in 0..MaxKeychains : NewAccountDialog(n) \/ UpdateSelection(n) \/ ChooseMinSigs(n)
    \/ QuickNewAccountDialog \/ CancelNewAccount
    \/ \E a \in Accounts : QuickNewAccount(a) \/ \E found \in BOOLEAN : NewAccount(a, found)

Window ==
    \/ \E v \in Vaults, ok \in BOOLEAN : NewVault(v, ok)
    \/ \E opens \in BOOLEAN : Migrate(opens)
    \/ DeclineMigration \/ CloseBackupMade \/ CloseVault \/ DropEvent
    \/ \E a, b \in Accounts : RenameAccount(a, b)
    \/ \E a \in Accounts : SelectByUser(a)
    \/ \E a \in Accounts : NewInvoice(a)
    \/ KeychainRenamed \/ ImportTx \/ CurrencyUnitChanged \/ Quit

Next ==
    \/ /\ Window \/ NetworkSignal \/ DeliverSignal
       /\ UNCHANGED <<invoicing, newAccount, commands, ready>>
    \/ AccountDialogs /\ UNCHANGED <<invoicing, commands, ready>>
    \/ /\ ProcessArgs \/ HandleConnection
       /\ UNCHANGED <<invoicing, newAccount, ready>>
    \/ RequestPayment \/ CloseInvoices
    \/ Start \/ UiReady

Spec == Init /\ [][Next]_vars

-----------------------------------------------------------------------------
(* The variables have their types. *)
TypeOK ==
    /\ \A v \in Vaults : disk[v] = None \/ disk[v] \subseteq Accounts
    /\ {m_vault, menu, keychainVault, txVault} \subseteq Vaults \union {None}
    /\ migrating \in [of : Vaults \union {None}, done : BOOLEAN]
    /\ {txAccount, selected, selectedAccount} \subseteq Accounts \union {None}
    /\ accountRows.names \subseteq Accounts
    /\ signals \in 0..MaxSignals /\ commands \in 0..MaxCommands
    /\ newAccount.minSigs \in 0..newAccount.chosen
    /\ run \in {"running", "quit", "crashed"}

(* While the program runs no list holds a pointer to a vault that           *)
(* SynchedVault has deleted: through creations over an open vault, failed   *)
(* openings and migrations, a signal delivered at any time finds either the *)
(* open vault or none (KeychainModel::vault, TxModel::vault).               *)
NoDanglingVault ==
    Running => {keychainVault, txVault} \subseteq {m_vault, None}

(* The account list holds exactly the accounts of the open vault, whatever  *)
(* handler ran last; the exception is an opening that failed when it had    *)
(* replaced an open vault (newVault, or a migration with a command before   *)
(* its answer), which leaves the accounts of the deleted vault listed.  The *)
(* dialog for invoices never offers those of another vault than the open    *)
(* one.                                                                     *)
AccountRowsMirrorVault ==
    Running =>
        /\ ~lostVault => accountRows = IF m_vault = None THEN NoAccounts
                                       ELSE [of |-> m_vault, names |-> disk[m_vault]]
        /\ m_vault # None => combo.of = m_vault

(* If a row of the account list is selected, the transaction list, which    *)
(* the actions on transactions work on, is that account's in the open       *)
(* vault, through every refresh in between; only a renamed row is not       *)
(* recognised.                                                              *)
SelectionShowsItsTxs ==
    Running /\ selected # None =>
        /\ selectedAccount = selected \/ renamed
        /\ txAccount = selectedAccount
        /\ txRows = [of |-> m_vault, account |-> selectedAccount]

(* A slot ends the program with an exception only after an opening that     *)
(* lost the vault it replaced, or after a migration whose vault commands    *)
(* had closed behind the message box: then the stale rows or the enabled    *)
(* actions lead to TxModel::setAccount or quickNewAccount without a vault.  *)
ThrowsOnlyAfterLostVault ==
    run = "crashed" => lostVault \/ overtaken

(* The recent vaults have no duplicates, at most MAX_RECENTS, and the open  *)
(* vault first, also after restarts (addToRecents, loadRecents), unless it  *)
(* was migrated and openVault has not gone on yet, or went on for another   *)
(* vault than the one that was open by then.                                *)
RecentsHeadIsOpenVault ==
    /\ IsInjective(recents) /\ Len(recents) <= MAX_RECENTS
    /\ m_vault # None /\ migrating # [of |-> m_vault, done |-> TRUE] /\ ~overtaken
          => recents[1] = m_vault
=============================================================================
