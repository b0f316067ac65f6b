--------------------------- MODULE SessionProofs ---------------------------
(***************************************************************************)
(* What holds of the vault session for every set of vaults and accounts:   *)
(* the lists never point to a deleted vault and show the open one, a slot  *)
(* throws only after an opening that lost the vault it replaced or a       *)
(* migration that was overtaken, and the recent files start with the open  *)
(* vault, once, also after restarts.                                       *)
(*                                                                         *)
(* The handlers of Session are compositions of calls on one record, the    *)
(* lists.  The proof follows them: one lemma says what each call does to   *)
(* lists in order, and the lemma of an action cites those of its calls.    *)
(***************************************************************************)
EXTENDS Session, WellFoundedInduction, TLAPS

Vault0   == Vaults \union {None}
Account0 == Accounts \union {None}
Rows     == [of : Vault0, names : SUBSET Accounts]

ListsType ==
    [keychains : Vault0, vault : Vault0, account : Account0,
     txs : [of : Vault0, account : Account0], rows : Rows, selected : Account0,
     name : Account0, combo : Rows, throws : BOOLEAN, renamed : BOOLEAN]

RowsOf(v, d) == IF v = None THEN NoAccounts ELSE [of |-> v, names |-> d[v]]

(* Lists that are in order when SynchedVault has the vault v and the files  *)
(* hold d: the models point to v and nowhere else, the rows are those of v  *)
(* unless an opening lost the vault before, and a selected row is listed    *)
(* and has its transactions listed.                                         *)
Selection(l, v) ==
    l.selected # None =>
        /\ v # None /\ l.selected \in l.rows.names
        /\ l.name # None /\ (l.name = l.selected \/ l.renamed)
        /\ l.account = l.name
        /\ l.txs = [of |-> v, account |-> l.name]

Shows(l, v, d, lost) ==
    /\ l \in ListsType
    /\ ~l.throws
    /\ l.keychains = v /\ l.vault = v
    /\ ~lost => l.rows = RowsOf(v, d)
    /\ v # None => l.combo.of = v
    /\ Selection(l, v)

(* The files: one that is open or is about to be migrated exists. *)
IsFile(v, d) == v \in Vaults /\ d[v] \subseteq Accounts

FilesOK ==
    /\ disk \in [Vaults -> {None} \union SUBSET Accounts]
    /\ m_vault \in Vault0 /\ menu \in Vault0
    /\ migrating \in [of : Vault0, done : BOOLEAN]
    /\ m_vault # None => IsFile(m_vault, disk)
    /\ migrating # NotMigrating => IsFile(migrating.of, disk)

(* What the handlers keep.  A menu that is still enabled without a vault,   *)
(* and rows without a vault, are what a lost vault leaves, or for the menu  *)
(* a migrated vault that was closed before the menu was updated.            *)
WindowOK ==
    /\ Lists \in ListsType
    /\ lostVault \in BOOLEAN /\ overtaken \in BOOLEAN
    /\ run \in {"running", "quit", "crashed"}
    /\ run = "crashed" => lostVault \/ overtaken
    /\ Running => /\ Shows(Lists, m_vault, disk, lostVault)
                  /\ lostVault => m_vault = None
                  /\ menu # None /\ m_vault = None => lostVault \/ overtaken

(* The counters, and the dialog for a new account. *)
CountersOK ==
    /\ signals \in 0..MaxSignals /\ commands \in 0..MaxCommands
    /\ newAccount \in [kind : {"none", "new", "quick"}, of : Vault0,
                       chosen : 0..MaxKeychains, minSigs : 0..MaxKeychains]
    /\ newAccount.minSigs <= newAccount.chosen

Inv == FilesOK /\ WindowOK /\ CountersOK

USE SessionAssumption

-----------------------------------------------------------------------------
(* AccountModel::update leaves the rows of the vault it finds, and no row   *)
(* selected.                                                                *)
LEMMA UpdateAccountsShows ==
    ASSUME NEW l \in ListsType, NEW v \in Vault0, NEW d,
           v # None => d[v] \subseteq Accounts
    PROVE  /\ UpdateAccounts(l, v, d) \in ListsType
           /\ UpdateAccounts(l, v, d).rows = RowsOf(v, d)
           /\ v # None => UpdateAccounts(l, v, d).combo.of = v
           /\ UpdateAccounts(l, v, d).selected = None
           /\ UpdateAccounts(l, v, d).name = None
           /\ UpdateAccounts(l, v, d).throws = l.throws
           /\ UpdateAccounts(l, v, d).keychains = l.keychains
           /\ UpdateAccounts(l, v, d).vault = l.vault
           /\ UpdateAccounts(l, v, d).account = l.account
BY DEF UpdateAccounts, RowsOf, ListsType, Rows, NoAccounts, Vault0, Account0

(* TxModel::update writes the transaction list and nothing else. *)
LEMMA UpdateTxsShows ==
    ASSUME NEW l \in ListsType
    PROVE  /\ UpdateTxs(l) \in ListsType
           /\ UpdateTxs(l) = [l EXCEPT !.txs = UpdateTxs(l).txs]
           /\ l.vault # None /\ l.account # None =>
                 UpdateTxs(l).txs = [of |-> l.vault, account |-> l.account]
BY DEF UpdateTxs, ListsType, NoTxs, Vault0, Account0

(* A model that has just been updated, with both pointers to the vault, is  *)
(* in order.                                                                *)
LEMMA UpdatedShows ==
    ASSUME NEW l \in ListsType, ~l.throws, NEW v \in Vault0, NEW d,
           v # None => d[v] \subseteq Accounts, l.keychains = v, l.vault = v
    PROVE  Shows(UpdateAccounts(l, v, d), v, d, FALSE)
BY UpdateAccountsShows DEF Shows, Selection

(* TxModel::update keeps lists that are in order so. *)
LEMMA UpdateTxsKeepsShows ==
    ASSUME NEW l, NEW v, NEW d, NEW lost \in BOOLEAN, Shows(l, v, d, lost)
    PROVE  Shows(UpdateTxs(l), v, d, lost)
<1>1. l \in ListsType
  BY DEF Shows
<1> DEFINE u == UpdateTxs(l)
<1>2. /\ u \in ListsType /\ u.throws = l.throws /\ u.keychains = l.keychains
      /\ u.vault = l.vault /\ u.rows = l.rows /\ u.combo = l.combo
      /\ u.selected = l.selected /\ u.name = l.name /\ u.account = l.account
      /\ u.renamed = l.renamed
  <2>1. u \in ListsType /\ u = [l EXCEPT !.txs = u.txs]
    BY <1>1, UpdateTxsShows
  <2> HIDE DEF u
  <2> QED
    BY <1>1, <2>1 DEF ListsType
<1>3. l.vault # None /\ l.account # None =>
         u.txs = [of |-> l.vault, account |-> l.account]
  BY <1>1, UpdateTxsShows
<1>4. l.selected # None => u.txs = [of |-> v, account |-> l.name]
  <2> SUFFICES ASSUME l.selected # None
               PROVE  u.txs = [of |-> v, account |-> l.name]
    OBVIOUS
  <2>1. l.vault = v /\ v # None /\ l.account = l.name /\ l.name # None
    BY DEF Shows, Selection
  <2> QED
    BY <1>3, <2>1
<1> HIDE DEF u
<1>5. Shows(u, v, d, lost)
  BY <1>2, <1>4 DEF Shows, Selection
<1> QED
  BY <1>5 DEF u

(* A row that is listed is selected: TxModel::setAccount finds the account, *)
(* and the transactions are listed.                                         *)
LEMMA SelectRowShows ==
    ASSUME NEW l, NEW v \in Vaults, NEW d, Shows(l, v, d, FALSE),
           d[v] \subseteq Accounts, NEW a \in d[v]
    PROVE  Shows(SelectRow(l, a, d), v, d, FALSE)
<1>1. /\ l \in ListsType /\ l.vault = v /\ l.keychains = v /\ ~l.throws
      /\ l.rows = [of |-> v, names |-> d[v]] /\ l.combo.of = v
      /\ v # None /\ a \in Accounts /\ a # None
  BY DEF Shows, RowsOf
<1> DEFINE w == [l EXCEPT !.selected = a, !.name = a, !.account = a, !.renamed = FALSE]
           s == [of |-> v, account |-> a]
<1>2. SelectRow(l, a, d) = [w EXCEPT !.txs = s]
  BY <1>1 DEF SelectRow, SetAccount, UpdateTxs, ListsType
<1>3. w \in ListsType
  BY <1>1 DEF ListsType, Account0
<1>4. [w EXCEPT !.txs = s] \in ListsType
  BY <1>1, <1>3 DEF ListsType, Account0, Vault0
<1> DEFINE u == [w EXCEPT !.txs = s]
<1>5. /\ u.throws = l.throws /\ u.keychains = v /\ u.vault = v
      /\ u.rows = l.rows /\ u.combo = l.combo
      /\ u.selected = a /\ u.name = a /\ u.account = a /\ u.txs = s
  BY <1>1 DEF ListsType
<1>6. Shows(u, v, d, FALSE)
  <2> HIDE DEF u
  <2> QED
    BY <1>1, <1>4, <1>5 DEF Shows, Selection, RowsOf, u
<1> QED
  BY <1>2, <1>6

(* refreshAccounts keeps the lists in order and throws nothing: the account *)
(* it selects again is one that it has just listed.                         *)
LEMMA RefreshAccountsShows ==
    ASSUME NEW l, NEW v \in Vault0, NEW d, NEW lost \in BOOLEAN, Shows(l, v, d, lost),
           v # None => d[v] \subseteq Accounts
    PROVE  Shows(RefreshAccounts(l, v, d), v, d, FALSE)
<1> DEFINE u == UpdateAccounts(l, v, d)
<1>1. l \in ListsType /\ ~l.throws /\ l.keychains = v /\ l.vault = v
  BY DEF Shows
<1>2. Shows(u, v, d, FALSE) /\ u.rows = RowsOf(v, d)
  BY <1>1, UpdatedShows, UpdateAccountsShows
<1>3. RefreshAccounts(l, v, d) =
        IF l.name # u.name THEN SelectAccount(u, l.name, d) ELSE UpdateTxs(u)
  BY DEF RefreshAccounts
<1> HIDE DEF u
<1>4. Shows(UpdateTxs(u), v, d, FALSE)
  BY <1>2, UpdateTxsKeepsShows
<1>5. Shows(SelectAccount(u, l.name, d), v, d, FALSE)
  <2>1. CASE l.name \in u.rows.names
    <3>1. v \in Vaults /\ l.name \in d[v]
      BY <1>2, <2>1 DEF RowsOf, NoAccounts, Vault0
    <3>2. Shows(SelectRow(u, l.name, d), v, d, FALSE)
      BY <1>2, <3>1, SelectRowShows
    <3> QED
      BY <2>1, <3>2 DEF SelectAccount
  <2>2. CASE l.name \notin u.rows.names
    BY <1>2, <2>2 DEF SelectAccount
  <2> QED
    BY <2>1, <2>2
<1> QED
  BY <1>3, <1>4, <1>5

(* The lambda of vaultClosed leaves no pointer and no selection.  The rows  *)
(* are those of the vault v that SynchedVault still has.                    *)
LEMMA OnVaultClosedLists ==
    ASSUME NEW l \in ListsType, NEW v \in Vault0, NEW d,
           v # None => d[v] \subseteq Accounts
    PROVE  /\ OnVaultClosed(l, v, d) \in ListsType
           /\ OnVaultClosed(l, v, d).keychains = None
           /\ OnVaultClosed(l, v, d).vault = None
           /\ OnVaultClosed(l, v, d).selected = None
           /\ OnVaultClosed(l, v, d).throws = l.throws
           /\ OnVaultClosed(l, v, d).rows = RowsOf(v, d)
<1> DEFINE k == [l EXCEPT !.keychains = None]
           u == UpdateAccounts(k, v, d)
           w == SetVault(u, None)
           x == UpdateTxs(w)
<1>1. k \in ListsType /\ k.throws = l.throws /\ k.keychains = None
  BY DEF ListsType, Vault0
<1> HIDE DEF k
<1>2. /\ u \in ListsType /\ u.throws = l.throws /\ u.keychains = None
      /\ u.selected = None /\ u.rows = RowsOf(v, d)
  BY <1>1, UpdateAccountsShows
<1> HIDE DEF u
<1>3. /\ w \in ListsType /\ w.throws = l.throws /\ w.keychains = None
      /\ w.selected = None /\ w.rows = RowsOf(v, d) /\ w.vault = None
  BY <1>2 DEF SetVault, ListsType, Vault0, Account0
<1> HIDE DEF w
<1>4. x \in ListsType /\ x = [w EXCEPT !.txs = x.txs]
  BY <1>3, UpdateTxsShows
<1> HIDE DEF x
<1>5. /\ x.throws = l.throws /\ x.keychains = None
      /\ x.selected = None /\ x.rows = RowsOf(v, d) /\ x.vault = None
  BY <1>3, <1>4 DEF ListsType
<1>6. OnVaultClosed(l, v, d) = x
  BY DEF OnVaultClosed, k, u, w, x
<1> QED
  BY <1>4, <1>5, <1>6

(* Lists after a closing are in order without a vault, unless the rows are  *)
(* those of a vault that is gone.                                           *)
LEMMA ClosedShows ==
    ASSUME NEW l \in ListsType, ~l.throws, NEW v \in Vault0, NEW d,
           v # None => d[v] \subseteq Accounts,
           NEW lost \in BOOLEAN, v = None \/ lost
    PROVE  Shows(OnVaultClosed(l, v, d), None, d, lost)
<1> DEFINE x == OnVaultClosed(l, v, d)
<1>1. /\ x \in ListsType /\ ~x.throws /\ x.keychains = None /\ x.vault = None
      /\ x.selected = None /\ x.rows = RowsOf(v, d)
  BY OnVaultClosedLists
<1> HIDE DEF x
<1>2. ~lost => x.rows = RowsOf(None, d)
  BY <1>1 DEF RowsOf
<1>3. Shows(x, None, d, lost)
  BY <1>1, <1>2 DEF Shows, Selection
<1> QED
  BY <1>3 DEF x

(* The lambda of vaultOpened fills the lists from the vault that is open    *)
(* and selects the first account.                                           *)
LEMMA OnVaultOpenedShows ==
    ASSUME NEW l \in ListsType, ~l.throws, NEW v \in Vaults, NEW d,
           d[v] \subseteq Accounts, NEW a \in First(v, d)
    PROVE  Shows(OnVaultOpened(l, v, a, d), v, d, FALSE)
<1> DEFINE k == [l EXCEPT !.keychains = v]
           u == UpdateAccounts(k, v, d)
           w == SetVault(u, v)
           x == UpdateTxs(w)
<1>0. v \in Vault0 /\ v # None
  BY DEF Vault0
<1>1. k \in ListsType /\ ~k.throws /\ k.keychains = v
  BY <1>0 DEF ListsType
<1> HIDE DEF k
<1>2. /\ u \in ListsType /\ ~u.throws /\ u.keychains = v /\ u.combo.of = v
      /\ u.selected = None /\ u.rows = RowsOf(v, d)
  BY <1>0, <1>1, UpdateAccountsShows
<1> HIDE DEF u
<1>3. /\ w \in ListsType /\ ~w.throws /\ w.keychains = v /\ w.combo.of = v
      /\ w.selected = None /\ w.rows = RowsOf(v, d) /\ w.vault = v
  BY <1>0, <1>2 DEF SetVault, ListsType, Account0
<1>4. Shows(w, v, d, FALSE)
  <2> HIDE DEF w
  <2> QED
    BY <1>3 DEF Shows, Selection, w
<1> HIDE DEF w
<1>5. Shows(x, v, d, FALSE)
  BY <1>4, UpdateTxsKeepsShows
<1>6. OnVaultOpened(l, v, a, d) = IF a = None THEN x ELSE SelectRow(x, a, d)
  BY DEF OnVaultOpened, k, u, w, x
<1> HIDE DEF x
<1>7. a # None => a \in d[v]
  BY DEF First
<1>8. a # None => Shows(SelectRow(x, a, d), v, d, FALSE)
  BY <1>5, <1>7, SelectRowShows
<1> QED
  BY <1>5, <1>6, <1>8

-----------------------------------------------------------------------------
(* A handler writes its lists back; if a call threw, the program is gone.   *)
LEMMA SetListsWrites ==
    ASSUME NEW l \in ListsType, SetLists(l)
    PROVE  /\ Lists' \in ListsType
           /\ ~l.throws => Lists' = l /\ run' = run
           /\ l.throws => run' = "crashed"
<1>1. Lists' = [keychains |-> l.keychains, vault |-> l.vault, account |-> l.account,
                txs |-> l.txs, rows |-> l.rows, selected |-> l.selected, name |-> l.name,
                combo |-> l.combo, throws |-> FALSE, renamed |-> l.renamed]
  BY DEF SetLists, Lists
<1>2. Lists' \in ListsType
  BY <1>1 DEF ListsType
<1>3. ~l.throws => Lists' = l
  BY <1>1 DEF ListsType
<1> QED
  BY <1>2, <1>3 DEF SetLists

(* A handler that throws nothing and leaves the lists in order keeps the    *)
(* window in order.                                                         *)
LEMMA HandlerKeeps ==
    ASSUME Running, NEW l, SetLists(l), Shows(l, m_vault', disk', lostVault'),
           lostVault' \in BOOLEAN, overtaken' \in BOOLEAN, lostVault' => m_vault' = None,
           menu' # None /\ m_vault' = None => lostVault' \/ overtaken'
    PROVE  WindowOK'
<1>1. l \in ListsType /\ ~l.throws
  BY DEF Shows
<1>2. Lists' = l /\ run' = run
  BY <1>1, SetListsWrites
<1>3. Shows(Lists', m_vault', disk', lostVault')
  BY <1>2
<1> QED
  BY <1>1, <1>2, <1>3 DEF WindowOK, Running

(* A step that touches neither vaults nor lists. *)
LEMMA NothingTouched ==
    ASSUME FilesOK, WindowOK,
           UNCHANGED <<disk, m_vault, menu, migrating, listVars, run, lostVault, overtaken>>
    PROVE  FilesOK' /\ WindowOK'
<1>1. Lists' = Lists
  BY DEF Lists, listVars
<1>2. FilesOK'
  BY DEF FilesOK
<1>3. WindowOK'
  BY <1>1 DEF WindowOK, Running
<1> QED
  BY <1>2, <1>3

(* A step that leaves the files on disk where they are, opens no vault and  *)
(* asks for no migration.                                                   *)
LEMMA FilesKept ==
    ASSUME FilesOK, NEW d, disk' = d,
           d \in [Vaults -> {None} \union SUBSET Accounts],
           \A w \in Vaults : IsFile(w, disk) => IsFile(w, d),
           m_vault' = m_vault \/ m_vault' = None, menu' \in Vault0,
           migrating' = migrating \/ migrating' = NotMigrating
    PROVE  FilesOK'
<1>1. m_vault' \in Vault0 /\ (m_vault' # None => IsFile(m_vault', d))
  BY DEF FilesOK, IsFile, Vault0
<1>2. migrating' \in [of : Vault0, done : BOOLEAN]
  <2>1. NotMigrating \in [of : Vault0, done : BOOLEAN]
    BY DEF NotMigrating, Vault0
  <2>2. migrating \in [of : Vault0, done : BOOLEAN]
    BY DEF FilesOK
  <2> QED
    BY <2>1, <2>2
<1>3. migrating' # NotMigrating => migrating' = migrating /\ IsFile(migrating.of, disk)
  BY DEF FilesOK
<1>4. migrating' # NotMigrating => IsFile(migrating'.of, d)
  <2> SUFFICES ASSUME migrating' # NotMigrating PROVE IsFile(migrating'.of, d)
    OBVIOUS
  <2>1. migrating.of \in Vaults
    BY <1>3 DEF IsFile
  <2> QED
    BY <1>3, <2>1
<1> QED
  BY <1>1, <1>2, <1>4 DEF FilesOK, IsFile

(* SynchedVault has opened the vault v of the files d. *)
LEMMA OpenedKeeps ==
    ASSUME Running, NEW v \in Vaults, NEW l \in ListsType, ~l.throws, NEW d,
           d[v] \subseteq Accounts, Opened(v, l, d), overtaken' \in BOOLEAN
    PROVE  WindowOK'
<1>1. PICK a \in First(v, d) : SetLists(OnVaultOpened(l, v, a, d))
  BY DEF Opened
<1>2. /\ m_vault' = v /\ disk' = d /\ lostVault' = FALSE
      /\ v # None
  BY DEF Opened
<1>3. Shows(OnVaultOpened(l, v, a, d), m_vault', disk', lostVault')
  BY <1>2, OnVaultOpenedShows
<1> QED
  BY <1>1, <1>2, <1>3, HandlerKeeps

(* The lists that an opening over an open vault starts from. *)
LEMMA ReplacedLists ==
    ASSUME FilesOK, WindowOK, Running
    PROVE  /\ OnVaultClosed(Lists, m_vault, disk) \in ListsType
           /\ ~OnVaultClosed(Lists, m_vault, disk).throws
           /\ \A lost \in BOOLEAN : m_vault = None \/ lost =>
                 Shows(OnVaultClosed(Lists, m_vault, disk), None, disk, lost)
<1>1. Lists \in ListsType /\ ~Lists.throws /\ m_vault \in Vault0
  BY DEF FilesOK, WindowOK, Shows
<1>2. m_vault # None => disk[m_vault] \subseteq Accounts
  BY DEF FilesOK, IsFile
<1> HIDE DEF Lists
<1> QED
  BY <1>1, <1>2, OnVaultClosedLists, ClosedShows

(* An opening that replaces a vault fails: the vault is gone, and its rows  *)
(* and menu stay; if there was none, all is as after a closing.             *)
LEMMA LosesVault ==
    ASSUME FilesOK, WindowOK, Running,
           SetLists(OnVaultClosed(Lists, m_vault, disk)),
           m_vault' = None, lostVault' = (lostVault \/ m_vault # None),
           UNCHANGED <<disk, menu, overtaken>>
    PROVE  WindowOK'
<1>1. /\ lostVault' \in BOOLEAN /\ overtaken' \in BOOLEAN
      /\ m_vault = None \/ lostVault'
  BY DEF WindowOK
<1>2. Shows(OnVaultClosed(Lists, m_vault, disk), m_vault', disk', lostVault')
  BY <1>1, ReplacedLists
<1>3. menu' # None => lostVault' \/ overtaken'
  BY DEF WindowOK
<1> QED
  BY <1>1, <1>2, <1>3, HandlerKeeps

(* newVault, over an open vault or none, whether it succeeds or not. *)
LEMMA NewVaultKeeps ==
    ASSUME FilesOK, WindowOK, NEW v \in Vaults, NEW ok \in BOOLEAN, NewVault(v, ok)
    PROVE  FilesOK' /\ WindowOK'
<1>1. Running
  BY DEF NewVault, AtWindow
<1>2. CASE ok
  <2> DEFINE d == [disk EXCEPT ![v] = {}]
             l == OnVaultClosed(Lists, m_vault, disk)
  <2>1. Opened(v, l, d) /\ ShowVault(v) /\ migrating' = migrating /\ overtaken' = FALSE
    BY <1>2 DEF NewVault
  <2>2. /\ d \in [Vaults -> {None} \union SUBSET Accounts]
        /\ d[v] = {} /\ \A w \in Vaults : IsFile(w, disk) => IsFile(w, d)
    BY DEF FilesOK, IsFile
  <2>3. l \in ListsType /\ ~l.throws
    BY <1>1, ReplacedLists
  <2> HIDE DEF d, l
  <2>4. WindowOK'
    BY <1>1, <2>1, <2>2, <2>3, OpenedKeeps
  <2>5. FilesOK'
    BY <2>1, <2>2 DEF Opened, ShowVault, FilesOK, IsFile, Vault0
  <2> QED
    BY <2>4, <2>5
<1>3. CASE ~ok
  <2>1. WindowOK'
    BY <1>1, <1>3, LosesVault DEF NewVault
  <2>2. FilesOK'
    BY <1>3 DEF NewVault, FilesOK, Vault0
  <2> QED
    BY <2>1, <2>2
<1> QED
  BY <1>2, <1>3

(* The migration is accepted; a command may have opened a vault meanwhile.  *)
(* The menu is not updated yet.                                             *)
LEMMA MigrateKeeps ==
    ASSUME FilesOK, WindowOK, NEW opens \in BOOLEAN, Migrate(opens)
    PROVE  FilesOK' /\ WindowOK'
<1> DEFINE v == migrating.of
<1>1. /\ Running /\ v \in Vaults /\ IsFile(v, disk)
      /\ overtaken' = overtaken /\ menu' = menu /\ overtaken \in BOOLEAN
  BY DEF Migrate, Asks, FilesOK, WindowOK, IsFile
<1> HIDE DEF v
<1>2. CASE opens
  <2> DEFINE l == OnVaultClosed(Lists, m_vault, disk)
  <2>1. Opened(v, l, disk) /\ migrating' = [of |-> v, done |-> TRUE]
    BY <1>2 DEF Migrate, v
  <2>3. l \in ListsType /\ ~l.throws
    BY <1>1, ReplacedLists
  <2> HIDE DEF l
  <2>4. WindowOK'
    BY <1>1, <2>1, <2>3, OpenedKeeps DEF IsFile
  <2>5. FilesOK'
    BY <1>1, <2>1 DEF Opened, FilesOK, IsFile, Vault0
  <2> QED
    BY <2>4, <2>5
<1>3. CASE ~opens
  <2>1. WindowOK'
    BY <1>1, <1>3, LosesVault DEF Migrate
  <2>2. FilesOK'
    <3>1. /\ disk' = disk /\ m_vault' = None /\ menu' = menu
          /\ migrating' = NotMigrating
      BY <1>1, <1>3 DEF Migrate
    <3>2. disk \in [Vaults -> {None} \union SUBSET Accounts] /\ menu \in Vault0
      BY DEF FilesOK
    <3> QED
      BY <3>1, <3>2, FilesKept
  <2> QED
    BY <2>1, <2>2
<1> QED
  BY <1>2, <1>3

(* openVault goes on after the second message box: the menu shows the       *)
(* migrated vault, which may not be the open one any more.                  *)
LEMMA CloseBackupMadeKeeps ==
    ASSUME FilesOK, WindowOK, CloseBackupMade
    PROVE  FilesOK' /\ WindowOK'
<1>1. migrating.of \in Vaults /\ migrating.of # None
  BY DEF CloseBackupMade, FilesOK, IsFile, NotMigrating
<1>2. FilesOK'
  BY <1>1 DEF CloseBackupMade, ShowVault, FilesOK, Vault0, NotMigrating
<1>3. Lists' = Lists
  BY DEF CloseBackupMade, Lists, listVars
<1>4. overtaken' \in BOOLEAN /\ (m_vault' = None => overtaken')
  BY <1>1 DEF CloseBackupMade
<1>5. WindowOK'
  BY <1>3, <1>4 DEF CloseBackupMade, WindowOK, Running
<1> QED
  BY <1>2, <1>5

(* What closeVault leaves in the lists: nothing of the vault, whether there *)
(* was one or not.                                                          *)
LEMMA ClosedLists ==
    ASSUME FilesOK, WindowOK, Running
    PROVE  /\ Closed \in ListsType /\ ~Closed.throws
           /\ Shows(Closed, None, disk, lostVault /\ m_vault = None)
<1>1. Lists \in ListsType /\ ~Lists.throws /\ lostVault \in BOOLEAN
  BY DEF WindowOK, Shows
<1>2. CASE m_vault = None
  <2>1. Closed = Lists /\ Shows(Lists, None, disk, lostVault)
    BY <1>2 DEF Closed, WindowOK
  <2>2. Shows(Lists, None, disk, lostVault /\ m_vault = None)
    BY <1>1, <1>2, <2>1 DEF Shows
  <2> QED
    BY <1>1, <2>1, <2>2
<1>3. CASE m_vault # None
  <2>1. Closed = OnVaultClosed(Lists, None, disk)
    BY <1>3 DEF Closed
  <2>2. None \in Vault0
    BY DEF Vault0
  <2>3. \A lost \in BOOLEAN : Shows(OnVaultClosed(Lists, None, disk), None, disk, lost)
    BY <1>1, <2>2, ClosedShows
  <2>4. OnVaultClosed(Lists, None, disk) \in ListsType
        /\ ~OnVaultClosed(Lists, None, disk).throws
    BY <1>1, <2>2, OnVaultClosedLists
  <2> QED
    BY <1>1, <2>1, <2>3, <2>4
<1> QED
  BY <1>2, <1>3

(* closeVault. *)
LEMMA CloseVaultKeeps ==
    ASSUME FilesOK, WindowOK, CloseVault
    PROVE  FilesOK' /\ WindowOK'
<1>1. /\ Running /\ SetLists(Closed) /\ m_vault' = None /\ menu' = None
      /\ lostVault' = (lostVault /\ m_vault = None) /\ overtaken' = FALSE
      /\ UNCHANGED <<disk, migrating>>
  BY DEF CloseVault, AtWindow
<1>2. Shows(Closed, m_vault', disk', lostVault')
  BY <1>1, ClosedLists
<1>3. lostVault' \in BOOLEAN
  BY <1>1 DEF WindowOK
<1>4. WindowOK'
  BY <1>1, <1>2, <1>3, HandlerKeeps
<1>5. FilesOK'
  BY <1>1 DEF FilesOK, Vault0
<1> QED
  BY <1>4, <1>5

(* openVault, whether the file opens, does not, or needs a migration. *)
LEMMA OpenVaultKeeps ==
    ASSUME FilesOK, WindowOK, NEW v \in Vaults, NEW outcome, OpenVault(v, outcome)
    PROVE  FilesOK' /\ WindowOK'
<1> DEFINE l == OnVaultClosed(Closed, None, disk)
<1>1. Running /\ IsFile(v, disk) /\ v # None
  BY DEF OpenVault, FilesOK, IsFile
<1>2. /\ l \in ListsType /\ ~l.throws
      /\ Shows(l, None, disk, FALSE)
  <2>1. Closed \in ListsType /\ ~Closed.throws /\ None \in Vault0
    BY <1>1, ClosedLists DEF Vault0
  <2>2. l \in ListsType /\ ~l.throws
    BY <2>1, OnVaultClosedLists
  <2>3. \A lost \in BOOLEAN : Shows(OnVaultClosed(Closed, None, disk), None, disk, lost)
    BY <2>1, ClosedShows
  <2> QED
    BY <2>2, <2>3
<1>3. CASE outcome = "opens"
  <2>1. Opened(v, l, disk) /\ ShowVault(v) /\ migrating' = migrating /\ overtaken' = FALSE
    BY <1>3 DEF OpenVault
  <2> HIDE DEF l
  <2>2. WindowOK'
    BY <1>1, <1>2, <2>1, OpenedKeeps DEF IsFile
  <2>3. FilesOK'
    BY <1>1, <2>1 DEF Opened, ShowVault, FilesOK, Vault0
  <2> QED
    BY <2>2, <2>3
<1>4. CASE outcome # "opens"
  <2>1. /\ SetLists(l) /\ m_vault' = None /\ menu' = None /\ lostVault' = FALSE
        /\ migrating' \in {[of |-> v, done |-> FALSE], migrating}
        /\ disk' = disk /\ overtaken' = FALSE
    BY <1>4 DEF OpenVault
  <2> HIDE DEF l
  <2>2. WindowOK'
    BY <1>1, <1>2, <2>1, HandlerKeeps
  <2>3. FilesOK'
    <3>1. CASE migrating' = migrating
      <4>1. disk \in [Vaults -> {None} \union SUBSET Accounts] /\ None \in Vault0
        BY DEF FilesOK, Vault0
      <4> QED
        BY <2>1, <3>1, <4>1, FilesKept
    <3>2. CASE migrating' = [of |-> v, done |-> FALSE]
      <4>1. /\ migrating' \in [of : Vault0, done : BOOLEAN]
            /\ migrating'.of = v
        BY <1>1, <3>2 DEF Vault0
      <4>2. IsFile(migrating'.of, disk')
        BY <1>1, <2>1, <4>1 DEF IsFile
      <4> QED
        BY <2>1, <4>1, <4>2 DEF FilesOK, Vault0
    <3> QED
      BY <2>1, <3>1, <3>2
  <2> QED
    BY <2>2, <2>3
<1> QED
  BY <1>3, <1>4

-----------------------------------------------------------------------------
(* A handler that works on the vault that is open, or on none, and leaves   *)
(* the lists in order with the files d.                                     *)
LEMMA SlotKeeps ==
    ASSUME FilesOK, WindowOK, Running, NEW l, SetLists(l), NEW lost \in BOOLEAN,
           ~lost \/ lost = lostVault,
           Shows(l, m_vault, disk', lost),
           UNCHANGED <<m_vault, menu, lostVault, overtaken>>
    PROVE  WindowOK'
<1>1. /\ lostVault' \in BOOLEAN /\ overtaken' \in BOOLEAN
      /\ lostVault' => m_vault' = None
      /\ menu' # None /\ m_vault' = None => lostVault' \/ overtaken'
  BY DEF WindowOK
<1>2. Shows(l, m_vault', disk', lostVault')
  BY <1>1 DEF Shows
<1> QED
  BY <1>1, <1>2, HandlerKeeps

(* With a vault open the rows are its accounts. *)
LEMMA OpenVaultShown ==
    ASSUME FilesOK, WindowOK, Running, m_vault # None
    PROVE  /\ m_vault \in Vaults /\ disk[m_vault] \subseteq Accounts
           /\ ~lostVault /\ Shows(Lists, m_vault, disk, FALSE)
           /\ accountRows = [of |-> m_vault, names |-> disk[m_vault]]
<1>1. m_vault \in Vaults /\ disk[m_vault] \subseteq Accounts
  BY DEF FilesOK, IsFile
<1>2. ~lostVault /\ Shows(Lists, m_vault, disk, FALSE)
  BY DEF WindowOK
<1>3. Lists.rows = accountRows
  BY DEF Lists
<1> QED
  BY <1>1, <1>2, <1>3 DEF Shows, RowsOf

(* The handlers that refresh the lists: signals of the network, a change of *)
(* the unit, a renamed keychain, an imported transaction, an invoice.       *)
LEMMA RefreshKeeps ==
    ASSUME FilesOK, WindowOK, Running, disk' = disk,
           UNCHANGED <<m_vault, menu, lostVault, overtaken>>,
           \/ SetLists(RefreshAccounts(Lists, m_vault, disk))
           \/ SetLists(UpdateAccounts(Lists, m_vault, disk))
           \/ SetLists(UpdateTxs(UpdateAccounts(Lists, m_vault, disk)))
    PROVE  WindowOK'
<1>1. /\ Shows(Lists, m_vault, disk, lostVault) /\ lostVault \in BOOLEAN
      /\ m_vault \in Vault0 /\ (m_vault # None => disk[m_vault] \subseteq Accounts)
  BY DEF WindowOK, FilesOK, IsFile
<1>2. Shows(RefreshAccounts(Lists, m_vault, disk), m_vault, disk, FALSE)
  BY <1>1, RefreshAccountsShows
<1>3. Shows(UpdateAccounts(Lists, m_vault, disk), m_vault, disk, FALSE)
  <2>1. Lists \in ListsType /\ ~Lists.throws /\ Lists.keychains = m_vault
        /\ Lists.vault = m_vault
    BY <1>1 DEF Shows
  <2> QED
    BY <1>1, <2>1, UpdatedShows
<1>4. Shows(UpdateTxs(UpdateAccounts(Lists, m_vault, disk)), m_vault, disk, FALSE)
  BY <1>3, UpdateTxsKeepsShows
<1> QED
  BY <1>2, <1>3, <1>4, SlotKeeps

(* An account is added to the open vault and selected. *)
LEMMA AccountAddedKeeps ==
    ASSUME FilesOK, WindowOK, m_vault # None, NEW a \in Accounts, AccountAdded(a)
    PROVE  FilesOK' /\ WindowOK'
<1> DEFINE d == With(a)
           u == UpdateAccounts(Lists, m_vault, d)
<1>1. /\ Running /\ SetLists(SelectAccount(u, a, d)) /\ disk' = d
      /\ UNCHANGED <<m_vault, menu, migrating, lostVault, overtaken>>
  BY DEF AccountAdded, Slot
<1>2. /\ m_vault \in Vaults /\ disk[m_vault] \subseteq Accounts
      /\ Shows(Lists, m_vault, disk, FALSE)
  BY <1>1, OpenVaultShown
<1>3. /\ d \in [Vaults -> {None} \union SUBSET Accounts]
      /\ d[m_vault] = disk[m_vault] \union {a}
      /\ \A w \in Vaults : IsFile(w, disk) => IsFile(w, d)
  BY <1>2 DEF FilesOK, IsFile, With
<1> HIDE DEF d
<1>4. Shows(u, m_vault, d, FALSE) /\ u.rows = [of |-> m_vault, names |-> d[m_vault]]
  <2>1. Lists \in ListsType /\ ~Lists.throws /\ Lists.keychains = m_vault
        /\ Lists.vault = m_vault
    BY <1>2 DEF Shows
  <2>2. m_vault \in Vault0 /\ d[m_vault] \subseteq Accounts
    BY <1>2, <1>3 DEF Vault0
  <2>3. u.rows = RowsOf(m_vault, d)
    BY <2>1, <2>2, UpdateAccountsShows
  <2> QED
    BY <2>1, <2>2, <2>3, UpdatedShows DEF RowsOf
<1> HIDE DEF u
<1>5. Shows(SelectAccount(u, a, d), m_vault, d, FALSE)
  <2>1. d[m_vault] \subseteq Accounts /\ a \in d[m_vault]
    BY <1>2, <1>3
  <2>2. Shows(SelectRow(u, a, d), m_vault, d, FALSE)
    BY <1>2, <1>4, <2>1, SelectRowShows
  <2> QED
    BY <1>4, <2>1, <2>2 DEF SelectAccount
<1>6. WindowOK'
  BY <1>1, <1>5, SlotKeeps
<1>7. FilesOK'
  <2>1. menu \in Vault0
    BY DEF FilesOK
  <2> QED
    BY <1>1, <1>3, <2>1, FilesKept
<1> QED
  BY <1>6, <1>7

(* The user selects a row.  Without a vault the row is one that a lost      *)
(* vault left, and TxModel::setAccount throws.                              *)
LEMMA SelectByUserKeeps ==
    ASSUME FilesOK, WindowOK, NEW a \in Accounts, SelectByUser(a)
    PROVE  FilesOK' /\ WindowOK'
<1> DEFINE l == SelectRow(Lists, a, disk)
<1>1. /\ Running /\ SetLists(l) /\ disk' = disk /\ a \in accountRows.names
      /\ UNCHANGED <<m_vault, menu, migrating, lostVault, overtaken>>
  BY DEF SelectByUser, Handler, Slot
<1>2. FilesOK'
  BY <1>1 DEF FilesOK
<1>3. CASE m_vault # None
  <2>1. /\ m_vault \in Vaults /\ disk[m_vault] \subseteq Accounts
        /\ Shows(Lists, m_vault, disk, FALSE)
        /\ accountRows = [of |-> m_vault, names |-> disk[m_vault]]
    BY <1>1, <1>3, OpenVaultShown
  <2>2. a \in disk[m_vault]
    BY <1>1, <2>1
  <2>3. Shows(l, m_vault, disk, FALSE)
    BY <2>1, <2>2, SelectRowShows
  <2> HIDE DEF l
  <2> QED
    BY <1>1, <1>2, <2>3, SlotKeeps
<1>4. CASE m_vault = None
  <2>1. /\ Lists \in ListsType /\ Lists.vault = None /\ lostVault \in BOOLEAN
        /\ ~lostVault => Lists.rows = NoAccounts
    BY <1>1, <1>4 DEF WindowOK, Shows, RowsOf
  <2>2. lostVault
    BY <1>1, <2>1 DEF Lists, NoAccounts
  <2>3. l = [[Lists EXCEPT !.selected = a, !.name = a] EXCEPT !.throws = TRUE]
    BY <2>1 DEF SelectRow, SetAccount, ListsType
  <2>4. l \in ListsType /\ l.throws
    <3> HIDE DEF Lists
    <3> QED
      BY <2>1, <2>3 DEF ListsType, Account0
  <2> HIDE DEF l
  <2>5. Lists' \in ListsType /\ run' = "crashed"
    BY <1>1, <2>4, SetListsWrites
  <2>6. WindowOK'
    BY <1>1, <2>1, <2>2, <2>5 DEF WindowOK, Running
  <2> QED
    BY <1>2, <2>6
<1> QED
  BY <1>3, <1>4

(* AccountModel::setData: the row and the file get the new name. *)
LEMMA RenameAccountKeeps ==
    ASSUME FilesOK, WindowOK, NEW a \in Accounts, NEW b \in Accounts, RenameAccount(a, b)
    PROVE  FilesOK' /\ WindowOK'
<1> DEFINE names == (disk[m_vault] \ {a}) \union {b}
           d == [disk EXCEPT ![m_vault] = names]
           l == [Lists EXCEPT !.rows = [of |-> m_vault, names |-> names],
                              !.selected = IF @ = a THEN b ELSE @,
                              !.renamed = @ \/ selected = a]
<1>1. /\ Running /\ m_vault # None
      /\ UNCHANGED <<m_vault, menu, migrating, lostVault, overtaken>>
  BY DEF RenameAccount, Handler, Slot
<1>2. /\ m_vault \in Vaults /\ disk[m_vault] \subseteq Accounts
      /\ Shows(Lists, m_vault, disk, FALSE)
      /\ accountRows = [of |-> m_vault, names |-> disk[m_vault]]
  BY <1>1, OpenVaultShown
<1>3. Lists.rows = accountRows /\ Lists.selected = selected
  BY DEF Lists
<1>4. SetLists(l) /\ disk' = d
  <2>1. l = [Lists EXCEPT !.rows.names = (@ \ {a}) \union {b},
                          !.selected = IF @ = a THEN b ELSE @,
                          !.renamed = @ \/ selected = a]
    BY <1>2, <1>3 DEF Lists
  <2> QED
    BY <1>2, <2>1 DEF RenameAccount, Handler, Slot
<1>5. /\ d \in [Vaults -> {None} \union SUBSET Accounts]
      /\ d[m_vault] = names /\ names \subseteq Accounts
      /\ \A w \in Vaults : IsFile(w, disk) => IsFile(w, d)
  BY <1>2 DEF FilesOK, IsFile
<1>6. /\ Lists \in ListsType /\ ~Lists.throws /\ Lists.keychains = m_vault
      /\ Lists.vault = m_vault /\ Lists.combo.of = m_vault /\ Selection(Lists, m_vault)
  BY <1>1, <1>2 DEF Shows
<1>7. l \in ListsType
  <2> HIDE DEF Lists, names
  <2> QED
    BY <1>2, <1>5, <1>6 DEF ListsType, Rows, Vault0, Account0
<1>8. /\ l.throws = Lists.throws /\ l.keychains = Lists.keychains
      /\ l.vault = Lists.vault /\ l.combo = Lists.combo
      /\ l.rows = [of |-> m_vault, names |-> names]
      /\ l.selected = IF Lists.selected = a THEN b ELSE Lists.selected
      /\ l.name = Lists.name /\ l.account = Lists.account /\ l.txs = Lists.txs
      /\ l.renamed = (Lists.renamed \/ selected = a)
  <2> HIDE DEF Lists, names
  <2> QED
    BY <1>6 DEF ListsType
<1> HIDE DEF l, d
<1>9. Selection(l, m_vault)
  <2> SUFFICES ASSUME l.selected # None PROVE Selection(l, m_vault)
    BY DEF Selection
  <2>1. Lists.selected # None
    BY <1>8
  <2>2. Lists.selected \in disk[m_vault]
    BY <1>2, <1>3, <1>6, <2>1 DEF Selection
  <2>3. l.selected \in names
    BY <1>8, <2>2
  <2>4. /\ l.name # None /\ l.account = l.name
        /\ l.txs = [of |-> m_vault, account |-> l.name]
        /\ Lists.name = Lists.selected \/ Lists.renamed
    BY <1>6, <1>8, <2>1 DEF Selection
  <2>5. l.name = l.selected \/ l.renamed
    <3>1. CASE selected = a
      BY <1>8, <3>1
    <3>2. CASE selected # a
      BY <1>3, <1>8, <2>4, <3>2
    <3> QED
      BY <3>1, <3>2
  <2>6. l.selected \in l.rows.names
    BY <1>8, <2>3
  <2> QED
    BY <1>1, <2>4, <2>5, <2>6 DEF Selection
<1>10. Shows(l, m_vault, d, FALSE)
  BY <1>1, <1>5, <1>6, <1>7, <1>8, <1>9 DEF Shows, RowsOf
<1>11. WindowOK'
  BY <1>1, <1>4, <1>10, SlotKeeps
<1>12. FilesOK'
  <2>1. menu \in Vault0
    BY DEF FilesOK
  <2> QED
    BY <1>1, <1>4, <1>5, <2>1, FilesKept
<1> QED
  BY <1>11, <1>12

(* An invoice: AccountView::updateAll selects the row again that was        *)
(* selected.                                                                *)
LEMMA NewInvoiceKeeps ==
    ASSUME FilesOK, WindowOK, NEW a \in Accounts, NewInvoice(a)
    PROVE  FilesOK' /\ WindowOK'
<1> DEFINE u == UpdateAccounts(Lists, m_vault, disk)
<1>1. /\ Running /\ m_vault # None /\ disk' = disk
      /\ SetLists(UpdateAll(Lists, m_vault, disk))
      /\ UNCHANGED <<m_vault, menu, migrating, lostVault, overtaken>>
  BY DEF NewInvoice, Handler, Slot
<1>2. /\ m_vault \in Vaults /\ disk[m_vault] \subseteq Accounts
      /\ Shows(Lists, m_vault, disk, FALSE)
  BY <1>1, OpenVaultShown
<1>3. /\ Lists \in ListsType /\ ~Lists.throws /\ Lists.keychains = m_vault
      /\ Lists.vault = m_vault
      /\ Lists.selected # None => Lists.selected \in disk[m_vault]
  BY <1>1, <1>2 DEF Shows, Selection, RowsOf
<1>4. Shows(u, m_vault, disk, FALSE)
  BY <1>2, <1>3, UpdatedShows DEF Vault0
<1>5. UpdateAll(Lists, m_vault, disk) =
        IF Lists.selected = None THEN u ELSE SelectRow(u, Lists.selected, disk)
  BY DEF UpdateAll
<1> HIDE DEF u
<1>6. Lists.selected # None => Shows(SelectRow(u, Lists.selected, disk), m_vault, disk, FALSE)
  BY <1>2, <1>3, <1>4, SelectRowShows
<1>7. Shows(UpdateAll(Lists, m_vault, disk), m_vault, disk, FALSE)
  BY <1>4, <1>5, <1>6
<1>8. WindowOK'
  BY <1>1, <1>7, SlotKeeps
<1>9. FilesOK'
  BY <1>1 DEF FilesOK
<1> QED
  BY <1>8, <1>9

(* quickNewAccount throws outside of its try block, but only when its menu  *)
(* entry is enabled and there is no vault: after a lost one, or after a     *)
(* migrated one that was overtaken.                                         *)
LEMMA QuickNewAccountDialogKeeps ==
    ASSUME FilesOK, WindowOK, QuickNewAccountDialog
    PROVE  FilesOK' /\ WindowOK'
<1> DEFINE l == [Lists EXCEPT !.throws = m_vault = None]
<1>1. /\ Running /\ menu # None /\ SetLists(l)
      /\ UNCHANGED <<disk, m_vault, menu, migrating, lostVault, overtaken>>
  BY DEF QuickNewAccountDialog, AtWindow
<1>2. FilesOK'
  BY <1>1 DEF FilesOK
<1>3. Lists \in ListsType /\ ~Lists.throws /\ lostVault \in BOOLEAN
  BY <1>1 DEF WindowOK, Shows
<1>4. l \in ListsType /\ l.throws = (m_vault = None)
  <2> HIDE DEF Lists
  <2> QED
    BY <1>3 DEF ListsType
<1>5. CASE m_vault = None
  <2>1. lostVault \/ overtaken
    BY <1>1, <1>5 DEF WindowOK
  <2> HIDE DEF l
  <2>2. Lists' \in ListsType /\ run' = "crashed"
    BY <1>1, <1>4, <1>5, SetListsWrites
  <2>3. WindowOK'
    BY <1>1, <1>3, <2>1, <2>2 DEF WindowOK, Running
  <2> QED
    BY <1>2, <2>3
<1>6. CASE m_vault # None
  <2>1. l = Lists
    <3> HIDE DEF Lists
    <3> QED
      BY <1>3, <1>6 DEF ListsType
  <2>2. Shows(l, m_vault, disk, FALSE)
    BY <1>1, <1>6, <2>1, OpenVaultShown
  <2> HIDE DEF l
  <2>3. WindowOK'
    BY <1>1, <2>2, SlotKeeps
  <2> QED
    BY <1>2, <2>3
<1> QED
  BY <1>5, <1>6

(* processFile, from a command, from the command line or a dropped file. *)
LEMMA ProcessFileKeeps ==
    ASSUME FilesOK, WindowOK, ProcessFile
    PROVE  FilesOK' /\ WindowOK' /\ signals' = signals
<1>1. CASE \E v \in Vaults, o \in {"opens", "fails", "migrate"} : OpenVault(v, o)
  BY <1>1, OpenVaultKeeps DEF OpenVault
<1>2. CASE \E a \in Accounts : ImportAccount(a)
  BY <1>2, AccountAddedKeeps DEF ImportAccount, AccountAdded, Slot
<1> QED
  BY <1>1, <1>2 DEF ProcessFile

(* The menu, the lists and the message box. *)
LEMMA WindowKeeps ==
    ASSUME FilesOK, WindowOK, Window
    PROVE  FilesOK' /\ WindowOK'
<1>1. CASE \E v \in Vaults, ok \in BOOLEAN : NewVault(v, ok)
  BY <1>1, NewVaultKeeps
<1>2. CASE \E opens \in BOOLEAN : Migrate(opens)
  BY <1>2, MigrateKeeps
<1>3. CASE DeclineMigration
  <2>1. FilesOK'
    BY <1>3 DEF DeclineMigration, FilesOK, Vault0, NotMigrating
  <2>2. Lists' = Lists
    BY <1>3 DEF DeclineMigration, Lists, listVars
  <2>3. WindowOK'
    BY <1>3, <2>2 DEF DeclineMigration, WindowOK, Running
  <2> QED
    BY <2>1, <2>3
<1>4. CASE CloseVault \/ CloseBackupMade
  BY <1>4, CloseVaultKeeps, CloseBackupMadeKeeps
<1>5. CASE DropEvent
  BY <1>5, ProcessFileKeeps DEF DropEvent
<1>6. CASE \E a, b \in Accounts : RenameAccount(a, b)
  BY <1>6, RenameAccountKeeps
<1>7. CASE \E a \in Accounts : SelectByUser(a)
  BY <1>7, SelectByUserKeeps
<1>8. CASE \E a \in Accounts : NewInvoice(a)
  BY <1>8, NewInvoiceKeeps
<1>9. CASE KeychainRenamed \/ ImportTx \/ CurrencyUnitChanged
  <2>1. WindowOK'
    BY <1>9, RefreshKeeps DEF KeychainRenamed, ImportTx, CurrencyUnitChanged, Handler, Slot
  <2>2. FilesOK'
    BY <1>9 DEF KeychainRenamed, ImportTx, CurrencyUnitChanged, Handler, Slot, FilesOK
  <2> QED
    BY <2>1, <2>2
<1>10. CASE Quit
  <2>1. Lists' = Lists /\ run' = "quit"
    BY <1>10 DEF Quit, Lists, listVars
  <2>2. WindowOK'
    BY <1>10, <2>1 DEF Quit, WindowOK, Running
  <2>3. FilesOK'
    BY <1>10 DEF Quit, FilesOK, Vault0
  <2> QED
    BY <2>2, <2>3
<1> QED
  BY <1>1, <1>2, <1>3, <1>4, <1>5, <1>6, <1>7, <1>8, <1>9, <1>10 DEF Window

(* The handlers of the window leave the counters, but for Quit. *)
LEMMA WindowSignals ==
    ASSUME CountersOK, Window
    PROVE  signals' \in 0..MaxSignals
<1>0. signals \in 0..MaxSignals /\ 0 \in 0..MaxSignals
  BY DEF CountersOK
<1>1. CASE \/ \E v \in Vaults, ok \in BOOLEAN : NewVault(v, ok)
           \/ \E opens \in BOOLEAN : Migrate(opens)
           \/ DeclineMigration \/ CloseBackupMade \/ CloseVault
  BY <1>0, <1>1 DEF NewVault, Migrate, DeclineMigration, CloseBackupMade, CloseVault
<1>2. CASE DropEvent
  BY <1>0, <1>2 DEF DropEvent, ProcessFile, OpenVault, ImportAccount, AccountAdded, Slot
<1>3. CASE \/ \E a, b \in Accounts : RenameAccount(a, b)
           \/ \E a \in Accounts : SelectByUser(a) \/ NewInvoice(a)
           \/ KeychainRenamed \/ ImportTx \/ CurrencyUnitChanged
  BY <1>0, <1>3 DEF RenameAccount, SelectByUser, NewInvoice, KeychainRenamed, ImportTx,
                    CurrencyUnitChanged, Handler, Slot
<1>4. CASE Quit
  BY <1>0, <1>4 DEF Quit
<1> QED
  BY <1>1, <1>2, <1>3, <1>4 DEF Window

(* The dialogs for a new account: the number of signatures that is chosen   *)
(* is never more than there are keychains.                                  *)
LEMMA AccountDialogsKeep ==
    ASSUME Inv, AccountDialogs, UNCHANGED commands
    PROVE  FilesOK' /\ WindowOK' /\ CountersOK'
<1> DEFINE DialogType == [kind : {"none", "new", "quick"}, of : Vault0,
                          chosen : 0..MaxKeychains, minSigs : 0..MaxKeychains]
<1>0. FilesOK /\ WindowOK /\ CountersOK
  BY DEF Inv
<1>1. NoDialog \in DialogType /\ NoDialog.minSigs <= NoDialog.chosen
  BY DEF NoDialog, Vault0
<1>2. ASSUME NEW g \in DialogType, g.minSigs <= g.chosen, NEW c \in 0..MaxKeychains
      PROVE  UpdateMinSigs(g, c) \in DialogType
             /\ UpdateMinSigs(g, c).minSigs <= UpdateMinSigs(g, c).chosen
  <2> DEFINE m == IF g.minSigs = 0 /\ c > 0 THEN 1
                  ELSE IF g.minSigs > c THEN c ELSE g.minSigs
  <2>1. UpdateMinSigs(g, c) = [g EXCEPT !.chosen = c, !.minSigs = m]
    BY DEF UpdateMinSigs
  <2>2. m \in 0..MaxKeychains /\ m <= c
    BY <1>2
  <2> HIDE DEF m
  <2> QED
    BY <2>1, <2>2
<1>3. CASE \E n \in 0..MaxKeychains :
              NewAccountDialog(n) \/ UpdateSelection(n) \/ ChooseMinSigs(n)
  <2>1. PICK n \in 0..MaxKeychains :
            NewAccountDialog(n) \/ UpdateSelection(n) \/ ChooseMinSigs(n)
    BY <1>3
  <2>2. /\ UNCHANGED <<disk, m_vault, menu, migrating, listVars, run, lostVault, overtaken>>
        /\ UNCHANGED signals
    BY <2>1 DEF NewAccountDialog, UpdateSelection, ChooseMinSigs
  <2>3. newAccount' \in DialogType /\ newAccount'.minSigs <= newAccount'.chosen
    <3>1. CASE NewAccountDialog(n)
      <4> DEFINE g == [NoDialog EXCEPT !.kind = "new", !.of = keychainVault]
      <4>1. keychainVault \in Vault0
        <5>1. Lists \in ListsType
          BY <1>0 DEF WindowOK
        <5> QED
          BY <5>1 DEF Lists, ListsType
      <4>2. g \in DialogType /\ g.minSigs <= g.chosen
        BY <1>1, <4>1
      <4>3. newAccount' = UpdateMinSigs(g, n)
        BY <3>1 DEF NewAccountDialog
      <4> HIDE DEF g
      <4> QED
        BY <1>2, <4>2, <4>3
    <3>2. CASE UpdateSelection(n)
      BY <1>0, <1>2, <3>2 DEF UpdateSelection, CountersOK
    <3>3. CASE ChooseMinSigs(n)
      BY <1>0, <3>3 DEF ChooseMinSigs, CountersOK
    <3> QED
      BY <2>1, <3>1, <3>2, <3>3
  <2> QED
    BY <1>0, <2>2, <2>3, NothingTouched DEF CountersOK
<1>4. CASE QuickNewAccountDialog
  <2>1. newAccount' \in DialogType /\ newAccount'.minSigs <= newAccount'.chosen
    BY <1>0, <1>1, <1>4 DEF QuickNewAccountDialog, NoDialog, FilesOK
  <2> QED
    BY <1>0, <1>4, <2>1, QuickNewAccountDialogKeeps DEF QuickNewAccountDialog, CountersOK
<1>5. CASE CancelNewAccount
  <2>1. /\ UNCHANGED <<disk, m_vault, menu, migrating, listVars, run, lostVault, overtaken>>
        /\ UNCHANGED signals /\ newAccount' = NoDialog
    BY <1>5 DEF CancelNewAccount
  <2> QED
    BY <1>0, <1>1, <2>1, NothingTouched DEF CountersOK
<1>6. CASE \E a \in Accounts : QuickNewAccount(a) \/ \E found \in BOOLEAN : NewAccount(a, found)
  <2>1. PICK a \in Accounts : QuickNewAccount(a) \/ \E found \in BOOLEAN : NewAccount(a, found)
    BY <1>6
  <2>2. newAccount' = NoDialog
    BY <2>1 DEF QuickNewAccount, NewAccount
  <2>3. CASE m_vault # None /\ AccountAdded(a)
    BY <1>0, <1>1, <2>2, <2>3, AccountAddedKeeps DEF AccountAdded, Slot, CountersOK
  <2>4. CASE UNCHANGED <<disk, m_vault, menu, migrating, listVars, signals, run, lostVault, overtaken>>
    BY <1>0, <1>1, <2>2, <2>4, NothingTouched DEF CountersOK
  <2> QED
    BY <2>1, <2>3, <2>4 DEF QuickNewAccount, NewAccount
<1> QED
  BY <1>3, <1>4, <1>5, <1>6 DEF AccountDialogs

(* The next run of the program starts with empty lists. *)
LEMMA StartKeeps ==
    ASSUME Inv, Start
    PROVE  Inv'
<1>1. /\ Fresh /\ StartServer /\ run' = "running" /\ disk' = disk
  BY DEF Start
<1>2. FilesOK'
  BY <1>1 DEF Inv, FilesOK, Fresh, Vault0, NotMigrating
<1>3. Lists' = [keychains |-> None, vault |-> None, account |-> None, txs |-> NoTxs,
                rows |-> NoAccounts, selected |-> None, name |-> None,
                combo |-> NoAccounts, throws |-> FALSE, renamed |-> FALSE]
  BY <1>1 DEF Fresh, Lists
<1>4. Lists' \in ListsType
  BY <1>3 DEF ListsType, Rows, NoTxs, NoAccounts, Vault0, Account0
<1>5. Shows(Lists', None, disk', FALSE)
  BY <1>3, <1>4 DEF Shows, Selection, RowsOf
<1>6. WindowOK'
  BY <1>1, <1>4, <1>5 DEF Fresh, WindowOK
<1>7. CountersOK'
  BY <1>1 DEF Fresh, StartServer, CountersOK, NoDialog, Vault0
<1> QED
  BY <1>2, <1>6, <1>7 DEF Inv

-----------------------------------------------------------------------------
(* The program has not been started; there may be vault files. *)
LEMMA InitInv == Init => Inv
<1> SUFFICES ASSUME Init PROVE Inv
  OBVIOUS
<1>1. FilesOK
  BY DEF Init, FilesOK, Vault0, NotMigrating
<1>2. Lists = [keychains |-> None, vault |-> None, account |-> None, txs |-> NoTxs,
               rows |-> NoAccounts, selected |-> None, name |-> None,
               combo |-> NoAccounts, throws |-> FALSE, renamed |-> FALSE]
  BY DEF Init, Lists
<1>3. Lists \in ListsType
  BY <1>2 DEF ListsType, Rows, NoTxs, NoAccounts, Vault0, Account0
<1>4. WindowOK
  BY <1>3 DEF Init, WindowOK, Running
<1>5. CountersOK
  BY DEF Init, CountersOK, NoDialog, Vault0
<1> QED
  BY <1>1, <1>4, <1>5 DEF Inv

(* Every handler, signal, command, start and end of the program keeps the   *)
(* invariant.                                                               *)
LEMMA NextInv == Inv /\ [Next]_vars => Inv'
<1> SUFFICES ASSUME Inv, [Next]_vars PROVE Inv'
  OBVIOUS
<1>0. FilesOK /\ WindowOK /\ CountersOK
  BY DEF Inv
<1>1. CASE Window /\ UNCHANGED <<invoicing, newAccount, commands, ready>>
  BY <1>0, <1>1, WindowKeeps, WindowSignals DEF Inv, CountersOK
<1>2. CASE NetworkSignal /\ UNCHANGED <<invoicing, newAccount, commands, ready>>
  BY <1>0, <1>2, NothingTouched DEF NetworkSignal, Inv, CountersOK
<1>3. CASE DeliverSignal /\ UNCHANGED <<invoicing, newAccount, commands, ready>>
  <2>1. WindowOK'
    BY <1>0, <1>3, RefreshKeeps DEF DeliverSignal
  <2>2. FilesOK' /\ CountersOK'
    BY <1>0, <1>3 DEF DeliverSignal, FilesOK, CountersOK
  <2> QED
    BY <2>1, <2>2 DEF Inv
<1>4. CASE AccountDialogs /\ UNCHANGED <<invoicing, commands, ready>>
  BY <1>4, AccountDialogsKeep DEF Inv
<1>5. CASE ProcessArgs /\ UNCHANGED <<invoicing, newAccount, ready>>
  BY <1>0, <1>5, NothingTouched DEF ProcessArgs, Inv, CountersOK
<1>6. CASE HandleConnection /\ UNCHANGED <<invoicing, newAccount, ready>>
  <2>1. commands' \in 0..MaxCommands
    BY <1>0, <1>6 DEF HandleConnection, CountersOK
  <2>2. FilesOK' /\ WindowOK' /\ signals' = signals
    BY <1>0, <1>6, NothingTouched, ProcessFileKeeps DEF HandleConnection
  <2> QED
    BY <1>0, <1>6, <2>1, <2>2 DEF Inv, CountersOK
<1>7. CASE RequestPayment \/ CloseInvoices
  BY <1>0, <1>7, NothingTouched DEF RequestPayment, CloseInvoices, Inv, CountersOK
<1>8. CASE Start
  BY <1>8, StartKeeps
<1>9. CASE UiReady
  <2>1. FilesOK' /\ WindowOK' /\ signals' = signals
    BY <1>0, <1>9, NothingTouched, ProcessFileKeeps DEF UiReady
  <2> QED
    BY <1>0, <1>9, <2>1 DEF UiReady, Inv, CountersOK
<1>10. CASE UNCHANGED vars
  BY <1>0, <1>10, NothingTouched DEF vars, Inv, CountersOK
<1> QED
  BY <1>1, <1>2, <1>3, <1>4, <1>5, <1>6, <1>7, <1>8, <1>9, <1>10 DEF Next

(* The inductive invariant of the session. *)
THEOREM InvHolds == Spec => []Inv
BY InitInv, NextInv, PTL DEF Spec

(* The variables of the session have their types; a new account never asks  *)
(* for more signatures than it has keychains (updateMinSigs).               *)
THEOREM TypeCorrect == Spec => []TypeOK
<1>1. Inv => TypeOK
  <2> SUFFICES ASSUME Inv PROVE TypeOK
    OBVIOUS
  <2>1. Lists \in ListsType
    BY DEF Inv, WindowOK
  <2>2. /\ keychainVault \in Vault0 /\ txVault \in Vault0 /\ txAccount \in Account0
        /\ selected \in Account0 /\ selectedAccount \in Account0 /\ accountRows \in Rows
    BY <2>1 DEF Lists, ListsType
  <2>3. /\ \A v \in Vaults : disk[v] = None \/ disk[v] \subseteq Accounts
        /\ {m_vault, menu} \subseteq Vault0 /\ migrating \in [of : Vault0, done : BOOLEAN]
    BY DEF Inv, FilesOK
  <2>4. /\ signals \in 0..MaxSignals /\ commands \in 0..MaxCommands
        /\ newAccount.minSigs \in 0..newAccount.chosen
        /\ run \in {"running", "quit", "crashed"}
    BY DEF Inv, CountersOK, WindowOK
  <2> QED
    BY <2>2, <2>3, <2>4 DEF TypeOK, Vault0, Account0, Rows
<1> QED
  BY <1>1, InvHolds, PTL

(* KeychainModel and TxModel point to the vault SynchedVault has, or to     *)
(* none, whenever a slot can run.                                           *)
THEOREM NoDanglingVaultHolds == Spec => []NoDanglingVault
<1>1. Inv => NoDanglingVault
  BY DEF Inv, WindowOK, Shows, Lists, NoDanglingVault
<1> QED
  BY <1>1, InvHolds, PTL

(* AccountModel's rows are the accounts of the open vault, except after an  *)
(* opening that lost a vault; the invoices dialog offers those of the open  *)
(* one.                                                                     *)
THEOREM AccountRowsMirrorVaultHolds == Spec => []AccountRowsMirrorVault
<1>1. Inv => AccountRowsMirrorVault
  BY DEF Inv, WindowOK, Shows, Lists, RowsOf, AccountRowsMirrorVault
<1> QED
  BY <1>1, InvHolds, PTL

(* The transactions listed are those of the account that is selected. *)
THEOREM SelectionShowsItsTxsHolds == Spec => []SelectionShowsItsTxs
<1>1. Inv => SelectionShowsItsTxs
  BY DEF Inv, WindowOK, Shows, Selection, Lists, SelectionShowsItsTxs
<1> QED
  BY <1>1, InvHolds, PTL

(* No slot throws but after an opening that lost the vault it replaced, or  *)
(* a migration that a command overtook.                                     *)
THEOREM ThrowsOnlyAfterLostVaultHolds == Spec => []ThrowsOnlyAfterLostVault
<1>1. Inv => ThrowsOnlyAfterLostVault
  BY DEF Inv, WindowOK, ThrowsOnlyAfterLostVault
<1> QED
  BY <1>1, InvHolds, PTL

-----------------------------------------------------------------------------
(* The recent vaults.                                                       *)

(* A set of natural numbers that has 0, and n with n - 1, has all of them   *)
(* up to n.                                                                 *)
LEMMA Induction ==
    ASSUME NEW n \in Nat, NEW P, 0 \in P, \A k \in 1..n : k - 1 \in P => k \in P
    PROVE  \A k \in 0..n : k \in P
<1> DEFINE T == {k \in 0..n : k \notin P}
           R == OpToRel(<, Nat)
<1> SUFFICES ASSUME T # {} PROVE FALSE
  OBVIOUS
<1>0. T \subseteq Nat
  OBVIOUS
<1>1. IsWellFoundedOn(R, Nat)
  BY NatLessThanWellFounded
<1>a. \A x, y \in Nat : x < y => <<x, y>> \in R
  BY DEF OpToRel
<1> HIDE DEF R
<1>2. PICK x \in T : \A y \in T : ~ (<<y, x>> \in R)
  <2> HIDE DEF T
  <2> QED
    BY <1>0, <1>1, WFMin
<1>3. \A y \in T : ~ (y < x)
  BY <1>0, <1>a, <1>2
<1>4. x \in 1..n /\ x - 1 \in 0..n /\ x - 1 < x
  OBVIOUS
<1> QED
  BY <1>3, <1>4

(* Two functions that obey the same recursion up to n agree there. *)
LEMMA SameRecursion ==
    ASSUME NEW n \in Nat, NEW f, NEW g, f[0] = g[0],
           \A k \in 1..n : f[k - 1] = g[k - 1] => f[k] = g[k]
    PROVE  f[n] = g[n]
<1> DEFINE P == {k \in 0..n : f[k] = g[k]}
<1>1. 0 \in P /\ \A k \in 1..n : k - 1 \in P => k \in P
  OBVIOUS
<1> HIDE DEF P
<1>2. n \in P
  BY <1>1, Induction
<1> QED
  BY <1>2 DEF P

(* A list of vaults in which none is twice. *)
Distinct(s) == s \in Seq(Vaults) /\ IsInjective(s)

(* The entries of s without the one at place k. *)
Less(s, k, n) ==
    [i \in 1..(IF n < k THEN n ELSE n - 1) |-> IF i < k THEN s[i] ELSE s[i + 1]]

(* Removing a vault that is at place k closes the gap, and one that is not  *)
(* in the list changes nothing.                                             *)
LEMMA WithoutIs ==
    ASSUME NEW s, Distinct(s), NEW v
    PROVE  /\ (\A i \in 1..Len(s) : s[i] # v) => Without(s, v) = s
           /\ \A k \in 1..Len(s) : s[k] = v => Without(s, v) = Less(s, k, Len(s))
<1> DEFINE L == Len(s)
           Step(g) == [n \in 0..L |->
               IF n = 0 THEN <<>> ELSE IF s[n] = v THEN g[n - 1] ELSE Append(g[n - 1], s[n])]
           m == CHOOSE g : g = Step(g)
<1>1. s \in Seq(Vaults) /\ L \in Nat /\ Without(s, v) = m[L]
  BY DEF Distinct, Without
<1>2. ASSUME NEW g, g = Step(g) PROVE Without(s, v) = g[L]
  <2>1. m = Step(m)
    <3> HIDE DEF Step
    <3> QED
      BY <1>2
  <2> HIDE DEF m
  <2>2. \A k \in 0..L : /\ m[k] = Step(m)[k]
                        /\ g[k] = Step(g)[k]
    BY <1>2, <2>1
  <2>3. m[0] = g[0]
    BY <1>1, <2>2
  <2>4. \A k \in 1..L : m[k - 1] = g[k - 1] => m[k] = g[k]
    BY <1>1, <2>2
  <2> HIDE DEF L, Step
  <2> QED
    BY <1>1, <2>3, <2>4, SameRecursion
<1> HIDE DEF L, m
<1>3. ASSUME \A i \in 1..L : s[i] # v PROVE Without(s, v) = s
  <2> DEFINE g == [n \in 0..L |-> [i \in 1..n |-> s[i]]]
  <2>1. ASSUME NEW n \in 1..L PROVE g[n] = Append(g[n - 1], s[n])
    <3>1. /\ g[n] = [i \in 1..n |-> s[i]] /\ g[n - 1] = [i \in 1..(n - 1) |-> s[i]]
          /\ \A i \in 1..n : s[i] \in Vaults
      BY <1>1, <2>1 DEF L
    <3>2. g[n - 1] \in Seq(Vaults) /\ Len(g[n - 1]) = n - 1 /\ s[n] \in Vaults
      BY <3>1, <1>1
    <3> HIDE DEF g
    <3>3. Append(g[n - 1], s[n]) = [i \in 1..n |-> IF i = n THEN s[n] ELSE g[n - 1][i]]
      BY <3>2
    <3> QED
      BY <3>1, <3>3
  <2>2. g[0] = <<>>
    BY <1>1
  <2>3. \A n \in 0..L : g[n] = Step(g)[n]
    BY <1>1, <1>3, <2>1, <2>2
  <2>4. g = Step(g)
    BY <2>3
  <2>5. g[L] = s
    BY <1>1 DEF L
  <2> HIDE DEF g, Step
  <2> QED
    BY <1>2, <2>4, <2>5
<1>4. ASSUME NEW k \in 1..L, s[k] = v PROVE Without(s, v) = Less(s, k, L)
  <2> DEFINE g == [n \in 0..L |-> Less(s, k, n)]
  <2>0. \A i \in 1..L : s[i] = v => i = k
    BY <1>1, <1>4 DEF Distinct, IsInjective, L
  <2>1. ASSUME NEW n \in 1..L, n # k PROVE g[n] = Append(g[n - 1], s[n])
    <3> DEFINE l == IF n - 1 < k THEN n - 1 ELSE (n - 1) - 1
    <3>1. /\ g[n] = Less(s, k, n) /\ g[n - 1] = Less(s, k, n - 1)
          /\ n - 1 \in 0..L
      BY <1>1, <2>1
    <3>2. /\ g[n - 1] = [i \in 1..l |-> IF i < k THEN s[i] ELSE s[i + 1]]
          /\ g[n] = [i \in 1..(l + 1) |-> IF i < k THEN s[i] ELSE s[i + 1]]
          /\ l \in Nat
      <4>1. /\ l \in Nat /\ (IF n < k THEN n ELSE n - 1) = l + 1
            /\ (IF n - 1 < k THEN n - 1 ELSE (n - 1) - 1) = l
        BY <1>1, <2>1
      <4> HIDE DEF l
      <4> QED
        BY <3>1, <4>1 DEF Less
    <3>3. \A i \in 1..(l + 1) : (IF i < k THEN s[i] ELSE s[i + 1]) \in Vaults
      BY <1>1, <2>1 DEF L
    <3>4. (IF l + 1 < k THEN s[l + 1] ELSE s[(l + 1) + 1]) = s[n]
      BY <1>1, <2>1
    <3> HIDE DEF g, l
    <3>5. g[n - 1] \in Seq(Vaults) /\ Len(g[n - 1]) = l
      BY <3>2, <3>3
    <3>6. Append(g[n - 1], s[n])
            = [i \in 1..(l + 1) |-> IF i = l + 1 THEN s[n] ELSE g[n - 1][i]]
      BY <3>5
    <3>7. \A i \in 1..(l + 1) : (IF i = l + 1 THEN s[n] ELSE g[n - 1][i])
                                  = IF i < k THEN s[i] ELSE s[i + 1]
      BY <3>2, <3>4
    <3> QED
      BY <3>2, <3>6, <3>7
  <2>2. g[0] = <<>>
    BY <1>1 DEF Less
  <2>3. g[k] = g[k - 1]
    <3>1. /\ k \in 0..L /\ k - 1 \in 0..L
          /\ (IF k < k THEN k ELSE k - 1) = k - 1
          /\ (IF k - 1 < k THEN k - 1 ELSE (k - 1) - 1) = k - 1
      BY <1>1
    <3>2. Less(s, k, k) = Less(s, k, k - 1)
      BY <3>1 DEF Less
    <3> QED
      BY <3>1, <3>2
  <2>4. \A n \in 0..L : g[n] = Step(g)[n]
    <3> HIDE DEF g
    <3>1. ASSUME NEW n \in 0..L PROVE g[n] = Step(g)[n]
      <4>1. n = 0 \/ n \in 1..L
        BY <1>1
      <4>2. CASE n = 0
        BY <2>2, <4>2
      <4>3. CASE n \in 1..L /\ n = k
        BY <1>4, <2>3, <4>3
      <4>4. CASE n \in 1..L /\ n # k
        <5>1. n # 0 /\ s[n] # v /\ g[n] = Append(g[n - 1], s[n])
          BY <2>0, <2>1, <4>4
        <5>2. Step(g)[n] = IF n = 0 THEN <<>>
                           ELSE IF s[n] = v THEN g[n - 1] ELSE Append(g[n - 1], s[n])
          OBVIOUS
        <5> HIDE DEF Step
        <5> QED
          BY <5>1, <5>2, Zenon
      <4> QED
        BY <4>1, <4>2, <4>3, <4>4
    <3> QED
      BY <3>1
  <2>5. g = Step(g)
    BY <2>4
  <2>6. g[L] = Less(s, k, L)
    BY <1>1
  <2> HIDE DEF g, Step
  <2> QED
    BY <1>2, <2>5, <2>6
<1> QED
  BY <1>3, <1>4 DEF L

(* So the list is distinct without the vault. *)
LEMMA WithoutDistinct ==
    ASSUME NEW s, Distinct(s), NEW v
    PROVE  /\ Distinct(Without(s, v))
           /\ \A i \in 1..Len(Without(s, v)) : Without(s, v)[i] # v
<1>0. s \in Seq(Vaults) /\ \A i, j \in 1..Len(s) : s[i] = s[j] => i = j
  BY DEF Distinct, IsInjective
<1>1. CASE \A i \in 1..Len(s) : s[i] # v
  BY <1>1, WithoutIs
<1>2. ASSUME NEW k \in 1..Len(s), s[k] = v
      PROVE  /\ Distinct(Without(s, v))
             /\ \A i \in 1..Len(Without(s, v)) : Without(s, v)[i] # v
  <2> DEFINE l == Len(s) - 1
             r == [i \in 1..l |-> IF i < k THEN s[i] ELSE s[i + 1]]
  <2>1. Without(s, v) = Less(s, k, Len(s))
    BY <1>2, WithoutIs
  <2>2. l \in Nat /\ Less(s, k, Len(s)) = r
    BY <1>0, <1>2 DEF Less
  <2>3. r \in Seq(Vaults) /\ Len(r) = l /\ DOMAIN r = 1..l
    BY <1>0, <2>2
  <2>4. \A i \in 1..l : r[i] # v
    BY <1>0, <1>2, <2>2
  <2>5. \A i, j \in 1..l : r[i] = r[j] => i = j
    BY <1>0, <1>2, <2>2
  <2> HIDE DEF r, l
  <2> QED
    BY <2>1, <2>2, <2>3, <2>4, <2>5 DEF Distinct, IsInjective
<1> QED
  BY <1>1, <1>2

(* addToRecents puts the vault at the head, once. *)
LEMMA AddToRecentsHead ==
    ASSUME Distinct(recents), NEW v \in Vaults, AddToRecents(v)
    PROVE  Distinct(recents') /\ Len(recents') <= MAX_RECENTS /\ recents'[1] = v
<1> DEFINE w == Without(recents, v)
           r == <<v>> \o w
           l == IF Len(r) > MAX_RECENTS THEN MAX_RECENTS ELSE Len(r)
<1>1. /\ w \in Seq(Vaults) /\ \A i, j \in 1..Len(w) : w[i] = w[j] => i = j
      /\ \A i \in 1..Len(w) : w[i] # v
  BY WithoutDistinct DEF Distinct, IsInjective
<1>2. recents' = SubSeq(r, 1, l)
  BY DEF AddToRecents
<1> HIDE DEF w
<1>3. /\ r \in Seq(Vaults) /\ Len(r) = Len(w) + 1 /\ r[1] = v
      /\ \A i \in 2..Len(r) : r[i] = w[i - 1]
  BY <1>1
<1> HIDE DEF r
<1>4. l \in 1..Len(r) /\ l <= MAX_RECENTS
  BY <1>1, <1>3
<1> HIDE DEF l
<1>5. /\ recents' \in Seq(Vaults) /\ Len(recents') = l /\ DOMAIN recents' = 1..l
      /\ \A i \in 1..l : recents'[i] = r[i]
  BY <1>2, <1>3, <1>4
<1>6. \A i, j \in 1..l : r[i] = r[j] => i = j
  <2>1. \A i, j \in 1..l : /\ i = 1 \/ (i \in 2..Len(r) /\ i - 1 \in 1..Len(w))
                           /\ j = 1 \/ (j \in 2..Len(r) /\ j - 1 \in 1..Len(w))
    BY <1>1, <1>3, <1>4
  <2>2. ASSUME NEW i \in 1..l, NEW j \in 1..l, r[i] = r[j] PROVE i = j
    <3>1. CASE i = 1
      BY <1>1, <1>3, <2>1, <2>2, <3>1
    <3>2. CASE j = 1
      BY <1>1, <1>3, <2>1, <2>2, <3>2
    <3>3. CASE i # 1 /\ j # 1
      <4>1. w[i - 1] = w[j - 1] /\ i - 1 \in 1..Len(w) /\ j - 1 \in 1..Len(w)
        BY <1>3, <2>1, <2>2, <3>3
      <4>2. i - 1 = j - 1
        BY <1>1, <4>1
      <4> QED
        BY <4>2
    <3> QED
      BY <3>1, <3>2, <3>3
  <2> QED
    BY <2>2
<1> QED
  BY <1>3, <1>4, <1>5, <1>6 DEF Distinct, IsInjective

(* loadRecents reads back a list that is distinct and not too long as it    *)
(* was saved.                                                               *)
LEMMA LoadRecentsIs ==
    ASSUME Distinct(recents), Len(recents) <= MAX_RECENTS
    PROVE  LoadRecents = recents
<1> DEFINE L == Len(recents)
           Skips(r, n) == Len(r) > MAX_RECENTS \/ \E i \in 1..Len(r) : r[i] = recents[n]
           Step(g) == [n \in 0..L |->
               IF n = 0 THEN <<>>
               ELSE IF Skips(g[n - 1], n) THEN g[n - 1] ELSE Append(g[n - 1], recents[n])]
           m == CHOOSE g : g = Step(g)
           g == [n \in 0..L |-> [i \in 1..n |-> recents[i]]]
<1>1. /\ recents \in Seq(Vaults) /\ L \in Nat /\ L <= MAX_RECENTS
      /\ \A i, j \in 1..L : recents[i] = recents[j] => i = j
  BY DEF Distinct, IsInjective
<1>2. LoadRecents = m[L]
  BY DEF LoadRecents
<1>3. ASSUME NEW n \in 1..L
      PROVE  ~Skips(g[n - 1], n) /\ g[n] = Append(g[n - 1], recents[n])
  <2>1. /\ g[n] = [i \in 1..n |-> recents[i]]
        /\ g[n - 1] = [i \in 1..(n - 1) |-> recents[i]]
        /\ \A i \in 1..n : recents[i] \in Vaults /\ (i < n => recents[i] # recents[n])
    BY <1>1, <1>3
  <2> HIDE DEF g
  <2>2. g[n - 1] \in Seq(Vaults) /\ Len(g[n - 1]) = n - 1 /\ recents[n] \in Vaults
    BY <1>1, <2>1
  <2>3. Append(g[n - 1], recents[n])
          = [i \in 1..n |-> IF i = n THEN recents[n] ELSE g[n - 1][i]]
    BY <2>2
  <2>4. g[n] = Append(g[n - 1], recents[n])
    BY <2>1, <2>3
  <2>5. ~Skips(g[n - 1], n)
    BY <1>1, <2>1, <2>2
  <2> QED
    BY <2>4, <2>5
<1>4. g[0] = <<>> /\ g[L] = recents
  BY <1>1
<1>5. g = Step(g)
  <2>1. \A n \in 0..L : g[n] = Step(g)[n]
    <3> HIDE DEF g, Skips
    <3>1. ASSUME NEW n \in 0..L PROVE g[n] = Step(g)[n]
      <4>1. n = 0 \/ n \in 1..L
        BY <1>1
      <4>2. CASE n = 0
        BY <1>4, <4>2
      <4>3. CASE n \in 1..L
        <5>1. n # 0 /\ ~Skips(g[n - 1], n) /\ g[n] = Append(g[n - 1], recents[n])
          BY <1>3, <4>3
        <5>2. Step(g)[n] = IF n = 0 THEN <<>>
                           ELSE IF Skips(g[n - 1], n) THEN g[n - 1]
                           ELSE Append(g[n - 1], recents[n])
          OBVIOUS
        <5> HIDE DEF Step
        <5> QED
          BY <5>1, <5>2, Zenon
      <4> QED
        BY <4>1, <4>2, <4>3
    <3> QED
      BY <3>1
  <2> QED
    BY <2>1
<1>6. m = Step(m)
  <2> HIDE DEF Step, g
  <2> QED
    BY <1>5
<1> HIDE DEF m, g, Skips
<1>7. \A k \in 0..L : m[k] = Step(m)[k] /\ g[k] = Step(g)[k]
  BY <1>5, <1>6
<1>8. m[0] = g[0] /\ \A k \in 1..L : m[k - 1] = g[k - 1] => m[k] = g[k]
  BY <1>1, <1>7
<1> HIDE DEF L, Step
<1>9. m[L] = g[L]
  BY <1>1, <1>8, SameRecursion
<1> QED
  BY <1>2, <1>4, <1>9

RecentsOK == Distinct(recents) /\ RecentsHeadIsOpenVault

(* The open vault is one that addToRecents has been called for. *)
Added ==
    m_vault # None /\ migrating # [of |-> m_vault, done |-> TRUE] /\ ~overtaken

(* A step opens a vault, starts the program, or leaves the list as it is    *)
(* and the vault that is at its head open at most.                          *)
Opens == \E v \in Vaults : AddToRecents(v) /\ (m_vault' = v \/ overtaken')

Keeps == recents' = recents /\ (Added' => Added /\ m_vault' = m_vault)

(* Each way of opening a vault puts it at the head of the list. *)
LEMMA OpensOrKeeps == Inv /\ [Next]_vars /\ ~Start => Opens \/ Keeps
<1> SUFFICES ASSUME Inv, [Next]_vars, ~Start PROVE Opens \/ Keeps
  OBVIOUS
<1> USE DEF Added
<1>1. ASSUME NEW v \in Vaults, NEW l, NEW d, Opened(v, l, d), ShowVault(v) PROVE Opens
  BY <1>1 DEF Opened, ShowVault, Opens
<1>2. ASSUME NEW v \in Vaults, NEW ok \in BOOLEAN, NewVault(v, ok) PROVE Opens \/ Keeps
  BY <1>1, <1>2 DEF NewVault, Keeps
<1>3. ASSUME NEW opens \in BOOLEAN, Migrate(opens) PROVE Opens \/ Keeps
  <2>1. CASE opens
    <3>1. recents' = recents /\ m_vault' = migrating.of
          /\ migrating' = [of |-> migrating.of, done |-> TRUE]
      BY <1>3, <2>1 DEF Migrate, Opened
    <3> QED
      BY <3>1 DEF Keeps
  <2>2. CASE ~opens
    BY <1>3, <2>2 DEF Migrate, Keeps
  <2> QED
    BY <2>1, <2>2
<1>10. ASSUME CloseBackupMade PROVE Opens
  <2>1. migrating.of \in Vaults
    BY <1>10 DEF CloseBackupMade, Inv, FilesOK, IsFile, NotMigrating
  <2> QED
    BY <1>10, <2>1 DEF CloseBackupMade, ShowVault, Opens
<1>4. ASSUME ProcessFile PROVE Opens \/ Keeps
  <2>1. CASE \E v \in Vaults, o \in {"opens", "fails", "migrate"} : OpenVault(v, o)
    BY <1>1, <2>1 DEF OpenVault, Keeps
  <2>2. CASE \E a \in Accounts : ImportAccount(a)
    BY <2>2 DEF ImportAccount, AccountAdded, Slot, Keeps
  <2> QED
    BY <1>4, <2>1, <2>2 DEF ProcessFile
<1>5. ASSUME Window PROVE Opens \/ Keeps
  <2>1. CASE DeclineMigration \/ CloseVault \/ Quit
    BY <2>1 DEF DeclineMigration, Asks, CloseVault, Quit, Keeps
  <2>2. CASE \/ \E a, b \in Accounts : RenameAccount(a, b)
             \/ \E a \in Accounts : SelectByUser(a) \/ NewInvoice(a)
             \/ KeychainRenamed \/ ImportTx \/ CurrencyUnitChanged
    BY <2>2 DEF RenameAccount, SelectByUser, NewInvoice, KeychainRenamed, ImportTx,
                CurrencyUnitChanged, Handler, Slot, Keeps
  <2> QED
    BY <1>2, <1>3, <1>4, <1>5, <1>10, <2>1, <2>2 DEF Window, DropEvent
<1>6. ASSUME AccountDialogs PROVE Keeps
  BY <1>6 DEF AccountDialogs, NewAccountDialog, UpdateSelection, ChooseMinSigs,
              QuickNewAccountDialog, CancelNewAccount, QuickNewAccount, NewAccount,
              AccountAdded, Slot, Keeps
<1>7. ASSUME NetworkSignal \/ DeliverSignal \/ ProcessArgs \/ RequestPayment \/ CloseInvoices
      PROVE  Keeps
  BY <1>7 DEF NetworkSignal, DeliverSignal, ProcessArgs, RequestPayment, CloseInvoices, Keeps
<1>8. ASSUME HandleConnection \/ UiReady PROVE Opens \/ Keeps
  BY <1>4, <1>8 DEF HandleConnection, UiReady, Keeps
<1>9. CASE UNCHANGED vars
  BY <1>9 DEF vars, Keeps
<1> QED
  BY <1>5, <1>6, <1>7, <1>8, <1>9 DEF Next

(* The recent vaults have no duplicates, at most MAX_RECENTS, and the open  *)
(* vault first, also after restarts (addToRecents, loadRecents), but for a  *)
(* migrated vault whose openVault has not gone on, or was overtaken.        *)
THEOREM RecentsHold == Spec => []RecentsHeadIsOpenVault
<1>1. Init => RecentsOK
  BY DEF Init, RecentsOK, RecentsHeadIsOpenVault, Distinct, IsInjective
<1>2. Inv /\ RecentsOK /\ [Next]_vars => RecentsOK'
  <2> SUFFICES ASSUME Inv, RecentsOK, [Next]_vars PROVE RecentsOK'
    OBVIOUS
  <2>0. Distinct(recents) /\ Len(recents) <= MAX_RECENTS /\ None \notin Vaults
        /\ (Added => recents[1] = m_vault)
    BY DEF RecentsOK, RecentsHeadIsOpenVault, Added
  <2>1. CASE Opens
    <3>1. PICK v \in Vaults : AddToRecents(v) /\ (m_vault' = v \/ overtaken')
      BY <2>1 DEF Opens
    <3>2. Distinct(recents') /\ Len(recents') <= MAX_RECENTS /\ recents'[1] = v
      BY <2>0, <3>1, AddToRecentsHead
    <3> QED
      BY <3>1, <3>2 DEF RecentsOK, RecentsHeadIsOpenVault, Distinct
  <2>2. CASE Keeps
    BY <2>0, <2>2 DEF Keeps, Added, RecentsOK, RecentsHeadIsOpenVault, Distinct
  <2>3. CASE Start
    <3>1. recents' = recents /\ m_vault' = None
      BY <2>0, <2>3, LoadRecentsIs DEF Start, Fresh
    <3> QED
      BY <2>0, <3>1 DEF RecentsOK, RecentsHeadIsOpenVault, Distinct
  <2> QED
    BY <2>1, <2>2, <2>3, OpensOrKeeps
<1>3. RecentsOK => RecentsHeadIsOpenVault
  BY DEF RecentsOK
<1> QED
  BY <1>1, <1>2, <1>3, InvHolds, PTL DEF Spec
=============================================================================
