# A TLA+ verification of mSIGNA

mSIGNA is a multisignature bitcoin wallet.  It follows the block chain as a light client: one
peer sends it block headers, and then, through a bloom filter, merkle blocks with the transactions
of its accounts, which it stores in a database, the *vault*.  A Qt program shows the vault in lists
and lets the user create, sign, exchange and send transactions.  This directory models both halves,
the synchronisation core and the wallet that the user operates, checks them with TLC on small
instances, and proves with TLAPS, for every value of the constants, most of the safety properties
that the runs check, and that the tree of headers implements its abstract specification.

## 1. Inventory

| Component | State | Operations | What makes it hard |
|---|---|---|---|
| Block tree, `deps/CoinQ/src/CoinQ_blocks.{h,cpp}` | headers by hash, children, height, work, best-chain flags, headers by height, `pHead` | `setGenesisBlock`, `insertHeader` (with `setBestChain`, `unsetBestChain`), `clear`, queries, `deleteHeader` (no caller) | flags and the height index are changed by three pointer loops; one of them has no exit but the invariant |
| Block tree file and flush thread, `CoinQ_blocks.cpp`, `CoinQ_netsync.cpp` | the file, its swap file, `bFlushed`, `m_bFlushingToFile` | `loadFromFile`, `flushToFile`, `loadHeaders`, `fileFlushLoop` | crashes between steps, wake-ups, unsigned arithmetic at a chunk boundary |
| Peer, `CoinQ_peer_io.{h,cpp}` | running/handshake/write flags, send queue, pending asynchronous operations | `start`, `stop`, `send`, the handlers of resolve, connect, read, write and timer | handlers that outlive the connection they belong to |
| Network sync, `CoinQ_netsync.{h,cpp}` | last requested and last synched block, mempool hashes, queue of transactions still expected, flags | one handler per message, `syncBlocks`, `stopSynchingBlocks`, `start`, `stop` | answers that arrive after the chain has moved, transactions that are not sent twice, restarts |
| Synched vault, `deps/CoinDB/src/SynchedVault.cpp` | the open vault, `m_bInsertMerkleBlocks`, status | `openVault`, `closeVault`, `startSync`, `stopSync`, callbacks of network sync, `sendTx` | vaults change on a live connection; two mutexes are taken in both orders |
| Vault, `deps/CoinDB/src/Vault.cpp`, `Schema.cpp` | merkle blocks, transactions, accounts, signing scripts, keychains | `insertMerkleTx`, `confirmMerkleTx`, `insertMerkleBlock`, `insertTx`, `createTx`, `signTx`, keychain locking... | reorganisations, three versions of the same push-off, partial signatures, unlock keys stored by name |
| Keychain tab, `src/mainwindow.cpp`, `src/keychainmodel.cpp` and its dialogs | the rows, enabled actions, the dialog that is up | create, import, export, view, back up, lock, unlock, rename, change passphrase | what was read before a modal dialog is used after it; every way out must relock |
| Vault session, `src/mainwindow.cpp`, `src/accountmodel.cpp`, `src/commandserver.cpp`, `src/main.cpp`... | the open vault and three lists that show it, the selected account, recent files, queued signals, waiting commands | create, open, migrate, close, accounts, invoices, commands of a second instance, quit and start | raw pointers to a vault that is replaced; refreshes delivered late; openings that fail half way |
| Transactions and signatures, `src/txmodel.cpp`, `src/txactions.cpp`, `src/signature*.cpp`, `src/entropysource.cpp` | sorted rows, current row, enabled actions, signature list, entropy thread, connection state | create, sign, add a signature, import, insert, send, delete | the network changes the vault while a dialog is up; event loops inside handlers |
| Amounts, `src/coinparams.cpp`, `src/currencyvalidator.cpp`, `src/numberformats.cpp`, `src/paymentrequest.cpp` | currency unit in use, in the window and in the settings; a field's text | format, validate, parse, choose a unit | three representations of one number |
| Merkle trees, bloom filters, scripts, keys, serialisation, `deps/CoinCore/src`, `CoinQ_script.cpp`... | none | pure functions | byte formats and cryptography |
| `vaultd`, command-line tools | none of their own | one call of the above per command | - |

How they interact: `NetworkSync` owns the block tree and the peer and subscribes to the peer's
signals; the handlers run one at a time on the thread of its `io_service`.  A second thread flushes
the tree to its file under `m_fileFlushMutex`.  `SynchedVault` subscribes to `NetworkSync`'s signals
(new transaction, merkle transaction, confirmation, merkle block) and calls the vault from them; the
vault's `TxUpdated` signal leads back to `NetworkSync::addToMempool`.  The user's thread opens and
closes vaults and starts and stops the synchronisation.  The window subscribes to `SynchedVault`;
its callbacks run on the network's thread and only queue Qt signals (`newTx`, `newBlock`, status
changes), which the user's thread delivers whenever it runs an event loop: at the window, in a modal
dialog, or in `seedEntropySource`'s loop.

What makes each part correct: the tree always offers one best chain, the one with the most work,
and an exact index of it; the file can always be loaded again and loses no work; a connection writes
its own messages, in order, and opens; the queue of expected transactions is the rest of the current
block; "synched" means that the vault has every block and every transaction, and the sync reaches
the tip; keys stay sealed, are never lost and are shown only when unlocked; the lists show the vault
that is open and the account that is selected; what is sent has its signatures, and what is deleted
is what the user was asked about; the amount shown is the amount paid.

`PROJECT.json` lists the hazards, each at the line where it bites.

## 2. Modules

* **BlockTree** - `CoinQBlockTreeMem`.  The variables are the class's members, plus `pc`, `header`,
  `pParent` and `newBestChain`, the program counter and locals of `setBestChain`/`unsetBestChain`.
  Every iteration of the three loops is a step (`Retrace`; `UnsetFirst`, `UnsetNext`, `UnsetDone`;
  `SetNext`, `SetDone`), so that "the loop ends" is a question one can ask.  Work is a positive
  natural number, the proof-of-work check a set of headers.
* **Headers** - headers, their links and work, and what follows from these alone: the total work and
  the ancestors of a header, by one recursive function.
* **HeaderTree** - the abstract specification: a set of headers, a tip that moves to a header with
  more work (or as much, if asked), and the set of its ancestors, both computed as in Headers.
* **BlockTreeInv** - the inductive invariant of BlockTree.  **BlockTreeProofs** - its proof and the
  theorems.  **BlockTreeRefinement** - the mapping of BlockTree to HeaderTree.
  **BlockTreeRefinementProofs** - that BlockTree implements it.  **MCBlockTree** - the instance.
* **HeaderFile** - extends BlockTree with the file, the loader, the flush thread and the process's
  death.  The mutex is modelled by the two states in which it is held.  The file and its swap file are
  sequences of whole records and whether a part of one follows (`tornFile`, `tornSwp`); `ChunkRecords`
  stands for the 64 records of one read.  The disk fails up to `MaxErrors` times: a file that does not
  open, a write or rename that throws, a last buffer that is not written.  `flushToFile` only looks at
  `fs.bad()`, so a swap file that was not opened (`FlushUnopened`) or not completed (`FlushRenameCut`) is
  renamed all the same; `stray` is history: that has happened, or the start has given the file up, since
  the file was last loaded or written properly.  **MCHeaderFile** - its instance; **HeaderFileProofs** -
  its theorems.
* **Peer** - the one socket, and everything that outlives a connection.  An asynchronous operation is
  pending, completed or gone; closing the socket aborts what is pending and leaves what has completed; the
  handler of a completed operation runs later and looks at `bRunning` as it is then, and at nothing else:
  a write begun by an old handler goes to whatever `socket_` is by then, and waits for it while it is
  connecting.  What is posted to the strand (`do_connect`, `do_write`) is a queue of its own.  Messages
  carry the number of the `start` in force when they were queued.  All reads share one buffer, so that two
  of them spoil each other's message.  `overlap` is history: when `do_connect` last ran, a handler of an
  earlier connection was still due, or the peer was already open.  The node at the other end is external:
  it answers a version message with version and verack, and may ping.  Undefined behaviour (`pop()` on an
  empty queue) ends the behaviour in the state `crashed`.  **PeerProofs** - its theorems.
* **NetSync** - the handlers of `NetworkSync`, the callbacks of `SynchedVault` and what they do to the
  vault.  The block tree appears as the pair (`tree`, `tip`) of HeaderTree.  The vault is a record: the
  table of its merkle blocks, those of them that are complete (`txsinserted`), and the block confirming
  each of its transactions (`NoBlock` if none).  `Cut`, `PushOff`, `Attach`, `Confirm`, `Complete` are
  the parts that `insertMerkleTx`, `confirmMerkleTx` and `insertMerkleBlock` are made of.  The peer is
  external: it answers requests in order and, if `SkipsKnown`, does not repeat after a merkle block a
  transaction that it has sent on the same connection, as bitcoin nodes do; its `mempool` answer is
  covered by its freedom to announce transactions at any time.  The filter matches `Ours` throughout.
  Opening a vault replaces one that is open without touching the sync, closing it stops the sync first,
  and an opening that fails leaves the sync on and no vault.  The peer's headers always connect to the
  tree (an invariant that is proved), so the branch that logs a header without parent is not taken.
  **MCNetSync** - the instances Linear and Deep, and Fork, Swap and Gap for the known limits.
  **NetSyncProofs** - its theorems.
* **Keychains** - the keychain tab.  A keychain is its hash and how its private key and seed are stored:
  not at all, in the clear, or sealed with a passphrase.  `unlocked` is the vault's map from NAMES to
  keys.  `unlock` decrypts and looks at the padding only, so each cipher text has a set of wrong keys
  that it `takes` (`Collisions`); what they open is garbage, which is not shown (it has not the length
  of a key) but sealed again by a change of passphrase: the keychain is then no longer `intact`.  `rows`
  is what `KeychainModel::update` last copied; `op` is the handler that waits in a modal dialog, with
  what it read before (name, `bLocked`).  There is one action per dialog a handler leaves, accepted or
  cancelled; a command of a second instance imports files in between.  `typed` (passphrases entered
  since the name was locked) and `stale` (names renamed or left behind since the last update) are
  history variables.  **MCKeychains** - the instance.  **KeychainsProofs** - its theorems.
* **Session** - vaults, lists, selection, recents, invoices, the command server, quitting and starting.
  `m_vault` is `SynchedVault`'s vault; `keychainVault` and `txVault` are the raw pointers of the two
  models, whose targets `openVault` and `closeVault` delete; the lists are handled as one record so that
  a handler is the composition of the calls it makes, in their order.  A slot that throws ends the
  program, as Qt does: `crashed`.  A migration asks, opens, and says in a second message box where the
  backup is; `openVault` goes on when that is closed (`CloseBackupMade`).  Two histories: `lostVault`, an
  opening that replaced an open vault failed; `overtaken`, the window was told of a migrated vault that a
  command had closed or replaced behind the second box.
  **SessionProofs** - its theorems.
* **TxFlow** - one account's payments.  `store` holds, for each transaction, who signed it, its status
  and whether it is in a block, and `spent` what spends its change, as the vault believes: a payment has
  one change output, which `Inputs` of other payments may name.  `Links` says which of these references
  an insertion makes, `Deleted` what they take along when a payment is deleted.  `rows` are the sorted
  rows of `TxModel`, with the transactions' order left open where the code's sort leaves it open.  `op`
  is the dialog that is up, `signing` the event loop inside `signTx`.  The network's thread inserts,
  confirms and unconfirms between any two steps, and queues a refresh if the window's state is SYNCHED.
  A signature is a keychain.  **MCTxFlow** - the instance.  **TxFlowProofs** - its theorems.
* **Amounts** - texts as sequences of characters, formatting, the validator's and the parser's state
  machines character by character, since the property is about exactly these conversions; integers wrap
  at `Word`.  `Says` is the reference: the number a text stands for, by place value.  **MCAmounts** - the
  instance.

In every module a definition that stands just before the one it resembles and is used nowhere is a
*mutant*: the mistake that a property is there to catch.  `TypeOK` documents the domains of a module's
variables; no run checks one by itself (`Inv` contains BlockTree's).

## 3. Runs

Passing runs:

| Run | Instance and bounds | Shows |
|---|---|---|
| `block_tree` | 9 headers: two branches of equal length, a shorter one with more work, one header that fails the proof of work, one orphan; complete | all invariants of BlockTree, the inductive invariant, termination of `insertHeader`, refinement of HeaderTree |
| `header_file` | 6 headers, chunk of 3 (so files below, of exactly and above one chunk), two disk errors of any kind, any number of crashes | the file is always a chain and is what a load restores; but for failures that go unnoticed it never loses work and `bFlushed` is right; no wake-up is lost; the flush thread can be stopped |
| `peer` | 3 starts, 1 fault, 1 message queued by `send`, 1 ping | on a connection begun with nothing of an earlier one still due the write handler pops what it wrote, nothing queued for an earlier connection is sent and the version message comes first; on the first the queue does not stall, and without faults it opens |
| `net_sync` | Linear: 3 blocks over the genesis block, 3 transactions of ours, 2 connections | "synched" means stored; complete blocks are confirmed; every lasting connection reaches the tip |
| `net_sync_reorg` | Deep: a fork of depth two with more work, two transactions of ours, one of them on both sides; the vault closed or replaced once, by the same or a new one | the vault's blocks are a path of the tree; the queue is the rest of the block; a whole block completes it; what is pushed off goes to the mempool |
| `keychains` | 2 names, 1 key, 2 passphrases, the empty key and one passphrase accepted wrongly; files: a cosigner's public keychain, an encrypted backup of the same keychain, and whatever was exported; names symmetric | key and seed are sealed together; secrets are shown only if their passphrase was typed; rows show the vault; what unlocks for itself relocks; no key is lost but by sealing again what a wrong key has opened |
| `session` | 3 vault files, 2 account names, 2 recent entries, 1 queued signal, 1 waiting command, 2 keychains; any number of restarts | no list holds a deleted vault; rows, selection and transactions belong to the open vault; only a lost vault or an overtaken migration makes a slot throw; the open vault is the first of the recents, unless a migration was overtaken |
| `tx_flow` | 2 payments of a 2-of-2 account, the second spends the first one's change; both keychains private and encrypted, and symmetric; 1 queued refresh | what is sent has its signatures; signed stays signed; only what was asked about, with what spends it, is deleted; an old list has a refresh queued |
| `amounts` | 2 decimals, units 1 digit apart, 21 coins, texts of up to 5 characters, word 2^16, URL mantissas up to the wrap | the amount paid is the number shown, or an exception; what the validator accepts does not throw |

`FileNeverLosesWork` leaves out files that a start has given up, as it does with those of a multiple of
the chunk (see `header_file_not_found`): the next flush starts again from the genesis block.

Three starts, one fault and one closing are the smallest numbers with which an operation can outlive a
connection and meet the next but one; two disk errors let a write fail and leave a swap file, and the next
one then fail to open it; a fork of depth two is the smallest the code handles by asking for headers
again; three transactions let one arrive before, one with and one after its block.  Two names let a key
stored under one meet a keychain renamed to the other; three vaults overflow a list of two recents; two
payments let a refresh exchange the rows under an open dialog and one be deleted with the other, and a
2-of-2 account has all of unsigned, partly signed and signed.  (A private keychain that is not encrypted
occurs in `tx_flow_relock` and in the proofs.)  Two decimals and units one digit apart keep the shape of
eight and three: whole coins, an intermediate unit, and the smallest unit without a decimal point.  Every
bound is a constant of its module.  Deadlock is checked except for Peer and NetSync, where the environment
may rest for ever, which is not an error.

Runs that are expected to find a violation; each states what the code's own comments or
`known_issues` say:

* `header_file_not_found` (`NotFoundMeansMissing`): a file with a multiple of 64 headers cannot be
  loaded.  After the last full chunk the stream is still good; the next read returns nothing,
  `nbytesread - RECORD_SIZE` wraps, the loop goes over the old buffer and past its end, and the
  checksum error makes `loadHeaders` discard everything as "not found".
* `peer_reconnect` (`ReconnectOpens`): a connection lost with messages in the send queue leaves them
  there; the next connection's version message is queued behind them and never written.
* `tx_flow_relock` (`AddSignatureRelocks`): `addSignature` unlocks a keychain, and cancelling the
  entropy dialog that follows throws past the code that relocks it.

**Fairness.**  BlockTree: the loops run on in their thread.  HeaderFile: the loading thread, the flush
thread and the thread inside `insertHeader` or about to notify run on; nothing is assumed of the peer,
the user or the disk, except that it fails at most `MaxErrors` times.  Peer: the `io_service` thread
runs handlers that are due and the network delivers what it does not report as an error; the timer fires
at any time by a fault, or when nothing more can happen.  NetSync: messages that have arrived are handled
and the peer answers what it is asked; mining, relaying and the user are free.  The four modules of the
wallet state safety only: everything in them waits for the user, who owes nothing.

## 4. Proofs

Every theorem holds for every value of the constants that the named assumptions of its module allow;
TLC evaluates the same assumptions on every instance.  Each proof has one lemma per action, and lemmas
for the calls that several handlers share.  None of the invariants is inductive by itself; what has to
be added is the substance of each proof.

**Block tree** (`BlockTreeProofs`).  `InvHolds`, and from it `BestChainIsAlwaysPath`, `HeightMapIsIndex`,
`TipIsHeaviest`, `TypeCorrect`, `CursorStaysInTree` (no lookup throws half way through a
reorganisation), `UnsetLoopNeverSpins` and the action property `TipNeverLosesWork`.  The properties speak
of the tree between two calls, and the loops break them on purpose.  `Inv` says what holds in between,
one conjunct per place in the code.  `TreeInv`: heights, work and children agree with parents.
`IdleInv`: the best chain is a path to `pHead`, indexed exactly, and `pHead` has the most work.
`RunningInv`: the stack is the path from the new header down to a child of `Base`, and no header but
the new one has more work than the old tip.  `RetraceInv`: the old chain is untouched and the cursor is
`Base`.  `UnsetInv`: the chain has a gap between the fork and the cursor, and exactly one height, the one
above the fork, has a stale entry; this is also why the loop cannot spin: a flagged header above the
cursor, if there is one, leads down to a child of the cursor, and if there is none the cursor is the old
tip, which has no children because a child would have more work.  `SetInv`: the chain is a path to
`Base`, and the stale entry is overwritten by the first pop.  These theorems do not use `LinkAssumption`.

**Refinement** (`BlockTreeRefinementProofs`).  `BlockTreeImplementsHeaderTree`: every call of
`insertHeader` is one step of HeaderTree, every step of its loops stutters.  Here the recursive
definitions matter: that `Line` exists and that the work and ancestors accumulated header by header are
those it computes.  `LinkAssumption` (a header contains its parent's hash, so every set of headers has
one whose parent is not in it) takes the place of an induction: the headers for which a statement fails
would have such a member, whose parent satisfies it.

**File and flush thread** (`HeaderFileProofs`).  `FileIsChainHolds`, `FlushedMeansOnDiskHolds`,
`LoadRestoresChainHolds`, `FileNeverLosesWorkHolds`, and `LoadedTreeIsSound`: the tree's properties also
hold with loads, crashes and restarts.  To the tree's invariant come: the file, and the swap file in any
state, also one an earlier process has left behind, is a chain from the genesis block (`DiskOK`), which is
why the file is one even after a rename that nothing was written for; the swap file that is being written
is the beginning of the best chain, which nobody changes meanwhile (`FlushOK`); and how far `loadFromFile`
has come, as a number of the file's first records which are then the whole tree, through reads that fill the
buffer, fill it partly or deliver nothing (`Reading`).

**Peer** (`PeerProofs`).  `PopsWhatItWroteHolds`, `NothingFromEarlierConnectionHolds`, `VersionFirstHolds`,
`NoDataBeforeVerackHolds` (only the handshake is written before the verack): each for every connection that
is begun with nothing of an earlier one still due (`~ overlap`), the only thing the code's safety rests on;
and `QueueHasWriterHolds` for the first.  `ConnectingOK`: on such a connection nothing is pending until it is
there.  `WriteOK`: from then on the write under way is of the queue's front, and the queue is ordered by the
start its messages were queued for; both are needed together, since the handler of a write begins the
next.  `FirstOK` and `HandshakeOK` follow it through the handshake, `OneConnect` the first start.

**Network sync** (`NetSyncProofs`).  `QueueHolds`, `VaultHolds`, `BlockCompletesHolds` and the action
property `PushedOffHolds`, for any tree of blocks with any transactions.  The tree is given by the paths
to its blocks; the assumption is that a beginning of a path is the path to its last block.  The
invariant adds that the tree has the path to each of its blocks and that requests and messages on their
way stay valid while it grows: headers asked for from an older tip still connect (`WireOK`).  The
handlers work on a record of queue, index, mempool and vault, in a recursion over the queue or over the
transactions of a block.  `States` is what every such step keeps: the queue is the rest of the block,
the vault's blocks are a path, and what has been unconfirmed since the handler began is in the mempool
and has `b` in the chain.  The last part is what makes the step inductive: a transaction of `b` is erased
from the mempool even when the vault refuses it, but once something has been unconfirmed `b` is stored,
so that nothing of `b` is refused any more and what is erased is confirmed in the same call.
`BlockCompletesHolds` rests on an embedding: the expected hashes occur in the block in order, so the
first match of the front never passes one needed later.

`CompleteUntilClosed` (and `CompleteHolds`, for a vault that is never closed) adds that a complete block's
transactions are all confirmed by it, forks included, as long as no vault has been closed or replaced.  It uses
`TxsAssumption`, a rule of the network: no two blocks of a chain share a transaction.  `Filled` is the
strengthening: the vault has every transaction of the mempool, and those of the current block before the
index are confirmed (`UpTo`).  The first half is what `confirmMerkleTx`, which ignores a transaction that
the vault does not have, silently relies on, and what closing a vault breaks.

`SynchedUntilClosed` (and `SynchedHolds`) is about one chain: whenever block sync is reported complete,
every block from the start height to the tip is in the vault with all its transactions, until the vault is
first closed or replaced.  Hypotheses: `OneChain` (one block at each height, more work above, a start
height of at least 1) and `PeerReaches` (a connected peer has the chain at least up to the start height;
for start height 1, as in the run, that is proved).  A fork, or a start height above the peer's chain,
refutes the property (known limits); a start height of 0 is merely not covered by the proof.  The
invariant `Climbs` has two halves.  `StoreOK`: the vault is `Solid`, that is, below each of its blocks
everything from the start height up is complete, and the block that is asked for or being received is the
next (`Ready`).  `SentOK`: what is on its way allows no step out of order.  Its core is `Due`: before
blocks are inserted, headers are on their way, or asked for, ahead of every merkle block above the tip, so
no announced block can make the tree jump over the start of the sync; and a whole block is on its way only
while it is complete or its queue still waits (`Fetched`), so that a late one stores nothing out of
place.  `StoredStates` carries the first half through the recursions: an empty queue means a complete
block.

**Keychains** (`KeychainsProofs`).  `SealedTogetherHolds`, `ShownSecretsWereUnlockedHolds`,
`RowsMirrorVaultHolds`, `ReadersRelockHolds`, `NothingLostHolds`.  The invariant says what each waiting
handler relies on: which dialog is up tells whether the keychain was unlocked for the handler and has
been locked again (`WaitsFor`, `OpOK`), and a key in the vault's map was typed for its name.
`NothingLostHolds` says of every step that no key or seed disappears, and that none turns into garbage but
in the one way that `Misread` describes.

**Session** (`SessionProofs`).  `NoDanglingVaultHolds`, `AccountRowsMirrorVaultHolds`,
`SelectionShowsItsTxsHolds`, `ThrowsOnlyAfterLostVaultHolds`.  The last says that lost vaults and
overtaken migrations are the only ways into a throwing slot.  `Shows` says when the lists are in order for
a vault; one lemma per call (`update`, `setVault`, selecting a row...) says what it does to lists in
order, and a handler's lemma composes those of its calls.  `RecentsHold`: the recent files are distinct
and start with the open vault, also after restarts, except while the second box of a migration is up and
after a migration that was overtaken behind it; for this `Without` is shown to close the gap of the one
vault it removes (`WithoutIs`), and reading the settings back to give the list that was saved
(`LoadRecentsIs`).

**Transactions** (`TxFlowProofs`).  `RefreshIsQueuedHolds`, `DeletesWhatWasAskedHolds`, and, with
`~Segwit`, `SentIsComplete`, `SignedStaysSignedHolds` and, if an account needs at most two signatures
(`MinSigs <= 2`), `SentHasMinSigsHolds`.  The hypotheses are what the code needs: without them the
statements are false (see the known limits).  `Becomes` is what all ways to change a stored transaction
have in common; `LinksOK` says that what the vault believes to spend a payment's change names it among its
inputs, so that the recursion of `deleteTx` stays within what spends the payment; the invariant adds that
rows, although older than the vault, show nothing as signed that is not, that the row to be deleted is the
one asked about, and that what a prompt offers to send is complete.

**Recursion.**  TLAPS has no induction over data that its provers can use through an operator parameter,
so the proofs use sets instead: `Induction` (NetSyncProofs) is a statement about a set of numbers, proved
from the library's theorem that `<` is well founded, and `Iteration` gives a function that takes steps
in turn, which is what the recursive functions of NetSync and Session define.  `MempoolLoop` and
`ScanLoop` say once that a set of records which every round keeps is kept by the whole loop; each theorem
about the queue brings its own set.  `LinkAssumption` serves the same purpose for headers.

**Only model-checked.**  Liveness (`InsertReturns`, the flush thread's, `FirstConnectionOpens`,
`SyncCompletes`), which TLAPS does not cover.  `AmountShownIsPaid` and the rest of Amounts, whose texts
are folded character by character.  Every other invariant and action property of a run is a theorem,
`TypeOK` of every other module included.

## 5. Not modelled

Core: `deleteHeader` (no caller, and its assertion always fails); byte formats, framing, checksums and
cryptography; the locator's strides (exact up to ten blocks); bloom filter updates, `insertTx` and
`insertMerkleBlock` of `NetworkSync`; the locks of `SynchedVault`; coin selection, the status of
conflicting payments, account bins and signing scripts of the vault; vendored libraries.
Handlers are atomic in NetSync: data races between `stop` and a handler that is still running are
outside the model.

Wallet: a wrong key whose padding leaves the length of a key or a seed (one in 2^32 and fewer); a command that opens
a vault on the thread that holds a `VaultLock`, which locks a `std::mutex` twice (undefined); payments
with several change outputs, or with inputs of more than one of them; what only reads (exporting accounts
and vaults, searching, raw views, the script list), coin control, network settings and the license
dialog.  `networksync.cpp`, `vault_commands.cpp`, `updates.cpp`, `accountpendingtx*.cpp`,
`txoutmodel.cpp`, `txoutview.cpp`, `resyncdialog.cpp` and `txdialog.cpp` are not compiled; the
raw-transaction entries of `MainWindow`, `deleteAccount`, `viewAccountHistory` and the dialog for the
currency unit are in no menu; `vaultd` is written against an earlier vault.

### Known limits of the code, found while modelling

Core.  The properties named are defined in the modules; the instance that refutes each is given.

* `TimeoutStopsItsOwnConnection` (Peer): `stop` does not cancel the handshake timer, which stops the next
  connection.
* `ContinuesToTip` (Fork, `Ours = {"a"}`, one connection): the tip is replaced at the same height while a
  requested block waits for a transaction; asking for the block above it throws and the sync stops.
* `SynchedAgain` (the same instance): a depth-1 reorganisation that keeps a transaction leaves the new
  block waiting for a transaction that nobody will send.
* `ReconnectCompletes` (Linear, two connections, `MaxVaultOps = 1`): `stop` while a whole block is awaited
  keeps `m_bMissingTxs`; the next connection ignores the transactions it waits for.
* `PushedOffIsUnconfirmed` (Swap on Fork's blocks, `Ours = {"a", "u"}`): `confirmMerkleTx` erases block
  headers which transactions still refer to (sqlite is opened with foreign keys off; with them on the
  commit fails).
* `OnlyLastIncomplete` (Linear's blocks with `GapTxs`, one connection, `MaxVaultOps = 1`): a
  vault is closed between two transactions of a block; the second arrives and leaves the queue while no
  vault is open; the vault is opened again, and the first transaction of the next block is stored on top
  of the incomplete one, which is then below the highest complete block and is not asked for again.
* With vaults closed and opened on a live connection neither `SynchedMeansStored` nor
  `CompleteMeansConfirmed` holds (a transaction received while no vault is open is later "confirmed" in a
  vault that does not have it; a pending transaction can complete a queue of the old vault in the new
  one); with a fork while blocks are being synched `SynchedMeansStored` does not hold (the vault keeps the
  replaced block and refuses the ones above the new one).  `known_issues` admits that opening a vault
  during the sync is not synchronised.
* `SynchedMeansStored` (Linear, two connections, `StartHeight = 3`): with a start height above the peer's
  chain `syncBlocks` starts at the tip, whose block can stay incomplete when the connection is stopped;
  the next connection starts at the start height, and the vault refuses that block, which does not
  connect, although the sync goes on past it.
* A transaction that was pushed off need not stay in `m_mempoolTxs` until it is confirmed again: when a
  block claims it, it is erased there even if the vault refuses the block; the property is therefore
  about the step that pushes it off.
* `flushToFile` does not see that its swap file could not be opened, or that its last buffer could not be
  written: it renames what an earlier flush has left under that name, a shorter chain perhaps, or a file
  that is cut short, over the good one, and sets `bFlushed`.  A header file that cannot be opened for
  reading is replaced like one that is missing.  Without `~ stray` MCHeaderFile refutes `FlushedMeansOnDisk`
  and `FileNeverLosesWork`; `FileIsChain` holds nevertheless.
* No handler of the peer looks at which connection it belongs to.  If a write handler of the last connection
  runs after a restart has begun the next, it pops the new queue or goes on writing the old one on the new
  socket, ahead of the version message; a resolve of an earlier start that completes late connects a peer
  again that is open, with `bWriteReady` set; two reads share `read_buffer`.  Without `~ overlap` the
  instance of `peer` refutes `PopsWhatItWrote`, `NothingFromEarlierConnection` and `VersionFirst`.
* The headers handler notifies the flush thread only on an empty message: headers can stay unflushed until
  the next merkle block (`known_issues`).

Wallet.

* A wrong passphrase that happens to leave a right padding opens a keychain, one in 256 without a seed; so may
  a stale key, one that an earlier change of passphrase has left in the vault's map, or the empty key.
  Nothing is shown, but a change of passphrase then seals the garbage, and the private key is gone.  Without
  `Misread` MCKeychains refutes `NothingLost`.
* While the message box "Backup Made" is up, a command can close or replace the vault that was migrated;
  the window then shows the migrated one's name, offers its actions, which throw when there is no vault, and
  lists it first among the recent vaults.  Without `overtaken` the instance of `session` refutes
  `ThrowsOnlyAfterLostVault` and `RecentsHeadIsOpenVault`.
* Deleting a payment deletes everything that spends its change, sent or confirmed payments included, although
  the question names none of it.  A spender that is imported before the payment is signed is not linked to
  it and stays; of two that spend the same change only the last one inserted is linked.
* A failed `newVault` or migration over an open vault leaves the rows and actions of the deleted one; using
  them ends the program (`ThrowsOnlyAfterLostVault` says that but for the case before nothing else does).
* An unlock key stays in the vault under the old name when an unlocked keychain is renamed, and
  `importAccount` that fails leaves the list without updates.
* The vault pointer is fetched before the passphrase dialog, and CreateTxDialog's coin control and
  `ScriptModel` keep one: a command that replaces the vault meanwhile leaves them dangling.  For the same
  reason a new account can be made in another vault than the one whose keychains the dialog listed.
* The invoice dialog keeps the names of accounts after the vault is closed or an account is renamed.
* `signTx` signs whatever row is current after it has waited for entropy; after a failed "Sign", "Save
  Unsigned" still signs; a search highlights a row without making it the current one, so that the actions
  work on another.
* A segwit transaction can be sent again with too few witnesses (`tx_flow` is checked with
  `Segwit = FALSE`); merging copies can give more signatures than needed when an account needs three or more;
  an inserted raw transaction becomes PROPAGATED and cannot be sent, although the action is enabled.
* URL amounts wrap at 2^64, and an exponent in them multiplies; `setValue` writes eight significant digits
  and may use an exponent, which the field then refuses; the invoice dialog labels its field with another
  unit than it validates; the `clearsettings` command resets the window's unit but not the one in use.
* Two instances started before either listens for commands both run.

## 6. Plan

1. Done: BlockTree, HeaderTree, HeaderFile, Peer, NetSync, Keychains, Session, TxFlow, Amounts; the proofs
   of section 4.
2. Proofs: what is synched while the chain forks only outside a sync, which needs `Climbs` without
   `OneChain`; a start height of 0.
3. Vault: the status of conflicting spends and the pool of signing scripts; merkle blocks with their
   three push-offs against one abstract specification.
4. SynchedVault: the order of `m_vaultMutex` and `m_syncMutex`.
5. Pure algorithms: partial merkle trees, locators of tree and vault, message framing.
