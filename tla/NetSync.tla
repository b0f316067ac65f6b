------------------------------- MODULE NetSync -------------------------------
(***************************************************************************)
(* CoinQ::Network::NetworkSync (deps/CoinQ/src/CoinQ_netsync.cpp): headers *)
(* and merkle blocks are fetched from one peer and handed to the vault.    *)
(*                                                                         *)
(* The handlers run one at a time on the io_service thread and hold        *)
(* m_syncMutex; stop, closeVault and openVault come from the user          *)
(* interface.  The block tree is the pair (tree, tip) that HeaderTree      *)
(* specifies and BlockTree implements.  The vault is external here and is  *)
(* modelled by what the callbacks of SynchedVault do to its chain of       *)
(* merkle blocks and its transactions.  The peer is external too: it       *)
(* answers requests in order and, with SkipsKnown, does not send again     *)
(* after a merkle block the transactions it has sent on this connection,   *)
(* which is what m_mempoolTxs is kept for.                                 *)
(*                                                                         *)
(* A definition placed just before the one it resembles and used nowhere   *)
(* is a mutant of it.                                                      *)
(***************************************************************************)
EXTENDS Integers, Sequences, SequencesExt

CONSTANTS
    Blocks, NoBlock,
    Genesis,
    Path,           \* Path[b]: the blocks from the genesis block to b
    ChainWork,      \* ChainWork[b]: the work of that chain
    BlockTxs,       \* BlockTxs[b]: the transactions of b, in order
    Ours,           \* the transactions the bloom filter matches
    StartHeight,    \* getHeaderBefore(startTime).height
    SkipsKnown,     \* the peer does not repeat transactions
    MaxConnects,    \* connections
    MaxVaultOps     \* times a vault is closed or replaced

ASSUME NetSyncAssumption ==
    /\ NoBlock \notin Blocks /\ Genesis \in Blocks
    /\ \A b \in Blocks :
        /\ Path[b] \in Seq(Blocks) /\ Path[b] # <<>>
        /\ Path[b][1] = Genesis /\ Path[b][Len(Path[b])] = b
        /\ \A i \in 1 .. Len(Path[b]) : Path[Path[b][i]] = SubSeq(Path[b], 1, i)
        /\ ChainWork[b] \in Nat
        /\ BlockTxs[b] \in Seq(Range(BlockTxs[b]))
    /\ StartHeight \in Nat
    /\ SkipsKnown \in BOOLEAN /\ MaxConnects \in Nat /\ MaxVaultOps \in Nat

(* A transaction is in one block of a chain at most: the rule of the        *)
(* network that no block repeats a transaction of an earlier one.           *)
ASSUME TxsAssumption ==
    \A b \in Blocks : \A c \in Range(Path[b]) \ {b} :
        Range(BlockTxs[b]) \cap Range(BlockTxs[c]) \cap Ours = {}

VARIABLES
    m_bConnected, m_bHeadersSynched,
    tree, tip,                      \* m_blockTree
    m_lastRequestedBlockHash, m_lastRequestedMerkleBlockHash,
    m_lastSynchedMerkleBlockHash,
    m_mempoolTxs,
    m_currentMerkleBlock, m_currentMerkleTxHashes, m_currentMerkleTxIndex,
    m_bMissingTxs,
    m_bInsertMerkleBlocks,          \* of SynchedVault
    vaultOpen, vault,               \* the open vault's blocks and transactions
    toPeer, toUs,                   \* the connection, one queue each way
    peerTip, sent,                  \* the peer's chain, the transactions it sent
    connects, vaultOps

treeVars  == <<tree, tip>>
blockVars == <<m_lastRequestedBlockHash, m_lastRequestedMerkleBlockHash,
               m_lastSynchedMerkleBlockHash>>
txVars    == <<m_mempoolTxs, m_currentMerkleBlock, m_currentMerkleTxHashes,
               m_currentMerkleTxIndex>>
userVars  == <<vaultOpen, connects, vaultOps>>
peerVars  == <<peerTip, sent>>
vars == <<m_bConnected, m_bHeadersSynched, treeVars, blockVars, txVars, m_bMissingTxs,
          m_bInsertMerkleBlocks, vault, userVars, toPeer, toUs, peerVars>>

Height(b) == Len(Path[b]) - 1
Parent(b) == IF b = Genesis THEN NoBlock ELSE Path[b][Height(b)]
Work(b) == ChainWork[b] - (IF b = Genesis THEN 0 ELSE ChainWork[Parent(b)])
InBestChain(b) == Height(b) <= Height(tip) /\ Path[tip][Height(b) + 1] = b

(* The elements of the sequence s that are in the set S. *)
Matched(s, S) ==
    LET matched[n \in 0 .. Len(s)] ==
            IF n = 0 THEN <<>>
            ELSE IF s[n] \in S THEN Append(matched[n - 1], s[n]) ELSE matched[n - 1]
    IN  matched[Len(s)]

TxsOf(b) == Matched(BlockTxs[b], Ours)

-----------------------------------------------------------------------------
(* The vault: the table of its merkle blocks, those of them whose           *)
(* transactions have all arrived, and for each known transaction the        *)
(* confirming block.                                                        *)

EmptyVault == [chain |-> {}, complete |-> {}, conf |-> [t \in {} |-> NoBlock]]

ConnectsAlways(v, b) == TRUE
Connects(v, b) == v.chain = {} \/ Parent(b) \in v.chain

(* Blocks at b's height and above go. *)
Kept(v, b) == {c \in v.chain : Height(c) < Height(b)}

Cut(v, b) == [v EXCEPT !.chain = Kept(v, b), !.complete = @ \cap Kept(v, b)]

(* Their transactions are unconfirmed. *)
PushOff(v, b) ==
    [Cut(v, b) EXCEPT !.conf = [t \in DOMAIN v.conf |->
        IF v.conf[t] \in v.chain \ Kept(v, b) THEN NoBlock ELSE v.conf[t]]]

(* The block is stored on top of w, what is left of the vault v. *)
Attach(v, b, w) == IF b \in v.chain THEN v ELSE [w EXCEPT !.chain = @ \cup {b}]

Confirm(v, b, known, t) ==
    [v EXCEPT !.conf = [u \in DOMAIN v.conf \cup known |-> IF u = t THEN b ELSE v.conf[u]]]

Complete(v, b, i) == IF i + 1 = Len(TxsOf(b)) THEN [v EXCEPT !.complete = @ \cup {b}] ELSE v

(* Only the first transaction may bring a new block, if it connects. *)
Refuses(v, b, i) == b \notin v.chain /\ (i # 0 \/ ~ Connects(v, b))

(* insertMerkleTx: the transaction itself arrives with the block. *)
InsertMerkleTx(v, b, t, i) ==
    IF Refuses(v, b, i) THEN v ELSE Complete(Confirm(Attach(v, b, PushOff(v, b)), b, {t}, t), b, i)

(* confirmMerkleTx: a transaction the vault does not have is ignored.  Those *)
(* of the blocks that go get the status PROPAGATED, but their reference to  *)
(* the erased header stays.                                                 *)
ConfirmMerkleTx(v, b, t, i) ==
    IF Refuses(v, b, i) THEN v
    ELSE Complete(Confirm(Attach(v, b, Cut(v, b)), b, {}, t), b, i)

(* insertMerkleBlock, for a block without transactions of ours. *)
InsertMerkleBlock(v, b) ==
    IF b \in v.chain \/ ~ Connects(v, b) \/ b = Genesis THEN v
    ELSE [Attach(v, b, PushOff(v, b)) EXCEPT !.complete = @ \cup {b}]

InsertNewTxDropped(v, t) == v

InsertNewTx(v, t) ==
    IF t \in DOMAIN v.conf THEN v
    ELSE [v EXCEPT !.conf = [u \in DOMAIN v.conf \cup {t} |->
                                IF u = t THEN NoBlock ELSE v.conf[u]]]

(* getLocatorHashes: the blocks of the vault up to the highest complete     *)
(* one; syncBlocks takes the highest that is in the best chain.             *)
Locator(v) ==
    {b \in v.chain : \E c \in v.complete : Height(b) <= Height(c)}
-----------------------------------------------------------------------------
(* What the handlers share.  A step of the queue works on the record        *)
(* [q, i, mem, v]: the hashes still expected, the index of the next, the    *)
(* mempool and the vault.                                                   *)

Queue == [q |-> m_currentMerkleTxHashes, i |-> m_currentMerkleTxIndex,
          mem |-> m_mempoolTxs, v |-> vault]

SetQueue(s) ==
    /\ m_currentMerkleTxHashes' = s.q /\ m_currentMerkleTxIndex' = s.i
    /\ m_mempoolTxs' = s.mem /\ vault' = s.v

(* notifyTxUpdated, with the status PROPAGATED: a transaction pushed off    *)
(* the chain goes back to the mempool.                                      *)
PushedOffNone(v, w) == {}

PushedOff(v, w) ==
    {t \in DOMAIN v.conf : v.conf[t] \in v.chain /\ w.conf[t] \notin w.chain}

Pop(s, w, t) ==
    [q |-> Tail(s.q), i |-> s.i + 1, mem |-> (s.mem \cup PushedOff(s.v, w)) \ {t}, v |-> w]

(* processMempoolConfirmations, for the merkle block b: the front of the    *)
(* queue is confirmed while it is in the mempool.                           *)
ConfirmFront(b, s, t) ==
    IF s.q # <<>> /\ t = Head(s.q) /\ t \in s.mem
    THEN Pop(s, IF vaultOpen THEN ConfirmMerkleTx(s.v, b, t, s.i) ELSE s.v, t)
    ELSE s

MempoolConfirmationsNone(b, s) == s

MempoolConfirmations(b, s) ==
    LET after[n \in 0 .. Len(s.q)] ==
            IF n = 0 THEN s ELSE ConfirmFront(b, after[n - 1], s.q[n])
    IN  after[Len(s.q)]

(* notifyMerkleTx for the front of the queue. *)
InsertFront(b, s, t) ==
    Pop(s, IF vaultOpen THEN InsertMerkleTx(s.v, b, t, s.i) ELSE s.v, t)

(* syncMerkleBlock. *)
SyncMerkleBlockKeepsIndex(b) ==
    MempoolConfirmations(b, [q |-> TxsOf(b), i |-> m_currentMerkleTxIndex,
                             mem |-> m_mempoolTxs, v |-> vault])

SyncMerkleBlock(b) ==
    IF TxsOf(b) = <<>>
    THEN [q |-> <<>>, i |-> m_currentMerkleTxIndex,
          mem |-> IF vaultOpen /\ m_bInsertMerkleBlocks
                  THEN m_mempoolTxs \cup PushedOff(vault, InsertMerkleBlock(vault, b))
                  ELSE m_mempoolTxs,
          v |-> IF vaultOpen /\ m_bInsertMerkleBlocks
                THEN InsertMerkleBlock(vault, b) ELSE vault]
    ELSE MempoolConfirmations(b, [q |-> TxsOf(b), i |-> 0, mem |-> m_mempoolTxs, v |-> vault])

SetCurrent(b) ==
    IF TxsOf(b) = <<>> THEN UNCHANGED m_currentMerkleBlock ELSE m_currentMerkleBlock' = b

(* The queue is empty: block sync is complete at the tip, else the block    *)
(* after b is requested, after what the handler has already asked for.      *)
(* getHeader throws above the tip: nothing more happens.                    *)
AdvanceEarly(b, asked) ==
    IF Height(b) + 1 >= Height(tip)
    THEN /\ m_lastRequestedMerkleBlockHash' = NoBlock
         /\ m_lastSynchedMerkleBlockHash' = tip
         /\ toPeer' = asked
    ELSE /\ m_lastRequestedMerkleBlockHash' = Path[tip][Height(b) + 2]
         /\ toPeer' = Append(asked, <<"getmerkle", Path[tip][Height(b) + 2]>>)
         /\ UNCHANGED m_lastSynchedMerkleBlockHash

Advance(b, asked) ==
    IF b = tip
    THEN /\ m_lastRequestedMerkleBlockHash' = NoBlock
         /\ m_lastSynchedMerkleBlockHash' = b
         /\ toPeer' = asked
    ELSE IF Height(b) < Height(tip)
    THEN /\ m_lastRequestedMerkleBlockHash' = Path[tip][Height(b) + 2]
         /\ toPeer' = Append(asked, <<"getmerkle", Path[tip][Height(b) + 2]>>)
         /\ UNCHANGED m_lastSynchedMerkleBlockHash
    ELSE /\ toPeer' = asked
         /\ UNCHANGED <<m_lastRequestedMerkleBlockHash, m_lastSynchedMerkleBlockHash>>

(* getHeaders with all locator hashes, or with the tip's only. *)
GetHeaders == <<"getheaders", tip>>
GetHeadersAfter(b) == <<"getheadersafter", b>>

(* SynchedVault::syncBlocks and NetworkSync::syncBlocks, with the vault v   *)
(* and the tip as they are now.                                             *)
SyncBlocks(v) ==
    LET known == {b \in Locator(v) : InBestChain(b)}
        from  == CHOOSE b \in known : \A c \in known : Height(c) <= Height(b)
    IN  /\ m_bInsertMerkleBlocks' = TRUE
        /\ IF known # {} /\ Height(from) = Height(tip)
           THEN /\ m_lastSynchedMerkleBlockHash' = from
                /\ UNCHANGED <<m_lastRequestedMerkleBlockHash, toPeer>>
           ELSE LET start == Path[tip][1 + (IF known # {} THEN Height(from) + 1
                                            ELSE Min({StartHeight, Height(tip)}))]
                IN  /\ m_lastSynchedMerkleBlockHash' = NoBlock
                    /\ m_lastRequestedMerkleBlockHash' = start
                    /\ toPeer' = Append(toPeer, <<"getmerkle", start>>)
-----------------------------------------------------------------------------
(* The user's operations.                                                   *)

(* start, and the peer's open handler: the headers are asked for. *)
Open ==
    /\ ~ m_bConnected
    /\ connects < MaxConnects
    /\ connects' = connects + 1
    /\ m_bConnected' = TRUE
    /\ m_bInsertMerkleBlocks' = FALSE
    /\ toPeer' = <<GetHeaders>> /\ toUs' = <<>> /\ sent' = {}
    /\ UNCHANGED <<m_bHeadersSynched, treeVars, blockVars, txVars, m_bMissingTxs, vaultOpen,
                   vault, vaultOps, peerTip>>

(* stop, called by the user or by the peer's close handler. *)
Stop ==
    /\ m_bConnected
    /\ m_bConnected' = FALSE /\ m_bHeadersSynched' = FALSE
    /\ m_lastRequestedMerkleBlockHash' = NoBlock
    /\ m_currentMerkleTxHashes' = <<>>
    /\ toPeer' = <<>> /\ toUs' = <<>> /\ sent' = {}
    /\ UNCHANGED <<treeVars, m_lastRequestedBlockHash, m_lastSynchedMerkleBlockHash,
                   m_mempoolTxs, m_currentMerkleBlock, m_currentMerkleTxIndex,
                   m_bMissingTxs, m_bInsertMerkleBlocks, vault, userVars, peerTip>>

(* closeVault, with stopSynchingBlocks. *)
CloseVault ==
    /\ vaultOpen
    /\ vaultOps < MaxVaultOps
    /\ vaultOps' = vaultOps + 1
    /\ vaultOpen' = FALSE /\ m_bInsertMerkleBlocks' = FALSE
    /\ m_lastRequestedMerkleBlockHash' = NoBlock /\ m_lastSynchedMerkleBlockHash' = NoBlock
    /\ UNCHANGED <<m_bConnected, m_bHeadersSynched, treeVars, m_lastRequestedBlockHash, txVars,
                   m_bMissingTxs, vault, connects, toPeer, toUs, peerVars>>

(* openVault: the same vault again, or a new one, also in the place of one  *)
(* that is open: unlike closeVault it leaves the sync as it is.             *)
OpenVault ==
    /\ vaultOpen => vaultOps < MaxVaultOps
    /\ vaultOps' = IF vaultOpen THEN vaultOps + 1 ELSE vaultOps
    /\ vaultOpen' = TRUE
    /\ vault' \in {vault, EmptyVault}
    /\ IF m_bConnected /\ m_bHeadersSynched
       THEN SyncBlocks(vault')
       ELSE UNCHANGED <<m_bInsertMerkleBlocks, m_lastSynchedMerkleBlockHash,
                        m_lastRequestedMerkleBlockHash, toPeer>>
    /\ UNCHANGED <<m_bConnected, m_bHeadersSynched, treeVars, m_lastRequestedBlockHash, txVars,
                   m_bMissingTxs, connects, toUs, peerVars>>

(* openVault throws in Vault::open: the vault that was open is gone. *)
OpenVaultFails ==
    /\ vaultOpen
    /\ vaultOps < MaxVaultOps
    /\ vaultOps' = vaultOps + 1
    /\ vaultOpen' = FALSE
    /\ UNCHANGED <<m_bConnected, m_bHeadersSynched, treeVars, blockVars, txVars, m_bMissingTxs,
                   m_bInsertMerkleBlocks, vault, connects, toPeer, toUs, peerVars>>

-----------------------------------------------------------------------------
(* The peer (external).                                                     *)

CommonPrefix(p, q) ==
    Max({n \in 0 .. Min({Len(p), Len(q)}) : SubSeq(p, 1, n) = SubSeq(q, 1, n)})

(* Headers after the last one both chains have; a lone locator hash that is *)
(* not in the peer's chain makes it start over.                             *)
HeadersAfter(request) ==
    LET p == Path[peerTip]
        n == IF request[1] = "getheaders" THEN CommonPrefix(p, Path[request[2]])
             ELSE IF request[2] \in Range(p) THEN Height(request[2]) + 1 ELSE 1
    IN  SubSeq(p, n + 1, Len(p))

TxMessages(txs) == [i \in DOMAIN txs |-> <<"tx", txs[i]>>]

Reply(request) ==
    CASE request[1] \in {"getheaders", "getheadersafter"} -> <<<<"headers", HeadersAfter(request)>>>>
      [] request[1] = "getmerkle" ->
            <<<<"merkle", request[2]>>>> \o
            TxMessages(Matched(TxsOf(request[2]), IF SkipsKnown THEN Ours \ sent ELSE Ours))
      [] request[1] = "getblock" -> <<<<"block", request[2]>>>>
      [] request[1] = "gettx" -> <<<<"tx", request[2]>>>>

PeerReplies ==
    /\ toPeer # <<>>
    /\ toPeer' = Tail(toPeer)
    /\ LET replies == Reply(Head(toPeer)) IN
        /\ toUs' = toUs \o replies
        /\ sent' = sent \cup {replies[i][2] : i \in {j \in DOMAIN replies : replies[j][1] = "tx"}}
    /\ UNCHANGED <<m_bConnected, m_bHeadersSynched, treeVars, blockVars, txVars, m_bMissingTxs,
                   m_bInsertMerkleBlocks, vault, userVars, peerTip>>

(* The peer's chain changes and it announces the new tip. *)
PeerMines ==
    /\ \E b \in Blocks :
        /\ ChainWork[b] > ChainWork[peerTip]
        /\ peerTip' = b
        /\ toUs' = IF m_bConnected THEN Append(toUs, <<"invblock", b>>) ELSE toUs
    /\ UNCHANGED <<m_bConnected, m_bHeadersSynched, treeVars, blockVars, txVars, m_bMissingTxs,
                   m_bInsertMerkleBlocks, vault, userVars, toPeer, sent>>

(* It announces an unconfirmed transaction, once on a connection. *)
PeerRelays ==
    /\ m_bConnected
    /\ \E t \in Ours :
        /\ t \notin sent
        /\ t \notin UNION {Range(BlockTxs[b]) : b \in Range(Path[peerTip])}
        /\ <<"invtx", t>> \notin Range(toUs) /\ <<"gettx", t>> \notin Range(toPeer)
        /\ toUs' = Append(toUs, <<"invtx", t>>)
    /\ UNCHANGED <<m_bConnected, m_bHeadersSynched, treeVars, blockVars, txVars, m_bMissingTxs,
                   m_bInsertMerkleBlocks, vault, userVars, toPeer, peerVars>>

-----------------------------------------------------------------------------
(* The handlers of the peer's messages.                                     *)

Receive(kind) ==
    /\ toUs # <<>> /\ Head(toUs)[1] = kind
    /\ toUs' = Tail(toUs)
    /\ UNCHANGED <<m_bConnected, userVars, peerVars>>

OnInv ==
    /\ \/ /\ Receive("invblock")
          /\ toPeer' = Append(toPeer, <<"getmerkle", Head(toUs)[2]>>)
       \/ /\ Receive("invtx")
          /\ toPeer' = Append(toPeer, <<"gettx", Head(toUs)[2]>>)
    /\ UNCHANGED <<m_bHeadersSynched, treeVars, blockVars, txVars, m_bMissingTxs,
                   m_bInsertMerkleBlocks, vault>>

(* insertHeader for every header, in order: the tip is the first of the     *)
(* heaviest.  No headers: they are synched, and the blocks follow.          *)
Heavier(b, c) == IF ChainWork[c] > ChainWork[b] THEN c ELSE b

Best(headers) ==
    LET best[n \in 0 .. Len(headers)] ==
            IF n = 0 THEN tip ELSE Heavier(best[n - 1], headers[n])
    IN  best[Len(headers)]

OnHeaders ==
    /\ Receive("headers")
    /\ LET headers == Head(toUs)[2]
           best    == Best(headers)
       IN  IF headers # <<>>
           THEN /\ tree' = tree \cup Range(headers)
                /\ tip' = best
                /\ m_bHeadersSynched' = (m_bHeadersSynched /\ Range(headers) \subseteq tree)
                /\ toPeer' = IF Last(headers) = best
                             THEN Append(toPeer, GetHeadersAfter(best)) ELSE toPeer
                /\ UNCHANGED <<m_bInsertMerkleBlocks, m_lastRequestedMerkleBlockHash,
                               m_lastSynchedMerkleBlockHash>>
           ELSE /\ m_bHeadersSynched' = TRUE
                /\ IF ~ m_bHeadersSynched /\ vaultOpen
                   THEN SyncBlocks(vault)
                   ELSE UNCHANGED <<m_bInsertMerkleBlocks, m_lastRequestedMerkleBlockHash,
                                    m_lastSynchedMerkleBlockHash, toPeer>>
                /\ UNCHANGED treeVars
    /\ UNCHANGED <<m_lastRequestedBlockHash, txVars, m_bMissingTxs, vault>>

(* The block connects to the tip or replaces it. *)
ExtendsTip(b) ==
    \/ Parent(b) = tip
    \/ /\ b # Genesis /\ Parent(b) = Parent(tip)
       /\ Work(b) > Work(tip)

OnMerkleBlock ==
    /\ Receive("merkle")
    /\ LET b == Head(toUs)[2]
           s == SyncMerkleBlock(b)
           asked == IF m_bHeadersSynched THEN toPeer ELSE Append(toPeer, GetHeaders)
       IN  \/ /\ b = m_lastRequestedMerkleBlockHash
              /\ SetQueue(s) /\ SetCurrent(b)
              /\ IF s.q = <<>>
                 THEN Advance(b, asked)
                 ELSE /\ toPeer' = asked
                      /\ UNCHANGED <<m_lastRequestedMerkleBlockHash, m_lastSynchedMerkleBlockHash>>
              /\ UNCHANGED <<treeVars, m_bHeadersSynched>>
           \/ /\ b # m_lastRequestedMerkleBlockHash
              /\ ExtendsTip(b)
              /\ tree' = tree \cup {b} /\ tip' = Heavier(tip, b)
              /\ toPeer' = asked
              /\ IF m_lastSynchedMerkleBlockHash = tip
                 THEN /\ SetQueue(s) /\ SetCurrent(b)
                      /\ m_lastSynchedMerkleBlockHash' = IF s.q = <<>> THEN tip' ELSE tip
                 ELSE UNCHANGED <<txVars, vault, m_lastSynchedMerkleBlockHash>>
              /\ UNCHANGED <<m_lastRequestedMerkleBlockHash, m_bHeadersSynched>>
           \/ /\ b # m_lastRequestedMerkleBlockHash
              /\ ~ ExtendsTip(b)
              /\ IF b \in tree
                 THEN toPeer' = asked /\ UNCHANGED m_bHeadersSynched
                 ELSE toPeer' = Append(asked, GetHeaders) /\ m_bHeadersSynched' = FALSE
              /\ UNCHANGED <<treeVars, txVars, vault, m_lastRequestedMerkleBlockHash,
                             m_lastSynchedMerkleBlockHash>>
    /\ UNCHANGED <<m_lastRequestedBlockHash, m_bMissingTxs, m_bInsertMerkleBlocks>>

(* processBlockTx: the expected transaction, or one the queue does not      *)
(* expect next, which makes it fetch the whole block, once.                 *)
ProcessBlockTx(t) ==
    LET b == m_currentMerkleBlock
        s == MempoolConfirmations(b, Queue)
        r == IF s.q # <<>> /\ t = Head(s.q) THEN MempoolConfirmations(b, InsertFront(b, s, t)) ELSE s
        fetch == /\ s.q # <<>> /\ t # Head(s.q)
                 /\ m_lastRequestedMerkleBlockHash # NoBlock
                 /\ m_lastRequestedBlockHash # m_lastRequestedMerkleBlockHash
    IN  /\ SetQueue(r)
        /\ IF fetch
           THEN /\ m_bMissingTxs' = TRUE
                /\ m_lastRequestedBlockHash' = m_lastRequestedMerkleBlockHash
                /\ toPeer' = Append(toPeer, <<"getblock", m_lastRequestedMerkleBlockHash>>)
                /\ UNCHANGED <<m_lastRequestedMerkleBlockHash, m_lastSynchedMerkleBlockHash>>
           ELSE /\ IF r.q = <<>>
                   THEN Advance(b, toPeer)
                   ELSE UNCHANGED <<m_lastRequestedMerkleBlockHash,
                                    m_lastSynchedMerkleBlockHash, toPeer>>
                /\ UNCHANGED <<m_bMissingTxs, m_lastRequestedBlockHash>>

OnTx ==
    /\ Receive("tx")
    /\ LET t == Head(toUs)[2] IN
        \/ /\ m_currentMerkleTxHashes = <<>>
           /\ m_mempoolTxs' = m_mempoolTxs \cup {t}
           /\ vault' = IF vaultOpen THEN InsertNewTx(vault, t) ELSE vault
           /\ UNCHANGED <<m_currentMerkleTxHashes, m_currentMerkleTxIndex, blockVars,
                          m_bMissingTxs, toPeer>>
        \/ /\ m_currentMerkleTxHashes # <<>> /\ ~ m_bMissingTxs
           /\ ProcessBlockTx(t)
        \/ /\ m_currentMerkleTxHashes # <<>> /\ m_bMissingTxs
           /\ UNCHANGED <<m_mempoolTxs, m_currentMerkleTxHashes, m_currentMerkleTxIndex,
                          vault, blockVars, m_bMissingTxs, toPeer>>
    /\ UNCHANGED <<m_bHeadersSynched, treeVars, m_currentMerkleBlock, m_bInsertMerkleBlocks>>

(* The whole block: its transactions are matched with the queue in order. *)
ScanTx(b, s, t) == IF s.q # <<>> /\ t = Head(s.q) THEN InsertFront(b, s, t) ELSE s

ScanBlockSkipsFirst(b) ==
    LET after[n \in 0 .. Len(BlockTxs[b])] ==
            IF n <= 1 THEN Queue ELSE ScanTx(b, after[n - 1], BlockTxs[b][n])
    IN  after[Len(BlockTxs[b])]

ScanBlock(b) ==
    LET after[n \in 0 .. Len(BlockTxs[b])] ==
            IF n = 0 THEN Queue ELSE ScanTx(b, after[n - 1], BlockTxs[b][n])
    IN  after[Len(BlockTxs[b])]

OnBlock ==
    /\ Receive("block")
    /\ LET b == Head(toUs)[2] IN
        IF m_bMissingTxs /\ m_currentMerkleBlock = b
        THEN LET s == ScanBlock(b) IN
             /\ SetQueue(s)
             /\ IF s.q = <<>>
                THEN m_bMissingTxs' = FALSE /\ Advance(b, toPeer)
                ELSE UNCHANGED <<m_bMissingTxs, m_lastRequestedMerkleBlockHash,
                                 m_lastSynchedMerkleBlockHash, toPeer>>
        ELSE UNCHANGED <<m_mempoolTxs, m_currentMerkleTxHashes, m_currentMerkleTxIndex, vault,
                         m_bMissingTxs, m_lastRequestedMerkleBlockHash,
                         m_lastSynchedMerkleBlockHash, toPeer>>
    /\ UNCHANGED <<m_bHeadersSynched, treeVars, m_currentMerkleBlock, m_lastRequestedBlockHash,
                   m_bInsertMerkleBlocks>>

-----------------------------------------------------------------------------
Init ==
    /\ m_bConnected = FALSE /\ m_bHeadersSynched = FALSE
    /\ tree = {Genesis} /\ tip = Genesis
    /\ m_lastRequestedBlockHash = NoBlock /\ m_lastRequestedMerkleBlockHash = NoBlock
    /\ m_lastSynchedMerkleBlockHash = NoBlock
    /\ m_mempoolTxs = {}
    /\ m_currentMerkleBlock = NoBlock
    /\ m_currentMerkleTxHashes = <<>> /\ m_currentMerkleTxIndex = 0
    /\ m_bMissingTxs = FALSE /\ m_bInsertMerkleBlocks = FALSE
    /\ vaultOpen = TRUE /\ vault = EmptyVault
    /\ toPeer = <<>> /\ toUs = <<>>
    /\ peerTip \in {b \in Blocks : Height(b) = 1}
    /\ sent = {}
    /\ connects = 0 /\ vaultOps = 0

Handlers == OnInv \/ OnHeaders \/ OnMerkleBlock \/ OnTx \/ OnBlock
Peer == PeerReplies \/ PeerMines \/ PeerRelays
User == Open \/ Stop \/ CloseVault \/ OpenVault \/ OpenVaultFails

Next == Handlers \/ Peer \/ User

(* The io_service thread delivers what has arrived, and the peer answers    *)
(* what it is asked.                                                        *)
Spec == Init /\ [][Next]_vars /\ WF_vars(Handlers) /\ WF_vars(PeerReplies)
-----------------------------------------------------------------------------
(* Properties.                                                              *)

(* A vault whose blocks are among T: each of its transactions is confirmed  *)
(* by one of them, maybe erased since, or by none.                          *)
Vaults(T) ==
    [chain : SUBSET T, complete : SUBSET T,
     conf : UNION {[D -> T \cup {NoBlock}] : D \in SUBSET Ours}]

(* The flags, hashes and queues have their types, and the vault too. *)
TypeOK ==
    /\ {m_bConnected, m_bHeadersSynched, m_bMissingTxs, m_bInsertMerkleBlocks, vaultOpen}
            \subseteq BOOLEAN
    /\ tree \subseteq Blocks /\ tip \in tree /\ peerTip \in Blocks
    /\ {m_lastRequestedBlockHash, m_lastRequestedMerkleBlockHash,
        m_lastSynchedMerkleBlockHash} \subseteq tree \cup {NoBlock}
    /\ m_mempoolTxs \subseteq Ours /\ sent \subseteq Ours
    /\ m_currentMerkleBlock \in tree \cup {NoBlock}
    /\ m_currentMerkleTxHashes \in Seq(Ours)
    /\ m_currentMerkleTxIndex \in Nat
    /\ vault \in Vaults(tree) /\ vault.complete \subseteq vault.chain
    /\ connects \in 0 .. MaxConnects /\ vaultOps \in 0 .. MaxVaultOps

(* The hashes still expected are exactly the transactions of the current    *)
(* merkle block from the current index on: whatever mix of mempool          *)
(* confirmations, transactions, whole blocks, stops and restarts led here,  *)
(* every transaction is reported with its own index.                        *)
QueueIsRestOfBlock ==
    m_currentMerkleTxHashes # <<>> =>
        /\ m_currentMerkleBlock # NoBlock
        /\ m_currentMerkleTxHashes =
              SubSeq(TxsOf(m_currentMerkleBlock), m_currentMerkleTxIndex + 1,
                     Len(TxsOf(m_currentMerkleBlock)))

(* "In principle this should never happen" (the block handler): a whole     *)
(* block always holds every transaction the queue still expects.            *)
BlockCompletesQueue ==
    \A b \in Blocks : m_bMissingTxs /\ m_currentMerkleBlock = b => ScanBlock(b).q = <<>>

(* The vault's merkle blocks form a path of the tree: one per height, each  *)
(* but the lowest with its parent, although blocks are stored by their      *)
(* first transaction, from a queue that reorganisations, other vaults and   *)
(* refused blocks may have left behind.                                     *)
VaultIsChain ==
    \A b, c \in vault.chain :
        /\ Height(b) = Height(c) => b = c
        /\ Height(b) < Height(c) => Parent(c) \in vault.chain

(* When block sync is reported complete the vault has every block from the  *)
(* start height to the tip.                                                 *)
SynchedMeansStored ==
    vaultOpen /\ m_bConnected /\ m_lastSynchedMerkleBlockHash = tip
            /\ m_bHeadersSynched /\ m_bInsertMerkleBlocks =>
        \A i \in 1 .. Height(tip) : i >= StartHeight => Path[tip][i + 1] \in vault.complete

(* A complete block's transactions are all in the vault and confirmed. *)
CompleteMeansConfirmed ==
    \A b \in vault.complete : \A t \in Range(TxsOf(b)) :
        t \in DOMAIN vault.conf /\ vault.conf[t] = b

(* "TRANSACTIONS PUSHED OFF CHAIN MUST BE ADDED BACK TO MEMPOOL": whichever *)
(* handler stores the block that pushes a transaction off, and whatever     *)
(* else it confirms in the same step, the transaction ends in the mempool.  *)
PushedOffGoesToMempool ==
    [][\A t \in DOMAIN vault.conf \cap DOMAIN vault'.conf :
           vault.conf[t] # NoBlock /\ vault'.conf[t] = NoBlock => t \in m_mempoolTxs']_vars

(* Known limits: the code does not satisfy this one, nor OnlyLastIncomplete, *)
(* ContinuesToTip, SynchedAgain and ReconnectCompletes below; the README    *)
(* has the instances.                                                       *)
(* confirmMerkleTx: "Unconfirm any transactions with equal or larger        *)
(* height".  No transaction refers to a block the vault has erased.         *)
PushedOffIsUnconfirmed ==
    \A t \in DOMAIN vault.conf : vault.conf[t] \in vault.chain \cup {NoBlock}

(* insertMerkleTx and confirmMerkleTx set txsinserted with a block's last   *)
(* transaction: every block of the chain but the highest has all of its     *)
(* transactions.                                                            *)
OnlyLastIncomplete ==
    \A b, c \in vault.chain : Height(b) < Height(c) => b \in vault.complete

SynchedTo(b) == m_lastSynchedMerkleBlockHash = b \/ ~ m_bConnected \/ ~ vaultOpen

(* A connection that lasts reaches the tip of the peer. *)
SyncCompletes == m_bConnected ~> SynchedTo(peerTip)

(* The merkle block handler, for a block that was requested: "sync it and   *)
(* continue requesting the next until we're at the tip".                    *)
ContinuesToTip == m_lastRequestedMerkleBlockHash # NoBlock ~> SynchedTo(tip)

(* The same handler, for a block that extends or replaces the tip: "We were *)
(* synched prior to this block - we need to process this merkle block and   *)
(* we'll be synched again".                                                 *)
SynchedAgain ==
    m_lastSynchedMerkleBlockHash \notin {NoBlock, tip} ~> SynchedTo(tip)

(* The last connection, made after the vaults were opened and closed,       *)
(* reaches the tip: "Workaround, disconnect and reconnect" (known_issues).  *)
JustConnected ==
    /\ m_bConnected /\ ~ m_bHeadersSynched /\ toPeer = <<GetHeaders>> /\ sent = {}
    /\ connects = MaxConnects /\ vaultOps = MaxVaultOps /\ vaultOpen

ReconnectCompletes == JustConnected ~> SynchedTo(peerTip)
=============================================================================
