----------------------------- MODULE HeaderFile -----------------------------
(***************************************************************************)
(* The block tree and its file: CoinQBlockTreeMem::loadFromFile and        *)
(* flushToFile, NetworkSync::loadHeaders and the file flush thread         *)
(* (deps/CoinQ/src/CoinQ_blocks.cpp, CoinQ_netsync.cpp), with the process  *)
(* killed and started again at any point.                                  *)
(*                                                                         *)
(* m_fileFlushMutex is held by the flush thread from the moment it finds   *)
(* the tree unflushed until flushToFile returns (flusher = "write") and by *)
(* the inserting thread while insertHeader runs (pc # "idle"), so neither  *)
(* of the two is enabled while the other is in that state.                 *)
(*                                                                         *)
(* A definition placed just before the one it resembles and used nowhere   *)
(* is a mutant of it.                                                      *)
(***************************************************************************)
EXTENDS BlockTree

CONSTANTS
    ChunkRecords,   \* the records one read of loadFromFile asks for: 64
    MaxErrors       \* how often the disk may fail: a file that cannot be opened,
                    \* or a write, the close or the rename of the swap file

ASSUME FileAssumption == ChunkRecords \in Nat \ {0} /\ MaxErrors \in Nat

VARIABLES
    file,               \* the whole records on disk
    tornFile,           \* behind them the file ends within a record
    swp,                \* the whole records of the swap file: what is written to
                        \* it so far, or what an earlier flush has left there
    tornSwp,            \* the same for the swap file that is left
    stray,              \* a history: a flush that could not open or complete its
                        \* swap file has put this file here, or loadHeaders has
                        \* given it up
    loader,             \* where loadHeaders is
    unread,             \* the part of the file the stream has not delivered
    buf,                \* char buf[RECORD_SIZE * 64], with what was last read
    nread,              \* gcount() / RECORD_SIZE
    pos,                \* the record the for loop is at
    eof,                \* the stream's state: a read came up short
    flusher,            \* where fileFlushLoop is
    m_bFlushingToFile,
    notifyDue,          \* insertHeader is followed by m_fileFlushCond.notify_one()
    errors

loadVars  == <<loader, unread, buf, nread, pos, eof>>
flushVars == <<flusher, m_bFlushingToFile, notifyDue>>
diskVars  == <<file, tornFile, swp, tornSwp, stray>>
fileVars  == <<diskVars, loadVars, flushVars, errors>>
allVars   == <<vars, fileVars>>

LoaderStates == {"down", "reading", "newTree", "ready"}
FlusherStates == {"none", "check", "wait", "write", "retry"}

FileInit ==
    /\ Init
    /\ file = <<>> /\ swp = <<>>
    /\ tornFile = FALSE /\ tornSwp = FALSE /\ stray = FALSE
    /\ loader = "down"
    /\ unread = <<>> /\ buf = <<>> /\ nread = 0 /\ pos = 0 /\ eof = FALSE
    /\ flusher = "none" /\ m_bFlushingToFile = FALSE /\ notifyDue = FALSE
    /\ errors = 0

-----------------------------------------------------------------------------
(* loadHeaders, on the thread that starts the program.                      *)

(* A file that is empty or ends within a record has no whole records, or    *)
(* tornFile set: no file at all is <<>> and ~ tornFile.                     *)
FileExists == file # <<>> \/ tornFile
SwapExists == swp # <<>> \/ tornSwp

(* A file of a wrong length throws before anything is read, and so does one *)
(* that cannot be opened.  (An empty one passes that test and throws or     *)
(* kills the process at the first read, as LoadThrows says.)                *)
OpenFile ==
    /\ loader = "down"
    /\ Clear
    /\ \/ /\ ~ FileExists
          /\ loader' = "newTree" /\ UNCHANGED <<unread, stray, errors>>
       \/ /\ tornFile
          /\ loader' = "newTree" /\ stray' = TRUE /\ UNCHANGED <<unread, errors>>
       \/ /\ file # <<>> /\ errors < MaxErrors
          /\ errors' = errors + 1
          /\ loader' = "newTree" /\ stray' = TRUE /\ UNCHANGED unread
       \/ /\ file # <<>> /\ ~ tornFile
          /\ loader' = "reading" /\ unread' = file /\ UNCHANGED <<stray, errors>>
    /\ UNCHANGED <<file, tornFile, swp, tornSwp, buf, nread, pos, eof, flushVars>>

(* The end of the for loop over one chunk.  nbytesread - RECORD_SIZE is     *)
(* unsigned: after a read of no records at all the bound is near 2^32 and   *)
(* the loop goes through the stale buffer and on past its end.              *)
ChunkDoneEarly == nread > 0 /\ pos + 1 = nread
ChunkDone == nread > 0 /\ pos = nread
Overrun == nread = 0 /\ pos = ChunkRecords

Least(a, b) == IF a < b THEN a ELSE b

ReadChunk ==
    LET n == Least(ChunkRecords, Len(unread))
    IN  /\ loader = "reading" /\ pc = "idle"
        /\ ~ eof
        /\ buf = <<>> \/ ChunkDone
        /\ buf' = SubSeq(unread, 1, n) \o SubSeq(buf, n + 1, Len(buf))
        /\ unread' = SubSeq(unread, n + 1, Len(unread))
        /\ nread' = n
        /\ eof' = (n < ChunkRecords)
        /\ pos' = 0
        /\ UNCHANGED <<vars, diskVars, loader, flushVars, errors>>

(* One record: the genesis block, a new header, or one that is already in   *)
(* the tree, for which insertHeader returns false.                          *)
LoadRecord ==
    /\ loader = "reading" /\ pc = "idle"
    /\ buf # <<>> /\ ~ ChunkDone /\ ~ Overrun
    /\ LET h == buf[pos + 1]
       IN  \/ mBestHeight < 0 /\ h = Genesis /\ SetGenesisBlock
           \/ mBestHeight >= 0 /\ InsertHeader(h, FALSE, FALSE)
           \/ mBestHeight >= 0 /\ h \in mHeaderHashMap /\ UNCHANGED vars
    /\ pos' = pos + 1
    /\ UNCHANGED <<diskVars, loader, unread, buf, nread, eof, flushVars, errors>>

LoadDone ==
    /\ loader = "reading" /\ pc = "idle"
    /\ ChunkDone /\ eof
    /\ loader' = "ready" /\ stray' = FALSE
    /\ UNCHANGED <<vars, file, tornFile, swp, tornSwp, unread, buf, nread, pos, eof>>
    /\ UNCHANGED <<flushVars, errors>>

(* Whatever lies behind buf on the stack does not carry its own checksum:   *)
(* BlockTreeChecksumErrorException, caught by loadHeaders.  (The read may   *)
(* also kill the process, which Crash covers.)                              *)
LoadThrows ==
    /\ loader = "reading" /\ pc = "idle"
    /\ Overrun
    /\ Clear
    /\ loader' = "newTree" /\ stray' = TRUE
    /\ UNCHANGED <<file, tornFile, swp, tornSwp, unread, buf, nread, pos, eof>>
    /\ UNCHANGED <<flushVars, errors>>

(* "Block tree file not found. A new one will be created." *)
NewTree ==
    /\ loader = "newTree"
    /\ SetGenesisBlock
    /\ loader' = "ready"
    /\ UNCHANGED <<diskVars, unread, buf, nread, pos, eof, flushVars, errors>>

-----------------------------------------------------------------------------
(* The flush thread, from NetworkSync::start to NetworkSync::stop.          *)

StartFileFlushThread ==
    /\ loader = "ready"
    /\ flusher = "none" /\ ~ m_bFlushingToFile
    /\ m_bFlushingToFile' = TRUE
    /\ flusher' = "check"
    /\ UNCHANGED <<vars, diskVars, loadVars, notifyDue, errors>>

(* m_fileFlushCond: a thread that is not waiting does not hear it. *)
SleepOn(state) == state

WakeUp(state) == IF state = "wait" THEN "check" ELSE state

StopFileFlushThread ==
    /\ m_bFlushingToFile
    /\ flusher # "write" /\ pc = "idle"
    /\ m_bFlushingToFile' = FALSE
    /\ flusher' = WakeUp(flusher)
    /\ UNCHANGED <<vars, diskVars, loadVars, notifyDue, errors>>

FlushLoopTestNoTrunc ==
    /\ flusher = "check" /\ pc = "idle"
    /\ flusher' = CASE ~ m_bFlushingToFile -> "none"
                    [] m_bFlushingToFile /\ bFlushed -> "wait"
                    [] OTHER -> "write"
    /\ UNCHANGED <<swp, tornSwp>>
    /\ UNCHANGED <<vars, file, tornFile, stray, loadVars, m_bFlushingToFile, notifyDue>>
    /\ UNCHANGED errors

(* The lock is held from here on.  A swap file that opens is truncated.     *)
FlushLoopTest ==
    /\ flusher = "check" /\ pc = "idle"
    /\ flusher' = CASE ~ m_bFlushingToFile -> "none"
                    [] m_bFlushingToFile /\ bFlushed -> "wait"
                    [] OTHER -> "write"
    /\ IF flusher' = "write" THEN swp' = <<>> /\ tornSwp' = FALSE
                             ELSE UNCHANGED <<swp, tornSwp>>
    /\ UNCHANGED <<vars, file, tornFile, stray, loadVars, m_bFlushingToFile, notifyDue>>
    /\ UNCHANGED errors

FlushRecord ==
    /\ flusher = "write"
    /\ Len(swp) <= mBestHeight
    /\ swp' = Append(swp, mHeaderHeightMap[Len(swp)])
    /\ UNCHANGED <<vars, file, tornFile, tornSwp, stray, loadVars, flushVars, errors>>

(* rename(swapfile, p): bFlushed is set whatever the swap file holds.       *)
RenameSwap ==
    /\ FlushToFile
    /\ swp' = <<>> /\ tornSwp' = FALSE
    /\ flusher' = "check"
    /\ UNCHANGED <<loadVars, m_bFlushingToFile, notifyDue>>

FlushRenameShort ==
    /\ flusher = "write"
    /\ Len(swp) >= mBestHeight
    /\ RenameSwap
    /\ file' = swp /\ tornFile' = FALSE /\ stray' = FALSE
    /\ UNCHANGED errors

FlushRename ==
    /\ flusher = "write"
    /\ Len(swp) > mBestHeight
    /\ RenameSwap
    /\ file' = swp /\ tornFile' = FALSE /\ stray' = FALSE
    /\ UNCHANGED errors

(* What the disk may hold of n records that were written to a stream whose  *)
(* buffer did not reach it as a whole: with the bytes of a further one      *)
(* behind them, or of none.                                                 *)
CutAt(n, records, torn) ==
    /\ n \in 0 .. Len(swp)
    /\ records = SubSeq(swp, 1, n)
    /\ torn \in BOOLEAN
    /\ n = 0 => torn
    /\ torn => n <= mBestHeight

(* The last buffer is written by the stream's destructor, whose error       *)
(* nobody sees: the rename puts a cut file in place.                        *)
FlushRenameCut ==
    /\ flusher = "write"
    /\ Len(swp) > mBestHeight
    /\ errors < MaxErrors
    /\ errors' = errors + 1
    /\ RenameSwap
    /\ \E n \in 0 .. mBestHeight : CutAt(n, file', tornFile')
    /\ stray' = TRUE

DiskFails ==
    /\ flusher = "check" /\ pc = "idle" /\ m_bFlushingToFile /\ ~ bFlushed
    /\ errors < MaxErrors
    /\ errors' = errors + 1

(* The swap file cannot be opened.  Only the stream's failbit is set, which *)
(* fs.bad() does not look at; nothing is written, and the rename moves what *)
(* an earlier flush has left under that name ...                            *)
FlushUnopened ==
    /\ DiskFails
    /\ SwapExists
    /\ RenameSwap
    /\ file' = swp /\ tornFile' = tornSwp /\ stray' = TRUE

(* ... or, when there is no such file, fails and throws.                    *)
FlushUnopenedThrows ==
    /\ DiskFails
    /\ ~ SwapExists
    /\ flusher' = "retry"
    /\ UNCHANGED <<vars, diskVars, loadVars, m_bFlushingToFile, notifyDue>>

(* A write or the rename throws: the swap file stays behind, the mutex is   *)
(* released and the thread sleeps for five seconds.                         *)
FlushThrows ==
    /\ flusher = "write"
    /\ errors < MaxErrors
    /\ errors' = errors + 1
    /\ \E n \in 0 .. Len(swp) : CutAt(n, swp', tornSwp')
    /\ flusher' = "retry"
    /\ UNCHANGED <<vars, file, tornFile, stray, loadVars, m_bFlushingToFile, notifyDue>>

FlushRetry ==
    /\ flusher = "retry"
    /\ flusher' = "check"
    /\ UNCHANGED <<vars, diskVars, loadVars, m_bFlushingToFile, notifyDue, errors>>

-----------------------------------------------------------------------------
(* The peer's messages, while the synchronisation runs.                     *)

(* headers: inserts without a notification ...                              *)
OnHeader(h) ==
    /\ m_bFlushingToFile /\ flusher # "write" /\ ~ notifyDue
    /\ InsertHeader(h, TRUE, FALSE)
    /\ UNCHANGED fileVars

(* ... until the peer has no more of them. *)
OnNoMoreHeaders ==
    /\ m_bFlushingToFile /\ pc = "idle" /\ ~ notifyDue
    /\ flusher' = WakeUp(flusher)
    /\ UNCHANGED <<vars, diskVars, loadVars, m_bFlushingToFile, notifyDue, errors>>

(* merkleblock, insertMerkleBlock: every insertion is followed by one. *)
OnMerkleBlock(h) ==
    /\ m_bFlushingToFile /\ flusher # "write" /\ ~ notifyDue
    /\ InsertHeader(h, TRUE, FALSE)
    /\ notifyDue' = TRUE
    /\ UNCHANGED <<diskVars, loadVars, flusher, m_bFlushingToFile, errors>>

NotifyOne ==
    /\ notifyDue /\ pc = "idle"
    /\ notifyDue' = FALSE
    /\ flusher' = WakeUp(flusher)
    /\ UNCHANGED <<vars, diskVars, loadVars, m_bFlushingToFile, errors>>

TreeLoops == SetBestChainStep /\ UNCHANGED fileVars

(* The process dies, or is quit: stop() does not flush.  Only the two files *)
(* survive, and of a swap file that is being written what has reached it.   *)
Crash ==
    /\ loader # "down"
    /\ mHeaderHashMap' = {}
    /\ height' = [h \in Header |-> -1]
    /\ chainWork' = [h \in Header |-> 0]
    /\ childHashes' = [h \in Header |-> {}]
    /\ inBestChain' = {}
    /\ mHeaderHeightMap' = <<>>
    /\ mBestHeight' = -1
    /\ mTotalWork' = 0
    /\ pHead' = NoHeader
    /\ bFlushed' = TRUE
    /\ pc' = "idle" /\ header' = NoHeader /\ pParent' = NoHeader /\ newBestChain' = <<>>
    /\ loader' = "down"
    /\ unread' = <<>> /\ buf' = <<>> /\ nread' = 0 /\ pos' = 0 /\ eof' = FALSE
    /\ flusher' = "none" /\ m_bFlushingToFile' = FALSE /\ notifyDue' = FALSE
    /\ IF flusher = "write" THEN \E n \in 0 .. Len(swp) : CutAt(n, swp', tornSwp')
                            ELSE UNCHANGED <<swp, tornSwp>>
    /\ UNCHANGED <<file, tornFile, stray, errors>>

Load == OpenFile \/ ReadChunk \/ LoadRecord \/ LoadDone \/ LoadThrows \/ NewTree
FlushThread ==
    \/ FlushLoopTest \/ FlushRecord \/ FlushRename \/ FlushRetry
    \/ FlushRenameCut \/ FlushUnopened \/ FlushUnopenedThrows \/ FlushThrows

FileNext ==
    \/ Load
    \/ StartFileFlushThread \/ StopFileFlushThread
    \/ FlushThread
    \/ \E h \in Header : OnHeader(h) \/ OnMerkleBlock(h)
    \/ OnNoMoreHeaders \/ NotifyOne
    \/ TreeLoops
    \/ Crash

(* Each thread runs on: the loading thread, the flush thread (the mutex is  *)
(* free again and again) and the one that is inside insertHeader or about   *)
(* to notify.  Nothing is assumed of the peer, the user or the disk.        *)
FileSpec ==
    /\ FileInit /\ [][FileNext]_allVars
    /\ WF_allVars(Load)
    /\ WF_allVars(FlushThread)
    /\ WF_allVars(TreeLoops) /\ WF_allVars(NotifyOne)
-----------------------------------------------------------------------------
(* Properties.                                                              *)

(* Types of the file's and the threads' variables. *)
FileTypeOK ==
    /\ TypeOK
    /\ {file, swp, unread, buf} \subseteq Seq(Header)
    /\ loader \in LoaderStates /\ flusher \in FlusherStates
    /\ nread \in 0 .. ChunkRecords /\ pos \in 0 .. ChunkRecords
    /\ {eof, m_bFlushingToFile, notifyDue, tornFile, tornSwp, stray} \subseteq BOOLEAN
    /\ errors \in 0 .. MaxErrors

Last(s) == s[Len(s)]

(* Whenever the process is killed, the whole records on disk under the      *)
(* file's own name are one chain from the genesis block, and not a mix of   *)
(* two branches, also when a swap file of an earlier process was renamed;   *)
(* and the file ends within a record only when a flush could not open or    *)
(* complete its swap file.                                                  *)
FileIsChain ==
    /\ tornFile => stray
    /\ file # <<>> => /\ file[1] = Genesis
                      /\ \A i \in 2 .. Len(file) : Prev[file[i]] = file[i - 1]

(* loadFromFile rebuilds from the file the very chain that was flushed: it  *)
(* does not depend on the order of insertion or on ties of work.            *)
LoadRestoresChain ==
    [][loader = "reading" /\ loader' = "ready" =>
           /\ pHead = Last(file)
           /\ inBestChain = {file[i] : i \in DOMAIN file}]_allVars

(* A file that was flushed or loaded is only ever replaced by a chain with  *)
(* at least its work, by a process that had loaded it: no start, crash or   *)
(* flush that throws loses synchronised headers.  (A flush that could not   *)
(* open or complete its swap file may lose them, unnoticed, and so does a   *)
(* start that gives the file up: see NotFoundMeansMissing.)                 *)
FileNeverLosesWork ==
    [][file' # file /\ file # <<>> /\ ~ stray /\ ~ stray' =>
           /\ file' # <<>> /\ Last(file) \in mHeaderHashMap
           /\ chainWork[Last(file)] <= chainWork[Last(file')]]_allVars

(* A tree that claims to be flushed has its best chain on disk, unless a    *)
(* flush could not open or complete its swap file.  (A tree that is still   *)
(* empty claims nothing.)                                                   *)
FlushedMeansOnDisk ==
    bFlushed /\ loader = "ready" /\ pc = "idle" /\ ~ stray =>
        file # <<>> /\ Last(file) = pHead

(* A header announced by a merkle block reaches the disk, unless the        *)
(* synchronisation is stopped or the process dies first, or a swap file     *)
(* fails to open or to close: no wake-up of the flush thread is lost.       *)
NotifiedHeadersReachDisk ==
    notifyDue /\ ~ bFlushed ~>
        \/ bFlushed /\ (stray \/ (file # <<>> /\ Last(file) = pHead))
        \/ ~ m_bFlushingToFile

(* stopFileFlushThread's join returns. *)
FlushThreadStops == loader = "ready" /\ ~ m_bFlushingToFile ~> flusher = "none"

(* NetworkSync::loadHeaders reports "Block tree file not found. A new one   *)
(* will be created." in loader state "newTree".                             *)
NotFoundMeansMissing == loader = "newTree" => ~ FileExists
=============================================================================
