-------------------------- MODULE HeaderFileProofs --------------------------
(***************************************************************************)
(* The block tree's file survives crashes, for every tree of headers,      *)
(* every size of the read buffer and any number of disk errors: what is on *)
(* disk is a chain, loading it gives that chain again, and it is only      *)
(* replaced by a chain of at least its work, unless a flush could not open *)
(* or complete its swap file.                                              *)
(*                                                                         *)
(* The tree's own invariant (module BlockTreeInv) holds while it is loaded *)
(* and flushed too.  To it come: what the swap file has of the best chain, *)
(* which nobody changes while it is written; and how far loadFromFile has  *)
(* come, as the file's first records, which are then the whole tree.  The  *)
(* swap file is a chain at all times, also when a process that is gone has *)
(* left it: so is the file when such a one is renamed.                     *)
(***************************************************************************)
EXTENDS HeaderFile, BlockTreeProofs, SequenceTheorems

IsChain(s) ==
    s # <<>> => /\ s[1] = Genesis
                /\ \A i \in 2 .. Len(s) : Prev[s[i]] = s[i - 1]

Distinct(s) == \A i, j \in 1 .. Len(s) : s[i] = s[j] => i = j

(* What is on disk, and what flushed() says of it. *)
DiskOK ==
    /\ IsChain(file) /\ Distinct(file)
    /\ IsChain(swp) /\ Distinct(swp)
    /\ tornFile => stray
    /\ bFlushed /\ pc = "idle" /\ mHeaderHashMap # {} =>
          loader = "ready" /\ (stray \/ (file # <<>> /\ Last(file) = pHead))

(* The flush thread: what is in the swap file is the beginning of the best  *)
(* chain, which stays as it is until flushToFile returns.                   *)
FlushOK ==
    /\ flusher # "none" \/ m_bFlushingToFile \/ notifyDue => loader = "ready"
    /\ flusher = "write" =>
          /\ pc = "idle"
          /\ Len(swp) <= mBestHeight + 1
          /\ \A i \in 1 .. Len(swp) : swp[i] = mHeaderHeightMap[i - 1]

(* The tree has the first k records of the file and nothing else. *)
Loaded(k) ==
    /\ mHeaderHashMap = {file[i] : i \in 1 .. k}
    /\ \A i \in 1 .. k : height[file[i]] = i - 1

(* The first of the records that are in the buffer. *)
ChunkStart == Len(file) - Len(unread) - nread

(* loadFromFile between two reads: before the first, ... *)
BeforeRead ==
    /\ nread = 0 /\ pos = 0 /\ unread = file /\ mHeaderHashMap = {} /\ ~eof

(* ... when a read has delivered records, and ...                           *)
InChunk ==
    /\ ChunkStart \in Nat /\ pos <= nread /\ nread <= Len(buf)
    /\ \A i \in 1 .. Len(unread) : unread[i] = file[ChunkStart + nread + i]
    /\ \A i \in 1 .. nread : buf[i] = file[ChunkStart + i]
    /\ Loaded(ChunkStart + pos)
    /\ eof => unread = <<>>
    /\ ~eof => nread = ChunkRecords /\ Len(buf) = ChunkRecords

(* ... when it has delivered none, and the loop goes through what the       *)
(* buffer still holds.                                                      *)
StaleChunk ==
    /\ eof /\ Len(buf) = ChunkRecords
    /\ \A i \in 1 .. Len(buf) : buf[i] \in mHeaderHashMap

Reading ==
    /\ file # <<>> /\ ~ tornFile
    /\ buf = <<>> => BeforeRead
    /\ buf # <<>> /\ nread > 0 => InChunk
    /\ buf # <<>> /\ nread = 0 => StaleChunk

LoadOK ==
    /\ loader \in {"down", "newTree"} => mHeaderHashMap = {} /\ pc = "idle"
    /\ loader = "down" => buf = <<>> /\ nread = 0 /\ pos = 0 /\ ~eof
    /\ loader = "newTree" => file = <<>> \/ stray
    /\ loader = "reading" => Reading
    /\ loader = "ready" => mHeaderHashMap # {}
    /\ loader = "ready" /\ file # <<>> /\ ~ stray => Last(file) \in mHeaderHashMap

FileInv == FileTypeOK /\ Inv /\ DiskOK /\ FlushOK /\ LoadOK

USE HeaderAssumption, PrevAssumption, WorkAssumption, PowAssumption, FileAssumption

-----------------------------------------------------------------------------
(* Arithmetic and sequences.                                                *)

(* w is the sequence b without its first n elements, and r is b with its    *)
(* first n elements, or all of it, overwritten by those of v.               *)
IsRest(w, b, n) ==
    /\ Len(w) = IF n <= Len(b) THEN Len(b) - n ELSE 0
    /\ \A i \in 1 .. Len(w) : w[i] = b[n + i]

Overwrites(r, v, b, n) ==
    /\ Len(r) = IF n <= Len(b) THEN Len(b) ELSE n
    /\ \A i \in 1 .. n : r[i] = v[i]
    /\ \A i \in 1 .. Len(r) : i > n => r[i] = b[i]

(* A read of n records v leaves them in front of the rest of the buffer. *)
LEMMA OverwriteFacts ==
  ASSUME NEW S, NEW v \in Seq(S), NEW w \in Seq(S), NEW b \in Seq(S), NEW n \in Nat,
         Len(v) = n, IsRest(w, b, n)
  PROVE  v \o w \in Seq(S) /\ Overwrites(v \o w, v, b, n)
<1> USE DEF IsRest
<1>0. Len(b) \in Nat /\ Len(w) \in Nat
  BY LenProperties
<1>1. v \o w \in Seq(S) /\ Len(v \o w) = Len(v) + Len(w)
  BY ConcatProperties
<1>2. \A i \in 1 .. Len(v) + Len(w) :
          (v \o w)[i] = IF i <= Len(v) THEN v[i] ELSE w[i - Len(v)]
  BY ConcatProperties
<1>3. Len(v \o w) = IF n <= Len(b) THEN Len(b) ELSE n
  BY <1>0, <1>1
<1>4. PICK m \in Nat : m = Len(w)
  BY <1>0
<1>5. \A i \in 1 .. n : i \in 1 .. n + m /\ i <= n
  BY <1>4
<1>6. \A i \in 1 .. n : (v \o w)[i] = v[i]
  BY <1>2, <1>4, <1>5
<1>7. ASSUME NEW i \in 1 .. Len(v \o w), i > n PROVE (v \o w)[i] = b[i]
  <2>1. i \in 1 .. n + m /\ ~(i <= n) /\ i - n \in 1 .. m /\ n + (i - n) = i
    BY <1>1, <1>4, <1>7
  <2>2. (v \o w)[i] = w[i - n]
    BY <1>2, <1>4, <2>1
  <2>3. w[i - n] = b[n + (i - n)]
    BY <1>4, <2>1
  <2> QED
    BY <2>1, <2>2, <2>3
<1> QED
  BY <1>1, <1>3, <1>6, <1>7 DEF Overwrites

(* What a read of n records leaves in the stream u and in the buffer b. *)
LEMMA ReadFacts ==
  ASSUME NEW S, NEW u \in Seq(S), NEW b \in Seq(S), NEW n \in 0 .. Len(u)
  PROVE  /\ SubSeq(u, 1, n) \o SubSeq(b, n + 1, Len(b)) \in Seq(S)
         /\ SubSeq(u, n + 1, Len(u)) \in Seq(S)
         /\ Overwrites(SubSeq(u, 1, n) \o SubSeq(b, n + 1, Len(b)), u, b, n)
         /\ IsRest(SubSeq(u, n + 1, Len(u)), u, n)
<1> DEFINE v == SubSeq(u, 1, n)
           w == SubSeq(b, n + 1, Len(b))
           q == SubSeq(u, n + 1, Len(u))
<1>0. n \in Nat /\ n <= Len(u) /\ Len(u) \in Nat /\ Len(b) \in Nat
  BY LenProperties
<1>1. v \in Seq(S) /\ Len(v) = n /\ \A i \in 1 .. n : v[i] = u[i]
  BY <1>0, SubSeqProperties, Z3
<1>2. w \in Seq(S) /\ IsRest(w, b, n)
  BY <1>0, SubSeqProperties DEF IsRest
<1>3. q \in Seq(S) /\ IsRest(q, u, n)
  BY <1>0, SubSeqProperties DEF IsRest
<1> HIDE DEF v, w, q
<1>4. v \o w \in Seq(S) /\ Overwrites(v \o w, v, b, n)
  BY <1>0, <1>1, <1>2, OverwriteFacts, Zenon
<1>5. Overwrites(v \o w, u, b, n)
  BY <1>1, <1>4, Zenon DEF Overwrites
<1> QED
  BY <1>3, <1>4, <1>5, Zenon DEF v, w, q

-----------------------------------------------------------------------------
(* What the tree's invariant says between two calls of insertHeader.        *)

(* The height map is a chain from the genesis block to pHead: what          *)
(* flushToFile writes.                                                      *)
LEMMA BestRecords ==
  ASSUME Inv, pc = "idle", mHeaderHashMap # {}
  PROVE  /\ mBestHeight \in Nat /\ mHeaderHeightMap[0] = Genesis
         /\ mHeaderHeightMap[mBestHeight] = pHead
         /\ pHead \in mHeaderHashMap /\ pHead \in Header
         /\ \A n \in 0 .. mBestHeight : /\ mHeaderHeightMap[n] \in Header
                                        /\ height[mHeaderHeightMap[n]] = n
         /\ \A n \in 1 .. mBestHeight :
                Prev[mHeaderHeightMap[n]] = mHeaderHeightMap[n - 1]
<1>1. /\ TypeOK /\ TreeInv /\ TipInv /\ PathTo(pHead)
      /\ Genesis \in inBestChain /\ height[Genesis] = 0 /\ mBestHeight = height[pHead]
  BY DEF Inv, IdleInv, TreeInv, TipInv
<1>2. pHead \in inBestChain /\ pHead \in mHeaderHashMap /\ pHead \in Header
  BY <1>1 DEF PathTo, TreeInv, TypeOK
<1>3. mBestHeight \in Nat
  BY <1>1, <1>2 DEF TreeInv
<1>4. mHeaderHeightMap[0] = Genesis /\ mHeaderHeightMap[mBestHeight] = pHead
  BY <1>1, <1>2 DEF PathTo
<1>5. \A n \in 0 .. mBestHeight :
          /\ mHeaderHeightMap[n] \in inBestChain /\ mHeaderHeightMap[n] \in mHeaderHashMap
          /\ mHeaderHeightMap[n] \in Header /\ height[mHeaderHeightMap[n]] = n
  BY <1>1 DEF PathTo, TreeInv, TypeOK
<1>6. ASSUME NEW n \in 1 .. mBestHeight
      PROVE  Prev[mHeaderHeightMap[n]] = mHeaderHeightMap[n - 1]
  <2> DEFINE h == mHeaderHeightMap[n]
  <2>1. /\ h \in inBestChain /\ h \in mHeaderHashMap /\ height[h] = n /\ n \in Nat
        /\ h # Genesis /\ n - 1 \in Nat
    BY <1>1, <1>3, <1>5
  <2> HIDE DEF h
  <2>2. Prev[h] \in inBestChain /\ height[h] = height[Prev[h]] + 1
    BY <1>1, <2>1 DEF PathTo, TreeInv
  <2>3. Prev[h] \in mHeaderHashMap /\ height[Prev[h]] \in Nat
    BY <1>1, <2>2 DEF TreeInv
  <2>4. height[Prev[h]] = n - 1
    BY <2>1, <2>2, <2>3
  <2>5. mHeaderHeightMap[height[Prev[h]]] = Prev[h]
    BY <1>1, <2>2 DEF PathTo
  <2> QED
    BY <2>4, <2>5 DEF h
<1> QED
  BY <1>2, <1>3, <1>4, <1>5, <1>6

(* What insertHeader has done to the tree when it starts its loops or       *)
(* returns.                                                                 *)
LEMMA InsertFacts ==
  ASSUME TypeOK, NEW h \in Header, NEW check \in BOOLEAN, NEW replace \in BOOLEAN,
         InsertHeader(h, check, replace)
  PROVE  /\ pc = "idle" /\ h \notin mHeaderHashMap /\ Prev[h] \in mHeaderHashMap
         /\ mHeaderHashMap' = mHeaderHashMap \cup {h}
         /\ height'[h] = height[Prev[h]] + 1
         /\ \A g \in mHeaderHashMap : height'[g] = height[g]
         /\ pc' = "idle" => ~ bFlushed'
<1>1. /\ pc = "idle" /\ h \notin mHeaderHashMap /\ Prev[h] \in mHeaderHashMap
      /\ mHeaderHashMap' = mHeaderHashMap \cup {h}
      /\ height' = [height EXCEPT ![h] = height[Prev[h]] + 1]
      /\ mHeaderHashMap \subseteq Header /\ height \in [Header -> Int]
  BY DEF InsertHeader, Accepts, TypeOK
<1>2. pc' = "idle" => ~ bFlushed'
  BY DEF InsertHeader, loopVars
<1> QED
  BY <1>1, <1>2

(* The loops leave the tree alone, and the last of their steps marks it as  *)
(* not flushed.                                                             *)
LEMMA LoopFacts ==
  ASSUME SetBestChainStep
  PROVE  /\ pc # "idle" /\ UNCHANGED treeVars
         /\ pc' = "idle" => ~ bFlushed'
BY DEF SetBestChainStep, Retrace, ForkAtTip, UnsetFirst, UnsetNext, UnsetDone, SetNext,
       SetDone, StartSetting

-----------------------------------------------------------------------------
(* The tree's invariant and the types.                                      *)

(* The loop over a chunk stays in the buffer, also when it goes through it  *)
(* a second time.                                                           *)
LEMMA RecordInBuffer ==
  ASSUME FileTypeOK, Reading, buf # <<>>, ~ ChunkDone, ~ Overrun
  PROVE  /\ pos + 1 \in 1 .. Len(buf) /\ pos + 1 \in 0 .. ChunkRecords
         /\ pos \in Nat /\ (nread > 0 => pos < nread)
         /\ buf[pos + 1] \in Header
<1>0. /\ buf \in Seq(Header) /\ Len(buf) \in Nat /\ nread \in Nat /\ pos \in Nat
      /\ nread <= ChunkRecords /\ pos <= ChunkRecords
  BY LenProperties DEF FileTypeOK
<1>1. CASE nread > 0
  BY <1>0, <1>1 DEF Reading, InChunk, ChunkDone
<1>2. CASE nread = 0
  BY <1>0, <1>2 DEF Reading, StaleChunk, Overrun
<1> QED
  BY <1>0, <1>1, <1>2

(* Every step on the file is a step of the tree or leaves it alone, except  *)
(* the crash, which leaves the tree of a process that has just started.     *)
LEMMA TreeKept == FileInv /\ [FileNext]_allVars => Inv'
<1> SUFFICES ASSUME FileInv, [FileNext]_allVars PROVE Inv'
  OBVIOUS
<1>0. FileTypeOK /\ Inv /\ LoadOK
  BY DEF FileInv
<1>1. ASSUME UNCHANGED vars PROVE Inv'
  BY <1>0, <1>1, NextInv
<1>2. ASSUME Next PROVE Inv'
  BY <1>0, <1>2, NextInv
<1>3. CASE Load
  <2>1. CASE OpenFile
    BY <1>2, <2>1 DEF OpenFile, Next
  <2>2. CASE ReadChunk
    BY <1>1, <2>2 DEF ReadChunk
  <2>3. CASE LoadRecord
    <3> DEFINE h == buf[pos + 1]
    <3>1. CASE SetGenesisBlock
      BY <1>2, <3>1 DEF Next
    <3>2. CASE InsertHeader(h, FALSE, FALSE)
      <4>1. h \in Header
        BY <1>0, <2>3, RecordInBuffer DEF LoadRecord, LoadOK
      <4> QED
        BY <1>2, <3>2, <4>1 DEF Next
    <3>3. CASE UNCHANGED vars
      BY <1>1, <3>3
    <3> QED
      BY <2>3, <3>1, <3>2, <3>3 DEF LoadRecord
  <2>4. CASE LoadDone
    BY <1>1, <2>4 DEF LoadDone
  <2>5. CASE LoadThrows
    BY <1>2, <2>5 DEF LoadThrows, Next
  <2>6. CASE NewTree
    BY <1>2, <2>6 DEF NewTree, Next
  <2> QED
    BY <1>3, <2>1, <2>2, <2>3, <2>4, <2>5, <2>6 DEF Load
<1>4. CASE StartFileFlushThread \/ StopFileFlushThread \/ OnNoMoreHeaders \/ NotifyOne
  BY <1>1, <1>4 DEF StartFileFlushThread, StopFileFlushThread, OnNoMoreHeaders, NotifyOne
<1>5. CASE FlushThread
  <2>1. CASE FlushRename \/ FlushRenameCut \/ FlushUnopened
    BY <1>2, <2>1 DEF FlushRename, FlushRenameCut, FlushUnopened, RenameSwap, Next
  <2> QED
    BY <1>1, <1>5, <2>1
       DEF FlushThread, FlushLoopTest, FlushRecord, FlushThrows, FlushUnopenedThrows,
           FlushRetry
<1>6. ASSUME NEW h \in Header, OnHeader(h) \/ OnMerkleBlock(h) PROVE Inv'
  BY <1>2, <1>6 DEF OnHeader, OnMerkleBlock, Next
<1>7. CASE TreeLoops
  BY <1>2, <1>7 DEF TreeLoops, Next
<1>8. CASE Crash
  <2>1. Init'
    BY <1>8 DEF Crash, Init
  <2>2. (Init => Inv)'
    BY InitInv, PTL
  <2> QED
    BY <2>1, <2>2
<1>9. CASE UNCHANGED allVars
  BY <1>1, <1>9 DEF allVars
<1> QED
  BY <1>3, <1>4, <1>5, <1>6, <1>7, <1>8, <1>9 DEF FileNext

(* What a stream that was cut off leaves are headers. *)
LEMMA CutTypes ==
  ASSUME swp \in Seq(Header), NEW n, NEW records, NEW torn, CutAt(n, records, torn)
  PROVE  records \in Seq(Header) /\ torn \in BOOLEAN
<1>1. n \in 0 .. Len(swp) /\ Len(swp) \in Nat /\ records = SubSeq(swp, 1, n)
  BY LenProperties DEF CutAt
<1>2. SubSeq(swp, 1, n) \in Seq(Header)
  BY <1>1, SubSeqProperties
<1> QED
  BY <1>1, <1>2 DEF CutAt

(* The types of the file's variables. *)
LEMMA FileTypesKept == FileInv /\ [FileNext]_allVars => FileTypeOK'
<1> SUFFICES ASSUME FileInv, [FileNext]_allVars PROVE FileTypeOK'
  OBVIOUS
<1>0. FileTypeOK /\ Inv /\ LoadOK /\ FlushOK
  BY DEF FileInv
<1>1. TypeOK'
  <2>1. Inv'
    BY TreeKept
  <2> QED
    BY <2>1 DEF Inv
<1>2. /\ {file, swp, unread, buf} \subseteq Seq(Header)
      /\ loader \in LoaderStates /\ flusher \in FlusherStates
      /\ nread \in 0 .. ChunkRecords /\ pos \in 0 .. ChunkRecords
      /\ {eof, m_bFlushingToFile, notifyDue, tornFile, tornSwp, stray} \subseteq BOOLEAN
      /\ errors \in 0 .. MaxErrors
  BY <1>0 DEF FileTypeOK
<1>3. <<>> \in Seq(Header)
  BY EmptySeq
<1> USE DEF LoaderStates, FlusherStates, loadVars, flushVars, diskVars
<1>4. CASE Load
  <2>1. CASE OpenFile
    <3>1. /\ loader' \in LoaderStates /\ unread' \in {unread, file} /\ stray' \in {stray, TRUE}
          /\ UNCHANGED <<file, tornFile, swp, tornSwp, buf, nread, pos, eof, flushVars>>
      BY <1>2, <2>1 DEF OpenFile
    <3>2. errors' = errors \/ (errors < MaxErrors /\ errors' = errors + 1)
      BY <2>1 DEF OpenFile
    <3>3. MaxErrors \in Nat
      BY FileAssumption
    <3>4. errors' \in 0 .. MaxErrors
      BY <1>2, <3>2, <3>3
    <3> QED
      BY <1>1, <1>2, <3>1, <3>4 DEF FileTypeOK
  <2>2. CASE ReadChunk
    <3> DEFINE n == Least(ChunkRecords, Len(unread))
    <3>1. n \in 0 .. Len(unread) /\ n \in 0 .. ChunkRecords
      BY <1>2, LenProperties, FileAssumption DEF Least
    <3>2. /\ buf' = SubSeq(unread, 1, n) \o SubSeq(buf, n + 1, Len(buf))
          /\ unread' = SubSeq(unread, n + 1, Len(unread))
          /\ nread' = n /\ eof' = (n < ChunkRecords) /\ pos' = 0
          /\ UNCHANGED <<diskVars, loader, flushVars, errors>>
      BY <2>2 DEF ReadChunk
    <3> HIDE DEF n
    <3>3. buf' \in Seq(Header) /\ unread' \in Seq(Header)
      BY <1>2, <3>1, <3>2, ReadFacts
    <3>4. eof' \in BOOLEAN /\ pos' \in 0 .. ChunkRecords
      BY <3>2, FileAssumption
    <3> QED
      BY <1>1, <1>2, <3>1, <3>2, <3>3, <3>4 DEF FileTypeOK
  <2>3. CASE LoadRecord
    <3>1. pos' \in 0 .. ChunkRecords
      BY <1>0, <2>3, RecordInBuffer DEF LoadRecord, LoadOK
    <3> QED
      BY <1>1, <1>2, <2>3, <3>1 DEF LoadRecord, FileTypeOK
  <2>4. CASE LoadDone \/ LoadThrows \/ NewTree
    BY <1>1, <1>2, <2>4 DEF LoadDone, LoadThrows, NewTree, FileTypeOK
  <2> QED
    BY <1>4, <2>1, <2>2, <2>3, <2>4 DEF Load
<1>5. CASE StartFileFlushThread \/ StopFileFlushThread \/ OnNoMoreHeaders \/ NotifyOne
  BY <1>1, <1>2, <1>5
     DEF StartFileFlushThread, StopFileFlushThread, OnNoMoreHeaders, NotifyOne, WakeUp,
         FileTypeOK
<1>6. CASE FlushThread
  <2>1. CASE FlushLoopTest
    <3>1. flusher' \in FlusherStates /\ swp' \in Seq(Header) /\ tornSwp' \in BOOLEAN
      BY <1>2, <1>3, <2>1 DEF FlushLoopTest
    <3> QED
      BY <1>1, <1>2, <2>1, <3>1 DEF FlushLoopTest, FileTypeOK
  <2>2. CASE FlushRecord
    <3>1. /\ pc = "idle" /\ mHeaderHashMap # {} /\ Len(swp) \in Nat
          /\ Len(swp) <= mBestHeight
      BY <1>0, <1>2, <2>2, LenProperties DEF FlushRecord, FlushOK, LoadOK
    <3>2. mHeaderHeightMap[Len(swp)] \in Header
      BY <1>0, <3>1, BestRecords
    <3>3. swp' \in Seq(Header)
      BY <1>2, <2>2, <3>2, AppendProperties DEF FlushRecord
    <3> QED
      BY <1>1, <1>2, <2>2, <3>3 DEF FlushRecord, FileTypeOK
  <2>3. CASE FlushRename
    BY <1>1, <1>2, <1>3, <2>3 DEF FlushRename, RenameSwap, FileTypeOK
  <2>4. CASE FlushThrows
    <3>1. errors' \in 0 .. MaxErrors
      BY <1>2, <2>4, FileAssumption DEF FlushThrows
    <3>2. swp' \in Seq(Header) /\ tornSwp' \in BOOLEAN
      BY <1>2, <2>4, CutTypes DEF FlushThrows
    <3> QED
      BY <1>1, <1>2, <2>4, <3>1, <3>2 DEF FlushThrows, FileTypeOK
  <2>6. CASE FlushRenameCut
    <3>1. errors' \in 0 .. MaxErrors
      BY <1>2, <2>6, FileAssumption DEF FlushRenameCut
    <3>2. file' \in Seq(Header) /\ tornFile' \in BOOLEAN
      BY <1>2, <2>6, CutTypes DEF FlushRenameCut
    <3> QED
      BY <1>1, <1>2, <1>3, <2>6, <3>1, <3>2 DEF FlushRenameCut, RenameSwap, FileTypeOK
  <2>7. CASE FlushUnopened \/ FlushUnopenedThrows
    <3>1. errors' \in 0 .. MaxErrors
      BY <1>2, <2>7, FileAssumption DEF FlushUnopened, FlushUnopenedThrows, DiskFails
    <3> QED
      BY <1>1, <1>2, <1>3, <2>7, <3>1
         DEF FlushUnopened, FlushUnopenedThrows, DiskFails, RenameSwap, FileTypeOK
  <2>5. CASE FlushRetry
    BY <1>1, <1>2, <2>5 DEF FlushRetry, FileTypeOK
  <2> QED
    BY <1>6, <2>1, <2>2, <2>3, <2>4, <2>5, <2>6, <2>7 DEF FlushThread
<1>7. ASSUME NEW h \in Header, OnHeader(h) \/ OnMerkleBlock(h) PROVE FileTypeOK'
  BY <1>1, <1>2, <1>7 DEF OnHeader, OnMerkleBlock, fileVars, FileTypeOK
<1>8. CASE TreeLoops
  BY <1>1, <1>2, <1>8 DEF TreeLoops, fileVars, FileTypeOK
<1>9. CASE Crash
  <2>1. nread' \in 0 .. ChunkRecords /\ pos' \in 0 .. ChunkRecords
    BY <1>9, FileAssumption DEF Crash
  <2>2. swp' \in Seq(Header) /\ tornSwp' \in BOOLEAN
    BY <1>2, <1>9, CutTypes DEF Crash
  <2> QED
    BY <1>1, <1>2, <1>3, <1>9, <2>1, <2>2 DEF Crash, FileTypeOK
<1>10. CASE UNCHANGED allVars
  BY <1>1, <1>2, <1>10 DEF allVars, fileVars, FileTypeOK
<1> QED
  BY <1>4, <1>5, <1>6, <1>7, <1>8, <1>9, <1>10 DEF FileNext

-----------------------------------------------------------------------------
(* loadFromFile.                                                            *)

(* A read moves the buffer on by the records it delivers, and past the last *)
(* record leaves what it held before.                                       *)
LEMMA ReadChunkOK == ASSUME FileInv, ReadChunk PROVE Reading'
<1> DEFINE n == Least(ChunkRecords, Len(unread))
<1>0. FileTypeOK /\ DiskOK /\ Reading /\ file # <<>> /\ ~ tornFile /\ loader = "reading"
  BY DEF FileInv, LoadOK, Reading, ReadChunk
<1>1. /\ {file, unread, buf} \subseteq Seq(Header)
      /\ Len(file) \in Nat /\ Len(unread) \in Nat /\ Len(buf) \in Nat
      /\ nread \in Nat /\ pos \in Nat /\ eof \in BOOLEAN
      /\ Len(file) > 0 /\ ChunkRecords \in Nat \ {0}
  BY <1>0, LenProperties, EmptySeq DEF FileTypeOK
<1>2. /\ n \in 0 .. Len(unread) /\ n \in Nat /\ n <= ChunkRecords
      /\ n < ChunkRecords => n = Len(unread)
      /\ n = 0 <=> Len(unread) = 0
  BY <1>1 DEF Least
<1>3. /\ ~ eof /\ (buf = <<>> \/ ChunkDone)
      /\ nread' = n /\ (eof' <=> n < ChunkRecords) /\ pos' = 0
      /\ file' = file /\ ~ tornFile'
  BY <1>0 DEF ReadChunk, diskVars
<1>4. UNCHANGED <<mHeaderHashMap, height>>
  BY DEF ReadChunk, vars, treeVars
<1>read. /\ buf' = SubSeq(unread, 1, n) \o SubSeq(buf, n + 1, Len(buf))
       /\ unread' = SubSeq(unread, n + 1, Len(unread))
  BY DEF ReadChunk
<1> HIDE DEF n
<1>5. /\ buf' \in Seq(Header) /\ unread' \in Seq(Header)
      /\ Overwrites(buf', unread, buf, n) /\ IsRest(unread', unread, n)
  <2>1. unread \in Seq(Header) /\ buf \in Seq(Header)
    BY <1>1
  <2> QED
    BY <1>2, <1>read, <2>1, ReadFacts
<1>6. /\ Len(unread') = Len(unread) - n
      /\ \A i \in 1 .. Len(unread') : unread'[i] = unread[n + i]
      /\ Len(unread') = 0 <=> unread' = <<>>
  BY <1>1, <1>2, <1>5, EmptySeq DEF IsRest
<1>7. /\ Len(buf') \in Nat /\ Len(buf') = (IF n <= Len(buf) THEN Len(buf) ELSE n)
      /\ \A i \in 1 .. n : buf'[i] = unread[i]
      /\ \A i \in 1 .. Len(buf') : i > n => buf'[i] = buf[i]
  BY <1>1, <1>2, <1>5, LenProperties DEF Overwrites
<1>8. ChunkStart' = Len(file) - Len(unread)
  BY <1>1, <1>2, <1>3, <1>6 DEF ChunkStart
<1>9. CASE buf = <<>>
  <2>1. unread = file /\ mHeaderHashMap = {} /\ Len(buf) = 0 /\ n > 0
    BY <1>0, <1>1, <1>2, <1>9 DEF Reading, BeforeRead
  <2>2. ChunkStart' = 0 /\ Len(buf') = n /\ buf' # <<>>
    BY <1>1, <1>2, <1>7, <1>8, <2>1
  <2>3. Loaded(0)'
    BY <1>3, <1>4, <2>1 DEF Loaded
  <2>4. eof' => unread' = <<>>
    BY <1>1, <1>2, <1>3, <1>6
  <2>5. ~ eof' => nread' = ChunkRecords /\ Len(buf') = ChunkRecords
    BY <1>1, <1>2, <1>3, <2>2
  <2>7. \A i \in 1 .. Len(unread') : unread'[i] = file[0 + nread' + i]
    BY <1>2, <1>3, <1>6, <2>1
  <2>8. \A i \in 1 .. nread' : buf'[i] = file[0 + i]
    BY <1>2, <1>3, <1>7, <2>1
  <2>9. (0 + pos')  = 0 /\ pos' <= nread' /\ nread' <= Len(buf') /\ file' = file
    BY <1>2, <1>3, <2>2
  <2>10. Loaded(0 + pos)'
    BY <2>3, <2>9
  <2>11. InChunk'
    BY <2>2, <2>4, <2>5, <2>7, <2>8, <2>9, <2>10 DEF InChunk
  <2> QED
    BY <1>0, <1>2, <1>3, <2>1, <2>2, <2>9, <2>11 DEF Reading
<1>10. CASE buf # <<>> /\ ChunkDone
  <2>1. /\ InChunk /\ pos = nread /\ nread = ChunkRecords /\ Len(buf) = ChunkRecords
        /\ Loaded(ChunkStart + pos)
    BY <1>0, <1>3, <1>10 DEF Reading, ChunkDone, InChunk
  <2>0. PICK s \in Nat : s = ChunkStart + nread
    BY <1>1, <2>1 DEF InChunk
  <2>2. /\ ChunkStart \in Nat /\ s \in Nat /\ s = Len(file) - Len(unread) /\ Loaded(s)
        /\ \A i \in 1 .. Len(unread) : unread[i] = file[s + i]
        /\ \A i \in 1 .. ChunkRecords : buf[i] = file[ChunkStart + i]
    BY <1>1, <1>3, <2>0, <2>1 DEF InChunk, ChunkStart
  <2>3. s = ChunkStart + ChunkRecords
    BY <2>0, <2>1
  <2>4. Len(buf') = ChunkRecords /\ buf' # <<>>
    BY <1>1, <1>2, <1>7, <2>1
  <2>5. CASE n = 0
    <3>1. eof' /\ nread' = 0 /\ Len(file) = s
      BY <1>1, <1>2, <1>3, <2>2, <2>5
    <3>2. ASSUME NEW i \in 1 .. Len(buf') PROVE buf'[i] \in mHeaderHashMap
      <4>1. /\ i \in 1 .. ChunkRecords /\ i > n /\ i \in Nat
            /\ ChunkStart + i \in 1 .. s
        BY <1>1, <2>2, <2>3, <2>4, <2>5
      <4>2. buf'[i] = file[ChunkStart + i]
        BY <1>7, <2>2, <4>1
      <4> QED
        BY <2>2, <4>1, <4>2 DEF Loaded
    <3>3. StaleChunk'
      BY <1>3, <1>4, <2>2, <2>4, <3>1, <3>2 DEF StaleChunk
    <3> QED
      BY <1>0, <1>3, <2>4, <3>1, <3>3 DEF Reading
  <2>6. CASE n > 0
    <3>1. ChunkStart' = s
      BY <1>8, <2>2
    <3>2. eof' => unread' = <<>>
      BY <1>1, <1>2, <1>3, <1>6
    <3>3. ~ eof' => nread' = ChunkRecords
      BY <1>1, <1>2, <1>3
    <3>4. ASSUME NEW i \in 1 .. Len(unread') PROVE unread'[i] = file[s + n + i]
      <4>1. n + i \in 1 .. Len(unread) /\ s + (n + i) = s + n + i
        BY <1>1, <1>2, <1>6, <2>2
      <4> QED
        BY <1>6, <2>2, <4>1
    <3>5. \A i \in 1 .. n : buf'[i] = file[s + i]
      BY <1>1, <1>2, <1>7, <2>2
    <3>6. s + pos' = s /\ pos' <= nread' /\ nread' <= Len(buf')
      BY <1>2, <1>3, <2>2, <2>4
    <3>7. Loaded(s)'
      BY <1>3, <1>4, <2>2 DEF Loaded
    <3>8. Loaded(ChunkStart + pos)'
      BY <3>1, <3>6, <3>7
    <3>9. InChunk'
      BY <1>3, <2>2, <2>4, <3>1, <3>2, <3>3, <3>4, <3>5, <3>6, <3>8 DEF InChunk
    <3> QED
      BY <1>0, <1>3, <2>4, <2>6, <3>9 DEF Reading
  <2> QED
    BY <1>2, <2>5, <2>6
<1> QED
  BY <1>3, <1>9, <1>10

(* A record that a read has delivered is the next of the file, and new to   *)
(* the tree: insertHeader links it to the record before it.                 *)
LEMMA NewRecordOK ==
  ASSUME FileInv, LoadRecord, nread > 0
  PROVE  InChunk'
<1> DEFINE h == buf[pos + 1]
<1>0. FileTypeOK /\ Inv /\ TypeOK /\ DiskOK /\ Reading /\ InChunk /\ loader = "reading"
  BY DEF FileInv, LoadOK, Reading, LoadRecord, FileTypeOK
<1>1. /\ pos + 1 \in 1 .. Len(buf) /\ pos \in Nat /\ pos < nread /\ h \in Header
  BY <1>0, RecordInBuffer DEF LoadRecord
<1>2. /\ Len(file) \in Nat /\ Len(unread) \in Nat /\ nread \in Nat
      /\ file \in Seq(Header) /\ ChunkStart \in Nat
      /\ Len(file) = ChunkStart + nread + Len(unread)
      /\ \A i \in 1 .. Len(file) : file[i] \in Header
  BY <1>0, LenProperties DEF FileTypeOK, InChunk, ChunkStart
<1>3. PICK k \in Nat : k = ChunkStart + pos
  BY <1>1, <1>2
<1>4. /\ h = file[k + 1] /\ k + 1 \in 1 .. Len(file) /\ k < Len(file)
      /\ ChunkStart + (pos + 1) = k + 1
  <2>1. ChunkStart + (pos + 1) = k + 1 /\ pos + 1 \in 1 .. nread
    BY <1>1, <1>2, <1>3
  <2>2. h = file[ChunkStart + (pos + 1)]
    BY <1>0, <2>1 DEF InChunk
  <2>3. k + 1 \in 1 .. Len(file) /\ k < Len(file)
    BY <1>1, <1>2, <1>3
  <2> QED
    BY <2>1, <2>2, <2>3
<1>5. Loaded(k) /\ IsChain(file) /\ Distinct(file)
  BY <1>0, <1>3 DEF InChunk, DiskOK
<1>6. h \notin mHeaderHashMap
  <2> SUFFICES ASSUME NEW i \in 1 .. k, h = file[i] PROVE FALSE
    BY <1>5 DEF Loaded
  <2>1. i \in 1 .. Len(file) /\ i # k + 1
    BY <1>2, <1>4
  <2> QED
    BY <1>4, <1>5, <2>1 DEF Distinct
<1> HIDE DEF h
<1>7. /\ UNCHANGED <<file, unread, buf, nread, eof>> /\ pos' = pos + 1
  BY DEF LoadRecord, diskVars
<1>8. ASSUME mHeaderHashMap' = mHeaderHashMap \cup {h},
             height'[h] = k,
             \A g \in mHeaderHashMap : height'[g] = height[g]
      PROVE  InChunk'
  <2>1. ASSUME NEW x \in mHeaderHashMap' PROVE x \in {file[i] : i \in 1 .. k + 1}
    <3>1. CASE x = h
      BY <1>4, <3>1
    <3>2. CASE x \in mHeaderHashMap
      <4>1. PICK i \in 1 .. k : x = file[i]
        BY <1>5, <3>2 DEF Loaded
      <4>2. i \in 1 .. k + 1
        OBVIOUS
      <4> QED
        BY <4>1, <4>2
    <3> QED
      BY <1>8, <3>1, <3>2
  <2>2. ASSUME NEW i \in 1 .. k + 1
        PROVE  file[i] \in mHeaderHashMap' /\ height'[file[i]] = i - 1
    <3>1. CASE i = k + 1
      BY <1>4, <1>8, <3>1
    <3>2. CASE i \in 1 .. k
      BY <1>5, <1>8, <3>2 DEF Loaded
    <3> QED
      BY <3>1, <3>2
  <2>3. Loaded(k + 1)'
    BY <1>7, <2>1, <2>2 DEF Loaded
  <2>4. ChunkStart' = ChunkStart /\ (ChunkStart + pos)' = k + 1 /\ pos' <= nread'
    BY <1>1, <1>2, <1>4, <1>7 DEF ChunkStart
  <2> QED
    BY <1>0, <1>7, <2>3, <2>4 DEF InChunk
<1>9. CASE h = Genesis /\ SetGenesisBlock
  <2>1. /\ mHeaderHashMap = {} /\ mHeaderHashMap' = {Genesis}
        /\ height' = [height EXCEPT ![Genesis] = 0] /\ height \in [Header -> Int]
    BY <1>0, <1>9 DEF SetGenesisBlock, TypeOK
  <2>2. k = 0
    <3> SUFFICES ASSUME k # 0 PROVE FALSE
      OBVIOUS
    <3>1. 1 \in 1 .. k
      OBVIOUS
    <3> QED
      BY <1>5, <2>1, <3>1 DEF Loaded
  <2> QED
    BY <1>8, <1>9, <2>1, <2>2, HeaderAssumption
<1>10. CASE InsertHeader(h, FALSE, FALSE)
  <2>1. /\ Prev[h] \in mHeaderHashMap /\ mHeaderHashMap' = mHeaderHashMap \cup {h}
        /\ height'[h] = height[Prev[h]] + 1
        /\ \A g \in mHeaderHashMap : height'[g] = height[g]
    BY <1>0, <1>1, <1>10, InsertFacts
  <2>2. k \in 1 .. k /\ k + 1 \in 2 .. Len(file)
    <3>1. PICK i \in 1 .. k : Prev[h] = file[i]
      BY <1>5, <2>1 DEF Loaded
    <3> QED
      BY <1>2, <1>4
  <2>3. Prev[file[k + 1]] = file[(k + 1) - 1] /\ (k + 1) - 1 = k
    <3>1. file # <<>>
      BY <1>0 DEF Reading
    <3> QED
      BY <1>5, <2>2, <3>1 DEF IsChain
  <2>4. Prev[h] = file[k] /\ height[file[k]] = k - 1
    BY <1>4, <1>5, <2>2, <2>3 DEF Loaded
  <2> QED
    BY <1>8, <2>1, <2>4
<1> QED
  BY <1>6, <1>9, <1>10 DEF LoadRecord, h

(* A record the loop meets a second time is in the tree already. *)
LEMMA StaleRecordOK ==
  ASSUME FileInv, LoadRecord, nread = 0
  PROVE  StaleChunk' /\ UNCHANGED vars
<1>0. FileTypeOK /\ Reading /\ StaleChunk /\ buf # <<>>
  BY DEF FileInv, LoadOK, Reading, LoadRecord
<1>1. pos + 1 \in 1 .. Len(buf)
  BY <1>0, RecordInBuffer DEF LoadRecord
<1>2. buf[pos + 1] \in mHeaderHashMap
  BY <1>0, <1>1 DEF StaleChunk
<1>3. UNCHANGED vars /\ UNCHANGED <<file, buf, eof>>
  BY <1>2 DEF LoadRecord, diskVars, SetGenesisBlock, InsertHeader, Accepts
<1> QED
  BY <1>0, <1>3 DEF StaleChunk, vars, treeVars

(* When the loop ends, every record of the file is in the tree. *)
LEMMA LoadDoneOK ==
  ASSUME FileInv, LoadDone
  PROVE  /\ Loaded(Len(file)) /\ file # <<>> /\ Len(file) \in Nat \ {0}
         /\ Last(file) \in mHeaderHashMap
<1>0. FileTypeOK /\ Reading /\ file # <<>>
  BY DEF FileInv, LoadOK, Reading, LoadDone
<1>1. nread > 0 /\ pos = nread /\ eof
  BY DEF LoadDone, ChunkDone
<1>2. buf # <<>>
  BY <1>0, <1>1 DEF Reading, BeforeRead
<1>3. InChunk /\ unread = <<>>
  BY <1>0, <1>1, <1>2 DEF Reading, InChunk
<1>4. Len(file) \in Nat \ {0} /\ nread \in Nat /\ Len(unread) = 0
  BY <1>0, <1>3, LenProperties, EmptySeq DEF FileTypeOK
<1>5. ChunkStart + pos = Len(file)
  BY <1>1, <1>4 DEF ChunkStart
<1>6. Loaded(Len(file)) /\ Len(file) \in 1 .. Len(file)
  BY <1>3, <1>4, <1>5 DEF InChunk
<1> QED
  BY <1>0, <1>4, <1>6 DEF Loaded, Last

(* How far the loading has come, after every step. *)
LEMMA LoadKept == FileInv /\ [FileNext]_allVars => LoadOK'
<1> SUFFICES ASSUME FileInv, [FileNext]_allVars PROVE LoadOK'
  OBVIOUS
<1>0. FileTypeOK /\ Inv /\ TypeOK /\ DiskOK /\ LoadOK /\ FlushOK
  BY DEF FileInv, FileTypeOK
<1> USE DEF loadVars, flushVars, diskVars, fileVars
<1>1. ASSUME UNCHANGED <<file, tornFile, stray, loadVars, treeVars>>,
             loader \in {"down", "newTree"} => pc' = "idle"
      PROVE  LoadOK'
  <2>1. /\ UNCHANGED <<file, loader, unread, buf, nread, pos, eof, mHeaderHashMap, height>>
        /\ UNCHANGED <<tornFile, stray>>
    BY <1>1 DEF treeVars
  <2>2. Reading' = Reading
    BY <2>1 DEF Reading, BeforeRead, InChunk, ChunkStart, Loaded, StaleChunk
  <2>3. Last(file)' = Last(file)
    BY <2>1 DEF Last
  <2> QED
    BY <1>0, <1>1, <2>1, <2>2, <2>3 DEF LoadOK
<1>2. ASSUME UNCHANGED <<vars, file, tornFile, stray, loadVars>> PROVE LoadOK'
  BY <1>0, <1>1, <1>2 DEF vars, loopVars, LoadOK
<1>3. CASE Load
  <2>1. CASE OpenFile
    <3>1. /\ mHeaderHashMap' = {} /\ pc' = "idle"
          /\ UNCHANGED <<file, tornFile, buf, nread, pos, eof>> /\ loader = "down"
      BY <2>1 DEF OpenFile, Clear, loopVars
    <3>2. buf = <<>> /\ nread = 0 /\ pos = 0 /\ ~ eof
      BY <1>0, <3>1 DEF LoadOK
    <3>3. CASE loader' = "newTree" /\ (file = <<>> \/ stray')
      BY <3>1, <3>3 DEF LoadOK
    <3>4. CASE loader' = "reading" /\ unread' = file /\ file # <<>> /\ ~ tornFile
      <4>1. Reading'
        BY <3>1, <3>2, <3>4 DEF Reading, BeforeRead
      <4> QED
        BY <3>4, <4>1 DEF LoadOK
    <3> QED
      BY <2>1, <3>3, <3>4 DEF OpenFile, FileExists
  <2>2. CASE ReadChunk
    <3>1. Reading' /\ loader' = "reading"
      BY <2>2, ReadChunkOK DEF ReadChunk
    <3> QED
      BY <3>1 DEF LoadOK
  <2>3. CASE LoadRecord
    <3>1. /\ loader' = "reading" /\ UNCHANGED <<file, tornFile, buf, nread>> /\ Reading
          /\ buf # <<>>
      BY <1>0, <2>3 DEF LoadRecord, LoadOK
    <3>2. Reading'
      <4>1. nread > 0 => InChunk'
        BY <2>3, NewRecordOK
      <4>2. nread = 0 => StaleChunk'
        BY <2>3, StaleRecordOK
      <4> QED
        BY <3>1, <4>1, <4>2 DEF Reading
    <3> QED
      BY <3>1, <3>2 DEF LoadOK
  <2>4. CASE LoadDone
    <3>1. Last(file) \in mHeaderHashMap
      BY <2>4, LoadDoneOK
    <3>2. UNCHANGED <<file, mHeaderHashMap>> /\ loader' = "ready"
      BY <2>4 DEF LoadDone, vars, treeVars
    <3> QED
      BY <3>1, <3>2 DEF LoadOK, Last
  <2>5. CASE LoadThrows
    <3>1. mHeaderHashMap' = {} /\ pc' = "idle" /\ loader' = "newTree" /\ stray'
      BY <2>5 DEF LoadThrows, Clear, loopVars
    <3> QED
      BY <3>1 DEF LoadOK
  <2>6. CASE NewTree
    <3>1. /\ mHeaderHashMap' = {Genesis} /\ loader' = "ready" /\ file' = file
          /\ stray' = stray
      BY <2>6 DEF NewTree, SetGenesisBlock
    <3>2. file = <<>> \/ stray
      BY <1>0, <2>6 DEF NewTree, LoadOK
    <3> QED
      BY <3>1, <3>2 DEF LoadOK
  <2> QED
    BY <1>3, <2>1, <2>2, <2>3, <2>4, <2>5, <2>6 DEF Load
<1>4. CASE StartFileFlushThread \/ StopFileFlushThread \/ OnNoMoreHeaders \/ NotifyOne
  BY <1>2, <1>4 DEF StartFileFlushThread, StopFileFlushThread, OnNoMoreHeaders, NotifyOne
<1>5. CASE FlushThread
  <2>1. CASE FlushRename
    <3>1. /\ loader = "ready" /\ loader' = "ready" /\ file' = swp
          /\ Len(swp) <= mBestHeight + 1 /\ Len(swp) > mBestHeight
          /\ \A i \in 1 .. Len(swp) : swp[i] = mHeaderHeightMap[i - 1]
          /\ mHeaderHashMap' = mHeaderHashMap /\ mHeaderHashMap # {} /\ pc = "idle"
          /\ Len(swp) \in Nat
      BY <1>0, <2>1, LenProperties
         DEF FlushRename, RenameSwap, FlushToFile, FlushOK, LoadOK, treeVars, FileTypeOK
    <3>2. mBestHeight \in Nat /\ mHeaderHeightMap[mBestHeight] \in mHeaderHashMap
      BY <1>0, <3>1, BestRecords
    <3>3. Len(swp) = mBestHeight + 1
      BY <3>1, <3>2
    <3>4. Last(swp) \in mHeaderHashMap
      BY <3>1, <3>2, <3>3 DEF Last
    <3> QED
      BY <3>1, <3>4 DEF LoadOK, Last
  <2>2. CASE FlushRenameCut \/ FlushUnopened
    <3>1. /\ stray' /\ loader = "ready" /\ loader' = "ready"
          /\ mHeaderHashMap' = mHeaderHashMap
      BY <1>0, <2>2
         DEF FlushRenameCut, FlushUnopened, DiskFails, RenameSwap, FlushToFile, FlushOK, treeVars
    <3> QED
      BY <1>0, <3>1 DEF LoadOK
  <2> QED
    BY <1>2, <1>5, <2>1, <2>2
       DEF FlushThread, FlushLoopTest, FlushRecord, FlushThrows, FlushUnopenedThrows,
           FlushRetry
<1>6. ASSUME NEW h \in Header, OnHeader(h) \/ OnMerkleBlock(h) PROVE LoadOK'
  <2>1. /\ UNCHANGED <<file, stray, loader>> /\ InsertHeader(h, TRUE, FALSE)
        /\ loader = "ready"
    BY <1>0, <1>6 DEF OnHeader, OnMerkleBlock, FlushOK
  <2>2. mHeaderHashMap' = mHeaderHashMap \cup {h}
    BY <2>1 DEF InsertHeader
  <2> QED
    BY <1>0, <2>1, <2>2 DEF LoadOK, Last
<1>7. CASE TreeLoops
  <2>1. pc # "idle" /\ UNCHANGED treeVars /\ UNCHANGED <<file, tornFile, stray, loadVars>>
    BY <1>7, LoopFacts DEF TreeLoops
  <2> QED
    BY <1>0, <1>1, <2>1 DEF LoadOK
<1>8. CASE Crash
  BY <1>8 DEF Crash, LoadOK
<1>9. CASE UNCHANGED allVars
  BY <1>2, <1>9 DEF allVars
<1> QED
  BY <1>3, <1>4, <1>5, <1>6, <1>7, <1>8, <1>9 DEF FileNext

-----------------------------------------------------------------------------
(* The flush thread and the disk.                                           *)

(* Records that follow the height map from the genesis block on are a chain *)
(* with no header twice.                                                    *)
LEMMA BestPrefixIsChain ==
  ASSUME Inv, pc = "idle", mHeaderHashMap # {}, NEW s \in Seq(Header),
         Len(s) <= mBestHeight + 1, \A i \in 1 .. Len(s) : s[i] = mHeaderHeightMap[i - 1]
  PROVE  IsChain(s) /\ Distinct(s)
<1>1. /\ mBestHeight \in Nat /\ mHeaderHeightMap[0] = Genesis
      /\ \A n \in 0 .. mBestHeight : height[mHeaderHeightMap[n]] = n
      /\ \A n \in 1 .. mBestHeight : Prev[mHeaderHeightMap[n]] = mHeaderHeightMap[n - 1]
  BY BestRecords
<1>2. Len(s) \in Nat /\ \A i \in 1 .. Len(s) : i - 1 \in 0 .. mBestHeight
  BY <1>1, LenProperties
<1>3. s # <<>> => s[1] = Genesis
  <2> SUFFICES ASSUME s # <<>> PROVE s[1] = Genesis
    OBVIOUS
  <2>1. 1 \in 1 .. Len(s)
    BY <1>2, EmptySeq
  <2> QED
    BY <1>1, <2>1
<1>4. ASSUME NEW i \in 2 .. Len(s) PROVE Prev[s[i]] = s[i - 1]
  <2>1. /\ i \in 1 .. Len(s) /\ i - 1 \in 1 .. Len(s) /\ i - 1 \in 1 .. mBestHeight
    BY <1>1, <1>2
  <2> QED
    BY <1>1, <2>1
<1>5. ASSUME NEW i \in 1 .. Len(s), NEW j \in 1 .. Len(s), s[i] = s[j] PROVE i = j
  <2>1. i - 1 \in 0 .. mBestHeight /\ j - 1 \in 0 .. mBestHeight
    BY <1>2
  <2>2. height[s[i]] = i - 1 /\ height[s[j]] = j - 1
    BY <1>1, <2>1
  <2> QED
    BY <1>2, <1>5, <2>2
<1> QED
  BY <1>3, <1>4, <1>5 DEF IsChain, Distinct

(* So are the first of them, whatever the disk lost of the rest. *)
LEMMA CutIsChain ==
  ASSUME swp \in Seq(Header), IsChain(swp), Distinct(swp),
         NEW n, NEW records, NEW torn, CutAt(n, records, torn)
  PROVE  IsChain(records) /\ Distinct(records)
<1>1. n \in 0 .. Len(swp) /\ Len(swp) \in Nat /\ records = SubSeq(swp, 1, n)
  BY LenProperties DEF CutAt
<1>2. records \in Seq(Header) /\ Len(records) = n /\ \A i \in 1 .. n : records[i] = swp[i]
  BY <1>1, SubSeqProperties, Z3
<1>3. ASSUME records # <<>>
      PROVE  swp # <<>> /\ 1 \in 1 .. n
  BY <1>1, <1>2, <1>3, EmptySeq
<1>4. IsChain(records)
  <2> SUFFICES ASSUME records # <<>>
               PROVE  /\ records[1] = Genesis
                      /\ \A i \in 2 .. n : Prev[records[i]] = records[i - 1]
    BY <1>2 DEF IsChain
  <2>1. \A i \in 2 .. n : i \in 1 .. n /\ i - 1 \in 1 .. n /\ i \in 2 .. Len(swp)
    BY <1>1
  <2> QED
    BY <1>2, <1>3, <2>1 DEF IsChain
<1>5. Distinct(records)
  <2>1. \A i \in 1 .. n : i \in 1 .. Len(swp)
    BY <1>1
  <2> QED
    BY <1>2, <2>1 DEF Distinct
<1> QED
  BY <1>4, <1>5

(* What the flush thread renames is the whole best chain. *)
LEMMA RenamedIsChain ==
  ASSUME FileInv, FlushRename
  PROVE  /\ swp # <<>> /\ IsChain(swp) /\ Distinct(swp) /\ Last(swp) = pHead
         /\ loader = "ready" /\ pc = "idle" /\ mHeaderHashMap # {}
<1>1. /\ FileTypeOK /\ Inv /\ loader = "ready" /\ pc = "idle" /\ mHeaderHashMap # {}
      /\ Len(swp) <= mBestHeight + 1 /\ Len(swp) > mBestHeight /\ Len(swp) \in Nat
      /\ \A i \in 1 .. Len(swp) : swp[i] = mHeaderHeightMap[i - 1]
      /\ IsChain(swp) /\ Distinct(swp)
  BY LenProperties DEF FileInv, FlushRename, FlushOK, LoadOK, DiskOK, FileTypeOK
<1>2. mBestHeight \in Nat /\ mHeaderHeightMap[mBestHeight] = pHead
  BY <1>1, BestRecords
<1>3. Len(swp) \in 1 .. Len(swp) /\ Len(swp) - 1 = mBestHeight
  BY <1>1, <1>2
<1>4. swp # <<>> /\ Last(swp) = pHead
  BY <1>1, <1>2, <1>3, EmptySeq DEF Last
<1> QED
  BY <1>1, <1>4

(* The flush thread, after every step: while it writes, nobody changes the  *)
(* best chain.                                                              *)
LEMMA FlushKept == FileInv /\ [FileNext]_allVars => FlushOK'
<1> SUFFICES ASSUME FileInv, [FileNext]_allVars PROVE FlushOK'
  OBVIOUS
<1>0. FileTypeOK /\ TypeOK /\ Inv /\ DiskOK /\ LoadOK /\ FlushOK
  BY DEF FileInv, FileTypeOK
<1> USE DEF loadVars, flushVars, diskVars, fileVars
<1>1. ASSUME UNCHANGED <<flusher, m_bFlushingToFile, notifyDue>>, flusher # "write",
             loader = "ready" => loader' = "ready"
      PROVE  FlushOK'
  BY <1>0, <1>1 DEF FlushOK
<1>2. ASSUME UNCHANGED <<vars, flusher, m_bFlushingToFile, notifyDue, loader, swp>>
      PROVE  FlushOK'
  BY <1>0, <1>2 DEF vars, bestVars, loopVars, FlushOK
<1>3. CASE Load
  <2>1. flusher # "write"
    BY <1>0, <1>3
       DEF FlushOK, Load, OpenFile, ReadChunk, LoadRecord, LoadDone, LoadThrows, NewTree
  <2> QED
    BY <1>1, <1>3, <2>1
       DEF Load, OpenFile, ReadChunk, LoadRecord, LoadDone, LoadThrows, NewTree
<1>4. CASE StartFileFlushThread \/ StopFileFlushThread
  BY <1>0, <1>4 DEF StartFileFlushThread, StopFileFlushThread, WakeUp, FlushOK
<1>5. CASE OnNoMoreHeaders \/ NotifyOne
  <2>1. /\ loader = "ready" /\ loader' = "ready" /\ swp' = swp /\ pc' = pc
        /\ UNCHANGED <<mBestHeight, mHeaderHeightMap>>
        /\ flusher' = "write" => flusher = "write"
    BY <1>0, <1>5 DEF OnNoMoreHeaders, NotifyOne, WakeUp, FlushOK, vars, bestVars, loopVars
  <2> QED
    BY <1>0, <2>1 DEF FlushOK
<1>6. CASE FlushThread
  <2>1. CASE FlushLoopTest
    <3>1. /\ loader = "ready" /\ loader' = "ready" /\ pc' = "idle" /\ pc = "idle"
          /\ flusher' = "write" => swp' = <<>>
          /\ UNCHANGED <<mBestHeight, mHeaderHeightMap>> /\ mHeaderHashMap # {}
      BY <1>0, <2>1 DEF FlushLoopTest, FlushOK, LoadOK, vars, bestVars, loopVars
    <3>2. mBestHeight \in Nat
      BY <1>0, <3>1, BestRecords
    <3>3. Len(<<>>) = 0 /\ 0 <= mBestHeight + 1 /\ 1 .. 0 = {}
      BY <3>2
    <3> QED
      BY <3>1, <3>3 DEF FlushOK
  <2>2. CASE FlushRecord
    <3>1. /\ loader' = "ready" /\ pc' = "idle" /\ Len(swp) <= mBestHeight
          /\ swp' = Append(swp, mHeaderHeightMap[Len(swp)])
          /\ UNCHANGED <<mBestHeight, mHeaderHeightMap>>
          /\ \A i \in 1 .. Len(swp) : swp[i] = mHeaderHeightMap[i - 1]
          /\ swp \in Seq(Header) /\ swp' \in Seq(Header)
          /\ mBestHeight \in Int
      <4>1. swp' \in Seq(Header)
        BY FileTypesKept DEF FileTypeOK
      <4> QED
        BY <1>0, <2>2, <4>1
           DEF FlushRecord, FlushOK, vars, bestVars, loopVars, FileTypeOK, TypeOK
    <3>2. Len(swp) \in Nat /\ Len(swp') = Len(swp) + 1
      BY <3>1, LenProperties
    <3>3. ASSUME NEW i \in 1 .. Len(swp') PROVE swp'[i] = mHeaderHeightMap[i - 1]
      <4>1. CASE i = Len(swp) + 1
        <5>1. i - 1 = Len(swp)
          BY <3>2, <4>1
        <5> QED
          BY <3>1, <4>1, <5>1
      <4>2. CASE i \in 1 .. Len(swp)
        BY <3>1, <4>2
      <4> QED
        BY <3>2, <4>1, <4>2
    <3>4. Len(swp') <= mBestHeight + 1
      BY <3>1, <3>2
    <3> QED
      BY <3>1, <3>3, <3>4 DEF FlushOK
  <2>3. CASE FlushThrows \/ FlushUnopenedThrows \/ FlushRetry
    BY <1>0, <2>3 DEF FlushThrows, FlushUnopenedThrows, DiskFails, FlushRetry, FlushOK
  <2>4. CASE FlushRename \/ FlushRenameCut \/ FlushUnopened
    BY <1>0, <2>4
       DEF FlushRename, FlushRenameCut, FlushUnopened, DiskFails, RenameSwap, FlushOK
  <2> QED
    BY <1>6, <2>1, <2>2, <2>3, <2>4 DEF FlushThread
<1>7. ASSUME NEW h \in Header, OnHeader(h) \/ OnMerkleBlock(h) PROVE FlushOK'
  BY <1>0, <1>7 DEF OnHeader, OnMerkleBlock, FlushOK
<1>8. CASE TreeLoops
  <2>1. flusher # "write" /\ UNCHANGED <<flusher, m_bFlushingToFile, notifyDue, loader>>
    BY <1>0, <1>8, LoopFacts DEF TreeLoops, FlushOK
  <2> QED
    BY <1>1, <2>1
<1>9. CASE Crash
  BY <1>9 DEF Crash, FlushOK
<1>10. CASE UNCHANGED allVars
  BY <1>2, <1>10 DEF allVars
<1> QED
  BY <1>3, <1>4, <1>5, <1>6, <1>7, <1>8, <1>9, <1>10 DEF FileNext

(* The swap file is a chain after every step. *)
LEMMA SwapKept == FileInv /\ [FileNext]_allVars => IsChain(swp') /\ Distinct(swp')
<1> SUFFICES ASSUME FileInv, [FileNext]_allVars PROVE IsChain(swp') /\ Distinct(swp')
  OBVIOUS
<1>0. /\ FileTypeOK /\ Inv /\ DiskOK /\ LoadOK /\ FlushOK /\ IsChain(swp) /\ Distinct(swp)
      /\ swp \in Seq(Header)
  BY DEF FileInv, FileTypeOK, DiskOK
<1>1. CASE swp' = swp
  BY <1>0, <1>1
<1>2. CASE swp' = <<>>
  BY <1>2 DEF IsChain, Distinct
<1>3. CASE FlushRecord
  <2>1. /\ loader = "ready" /\ mHeaderHashMap # {} /\ pc = "idle" /\ flusher' = "write"
        /\ UNCHANGED <<mBestHeight, mHeaderHeightMap>>
    BY <1>0, <1>3 DEF FlushRecord, FlushOK, LoadOK, flushVars, vars, bestVars
  <2>2. FlushOK' /\ swp' \in Seq(Header)
    BY FlushKept, FileTypesKept DEF FileTypeOK
  <2>3. Len(swp') <= mBestHeight + 1 /\ \A i \in 1 .. Len(swp') : swp'[i] = mHeaderHeightMap[i - 1]
    BY <2>1, <2>2 DEF FlushOK
  <2> QED
    BY <1>0, <2>1, <2>2, <2>3, BestPrefixIsChain
<1>4. CASE \E n \in 0 .. Len(swp) : CutAt(n, swp', tornSwp')
  BY <1>0, <1>4, CutIsChain
<1> QED
  BY <1>1, <1>2, <1>3, <1>4
     DEF FileNext, Load, OpenFile, ReadChunk, LoadRecord, LoadDone, LoadThrows, NewTree,
         FlushThread, FlushLoopTest, FlushRename, FlushRenameCut, FlushUnopened,
         FlushUnopenedThrows, RenameSwap, FlushThrows, FlushRetry, StartFileFlushThread,
         StopFileFlushThread, OnHeader, OnMerkleBlock, OnNoMoreHeaders, NotifyOne, TreeLoops,
         Crash, diskVars, fileVars, allVars

(* What is on disk, after every step. *)
LEMMA DiskKept == FileInv /\ [FileNext]_allVars => DiskOK'
<1> SUFFICES ASSUME FileInv, [FileNext]_allVars PROVE DiskOK'
  OBVIOUS
<1>0. FileTypeOK /\ TypeOK /\ Inv /\ DiskOK /\ LoadOK /\ FlushOK
  BY DEF FileInv, FileTypeOK
<1> USE DEF loadVars, flushVars, diskVars, fileVars
<1>swp. IsChain(swp)' /\ Distinct(swp)'
  BY SwapKept DEF IsChain, Distinct
<1>1. ASSUME UNCHANGED <<file, tornFile>>, stray => stray',
             ~ (bFlushed' /\ pc' = "idle" /\ mHeaderHashMap' # {})
      PROVE  DiskOK'
  BY <1>0, <1>swp, <1>1 DEF DiskOK, IsChain, Distinct
<1>2. ASSUME UNCHANGED <<vars, file, tornFile, stray, loader>> PROVE DiskOK'
  <2>1. UNCHANGED <<bFlushed, pc, mHeaderHashMap, pHead>>
    BY <1>2 DEF vars, treeVars, bestVars, loopVars
  <2> QED
    BY <1>0, <1>swp, <1>2, <2>1 DEF DiskOK, IsChain, Distinct, Last
<1>3. CASE Load
  <2>1. CASE OpenFile \/ LoadThrows
    BY <1>1, <2>1 DEF OpenFile, LoadThrows, Clear
  <2>2. CASE ReadChunk
    BY <1>2, <2>2 DEF ReadChunk
  <2>3. CASE LoadRecord
    <3>1. UNCHANGED <<file, tornFile, stray, loader>>
      BY <2>3 DEF LoadRecord
    <3>2. CASE SetGenesisBlock
      BY <1>1, <3>1, <3>2 DEF SetGenesisBlock
    <3>3. CASE InsertHeader(buf[pos + 1], FALSE, FALSE)
      <4>1. buf[pos + 1] \in Header
        BY <1>0, <2>3, RecordInBuffer DEF LoadRecord, LoadOK
      <4>2. pc' = "idle" => ~ bFlushed'
        BY <1>0, <3>3, <4>1, InsertFacts
      <4> QED
        BY <1>1, <3>1, <4>2
    <3>4. CASE UNCHANGED vars
      BY <1>2, <3>1, <3>4
    <3> QED
      BY <2>3, <3>2, <3>3, <3>4 DEF LoadRecord
  <2>4. CASE LoadDone
    <3>1. /\ UNCHANGED <<file, tornFile, bFlushed, pc, mHeaderHashMap>> /\ loader # "ready"
          /\ ~ tornFile
      BY <1>0, <2>4 DEF LoadDone, LoadOK, Reading, vars, treeVars, loopVars
    <3> QED
      BY <1>0, <1>swp, <3>1 DEF DiskOK, IsChain, Distinct
  <2>5. CASE NewTree
    BY <1>1, <2>5 DEF NewTree, SetGenesisBlock
  <2> QED
    BY <1>3, <2>1, <2>2, <2>3, <2>4, <2>5 DEF Load
<1>4. CASE StartFileFlushThread \/ StopFileFlushThread \/ OnNoMoreHeaders \/ NotifyOne
  BY <1>2, <1>4 DEF StartFileFlushThread, StopFileFlushThread, OnNoMoreHeaders, NotifyOne
<1>5. CASE FlushThread
  <2>1. CASE FlushRename
    <3>1. file' = swp /\ loader' = loader /\ pHead' = pHead /\ ~ tornFile'
      BY <2>1 DEF FlushRename, RenameSwap, FlushToFile, bestVars
    <3>2. /\ swp # <<>> /\ IsChain(swp) /\ Distinct(swp) /\ Last(swp) = pHead
          /\ loader = "ready"
      BY <2>1, RenamedIsChain
    <3> QED
      BY <1>swp, <3>1, <3>2 DEF DiskOK, IsChain, Distinct, Last
  <2>2. CASE FlushRenameCut \/ FlushUnopened
    <3>1. stray' /\ loader = "ready" /\ loader' = "ready"
      BY <1>0, <2>2 DEF FlushRenameCut, FlushUnopened, DiskFails, RenameSwap, FlushOK
    <3>2. IsChain(file') /\ Distinct(file')
      <4>1. swp \in Seq(Header) /\ IsChain(swp) /\ Distinct(swp)
        BY <1>0 DEF DiskOK, FileTypeOK
      <4> QED
        BY <2>2, <4>1, CutIsChain DEF FlushRenameCut, FlushUnopened
    <3> QED
      BY <1>swp, <3>1, <3>2 DEF DiskOK, IsChain, Distinct
  <2> QED
    BY <1>2, <1>5, <2>1, <2>2
       DEF FlushThread, FlushLoopTest, FlushRecord, FlushThrows, FlushUnopenedThrows,
           FlushRetry
<1>6. ASSUME NEW h \in Header, OnHeader(h) \/ OnMerkleBlock(h) PROVE DiskOK'
  <2>1. InsertHeader(h, TRUE, FALSE) /\ UNCHANGED <<file, tornFile, stray>>
    BY <1>6 DEF OnHeader, OnMerkleBlock
  <2>2. pc' = "idle" => ~ bFlushed'
    BY <1>0, <2>1, InsertFacts
  <2> QED
    BY <1>1, <2>1, <2>2
<1>7. CASE TreeLoops
  <2>1. UNCHANGED <<file, tornFile, stray>> /\ (pc' = "idle" => ~ bFlushed')
    BY <1>7, LoopFacts DEF TreeLoops
  <2> QED
    BY <1>1, <2>1
<1>8. CASE Crash
  BY <1>1, <1>8 DEF Crash
<1>9. CASE UNCHANGED allVars
  BY <1>2, <1>9 DEF allVars
<1> QED
  BY <1>3, <1>4, <1>5, <1>6, <1>7, <1>8, <1>9 DEF FileNext

-----------------------------------------------------------------------------
(* The theorems.                                                            *)

(* A first start, with no file on disk, satisfies the invariant. *)
LEMMA FileInitInv == FileInit => FileInv
<1> SUFFICES ASSUME FileInit PROVE FileInv
  OBVIOUS
<1>1. Inv /\ TypeOK
  BY InitInv DEF FileInit, Inv
<1>2. FileTypeOK
  <2>1. <<>> \in Seq(Header)
    BY EmptySeq
  <2>2. nread \in 0 .. ChunkRecords /\ pos \in 0 .. ChunkRecords /\ errors \in 0 .. MaxErrors
    BY FileAssumption DEF FileInit
  <2> QED
    BY <1>1, <2>1, <2>2 DEF FileInit, FileTypeOK, LoaderStates, FlusherStates
<1>3. DiskOK
  BY DEF FileInit, Init, DiskOK, IsChain, Distinct
<1>4. FlushOK /\ LoadOK
  BY DEF FileInit, Init, FlushOK, LoadOK
<1> QED
  BY <1>1, <1>2, <1>3, <1>4 DEF FileInv

(* The invariant is inductive. *)
LEMMA FileNextInv == FileInv /\ [FileNext]_allVars => FileInv'
BY TreeKept, FileTypesKept, LoadKept, DiskKept, FlushKept DEF FileInv

(* The invariant holds through any sequence of insertions, flushes, failed  *)
(* flushes, crashes and starts.                                             *)
THEOREM FileInvHolds == FileSpec => []FileInv
BY FileInitInv, FileNextInv, PTL DEF FileSpec

(* Type correctness: the loop of loadFromFile, the wrapped bound after an   *)
(* empty read included, only ever takes headers out of its buffer.          *)
THEOREM FileTypeCorrect == FileSpec => []FileTypeOK
<1>1. FileInv => FileTypeOK
  BY DEF FileInv
<1> QED
  BY <1>1, FileInvHolds, PTL

(* The tree keeps its own promises while a thread flushes it and after      *)
(* every crash: the best chain is one path to a tip of most work.           *)
THEOREM LoadedTreeIsSound == FileSpec => [](BestChainIsPath /\ TipHasMostWork)
<1>1. FileInv => BestChainIsPath /\ TipHasMostWork
  BY DEF FileInv, Inv, IdleInv, TipInv, PathTo, TreeInv, BestChainIsPath, TipHasMostWork,
         Settled
<1> QED
  BY <1>1, FileInvHolds, PTL

(* Whenever the process is killed, the file's records are one chain from    *)
(* the genesis block, whichever flush of whichever process put them there.  *)
THEOREM FileIsChainHolds == FileSpec => []FileIsChain
<1>1. FileInv => FileIsChain
  BY DEF FileInv, DiskOK, IsChain, FileIsChain
<1> QED
  BY <1>1, FileInvHolds, PTL

(* A tree that claims to be flushed has its best chain on disk, unless a    *)
(* flush could not open or complete its swap file.                          *)
THEOREM FlushedMeansOnDiskHolds == FileSpec => []FlushedMeansOnDisk
<1>1. FileInv => FlushedMeansOnDisk
  BY DEF FileInv, DiskOK, LoadOK, FlushedMeansOnDisk
<1> QED
  BY <1>1, FileInvHolds, PTL

(* A tree that consists of a file's records has the last one as its tip and *)
(* all of them on its best chain.                                           *)
LEMMA LoadedIsBest ==
  ASSUME FileInv, pc = "idle", Loaded(Len(file)), Len(file) \in Nat \ {0}
  PROVE  pHead = Last(file) /\ inBestChain = {file[i] : i \in 1 .. Len(file)}
<1>0. PICK N \in Nat \ {0} : N = Len(file)
  OBVIOUS
<1>1. /\ mHeaderHashMap = {file[i] : i \in 1 .. N}
      /\ \A i \in 1 .. N : height[file[i]] = i - 1
      /\ \A i \in 1 .. N : file[i] \in mHeaderHashMap
  BY <1>0 DEF Loaded
<1>2. /\ FileTypeOK /\ TypeOK /\ Inv /\ IsChain(file) /\ Distinct(file) /\ file # <<>>
  BY DEF FileInv, FileTypeOK, DiskOK
<1>3. 1 \in 1 .. N /\ N \in 1 .. N
  BY <1>0
<1>4. mHeaderHashMap # {}
  BY <1>1, <1>3
<1>5. /\ TreeInv /\ TipInv /\ PathTo(pHead) /\ pHead \in mHeaderHashMap
      /\ \A h \in mHeaderHashMap : chainWork[h] <= chainWork[pHead]
  BY <1>2, <1>4, BestRecords DEF Inv, IdleInv, TipInv
<1>6. PICK j \in 1 .. N : pHead = file[j]
  BY <1>1, <1>5
<1>7. j = N
  <2> SUFFICES ASSUME j # N PROVE FALSE
    OBVIOUS
  <2>1. /\ j + 1 \in 1 .. N /\ j + 1 \in 2 .. N /\ j + 1 # 1 /\ (j + 1) - 1 = j
    OBVIOUS
  <2>2. file[j + 1] \in mHeaderHashMap /\ file[j + 1] # Genesis
    BY <1>0, <1>1, <1>2, <1>3, <2>1 DEF IsChain, Distinct
  <2>3. Prev[file[j + 1]] = pHead
    BY <1>0, <1>2, <1>6, <2>1 DEF IsChain
  <2>4. chainWork[file[j + 1]] = chainWork[pHead] + Work[file[j + 1]]
    BY <1>5, <2>2, <2>3 DEF TreeInv
  <2>5. /\ chainWork[pHead] \in Nat /\ Work[file[j + 1]] \in Nat \ {0}
        /\ chainWork[file[j + 1]] <= chainWork[pHead]
    BY <1>2, <1>5, <2>2, WorkAssumption DEF TypeOK
  <2> QED
    BY <2>4, <2>5
<1>8. height[pHead] = N - 1
  BY <1>1, <1>3, <1>6, <1>7
<1>9. ASSUME NEW i \in 1 .. N PROVE file[i] \in inBestChain
  <2>1. i - 1 \in 0 .. height[pHead]
    BY <1>8
  <2>2. PICK g \in inBestChain : height[g] = i - 1
    BY <1>5, <2>1 DEF PathTo
  <2>3. g \in mHeaderHashMap
    BY <1>5 DEF TreeInv
  <2>4. PICK m \in 1 .. N : g = file[m]
    BY <1>1, <2>3
  <2>5. m - 1 = i - 1
    BY <1>1, <2>2, <2>4
  <2>6. m = i
    BY <2>5
  <2> QED
    BY <2>2, <2>4, <2>6
<1>10. inBestChain = {file[i] : i \in 1 .. N}
  <2>1. inBestChain \subseteq mHeaderHashMap
    BY <1>5 DEF TreeInv
  <2> QED
    BY <1>1, <1>9, <2>1
<1> QED
  BY <1>0, <1>6, <1>7, <1>10 DEF Last

(* loadFromFile rebuilds the very chain that was flushed, whatever the size *)
(* of its buffer.                                                           *)
THEOREM LoadRestoresChainHolds == FileSpec => LoadRestoresChain
<1> DEFINE Restores == loader = "reading" /\ loader' = "ready" =>
                         /\ pHead = Last(file)
                         /\ inBestChain = {file[i] : i \in DOMAIN file}
<1>1. FileInv /\ [FileNext]_allVars => [Restores]_allVars
  <2> SUFFICES ASSUME FileInv, FileNext, loader = "reading", loader' = "ready"
               PROVE  pHead = Last(file) /\ inBestChain = {file[i] : i \in DOMAIN file}
    OBVIOUS
  <2>1. LoadDone
    BY DEF FileNext, Load, OpenFile, ReadChunk, LoadRecord, LoadThrows, NewTree, FlushThread,
           FlushLoopTest, FlushRecord, FlushRename, FlushRenameCut, FlushUnopened,
           FlushUnopenedThrows, DiskFails, RenameSwap, FlushThrows, FlushRetry,
           StartFileFlushThread, StopFileFlushThread, OnHeader, OnMerkleBlock,
           OnNoMoreHeaders, NotifyOne, TreeLoops, Crash, loadVars, fileVars
  <2>2. Loaded(Len(file)) /\ Len(file) \in Nat \ {0} /\ pc = "idle"
    BY <2>1, LoadDoneOK DEF LoadDone
  <2>3. DOMAIN file = 1 .. Len(file)
    BY LenProperties DEF FileInv, FileTypeOK
  <2> QED
    BY <2>2, <2>3, LoadedIsBest
<1> QED
  BY <1>1, FileInvHolds, PTL DEF FileSpec, LoadRestoresChain

(* A file that was flushed or loaded is only ever replaced by a chain of at *)
(* least its work, unless a swap file cannot be opened or completed.        *)
THEOREM FileNeverLosesWorkHolds == FileSpec => FileNeverLosesWork
<1> DEFINE Kept == file' # file /\ file # <<>> /\ ~ stray /\ ~ stray' =>
                     /\ file' # <<>> /\ Last(file) \in mHeaderHashMap
                     /\ chainWork[Last(file)] <= chainWork[Last(file')]
<1>1. FileInv /\ [FileNext]_allVars => [Kept]_allVars
  <2> SUFFICES ASSUME FileInv, FileNext, file' # file, file # <<>>, ~ stray, ~ stray'
               PROVE  /\ file' # <<>> /\ Last(file) \in mHeaderHashMap
                      /\ chainWork[Last(file)] <= chainWork[Last(file')]
    OBVIOUS
  <2>1. FlushRename
    BY DEF FileNext, Load, OpenFile, ReadChunk, LoadRecord, LoadDone, LoadThrows, NewTree,
           FlushThread, FlushLoopTest, FlushRecord, FlushRenameCut, FlushUnopened,
           FlushUnopenedThrows, FlushThrows, FlushRetry, StartFileFlushThread,
           StopFileFlushThread, OnHeader, OnMerkleBlock, OnNoMoreHeaders, NotifyOne,
           TreeLoops, Crash, diskVars, fileVars
  <2>2. /\ file' = swp /\ swp # <<>> /\ Last(swp) = pHead /\ loader = "ready"
        /\ pc = "idle" /\ mHeaderHashMap # {}
    BY <2>1, RenamedIsChain DEF FlushRename, RenameSwap
  <2>3. Last(file) \in mHeaderHashMap
    BY <2>2 DEF FileInv, LoadOK
  <2>4. chainWork[Last(file)] <= chainWork[pHead]
    BY <2>2, <2>3 DEF FileInv, Inv, IdleInv
  <2> QED
    BY <2>2, <2>3, <2>4
<1> QED
  BY <1>1, FileInvHolds, PTL DEF FileSpec, FileNeverLosesWork
=============================================================================
