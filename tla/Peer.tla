-------------------------------- MODULE Peer --------------------------------
(***************************************************************************)
(* CoinQ::Peer (deps/CoinQ/src/CoinQ_peer_io.{h,cpp}): one connection to a *)
(* bitcoin node, opened, used, lost and opened again.                      *)
(*                                                                         *)
(* The handlers of the io_service run one at a time (one thread, and a     *)
(* strand), start, stop and send are called from other threads; each is    *)
(* one action.  What makes the class hard is what outlives a stop: a       *)
(* pending resolve, connect, read, write or timer is not cancelled by      *)
(* do_stop, only some of them by stop, and its handler looks at bRunning,  *)
(* which a later start has set again.  No function and no handler looks at *)
(* which connection socket_ is open to, either.                            *)
(*                                                                         *)
(* Of boost::asio the model takes: functions posted to the strand run in   *)
(* the order they were posted, before or after completed handlers; an      *)
(* operation that is pending when the socket closes completes with         *)
(* operation_aborted, which its handler ignores: it is dropped; one that   *)
(* has completed keeps its result until its handler runs, also while the   *)
(* io_service is stopped; an operation begun while socket_ is connecting   *)
(* waits for the connection and is carried out on it, and one begun on a   *)
(* closed socket fails; the handlers of operations that had completed when *)
(* a connect was begun run before the connect's.  A host has one address.  *)
(*                                                                         *)
(* A connection is numbered by the start in force when it was begun.  A    *)
(* message is <<kind, epoch>> with the epoch in which it was queued.  The  *)
(* remote node is external: it answers a version message with version and  *)
(* verack.                                                                 *)
(*                                                                         *)
(* A definition placed just before the one it resembles and used nowhere   *)
(* is a mutant of it.                                                      *)
(***************************************************************************)
EXTENDS Integers, Sequences

CONSTANTS
    MaxStarts,  \* calls of start()
    MaxFaults,  \* network errors and handshakes slower than five seconds
    MaxQueue,   \* messages send() may add to the queue
    MaxPings    \* pings of the remote node

ASSUME PeerAssumption == {MaxStarts, MaxFaults, MaxQueue, MaxPings} \subseteq Nat

VARIABLES
    bRunning, bHandshakeComplete, bWriteReady,
    sendQueue,
    epoch,          \* calls of start() so far
    resolving,      \* resolve operations that have not completed
    strand,         \* the do_connect and do_write calls posted to strand_
    connecting,     \* the epoch that began the pending connect, 0 if none
    sock,           \* the connection socket_ is open to, 0 if none
    writes,         \* the messages of the writes pending on socket_
    written,        \* those of the writes whose handlers are due
    reads,          \* how many reads are pending on socket_
    got,            \* what the reads whose handlers are due have read
    timer,          \* the epoch that armed timer_, 0 when it is not pending
    remote,         \* what the node at the other end of sock has yet to send
    first,          \* the first message written to sock
    opened,         \* the node at the other end of sock has sent its verack
    overlap,        \* a history: when do_connect last ran, the peer was open or
                    \* something of an earlier connection was still due
    crashed,        \* pop() was called on the empty queue: undefined behaviour
    closedByUser,   \* the last stop was stop() and not do_stop()
    faults, pings

flagVars == <<bRunning, bHandshakeComplete, bWriteReady, closedByUser, crashed>>
sendVars == <<sendQueue, strand>>
opVars   == <<writes, written, reads, got>>
sockVars == <<sock, connecting, remote, first, opened, overlap>>
bounds   == <<faults, pings>>
vars == <<flagVars, sendVars, opVars, sockVars, resolving, epoch, timer, bounds>>

NoMessage == <<"none", 0>>
Connect == <<"connect", 0>>     \* do_connect, as a function posted to the strand

Init ==
    /\ bRunning = FALSE /\ bHandshakeComplete = FALSE /\ bWriteReady = FALSE
    /\ closedByUser = TRUE /\ crashed = FALSE
    /\ sendQueue = <<>> /\ strand = <<>>
    /\ writes = <<>> /\ written = <<>> /\ reads = 0 /\ got = <<>>
    /\ sock = 0 /\ connecting = 0 /\ remote = <<>>
    /\ first = NoMessage /\ opened = FALSE /\ overlap = FALSE
    /\ resolving = 0
    /\ epoch = 0 /\ timer = 0
    /\ faults = 0 /\ pings = 0

-----------------------------------------------------------------------------
(* The calls other handlers make.                                           *)

(* do_send: only the message that finds the queue empty posts a write. *)
DoSendAlways(m) ==
    /\ sendQueue' = Append(sendQueue, m)
    /\ strand' = Append(strand, m)

DoSend(m) ==
    /\ sendQueue' = Append(sendQueue, m)
    /\ strand' = IF sendQueue = <<>> THEN Append(strand, m) ELSE strand

(* do_stop: the socket, the queue and the pending operations stay. *)
DoStop ==
    /\ bRunning' = FALSE /\ bHandshakeComplete' = FALSE /\ bWriteReady' = FALSE
    /\ closedByUser' = FALSE
    /\ UNCHANGED crashed

(* Closing the socket aborts what is pending on it. *)
CloseSocket ==
    /\ sock' = 0 /\ remote' = <<>> /\ first' = NoMessage /\ opened' = FALSE
    /\ writes' = <<>> /\ reads' = 0
    /\ UNCHANGED <<written, got>>

(* async_write and async_read take socket_ as it is. *)
SocketOpen == sock # 0 \/ connecting # 0

Fault ==
    /\ faults < MaxFaults
    /\ faults' = faults + 1
    /\ UNCHANGED pings

-----------------------------------------------------------------------------
(* start, stop and send.                                                    *)

Start ==
    /\ ~ bRunning               \* "Peer already started."
    /\ epoch < MaxStarts
    /\ epoch' = epoch + 1
    /\ bRunning' = TRUE /\ bHandshakeComplete' = FALSE /\ bWriteReady' = FALSE
    /\ resolving' = resolving + 1
    /\ UNCHANGED <<closedByUser, crashed, sendVars, opVars, sockVars, timer, bounds>>

Stop ==
    /\ bRunning
    /\ bRunning' = FALSE /\ bHandshakeComplete' = FALSE /\ bWriteReady' = FALSE
    /\ closedByUser' = TRUE
    /\ CloseSocket /\ connecting' = 0
    /\ sendQueue' = <<>>
    /\ UNCHANGED <<strand, resolving, epoch, timer, crashed, overlap, bounds>>

SendUnchecked ==
    /\ bRunning
    /\ Len(sendQueue) < MaxQueue
    /\ DoSend(<<"data", epoch>>)
    /\ UNCHANGED <<flagVars, opVars, sockVars, resolving, epoch, timer, bounds>>

Send ==
    /\ bRunning /\ bWriteReady
    /\ Len(sendQueue) < MaxQueue
    /\ DoSend(<<"data", epoch>>)
    /\ UNCHANGED <<flagVars, opVars, sockVars, resolving, epoch, timer, bounds>>

-----------------------------------------------------------------------------
(* The handlers of resolve and connect.                                     *)

OnResolve ==
    /\ resolving > 0
    /\ resolving' = resolving - 1
    /\ strand' = IF bRunning THEN Append(strand, Connect) ELSE strand
    /\ UNCHANGED <<flagVars, sendQueue, opVars, sockVars, epoch, timer, bounds>>

OnResolveError ==
    /\ resolving > 0
    /\ Fault
    /\ resolving' = resolving - 1
    /\ IF bRunning THEN DoStop ELSE UNCHANGED flagVars
    /\ UNCHANGED <<sendVars, opVars, sockVars, epoch, timer>>

(* do_connect, posted by the resolve handler, runs whether the peer has     *)
(* been stopped since or not.  async_connect closes the socket before it    *)
(* opens it for the address.                                                *)
StillDue == written # <<>> \/ got # <<>> \/ Len(strand) > 1 \/ bWriteReady

DoConnect ==
    /\ strand # <<>> /\ Head(strand) = Connect
    /\ strand' = Tail(strand)
    /\ CloseSocket
    /\ connecting' = epoch
    /\ overlap' = StillDue
    /\ UNCHANGED <<flagVars, sendQueue, resolving, epoch, timer, bounds>>

(* The handlers run in the order their operations complete: those left over *)
(* from an earlier socket come before that of a connect begun later.        *)
NoLeftover == written = <<>> /\ got = <<>>

(* do_read and do_handshake; arming the timer cancels its earlier wait. *)
OnConnectDeaf ==
    /\ connecting # 0 /\ NoLeftover
    /\ connecting' = 0 /\ sock' = connecting
    /\ IF bRunning
       THEN DoSend(<<"version", epoch>>) /\ timer' = epoch
       ELSE UNCHANGED <<sendVars, timer>>
    /\ UNCHANGED <<flagVars, opVars, remote, first, opened, overlap, resolving, epoch, bounds>>

OnConnect ==
    /\ connecting # 0 /\ NoLeftover
    /\ connecting' = 0 /\ sock' = connecting
    /\ IF bRunning
       THEN reads' = reads + 1 /\ DoSend(<<"version", epoch>>) /\ timer' = epoch
       ELSE UNCHANGED <<reads, sendVars, timer>>
    /\ UNCHANGED <<flagVars, writes, written, got, remote, first, opened, overlap,
                   resolving, epoch, bounds>>

(* What waited for the connection fails with it: a failed write is only     *)
(* reported, a failed read has its handler.                                 *)
OnConnectError ==
    /\ connecting # 0 /\ NoLeftover
    /\ Fault
    /\ connecting' = 0
    /\ IF bRunning THEN DoStop ELSE UNCHANGED flagVars
    /\ writes' = <<>> /\ reads' = 0
    /\ got' = [i \in 1 .. reads |-> "error"]
    /\ UNCHANGED <<sendVars, written, sock, remote, first, opened, overlap, resolving,
                   epoch, timer>>

-----------------------------------------------------------------------------
(* Writing.                                                                 *)

(* do_write on socket_, whichever connection that is open to; on a closed   *)
(* one the write fails at once and is only reported.                        *)
BeginWrite(m) == writes' = IF SocketOpen THEN Append(writes, m) ELSE writes

(* The posted do_write. *)
DoWrite ==
    /\ strand # <<>> /\ Head(strand) # Connect
    /\ strand' = Tail(strand)
    /\ IF bRunning THEN BeginWrite(Head(strand)) ELSE UNCHANGED writes
    /\ UNCHANGED <<flagVars, sendQueue, written, reads, got, sockVars, resolving, epoch,
                   timer, bounds>>

(* external: the bytes are out, and the node answers a version message. *)
WriteCompletes ==
    /\ sock # 0 /\ writes # <<>>
    /\ writes' = Tail(writes)
    /\ written' = Append(written, Head(writes))
    /\ first' = IF first = NoMessage THEN Head(writes) ELSE first
    /\ remote' = remote \o (IF Head(writes)[1] = "version" THEN <<"version", "verack">>
                                                          ELSE <<>>)
    /\ UNCHANGED <<flagVars, sendVars, reads, got, sock, connecting, opened, overlap,
                   resolving, epoch, timer, bounds>>

(* The write handler pops the queue, unless the peer is stopped, and writes *)
(* the next message.                                                        *)
OnWriteForgetful ==
    /\ written # <<>>
    /\ written' = Tail(written)
    /\ IF bRunning
       THEN IF sendQueue = <<>>
            THEN crashed' = TRUE /\ UNCHANGED sendQueue
            ELSE sendQueue' = Tail(sendQueue) /\ UNCHANGED crashed
       ELSE UNCHANGED <<sendQueue, crashed>>
    /\ UNCHANGED <<bRunning, bHandshakeComplete, bWriteReady, closedByUser, strand, writes,
                   reads, got, sockVars, resolving, epoch, timer, bounds>>

OnWrite ==
    /\ written # <<>>
    /\ written' = Tail(written)
    /\ \/ ~ bRunning /\ UNCHANGED <<sendQueue, writes, crashed>>
       \/ /\ bRunning /\ sendQueue = <<>>
          /\ crashed' = TRUE /\ UNCHANGED <<sendQueue, writes>>
       \/ /\ bRunning /\ sendQueue # <<>>
          /\ sendQueue' = Tail(sendQueue)
          /\ IF Tail(sendQueue) # <<>> THEN BeginWrite(Head(Tail(sendQueue)))
                                       ELSE UNCHANGED writes
          /\ UNCHANGED crashed
    /\ UNCHANGED <<bRunning, bHandshakeComplete, bWriteReady, closedByUser, strand,
                   reads, got, sockVars, resolving, epoch, timer, bounds>>

(* The write fails: the handler reports it and leaves the message in the    *)
(* queue, with no write pending.                                            *)
OnWriteError ==
    /\ sock # 0 /\ writes # <<>>
    /\ Fault
    /\ writes' = Tail(writes)
    /\ UNCHANGED <<flagVars, sendVars, written, reads, got, sockVars, resolving, epoch, timer>>

-----------------------------------------------------------------------------
(* Reading.                                                                 *)

(* external: what the node has sent arrives.  All reads share read_buffer:  *)
(* one that completes before an earlier one's handler has run overwrites    *)
(* what that one has read, which then reads as the new message or not as    *)
(* one at all.                                                              *)
ReadCompletes ==
    /\ sock # 0 /\ reads > 0 /\ remote # <<>>
    /\ reads' = reads - 1
    /\ \E seen \in {Head(remote), "garbage"} :
           got' = Append([i \in DOMAIN got |-> IF got[i] = "error" THEN "error" ELSE seen],
                         Head(remote))
    /\ remote' = Tail(remote)
    /\ opened' = (opened \/ Head(remote) = "verack")
    /\ UNCHANGED <<flagVars, sendVars, writes, written, sock, connecting, first, overlap,
                   resolving, epoch, timer, bounds>>

(* The read handler: a stopped peer drops the message and does not read on; *)
(* a read on a closed socket fails.                                         *)
Receive(kind) ==
    /\ got # <<>> /\ Head(got) = kind
    /\ \/ ~ bRunning /\ got' = Tail(got) /\ UNCHANGED reads
       \/ bRunning /\ SocketOpen /\ got' = Tail(got) /\ reads' = reads + 1
       \/ bRunning /\ ~ SocketOpen /\ got' = Append(Tail(got), "error") /\ UNCHANGED reads
    /\ UNCHANGED <<writes, written, sockVars, resolving, epoch, closedByUser, crashed,
                   bRunning, bounds>>

(* A second verack is a protocol error, which is only reported. *)
OnVerack ==
    /\ Receive("verack")
    /\ IF bRunning /\ ~ bHandshakeComplete
       THEN bHandshakeComplete' = TRUE /\ bWriteReady' = TRUE /\ timer' = 0
       ELSE UNCHANGED <<bHandshakeComplete, bWriteReady, timer>>
    /\ UNCHANGED sendVars

OnVersion ==
    /\ Receive("version")
    /\ IF bRunning THEN DoSend(<<"verack", epoch>>) ELSE UNCHANGED sendVars
    /\ UNCHANGED <<bHandshakeComplete, bWriteReady, timer>>

OnPing ==
    /\ Receive("ping")
    /\ IF bRunning THEN DoSend(<<"pong", epoch>>) ELSE UNCHANGED sendVars
    /\ UNCHANGED <<bHandshakeComplete, bWriteReady, timer>>

(* No magic bytes, a wrong checksum: dropped. *)
OnGarbage ==
    /\ Receive("garbage")
    /\ UNCHANGED <<sendVars, bHandshakeComplete, bWriteReady, timer>>

OnReadFailed ==
    /\ got # <<>> /\ Head(got) = "error"
    /\ got' = Tail(got)
    /\ IF bRunning THEN DoStop ELSE UNCHANGED flagVars
    /\ UNCHANGED <<sendVars, writes, written, reads, sockVars, resolving, epoch, timer, bounds>>

(* The connection is lost. *)
ReadFails ==
    /\ sock # 0 /\ reads > 0
    /\ Fault
    /\ reads' = reads - 1 /\ got' = Append(got, "error")
    /\ UNCHANGED <<flagVars, sendVars, writes, written, sockVars, resolving, epoch, timer>>

-----------------------------------------------------------------------------
(* Nothing is on its way that could still complete the handshake. *)
Stalled ==
    /\ resolving = 0 /\ strand = <<>> /\ connecting = 0
    /\ writes = <<>> /\ written = <<>>
    /\ got = <<>> /\ (reads = 0 \/ remote = <<>>)

(* Five seconds pass: at any time if the network is slow, else when nothing *)
(* more can happen.  A stopped peer and a finished handshake ignore it.     *)
OnTimer ==
    /\ timer # 0
    /\ \/ Stalled /\ UNCHANGED bounds
       \/ ~ Stalled /\ Fault
    /\ timer' = 0
    /\ IF bRunning /\ ~ bHandshakeComplete THEN DoStop ELSE UNCHANGED flagVars
    /\ UNCHANGED <<sendVars, opVars, sockVars, resolving, epoch>>

(* The remote node pings once its handshake is done. *)
RemotePings ==
    /\ opened /\ pings < MaxPings
    /\ pings' = pings + 1
    /\ remote' = Append(remote, "ping")
    /\ UNCHANGED <<flagVars, sendVars, opVars, sock, connecting, first, opened, overlap,
                   resolving, epoch, timer, faults>>

Handlers ==
    \/ OnResolve \/ DoConnect \/ OnConnect
    \/ DoWrite \/ WriteCompletes \/ OnWrite
    \/ ReadCompletes \/ OnVerack \/ OnVersion \/ OnPing \/ OnGarbage \/ OnReadFailed
    \/ OnTimer

Errors == OnResolveError \/ OnConnectError \/ OnWriteError \/ ReadFails

Next == ~ crashed /\ (Start \/ Stop \/ Send \/ Handlers \/ Errors \/ RemotePings)

(* The io_service thread runs every handler that is due and the network     *)
(* delivers what it does not report as an error; the user, the remote       *)
(* node's pings and the errors are free to happen or not.                   *)
Spec == Init /\ [][Next]_vars /\ WF_vars(Handlers)
-----------------------------------------------------------------------------
(* Properties.                                                              *)

Kinds == {"none", "version", "verack", "data", "pong"}
Message == Kinds \X (0 .. MaxStarts)
Received == {"version", "verack", "ping", "garbage", "error"}

(* The flags, the queue and the pending operations have their types. *)
TypeOK ==
    /\ {bRunning, bHandshakeComplete, bWriteReady, closedByUser} \subseteq BOOLEAN
    /\ {opened, overlap, crashed} \subseteq BOOLEAN
    /\ {sendQueue, writes, written} \subseteq Seq(Message) /\ first \in Message
    /\ strand \in Seq(Message \cup {Connect})
    /\ reads \in Nat /\ got \in Seq(Received)
    /\ remote \in Seq({"version", "verack", "ping"})
    /\ {epoch, connecting, sock, timer, resolving} \subseteq 0 .. MaxStarts
    /\ faults \in 0 .. MaxFaults /\ pings \in 0 .. MaxPings

(* No write is posted, pending or due for its handler; there is one, of m. *)
NoWrites(s) == \A i \in DOMAIN s : s[i] = Connect
OneWrite(s, m) ==
    \E i \in DOMAIN s : s[i] = m /\ \A j \in DOMAIN s \ {i} : s[j] = Connect

NoWriter == written = <<>> /\ writes = <<>> /\ NoWrites(strand)
OneWriter(m) ==
    \/ written = <<m>> /\ writes = <<>> /\ NoWrites(strand)
    \/ written = <<>> /\ writes = <<m>> /\ NoWrites(strand)
    \/ written = <<>> /\ writes = <<>> /\ OneWrite(strand, m)

(* The write handler pops the message it has written: whatever was stopped, *)
(* restarted or queued since the write was posted, while the socket is      *)
(* still the one written to, the queue's front is that message, and no      *)
(* other write is under way.  (Only the queue keeps the buffer of a write   *)
(* alive; pop() on an empty std::queue is undefined, and popping another    *)
(* message loses it.)  It is so on every connection that was begun with     *)
(* nothing of an earlier one still due.                                     *)
PopsWhatItWrote ==
    ~ overlap /\ bRunning /\ sock # 0
        => NoWriter \/ (sendQueue # <<>> /\ OneWriter(Head(sendQueue)))

(* Nothing queued for an earlier connection is written to a later one, even *)
(* though do_stop leaves the queue as it is, unless something of the        *)
(* earlier one was still due when the later was begun: its write handler    *)
(* goes on with the queue on whatever socket_ is.                           *)
NothingFromEarlierConnection ==
    ~ overlap => \A i \in DOMAIN writes : writes[i][2] >= sock

(* The first message written to a connection is the version message of      *)
(* do_handshake, with the same exception.                                   *)
VersionFirst == ~ overlap /\ first # NoMessage => first[1] = "version"

(* Nor do send() and a ping's answer write anything before the node has     *)
(* sent its verack.                                                         *)
NoDataBeforeVerack ==
    ~ overlap /\ sock # 0
        => \A i \in DOMAIN writes : writes[i][1] \in {"data", "pong"} => opened

(* While nothing fails, a queue that is not empty is being written: the     *)
(* message that do_send does not start to write is reached by the handler   *)
(* of the one before it.                                                    *)
QueueHasWriter ==
    epoch = 1 /\ faults = 0 /\ bRunning /\ sendQueue # <<>> => ~ NoWriter

(* The first connection, to a node that answers and over a network without  *)
(* errors, opens, unless the user stops it.                                 *)
FirstConnectionOpens ==
    epoch = 1 /\ bRunning ~> bHandshakeComplete \/ faults > 0 \/ (closedByUser /\ ~ bRunning)

(* A connection started after the last network error opens, unless the user *)
(* stops it: "Workaround, disconnect and reconnect" (known_issues).         *)
ReconnectOpens ==
    bRunning /\ resolving > 0 /\ faults = MaxFaults
        ~> bHandshakeComplete \/ (closedByUser /\ ~ bRunning)

(* do_handshake: "Give peer 5 seconds to respond".  The timer stops the     *)
(* connection that armed it, and no other.  The code does not satisfy this: *)
(* a known limit, see the README.                                           *)
TimeoutStopsItsOwnConnection ==
    [][bRunning /\ ~ bRunning' /\ timer # 0 /\ timer' = 0 => timer = epoch]_vars
=============================================================================
