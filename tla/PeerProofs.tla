----------------------------- MODULE PeerProofs -----------------------------
(***************************************************************************)
(* What holds of a peer for any number of starts, faults, messages and     *)
(* pings.                                                                  *)
(*                                                                         *)
(* A connection begun with nothing of an earlier one due starts with no    *)
(* write under way.  From then on either there is none, and the queue is   *)
(* empty or stuck behind a message nobody writes, or there is one, of the  *)
(* queue's front, which was not queued for an earlier connection.  As the  *)
(* queue is ordered by the connections its messages were queued for, what  *)
(* the handler of that write goes on with was not queued for one either.   *)
(***************************************************************************)
EXTENDS Peer, TLAPS

(* The messages are in the queue in the order of their connections. *)
InOrder(q, e) ==
    /\ \A i \in 1..Len(q) : q[i][2] <= e
    /\ \A i, j \in 1..Len(q) : i <= j => q[i][2] <= q[j][2]

(* No write is under way, or one of the queue's front is. *)
FrontIsWritten == sendQueue # <<>> /\ OneWriter(Head(sendQueue))

WriteOK ==
    /\ InOrder(sendQueue, epoch)
    /\ ~ overlap /\ sock # 0 =>
          NoWriter \/ (FrontIsWritten /\ Head(sendQueue)[2] >= sock)

(* There is one socket, of a connection begun after a start. *)
SocketOK ==
    /\ connecting # 0 => sock = 0
    /\ sock <= epoch /\ connecting <= epoch /\ resolving <= epoch /\ timer <= epoch
    /\ sock = 0 => first = NoMessage /\ remote = <<>> /\ ~ opened

(* Nothing is being read or written, nor may send() queue anything. *)
Idle == /\ writes = <<>> /\ written = <<>> /\ NoWrites(strand)
        /\ reads = 0 /\ got = <<>> /\ ~ bWriteReady

(* It is so until the connection is there. *)
ConnectingOK == ~ overlap /\ connecting # 0 => Idle

(* Nothing can be received, and so nothing else is sent, before the version *)
(* message is written.                                                      *)
FirstOK ==
    ~ overlap /\ sock # 0 /\ first = NoMessage =>
        /\ remote = <<>> /\ ~ opened /\ ~ bWriteReady /\ written = <<>>
        /\ \A i \in 1..Len(got) : got[i] = "error"
        /\ NoWriter \/ Head(sendQueue)[1] = "version"

(* A queue without messages of send() and answers to pings. *)
Handshake(q) == \A i \in 1..Len(q) : q[i][1] \notin {"data", "pong"}

(* Before the node's verack only the messages of the handshake can be       *)
(* received, and a queue that is being written holds only those.            *)
HandshakeOK ==
    ~ overlap /\ sock # 0 /\ ~ opened =>
        /\ ~ bWriteReady
        /\ \A i \in 1..Len(got) : got[i] \notin {"ping", "verack"}
        /\ \A i \in 1..Len(remote) : remote[i] # "ping"
        /\ NoWriter \/ Handshake(sendQueue)

(* The first start: its one resolve leads to one connection. *)
OneConnect ==
    /\ epoch = 0 => Idle /\ sendQueue = <<>> /\ strand = <<>>
                    /\ sock = 0 /\ connecting = 0 /\ ~ bRunning /\ ~ overlap
    /\ epoch = 1 =>
        /\ ~ overlap
        /\ \/ /\ Idle /\ sendQueue = <<>> /\ sock = 0
              /\ \/ resolving = 1 /\ strand = <<>> /\ connecting = 0
                 \/ resolving = 0 /\ strand = <<Connect>> /\ connecting = 0
                 \/ resolving = 0 /\ strand = <<>> /\ connecting # 0
           \/ /\ resolving = 0 /\ connecting = 0 /\ (bRunning => sock # 0)
              /\ \A i \in 1..Len(strand) : strand[i] # Connect

Inv == /\ TypeOK /\ WriteOK /\ SocketOK /\ ConnectingOK /\ FirstOK /\ HandshakeOK
       /\ OneConnect /\ QueueHasWriter /\ VersionFirst

USE PeerAssumption

-----------------------------------------------------------------------------
(* push(): the front stays, unless there was none. *)
LEMMA AppendFront ==
    ASSUME NEW q \in Seq(Message), NEW m \in Message, NEW e \in 0 .. MaxStarts,
           InOrder(q, e), m[2] = e
    PROVE  /\ Append(q, m) \in Seq(Message) /\ InOrder(Append(q, m), e)
           /\ Append(q, m) # <<>>
           /\ q = <<>> => Head(Append(q, m)) = m
           /\ q # <<>> => Head(Append(q, m)) = Head(q)
<1>1. /\ Append(q, m) \in Seq(Message) /\ Len(Append(q, m)) = Len(q) + 1
      /\ \A i \in 1..Len(q) : Append(q, m)[i] = q[i]
      /\ Append(q, m)[Len(q) + 1] = m /\ Len(q) \in Nat
  OBVIOUS
<1>2. \A i \in 1..Len(q) : q[i][2] \in 0 .. MaxStarts
  BY DEF Message
<1>3. ASSUME NEW i \in 1..Len(q) + 1 PROVE Append(q, m)[i][2] <= e
  <2>1. CASE i = Len(q) + 1
    BY <1>1, <2>1
  <2>2. CASE i # Len(q) + 1
    <3>1. i \in 1..Len(q)
      BY <1>1, <2>2
    <3> QED
      BY <1>1, <3>1 DEF InOrder
  <2> QED
    BY <2>1, <2>2
<1>4. ASSUME NEW i \in 1..Len(q) + 1, NEW j \in 1..Len(q) + 1, i <= j
      PROVE  Append(q, m)[i][2] <= Append(q, m)[j][2]
  <2>1. CASE j = Len(q) + 1
    BY <1>1, <1>3, <1>4, <2>1
  <2>2. CASE j # Len(q) + 1
    <3>1. i \in 1..Len(q) /\ j \in 1..Len(q)
      BY <1>1, <1>4, <2>2
    <3> QED
      BY <1>1, <1>4, <3>1 DEF InOrder
  <2> QED
    BY <2>1, <2>2
<1>5. InOrder(Append(q, m), e)
  BY <1>1, <1>3, <1>4 DEF InOrder
<1>6. Append(q, m) # <<>> /\ Head(Append(q, m)) = Append(q, m)[1]
  <2> DEFINE a == Append(q, m)
  <2>1. a \in Seq(Message) /\ Len(a) >= 1
    BY <1>1
  <2> HIDE DEF a
  <2>2. a # <<>> /\ Head(a) = a[1]
    BY <2>1
  <2> QED
    BY <2>2 DEF a
<1>7. q = <<>> => Head(Append(q, m)) = m
  BY <1>1, <1>6
<1>8. q # <<>> => Head(Append(q, m)) = Head(q)
  BY <1>1, <1>6
<1> QED
  BY <1>1, <1>5, <1>6, <1>7, <1>8

(* pop(): what follows the front was not queued for an earlier connection. *)
LEMMA TailFront ==
    ASSUME NEW q \in Seq(Message), q # <<>>, NEW e \in 0 .. MaxStarts, InOrder(q, e)
    PROVE  /\ Tail(q) \in Seq(Message) /\ InOrder(Tail(q), e)
           /\ Tail(q) # <<>> => /\ Head(Tail(q)) \in Message
                                /\ Head(Tail(q))[2] >= Head(q)[2]
<1>1. /\ Tail(q) \in Seq(Message) /\ Len(Tail(q)) = Len(q) - 1
      /\ \A i \in 1..Len(Tail(q)) : Tail(q)[i] = q[i + 1]
      /\ Len(q) \in Nat /\ Len(q) >= 1
  OBVIOUS
<1>2. InOrder(Tail(q), e)
  BY <1>1 DEF InOrder
<1>3. ASSUME Tail(q) # <<>>
      PROVE  /\ Head(Tail(q)) = q[2] /\ Head(q) = q[1] /\ 2 \in 1..Len(q)
             /\ q[2] \in Message
  BY <1>1, <1>3
<1>4. ASSUME Tail(q) # <<>> PROVE q[2][2] >= q[1][2]
  BY <1>1, <1>3, <1>4 DEF InOrder, Message
<1> QED
  BY <1>1, <1>2, <1>3, <1>4

(* post(): a connect leaves the posted writes as they are, a write is one more. *)
LEMMA PostStrand ==
    ASSUME NEW s \in Seq(Message \cup {Connect})
    PROVE  /\ Append(s, Connect) \in Seq(Message \cup {Connect})
           /\ NoWrites(s) => NoWrites(Append(s, Connect))
           /\ \A m \in Message : OneWrite(s, m) => OneWrite(Append(s, Connect), m)
           /\ \A m \in Message : /\ Append(s, m) \in Seq(Message \cup {Connect})
                                 /\ NoWrites(s) => OneWrite(Append(s, m), m)
<1>1. ASSUME NEW t \in Message \cup {Connect}
      PROVE  /\ Append(s, t) \in Seq(Message \cup {Connect})
             /\ DOMAIN Append(s, t) = 1..Len(s) + 1 /\ Len(s) \in Nat
             /\ DOMAIN s = 1..Len(s)
             /\ \A i \in 1..Len(s) : Append(s, t)[i] = s[i]
             /\ Append(s, t)[Len(s) + 1] = t
  OBVIOUS
<1>2. ASSUME NoWrites(s) PROVE NoWrites(Append(s, Connect))
  BY <1>1, <1>2 DEF NoWrites
<1>3. ASSUME NEW m \in Message, OneWrite(s, m) PROVE OneWrite(Append(s, Connect), m)
  <2>1. PICK i \in 1..Len(s) : s[i] = m /\ \A j \in 1..Len(s) \ {i} : s[j] = Connect
    BY <1>1, <1>3 DEF OneWrite
  <2>2. i \in 1..Len(s) + 1 /\ Append(s, Connect)[i] = m
    BY <1>1, <2>1
  <2>3. ASSUME NEW j \in 1..Len(s) + 1, j # i PROVE Append(s, Connect)[j] = Connect
    BY <1>1, <2>1, <2>3
  <2> QED
    BY <1>1, <2>2, <2>3 DEF OneWrite
<1>4. ASSUME NEW m \in Message, NoWrites(s) PROVE OneWrite(Append(s, m), m)
  <2>1. Len(s) + 1 \in 1..Len(s) + 1 /\ Append(s, m)[Len(s) + 1] = m
    BY <1>1
  <2>2. ASSUME NEW j \in 1..Len(s) + 1, j # Len(s) + 1 PROVE Append(s, m)[j] = Connect
    BY <1>1, <1>4, <2>2 DEF NoWrites
  <2> QED
    BY <1>1, <2>1, <2>2 DEF OneWrite
<1> QED
  BY <1>1, <1>2, <1>3, <1>4

(* The strand takes its first function. *)
LEMMA TakeStrand ==
    ASSUME NEW s \in Seq(Message \cup {Connect}), s # <<>>
    PROVE  /\ Tail(s) \in Seq(Message \cup {Connect})
           /\ Head(s) \in Message \cup {Connect}
           /\ NoWrites(s) => Head(s) = Connect /\ NoWrites(Tail(s))
           /\ \A m \in Message : OneWrite(s, m) =>
                 /\ Head(s) # Connect => Head(s) = m /\ NoWrites(Tail(s))
                 /\ Head(s) = Connect => OneWrite(Tail(s), m)
<1>1. /\ Tail(s) \in Seq(Message \cup {Connect})
      /\ DOMAIN Tail(s) = 1..Len(s) - 1 /\ Len(s) \in Nat /\ Len(s) >= 1
      /\ DOMAIN s = 1..Len(s)
      /\ \A i \in 1..Len(s) - 1 : Tail(s)[i] = s[i + 1]
      /\ Head(s) = s[1] /\ s[1] \in Message \cup {Connect}
  OBVIOUS
<1>2. ASSUME NoWrites(s) PROVE Head(s) = Connect /\ NoWrites(Tail(s))
  BY <1>1, <1>2 DEF NoWrites
<1>3. ASSUME NEW m \in Message, OneWrite(s, m)
      PROVE  /\ Head(s) # Connect => Head(s) = m /\ NoWrites(Tail(s))
             /\ Head(s) = Connect => OneWrite(Tail(s), m)
  <2>0. m # Connect
    BY DEF Message, Kinds, Connect
  <2>1. PICK i \in 1..Len(s) : s[i] = m /\ \A j \in 1..Len(s) \ {i} : s[j] = Connect
    BY <1>1, <1>3 DEF OneWrite
  <2>2. CASE i = 1
    BY <1>1, <2>0, <2>1, <2>2 DEF NoWrites
  <2>3. CASE i # 1
    <3>1. Head(s) = Connect
      BY <1>1, <2>1, <2>3
    <3>2. i - 1 \in 1..Len(s) - 1 /\ Tail(s)[i - 1] = m
      BY <1>1, <2>1, <2>3
    <3>3. ASSUME NEW j \in 1..Len(s) - 1, j # i - 1 PROVE Tail(s)[j] = Connect
      BY <1>1, <2>1, <3>3
    <3> QED
      BY <1>1, <3>1, <3>2, <3>3 DEF OneWrite
  <2> QED
    BY <2>2, <2>3
<1> QED
  BY <1>1, <1>2, <1>3

(* A sequence of one. *)
LEMMA OfOne ==
    ASSUME NEW S, NEW m \in S
    PROVE  /\ Head(<<m>>) = m /\ Tail(<<m>>) = <<>> /\ <<m>> # <<>>
           /\ Append(<<>>, m) = <<m>>
OBVIOUS

(* Sequences over S stay such. *)
LEMMA SeqKept ==
    ASSUME NEW S, NEW s \in Seq(S)
    PROVE  /\ \A x \in S : Append(s, x) \in Seq(S)
           /\ \A t \in Seq(S) : s \o t \in Seq(S)
           /\ s # <<>> => Tail(s) \in Seq(S) /\ Head(s) \in S
OBVIOUS

(* What follows the only element. *)
LEMMA TailOfOne ==
    ASSUME NEW S, NEW s \in Seq(S), s # <<>>, ~ (Len(s) > 1)
    PROVE  DOMAIN Tail(s) = {}
<1>1. Len(s) \in Nat /\ Len(s) # 0
  OBVIOUS
<1>2. ASSUME NEW n \in Nat, n # 0, ~ (n > 1) PROVE n = 1
  BY <1>2
<1>4. Len(s) = 1
  BY <1>1, <1>2
<1>3. DOMAIN Tail(s) = 1..Len(s) - 1
  OBVIOUS
<1> QED
  BY <1>4, <1>3

(* A write under way is not no write under way. *)
LEMMA WriterIsOne ==
    ASSUME TypeOK, FrontIsWritten PROVE ~ NoWriter
<1>1. Head(sendQueue) \in Message
  BY DEF TypeOK, FrontIsWritten
<1>2. Head(sendQueue) # Connect
  BY <1>1 DEF Message, Kinds, Connect
<1>3. <<Head(sendQueue)>> # <<>>
  BY OfOne
<1>4. CASE OneWrite(strand, Head(sendQueue))
  BY <1>2, <1>4 DEF OneWrite, NoWriter, NoWrites
<1>5. CASE written = <<Head(sendQueue)>> \/ writes = <<Head(sendQueue)>>
  BY <1>3, <1>5 DEF NoWriter
<1> QED
  BY <1>4, <1>5 DEF FrontIsWritten, OneWriter

(* The same of the state after a step. *)
LEMMA WriterIsOnePrimed ==
    ASSUME TypeOK', FrontIsWritten' PROVE ~ NoWriter'
<1>1. Head(sendQueue') \in Message
  BY DEF TypeOK, FrontIsWritten
<1>2. Head(sendQueue') # Connect
  BY <1>1 DEF Message, Kinds, Connect
<1>3. <<Head(sendQueue')>> # <<>>
  BY OfOne
<1>4. CASE OneWrite(strand', Head(sendQueue'))
  BY <1>2, <1>4 DEF OneWrite, NoWriter, NoWrites
<1>5. CASE written' = <<Head(sendQueue')>> \/ writes' = <<Head(sendQueue')>>
  BY <1>3, <1>5 DEF NoWriter
<1> QED
  BY <1>4, <1>5 DEF FrontIsWritten, OneWriter

(* do_send of a message of the present connection. *)
LEMMA DoSendOK ==
    ASSUME TypeOK, WriteOK, NEW kind \in Kinds, DoSend(<<kind, epoch>>)
    PROVE  /\ sendQueue' \in Seq(Message) /\ InOrder(sendQueue', epoch)
           /\ sendQueue' # <<>> /\ strand' \in Seq(Message \cup {Connect})
           /\ sendQueue = <<>> =>
                 /\ Head(sendQueue') = <<kind, epoch>>
                 /\ NoWrites(strand) => OneWrite(strand', <<kind, epoch>>)
           /\ sendQueue # <<>> => Head(sendQueue') = Head(sendQueue) /\ strand' = strand
<1> DEFINE m == <<kind, epoch>>
<1>1. /\ m \in Message /\ m[2] = epoch /\ epoch \in 0 .. MaxStarts
      /\ sendQueue \in Seq(Message) /\ strand \in Seq(Message \cup {Connect})
  BY DEF TypeOK, Message
<1>2. InOrder(sendQueue, epoch)
  BY DEF WriteOK
<1>3. /\ sendQueue' = Append(sendQueue, m)
      /\ strand' = IF sendQueue = <<>> THEN Append(strand, m) ELSE strand
  BY DEF DoSend
<1> HIDE DEF m
<1>4. /\ Append(sendQueue, m) \in Seq(Message) /\ InOrder(Append(sendQueue, m), epoch)
      /\ Append(sendQueue, m) # <<>>
      /\ sendQueue = <<>> => Head(Append(sendQueue, m)) = m
      /\ sendQueue # <<>> => Head(Append(sendQueue, m)) = Head(sendQueue)
  BY <1>1, <1>2, AppendFront
<1>5. /\ Append(strand, m) \in Seq(Message \cup {Connect})
      /\ NoWrites(strand) => OneWrite(Append(strand, m), m)
  BY <1>1, PostStrand
<1>6. CASE sendQueue = <<>>
  BY <1>3, <1>4, <1>5, <1>6 DEF m
<1>7. CASE sendQueue # <<>>
  BY <1>1, <1>3, <1>4, <1>7
<1> QED
  BY <1>6, <1>7

(* It posts a write exactly when the queue was empty, and then the only one.*)
LEMMA SentWriter ==
    ASSUME TypeOK, WriteOK, NEW kind \in Kinds, DoSend(<<kind, epoch>>),
           UNCHANGED <<writes, written>>, NoWriter \/ FrontIsWritten
    PROVE  /\ sendQueue = <<>> => FrontIsWritten' /\ Head(sendQueue') = <<kind, epoch>>
           /\ sendQueue # <<>> => /\ Head(sendQueue') = Head(sendQueue)
                                  /\ NoWriter => NoWriter'
                                  /\ FrontIsWritten => FrontIsWritten'
<1>1. CASE sendQueue = <<>>
  <2>1. NoWriter
    BY <1>1 DEF FrontIsWritten
  <2>2. /\ sendQueue' # <<>> /\ Head(sendQueue') = <<kind, epoch>>
        /\ OneWrite(strand', <<kind, epoch>>)
    BY <1>1, <2>1, DoSendOK DEF NoWriter
  <2>3. OneWriter(Head(sendQueue))'
    BY <2>1, <2>2 DEF OneWriter, NoWriter
  <2> QED
    BY <1>1, <2>2, <2>3 DEF FrontIsWritten
<1>2. CASE sendQueue # <<>>
  <2>1. sendQueue' # <<>> /\ Head(sendQueue') = Head(sendQueue) /\ strand' = strand
    BY <1>2, DoSendOK
  <2>2. NoWriter => NoWriter'
    BY <1>2, <2>1 DEF NoWriter
  <2>3. FrontIsWritten => FrontIsWritten'
    BY <1>2, <2>1 DEF FrontIsWritten, OneWriter
  <2> QED
    BY <1>2, <2>1, <2>2, <2>3
<1> QED
  BY <1>1, <1>2

(* The steps that send, each a message of the present connection.  None     *)
(* runs before a read has completed or send() is let in.                    *)
LEMMA SendingSteps ==
    ASSUME Send \/ OnVersion \/ OnPing
    PROVE  /\ \/ \E kind \in Kinds : DoSend(<<kind, epoch>>) /\ bRunning
              \/ UNCHANGED sendVars
           /\ UNCHANGED <<flagVars, writes, written, sockVars, resolving, epoch, timer, bounds>>
           /\ bWriteReady \/ got # <<>>
BY DEF Send, OnVersion, OnPing, Receive, Kinds, flagVars, opVars

-----------------------------------------------------------------------------
(* The parts of TypeOK. *)
FlagType   == /\ {bRunning, bHandshakeComplete, bWriteReady, closedByUser} \subseteq BOOLEAN
              /\ {opened, overlap, crashed} \subseteq BOOLEAN
QueueType  == /\ {sendQueue, writes, written} \subseteq Seq(Message) /\ first \in Message
              /\ strand \in Seq(Message \cup {Connect})
ReadType   == /\ reads \in Nat /\ got \in Seq(Received)
              /\ remote \in Seq({"version", "verack", "ping"})
NumberType == /\ {epoch, connecting, sock, timer, resolving} \subseteq 0 .. MaxStarts
              /\ faults \in 0 .. MaxFaults /\ pings \in 0 .. MaxPings

(* The flags stay Boolean. *)
LEMMA FlagTypeKept ==
    ASSUME Inv, Next PROVE FlagType'
<1>0. FlagType
  BY DEF Inv, TypeOK, FlagType
<1> USE <1>0 DEF FlagType, flagVars, sendVars, sockVars, bounds
<1>1. CASE Start \/ Stop \/ Send \/ OnResolve \/ OnConnect \/ DoWrite \/ RemotePings
  BY <1>1 DEF Start, Stop, Send, OnResolve, OnConnect, DoWrite, RemotePings, CloseSocket
<1>2. CASE WriteCompletes \/ OnWrite \/ ReadCompletes
  BY <1>2 DEF WriteCompletes, OnWrite, ReadCompletes
<1>3. CASE OnVerack \/ OnVersion \/ OnPing \/ OnGarbage
  BY <1>3 DEF OnVerack, OnVersion, OnPing, OnGarbage, Receive
<1>4. CASE OnReadFailed \/ OnTimer \/ Errors
  BY <1>4 DEF OnReadFailed, OnTimer, Errors, OnResolveError, OnConnectError, OnWriteError,
              ReadFails, DoStop
<1>5. CASE DoConnect
  BY <1>5 DEF DoConnect, CloseSocket, StillDue
<1> QED
  BY <1>1, <1>2, <1>3, <1>4, <1>5 DEF Next, Handlers

(* What is read and yet to be read. *)
LEMMA ReadTypeKept ==
    ASSUME Inv, Next PROVE ReadType'
<1>0. ReadType
  BY DEF Inv, TypeOK, ReadType
<1> USE <1>0 DEF ReadType, flagVars, sendVars, sockVars, bounds, opVars
<1>1. CASE Start \/ Send \/ OnResolve \/ OnConnect \/ DoWrite \/ OnWrite
  BY <1>1 DEF Start, Send, OnResolve, OnConnect, DoWrite, OnWrite
<1>2. CASE Stop \/ DoConnect
  <2>1. reads' = 0 /\ got' = got /\ remote' = <<>>
    BY <1>2 DEF Stop, DoConnect, CloseSocket
  <2> QED
    BY <2>1
<1>5. CASE WriteCompletes
  <2>1. <<"version", "verack">> \in Seq({"version", "verack", "ping"})
        /\ <<>> \in Seq({"version", "verack", "ping"})
    OBVIOUS
  <2>2. UNCHANGED <<reads, got>>
        /\ (remote' = remote \o <<"version", "verack">> \/ remote' = remote \o <<>>)
    BY <1>5 DEF WriteCompletes
  <2>3. remote \in Seq({"version", "verack", "ping"})
    OBVIOUS
  <2>4. /\ remote \o <<"version", "verack">> \in Seq({"version", "verack", "ping"})
        /\ remote \o <<>> \in Seq({"version", "verack", "ping"})
    BY ONLY <2>1, <2>3, SeqKept
  <2>5. remote' \in Seq({"version", "verack", "ping"})
    BY ONLY <2>2, <2>4
  <2> QED
    BY <2>2, <2>5
<1>6. CASE ReadCompletes
  <2>1. PICK seen \in {Head(remote), "garbage"} :
           got' = Append([i \in DOMAIN got |-> IF got[i] = "error" THEN "error" ELSE seen],
                         Head(remote))
    BY <1>6 DEF ReadCompletes
  <2>2. Head(remote) \in Received /\ seen \in Received
    BY <1>6 DEF ReadCompletes, Received
  <2> DEFINE g == [i \in DOMAIN got |-> IF got[i] = "error" THEN "error" ELSE seen]
  <2>3. g \in Seq(Received)
    <3>1. DOMAIN got = 1..Len(got) /\ Len(got) \in Nat /\ "error" \in Received
      BY DEF Received
    <3> QED
      BY <2>2, <3>1
  <2> HIDE DEF g
  <2>4. got' = Append(g, Head(remote))
    BY <2>1 DEF g
  <2>5. got' \in Seq(Received)
    BY <2>2, <2>3, <2>4
  <2>6. reads' \in Nat /\ remote' \in Seq({"version", "verack", "ping"})
    BY <1>6 DEF ReadCompletes
  <2> QED
    BY <2>5, <2>6
<1>7. CASE OnVerack \/ OnVersion \/ OnPing \/ OnGarbage
  <2>1. PICK kind \in Received : Receive(kind)
    BY <1>7 DEF OnVerack, OnVersion, OnPing, OnGarbage, Received
  <2>2. got # <<>> /\ Tail(got) \in Seq(Received)
    BY <2>1 DEF Receive
  <2>3. Append(Tail(got), "error") \in Seq(Received)
    BY <2>2 DEF Received
  <2>4. /\ reads' \in {reads, reads + 1} /\ remote' = remote
        /\ got' \in {Tail(got), Append(Tail(got), "error")}
    BY <2>1 DEF Receive
  <2>5. got' \in Seq(Received)
    BY ONLY <2>2, <2>3, <2>4
  <2>6. reads' \in Nat /\ remote' \in Seq({"version", "verack", "ping"})
    BY <2>4
  <2> QED
    BY <2>5, <2>6
<1>8. CASE RemotePings
  BY <1>8 DEF RemotePings
<1>9. CASE OnReadFailed \/ OnTimer \/ OnResolveError \/ OnWriteError \/ ReadFails
  <2>1. "error" \in Received
    BY DEF Received
  <2>2. /\ reads' = reads \/ (reads > 0 /\ reads' = reads - 1)
        /\ remote' = remote
        /\ got' = got \/ (got # <<>> /\ got' = Tail(got)) \/ got' = Append(got, "error")
    BY <1>9 DEF OnReadFailed, OnTimer, OnResolveError, OnWriteError, ReadFails
  <2>4. got \in Seq(Received)
    OBVIOUS
  <2>3. got' \in Seq(Received)
    BY ONLY <2>1, <2>2, <2>4, SeqKept
  <2> QED
    BY <2>2, <2>3
<1>10. CASE OnConnectError
  <2>1. [i \in 1 .. reads |-> "error"] \in Seq(Received)
    BY DEF Received
  <2> QED
    BY <1>10, <2>1 DEF OnConnectError
<1> QED
  BY <1>1, <1>2, <1>5, <1>6, <1>7, <1>8, <1>9, <1>10 DEF Next, Handlers, Errors

(* The counters stay within their bounds. *)
LEMMA NumberTypeKept ==
    ASSUME Inv, Next PROVE NumberType'
<1>0. NumberType /\ SocketOK
  BY DEF Inv, TypeOK, NumberType
<1> USE <1>0 DEF NumberType, flagVars, sendVars, sockVars, bounds, Fault
<1>1. CASE Start
  BY <1>1 DEF Start, SocketOK
<1>2. CASE Stop \/ Send \/ OnResolve \/ DoConnect
  <2>1. /\ connecting' \in {connecting, 0, epoch} /\ sock' \in {sock, 0}
        /\ resolving' = resolving \/ (resolving > 0 /\ resolving' = resolving - 1)
        /\ UNCHANGED <<epoch, timer, faults, pings>>
    BY <1>2 DEF Stop, Send, OnResolve, DoConnect, CloseSocket
  <2> QED
    BY <2>1
<1>3. CASE OnConnect \/ DoWrite \/ WriteCompletes \/ OnWrite \/ RemotePings
  BY <1>3 DEF OnConnect, DoWrite, WriteCompletes, OnWrite, RemotePings
<1>4. CASE ReadCompletes \/ OnVerack \/ OnVersion \/ OnPing \/ OnGarbage
  BY <1>4 DEF ReadCompletes, OnVerack, OnVersion, OnPing, OnGarbage, Receive
<1>5. CASE OnReadFailed \/ OnTimer
  BY <1>5 DEF OnReadFailed, OnTimer
<1>6. CASE Errors
  BY <1>6 DEF Errors, OnResolveError, OnConnectError, OnWriteError, ReadFails
<1> QED
  BY <1>1, <1>2, <1>3, <1>4, <1>5, <1>6 DEF Next, Handlers

(* The queue, the strand, and what is written. *)
LEMMA QueueTypeKept ==
    ASSUME Inv, Next PROVE QueueType'
<1>0. QueueType /\ TypeOK /\ WriteOK /\ NoMessage \in Message
  BY DEF Inv, TypeOK, QueueType, NoMessage, Message, Kinds
<1>1. ASSUME NEW kind \in Kinds, DoSend(<<kind, epoch>>), UNCHANGED <<first, writes, written>>
      PROVE  QueueType'
  BY <1>0, <1>1, DoSendOK DEF QueueType
<1>2. ASSUME UNCHANGED <<sendVars, first, writes, written>> PROVE QueueType'
  BY <1>0, <1>2 DEF QueueType, sendVars
<1> USE <1>0 DEF QueueType, flagVars, sockVars, sendVars, bounds, opVars
<1>3. CASE Send \/ OnVersion \/ OnPing
  BY <1>1, <1>2, <1>3, SendingSteps
<1>4. CASE OnConnect
  <2>1. \/ DoSend(<<"version", epoch>>) /\ UNCHANGED <<first, writes, written>>
        \/ UNCHANGED <<sendVars, first, writes, written>>
    BY <1>4 DEF OnConnect
  <2>2. "version" \in Kinds
    BY DEF Kinds
  <2> QED
    BY <1>1, <1>2, <2>1, <2>2
<1>5. CASE OnWrite
  <2>1. sendQueue # <<>> =>
            Tail(sendQueue) \in Seq(Message)
            /\ (Tail(sendQueue) # <<>> => Head(Tail(sendQueue)) \in Message)
    BY TailFront DEF WriteOK, TypeOK
  <2>2. /\ written' = Tail(written) /\ written # <<>> /\ UNCHANGED <<first, strand>>
        /\ \/ UNCHANGED <<sendQueue, writes>>
           \/ /\ sendQueue # <<>> /\ sendQueue' = Tail(sendQueue)
              /\ \/ UNCHANGED writes
                 \/ Tail(sendQueue) # <<>> /\ writes' = Append(writes, Head(Tail(sendQueue)))
    BY <1>5 DEF OnWrite, BeginWrite
  <2>3. written' \in Seq(Message)
    BY <2>2
  <2>4. sendQueue' \in Seq(Message)
    BY <2>1, <2>2
  <2>7. writes \in Seq(Message)
    OBVIOUS
  <2>5. writes' \in Seq(Message)
    BY ONLY <2>1, <2>2, <2>7, SeqKept
  <2>6. first' \in Message /\ strand' \in Seq(Message \cup {Connect})
    BY <2>2
  <2> QED
    BY <2>3, <2>4, <2>5, <2>6
<1>6. CASE Start \/ ReadCompletes \/ OnVerack \/ OnGarbage \/ RemotePings \/ OnReadFailed
           \/ OnTimer
  BY <1>2, <1>6 DEF Start, ReadCompletes, OnVerack, OnGarbage, RemotePings, OnReadFailed,
                    OnTimer, Receive
<1>7. CASE Stop
  BY <1>7 DEF Stop, CloseSocket
<1>8. CASE OnResolve
  BY <1>8, PostStrand DEF OnResolve
<1>9. CASE DoConnect
  <2>1. strand' \in Seq(Message \cup {Connect})
    BY <1>9, TakeStrand DEF DoConnect
  <2> QED
    BY <1>9, <2>1 DEF DoConnect, CloseSocket
<1>10. CASE DoWrite
  <2>1. /\ strand' \in Seq(Message \cup {Connect}) /\ Head(strand) \in Message
    BY <1>10, TakeStrand DEF DoWrite
  <2>2. writes' = writes \/ writes' = Append(writes, Head(strand))
    BY <1>10 DEF DoWrite, BeginWrite
  <2>5. writes \in Seq(Message)
    OBVIOUS
  <2>3. writes' \in Seq(Message)
    BY ONLY <2>1, <2>2, <2>5, SeqKept
  <2>4. UNCHANGED <<sendQueue, written, first>>
    BY <1>10 DEF DoWrite
  <2> QED
    BY <2>1, <2>3, <2>4
<1>11. CASE WriteCompletes
  <2>1. Head(writes) \in Message /\ Tail(writes) \in Seq(Message)
    BY <1>11 DEF WriteCompletes
  <2> QED
    BY <1>11, <2>1 DEF WriteCompletes
<1>12. CASE OnWriteError
  BY <1>12 DEF OnWriteError
<1>13. CASE OnResolveError \/ ReadFails
  BY <1>2, <1>13 DEF OnResolveError, ReadFails
<1>14. CASE OnConnectError
  BY <1>14 DEF OnConnectError
<1> QED
  BY <1>3, <1>4, <1>5, <1>6, <1>7, <1>8, <1>9, <1>10, <1>11, <1>12, <1>13, <1>14
     DEF Next, Handlers, Errors

(* Together they are TypeOK. *)
LEMMA TypeKept ==
    ASSUME Inv, Next PROVE TypeOK'
BY FlagTypeKept, QueueTypeKept, ReadTypeKept, NumberTypeKept
   DEF TypeOK, FlagType, QueueType, ReadType, NumberType

-----------------------------------------------------------------------------
(* One connection at a time: the socket is closed before another is begun. *)
LEMMA SocketKept ==
    ASSUME Inv, Next PROVE SocketOK'
<1>0. SocketOK /\ {epoch, connecting, sock, timer, resolving} \subseteq Nat
  BY DEF Inv, TypeOK
<1> USE <1>0 DEF SocketOK
<1>1. CASE Start
  <2>1. /\ epoch' = epoch + 1 /\ resolving' = resolving + 1
        /\ UNCHANGED <<sock, connecting, timer, first, remote, opened>>
    BY <1>1 DEF Start, sockVars
  <2> QED
    BY <2>1
<1>2. CASE Stop
  BY <1>2 DEF Stop, CloseSocket
<1>3. CASE DoConnect
  BY <1>3 DEF DoConnect, CloseSocket
<1>4. CASE OnConnect
  <2>1. /\ connecting # 0 /\ connecting' = 0 /\ sock' = connecting
        /\ UNCHANGED <<epoch, resolving, first, remote, opened>>
        /\ timer' \in {timer, epoch}
    BY <1>4 DEF OnConnect
  <2> QED
    BY <2>1
<1>5. CASE /\ UNCHANGED <<sockVars, epoch>>
           /\ resolving' \in {resolving, resolving - 1} /\ timer' \in {timer, 0}
  BY <1>5 DEF sockVars
<1>6. CASE Send \/ DoWrite \/ OnWrite \/ OnWriteError \/ ReadFails \/ OnReadFailed
  BY <1>5, <1>6 DEF Send, DoWrite, OnWrite, OnWriteError, ReadFails, OnReadFailed
<1>7. CASE OnVerack \/ OnVersion \/ OnPing \/ OnGarbage
  BY <1>5, <1>7 DEF OnVerack, OnVersion, OnPing, OnGarbage, Receive
<1>8. CASE OnTimer \/ OnResolve \/ OnResolveError
  BY <1>5, <1>8 DEF OnTimer, OnResolve, OnResolveError
<1>9. CASE OnConnectError
  BY <1>9 DEF OnConnectError
<1>10. CASE sock # 0 /\ UNCHANGED <<sock, connecting, epoch, resolving, timer>>
  BY <1>10
<1>11. CASE WriteCompletes \/ ReadCompletes
  BY <1>10, <1>11 DEF WriteCompletes, ReadCompletes
<1>12. CASE RemotePings
  <2>1. opened /\ UNCHANGED <<sock, connecting, epoch, resolving, timer>>
    BY <1>12 DEF RemotePings
  <2> QED
    BY <1>10, <2>1
<1> QED
  BY <1>1, <1>2, <1>3, <1>4, <1>6, <1>7, <1>8, <1>9, <1>11, <1>12
     DEF Next, Handlers, Errors

(* While a connect begun with nothing due is pending, nothing becomes due. *)
LEMMA ConnectingKept ==
    ASSUME Inv, Next PROVE ConnectingOK'
<1>0. TypeOK /\ SocketOK /\ ConnectingOK
  BY DEF Inv
<1> USE DEF ConnectingOK
<1>1. CASE Start \/ OnTimer \/ OnResolveError \/ RemotePings
  <2>1. /\ UNCHANGED <<overlap, connecting, writes, written, reads, got, strand>>
        /\ bWriteReady' = bWriteReady \/ bWriteReady' = FALSE
    BY <1>1 DEF Start, OnTimer, OnResolveError, RemotePings, DoStop, flagVars, sendVars,
                opVars, sockVars
  <2> QED
    BY <1>0, <2>1 DEF Idle
<1>2. CASE connecting' = 0
  BY <1>2
<1>3. CASE Stop \/ OnConnect \/ OnConnectError
  BY <1>2, <1>3 DEF Stop, OnConnect, OnConnectError
<1>4. CASE OnResolve
  <2>1. NoWrites(strand) => NoWrites(strand')
    BY <1>0, <1>4, PostStrand DEF TypeOK, OnResolve
  <2>2. UNCHANGED <<overlap, connecting, writes, written, reads, got, bWriteReady>>
    BY <1>4 DEF OnResolve, flagVars, opVars, sockVars
  <2> QED
    BY <1>0, <2>1, <2>2 DEF Idle
<1>5. CASE DoConnect
  <2>1. /\ writes' = <<>> /\ reads' = 0
        /\ UNCHANGED <<written, got, bWriteReady>>
        /\ overlap' = StillDue /\ strand # <<>> /\ strand' = Tail(strand)
    BY <1>5 DEF DoConnect, CloseSocket, flagVars
  <2>2. ASSUME ~ overlap'
        PROVE  written = <<>> /\ got = <<>> /\ ~ bWriteReady /\ ~ (Len(strand) > 1)
    BY <2>1, <2>2 DEF StillDue
  <2>3. ASSUME ~ overlap' PROVE NoWrites(strand')
    <3>0. strand \in Seq(Message \cup {Connect}) /\ ~ (Len(strand) > 1) /\ strand # <<>>
      BY <1>0, <2>1, <2>2, <2>3 DEF TypeOK
    <3>3. DOMAIN Tail(strand) = {}
      BY ONLY <3>0, TailOfOne
    <3> QED
      BY <2>1, <3>3 DEF NoWrites
  <2> QED
    BY <2>1, <2>2, <2>3 DEF Idle
<1>6. CASE sock # 0 /\ UNCHANGED <<connecting, sock>>
  BY <1>0, <1>6 DEF SocketOK
<1>7. CASE WriteCompletes \/ ReadCompletes \/ ReadFails \/ OnWriteError
  BY <1>6, <1>7 DEF WriteCompletes, ReadCompletes, ReadFails, OnWriteError, sockVars
<1>8. CASE ~ Idle /\ UNCHANGED <<connecting, overlap>>
  BY <1>0, <1>8
<1>9. CASE Send \/ OnVersion \/ OnPing
  BY <1>8, <1>9, SendingSteps DEF Idle, sockVars
<1>10. CASE OnVerack \/ OnGarbage \/ OnReadFailed \/ OnWrite
  <2>1. got # <<>> \/ written # <<>>
    BY <1>10 DEF OnVerack, OnGarbage, OnReadFailed, OnWrite, Receive
  <2>2. UNCHANGED <<connecting, overlap>>
    BY <1>10 DEF OnVerack, OnGarbage, OnReadFailed, OnWrite, Receive, sockVars
  <2> QED
    BY <1>8, <2>1, <2>2 DEF Idle
<1>11. CASE DoWrite
  <2>1. ~ NoWrites(strand)
    BY <1>0, <1>11, TakeStrand DEF TypeOK, DoWrite
  <2> QED
    BY <1>8, <1>11, <2>1 DEF DoWrite, sockVars, Idle
<1> QED
  BY <1>1, <1>3, <1>4, <1>5, <1>7, <1>9, <1>10, <1>11 DEF Next, Handlers, Errors

(* No write is under way, or one that may be of this connection. *)
Writing == NoWriter \/ (FrontIsWritten /\ Head(sendQueue)[2] >= sock)

(* The handler of a write begins the next one. *)
LEMMA OnWriteOK ==
    ASSUME TypeOK, WriteOK, SocketOK, OnWrite, sock # 0, Writing
    PROVE  /\ Writing'
           /\ bRunning =>
                 /\ sendQueue # <<>> /\ sendQueue' = Tail(sendQueue)
                 /\ sendQueue' # <<>> => FrontIsWritten'
<1>1. /\ written # <<>> /\ written' = Tail(written) /\ UNCHANGED <<strand, sock>>
      /\ bRunning /\ sendQueue # <<>> =>
            /\ sendQueue' = Tail(sendQueue)
            /\ Tail(sendQueue) # <<>> => writes' = Append(writes, Head(Tail(sendQueue)))
            /\ Tail(sendQueue) = <<>> => writes' = writes
      /\ ~ bRunning => UNCHANGED <<sendQueue, writes>>
  BY DEF OnWrite, BeginWrite, SocketOpen, sockVars
<1>2. /\ sendQueue # <<>> /\ written = <<Head(sendQueue)>> /\ writes = <<>>
      /\ NoWrites(strand) /\ Head(sendQueue)[2] >= sock /\ Head(sendQueue) \in Message
  BY <1>1 DEF Writing, NoWriter, FrontIsWritten, OneWriter, TypeOK
<1>3. written' = <<>>
  BY <1>1, <1>2, OfOne
<1>4. CASE ~ bRunning
  BY <1>1, <1>2, <1>3, <1>4 DEF Writing, NoWriter
<1>5. CASE bRunning /\ Tail(sendQueue) = <<>>
  BY <1>1, <1>2, <1>3, <1>5 DEF Writing, NoWriter
<1>6. CASE bRunning /\ Tail(sendQueue) # <<>>
  <2>1. /\ Tail(sendQueue) # <<>> => /\ Head(Tail(sendQueue)) \in Message
                                     /\ Head(Tail(sendQueue))[2] >= Head(sendQueue)[2]
    BY <1>2, TailFront DEF TypeOK, WriteOK
  <2>2. writes' = <<Head(Tail(sendQueue))>>
    BY <1>1, <1>2, <1>6, <2>1, OfOne
  <2>3. FrontIsWritten'
    BY <1>1, <1>2, <1>3, <1>6, <2>2 DEF FrontIsWritten, OneWriter
  <2>4. Head(Tail(sendQueue))[2] >= sock
    <3>1. /\ Head(sendQueue)[2] \in Nat /\ Head(Tail(sendQueue))[2] \in Nat /\ sock \in Nat
      <4>1. \A x \in Message : x[2] \in Nat
        BY DEF Message
      <4>2. sock \in Nat
        BY DEF TypeOK
      <4> QED
        BY <1>2, <1>6, <2>1, <4>1, <4>2
    <3> QED
      BY <1>2, <1>6, <2>1, <3>1
  <2> QED
    BY <1>1, <1>2, <1>6, <2>3, <2>4 DEF Writing
<1> QED
  BY <1>4, <1>5, <1>6

(* The steps that move a write on, or lose it. *)
LEMMA WriteStepOK ==
    ASSUME TypeOK, sock # 0, Writing,
           DoWrite \/ WriteCompletes \/ OnWriteError \/ OnResolve
    PROVE  Writing' /\ (FrontIsWritten => FrontIsWritten' \/ ~ bRunning \/ faults' > faults)
<1> DEFINE m == Head(sendQueue)
<1>0. /\ UNCHANGED <<sendQueue, sock>> /\ strand \in Seq(Message \cup {Connect})
      /\ sendQueue # <<>> => m \in Message
  <2>1. sendQueue \in Seq(Message) /\ strand \in Seq(Message \cup {Connect})
    BY DEF TypeOK
  <2>2. UNCHANGED <<sendQueue, sock>>
    BY DEF DoWrite, WriteCompletes, OnWriteError, OnResolve, sendVars, sockVars
  <2> QED
    BY <2>1, <2>2
<1> HIDE DEF m
<1>1. CASE DoWrite
  <2>1. /\ strand # <<>> /\ Head(strand) # Connect /\ strand' = Tail(strand)
        /\ written' = written
        /\ bRunning => writes' = Append(writes, Head(strand))
        /\ ~ bRunning => writes' = writes
    BY <1>1 DEF DoWrite, BeginWrite, SocketOpen
  <2>2. ~ NoWrites(strand)
    BY <1>0, <2>1, TakeStrand
  <2>3. /\ written = <<>> /\ writes = <<>> /\ OneWrite(strand, m)
        /\ sendQueue # <<>> /\ m[2] >= sock
    BY <2>2 DEF Writing, NoWriter, FrontIsWritten, OneWriter, m
  <2>4. Head(strand) = m /\ NoWrites(strand')
    BY <1>0, <2>1, <2>3, TakeStrand
  <2>5. CASE bRunning
    <3>1. writes' = <<m>>
      BY <1>0, <2>1, <2>3, <2>4, <2>5, OfOne
    <3>2. OneWriter(m)'
      BY <1>0, <2>1, <2>3, <2>4, <3>1 DEF OneWriter, m
    <3> QED
      BY <1>0, <2>3, <3>2 DEF Writing, FrontIsWritten, m
  <2>6. CASE ~ bRunning
    BY <2>1, <2>3, <2>4, <2>6 DEF Writing, NoWriter
  <2> QED
    BY <2>5, <2>6
<1>2. CASE WriteCompletes
  <2>1. /\ writes # <<>> /\ writes' = Tail(writes) /\ strand' = strand
        /\ written' = Append(written, Head(writes))
    BY <1>2 DEF WriteCompletes, sendVars
  <2>2. /\ written = <<>> /\ writes = <<m>> /\ NoWrites(strand)
        /\ sendQueue # <<>> /\ m[2] >= sock
    BY <2>1 DEF Writing, NoWriter, FrontIsWritten, OneWriter, m
  <2>3. written' = <<m>> /\ writes' = <<>>
    BY <1>0, <2>1, <2>2, OfOne
  <2>4. OneWriter(m)'
    BY <1>0, <2>1, <2>2, <2>3 DEF OneWriter, m
  <2> QED
    BY <1>0, <2>2, <2>4 DEF Writing, FrontIsWritten, m
<1>3. CASE OnWriteError
  <2>1. /\ writes # <<>> /\ writes' = Tail(writes) /\ UNCHANGED <<strand, written>>
        /\ faults' = faults + 1
    BY <1>3 DEF OnWriteError, sendVars, Fault
  <2>2. /\ written = <<>> /\ writes = <<m>> /\ NoWrites(strand) /\ sendQueue # <<>>
    BY <2>1 DEF Writing, NoWriter, FrontIsWritten, OneWriter, m
  <2>3. writes' = <<>>
    BY <1>0, <2>1, <2>2, OfOne
  <2> QED
    BY <2>1, <2>2, <2>3 DEF Writing, NoWriter, TypeOK
<1>4. CASE OnResolve
  <2>1. /\ UNCHANGED <<writes, written>>
        /\ strand' = strand \/ strand' = Append(strand, Connect)
    BY <1>4 DEF OnResolve, opVars
  <2>2. /\ NoWrites(strand) => NoWrites(strand')
        /\ sendQueue # <<>> /\ OneWrite(strand, m) => OneWrite(strand', m)
    BY <1>0, <2>1, PostStrand
  <2>3. CASE NoWriter
    BY <1>0, <2>1, <2>2, <2>3, WriterIsOne DEF Writing, NoWriter
  <2>4. CASE FrontIsWritten /\ m[2] >= sock
    <3>1. OneWriter(m)'
      BY <1>0, <2>1, <2>2, <2>4 DEF FrontIsWritten, OneWriter, m
    <3> QED
      BY <1>0, <2>4, <3>1 DEF Writing, FrontIsWritten, m
  <2> QED
    BY <2>3, <2>4 DEF Writing, m
<1> QED
  BY <1>1, <1>2, <1>3, <1>4

(* The queue stays in the order of the connections. *)
LEMMA OrderKept ==
    ASSUME Inv, Next PROVE InOrder(sendQueue', epoch')
<1>0. TypeOK /\ WriteOK /\ sendQueue \in Seq(Message) /\ epoch \in 0 .. MaxStarts
  BY DEF Inv, TypeOK
<1>1. ASSUME UNCHANGED <<sendQueue, epoch>> PROVE InOrder(sendQueue', epoch')
  BY <1>0, <1>1 DEF WriteOK
<1>2. ASSUME NEW kind \in Kinds, DoSend(<<kind, epoch>>), UNCHANGED epoch
      PROVE  InOrder(sendQueue', epoch')
  BY <1>0, <1>2, DoSendOK
<1>3. CASE Start
  <2>1. epoch' = epoch + 1 /\ sendQueue' = sendQueue
    BY <1>3 DEF Start, sendVars
  <2>2. \A i \in 1..Len(sendQueue) : sendQueue[i][2] \in Nat
    BY <1>0 DEF Message
  <2> QED
    BY <1>0, <2>1, <2>2 DEF WriteOK, InOrder
<1>4. CASE Stop
  <2>1. sendQueue' = <<>>
    BY <1>4 DEF Stop
  <2> QED
    BY <2>1 DEF InOrder
<1>5. CASE OnWrite
  <2>1. /\ epoch' = epoch
        /\ sendQueue' = sendQueue \/ (sendQueue # <<>> /\ sendQueue' = Tail(sendQueue))
    BY <1>5 DEF OnWrite
  <2> QED
    BY <1>0, <2>1, TailFront DEF WriteOK
<1>6. CASE OnConnect
  <2>1. "version" \in Kinds
    BY DEF Kinds
  <2>2. DoSend(<<"version", epoch>>) \/ UNCHANGED sendQueue
    BY <1>6 DEF OnConnect, sendVars
  <2>3. UNCHANGED epoch
    BY <1>6 DEF OnConnect
  <2> QED
    BY <1>1, <1>2, <2>1, <2>2, <2>3
<1>7. CASE Send \/ OnVersion \/ OnPing
  BY <1>1, <1>2, <1>7, SendingSteps DEF sendVars
<1>8. CASE OnResolve \/ DoConnect \/ DoWrite \/ WriteCompletes \/ ReadCompletes
  BY <1>1, <1>8 DEF OnResolve, DoConnect, DoWrite, WriteCompletes, ReadCompletes, sendVars
<1>9. CASE OnVerack \/ OnGarbage \/ OnReadFailed \/ OnTimer \/ RemotePings
  BY <1>1, <1>9 DEF OnVerack, OnGarbage, OnReadFailed, OnTimer, RemotePings, Receive, sendVars
<1>10. CASE Errors
  BY <1>1, <1>10 DEF Errors, OnResolveError, OnConnectError, OnWriteError, ReadFails, sendVars
<1> QED
  BY <1>3, <1>4, <1>5, <1>6, <1>7, <1>8, <1>9, <1>10 DEF Next, Handlers

(* The steps that neither send nor write, nor change the socket. *)
Neither == \/ Start \/ ReadCompletes \/ OnVerack \/ OnGarbage \/ OnReadFailed
           \/ OnTimer \/ RemotePings \/ OnResolveError \/ ReadFails

(* They leave the queue, the strand and the writes as they are. *)
LEMMA NeitherOK ==
    ASSUME Neither
    PROVE  UNCHANGED <<sendQueue, strand, writes, written, sock, connecting, first, overlap>>
BY DEF Neither, Start, ReadCompletes, OnVerack, OnGarbage, OnReadFailed, OnTimer,
       RemotePings, OnResolveError, ReadFails, Receive, sendVars, opVars, sockVars

(* On a connection begun with nothing due there is at most one write under  *)
(* way, of the queue's front.                                               *)
LEMMA WriteKept ==
    ASSUME Inv, Next PROVE WriteOK'
<1>0. TypeOK /\ WriteOK /\ SocketOK /\ ConnectingOK
  BY DEF Inv
<1>1. InOrder(sendQueue', epoch')
  BY OrderKept
<1> SUFFICES ASSUME ~ overlap', sock' # 0 PROVE Writing'
  BY <1>1 DEF WriteOK, Writing
<1>2. ASSUME UNCHANGED <<sock, overlap>> PROVE Writing
  BY <1>0, <1>2 DEF WriteOK, Writing
<1>3. CASE Neither
  <2>1. UNCHANGED <<sendQueue, strand, writes, written, sock, overlap>>
    BY <1>3, NeitherOK
  <2> QED
    BY <1>2, <2>1 DEF Writing, NoWriter, FrontIsWritten, OneWriter
<1>4. CASE Stop \/ DoConnect
  BY <1>4 DEF Stop, DoConnect, CloseSocket
<1>5. CASE OnConnectError
  BY <1>0, <1>5 DEF OnConnectError, SocketOK
<1>6. ASSUME NEW kind \in Kinds, DoSend(<<kind, epoch>>), UNCHANGED <<writes, written>>,
             sock' <= epoch, NoWriter \/ (Writing /\ sock' = sock)
      PROVE  Writing'
  <2>1. CASE sendQueue = <<>>
    <3>1. FrontIsWritten' /\ Head(sendQueue') = <<kind, epoch>>
      BY <1>0, <1>6, <2>1, SentWriter DEF Writing
    <3>2. <<kind, epoch>>[2] >= sock'
      BY <1>6
    <3> QED
      BY <3>1, <3>2 DEF Writing
  <2>2. CASE sendQueue # <<>> /\ NoWriter
    BY <1>0, <1>6, <2>2, SentWriter DEF Writing
  <2>3. CASE sendQueue # <<>> /\ ~ NoWriter
    <3>1. FrontIsWritten /\ Head(sendQueue)[2] >= sock /\ sock' = sock
      BY <1>6, <2>3 DEF Writing
    <3>2. FrontIsWritten' /\ Head(sendQueue') = Head(sendQueue)
      BY <1>0, <1>6, <2>3, <3>1, SentWriter
    <3> QED
      BY <3>1, <3>2 DEF Writing
  <2> QED
    BY <2>1, <2>2, <2>3
<1>7. CASE OnConnect
  <2>1. /\ connecting # 0 /\ sock' = connecting /\ UNCHANGED <<writes, written, overlap>>
        /\ DoSend(<<"version", epoch>>) \/ UNCHANGED <<sendQueue, strand>>
    BY <1>7 DEF OnConnect, sendVars
  <2>2. NoWriter
    BY <1>0, <2>1 DEF ConnectingOK, Idle, NoWriter
  <2>3. "version" \in Kinds /\ sock' <= epoch
    BY <1>0, <2>1 DEF Kinds, SocketOK
  <2>4. CASE DoSend(<<"version", epoch>>)
    BY <1>6, <2>1, <2>2, <2>3, <2>4
  <2>5. CASE UNCHANGED <<sendQueue, strand>>
    BY <2>1, <2>2, <2>5 DEF Writing, NoWriter
  <2> QED
    BY <2>1, <2>4, <2>5
<1>8. CASE Send \/ OnVersion \/ OnPing
  <2>1. UNCHANGED <<writes, written, sock, overlap>>
    BY <1>8, SendingSteps DEF sockVars
  <2>2. CASE \E kind \in Kinds : DoSend(<<kind, epoch>>)
    BY <1>0, <1>2, <1>6, <2>1, <2>2 DEF SocketOK
  <2>3. CASE UNCHANGED sendVars
    BY <1>2, <2>1, <2>3 DEF Writing, NoWriter, FrontIsWritten, OneWriter, sendVars
  <2> QED
    BY <1>8, <2>2, <2>3, SendingSteps
<1>9. CASE OnWrite
  <2>1. UNCHANGED <<sock, overlap>>
    BY <1>9 DEF OnWrite, sockVars
  <2> QED
    BY <1>0, <1>2, <1>9, <2>1, OnWriteOK
<1>10. CASE DoWrite \/ WriteCompletes \/ OnWriteError \/ OnResolve
  <2>1. UNCHANGED <<sock, overlap>>
    BY <1>10 DEF DoWrite, WriteCompletes, OnWriteError, OnResolve, sockVars
  <2> QED
    BY <1>0, <1>2, <1>10, <2>1, WriteStepOK
<1> QED
  BY <1>3, <1>4, <1>5, <1>7, <1>8, <1>9, <1>10 DEF Next, Handlers, Errors, Neither

(* Where there is no write, none is written. *)
LEMMA NoWriterStays ==
    ASSUME TypeOK, NoWriter, DoWrite \/ WriteCompletes \/ OnWriteError \/ OnResolve \/ OnWrite
    PROVE  NoWriter' /\ OnResolve
<1>1. strand \in Seq(Message \cup {Connect})
  BY DEF TypeOK
<1>2. ~ DoWrite
  BY <1>1, TakeStrand DEF DoWrite, NoWriter
<1>3. ~ WriteCompletes /\ ~ OnWriteError /\ ~ OnWrite
  BY DEF WriteCompletes, OnWriteError, OnWrite, NoWriter
<1>4. CASE OnResolve
  <2>1. UNCHANGED <<writes, written>> /\ strand' \in {strand, Append(strand, Connect)}
    BY <1>4 DEF OnResolve, opVars
  <2> QED
    BY <1>1, <1>4, <2>1, PostStrand DEF NoWriter
<1> QED
  BY <1>2, <1>3, <1>4

(* Before the version message nothing is received, and it is the first.     *)
LEMMA FirstKept ==
    ASSUME Inv, Next PROVE FirstOK'
<1>0. TypeOK /\ WriteOK /\ SocketOK /\ ConnectingOK /\ FirstOK /\ got \in Seq(Received)
  BY DEF Inv, TypeOK
<1> SUFFICES ASSUME ~ overlap', sock' # 0, first' = NoMessage
    PROVE  /\ remote' = <<>> /\ ~ opened' /\ ~ bWriteReady' /\ written' = <<>>
           /\ \A i \in 1..Len(got') : got'[i] = "error"
           /\ NoWriter' \/ Head(sendQueue')[1] = "version"
  BY DEF FirstOK
<1>1. CASE Stop \/ DoConnect
  BY <1>1 DEF Stop, DoConnect, CloseSocket
<1>2. CASE OnConnectError
  BY <1>0, <1>2 DEF OnConnectError, SocketOK
<1>3. CASE OnConnect
  <2>1. /\ connecting # 0 /\ UNCHANGED <<writes, written, got, remote, opened, overlap>>
        /\ DoSend(<<"version", epoch>>) \/ UNCHANGED <<sendQueue, strand>>
        /\ bWriteReady' = bWriteReady
    BY <1>3 DEF OnConnect, sendVars, flagVars
  <2>2. /\ NoWriter /\ got = <<>> /\ written = <<>> /\ ~ bWriteReady
        /\ remote = <<>> /\ ~ opened
    BY <1>0, <2>1 DEF ConnectingOK, Idle, NoWriter, SocketOK
  <2>3. "version" \in Kinds /\ <<"version", epoch>>[1] = "version"
    BY DEF Kinds
  <2>4. NoWriter' \/ Head(sendQueue')[1] = "version"
    <3>1. CASE DoSend(<<"version", epoch>>)
      BY <1>0, <2>1, <2>2, <2>3, <3>1, SentWriter
    <3>2. CASE UNCHANGED <<sendQueue, strand>>
      BY <2>1, <2>2, <3>2 DEF NoWriter
    <3> QED
      BY <2>1, <3>1, <3>2
  <2> QED
    BY <2>1, <2>2, <2>4
<1>4. ASSUME UNCHANGED <<sock, overlap, first>>
      PROVE  /\ remote = <<>> /\ ~ opened /\ ~ bWriteReady /\ written = <<>>
             /\ \A i \in 1..Len(got) : got[i] = "error"
             /\ NoWriter \/ Head(sendQueue)[1] = "version"
             /\ Writing
  BY <1>0, <1>4 DEF FirstOK, WriteOK, Writing
<1>5. ASSUME UNCHANGED <<sock, overlap, first>>, got # <<>> PROVE Head(got) = "error"
  <2>1. 1 \in 1..Len(got) /\ Head(got) = got[1]
    BY <1>0, <1>5
  <2> QED
    BY <1>4, <1>5, <2>1
<1>6. CASE Send \/ OnVersion \/ OnPing
  <2>1. UNCHANGED <<sock, overlap, first>>
    BY <1>6, SendingSteps DEF sockVars
  <2>2. bWriteReady \/ (got # <<>> /\ Head(got) # "error")
    BY <1>6 DEF Send, OnVersion, OnPing, Receive
  <2> QED
    BY <1>4, <1>5, <2>1, <2>2
<1>7. CASE OnVerack \/ OnGarbage
  <2>1. UNCHANGED <<sock, overlap, first>> /\ got # <<>> /\ Head(got) # "error"
    BY <1>7 DEF OnVerack, OnGarbage, Receive, sockVars
  <2> QED
    BY <1>5, <2>1
<1>8. CASE ReadCompletes \/ RemotePings \/ OnWrite
  <2>1. /\ UNCHANGED <<sock, overlap, first>>
        /\ remote # <<>> \/ opened \/ written # <<>>
    BY <1>8 DEF ReadCompletes, RemotePings, OnWrite, sockVars
  <2> QED
    BY <1>4, <2>1
<1>9. CASE WriteCompletes
  <2>1. /\ UNCHANGED <<sock, overlap>> /\ writes # <<>>
        /\ first' = IF first = NoMessage THEN Head(writes) ELSE first
    BY <1>9 DEF WriteCompletes
  <2>2. first = NoMessage /\ first' = Head(writes)
    BY <2>1
  <2>3. Writing /\ (NoWriter \/ Head(sendQueue)[1] = "version")
    BY <1>0, <2>1, <2>2 DEF FirstOK, WriteOK, Writing
  <2>4. writes = <<Head(sendQueue)>> /\ Head(sendQueue)[1] = "version" /\ sendQueue # <<>>
    BY <2>1, <2>3 DEF Writing, NoWriter, FrontIsWritten, OneWriter
  <2>5. Head(writes)[1] = "version"
    BY <2>4, OfOne
  <2> QED
    BY <2>2, <2>5 DEF NoMessage
<1>10. CASE DoWrite \/ OnWriteError \/ OnResolve
  <2>1. UNCHANGED <<sockVars, got, bWriteReady, written, sendQueue>>
    BY <1>10 DEF DoWrite, OnWriteError, OnResolve, flagVars, opVars, sendVars
  <2>2. NoWriter => NoWriter'
    BY <1>0, <1>10, NoWriterStays
  <2> QED
    BY <1>4, <2>1, <2>2 DEF sockVars
<1>11. CASE Start \/ OnTimer \/ OnResolveError \/ OnReadFailed \/ ReadFails
  <2>1. /\ UNCHANGED <<sockVars, sendQueue, strand, writes, written>>
        /\ bWriteReady' => bWriteReady
        /\ \/ got' = got
           \/ got # <<>> /\ got' = Tail(got)
           \/ got' = Append(got, "error")
    BY <1>11 DEF Start, OnTimer, OnResolveError, OnReadFailed, ReadFails, DoStop, flagVars,
                 opVars, sendVars
  <2>2. /\ remote = <<>> /\ ~ opened /\ ~ bWriteReady /\ written = <<>>
        /\ \A i \in 1..Len(got) : got[i] = "error"
        /\ NoWriter \/ Head(sendQueue)[1] = "version"
    BY <1>4, <2>1 DEF sockVars
  <2>3. \A i \in 1..Len(got') : got'[i] = "error"
    <3>1. CASE got' = got
      BY <2>2, <3>1
    <3>2. CASE got # <<>> /\ got' = Tail(got)
      <4>1. /\ Len(Tail(got)) = Len(got) - 1 /\ Len(got) \in Nat
            /\ \A i \in 1..Len(got) - 1 : Tail(got)[i] = got[i + 1]
        BY <1>0, <3>2
      <4> QED
        BY <2>2, <3>2, <4>1
    <3>3. CASE got' = Append(got, "error")
      <4> DEFINE x == "error"
      <4>1. x \in Received
        BY DEF Received
      <4> HIDE DEF x
      <4>2. /\ Len(Append(got, x)) = Len(got) + 1 /\ Len(got) \in Nat
            /\ \A i \in 1..Len(got) : Append(got, x)[i] = got[i]
            /\ Append(got, x)[Len(got) + 1] = x
        BY <1>0, <4>1
      <4>3. ASSUME NEW i \in 1..Len(got) + 1 PROVE i \in 1..Len(got) \/ i = Len(got) + 1
        BY <4>2
      <4> QED
        BY <2>2, <3>3, <4>2, <4>3 DEF x
    <3> QED
      BY <2>1, <3>1, <3>2, <3>3
  <2>4. NoWriter => NoWriter'
    BY <2>1 DEF NoWriter
  <2> QED
    BY <2>1, <2>2, <2>3, <2>4 DEF sockVars
<1> QED
  BY <1>1, <1>2, <1>3, <1>6, <1>7, <1>8, <1>9, <1>10, <1>11 DEF Next, Handlers, Errors

(* What is written first is the message of the first write. *)
LEMMA VersionKept ==
    ASSUME Inv, Next PROVE VersionFirst'
<1>0. WriteOK /\ FirstOK /\ VersionFirst
  BY DEF Inv
<1>1. ASSUME UNCHANGED <<first, overlap>> PROVE VersionFirst'
  BY <1>0, <1>1 DEF VersionFirst
<1>2. CASE Stop \/ DoConnect
  BY <1>2 DEF Stop, DoConnect, CloseSocket, VersionFirst
<1>3. CASE WriteCompletes
  <2>1. /\ sock # 0 /\ UNCHANGED overlap /\ writes # <<>>
        /\ first' = IF first = NoMessage THEN Head(writes) ELSE first
    BY <1>3 DEF WriteCompletes
  <2>2. CASE first = NoMessage /\ ~ overlap
    <3>1. Writing /\ (NoWriter \/ Head(sendQueue)[1] = "version")
      BY <1>0, <2>1, <2>2 DEF FirstOK, WriteOK, Writing
    <3>2. writes = <<Head(sendQueue)>> /\ Head(sendQueue)[1] = "version" /\ sendQueue # <<>>
      BY <2>1, <3>1 DEF Writing, NoWriter, FrontIsWritten, OneWriter
    <3>3. Head(writes)[1] = "version"
      BY <3>2, OfOne
    <3> QED
      BY <2>1, <2>2, <3>3 DEF VersionFirst
  <2>3. CASE ~ (first = NoMessage /\ ~ overlap)
    BY <1>0, <2>1, <2>3 DEF VersionFirst
  <2> QED
    BY <2>2, <2>3
<1>4. CASE Neither
  BY <1>1, <1>4, NeitherOK
<1>5. CASE Send \/ OnVersion \/ OnPing
  BY <1>1, <1>5, SendingSteps DEF sockVars
<1>6. CASE OnConnect \/ OnConnectError \/ OnResolve \/ DoWrite \/ OnWrite \/ OnWriteError
  BY <1>1, <1>6 DEF OnConnect, OnConnectError, OnResolve, DoWrite, OnWrite, OnWriteError,
                    sockVars
<1> QED
  BY <1>2, <1>3, <1>4, <1>5, <1>6 DEF Next, Handlers, Errors, Neither

(* push() and pop() of handshake messages. *)
LEMMA HandshakeQueue ==
    ASSUME NEW q \in Seq(Message), Handshake(q)
    PROVE  /\ \A kind \in {"version", "verack"}, e \in 0 .. MaxStarts :
                 Handshake(Append(q, <<kind, e>>))
           /\ q # <<>> => /\ Handshake(Tail(q))
                          /\ Tail(q) # <<>> => Head(Tail(q))[1] \notin {"data", "pong"}
<1>1. ASSUME NEW kind \in {"version", "verack"}, NEW e \in 0 .. MaxStarts
      PROVE  Handshake(Append(q, <<kind, e>>))
  <2> DEFINE m == <<kind, e>>
  <2>1. m \in Message /\ m[1] \notin {"data", "pong"}
    BY DEF Message, Kinds
  <2> HIDE DEF m
  <2>2. /\ Len(Append(q, m)) = Len(q) + 1 /\ Append(q, m)[Len(q) + 1] = m
        /\ \A i \in 1..Len(q) : Append(q, m)[i] = q[i]
        /\ Len(q) \in Nat
    BY <2>1
  <2>3. ASSUME NEW i \in 1..Len(q) + 1 PROVE Append(q, m)[i][1] \notin {"data", "pong"}
    <3>1. CASE i = Len(q) + 1
      BY <2>1, <2>2, <3>1
    <3>2. CASE i \in 1..Len(q)
      BY <2>2, <3>2 DEF Handshake
    <3> QED
      BY <2>2, <3>1, <3>2
  <2>4. Handshake(Append(q, m))
    BY <2>2, <2>3 DEF Handshake
  <2> QED
    BY <2>4 DEF m
<1>2. ASSUME q # <<>>
      PROVE  /\ Handshake(Tail(q))
             /\ Tail(q) # <<>> => Head(Tail(q))[1] \notin {"data", "pong"}
  <2>1. /\ Len(Tail(q)) = Len(q) - 1 /\ Len(q) \in Nat
        /\ \A i \in 1..Len(Tail(q)) : Tail(q)[i] = q[i + 1]
    BY <1>2
  <2>2. Tail(q) # <<>> => Head(Tail(q)) = q[2] /\ 2 \in 1..Len(q)
    BY <1>2
  <2> QED
    BY <2>1, <2>2 DEF Handshake
<1> QED
  BY <1>1, <1>2

(* What has been received before the node's verack. *)
Early(g) == \A i \in 1..Len(g) : g[i] \notin {"ping", "verack"}

(* Dropping the first and appending what is neither keeps it so. *)
LEMMA EarlyKept ==
    ASSUME NEW g \in Seq(Received), Early(g)
    PROVE  /\ g # <<>> => Head(g) \notin {"ping", "verack"} /\ Early(Tail(g))
           /\ \A x \in {"version", "garbage", "error"} : Early(Append(g, x))
<1>1. ASSUME g # <<>> PROVE Head(g) \notin {"ping", "verack"} /\ Early(Tail(g))
  <2>1. /\ Len(Tail(g)) = Len(g) - 1 /\ Len(g) \in Nat /\ Head(g) = g[1] /\ 1 \in 1..Len(g)
        /\ \A i \in 1..Len(g) - 1 : Tail(g)[i] = g[i + 1]
    BY <1>1
  <2> QED
    BY <2>1 DEF Early
<1>2. ASSUME NEW x \in {"version", "garbage", "error"} PROVE Early(Append(g, x))
  <2>1. x \in Received /\ x \notin {"ping", "verack"}
    BY DEF Received
  <2>2. /\ Len(Append(g, x)) = Len(g) + 1 /\ Len(g) \in Nat
        /\ \A i \in 1..Len(g) : Append(g, x)[i] = g[i]
        /\ Append(g, x)[Len(g) + 1] = x
    BY <2>1
  <2>3. ASSUME NEW i \in 1..Len(g) + 1 PROVE i \in 1..Len(g) \/ i = Len(g) + 1
    BY <2>2
  <2> QED
    BY <2>1, <2>2, <2>3 DEF Early
<1> QED
  BY <1>1, <1>2

(* The node's answer to a version message is no ping. *)
LEMMA NodeAnswers ==
    ASSUME NEW r \in Seq({"version", "verack", "ping"}), \A i \in 1..Len(r) : r[i] # "ping"
    PROVE  /\ \A i \in 1..Len(r \o <<"version", "verack">>) :
                  (r \o <<"version", "verack">>)[i] # "ping"
           /\ \A i \in 1..Len(r \o <<>>) : (r \o <<>>)[i] # "ping"
OBVIOUS

(* Before the verack of the node, nothing is received that makes the peer   *)
(* write more than its handshake.                                           *)
LEMMA HandshakeKept ==
    ASSUME Inv, Next PROVE HandshakeOK'
<1>0. /\ TypeOK /\ WriteOK /\ SocketOK /\ ConnectingOK /\ HandshakeOK
      /\ got \in Seq(Received) /\ remote \in Seq({"version", "verack", "ping"})
      /\ sendQueue \in Seq(Message) /\ epoch \in 0 .. MaxStarts
  BY DEF Inv, TypeOK
<1> SUFFICES ASSUME ~ overlap', sock' # 0, ~ opened'
    PROVE  /\ ~ bWriteReady' /\ Early(got')
           /\ \A i \in 1..Len(remote') : remote'[i] # "ping"
           /\ NoWriter' \/ Handshake(sendQueue')
  BY DEF HandshakeOK, Early
<1>1. CASE Stop \/ DoConnect
  BY <1>1 DEF Stop, DoConnect, CloseSocket
<1>2. CASE OnConnectError
  BY <1>0, <1>2 DEF OnConnectError, SocketOK
<1>3. CASE OnConnect
  <2>1. /\ connecting # 0 /\ UNCHANGED <<writes, written, got, remote, overlap>>
        /\ DoSend(<<"version", epoch>>) \/ UNCHANGED <<sendQueue, strand>>
        /\ bWriteReady' = bWriteReady
    BY <1>3 DEF OnConnect, sendVars, flagVars
  <2>2. /\ NoWriter /\ got = <<>> /\ ~ bWriteReady /\ remote = <<>>
    BY <1>0, <2>1 DEF ConnectingOK, Idle, NoWriter, SocketOK
  <2>3. "version" \in Kinds
    BY DEF Kinds
  <2>4. NoWriter' \/ Handshake(sendQueue')
    <3>1. CASE DoSend(<<"version", epoch>>) /\ sendQueue = <<>>
      <4>1. sendQueue' = Append(<<>>, <<"version", epoch>>)
        BY <3>1 DEF DoSend
      <4>2. Handshake(<<>>) /\ <<>> \in Seq(Message)
        BY DEF Handshake
      <4> QED
        BY <1>0, <4>1, <4>2, HandshakeQueue
    <3>2. CASE DoSend(<<"version", epoch>>) /\ sendQueue # <<>>
      BY <1>0, <2>1, <2>2, <2>3, <3>2, SentWriter
    <3>3. CASE UNCHANGED <<sendQueue, strand>>
      BY <2>1, <2>2, <3>3 DEF NoWriter
    <3> QED
      BY <2>1, <3>1, <3>2, <3>3
  <2>5. Early(<<>>) /\ \A i \in 1..Len(<<>>) : FALSE
    BY DEF Early
  <2> QED
    BY <2>1, <2>2, <2>4, <2>5
<1>4. ASSUME UNCHANGED <<sock, overlap>>, ~ opened
      PROVE  /\ ~ bWriteReady /\ Early(got)
             /\ \A i \in 1..Len(remote) : remote[i] # "ping"
             /\ NoWriter \/ Handshake(sendQueue)
             /\ Writing
  BY <1>0, <1>4 DEF HandshakeOK, WriteOK, Writing, Early
<1>5. CASE Send
  BY <1>4, <1>5 DEF Send, sockVars
<1>6. CASE OnPing \/ OnVerack
  <2>1. UNCHANGED <<sock, overlap, opened>> /\ got # <<>> /\ Head(got) \in {"ping", "verack"}
    BY <1>6 DEF OnPing, OnVerack, Receive, sockVars
  <2> QED
    BY <1>0, <1>4, <2>1, EarlyKept
<1>7. CASE OnVersion \/ OnGarbage
  <2>1. /\ UNCHANGED <<sock, overlap, opened, remote, bWriteReady, writes, written>>
        /\ got # <<>> /\ got' \in {Tail(got), Append(Tail(got), "error")}
        /\ DoSend(<<"verack", epoch>>) \/ UNCHANGED <<sendQueue, strand>>
    BY <1>7 DEF OnVersion, OnGarbage, Receive, sockVars, sendVars
  <2>2. Early(got')
    <3>1. Early(Tail(got)) /\ Tail(got) \in Seq(Received)
      BY <1>0, <1>4, <2>1, EarlyKept
    <3>2. Early(Append(Tail(got), "error"))
      BY <3>1, EarlyKept
    <3> QED
      BY <2>1, <3>1, <3>2
  <2>3. NoWriter' \/ Handshake(sendQueue')
    <3>1. NoWriter \/ Handshake(sendQueue)
      BY <1>4, <2>1
    <3>2. CASE UNCHANGED <<sendQueue, strand>>
      BY <2>1, <3>1, <3>2 DEF NoWriter
    <3>3. CASE DoSend(<<"verack", epoch>>) /\ (Handshake(sendQueue) \/ sendQueue = <<>>)
      <4>1. sendQueue' = Append(sendQueue, <<"verack", epoch>>)
        BY <3>3 DEF DoSend
      <4>2. Handshake(<<>>)
        BY DEF Handshake
      <4> QED
        BY <1>0, <3>3, <4>1, <4>2, HandshakeQueue
    <3>4. CASE DoSend(<<"verack", epoch>>) /\ NoWriter /\ sendQueue # <<>>
      <4>1. "verack" \in Kinds
        BY DEF Kinds
      <4> QED
        BY <1>0, <2>1, <3>4, <4>1, SentWriter
    <3> QED
      BY <2>1, <3>1, <3>2, <3>3, <3>4
  <2> QED
    BY <1>4, <2>1, <2>2, <2>3
<1>8. CASE ReadCompletes
  <2>1. PICK seen \in {Head(remote), "garbage"} :
           got' = Append([i \in DOMAIN got |-> IF got[i] = "error" THEN "error" ELSE seen],
                         Head(remote))
    BY <1>8 DEF ReadCompletes
  <2>2. /\ remote # <<>> /\ remote' = Tail(remote)
        /\ opened' = (opened \/ Head(remote) = "verack")
        /\ UNCHANGED <<sock, overlap, bWriteReady, sendQueue, strand, writes, written>>
    BY <1>8 DEF ReadCompletes, flagVars, sendVars
  <2>3. ~ opened /\ Head(remote) # "verack"
    BY <2>2
  <2>4. /\ ~ bWriteReady /\ \A i \in 1..Len(remote) : remote[i] # "ping"
        /\ NoWriter \/ Handshake(sendQueue)
    BY <1>4, <2>2, <2>3
  <2>5. /\ Head(remote) = remote[1] /\ 1 \in 1..Len(remote)
        /\ Head(remote) \in {"version", "verack", "ping"}
        /\ Len(Tail(remote)) = Len(remote) - 1 /\ Len(remote) \in Nat
        /\ \A i \in 1..Len(Tail(remote)) : Tail(remote)[i] = remote[i + 1]
    BY <1>0, <2>2
  <2>6. Head(remote) = "version"
    BY <2>3, <2>4, <2>5
  <2> DEFINE g == [i \in DOMAIN got |-> IF got[i] = "error" THEN "error" ELSE seen]
  <2>7. seen \in {"version", "garbage"}
    BY <2>6
  <2>8. g \in Seq(Received) /\ Early(g)
    <3>1. DOMAIN got = 1..Len(got) /\ Len(got) \in Nat
          /\ {"error", "version", "garbage"} \subseteq Received
      BY <1>0 DEF Received
    <3>2. g \in Seq(Received) /\ Len(g) = Len(got)
      BY <2>7, <3>1
    <3> QED
      BY <2>7, <3>1, <3>2 DEF Early
  <2> HIDE DEF g
  <2>9. got' = Append(g, "version")
    BY <2>1, <2>6 DEF g
  <2>10. Early(got')
    BY <2>8, <2>9, EarlyKept
  <2>11. \A i \in 1..Len(remote') : remote'[i] # "ping"
    BY <2>2, <2>4, <2>5
  <2>12. NoWriter' \/ Handshake(sendQueue')
    BY <2>2, <2>4 DEF NoWriter
  <2> QED
    BY <2>2, <2>4, <2>10, <2>11, <2>12
<1>9. CASE WriteCompletes
  <2>1. /\ UNCHANGED <<got, sock, overlap, opened, bWriteReady, sendQueue>>
        /\ remote' = remote \o <<"version", "verack">> \/ remote' = remote \o <<>>
    BY <1>9 DEF WriteCompletes, flagVars, sendVars
  <2>2. /\ ~ bWriteReady /\ Early(got)
        /\ \A i \in 1..Len(remote) : remote[i] # "ping"
        /\ NoWriter \/ Handshake(sendQueue)
    BY <1>4, <2>1
  <2>3. ~ NoWriter
    BY <1>9 DEF WriteCompletes, NoWriter
  <2>4. \A i \in 1..Len(remote') : remote'[i] # "ping"
    BY <1>0, <2>1, <2>2, NodeAnswers
  <2> QED
    BY <2>1, <2>2, <2>3, <2>4
<1>10. CASE OnWrite
  <2>1. /\ UNCHANGED <<got, remote, sock, overlap, opened, bWriteReady>> /\ written # <<>>
        /\ sendQueue' = sendQueue \/ (sendQueue # <<>> /\ sendQueue' = Tail(sendQueue))
    BY <1>10 DEF OnWrite, sockVars
  <2>2. Handshake(sendQueue)
    BY <1>4, <2>1 DEF NoWriter
  <2>3. Handshake(sendQueue')
    BY <1>0, <2>1, <2>2, HandshakeQueue
  <2> QED
    BY <1>4, <2>1, <2>3
<1>11. CASE DoWrite \/ OnWriteError \/ OnResolve
  <2>1. UNCHANGED <<sockVars, got, bWriteReady, sendQueue>>
    BY <1>11 DEF DoWrite, OnWriteError, OnResolve, flagVars, opVars, sendVars
  <2>2. NoWriter => NoWriter'
    BY <1>0, <1>11, NoWriterStays
  <2> QED
    BY <1>4, <2>1, <2>2 DEF sockVars
<1>12. CASE RemotePings
  BY <1>12 DEF RemotePings
<1>13. CASE Start \/ OnTimer \/ OnResolveError \/ OnReadFailed \/ ReadFails
  <2>1. /\ UNCHANGED <<sockVars, sendQueue, strand, writes, written>>
        /\ bWriteReady' => bWriteReady
        /\ \/ got' = got
           \/ got # <<>> /\ got' = Tail(got)
           \/ got' = Append(got, "error")
    BY <1>13 DEF Start, OnTimer, OnResolveError, OnReadFailed, ReadFails, DoStop, flagVars,
                 opVars, sendVars
  <2>2. /\ ~ bWriteReady /\ Early(got)
        /\ \A i \in 1..Len(remote) : remote[i] # "ping"
        /\ NoWriter \/ Handshake(sendQueue)
    BY <1>4, <2>1 DEF sockVars
  <2>3. Early(got')
    BY <1>0, <2>1, <2>2, EarlyKept
  <2>4. NoWriter => NoWriter'
    BY <2>1 DEF NoWriter
  <2> QED
    BY <2>1, <2>2, <2>3, <2>4 DEF sockVars
<1> QED
  BY <1>1, <1>2, <1>3, <1>5, <1>6, <1>7, <1>8, <1>9, <1>10, <1>11, <1>12, <1>13
     DEF Next, Handlers, Errors

(* The one connect has been begun. *)
Begun == \A i \in 1..Len(strand) : strand[i] # Connect

(* Until the second start there is one connect, and its handlers find       *)
(* nothing of an earlier one.                                               *)
LEMMA OneConnectKept ==
    ASSUME Inv, Next PROVE OneConnect'
<1>0. /\ TypeOK /\ SocketOK /\ OneConnect
      /\ epoch \in Nat /\ resolving \in Nat /\ strand \in Seq(Message \cup {Connect})
  BY DEF Inv, TypeOK
<1>1. CASE epoch = 0
  <2>1. /\ Idle /\ sendQueue = <<>> /\ strand = <<>> /\ sock = 0 /\ connecting = 0
        /\ ~ bRunning /\ ~ overlap /\ resolving = 0 /\ timer = 0 /\ ~ opened
    BY <1>0, <1>1 DEF OneConnect, SocketOK, TypeOK
  <2>2. CASE Start
    <3>1. /\ epoch' = 1 /\ resolving' = 1 /\ ~ bWriteReady'
          /\ UNCHANGED <<sendQueue, strand, sock, connecting, overlap, writes, written, reads, got>>
      BY <1>1, <2>1, <2>2 DEF Start, sendVars, opVars, sockVars
    <3> QED
      BY <2>1, <3>1 DEF OneConnect, Idle
  <2>3. ~ (Stop \/ Send \/ OnResolve \/ OnResolveError \/ DoConnect \/ OnConnect \/ OnConnectError)
    BY <2>1 DEF Stop, Send, OnResolve, OnResolveError, DoConnect, OnConnect, OnConnectError
  <2>4. ~ (DoWrite \/ WriteCompletes \/ OnWrite \/ OnWriteError \/ ReadCompletes \/ ReadFails)
    BY <2>1 DEF DoWrite, WriteCompletes, OnWrite, OnWriteError, ReadCompletes, ReadFails, Idle
  <2>5. ~ (OnVerack \/ OnVersion \/ OnPing \/ OnGarbage \/ OnReadFailed \/ OnTimer \/ RemotePings)
    BY <2>1 DEF OnVerack, OnVersion, OnPing, OnGarbage, OnReadFailed, OnTimer, RemotePings,
                Receive, Idle
  <2> QED
    BY <2>2, <2>3, <2>4, <2>5 DEF Next, Handlers, Errors
<1>2. CASE epoch # 0 /\ (epoch # 1 \/ Start)
  <2>1. epoch' = epoch \/ epoch' = epoch + 1
    BY DEF Next, Handlers, Errors, Start, Stop, Send, OnResolve, DoConnect, OnConnect, DoWrite,
           WriteCompletes, OnWrite, ReadCompletes, OnVerack, OnVersion, OnPing, OnGarbage,
           Receive, OnReadFailed, OnTimer, RemotePings, OnResolveError, OnConnectError,
           OnWriteError, ReadFails
  <2>2. epoch' # 0 /\ epoch' # 1
    BY <1>0, <1>2, <2>1 DEF Start
  <2> QED
    BY <2>2 DEF OneConnect
<1>3. CASE epoch = 1 /\ ~ Start
  <2> DEFINE D1 == /\ Idle /\ sendQueue = <<>> /\ sock = 0
                   /\ \/ resolving = 1 /\ strand = <<>> /\ connecting = 0
                      \/ resolving = 0 /\ strand = <<Connect>> /\ connecting = 0
                      \/ resolving = 0 /\ strand = <<>> /\ connecting # 0
             D2 == resolving = 0 /\ connecting = 0 /\ (bRunning => sock # 0) /\ Begun
  <2>0. ~ overlap /\ (D1 \/ D2)
    BY <1>0, <1>3 DEF OneConnect, Begun
  <2>1. strand = <<>> => Begun
    BY DEF Begun
  <2>2. SUFFICES epoch' = 1 /\ ~ overlap' /\ (D1' \/ D2')
    BY <2>2 DEF OneConnect, Begun
  <2>3. CASE Stop
    <3>1. /\ ~ bRunning' /\ ~ bWriteReady' /\ connecting' = 0 /\ sock' = 0 /\ sendQueue' = <<>>
          /\ writes' = <<>> /\ reads' = 0
          /\ UNCHANGED <<epoch, overlap, strand, resolving, written, got>>
      BY <2>3 DEF Stop, CloseSocket
    <3>2. CASE D2 \/ (D1 /\ connecting # 0)
      BY <1>3, <2>0, <2>1, <3>1, <3>2 DEF Begun
    <3>3. CASE D1 /\ connecting = 0
      BY <1>3, <2>0, <3>1, <3>3 DEF Idle
    <3> QED
      BY <2>0, <3>2, <3>3
  <2>4. CASE OnResolve
    <3>1. /\ resolving > 0 /\ resolving' = resolving - 1
          /\ strand' = IF bRunning THEN Append(strand, Connect) ELSE strand
          /\ UNCHANGED <<bRunning, bWriteReady, sendQueue, writes, written, reads, got, sock,
                         connecting, overlap, epoch>>
      BY <2>4 DEF OnResolve, flagVars, opVars, sockVars
    <3>2. /\ Idle /\ sendQueue = <<>> /\ sock = 0 /\ resolving = 1 /\ strand = <<>>
          /\ connecting = 0
      BY <2>0, <3>1
    <3>3. CASE bRunning
      <4>1. Append(<<>>, Connect) = <<Connect>>
        BY OfOne
      <4>2. strand' = <<Connect>> /\ NoWrites(<<Connect>>)
        BY <3>1, <3>2, <3>3, <4>1 DEF NoWrites
      <4> QED
        BY <1>3, <2>0, <3>1, <3>2, <4>2 DEF Idle
    <3>4. CASE ~ bRunning
      BY <1>3, <2>0, <2>1, <3>1, <3>2, <3>4 DEF Begun
    <3> QED
      BY <3>3, <3>4
  <2>5. CASE OnResolveError
    <3>1. /\ resolving > 0 /\ resolving' = resolving - 1 /\ ~ bRunning'
          /\ UNCHANGED <<strand, connecting, overlap, epoch>>
      BY <2>5 DEF OnResolveError, sendVars, sockVars, DoStop, flagVars
    <3> QED
      BY <1>3, <2>0, <2>1, <3>1 DEF Begun
  <2>6. CASE DoConnect
    <3>1. /\ strand # <<>> /\ Head(strand) = Connect /\ strand' = Tail(strand)
          /\ writes' = <<>> /\ reads' = 0 /\ sock' = 0 /\ connecting' = epoch
          /\ overlap' = StillDue
          /\ UNCHANGED <<sendQueue, written, got, bWriteReady, resolving, epoch>>
      BY <2>6 DEF DoConnect, CloseSocket, flagVars
    <3>2. ~ Begun
      <4>1. 1 \in 1..Len(strand) /\ Head(strand) = strand[1]
        BY <1>0, <3>1
      <4> QED
        BY <3>1, <4>1 DEF Begun
    <3>3. /\ Idle /\ sendQueue = <<>> /\ strand = <<Connect>> /\ resolving = 0
      BY <2>0, <3>1, <3>2
    <3>4. Tail(<<Connect>>) = <<>> /\ Len(<<Connect>>) = 1 /\ NoWrites(<<>>)
      BY OfOne DEF NoWrites
    <3>5. ~ StillDue
      BY <3>3, <3>4 DEF StillDue, Idle
    <3> QED
      BY <1>3, <3>1, <3>3, <3>4, <3>5 DEF Idle
  <2>7. CASE OnConnect
    <3>1. /\ connecting # 0 /\ connecting' = 0 /\ sock' # 0
          /\ UNCHANGED <<overlap, epoch, resolving>>
          /\ DoSend(<<"version", epoch>>) \/ UNCHANGED strand
      BY <2>7 DEF OnConnect, sendVars
    <3>2. strand = <<>> /\ resolving = 0
      BY <2>0, <3>1
    <3>3. strand' = <<>> \/ strand' = <<<<"version", epoch>>>>
      <4>1. strand' = strand \/ strand' = Append(strand, <<"version", epoch>>)
        BY <3>1 DEF DoSend
      <4>2. Append(<<>>, <<"version", epoch>>) = <<<<"version", epoch>>>>
        BY OfOne
      <4> QED
        BY <3>2, <4>1, <4>2
    <3>4. Begun'
      BY <3>3 DEF Begun, Connect
    <3> QED
      BY <1>3, <2>0, <3>1, <3>2, <3>4
  <2>8. CASE OnConnectError
    <3>1. /\ connecting # 0 /\ connecting' = 0 /\ ~ bRunning'
          /\ UNCHANGED <<overlap, epoch, resolving, strand>>
      BY <2>8 DEF OnConnectError, sendVars, DoStop, flagVars
    <3> QED
      BY <1>3, <2>0, <2>1, <3>1 DEF Begun
  <2>9. ASSUME UNCHANGED <<sock, connecting, overlap, epoch, resolving>>,
               bRunning' => bRunning, D2, Begun'
        PROVE  epoch' = 1 /\ ~ overlap' /\ (D1' \/ D2')
    BY <1>3, <2>0, <2>9
  <2>10. CASE Send \/ OnVersion \/ OnPing
    <3>1. /\ UNCHANGED <<sock, connecting, overlap, epoch, resolving, bRunning>>
          /\ bWriteReady \/ got # <<>>
      BY <2>10, SendingSteps DEF sockVars, flagVars
    <3>2. D2
      BY <2>0, <3>1 DEF Idle
    <3>3. \A kind \in Kinds : <<kind, epoch>> # Connect /\ <<kind, epoch>> \in Message
      BY <1>0 DEF Kinds, Connect, Message, TypeOK
    <3>4. strand' = strand \/ \E kind \in Kinds : strand' = Append(strand, <<kind, epoch>>)
      BY <2>10, SendingSteps DEF sendVars, DoSend
    <3>5. Begun'
      <4>1. CASE strand' = strand
        BY <3>2, <4>1 DEF Begun
      <4>2. ASSUME NEW kind \in Kinds, strand' = Append(strand, <<kind, epoch>>)
            PROVE  Begun'
        <5> DEFINE m == <<kind, epoch>>
        <5>1. m \in Message /\ m # Connect /\ strand' = Append(strand, m)
          BY <3>3, <4>2
        <5> HIDE DEF m
        <5>2. /\ Len(Append(strand, m)) = Len(strand) + 1 /\ Len(strand) \in Nat
              /\ \A i \in 1..Len(strand) : Append(strand, m)[i] = strand[i]
              /\ Append(strand, m)[Len(strand) + 1] = m
          BY <1>0, <5>1
        <5>3. ASSUME NEW i \in 1..Len(strand) + 1
              PROVE  i \in 1..Len(strand) \/ i = Len(strand) + 1
          BY <5>2
        <5>4. \A i \in 1..Len(strand) : strand[i] # Connect
          BY <3>2 DEF Begun
        <5>5. \A i \in 1..Len(strand) + 1 : Append(strand, m)[i] # Connect
          BY <5>1, <5>2, <5>3, <5>4
        <5> QED
          BY <5>1, <5>2, <5>5 DEF Begun
      <4> QED
        BY <3>4, <4>1, <4>2
    <3> QED
      BY <2>9, <3>1, <3>2, <3>5
  <2>11. CASE DoWrite
    <3>1. /\ strand # <<>> /\ Head(strand) # Connect /\ strand' = Tail(strand)
          /\ UNCHANGED <<sock, connecting, overlap, epoch, resolving, bRunning>>
      BY <2>11 DEF DoWrite, sockVars, flagVars
    <3>2. D2
      BY <1>0, <2>0, <3>1, TakeStrand DEF Idle
    <3>3. /\ Len(Tail(strand)) = Len(strand) - 1 /\ Len(strand) \in Nat
          /\ \A i \in 1..Len(strand) - 1 : Tail(strand)[i] = strand[i + 1]
      BY <1>0, <3>1
    <3>4. \A i \in 1..Len(strand) : strand[i] # Connect
      BY <3>2 DEF Begun
    <3>5. \A i \in 1..Len(Tail(strand)) : Tail(strand)[i] # Connect
      BY <3>3, <3>4
    <3>6. Begun'
      BY <3>1, <3>5 DEF Begun
    <3> QED
      BY <2>9, <3>1, <3>2, <3>6
  <2>12. CASE OnTimer
    <3>1. /\ UNCHANGED <<sock, connecting, overlap, epoch, resolving, sendQueue, strand, writes,
                         written, reads, got>>
          /\ (bRunning' => bRunning) /\ (bWriteReady' => bWriteReady)
      BY <2>12 DEF OnTimer, sockVars, opVars, sendVars, DoStop, flagVars
    <3>2. CASE D1
      BY <1>3, <2>0, <3>1, <3>2 DEF Idle
    <3>3. CASE D2
      BY <1>3, <2>0, <3>1, <3>3 DEF Begun
    <3> QED
      BY <2>0, <3>2, <3>3
  <2>13. CASE WriteCompletes \/ OnWrite \/ OnWriteError \/ ReadCompletes \/ ReadFails
    <3>1. /\ UNCHANGED <<sock, connecting, overlap, epoch, resolving, strand, bRunning>>
          /\ sock # 0 \/ written # <<>>
      BY <2>13 DEF WriteCompletes, OnWrite, OnWriteError, ReadCompletes, ReadFails, sockVars,
                   sendVars, flagVars
    <3>2. D2
      BY <2>0, <3>1 DEF Idle
    <3> QED
      BY <2>9, <3>1, <3>2 DEF Begun
  <2>14. CASE OnVerack \/ OnGarbage \/ OnReadFailed
    <3>1. /\ UNCHANGED <<sock, connecting, overlap, epoch, resolving, strand>>
          /\ (bRunning' => bRunning) /\ got # <<>>
      BY <2>14 DEF OnVerack, OnGarbage, OnReadFailed, Receive, sockVars, sendVars, DoStop,
                   flagVars
    <3>2. D2
      BY <2>0, <3>1 DEF Idle
    <3> QED
      BY <2>9, <3>1, <3>2 DEF Begun
  <2>15. CASE RemotePings
    <3>1. /\ UNCHANGED <<sock, connecting, overlap, epoch, resolving, strand, bRunning>>
          /\ opened
      BY <2>15 DEF RemotePings, sendVars, flagVars
    <3>2. sock # 0
      BY <1>0, <3>1 DEF SocketOK
    <3> QED
      BY <2>0, <2>9, <3>1, <3>2 DEF Begun
  <2> QED
    BY <1>3, <2>3, <2>4, <2>5, <2>6, <2>7, <2>8, <2>10, <2>11, <2>12, <2>13, <2>14, <2>15
       DEF Next, Handlers, Errors
<1> QED
  BY <1>1, <1>2, <1>3

(* A queue that is not empty is being written, on the first connection and  *)
(* while nothing fails.                                                     *)
LEMMA WriterKept ==
    ASSUME Inv, Next PROVE QueueHasWriter'
<1>0. /\ TypeOK /\ WriteOK /\ SocketOK /\ OneConnect /\ QueueHasWriter
      /\ faults \in Nat /\ epoch \in Nat /\ strand \in Seq(Message \cup {Connect})
  BY DEF Inv, TypeOK
<1> SUFFICES ASSUME epoch' = 1, faults' = 0, bRunning', sendQueue' # <<>>
    PROVE  ~ NoWriter'
  BY DEF QueueHasWriter
<1>1. ASSUME bRunning, faults = 0, UNCHANGED epoch
      PROVE  /\ sendQueue # <<>> => ~ NoWriter
             /\ sock # 0 => Writing
             /\ sock # 0 \/ Idle
             /\ sock # 0 \/ sendQueue = <<>>
  <2>1. ~ overlap /\ (sendQueue # <<>> => ~ NoWriter)
    BY <1>0, <1>1 DEF OneConnect, QueueHasWriter
  <2>2. sock # 0 => Writing
    BY <1>0, <2>1 DEF WriteOK, Writing
  <2>3. sock # 0 \/ (Idle /\ sendQueue = <<>>)
    BY <1>0, <1>1 DEF OneConnect
  <2> QED
    BY <2>1, <2>2, <2>3
<1>2. ASSUME UNCHANGED <<sendQueue, strand, writes, written, epoch>>, bRunning, faults = 0
      PROVE  ~ NoWriter'
  BY <1>1, <1>2 DEF NoWriter
<1>3. CASE Fault
  BY <1>0, <1>3 DEF Fault
<1>4. CASE Errors
  BY <1>3, <1>4 DEF Errors, OnResolveError, OnConnectError, OnWriteError, ReadFails
<1>5. CASE Start
  <2>1. epoch = 0 /\ sendQueue' = sendQueue
    BY <1>0, <1>5 DEF Start, sendVars
  <2> QED
    BY <1>0, <2>1 DEF OneConnect
<1>6. CASE Stop
  BY <1>6 DEF Stop
<1>7. CASE ReadCompletes \/ RemotePings
  BY <1>2, <1>7 DEF ReadCompletes, RemotePings, flagVars, sendVars, opVars, bounds
<1>8. CASE OnVerack \/ OnGarbage
  BY <1>2, <1>8 DEF OnVerack, OnGarbage, Receive, sendVars, bounds
<1>9. CASE OnReadFailed
  BY <1>2, <1>9 DEF OnReadFailed, DoStop, flagVars, sendVars, bounds
<1>10. CASE OnTimer
  <2>1. CASE UNCHANGED bounds
    BY <1>2, <1>10, <2>1 DEF OnTimer, DoStop, flagVars, sendVars, opVars, bounds
  <2> QED
    BY <1>3, <1>10, <2>1 DEF OnTimer
<1>11. CASE OnResolve \/ DoWrite \/ WriteCompletes
  <2>1. UNCHANGED <<sendQueue, bRunning, faults, epoch>>
    BY <1>11 DEF OnResolve, DoWrite, WriteCompletes, flagVars, sendVars, bounds
  <2>2. ~ NoWriter /\ bRunning /\ faults = 0
    BY <1>1, <2>1
  <2>3. sock # 0 /\ Writing
    <3>1. CASE sock # 0
      BY <1>1, <2>1, <2>2, <3>1
    <3>2. CASE sock = 0
      BY <1>1, <2>1, <2>2, <3>2 DEF Idle, NoWriter
    <3> QED
      BY <3>1, <3>2
  <2>4. FrontIsWritten
    BY <2>2, <2>3 DEF Writing
  <2>5. FrontIsWritten'
    BY <1>0, <1>11, <2>1, <2>2, <2>3, <2>4, WriteStepOK
  <2> QED
    BY <2>5, TypeKept, WriterIsOnePrimed
<1>12. CASE DoConnect
  <2>1. /\ UNCHANGED <<sendQueue, bRunning, faults, epoch>> /\ strand # <<>>
        /\ Head(strand) = Connect
    BY <1>12 DEF DoConnect, flagVars, bounds
  <2>2. 1 \in 1..Len(strand) /\ strand[1] = Connect
    BY <1>0, <2>1
  <2>3. sendQueue = <<>>
    BY <1>0, <2>1, <2>2 DEF OneConnect
  <2> QED
    BY <2>1, <2>3
<1>13. ASSUME NEW kind \in Kinds, DoSend(<<kind, epoch>>), bRunning, faults = 0,
              UNCHANGED <<epoch, writes, written>>, Idle \/ sock # 0
       PROVE  ~ NoWriter'
  <2>1. CASE NoWriter
    <3>1. sendQueue = <<>>
      BY <1>1, <1>13, <2>1
    <3>2. FrontIsWritten'
      BY <1>0, <1>13, <2>1, <3>1, SentWriter
    <3> QED
      BY <3>2, TypeKept, WriterIsOnePrimed
  <2>2. CASE ~ NoWriter
    <3>1. sock # 0
      BY <1>13, <2>2 DEF Idle, NoWriter
    <3>2. FrontIsWritten
      BY <1>1, <1>13, <2>2, <3>1 DEF Writing
    <3>3. FrontIsWritten'
      BY <1>0, <1>13, <3>2, SentWriter DEF FrontIsWritten
    <3> QED
      BY <3>3, TypeKept, WriterIsOnePrimed
  <2> QED
    BY <2>1, <2>2
<1>14. CASE OnConnect
  <2>1. /\ UNCHANGED <<bRunning, faults, epoch, writes, written>> /\ "version" \in Kinds
        /\ DoSend(<<"version", epoch>>) \/ ~ bRunning
    BY <1>14 DEF OnConnect, flagVars, bounds, Kinds
  <2>2. Idle \/ sock # 0
    BY <1>1, <2>1
  <2> QED
    BY <1>13, <2>1, <2>2
<1>15. CASE Send \/ OnVersion \/ OnPing
  <2>1. UNCHANGED <<bRunning, faults, epoch, writes, written>>
    BY <1>15, SendingSteps DEF flagVars, bounds
  <2>2. Idle \/ sock # 0
    BY <1>1, <2>1
  <2>3. CASE \E kind \in Kinds : DoSend(<<kind, epoch>>)
    BY <1>13, <2>1, <2>2, <2>3
  <2>4. CASE UNCHANGED sendVars
    BY <1>2, <2>1, <2>4 DEF sendVars
  <2> QED
    BY <1>15, <2>3, <2>4, SendingSteps
<1>16. CASE OnWrite
  <2>1. /\ UNCHANGED <<bRunning, faults, epoch>> /\ written # <<>>
    BY <1>16 DEF OnWrite, bounds
  <2>2. sock # 0 /\ Writing
    BY <1>1, <2>1 DEF Idle
  <2>3. FrontIsWritten'
    BY <1>0, <1>16, <2>1, <2>2, OnWriteOK
  <2> QED
    BY <2>3, TypeKept, WriterIsOnePrimed
<1> QED
  BY <1>4, <1>5, <1>6, <1>7, <1>8, <1>9, <1>10, <1>11, <1>12, <1>14, <1>15, <1>16
     DEF Next, Handlers

-----------------------------------------------------------------------------
(* A peer that has not been started. *)
LEMMA InitInv == Init => Inv
<1> SUFFICES ASSUME Init PROVE Inv
  OBVIOUS
<1>1. FlagType
  BY Zenon DEF Init, FlagType
<1>2. QueueType /\ ReadType /\ NumberType
  BY DEF Init, QueueType, ReadType, NumberType, NoMessage, Message, Kinds
<1>3. TypeOK
  BY <1>1, <1>2 DEF TypeOK, FlagType, QueueType, ReadType, NumberType
<1>4. WriteOK /\ SocketOK /\ ConnectingOK
  BY DEF Init, WriteOK, SocketOK, ConnectingOK, InOrder
<1>5. Idle
  BY DEF Init, Idle, NoWrites
<1>6. FirstOK /\ HandshakeOK /\ OneConnect /\ QueueHasWriter /\ VersionFirst
  BY <1>5 DEF Init, FirstOK, HandshakeOK, OneConnect, QueueHasWriter, VersionFirst
<1> QED
  BY <1>3, <1>4, <1>6 DEF Inv

(* The inductive invariant holds in every reachable state. *)
THEOREM InvHolds == Spec => []Inv
<1>1. Inv /\ [Next]_vars => Inv'
  <2>1. CASE Next
    BY <2>1, TypeKept, WriteKept, SocketKept, ConnectingKept, FirstKept, HandshakeKept,
       OneConnectKept, WriterKept, VersionKept DEF Inv
  <2>2. CASE UNCHANGED vars
    <3>1. UNCHANGED <<flagVars, sendVars, opVars, sockVars, resolving, epoch, timer, bounds>>
      BY <2>2 DEF vars
    <3> QED
      BY <3>1 DEF Inv, TypeOK, WriteOK, SocketOK, ConnectingOK, Idle, FirstOK, HandshakeOK,
                  Handshake, OneConnect, QueueHasWriter, VersionFirst, InOrder, NoWriter,
                  OneWriter, FrontIsWritten, flagVars, sendVars, opVars, sockVars, bounds
  <2> QED
    BY <2>1, <2>2
<1> QED
  BY InitInv, <1>1, PTL DEF Spec

(* The variables have their types. *)
THEOREM TypeCorrect == Spec => []TypeOK
<1>1. Inv => TypeOK
  BY DEF Inv
<1> QED
  BY InvHolds, <1>1, PTL

(* On a connection begun with nothing due, the write handler pops the       *)
(* message it has written, and no other write is under way.                 *)
THEOREM PopsWhatItWroteHolds == Spec => []PopsWhatItWrote
<1>1. Inv => PopsWhatItWrote
  BY DEF Inv, WriteOK, FrontIsWritten, PopsWhatItWrote
<1> QED
  BY InvHolds, <1>1, PTL

(* No connection begun with nothing due is sent what was queued for an      *)
(* earlier one.                                                             *)
THEOREM NothingFromEarlierConnectionHolds == Spec => []NothingFromEarlierConnection
<1>1. ASSUME Inv PROVE NothingFromEarlierConnection
  <2>1. /\ writes \in Seq(Message) /\ sock \in Nat
        /\ ~ overlap /\ sock # 0 => NoWriter \/ (FrontIsWritten /\ Head(sendQueue)[2] >= sock)
    BY <1>1 DEF Inv, TypeOK, WriteOK
  <2> SUFFICES ASSUME ~ overlap, NEW i \in DOMAIN writes PROVE writes[i][2] >= sock
    BY DEF NothingFromEarlierConnection
  <2>2. writes[i][2] \in Nat /\ writes # <<>>
    BY <2>1 DEF Message
  <2>3. CASE sock = 0
    BY <2>2, <2>3
  <2>4. CASE sock # 0
    <3>1. writes = <<Head(sendQueue)>> /\ Head(sendQueue)[2] >= sock
      BY <2>1, <2>2, <2>4 DEF NoWriter, FrontIsWritten, OneWriter
    <3>2. writes[i] = Head(sendQueue)
      BY <3>1
    <3> QED
      BY <3>1, <3>2
  <2> QED
    BY <2>3, <2>4
<1> QED
  BY InvHolds, <1>1, PTL

(* The first message written on such a connection is the version message. *)
THEOREM VersionFirstHolds == Spec => []VersionFirst
<1>1. Inv => VersionFirst
  BY DEF Inv
<1> QED
  BY InvHolds, <1>1, PTL

(* On such a connection nothing but the handshake is written before the     *)
(* node has sent its verack.                                                *)
THEOREM NoDataBeforeVerackHolds == Spec => []NoDataBeforeVerack
<1>1. ASSUME Inv PROVE NoDataBeforeVerack
  <2> SUFFICES ASSUME ~ overlap, sock # 0, ~ opened, NEW i \in DOMAIN writes
               PROVE  writes[i][1] \notin {"data", "pong"}
    BY DEF NoDataBeforeVerack
  <2>1. /\ NoWriter \/ FrontIsWritten
        /\ NoWriter \/ Handshake(sendQueue)
        /\ sendQueue \in Seq(Message) /\ writes # <<>>
    BY <1>1 DEF Inv, TypeOK, WriteOK, HandshakeOK
  <2>2. writes = <<Head(sendQueue)>> /\ sendQueue # <<>> /\ Handshake(sendQueue)
    BY <2>1 DEF NoWriter, FrontIsWritten, OneWriter
  <2>3. writes[i] = Head(sendQueue)
    BY <2>2
  <2>4. Head(sendQueue) = sendQueue[1] /\ 1 \in 1..Len(sendQueue)
    BY <2>1, <2>2
  <2> QED
    BY <2>2, <2>3, <2>4 DEF Handshake
<1> QED
  BY InvHolds, <1>1, PTL

(* On the first connection, while nothing fails, a queue that is not empty  *)
(* is being written.                                                        *)
THEOREM QueueHasWriterHolds == Spec => []QueueHasWriter
<1>1. Inv => QueueHasWriter
  BY DEF Inv
<1> QED
  BY InvHolds, <1>1, PTL
=============================================================================
