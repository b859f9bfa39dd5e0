---------------------------- MODULE ClientProofs ----------------------------
(***************************************************************************)
(* Proofs about a client on its way into the game: the connection that     *)
(* carries its messages, and the waiting list of a full server that its    *)
(* login may end in.                                                       *)
(*                                                                         *)
(* The connection, for every set of messages and any number of packets:    *)
(* the types, that the socket takes the messages in the order they were    *)
(* sent, that release is the protocol's last task, and that a graceful     *)
(* close loses no message while the network holds.                         *)
(*                                                                         *)
(* The waiting list, for any number of clients and places: nobody is       *)
(* listed twice or while online, the limit holds, and newcomers do not     *)
(* pass those who wait.                                                    *)
(***************************************************************************)
EXTENDS Connection, WaitList, SequenceTheorems, FiniteSetTheorems,
        WellFoundedInduction, TLAPS

-----------------------------------------------------------------------------
(* The inductive invariant.                                                *)

\* a failed write dropped the queue; no graceful close did
Dropped ==
  /\ closed /\ messageQueue = <<>>
  /\ ended # "graceful" \/ peer = "reset"

\* what was sent was written or is queued, with a write on for the queue
DeliveryInv ==
  /\ IsPrefix(written, sent)
  /\ sent = written \o messageQueue \/ Dropped
  /\ writes = IF messageQueue = <<>> THEN 0 ELSE 1
  /\ closed \/ socketClosed => ended # "open"
  /\ ended = "graceful" => closed
  /\ closed => ~inManager
  /\ ended = "graceful" /\ peer # "reset" /\ socketClosed => messageQueue = <<>>

\* before onAccept nothing has happened to the connection but closeAll
AcceptInv ==
  read = "accepting" =>
    /\ ~closed /\ ~protocol /\ posted = <<>>
    /\ messageQueue = <<>> /\ expired = 0
    /\ readTimer = "off" /\ writeTimer = "off"

ConnectionInv == TypeOK /\ DeliveryInv /\ AcceptInv /\ ReleaseComesLast

-----------------------------------------------------------------------------
(* Sequences of messages and of tasks.                                     *)

LEMMA PrefixOfConcat ==
  ASSUME NEW T, NEW w \in Seq(T), NEW q \in Seq(T)
  PROVE  IsPrefix(w, w \o q)
<1>1. /\ w \o q \in Seq(T) /\ Len(w) \in Nat /\ Len(q) \in Nat
      /\ Len(w \o q) = Len(w) + Len(q)
  BY ConcatProperties, LenProperties
<1>2. SubSeq(w \o q, 1, Len(w)) = SubSeq(w, 1, Len(w))
  <2>1. CASE Len(w) = 0
    BY <2>1, SubSeqEmpty
  <2>2. CASE Len(w) # 0
    <3>1. 1 \in 1 .. Len(w) /\ Len(w) \in 1 .. Len(w)
      BY <1>1, <2>2
    <3>2. QED BY <3>1, SubSeqOfConcat1
  <2>3. QED BY <2>1, <2>2
<1>3. QED BY <1>1, <1>2 DEF IsPrefix

\* send() puts a message at the end of what was sent and of the queue
LEMMA SendConcat ==
  ASSUME NEW w \in Seq(Messages), NEW q \in Seq(Messages), NEW m \in Messages
  PROVE  Append(w \o q, m) = w \o Append(q, m)
<1>1. /\ <<m>> \in Seq(Messages) /\ w \o q \in Seq(Messages)
      /\ Append(q, m) = q \o <<m>>
  BY AppendIsConcat, ConcatProperties
<1>2. Append(w \o q, m) = (w \o q) \o <<m>>
  BY <1>1, AppendIsConcat
<1>3. w \o (q \o <<m>>) = (w \o q) \o <<m>>
  BY <1>1, ConcatAssociative
<1>4. QED BY <1>1, <1>2, <1>3

\* onWriteOperation moves the first of the queue to what is written
LEMMA WriteConcat ==
  ASSUME NEW T, NEW w \in Seq(T), NEW q \in Seq(T), q # <<>>
  PROVE  Append(w, Head(q)) \o Tail(q) = w \o q
<1>1. /\ Head(q) \in T /\ Tail(q) \in Seq(T) /\ <<Head(q)>> \in Seq(T)
  BY HeadTailProperties
<1>2. Append(w, Head(q)) = w \o <<Head(q)>>
  BY <1>1, AppendIsConcat
<1>3. (w \o <<Head(q)>>) \o Tail(q) = w \o (<<Head(q)>> \o Tail(q))
  BY <1>1, ConcatAssociative
<1>4. <<Head(q)>> \o Tail(q) = q
  <2> DEFINE r == <<Head(q)>> \o Tail(q)
  <2>1. /\ Len(q) \in Nat /\ Len(q) >= 1 /\ Len(Tail(q)) = Len(q) - 1
        /\ \A i \in 1 .. Len(Tail(q)) : Tail(q)[i] = q[i + 1]
        /\ Head(q) = q[1]
    BY HeadTailProperties, EmptySeq
  <2>2. /\ r \in Seq(T) /\ Len(r) = 1 + Len(Tail(q))
        /\ \A i \in 1 .. 1 + Len(Tail(q)) :
             r[i] = IF i <= 1 THEN <<Head(q)>>[i] ELSE Tail(q)[i - 1]
    BY <1>1, ConcatProperties
  <2>3. ASSUME NEW i \in 1 .. Len(q) PROVE r[i] = q[i]
    <3>1. CASE i = 1
      BY <2>1, <2>2, <3>1
    <3>2. CASE i > 1
      <4>1. i - 1 \in 1 .. Len(Tail(q)) /\ (i - 1) + 1 = i
        BY <2>1, <3>2
      <4>2. QED BY <2>1, <2>2, <3>2, <4>1
    <3>3. QED BY <2>1, <3>1, <3>2
  <2>4. QED BY <2>1, <2>2, <2>3, SeqEqual
<1>5. QED BY <1>2, <1>3, <1>4

\* a task posted for the protocol, when release was not posted before
LEMMA PostingTask ==
  ASSUME NEW p \in Seq({"onConnect", "message", "release"}),
         \A i \in 1 .. Len(p) : p[i] = "onConnect" => i = 1,
         "release" \notin ToSet(p),
         NEW t \in {"message", "release"},
         NEW r, r = Append(p, t)
  PROVE  /\ r \in Seq({"onConnect", "message", "release"})
         /\ \A i \in 1 .. Len(r) :
              /\ r[i] = "onConnect" => i = 1
              /\ r[i] = "release" => i = Len(r)
         /\ "release" \in ToSet(r) <=> t = "release"
<1>1. /\ r \in Seq({"onConnect", "message", "release"})
      /\ Len(p) \in Nat /\ Len(r) = Len(p) + 1
      /\ \A i \in 1 .. Len(p) : r[i] = p[i]
      /\ r[Len(p) + 1] = t
  BY AppendProperties, LenProperties
<1>2. DOMAIN p = 1 .. Len(p) /\ DOMAIN r = 1 .. Len(p) + 1
  BY <1>1, LenProperties
<1>3. \A i \in 1 .. Len(p) : p[i] # "release"
  BY <1>2 DEF ToSet
<1>4. \A i \in 1 .. Len(r) : i \in 1 .. Len(p) \/ i = Len(r)
  BY <1>1
<1>5. \A i \in 1 .. Len(r) :
        /\ r[i] = "onConnect" => i = 1
        /\ r[i] = "release" => i = Len(r)
  BY <1>1, <1>3, <1>4
<1>6. "release" \in ToSet(r) <=> t = "release"
  BY <1>1, <1>2, <1>3, <1>4 DEF ToSet
<1>7. QED BY <1>1, <1>5, <1>6

-----------------------------------------------------------------------------
(* Connection::close, wherever it is called.                               *)

TaskList == Seq({"onConnect", "message", "release"})

\* the tasks: release once, and nothing after it
LEMMA CloseReleases ==
  ASSUME TypeOK, ReleaseComesLast, NEW force \in BOOLEAN, NEW q,
         Close(force, q), protocol' \in BOOLEAN,
         protocol' # protocol => protocol' /\ ~closed
  PROVE  ReleaseComesLast' /\ posted' \in TaskList
<1>1. /\ posted \in TaskList /\ closed' = TRUE
      /\ posted' = IF ~closed /\ protocol' THEN Append(posted, "release") ELSE posted
  BY DEF TypeOK, TaskList, Close, CloseParts
<1>2. /\ \A i \in 1 .. Len(posted) :
           /\ posted[i] = "onConnect" => i = 1
           /\ posted[i] = "release" => i = Len(posted)
      /\ "release" \in ToSet(posted) <=> closed /\ protocol
  BY DEF ReleaseComesLast
<1>3. CASE ~closed /\ protocol'
  <2>1. "release" \notin ToSet(posted) /\ posted' = Append(posted, "release")
    BY <1>1, <1>2, <1>3
  <2>2. /\ posted' \in TaskList
        /\ \A i \in 1 .. Len(posted') :
             /\ posted'[i] = "onConnect" => i = 1
             /\ posted'[i] = "release" => i = Len(posted')
        /\ "release" \in ToSet(posted')
    BY <1>1, <1>2, <2>1, PostingTask DEF TaskList
  <2>3. QED BY <1>1, <1>3, <2>2 DEF ReleaseComesLast
<1>4. CASE ~(~closed /\ protocol')
  <2>1. posted' = posted /\ (closed /\ protocol <=> closed' /\ protocol')
    BY <1>1, <1>4 DEF TypeOK
  <2>2. QED BY <1>1, <1>2, <2>1 DEF ReleaseComesLast
<1>5. QED BY <1>3, <1>4

\* the messages, when the queue is left as it is
LEMMA CloseDelivers ==
  ASSUME ConnectionInv, NEW force \in BOOLEAN, Close(force, messageQueue),
         UNCHANGED <<peer, written, sent, writes>>
  PROVE  DeliveryInv'
<1>1. DeliveryInv /\ TypeOK
  BY DEF ConnectionInv
<1>2. /\ messageQueue' = messageQueue /\ inManager' = FALSE /\ closed' = TRUE
      /\ socketClosed' = (socketClosed \/ (~closed /\ (messageQueue = <<>> \/ force)))
      /\ ended' = IF ended # "open" THEN ended ELSE IF force THEN "forced" ELSE "graceful"
  BY DEF Close, CloseParts, ClosesSocket
<1>3. sent' = written' \o messageQueue' \/ Dropped'
  BY <1>1, <1>2 DEF DeliveryInv, Dropped
<1>4. ended' # "open"
  BY <1>2
<1>5. ended' = "graceful" /\ peer' # "reset" /\ socketClosed' => messageQueue' = <<>>
  BY <1>1, <1>2 DEF DeliveryInv
<1>6. QED BY <1>1, <1>2, <1>3, <1>4, <1>5 DEF DeliveryInv

\* what the types are after it
LEMMA CloseTypes ==
  ASSUME TypeOK, NEW force \in BOOLEAN, NEW q \in Seq(Messages), Close(force, q)
  PROVE  /\ inManager' = FALSE /\ closed' = TRUE /\ socketClosed' \in BOOLEAN
         /\ messageQueue' = q
         /\ ended' \in {"open", "graceful", "forced", "closeAll"}
         /\ Timer(readTimer, force, q) \in {"off", readTimer}
         /\ Timer(writeTimer, force, q) \in {"off", writeTimer}
<1>1. socketClosed' \in BOOLEAN
  BY DEF TypeOK, Close, CloseParts, ClosesSocket
<1>2. ended' \in {"open", "graceful", "forced", "closeAll"}
  BY DEF TypeOK, Close, CloseParts
<1>3. QED BY <1>1, <1>2 DEF Close, CloseParts, Timer

-----------------------------------------------------------------------------
(* One lemma for each handler that closes, writes or posts.                *)

LEMMA AcceptStep ==
  ASSUME ConnectionInv, Accept
  PROVE  ConnectionInv'
<1>1. /\ TypeOK /\ DeliveryInv /\ AcceptInv /\ ReleaseComesLast
      /\ read = "accepting" /\ ~closed /\ ~protocol /\ posted = <<>>
      /\ messageQueue = <<>> /\ readTimer = "off" /\ "release" \notin ToSet(posted)
      /\ UNCHANGED <<receivedFirst, writeTimer, expired, writes, sent, peer, packets,
                     written>>
  BY DEF ConnectionInv, AcceptInv, Accept, ReleaseComesLast, ioVars
<1>2. CASE /\ protocol' \in BOOLEAN
           /\ posted' = IF protocol' THEN Append(posted, "onConnect") ELSE posted
           /\ StartRead("header")
           /\ UNCHANGED <<inManager, socketClosed, closed, messageQueue, ended>>
  <2>1. posted' \in TaskList /\ ReleaseComesLast'
    <3>1. CASE protocol'
      <4>1. posted' = Append(posted, "onConnect") /\ posted \in TaskList
        BY <1>1, <1>2, <3>1 DEF TypeOK, TaskList
      <4>2. Len(posted) = 0 /\ "release" \notin ToSet(posted)
        BY <1>1
      <4>3. /\ posted' \in TaskList
            /\ \A i \in 1 .. Len(posted') :
                 /\ posted'[i] = "onConnect" => i = 1
                 /\ posted'[i] = "release" => i = Len(posted')
            /\ "release" \notin ToSet(posted')
        <5>1. posted' \in TaskList /\ Len(posted') = 1 /\ posted'[1] = "onConnect"
          BY <4>1, <4>2, AppendProperties DEF TaskList
        <5>2. DOMAIN posted' = 1 .. 1
          BY <5>1, LenProperties DEF TaskList
        <5>3. QED BY <5>1, <5>2 DEF ToSet
      <4>4. ~closed'
        BY <1>1, <1>2
      <4>5. QED BY <4>3, <4>4 DEF ReleaseComesLast
    <3>2. CASE ~protocol'
      BY <1>1, <1>2, <3>2 DEF ReleaseComesLast, TypeOK, TaskList
    <3>3. QED BY <3>1, <3>2
  <2>2. TypeOK'
    BY <1>1, <1>2, <2>1 DEF TypeOK, StartRead, TaskList
  <2>3. DeliveryInv'
    BY <1>1, <1>2 DEF DeliveryInv, Dropped
  <2>4. AcceptInv'
    BY <1>2 DEF AcceptInv, StartRead
  <2>5. QED BY <2>1, <2>2, <2>3, <2>4 DEF ConnectionInv
<1>3. CASE /\ read' = "none" /\ UNCHANGED <<protocol, readTimer>>
           /\ Close(TRUE, <<>>)
  <2>1. Close(TRUE, messageQueue)
    BY <1>1, <1>3
  <2>2. protocol' = protocol /\ protocol \in BOOLEAN
    BY <1>1, <1>3 DEF TypeOK
  <2>3. ReleaseComesLast' /\ posted' \in TaskList
    BY <1>1, <2>1, <2>2, CloseReleases
  <2>4. DeliveryInv'
    BY <1>1, <2>1, CloseDelivers
  <2>5. TypeOK'
    <3>1. messageQueue \in Seq(Messages)
      BY <1>1 DEF TypeOK
    <3>2. QED BY <1>1, <1>3, <2>1, <2>3, <3>1, CloseTypes DEF TypeOK, TaskList
  <2>6. AcceptInv'
    BY <1>3 DEF AcceptInv
  <2>7. QED BY <2>3, <2>4, <2>5, <2>6 DEF ConnectionInv
<1>4. QED BY <1>2, <1>3 DEF Accept

\* a handler that closes with the queue as it is and reads on or ends
LEMMA ClosingStep ==
  ASSUME ConnectionInv, NEW force \in BOOLEAN, Close(force, messageQueue),
         protocol' \in BOOLEAN, protocol' # protocol => protocol' /\ ~closed,
         UNCHANGED <<peer, written, sent, writes, packets>>,
         receivedFirst' \in BOOLEAN,
         read' \in {"none", "header", read},
         read' # "accepting",
         readTimer' \in {"off", "armed"}, writeTimer' \in {"off", "armed"},
         read' = "none" => readTimer' = "off",
         expired' \in 0 .. 2
  PROVE  ConnectionInv'
<1>1. TypeOK /\ DeliveryInv /\ ReleaseComesLast /\ messageQueue \in Seq(Messages)
  BY DEF ConnectionInv, TypeOK
<1>2. ReleaseComesLast' /\ posted' \in TaskList
  BY <1>1, CloseReleases
<1>3. DeliveryInv'
  BY CloseDelivers
<1>4. /\ inManager' = FALSE /\ closed' = TRUE /\ socketClosed' \in BOOLEAN
      /\ messageQueue' = messageQueue
      /\ ended' \in {"open", "graceful", "forced", "closeAll"}
  BY <1>1, CloseTypes
<1>5. TypeOK'
  BY <1>1, <1>2, <1>4 DEF TypeOK, TaskList
<1>6. AcceptInv'
  BY DEF AcceptInv
<1>7. QED BY <1>2, <1>3, <1>5, <1>6 DEF ConnectionInv

LEMMA TimersAfterClose ==
  ASSUME TypeOK, NEW force \in BOOLEAN
  PROVE  /\ Timer(readTimer, force, messageQueue) \in {"off", "armed"}
         /\ Timer(writeTimer, force, messageQueue) \in {"off", "armed"}
         /\ readTimer = "off" => Timer(readTimer, force, messageQueue) = "off"
BY DEF TypeOK, Timer

LEMMA ReadEndsStep ==
  ASSUME ConnectionInv, ReadEnds
  PROVE  ConnectionInv'
<1>1. /\ protocol' = protocol /\ readTimer' = "off" /\ read' = "none"
      /\ UNCHANGED <<receivedFirst, expired, writes, sent, peer, packets, written>>
  BY DEF ReadEnds, ioVars
<1>2. TypeOK
  BY DEF ConnectionInv
<1>3. CASE Close(TRUE, messageQueue) /\ writeTimer' = Timer(writeTimer, TRUE, messageQueue)
  <2>1. writeTimer' \in {"off", "armed"}
    BY <1>2, <1>3, TimersAfterClose
  <2>2. /\ protocol' \in BOOLEAN /\ receivedFirst' \in BOOLEAN /\ expired' \in 0 .. 2
    BY <1>1, <1>2 DEF TypeOK
  <2>3. QED BY <1>1, <1>3, <2>1, <2>2, ClosingStep
<1>4. CASE UNCHANGED <<inManager, socketClosed, closed, writeTimer, messageQueue,
                       posted, ended>>
  <2>1. TypeOK'
    BY <1>1, <1>2, <1>4 DEF TypeOK
  <2>2. DeliveryInv' /\ ReleaseComesLast'
    BY <1>1, <1>4 DEF ConnectionInv, DeliveryInv, Dropped, ReleaseComesLast
  <2>3. AcceptInv'
    BY <1>1 DEF AcceptInv
  <2>4. QED BY <2>1, <2>2, <2>3 DEF ConnectionInv
<1>5. QED BY <1>3, <1>4 DEF ReadEnds

LEMMA ParseHeaderStep ==
  ASSUME ConnectionInv, ParseHeader
  PROVE  ConnectionInv'
<1>1. /\ protocol' = protocol
      /\ UNCHANGED <<receivedFirst, expired, writes, sent, peer, packets, written>>
  BY DEF ParseHeader, ioVars
<1>2. TypeOK
  BY DEF ConnectionInv
<1>3. CASE /\ StartRead("body")
           /\ UNCHANGED <<inManager, socketClosed, closed, writeTimer, messageQueue,
                          posted, ended>>
  <2>1. TypeOK'
    BY <1>1, <1>2, <1>3 DEF TypeOK, StartRead
  <2>2. DeliveryInv' /\ ReleaseComesLast'
    BY <1>1, <1>3 DEF ConnectionInv, DeliveryInv, Dropped, ReleaseComesLast
  <2>3. AcceptInv'
    BY <1>3 DEF AcceptInv, StartRead
  <2>4. QED BY <2>1, <2>2, <2>3 DEF ConnectionInv
<1>4. ASSUME read' = "none", readTimer' = "off",
             NEW force \in BOOLEAN, Close(force, messageQueue),
             writeTimer' = Timer(writeTimer, force, messageQueue)
      PROVE  ConnectionInv'
  <2>1. writeTimer' \in {"off", "armed"}
    BY <1>2, <1>4, TimersAfterClose
  <2>2. /\ protocol' \in BOOLEAN /\ receivedFirst' \in BOOLEAN /\ expired' \in 0 .. 2
    BY <1>1, <1>2 DEF TypeOK
  <2>3. QED BY <1>1, <1>4, <2>1, <2>2, ClosingStep
<1>5. QED BY <1>3, <1>4 DEF ParseHeader

\* the protocol answers and disconnects: the answer is queued, then close()
LEMMA AnswerStep ==
  ASSUME ConnectionInv, ~closed, NEW m \in Messages, Queue(m, messageQueue = <<>>),
         Close(FALSE, Append(messageQueue, m)), protocol' = TRUE,
         read' = "header", readTimer' = "armed",
         writeTimer' = IF messageQueue = <<>> THEN "armed" ELSE writeTimer,
         receivedFirst' = TRUE, UNCHANGED <<expired, peer, packets, written>>
  PROVE  ConnectionInv'
<1> DEFINE q == Append(messageQueue, m)
<1>1. /\ TypeOK /\ DeliveryInv /\ ReleaseComesLast /\ messageQueue \in Seq(Messages)
      /\ written \in Seq(Messages) /\ sent \in Seq(Messages)
      /\ sent = written \o messageQueue
  BY DEF ConnectionInv, TypeOK, DeliveryInv, Dropped
<1>2. q \in Seq(Messages) /\ q # <<>>
  BY <1>1, AppendProperties
<1>3. sent' = Append(sent, m) /\ sent' \in Seq(Messages)
  BY <1>1, AppendProperties DEF Queue
<1>4. sent' = written \o q /\ IsPrefix(written, sent')
  <2>1. Append(written \o messageQueue, m) = written \o q
    BY <1>1, SendConcat
  <2>2. IsPrefix(written, written \o q)
    BY <1>1, <1>2, PrefixOfConcat
  <2>3. QED BY <1>1, <1>3, <2>1, <2>2
<1>5. /\ inManager' = FALSE /\ closed' = TRUE /\ messageQueue' = q
      /\ socketClosed' = socketClosed
      /\ ended' = IF ended # "open" THEN ended ELSE "graceful"
  BY <1>1, <1>2 DEF Close, CloseParts, ClosesSocket, TypeOK
<1>6. writes' = 1
  BY <1>1 DEF Queue, DeliveryInv
<1>7. DeliveryInv'
  <2>1. ended = "open" => ~socketClosed
    BY <1>1 DEF DeliveryInv
  <2>2. ended # "graceful"
    BY <1>1 DEF DeliveryInv
  <2>3. QED BY <1>2, <1>4, <1>5, <1>6, <2>1, <2>2 DEF DeliveryInv
<1>8. ReleaseComesLast' /\ posted' \in TaskList
  BY <1>1, CloseReleases
<1>9. TypeOK'
  <2>1. /\ writeTimer' \in {"off", "armed"} /\ socketClosed' \in BOOLEAN
        /\ ended' \in {"open", "graceful", "forced", "closeAll"}
        /\ expired' \in 0 .. 2 /\ packets' \in 0 .. MaxPackets
        /\ peer' \in {"active", "stalled", "reset"} /\ written' \in Seq(Messages)
    BY <1>1, <1>5 DEF TypeOK
  <2>2. /\ inManager' \in BOOLEAN /\ closed' \in BOOLEAN /\ protocol' \in BOOLEAN
        /\ receivedFirst' \in BOOLEAN
    BY <1>5
  <2>3. /\ messageQueue' \in Seq(Messages) /\ sent' \in Seq(Messages)
        /\ posted' \in Seq({"onConnect", "message", "release"})
    BY <1>2, <1>3, <1>5, <1>8 DEF TaskList
  <2>4. QED BY <1>6, <2>1, <2>2, <2>3 DEF TypeOK
<1>10. AcceptInv'
  BY DEF AcceptInv
<1>11. QED BY <1>7, <1>8, <1>9, <1>10 DEF ConnectionInv

LEMMA ParsePacketStep ==
  ASSUME ConnectionInv, ParsePacket
  PROVE  ConnectionInv'
<1>1. /\ ~closed /\ receivedFirst' = TRUE
      /\ HandMessage \/ NoProtocol
      /\ UNCHANGED <<expired, peer, packets, written>>
  BY DEF ParsePacket, ParsePacketIf, ioVars
<1>2. TypeOK
  BY DEF ConnectionInv
<1>3. CASE /\ protocol' = TRUE /\ StartRead("header")
           /\ posted' = Append(posted, "message")
           /\ UNCHANGED <<inManager, socketClosed, closed, writeTimer, messageQueue,
                          writes, sent, ended>>
  <2>1. /\ posted \in TaskList /\ "release" \notin ToSet(posted)
        /\ \A i \in 1 .. Len(posted) : posted[i] = "onConnect" => i = 1
    BY <1>1 DEF ConnectionInv, TypeOK, ReleaseComesLast, TaskList
  <2>2. /\ posted' \in TaskList
        /\ \A i \in 1 .. Len(posted') :
             /\ posted'[i] = "onConnect" => i = 1
             /\ posted'[i] = "release" => i = Len(posted')
        /\ "release" \notin ToSet(posted')
    BY <1>3, <2>1, PostingTask DEF TaskList
  <2>3. ~closed'
    BY <1>1, <1>3
  <2>4. ReleaseComesLast'
    BY <2>2, <2>3 DEF ReleaseComesLast
  <2>5. TypeOK'
    <3>1. /\ read' = "header" /\ readTimer' = "armed"
          /\ writeTimer' \in {"off", "armed"}
          /\ expired' \in 0 .. 2 /\ packets' \in 0 .. MaxPackets /\ writes' \in 0 .. 2
          /\ peer' \in {"active", "stalled", "reset"}
          /\ ended' \in {"open", "graceful", "forced", "closeAll"}
      BY <1>1, <1>2, <1>3 DEF TypeOK, StartRead
    <3>2. /\ inManager' \in BOOLEAN /\ closed' \in BOOLEAN /\ protocol' \in BOOLEAN
          /\ receivedFirst' \in BOOLEAN /\ socketClosed' \in BOOLEAN
      BY <1>1, <1>2, <1>3 DEF TypeOK
    <3>3. /\ messageQueue' \in Seq(Messages) /\ sent' \in Seq(Messages)
          /\ written' \in Seq(Messages)
          /\ posted' \in Seq({"onConnect", "message", "release"})
      BY <1>1, <1>2, <1>3, <2>2 DEF TypeOK, TaskList
    <3>4. QED BY <3>1, <3>2, <3>3 DEF TypeOK
  <2>6. DeliveryInv'
    BY <1>1, <1>3 DEF ConnectionInv, DeliveryInv, Dropped
  <2>7. AcceptInv'
    BY <1>3 DEF AcceptInv, StartRead
  <2>8. QED BY <2>4, <2>5, <2>6, <2>7 DEF ConnectionInv
<1>4. CASE /\ protocol' = TRUE /\ StartRead("header")
           /\ \E m \in Messages :
                /\ Queue(m, messageQueue = <<>>)
                /\ writeTimer' = IF messageQueue = <<>> THEN "armed" ELSE writeTimer
                /\ Close(FALSE, Append(messageQueue, m))
  BY <1>1, <1>4, AnswerStep DEF StartRead
<1>5. CASE /\ protocol' = TRUE /\ StartRead("header")
           /\ Close(FALSE, messageQueue)
           /\ writeTimer' = Timer(writeTimer, FALSE, messageQueue)
           /\ UNCHANGED <<writes, sent>>
  <2>1. writeTimer' \in {"off", "armed"}
    BY <1>2, <1>5, TimersAfterClose
  <2>2. /\ expired' \in 0 .. 2 /\ read' = "header" /\ readTimer' = "armed"
        /\ protocol' \in BOOLEAN /\ receivedFirst' \in BOOLEAN
    BY <1>1, <1>2, <1>5 DEF TypeOK, StartRead
  <2>3. QED BY <1>1, <1>5, <2>1, <2>2, ClosingStep
<1>6. CASE NoProtocol
  <2>1. writeTimer' \in {"off", "armed"}
    BY <1>2, <1>6, TimersAfterClose DEF NoProtocol
  <2>2. /\ expired' \in 0 .. 2 /\ read' = "none" /\ readTimer' = "off"
        /\ protocol' \in BOOLEAN /\ receivedFirst' \in BOOLEAN /\ protocol' = protocol
        /\ Close(TRUE, messageQueue) /\ UNCHANGED <<writes, sent>>
    BY <1>1, <1>2, <1>6 DEF TypeOK, NoProtocol
  <2>3. QED BY <1>1, <2>1, <2>2, ClosingStep
<1>7. QED BY <1>1, <1>3, <1>4, <1>5, <1>6 DEF HandMessage

LEMMA OnWriteOperationStep ==
  ASSUME ConnectionInv, OnWriteOperation
  PROVE  ConnectionInv'
<1>1. /\ TypeOK /\ DeliveryInv /\ AcceptInv /\ ReleaseComesLast
      /\ messageQueue \in Seq(Messages) /\ written \in Seq(Messages)
      /\ writes > 0 /\ messageQueue # <<>> /\ writes = 1
      /\ sent = written \o messageQueue
  BY DEF ConnectionInv, TypeOK, DeliveryInv, Dropped, OnWriteOperation, WriteTo
<1>2. /\ written' = Append(written, Head(messageQueue))
      /\ messageQueue' = Tail(messageQueue)
      /\ UNCHANGED <<peer, inManager, closed, protocol, receivedFirst, read, expired,
                 packets, posted, sent, ended>>
  BY DEF OnWriteOperation
<1>3. /\ Head(messageQueue) \in Messages /\ messageQueue' \in Seq(Messages)
      /\ Len(messageQueue') = Len(messageQueue) - 1
      /\ Len(messageQueue) \in Nat /\ Len(messageQueue) >= 1
      /\ messageQueue' = <<>> <=> Len(messageQueue') = 0
  <2>1. /\ Head(messageQueue) \in Messages /\ Tail(messageQueue) \in Seq(Messages)
        /\ Len(Tail(messageQueue)) = Len(messageQueue) - 1
        /\ Len(messageQueue) \in Nat /\ Len(messageQueue) # 0
    BY <1>1, HeadTailProperties, LenProperties, EmptySeq
  <2>2. Tail(messageQueue) = <<>> <=> Len(Tail(messageQueue)) = 0
    BY <2>1, EmptySeq
  <2>3. QED BY <1>2, <2>1, <2>2
<1>4. written' \in Seq(Messages) /\ sent' = written' \o messageQueue'
  BY <1>1, <1>2, <1>3, AppendProperties, WriteConcat
<1>5. IsPrefix(written', sent')
  BY <1>3, <1>4, PrefixOfConcat
<1>6. read # "accepting"
  BY <1>1 DEF AcceptInv
<1>7. CASE Len(messageQueue) > 1
  <2>1. writeTimer' = "armed" /\ UNCHANGED <<writes, socketClosed, readTimer>>
    BY <1>7 DEF OnWriteOperation
  <2>2. messageQueue' # <<>>
    BY <1>3, <1>7
  <2>3. DeliveryInv'
    BY <1>1, <1>2, <1>4, <1>5, <2>1, <2>2 DEF DeliveryInv
  <2>4. TypeOK'
    BY <1>1, <1>2, <1>3, <1>4, <2>1 DEF TypeOK
  <2>5. AcceptInv' /\ ReleaseComesLast'
    BY <1>1, <1>2, <1>6 DEF AcceptInv, ReleaseComesLast
  <2>6. QED BY <2>3, <2>4, <2>5 DEF ConnectionInv
<1>8. CASE Len(messageQueue) <= 1
  <2>1. /\ writes' = writes - 1 /\ writeTimer' = "off"
        /\ socketClosed' = (socketClosed \/ closed)
        /\ readTimer' = IF closed THEN "off" ELSE readTimer
    BY <1>3, <1>8 DEF OnWriteOperation
  <2>2. messageQueue' = <<>> /\ writes' = 0
    BY <1>1, <1>3, <1>8, <2>1
  <2>3. DeliveryInv'
    BY <1>1, <1>2, <1>4, <1>5, <2>1, <2>2 DEF DeliveryInv
  <2>4. TypeOK'
    <3>1. socketClosed' \in BOOLEAN /\ readTimer' \in {"off", "armed"}
      BY <1>1, <2>1 DEF TypeOK
    <3>2. read' = "none" => readTimer' = "off"
      BY <1>1, <1>2, <2>1 DEF TypeOK
    <3>3. QED BY <1>1, <1>2, <1>3, <1>4, <2>1, <2>2, <3>1, <3>2 DEF TypeOK
  <2>5. AcceptInv' /\ ReleaseComesLast'
    BY <1>1, <1>2, <1>6 DEF AcceptInv, ReleaseComesLast
  <2>6. QED BY <2>3, <2>4, <2>5 DEF ConnectionInv
<1>9. QED BY <1>3, <1>7, <1>8

LEMMA OnWriteErrorStep ==
  ASSUME ConnectionInv, OnWriteError
  PROVE  ConnectionInv'
<1>1. /\ TypeOK /\ DeliveryInv /\ AcceptInv /\ ReleaseComesLast
      /\ writes = 1 /\ messageQueue # <<>> /\ <<>> \in Seq(Messages)
      /\ peer = "reset" \/ socketClosed
  BY DEF ConnectionInv, DeliveryInv, OnWriteError, WriteTo, SocketOpen, Alive, TypeOK
<1>2. /\ writes' = 0 /\ writeTimer' = "off" /\ protocol' = protocol
      /\ readTimer' = Timer(readTimer, TRUE, <<>>) /\ Close(TRUE, <<>>)
      /\ UNCHANGED <<receivedFirst, read, expired, sent, peer, packets, written>>
  <2>1. writes' = writes - 1
    BY DEF OnWriteError
  <2>2. writes' = 0
    BY <1>1, <2>1
  <2>3. QED BY <2>2 DEF OnWriteError, ioVars
<1>3. /\ inManager' = FALSE /\ closed' = TRUE /\ socketClosed' \in BOOLEAN
      /\ messageQueue' = <<>>
      /\ ended' \in {"open", "graceful", "forced", "closeAll"}
      /\ readTimer' \in {"off", readTimer}
  BY <1>1, <1>2, CloseTypes
<1>4. ended' = IF ended # "open" THEN ended ELSE "forced"
  BY <1>2 DEF Close, CloseParts
<1>5. protocol' \in BOOLEAN
  BY <1>1, <1>2 DEF TypeOK
<1>6. ReleaseComesLast' /\ posted' \in TaskList
  BY <1>1, <1>2, <1>5, CloseReleases
<1>7. TypeOK'
  <2>1. /\ read' \in {"accepting", "none", "header", "headerDone", "body", "bodyDone"}
        /\ readTimer' \in {"off", "armed"} /\ (read' = "none" => readTimer' = "off")
        /\ writeTimer' \in {"off", "armed"}
        /\ expired' \in 0 .. 2 /\ packets' \in 0 .. MaxPackets
        /\ peer' \in {"active", "stalled", "reset"}
    BY <1>1, <1>2, <1>3 DEF TypeOK
  <2>2. /\ inManager' \in BOOLEAN /\ closed' \in BOOLEAN /\ receivedFirst' \in BOOLEAN
        /\ socketClosed' \in BOOLEAN /\ protocol' \in BOOLEAN
        /\ ended' \in {"open", "graceful", "forced", "closeAll"}
    BY <1>1, <1>2, <1>3, <1>5 DEF TypeOK
  <2>3. /\ messageQueue' \in Seq(Messages) /\ sent' \in Seq(Messages)
        /\ written' \in Seq(Messages)
        /\ posted' \in Seq({"onConnect", "message", "release"})
    BY <1>1, <1>2, <1>3, <1>6 DEF TypeOK, TaskList
  <2>4. writes' \in 0 .. 2
    BY <1>2
  <2>5. QED BY <2>1, <2>2, <2>3, <2>4 DEF TypeOK
<1>8. DeliveryInv'
  <2>1. ended' = "graceful" => peer = "reset"
    BY <1>1, <1>4 DEF DeliveryInv
  <2>2. Dropped'
    BY <1>2, <1>3, <2>1 DEF Dropped
  <2>3. QED BY <1>1, <1>2, <1>3, <1>4, <2>2 DEF DeliveryInv
<1>9. AcceptInv'
  BY <1>1, <1>2 DEF AcceptInv
<1>10. QED BY <1>6, <1>7, <1>8, <1>9 DEF ConnectionInv

LEMMA HandleTimeoutStep ==
  ASSUME ConnectionInv, HandleTimeout
  PROVE  ConnectionInv'
<1>1. /\ expired > 0 /\ expired' = expired - 1 /\ protocol' = protocol
      /\ UNCHANGED <<receivedFirst, read, writes, sent, peer, packets, written>>
  BY DEF HandleTimeout, ioVars
<1>2. TypeOK /\ expired' \in 0 .. 2 /\ read # "accepting"
  BY <1>1 DEF ConnectionInv, TypeOK, AcceptInv
<1>3. CASE CloseFromOutside(TRUE)
  <2>1. /\ Close(TRUE, messageQueue)
        /\ readTimer' = Timer(readTimer, TRUE, messageQueue)
        /\ writeTimer' = Timer(writeTimer, TRUE, messageQueue)
    BY <1>3 DEF CloseFromOutside
  <2>2. /\ readTimer' \in {"off", "armed"} /\ writeTimer' \in {"off", "armed"}
        /\ readTimer = "off" => readTimer' = "off"
    BY <1>2, <2>1, TimersAfterClose
  <2>3. /\ read' = "none" => readTimer' = "off"
        /\ protocol' \in BOOLEAN /\ receivedFirst' \in BOOLEAN
    BY <1>1, <1>2, <2>2 DEF TypeOK
  <2>4. QED BY <1>1, <1>2, <2>1, <2>2, <2>3, ClosingStep
<1>4. CASE UNCHANGED <<inManager, socketClosed, closed, readTimer, writeTimer,
                      messageQueue, posted, ended>>
  <2>1. TypeOK'
    BY <1>1, <1>2, <1>4 DEF TypeOK
  <2>2. DeliveryInv' /\ ReleaseComesLast' /\ AcceptInv'
    BY <1>1, <1>2, <1>4 DEF ConnectionInv, DeliveryInv, Dropped, ReleaseComesLast, AcceptInv
  <2>3. QED BY <2>1, <2>2 DEF ConnectionInv
<1>5. QED BY <1>3, <1>4 DEF HandleTimeout

LEMMA SendStep ==
  ASSUME ConnectionInv, NEW m \in Messages, Send(m)
  PROVE  ConnectionInv'
<1>1. /\ TypeOK /\ DeliveryInv /\ AcceptInv /\ ReleaseComesLast /\ ~closed
      /\ messageQueue \in Seq(Messages) /\ written \in Seq(Messages)
      /\ sent \in Seq(Messages) /\ sent = written \o messageQueue
      /\ read # "accepting"
  BY DEF ConnectionInv, TypeOK, DeliveryInv, Dropped, AcceptInv, Send
<1>2. /\ sent' = Append(sent, m) /\ messageQueue' = Append(messageQueue, m)
      /\ writes' = IF messageQueue = <<>> THEN writes + 1 ELSE writes
      /\ writeTimer' = IF messageQueue = <<>> THEN "armed" ELSE writeTimer
      /\ UNCHANGED <<inManager, socketClosed, closed, protocol, receivedFirst, read,
                 readTimer, expired, posted, ended, peer, packets, written>>
  BY DEF Send, Queue, StartsWrite, ioVars
<1>3. /\ sent' \in Seq(Messages) /\ messageQueue' \in Seq(Messages)
      /\ messageQueue' # <<>>
  BY <1>1, <1>2, AppendProperties
<1>4. sent' = written \o messageQueue' /\ IsPrefix(written, sent')
  <2>1. Append(written \o messageQueue, m) = written \o Append(messageQueue, m)
    BY <1>1, SendConcat
  <2>2. IsPrefix(written, written \o messageQueue')
    BY <1>1, <1>3, PrefixOfConcat
  <2>3. QED BY <1>1, <1>2, <2>1, <2>2
<1>5. writes' = 1
  BY <1>1, <1>2 DEF DeliveryInv
<1>6. DeliveryInv'
  BY <1>1, <1>2, <1>3, <1>4, <1>5 DEF DeliveryInv
<1>7. TypeOK'
  BY <1>1, <1>2, <1>3, <1>5 DEF TypeOK
<1>8. AcceptInv' /\ ReleaseComesLast'
  BY <1>1, <1>2 DEF AcceptInv, ReleaseComesLast
<1>9. QED BY <1>6, <1>7, <1>8 DEF ConnectionInv

LEMMA DisconnectStep ==
  ASSUME ConnectionInv, Disconnect
  PROVE  ConnectionInv'
<1>1. /\ protocol /\ protocol' = protocol
      /\ UNCHANGED <<receivedFirst, read, expired, writes, sent, peer, packets, written>>
  BY DEF Disconnect, ioVars
<1>2. TypeOK /\ read # "accepting"
  BY <1>1 DEF ConnectionInv, AcceptInv
<1>3. /\ Close(FALSE, messageQueue)
      /\ readTimer' = Timer(readTimer, FALSE, messageQueue)
      /\ writeTimer' = Timer(writeTimer, FALSE, messageQueue)
  BY DEF Disconnect, CloseFromOutside
<1>4. /\ readTimer' \in {"off", "armed"} /\ writeTimer' \in {"off", "armed"}
      /\ readTimer = "off" => readTimer' = "off"
  BY <1>2, <1>3, TimersAfterClose
<1>5. /\ read' = "none" => readTimer' = "off"
      /\ protocol' \in BOOLEAN /\ receivedFirst' \in BOOLEAN /\ expired' \in 0 .. 2
  BY <1>1, <1>2, <1>4 DEF TypeOK
<1>6. QED BY <1>1, <1>2, <1>3, <1>4, <1>5, ClosingStep

-----------------------------------------------------------------------------
LEMMA ConnectionStep == ConnectionInv /\ [Next]_vars => ConnectionInv'
<1> SUFFICES ASSUME ConnectionInv, [Next]_vars PROVE ConnectionInv'
  OBVIOUS
<1>0. TypeOK /\ DeliveryInv /\ AcceptInv /\ ReleaseComesLast
  BY DEF ConnectionInv
<1>1. CASE PeerFails
  <2>1. /\ peer = "active" /\ peer' \in {"stalled", "reset"}
        /\ UNCHANGED <<inManager, socketClosed, closed, protocol, receivedFirst, read,
                 readTimer, writeTimer, expired, messageQueue, writes, packets,
                 posted, sent, written, ended>>
    BY <1>1 DEF PeerFails
  <2>2. TypeOK' /\ DeliveryInv'
    BY <1>0, <2>1 DEF TypeOK, DeliveryInv, Dropped
  <2>3. AcceptInv' /\ ReleaseComesLast'
    BY <1>0, <2>1 DEF AcceptInv, ReleaseComesLast
  <2>4. QED BY <2>2, <2>3 DEF ConnectionInv
<1>2. CASE Receive
  <2>1. /\ read' \in {"headerDone", "bodyDone"} /\ packets' \in 0 .. MaxPackets
        /\ UNCHANGED <<peer, inManager, socketClosed, closed, protocol, receivedFirst,
                 readTimer, writeTimer, expired, messageQueue, writes, posted,
                 sent, written, ended>>
    BY <1>0, <1>2, BoundAssumption DEF Receive, TypeOK
  <2>2. TypeOK' /\ DeliveryInv'
    BY <1>0, <2>1 DEF TypeOK, DeliveryInv, Dropped
  <2>3. AcceptInv' /\ ReleaseComesLast'
    BY <1>0, <2>1 DEF AcceptInv, ReleaseComesLast
  <2>4. QED BY <2>2, <2>3 DEF ConnectionInv
<1>3. CASE Expire
  <2>1. /\ expired' \in 0 .. 2 /\ readTimer' \in {"off", readTimer}
        /\ writeTimer' \in {"off", writeTimer}
        /\ readTimer = "armed" \/ writeTimer = "armed"
        /\ UNCHANGED <<peer, inManager, socketClosed, closed, protocol, receivedFirst,
                 read, messageQueue, writes, packets, posted, sent, written, ended>>
    BY <1>0, <1>3 DEF Expire, TypeOK
  <2>2. TypeOK' /\ DeliveryInv'
    BY <1>0, <2>1 DEF TypeOK, DeliveryInv, Dropped
  <2>3. AcceptInv' /\ ReleaseComesLast'
    BY <1>0, <2>1 DEF AcceptInv, ReleaseComesLast
  <2>4. QED BY <2>2, <2>3 DEF ConnectionInv
<1>4. CASE CloseAll
  <2>1. /\ inManager /\ inManager' = FALSE /\ socketClosed' = TRUE /\ ended' = "closeAll"
        /\ UNCHANGED <<closed, protocol, receivedFirst, read, readTimer, writeTimer,
                 expired, messageQueue, writes, posted, sent, peer, packets, written>>
    BY <1>4 DEF CloseAll, ioVars
  <2>2. TypeOK'
    BY <1>0, <2>1 DEF TypeOK
  <2>3. DeliveryInv'
    BY <1>0, <2>1 DEF DeliveryInv, Dropped
  <2>4. AcceptInv' /\ ReleaseComesLast'
    BY <1>0, <2>1 DEF AcceptInv, ReleaseComesLast
  <2>5. QED BY <2>2, <2>3, <2>4 DEF ConnectionInv
<1>5. CASE UNCHANGED vars
  <2>1. UNCHANGED <<peer, inManager, socketClosed, closed, protocol, receivedFirst, read,
                    readTimer, writeTimer, expired, messageQueue, writes, packets, posted,
                    sent, written, ended>>
    BY <1>5 DEF vars
  <2>2. TypeOK' /\ DeliveryInv'
    BY <1>0, <2>1 DEF TypeOK, DeliveryInv, Dropped
  <2>3. AcceptInv' /\ ReleaseComesLast'
    BY <1>0, <2>1 DEF AcceptInv, ReleaseComesLast
  <2>4. QED BY <2>2, <2>3 DEF ConnectionInv
<1>6. CASE IoThread
  BY <1>6, AcceptStep, ReadEndsStep, ParseHeaderStep, ParsePacketStep,
     OnWriteOperationStep, OnWriteErrorStep, HandleTimeoutStep DEF IoThread
<1>7. CASE Disconnect \/ \E m \in Messages : Send(m)
  BY <1>7, SendStep, DisconnectStep
<1>8. QED BY <1>1, <1>2, <1>3, <1>4, <1>5, <1>6, <1>7 DEF Next

LEMMA InvariantHolds == Spec => []ConnectionInv
<1>1. Init => ConnectionInv
  <2> SUFFICES ASSUME Init PROVE ConnectionInv
    OBVIOUS
  <2>1. /\ messageQueue = <<>> /\ sent = <<>> /\ written = <<>> /\ posted = <<>>
        /\ peer = "active" /\ read = "accepting" /\ readTimer = "off"
        /\ writeTimer = "off" /\ ended = "open"
        /\ expired = 0 /\ writes = 0 /\ packets = 0
        /\ ~closed /\ ~socketClosed /\ ~protocol
    BY DEF Init
  <2>2. TypeOK
    <3>1. /\ inManager \in BOOLEAN /\ socketClosed \in BOOLEAN /\ closed \in BOOLEAN
          /\ protocol \in BOOLEAN /\ receivedFirst \in BOOLEAN
      BY Zenon DEF Init
    <3>2. QED BY <2>1, <3>1, BoundAssumption DEF TypeOK
  <2>3. DeliveryInv
    <3>1. <<>> \in Seq(Messages) /\ <<>> \o <<>> = <<>>
      BY EmptySeq, ConcatEmptySeq
    <3>2. IsPrefix(written, sent) /\ sent = written \o messageQueue
      BY <2>1, <3>1, PrefixOfConcat
    <3>3. QED BY <2>1, <3>2 DEF DeliveryInv
  <2>4. AcceptInv /\ ReleaseComesLast
    BY <2>1 DEF AcceptInv, ReleaseComesLast, ToSet
  <2>5. QED BY <2>2, <2>3, <2>4 DEF ConnectionInv
<1>2. QED BY <1>1, ConnectionStep, PTL DEF Spec

-----------------------------------------------------------------------------
(* The theorems.                                                           *)

(* Every variable keeps the type the code declares; a connection that does *)
(* not read has no read timer running.                                     *)
THEOREM TypeCorrect == Spec => []TypeOK
<1>1. ConnectionInv => TypeOK
  BY DEF ConnectionInv
<1>2. QED BY <1>1, InvariantHolds, PTL

(* The socket takes the messages in the order send() queued them, one      *)
(* write at a time, and onWriteOperation never pops an empty list.         *)
THEOREM WriteCorrect == Spec => []WritesInOrder
<1>1. ConnectionInv => WritesInOrder
  BY DEF ConnectionInv, DeliveryInv, WritesInOrder
<1>2. QED BY <1>1, InvariantHolds, PTL

(* Whoever closes, and however often: release is posted once, when the     *)
(* connection with its protocol is closed, and no task after it.           *)
THEOREM ReleaseCorrect == Spec => []ReleaseComesLast
<1>1. ConnectionInv => ReleaseComesLast
  BY DEF ConnectionInv
<1>2. QED BY <1>1, InvariantHolds, PTL

(* A graceful close leaves no message unwritten unless the network failed, *)
(* also when the destructor is what closes the socket.                     *)
THEOREM GracefulCorrect == Spec => []GracefulCloseDelivers
<1>1. ConnectionInv => GracefulCloseDelivers
  <2> SUFFICES ASSUME ConnectionInv, ended = "graceful", peer # "reset", ~SocketOpen
               PROVE  written = sent
    BY DEF GracefulCloseDelivers
  <2>1. /\ DeliveryInv /\ written \in Seq(Messages)
        /\ sent = written \o messageQueue
    BY DEF ConnectionInv, TypeOK, DeliveryInv, Dropped
  <2>2. messageQueue = <<>>
    BY <2>1 DEF DeliveryInv, SocketOpen, Alive
  <2>3. QED BY <2>1, <2>2, ConcatEmptySeq
<1>2. QED BY <1>1, InvariantHolds, PTL

-----------------------------------------------------------------------------
(* Induction over the natural numbers, for a set and not for a predicate.  *)
LEMMA LeastElement ==
  ASSUME NEW T \in SUBSET Nat, T # {}
  PROVE  \E n \in T : \A k \in T : n <= k
<1>1. IsWellFoundedOn(OpToRel(<, Nat), Nat)
  BY NatLessThanWellFounded
<1>2. PICK n \in T : \A k \in T : ~(<<k, n>> \in OpToRel(<, Nat))
  BY <1>1, WFMin
<1>3. \A k \in T : ~(k < n)
  BY <1>2 DEF OpToRel
<1> QED BY <1>3

LEMMA NatInSet ==
  ASSUME NEW S, 0 \in S, \A n \in Nat : n \in S => n + 1 \in S
  PROVE  Nat \subseteq S
<1> SUFFICES ASSUME Nat \ S # {} PROVE FALSE
  OBVIOUS
<1>1. PICK n \in Nat \ S : \A k \in Nat \ S : n <= k
  BY LeastElement
<1>2. n # 0 /\ n - 1 \in Nat
  BY <1>1
<1>3. n - 1 \in S
  BY <1>1, <1>2
<1>4. (n - 1) + 1 \in S
  BY <1>2, <1>3
<1> QED BY <1>1, <1>4

-----------------------------------------------------------------------------
(* The waiting list: what each of its operations leaves of a list.         *)

\* s is what is left of the list: nobody new, and nobody twice
Leaves(list, s) ==
  /\ s \in Seq(Entry)
  /\ Guids(s) \subseteq Guids(list) \cup {NoPlayer}
  /\ Unique(list) => Unique(s)

LEMMA EntryFacts ==
  ASSUME NEW list \in Seq(Entry)
  PROVE  /\ Len(list) \in Nat /\ DOMAIN list = 1 .. Len(list)
         /\ \A i \in 1 .. Len(list) : list[i] \in Entry
         /\ \A i \in 1 .. Len(list) : /\ list[i].left \in 0 .. 27
                                      /\ list[i].guid \in Players \cup {NoPlayer}
<1>1. /\ Len(list) \in Nat /\ DOMAIN list = 1 .. Len(list)
      /\ \A i \in 1 .. Len(list) : list[i] \in Entry
  OBVIOUS
<1>2. \A e \in Entry : e.left \in 0 .. 27 /\ e.guid \in Players \cup {NoPlayer}
  BY DEF Entry
<1> QED BY <1>1, <1>2

\* the recursive function of CleanUp exists
Walk(list, N, f) ==
  f = [n \in 0 .. N |->
         IF n = 0 THEN <<>>
         ELSE IF list[n].left > 0 THEN Append(f[n - 1], list[n]) ELSE f[n - 1]]

LEMMA WalkFunction ==
  ASSUME NEW list, NEW N \in Nat
  PROVE  \E f : Walk(list, N, f)
<1> DEFINE P(f, m) == Walk(list, m, f)
           J == {m \in Nat : \E f : P(f, m)}
<1>1. 0 \in J
  <2> DEFINE f == [n \in 0 .. 0 |-> <<>>]
  <2>1. P(f, 0)
    BY DEF Walk
  <2> HIDE DEF P, f
  <2> QED BY <2>1
<1>2. ASSUME NEW m \in Nat, m \in J PROVE m + 1 \in J
  <2>1. PICK f : P(f, m)
    BY <1>2
  <2> DEFINE last1 == IF list[m + 1].left > 0 THEN Append(f[m], list[m + 1]) ELSE f[m]
             g == [n \in 0 .. m + 1 |-> IF n = m + 1 THEN last1 ELSE f[n]]
  <2>2. ASSUME NEW n \in 0 .. m + 1
        PROVE  g[n] = IF n = 0 THEN <<>>
                      ELSE IF list[n].left > 0 THEN Append(g[n - 1], list[n]) ELSE g[n - 1]
    <3>1. CASE n = m + 1
      <4>1. n # 0 /\ n - 1 = m /\ m \in 0 .. m + 1 /\ m # m + 1
        BY <3>1
      <4>2. g[n] = last1 /\ g[n - 1] = f[m]
        BY <3>1, <4>1
      <4> QED BY <3>1, <4>1, <4>2
    <3>2. CASE n # m + 1
      <4>1. n \in 0 .. m /\ g[n] = f[n]
        BY <3>2
      <4>2. CASE n = 0
        BY <2>1, <4>1, <4>2 DEF Walk
      <4>3. CASE n # 0
        <5>1. n - 1 \in 0 .. m /\ n - 1 \in 0 .. m + 1 /\ n - 1 # m + 1
          BY <4>1, <4>3
        <5>2. g[n - 1] = f[n - 1]
          BY <5>1
        <5> HIDE DEF g
        <5> QED BY <2>1, <4>1, <4>3, <5>2 DEF Walk
      <4> QED BY <4>2, <4>3
    <3> QED BY <3>1, <3>2
  <2>3. P(g, m + 1)
    <3>1. g = [n \in 0 .. m + 1 |-> g[n]]
      OBVIOUS
    <3> HIDE DEF g
    <3> QED BY <2>2, <3>1 DEF Walk
  <2> HIDE DEF P, g
  <2> QED BY <2>3
<1> HIDE DEF P, J
<1>3. N \in J
  BY <1>1, <1>2, NatInSet
<1> QED BY <1>3 DEF P, J

LEMMA AppendLeaves ==
  ASSUME NEW s \in Seq(Entry), NEW e \in Entry, Unique(s),
         e.guid # NoPlayer => e.guid \notin Guids(s)
  PROVE  /\ Append(s, e) \in Seq(Entry)
         /\ Guids(Append(s, e)) = Guids(s) \cup {e.guid}
         /\ Unique(Append(s, e))
<1> DEFINE t == Append(s, e)
<1>1. /\ t \in Seq(Entry) /\ Len(t) = Len(s) + 1
      /\ \A i \in 1 .. Len(s) : t[i] = s[i]
      /\ t[Len(s) + 1] = e
  BY AppendProperties
<1>2. Len(s) \in Nat /\ DOMAIN s = 1 .. Len(s) /\ DOMAIN t = 1 .. Len(s) + 1
  BY <1>1, EntryFacts
<1> HIDE DEF t
<1>3. Guids(t) = Guids(s) \cup {e.guid}
  BY <1>1, <1>2 DEF Guids
<1>4. Unique(t)
  <2> SUFFICES ASSUME NEW i \in 1 .. Len(s) + 1, NEW j \in 1 .. Len(s) + 1,
                      t[i].guid = t[j].guid, t[i].guid # NoPlayer
               PROVE  i = j
    BY <1>2 DEF Unique
  <2>1. \A k \in 1 .. Len(s) : s[k].guid \in Guids(s)
    BY <1>2 DEF Guids
  <2>2. CASE i = Len(s) + 1 \/ j = Len(s) + 1
    BY <1>1, <1>2, <2>1, <2>2
  <2>3. CASE i # Len(s) + 1 /\ j # Len(s) + 1
    <3>1. i \in 1 .. Len(s) /\ j \in 1 .. Len(s)
      BY <1>2, <2>3
    <3> QED BY <1>1, <1>2, <3>1 DEF Unique
  <2> QED BY <2>2, <2>3
<1> QED BY <1>1, <1>3, <1>4 DEF t

LEMMA CleanUpLeaves ==
  ASSUME NEW list \in Seq(Entry)
  PROVE  Leaves(list, CleanUp(list))
<1> DEFINE N == Len(list)
           P(f) == f = [n \in 0 .. N |->
                          IF n = 0 THEN <<>>
                          ELSE IF list[n].left > 0 THEN Append(f[n - 1], list[n]) ELSE f[n - 1]]
           g == CHOOSE f : P(f)
           upto(n) == {list[i].guid : i \in 1 .. n}
           I == {n \in Nat : n <= N => /\ g[n] \in Seq(Entry) /\ Guids(g[n]) \subseteq upto(n)
                                       /\ Unique(list) => Unique(g[n])}
<1>1. /\ N \in Nat /\ DOMAIN list = 1 .. N
      /\ \A i \in 1 .. N : list[i] \in Entry
  BY EntryFacts
<1>2. CleanUp(list) = g[N]
  BY DEF CleanUp
<1>3. upto(N) = Guids(list)
  BY <1>1 DEF Guids
<1> HIDE DEF N
<1>4. P(g)
  <2>1. \E f : Walk(list, N, f)
    BY <1>1, WalkFunction
  <2>2. \A f : Walk(list, N, f) <=> P(f)
    BY DEF Walk
  <2> HIDE DEF P
  <2> QED BY <2>1, <2>2
<1> HIDE DEF g
<1>5. 0 \in I
  <2>1. g[0] = <<>>
    BY <1>1, <1>4
  <2>2. <<>> \in Seq(Entry) /\ Guids(<<>>) = {} /\ Unique(<<>>)
    BY DEF Guids, Unique
  <2> HIDE DEF P
  <2> QED BY <2>1, <2>2
<1>6. ASSUME NEW n \in Nat, n \in I PROVE n + 1 \in I
  <2> SUFFICES ASSUME n + 1 <= N
               PROVE  /\ g[n + 1] \in Seq(Entry) /\ Guids(g[n + 1]) \subseteq upto(n + 1)
                      /\ Unique(list) => Unique(g[n + 1])
    OBVIOUS
  <2>1. n <= N /\ n + 1 \in 1 .. N /\ n + 1 \in 0 .. N /\ n + 1 # 0 /\ (n + 1) - 1 = n
    BY <1>1
  <2>2. /\ g[n] \in Seq(Entry) /\ Guids(g[n]) \subseteq upto(n)
        /\ Unique(list) => Unique(g[n])
    BY <1>6, <2>1
  <2>3. g[n + 1] = IF list[n + 1].left > 0 THEN Append(g[n], list[n + 1]) ELSE g[n]
    BY <1>4, <2>1
  <2>4. upto(n + 1) = upto(n) \cup {list[n + 1].guid}
    BY <2>1
  <2> DEFINE e == list[n + 1]
  <2>5. e \in Entry
    BY <1>1, <2>1
  <2>6. Unique(list) => (e.guid # NoPlayer => e.guid \notin upto(n))
    BY <1>1, <2>1 DEF Unique
  <2> HIDE DEF e, P, I, upto
  <2>7. CASE list[n + 1].left > 0
    <3>1. g[n + 1] = Append(g[n], e)
      BY <2>3, <2>7 DEF e
    <3>2. Append(g[n], e) \in Seq(Entry)
      BY <2>2, <2>5, AppendProperties
    <3>3. Guids(Append(g[n], e)) \subseteq Guids(g[n]) \cup {e.guid}
      <4>1. /\ Len(Append(g[n], e)) = Len(g[n]) + 1 /\ Len(g[n]) \in Nat
            /\ \A i \in 1 .. Len(g[n]) : Append(g[n], e)[i] = g[n][i]
            /\ Append(g[n], e)[Len(g[n]) + 1] = e
            /\ DOMAIN g[n] = 1 .. Len(g[n])
            /\ DOMAIN Append(g[n], e) = 1 .. Len(g[n]) + 1
        BY <2>2, <2>5, <3>2, AppendProperties, EntryFacts
      <4> QED BY <4>1 DEF Guids
    <3>4. Unique(list) => Unique(Append(g[n], e))
      BY <2>2, <2>5, <2>6, AppendLeaves
    <3> QED BY <2>2, <2>4, <3>1, <3>2, <3>3, <3>4 DEF e
  <2>8. CASE ~(list[n + 1].left > 0)
    BY <2>2, <2>3, <2>4, <2>8
  <2> QED BY <2>7, <2>8
<1> HIDE DEF I
<1>7. N \in I
  BY <1>1, <1>5, <1>6, NatInSet
<1>8. /\ g[N] \in Seq(Entry) /\ Guids(g[N]) \subseteq upto(N)
      /\ Unique(list) => Unique(g[N])
  <2> HIDE DEF P, upto
  <2> QED BY <1>1, <1>7 DEF I
<1> QED BY <1>2, <1>3, <1>8 DEF Leaves

LEMMA FindFacts ==
  ASSUME NEW list \in Seq(Entry), NEW p \in Guids(list)
  PROVE  Find(list, p) \in 1 .. Len(list) /\ list[Find(list, p)].guid = p
BY EntryFacts DEF Find, Guids

\* findClient finds whoever is listed, and says 0 of anybody else only
LEMMA SlotFacts ==
  ASSUME NEW prio \in Seq(Entry), NEW normal \in Seq(Entry), NEW p
  PROVE  /\ ListedSlot(p, prio, normal) \in Nat
         /\ ListedSlot(p, prio, normal) > 0 <=> p \in Guids(prio) \cup Guids(normal)
<1>1. Len(prio) \in Nat /\ Len(normal) \in Nat
  BY EntryFacts
<1>2. CASE p \in Guids(prio)
  BY <1>1, <1>2, FindFacts DEF ListedSlot, SlotIn
<1>3. CASE p \notin Guids(prio) /\ p \in Guids(normal)
  BY <1>1, <1>3, FindFacts DEF ListedSlot, SlotIn
<1>4. CASE p \notin Guids(prio) /\ p \notin Guids(normal)
  BY <1>4 DEF ListedSlot
<1> QED BY <1>2, <1>3, <1>4

LEMMA WithoutLeaves ==
  ASSUME NEW list \in Seq(Entry), NEW p \in Players
  PROVE  /\ Leaves(list, Without(list, p))
         /\ Unique(list) => p \notin Guids(Without(list, p))
<1>1. CASE p \notin Guids(list)
  BY <1>1 DEF Without, Leaves
<1>2. CASE p \in Guids(list)
  <2> DEFINE k == Find(list, p)
             a == SubSeq(list, 1, k - 1)
             b == SubSeq(list, k + 1, Len(list))
             s == Without(list, p)
  <2>1. k \in 1 .. Len(list) /\ list[k].guid = p /\ p # NoPlayer
    BY <1>2, FindFacts, PlayersAssumption
  <2>2. s = a \o b
    BY <1>2 DEF Without, RemoveAt
  <2> HIDE DEF k
  <2>3. /\ Len(list) \in Nat /\ DOMAIN list = 1 .. Len(list)
        /\ \A i \in 1 .. Len(list) : list[i] \in Entry
    BY EntryFacts
  <2>4. /\ a \in Seq(Entry) /\ Len(a) = k - 1
        /\ \A i \in 1 .. k - 1 : a[i] = list[i]
    <3>1. /\ a \in Seq(Entry) /\ Len(a) = IF 1 <= k - 1 THEN k - 1 - 1 + 1 ELSE 0
          /\ \A i \in 1 .. k - 1 - 1 + 1 : a[i] = list[1 + i - 1]
      BY <2>1, <2>3, SubSeqProperties
    <3> HIDE DEF a
    <3> QED BY <2>1, <2>3, <3>1
  <2>5. /\ b \in Seq(Entry) /\ Len(b) = Len(list) - k
        /\ \A i \in 1 .. Len(list) - k : b[i] = list[k + i]
    <3>1. /\ b \in Seq(Entry)
          /\ Len(b) = IF k + 1 <= Len(list) THEN Len(list) - (k + 1) + 1 ELSE 0
          /\ \A i \in 1 .. Len(list) - (k + 1) + 1 : b[i] = list[(k + 1) + i - 1]
      BY <2>1, <2>3, SubSeqProperties
    <3> HIDE DEF b
    <3>2. Len(b) = Len(list) - k
      <4>1. Len(b) = IF k + 1 <= Len(list) THEN Len(list) - (k + 1) + 1 ELSE 0
        BY <3>1
      <4>2. Len(list) \in Nat /\ k \in 1 .. Len(list)
        BY <2>1, <2>3
      <4>3. CASE k + 1 <= Len(list)
        BY <4>1, <4>2, <4>3
      <4>4. CASE ~(k + 1 <= Len(list))
        BY <4>1, <4>2, <4>4
      <4> QED BY <4>3, <4>4
    <3>3. Len(list) - (k + 1) + 1 = Len(list) - k
      BY <2>1, <2>3
    <3>4. \A i \in 1 .. Len(list) - k : (k + 1) + i - 1 = k + i
      BY <2>1, <2>3
    <3> QED BY <3>1, <3>2, <3>3, <3>4
  <2> HIDE DEF a, b, s
  <2>6. /\ s \in Seq(Entry) /\ Len(s) = Len(list) - 1
        /\ \A i \in 1 .. Len(list) - 1 : s[i] = IF i < k THEN list[i] ELSE list[i + 1]
    <3>1. /\ a \o b \in Seq(Entry) /\ Len(a \o b) = Len(a) + Len(b)
          /\ \A i \in 1 .. Len(a) + Len(b) :
               (a \o b)[i] = IF i <= Len(a) THEN a[i] ELSE b[i - Len(a)]
      BY <2>4, <2>5, ConcatProperties
    <3> QED BY <2>1, <2>2, <2>3, <2>4, <2>5, <3>1
  <2>7. DOMAIN s = 1 .. Len(list) - 1
    BY <2>6, EntryFacts
  <2>8. Guids(s) \subseteq Guids(list)
    <3> SUFFICES ASSUME NEW i \in 1 .. Len(list) - 1 PROVE s[i].guid \in Guids(list)
      BY <2>7 DEF Guids
    <3>1. i \in 1 .. Len(list) /\ i + 1 \in 1 .. Len(list)
      BY <2>3
    <3>2. s[i] = list[i] \/ s[i] = list[i + 1]
      BY <2>6
    <3> QED BY <2>3, <3>1, <3>2 DEF Guids
  <2>9. ASSUME Unique(list) PROVE Unique(s) /\ p \notin Guids(s)
    <3> DEFINE up(i) == IF i < k THEN i ELSE i + 1
    <3>1. \A i \in 1 .. Len(list) - 1 : /\ up(i) \in 1 .. Len(list) /\ up(i) # k
                                        /\ s[i] = list[up(i)]
      BY <2>1, <2>3, <2>6
    <3>2. \A i, j \in 1 .. Len(list) - 1 : up(i) = up(j) => i = j
      BY <2>1, <2>3
    <3> HIDE DEF up
    <3>3. \A i, j \in 1 .. Len(list) :
            list[i].guid = list[j].guid /\ list[i].guid # NoPlayer => i = j
      BY <2>3, <2>9 DEF Unique
    <3>4. Unique(s)
      <4> SUFFICES ASSUME NEW i \in 1 .. Len(list) - 1, NEW j \in 1 .. Len(list) - 1,
                          s[i].guid = s[j].guid, s[i].guid # NoPlayer
                   PROVE  i = j
        BY <2>7 DEF Unique
      <4>1. /\ up(i) \in 1 .. Len(list) /\ up(j) \in 1 .. Len(list)
            /\ s[i] = list[up(i)] /\ s[j] = list[up(j)]
        BY <3>1
      <4>2. up(i) = up(j)
        BY <3>3, <4>1
      <4> QED BY <3>2, <4>2
    <3>5. p \notin Guids(s)
      <4> SUFFICES ASSUME NEW i \in 1 .. Len(list) - 1, s[i].guid = p PROVE FALSE
        BY <2>7 DEF Guids
      <4>1. up(i) \in 1 .. Len(list) /\ up(i) # k /\ s[i] = list[up(i)]
        BY <3>1
      <4> QED BY <2>1, <3>3, <4>1
    <3> QED BY <3>4, <3>5
  <2> QED BY <2>6, <2>8, <2>9 DEF Leaves, s
<1> QED BY <1>1, <1>2

LEMMA WaitOnLeaves ==
  ASSUME NEW list \in Seq(Entry), NEW p \in Players
  PROVE  Leaves(list, WaitOn(list, p))
<1> DEFINE s == WaitOn(list, p)
<1>1. /\ Len(list) \in Nat /\ DOMAIN list = 1 .. Len(list)
      /\ \A i \in 1 .. Len(list) : list[i] \in Entry
  BY EntryFacts
<1>2. /\ DOMAIN s = 1 .. Len(list)
      /\ \A i \in 1 .. Len(list) :
           s[i] = IF list[i].guid = p THEN [list[i] EXCEPT !.guid = NoPlayer] ELSE list[i]
  BY <1>1 DEF WaitOn
<1>3. s \in Seq(Entry)
  <2>1. \A i \in 1 .. Len(list) : s[i] \in Entry
    BY <1>1, <1>2 DEF Entry
  <2>2. s = [i \in 1 .. Len(list) |-> s[i]]
    BY <1>1 DEF WaitOn
  <2> HIDE DEF s
  <2> QED BY <1>1, <2>1, <2>2
<1> HIDE DEF s
<1>4. \A i \in 1 .. Len(list) : s[i].guid = IF list[i].guid = p THEN NoPlayer ELSE list[i].guid
  BY <1>1, <1>2 DEF Entry
<1>5. Guids(s) \subseteq Guids(list) \cup {NoPlayer}
  BY <1>1, <1>2, <1>4 DEF Guids
<1>6. Unique(list) => Unique(s)
  BY <1>1, <1>2, <1>4 DEF Unique
<1> QED BY <1>3, <1>5, <1>6 DEF Leaves, s

LEMMA AgedLeaves ==
  ASSUME NEW list \in Seq(Entry)
  PROVE  Leaves(list, Aged(list)) /\ (list = <<>> => Aged(list) = <<>>)
<1> DEFINE s == Aged(list)
<1>1. /\ Len(list) \in Nat /\ DOMAIN list = 1 .. Len(list)
      /\ \A i \in 1 .. Len(list) : list[i] \in Entry
  BY EntryFacts
<1>2. /\ DOMAIN s = 1 .. Len(list)
      /\ \A i \in 1 .. Len(list) :
           s[i] = [list[i] EXCEPT !.left = IF list[i].left = 0 THEN 0 ELSE list[i].left - 1]
  BY <1>1 DEF Aged
<1>3. s \in Seq(Entry)
  <2>1. ASSUME NEW i \in 1 .. Len(list) PROVE s[i] \in Entry
    <3>1. list[i] \in Entry /\ list[i].left \in 0 .. 27
      BY <1>1, EntryFacts
    <3>2. (IF list[i].left = 0 THEN 0 ELSE list[i].left - 1) \in 0 .. 27
      BY <3>1
    <3> QED BY <1>2, <3>1, <3>2 DEF Entry
  <2>2. s = [i \in 1 .. Len(list) |-> s[i]]
    BY <1>1 DEF Aged
  <2> HIDE DEF s
  <2> QED BY <1>1, <2>1, <2>2
<1>4. list = <<>> => s = <<>>
  BY DEF Aged
<1> HIDE DEF s
<1>5. \A i \in 1 .. Len(list) : s[i].guid = list[i].guid
  BY <1>1, <1>2 DEF Entry
<1>6. Guids(s) \subseteq Guids(list)
  BY <1>1, <1>2, <1>5 DEF Guids
<1>7. Unique(list) => Unique(s)
  BY <1>1, <1>2, <1>5 DEF Unique
<1> QED BY <1>3, <1>4, <1>6, <1>7 DEF Leaves, s

-----------------------------------------------------------------------------
(* The inductive invariant: those who can always log in are never listed,  *)
(* and without a limit nobody is.                                          *)

\* the lists as they may be while those of on are online
Lists(prio, normal, on) ==
  /\ prio \in Seq(Entry) /\ normal \in Seq(Entry)
  /\ Unique(prio) /\ Unique(normal)
  /\ Guids(prio) \cap Guids(normal) \subseteq {NoPlayer}
  /\ (Guids(prio) \cup Guids(normal)) \cap (on \cup Privileged) = {}
  /\ MaxPlayers = 0 => prio = <<>> /\ normal = <<>>

WaitInv ==
  /\ WaitTypeOK
  /\ (Guids(priorityWaitList) \cup Guids(waitList)) \cap Privileged = {}
  /\ MaxPlayers = 0 => priorityWaitList = <<>> /\ waitList = <<>>

LEMMA WaitParts ==
  WaitInv <=>
    /\ Lists(priorityWaitList, waitList, online)
    /\ online \subseteq Players /\ tried \subseteq Players
    /\ last \in [guid : Players \cup {NoPlayer}, slot : Nat]
BY DEF WaitInv, WaitTypeOK, Lists

LEMMA WaitNextParts ==
  ASSUME Lists(priorityWaitList', waitList', online'),
         online' \subseteq Players, tried' \subseteq Players,
         last' \in [guid : Players \cup {NoPlayer}, slot : Nat]
  PROVE  WaitInv'
BY DEF WaitInv, WaitTypeOK, Lists, Unique, Guids

LEMMA ListsLeave ==
  ASSUME NEW prio, NEW normal, NEW on, Lists(prio, normal, on), on \subseteq Players,
         NEW r, Leaves(prio, r), NEW s, Leaves(normal, s),
         MaxPlayers = 0 => r = <<>> /\ s = <<>>
  PROVE  Lists(r, s, on)
<1>1. NoPlayer \notin on \cup Privileged
  BY PlayersAssumption
<1> QED BY <1>1 DEF Lists, Leaves

LEMMA CleanUpEmpty == CleanUp(<<>>) = <<>>
<1> DEFINE f == [n \in 0 .. 0 |-> <<>>]
           P(g) == g = [n \in 0 .. 0 |->
                          IF n = 0 THEN <<>>
                          ELSE IF <<>>[n].left > 0 THEN Append(g[n - 1], <<>>[n]) ELSE g[n - 1]]
           h == CHOOSE g : P(g)
<1>1. P(f)
  OBVIOUS
<1>2. P(h)
  <2> HIDE DEF P, f
  <2> QED BY <1>1
<1>3. CleanUp(<<>>) = h[0]
  BY DEF CleanUp
<1> HIDE DEF h
<1> QED BY <1>2, <1>3

LEMMA CleanLists ==
  ASSUME WaitInv
  PROVE  Lists(CleanUp(priorityWaitList), CleanUp(waitList), online)
<1>1. Lists(priorityWaitList, waitList, online) /\ online \subseteq Players
  BY WaitParts
<1>2. Leaves(priorityWaitList, CleanUp(priorityWaitList)) /\ Leaves(waitList, CleanUp(waitList))
  BY <1>1, CleanUpLeaves DEF Lists
<1>3. MaxPlayers = 0 => CleanUp(priorityWaitList) = <<>> /\ CleanUp(waitList) = <<>>
  BY <1>1, CleanUpEmpty DEF Lists
<1> QED BY <1>1, <1>2, <1>3, ListsLeave

-----------------------------------------------------------------------------
(* clientLogin.                                                            *)

\* the ways a client without privilege takes, prio and normal being what
\* cleanupList left
Newcomer(p, prio, normal, placed) ==
  DirectAccess(prio, normal) /\ Lets(p, prio, normal, placed)

Admitted(p, prio, normal, placed) ==
  /\ p \in Guids(prio) \cup Guids(normal) /\ HasRoom(ListedSlot(p, prio, normal))
  /\ Lets(p, Without(prio, p), Without(normal, p), placed)

WaitsOn(p, prio, normal) ==
  /\ MaxPlayers # 0 /\ ListedSlot(p, prio, normal) > 0
  /\ Refuses(p, WaitOn(prio, p), WaitOn(normal, p), ListedSlot(p, prio, normal))

Queues(p, prio, normal) ==
  /\ MaxPlayers # 0 /\ p \notin Guids(prio) \cup Guids(normal)
  /\ \E new \in Nat, e \in Entry :
       /\ e.guid = p
       /\ \/ Refuses(p, Append(prio, e), normal, new)
          \/ Refuses(p, prio, Append(normal, e), new)

Tries(p, placed) ==
  /\ p \notin online /\ tried' = tried \cup {p}
  /\ \/ p \in Privileged /\ Lets(p, priorityWaitList, waitList, placed)
     \/ /\ p \notin Privileged
        /\ LET prio == CleanUp(priorityWaitList)
               normal == CleanUp(waitList)
           IN  \/ Newcomer(p, prio, normal, placed) \/ Admitted(p, prio, normal, placed)
               \/ WaitsOn(p, prio, normal) \/ Queues(p, prio, normal)

LEMMA TimeoutFacts == ASSUME NEW slot \in Nat PROVE Timeout(slot) \in 0 .. 27
BY DEF Timeout, WaitTime

LEMMA TryCases ==
  ASSUME WaitInv, NEW p \in Players, NEW placed \in BOOLEAN, TryLogin(p, placed)
  PROVE  Tries(p, placed)
<1> DEFINE prio == CleanUp(priorityWaitList)
           normal == CleanUp(waitList)
           slot == ListedSlot(p, prio, normal)
           new == Len(prio) + 1 + (IF p \in Premium THEN 0 ELSE Len(normal))
           entry == [left |-> Timeout(new), guid |-> p]
           D == DirectAccess(prio, normal)
<1>1. p \notin online /\ tried' = tried \cup {p}
  BY DEF TryLogin
<1>2. CASE p \in Privileged
  BY <1>1, <1>2 DEF TryLogin, Tries
<1>3. CASE p \notin Privileged
  <2>1. \/ D /\ Lets(p, prio, normal, placed)
        \/ /\ ~D /\ slot > 0 /\ HasRoom(slot)
           /\ Lets(p, Without(prio, p), Without(normal, p), placed)
        \/ ~D /\ slot > 0 /\ Refuses(p, WaitOn(prio, p), WaitOn(normal, p), slot)
        \/ ~D /\ slot = 0 /\ Refuses(p, Append(prio, entry), normal, new)
        \/ ~D /\ slot = 0 /\ Refuses(p, prio, Append(normal, entry), new)
    BY <1>3 DEF TryLogin
  <2>2. prio \in Seq(Entry) /\ normal \in Seq(Entry)
    BY CleanLists DEF Lists
  <2> HIDE DEF prio, normal
  <2>3. slot \in Nat /\ (slot > 0 <=> p \in Guids(prio) \cup Guids(normal))
    BY <2>2, SlotFacts
  <2>4. new \in Nat
    <3>1. Len(prio) \in Nat /\ Len(normal) \in Nat
      BY <2>2, EntryFacts
    <3>2. CASE p \in Premium
      BY <3>1, <3>2
    <3>3. CASE p \notin Premium
      BY <3>1, <3>3
    <3> QED BY <3>2, <3>3
  <2>5. ~D => MaxPlayers # 0
    BY DEF DirectAccess
  <2> HIDE DEF D, new
  <2>6. entry \in Entry /\ entry.guid = p
    BY <2>4, TimeoutFacts DEF Entry
  <2> HIDE DEF entry, slot
  <2>7. CASE D /\ Lets(p, prio, normal, placed)
    BY <1>1, <1>3, <2>7 DEF Tries, Newcomer, D, prio, normal
  <2>8. CASE /\ slot > 0 /\ HasRoom(slot)
             /\ Lets(p, Without(prio, p), Without(normal, p), placed)
    <3>1. Admitted(p, prio, normal, placed)
      BY <2>3, <2>8 DEF Admitted, slot
    <3> QED BY <1>1, <1>3, <3>1 DEF Tries, prio, normal
  <2>9. CASE ~D /\ slot > 0 /\ Refuses(p, WaitOn(prio, p), WaitOn(normal, p), slot)
    <3>1. WaitsOn(p, prio, normal)
      BY <2>5, <2>9 DEF WaitsOn, slot
    <3> QED BY <1>1, <1>3, <3>1 DEF Tries, prio, normal
  <2>10. CASE /\ ~D /\ slot = 0
              /\ \/ Refuses(p, Append(prio, entry), normal, new)
                 \/ Refuses(p, prio, Append(normal, entry), new)
    <3>1. p \notin Guids(prio) \cup Guids(normal)
      BY <2>3, <2>10
    <3>2. Queues(p, prio, normal)
      BY <2>4, <2>5, <2>6, <2>10, <3>1 DEF Queues
    <3> QED BY <1>1, <1>3, <3>2 DEF Tries, prio, normal
  <2> QED BY <2>1, <2>7, <2>8, <2>9, <2>10
<1> QED BY <1>2, <1>3

LEMMA LetsInv ==
  ASSUME WaitInv, NEW p \in Players, NEW prio, NEW normal, NEW placed \in BOOLEAN,
         Lists(prio, normal, online), p \notin Guids(prio) \cup Guids(normal),
         tried' = tried \cup {p}, Lets(p, prio, normal, placed)
  PROVE  WaitInv'
<1>1. /\ priorityWaitList' = prio /\ waitList' = normal
      /\ online' \subseteq online \cup {p}
      /\ last' = [guid |-> p, slot |-> 0]
  BY DEF Lets
<1>2. online \subseteq Players /\ tried \subseteq Players
  BY WaitParts
<1>3. Lists(priorityWaitList', waitList', online')
  BY <1>1 DEF Lists
<1> QED BY <1>1, <1>2, <1>3, WaitNextParts

LEMMA RefusesInv ==
  ASSUME WaitInv, NEW p \in Players, NEW prio, NEW normal, NEW slot \in Nat,
         Lists(prio, normal, online),
         tried' = tried \cup {p}, Refuses(p, prio, normal, slot)
  PROVE  WaitInv'
<1>1. /\ priorityWaitList' = prio /\ waitList' = normal /\ online' = online
      /\ last' = [guid |-> p, slot |-> slot]
  BY DEF Refuses
<1>2. online \subseteq Players /\ tried \subseteq Players
  BY WaitParts
<1>3. Lists(priorityWaitList', waitList', online')
  BY <1>1
<1> QED BY <1>1, <1>2, <1>3, WaitNextParts

LEMMA TryLoginInv ==
  ASSUME WaitInv, NEW p \in Players, NEW placed \in BOOLEAN, TryLogin(p, placed)
  PROVE  WaitInv'
<1> DEFINE prio == CleanUp(priorityWaitList)
           normal == CleanUp(waitList)
<1>1. Tries(p, placed)
  BY TryCases
<1>2. p \notin online /\ tried' = tried \cup {p}
  BY <1>1 DEF Tries
<1>3. Lists(priorityWaitList, waitList, online) /\ online \subseteq Players
  BY WaitParts
<1>4. Lists(prio, normal, online)
  BY CleanLists
<1>5. \/ p \in Privileged /\ Lets(p, priorityWaitList, waitList, placed)
      \/ p \notin Privileged /\ Newcomer(p, prio, normal, placed)
      \/ Admitted(p, prio, normal, placed)
      \/ p \notin Privileged /\ WaitsOn(p, prio, normal)
      \/ p \notin Privileged /\ Queues(p, prio, normal)
  BY <1>1 DEF Tries
<1> HIDE DEF prio, normal
<1>6. /\ prio \in Seq(Entry) /\ normal \in Seq(Entry) /\ Unique(prio) /\ Unique(normal)
      /\ p \in Players /\ p # NoPlayer
      /\ MaxPlayers = 0 => prio = <<>> /\ normal = <<>>
  BY <1>4, PlayersAssumption DEF Lists
<1>7. CASE p \in Privileged /\ Lets(p, priorityWaitList, waitList, placed)
  <2>1. p \notin Guids(priorityWaitList) \cup Guids(waitList)
    BY <1>3, <1>7 DEF Lists
  <2> QED BY <1>2, <1>3, <1>7, <2>1, LetsInv
<1>8. CASE Newcomer(p, prio, normal, placed)
  <2>1. prio = <<>> /\ normal = <<>> /\ Lets(p, prio, normal, placed)
    BY <1>6, <1>8 DEF Newcomer, DirectAccess
  <2>2. p \notin Guids(prio) \cup Guids(normal)
    BY <2>1 DEF Guids
  <2> QED BY <1>2, <1>4, <2>1, <2>2, LetsInv
<1>9. CASE Admitted(p, prio, normal, placed)
  <2> DEFINE r == Without(prio, p)
             s == Without(normal, p)
  <2>1. Lets(p, r, s, placed)
    BY <1>9 DEF Admitted
  <2>2. /\ Leaves(prio, r) /\ Leaves(normal, s)
        /\ p \notin Guids(r) \cup Guids(s)
    BY <1>6, WithoutLeaves
  <2>3. MaxPlayers = 0 => r = <<>> /\ s = <<>>
    BY <1>6 DEF Without, Guids
  <2> HIDE DEF r, s
  <2>4. Lists(r, s, online)
    BY <1>3, <1>4, <2>2, <2>3, ListsLeave
  <2> QED BY <1>2, <2>1, <2>2, <2>4, LetsInv
<1>10. CASE WaitsOn(p, prio, normal)
  <2> DEFINE r == WaitOn(prio, p)
             s == WaitOn(normal, p)
             slot == ListedSlot(p, prio, normal)
  <2>1. Refuses(p, r, s, slot) /\ MaxPlayers # 0
    BY <1>10 DEF WaitsOn
  <2>2. Leaves(prio, r) /\ Leaves(normal, s)
    BY <1>6, WaitOnLeaves
  <2>3. slot \in Nat
    BY <1>6, SlotFacts
  <2> HIDE DEF r, s, slot
  <2>4. Lists(r, s, online)
    BY <1>3, <1>4, <2>1, <2>2, ListsLeave
  <2> QED BY <1>2, <2>1, <2>3, <2>4, RefusesInv
<1>11. CASE p \notin Privileged /\ Queues(p, prio, normal)
  <2>1. /\ MaxPlayers # 0 /\ p \notin Guids(prio) \cup Guids(normal) /\ p \notin Privileged
        /\ \E new \in Nat, e \in Entry :
             /\ e.guid = p
             /\ \/ Refuses(p, Append(prio, e), normal, new)
                \/ Refuses(p, prio, Append(normal, e), new)
    BY <1>11 DEF Queues
  <2>2. PICK new \in Nat, e \in Entry :
          /\ e.guid = p
          /\ \/ Refuses(p, Append(prio, e), normal, new)
             \/ Refuses(p, prio, Append(normal, e), new)
    BY <2>1
  <2>3. CASE Refuses(p, Append(prio, e), normal, new)
    <3> DEFINE r == Append(prio, e)
    <3>1. r \in Seq(Entry) /\ Guids(r) = Guids(prio) \cup {p} /\ Unique(r)
      BY <1>6, <2>1, <2>2, AppendLeaves
    <3>2. Refuses(p, r, normal, new)
      BY <2>3
    <3> HIDE DEF r
    <3>3. Lists(r, normal, online)
      BY <1>2, <1>4, <2>1, <3>1 DEF Lists
    <3> QED BY <1>2, <3>2, <3>3, RefusesInv
  <2>4. CASE Refuses(p, prio, Append(normal, e), new)
    <3> DEFINE s == Append(normal, e)
    <3>1. s \in Seq(Entry) /\ Guids(s) = Guids(normal) \cup {p} /\ Unique(s)
      BY <1>6, <2>1, <2>2, AppendLeaves
    <3>2. Refuses(p, prio, s, new)
      BY <2>4
    <3> HIDE DEF s
    <3>3. Lists(prio, s, online)
      BY <1>2, <1>4, <2>1, <3>1 DEF Lists
    <3> QED BY <1>2, <3>2, <3>3, RefusesInv
  <2> QED BY <2>2, <2>3, <2>4
<1> QED BY <1>5, <1>7, <1>8, <1>9, <1>10, <1>11

-----------------------------------------------------------------------------
LEMMA WaitStep == WaitInv /\ [WaitNext]_waitVars => WaitInv'
<1> SUFFICES ASSUME WaitInv, [WaitNext]_waitVars PROVE WaitInv'
  OBVIOUS
<1>1. /\ Lists(priorityWaitList, waitList, online)
      /\ online \subseteq Players /\ tried \subseteq Players
      /\ last \in [guid : Players \cup {NoPlayer}, slot : Nat]
  BY WaitParts
<1>2. NoResult \in [guid : Players \cup {NoPlayer}, slot : Nat]
  BY DEF NoResult
<1>3. ASSUME NEW p \in Players, NEW placed \in BOOLEAN, TryLogin(p, placed) PROVE WaitInv'
  BY <1>3, TryLoginInv
<1>4. ASSUME NEW p \in Players, Logout(p) PROVE WaitInv'
  <2>1. /\ priorityWaitList' = priorityWaitList /\ waitList' = waitList
        /\ online' = online \ {p} /\ tried' = tried /\ last' = NoResult
    BY <1>4 DEF Logout
  <2>2. Lists(priorityWaitList', waitList', online')
    BY <1>1, <2>1 DEF Lists
  <2> QED BY <1>1, <1>2, <2>1, <2>2, WaitNextParts
<1>5. CASE FiveSeconds
  <2> DEFINE r == Aged(priorityWaitList)
             s == Aged(waitList)
  <2>1. /\ priorityWaitList' = r /\ waitList' = s
        /\ online' = online /\ tried' = {} /\ last' = NoResult
    BY <1>5 DEF FiveSeconds
  <2>2. /\ Leaves(priorityWaitList, r) /\ Leaves(waitList, s)
        /\ MaxPlayers = 0 => r = <<>> /\ s = <<>>
    BY <1>1, AgedLeaves DEF Lists
  <2> HIDE DEF r, s
  <2>3. Lists(r, s, online)
    BY <1>1, <2>2, ListsLeave
  <2>4. Lists(priorityWaitList', waitList', online')
    BY <2>1, <2>3
  <2> QED BY <1>1, <1>2, <2>1, <2>4, WaitNextParts
<1>6. CASE UNCHANGED waitVars
  BY <1>6 DEF waitVars, WaitInv, WaitTypeOK, Guids, Unique
<1> QED BY <1>3, <1>4, <1>5, <1>6 DEF WaitNext

LEMMA WaitInvariant == WaitSpec => []WaitInv
<1>1. WaitInit => WaitInv
  BY DEF WaitInit, WaitInv, WaitTypeOK, NoResult, Guids, Unique
<1> QED BY <1>1, WaitStep, PTL DEF WaitSpec

(* Whatever clients come, retry, leave and time out, in whatever order:    *)
(* nobody is listed twice, in one list or across both, and nobody who is   *)
(* online is listed still (clientLogin).                                   *)
THEOREM WaitingListed == WaitSpec => []WaitTypeOK
<1>1. WaitInv => WaitTypeOK
  BY DEF WaitInv
<1> QED BY <1>1, WaitInvariant, PTL

\* who comes in, and by which of the ways of clientLogin
ComesIn ==
  \A p \in online' \ online :
    \/ p \in Privileged
    \/ Newcomer(p, CleanUp(priorityWaitList), CleanUp(waitList), TRUE)
    \/ Admitted(p, CleanUp(priorityWaitList), CleanUp(waitList), TRUE)

LEMMA ComesInStep ==
  ASSUME WaitInv, [WaitNext]_waitVars
  PROVE  ComesIn /\ \A p \in online' \ online : p \in Players /\ online' = online \cup {p}
<1>1. ASSUME NEW p \in Players, NEW placed \in BOOLEAN, TryLogin(p, placed)
      PROVE  ComesIn /\ \A q \in online' \ online : q \in Players /\ online' = online \cup {q}
  <2>1. Tries(p, placed)
    BY <1>1, TryCases
  <2>2. ASSUME NEW r, NEW s, Lets(p, r, s, placed)
        PROVE  online' = (IF placed THEN online \cup {p} ELSE online)
    BY <2>2 DEF Lets
  <2>3. ASSUME NEW r, NEW s, NEW n, Refuses(p, r, s, n) PROVE online' = online
    BY <2>3 DEF Refuses
  <2>4. online' = online \/ (placed /\ online' = online \cup {p})
    BY <2>1, <2>2, <2>3 DEF Tries, Newcomer, Admitted, WaitsOn, Queues
  <2>5. ASSUME NEW q \in online' \ online PROVE q = p /\ placed = TRUE /\ online' # online
    BY <2>4, <2>5
  <2>6. ASSUME online' # online, p \notin Privileged
        PROVE  \/ Newcomer(p, CleanUp(priorityWaitList), CleanUp(waitList), placed)
               \/ Admitted(p, CleanUp(priorityWaitList), CleanUp(waitList), placed)
    BY <2>1, <2>3, <2>6 DEF Tries, WaitsOn, Queues
  <2> QED BY <2>4, <2>5, <2>6 DEF ComesIn
<1>2. ASSUME NEW p \in Players, Logout(p) PROVE online' \ online = {}
  BY <1>2 DEF Logout
<1>3. CASE FiveSeconds
  BY <1>3 DEF FiveSeconds, ComesIn
<1>4. CASE UNCHANGED waitVars
  BY <1>4 DEF waitVars, ComesIn
<1> QED BY <1>1, <1>2, <1>3, <1>4 DEF WaitNext, ComesIn

(* For any number of clients and places: a client without privilege comes  *)
(* in only while the server has room for it, whether at once or from a     *)
(* waiting list (clientLogin's two tests against maxPlayers).              *)
THEOREM LimitKept == WaitSpec => NeverOverLimit
<1> DEFINE A == \A p \in online' \ online :
                  p \in Privileged \/ MaxPlayers = 0 \/ Cardinality(online') <= MaxPlayers
<1>1. ASSUME WaitInv, [WaitNext]_waitVars PROVE A
  <2> SUFFICES ASSUME NEW p \in online' \ online, p \notin Privileged, MaxPlayers # 0
               PROVE  Cardinality(online') <= MaxPlayers
    OBVIOUS
  <2>1. p \in Players /\ online' = online \cup {p} /\ ComesIn
    BY <1>1, ComesInStep
  <2>2. IsFiniteSet(online) /\ Cardinality(online) \in Nat
    BY <1>1, WaitParts, PlayersAssumption, FS_Subset, FS_CardinalityType
  <2>3. Cardinality(online') = Cardinality(online) + 1
    BY <2>1, <2>2, FS_AddElement
  <2> DEFINE prio == CleanUp(priorityWaitList)
             normal == CleanUp(waitList)
  <2>4. Newcomer(p, prio, normal, TRUE) \/ Admitted(p, prio, normal, TRUE)
    BY <2>1 DEF ComesIn
  <2>5. prio \in Seq(Entry) /\ normal \in Seq(Entry) /\ MaxPlayers \in Nat
    BY <1>1, CleanLists, PlayersAssumption DEF Lists
  <2> HIDE DEF prio, normal
  <2>6. CASE Newcomer(p, prio, normal, TRUE)
    BY <2>2, <2>3, <2>5, <2>6 DEF Newcomer, DirectAccess
  <2>7. CASE Admitted(p, prio, normal, TRUE)
    <3> DEFINE slot == ListedSlot(p, prio, normal)
    <3>1. slot \in Nat /\ slot > 0
      BY <2>5, <2>7, SlotFacts DEF Admitted
    <3>2. Cardinality(online) + slot <= MaxPlayers
      BY <2>7 DEF Admitted, HasRoom
    <3> HIDE DEF slot
    <3> QED BY <2>2, <2>3, <2>5, <3>1, <3>2
  <2> QED BY <2>4, <2>6, <2>7
<1>2. [WaitNext]_waitVars /\ WaitInv => [A]_waitVars
  BY <1>1
<1> QED BY <1>2, WaitInvariant, PTL DEF WaitSpec, NeverOverLimit

(* While somebody waits in time in either list, only those come in that    *)
(* wait themselves (clientLogin's direct access needs both lists empty).   *)
THEOREM QueueKept == WaitSpec => NobodyJumpsTheQueue
<1> DEFINE A == \A p \in online' \ online :
                  p \in Privileged \/ Waits(p) \/ MaxPlayers = 0
                    \/ (Live(priorityWaitList) = <<>> /\ Live(waitList) = <<>>)
<1>1. ASSUME WaitInv, [WaitNext]_waitVars PROVE A
  <2> SUFFICES ASSUME NEW p \in online' \ online, p \notin Privileged, MaxPlayers # 0
               PROVE  Waits(p) \/ (Live(priorityWaitList) = <<>> /\ Live(waitList) = <<>>)
    OBVIOUS
  <2>1. ComesIn
    BY <1>1, ComesInStep
  <2>2. \/ Newcomer(p, CleanUp(priorityWaitList), CleanUp(waitList), TRUE)
        \/ Admitted(p, CleanUp(priorityWaitList), CleanUp(waitList), TRUE)
    BY <2>1 DEF ComesIn
  <2> QED BY <2>2 DEF Newcomer, DirectAccess, Admitted, Waits, Live
<1>2. [WaitNext]_waitVars /\ WaitInv => [A]_waitVars
  BY <1>1
<1> QED BY <1>2, WaitInvariant, PTL DEF WaitSpec, NobodyJumpsTheQueue
=============================================================================
