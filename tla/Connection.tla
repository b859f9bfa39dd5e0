---------------------------- MODULE Connection ----------------------------
(***************************************************************************)
(* One client connection (connection.cpp, connection.h) and the tasks it   *)
(* posts for its protocol.  The io thread runs the completions of reads,   *)
(* writes and timers; any thread may send or close.  A critical section of *)
(* connectionLock is one action, with the calls it makes inside.           *)
(***************************************************************************)
EXTENDS Naturals, Sequences, SequencesExt

CONSTANTS
  Messages,    \* output messages the protocol may send
  MaxPackets   \* bound: packets the client sends

ASSUME BoundAssumption == MaxPackets \in Nat

VARIABLES
  peer,          \* the client: "active", "stalled" (neither sends nor reads), "reset"
  inManager,     \* the connection is in ConnectionManager::connections
  socketClosed,  \* closeSocket ran
  closed,
  protocol,      \* protocol # nullptr
  receivedFirst,
  read,          \* the async_read: "none", or "header"/"body" and whether done
  readTimer,     \* "off", or "armed"
  writeTimer,
  expired,       \* timer completions queued without an error
  messageQueue,
  writes,        \* async_writes in flight
  packets,       \* packets received
  posted,        \* history: tasks handed to the dispatcher for the protocol
  sent,          \* history: messages send() put into messageQueue
  written,       \* history: messages the socket took
  ended          \* history: what closed the connection first

vars == <<peer, inManager, socketClosed, closed, protocol, receivedFirst, read,
          readTimer, writeTimer, expired, messageQueue, writes, packets, posted,
          sent, written, ended>>

TypeOK ==
  /\ peer \in {"active", "stalled", "reset"}
  /\ inManager \in BOOLEAN /\ socketClosed \in BOOLEAN /\ closed \in BOOLEAN
  /\ protocol \in BOOLEAN /\ receivedFirst \in BOOLEAN
  /\ read \in {"accepting", "none", "header", "headerDone", "body", "bodyDone"}
  /\ readTimer \in {"off", "armed"} /\ writeTimer \in {"off", "armed"}
  /\ expired \in 0 .. 2
  /\ messageQueue \in Seq(Messages)
  /\ writes \in 0 .. 2
  /\ packets \in 0 .. MaxPackets
  /\ posted \in Seq({"onConnect", "message", "release"})
  /\ sent \in Seq(Messages) /\ written \in Seq(Messages)
  /\ ended \in {"open", "graceful", "forced", "closeAll"}
  /\ read = "none" => readTimer = "off"

(* ServicePort::accept created the connection, and a client connected.     *)
Init ==
  /\ peer = "active"
  /\ inManager = TRUE
  /\ socketClosed = FALSE /\ closed = FALSE
  /\ protocol = FALSE /\ receivedFirst = FALSE
  /\ read = "accepting"
  /\ readTimer = "off" /\ writeTimer = "off"
  /\ expired = 0
  /\ messageQueue = <<>>
  /\ writes = 0
  /\ packets = 0
  /\ posted = <<>> /\ sent = <<>> /\ written = <<>>
  /\ ended = "open"

(* Completion handlers hold a shared_ptr, the manager another; a protocol  *)
(* holds a weak one.  The destructor closes the socket.                    *)
Alive == inManager \/ read # "none" \/ writes > 0
SocketOpen == Alive /\ ~socketClosed

-----------------------------------------------------------------------------
(* Pieces of handlers.  Each says what becomes of the variables it names.  *)

ioVars == <<peer, packets, written>>

\* mutants: the queue is not waited for; a close by force is
ClosesSocketAtOnce(force, queue) == ~closed
ClosesSocketIfIdle(force, queue) == ~closed /\ queue = <<>>

\* the first close() with nothing to write, or by force, calls closeSocket
ClosesSocket(force, queue) == ~closed /\ (queue = <<>> \/ force)

\* what a timer is after that: closeSocket cancels both on an open socket
Timer(t, force, queue) ==
  IF ClosesSocket(force, queue) /\ ~socketClosed THEN "off" ELSE t

CloseParts(force, queue, left) ==
  /\ inManager' = FALSE
  /\ closed' = TRUE
  /\ socketClosed' = (socketClosed \/ ClosesSocket(force, queue))
  /\ posted' = IF ~closed /\ protocol' THEN Append(posted, "release") ELSE posted
  /\ messageQueue' = left
  /\ ended' = IF ended # "open" THEN ended ELSE IF force THEN "forced" ELSE "graceful"

(* Connection::close(force), the queue being queue by then: it leaves the  *)
(* manager every time, posts release and closes the socket once.           *)
Close(force, queue) == CloseParts(force, queue, queue)

\* an async_read whose completion is due, with an error or without
ReadDone(error, part) ==
  IF error THEN read = part /\ (~SocketOpen \/ peer = "reset")
           ELSE read = part \o "Done"

-----------------------------------------------------------------------------
(* The client and the network.                                             *)

PeerFails ==
  /\ peer = "active"
  /\ peer' \in {"stalled", "reset"}
  /\ UNCHANGED <<inManager, socketClosed, closed, protocol, receivedFirst, read,
                 readTimer, writeTimer, expired, messageQueue, writes, packets,
                 posted, sent, written, ended>>

(* Bytes of a packet arrive and complete the async_read.                   *)
Receive ==
  /\ peer = "active" /\ SocketOpen
  /\ \/ read = "header" /\ read' = "headerDone" /\ packets < MaxPackets
        /\ packets' = packets + 1
     \/ read = "body" /\ read' = "bodyDone" /\ UNCHANGED packets
  /\ UNCHANGED <<peer, inManager, socketClosed, closed, protocol, receivedFirst,
                 readTimer, writeTimer, expired, messageQueue, writes, posted,
                 sent, written, ended>>

(* A timer runs out: its completion is queued and no cancel can stop it.   *)
Expire ==
  /\ expired < 2
  /\ \/ readTimer = "armed" /\ readTimer' = "off" /\ UNCHANGED writeTimer
     \/ writeTimer = "armed" /\ writeTimer' = "off" /\ UNCHANGED readTimer
  /\ expired' = expired + 1
  /\ UNCHANGED <<peer, inManager, socketClosed, closed, protocol, receivedFirst,
                 read, messageQueue, writes, packets, posted, sent, written, ended>>

-----------------------------------------------------------------------------
(* The io thread's handlers.                                               *)

\* async_read of the next part, with the read timeout
StartRead(part) == read' = part /\ readTimer' = "armed"

(* ServicePort::onAccept: a banned address is closed; a protocol that      *)
(* sends first is made at once and its onConnect posted.                   *)
Accept ==
  /\ read = "accepting"
  /\ \/ /\ ~socketClosed   \* Connection::accept
        /\ protocol' \in BOOLEAN
        /\ posted' = IF protocol' THEN Append(posted, "onConnect") ELSE posted
        /\ StartRead("header")
        /\ UNCHANGED <<inManager, socketClosed, closed, messageQueue, ended>>
     \/ /\ read' = "none" /\ UNCHANGED <<protocol, readTimer>>
        /\ Close(TRUE, <<>>)
  /\ UNCHANGED <<receivedFirst, writeTimer, expired, writes, sent, ioVars>>

\* mutant: an error of the network leaves the timer running
ReadEndsTicking ==
  /\ UNCHANGED protocol
  /\ \E part \in {"header", "body"} : ReadDone(TRUE, part)
  /\ Close(TRUE, messageQueue)
  /\ writeTimer' = Timer(writeTimer, TRUE, messageQueue)
  /\ read' = "none"
  /\ UNCHANGED <<receivedFirst, readTimer, expired, writes, sent, ioVars>>

(* A handler that finds an error, or the connection closed, ends reading.  *)
ReadEnds ==
  /\ UNCHANGED protocol
  /\ \E part \in {"header", "body"} :
       \/ /\ ReadDone(TRUE, part)
          /\ Close(TRUE, messageQueue)
          /\ writeTimer' = Timer(writeTimer, TRUE, messageQueue)
       \/ /\ ReadDone(FALSE, part) /\ closed
          /\ UNCHANGED <<inManager, socketClosed, closed, writeTimer, messageQueue,
                         posted, ended>>
  /\ readTimer' = "off"
  /\ read' = "none"
  /\ UNCHANGED <<receivedFirst, expired, writes, sent, ioVars>>

(* parseHeader of a good header, of one packet too many in the second, or  *)
(* of a bad size.                                                          *)
ParseHeader ==
  /\ UNCHANGED protocol
  /\ ReadDone(FALSE, "header") /\ ~closed
  /\ \/ /\ StartRead("body")
        /\ UNCHANGED <<inManager, socketClosed, closed, writeTimer, messageQueue,
                       posted, ended>>
     \/ /\ read' = "none" /\ readTimer' = "off"
        /\ \E force \in BOOLEAN :
             /\ Close(force, messageQueue)
             /\ writeTimer' = Timer(writeTimer, force, messageQueue)
  /\ UNCHANGED <<receivedFirst, expired, writes, sent, ioVars>>

\* the protocol queues a message for the client, and a write if none is on
Queue(m, startsWrite) ==
  /\ m \notin ToSet(sent)
  /\ sent' = Append(sent, m)
  /\ writes' = IF startsWrite THEN writes + 1 ELSE writes

(* The protocol, made on the first packet if it was not before, is handed  *)
(* the message; it posts a task, or answers and disconnects at once.  The  *)
(* next header is read in any case.                                        *)
HandMessage ==
  /\ protocol' = TRUE
  /\ StartRead("header")
  /\ \/ /\ posted' = Append(posted, "message")
        /\ UNCHANGED <<inManager, socketClosed, closed, writeTimer, messageQueue,
                       writes, sent, ended>>
     \/ \E m \in Messages :
          /\ Queue(m, messageQueue = <<>>)
          /\ writeTimer' = IF messageQueue = <<>> THEN "armed" ELSE writeTimer
          /\ Close(FALSE, Append(messageQueue, m))
     \/ /\ Close(FALSE, messageQueue)
        /\ writeTimer' = Timer(writeTimer, FALSE, messageQueue)
        /\ UNCHANGED <<writes, sent>>

(* make_protocol finds no service for the packet.                          *)
NoProtocol ==
  /\ ~protocol /\ UNCHANGED protocol
  /\ read' = "none" /\ readTimer' = "off"
  /\ Close(TRUE, messageQueue)
  /\ writeTimer' = Timer(writeTimer, TRUE, messageQueue)
  /\ UNCHANGED <<writes, sent>>

ParsePacketIf(mayParse) ==
  /\ ReadDone(FALSE, "body") /\ mayParse
  /\ receivedFirst' = TRUE
  /\ HandMessage \/ NoProtocol
  /\ UNCHANGED <<expired, ioVars>>

\* mutant: parsePacket does not look whether the connection was closed
ParsePacketAlways == ParsePacketIf(TRUE)

ParsePacket == ParsePacketIf(~closed)

WriteTo(error) ==
  /\ writes > 0
  /\ IF error THEN peer = "reset" \/ ~SocketOpen ELSE peer = "active"

(* onWriteOperation.                                                       *)
OnWriteOperation ==
  /\ WriteTo(FALSE)
  /\ written' = Append(written, Head(messageQueue))
  /\ messageQueue' = Tail(messageQueue)
  /\ IF Len(messageQueue) > 1
     THEN writeTimer' = "armed" /\ UNCHANGED <<writes, socketClosed, readTimer>>
     ELSE /\ writes' = writes - 1
          /\ writeTimer' = "off"
          /\ socketClosed' = (socketClosed \/ closed)
          /\ readTimer' = IF closed THEN "off" ELSE readTimer
  /\ UNCHANGED <<peer, inManager, closed, protocol, receivedFirst, read, expired,
                 packets, posted, sent, ended>>

OnWriteError ==
  /\ WriteTo(TRUE)
  /\ writes' = writes - 1
  /\ writeTimer' = "off"
  /\ readTimer' = Timer(readTimer, TRUE, <<>>)
  /\ UNCHANGED protocol
  /\ Close(TRUE, <<>>)
  /\ UNCHANGED <<receivedFirst, read, expired, sent, ioVars>>

\* both timers after a close() outside the read and write handlers
CloseFromOutside(force) ==
  /\ Close(force, messageQueue)
  /\ readTimer' = Timer(readTimer, force, messageQueue)
  /\ writeTimer' = Timer(writeTimer, force, messageQueue)

(* handleTimeout, if the weak_ptr still locks.                             *)
HandleTimeout ==
  /\ expired > 0
  /\ expired' = expired - 1
  /\ UNCHANGED protocol
  /\ IF Alive THEN CloseFromOutside(TRUE)
     ELSE UNCHANGED <<inManager, socketClosed, closed, readTimer, writeTimer,
                      messageQueue, posted, ended>>
  /\ UNCHANGED <<receivedFirst, read, writes, sent, ioVars>>

-----------------------------------------------------------------------------
(* Other threads.                                                          *)

\* mutant: a write is started for every message
StartsWriteAlways == TRUE

\* noPendingWrite
StartsWrite == messageQueue = <<>>

\* mutant: the message is put in front of the queue
SendFront(m) ==
  /\ Alive /\ protocol /\ ~closed
  /\ Queue(m, StartsWrite)
  /\ messageQueue' = <<m>> \o messageQueue
  /\ writeTimer' = IF StartsWrite THEN "armed" ELSE writeTimer
  /\ UNCHANGED <<inManager, socketClosed, closed, protocol, receivedFirst, read,
                 readTimer, expired, posted, ended, ioVars>>

(* Protocol::send from the dispatcher thread.                              *)
Send(m) ==
  /\ Alive /\ protocol /\ ~closed
  /\ Queue(m, StartsWrite)
  /\ messageQueue' = Append(messageQueue, m)
  /\ writeTimer' = IF StartsWrite THEN "armed" ELSE writeTimer
  /\ UNCHANGED <<inManager, socketClosed, closed, protocol, receivedFirst, read,
                 readTimer, expired, posted, ended, ioVars>>

(* Protocol::disconnect.                                                   *)
Disconnect ==
  /\ Alive /\ protocol /\ ~closed
  /\ UNCHANGED protocol
  /\ CloseFromOutside(FALSE)
  /\ UNCHANGED <<receivedFirst, read, expired, writes, sent, ioVars>>

(* ConnectionManager::closeAll at shutdown closes the socket only: closed  *)
(* stays as it was, and the failing read or write does the rest.           *)
CloseAll ==
  /\ inManager
  /\ inManager' = FALSE
  /\ socketClosed' = TRUE
  /\ ended' = "closeAll"
  /\ UNCHANGED <<closed, protocol, receivedFirst, read, readTimer, writeTimer,
                 expired, messageQueue, writes, posted, sent, ioVars>>

IoThread ==
  \/ Accept \/ ReadEnds \/ ParseHeader \/ ParsePacket
  \/ OnWriteOperation \/ OnWriteError \/ HandleTimeout

Next ==
  \/ PeerFails \/ Receive \/ Expire
  \/ IoThread
  \/ \E m \in Messages : Send(m)
  \/ Disconnect
  \/ CloseAll

(* Completions are run and time passes.  A client may go quiet for ever;   *)
(* each handler is fair on its own, as the completions are queued in order.*)
Fairness ==
  /\ WF_vars(Accept) /\ WF_vars(ReadEnds) /\ WF_vars(ParseHeader)
  /\ WF_vars(ParsePacket) /\ WF_vars(OnWriteOperation) /\ WF_vars(OnWriteError)
  /\ WF_vars(HandleTimeout) /\ WF_vars(Expire)

Spec == Init /\ [][Next]_vars
FairSpec == Spec /\ Fairness

-----------------------------------------------------------------------------
(* The socket takes messages in the order send() queued them: at most one  *)
(* write is in flight, and the message it takes is in the queue, so that   *)
(* onWriteOperation's pop_front never meets an empty list.                 *)
WritesInOrder ==
  /\ IsPrefix(written, sent)
  /\ writes <= 1 /\ (writes > 0 => messageQueue # <<>>)

(* The protocol's tasks: onConnect first, release exactly once and last,   *)
(* as soon as the connection is closed.  The game rests on no message of a *)
(* connection following its release.                                       *)
ReleaseComesLast ==
  /\ \A i \in 1 .. Len(posted) :
       /\ posted[i] = "onConnect" => i = 1
       /\ posted[i] = "release" => i = Len(posted)
  /\ "release" \in ToSet(posted) <=> closed /\ protocol

(* A graceful close delivers what was queued: the socket is closed only    *)
(* when everything was written, unless the network failed.                 *)
GracefulCloseDelivers ==
  ended = "graceful" /\ peer # "reset" /\ ~SocketOpen => written = sent

(* A client that goes quiet is closed by the read timeout; and a           *)
(* connection closed by force lets go of everything that keeps it alive,   *)
(* also with a write to a client that does not read.                       *)
QuietClientIsFreed ==
  /\ (peer = "stalled") ~> closed
  /\ (ended = "forced") ~> ~Alive

(* "will be closed by the destructor or onWriteOperation" (Connection::    *)
(* close): a closed connection's socket is closed.                         *)
ClosedSocketIsClosed == closed ~> ~SocketOpen
=============================================================================
