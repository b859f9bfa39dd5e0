---------------------------- MODULE GameSession ----------------------------
(***************************************************************************)
(* One character and the connections that log in as it (protocolgame.cpp:  *)
(* login, connect, logout, release; game.cpp: removeCreature, cleanup,     *)
(* setGameState), which has no right to log in while the game is closed.   *)
(* Every login without the character online makes a new Player object;     *)
(* a login that finds it takes the object over from its connection.  The   *)
(* dispatcher runs tasks in order, the io thread closes connections and    *)
(* parses packets, the scheduler runs the delayed connect.                 *)
(***************************************************************************)
EXTENDS Naturals, Sequences, FiniteSets, SequencesExt

CONSTANTS
  Conns,     \* connections, each with its ProtocolGame
  Objects,   \* bound: Player objects, one for each login that makes one
  None,
  Lingers    \* a closed Connection may outlive the delayed connect

ASSUME SessionAssumption == None \notin Conns \cup Objects /\ Lingers \in BOOLEAN

VARIABLES
  conn,           \* "new", "open", "closed", "dead": the Connection object
  tasks,          \* the dispatcher's queue
  timers,         \* delayed connects pending: <<connection, player>>
  player,         \* ProtocolGame::player
  acceptPackets,  \* ProtocolGame::acceptPackets
  parsing,        \* the player parsePacket works with on the io thread
  released,       \* history: release() ran
  client,         \* Player::client
  refs,           \* Creature::referenceCounter
  online,         \* Game::players
  toRelease,      \* Game::ToReleaseCreatures
  created,        \* objects made so far
  deleted,        \* objects freed
  connecting,     \* Player::isConnecting, of these objects
  autosend,       \* OutputMessagePool::bufferedProtocols
  chains,         \* the events of sendAll under way, each of which goes on
  gameState       \* Game::gameState, as far as logins look at it

vars == <<conn, tasks, timers, player, acceptPackets, parsing, released, client,
          refs, online, toRelease, created, deleted, connecting, autosend, chains, gameState>>

outputVars == <<autosend, chains>>
protocolVars == <<player, acceptPackets, released>>
playerVars == <<client, refs, online, toRelease, created, deleted, connecting>>

Task == [op : {"login", "release", "logout"}, c : Conns]
          \cup [op : {"connect"}, c : Conns, o : Objects]

\* Each variable holds values of its kind.
TypeOK ==
  /\ conn \in [Conns -> {"new", "open", "closed", "dead"}]
  /\ tasks \in Seq(Task)
  /\ timers \subseteq Conns \X Objects
  /\ player \in [Conns -> Objects \cup {None}]
  /\ acceptPackets \subseteq Conns /\ released \subseteq Conns
  /\ parsing \in [Conns -> Objects \cup {None}]
  /\ client \in [Objects -> Conns \cup {None}]
  /\ refs \in [Objects -> 0 .. 3]
  /\ online \subseteq created /\ toRelease \subseteq created
  /\ created \subseteq Objects /\ deleted \subseteq created
  /\ connecting \subseteq created
  /\ autosend \subseteq Conns /\ chains \in Nat
  /\ gameState \in {"normal", "closed", "shutdown"}

Init ==
  /\ conn = [c \in Conns |-> "new"]
  /\ tasks = <<>>
  /\ timers = {}
  /\ player = [c \in Conns |-> None]
  /\ acceptPackets = {} /\ released = {}
  /\ parsing = [c \in Conns |-> None]
  /\ client = [o \in Objects |-> None]
  /\ refs = [o \in Objects |-> 0]
  /\ online = {} /\ toRelease = {} /\ created = {} /\ deleted = {}
  /\ connecting = {} /\ gameState = "normal"
  /\ autosend = {} /\ chains = 0

-----------------------------------------------------------------------------
\* Connection::close takes connectionLock, which parsePacket holds
CanClose(c) == parsing[c] = None

ReleaseTask(c) == [op |-> "release", c |-> c]

\* g_dispatcher.addTask behind the tasks in rest; a shutdown has stopped it.
Post(rest, task) == IF gameState = "shutdown" THEN rest ELSE Append(rest, task)

(* Connection::close, with the tasks in rest still to run: the first close *)
(* posts the protocol's release.                                           *)
Close(c, rest) ==
  LET first == conn[c] \in {"new", "open"}
  IN /\ CanClose(c)
     /\ conn' = IF first THEN [conn EXCEPT ![c] = "closed"] ELSE conn
     /\ tasks' = IF first THEN Post(rest, ReleaseTask(c)) ELSE rest

(* The io thread.                                                          *)

(* onRecvFirstMessage accepts the first packet, or answers and closes.     *)
FirstMessage(c) ==
  /\ conn[c] = "new"
  /\ \/ /\ gameState # "shutdown"
        /\ conn' = [conn EXCEPT ![c] = "open"]
        /\ tasks' = Append(tasks, [op |-> "login", c |-> c])
     \/ Close(c, tasks)
  /\ UNCHANGED <<timers, parsing, protocolVars, playerVars, outputVars, gameState>>

\* the client leaves or the network fails
NetworkClose(c) ==
  /\ conn[c] = "open"
  /\ Close(c, tasks)
  /\ UNCHANGED <<timers, parsing, protocolVars, playerVars, outputVars, gameState>>

\* the last handler of a closed connection ends, and with it the object
Destroy(c) ==
  /\ conn[c] = "closed"
  /\ conn' = [conn EXCEPT ![c] = "dead"]
  /\ UNCHANGED <<tasks, timers, parsing, protocolVars, playerVars, outputVars, gameState>>

\* parsePacket under connectionLock, once there is a player
BeginParse(c) ==
  /\ conn[c] = "open" /\ c \in acceptPackets /\ gameState # "shutdown"
  /\ parsing[c] = None /\ player[c] # None
  /\ parsing' = [parsing EXCEPT ![c] = player[c]]
  /\ UNCHANGED <<conn, tasks, timers, protocolVars, playerVars, outputVars, gameState>>

(* The packet makes a logout task, one by player id, or a disconnect when  *)
(* the player is dead.                                                     *)
EndParse(c) ==
  /\ parsing[c] # None
  /\ parsing' = [parsing EXCEPT ![c] = None]
  /\ \/ UNCHANGED <<conn, tasks>>
     \/ /\ ReleaseTask(c) \notin ToSet(tasks)
        /\ [op |-> "logout", c |-> c] \notin ToSet(tasks)
        /\ tasks' = Post(tasks, [op |-> "logout", c |-> c])
        /\ UNCHANGED conn
     \/ /\ parsing[c] \notin online
        /\ conn' = [conn EXCEPT ![c] = "closed"]
        /\ tasks' = Post(tasks, ReleaseTask(c))
  /\ UNCHANGED <<timers, protocolVars, playerVars, outputVars, gameState>>

(* The scheduler: 1000 ms later.  Without Lingers a closed connection is   *)
(* gone by then.                                                           *)
TimerFires(c, o) ==
  /\ <<c, o>> \in timers
  /\ Lingers \/ conn[c] # "closed"
  /\ timers' = timers \ {<<c, o>>}
  /\ tasks' = Post(tasks, [op |-> "connect", c |-> c, o |-> o])
  /\ UNCHANGED <<conn, parsing, protocolVars, playerVars, outputVars, gameState>>

-----------------------------------------------------------------------------
(* The dispatcher thread.                                                  *)

Runs(op) == tasks # <<>> /\ Head(tasks).op = op
Rest == Tail(tasks)

(* Game::removeCreature: out of the lists, to be released by cleanup.      *)
RemoveCreature(o) ==
  /\ online' = online \ {o}
  /\ toRelease' = IF o \in online THEN toRelease \cup {o} ELSE toRelease

\* mutant: the client of the player is not asked for
TakesOverAlways(o) == o \in online

\* connect finds the player without a client
TakesOver(o) == o \in online /\ client[o] = None

\* mutant: whether the connection still exists is not looked at
ConnectsAlways(c) == TRUE

\* ~isConnectionExpired()
Connects(c) == conn[c] # "dead"

\* mutant: a client that finds another with the player is not told
RefuseSilently(c, rest) == tasks' = rest /\ UNCHANGED conn

\* disconnectClient
Refuse(c, rest) == Close(c, rest)

(* ProtocolGame::connect for player o.                                     *)
ConnectTo(c, o, rest) ==
  IF ~TakesOver(o) THEN /\ Refuse(c, rest)
                        /\ UNCHANGED <<protocolVars, playerVars>>
  ELSE IF ~Connects(c) THEN     /\ tasks' = rest
                                /\ UNCHANGED <<conn, protocolVars, playerVars>>
  ELSE /\ player' = [player EXCEPT ![c] = o]
       /\ refs' = [refs EXCEPT ![o] = @ + 1]
       /\ client' = [client EXCEPT ![o] = c]
       /\ acceptPackets' = acceptPackets \cup {c}
       /\ connecting' = connecting \ {o}
       /\ tasks' = rest
       /\ UNCHANGED <<conn, released, online, toRelease, created, deleted>>

\* addProtocolToAutosend, which starts to send every 10 ms for the first.
AddToAutosend(c) ==
  /\ autosend' = autosend \cup {c}
  /\ chains' = IF autosend = {} THEN chains + 1 ELSE chains

\* sendAll with nobody to send to ends; else it only sends, and goes on.
SendAllEnds ==
  /\ chains > 0 /\ autosend = {}
  /\ chains' = chains - 1
  /\ UNCHANGED <<conn, tasks, timers, parsing, protocolVars, playerVars, autosend, gameState>>

(* login without the character online: a new Player, which the checks      *)
(* refuse, or which is placed; a login script may kick it at once.         *)
NewPlayer(c, o) ==
  /\ created' = created \cup {o}
  /\ client' = [client EXCEPT ![o] = c]
  /\ player' = [player EXCEPT ![c] = o]
  /\ \/ /\ refs' = [refs EXCEPT ![o] = 1]                        \* refused
        /\ Close(c, Rest)
        /\ UNCHANGED <<acceptPackets, online, toRelease, outputVars>>
     \/ /\ gameState # "closed"
        /\ refs' = [refs EXCEPT ![o] = 2]                        \* placed
        /\ acceptPackets' = acceptPackets \cup {c}
        /\ online' = online \cup {o}
        /\ tasks' = Rest
        /\ AddToAutosend(c)
        /\ UNCHANGED <<conn, toRelease>>
     \/ /\ gameState # "closed"
        /\ refs' = [refs EXCEPT ![o] = 2]                        \* kicked
        /\ acceptPackets' = acceptPackets \cup {c}
        /\ Close(c, Rest)
        /\ toRelease' = toRelease \cup {o}
        /\ AddToAutosend(c)
        /\ UNCHANGED online
  /\ UNCHANGED <<timers, released, deleted, connecting>>

(* login with the character online: refused, as replaceKickOnLogin says at *)
(* the moment; or its client is disconnected and connect delayed; or       *)
(* connected to at once.                                                   *)
FoundPlayer(c, o) ==
  \/ /\ Close(c, Rest)
     /\ UNCHANGED <<timers, protocolVars, playerVars, outputVars>>
  \/ /\ client[o] # None
     /\ Close(client[o], Rest)
     /\ timers' = timers \cup {<<c, o>>}
     /\ connecting' = connecting \cup {o}
     /\ AddToAutosend(c)
     /\ UNCHANGED <<protocolVars, client, refs, online, toRelease, created, deleted>>
  \/ /\ client[o] = None
     /\ ConnectTo(c, o, Rest)
     /\ AddToAutosend(c)
     /\ UNCHANGED timers

\* getPlayerByGUID
Found == online

RunLogin ==
  /\ Runs("login")
  /\ LET c == Head(tasks).c
     IN IF Found = {} THEN \E o \in Objects \ created : NewPlayer(c, o)
                       ELSE \E o \in Found : FoundPlayer(c, o)
  /\ UNCHANGED <<parsing, gameState>>

RunConnect ==
  /\ Runs("connect")
  /\ ConnectTo(Head(tasks).c, Head(tasks).o, Rest)
  /\ UNCHANGED <<timers, parsing, outputVars, gameState>>

\* --referenceCounter, which deletes the object at 0
Unreference(S) ==
  /\ refs' = [o \in Objects |-> IF o \in S THEN refs[o] - 1 ELSE refs[o]]
  /\ deleted' = deleted \cup {o \in S : refs[o] = 1}

\* mutant: the player's client is reset and its reference kept
RunReleaseForgets ==
  /\ Runs("release")
  /\ player' = [player EXCEPT ![Head(tasks).c] = None]
  /\ client' = [o \in Objects |-> IF client[o] = Head(tasks).c THEN None ELSE client[o]]
  /\ released' = released \cup {Head(tasks).c}
  /\ tasks' = Rest
  /\ UNCHANGED <<conn, timers, acceptPackets, parsing, refs, online, toRelease,
                 created, deleted, connecting, outputVars, gameState>>

(* ProtocolGame::release.                                                  *)
RunRelease ==
  /\ Runs("release")
  /\ LET c == Head(tasks).c
         o == player[c]
     IN /\ released' = released \cup {c}
        /\ IF o # None /\ client[o] = c
           THEN /\ client' = [client EXCEPT ![o] = None]
                /\ Unreference({o})
                /\ player' = [player EXCEPT ![c] = None]
           ELSE UNCHANGED <<client, refs, deleted, player>>
  /\ autosend' = autosend \ {Head(tasks).c}
  /\ tasks' = Rest
  /\ UNCHANGED <<conn, timers, acceptPackets, parsing, online, toRelease, created,
                 connecting, chains, gameState>>

(* ProtocolGame::logout after its checks: disconnect, then removeCreature. *)
Logout(c, rest) ==
  /\ Close(c, rest)
  /\ RemoveCreature(player[c])
  /\ UNCHANGED <<timers, parsing, protocolVars, client, refs, created, deleted,
                 connecting>>

(* The logout task; tile, fight or script may keep the player.             *)
RunLogout ==
  /\ Runs("logout")
  /\ \/ player[Head(tasks).c] # None /\ Logout(Head(tasks).c, Rest)
     \/ /\ player[Head(tasks).c] \in online \cup {None}
        /\ tasks' = Rest
        /\ UNCHANGED <<conn, timers, parsing, protocolVars, playerVars>>
  /\ UNCHANGED <<outputVars, gameState>>

\* Player::kickPlayer
KickPlayer(o) ==
  IF client[o] # None THEN Logout(client[o], tasks)
  ELSE /\ RemoveCreature(o)
       /\ UNCHANGED <<conn, tasks, timers, parsing, protocolVars, client, refs,
                      created, deleted, connecting>>

(* For idling, by a script, or for want of pongs, which waits for one who  *)
(* is connecting.                                                          *)
Kick(o) == o \in online /\ KickPlayer(o) /\ UNCHANGED <<outputVars, gameState>>

\* mutant: a closed game kicks those with a client
KicksConnected == {o \in online : client[o] # None}

\* all players without CanAlwaysLogin
Kicked == online

(* setGameState by a script or a signal: closing and shutting down kick    *)
(* everybody; after the latter the dispatcher takes no more tasks, but     *)
(* runs those it has.                                                      *)
SetGameState(s) ==
  /\ gameState \notin {"shutdown", s}
  /\ gameState' = s
  /\ IF s = "normal" \/ Kicked = {}
     THEN UNCHANGED <<conn, tasks, timers, parsing, protocolVars, playerVars>>
     ELSE \E o \in Kicked : KickPlayer(o)
  /\ UNCHANGED outputVars

(* The player dies: removed, its client still connected.                   *)
Die(o) ==
  /\ o \in online
  /\ RemoveCreature(o)
  /\ UNCHANGED <<conn, tasks, timers, parsing, protocolVars, client, refs, created,
                 deleted, connecting, outputVars, gameState>>

\* Game::cleanup
Cleanup ==
  /\ toRelease # {}
  /\ Unreference(toRelease)
  /\ toRelease' = {}
  /\ UNCHANGED <<conn, tasks, timers, parsing, protocolVars, client, online, created,
                 connecting, outputVars, gameState>>

Next ==
  \/ RunLogin \/ RunConnect \/ RunRelease \/ RunLogout
  \/ Cleanup \/ SendAllEnds
  \/ \E o \in Objects : Kick(o) \/ Die(o)
  \/ \E c \in Conns :
       \/ FirstMessage(c) \/ NetworkClose(c) \/ Destroy(c)
       \/ BeginParse(c) \/ EndParse(c)
       \/ \E o \in Objects : TimerFires(c, o)
  \/ \E s \in {"normal", "closed", "shutdown"} : SetGameState(s)

Spec == Init /\ [][Next]_vars

-----------------------------------------------------------------------------
(* The character is in the world at most once, and not at all while the    *)
(* game is closed to it, whatever logins and connects were on their way    *)
(* when the players were kicked (setGameState, login).                     *)
OnlineAtMostOnce ==
  /\ TypeOK
  /\ Cardinality(online) <= (IF gameState = "closed" THEN 0 ELSE 1)

\* A connect of c, or of some c, to o is still to come.
Awaits(c, o) == <<c, o>> \in timers \/ [op |-> "connect", c |-> c, o |-> o] \in ToSet(tasks)

(* A login is answered: until the shutdown, a client that is connected and *)
(* has no player has its login or its connect before it.  And the player   *)
(* is not left as connecting (isConnecting keeps the kick for want of      *)
(* pongs away) once a client has it, unless another one is about to come.  *)
(* Whoever plays is sent what is buffered for it: sendAll is under way as  *)
(* long as there is a protocol to send to.                                 *)
NobodyWaitsInVain ==
  gameState # "shutdown" =>
    /\ \A c \in Conns : conn[c] = "open" /\ player[c] = None =>
         \/ [op |-> "login", c |-> c] \in ToSet(tasks)
         \/ \E o \in Objects : Awaits(c, o)
    /\ \A o \in connecting \cap online :
         \/ client[o] = None
         \/ ReleaseTask(client[o]) \in ToSet(tasks)
         \/ \E c \in Conns : Awaits(c, o)
    /\ \A c \in Conns : conn[c] = "open" /\ player[c] # None => c \in autosend
    /\ autosend \cap released = {} /\ (autosend # {} => chains > 0)

(* Protocol and player point to each other or not at all: no takeover      *)
(* leaves an old protocol with the player, or two clients with one.        *)
PointersAgree ==
  \A c \in Conns, o \in created \ deleted : player[c] = o <=> client[o] = c

(* A player is held once by its client and once by the world or the list   *)
(* of creatures to release, and is freed exactly when nothing holds it; in *)
(* particular not while the io thread parses a packet with it: the close   *)
(* that leads to release has to wait for the packet.                       *)
ReferencesExact ==
  /\ \A o \in created :
       /\ refs[o] = (IF client[o] # None THEN 1 ELSE 0)
                      + (IF o \in online \cup toRelease THEN 1 ELSE 0)
       /\ o \in deleted <=> refs[o] = 0
  /\ \A c \in Conns : parsing[c] \notin deleted

(* "ProtocolGame::release() has been called at this point ... so we return *)
(* to prevent leakage of the Player" (ProtocolGame::connect): a player's   *)
(* client is never a protocol that was released, which would keep the      *)
(* player for ever.                                                        *)
NoLeakedPlayer == \A o \in Objects : client[o] \notin released
=============================================================================
