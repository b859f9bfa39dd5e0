------------------------------ MODULE WaitList ------------------------------
(***************************************************************************)
(* The waiting list of a full server (protocolgame.cpp, findClient to      *)
(* clientLogin, called by ProtocolGame::login on the dispatcher thread).   *)
(* Time goes in steps of 5 seconds; an entry keeps the steps left until    *)
(* its timeout.                                                            *)
(***************************************************************************)
EXTENDS Naturals, Sequences, FiniteSets, SequencesExt

CONSTANTS
  Players,     \* characters by their guid
  Premium,     \* those of premium accounts
  Privileged,  \* those that can always log in
  MaxPlayers,  \* config maxPlayers, 0 for no limit
  NoPlayer     \* a guid nobody has

ASSUME PlayersAssumption ==
  /\ IsFiniteSet(Players) /\ Premium \subseteq Players /\ Privileged \subseteq Players
  /\ MaxPlayers \in Nat /\ NoPlayer \notin Players

VARIABLES
  priorityWaitList, waitList,  \* entries in order of arrival
  online,                      \* Game::players
  tried,                       \* bound: one attempt of a client in 5 seconds
  last                         \* history: the result of clientLogin, if it ran last

waitVars == <<priorityWaitList, waitList, online, tried, last>>

Entry == [left : 0 .. 27, guid : Players \cup {NoPlayer}]
Guids(list) == {list[i].guid : i \in DOMAIN list}
Unique(list) ==
  \A i, j \in DOMAIN list : list[i].guid = list[j].guid /\ list[i].guid # NoPlayer => i = j

(* Types; a client that is online is not listed any more, and none is      *)
(* listed twice, in one list or across both, though the entry of one who   *)
(* waits on is overwritten and a new one made.                             *)
WaitTypeOK ==
  /\ priorityWaitList \in Seq(Entry) /\ waitList \in Seq(Entry)
  /\ online \subseteq Players /\ tried \subseteq Players
  /\ last \in [guid : Players \cup {NoPlayer}, slot : Nat]
  /\ (Guids(priorityWaitList) \cup Guids(waitList)) \cap online = {}
  /\ Unique(priorityWaitList) /\ Unique(waitList)
  /\ Guids(priorityWaitList) \cap Guids(waitList) \subseteq {NoPlayer}

NoResult == [guid |-> NoPlayer, slot |-> 0]

WaitInit ==
  /\ priorityWaitList = <<>> /\ waitList = <<>>
  /\ online = {}
  /\ tried = {}
  /\ last = NoResult

-----------------------------------------------------------------------------
\* getWaitTime and getTimeout, in steps of 5 seconds
WaitTime(slot) ==
  CASE slot < 5  -> 1
    [] slot >= 5 /\ slot < 10 -> 2
    [] slot >= 10 /\ slot < 20 -> 4
    [] slot >= 20 /\ slot < 50 -> 12
    [] OTHER -> 24
Timeout(slot) == WaitTime(slot) + 3

\* cleanupList: what a walk over the list leaves
CleanUp(list) ==
  LET f[n \in 0 .. Len(list)] ==
        IF n = 0 THEN <<>>
        ELSE IF list[n].left > 0 THEN Append(f[n - 1], list[n]) ELSE f[n - 1]
  IN  f[Len(list)]

Find(list, p) == CHOOSE i \in DOMAIN list : list[i].guid = p

\* findClient's third component: the distance to the END of the list, + 1
SlotIn(list, p) == Len(list) - Find(list, p) + 2

\* mutants: only one of the lists is looked at; the room test is dropped
FindsOnlyNormal(p, prio, normal) ==
  IF p \in Guids(normal) THEN Len(prio) + SlotIn(normal, p) ELSE 0
HasRoomAlways(slot) == TRUE

\* findClient: a listed client's slot, 0 for one it does not find
ListedSlot(p, prio, normal) ==
  IF p \in Guids(prio) THEN SlotIn(prio, p)
  ELSE IF p \in Guids(normal) THEN Len(prio) + SlotIn(normal, p)
  ELSE 0

HasRoom(slot) == Cardinality(online) + slot <= MaxPlayers

\* mutant: a newcomer is let in whenever there is room
DirectAccessIfRoom(prio, normal) ==
  MaxPlayers = 0 \/ Cardinality(online) < MaxPlayers

DirectAccess(prio, normal) ==
  \/ MaxPlayers = 0
  \/ prio = <<>> /\ normal = <<>> /\ Cardinality(online) < MaxPlayers

Without(list, p) == IF p \in Guids(list) THEN RemoveAt(list, Find(list, p)) ELSE list

(* The entry of a client that has to wait on: "->second" is the guid, so   *)
(* the new time goes there and the timeout stays.                          *)
WaitOn(list, p) ==
  [i \in DOMAIN list |->
     IF list[i].guid = p THEN [list[i] EXCEPT !.guid = NoPlayer] ELSE list[i]]

(* clientLogin for p, and what login makes of it: a client with slot 0 is  *)
(* loaded and placed, which may fail.                                      *)
Lets(p, prio, normal, placed) ==
  /\ priorityWaitList' = prio /\ waitList' = normal
  /\ online' = IF placed THEN online \cup {p} ELSE online
  /\ last' = [guid |-> p, slot |-> 0]

Refuses(p, prio, normal, slot) ==
  /\ priorityWaitList' = prio /\ waitList' = normal
  /\ last' = [guid |-> p, slot |-> slot]
  /\ UNCHANGED online

TryLogin(p, placed) ==
  /\ p \notin online \cup tried
  /\ tried' = tried \cup {p}
  /\ \/ p \in Privileged /\ Lets(p, priorityWaitList, waitList, placed)
     \/ /\ p \notin Privileged
        /\ LET prio == CleanUp(priorityWaitList)
               normal == CleanUp(waitList)
               slot == ListedSlot(p, prio, normal)
               new == Len(prio) + 1 + (IF p \in Premium THEN 0 ELSE Len(normal))
               entry == [left |-> Timeout(new), guid |-> p]
           IN  \/ DirectAccess(prio, normal) /\ Lets(p, prio, normal, placed)
               \/ /\ ~DirectAccess(prio, normal)
                  /\ \/ /\ slot > 0 /\ HasRoom(slot)
                        /\ Lets(p, Without(prio, p), Without(normal, p), placed)
                     \/ /\ slot > 0 /\ ~HasRoom(slot)
                        /\ Refuses(p, WaitOn(prio, p), WaitOn(normal, p), slot)
                     \/ /\ slot = 0 /\ p \in Premium
                        /\ Refuses(p, Append(prio, entry), normal, new)
                     \/ /\ slot = 0 /\ p \notin Premium
                        /\ Refuses(p, prio, Append(normal, entry), new)

\* Game::removePlayer
Logout(p) ==
  /\ p \in online
  /\ online' = online \ {p}
  /\ last' = NoResult
  /\ UNCHANGED <<priorityWaitList, waitList, tried>>

\* the time left of every entry shrinks
Aged(list) ==
  [i \in DOMAIN list |-> [list[i] EXCEPT !.left = IF @ = 0 THEN 0 ELSE @ - 1]]

FiveSeconds ==
  /\ priorityWaitList' = Aged(priorityWaitList) /\ waitList' = Aged(waitList)
  /\ tried' = {}
  /\ last' = NoResult
  /\ UNCHANGED online

WaitNext ==
  \/ \E p \in Players, placed \in BOOLEAN : TryLogin(p, placed)
  \/ \E p \in Players : Logout(p)
  \/ FiveSeconds

WaitSpec == WaitInit /\ [][WaitNext]_waitVars

-----------------------------------------------------------------------------
Comes(p) == p \in tried' \ tried
Live(list) == CleanUp(list)
Waits(p) == p \in Guids(Live(priorityWaitList)) \cup Guids(Live(waitList))

(* A client without privilege never comes in over the limit, whichever of  *)
(* the ways in it takes.                                                   *)
NeverOverLimit ==
  [][\A p \in online' \ online :
       p \in Privileged \/ MaxPlayers = 0 \/ Cardinality(online') <= MaxPlayers]_waitVars

(* A newcomer does not pass those who wait.                                *)
NobodyJumpsTheQueue ==
  [][\A p \in online' \ online :
       p \in Privileged \/ Waits(p) \/ MaxPlayers = 0
         \/ (Live(priorityWaitList) = <<>> /\ Live(waitList) = <<>>)]_waitVars

(* "let them wait a bit longer" (protocolgame.cpp): a waiting client that  *)
(* is refused again stays in the list.                                     *)
RefusedClientKeepsWaiting ==
  [][\A p \in Players : Comes(p) /\ Waits(p) /\ last'.slot > 0 => Waits(p)']_waitVars
=============================================================================
