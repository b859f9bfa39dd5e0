------------------------------- MODULE Party -------------------------------
(***************************************************************************)
(* Parties of players and the chat channel of a party (party.cpp, the      *)
(* party and channel commands of game.cpp, chat.cpp).  A party is an       *)
(* object at an address; its leader and members point to it, and it points *)
(* to them and to the players it invites, who keep a list of the parties   *)
(* that invite them.  The object deletes itself when the party is empty,   *)
(* and the address may serve a later one.  Chat keeps the channel of a     *)
(* party under that address.                                               *)
(*                                                                         *)
(* Every action is one command run by the dispatcher.  A script that       *)
(* refuses a command, or the fighting that forbids to leave, leaves all as *)
(* it was: no step.  A script that refuses a disbanding, which none of the *)
(* data does, and shared experience are left out.                          *)
(***************************************************************************)
EXTENDS SequencesExt

CONSTANTS
  Player,                      \* the players that may be in the world
  Address,                     \* the addresses a party may be allocated at
  None                         \* no player, no party

ASSUME NoneAssumption == None \notin Player /\ None \notin Address

VARIABLES
  online,                      \* the players in the world
  partyOf,                     \* Player::party
  invitePartyList,             \* Player::invitePartyList, the order left out
  party,                       \* the party at each address
  partyChannels                \* Chat::partyChannels: the users of each channel

vars == <<online, partyOf, invitePartyList, party, partyChannels>>

NoParty == [leader |-> None, memberList |-> <<>>, inviteList |-> {}]

Live == {a \in Address : party[a] # NoParty}

Members(a) == Range(party[a].memberList)

Participants(a) == Members(a) \cup {party[a].leader}

Empty(pt) == pt.memberList = <<>> /\ pt.inviteList = {}

Leads(p) == partyOf[p] # None /\ party[partyOf[p]].leader = p

IsInviting(p, q) == Leads(p) /\ q \in party[partyOf[p]].inviteList

PartyChannel(p) == IF partyOf[p] \in DOMAIN partyChannels THEN {partyOf[p]} ELSE {}
-----------------------------------------------------------------------------
Init ==
  /\ online = {}
  /\ partyOf = [p \in Player |-> None]
  /\ invitePartyList = [p \in Player |-> {}]
  /\ party = [a \in Address |-> NoParty]
  /\ partyChannels = <<>>

Login(p) ==
  /\ p \notin online
  /\ online' = online \cup {p}
  /\ UNCHANGED <<partyOf, invitePartyList, party, partyChannels>>

\* The commands below leave the world and the channels as they are.
KeepRest == UNCHANGED <<online, partyChannels>>

\* A player without a party founds one at a free address by inviting.
Invite(p, q) ==
  /\ {p, q} \subseteq online /\ p # q
  /\ ~IsInviting(q, p) /\ partyOf[q] = None
  /\ \E a \in Address :
       /\ \/ partyOf[p] = None /\ a \notin Live
          \/ Leads(p) /\ a = partyOf[p]
       /\ q \notin party[a].inviteList
       /\ party' = [party EXCEPT ![a].leader = p, ![a].inviteList = @ \cup {q}]
       /\ partyOf' = [partyOf EXCEPT ![p] = a]
       /\ invitePartyList' = [invitePartyList EXCEPT ![q] = @ \cup {a}]
  /\ KeepRest

Join(p, l) ==
  /\ {p, l} \subseteq online
  /\ IsInviting(l, p) /\ partyOf[p] = None
  /\ LET a == partyOf[l]
     IN  /\ party' = [party EXCEPT ![a].inviteList = @ \ {p},
                                   ![a].memberList = Append(@, p)]
         /\ partyOf' = [partyOf EXCEPT ![p] = a]
         /\ invitePartyList' = [invitePartyList EXCEPT ![p] = @ \ {a}]
  /\ KeepRest

\* The parties A when each takes p off its list; those left empty disband.
DropsInvite(A, p) == [a \in A |-> [party[a] EXCEPT !.inviteList = @ \ {p}]]

\* mutant: the invitations still open are not counted
DisbandingByMembers(pts) == {a \in DOMAIN pts : pts[a].memberList = <<>>}

Disbanding(pts) == {a \in DOMAIN pts : Empty(pts[a])}

\* Disband every party of D: its people and those it invited are let go.
LetGo(D) == [q \in Player |-> IF partyOf[q] \in D THEN None ELSE partyOf[q]]

\* Chat::removeUserFromChannel for the players who were sent the closing of
\* the channel: it is looked up through Player::party, as it is by then.
CloseChannel(people) ==
  partyChannels' = [a \in DOMAIN partyChannels |->
                      partyChannels[a] \ {p \in people : partyOf'[p] = a}]

RevokeInvitation(p, q) ==
  /\ p \in online /\ IsInviting(p, q)
  /\ LET a    == partyOf[p]
         left == DropsInvite({a}, q)
         D    == Disbanding(left)
     IN  /\ party' = [party EXCEPT ![a] = IF a \in D THEN NoParty ELSE left[a]]
         /\ partyOf' = LetGo(D)
         /\ invitePartyList' = [invitePartyList EXCEPT ![q] = @ \ {a}]
  /\ CloseChannel(IF partyOf'[p] = None THEN {p} ELSE {})
  /\ UNCHANGED online

\* mutant: the old leader is not made a member
PassToOnly(pt, q) == [pt EXCEPT !.leader = q, !.memberList = RemoveFirst(@, q)]

\* The party pt led by q: the old leader goes to the head of the members.
PassTo(pt, q) ==
  [pt EXCEPT !.leader = q, !.memberList = <<pt.leader>> \o RemoveFirst(@, q)]

PassLeadership(p, q) ==
  /\ p \in online /\ Leads(p)
  /\ q # p /\ partyOf[q] = partyOf[p]
  /\ party' = [party EXCEPT ![partyOf[p]] = PassTo(@, q)]
  /\ UNCHANGED <<partyOf, invitePartyList>>
  /\ KeepRest

\* The party pt without p; a leader with nobody to follow leaves it empty.
LeftBy(pt, p) ==
  LET last   == Len(pt.memberList) = 1 /\ pt.inviteList = {}
      passed == IF pt.leader = p /\ pt.memberList # <<>> /\ ~last
                THEN PassTo(pt, Head(pt.memberList)) ELSE pt
      rest   == [passed EXCEPT !.memberList = RemoveFirst(@, p)]
  IN  IF rest.leader = p \/ Empty(rest) THEN NoParty ELSE rest

LeaveParty(p) ==
  /\ p \in online /\ partyOf[p] # None
  /\ LET a    == partyOf[p]
         left == LeftBy(party[a], p)
         gone == IF left = NoParty THEN Participants(a) ELSE {p}
     IN  /\ party' = [party EXCEPT ![a] = left]
         /\ partyOf' = [q \in Player |-> IF q \in gone THEN None ELSE partyOf[q]]
         /\ invitePartyList' = [q \in Player |->
              IF left = NoParty THEN invitePartyList[q] \ {a} ELSE invitePartyList[q]]
         /\ CloseChannel(gone)
  /\ UNCHANGED online
-----------------------------------------------------------------------------
\* Opening the list of channels makes the party's channel if there is none.
RequestChannels(p) ==
  /\ p \in online /\ partyOf[p] # None /\ PartyChannel(p) = {}
  /\ partyChannels' = [a \in DOMAIN partyChannels \cup {partyOf[p]} |->
                         IF a \in DOMAIN partyChannels THEN partyChannels[a] ELSE {}]
  /\ UNCHANGED <<online, partyOf, invitePartyList, party>>

OpenChannel(p) ==
  /\ p \in online
  /\ \E a \in PartyChannel(p) :
       partyChannels' = [partyChannels EXCEPT ![a] = @ \cup {p}]
  /\ UNCHANGED <<online, partyOf, invitePartyList, party>>

LeaveChannel(p) ==
  /\ p \in online
  /\ \E a \in PartyChannel(p) :
       partyChannels' = [partyChannels EXCEPT ![a] = @ \ {p}]
  /\ UNCHANGED <<online, partyOf, invitePartyList, party>>

RemoveFromChannels(p) ==
  partyChannels' = [a \in DOMAIN partyChannels |-> partyChannels[a] \ {p}]

\* Player::onRemoveCreature: the invitations, then the party, then the chat.
Logout(p) ==
  /\ p \in online /\ online' = online \ {p}
  /\ LET dropped == DropsInvite(invitePartyList[p], p)
         D       == Disbanding(dropped)
         own     == partyOf[p]
         left    == IF own = None THEN NoParty ELSE LeftBy(party[own], p)
         D2      == IF own # None /\ left = NoParty THEN D \cup {own} ELSE D
     IN  /\ party' = [a \in Address |->
              IF a \in D2 THEN NoParty
              ELSE IF a = own THEN left
              ELSE IF a \in DOMAIN dropped THEN dropped[a] ELSE party[a]]
         /\ partyOf' = [LetGo(D2) EXCEPT ![p] = None]
         /\ invitePartyList' = [q \in Player |->
              IF q = p THEN {} ELSE invitePartyList[q] \ D2]
  /\ RemoveFromChannels(p)

Next ==
  \/ \E p \in Player : \/ Login(p) \/ Logout(p) \/ LeaveParty(p)
                       \/ RequestChannels(p) \/ OpenChannel(p) \/ LeaveChannel(p)
  \/ \E p, q \in Player : \/ Invite(p, q) \/ Join(p, q)
                          \/ RevokeInvitation(p, q) \/ PassLeadership(p, q)

Spec == Init /\ [][Next]_vars
-----------------------------------------------------------------------------
\* The variables hold values of their kinds.
TypeOK ==
  /\ online \subseteq Player
  /\ partyOf \in [Player -> Address \cup {None}]
  /\ invitePartyList \in [Player -> SUBSET Address]
  /\ DOMAIN party = Address
  /\ \A a \in Live : /\ party[a].leader \in Player
                     /\ Members(a) \subseteq Player
                     /\ party[a].inviteList \subseteq Player
  /\ DOMAIN partyChannels \subseteq Address

(* The pointers of players and parties agree both ways: a player points to *)
(* the one party that counts him, once, as leader or member; he lists just *)
(* the parties that invite him; and nobody who has left the world, and no  *)
(* party that has deleted itself, is pointed to (party.cpp, logout), nor   *)
(* a user of a channel (ChatChannel::users are Player pointers).           *)
PointersAgree ==
  /\ TypeOK
  /\ \A a \in DOMAIN partyChannels : partyChannels[a] \subseteq online
  /\ \A a \in Live : IsInjective(<<party[a].leader>> \o party[a].memberList)
  /\ \A p \in Player, a \in Address :
       /\ partyOf[p] = a <=> a \in Live /\ p \in Participants(a)
       /\ a \in invitePartyList[p] <=> p \in party[a].inviteList
  /\ \A p \in Player \ online : partyOf[p] = None /\ invitePartyList[p] = {}

F == INSTANCE Fellowship WITH
       present <- online,
       fellowships <- {[leader  |-> party[a].leader,
                        others  |-> Members(a),
                        invited |-> party[a].inviteList] : a \in Live}

(* Whatever the pointers, addresses and channels do, the players see no    *)
(* more than the promise of Fellowship: a party with its leader at most    *)
(* ends, leadership goes to one of the others, and the logout of a player  *)
(* ends his invitations and his part in a party in one step.               *)
ImplementsFellowship == F!Spec

(* The channel of a party is for its members: "Open the party channel to   *)
(* communicate with your companions" (party.cpp, joinParty).               *)
OnlyPartnersListen ==
  \A a \in DOMAIN partyChannels : partyChannels[a] \subseteq Participants(a)
=============================================================================
