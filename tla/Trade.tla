------------------------------- MODULE Trade -------------------------------
(***************************************************************************)
(* Trading between players (game.cpp: playerRequestTrade to                *)
(* internalCloseTrade; player.cpp: the notifications that close a trade).  *)
(* Offered items lie in their owner's inventory or on the ground, loose or *)
(* in bags, and anybody in reach may move them meanwhile.  All of this     *)
(* runs on the dispatcher thread: a handler is one action.  Two players,   *)
(* or a player and an item, are in reach when they are at the same spot.   *)
(* A stack that moves becomes a clone: it keeps its name here.             *)
(***************************************************************************)
EXTENDS Naturals, FiniteSets

CONSTANTS
  Players, Spots,
  Items,
  Bags,       \* the containers among the items
  Stackable,  \* items for which every player carries a stack with room
  Slots,      \* room of an inventory
  BagSize,    \* room of a bag
  None        \* no player, no item; nowhere

ASSUME TradeAssumption ==
  /\ Bags \subseteq Items /\ Stackable \subseteq Items \ Bags
  /\ Slots \in Nat /\ BagSize \in Nat
  /\ None \notin Players \cup Spots \cup Items
  /\ Players \cap Spots = {} /\ (Players \cup Spots) \cap Items = {}

VARIABLES
  pos,           \* a player's spot, None when logged out
  place,         \* an item's parent: player, bag or spot, None when removed
  refs,          \* Item::referenceCounter less the item's entries in
                 \* Game::ToReleaseItems, which cleanup subtracts
  tradeState, tradePartner, tradeItem,  \* Player
  tradeItems     \* Game::tradeItems, None for an item not in the map

vars == <<pos, place, refs, tradeState, tradePartner, tradeItem, tradeItems>>

(* Types; an item that was removed is in no trade.                         *)
TypeOK ==
  /\ pos \in [Players -> Spots \cup {None}]
  /\ place \in [Items -> Players \cup Bags \cup Spots \cup {None}]
  /\ refs \in [Items -> 0 .. 2]
  /\ tradeState \in [Players -> {"none", "initiated", "acknowledge", "accept"}]
  /\ tradePartner \in [Players -> Players \cup {None}]
  /\ tradeItem \in [Players -> Items \cup {None}]
  /\ tradeItems \in [Items -> Players \cup {None}]
  /\ \A i \in Items : place[i] = None => tradeItems[i] = None

Init ==
  /\ pos \in [Players -> Spots]
  /\ place \in [Items -> Players \cup Spots]
  /\ \A p \in Players : Cardinality({i \in Items : place[i] = p}) <= Slots
  /\ refs = [i \in Items |-> 1]
  /\ tradeState = [p \in Players |-> "none"]
  /\ tradePartner = [p \in Players |-> None]
  /\ tradeItem = [p \in Players |-> None]
  /\ tradeItems = [i \in Items |-> None]

-----------------------------------------------------------------------------
\* getTopParent
Top(i) ==
  LET top[j \in Items] == IF place[j] \in Bags THEN top[place[j]] ELSE place[j]
  IN top[i]

\* isHoldingItem: i lies in b, or in a bag in b
Inside(i, b) ==
  LET in[j \in Items] == place[j] = b \/ (place[j] \in Bags /\ in[place[j]])
  IN i \in Items /\ b \in Bags /\ in[i]

\* where an item is
Spot(i) == LET t == Top(i) IN IF t \in Players THEN pos[t] ELSE t

Room(x) ==
  LET n == Cardinality({i \in Items : place[i] = x})
  IN CASE x \in Players -> n < Slots
       [] x \in Bags -> n < BagSize
       [] OTHER -> TRUE

\* mutant: the partner's offer is not released
CloseOneSide(P, gone) ==
  LET C == P \cup ({tradePartner[p] : p \in P} \ {None})
      offered == {i \in Items : \E p \in P : tradeItem[p] = i /\ tradeItems[i] # None}
      due(i) == (IF i \in offered THEN 1 ELSE 0) + (IF i \in gone THEN 1 ELSE 0)
  IN /\ tradeState' = [p \in Players |-> IF p \in C THEN "none" ELSE tradeState[p]]
     /\ tradePartner' = [p \in Players |-> IF p \in C THEN None ELSE tradePartner[p]]
     /\ tradeItem' = [p \in Players |-> IF p \in C THEN None ELSE tradeItem[p]]
     /\ tradeItems' = [i \in Items |-> IF i \in offered THEN None ELSE tradeItems[i]]
     /\ refs' = [i \in Items |-> refs[i] - due(i)]

(* internalCloseTrade of every player in P, while the items in gone are    *)
(* removed from the game.                                                  *)
Close(P, gone) ==
  LET C == P \cup ({tradePartner[p] : p \in P} \ {None})
      offered == {i \in Items : \E p \in C : tradeItem[p] = i /\ tradeItems[i] # None}
      due(i) == (IF i \in offered THEN 1 ELSE 0) + (IF i \in gone THEN 1 ELSE 0)
  IN /\ tradeState' = [p \in Players |-> IF p \in C THEN "none" ELSE tradeState[p]]
     /\ tradePartner' = [p \in Players |-> IF p \in C THEN None ELSE tradePartner[p]]
     /\ tradeItem' = [p \in Players |-> IF p \in C THEN None ELSE tradeItem[p]]
     /\ tradeItems' = [i \in Items |-> IF i \in offered THEN None ELSE tradeItems[i]]
     /\ refs' = [i \in Items |-> refs[i] - due(i)]

-----------------------------------------------------------------------------
(* Notifications.                                                          *)

\* mutant: a bag that holds the offer is not asked for
ConcernsItemOnly(p, i) == tradeItem[p] = i

\* onRemoveTileItem, onRemoveInventoryItem: i is the offer or holds it
Concerns(p, i) == tradeItem[p] # None /\ (tradeItem[p] = i \/ Inside(tradeItem[p], i))

(* The players whose trade closes when i leaves its place.                 *)
ClosedByRemoval(i) ==
  LET from == place[i]
      near == {p \in Players : pos[p] # None /\ pos[p] = Spot(i)}
  IN CASE from \in Players -> {p \in {from} : Concerns(p, i)}
       [] from \in Spots -> {p \in Players : Concerns(p, i)}
       [] from \in Bags ->
            {p \in near : tradeItem[p] # None /\
               \/ tradeItem[p] = i
               \/ Inside(i, tradeItem[p])
               \/ place[tradeItem[p]] # from /\ Inside(tradeItem[p], from)}
       [] OTHER -> {}

(* The players whose trade closes when something comes into to:            *)
(* onAddContainerItem, for an offered bag that grows.                      *)
ClosedByAddition(to) ==
  IF to \notin Bags THEN {}
  ELSE {p \in Players : tradeItem[p] # None /\ pos[p] = Spot(to)
                          /\ (tradeItem[p] = to \/ Inside(to, tradeItem[p]))}

Reach(p, i) == Top(i) \in {p, pos[p]}

(* internalMoveItem for a player.                                          *)
MoveItem(p, i, to) ==
  /\ pos[p] # None /\ Reach(p, i)
  /\ \/ to \in {p, pos[p]}
     \/ to \in Bags /\ to # i /\ ~Inside(to, i) /\ Reach(p, to)
  /\ to # place[i] /\ Room(to)
  /\ Close(ClosedByRemoval(i) \cup ClosedByAddition(to), {})
  /\ place' = [place EXCEPT ![i] = to]
  /\ UNCHANGED pos

(* internalRemoveItem: used up, decayed or destroyed, with what is in it.  *)
RemoveItem(i) ==
  LET gone == {j \in Items : j = i \/ Inside(j, i)}
  IN /\ place[i] # None
     /\ Close(ClosedByRemoval(i), gone)
     /\ place' = [j \in Items |-> IF j \in gone THEN None ELSE place[j]]
     /\ UNCHANGED pos

\* onCreatureMove: the offer or the partner is out of reach at s
TooFar(p, s) ==
  \/ tradeItem[p] # None /\ Top(tradeItem[p]) # p /\ Spot(tradeItem[p]) # s
  \/ tradePartner[p] # None /\ pos[tradePartner[p]] # s

Walk(p, s) ==
  /\ pos[p] \notin {s, None}
  /\ pos' = [pos EXCEPT ![p] = s]
  /\ Close(IF TooFar(p, s) THEN {p} ELSE {}, {})
  /\ UNCHANGED place

\* onRemoveCreature
Logout(p) ==
  /\ pos[p] # None
  /\ pos' = [pos EXCEPT ![p] = None]
  /\ Close(IF tradePartner[p] # None THEN {p} ELSE {}, {})
  /\ UNCHANGED place

-----------------------------------------------------------------------------
\* mutant: an item is refused only if it is offered itself
NotOfferedItself(i) == tradeItems[i] = None

\* "This item is already being traded."
NotOffered(i) ==
  \A j \in Items : tradeItems[j] # None => i # j /\ ~Inside(j, i) /\ ~Inside(i, j)

\* mutant: whom the partner trades with is not asked for
MayStartAny(p, q) ==
  tradeState[p] = "none" \/ (tradeState[p] = "acknowledge" /\ tradePartner[p] = q)

MayStart(p, q) ==
  /\ tradeState[p] = "none" \/ (tradeState[p] = "acknowledge" /\ tradePartner[p] = q)
  /\ tradeState[q] = "none" \/ tradePartner[q] = p

(* playerRequestTrade and internalStartTrade; a script may refuse.         *)
RequestTrade(p, q, i) ==
  /\ p # q /\ pos[p] # None /\ pos[q] = pos[p] /\ Reach(p, i)
  /\ NotOffered(i)
  /\ MayStart(p, q)
  /\ tradePartner' = [tradePartner EXCEPT ![p] = q,
                        ![q] = IF tradeState[q] = "none" THEN p ELSE @]
  /\ tradeState' = [tradeState EXCEPT ![p] = "initiated",
                      ![q] = IF @ = "none" THEN "acknowledge" ELSE @]
  /\ tradeItem' = [tradeItem EXCEPT ![p] = i]
  /\ tradeItems' = [tradeItems EXCEPT ![i] = p]
  /\ refs' = [refs EXCEPT ![i] = @ + 1]
  /\ UNCHANGED <<pos, place>>

(* Player::queryDestination for an item that is not stacked: a slot, else  *)
(* a bag it carries, never the one it wears and offers.                    *)
Destinations(p, i) ==
  IF Room(p) THEN {p}
  ELSE {b \in Bags \ {i} : Top(b) = p /\ Room(b)
          /\ ~(tradeItem[p] # None /\ place[tradeItem[p]] = p
                 /\ (b = tradeItem[p] \/ Inside(b, tradeItem[p])))}

\* internalAddItem as a test, which stacks
TestFits(p, i) == Destinations(p, i) # {} \/ i \in Stackable

(* The second internalMoveItem: its result is not looked at.  The first    *)
(* has freed p's slot if the item came from there.                         *)
SecondMove(p, q, to) ==
  LET a == tradeItem[p]
      b == tradeItem[q]
      freed == place[a] = p \/ Room(p)
      dests == IF freed THEN {p}
               ELSE {c \in Bags \ {a, b} : Top(c) = p /\ ~Inside(c, a)
                         /\ (Room(c) \/ place[a] = c)}
      moved == [place EXCEPT ![a] = to]
  IN IF dests = {} THEN place' = moved
     ELSE \E d \in dests : place' = [moved EXCEPT ![b] = d]

(* The exchange of playerAcceptTrade.                                      *)
Exchange(p, q) ==
  LET a == tradeItem[p]
      b == tradeItem[q]
  IN /\ a # None /\ b # None
     /\ TestFits(q, a) /\ TestFits(p, b)
     /\ \E to \in Destinations(q, a) :
          /\ to # b /\ ~Inside(to, b)
          /\ SecondMove(p, q, to)
          /\ Close({p} \cup ClosedByRemoval(a) \cup ClosedByRemoval(b)
                     \cup ClosedByAddition(to), {})

(* playerAcceptTrade: the second to accept makes the trade, which a script,*)
(* an obstacle, a lack of room or a missing offer ends without exchange.   *)
Accept(p) ==
  LET q == tradePartner[p]
  IN /\ pos[p] # None
     /\ tradeState[p] \in {"acknowledge", "initiated"} /\ q # None
     /\ IF tradeState[q] # "accept"
        THEN /\ tradeState' = [tradeState EXCEPT ![p] = "accept"]
             /\ UNCHANGED <<place, refs, tradePartner, tradeItem, tradeItems>>
        ELSE \/ Close({p}, {}) /\ UNCHANGED place
             \/ Exchange(p, q)
     /\ UNCHANGED pos

CloseTrade(p) ==
  /\ pos[p] # None /\ tradePartner[p] # None
  /\ Close({p}, {})
  /\ UNCHANGED <<pos, place>>

Next ==
  \/ \E p \in Players : Accept(p) \/ CloseTrade(p) \/ Logout(p)
  \/ \E p, q \in Players, i \in Items : RequestTrade(p, q, i)
  \/ \E p \in Players, i \in Items, to \in Players \cup Spots \cup Bags : MoveItem(p, i, to)
  \/ \E p \in Players, s \in Spots : Walk(p, s)
  \/ \E i \in Items : RemoveItem(i)

Spec == Init /\ [][Next]_vars

-----------------------------------------------------------------------------
(* The two sides of a trade agree that they trade and with whom: no third  *)
(* player, walk, move or logout leaves one side in a trade alone.          *)
PartnersAgree ==
  /\ \A p, q \in Players : tradePartner[p] = q => p # q /\ tradePartner[q] = p
  /\ \A p \in Players :
       /\ tradeState[p] = "none" <=> tradePartner[p] = None
       /\ tradeState[p] \in {"none", "acknowledge"} => tradeItem[p] = None
       /\ pos[p] = None => tradeState[p] = "none"

(* Game::tradeItems has exactly the offers, each with its owner, and each  *)
(* offer exists and is referenced once by the world and once by the trade. *)
OffersReferenced ==
  \A i \in Items :
    /\ \A p \in Players : tradeItems[i] = p <=> tradeItem[p] = i
    /\ refs[i] = (IF place[i] # None THEN 1 ELSE 0)
                   + (IF tradeItems[i] # None THEN 1 ELSE 0)

(* An offer stays where its owner can hand it over, and the partner near;  *)
(* and no two offers overlap: neither is the other or lies in it, though   *)
(* bags and what is in them are moved while offered.                       *)
OffersInReach ==
  /\ \A p \in Players :
       /\ tradeItem[p] # None => Reach(p, tradeItem[p])
       /\ tradePartner[p] # None => pos[tradePartner[p]] = pos[p]
  /\ \A p, q \in Players :
       p # q /\ tradeItem[p] # None /\ tradeItem[q] # None
         => tradeItem[p] # tradeItem[q] /\ ~Inside(tradeItem[p], tradeItem[q])

(* "safe-trade functions" (player.h): a trade that hands over one side's   *)
(* item hands over the other's.                                            *)
SafeTrade ==
  [][\A p \in Players :
       Accept(p) /\ place' # place
         => \A i \in Items : i = tradeItem[tradePartner[p]] => Top(i)' = p]_vars
=============================================================================
