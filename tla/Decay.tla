------------------------------- MODULE Decay -------------------------------
(***************************************************************************)
(* Items that decay, and the references that keep items alive (game.cpp:   *)
(* startDecay to ReleaseItem; Item::setID, clone, canDecay).  A list that  *)
(* holds an item holds a reference to it.  All of it runs on the           *)
(* dispatcher thread: a handler is one action, except that checkDecay is   *)
(* one action per list entry, with nothing else in between.                *)
(*                                                                         *)
(* A list is the number of times each item is in it.  Items freed are used *)
(* again, as memory is.  Durations are in milliseconds.  Containment is    *)
(* left out: an item is in the world or not.                               *)
(***************************************************************************)
EXTENDS Integers

CONSTANTS
  Items,
  Types,
  Kind,          \* ItemType::type and group, for a type
  DecayTimes,    \* a type's durations, decayTimeMin to decayTimeMax; {} for none
  StopTime,      \* the types that keep a running duration
  DecayTo,       \* the type a type decays to, Gone or Never
  Saved,         \* durations that are left to items loaded with the map
  MaxRefs,       \* bound of the references to an item
  Gone, Never, None

Durations == Saved \cup UNION {DecayTimes[t] : t \in Types}

\* what data/items/items.xml keeps to: a type that is timed does not stop, and
\* does not decay to one that does
ASSUME DecayAssumption ==
  /\ DecayTimes \in [Types -> SUBSET (Nat \ {0})]
  /\ Saved \subseteq Nat \ {0} /\ MaxRefs \in Nat
  /\ DecayTo \in [Types -> Types \cup {Gone, Never}]
  /\ StopTime \subseteq Types
  /\ Gone \notin Types \cup {Never} /\ Never \notin Types
  /\ None \notin Types \cup Nat
  /\ \A t \in Types : DecayTimes[t] # {} =>
       t \notin StopTime /\ DecayTo[t] # Never /\ DecayTo[t] \notin StopTime

EVENT_DECAYINTERVAL == 250
EVENT_DECAY_BUCKETS == 4
Buckets == 0 .. EVENT_DECAY_BUCKETS - 1

VARIABLES
  item,         \* what each item is; Blank if it is freed
  refs,         \* Item::referenceCounter
  toDecay,      \* Game::toDecayItems
  decayItems,   \* Game::decayItems
  toRelease,    \* Game::ToReleaseItems
  lastBucket,
  checking,     \* within checkDecay
  todo          \* the entries it has still to look at

vars == <<item, refs, toDecay, decayItems, toRelease, lastBucket, checking, todo>>

Blank == [type |-> None, placed |-> FALSE, decaying |-> FALSE, duration |-> None]

Attributes == [type : Types, placed : BOOLEAN, decaying : BOOLEAN,
               duration : Int \cup {None}]

(* Types; a reference is released at most as often as it is held, and an   *)
(* item without references is freed.                                       *)
TypeOK ==
  /\ item \in [Items -> Attributes \cup {Blank}]
  /\ refs \in [Items -> Nat]
  /\ toDecay \in [Items -> Nat]
  /\ decayItems \in [Items -> [Buckets -> Nat]]
  /\ toRelease \in [Items -> Nat]
  /\ todo \in [Items -> Nat]
  /\ lastBucket \in Buckets
  /\ checking \in BOOLEAN
  /\ \A i \in Items : toRelease[i] <= refs[i] /\ (refs[i] = 0 <=> item[i] = Blank)

Init ==
  /\ item = [i \in Items |-> Blank]
  /\ refs = [i \in Items |-> 0]
  /\ toDecay = [i \in Items |-> 0]
  /\ decayItems = [i \in Items |-> [b \in Buckets |-> 0]]
  /\ toRelease = [i \in Items |-> 0]
  /\ todo = [i \in Items |-> 0]
  /\ lastBucket = 0
  /\ checking = FALSE

-----------------------------------------------------------------------------
Fresh == {i \in Items : refs[i] = 0}

CanDecay(x) == x.placed /\ DecayTo[x.type] # Never /\ DecayTimes[x.type] # {}

\* getDuration() > 0
Lasts(x) == x.duration # None /\ x.duration > 0

\* the durations of a new item of type t, None for no such attribute
DefaultDurations(t) == IF DecayTimes[t] = {} THEN {None} ELSE DecayTimes[t]

Created(t, d) == [type |-> t, placed |-> TRUE, decaying |-> FALSE, duration |-> d]

(* Item::setID, with the duration d that was drawn.                        *)
SetID(x, t, d) ==
  IF d = None
  THEN IF t \notin StopTime /\ DecayTo[t] = Never
       THEN [x EXCEPT !.type = t, !.decaying = FALSE, !.duration = None]
       ELSE [x EXCEPT !.type = t]
  ELSE IF x.type \notin StopTime \/ x.duration = None
       THEN [x EXCEPT !.type = t, !.decaying = FALSE, !.duration = d]
       ELSE [x EXCEPT !.type = t]

(* The item i becomes x; if starts, it is put on toDecayItems.             *)
Becomes(i, x, starts) ==
  /\ item' = [item EXCEPT ![i] = [x EXCEPT !.decaying = @ \/ starts]]
  /\ refs' = [refs EXCEPT ![i] = IF starts THEN @ + 1 ELSE @]
  /\ toDecay' = [toDecay EXCEPT ![i] = IF starts THEN @ + 1 ELSE @]

(* A new item j, on toDecayItems n times.                                  *)
Appears(j, x, n) ==
  /\ item' = [item EXCEPT ![j] = [x EXCEPT !.decaying = @ \/ n > 0]]
  /\ refs' = [refs EXCEPT ![j] = 1 + n]
  /\ toDecay' = [toDecay EXCEPT ![j] = n]

(* The item i, now x, leaves the world, and j comes instead.               *)
Replaces(i, x, j, y, n) ==
  /\ item' = [item EXCEPT ![i] = [x EXCEPT !.placed = FALSE],
                          ![j] = [y EXCEPT !.decaying = @ \/ n > 0]]
  /\ refs' = [refs EXCEPT ![j] = 1 + n]
  /\ toDecay' = [toDecay EXCEPT ![j] = n]

Release(i, n) == toRelease' = [toRelease EXCEPT ![i] = @ + n]

(* transformItem of i, which is x, and startDecay of the result if decays, *)
(* with n releases of i to come.                                           *)
Transforms(i, x, t, decays, n) ==
  \E d \in DefaultDurations(t) :
    IF Kind[t] = Kind[x.type]
    THEN LET y == SetID(x, t, d)
         IN /\ Becomes(i, y, decays /\ CanDecay(y) /\ ~y.decaying)
            /\ Release(i, n)
    ELSE \E j \in Fresh :
           /\ Replaces(i, x, j, Created(t, d), IF d = None THEN 0 ELSE 1)
           /\ Release(i, n + 1)

(* internalDecayItem of i, which is x, with n releases of i to come.       *)
DecaysTo(i, x, n) ==
  IF DecayTo[x.type] = Gone
  THEN /\ Becomes(i, [x EXCEPT !.placed = FALSE], FALSE)
       /\ Release(i, n + 1)
  ELSE Transforms(i, x, DecayTo[x.type], TRUE, n)

-----------------------------------------------------------------------------
(* Between the checks.                                                     *)

Idle == ~checking /\ UNCHANGED <<decayItems, lastBucket, checking, todo>>

\* CreateItem and internalAddItem
AddItem(j, t) ==
  /\ Idle /\ j \in Fresh
  /\ \E d \in DefaultDurations(t) :
       Appears(j, Created(t, d), IF d = None THEN 0 ELSE 1)
  /\ UNCHANGED toRelease

\* an item of the map, startDecaying
LoadItem(j, t, d) ==
  LET x == Created(t, d)
  IN /\ Idle /\ j \in Fresh
     /\ Appears(j, x, IF CanDecay(x) THEN 1 ELSE 0)
     /\ UNCHANGED toRelease

\* clone, which starts the decay, and internalAddItem, which does it again
AddClone(i, j) ==
  /\ Idle /\ item[i].placed /\ j \in Fresh
  /\ Appears(j, item[i], IF Lasts(item[i]) THEN 2 ELSE 0)
  /\ UNCHANGED toRelease

\* internalMoveItem
MoveItem(i) ==
  /\ Idle /\ item[i].placed /\ refs[i] < MaxRefs
  /\ Becomes(i, item[i], Lasts(item[i]) /\ ~item[i].decaying)
  /\ UNCHANGED toRelease

\* internalMoveItem of a stack, which is cloned
MoveStack(i, j) ==
  /\ Idle /\ item[i].placed /\ j \in Fresh
  /\ Replaces(i, item[i], j, item[i], IF Lasts(item[i]) THEN 1 ELSE 0)
  /\ Release(i, 1)

\* mutant: the entries of the item are released, but left in the list
RemoveItemTwice(i) ==
  /\ Idle /\ item[i].placed
  /\ Becomes(i, [item[i] EXCEPT !.placed = FALSE], FALSE)
  /\ Release(i, 1 + decayItems[i][0])

\* internalRemoveItem
RemoveItem(i) ==
  /\ Idle /\ item[i].placed
  /\ Becomes(i, [item[i] EXCEPT !.placed = FALSE], FALSE)
  /\ Release(i, 1)

\* item:transform of a script, with or without item:decay; equipment
TransformItem(i, t) ==
  /\ Idle /\ item[i].placed /\ t # item[i].type /\ refs[i] < MaxRefs
  /\ \E decays \in BOOLEAN : Transforms(i, item[i], t, decays, 0)

StartDecay(i) ==
  /\ Idle /\ item[i].placed /\ refs[i] < MaxRefs
  /\ CanDecay(item[i]) /\ ~item[i].decaying
  /\ IF Lasts(item[i])
     THEN Becomes(i, item[i], TRUE) /\ UNCHANGED toRelease
     ELSE DecaysTo(i, item[i], 0)

-----------------------------------------------------------------------------
(* The checks.                                                             *)

NextBucket == (lastBucket + 1) % EVENT_DECAY_BUCKETS

CheckDecay ==
  /\ ~checking
  /\ checking' = TRUE
  /\ todo' = [i \in Items |-> decayItems[i][NextBucket]]
  /\ decayItems' = [i \in Items |-> [decayItems[i] EXCEPT ![NextBucket] = 0]]
  /\ UNCHANGED <<item, refs, toDecay, toRelease, lastBucket>>

\* mutant: the state of an item that cannot decay any more is left
DropEntryDecaying(i, x) ==
  /\ ~CanDecay(x)
  /\ Becomes(i, x, FALSE)
  /\ Release(i, 1)
  /\ UNCHANGED decayItems

\* mutant: the reference of the entry is kept
DropEntryHolding(i, x) ==
  /\ ~CanDecay(x)
  /\ Becomes(i, [x EXCEPT !.decaying = FALSE], FALSE)
  /\ UNCHANGED <<decayItems, toRelease>>

DropEntry(i, x) ==
  /\ ~CanDecay(x)
  /\ Becomes(i, [x EXCEPT !.decaying = FALSE], FALSE)
  /\ Release(i, 1)
  /\ UNCHANGED decayItems

Keep(i, x, b) ==
  /\ Becomes(i, x, FALSE)
  /\ decayItems' = [decayItems EXCEPT ![i][b] = @ + 1]
  /\ UNCHANGED toRelease

\* a second less is left to the item
Aged(x) ==
  LET d == IF x.duration = None THEN 0 ELSE x.duration
      second == EVENT_DECAYINTERVAL * EVENT_DECAY_BUCKETS
  IN [x EXCEPT !.duration = d - (IF d < second THEN d ELSE second)]

DecreaseDuration(i, x) ==
  LET y == Aged(x)
      newBucket == (NextBucket + (y.duration + EVENT_DECAYINTERVAL \div 2) \div 1000)
                     % EVENT_DECAY_BUCKETS
      bucket == IF y.duration < EVENT_DECAYINTERVAL * EVENT_DECAY_BUCKETS
                THEN newBucket ELSE NextBucket
      over == \/ y.duration <= 0
              \/ y.duration < EVENT_DECAYINTERVAL * EVENT_DECAY_BUCKETS
                   /\ newBucket = NextBucket
  IN /\ CanDecay(x)
     /\ IF over THEN DecaysTo(i, y, 1) /\ UNCHANGED decayItems
                ELSE Keep(i, y, bucket)

CheckEntry(i) ==
  /\ checking /\ todo[i] > 0
  /\ todo' = [todo EXCEPT ![i] = @ - 1]
  /\ DropEntry(i, item[i]) \/ DecreaseDuration(i, item[i])
  /\ UNCHANGED <<lastBucket, checking>>

\* the list an item of duration d is put on after bucket last
Slot(d, last) ==
  LET ms == IF d = None THEN 0 ELSE d
  IN IF ms >= EVENT_DECAYINTERVAL * EVENT_DECAY_BUCKETS THEN last
     ELSE (last + 1 + ms \div 1000) % EVENT_DECAY_BUCKETS

(* cleanup, after the bucket last.                                         *)
DoCleanup(last) ==
  /\ refs' = [i \in Items |-> refs[i] - toRelease[i]]
  /\ item' = [i \in Items |-> IF refs[i] = toRelease[i] THEN Blank ELSE item[i]]
  /\ toRelease' = [i \in Items |-> 0]
  /\ decayItems' = [i \in Items |->
       [decayItems[i] EXCEPT ![Slot(item[i].duration, last)] = @ + toDecay[i]]]
  /\ toDecay' = [i \in Items |-> 0]

CheckDecayEnds ==
  /\ checking /\ \A i \in Items : todo[i] = 0
  /\ checking' = FALSE
  /\ lastBucket' = NextBucket
  /\ DoCleanup(NextBucket)
  /\ UNCHANGED todo

\* cleanup after creatures were checked or walked
Cleanup ==
  /\ ~checking
  /\ DoCleanup(lastBucket)
  /\ UNCHANGED <<lastBucket, checking, todo>>

Next ==
  \/ \E j \in Items, t \in Types : AddItem(j, t)
  \/ \E j \in Items, t \in Types, d \in Saved : LoadItem(j, t, d)
  \/ \E i, j \in Items : AddClone(i, j) \/ MoveStack(i, j)
  \/ \E i \in Items : MoveItem(i) \/ RemoveItem(i) \/ StartDecay(i) \/ CheckEntry(i)
  \/ \E i \in Items, t \in Types : TransformItem(i, t)
  \/ CheckDecay \/ CheckDecayEnds \/ Cleanup

Spec == Init /\ [][Next]_vars

-----------------------------------------------------------------------------
(* The entries of an item in all the lists of decaying items.              *)
Entries(i) ==
  toDecay[i] + todo[i] + decayItems[i][0] + decayItems[i][1] + decayItems[i][2]
    + decayItems[i][3]

(* Every reference is the world's, that of an entry in a list, or one that *)
(* is about to be released: no list holds an item that was freed, and an   *)
(* item nothing holds is freed, however often it was moved, cloned or      *)
(* transformed while it decayed.                                           *)
ReferencesExact ==
  \A i \in Items :
    refs[i] = (IF item[i].placed THEN 1 ELSE 0) + Entries(i) + toRelease[i]

(* An item in the world that can decay and is marked as decaying is in a   *)
(* list: startDecay passes over marked items, so another one would never   *)
(* decay.                                                                  *)
DecayingIsListed ==
  \A i \in Items :
    item[i] # Blank /\ item[i].decaying /\ CanDecay(item[i]) => Entries(i) > 0
=============================================================================
