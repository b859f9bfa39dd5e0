---------------------------- MODULE DecayProofs ----------------------------
(***************************************************************************)
(* Proofs about decaying items for every set of items, types, durations:   *)
(* the state is well typed, reference counting is exact, and no item that  *)
(* is marked is forgotten.  The invariant of the first two is TypeOK with  *)
(* ReferencesExact, and that a check has no entries left when it is over:  *)
(* the next one would forget them.  It is kept in the form of a balance:   *)
(* what an item's counter has beyond the world, toDecayItems and the       *)
(* releases due is what the buckets account for.  That of the third says   *)
(* when a mark may be left without an entry.                               *)
(***************************************************************************)
EXTENDS Decay, TLAPS

IInv ==
  /\ TypeOK
  /\ ReferencesExact
  /\ checking \/ \A i \in Items : todo[i] = 0

Placed(i) == IF item[i].placed THEN 1 ELSE 0

Balance(i) == refs[i] - Placed(i) - toDecay[i] - toRelease[i]

Listed(i) ==
  todo[i] + decayItems[i][0] + decayItems[i][1] + decayItems[i][2] + decayItems[i][3]

\* the types of what the effects of the operations change
CountsOK ==
  /\ item \in [Items -> Attributes \cup {Blank}]
  /\ refs \in [Items -> Nat]
  /\ toDecay \in [Items -> Nat]
  /\ toRelease \in [Items -> Nat]
  /\ \A i \in Items : refs[i] = 0 <=> item[i] = Blank

\* the types of the decay buckets and of the walk through one
ListsOK ==
  /\ decayItems \in [Items -> [Buckets -> Nat]]
  /\ todo \in [Items -> Nat]
  /\ lastBucket \in Buckets
  /\ checking \in BOOLEAN
  /\ checking \/ \A i \in Items : todo[i] = 0

\* a step that leaves an item n references short of what the buckets hold
Owes(i, n) ==
  /\ CountsOK'
  /\ \A k \in Items : Balance(k)' = Balance(k) - (IF k = i THEN n ELSE 0)

-----------------------------------------------------------------------------
LEMMA BucketsAre == \A b : b \in Buckets <=> b \in {0, 1, 2, 3}
BY DEF Buckets, EVENT_DECAY_BUCKETS

(* An item is placed or not; a blank one is not.                           *)
LEMMA PlacedIsBit ==
  ASSUME CountsOK, NEW i \in Items
  PROVE  /\ Placed(i) \in {0, 1}
         /\ item[i].placed \in BOOLEAN
         /\ item[i].placed => item[i] # Blank /\ item[i] \in Attributes /\ refs[i] > 0
         /\ refs[i] \in Nat /\ toDecay[i] \in Nat /\ toRelease[i] \in Nat
<1>1. item[i] \in Attributes \cup {Blank}
  BY DEF CountsOK
<1>2. refs[i] \in Nat /\ toDecay[i] \in Nat /\ toRelease[i] \in Nat
  BY DEF CountsOK
<1>3. Blank.placed = FALSE
  BY DEF Blank
<1>4. \A x \in Attributes : x.placed \in BOOLEAN
  BY DEF Attributes
<1>5. item[i].placed \in BOOLEAN /\ Placed(i) \in {0, 1}
  BY <1>1, <1>3, <1>4 DEF Placed
<1>6. item[i].placed => item[i] # Blank /\ item[i] \in Attributes
  BY <1>1, <1>3
<1>7. refs[i] = 0 => item[i] = Blank
  BY DEF CountsOK
<1>8. item[i].placed => refs[i] > 0
  BY <1>2, <1>6, <1>7
<1>9. QED BY <1>2, <1>5, <1>6, <1>8

LEMMA BlankIsNoItem == Blank \notin Attributes
BY DecayAssumption DEF Blank, Attributes

LEMMA ListedIsNat ==
  ASSUME ListsOK, NEW i \in Items
  PROVE  /\ Listed(i) \in Nat /\ todo[i] \in Nat
         /\ decayItems[i] \in [Buckets -> Nat]
         /\ \A b \in 0 .. 3 : decayItems[i][b] \in Nat
<1>1. decayItems[i] \in [Buckets -> Nat] /\ todo[i] \in Nat
  BY DEF ListsOK
<1>2. \A b \in 0 .. 3 : decayItems[i][b] \in Nat
  BY <1>1 DEF Buckets, EVENT_DECAY_BUCKETS
<1>3. QED BY <1>1, <1>2 DEF Listed

(* The invariant in the form the steps keep it.                            *)
LEMMA Ledger ==
  IInv <=> CountsOK /\ ListsOK /\ \A i \in Items : Balance(i) = Listed(i)
<1>1. ASSUME IInv PROVE CountsOK /\ ListsOK /\ \A i \in Items : Balance(i) = Listed(i)
  <2>1. CountsOK /\ ListsOK
    BY <1>1 DEF IInv, TypeOK, CountsOK, ListsOK
  <2>2. ASSUME NEW i \in Items PROVE Balance(i) = Listed(i)
    <3>1. refs[i] = Placed(i) + Entries(i) + toRelease[i]
      BY <1>1 DEF IInv, ReferencesExact, Placed
    <3>2. QED BY <2>1, <3>1, PlacedIsBit, ListedIsNat DEF Entries, Balance, Listed
  <2>3. QED BY <2>1, <2>2
<1>2. ASSUME CountsOK, ListsOK, \A i \in Items : Balance(i) = Listed(i) PROVE IInv
  <2>1. ASSUME NEW i \in Items
        PROVE  /\ refs[i] = Placed(i) + Entries(i) + toRelease[i]
               /\ toRelease[i] <= refs[i]
    <3>1. Balance(i) = Listed(i)
      BY <1>2
    <3>2. QED BY <1>2, <3>1, PlacedIsBit, ListedIsNat DEF Entries, Balance, Listed
  <2>2. QED BY <1>2, <2>1 DEF IInv, TypeOK, ReferencesExact, CountsOK, ListsOK, Placed
<1>3. QED BY <1>1, <1>2

-----------------------------------------------------------------------------
(* Effects.                                                                *)

LEMMA DurationsAreTyped ==
  ASSUME NEW t \in Types, NEW d \in DefaultDurations(t)
  PROVE  /\ d \in Int \cup {None}
         /\ Created(t, d) \in Attributes
         /\ Created(t, d).placed = TRUE
BY DecayAssumption DEF DefaultDurations, Created, Attributes

LEMMA SetIDType ==
  ASSUME NEW x \in Attributes, NEW t \in Types, NEW d \in Int \cup {None}
  PROVE  SetID(x, t, d) \in Attributes /\ SetID(x, t, d).placed = x.placed
BY DEF SetID, Attributes

(* An item that becomes another, with n releases beyond its leaving the    *)
(* world, balances up to those n.                                          *)
LEMMA BecomesBalances ==
  ASSUME CountsOK, NEW i \in Items, item[i] # Blank,
         NEW x \in Attributes, NEW starts \in BOOLEAN, NEW n \in Nat,
         Becomes(i, x, starts),
         \/ x.placed = item[i].placed /\ toRelease' = [toRelease EXCEPT ![i] = @ + n]
         \/ item[i].placed /\ x.placed = FALSE
              /\ toRelease' = [toRelease EXCEPT ![i] = @ + (n + 1)]
  PROVE  Owes(i, n)
<1> DEFINE y == [x EXCEPT !.decaying = @ \/ starts]
<1>1. y \in Attributes /\ y.placed = x.placed
  BY DEF Attributes
<1>2. item' = [item EXCEPT ![i] = y]
  BY DEF Becomes
<1> HIDE DEF y
<1>3. CountsOK'
  BY <1>1, <1>2, BlankIsNoItem DEF CountsOK, Becomes
<1>4. ASSUME NEW k \in Items, k # i PROVE Balance(k)' = Balance(k)
  BY <1>2, <1>4 DEF Balance, Placed, Becomes, CountsOK
<1>5. Balance(i)' = Balance(i) - n
  <2>1. item'[i] = y BY <1>2 DEF CountsOK
  <2>2. refs'[i] - toDecay'[i] = refs[i] - toDecay[i]
    BY DEF Becomes, CountsOK
  <2>3. CASE x.placed = item[i].placed /\ toRelease' = [toRelease EXCEPT ![i] = @ + n]
    <3>1. Placed(i)' = Placed(i) BY <2>1, <2>3, <1>1 DEF Placed
    <3>2. toRelease'[i] = toRelease[i] + n BY <2>3 DEF CountsOK
    <3>3. QED BY <2>2, <3>1, <3>2, <1>3, PlacedIsBit DEF Balance, CountsOK
  <2>4. CASE item[i].placed /\ x.placed = FALSE
               /\ toRelease' = [toRelease EXCEPT ![i] = @ + (n + 1)]
    <3>1. Placed(i)' = 0 /\ Placed(i) = 1 BY <2>1, <2>4, <1>1 DEF Placed
    <3>2. toRelease'[i] = toRelease[i] + n + 1 BY <2>4 DEF CountsOK
    <3>3. QED BY <2>2, <3>1, <3>2, <1>3 DEF Balance, CountsOK
  <2>5. QED BY <2>3, <2>4
<1>6. QED BY <1>3, <1>4, <1>5, PlacedIsBit DEF Owes, Balance

LEMMA FreshIsFree ==
  ASSUME CountsOK, NEW j \in Fresh, Balance(j) >= 0
  PROVE  /\ j \in Items /\ item[j] = Blank /\ ~item[j].placed
         /\ refs[j] = 0 /\ toDecay[j] = 0 /\ toRelease[j] = 0 /\ Balance(j) = 0
<1>1. j \in Items /\ refs[j] = 0 /\ item[j] = Blank
  BY DEF Fresh, CountsOK
<1>2. ~item[j].placed /\ Placed(j) = 0
  BY <1>1 DEF Blank, Placed
<1>3. QED BY <1>1, <1>2, PlacedIsBit DEF Balance

(* A new item brings the references it has.                                *)
LEMMA AppearsBalances ==
  ASSUME CountsOK, NEW j \in Fresh, Balance(j) >= 0,
         NEW x \in Attributes, x.placed = TRUE, NEW n \in Nat,
         Appears(j, x, n), UNCHANGED toRelease
  PROVE  Owes(j, 0)
<1> DEFINE y == [x EXCEPT !.decaying = @ \/ n > 0]
<1>1. y \in Attributes /\ y.placed = TRUE
  BY DEF Attributes
<1>2. item' = [item EXCEPT ![j] = y]
  BY DEF Appears
<1> HIDE DEF y
<1>3. j \in Items
  BY FreshIsFree
<1>4. CountsOK'
  BY <1>1, <1>2, <1>3, BlankIsNoItem DEF CountsOK, Appears
<1>5. ASSUME NEW k \in Items, k # j PROVE Balance(k)' = Balance(k)
  BY <1>2, <1>5 DEF Balance, Placed, Appears, CountsOK
<1>6. Balance(j)' = 0
  <2>1. Placed(j)' = 1
    BY <1>1, <1>2, <1>3 DEF Placed, CountsOK
  <2>2. refs'[j] = 1 + n /\ toDecay'[j] = n /\ toRelease'[j] = 0
    BY <1>3, FreshIsFree DEF Appears, CountsOK
  <2>3. QED BY <2>1, <2>2 DEF Balance
<1>7. QED BY <1>3, <1>4, <1>5, <1>6, FreshIsFree, PlacedIsBit DEF Owes, Balance

(* An item that another takes the place of, with n releases beyond its     *)
(* leaving the world, balances up to those n.                              *)
LEMMA ReplacesBalances ==
  ASSUME CountsOK, NEW i \in Items, item[i].placed,
         NEW j \in Fresh, Balance(j) >= 0,
         NEW x \in Attributes, NEW y \in Attributes, y.placed = TRUE,
         NEW n \in Nat, NEW m \in Nat,
         Replaces(i, x, j, y, m), Release(i, n + 1)
  PROVE  Owes(i, n)
<1> DEFINE old == [x EXCEPT !.placed = FALSE]
           new == [y EXCEPT !.decaying = @ \/ m > 0]
<1>1. /\ old \in Attributes /\ old.placed = FALSE
      /\ new \in Attributes /\ new.placed = TRUE
  BY DEF Attributes
<1>2. item' = [item EXCEPT ![i] = old, ![j] = new]
  BY DEF Replaces
<1> HIDE DEF old, new
<1>3. j \in Items /\ i # j
  BY FreshIsFree
<1>4. refs[i] > 0 /\ item[i] # Blank
  BY PlacedIsBit
<1>5. CountsOK'
  <2>1. /\ item' \in [Items -> Attributes \cup {Blank}]
        /\ refs' \in [Items -> Nat]
        /\ toDecay' \in [Items -> Nat]
        /\ toRelease' \in [Items -> Nat]
    <3>1. item' \in [Items -> Attributes \cup {Blank}]
      BY <1>1, <1>2 DEF CountsOK
    <3>2. refs' \in [Items -> Nat] /\ toDecay' \in [Items -> Nat]
      <4>1. 1 + m \in Nat OBVIOUS
      <4>2. refs' = [refs EXCEPT ![j] = 1 + m] /\ toDecay' = [toDecay EXCEPT ![j] = m]
        BY DEF Replaces
      <4>3. refs \in [Items -> Nat] /\ toDecay \in [Items -> Nat]
        BY DEF CountsOK
      <4>4. QED BY <4>1, <4>2, <4>3
    <3>3. toRelease' \in [Items -> Nat]
      BY DEF CountsOK, Release
    <3>4. QED BY <3>1, <3>2, <3>3
  <2>2. ASSUME NEW k \in Items PROVE refs'[k] = 0 <=> item'[k] = Blank
    <3>1. CASE k = i
      BY <3>1, <1>1, <1>2, <1>3, <1>4, BlankIsNoItem DEF CountsOK, Replaces
    <3>2. CASE k = j
      BY <3>2, <1>1, <1>2, <1>3, BlankIsNoItem DEF CountsOK, Replaces
    <3>3. CASE k # i /\ k # j
      BY <3>3, <1>2 DEF CountsOK, Replaces
    <3>4. QED BY <3>1, <3>2, <3>3
  <2>3. QED BY <2>1, <2>2 DEF CountsOK
<1>6. ASSUME NEW k \in Items, k # i, k # j PROVE Balance(k)' = Balance(k)
  BY <1>2, <1>6 DEF Balance, Placed, Replaces, Release, CountsOK
<1>7. Balance(j)' = 0
  <2>1. Placed(j)' = 1
    BY <1>1, <1>2, <1>3 DEF Placed, CountsOK
  <2>2. refs'[j] = 1 + m /\ toDecay'[j] = m /\ toRelease'[j] = 0
    BY <1>3, FreshIsFree DEF Replaces, Release, CountsOK
  <2>3. QED BY <2>1, <2>2 DEF Balance
<1>8. Balance(i)' = Balance(i) - n
  <2>1. Placed(i)' = 0 /\ Placed(i) = 1
    BY <1>1, <1>2, <1>3 DEF Placed, CountsOK
  <2>2. /\ refs'[i] = refs[i] /\ toDecay'[i] = toDecay[i]
        /\ toRelease'[i] = toRelease[i] + (n + 1)
    BY <1>3 DEF Replaces, Release, CountsOK
  <2>3. QED BY <2>1, <2>2, PlacedIsBit DEF Balance
<1>9. QED BY <1>3, <1>5, <1>6, <1>7, <1>8, FreshIsFree, PlacedIsBit DEF Owes, Balance

(* Whichever of the two a transformation is, it balances up to n.          *)
LEMMA TransformsBalances ==
  ASSUME CountsOK, \A k \in Items : Balance(k) >= 0,
         NEW i \in Items, item[i].placed,
         NEW x \in Attributes, x.placed = TRUE, NEW t \in Types,
         NEW decays \in BOOLEAN, NEW n \in Nat, Transforms(i, x, t, decays, n)
  PROVE  Owes(i, n)
<1>1. PICK d \in DefaultDurations(t) :
        \/ LET y == SetID(x, t, d)
           IN /\ Becomes(i, y, decays /\ CanDecay(y) /\ ~y.decaying)
              /\ Release(i, n)
        \/ \E j \in Fresh :
              /\ Replaces(i, x, j, Created(t, d), IF d = None THEN 0 ELSE 1)
              /\ Release(i, n + 1)
  BY DEF Transforms
<1>2. /\ d \in Int \cup {None}
      /\ Created(t, d) \in Attributes /\ Created(t, d).placed = TRUE
  BY DurationsAreTyped
<1>3. item[i] # Blank
  BY PlacedIsBit
<1>4. CASE LET y == SetID(x, t, d)
           IN /\ Becomes(i, y, decays /\ CanDecay(y) /\ ~y.decaying)
              /\ Release(i, n)
  <2> DEFINE y == SetID(x, t, d)
             starts == decays /\ CanDecay(y) /\ ~y.decaying
  <2>1. y \in Attributes /\ y.placed = TRUE
    BY <1>2, SetIDType
  <2>2. Becomes(i, y, starts) /\ Release(i, n)
    BY <1>4
  <2>3. starts \in BOOLEAN
    OBVIOUS
  <2>4. y.placed = item[i].placed
    BY <2>1, PlacedIsBit
  <2> HIDE DEF y, starts
  <2>5. QED BY <1>3, <2>1, <2>2, <2>3, <2>4, BecomesBalances DEF Release
<1>5. CASE \E j \in Fresh :
             /\ Replaces(i, x, j, Created(t, d), IF d = None THEN 0 ELSE 1)
             /\ Release(i, n + 1)
  <2>1. PICK j \in Fresh :
          /\ Replaces(i, x, j, Created(t, d), IF d = None THEN 0 ELSE 1)
          /\ Release(i, n + 1)
    BY <1>5
  <2>2. Balance(j) >= 0
    BY DEF Fresh
  <2> DEFINE m == IF d = None THEN 0 ELSE 1
  <2>3. m \in Nat
    OBVIOUS
  <2>4. Replaces(i, x, j, Created(t, d), m)
    BY <2>1
  <2> HIDE DEF m
  <2>5. QED BY <1>2, <2>1, <2>2, <2>3, <2>4, ReplacesBalances
<1>6. QED BY <1>1, <1>4, <1>5

LEMMA DecaysToBalances ==
  ASSUME CountsOK, \A k \in Items : Balance(k) >= 0,
         NEW i \in Items, item[i].placed,
         NEW x \in Attributes, x.placed = TRUE, CanDecay(x),
         NEW n \in Nat, DecaysTo(i, x, n)
  PROVE  Owes(i, n)
<1>1. CASE DecayTo[x.type] = Gone
  <2> DEFINE y == [x EXCEPT !.placed = FALSE]
  <2>1. y \in Attributes /\ y.placed = FALSE
    BY DEF Attributes
  <2>2. Becomes(i, y, FALSE) /\ Release(i, n + 1)
    BY <1>1 DEF DecaysTo
  <2> HIDE DEF y
  <2>3. item[i] # Blank
    BY PlacedIsBit
  <2>4. QED BY <2>1, <2>2, <2>3, BecomesBalances DEF Release
<1>2. CASE DecayTo[x.type] # Gone
  <2>1. DecayTo[x.type] \in Types
    BY <1>2, DecayAssumption DEF CanDecay, Attributes
  <2>2. Transforms(i, x, DecayTo[x.type], TRUE, n)
    BY <1>2 DEF DecaysTo
  <2>3. QED BY <2>1, <2>2, TransformsBalances
<1>3. QED BY <1>1, <1>2

-----------------------------------------------------------------------------
(* Steps.                                                                  *)

\* what the steps rely on
Books == CountsOK /\ ListsOK /\ \A i \in Items : Balance(i) = Listed(i)

LEMMA BooksAreSettled ==
  ASSUME Books
  PROVE  /\ CountsOK /\ ListsOK
         /\ \A i \in Items : Balance(i) >= 0 /\ Balance(i) = Listed(i)
BY ListedIsNat DEF Books

(* A step between the checks, which owes nothing and leaves the buckets.   *)
LEMMA IdleKeepsBooks ==
  ASSUME Books, NEW i \in Items, Owes(i, 0), Idle
  PROVE  Books'
<1>1. ListsOK'
  BY DEF Books, ListsOK, Idle
<1>2. ASSUME NEW k \in Items PROVE Balance(k)' = Listed(k)'
  <2>1. Listed(k)' = Listed(k)
    BY DEF Idle, Listed
  <2>2. Balance(k)' = Balance(k) - 0
    BY DEF Owes
  <2>3. QED BY <2>1, <2>2, BooksAreSettled, ListedIsNat
<1>3. QED BY <1>1, <1>2 DEF Books, Owes

LEMMA AddItemStep ==
  ASSUME Books, NEW j \in Items, NEW t \in Types, AddItem(j, t)
  PROVE  Books'
<1>1. PICK d \in DefaultDurations(t) :
        Appears(j, Created(t, d), IF d = None THEN 0 ELSE 1)
  BY DEF AddItem
<1> DEFINE n == IF d = None THEN 0 ELSE 1
<1>2. n \in Nat /\ Appears(j, Created(t, d), n)
  BY <1>1
<1> HIDE DEF n
<1>3. Owes(j, 0)
  BY <1>2, DurationsAreTyped, BooksAreSettled, AppearsBalances DEF AddItem
<1>4. QED BY <1>3, IdleKeepsBooks DEF AddItem

LEMMA LoadItemStep ==
  ASSUME Books, NEW j \in Items, NEW t \in Types, NEW d \in Saved, LoadItem(j, t, d)
  PROVE  Books'
<1> DEFINE x == Created(t, d)
           n == IF CanDecay(x) THEN 1 ELSE 0
<1>1. x \in Attributes /\ x.placed = TRUE
  BY DecayAssumption DEF Created, Attributes
<1>2. n \in Nat /\ Appears(j, x, n)
  BY DEF LoadItem
<1> HIDE DEF n, x
<1>3. Owes(j, 0)
  BY <1>1, <1>2, BooksAreSettled, AppearsBalances DEF LoadItem
<1>4. QED BY <1>3, IdleKeepsBooks DEF LoadItem

LEMMA AddCloneStep ==
  ASSUME Books, NEW i \in Items, NEW j \in Items, AddClone(i, j)
  PROVE  Books'
<1> DEFINE n == IF Lasts(item[i]) THEN 2 ELSE 0
<1>1. item[i] \in Attributes /\ item[i].placed = TRUE
  BY BooksAreSettled, PlacedIsBit DEF AddClone
<1>2. n \in Nat /\ Appears(j, item[i], n)
  BY DEF AddClone
<1> HIDE DEF n
<1>3. Owes(j, 0)
  BY <1>1, <1>2, BooksAreSettled, AppearsBalances DEF AddClone
<1>4. QED BY <1>3, IdleKeepsBooks DEF AddClone

LEMMA MoveItemStep ==
  ASSUME Books, NEW i \in Items, MoveItem(i)
  PROVE  Books'
<1> DEFINE starts == Lasts(item[i]) /\ ~item[i].decaying
<1>1. item[i] \in Attributes /\ item[i] # Blank
  BY BooksAreSettled, PlacedIsBit DEF MoveItem
<1>2. starts \in BOOLEAN /\ Becomes(i, item[i], starts)
  BY DEF MoveItem
<1> HIDE DEF starts
<1>3. toRelease' = [toRelease EXCEPT ![i] = @ + 0]
  BY BooksAreSettled DEF MoveItem, CountsOK
<1>4. Owes(i, 0)
  BY <1>1, <1>2, <1>3, BooksAreSettled, BecomesBalances
<1>5. QED BY <1>4, IdleKeepsBooks DEF MoveItem

LEMMA MoveStackStep ==
  ASSUME Books, NEW i \in Items, NEW j \in Items, MoveStack(i, j)
  PROVE  Books'
<1> DEFINE n == IF Lasts(item[i]) THEN 1 ELSE 0
<1>1. item[i] \in Attributes /\ item[i].placed = TRUE
  BY BooksAreSettled, PlacedIsBit DEF MoveStack
<1>2. n \in Nat /\ Replaces(i, item[i], j, item[i], n) /\ Release(i, 0 + 1)
  BY DEF MoveStack
<1> HIDE DEF n
<1>3. Owes(i, 0)
  BY <1>1, <1>2, BooksAreSettled, ReplacesBalances DEF MoveStack
<1>4. QED BY <1>3, IdleKeepsBooks DEF MoveStack

LEMMA RemoveItemStep ==
  ASSUME Books, NEW i \in Items, RemoveItem(i)
  PROVE  Books'
<1> DEFINE x == [item[i] EXCEPT !.placed = FALSE]
<1>1. item[i] \in Attributes /\ item[i] # Blank /\ item[i].placed
  BY BooksAreSettled, PlacedIsBit DEF RemoveItem
<1>2. x \in Attributes /\ x.placed = FALSE
  BY <1>1 DEF Attributes
<1>3. Becomes(i, x, FALSE)
  BY Zenon DEF RemoveItem
<1>4. toRelease' = [toRelease EXCEPT ![i] = @ + (0 + 1)]
  BY DEF RemoveItem, Release
<1> HIDE DEF x
<1>5. Owes(i, 0)
  BY <1>1, <1>2, <1>3, <1>4, BooksAreSettled, BecomesBalances
<1>6. QED BY <1>5, IdleKeepsBooks DEF RemoveItem

LEMMA TransformItemStep ==
  ASSUME Books, NEW i \in Items, NEW t \in Types, TransformItem(i, t)
  PROVE  Books'
<1>1. item[i] \in Attributes /\ item[i].placed = TRUE
  BY BooksAreSettled, PlacedIsBit DEF TransformItem
<1>2. PICK decays \in BOOLEAN : Transforms(i, item[i], t, decays, 0)
  BY DEF TransformItem
<1>3. Owes(i, 0)
  BY <1>1, <1>2, BooksAreSettled, TransformsBalances
<1>4. QED BY <1>3, IdleKeepsBooks DEF TransformItem

LEMMA StartDecayStep ==
  ASSUME Books, NEW i \in Items, StartDecay(i)
  PROVE  Books'
<1>1. item[i] \in Attributes /\ item[i].placed = TRUE /\ item[i] # Blank
  BY BooksAreSettled, PlacedIsBit DEF StartDecay
<1>2. CASE Lasts(item[i])
  <2>1. Becomes(i, item[i], TRUE)
    BY <1>2 DEF StartDecay
  <2>2. toRelease' = [toRelease EXCEPT ![i] = @ + 0]
    BY <1>2, BooksAreSettled DEF StartDecay, CountsOK
  <2>3. Owes(i, 0)
    BY <1>1, <2>1, <2>2, BooksAreSettled, BecomesBalances
  <2>4. QED BY <2>3, IdleKeepsBooks DEF StartDecay
<1>3. CASE ~Lasts(item[i])
  <2>1. DecaysTo(i, item[i], 0) /\ CanDecay(item[i])
    BY <1>3 DEF StartDecay
  <2>2. Owes(i, 0)
    BY <1>1, <2>1, BooksAreSettled, DecaysToBalances
  <2>3. QED BY <2>2, IdleKeepsBooks DEF StartDecay
<1>4. QED BY <1>2, <1>3

LEMMA NextBucketIs == ASSUME ListsOK PROVE NextBucket \in {0, 1, 2, 3}
BY DEF ListsOK, NextBucket, Buckets, EVENT_DECAY_BUCKETS

LEMMA BucketsAreTyped == \A b : b \in {0, 1, 2, 3} => b \in Buckets
BY BucketsAre

(* The entries of the bucket move to the walk, which had none left.        *)
LEMMA CheckDecayStep ==
  ASSUME Books, CheckDecay
  PROVE  Books'
<1>1. NextBucket \in {0, 1, 2, 3} /\ NextBucket \in Buckets
  BY BooksAreSettled, NextBucketIs, BucketsAreTyped
<1> DEFINE b == NextBucket
<1>2. /\ todo' = [i \in Items |-> decayItems[i][b]]
      /\ decayItems' = [i \in Items |-> [decayItems[i] EXCEPT ![b] = 0]]
      /\ checking' = TRUE /\ lastBucket' = lastBucket
  BY DEF CheckDecay
<1>3. b \in {0, 1, 2, 3} /\ b \in Buckets
  BY <1>1
<1> HIDE DEF b
<1>4. ListsOK'
  <2>1. decayItems \in [Items -> [Buckets -> Nat]] /\ lastBucket \in Buckets
    BY BooksAreSettled DEF ListsOK
  <2>2. todo' \in [Items -> Nat]
    BY <1>2, <1>3, <2>1
  <2>3. decayItems' \in [Items -> [Buckets -> Nat]]
    BY <1>2, <1>3, <2>1
  <2>4. QED BY <1>2, <2>1, <2>2, <2>3 DEF ListsOK
<1>5. CountsOK'
  BY BooksAreSettled DEF CountsOK, CheckDecay
<1>6. ASSUME NEW i \in Items PROVE Balance(i)' = Listed(i)'
  <2>1. Balance(i)' = Balance(i)
    BY DEF CheckDecay, Balance, Placed
  <2>2. todo[i] = 0
    BY BooksAreSettled DEF ListsOK, CheckDecay
  <2>3. /\ todo'[i] = decayItems[i][b]
        /\ decayItems'[i] = [decayItems[i] EXCEPT ![b] = 0]
    BY <1>2
  <2>4. \A k \in {0, 1, 2, 3} :
          decayItems'[i][k] = IF k = b THEN 0 ELSE decayItems[i][k]
    BY <2>3, ListedIsNat, BooksAreSettled, BucketsAreTyped
  <2>5. Listed(i)' = Listed(i)
    BY <1>3, <2>2, <2>3, <2>4, BooksAreSettled, ListedIsNat DEF Listed
  <2>6. QED BY <2>1, <2>5, BooksAreSettled
<1>7. QED BY <1>4, <1>5, <1>6 DEF Books

(* The walk has an entry less; it is dropped, kept in a bucket, or decays. *)
LEMMA EntryTaken ==
  ASSUME Books, NEW i \in Items, CheckEntry(i), UNCHANGED decayItems
  PROVE  /\ ListsOK'
         /\ \A k \in Items : Listed(k)' = Listed(k) - (IF k = i THEN 1 ELSE 0)
<1>1. todo' = [todo EXCEPT ![i] = @ - 1] /\ todo[i] > 0 /\ checking /\ checking' = checking
  BY DEF CheckEntry
<1>2. ListsOK'
  BY <1>1, BooksAreSettled DEF ListsOK, CheckEntry
<1>3. ASSUME NEW k \in Items PROVE Listed(k)' = Listed(k) - (IF k = i THEN 1 ELSE 0)
  <2>1. todo'[k] = todo[k] - (IF k = i THEN 1 ELSE 0)
    BY <1>1, BooksAreSettled DEF ListsOK
  <2>2. QED BY <2>1, BooksAreSettled, ListedIsNat DEF Listed
<1>4. QED BY <1>2, <1>3

LEMMA EntryPaid ==
  ASSUME Books, NEW i \in Items, CheckEntry(i), UNCHANGED decayItems, Owes(i, 1)
  PROVE  Books'
<1>1. ASSUME NEW k \in Items PROVE Balance(k)' = Listed(k)'
  BY EntryTaken, BooksAreSettled, ListedIsNat DEF Owes
<1>2. QED BY <1>1, EntryTaken DEF Books, Owes

LEMMA DropEntryStep ==
  ASSUME Books, NEW i \in Items, CheckEntry(i), item[i] # Blank, DropEntry(i, item[i])
  PROVE  Books'
<1> DEFINE x == [item[i] EXCEPT !.decaying = FALSE]
<1>1. item[i] \in Attributes
  BY BooksAreSettled DEF CountsOK
<1>2. x \in Attributes /\ x.placed = item[i].placed
  BY <1>1 DEF Attributes
<1>3. Becomes(i, x, FALSE)
  BY Zenon DEF DropEntry
<1>4. toRelease' = [toRelease EXCEPT ![i] = @ + 1] /\ UNCHANGED decayItems
  BY DEF DropEntry, Release
<1> HIDE DEF x
<1>5. Owes(i, 1)
  BY <1>2, <1>3, <1>4, BooksAreSettled, BecomesBalances
<1>6. QED BY <1>4, <1>5, EntryPaid

LEMMA KeepStep ==
  ASSUME Books, NEW i \in Items, CheckEntry(i), item[i] # Blank,
         NEW x \in Attributes, x.placed = item[i].placed,
         NEW b \in {0, 1, 2, 3}, Keep(i, x, b)
  PROVE  Books'
<1>1. /\ todo' = [todo EXCEPT ![i] = @ - 1] /\ todo[i] > 0
      /\ checking /\ checking' = checking /\ lastBucket' = lastBucket
      /\ decayItems' = [decayItems EXCEPT ![i][b] = @ + 1]
  BY DEF CheckEntry, Keep
<1>2. b \in Buckets
  BY BucketsAreTyped
<1>3. ListsOK'
  <2>1. /\ decayItems \in [Items -> [Buckets -> Nat]] /\ lastBucket \in Buckets
        /\ todo \in [Items -> Nat]
    BY BooksAreSettled DEF ListsOK
  <2>2. todo' \in [Items -> Nat]
    BY <1>1, <2>1
  <2>3. decayItems' \in [Items -> [Buckets -> Nat]]
    BY <1>1, <1>2, <2>1
  <2>4. QED BY <1>1, <2>1, <2>2, <2>3 DEF ListsOK
<1>4. Owes(i, 0)
  <2>1. toRelease' = [toRelease EXCEPT ![i] = @ + 0]
    BY BooksAreSettled DEF Keep, CountsOK
  <2>2. Becomes(i, x, FALSE)
    BY DEF Keep
  <2>3. QED BY <2>1, <2>2, BooksAreSettled, BecomesBalances
<1>5. ASSUME NEW k \in Items PROVE Balance(k)' = Listed(k)'
  <2>1. Balance(k)' = Balance(k)
    BY <1>4, BooksAreSettled, ListedIsNat DEF Owes
  <2>2. todo'[k] = todo[k] - (IF k = i THEN 1 ELSE 0)
    BY <1>1, BooksAreSettled DEF ListsOK
  <2>3. \A c \in {0, 1, 2, 3} :
          decayItems'[k][c] = decayItems[k][c] + (IF k = i /\ c = b THEN 1 ELSE 0)
    <3>1. CASE k # i
      BY <3>1, <1>1, BooksAreSettled, ListedIsNat DEF ListsOK
    <3>2. CASE k = i
      <4>1. decayItems'[k] = [decayItems[k] EXCEPT ![b] = @ + 1]
        BY <3>2, <1>1, BooksAreSettled DEF ListsOK
      <4>2. QED BY <3>2, <4>1, <1>2, BooksAreSettled, ListedIsNat, BucketsAreTyped
    <3>3. QED BY <3>1, <3>2
  <2>4. Listed(k)' = Listed(k)
    BY <2>2, <2>3, BooksAreSettled, ListedIsNat DEF Listed
  <2>5. QED BY <2>1, <2>4, BooksAreSettled
<1>6. QED BY <1>3, <1>4, <1>5 DEF Books, Owes

LEMMA AgedType ==
  ASSUME NEW x \in Attributes
  PROVE  /\ Aged(x) \in Attributes /\ Aged(x).placed = x.placed
         /\ Aged(x).type = x.type /\ Aged(x).duration \in Int
BY DEF Aged, Attributes, EVENT_DECAYINTERVAL, EVENT_DECAY_BUCKETS

LEMMA DecreaseDurationStep ==
  ASSUME Books, NEW i \in Items, CheckEntry(i), DecreaseDuration(i, item[i])
  PROVE  Books'
<1> DEFINE y == Aged(item[i])
           newBucket == (NextBucket + (y.duration + EVENT_DECAYINTERVAL \div 2) \div 1000)
                          % EVENT_DECAY_BUCKETS
           bucket == IF y.duration < EVENT_DECAYINTERVAL * EVENT_DECAY_BUCKETS
                     THEN newBucket ELSE NextBucket
<1>1. CanDecay(item[i]) /\ item[i].placed
  BY DEF DecreaseDuration, CanDecay
<1>2. item[i] \in Attributes /\ item[i].placed = TRUE /\ item[i] # Blank
  BY <1>1, BooksAreSettled, PlacedIsBit
<1>3. /\ y \in Attributes /\ y.placed = TRUE /\ y.placed = item[i].placed
      /\ y.duration \in Int /\ y.type = item[i].type
  BY <1>2, AgedType
<1>4. CanDecay(y)
  BY <1>1, <1>3 DEF CanDecay
<1>5. (DecaysTo(i, y, 1) /\ UNCHANGED decayItems) \/ Keep(i, y, bucket)
  BY DEF DecreaseDuration
<1>6. bucket \in {0, 1, 2, 3}
  <2>1. NextBucket \in {0, 1, 2, 3}
    BY BooksAreSettled, NextBucketIs
  <2>2. newBucket \in {0, 1, 2, 3}
    BY <1>3, <2>1 DEF EVENT_DECAYINTERVAL, EVENT_DECAY_BUCKETS
  <2>3. QED BY <2>1, <2>2
<1> HIDE DEF y, newBucket, bucket
<1>7. CASE DecaysTo(i, y, 1) /\ UNCHANGED decayItems
  <2>1. Owes(i, 1)
    BY <1>2, <1>3, <1>4, <1>7, BooksAreSettled, DecaysToBalances
  <2>2. QED BY <1>7, <2>1, EntryPaid
<1>8. CASE Keep(i, y, bucket)
  BY <1>2, <1>3, <1>6, <1>8, KeepStep
<1>9. QED BY <1>5, <1>7, <1>8

LEMMA CheckEntryStep ==
  ASSUME Books, NEW i \in Items, CheckEntry(i)
  PROVE  Books'
<1>1. item[i] # Blank
  <2>1. Listed(i) > 0
    BY BooksAreSettled, ListedIsNat DEF CheckEntry, Listed
  <2>2. refs[i] # 0
    BY <2>1, BooksAreSettled, PlacedIsBit DEF Balance
  <2>3. QED BY <2>2, BooksAreSettled DEF CountsOK
<1>2. DropEntry(i, item[i]) \/ DecreaseDuration(i, item[i])
  BY DEF CheckEntry
<1>3. QED BY <1>1, <1>2, DropEntryStep, DecreaseDurationStep

LEMMA SlotIsBucket ==
  ASSUME NEW d \in Int \cup {None}, NEW last \in {0, 1, 2, 3}
  PROVE  Slot(d, last) \in {0, 1, 2, 3}
BY DEF Slot, EVENT_DECAYINTERVAL, EVENT_DECAY_BUCKETS

LEMMA DurationIsTyped ==
  ASSUME CountsOK, NEW i \in Items
  PROVE  item[i].duration \in Int \cup {None}
<1>1. item[i] \in Attributes \cup {Blank}
  BY DEF CountsOK
<1>2. Blank.duration = None
  BY DEF Blank
<1>3. \A x \in Attributes : x.duration \in Int \cup {None}
  BY DEF Attributes
<1>4. QED BY <1>1, <1>2, <1>3

(* cleanup pays what is to be released, and gives the references of        *)
(* toDecayItems to the buckets; an item it frees was in neither.           *)
LEMMA CleanupKeepsBooks ==
  ASSUME Books, NEW last \in {0, 1, 2, 3}, DoCleanup(last), UNCHANGED todo,
         lastBucket' \in Buckets, checking' \in BOOLEAN,
         checking' \/ \A i \in Items : todo[i] = 0
  PROVE  Books'
<1> DEFINE slot(i) == Slot(item[i].duration, last)
<1>1. ASSUME NEW i \in Items PROVE slot(i) \in {0, 1, 2, 3} /\ slot(i) \in Buckets
  BY BooksAreSettled, DurationIsTyped, SlotIsBucket, BucketsAreTyped
<1>2. decayItems' = [i \in Items |-> [decayItems[i] EXCEPT ![slot(i)] = @ + toDecay[i]]]
  BY DEF DoCleanup
<1> HIDE DEF slot
<1>3. ASSUME NEW i \in Items
      PROVE  /\ toRelease[i] <= refs[i]
             /\ refs[i] = toRelease[i] => Placed(i) = 0 /\ toDecay[i] = 0
  BY BooksAreSettled, PlacedIsBit DEF Balance
<1>4. ASSUME NEW i \in Items
      PROVE  /\ refs'[i] = refs[i] - toRelease[i] /\ refs'[i] \in Nat
             /\ toDecay'[i] = 0 /\ toRelease'[i] = 0
             /\ item'[i] = IF refs[i] = toRelease[i] THEN Blank ELSE item[i]
  BY <1>3, BooksAreSettled, PlacedIsBit DEF DoCleanup
<1>5. CountsOK'
  <2>1. /\ toDecay' \in [Items -> Nat] /\ toRelease' \in [Items -> Nat]
    BY DEF DoCleanup
  <2>2. refs' \in [Items -> Nat]
    BY <1>4 DEF DoCleanup
  <2>3. item' \in [Items -> Attributes \cup {Blank}]
    BY BooksAreSettled DEF DoCleanup, CountsOK
  <2>4. ASSUME NEW i \in Items PROVE refs'[i] = 0 <=> item'[i] = Blank
    <3>1. CASE refs[i] = toRelease[i]
      BY <3>1, <1>4, BooksAreSettled, PlacedIsBit
    <3>2. CASE refs[i] # toRelease[i]
      <4>1. refs[i] # 0 /\ refs'[i] # 0
        BY <3>2, <1>3, <1>4, BooksAreSettled, PlacedIsBit
      <4>2. item'[i] = item[i] /\ item[i] # Blank
        BY <3>2, <4>1, <1>4, BooksAreSettled DEF CountsOK
      <4>3. QED BY <4>1, <4>2
    <3>3. QED BY <3>1, <3>2
  <2>5. QED BY <2>1, <2>2, <2>3, <2>4 DEF CountsOK
<1>6. ListsOK'
  <2>1. decayItems \in [Items -> [Buckets -> Nat]] /\ todo \in [Items -> Nat]
    BY BooksAreSettled DEF ListsOK
  <2>2. \A i \in Items : toDecay[i] \in Nat
    BY BooksAreSettled, PlacedIsBit
  <2>3. decayItems' \in [Items -> [Buckets -> Nat]]
    BY <1>1, <1>2, <2>1, <2>2
  <2>4. QED BY <2>1, <2>3 DEF ListsOK
<1>7. ASSUME NEW i \in Items PROVE Balance(i)' = Listed(i)'
  <2>1. decayItems'[i] = [decayItems[i] EXCEPT ![slot(i)] = @ + toDecay[i]]
    BY <1>2
  <2>2. \A b \in {0, 1, 2, 3} :
          decayItems'[i][b] = decayItems[i][b] + (IF b = slot(i) THEN toDecay[i] ELSE 0)
    BY <1>1, <2>1, BooksAreSettled, ListedIsNat, PlacedIsBit, BucketsAreTyped
  <2>3. Listed(i)' = Listed(i) + toDecay[i]
    BY <1>1, <2>2, BooksAreSettled, ListedIsNat, PlacedIsBit DEF Listed
  <2>4. Placed(i)' = Placed(i)
    <3>1. CASE refs[i] = toRelease[i]
      <4>1. ~Blank.placed
        BY DEF Blank
      <4>2. QED BY <3>1, <4>1, <1>3, <1>4 DEF Placed
    <3>2. CASE refs[i] # toRelease[i]
      BY <3>2, <1>4 DEF Placed
    <3>3. QED BY <3>1, <3>2
  <2>5. Balance(i)' = Balance(i) + toDecay[i]
    BY <2>4, <1>4, BooksAreSettled, PlacedIsBit DEF Balance
  <2>6. QED BY <2>3, <2>5, BooksAreSettled
<1>8. QED BY <1>5, <1>6, <1>7 DEF Books

LEMMA CheckDecayEndsStep ==
  ASSUME Books, CheckDecayEnds
  PROVE  Books'
<1>1. NextBucket \in {0, 1, 2, 3} /\ NextBucket \in Buckets
  BY BooksAreSettled, NextBucketIs, BucketsAreTyped
<1>2. /\ DoCleanup(NextBucket) /\ UNCHANGED todo
      /\ lastBucket' = NextBucket /\ checking' = FALSE
      /\ \A i \in Items : todo[i] = 0
  BY DEF CheckDecayEnds
<1>3. QED BY <1>1, <1>2, CleanupKeepsBooks

LEMMA CleanupStep ==
  ASSUME Books, Cleanup
  PROVE  Books'
<1>1. lastBucket \in Buckets /\ lastBucket \in {0, 1, 2, 3}
  BY BooksAreSettled, BucketsAre DEF ListsOK
<1>2. /\ DoCleanup(lastBucket) /\ UNCHANGED todo
      /\ lastBucket' = lastBucket /\ checking' = checking /\ ~checking
      /\ checking' \in BOOLEAN
  BY BooksAreSettled DEF Cleanup, ListsOK
<1>3. \A i \in Items : todo[i] = 0
  BY <1>2, BooksAreSettled DEF ListsOK
<1>4. QED BY <1>1, <1>2, <1>3, CleanupKeepsBooks

-----------------------------------------------------------------------------
LEMMA InitBooks == ASSUME Init PROVE Books
<1>1. CountsOK
  BY DEF Init, CountsOK
<1>2. ListsOK
  <2>1. lastBucket \in Buckets
    BY BucketsAreTyped DEF Init
  <2>2. decayItems \in [Items -> [Buckets -> Nat]]
    BY DEF Init
  <2>3. QED BY <2>1, <2>2 DEF Init, ListsOK
<1>3. ASSUME NEW i \in Items PROVE Balance(i) = Listed(i)
  <2>1. ~item[i].placed
    BY DEF Init, Blank
  <2>2. \A b \in {0, 1, 2, 3} : decayItems[i][b] = 0
    BY BucketsAreTyped DEF Init
  <2>3. QED BY <2>1, <2>2 DEF Init, Balance, Placed, Listed
<1>4. QED BY <1>1, <1>2, <1>3 DEF Books

LEMMA StutterBooks == ASSUME Books, UNCHANGED vars PROVE Books'
BY DEF Books, vars, CountsOK, ListsOK, Balance, Placed, Listed

LEMMA NextBooks == ASSUME Books, [Next]_vars PROVE Books'
<1>1. ASSUME NEW j \in Items, NEW t \in Types, AddItem(j, t) PROVE Books'
  BY <1>1, AddItemStep
<1>2. ASSUME NEW j \in Items, NEW t \in Types, NEW d \in Saved, LoadItem(j, t, d)
      PROVE  Books'
  BY <1>2, LoadItemStep
<1>3. ASSUME NEW i \in Items, NEW j \in Items, AddClone(i, j) \/ MoveStack(i, j)
      PROVE  Books'
  BY <1>3, AddCloneStep, MoveStackStep
<1>4. ASSUME NEW i \in Items,
             MoveItem(i) \/ RemoveItem(i) \/ StartDecay(i) \/ CheckEntry(i)
      PROVE  Books'
  BY <1>4, MoveItemStep, RemoveItemStep, StartDecayStep, CheckEntryStep
<1>5. ASSUME NEW i \in Items, NEW t \in Types, TransformItem(i, t) PROVE Books'
  BY <1>5, TransformItemStep
<1>6. QED
  BY <1>1, <1>2, <1>3, <1>4, <1>5, CheckDecayStep, CheckDecayEndsStep, CleanupStep,
     StutterBooks DEF Next

LEMMA BooksAlways == Spec => []Books
<1>1. Init => Books
  BY InitBooks
<1>2. Books /\ [Next]_vars => Books'
  BY NextBooks
<1>3. QED BY <1>1, <1>2, PTL DEF Spec

(* Of every behaviour, whatever the items, types and durations: the state  *)
(* is well typed, no reference is released that is not held, and exactly   *)
(* the items without references are freed (ReleaseItem, cleanup).          *)
THEOREM TypeCorrect == Spec => []TypeOK
<1>1. Books => TypeOK
  BY Ledger DEF Books, IInv
<1>2. QED BY <1>1, BooksAlways, PTL

(* An item's references are the world's, those of its entries in the lists *)
(* of checkDecay and those about to be released, however startDecay,       *)
(* transformItem, internalMoveItem and checkDecay interleave.              *)
THEOREM ReferencesCorrect == Spec => []ReferencesExact
<1>1. Books => ReferencesExact
  BY Ledger DEF Books, IInv
<1>2. QED BY <1>1, BooksAlways, PTL

-----------------------------------------------------------------------------
(* The marks.  A type that decays on without a duration keeps the mark of  *)
(* an item whose entry is gone (setID); the mark is a false one as soon as *)
(* the item has a duration again, for which it must have been of a type    *)
(* that keeps durations.  So no timed type may decay to a type like that   *)
(* that is of one kind with those.  Of the 1098 timed types of             *)
(* data/items/items.xml only the corpse 8273 does not keep to it: it turns *)
(* into 8274, which no script makes a ring.                                *)
Stuck(t) == DecayTimes[t] = {} /\ \A s \in StopTime : Kind[s] # Kind[t]

MarksEnd ==
  \A t \in Types : DecayTimes[t] # {} /\ DecayTo[t] # Gone =>
    \/ DecayTimes[DecayTo[t]] # {}
    \/ DecayTo[DecayTo[t]] = Never
    \/ Stuck(DecayTo[t])

\* what the lists hold of an item, told from its references
Entered(i) == refs[i] - Placed(i) - toRelease[i]

\* of an item x with n entries: marked items are listed, and have time left
Sound(x, n) ==
  x.placed => /\ x.decaying => n > 0 \/ Stuck(x.type)
              /\ x.decaying \/ x.duration # None => Lasts(x) \/ Stuck(x.type)

Marks == \A i \in Items : Sound(item[i], Entered(i))

LEMMA EnteredIs ==
  ASSUME Books, NEW i \in Items
  PROVE  /\ Entered(i) = Entries(i) /\ Entered(i) \in Nat
         /\ Entered(i) >= todo[i] /\ todo[i] \in Nat
<1>1. Balance(i) = Listed(i) /\ toDecay[i] \in Nat /\ todo[i] \in Nat
  BY BooksAreSettled, PlacedIsBit, ListedIsNat
<1>2. \A b \in 0 .. 3 : decayItems[i][b] \in Nat
  BY BooksAreSettled, ListedIsNat
<1>3. QED BY <1>1, <1>2, BooksAreSettled, PlacedIsBit DEF Balance, Listed, Entered, Entries

LEMMA BlankIsSound == \A n : Sound(Blank, n)
BY DEF Sound, Blank

\* x, once it is put on a list or not
Started(x, starts) == [x EXCEPT !.decaying = @ \/ starts]

LEMMA StartedType ==
  ASSUME NEW x \in Attributes, NEW starts \in BOOLEAN
  PROVE  /\ Started(x, starts) \in Attributes
         /\ Started(x, starts).placed = x.placed
         /\ Started(x, starts).type = x.type
         /\ Started(x, starts).duration = x.duration
         /\ starts => Started(x, starts).decaying
         /\ ~starts => Started(x, starts).decaying = x.decaying
BY DEF Started, Attributes

(* An item may be put on a list as long as it has time left.               *)
LEMMA StartedIsSound ==
  ASSUME NEW x \in Attributes, NEW starts \in BOOLEAN, NEW n \in Nat, NEW m \in Int,
         Sound(x, n), starts => m > 0 /\ Lasts(x), ~starts => m = n
  PROVE  Sound(Started(x, starts), m)
<1> DEFINE y == Started(x, starts)
<1>1. /\ y.placed = x.placed /\ y.type = x.type /\ y.duration = x.duration
      /\ ~starts => y.decaying = x.decaying
  BY StartedType
<1> HIDE DEF y
<1>2. Lasts(x) => Lasts(y)
  BY <1>1 DEF Lasts
<1>3. ASSUME starts PROVE Sound(y, m)
  BY <1>2, <1>3 DEF Sound
<1>4. ASSUME ~starts PROVE Sound(y, m)
  <2>1. y.decaying = x.decaying /\ m = n
    BY <1>1, <1>4
  <2>2. QED BY <1>1, <1>2, <2>1 DEF Sound
<1>5. Sound(y, m)
  BY <1>3, <1>4
<1>6. QED BY <1>5 DEF y

LEMMA KeptIsSound ==
  ASSUME NEW x \in Attributes, NEW n, Sound(x, n)
  PROVE  Sound(Started(x, FALSE), n)
<1>1. Started(x, FALSE) = x
  BY DEF Started, Attributes
<1>2. QED BY <1>1

(* An item that becomes another is sound if that is so with its entries.   *)
LEMMA BecomesMarks ==
  ASSUME Books, Marks, NEW i \in Items, NEW x \in Attributes, NEW starts \in BOOLEAN,
         NEW n \in Nat, Becomes(i, x, starts),
         toRelease' = [toRelease EXCEPT ![i] = @ + n],
         x.placed => /\ item[i].placed
                     /\ Sound(Started(x, starts),
                              Entered(i) + (IF starts THEN 1 ELSE 0) - n)
  PROVE  Marks'
<1> DEFINE y == Started(x, starts)
<1>1. y \in Attributes /\ y.placed = x.placed
  BY StartedType
<1>2. item' = [item EXCEPT ![i] = y]
  BY DEF Becomes, Started
<1>3. x.placed => item[i].placed /\ Sound(y, Entered(i) + (IF starts THEN 1 ELSE 0) - n)
  OBVIOUS
<1> HIDE DEF y
<1>4. ASSUME NEW k \in Items, k # i PROVE Sound(item[k], Entered(k))'
  <2>1. item'[k] = item[k] /\ refs'[k] = refs[k] /\ toRelease'[k] = toRelease[k]
    BY <1>2, <1>4, BooksAreSettled DEF Becomes, CountsOK
  <2>2. Entered(k)' = Entered(k)
    BY <2>1 DEF Entered, Placed
  <2>3. QED BY <2>1, <2>2 DEF Marks
<1>5. Sound(item[i], Entered(i))'
  <2>1. item'[i] = y
    BY <1>2, BooksAreSettled DEF CountsOK
  <2>2. CASE ~x.placed
    BY <2>1, <2>2, <1>1 DEF Sound
  <2>3. CASE x.placed
    <3>1. Placed(i)' = 1 /\ Placed(i) = 1
      BY <2>1, <2>3, <1>1, <1>3 DEF Placed
    <3>2. refs'[i] = refs[i] + (IF starts THEN 1 ELSE 0)
      BY BooksAreSettled DEF Becomes, CountsOK
    <3>3. toRelease'[i] = toRelease[i] + n
      BY BooksAreSettled DEF CountsOK
    <3>4. Entered(i)' = Entered(i) + (IF starts THEN 1 ELSE 0) - n
      BY <3>1, <3>2, <3>3, BooksAreSettled, PlacedIsBit DEF Entered
    <3>5. QED BY <2>1, <2>3, <3>4, <1>3
  <2>4. QED BY <2>2, <2>3
<1>6. QED BY <1>4, <1>5 DEF Marks

(* A new item is sound with the entries it comes with.                     *)
LEMMA AppearsMarks ==
  ASSUME Books, Marks, NEW j \in Fresh, NEW x \in Attributes, x.placed = TRUE,
         NEW n \in Nat, Appears(j, x, n), UNCHANGED toRelease,
         Sound(Started(x, n > 0), n)
  PROVE  Marks'
<1> DEFINE y == Started(x, n > 0)
<1>1. j \in Items /\ toRelease[j] = 0 /\ y.placed = TRUE
  <2>1. j \in Items /\ toRelease[j] = 0
    BY BooksAreSettled, FreshIsFree DEF Fresh
  <2>2. (n > 0) \in BOOLEAN
    OBVIOUS
  <2>3. QED BY <2>1, <2>2, StartedType
<1>2. item' = [item EXCEPT ![j] = y]
  BY DEF Appears, Started
<1>3. Sound(y, n)
  OBVIOUS
<1> HIDE DEF y
<1>4. ASSUME NEW k \in Items, k # j PROVE Sound(item[k], Entered(k))'
  <2>1. item'[k] = item[k] /\ refs'[k] = refs[k]
    BY <1>2, <1>4, BooksAreSettled DEF Appears, CountsOK
  <2>2. Entered(k)' = Entered(k)
    BY <2>1 DEF Entered, Placed
  <2>3. QED BY <2>1, <2>2 DEF Marks
<1>5. Sound(item[j], Entered(j))'
  <2>1. item'[j] = y /\ refs'[j] = 1 + n
    BY <1>1, <1>2, BooksAreSettled DEF Appears, CountsOK
  <2>2. Entered(j)' = n
    BY <1>1, <2>1 DEF Entered, Placed
  <2>3. QED BY <1>3, <2>1, <2>2
<1>6. QED BY <1>4, <1>5 DEF Marks

(* The same of an item that comes in the place of another.                 *)
LEMMA ReplacesMarks ==
  ASSUME Books, Marks, NEW i \in Items, item[i].placed, NEW x \in Attributes,
         NEW j \in Fresh, NEW z \in Attributes, z.placed = TRUE,
         NEW n \in Nat, NEW m \in Nat, Replaces(i, x, j, z, n), Release(i, m),
         Sound(Started(z, n > 0), n)
  PROVE  Marks'
<1> DEFINE y == Started(z, n > 0)
           w == [x EXCEPT !.placed = FALSE]
<1>1. /\ j \in Items /\ j # i /\ toRelease[j] = 0 /\ y.placed = TRUE
      /\ w.placed = FALSE
  <2>1. j \in Items /\ j # i /\ toRelease[j] = 0
    BY BooksAreSettled, FreshIsFree DEF Fresh
  <2>2. (n > 0) \in BOOLEAN
    OBVIOUS
  <2>3. y.placed = TRUE
    BY <2>2, StartedType
  <2>4. w.placed = FALSE
    BY DEF Attributes
  <2>5. QED BY <2>1, <2>3, <2>4
<1>2. item' = [item EXCEPT ![i] = w, ![j] = y]
  BY DEF Replaces, Started
<1>3. Sound(y, n)
  OBVIOUS
<1> HIDE DEF y, w
<1>4. ASSUME NEW k \in Items, k # j, k # i PROVE Sound(item[k], Entered(k))'
  <2>1. item'[k] = item[k] /\ refs'[k] = refs[k] /\ toRelease'[k] = toRelease[k]
    BY <1>2, <1>4, BooksAreSettled DEF Replaces, Release, CountsOK
  <2>2. Entered(k)' = Entered(k)
    BY <2>1 DEF Entered, Placed
  <2>3. QED BY <2>1, <2>2 DEF Marks
<1>5. Sound(item[j], Entered(j))'
  <2>1. item'[j] = y /\ refs'[j] = 1 + n /\ toRelease'[j] = 0
    BY <1>1, <1>2, BooksAreSettled DEF Replaces, Release, CountsOK
  <2>2. Entered(j)' = n
    BY <1>1, <2>1 DEF Entered, Placed
  <2>3. QED BY <1>3, <2>1, <2>2
<1>6. Sound(item[i], Entered(i))'
  <2>1. item'[i] = w
    BY <1>1, <1>2, BooksAreSettled DEF CountsOK
  <2>2. QED BY <1>1, <2>1 DEF Sound
<1>7. QED BY <1>4, <1>5, <1>6 DEF Marks

\* what a type an item turns into must see to
Fits(y, n) == Sound(y, n) /\ (CanDecay(y) => Lasts(y))

LEMMA DurationsLast ==
  ASSUME NEW t \in Types, NEW d \in DefaultDurations(t)
  PROVE  /\ d \in Nat \cup {None} /\ (d # None => d > 0)
         /\ d = None <=> DecayTimes[t] = {}
BY DecayAssumption DEF DefaultDurations

LEMMA CreatedIsSound ==
  ASSUME NEW t \in Types, NEW d \in Nat \cup {None}, d # None => d > 0,
         NEW n \in Nat, n > 0 => d # None
  PROVE  /\ Created(t, d) \in Attributes /\ Created(t, d).placed = TRUE
         /\ Sound(Started(Created(t, d), n > 0), n)
<1>1. Created(t, d) \in Attributes /\ Created(t, d).placed = TRUE
  BY DecayAssumption DEF Created, Attributes
<1> DEFINE y == Started(Created(t, d), n > 0)
<1>2. (n > 0) \in BOOLEAN
  OBVIOUS
<1>3. (y.decaying => n > 0) /\ y.duration = d
  <2>1. Created(t, d).decaying = FALSE /\ Created(t, d).duration = d
    BY DEF Created
  <2>2. QED BY <1>1, <1>2, <2>1, StartedType
<1> HIDE DEF y
<1>4. y.decaying \/ y.duration # None => Lasts(y)
  BY <1>3 DEF Lasts
<1>5. Sound(y, n)
  BY <1>3, <1>4 DEF Sound
<1>6. QED BY <1>1, <1>5 DEF y

(* A transformation of a sound item: who had stopped keeps what was left.  *)
LEMMA SetIDFits ==
  ASSUME NEW x \in Attributes, x.placed = TRUE, NEW n \in Nat, Sound(x, n),
         NEW t \in Types, Kind[t] = Kind[x.type], NEW d \in DefaultDurations(t)
  PROVE  Fits(SetID(x, t, d), n)
<1> DEFINE y == SetID(x, t, d)
<1>1. d \in Nat \cup {None} /\ (d # None => d > 0) /\ (d = None <=> DecayTimes[t] = {})
  BY DurationsLast
<1>2. x.type \in Types /\ x.type \in StopTime => ~Stuck(x.type)
  BY DEF Stuck, Attributes
<1>3. Stuck(x.type) /\ DecayTimes[t] = {} => Stuck(t)
  BY DEF Stuck
<1>4. CASE d = None
  <2>1. DecayTimes[t] = {} /\ ~CanDecay(y)
    <3>1. DecayTimes[t] = {}
      BY <1>1, <1>4
    <3>2. y.type = t
      BY <1>4 DEF SetID, Attributes
    <3>3. QED BY <3>1, <3>2 DEF CanDecay
  <2>2. CASE t \notin StopTime /\ DecayTo[t] = Never
    <3>1. y.decaying = FALSE /\ y.duration = None
      BY <1>4, <2>2 DEF SetID, Attributes
    <3>2. Sound(y, n)
      BY <3>1 DEF Sound
    <3>3. QED BY <2>1, <3>2 DEF Fits
  <2>3. CASE ~(t \notin StopTime /\ DecayTo[t] = Never)
    <3>1. /\ y.decaying = x.decaying /\ y.duration = x.duration
          /\ y.placed = x.placed /\ y.type = t
      BY <1>4, <2>3 DEF SetID, Attributes
    <3>2. Lasts(y) <=> Lasts(x)
      BY <3>1 DEF Lasts
    <3>3. Sound(y, n)
      BY <1>3, <2>1, <3>1, <3>2 DEF Sound
    <3>4. QED BY <2>1, <3>3 DEF Fits
  <2>4. QED BY <2>2, <2>3
<1>5. CASE d # None /\ (x.type \notin StopTime \/ x.duration = None)
  <2>1. y.decaying = FALSE /\ y.duration = d
    BY <1>5 DEF SetID, Attributes
  <2>2. Lasts(y)
    BY <2>1, <1>1, <1>5 DEF Lasts
  <2>3. QED BY <2>1, <2>2 DEF Fits, Sound
<1>6. CASE d # None /\ x.type \in StopTime /\ x.duration # None
  <2>1. y.decaying = x.decaying /\ y.duration = x.duration /\ y.placed = x.placed
    BY <1>6 DEF SetID, Attributes
  <2>2. Lasts(y) <=> Lasts(x)
    BY <2>1 DEF Lasts
  <2>3. ~Stuck(x.type)
    BY <1>2, <1>6 DEF Attributes
  <2>4. Lasts(x) /\ (x.decaying => n > 0)
    BY <1>6, <2>3 DEF Sound
  <2>5. QED BY <2>1, <2>2, <2>4 DEF Fits, Sound
<1>7. QED BY <1>4, <1>5, <1>6

(* What a timed item decays to has time of its own, or no mark, or keeps   *)
(* the mark for good.                                                      *)
LEMMA DecayFits ==
  ASSUME MarksEnd, NEW x \in Attributes, CanDecay(x), DecayTo[x.type] # Gone,
         NEW n \in Nat, NEW d \in DefaultDurations(DecayTo[x.type])
  PROVE  Fits(SetID(x, DecayTo[x.type], d), n)
<1> DEFINE t == DecayTo[x.type]
           y == SetID(x, t, d)
<1>1. /\ x.type \in Types /\ DecayTimes[x.type] # {} /\ t \in Types
      /\ x.type \notin StopTime /\ t \notin StopTime
  BY DecayAssumption DEF CanDecay, Attributes
<1>2. d \in Nat \cup {None} /\ (d # None => d > 0) /\ (d = None <=> DecayTimes[t] = {})
  BY <1>1, DurationsLast
<1>3. DecayTimes[t] # {} \/ DecayTo[t] = Never \/ Stuck(t)
  BY <1>1 DEF MarksEnd
<1>4. Fits(SetID(x, t, d), n)
  <2> HIDE DEF t
  <2>1. CASE d # None
    <3>1. y.decaying = FALSE /\ y.duration = d
      BY <1>1, <2>1 DEF SetID, Attributes
    <3>2. Lasts(y)
      BY <3>1, <1>2, <2>1 DEF Lasts
    <3>3. QED BY <3>1, <3>2 DEF Fits, Sound
  <2>2. CASE d = None /\ DecayTo[t] = Never
    <3>1. y.decaying = FALSE /\ y.duration = None /\ y.type = t
      BY <1>1, <2>2 DEF SetID, Attributes
    <3>2. ~CanDecay(y)
      BY <3>1, <2>2 DEF CanDecay
    <3>3. QED BY <3>1, <3>2 DEF Fits, Sound
  <2>3. CASE d = None /\ DecayTo[t] # Never
    <3>1. y.type = t
      BY <2>3 DEF SetID, Attributes
    <3>2. Stuck(t) /\ DecayTimes[t] = {}
      BY <1>2, <1>3, <2>3
    <3>3. ~CanDecay(y)
      BY <3>1, <3>2 DEF CanDecay
    <3>4. QED BY <3>1, <3>2, <3>3 DEF Fits, Sound
  <2>4. QED BY <2>1, <2>2, <2>3
<1>5. QED BY <1>4

LEMMA TransformsMarks ==
  ASSUME Books, Marks, NEW i \in Items, item[i].placed,
         NEW x \in Attributes, x.placed = TRUE, NEW t \in Types,
         NEW decays \in BOOLEAN, NEW n \in Nat, n <= Entered(i),
         Transforms(i, x, t, decays, n),
         \A d \in DefaultDurations(t) :
           Kind[t] = Kind[x.type] => Fits(SetID(x, t, d), Entered(i) - n)
  PROVE  Marks'
<1>1. PICK d \in DefaultDurations(t) :
        IF Kind[t] = Kind[x.type]
        THEN LET y == SetID(x, t, d)
             IN /\ Becomes(i, y, decays /\ CanDecay(y) /\ ~y.decaying)
                /\ Release(i, n)
        ELSE \E j \in Fresh :
               /\ Replaces(i, x, j, Created(t, d), IF d = None THEN 0 ELSE 1)
               /\ Release(i, n + 1)
  BY DEF Transforms
<1>2. d \in Nat \cup {None} /\ (d # None => d > 0) /\ d \in Int \cup {None}
  BY DurationsLast
<1>3. CASE Kind[t] = Kind[x.type]
  <2> DEFINE y == SetID(x, t, d)
             starts == decays /\ CanDecay(y) /\ ~y.decaying
             m == Entered(i) - n
  <2>1. y \in Attributes /\ y.placed = TRUE
    BY <1>2, SetIDType
  <2>2. Becomes(i, y, starts) /\ Release(i, n)
    BY <1>1, <1>3
  <2>3. Sound(y, m) /\ (CanDecay(y) => Lasts(y))
    BY <1>3 DEF Fits
  <2>4. starts \in BOOLEAN /\ (starts => CanDecay(y))
    OBVIOUS
  <2>5. m \in Nat /\ m = Entered(i) - n
    BY EnteredIs
  <2> HIDE DEF y, starts, m
  <2>6. Sound(Started(y, starts), m + (IF starts THEN 1 ELSE 0))
    <3> DEFINE k == m + (IF starts THEN 1 ELSE 0)
    <3>1. k \in Int /\ (starts => k > 0) /\ (~starts => k = m)
      BY <2>5
    <3> HIDE DEF k
    <3>2. starts => Lasts(y)
      BY <2>3, <2>4
    <3>3. Sound(Started(y, starts), k)
      BY <2>1, <2>3, <2>4, <2>5, <3>1, <3>2, StartedIsSound
    <3>4. QED BY <3>3 DEF k
  <2>7. m + (IF starts THEN 1 ELSE 0) = Entered(i) + (IF starts THEN 1 ELSE 0) - n
    BY <2>5, EnteredIs
  <2>8. Sound(Started(y, starts), Entered(i) + (IF starts THEN 1 ELSE 0) - n)
    BY <2>6, <2>7
  <2>9. toRelease' = [toRelease EXCEPT ![i] = @ + n]
    BY <2>2 DEF Release
  <2>10. QED BY <2>1, <2>2, <2>4, <2>8, <2>9, BecomesMarks
<1>4. CASE Kind[t] # Kind[x.type]
  <2> DEFINE m == IF d = None THEN 0 ELSE 1
  <2>1. PICK j \in Fresh : Replaces(i, x, j, Created(t, d), m) /\ Release(i, n + 1)
    BY <1>1, <1>4
  <2>2. m \in Nat /\ (m > 0 => d # None) /\ n + 1 \in Nat
    OBVIOUS
  <2> HIDE DEF m
  <2>3. /\ Created(t, d) \in Attributes /\ Created(t, d).placed = TRUE
        /\ Sound(Started(Created(t, d), m > 0), m)
    BY <1>2, <2>2, CreatedIsSound
  <2>4. QED BY <2>1, <2>2, <2>3, ReplacesMarks
<1>5. QED BY <1>3, <1>4

LEMMA DecaysToMarks ==
  ASSUME MarksEnd, Books, Marks, NEW i \in Items, item[i].placed,
         NEW x \in Attributes, x.placed = TRUE, CanDecay(x),
         NEW n \in Nat, n <= Entered(i), DecaysTo(i, x, n)
  PROVE  Marks'
<1>1. CASE DecayTo[x.type] = Gone
  <2> DEFINE y == [x EXCEPT !.placed = FALSE]
  <2>1. y \in Attributes /\ y.placed = FALSE
    BY DEF Attributes
  <2>2. Becomes(i, y, FALSE) /\ toRelease' = [toRelease EXCEPT ![i] = @ + (n + 1)]
    BY <1>1 DEF DecaysTo, Release
  <2> HIDE DEF y
  <2>3. n + 1 \in Nat /\ FALSE \in BOOLEAN
    OBVIOUS
  <2>4. QED BY <2>1, <2>2, <2>3, BecomesMarks
<1>2. CASE DecayTo[x.type] # Gone
  <2>1. DecayTo[x.type] \in Types
    BY <1>2, DecayAssumption DEF CanDecay, Attributes
  <2>2. Transforms(i, x, DecayTo[x.type], TRUE, n)
    BY <1>2 DEF DecaysTo
  <2>3. Entered(i) - n \in Nat
    BY EnteredIs
  <2>4. \A d \in DefaultDurations(DecayTo[x.type]) :
          Fits(SetID(x, DecayTo[x.type], d), Entered(i) - n)
    BY <1>2, <2>3, DecayFits
  <2>5. TRUE \in BOOLEAN
    OBVIOUS
  <2>6. QED BY <2>1, <2>2, <2>4, <2>5, TransformsMarks
<1>3. QED BY <1>1, <1>2

-----------------------------------------------------------------------------
(* The steps leave no false mark.                                          *)

LEMMA AddItemMarks ==
  ASSUME Books, Marks, NEW j \in Items, NEW t \in Types, AddItem(j, t)
  PROVE  Marks'
<1> DEFINE n(d) == IF d = None THEN 0 ELSE 1
<1>1. PICK d \in DefaultDurations(t) : Appears(j, Created(t, d), n(d))
  BY DEF AddItem
<1>2. n(d) \in Nat /\ (n(d) > 0 => d # None)
  OBVIOUS
<1> HIDE DEF n
<1>3. /\ Created(t, d) \in Attributes /\ Created(t, d).placed = TRUE
      /\ Sound(Started(Created(t, d), n(d) > 0), n(d))
  BY <1>2, DurationsLast, CreatedIsSound
<1>4. j \in Fresh /\ UNCHANGED toRelease
  BY DEF AddItem
<1>5. QED BY <1>1, <1>2, <1>3, <1>4, AppearsMarks

LEMMA LoadItemMarks ==
  ASSUME Books, Marks, NEW j \in Items, NEW t \in Types, NEW d \in Saved,
         LoadItem(j, t, d)
  PROVE  Marks'
<1> DEFINE n == IF CanDecay(Created(t, d)) THEN 1 ELSE 0
<1>1. j \in Fresh /\ Appears(j, Created(t, d), n) /\ UNCHANGED toRelease
  BY DEF LoadItem
<1>2. d \in Nat \cup {None} /\ d # None /\ d > 0
  BY DecayAssumption
<1>3. n \in Nat
  OBVIOUS
<1> HIDE DEF n
<1>4. /\ Created(t, d) \in Attributes /\ Created(t, d).placed = TRUE
      /\ Sound(Started(Created(t, d), n > 0), n)
  BY <1>2, <1>3, CreatedIsSound
<1>5. QED BY <1>1, <1>3, <1>4, AppearsMarks

(* A copy of a sound item, listed if it has time left, is sound.           *)
LEMMA CopyIsSound ==
  ASSUME Books, Marks, NEW i \in Items, item[i].placed,
         NEW n \in Nat, n > 0 <=> Lasts(item[i])
  PROVE  Sound(Started(item[i], n > 0), n)
<1>1. item[i] \in Attributes /\ item[i].placed = TRUE
  BY BooksAreSettled, PlacedIsBit
<1>2. Sound(item[i], Entered(i)) /\ (n > 0) \in BOOLEAN
  BY DEF Marks
<1> DEFINE x == item[i]
           y == Started(x, n > 0)
<1>3. y.type = x.type /\ y.duration = x.duration /\ (~(n > 0) => y.decaying = x.decaying)
  BY <1>1, <1>2, StartedType
<1> HIDE DEF x, y
<1>4. Lasts(x) => Lasts(y)
  BY <1>3 DEF Lasts
<1>5. ASSUME n > 0 PROVE Sound(y, n)
  BY <1>4, <1>5 DEF Sound, x
<1>6. ASSUME ~(n > 0) PROVE Sound(y, n)
  <2>1. ~Lasts(x) /\ x.placed
    BY <1>6 DEF x
  <2>2. x.decaying \/ x.duration # None => Stuck(x.type)
    BY <1>2, <2>1 DEF Sound, x
  <2>3. QED BY <1>3, <1>6, <2>2 DEF Sound
<1>7. Sound(y, n)
  BY <1>5, <1>6
<1>8. QED BY <1>7 DEF x, y

LEMMA AddCloneMarks ==
  ASSUME Books, Marks, NEW i \in Items, NEW j \in Items, AddClone(i, j)
  PROVE  Marks'
<1> DEFINE n == IF Lasts(item[i]) THEN 2 ELSE 0
<1>1. item[i] \in Attributes /\ item[i].placed = TRUE
  BY BooksAreSettled, PlacedIsBit DEF AddClone
<1>2. n \in Nat /\ (n > 0 <=> Lasts(item[i]))
  OBVIOUS
<1>3. j \in Fresh /\ Appears(j, item[i], n) /\ UNCHANGED toRelease
  BY DEF AddClone
<1> HIDE DEF n
<1>4. Sound(Started(item[i], n > 0), n)
  BY <1>1, <1>2, CopyIsSound
<1>5. QED BY <1>1, <1>2, <1>3, <1>4, AppearsMarks

LEMMA MoveStackMarks ==
  ASSUME Books, Marks, NEW i \in Items, NEW j \in Items, MoveStack(i, j)
  PROVE  Marks'
<1> DEFINE n == IF Lasts(item[i]) THEN 1 ELSE 0
<1>1. item[i] \in Attributes /\ item[i].placed = TRUE
  BY BooksAreSettled, PlacedIsBit DEF MoveStack
<1>2. n \in Nat /\ (n > 0 <=> Lasts(item[i]))
  OBVIOUS
<1>3. j \in Fresh /\ Replaces(i, item[i], j, item[i], n) /\ Release(i, 1)
  BY DEF MoveStack
<1> HIDE DEF n
<1>4. Sound(Started(item[i], n > 0), n)
  BY <1>1, <1>2, CopyIsSound
<1>5. 1 \in Nat
  OBVIOUS
<1>6. QED BY <1>1, <1>2, <1>3, <1>4, <1>5, ReplacesMarks

(* An item that has time left may be put on a list.                        *)
LEMMA ListedMarks ==
  ASSUME Books, Marks, NEW i \in Items, item[i].placed, NEW starts \in BOOLEAN,
         Becomes(i, item[i], starts), UNCHANGED toRelease, starts => Lasts(item[i])
  PROVE  Marks'
<1>1. item[i] \in Attributes /\ Sound(item[i], Entered(i)) /\ Entered(i) \in Nat
  BY BooksAreSettled, PlacedIsBit, EnteredIs DEF Marks
<1>2. toRelease' = [toRelease EXCEPT ![i] = @ + 0]
  BY BooksAreSettled DEF CountsOK
<1> DEFINE m == Entered(i) + (IF starts THEN 1 ELSE 0)
<1>3. /\ m \in Int /\ (starts => m > 0) /\ (~starts => m = Entered(i))
      /\ m = Entered(i) + (IF starts THEN 1 ELSE 0) - 0
  BY <1>1
<1> HIDE DEF m
<1>4. Sound(Started(item[i], starts), m)
  BY <1>1, <1>3, StartedIsSound
<1>5. Sound(Started(item[i], starts), Entered(i) + (IF starts THEN 1 ELSE 0) - 0)
  BY <1>3, <1>4
<1>6. 0 \in Nat
  OBVIOUS
<1>7. QED BY <1>1, <1>2, <1>5, <1>6, BecomesMarks

LEMMA MoveItemMarks ==
  ASSUME Books, Marks, NEW i \in Items, MoveItem(i)
  PROVE  Marks'
<1> DEFINE starts == Lasts(item[i]) /\ ~item[i].decaying
<1>1. starts \in BOOLEAN /\ Becomes(i, item[i], starts) /\ (starts => Lasts(item[i]))
  BY DEF MoveItem
<1> HIDE DEF starts
<1>2. item[i].placed /\ UNCHANGED toRelease
  BY DEF MoveItem
<1>3. QED BY <1>1, <1>2, ListedMarks

LEMMA RemoveItemMarks ==
  ASSUME Books, Marks, NEW i \in Items, RemoveItem(i)
  PROVE  Marks'
<1> DEFINE x == [item[i] EXCEPT !.placed = FALSE]
<1>1. item[i] \in Attributes
  BY BooksAreSettled, PlacedIsBit DEF RemoveItem
<1>2. x \in Attributes /\ x.placed = FALSE
  BY <1>1 DEF Attributes
<1>3. Becomes(i, x, FALSE)
  BY Zenon DEF RemoveItem
<1> HIDE DEF x
<1>4. toRelease' = [toRelease EXCEPT ![i] = @ + 1] /\ 1 \in Nat /\ FALSE \in BOOLEAN
  BY DEF RemoveItem, Release
<1>5. QED BY <1>2, <1>3, <1>4, BecomesMarks

LEMMA TransformItemMarks ==
  ASSUME Books, Marks, NEW i \in Items, NEW t \in Types, TransformItem(i, t)
  PROVE  Marks'
<1>1. item[i] \in Attributes /\ item[i].placed = TRUE
  BY BooksAreSettled, PlacedIsBit DEF TransformItem
<1>2. PICK decays \in BOOLEAN : Transforms(i, item[i], t, decays, 0)
  BY DEF TransformItem
<1>3. Sound(item[i], Entered(i)) /\ Entered(i) \in Nat /\ 0 <= Entered(i) /\ 0 \in Nat
  BY EnteredIs DEF Marks
<1>4. \A d \in DefaultDurations(t) :
        Kind[t] = Kind[item[i].type] => Fits(SetID(item[i], t, d), Entered(i))
  BY <1>1, <1>3, SetIDFits
<1>5. Entered(i) - 0 = Entered(i)
  BY <1>3
<1>6. \A d \in DefaultDurations(t) :
        Kind[t] = Kind[item[i].type] => Fits(SetID(item[i], t, d), Entered(i) - 0)
  BY <1>4, <1>5
<1>7. QED BY <1>1, <1>2, <1>3, <1>6, TransformsMarks

LEMMA StartDecayMarks ==
  ASSUME MarksEnd, Books, Marks, NEW i \in Items, StartDecay(i)
  PROVE  Marks'
<1>1. item[i] \in Attributes /\ item[i].placed = TRUE /\ CanDecay(item[i])
  BY BooksAreSettled, PlacedIsBit DEF StartDecay
<1>2. CASE Lasts(item[i])
  <2>1. Becomes(i, item[i], TRUE) /\ UNCHANGED toRelease /\ TRUE \in BOOLEAN
    BY <1>2 DEF StartDecay
  <2>2. QED BY <1>1, <1>2, <2>1, ListedMarks
<1>3. CASE ~Lasts(item[i])
  <2>1. DecaysTo(i, item[i], 0)
    BY <1>3 DEF StartDecay
  <2>2. 0 \in Nat /\ 0 <= Entered(i)
    BY EnteredIs
  <2>3. QED BY <1>1, <2>1, <2>2, DecaysToMarks
<1>4. QED BY <1>2, <1>3

LEMMA DropEntryMarks ==
  ASSUME Books, Marks, NEW i \in Items, item[i] # Blank, todo[i] > 0,
         DropEntry(i, item[i])
  PROVE  Marks'
<1> DEFINE x == [item[i] EXCEPT !.decaying = FALSE]
<1>1. item[i] \in Attributes
  BY BooksAreSettled DEF CountsOK
<1>2. /\ x \in Attributes /\ x.placed = item[i].placed /\ x.decaying = FALSE
      /\ x.duration = item[i].duration /\ x.type = item[i].type
  BY <1>1 DEF Attributes
<1>3. Becomes(i, x, FALSE)
  BY Zenon DEF DropEntry
<1>4. toRelease' = [toRelease EXCEPT ![i] = @ + 1] /\ 1 \in Nat /\ FALSE \in BOOLEAN
  BY DEF DropEntry, Release
<1> HIDE DEF x
<1>5. /\ Sound(item[i], Entered(i))
      /\ Entered(i) + (IF FALSE THEN 1 ELSE 0) - 1 = Entered(i) - 1
      /\ Entered(i) - 1 \in Nat
  BY EnteredIs DEF Marks
<1>6. Sound(x, Entered(i) - 1)
  <2>1. Lasts(item[i]) => Lasts(x)
    BY <1>2 DEF Lasts
  <2>2. QED BY <1>2, <1>5, <2>1 DEF Sound
<1>7. Sound(Started(x, FALSE), Entered(i) + (IF FALSE THEN 1 ELSE 0) - 1)
  <2>1. Sound(Started(x, FALSE), Entered(i) - 1)
    BY <1>2, <1>6, KeptIsSound
  <2>2. QED BY <2>1, <1>5
<1>8. QED BY <1>2, <1>3, <1>4, <1>7, BecomesMarks

LEMMA KeepMarks ==
  ASSUME Books, Marks, NEW i \in Items, item[i].placed,
         NEW x \in Attributes, x.placed = TRUE, x.decaying => item[i].decaying,
         x.type = item[i].type, Lasts(x), NEW b, Keep(i, x, b), todo[i] > 0
  PROVE  Marks'
<1>1. Becomes(i, x, FALSE) /\ UNCHANGED toRelease /\ FALSE \in BOOLEAN /\ 0 \in Nat
  BY DEF Keep
<1>2. toRelease' = [toRelease EXCEPT ![i] = @ + 0]
  BY <1>1, BooksAreSettled DEF CountsOK
<1>3. /\ Entered(i) > 0 /\ Entered(i) \in Nat
      /\ Entered(i) + (IF FALSE THEN 1 ELSE 0) - 0 = Entered(i)
  BY EnteredIs
<1>4. Sound(x, Entered(i))
  BY <1>3 DEF Sound
<1>5. Sound(Started(x, FALSE), Entered(i) + (IF FALSE THEN 1 ELSE 0) - 0)
  <2>1. Sound(Started(x, FALSE), Entered(i))
    BY <1>4, KeptIsSound
  <2>2. QED BY <2>1, <1>3
<1>6. QED BY <1>1, <1>2, <1>5, BecomesMarks

LEMMA DecreaseDurationMarks ==
  ASSUME MarksEnd, Books, Marks, NEW i \in Items, todo[i] > 0,
         DecreaseDuration(i, item[i])
  PROVE  Marks'
<1> DEFINE y == Aged(item[i])
<1>1. CanDecay(item[i]) /\ item[i].placed
  BY DEF DecreaseDuration, CanDecay
<1>2. item[i] \in Attributes /\ item[i].placed = TRUE
  BY <1>1, BooksAreSettled, PlacedIsBit
<1>3. /\ y \in Attributes /\ y.placed = TRUE /\ y.type = item[i].type
      /\ y.duration \in Int
  BY <1>2, AgedType
<1>4. y.decaying => item[i].decaying
  BY <1>2 DEF Aged, Attributes
<1>5. CanDecay(y)
  BY <1>1, <1>3 DEF CanDecay
<1>6. \/ DecaysTo(i, y, 1)
      \/ ~(y.duration <= 0) /\ \E b : Keep(i, y, b)
  BY DEF DecreaseDuration
<1> HIDE DEF y
<1>7. CASE DecaysTo(i, y, 1)
  <2>1. 1 \in Nat /\ 1 <= Entered(i)
    BY EnteredIs
  <2>2. QED BY <1>1, <1>3, <1>5, <1>7, <2>1, DecaysToMarks
<1>8. CASE ~(y.duration <= 0) /\ \E b : Keep(i, y, b)
  <2>1. Lasts(y)
    BY <1>3, <1>8, DecayAssumption DEF Lasts
  <2>2. PICK b : Keep(i, y, b)
    BY <1>8
  <2>3. QED BY <1>1, <1>3, <1>4, <2>1, <2>2, KeepMarks
<1>9. QED BY <1>6, <1>7, <1>8

LEMMA CheckEntryMarks ==
  ASSUME MarksEnd, Books, Marks, NEW i \in Items, CheckEntry(i)
  PROVE  Marks'
<1>1. todo[i] > 0 /\ (DropEntry(i, item[i]) \/ DecreaseDuration(i, item[i]))
  BY DEF CheckEntry
<1>2. item[i] # Blank
  <2>1. Entered(i) > 0
    BY <1>1, EnteredIs
  <2>2. refs[i] # 0
    BY <2>1, BooksAreSettled, PlacedIsBit DEF Entered
  <2>3. QED BY <2>2, BooksAreSettled DEF CountsOK
<1>3. QED BY <1>1, <1>2, DropEntryMarks, DecreaseDurationMarks

(* A cleanup only frees items and pays for releases.                       *)
LEMMA CleanupMarks ==
  ASSUME Books, Marks, NEW last, DoCleanup(last)
  PROVE  Marks'
<1>1. SUFFICES ASSUME NEW i \in Items PROVE Sound(item[i], Entered(i))'
  BY DEF Marks
<1>2. /\ refs'[i] = refs[i] - toRelease[i] /\ toRelease'[i] = 0
      /\ item'[i] = IF refs[i] = toRelease[i] THEN Blank ELSE item[i]
  BY DEF DoCleanup
<1>3. CASE refs[i] = toRelease[i]
  BY <1>2, <1>3, BlankIsSound
<1>4. CASE refs[i] # toRelease[i]
  <2>1. item'[i] = item[i]
    BY <1>2, <1>4
  <2>2. Placed(i)' = Placed(i)
    BY <2>1 DEF Placed
  <2>3. Entered(i)' = Entered(i)
    BY <1>2, <2>2, BooksAreSettled, PlacedIsBit DEF Entered
  <2>4. QED BY <2>1, <2>3 DEF Marks
<1>5. QED BY <1>3, <1>4

LEMMA UnmovedMarks ==
  ASSUME Marks, UNCHANGED <<item, refs, toRelease>>
  PROVE  Marks'
BY DEF Marks, Entered, Placed

LEMMA NextMarks == ASSUME MarksEnd, Books, Marks, [Next]_vars PROVE Marks'
<1>1. ASSUME NEW j \in Items, NEW t \in Types, AddItem(j, t) PROVE Marks'
  BY <1>1, AddItemMarks
<1>2. ASSUME NEW j \in Items, NEW t \in Types, NEW d \in Saved, LoadItem(j, t, d)
      PROVE  Marks'
  BY <1>2, LoadItemMarks
<1>3. ASSUME NEW i \in Items, NEW j \in Items, AddClone(i, j) \/ MoveStack(i, j)
      PROVE  Marks'
  BY <1>3, AddCloneMarks, MoveStackMarks
<1>4. ASSUME NEW i \in Items,
             MoveItem(i) \/ RemoveItem(i) \/ StartDecay(i) \/ CheckEntry(i)
      PROVE  Marks'
  BY <1>4, MoveItemMarks, RemoveItemMarks, StartDecayMarks, CheckEntryMarks
<1>5. ASSUME NEW i \in Items, NEW t \in Types, TransformItem(i, t) PROVE Marks'
  BY <1>5, TransformItemMarks
<1>6. ASSUME CheckDecay PROVE Marks'
  BY <1>6, UnmovedMarks DEF CheckDecay
<1>7. ASSUME CheckDecayEnds \/ Cleanup PROVE Marks'
  BY <1>7, CleanupMarks DEF CheckDecayEnds, Cleanup
<1>8. ASSUME UNCHANGED vars PROVE Marks'
  BY <1>8, UnmovedMarks DEF vars
<1>9. QED BY <1>1, <1>2, <1>3, <1>4, <1>5, <1>6, <1>7, <1>8 DEF Next

(* No marked item is forgotten: one that is in the world, can decay and is *)
(* marked as decaying is in a list of checkDecay, however often it is      *)
(* moved, cloned, transformed by scripts or decays in turn, for every      *)
(* table of item types in which marks end.                                 *)
THEOREM DecayingCorrect ==
  ASSUME MarksEnd
  PROVE  Spec => []DecayingIsListed
<1>1. Init => Marks
  BY BlankIsSound DEF Init, Marks
<1>2. Books /\ Marks /\ [Next]_vars => Marks'
  BY NextMarks
<1>3. Books /\ Marks => DecayingIsListed
  <2>1. SUFFICES ASSUME Books, Marks, NEW i \in Items,
                        item[i].decaying, CanDecay(item[i])
                 PROVE  Entries(i) > 0
    BY DEF DecayingIsListed
  <2>2. item[i].placed /\ ~Stuck(item[i].type)
    BY <2>1 DEF CanDecay, Stuck
  <2>3. Entered(i) > 0
    BY <2>1, <2>2 DEF Marks, Sound
  <2>4. QED BY <2>1, <2>3, EnteredIs
<1>4. QED BY <1>1, <1>2, <1>3, BooksAlways, PTL DEF Spec
=============================================================================
