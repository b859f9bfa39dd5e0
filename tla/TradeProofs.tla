----------------------------- MODULE TradeProofs -----------------------------
(***************************************************************************)
(* Proofs about Trade.  What an item lies in is a chain of bags, which Top *)
(* and Inside follow recursively; the induction along it is the invariant  *)
(* Acyclic, stated with sets: what holds of an item whenever it holds of   *)
(* the bag it lies in, holds of every item.                                *)
(***************************************************************************)
EXTENDS Trade, TLAPS

\* Top and Inside for any placing of the items
TopOf(pl, i) ==
  LET top[j \in Items] == IF pl[j] \in Bags THEN top[pl[j]] ELSE pl[j]
  IN top[i]

InOf(pl, i, b) ==
  LET in[j \in Items] == pl[j] = b \/ (pl[j] \in Bags /\ in[pl[j]])
  IN i \in Items /\ b \in Bags /\ in[i]

\* f says what lies in b
IsIn(pl, b, f) == f = [j \in Items |-> pl[j] = b \/ (pl[j] \in Bags /\ f[pl[j]])]

\* no bag lies in itself, directly or not
Acyclic(pl) ==
  \A S \in SUBSET Items :
    (\A j \in Items : (pl[j] \in Bags => pl[j] \in S) => j \in S) => S = Items

Places == Players \cup Bags \cup Spots \cup {None}

TradeInv == TypeOK /\ PartnersAgree /\ OffersReferenced /\ OffersInReach /\ Acyclic(place)

-----------------------------------------------------------------------------
(* The recursive definitions have what they ask for: the least relation    *)
(* closed under their equations.                                           *)
LEMMA InFixpoint ==
  ASSUME NEW pl, NEW b
  PROVE  \E f : IsIn(pl, b, f)
<1> DEFINE Closed(T) == \A j \in Items : pl[j] = b \/ (pl[j] \in Bags /\ pl[j] \in T) => j \in T
           L == {j \in Items : \A T \in SUBSET Items : Closed(T) => j \in T}
           M == {j \in L : pl[j] = b \/ (pl[j] \in Bags /\ pl[j] \in L)}
           f == [j \in Items |-> j \in L]
<1>1. \A j \in Items : pl[j] = b \/ (pl[j] \in Bags /\ pl[j] \in L) => j \in L
  OBVIOUS
<1>2. Closed(M) /\ M \in SUBSET Items
  BY <1>1
<1>3. \A j \in L : j \in M
  BY <1>2
<1>4. \A j \in Items : j \in L <=> pl[j] = b \/ (pl[j] \in Bags /\ pl[j] \in L)
  BY <1>1, <1>3
<1> HIDE DEF L
<1>5. \A j \in Items : pl[j] \in Bags => f[pl[j]] = (pl[j] \in L)
  BY TradeAssumption
<1>6. \A j \in Items : (j \in L) = (pl[j] = b \/ (pl[j] \in Bags /\ f[pl[j]]))
  <2> HIDE DEF f
  <2>1. ASSUME NEW j \in Items
        PROVE  pl[j] = b \/ (pl[j] \in Bags /\ f[pl[j]]) <=> pl[j] = b \/ (pl[j] \in Bags /\ pl[j] \in L)
    BY <1>5
  <2> QED BY <1>4, <2>1
<1>7. f = [j \in Items |-> pl[j] = b \/ (pl[j] \in Bags /\ f[pl[j]])]
  <2> DEFINE g == [j \in Items |-> pl[j] = b \/ (pl[j] \in Bags /\ f[pl[j]])]
  <2>1. \A j \in Items : f[j] = g[j]
    BY <1>6, Zenon
  <2>2. f = g
    BY <2>1, Zenon
  <2> QED BY <2>2
<1> QED BY <1>7 DEF IsIn

LEMMA TopFixpoint ==
  ASSUME NEW pl
  PROVE  \E f : f = [j \in Items |-> IF pl[j] \in Bags THEN f[pl[j]] ELSE pl[j]]
<1> DEFINE V == {pl[j] : j \in Items}
           Closed(T) == \A j \in Items : /\ pl[j] \notin Bags => <<j, pl[j]>> \in T
                                         /\ pl[j] \in Bags => \A x \in V : <<pl[j], x>> \in T => <<j, x>> \in T
           L == {z \in Items \X V : \A T \in SUBSET (Items \X V) : Closed(T) => z \in T}
           M == {z \in L : \/ pl[z[1]] \notin Bags /\ z[2] = pl[z[1]]
                           \/ pl[z[1]] \in Bags /\ <<pl[z[1]], z[2]>> \in L}
           S(j) == {x \in V : <<j, x>> \in L}
           f == [j \in Items |-> CHOOSE x : x \in S(j)]
<1>1. Closed(L)
  BY TradeAssumption
<1>2. Closed(M) /\ M \in SUBSET (Items \X V)
  <2>1. ASSUME NEW j \in Items, pl[j] \notin Bags PROVE <<j, pl[j]>> \in M
    BY <1>1, <2>1
  <2>2. ASSUME NEW j \in Items, pl[j] \in Bags, NEW x \in V, <<pl[j], x>> \in M PROVE <<j, x>> \in M
    BY <1>1, <2>2
  <2> QED BY <2>1, <2>2
<1>3. \A z \in L : z \in M
  BY <1>2
<1>4. ASSUME NEW j \in Items, pl[j] \notin Bags PROVE S(j) = {pl[j]}
  <2>1. pl[j] \in S(j)
    BY <1>1, <1>4
  <2>2. ASSUME NEW x \in S(j) PROVE x = pl[j]
    <3>1. <<j, x>> \in M
      BY <1>3
    <3> QED BY <1>4, <3>1
  <2> HIDE DEF S
  <2> QED BY <2>1, <2>2
<1>5. ASSUME NEW j \in Items, pl[j] \in Bags PROVE S(j) = S(pl[j])
  <2>1. ASSUME NEW x \in S(pl[j]) PROVE x \in S(j)
    BY <1>1, <1>5
  <2>2. ASSUME NEW x \in S(j) PROVE x \in S(pl[j])
    BY <1>3, <1>5
  <2> QED BY <2>1, <2>2
<1> HIDE DEF S
<1>6. \A j \in Items : pl[j] \in Bags => f[pl[j]] = f[j]
  BY <1>5, TradeAssumption
<1>7. \A j \in Items : pl[j] \notin Bags => f[j] = pl[j]
  BY <1>4
<1>8. f = [j \in Items |-> IF pl[j] \in Bags THEN f[pl[j]] ELSE pl[j]]
  <2> HIDE DEF f
  <2>1. f = [j \in Items |-> f[j]]
    BY DEF f
  <2> QED BY <1>6, <1>7, <2>1
<1> QED BY <1>8

LEMMA TopUnfold ==
  ASSUME NEW pl, NEW i \in Items
  PROVE  TopOf(pl, i) = IF pl[i] \in Bags THEN TopOf(pl, pl[i]) ELSE pl[i]
<1> DEFINE P(g) == g = [j \in Items |-> IF pl[j] \in Bags THEN g[pl[j]] ELSE pl[j]]
           top == CHOOSE g : P(g)
<1>1. P(top)
  <2>1. \E g : P(g)
    BY TopFixpoint
  <2> HIDE DEF P
  <2> QED BY <2>1
<1>2. \A j : TopOf(pl, j) = top[j]
  BY DEF TopOf
<1> HIDE DEF top
<1> QED BY <1>1, <1>2, TradeAssumption

LEMMA InUnfold ==
  ASSUME NEW pl, NEW i \in Items, NEW b \in Bags
  PROVE  InOf(pl, i, b) <=> pl[i] = b \/ (pl[i] \in Bags /\ InOf(pl, pl[i], b))
<1> DEFINE in == CHOOSE f : IsIn(pl, b, f)
<1>1. IsIn(pl, b, in)
  BY InFixpoint
<1>2. \A j \in Items : InOf(pl, j, b) <=> in[j]
  BY DEF InOf, IsIn
<1> HIDE DEF in
<1>3. \A j \in Items : in[j] <=> pl[j] = b \/ (pl[j] \in Bags /\ in[pl[j]])
  BY <1>1 DEF IsIn
<1> QED BY <1>2, <1>3, TradeAssumption

-----------------------------------------------------------------------------
(* The induction along the chain.                                          *)
LEMMA Induct ==
  ASSUME NEW pl, Acyclic(pl), NEW S \in SUBSET Items,
         \A j \in Items : (pl[j] \in Bags => pl[j] \in S) => j \in S
  PROVE  \A j \in Items : j \in S
BY DEF Acyclic

LEMMA InTop ==
  ASSUME NEW pl, Acyclic(pl), NEW b \in Bags
  PROVE  \A j \in Items : InOf(pl, j, b) => TopOf(pl, j) = TopOf(pl, b)
<1> DEFINE S == {j \in Items : InOf(pl, j, b) => TopOf(pl, j) = TopOf(pl, b)}
<1>1. ASSUME NEW j \in Items, pl[j] \in Bags => pl[j] \in S PROVE j \in S
  BY <1>1, InUnfold, TopUnfold, TradeAssumption
<1>2. \A j \in Items : j \in S
  <2>1. S \in SUBSET Items
    OBVIOUS
  <2> HIDE DEF S
  <2> QED BY ONLY Acyclic(pl), <1>1, <2>1, Induct
<1> QED BY <1>2

LEMMA InTrans ==
  ASSUME NEW pl, Acyclic(pl), NEW b \in Bags, NEW c \in Bags, InOf(pl, b, c)
  PROVE  \A j \in Items : InOf(pl, j, b) => InOf(pl, j, c)
<1> DEFINE S == {j \in Items : InOf(pl, j, b) => InOf(pl, j, c)}
<1>1. ASSUME NEW j \in Items, pl[j] \in Bags => pl[j] \in S PROVE j \in S
  BY <1>1, InUnfold, TradeAssumption
<1>2. \A j \in Items : j \in S
  <2>1. S \in SUBSET Items
    OBVIOUS
  <2> HIDE DEF S
  <2> QED BY ONLY Acyclic(pl), <1>1, <2>1, Induct
<1> QED BY <1>2

LEMMA InIrreflexive ==
  ASSUME NEW pl, Acyclic(pl)
  PROVE  \A b \in Bags : ~InOf(pl, b, b)
<1> DEFINE S == {j \in Items : j \in Bags => ~InOf(pl, j, j)}
<1>1. ASSUME NEW j \in Items, pl[j] \in Bags => pl[j] \in S PROVE j \in S
  <2>1. SUFFICES ASSUME j \in Bags, InOf(pl, j, j), j # pl[j] PROVE FALSE
    BY <1>1
  <2>2. pl[j] \in Bags /\ InOf(pl, pl[j], j)
    BY <2>1, InUnfold
  <2>3. InOf(pl, j, pl[j])
    BY <2>2, InUnfold
  <2>4. InOf(pl, pl[j], pl[j])
    BY <2>1, <2>2, <2>3, InTrans, TradeAssumption
  <2> QED BY <1>1, <2>2, <2>4
<1>2. \A j \in Items : j \in S
  <2>1. S \in SUBSET Items
    OBVIOUS
  <2> HIDE DEF S
  <2> QED BY ONLY Acyclic(pl), <1>1, <2>1, Induct
<1> QED BY <1>2, TradeAssumption

-----------------------------------------------------------------------------
(* Moving things changes nothing for what is neither moved nor in it.      *)
Apart(pl, i) == {j \in Items : j # i /\ ~InOf(pl, j, i)}

LEMMA ApartUpward ==
  ASSUME NEW pl, NEW i \in Items, NEW j \in Apart(pl, i), pl[j] \in Bags
  PROVE  pl[j] \in Apart(pl, i)
<1>1. CASE i \in Bags
  BY <1>1, InUnfold, TradeAssumption DEF Apart
<1>2. CASE i \notin Bags
  BY <1>2, TradeAssumption DEF Apart, InOf
<1> QED BY <1>1, <1>2

LEMMA ApartKept ==
  ASSUME NEW pl, NEW ql, Acyclic(pl), NEW i \in Items,
         \A j \in Apart(pl, i) : ql[j] = pl[j]
  PROVE  \A j \in Apart(pl, i) :
           TopOf(ql, j) = TopOf(pl, j) /\ \A b : InOf(ql, j, b) <=> InOf(pl, j, b)
<1> DEFINE T == {j \in Items : j \in Apart(pl, i) => TopOf(ql, j) = TopOf(pl, j)}
           I(b) == {j \in Items : j \in Apart(pl, i) => (InOf(ql, j, b) <=> InOf(pl, j, b))}
<1>1. \A j \in Items : j \in T
  <2>1. ASSUME NEW j \in Items, pl[j] \in Bags => pl[j] \in T PROVE j \in T
    BY <2>1, TopUnfold, ApartUpward, TradeAssumption
  <2>2. T \in SUBSET Items
    OBVIOUS
  <2> HIDE DEF T
  <2> QED BY ONLY Acyclic(pl), <2>1, <2>2, Induct
<1>2. ASSUME NEW b \in Bags PROVE \A j \in Items : j \in I(b)
  <2>1. ASSUME NEW j \in Items, pl[j] \in Bags => pl[j] \in I(b) PROVE j \in I(b)
    BY <2>1, InUnfold, ApartUpward, TradeAssumption
  <2>2. I(b) \in SUBSET Items
    OBVIOUS
  <2> HIDE DEF I
  <2> QED BY ONLY Acyclic(pl), <2>1, <2>2, Induct
<1>3. ASSUME NEW b, b \notin Bags PROVE \A j : ~InOf(ql, j, b) /\ ~InOf(pl, j, b)
  BY <1>3 DEF InOf
<1> QED BY <1>1, <1>2, <1>3 DEF Apart

LEMMA MovedAcyclic ==
  ASSUME NEW pl, NEW ql, Acyclic(pl), NEW i \in Items,
         \A j \in Items \ {i} : ql[j] = pl[j],
         ql[i] \in Bags => ql[i] \in Apart(pl, i)
  PROVE  Acyclic(ql)
<1>1. SUFFICES ASSUME NEW S \in SUBSET Items,
                      \A j \in Items : (ql[j] \in Bags => ql[j] \in S) => j \in S
               PROVE  \A j \in Items : j \in S
  BY DEF Acyclic
<1> DEFINE A == {j \in Items : j \in Apart(pl, i) => j \in S}
<1>2. \A j \in Items : j \in A
  <2>1. ASSUME NEW j \in Items, pl[j] \in Bags => pl[j] \in A PROVE j \in A
    BY <1>1, <2>1, ApartUpward DEF Apart
  <2>2. A \in SUBSET Items
    OBVIOUS
  <2> HIDE DEF A
  <2> QED BY ONLY Acyclic(pl), <2>1, <2>2, Induct
<1>3. i \in S
  BY <1>1, <1>2, TradeAssumption
<1>4. ASSUME NEW j \in Items, pl[j] \in Bags => pl[j] \in S PROVE j \in S
  BY <1>1, <1>3, <1>4
<1> QED BY ONLY Acyclic(pl), <1>1, <1>4, Induct

LEMMA RemovedAcyclic ==
  ASSUME NEW pl, NEW ql, Acyclic(pl),
         \A j \in Items : ql[j] \in Bags => ql[j] = pl[j]
  PROVE  Acyclic(ql)
<1>1. SUFFICES ASSUME NEW S \in SUBSET Items,
                      \A j \in Items : (ql[j] \in Bags => ql[j] \in S) => j \in S
               PROVE  \A j \in Items : j \in S
  BY DEF Acyclic
<1>2. ASSUME NEW j \in Items, pl[j] \in Bags => pl[j] \in S PROVE j \in S
  BY <1>1, <1>2
<1> QED BY ONLY Acyclic(pl), <1>1, <1>2, Induct

(* Top and Inside of the state are those of its placing.                   *)
LEMMA Chains ==
  /\ \A i : Top(i) = TopOf(place, i)
  /\ \A i, b : Inside(i, b) <=> InOf(place, i, b)
BY DEF Top, TopOf, Inside, InOf

LEMMA ReachNext ==
  ASSUME \A p \in Players : tradeItem'[p] # None => TopOf(place', tradeItem'[p]) \in {p, pos'[p]},
         \A p \in Players : tradePartner'[p] # None => pos'[tradePartner'[p]] = pos'[p],
         \A p, q \in Players : p # q /\ tradeItem'[p] # None /\ tradeItem'[q] # None
           => tradeItem'[p] # tradeItem'[q] /\ ~InOf(place', tradeItem'[p], tradeItem'[q])
  PROVE  OffersInReach'
BY DEF OffersInReach, Reach, Top, TopOf, Inside, InOf

-----------------------------------------------------------------------------
(* Closing trades.                                                         *)
Sides(P) == P \cup ({tradePartner[p] : p \in P} \ {None})

LEMMA SidesAgree ==
  ASSUME TypeOK, PartnersAgree, NEW P \in SUBSET Players
  PROVE  /\ Sides(P) \subseteq Players /\ P \subseteq Sides(P)
         /\ \A r \in Players : tradePartner[r] \in Sides(P) => r \in Sides(P)
         /\ \A r \in Sides(P) : tradePartner[r] # None => tradePartner[r] \in Sides(P)
<1>1. Sides(P) \subseteq Players /\ P \subseteq Sides(P)
  BY DEF TypeOK, Sides
<1>2. ASSUME NEW r \in Sides(P), tradePartner[r] # None PROVE tradePartner[r] \in Sides(P)
  <2>1. CASE r \in P
    BY <1>2, <2>1 DEF Sides
  <2>2. CASE r \notin P
    <3>1. PICK p \in P : tradePartner[p] = r
      BY <2>2 DEF Sides
    <3>2. tradePartner[r] = p
      BY <1>1, <3>1 DEF PartnersAgree
    <3> QED BY <1>1, <3>2
  <2> QED BY <2>1, <2>2
<1>3. ASSUME NEW r \in Players, tradePartner[r] \in Sides(P) PROVE r \in Sides(P)
  <2>1. tradePartner[tradePartner[r]] = r
    BY <1>1, <1>3 DEF PartnersAgree
  <2>2. r # None
    BY TradeAssumption
  <2> QED BY <1>2, <1>3, <2>1, <2>2
<1> QED BY <1>1, <1>2, <1>3

(* What is given when P's trades close and the items in gone disappear.    *)
Closing(P, gone) ==
  /\ Close(P, gone)
  /\ \A r \in Players : tradeItem[r] \in gone => r \in P
  /\ \A j \in gone : place[j] # None
  /\ place' \in [Items -> Places] /\ pos' \in [Players -> Spots \cup {None}]
  /\ \A j \in Items : place'[j] = None <=> place[j] = None \/ j \in gone
  /\ \A r \in Players : pos'[r] = None => pos[r] = None \/ r \in P \/ tradeState[r] = "none"

LEMMA ClosedSides ==
  ASSUME TypeOK, PartnersAgree, NEW P \in SUBSET Players, NEW gone, Close(P, gone)
  PROVE  \A r \in Players :
           /\ r \in Sides(P) => tradeState'[r] = "none" /\ tradePartner'[r] = None /\ tradeItem'[r] = None
           /\ r \notin Sides(P) => /\ tradeState'[r] = tradeState[r]
                                   /\ tradePartner'[r] = tradePartner[r]
                                   /\ tradeItem'[r] = tradeItem[r]
BY DEF Close, Sides

LEMMA ClosedOffers ==
  ASSUME TypeOK, PartnersAgree, OffersReferenced,
         NEW P \in SUBSET Players, NEW gone \in SUBSET Items, Close(P, gone), NEW i \in Items
  PROVE  /\ tradeItems[i] \in Sides(P) => tradeItems'[i] = None
         /\ tradeItems[i] \notin Sides(P) => tradeItems'[i] = tradeItems[i]
         /\ refs'[i] = refs[i] - ((IF tradeItems[i] \in Sides(P) THEN 1 ELSE 0)
                                    + (IF i \in gone THEN 1 ELSE 0))
<1> DEFINE offered == {j \in Items : \E p \in Sides(P) : tradeItem[p] = j /\ tradeItems[j] # None}
<1>1. i \in offered <=> tradeItems[i] \in Sides(P)
  <2>1. Sides(P) \subseteq Players /\ None \notin Players
    BY SidesAgree, TradeAssumption
  <2>2. \A p \in Players : tradeItems[i] = p <=> tradeItem[p] = i
    BY DEF OffersReferenced
  <2> QED BY <2>1, <2>2
<1>2. /\ tradeItems' = [j \in Items |-> IF j \in offered THEN None ELSE tradeItems[j]]
      /\ refs' = [j \in Items |-> refs[j] - ((IF j \in offered THEN 1 ELSE 0)
                                               + (IF j \in gone THEN 1 ELSE 0))]
  BY DEF Close, Sides
<1> HIDE DEF offered
<1> QED BY <1>1, <1>2

LEMMA CloseCorrect ==
  ASSUME TypeOK, PartnersAgree, OffersReferenced,
         NEW P \in SUBSET Players, NEW gone \in SUBSET Items, Closing(P, gone)
  PROVE  TypeOK' /\ PartnersAgree' /\ OffersReferenced'
<1>1. Close(P, gone)
  BY DEF Closing
<1>2. \A r \in Players :
        /\ r \in Sides(P) => tradeState'[r] = "none" /\ tradePartner'[r] = None /\ tradeItem'[r] = None
        /\ r \notin Sides(P) => /\ tradeState'[r] = tradeState[r]
                                /\ tradePartner'[r] = tradePartner[r]
                                /\ tradeItem'[r] = tradeItem[r]
  BY <1>1, ClosedSides
<1>3. \A i \in Items :
        /\ tradeItems[i] \in Sides(P) => tradeItems'[i] = None
        /\ tradeItems[i] \notin Sides(P) => tradeItems'[i] = tradeItems[i]
        /\ refs'[i] = refs[i] - ((IF tradeItems[i] \in Sides(P) THEN 1 ELSE 0)
                                   + (IF i \in gone THEN 1 ELSE 0))
  BY <1>1, ClosedOffers
<1>4. /\ Sides(P) \subseteq Players /\ P \subseteq Sides(P)
      /\ \A r \in Players : tradePartner[r] \in Sides(P) => r \in Sides(P)
  BY SidesAgree
<1>5. ASSUME NEW i \in Items
      PROVE  refs'[i] = (IF place'[i] # None THEN 1 ELSE 0) + (IF tradeItems'[i] # None THEN 1 ELSE 0)
  <2>1. refs[i] = (IF place[i] # None THEN 1 ELSE 0) + (IF tradeItems[i] # None THEN 1 ELSE 0)
    BY DEF OffersReferenced
  <2>2. i \in gone => place[i] # None
    BY DEF Closing
  <2>3. place'[i] = None <=> place[i] = None \/ i \in gone
    BY DEF Closing
  <2>4. None \notin Sides(P)
    BY <1>4, TradeAssumption
  <2> QED BY <1>3, <2>1, <2>2, <2>3, <2>4
<1>6. TypeOK'
  <2>1. tradeState' \in [Players -> {"none", "initiated", "acknowledge", "accept"}]
    <3>1. \A r \in Players : tradeState[r] \in {"none", "initiated", "acknowledge", "accept"}
      BY DEF TypeOK
    <3>2. tradeState' = [r \in Players |-> tradeState'[r]]
      BY <1>1 DEF Close
    <3> QED BY <1>2, <3>1, <3>2
  <2>2. /\ tradePartner' \in [Players -> Players \cup {None}]
        /\ tradeItem' \in [Players -> Items \cup {None}]
    <3>1. \A r \in Players : tradePartner[r] \in Players \cup {None} /\ tradeItem[r] \in Items \cup {None}
      BY DEF TypeOK
    <3>2. /\ tradePartner' = [r \in Players |-> tradePartner'[r]]
          /\ tradeItem' = [r \in Players |-> tradeItem'[r]]
      BY <1>1 DEF Close
    <3> QED BY <1>2, <3>1, <3>2
  <2>3. tradeItems' \in [Items -> Players \cup {None}]
    <3>1. \A i \in Items : tradeItems[i] \in Players \cup {None}
      BY DEF TypeOK
    <3>2. tradeItems' = [i \in Items |-> tradeItems'[i]]
      BY <1>1 DEF Close
    <3> QED BY <1>3, <3>1, <3>2
  <2>4. refs' \in [Items -> 0 .. 2]
    <3>1. refs' = [i \in Items |-> refs'[i]]
      BY <1>1 DEF Close
    <3> QED BY <1>5, <3>1
  <2>5. ASSUME NEW i \in Items, place'[i] = None PROVE tradeItems'[i] = None
    <3>1. CASE place[i] = None
      <4>1. tradeItems[i] = None
        BY <3>1 DEF TypeOK
      <4> QED BY <1>3, <4>1
    <3>2. CASE place[i] # None
      <4>1. i \in gone
        BY <2>5, <3>2 DEF Closing
      <4>2. tradeItems[i] \in Players \cup {None}
        BY DEF TypeOK
      <4>3. ASSUME tradeItems[i] \in Players PROVE tradeItems[i] \in P
        <5>1. tradeItem[tradeItems[i]] = i
          BY <4>3 DEF OffersReferenced
        <5> QED BY <4>1, <4>3, <5>1 DEF Closing
      <4> QED BY <1>3, <1>4, <4>2, <4>3
    <3> QED BY <3>1, <3>2
  <2>6. place' \in [Items -> Places] /\ pos' \in [Players -> Spots \cup {None}]
    BY DEF Closing
  <2> QED BY <2>1, <2>2, <2>3, <2>4, <2>5, <2>6 DEF TypeOK, Places
<1>7. PartnersAgree'
  <2>1. ASSUME NEW p \in Players, NEW q \in Players, tradePartner'[p] = q
        PROVE  p # q /\ tradePartner'[q] = p
    <3>1. p \notin Sides(P) /\ tradePartner[p] = q
      BY <1>2, <2>1, TradeAssumption
    <3>2. p # q /\ tradePartner[q] = p /\ q \notin Sides(P)
      BY <1>4, <3>1 DEF PartnersAgree
    <3> QED BY <1>2, <3>2
  <2>2. ASSUME NEW p \in Players
        PROVE  /\ tradeState'[p] = "none" <=> tradePartner'[p] = None
               /\ tradeState'[p] \in {"none", "acknowledge"} => tradeItem'[p] = None
    <3>1. /\ tradeState[p] = "none" <=> tradePartner[p] = None
          /\ tradeState[p] \in {"none", "acknowledge"} => tradeItem[p] = None
      BY DEF PartnersAgree
    <3> QED BY <1>2, <3>1
  <2>3. ASSUME NEW p \in Players, pos'[p] = None PROVE tradeState'[p] = "none"
    <3>1. pos[p] = None => tradeState[p] = "none"
      BY DEF PartnersAgree
    <3> QED BY <1>2, <1>4, <2>3, <3>1 DEF Closing
  <2> QED BY <2>1, <2>2, <2>3 DEF PartnersAgree
<1>8. OffersReferenced'
  <2>1. ASSUME NEW i \in Items, NEW p \in Players PROVE tradeItems'[i] = p <=> tradeItem'[p] = i
    <3>1. tradeItems[i] = p <=> tradeItem[p] = i
      BY DEF OffersReferenced
    <3>2. None \notin Players /\ None \notin Items
      BY TradeAssumption
    <3>3. CASE p \in Sides(P)
      BY <1>2, <1>3, <3>2, <3>3
    <3>4. CASE p \notin Sides(P)
      BY <1>2, <1>3, <3>1, <3>2, <3>4
    <3> QED BY <3>3, <3>4
  <2> QED BY <1>5, <2>1 DEF OffersReferenced
<1> QED BY <1>6, <1>7, <1>8

-----------------------------------------------------------------------------
(* Offers in reach.                                                        *)
LEMMA OfferFacts ==
  ASSUME TradeInv, NEW p \in Players, tradeItem[p] # None
  PROVE  /\ tradeItem[p] \in Items /\ pos[p] \in Spots /\ tradePartner[p] \in Players
         /\ TopOf(place, tradeItem[p]) \in {p, pos[p]}
         /\ place[tradeItem[p]] # None
<1>1. tradeItem[p] \in Items
  BY DEF TradeInv, TypeOK
<1>2. tradeState[p] # "none"
  BY DEF TradeInv, PartnersAgree
<1>3. pos[p] \in Spots /\ tradePartner[p] \in Players
  BY <1>2 DEF TradeInv, PartnersAgree, TypeOK
<1>4. TopOf(place, tradeItem[p]) \in {p, pos[p]}
  BY Chains DEF TradeInv, OffersInReach, Reach
<1>5. place[tradeItem[p]] # None
  <2>1. None \notin Bags /\ None \notin {p, pos[p]}
    BY <1>3, TradeAssumption
  <2> QED BY <1>1, <1>4, <2>1, TopUnfold
<1> QED BY <1>1, <1>3, <1>4, <1>5

LEMMA KeptInReach ==
  ASSUME TradeInv, NEW P \in SUBSET Players, NEW gone, Close(P, gone),
         \A r \in Players \ Sides(P) : tradePartner[r] # None => pos'[r] = pos[r],
         \A r \in Players \ Sides(P) : tradeItem[r] # None =>
           /\ TopOf(place', tradeItem[r]) = TopOf(place, tradeItem[r])
           /\ \A b : InOf(place', tradeItem[r], b) <=> InOf(place, tradeItem[r], b)
  PROVE  OffersInReach'
<1>1. \A r \in Players :
        /\ r \in Sides(P) => tradePartner'[r] = None /\ tradeItem'[r] = None
        /\ r \notin Sides(P) => tradePartner'[r] = tradePartner[r] /\ tradeItem'[r] = tradeItem[r]
  BY ClosedSides DEF TradeInv
<1>2. ASSUME NEW p \in Players, tradeItem'[p] # None
      PROVE  TopOf(place', tradeItem'[p]) \in {p, pos'[p]}
  <2>1. p \notin Sides(P) /\ tradeItem'[p] = tradeItem[p] /\ tradeItem[p] # None
    BY <1>1, <1>2
  <2>2. tradePartner[p] # None
    BY <2>1, OfferFacts, TradeAssumption
  <2>3. pos'[p] = pos[p]
    BY <2>1, <2>2
  <2> QED BY <2>1, <2>3, OfferFacts
<1>3. ASSUME NEW p \in Players, tradePartner'[p] # None
      PROVE  pos'[tradePartner'[p]] = pos'[p]
  <2>1. p \notin Sides(P) /\ tradePartner'[p] = tradePartner[p] /\ tradePartner[p] # None
    BY <1>1, <1>3
  <2>2. tradePartner[p] \in Players /\ tradePartner[p] \notin Sides(P)
    BY <2>1, SidesAgree DEF TradeInv, TypeOK
  <2>3. tradePartner[tradePartner[p]] = p /\ p # None
    BY <2>2, TradeAssumption DEF TradeInv, PartnersAgree
  <2>4. pos[tradePartner[p]] = pos[p]
    BY <2>1 DEF TradeInv, OffersInReach
  <2> QED BY <2>1, <2>2, <2>3, <2>4
<1>4. ASSUME NEW p \in Players, NEW q \in Players, p # q, tradeItem'[p] # None, tradeItem'[q] # None
      PROVE  tradeItem'[p] # tradeItem'[q] /\ ~InOf(place', tradeItem'[p], tradeItem'[q])
  <2>1. /\ p \notin Sides(P) /\ tradeItem'[p] = tradeItem[p] /\ tradeItem[p] # None
        /\ tradeItem'[q] = tradeItem[q] /\ tradeItem[q] # None
    BY <1>1, <1>4
  <2>2. tradeItem[p] # tradeItem[q] /\ ~InOf(place, tradeItem[p], tradeItem[q])
    BY <1>4, <2>1, Chains DEF TradeInv, OffersInReach
  <2> QED BY <2>1, <2>2
<1> QED BY <1>2, <1>3, <1>4, ReachNext

(* The notifications of a removal reach everybody whose offer it concerns. *)
LEMMA RemovalCloses ==
  ASSUME TradeInv, NEW i \in Items, place[i] # None, NEW p \in Players, tradeItem[p] # None,
         tradeItem[p] \notin Apart(place, i)
  PROVE  p \in ClosedByRemoval(i)
<1> DEFINE r == tradeItem[p]
<1>1. /\ r \in Items /\ pos[p] \in Spots /\ TopOf(place, r) \in {p, pos[p]}
      /\ Acyclic(place)
  BY OfferFacts DEF TradeInv
<1>2. r = i \/ (i \in Bags /\ InOf(place, r, i))
  BY <1>1 DEF Apart, InOf
<1>3. TopOf(place, i) = TopOf(place, r)
  BY <1>1, <1>2, InTop
<1>4. Concerns(p, i)
  BY <1>2, Chains DEF Concerns
<1>5. CASE place[i] \in Players
  <2>1. TopOf(place, i) = place[i]
    BY <1>5, TopUnfold, TradeAssumption
  <2>2. place[i] = p
    BY <1>1, <1>3, <1>5, <2>1, TradeAssumption
  <2>3. ClosedByRemoval(i) = {q \in {place[i]} : Concerns(q, i)}
    BY <1>5, TradeAssumption DEF ClosedByRemoval
  <2> QED BY <1>4, <2>2, <2>3
<1>6. CASE place[i] \in Spots
  <2>1. place[i] \notin Players
    BY <1>6, TradeAssumption
  <2>2. ClosedByRemoval(i) = {q \in Players : Concerns(q, i)}
    BY <1>6, <2>1, TradeAssumption DEF ClosedByRemoval
  <2> QED BY <1>4, <2>2
<1>7. CASE place[i] \in Bags
  <2>1. place[i] \notin Players /\ place[i] \notin Spots /\ place[i] \in Items
    BY <1>7, TradeAssumption
  <2>2. Spot(i) = pos[p]
    <3>1. Top(i) = p \/ (Top(i) = pos[p] /\ pos[p] \notin Players)
      BY <1>1, <1>3, Chains, TradeAssumption
    <3> QED BY <3>1 DEF Spot
  <2>3. pos[p] # None
    BY <1>1, TradeAssumption
  <2>4. r = i \/ (place[r] # place[i] /\ Inside(r, place[i]))
    <3>1. SUFFICES ASSUME i \in Bags, InOf(place, r, i)
                   PROVE  place[r] # place[i] /\ InOf(place, r, place[i])
      BY <1>2, Chains
    <3>2. InOf(place, i, place[i])
      BY <1>7, InUnfold
    <3>3. InOf(place, r, place[i])
      BY <1>1, <1>7, <3>1, <3>2, InTrans
    <3>4. ASSUME place[r] = place[i] PROVE FALSE
      <4>1. place[r] = i \/ InOf(place, place[r], i)
        BY <1>1, <3>1, InUnfold
      <4>2. InOf(place, i, i)
        BY <1>1, <1>7, <3>1, <3>2, <3>4, <4>1, InTrans
      <4> QED BY <1>1, <3>1, <4>2, InIrreflexive
    <3> QED BY <3>3, <3>4
  <2> QED BY <1>7, <2>1, <2>2, <2>3, <2>4 DEF ClosedByRemoval
<1>8. place[i] \in Players \cup Spots \cup Bags
  BY DEF TradeInv, TypeOK
<1> QED BY <1>5, <1>6, <1>7, <1>8

LEMMA ClosedPlayers ==
  ASSUME NEW i, NEW to
  PROVE  ClosedByRemoval(i) \subseteq Players /\ ClosedByAddition(to) \subseteq Players
<1>1. ClosedByAddition(to) \subseteq Players
  BY DEF ClosedByAddition
<1>2. ClosedByRemoval(i) \subseteq Players
  <2>1. CASE place[i] \in Players
    BY <2>1 DEF ClosedByRemoval
  <2>2. CASE place[i] \notin Players
    BY <2>2 DEF ClosedByRemoval
  <2> QED BY <2>1, <2>2
<1> QED BY <1>1, <1>2

-----------------------------------------------------------------------------
(* The steps.                                                              *)
LEMMA InitStep == Init => TradeInv
<1> SUFFICES ASSUME Init PROVE TradeInv
  OBVIOUS
<1>1. \A j \in Items : place[j] \notin Bags /\ place[j] # None
  BY TradeAssumption DEF Init
<1>2. TypeOK
  BY <1>1 DEF Init, TypeOK
<1>3. PartnersAgree
  BY TradeAssumption DEF Init, PartnersAgree
<1>4. OffersReferenced
  <2>1. ASSUME NEW i \in Items PROVE refs[i] = (IF place[i] # None THEN 1 ELSE 0) + (IF tradeItems[i] # None THEN 1 ELSE 0)
    BY <1>1 DEF Init
  <2>2. ASSUME NEW i \in Items, NEW p \in Players PROVE tradeItems[i] = p <=> tradeItem[p] = i
    BY TradeAssumption DEF Init
  <2> QED BY <2>1, <2>2 DEF OffersReferenced
<1>5. OffersInReach
  BY DEF Init, OffersInReach
<1>6. Acyclic(place)
  BY <1>1 DEF Acyclic
<1> QED BY <1>2, <1>3, <1>4, <1>5, <1>6 DEF TradeInv

LEMMA MoveItemStep ==
  ASSUME TradeInv, NEW p \in Players, NEW i \in Items, NEW to \in Players \cup Spots \cup Bags,
         MoveItem(p, i, to)
  PROVE  TradeInv'
<1> DEFINE P == ClosedByRemoval(i) \cup ClosedByAddition(to)
<1>1. P \in SUBSET Players /\ {} \in SUBSET Items
  BY ClosedPlayers
<1>2. /\ Close(P, {}) /\ pos' = pos /\ pos \in [Players -> Spots \cup {None}]
      /\ pos[p] \in Spots /\ Top(i) \in {p, pos[p]}
      /\ place \in [Items -> Places] /\ place' = [place EXCEPT ![i] = to]
      /\ to # None
  BY TradeAssumption DEF MoveItem, Reach, TradeInv, TypeOK, Places
<1>3. place[i] # None
  BY <1>2, Chains, TopUnfold, TradeAssumption
<1>4. \A j \in Apart(place, i) : place'[j] = place[j]
  BY <1>2 DEF Apart
<1>5. Closing(P, {})
  BY <1>2, <1>3 DEF Closing, Places
<1> HIDE DEF P
<1>6. TypeOK' /\ PartnersAgree' /\ OffersReferenced'
  BY <1>1, <1>5, CloseCorrect DEF TradeInv
<1>7. Acyclic(place')
  <2>1. to \in Bags => to \in Apart(place, i)
    <3>1. to \in Bags => to \notin Players \cup Spots /\ to \in Items
      BY TradeAssumption
    <3>2. to \in Bags => to # i /\ ~Inside(to, i)
      BY <1>2, <3>1 DEF MoveItem
    <3> QED BY <3>1, <3>2, Chains DEF Apart
  <2>2. Acyclic(place) /\ place'[i] = to /\ \A j \in Items \ {i} : place'[j] = place[j]
    BY <1>2 DEF TradeInv
  <2> QED BY <2>1, <2>2, MovedAcyclic
<1>8. ASSUME NEW r \in Players \ Sides(P), tradeItem[r] # None
      PROVE  /\ TopOf(place', tradeItem[r]) = TopOf(place, tradeItem[r])
             /\ \A b : InOf(place', tradeItem[r], b) <=> InOf(place, tradeItem[r], b)
  <2>1. r \notin ClosedByRemoval(i)
    BY SidesAgree, <1>1 DEF TradeInv, P
  <2>2. tradeItem[r] \in Apart(place, i)
    BY <1>3, <1>8, <2>1, RemovalCloses
  <2> QED BY <1>4, <2>2, ApartKept DEF TradeInv
<1>9. OffersInReach'
  BY <1>1, <1>2, <1>8, KeptInReach
<1> QED BY <1>6, <1>7, <1>9 DEF TradeInv

LEMMA RemoveItemStep ==
  ASSUME TradeInv, NEW i \in Items, RemoveItem(i)
  PROVE  TradeInv'
<1> DEFINE P == ClosedByRemoval(i)
           gone == {j \in Items : j = i \/ Inside(j, i)}
<1>1. P \in SUBSET Players /\ gone \in SUBSET Items
  BY ClosedPlayers
<1>2. /\ Close(P, gone) /\ pos' = pos /\ pos \in [Players -> Spots \cup {None}]
      /\ place \in [Items -> Places]
      /\ place' = [j \in Items |-> IF j \in gone THEN None ELSE place[j]]
      /\ place[i] # None
  BY DEF RemoveItem, TradeInv, TypeOK, Places
<1>3. \A j \in Items : j \in gone <=> j \notin Apart(place, i)
  BY Chains DEF Apart
<1>4. ASSUME NEW j \in gone PROVE place[j] # None
  <2>1. CASE j = i
    BY <1>2, <2>1
  <2>2. CASE j # i
    <3>1. i \in Bags /\ InOf(place, j, i)
      BY <2>2, Chains DEF InOf
    <3>2. place[j] \in Bags
      BY <3>1, InUnfold
    <3> QED BY <3>2, TradeAssumption
  <2> QED BY <2>1, <2>2
<1>5. ASSUME NEW r \in Players, tradeItem[r] \notin Apart(place, i), tradeItem[r] \in Items PROVE r \in P
  <2>1. tradeItem[r] # None
    BY <1>5, TradeAssumption
  <2> QED BY <1>2, <1>5, <2>1, RemovalCloses
<1> HIDE DEF P, gone
<1>6. Closing(P, gone)
  <2>1. \A r \in Players : tradeItem[r] \in gone => r \in P
    BY <1>1, <1>3, <1>5
  <2>2. place' \in [Items -> Places]
    BY <1>2 DEF Places
  <2> QED BY <1>2, <1>4, <2>1, <2>2 DEF Closing
<1>7. TypeOK' /\ PartnersAgree' /\ OffersReferenced'
  BY <1>1, <1>6, CloseCorrect DEF TradeInv
<1>8. Acyclic(place')
  <2>1. \A j \in Items : place'[j] \in Bags => place'[j] = place[j]
    BY <1>2, TradeAssumption
  <2> QED BY <2>1, RemovedAcyclic DEF TradeInv
<1>9. ASSUME NEW r \in Players \ Sides(P), tradeItem[r] # None
      PROVE  /\ TopOf(place', tradeItem[r]) = TopOf(place, tradeItem[r])
             /\ \A b : InOf(place', tradeItem[r], b) <=> InOf(place, tradeItem[r], b)
  <2>1. r \notin P
    BY SidesAgree, <1>1 DEF TradeInv
  <2>2. tradeItem[r] \in Apart(place, i)
    BY <1>5, <1>9, <2>1, OfferFacts
  <2>3. \A j \in Apart(place, i) : place'[j] = place[j]
    BY <1>2, <1>3 DEF Apart
  <2> QED BY <2>2, <2>3, ApartKept DEF TradeInv
<1>10. OffersInReach'
  BY <1>1, <1>2, <1>9, KeptInReach
<1> QED BY <1>7, <1>8, <1>10 DEF TradeInv

(* What closes p's trade, or finds none, and moves nothing.                *)
LEMMA CloseStep ==
  ASSUME TradeInv, NEW p \in Players, NEW P \in SUBSET {p}, Close(P, {}), place' = place,
         pos' \in [Players -> Spots \cup {None}],
         \A r \in Players \ {p} : pos'[r] = pos[r],
         pos'[p] # pos[p] => P = {p} \/ tradePartner[p] = None
  PROVE  TradeInv'
<1>1. P \in SUBSET Players /\ {} \in SUBSET Items /\ place \in [Items -> Places]
  BY DEF TradeInv, TypeOK, Places
<1>2. Closing(P, {})
  <2>1. ASSUME NEW r \in Players, pos'[r] = None PROVE pos[r] = None \/ r \in P \/ tradeState[r] = "none"
    BY <2>1 DEF TradeInv, PartnersAgree
  <2> QED BY <1>1, <2>1 DEF Closing
<1>3. TypeOK' /\ PartnersAgree' /\ OffersReferenced'
  BY <1>1, <1>2, CloseCorrect DEF TradeInv
<1>4. ASSUME NEW r \in Players \ Sides(P), tradePartner[r] # None PROVE pos'[r] = pos[r]
  <2>1. r \notin P
    BY <1>1, SidesAgree DEF TradeInv
  <2> QED BY <1>4, <2>1
<1>5. OffersInReach'
  BY <1>1, <1>4, KeptInReach
<1> QED BY <1>3, <1>5 DEF TradeInv

LEMMA WalkStep ==
  ASSUME TradeInv, NEW p \in Players, NEW s \in Spots, Walk(p, s)
  PROVE  TradeInv'
<1> DEFINE P == IF TooFar(p, s) THEN {p} ELSE {}
<1>1. /\ P \in SUBSET {p} /\ Close(P, {}) /\ place' = place
      /\ pos' = [pos EXCEPT ![p] = s] /\ pos \in [Players -> Spots \cup {None}]
      /\ pos[p] # s
  BY DEF Walk, TradeInv, TypeOK
<1>2. P = {p} \/ tradePartner[p] = None
  <2>1. SUFFICES ASSUME tradePartner[p] # None PROVE TooFar(p, s)
    OBVIOUS
  <2>2. pos[tradePartner[p]] = pos[p]
    BY <2>1 DEF TradeInv, OffersInReach
  <2> QED BY <1>1, <2>1, <2>2 DEF TooFar
<1> HIDE DEF P
<1> QED BY <1>1, <1>2, CloseStep

LEMMA LogoutStep ==
  ASSUME TradeInv, NEW p \in Players, Logout(p)
  PROVE  TradeInv'
<1> DEFINE P == IF tradePartner[p] # None THEN {p} ELSE {}
<1>1. /\ P \in SUBSET {p} /\ Close(P, {}) /\ place' = place
      /\ pos' = [pos EXCEPT ![p] = None] /\ pos \in [Players -> Spots \cup {None}]
      /\ P = {p} \/ tradePartner[p] = None
  BY DEF Logout, TradeInv, TypeOK
<1> HIDE DEF P
<1> QED BY <1>1, CloseStep

LEMMA CloseTradeStep ==
  ASSUME TradeInv, NEW p \in Players, CloseTrade(p)
  PROVE  TradeInv'
<1>1. /\ {p} \in SUBSET {p} /\ Close({p}, {}) /\ place' = place /\ pos' = pos
      /\ pos \in [Players -> Spots \cup {None}]
  BY DEF CloseTrade, TradeInv, TypeOK
<1> QED BY <1>1, CloseStep

(* A request: both were free, or q had asked p already.                    *)
LEMMA RequestTradeStep ==
  ASSUME TradeInv, NEW p \in Players, NEW q \in Players, NEW i \in Items, RequestTrade(p, q, i)
  PROVE  TradeInv'
<1>1. /\ p # q /\ pos' = pos /\ place' = place /\ pos[p] \in Spots /\ pos[q] = pos[p]
      /\ TopOf(place, i) \in {p, pos[p]} /\ None \notin Players /\ None \notin Items
      /\ None \notin Bags
  BY Chains, TradeAssumption DEF RequestTrade, Reach, TradeInv, TypeOK
<1>2. place[i] # None /\ tradeItems[i] = None
  <2>1. place[i] # None
    BY <1>1, TopUnfold, TradeAssumption
  <2> QED BY <2>1 DEF RequestTrade, NotOffered
<1>3. \/ /\ tradeState[p] = "none" /\ tradeState[q] = "none"
         /\ tradePartner[p] = None /\ tradePartner[q] = None
      \/ /\ tradeState[p] = "acknowledge" /\ tradeState[q] # "none"
         /\ tradePartner[p] = q /\ tradePartner[q] = p
  <2>1. /\ tradeState[p] = "none" <=> tradePartner[p] = None
        /\ tradeState[q] = "none" <=> tradePartner[q] = None
        /\ tradePartner[p] = q => tradePartner[q] = p
        /\ tradePartner[q] = p => tradePartner[p] = q
    BY DEF TradeInv, PartnersAgree
  <2>2. MayStart(p, q)
    BY DEF RequestTrade
  <2> QED BY <1>1, <2>1, <2>2 DEF MayStart
<1>4. tradeItem[p] = None
  BY <1>3 DEF TradeInv, PartnersAgree
<1>5. /\ \A r \in Players \ {p} : tradeItem'[r] = tradeItem[r]
      /\ tradeItem'[p] = i
      /\ \A j \in Items \ {i} : tradeItems'[j] = tradeItems[j] /\ refs'[j] = refs[j]
      /\ tradeItems'[i] = p /\ refs'[i] = refs[i] + 1
  BY DEF RequestTrade, TradeInv, TypeOK
<1>6. /\ \A r \in Players \ {p, q} : tradeState'[r] = tradeState[r] /\ tradePartner'[r] = tradePartner[r]
      /\ tradeState'[p] = "initiated" /\ tradePartner'[p] = q
      /\ tradeState'[q] = IF tradeState[q] = "none" THEN "acknowledge" ELSE tradeState[q]
      /\ tradePartner'[q] = IF tradeState[q] = "none" THEN p ELSE tradePartner[q]
  BY <1>1 DEF RequestTrade, TradeInv, TypeOK
<1>7. tradePartner'[q] = p
  BY <1>3, <1>6
<1>8. ASSUME NEW r \in Players, tradeItem[r] # None
      PROVE  /\ i # tradeItem[r] /\ ~InOf(place, tradeItem[r], i) /\ ~InOf(place, i, tradeItem[r])
             /\ tradeItem[r] \in Items
  <2>1. tradeItem[r] \in Items /\ tradeItems[tradeItem[r]] = r
    BY <1>8 DEF TradeInv, TypeOK, OffersReferenced
  <2> QED BY <1>1, <2>1, Chains DEF RequestTrade, NotOffered
<1>9. ASSUME NEW j \in Items
      PROVE  refs'[j] = (IF place'[j] # None THEN 1 ELSE 0) + (IF tradeItems'[j] # None THEN 1 ELSE 0)
  <2>1. refs[j] = (IF place[j] # None THEN 1 ELSE 0) + (IF tradeItems[j] # None THEN 1 ELSE 0)
    BY DEF TradeInv, OffersReferenced
  <2> QED BY <1>1, <1>2, <1>5, <2>1
<1>10. TypeOK'
  <2>1. /\ tradeState' \in [Players -> {"none", "initiated", "acknowledge", "accept"}]
        /\ tradePartner' \in [Players -> Players \cup {None}]
    BY DEF RequestTrade, TradeInv, TypeOK
  <2>2. /\ tradeItem' \in [Players -> Items \cup {None}]
        /\ tradeItems' \in [Items -> Players \cup {None}]
    BY DEF RequestTrade, TradeInv, TypeOK
  <2>3. refs' \in [Items -> 0 .. 2]
    <3>1. refs' = [j \in Items |-> refs'[j]]
      BY DEF RequestTrade, TradeInv, TypeOK
    <3> QED BY <1>9, <3>1
  <2>4. \A j \in Items : place'[j] = None => tradeItems'[j] = None
    BY <1>1, <1>2, <1>5 DEF TradeInv, TypeOK
  <2> QED BY <1>1, <2>1, <2>2, <2>3, <2>4 DEF TradeInv, TypeOK
<1>11. PartnersAgree'
  <2>1. ASSUME NEW r \in Players, NEW t \in Players, tradePartner'[r] = t
        PROVE  r # t /\ tradePartner'[t] = r
    <3>1. CASE r \in {p, q}
      BY <1>1, <1>6, <1>7, <2>1, <3>1
    <3>2. CASE r \notin {p, q}
      <4>1. tradePartner[r] = t /\ r # t /\ tradePartner[t] = r
        BY <1>6, <2>1, <3>2 DEF TradeInv, PartnersAgree
      <4>2. t \notin {p, q}
        BY <1>1, <1>3, <3>2, <4>1
      <4> QED BY <1>6, <4>1, <4>2
    <3> QED BY <3>1, <3>2
  <2>2. ASSUME NEW r \in Players PROVE tradeState'[r] = "none" <=> tradePartner'[r] = None
    <3>1. tradeState[r] = "none" <=> tradePartner[r] = None
      BY DEF TradeInv, PartnersAgree
    <3>2. CASE r \in {p, q}
      BY <1>1, <1>6, <1>7, <3>2
    <3>3. CASE r \notin {p, q}
      BY <1>6, <3>1, <3>3
    <3> QED BY <3>2, <3>3
  <2>3. ASSUME NEW r \in Players, tradeState'[r] \in {"none", "acknowledge"} PROVE tradeItem'[r] = None
    <3>1. r # p
      BY <1>6, <2>3
    <3>2. tradeState[r] \in {"none", "acknowledge"}
      BY <1>6, <2>3, <3>1
    <3> QED BY <1>5, <3>1, <3>2 DEF TradeInv, PartnersAgree
  <2>4. ASSUME NEW r \in Players, pos'[r] = None PROVE tradeState'[r] = "none"
    <3>1. r \notin {p, q} /\ pos[r] = None
      BY <1>1, <2>4, TradeAssumption
    <3> QED BY <1>6, <3>1 DEF TradeInv, PartnersAgree
  <2> QED BY <2>1, <2>2, <2>3, <2>4 DEF PartnersAgree
<1>12. OffersReferenced'
  <2>1. ASSUME NEW j \in Items, NEW r \in Players PROVE tradeItems'[j] = r <=> tradeItem'[r] = j
    <3>1. tradeItems[j] = r <=> tradeItem[r] = j
      BY DEF TradeInv, OffersReferenced
    <3> QED BY <1>1, <1>2, <1>4, <1>5, <3>1
  <2> QED BY <1>9, <2>1 DEF OffersReferenced
<1>13. OffersInReach'
  <2>1. ASSUME NEW r \in Players, tradeItem'[r] # None
        PROVE  TopOf(place', tradeItem'[r]) \in {r, pos'[r]}
    <3>1. CASE r = p
      BY <1>1, <1>5, <3>1
    <3>2. CASE r # p
      BY <1>1, <1>5, <2>1, <3>2, OfferFacts
    <3> QED BY <3>1, <3>2
  <2>2. ASSUME NEW r \in Players, tradePartner'[r] # None
        PROVE  pos'[tradePartner'[r]] = pos'[r]
    <3>1. CASE r \in {p, q}
      BY <1>1, <1>6, <1>7, <3>1
    <3>2. CASE r \notin {p, q}
      BY <1>1, <1>6, <2>2, <3>2 DEF TradeInv, OffersInReach
    <3> QED BY <3>1, <3>2
  <2>3. ASSUME NEW r \in Players, NEW t \in Players, r # t, tradeItem'[r] # None, tradeItem'[t] # None
        PROVE  tradeItem'[r] # tradeItem'[t] /\ ~InOf(place', tradeItem'[r], tradeItem'[t])
    <3>1. CASE r = p
      BY <1>1, <1>5, <1>8, <2>3, <3>1
    <3>2. CASE t = p
      BY <1>1, <1>5, <1>8, <2>3, <3>2
    <3>3. CASE r # p /\ t # p
      BY <1>1, <1>5, <2>3, <3>3, Chains DEF TradeInv, OffersInReach
    <3> QED BY <3>1, <3>2, <3>3
  <2> QED BY <2>1, <2>2, <2>3, ReachNext
<1>14. Acyclic(place')
  BY <1>1 DEF TradeInv
<1> QED BY <1>10, <1>11, <1>12, <1>13, <1>14 DEF TradeInv

(* The exchange: neither item goes into itself or the other.               *)
LEMMA ExchangePlaces ==
  ASSUME TradeInv, NEW p \in Players, NEW q \in Players, tradePartner[p] = q,
         tradeItem[p] # None, tradeItem[q] # None,
         NEW to \in Destinations(q, tradeItem[p]), to # tradeItem[q],
         SecondMove(p, q, to)
  PROVE  /\ place' \in [Items -> Places]
         /\ \A j \in Items : place'[j] = None <=> place[j] = None
         /\ Acyclic(place')
         /\ \A j \in Apart(place, tradeItem[p]) \cap Apart(place, tradeItem[q]) :
              /\ TopOf(place', j) = TopOf(place, j)
              /\ \A c : InOf(place', j, c) <=> InOf(place, j, c)
<1> DEFINE a == tradeItem[p]
           b == tradeItem[q]
           moved == [place EXCEPT ![a] = to]
<1>1. /\ a \in Items /\ pos[p] \in Spots /\ TopOf(place, a) \in {p, pos[p]} /\ place[a] # None
      /\ b \in Items /\ pos[q] \in Spots /\ TopOf(place, b) \in {q, pos[q]} /\ place[b] # None
  BY OfferFacts
<1>2. p # q /\ a # b /\ Acyclic(place) /\ place \in [Items -> Places]
  BY DEF TradeInv, PartnersAgree, OffersInReach, TypeOK, Places
<1>3. to = q \/ (to \in Bags /\ TopOf(place, to) = q /\ to # a)
  BY Chains DEF Destinations
<1>4. /\ p \notin Spots /\ q \notin Spots /\ p \notin Bags /\ q \notin Bags
      /\ None \notin Players /\ None \notin Bags /\ Bags \subseteq Items
  BY TradeAssumption
<1>5. to \in Bags => to \in Apart(place, a)
  <2>1. SUFFICES ASSUME to \in Bags, InOf(place, to, a) PROVE FALSE
    BY <1>3, <1>4 DEF Apart
  <2>2. a \in Bags
    BY <2>1 DEF InOf
  <2>3. TopOf(place, to) = TopOf(place, a)
    BY <1>2, <1>4, <2>1, <2>2, InTop
  <2> QED BY <1>1, <1>2, <1>3, <1>4, <2>1, <2>3
<1>6. /\ moved \in [Items -> Places] /\ moved[a] = to /\ \A j \in Items \ {a} : moved[j] = place[j]
      /\ to # None
  BY <1>1, <1>2, <1>3, <1>4 DEF Places
<1>7. Acyclic(moved)
  <2> HIDE DEF moved
  <2>1. moved[a] \in Bags => moved[a] \in Apart(place, a)
    BY <1>5, <1>6
  <2> QED BY ONLY <1>1, <1>2, <1>6, <2>1, MovedAcyclic
<1>8. \A j \in Apart(place, a) :
        TopOf(moved, j) = TopOf(place, j) /\ \A c : InOf(moved, j, c) <=> InOf(place, j, c)
  <2> HIDE DEF moved
  <2>1. \A j \in Apart(place, a) : moved[j] = place[j]
    BY <1>6 DEF Apart
  <2> QED BY ONLY <1>1, <1>2, <2>1, ApartKept
<1>9. CASE place' = moved
  <2> HIDE DEF moved
  <2> QED BY <1>1, <1>6, <1>7, <1>8, <1>9
<1>10. ASSUME NEW d, d = p \/ (d \in Bags \ {a, b} /\ TopOf(place, d) = p /\ ~InOf(place, d, a)),
              place' = [moved EXCEPT ![b] = d]
       PROVE  /\ place' \in [Items -> Places]
              /\ \A j \in Items : place'[j] = None <=> place[j] = None
              /\ Acyclic(place')
              /\ \A j \in Apart(place, a) \cap Apart(place, b) :
                   /\ TopOf(place', j) = TopOf(place, j)
                   /\ \A c : InOf(place', j, c) <=> InOf(place, j, c)
  <2> HIDE DEF moved
  <2>1. /\ place' \in [Items -> Places] /\ place'[b] = d
        /\ \A j \in Items \ {b} : place'[j] = moved[j]
        /\ d # None
    BY <1>1, <1>4, <1>6, <1>10 DEF Places
  <2>2. d \in Bags => d \in Apart(moved, b)
    <3>1. SUFFICES ASSUME d \in Bags, InOf(moved, d, b) PROVE FALSE
      BY <1>4, <1>10 DEF Apart
    <3>2. d \in Apart(place, a) /\ TopOf(place, d) = p /\ d \in Items
      BY <1>4, <1>10, <3>1 DEF Apart
    <3>3. InOf(place, d, b) /\ b \in Bags
      <4>1. b \in Bags
        BY <3>1 DEF InOf
      <4> HIDE DEF b
      <4> QED BY <1>8, <3>1, <3>2, <4>1
    <3>4. TopOf(place, d) = TopOf(place, b)
      BY <1>2, <3>2, <3>3, InTop
    <3> QED BY <1>1, <1>2, <1>4, <3>2, <3>4
  <2>3. Acyclic(place')
    <3>1. place'[b] \in Bags => place'[b] \in Apart(moved, b)
      BY <2>1, <2>2
    <3> QED BY ONLY <1>1, <1>7, <2>1, <3>1, MovedAcyclic
  <2>4. \A j \in Apart(moved, b) :
          TopOf(place', j) = TopOf(moved, j) /\ \A c : InOf(place', j, c) <=> InOf(moved, j, c)
    <3>1. \A j \in Apart(moved, b) : place'[j] = moved[j]
      BY <2>1 DEF Apart
    <3> QED BY ONLY <1>1, <1>7, <3>1, ApartKept
  <2>5. ASSUME NEW j \in Apart(place, a) \cap Apart(place, b) PROVE j \in Apart(moved, b)
    BY <1>8, <2>5 DEF Apart
  <2>6. \A j \in Items : place'[j] = None <=> place[j] = None
    BY <1>1, <1>6, <2>1
  <2> QED BY <1>8, <2>1, <2>3, <2>4, <2>5, <2>6
<1>11. \/ place' = moved
       \/ \E d : /\ d = p \/ (d \in Bags \ {a, b} /\ TopOf(place, d) = p /\ ~InOf(place, d, a))
                 /\ place' = [moved EXCEPT ![b] = d]
  <2> HIDE DEF moved
  <2> DEFINE dests == IF place[a] = p \/ Room(p) THEN {p}
                      ELSE {c \in Bags \ {a, b} : Top(c) = p /\ ~Inside(c, a)
                                /\ (Room(c) \/ place[a] = c)}
  <2>1. \/ place' = moved
        \/ \E d \in dests : place' = [moved EXCEPT ![b] = d]
    BY DEF SecondMove, moved
  <2>2. \A d \in dests : d = p \/ (d \in Bags \ {a, b} /\ TopOf(place, d) = p /\ ~InOf(place, d, a))
    BY Chains
  <2> HIDE DEF dests
  <2> QED BY <2>1, <2>2
<1> QED BY <1>9, <1>10, <1>11

LEMMA ExchangeStep ==
  ASSUME TradeInv, NEW p \in Players, Exchange(p, tradePartner[p]), tradePartner[p] # None, pos' = pos
  PROVE  TradeInv'
<1> DEFINE q == tradePartner[p]
           a == tradeItem[p]
           b == tradeItem[q]
<1>1. PICK to \in Destinations(q, a) :
        /\ to # b /\ SecondMove(p, q, to)
        /\ Close({p} \cup ClosedByRemoval(a) \cup ClosedByRemoval(b) \cup ClosedByAddition(to), {})
  BY DEF Exchange
<1> DEFINE P == {p} \cup ClosedByRemoval(a) \cup ClosedByRemoval(b) \cup ClosedByAddition(to)
<1>2. q \in Players /\ a # None /\ b # None /\ q # p
  BY DEF TradeInv, TypeOK, PartnersAgree, Exchange
<1>3. P \in SUBSET Players /\ Close(P, {}) /\ {} \in SUBSET Items
  BY <1>1, <1>2, ClosedPlayers
<1>4. /\ place' \in [Items -> Places]
      /\ \A j \in Items : place'[j] = None <=> place[j] = None
      /\ Acyclic(place')
      /\ \A j \in Apart(place, a) \cap Apart(place, b) :
           /\ TopOf(place', j) = TopOf(place, j)
           /\ \A c : InOf(place', j, c) <=> InOf(place, j, c)
  BY <1>1, <1>2, ExchangePlaces
<1>5. p \in Sides(P) /\ q \in Sides(P)
  BY <1>2, <1>3, SidesAgree DEF TradeInv
<1> HIDE DEF P
<1>6. Closing(P, {})
  <2>1. pos' \in [Players -> Spots \cup {None}]
    BY DEF TradeInv, TypeOK
  <2> QED BY <1>3, <1>4, <2>1 DEF Closing
<1>7. TypeOK' /\ PartnersAgree' /\ OffersReferenced'
  BY <1>3, <1>6, CloseCorrect DEF TradeInv
<1>8. ASSUME NEW r \in Players \ Sides(P), tradeItem[r] # None
      PROVE  /\ TopOf(place', tradeItem[r]) = TopOf(place, tradeItem[r])
             /\ \A c : InOf(place', tradeItem[r], c) <=> InOf(place, tradeItem[r], c)
  <2>1. r # p /\ r # q /\ tradeItem[r] \in Items
    BY <1>5, <1>8, OfferFacts
  <2>2. tradeItem[r] \in Apart(place, a) \cap Apart(place, b)
    BY <1>2, <1>8, <2>1, Chains DEF TradeInv, OffersInReach, Apart
  <2> QED BY <1>4, <2>2
<1>9. OffersInReach'
  BY <1>3, <1>8, KeptInReach
<1> QED BY <1>4, <1>7, <1>9 DEF TradeInv

LEMMA AcceptStep ==
  ASSUME TradeInv, NEW p \in Players, Accept(p)
  PROVE  TradeInv'
<1>1. /\ pos' = pos /\ pos[p] # None /\ tradePartner[p] # None
      /\ tradeState[p] \in {"acknowledge", "initiated"}
  BY DEF Accept
<1>2. CASE tradeState[tradePartner[p]] # "accept"
  <2>1. /\ tradeState' = [tradeState EXCEPT ![p] = "accept"]
        /\ UNCHANGED <<pos, place, refs, tradePartner, tradeItem, tradeItems>>
    BY <1>1, <1>2 DEF Accept
  <2>2. TypeOK'
    BY <2>1 DEF TradeInv, TypeOK
  <2>3. PartnersAgree'
    <3>1. /\ tradeState'[p] = "accept"
          /\ \A r \in Players \ {p} : tradeState'[r] = tradeState[r]
      BY <2>1 DEF TradeInv, TypeOK
    <3>2. ASSUME NEW r \in Players
          PROVE  /\ tradeState'[r] = "none" <=> tradePartner'[r] = None
                 /\ tradeState'[r] \in {"none", "acknowledge"} => tradeItem'[r] = None
                 /\ pos'[r] = None => tradeState'[r] = "none"
      <4>1. CASE r = p
        BY <1>1, <2>1, <3>1, <4>1
      <4>2. CASE r # p
        BY <2>1, <3>1, <4>2 DEF TradeInv, PartnersAgree
      <4> QED BY <4>1, <4>2
    <3>3. \A r, t \in Players : tradePartner'[r] = t => r # t /\ tradePartner'[t] = r
      BY <2>1 DEF TradeInv, PartnersAgree
    <3> QED BY <3>2, <3>3 DEF PartnersAgree
  <2>4. OffersReferenced'
    BY <2>1 DEF TradeInv, OffersReferenced
  <2>5. OffersInReach'
    BY <2>1 DEF TradeInv, OffersInReach, Reach, Top, Inside
  <2> QED BY <2>1, <2>2, <2>3, <2>4, <2>5 DEF TradeInv
<1>3. CASE Close({p}, {}) /\ place' = place
  <2>1. {p} \in SUBSET {p} /\ pos \in [Players -> Spots \cup {None}]
    BY DEF TradeInv, TypeOK
  <2> QED BY <1>1, <1>3, <2>1, CloseStep
<1>4. CASE Exchange(p, tradePartner[p])
  BY <1>1, <1>4, ExchangeStep
<1> QED BY <1>2, <1>3, <1>4 DEF Accept

LEMMA Inductive == TradeInv /\ [Next]_vars => TradeInv'
<1> SUFFICES ASSUME TradeInv, [Next]_vars PROVE TradeInv'
  OBVIOUS
<1>1. ASSUME NEW p \in Players, Accept(p) PROVE TradeInv'
  BY <1>1, AcceptStep
<1>2. ASSUME NEW p \in Players, CloseTrade(p) PROVE TradeInv'
  BY <1>2, CloseTradeStep
<1>3. ASSUME NEW p \in Players, Logout(p) PROVE TradeInv'
  BY <1>3, LogoutStep
<1>4. ASSUME NEW p \in Players, NEW q \in Players, NEW i \in Items, RequestTrade(p, q, i) PROVE TradeInv'
  BY <1>4, RequestTradeStep
<1>5. ASSUME NEW p \in Players, NEW i \in Items, NEW to \in Players \cup Spots \cup Bags,
             MoveItem(p, i, to)
      PROVE  TradeInv'
  BY <1>5, MoveItemStep
<1>6. ASSUME NEW p \in Players, NEW s \in Spots, Walk(p, s) PROVE TradeInv'
  BY <1>6, WalkStep
<1>7. ASSUME NEW i \in Items, RemoveItem(i) PROVE TradeInv'
  BY <1>7, RemoveItemStep
<1>8. CASE UNCHANGED vars
  <2>1. TypeOK'
    BY <1>8 DEF vars, TradeInv, TypeOK
  <2>2. PartnersAgree'
    BY <1>8 DEF vars, TradeInv, PartnersAgree
  <2>3. OffersReferenced'
    BY <1>8 DEF vars, TradeInv, OffersReferenced
  <2>4. OffersInReach'
    BY <1>8 DEF vars, TradeInv, OffersInReach, Reach, Top, Inside
  <2>5. Acyclic(place)'
    BY <1>8 DEF vars, TradeInv, Acyclic
  <2> QED BY <2>1, <2>2, <2>3, <2>4, <2>5 DEF TradeInv
<1> QED BY <1>1, <1>2, <1>3, <1>4, <1>5, <1>6, <1>7, <1>8 DEF Next

LEMMA Invariant == Spec => []TradeInv
BY InitStep, Inductive, PTL DEF Spec

(* The variables of trades keep their types, and what was removed from the *)
(* game is in no trade: Game::internalRemoveItem tells a trade first.      *)
THEOREM TypeCorrect == Spec => []TypeOK
<1>1. TradeInv => TypeOK
  BY DEF TradeInv
<1> QED BY <1>1, Invariant, PTL

(* However requests, walks, moves, logouts and closings come between, both *)
(* sides of every trade name each other, and a trade that closes closes on *)
(* both (Game::internalCloseTrade).                                        *)
THEOREM PartnersCorrect == Spec => []PartnersAgree
<1>1. TradeInv => PartnersAgree
  BY DEF TradeInv
<1> QED BY <1>1, Invariant, PTL

(* Game::tradeItems and the players' tradeItem name the same offers, and   *)
(* every reference taken for an offer is given back exactly once.          *)
THEOREM OffersCorrect == Spec => []OffersReferenced
<1>1. TradeInv => OffersReferenced
  BY DEF TradeInv
<1> QED BY <1>1, Invariant, PTL

(* For any nesting of bags: what the notifications close is enough for     *)
(* every offer that stays open to be where its owner can hand it over, and *)
(* apart from every other offer.                                           *)
THEOREM ReachCorrect == Spec => []OffersInReach
<1>1. TradeInv => OffersInReach
  BY DEF TradeInv
<1> QED BY <1>1, Invariant, PTL
=============================================================================
