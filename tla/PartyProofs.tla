----------------------------- MODULE PartyProofs -----------------------------
(***************************************************************************)
(* Proofs about Party: its pointers agree, and it implements Fellowship.   *)
(***************************************************************************)
EXTENDS Party, TLAPS

PartyRecord ==
  [leader : Player \cup {None}, memberList : Seq(Player), inviteList : SUBSET Player]

Distinct(s) == \A i, j \in 1 .. Len(s) : s[i] = s[j] => i = j

People(pt) == Range(pt.memberList) \cup {pt.leader}

\* a party that exists: everybody in it once, nobody in it invited, not empty
Sound(pt) ==
  /\ pt \in PartyRecord /\ pt.leader \in Player
  /\ Distinct(pt.memberList) /\ pt.leader \notin Range(pt.memberList)
  /\ People(pt) \cap pt.inviteList = {}
  /\ ~Empty(pt)

\* players point to just the party they are in, and to those they are invited to
PartiesAgree(po, pts) ==
  \A p \in Player, a \in Address : po[p] = a <=> pts[a] # NoParty /\ p \in People(pts[a])
InvitesAgree(il, pts) ==
  \A p \in Player, a \in Address : a \in il[p] <=> p \in pts[a].inviteList

Types ==
  /\ online \subseteq Player
  /\ partyOf \in [Player -> Address \cup {None}]
  /\ invitePartyList \in [Player -> SUBSET Address]
  /\ party \in [Address -> PartyRecord]
ChannelsClean ==
  /\ DOMAIN partyChannels \subseteq Address
  /\ \A a \in DOMAIN partyChannels : partyChannels[a] \subseteq online
PartiesSound == \A a \in Address : party[a] # NoParty => Sound(party[a])
Gone == \A p \in Player \ online : partyOf[p] = None /\ invitePartyList[p] = {}

PartyInv ==
  /\ Types /\ ChannelsClean /\ PartiesSound /\ Gone
  /\ PartiesAgree(partyOf, party) /\ InvitesAgree(invitePartyList, party)

-----------------------------------------------------------------------------
(* Lists of members.                                                       *)
LEMMA RangeOfList ==
  ASSUME NEW s \in Seq(Player)
  PROVE  /\ \A x : x \in Range(s) <=> \E i \in 1 .. Len(s) : s[i] = x
         /\ Range(s) \subseteq Player /\ Len(s) \in Nat
         /\ s = <<>> <=> Range(s) = {}
<1>1. DOMAIN s = 1 .. Len(s) /\ Len(s) \in Nat
  OBVIOUS
<1>2. \A x : x \in Range(s) <=> \E i \in 1 .. Len(s) : s[i] = x
  BY <1>1 DEF Range
<1>3. Range(s) \subseteq Player
  BY <1>2
<1>4. s = <<>> => Range(s) = {}
  BY <1>2
<1>5. s # <<>> => s[1] \in Range(s)
  BY <1>1, <1>2
<1> QED BY <1>1, <1>2, <1>3, <1>4, <1>5

LEMMA RemoveAtList ==
  ASSUME NEW s \in Seq(Player), NEW k \in 1 .. Len(s), NEW r, r = RemoveAt(s, k)
  PROVE  /\ r \in Seq(Player) /\ Len(r) = Len(s) - 1
         /\ \A i \in 1 .. Len(r) : r[i] = IF i < k THEN s[i] ELSE s[i + 1]
<1> DEFINE u == SubSeq(s, 1, k - 1)
           v == SubSeq(s, k + 1, Len(s))
<1>1. u \in Seq(Player) /\ v \in Seq(Player)
  OBVIOUS
<1>2. Len(u) = k - 1 /\ Len(v) = Len(s) - k /\ Len(s) \in Nat
  OBVIOUS
<1>3. /\ \A i \in 1 .. (k - 1) : u[i] = s[i]
      /\ \A i \in 1 .. (Len(s) - k) : v[i] = s[i + k]
  OBVIOUS
<1>4. r = u \o v
  BY DEF RemoveAt
<1> HIDE DEF u, v
<1>5. r \in Seq(Player) /\ Len(r) = Len(s) - 1
  BY <1>1, <1>2, <1>4
<1>6. ASSUME NEW i \in 1 .. Len(r) PROVE r[i] = IF i < k THEN s[i] ELSE s[i + 1]
  <2>1. CASE i < k
    BY <1>1, <1>2, <1>3, <1>4, <1>5, <2>1
  <2>2. CASE ~(i < k)
    <3>1. r[i] = v[i - (k - 1)]
      <4>1. \A j \in 1 .. Len(v) : (u \o v)[Len(u) + j] = v[j]
        BY <1>1
      <4>2. i - (k - 1) \in 1 .. Len(v) /\ Len(u) + (i - (k - 1)) = i
        BY <1>2, <1>5, <2>2
      <4> QED BY <1>4, <4>1, <4>2
    <3>2. i - (k - 1) \in 1 .. (Len(s) - k) /\ (i - (k - 1)) + k = i + 1
      BY <1>2, <1>5, <2>2
    <3> QED BY <1>3, <2>2, <3>1, <3>2
  <2> QED BY <2>1, <2>2
<1> QED BY <1>5, <1>6

LEMMA FirstIndex ==
  ASSUME NEW s \in Seq(Player), Distinct(s), NEW k \in 1 .. Len(s), NEW e, s[k] = e
  PROVE  RemoveFirst(s, e) = RemoveAt(s, k)
<1>1. {i \in 1 .. Len(s) : s[i] = e} = {k}
  BY DEF Distinct
<1>2. SelectInSeq(s, LAMBDA v : v = e) = k
  BY <1>1 DEF SelectInSeq, Min
<1> QED BY <1>2 DEF RemoveFirst

(* Removing a member takes him out and leaves the others, each once.       *)
LEMMA RemovedFromList ==
  ASSUME NEW s \in Seq(Player), Distinct(s), NEW e, NEW r, r = RemoveFirst(s, e)
  PROVE  r \in Seq(Player) /\ Distinct(r) /\ Range(r) = Range(s) \ {e}
<1>1. CASE \E k \in 1 .. Len(s) : s[k] = e
  <2>1. PICK k \in 1 .. Len(s) : s[k] = e
    BY <1>1
  <2>2. r = RemoveAt(s, k)
    BY <2>1, FirstIndex
  <2>3. /\ r \in Seq(Player) /\ Len(r) = Len(s) - 1 /\ Len(s) \in Nat
        /\ \A i \in 1 .. Len(r) : r[i] = IF i < k THEN s[i] ELSE s[i + 1]
    BY <2>2, RemoveAtList
  <2>4. Distinct(r)
    <3>1. SUFFICES ASSUME NEW i \in 1 .. Len(r), NEW j \in 1 .. Len(r), r[i] = r[j] PROVE i = j
      BY DEF Distinct
    <3> DEFINE at(n) == IF n < k THEN n ELSE n + 1
    <3>2. r[i] = s[at(i)] /\ r[j] = s[at(j)]
      BY <2>3
    <3>3. at(i) \in 1 .. Len(s) /\ at(j) \in 1 .. Len(s)
      BY <2>3
    <3>4. at(i) = at(j)
      BY <3>1, <3>2, <3>3 DEF Distinct
    <3> QED BY <3>4
  <2>5. ASSUME NEW x PROVE x \in Range(r) <=> x \in Range(s) /\ x # e
    <3>1. ASSUME x \in Range(r) PROVE x \in Range(s) /\ x # e
      <4>1. PICK i \in 1 .. Len(r) : r[i] = x
        BY <2>3, <3>1, RangeOfList
      <4> DEFINE n == IF i < k THEN i ELSE i + 1
      <4>2. n \in 1 .. Len(s) /\ s[n] = x /\ n # k
        BY <2>3, <4>1
      <4> QED BY <2>1, <4>2, RangeOfList DEF Distinct
    <3>2. ASSUME x \in Range(s), x # e PROVE x \in Range(r)
      <4>1. PICK n \in 1 .. Len(s) : s[n] = x
        BY <3>2, RangeOfList
      <4> DEFINE i == IF n < k THEN n ELSE n - 1
      <4>2. n # k
        BY <2>1, <3>2, <4>1
      <4>3. i \in 1 .. Len(r) /\ r[i] = x
        BY <2>3, <4>1, <4>2
      <4> QED BY <2>3, <4>3, RangeOfList
    <3> QED BY <3>1, <3>2
  <2> QED BY <2>3, <2>4, <2>5
<1>2. CASE ~\E k \in 1 .. Len(s) : s[k] = e
  <2>1. r = s
    BY <1>2 DEF RemoveFirst
  <2> QED BY <1>2, <2>1, RangeOfList
<1> QED BY <1>1, <1>2

LEMMA PrependedToList ==
  ASSUME NEW s \in Seq(Player), Distinct(s), NEW e \in Player, e \notin Range(s), NEW r, r = <<e>> \o s
  PROVE  r \in Seq(Player) /\ Distinct(r) /\ Range(r) = Range(s) \cup {e} /\ r[1] = e
<1>1. /\ r \in Seq(Player) /\ Len(r) = Len(s) + 1 /\ r[1] = e /\ Len(s) \in Nat
      /\ \A i \in 1 .. Len(s) : r[i + 1] = s[i]
  OBVIOUS
<1>2. \A n \in 1 .. Len(r) : n = 1 \/ (n - 1 \in 1 .. Len(s) /\ r[n] = s[n - 1])
  BY <1>1
<1>3. \A i \in 1 .. Len(s) : s[i] # e
  BY RangeOfList
<1>4. Distinct(r)
  <2>1. SUFFICES ASSUME NEW i \in 1 .. Len(r), NEW j \in 1 .. Len(r), r[i] = r[j] PROVE i = j
    BY DEF Distinct
  <2>2. CASE i = 1 \/ j = 1
    BY <1>1, <1>2, <1>3, <2>1, <2>2
  <2>3. CASE i # 1 /\ j # 1
    <3>1. i - 1 \in 1 .. Len(s) /\ j - 1 \in 1 .. Len(s) /\ s[i - 1] = s[j - 1]
      BY <1>2, <2>1, <2>3
    <3>2. i - 1 = j - 1
      BY <3>1 DEF Distinct
    <3> QED BY <3>2
  <2> QED BY <2>2, <2>3
<1>5. ASSUME NEW x PROVE x \in Range(r) <=> x \in Range(s) \/ x = e
  <2>1. \A t \in Seq(Player) : x \in Range(t) <=> \E i \in 1 .. Len(t) : t[i] = x
    BY RangeOfList
  <2>2. ASSUME x \in Range(r) PROVE x \in Range(s) \/ x = e
    BY <1>1, <1>2, <2>1, <2>2
  <2>3. ASSUME x \in Range(s) PROVE x \in Range(r)
    <3>1. PICK i \in 1 .. Len(s) : s[i] = x
      BY <2>1, <2>3
    <3>2. i + 1 \in 1 .. Len(r) /\ r[i + 1] = x
      BY <1>1, <3>1
    <3> QED BY <1>1, <2>1, <3>2
  <2>4. 1 \in 1 .. Len(r)
    BY <1>1
  <2> QED BY <1>1, <2>1, <2>2, <2>3, <2>4
<1> QED BY <1>1, <1>4, <1>5

LEMMA AppendedToList ==
  ASSUME NEW s \in Seq(Player), Distinct(s), NEW e \in Player, e \notin Range(s), NEW r, r = Append(s, e)
  PROVE  r \in Seq(Player) /\ Distinct(r) /\ Range(r) = Range(s) \cup {e}
<1>1. /\ r \in Seq(Player) /\ Len(r) = Len(s) + 1 /\ r[Len(s) + 1] = e /\ Len(s) \in Nat
      /\ \A i \in 1 .. Len(s) : r[i] = s[i]
  OBVIOUS
<1>2. \A i \in 1 .. Len(s) : s[i] # e
  BY RangeOfList
<1>3. Distinct(r)
  BY <1>1, <1>2 DEF Distinct
<1>4. ASSUME NEW x PROVE x \in Range(r) <=> x \in Range(s) \/ x = e
  <2>1. \A t \in Seq(Player) : x \in Range(t) <=> \E i \in 1 .. Len(t) : t[i] = x
    BY RangeOfList
  <2>2. ASSUME x \in Range(r) PROVE x \in Range(s) \/ x = e
    <3>1. PICK i \in 1 .. Len(r) : r[i] = x
      BY <1>1, <2>1, <2>2
    <3>2. i = Len(s) + 1 \/ i \in 1 .. Len(s)
      BY <1>1
    <3> QED BY <1>1, <2>1, <3>1, <3>2
  <2>3. ASSUME x \in Range(s) PROVE x \in Range(r)
    <3>1. PICK i \in 1 .. Len(s) : s[i] = x
      BY <2>1, <2>3
    <3>2. i \in 1 .. Len(r) /\ r[i] = x
      BY <1>1, <3>1
    <3> QED BY <1>1, <2>1, <3>2
  <2>4. Len(s) + 1 \in 1 .. Len(r)
    BY <1>1
  <2> QED BY <1>1, <2>1, <2>2, <2>3, <2>4
<1> QED BY <1>1, <1>3, <1>4

LEMMA HeadOfList ==
  ASSUME NEW s \in Seq(Player), s # <<>>
  PROVE  Head(s) \in Range(s)
BY RangeOfList

-----------------------------------------------------------------------------
(* One party: what its operations make of it, as it is and as Fellowship   *)
(* sees it.                                                                *)
Seen(pt) == [leader |-> pt.leader, others |-> Range(pt.memberList), invited |-> pt.inviteList]

LEMMA NobodyIsNone == None \notin Player /\ None \notin Address
BY NoneAssumption

LEMMA SoundParty ==
  ASSUME NEW pt, Sound(pt)
  PROVE  /\ pt # NoParty /\ pt.memberList \in Seq(Player) /\ People(pt) \subseteq Player
         /\ pt.inviteList \subseteq Player
         /\ Seen(pt) \in [leader : Player, others : SUBSET Player, invited : SUBSET Player]
         /\ ~F!Alone(Seen(pt)) /\ F!Company(Seen(pt)) = People(pt)
<1>1. /\ pt.memberList \in Seq(Player) /\ pt.inviteList \subseteq Player /\ pt.leader \in Player
      /\ ~Empty(pt)
  BY DEF Sound, PartyRecord
<1>2. Range(pt.memberList) \subseteq Player /\ (pt.memberList = <<>> <=> Range(pt.memberList) = {})
  BY <1>1, RangeOfList
<1>3. pt # NoParty
  BY <1>1, NobodyIsNone DEF NoParty
<1>4. ~F!Alone(Seen(pt))
  BY <1>1, <1>2 DEF F!Alone, Seen, Empty
<1> QED BY <1>1, <1>2, <1>3, <1>4 DEF People, Seen, F!Company

LEMMA UninvitedParty ==
  ASSUME NEW pt, Sound(pt), NEW p, NEW r, r = [pt EXCEPT !.inviteList = @ \ {p}]
  PROVE  /\ r \in PartyRecord /\ People(r) = People(pt) /\ r.inviteList = pt.inviteList \ {p}
         /\ Seen(r) = F!Uninvited(p, Seen(pt))
         /\ F!Alone(Seen(r)) <=> Empty(r)
         /\ ~Empty(r) => Sound(r)
<1>1. /\ pt \in PartyRecord /\ pt.leader \in Player /\ Distinct(pt.memberList)
      /\ pt.leader \notin Range(pt.memberList) /\ People(pt) \cap pt.inviteList = {}
  BY DEF Sound
<1>2. /\ r \in PartyRecord /\ r.leader = pt.leader /\ r.memberList = pt.memberList
      /\ r.inviteList = pt.inviteList \ {p}
  BY <1>1 DEF PartyRecord
<1>3. r.memberList = <<>> <=> Range(r.memberList) = {}
  BY <1>2, RangeOfList DEF PartyRecord
<1>4. People(r) = People(pt)
  BY <1>2 DEF People
<1>5. Seen(r) = F!Uninvited(p, Seen(pt))
  <2>1. Seen(r) = [leader |-> pt.leader, others |-> Range(pt.memberList), invited |-> pt.inviteList \ {p}]
    BY <1>2 DEF Seen
  <2>2. [Seen(pt) EXCEPT !.invited = @ \ {p}] = Seen(r)
    BY <2>1 DEF Seen
  <2> QED BY <2>2 DEF F!Uninvited
<1>6. F!Alone(Seen(r)) <=> Empty(r)
  BY <1>3 DEF Seen, F!Alone, Empty
<1>7. ~Empty(r) => Sound(r)
  BY <1>1, <1>2, <1>4 DEF Sound
<1> QED BY <1>2, <1>4, <1>5, <1>6, <1>7

LEMMA PassedParty ==
  ASSUME NEW pt, Sound(pt), NEW q \in Range(pt.memberList), NEW r, r = PassTo(pt, q)
  PROVE  /\ Sound(r) /\ People(r) = People(pt) /\ r.inviteList = pt.inviteList /\ r.leader = q
         /\ Range(r.memberList) = (Range(pt.memberList) \ {q}) \cup {pt.leader}
<1>1. /\ pt \in PartyRecord /\ pt.leader \in Player /\ Distinct(pt.memberList)
      /\ pt.leader \notin Range(pt.memberList) /\ People(pt) \cap pt.inviteList = {}
      /\ pt.memberList \in Seq(Player)
  BY DEF Sound, PartyRecord
<1> DEFINE t == RemoveFirst(pt.memberList, q)
           s == <<pt.leader>> \o t
<1>2. t \in Seq(Player) /\ Distinct(t) /\ Range(t) = Range(pt.memberList) \ {q}
  BY <1>1, RemovedFromList
<1>3. s \in Seq(Player) /\ Distinct(s) /\ Range(s) = Range(t) \cup {pt.leader}
  <2> HIDE DEF t
  <2> QED BY <1>1, <1>2, PrependedToList
<1>4. q \in Player
  BY <1>1, RangeOfList
<1>5. r.leader = q /\ r.memberList = s /\ r.inviteList = pt.inviteList /\ r \in PartyRecord
  <2>1. r = [pt EXCEPT !.leader = q, !.memberList = s]
    BY DEF PassTo
  <2> HIDE DEF s
  <2> QED BY <1>1, <1>3, <1>4, <2>1 DEF PartyRecord
<1> HIDE DEF s, t
<1>6. People(r) = People(pt)
  BY <1>2, <1>3, <1>5 DEF People
<1>7. ~Empty(r)
  <2>1. s # <<>>
    BY <1>3, RangeOfList
  <2> QED BY <1>5, <2>1 DEF Empty
<1>8. Sound(r)
  BY <1>1, <1>2, <1>3, <1>4, <1>5, <1>6, <1>7 DEF Sound
<1> QED BY <1>2, <1>3, <1>5, <1>6, <1>8

(* LeaveParty either ends the party, which leaves nobody to be together, or*)
(* leaves a sound party of the others.                                     *)
LEMMA LeftParty ==
  ASSUME NEW pt, Sound(pt), NEW p \in People(pt), NEW r, r = LeftBy(pt, p)
  PROVE  \/ r = NoParty /\ \A h \in F!Heirs(Seen(pt), p) : F!Alone(h)
         \/ /\ Sound(r) /\ r.inviteList = pt.inviteList /\ People(r) = People(pt) \ {p}
            /\ Seen(r) \in F!Heirs(Seen(pt), p)
<1>1. /\ pt \in PartyRecord /\ pt.leader \in Player /\ Distinct(pt.memberList)
      /\ pt.leader \notin Range(pt.memberList) /\ People(pt) \cap pt.inviteList = {}
      /\ pt.memberList \in Seq(Player) /\ p \in Player
  BY SoundParty DEF Sound, PartyRecord
<1> DEFINE last == Len(pt.memberList) = 1 /\ pt.inviteList = {}
<1>2. pt.memberList = <<>> <=> Range(pt.memberList) = {}
  BY <1>1, RangeOfList
<1>3. \A l, o, i : /\ [leader |-> l, others |-> o, invited |-> i].leader = l
                   /\ [leader |-> l, others |-> o, invited |-> i].others = o
                   /\ [leader |-> l, others |-> o, invited |-> i].invited = i
  OBVIOUS
<1>4. CASE pt.leader # p
  <2> DEFINE t == RemoveFirst(pt.memberList, p)
             rest == [pt EXCEPT !.memberList = t]
  <2>1. t \in Seq(Player) /\ Distinct(t) /\ Range(t) = Range(pt.memberList) \ {p}
    BY <1>1, RemovedFromList
  <2>2. r = IF rest.leader = p \/ Empty(rest) THEN NoParty ELSE rest
    BY <1>4 DEF LeftBy
  <2> HIDE DEF t
  <2>3. /\ rest \in PartyRecord /\ rest.leader = pt.leader /\ rest.memberList = t
        /\ rest.inviteList = pt.inviteList
    BY <1>1, <2>1 DEF PartyRecord
  <2> HIDE DEF rest
  <2>4. Seen(rest) = [leader |-> pt.leader, others |-> Range(pt.memberList) \ {p}, invited |-> pt.inviteList]
    BY <2>1, <2>3 DEF Seen
  <2>5. F!Heirs(Seen(pt), p) = {Seen(rest)}
    <3>1. Seen(pt).leader # p
      BY <1>4 DEF Seen
    <3>2. [Seen(pt) EXCEPT !.others = @ \ {p}] = Seen(rest)
      BY <2>4 DEF Seen
    <3> QED BY <3>1, <3>2 DEF F!Heirs
  <2>6. F!Alone(Seen(rest)) <=> Empty(rest)
    <3>1. rest.memberList = <<>> <=> Range(rest.memberList) = {}
      BY <2>1, <2>3, RangeOfList
    <3> QED BY <3>1 DEF F!Alone, Seen, Empty
  <2>7. CASE Empty(rest)
    BY <2>2, <2>5, <2>6, <2>7
  <2>8. CASE ~Empty(rest)
    <3>1. r = rest
      BY <1>4, <2>2, <2>3, <2>8
    <3>2. People(rest) = People(pt) \ {p}
      BY <1>1, <1>4, <2>1, <2>3 DEF People
    <3>3. Sound(rest)
      BY <1>1, <2>1, <2>3, <2>8, <3>2 DEF Sound
    <3> QED BY <2>3, <2>5, <3>1, <3>2, <3>3
  <2> QED BY <2>7, <2>8
<1>5. CASE pt.leader = p /\ (pt.memberList = <<>> \/ last)
  <2> DEFINE rest == [pt EXCEPT !.memberList = RemoveFirst(pt.memberList, p)]
  <2>1. r = IF rest.leader = p \/ Empty(rest) THEN NoParty ELSE rest
    BY <1>5 DEF LeftBy
  <2>2. rest.leader = p
    BY <1>1, <1>5 DEF PartyRecord
  <2>3. r = NoParty
    <3> HIDE DEF rest
    <3> QED BY <2>1, <2>2
  <2>4. ASSUME NEW h \in F!Heirs(Seen(pt), p) PROVE F!Alone(h)
    <3>1. PICK q \in Seen(pt).others : h = [Seen(pt) EXCEPT !.leader = q, !.others = @ \ {q}]
      BY <1>5, <2>4 DEF F!Heirs, Seen
    <3>2. q \in Range(pt.memberList) /\ h.others = Range(pt.memberList) \ {q} /\ h.invited = pt.inviteList
      BY <3>1 DEF Seen
    <3>3. last
      BY <1>2, <1>5, <3>2
    <3>4. \A x, y \in Range(pt.memberList) : x = y
      BY <1>1, <3>3, RangeOfList
    <3> QED BY <3>2, <3>3, <3>4 DEF F!Alone
  <2> QED BY <2>3, <2>4
<1>6. CASE pt.leader = p /\ pt.memberList # <<>> /\ ~last
  <2> DEFINE q == Head(pt.memberList)
             passed == PassTo(pt, q)
             t == RemoveFirst(passed.memberList, p)
             rest == [passed EXCEPT !.memberList = t]
  <2>1. q \in Range(pt.memberList) /\ q # p
    BY <1>1, <1>6, HeadOfList
  <2>2. /\ Sound(passed) /\ People(passed) = People(pt) /\ passed.inviteList = pt.inviteList
        /\ passed.leader = q /\ Range(passed.memberList) = (Range(pt.memberList) \ {q}) \cup {p}
    <3> HIDE DEF q
    <3> QED BY <1>6, <2>1, PassedParty
  <2>3. r = IF rest.leader = p \/ Empty(rest) THEN NoParty ELSE rest
    BY <1>6 DEF LeftBy
  <2> HIDE DEF passed, q
  <2>4. passed \in PartyRecord /\ passed.memberList \in Seq(Player) /\ Distinct(passed.memberList)
    BY <2>2 DEF Sound, PartyRecord
  <2>5. t \in Seq(Player) /\ Distinct(t) /\ Range(t) = Range(pt.memberList) \ {q}
    <3>1. Range(t) = Range(passed.memberList) \ {p} /\ t \in Seq(Player) /\ Distinct(t)
      BY <2>4, RemovedFromList
    <3> QED BY <1>1, <1>6, <2>2, <3>1
  <2> HIDE DEF t
  <2>6. /\ rest \in PartyRecord /\ rest.leader = q /\ rest.memberList = t
        /\ rest.inviteList = pt.inviteList
    BY <2>2, <2>4, <2>5 DEF PartyRecord
  <2> HIDE DEF rest
  <2>7. ~Empty(rest)
    <3>1. SUFFICES ASSUME t = <<>>, pt.inviteList = {} PROVE FALSE
      BY <2>6 DEF Empty
    <3>2. Range(pt.memberList) \subseteq {q}
      BY <2>5, <3>1, RangeOfList
    <3>3. Len(pt.memberList) \in Nat /\ \A i \in 1 .. Len(pt.memberList) : pt.memberList[i] = q
      BY <1>1, <3>2, RangeOfList
    <3>4. Len(pt.memberList) # 0
      BY <1>1, <1>6
    <3>5. Len(pt.memberList) = 1
      <4> DEFINE n == Len(pt.memberList)
      <4>1. SUFFICES ASSUME n > 1 PROVE FALSE
        <5>1. n \in Nat /\ n # 0
          BY <3>3, <3>4
        <5> HIDE DEF n
        <5>2. n = 1 \/ n > 1
          BY <5>1
        <5> QED BY <5>2 DEF n
      <4>2. 1 \in 1 .. Len(pt.memberList) /\ 2 \in 1 .. Len(pt.memberList)
        BY <3>3, <4>1
      <4>3. pt.memberList[1] = pt.memberList[2]
        BY <3>3, <4>2
      <4> QED BY <1>1, <4>2, <4>3 DEF Distinct
    <3> QED BY <1>6, <3>1, <3>5
  <2>8. r = rest
    BY <2>1, <2>3, <2>6, <2>7
  <2>9. People(rest) = People(pt) \ {p}
    BY <1>1, <1>6, <2>1, <2>5, <2>6 DEF People
  <2>10. Sound(rest)
    <3>1. q \in Player
      BY <2>2 DEF Sound
    <3> QED BY <1>1, <2>5, <2>6, <2>7, <2>9, <3>1 DEF Sound
  <2>11. Seen(rest) \in F!Heirs(Seen(pt), p)
    <3>1. Seen(rest) = [leader |-> q, others |-> Range(pt.memberList) \ {q}, invited |-> pt.inviteList]
      BY <2>5, <2>6 DEF Seen
    <3>2. [Seen(pt) EXCEPT !.leader = q, !.others = @ \ {q}] = Seen(rest)
      <4>1. /\ Seen(pt) \in F!Fellowship /\ Seen(rest) \in F!Fellowship
            /\ Seen(pt).others = Range(pt.memberList) /\ Seen(pt).invited = pt.inviteList
        BY <2>10, SoundParty DEF Seen, F!Fellowship
      <4> DEFINE x == [Seen(pt) EXCEPT !.leader = q, !.others = @ \ {q}]
      <4>2. q \in Player
        BY <1>1, <2>1, RangeOfList
      <4> HIDE DEF Seen
      <4>3. x \in F!Fellowship /\ x.leader = q /\ x.others = Range(pt.memberList) \ {q} /\ x.invited = pt.inviteList
        BY <4>1, <4>2 DEF F!Fellowship
      <4> HIDE DEF x
      <4>4. x = [leader |-> x.leader, others |-> x.others, invited |-> x.invited]
        BY <4>3 DEF F!Fellowship
      <4>5. x = Seen(rest)
        BY <3>1, <4>3, <4>4
      <4> QED BY <4>5 DEF x
    <3>3. q \in Seen(pt).others /\ Seen(pt).leader = p
      BY <1>6, <2>1 DEF Seen
    <3> QED BY <3>2, <3>3 DEF F!Heirs
  <2> QED BY <2>6, <2>8, <2>9, <2>10, <2>11
<1> QED BY <1>4, <1>5, <1>6

-----------------------------------------------------------------------------
(* The parties together, as Fellowship sees them.                          *)
Fellowships(pts) == {Seen(pts[a]) : a \in {b \in Address : pts[b] # NoParty}}

LEMMA FellowshipsOf ==
  ASSUME NEW pts, NEW f
  PROVE  f \in Fellowships(pts) <=> \E a \in Address : pts[a] # NoParty /\ f = Seen(pts[a])
BY DEF Fellowships

LeadersDiffer(pts) ==
  \A a, b \in Address : pts[a] # NoParty /\ pts[b] # NoParty /\ pts[a].leader = pts[b].leader => a = b

LEMMA ReplaceOne ==
  ASSUME NEW pts, NEW qts, NEW a \in Address, LeadersDiffer(pts),
         \A b \in Address \ {a} : qts[b] = pts[b]
  PROVE  Fellowships(qts) =
           (Fellowships(pts) \ (IF pts[a] = NoParty THEN {} ELSE {Seen(pts[a])}))
             \cup (IF qts[a] = NoParty THEN {} ELSE {Seen(qts[a])})
<1> DEFINE old == IF pts[a] = NoParty THEN {} ELSE {Seen(pts[a])}
           new == IF qts[a] = NoParty THEN {} ELSE {Seen(qts[a])}
<1>1. \A b, c \in Address : pts[b] # NoParty /\ pts[c] # NoParty /\ Seen(pts[b]) = Seen(pts[c]) => b = c
  <2>1. \A b : Seen(pts[b]).leader = pts[b].leader
    BY DEF Seen
  <2> QED BY <2>1 DEF LeadersDiffer
<1>2. ASSUME NEW f PROVE f \in Fellowships(qts) <=> f \in (Fellowships(pts) \ old) \cup new
  <2>1. ASSUME f \in Fellowships(qts) PROVE f \in (Fellowships(pts) \ old) \cup new
    <3>1. PICK b \in Address : qts[b] # NoParty /\ f = Seen(qts[b])
      BY <2>1, FellowshipsOf
    <3>2. CASE b = a
      BY <3>1, <3>2
    <3>3. CASE b # a
      BY <1>1, <3>1, <3>3, FellowshipsOf
    <3> QED BY <3>2, <3>3
  <2>2. ASSUME f \in new PROVE f \in Fellowships(qts)
    BY <2>2, FellowshipsOf
  <2>3. ASSUME f \in Fellowships(pts), f \notin old PROVE f \in Fellowships(qts)
    <3>1. PICK b \in Address : pts[b] # NoParty /\ f = Seen(pts[b])
      BY <2>3, FellowshipsOf
    <3>2. b # a
      BY <2>3, <3>1
    <3> QED BY <3>1, <3>2, FellowshipsOf
  <2> QED BY <2>1, <2>2, <2>3
<1> QED BY <1>2

LEMMA LeadersOfInv ==
  ASSUME PartyInv
  PROVE  LeadersDiffer(party)
<1>1. ASSUME NEW a \in Address, party[a] # NoParty PROVE partyOf[party[a].leader] = a
  <2>1. party[a].leader \in Player
    BY <1>1 DEF PartyInv, PartiesSound, Sound
  <2> QED BY <1>1, <2>1 DEF PartyInv, PartiesAgree, People
<1> QED BY <1>1 DEF LeadersDiffer

LEMMA Bar ==
  /\ Fellowships(party) = {[leader |-> party[a].leader, others |-> Members(a), invited |-> party[a].inviteList] : a \in Live}
  /\ \A a : Participants(a) = People(party[a])
  /\ \A a \in Address : a \in Live <=> party[a] # NoParty
BY DEF Fellowships, Seen, Members, Live, Participants, People

\* a player in no party is free, and one in a party is in that one
LEMMA FreeOf ==
  ASSUME PartyInv, NEW p \in Player
  PROVE  /\ partyOf[p] = None => \A f \in Fellowships(party) : p \notin F!Company(f)
         /\ partyOf[p] # None => /\ partyOf[p] \in Address /\ party[partyOf[p]] # NoParty
                                 /\ Sound(party[partyOf[p]]) /\ p \in People(party[partyOf[p]])
<1>1. ASSUME partyOf[p] = None, NEW f \in Fellowships(party) PROVE p \notin F!Company(f)
  <2>1. PICK a \in Address : party[a] # NoParty /\ f = Seen(party[a])
    BY FellowshipsOf
  <2>2. p \notin People(party[a])
    BY <1>1, <2>1, NobodyIsNone DEF PartyInv, PartiesAgree
  <2>3. F!Company(f) = People(party[a])
    BY <2>1, SoundParty DEF PartyInv, PartiesSound
  <2> QED BY <2>2, <2>3
<1>2. ASSUME partyOf[p] # None
      PROVE  /\ partyOf[p] \in Address /\ party[partyOf[p]] # NoParty
             /\ Sound(party[partyOf[p]]) /\ p \in People(party[partyOf[p]])
  BY <1>2 DEF PartyInv, Types, PartiesAgree, PartiesSound
<1> QED BY <1>1, <1>2

LEMMA LeaderFacts ==
  ASSUME PartyInv, NEW p \in Player, Leads(p)
  PROVE  /\ partyOf[p] \in Address /\ party[partyOf[p]] # NoParty
         /\ Sound(party[partyOf[p]]) /\ party[partyOf[p]].leader = p
         /\ p \in online
BY FreeOf DEF Leads, PartyInv, Gone

LEMMA NoPartyFacts ==
  /\ NoParty \in PartyRecord /\ NoParty.memberList = <<>> /\ NoParty.inviteList = {}
  /\ NoParty.leader = None /\ Range(<<>>) = {} /\ Distinct(<<>>) /\ <<>> \in Seq(Player)
BY DEF NoParty, PartyRecord, Range, Distinct

(* The steps that change one party, and what Fellowship sees of them.      *)
LEMMA InviteStep ==
  ASSUME PartyInv, NEW p \in Player, NEW q \in Player, Invite(p, q)
  PROVE  /\ PartyInv'
         /\ p # q /\ {p, q} \subseteq online /\ online' = online /\ partyOf[q] = None
         /\ \/ /\ partyOf[p] = None
               /\ Fellowships(party') = Fellowships(party)
                    \cup {[leader |-> p, others |-> {}, invited |-> {q}]}
            \/ \E f \in Fellowships(party) :
                 /\ f.leader = p
                 /\ Fellowships(party') = (Fellowships(party) \ {f})
                      \cup {[f EXCEPT !.invited = @ \cup {q}]}
<1>1. PICK a \in Address :
        /\ \/ partyOf[p] = None /\ a \notin Live
           \/ Leads(p) /\ a = partyOf[p]
        /\ party' = [party EXCEPT ![a].leader = p, ![a].inviteList = @ \cup {q}]
        /\ partyOf' = [partyOf EXCEPT ![p] = a]
        /\ invitePartyList' = [invitePartyList EXCEPT ![q] = @ \cup {a}]
  BY DEF Invite
<1>2. /\ p # q /\ {p, q} \subseteq online /\ partyOf[q] = None
      /\ online' = online /\ partyChannels' = partyChannels
  BY DEF Invite, KeepRest
<1>3. party[a] \in PartyRecord /\ Types
  BY DEF PartyInv, Types
<1> DEFINE r == party'[a]
<1>4. /\ r \in PartyRecord /\ r.leader = p /\ r.memberList = party[a].memberList
      /\ r.inviteList = party[a].inviteList \cup {q}
      /\ \A b \in Address \ {a} : party'[b] = party[b]
      /\ party' \in [Address -> PartyRecord]
  BY <1>1, <1>3 DEF PartyRecord, Types
<1>5. r # NoParty /\ ~Empty(r)
  BY <1>4, NoPartyFacts DEF Empty
<1>6. \/ party[a] = NoParty /\ partyOf[p] = None
      \/ Sound(party[a]) /\ party[a] # NoParty /\ party[a].leader = p /\ partyOf[p] = a
  BY <1>1, LeaderFacts, Bar
<1>7. Sound(r) /\ People(r) = IF party[a] = NoParty THEN {p} ELSE People(party[a])
  <2>1. CASE party[a] = NoParty
    <3>1. r.memberList = <<>> /\ r.inviteList = {q}
      BY <1>4, <2>1, NoPartyFacts
    <3>2. People(r) = {p}
      BY <1>4, <3>1, NoPartyFacts DEF People
    <3> HIDE DEF r
    <3> QED BY <1>2, <1>4, <1>5, <2>1, <3>1, <3>2, NoPartyFacts DEF Sound
  <2>2. CASE party[a] # NoParty
    <3>1. Sound(party[a]) /\ party[a].leader = p
      BY <1>6, <2>2
    <3>2. People(r) = People(party[a])
      BY <1>4, <3>1 DEF People
    <3>3. q \notin People(party[a])
      BY <1>2, <2>2, NobodyIsNone DEF PartyInv, PartiesAgree
    <3> HIDE DEF r
    <3> QED BY <1>4, <1>5, <2>2, <3>1, <3>2, <3>3 DEF Sound
  <2> QED BY <2>1, <2>2
<1> HIDE DEF r
<1>8. PartyInv'
  <2>1. Types'
    BY <1>1, <1>2, <1>3, <1>4 DEF Types
  <2>2. ChannelsClean'
    BY <1>2 DEF PartyInv, ChannelsClean
  <2>3. PartiesSound'
    BY <1>4, <1>7 DEF PartyInv, PartiesSound, r
  <2>4. Gone'
    BY <1>1, <1>2, <1>3 DEF PartyInv, Gone, Types
  <2>5. PartiesAgree(partyOf', party')
    <3>1. ASSUME NEW x \in Player, NEW b \in Address
          PROVE  partyOf'[x] = b <=> party'[b] # NoParty /\ x \in People(party'[b])
      <4>1. partyOf[x] = b <=> party[b] # NoParty /\ x \in People(party[b])
        BY DEF PartyInv, PartiesAgree
      <4>2. partyOf'[x] = IF x = p THEN a ELSE partyOf[x]
        BY <1>1, <1>3 DEF Types
      <4>3. CASE b = a
        <5>1. x = p => x \in People(r)
          BY <1>4 DEF People
        <5> QED BY <1>5, <1>6, <1>7, <4>1, <4>2, <4>3, <5>1 DEF r
      <4>4. CASE b # a
        BY <1>4, <1>6, <4>1, <4>2, <4>4, NobodyIsNone
      <4> QED BY <4>3, <4>4
    <3> QED BY <3>1 DEF PartiesAgree
  <2>6. InvitesAgree(invitePartyList', party')
    <3>1. ASSUME NEW x \in Player, NEW b \in Address
          PROVE  b \in invitePartyList'[x] <=> x \in party'[b].inviteList
      <4>1. b \in invitePartyList[x] <=> x \in party[b].inviteList
        BY DEF PartyInv, InvitesAgree
      <4>2. invitePartyList'[x] = IF x = q THEN invitePartyList[x] \cup {a} ELSE invitePartyList[x]
        BY <1>1, <1>3 DEF Types
      <4> QED BY <1>4, <4>1, <4>2 DEF r
    <3> QED BY <3>1 DEF InvitesAgree
  <2> QED BY <2>1, <2>2, <2>3, <2>4, <2>5, <2>6 DEF PartyInv
<1>9. Fellowships(party') = (Fellowships(party) \ (IF party[a] = NoParty THEN {} ELSE {Seen(party[a])}))
                              \cup {Seen(r)}
  <2>1. LeadersDiffer(party) /\ party'[a] # NoParty
    BY <1>5, LeadersOfInv DEF r
  <2>2. Fellowships(party') =
          (Fellowships(party) \ (IF party[a] = NoParty THEN {} ELSE {Seen(party[a])}))
            \cup (IF party'[a] = NoParty THEN {} ELSE {Seen(party'[a])})
    BY ONLY <1>4, <2>1, ReplaceOne
  <2> QED BY <2>1, <2>2 DEF r
<1>10. CASE party[a] = NoParty
  <2>1. Seen(r) = [leader |-> p, others |-> {}, invited |-> {q}]
    BY <1>4, <1>10, NoPartyFacts DEF Seen
  <2> QED BY <1>2, <1>6, <1>8, <1>9, <1>10, <2>1
<1>11. CASE party[a] # NoParty
  <2>1. Seen(party[a]) \in Fellowships(party) /\ Seen(party[a]).leader = p
    BY <1>6, <1>11, FellowshipsOf DEF Seen
  <2>2. [Seen(party[a]) EXCEPT !.invited = @ \cup {q}] = Seen(r)
    BY <1>4, <1>6, <1>11 DEF Seen
  <2> QED BY <1>2, <1>8, <1>9, <1>11, <2>1, <2>2
<1> QED BY <1>10, <1>11

\* Party a becomes r, or ends, and the pointers follow.
Becomes(a, r) ==
  /\ party[a] # NoParty /\ (r = NoParty \/ Sound(r))
  /\ party' = [party EXCEPT ![a] = r]
  /\ \A x \in Player : partyOf'[x] = IF r # NoParty /\ x \in People(r) THEN a
                                     ELSE IF partyOf[x] = a THEN None ELSE partyOf[x]
  /\ \A x \in People(r) \cap Player : partyOf[x] \in {None, a}
  /\ \A x \in Player : invitePartyList'[x] = (invitePartyList[x] \ {a})
                                               \cup (IF x \in r.inviteList THEN {a} ELSE {})
  /\ \A x \in Player \cap (People(r) \cup r.inviteList) : x \in online

LEMMA OneParty ==
  ASSUME PartyInv, NEW a \in Address, NEW r, Becomes(a, r),
         partyOf' \in [Player -> Address \cup {None}],
         invitePartyList' \in [Player -> SUBSET Address],
         online' = online, ChannelsClean'
  PROVE  /\ PartyInv'
         /\ Seen(party[a]) \in Fellowships(party)
         /\ Fellowships(party') = (Fellowships(party) \ {Seen(party[a])})
                                    \cup (IF r = NoParty THEN {} ELSE {Seen(r)})
<1>1. /\ party[a] # NoParty /\ (r = NoParty \/ Sound(r))
      /\ party \in [Address -> PartyRecord]
      /\ r \in PartyRecord
  BY NoPartyFacts DEF Becomes, PartyInv, Types, Sound
<1>2. /\ party' \in [Address -> PartyRecord] /\ party'[a] = r
      /\ \A b \in Address \ {a} : party'[b] = party[b]
  BY <1>1 DEF Becomes
<1>3. Types'
  BY <1>2 DEF PartyInv, Types
<1>4. PartiesSound'
  BY <1>1, <1>2 DEF PartyInv, PartiesSound
<1>5. PartiesAgree(partyOf', party')
  <2>1. ASSUME NEW x \in Player, NEW b \in Address
        PROVE  partyOf'[x] = b <=> party'[b] # NoParty /\ x \in People(party'[b])
    <3>1. partyOf[x] = b <=> party[b] # NoParty /\ x \in People(party[b])
      BY DEF PartyInv, PartiesAgree
    <3>2. /\ partyOf'[x] = IF r # NoParty /\ x \in People(r) THEN a
                           ELSE IF partyOf[x] = a THEN None ELSE partyOf[x]
          /\ x \in People(r) => partyOf[x] \in {None, a}
      BY DEF Becomes
    <3> QED BY <1>2, <3>1, <3>2, NobodyIsNone
  <2> QED BY <2>1 DEF PartiesAgree
<1>6. InvitesAgree(invitePartyList', party')
  <2>1. ASSUME NEW x \in Player, NEW b \in Address
        PROVE  b \in invitePartyList'[x] <=> x \in party'[b].inviteList
    <3>1. b \in invitePartyList[x] <=> x \in party[b].inviteList
      BY DEF PartyInv, InvitesAgree
    <3>2. invitePartyList'[x] = (invitePartyList[x] \ {a}) \cup (IF x \in r.inviteList THEN {a} ELSE {})
      BY DEF Becomes
    <3> QED BY <1>2, <3>1, <3>2
  <2> QED BY <2>1 DEF InvitesAgree
<1>7. Gone'
  <2>1. ASSUME NEW x \in Player \ online PROVE partyOf'[x] = None /\ invitePartyList'[x] = {}
    <3>1. partyOf[x] = None /\ invitePartyList[x] = {}
      BY DEF PartyInv, Gone
    <3>2. x \notin People(r) /\ x \notin r.inviteList
      BY DEF Becomes
    <3> QED BY <3>1, <3>2 DEF Becomes
  <2> QED BY <2>1 DEF Gone
<1>8. PartyInv'
  BY <1>3, <1>4, <1>5, <1>6, <1>7 DEF PartyInv
<1>9. Seen(party[a]) \in Fellowships(party)
  BY <1>1, FellowshipsOf
<1>10. Fellowships(party') =
         (Fellowships(party) \ (IF party[a] = NoParty THEN {} ELSE {Seen(party[a])}))
           \cup (IF party'[a] = NoParty THEN {} ELSE {Seen(party'[a])})
  <2>1. LeadersDiffer(party)
    BY LeadersOfInv
  <2> QED BY ONLY <1>2, <2>1, ReplaceOne
<1> QED BY <1>1, <1>2, <1>8, <1>9, <1>10

LEMMA ChannelsClosed ==
  ASSUME PartyInv, NEW people, CloseChannel(people), online' = online
  PROVE  ChannelsClean'
BY DEF CloseChannel, PartyInv, ChannelsClean

\* who is in a party or invited to it is in the world
LEMMA PeopleOnline ==
  ASSUME PartyInv, NEW a \in Address, party[a] # NoParty
  PROVE  People(party[a]) \cup party[a].inviteList \subseteq online /\ Sound(party[a])
<1>1. Sound(party[a])
  BY DEF PartyInv, PartiesSound
<1>2. ASSUME NEW x \in People(party[a]) PROVE x \in online
  <2>1. x \in Player /\ partyOf[x] = a
    BY <1>1, SoundParty DEF PartyInv, PartiesAgree
  <2> QED BY <2>1, NobodyIsNone DEF PartyInv, Gone
<1>3. ASSUME NEW x \in party[a].inviteList PROVE x \in online
  <2>1. x \in Player /\ a \in invitePartyList[x]
    BY <1>1, SoundParty DEF PartyInv, InvitesAgree
  <2> QED BY <2>1 DEF PartyInv, Gone
<1> QED BY <1>1, <1>2, <1>3

LEMMA JoinStep ==
  ASSUME PartyInv, NEW p \in Player, NEW l \in Player, Join(p, l)
  PROVE  /\ PartyInv' /\ online' = online /\ partyOf[p] = None
         /\ \E f \in Fellowships(party) :
              /\ p \in f.invited
              /\ Fellowships(party') = (Fellowships(party) \ {f})
                   \cup {[F!Uninvited(p, f) EXCEPT !.others = @ \cup {p}]}
<1> DEFINE a == partyOf[l]
           pt == party[a]
           ml == Append(pt.memberList, p)
           r == [pt EXCEPT !.inviteList = @ \ {p}, !.memberList = ml]
<1>1. /\ Leads(l) /\ p \in pt.inviteList /\ partyOf[p] = None /\ p \in online
      /\ online' = online /\ partyChannels' = partyChannels
      /\ partyOf' = [partyOf EXCEPT ![p] = a]
      /\ invitePartyList' = [invitePartyList EXCEPT ![p] = @ \ {a}]
      /\ party' = [party EXCEPT ![a].inviteList = @ \ {p}, ![a].memberList = Append(@, p)]
  BY DEF Join, IsInviting, KeepRest
<1>2. /\ a \in Address /\ pt # NoParty /\ Sound(pt) /\ Types
      /\ People(pt) \cup pt.inviteList \subseteq online
  BY <1>1, LeaderFacts, PeopleOnline DEF PartyInv
<1>3. /\ pt \in PartyRecord /\ pt.leader \in Player /\ Distinct(pt.memberList)
      /\ pt.leader \notin Range(pt.memberList) /\ People(pt) \cap pt.inviteList = {}
      /\ pt.memberList \in Seq(Player) /\ pt.inviteList \subseteq Player
  BY <1>2 DEF Sound, PartyRecord
<1>4. p \notin People(pt)
  BY <1>1, <1>3
<1>5. ml \in Seq(Player) /\ Distinct(ml) /\ Range(ml) = Range(pt.memberList) \cup {p}
  BY <1>3, <1>4, AppendedToList DEF People
<1>6. party' = [party EXCEPT ![a] = r]
  BY <1>1, <1>2 DEF Types, PartyRecord
<1> HIDE DEF ml
<1>7. /\ r \in PartyRecord /\ r.leader = pt.leader /\ r.memberList = ml
      /\ r.inviteList = pt.inviteList \ {p}
  BY <1>3, <1>5 DEF PartyRecord
<1> HIDE DEF r, pt
<1>8. People(r) = People(pt) \cup {p}
  BY <1>5, <1>7 DEF People
<1>9. Sound(r)
  <2>1. ml # <<>>
    BY <1>5, RangeOfList
  <2>2. ~Empty(r)
    BY <1>7, <2>1 DEF Empty
  <2>3. r.leader \notin Range(r.memberList)
    BY <1>3, <1>4, <1>5, <1>7 DEF People
  <2>4. People(r) \cap r.inviteList = {}
    BY <1>3, <1>7, <1>8
  <2> QED BY <1>3, <1>5, <1>7, <2>2, <2>3, <2>4 DEF Sound
<1>10. Becomes(a, r)
  <2>1. r # NoParty
    BY <1>9, SoundParty
  <2>2. ASSUME NEW x \in Player
        PROVE  /\ partyOf'[x] = IF r # NoParty /\ x \in People(r) THEN a
                                ELSE IF partyOf[x] = a THEN None ELSE partyOf[x]
               /\ x \in People(r) => partyOf[x] \in {None, a}
    <3>1. partyOf[x] = a <=> x \in People(pt)
      BY <1>2 DEF PartyInv, PartiesAgree, pt
    <3>2. partyOf'[x] = IF x = p THEN a ELSE partyOf[x]
      BY <1>1, <1>2 DEF Types
    <3> QED BY <1>1, <1>8, <2>1, <3>1, <3>2
  <2>3. ASSUME NEW x \in Player
        PROVE  invitePartyList'[x] = (invitePartyList[x] \ {a}) \cup (IF x \in r.inviteList THEN {a} ELSE {})
    <3>1. a \in invitePartyList[x] <=> x \in pt.inviteList
      BY <1>2 DEF PartyInv, InvitesAgree, pt
    <3>2. invitePartyList'[x] = IF x = p THEN invitePartyList[x] \ {a} ELSE invitePartyList[x]
      BY <1>1, <1>2 DEF Types
    <3> QED BY <1>7, <3>1, <3>2
  <2>4. \A x \in Player \cap (People(r) \cup r.inviteList) : x \in online
    BY <1>1, <1>2, <1>7, <1>8
  <2> QED BY <1>2, <1>6, <1>9, <2>2, <2>3, <2>4 DEF Becomes, pt
<1>11. /\ PartyInv'
       /\ Seen(pt) \in Fellowships(party)
       /\ Fellowships(party') = (Fellowships(party) \ {Seen(pt)}) \cup {Seen(r)}
  <2>1. /\ partyOf' \in [Player -> Address \cup {None}]
        /\ invitePartyList' \in [Player -> SUBSET Address] /\ ChannelsClean'
    BY <1>1, <1>2 DEF PartyInv, Types, ChannelsClean
  <2>2. r # NoParty
    BY <1>9, SoundParty
  <2> QED BY <1>1, <1>2, <1>10, <2>1, <2>2, OneParty DEF pt
<1>12. [F!Uninvited(p, Seen(pt)) EXCEPT !.others = @ \cup {p}] = Seen(r)
  <2>1. F!Uninvited(p, Seen(pt)) = [leader |-> pt.leader, others |-> Range(pt.memberList), invited |-> pt.inviteList \ {p}]
    BY DEF Seen, F!Uninvited
  <2>2. Seen(r) = [leader |-> pt.leader, others |-> Range(pt.memberList) \cup {p}, invited |-> pt.inviteList \ {p}]
    BY <1>5, <1>7 DEF Seen
  <2> QED BY <2>1, <2>2
<1> QED BY <1>1, <1>11, <1>12 DEF Seen

LEMMA RevokeInvitationStep ==
  ASSUME PartyInv, NEW p \in Player, NEW q \in Player, RevokeInvitation(p, q)
  PROVE  /\ PartyInv' /\ online' = online
         /\ \E f \in Fellowships(party) :
              Fellowships(party') = (Fellowships(party) \ {f}) \cup F!Withdrawn({f}, q)
<1> DEFINE a == partyOf[p]
           pt == party[a]
           u == [pt EXCEPT !.inviteList = @ \ {q}]
           r == IF Empty(u) THEN NoParty ELSE u
           D == IF Empty(u) THEN {a} ELSE {}
<1>1. /\ Leads(p) /\ q \in pt.inviteList /\ online' = online
      /\ invitePartyList' = [invitePartyList EXCEPT ![q] = @ \ {a}]
      /\ CloseChannel(IF partyOf'[p] = None THEN {p} ELSE {})
  BY DEF RevokeInvitation, IsInviting
<1>2. party' = [party EXCEPT ![a] = r] /\ partyOf' = LetGo(D)
  <2>1. DropsInvite({a}, q)[a] = u /\ DOMAIN DropsInvite({a}, q) = {a}
    BY DEF DropsInvite
  <2>2. Disbanding(DropsInvite({a}, q)) = D
    BY <2>1 DEF Disbanding
  <2>3. a \in D <=> Empty(u)
    OBVIOUS
  <2> HIDE DEF D, u
  <2> QED BY <2>1, <2>2, <2>3 DEF RevokeInvitation
<1>3. /\ a \in Address /\ pt # NoParty /\ Sound(pt) /\ Types
      /\ People(pt) \cup pt.inviteList \subseteq online
  BY <1>1, LeaderFacts, PeopleOnline DEF PartyInv
<1>4. /\ u \in PartyRecord /\ People(u) = People(pt) /\ u.inviteList = pt.inviteList \ {q}
      /\ Seen(u) = F!Uninvited(q, Seen(pt))
      /\ F!Alone(Seen(u)) <=> Empty(u)
      /\ ~Empty(u) => Sound(u)
  BY <1>3, UninvitedParty
<1> HIDE DEF u, pt
<1>5. r = NoParty \/ (r = u /\ Sound(r))
  BY <1>4
<1>6. r.inviteList = pt.inviteList \ {q}
  <2>1. Empty(u) => u.inviteList = {}
    BY DEF Empty
  <2> QED BY <1>4, <2>1, NoPartyFacts
<1>7. /\ r = NoParty => D = {a}
      /\ r # NoParty => D = {} /\ People(r) = People(pt)
  BY <1>4, SoundParty
<1> HIDE DEF r, D
<1>8. Becomes(a, r)
  <2>1. ASSUME NEW x \in Player
        PROVE  /\ partyOf'[x] = IF r # NoParty /\ x \in People(r) THEN a
                                ELSE IF partyOf[x] = a THEN None ELSE partyOf[x]
               /\ x \in People(r) => partyOf[x] \in {None, a}
    <3>1. partyOf[x] = a <=> x \in People(pt)
      BY <1>3 DEF PartyInv, PartiesAgree, pt
    <3>2. partyOf'[x] = IF partyOf[x] \in D THEN None ELSE partyOf[x]
      BY <1>2 DEF LetGo
    <3>3. r = NoParty => x \notin People(r)
      BY NoPartyFacts, NobodyIsNone DEF People
    <3> QED BY <1>7, <3>1, <3>2, <3>3
  <2>2. ASSUME NEW x \in Player
        PROVE  invitePartyList'[x] = (invitePartyList[x] \ {a}) \cup (IF x \in r.inviteList THEN {a} ELSE {})
    <3>1. a \in invitePartyList[x] <=> x \in pt.inviteList
      BY <1>3 DEF PartyInv, InvitesAgree, pt
    <3>2. invitePartyList'[x] = IF x = q THEN invitePartyList[x] \ {a} ELSE invitePartyList[x]
      BY <1>1, <1>3 DEF Types
    <3> QED BY <1>6, <3>1, <3>2
  <2>3. \A x \in Player \cap (People(r) \cup r.inviteList) : x \in online
    <3>1. r = NoParty => \A x \in Player : x \notin People(r)
      BY NoPartyFacts, NobodyIsNone DEF People
    <3> QED BY <1>3, <1>6, <1>7, <3>1
  <2> QED BY <1>2, <1>3, <1>5, <2>1, <2>2, <2>3 DEF Becomes, pt
<1>9. /\ PartyInv'
      /\ Seen(pt) \in Fellowships(party)
      /\ Fellowships(party') = (Fellowships(party) \ {Seen(pt)})
                                 \cup (IF r = NoParty THEN {} ELSE {Seen(r)})
  <2>1. partyOf' \in [Player -> Address \cup {None}]
    BY <1>2, <1>3 DEF LetGo, Types
  <2>2. invitePartyList' \in [Player -> SUBSET Address] /\ ChannelsClean'
    BY <1>1, <1>3, ChannelsClosed DEF Types
  <2> QED BY <1>1, <1>3, <1>8, <2>1, <2>2, OneParty DEF pt
<1>10. F!Withdrawn({Seen(pt)}, q) = IF r = NoParty THEN {} ELSE {Seen(r)}
  <2>1. q \in Seen(pt).invited
    BY <1>1 DEF Seen
  <2>2. F!Withdrawn({Seen(pt)}, q) = {f \in {F!Uninvited(q, Seen(pt))} : ~F!Alone(f)}
    BY <2>1 DEF F!Withdrawn
  <2>3. r = NoParty <=> Empty(u)
    BY <1>4, SoundParty DEF r
  <2> QED BY <1>4, <1>5, <2>2, <2>3
<1> QED BY <1>1, <1>9, <1>10

LEMMA PassLeadershipStep ==
  ASSUME PartyInv, NEW p \in Player, NEW q \in Player, PassLeadership(p, q)
  PROVE  /\ PartyInv' /\ online' = online
         /\ \E f \in Fellowships(party), o \in Player :
              /\ o \in f.others
              /\ Fellowships(party') = (Fellowships(party) \ {f})
                   \cup {[f EXCEPT !.leader = o, !.others = (@ \ {o}) \cup {f.leader}]}
<1> DEFINE a == partyOf[p]
           pt == party[a]
           r == PassTo(pt, q)
<1>1. /\ Leads(p) /\ q # p /\ partyOf[q] = a /\ online' = online /\ partyChannels' = partyChannels
      /\ party' = [party EXCEPT ![a] = r] /\ partyOf' = partyOf /\ invitePartyList' = invitePartyList
  BY DEF PassLeadership, KeepRest
<1>2. /\ a \in Address /\ pt # NoParty /\ Sound(pt) /\ pt.leader = p /\ Types
      /\ People(pt) \cup pt.inviteList \subseteq online
  BY <1>1, LeaderFacts, PeopleOnline DEF PartyInv
<1>3. q \in Range(pt.memberList)
  BY <1>1, <1>2, FreeOf, NobodyIsNone DEF People
<1> HIDE DEF pt
<1>4. /\ Sound(r) /\ People(r) = People(pt) /\ r.inviteList = pt.inviteList /\ r.leader = q
      /\ Range(r.memberList) = (Range(pt.memberList) \ {q}) \cup {p}
  <2>1. r = PassTo(pt, q)
    OBVIOUS
  <2> HIDE DEF r
  <2>2. /\ Sound(r) /\ People(r) = People(pt) /\ r.inviteList = pt.inviteList /\ r.leader = q
        /\ Range(r.memberList) = (Range(pt.memberList) \ {q}) \cup {pt.leader}
    BY ONLY <1>2, <1>3, <2>1, PassedParty
  <2> QED BY <1>2, <2>2
<1> HIDE DEF r
<1>5. r # NoParty
  BY <1>4, SoundParty
<1>6. Becomes(a, r)
  <2>1. ASSUME NEW x \in Player
        PROVE  /\ partyOf[x] = a <=> x \in People(pt)
               /\ a \in invitePartyList[x] <=> x \in pt.inviteList
    BY <1>2 DEF PartyInv, PartiesAgree, InvitesAgree, pt
  <2> QED BY <1>1, <1>2, <1>4, <1>5, <2>1 DEF Becomes, pt
<1>7. /\ PartyInv'
      /\ Seen(pt) \in Fellowships(party)
      /\ Fellowships(party') = (Fellowships(party) \ {Seen(pt)}) \cup {Seen(r)}
  <2>1. ChannelsClean'
    BY <1>1 DEF PartyInv, ChannelsClean
  <2> QED BY <1>1, <1>2, <1>5, <1>6, <2>1, OneParty DEF pt, Types
<1>8. [Seen(pt) EXCEPT !.leader = q, !.others = (@ \ {q}) \cup {Seen(pt).leader}] = Seen(r)
  <2>1. /\ Seen(pt) \in F!Fellowship /\ Seen(r) \in F!Fellowship
        /\ Seen(pt).leader = p /\ Seen(pt).others = Range(pt.memberList) /\ Seen(pt).invited = pt.inviteList
    BY <1>2, <1>4, SoundParty DEF Seen, F!Fellowship
  <2>2. Seen(r) = [leader |-> q, others |-> (Range(pt.memberList) \ {q}) \cup {p}, invited |-> pt.inviteList]
    BY <1>4 DEF Seen
  <2> DEFINE x == [Seen(pt) EXCEPT !.leader = q, !.others = (@ \ {q}) \cup {Seen(pt).leader}]
  <2> HIDE DEF Seen
  <2>3. /\ x \in F!Fellowship /\ x.leader = q /\ x.others = (Range(pt.memberList) \ {q}) \cup {p}
        /\ x.invited = pt.inviteList
    BY <2>1 DEF F!Fellowship
  <2> HIDE DEF x
  <2>4. x = [leader |-> x.leader, others |-> x.others, invited |-> x.invited]
    BY <2>3 DEF F!Fellowship
  <2>5. x = Seen(r)
    BY <2>2, <2>3, <2>4
  <2> QED BY <2>5 DEF x
<1>9. q \in Seen(pt).others
  BY <1>3 DEF Seen
<1> QED BY <1>1, <1>7, <1>8, <1>9

LEMMA LeavePartyStep ==
  ASSUME PartyInv, NEW p \in Player, LeaveParty(p)
  PROVE  /\ PartyInv' /\ online' = online
         /\ \E f \in Fellowships(party) :
              p \in F!Company(f) /\ F!Parts(Fellowships(party), Fellowships(party'), f, p)
<1> DEFINE a == partyOf[p]
           pt == party[a]
           r == LeftBy(pt, p)
           gone == IF r = NoParty THEN People(pt) ELSE {p}
<1>1. /\ a # None /\ online' = online
      /\ party' = [party EXCEPT ![a] = r]
      /\ partyOf' = [x \in Player |-> IF x \in gone THEN None ELSE partyOf[x]]
      /\ invitePartyList' = [x \in Player |-> IF r = NoParty THEN invitePartyList[x] \ {a} ELSE invitePartyList[x]]
      /\ CloseChannel(gone)
  BY Bar DEF LeaveParty
<1>2. /\ a \in Address /\ pt # NoParty /\ Sound(pt) /\ p \in People(pt) /\ Types
      /\ People(pt) \cup pt.inviteList \subseteq online
  BY <1>1, FreeOf, PeopleOnline DEF PartyInv
<1> HIDE DEF pt
<1>3. \/ r = NoParty /\ \A h \in F!Heirs(Seen(pt), p) : F!Alone(h)
      \/ /\ Sound(r) /\ r.inviteList = pt.inviteList /\ People(r) = People(pt) \ {p}
         /\ Seen(r) \in F!Heirs(Seen(pt), p)
  BY <1>2, LeftParty
<1> HIDE DEF r
<1>4. Becomes(a, r)
  <2>1. ASSUME NEW x \in Player
        PROVE  /\ partyOf[x] = a <=> x \in People(pt)
               /\ a \in invitePartyList[x] <=> x \in pt.inviteList
    BY <1>2 DEF PartyInv, PartiesAgree, InvitesAgree, pt
  <2>2. CASE r = NoParty
    <3>1. r.inviteList = {} /\ \A x \in Player : x \notin People(r)
      BY <2>2, NoPartyFacts, NobodyIsNone DEF People
    <3> QED BY <1>1, <1>2, <2>1, <2>2, <3>1 DEF Becomes, pt
  <2>3. CASE r # NoParty
    <3>1. Sound(r) /\ r.inviteList = pt.inviteList /\ People(r) = People(pt) \ {p}
      BY <1>3, <2>3
    <3>2. ASSUME NEW x \in Player
          PROVE  partyOf'[x] = IF r # NoParty /\ x \in People(r) THEN a
                               ELSE IF partyOf[x] = a THEN None ELSE partyOf[x]
      BY <1>1, <2>1, <2>3, <3>1
    <3>3. ASSUME NEW x \in Player
          PROVE  invitePartyList'[x] = (invitePartyList[x] \ {a}) \cup (IF x \in r.inviteList THEN {a} ELSE {})
      BY <1>1, <2>1, <2>3, <3>1
    <3> QED BY <1>1, <1>2, <2>1, <2>3, <3>1, <3>2, <3>3 DEF Becomes, pt
  <2> QED BY <2>2, <2>3
<1>5. /\ PartyInv'
      /\ Seen(pt) \in Fellowships(party)
      /\ Fellowships(party') = (Fellowships(party) \ {Seen(pt)})
                                 \cup (IF r = NoParty THEN {} ELSE {Seen(r)})
  <2>1. partyOf' \in [Player -> Address \cup {None}] /\ invitePartyList' \in [Player -> SUBSET Address]
    BY <1>1, <1>2 DEF Types
  <2>2. ChannelsClean'
    BY <1>1, ChannelsClosed
  <2> QED BY <1>1, <1>2, <1>4, <2>1, <2>2, OneParty DEF pt
<1>6. p \in F!Company(Seen(pt))
  BY <1>2, SoundParty
<1>7. F!Parts(Fellowships(party), Fellowships(party'), Seen(pt), p)
  <2>1. CASE r = NoParty /\ \A h \in F!Heirs(Seen(pt), p) : F!Alone(h)
    BY <1>5, <2>1 DEF F!Parts
  <2>2. CASE Sound(r) /\ Seen(r) \in F!Heirs(Seen(pt), p)
    <3>1. ~F!Alone(Seen(r)) /\ r # NoParty
      BY <2>2, SoundParty
    <3> QED BY <1>5, <2>2, <3>1 DEF F!Parts
  <2> QED BY <1>3, <2>1, <2>2
<1> QED BY <1>1, <1>5, <1>6, <1>7

-----------------------------------------------------------------------------
(* A logout: first the invitations, which may end several parties at once, *)
(* then the own party, which is none of those.                             *)
Asked(p, a) == [party[a] EXCEPT !.inviteList = @ \ {p}]
Ended(p) == {a \in invitePartyList[p] : Empty(Asked(p, a))}
Declined(p) ==
  [a \in Address |-> IF a \in Ended(p) THEN NoParty
                     ELSE IF a \in invitePartyList[p] THEN Asked(p, a) ELSE party[a]]

LEMMA AskedFacts ==
  ASSUME PartyInv, NEW p \in Player, NEW a \in Address, a \in invitePartyList[p]
  PROVE  /\ party[a] # NoParty /\ Sound(party[a]) /\ p \in party[a].inviteList
         /\ People(Asked(p, a)) = People(party[a])
         /\ Asked(p, a).inviteList = party[a].inviteList \ {p}
         /\ Seen(Asked(p, a)) = F!Uninvited(p, Seen(party[a]))
         /\ F!Alone(Seen(Asked(p, a))) <=> Empty(Asked(p, a))
         /\ ~Empty(Asked(p, a)) => Sound(Asked(p, a)) /\ Asked(p, a) # NoParty
         /\ partyOf[p] # a
<1>1. p \in party[a].inviteList
  BY DEF PartyInv, InvitesAgree
<1>2. party[a] # NoParty
  BY <1>1, NoPartyFacts
<1>3. Sound(party[a])
  BY <1>2 DEF PartyInv, PartiesSound
<1>4. partyOf[p] # a
  BY <1>1, <1>3 DEF PartyInv, PartiesAgree, Sound
<1> DEFINE u == Asked(p, a)
<1>5. u = [party[a] EXCEPT !.inviteList = @ \ {p}]
  BY DEF Asked
<1> HIDE DEF u
<1>6. /\ u \in PartyRecord /\ People(u) = People(party[a]) /\ u.inviteList = party[a].inviteList \ {p}
      /\ Seen(u) = F!Uninvited(p, Seen(party[a]))
      /\ F!Alone(Seen(u)) <=> Empty(u)
      /\ ~Empty(u) => Sound(u)
  BY <1>3, <1>5, UninvitedParty
<1>7. ~Empty(u) => u # NoParty
  BY <1>6, SoundParty
<1> QED BY <1>1, <1>2, <1>3, <1>4, <1>6, <1>7 DEF u

LEMMA DeclinedFacts ==
  ASSUME PartyInv, NEW p \in Player, NEW a \in Address
  PROVE  /\ Declined(p)[a].inviteList = party[a].inviteList \ {p}
         /\ Declined(p)[a] = NoParty <=> party[a] = NoParty \/ a \in Ended(p)
         /\ Declined(p)[a] # NoParty => /\ Sound(Declined(p)[a])
                                        /\ People(Declined(p)[a]) = People(party[a])
         /\ a = partyOf[p] => Declined(p)[a] = party[a] /\ a \notin Ended(p)
         /\ Declined(p)[a] # NoParty /\ party[a] # NoParty => Declined(p)[a].leader = party[a].leader
<1>1. CASE a \in Ended(p)
  <2>1. a \in invitePartyList[p] /\ Empty(Asked(p, a))
    BY <1>1 DEF Ended
  <2>2. party[a].inviteList \ {p} = {} /\ partyOf[p] # a
    BY <2>1, AskedFacts DEF Empty
  <2>3. Declined(p)[a] = NoParty
    BY <1>1 DEF Declined
  <2> QED BY <1>1, <2>2, <2>3, NoPartyFacts
<1>2. CASE a \notin Ended(p) /\ a \in invitePartyList[p]
  <2>1. Declined(p)[a] = Asked(p, a) /\ ~Empty(Asked(p, a))
    BY <1>2 DEF Declined, Ended
  <2>2. Asked(p, a).leader = party[a].leader
    <3>1. party[a] \in PartyRecord
      BY DEF PartyInv, Types
    <3> QED BY <3>1 DEF Asked, PartyRecord
  <2> QED BY <1>2, <2>1, <2>2, AskedFacts
<1>3. CASE a \notin Ended(p) /\ a \notin invitePartyList[p]
  <2>1. Declined(p)[a] = party[a]
    BY <1>3 DEF Declined
  <2>2. p \notin party[a].inviteList
    BY <1>3 DEF PartyInv, InvitesAgree
  <2>3. party[a] # NoParty => Sound(party[a])
    BY DEF PartyInv, PartiesSound
  <2> QED BY <1>3, <2>1, <2>2, <2>3
<1> QED BY <1>1, <1>2, <1>3

LEMMA DeclinedSeen ==
  ASSUME PartyInv, NEW p \in Player
  PROVE  /\ Fellowships(Declined(p)) = F!Withdrawn(Fellowships(party), p)
         /\ LeadersDiffer(Declined(p))
<1> DEFINE W == F!Withdrawn(Fellowships(party), p)
<1>1. ASSUME NEW f
      PROVE  f \in W <=> \/ f \in Fellowships(party) /\ p \notin f.invited
                         \/ /\ ~F!Alone(f)
                            /\ \E g \in Fellowships(party) : p \in g.invited /\ f = F!Uninvited(p, g)
  BY DEF F!Withdrawn
<1>2. \A a : Seen(party[a]).invited = party[a].inviteList
  BY DEF Seen
<1>3. ASSUME NEW a \in Address
      PROVE  a \in invitePartyList[p] <=> p \in party[a].inviteList
  BY DEF PartyInv, InvitesAgree
<1>4. ASSUME NEW f \in W PROVE f \in Fellowships(Declined(p))
  <2>1. CASE f \in Fellowships(party) /\ p \notin f.invited
    <3>1. PICK a \in Address : party[a] # NoParty /\ f = Seen(party[a])
      BY <2>1, FellowshipsOf
    <3>2. a \notin invitePartyList[p]
      BY <1>2, <1>3, <2>1, <3>1
    <3>3. Declined(p)[a] = party[a]
      BY <3>2 DEF Declined, Ended
    <3> QED BY <3>1, <3>3, FellowshipsOf
  <2>2. ASSUME ~F!Alone(f), NEW g \in Fellowships(party), p \in g.invited, f = F!Uninvited(p, g)
        PROVE  f \in Fellowships(Declined(p))
    <3>1. PICK a \in Address : party[a] # NoParty /\ g = Seen(party[a])
      BY FellowshipsOf
    <3>2. a \in invitePartyList[p]
      BY <1>2, <1>3, <2>2, <3>1
    <3>3. ~Empty(Asked(p, a)) /\ f = Seen(Asked(p, a)) /\ Asked(p, a) # NoParty
      BY <2>2, <3>1, <3>2, AskedFacts
    <3>4. Declined(p)[a] = Asked(p, a)
      BY <3>2, <3>3 DEF Declined, Ended
    <3> QED BY <3>3, <3>4, FellowshipsOf
  <2> QED BY <1>1, <2>1, <2>2
<1>5. ASSUME NEW f \in Fellowships(Declined(p)) PROVE f \in W
  <2>1. PICK a \in Address : Declined(p)[a] # NoParty /\ f = Seen(Declined(p)[a])
    BY <1>5, FellowshipsOf
  <2>2. party[a] # NoParty /\ a \notin Ended(p)
    BY <2>1, DeclinedFacts
  <2>3. CASE a \in invitePartyList[p]
    <3>1. Declined(p)[a] = Asked(p, a) /\ ~Empty(Asked(p, a))
      BY <2>2, <2>3 DEF Declined, Ended
    <3>2. ~F!Alone(f) /\ f = F!Uninvited(p, Seen(party[a])) /\ p \in Seen(party[a]).invited
      BY <1>2, <2>1, <2>3, <3>1, AskedFacts
    <3>3. Seen(party[a]) \in Fellowships(party)
      BY <2>2, FellowshipsOf
    <3> QED BY <1>1, <3>2, <3>3
  <2>4. CASE a \notin invitePartyList[p]
    <3>1. Declined(p)[a] = party[a] /\ p \notin Seen(party[a]).invited
      BY <1>2, <1>3, <2>4 DEF Declined, Ended
    <3> QED BY <1>1, <2>1, <2>2, <3>1, FellowshipsOf
  <2> QED BY <2>3, <2>4
<1>6. LeadersDiffer(Declined(p))
  BY LeadersOfInv, DeclinedFacts DEF LeadersDiffer
<1> HIDE DEF W
<1>7. Fellowships(Declined(p)) = W
  BY <1>4, <1>5
<1> QED BY <1>6, <1>7 DEF W

LEMMA LogoutStep ==
  ASSUME PartyInv, NEW p \in Player, Logout(p)
  PROVE  /\ PartyInv' /\ p \in online /\ online' = online \ {p}
         /\ \/ /\ partyOf[p] = None
               /\ Fellowships(party') = F!Withdrawn(Fellowships(party), p)
            \/ \E f \in F!Withdrawn(Fellowships(party), p) :
                 /\ p \in F!Company(f)
                 /\ F!Parts(F!Withdrawn(Fellowships(party), p), Fellowships(party'), f, p)
<1> DEFINE own == partyOf[p]
           pt == party[own]
           left == IF own = None THEN NoParty ELSE LeftBy(pt, p)
           D2 == IF own # None /\ left = NoParty THEN Ended(p) \cup {own} ELSE Ended(p)
<1>1. /\ p \in online /\ online' = online \ {p}
      /\ party' = [a \in Address |-> IF a \in D2 THEN NoParty
                                     ELSE IF a = own THEN left ELSE Declined(p)[a]]
      /\ partyOf' = [x \in Player |-> IF x = p \/ partyOf[x] \in D2 THEN None ELSE partyOf[x]]
      /\ invitePartyList' = [x \in Player |-> IF x = p THEN {} ELSE invitePartyList[x] \ D2]
      /\ partyChannels' = [a \in DOMAIN partyChannels |-> partyChannels[a] \ {p}]
  <2> DEFINE dropped == DropsInvite(invitePartyList[p], p)
  <2>1. DOMAIN dropped = invitePartyList[p] /\ \A a \in invitePartyList[p] : dropped[a] = Asked(p, a)
    BY DEF DropsInvite, Asked
  <2>2. Disbanding(dropped) = Ended(p)
    <3> HIDE DEF dropped
    <3> QED BY <2>1 DEF Disbanding, Ended
  <2>3. /\ p \in online /\ online' = online \ {p}
        /\ party' = [a \in Address |-> IF a \in D2 THEN NoParty
                                       ELSE IF a = own THEN left
                                       ELSE IF a \in DOMAIN dropped THEN dropped[a] ELSE party[a]]
        /\ partyOf' = [LetGo(D2) EXCEPT ![p] = None]
        /\ invitePartyList' = [x \in Player |-> IF x = p THEN {} ELSE invitePartyList[x] \ D2]
        /\ partyChannels' = [a \in DOMAIN partyChannels |-> partyChannels[a] \ {p}]
    <3> HIDE DEF dropped
    <3> QED BY <2>2 DEF Logout, RemoveFromChannels, dropped
  <2> HIDE DEF dropped, left
  <2>4. Ended(p) \subseteq D2
    OBVIOUS
  <2> HIDE DEF D2
  <2>5. \A a \in Address : a \notin D2 => (IF a \in DOMAIN dropped THEN dropped[a] ELSE party[a]) = Declined(p)[a]
    BY <2>1, <2>4 DEF Declined
  <2>6. party' = [a \in Address |-> IF a \in D2 THEN NoParty
                                    ELSE IF a = own THEN left ELSE Declined(p)[a]]
    BY <2>3, <2>5
  <2>7. partyOf' = [x \in Player |-> IF x = p \/ partyOf[x] \in D2 THEN None ELSE partyOf[x]]
    BY <2>3 DEF LetGo
  <2> QED BY <2>3, <2>6, <2>7
<1>2. own # None => /\ own \in Address /\ pt # NoParty /\ Sound(pt) /\ p \in People(pt)
                    /\ p \notin pt.inviteList
  BY FreeOf DEF Sound
<1>3. Types
  BY DEF PartyInv
<1> HIDE DEF pt
<1>4. own # None =>
        \/ left = NoParty /\ \A h \in F!Heirs(Seen(pt), p) : F!Alone(h)
        \/ /\ Sound(left) /\ left.inviteList = pt.inviteList /\ People(left) = People(pt) \ {p}
           /\ Seen(left) \in F!Heirs(Seen(pt), p)
  BY <1>2, LeftParty DEF left
<1>5. /\ own = None => D2 = Ended(p)
      /\ own # None /\ left = NoParty => D2 = Ended(p) \cup {own}
      /\ own # None /\ left # NoParty => D2 = Ended(p)
      /\ own \notin Ended(p)
  <2>1. own \notin Ended(p)
    BY <1>3, NobodyIsNone, DeclinedFacts DEF Ended, Types
  <2> QED BY <2>1 DEF D2
<1> HIDE DEF left, D2
<1>6. own # None => pt = party[own] /\ Declined(p)[own] = pt
  BY <1>2, DeclinedFacts DEF pt
<1>7. ASSUME NEW a \in Address
      PROVE  /\ a # own => party'[a] = Declined(p)[a]
             /\ a = own => party'[a] = left
  <2>1. CASE a \in Ended(p)
    <3>1. Declined(p)[a] = NoParty
      BY <2>1 DEF Declined
    <3> QED BY <1>1, <1>5, <2>1, <3>1
  <2>2. CASE a \notin Ended(p)
    BY <1>1, <1>5, <2>2, <1>3, NobodyIsNone
  <2> QED BY <2>1, <2>2
<1>8. PartyInv'
  <2>1. ASSUME NEW a \in Address, party'[a] # NoParty
        PROVE  /\ Sound(party'[a]) /\ a \notin D2 /\ party[a] # NoParty
               /\ People(party'[a]) = People(party[a]) \ {p}
    <3>1. CASE a = own
      BY <1>2, <1>4, <1>5, <1>6, <1>7, <2>1, <3>1, NobodyIsNone
    <3>2. CASE a # own
      <4>1. p \notin People(party[a]) \/ party[a] = NoParty
        BY <3>2 DEF PartyInv, PartiesAgree
      <4>2. Declined(p)[a] # NoParty
        BY <1>7, <2>1, <3>2
      <4>3. Sound(Declined(p)[a]) /\ People(Declined(p)[a]) = People(party[a]) /\ party[a] # NoParty /\ a \notin Ended(p)
        BY <4>2, DeclinedFacts
      <4> QED BY <1>5, <1>7, <3>2, <4>1, <4>3
    <3> QED BY <3>1, <3>2
  <2>2. ASSUME NEW a \in Address, party'[a] = NoParty PROVE party[a] = NoParty \/ a \in D2
    <3>1. CASE a = own
      BY <1>2, <1>4, <1>5, <1>7, <2>2, <3>1, NobodyIsNone
    <3>2. CASE a # own
      BY <1>5, <1>7, <2>2, <3>2, DeclinedFacts
    <3> QED BY <3>1, <3>2
  <2>3. ASSUME NEW a \in Address
        PROVE  party'[a].inviteList = IF a \in D2 THEN {} ELSE party[a].inviteList \ {p}
    <3>1. CASE a \in D2
      BY <1>1, <3>1, NoPartyFacts
    <3>2. CASE a \notin D2 /\ a = own
      BY <1>2, <1>4, <1>5, <1>6, <1>7, <3>2, NobodyIsNone
    <3>3. CASE a \notin D2 /\ a # own
      BY <1>7, <3>3, DeclinedFacts
    <3> QED BY <3>1, <3>2, <3>3
  <2>4. Types'
    <3>1. ASSUME NEW a \in Address PROVE party'[a] \in PartyRecord
      BY <2>1, NoPartyFacts DEF Sound
    <3>2. party' \in [Address -> PartyRecord]
      BY <1>1, <3>1
    <3>3. online' \subseteq Player
      BY <1>1, <1>3 DEF Types
    <3>4. partyOf' \in [Player -> Address \cup {None}]
      BY <1>1, <1>3 DEF Types
    <3>5. invitePartyList' \in [Player -> SUBSET Address]
      BY <1>1, <1>3 DEF Types
    <3> QED BY <3>2, <3>3, <3>4, <3>5 DEF Types
  <2>5. ChannelsClean'
    BY <1>1 DEF PartyInv, ChannelsClean
  <2>6. PartiesSound'
    BY <2>1 DEF PartiesSound
  <2>7. Gone'
    BY <1>1 DEF PartyInv, Gone
  <2>8. PartiesAgree(partyOf', party')
    <3>1. ASSUME NEW x \in Player, NEW b \in Address
          PROVE  partyOf'[x] = b <=> party'[b] # NoParty /\ x \in People(party'[b])
      <4>1. partyOf[x] = b <=> party[b] # NoParty /\ x \in People(party[b])
        BY DEF PartyInv, PartiesAgree
      <4>2. partyOf'[x] = IF x = p \/ partyOf[x] \in D2 THEN None ELSE partyOf[x]
        BY <1>1
      <4> QED BY <2>1, <2>2, <4>1, <4>2, NobodyIsNone
    <3> QED BY <3>1 DEF PartiesAgree
  <2>9. InvitesAgree(invitePartyList', party')
    <3>1. ASSUME NEW x \in Player, NEW b \in Address
          PROVE  b \in invitePartyList'[x] <=> x \in party'[b].inviteList
      <4>1. b \in invitePartyList[x] <=> x \in party[b].inviteList
        BY DEF PartyInv, InvitesAgree
      <4>2. invitePartyList'[x] = IF x = p THEN {} ELSE invitePartyList[x] \ D2
        BY <1>1
      <4> QED BY <2>3, <4>1, <4>2
    <3> QED BY <3>1 DEF InvitesAgree
  <2> QED BY <2>4, <2>5, <2>6, <2>7, <2>8, <2>9 DEF PartyInv
<1>9. Fellowships(Declined(p)) = F!Withdrawn(Fellowships(party), p) /\ LeadersDiffer(Declined(p))
  BY DeclinedSeen
<1>10. CASE own = None
  <2>1. \A a \in Address : party'[a] = Declined(p)[a]
    BY <1>7, <1>10, NobodyIsNone
  <2>2. \A f : f \in Fellowships(party') <=> f \in Fellowships(Declined(p))
    BY <2>1, FellowshipsOf
  <2>3. Fellowships(party') = Fellowships(Declined(p))
    BY <2>2
  <2> QED BY <1>1, <1>8, <1>9, <1>10, <2>3
<1>11. CASE own # None
  <2>1. /\ own \in Address /\ Declined(p)[own] = pt /\ pt # NoParty /\ party'[own] = left
        /\ \A b \in Address \ {own} : party'[b] = Declined(p)[b]
    BY <1>2, <1>6, <1>7, <1>11
  <2>2. Fellowships(party') =
          (Fellowships(Declined(p)) \ (IF Declined(p)[own] = NoParty THEN {} ELSE {Seen(Declined(p)[own])}))
            \cup (IF party'[own] = NoParty THEN {} ELSE {Seen(party'[own])})
    BY ONLY <1>9, <2>1, ReplaceOne
  <2>3. Fellowships(party') = (Fellowships(Declined(p)) \ {Seen(pt)})
                                \cup (IF left = NoParty THEN {} ELSE {Seen(left)})
    BY <2>1, <2>2
  <2>4. Seen(pt) \in Fellowships(Declined(p)) /\ p \in F!Company(Seen(pt))
    BY <1>2, <1>11, <2>1, FellowshipsOf, SoundParty
  <2>5. F!Parts(Fellowships(Declined(p)), Fellowships(party'), Seen(pt), p)
    <3>1. CASE left = NoParty /\ \A h \in F!Heirs(Seen(pt), p) : F!Alone(h)
      BY <2>3, <3>1 DEF F!Parts
    <3>2. CASE Sound(left) /\ Seen(left) \in F!Heirs(Seen(pt), p)
      <4>1. ~F!Alone(Seen(left)) /\ left # NoParty
        BY <3>2, SoundParty
      <4> QED BY <2>3, <3>2, <4>1 DEF F!Parts
    <3> QED BY <1>4, <1>11, <3>1, <3>2
  <2> QED BY <1>1, <1>8, <1>9, <2>4, <2>5
<1> QED BY <1>10, <1>11

-----------------------------------------------------------------------------
(* The other steps leave the parties alone.                                *)
LEMMA RestStep ==
  ASSUME PartyInv, UNCHANGED <<partyOf, invitePartyList, party>>,
         online \subseteq online', online' \subseteq Player,
         DOMAIN partyChannels' \subseteq Address,
         \A a \in DOMAIN partyChannels' : partyChannels'[a] \subseteq online'
  PROVE  PartyInv' /\ Fellowships(party') = Fellowships(party)
<1>1. Types'
  BY DEF PartyInv, Types
<1>2. ChannelsClean'
  BY DEF ChannelsClean
<1>3. PartiesSound' /\ Gone'
  BY DEF PartyInv, PartiesSound, Gone
<1>4. PartiesAgree(partyOf', party') /\ InvitesAgree(invitePartyList', party')
  BY DEF PartyInv
<1> QED BY <1>1, <1>2, <1>3, <1>4 DEF PartyInv

LEMMA LoginStep ==
  ASSUME PartyInv, NEW p \in Player, Login(p)
  PROVE  /\ PartyInv' /\ Fellowships(party') = Fellowships(party)
         /\ p \notin online /\ online' = online \cup {p}
<1>1. /\ online \subseteq online' /\ online' \subseteq Player
      /\ UNCHANGED <<partyOf, invitePartyList, party>> /\ partyChannels' = partyChannels
      /\ p \notin online /\ online' = online \cup {p}
  BY DEF Login, PartyInv, Types
<1>2. /\ DOMAIN partyChannels' \subseteq Address
      /\ \A a \in DOMAIN partyChannels' : partyChannels'[a] \subseteq online'
  BY <1>1 DEF PartyInv, ChannelsClean
<1> QED BY <1>1, <1>2, RestStep

LEMMA ChannelStep ==
  ASSUME PartyInv, NEW p \in Player, RequestChannels(p) \/ OpenChannel(p) \/ LeaveChannel(p)
  PROVE  PartyInv' /\ Fellowships(party') = Fellowships(party) /\ online' = online
<1>1. UNCHANGED <<online, partyOf, invitePartyList, party>> /\ online \subseteq Player
  BY DEF RequestChannels, OpenChannel, LeaveChannel, PartyInv, Types
<1>2. /\ DOMAIN partyChannels' \subseteq Address
      /\ \A a \in DOMAIN partyChannels' : partyChannels'[a] \subseteq online'
  <2>1. CASE RequestChannels(p)
    <3>1. partyOf[p] \in Address
      BY <2>1 DEF RequestChannels, PartyInv, Types
    <3> QED BY <1>1, <2>1, <3>1 DEF RequestChannels, PartyInv, ChannelsClean
  <2>2. CASE OpenChannel(p)
    <3>1. PICK a \in PartyChannel(p) : partyChannels' = [partyChannels EXCEPT ![a] = @ \cup {p}]
      BY <2>2 DEF OpenChannel
    <3>2. p \in online
      BY <2>2 DEF OpenChannel
    <3> QED BY <1>1, <3>1, <3>2 DEF PartyInv, ChannelsClean
  <2>3. CASE LeaveChannel(p)
    <3>1. PICK a \in PartyChannel(p) : partyChannels' = [partyChannels EXCEPT ![a] = @ \ {p}]
      BY <2>3 DEF LeaveChannel
    <3> QED BY <1>1, <3>1 DEF PartyInv, ChannelsClean
  <2> QED BY <2>1, <2>2, <2>3
<1> QED BY <1>1, <1>2, RestStep

LEMMA InitStep == Init => PartyInv /\ F!Init
<1> SUFFICES ASSUME Init PROVE PartyInv /\ F!Init
  OBVIOUS
<1>1. \A a \in Address : party[a] = NoParty
  BY DEF Init
<1>2. \A x \in Player, a \in Address : partyOf[x] # a /\ a \notin invitePartyList[x]
  BY NobodyIsNone DEF Init
<1>3. Types /\ PartiesSound /\ Gone
  <2>1. NoParty \in PartyRecord
    BY NoPartyFacts
  <2> HIDE DEF NoParty
  <2> QED BY <1>1, <2>1 DEF Init, Types, PartiesSound, Gone
<1>4. ChannelsClean
  BY DEF Init, ChannelsClean
<1>5. PartiesAgree(partyOf, party) /\ InvitesAgree(invitePartyList, party)
  BY <1>1, <1>2, NoPartyFacts DEF PartiesAgree, InvitesAgree
<1>6. F!Init
  BY <1>1 DEF Init, F!Init, Live
<1> QED BY <1>3, <1>4, <1>5, <1>6 DEF PartyInv

-----------------------------------------------------------------------------
(* What is seen of a step is a step of Fellowship.                         *)
LEMMA BarNext ==
  Fellowships(party') = {[leader |-> party[a].leader, others |-> Members(a), invited |-> party[a].inviteList] : a \in Live}'
BY DEF Fellowships, Seen, Members, Live

LEMMA StepSeen ==
  ASSUME PartyInv, Next
  PROVE  PartyInv' /\ (F!Next \/ UNCHANGED F!vars)
<1> DEFINE fs == {[leader |-> party[a].leader, others |-> Members(a), invited |-> party[a].inviteList] : a \in Live}
<1>1. Fellowships(party) = fs /\ Fellowships(party') = fs'
  BY Bar, BarNext
<1>2. ASSUME NEW p \in Player, NEW q \in Player, Invite(p, q) PROVE PartyInv' /\ F!Next
  <2>1. PartyInv' /\ online' = online /\ p # q /\ p \in online /\ q \in online /\ F!Free(q)
    BY <1>1, <1>2, InviteStep, FreeOf DEF F!Free
  <2>2. \/ /\ F!Free(p)
           /\ fs' = fs \cup {[leader |-> p, others |-> {}, invited |-> {q}]}
        \/ \E f \in fs : f.leader = p /\ fs' = (fs \ {f}) \cup {[f EXCEPT !.invited = @ \cup {q}]}
    BY <1>1, <1>2, InviteStep, FreeOf DEF F!Free
  <2>3. F!Invite(p, q)
    BY <2>1, <2>2 DEF F!Invite
  <2> QED BY <2>1, <2>3 DEF F!Next
<1>3. ASSUME NEW p \in Player, NEW l \in Player, Join(p, l) PROVE PartyInv' /\ F!Next
  <2>1. PartyInv' /\ online' = online /\ F!Free(p)
    BY <1>1, <1>3, JoinStep, FreeOf DEF F!Free
  <2>2. \E f \in fs : /\ p \in f.invited
                      /\ fs' = (fs \ {f}) \cup {[F!Uninvited(p, f) EXCEPT !.others = @ \cup {p}]}
    BY <1>1, <1>3, JoinStep
  <2>3. F!Join(p)
    BY <2>1, <2>2 DEF F!Join
  <2> QED BY <2>1, <2>3 DEF F!Next
<1>4. ASSUME NEW p \in Player, NEW q \in Player, RevokeInvitation(p, q) PROVE PartyInv' /\ F!Next
  <2>1. PartyInv' /\ online' = online
    BY <1>4, RevokeInvitationStep
  <2>2. \E f \in fs : fs' = (fs \ {f}) \cup F!Withdrawn({f}, q)
    BY <1>1, <1>4, RevokeInvitationStep
  <2>3. F!Withdraw(q)
    BY <2>1, <2>2 DEF F!Withdraw
  <2> QED BY <2>1, <2>3 DEF F!Next
<1>5. ASSUME NEW p \in Player, NEW q \in Player, PassLeadership(p, q) PROVE PartyInv' /\ F!Next
  <2>1. PartyInv' /\ online' = online
    BY <1>5, PassLeadershipStep
  <2>2. \E f \in fs, o \in Player :
          /\ o \in f.others
          /\ fs' = (fs \ {f}) \cup {[f EXCEPT !.leader = o, !.others = (@ \ {o}) \cup {f.leader}]}
    BY <1>1, <1>5, PassLeadershipStep
  <2>3. \E f \in fs : F!Pass(f)
    BY <2>1, <2>2 DEF F!Pass
  <2> QED BY <2>1, <2>3 DEF F!Next
<1>6. ASSUME NEW p \in Player, LeaveParty(p) PROVE PartyInv' /\ F!Next
  <2>1. PartyInv' /\ online' = online
    BY <1>6, LeavePartyStep
  <2>2. \E f \in fs : p \in F!Company(f) /\ F!Parts(fs, fs', f, p)
    BY <1>1, <1>6, LeavePartyStep
  <2>3. F!Leave(p)
    BY <2>1, <2>2 DEF F!Leave
  <2> QED BY <2>1, <2>3 DEF F!Next
<1>7. ASSUME NEW p \in Player, Logout(p) PROVE PartyInv' /\ F!Next
  <2>1. PartyInv' /\ p \in online /\ online' = online \ {p}
    BY <1>7, LogoutStep
  <2>2. \/ F!Free(p) /\ fs' = F!Withdrawn(fs, p)
        \/ \E f \in F!Withdrawn(fs, p) : p \in F!Company(f) /\ F!Parts(F!Withdrawn(fs, p), fs', f, p)
    BY <1>1, <1>7, LogoutStep, FreeOf DEF F!Free
  <2>3. F!Depart(p)
    BY <2>1, <2>2 DEF F!Depart
  <2> QED BY <2>1, <2>3 DEF F!Next
<1>8. ASSUME NEW p \in Player, Login(p) PROVE PartyInv' /\ F!Next
  <2>1. PartyInv' /\ fs' = fs /\ p \notin online /\ online' = online \cup {p}
    BY <1>1, <1>8, LoginStep
  <2>2. F!Enter(p)
    BY <2>1 DEF F!Enter
  <2> QED BY <2>1, <2>2 DEF F!Next
<1>9. ASSUME NEW p \in Player, RequestChannels(p) \/ OpenChannel(p) \/ LeaveChannel(p)
      PROVE  PartyInv' /\ UNCHANGED F!vars
  <2>1. PartyInv' /\ fs' = fs /\ online' = online
    BY <1>1, <1>9, ChannelStep
  <2> QED BY <2>1 DEF F!vars
<1> HIDE DEF fs
<1> QED BY <1>2, <1>3, <1>4, <1>5, <1>6, <1>7, <1>8, <1>9 DEF Next

LEMMA StutterSeen ==
  ASSUME PartyInv, UNCHANGED vars
  PROVE  PartyInv' /\ UNCHANGED F!vars
<1>1. PartyInv'
  <2>1. Types' /\ ChannelsClean' /\ PartiesSound' /\ Gone'
    BY DEF vars, PartyInv, Types, ChannelsClean, PartiesSound, Gone
  <2> QED BY <2>1 DEF vars, PartyInv
<1>2. UNCHANGED F!vars
  BY DEF vars, F!vars, Members, Live
<1> QED BY <1>1, <1>2

LEMMA InjectiveParty ==
  ASSUME NEW pt, Sound(pt)
  PROVE  IsInjective(<<pt.leader>> \o pt.memberList)
<1> DEFINE t == pt.memberList
           l == pt.leader
           s == <<l>> \o t
<1>1. l \in Player /\ Distinct(t) /\ l \notin Range(t) /\ t \in Seq(Player)
  BY DEF Sound, PartyRecord
<1> HIDE DEF t, l
<1>2. s \in Seq(Player) /\ Distinct(s)
  BY <1>1, PrependedToList
<1> HIDE DEF s
<1>3. IsInjective(s)
  BY <1>2 DEF IsInjective, Distinct
<1> QED BY <1>3 DEF s, t, l

LEMMA InvStates == PartyInv => PointersAgree
<1> SUFFICES ASSUME PartyInv PROVE PointersAgree
  OBVIOUS
<1>1. ASSUME NEW a \in Live
      PROVE  /\ party[a].leader \in Player /\ Members(a) \subseteq Player
             /\ party[a].inviteList \subseteq Player
             /\ IsInjective(<<party[a].leader>> \o party[a].memberList)
  <2>1. Sound(party[a]) /\ party[a].memberList \in Seq(Player)
    BY Bar, SoundParty DEF PartyInv, PartiesSound, Live
  <2> QED BY <2>1, SoundParty, InjectiveParty DEF Sound, PartyRecord, Members, People
<1>2. TypeOK
  BY <1>1 DEF TypeOK, PartyInv, Types, ChannelsClean
<1>3. \A p \in Player, a \in Address :
        /\ partyOf[p] = a <=> a \in Live /\ p \in Participants(a)
        /\ a \in invitePartyList[p] <=> p \in party[a].inviteList
  BY Bar DEF PartyInv, PartiesAgree, InvitesAgree
<1> QED BY <1>1, <1>2, <1>3 DEF PointersAgree, PartyInv, ChannelsClean, Gone

(* For any number of players and addresses: Player::party, the leader and  *)
(* members of Party, Player::invitePartyList and Party::inviteList agree,  *)
(* and nothing points to a party that deleted itself or to a player who    *)
(* left.                                                                   *)
THEOREM PointersCorrect == Spec => []PointersAgree
<1>1. PartyInv /\ [Next]_vars => PartyInv'
  BY StepSeen, StutterSeen
<1> QED BY <1>1, InitStep, InvStates, PTL DEF Spec

(* Every command on parties, and every logout, is what Fellowship allows:  *)
(* party.cpp with its addresses, lists and self-deleting objects keeps the *)
(* promise.                                                                *)
THEOREM FellowshipImplemented == Spec => ImplementsFellowship
<1>1. PartyInv /\ [Next]_vars => PartyInv' /\ [F!Next]_(F!vars)
  BY StepSeen, StutterSeen
<1> QED BY <1>1, InitStep, PTL DEF Spec, ImplementsFellowship, F!Spec
=============================================================================
