------------------------- MODULE GameSessionProofs -------------------------
(***************************************************************************)
(* Proofs about the sessions of a character, for any number of connections *)
(* and of Player objects: it is in the world at most once, protocols and   *)
(* players point to each other, the references to a player are exactly     *)
(* those counted, and, when no closed connection outlives its delayed      *)
(* connect, no player is leaked and no client waits in vain.               *)
(***************************************************************************)
EXTENDS GameSession, FiniteSetTheorems, SequenceTheorems, TLAPS

-----------------------------------------------------------------------------
(* The queue of the dispatcher.                                            *)

\* a task of c in q
Has(q, op, c) == \E i \in 1 .. Len(q) : q[i].op = op /\ q[i].c = c

\* what may follow what among the tasks of one connection
Follows == {<<"login", "release">>, <<"logout", "release">>,
            <<"connect", "release">>, <<"release", "connect">>}

InOrder(q) ==
  \A i, j \in 1 .. Len(q) :
    i < j /\ q[i].c = q[j].c => <<q[i].op, q[j].op>> \in Follows

\* a connect behind the release of its connection finds no connection
LateConnectsFail(q, cn) ==
  \A i, j \in 1 .. Len(q) :
    i < j /\ q[i].c = q[j].c /\ q[i].op = "release" /\ q[j].op = "connect"
      => cn[q[j].c] = "dead"

-----------------------------------------------------------------------------
(* The life of a connection: new, waiting for a player, playing, released. *)

Waiting(c, q, ti) ==
  \/ Has(q, "login", c) \/ Has(q, "connect", c)
  \/ \E o \in Objects : <<c, o>> \in ti

Gone(c, cn) == cn[c] \in {"closed", "dead"}

Stage(c, cn, q, ti, pl, re) ==
  /\ cn[c] = "new" => /\ ~Waiting(c, q, ti) /\ pl[c] = None /\ c \notin re
                      /\ ~Has(q, "logout", c) /\ ~Has(q, "release", c)
  /\ Waiting(c, q, ti) => pl[c] = None /\ ~Has(q, "logout", c)
  /\ \A o \in Objects : <<c, o>> \in ti =>
       /\ ~Has(q, "login", c) /\ ~Has(q, "connect", c)
       /\ \A x \in Objects : <<c, x>> \in ti => x = o
  /\ Has(q, "login", c) => c \notin re
  /\ Has(q, "release", c) => Gone(c, cn) /\ c \notin re
  /\ c \in re => Gone(c, cn)

Stages(cn, q, ti, pl, re) == \A c \in Conns : Stage(c, cn, q, ti, pl, re)

Session(cn, q, ti, pl, re) == InOrder(q) /\ Stages(cn, q, ti, pl, re)

SessionInv == Session(conn, tasks, timers, player, released)

-----------------------------------------------------------------------------
(* The Player objects.                                                     *)

QueueTypes ==
  /\ conn \in [Conns -> {"new", "open", "closed", "dead"}]
  /\ tasks \in Seq(Task)
  /\ timers \subseteq Conns \X Objects
  /\ parsing \in [Conns -> Objects \cup {None}]
  /\ autosend \subseteq Conns /\ chains \in Nat
  /\ gameState \in {"normal", "closed", "shutdown"}

ObjectTypes ==
  /\ player \in [Conns -> Objects \cup {None}]
  /\ acceptPackets \subseteq Conns /\ released \subseteq Conns
  /\ client \in [Objects -> Conns \cup {None}]
  /\ refs \in [Objects -> Nat]
  /\ online \subseteq created /\ toRelease \subseteq created
  /\ created \subseteq Objects /\ deleted \subseteq created
  /\ connecting \subseteq created

Pointed == \A c \in Conns, o \in Objects : player[c] = o <=> client[o] = c

Counted ==
  /\ \A o \in created :
       /\ refs[o] = (IF client[o] # None THEN 1 ELSE 0)
                      + (IF o \in online \cup toRelease THEN 1 ELSE 0)
       /\ o \in deleted <=> refs[o] = 0
  /\ \A o \in Objects \ created : client[o] = None /\ refs[o] = 0
  /\ online \cap toRelease = {}

\* a packet is parsed on an open connection, with its player
Parsed ==
  \A c \in Conns : parsing[c] # None => conn[c] = "open" /\ player[c] = parsing[c]

Once ==
  /\ \A o, x \in online : o = x
  /\ gameState = "closed" => online = {}

PlayerInv == QueueTypes /\ ObjectTypes /\ Pointed /\ Counted /\ Parsed /\ Once

GameInv == SessionInv /\ PlayerInv

-----------------------------------------------------------------------------
(* With connections that are gone when the delayed connect fires.          *)

PromptInv ==
  /\ LateConnectsFail(tasks, conn)
  /\ \A c \in Conns : Has(tasks, "connect", c) /\ c \in released => conn[c] = "dead"
  /\ NoLeakedPlayer

\* a client that waits or plays, and is sent what is buffered for it
Answered(c) ==
  /\ player[c] # None \/ Waiting(c, tasks, timers)
  /\ c \in autosend \/ Has(tasks, "login", c)

Sending == autosend \cap released = {} /\ (autosend # {} => chains > 0)

\* what every client is owed until the shutdown
ServedInv ==
  gameState # "shutdown" =>
    /\ \A c \in Conns : Gone(c, conn) => c \in released \/ Has(tasks, "release", c)
    /\ \A c \in Conns : conn[c] = "open" => Answered(c)
    /\ \A o \in connecting \cap online :
         client[o] = None \/ Has(tasks, "release", client[o])
    /\ Sending

AnswerInv == PromptInv /\ ServedInv

-----------------------------------------------------------------------------
(* What becomes of the queue when a task is run or posted.                 *)

LEMMA TaskFacts ==
  ASSUME NEW t \in Task
  PROVE  /\ t.op \in {"login", "release", "logout", "connect"} /\ t.c \in Conns
         /\ t.op = "connect" => t.o \in Objects
BY DEF Task

LEMMA PostedTasks ==
  ASSUME NEW c \in Conns
  PROVE  /\ [op |-> "login", c |-> c] \in Task /\ [op |-> "logout", c |-> c] \in Task
         /\ ReleaseTask(c) \in Task
         /\ \A o \in Objects : [op |-> "connect", c |-> c, o |-> o] \in Task
BY DEF Task, ReleaseTask

LEMMA ReleaseTaskFacts ==
  ASSUME NEW c
  PROVE  ReleaseTask(c).op = "release" /\ ReleaseTask(c).c = c
BY DEF ReleaseTask

LEMMA RestOf ==
  ASSUME NEW q \in Seq(Task), q # <<>>
  PROVE  /\ Head(q) \in Task /\ Tail(q) \in Seq(Task)
         /\ Len(q) \in Nat /\ Len(q) >= 1 /\ Len(Tail(q)) = Len(q) - 1
         /\ Head(q) = q[1]
         /\ \A i \in 1 .. Len(Tail(q)) : Tail(q)[i] = q[i + 1]
BY HeadTailProperties, LenProperties, EmptySeq

LEMMA PostedTo ==
  ASSUME NEW q \in Seq(Task), NEW t \in Task, NEW r, r = Append(q, t)
  PROVE  /\ r \in Seq(Task) /\ Len(q) \in Nat /\ Len(r) = Len(q) + 1
         /\ r[Len(q) + 1] = t
         /\ \A i \in 1 .. Len(q) : r[i] = q[i]
BY AppendProperties, LenProperties

LEMMA HasTail ==
  ASSUME NEW q \in Seq(Task), q # <<>>, NEW op, NEW c
  PROVE  Has(q, op, c) <=> Has(Tail(q), op, c) \/ (Head(q).op = op /\ Head(q).c = c)
<1> DEFINE r == Tail(q)
<1>1. /\ Len(q) \in Nat /\ Len(q) >= 1 /\ Len(r) = Len(q) - 1 /\ Head(q) = q[1]
      /\ \A i \in 1 .. Len(r) : r[i] = q[i + 1]
  BY RestOf
<1> HIDE DEF r
<1>2. ASSUME Has(q, op, c), ~(Head(q).op = op /\ Head(q).c = c) PROVE Has(r, op, c)
  <2>1. PICK i \in 1 .. Len(q) : q[i].op = op /\ q[i].c = c
    BY <1>2 DEF Has
  <2>2. i - 1 \in 1 .. Len(r) /\ r[i - 1] = q[i]
    <3>1. i # 1
      BY <1>1, <1>2, <2>1
    <3>2. i - 1 \in 1 .. Len(r) /\ (i - 1) + 1 = i
      BY <1>1, <3>1
    <3>3. QED BY <1>1, <3>2
  <2>3. QED BY <2>1, <2>2 DEF Has
<1>3. ASSUME Has(r, op, c) PROVE Has(q, op, c)
  <2>1. PICK i \in 1 .. Len(r) : r[i].op = op /\ r[i].c = c
    BY <1>3 DEF Has
  <2>2. i + 1 \in 1 .. Len(q) /\ q[i + 1] = r[i]
    BY <1>1, <2>1
  <2>3. QED BY <2>1, <2>2 DEF Has
<1>4. ASSUME Head(q).op = op, Head(q).c = c PROVE Has(q, op, c)
  <2>1. 1 \in 1 .. Len(q) /\ q[1].op = op /\ q[1].c = c
    BY <1>1, <1>4
  <2>2. QED BY <2>1 DEF Has
<1>5. QED BY <1>2, <1>3, <1>4 DEF r

LEMMA HasAppend ==
  ASSUME NEW q \in Seq(Task), NEW t \in Task, NEW r, r = Append(q, t), NEW op, NEW c
  PROVE  Has(r, op, c) <=> Has(q, op, c) \/ (t.op = op /\ t.c = c)
<1>1. /\ Len(q) \in Nat /\ Len(r) = Len(q) + 1 /\ r[Len(q) + 1] = t
      /\ \A i \in 1 .. Len(q) : r[i] = q[i]
  BY PostedTo
<1>2. ASSUME Has(r, op, c), ~(t.op = op /\ t.c = c) PROVE Has(q, op, c)
  <2>1. PICK i \in 1 .. Len(r) : r[i].op = op /\ r[i].c = c
    BY <1>2 DEF Has
  <2>2. i \in 1 .. Len(q) /\ q[i] = r[i]
    BY <1>1, <1>2, <2>1
  <2>3. QED BY <2>1, <2>2 DEF Has
<1>3. ASSUME Has(q, op, c) PROVE Has(r, op, c)
  <2>1. PICK i \in 1 .. Len(q) : q[i].op = op /\ q[i].c = c
    BY <1>3 DEF Has
  <2>2. i \in 1 .. Len(r) /\ r[i] = q[i]
    BY <1>1, <2>1
  <2>3. QED BY <2>1, <2>2 DEF Has
<1>4. ASSUME t.op = op, t.c = c PROVE Has(r, op, c)
  <2>1. Len(q) + 1 \in 1 .. Len(r)
    BY <1>1
  <2>2. QED BY <1>1, <1>4, <2>1 DEF Has
<1>5. QED BY <1>2, <1>3, <1>4

LEMMA OrderTail ==
  ASSUME NEW q \in Seq(Task), q # <<>>, InOrder(q)
  PROVE  /\ InOrder(Tail(q))
         /\ \A op : Has(Tail(q), op, Head(q).c) => <<Head(q).op, op>> \in Follows
<1> DEFINE r == Tail(q)
<1>1. /\ Len(q) \in Nat /\ Len(q) >= 1 /\ Len(r) = Len(q) - 1 /\ Head(q) = q[1]
      /\ \A i \in 1 .. Len(r) : r[i] = q[i + 1]
  BY RestOf
<1> HIDE DEF r
<1>2. \A i \in 1 .. Len(r) : i + 1 \in 1 .. Len(q) /\ i + 1 > 1 /\ r[i] = q[i + 1]
  BY <1>1
<1>3. ASSUME NEW i \in 1 .. Len(r), NEW j \in 1 .. Len(r), i < j, r[i].c = r[j].c
      PROVE  <<r[i].op, r[j].op>> \in Follows
  <2>1. /\ i + 1 \in 1 .. Len(q) /\ j + 1 \in 1 .. Len(q) /\ i + 1 < j + 1
        /\ r[i] = q[i + 1] /\ r[j] = q[j + 1]
    BY <1>1, <1>2, <1>3
  <2>2. QED BY <1>3, <2>1 DEF InOrder
<1>4. ASSUME NEW op, Has(r, op, Head(q).c) PROVE <<Head(q).op, op>> \in Follows
  <2>1. PICK i \in 1 .. Len(r) : r[i].op = op /\ r[i].c = Head(q).c
    BY <1>4 DEF Has
  <2>2. /\ 1 \in 1 .. Len(q) /\ i + 1 \in 1 .. Len(q) /\ 1 < i + 1
        /\ q[1].c = q[i + 1].c /\ q[i + 1].op = op
    BY <1>1, <1>2, <2>1
  <2>3. <<q[1].op, q[i + 1].op>> \in Follows
    BY <2>2 DEF InOrder
  <2>4. Head(q).op = q[1].op /\ q[i + 1].op = op
    BY <1>1, <2>2
  <2>5. QED BY <2>3, <2>4, Zenon
<1>5. QED BY <1>3, <1>4 DEF InOrder, r

LEMMA OrderAppend ==
  ASSUME NEW q \in Seq(Task), NEW t \in Task, NEW r, r = Append(q, t), InOrder(q),
         \A op : Has(q, op, t.c) => <<op, t.op>> \in Follows
  PROVE  InOrder(r)
<1>1. /\ Len(q) \in Nat /\ Len(r) = Len(q) + 1 /\ r[Len(q) + 1] = t
      /\ \A i \in 1 .. Len(q) : r[i] = q[i]
  BY PostedTo
<1>2. ASSUME NEW i \in 1 .. Len(r), NEW j \in 1 .. Len(r), i < j, r[i].c = r[j].c
      PROVE  <<r[i].op, r[j].op>> \in Follows
  <2>1. i \in 1 .. Len(q) /\ r[i] = q[i]
    BY <1>1, <1>2
  <2>2. CASE j \in 1 .. Len(q)
    BY <1>1, <1>2, <2>1, <2>2 DEF InOrder
  <2>3. CASE j = Len(q) + 1
    <3>1. Has(q, r[i].op, t.c)
      BY <1>1, <1>2, <2>1, <2>3 DEF Has
    <3>2. QED BY <1>1, <2>3, <3>1
  <2>4. j \in 1 .. Len(q) \/ j = Len(q) + 1
    BY <1>1
  <2>5. QED BY <2>2, <2>3, <2>4, Zenon
<1>3. QED BY <1>2 DEF InOrder

LEMMA LateTail ==
  ASSUME NEW q \in Seq(Task), q # <<>>, NEW cn, LateConnectsFail(q, cn)
  PROVE  /\ LateConnectsFail(Tail(q), cn)
         /\ Head(q).op = "release" /\ Has(Tail(q), "connect", Head(q).c)
              => cn[Head(q).c] = "dead"
<1> DEFINE r == Tail(q)
<1>1. /\ Len(q) \in Nat /\ Len(q) >= 1 /\ Len(r) = Len(q) - 1 /\ Head(q) = q[1]
      /\ \A i \in 1 .. Len(r) : r[i] = q[i + 1]
  BY RestOf
<1> HIDE DEF r
<1>2. \A i \in 1 .. Len(r) : i + 1 \in 1 .. Len(q) /\ i + 1 > 1 /\ r[i] = q[i + 1]
  BY <1>1
<1>3. ASSUME NEW i \in 1 .. Len(r), NEW j \in 1 .. Len(r), i < j, r[i].c = r[j].c,
             r[i].op = "release", r[j].op = "connect"
      PROVE  cn[r[j].c] = "dead"
  <2>1. /\ i + 1 \in 1 .. Len(q) /\ j + 1 \in 1 .. Len(q) /\ i + 1 < j + 1
        /\ r[i] = q[i + 1] /\ r[j] = q[j + 1]
    BY <1>1, <1>2, <1>3
  <2>2. QED BY <1>3, <2>1 DEF LateConnectsFail
<1>4. ASSUME Head(q).op = "release", Has(r, "connect", Head(q).c)
      PROVE  cn[Head(q).c] = "dead"
  <2>1. PICK i \in 1 .. Len(r) : r[i].op = "connect" /\ r[i].c = Head(q).c
    BY <1>4 DEF Has
  <2>2. /\ 1 \in 1 .. Len(q) /\ i + 1 \in 1 .. Len(q) /\ 1 < i + 1
        /\ q[1].c = q[i + 1].c /\ q[i + 1].op = "connect" /\ q[1].op = "release"
    BY <1>1, <1>2, <1>4, <2>1
  <2>3. cn[q[i + 1].c] = "dead"
    BY <2>2 DEF LateConnectsFail
  <2>4. QED BY <1>1, <2>2, <2>3
<1>5. QED BY <1>3, <1>4 DEF LateConnectsFail, r

LEMMA LateAppend ==
  ASSUME NEW q \in Seq(Task), NEW t \in Task, NEW r, r = Append(q, t),
         NEW cn, LateConnectsFail(q, cn),
         t.op = "connect" /\ Has(q, "release", t.c) => cn[t.c] = "dead"
  PROVE  LateConnectsFail(r, cn)
<1>1. /\ Len(q) \in Nat /\ Len(r) = Len(q) + 1 /\ r[Len(q) + 1] = t
      /\ \A i \in 1 .. Len(q) : r[i] = q[i]
  BY PostedTo
<1>2. ASSUME NEW i \in 1 .. Len(r), NEW j \in 1 .. Len(r), i < j, r[i].c = r[j].c,
             r[i].op = "release", r[j].op = "connect"
      PROVE  cn[r[j].c] = "dead"
  <2>1. i \in 1 .. Len(q) /\ r[i] = q[i]
    BY <1>1, <1>2
  <2>2. CASE j \in 1 .. Len(q)
    BY <1>1, <1>2, <2>1, <2>2 DEF LateConnectsFail
  <2>3. CASE j = Len(q) + 1
    <3>1. Has(q, "release", t.c)
      BY <1>1, <1>2, <2>1, <2>3 DEF Has
    <3>2. QED BY <1>1, <1>2, <2>3, <3>1
  <2>4. QED BY <1>1, <2>2, <2>3
<1>3. QED BY <1>2 DEF LateConnectsFail

\* a dead connection stays dead
LEMMA LateMore ==
  ASSUME NEW q, NEW cn, NEW cm, LateConnectsFail(q, cn),
         \A i \in 1 .. Len(q) : cn[q[i].c] = "dead" => cm[q[i].c] = "dead"
  PROVE  LateConnectsFail(q, cm)
BY DEF LateConnectsFail

-----------------------------------------------------------------------------
(* The stages of a connection under what the actions do to it.             *)

\* a task is taken from the queue
LEMMA SessionRest ==
  ASSUME NEW q \in Seq(Task), q # <<>>, NEW cn, NEW ti, NEW pl, NEW re,
         Session(cn, q, ti, pl, re)
  PROVE  Session(cn, Tail(q), ti, pl, re)
<1>1. InOrder(Tail(q))
  BY OrderTail DEF Session
<1>2. \A op, c : Has(Tail(q), op, c) => Has(q, op, c)
  BY HasTail
<1>3. ASSUME NEW c \in Conns PROVE Stage(c, cn, Tail(q), ti, pl, re)
  <2>1. Stage(c, cn, q, ti, pl, re)
    BY DEF Session, Stages
  <2>2. Waiting(c, Tail(q), ti) => Waiting(c, q, ti)
    BY <1>2 DEF Waiting
  <2>3. QED BY <1>2, <2>1, <2>2 DEF Stage
<1>4. QED BY <1>1, <1>3 DEF Session, Stages

\* what the first task in the queue says of its connection
LEMMA LoginStage ==
  ASSUME NEW q \in Seq(Task), q # <<>>, NEW cn, NEW ti, NEW pl, NEW re,
         Session(cn, q, ti, pl, re), Head(q).op \in {"login", "connect"},
         NEW c, c = Head(q).c
  PROVE  /\ c \in Conns /\ cn[c] # "new" /\ pl[c] = None
         /\ ~Waiting(c, Tail(q), ti)
         /\ ~Has(Tail(q), "logout", c)
         /\ Head(q).op = "login" => c \notin re
<1>1. Head(q) \in Task /\ c \in Conns
  BY RestOf, TaskFacts
<1>2. Stage(c, cn, q, ti, pl, re)
  BY <1>1 DEF Session, Stages
<1>3. Has(q, Head(q).op, c)
  BY HasTail
<1>4. \A op : Has(Tail(q), op, c) => op = "release"
  BY OrderTail DEF Session, Follows
<1>5. Waiting(c, q, ti)
  BY <1>3 DEF Waiting
<1>6. \A o \in Objects : <<c, o>> \notin ti
  BY <1>2, <1>3 DEF Stage
<1>7. ~Waiting(c, Tail(q), ti)
  BY <1>4, <1>6 DEF Waiting
<1>8. cn[c] # "new" /\ pl[c] = None /\ (Head(q).op = "login" => c \notin re)
  BY <1>2, <1>3, <1>5 DEF Stage
<1>9. QED BY <1>1, <1>4, <1>7, <1>8

\* a connection that is not waiting gets a player, or one loses its player
LEMMA SessionPlayer ==
  ASSUME NEW q, NEW cn, NEW ti, NEW pl, NEW re, Session(cn, q, ti, pl, re),
         NEW c \in Conns, NEW o, o = None \/ (~Waiting(c, q, ti) /\ cn[c] # "new"),
         pl \in [Conns -> Objects \cup {None}]
  PROVE  Session(cn, q, ti, [pl EXCEPT ![c] = o], re)
<1> DEFINE pm == [pl EXCEPT ![c] = o]
<1>1. pm[c] = o /\ \A d \in Conns \ {c} : pm[d] = pl[d]
  OBVIOUS
<1> HIDE DEF pm
<1>2. ASSUME NEW d \in Conns PROVE Stage(d, cn, q, ti, pm, re)
  <2>1. Stage(d, cn, q, ti, pl, re)
    BY DEF Session, Stages
  <2>2. pm[d] = pl[d] \/ pm[d] = None \/ (~Waiting(d, q, ti) /\ cn[d] # "new")
    BY <1>1
  <2>3. QED BY <2>1, <2>2 DEF Stage
<1>3. QED BY <1>2 DEF Session, Stages, pm

\* a login delayed to a timer
LEMMA SessionTimer ==
  ASSUME NEW q, NEW cn, NEW ti, NEW pl, NEW re, Session(cn, q, ti, pl, re),
         NEW c \in Conns, NEW o \in Objects,
         ~Waiting(c, q, ti), cn[c] # "new", pl[c] = None, ~Has(q, "logout", c)
  PROVE  Session(cn, q, ti \cup {<<c, o>>}, pl, re)
<1> DEFINE tj == ti \cup {<<c, o>>}
<1>1. \A d \in Conns, x \in Objects :
        <<d, x>> \in tj <=> <<d, x>> \in ti \/ (d = c /\ x = o)
  OBVIOUS
<1> HIDE DEF tj
<1>2. ASSUME NEW d \in Conns PROVE Stage(d, cn, q, tj, pl, re)
  <2>1. Stage(d, cn, q, ti, pl, re)
    BY DEF Session, Stages
  <2>2. CASE d # c
    <3>1. \A x \in Objects : <<d, x>> \in tj <=> <<d, x>> \in ti
      BY <1>1, <2>2
    <3>2. Waiting(d, q, tj) <=> Waiting(d, q, ti)
      BY <3>1 DEF Waiting
    <3>3. QED BY <2>1, <3>1, <3>2 DEF Stage
  <2>3. CASE d = c
    <3>1. \A x \in Objects : <<c, x>> \in tj <=> x = o
      BY <1>1 DEF Waiting
    <3>2. ~Has(q, "login", c) /\ ~Has(q, "connect", c)
      BY DEF Waiting
    <3>3. QED BY <2>1, <2>3, <3>1, <3>2 DEF Stage
  <2>4. QED BY <2>2, <2>3
<1>3. QED BY <1>2 DEF Session, Stages, tj

\* a connection closes for the first time, and posts release or not
LEMMA SessionClose ==
  ASSUME NEW q \in Seq(Task), NEW cn \in [Conns -> {"new", "open", "closed", "dead"}],
         NEW ti, NEW pl, NEW re, Session(cn, q, ti, pl, re),
         NEW c \in Conns, cn[c] \in {"new", "open"},
         NEW r, r = q \/ r = Append(q, ReleaseTask(c))
  PROVE  Session([cn EXCEPT ![c] = "closed"], r, ti, pl, re)
<1> DEFINE cm == [cn EXCEPT ![c] = "closed"]
<1>1. cm[c] = "closed" /\ \A d \in Conns \ {c} : cm[d] = cn[d]
  OBVIOUS
<1> HIDE DEF cm
<1>2. ReleaseTask(c) \in Task /\ ReleaseTask(c).op = "release" /\ ReleaseTask(c).c = c
  BY PostedTasks, ReleaseTaskFacts
<1>3. Stage(c, cn, q, ti, pl, re) /\ ~Has(q, "release", c) /\ c \notin re
  BY DEF Session, Stages, Stage, Gone
<1>4. \A op : Has(q, op, c) => op \in {"login", "logout", "connect"}
  <2>1. ASSUME NEW op, Has(q, op, c) PROVE op \in {"login", "logout", "connect"}
    <3>1. PICK i \in 1 .. Len(q) : q[i].op = op
      BY <2>1 DEF Has
    <3>2. q[i] \in Task
      BY ElementOfSeq
    <3>3. op \in {"login", "release", "logout", "connect"}
      BY <3>1, <3>2, TaskFacts
    <3>4. QED BY <1>3, <2>1, <3>3
  <2>2. QED BY <2>1
<1>5. \A op, d : Has(r, op, d) => Has(q, op, d) \/ (op = "release" /\ d = c)
  <2>1. CASE r = q
    BY <2>1
  <2>2. CASE r = Append(q, ReleaseTask(c))
    <3> DEFINE t == ReleaseTask(c)
    <3>1. t \in Task /\ t.op = "release" /\ t.c = c /\ r = Append(q, t)
      BY <1>2, <2>2
    <3> HIDE DEF t
    <3>2. \A op, d : Has(r, op, d) <=> Has(q, op, d) \/ (t.op = op /\ t.c = d)
      BY <3>1, HasAppend
    <3>3. QED BY <3>1, <3>2
  <2>3. QED BY <2>1, <2>2
<1>6. InOrder(r)
  <2>1. CASE r = q
    BY <2>1 DEF Session
  <2>2. CASE r = Append(q, ReleaseTask(c))
    <3>1. \A op : Has(q, op, ReleaseTask(c).c) => <<op, ReleaseTask(c).op>> \in Follows
      BY <1>2, <1>4 DEF Follows
    <3>2. QED BY <1>2, <2>2, <3>1, OrderAppend DEF Session
  <2>3. QED BY <2>1, <2>2
<1>7. ASSUME NEW d \in Conns PROVE Stage(d, cm, r, ti, pl, re)
  <2>1. Stage(d, cn, q, ti, pl, re)
    BY DEF Session, Stages
  <2>0. /\ Has(r, "login", d) => Has(q, "login", d)
        /\ Has(r, "connect", d) => Has(q, "connect", d)
        /\ Has(r, "logout", d) => Has(q, "logout", d)
        /\ Has(r, "release", d) => Has(q, "release", d) \/ d = c
    BY ONLY <1>5
  <2>2. Waiting(d, r, ti) => Waiting(d, q, ti)
    BY <2>0 DEF Waiting
  <2>3. CASE d # c
    <3>1. cm[d] = cn[d]
      BY <1>1, <2>3
    <3>2. QED BY <2>1, <2>0, <2>2, <2>3, <3>1 DEF Stage, Gone
  <2>4. CASE d = c
    BY <1>1, <1>3, <2>1, <2>0, <2>2, <2>4 DEF Stage, Gone
  <2>5. QED BY <2>3, <2>4
<1>8. QED BY <1>6, <1>7 DEF Session, Stages, cm

\* a connection goes on from new to open, or from closed to dead
LEMMA SessionMoves ==
  ASSUME NEW q, NEW cn \in [Conns -> {"new", "open", "closed", "dead"}],
         NEW ti, NEW pl, NEW re, Session(cn, q, ti, pl, re),
         NEW c \in Conns, NEW s,
         \/ cn[c] = "new" /\ s = "open"
         \/ cn[c] = "closed" /\ s = "dead"
  PROVE  Session([cn EXCEPT ![c] = s], q, ti, pl, re)
<1> DEFINE cm == [cn EXCEPT ![c] = s]
<1>1. cm[c] = s /\ \A d \in Conns \ {c} : cm[d] = cn[d]
  OBVIOUS
<1> HIDE DEF cm
<1>2. ASSUME NEW d \in Conns PROVE Stage(d, cm, q, ti, pl, re)
  <2>1. Stage(d, cn, q, ti, pl, re)
    BY DEF Session, Stages
  <2>2. CASE d # c
    <3>1. cm[d] = cn[d]
      BY <1>1, <2>2
    <3>2. QED BY <2>1, <3>1 DEF Stage, Gone
  <2>3. CASE d = c
    BY <1>1, <2>1, <2>3 DEF Stage, Gone
  <2>4. QED BY <2>2, <2>3
<1>3. QED BY <1>2 DEF Session, Stages, cm

\* a task is posted for a connection that may expect it
LEMMA SessionPost ==
  ASSUME NEW q \in Seq(Task), NEW cn, NEW ti, NEW pl, NEW re,
         Session(cn, q, ti, pl, re),
         NEW t \in Task, NEW c \in Conns, t.c = c, NEW r, r = Append(q, t),
         cn[c] # "new", ~Waiting(c, q, ti), ~Has(q, "logout", c),
         \/ t.op = "login" /\ c \notin re /\ pl[c] = None /\ ~Has(q, "release", c)
         \/ t.op = "connect" /\ pl[c] = None
         \/ t.op = "logout" /\ ~Has(q, "release", c)
  PROVE  Session(cn, r, ti, pl, re)
<1>1. \A op, d : Has(r, op, d) => Has(q, op, d) \/ (op = t.op /\ d = c)
  BY HasAppend
<1>2. \A op : Has(q, op, c) => op = "release"
  <2>1. ASSUME NEW op, Has(q, op, c) PROVE op = "release"
    <3>1. PICK i \in 1 .. Len(q) : q[i].op = op
      BY <2>1 DEF Has
    <3>2. q[i] \in Task
      BY ElementOfSeq
    <3>3. op \in {"login", "release", "logout", "connect"}
      BY <3>1, <3>2, TaskFacts
    <3>4. QED BY <2>1, <3>3 DEF Waiting
  <2>2. QED BY <2>1
<1>3. InOrder(r)
  <2>1. \A op : Has(q, op, t.c) => <<op, t.op>> \in Follows
    BY <1>2 DEF Follows
  <2>2. QED BY <2>1, OrderAppend DEF Session
<1>4. ASSUME NEW d \in Conns PROVE Stage(d, cn, r, ti, pl, re)
  <2>1. Stage(d, cn, q, ti, pl, re)
    BY DEF Session, Stages
  <2>2. CASE d # c
    <3>1. \A op : Has(r, op, d) => Has(q, op, d)
      BY <1>1, <2>2
    <3>2. Waiting(d, r, ti) => Waiting(d, q, ti)
      BY <3>1 DEF Waiting
    <3>3. QED BY <2>1, <3>1, <3>2 DEF Stage
  <2>3. CASE d = c
    <3>1. \A x \in Objects : <<c, x>> \notin ti
      BY DEF Waiting
    <3>2. Has(r, "release", c) => Has(q, "release", c)
      BY <1>1, <1>2
    <3>3. \A op : Has(r, op, c) => op \in {"release", t.op}
      BY <1>1, <1>2
    <3>4. /\ Has(r, "logout", c) => t.op = "logout"
          /\ Has(r, "login", c) => t.op = "login"
          /\ Has(r, "connect", c) => t.op = "connect"
      BY <3>3
    <3>5. Waiting(c, r, ti) => t.op # "logout"
      BY <3>1, <3>4 DEF Waiting
    <3>6. QED BY <2>1, <2>3, <3>1, <3>2, <3>4, <3>5 DEF Stage
  <2>4. QED BY <2>2, <2>3
<1>5. QED BY <1>3, <1>4 DEF Session, Stages

\* release() runs
LEMMA SessionReleased ==
  ASSUME NEW q \in Seq(Task), q # <<>>, NEW cn, NEW ti, NEW pl, NEW re,
         Session(cn, q, ti, pl, re), Head(q).op = "release",
         NEW c, c = Head(q).c
  PROVE  Session(cn, Tail(q), ti, pl, re \cup {c})
<1>1. c \in Conns /\ Has(q, "release", c)
  BY RestOf, TaskFacts, HasTail
<1>2. \A op : Has(Tail(q), op, c) => op = "connect"
  BY OrderTail DEF Session, Follows
<1>3. Gone(c, cn)
  BY <1>1 DEF Session, Stages, Stage
<1>4. Session(cn, Tail(q), ti, pl, re)
  BY SessionRest
<1>5. ASSUME NEW d \in Conns PROVE Stage(d, cn, Tail(q), ti, pl, re \cup {c})
  <2>1. Stage(d, cn, Tail(q), ti, pl, re)
    BY <1>4 DEF Session, Stages
  <2>2. CASE d # c
    BY <2>1, <2>2 DEF Stage
  <2>3. CASE d = c
    BY <1>2, <1>3, <2>1, <2>3 DEF Stage, Gone
  <2>4. QED BY <2>2, <2>3
<1>6. QED BY <1>4, <1>5 DEF Session, Stages

\* a timer is gone
LEMMA SessionLessTimers ==
  ASSUME NEW q, NEW cn, NEW ti, NEW pl, NEW re, Session(cn, q, ti, pl, re),
         NEW c \in Conns, NEW o \in Objects, <<c, o>> \in ti,
         NEW tj, tj = ti \ {<<c, o>>}
  PROVE  /\ Session(cn, q, tj, pl, re) /\ ~Waiting(c, q, tj)
         /\ pl[c] = None /\ ~Has(q, "logout", c) /\ cn[c] # "new"
<1>1. \A d \in Conns, x \in Objects : <<d, x>> \in tj => <<d, x>> \in ti
  OBVIOUS
<1>2. \A x \in Objects : <<c, x>> \in tj => x # o
  OBVIOUS
<1>3. ASSUME NEW d \in Conns PROVE Stage(d, cn, q, tj, pl, re)
  <2>1. Stage(d, cn, q, ti, pl, re)
    BY DEF Session, Stages
  <2>2. Waiting(d, q, tj) => Waiting(d, q, ti)
    BY <1>1 DEF Waiting
  <2>3. QED BY <1>1, <2>1, <2>2 DEF Stage
<1>4. Stage(c, cn, q, ti, pl, re) /\ Waiting(c, q, ti)
  BY DEF Session, Stages, Waiting
<1>5. \A x \in Objects : <<c, x>> \notin tj
  BY <1>1, <1>2, <1>4 DEF Stage
<1>6. ~Waiting(c, q, tj)
  BY <1>4, <1>5 DEF Waiting, Stage
<1>7. pl[c] = None /\ ~Has(q, "logout", c) /\ cn[c] # "new"
  BY <1>4 DEF Stage
<1>8. QED BY <1>3, <1>6, <1>7 DEF Session, Stages

-----------------------------------------------------------------------------
(* Connection::close, and what is closed in a packet that is parsed.       *)

Closes(c, q) ==
  \/ /\ conn[c] \in {"new", "open"}
     /\ conn' = [conn EXCEPT ![c] = "closed"]
     /\ tasks' = Post(q, ReleaseTask(c))
  \/ conn[c] \notin {"new", "open"} /\ conn' = conn /\ tasks' = q

LEMMA CloseCloses ==
  ASSUME NEW c, NEW q, Close(c, q)
  PROVE  Closes(c, q) /\ parsing[c] = None
BY DEF Close, Closes, CanClose

LEMMA ClosesFacts ==
  ASSUME QueueTypes, NEW q \in Seq(Task), NEW c \in Conns, Closes(c, q)
  PROVE  /\ conn' \in [Conns -> {"new", "open", "closed", "dead"}]
         /\ tasks' \in Seq(Task) /\ Gone(c, conn')
         /\ \A d \in Conns \ {c} : conn'[d] = conn[d]
         /\ \A d \in Conns : conn[d] = "dead" => conn'[d] = "dead"
         /\ \A op, d : Has(q, op, d) => Has(tasks', op, d)
         /\ \A op, d : Has(tasks', op, d) => Has(q, op, d) \/ (op = "release" /\ d = c)
         /\ conn[c] \in {"new", "open"} /\ gameState # "shutdown"
              => Has(tasks', "release", c)
<1>1. conn \in [Conns -> {"new", "open", "closed", "dead"}]
  BY DEF QueueTypes
<1>2. CASE conn[c] \notin {"new", "open"} /\ conn' = conn /\ tasks' = q
  BY <1>1, <1>2 DEF Gone
<1>3. CASE /\ conn[c] \in {"new", "open"}
           /\ conn' = [conn EXCEPT ![c] = "closed"]
           /\ tasks' = Post(q, ReleaseTask(c))
  <2>1. /\ conn' \in [Conns -> {"new", "open", "closed", "dead"}] /\ conn'[c] = "closed"
        /\ \A d \in Conns \ {c} : conn'[d] = conn[d]
    BY <1>1, <1>3
  <2>2. /\ ReleaseTask(c) \in Task /\ ReleaseTask(c).op = "release"
        /\ ReleaseTask(c).c = c
    BY PostedTasks, ReleaseTaskFacts
  <2>3. CASE gameState = "shutdown"
    <3>1. tasks' = q
      BY <1>3, <2>3 DEF Post
    <3>2. QED BY <1>3, <2>1, <2>3, <3>1 DEF Gone
  <2>4. CASE gameState # "shutdown"
    <3>1. tasks' = Append(q, ReleaseTask(c))
      BY <1>3, <2>4 DEF Post
    <3>2. tasks' \in Seq(Task)
      BY <2>2, <3>1, PostedTo
    <3>3. \A op, d : Has(tasks', op, d) <=> Has(q, op, d) \/ (op = "release" /\ d = c)
      <4> DEFINE t == ReleaseTask(c)
      <4>1. t \in Task /\ t.op = "release" /\ t.c = c /\ tasks' = Append(q, t)
        BY <2>2, <3>1
      <4> HIDE DEF t
      <4>2. ASSUME NEW op, NEW d
            PROVE  Has(tasks', op, d) <=> Has(q, op, d) \/ (t.op = op /\ t.c = d)
        BY <4>1, HasAppend
      <4>3. QED BY <4>1, <4>2
    <3>4. QED BY <1>3, <2>1, <3>2, <3>3 DEF Gone
  <2>5. QED BY <2>3, <2>4
<1>4. QED BY <1>2, <1>3 DEF Closes

LEMMA ClosesSession ==
  ASSUME QueueTypes, NEW q \in Seq(Task), NEW c \in Conns, Closes(c, q),
         NEW ti, NEW pl, NEW re, Session(conn, q, ti, pl, re)
  PROVE  Session(conn', tasks', ti, pl, re)
<1>1. CASE conn[c] \notin {"new", "open"} /\ conn' = conn /\ tasks' = q
  BY <1>1
<1>2. CASE /\ conn[c] \in {"new", "open"}
           /\ conn' = [conn EXCEPT ![c] = "closed"]
           /\ tasks' = Post(q, ReleaseTask(c))
  <2>1. tasks' = q \/ tasks' = Append(q, ReleaseTask(c))
    BY <1>2 DEF Post
  <2>2. QED BY <1>2, <2>1, SessionClose DEF QueueTypes
<1>3. QED BY <1>1, <1>2 DEF Closes

LEMMA ClosesLate ==
  ASSUME QueueTypes, NEW q \in Seq(Task), NEW c \in Conns, Closes(c, q),
         LateConnectsFail(q, conn)
  PROVE  LateConnectsFail(tasks', conn')
<1>1. \A d \in Conns : conn[d] = "dead" => conn'[d] = "dead"
  BY ClosesFacts
<1>2. \A i \in 1 .. Len(q) : q[i].c \in Conns
  BY ElementOfSeq, TaskFacts
<1>3. LateConnectsFail(q, conn')
  BY <1>1, <1>2, LateMore
<1>4. ReleaseTask(c) \in Task /\ ReleaseTask(c).op = "release"
  BY PostedTasks, ReleaseTaskFacts
<1>5. tasks' = q \/ tasks' = Append(q, ReleaseTask(c))
  BY DEF Closes, Post
<1>6. QED BY <1>3, <1>4, <1>5, LateAppend

-----------------------------------------------------------------------------
(* The steps that leave the Player objects as they are.                    *)

LEMMA ObjectsKept ==
  ASSUME PlayerInv, UNCHANGED <<protocolVars, playerVars>>
  PROVE  ObjectTypes' /\ Pointed' /\ Counted'
<1>1. UNCHANGED <<player, acceptPackets, released, client, refs, online, toRelease,
                  created, deleted, connecting>>
  BY DEF protocolVars, playerVars
<1>2. ObjectTypes'
  BY <1>1 DEF PlayerInv, ObjectTypes
<1>3. Pointed' /\ Counted'
  BY <1>1 DEF PlayerInv, Pointed, Counted
<1>4. QED BY <1>2, <1>3

\* nothing happens to a connection or its player while its packet is parsed
LEMMA StillParsed ==
  ASSUME Parsed,
         \A c \in Conns : parsing'[c] # None =>
           /\ parsing'[c] = parsing[c]
           /\ conn'[c] = conn[c] /\ player'[c] = player[c]
  PROVE  Parsed'
BY DEF Parsed

LEMMA FirstMessageStep ==
  ASSUME GameInv, NEW c \in Conns, FirstMessage(c)
  PROVE  GameInv'
<1>1. /\ QueueTypes /\ PlayerInv /\ Parsed /\ Once /\ conn[c] = "new"
      /\ tasks \in Seq(Task)
      /\ Session(conn, tasks, timers, player, released)
      /\ conn \in [Conns -> {"new", "open", "closed", "dead"}]
  BY DEF GameInv, PlayerInv, SessionInv, QueueTypes, FirstMessage
<1>2. /\ UNCHANGED <<timers, parsing, gameState, autosend, chains>>
      /\ UNCHANGED <<protocolVars, playerVars>>
      /\ player' = player /\ released' = released /\ online' = online
  BY DEF FirstMessage, protocolVars, playerVars, outputVars
<1>3. ObjectTypes' /\ Pointed' /\ Counted' /\ Once'
  BY <1>1, <1>2, ObjectsKept DEF Once
<1>4. parsing[c] = None
  BY <1>1 DEF Parsed
<1>5. CASE /\ conn' = [conn EXCEPT ![c] = "open"]
           /\ tasks' = Append(tasks, [op |-> "login", c |-> c])
  <2> DEFINE t == [op |-> "login", c |-> c]
  <2>1. t \in Task /\ t.op = "login" /\ t.c = c
    BY PostedTasks
  <2> HIDE DEF t
  <2>2. /\ conn' \in [Conns -> {"new", "open", "closed", "dead"}] /\ conn'[c] = "open"
        /\ \A d \in Conns \ {c} : conn'[d] = conn[d]
    BY <1>1, <1>5
  <2>3. tasks' = Append(tasks, t) /\ tasks' \in Seq(Task)
    BY <1>1, <1>5, <2>1, PostedTo DEF t
  <2>4. Session(conn', tasks, timers, player, released)
    BY <1>1, <1>5, SessionMoves
  <2>5. /\ ~Waiting(c, tasks, timers) /\ player[c] = None /\ c \notin released
        /\ ~Has(tasks, "logout", c) /\ ~Has(tasks, "release", c)
    BY <1>1 DEF Session, Stages, Stage
  <2>6. Session(conn', tasks', timers, player, released)
    BY <1>1, <2>1, <2>2, <2>3, <2>4, <2>5, SessionPost
  <2>7. QueueTypes'
    BY <1>1, <1>2, <2>2, <2>3 DEF QueueTypes
  <2>8. Parsed'
    BY <1>1, <1>2, <1>4, <2>2, StillParsed
  <2>9. QED BY <1>2, <1>3, <2>6, <2>7, <2>8 DEF GameInv, PlayerInv, SessionInv
<1>6. CASE Close(c, tasks)
  <2>1. Closes(c, tasks)
    BY <1>6, CloseCloses
  <2>2. /\ conn' \in [Conns -> {"new", "open", "closed", "dead"}]
        /\ tasks' \in Seq(Task)
        /\ \A d \in Conns \ {c} : conn'[d] = conn[d]
    BY <1>1, <2>1, ClosesFacts
  <2>3. Session(conn', tasks', timers, player, released)
    BY <1>1, <2>1, ClosesSession
  <2>4. QueueTypes'
    BY <1>1, <1>2, <2>2 DEF QueueTypes
  <2>5. Parsed'
    BY <1>1, <1>2, <1>4, <2>2, StillParsed
  <2>6. QED BY <1>2, <1>3, <2>3, <2>4, <2>5 DEF GameInv, PlayerInv, SessionInv
<1>7. QED BY <1>5, <1>6 DEF FirstMessage

LEMMA NetworkCloseStep ==
  ASSUME GameInv, NEW c \in Conns, NetworkClose(c)
  PROVE  GameInv'
<1>1. /\ QueueTypes /\ PlayerInv /\ Parsed /\ Once /\ tasks \in Seq(Task)
      /\ Session(conn, tasks, timers, player, released)
      /\ Closes(c, tasks) /\ parsing[c] = None
  BY CloseCloses DEF GameInv, PlayerInv, SessionInv, QueueTypes, NetworkClose
<1>2. /\ UNCHANGED <<timers, parsing, gameState, autosend, chains>>
      /\ UNCHANGED <<protocolVars, playerVars>>
      /\ player' = player /\ released' = released /\ online' = online
  BY DEF NetworkClose, protocolVars, playerVars, outputVars
<1>3. ObjectTypes' /\ Pointed' /\ Counted' /\ Once'
  BY <1>1, <1>2, ObjectsKept DEF Once
<1>4. /\ conn' \in [Conns -> {"new", "open", "closed", "dead"}]
      /\ tasks' \in Seq(Task)
      /\ \A d \in Conns \ {c} : conn'[d] = conn[d]
  BY <1>1, ClosesFacts
<1>5. Session(conn', tasks', timers, player, released)
  BY <1>1, ClosesSession
<1>6. QueueTypes'
  BY <1>1, <1>2, <1>4 DEF QueueTypes
<1>7. Parsed'
  BY <1>1, <1>2, <1>4, StillParsed
<1>8. QED BY <1>2, <1>3, <1>5, <1>6, <1>7 DEF GameInv, PlayerInv, SessionInv

LEMMA DestroyStep ==
  ASSUME GameInv, NEW c \in Conns, Destroy(c)
  PROVE  GameInv'
<1>1. /\ QueueTypes /\ PlayerInv /\ Parsed /\ Once /\ conn[c] = "closed"
      /\ conn \in [Conns -> {"new", "open", "closed", "dead"}]
      /\ Session(conn, tasks, timers, player, released)
  BY DEF GameInv, PlayerInv, SessionInv, QueueTypes, Destroy
<1>2. /\ UNCHANGED <<tasks, timers, parsing, gameState, autosend, chains>>
      /\ UNCHANGED <<protocolVars, playerVars>>
      /\ player' = player /\ released' = released /\ online' = online
      /\ conn' = [conn EXCEPT ![c] = "dead"]
  BY DEF Destroy, protocolVars, playerVars, outputVars
<1>3. ObjectTypes' /\ Pointed' /\ Counted' /\ Once'
  BY <1>1, <1>2, ObjectsKept DEF Once
<1>4. /\ conn' \in [Conns -> {"new", "open", "closed", "dead"}]
      /\ \A d \in Conns \ {c} : conn'[d] = conn[d]
  BY <1>1, <1>2
<1>5. Session(conn', tasks, timers, player, released)
  BY <1>1, <1>2, SessionMoves
<1>6. QueueTypes'
  BY <1>1, <1>2, <1>4 DEF QueueTypes
<1>7. parsing[c] = None
  BY <1>1 DEF Parsed
<1>8. Parsed'
  BY <1>1, <1>2, <1>4, <1>7, StillParsed
<1>9. QED BY <1>2, <1>3, <1>5, <1>6, <1>8 DEF GameInv, PlayerInv, SessionInv

LEMMA BeginParseStep ==
  ASSUME GameInv, NEW c \in Conns, BeginParse(c)
  PROVE  GameInv'
<1>1. /\ QueueTypes /\ PlayerInv /\ Parsed /\ Once /\ conn[c] = "open"
      /\ player \in [Conns -> Objects \cup {None}]
      /\ Session(conn, tasks, timers, player, released)
  BY DEF GameInv, PlayerInv, SessionInv, ObjectTypes, BeginParse
<1>2. /\ UNCHANGED <<conn, tasks, timers, gameState, autosend, chains>>
      /\ UNCHANGED <<protocolVars, playerVars>>
      /\ player' = player /\ released' = released /\ online' = online
      /\ parsing' = [parsing EXCEPT ![c] = player[c]]
  BY DEF BeginParse, protocolVars, playerVars, outputVars
<1>3. ObjectTypes' /\ Pointed' /\ Counted' /\ Once'
  BY <1>1, <1>2, ObjectsKept DEF Once
<1>4. QueueTypes' /\ Parsed'
  BY <1>1, <1>2 DEF QueueTypes, Parsed
<1>5. QED BY <1>1, <1>2, <1>3, <1>4 DEF GameInv, PlayerInv, SessionInv

\* ToSet of the code and the tasks of a connection
LEMMA HasTask ==
  ASSUME NEW q \in Seq(Task), NEW c \in Conns
  PROVE  /\ ReleaseTask(c) \in ToSet(q) <=> Has(q, "release", c)
         /\ [op |-> "logout", c |-> c] \in ToSet(q) <=> Has(q, "logout", c)
         /\ [op |-> "login", c |-> c] \in ToSet(q) <=> Has(q, "login", c)
         /\ Has(q, "connect", c) =>
              \E o \in Objects : [op |-> "connect", c |-> c, o |-> o] \in ToSet(q)
<1>1. DOMAIN q = 1 .. Len(q) /\ \A i \in 1 .. Len(q) : q[i] \in Task
  BY LenProperties, ElementOfSeq
<1>2. ASSUME NEW i \in 1 .. Len(q), q[i].c = c
      PROVE  /\ q[i].op = "release" => q[i] = ReleaseTask(c)
             /\ q[i].op = "logout" => q[i] = [op |-> "logout", c |-> c]
             /\ q[i].op = "login" => q[i] = [op |-> "login", c |-> c]
             /\ q[i].op = "connect" =>
                  \E o \in Objects : q[i] = [op |-> "connect", c |-> c, o |-> o]
  BY <1>1, <1>2 DEF Task, ReleaseTask
<1>3. \A t : t \in ToSet(q) <=> \E i \in 1 .. Len(q) : q[i] = t
  BY <1>1 DEF ToSet
<1>4. ReleaseTask(c) \in ToSet(q) <=> Has(q, "release", c)
  BY <1>2, <1>3, ReleaseTaskFacts DEF Has
<1>5. [op |-> "logout", c |-> c] \in ToSet(q) <=> Has(q, "logout", c)
  BY <1>2, <1>3 DEF Has
<1>6. [op |-> "login", c |-> c] \in ToSet(q) <=> Has(q, "login", c)
  BY <1>2, <1>3 DEF Has
<1>7. ASSUME Has(q, "connect", c)
      PROVE  \E o \in Objects : [op |-> "connect", c |-> c, o |-> o] \in ToSet(q)
  BY <1>2, <1>3, <1>7 DEF Has
<1>8. QED BY <1>4, <1>5, <1>6, <1>7

LEMMA EndParseStep ==
  ASSUME GameInv, NEW c \in Conns, EndParse(c)
  PROVE  GameInv'
<1>1. /\ QueueTypes /\ PlayerInv /\ Parsed /\ Once /\ tasks \in Seq(Task)
      /\ conn \in [Conns -> {"new", "open", "closed", "dead"}]
      /\ Session(conn, tasks, timers, player, released)
      /\ parsing \in [Conns -> Objects \cup {None}] /\ parsing[c] # None
  BY DEF GameInv, PlayerInv, SessionInv, QueueTypes, EndParse
<1>2. /\ UNCHANGED <<timers, gameState, autosend, chains>>
      /\ UNCHANGED <<protocolVars, playerVars>>
      /\ player' = player /\ released' = released /\ online' = online
      /\ parsing' = [parsing EXCEPT ![c] = None]
  BY DEF EndParse, protocolVars, playerVars, outputVars
<1>3. ObjectTypes' /\ Pointed' /\ Counted' /\ Once'
  BY <1>1, <1>2, ObjectsKept DEF Once
<1>4. parsing' \in [Conns -> Objects \cup {None}] /\ parsing'[c] = None
      /\ \A d \in Conns \ {c} : parsing'[d] = parsing[d]
  BY <1>1, <1>2
<1>5. conn[c] = "open" /\ player[c] # None
  BY <1>1 DEF Parsed
<1>6. Stage(c, conn, tasks, timers, player, released)
  BY <1>1 DEF Session, Stages
<1>7. SUFFICES /\ Session(conn', tasks', timers, player, released)
               /\ conn' \in [Conns -> {"new", "open", "closed", "dead"}]
               /\ tasks' \in Seq(Task)
               /\ \A d \in Conns \ {c} : conn'[d] = conn[d]
  <2>1. ASSUME conn' \in [Conns -> {"new", "open", "closed", "dead"}],
               tasks' \in Seq(Task)
        PROVE  QueueTypes'
    BY <1>1, <1>2, <1>4, <2>1 DEF QueueTypes
  <2>2. ASSUME \A d \in Conns \ {c} : conn'[d] = conn[d] PROVE Parsed'
    BY <1>1, <1>2, <1>4, <2>2, StillParsed
  <2>3. QED BY <1>2, <1>3, <2>1, <2>2 DEF GameInv, PlayerInv, SessionInv
<1>8. CASE UNCHANGED <<conn, tasks>>
  BY <1>1, <1>8
<1>9. CASE /\ ReleaseTask(c) \notin ToSet(tasks)
           /\ [op |-> "logout", c |-> c] \notin ToSet(tasks)
           /\ tasks' = Post(tasks, [op |-> "logout", c |-> c])
           /\ UNCHANGED conn
  <2>1. CASE gameState = "shutdown"
    BY <1>1, <1>9, <2>1 DEF Post
  <2>2. CASE gameState # "shutdown"
    <3> DEFINE t == [op |-> "logout", c |-> c]
    <3>1. t \in Task /\ t.op = "logout" /\ t.c = c
      BY PostedTasks
    <3>2. tasks' = Append(tasks, t)
      BY <1>9, <2>2 DEF Post
    <3>3. ~Has(tasks, "release", c) /\ ~Has(tasks, "logout", c)
      BY <1>1, <1>9, HasTask
    <3>4. ~Waiting(c, tasks, timers)
      BY <1>5, <1>6 DEF Stage
    <3> HIDE DEF t
    <3>5. Session(conn, tasks', timers, player, released)
      BY <1>1, <1>5, <3>1, <3>2, <3>3, <3>4, SessionPost
    <3>6. tasks' \in Seq(Task)
      BY <1>1, <3>1, <3>2, PostedTo
    <3>7. QED BY <1>1, <1>9, <3>5, <3>6
  <2>3. QED BY <2>1, <2>2
<1>10. CASE /\ conn' = [conn EXCEPT ![c] = "closed"]
            /\ tasks' = Post(tasks, ReleaseTask(c))
  <2>1. Closes(c, tasks)
    BY <1>5, <1>10 DEF Closes
  <2>2. QED BY <1>1, <2>1, ClosesFacts, ClosesSession
<1>11. QED BY <1>8, <1>9, <1>10 DEF EndParse

LEMMA TimerFiresStep ==
  ASSUME GameInv, NEW c \in Conns, NEW o \in Objects, TimerFires(c, o)
  PROVE  GameInv'
<1>1. /\ QueueTypes /\ PlayerInv /\ Parsed /\ Once /\ tasks \in Seq(Task)
      /\ Session(conn, tasks, timers, player, released)
      /\ <<c, o>> \in timers /\ timers \subseteq Conns \X Objects
  BY DEF GameInv, PlayerInv, SessionInv, QueueTypes, TimerFires
<1>2. /\ UNCHANGED <<conn, parsing, gameState, autosend, chains>>
      /\ UNCHANGED <<protocolVars, playerVars>>
      /\ player' = player /\ released' = released /\ online' = online
      /\ timers' = timers \ {<<c, o>>}
      /\ tasks' = Post(tasks, [op |-> "connect", c |-> c, o |-> o])
  BY DEF TimerFires, protocolVars, playerVars, outputVars
<1>3. ObjectTypes' /\ Pointed' /\ Counted' /\ Once'
  BY <1>1, <1>2, ObjectsKept DEF Once
<1>4. /\ Session(conn, tasks, timers', player, released)
      /\ ~Waiting(c, tasks, timers')
      /\ player[c] = None /\ ~Has(tasks, "logout", c) /\ conn[c] # "new"
  BY <1>1, <1>2, SessionLessTimers
<1>5. Session(conn, tasks', timers', player, released) /\ tasks' \in Seq(Task)
  <2>1. CASE gameState = "shutdown"
    BY <1>1, <1>2, <1>4, <2>1 DEF Post
  <2>2. CASE gameState # "shutdown"
    <3> DEFINE t == [op |-> "connect", c |-> c, o |-> o]
    <3>1. t \in Task /\ t.op = "connect" /\ t.c = c
      BY PostedTasks
    <3>2. tasks' = Append(tasks, t)
      BY <1>2, <2>2 DEF Post
    <3> HIDE DEF t
    <3>3. QED BY <1>1, <1>4, <3>1, <3>2, SessionPost, PostedTo
  <2>3. QED BY <2>1, <2>2
<1>6. timers' \subseteq Conns \X Objects
  BY <1>1, <1>2
<1>7. QueueTypes'
  BY <1>1, <1>2, <1>5, <1>6 DEF QueueTypes
<1>8. Parsed'
  BY <1>1, <1>2, StillParsed
<1>9. QED BY <1>2, <1>3, <1>5, <1>7, <1>8 DEF GameInv, PlayerInv, SessionInv

-----------------------------------------------------------------------------
(* The steps that take a player from the world.                            *)

LEMMA RemovedObjects ==
  ASSUME PlayerInv, NEW o, RemoveCreature(o),
         UNCHANGED <<protocolVars, client, refs, created, deleted, connecting>>
  PROVE  /\ ObjectTypes' /\ Pointed' /\ Counted'
         /\ online' = online \ {o}
         /\ player' = player /\ released' = released
<1>1. /\ UNCHANGED <<player, acceptPackets, released, client, refs, created, deleted,
                     connecting>>
      /\ online' = online \ {o}
      /\ toRelease' = IF o \in online THEN toRelease \cup {o} ELSE toRelease
  BY DEF RemoveCreature, protocolVars
<1>2. ObjectTypes'
  BY <1>1 DEF PlayerInv, ObjectTypes
<1>3. Pointed'
  BY <1>1 DEF PlayerInv, Pointed
<1>4. online' \cap toRelease' = {} /\ online' \cup toRelease' = online \cup toRelease
  BY <1>1 DEF PlayerInv, Counted
<1>5. Counted'
  BY <1>1, <1>4 DEF PlayerInv, Counted
<1>6. QED BY <1>1, <1>2, <1>3, <1>5

\* ProtocolGame::logout, with the tasks in q still to run
LEMMA LogoutStep ==
  ASSUME GameInv, NEW c \in Conns, NEW q \in Seq(Task),
         Session(conn, q, timers, player, released),
         Logout(c, q), UNCHANGED <<autosend, chains>>,
         gameState' \in {"normal", "closed", "shutdown"},
         gameState' = "closed" => gameState = "closed" \/ online \subseteq {player[c]}
  PROVE  GameInv'
<1>1. QueueTypes /\ PlayerInv /\ Parsed /\ Once
  BY DEF GameInv, PlayerInv
<1>2. /\ Closes(c, q) /\ parsing[c] = None /\ RemoveCreature(player[c])
      /\ UNCHANGED <<timers, parsing>>
      /\ UNCHANGED <<protocolVars, client, refs, created, deleted, connecting>>
  BY CloseCloses DEF Logout
<1>3. /\ ObjectTypes' /\ Pointed' /\ Counted' /\ online' = online \ {player[c]}
      /\ player' = player /\ released' = released
  BY <1>1, <1>2, RemovedObjects
<1>4. Once'
  BY <1>1, <1>3 DEF Once
<1>5. /\ conn' \in [Conns -> {"new", "open", "closed", "dead"}]
      /\ tasks' \in Seq(Task)
      /\ \A d \in Conns \ {c} : conn'[d] = conn[d]
  BY <1>1, <1>2, ClosesFacts
<1>6. Session(conn', tasks', timers, player, released)
  BY <1>1, <1>2, ClosesSession
<1>7. QueueTypes'
  BY <1>1, <1>2, <1>5 DEF QueueTypes
<1>8. Parsed'
  BY <1>1, <1>2, <1>3, <1>5, StillParsed
<1>9. QED BY <1>2, <1>3, <1>4, <1>6, <1>7, <1>8 DEF GameInv, PlayerInv, SessionInv

\* Player::kickPlayer, for one player or for everybody
LEMMA KickStep ==
  ASSUME GameInv, NEW o \in online, KickPlayer(o), UNCHANGED <<autosend, chains>>,
         gameState' \in {"normal", "closed", "shutdown"},
         gameState' = "closed" => gameState = "closed" \/ online \subseteq {o}
  PROVE  GameInv'
<1>1. /\ QueueTypes /\ PlayerInv /\ Parsed /\ Once /\ Pointed /\ o \in Objects
      /\ tasks \in Seq(Task) /\ client \in [Objects -> Conns \cup {None}]
      /\ Session(conn, tasks, timers, player, released)
  BY DEF GameInv, PlayerInv, SessionInv, QueueTypes, ObjectTypes
<1>2. CASE client[o] # None
  <2> DEFINE c == client[o]
  <2>1. c \in Conns /\ Logout(c, tasks)
    BY <1>1, <1>2 DEF KickPlayer
  <2>2. player[c] = o
    BY <1>1, <2>1 DEF Pointed
  <2> HIDE DEF c
  <2>3. QED BY <1>1, <2>1, <2>2, LogoutStep
<1>3. CASE client[o] = None
  <2>1. /\ RemoveCreature(o) /\ UNCHANGED <<conn, tasks, timers, parsing>>
        /\ UNCHANGED <<protocolVars, client, refs, created, deleted, connecting>>
    BY <1>3 DEF KickPlayer, protocolVars
  <2>2. /\ ObjectTypes' /\ Pointed' /\ Counted' /\ online' = online \ {o}
        /\ player' = player /\ released' = released
    BY <1>1, <2>1, RemovedObjects
  <2>3. QueueTypes' /\ Parsed'
    BY <1>1, <2>1, <2>2 DEF QueueTypes, Parsed
  <2>4. Once'
    BY <1>1, <2>2 DEF Once
  <2>5. QED BY <1>1, <2>1, <2>2, <2>3, <2>4 DEF GameInv, PlayerInv, SessionInv
<1>4. QED BY <1>2, <1>3

LEMMA SetGameStateStep ==
  ASSUME GameInv, NEW s \in {"normal", "closed", "shutdown"}, SetGameState(s)
  PROVE  GameInv'
<1>1. gameState' = s /\ UNCHANGED <<autosend, chains>>
  BY DEF SetGameState, outputVars
<1>2. CASE s = "normal" \/ Kicked = {}
  <2>1. /\ UNCHANGED <<conn, tasks, timers, parsing>>
        /\ UNCHANGED <<protocolVars, playerVars>>
        /\ player' = player /\ released' = released /\ online' = online
    BY <1>2 DEF SetGameState, protocolVars, playerVars
  <2>2. /\ QueueTypes /\ PlayerInv /\ Parsed /\ Once
        /\ Session(conn, tasks, timers, player, released)
    BY DEF GameInv, PlayerInv, SessionInv
  <2>3. ObjectTypes' /\ Pointed' /\ Counted'
    BY <2>1, <2>2, ObjectsKept
  <2>4. QueueTypes' /\ Parsed'
    BY <1>1, <2>1, <2>2 DEF QueueTypes, Parsed
  <2>5. Once'
    BY <1>1, <1>2, <2>1, <2>2 DEF Once, Kicked
  <2>6. QED BY <2>1, <2>2, <2>3, <2>4, <2>5 DEF GameInv, PlayerInv, SessionInv
<1>3. CASE ~(s = "normal" \/ Kicked = {})
  <2>1. PICK o \in online : KickPlayer(o)
    BY <1>3 DEF SetGameState, Kicked
  <2>2. online \subseteq {o}
    BY DEF GameInv, PlayerInv, Once
  <2>3. QED BY <1>1, <2>1, <2>2, KickStep
<1>4. QED BY <1>2, <1>3

LEMMA DieStep ==
  ASSUME GameInv, NEW o \in Objects, Die(o)
  PROVE  GameInv'
<1>1. /\ QueueTypes /\ PlayerInv /\ Parsed /\ Once
      /\ Session(conn, tasks, timers, player, released)
  BY DEF GameInv, PlayerInv, SessionInv
<1>2. /\ RemoveCreature(o)
      /\ UNCHANGED <<conn, tasks, timers, parsing, autosend, chains, gameState>>
      /\ UNCHANGED <<protocolVars, client, refs, created, deleted, connecting>>
  BY DEF Die, protocolVars, outputVars
<1>3. /\ ObjectTypes' /\ Pointed' /\ Counted' /\ online' = online \ {o}
      /\ player' = player /\ released' = released
  BY <1>1, <1>2, RemovedObjects
<1>4. QueueTypes' /\ Parsed' /\ Once'
  BY <1>1, <1>2, <1>3 DEF QueueTypes, Parsed, Once
<1>5. QED BY <1>1, <1>2, <1>3, <1>4 DEF GameInv, PlayerInv, SessionInv

LEMMA CleanupStep ==
  ASSUME GameInv, Cleanup
  PROVE  GameInv'
<1>1. /\ QueueTypes /\ PlayerInv /\ Parsed /\ Once
      /\ ObjectTypes /\ Pointed /\ Counted
      /\ Session(conn, tasks, timers, player, released)
  BY DEF GameInv, PlayerInv, SessionInv
<1>2. /\ UNCHANGED <<conn, tasks, timers, parsing, autosend, chains, gameState>>
      /\ UNCHANGED <<player, acceptPackets, released, client, online, created, connecting>>
      /\ toRelease' = {}
      /\ refs' = [o \in Objects |-> IF o \in toRelease THEN refs[o] - 1 ELSE refs[o]]
      /\ deleted' = deleted \cup {o \in toRelease : refs[o] = 1}
  BY DEF Cleanup, Unreference, protocolVars, outputVars
<1>3. \A o \in Objects : o \in toRelease => refs[o] \in Nat /\ refs[o] # 0
  BY <1>1 DEF ObjectTypes, Counted
<1>4. refs' \in [Objects -> Nat]
  <2>1. \A o \in Objects : refs[o] \in Nat
    BY <1>1 DEF ObjectTypes
  <2>2. QED BY <1>2, <1>3, <2>1
<1>5. ObjectTypes'
  BY <1>1, <1>2, <1>4 DEF ObjectTypes
<1>6. ASSUME NEW o \in created
      PROVE  /\ refs'[o] = (IF client'[o] # None THEN 1 ELSE 0)
                              + (IF o \in online' \cup toRelease' THEN 1 ELSE 0)
             /\ o \in deleted' <=> refs'[o] = 0
  <2>1. /\ o \in Objects /\ refs[o] \in Nat /\ client'[o] = client[o]
        /\ refs[o] = (IF client[o] # None THEN 1 ELSE 0)
                       + (IF o \in online \cup toRelease THEN 1 ELSE 0)
        /\ o \in deleted <=> refs[o] = 0
    BY <1>1, <1>2 DEF ObjectTypes, Counted
  <2>2. CASE o \in toRelease
    <3>1. o \notin online /\ o \notin online' \cup toRelease'
      BY <1>1, <1>2, <2>2 DEF Counted
    <3>2. refs'[o] = refs[o] - 1 /\ (o \in deleted' <=> o \in deleted \/ refs[o] = 1)
      BY <1>2, <2>1, <2>2
    <3>3. QED BY <2>1, <2>2, <3>1, <3>2
  <2>3. CASE o \notin toRelease
    <3>1. o \in online \cup toRelease <=> o \in online' \cup toRelease'
      BY <1>2, <2>3
    <3>2. refs'[o] = refs[o] /\ (o \in deleted' <=> o \in deleted)
      BY <1>2, <2>1, <2>3
    <3>3. QED BY <2>1, <3>1, <3>2
  <2>4. QED BY <2>2, <2>3
<1>7. Counted'
  <2>1. \A x \in Objects \ created' : client'[x] = None /\ refs'[x] = 0
    BY <1>1, <1>2 DEF ObjectTypes, Counted
  <2>2. QED BY <1>2, <1>6, <2>1 DEF Counted
<1>8. QueueTypes' /\ Parsed' /\ Once' /\ Pointed'
  BY <1>1, <1>2 DEF QueueTypes, Parsed, Once, Pointed
<1>9. QED BY <1>1, <1>2, <1>5, <1>7, <1>8 DEF GameInv, PlayerInv, SessionInv

-----------------------------------------------------------------------------
(* The tasks of the dispatcher.                                            *)

\* what an action that runs a task has to show
LEMMA TaskRuns ==
  ASSUME GameInv, UNCHANGED <<parsing, gameState>>,
         conn' \in [Conns -> {"new", "open", "closed", "dead"}],
         tasks' \in Seq(Task), timers' \subseteq Conns \X Objects,
         autosend' \subseteq Conns, chains' \in Nat,
         Session(conn', tasks', timers', player', released'),
         ObjectTypes', Pointed', Counted', Once',
         \A c \in Conns : parsing[c] # None => conn'[c] = conn[c] /\ player'[c] = player[c]
  PROVE  GameInv'
<1>1. QueueTypes /\ Parsed
  BY DEF GameInv, PlayerInv
<1>2. QueueTypes'
  BY <1>1 DEF QueueTypes
<1>3. Parsed'
  BY <1>1, StillParsed
<1>4. QED BY <1>2, <1>3 DEF GameInv, PlayerInv, SessionInv

\* the first task and the connection it is for
LEMMA FirstTask ==
  ASSUME GameInv, tasks # <<>>
  PROVE  /\ Head(tasks) \in Task /\ Head(tasks).c \in Conns
         /\ Head(tasks).op = "connect" => Head(tasks).o \in Objects
         /\ tasks \in Seq(Task) /\ Rest \in Seq(Task)
         /\ Session(conn, Rest, timers, player, released)
<1>1. tasks \in Seq(Task) /\ Session(conn, tasks, timers, player, released)
  BY DEF GameInv, PlayerInv, QueueTypes, SessionInv
<1>2. QED BY <1>1, RestOf, TaskFacts, SessionRest DEF Rest

LEMMA SendAllEndsStep ==
  ASSUME GameInv, SendAllEnds
  PROVE  GameInv'
<1>1. /\ QueueTypes /\ PlayerInv /\ Parsed /\ Once
      /\ Session(conn, tasks, timers, player, released)
  BY DEF GameInv, PlayerInv, SessionInv
<1>2. /\ UNCHANGED <<conn, tasks, timers, parsing, gameState, autosend>>
      /\ UNCHANGED <<protocolVars, playerVars>>
      /\ player' = player /\ released' = released /\ online' = online
  BY DEF SendAllEnds, protocolVars, playerVars
<1>3. chains' \in Nat
  BY <1>1 DEF SendAllEnds, QueueTypes
<1>4. ObjectTypes' /\ Pointed' /\ Counted' /\ Once'
  BY <1>1, <1>2, ObjectsKept DEF Once
<1>5. QueueTypes'
  BY <1>1, <1>2, <1>3 DEF QueueTypes
<1>6. Parsed'
  BY <1>1, <1>2 DEF Parsed
<1>7. QED BY <1>1, <1>2, <1>4, <1>5, <1>6 DEF GameInv, PlayerInv, SessionInv

LEMMA RunLogoutStep ==
  ASSUME GameInv, RunLogout
  PROVE  GameInv'
<1> DEFINE c == Head(tasks).c
<1>1. /\ c \in Conns /\ Rest \in Seq(Task) /\ tasks # <<>>
      /\ Session(conn, Rest, timers, player, released)
  BY FirstTask DEF RunLogout, Runs
<1>2. UNCHANGED <<autosend, chains, gameState>>
  BY DEF RunLogout, outputVars
<1>3. /\ gameState \in {"normal", "closed", "shutdown"}
      /\ conn \in [Conns -> {"new", "open", "closed", "dead"}]
      /\ timers \subseteq Conns \X Objects /\ autosend \subseteq Conns /\ chains \in Nat
      /\ PlayerInv /\ Once
  BY DEF GameInv, PlayerInv, QueueTypes
<1>4. CASE Logout(c, Rest)
  <2> HIDE DEF c
  <2>1. /\ gameState' \in {"normal", "closed", "shutdown"}
        /\ gameState' = "closed" => gameState = "closed" \/ online \subseteq {player[c]}
    BY <1>2, <1>3
  <2>2. QED BY <1>1, <1>2, <1>4, <2>1, LogoutStep
<1>5. CASE tasks' = Rest /\ UNCHANGED <<conn, timers, parsing, protocolVars, playerVars>>
  <2>1. ObjectTypes' /\ Pointed' /\ Counted'
    BY <1>3, <1>5, ObjectsKept
  <2>2. player' = player /\ released' = released /\ online' = online
    BY <1>5 DEF protocolVars, playerVars
  <2>3. Once'
    BY <1>2, <1>3, <2>2 DEF Once
  <2>4. QED BY <1>1, <1>2, <1>3, <1>5, <2>1, <2>2, <2>3, TaskRuns
<1>6. QED BY <1>4, <1>5 DEF RunLogout

\* a protocol and a player without each other are joined
LEMMA PointTo ==
  ASSUME ObjectTypes, Pointed, NEW c \in Conns, NEW o \in Objects,
         player[c] = None, client[o] = None,
         player' = [player EXCEPT ![c] = o], client' = [client EXCEPT ![o] = c]
  PROVE  /\ Pointed'
         /\ player' \in [Conns -> Objects \cup {None}]
         /\ client' \in [Objects -> Conns \cup {None}]
         /\ client'[o] = c /\ client'[o] # None
         /\ \A d \in Conns \ {c} : player'[d] = player[d]
         /\ \A x \in Objects \ {o} : client'[x] = client[x]
<1>1. None \notin Conns /\ None \notin Objects
  BY SessionAssumption
<1>2. /\ player \in [Conns -> Objects \cup {None}]
      /\ client \in [Objects -> Conns \cup {None}]
  BY DEF ObjectTypes
<1>3. player'[c] = o /\ \A d \in Conns \ {c} : player'[d] = player[d]
  BY <1>2
<1>4. client'[o] = c /\ \A x \in Objects \ {o} : client'[x] = client[x]
  BY <1>2
<1>5. ASSUME NEW d \in Conns, NEW x \in Objects
      PROVE  player'[d] = x <=> client'[x] = d
  BY <1>1, <1>3, <1>4 DEF Pointed
<1>6. QED BY <1>1, <1>2, <1>3, <1>4, <1>5 DEF Pointed

LEMMA AutosendTypes ==
  ASSUME GameInv, NEW c \in Conns, AddToAutosend(c)
  PROVE  autosend' \subseteq Conns /\ chains' \in Nat
<1>1. autosend \subseteq Conns /\ chains \in Nat
  BY DEF GameInv, PlayerInv, QueueTypes
<1>2. QED BY <1>1 DEF AddToAutosend

LEMMA ConnectToStep ==
  ASSUME GameInv, NEW c, NEW o \in Objects,
         tasks # <<>>, c = Head(tasks).c, Head(tasks).op \in {"login", "connect"},
         ConnectTo(c, o, Rest), UNCHANGED <<timers, parsing, gameState>>,
         autosend' \subseteq Conns, chains' \in Nat
  PROVE  GameInv'
<1>1. /\ c \in Conns /\ tasks \in Seq(Task) /\ Rest \in Seq(Task)
      /\ Session(conn, Rest, timers, player, released)
  BY FirstTask
<1>2. /\ QueueTypes /\ ObjectTypes /\ Pointed /\ Counted /\ Parsed /\ Once /\ PlayerInv
      /\ Session(conn, tasks, timers, player, released)
      /\ conn \in [Conns -> {"new", "open", "closed", "dead"}]
      /\ timers \subseteq Conns \X Objects
  BY DEF GameInv, PlayerInv, SessionInv, QueueTypes
<1>3. conn[c] # "new" /\ player[c] = None /\ ~Waiting(c, Rest, timers)
  BY <1>1, <1>2, LoginStage DEF Rest
<1>4. CASE Close(c, Rest) /\ UNCHANGED <<protocolVars, playerVars>>
  <2>1. Closes(c, Rest) /\ parsing[c] = None
    BY <1>4, CloseCloses
  <2>2. /\ conn' \in [Conns -> {"new", "open", "closed", "dead"}]
        /\ tasks' \in Seq(Task) /\ \A d \in Conns \ {c} : conn'[d] = conn[d]
    BY <1>1, <1>2, <2>1, ClosesFacts
  <2>3. Session(conn', tasks', timers, player, released)
    BY <1>1, <1>2, <2>1, ClosesSession
  <2>4. player' = player /\ released' = released /\ online' = online
    BY <1>4 DEF protocolVars, playerVars
  <2>5. ObjectTypes' /\ Pointed' /\ Counted' /\ Once'
    BY <1>2, <1>4, <2>4, ObjectsKept DEF Once
  <2>6. QED BY <1>1, <1>2, <2>1, <2>2, <2>3, <2>4, <2>5, TaskRuns
<1>5. CASE tasks' = Rest /\ UNCHANGED <<conn, protocolVars, playerVars>>
  <2>1. player' = player /\ released' = released /\ online' = online
    BY <1>5 DEF protocolVars, playerVars
  <2>2. ObjectTypes' /\ Pointed' /\ Counted' /\ Once'
    BY <1>2, <1>5, <2>1, ObjectsKept DEF Once
  <2>3. QED BY <1>1, <1>2, <1>5, <2>1, <2>2, TaskRuns
<1>6. CASE /\ TakesOver(o)
           /\ player' = [player EXCEPT ![c] = o]
           /\ refs' = [refs EXCEPT ![o] = @ + 1]
           /\ client' = [client EXCEPT ![o] = c]
           /\ acceptPackets' = acceptPackets \cup {c}
           /\ connecting' = connecting \ {o}
           /\ tasks' = Rest
           /\ UNCHANGED <<conn, released, online, toRelease, created, deleted>>
  <2>1. o \in online /\ client[o] = None /\ o \in created
    BY <1>2, <1>6 DEF TakesOver, ObjectTypes
  <2>2. /\ Pointed' /\ client'[o] # None
        /\ player' \in [Conns -> Objects \cup {None}]
        /\ client' \in [Objects -> Conns \cup {None}]
        /\ \A d \in Conns \ {c} : player'[d] = player[d]
        /\ \A x \in Objects \ {o} : client'[x] = client[x]
    <3>1. /\ ObjectTypes /\ Pointed /\ c \in Conns /\ player[c] = None /\ client[o] = None
          /\ player' = [player EXCEPT ![c] = o] /\ client' = [client EXCEPT ![o] = c]
      BY <1>1, <1>2, <1>3, <1>6, <2>1
    <3>2. /\ Pointed' /\ client'[o] # None
          /\ player' \in [Conns -> Objects \cup {None}]
          /\ client' \in [Objects -> Conns \cup {None}]
          /\ \A d \in Conns \ {c} : player'[d] = player[d]
          /\ \A x \in Objects \ {o} : client'[x] = client[x]
      BY ONLY o \in Objects, <3>1, PointTo
    <3>3. QED BY <3>2
  <2>3. refs[o] = 1 /\ o \notin deleted
    BY <1>2, <2>1 DEF Counted
  <2>4. /\ refs' \in [Objects -> Nat] /\ refs'[o] = 2
        /\ \A x \in Objects \ {o} : refs'[x] = refs[x]
    BY <1>2, <1>6, <2>3 DEF ObjectTypes
  <2>5. ObjectTypes'
    BY <1>1, <1>2, <1>6, <2>2, <2>4 DEF ObjectTypes
  <2>6. ASSUME NEW x \in created
        PROVE  /\ refs'[x] = (IF client'[x] # None THEN 1 ELSE 0)
                                + (IF x \in online' \cup toRelease' THEN 1 ELSE 0)
               /\ x \in deleted' <=> refs'[x] = 0
    <3>1. CASE x = o
      BY <1>6, <2>1, <2>2, <2>3, <2>4, <3>1
    <3>2. CASE x # o
      <4>1. /\ refs'[x] = refs[x] /\ client'[x] = client[x]
            /\ online' = online /\ toRelease' = toRelease /\ deleted' = deleted
        BY <1>2, <1>6, <2>2, <2>4, <3>2 DEF ObjectTypes
      <4>2. QED BY <1>2, <4>1 DEF Counted
    <3>3. QED BY <3>1, <3>2
  <2>7. Counted'
    <3>1. \A x \in Objects \ created' : client'[x] = None /\ refs'[x] = 0
      BY <1>2, <1>6, <2>1, <2>2, <2>4 DEF Counted
    <3>2. online' \cap toRelease' = {} /\ created' = created
      BY <1>2, <1>6 DEF Counted
    <3>3. QED BY <2>6, <3>1, <3>2 DEF Counted
  <2>8. Once'
    BY <1>2, <1>6 DEF Once
  <2>9. Session(conn', tasks', timers', player', released')
    BY <1>1, <1>2, <1>3, <1>6, SessionPlayer DEF ObjectTypes
  <2>10. \A d \in Conns : parsing[d] # None => conn'[d] = conn[d] /\ player'[d] = player[d]
    BY <1>2, <1>3, <1>6, <2>2 DEF Parsed
  <2>11. QED BY <1>1, <1>2, <1>6, <2>2, <2>5, <2>7, <2>8, <2>9, <2>10, TaskRuns
<1>7. QED BY <1>4, <1>5, <1>6 DEF ConnectTo, Refuse

LEMMA RunConnectStep ==
  ASSUME GameInv, RunConnect
  PROVE  GameInv'
<1> DEFINE c == Head(tasks).c
           o == Head(tasks).o
<1>1. /\ tasks # <<>> /\ Head(tasks).op = "connect" /\ ConnectTo(c, o, Rest)
      /\ UNCHANGED <<timers, parsing, gameState, autosend, chains>>
  BY DEF RunConnect, Runs, outputVars
<1>2. o \in Objects
  BY <1>1, FirstTask
<1>3. autosend' \subseteq Conns /\ chains' \in Nat
  BY <1>1 DEF GameInv, PlayerInv, QueueTypes
<1>4. c = Head(tasks).c
  OBVIOUS
<1> HIDE DEF c, o
<1>5. QED BY <1>1, <1>2, <1>3, <1>4, ConnectToStep

LEMMA FoundPlayerStep ==
  ASSUME GameInv, NEW c, NEW o \in online,
         tasks # <<>>, c = Head(tasks).c, Head(tasks).op = "login",
         FoundPlayer(c, o), UNCHANGED <<parsing, gameState>>
  PROVE  GameInv'
<1>1. /\ c \in Conns /\ tasks \in Seq(Task) /\ Rest \in Seq(Task)
      /\ Session(conn, Rest, timers, player, released)
  BY FirstTask
<1>2. /\ QueueTypes /\ ObjectTypes /\ Pointed /\ Counted /\ Parsed /\ Once /\ PlayerInv
      /\ Session(conn, tasks, timers, player, released)
      /\ conn \in [Conns -> {"new", "open", "closed", "dead"}]
      /\ timers \subseteq Conns \X Objects /\ o \in Objects /\ o \in created
      /\ autosend \subseteq Conns /\ chains \in Nat
      /\ client \in [Objects -> Conns \cup {None}]
  BY DEF GameInv, PlayerInv, SessionInv, QueueTypes, ObjectTypes
<1>3. /\ conn[c] # "new" /\ player[c] = None /\ ~Waiting(c, Rest, timers)
      /\ ~Has(Rest, "logout", c)
  BY <1>1, <1>2, LoginStage DEF Rest
<1>4. CASE Close(c, Rest) /\ UNCHANGED <<timers, protocolVars, playerVars, outputVars>>
  <2>1. Closes(c, Rest) /\ parsing[c] = None
    BY <1>4, CloseCloses
  <2>2. /\ conn' \in [Conns -> {"new", "open", "closed", "dead"}]
        /\ tasks' \in Seq(Task) /\ \A d \in Conns \ {c} : conn'[d] = conn[d]
    BY <1>1, <1>2, <2>1, ClosesFacts
  <2>3. Session(conn', tasks', timers, player, released)
    BY <1>1, <1>2, <2>1, ClosesSession
  <2>4. /\ player' = player /\ released' = released /\ online' = online
        /\ timers' = timers /\ autosend' = autosend /\ chains' = chains
    BY <1>4 DEF protocolVars, playerVars, outputVars
  <2>5. ObjectTypes' /\ Pointed' /\ Counted' /\ Once'
    BY <1>2, <1>4, <2>4, ObjectsKept DEF Once
  <2>6. QED BY <1>1, <1>2, <2>1, <2>2, <2>3, <2>4, <2>5, TaskRuns
<1>5. CASE /\ client[o] # None
           /\ Close(client[o], Rest)
           /\ timers' = timers \cup {<<c, o>>}
           /\ connecting' = connecting \cup {o}
           /\ AddToAutosend(c)
           /\ UNCHANGED <<protocolVars, client, refs, online, toRelease, created, deleted>>
  <2> DEFINE d == client[o]
  <2>1. d \in Conns /\ Closes(d, Rest) /\ parsing[d] = None
    BY <1>2, <1>5, CloseCloses
  <2> HIDE DEF d
  <2>2. Session(conn, Rest, timers', player, released)
    BY <1>1, <1>2, <1>3, <1>5, SessionTimer
  <2>3. /\ conn' \in [Conns -> {"new", "open", "closed", "dead"}]
        /\ tasks' \in Seq(Task) /\ \A e \in Conns \ {d} : conn'[e] = conn[e]
    BY <1>1, <1>2, <2>1, ClosesFacts
  <2>4. Session(conn', tasks', timers', player, released)
    BY <1>1, <1>2, <2>1, <2>2, ClosesSession
  <2>5. /\ UNCHANGED <<player, acceptPackets, released, client, refs, online, toRelease,
                       created, deleted>>
        /\ timers' \subseteq Conns \X Objects
    BY <1>1, <1>2, <1>5 DEF protocolVars
  <2>6. ObjectTypes'
    BY <1>2, <1>5, <2>5 DEF ObjectTypes
  <2>7. Pointed' /\ Counted' /\ Once'
    BY <1>2, <2>5 DEF Pointed, Counted, Once
  <2>8. autosend' \subseteq Conns /\ chains' \in Nat
    BY <1>1, <1>5, AutosendTypes
  <2>9. QED BY <2>1, <2>3, <2>4, <2>5, <2>6, <2>7, <2>8, TaskRuns
<1>6. CASE ConnectTo(c, o, Rest) /\ AddToAutosend(c) /\ UNCHANGED timers
  <2>1. autosend' \subseteq Conns /\ chains' \in Nat
    BY <1>1, <1>6, AutosendTypes
  <2>2. QED BY <1>2, <1>6, <2>1, ConnectToStep
<1>7. QED BY <1>4, <1>5, <1>6 DEF FoundPlayer

\* a new player with its client, held by the world, by the list of the
\* creatures to release, or by neither
LEMMA NewObject ==
  ASSUME GameInv, NEW c \in Conns, NEW o \in Objects \ created, player[c] = None,
         created' = created \cup {o}, client' = [client EXCEPT ![o] = c],
         player' = [player EXCEPT ![c] = o],
         refs' = [refs EXCEPT ![o] = IF o \in online' \cup toRelease' THEN 2 ELSE 1],
         \/ online' = online /\ toRelease' = toRelease
         \/ online' = online \cup {o} /\ toRelease' = toRelease
         \/ online' = online /\ toRelease' = toRelease \cup {o},
         acceptPackets' \subseteq Conns,
         UNCHANGED <<released, deleted, connecting>>
  PROVE  ObjectTypes' /\ Pointed' /\ Counted'
<1>1. ObjectTypes /\ Pointed /\ Counted
  BY DEF GameInv, PlayerInv
<1>2. client[o] = None
  BY <1>1 DEF Counted
<1>3. /\ Pointed' /\ client'[o] # None
      /\ player' \in [Conns -> Objects \cup {None}]
      /\ client' \in [Objects -> Conns \cup {None}]
      /\ \A x \in Objects \ {o} : client'[x] = client[x]
  BY <1>1, <1>2, PointTo
<1>4. /\ refs' \in [Objects -> Nat]
      /\ refs'[o] = IF o \in online' \cup toRelease' THEN 2 ELSE 1
      /\ \A x \in Objects \ {o} : refs'[x] = refs[x]
  BY <1>1 DEF ObjectTypes
<1>5. /\ o \notin online /\ o \notin toRelease /\ o \notin deleted
      /\ \A x \in created : x # o /\ x \in Objects
  BY <1>1 DEF ObjectTypes
<1>6. ObjectTypes'
  <2>1. online' \subseteq created' /\ toRelease' \subseteq created' /\ created' \subseteq Objects
    BY <1>1 DEF ObjectTypes
  <2>2. QED BY <1>1, <1>3, <1>4, <2>1 DEF ObjectTypes
<1>7. ASSUME NEW x \in created'
      PROVE  /\ refs'[x] = (IF client'[x] # None THEN 1 ELSE 0)
                              + (IF x \in online' \cup toRelease' THEN 1 ELSE 0)
             /\ x \in deleted' <=> refs'[x] = 0
  <2>1. CASE x = o
    BY <1>3, <1>4, <1>5, <2>1
  <2>2. CASE x # o
    <3>1. x \in created /\ x \in Objects \ {o}
      BY <1>5, <2>2
    <3>2. /\ refs'[x] = refs[x] /\ client'[x] = client[x] /\ (x \in deleted' <=> x \in deleted)
          /\ x \in online' \cup toRelease' <=> x \in online \cup toRelease
      BY <1>3, <1>4, <2>2, <3>1
    <3>3. QED BY <1>1, <3>1, <3>2 DEF Counted
  <2>3. QED BY <2>1, <2>2
<1>8. online' \cap toRelease' = {}
  BY <1>1, <1>5 DEF Counted
<1>9. \A x \in Objects \ created' : client'[x] = None /\ refs'[x] = 0
  BY <1>1, <1>3, <1>4 DEF Counted
<1>10. QED BY <1>3, <1>6, <1>7, <1>8, <1>9 DEF Counted

LEMMA NewPlayerStep ==
  ASSUME GameInv, NEW c, NEW o \in Objects \ created,
         tasks # <<>>, c = Head(tasks).c, Head(tasks).op = "login", online = {},
         NewPlayer(c, o), UNCHANGED <<parsing, gameState>>
  PROVE  GameInv'
<1>1. /\ c \in Conns /\ tasks \in Seq(Task) /\ Rest \in Seq(Task)
      /\ Session(conn, Rest, timers, player, released)
  BY FirstTask
<1>2. /\ QueueTypes /\ ObjectTypes /\ Parsed
      /\ Session(conn, tasks, timers, player, released)
      /\ conn \in [Conns -> {"new", "open", "closed", "dead"}]
      /\ timers \subseteq Conns \X Objects /\ acceptPackets \subseteq Conns
      /\ autosend \subseteq Conns /\ chains \in Nat
      /\ online \subseteq created /\ toRelease \subseteq created
  BY DEF GameInv, PlayerInv, SessionInv, QueueTypes, ObjectTypes
<1>3. conn[c] # "new" /\ player[c] = None /\ ~Waiting(c, Rest, timers)
  BY <1>1, <1>2, LoginStage DEF Rest
<1>4. /\ created' = created \cup {o} /\ client' = [client EXCEPT ![o] = c]
      /\ player' = [player EXCEPT ![c] = o]
      /\ UNCHANGED <<timers, released, deleted, connecting>>
  BY DEF NewPlayer
<1>5. Session(conn, Rest, timers, player', released)
  BY <1>1, <1>2, <1>3, <1>4, SessionPlayer DEF ObjectTypes
<1>6. player \in [Conns -> Objects \cup {None}] /\ \A d \in Conns \ {c} : player'[d] = player[d]
  BY <1>2, <1>4 DEF ObjectTypes
<1>7. parsing[c] = None
  BY <1>1, <1>2, <1>3 DEF Parsed
<1>8. ASSUME Close(c, Rest)
      PROVE  /\ conn' \in [Conns -> {"new", "open", "closed", "dead"}]
             /\ tasks' \in Seq(Task) /\ \A d \in Conns \ {c} : conn'[d] = conn[d]
             /\ Session(conn', tasks', timers', player', released')
  <2>1. Closes(c, Rest)
    BY <1>8, CloseCloses
  <2>2. Session(conn', tasks', timers, player', released)
    BY <1>1, <1>2, <1>5, <2>1, ClosesSession
  <2>3. QED BY <1>1, <1>2, <1>4, <2>1, <2>2, ClosesFacts
<1>9. CASE /\ refs' = [refs EXCEPT ![o] = 1]
           /\ Close(c, Rest)
           /\ UNCHANGED <<acceptPackets, online, toRelease, outputVars>>
  <2>1. o \notin online' \cup toRelease' /\ autosend' = autosend /\ chains' = chains
    BY <1>2, <1>9 DEF outputVars
  <2>2. refs' = [refs EXCEPT ![o] = IF o \in online' \cup toRelease' THEN 2 ELSE 1]
    BY <1>9, <2>1
  <2>3. ObjectTypes' /\ Pointed' /\ Counted'
    BY <1>1, <1>2, <1>3, <1>4, <1>9, <2>2, NewObject
  <2>4. Once'
    BY <1>9 DEF Once
  <2>5. QED BY <1>2, <1>4, <1>6, <1>7, <1>8, <1>9, <2>1, <2>3, <2>4, TaskRuns
<1>10. CASE /\ gameState # "closed"
            /\ refs' = [refs EXCEPT ![o] = 2]
            /\ acceptPackets' = acceptPackets \cup {c}
            /\ online' = online \cup {o}
            /\ tasks' = Rest
            /\ AddToAutosend(c)
            /\ UNCHANGED <<conn, toRelease>>
  <2>1. refs' = [refs EXCEPT ![o] = IF o \in online' \cup toRelease' THEN 2 ELSE 1]
    BY <1>10
  <2>2. ObjectTypes' /\ Pointed' /\ Counted'
    BY <1>1, <1>2, <1>3, <1>4, <1>10, <2>1, NewObject
  <2>3. Once'
    BY <1>10 DEF Once
  <2>4. autosend' \subseteq Conns /\ chains' \in Nat
    BY <1>1, <1>10, AutosendTypes
  <2>5. QED BY <1>1, <1>2, <1>4, <1>5, <1>6, <1>7, <1>10, <2>2, <2>3, <2>4, TaskRuns
<1>11. CASE /\ gameState # "closed"
            /\ refs' = [refs EXCEPT ![o] = 2]
            /\ acceptPackets' = acceptPackets \cup {c}
            /\ Close(c, Rest)
            /\ toRelease' = toRelease \cup {o}
            /\ AddToAutosend(c)
            /\ UNCHANGED online
  <2>1. refs' = [refs EXCEPT ![o] = IF o \in online' \cup toRelease' THEN 2 ELSE 1]
    BY <1>11
  <2>2. ObjectTypes' /\ Pointed' /\ Counted'
    BY <1>1, <1>2, <1>3, <1>4, <1>11, <2>1, NewObject
  <2>3. Once'
    BY <1>11 DEF Once
  <2>4. autosend' \subseteq Conns /\ chains' \in Nat
    BY <1>1, <1>11, AutosendTypes
  <2>5. QED BY <1>2, <1>4, <1>6, <1>7, <1>8, <1>11, <2>2, <2>3, <2>4, TaskRuns
<1>12. QED BY <1>9, <1>10, <1>11 DEF NewPlayer

LEMMA RunLoginStep ==
  ASSUME GameInv, RunLogin
  PROVE  GameInv'
<1> DEFINE c == Head(tasks).c
<1>2. tasks # <<>> /\ Head(tasks).op = "login" /\ UNCHANGED <<parsing, gameState>>
  BY DEF RunLogin, Runs
<1>3. CASE online = {} /\ \E o \in Objects \ created : NewPlayer(c, o)
  BY <1>2, <1>3, NewPlayerStep
<1>4. CASE \E o \in online : FoundPlayer(c, o)
  BY <1>2, <1>4, FoundPlayerStep
<1>5. QED BY <1>3, <1>4 DEF RunLogin, Found

LEMMA RunReleaseStep ==
  ASSUME GameInv, RunRelease
  PROVE  GameInv'
<1> DEFINE c == Head(tasks).c
           o == player[c]
<1>1. /\ c \in Conns /\ tasks \in Seq(Task) /\ Rest \in Seq(Task)
      /\ tasks # <<>> /\ Head(tasks).op = "release"
  BY FirstTask DEF RunRelease, Runs
<1>2. /\ QueueTypes /\ ObjectTypes /\ Pointed /\ Counted /\ Parsed /\ Once /\ PlayerInv
      /\ Session(conn, tasks, timers, player, released)
      /\ conn \in [Conns -> {"new", "open", "closed", "dead"}]
      /\ timers \subseteq Conns \X Objects
      /\ autosend \subseteq Conns /\ chains \in Nat
      /\ player \in [Conns -> Objects \cup {None}]
  BY DEF GameInv, PlayerInv, SessionInv, QueueTypes, ObjectTypes
<1>3. /\ released' = released \cup {c} /\ autosend' = autosend \ {c} /\ tasks' = Rest
      /\ UNCHANGED <<conn, timers, acceptPackets, parsing, online, toRelease, created,
                     connecting, chains, gameState>>
      /\ IF o # None /\ client[o] = c
         THEN /\ client' = [client EXCEPT ![o] = None]
              /\ Unreference({o})
              /\ player' = [player EXCEPT ![c] = None]
         ELSE UNCHANGED <<client, refs, deleted, player>>
  BY DEF RunRelease
<1> HIDE DEF c
<1>4. Session(conn, Rest, timers, player, released')
  BY <1>1, <1>2, <1>3, SessionReleased DEF Rest, c
<1>5. parsing[c] = None
  <2>1. Has(tasks, "release", c)
    BY <1>1, HasTail DEF c
  <2>2. conn[c] \in {"closed", "dead"}
    BY <1>1, <1>2, <2>1 DEF Session, Stages, Stage, Gone
  <2>3. QED BY <1>1, <1>2, <2>2 DEF Parsed
<1>6. Once'
  BY <1>2, <1>3 DEF Once
<1>7. SUFFICES /\ ObjectTypes' /\ Pointed' /\ Counted'
               /\ Session(conn, Rest, timers, player', released')
               /\ \A d \in Conns \ {c} : player'[d] = player[d]
  BY <1>1, <1>2, <1>3, <1>5, <1>6, TaskRuns
<1>8. CASE ~(o # None /\ client[o] = c)
  <2>1. UNCHANGED <<client, refs, deleted, player>>
    BY <1>3, <1>8
  <2>2. ObjectTypes'
    BY <1>1, <1>2, <1>3, <2>1 DEF ObjectTypes
  <2>3. Pointed' /\ Counted'
    BY <1>2, <1>3, <2>1 DEF Pointed, Counted
  <2>4. QED BY <1>4, <2>1, <2>2, <2>3
<1>9. CASE o # None /\ client[o] = c
  <2>1. /\ client' = [client EXCEPT ![o] = None] /\ player' = [player EXCEPT ![c] = None]
        /\ refs' = [x \in Objects |-> IF x \in {o} THEN refs[x] - 1 ELSE refs[x]]
        /\ deleted' = deleted \cup {x \in {o} : refs[x] = 1}
    BY <1>3, <1>9 DEF Unreference
  <2>2. o \in Objects
    BY <1>1, <1>2, <1>9
  <2>3. /\ player' \in [Conns -> Objects \cup {None}] /\ player'[c] = None
        /\ \A d \in Conns \ {c} : player'[d] = player[d]
    BY <1>1, <1>2, <2>1
  <2> HIDE DEF o
  <2>4. /\ client' \in [Objects -> Conns \cup {None}] /\ client'[o] = None
        /\ \A x \in Objects \ {o} : client'[x] = client[x]
    BY <1>2, <2>1, <2>2 DEF ObjectTypes
  <2>5. o \in created /\ client[o] # None
    BY <1>1, <1>2, <1>9, <2>2, SessionAssumption DEF Counted
  <2>6. /\ refs[o] = 1 + (IF o \in online \cup toRelease THEN 1 ELSE 0)
        /\ o \notin deleted
    BY <1>2, <2>5 DEF Counted
  <2>7. /\ refs'[o] = (IF o \in online \cup toRelease THEN 1 ELSE 0)
        /\ \A x \in Objects \ {o} : refs'[x] = refs[x]
    BY <2>1, <2>2, <2>6
  <2>8. refs' \in [Objects -> Nat]
    <3>1. \A x \in Objects : refs[x] \in Nat
      BY <1>2 DEF ObjectTypes
    <3>2. QED BY <2>1, <2>7, <3>1
  <2>9. deleted' \subseteq created' /\ \A x \in Objects \ {o} : x \in deleted' <=> x \in deleted
    BY <1>2, <1>3, <2>1, <2>5 DEF ObjectTypes
  <2>10. o \in deleted' <=> refs'[o] = 0
    BY <2>1, <2>6, <2>7
  <2>11. ObjectTypes'
    BY <1>1, <1>2, <1>3, <2>3, <2>4, <2>8, <2>9 DEF ObjectTypes
  <2>12. Pointed'
    <3>1. ASSUME NEW d \in Conns, NEW x \in Objects PROVE player'[d] = x <=> client'[x] = d
      <4>0. player[c] = o /\ None \notin Conns /\ None \notin Objects
        BY SessionAssumption DEF o
      <4>1. CASE d = c
        <5>1. player'[d] # x
          BY <2>3, <4>0, <4>1
        <5>2. client'[x] # d
          BY <1>1, <1>2, <2>2, <2>4, <4>0, <4>1 DEF Pointed
        <5>3. QED BY <5>1, <5>2
      <4>2. CASE d # c
        <5>1. player'[d] = player[d]
          BY <2>3, <4>2
        <5>2. CASE x = o
          BY <1>2, <1>9, <2>2, <2>4, <4>0, <4>2, <5>1, <5>2 DEF Pointed
        <5>3. CASE x # o
          BY <1>2, <2>4, <5>1, <5>3 DEF Pointed
        <5>4. QED BY <5>2, <5>3
      <4>3. QED BY <4>1, <4>2
    <3>2. QED BY <3>1 DEF Pointed
  <2>13. ASSUME NEW x \in created
         PROVE  /\ refs'[x] = (IF client'[x] # None THEN 1 ELSE 0)
                                 + (IF x \in online' \cup toRelease' THEN 1 ELSE 0)
                /\ x \in deleted' <=> refs'[x] = 0
    <3>1. CASE x = o
      BY <1>3, <2>4, <2>7, <2>10, <3>1
    <3>2. CASE x # o
      <4>1. x \in Objects \ {o}
        BY <1>2, <3>2 DEF ObjectTypes
      <4>2. /\ refs'[x] = refs[x] /\ client'[x] = client[x]
            /\ (x \in deleted' <=> x \in deleted)
            /\ online' = online /\ toRelease' = toRelease
        BY <1>3, <2>4, <2>7, <2>9, <4>1
      <4>3. QED BY <1>2, <4>2 DEF Counted
    <3>3. QED BY <3>1, <3>2
  <2>14. Counted'
    <3>1. \A x \in Objects \ created' : client'[x] = None /\ refs'[x] = 0
      BY <1>2, <1>3, <2>4, <2>5, <2>7 DEF Counted
    <3>2. QED BY <1>2, <1>3, <2>13, <3>1 DEF Counted
  <2>15. Session(conn, Rest, timers, player', released')
    BY <1>1, <1>2, <1>4, <2>1, SessionPlayer
  <2>16. QED BY <2>3, <2>11, <2>12, <2>14, <2>15
<1>10. QED BY <1>8, <1>9

-----------------------------------------------------------------------------
(* The invariant.                                                          *)

LEMMA GameStep ==
  ASSUME GameInv, [Next]_vars
  PROVE  GameInv'
<1>1. CASE UNCHANGED vars
  <2>1. UNCHANGED <<conn, tasks, timers, player, acceptPackets, parsing, released, client,
                    refs, online, toRelease, created, deleted, connecting, autosend,
                    chains, gameState>>
    BY <1>1 DEF vars
  <2>2. SessionInv'
    BY <2>1 DEF GameInv, SessionInv
  <2>3. QueueTypes' /\ ObjectTypes'
    BY <2>1 DEF GameInv, PlayerInv, QueueTypes, ObjectTypes
  <2>4. Pointed' /\ Counted' /\ Parsed' /\ Once'
    BY <2>1 DEF GameInv, PlayerInv, Pointed, Counted, Parsed, Once
  <2>5. QED BY <2>2, <2>3, <2>4 DEF GameInv, PlayerInv
<1>2. CASE RunLogin
  BY <1>2, RunLoginStep
<1>3. CASE RunConnect
  BY <1>3, RunConnectStep
<1>4. CASE RunRelease
  BY <1>4, RunReleaseStep
<1>5. CASE RunLogout
  BY <1>5, RunLogoutStep
<1>6. CASE Cleanup
  BY <1>6, CleanupStep
<1>7. CASE SendAllEnds
  BY <1>7, SendAllEndsStep
<1>8. ASSUME NEW o \in Objects, Kick(o) PROVE GameInv'
  <2>1. o \in online /\ KickPlayer(o) /\ UNCHANGED <<autosend, chains, gameState>>
    BY <1>8 DEF Kick, outputVars
  <2>2. gameState \in {"normal", "closed", "shutdown"}
    BY DEF GameInv, PlayerInv, QueueTypes
  <2>3. QED BY <2>1, <2>2, KickStep
<1>9. ASSUME NEW o \in Objects, Die(o) PROVE GameInv'
  BY <1>9, DieStep
<1>10. ASSUME NEW c \in Conns,
              \/ FirstMessage(c) \/ NetworkClose(c) \/ Destroy(c)
              \/ BeginParse(c) \/ EndParse(c)
              \/ \E o \in Objects : TimerFires(c, o)
       PROVE  GameInv'
  BY <1>10, FirstMessageStep, NetworkCloseStep, DestroyStep, BeginParseStep, EndParseStep,
     TimerFiresStep
<1>11. ASSUME NEW s \in {"normal", "closed", "shutdown"}, SetGameState(s) PROVE GameInv'
  BY <1>11, SetGameStateStep
<1>12. QED BY <1>1, <1>2, <1>3, <1>4, <1>5, <1>6, <1>7, <1>8, <1>9, <1>10, <1>11 DEF Next

LEMMA GameStarts ==
  ASSUME Init
  PROVE  GameInv
<1>1. \A op, c : ~Has(<<>>, op, c)
  BY DEF Has
<1>2. InOrder(<<>>)
  BY DEF InOrder
<1>3. SessionInv
  BY <1>1, <1>2 DEF Init, SessionInv, Session, Stages, Stage, Waiting, Gone
<1>4. QueueTypes
  BY DEF Init, QueueTypes
<1>5. ObjectTypes
  BY DEF Init, ObjectTypes
<1>6. Pointed /\ Counted /\ Parsed /\ Once
  BY SessionAssumption DEF Init, Pointed, Counted, Parsed, Once
<1>7. QED BY <1>3, <1>4, <1>5, <1>6 DEF GameInv, PlayerInv

LEMMA InvariantHolds == Spec => []GameInv
<1>1. Init => GameInv
  BY GameStarts
<1>2. GameInv /\ [Next]_vars => GameInv'
  BY GameStep
<1>3. QED BY <1>1, <1>2, PTL DEF Spec

-----------------------------------------------------------------------------
\* The types of the state, the bound of the reference counter among them.
LEMMA TypesHold ==
  ASSUME GameInv
  PROVE  TypeOK
<1>1. QueueTypes /\ ObjectTypes /\ Counted
  BY DEF GameInv, PlayerInv
<1>2. ASSUME NEW o \in Objects PROVE refs[o] \in 0 .. 3
  BY <1>1 DEF Counted
<1>3. refs \in [Objects -> 0 .. 3]
  BY <1>1, <1>2 DEF ObjectTypes
<1>4. QED BY <1>1, <1>3 DEF TypeOK, QueueTypes, ObjectTypes

(* The character is in the world at most once, and not at all while the    *)
(* game is closed to it, whatever logins, delayed connects and kicks       *)
(* overtake each other on their way through the dispatcher.                *)
THEOREM OnlineCorrect == Spec => []OnlineAtMostOnce
<1>1. GameInv => OnlineAtMostOnce
  <2>1. SUFFICES ASSUME GameInv PROVE OnlineAtMostOnce
    OBVIOUS
  <2>2. TypeOK
    BY <2>1, TypesHold
  <2>3. CASE online = {}
    BY <2>2, <2>3, FS_EmptySet DEF OnlineAtMostOnce
  <2>4. CASE online # {}
    <3>1. PICK o \in online : TRUE
      BY <2>4
    <3>2. online = {o} /\ gameState # "closed"
      BY <2>1, <3>1 DEF GameInv, PlayerInv, Once
    <3>3. QED BY <2>2, <3>2, FS_Singleton DEF OnlineAtMostOnce
  <2>5. QED BY <2>3, <2>4
<1>2. QED BY <1>1, InvariantHolds, PTL

(* A protocol points to a player exactly when the player's client is that  *)
(* protocol: no takeover, refused login or release breaks one side only.   *)
THEOREM PointersCorrect == Spec => []PointersAgree
<1>1. GameInv => PointersAgree
  BY DEF GameInv, PlayerInv, ObjectTypes, Pointed, PointersAgree
<1>2. QED BY <1>1, InvariantHolds, PTL

(* The reference counter of a player is the number of those that hold it:  *)
(* its client, and the world or the list of creatures to release.  It is   *)
(* freed when that is zero, never while a packet is parsed with it.        *)
THEOREM ReferencesCorrect == Spec => []ReferencesExact
<1>1. GameInv => ReferencesExact
  <2>1. SUFFICES ASSUME GameInv PROVE ReferencesExact
    OBVIOUS
  <2>2. ObjectTypes /\ Pointed /\ Counted /\ Parsed /\ QueueTypes
    BY <2>1 DEF GameInv, PlayerInv
  <2>3. ASSUME NEW c \in Conns, parsing[c] \in deleted PROVE FALSE
    <3>1. parsing[c] \in created /\ parsing[c] \in Objects
      BY <2>2, <2>3 DEF ObjectTypes
    <3>2. client[parsing[c]] = c
      BY <2>2, <3>1, SessionAssumption DEF Parsed, Pointed
    <3>3. refs[parsing[c]] # 0
      BY <2>2, <3>1, <3>2, SessionAssumption DEF Counted
    <3>4. QED BY <2>2, <2>3, <3>1, <3>3 DEF Counted
  <2>4. QED BY <2>2, <2>3 DEF ReferencesExact, Counted
<1>2. QED BY <1>1, InvariantHolds, PTL

-----------------------------------------------------------------------------
(* Connections that are gone when the delayed connect fires.               *)

\* what a step that releases nobody has to show
LEMMA AnswerKeeps ==
  ASSUME AnswerInv, LateConnectsFail(tasks', conn'), NoLeakedPlayer', released' = released,
         gameState' # "shutdown" => gameState # "shutdown" /\ Sending',
         \A c \in Conns : conn[c] = "dead" => conn'[c] = "dead",
         \A c \in Conns : Has(tasks', "connect", c) /\ c \in released =>
           Has(tasks, "connect", c) \/ conn'[c] = "dead",
         \A c : Has(tasks, "release", c) => Has(tasks', "release", c),
         \A c \in Conns : gameState' # "shutdown" /\ Gone(c, conn') =>
           Gone(c, conn) \/ Has(tasks', "release", c),
         \A c \in Conns : gameState' # "shutdown" /\ conn'[c] = "open" =>
           \/ Answered(c)'
           \/ conn[c] = "open" /\ (Answered(c) => Answered(c)'),
         \A o \in connecting' \cap online' : gameState' # "shutdown" =>
           \/ o \in connecting \cap online /\ client'[o] = client[o]
           \/ client'[o] = None \/ Has(tasks', "release", client'[o])
  PROVE  AnswerInv'
<1>1. PromptInv'
  BY DEF AnswerInv, PromptInv
<1>2. ServedInv'
  <2>1. SUFFICES ASSUME gameState' # "shutdown"
        PROVE  /\ \A c \in Conns : Gone(c, conn') => c \in released' \/ Has(tasks', "release", c)
               /\ \A c \in Conns : conn'[c] = "open" => Answered(c)'
               /\ \A o \in connecting' \cap online' :
                    client'[o] = None \/ Has(tasks', "release", client'[o])
               /\ Sending'
    BY DEF ServedInv, Gone
  <2>2. /\ \A c \in Conns : Gone(c, conn) => c \in released \/ Has(tasks, "release", c)
        /\ \A c \in Conns : conn[c] = "open" => Answered(c)
        /\ \A o \in connecting \cap online :
             client[o] = None \/ Has(tasks, "release", client[o])
    BY <2>1 DEF AnswerInv, ServedInv
  <2>3. \A c \in Conns : Gone(c, conn') => c \in released' \/ Has(tasks', "release", c)
    BY <2>1, <2>2
  <2>4. \A c \in Conns : conn'[c] = "open" => Answered(c)'
    BY <2>1, <2>2
  <2>5. ASSUME NEW o \in connecting' \cap online'
        PROVE  client'[o] = None \/ Has(tasks', "release", client'[o])
    BY <2>1, <2>2
  <2>6. QED BY <2>1, <2>3, <2>4, <2>5
<1>3. QED BY <1>1, <1>2 DEF AnswerInv

\* a step that changes neither queue nor protocols
LEMMA AnswerSame ==
  ASSUME AnswerInv, UNCHANGED <<conn, tasks, timers, player, released, client, connecting,
                                autosend>>,
         online' \subseteq online,
         gameState' # "shutdown" => gameState # "shutdown" /\ Sending'
  PROVE  AnswerInv'
<1>1. PromptInv'
  BY DEF AnswerInv, PromptInv, NoLeakedPlayer
<1>2. \A c \in Conns : Answered(c)' = Answered(c)
  BY DEF Answered
<1>3. ServedInv'
  BY <1>2 DEF AnswerInv, ServedInv, Gone
<1>4. QED BY <1>1, <1>3 DEF AnswerInv

\* a step that closes connection d, with the tasks in q still to run
LEMMA AnswerCloses ==
  ASSUME GameInv, AnswerInv, NEW d \in Conns, NEW q \in Seq(Task), Closes(d, q),
         LateConnectsFail(q, conn),
         \A op, c : Has(q, op, c) => Has(tasks, op, c),
         \A c : Has(tasks, "release", c) => Has(q, "release", c),
         \A c \in Conns \ {d} : /\ Has(tasks, "login", c) => Has(q, "login", c)
                                /\ Has(tasks, "connect", c) => Has(q, "connect", c),
         UNCHANGED <<timers, player, released, client, connecting>>,
         online' \subseteq online, autosend \subseteq autosend',
         gameState' # "shutdown" => gameState # "shutdown" /\ Sending'
  PROVE  AnswerInv'
<1>1. QueueTypes
  BY DEF GameInv, PlayerInv
<1>2. /\ Gone(d, conn') /\ \A c \in Conns \ {d} : conn'[c] = conn[c]
      /\ \A c \in Conns : conn[c] = "dead" => conn'[c] = "dead"
      /\ \A op, c : Has(q, op, c) => Has(tasks', op, c)
      /\ \A op, c : Has(tasks', op, c) => Has(q, op, c) \/ (op = "release" /\ c = d)
      /\ conn[d] \in {"new", "open"} /\ gameState # "shutdown" => Has(tasks', "release", d)
      /\ conn \in [Conns -> {"new", "open", "closed", "dead"}]
  BY <1>1, ClosesFacts DEF QueueTypes
<1>3. LateConnectsFail(tasks', conn')
  BY <1>1, ClosesLate
<1>4. NoLeakedPlayer'
  BY DEF AnswerInv, PromptInv, NoLeakedPlayer
<1>5. ASSUME NEW c \in Conns, gameState' # "shutdown", Gone(c, conn')
      PROVE  Gone(c, conn) \/ Has(tasks', "release", c)
  <2>1. CASE c = d
    <3>1. gameState # "shutdown" /\ conn[d] \in {"new", "open", "closed", "dead"}
      BY <1>2, <1>5
    <3>2. QED BY <1>2, <2>1, <3>1 DEF Gone
  <2>2. CASE c # d
    BY <1>2, <1>5, <2>2 DEF Gone
  <2>3. QED BY <2>1, <2>2
<1>6. ASSUME NEW c \in Conns, conn'[c] = "open"
      PROVE  conn[c] = "open" /\ (Answered(c) => Answered(c)')
  <2>1. c # d
    BY <1>2, <1>6 DEF Gone
  <2>2. /\ Has(tasks, "login", c) => Has(tasks', "login", c)
        /\ Has(tasks, "connect", c) => Has(tasks', "connect", c)
    BY <1>2, <2>1
  <2>3. QED BY <1>2, <1>6, <2>1, <2>2 DEF Answered, Waiting
<1>7. \A c \in Conns : Has(tasks', "connect", c) => Has(tasks, "connect", c)
  BY <1>2
<1>8. \A c : Has(tasks, "release", c) => Has(tasks', "release", c)
  BY <1>2
<1>9. \A o \in connecting' \cap online' : o \in connecting \cap online /\ client'[o] = client[o]
  OBVIOUS
<1>10. QED BY <1>2, <1>3, <1>4, <1>5, <1>6, <1>7, <1>8, <1>9, AnswerKeeps

\* a task is posted, for a connection that is not released before a connect
LEMMA AnswerPost ==
  ASSUME GameInv, AnswerInv, NEW t \in Task, tasks' = Append(tasks, t),
         UNCHANGED <<conn, player, released, client, connecting, online, autosend, gameState>>,
         Sending' = Sending,
         t.op \in {"logout", "connect"},
         t.op = "connect" => conn[t.c] # "closed",
         \A c \in Conns, o \in Objects : <<c, o>> \in timers =>
           <<c, o>> \in timers' \/ (t.op = "connect" /\ t.c = c)
  PROVE  AnswerInv'
<1>1. /\ tasks \in Seq(Task) /\ t.c \in Conns
      /\ Session(conn, tasks, timers, player, released)
  BY TaskFacts DEF GameInv, PlayerInv, QueueTypes, SessionInv
<1>2. ASSUME NEW op, NEW c
      PROVE  Has(tasks', op, c) <=> Has(tasks, op, c) \/ (t.op = op /\ t.c = c)
  BY <1>1, HasAppend
<1>3. t.op = "connect" /\ (Has(tasks, "release", t.c) \/ t.c \in released) => conn[t.c] = "dead"
  BY <1>1 DEF Session, Stages, Stage, Gone
<1>4. LateConnectsFail(tasks', conn)
  BY <1>1, <1>3, LateAppend DEF AnswerInv, PromptInv
<1>5. NoLeakedPlayer'
  BY DEF AnswerInv, PromptInv, NoLeakedPlayer
<1>6. ASSUME NEW c \in Conns, Answered(c) PROVE Answered(c)'
  <2>1. Waiting(c, tasks, timers) => Waiting(c, tasks', timers')
    BY <1>2 DEF Waiting
  <2>2. Has(tasks, "login", c) => Has(tasks', "login", c)
    BY <1>2
  <2>3. QED BY <1>6, <2>1, <2>2 DEF Answered
<1>7. gameState' # "shutdown" => gameState # "shutdown" /\ Sending'
  BY DEF AnswerInv, ServedInv
<1>8. \A c \in Conns : Has(tasks', "connect", c) /\ c \in released =>
        Has(tasks, "connect", c) \/ conn'[c] = "dead"
  BY <1>2, <1>3
<1>9. \A c : Has(tasks, "release", c) => Has(tasks', "release", c)
  BY <1>2
<1>10. \A c \in Conns : Gone(c, conn') => Gone(c, conn)
  BY DEF Gone
<1>11. QED BY <1>4, <1>5, <1>6, <1>7, <1>8, <1>9, <1>10, AnswerKeeps

LEMMA FirstMessageAnswers ==
  ASSUME GameInv, AnswerInv, NEW c \in Conns, FirstMessage(c)
  PROVE  AnswerInv'
<1>1. /\ conn[c] = "new" /\ tasks \in Seq(Task)
      /\ conn \in [Conns -> {"new", "open", "closed", "dead"}]
      /\ Session(conn, tasks, timers, player, released)
      /\ LateConnectsFail(tasks, conn) /\ NoLeakedPlayer
  BY DEF GameInv, PlayerInv, QueueTypes, SessionInv, AnswerInv, PromptInv, FirstMessage
<1>2. UNCHANGED <<timers, player, released, client, connecting, online, autosend, chains,
                  gameState>>
  BY DEF FirstMessage, protocolVars, playerVars, outputVars
<1>3. gameState' # "shutdown" => gameState # "shutdown" /\ Sending'
  BY <1>2 DEF AnswerInv, ServedInv, Sending
<1>4. CASE Close(c, tasks)
  <2>1. Closes(c, tasks)
    BY <1>4, CloseCloses
  <2>2. QED BY <1>1, <1>2, <1>3, <2>1, AnswerCloses
<1>5. CASE /\ conn' = [conn EXCEPT ![c] = "open"]
           /\ tasks' = Append(tasks, [op |-> "login", c |-> c])
  <2> DEFINE t == [op |-> "login", c |-> c]
  <2>1. t \in Task /\ t.op = "login" /\ t.c = c /\ tasks' = Append(tasks, t)
    BY <1>5, PostedTasks
  <2> HIDE DEF t
  <2>2. conn'[c] = "open" /\ \A d \in Conns \ {c} : conn'[d] = conn[d]
    BY <1>1, <1>5
  <2>3. ASSUME NEW op, NEW d
        PROVE  Has(tasks', op, d) <=> Has(tasks, op, d) \/ ("login" = op /\ c = d)
    <3>1. Has(tasks', op, d) <=> Has(tasks, op, d) \/ (t.op = op /\ t.c = d)
      BY <1>1, <2>1, HasAppend
    <3>2. QED BY <2>1, <3>1
  <2>4. LateConnectsFail(tasks', conn')
    <3>1. \A i \in 1 .. Len(tasks) : tasks[i].c \in Conns
      BY <1>1, ElementOfSeq, TaskFacts
    <3>2. \A d \in Conns : conn[d] = "dead" => conn'[d] = "dead"
      BY <1>1, <2>2
    <3>3. LateConnectsFail(tasks, conn')
      BY <1>1, <3>1, <3>2, LateMore
    <3>4. QED BY <1>1, <2>1, <3>3, LateAppend
  <2>5. ASSUME NEW d \in Conns, conn'[d] = "open"
        PROVE  Answered(d)' \/ (conn[d] = "open" /\ (Answered(d) => Answered(d)'))
    <3>1. CASE d = c
      BY <2>3, <3>1 DEF Answered, Waiting
    <3>2. CASE d # c
      <4>1. /\ Has(tasks, "login", d) => Has(tasks', "login", d)
            /\ Has(tasks, "connect", d) => Has(tasks', "connect", d)
        BY <2>3
      <4>2. QED BY <1>2, <2>2, <2>5, <3>2, <4>1 DEF Answered, Waiting
    <3>3. QED BY <3>1, <3>2
  <2>6. \A d \in Conns : conn[d] = "dead" => conn'[d] = "dead"
    BY <1>1, <2>2
  <2>7. \A d \in Conns : Gone(d, conn') => Gone(d, conn)
    BY <1>1, <2>2 DEF Gone
  <2>8. /\ \A d \in Conns : Has(tasks', "connect", d) => Has(tasks, "connect", d)
        /\ \A d : Has(tasks, "release", d) => Has(tasks', "release", d)
    BY <2>3
  <2>9. NoLeakedPlayer'
    BY <1>1, <1>2 DEF NoLeakedPlayer
  <2>10. QED BY <1>2, <1>3, <2>4, <2>5, <2>6, <2>7, <2>8, <2>9, AnswerKeeps
<1>6. QED BY <1>4, <1>5 DEF FirstMessage

LEMMA NetworkCloseAnswers ==
  ASSUME GameInv, AnswerInv, NEW c \in Conns, NetworkClose(c)
  PROVE  AnswerInv'
<1>1. tasks \in Seq(Task) /\ Closes(c, tasks) /\ LateConnectsFail(tasks, conn)
  BY CloseCloses DEF GameInv, PlayerInv, QueueTypes, AnswerInv, PromptInv, NetworkClose
<1>2. UNCHANGED <<timers, player, released, client, connecting, online, autosend, chains,
                  gameState>>
  BY DEF NetworkClose, protocolVars, playerVars, outputVars
<1>3. gameState' # "shutdown" => gameState # "shutdown" /\ Sending'
  BY <1>2 DEF AnswerInv, ServedInv, Sending
<1>4. QED BY <1>1, <1>2, <1>3, AnswerCloses

LEMMA DestroyAnswers ==
  ASSUME GameInv, AnswerInv, NEW c \in Conns, Destroy(c)
  PROVE  AnswerInv'
<1>1. /\ conn[c] = "closed" /\ tasks \in Seq(Task) /\ conn' = [conn EXCEPT ![c] = "dead"]
      /\ conn \in [Conns -> {"new", "open", "closed", "dead"}]
      /\ LateConnectsFail(tasks, conn) /\ NoLeakedPlayer
  BY DEF GameInv, PlayerInv, QueueTypes, AnswerInv, PromptInv, Destroy
<1>2. UNCHANGED <<tasks, timers, player, released, client, connecting, online, autosend,
                  chains, gameState>>
  BY DEF Destroy, protocolVars, playerVars, outputVars
<1>3. gameState' # "shutdown" => gameState # "shutdown" /\ Sending'
  BY <1>2 DEF AnswerInv, ServedInv, Sending
<1>4. conn'[c] = "dead" /\ \A d \in Conns \ {c} : conn'[d] = conn[d]
  BY <1>1
<1>5. LateConnectsFail(tasks', conn')
  <2>1. \A i \in 1 .. Len(tasks) : tasks[i].c \in Conns
    BY <1>1, ElementOfSeq, TaskFacts
  <2>2. \A d \in Conns : conn[d] = "dead" => conn'[d] = "dead"
    BY <1>1, <1>4
  <2>3. QED BY <1>1, <1>2, <2>1, <2>2, LateMore
<1>6. /\ \A d \in Conns : conn[d] = "dead" => conn'[d] = "dead"
      /\ \A d \in Conns : Gone(d, conn') => Gone(d, conn)
      /\ \A d \in Conns : conn'[d] = "open" => conn[d] = "open"
  BY <1>1, <1>4 DEF Gone
<1>7. \A d \in Conns : Answered(d)' = Answered(d)
  BY <1>2 DEF Answered
<1>8. NoLeakedPlayer'
  BY <1>1, <1>2 DEF NoLeakedPlayer
<1>9. QED BY <1>2, <1>3, <1>5, <1>6, <1>7, <1>8, AnswerKeeps

LEMMA EndParseAnswers ==
  ASSUME GameInv, AnswerInv, NEW c \in Conns, EndParse(c)
  PROVE  AnswerInv'
<1>1. tasks \in Seq(Task) /\ LateConnectsFail(tasks, conn) /\ Parsed /\ parsing[c] # None
  BY DEF GameInv, PlayerInv, QueueTypes, AnswerInv, PromptInv, EndParse
<1>2. UNCHANGED <<timers, player, released, client, connecting, online, autosend, chains,
                  gameState>>
  BY DEF EndParse, protocolVars, playerVars, outputVars
<1>3. gameState' # "shutdown" => gameState # "shutdown" /\ Sending'
  BY <1>2 DEF AnswerInv, ServedInv, Sending
<1>4. CASE UNCHANGED <<conn, tasks>>
  BY <1>2, <1>3, <1>4, AnswerSame
<1>5. CASE tasks' = Post(tasks, [op |-> "logout", c |-> c]) /\ UNCHANGED conn
  <2>1. CASE gameState = "shutdown"
    BY <1>2, <1>3, <1>5, <2>1, AnswerSame DEF Post
  <2>2. CASE gameState # "shutdown"
    <3> DEFINE t == [op |-> "logout", c |-> c]
    <3>1. t \in Task /\ t.op = "logout" /\ tasks' = Append(tasks, t)
      BY <1>5, <2>2, PostedTasks DEF Post
    <3> HIDE DEF t
    <3>2. Sending' = Sending
      BY <1>2 DEF Sending
    <3>3. QED BY <1>2, <1>5, <3>1, <3>2, AnswerPost
  <2>3. QED BY <2>1, <2>2
<1>6. CASE conn' = [conn EXCEPT ![c] = "closed"] /\ tasks' = Post(tasks, ReleaseTask(c))
  <2>1. Closes(c, tasks)
    BY <1>1, <1>6 DEF Closes, Parsed
  <2>2. QED BY <1>1, <1>2, <1>3, <2>1, AnswerCloses
<1>7. QED BY <1>4, <1>5, <1>6 DEF EndParse

LEMMA TimerFiresAnswers ==
  ASSUME GameInv, AnswerInv, Lingers = FALSE,
         NEW c \in Conns, NEW o \in Objects, TimerFires(c, o)
  PROVE  AnswerInv'
<1>1. conn[c] # "closed" /\ timers' = timers \ {<<c, o>>}
      /\ tasks' = Post(tasks, [op |-> "connect", c |-> c, o |-> o])
  BY DEF TimerFires
<1>2. UNCHANGED <<conn, player, released, client, connecting, online, autosend, chains,
                  gameState>>
  BY DEF TimerFires, protocolVars, playerVars, outputVars
<1>3. CASE gameState = "shutdown"
  <2>1. tasks' = tasks
    BY <1>1, <1>3 DEF Post
  <2>2. PromptInv'
    BY <1>2, <2>1 DEF AnswerInv, PromptInv, NoLeakedPlayer
  <2>3. QED BY <1>2, <1>3, <2>2 DEF AnswerInv, ServedInv
<1>4. CASE gameState # "shutdown"
  <2> DEFINE t == [op |-> "connect", c |-> c, o |-> o]
  <2>1. t \in Task /\ t.op = "connect" /\ t.c = c /\ tasks' = Append(tasks, t)
    BY <1>1, <1>4, PostedTasks DEF Post
  <2> HIDE DEF t
  <2>2. Sending' = Sending
    BY <1>2 DEF Sending
  <2>3. \A d \in Conns, x \in Objects : <<d, x>> \in timers => <<d, x>> \in timers' \/ d = c
    BY <1>1
  <2>4. QED BY <1>1, <1>2, <2>1, <2>2, <2>3, AnswerPost
<1>5. QED BY <1>3, <1>4

LEMMA FirstTaskAnswers ==
  ASSUME GameInv, AnswerInv, tasks # <<>>
  PROVE  /\ LateConnectsFail(Rest, conn)
         /\ \A op, c : Has(tasks, op, c) <=>
              Has(Rest, op, c) \/ (Head(tasks).op = op /\ Head(tasks).c = c)
<1>1. tasks \in Seq(Task) /\ LateConnectsFail(tasks, conn)
  BY DEF GameInv, PlayerInv, QueueTypes, AnswerInv, PromptInv
<1>2. QED BY <1>1, LateTail, HasTail DEF Rest

\* a task is dropped
LEMMA AnswerDrops ==
  ASSUME GameInv, AnswerInv, tasks # <<>>, tasks' = Rest, Head(tasks).op # "release",
         Head(tasks).op \in {"login", "connect"} => conn[Head(tasks).c] # "open",
         UNCHANGED <<conn, timers, player, released, client, connecting, online, gameState>>,
         autosend \subseteq autosend', gameState' # "shutdown" => Sending'
  PROVE  AnswerInv'
<1>1. /\ LateConnectsFail(Rest, conn)
      /\ \A op, c : Has(tasks, op, c) <=>
           Has(Rest, op, c) \/ (Head(tasks).op = op /\ Head(tasks).c = c)
  BY FirstTaskAnswers
<1>2. NoLeakedPlayer'
  BY DEF AnswerInv, PromptInv, NoLeakedPlayer
<1>3. ASSUME NEW c \in Conns, conn'[c] = "open" PROVE Answered(c) => Answered(c)'
  <2>1. /\ Has(tasks, "login", c) => Has(tasks', "login", c)
        /\ Has(tasks, "connect", c) => Has(tasks', "connect", c)
    BY <1>1, <1>3
  <2>2. QED BY <2>1 DEF Answered, Waiting
<1>4. \A c \in Conns : Gone(c, conn') => Gone(c, conn)
  BY DEF Gone
<1>5. LateConnectsFail(tasks', conn')
  BY <1>1
<1>6. /\ \A c \in Conns : Has(tasks', "connect", c) => Has(tasks, "connect", c)
      /\ \A c : Has(tasks, "release", c) => Has(tasks', "release", c)
  BY <1>1
<1>7. QED BY <1>2, <1>3, <1>4, <1>5, <1>6, AnswerKeeps

LEMMA RunLogoutAnswers ==
  ASSUME GameInv, AnswerInv, RunLogout
  PROVE  AnswerInv'
<1> DEFINE c == Head(tasks).c
<1>1. /\ c \in Conns /\ Rest \in Seq(Task) /\ tasks # <<>> /\ Head(tasks).op = "logout"
  BY FirstTask DEF RunLogout, Runs
<1>2. UNCHANGED <<autosend, chains, gameState>>
  BY DEF RunLogout, outputVars
<1>3. CASE Logout(c, Rest)
  <2>1. /\ Closes(c, Rest) /\ online' \subseteq online
        /\ UNCHANGED <<timers, player, released, client, connecting>>
    BY <1>3, CloseCloses DEF Logout, RemoveCreature, protocolVars
  <2>2. gameState' # "shutdown" => gameState # "shutdown" /\ Sending'
    BY <1>2, <2>1 DEF AnswerInv, ServedInv, Sending
  <2>3. /\ LateConnectsFail(Rest, conn)
        /\ \A op, d : Has(Rest, op, d) => Has(tasks, op, d)
        /\ \A op, d : Has(tasks, op, d) => Has(Rest, op, d) \/ op = "logout"
    BY <1>1, FirstTaskAnswers
  <2> HIDE DEF c
  <2>4. /\ \A d : Has(tasks, "release", d) => Has(Rest, "release", d)
        /\ \A d : Has(tasks, "login", d) => Has(Rest, "login", d)
        /\ \A d : Has(tasks, "connect", d) => Has(Rest, "connect", d)
    BY <2>3
  <2>5. QED BY <1>1, <1>2, <2>1, <2>2, <2>3, <2>4, AnswerCloses
<1>4. CASE tasks' = Rest /\ UNCHANGED <<conn, timers, parsing, protocolVars, playerVars>>
  <2>1. UNCHANGED <<player, released, client, connecting, online>>
    BY <1>4 DEF protocolVars, playerVars
  <2>2. gameState' # "shutdown" => Sending'
    BY <1>2, <2>1 DEF AnswerInv, ServedInv, Sending
  <2>3. QED BY <1>1, <1>2, <1>4, <2>1, <2>2, AnswerDrops
<1>5. QED BY <1>3, <1>4 DEF RunLogout

LEMMA KickAnswers ==
  ASSUME GameInv, AnswerInv, NEW o \in online, KickPlayer(o), UNCHANGED <<autosend, chains>>,
         gameState' # "shutdown" => gameState # "shutdown"
  PROVE  AnswerInv'
<1>1. /\ tasks \in Seq(Task) /\ o \in Objects /\ LateConnectsFail(tasks, conn)
      /\ client \in [Objects -> Conns \cup {None}]
  BY DEF GameInv, PlayerInv, QueueTypes, ObjectTypes, AnswerInv, PromptInv
<1>2. UNCHANGED <<timers, player, released, client, connecting>> /\ online' \subseteq online
  BY DEF KickPlayer, Logout, RemoveCreature, protocolVars
<1>3. gameState' # "shutdown" => gameState # "shutdown" /\ Sending'
  BY <1>2 DEF AnswerInv, ServedInv, Sending
<1>4. CASE client[o] # None
  <2> DEFINE c == client[o]
  <2>1. c \in Conns /\ Closes(c, tasks)
    BY <1>1, <1>4, CloseCloses DEF KickPlayer, Logout
  <2> HIDE DEF c
  <2>2. QED BY <1>1, <1>2, <1>3, <2>1, AnswerCloses
<1>5. CASE client[o] = None
  <2>1. UNCHANGED <<conn, tasks>>
    BY <1>5 DEF KickPlayer
  <2>2. QED BY <1>2, <1>3, <2>1, AnswerSame
<1>6. QED BY <1>4, <1>5

LEMMA SetGameStateAnswers ==
  ASSUME GameInv, AnswerInv, NEW s \in {"normal", "closed", "shutdown"}, SetGameState(s)
  PROVE  AnswerInv'
<1>1. gameState # "shutdown" /\ UNCHANGED <<autosend, chains>>
  BY DEF SetGameState, outputVars
<1>2. CASE s = "normal" \/ Kicked = {}
  <2>1. UNCHANGED <<conn, tasks, timers, player, released, client, connecting, online>>
    BY <1>2 DEF SetGameState, protocolVars, playerVars
  <2>2. gameState' # "shutdown" => gameState # "shutdown" /\ Sending'
    BY <1>1, <2>1 DEF AnswerInv, ServedInv, Sending
  <2>3. QED BY <1>1, <2>1, <2>2, AnswerSame
<1>3. CASE ~(s = "normal" \/ Kicked = {})
  <2>1. PICK o \in online : KickPlayer(o)
    BY <1>3 DEF SetGameState, Kicked
  <2>2. QED BY <1>1, <2>1, KickAnswers
<1>4. QED BY <1>2, <1>3

LEMMA AutosendSends ==
  ASSUME GameInv, AnswerInv, gameState # "shutdown", NEW c, c \notin released,
         released' = released, AddToAutosend(c)
  PROVE  Sending'
<1>1. Sending /\ chains \in Nat
  BY DEF AnswerInv, ServedInv, GameInv, PlayerInv, QueueTypes
<1>2. autosend' = autosend \cup {c}
  BY DEF AddToAutosend
<1>3. chains' > 0
  BY <1>1 DEF AddToAutosend, Sending
<1>4. QED BY <1>1, <1>2, <1>3 DEF Sending

LEMMA ConnectToAnswers ==
  ASSUME GameInv, AnswerInv, NEW c, NEW o \in Objects,
         tasks # <<>>, c = Head(tasks).c, Head(tasks).op \in {"login", "connect"},
         ConnectTo(c, o, Rest), UNCHANGED <<timers, gameState>>,
         autosend \subseteq autosend', Head(tasks).op = "login" => c \in autosend',
         gameState' # "shutdown" => Sending'
  PROVE  AnswerInv'
<1>1. /\ c \in Conns /\ tasks \in Seq(Task) /\ Rest \in Seq(Task)
      /\ Session(conn, Rest, timers, player, released)
  BY FirstTask
<1>2. /\ ObjectTypes /\ NoLeakedPlayer
      /\ Session(conn, tasks, timers, player, released)
      /\ conn \in [Conns -> {"new", "open", "closed", "dead"}]
  BY DEF GameInv, PlayerInv, SessionInv, QueueTypes, AnswerInv, PromptInv
<1>3. /\ player[c] = None /\ ~Waiting(c, Rest, timers)
      /\ Head(tasks).op = "login" => c \notin released
  BY <1>1, <1>2, LoginStage DEF Rest
<1>4. /\ LateConnectsFail(Rest, conn)
      /\ \A op, d : Has(tasks, op, d) <=>
           Has(Rest, op, d) \/ (Head(tasks).op = op /\ c = d)
  BY FirstTaskAnswers
<1>5. /\ \A op, d : Has(Rest, op, d) => Has(tasks, op, d)
      /\ \A d : Has(tasks, "release", d) => Has(Rest, "release", d)
      /\ \A d \in Conns \ {c} : /\ Has(tasks, "login", d) => Has(Rest, "login", d)
                                /\ Has(tasks, "connect", d) => Has(Rest, "connect", d)
  BY <1>4
<1>6. CASE Close(c, Rest) /\ UNCHANGED <<protocolVars, playerVars>>
  <2>1. Closes(c, Rest)
    BY <1>6, CloseCloses
  <2>2. UNCHANGED <<player, released, client, connecting, online>>
    BY <1>6 DEF protocolVars, playerVars
  <2>3. QED BY <1>1, <1>4, <1>5, <2>1, <2>2, AnswerCloses
<1>7. CASE ~Connects(c) /\ tasks' = Rest /\ UNCHANGED <<conn, protocolVars, playerVars>>
  <2>1. UNCHANGED <<player, released, client, connecting, online>>
    BY <1>7 DEF protocolVars, playerVars
  <2>2. conn[c] # "open" /\ Head(tasks).op # "release"
    BY <1>7 DEF Connects
  <2>3. QED BY <1>7, <2>1, <2>2, AnswerDrops
<1>8. CASE /\ Connects(c)
           /\ player' = [player EXCEPT ![c] = o]
           /\ client' = [client EXCEPT ![o] = c]
           /\ connecting' = connecting \ {o}
           /\ tasks' = Rest
           /\ UNCHANGED <<conn, released, online>>
  <2>1. c \notin released
    <3>1. CASE Head(tasks).op = "login"
      BY <1>3, <3>1
    <3>2. CASE Head(tasks).op = "connect"
      <4>1. Has(tasks, "connect", c)
        BY <1>4, <3>2
      <4>2. QED BY <1>1, <1>8, <4>1 DEF AnswerInv, PromptInv, Connects
    <3>3. QED BY <3>1, <3>2
  <2>2. /\ client'[o] = c /\ \A x \in Objects \ {o} : client'[x] = client[x]
        /\ player'[c] # None /\ \A d \in Conns \ {c} : player'[d] = player[d]
    BY <1>1, <1>2, <1>8, SessionAssumption DEF ObjectTypes
  <2>3. NoLeakedPlayer'
    BY <1>2, <1>8, <2>1, <2>2 DEF NoLeakedPlayer
  <2>4. ASSUME NEW d \in Conns, gameState' # "shutdown", conn'[d] = "open"
        PROVE  Answered(d)' \/ (conn[d] = "open" /\ (Answered(d) => Answered(d)'))
    <3>1. CASE d = c
      <4>1. c \in autosend \/ Has(tasks, "login", c)
        BY <1>8, <2>4, <3>1 DEF AnswerInv, ServedInv, Answered
      <4>2. Has(tasks, "login", c) => Head(tasks).op = "login"
        BY <1>3, <1>4 DEF Waiting
      <4>3. c \in autosend'
        BY <4>1, <4>2
      <4>4. QED BY <2>2, <3>1, <4>3 DEF Answered
    <3>2. CASE d # c
      <4>1. /\ Has(tasks, "login", d) => Has(tasks', "login", d)
            /\ Has(tasks, "connect", d) => Has(tasks', "connect", d)
        BY <1>5, <1>8, <3>2
      <4>2. QED BY <1>8, <2>2, <2>4, <3>2, <4>1 DEF Answered, Waiting
    <3>3. QED BY <3>1, <3>2
  <2>5. \A x \in connecting' \cap online' : x \in connecting \cap online /\ client'[x] = client[x]
    BY <1>2, <1>8, <2>2 DEF ObjectTypes
  <2>6. /\ \A d \in Conns : conn[d] = "dead" => conn'[d] = "dead"
        /\ \A d \in Conns : Gone(d, conn') => Gone(d, conn)
        /\ LateConnectsFail(tasks', conn')
    BY <1>4, <1>8 DEF Gone
  <2>7. /\ \A d \in Conns : Has(tasks', "connect", d) => Has(tasks, "connect", d)
        /\ \A d : Has(tasks, "release", d) => Has(tasks', "release", d)
        /\ released' = released
    BY <1>5, <1>8
  <2>8. QED BY <2>3, <2>4, <2>5, <2>6, <2>7, AnswerKeeps
<1>9. QED BY <1>6, <1>7, <1>8 DEF ConnectTo, Refuse

LEMMA RunConnectAnswers ==
  ASSUME GameInv, AnswerInv, RunConnect
  PROVE  AnswerInv'
<1> DEFINE c == Head(tasks).c
           o == Head(tasks).o
<1>1. /\ tasks # <<>> /\ Head(tasks).op = "connect" /\ ConnectTo(c, o, Rest)
      /\ UNCHANGED <<timers, gameState, autosend, chains>>
  BY DEF RunConnect, Runs, outputVars
<1>2. o \in Objects
  BY <1>1, FirstTask
<1>3. released' = released
  BY <1>1 DEF ConnectTo, protocolVars
<1>4. gameState' # "shutdown" => Sending'
  BY <1>1, <1>3 DEF AnswerInv, ServedInv, Sending
<1>5. c = Head(tasks).c
  OBVIOUS
<1> HIDE DEF c, o
<1>6. QED BY <1>1, <1>2, <1>4, <1>5, ConnectToAnswers

LEMMA FoundPlayerAnswers ==
  ASSUME GameInv, AnswerInv, NEW c, NEW o \in online,
         tasks # <<>>, c = Head(tasks).c, Head(tasks).op = "login",
         FoundPlayer(c, o), UNCHANGED gameState
  PROVE  AnswerInv'
<1>1. /\ c \in Conns /\ tasks \in Seq(Task) /\ Rest \in Seq(Task)
      /\ Session(conn, Rest, timers, player, released)
  BY FirstTask
<1>2. /\ ObjectTypes /\ Pointed /\ QueueTypes /\ NoLeakedPlayer /\ o \in Objects
      /\ Session(conn, tasks, timers, player, released)
      /\ conn \in [Conns -> {"new", "open", "closed", "dead"}]
      /\ client \in [Objects -> Conns \cup {None}]
  BY DEF GameInv, PlayerInv, SessionInv, QueueTypes, ObjectTypes, AnswerInv, PromptInv
<1>3. player[c] = None /\ c \notin released
  BY <1>1, <1>2, LoginStage
<1>4. /\ LateConnectsFail(Rest, conn)
      /\ \A op, e : Has(tasks, op, e) <=> Has(Rest, op, e) \/ ("login" = op /\ c = e)
  BY FirstTaskAnswers
<1>5. /\ \A op, e : Has(Rest, op, e) => Has(tasks, op, e)
      /\ \A e : Has(tasks, "release", e) => Has(Rest, "release", e)
      /\ \A e : Has(tasks, "connect", e) => Has(Rest, "connect", e)
      /\ \A e \in Conns \ {c} : Has(tasks, "login", e) => Has(Rest, "login", e)
  BY <1>4
<1>6. CASE Close(c, Rest) /\ UNCHANGED <<timers, protocolVars, playerVars, outputVars>>
  <2>1. Closes(c, Rest)
    BY <1>6, CloseCloses
  <2>2. UNCHANGED <<timers, player, released, client, connecting, online, autosend, chains>>
    BY <1>6 DEF protocolVars, playerVars, outputVars
  <2>3. gameState' # "shutdown" => gameState # "shutdown" /\ Sending'
    BY <2>2 DEF AnswerInv, ServedInv, Sending
  <2>4. QED BY <1>1, <1>4, <1>5, <2>1, <2>2, <2>3, AnswerCloses
<1>7. CASE /\ client[o] # None
           /\ Close(client[o], Rest)
           /\ timers' = timers \cup {<<c, o>>}
           /\ connecting' = connecting \cup {o}
           /\ AddToAutosend(c)
           /\ UNCHANGED <<protocolVars, client, refs, online, toRelease, created, deleted>>
  <2> DEFINE d == client[o]
  <2>1. d \in Conns /\ Closes(d, Rest) /\ client[o] = d
    BY <1>2, <1>7, CloseCloses
  <2> HIDE DEF d
  <2>2. d # c /\ d \notin released
    BY <1>1, <1>2, <1>3, <2>1, SessionAssumption DEF Pointed, NoLeakedPlayer
  <2>3. UNCHANGED <<player, released, client, online, gameState>>
    BY <1>7 DEF protocolVars
  <2>4. /\ Gone(d, conn') /\ \A e \in Conns \ {d} : conn'[e] = conn[e]
        /\ \A e \in Conns : conn[e] = "dead" => conn'[e] = "dead"
        /\ \A op, e : Has(Rest, op, e) => Has(tasks', op, e)
        /\ \A op, e : Has(tasks', op, e) => Has(Rest, op, e) \/ (op = "release" /\ e = d)
        /\ conn[d] \in {"new", "open"} /\ gameState # "shutdown" => Has(tasks', "release", d)
    BY <1>1, <1>2, <2>1, ClosesFacts
  <2>5. LateConnectsFail(tasks', conn')
    BY <1>1, <1>2, <1>4, <2>1, ClosesLate
  <2>6. gameState' # "shutdown" => gameState # "shutdown" /\ Sending'
    BY <1>3, <1>7, <2>3, AutosendSends
  <2>7. ASSUME gameState # "shutdown" PROVE Has(tasks', "release", d)
    <3>1. CASE conn[d] \in {"new", "open"}
      BY <2>4, <2>7, <3>1
    <3>2. CASE conn[d] \notin {"new", "open"}
      <4>1. Gone(d, conn)
        BY <1>2, <2>1, <3>2 DEF Gone
      <4>2. Has(tasks, "release", d)
        BY <2>1, <2>2, <2>7, <4>1 DEF AnswerInv, ServedInv
      <4>3. QED BY <1>5, <2>4, <4>2
    <3>3. QED BY <3>1, <3>2
  <2>8. ASSUME NEW e \in Conns, conn'[e] = "open"
        PROVE  Answered(e)' \/ (conn[e] = "open" /\ (Answered(e) => Answered(e)'))
    <3>1. CASE e = c
      <4>1. c \in autosend' /\ <<c, o>> \in timers'
        BY <1>7 DEF AddToAutosend
      <4>2. QED BY <1>2, <3>1, <4>1 DEF Answered, Waiting
    <3>2. CASE e # c
      <4>1. /\ Has(tasks, "login", e) => Has(tasks', "login", e)
            /\ Has(tasks, "connect", e) => Has(tasks', "connect", e)
        BY <1>5, <2>4, <3>2
      <4>2. e # d /\ timers \subseteq timers' /\ autosend \subseteq autosend'
        BY <1>7, <2>4, <2>8 DEF Gone, AddToAutosend
      <4>3. QED BY <2>3, <2>4, <2>8, <4>1, <4>2 DEF Answered, Waiting
    <3>3. QED BY <3>1, <3>2
  <2>9. \A e \in Conns : gameState' # "shutdown" /\ Gone(e, conn') =>
          Gone(e, conn) \/ Has(tasks', "release", e)
    BY <2>3, <2>4, <2>7 DEF Gone
  <2>10. \A x \in connecting' \cap online' : gameState' # "shutdown" =>
           \/ x \in connecting \cap online /\ client'[x] = client[x]
           \/ Has(tasks', "release", client'[x])
    BY <1>7, <2>1, <2>3, <2>7
  <2>11. /\ \A e \in Conns : Has(tasks', "connect", e) => Has(tasks, "connect", e)
         /\ \A e : Has(tasks, "release", e) => Has(tasks', "release", e)
    BY <1>5, <2>4
  <2>12. NoLeakedPlayer'
    BY <1>2, <2>3 DEF NoLeakedPlayer
  <2>13. QED BY <2>3, <2>4, <2>5, <2>6, <2>8, <2>9, <2>10, <2>11, <2>12, AnswerKeeps
<1>8. CASE ConnectTo(c, o, Rest) /\ AddToAutosend(c) /\ UNCHANGED timers
  <2>1. released' = released
    BY <1>8 DEF ConnectTo, protocolVars
  <2>2. autosend \subseteq autosend' /\ c \in autosend'
    BY <1>8 DEF AddToAutosend
  <2>3. gameState' # "shutdown" => Sending'
    BY <1>3, <1>8, <2>1, AutosendSends
  <2>4. QED BY <1>2, <1>8, <2>2, <2>3, ConnectToAnswers
<1>9. QED BY <1>6, <1>7, <1>8 DEF FoundPlayer

LEMMA NewPlayerAnswers ==
  ASSUME GameInv, AnswerInv, NEW c, NEW o \in Objects \ created,
         tasks # <<>>, c = Head(tasks).c, Head(tasks).op = "login", online = {},
         NewPlayer(c, o), UNCHANGED gameState
  PROVE  AnswerInv'
<1>1. /\ c \in Conns /\ tasks \in Seq(Task) /\ Rest \in Seq(Task)
  BY FirstTask
<1>2. /\ ObjectTypes /\ QueueTypes /\ NoLeakedPlayer
      /\ Session(conn, tasks, timers, player, released)
      /\ conn \in [Conns -> {"new", "open", "closed", "dead"}]
      /\ client \in [Objects -> Conns \cup {None}]
      /\ player \in [Conns -> Objects \cup {None}]
  BY DEF GameInv, PlayerInv, SessionInv, QueueTypes, ObjectTypes, AnswerInv, PromptInv
<1>3. c \notin released
  BY <1>1, <1>2, LoginStage
<1>4. /\ LateConnectsFail(Rest, conn)
      /\ \A op, e : Has(tasks, op, e) <=> Has(Rest, op, e) \/ ("login" = op /\ c = e)
  BY FirstTaskAnswers
<1>5. /\ \A op, e : Has(Rest, op, e) => Has(tasks, op, e)
      /\ \A e : Has(tasks, "release", e) => Has(Rest, "release", e)
      /\ \A e \in Conns \ {c} : /\ Has(tasks, "login", e) => Has(Rest, "login", e)
                                /\ Has(tasks, "connect", e) => Has(Rest, "connect", e)
  BY <1>4
<1>6. /\ UNCHANGED <<timers, released, connecting>>
      /\ client' = [client EXCEPT ![o] = c] /\ player' = [player EXCEPT ![c] = o]
  BY DEF NewPlayer
<1>7. /\ player'[c] = o /\ o # None /\ \A e \in Conns \ {c} : player'[e] = player[e]
      /\ client'[o] = c /\ \A x \in Objects \ {o} : client'[x] = client[x]
  BY <1>1, <1>2, <1>6, SessionAssumption
<1>8. NoLeakedPlayer'
  BY <1>2, <1>3, <1>6, <1>7 DEF NoLeakedPlayer
<1>9. connecting' \cap online' = {}
  <2>1. online' \subseteq {o} /\ o \notin connecting
    BY <1>2 DEF NewPlayer, ObjectTypes
  <2>2. QED BY <1>6, <2>1
<1>10. gameState' # "shutdown" => gameState # "shutdown" /\ Sending'
  <2>1. CASE UNCHANGED outputVars
    BY <1>6, <2>1 DEF AnswerInv, ServedInv, Sending, outputVars
  <2>2. CASE AddToAutosend(c)
    BY <1>3, <1>6, <2>2, AutosendSends
  <2>3. QED BY <2>1, <2>2 DEF NewPlayer
<1>11. autosend \subseteq autosend'
  BY DEF NewPlayer, AddToAutosend, outputVars
<1>12. CASE Close(c, Rest)
  <2>1. Closes(c, Rest)
    BY <1>12, CloseCloses
  <2>2. /\ Gone(c, conn') /\ \A e \in Conns \ {c} : conn'[e] = conn[e]
        /\ \A e \in Conns : conn[e] = "dead" => conn'[e] = "dead"
        /\ \A op, e : Has(Rest, op, e) => Has(tasks', op, e)
        /\ \A op, e : Has(tasks', op, e) => Has(Rest, op, e) \/ (op = "release" /\ e = c)
        /\ conn[c] \in {"new", "open"} /\ gameState # "shutdown" => Has(tasks', "release", c)
    BY <1>1, <1>2, <2>1, ClosesFacts
  <2>3. LateConnectsFail(tasks', conn')
    BY <1>1, <1>2, <1>4, <2>1, ClosesLate
  <2>4. ASSUME NEW e \in Conns, conn'[e] = "open"
        PROVE  conn[e] = "open" /\ (Answered(e) => Answered(e)')
    <3>1. e # c /\ conn[e] = "open"
      BY <2>2, <2>4 DEF Gone
    <3>2. /\ Has(tasks, "login", e) => Has(tasks', "login", e)
          /\ Has(tasks, "connect", e) => Has(tasks', "connect", e)
      BY <1>5, <2>2, <3>1
    <3>3. player'[e] = player[e]
      BY <1>7, <3>1
    <3>4. QED BY <1>6, <1>11, <3>1, <3>2, <3>3 DEF Answered, Waiting
  <2>5. \A e \in Conns : gameState' # "shutdown" /\ Gone(e, conn') =>
          Gone(e, conn) \/ Has(tasks', "release", e)
    BY <1>1, <1>2, <1>10, <2>2 DEF Gone
  <2>6. /\ \A e \in Conns : Has(tasks', "connect", e) => Has(tasks, "connect", e)
        /\ \A e : Has(tasks, "release", e) => Has(tasks', "release", e)
    BY <1>5, <2>2
  <2>7. QED BY <1>6, <1>8, <1>9, <1>10, <2>2, <2>3, <2>4, <2>5, <2>6, AnswerKeeps
<1>13. CASE tasks' = Rest /\ AddToAutosend(c) /\ UNCHANGED conn
  <2>1. ASSUME NEW e \in Conns, conn'[e] = "open"
        PROVE  Answered(e)' \/ (conn[e] = "open" /\ (Answered(e) => Answered(e)'))
    <3>1. CASE e = c
      <4>1. c \in autosend'
        BY <1>13 DEF AddToAutosend
      <4>2. QED BY <1>7, <3>1, <4>1 DEF Answered
    <3>2. CASE e # c
      <4>1. /\ Has(tasks, "login", e) => Has(tasks', "login", e)
            /\ Has(tasks, "connect", e) => Has(tasks', "connect", e)
        BY <1>5, <1>13, <3>2
      <4>2. player'[e] = player[e]
        BY <1>7, <3>2
      <4>3. QED BY <1>6, <1>11, <1>13, <2>1, <4>1, <4>2 DEF Answered, Waiting
    <3>3. QED BY <3>1, <3>2
  <2>2. /\ \A e \in Conns : conn[e] = "dead" => conn'[e] = "dead"
        /\ \A e \in Conns : Gone(e, conn') => Gone(e, conn)
        /\ LateConnectsFail(tasks', conn')
    BY <1>4, <1>13 DEF Gone
  <2>3. /\ \A e \in Conns : Has(tasks', "connect", e) => Has(tasks, "connect", e)
        /\ \A e : Has(tasks, "release", e) => Has(tasks', "release", e)
    BY <1>5, <1>13
  <2>4. QED BY <1>6, <1>8, <1>9, <1>10, <2>1, <2>2, <2>3, AnswerKeeps
<1>14. QED BY <1>12, <1>13 DEF NewPlayer

LEMMA RunLoginAnswers ==
  ASSUME GameInv, AnswerInv, RunLogin
  PROVE  AnswerInv'
<1> DEFINE c == Head(tasks).c
<1>1. tasks # <<>> /\ Head(tasks).op = "login" /\ UNCHANGED gameState
  BY DEF RunLogin, Runs
<1>2. CASE online = {} /\ \E o \in Objects \ created : NewPlayer(c, o)
  BY <1>1, <1>2, NewPlayerAnswers
<1>3. CASE \E o \in online : FoundPlayer(c, o)
  BY <1>1, <1>3, FoundPlayerAnswers
<1>4. QED BY <1>2, <1>3 DEF RunLogin, Found

LEMMA RunReleaseAnswers ==
  ASSUME GameInv, AnswerInv, RunRelease
  PROVE  AnswerInv'
<1> DEFINE c == Head(tasks).c
<1>1. /\ c \in Conns /\ tasks \in Seq(Task) /\ tasks # <<>> /\ Head(tasks).op = "release"
  BY FirstTask DEF RunRelease, Runs
<1>2. /\ ObjectTypes /\ Pointed /\ NoLeakedPlayer /\ LateConnectsFail(tasks, conn)
      /\ Session(conn, tasks, timers, player, released)
      /\ \A d \in Conns : Has(tasks, "connect", d) /\ d \in released => conn[d] = "dead"
  BY DEF GameInv, PlayerInv, SessionInv, AnswerInv, PromptInv
<1>3. /\ released' = released \cup {c} /\ autosend' = autosend \ {c} /\ tasks' = Rest
      /\ UNCHANGED <<conn, timers, online, connecting, chains, gameState>>
  BY DEF RunRelease
<1>4. /\ LateConnectsFail(Rest, conn)
      /\ \A op, d : Has(tasks, op, d) <=> Has(Rest, op, d) \/ ("release" = op /\ c = d)
  BY <1>1, FirstTaskAnswers
<1>5. Has(Rest, "connect", c) => conn[c] = "dead"
  BY <1>1, <1>2, LateTail DEF Rest
<1> HIDE DEF c
<1>6. Gone(c, conn)
  <2>1. Has(tasks, "release", c)
    BY <1>4
  <2>2. QED BY <1>1, <1>2, <2>1 DEF Session, Stages, Stage
<1>7. /\ \A o \in Objects : client'[o] # c
      /\ \A o \in Objects : client'[o] = client[o] \/ client'[o] = None
      /\ \A d \in Conns \ {c} : player'[d] = player[d]
  <2>1. IF player[c] # None /\ client[player[c]] = c
        THEN /\ client' = [client EXCEPT ![player[c]] = None]
             /\ player' = [player EXCEPT ![c] = None]
        ELSE UNCHANGED <<client, player>>
    BY DEF RunRelease, c
  <2>2. /\ player \in [Conns -> Objects \cup {None}]
        /\ client \in [Objects -> Conns \cup {None}]
        /\ None \notin Conns /\ None \notin Objects
    BY <1>2, SessionAssumption DEF ObjectTypes
  <2>3. \A o \in Objects : client[o] = c <=> player[c] = o
    BY <1>1, <1>2 DEF Pointed
  <2>4. CASE player[c] # None /\ client[player[c]] = c
    BY <1>1, <2>1, <2>2, <2>3, <2>4
  <2>5. CASE ~(player[c] # None /\ client[player[c]] = c)
    BY <1>1, <2>1, <2>2, <2>3, <2>5
  <2>6. QED BY <2>4, <2>5
<1>8. NoLeakedPlayer'
  <2>1. None \notin released
    BY <1>2, SessionAssumption DEF ObjectTypes
  <2>2. None # c
    BY <1>1, SessionAssumption
  <2>3. QED BY <1>2, <1>3, <1>7, <2>1, <2>2 DEF NoLeakedPlayer
<1>9. PromptInv'
  <2>1. LateConnectsFail(tasks', conn')
    BY <1>3, <1>4
  <2>2. ASSUME NEW d \in Conns, Has(tasks', "connect", d), d \in released'
        PROVE  conn'[d] = "dead"
    BY <1>2, <1>3, <1>4, <1>5, <2>2
  <2>3. QED BY <1>8, <2>1, <2>2 DEF PromptInv
<1>10. ServedInv'
  <2>1. SUFFICES ASSUME gameState # "shutdown"
        PROVE  /\ \A d \in Conns : Gone(d, conn') => d \in released' \/ Has(tasks', "release", d)
               /\ \A d \in Conns : conn'[d] = "open" => Answered(d)'
               /\ \A o \in connecting' \cap online' :
                    client'[o] = None \/ Has(tasks', "release", client'[o])
               /\ Sending'
    BY <1>3 DEF ServedInv, Gone
  <2>2. /\ \A d \in Conns : Gone(d, conn) => d \in released \/ Has(tasks, "release", d)
        /\ \A d \in Conns : conn[d] = "open" => Answered(d)
        /\ \A o \in connecting \cap online :
             client[o] = None \/ Has(tasks, "release", client[o])
        /\ Sending
    BY <2>1 DEF AnswerInv, ServedInv
  <2>3. ASSUME NEW d \in Conns, Gone(d, conn')
        PROVE  d \in released' \/ Has(tasks', "release", d)
    BY <1>3, <1>4, <2>2, <2>3 DEF Gone
  <2>4. ASSUME NEW d \in Conns, conn'[d] = "open" PROVE Answered(d)'
    <3>1. d # c /\ conn[d] = "open"
      BY <1>3, <1>6, <2>4 DEF Gone
    <3>2. /\ Has(tasks, "login", d) => Has(tasks', "login", d)
          /\ Has(tasks, "connect", d) => Has(tasks', "connect", d)
      BY <1>3, <1>4
    <3>3. player'[d] = player[d] /\ (d \in autosend => d \in autosend')
      BY <1>3, <1>7, <3>1
    <3>4. QED BY <1>3, <2>2, <3>1, <3>2, <3>3 DEF Answered, Waiting
  <2>5. ASSUME NEW o \in connecting' \cap online'
        PROVE  client'[o] = None \/ Has(tasks', "release", client'[o])
    <3>1. o \in Objects /\ o \in connecting \cap online
      BY <1>2, <1>3 DEF ObjectTypes
    <3>2. CASE client'[o] = client[o]
      BY <1>3, <1>4, <1>7, <2>2, <3>1, <3>2
    <3>3. QED BY <1>7, <3>1, <3>2
  <2>6. Sending'
    BY <1>3, <2>2 DEF Sending
  <2>7. QED BY <2>3, <2>4, <2>5, <2>6
<1>11. QED BY <1>9, <1>10 DEF AnswerInv

LEMMA AnswerStep ==
  ASSUME GameInv, AnswerInv, Lingers = FALSE, [Next]_vars
  PROVE  AnswerInv'
<1>1. CASE UNCHANGED <<conn, tasks, timers, player, released, client, connecting, autosend,
                       chains, gameState>> /\ online' \subseteq online
  <2>1. gameState' # "shutdown" => gameState # "shutdown" /\ Sending'
    BY <1>1 DEF AnswerInv, ServedInv, Sending
  <2>2. QED BY <1>1, <2>1, AnswerSame
<1>2. CASE UNCHANGED vars
  BY <1>1, <1>2 DEF vars
<1>3. CASE RunLogin
  BY <1>3, RunLoginAnswers
<1>4. CASE RunConnect
  BY <1>4, RunConnectAnswers
<1>5. CASE RunRelease
  BY <1>5, RunReleaseAnswers
<1>6. CASE RunLogout
  BY <1>6, RunLogoutAnswers
<1>7. CASE Cleanup
  BY <1>1, <1>7 DEF Cleanup, protocolVars, outputVars
<1>8. CASE SendAllEnds
  <2>1. UNCHANGED <<conn, tasks, timers, player, released, client, connecting, online,
                    autosend, gameState>> /\ autosend = {}
    BY <1>8 DEF SendAllEnds, protocolVars, playerVars
  <2>2. gameState' # "shutdown" => gameState # "shutdown" /\ Sending'
    BY <2>1 DEF AnswerInv, ServedInv, Sending
  <2>3. QED BY <2>1, <2>2, AnswerSame
<1>9. ASSUME NEW o \in Objects, Kick(o) PROVE AnswerInv'
  BY <1>9, KickAnswers DEF Kick, outputVars
<1>10. ASSUME NEW o \in Objects, Die(o) PROVE AnswerInv'
  BY <1>1, <1>10 DEF Die, RemoveCreature, protocolVars, outputVars
<1>11. ASSUME NEW c \in Conns, BeginParse(c) PROVE AnswerInv'
  BY <1>1, <1>11 DEF BeginParse, protocolVars, playerVars, outputVars
<1>12. ASSUME NEW c \in Conns,
              \/ FirstMessage(c) \/ NetworkClose(c) \/ Destroy(c) \/ EndParse(c)
              \/ \E o \in Objects : TimerFires(c, o)
       PROVE  AnswerInv'
  BY <1>12, FirstMessageAnswers, NetworkCloseAnswers, DestroyAnswers, EndParseAnswers,
     TimerFiresAnswers
<1>13. ASSUME NEW s \in {"normal", "closed", "shutdown"}, SetGameState(s) PROVE AnswerInv'
  BY <1>13, SetGameStateAnswers
<1>14. QED BY <1>2, <1>3, <1>4, <1>5, <1>6, <1>7, <1>8, <1>9, <1>10, <1>11, <1>12, <1>13
       DEF Next

LEMMA AnswersHold ==
  ASSUME Lingers = FALSE
  PROVE  Spec => []AnswerInv
<1>1. Init => AnswerInv
  <2>1. SUFFICES ASSUME Init PROVE AnswerInv
    OBVIOUS
  <2>2. /\ conn = [c \in Conns |-> "new"] /\ tasks = <<>> /\ released = {}
        /\ online = {} /\ autosend = {}
    BY <2>1 DEF Init
  <2>3. LateConnectsFail(tasks, conn)
    BY <2>2 DEF LateConnectsFail
  <2>4. PromptInv
    BY <2>2, <2>3 DEF PromptInv, NoLeakedPlayer
  <2>5. ServedInv
    <3>1. \A c \in Conns : ~Gone(c, conn) /\ conn[c] # "open"
      BY <2>2 DEF Gone
    <3>2. connecting \cap online = {} /\ Sending
      BY <2>2 DEF Sending
    <3>3. QED BY <3>1, <3>2 DEF ServedInv
  <2>6. QED BY <2>4, <2>5 DEF AnswerInv
<1>2. GameInv /\ AnswerInv /\ [Next]_vars => AnswerInv'
  BY AnswerStep
<1>3. QED BY <1>1, <1>2, InvariantHolds, PTL DEF Spec

(* When the connections that close are gone by the time the delayed        *)
(* connect fires, no player is left with a client whose protocol was       *)
(* released, which would keep it for ever: the release of a protocol runs  *)
(* after every task that could give it a player.                           *)
THEOREM LeakCorrect ==
  ASSUME Lingers = FALSE
  PROVE  Spec => []NoLeakedPlayer
<1>1. AnswerInv => NoLeakedPlayer
  BY DEF AnswerInv, PromptInv
<1>2. QED BY <1>1, AnswersHold, PTL

(* In the same case a client that is connected and has no player has its   *)
(* login or its connect before it, a player is not left as connecting once *)
(* a client has it, and whoever plays is sent what is buffered for it.     *)
THEOREM WaitCorrect ==
  ASSUME Lingers = FALSE
  PROVE  Spec => []NobodyWaitsInVain
<1>1. GameInv /\ AnswerInv => NobodyWaitsInVain
  <2>1. SUFFICES ASSUME GameInv, AnswerInv, gameState # "shutdown"
                 PROVE  /\ \A c \in Conns : conn[c] = "open" /\ player[c] = None =>
                             \/ [op |-> "login", c |-> c] \in ToSet(tasks)
                             \/ \E o \in Objects : Awaits(c, o)
                        /\ \A o \in connecting \cap online :
                             client[o] = None \/ ReleaseTask(client[o]) \in ToSet(tasks)
                        /\ \A c \in Conns : conn[c] = "open" /\ player[c] # None => c \in autosend
                        /\ Sending
    BY DEF NobodyWaitsInVain, Sending
  <2>2. /\ \A c \in Conns : conn[c] = "open" => Answered(c)
        /\ \A o \in connecting \cap online :
             client[o] = None \/ Has(tasks, "release", client[o])
        /\ Sending
    BY <2>1 DEF AnswerInv, ServedInv
  <2>3. /\ tasks \in Seq(Task) /\ ObjectTypes
        /\ Session(conn, tasks, timers, player, released)
    BY <2>1 DEF GameInv, PlayerInv, QueueTypes, SessionInv
  <2>4. ASSUME NEW c \in Conns, conn[c] = "open", player[c] = None
        PROVE  \/ [op |-> "login", c |-> c] \in ToSet(tasks)
               \/ \E o \in Objects : Awaits(c, o)
    <3>1. Waiting(c, tasks, timers)
      BY <2>2, <2>4 DEF Answered
    <3>2. CASE Has(tasks, "login", c)
      BY <2>3, <3>2, HasTask
    <3>3. CASE Has(tasks, "connect", c)
      BY <2>3, <3>3, HasTask DEF Awaits
    <3>4. CASE \E o \in Objects : <<c, o>> \in timers
      BY <3>4 DEF Awaits
    <3>5. QED BY <3>1, <3>2, <3>3, <3>4 DEF Waiting
  <2>5. ASSUME NEW o \in connecting \cap online, client[o] # None
        PROVE  ReleaseTask(client[o]) \in ToSet(tasks)
    <3>1. client[o] \in Conns
      BY <2>3, <2>5 DEF ObjectTypes
    <3>2. QED BY <2>2, <2>3, <2>5, <3>1, HasTask
  <2>6. ASSUME NEW c \in Conns, conn[c] = "open", player[c] # None PROVE c \in autosend
    <3>1. ~Waiting(c, tasks, timers)
      BY <2>3, <2>6 DEF Session, Stages, Stage
    <3>2. QED BY <2>2, <2>6, <3>1 DEF Answered, Waiting
  <2>7. QED BY <2>2, <2>4, <2>5, <2>6
<1>2. QED BY <1>1, InvariantHolds, AnswersHold, PTL

=============================================================================
