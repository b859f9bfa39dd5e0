-------------------------- MODULE SchedulerProofs --------------------------
(***************************************************************************)
(* Proofs about the scheduler for every set of events and every range of   *)
(* ids, wrapped around or not: the types, that no event runs twice or      *)
(* after its timer was cancelled, and that the map of timers follows the   *)
(* events.                                                                 *)
(***************************************************************************)
EXTENDS Scheduler, SequenceTheorems, FiniteSetTheorems, TLAPS

-----------------------------------------------------------------------------
(* The inductive invariant: an event that was added is in one place, a     *)
(* handler or completion on io_context, its timer's wait, the dispatcher's *)
(* list, run, or deleted.                                                  *)

EventOps == {"add", "expired", "aborted"}

\* no two entries of a queue carry the same event
Once(q) ==
  \A i, j \in 1 .. Len(q) :
    q[i].op \in EventOps /\ q[j].op \in EventOps /\ q[i].event = q[j].event => i = j

\* the tasks that the dispatcher was given, and those that are gone
Given == ToSet(taskList) \cup ToSet(executed)
Gone == Given \cup deleted

Apart ==
  /\ \A e \in Events : \A op \in EventOps : Queued(op, e) =>
       /\ e \notin waiting /\ e \notin Gone
       /\ eventId[e] # NoId
       /\ \A other \in EventOps \ {op} : ~Queued(other, e)
  /\ \A e \in waiting : e \notin Gone /\ eventId[e] # NoId
  /\ \A e \in Gone : eventId[e] # NoId
  /\ deleted \cap Given = {}
  /\ \A e \in cancelled : e \in deleted \/ Queued("aborted", e)

\* a timer belongs to an id that addEvent gave
IdsGiven == \A id \in eventIdTimerMap : \E e \in Events : eventId[e] = id

SchedulerInv ==
  /\ TypeOK
  /\ IsFiniteSet(waiting)
  /\ Once(ioQueue)
  /\ IsInjective(executed \o taskList)
  /\ Apart
  /\ IdsGiven
  /\ TimersMatchEvents

-----------------------------------------------------------------------------
(* Queues of handlers.                                                     *)

LEMMA HandlerShape ==
  /\ \A h \in Handler : h.op \in EventOps =>
       h.event \in Events /\ h = [op |-> h.op, event |-> h.event]
  /\ \A op \in EventOps : \A e \in Events :
       /\ [op |-> op, event |-> e] \in Handler
       /\ [op |-> op, event |-> e].op = op
       /\ [op |-> op, event |-> e].event = e
  /\ \A id \in Ids :
       [op |-> "stop", id |-> id] \in Handler /\ [op |-> "stop", id |-> id].op = "stop"
  /\ [op |-> "shutdown"] \in Handler /\ [op |-> "shutdown"].op = "shutdown"
BY DEF Handler, EventOps

LEMMA SetOfSeq ==
  ASSUME NEW T, NEW s \in Seq(T)
  PROVE  /\ DOMAIN s = 1 .. Len(s) /\ Len(s) \in Nat
         /\ \A i \in 1 .. Len(s) : s[i] \in T /\ s[i] \in ToSet(s)
         /\ \A x \in ToSet(s) : x \in T /\ \E i \in 1 .. Len(s) : s[i] = x
<1>1. /\ DOMAIN s = 1 .. Len(s) /\ Len(s) \in Nat
      /\ \A i \in 1 .. Len(s) : s[i] \in T
  BY LenProperties, ElementOfSeq
<1>2. QED BY <1>1 DEF ToSet

LEMMA SetOfTail ==
  ASSUME NEW T, NEW s \in Seq(T), s # <<>>
  PROVE  /\ Head(s) \in T /\ Head(s) = s[1] /\ Tail(s) \in Seq(T)
         /\ Len(s) \in Nat /\ Len(s) >= 1
         /\ Len(Tail(s)) = Len(s) - 1
         /\ \A i \in 1 .. Len(Tail(s)) : Tail(s)[i] = s[i + 1]
         /\ ToSet(s) = {Head(s)} \cup ToSet(Tail(s))
<1>1. /\ Head(s) \in T /\ Head(s) = s[1] /\ Tail(s) \in Seq(T)
      /\ Len(s) \in Nat /\ Len(s) >= 1
      /\ Len(Tail(s)) = Len(s) - 1
      /\ \A i \in 1 .. Len(Tail(s)) : Tail(s)[i] = s[i + 1]
  BY HeadTailProperties, EmptySeq
<1>2. DOMAIN s = 1 .. Len(s) /\ DOMAIN Tail(s) = 1 .. Len(s) - 1
  BY <1>1, SetOfSeq
<1>3. ToSet(s) \subseteq {Head(s)} \cup ToSet(Tail(s))
  <2> SUFFICES ASSUME NEW i \in 1 .. Len(s), i # 1 PROVE s[i] \in ToSet(Tail(s))
    BY <1>1, <1>2 DEF ToSet
  <2>1. i - 1 \in 1 .. Len(Tail(s)) /\ (i - 1) + 1 = i
    BY <1>1
  <2>2. Tail(s)[i - 1] = s[i]
    BY <1>1, <2>1
  <2>3. QED BY <1>1, <1>2, <2>1, <2>2 DEF ToSet
<1>4. {Head(s)} \cup ToSet(Tail(s)) \subseteq ToSet(s)
  <2>1. \A i \in 1 .. Len(s) - 1 : i + 1 \in 1 .. Len(s)
    BY <1>1
  <2>2. QED BY <1>1, <1>2, <2>1 DEF ToSet
<1>5. QED BY <1>1, <1>3, <1>4

LEMMA SetOfConcat ==
  ASSUME NEW T, NEW r \in Seq(T), NEW a \in Seq(T)
  PROVE  /\ r \o a \in Seq(T)
         /\ Len(r) \in Nat /\ Len(a) \in Nat /\ Len(r \o a) = Len(r) + Len(a)
         /\ \A i \in 1 .. Len(r) : (r \o a)[i] = r[i]
         /\ \A i \in 1 .. Len(r) + Len(a) : i > Len(r) =>
              i - Len(r) \in 1 .. Len(a) /\ (r \o a)[i] = a[i - Len(r)]
         /\ ToSet(r \o a) = ToSet(r) \cup ToSet(a)
<1>1. /\ r \o a \in Seq(T)
      /\ Len(r) \in Nat /\ Len(a) \in Nat /\ Len(r \o a) = Len(r) + Len(a)
      /\ \A i \in 1 .. Len(r) + Len(a) : (r \o a)[i] =
                     IF i <= Len(r) THEN r[i] ELSE a[i - Len(r)]
  BY ConcatProperties, LenProperties
<1>2. \A i \in 1 .. Len(r) : (r \o a)[i] = r[i]
  BY <1>1
<1>3. \A i \in 1 .. Len(r) + Len(a) : i > Len(r) =>
        i - Len(r) \in 1 .. Len(a) /\ (r \o a)[i] = a[i - Len(r)]
  BY <1>1
<1>4. /\ DOMAIN r = 1 .. Len(r) /\ DOMAIN a = 1 .. Len(a)
      /\ DOMAIN (r \o a) = 1 .. Len(r) + Len(a)
  BY <1>1, LenProperties
<1>5. ToSet(r \o a) \subseteq ToSet(r) \cup ToSet(a)
  <2> SUFFICES ASSUME NEW i \in 1 .. Len(r) + Len(a)
               PROVE  (r \o a)[i] \in ToSet(r) \cup ToSet(a)
    BY <1>4 DEF ToSet
  <2>1. CASE i <= Len(r)
    <3>1. i \in 1 .. Len(r)
      BY <1>1, <2>1
    <3>2. QED BY <1>2, <1>4, <3>1 DEF ToSet
  <2>2. CASE i > Len(r)
    BY <1>3, <1>4, <2>2 DEF ToSet
  <2>3. QED BY <1>1, <2>1, <2>2
<1>6. ToSet(r) \subseteq ToSet(r \o a)
  <2>1. \A i \in 1 .. Len(r) : i \in 1 .. Len(r) + Len(a)
    BY <1>1
  <2>2. QED BY <1>2, <1>4, <2>1 DEF ToSet
<1>7. ToSet(a) \subseteq ToSet(r \o a)
  <2> SUFFICES ASSUME NEW i \in 1 .. Len(a) PROVE a[i] \in ToSet(r \o a)
    BY <1>4 DEF ToSet
  <2>1. /\ Len(r) + i \in 1 .. Len(r) + Len(a) /\ Len(r) + i > Len(r)
        /\ (Len(r) + i) - Len(r) = i
    BY <1>1
  <2>2. (r \o a)[Len(r) + i] = a[i]
    BY <1>3, <2>1
  <2>3. QED BY <1>4, <2>1, <2>2 DEF ToSet
<1>8. QED BY <1>1, <1>2, <1>3, <1>5, <1>6, <1>7

LEMMA SetOfAppend ==
  ASSUME NEW T, NEW s \in Seq(T), NEW x \in T
  PROVE  /\ Append(s, x) \in Seq(T)
         /\ ToSet(Append(s, x)) = ToSet(s) \cup {x}
         /\ IsInjective(s) /\ x \notin ToSet(s) => IsInjective(Append(s, x))
<1>1. /\ Append(s, x) \in Seq(T)
      /\ Len(s) \in Nat /\ Len(Append(s, x)) = Len(s) + 1
      /\ \A i \in 1 .. Len(s) : Append(s, x)[i] = s[i]
      /\ Append(s, x)[Len(s) + 1] = x
  BY AppendProperties, LenProperties
<1>2. DOMAIN s = 1 .. Len(s) /\ DOMAIN Append(s, x) = 1 .. Len(s) + 1
  BY <1>1, LenProperties
<1>3. ToSet(Append(s, x)) = ToSet(s) \cup {x}
  BY <1>1, <1>2 DEF ToSet
<1>4. IsInjective(s) /\ x \notin ToSet(s) => IsInjective(Append(s, x))
  BY <1>1, <1>2 DEF ToSet, IsInjective
<1>5. QED BY <1>1, <1>3, <1>4

LEMMA SetAsSeq ==
  ASSUME NEW S, IsFiniteSet(S)
  PROVE  /\ SetToSeq(S) \in Seq(S)
         /\ IsInjective(SetToSeq(S))
         /\ ToSet(SetToSeq(S)) = S
<1> DEFINE n == Cardinality(S)
           f == SetToSeq(S)
<1>1. n \in Nat /\ ExistsBijection(1 .. n, S)
  BY FS_CardinalityType
<1>2. f \in [1 .. n -> S] /\ IsInjective(f)
  <2>1. \E g \in [1 .. n -> S] : IsInjective(g)
    BY <1>1 DEF ExistsBijection, Bijection, Injection
  <2>2. QED BY <2>1 DEF SetToSeq
<1>3. f \in Injection(1 .. n, S)
  BY <1>2 DEF Injection
<1>4. IsFiniteSet(1 .. n) /\ Cardinality(1 .. n) = n
  BY <1>1, FS_Interval
<1>5. f \in Surjection(1 .. n, S)
  BY <1>3, <1>4, FS_Injection
<1>6. \A x \in S : \E i \in 1 .. n : f[i] = x
  BY <1>5 DEF Surjection
<1>7. f \in Seq(S)
  BY <1>1, <1>2, SeqDef
<1>8. QED BY <1>2, <1>6, <1>7 DEF ToSet

-----------------------------------------------------------------------------
(* The completions of aborted waits.                                       *)
LEMMA AbortedWaits ==
  ASSUME NEW S \in SUBSET Events, IsFiniteSet(S)
  PROVE  /\ Aborted(S) \in Seq(Handler)
         /\ Once(Aborted(S))
         /\ \A h \in ToSet(Aborted(S)) : h.op = "aborted" /\ h.event \in S
         /\ \A e \in S : [op |-> "aborted", event |-> e] \in ToSet(Aborted(S))
<1> DEFINE R == {[op |-> "aborted", event |-> e] : e \in S}
           g == [e \in S |-> [op |-> "aborted", event |-> e]]
<1>1. g \in Surjection(S, R)
  BY DEF Surjection
<1>2. IsFiniteSet(R)
  BY <1>1, FS_Surjection
<1>3. /\ Aborted(S) \in Seq(R) /\ IsInjective(Aborted(S))
      /\ ToSet(Aborted(S)) = R
  BY <1>2, SetAsSeq DEF Aborted
<1>4. R \subseteq Handler
  BY HandlerShape DEF EventOps
<1>5. Aborted(S) \in Seq(Handler)
  BY <1>3, <1>4, SeqMonotonic
<1>6. \A h \in R : h.op = "aborted" /\ h.event \in S /\ h = [op |-> "aborted", event |-> h.event]
  OBVIOUS
<1>7. Once(Aborted(S))
  <2> SUFFICES ASSUME NEW i \in 1 .. Len(Aborted(S)), NEW j \in 1 .. Len(Aborted(S)),
                      Aborted(S)[i].event = Aborted(S)[j].event
               PROVE  i = j
    BY DEF Once
  <2>1. Aborted(S)[i] \in R /\ Aborted(S)[j] \in R
    BY <1>3, SetOfSeq
  <2>2. Aborted(S)[i] = Aborted(S)[j]
    BY <1>6, <2>1
  <2>3. DOMAIN Aborted(S) = 1 .. Len(Aborted(S))
    BY <1>3, SetOfSeq
  <2>4. QED BY <1>3, <2>2, <2>3 DEF IsInjective
<1>8. QED BY <1>3, <1>5, <1>6, <1>7

(* The first entry runs and the waits of S, which have no entry, are       *)
(* aborted: what is queued of an event, before and after.                  *)
LEMMA TakeAndAbort ==
  ASSUME NEW q \in Seq(Handler), q # <<>>, Once(q),
         NEW S \in SUBSET Events, IsFiniteSet(S),
         \A e \in S : \A op \in EventOps : [op |-> op, event |-> e] \notin ToSet(q),
         NEW r, r = Tail(q) \o Aborted(S)
  PROVE  /\ r \in Seq(Handler) /\ Once(r)
         /\ \A op \in EventOps : \A e \in Events :
              [op |-> op, event |-> e] \in ToSet(r) <=>
                \/ /\ [op |-> op, event |-> e] \in ToSet(q)
                   /\ ~(Head(q).op \in EventOps /\ Head(q).event = e)
                \/ op = "aborted" /\ e \in S
<1> DEFINE t == Tail(q)
           a == Aborted(S)
<1>1. /\ Head(q) \in Handler /\ Head(q) = q[1] /\ t \in Seq(Handler)
      /\ Len(q) \in Nat /\ Len(q) >= 1 /\ Len(t) = Len(q) - 1
      /\ \A i \in 1 .. Len(t) : t[i] = q[i + 1]
      /\ ToSet(q) = {Head(q)} \cup ToSet(t)
  BY SetOfTail
<1>2. /\ a \in Seq(Handler) /\ Once(a)
      /\ \A h \in ToSet(a) : h.op = "aborted" /\ h.event \in S
      /\ \A e \in S : [op |-> "aborted", event |-> e] \in ToSet(a)
  BY AbortedWaits
<1>3. /\ r \in Seq(Handler)
      /\ Len(t) \in Nat /\ Len(a) \in Nat /\ Len(r) = Len(t) + Len(a)
      /\ \A i \in 1 .. Len(t) : r[i] = t[i]
      /\ \A i \in 1 .. Len(t) + Len(a) : i > Len(t) =>
           i - Len(t) \in 1 .. Len(a) /\ r[i] = a[i - Len(t)]
      /\ ToSet(r) = ToSet(t) \cup ToSet(a)
  <2>1. t \in Seq(Handler) /\ a \in Seq(Handler) /\ r = t \o a
    BY <1>1, <1>2
  <2>2. /\ t \o a \in Seq(Handler)
        /\ Len(t) \in Nat /\ Len(a) \in Nat /\ Len(t \o a) = Len(t) + Len(a)
        /\ \A i \in 1 .. Len(t) : (t \o a)[i] = t[i]
        /\ \A i \in 1 .. Len(t) + Len(a) : i > Len(t) =>
             i - Len(t) \in 1 .. Len(a) /\ (t \o a)[i] = a[i - Len(t)]
        /\ ToSet(t \o a) = ToSet(t) \cup ToSet(a)
    <3> HIDE DEF t, a
    <3> QED BY ONLY <2>1, SetOfConcat, Zenon
  <2>3. QED BY ONLY <2>1, <2>2, Zenon
<1>4. Once(t)
  <2> SUFFICES ASSUME NEW i \in 1 .. Len(t), NEW j \in 1 .. Len(t),
                      t[i].op \in EventOps, t[j].op \in EventOps, t[i].event = t[j].event
               PROVE  i = j
    BY DEF Once
  <2>1. i + 1 \in 1 .. Len(q) /\ j + 1 \in 1 .. Len(q)
    BY <1>1
  <2>2. t[i] = q[i + 1] /\ t[j] = q[j + 1]
    BY <1>1
  <2>3. i + 1 = j + 1
    BY <2>1, <2>2 DEF Once
  <2>4. QED BY <2>3
<1>5. \A h \in ToSet(t) : h.op \in EventOps =>
        ~(Head(q).op \in EventOps /\ Head(q).event = h.event)
  <2> SUFFICES ASSUME NEW h \in ToSet(t), h.op \in EventOps,
                      Head(q).op \in EventOps, Head(q).event = h.event
               PROVE  FALSE
    OBVIOUS
  <2>0. t \in Seq(Handler)
    BY <1>1
  <2>1. PICK i \in 1 .. Len(t) : t[i] = h
    <3> HIDE DEF t
    <3> QED BY <2>0, SetOfSeq
  <2>2. i + 1 \in 1 .. Len(q) /\ 1 \in 1 .. Len(q) /\ q[i + 1] = h
    BY <1>1, <2>1
  <2>3. i + 1 = 1
    BY <1>1, <2>2 DEF Once
  <2>4. QED BY <2>3
<1>6. \A i \in 1 .. Len(t) : \A j \in 1 .. Len(a) :
        t[i].op \in EventOps => t[i].event # a[j].event
  <2> SUFFICES ASSUME NEW i \in 1 .. Len(t), NEW j \in 1 .. Len(a), t[i].op \in EventOps
               PROVE  t[i].event # a[j].event
    OBVIOUS
  <2>1. t[i] \in Handler /\ t[i] \in ToSet(q)
    BY <1>1, SetOfSeq
  <2>2. t[i] = [op |-> t[i].op, event |-> t[i].event]
    BY <2>1, HandlerShape
  <2>3. t[i].event \notin S
    BY <2>1, <2>2
  <2>4. a[j].event \in S
    BY <1>2, SetOfSeq
  <2>5. QED BY <2>3, <2>4
<1>7. Once(r)
  <2> SUFFICES ASSUME NEW i \in 1 .. Len(r), NEW j \in 1 .. Len(r),
                      r[i].op \in EventOps, r[j].op \in EventOps, r[i].event = r[j].event
               PROVE  i = j
    BY DEF Once
  <2>1. CASE i <= Len(t) /\ j <= Len(t)
    <3>1. i \in 1 .. Len(t) /\ j \in 1 .. Len(t)
      BY <1>3, <2>1
    <3>2. QED BY <1>3, <1>4, <3>1 DEF Once
  <2>2. CASE i > Len(t) /\ j > Len(t)
    <3>1. /\ i - Len(t) \in 1 .. Len(a) /\ r[i] = a[i - Len(t)]
          /\ j - Len(t) \in 1 .. Len(a) /\ r[j] = a[j - Len(t)]
      BY <1>3, <2>2
    <3>2. i - Len(t) = j - Len(t)
      BY <1>2, <3>1 DEF Once
    <3>3. QED BY <1>3, <3>2
  <2>3. CASE i <= Len(t) /\ j > Len(t)
    <3>1. i \in 1 .. Len(t) /\ j - Len(t) \in 1 .. Len(a) /\ r[j] = a[j - Len(t)]
      BY <1>3, <2>3
    <3>2. QED BY <1>3, <1>6, <3>1
  <2>4. CASE i > Len(t) /\ j <= Len(t)
    <3>1. j \in 1 .. Len(t) /\ i - Len(t) \in 1 .. Len(a) /\ r[i] = a[i - Len(t)]
      BY <1>3, <2>4
    <3>2. QED BY <1>3, <1>6, <3>1
  <2>5. QED BY <1>3, <2>1, <2>2, <2>3, <2>4
<1>8. ASSUME NEW op \in EventOps, NEW e \in Events
      PROVE  [op |-> op, event |-> e] \in ToSet(r) <=>
               \/ /\ [op |-> op, event |-> e] \in ToSet(q)
                  /\ ~(Head(q).op \in EventOps /\ Head(q).event = e)
               \/ op = "aborted" /\ e \in S
  <2> DEFINE h == [op |-> op, event |-> e]
  <2>1. h.op = op /\ h.event = e
    OBVIOUS
  <2>2. h \in ToSet(a) <=> op = "aborted" /\ e \in S
    BY <1>2, <2>1
  <2>3. h \in ToSet(t) <=>
          h \in ToSet(q) /\ ~(Head(q).op \in EventOps /\ Head(q).event = e)
    BY <1>1, <1>5, <2>1
  <2>4. QED BY <1>3, <2>2, <2>3
<1>9. QED BY <1>3, <1>7, <1>8

(* A handler or completion is queued.                                      *)
LEMMA Queueing ==
  ASSUME NEW q \in Seq(Handler), Once(q), NEW h \in Handler,
         h.op \in EventOps => \A op \in EventOps : [op |-> op, event |-> h.event] \notin ToSet(q),
         NEW r, r = Append(q, h)
  PROVE  /\ r \in Seq(Handler) /\ Once(r)
         /\ \A op \in EventOps : \A e \in Events :
              [op |-> op, event |-> e] \in ToSet(r) <=>
                \/ [op |-> op, event |-> e] \in ToSet(q)
                \/ h.op = op /\ h.event = e
<1>1. /\ r \in Seq(Handler) /\ Len(q) \in Nat /\ Len(r) = Len(q) + 1
      /\ \A i \in 1 .. Len(q) : r[i] = q[i]
      /\ r[Len(q) + 1] = h
  BY AppendProperties, LenProperties
<1>2. ToSet(r) = ToSet(q) \cup {h}
  BY SetOfAppend
<1>3. \A i \in 1 .. Len(q) : q[i].op \in EventOps /\ h.op \in EventOps => q[i].event # h.event
  <2> SUFFICES ASSUME NEW i \in 1 .. Len(q), q[i].op \in EventOps, h.op \in EventOps
               PROVE  q[i].event # h.event
    OBVIOUS
  <2>1. q[i] \in Handler /\ q[i] \in ToSet(q)
    BY SetOfSeq
  <2>2. q[i] = [op |-> q[i].op, event |-> q[i].event]
    BY <2>1, HandlerShape
  <2>3. QED BY <2>1, <2>2
<1>4. Once(r)
  <2> SUFFICES ASSUME NEW i \in 1 .. Len(r), NEW j \in 1 .. Len(r),
                      r[i].op \in EventOps, r[j].op \in EventOps, r[i].event = r[j].event
               PROVE  i = j
    BY DEF Once
  <2>1. CASE i \in 1 .. Len(q) /\ j \in 1 .. Len(q)
    BY <1>1, <2>1 DEF Once
  <2>2. CASE i = Len(q) + 1 /\ j \in 1 .. Len(q)
    BY <1>1, <1>3, <2>2
  <2>3. CASE i \in 1 .. Len(q) /\ j = Len(q) + 1
    BY <1>1, <1>3, <2>3
  <2>4. CASE i = Len(q) + 1 /\ j = Len(q) + 1
    BY <2>4
  <2>5. QED BY <1>1, <2>1, <2>2, <2>3, <2>4
<1>5. ASSUME NEW op \in EventOps, NEW e \in Events
      PROVE  [op |-> op, event |-> e] \in ToSet(r) <=>
               \/ [op |-> op, event |-> e] \in ToSet(q)
               \/ h.op = op /\ h.event = e
  <2>1. h = [op |-> op, event |-> e] <=> h.op = op /\ h.event = e
    BY HandlerShape
  <2>2. QED BY <1>2, <2>1
<1>6. QED BY <1>1, <1>4, <1>5

-----------------------------------------------------------------------------
(* What a step of io_context and a post to it do to what is queued.        *)

LEMMA HandleEffect ==
  ASSUME SchedulerInv, ioQueue # <<>>, NEW S \in SUBSET waiting,
         ioQueue' = Tail(ioQueue) \o Aborted(S)
  PROVE  /\ ioQueue' \in Seq(Handler) /\ Once(ioQueue)'
         /\ Head(ioQueue) \in Handler
         /\ \A op \in EventOps : \A e \in Events :
              Queued(op, e)' <=>
                \/ /\ Queued(op, e)
                   /\ ~(Head(ioQueue).op \in EventOps /\ Head(ioQueue).event = e)
                \/ op = "aborted" /\ e \in S
         /\ Head(ioQueue).op \in EventOps =>
              /\ Head(ioQueue).event \in Events
              /\ Queued(Head(ioQueue).op, Head(ioQueue).event)
<1>1. ioQueue \in Seq(Handler) /\ Once(ioQueue) /\ waiting \subseteq Events
  BY DEF SchedulerInv, TypeOK
<1>2. S \in SUBSET Events /\ IsFiniteSet(S)
  BY <1>1, FS_Subset DEF SchedulerInv
<1>3. \A e \in S : \A op \in EventOps : [op |-> op, event |-> e] \notin ToSet(ioQueue)
  BY <1>1 DEF SchedulerInv, Apart, Queued
<1>4. /\ ioQueue' \in Seq(Handler) /\ Once(ioQueue')
      /\ \A op \in EventOps : \A e \in Events :
              [op |-> op, event |-> e] \in ToSet(ioQueue') <=>
                \/ /\ [op |-> op, event |-> e] \in ToSet(ioQueue)
                   /\ ~(Head(ioQueue).op \in EventOps /\ Head(ioQueue).event = e)
                \/ op = "aborted" /\ e \in S
  BY <1>1, <1>2, <1>3, TakeAndAbort
<1>5. Head(ioQueue) \in Handler /\ Head(ioQueue) \in ToSet(ioQueue)
  BY <1>1, SetOfTail
<1>6. Head(ioQueue).op \in EventOps =>
        /\ Head(ioQueue).event \in Events
        /\ Queued(Head(ioQueue).op, Head(ioQueue).event)
  BY <1>5, HandlerShape DEF Queued
<1>7. Once(ioQueue)'
  BY <1>4 DEF Once
<1>8. QED BY <1>4, <1>5, <1>6, <1>7 DEF Queued

LEMMA PostEffect ==
  ASSUME SchedulerInv, NEW h \in Handler,
         h.op \in EventOps => \A op \in EventOps : ~Queued(op, h.event),
         ioQueue' = Append(ioQueue, h)
  PROVE  /\ ioQueue' \in Seq(Handler) /\ Once(ioQueue)'
         /\ \A op \in EventOps : \A e \in Events :
              Queued(op, e)' <=> Queued(op, e) \/ (h.op = op /\ h.event = e)
<1>1. ioQueue \in Seq(Handler) /\ Once(ioQueue)
  BY DEF SchedulerInv, TypeOK
<1>2. /\ ioQueue' \in Seq(Handler) /\ Once(ioQueue')
      /\ \A op \in EventOps : \A e \in Events :
              [op |-> op, event |-> e] \in ToSet(ioQueue') <=>
                \/ [op |-> op, event |-> e] \in ToSet(ioQueue)
                \/ h.op = op /\ h.event = e
  BY <1>1, Queueing DEF Queued
<1>3. Once(ioQueue)'
  BY <1>2 DEF Once
<1>4. QED BY <1>2, <1>3 DEF Queued

(* The dispatcher takes a scheduled task: the order of tasks, run or to be *)
(* run, does not change.                                                   *)
LEMMA RunEffect ==
  ASSUME TypeOK, RunTask
  PROVE  /\ executed' \o taskList' = executed \o taskList
         /\ taskList' \in Seq(Events) /\ executed' \in Seq(Events)
         /\ Given' = Given
<1>1. /\ taskList \in Seq(Events) /\ executed \in Seq(Events) /\ taskList # <<>>
      /\ executed' = Append(executed, Head(taskList)) /\ taskList' = Tail(taskList)
  BY DEF TypeOK, RunTask
<1>2. /\ Head(taskList) \in Events /\ Tail(taskList) \in Seq(Events)
      /\ ToSet(taskList) = {Head(taskList)} \cup ToSet(Tail(taskList))
      /\ Head(taskList) = taskList[1]
      /\ Len(taskList) \in Nat /\ Len(taskList) >= 1
      /\ Len(Tail(taskList)) = Len(taskList) - 1
      /\ \A i \in 1 .. Len(Tail(taskList)) : Tail(taskList)[i] = taskList[i + 1]
  BY <1>1, SetOfTail
<1>3. /\ executed' \in Seq(Events)
      /\ ToSet(executed') = ToSet(executed) \cup {Head(taskList)}
      /\ Len(executed) \in Nat /\ Len(executed') = Len(executed) + 1
      /\ \A i \in 1 .. Len(executed) : executed'[i] = executed[i]
      /\ executed'[Len(executed) + 1] = Head(taskList)
  BY <1>1, <1>2, SetOfAppend, AppendProperties, LenProperties
<1> DEFINE x == executed \o taskList
           y == executed' \o taskList'
<1>4. /\ x \in Seq(Events) /\ Len(x) = Len(executed) + Len(taskList)
      /\ \A i \in 1 .. Len(x) :
           x[i] = IF i <= Len(executed) THEN executed[i] ELSE taskList[i - Len(executed)]
  BY <1>1, ConcatProperties
<1>5. /\ y \in Seq(Events) /\ Len(y) = Len(executed') + Len(taskList')
      /\ \A i \in 1 .. Len(y) :
           y[i] = IF i <= Len(executed') THEN executed'[i] ELSE taskList'[i - Len(executed')]
  BY <1>1, <1>2, <1>3, ConcatProperties
<1>6. Len(x) = Len(y) /\ Len(x) \in Nat
  BY <1>1, <1>2, <1>3, <1>4, <1>5
<1>7. ASSUME NEW i \in 1 .. Len(x) PROVE x[i] = y[i]
  <2>1. CASE i <= Len(executed)
    BY <1>3, <1>4, <1>5, <1>6, <2>1
  <2>2. CASE i = Len(executed) + 1
    <3>1. x[i] = taskList[1] /\ y[i] = executed'[i]
      BY <1>3, <1>4, <1>5, <1>6, <2>2
    <3>2. QED BY <1>2, <1>3, <2>2, <3>1
  <2>3. CASE i > Len(executed) + 1
    <3>1. /\ x[i] = taskList[i - Len(executed)]
          /\ y[i] = Tail(taskList)[i - (Len(executed) + 1)]
      BY <1>1, <1>3, <1>4, <1>5, <1>6, <2>3
    <3>2. /\ i - (Len(executed) + 1) \in 1 .. Len(Tail(taskList))
          /\ (i - (Len(executed) + 1)) + 1 = i - Len(executed)
      BY <1>2, <1>3, <1>4, <2>3
    <3>3. QED BY <1>2, <3>1, <3>2
  <2>4. QED BY <1>3, <1>4, <1>6, <2>1, <2>2, <2>3
<1>8. x = y
  BY <1>4, <1>5, <1>6, <1>7, SeqEqual
<1>9. QED BY <1>1, <1>2, <1>3, <1>8 DEF Given

(* An expired task goes to the dispatcher, or is deleted.                  *)
LEMMA DispatchEffect ==
  ASSUME TypeOK, NEW e \in Events, e \notin Gone, DeleteOrDispatch(e),
         IsInjective(executed \o taskList), UNCHANGED executed
  PROVE  /\ taskList' \in Seq(Events) /\ deleted' \subseteq Events
         /\ IsInjective(executed' \o taskList')
         /\ Given \subseteq Given' /\ deleted \subseteq deleted'
         /\ Gone' = Gone \cup {e}
         /\ (deleted \cap Given = {} => deleted' \cap Given' = {})
<1>1. /\ taskList \in Seq(Events) /\ executed \in Seq(Events) /\ deleted \subseteq Events
      /\ e \notin ToSet(taskList) /\ e \notin ToSet(executed) /\ e \notin deleted
  BY DEF TypeOK, Gone, Given
<1>2. CASE taskList' = taskList /\ deleted' = deleted \cup {e}
  BY <1>1, <1>2 DEF Gone, Given
<1>3. CASE taskList' = Append(taskList, e) /\ deleted' = deleted
  <2>1. taskList' \in Seq(Events) /\ ToSet(taskList') = ToSet(taskList) \cup {e}
    BY <1>1, <1>3, SetOfAppend
  <2>2. /\ executed \o taskList \in Seq(Events)
        /\ ToSet(executed \o taskList) = ToSet(executed) \cup ToSet(taskList)
    BY <1>1, SetOfConcat
  <2>3. executed' \o taskList' = Append(executed \o taskList, e)
    <3>1. /\ <<e>> \in Seq(Events) /\ taskList' = taskList \o <<e>>
      BY <1>1, <1>3, AppendIsConcat
    <3>2. executed \o (taskList \o <<e>>) = (executed \o taskList) \o <<e>>
      BY <1>1, <3>1, ConcatAssociative
    <3>3. Append(executed \o taskList, e) = (executed \o taskList) \o <<e>>
      BY <2>2, AppendIsConcat
    <3>4. QED BY <3>1, <3>2, <3>3
  <2>4. IsInjective(executed' \o taskList')
    <3>1. e \notin ToSet(executed \o taskList)
      BY <1>1, <2>2
    <3>2. IsInjective(Append(executed \o taskList, e))
      BY <2>2, <3>1, SetOfAppend
    <3>3. QED BY <2>3, <3>2
  <2>5. QED BY <1>1, <1>3, <2>1, <2>4 DEF Gone, Given
<1>4. QED BY <1>2, <1>3 DEF DeleteOrDispatch

-----------------------------------------------------------------------------
(* One lemma for each action that moves an event.                          *)

LEMMA AddEventStep ==
  ASSUME SchedulerInv, NEW e \in Events, AddEvent(e)
  PROVE  SchedulerInv'
<1> DEFINE h == [op |-> "add", event |-> e]
<1>1. /\ eventId[e] = NoId /\ NextId \in Ids /\ NextId # NoId
      /\ eventId \in [Events -> Ids \cup {NoId}]
      /\ eventId' = [eventId EXCEPT ![e] = NextId] /\ lastEventId' = NextId
      /\ ioQueue' = Append(ioQueue, h)
      /\ UNCHANGED <<terminated, ioStopped, eventIdTimerMap, waiting, dispatcherOpen,
                     stopRequested, cancelled, taskList, executed, deleted>>
  <2>1. NextId \in Ids /\ NextId # NoId
    BY IdAssumption DEF SchedulerInv, TypeOK, NextId, Ids
  <2>2. QED BY <2>1 DEF AddEvent, SchedulerInv, TypeOK, taskVars
<1>2. /\ h \in Handler /\ h.op = "add" /\ h.event = e
      /\ \A op \in EventOps : ~Queued(op, e)
      /\ e \notin waiting /\ e \notin Gone
  BY <1>1, HandlerShape DEF SchedulerInv, Apart, EventOps
<1>3. /\ ioQueue' \in Seq(Handler) /\ Once(ioQueue)'
      /\ \A op \in EventOps : \A f \in Events :
           Queued(op, f)' <=> Queued(op, f) \/ (op = "add" /\ f = e)
  <2> HIDE DEF h
  <2>1. /\ ioQueue' \in Seq(Handler) /\ Once(ioQueue)'
        /\ \A op \in EventOps : \A f \in Events :
             Queued(op, f)' <=> Queued(op, f) \/ (h.op = op /\ h.event = f)
    BY <1>1, <1>2, PostEffect
  <2>2. QED BY <1>2, <2>1
<1>4. TypeOK'
  BY <1>1, <1>3 DEF SchedulerInv, TypeOK
<1>5. Gone' = Gone /\ Given' = Given
  BY <1>1 DEF Gone, Given
<1>6. \A f \in Events : eventId[f] # NoId => eventId'[f] # NoId
  BY <1>1
<1>7. Apart'
  <2>1. Apart /\ waiting \subseteq Events /\ cancelled \subseteq Events
    BY DEF SchedulerInv, TypeOK
  <2>2. Gone \subseteq Events
    <3>1. taskList \in Seq(Events) /\ executed \in Seq(Events) /\ deleted \subseteq Events
      BY DEF SchedulerInv, TypeOK
    <3>2. QED BY <3>1, SetOfSeq DEF Gone, Given
  <2>3. \A f \in Events : \A op \in EventOps : Queued(op, f)' =>
          /\ f \notin waiting /\ f \notin Gone /\ eventId'[f] # NoId
          /\ \A other \in EventOps \ {op} : ~Queued(other, f)'
    BY <1>1, <1>2, <1>3, <1>6, <2>1 DEF Apart, EventOps
  <2>4. /\ \A f \in waiting : f \notin Gone /\ eventId'[f] # NoId
        /\ \A f \in Gone : eventId'[f] # NoId
    BY <1>6, <2>1, <2>2 DEF Apart
  <2>5. \A f \in cancelled : f \in deleted \/ Queued("aborted", f)'
    BY <1>3, <2>1 DEF Apart, EventOps
  <2>6. QED BY <1>1, <1>5, <2>1, <2>3, <2>4, <2>5 DEF Apart
<1>8. IdsGiven'
  <2> SUFFICES ASSUME NEW id \in eventIdTimerMap PROVE \E f \in Events : eventId'[f] = id
    BY <1>1 DEF IdsGiven
  <2>1. id \in Ids /\ id # NoId
    BY IdAssumption DEF SchedulerInv, TypeOK, Ids
  <2>2. PICK f \in Events : eventId[f] = id
    BY DEF SchedulerInv, IdsGiven
  <2>3. f # e
    BY <1>1, <2>1, <2>2
  <2>4. eventId'[f] = id
    BY <1>1, <2>2, <2>3
  <2>5. QED BY <2>4
<1>9. TimersMatchEvents'
  <2> SUFFICES ASSUME NEW f \in Events, eventId'[f] # NoId, UniqueId(f)', ~ioStopped
               PROVE  eventId'[f] \in eventIdTimerMap
                       <=> f \in waiting \/ Queued("expired", f)' \/ Queued("aborted", f)'
    BY <1>1 DEF TimersMatchEvents
  <2>1. CASE f = e
    <3>1. NextId \notin eventIdTimerMap
      BY <1>1, <2>1 DEF SchedulerInv, IdsGiven, UniqueId
    <3>2. QED BY <1>1, <1>2, <1>3, <2>1, <3>1 DEF EventOps
  <2>2. CASE f # e
    <3>1. eventId'[f] = eventId[f] /\ UniqueId(f)
      BY <1>1, <2>2 DEF UniqueId
    <3>2. QED BY <1>3, <2>2, <3>1 DEF SchedulerInv, TimersMatchEvents, EventOps
  <2>3. QED BY <2>1, <2>2
<1>10. QED BY <1>1, <1>3, <1>4, <1>7, <1>8, <1>9 DEF SchedulerInv

LEMMA ExpireStep ==
  ASSUME SchedulerInv, NEW e \in Events, Expire(e)
  PROVE  SchedulerInv'
<1> DEFINE h == [op |-> "expired", event |-> e]
<1>1. /\ e \in waiting /\ waiting' = waiting \ {e}
      /\ ioQueue' = Append(ioQueue, h)
      /\ UNCHANGED <<terminated, lastEventId, eventId, dispatcherOpen, stopRequested,
                     ioStopped, eventIdTimerMap, cancelled, taskList, executed, deleted>>
  BY DEF Expire, taskVars, gameVars
<1>2. /\ h \in Handler /\ h.op = "expired" /\ h.event = e
      /\ \A op \in EventOps : ~Queued(op, e)
      /\ e \notin Gone /\ eventId[e] # NoId
  BY <1>1, HandlerShape DEF SchedulerInv, Apart, EventOps
<1>3. /\ ioQueue' \in Seq(Handler) /\ Once(ioQueue)'
      /\ \A op \in EventOps : \A f \in Events :
           Queued(op, f)' <=> Queued(op, f) \/ (op = "expired" /\ f = e)
  <2> HIDE DEF h
  <2>1. /\ ioQueue' \in Seq(Handler) /\ Once(ioQueue)'
        /\ \A op \in EventOps : \A f \in Events :
             Queued(op, f)' <=> Queued(op, f) \/ (h.op = op /\ h.event = f)
    BY <1>1, <1>2, PostEffect
  <2>2. QED BY <1>2, <2>1
<1>4. TypeOK'
  BY <1>1, <1>3 DEF SchedulerInv, TypeOK
<1>5. Gone' = Gone /\ Given' = Given
  BY <1>1 DEF Gone, Given
<1>6. Apart'
  BY <1>1, <1>2, <1>3, <1>5 DEF SchedulerInv, TypeOK, Apart, EventOps
<1>7. IdsGiven'
  BY <1>1 DEF SchedulerInv, IdsGiven
<1>8. TimersMatchEvents'
  BY <1>1, <1>2, <1>3 DEF SchedulerInv, TimersMatchEvents, UniqueId, EventOps
<1>9. IsFiniteSet(waiting')
  BY <1>1, FS_RemoveElement DEF SchedulerInv
<1>10. QED BY <1>1, <1>3, <1>4, <1>6, <1>7, <1>8, <1>9 DEF SchedulerInv

LEMMA HandleAddStep ==
  ASSUME SchedulerInv, HandleAdd
  PROVE  SchedulerInv'
<1> DEFINE e == Head(ioQueue).event
           id == eventId[e]
           S == WaitsOn(id)
<1>1. /\ ioQueue # <<>> /\ Head(ioQueue).op = "add"
      /\ eventIdTimerMap' = eventIdTimerMap \cup {id}
      /\ waiting' = (waiting \ S) \cup {e}
      /\ ioQueue' = Tail(ioQueue) \o Aborted(S)
      /\ UNCHANGED <<terminated, lastEventId, eventId, dispatcherOpen, stopRequested,
                     ioStopped, cancelled, taskList, executed, deleted>>
  BY DEF HandleAdd, Handle, taskVars, gameVars
<1>2. S \in SUBSET waiting /\ \A f \in waiting : f \in S <=> eventId[f] = id
  BY DEF WaitsOn
<1> HIDE DEF S
<1>3. /\ ioQueue' \in Seq(Handler) /\ Once(ioQueue)'
      /\ \A op \in EventOps : \A f \in Events :
           Queued(op, f)' <=>
             (Queued(op, f) /\ f # e) \/ (op = "aborted" /\ f \in S)
      /\ e \in Events /\ Queued("add", e)
  <2>1. "add" \in EventOps
    BY DEF EventOps
  <2>2. QED BY <1>1, <1>2, <2>1, HandleEffect
<1> HIDE DEF e
<1>4. /\ e \notin waiting /\ e \notin Gone /\ id \in Ids /\ id # NoId
      /\ ~Queued("expired", e) /\ ~Queued("aborted", e)
      /\ waiting \subseteq Events /\ eventIdTimerMap \subseteq Ids
      /\ cancelled \subseteq Events
  BY <1>3 DEF SchedulerInv, TypeOK, Apart, EventOps
<1>5. TypeOK'
  BY <1>1, <1>3, <1>4 DEF SchedulerInv, TypeOK
<1>6. Gone' = Gone /\ Given' = Given
  BY <1>1 DEF Gone, Given
<1>7. Apart'
  <2>1. Apart /\ e \notin S
    BY <1>2, <1>4 DEF SchedulerInv
  <2>2. \A f \in Events : \A op \in EventOps : Queued(op, f)' =>
          /\ f \notin waiting' /\ f \notin Gone /\ eventId[f] # NoId
          /\ \A other \in EventOps \ {op} : ~Queued(other, f)'
    BY <1>1, <1>2, <1>3, <1>4, <2>1 DEF Apart, EventOps
  <2>3. \A f \in waiting' : f \notin Gone /\ eventId[f] # NoId
    BY <1>1, <1>4, <2>1 DEF Apart
  <2>4. \A f \in cancelled : f \in deleted \/ Queued("aborted", f)'
    BY <1>3, <1>4, <2>1 DEF Apart, EventOps
  <2>5. QED BY <1>1, <1>6, <2>1, <2>2, <2>3, <2>4 DEF Apart
<1>8. IdsGiven'
  BY <1>1, <1>3 DEF SchedulerInv, IdsGiven
<1>9. TimersMatchEvents'
  <2> SUFFICES ASSUME NEW f \in Events, eventId[f] # NoId, UniqueId(f), ~ioStopped
               PROVE  eventId[f] \in eventIdTimerMap'
                       <=> f \in waiting' \/ Queued("expired", f)' \/ Queued("aborted", f)'
    BY <1>1 DEF TimersMatchEvents, UniqueId
  <2>1. CASE f = e
    BY <1>1, <2>1
  <2>2. CASE f # e
    <3>1. eventId[f] # id /\ f \notin S
      BY <1>2, <1>3, <2>2 DEF UniqueId
    <3>2. QED BY <1>1, <1>3, <2>2, <3>1 DEF SchedulerInv, TimersMatchEvents, EventOps
  <2>3. QED BY <2>1, <2>2
<1>10. IsFiniteSet(waiting')
  <2>1. IsFiniteSet(waiting \ S)
    BY FS_Subset DEF SchedulerInv
  <2>2. QED BY <1>1, <2>1, FS_AddElement
<1>11. QED BY <1>1, <1>3, <1>5, <1>7, <1>8, <1>9, <1>10 DEF SchedulerInv

LEMMA HandleStopStep ==
  ASSUME SchedulerInv, HandleStop
  PROVE  SchedulerInv'
<1> DEFINE S == WaitsOn(Head(ioQueue).id)
<1>1. /\ ioQueue # <<>> /\ Head(ioQueue).op = "stop"
      /\ waiting' = waiting \ S /\ cancelled' = cancelled \cup S
      /\ ioQueue' = Tail(ioQueue) \o Aborted(S)
      /\ UNCHANGED <<terminated, lastEventId, eventId, dispatcherOpen, stopRequested,
                     ioStopped, eventIdTimerMap, taskList, executed, deleted>>
  BY DEF HandleStop, Handle, taskVars, gameVars
<1>2. S \in SUBSET waiting
  BY DEF WaitsOn
<1> HIDE DEF S
<1>3. /\ ioQueue' \in Seq(Handler) /\ Once(ioQueue)'
      /\ \A op \in EventOps : \A f \in Events :
           Queued(op, f)' <=> Queued(op, f) \/ (op = "aborted" /\ f \in S)
  <2>1. "stop" \notin EventOps
    BY DEF EventOps
  <2>2. QED BY <1>1, <1>2, <2>1, HandleEffect
<1>4. waiting \subseteq Events /\ cancelled \subseteq Events
  BY DEF SchedulerInv, TypeOK
<1>5. TypeOK'
  BY <1>1, <1>2, <1>3, <1>4 DEF SchedulerInv, TypeOK
<1>6. Gone' = Gone /\ Given' = Given
  BY <1>1 DEF Gone, Given
<1>7. Apart'
  <2>1. Apart
    BY DEF SchedulerInv
  <2>2. \A f \in Events : \A op \in EventOps : Queued(op, f)' =>
          /\ f \notin waiting' /\ f \notin Gone /\ eventId[f] # NoId
          /\ \A other \in EventOps \ {op} : ~Queued(other, f)'
    BY <1>1, <1>2, <1>3, <2>1 DEF Apart, EventOps
  <2>3. \A f \in waiting' : f \notin Gone /\ eventId[f] # NoId
    BY <1>1, <2>1 DEF Apart
  <2>4. \A f \in cancelled' : f \in deleted \/ Queued("aborted", f)'
    BY <1>1, <1>2, <1>3, <1>4, <2>1 DEF Apart, EventOps
  <2>5. QED BY <1>1, <1>6, <2>1, <2>2, <2>3, <2>4 DEF Apart
<1>8. IdsGiven'
  BY <1>1 DEF SchedulerInv, IdsGiven
<1>9. TimersMatchEvents'
  BY <1>1, <1>2, <1>3 DEF SchedulerInv, TimersMatchEvents, UniqueId, EventOps
<1>10. IsFiniteSet(waiting')
  BY <1>1, FS_Subset DEF SchedulerInv
<1>11. QED BY <1>1, <1>3, <1>5, <1>7, <1>8, <1>9, <1>10 DEF SchedulerInv

LEMMA HandleShutdownStep ==
  ASSUME SchedulerInv, HandleShutdown
  PROVE  SchedulerInv'
<1>1. /\ ioQueue # <<>> /\ Head(ioQueue).op = "shutdown"
      /\ waiting' = {} /\ ioStopped' = TRUE
      /\ ioQueue' = Tail(ioQueue) \o Aborted(waiting)
      /\ UNCHANGED <<terminated, lastEventId, eventId, dispatcherOpen, stopRequested,
                     eventIdTimerMap, cancelled, taskList, executed, deleted>>
  BY DEF HandleShutdown, Handle, taskVars, gameVars
<1>2. /\ ioQueue' \in Seq(Handler) /\ Once(ioQueue)'
      /\ \A op \in EventOps : \A f \in Events :
           Queued(op, f)' <=> Queued(op, f) \/ (op = "aborted" /\ f \in waiting)
  <2>1. "shutdown" \notin EventOps
    BY DEF EventOps
  <2>2. QED BY <1>1, <2>1, HandleEffect
<1>3. waiting \subseteq Events /\ cancelled \subseteq Events /\ ioStopped' \in BOOLEAN
  BY <1>1 DEF SchedulerInv, TypeOK
<1>4. TypeOK'
  BY <1>1, <1>2, <1>3 DEF SchedulerInv, TypeOK
<1>5. Gone' = Gone /\ Given' = Given
  BY <1>1 DEF Gone, Given
<1>6. Apart'
  BY <1>1, <1>2, <1>3, <1>5 DEF SchedulerInv, Apart, EventOps
<1>7. IdsGiven' /\ TimersMatchEvents'
  BY <1>1 DEF SchedulerInv, IdsGiven, TimersMatchEvents
<1>8. IsFiniteSet(waiting')
  BY <1>1, FS_EmptySet
<1>9. QED BY <1>1, <1>2, <1>4, <1>6, <1>7, <1>8 DEF SchedulerInv

(* A completion: the id is erased, and the task dispatched or deleted.     *)
LEMMA CompletionStep ==
  ASSUME SchedulerInv, NEW op \in {"expired", "aborted"}, Handle(op),
         EraseTimer(eventId[Head(ioQueue).event]),
         taskList' \in Seq(Events), deleted' \subseteq Events,
         IsInjective(executed' \o taskList'),
         deleted' \cap Given' = {}, deleted \subseteq deleted',
         Gone' = Gone \cup {Head(ioQueue).event},
         op = "aborted" => Head(ioQueue).event \in deleted',
         UNCHANGED <<gameVars, ioStopped, cancelled, executed>>
  PROVE  SchedulerInv'
<1> DEFINE e == Head(ioQueue).event
           id == eventId[e]
           S == WaitsOn(id)
<1>1. /\ ioQueue # <<>> /\ Head(ioQueue).op = op
      /\ eventIdTimerMap' = eventIdTimerMap \ {id}
      /\ waiting' = waiting \ S
      /\ ioQueue' = Tail(ioQueue) \o Aborted(S)
      /\ UNCHANGED <<terminated, lastEventId, eventId, dispatcherOpen, stopRequested,
                     ioStopped, cancelled, executed>>
  BY DEF Handle, EraseTimer, gameVars
<1>2. S \in SUBSET waiting /\ \A f \in waiting : f \in S <=> eventId[f] = id
  BY DEF WaitsOn
<1> HIDE DEF S
<1>3. /\ ioQueue' \in Seq(Handler) /\ Once(ioQueue)'
      /\ \A o \in EventOps : \A f \in Events :
           Queued(o, f)' <=>
             (Queued(o, f) /\ f # e) \/ (o = "aborted" /\ f \in S)
      /\ e \in Events /\ Queued(op, e)
  <2>1. op \in EventOps
    BY DEF EventOps
  <2>2. QED BY <1>1, <1>2, <2>1, HandleEffect
<1>4. Gone' = Gone \cup {e} /\ (op = "aborted" => e \in deleted')
  OBVIOUS
<1> HIDE DEF e
<1>5. /\ e \notin waiting /\ e \notin Gone /\ eventId[e] # NoId
      /\ waiting \subseteq Events /\ cancelled \subseteq Events
      /\ \A o \in EventOps : Queued(o, e) => o = op
  BY <1>3 DEF SchedulerInv, TypeOK, Apart, EventOps
<1>6. TypeOK'
  <2>1. /\ executed \in Seq(Events) /\ eventId \in [Events -> Ids \cup {NoId}]
        /\ eventIdTimerMap' \subseteq Ids /\ waiting' \subseteq Events
    BY <1>1, <1>5 DEF SchedulerInv, TypeOK
  <2>2. QED BY <1>1, <1>3, <2>1 DEF SchedulerInv, TypeOK, Given
<1>7. Apart'
  <2>1. Apart /\ e \notin S
    BY <1>2, <1>5 DEF SchedulerInv
  <2>2. \A f \in Events : \A o \in EventOps : Queued(o, f)' =>
          /\ f \notin waiting' /\ f \notin Gone' /\ eventId[f] # NoId
          /\ \A other \in EventOps \ {o} : ~Queued(other, f)'
    BY <1>1, <1>2, <1>3, <1>4, <2>1 DEF Apart, EventOps
  <2>3. \A f \in waiting' : f \notin Gone' /\ eventId[f] # NoId
    BY <1>1, <1>4, <1>5, <2>1 DEF Apart
  <2>4. \A f \in Gone' : eventId[f] # NoId
    BY <1>4, <1>5, <2>1 DEF Apart
  <2>5. \A f \in cancelled : f \in deleted' \/ Queued("aborted", f)'
    <3> SUFFICES ASSUME NEW f \in cancelled, f \notin deleted'
                 PROVE  Queued("aborted", f)'
      OBVIOUS
    <3>1. f \in Events /\ Queued("aborted", f) /\ "aborted" \in EventOps
      BY <1>5, <2>1 DEF Apart, EventOps
    <3>2. f # e
      BY <1>4, <1>5, <3>1
    <3>3. QED BY <1>3, <3>1, <3>2
  <2>6. QED BY <1>1, <2>2, <2>3, <2>4, <2>5 DEF Apart
<1>8. IdsGiven'
  BY <1>1 DEF SchedulerInv, IdsGiven
<1>9. TimersMatchEvents'
  <2> SUFFICES ASSUME NEW f \in Events, eventId[f] # NoId, UniqueId(f), ~ioStopped
               PROVE  eventId[f] \in eventIdTimerMap'
                       <=> f \in waiting' \/ Queued("expired", f)' \/ Queued("aborted", f)'
    BY <1>1 DEF TimersMatchEvents, UniqueId
  <2>1. CASE f = e
    BY <1>1, <1>2, <1>3, <1>5, <2>1 DEF EventOps
  <2>2. CASE f # e
    <3>1. eventId[f] # id /\ f \notin S
      BY <1>2, <1>3, <2>2 DEF UniqueId
    <3>2. QED BY <1>1, <1>3, <2>2, <3>1 DEF SchedulerInv, TimersMatchEvents, EventOps
  <2>3. QED BY <2>1, <2>2
<1>10. IsFiniteSet(waiting')
  BY <1>1, FS_Subset DEF SchedulerInv
<1>11. QED BY <1>3, <1>6, <1>7, <1>8, <1>9, <1>10 DEF SchedulerInv

\* what the entry at the front says of its event
LEMMA CompletionHead ==
  ASSUME SchedulerInv, NEW op \in {"expired", "aborted"}, Handle(op)
  PROVE  /\ Head(ioQueue).event \in Events /\ Head(ioQueue).event \notin Gone
         /\ TypeOK /\ IsInjective(executed \o taskList) /\ deleted \cap Given = {}
<1>1. op \in EventOps /\ ioQueue # <<>> /\ Head(ioQueue).op = op
  BY DEF EventOps, Handle
<1>2. ioQueue \in Seq(Handler)
  BY DEF SchedulerInv, TypeOK
<1>3. Head(ioQueue) \in Handler /\ Head(ioQueue) \in ToSet(ioQueue)
  BY <1>1, <1>2, SetOfTail
<1>4. Head(ioQueue).event \in Events /\ Queued(op, Head(ioQueue).event)
  BY <1>1, <1>3, HandlerShape DEF Queued
<1>5. QED BY <1>1, <1>4 DEF SchedulerInv, Apart

LEMMA SchedulerStep == SchedulerInv /\ [Next]_vars => SchedulerInv'
<1> SUFFICES ASSUME SchedulerInv, [Next]_vars PROVE SchedulerInv'
  OBVIOUS
<1>1. ASSUME NEW e \in Events, AddEvent(e) PROVE SchedulerInv'
  BY <1>1, AddEventStep
<1>2. ASSUME NEW e \in Events, Expire(e) PROVE SchedulerInv'
  BY <1>2, ExpireStep
<1>3. ASSUME NEW h \in Handler, h.op \notin EventOps, ioQueue' = Append(ioQueue, h),
             terminated' \in BOOLEAN, stopRequested' \subseteq Events,
             UNCHANGED <<lastEventId, eventId, ioStopped, eventIdTimerMap, waiting,
                         dispatcherOpen, cancelled, taskVars>>
      PROVE  SchedulerInv'
  <2>1. /\ ioQueue' \in Seq(Handler) /\ Once(ioQueue)'
        /\ \A op \in EventOps : \A e \in Events : Queued(op, e)' <=> Queued(op, e)
    BY <1>3, PostEffect
  <2>2. UNCHANGED <<lastEventId, eventId, ioStopped, eventIdTimerMap, waiting,
                    dispatcherOpen, cancelled, taskList, executed, deleted>>
    BY <1>3 DEF taskVars
  <2>3. TypeOK'
    BY <1>3, <2>1, <2>2 DEF SchedulerInv, TypeOK
  <2>4. Gone' = Gone /\ Given' = Given
    BY <2>2 DEF Gone, Given
  <2>5. Apart'
    BY <2>1, <2>2, <2>4 DEF SchedulerInv, TypeOK, Apart, EventOps
  <2>6. IdsGiven' /\ TimersMatchEvents'
    BY <2>1, <2>2 DEF SchedulerInv, IdsGiven, TimersMatchEvents, UniqueId, EventOps
  <2>7. QED BY <2>1, <2>2, <2>3, <2>5, <2>6 DEF SchedulerInv
<1>4. ASSUME NEW e \in Events, StopEvent(e) PROVE SchedulerInv'
  <2> DEFINE h == [op |-> "stop", id |-> eventId[e]]
  <2>1. eventId[e] \in Ids /\ stopRequested' \subseteq Events /\ terminated' \in BOOLEAN
    BY <1>4 DEF StopEvent, SchedulerInv, TypeOK
  <2>2. h \in Handler /\ h.op \notin EventOps
    BY <2>1, HandlerShape DEF EventOps
  <2>3. /\ ioQueue' = Append(ioQueue, h)
        /\ UNCHANGED <<lastEventId, eventId, ioStopped, eventIdTimerMap, waiting,
                       dispatcherOpen, cancelled, taskVars>>
    BY <1>4 DEF StopEvent
  <2> HIDE DEF h
  <2>4. QED BY <1>3, <2>1, <2>2, <2>3
<1>5. CASE Shutdown
  <2> DEFINE h == [op |-> "shutdown"]
  <2>1. h \in Handler /\ h.op \notin EventOps
    BY HandlerShape DEF EventOps
  <2>2. stopRequested' \subseteq Events /\ terminated' \in BOOLEAN
    BY <1>5 DEF Shutdown, SchedulerInv, TypeOK
  <2>3. /\ ioQueue' = Append(ioQueue, h)
        /\ UNCHANGED <<lastEventId, eventId, ioStopped, eventIdTimerMap, waiting,
                       dispatcherOpen, cancelled, taskVars>>
    BY <1>5 DEF Shutdown
  <2> HIDE DEF h
  <2>4. QED BY <1>3, <2>1, <2>2, <2>3
<1>6. CASE RunTask
  <2>1. /\ executed' \o taskList' = executed \o taskList
        /\ taskList' \in Seq(Events) /\ executed' \in Seq(Events)
        /\ Given' = Given
    BY <1>6, RunEffect DEF SchedulerInv
  <2>2. UNCHANGED <<terminated, lastEventId, eventId, dispatcherOpen, stopRequested,
                    ioQueue, ioStopped, eventIdTimerMap, waiting, deleted, cancelled>>
    BY <1>6 DEF RunTask, gameVars
  <2>3. TypeOK' /\ Gone' = Gone
    BY <2>1, <2>2 DEF SchedulerInv, TypeOK, Gone, Given
  <2>4. Apart' /\ Once(ioQueue)'
    BY <2>1, <2>2, <2>3 DEF SchedulerInv, Apart, Queued, Once
  <2>5. IdsGiven' /\ TimersMatchEvents'
    BY <2>2 DEF SchedulerInv, IdsGiven, TimersMatchEvents, UniqueId, Queued
  <2>6. QED BY <2>1, <2>2, <2>3, <2>4, <2>5 DEF SchedulerInv
<1>7. ASSUME dispatcherOpen' \in BOOLEAN,
             UNCHANGED <<terminated, lastEventId, eventId, stopRequested, ioQueue,
                         ioStopped, eventIdTimerMap, waiting, cancelled, taskVars>>
      PROVE  SchedulerInv'
  <2>1. UNCHANGED <<terminated, lastEventId, eventId, stopRequested, ioQueue, ioStopped,
                    eventIdTimerMap, waiting, cancelled, taskList, executed, deleted>>
    BY <1>7 DEF taskVars
  <2>2. TypeOK'
    BY <1>7, <2>1 DEF SchedulerInv, TypeOK
  <2>3. Apart' /\ Once(ioQueue)'
    BY <2>1 DEF SchedulerInv, Apart, Queued, Once, Gone, Given
  <2>4. IdsGiven' /\ TimersMatchEvents'
    BY <2>1 DEF SchedulerInv, IdsGiven, TimersMatchEvents, UniqueId, Queued
  <2>5. QED BY <2>1, <2>2, <2>3, <2>4 DEF SchedulerInv
<1>8. CASE StopDispatcher
  <2>1. dispatcherOpen' \in BOOLEAN
    BY <1>8 DEF StopDispatcher
  <2>2. QED BY <1>7, <1>8, <2>1 DEF StopDispatcher
<1>9. CASE HandleExpired
  <2> DEFINE e == Head(ioQueue).event
  <2>1. /\ Handle("expired") /\ EraseTimer(eventId[e]) /\ DeleteOrDispatch(e)
        /\ UNCHANGED <<gameVars, ioStopped, cancelled, executed>>
    BY <1>9 DEF HandleExpired
  <2>2. /\ e \in Events /\ e \notin Gone /\ TypeOK
        /\ IsInjective(executed \o taskList) /\ deleted \cap Given = {}
    BY <2>1, CompletionHead
  <2> HIDE DEF e
  <2>3. /\ taskList' \in Seq(Events) /\ deleted' \subseteq Events
        /\ IsInjective(executed' \o taskList')
        /\ deleted \subseteq deleted' /\ Gone' = Gone \cup {e}
        /\ deleted' \cap Given' = {}
    BY <2>1, <2>2, DispatchEffect
  <2> USE DEF e
  <2>4. QED BY <2>1, <2>3, CompletionStep
<1>10. CASE HandleAborted
  <2> DEFINE e == Head(ioQueue).event
  <2>1. /\ Handle("aborted") /\ EraseTimer(eventId[e]) /\ deleted' = deleted \cup {e}
        /\ UNCHANGED <<gameVars, ioStopped, cancelled, executed>>
        /\ UNCHANGED taskList
    BY <1>10 DEF HandleAborted
  <2>2. /\ e \in Events /\ e \notin Gone /\ TypeOK
        /\ IsInjective(executed \o taskList) /\ deleted \cap Given = {}
    BY <2>1, CompletionHead
  <2>3. /\ taskList' \in Seq(Events) /\ deleted' \subseteq Events
        /\ IsInjective(executed' \o taskList')
        /\ deleted \subseteq deleted' /\ Gone' = Gone \cup {e}
        /\ deleted' \cap Given' = {} /\ e \in deleted'
    BY <2>1, <2>2 DEF TypeOK, Gone, Given
  <2>4. QED BY <2>1, <2>3, CompletionStep
<1>11. CASE UNCHANGED vars
  <2>1. dispatcherOpen' \in BOOLEAN
    BY <1>11 DEF vars, SchedulerInv, TypeOK
  <2>2. QED BY <1>7, <1>11, <2>1 DEF vars, taskVars
<1>12. QED
  BY <1>1, <1>2, <1>4, <1>5, <1>6, <1>8, <1>9, <1>10, <1>11, HandleAddStep,
     HandleStopStep, HandleShutdownStep
  DEF Next, SchedulerThread

LEMMA InvariantHolds == Spec => []SchedulerInv
<1>1. Init => SchedulerInv
  <2> SUFFICES ASSUME Init PROVE SchedulerInv
    OBVIOUS
  <2>1. /\ ioQueue = <<>> /\ taskList = <<>> /\ executed = <<>>
        /\ waiting = {} /\ eventIdTimerMap = {} /\ deleted = {} /\ cancelled = {}
        /\ eventId = [e \in Events |-> NoId]
    BY DEF Init
  <2>2. ToSet(<<>>) = {}
    BY DEF ToSet
  <2>3. 0 \in Ids
    BY IdAssumption DEF Ids
  <2>4. TypeOK
    <3>1. /\ terminated \in BOOLEAN /\ ioStopped \in BOOLEAN /\ dispatcherOpen \in BOOLEAN
          /\ stopRequested = {} /\ lastEventId \in Ids
      BY <2>3, Zenon DEF Init
    <3>2. QED BY <2>1, <2>2, <3>1 DEF TypeOK
  <2>5. Once(ioQueue) /\ IsInjective(executed \o taskList)
    BY <2>1 DEF Once, IsInjective
  <2>6. Apart /\ IdsGiven /\ TimersMatchEvents
    BY <2>1, <2>2 DEF Apart, IdsGiven, TimersMatchEvents, Queued, Gone, Given
  <2>7. QED BY <2>1, <2>4, <2>5, <2>6, FS_EmptySet DEF SchedulerInv
<1>2. QED BY <1>1, SchedulerStep, PTL DEF Spec

-----------------------------------------------------------------------------
(* The theorems.                                                           *)

(* Every variable keeps the type the code declares, and no task is deleted *)
(* both unrun and by the dispatcher.                                       *)
THEOREM TypeCorrect == Spec => []TypeOK
<1>1. SchedulerInv => TypeOK
  BY DEF SchedulerInv
<1>2. QED BY <1>1, InvariantHolds, PTL

(* However calls, expiries and cancellations cross, and however often the  *)
(* ids have wrapped around: no task runs twice, and a task whose timer     *)
(* stopEvent cancelled never runs.                                         *)
THEOREM CancelCorrect == Spec => []CancelledNeverRuns
<1>1. SchedulerInv => CancelledNeverRuns
  <2> SUFFICES ASSUME SchedulerInv, NEW e \in cancelled, e \in Given PROVE FALSE
    BY DEF SchedulerInv, CancelledNeverRuns, Given
  <2>1. e \in Events /\ "aborted" \in EventOps /\ e \in Gone
    BY DEF SchedulerInv, TypeOK, EventOps, Gone
  <2>2. QED BY <2>1 DEF SchedulerInv, Apart
<1>2. QED BY <1>1, InvariantHolds, PTL

(* The map has a timer for an id exactly while its event waits or its      *)
(* completion is queued, as long as the id is not used twice.              *)
THEOREM TimersCorrect == Spec => []TimersMatchEvents
<1>1. SchedulerInv => TimersMatchEvents
  BY DEF SchedulerInv
<1>2. QED BY <1>1, InvariantHolds, PTL
=============================================================================
