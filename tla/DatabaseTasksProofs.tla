------------------------- MODULE DatabaseTasksProofs -------------------------
(***************************************************************************)
(* Proofs about the asynchronous database queue and the saves of players,  *)
(* for every set of queries and any number of lost connections: the types, *)
(* that flush() overtakes only the query in the other thread's hand, that  *)
(* a shutdown leaves no accepted query behind and sends none twice, and    *)
(* that what lasts of a player is of one save.                             *)
(***************************************************************************)
EXTENDS DatabaseTasks, SequenceTheorems, TLAPS

-----------------------------------------------------------------------------
(* The two inductive invariants.                                           *)

\* how many of the accepted queries have left the list
Taken == Len(accepted) - Len(tasks)

\* the list is the end of what was accepted; what left it is executed or held
QueueInOrder ==
  /\ IsInjective(accepted) /\ IsInjective(executed)
  /\ Len(tasks) <= Len(accepted)
  /\ \A i \in 1 .. Len(tasks) : tasks[i] = accepted[Taken + i]
  /\ \A i \in 1 .. Taken :
       accepted[i] \in ToSet(executed) \cup {held[t] : t \in Threads}
  /\ \A q \in ToSet(executed) : \E i \in 1 .. Taken : accepted[i] = q
  /\ \A t \in Threads :
       held[t] # NoQuery => \E i \in 1 .. Taken : accepted[i] = held[t]

\* a thread at pc holds a query just while it runs it and posts its callback
Holds(t, pc) ==
  /\ pc \in {"run", "post"} <=> held[t] # NoQuery
  /\ pc = "run" => held[t] \notin ToSet(executed)
  /\ pc = "post" => held[t] \in ToSet(executed)

QueueTypes ==
  /\ tasks \in Seq(Queries)
  /\ dpc \in {"check", "lock", "waiting", "woken", "run", "post", "done"}
  /\ held \in [Threads -> Queries \cup {NoQuery}]
  /\ gpc \in {"idle", "notify", "begin", "save", "rollback", "flush", "run",
              "post", "stopping", "closed", "wake", "down"}
  /\ accepted \in Seq(Queries) /\ executed \in Seq(Queries)
  /\ callbacks \subseteq WithCallback /\ dropped \subseteq WithCallback

QueueInv ==
  /\ QueueTypes
  /\ QueueInOrder
  /\ Holds("database", dpc) /\ Holds("game", gpc)
  /\ held["database"] = held["game"] => held["database"] = NoQuery
  /\ gpc \in {"stopping", "closed", "wake", "down"} => tasks = <<>>

\* the version of the row and of the items that savePlayer has written
Written(n) ==
  /\ n >= 1 => work.row = version
  /\ n = 3 => work.items = version

SaveTypes ==
  /\ threadState \in {"RUNNING", "CLOSING", "TERMINATED"}
  /\ gpc \in {"idle", "notify", "begin", "save", "rollback", "flush", "run",
              "post", "stopping", "closed", "wake", "down"}
  /\ purpose \in {"logout", "save", "close", "shutdown"}
  /\ version \in Versions /\ step \in 0 .. 3 /\ tries \in 0 .. 3
  /\ saved \in BOOLEAN /\ dispatcherOpen \in BOOLEAN
  /\ retryQueries \in BOOLEAN /\ connected \in BOOLEAN
  /\ inTransaction \in BOOLEAN
  /\ losses \in 0 .. MaxLosses

Rows == [row : Versions, items : Versions \cup {Deleted}]

\* where the dispatcher thread is in a save, and what it has switched
SaveControl ==
  /\ gpc \in {"save", "rollback"} => ~retryQueries
  /\ gpc \notin {"save", "rollback"} => retryQueries
  /\ gpc \notin {"save", "rollback"} => step = 0 /\ ~inTransaction
  /\ gpc \in {"begin", "save", "rollback"} => tries >= 1 /\ ~saved
  /\ gpc \in {"flush", "run", "post"} => purpose # "logout"
  /\ gpc = "save" /\ connected => inTransaction
  /\ inTransaction => connected

\* what the connection sees and what lasts
SaveData ==
  /\ tables \in Rows /\ work \in Rows
  /\ ~inTransaction => work = tables
  /\ inTransaction => Written(step)
  /\ tables.row = tables.items
  /\ saved => tables.row = version

SaveInv == SaveTypes /\ SaveControl /\ SaveData

-----------------------------------------------------------------------------
(* Sequences of queries: their head, their set and their end.              *)

LEMMA HeadTail ==
  ASSUME NEW s \in Seq(Queries), s # <<>>
  PROVE  /\ Head(s) \in Queries
         /\ Head(s) = s[1]
         /\ Len(s) \in Nat /\ Len(s) >= 1
         /\ Tail(s) \in Seq(Queries)
         /\ Len(Tail(s)) = Len(s) - 1
         /\ \A i \in 1 .. Len(s) - 1 : Tail(s)[i] = s[i + 1]
BY HeadTailProperties

LEMMA Appending ==
  ASSUME NEW s \in Seq(Queries), NEW e \in Queries
  PROVE  /\ Append(s, e) \in Seq(Queries)
         /\ Len(s) \in Nat
         /\ Len(Append(s, e)) = Len(s) + 1
         /\ \A i \in 1 .. Len(s) : Append(s, e)[i] = s[i]
         /\ Append(s, e)[Len(s) + 1] = e
         /\ ToSet(Append(s, e)) = ToSet(s) \cup {e}
         /\ IsInjective(s) /\ e \notin ToSet(s) => IsInjective(Append(s, e))
<1>1. /\ Append(s, e) \in Seq(Queries)
      /\ Len(s) \in Nat
      /\ Len(Append(s, e)) = Len(s) + 1
      /\ \A i \in 1 .. Len(s) : Append(s, e)[i] = s[i]
      /\ Append(s, e)[Len(s) + 1] = e
  BY AppendProperties
<1>2. /\ DOMAIN s = 1 .. Len(s)
      /\ DOMAIN Append(s, e) = 1 .. Len(s) + 1
  BY <1>1, LenProperties
<1>3. ToSet(Append(s, e)) = ToSet(s) \cup {e}
  BY <1>1, <1>2 DEF ToSet
<1>4. IsInjective(s) /\ e \notin ToSet(s) => IsInjective(Append(s, e))
  BY <1>1, <1>2 DEF ToSet, IsInjective
<1>5. QED BY <1>1, <1>3, <1>4

LEMMA SetOfSeq ==
  ASSUME NEW s \in Seq(Queries)
  PROVE  /\ DOMAIN s = 1 .. Len(s)
         /\ Len(s) \in Nat
         /\ \A i \in 1 .. Len(s) : s[i] \in Queries /\ s[i] \in ToSet(s)
         /\ \A q \in ToSet(s) : q \in Queries /\ \E i \in 1 .. Len(s) : s[i] = q
<1>1. /\ DOMAIN s = 1 .. Len(s)
      /\ Len(s) \in Nat
      /\ \A i \in 1 .. Len(s) : s[i] \in Queries
  BY LenProperties, ElementOfSeq
<1>2. QED BY <1>1 DEF ToSet

LEMMA InjectiveSeq ==
  ASSUME NEW s \in Seq(Queries), IsInjective(s),
         NEW i \in 1 .. Len(s), NEW j \in 1 .. Len(s), s[i] = s[j]
  PROVE  i = j
BY LenProperties DEF IsInjective

-----------------------------------------------------------------------------
(* What each operation does to the list, the hands and the history.        *)

LEMMA PopKeepsOrder ==
  ASSUME QueueTypes, QueueInOrder, NEW t \in Threads, Pop(t),
         held[t] = NoQuery, executed' = executed
  PROVE  /\ QueueInOrder'
         /\ tasks' \in Seq(Queries) /\ held' \in [Threads -> Queries \cup {NoQuery}]
         /\ held'[t] \in Queries /\ held'[t] \notin ToSet(executed)
         /\ \A u \in Threads \ {t} : held'[u] = held[u] /\ held[u] # held'[t]
<1> DEFINE q == Head(tasks)
           n == Taken
<1>1. /\ q \in Queries /\ q = tasks[1]
      /\ Len(tasks) \in Nat /\ Len(tasks) >= 1
      /\ tasks' \in Seq(Queries) /\ Len(tasks') = Len(tasks) - 1
      /\ \A i \in 1 .. Len(tasks) - 1 : tasks'[i] = tasks[i + 1]
  BY HeadTail DEF Pop, QueueTypes
<1>2. /\ held' = [held EXCEPT ![t] = q] /\ accepted' = accepted
      /\ held' \in [Threads -> Queries \cup {NoQuery}]
  BY <1>1 DEF Pop, QueueTypes
<1>3. /\ accepted \in Seq(Queries) /\ Len(accepted) \in Nat
      /\ Len(tasks) <= Len(accepted)
      /\ n \in Nat /\ n + 1 <= Len(accepted) /\ Taken' = n + 1
  BY <1>1, <1>2, LenProperties DEF QueueTypes, QueueInOrder, Taken
<1>4. accepted[n + 1] = q
  BY <1>1 DEF QueueInOrder
<1>5. \A i \in 1 .. n : accepted[i] # q
  BY <1>3, <1>4, InjectiveSeq DEF QueueInOrder
<1>6. q \notin ToSet(executed) /\ \A u \in Threads : held[u] # q
  BY <1>1, <1>5, QueriesAssumption DEF QueueInOrder
<1>7. \A i \in 1 .. Len(tasks') : tasks'[i] = accepted'[Taken' + i]
  <2> SUFFICES ASSUME NEW i \in 1 .. Len(tasks') PROVE tasks'[i] = accepted'[Taken' + i]
    OBVIOUS
  <2>1. i \in 1 .. Len(tasks) - 1 /\ i + 1 \in 1 .. Len(tasks)
    BY <1>1
  <2>2. tasks'[i] = accepted[n + (i + 1)]
    BY <1>1, <2>1 DEF QueueInOrder
  <2>3. n + (i + 1) = Taken' + i
    BY <1>3
  <2>4. QED BY <1>2, <2>2, <2>3
<1>8. \A i \in 1 .. n + 1 :
        accepted[i] \in ToSet(executed) \cup {held'[u] : u \in Threads}
  <2>1. held'[t] = q /\ \A u \in Threads \ {t} : held'[u] = held[u]
    BY <1>2 DEF QueueTypes
  <2>2. \A i \in 1 .. n :
          accepted[i] \in ToSet(executed) \cup {held[u] : u \in Threads}
    BY DEF QueueInOrder
  <2>3. \A i \in 1 .. n : accepted[i] # NoQuery
    BY <1>3, SetOfSeq, QueriesAssumption
  <2>4. QED BY <1>3, <1>4, <2>1, <2>2, <2>3
<1>9. \A i \in 1 .. n : i \in 1 .. n + 1
  BY <1>3
<1>10. \A u \in Threads :
         held'[u] # NoQuery => \E i \in 1 .. n + 1 : accepted[i] = held'[u]
  BY <1>2, <1>3, <1>4, <1>9 DEF QueueInOrder, QueueTypes
<1>11. \A r \in ToSet(executed) : \E i \in 1 .. n + 1 : accepted[i] = r
  BY <1>9 DEF QueueInOrder
<1>12. QueueInOrder'
  BY <1>1, <1>2, <1>3, <1>7, <1>8, <1>10, <1>11 DEF QueueInOrder
<1>13. QED BY <1>1, <1>2, <1>6, <1>12 DEF QueueTypes

LEMMA RunKeepsOrder ==
  ASSUME QueueTypes, QueueInOrder, NEW t \in Threads, RunQuery(t),
         held[t] # NoQuery, held[t] \notin ToSet(executed), UNCHANGED queueVars
  PROVE  /\ QueueInOrder'
         /\ executed' \in Seq(Queries)
         /\ ToSet(executed') = ToSet(executed) \cup {held[t]}
<1>1. held[t] \in Queries /\ executed \in Seq(Queries)
  BY DEF QueueTypes
<1>2. /\ executed' \in Seq(Queries)
      /\ ToSet(executed') = ToSet(executed) \cup {held[t]}
      /\ IsInjective(executed')
  BY <1>1, Appending DEF RunQuery, QueueInOrder
<1>3. UNCHANGED <<tasks, accepted, held>> /\ Taken' = Taken
  BY DEF RunQuery, queueVars, Taken
<1>4. QueueInOrder'
  BY <1>2, <1>3 DEF QueueInOrder
<1>5. QED BY <1>2, <1>4

LEMMA PostKeepsOrder ==
  ASSUME QueueTypes, QueueInOrder, NEW t \in Threads, PostCallback(t),
         held[t] \in ToSet(executed), UNCHANGED queueVars
  PROVE  /\ QueueInOrder'
         /\ held' \in [Threads -> Queries \cup {NoQuery}]
         /\ held'[t] = NoQuery
         /\ \A u \in Threads \ {t} : held'[u] = held[u]
         /\ callbacks' \subseteq WithCallback /\ dropped' \subseteq WithCallback
<1>1. /\ held' \in [Threads -> Queries \cup {NoQuery}]
      /\ held'[t] = NoQuery
      /\ \A u \in Threads \ {t} : held'[u] = held[u]
  BY DEF PostCallback, QueueTypes
<1>2. callbacks' \subseteq WithCallback /\ dropped' \subseteq WithCallback
  BY DEF PostCallback, Posts, QueueTypes
<1>3. UNCHANGED <<tasks, accepted, executed>> /\ Taken' = Taken
  BY DEF PostCallback, queueVars, Taken
<1>4. \A i \in 1 .. Taken :
        accepted[i] \in ToSet(executed) \cup {held'[u] : u \in Threads}
  BY <1>1 DEF QueueInOrder
<1>5. \A u \in Threads :
        held'[u] # NoQuery => \E i \in 1 .. Taken : accepted[i] = held'[u]
  BY <1>1 DEF QueueInOrder
<1>6. QueueInOrder'
  BY <1>3, <1>4, <1>5 DEF QueueInOrder
<1>7. QED BY <1>1, <1>2, <1>6

LEMMA AddKeepsOrder ==
  ASSUME QueueTypes, QueueInOrder, NEW q \in Queries, AddTask(q)
  PROVE  /\ QueueInOrder'
         /\ tasks' \in Seq(Queries) /\ accepted' \in Seq(Queries)
<1>1. /\ tasks \in Seq(Queries) /\ accepted \in Seq(Queries)
      /\ tasks' = Append(tasks, q) /\ accepted' = Append(accepted, q)
      /\ q \notin ToSet(accepted)
      /\ UNCHANGED <<held, executed>>
  BY DEF AddTask, QueueTypes, resultVars
<1>2. /\ tasks' \in Seq(Queries) /\ Len(tasks) \in Nat
      /\ Len(tasks') = Len(tasks) + 1
      /\ \A i \in 1 .. Len(tasks) : tasks'[i] = tasks[i]
      /\ tasks'[Len(tasks) + 1] = q
  BY <1>1, Appending
<1>3. /\ accepted' \in Seq(Queries) /\ Len(accepted) \in Nat
      /\ Len(accepted') = Len(accepted) + 1
      /\ \A i \in 1 .. Len(accepted) : accepted'[i] = accepted[i]
      /\ accepted'[Len(accepted) + 1] = q
      /\ IsInjective(accepted')
  BY <1>1, Appending DEF QueueInOrder
<1>4. /\ Taken \in Nat /\ Taken' = Taken /\ Taken <= Len(accepted)
      /\ Taken + Len(tasks) = Len(accepted)
  BY <1>2, <1>3 DEF Taken, QueueInOrder
<1>5. \A i \in 1 .. Taken : i \in 1 .. Len(accepted) /\ accepted'[i] = accepted[i]
  BY <1>3, <1>4
<1>6. \A i \in 1 .. Len(tasks') : tasks'[i] = accepted'[Taken' + i]
  <2> SUFFICES ASSUME NEW i \in 1 .. Len(tasks') PROVE tasks'[i] = accepted'[Taken' + i]
    OBVIOUS
  <2>1. CASE i = Len(tasks) + 1
    <3>1. Taken' + i = Len(accepted) + 1
      BY <1>2, <1>3, <1>4, <2>1
    <3>2. QED BY <1>2, <1>3, <2>1, <3>1
  <2>2. CASE i # Len(tasks) + 1
    <3>1. i \in 1 .. Len(tasks) /\ Taken + i \in 1 .. Len(accepted)
      BY <1>2, <1>3, <1>4, <2>2
    <3>2. tasks[i] = accepted[Taken + i]
      BY <3>1 DEF QueueInOrder
    <3>3. QED BY <1>2, <1>3, <1>4, <3>1, <3>2
  <2>3. QED BY <2>1, <2>2
<1>7. \A i \in 1 .. Taken' :
        accepted'[i] \in ToSet(executed') \cup {held'[t] : t \in Threads}
  <2>1. \A i \in 1 .. Taken :
          accepted[i] \in ToSet(executed) \cup {held[t] : t \in Threads}
    BY DEF QueueInOrder
  <2>2. \A i \in 1 .. Taken :
          accepted'[i] \in ToSet(executed) \cup {held[t] : t \in Threads}
    BY <1>5, <2>1
  <2>3. QED BY <1>1, <1>4, <2>2
<1>8. /\ \A r \in ToSet(executed') : \E i \in 1 .. Taken' : accepted'[i] = r
      /\ \A t \in Threads :
           held'[t] # NoQuery => \E i \in 1 .. Taken' : accepted'[i] = held'[t]
  <2>1. \A r \in ToSet(executed) : \E i \in 1 .. Taken : accepted[i] = r
    BY DEF QueueInOrder
  <2>2. \A t \in Threads :
          held[t] # NoQuery => \E i \in 1 .. Taken : accepted[i] = held[t]
    BY DEF QueueInOrder
  <2>3. \A r \in ToSet(executed) : \E i \in 1 .. Taken : accepted'[i] = r
    BY <1>5, <2>1
  <2>4. \A t \in Threads :
          held[t] # NoQuery => \E i \in 1 .. Taken : accepted'[i] = held[t]
    BY <1>5, <2>2
  <2>5. QED BY <1>1, <1>4, <2>3, <2>4
<1>9. IsInjective(executed') /\ Len(tasks') <= Len(accepted')
  BY <1>1, <1>2, <1>3, <1>4 DEF QueueInOrder
<1>10. QueueInOrder'
  BY <1>3, <1>6, <1>7, <1>8, <1>9 DEF QueueInOrder
<1>11. QED BY <1>2, <1>3, <1>10

-----------------------------------------------------------------------------
(* The queue's invariant.                                                  *)

\* a step that leaves the list, the hands and the history alone
LEMMA SameQueue ==
  ASSUME QueueInv, UNCHANGED <<held, queueVars, resultVars>>
  PROVE  /\ QueueInOrder'
         /\ (held["database"] = held["game"] => held["database"] = NoQuery)'
<1>1. UNCHANGED <<held, tasks, accepted, executed>> /\ Taken' = Taken
  BY DEF queueVars, resultVars, Taken
<1>2. QueueInOrder'
  BY <1>1 DEF QueueInv, QueueInOrder
<1>3. QED BY <1>1, <1>2 DEF QueueInv

LEMMA QueueStep == QueueInv /\ SaveInv /\ [Next]_vars => QueueInv'
<1> SUFFICES ASSUME QueueInv, SaveInv, [Next]_vars PROVE QueueInv'
  OBVIOUS
<1>0. QueueTypes /\ QueueInOrder
  BY DEF QueueInv
<1>1. ASSUME UNCHANGED <<held, queueVars, resultVars>>,
             dpc' = dpc \/ {dpc, dpc'} \subseteq {"check", "lock", "waiting", "woken", "done"},
             gpc' = gpc \/ {gpc, gpc'} \subseteq {"idle", "notify", "begin", "save",
                             "rollback", "flush", "stopping", "closed", "wake", "down"},
             gpc' \in {"stopping", "closed", "wake", "down"} =>
               tasks = <<>> \/ gpc \in {"stopping", "closed", "wake", "down"}
      PROVE  QueueInv'
  BY <1>1, SameQueue DEF QueueInv, QueueTypes, Holds, queueVars, resultVars
<1>2. CASE CheckState \/ Wait \/ SpuriousWakeup \/ TakeNothing
  BY <1>0, <1>1, <1>2 DEF CheckState, Wait, SpuriousWakeup, TakeNothing, QueueTypes
<1>3. CASE Take
  <2>1. /\ "database" \in Threads /\ Pop("database")
        /\ held["database"] = NoQuery /\ executed' = executed
    BY <1>3 DEF Take, resultVars, QueueInv, Holds, Threads
  <2>2. /\ QueueInOrder'
        /\ tasks' \in Seq(Queries) /\ held' \in [Threads -> Queries \cup {NoQuery}]
        /\ held'["database"] \in Queries
        /\ held'["database"] \notin ToSet(executed)
        /\ held'["game"] = held["game"] /\ held["game"] # held'["database"]
    BY <1>0, <2>1, PopKeepsOrder DEF Threads
  <2>3. /\ dpc' = "run" /\ UNCHANGED <<gpc, resultVars, accepted>>
        /\ tasks # <<>>
    BY <1>3 DEF Take, Pop
  <2>4. QED
    BY <2>2, <2>3, QueriesAssumption DEF QueueInv, QueueTypes, Holds, resultVars
<1>4. CASE FlushTake
  <2>1. /\ "game" \in Threads /\ Pop("game")
        /\ held["game"] = NoQuery /\ executed' = executed
    BY <1>4 DEF FlushTake, resultVars, QueueInv, Holds, Threads
  <2>2. /\ QueueInOrder'
        /\ tasks' \in Seq(Queries) /\ held' \in [Threads -> Queries \cup {NoQuery}]
        /\ held'["game"] \in Queries
        /\ held'["game"] \notin ToSet(executed)
        /\ held'["database"] = held["database"] /\ held["database"] # held'["game"]
    BY <1>0, <2>1, PopKeepsOrder DEF Threads
  <2>3. /\ gpc' = "run" /\ UNCHANGED <<dpc, resultVars, accepted>>
    BY <1>4 DEF FlushTake, Pop
  <2>4. QED
    BY <2>2, <2>3, QueriesAssumption DEF QueueInv, QueueTypes, Holds, resultVars
<1>5. CASE DatabaseRun
  <2>1. /\ "database" \in Threads /\ RunQuery("database")
        /\ held["database"] # NoQuery /\ held["database"] \notin ToSet(executed)
        /\ UNCHANGED queueVars
    BY <1>5 DEF DatabaseRun, QueueInv, Holds, Threads
  <2>2. /\ QueueInOrder' /\ executed' \in Seq(Queries)
        /\ ToSet(executed') = ToSet(executed) \cup {held["database"]}
    BY <1>0, <2>1, RunKeepsOrder
  <2>3. /\ dpc' = "post" /\ UNCHANGED <<gpc, tasks, accepted, held, callbacks, dropped>>
    BY <1>5 DEF DatabaseRun, RunQuery, queueVars
  <2>4. QED
    BY <2>1, <2>2, <2>3 DEF QueueInv, QueueTypes, Holds
<1>6. CASE FlushRun
  <2>1. /\ "game" \in Threads /\ RunQuery("game")
        /\ held["game"] # NoQuery /\ held["game"] \notin ToSet(executed)
        /\ UNCHANGED queueVars
    BY <1>6 DEF FlushRun, QueueInv, Holds, Threads
  <2>2. /\ QueueInOrder' /\ executed' \in Seq(Queries)
        /\ ToSet(executed') = ToSet(executed) \cup {held["game"]}
    BY <1>0, <2>1, RunKeepsOrder
  <2>3. /\ gpc' = "post" /\ UNCHANGED <<dpc, tasks, accepted, held, callbacks, dropped>>
    BY <1>6 DEF FlushRun, RunQuery, queueVars
  <2>4. QED
    BY <2>1, <2>2, <2>3 DEF QueueInv, QueueTypes, Holds
<1>7. CASE DatabasePost
  <2>1. /\ "database" \in Threads /\ PostCallback("database")
        /\ held["database"] \in ToSet(executed) /\ UNCHANGED queueVars
    BY <1>7 DEF DatabasePost, QueueInv, Holds, Threads
  <2>2. /\ QueueInOrder' /\ held' \in [Threads -> Queries \cup {NoQuery}]
        /\ held'["database"] = NoQuery /\ held'["game"] = held["game"]
        /\ callbacks' \subseteq WithCallback /\ dropped' \subseteq WithCallback
    BY <1>0, <2>1, PostKeepsOrder DEF Threads
  <2>3. /\ dpc' = "check" /\ UNCHANGED <<gpc, tasks, accepted, executed>>
    BY <1>7 DEF DatabasePost, PostCallback, queueVars
  <2>4. QED
    BY <2>2, <2>3 DEF QueueInv, QueueTypes, Holds
<1>8. CASE FlushPost
  <2>1. /\ "game" \in Threads /\ PostCallback("game")
        /\ held["game"] \in ToSet(executed) /\ UNCHANGED queueVars
    BY <1>8 DEF FlushPost, QueueInv, Holds, Threads
  <2>2. /\ QueueInOrder' /\ held' \in [Threads -> Queries \cup {NoQuery}]
        /\ held'["game"] = NoQuery /\ held'["database"] = held["database"]
        /\ callbacks' \subseteq WithCallback /\ dropped' \subseteq WithCallback
    BY <1>0, <2>1, PostKeepsOrder DEF Threads
  <2>3. /\ gpc' = "flush" /\ UNCHANGED <<dpc, tasks, accepted, executed>>
    BY <1>8 DEF FlushPost, PostCallback, queueVars
  <2>4. QED
    BY <2>2, <2>3 DEF QueueInv, QueueTypes, Holds
<1>9. ASSUME NEW q \in Queries, AddTask(q) PROVE QueueInv'
  <2>1. QueueInOrder' /\ tasks' \in Seq(Queries) /\ accepted' \in Seq(Queries)
    BY <1>0, <1>9, AddKeepsOrder
  <2>2. /\ gpc = "idle" /\ gpc' \in {"idle", "notify"}
        /\ UNCHANGED <<dpc, held, executed, callbacks, dropped>>
    BY <1>9 DEF AddTask, resultVars
  <2>3. QED
    BY <2>1, <2>2 DEF QueueInv, QueueTypes, Holds
<1>10. CASE Signal \/ ShutdownSignal
  BY <1>0, <1>1, <1>10 DEF Signal, ShutdownSignal, NotifyOne, QueueTypes
<1>11. ASSUME NEW why, SavePlayer(why) PROVE QueueInv'
  BY <1>1, <1>11 DEF SavePlayer
<1>12. CASE SaveCall
  <2>1. /\ UNCHANGED <<dpc, held, queueVars, resultVars>>
        /\ {gpc, gpc'} \subseteq {"begin", "save", "rollback", "idle", "flush"}
    <3>1. CASE SaveBegin \/ SaveStatement \/ SaveAgain \/ SaveFails
      BY <1>12, <3>1 DEF SaveCall, SaveBegin, SaveStatement, SaveAgain, SaveFails
    <3>2. CASE SaveRollback \/ SaveCommit
      BY <1>12, <3>2 DEF SaveCall, SaveRollback, SaveCommit, Returns, AfterSave
    <3>3. QED BY <1>12, <3>1, <3>2 DEF SaveCall
  <2>2. QED BY <1>1, <2>1
<1>13. CASE FlushEnd
  <2>1. gpc' \in {"idle", "stopping", "wake"}
    BY <1>13 DEF FlushEnd, SaveInv, SaveTypes, SaveControl
  <2>2. QED BY <1>1, <1>13, <2>1 DEF FlushEnd
<1>14. CASE Stop \/ StopDispatcher \/ Shutdown
  BY <1>1, <1>14 DEF Stop, StopDispatcher, Shutdown
<1>15. CASE UNCHANGED <<threadState, tasks, dpc, held, gpc, purpose,
                       dispatcherOpen, accepted, executed, callbacks, dropped,
                       saveVars>>
  BY <1>1, <1>15 DEF queueVars, resultVars
<1>16. CASE UNCHANGED vars
  BY <1>15, <1>16 DEF vars
<1>17. QED
  BY <1>2, <1>3, <1>4, <1>5, <1>6, <1>7, <1>8, <1>9, <1>10, <1>11, <1>12, <1>13,
     <1>14, <1>15, <1>16
  DEF Next, DatabaseThread, GameCall

-----------------------------------------------------------------------------
(* The invariant of the saves.                                             *)

\* a step of the queue: the saves' part of it is where gpc may go
LEMMA NoSaveStep ==
  ASSUME SaveInv, UNCHANGED <<saveVars, dbVars>>,
         threadState' \in {"RUNNING", "CLOSING", "TERMINATED"},
         dispatcherOpen' \in BOOLEAN,
         purpose' \in {"logout", "save", "close", "shutdown"},
         gpc' = gpc \/ {gpc, gpc'} \subseteq {"idle", "notify", "flush", "run",
                        "post", "stopping", "closed", "wake", "down"},
         gpc' \in {"flush", "run", "post"} => purpose' # "logout"
  PROVE  SaveInv'
<1>1. UNCHANGED <<version, step, tries, saved, retryQueries, connected,
                  inTransaction, tables, work, losses>>
  BY DEF saveVars, dbVars
<1>2. SaveData'
  BY <1>1 DEF SaveInv, SaveData, Written
<1>3. SaveTypes'
  BY <1>1 DEF SaveInv, SaveTypes
<1>4. SaveControl'
  BY <1>1 DEF SaveInv, SaveControl
<1>5. QED BY <1>2, <1>3, <1>4 DEF SaveInv

\* the call of savePlayer itself
LEMMA SaveCallStep ==
  ASSUME SaveInv, SaveCall
  PROVE  SaveInv'
<1> USE DEF SaveInv
<1>0. /\ UNCHANGED <<threadState, purpose, dispatcherOpen>>
      /\ SaveTypes /\ SaveControl /\ SaveData
  BY DEF SaveCall
<1>1. CASE SaveBegin
  <2>1. SaveTypes' /\ SaveControl'
    BY <1>0, <1>1 DEF SaveBegin, BeginTransaction, saveVars, SaveTypes, SaveControl
  <2>2. SaveData'
    BY <1>0, <1>1 DEF SaveBegin, BeginTransaction, saveVars, SaveData, SaveControl, Written
  <2>3. QED BY <2>1, <2>2
<1>2. CASE SaveStatement
  <2>1. /\ work' = SaveStep /\ tables' = tables /\ step \in 0 .. 2
        /\ inTransaction /\ step' = step + 1 /\ version' = version
        /\ inTransaction' /\ saved' = saved
    BY <1>0, <1>2 DEF SaveStatement, Statement, SaveTypes, SaveControl
  <2>2. SaveTypes' /\ SaveControl'
    BY <1>0, <1>2 DEF SaveStatement, Statement, SaveTypes, SaveControl
  <2>3. work \in Rows /\ version \in Versions /\ Written(step)
    BY <1>0, <2>1 DEF SaveData, SaveTypes
  <2>4. work' \in Rows /\ Written(step)'
    <3>1. CASE step = 0
      BY <2>1, <2>3, <3>1 DEF SaveStep, Written, Rows
    <3>2. CASE step = 1
      BY <2>1, <2>3, <3>2 DEF SaveStep, Written, Rows
    <3>3. CASE step = 2
      BY <2>1, <2>3, <3>3 DEF SaveStep, Written, Rows
    <3>4. QED BY <2>1, <3>1, <3>2, <3>3
  <2>5. SaveData'
    BY <1>0, <2>1, <2>4 DEF SaveData
  <2>6. QED BY <2>2, <2>5
<1>3. CASE SaveAgain
  <2>1. SaveTypes' /\ SaveControl'
    BY <1>0, <1>3 DEF SaveAgain, Reconnect, saveVars, SaveTypes, SaveControl
  <2>2. SaveData'
    BY <1>0, <1>3 DEF SaveAgain, Reconnect, saveVars, SaveData, Written
  <2>3. QED BY <2>1, <2>2
<1>4. CASE SaveFails
  <2>1. SaveTypes' /\ SaveControl'
    BY <1>0, <1>4 DEF SaveFails, QueryFails, dbVars, saveVars, SaveTypes, SaveControl
  <2>2. SaveData'
    BY <1>0, <1>4 DEF SaveFails, QueryFails, dbVars, saveVars, SaveData, Written
  <2>3. QED BY <2>1, <2>2
<1>5. CASE SaveRollback
  <2>0. /\ tries \in 1 .. 3 /\ tries - 1 \in 0 .. 3 /\ gpc = "rollback"
        /\ gpc' \in {"begin", "idle", "flush"}
        /\ gpc' = "begin" => tries' >= 1
        /\ gpc' = "flush" => purpose # "logout"
        /\ tries' = tries - 1 /\ step' = 0 /\ saved' = FALSE
        /\ retryQueries' = TRUE /\ inTransaction' = FALSE
        /\ UNCHANGED <<version, connected, losses>>
    BY <1>0, <1>5 DEF SaveRollback, Rollback, EndTransaction, Returns, AfterSave,
       SaveTypes, SaveControl
  <2>1. /\ ~saved' /\ retryQueries' /\ ~inTransaction'
        /\ {saved', retryQueries', inTransaction'} \subseteq BOOLEAN
    BY <2>0
  <2>2. SaveTypes'
    BY <1>0, <2>0, <2>1 DEF SaveTypes
  <2>3. SaveControl'
    BY <1>0, <2>0, <2>1 DEF SaveControl
  <2>4. SaveData'
    BY <1>0, <1>5 DEF SaveRollback, Rollback, EndTransaction, Returns, SaveData
  <2>5. QED BY <2>2, <2>3, <2>4
<1>6. CASE SaveCommit
  <2>1. PICK answer \in BOOLEAN :
          /\ Returns(answer) /\ EndTransaction /\ tables' = work
          /\ answer => connected
          /\ UNCHANGED <<work, version>>
          /\ connected' \in BOOLEAN /\ losses' \in 0 .. MaxLosses
    <3>1. CASE Commit /\ Returns(connected)
      BY <1>0, <1>6, <3>1 DEF SaveCommit, Commit, SaveTypes
    <3>2. CASE CommitAnswerLost /\ Returns(FALSE)
      <4>1. losses + 1 \in 0 .. MaxLosses
        BY <1>0, <3>2, MaxLossesAssumption DEF CommitAnswerLost, SaveTypes
      <4>2. QED BY <1>6, <3>2, <4>1 DEF SaveCommit, CommitAnswerLost
    <3>3. QED BY <1>6, <3>1, <3>2 DEF SaveCommit
  <2>2. gpc = "save" /\ step = 3
    BY <1>6 DEF SaveCommit
  <2>3. SaveTypes' /\ SaveControl'
    <3>1. /\ tries \in 1 .. 3 /\ tries' \in 0 .. 3 /\ step' = 0 /\ saved' = answer
          /\ gpc' \in {"begin", "idle", "flush"}
          /\ gpc' = "begin" => tries' >= 1 /\ ~answer
          /\ gpc' = "flush" => purpose # "logout"
      BY <1>0, <2>1, <2>2 DEF Returns, AfterSave, SaveTypes, SaveControl
    <3>2. retryQueries' = TRUE /\ inTransaction' = FALSE
      BY <2>1 DEF EndTransaction
    <3>3. /\ (saved' <=> answer) /\ retryQueries' /\ ~inTransaction'
          /\ {saved', retryQueries', inTransaction'} \subseteq BOOLEAN
      BY <3>1, <3>2
    <3>4. SaveTypes'
      BY <1>0, <2>1, <3>1, <3>3 DEF SaveTypes
    <3>5. SaveControl'
      BY <1>0, <2>1, <3>1, <3>3 DEF SaveControl
    <3>6. QED BY <3>4, <3>5
  <2>4. work.row = work.items /\ (connected => work.row = version)
    BY <1>0, <2>2 DEF SaveData, SaveControl, Written, SaveTypes
  <2>5. SaveData'
    BY <1>0, <2>1, <2>4 DEF SaveData, EndTransaction, Returns
  <2>6. QED BY <2>3, <2>5
<1>7. QED BY <1>1, <1>2, <1>3, <1>4, <1>5, <1>6 DEF SaveCall

LEMMA SaveStepKept == SaveInv /\ [Next]_vars => SaveInv'
<1> SUFFICES ASSUME SaveInv, [Next]_vars PROVE SaveInv'
  OBVIOUS
<1>0. /\ threadState \in {"RUNNING", "CLOSING", "TERMINATED"}
      /\ purpose \in {"logout", "save", "close", "shutdown"}
      /\ dispatcherOpen \in BOOLEAN
      /\ gpc \in {"flush", "run", "post"} => purpose # "logout"
  BY DEF SaveInv, SaveTypes, SaveControl
<1>1. CASE DatabaseThread \/ SpuriousWakeup
  <2>1. UNCHANGED <<threadState, gpc, purpose, dispatcherOpen, saveVars, dbVars>>
    BY <1>1 DEF DatabaseThread, SpuriousWakeup, CheckState, Wait, Take,
                TakeNothing, DatabaseRun, DatabasePost
  <2>2. QED BY <1>0, <2>1, NoSaveStep
<1>2. CASE Signal \/ FlushTake \/ FlushRun \/ FlushPost
  BY <1>0, <1>2, NoSaveStep DEF Signal, FlushTake, FlushRun, FlushPost
<1>3. CASE Stop \/ StopDispatcher \/ Shutdown \/ ShutdownSignal
  BY <1>0, <1>3, NoSaveStep DEF Stop, StopDispatcher, Shutdown, ShutdownSignal
<1>4. CASE FlushEnd
  <2>1. gpc' \in {"idle", "stopping", "wake"}
    BY <1>0, <1>4 DEF FlushEnd
  <2>2. QED BY <1>0, <1>4, <2>1, NoSaveStep DEF FlushEnd
<1>5. ASSUME NEW q \in Queries, AddTask(q) PROVE SaveInv'
  <2>1. gpc = "idle" /\ gpc' \in {"idle", "notify"}
    BY <1>5 DEF AddTask
  <2>2. QED BY <1>0, <1>5, <2>1, NoSaveStep DEF AddTask
<1>6. ASSUME NEW why \in {"logout", "save", "close"}, SavePlayer(why) PROVE SaveInv'
  <2>1. UNCHANGED <<threadState, dispatcherOpen, step, retryQueries, connected,
                    inTransaction, tables, work, losses>>
    BY <1>6 DEF SavePlayer, dbVars
  <2>2. SaveTypes' /\ SaveControl'
    <3>1. /\ version' \in Versions /\ tries' \in 1 .. 3 /\ saved' = FALSE
          /\ gpc = "idle" /\ gpc' = "begin" /\ purpose' = why
      BY <1>6 DEF SavePlayer, SaveInv, SaveTypes, Versions
    <3>2. ~saved' /\ saved' \in BOOLEAN
      BY <3>1
    <3>3. SaveTypes'
      BY <2>1, <3>1, <3>2 DEF SaveInv, SaveTypes
    <3>4. SaveControl'
      BY <2>1, <3>1, <3>2 DEF SaveInv, SaveControl
    <3>5. QED BY <3>3, <3>4
  <2>3. SaveData'
    BY <1>6, <2>1 DEF SavePlayer, SaveInv, SaveData, SaveControl
  <2>4. QED BY <2>2, <2>3 DEF SaveInv
<1>7. CASE SaveCall
  BY <1>7, SaveCallStep
<1>8. CASE LoseConnection /\ UNCHANGED <<threadState, tasks, dpc, held, gpc, purpose,
                       dispatcherOpen, accepted, executed, callbacks, dropped,
                       saveVars>>
  <2>1. /\ UNCHANGED <<threadState, gpc, purpose, dispatcherOpen, version, step, tries,
                       saved, retryQueries, tables>>
        /\ connected' = FALSE /\ inTransaction' = FALSE /\ work' = tables
        /\ losses' = losses + 1 /\ losses < MaxLosses
    BY <1>8 DEF LoseConnection, saveVars
  <2>2. losses + 1 \in 0 .. MaxLosses
    BY <2>1, MaxLossesAssumption DEF SaveInv, SaveTypes
  <2>3. SaveTypes' /\ SaveControl'
    BY <2>1, <2>2 DEF SaveInv, SaveTypes, SaveControl
  <2>4. SaveData'
    BY <2>1 DEF SaveInv, SaveData
  <2>5. QED BY <2>3, <2>4 DEF SaveInv
<1>9. CASE UNCHANGED vars
  BY <1>0, <1>9, NoSaveStep DEF vars
<1>10. QED
  BY <1>1, <1>2, <1>3, <1>4, <1>5, <1>6, <1>7, <1>8, <1>9 DEF Next, GameCall

LEMMA InvariantsHold == Spec => [](QueueInv /\ SaveInv)
<1>1. Init => QueueInv
  <2> SUFFICES ASSUME Init PROVE QueueInv
    OBVIOUS
  <2>1. /\ tasks = <<>> /\ accepted = <<>> /\ executed = <<>>
        /\ held = [t \in Threads |-> NoQuery] /\ dpc = "check" /\ gpc = "idle"
        /\ callbacks = {} /\ dropped = {}
    BY DEF Init
  <2>2. QueueTypes /\ Taken = 0
    BY <2>1 DEF QueueTypes, Taken
  <2>3. QueueInOrder
    BY <2>1, <2>2 DEF QueueInOrder, IsInjective, ToSet
  <2>4. QED BY <2>1, <2>2, <2>3 DEF QueueInv, Holds, Threads
<1>2. Init => SaveInv
  <2> SUFFICES ASSUME Init PROVE SaveInv
    OBVIOUS
  <2>1. /\ threadState = "RUNNING" /\ gpc = "idle" /\ purpose = "save"
        /\ dispatcherOpen = TRUE /\ version = 0 /\ step = 0 /\ tries = 0
        /\ saved = TRUE /\ retryQueries = TRUE /\ connected = TRUE
        /\ inTransaction = FALSE /\ tables = [row |-> 0, items |-> 0]
        /\ work = tables /\ losses = 0
    BY DEF Init, DatabaseInit
  <2>2. SaveTypes
    <3>1. losses \in 0 .. MaxLosses
      BY <2>1, MaxLossesAssumption
    <3>2. version \in Versions /\ step \in 0 .. 3 /\ tries \in 0 .. 3
      BY <2>1 DEF Versions
    <3>3. QED BY <2>1, <3>1, <3>2, Zenon DEF SaveTypes
  <2>3. SaveData
    BY <2>1 DEF SaveData, Versions, Rows
  <2>4. SaveControl
    <3>1. retryQueries /\ connected /\ ~inTransaction
      BY <2>1
    <3>2. QED BY <2>1, <3>1 DEF SaveControl
  <2>5. QED BY <2>2, <2>3, <2>4 DEF SaveInv
<1>3. QED BY <1>1, <1>2, QueueStep, SaveStepKept, PTL DEF Spec

-----------------------------------------------------------------------------
(* The theorems.                                                           *)

(* Nothing is ever in two places: a query in the list has neither been     *)
(* executed nor is it in a thread's hand.                                  *)
LEMMA ListApart ==
  ASSUME QueueInv
  PROVE  ToSet(tasks) \cap (ToSet(executed) \cup {held[t] : t \in Threads}) = {}
<1> SUFFICES ASSUME NEW q \in ToSet(tasks),
                    q \in ToSet(executed) \/ \E t \in Threads : held[t] = q
             PROVE  FALSE
  OBVIOUS
<1>1. /\ tasks \in Seq(Queries) /\ accepted \in Seq(Queries)
      /\ Len(tasks) \in Nat /\ Len(accepted) \in Nat /\ Len(tasks) <= Len(accepted)
  BY LenProperties DEF QueueInv, QueueTypes, QueueInOrder
<1>2. PICK i \in 1 .. Len(tasks) : tasks[i] = q
  BY <1>1, SetOfSeq
<1>3. accepted[Taken + i] = q /\ q # NoQuery
  BY <1>1, <1>2, SetOfSeq, QueriesAssumption DEF QueueInv, QueueInOrder
<1>4. PICK j \in 1 .. Taken : accepted[j] = q
  BY <1>3 DEF QueueInv, QueueInOrder
<1>5. /\ Taken + i \in 1 .. Len(accepted) /\ j \in 1 .. Len(accepted)
      /\ j # Taken + i
  BY <1>1, <1>2, <1>4 DEF Taken
<1>6. QED BY <1>1, <1>3, <1>4, <1>5, InjectiveSeq DEF QueueInv, QueueInOrder

(* Every variable keeps the type the code declares, and a query is in one  *)
(* place at a time: the list, a thread's hand or the database.             *)
THEOREM TypeCorrect == Spec => []TypeOK
<1>1. QueueInv /\ SaveInv => TypeOK
  BY ListApart DEF QueueInv, QueueTypes, SaveInv, SaveTypes, SaveData, Rows,
     DatabaseTypeOK, TypeOK
<1>2. QED BY <1>1, InvariantsHold, PTL

(* Two threads take queries out of one list without either waiting for the *)
(* other's query to end: still only the one query that is in a hand can    *)
(* be executed after a later one.                                          *)
THEOREM OrderCorrect == Spec => []OnlyHeldQueryIsOvertaken
<1>1. QueueInv => OnlyHeldQueryIsOvertaken
  <2> SUFFICES ASSUME QueueInv,
                      NEW i \in 1 .. Len(accepted), NEW j \in 1 .. Len(accepted),
                      i < j, accepted[j] \in ToSet(executed),
                      accepted[i] \notin ToSet(executed)
               PROVE  \E t \in Threads : held[t] = accepted[i]
    BY DEF OnlyHeldQueryIsOvertaken
  <2>1. /\ tasks \in Seq(Queries) /\ accepted \in Seq(Queries)
        /\ Len(tasks) \in Nat /\ Len(accepted) \in Nat
    BY LenProperties DEF QueueInv, QueueTypes
  <2>2. PICK k \in 1 .. Taken : accepted[k] = accepted[j]
    BY DEF QueueInv, QueueInOrder
  <2>3. k \in 1 .. Len(accepted)
    BY <2>1, <2>2 DEF Taken
  <2>4. k = j
    BY <2>1, <2>2, <2>3, InjectiveSeq DEF QueueInv, QueueInOrder
  <2>5. i \in 1 .. Taken
    BY <2>1, <2>2, <2>4 DEF Taken
  <2>6. QED BY <2>5 DEF QueueInv, QueueInOrder
<1>2. QED BY <1>1, InvariantsHold, PTL

(* After the flush() of a shutdown every accepted query is in the database *)
(* or in the database thread's hand, and no query was ever sent twice.     *)
THEOREM FlushCorrect == Spec => []ShutdownFlushesAll
<1>1. QueueInv => ShutdownFlushesAll
  <2> SUFFICES ASSUME QueueInv, gpc \in {"stopping", "closed", "wake", "down"},
                      NEW q \in ToSet(accepted)
               PROVE  q \in ToSet(executed) \cup {held["database"]}
    BY DEF ShutdownFlushesAll, QueueInv, QueueInOrder
  <2>1. /\ accepted \in Seq(Queries) /\ Len(accepted) \in Nat
        /\ tasks = <<>> /\ held["game"] = NoQuery
    BY LenProperties DEF QueueInv, QueueTypes, Holds
  <2>2. Taken = Len(accepted)
    BY <2>1 DEF Taken
  <2>3. PICK i \in 1 .. Len(accepted) : accepted[i] = q /\ q \in Queries
    BY <2>1, SetOfSeq
  <2>4. q \in ToSet(executed) \cup {held[t] : t \in Threads}
    BY <2>2, <2>3 DEF QueueInv, QueueInOrder
  <2>5. QED BY <2>1, <2>3, <2>4, QueriesAssumption DEF Threads
<1>2. QED BY <1>1, InvariantsHold, PTL

(* However often the connection is lost, and wherever: what lasts of a     *)
(* player is of one save, of the last one if savePlayer returned true.     *)
THEOREM SaveCorrect == Spec => []SavesAreWhole
<1>1. SaveInv => SavesAreWhole
  BY DEF SaveInv, SaveData, SavesAreWhole
<1>2. QED BY <1>1, InvariantsHold, PTL
=============================================================================
