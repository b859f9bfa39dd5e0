-------------------------- MODULE GameThreadProofs --------------------------
(***************************************************************************)
(* Proofs about the game's own thread: the dispatcher, which runs the      *)
(* tasks of the game one after the other, the creatures of the world,      *)
(* which those tasks place, move, kill, remove and release, and their      *)
(* conditions.                                                             *)
(*                                                                         *)
(* The dispatcher, for every set of producers and tasks: its types, that   *)
(* no wakeup is lost, that it implements TaskQueue, and that the game's    *)
(* own shutdown leaves no accepted task behind.                            *)
(*                                                                         *)
(* The creatures, for any number of them, of places, of slots of a spawn   *)
(* and of check lists: their types, that every counter of references is    *)
(* exact, that the pointers nothing counts are live, and that nobody who   *)
(* should act or come back is forgotten.                                   *)
(***************************************************************************)
EXTENDS Dispatcher, Creatures, Conditions, SequenceTheorems, FiniteSetTheorems,
        WellFoundedInduction, TLAPS

-----------------------------------------------------------------------------
(* Taking the head of a non-empty list of tasks.                           *)
LEMMA HeadTail ==
  ASSUME NEW s \in Seq(Task), s # <<>>
  PROVE  /\ Head(s) \in Task
         /\ Head(s) = s[1]
         /\ Tail(s) \in Seq(Task)
         /\ Len(Tail(s)) = Len(s) - 1
         /\ \A i \in 1 .. Len(s) - 1 : Tail(s)[i] = s[i + 1]
BY HeadTailProperties

LEMMA KindsOfTask ==
  /\ UserTasks \subseteq Task
  /\ CloseRequest \in Task
  /\ GameShutdown \in Task
  /\ Terminate \in Task
BY TasksAssumption DEF Task

(* A batch step keeps the typing of what is left and what was processed.   *)
LEMMA TakeType ==
  ASSUME TypeOK, Take
  PROVE  /\ Head(tmpTaskList) \in Task
         /\ tmpTaskList' \in Seq(Task)
         /\ processed' \in Seq(Task)
<1>1. Head(tmpTaskList) \in Task /\ Tail(tmpTaskList) \in Seq(Task)
  BY HeadTail DEF Take, TypeOK
<1>2. QED BY <1>1 DEF Take, TypeOK

LEMMA PushType ==
  ASSUME TypeOK, NEW t \in Task, Push(t)
  PROVE  taskList' \in Seq(Task) /\ accepted' \in Seq(Task)
BY DEF TypeOK, Push

-----------------------------------------------------------------------------
LEMMA TypeStep == TypeOK /\ [Next]_vars => TypeOK'
<1> SUFFICES ASSUME TypeOK, [Next]_vars PROVE TypeOK'
  OBVIOUS
<1> USE KindsOfTask DEF TypeOK, queueVars, threadVars
<1>1. ASSUME NEW p \in Producers, NEW t \in UserTasks, AddTask(p, t)
      PROVE  TypeOK'
  BY <1>1, PushType DEF AddTask
<1>2. ASSUME NEW p \in Producers, Signal(p) PROVE TypeOK'
  BY <1>2 DEF Signal, NotifyOne
<1>3. CASE MainShutdown
  BY <1>3, PushType DEF MainShutdown, NotifyOne
<1>4. CASE SpuriousWakeup
  BY <1>4 DEF SpuriousWakeup
<1>5. CASE CheckState \/ Wait \/ EndBatch \/ Stop
  BY <1>5 DEF CheckState, Wait, EndBatch, Stop
<1>6. CASE Swap
  BY <1>6 DEF Swap
<1>7. CASE SkipExpired
  BY <1>7, TakeType DEF SkipExpired, Take
<1>8. ASSUME NEW t \in UserTasks, RunTask(t) PROVE TypeOK'
  <2>1. taskList' \in Seq(Task) /\ accepted' \in Seq(Task)
    <3>1. CASE UNCHANGED queueVars
      BY <3>1
    <3>2. CASE \E u \in UserTasks : Push(u)
      BY <3>2, PushType
    <3>3. QED BY <1>8, <3>1, <3>2 DEF RunTask
  <2>2. Take /\ executed' \subseteq Task
    BY <1>8 DEF RunTask, Execute
  <2>3. tmpTaskList' \in Seq(Task) /\ processed' \in Seq(Task)
    BY <2>2, TakeType
  <2>4. QED BY <1>8, <2>1, <2>2, <2>3 DEF RunTask, Take
<1>9. CASE RunCloseRequest
  <2>1. taskList' \in Seq(Task) /\ accepted' \in Seq(Task)
    <3>1. CASE Push(GameShutdown)
      BY <3>1, PushType
    <3>2. CASE UNCHANGED queueVars
      BY <3>2
    <3>3. QED BY <1>9, <3>1, <3>2 DEF RunCloseRequest, Accepts
  <2>2. Take /\ executed' \subseteq Task
    BY <1>9 DEF RunCloseRequest, Execute
  <2>3. tmpTaskList' \in Seq(Task) /\ processed' \in Seq(Task)
    BY <2>2, TakeType
  <2>4. QED BY <1>9, <2>1, <2>2, <2>3 DEF RunCloseRequest
<1>10. CASE RunGameShutdown
  <2>1. Take /\ Push(Terminate) /\ executed' \subseteq Task
    BY <1>10 DEF RunGameShutdown, Execute
  <2>2. QED BY <1>10, <2>1, TakeType, PushType DEF RunGameShutdown, Take
<1>11. CASE RunTerminate
  <2>1. Take /\ executed' \subseteq Task
    BY <1>11 DEF RunTerminate, Execute
  <2>2. QED BY <1>11, <2>1, TakeType DEF RunTerminate, Take
<1>12. CASE UNCHANGED vars
  BY <1>12 DEF vars
<1>13. QED
  BY <1>1, <1>2, <1>3, <1>4, <1>5, <1>6, <1>7, <1>8, <1>9, <1>10, <1>11, <1>12
  DEF Next, DispatcherStep

(* The variables range over the types the code declares, and threadMain    *)
(* holds a batch only while it runs it.                                    *)
THEOREM TypeCorrect == Spec => []TypeOK
<1>1. Init => TypeOK
  BY DEF Init, TypeOK
<1>2. QED BY <1>1, TypeStep, PTL DEF Spec

-----------------------------------------------------------------------------
LEMMA WakeupStep == TypeOK /\ NoLostWakeup /\ [Next]_vars => NoLostWakeup'
<1> SUFFICES ASSUME TypeOK, NoLostWakeup, [Next]_vars PROVE NoLostWakeup'
  OBVIOUS
<1> USE DEF NoLostWakeup, TypeOK
<1>1. ASSUME NEW p \in Producers, NEW t \in UserTasks, AddTask(p, t)
      PROVE  NoLostWakeup'
  <2>1. CASE taskList = <<>>
    BY <1>1, <2>1 DEF AddTask, DoSignal
  <2>2. CASE taskList # <<>>
    BY <1>1, <2>2 DEF AddTask, DoSignal
  <2>3. QED BY <2>1, <2>2
<1>2. ASSUME NEW p \in Producers, Signal(p) PROVE NoLostWakeup'
  BY <1>2 DEF Signal, NotifyOne
<1>3. CASE MainShutdown
  BY <1>3 DEF MainShutdown, NotifyOne
<1>4. CASE SpuriousWakeup
  BY <1>4 DEF SpuriousWakeup
<1>5. CASE CheckState \/ EndBatch \/ Stop \/ Swap
  BY <1>5 DEF CheckState, EndBatch, Stop, Swap
<1>6. CASE Wait
  BY <1>6 DEF Wait, queueVars
<1>7. ASSUME Take, UNCHANGED dpc PROVE NoLostWakeup'
  BY <1>7 DEF Take
<1>8. CASE RunCloseRequest
  BY <1>8 DEF RunCloseRequest
<1>9. CASE UNCHANGED vars
  BY <1>9 DEF vars
<1>10. CASE SkipExpired \/ (\E t \in UserTasks : RunTask(t)) \/ RunGameShutdown
             \/ RunTerminate
  BY <1>7, <1>10 DEF SkipExpired, RunTask, RunGameShutdown, RunTerminate, Execute
<1>11. QED
  BY <1>1, <1>2, <1>3, <1>4, <1>5, <1>6, <1>8, <1>9, <1>10
  DEF Next, DispatcherStep

(* addTask signals only when it found the list empty; still the dispatcher *)
(* never sleeps on a list with tasks without a signal under way.           *)
THEOREM WakeupCorrect == Spec => []NoLostWakeup
<1>1. Init => NoLostWakeup
  BY DEF Init, NoLostWakeup
<1>2. QED BY <1>1, TypeCorrect, WakeupStep, PTL DEF Spec

-----------------------------------------------------------------------------
(* Where an accepted task is: in the processed tasks p, in the batch b, or *)
(* in the list l, in the order a of its acceptance.                        *)
InOrder(a, p, b, l) ==
  /\ Len(a) = Len(p) + Len(b) + Len(l)
  /\ \A i \in 1 .. Len(p) : a[i] = p[i]
  /\ \A i \in 1 .. Len(b) : a[Len(p) + i] = b[i]
  /\ \A i \in 1 .. Len(l) : a[Len(p) + Len(b) + i] = l[i]

QueueInv == InOrder(accepted, processed, tmpTaskList, taskList)

Distinct == \A i, j \in 1 .. Len(accepted) : accepted[i] = accepted[j] => i = j

(* The order in which the game closes the queue.                           *)
ShutdownOrder ==
  /\ loaderFailed => /\ CloseRequest \notin TasksOf(accepted)
                     /\ GameShutdown \notin TasksOf(accepted)
  /\ GameShutdown \in TasksOf(accepted) =>
       /\ CloseRequest \in TasksOf(processed)
       /\ threadState # "RUNNING" \/ dpc = "stopping"
  /\ Terminate \in TasksOf(accepted) /\ ~loaderFailed =>
       /\ GameShutdown \in TasksOf(processed)
       /\ threadState # "RUNNING"
       /\ accepted[Len(accepted)] = Terminate
  /\ threadState = "TERMINATED" => Terminate \in TasksOf(processed)
  /\ dpc = "done" => threadState = "TERMINATED"
  /\ dpc = "stopping" => ~loaderFailed /\ CloseRequest \in TasksOf(processed)

IInv == TypeOK /\ QueueInv /\ Distinct /\ ShutdownOrder

-----------------------------------------------------------------------------
LEMMA AppendFacts ==
  ASSUME NEW s \in Seq(Task), NEW t \in Task
  PROVE  /\ Append(s, t) \in Seq(Task)
         /\ Len(Append(s, t)) = Len(s) + 1
         /\ Append(s, t)[Len(s) + 1] = t
         /\ \A i \in 1 .. Len(s) : Append(s, t)[i] = s[i]
OBVIOUS

LEMMA PushInOrder ==
  ASSUME NEW a \in Seq(Task), NEW p \in Seq(Task), NEW b \in Seq(Task),
         NEW l \in Seq(Task), NEW t \in Task, InOrder(a, p, b, l)
  PROVE  InOrder(Append(a, t), p, b, Append(l, t))
<1> DEFINE a1 == Append(a, t)
           l1 == Append(l, t)
<1>1. /\ Len(a1) = Len(a) + 1 /\ a1[Len(a) + 1] = t
      /\ \A i \in 1 .. Len(a) : a1[i] = a[i]
      /\ Len(l1) = Len(l) + 1 /\ l1[Len(l) + 1] = t
      /\ \A i \in 1 .. Len(l) : l1[i] = l[i]
  BY AppendFacts
<1>2. /\ Len(a) \in Nat /\ Len(p) \in Nat /\ Len(b) \in Nat /\ Len(l) \in Nat
      /\ Len(a) = Len(p) + Len(b) + Len(l)
  BY DEF InOrder
<1> HIDE DEF a1, l1
<1>3. Len(a1) = Len(p) + Len(b) + Len(l1)
  BY <1>1, <1>2
<1>4. \A i \in 1 .. Len(p) : a1[i] = p[i]
  BY <1>1, <1>2 DEF InOrder
<1>5. \A i \in 1 .. Len(b) : a1[Len(p) + i] = b[i]
  BY <1>1, <1>2 DEF InOrder
<1>6. ASSUME NEW i \in 1 .. Len(l1) PROVE a1[Len(p) + Len(b) + i] = l1[i]
  <2>1. CASE i = Len(l) + 1
    BY <1>1, <1>2, <2>1
  <2>2. CASE i \in 1 .. Len(l)
    BY <1>1, <1>2, <2>2 DEF InOrder
  <2>3. QED BY <1>1, <1>2, <2>1, <2>2
<1>7. InOrder(a1, p, b, l1)
  BY <1>3, <1>4, <1>5, <1>6 DEF InOrder
<1>8. QED BY <1>7 DEF a1, l1

LEMMA TakeInOrder ==
  ASSUME NEW a \in Seq(Task), NEW p \in Seq(Task), NEW b \in Seq(Task),
         NEW l \in Seq(Task), b # <<>>, InOrder(a, p, b, l)
  PROVE  InOrder(a, Append(p, Head(b)), Tail(b), l)
<1> DEFINE p1 == Append(p, Head(b))
           b1 == Tail(b)
<1>1. /\ Head(b) = b[1] /\ Len(b1) = Len(b) - 1
      /\ \A i \in 1 .. Len(b) - 1 : b1[i] = b[i + 1]
      /\ Len(p1) = Len(p) + 1 /\ p1[Len(p) + 1] = b[1]
      /\ \A i \in 1 .. Len(p) : p1[i] = p[i]
  BY HeadTail, AppendFacts
<1>2. /\ Len(a) \in Nat /\ Len(p) \in Nat /\ Len(b) \in Nat \ {0} /\ Len(l) \in Nat
      /\ Len(a) = Len(p) + Len(b) + Len(l)
  BY DEF InOrder
<1> HIDE DEF p1, b1
<1>3. Len(a) = Len(p1) + Len(b1) + Len(l)
  BY <1>1, <1>2
<1>4. ASSUME NEW i \in 1 .. Len(p1) PROVE a[i] = p1[i]
  <2>1. CASE i = Len(p) + 1
    BY <1>1, <1>2, <2>1 DEF InOrder
  <2>2. CASE i \in 1 .. Len(p)
    BY <1>1, <1>2, <2>2 DEF InOrder
  <2>3. QED BY <1>1, <1>2, <2>1, <2>2
<1>5. ASSUME NEW i \in 1 .. Len(b1) PROVE a[Len(p1) + i] = b1[i]
  <2>1. a[Len(p) + (i + 1)] = b[i + 1]
    BY <1>1, <1>2 DEF InOrder
  <2>2. QED BY <1>1, <1>2, <2>1
<1>6. ASSUME NEW i \in 1 .. Len(l) PROVE a[Len(p1) + Len(b1) + i] = l[i]
  <2>1. a[Len(p) + Len(b) + i] = l[i]
    BY DEF InOrder
  <2>2. QED BY <1>1, <1>2, <2>1
<1>7. InOrder(a, p1, b1, l)
  BY <1>3, <1>4, <1>5, <1>6 DEF InOrder
<1>8. QED BY <1>7 DEF p1, b1

LEMMA PushQueue ==
  ASSUME TypeOK, QueueInv, NEW t \in Task, Push(t),
         UNCHANGED <<tmpTaskList, processed>>
  PROVE  QueueInv'
BY PushInOrder DEF TypeOK, QueueInv, Push

LEMMA TakeQueue ==
  ASSUME TypeOK, QueueInv, Take, UNCHANGED <<accepted, taskList>>
  PROVE  QueueInv'
BY TakeInOrder DEF TypeOK, QueueInv, Take

LEMMA TakePushQueue ==
  ASSUME TypeOK, QueueInv, Take, NEW t \in Task, Push(t)
  PROVE  QueueInv'
<1>1. /\ processed' \in Seq(Task) /\ tmpTaskList' \in Seq(Task)
      /\ taskList \in Seq(Task) /\ accepted \in Seq(Task)
  BY TakeType DEF TypeOK
<1>2. InOrder(accepted, processed', tmpTaskList', taskList)
  BY TakeInOrder DEF TypeOK, QueueInv, Take
<1>3. InOrder(Append(accepted, t), processed', tmpTaskList', Append(taskList, t))
  BY <1>1, <1>2, PushInOrder
<1>4. QED BY <1>3 DEF QueueInv, Push

LEMMA SwapQueue == ASSUME TypeOK, QueueInv, Swap PROVE QueueInv'
<1>1. tmpTaskList = <<>>
  BY DEF TypeOK, Swap
<1>2. QED BY <1>1 DEF TypeOK, QueueInv, InOrder, Swap

(* What a push and a take do to the sets of tasks in the two histories.    *)
LEMMA PushTasks ==
  ASSUME TypeOK, NEW t \in Task, Push(t)
  PROVE  /\ TasksOf(accepted)' = TasksOf(accepted) \cup {t}
         /\ accepted'[Len(accepted')] = t
<1>1. accepted \in Seq(Task) /\ accepted' = Append(accepted, t)
  BY DEF TypeOK, Push
<1>2. /\ Len(accepted) \in Nat /\ Len(accepted') = Len(accepted) + 1
      /\ accepted'[Len(accepted')] = t
      /\ \A i \in 1 .. Len(accepted) : accepted'[i] = accepted[i]
  BY <1>1
<1>3. \A x : x \in TasksOf(accepted') <=> x \in TasksOf(accepted) \cup {t}
  BY <1>2 DEF TasksOf
<1> QED BY <1>2, <1>3 DEF TasksOf

LEMMA TakeTasks ==
  ASSUME TypeOK, Take
  PROVE  TasksOf(processed)' = TasksOf(processed) \cup {Head(tmpTaskList)}
<1>1. Head(tmpTaskList) \in Task
  BY TakeType
<1>2. QED BY <1>1 DEF TypeOK, Take, TasksOf

LEMMA PushDistinct ==
  ASSUME TypeOK, Distinct, NEW t \in Task, t \notin TasksOf(accepted), Push(t)
  PROVE  Distinct'
<1> DEFINE n == Len(accepted)
<1>1. n \in Nat /\ accepted \in Seq(Task)
  BY DEF TypeOK
<1>2. accepted' = Append(accepted, t)
  BY DEF Push
<1>3. /\ Len(accepted') = n + 1
      /\ accepted'[n + 1] = t
      /\ \A i \in 1 .. n : accepted'[i] = accepted[i] /\ accepted[i] # t
  BY <1>1, <1>2 DEF TasksOf
<1> QED BY <1>1, <1>3 DEF Distinct

LEMMA HeadOfBatch ==
  ASSUME TypeOK, QueueInv, Distinct, tmpTaskList # <<>>
  PROVE  /\ Len(processed) < Len(accepted)
         /\ Head(tmpTaskList) = accepted[Len(processed) + 1]
         /\ Head(tmpTaskList) \in TasksOf(accepted)
         /\ Head(tmpTaskList) \notin TasksOf(processed)
<1>1. Head(tmpTaskList) = tmpTaskList[1] /\ Len(tmpTaskList) \in Nat \ {0}
  BY HeadTail DEF TypeOK
<1>2. /\ Len(processed) < Len(accepted)
      /\ Head(tmpTaskList) = accepted[Len(processed) + 1]
  BY <1>1 DEF TypeOK, QueueInv, InOrder
<1>3. QED BY <1>1, <1>2 DEF TypeOK, QueueInv, InOrder, Distinct, TasksOf

LEMMA InitInv == Init => IInv
BY DEF Init, IInv, TypeOK, QueueInv, InOrder, Distinct, ShutdownOrder, TasksOf

LEMMA InvStep == IInv /\ [Next]_vars => IInv'
<1> SUFFICES ASSUME IInv, [Next]_vars PROVE IInv'
  OBVIOUS
<1> USE KindsOfTask DEF IInv
<1>0. TypeOK'
  BY TypeStep
<1>1. ASSUME NEW p \in Producers, NEW t \in UserTasks, AddTask(p, t)
      PROVE  IInv'
  <2>1. /\ Push(t) /\ t \in Task /\ t \notin TasksOf(accepted)
        /\ loaderFailed => t # CloseRequest
        /\ threadState = "RUNNING"
        /\ UNCHANGED <<threadState, dpc, loaderFailed, tmpTaskList, processed>>
    BY <1>1 DEF AddTask, Fresh, Accepts, threadVars
  <2>2. QueueInv' /\ Distinct'
    BY <2>1, PushQueue, PushDistinct
  <2>3. ShutdownOrder'
    BY <1>1, <2>1, PushTasks, TasksAssumption DEF ShutdownOrder, TasksOf
  <2>4. QED BY <1>0, <2>2, <2>3
<1>2. ASSUME UNCHANGED <<taskList, tmpTaskList, accepted, processed>>
      PROVE  QueueInv' /\ Distinct'
  BY <1>2 DEF QueueInv, InOrder, Distinct
<1>3. ASSUME NEW p \in Producers, Signal(p) PROVE IInv'
  <2>1. ShutdownOrder'
    BY <1>3 DEF Signal, NotifyOne, ShutdownOrder, TasksOf, queueVars, threadVars
  <2>2. QED BY <1>0, <1>2, <1>3, <2>1 DEF Signal, queueVars, threadVars
<1>4. CASE MainShutdown
  <2>1. /\ Push(Terminate) /\ Terminate \notin TasksOf(accepted) /\ loaderFailed
        /\ UNCHANGED <<threadState, loaderFailed, tmpTaskList, processed>>
        /\ dpc' = IF dpc = "waiting" THEN "woken" ELSE dpc
    BY <1>4 DEF MainShutdown, NotifyOne, threadVars
  <2>2. QueueInv' /\ Distinct'
    BY <2>1, PushQueue, PushDistinct
  <2>3. ShutdownOrder'
    BY <2>1, PushTasks, TasksAssumption DEF ShutdownOrder, TasksOf
  <2>4. QED BY <1>0, <2>2, <2>3
<1>5. CASE SpuriousWakeup \/ CheckState \/ Wait \/ EndBatch \/ Stop
  <2>1. ShutdownOrder'
    <3>1. CASE SpuriousWakeup
      BY <3>1 DEF SpuriousWakeup, ShutdownOrder, TasksOf, queueVars, threadVars
    <3>2. CASE CheckState
      BY <3>2 DEF CheckState, KeepsRunning, ShutdownOrder, TasksOf, queueVars,
                  threadVars, TypeOK
    <3>3. CASE Wait
      BY <3>3 DEF Wait, ShutdownOrder, TasksOf, queueVars, threadVars
    <3>4. CASE EndBatch
      BY <3>4 DEF EndBatch, ShutdownOrder, TasksOf, queueVars, threadVars
    <3>5. CASE Stop
      BY <3>5 DEF Stop, ShutdownOrder, TasksOf, queueVars, threadVars, TypeOK
    <3>6. QED BY <1>5, <3>1, <3>2, <3>3, <3>4, <3>5
  <2>2. UNCHANGED <<taskList, tmpTaskList, accepted, processed>>
    BY <1>5 DEF SpuriousWakeup, CheckState, Wait, EndBatch, Stop, queueVars, threadVars
  <2>3. QED BY <1>0, <1>2, <2>1, <2>2
<1>6. CASE Swap
  <2>1. QueueInv'
    BY <1>6, SwapQueue
  <2>2. Distinct' /\ ShutdownOrder'
    BY <1>6 DEF Swap, Distinct, ShutdownOrder, TasksOf
  <2>3. QED BY <1>0, <2>1, <2>2
\* Taking a task without posting one: only `processed' grows.
<1>7. ASSUME Take, UNCHANGED <<accepted, taskList>>
      PROVE  QueueInv' /\ Distinct'
  BY <1>7, TakeQueue DEF Distinct
<1>8. ASSUME Take, NEW t \in Task, t \notin TasksOf(accepted), Push(t)
      PROVE  QueueInv' /\ Distinct'
  BY <1>8, TakePushQueue, PushDistinct
<1>9. CASE SkipExpired
  <2>1. Take /\ UNCHANGED <<accepted, taskList, threadState, dpc, loaderFailed>>
    BY <1>9 DEF SkipExpired, queueVars
  <2>2. ShutdownOrder'
    BY <2>1, TakeTasks DEF ShutdownOrder, TasksOf
  <2>3. QED BY <1>0, <1>7, <2>1, <2>2
<1>10. ASSUME NEW t \in UserTasks, RunTask(t) PROVE IInv'
  <2>1. /\ Take /\ UNCHANGED <<threadState, dpc, loaderFailed>>
        /\ dpc = "run"
    BY <1>10 DEF RunTask, Execute, Take
  <2>2. CASE UNCHANGED queueVars
    <3>1. UNCHANGED <<accepted, taskList>>
      BY <2>2 DEF queueVars
    <3>2. ShutdownOrder'
      BY <2>1, <3>1, TakeTasks DEF ShutdownOrder, TasksOf
    <3>3. QED BY <1>0, <1>7, <2>1, <3>1, <3>2
  <2>3. ASSUME Accepts, NEW u \in UserTasks, Fresh(u), Push(u) PROVE IInv'
    <3>1. u \in Task /\ u \notin TasksOf(accepted)
      BY <2>3 DEF Fresh
    <3>2. ShutdownOrder'
      BY <2>1, <2>3, PushTasks, TakeTasks, TasksAssumption
      DEF ShutdownOrder, TasksOf, Fresh, Accepts
    <3>3. QED BY <1>0, <1>8, <2>1, <2>3, <3>1, <3>2
  <2>4. QED BY <1>10, <2>2, <2>3 DEF RunTask
\* The shutdown tasks post what nobody posted before, because they run once.
<1>11. CASE RunCloseRequest
  <2>1. /\ Take /\ Head(tmpTaskList) = CloseRequest /\ dpc = "run" /\ dpc' = "stopping"
        /\ UNCHANGED <<threadState, loaderFailed>>
        /\ Push(GameShutdown) \/ UNCHANGED queueVars
    BY <1>11 DEF RunCloseRequest, Execute, Take, Accepts
  <2>2. /\ CloseRequest \in TasksOf(accepted) /\ CloseRequest \notin TasksOf(processed)
        /\ tmpTaskList # <<>>
    BY <2>1, HeadOfBatch DEF Take
  <2>3. GameShutdown \notin TasksOf(accepted) /\ ~loaderFailed
    BY <2>2 DEF ShutdownOrder
  <2>4. CASE Push(GameShutdown)
    <3>1. Terminate \notin TasksOf(accepted)
      <4>1. GameShutdown \in TasksOf(processed) => GameShutdown \in TasksOf(accepted)
        <5>1. /\ Len(processed) \in Nat /\ Len(accepted) \in Nat
              /\ Len(tmpTaskList) \in Nat /\ Len(taskList) \in Nat
          BY DEF TypeOK
        <5>2. /\ Len(processed) <= Len(accepted)
              /\ \A i \in 1 .. Len(processed) : accepted[i] = processed[i]
          BY <5>1 DEF QueueInv, InOrder
        <5> QED BY <5>1, <5>2 DEF TasksOf
      <4>2. QED BY <2>3, <4>1 DEF ShutdownOrder
    <3>2. ShutdownOrder'
      BY <2>1, <2>3, <2>4, <3>1, PushTasks, TakeTasks, TasksAssumption
      DEF ShutdownOrder, TasksOf
    <3>3. QED BY <1>0, <1>8, <2>1, <2>3, <2>4, <3>2
  <2>5. CASE UNCHANGED queueVars
    <3>1. UNCHANGED <<accepted, taskList>>
      BY <2>5 DEF queueVars
    <3>2. ShutdownOrder'
      BY <2>1, <2>3, <3>1, TakeTasks DEF ShutdownOrder, TasksOf
    <3>3. QED BY <1>0, <1>7, <2>1, <3>1, <3>2
  <2>6. QED BY <2>1, <2>4, <2>5
<1>12. CASE RunGameShutdown
  <2>1. /\ Take /\ Head(tmpTaskList) = GameShutdown /\ dpc = "run"
        /\ Push(Terminate) /\ UNCHANGED <<threadState, dpc, loaderFailed>>
    BY <1>12 DEF RunGameShutdown, Execute, Take
  <2>2. /\ GameShutdown \in TasksOf(accepted) /\ GameShutdown \notin TasksOf(processed)
        /\ tmpTaskList # <<>>
    BY <2>1, HeadOfBatch DEF Take
  <2>3. Terminate \notin TasksOf(accepted) /\ ~loaderFailed /\ threadState # "RUNNING"
    BY <2>1, <2>2 DEF ShutdownOrder
  <2>4. ShutdownOrder'
    BY <2>1, <2>2, <2>3, PushTasks, TakeTasks, TasksAssumption DEF ShutdownOrder, TasksOf
  <2>5. QED BY <1>0, <1>8, <2>1, <2>3, <2>4
<1>13. CASE RunTerminate
  <2>1. /\ Take /\ Head(tmpTaskList) = Terminate /\ dpc = "run"
        /\ threadState' = "TERMINATED"
        /\ UNCHANGED <<accepted, taskList, dpc, loaderFailed>>
    BY <1>13 DEF RunTerminate, Execute, Take, queueVars
  <2>2. ShutdownOrder'
    BY <2>1, TakeTasks DEF ShutdownOrder, TasksOf
  <2>3. QED BY <1>0, <1>7, <2>1, <2>2
<1>14. CASE UNCHANGED vars
  <2>1. ShutdownOrder'
    BY <1>14 DEF vars, ShutdownOrder, TasksOf
  <2>2. QED BY <1>0, <1>2, <1>14, <2>1 DEF vars
<1>15. QED
  BY <1>1, <1>3, <1>4, <1>5, <1>6, <1>9, <1>10, <1>11, <1>12, <1>13, <1>14
  DEF Next, DispatcherStep

THEOREM InvCorrect == Spec => []IInv
BY InitInv, InvStep, PTL DEF Spec

(* The closing sequence the game runs itself leaves no accepted task       *)
(* unprocessed: the terminating task is the last one the queue took, and   *)
(* the thread leaves its loop only after it has processed that one.        *)
THEOREM ShutdownCorrect == Spec => []NothingLeftBehind
<1>1. ASSUME IInv PROVE NothingLeftBehind
  <2> SUFFICES ASSUME dpc = "done", ~loaderFailed PROVE processed = accepted
    BY DEF NothingLeftBehind
  <2> USE <1>1 DEF IInv
  <2>1. Terminate \in TasksOf(processed)
    BY DEF ShutdownOrder
  <2>2. PICK i \in 1 .. Len(processed) : processed[i] = Terminate
    BY <2>1 DEF TasksOf
  <2>3. /\ i \in 1 .. Len(accepted) /\ accepted[i] = Terminate
        /\ Len(processed) \in Nat /\ Len(accepted) \in Nat
        /\ Len(processed) <= Len(accepted)
    BY <2>2 DEF TypeOK, QueueInv, InOrder
  <2>4. accepted[Len(accepted)] = Terminate
    BY <2>3 DEF ShutdownOrder, TasksOf
  <2>5. i = Len(accepted)
    BY <2>3, <2>4 DEF Distinct
  <2>6. Len(processed) = Len(accepted)
    BY <2>3, <2>5
  <2>7. QED BY <2>6 DEF TypeOK, QueueInv, InOrder
<1>2. QED BY <1>1, InvCorrect, PTL

-----------------------------------------------------------------------------
(* The dispatcher implements TaskQueue: whatever the batches and however   *)
(* the posting threads interleave, tasks come out once, first in first out.*)
THEOREM Refinement == Spec => ImplementsTaskQueue
<1>1. Init => Queue!Init
  BY DEF Init, Queue!Init
<1>2. ASSUME IInv, [Next]_vars PROVE [Queue!Next]_(Queue!vars)
  <2> USE <1>2, KindsOfTask DEF IInv
  <2>1. ASSUME NEW t \in Task, t \notin TasksOf(accepted), Push(t), UNCHANGED processed
        PROVE  Queue!Next
    BY <2>1 DEF Push, Queue!Next, Queue!Accept, TasksOf
  <2>2. ASSUME Take, UNCHANGED accepted
        PROVE  Queue!Next
    BY <2>2, HeadOfBatch DEF Take, Queue!Next, Queue!Process
  <2>3. ASSUME Take, NEW t \in Task, t \notin TasksOf(accepted), Push(t)
        PROVE  Queue!Next
    <3>1. Queue!ProcessAndAccept(t)
      BY <2>3, HeadOfBatch DEF Take, Push, Queue!ProcessAndAccept, TasksOf
    <3>2. QED BY <3>1 DEF Queue!Next
  <2>4. CASE \E p \in Producers, t \in UserTasks : AddTask(p, t)
    BY <2>1, <2>4 DEF AddTask, Fresh, threadVars
  <2>5. CASE MainShutdown
    BY <2>1, <2>5 DEF MainShutdown, threadVars
  <2>6. CASE SkipExpired \/ RunTerminate
    BY <2>2, <2>6 DEF SkipExpired, RunTerminate, Execute, queueVars
  <2>7. ASSUME NEW t \in UserTasks, RunTask(t) PROVE Queue!Next
    <3>1. Take
      BY <2>7 DEF RunTask, Execute
    <3>2. CASE UNCHANGED queueVars
      BY <2>2, <3>1, <3>2 DEF queueVars
    <3>3. CASE \E u \in UserTasks : Fresh(u) /\ Push(u)
      BY <2>3, <3>1, <3>3 DEF Fresh
    <3>4. QED BY <2>7, <3>2, <3>3 DEF RunTask
  <2>8. CASE RunCloseRequest
    <3>1. Take /\ Head(tmpTaskList) = CloseRequest
      BY <2>8 DEF RunCloseRequest, Execute
    <3>2. CloseRequest \notin TasksOf(processed)
      BY <3>1, HeadOfBatch DEF Take
    <3>3. GameShutdown \notin TasksOf(accepted)
      BY <3>2 DEF ShutdownOrder
    <3>4. CASE UNCHANGED queueVars
      BY <2>2, <3>1, <3>4 DEF queueVars
    <3>5. CASE Push(GameShutdown)
      BY <2>3, <3>1, <3>3, <3>5
    <3>6. QED BY <2>8, <3>4, <3>5 DEF RunCloseRequest, Accepts
  <2>9. CASE RunGameShutdown
    <3>1. Take /\ Head(tmpTaskList) = GameShutdown /\ Push(Terminate)
      BY <2>9 DEF RunGameShutdown, Execute
    <3>2. /\ GameShutdown \in TasksOf(accepted)
          /\ GameShutdown \notin TasksOf(processed)
      BY <3>1, HeadOfBatch DEF Take
    <3>3. Terminate \notin TasksOf(accepted)
      BY <3>2 DEF ShutdownOrder
    <3>4. QED BY <2>3, <3>1, <3>3
  <2>10. ASSUME UNCHANGED <<accepted, processed>> PROVE UNCHANGED Queue!vars
    BY <2>10 DEF Queue!vars
  <2>11. CASE (\E p \in Producers : Signal(p)) \/ SpuriousWakeup \/ CheckState
              \/ Wait \/ Swap \/ EndBatch \/ Stop \/ UNCHANGED vars
    BY <2>10, <2>11 DEF Signal, SpuriousWakeup, CheckState, Wait, Swap, EndBatch, Stop,
                        vars, queueVars, threadVars
  <2>12. QED
    BY <2>4, <2>5, <2>6, <2>7, <2>8, <2>9, <2>11 DEF Next, DispatcherStep
<1>3. QED BY <1>1, <1>2, InvCorrect, PTL DEF Spec, ImplementsTaskQueue, Queue!Spec

-----------------------------------------------------------------------------
(* Induction over the natural numbers, for a set and not for a predicate.  *)
LEMMA LeastElement ==
  ASSUME NEW T \in SUBSET Nat, T # {}
  PROVE  \E n \in T : \A k \in T : n <= k
<1>1. IsWellFoundedOn(OpToRel(<, Nat), Nat)
  BY NatLessThanWellFounded
<1>2. PICK n \in T : \A k \in T : ~(<<k, n>> \in OpToRel(<, Nat))
  BY <1>1, WFMin
<1>3. \A k \in T : ~(k < n)
  BY <1>2 DEF OpToRel
<1> QED BY <1>3

LEMMA NatInSet ==
  ASSUME NEW S, 0 \in S, \A n \in Nat : n \in S => n + 1 \in S
  PROVE  Nat \subseteq S
<1> SUFFICES ASSUME Nat \ S # {} PROVE FALSE
  OBVIOUS
<1>1. PICK n \in Nat \ S : \A k \in Nat \ S : n <= k
  BY LeastElement
<1>2. n # 0 /\ n - 1 \in Nat
  BY <1>1
<1>3. n - 1 \in S
  BY <1>1, <1>2
<1>4. (n - 1) + 1 \in S
  BY <1>2, <1>3
<1> QED BY <1>1, <1>4

-----------------------------------------------------------------------------
(* A creature is one of its retinue: the recursive function of Retinue     *)
(* exists, as the least relation closed under its two rules, and keeps c.  *)
LEMMA RetinueFunction ==
  ASSUME NEW sm \in [Creature -> SUBSET Creature], NEW c \in Creature, NEW N \in Nat
  PROVE  \E f : f = [n \in 0..N |-> IF n = 0 THEN {c}
                                     ELSE f[n - 1] \cup UNION {sm[d] : d \in f[n - 1]}]
<1> DEFINE Closed(T) ==
             /\ <<0, c>> \in T
             /\ \A n \in 1..N, d \in Creature :
                  <<n - 1, d>> \in T => <<n, d>> \in T /\ \A e \in sm[d] : <<n, e>> \in T
           L == {z \in (0..N) \X Creature :
                   \A T \in SUBSET ((0..N) \X Creature) : Closed(T) => z \in T}
           M == {z \in L : \/ z[1] = 0 /\ z[2] = c
                           \/ /\ z[1] # 0
                              /\ \E d \in Creature : /\ <<z[1] - 1, d>> \in L
                                                     /\ z[2] = d \/ z[2] \in sm[d]}
           S(n) == {d \in Creature : <<n, d>> \in L}
           f == [n \in 0..N |-> S(n)]
<1>1. Closed(L)
  <2>1. <<0, c>> \in L
    OBVIOUS
  <2>2. ASSUME NEW n \in 1..N, NEW d \in Creature, <<n - 1, d>> \in L
        PROVE  <<n, d>> \in L /\ \A e \in sm[d] : <<n, e>> \in L
    <3>1. ASSUME NEW T \in SUBSET ((0..N) \X Creature), Closed(T)
          PROVE  <<n, d>> \in T /\ \A e \in sm[d] : <<n, e>> \in T
      <4>1. <<n - 1, d>> \in T
        BY <2>2, <3>1
      <4> QED BY <3>1, <4>1
    <3>2. n \in 0..N /\ sm[d] \subseteq Creature
      OBVIOUS
    <3> HIDE DEF Closed
    <3> QED BY <3>1, <3>2
  <2> HIDE DEF L
  <2> QED BY <2>1, <2>2
<1>2. Closed(M) /\ M \in SUBSET ((0..N) \X Creature)
  <2>1. <<0, c>> \in M
    BY <1>1
  <2>2. ASSUME NEW n \in 1..N, NEW d \in Creature, <<n - 1, d>> \in M
        PROVE  <<n, d>> \in M /\ \A e \in sm[d] : <<n, e>> \in M
    <3>1. <<n - 1, d>> \in L /\ n # 0
      BY <2>2
    <3>2. <<n, d>> \in L /\ \A e \in sm[d] : <<n, e>> \in L
      BY <1>1, <3>1
    <3> HIDE DEF L
    <3> QED BY <3>1, <3>2
  <2> QED BY <2>1, <2>2
<1>3. \A z \in L : z \in M
  BY <1>2
<1>4. S(0) = {c}
  <2>1. c \in S(0)
    BY <1>1
  <2>2. ASSUME NEW d \in S(0) PROVE d = c
    <3>1. <<0, d>> \in M
      BY <1>3
    <3> QED BY <3>1
  <2> HIDE DEF S
  <2> QED BY <2>1, <2>2
<1>5. ASSUME NEW n \in 1..N PROVE S(n) = S(n - 1) \cup UNION {sm[d] : d \in S(n - 1)}
  <2>1. ASSUME NEW e \in S(n) PROVE e \in S(n - 1) \cup UNION {sm[d] : d \in S(n - 1)}
    <3>1. <<n, e>> \in M /\ n # 0
      <4>1. <<n, e>> \in L
        OBVIOUS
      <4> HIDE DEF L, M
      <4> QED BY <1>3, <4>1
    <3>2. PICK d \in Creature : <<n - 1, d>> \in L /\ (e = d \/ e \in sm[d])
      BY <3>1
    <3>3. d \in S(n - 1)
      BY <3>2
    <3> HIDE DEF S, L, M
    <3> QED BY <3>2, <3>3
  <2>2. ASSUME NEW d \in S(n - 1) PROVE d \in S(n) /\ sm[d] \subseteq S(n)
    <3>1. <<n - 1, d>> \in L /\ d \in Creature
      OBVIOUS
    <3> HIDE DEF L
    <3>2. <<n, d>> \in L /\ \A e \in sm[d] : <<n, e>> \in L
      BY <1>1, <3>1
    <3> QED BY <3>1, <3>2
  <2> HIDE DEF S, L, M
  <2> QED BY <2>1, <2>2
<1> HIDE DEF S
<1>6. f = [n \in 0..N |-> IF n = 0 THEN {c} ELSE f[n - 1] \cup UNION {sm[d] : d \in f[n - 1]}]
  BY <1>4, <1>5
<1> QED BY <1>6

LEMMA RetinueFacts ==
  ASSUME summons \in [Creature -> SUBSET born], born \subseteq Creature, NEW c \in born
  PROVE  c \in Retinue(c) /\ Retinue(c) \subseteq born
<1> DEFINE N == Cardinality(Creature)
           P(f) == f = [n \in 0..N |-> IF n = 0 THEN {c}
                                        ELSE f[n - 1] \cup UNION {summons[d] : d \in f[n - 1]}]
           g == CHOOSE f : P(f)
           I == {n \in Nat : n <= N => c \in g[n] /\ g[n] \subseteq born}
<1>1. N \in Nat
  BY FS_CardinalityType, KindAssumption
<1>2. summons \in [Creature -> SUBSET Creature] /\ c \in Creature
  OBVIOUS
<1>3. Retinue(c) = g[N]
  BY DEF Retinue
<1> HIDE DEF N
<1>4. P(g)
  <2>1. \E f : P(f)
    BY <1>1, <1>2, RetinueFunction
  <2> HIDE DEF P
  <2> QED BY <2>1
<1> HIDE DEF g
<1>5. Nat \subseteq I
  <2>1. 0 \in I
    BY <1>1, <1>4
  <2>2. ASSUME NEW n \in Nat, n \in I PROVE n + 1 \in I
    <3>1. CASE n + 1 <= N
      <4>1. /\ c \in g[n] /\ g[n] \subseteq born
            /\ n + 1 \in 0..N /\ n + 1 # 0 /\ (n + 1) - 1 = n
        BY <1>1, <2>2, <3>1
      <4>2. g[n + 1] = g[n] \cup UNION {summons[d] : d \in g[n]}
        <5>1. g[n + 1] = g[(n + 1) - 1] \cup UNION {summons[d] : d \in g[(n + 1) - 1]}
          BY <1>4, <4>1
        <5> QED BY <4>1, <5>1
      <4>3. \A d \in g[n] : summons[d] \subseteq born
        BY <4>1
      <4> QED BY <4>1, <4>2, <4>3
    <3>2. CASE ~(n + 1 <= N)
      BY <3>2
    <3> QED BY <3>1, <3>2
  <2> HIDE DEF I
  <2> QED BY <2>1, <2>2, NatInSet
<1> QED BY <1>1, <1>3, <1>5

-----------------------------------------------------------------------------
(* The inductive invariant.                                                *)

InSpawn == Range(spawned) \cup strays

Mastered == {c \in Creature : master[c] # None}

\* the counter, with the master in place of the lists of summons
Count(c) ==
  One(world)[c] + toRelease[c] + One(inVector)[c] + One(InSpawn)[c]
    + One(Mastered)[c] + Listed(targets, c)

\* who attacks sees whom
InSight ==
  \A c \in world : attacked[c] # None =>
    attacked[c] \in world /\ at[attacked[c]] = at[c]

Bound == \A c, m \in Creature : master[c] = m <=> c \in summons[m]

Listing == marked \subseteq inVector /\ inVector = UNION Range(checks)

Awake ==
  /\ \A c \in world \ dead : c \in Player \/ c \notin idle => c \in marked
  /\ \A m \in world \cap idle : targets[m] = {}

\* what the startup did not fill is left to a check that is ordered
Missed == unfilled \subseteq Slot /\ (timer => unfilled = {})

Ordered ==
  /\ Missed
  /\ Cardinality(InSpawn \cap world) + Cardinality(unfilled) < Cardinality(Slot) => timer

\* what the type invariant leaves out
Kinds ==
  /\ inVector \subseteq born
  /\ checks \in [CheckList -> SUBSET Creature]
  /\ spawned \in [Slot -> Monster \cup {None}] /\ strays \subseteq Monster
  /\ dead \cap idle = {}
  /\ \A c \in Creature : master[c] # c

\* an object that does not exist is in nobody's hands
Unborn ==
  \A c \in Creature \ born : attacked[c] = None /\ toRelease[c] = 0 /\ c \notin InSpawn

\* a monster has one entry in the spawn
Slots ==
  /\ \A s, t \in Slot : spawned[s] = spawned[t] /\ spawned[s] # None => s = t
  /\ Range(spawned) \cap strays = {}

CreatureInv ==
  /\ CreatureTypeOK /\ ReferencesExact /\ PointersLive /\ NobodyForgotten
  /\ Kinds /\ Unborn /\ Slots /\ Missed

LEMMA InvParts ==
  CreatureInv <=>
    /\ CreatureTypeOK /\ ReferencesExact /\ InSight /\ Bound
    /\ Listing /\ Awake /\ Ordered
    /\ Kinds /\ Unborn /\ Slots
BY DEF CreatureInv, PointersLive, NobodyForgotten, InSight, Bound, Listing, Awake,
       Ordered, InSpawn

-----------------------------------------------------------------------------
(* Counting.                                                               *)
LEMMA Kind ==
  /\ \A c \in Creature : c # None /\ (c \in Player <=> c \notin Monster)
  /\ Player \subseteq Creature /\ Monster \subseteq Creature
  /\ IsFiniteSet(Creature) /\ IsFiniteSet(Monster) /\ IsFiniteSet(Slot)
  /\ Cardinality(Slot) \in Nat /\ Home \in Place
BY KindAssumption, FS_Subset, FS_CardinalityType DEF Creature

LEMMA OneOf ==
  ASSUME NEW S, NEW c \in Creature
  PROVE  /\ One(S)[c] = IF c \in S THEN 1 ELSE 0
         /\ One(S)[c] \in Nat
BY DEF One

LEMMA ListedType ==
  ASSUME NEW T, NEW c
  PROVE  /\ Listed(T, c) \in Nat
         /\ Listed(T, c) = 0 <=> \A m \in Monster : c \notin T[m]
<1> DEFINE L == {m \in Monster : c \in T[m]}
<1>1. IsFiniteSet(L)
  BY Kind, FS_Subset
<1>2. Cardinality(L) \in Nat /\ (Cardinality(L) = 0 <=> L = {})
  BY <1>1, FS_CardinalityType, FS_EmptySet
<1> QED BY <1>2 DEF Listed

\* one list is emptied
LEMMA ListedWithout ==
  ASSUME NEW T, NEW U, NEW k, NEW c,
         \A m \in Monster : U[m] = IF m = k THEN {} ELSE T[m]
  PROVE  Listed(U, c) = Listed(T, c) - (IF k \in Monster /\ c \in T[k] THEN 1 ELSE 0)
<1> DEFINE L == {m \in Monster : c \in T[m]}
           K == {m \in Monster : c \in U[m]}
<1>1. IsFiniteSet(L) /\ Cardinality(L) \in Nat
  BY Kind, FS_Subset, FS_CardinalityType
<1>2. K = L \ {k} /\ (k \in L <=> k \in Monster /\ c \in T[k])
  OBVIOUS
<1> HIDE DEF L, K
<1>3. Cardinality(K) = IF k \in L THEN Cardinality(L) - 1 ELSE Cardinality(L)
  BY <1>1, <1>2, FS_RemoveElement
<1>4. Listed(U, c) = Cardinality(K) /\ Listed(T, c) = Cardinality(L)
  BY DEF Listed, L, K
<1> QED BY <1>1, <1>2, <1>3, <1>4

\* the lists of summons hold a creature once, its master's does, or not
LEMMA MasterCount ==
  ASSUME NEW ms \in [Creature -> Creature \cup {None}], NEW sm, NEW c \in Creature,
         \A m \in Creature : ms[c] = m <=> c \in sm[m]
  PROVE  Cardinality({m \in Creature : c \in sm[m]}) = IF ms[c] # None THEN 1 ELSE 0
<1>1. CASE ms[c] = None
  <2>1. {m \in Creature : c \in sm[m]} = {}
    BY <1>1, Kind
  <2> QED BY <1>1, <2>1, FS_EmptySet
<1>2. CASE ms[c] # None
  <2>1. {m \in Creature : c \in sm[m]} = {ms[c]}
    BY <1>2
  <2> QED BY <1>2, <2>1, FS_Singleton
<1> QED BY <1>1, <1>2

\* the references of a creature are its Count
LEMMA ReferencesCount ==
  ASSUME master \in [Creature -> Creature \cup {None}], Bound, NEW c \in Creature
  PROVE  References(c) = Count(c)
<1>1. Cardinality({m \in Creature : c \in summons[m]}) = IF master[c] # None THEN 1 ELSE 0
  BY MasterCount DEF Bound
<1>2. One(Mastered)[c] = IF master[c] # None THEN 1 ELSE 0
  BY OneOf DEF Mastered
<1> QED BY <1>1, <1>2 DEF References, Count, InSpawn

LEMMA ReferencesCountNext ==
  ASSUME master' \in [Creature -> Creature \cup {None}], Bound', NEW c \in Creature
  PROVE  References(c)' = Count(c)'
<1>1. Cardinality({m \in Creature : c \in summons'[m]}) = IF master'[c] # None THEN 1 ELSE 0
  BY MasterCount DEF Bound
<1>2. One({d \in Creature : master'[d] # None})[c] = IF master'[c] # None THEN 1 ELSE 0
  BY OneOf
<1> QED BY <1>1, <1>2 DEF References, Count, InSpawn, Mastered, One, Listed

\* what holds of a creature whose counter is n
LEMMA CountFacts ==
  ASSUME CreatureInv, NEW c \in Creature
  PROVE  /\ refs[c] = Count(c)
         /\ refs[c] = 0 => /\ c \notin world /\ toRelease[c] = 0 /\ c \notin inVector
                           /\ c \notin InSpawn /\ master[c] = None
                           /\ \A m \in Monster : c \notin targets[m]
<1>1. master \in [Creature -> Creature \cup {None}]
  BY InvParts DEF CreatureTypeOK
<1>2. refs[c] = Count(c)
  BY <1>1, InvParts, ReferencesCount DEF ReferencesExact
<1>3. /\ One(world)[c] = (IF c \in world THEN 1 ELSE 0)
      /\ One(inVector)[c] = (IF c \in inVector THEN 1 ELSE 0)
      /\ One(InSpawn)[c] = (IF c \in InSpawn THEN 1 ELSE 0)
      /\ One(Mastered)[c] = (IF master[c] # None THEN 1 ELSE 0)
  BY OneOf DEF Mastered
<1>4. Listed(targets, c) \in Nat /\ (Listed(targets, c) = 0 <=> \A m \in Monster : c \notin targets[m])
  BY ListedType
<1>5. toRelease[c] \in Nat
  BY InvParts DEF CreatureTypeOK
<1>6. ASSUME refs[c] = 0
      PROVE  /\ c \notin world /\ toRelease[c] = 0 /\ c \notin inVector
             /\ c \notin InSpawn /\ master[c] = None /\ Listed(targets, c) = 0
  BY <1>2, <1>3, <1>4, <1>5, <1>6 DEF Count
<1> QED BY <1>2, <1>4, <1>6

\* an object that does not exist has no references
LEMMA UnbornFacts ==
  ASSUME CreatureInv, NEW c \in Creature \ born
  PROVE  /\ c \notin world /\ c \notin dead /\ c \notin inVector /\ c \notin marked
         /\ c \notin InSpawn /\ attacked[c] = None /\ master[c] = None
         /\ \A m \in Monster : c \notin targets[m]
         /\ \A m \in Creature : c \notin summons[m]
<1>1. c \notin world /\ c \notin dead /\ c \notin inVector /\ c \notin marked
  BY InvParts DEF CreatureTypeOK, Kinds, Listing
<1>2. (\A m \in Monster : c \notin targets[m]) /\ (\A m \in Creature : c \notin summons[m])
  BY InvParts DEF CreatureTypeOK
<1>3. master[c] = None
  BY <1>2, InvParts DEF CreatureTypeOK, Bound
<1> QED BY <1>1, <1>2, <1>3, InvParts DEF Unborn

LEMMA ExactNext ==
  ASSUME Bound', master' \in [Creature -> Creature \cup {None}],
         toRelease' \in [Creature -> Nat],
         refs' = [c \in Creature |-> refs'[c]],
         \A c \in Creature : refs'[c] = Count(c)'
  PROVE  ReferencesExact' /\ refs' \in [Creature -> Nat]
<1>1. \A c \in Creature : refs'[c] = References(c)'
  BY ReferencesCountNext
<1>2. ASSUME NEW c \in Creature PROVE refs'[c] \in Nat
  <2>1. /\ One(world')[c] \in Nat /\ One(inVector')[c] \in Nat /\ One(InSpawn')[c] \in Nat
        /\ One(Mastered')[c] \in Nat
    BY OneOf
  <2>2. Listed(targets', c) \in Nat
    BY ListedType
  <2>3. toRelease'[c] \in Nat
    OBVIOUS
  <2>4. refs'[c] = One(world')[c] + toRelease'[c] + One(inVector')[c] + One(InSpawn')[c]
                     + One(Mastered')[c] + Listed(targets', c)
    BY DEF Count, One, Listed
  <2> QED BY <2>1, <2>2, <2>3, <2>4
<1> QED BY <1>1, <1>2 DEF ReferencesExact

-----------------------------------------------------------------------------
(* addCreatureCheck, removeCreatureCheck and setIdle.                      *)
LEMMA CheckStep ==
  ASSUME Listing, checks \in [CheckList -> SUBSET Creature],
         \A i, j \in CheckList : i # j => checks[i] \cap checks[j] = {},
         NEW S \in SUBSET Creature, NEW U, Check(S, U)
  PROVE  /\ inVector' = inVector \cup S
         /\ \A c : c \in marked' <=> c \in S \/ (c \in marked /\ c \notin U)
         /\ Listing' /\ checks' \in [CheckList -> SUBSET Creature]
         /\ \A i, j \in CheckList : i # j => checks'[i] \cap checks'[j] = {}
<1> DEFINE new == S \ inVector
<1>1. /\ inVector' = inVector \cup S
      /\ marked' = (marked \ (U \cap inVector)) \cup S
  BY DEF Check
<1>2. \A c : c \in marked' <=> c \in S \/ (c \in marked /\ c \notin U)
  BY <1>1 DEF Listing
<1>3. PICK on \in [new -> CheckList] :
        checks' = [i \in CheckList |-> checks[i] \cup {c \in new : on[c] = i}]
  BY DEF Check
<1>4. checks' \in [CheckList -> SUBSET Creature]
  BY <1>3
<1>5. \A c : c \in inVector <=> \E i \in CheckList : c \in checks[i]
  BY DEF Listing, Range
<1>6. \A c : c \in inVector' <=> \E i \in CheckList : c \in checks'[i]
  <2>1. ASSUME NEW c, c \in inVector' PROVE \E i \in CheckList : c \in checks'[i]
    <3>1. CASE c \in inVector
      BY <1>3, <1>5, <3>1
    <3>2. CASE c \in new
      <4>1. on[c] \in CheckList
        BY <3>2
      <4> QED BY <1>3, <3>2, <4>1
    <3> QED BY <1>1, <2>1, <3>1, <3>2
  <2>2. ASSUME NEW c, NEW i \in CheckList, c \in checks'[i] PROVE c \in inVector'
    BY <1>1, <1>3, <1>5, <2>2
  <2> QED BY <2>1, <2>2
<1>7. inVector' = UNION Range(checks')
  BY <1>4, <1>6 DEF Range
<1>8. marked' \subseteq inVector'
  BY <1>1 DEF Listing
<1>9. ASSUME NEW i \in CheckList, NEW j \in CheckList, i # j
      PROVE  checks'[i] \cap checks'[j] = {}
  <2>1. ASSUME NEW c, c \in checks'[i], c \in checks'[j] PROVE FALSE
    <3>1. c \in checks[i] \/ (c \in new /\ on[c] = i)
      BY <1>3, <2>1
    <3>2. c \in checks[j] \/ (c \in new /\ on[c] = j)
      BY <1>3, <2>1
    <3>3. c \in checks[i] \/ c \in checks[j] => c \in inVector
      BY <1>5
    <3>4. checks[i] \cap checks[j] = {}
      BY <1>9
    <3> QED BY <1>9, <3>1, <3>2, <3>3, <3>4
  <2> QED BY <2>1
<1> QED BY <1>1, <1>2, <1>4, <1>7, <1>8, <1>9 DEF Listing

\* what Update does, variable by variable
Updated(T, lull, wake, S, U, other) ==
  /\ targets' = [m \in Monster |-> targets'[m]]
  /\ \A m \in Monster : targets'[m] = IF m \in lull THEN {} ELSE T[m]
  /\ \A c : c \in idle' <=> c \in idle \cup lull /\ c \notin wake
  /\ \A c : c \in inVector' <=> c \in inVector \cup S \cup wake
  /\ \A c : c \in marked' <=> c \in S \cup wake \/ (c \in marked /\ c \notin U \cup lull)
  /\ Listing' /\ checks' \in [CheckList -> SUBSET Creature]
  /\ \A i, j \in CheckList : i # j => checks'[i] \cap checks'[j] = {}
  /\ refs' = [c \in Creature |-> refs'[c]]
  /\ \A c \in Creature :
       refs'[c] = refs[c] + other[c] + One(inVector' \ inVector)[c]
                    + Listed(targets', c) - Listed(targets, c)

LEMMA UpdateStep ==
  ASSUME CreatureInv,
         NEW T, NEW lull, NEW wake, NEW S, NEW U, NEW other,
         lull \subseteq Monster, wake \subseteq Creature, S \subseteq Creature,
         Update(T, lull, wake, S, U, other)
  PROVE  Updated(T, lull, wake, S, U, other)
<1>1. Check(S \cup wake, U \cup lull)
  BY DEF Update
<1>2. S \cup wake \in SUBSET Creature
  OBVIOUS
<1>3. /\ Listing /\ checks \in [CheckList -> SUBSET Creature]
      /\ \A i, j \in CheckList : i # j => checks[i] \cap checks[j] = {}
  BY InvParts DEF Kinds, CreatureTypeOK
<1>4. /\ inVector' = inVector \cup (S \cup wake)
      /\ \A c : c \in marked' <=> c \in S \cup wake \/ (c \in marked /\ c \notin U \cup lull)
      /\ Listing' /\ checks' \in [CheckList -> SUBSET Creature]
      /\ \A i, j \in CheckList : i # j => checks'[i] \cap checks'[j] = {}
  BY <1>1, <1>2, <1>3, CheckStep
<1>5. (S \cup wake) \ inVector = inVector' \ inVector
  BY <1>4
<1>6. /\ targets' = [m \in Monster |-> targets'[m]]
      /\ \A m \in Monster : targets'[m] = IF m \in lull THEN {} ELSE T[m]
  BY DEF Update
<1>7. refs' = [c \in Creature |-> refs[c] + other[c] + One(inVector' \ inVector)[c]
                                         + Listed(targets', c) - Listed(targets, c)]
  <2>1. targets' = [m \in Monster |-> IF m \in lull THEN {} ELSE T[m]]
    BY DEF Update
  <2> QED BY <1>5, <2>1 DEF Update
<1>8. \A c : c \in idle' <=> c \in idle \cup lull /\ c \notin wake
  BY DEF Update
<1>9. refs' = [c \in Creature |-> refs'[c]]
  BY <1>7
<1>10. \A c \in Creature : refs'[c] = refs[c] + other[c] + One(inVector' \ inVector)[c]
                                       + Listed(targets', c) - Listed(targets, c)
  BY <1>7
<1> QED BY <1>4, <1>6, <1>8, <1>9, <1>10 DEF Updated

LEMMA UpdateCount ==
  ASSUME CreatureInv,
         NEW T, NEW lull, NEW wake, NEW S, NEW U, NEW other,
         Updated(T, lull, wake, S, U, other),
         NEW c \in Creature, toRelease'[c] \in Nat,
         other[c] = One(world')[c] - One(world)[c] + toRelease'[c] - toRelease[c]
                      + One(InSpawn')[c] - One(InSpawn)[c]
                      + One(Mastered')[c] - One(Mastered)[c]
  PROVE  refs'[c] = Count(c)'
<1>1. /\ \A d : d \in inVector' <=> d \in inVector \cup S \cup wake
      /\ refs'[c] = refs[c] + other[c] + One(inVector' \ inVector)[c]
                      + Listed(targets', c) - Listed(targets, c)
  BY DEF Updated
<1>2. refs[c] = Count(c)
  BY CountFacts
<1>3. One(inVector')[c] = One(inVector)[c] + One(inVector' \ inVector)[c]
  BY <1>1, OneOf
<1>4. toRelease[c] \in Nat
  BY InvParts DEF CreatureTypeOK
<1>5. /\ One(world)[c] \in Nat /\ One(InSpawn)[c] \in Nat /\ One(Mastered)[c] \in Nat
      /\ One(world')[c] \in Nat /\ One(InSpawn')[c] \in Nat /\ One(Mastered')[c] \in Nat
      /\ One(inVector)[c] \in Nat /\ One(inVector' \ inVector)[c] \in Nat
  BY OneOf
<1>6. Listed(targets, c) \in Nat /\ Listed(targets', c) \in Nat
  BY ListedType
<1>7. refs'[c] = refs[c] + other[c] + One(inVector' \ inVector)[c]
                   + Listed(targets', c) - Listed(targets, c)
  BY <1>1
<1>8. refs'[c] = One(world')[c] + toRelease'[c] + One(inVector')[c] + One(InSpawn')[c]
                   + One(Mastered')[c] + Listed(targets', c)
  BY <1>2, <1>3, <1>4, <1>5, <1>6, <1>7 DEF Count
<1> QED BY <1>8 DEF Count, One, Listed

(* updateIdleStatus of the monsters M, and setIdle(true) of those of X:    *)
(* whoever is alive in the world afterwards is awake and checked, or       *)
(* asleep and without target.                                              *)
LEMMA AwakeNext ==
  ASSUME CreatureInv,
         NEW T, NEW M, NEW X, NEW S, NEW U, NEW other,
         Updated(T, Lulled(M, T) \cup X, Wakened(M, T), S, U, other),
         M \subseteq Monster,
         \A m \in Monster \ M : T[m] = targets[m],
         \A c \in world' : c \notin X /\ c \notin U,
         \A c \in world' : c \in world \/ (c \in S /\ (c \in Monster => c \in M)),
         dead' = dead
  PROVE  Awake'
<1>1. /\ \A m \in M \ dead : (m \in Lulled(M, T)) <=> (m \notin Wakened(M, T))
      /\ Lulled(M, T) \subseteq M \ dead /\ Wakened(M, T) \subseteq M \ dead
      /\ \A m \in Lulled(M, T) : T[m] = {}
  BY DEF Lulled, Wakened
<1> DEFINE L == Lulled(M, T)
           W == Wakened(M, T)
<1> HIDE DEF L, W
<1>2. /\ \A m \in Monster : targets'[m] = IF m \in L \cup X THEN {} ELSE T[m]
      /\ \A c : c \in idle' <=> c \in idle \cup (L \cup X) /\ c \notin W
      /\ \A c : c \in marked' <=> c \in S \cup W \/ (c \in marked /\ c \notin U \cup (L \cup X))
  BY DEF Updated, L, W
<1>3. /\ \A m \in M \ dead : (m \in L) <=> (m \notin W)
      /\ L \subseteq M \ dead /\ W \subseteq M \ dead
      /\ \A m \in L : T[m] = {}
  BY <1>1 DEF L, W
<1>4. /\ \A c \in world \ dead : c \in Player \/ c \notin idle => c \in marked
      /\ \A m \in world \cap idle : targets[m] = {}
      /\ dead \cap idle = {} /\ idle \subseteq Monster /\ world \subseteq Creature
  BY InvParts DEF Awake, Kinds, CreatureTypeOK
<1>5. ASSUME NEW c \in world' \ dead, c \in Player \/ c \notin idle' PROVE c \in marked'
  <2>1. CASE c \notin world
    BY <1>2, <2>1
  <2>2. CASE c \in world /\ c \in M
    <3>1. c \notin Player
      BY <2>2, KindAssumption
    <3>2. c \notin L
      BY <1>2, <1>3, <1>5, <2>2, <3>1
    <3> QED BY <1>2, <1>3, <2>2, <3>2
  <2>3. CASE c \in world /\ c \notin M
    <3>1. c \notin L /\ c \notin W
      BY <1>3, <2>3
    <3>2. c \in marked
      BY <1>2, <1>4, <1>5, <2>3, <3>1
    <3> QED BY <1>2, <2>3, <3>1, <3>2
  <2> QED BY <2>1, <2>2, <2>3
<1>6. ASSUME NEW m \in world' \cap idle' PROVE targets'[m] = {}
  <2>1. m \in Monster /\ m \notin X /\ m \notin W
    BY <1>2, <1>3, <1>4
  <2>2. CASE m \in M
    <3>1. m \in L
      BY <1>2, <1>3, <1>4, <2>1, <2>2
    <3> QED BY <1>2, <2>1, <3>1
  <2>3. CASE m \notin M
    <3>1. m \in world /\ m \in idle /\ m \notin L
      BY <1>2, <1>3, <2>1, <2>3
    <3> QED BY <1>2, <1>4, <2>1, <2>3, <3>1
  <2> QED BY <2>2, <2>3
<1> QED BY <1>5, <1>6 DEF Awake

LEMMA SeenFacts ==
  ASSUME CreatureInv, NEW c \in Creature, NEW p, NEW left, NEW m \in Monster
  PROVE  /\ SeenAt(c, p, left)[m] \subseteq targets[m] \cup world \cup {c}
         /\ m \notin Here(p) \cup left \cup {c} => SeenAt(c, p, left)[m] = targets[m]
BY DEF SeenAt, Here

-----------------------------------------------------------------------------
(* placeCreature, whatever it is called for.                               *)
Appeared(c, p, other) ==
  /\ c \notin born /\ born' = born \cup {c} /\ world' = world \cup {c}
  /\ dead' = dead /\ toRelease' = toRelease /\ attacked' = attacked /\ removing' = removing
  /\ at' \in [Creature -> Place]
  /\ \A i, j \in CheckList : i # j => checks'[i] \cap checks'[j] = {}
  /\ Listing' /\ Awake' /\ InSight'
  /\ idle' \subseteq Monster /\ dead' \cap idle' = {}
  /\ inVector' \subseteq born' /\ checks' \in [CheckList -> SUBSET Creature]
  /\ targets' \in [Monster -> SUBSET (born \cup {c})]
  /\ refs' = [d \in Creature |-> refs'[d]]
  /\ \A d \in Creature :
       other[d] = One(InSpawn')[d] - One(InSpawn)[d] + One(Mastered')[d] - One(Mastered)[d]
         => refs'[d] = Count(d)'

LEMMA AppearStep ==
  ASSUME CreatureInv, NEW c \in Creature, NEW p \in Place, NEW other,
         \A d \in Creature : other[d] \in Int,
         Appear(c, p, other)
  PROVE  Appeared(c, p, other)
<1> DEFINE T == SeenAt(c, p, {})
           M == (Here(p) \cup {c}) \cap Monster
           o == [d \in Creature |-> other[d] + One({c})[d]]
<1>1. /\ c \notin born /\ born' = born \cup {c} /\ world' = world \cup {c}
      /\ at' = [at EXCEPT ![c] = p]
      /\ Update(T, Lulled(M, T), Wakened(M, T), {c}, {}, o)
      /\ dead' = dead /\ toRelease' = toRelease /\ attacked' = attacked /\ removing' = removing
  BY DEF Appear
<1>2. \A m \in Monster : /\ T[m] \subseteq targets[m] \cup world \cup {c}
                         /\ m \notin M => T[m] = targets[m]
  BY SeenFacts
<1> HIDE DEF T, o
<1>3. /\ M \subseteq Monster /\ M \subseteq world \cup {c}
      /\ Lulled(M, T) \subseteq M /\ Wakened(M, T) \subseteq M /\ {c} \subseteq Creature
      /\ M \subseteq Creature /\ Lulled(M, T) \cap dead = {}
      /\ \A m \in Here(p) \cap Monster : m \in M
      /\ c \in Monster => c \in M
  BY Kind DEF Here, Lulled, Wakened
<1> HIDE DEF M
<1>4. Updated(T, Lulled(M, T), Wakened(M, T), {c}, {}, o)
  <2>1. Lulled(M, T) \subseteq Monster /\ Wakened(M, T) \subseteq Creature
    BY <1>3
  <2> QED BY <1>1, <1>3, <2>1, UpdateStep
<1>5. /\ world \subseteq born /\ born \subseteq Creature /\ dead \subseteq born
      /\ at \in [Creature -> Place] /\ toRelease \in [Creature -> Nat]
      /\ idle \subseteq Monster /\ targets \in [Monster -> SUBSET born]
      /\ dead \cap idle = {} /\ inVector \subseteq born
  BY InvParts DEF CreatureTypeOK, Kinds
<1>6. at' \in [Creature -> Place]
  BY <1>1, <1>5
<1>7. Awake'
  <2>1. Lulled(M, T) = Lulled(M, T) \cup {}
    OBVIOUS
  <2>2. Updated(T, Lulled(M, T) \cup {}, Wakened(M, T), {c}, {}, o)
    BY <1>4, <2>1
  <2>3. \A d \in world' : d \notin {} /\ d \notin {}
    OBVIOUS
  <2>4. \A d \in world' : d \in world \/ (d \in {c} /\ (d \in Monster => d \in M))
    BY <1>1, <1>3
  <2>5. \A m \in Monster \ M : T[m] = targets[m]
    BY <1>2
  <2> QED BY <1>1, <1>3, <2>2, <2>3, <2>4, <2>5, AwakeNext
<1>8. InSight'
  <2>1. ASSUME NEW d \in world', attacked'[d] # None
        PROVE  attacked'[d] \in world' /\ at'[attacked'[d]] = at'[d]
    <3>1. d # c
      BY <1>1, <2>1, UnbornFacts
    <3>2. d \in world /\ attacked[d] # None
      BY <1>1, <2>1, <3>1
    <3>3. attacked[d] \in world /\ at[attacked[d]] = at[d]
      BY <3>2, InvParts DEF InSight
    <3>4. attacked[d] # c
      BY <1>1, <1>5, <3>3
    <3> QED BY <1>1, <1>5, <3>1, <3>2, <3>3, <3>4
  <2> QED BY <2>1 DEF InSight
<1>9. idle' \subseteq Monster /\ dead' \cap idle' = {}
  <2>1. \A d : d \in idle' => d \in idle \cup Lulled(M, T)
    BY <1>4 DEF Updated
  <2> QED BY <1>1, <1>3, <1>5, <2>1
<1>10. inVector' \subseteq born'
  <2>1. \A d : d \in inVector' => d \in inVector \cup {c} \cup Wakened(M, T)
    BY <1>4 DEF Updated
  <2> QED BY <1>1, <1>3, <1>5, <2>1
<1>11. targets' \in [Monster -> SUBSET (born \cup {c})]
  <2>1. /\ targets' = [m \in Monster |-> targets'[m]]
        /\ \A m \in Monster : targets'[m] = IF m \in Lulled(M, T) THEN {} ELSE T[m]
    BY <1>4 DEF Updated
  <2>2. \A m \in Monster : targets'[m] \in SUBSET (born \cup {c})
    BY <1>2, <1>5, <2>1
  <2> QED BY <2>1, <2>2
<1>12. ASSUME NEW d \in Creature,
              other[d] = One(InSpawn')[d] - One(InSpawn)[d] + One(Mastered')[d] - One(Mastered)[d]
       PROVE  refs'[d] = Count(d)'
  <2>1. toRelease'[d] \in Nat /\ toRelease'[d] = toRelease[d]
    BY <1>1, <1>5
  <2>2. One({c})[d] = One(world')[d] - One(world)[d]
    BY <1>1, <1>5, OneOf
  <2>3. o[d] = other[d] + One({c})[d]
    BY DEF o
  <2>4. /\ One(world)[d] \in Nat /\ One(InSpawn)[d] \in Nat /\ One(Mastered)[d] \in Nat
        /\ One(world')[d] \in Nat /\ One(InSpawn')[d] \in Nat /\ One(Mastered')[d] \in Nat
    BY OneOf
  <2>5. o[d] = One(world')[d] - One(world)[d] + toRelease'[d] - toRelease[d]
                 + One(InSpawn')[d] - One(InSpawn)[d] + One(Mastered')[d] - One(Mastered)[d]
    BY <1>12, <2>1, <2>2, <2>3, <2>4
  <2> QED BY <1>4, <2>1, <2>5, UpdateCount
<1>13. /\ Listing' /\ checks' \in [CheckList -> SUBSET Creature]
       /\ \A i, j \in CheckList : i # j => checks'[i] \cap checks'[j] = {}
       /\ refs' = [d \in Creature |-> refs'[d]]
  BY <1>4 DEF Updated
<1> QED BY <1>1, <1>6, <1>7, <1>8, <1>9, <1>10, <1>11, <1>12, <1>13 DEF Appeared

LEMMA InvNext ==
  ASSUME CreatureTypeOK', ReferencesExact', InSight', Bound', Listing', Awake', Ordered',
         Kinds', Unborn', Slots'
  PROVE  CreatureInv'
BY DEF CreatureInv, PointersLive, NobodyForgotten, InSight, Bound, Listing, Awake,
       Ordered, InSpawn

\* the part of a step that neither masters nor the spawn see
LEMMA AppearedInv ==
  ASSUME CreatureInv, NEW c \in Creature, NEW p, NEW other, Appeared(c, p, other),
         master' \in [Creature -> born' \cup {None}],
         summons' \in [Creature -> SUBSET born'], Bound',
         \A d \in Creature : master'[d] # d,
         timer' \in BOOLEAN,
         spawned' \in [Slot -> Monster \cup {None}], strays' \subseteq Monster,
         InSpawn' \subseteq InSpawn \cup {c} \cup {None},
         Slots', Ordered',
         \A d \in Creature :
           other[d] = One(InSpawn')[d] - One(InSpawn)[d] + One(Mastered')[d] - One(Mastered)[d]
  PROVE  CreatureInv'
<1>1. /\ c \notin born /\ born' = born \cup {c} /\ world' = world \cup {c}
      /\ dead' = dead /\ toRelease' = toRelease /\ attacked' = attacked /\ removing' = removing
      /\ at' \in [Creature -> Place]
      /\ \A i, j \in CheckList : i # j => checks'[i] \cap checks'[j] = {}
      /\ Listing' /\ Awake' /\ InSight'
      /\ idle' \subseteq Monster /\ dead' \cap idle' = {}
      /\ inVector' \subseteq born' /\ checks' \in [CheckList -> SUBSET Creature]
      /\ targets' \in [Monster -> SUBSET (born \cup {c})]
      /\ refs' = [d \in Creature |-> refs'[d]]
  BY DEF Appeared
<1>2. \A d \in Creature : refs'[d] = Count(d)'
  BY DEF Appeared
<1>3. CreatureTypeOK /\ Unborn
  BY InvParts
<1>4. /\ world \subseteq born /\ born \subseteq Creature /\ dead \subseteq born
      /\ toRelease \in [Creature -> Nat] /\ attacked \in [Creature -> Creature \cup {None}]
      /\ removing \subseteq world
  BY <1>3 DEF CreatureTypeOK
<1>5. ReferencesExact' /\ refs' \in [Creature -> Nat]
  <2>1. master' \in [Creature -> Creature \cup {None}]
    BY <1>1, <1>4
  <2>2. toRelease' \in [Creature -> Nat]
    BY <1>1, <1>4
  <2> QED BY <1>1, <1>2, <2>1, <2>2, ExactNext
<1>6. CreatureTypeOK'
  BY <1>1, <1>4, <1>5 DEF CreatureTypeOK
<1>7. Kinds'
  BY <1>1 DEF Kinds
<1>8. Unborn'
  <2>1. ASSUME NEW d \in Creature \ born'
        PROVE  attacked'[d] = None /\ toRelease'[d] = 0 /\ d \notin InSpawn'
    <3>1. d \in Creature \ born /\ d # c /\ d # None
      BY <1>1, <2>1, Kind
    <3> QED BY <1>1, <1>3, <3>1 DEF Unborn
  <2> QED BY <2>1 DEF Unborn
<1> QED BY <1>1, <1>5, <1>6, <1>7, <1>8, InvNext

LEMMA LoginInv ==
  ASSUME CreatureInv, NEW c \in Creature, NEW p \in Place, Login(c, p)
  PROVE  CreatureInv'
<1>1. /\ Appear(c, p, One({}))
      /\ master' = master /\ summons' = summons
      /\ spawned' = spawned /\ strays' = strays /\ timer' = timer
      /\ unfilled' = unfilled
  BY DEF Login, bonds, spawn
<1>2. \A d \in Creature : One({})[d] = 0
  BY OneOf
<1>3. Appeared(c, p, One({}))
  BY <1>1, <1>2, AppearStep
<1>4. born' = born \cup {c} /\ world' = world \cup {c} /\ c \notin born
  BY <1>3 DEF Appeared
<1>5. CreatureTypeOK /\ Bound /\ Kinds /\ Slots /\ Ordered
  BY InvParts
<1>6. /\ master' \in [Creature -> born' \cup {None}] /\ summons' \in [Creature -> SUBSET born']
      /\ Bound' /\ \A d \in Creature : master'[d] # d
  BY <1>1, <1>4, <1>5 DEF CreatureTypeOK, Bound, Kinds
<1>7. /\ timer' \in BOOLEAN /\ spawned' \in [Slot -> Monster \cup {None}] /\ strays' \subseteq Monster
      /\ Slots'
  BY <1>1, <1>5 DEF CreatureTypeOK, Kinds, Slots
<1>8. InSpawn' = InSpawn /\ Mastered' = Mastered
  BY <1>1 DEF InSpawn, Mastered
<1>9. Ordered'
  <2>1. c \notin InSpawn
    BY <1>4, UnbornFacts
  <2>2. InSpawn \cap world' = InSpawn \cap world
    BY <1>4, <2>1
  <2> QED BY <1>1, <1>5, <1>8, <2>2 DEF Ordered, Missed
<1>10. \A d \in Creature :
         One({})[d] = One(InSpawn')[d] - One(InSpawn)[d] + One(Mastered')[d] - One(Mastered)[d]
  BY <1>2, <1>8, OneOf
<1> QED BY <1>3, <1>6, <1>7, <1>8, <1>9, <1>10, AppearedInv

LEMMA SummonInv ==
  ASSUME CreatureInv, NEW m \in Creature, NEW c \in Monster, Summon(m, c)
  PROVE  CreatureInv'
<1> DEFINE p == at[m]
           other == One({c})
<1>1. /\ m \in world /\ Appear(c, p, other)
      /\ master' = [master EXCEPT ![c] = m]
      /\ summons' = [summons EXCEPT ![m] = summons[m] \cup {c}]
      /\ spawned' = spawned /\ strays' = strays /\ timer' = timer
      /\ unfilled' = unfilled
  BY DEF Summon, spawn
<1>2. CreatureTypeOK /\ Bound /\ Kinds /\ Slots /\ Ordered
  BY InvParts
<1>3. /\ c \in Creature /\ p \in Place /\ m \in born
      /\ \A d \in Creature : other[d] = IF d = c THEN 1 ELSE 0
  BY <1>1, <1>2, Kind, OneOf DEF CreatureTypeOK
<1> HIDE DEF p, other
<1>4. Appeared(c, p, other)
  BY <1>1, <1>3, AppearStep
<1>5. born' = born \cup {c} /\ world' = world \cup {c} /\ c \notin born
  BY <1>4 DEF Appeared
<1>6. /\ c \notin InSpawn /\ master[c] = None /\ \A d \in Creature : c \notin summons[d]
  BY <1>3, <1>5, UnbornFacts
<1>7. /\ master' \in [Creature -> born' \cup {None}] /\ summons' \in [Creature -> SUBSET born']
      /\ \A d \in Creature : master'[d] # d
  BY <1>1, <1>2, <1>3, <1>5 DEF CreatureTypeOK, Kinds
<1>8. Bound'
  BY <1>1, <1>2, <1>3, <1>6 DEF Bound, CreatureTypeOK
<1>9. /\ timer' \in BOOLEAN /\ spawned' \in [Slot -> Monster \cup {None}] /\ strays' \subseteq Monster
      /\ Slots'
  BY <1>1, <1>2 DEF CreatureTypeOK, Kinds, Slots
<1>10. InSpawn' = InSpawn
  BY <1>1 DEF InSpawn
<1>11. Ordered'
  <2>1. InSpawn \cap world' = InSpawn \cap world
    BY <1>5, <1>6
  <2> QED BY <1>1, <1>2, <1>10, <2>1 DEF Ordered, Missed
<1>12. ASSUME NEW d \in Creature
       PROVE  other[d] = One(InSpawn')[d] - One(InSpawn)[d] + One(Mastered')[d] - One(Mastered)[d]
  <2>1. /\ d \in Mastered <=> master[d] # None
        /\ d \in Mastered' <=> master'[d] # None
    BY DEF Mastered
  <2>2. m # None /\ master \in [Creature -> born \cup {None}]
    BY <1>2, <1>3, Kind DEF CreatureTypeOK
  <2>3. other[d] = One(Mastered')[d] - One(Mastered)[d]
    BY <1>1, <1>3, <1>6, <2>1, <2>2, OneOf
  <2> QED BY <1>10, <2>3, OneOf
<1> QED BY <1>3, <1>4, <1>7, <1>8, <1>9, <1>10, <1>11, <1>12, AppearedInv

-----------------------------------------------------------------------------
(* checkSpawn.                                                             *)

\* the monsters of a spawn are as many as its slots in use and its strays
LEMMA SpawnCount ==
  ASSUME NEW f \in [Slot -> Monster \cup {None}], NEW L \in SUBSET Monster,
         \A s, t \in Slot : f[s] = f[t] /\ f[s] # None => s = t,
         Range(f) \cap L = {}
  PROVE  Cardinality((Range(f) \cup L) \ {None})
           = Cardinality({s \in Slot : f[s] # None}) + Cardinality(L)
<1> DEFINE A == {s \in Slot : f[s] # None}
           B == Range(f) \ {None}
           g == [s \in A |-> f[s]]
<1>1. IsFiniteSet(A) /\ Cardinality(A) \in Nat /\ IsFiniteSet(L) /\ Cardinality(L) \in Nat
  BY Kind, FS_Subset, FS_CardinalityType
<1>2. B = {f[s] : s \in A}
  BY DEF Range
<1>3. g \in Surjection(A, B) /\ g \in Injection(A, B)
  <2>1. g \in [A -> B]
    BY <1>2
  <2>2. \A b \in B : \E s \in A : g[s] = b
    BY <1>2
  <2>3. \A s, t \in A : g[s] = g[t] => s = t
    OBVIOUS
  <2> HIDE DEF g, A, B
  <2> QED BY <2>1, <2>2, <2>3 DEF Surjection, Injection, IsInjective
<1>4. IsFiniteSet(B) /\ Cardinality(B) = Cardinality(A)
  <2> HIDE DEF g, A, B
  <2> QED BY <1>1, <1>3, FS_Surjection
<1>5. /\ (Range(f) \cup L) \ {None} = B \cup L
      /\ B \cap L = {}
  BY Kind
<1> HIDE DEF A, B, g
<1>6. Cardinality(B \cup L) = Cardinality(B) + Cardinality(L) - Cardinality(B \cap L)
  BY <1>1, <1>4, FS_Union
<1>7. Cardinality(B \cap L) = 0
  BY <1>5, FS_EmptySet
<1>8. Cardinality(B \cup L) = Cardinality(A) + Cardinality(L)
  BY <1>1, <1>4, <1>6, <1>7
<1> QED BY <1>5, <1>8 DEF A

LEMMA SpawnNext ==
  ASSUME NEW f \in [Slot -> Monster \cup {None}], NEW L \in SUBSET Monster,
         \A s, t \in Slot : f[s] = f[t] /\ f[s] # None => s = t,
         Range(f) \cap L = {},
         spawned' = f, strays' = L, unfilled' = {},
         (Range(f) \cup L) \ {None} \subseteq world', None \notin world',
         timer' = (Cardinality({s \in Slot : f[s] # None}) + Cardinality(L) < Cardinality(Slot))
  PROVE  Slots' /\ Ordered'
<1>1. (Range(f) \cup L) \ {None} = InSpawn' \cap world'
  BY DEF InSpawn
<1>2. Cardinality(InSpawn' \cap world')
        = Cardinality({s \in Slot : f[s] # None}) + Cardinality(L)
  BY <1>1, SpawnCount
<1>3. Cardinality(unfilled') = 0
  BY FS_EmptySet
<1>4. Cardinality(InSpawn' \cap world') \in Nat
  <2>1. IsFiniteSet({s \in Slot : f[s] # None}) /\ IsFiniteSet(L)
    BY Kind, FS_Subset
  <2> QED BY <1>2, <2>1, FS_CardinalityType
<1>5. Slots' /\ Missed'
  BY DEF Slots, Missed
<1> DEFINE n == Cardinality(InSpawn' \cap world')
           k == Cardinality(unfilled')
           N == Cardinality(Slot)
<1>6. n + k < N => timer'
  <2>1. n < N => timer'
    BY <1>2
  <2>2. n \in Nat /\ k = 0 /\ N \in Nat
    BY <1>3, <1>4, Kind
  <2> HIDE DEF n, k, N
  <2>3. n + k = n
    BY <2>2
  <2> QED BY <2>1, <2>3
<1> QED BY <1>5, <1>6 DEF Ordered

\* what a check keeps is what is in the world
Kept(kept, loose, let) ==
  /\ kept \in [Slot -> Monster \cup {None}] /\ loose \in SUBSET Monster
  /\ \A s, t \in Slot : kept[s] = kept[t] /\ kept[s] # None => s = t
  /\ Range(kept) \cap loose = {}
  /\ (Range(kept) \cup loose) \ {None} = InSpawn \cap world
  /\ \A d \in Creature : d \in let <=> d \in InSpawn /\ d \notin world

LEMMA KeptFacts ==
  ASSUME CreatureInv,
         NEW kept, kept = [s \in Slot |-> IF s \in Gone \cup Wandered THEN None ELSE spawned[s]],
         NEW loose, loose = (strays \cap world) \cup {spawned[s] : s \in Wandered},
         NEW let, let = {spawned[s] : s \in Gone} \cup (strays \ world)
  PROVE  Kept(kept, loose, let)
<1>1. /\ spawned \in [Slot -> Monster \cup {None}] /\ strays \subseteq Monster
      /\ \A s, t \in Slot : spawned[s] = spawned[t] /\ spawned[s] # None => s = t
      /\ Range(spawned) \cap strays = {} /\ world \subseteq Creature
  BY InvParts DEF Kinds, Slots, CreatureTypeOK
<1>2. \A s \in Slot : /\ kept[s] = None \/ kept[s] = spawned[s]
                      /\ kept[s] # None <=> spawned[s] \in world /\ at[spawned[s]] = Home
                      /\ s \in Wandered <=> spawned[s] \in world /\ at[spawned[s]] # Home
                      /\ s \in Gone <=> spawned[s] # None /\ spawned[s] \notin world
  BY <1>1, Kind DEF Gone, Wandered
<1>3. \A d : d \in Range(spawned) <=> \E s \in Slot : spawned[s] = d
  BY <1>1 DEF Range
<1>4. kept \in [Slot -> Monster \cup {None}]
  BY <1>1
<1>5. \A d : d \in Range(kept) <=> \E s \in Slot : kept[s] = d
  BY <1>4 DEF Range
<1>6. \A d : d \in loose <=> (d \in strays /\ d \in world) \/ \E s \in Slot : s \in Wandered /\ spawned[s] = d
  BY DEF Wandered
<1>7. \A d : d \in let <=> (d \in strays /\ d \notin world) \/ \E s \in Slot : s \in Gone /\ spawned[s] = d
  BY DEF Gone
<1>8. loose \in SUBSET Monster
  BY <1>1, <1>2, <1>6, Kind
<1>9. \A s, t \in Slot : kept[s] = kept[t] /\ kept[s] # None => s = t
  BY <1>1, <1>2
<1>10. ASSUME NEW d, d \in Range(kept), d \in loose PROVE FALSE
  <2>1. PICK s \in Slot : kept[s] = d
    BY <1>5, <1>10
  <2>2. d # None
    BY <1>8, <1>10, Kind
  <2>3. spawned[s] = d /\ at[d] = Home
    BY <1>2, <2>1, <2>2
  <2>4. d \notin strays
    BY <1>1, <1>3, <2>3
  <2>5. PICK t \in Slot : t \in Wandered /\ spawned[t] = d
    BY <1>6, <1>10, <2>4
  <2> QED BY <1>2, <2>3, <2>5
<1>11. ASSUME NEW d PROVE d \in (Range(kept) \cup loose) \ {None} <=> d \in InSpawn /\ d \in world
  <2>1. ASSUME d \in Range(kept), d # None PROVE d \in InSpawn /\ d \in world
    <3>1. PICK s \in Slot : kept[s] = d
      BY <1>5, <2>1
    <3> QED BY <1>2, <1>3, <2>1, <3>1 DEF InSpawn
  <2>2. ASSUME d \in loose PROVE d \in InSpawn /\ d \in world /\ d # None
    BY <1>2, <1>3, <1>6, <1>8, <2>2, Kind DEF InSpawn
  <2>3. ASSUME d \in InSpawn, d \in world PROVE d \in Range(kept) \cup loose /\ d # None
    <3>1. d # None
      BY <1>1, <2>3, Kind
    <3>2. CASE d \in strays
      BY <1>6, <2>3, <3>1, <3>2
    <3>3. CASE d \notin strays
      <4>1. PICK s \in Slot : spawned[s] = d
        BY <1>3, <2>3, <3>3 DEF InSpawn
      <4>2. s \in Wandered \/ kept[s] = d
        BY <1>2, <2>3, <3>1, <4>1
      <4> QED BY <1>5, <1>6, <3>1, <4>1, <4>2
    <3> QED BY <3>2, <3>3
  <2> QED BY <2>1, <2>2, <2>3
<1>12. \A d \in Creature : d \in let <=> d \in InSpawn /\ d \notin world
  BY <1>2, <1>3, <1>7, Kind DEF InSpawn
<1>13. (Range(kept) \cup loose) \ {None} = InSpawn \cap world
  BY <1>11
<1> QED BY <1>4, <1>8, <1>9, <1>10, <1>12, <1>13 DEF Kept

LEMMA CheckSpawnInv ==
  ASSUME CreatureInv, CheckSpawn
  PROVE  CreatureInv'
<1> DEFINE kept  == [s \in Slot |-> IF s \in Gone \cup Wandered THEN None ELSE spawned[s]]
           loose == (strays \cap world) \cup {spawned[s] : s \in Wandered}
           let   == {spawned[s] : s \in Gone} \cup (strays \ world)
           Few(f) == Cardinality({s \in Slot : f[s] # None}) + Cardinality(loose)
                       < Cardinality(Slot)
           Empty == /\ spawned' = kept /\ timer' = Few(kept)
                    /\ refs' = [c \in Creature |-> refs[c] - One(let)[c]]
                    /\ UNCHANGED <<born, world, dead, at, toRelease, marked, inVector, checks,
                                   idle, targets, attacked, removing>>
           Fill(s, c) == /\ kept[s] = None
                         /\ spawned' = [kept EXCEPT ![s] = c]
                         /\ timer' = Few([kept EXCEPT ![s] = c])
                         /\ Appear(c, Home, [d \in Creature |-> One({c})[d] - One(let)[d]])
<1>1. /\ strays' = loose /\ master' = master /\ summons' = summons /\ unfilled' = {}
      /\ Empty \/ \E s \in Slot, c \in Monster : Fill(s, c)
  <2>1. timer /\ unfilled' = unfilled
    BY DEF CheckSpawn
  <2>2. unfilled' = {}
    BY <2>1, InvParts DEF Ordered, Missed
  <2> QED BY <2>2 DEF CheckSpawn, bonds
<1>2. /\ kept \in [Slot -> Monster \cup {None}] /\ loose \in SUBSET Monster
      /\ \A s, t \in Slot : kept[s] = kept[t] /\ kept[s] # None => s = t
      /\ Range(kept) \cap loose = {}
      /\ (Range(kept) \cup loose) \ {None} = InSpawn \cap world
      /\ \A d \in Creature : d \in let <=> d \in InSpawn /\ d \notin world
  <2>1. Kept(kept, loose, let)
    BY KeptFacts
  <2> QED BY <2>1 DEF Kept
<1>3. CreatureTypeOK /\ Bound /\ Kinds /\ Slots /\ InSight /\ Listing /\ Awake /\ Unborn
  BY InvParts
<1>4. /\ world \subseteq born /\ born \subseteq Creature /\ None \notin world
      /\ Mastered' = Mastered
  BY <1>1, <1>3, Kind DEF CreatureTypeOK, Mastered
<1> HIDE DEF kept, loose, let
<1>5. ASSUME Empty PROVE CreatureInv'
  <2>1. /\ spawned' = kept /\ timer' = Few(kept)
        /\ refs' = [c \in Creature |-> refs[c] - One(let)[c]]
        /\ born' = born /\ world' = world /\ dead' = dead /\ at' = at /\ toRelease' = toRelease
        /\ marked' = marked /\ inVector' = inVector /\ checks' = checks
        /\ idle' = idle /\ targets' = targets /\ attacked' = attacked /\ removing' = removing
    BY <1>5
  <2>2. Slots' /\ Ordered'
    BY <1>1, <1>2, <1>4, <2>1, SpawnNext
  <2>3. /\ spawned' \in [Slot -> Monster \cup {None}] /\ strays' \subseteq Monster
        /\ timer' \in BOOLEAN
    BY <1>1, <1>2, <2>1
  <2>4. \A d \in Creature : d \in InSpawn' <=> d \in InSpawn /\ d \in world
    BY <1>1, <1>2, <2>1, Kind DEF InSpawn
  <2>5. ASSUME NEW d \in Creature PROVE refs'[d] = Count(d)'
    <3>1. refs[d] = Count(d) /\ toRelease[d] \in Nat
      BY <1>3, CountFacts DEF CreatureTypeOK
    <3>2. One(InSpawn')[d] = One(InSpawn)[d] - One(let)[d]
      BY <1>2, <2>4, OneOf
    <3>3. /\ One(world)[d] \in Nat /\ One(inVector)[d] \in Nat /\ One(InSpawn)[d] \in Nat
          /\ One(let)[d] \in Nat /\ One(Mastered)[d] \in Nat
      BY OneOf
    <3>4. Listed(targets, d) \in Nat
      BY ListedType
    <3>5. refs'[d] = One(world)[d] + toRelease[d] + One(inVector)[d] + One(InSpawn')[d]
                       + One(Mastered)[d] + Listed(targets, d)
      BY <2>1, <3>1, <3>2, <3>3, <3>4 DEF Count
    <3> QED BY <1>4, <2>1, <3>5 DEF Count, One, Listed
  <2>6. Bound' /\ master' \in [Creature -> Creature \cup {None}] /\ toRelease' \in [Creature -> Nat]
    BY <1>1, <1>3, <1>4, <2>1 DEF Bound, CreatureTypeOK
  <2>7. ReferencesExact' /\ refs' \in [Creature -> Nat]
    <3>1. refs' = [c \in Creature |-> refs'[c]]
      BY <2>1
    <3> QED BY <2>5, <2>6, <3>1, ExactNext
  <2>8. CreatureTypeOK'
    BY <1>1, <1>3, <2>1, <2>3, <2>7 DEF CreatureTypeOK
  <2>9. Kinds'
    BY <1>1, <1>3, <2>1, <2>3 DEF Kinds
  <2>10. Unborn'
    BY <1>3, <2>1, <2>4 DEF Unborn
  <2>11. InSight' /\ Listing' /\ Awake'
    BY <1>3, <2>1 DEF InSight, Listing, Awake
  <2> QED BY <2>2, <2>6, <2>7, <2>8, <2>9, <2>10, <2>11, InvNext
<1>6. ASSUME NEW s \in Slot, NEW c \in Monster, Fill(s, c) PROVE CreatureInv'
  <2> DEFINE f == [kept EXCEPT ![s] = c]
             other == [d \in Creature |-> One({c})[d] - One(let)[d]]
  <2>1. /\ kept[s] = None /\ spawned' = f /\ timer' = Few(f)
        /\ Appear(c, Home, other)
    BY <1>6
  <2>2. c \in Creature /\ Home \in Place /\ \A d \in Creature : other[d] = One({c})[d] - One(let)[d]
    BY Kind
  <2>3. f \in [Slot -> Monster \cup {None}] /\ \A t \in Slot : f[t] = IF t = s THEN c ELSE kept[t]
    BY <1>2
  <2> HIDE DEF f, other
  <2>4. \A d \in Creature : other[d] \in Int
    BY <2>2, OneOf
  <2>5. Appeared(c, Home, other)
    BY <2>1, <2>2, <2>4, AppearStep
  <2>6. born' = born \cup {c} /\ world' = world \cup {c} /\ c \notin born
    BY <2>5 DEF Appeared
  <2>7. c \notin InSpawn /\ c # None
    BY <2>2, <2>6, UnbornFacts, Kind
  <2>8. \A d : d \in Range(f) <=> d = c \/ (d \in Range(kept) /\ \E t \in Slot : t # s /\ kept[t] = d)
    BY <1>2, <2>3 DEF Range
  <2>9. \A d : d # None => (d \in Range(f) <=> d = c \/ d \in Range(kept))
    <3>1. \A d : d \in Range(kept) <=> \E t \in Slot : kept[t] = d
      BY <1>2 DEF Range
    <3> QED BY <2>1, <2>8, <3>1
  <2>10. c \notin Range(kept) /\ c \notin loose
    BY <1>2, <2>7
  <2>11. \A t \in Slot : kept[t] \in Range(kept)
    BY <1>2 DEF Range
  <2>12. \A t, u \in Slot : f[t] = f[u] /\ f[t] # None => t = u
    BY <1>2, <2>3, <2>10, <2>11
  <2>13. None \notin loose /\ Range(f) \cap loose = {}
    BY <1>2, <2>9, <2>10, Kind
  <2>14. (Range(f) \cup loose) \ {None} \subseteq world' /\ None \notin world'
    BY <1>2, <1>4, <2>6, <2>7, <2>9
  <2>15. Slots' /\ Ordered'
    BY <1>1, <1>2, <2>1, <2>3, <2>12, <2>13, <2>14, SpawnNext
  <2>16. /\ spawned' \in [Slot -> Monster \cup {None}] /\ strays' \subseteq Monster
         /\ timer' \in BOOLEAN
    BY <1>1, <1>2, <2>1, <2>3
  <2>17. \A d : d # None => (d \in InSpawn' <=> d = c \/ (d \in InSpawn /\ d \in world))
    BY <1>1, <1>2, <2>1, <2>9 DEF InSpawn
  <2>18. InSpawn' \subseteq InSpawn \cup {c} \cup {None}
    BY <2>17
  <2>19. /\ master' \in [Creature -> born' \cup {None}] /\ summons' \in [Creature -> SUBSET born']
         /\ Bound' /\ \A d \in Creature : master'[d] # d
    BY <1>1, <1>3, <2>6 DEF CreatureTypeOK, Bound, Kinds
  <2>20. ASSUME NEW d \in Creature
         PROVE  other[d] = One(InSpawn')[d] - One(InSpawn)[d] + One(Mastered')[d] - One(Mastered)[d]
    <3>1. d # None
      BY Kind
    <3>2. One(InSpawn')[d] - One(InSpawn)[d] = One({c})[d] - One(let)[d]
      BY <1>2, <1>4, <2>6, <2>7, <2>17, <3>1, OneOf
    <3> QED BY <1>4, <2>2, <3>2, OneOf
  <2> QED BY <2>2, <2>5, <2>15, <2>16, <2>18, <2>19, <2>20, AppearedInv
<1> QED BY <1>1, <1>5, <1>6

-----------------------------------------------------------------------------
(* The steps that place nobody and leave the spawn's slots alone.          *)
LEMMA UpdatedInv ==
  ASSUME CreatureInv,
         NEW T, NEW lull, NEW wake, NEW S, NEW U, NEW other,
         Updated(T, lull, wake, S, U, other),
         lull \subseteq Monster, wake \subseteq born, S \subseteq born,
         \A m \in Monster : T[m] \subseteq born,
         born' = born, world' \subseteq born, dead' \subseteq born,
         at' \in [Creature -> Place],
         toRelease' \in [Creature -> Nat], \A d \in Creature \ born : toRelease'[d] = 0,
         master' \in [Creature -> born \cup {None}], summons' \in [Creature -> SUBSET born],
         attacked' \in [Creature -> Creature \cup {None}],
         \A d \in Creature \ born : attacked'[d] = None,
         timer' \in BOOLEAN, removing' \subseteq world',
         spawned' = spawned, strays' = strays,
         dead' \cap idle' = {}, \A d \in Creature : master'[d] # d,
         InSight', Bound', Awake', Ordered',
         \A d \in Creature :
           other[d] = One(world')[d] - One(world)[d] + toRelease'[d] - toRelease[d]
                        + One(Mastered')[d] - One(Mastered)[d]
  PROVE  CreatureInv'
<1>1. /\ \A m \in Monster : targets'[m] = IF m \in lull THEN {} ELSE T[m]
      /\ targets' = [m \in Monster |-> targets'[m]]
      /\ \A c : c \in idle' <=> c \in idle \cup lull /\ c \notin wake
      /\ \A c : c \in inVector' <=> c \in inVector \cup S \cup wake
      /\ Listing' /\ checks' \in [CheckList -> SUBSET Creature]
      /\ \A i, j \in CheckList : i # j => checks'[i] \cap checks'[j] = {}
      /\ refs' = [c \in Creature |-> refs'[c]]
  BY DEF Updated
<1>2. CreatureTypeOK /\ Kinds /\ Unborn /\ Slots
  BY InvParts
<1>3. InSpawn' = InSpawn
  BY DEF InSpawn
<1>4. ASSUME NEW d \in Creature PROVE refs'[d] = Count(d)'
  <2>1. One(InSpawn')[d] = One(InSpawn)[d] /\ One(InSpawn)[d] \in Nat
    BY <1>3, OneOf
  <2>2. /\ One(world)[d] \in Nat /\ One(world')[d] \in Nat
        /\ One(Mastered)[d] \in Nat /\ One(Mastered')[d] \in Nat
        /\ toRelease[d] \in Nat /\ toRelease'[d] \in Nat
    BY <1>2, OneOf DEF CreatureTypeOK
  <2>3. other[d] = One(world')[d] - One(world)[d] + toRelease'[d] - toRelease[d]
                     + One(InSpawn')[d] - One(InSpawn)[d]
                     + One(Mastered')[d] - One(Mastered)[d]
    BY <2>1, <2>2
  <2> QED BY <2>2, <2>3, UpdateCount
<1>5. born \subseteq Creature /\ inVector \subseteq born /\ idle \subseteq Monster
  BY <1>2 DEF CreatureTypeOK, Kinds
<1>6. ReferencesExact' /\ refs' \in [Creature -> Nat]
  <2>1. master' \in [Creature -> Creature \cup {None}]
    BY <1>5
  <2> QED BY <1>1, <1>4, <2>1, ExactNext
<1>7. targets' \in [Monster -> SUBSET born]
  <2>1. \A m \in Monster : targets'[m] \in SUBSET born
    BY <1>1
  <2> QED BY <1>1, <2>1
<1>8. idle' \subseteq Monster /\ inVector' \subseteq born
  BY <1>1, <1>5
<1>9. CreatureTypeOK'
  BY <1>1, <1>5, <1>6, <1>7, <1>8 DEF CreatureTypeOK
<1>10. Kinds'
  BY <1>1, <1>2, <1>8 DEF Kinds
<1>11. Unborn'
  BY <1>2, <1>3 DEF Unborn
<1>12. Slots'
  BY <1>2 DEF Slots
<1> QED BY <1>1, <1>6, <1>9, <1>10, <1>11, <1>12, InvNext

\* who stops attacking, and who attacks on
Stopped(X) ==
  /\ attacked' \in [Creature -> Creature \cup {None}]
  /\ \A d \in Creature : attacked'[d] = attacked[d] \/ attacked'[d] = None
  /\ \A d \in X : attacked'[d] = None

LEMMA StopAttackStep ==
  ASSUME CreatureInv, NEW X, X \subseteq born, StopAttack(X)
  PROVE  Stopped(X)
<1>1. /\ summons \in [Creature -> SUBSET born] /\ born \subseteq Creature
      /\ attacked \in [Creature -> Creature \cup {None}]
  BY InvParts DEF CreatureTypeOK
<1>2. attacked' = [c \in Creature |->
        IF attacked[c] # None /\ \E x \in X : c \in Retinue(x) THEN None ELSE attacked[c]]
  BY DEF StopAttack
<1>3. \A x \in X : x \in Retinue(x) /\ x \in Creature
  BY <1>1, RetinueFacts
<1> QED BY <1>1, <1>2, <1>3 DEF Stopped

LEMMA MoveInv ==
  ASSUME CreatureInv, NEW c \in Creature, NEW p \in Place, Move(c, p)
  PROVE  CreatureInv'
<1> DEFINE left == Here(at[c])
           T == SeenAt(c, p, left)
           M == (left \cup Here(p)) \cap Monster
           X == {x \in {c} : attacked[x] # None} \cup Attackers(c)
<1>1. /\ c \in world /\ c \notin dead /\ p # at[c]
      /\ at' = [at EXCEPT ![c] = p]
      /\ Update(T, Lulled(M, T), Wakened(M, T), {}, {}, One({}))
      /\ StopAttack(X)
      /\ born' = born /\ world' = world /\ dead' = dead /\ toRelease' = toRelease
      /\ master' = master /\ summons' = summons
      /\ spawned' = spawned /\ strays' = strays /\ timer' = timer
      /\ unfilled' = unfilled /\ removing' = removing
  BY DEF Move, bonds, spawn
<1>2. CreatureTypeOK /\ InSight /\ Bound /\ Ordered /\ Kinds /\ Unborn
  BY InvParts
<1>3. /\ world \subseteq born /\ born \subseteq Creature /\ at \in [Creature -> Place]
      /\ targets \in [Monster -> SUBSET born] /\ dead \cap idle = {}
  BY <1>2 DEF CreatureTypeOK, Kinds
<1>4. \A m \in Monster : /\ T[m] \subseteq targets[m] \cup world \cup {c}
                         /\ m \notin Here(p) \cup left \cup {c} => T[m] = targets[m]
  BY SeenFacts
<1>5. c \in left /\ left \subseteq world /\ Here(p) \subseteq world
  BY <1>1 DEF Here
<1>6. /\ X \subseteq born
      /\ \A x : x \in X <=> (x = c /\ attacked[c] # None) \/ (x \in world /\ attacked[x] = c)
  BY <1>1, <1>3 DEF Attackers
<1> HIDE DEF T, X
<1>7. /\ M \subseteq Monster /\ M \subseteq world
      /\ \A m \in Monster \ M : T[m] = targets[m]
  BY <1>4, <1>5
<1> HIDE DEF M
<1>8. /\ Lulled(M, T) \subseteq M /\ Wakened(M, T) \subseteq M
      /\ Lulled(M, T) \cap dead = {}
  BY DEF Lulled, Wakened
<1>9. /\ Lulled(M, T) \subseteq Monster /\ Wakened(M, T) \subseteq born
      /\ Wakened(M, T) \subseteq Creature /\ {} \subseteq Creature
  BY <1>3, <1>7, <1>8
<1>10. Updated(T, Lulled(M, T), Wakened(M, T), {}, {}, One({}))
  BY <1>1, <1>9, UpdateStep
<1>11. Awake'
  <2> DEFINE none == {}
  <2>1. Lulled(M, T) = Lulled(M, T) \cup none
    OBVIOUS
  <2>2. Updated(T, Lulled(M, T) \cup none, Wakened(M, T), none, none, One({}))
    BY <1>10, <2>1
  <2>3. \A d \in world' : d \notin none /\ d \notin none
    OBVIOUS
  <2> HIDE DEF none
  <2>4. \A d \in world' : d \in world \/ (d \in none /\ (d \in Monster => d \in M))
    BY <1>1
  <2>5. dead' = dead
    BY <1>1
  <2> QED BY <1>7, <2>2, <2>3, <2>4, <2>5, AwakeNext
<1>12. Stopped(X)
  BY <1>1, <1>6, StopAttackStep
<1>13. InSight'
  <2>1. ASSUME NEW d \in world, attacked'[d] # None
        PROVE  attacked'[d] \in world /\ at'[attacked'[d]] = at'[d]
    <3>1. attacked'[d] = attacked[d] /\ d \notin X
      BY <1>3, <1>12, <2>1 DEF Stopped
    <3>2. attacked[d] \in world /\ at[attacked[d]] = at[d] /\ d # c /\ attacked[d] # c
      BY <1>2, <1>6, <2>1, <3>1 DEF InSight
    <3> QED BY <1>1, <1>3, <3>1, <3>2
  <2> QED BY <1>1, <2>1 DEF InSight
<1>14. dead' \cap idle' = {}
  <2>1. \A d : d \in idle' => d \in idle \cup Lulled(M, T)
    BY <1>10 DEF Updated
  <2> QED BY <1>1, <1>3, <1>8, <2>1
<1>15. ASSUME NEW d \in Creature
       PROVE  One({})[d] = One(world')[d] - One(world)[d] + toRelease'[d] - toRelease[d]
                             + One(Mastered')[d] - One(Mastered)[d]
  <2>1. Mastered' = Mastered
    BY <1>1 DEF Mastered
  <2>2. One({})[d] = 0
    BY OneOf
  <2>3. toRelease[d] \in Nat /\ One(world)[d] \in Nat /\ One(Mastered)[d] \in Nat
    BY <1>2, OneOf DEF CreatureTypeOK
  <2> QED BY <1>1, <2>1, <2>2, <2>3
<1>16. /\ world' \subseteq born /\ dead' \subseteq born
       /\ at' \in [Creature -> Place]
       /\ toRelease' \in [Creature -> Nat] /\ \A d \in Creature \ born : toRelease'[d] = 0
       /\ master' \in [Creature -> born \cup {None}] /\ summons' \in [Creature -> SUBSET born]
       /\ timer' \in BOOLEAN /\ removing' \subseteq world'
       /\ \A d \in Creature : master'[d] # d
  BY <1>1, <1>2 DEF CreatureTypeOK, Kinds, Unborn
<1>17. /\ attacked' \in [Creature -> Creature \cup {None}]
       /\ \A d \in Creature \ born : attacked'[d] = None
  BY <1>2, <1>12 DEF Stopped, Unborn
<1>18. Bound' /\ Ordered'
  BY <1>1, <1>2 DEF Bound, Ordered, Missed, InSpawn
<1>19. \A m \in Monster : T[m] \subseteq born
  BY <1>1, <1>3, <1>4
<1>20. {} \subseteq born
  OBVIOUS
<1> QED BY <1>1, <1>9, <1>10, <1>11, <1>13, <1>14, <1>15, <1>16, <1>17, <1>18, <1>19, <1>20,
           UpdatedInv

LEMMA KillInv ==
  ASSUME CreatureInv, NEW c \in Creature, Kill(c)
  PROVE  CreatureInv'
<1>1. /\ c \in Monster /\ c \in world /\ c \notin dead
      /\ Update(targets, {}, {c}, {}, {}, One({}))
      /\ dead' = dead \cup {c}
      /\ born' = born /\ world' = world /\ at' = at /\ toRelease' = toRelease
      /\ master' = master /\ summons' = summons /\ attacked' = attacked
      /\ spawned' = spawned /\ strays' = strays /\ timer' = timer
      /\ unfilled' = unfilled /\ removing' = removing
  BY DEF Kill, bonds, spawn
<1>2. CreatureTypeOK /\ InSight /\ Bound /\ Ordered /\ Kinds /\ Unborn /\ Awake
  BY InvParts
<1>3. /\ world \subseteq born /\ dead \subseteq born /\ {} \subseteq born /\ {c} \subseteq born
      /\ {} \subseteq Monster /\ {c} \subseteq Creature /\ {} \subseteq Creature
      /\ \A m \in Monster : targets[m] \subseteq born
  BY <1>1, <1>2 DEF CreatureTypeOK
<1>4. Updated(targets, {}, {c}, {}, {}, One({}))
  BY <1>1, <1>3, UpdateStep
<1>5. /\ \A m \in Monster : targets'[m] = targets[m]
      /\ \A d : d \in idle' <=> d \in idle /\ d # c
      /\ \A d : d \in marked' <=> d = c \/ d \in marked
  BY <1>4 DEF Updated
<1>6. Awake' /\ dead' \cap idle' = {}
  <2>1. idle \subseteq Monster /\ dead \cap idle = {}
    BY <1>2 DEF CreatureTypeOK, Kinds
  <2> QED BY <1>1, <1>2, <1>5, <2>1 DEF Awake
<1>7. ASSUME NEW d \in Creature
      PROVE  One({})[d] = One(world')[d] - One(world)[d] + toRelease'[d] - toRelease[d]
                            + One(Mastered')[d] - One(Mastered)[d]
  <2>1. Mastered' = Mastered
    BY <1>1 DEF Mastered
  <2>2. One({})[d] = 0
    BY OneOf
  <2>3. toRelease[d] \in Nat /\ One(world)[d] \in Nat /\ One(Mastered)[d] \in Nat
    BY <1>2, OneOf DEF CreatureTypeOK
  <2> QED BY <1>1, <2>1, <2>2, <2>3
<1>8. /\ world' \subseteq born /\ dead' \subseteq born
      /\ at' \in [Creature -> Place]
      /\ toRelease' \in [Creature -> Nat] /\ \A d \in Creature \ born : toRelease'[d] = 0
      /\ master' \in [Creature -> born \cup {None}] /\ summons' \in [Creature -> SUBSET born]
      /\ attacked' \in [Creature -> Creature \cup {None}]
      /\ \A d \in Creature \ born : attacked'[d] = None
      /\ timer' \in BOOLEAN /\ removing' \subseteq world'
      /\ \A d \in Creature : master'[d] # d
  BY <1>1, <1>2, <1>3 DEF CreatureTypeOK, Kinds, Unborn
<1>9. Bound' /\ Ordered' /\ InSight'
  BY <1>1, <1>2 DEF Bound, Ordered, Missed, InSpawn, InSight
<1> QED BY <1>1, <1>3, <1>4, <1>6, <1>7, <1>8, <1>9, UpdatedInv

LEMMA DieInv ==
  ASSUME CreatureInv, NEW c \in Creature, Die(c)
  PROVE  CreatureInv'
<1> DEFINE S == summons[c]
           G == S \cup (IF master[c] = None THEN {} ELSE {c})
           T == [targets EXCEPT ![c] = {}]
           W == S \ dead
           other == [d \in Creature |-> -One(G)[d]]
<1>1. /\ c \in dead /\ c \in world
      /\ Update(T, {}, W, {}, {}, other)
      /\ dead' = dead \cup S
      /\ StopAttack({c})
      /\ master' = [d \in Creature |-> IF d \in S \cup {c} THEN None ELSE master[d]]
      /\ summons' = [d \in Creature |-> IF d = c THEN {} ELSE summons[d] \ {c}]
      /\ removing' = {c}
      /\ born' = born /\ world' = world /\ at' = at /\ toRelease' = toRelease
      /\ spawned' = spawned /\ strays' = strays /\ timer' = timer
      /\ unfilled' = unfilled
  BY DEF Die, spawn
<1>2. CreatureTypeOK /\ InSight /\ Bound /\ Ordered /\ Kinds /\ Unborn /\ Awake
  BY InvParts
<1>3. /\ world \subseteq born /\ dead \subseteq born /\ {} \subseteq born /\ {c} \subseteq born
      /\ {} \subseteq Monster /\ {} \subseteq Creature /\ born \subseteq Creature
      /\ S \subseteq born /\ W \subseteq born /\ W \subseteq Creature
  BY <1>1, <1>2 DEF CreatureTypeOK
<1>4. \A m \in Monster : T[m] \subseteq born /\ (T[m] = targets[m] \/ T[m] = {})
  BY <1>2 DEF CreatureTypeOK
<1>5. \A d : d \in S <=> d \in Creature /\ master[d] = c
  BY <1>2, <1>3 DEF Bound
<1>6. /\ \A d \in Creature : other[d] = -One(G)[d]
      /\ \A d : d \in W <=> d \in S /\ d \notin dead
      /\ \A d \in Creature : d \in G <=> d \in S \/ (d = c /\ master[c] # None)
  OBVIOUS
<1> HIDE DEF S, G, T, W, other
<1>7. Updated(T, {}, W, {}, {}, other)
  BY <1>1, <1>3, UpdateStep
<1>8. /\ \A m \in Monster : targets'[m] = T[m]
      /\ \A d : d \in idle' <=> d \in idle /\ d \notin W
      /\ \A d : d \in marked' <=> d \in W \/ d \in marked
  BY <1>7 DEF Updated
<1>9. Awake'
  <2>1. ASSUME NEW d \in world' \ dead', d \in Player \/ d \notin idle' PROVE d \in marked'
    BY <1>1, <1>2, <1>6, <1>8, <2>1 DEF Awake
  <2>2. \A m \in world' \cap idle' : targets'[m] = {}
    <3>1. idle \subseteq Monster
      BY <1>2 DEF CreatureTypeOK
    <3> QED BY <1>1, <1>2, <1>4, <1>8, <3>1 DEF Awake
  <2> QED BY <2>1, <2>2 DEF Awake
<1>10. dead' \cap idle' = {}
  <2>1. dead \cap idle = {}
    BY <1>2 DEF Kinds
  <2> QED BY <1>1, <1>6, <1>8, <2>1
<1>11. Stopped({c})
  BY <1>1, <1>3, StopAttackStep
<1>12. InSight'
  <2>1. ASSUME NEW d \in world, attacked'[d] # None
        PROVE  attacked'[d] \in world /\ at[attacked'[d]] = at[d]
    <3>1. attacked'[d] = attacked[d]
      BY <1>3, <1>11, <2>1 DEF Stopped
    <3> QED BY <1>2, <2>1, <3>1 DEF InSight
  <2> QED BY <1>1, <2>1 DEF InSight
<1>13. Bound'
  <2>1. ASSUME NEW d \in Creature, NEW m \in Creature PROVE master'[d] = m <=> d \in summons'[m]
    <3>1. /\ master'[d] = (IF d \in S \/ d = c THEN None ELSE master[d])
          /\ summons'[m] = (IF m = c THEN {} ELSE summons[m] \ {c})
          /\ m # None
          /\ (master[d] = m <=> d \in summons[m])
      BY <1>1, <1>2, Kind DEF Bound
    <3>2. CASE m = c
      BY <1>5, <3>1, <3>2
    <3>3. CASE m # c
      BY <1>5, <3>1, <3>3
    <3> QED BY <3>2, <3>3
  <2> QED BY <2>1 DEF Bound
<1>14. /\ master' \in [Creature -> born \cup {None}] /\ summons' \in [Creature -> SUBSET born]
       /\ \A d \in Creature : master'[d] # d
  <2>1. master \in [Creature -> born \cup {None}] /\ summons \in [Creature -> SUBSET born]
    BY <1>2 DEF CreatureTypeOK
  <2>2. \A d \in Creature : master[d] # d /\ d # None
    BY <1>2, Kind DEF Kinds
  <2> QED BY <1>1, <2>1, <2>2
<1>15. ASSUME NEW d \in Creature
       PROVE  other[d] = One(world')[d] - One(world)[d] + toRelease'[d] - toRelease[d]
                           + One(Mastered')[d] - One(Mastered)[d]
  <2>1. d \in Mastered <=> master[d] # None
    BY DEF Mastered
  <2>2. d \in Mastered' <=> d \in Mastered /\ d \notin G
    <3>1. d \in Mastered' <=> master'[d] # None
      BY DEF Mastered
    <3> QED BY <1>1, <1>6, <2>1, <3>1
  <2>3. d \in G => d \in Mastered
    <3>1. c # None
      BY Kind
    <3> QED BY <1>5, <1>6, <2>1, <3>1
  <2>4. -One(G)[d] = One(Mastered')[d] - One(Mastered)[d]
    BY <2>2, <2>3, OneOf
  <2>5. /\ toRelease[d] \in Nat /\ One(world)[d] \in Nat /\ One(Mastered)[d] \in Nat
        /\ One(Mastered')[d] \in Nat
    BY <1>2, OneOf DEF CreatureTypeOK
  <2> QED BY <1>1, <1>6, <2>4, <2>5
<1>16. /\ world' \subseteq born /\ dead' \subseteq born
       /\ at' \in [Creature -> Place]
       /\ toRelease' \in [Creature -> Nat] /\ \A d \in Creature \ born : toRelease'[d] = 0
       /\ timer' \in BOOLEAN /\ removing' \subseteq world'
  BY <1>1, <1>2, <1>3 DEF CreatureTypeOK, Unborn
<1>17. /\ attacked' \in [Creature -> Creature \cup {None}]
       /\ \A d \in Creature \ born : attacked'[d] = None
  BY <1>2, <1>11 DEF Stopped, Unborn
<1>18. Ordered'
  BY <1>1, <1>2 DEF Ordered, Missed, InSpawn
<1> QED BY <1>1, <1>3, <1>4, <1>7, <1>9, <1>10, <1>12, <1>13, <1>14, <1>15, <1>16, <1>17,
           <1>18, UpdatedInv

LEMMA RemoveCreatureInv ==
  ASSUME CreatureInv, NEW c \in Creature, RemoveCreature(c)
  PROVE  CreatureInv'
<1> DEFINE free  == master[c] # None /\ master[c] \in world
           after == IF free THEN [master EXCEPT ![c] = None] ELSE master
           peers == (Here(at[c]) \ {c}) \cap Monster
           X == ({c} \cap Monster) \ dead
           other == [d \in Creature |-> IF free THEN -One({c})[d] ELSE 0]
           lose(e) == {m \in e : IsOpponent(master, m, c)}
                         \cup {m \in peers \ e : IsOpponent(after, m, c)}
           less(M) == [m \in Monster |-> IF m \in M THEN targets[m] \ {c} ELSE targets[m]]
<1>1. /\ c \in world /\ world' = world \ {c}
      /\ StopAttack(Attackers(c))
      /\ master' = after
      /\ summons' = IF free THEN [summons EXCEPT ![master[c]] = @ \ {c}] ELSE summons
      /\ timer' = (timer \/ c \in InSpawn)
      /\ unfilled' = IF timer' THEN {} ELSE unfilled
      /\ toRelease' = [toRelease EXCEPT ![c] = @ + 1]
      /\ removing' = (removing \ {c}) \cup (summons[c] \cap world)
      /\ born' = born /\ dead' = dead /\ at' = at
      /\ spawned' = spawned /\ strays' = strays
  BY DEF RemoveCreature, InSpawn
<1>2. PICK e \in SUBSET peers :
        Update(less(lose(e)), Lulled(lose(e), less(lose(e))) \cup X,
               Wakened(lose(e), less(lose(e))), {}, {c}, other)
  BY DEF RemoveCreature
<1> DEFINE M == lose(e)
           T == less(M)
<1>3. Update(T, Lulled(M, T) \cup X, Wakened(M, T), {}, {c}, other)
  BY <1>2
<1>4. CreatureTypeOK /\ InSight /\ Bound /\ Ordered /\ Kinds /\ Unborn
  BY InvParts
<1>5. /\ world \subseteq born /\ born \subseteq Creature /\ dead \cap idle = {}
      /\ targets \in [Monster -> SUBSET born]
      /\ master \in [Creature -> born \cup {None}] /\ summons \in [Creature -> SUBSET born]
      /\ \A d \in Creature : master[d] # d
  BY <1>4 DEF CreatureTypeOK, Kinds
<1>6. M \subseteq Monster /\ M \subseteq world
  BY DEF Here
<1>7. \A m \in Monster : /\ T[m] \subseteq targets[m]
                         /\ m \notin M => T[m] = targets[m]
  OBVIOUS
<1>8. X \subseteq {c} /\ X \subseteq Monster /\ X \cap dead = {}
  OBVIOUS
<1>9. /\ free => after = [master EXCEPT ![c] = None]
      /\ ~free => after = master
      /\ \A d \in Creature : other[d] = IF free THEN -One({c})[d] ELSE 0
      /\ free => master[c] # None
      /\ free \in BOOLEAN
  OBVIOUS
<1> HIDE DEF T, M, X, other, free, after
<1>10. /\ Lulled(M, T) \subseteq M /\ Wakened(M, T) \subseteq M
       /\ Lulled(M, T) \cap dead = {}
  BY DEF Lulled, Wakened
<1>11. /\ Lulled(M, T) \cup X \subseteq Monster /\ Wakened(M, T) \subseteq born
       /\ Wakened(M, T) \subseteq Creature /\ {} \subseteq Creature
  BY <1>5, <1>6, <1>8, <1>10
<1>12. Updated(T, Lulled(M, T) \cup X, Wakened(M, T), {}, {c}, other)
  BY <1>3, <1>11, UpdateStep
<1>13. Awake'
  <2> DEFINE none == {}
             self == {c}
  <2>1. Updated(T, Lulled(M, T) \cup X, Wakened(M, T), none, self, other)
    BY <1>12
  <2>2. \A d \in world' : d \notin X /\ d \notin self
    BY <1>1, <1>8
  <2> HIDE DEF none, self
  <2>3. \A d \in world' : d \in world \/ (d \in none /\ (d \in Monster => d \in M))
    BY <1>1
  <2>4. \A m \in Monster \ M : T[m] = targets[m]
    BY <1>7
  <2>5. dead' = dead
    BY <1>1
  <2>6. M \subseteq Monster
    BY <1>6
  <2> QED BY <2>6, <2>1, <2>2, <2>3, <2>4, <2>5, AwakeNext, ZenonT(30)
<1>14. Attackers(c) \subseteq born /\ \A d \in world : attacked[d] = c => d \in Attackers(c)
  BY <1>5 DEF Attackers
<1>15. Stopped(Attackers(c))
  BY <1>1, <1>14, StopAttackStep
<1>16. InSight'
  <2>1. ASSUME NEW d \in world, d # c, attacked'[d] # None
        PROVE  attacked'[d] \in world \ {c} /\ at[attacked'[d]] = at[d]
    <3>1. attacked'[d] = attacked[d] /\ d \notin Attackers(c)
      BY <1>5, <1>15, <2>1 DEF Stopped
    <3>2. attacked[d] \in world /\ at[attacked[d]] = at[d] /\ attacked[d] # c
      BY <1>4, <1>14, <2>1, <3>1 DEF InSight
    <3> QED BY <3>1, <3>2
  <2> QED BY <1>1, <2>1 DEF InSight
<1>17. dead' \cap idle' = {}
  <2>1. \A d : d \in idle' => d \in idle \cup (Lulled(M, T) \cup X)
    BY <1>12 DEF Updated
  <2> QED BY <1>1, <1>5, <1>8, <1>10, <2>1
<1>18. Bound'
  <2>1. ASSUME NEW d \in Creature, NEW m \in Creature PROVE master'[d] = m <=> d \in summons'[m]
    <3>1. m # None /\ (master[d] = m <=> d \in summons[m]) /\ (master[c] = m <=> c \in summons[m])
      BY <1>4, Kind DEF Bound
    <3>2. CASE free
      <4>1. master' = [master EXCEPT ![c] = None] /\ summons' = [summons EXCEPT ![master[c]] = @ \ {c}]
        BY <1>1, <1>9, <3>2
      <4>2. CASE d = c
        BY <1>5, <3>1, <4>1, <4>2
      <4>3. CASE d # c
        BY <1>5, <3>1, <4>1, <4>3
      <4> QED BY <4>2, <4>3
    <3>3. CASE ~free
      BY <1>1, <1>9, <3>1, <3>3
    <3> QED BY <3>2, <3>3
  <2> QED BY <2>1 DEF Bound
<1>19. /\ master' \in [Creature -> born \cup {None}] /\ summons' \in [Creature -> SUBSET born]
       /\ \A d \in Creature : master'[d] # d
  <2>1. c # None
    BY Kind
  <2>2. CASE free
    BY <1>1, <1>5, <1>9, <2>1, <2>2
  <2>3. CASE ~free
    BY <1>1, <1>5, <1>9, <2>3
  <2> QED BY <2>2, <2>3
<1>20. ASSUME NEW d \in Creature
       PROVE  other[d] = One(world')[d] - One(world)[d] + toRelease'[d] - toRelease[d]
                           + One(Mastered')[d] - One(Mastered)[d]
  <2>1. /\ d \in Mastered <=> master[d] # None
        /\ d \in Mastered' <=> master'[d] # None
    BY DEF Mastered
  <2>2. toRelease[d] \in Nat /\ toRelease'[d] = toRelease[d] + One({c})[d]
    BY <1>1, <1>4, OneOf DEF CreatureTypeOK
  <2>3. One(world')[d] = One(world)[d] - One({c})[d]
    BY <1>1, OneOf
  <2>4. One(Mastered')[d] = One(Mastered)[d] - (IF free THEN One({c})[d] ELSE 0)
    <3>1. CASE free
      BY <1>1, <1>5, <1>9, <2>1, <3>1, OneOf
    <3>2. CASE ~free
      <4>1. d \in Mastered' <=> d \in Mastered
        BY <1>1, <1>9, <2>1, <3>2
      <4>2. One(Mastered')[d] = One(Mastered)[d] /\ One(Mastered)[d] \in Nat
        BY <4>1, OneOf
      <4> QED BY <3>2, <4>2
    <3> QED BY <3>1, <3>2
  <2>5. One(world)[d] \in Nat /\ One(Mastered)[d] \in Nat /\ One({c})[d] \in Nat
    BY OneOf
  <2>6. CASE free
    <3>1. other[d] = -One({c})[d]
      BY <1>9, <2>6
    <3>2. One(Mastered')[d] = One(Mastered)[d] - One({c})[d]
      BY <2>4, <2>6
    <3> QED BY <2>2, <2>3, <2>5, <3>1, <3>2
  <2>7. CASE ~free
    BY <1>9, <2>2, <2>3, <2>4, <2>5, <2>7
  <2> QED BY <2>6, <2>7
<1>21. /\ world' \subseteq born /\ dead' \subseteq born
       /\ at' \in [Creature -> Place]
       /\ timer' \in BOOLEAN /\ removing' \subseteq world'
  <2>1. c \notin summons[c]
    BY <1>4, <1>5 DEF Bound
  <2> QED BY <1>1, <1>4, <1>5, <2>1 DEF CreatureTypeOK
<1>22. /\ toRelease' \in [Creature -> Nat] /\ \A d \in Creature \ born : toRelease'[d] = 0
  BY <1>1, <1>4, <1>5 DEF CreatureTypeOK, Unborn
<1>23. /\ attacked' \in [Creature -> Creature \cup {None}]
       /\ \A d \in Creature \ born : attacked'[d] = None
  BY <1>4, <1>15 DEF Stopped, Unborn
<1>24. Ordered'
  <2>1. InSpawn' = InSpawn
    BY <1>1 DEF InSpawn
  <2>2. c \notin InSpawn => InSpawn \cap world' = InSpawn \cap world
    BY <1>1
  <2>3. CASE timer'
    BY <1>1, <2>3 DEF Ordered, Missed
  <2>4. CASE ~timer'
    BY <1>1, <1>4, <2>1, <2>2, <2>4 DEF Ordered, Missed
  <2> QED BY <2>3, <2>4
<1>25. \A m \in Monster : T[m] \subseteq born
  BY <1>5, <1>7
<1>26. {} \subseteq born /\ born' = born /\ spawned' = spawned /\ strays' = strays
  BY <1>1
<1> QED BY <1>11, <1>12, <1>13, <1>16, <1>17, <1>18, <1>19, <1>20, <1>21, <1>22, <1>23,
           <1>24, <1>25, <1>26, UpdatedInv

-----------------------------------------------------------------------------
(* The steps that do not look whether a monster should sleep.              *)
LEMMA SetMasterInv ==
  ASSUME CreatureInv, NEW c \in Creature, NEW m \in Creature \cup {None}, SetMaster(c, m)
  PROVE  CreatureInv'
<1> DEFINE old == master[c]
<1>1. /\ c \in Monster /\ c \in world
      /\ m \in world \/ m = None
      /\ m \in Player \/ m = None
      /\ m # old
      /\ master' = [master EXCEPT ![c] = m]
      /\ summons' = [d \in Creature |-> IF d = m THEN summons[d] \cup {c} ELSE summons[d] \ {c}]
      /\ refs' = [refs EXCEPT ![c] = @ + (IF m = None THEN 0 ELSE 1)
                                       - (IF old = None THEN 0 ELSE 1)]
      /\ born' = born /\ world' = world /\ dead' = dead /\ at' = at /\ toRelease' = toRelease
      /\ marked' = marked /\ inVector' = inVector /\ checks' = checks /\ idle' = idle
      /\ targets' = targets /\ attacked' = attacked /\ removing' = removing
      /\ spawned' = spawned /\ strays' = strays /\ timer' = timer
      /\ unfilled' = unfilled
  BY DEF SetMaster, spawn
<1>2. /\ CreatureTypeOK /\ InSight /\ Bound /\ Listing /\ Awake /\ Ordered
      /\ Kinds /\ Unborn /\ Slots
  BY InvParts
<1>3. /\ world \subseteq born /\ master \in [Creature -> born \cup {None}]
      /\ summons \in [Creature -> SUBSET born] /\ refs \in [Creature -> Nat]
      /\ \A d \in Creature : master[d] # d
      /\ c # m /\ c # None
  BY <1>1, <1>2, Kind DEF CreatureTypeOK, Kinds
<1>4. /\ master' \in [Creature -> born \cup {None}] /\ summons' \in [Creature -> SUBSET born]
      /\ \A d \in Creature : master'[d] # d
  BY <1>1, <1>3
<1>5. Bound'
  BY <1>1, <1>2, <1>3 DEF Bound
<1>6. InSpawn' = InSpawn
  BY <1>1 DEF InSpawn
<1>7. ASSUME NEW d \in Creature PROVE refs'[d] = Count(d)'
  <2>1. refs[d] = Count(d) /\ toRelease[d] \in Nat
    BY <1>2, CountFacts DEF CreatureTypeOK
  <2>2. /\ One(Mastered)[d] = (IF master[d] = None THEN 0 ELSE 1)
        /\ One(Mastered')[d] = (IF master'[d] = None THEN 0 ELSE 1)
    BY OneOf DEF Mastered
  <2>3. refs'[d] = refs[d] + One(Mastered')[d] - One(Mastered)[d]
    BY <1>1, <1>3, <2>2
  <2>4. /\ One(world)[d] \in Nat /\ One(inVector)[d] \in Nat /\ One(InSpawn)[d] \in Nat
        /\ One(Mastered)[d] \in Nat /\ One(Mastered')[d] \in Nat /\ Listed(targets, d) \in Nat
    BY OneOf, ListedType
  <2>5. refs'[d] = One(world)[d] + toRelease[d] + One(inVector)[d] + One(InSpawn)[d]
                     + One(Mastered')[d] + Listed(targets, d)
    BY <2>1, <2>3, <2>4 DEF Count
  <2> QED BY <1>1, <1>6, <2>5 DEF Count, One, Listed
<1>8. ReferencesExact' /\ refs' \in [Creature -> Nat]
  <2>1. /\ master' \in [Creature -> Creature \cup {None}] /\ toRelease' \in [Creature -> Nat]
    BY <1>1, <1>2, <1>4 DEF CreatureTypeOK
  <2>2. refs' = [d \in Creature |-> refs'[d]]
    BY <1>1, <1>3
  <2> QED BY <1>5, <1>7, <2>1, <2>2, ExactNext
<1>9. CreatureTypeOK'
  BY <1>1, <1>2, <1>4, <1>8 DEF CreatureTypeOK
<1>10. Kinds' /\ Unborn' /\ Slots'
  BY <1>1, <1>2, <1>4, <1>6 DEF Kinds, Unborn, Slots
<1>11. InSight' /\ Listing' /\ Awake' /\ Ordered'
  BY <1>1, <1>2, <1>6 DEF InSight, Listing, Awake, Ordered, Missed
<1> QED BY <1>5, <1>8, <1>9, <1>10, <1>11, InvNext

\* what is neither counted nor attacked stays as it is
Still ==
  /\ born' = born /\ world' = world /\ dead' = dead /\ at' = at /\ removing' = removing
  /\ targets' = targets /\ master' = master /\ summons' = summons
  /\ spawned' = spawned /\ strays' = strays /\ timer' = timer /\ unfilled' = unfilled

LEMMA StillInv ==
  ASSUME CreatureInv, Still,
         inVector' \subseteq inVector, checks' \in [CheckList -> SUBSET Creature],
         \A i, j \in CheckList : i # j => checks'[i] \cap checks'[j] = {},
         idle' \subseteq Monster, dead \cap idle' = {},
         attacked' \in [Creature -> Creature \cup {None}],
         \A d \in Creature \ born : attacked'[d] = None,
         toRelease' \in [Creature -> Nat], \A d \in Creature \ born : toRelease'[d] = 0,
         InSight', Listing', Awake',
         refs' = [d \in Creature |-> refs'[d]],
         \A d \in Creature :
           refs'[d] = refs[d] + toRelease'[d] - toRelease[d] + One(inVector')[d] - One(inVector)[d]
  PROVE  CreatureInv'
<1>1. CreatureTypeOK /\ Bound /\ Ordered /\ Kinds /\ Unborn /\ Slots
  BY InvParts
<1>2. Bound' /\ Ordered' /\ Slots' /\ InSpawn' = InSpawn /\ Mastered' = Mastered
  BY <1>1 DEF Still, Bound, Ordered, Missed, Slots, InSpawn, Mastered
<1>3. ASSUME NEW d \in Creature PROVE refs'[d] = Count(d)'
  <2>1. refs[d] = Count(d) /\ toRelease[d] \in Nat /\ toRelease'[d] \in Nat
    BY <1>1, CountFacts DEF CreatureTypeOK
  <2>2. /\ One(world)[d] \in Nat /\ One(inVector)[d] \in Nat /\ One(InSpawn)[d] \in Nat
        /\ One(inVector')[d] \in Nat /\ One(Mastered)[d] \in Nat /\ Listed(targets, d) \in Nat
    BY OneOf, ListedType
  <2>3. refs'[d] = One(world)[d] + toRelease'[d] + One(inVector')[d] + One(InSpawn)[d]
                     + One(Mastered)[d] + Listed(targets, d)
    BY <2>1, <2>2 DEF Count
  <2> QED BY <1>2, <2>3 DEF Count, One, Listed, Still
<1>4. ReferencesExact' /\ refs' \in [Creature -> Nat]
  <2>1. master' \in [Creature -> Creature \cup {None}]
    BY <1>1 DEF CreatureTypeOK, Still
  <2> QED BY <1>2, <1>3, <2>1, ExactNext
<1>5. CreatureTypeOK'
  BY <1>1, <1>4 DEF CreatureTypeOK, Still
<1>6. Kinds' /\ Unborn'
  BY <1>1, <1>2 DEF Kinds, Unborn, Still
<1> QED BY <1>2, <1>4, <1>5, <1>6, InvNext

LEMMA AttackInv ==
  ASSUME CreatureInv, NEW c \in Creature, NEW d \in Creature, Attack(c, d)
  PROVE  CreatureInv'
<1>1. /\ c \in world /\ d \in world
      /\ attacked' = [x \in Creature |->
           IF x \notin Retinue(c) THEN attacked[x] ELSE IF at[x] = at[d] THEN d ELSE None]
      /\ Still /\ refs' = refs /\ toRelease' = toRelease
      /\ marked' = marked /\ inVector' = inVector /\ checks' = checks /\ idle' = idle
  BY DEF Attack, Still, bonds, spawn
<1>2. CreatureTypeOK /\ InSight /\ Listing /\ Awake /\ Kinds /\ Unborn
  BY InvParts
<1>3. Retinue(c) \subseteq born
  BY <1>1, <1>2, RetinueFacts DEF CreatureTypeOK
<1>4. /\ attacked' \in [Creature -> Creature \cup {None}]
      /\ \A x \in Creature \ born : attacked'[x] = None
  BY <1>1, <1>2, <1>3 DEF CreatureTypeOK, Unborn
<1>5. InSight'
  <2>1. world \subseteq Creature
    BY <1>2 DEF CreatureTypeOK
  <2>2. ASSUME NEW x \in world, attacked'[x] # None
        PROVE  attacked'[x] \in world /\ at[attacked'[x]] = at[x]
    <3>1. CASE x \in Retinue(c)
      BY <1>1, <2>1, <2>2, <3>1
    <3>2. CASE x \notin Retinue(c)
      BY <1>1, <1>2, <2>1, <2>2, <3>2 DEF InSight
    <3> QED BY <3>1, <3>2
  <2> QED BY <1>1, <2>2 DEF InSight, Still
<1>6. Listing' /\ Awake'
  BY <1>1, <1>2 DEF Listing, Awake, Still
<1>7. /\ inVector' \subseteq inVector /\ checks' \in [CheckList -> SUBSET Creature]
      /\ \A i, j \in CheckList : i # j => checks'[i] \cap checks'[j] = {}
      /\ idle' \subseteq Monster /\ dead \cap idle' = {}
      /\ toRelease' \in [Creature -> Nat] /\ \A x \in Creature \ born : toRelease'[x] = 0
      /\ refs' = [x \in Creature |-> refs'[x]]
  BY <1>1, <1>2 DEF CreatureTypeOK, Kinds, Unborn
<1>8. ASSUME NEW x \in Creature
      PROVE  refs'[x] = refs[x] + toRelease'[x] - toRelease[x] + One(inVector')[x] - One(inVector)[x]
  <2>1. refs[x] \in Nat /\ toRelease[x] \in Nat /\ One(inVector)[x] \in Nat
    BY <1>2, OneOf DEF CreatureTypeOK
  <2> QED BY <1>1, <2>1
<1> QED BY <1>1, <1>4, <1>5, <1>6, <1>7, <1>8, StillInv

LEMMA CheckCreaturesInv ==
  ASSUME CreatureInv, NEW i \in CheckList, CheckCreatures(i)
  PROVE  CreatureInv'
<1> DEFINE off  == checks[i] \ marked
           M    == (checks[i] \cap marked \cap Monster \cap world) \ dead
           lull == Lulled(M, targets)
           wake == Wakened(M, targets)
<1>1. /\ idle' = (idle \cup lull) \ wake
      /\ marked' = marked \ lull
      /\ inVector' = inVector \ off
      /\ checks' = [checks EXCEPT ![i] = @ \ off]
      /\ refs' = [c \in Creature |-> refs[c] - toRelease[c] - One(off)[c]]
      /\ toRelease' = One({})
      /\ Still /\ attacked' = attacked
  BY DEF CheckCreatures, Still, bonds, spawn
<1>2. CreatureTypeOK /\ InSight /\ Listing /\ Awake /\ Kinds /\ Unborn
  BY InvParts
<1>3. /\ \A m \in M : (m \in lull) <=> (m \notin wake)
      /\ lull \subseteq M /\ wake \subseteq M
      /\ \A m \in lull : targets[m] = {}
  BY DEF Lulled, Wakened
<1>4. M \subseteq Monster /\ M \subseteq marked /\ M \cap dead = {}
  OBVIOUS
<1>5. \A c : c \in off <=> c \in checks[i] /\ c \notin marked
  OBVIOUS
<1> HIDE DEF off, lull, wake, M
<1>6. /\ checks \in [CheckList -> SUBSET Creature]
      /\ \A j, k \in CheckList : j # k => checks[j] \cap checks[k] = {}
      /\ marked \subseteq inVector
      /\ \A c : c \in inVector <=> \E j \in CheckList : c \in checks[j]
  BY <1>2 DEF CreatureTypeOK, Kinds, Listing, Range
<1>7. /\ checks' \in [CheckList -> SUBSET Creature]
      /\ \A j \in CheckList : checks'[j] = IF j = i THEN checks[i] \ off ELSE checks[j]
  BY <1>1, <1>6
<1>8. \A j, k \in CheckList : j # k => checks'[j] \cap checks'[k] = {}
  BY <1>6, <1>7
<1>9. Listing'
  <2>1. \A c : c \in inVector' <=> \E j \in CheckList : c \in checks'[j]
    <3>1. ASSUME NEW c, c \in inVector' PROVE \E j \in CheckList : c \in checks'[j]
      <4>1. c \in inVector /\ c \notin off
        BY <1>1, <3>1
      <4>2. PICK j \in CheckList : c \in checks[j]
        BY <1>6, <4>1
      <4> QED BY <1>7, <4>1, <4>2
    <3>2. ASSUME NEW c, NEW j \in CheckList, c \in checks'[j] PROVE c \in inVector'
      <4>1. c \in checks[j] /\ c \in inVector
        BY <1>6, <1>7, <3>2
      <4>2. CASE j = i
        BY <1>1, <1>7, <3>2, <4>1, <4>2
      <4>3. CASE j # i
        BY <1>1, <1>5, <1>6, <4>1, <4>3
      <4> QED BY <4>2, <4>3
    <3> QED BY <3>1, <3>2
  <2>2. inVector' = UNION Range(checks')
    BY <1>7, <2>1 DEF Range
  <2>3. marked' \subseteq inVector'
    BY <1>1, <1>5, <1>6
  <2> QED BY <2>2, <2>3 DEF Listing
<1>10. Awake'
  <2>1. ASSUME NEW c \in world \ dead, c \in Player \/ c \notin idle' PROVE c \in marked'
    <3>1. c \notin lull
      <4>1. ASSUME c \in lull PROVE FALSE
        <5>1. c \in Monster /\ c \notin wake /\ c \in M
          BY <1>3, <1>4, <4>1
        <5>2. c \notin Player
          BY <5>1, Kind DEF Creature
        <5> QED BY <1>1, <2>1, <4>1, <5>1, <5>2
      <4> QED BY <4>1
    <3>2. CASE c \in wake
      BY <1>1, <1>3, <1>4, <3>1, <3>2
    <3>3. CASE c \notin wake
      BY <1>1, <1>2, <2>1, <3>1, <3>3 DEF Awake
    <3> QED BY <3>2, <3>3
  <2>2. ASSUME NEW m \in world \cap idle' PROVE targets[m] = {}
    BY <1>1, <1>2, <1>3, <2>2 DEF Awake
  <2> QED BY <1>1, <2>1, <2>2 DEF Awake, Still
<1>11. InSight' /\ inVector' \subseteq inVector
  BY <1>1, <1>2 DEF InSight, Still
<1>12. idle' \subseteq Monster /\ dead \cap idle' = {}
  BY <1>1, <1>2, <1>3, <1>4 DEF CreatureTypeOK, Kinds
<1>13. /\ attacked' \in [Creature -> Creature \cup {None}]
       /\ \A d \in Creature \ born : attacked'[d] = None
  BY <1>1, <1>2 DEF CreatureTypeOK, Unborn
<1>14. toRelease' \in [Creature -> Nat] /\ \A d \in Creature : toRelease'[d] = 0
  BY <1>1 DEF One
<1>15. refs' = [d \in Creature |-> refs'[d]]
  BY <1>1
<1>16. ASSUME NEW d \in Creature
       PROVE  refs'[d] = refs[d] + toRelease'[d] - toRelease[d] + One(inVector')[d] - One(inVector)[d]
  <2>1. refs'[d] = refs[d] - toRelease[d] - One(off)[d]
    BY <1>1
  <2>2. One(inVector')[d] = One(inVector)[d] - One(off)[d]
    BY <1>1, <1>5, <1>6, OneOf
  <2>3. refs[d] \in Nat /\ toRelease[d] \in Nat /\ One(inVector)[d] \in Nat /\ One(off)[d] \in Nat
    BY <1>2, OneOf DEF CreatureTypeOK
  <2> QED BY <1>14, <2>1, <2>2, <2>3
<1>17. \A d \in Creature \ born : toRelease'[d] = 0
  BY <1>14
<1> QED BY <1>1, <1>7, <1>8, <1>9, <1>10, <1>11, <1>12, <1>13, <1>14, <1>15, <1>16, <1>17,
           StillInv

LEMMA CleanupInv ==
  ASSUME CreatureInv, Cleanup
  PROVE  CreatureInv'
<1>1. /\ refs' = [c \in Creature |-> refs[c] - toRelease[c]]
      /\ toRelease' = One({})
      /\ Still /\ attacked' = attacked
      /\ marked' = marked /\ inVector' = inVector /\ checks' = checks /\ idle' = idle
  BY DEF Cleanup, Still, bonds, spawn
<1>2. CreatureTypeOK /\ InSight /\ Listing /\ Awake /\ Kinds /\ Unborn
  BY InvParts
<1>3. InSight' /\ Listing' /\ Awake'
  BY <1>1, <1>2 DEF InSight, Listing, Awake, Still
<1>4. /\ inVector' \subseteq inVector /\ checks' \in [CheckList -> SUBSET Creature]
      /\ \A i, j \in CheckList : i # j => checks'[i] \cap checks'[j] = {}
      /\ idle' \subseteq Monster /\ dead \cap idle' = {}
      /\ attacked' \in [Creature -> Creature \cup {None}]
      /\ \A x \in Creature \ born : attacked'[x] = None
      /\ refs' = [x \in Creature |-> refs'[x]]
  BY <1>1, <1>2 DEF CreatureTypeOK, Kinds, Unborn
<1>5. toRelease' \in [Creature -> Nat] /\ \A d \in Creature : toRelease'[d] = 0
  BY <1>1 DEF One
<1>6. ASSUME NEW x \in Creature
      PROVE  refs'[x] = refs[x] + toRelease'[x] - toRelease[x] + One(inVector')[x] - One(inVector)[x]
  <2>1. refs[x] \in Nat /\ toRelease[x] \in Nat /\ One(inVector)[x] \in Nat
    BY <1>2, OneOf DEF CreatureTypeOK
  <2> QED BY <1>1, <1>5, <2>1
<1>7. \A d \in Creature \ born : toRelease'[d] = 0
  BY <1>5
<1> QED BY <1>1, <1>3, <1>4, <1>5, <1>6, <1>7, StillInv

LEMMA DestroyInv ==
  ASSUME CreatureInv, NEW c \in Creature, Destroy(c)
  PROVE  CreatureInv'
<1> DEFINE S == summons[c]
<1>1. /\ c \in born /\ refs[c] = 0
      /\ born' = born \ {c} /\ dead' = dead \ {c}
      /\ targets' = [m \in Monster |-> IF m = c THEN {} ELSE targets[m]]
      /\ refs' = [d \in Creature |-> refs[d] - One(S)[d]
                    - (IF c \in Monster /\ d \in targets[c] THEN 1 ELSE 0)]
      /\ master' = [d \in Creature |-> IF d \in S \cup {c} THEN None ELSE master[d]]
      /\ summons' = [summons EXCEPT ![c] = {}]
      /\ attacked' = [d \in Creature |->
           IF d = c \/ \E s \in S : d \in Retinue(s) THEN None ELSE attacked[d]]
      /\ idle' = idle \cup ({c} \cap Monster)
      /\ at' = [at EXCEPT ![c] = Home]
      /\ world' = world /\ toRelease' = toRelease /\ marked' = marked /\ inVector' = inVector
      /\ checks' = checks /\ removing' = removing
      /\ spawned' = spawned /\ strays' = strays /\ timer' = timer
      /\ unfilled' = unfilled
  BY DEF Destroy, Dying, spawn
<1>2. /\ CreatureTypeOK /\ InSight /\ Bound /\ Listing /\ Awake /\ Ordered
      /\ Kinds /\ Unborn /\ Slots
  BY InvParts
<1>3. /\ c \notin world /\ toRelease[c] = 0 /\ c \notin inVector /\ c \notin InSpawn
      /\ master[c] = None /\ \A m \in Monster : c \notin targets[m]
  BY <1>1, CountFacts
<1>4. \A d : d \in S <=> d \in Creature /\ master[d] = c
  BY <1>2 DEF Bound, CreatureTypeOK
<1> HIDE DEF S
<1>5. /\ master \in [Creature -> born \cup {None}] /\ summons \in [Creature -> SUBSET born]
      /\ targets \in [Monster -> SUBSET born] /\ at \in [Creature -> Place]
      /\ attacked \in [Creature -> Creature \cup {None}]
      /\ \A d \in Creature : master[d] # d /\ d # None
      /\ Home \in Place
  BY <1>2, Kind DEF CreatureTypeOK, Kinds
<1>6. InSpawn' = InSpawn
  BY <1>1 DEF InSpawn
<1>7. Bound'
  <2>1. ASSUME NEW d \in Creature, NEW m \in Creature PROVE master'[d] = m <=> d \in summons'[m]
    <3>1. /\ master'[d] = (IF d \in S \/ d = c THEN None ELSE master[d])
          /\ summons'[m] = (IF m = c THEN {} ELSE summons[m])
          /\ m # None
          /\ (master[d] = m <=> d \in summons[m])
      BY <1>1, <1>2, <1>5 DEF Bound
    <3>2. CASE m = c
      BY <1>4, <3>1, <3>2
    <3>3. CASE m # c
      BY <1>3, <1>4, <3>1, <3>3
    <3> QED BY <3>2, <3>3
  <2> QED BY <2>1 DEF Bound
<1>8. master' \in [Creature -> (born \ {c}) \cup {None}]
  BY <1>1, <1>4, <1>5
<1>9. summons' \in [Creature -> SUBSET (born \ {c})]
  <2>1. \A m \in Creature : c \notin summons[m]
    BY <1>2, <1>3, <1>5 DEF Bound
  <2> QED BY <1>1, <1>5, <2>1
<1>10. targets' \in [Monster -> SUBSET (born \ {c})]
  BY <1>1, <1>3, <1>5
<1>11. /\ attacked' \in [Creature -> Creature \cup {None}]
       /\ attacked'[c] = None
       /\ \A d \in Creature : attacked'[d] = attacked[d] \/ attacked'[d] = None
  BY <1>1, <1>5
<1>12. at' \in [Creature -> Place] /\ \A d \in Creature : d # c => at'[d] = at[d]
  BY <1>1, <1>5
<1>13. ASSUME NEW d \in Creature PROVE refs'[d] = Count(d)'
  <2>1. refs[d] = Count(d) /\ toRelease[d] \in Nat
    BY <1>2, CountFacts DEF CreatureTypeOK
  <2> DEFINE lost == IF c \in Monster /\ d \in targets[c] THEN 1 ELSE 0
  <2>2. lost \in Nat /\ refs'[d] = refs[d] - One(S)[d] - lost
    BY <1>1
  <2>3. Listed(targets', d) = Listed(targets, d) - lost
    <3>1. \A m \in Monster : targets'[m] = IF m = c THEN {} ELSE targets[m]
      BY <1>1
    <3> QED BY <3>1, ListedWithout
  <2> HIDE DEF lost
  <2>4. One(Mastered')[d] = One(Mastered)[d] - One(S)[d]
    <3>1. /\ d \in Mastered <=> master[d] # None
          /\ d \in Mastered' <=> master'[d] # None
      BY DEF Mastered
    <3>2. d \in Mastered' <=> d \in Mastered /\ d \notin S
      BY <1>1, <1>3, <3>1
    <3>3. d \in S => d \in Mastered
      BY <1>4, <1>5, <3>1
    <3> QED BY <3>2, <3>3, OneOf
  <2>5. /\ One(world)[d] \in Nat /\ One(inVector)[d] \in Nat /\ One(InSpawn)[d] \in Nat
        /\ One(Mastered)[d] \in Nat /\ One(Mastered')[d] \in Nat /\ One(S)[d] \in Nat
        /\ Listed(targets, d) \in Nat /\ Listed(targets', d) \in Nat
    BY OneOf, ListedType
  <2>6. refs'[d] = One(world)[d] + toRelease[d] + One(inVector)[d] + One(InSpawn)[d]
                     + One(Mastered')[d] + Listed(targets', d)
    BY <2>1, <2>2, <2>3, <2>4, <2>5 DEF Count
  <2> QED BY <1>1, <1>6, <2>6 DEF Count, One, Listed
<1>14. ReferencesExact' /\ refs' \in [Creature -> Nat]
  <2>1. master' \in [Creature -> Creature \cup {None}] /\ toRelease' \in [Creature -> Nat]
    BY <1>1, <1>2, <1>8 DEF CreatureTypeOK
  <2>2. refs' = [d \in Creature |-> refs'[d]]
    BY <1>1
  <2> QED BY <1>7, <1>13, <2>1, <2>2, ExactNext
<1>15. CreatureTypeOK'
  <2>1. /\ world' \subseteq born' /\ born' \subseteq Creature /\ dead' \subseteq born'
        /\ toRelease' \in [Creature -> Nat]
        /\ \A i, j \in CheckList : i # j => checks'[i] \cap checks'[j] = {}
        /\ idle' \subseteq Monster /\ timer' \in BOOLEAN /\ removing' \subseteq world'
    BY <1>1, <1>2, <1>3 DEF CreatureTypeOK
  <2> QED BY <1>1, <1>8, <1>9, <1>10, <1>11, <1>12, <1>14, <2>1 DEF CreatureTypeOK
<1>16. Kinds'
  <2>1. inVector' \subseteq born' /\ dead' \cap idle' = {}
    BY <1>1, <1>2, <1>3 DEF Kinds
  <2>2. \A d \in Creature : master'[d] # d
    BY <1>1, <1>5
  <2> QED BY <1>1, <1>2, <2>1, <2>2 DEF Kinds
<1>17. Unborn'
  <2>1. ASSUME NEW d \in Creature \ born'
        PROVE  attacked'[d] = None /\ toRelease'[d] = 0 /\ d \notin InSpawn'
    <3>1. CASE d = c
      BY <1>1, <1>3, <1>6, <1>11, <3>1
    <3>2. CASE d # c
      BY <1>1, <1>2, <1>6, <1>11, <2>1, <3>2 DEF Unborn
    <3> QED BY <3>1, <3>2
  <2> QED BY <2>1 DEF Unborn
<1>18. InSight'
  <2>1. ASSUME NEW d \in world, attacked'[d] # None
        PROVE  attacked'[d] \in world /\ at'[attacked'[d]] = at'[d]
    <3>1. d \in Creature /\ d # c /\ world \subseteq Creature
      BY <1>2, <1>3, <2>1 DEF CreatureTypeOK
    <3>2. attacked'[d] = attacked[d]
      BY <1>11, <2>1, <3>1
    <3>3. attacked[d] \in world /\ at[attacked[d]] = at[d]
      BY <1>2, <2>1, <3>2 DEF InSight
    <3> QED BY <1>3, <1>12, <3>1, <3>2, <3>3
  <2> QED BY <1>1, <2>1 DEF InSight
<1>19. Awake'
  <2>1. ASSUME NEW d \in world' \ dead', d \in Player \/ d \notin idle' PROVE d \in marked'
    BY <1>1, <1>2, <1>3, <2>1 DEF Awake
  <2>2. ASSUME NEW m \in world' \cap idle' PROVE targets'[m] = {}
    <3>1. m \in world /\ m # c /\ m \in idle /\ m \in Monster
      BY <1>1, <1>2, <1>3, <2>2 DEF CreatureTypeOK
    <3> QED BY <1>1, <1>2, <3>1 DEF Awake
  <2> QED BY <2>1, <2>2 DEF Awake
<1>20. Listing' /\ Ordered' /\ Slots'
  BY <1>1, <1>2, <1>6 DEF Listing, Ordered, Missed, Slots
<1> QED BY <1>7, <1>14, <1>15, <1>16, <1>17, <1>18, <1>19, <1>20, InvNext

-----------------------------------------------------------------------------
LEMMA CreatureInitInv == CreatureInit => CreatureInv
<1> SUFFICES ASSUME CreatureInit PROVE CreatureInv
  OBVIOUS
<1>1. /\ spawned \in [Slot -> Monster \cup {None}]
      /\ \A s, t \in Slot : spawned[s] = spawned[t] /\ spawned[s] # None => s = t
      /\ unfilled = {s \in Slot : spawned[s] = None}
      /\ born = Range(spawned) \ {None} /\ world = born
      /\ dead = {} /\ at = [c \in Creature |-> Home]
      /\ refs = [c \in Creature |-> 2 * One(born)[c]]
      /\ toRelease = One({})
      /\ marked = {} /\ inVector = {} /\ checks = [i \in CheckList |-> {}]
      /\ idle = Monster /\ targets = [m \in Monster |-> {}]
      /\ master = [c \in Creature |-> None] /\ summons = [c \in Creature |-> {}]
      /\ attacked = [c \in Creature |-> None]
      /\ strays = {} /\ timer = FALSE /\ removing = {}
  BY DEF CreatureInit
<1>3. born \subseteq Monster /\ \A c \in Creature : c \in InSpawn <=> c \in born
  BY <1>1, Kind DEF Range, InSpawn
<1>4. Monster \subseteq Creature /\ Home \in Place /\ \A c \in Creature : c # None
  BY Kind
<1>5. Cardinality(InSpawn \cap world) + Cardinality(unfilled) = Cardinality(Slot)
  <2> DEFINE A == {s \in Slot : spawned[s] # None}
             L == {}
  <2>1. Cardinality((Range(spawned) \cup L) \ {None}) = Cardinality(A) + Cardinality(L)
    <3>1. L \in SUBSET Monster /\ Range(spawned) \cap L = {}
      OBVIOUS
    <3> HIDE DEF L
    <3> QED BY <1>1, <3>1, SpawnCount
  <2>2. Cardinality(L) = 0 /\ (Range(spawned) \cup L) \ {None} = InSpawn \cap world
    BY <1>1, FS_EmptySet DEF InSpawn
  <2>3. unfilled = Slot \ A /\ Slot \cap A = A
    BY <1>1
  <2>4. IsFiniteSet(A) /\ Cardinality(A) \in Nat /\ IsFiniteSet(Slot) /\ Cardinality(Slot) \in Nat
    BY Kind, FS_Subset, FS_CardinalityType
  <2> HIDE DEF A, L
  <2>5. Cardinality(Slot \ A) = Cardinality(Slot) - Cardinality(Slot \cap A)
    BY <2>4, FS_Difference
  <2> QED BY <2>1, <2>2, <2>3, <2>4, <2>5
<1>6. Ordered /\ Missed
  <2>1. Cardinality(Slot) \in Nat
    BY Kind
  <2>2. Missed
    BY <1>1 DEF Missed
  <2> QED BY <1>5, <2>1, <2>2 DEF Ordered
<1>7. Bound /\ InSight /\ Awake /\ Kinds /\ Slots
  <2>1. Bound
    BY <1>1, <1>4 DEF Bound
  <2>2. InSight
    BY <1>1, <1>3, <1>4 DEF InSight
  <2>3. Awake
    <3>1. \A c \in world : c \in Monster /\ c \in idle /\ c \notin Player
      BY <1>1, <1>3, <1>4, Kind
    <3> QED BY <1>1, <3>1 DEF Awake
  <2>4. Kinds
    BY <1>1, <1>4 DEF Kinds
  <2>5. Slots
    BY <1>1 DEF Slots
  <2> QED BY <2>1, <2>2, <2>3, <2>4, <2>5
<1>8. Listing
  <2>1. UNION Range(checks) = {}
    BY <1>1 DEF Range
  <2> QED BY <1>1, <2>1 DEF Listing
<1>9. \A c \in Creature : toRelease[c] = 0
  BY <1>1, OneOf
<1>10. Unborn
  BY <1>1, <1>3, <1>9 DEF Unborn
<1>11. ASSUME NEW c \in Creature PROVE refs[c] = Count(c)
  <2>1. /\ One(world)[c] = One(born)[c] /\ One(InSpawn)[c] = One(born)[c]
        /\ One(inVector)[c] = 0 /\ One(Mastered)[c] = 0 /\ One(born)[c] \in Nat
    BY <1>1, <1>3, OneOf DEF Mastered
  <2>2. Listed(targets, c) = 0
    <3>1. \A m \in Monster : c \notin targets[m]
      BY <1>1
    <3> QED BY <3>1, ListedType
  <2> QED BY <1>1, <1>9, <2>1, <2>2 DEF Count
<1>12. master \in [Creature -> Creature \cup {None}]
  BY <1>1
<1>13. ReferencesExact
  BY <1>7, <1>11, <1>12, ReferencesCount DEF ReferencesExact
<1>14. CreatureTypeOK
  <2>1. refs \in [Creature -> Nat] /\ toRelease \in [Creature -> Nat]
    <3>1. \A c \in Creature : 2 * One(born)[c] \in Nat
      BY OneOf
    <3> QED BY <1>1, <3>1 DEF One
  <2>2. /\ world \subseteq born /\ born \subseteq Creature /\ dead \subseteq born
        /\ at \in [Creature -> Place] /\ idle \subseteq Monster
        /\ \A i, j \in CheckList : i # j => checks[i] \cap checks[j] = {}
        /\ targets \in [Monster -> SUBSET born]
        /\ master \in [Creature -> born \cup {None}]
        /\ summons \in [Creature -> SUBSET born]
        /\ attacked \in [Creature -> Creature \cup {None}]
        /\ timer \in BOOLEAN /\ removing \subseteq world
    BY <1>1, <1>3, <1>4
  <2> QED BY <2>1, <2>2 DEF CreatureTypeOK
<1> QED BY <1>6, <1>7, <1>8, <1>10, <1>13, <1>14, InvParts

LEMMA CreatureStep == CreatureInv /\ [CreatureNext]_creatureVars => CreatureInv'
<1> SUFFICES ASSUME CreatureInv, [CreatureNext]_creatureVars PROVE CreatureInv'
  OBVIOUS
<1>1. CASE CreatureNext
  <2>1. ASSUME NEW c \in Creature, Kill(c) PROVE CreatureInv'
    BY <2>1, KillInv
  <2>2. ASSUME NEW c \in Creature, Die(c) PROVE CreatureInv'
    BY <2>2, DieInv
  <2>3. ASSUME NEW c \in Creature, RemoveCreature(c) PROVE CreatureInv'
    BY <2>3, RemoveCreatureInv
  <2>4. ASSUME NEW c \in Creature, Destroy(c) PROVE CreatureInv'
    BY <2>4, DestroyInv
  <2>5. ASSUME NEW c \in Creature, NEW p \in Place, Login(c, p) PROVE CreatureInv'
    BY <2>5, LoginInv
  <2>6. ASSUME NEW c \in Creature, NEW p \in Place, Move(c, p) PROVE CreatureInv'
    BY <2>6, MoveInv
  <2>7. ASSUME NEW c \in Creature, NEW d \in Creature, Attack(c, d) PROVE CreatureInv'
    BY <2>7, AttackInv
  <2>8. ASSUME NEW c \in Creature, NEW m \in Creature \cup {None}, SetMaster(c, m)
        PROVE  CreatureInv'
    BY <2>8, SetMasterInv
  <2>9. ASSUME NEW m \in Creature, NEW c \in Monster, Summon(m, c) PROVE CreatureInv'
    BY <2>9, SummonInv
  <2>10. ASSUME NEW i \in CheckList, CheckCreatures(i) PROVE CreatureInv'
    BY <2>10, CheckCreaturesInv
  <2>11. CASE Cleanup
    BY <2>11, CleanupInv
  <2>12. CASE CheckSpawn
    BY <2>12, CheckSpawnInv
  <2> QED BY <1>1, <2>1, <2>2, <2>3, <2>4, <2>5, <2>6, <2>7, <2>8, <2>9, <2>10, <2>11, <2>12
          DEF CreatureNext
<1>2. CASE UNCHANGED creatureVars
  BY <1>2
  DEF creatureVars, bonds, spawn, CreatureInv, CreatureTypeOK, ReferencesExact, References,
      PointersLive, NobodyForgotten, Kinds, Unborn, Slots, Missed, InSpawn, One, Listed
<1> QED BY <1>1, <1>2

LEMMA CreatureInvariant == CreatureSpec => []CreatureInv
BY CreatureInitInv, CreatureStep, PTL DEF CreatureSpec

-----------------------------------------------------------------------------
(* The types of the state, whatever the creatures do and in whatever order *)
(* they are placed, killed, removed and released (game.cpp, creature.cpp,  *)
(* monster.cpp, spawn.cpp); the counters of references are never negative. *)
THEOREM CreatureTypesSafe == CreatureSpec => []CreatureTypeOK
<1>1. CreatureInv => CreatureTypeOK
  BY DEF CreatureInv
<1> QED BY <1>1, CreatureInvariant, PTL

(* A creature's counter (incrementReferenceCounter) is the number of       *)
(* places that will give a reference back, for any number of creatures,    *)
(* summons, spawn slots and check lists.                                   *)
THEOREM CreatureReferences == CreatureSpec => []ReferencesExact
<1>1. CreatureInv => ReferencesExact
  BY DEF CreatureInv
<1> QED BY <1>1, CreatureInvariant, PTL

(* The pointers nothing counts, attackedCreature and master, lead to       *)
(* creatures of the world in sight, and to a master that knows its summon. *)
THEOREM CreaturePointers == CreatureSpec => []PointersLive
<1>1. CreatureInv => PointersLive
  BY DEF CreatureInv
<1> QED BY <1>1, CreatureInvariant, PTL

(* Whoever should act is checked, sleepers have no target, and a spawn     *)
(* that lost a monster has a check ordered (addCreatureCheck, setIdle,     *)
(* startSpawnCheck), between any two steps of the dispatcher's thread and  *)
(* whichever slots the startup failed to fill.                             *)
THEOREM CreaturesRemembered == CreatureSpec => []NobodyForgotten
<1>1. CreatureInv => NobodyForgotten
  BY DEF CreatureInv
<1> QED BY <1>1, CreatureInvariant, PTL

\* nobody holds an object that is about to be deleted
Unheld ==
  \A c \in Dying :
    /\ c \notin world /\ c \notin UNION Range(checks) /\ c \notin Range(spawned) \cup strays
    /\ \A m \in Monster : c \notin targets[m]
    /\ \A d \in Creature : c \notin summons[d]
    /\ \A d \in world : attacked[d] # c

(* delete this finds nobody who still holds the creature: an object whose  *)
(* counter reached zero is in no list, no spawn, no target list and not    *)
(* among anybody's summons, and nobody in the world attacks it.            *)
THEOREM CreatureDestroyedUnheld == CreatureSpec => []Unheld
<1>1. CreatureInv => Unheld
  <2> SUFFICES ASSUME CreatureInv, NEW c \in Dying
               PROVE  /\ c \notin world /\ c \notin UNION Range(checks)
                      /\ c \notin Range(spawned) \cup strays
                      /\ \A m \in Monster : c \notin targets[m]
                      /\ \A d \in Creature : c \notin summons[d]
                      /\ \A d \in world : attacked[d] # c
    BY DEF Unheld
  <2>1. c \in Creature /\ c # None /\ refs[c] = 0
    BY InvParts, Kind DEF Dying, CreatureTypeOK
  <2>2. /\ c \notin world /\ c \notin inVector /\ c \notin InSpawn /\ master[c] = None
        /\ \A m \in Monster : c \notin targets[m]
    BY <2>1, CountFacts
  <2>3. InSight /\ Bound /\ Listing
    BY InvParts
  <2>4. c \notin UNION Range(checks)
    BY <2>2, <2>3 DEF Listing
  <2>5. \A d \in Creature : c \notin summons[d]
    <3>1. \A d \in Creature : d # None
      BY Kind
    <3> QED BY <2>1, <2>2, <2>3, <3>1 DEF Bound
  <2>6. \A d \in world : attacked[d] # c
    BY <2>1, <2>2, <2>3 DEF InSight
  <2> QED BY <2>2, <2>4, <2>5, <2>6 DEF InSpawn
<1> QED BY <1>1, CreatureInvariant, PTL

-----------------------------------------------------------------------------
(* Conditions: folds over a finite set.                                    *)

\* Induction over the parts of a finite set, for a set of them.
LEMMA PartsInSet ==
  ASSUME NEW S, IsFiniteSet(S), NEW A, {} \in A,
         \A T \in SUBSET S : T # {} /\ (\A x \in T : T \ {x} \in A) => T \in A
  PROVE  SUBSET S \subseteq A
<1> DEFINE I == {n \in Nat : \A T \in SUBSET S : Cardinality(T) = n => T \in A}
<1>1. \A T \in SUBSET S : IsFiniteSet(T) /\ Cardinality(T) \in Nat
  BY FS_Subset, FS_CardinalityType
<1>2. 0 \in I
  BY <1>1, FS_EmptySet
<1>3. ASSUME NEW n \in Nat, n \in I PROVE n + 1 \in I
  <2> SUFFICES ASSUME NEW T \in SUBSET S, Cardinality(T) = n + 1 PROVE T \in A
    OBVIOUS
  <2>1. T # {}
    <3>1. Cardinality(T) # 0
      BY <1>3
    <3> QED BY <1>1, <3>1, FS_EmptySet
  <2>2. ASSUME NEW x \in T PROVE T \ {x} \in A
    <3>1. Cardinality(T \ {x}) = (n + 1) - 1
      BY <1>1, FS_RemoveElement
    <3>2. T \ {x} \in SUBSET S /\ Cardinality(T \ {x}) = n
      BY <1>3, <3>1
    <3> QED BY <1>3, <3>2
  <2> QED BY <2>1, <2>2
<1> HIDE DEF I
<1>4. Nat \subseteq I
  BY <1>2, <1>3, NatInSet
<1> QED BY <1>1, <1>4 DEF I

\* Summed(S): the sum of the values, as MapThenSumSet makes it.
Pick(S) == CHOOSE x \in S : TRUE
Summed(S) == MapThenSumSet(LAMBDA c : c.value, S)

IsSum(f, S) ==
  f = [T \in SUBSET S |-> IF T = {} THEN 0 ELSE Pick(T).value + f[T \ {Pick(T)}]]

\* The sum is what the recursive function of MapThenFoldSet gives for the set.
LEMMA SummedByFunction ==
  ASSUME NEW S
  PROVE  Summed(S) = (CHOOSE f : IsSum(f, S))[S]
BY DEF Summed, MapThenSumSet, MapThenFoldSet, IsSum, Pick

\* The element CHOOSE takes is one of the set.
LEMMA PickIn == \A T : T # {} => Pick(T) \in T
BY DEF Pick

\* The recursive function has a value for every part of a finite set.
LEMMA SummedFunction ==
  ASSUME NEW S, IsFiniteSet(S)
  PROVE  \E f : IsSum(f, S)
<1> DEFINE B(h, T) == IF T = {} THEN 0 ELSE Pick(T).value + h[T \ {Pick(T)}]
           I == {n \in Nat : \E h : \A T \in SUBSET S : Cardinality(T) <= n => h[T] = B(h, T)}
<1>1. \A T \in SUBSET S : IsFiniteSet(T) /\ Cardinality(T) \in Nat
  BY FS_Subset, FS_CardinalityType
<1>2. \A T \in SUBSET S : T # {} =>
        /\ T \ {Pick(T)} \in SUBSET S
        /\ Cardinality(T \ {Pick(T)}) = Cardinality(T) - 1
  BY <1>1, PickIn, FS_RemoveElement
<1>3. 0 \in I
  <2> DEFINE f == [T \in SUBSET S |-> 0]
  <2>1. \A T \in SUBSET S : Cardinality(T) <= 0 => f[T] = B(f, T)
    BY <1>1, FS_EmptySet
  <2> HIDE DEF f
  <2> QED BY <2>1
<1>4. ASSUME NEW n \in Nat, n \in I PROVE n + 1 \in I
  <2>1. PICK f : \A T \in SUBSET S : Cardinality(T) <= n => f[T] = B(f, T)
    BY <1>4
  <2> DEFINE g == [T \in SUBSET S |-> B(f, T)]
  <2>2. \A T \in SUBSET S : Cardinality(T) <= n => g[T] = f[T]
    BY <2>1
  <2>3. \A T \in SUBSET S : g[T] = B(f, T)
    OBVIOUS
  <2> HIDE DEF g
  <2>4. \A T \in SUBSET S : Cardinality(T) <= n + 1 => g[T] = B(g, T)
    <3> SUFFICES ASSUME NEW T \in SUBSET S, Cardinality(T) <= n + 1, T # {}
                 PROVE  g[T] = B(g, T)
      BY <2>3
    <3>1. g[T \ {Pick(T)}] = f[T \ {Pick(T)}]
      BY <1>1, <1>2, <1>4, <2>2
    <3> QED BY <2>3, <3>1
  <2> HIDE DEF B
  <2> QED BY <1>4, <2>4
<1> HIDE DEF I
<1>5. Cardinality(S) \in I
  BY <1>1, <1>3, <1>4, NatInSet
<1>6. PICK f : \A T \in SUBSET S : f[T] = B(f, T)
  <2>1. \A T \in SUBSET S : Cardinality(T) <= Cardinality(S)
    BY FS_Subset
  <2> QED BY <1>5, <2>1 DEF I
<1> DEFINE k == [T \in SUBSET S |-> f[T]]
<1>7. \A T \in SUBSET S : k[T] = B(k, T)
  BY <1>2, <1>6
<1>8. k = [T \in SUBSET S |-> B(k, T)]
  <2>1. DOMAIN k = SUBSET S
    OBVIOUS
  <2>2. k = [T \in SUBSET S |-> k[T]]
    OBVIOUS
  <2> HIDE DEF k
  <2> QED BY <1>7, <2>2
<1> QED BY <1>8 DEF IsSum

\* What a sum is of: any function for a larger set has it too
LEMMA SumStep ==
  ASSUME NEW S, IsFiniteSet(S), S # {}
  PROVE  Summed(S) = Pick(S).value + Summed(S \ {Pick(S)})
<1> DEFINE A == {T \in SUBSET S :
                   /\ T # {} => Summed(T) = Pick(T).value + Summed(T \ {Pick(T)})
                   /\ \A U \in SUBSET S : \A f : T \subseteq U /\ IsSum(f, U) => f[T] = Summed(T)}
<1>1. \A T \in SUBSET S : IsFiniteSet(T)
  BY FS_Subset
<1>2. ASSUME NEW T \in SUBSET S, T = {} \/ \A x \in T : T \ {x} \in A
      PROVE  T \in A
  <2>1. ASSUME NEW U \in SUBSET S, NEW f, T \subseteq U, IsSum(f, U)
        PROVE  f[T] = IF T = {} THEN 0 ELSE Pick(T).value + Summed(T \ {Pick(T)})
    <3>1. f[T] = IF T = {} THEN 0 ELSE Pick(T).value + f[T \ {Pick(T)}]
      BY <2>1 DEF IsSum
    <3>2. T # {} => f[T \ {Pick(T)}] = Summed(T \ {Pick(T)})
      BY <1>2, <2>1, PickIn
    <3> QED BY <3>1, <3>2
  <2>2. IsSum(CHOOSE f : IsSum(f, T), T)
    BY <1>1, SummedFunction
  <2>3. Summed(T) = IF T = {} THEN 0 ELSE Pick(T).value + Summed(T \ {Pick(T)})
    BY <2>1, <2>2, SummedByFunction
  <2> QED BY <2>1, <2>3
<1> HIDE DEF A
<1>3. SUBSET S \subseteq A
  BY <1>2, PartsInSet
<1> QED BY <1>3 DEF A

\* Nothing sums to 0.
LEMMA SumEmpty == Summed({}) = 0
<1>1. IsSum(CHOOSE f : IsSum(f, {}), {})
  BY SummedFunction, FS_EmptySet
<1> QED BY <1>1, SummedByFunction DEF IsSum

\* A finite set of records with a number.
Valued(S) == IsFiniteSet(S) /\ \A c \in S : c.value \in Int

\* A sum of numbers is a number.
LEMMA SumType ==
  ASSUME NEW S, Valued(S)
  PROVE  Summed(S) \in Int
<1> DEFINE A == {T \in SUBSET S : Summed(T) \in Int}
<1>1. IsFiniteSet(S) /\ \A T \in SUBSET S : IsFiniteSet(T)
  BY FS_Subset DEF Valued
<1>2. {} \in A
  BY SumEmpty
<1>3. ASSUME NEW T \in SUBSET S, T # {}, \A x \in T : T \ {x} \in A PROVE T \in A
  <2>1. Pick(T) \in T /\ Summed(T) = Pick(T).value + Summed(T \ {Pick(T)})
    BY <1>1, <1>3, SumStep, PickIn
  <2>2. Pick(T).value \in Int /\ Summed(T \ {Pick(T)}) \in Int
    BY <1>3, <2>1 DEF Valued
  <2> QED BY <2>1, <2>2
<1> HIDE DEF A
<1>4. S \in A
  BY <1>1, <1>2, <1>3, PartsInSet
<1> QED BY <1>4 DEF A

\* One more element adds its value, whichever CHOOSE would take first.
LEMMA SumAdd ==
  ASSUME NEW S, Valued(S), NEW c, c.value \in Int, c \notin S
  PROVE  Summed(S \cup {c}) = Summed(S) + c.value
<1> DEFINE A == {T \in SUBSET (S \cup {c}) : \A x \in T :
                   Summed(T) = Summed(T \ {x}) + x.value}
<1>1. /\ IsFiniteSet(S \cup {c})
      /\ \A T \in SUBSET (S \cup {c}) : Valued(T) /\ IsFiniteSet(T)
  BY FS_AddElement, FS_Subset DEF Valued
<1>2. {} \in A
  OBVIOUS
<1>3. ASSUME NEW T \in SUBSET (S \cup {c}), T # {}, \A x \in T : T \ {x} \in A
      PROVE  T \in A
  <2> SUFFICES ASSUME NEW x \in T PROVE Summed(T) = Summed(T \ {x}) + x.value
    OBVIOUS
  <2> DEFINE p == Pick(T)
  <2>1. p \in T /\ Summed(T) = p.value + Summed(T \ {p})
    BY <1>1, <1>3, SumStep, PickIn
  <2> HIDE DEF p
  <2>2. /\ T \ {p} \in SUBSET (S \cup {c}) /\ T \ {x} \in SUBSET (S \cup {c})
        /\ (T \ {p}) \ {x} \in SUBSET (S \cup {c})
    OBVIOUS
  <2>3. /\ Summed(T \ {p}) \in Int /\ Summed(T \ {x}) \in Int
        /\ Summed((T \ {p}) \ {x}) \in Int /\ p.value \in Int /\ x.value \in Int
    <3>1. p.value \in Int /\ x.value \in Int
      BY <1>1, <2>1 DEF Valued
    <3> QED BY <1>1, <2>2, <3>1, SumType
  <2>4. CASE x = p
    BY <2>1, <2>3, <2>4
  <2>5. CASE x # p
    <3>1. Summed(T \ {p}) = Summed((T \ {p}) \ {x}) + x.value
      BY <1>3, <2>1, <2>5
    <3>2. Summed(T \ {x}) = Summed((T \ {x}) \ {p}) + p.value
      BY <1>3, <2>1, <2>5
    <3>3. Summed((T \ {x}) \ {p}) = Summed((T \ {p}) \ {x})
      <4>1. (T \ {x}) \ {p} = (T \ {p}) \ {x}
        OBVIOUS
      <4> QED BY <4>1, Zenon
    <3> QED BY <2>1, <2>3, <3>1, <3>2, <3>3
  <2> QED BY <2>4, <2>5
<1> HIDE DEF A
<1>4. S \cup {c} \in A
  <2> DEFINE W == S \cup {c}
  <2>1. IsFiniteSet(W)
    BY <1>1
  <2>2. \A T \in SUBSET W : T # {} /\ (\A x \in T : T \ {x} \in A) => T \in A
    BY <1>3
  <2> HIDE DEF W
  <2>3. SUBSET W \subseteq A
    BY <1>2, <2>1, <2>2, PartsInSet
  <2> QED BY <2>3 DEF W
<1>5. (S \cup {c}) \ {c} = S
  OBVIOUS
<1> QED BY <1>4, <1>5 DEF A

\* One element less takes its value away.
LEMMA SumRemove ==
  ASSUME NEW S, Valued(S), NEW c \in S
  PROVE  Summed(S \ {c}) = Summed(S) - c.value
<1>1. Valued(S \ {c}) /\ c.value \in Int /\ c \notin S \ {c}
  BY FS_RemoveElement DEF Valued
<1>2. Summed((S \ {c}) \cup {c}) = Summed(S \ {c}) + c.value
  BY <1>1, SumAdd
<1>3. Summed((S \ {c}) \cup {c}) = Summed(S)
  <2>1. (S \ {c}) \cup {c} = S
    OBVIOUS
  <2> QED BY <2>1, Zenon
<1> QED BY <1>1, <1>2, <1>3, SumType

-----------------------------------------------------------------------------
(* The total of the conditions of some types.                              *)

\* What a condition counts for in a total.
Value(c, types) == IF c.type \in types THEN c.value ELSE 0

\* The total of some types, with one condition more or less.
LEMMA TotalFacts ==
  ASSUME NEW types
  PROVE  /\ Total({}, types) = 0
         /\ \A C : Valued(C) =>
              /\ Total(C, types) \in Int
              /\ \A c : c \notin C /\ c.value \in Int =>
                   Total(C \cup {c}, types) = Total(C, types) + Value(c, types)
              /\ \A c \in C : Total(C \ {c}, types) = Total(C, types) - Value(c, types)
<1> DEFINE Of(C) == {c \in C : c.type \in types}
<1>1. \A C : Total(C, types) = Summed(Of(C))
  BY DEF Total, Summed
<1>2. Total({}, types) = 0
  <2>1. Of({}) = {}
    OBVIOUS
  <2>2. Summed(Of({})) = Summed({})
    BY <2>1, Zenon
  <2> QED BY <1>1, <2>2, SumEmpty
<1>3. ASSUME NEW C, Valued(C)
      PROVE  Valued(Of(C)) /\ Total(C, types) \in Int
  <2>1. Of(C) \in SUBSET C
    OBVIOUS
  <2>2. Valued(Of(C))
    BY <1>3, <2>1, FS_Subset DEF Valued
  <2> QED BY <1>1, <2>2, SumType
<1>4. ASSUME NEW C, Valued(C), NEW c, c \notin C, c.value \in Int
      PROVE  Total(C \cup {c}, types) = Total(C, types) + Value(c, types)
  <2>1. CASE c.type \in types
    <3>1. Of(C \cup {c}) = Of(C) \cup {c} /\ c \notin Of(C)
      BY <1>4, <2>1
    <3>2. Summed(Of(C) \cup {c}) = Summed(Of(C)) + c.value
      BY <1>3, <1>4, <3>1, SumAdd
    <3>3. Summed(Of(C \cup {c})) = Summed(Of(C) \cup {c})
      BY <3>1, Zenon
    <3> HIDE DEF Of
    <3> QED BY <1>1, <2>1, <3>2, <3>3 DEF Value
  <2>2. CASE c.type \notin types
    <3>1. Of(C \cup {c}) = Of(C)
      BY <2>2
    <3>2. Summed(Of(C \cup {c})) = Summed(Of(C))
      BY <3>1, Zenon
    <3>3. Total(C, types) \in Int
      BY <1>3, <1>4
    <3> HIDE DEF Of
    <3> QED BY <1>1, <2>2, <3>2, <3>3 DEF Value
  <2> QED BY <2>1, <2>2
<1>5. ASSUME NEW C, Valued(C), NEW c \in C
      PROVE  Total(C \ {c}, types) = Total(C, types) - Value(c, types)
  <2>1. Valued(C \ {c}) /\ c.value \in Int /\ c \notin C \ {c}
    BY <1>5, FS_RemoveElement DEF Valued
  <2>2. Total((C \ {c}) \cup {c}, types) = Total(C \ {c}, types) + Value(c, types)
    BY <1>4, <2>1
  <2>3. Total((C \ {c}) \cup {c}, types) = Total(C, types)
    <3>1. (C \ {c}) \cup {c} = C
      OBVIOUS
    <3> QED BY <3>1, Zenon
  <2>4. Value(c, types) \in Int
    BY <2>1 DEF Value
  <2>5. Total(C, types) \in Int /\ Total(C \ {c}, types) \in Int
    BY <1>3, <1>5, <2>1
  <2> QED BY <2>2, <2>3, <2>4, <2>5
<1> QED BY <1>2, <1>3, <1>4, <1>5

-----------------------------------------------------------------------------
(* A creature that is what its list of conditions says.                    *)

\* The conditions there are.
Condition == [type : Types, id : Ids, left : {Forever} \cup Nat, value : Int,
              disables : BOOLEAN, over : BOOLEAN, owner : Players]

\* The effects there are.
Effect == [speed : Int, stats : Int, defense : BOOLEAN, visible : BOOLEAN,
           drunk : Int, outfit : Int, rate : Int]

\* What is put off.
Event == [op : {"add"}, condition : Condition] \cup [op : {"remove"}, type : Types]

\* Conditions of one type and id, of which a list has one.
SameKey(c, d) == c.type = d.type /\ c.id = d.id

\* A list, as addCondition keeps it
Listable(C) ==
  /\ C \subseteq Condition /\ IsFiniteSet(C)
  /\ \A c \in C : ~c.over
  /\ \A c, d \in C : SameKey(c, d) => c = d

\* The list has a condition of the type.
Has(C, type) == \E c \in C : c.type = type

\* EffectsExact of one list and what was made of the creature
Exact(C, e) ==
  /\ e.speed = Total(C, SpeedTypes)
  /\ e.stats = Total(C, {"attributes"})
  /\ e.visible <=> ~Has(C, "invisible")
  /\ e.drunk # 0 => Has(C, "drunk")
  /\ e.outfit # 0 => Has(C, "outfit")
  /\ ~e.defense => \E c \in C : c.type = "attributes" /\ c.disables

\* The creature is what its list says, between the steps of an operation too.
Right(s) ==
  /\ s \in [list : SUBSET Condition, eff : Effect, later : Seq(Event)]
  /\ Listable(s.list)
  /\ Exact(s.list, s.eff)

\* The parts of a condition.
LEMMA ConditionFacts ==
  ASSUME NEW c \in Condition
  PROVE  /\ c.type \in Types /\ c.id \in Ids /\ c.left \in {Forever} \cup Nat
         /\ c.value \in Int /\ c.disables \in BOOLEAN /\ c.over \in BOOLEAN
         /\ c.owner \in Players
BY DEF Condition

\* A list has numbers to sum, and its parts are lists.
LEMMA ListableFacts ==
  ASSUME NEW C, Listable(C)
  PROVE  /\ Valued(C)
         /\ \A D \in SUBSET C : Listable(D)
BY FS_Subset, ConditionFacts DEF Listable, Valued

\* The creature of an operation, put together.
State(C, e, l) == [list |-> C, eff |-> e, later |-> l]

\* The parts of a creature that is right.
LEMMA RightParts ==
  ASSUME NEW s, Right(s)
  PROVE  /\ s = State(s.list, s.eff, s.later)
         /\ s.list \in SUBSET Condition /\ Listable(s.list) /\ IsFiniteSet(s.list)
         /\ s.eff \in Effect /\ Exact(s.list, s.eff) /\ s.later \in Seq(Event)
         /\ Valued(s.list)
BY ListableFacts DEF Right, Listable, State

\* A creature put together from a list and its exact effects is right.
LEMMA RightMade ==
  ASSUME NEW C, Listable(C), NEW e \in Effect, Exact(C, e), NEW l \in Seq(Event)
  PROVE  Right(State(C, e, l))
BY DEF Right, Listable, State

\* What the end of c makes of the effects e, when L is left of the list
EndEffect(e, c, L) ==
  CASE c.type \in SpeedTypes -> SpeedEnd(e, c)
    [] c.type = "attributes" -> AttributesEnd(e, c)
    [] c.type = "invisible"  -> InvisibleEnd(e, L)
    [] c.type = "outfit"     -> OutfitEnd(e)
    [] c.type = "drunk"      -> DrunkEnd(e)

\* Ended changes the effects alone.
LEMMA EndedEffect ==
  \A r, c : Ended(r, c) = [r EXCEPT !.eff = EndEffect(r.eff, c, r.list)]
BY DEF Ended, EndEffect

\* Erase takes the condition from the list and ends it.
LEMMA ErasedState ==
  ASSUME NEW C, NEW e, NEW l, NEW c
  PROVE  Erase(State(C, e, l), c) = State(C \ {c}, EndEffect(e, c, C \ {c}), l)
<1> DEFINE r == State(C \ {c}, e, l)
<1>1. [State(C, e, l) EXCEPT !.list = @ \ {c}] = r
  BY DEF State
<1>2. r.list = C \ {c} /\ r.eff = e
  BY DEF State
<1>3. \A x : [r EXCEPT !.eff = x] = State(C \ {c}, x, l)
  BY DEF State
<1> HIDE DEF r
<1>4. Ended(r, c) = State(C \ {c}, EndEffect(r.eff, c, r.list), l)
  BY <1>3, EndedEffect
<1> QED BY <1>1, <1>2, <1>4, Zenon DEF Erase

\* F is the effects e without what c did
Undone(f, e, c, L) ==
  /\ f \in Effect
  /\ f.speed = e.speed - Value(c, SpeedTypes)
  /\ f.stats = e.stats - Value(c, {"attributes"})
  /\ f.visible <=> IF c.type = "invisible" THEN ~Has(L, "invisible") ELSE e.visible
  /\ f.drunk # 0 => e.drunk # 0 /\ c.type # "drunk"
  /\ f.outfit # 0 => e.outfit # 0 /\ c.type # "outfit"
  /\ ~f.defense => ~e.defense /\ ~(c.type = "attributes" /\ c.disables)

\* EndCondition of each kind undoes what the condition did.
LEMMA EndEffectUndoes ==
  ASSUME NEW e \in Effect, NEW c \in Condition, NEW L
  PROVE  Undone(EndEffect(e, c, L), e, c, L)
<1>1. c.type \in Types /\ c.value \in Int /\ c.disables \in BOOLEAN
  BY ConditionFacts
<1>2. CASE c.type \in SpeedTypes
  <2>1. EndEffect(e, c, L) = SpeedEnd(e, c)
    BY <1>2 DEF EndEffect, SpeedTypes
  <2>2. Value(c, SpeedTypes) = c.value /\ Value(c, {"attributes"}) = 0
    BY <1>2 DEF Value, SpeedTypes
  <2>3. Undone(SpeedEnd(e, c), e, c, L)
    BY <1>1, <1>2, <2>2 DEF SpeedEnd, Undone, Effect, SpeedTypes
  <2> QED BY <2>1, <2>3
<1>3. CASE c.type = "attributes"
  <2>1. EndEffect(e, c, L) = AttributesEnd(e, c)
    BY <1>3 DEF EndEffect, SpeedTypes
  <2>2. Value(c, SpeedTypes) = 0 /\ Value(c, {"attributes"}) = c.value
    BY <1>3 DEF Value, SpeedTypes
  <2>3. Undone(AttributesEnd(e, c), e, c, L)
    <3> DEFINE b == e.defense \/ c.disables
               n == e.stats - c.value
               f == [e EXCEPT !.stats = n, !.defense = b, !.rate = 0]
    <3>1. AttributesEnd(e, c) = f
      BY DEF AttributesEnd
    <3>2. b \in BOOLEAN /\ (~b => ~e.defense /\ ~c.disables)
      OBVIOUS
    <3>3. n \in Int
      BY <1>1 DEF Effect
    <3> HIDE DEF b, n
    <3>4. /\ f \in Effect
          /\ f.speed = e.speed /\ f.stats = n /\ f.defense = b
          /\ f.visible = e.visible /\ f.drunk = e.drunk /\ f.outfit = e.outfit
      <4> DEFINE g == [e EXCEPT !.stats = n]
                 h == [g EXCEPT !.defense = b]
      <4>1. /\ g \in Effect
            /\ g.speed = e.speed /\ g.stats = n
            /\ g.visible = e.visible /\ g.drunk = e.drunk /\ g.outfit = e.outfit
        BY <3>3 DEF Effect
      <4> HIDE DEF g
      <4>2. /\ h \in Effect
            /\ h.speed = g.speed /\ h.stats = g.stats /\ h.defense = b
            /\ h.visible = g.visible /\ h.drunk = g.drunk /\ h.outfit = g.outfit
        BY <3>2, <4>1 DEF Effect
      <4>3. f = [h EXCEPT !.rate = 0]
        BY DEF g
      <4> HIDE DEF h, f
      <4> QED BY <4>1, <4>2, <4>3 DEF Effect
    <3> HIDE DEF f
    <3>5. Undone(f, e, c, L)
      BY <1>1, <1>3, <2>2, <3>2, <3>4 DEF Undone, Effect, n
    <3> QED BY <3>1, <3>5, Zenon
  <2> QED BY <2>1, <2>3
<1>4. CASE c.type = "invisible"
  <2>1. EndEffect(e, c, L) = InvisibleEnd(e, L)
    BY <1>4 DEF EndEffect, SpeedTypes
  <2>2. Value(c, SpeedTypes) = 0 /\ Value(c, {"attributes"}) = 0
    BY <1>4 DEF Value, SpeedTypes
  <2>3. Undone(InvisibleEnd(e, L), e, c, L)
    <3> DEFINE b == ~Has(L, "invisible")
               f == [e EXCEPT !.visible = b]
    <3>1. InvisibleEnd(e, L) = f
      BY DEF InvisibleEnd, Has
    <3>2. b \in BOOLEAN
      OBVIOUS
    <3> HIDE DEF b
    <3>3. /\ f \in Effect
          /\ f.speed = e.speed /\ f.stats = e.stats /\ f.defense = e.defense
          /\ f.visible = b /\ f.drunk = e.drunk /\ f.outfit = e.outfit
      BY <3>2 DEF Effect
    <3> HIDE DEF f
    <3>5. Undone(f, e, c, L)
      BY <1>4, <2>2, <3>3 DEF Undone, Effect, b
    <3> QED BY <3>1, <3>5, Zenon
  <2> QED BY <2>1, <2>3
<1>5. CASE c.type = "outfit"
  <2>1. EndEffect(e, c, L) = OutfitEnd(e)
    BY <1>5 DEF EndEffect, SpeedTypes
  <2>2. Value(c, SpeedTypes) = 0 /\ Value(c, {"attributes"}) = 0
    BY <1>5 DEF Value, SpeedTypes
  <2>3. Undone(OutfitEnd(e), e, c, L)
    BY <1>1, <1>5, <2>2 DEF OutfitEnd, Undone, Effect
  <2> QED BY <2>1, <2>3
<1>6. CASE c.type = "drunk"
  <2>1. EndEffect(e, c, L) = DrunkEnd(e)
    BY <1>6 DEF EndEffect, SpeedTypes
  <2>2. Value(c, SpeedTypes) = 0 /\ Value(c, {"attributes"}) = 0
    BY <1>6 DEF Value, SpeedTypes
  <2>3. Undone(DrunkEnd(e), e, c, L)
    BY <1>1, <1>6, <2>2 DEF DrunkEnd, Undone, Effect
  <2> QED BY <2>1, <2>3
<1> QED BY <1>1, <1>2, <1>3, <1>4, <1>5, <1>6 DEF Types

\* The condition c leaves the list and ends.
LEMMA EraseRight ==
  ASSUME NEW s, Right(s), NEW c \in s.list
  PROVE  /\ Right(Erase(s, c))
         /\ Erase(s, c).list = s.list \ {c}
         /\ Erase(s, c).later = s.later
<1> DEFINE L == s.list \ {c}
           e == s.eff
           f == EndEffect(e, c, L)
<1>1. /\ Listable(s.list) /\ Listable(L) /\ c \in Condition
      /\ e \in Effect /\ Exact(s.list, e) /\ s.later \in Seq(Event)
      /\ Valued(s.list)
  BY RightParts, ListableFacts DEF Listable
<1>2. c.type \in Types /\ c.disables \in BOOLEAN
  BY <1>1, ConditionFacts
<1>3. \A types : Total(L, types) = Total(s.list, types) - Value(c, types)
  BY <1>1, TotalFacts
<1>4. Erase(s, c) = State(L, f, s.later)
  <2>1. s = State(s.list, e, s.later)
    BY RightParts
  <2>2. Erase(State(s.list, e, s.later), c) = State(L, f, s.later)
    BY ErasedState
  <2> HIDE DEF e, L, f
  <2> QED BY <2>1, <2>2, Zenon
<1>5. Undone(f, e, c, L)
  BY <1>1, EndEffectUndoes
<1> HIDE DEF f
<1>6. Exact(L, f)
  <2>1. f.speed = Total(L, SpeedTypes) /\ f.stats = Total(L, {"attributes"})
    BY <1>1, <1>3, <1>5 DEF Exact, Undone
  <2>2. f.visible <=> ~Has(L, "invisible")
    BY <1>1, <1>5 DEF Exact, Undone, Has
  <2>3. /\ f.drunk # 0 => Has(L, "drunk")
        /\ f.outfit # 0 => Has(L, "outfit")
    BY <1>1, <1>5 DEF Exact, Undone, Has
  <2>4. ~f.defense => \E d \in L : d.type = "attributes" /\ d.disables
    BY <1>1, <1>5 DEF Exact, Undone
  <2> QED BY <2>1, <2>2, <2>3, <2>4 DEF Exact
<1>7. f \in Effect
  BY <1>5 DEF Undone
<1>8. Right(State(L, f, s.later))
  BY <1>1, <1>6, <1>7, RightMade
<1>9. State(L, f, s.later).list = L /\ State(L, f, s.later).later = s.later
  BY DEF State
<1> QED BY <1>4, <1>8, <1>9, Zenon

-----------------------------------------------------------------------------
(* Several conditions leave the list: the fold of EraseAll.                *)

\* The recursive function of the fold over the conditions C.
IsErased(f, s, C) ==
  f = [D \in SUBSET C |-> IF D = {} THEN s ELSE Erase(f[D \ {Pick(D)}], Pick(D))]

\* EraseAll is what that function gives for the set.
LEMMA EraseAllByFunction ==
  ASSUME NEW s, NEW C
  PROVE  EraseAll(s, C) = (CHOOSE f : IsErased(f, s, C))[C]
BY DEF EraseAll, FoldSet, MapThenFoldSet, IsErased, Pick

\* The function has a value for every part of a finite set.
LEMMA ErasedFunction ==
  ASSUME NEW s, NEW C, IsFiniteSet(C)
  PROVE  \E f : IsErased(f, s, C)
<1> DEFINE B(h, D) == IF D = {} THEN s ELSE Erase(h[D \ {Pick(D)}], Pick(D))
           I == {n \in Nat : \E h : \A D \in SUBSET C : Cardinality(D) <= n => h[D] = B(h, D)}
<1>1. \A D \in SUBSET C : IsFiniteSet(D) /\ Cardinality(D) \in Nat
  BY FS_Subset, FS_CardinalityType
<1>2. \A D \in SUBSET C : D # {} =>
        /\ D \ {Pick(D)} \in SUBSET C
        /\ Cardinality(D \ {Pick(D)}) = Cardinality(D) - 1
  BY <1>1, PickIn, FS_RemoveElement
<1>3. 0 \in I
  <2> DEFINE f == [D \in SUBSET C |-> s]
  <2>1. \A D \in SUBSET C : Cardinality(D) <= 0 => f[D] = B(f, D)
    BY <1>1, FS_EmptySet
  <2> HIDE DEF f
  <2> QED BY <2>1
<1>4. ASSUME NEW n \in Nat, n \in I PROVE n + 1 \in I
  <2>1. PICK f : \A D \in SUBSET C : Cardinality(D) <= n => f[D] = B(f, D)
    BY <1>4
  <2> DEFINE g == [D \in SUBSET C |-> B(f, D)]
  <2>2. \A D \in SUBSET C : Cardinality(D) <= n => g[D] = f[D]
    BY <2>1
  <2>3. \A D \in SUBSET C : g[D] = B(f, D)
    OBVIOUS
  <2> HIDE DEF g
  <2>4. \A D \in SUBSET C : Cardinality(D) <= n + 1 => g[D] = B(g, D)
    <3> SUFFICES ASSUME NEW D \in SUBSET C, Cardinality(D) <= n + 1, D # {}
                 PROVE  g[D] = B(g, D)
      BY <2>3
    <3>1. g[D \ {Pick(D)}] = f[D \ {Pick(D)}]
      BY <1>1, <1>2, <1>4, <2>2
    <3> QED BY <2>3, <3>1
  <2> HIDE DEF B
  <2> QED BY <1>4, <2>4
<1> HIDE DEF I
<1>5. Cardinality(C) \in I
  BY <1>1, <1>3, <1>4, NatInSet
<1>6. PICK f : \A D \in SUBSET C : f[D] = B(f, D)
  <2>1. \A D \in SUBSET C : Cardinality(D) <= Cardinality(C)
    BY FS_Subset
  <2> QED BY <1>5, <2>1 DEF I
<1> DEFINE k == [D \in SUBSET C |-> f[D]]
<1>7. \A D \in SUBSET C : k[D] = B(k, D)
  BY <1>2, <1>6
<1>8. k = [D \in SUBSET C |-> B(k, D)]
  <2>1. k = [D \in SUBSET C |-> k[D]]
    OBVIOUS
  <2> HIDE DEF k
  <2> QED BY <1>7, <2>1
<1> QED BY <1>8 DEF IsErased

\* Any conditions of the list leave it and end, in whichever order.
LEMMA EraseAllRight ==
  ASSUME NEW s, Right(s), NEW C \in SUBSET s.list
  PROVE  /\ Right(EraseAll(s, C))
         /\ EraseAll(s, C).list = s.list \ C
         /\ EraseAll(s, C).later = s.later
<1> DEFINE f == CHOOSE f : IsErased(f, s, C)
           P(D) == Right(f[D]) /\ f[D].list = s.list \ D /\ f[D].later = s.later
           A == {D \in SUBSET C : P(D)}
<1>1. IsFiniteSet(C)
  BY RightParts, FS_Subset
<1>2. IsErased(f, s, C)
  BY <1>1, ErasedFunction
<1> HIDE DEF f
<1>3. {} \in A
  <2>1. f[{}] = s
    BY <1>2 DEF IsErased
  <2> QED BY <2>1
<1>4. ASSUME NEW D \in SUBSET C, D # {}, \A x \in D : D \ {x} \in A
      PROVE  D \in A
  <2> DEFINE c == Pick(D)
             t == f[D \ {c}]
  <2>1. f[D] = Erase(t, c)
    BY <1>2, <1>4 DEF IsErased
  <2>2. c \in D
    BY <1>4, PickIn
  <2>3. Right(t) /\ t.list = s.list \ (D \ {c}) /\ t.later = s.later
    BY <1>4, <2>2
  <2> HIDE DEF c, t
  <2>4. c \in t.list /\ t.list \ {c} = s.list \ D
    BY <2>2, <2>3
  <2>5. /\ Right(Erase(t, c)) /\ Erase(t, c).list = t.list \ {c}
        /\ Erase(t, c).later = t.later
    BY <2>3, <2>4, EraseRight
  <2>6. P(D)
    BY <2>1, <2>3, <2>4, <2>5
  <2> QED BY <2>6
<1> HIDE DEF A
<1>5. C \in A
  BY <1>1, <1>3, <1>4, PartsInSet
<1> QED BY <1>5, EraseAllByFunction DEF A, f

-----------------------------------------------------------------------------
(* A condition starts.                                                     *)

\* What the start of c makes of the effects e.
StartEffect(e, c) ==
  CASE c.type \in SpeedTypes -> SpeedStart(e, c)
    [] c.type = "attributes" -> AttributesStart(e, c)
    [] c.type = "invisible"  -> InvisibleStart(e)
    [] c.type = "outfit"     -> OutfitStart(e, c)
    [] c.type = "drunk"      -> DrunkStart(e, c)

\* Started changes the effects alone.
LEMMA StartedEffect ==
  \A r, c : Started(r, c) = [r EXCEPT !.eff = StartEffect(r.eff, c)]
BY DEF Started, StartEffect

\* A condition is listed and started.
LEMMA StartedState ==
  ASSUME NEW C, NEW e, NEW l, NEW c
  PROVE  Started([State(C, e, l) EXCEPT !.list = @ \cup {c}], c)
           = State(C \cup {c}, StartEffect(e, c), l)
<1> DEFINE r == State(C \cup {c}, e, l)
<1>1. [State(C, e, l) EXCEPT !.list = @ \cup {c}] = r
  BY DEF State
<1>2. r.eff = e
  BY DEF State
<1>3. \A x : [r EXCEPT !.eff = x] = State(C \cup {c}, x, l)
  BY DEF State
<1> HIDE DEF r
<1>4. Started(r, c) = State(C \cup {c}, StartEffect(r.eff, c), l)
  BY <1>3, StartedEffect
<1> QED BY <1>1, <1>2, <1>4, Zenon

\* F is the effects e with what c does
Given(f, e, c) ==
  /\ f \in Effect
  /\ f.speed = e.speed + Value(c, SpeedTypes)
  /\ f.stats = e.stats + Value(c, {"attributes"})
  /\ f.visible <=> e.visible /\ c.type # "invisible"
  /\ f.drunk # 0 => e.drunk # 0 \/ c.type = "drunk"
  /\ f.outfit # 0 => e.outfit # 0 \/ c.type = "outfit"
  /\ ~f.defense => ~e.defense \/ (c.type = "attributes" /\ c.disables)

\* StartCondition of each kind gives what the list will say.
LEMMA StartEffectGives ==
  ASSUME NEW e \in Effect, NEW c \in Condition
  PROVE  Given(StartEffect(e, c), e, c)
<1>1. c.type \in Types /\ c.value \in Int /\ c.disables \in BOOLEAN
  BY ConditionFacts
<1>2. CASE c.type \in SpeedTypes
  <2>1. StartEffect(e, c) = SpeedStart(e, c)
    BY <1>2 DEF StartEffect, SpeedTypes
  <2>2. Value(c, SpeedTypes) = c.value /\ Value(c, {"attributes"}) = 0
    BY <1>2 DEF Value, SpeedTypes
  <2>3. Given(SpeedStart(e, c), e, c)
    BY <1>1, <1>2, <2>2 DEF SpeedStart, Given, Effect, SpeedTypes
  <2> QED BY <2>1, <2>3
<1>3. CASE c.type = "attributes"
  <2>1. StartEffect(e, c) = AttributesStart(e, c)
    BY <1>3 DEF StartEffect, SpeedTypes
  <2>2. Value(c, SpeedTypes) = 0 /\ Value(c, {"attributes"}) = c.value
    BY <1>3 DEF Value, SpeedTypes
  <2>3. Given(AttributesStart(e, c), e, c)
    <3> DEFINE n == e.stats + c.value
               b == ~c.disables
               g == [e EXCEPT !.stats = n]
               h == [g EXCEPT !.defense = b]
               f == [h EXCEPT !.rate = 0]
    <3>1. AttributesStart(e, c) = f
      BY DEF AttributesStart
    <3>2. n \in Int /\ b \in BOOLEAN /\ (~b => c.disables)
      BY <1>1 DEF Effect
    <3> HIDE DEF n, b
    <3>3. /\ g \in Effect
          /\ g.speed = e.speed /\ g.stats = n
          /\ g.visible = e.visible /\ g.drunk = e.drunk /\ g.outfit = e.outfit
      BY <3>2 DEF Effect
    <3> HIDE DEF g
    <3>4. /\ h \in Effect
          /\ h.speed = g.speed /\ h.stats = g.stats /\ h.defense = b
          /\ h.visible = g.visible /\ h.drunk = g.drunk /\ h.outfit = g.outfit
      BY <3>2, <3>3 DEF Effect
    <3> HIDE DEF h
    <3>5. /\ f \in Effect
          /\ f.speed = e.speed /\ f.stats = n /\ f.defense = b
          /\ f.visible = e.visible /\ f.drunk = e.drunk /\ f.outfit = e.outfit
      BY <3>3, <3>4 DEF Effect
    <3> HIDE DEF f
    <3>6. Given(f, e, c)
      BY <1>1, <1>3, <2>2, <3>2, <3>5 DEF Given, Effect, n
    <3> QED BY <3>1, <3>6, Zenon
  <2> QED BY <2>1, <2>3
<1>4. CASE c.type = "invisible"
  <2>1. StartEffect(e, c) = InvisibleStart(e)
    BY <1>4 DEF StartEffect, SpeedTypes
  <2>2. Value(c, SpeedTypes) = 0 /\ Value(c, {"attributes"}) = 0
    BY <1>4 DEF Value, SpeedTypes
  <2>3. Given(InvisibleStart(e), e, c)
    <3> DEFINE f == [e EXCEPT !.visible = FALSE]
    <3>1. InvisibleStart(e) = f
      BY DEF InvisibleStart
    <3>2. /\ f \in Effect /\ e.speed \in Int /\ e.stats \in Int
          /\ f.speed = e.speed /\ f.stats = e.stats /\ f.defense = e.defense
          /\ ~f.visible /\ f.drunk = e.drunk /\ f.outfit = e.outfit
      BY DEF Effect
    <3> HIDE DEF f
    <3>3. Given(f, e, c)
      BY <1>4, <2>2, <3>2 DEF Given
    <3> QED BY <3>1, <3>3, Zenon
  <2> QED BY <2>1, <2>3
<1>5. CASE c.type = "outfit"
  <2>1. StartEffect(e, c) = OutfitStart(e, c)
    BY <1>5 DEF StartEffect, SpeedTypes
  <2>2. Value(c, SpeedTypes) = 0 /\ Value(c, {"attributes"}) = 0
    BY <1>5 DEF Value, SpeedTypes
  <2>3. Given(OutfitStart(e, c), e, c)
    BY <1>1, <1>5, <2>2 DEF OutfitStart, Given, Effect
  <2> QED BY <2>1, <2>3
<1>6. CASE c.type = "drunk"
  <2>1. StartEffect(e, c) = DrunkStart(e, c)
    BY <1>6 DEF StartEffect, SpeedTypes
  <2>2. Value(c, SpeedTypes) = 0 /\ Value(c, {"attributes"}) = 0
    BY <1>6 DEF Value, SpeedTypes
  <2>3. Given(DrunkStart(e, c), e, c)
    BY <1>1, <1>6, <2>2 DEF DrunkStart, Given, Effect
  <2> QED BY <2>1, <2>3
<1> QED BY <1>1, <1>2, <1>3, <1>4, <1>5, <1>6 DEF Types

\* A condition of a new key is listed and starts.
LEMMA StartRight ==
  ASSUME NEW s, Right(s), NEW c \in Condition, ~c.over,
         \A d \in s.list : ~SameKey(d, c)
  PROVE  Right(Started([s EXCEPT !.list = @ \cup {c}], c))
<1> DEFINE L == s.list \cup {c}
           e == s.eff
           f == StartEffect(e, c)
<1>1. /\ Listable(s.list) /\ e \in Effect /\ Exact(s.list, e) /\ s.later \in Seq(Event)
      /\ Valued(s.list) /\ IsFiniteSet(s.list)
  BY RightParts
<1>2. c.type \in Types /\ c.disables \in BOOLEAN /\ c.value \in Int /\ c \notin s.list
  BY ConditionFacts DEF SameKey
<1>3. \A types : Total(L, types) = Total(s.list, types) + Value(c, types)
  BY <1>1, <1>2, TotalFacts
<1>4. Started([s EXCEPT !.list = @ \cup {c}], c) = State(L, f, s.later)
  <2>1. s = State(s.list, e, s.later)
    BY RightParts
  <2>2. Started([State(s.list, e, s.later) EXCEPT !.list = @ \cup {c}], c)
          = State(L, f, s.later)
    BY StartedState
  <2>3. State(s.list, e, s.later).list = s.list
    BY DEF State
  <2> HIDE DEF e, f
  <2> QED BY <2>1, <2>2, <2>3, Zenon
<1>5. Given(f, e, c)
  BY <1>1, StartEffectGives
<1> HIDE DEF f, e
<1>6. Exact(L, f)
  <2>1. f.speed = Total(L, SpeedTypes) /\ f.stats = Total(L, {"attributes"})
    BY <1>1, <1>3, <1>5 DEF Exact, Given
  <2>2. f.visible <=> ~Has(L, "invisible")
    BY <1>1, <1>5 DEF Exact, Given, Has
  <2>3. /\ f.drunk # 0 => Has(L, "drunk")
        /\ f.outfit # 0 => Has(L, "outfit")
    BY <1>1, <1>5 DEF Exact, Given, Has
  <2>4. ~f.defense => \E d \in L : d.type = "attributes" /\ d.disables
    BY <1>1, <1>5 DEF Exact, Given
  <2> QED BY <2>1, <2>2, <2>3, <2>4 DEF Exact
<1>7. Listable(L)
  <2>1. IsFiniteSet(L)
    BY <1>1, FS_AddElement
  <2> QED BY <1>1, <2>1 DEF Listable, SameKey
<1>8. Right(State(L, f, s.later))
  BY <1>1, <1>5, <1>6, <1>7, RightMade DEF Given
<1> QED BY <1>4, <1>8, Zenon

-----------------------------------------------------------------------------
(* A condition takes over what another of its key brings.                  *)

\* The effects f, after e, when new stands for old
Exchanged(f, e, old, new) ==
  /\ f \in Effect
  /\ f.speed = e.speed - Value(old, SpeedTypes) + Value(new, SpeedTypes)
  /\ f.stats = e.stats - Value(old, {"attributes"}) + Value(new, {"attributes"})
  /\ f.visible = e.visible
  /\ f.drunk # 0 => e.drunk # 0 \/ new.type = "drunk"
  /\ f.outfit # 0 => e.outfit # 0 \/ new.type = "outfit"
  /\ ~f.defense => ~e.defense /\ ~(old.type = "attributes" /\ old.disables)

\* A condition of the key takes the place of the old one.
LEMMA ExchangeRight ==
  ASSUME NEW C, NEW e, NEW l, Right(State(C, e, l)),
         NEW old \in C, NEW new \in Condition, ~new.over, SameKey(old, new),
         NEW f, Exchanged(f, e, old, new)
  PROVE  Right(State((C \ {old}) \cup {new}, f, l))
<1> DEFINE D == C \ {old}
           L == D \cup {new}
<1>1. /\ C \in SUBSET Condition /\ Listable(C) /\ e \in Effect /\ Exact(C, e)
      /\ l \in Seq(Event) /\ Valued(C)
  BY RightParts DEF State
<1>2. /\ new.type = old.type /\ new.id = old.id /\ old.type \in Types
      /\ new.value \in Int /\ old.value \in Int
  BY <1>1, ConditionFacts DEF SameKey
<1>3. Listable(D) /\ Valued(D) /\ new \notin D
  BY <1>1, ListableFacts DEF Listable, SameKey
<1>4. \A types : Total(L, types) = Total(C, types) - Value(old, types) + Value(new, types)
  <2> SUFFICES ASSUME NEW types
               PROVE  Total(L, types) = Total(C, types) - Value(old, types) + Value(new, types)
    OBVIOUS
  <2>1. Total(D, types) = Total(C, types) - Value(old, types)
    BY <1>1, TotalFacts
  <2>2. Total(L, types) = Total(D, types) + Value(new, types)
    BY <1>2, <1>3, TotalFacts
  <2> QED BY <2>1, <2>2
<1>5. Listable(L)
  <2>1. IsFiniteSet(L)
    BY <1>3, FS_AddElement DEF Listable
  <2>2. \A c \in D : ~SameKey(c, new)
    BY <1>1, <1>2 DEF Listable, SameKey
  <2> QED BY <1>3, <2>1, <2>2 DEF Listable, SameKey
<1>6. \A t : Has(L, t) <=> Has(C, t)
  BY <1>2 DEF Has
<1>7. Exact(L, f)
  <2>1. f.speed = Total(L, SpeedTypes) /\ f.stats = Total(L, {"attributes"})
    BY <1>1, <1>4 DEF Exact, Exchanged
  <2>2. f.visible <=> ~Has(L, "invisible")
    BY <1>1, <1>6 DEF Exact, Exchanged
  <2>3. /\ f.drunk # 0 => Has(L, "drunk")
        /\ f.outfit # 0 => Has(L, "outfit")
    BY <1>1, <1>6 DEF Exact, Exchanged, Has
  <2>4. ~f.defense => \E d \in L : d.type = "attributes" /\ d.disables
    BY <1>1 DEF Exact, Exchanged
  <2> HIDE DEF L
  <2> QED BY <2>1, <2>2, <2>3, <2>4 DEF Exact
<1> HIDE DEF L
<1>8. Right(State(L, f, l))
  BY <1>1, <1>5, <1>7, RightMade DEF Exchanged
<1> QED BY <1>8 DEF L

\* Replace exchanges one condition for another.
LEMMA ReplacedState ==
  ASSUME NEW C, NEW e, NEW l, NEW old, NEW new
  PROVE  /\ Replace(State(C, e, l), old, new) = State((C \ {old}) \cup {new}, e, l)
         /\ \A x : [Replace(State(C, e, l), old, new) EXCEPT !.eff = x]
                     = State((C \ {old}) \cup {new}, x, l)
<1>1. Replace(State(C, e, l), old, new) = State((C \ {old}) \cup {new}, e, l)
  BY DEF Replace, State
<1>2. \A D, x : [State(D, e, l) EXCEPT !.eff = x] = State(D, x, l)
  BY DEF State
<1> QED BY <1>1, <1>2

\* What the update of an attributes condition makes of the effects.
LEMMA MergedEffect ==
  ASSUME NEW s, NEW old, NEW new
  PROVE  \/ AttributesMerge(s, old, new) = s
         \/ AttributesMerge(s, old, new)
              = [Replace(s, old, new) EXCEPT
                   !.eff = AttributesUpdate(Replace(s, old, new).eff, old, new)]
<1>1. AttributesMerge(s, old, new)
        = IF Updates(old, new)
          THEN [Replace(s, old, new) EXCEPT
                  !.eff = AttributesUpdate(Replace(s, old, new).eff, old, new)]
          ELSE s
  BY DEF AttributesMerge
<1> QED BY <1>1

\* AddCondition of each kind, on a condition of the same key.
LEMMA MergeRight ==
  ASSUME NEW s, Right(s), NEW old \in s.list, NEW new \in Condition, ~new.over,
         SameKey(old, new)
  PROVE  Right(Merge(s, old, new))
<1> DEFINE C == s.list
           e == s.eff
           l == s.later
           L == (C \ {old}) \cup {new}
           r == Replace(s, old, new)
<1>1. /\ C \in SUBSET Condition /\ e \in Effect /\ s = State(C, e, l)
  BY RightParts
<1>2. Right(State(C, e, l))
  BY <1>1, Zenon
<1>3. /\ r = State(L, e, l) /\ \A x : [r EXCEPT !.eff = x] = State(L, x, l)
      /\ r.eff = e
  <2>1. /\ Replace(State(C, e, l), old, new) = State(L, e, l)
        /\ \A x : [Replace(State(C, e, l), old, new) EXCEPT !.eff = x] = State(L, x, l)
    BY ReplacedState
  <2>2. Replace(State(C, e, l), old, new).eff = e
    BY <2>1 DEF State
  <2>3. r = Replace(State(C, e, l), old, new)
    BY <1>1, Zenon
  <2> QED BY <2>1, <2>2, <2>3, Zenon
<1>4. /\ old \in Condition /\ old.type \in Types /\ old.value \in Int /\ old.disables \in BOOLEAN
      /\ new.value \in Int /\ new.type = old.type /\ new.id = old.id
  BY <1>1, ConditionFacts DEF SameKey
<1>5. \A f : Exchanged(f, e, old, new) => Right(State(L, f, l))
  BY <1>2, ExchangeRight
<1>6. e.speed \in Int /\ e.stats \in Int
  BY <1>1 DEF Effect
<1> HIDE DEF C, e, l, r, L
<1>7. CASE old.type \in SpeedTypes
  <2> DEFINE f == [e EXCEPT !.speed = @ + (new.value - old.value)]
  <2>1. Merge(s, old, new) = SpeedMerge(s, old, new)
    BY <1>7 DEF Merge, SpeedTypes
  <2>2. SpeedMerge(s, old, new) = s \/ SpeedMerge(s, old, new) = State(L, f, l)
    <3>1. [r EXCEPT !.eff.speed = @ + (new.value - old.value)] = [r EXCEPT !.eff = f]
      BY <1>3
    <3> QED BY <1>3, <3>1 DEF SpeedMerge, r
  <2>3. Exchanged(f, e, old, new)
    BY <1>1, <1>4, <1>6, <1>7 DEF Exchanged, Effect, Value, SpeedTypes
  <2> QED BY <1>5, <2>1, <2>2, <2>3
<1>8. CASE old.type = "attributes"
  <2> DEFINE f == [AttributesEnd(e, old) EXCEPT !.stats = @ + new.value]
  <2>1. Merge(s, old, new) = AttributesMerge(s, old, new)
    BY <1>8 DEF Merge, SpeedTypes
  <2>2. AttributesMerge(s, old, new) = s \/ AttributesMerge(s, old, new) = State(L, f, l)
    <3> DEFINE x == [AttributesEnd(r.eff, old) EXCEPT !.stats = @ + new.value]
    <3>1. \/ AttributesMerge(s, old, new) = s
          \/ AttributesMerge(s, old, new) = [r EXCEPT !.eff = x]
      BY MergedEffect DEF r, AttributesUpdate
    <3>2. x = f
      BY <1>3, Zenon
    <3> HIDE DEF x, f
    <3> QED BY <1>3, <3>1, <3>2
  <2>3. Exchanged(f, e, old, new)
    <3> DEFINE g == AttributesEnd(e, old)
    <3>1. Undone(g, e, old, C)
      <4>1. EndEffect(e, old, C) = AttributesEnd(e, old)
        BY <1>8 DEF EndEffect, SpeedTypes
      <4>2. Undone(EndEffect(e, old, C), e, old, C)
        BY <1>1, <1>4, EndEffectUndoes
      <4> QED BY <4>1, <4>2, Zenon
    <3>2. g.visible = e.visible
      BY <1>1 DEF AttributesEnd, Effect
    <3> HIDE DEF g
    <3>3. f = [g EXCEPT !.stats = @ + new.value]
      BY DEF g
    <3>4. g \in Effect /\ g.stats + new.value \in Int
      BY <1>4, <3>1 DEF Undone, Effect
    <3> HIDE DEF f
    <3>5. /\ f \in Effect /\ f.speed = g.speed /\ f.stats = g.stats + new.value
          /\ f.visible = g.visible /\ f.drunk = g.drunk /\ f.outfit = g.outfit
          /\ f.defense = g.defense
      BY <3>3, <3>4 DEF Effect
    <3>6. Value(new, {"attributes"}) = new.value /\ Value(new, SpeedTypes) = 0
      BY <1>4, <1>8 DEF Value, SpeedTypes
    <3>7. f.speed = e.speed - Value(old, SpeedTypes) + 0
      BY <1>6, <1>8, <3>1, <3>5 DEF Undone, Value, SpeedTypes
    <3> QED BY <3>1, <3>2, <3>5, <3>6, <3>7 DEF Undone, Exchanged
  <2> QED BY <1>5, <2>1, <2>2, <2>3
<1>9. CASE old.type \in {"invisible", "outfit"}
  <2>1. /\ Value(old, SpeedTypes) = 0 /\ Value(old, {"attributes"}) = 0
        /\ Value(new, SpeedTypes) = 0 /\ Value(new, {"attributes"}) = 0
    BY <1>4, <1>9 DEF Value, SpeedTypes
  <2>2. CASE old.type = "invisible"
    <3>1. Merge(s, old, new) = GenericMerge(s, old, new)
      BY <2>2 DEF Merge, SpeedTypes
    <3>2. GenericMerge(s, old, new) = s \/ GenericMerge(s, old, new) = State(L, e, l)
      BY <1>3 DEF GenericMerge, r
    <3>3. Exchanged(e, e, old, new)
      BY <1>1, <1>6, <2>1, <2>2 DEF Exchanged
    <3> QED BY <1>5, <3>1, <3>2, <3>3
  <2>3. CASE old.type = "outfit"
    <3> DEFINE f == [e EXCEPT !.outfit = new.value]
    <3>1. Merge(s, old, new) = OutfitMerge(s, old, new)
      BY <2>3 DEF Merge, SpeedTypes
    <3>2. OutfitMerge(s, old, new) = s \/ OutfitMerge(s, old, new) = State(L, f, l)
      <4>1. [r EXCEPT !.eff.outfit = new.value] = [r EXCEPT !.eff = f]
        BY <1>3
      <4> QED BY <1>3, <4>1 DEF OutfitMerge, r
    <3>3. Exchanged(f, e, old, new)
      BY <1>1, <1>4, <1>6, <2>1, <2>3 DEF Exchanged, Effect
    <3> QED BY <1>5, <3>1, <3>2, <3>3
  <2> QED BY <1>9, <2>2, <2>3
<1>10. CASE old.type = "drunk"
  <2> DEFINE f == [e EXCEPT !.drunk = new.value]
             n == [new EXCEPT !.value = old.value]
             q == Replace(s, old, n)
             M == (C \ {old}) \cup {n}
  <2>1. Merge(s, old, new) = DrunkMerge(s, old, new)
    BY <1>10 DEF Merge, SpeedTypes
  <2>2. n \in Condition /\ ~n.over /\ SameKey(old, n) /\ n.type = "drunk"
    BY <1>4, <1>10 DEF Condition, SameKey
  <2> HIDE DEF n
  <2>3. q = State(M, e, l) /\ (\A x : [q EXCEPT !.eff = x] = State(M, x, l)) /\ q.eff = e
    <3>1. /\ Replace(State(C, e, l), old, n) = State(M, e, l)
          /\ \A x : [Replace(State(C, e, l), old, n) EXCEPT !.eff = x] = State(M, x, l)
      BY ReplacedState
    <3>2. Replace(State(C, e, l), old, n).eff = e
      BY <3>1 DEF State
    <3>3. q = Replace(State(C, e, l), old, n)
      BY <1>1, Zenon
    <3> HIDE DEF q
    <3> QED BY <3>1, <3>2, <3>3, Zenon
  <2>4. DrunkMerge(s, old, new) = s \/ DrunkMerge(s, old, new) = State(M, f, l)
    <3>1. [q EXCEPT !.eff.drunk = new.value] = [q EXCEPT !.eff = f]
      BY <2>3
    <3>2. DrunkMerge(s, old, new) = s
            \/ DrunkMerge(s, old, new) = [q EXCEPT !.eff.drunk = new.value]
      BY DEF DrunkMerge, n
    <3> HIDE DEF q, f
    <3> QED BY <2>3, <3>1, <3>2
  <2>5. Exchanged(f, e, old, n)
    <3>1. /\ Value(old, SpeedTypes) = 0 /\ Value(old, {"attributes"}) = 0
          /\ Value(n, SpeedTypes) = 0 /\ Value(n, {"attributes"}) = 0
      BY <1>4, <1>10, <2>2 DEF Value, SpeedTypes
    <3> QED BY <1>1, <1>4, <1>6, <1>10, <2>2, <3>1 DEF Exchanged, Effect
  <2>6. Right(State(M, f, l))
    BY <1>2, <2>2, <2>5, ExchangeRight DEF C
  <2> QED BY <2>1, <2>4, <2>6
<1> QED BY <1>4, <1>7, <1>8, <1>9, <1>10 DEF Types

-----------------------------------------------------------------------------
(* The operations of a creature.                                           *)

\* Something is put off.
LEMMA LaterRight ==
  ASSUME NEW s, Right(s), NEW event \in Event
  PROVE  Right(Later(s, event))
<1>1. /\ s = State(s.list, s.eff, s.later) /\ s.later \in Seq(Event)
      /\ Listable(s.list) /\ s.eff \in Effect /\ Exact(s.list, s.eff)
  BY RightParts
<1>2. Append(s.later, event) \in Seq(Event)
  BY <1>1
<1>3. Later(s, event) = State(s.list, s.eff, Append(s.later, event))
  <2>1. \A C, e, l : Later(State(C, e, l), event) = State(C, e, Append(l, event))
    BY DEF Later, State
  <2>2. Later(State(s.list, s.eff, s.later), event) = Later(s, event)
    BY <1>1, Zenon
  <2> QED BY <2>1, <2>2
<1>4. Right(State(s.list, s.eff, Append(s.later, event)))
  BY <1>1, <1>2, RightMade
<1> QED BY <1>3, <1>4, Zenon

\* The three removeCondition.
LEMMA RemoveRight ==
  ASSUME NEW s, Right(s), NEW C \in SUBSET s.list, NEW type \in Types,
         NEW force, NEW walking
  PROVE  Right(RemoveConditions(s, C, type, force, walking))
<1>1. RemoveLater(type) \in Event
  BY DEF RemoveLater, Event
<1>2. Right(Later(s, RemoveLater(type)))
  BY <1>1, LaterRight
<1>3. Right(EraseAll(s, C))
  BY EraseAllRight
<1> QED BY <1>2, <1>3 DEF RemoveConditions

\* All conditions of a type are removed.
LEMMA RemoveTypeRight ==
  ASSUME NEW s, Right(s), NEW type \in Types, NEW force, NEW walking
  PROVE  Right(RemoveType(s, type, force, walking))
<1> DEFINE C == {c \in s.list : c.type = type}
<1>1. C \in SUBSET s.list
  OBVIOUS
<1> HIDE DEF C
<1>2. Right(RemoveConditions(s, C, type, force, walking))
  BY <1>1, RemoveRight
<1> QED BY <1>2 DEF RemoveType, C

\* Creature::onAddCondition.
LEMMA OnAddRight ==
  ASSUME NEW s, Right(s), NEW type, NEW walking
  PROVE  Right(OnAddCondition(s, type, walking))
<1>1. /\ Right(RemoveType(s, "haste", FALSE, walking))
      /\ Right(RemoveType(s, "paralyze", FALSE, walking))
  BY RemoveTypeRight DEF Types, SpeedTypes
<1> QED BY <1>1 DEF OnAddCondition

\* Creature::addCondition.
LEMMA AddRight ==
  ASSUME NEW s, Right(s), NEW c \in Condition, NEW force, NEW walking
  PROVE  Right(AddCondition(s, c, force, walking))
<1> DEFINE same == {d \in s.list : d.type = c.type /\ d.id = c.id}
           started == [c EXCEPT !.left = IF c.over THEN 0 ELSE @, !.over = FALSE]
           new == [c EXCEPT !.over = FALSE]
           old == CHOOSE d \in same : TRUE
           r == Started([s EXCEPT !.list = @ \cup {started}], started)
<1>1. CASE ~force /\ c.type = "haste" /\ HasCondition(s, "paralyze") /\ walking
  <2>1. AddLater(c) \in Event
    BY DEF AddLater, Event
  <2>2. Right(Later(s, AddLater(c)))
    BY <2>1, LaterRight
  <2> QED BY <1>1, <2>2 DEF AddCondition
<1>2. CASE /\ ~(~force /\ c.type = "haste" /\ HasCondition(s, "paralyze") /\ walking)
           /\ same # {}
  <2>1. new \in Condition /\ ~new.over /\ new.type = c.type /\ new.id = c.id
    BY DEF Condition
  <2>2. old \in s.list /\ SameKey(old, new)
    BY <1>2, <2>1 DEF SameKey
  <2> HIDE DEF old, new
  <2>3. Right(Merge(s, old, new))
    BY <2>1, <2>2, MergeRight
  <2>4. AddCondition(s, c, force, walking) = Merge(s, old, new)
    BY <1>2 DEF AddCondition, old, new
  <2> QED BY <2>3, <2>4
<1>3. CASE /\ ~(~force /\ c.type = "haste" /\ HasCondition(s, "paralyze") /\ walking)
           /\ same = {}
  <2>1. started \in Condition /\ ~started.over /\ started.type = c.type /\ started.id = c.id
    BY DEF Condition
  <2>2. \A d \in s.list : ~SameKey(d, started)
    BY <1>3, <2>1 DEF SameKey
  <2> HIDE DEF started
  <2>3. Right(r)
    BY <2>1, <2>2, StartRight
  <2> HIDE DEF r
  <2>4. Right(OnAddCondition(r, c.type, walking))
    BY <2>3, OnAddRight
  <2>5. AddCondition(s, c, force, walking) = OnAddCondition(r, c.type, walking)
    BY <1>3 DEF AddCondition, r, started
  <2> QED BY <2>4, <2>5
<1> QED BY <1>1, <1>2, <1>3

-----------------------------------------------------------------------------
(* The conditions of a list are added one after the other: FoldLeft.       *)

\* The largest of some numbers up to n is one of them.
LEMMA MaxIn ==
  ASSUME NEW n \in Nat, NEW D \in SUBSET (1..n), D # {}
  PROVE  Max(D) \in D
<1> DEFINE T == {k \in Nat : \A d \in D : d <= k}
<1>1. n \in T
  OBVIOUS
<1>2. PICK m \in T : \A k \in T : m <= k
  BY <1>1, LeastElement
<1>3. m \in D
  <2> SUFFICES ASSUME m \notin D PROVE FALSE
    OBVIOUS
  <2>1. PICK d \in D : TRUE
    OBVIOUS
  <2>2. d \in Nat /\ 1 <= d /\ d <= m /\ m \in Nat
    BY <1>2
  <2>3. m - 1 \in Nat /\ \A c \in D : c <= m - 1
    BY <1>2, <2>2
  <2> HIDE DEF T
  <2>4. m - 1 \in T
    BY <2>3 DEF T
  <2> QED BY <1>2, <2>2, <2>4
<1>4. \E x \in D : \A y \in D : x >= y
  BY <1>2, <1>3
<1> QED BY <1>4 DEF Max

\* What EnterGame makes of the conditions of the static list.
Added(s, l) == FoldLeft(LAMBDA t, c : AddCondition(t, c, FALSE, FALSE), s, l)

\* The recursive function of the fold over the list l.
IsAdded(f, s, l) ==
  f = [D \in SUBSET DOMAIN l |->
         IF D = {} THEN s ELSE AddCondition(f[D \ {Max(D)}], l[Max(D)], FALSE, FALSE)]

\* The fold is what that function gives for all places of the list.
LEMMA AddedByFunction ==
  ASSUME NEW s, NEW l
  PROVE  Added(s, l) = (CHOOSE f : IsAdded(f, s, l))[DOMAIN l]
BY DEF Added, FoldLeft, MapThenFoldSet, IsAdded

\* The function has a value for every set of places.
LEMMA AddedFunction ==
  ASSUME NEW s, NEW l \in Seq(Condition)
  PROVE  \E f : IsAdded(f, s, l)
<1> DEFINE C == DOMAIN l
           B(h, D) == IF D = {} THEN s
                      ELSE AddCondition(h[D \ {Max(D)}], l[Max(D)], FALSE, FALSE)
           I == {n \in Nat : \E h : \A D \in SUBSET C : Cardinality(D) <= n => h[D] = B(h, D)}
<1>1. /\ IsFiniteSet(C)
      /\ \A D \in SUBSET C : IsFiniteSet(D) /\ Cardinality(D) \in Nat
      /\ \A D \in SUBSET C : D # {} => Max(D) \in D
  <2>1. C = 1..Len(l) /\ Len(l) \in Nat
    OBVIOUS
  <2>2. IsFiniteSet(1..Len(l))
    BY <2>1, FS_Interval
  <2>3. \A D \in SUBSET (1..Len(l)) : D # {} => Max(D) \in D
    BY <2>1, MaxIn
  <2> HIDE DEF C
  <2>4. IsFiniteSet(C)
    BY <2>1, <2>2, Zenon
  <2> QED BY <2>1, <2>3, <2>4, FS_Subset, FS_CardinalityType
<1>2. \A D \in SUBSET C : D # {} =>
        /\ D \ {Max(D)} \in SUBSET C
        /\ Cardinality(D \ {Max(D)}) = Cardinality(D) - 1
  BY <1>1, FS_RemoveElement
<1> HIDE DEF C
<1>3. 0 \in I
  <2> DEFINE f == [D \in SUBSET C |-> s]
  <2>1. \A D \in SUBSET C : Cardinality(D) <= 0 => D = {}
    BY <1>1, FS_EmptySet
  <2>2. \A D \in SUBSET C : D = {} => f[D] = B(f, D)
    OBVIOUS
  <2> HIDE DEF f, B
  <2> QED BY <2>1, <2>2
<1>4. ASSUME NEW n \in Nat, n \in I PROVE n + 1 \in I
  <2>1. PICK f : \A D \in SUBSET C : Cardinality(D) <= n => f[D] = B(f, D)
    BY <1>4
  <2> DEFINE g == [D \in SUBSET C |-> B(f, D)]
  <2>2. \A D \in SUBSET C : Cardinality(D) <= n => g[D] = f[D]
    BY <2>1
  <2>3. \A D \in SUBSET C : g[D] = B(f, D)
    OBVIOUS
  <2> HIDE DEF g
  <2>4. \A D \in SUBSET C : Cardinality(D) <= n + 1 => g[D] = B(g, D)
    <3> SUFFICES ASSUME NEW D \in SUBSET C, Cardinality(D) <= n + 1, D # {}
                 PROVE  g[D] = B(g, D)
      BY <2>3
    <3>1. g[D \ {Max(D)}] = f[D \ {Max(D)}]
      <4>1. D \ {Max(D)} \in SUBSET C /\ Cardinality(D \ {Max(D)}) = Cardinality(D) - 1
        BY <1>2
      <4>2. Cardinality(D) \in Nat
        BY <1>1
      <4>3. Cardinality(D \ {Max(D)}) <= n
        BY <1>4, <4>1, <4>2
      <4> QED BY <2>2, <4>1, <4>3
    <3> QED BY <2>3, <3>1
  <2> HIDE DEF B
  <2> QED BY <1>4, <2>4
<1> HIDE DEF I
<1>5. Cardinality(C) \in I
  BY <1>1, <1>3, <1>4, NatInSet
<1>6. PICK f : \A D \in SUBSET C : f[D] = B(f, D)
  <2>1. \A D \in SUBSET C : Cardinality(D) <= Cardinality(C)
    BY <1>1, FS_Subset
  <2> QED BY <1>5, <2>1 DEF I
<1> DEFINE k == [D \in SUBSET C |-> f[D]]
<1>7. \A D \in SUBSET C : k[D] = B(k, D)
  BY <1>2, <1>6
<1>8. k = [D \in SUBSET C |-> B(k, D)]
  <2>1. k = [D \in SUBSET C |-> k[D]]
    OBVIOUS
  <2> HIDE DEF k
  <2> QED BY <1>7, <2>1
<1> QED BY <1>8 DEF IsAdded, C

\* Any list of conditions is added one after the other.
LEMMA AddedRight ==
  ASSUME NEW s, Right(s), NEW l \in Seq(Condition)
  PROVE  Right(Added(s, l))
<1> DEFINE f == CHOOSE f : IsAdded(f, s, l)
           A == {D \in SUBSET DOMAIN l : Right(f[D])}
<1>1. DOMAIN l = 1..Len(l) /\ Len(l) \in Nat /\ IsFiniteSet(DOMAIN l)
  <2>1. DOMAIN l = 1..Len(l) /\ Len(l) \in Nat
    OBVIOUS
  <2>2. IsFiniteSet(1..Len(l))
    BY <2>1, FS_Interval
  <2> QED BY <2>1, <2>2, Zenon
<1>2. IsAdded(f, s, l)
  BY AddedFunction
<1> HIDE DEF f
<1>3. {} \in A
  BY <1>2 DEF IsAdded
<1>4. ASSUME NEW D \in SUBSET DOMAIN l, D # {}, \A x \in D : D \ {x} \in A
      PROVE  D \in A
  <2>1. Max(D) \in D
    BY <1>1, <1>4, MaxIn
  <2>2. l[Max(D)] \in Condition
    BY <2>1
  <2>3. Right(f[D \ {Max(D)}])
    BY <1>4, <2>1
  <2>4. Right(AddCondition(f[D \ {Max(D)}], l[Max(D)], FALSE, FALSE))
    BY <2>2, <2>3, AddRight
  <2>5. f[D] = AddCondition(f[D \ {Max(D)}], l[Max(D)], FALSE, FALSE)
    BY <1>2, <1>4 DEF IsAdded
  <2> QED BY <2>4, <2>5
<1> HIDE DEF A
<1>5. DOMAIN l \in A
  BY <1>1, <1>3, <1>4, PartsInSet
<1> QED BY <1>5, AddedByFunction DEF A, f

\* A row as a list has the conditions of the row.
LEMMA RowSequence ==
  ASSUME NEW S, IsFiniteSet(S)
  PROVE  SetToSeq(S) \in Seq(S)
<1>1. Cardinality(S) \in Nat /\ ExistsBijection(1..Cardinality(S), S)
  BY FS_CardinalityType
<1>2. \E f \in [1..Cardinality(S) -> S] : IsInjective(f)
  BY <1>1 DEF ExistsBijection, Bijection, Injection
<1>3. SetToSeq(S) \in [1..Cardinality(S) -> S]
  BY <1>2 DEF SetToSeq
<1> QED BY <1>1, <1>3

-----------------------------------------------------------------------------
(* The time of some conditions changes.                                    *)

\* The conditions of C, each as h makes it.
Image(h, C) == {h[c] : c \in C}

\* What h changes is the time alone: the list stays exact.
LEMMA ImageExact ==
  ASSUME NEW C, Listable(C), NEW e, Exact(C, e), NEW h,
         \A c \in C : /\ h[c] \in Condition /\ ~h[c].over
                      /\ SameKey(h[c], c) /\ h[c].value = c.value
                      /\ h[c].disables = c.disables
  PROVE  Listable(Image(h, C)) /\ Exact(Image(h, C), e)
<1> DEFINE Im(D) == {h[c] : c \in D}
<1>1. Valued(C) /\ IsFiniteSet(C)
  BY ListableFacts DEF Valued
<1>2. \A c, d \in C : h[c] = h[d] => c = d
  BY DEF Listable, SameKey
<1>3. IsFiniteSet(Im(C)) /\ \A D \in SUBSET C : IsFiniteSet(Im(D)) /\ Valued(Im(D))
  <2>1. IsFiniteSet(Im(C))
    <3> DEFINE g == [c \in C |-> h[c]]
    <3>1. g \in Surjection(C, Im(C))
      BY DEF Surjection
    <3> QED BY <1>1, <3>1, FS_Surjection
  <2>2. \A D \in SUBSET C : Im(D) \in SUBSET Im(C)
    OBVIOUS
  <2>3. \A x \in Im(C) : x.value \in Int
    BY ConditionFacts
  <2> HIDE DEF Im
  <2> QED BY <2>1, <2>2, <2>3, FS_Subset DEF Valued
<1>4. ASSUME NEW types PROVE Total(Im(C), types) = Total(C, types)
  <2> DEFINE A == {D \in SUBSET C : Total(Im(D), types) = Total(D, types)}
  <2>1. {} \in A
    <3>1. Im({}) = {}
      OBVIOUS
    <3>2. Total(Im({}), types) = Total({}, types)
      BY <3>1, Zenon
    <3> HIDE DEF Im
    <3> QED BY <3>2
  <2>2. ASSUME NEW D \in SUBSET C, D # {}, \A x \in D : D \ {x} \in A
        PROVE  D \in A
    <3>1. PICK c \in D : TRUE
      BY <2>2
    <3> DEFINE E == D \ {c}
    <3>2. Valued(D) /\ Valued(Im(E)) /\ Valued(E)
      BY <1>1, <1>3, FS_Subset DEF Valued
    <3>3. h[c] \notin Im(E) /\ h[c].value \in Int
      BY <1>2, ConditionFacts
    <3>4. Total(Im(E) \cup {h[c]}, types) = Total(Im(E), types) + Value(h[c], types)
      BY <3>2, <3>3, TotalFacts
    <3>5. Total(E, types) = Total(D, types) - Value(c, types)
      BY <3>2, TotalFacts
    <3>6. Value(h[c], types) = Value(c, types)
      BY DEF Value, SameKey
    <3>7. Total(Im(E), types) = Total(E, types)
      BY <2>2
    <3>8. Total(Im(D), types) = Total(Im(E) \cup {h[c]}, types)
      <4>1. Im(D) = Im(E) \cup {h[c]}
        OBVIOUS
      <4> QED BY <4>1, Zenon
    <3>9. Total(D, types) \in Int /\ Value(c, types) \in Int
      <4>1. c.value \in Int
        BY <3>2 DEF Valued
      <4>2. Total(D, types) \in Int
        BY <3>2, TotalFacts
      <4> QED BY <4>1, <4>2 DEF Value
    <3>10. Total(Im(D), types) = Total(D, types)
      <4> HIDE DEF Im, E
      <4> QED BY <3>4, <3>5, <3>6, <3>7, <3>8, <3>9
    <3> HIDE DEF Im
    <3> QED BY <3>10
  <2> HIDE DEF A
  <2>3. C \in A
    BY <1>1, <2>1, <2>2, PartsInSet
  <2> QED BY <2>3 DEF A
<1>5. Listable(Im(C))
  <2> HIDE DEF Im
  <2>1. \A x \in Im(C) : x \in Condition /\ ~x.over
    BY DEF Im
  <2>2. \A x, y \in Im(C) : SameKey(x, y) => x = y
    <3> SUFFICES ASSUME NEW c \in C, NEW d \in C, SameKey(h[c], h[d])
                 PROVE  h[c] = h[d]
      BY DEF Im
    <3>1. SameKey(c, d)
      BY DEF SameKey
    <3> QED BY <3>1 DEF Listable
  <2> QED BY <1>3, <2>1, <2>2 DEF Listable
<1>6. \A t : Has(Im(C), t) <=> Has(C, t)
  BY DEF Has, SameKey
<1>7. (\E c \in C : c.type = "attributes" /\ c.disables)
        => \E c \in Im(C) : c.type = "attributes" /\ c.disables
  BY DEF SameKey
<1> HIDE DEF Im
<1>8. Exact(Im(C), e)
  BY <1>4, <1>6, <1>7 DEF Exact
<1> QED BY <1>5, <1>8 DEF Im, Image

-----------------------------------------------------------------------------
(* The inductive invariant: EffectsExact, with the types of the conditions *)
(* that are listed, put off, saved and loaded, and their lists finite.     *)

\* The conditions that are saved and loaded.
Loadable == {c \in Condition : ~c.over}

\* The entries of delayed, when the players of on are in the game.
PutOff(on) == [who : on \cup {Nobody}, event : Event]

ConditionInv ==
  /\ online \subseteq Players
  /\ conditions \in [Players -> SUBSET Condition]
  /\ effects \in [Players -> Effect]
  /\ \A p \in Players :
       /\ Listable(conditions[p])
       /\ Exact(conditions[p], effects[p])
       /\ p \notin online => conditions[p] = {}
  /\ delayed \in Seq(PutOff(online))
  /\ rows \in [Players -> SUBSET Loadable]
  /\ \A p \in Players : IsFiniteSet(rows[p])
  /\ stored \in Seq(Loadable)

\* A creature without conditions.
LEMMA NothingExact ==
  /\ NoEffects \in Effect
  /\ Listable({})
  /\ Exact({}, NoEffects)
<1>1. NoEffects \in Effect
  BY DEF NoEffects, Effect
<1>2. Listable({})
  BY FS_EmptySet DEF Listable
<1>3. Total({}, SpeedTypes) = 0 /\ Total({}, {"attributes"}) = 0
  BY TotalFacts
<1>4. Exact({}, NoEffects)
  BY <1>3 DEF Exact, Has, NoEffects
<1> QED BY <1>1, <1>2, <1>4

\* The invariant holds at the start.
LEMMA ConditionInitInv == ConditionInit => ConditionInv
<1> SUFFICES ASSUME ConditionInit PROVE ConditionInv
  OBVIOUS
<1>1. /\ online = {} /\ conditions = [p \in Players |-> {}]
      /\ effects = [p \in Players |-> NoEffects]
      /\ delayed = <<>> /\ rows = [p \in Players |-> {}] /\ stored = <<>>
  BY DEF ConditionInit
<1>2. \A p \in Players : conditions[p] = {} /\ effects[p] = NoEffects /\ rows[p] = {}
  BY <1>1
<1>3. \A p \in Players :
        Listable(conditions[p]) /\ Exact(conditions[p], effects[p]) /\ IsFiniteSet(rows[p])
  <2> SUFFICES ASSUME NEW p \in Players
               PROVE  /\ Listable(conditions[p]) /\ Exact(conditions[p], effects[p])
                      /\ IsFiniteSet(rows[p])
    OBVIOUS
  <2>1. conditions[p] = {} /\ effects[p] = NoEffects /\ rows[p] = {}
    BY <1>2
  <2> QED BY <2>1, NothingExact, FS_EmptySet, Zenon
<1>4. /\ conditions \in [Players -> SUBSET Condition]
      /\ effects \in [Players -> Effect]
      /\ rows \in [Players -> SUBSET Loadable]
  BY <1>1, NothingExact
<1>5. delayed \in Seq(PutOff(online)) /\ stored \in Seq(Loadable)
  BY <1>1
<1> QED BY <1>1, <1>2, <1>3, <1>4, <1>5 DEF ConditionInv

\* The creature an operation starts from is right.
LEMMA AffectedRight ==
  ASSUME ConditionInv, NEW p \in Players
  PROVE  Right(Affected(p))
<1>1. Affected(p) = State(conditions[p], effects[p], <<>>)
  BY DEF Affected, State
<1>2. /\ Listable(conditions[p]) /\ Exact(conditions[p], effects[p])
      /\ effects[p] \in Effect /\ <<>> \in Seq(Event)
  BY DEF ConditionInv
<1>3. Right(State(conditions[p], effects[p], <<>>))
  BY <1>2, RightMade
<1> QED BY <1>1, <1>3, Zenon

\* A sequence over a set is one over a larger set.
LEMMA WiderSeq ==
  ASSUME NEW S, NEW T, S \subseteq T, NEW q \in Seq(S)
  PROVE  q \in Seq(T)
OBVIOUS

\* A function on 1..n into a set is a sequence over it.
LEMMA MadeSeq ==
  ASSUME NEW T, NEW n \in Nat, NEW m, m = [i \in 1..n |-> m[i]], \A i \in 1..n : m[i] \in T
  PROVE  m \in Seq(T)
OBVIOUS

\* Another list for which the effects are exact.
LEMMA RelistRight ==
  ASSUME NEW s, Right(s), NEW D, Listable(D), Exact(D, s.eff)
  PROVE  Right([s EXCEPT !.list = D])
<1> DEFINE Relist(x) == [x EXCEPT !.list = D]
<1>1. \A C, e, l : Relist(State(C, e, l)) = State(D, e, l)
  BY DEF State
<1> HIDE DEF Relist
<1>2. s = State(s.list, s.eff, s.later) /\ s.eff \in Effect /\ s.later \in Seq(Event)
  BY RightParts
<1>3. Relist(s) = State(D, s.eff, s.later)
  <2>1. Relist(State(s.list, s.eff, s.later)) = Relist(s)
    BY <1>2, Zenon
  <2> QED BY <1>1, <2>1
<1>4. Right(State(D, s.eff, s.later))
  BY <1>2, RightMade
<1>5. Right(Relist(s))
  BY <1>3, <1>4, Zenon
<1> QED BY <1>5 DEF Relist

\* An operation on p, as RunDelayed and EnterGame do it, too
LEMMA OperationInv ==
  ASSUME ConditionInv, NEW p \in Players, NEW s, Right(s),
         online' = online \cup {p},
         conditions' = [conditions EXCEPT ![p] = s.list],
         effects' = [effects EXCEPT ![p] = s.eff],
         NEW rest \in Seq(PutOff(online)),
         delayed' = rest \o [i \in 1..Len(s.later) |-> [who |-> p, event |-> s.later[i]]],
         rows' = rows, stored' \in Seq(Loadable)
  PROVE  ConditionInv'
<1> USE DEF ConditionInv
<1>1. /\ s.list \in SUBSET Condition /\ Listable(s.list)
      /\ s.eff \in Effect /\ Exact(s.list, s.eff) /\ s.later \in Seq(Event)
  BY RightParts
<1>2. /\ conditions' \in [Players -> SUBSET Condition]
      /\ effects' \in [Players -> Effect]
  BY <1>1
<1>3. ASSUME NEW q \in Players
      PROVE  /\ Listable(conditions'[q])
             /\ Exact(conditions'[q], effects'[q])
             /\ q \notin online' => conditions'[q] = {}
  <2>1. CASE q = p
    <3>1. conditions'[q] = s.list /\ effects'[q] = s.eff
      BY <2>1
    <3>2. q \in online'
      BY <2>1
    <3>3. Listable(conditions'[q]) /\ Exact(conditions'[q], effects'[q])
      BY <1>1, <3>1, Zenon
    <3> QED BY <3>2, <3>3
  <2>2. CASE q # p
    <3>1. conditions'[q] = conditions[q] /\ effects'[q] = effects[q]
      BY <2>2
    <3>2. Listable(conditions'[q]) /\ Exact(conditions'[q], effects'[q])
      <4>1. Listable(conditions[q]) /\ Exact(conditions[q], effects[q])
        OBVIOUS
      <4> QED BY <3>1, <4>1, Zenon
    <3>3. q \notin online' => conditions'[q] = {}
      BY <2>2, <3>1
    <3> QED BY <3>2, <3>3
  <2> QED BY <2>1, <2>2
<1>4. delayed' \in Seq(PutOff(online'))
  <2> DEFINE n == Len(s.later)
             m == [i \in 1..n |-> [who |-> p, event |-> s.later[i]]]
             T == PutOff(online')
  <2>1. n \in Nat /\ \A i \in 1..n : s.later[i] \in Event
    BY <1>1
  <2>2. \A i \in 1..n : m[i] \in T
    BY <2>1 DEF PutOff
  <2>3. m = [i \in 1..n |-> m[i]]
    OBVIOUS
  <2>4. PutOff(online) \subseteq T
    BY DEF PutOff
  <2> HIDE DEF n, m, T
  <2>5. m \in Seq(T)
    BY <2>1, <2>2, <2>3, MadeSeq
  <2>6. rest \in Seq(T)
    BY <2>4, WiderSeq
  <2>7. rest \o m \in Seq(T)
    BY <2>5, <2>6, ConcatProperties
  <2> QED BY <2>7 DEF m, n, T
<1>5. online' \subseteq Players
  OBVIOUS
<1> QED BY <1>2, <1>3, <1>4, <1>5

\* What an operation on a player in the game leaves behind.
LEMMA BecomesInv ==
  ASSUME ConditionInv, NEW p \in online, NEW s, Right(s), Becomes(p, s),
         UNCHANGED <<online, rows, stored>>
  PROVE  ConditionInv'
<1>1. /\ p \in Players /\ delayed \in Seq(PutOff(online)) /\ stored' \in Seq(Loadable)
      /\ online' = online \cup {p} /\ rows' = rows
  BY DEF ConditionInv
<1>2. /\ conditions' = [conditions EXCEPT ![p] = s.list]
      /\ effects' = [effects EXCEPT ![p] = s.eff]
      /\ delayed' = delayed \o [i \in 1..Len(s.later) |-> [who |-> p, event |-> s.later[i]]]
  BY DEF Becomes
<1> QED BY <1>1, <1>2, OperationInv

-----------------------------------------------------------------------------
(* The actions.                                                            *)

\* A condition is put on a player.
LEMMA AddInv ==
  ASSUME ConditionInv, NEW p \in Players, NEW t \in Templates,
         NEW force \in BOOLEAN, NEW walking \in BOOLEAN, Add(p, t, force, walking)
  PROVE  ConditionInv'
<1>1. p \in online /\ UNCHANGED <<online, rows, stored>>
  BY DEF Add
<1>2. PICK over \in {FALSE, t.stamped} :
        Becomes(p, AddCondition(Affected(p), Cloned(t, p, over), force, walking))
  BY DEF Add
<1>3. Cloned(t, p, over) \in Condition
  BY TemplatesAssumption DEF Cloned, Condition
<1>4. Right(AddCondition(Affected(p), Cloned(t, p, over), force, walking))
  BY <1>3, AffectedRight, AddRight
<1> QED BY <1>1, <1>2, <1>4, BecomesInv

\* A script removes a condition.
LEMMA RemoveByScriptInv ==
  ASSUME ConditionInv, NEW p \in Players, NEW c \in conditions[p],
         NEW force \in BOOLEAN, NEW walking \in BOOLEAN,
         RemoveByScript(p, c, force, walking)
  PROVE  ConditionInv'
<1>1. /\ p \in online /\ UNCHANGED <<online, rows, stored>>
      /\ Becomes(p, RemoveConditions(Affected(p), {c}, c.type, force, walking))
  BY DEF RemoveByScript
<1>2. c.type \in Types /\ {c} \in SUBSET Affected(p).list
  BY ConditionFacts DEF ConditionInv, Affected
<1>3. Right(RemoveConditions(Affected(p), {c}, c.type, force, walking))
  BY <1>2, AffectedRight, RemoveRight
<1> QED BY <1>1, <1>3, BecomesInv

\* The conditions of a slot go.
LEMMA DeEquipInv ==
  ASSUME ConditionInv, NEW p \in Players, NEW type \in Types, DeEquip(p, type)
  PROVE  ConditionInv'
<1> DEFINE C == {c \in conditions[p] : c.type = type /\ c.id = "slot"}
<1>1. /\ p \in online /\ UNCHANGED <<online, rows, stored>>
      /\ Becomes(p, RemoveConditions(Affected(p), C, type, FALSE, FALSE))
  BY DEF DeEquip
<1>2. C \in SUBSET Affected(p).list
  BY DEF Affected
<1> HIDE DEF C
<1>3. Right(RemoveConditions(Affected(p), C, type, FALSE, FALSE))
  BY <1>2, AffectedRight, RemoveRight
<1> QED BY <1>1, <1>3, BecomesInv

\* A type is dispelled, or its time is cut.
LEMMA DispelInv ==
  ASSUME ConditionInv, NEW p \in Players, NEW type \in Types,
         NEW acting \in BOOLEAN, NEW walking \in BOOLEAN,
         Dispel(p, type, acting, walking)
  PROVE  ConditionInv'
<1> DEFINE s == Affected(p)
           C == {c \in s.list : c.type = type /\ c.id # "slot"}
           cut == {[c EXCEPT !.left = 1] : c \in C}
           r == [s EXCEPT !.list = (@ \ C) \cup cut]
<1>1. p \in online /\ UNCHANGED <<online, rows, stored>>
  BY DEF Dispel
<1>2. \/ Becomes(p, RemoveType(s, type, FALSE, walking))
      \/ Becomes(p, r)
      \/ Becomes(p, EraseAll(s, C))
  BY DEF Dispel
<1>3. Right(s)
  BY AffectedRight
<1>4. C \in SUBSET s.list
  OBVIOUS
<1>5. Right(r)
  <2> DEFINE h == [c \in s.list |-> IF c \in C THEN [c EXCEPT !.left = 1] ELSE c]
             L == {h[c] : c \in s.list}
  <2>1. s = State(s.list, s.eff, s.later) /\ Listable(s.list) /\ Exact(s.list, s.eff)
        /\ s.eff \in Effect /\ s.later \in Seq(Event)
    BY <1>3, RightParts
  <2>2. (s.list \ C) \cup cut = L
    OBVIOUS
  <2>3. \A c \in s.list :
          /\ h[c] \in Condition /\ ~h[c].over
          /\ SameKey(h[c], c) /\ h[c].value = c.value /\ h[c].disables = c.disables
    BY <2>1 DEF Listable, Condition, SameKey
  <2>4. r = [s EXCEPT !.list = L]
    <3> HIDE DEF L, s, C, cut
    <3> QED BY <2>2, Zenon
  <2> HIDE DEF h, s, C, cut
  <2>5. Listable(Image(h, s.list)) /\ Exact(Image(h, s.list), s.eff)
    BY <2>1, <2>3, ImageExact
  <2>6. Listable(L) /\ Exact(L, s.eff)
    <3>1. L = Image(h, s.list)
      BY DEF Image
    <3> QED BY <2>5, <3>1, Zenon
  <2> HIDE DEF L
  <2>7. Right([s EXCEPT !.list = L])
    BY <1>3, <2>6, RelistRight
  <2> HIDE DEF r
  <2> QED BY <2>4, <2>7, Zenon
<1> HIDE DEF s, C, r
<1>6. Right(RemoveType(s, type, FALSE, walking)) /\ Right(EraseAll(s, C))
  BY <1>3, <1>4, RemoveTypeRight, EraseAllRight
<1> QED BY <1>1, <1>2, <1>5, <1>6, BecomesInv

\* What was put off is done now.
LEMMA RunDelayedInv ==
  ASSUME ConditionInv, NEW i \in DOMAIN delayed, RunDelayed(i)
  PROVE  ConditionInv'
<1> DEFINE e == delayed[i].event
           p == delayed[i].who
           rest == RemoveAt(delayed, i)
<1>1. /\ delayed \in Seq(PutOff(online)) /\ i \in 1..Len(delayed) /\ Len(delayed) \in Nat
      /\ delayed[i] \in PutOff(online) /\ stored \in Seq(Loadable)
  BY DEF ConditionInv
<1>2. e \in Event /\ p \in online \cup {Nobody}
  BY <1>1 DEF PutOff
<1>3. rest \in Seq(PutOff(online))
  <2>1. SubSeq(delayed, 1, i - 1) \in Seq(PutOff(online))
    BY <1>1, SubSeqProperties
  <2>2. SubSeq(delayed, i + 1, Len(delayed)) \in Seq(PutOff(online))
    BY <1>1, SubSeqProperties
  <2>3. SubSeq(delayed, 1, i - 1) \o SubSeq(delayed, i + 1, Len(delayed)) \in Seq(PutOff(online))
    BY <2>1, <2>2, ConcatProperties
  <2> QED BY <2>3 DEF RemoveAt
<1>4. UNCHANGED <<online, rows, stored>>
  BY DEF RunDelayed
<1>5. CASE p = Nobody
  <2>1. delayed' = rest /\ UNCHANGED <<conditions, effects>>
    BY <1>5 DEF RunDelayed
  <2> HIDE DEF rest
  <2> QED BY <1>3, <1>4, <2>1 DEF ConditionInv
<1>6. CASE p # Nobody
  <2>1. PICK walking \in BOOLEAN :
          LET s == IF e.op = "add"
                   THEN AddCondition(Affected(p), e.condition, TRUE, walking)
                   ELSE RemoveType(Affected(p), e.type, TRUE, walking)
          IN /\ conditions' = [conditions EXCEPT ![p] = s.list]
             /\ effects' = [effects EXCEPT ![p] = s.eff]
             /\ delayed' = rest \o [j \in 1..Len(s.later) |-> [who |-> p, event |-> s.later[j]]]
    BY <1>6 DEF RunDelayed
  <2> DEFINE s == IF e.op = "add"
                  THEN AddCondition(Affected(p), e.condition, TRUE, walking)
                  ELSE RemoveType(Affected(p), e.type, TRUE, walking)
  <2>2. p \in online /\ p \in Players
    BY <1>2, <1>6 DEF ConditionInv
  <2>3. Right(Affected(p))
    BY <2>2, AffectedRight
  <2>4. Right(s)
    <3>1. CASE e.op = "add"
      <4>1. e.condition \in Condition
        BY <1>2, <3>1 DEF Event
      <4>2. Right(AddCondition(Affected(p), e.condition, TRUE, walking))
        BY <2>3, <4>1, AddRight
      <4> QED BY <3>1, <4>2
    <3>2. CASE e.op # "add"
      <4>1. e.type \in Types
        BY <1>2, <3>2 DEF Event
      <4>2. Right(RemoveType(Affected(p), e.type, TRUE, walking))
        BY <2>3, <4>1, RemoveTypeRight
      <4> QED BY <3>2, <4>2
    <3> QED BY <3>1, <3>2
  <2>5. /\ conditions' = [conditions EXCEPT ![p] = s.list]
        /\ effects' = [effects EXCEPT ![p] = s.eff]
        /\ delayed' = rest \o [j \in 1..Len(s.later) |-> [who |-> p, event |-> s.later[j]]]
    BY <2>1
  <2>6. online' = online \cup {p} /\ rows' = rows /\ stored' \in Seq(Loadable)
    BY <1>1, <1>4, <2>2
  <2> HIDE DEF s, rest, p, e
  <2> QED BY <1>3, <2>2, <2>4, <2>5, <2>6, OperationInv
<1> QED BY <1>5, <1>6

\* Time passes.
LEMMA TickInv ==
  ASSUME ConditionInv, Tick
  PROVE  ConditionInv'
<1> DEFINE older(c) == [c EXCEPT !.left = IF @ > 0 THEN @ - 1 ELSE @]
<1>1. /\ conditions' = [p \in Players |-> {older(c) : c \in conditions[p]}]
      /\ UNCHANGED <<online, effects, delayed, rows, stored>>
  BY DEF Tick
<1>2. ASSUME NEW p \in Players
      PROVE  /\ Listable(conditions'[p]) /\ Exact(conditions'[p], effects[p])
             /\ p \notin online => conditions'[p] = {}
  <2> DEFINE C == conditions[p]
             h == [c \in C |-> older(c)]
  <2>1. Listable(C) /\ Exact(C, effects[p]) /\ (p \notin online => C = {})
    BY DEF ConditionInv
  <2>2. \A c \in C : /\ h[c] \in Condition /\ ~h[c].over
                     /\ SameKey(h[c], c) /\ h[c].value = c.value
                     /\ h[c].disables = c.disables
    BY <2>1 DEF Listable, Condition, SameKey, Forever
  <2>3. conditions'[p] = Image(h, C)
    BY <1>1 DEF Image
  <2> HIDE DEF h, C
  <2>4. Listable(Image(h, C)) /\ Exact(Image(h, C), effects[p])
    BY <2>1, <2>2, ImageExact
  <2>5. Listable(conditions'[p]) /\ Exact(conditions'[p], effects[p])
    BY <2>3, <2>4, Zenon
  <2>6. p \notin online => conditions'[p] = {}
    BY <2>1, <2>3 DEF Image
  <2> QED BY <2>5, <2>6
<1>3. conditions' \in [Players -> SUBSET Condition]
  BY <1>1, <1>2 DEF Listable
<1> QED BY <1>1, <1>2, <1>3 DEF ConditionInv

\* The conditions whose time is over end.
LEMMA ThinkInv ==
  ASSUME ConditionInv, NEW p \in Players, Think(p)
  PROVE  ConditionInv'
<1> DEFINE C == {c \in conditions[p] : c.left = 0}
<1>1. /\ p \in online /\ UNCHANGED <<online, rows, stored>>
      /\ Becomes(p, EraseAll(Affected(p), C))
  BY DEF Think
<1>2. C \in SUBSET Affected(p).list
  BY DEF Affected
<1> HIDE DEF C
<1>3. Right(EraseAll(Affected(p), C))
  BY <1>2, AffectedRight, EraseAllRight
<1> QED BY <1>1, <1>3, BecomesInv

\* A death ends what would be saved.
LEMMA DeathInv ==
  ASSUME ConditionInv, NEW p \in Players, Death(p)
  PROVE  ConditionInv'
<1>1. /\ p \in online /\ UNCHANGED <<online, rows, stored>>
      /\ Becomes(p, EraseAll(Affected(p), Saved(p)))
  BY DEF Death
<1>2. Saved(p) \in SUBSET Affected(p).list
  BY DEF Affected, Saved
<1>3. Right(EraseAll(Affected(p), Saved(p)))
  BY <1>2, AffectedRight, EraseAllRight
<1> QED BY <1>1, <1>3, BecomesInv

\* What is saved can be loaded.
LEMMA SavedLoadable ==
  ASSUME ConditionInv, NEW p \in Players
  PROVE  Saved(p) \in SUBSET Loadable /\ IsFiniteSet(Saved(p))
<1>1. Listable(conditions[p]) /\ Saved(p) \in SUBSET conditions[p]
  BY DEF ConditionInv, Saved
<1> QED BY <1>1, FS_Subset DEF Listable, Loadable

\* A player in the game is saved.
LEMMA SaveInv ==
  ASSUME ConditionInv, NEW p \in Players, Save(p)
  PROVE  ConditionInv'
<1>1. /\ rows' = [rows EXCEPT ![p] = Saved(p)]
      /\ UNCHANGED <<online, conditions, effects, delayed, stored>>
  BY DEF Save
<1>2. rows' \in [Players -> SUBSET Loadable] /\ \A q \in Players : IsFiniteSet(rows'[q])
  BY <1>1, SavedLoadable DEF ConditionInv
<1> QED BY <1>1, <1>2 DEF ConditionInv

\* A player leaves, and what was put off finds nobody.
LEMMA LogoutInv ==
  ASSUME ConditionInv, NEW p \in Players, NEW saved \in BOOLEAN, Logout(p, saved)
  PROVE  ConditionInv'
<1>1. /\ online' = online \ {p}
      /\ conditions' = [conditions EXCEPT ![p] = {}]
      /\ effects' = [effects EXCEPT ![p] = NoEffects]
      /\ stored' = stored
  BY DEF Logout
<1>2. rows' = [rows EXCEPT ![p] = Saved(p)] \/ rows' = rows
  BY DEF Logout
<1>3. rows' \in [Players -> SUBSET Loadable] /\ \A q \in Players : IsFiniteSet(rows'[q])
  BY <1>2, SavedLoadable DEF ConditionInv
<1>4. /\ conditions' \in [Players -> SUBSET Condition]
      /\ effects' \in [Players -> Effect]
  BY <1>1, NothingExact DEF ConditionInv
<1>5. ASSUME NEW q \in Players
      PROVE  /\ Listable(conditions'[q])
             /\ Exact(conditions'[q], effects'[q])
             /\ q \notin online' => conditions'[q] = {}
  <2>1. CASE q = p
    <3>1. conditions'[q] = {} /\ effects'[q] = NoEffects
      BY <1>1, <2>1 DEF ConditionInv
    <3>2. Listable(conditions'[q]) /\ Exact(conditions'[q], effects'[q])
      BY <3>1, NothingExact, Zenon
    <3> QED BY <3>1, <3>2
  <2>2. CASE q # p
    <3>1. conditions'[q] = conditions[q] /\ effects'[q] = effects[q]
      BY <1>1, <2>2 DEF ConditionInv
    <3>2. Listable(conditions[q]) /\ Exact(conditions[q], effects[q])
      BY DEF ConditionInv
    <3>3. Listable(conditions'[q]) /\ Exact(conditions'[q], effects'[q])
      BY <3>1, <3>2, Zenon
    <3>4. q \notin online' => conditions'[q] = {}
      BY <1>1, <2>2, <3>1 DEF ConditionInv
    <3> QED BY <3>3, <3>4
  <2> QED BY <2>1, <2>2
<1>6. delayed' \in Seq(PutOff(online'))
  <2> DEFINE n == Len(delayed)
             gone(i) == IF delayed[i].who = p
                        THEN [delayed[i] EXCEPT !.who = Nobody] ELSE delayed[i]
             m == [i \in 1..n |-> gone(i)]
             T == PutOff(online')
  <2>1. n \in Nat /\ DOMAIN delayed = 1..n /\ \A i \in 1..n : delayed[i] \in PutOff(online)
    BY DEF ConditionInv
  <2>2. \A i \in 1..n : gone(i) \in T
    BY <1>1, <2>1 DEF PutOff
  <2>3. delayed' = m
    BY <2>1 DEF Logout
  <2> HIDE DEF gone, n, T
  <2>4. m = [i \in 1..n |-> m[i]] /\ \A i \in 1..n : m[i] \in T
    BY <2>2
  <2> HIDE DEF m
  <2>5. m \in Seq(T)
    BY <2>1, <2>4, MadeSeq
  <2> QED BY <2>3, <2>5 DEF T
<1>7. online' \subseteq Players
  BY <1>1 DEF ConditionInv
<1> QED BY <1>1, <1>3, <1>4, <1>5, <1>6, <1>7 DEF ConditionInv

\* The static list with the row in front.
LEMMA LoadedSeq ==
  ASSUME ConditionInv, NEW p \in Players
  PROVE  Loaded(p) \in Seq(Loadable)
<1>1. rows[p] \subseteq Loadable /\ IsFiniteSet(rows[p]) /\ stored \in Seq(Loadable)
  BY DEF ConditionInv
<1>2. SetToSeq(rows[p]) \in Seq(rows[p])
  BY <1>1, RowSequence
<1>3. SetToSeq(rows[p]) \in Seq(Loadable)
  BY <1>1, <1>2, WiderSeq
<1>4. SetToSeq(rows[p]) \o stored \in Seq(Loadable)
  BY <1>1, <1>3, ConcatProperties
<1> QED BY <1>4 DEF Loaded

\* A login, which places the player or fails.
LEMMA EnterGameInv ==
  ASSUME ConditionInv, NEW p \in Players, NEW placed \in BOOLEAN, EnterGame(p, placed)
  PROVE  ConditionInv'
<1>1. Loaded(p) \in Seq(Loadable) /\ Loaded(p) \in Seq(Condition)
  <2>1. Loadable \subseteq Condition
    BY DEF Loadable
  <2> QED BY <2>1, LoadedSeq, WiderSeq
<1>2. rows' = rows
  BY DEF EnterGame
<1>3. CASE ~placed
  <2>1. stored' = Loaded(p) /\ UNCHANGED <<online, conditions, effects, delayed>>
    BY <1>3 DEF EnterGame
  <2> QED BY <1>1, <1>2, <2>1 DEF ConditionInv
<1>4. CASE placed
  <2> DEFINE fresh == State({}, NoEffects, <<>>)
             s == Added(fresh, Loaded(p))
  <2>1. online' = online \cup {p} /\ Becomes(p, s) /\ stored' = <<>>
    BY <1>4 DEF EnterGame, Added, State
  <2>2. Right(fresh)
    <3>1. <<>> \in Seq(Event)
      OBVIOUS
    <3> QED BY <3>1, NothingExact, RightMade
  <2> HIDE DEF fresh
  <2>3. Right(s)
    BY <1>1, <2>2, AddedRight
  <2> HIDE DEF s
  <2>4. /\ conditions' = [conditions EXCEPT ![p] = s.list]
        /\ effects' = [effects EXCEPT ![p] = s.eff]
        /\ delayed' = delayed \o [i \in 1..Len(s.later) |-> [who |-> p, event |-> s.later[i]]]
    BY <2>1 DEF Becomes
  <2>5. delayed \in Seq(PutOff(online)) /\ stored' \in Seq(Loadable)
    BY <2>1 DEF ConditionInv
  <2> QED BY <1>2, <2>1, <2>3, <2>4, <2>5, OperationInv
<1> QED BY <1>3, <1>4

\* A player who is not in the game is loaded.
LEMMA LoadOfflineInv ==
  ASSUME ConditionInv, NEW p \in Players, NEW writes \in BOOLEAN, LoadOffline(p, writes)
  PROVE  ConditionInv'
<1>1. stored' = Loaded(p) /\ UNCHANGED <<online, conditions, effects, delayed>>
  BY DEF LoadOffline
<1>2. rows' = [rows EXCEPT ![p] = {}] \/ rows' = rows
  BY DEF LoadOffline
<1>3. rows' \in [Players -> SUBSET Loadable] /\ \A q \in Players : IsFiniteSet(rows'[q])
  BY <1>2, FS_EmptySet DEF ConditionInv
<1>4. stored' \in Seq(Loadable)
  BY <1>1, LoadedSeq
<1> QED BY <1>1, <1>3, <1>4 DEF ConditionInv

\* Every step keeps the invariant.
LEMMA ConditionNextInv ==
  ASSUME ConditionInv, [ConditionNext]_conditionVars
  PROVE  ConditionInv'
<1>1. ASSUME NEW p \in Players, NEW t \in Templates,
             NEW force \in BOOLEAN, NEW walking \in BOOLEAN, Add(p, t, force, walking)
      PROVE  ConditionInv'
  BY <1>1, AddInv
<1>2. ASSUME NEW p \in Players, NEW force \in BOOLEAN, NEW walking \in BOOLEAN,
             NEW c \in conditions[p], RemoveByScript(p, c, force, walking)
      PROVE  ConditionInv'
  BY <1>2, RemoveByScriptInv
<1>3. ASSUME NEW p \in Players, NEW type \in Types, DeEquip(p, type)
      PROVE  ConditionInv'
  BY <1>3, DeEquipInv
<1>4. ASSUME NEW p \in Players, NEW type \in Types,
             NEW acting \in BOOLEAN, NEW walking \in BOOLEAN,
             Dispel(p, type, acting, walking)
      PROVE  ConditionInv'
  BY <1>4, DispelInv
<1>5. ASSUME NEW i \in DOMAIN delayed, RunDelayed(i)
      PROVE  ConditionInv'
  BY <1>5, RunDelayedInv
<1>6. ASSUME Tick PROVE ConditionInv'
  BY <1>6, TickInv
<1>7. ASSUME NEW p \in Players, Think(p) \/ Death(p) \/ Save(p)
      PROVE  ConditionInv'
  BY <1>7, ThinkInv, DeathInv, SaveInv
<1>8. ASSUME NEW p \in Players, NEW saved \in BOOLEAN, Logout(p, saved)
      PROVE  ConditionInv'
  BY <1>8, LogoutInv
<1>9. ASSUME NEW p \in Players, NEW placed \in BOOLEAN, EnterGame(p, placed)
      PROVE  ConditionInv'
  BY <1>9, EnterGameInv
<1>10. ASSUME NEW p \in Players, NEW writes \in BOOLEAN, LoadOffline(p, writes)
       PROVE  ConditionInv'
  BY <1>10, LoadOfflineInv
<1>11. ASSUME UNCHANGED conditionVars PROVE ConditionInv'
  BY <1>11 DEF conditionVars, ConditionInv
<1> QED BY <1>1, <1>2, <1>3, <1>4, <1>5, <1>6, <1>7, <1>8, <1>9, <1>10, <1>11
        DEF ConditionNext

\* The invariant holds in every state.
LEMMA ConditionInvariant == ConditionSpec => []ConditionInv
<1>1. ConditionInit => ConditionInv
  BY ConditionInitInv
<1>2. ConditionInv /\ [ConditionNext]_conditionVars => ConditionInv'
  BY ConditionNextInv
<1> QED BY <1>1, <1>2, PTL DEF ConditionSpec

\* The invariant has the types of the variables.
LEMMA ConditionTypes == ConditionInv => ConditionTypeOK
<1> SUFFICES ASSUME ConditionInv PROVE ConditionTypeOK
  OBVIOUS
<1> DEFINE IsCondition(c) == /\ c.type \in Types /\ c.id \in Ids
                             /\ c.left \in {Forever} \cup Nat
                             /\ c.owner \in Players
<1>1. \A c \in Condition : IsCondition(c)
  BY DEF Condition
<1> HIDE DEF IsCondition
<1>2. ASSUME NEW p \in Players
      PROVE  /\ \A c \in conditions[p] : IsCondition(c) /\ ~c.over
             /\ \A c \in rows[p] : IsCondition(c) /\ ~c.over
  <2>1. conditions[p] \subseteq Loadable /\ rows[p] \subseteq Loadable
    BY DEF ConditionInv, Listable, Loadable
  <2> QED BY <1>1, <2>1 DEF Loadable
<1>3. \A c \in Range(stored) : IsCondition(c) /\ ~c.over
  <2>1. Range(stored) \subseteq Loadable
    BY DEF ConditionInv, Range
  <2> QED BY <1>1, <2>1 DEF Loadable
<1>4. online \subseteq Players
  BY DEF ConditionInv
<1> QED BY <1>2, <1>3, <1>4 DEF ConditionTypeOK, IsCondition

\* However conditions are added, merged, put off, dispelled, timed out, saved
\* and reloaded, the creature is what its list says (addCondition,
\* removeCondition and executeConditions with the addCondition and
\* EndCondition of each kind).
THEOREM ConditionsExact == ConditionSpec => []EffectsExact
<1>1. ConditionInv => EffectsExact
  <2> SUFFICES ASSUME ConditionInv PROVE EffectsExact
    OBVIOUS
  <2>1. ASSUME NEW p \in Players
        PROVE  /\ \A c, d \in conditions[p] : c.type = d.type /\ c.id = d.id => c = d
               /\ effects[p].speed = Total(conditions[p], SpeedTypes)
               /\ effects[p].stats = Total(conditions[p], {"attributes"})
               /\ effects[p].visible <=> ~Active(p, "invisible")
               /\ effects[p].drunk # 0 => Active(p, "drunk")
               /\ effects[p].outfit # 0 => Active(p, "outfit")
               /\ ~effects[p].defense =>
                    \E c \in conditions[p] : c.type = "attributes" /\ c.disables
               /\ p \notin online => conditions[p] = {}
    <3>1. /\ Listable(conditions[p]) /\ Exact(conditions[p], effects[p])
          /\ p \notin online => conditions[p] = {}
      BY DEF ConditionInv
    <3>2. \A t : Has(conditions[p], t) <=> Active(p, t)
      BY DEF Has, Active
    <3> QED BY <3>1, <3>2 DEF Listable, SameKey, Exact
  <2>2. \A i \in DOMAIN delayed : delayed[i].who \in online \cup {Nobody}
    <3>1. \A i \in DOMAIN delayed : delayed[i] \in PutOff(online)
      BY DEF ConditionInv
    <3> QED BY <3>1 DEF PutOff
  <2> QED BY <2>1, <2>2, ConditionTypes DEF EffectsExact
<1> QED BY <1>1, ConditionInvariant, PTL
=============================================================================
