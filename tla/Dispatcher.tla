----------------------------- MODULE Dispatcher -----------------------------
(***************************************************************************)
(* The dispatcher thread (tasks.cpp, tasks.h, thread_holder_base.h): the   *)
(* one thread that runs the game.  Network, scheduler and database threads *)
(* hand it tasks with addTask; it swaps the whole list out under taskLock  *)
(* and runs the batch without the lock.  A critical section of taskLock is *)
(* one action; notify_one comes after the unlock and is an action of its   *)
(* own.  The model follows the queue from start() to join().               *)
(***************************************************************************)
EXTENDS Naturals, Sequences

CONSTANTS
  Producers,      \* threads that call addTask
  UserTasks,      \* the tasks they post
  Expiring,       \* those created with an expiration time
  CloseRequest,   \* the task that calls setGameState(GAME_STATE_SHUTDOWN)
  GameShutdown,   \* the task [this]() { shutdown(); } that call posts
  Terminate       \* the task Dispatcher::shutdown posts

ASSUME TasksAssumption ==
  /\ CloseRequest \in UserTasks \ Expiring
  /\ Expiring \subseteq UserTasks
  /\ GameShutdown \notin UserTasks
  /\ Terminate \notin UserTasks
  /\ GameShutdown # Terminate

Task == UserTasks \cup {GameShutdown, Terminate}

VARIABLES
  threadState,    \* ThreadHolder::threadState
  taskList,       \* Dispatcher::taskList, shared, guarded by taskLock
  tmpTaskList,    \* threadMain's batch, what is left of it
  dpc,            \* where the dispatcher thread is in threadMain
  ppc,            \* ppc[p]: "idle", or "notify" between unlock and notify_one
  loaderFailed,   \* mainLoader gave up: main thread shuts the dispatcher down
  accepted,       \* history: tasks pushed to taskList, in order
  processed,      \* history: tasks taken from a batch, in order
  executed        \* history: tasks whose function ran

vars == <<threadState, taskList, tmpTaskList, dpc, ppc, loaderFailed,
          accepted, processed, executed>>

queueVars == <<taskList, accepted>>
threadVars == <<tmpTaskList, processed, executed>>

\* the tasks a list holds
TasksOf(s) == {s[i] : i \in 1 .. Len(s)}

(* The variables have the types the code declares, and threadMain holds a  *)
(* batch only while it is running it.                                      *)
TypeOK ==
  /\ threadState \in {"RUNNING", "CLOSING", "TERMINATED"}
  /\ taskList \in Seq(Task)
  /\ tmpTaskList \in Seq(Task)
  /\ dpc \in {"check", "lock", "waiting", "woken", "run", "stopping", "done"}
  /\ ppc \in [Producers -> {"idle", "notify"}]
  /\ loaderFailed \in BOOLEAN
  /\ accepted \in Seq(Task)
  /\ processed \in Seq(Task)
  /\ executed \subseteq Task
  /\ tmpTaskList # <<>> => dpc \in {"run", "stopping"}

Init ==
  /\ threadState = "RUNNING"
  /\ taskList = <<>>
  /\ tmpTaskList = <<>>
  /\ dpc = "check"
  /\ ppc = [p \in Producers |-> "idle"]
  /\ loaderFailed \in BOOLEAN
  /\ accepted = <<>>
  /\ processed = <<>>
  /\ executed = {}

-----------------------------------------------------------------------------
(* taskSignal.notify_one(): the dispatcher thread is its only waiter.      *)
NotifyOne == dpc' = IF dpc = "waiting" THEN "woken" ELSE dpc

Push(t) ==
  /\ taskList' = Append(taskList, t)
  /\ accepted' = Append(accepted, t)

\* mutants: addTask ignores the state; it signals on the wrong condition
AcceptsAlways == TRUE
SignalsIfNotEmpty == taskList # <<>>

\* getState() == THREAD_STATE_RUNNING, read under taskLock
Accepts == threadState = "RUNNING"

\* do_signal = taskList.empty(), read before the push
DoSignal == taskList = <<>>

Fresh(t) ==
  /\ t \notin TasksOf(accepted)
  /\ loaderFailed => t # CloseRequest

(* addTask from another thread, up to the unlock.                          *)
AddTask(p, t) ==
  /\ ppc[p] = "idle"
  /\ Fresh(t)
  /\ Accepts
  /\ Push(t)
  /\ ppc' = [ppc EXCEPT ![p] = IF DoSignal THEN "notify" ELSE "idle"]
  /\ UNCHANGED <<threadState, dpc, loaderFailed, threadVars>>

(* addTask's notify_one, after the unlock.                                 *)
Signal(p) ==
  /\ ppc[p] = "notify"
  /\ ppc' = [ppc EXCEPT ![p] = "idle"]
  /\ NotifyOne
  /\ UNCHANGED <<threadState, loaderFailed, queueVars, threadVars>>

(* startServer after a failed load: g_dispatcher.shutdown() on the main    *)
(* thread, the state still RUNNING.  Push and notify under taskLock.       *)
MainShutdown ==
  /\ loaderFailed
  /\ Terminate \notin TasksOf(accepted)
  /\ Push(Terminate)
  /\ NotifyOne
  /\ UNCHANGED <<threadState, ppc, loaderFailed, threadVars>>

-----------------------------------------------------------------------------
\* mutant: the loop ends as soon as stop() was called
RunsWhileRunning == threadState = "RUNNING"

\* while (getState() != THREAD_STATE_TERMINATED), read without the lock
KeepsRunning == threadState # "TERMINATED"

CheckState ==
  /\ dpc = "check"
  /\ dpc' = IF KeepsRunning THEN "lock" ELSE "done"
  /\ UNCHANGED <<threadState, ppc, loaderFailed, queueVars, threadVars>>

(* taskSignal.wait: gives up the lock and joins the wait set in one step.  *)
Wait ==
  /\ dpc = "lock"
  /\ taskList = <<>>
  /\ dpc' = "waiting"
  /\ UNCHANGED <<threadState, ppc, loaderFailed, queueVars, threadVars>>

(* The wait is not in a loop: a spurious wakeup swaps an empty list in.    *)
SpuriousWakeup ==
  /\ dpc = "waiting"
  /\ dpc' = "woken"
  /\ UNCHANGED <<threadState, ppc, loaderFailed, queueVars, threadVars>>

\* mutant: the batch is copied and the shared list not emptied
SwapCopies ==
  /\ \/ dpc = "lock" /\ taskList # <<>>
     \/ dpc = "woken"
  /\ tmpTaskList' = taskList
  /\ dpc' = "run"
  /\ UNCHANGED <<threadState, taskList, ppc, loaderFailed, accepted, processed,
                 executed>>

(* tmpTaskList.swap(taskList) under the lock.                              *)
Swap ==
  /\ \/ dpc = "lock" /\ taskList # <<>>
     \/ dpc = "woken"
  /\ tmpTaskList' = taskList
  /\ taskList' = tmpTaskList
  /\ dpc' = "run"
  /\ UNCHANGED <<threadState, ppc, loaderFailed, accepted, processed, executed>>

\* mutant: the loop over the batch ends after one task
EndBatchEarly ==
  /\ dpc = "run"
  /\ dpc' = "check"
  /\ UNCHANGED <<threadState, ppc, loaderFailed, queueVars, threadVars>>

(* The batch is done: tmpTaskList.clear().                                 *)
EndBatch ==
  /\ dpc = "run"
  /\ tmpTaskList = <<>>
  /\ dpc' = "check"
  /\ UNCHANGED <<threadState, ppc, loaderFailed, queueVars, threadVars>>

Take ==
  /\ dpc = "run"
  /\ tmpTaskList # <<>>
  /\ processed' = Append(processed, Head(tmpTaskList))
  /\ tmpTaskList' = Tail(tmpTaskList)

Execute(t) ==
  /\ Take
  /\ t = Head(tmpTaskList)
  /\ executed' = executed \cup {t}

(* hasExpired(): the task is deleted unrun.                                *)
SkipExpired ==
  /\ Take
  /\ Head(tmpTaskList) \in Expiring
  /\ UNCHANGED <<threadState, dpc, ppc, loaderFailed, queueVars, executed>>

(* A game task; it may itself call addTask on the dispatcher thread.       *)
RunTask(t) ==
  /\ t \in UserTasks \ {CloseRequest}
  /\ Execute(t)
  /\ \/ UNCHANGED queueVars
     \/ Accepts /\ \E u \in UserTasks : Fresh(u) /\ Push(u)
  /\ UNCHANGED <<threadState, dpc, ppc, loaderFailed>>

(* Game::setGameState(GAME_STATE_SHUTDOWN): addTask(shutdown) ...          *)
RunCloseRequest ==
  /\ Execute(CloseRequest)
  /\ IF Accepts THEN Push(GameShutdown) ELSE UNCHANGED queueVars
  /\ dpc' = "stopping"
  /\ UNCHANGED <<threadState, ppc, loaderFailed>>

(* ... then g_dispatcher.stop(), which takes no lock.                      *)
Stop ==
  /\ dpc = "stopping"
  /\ threadState' = "CLOSING"
  /\ dpc' = "run"
  /\ UNCHANGED <<ppc, loaderFailed, queueVars, threadVars>>

(* Game::shutdown calls Dispatcher::shutdown, which pushes in any state.   *)
RunGameShutdown ==
  /\ Execute(GameShutdown)
  /\ Push(Terminate)
  /\ UNCHANGED <<threadState, dpc, ppc, loaderFailed>>

RunTerminate ==
  /\ Execute(Terminate)
  /\ threadState' = "TERMINATED"
  /\ UNCHANGED <<dpc, ppc, loaderFailed, queueVars>>

DispatcherStep ==
  \/ CheckState
  \/ Wait
  \/ Swap
  \/ EndBatch
  \/ SkipExpired
  \/ \E t \in UserTasks : RunTask(t)
  \/ RunCloseRequest
  \/ Stop
  \/ RunGameShutdown
  \/ RunTerminate

Next ==
  \/ \E p \in Producers, t \in UserTasks : AddTask(p, t)
  \/ \E p \in Producers : Signal(p)
  \/ MainShutdown
  \/ SpuriousWakeup
  \/ DispatcherStep

\* threadMain keeps running and a producer that is about to signal does so;
\* nobody is obliged to post a task, and no wakeup comes by itself.
Fairness ==
  /\ WF_vars(DispatcherStep)
  /\ \A p \in Producers : WF_vars(Signal(p))

Spec == Init /\ [][Next]_vars
FairSpec == Spec /\ Fairness

-----------------------------------------------------------------------------
(* A thread asleep on taskSignal while taskList has tasks is about to be   *)
(* woken: addTask signals only when it found the list empty, and that      *)
(* signal has not been delivered yet.                                      *)
NoLostWakeup ==
  dpc = "waiting" /\ taskList # <<>> => \E p \in Producers : ppc[p] = "notify"

(* After the shutdown the game itself orders, no accepted task is left     *)
(* behind unprocessed: stop() closes the queue before shutdown() pushes    *)
(* the terminating task, so that task is the last one.                     *)
NothingLeftBehind ==
  dpc = "done" /\ ~loaderFailed => processed = accepted

(* The dispatcher implements the abstract queue: the tasks come out in the *)
(* order addTask took them, none twice, whatever the batches were.         *)
Queue == INSTANCE TaskQueue
ImplementsTaskQueue == Queue!Spec

(* Every task addTask accepted is run or found expired, as long as the     *)
(* main thread has not cut the queue short after a failed load; and once   *)
(* the terminating task is queued the thread leaves threadMain, so that    *)
(* startServer's g_dispatcher.join() returns.                              *)
EveryTaskProcessed ==
  /\ \A t \in Task :
       (t \in TasksOf(accepted) /\ ~loaderFailed) ~> (t \in TasksOf(processed))
  /\ (Terminate \in TasksOf(accepted)) ~> (dpc = "done")

=============================================================================
