--------------------------- MODULE DatabaseTasks ---------------------------
(***************************************************************************)
(* The asynchronous database queue (databasetasks.cpp, databasetasks.h)    *)
(* and the saves of players beside it.  The game posts queries from the    *)
(* dispatcher thread; a thread of its own runs them one by one.  flush(),  *)
(* called by saveGameState and shutdown(), runs queued queries on the      *)
(* dispatcher thread at the same time.  The queue has a connection of its  *)
(* own, db, on which a query is one action, like a critical section of     *)
(* taskLock.  The dispatcher thread saves players in transactions over the *)
(* game's connection (Database.tla), at a logout or in saveGameState.      *)
(***************************************************************************)
EXTENDS Database, Sequences, SequencesExt

CONSTANTS
  Queries,       \* the DatabaseTasks the game posts
  WithCallback,  \* those with a callback
  NoQuery        \* no task in hand

ASSUME QueriesAssumption == WithCallback \subseteq Queries /\ NoQuery \notin Queries

VARIABLES
  threadState,     \* ThreadHolder::threadState of g_databaseTasks
  tasks,           \* DatabaseTasks::tasks, guarded by taskLock
  dpc,             \* where the database thread is in threadMain
  held,            \* held[t]: the task thread t has popped and runs
  gpc,             \* where the dispatcher thread is in the calls below
  purpose,         \* which call saves or runs flush(): "logout", "save",
                   \* "close" or "shutdown"
  version,         \* the version of the player that is being saved
  step,            \* how many statements of savePlayer are done
  tries,           \* how often savePlayer may still be called
  saved,           \* the last call of savePlayer returned true
  dispatcherOpen,  \* g_dispatcher still accepts tasks
  accepted,        \* history: queries pushed to tasks, in order
  executed,        \* history: queries sent to the database, in order
  callbacks,       \* history: callbacks handed to the dispatcher
  dropped          \* history: callbacks the closed dispatcher deleted

saveVars == <<version, step, tries, saved>>

vars == <<threadState, tasks, dpc, held, gpc, purpose, dispatcherOpen,
          accepted, executed, callbacks, dropped, saveVars, dbVars>>

queueVars == <<tasks, accepted>>
resultVars == <<executed, callbacks, dropped>>

Threads == {"database", "game"}

(* Types; a query is in one place at a time: the list, a thread's hand or  *)
(* the database.                                                           *)
TypeOK ==
  /\ threadState \in {"RUNNING", "CLOSING", "TERMINATED"}
  /\ tasks \in Seq(Queries)
  /\ dpc \in {"check", "lock", "waiting", "woken", "run", "post", "done"}
  /\ held \in [Threads -> Queries \cup {NoQuery}]
  /\ gpc \in {"idle", "notify", "begin", "save", "rollback", "flush", "run",
              "post", "stopping", "closed", "wake", "down"}
  /\ purpose \in {"logout", "save", "close", "shutdown"}
  /\ version \in Versions /\ step \in 0 .. 3 /\ tries \in 0 .. 3
  /\ saved \in BOOLEAN
  /\ DatabaseTypeOK
  /\ dispatcherOpen \in BOOLEAN
  /\ accepted \in Seq(Queries) /\ executed \in Seq(Queries)
  /\ callbacks \subseteq WithCallback /\ dropped \subseteq WithCallback
  /\ ToSet(tasks) \cap (ToSet(executed) \cup {held[t] : t \in Threads}) = {}

Init ==
  /\ threadState = "RUNNING"
  /\ tasks = <<>>
  /\ dpc = "check"
  /\ held = [t \in Threads |-> NoQuery]
  /\ gpc = "idle"
  /\ purpose = "save"
  /\ dispatcherOpen = TRUE
  /\ accepted = <<>> /\ executed = <<>>
  /\ callbacks = {} /\ dropped = {}
  /\ version = 0 /\ step = 0 /\ tries = 0 /\ saved = TRUE
  /\ DatabaseInit

-----------------------------------------------------------------------------
(* Popping and running a task, the same on both threads.                   *)

\* mutant: the task is copied and stays in the list
PopKeeps(t) ==
  /\ tasks # <<>>
  /\ held' = [held EXCEPT ![t] = Head(tasks)]
  /\ UNCHANGED queueVars

\* task = move(tasks.front()); tasks.pop_front(), under taskLock
Pop(t) ==
  /\ tasks # <<>>
  /\ held' = [held EXCEPT ![t] = Head(tasks)]
  /\ tasks' = Tail(tasks)
  /\ UNCHANGED accepted

\* runTask: db.executeQuery or db.storeQuery
RunQuery(t) ==
  /\ executed' = Append(executed, held[t])
  /\ UNCHANGED <<held, callbacks, dropped>>

\* if (task.callback)
Posts(t) == held[t] \in WithCallback

\* runTask: g_dispatcher.addTask(callback)
PostCallback(t) ==
  /\ held' = [held EXCEPT ![t] = NoQuery]
  /\ callbacks' = callbacks \cup (IF Posts(t) /\ dispatcherOpen THEN {held[t]} ELSE {})
  /\ dropped' = dropped \cup (IF Posts(t) /\ ~dispatcherOpen THEN {held[t]} ELSE {})
  /\ UNCHANGED executed

-----------------------------------------------------------------------------
(* DatabaseTasks::threadMain.                                              *)

\* while (getState() != THREAD_STATE_TERMINATED), read without the lock
CheckState ==
  /\ dpc = "check"
  /\ dpc' = IF threadState # "TERMINATED" THEN "lock" ELSE "done"
  /\ UNCHANGED <<threadState, held, gpc, purpose, dispatcherOpen, queueVars,
                 resultVars, saveVars, dbVars>>

Wait ==
  /\ dpc = "lock" /\ tasks = <<>>
  /\ dpc' = "waiting"
  /\ UNCHANGED <<threadState, held, gpc, purpose, dispatcherOpen, queueVars,
                 resultVars, saveVars, dbVars>>

SpuriousWakeup ==
  /\ dpc = "waiting"
  /\ dpc' = "woken"
  /\ UNCHANGED <<threadState, held, gpc, purpose, dispatcherOpen, queueVars,
                 resultVars, saveVars, dbVars>>

Take ==
  /\ dpc \in {"lock", "woken"}
  /\ Pop("database")
  /\ dpc' = "run"
  /\ UNCHANGED <<threadState, gpc, purpose, dispatcherOpen, resultVars,
                 saveVars, dbVars>>

\* woken, and the list is empty again: flush() took the tasks
TakeNothing ==
  /\ dpc = "woken" /\ tasks = <<>>
  /\ dpc' = "check"
  /\ UNCHANGED <<threadState, held, gpc, purpose, dispatcherOpen, queueVars,
                 resultVars, saveVars, dbVars>>

DatabaseRun ==
  /\ dpc = "run"
  /\ RunQuery("database")
  /\ dpc' = "post"
  /\ UNCHANGED <<threadState, gpc, purpose, dispatcherOpen, queueVars,
                 saveVars, dbVars>>

DatabasePost ==
  /\ dpc = "post"
  /\ PostCallback("database")
  /\ dpc' = "check"
  /\ UNCHANGED <<threadState, gpc, purpose, dispatcherOpen, queueVars,
                 saveVars, dbVars>>

-----------------------------------------------------------------------------
(* The dispatcher thread.                                                  *)

NotifyOne == dpc' = IF dpc = "waiting" THEN "woken" ELSE dpc

\* mutant: signals when the list was not empty
SignalsIfNotEmpty == tasks # <<>>

\* signal = tasks.empty(), read before the push
SignalsIfEmpty == tasks = <<>>

\* mutant: the query is put at the front
AddTaskFront(q) ==
  /\ gpc = "idle"
  /\ q \notin ToSet(accepted)
  /\ threadState = "RUNNING"
  /\ tasks' = <<q>> \o tasks
  /\ accepted' = Append(accepted, q)
  /\ gpc' = IF SignalsIfEmpty THEN "notify" ELSE "idle"
  /\ UNCHANGED <<threadState, dpc, held, purpose, dispatcherOpen, resultVars,
                 saveVars, dbVars>>

(* addTask up to the unlock.  Tasks that still run between stop() and      *)
(* shutdown() find the state changed and their query is not accepted.      *)
AddTask(q) ==
  /\ gpc = "idle"
  /\ q \notin ToSet(accepted)
  /\ threadState = "RUNNING"
  /\ tasks' = Append(tasks, q)
  /\ accepted' = Append(accepted, q)
  /\ gpc' = IF SignalsIfEmpty THEN "notify" ELSE "idle"
  /\ UNCHANGED <<threadState, dpc, held, purpose, dispatcherOpen, resultVars,
                 saveVars, dbVars>>

Signal ==
  /\ gpc = "notify"
  /\ NotifyOne
  /\ gpc' = "idle"
  /\ UNCHANGED <<threadState, held, purpose, dispatcherOpen, queueVars,
                 resultVars, saveVars, dbVars>>

(* A player is saved: at the logout, which tries three times, or by        *)
(* saveGameState, by itself or in setGameState(GAME_STATE_SHUTDOWN), once. *)
SavePlayer(why) ==
  /\ gpc = "idle"
  /\ gpc' = "begin"
  /\ purpose' = why
  /\ version' = 1 - version
  /\ tries' = IF why = "logout" THEN 3 ELSE 1
  /\ saved' = FALSE
  /\ UNCHANGED <<threadState, dpc, held, dispatcherOpen, step, queueVars,
                 resultVars, dbVars>>

\* what follows: saveGameState calls flush()
AfterSave == IF purpose = "logout" THEN "idle" ELSE "flush"

\* savePlayer returns
Returns(success) ==
  LET left == IF success THEN 0 ELSE tries - 1
  IN /\ saved' = success
     /\ tries' = left
     /\ step' = 0
     /\ gpc' = IF left > 0 THEN "begin" ELSE AfterSave

SaveBegin ==
  /\ gpc = "begin"
  /\ BeginTransaction
  /\ gpc' = "save"
  /\ UNCHANGED saveVars

\* the statements: UPDATE the row, DELETE the items, INSERT them
SaveStep ==
  CASE step = 0 -> [work EXCEPT !.row = version]
    [] step = 1 -> [work EXCEPT !.items = Deleted]
    [] step = 2 -> [work EXCEPT !.items = version]

SaveStatement ==
  /\ gpc = "save" /\ step < 3
  /\ Statement(SaveStep)
  /\ step' = step + 1
  /\ UNCHANGED <<gpc, version, tries, saved>>

\* the connection is lost where a query may try again
SaveAgain ==
  /\ gpc \in {"begin", "save"}
  /\ Reconnect
  /\ UNCHANGED <<gpc, saveVars>>

\* a statement fails: return false, and ~DBTransaction
SaveFails ==
  /\ gpc = "save" /\ step < 3
  /\ QueryFails
  /\ gpc' = "rollback"
  /\ UNCHANGED saveVars

SaveRollback ==
  /\ gpc = "rollback"
  /\ Rollback
  /\ Returns(FALSE)
  /\ UNCHANGED version

\* return transaction.commit()
SaveCommit ==
  /\ gpc = "save" /\ step = 3
  /\ \/ Commit /\ Returns(connected)
     \/ CommitAnswerLost /\ Returns(FALSE)
  /\ UNCHANGED version

SaveCall ==
  /\ \/ SaveBegin \/ SaveStatement \/ SaveAgain
     \/ SaveFails \/ SaveRollback \/ SaveCommit
  /\ UNCHANGED <<threadState, dpc, held, purpose, dispatcherOpen, queueVars,
                 resultVars>>

FlushTake ==
  /\ gpc = "flush"
  /\ Pop("game")
  /\ gpc' = "run"
  /\ UNCHANGED <<threadState, dpc, purpose, dispatcherOpen, resultVars,
                 saveVars, dbVars>>

FlushRun ==
  /\ gpc = "run"
  /\ RunQuery("game")
  /\ gpc' = "post"
  /\ UNCHANGED <<threadState, dpc, purpose, dispatcherOpen, queueVars,
                 saveVars, dbVars>>

\* mutant: flush() runs one task only
FlushPostOnce ==
  /\ gpc = "post"
  /\ PostCallback("game")
  /\ gpc' = CASE purpose = "save" -> "idle"
              [] purpose = "close" -> "stopping"
              [] purpose = "shutdown" -> "wake"
  /\ UNCHANGED <<threadState, dpc, purpose, dispatcherOpen, queueVars,
                 saveVars, dbVars>>

FlushPost ==
  /\ gpc = "post"
  /\ PostCallback("game")
  /\ gpc' = "flush"
  /\ UNCHANGED <<threadState, dpc, purpose, dispatcherOpen, queueVars,
                 saveVars, dbVars>>

FlushEnd ==
  /\ gpc = "flush" /\ tasks = <<>>
  /\ gpc' = CASE purpose = "save" -> "idle"
              [] purpose = "close" -> "stopping"
              [] purpose = "shutdown" -> "wake"
  /\ UNCHANGED <<threadState, dpc, held, purpose, dispatcherOpen, queueVars,
                 resultVars, saveVars, dbVars>>

\* setGameState: g_databaseTasks.stop()
Stop ==
  /\ gpc = "stopping"
  /\ threadState' = "CLOSING"
  /\ gpc' = "closed"
  /\ UNCHANGED <<dpc, held, purpose, dispatcherOpen, queueVars, resultVars,
                 saveVars, dbVars>>

\* setGameState: g_dispatcher.stop()
StopDispatcher ==
  /\ gpc = "closed" /\ dispatcherOpen
  /\ dispatcherOpen' = FALSE
  /\ UNCHANGED <<threadState, dpc, held, gpc, purpose, queueVars, resultVars,
                 saveVars, dbVars>>

(* Game::shutdown, the task setGameState posted: the state first, then     *)
(* flush() ...                                                             *)
Shutdown ==
  /\ gpc = "closed" /\ ~dispatcherOpen
  /\ threadState' = "TERMINATED"
  /\ gpc' = "flush"
  /\ purpose' = "shutdown"
  /\ UNCHANGED <<dpc, held, dispatcherOpen, queueVars, resultVars, saveVars,
                 dbVars>>

\* ... then notify_one, without the lock
ShutdownSignal ==
  /\ gpc = "wake"
  /\ NotifyOne
  /\ gpc' = "down"
  /\ UNCHANGED <<threadState, held, purpose, dispatcherOpen, queueVars,
                 resultVars, saveVars, dbVars>>

DatabaseThread ==
  \/ CheckState \/ Wait \/ Take \/ TakeNothing
  \/ DatabaseRun \/ DatabasePost

GameCall ==
  \/ Signal \/ SaveCall
  \/ FlushTake \/ FlushRun \/ FlushPost \/ FlushEnd
  \/ Stop \/ StopDispatcher \/ Shutdown \/ ShutdownSignal

Next ==
  \/ DatabaseThread
  \/ SpuriousWakeup
  \/ GameCall
  \/ \E q \in Queries : AddTask(q)
  \/ \E why \in {"logout", "save", "close"} : SavePlayer(why)
  \/ LoseConnection /\ UNCHANGED <<threadState, tasks, dpc, held, gpc, purpose,
                       dispatcherOpen, accepted, executed, callbacks, dropped,
                       saveVars>>

\* both threads finish the calls they are in; no call has to be made, and
\* the operating system owes no spurious wakeup.
Fairness ==
  /\ WF_vars(DatabaseThread)
  /\ WF_vars(GameCall)

Spec == Init /\ [][Next]_vars
FairSpec == Spec /\ Fairness

-----------------------------------------------------------------------------
(* flush() runs beside the database thread and can overtake it, but only   *)
(* by the one query that thread has in hand: of two accepted queries the   *)
(* later is executed first only while the earlier is held.                 *)
OnlyHeldQueryIsOvertaken ==
  \A i, j \in 1 .. Len(accepted) :
    /\ i < j
    /\ accepted[j] \in ToSet(executed)
    /\ accepted[i] \notin ToSet(executed)
    => \E t \in Threads : held[t] = accepted[i]

(* When saveGameState has flushed for a shutdown, every accepted query is  *)
(* in the database but the one the database thread is running, and none    *)
(* was sent twice.                                                         *)
ShutdownFlushesAll ==
  /\ IsInjective(executed)
  /\ gpc \in {"stopping", "closed", "wake", "down"} =>
       ToSet(accepted) \subseteq ToSet(executed) \cup {held["database"]}

(* Whatever statement of savePlayer fails, and wherever the connection is  *)
(* lost, even with the answer of the COMMIT: what lasts of a player is of  *)
(* one save, whole, and is the last one if savePlayer returned true.       *)
SavesAreWhole ==
  /\ tables.row = tables.items
  /\ saved => tables.row = version

(* Every query addTask accepted is executed, whichever thread takes it,    *)
(* and its callback reaches the dispatcher, or is deleted by it when it    *)
(* has closed.                                                             *)
EveryQueryExecuted ==
  \A q \in Queries :
    (q \in ToSet(accepted)) ~>
      /\ q \in ToSet(executed)
      /\ q \in WithCallback => q \in callbacks \/ (q \in dropped /\ ~dispatcherOpen)

(* "SIGTERM: // Shuts the server down" (signals.cpp): after                *)
(* DatabaseTasks::shutdown the thread ends, and startServer's join with it.*)
ShutdownEndsThread == (threadState = "TERMINATED") ~> (dpc = "done")
=============================================================================
