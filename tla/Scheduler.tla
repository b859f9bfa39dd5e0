----------------------------- MODULE Scheduler -----------------------------
(***************************************************************************)
(* Delayed events (scheduler.cpp, scheduler.h).  addEvent and stopEvent    *)
(* post handlers to the scheduler's io_context; its thread runs them and   *)
(* the completions of the timers in the order they were queued, and hands  *)
(* expired tasks to the dispatcher.  Delays are abstracted: a timer may    *)
(* expire at any moment.                                                   *)
(***************************************************************************)
EXTENDS Naturals, Sequences, SequencesExt

CONSTANTS
  Events,    \* SchedulerTasks the game creates
  IdRange,   \* lastEventId counts modulo this (2^32 in the code)
  NoId       \* the event was not added yet

ASSUME IdAssumption == IdRange \in Nat \ {0} /\ NoId \notin 0 .. IdRange - 1

VARIABLES
  terminated,         \* threadState = THREAD_STATE_TERMINATED
  lastEventId,
  eventId,            \* SchedulerTask::eventId, which the game keeps to stop it
  ioQueue,            \* handlers and completions ready on io_context
  ioStopped,          \* io_context.stop() was called
  eventIdTimerMap,    \* the ids that have a timer
  waiting,            \* events with an async_wait pending on their id's timer
  dispatcherOpen,     \* g_dispatcher accepts tasks
  taskList,           \* scheduled tasks in the dispatcher's list
  executed,           \* history: tasks the dispatcher ran
  deleted,            \* history: tasks deleted unrun
  stopRequested,      \* history: events stopEvent was called for
  cancelled           \* history: events whose timer a stopEvent cancelled

vars == <<terminated, lastEventId, eventId, ioQueue, ioStopped, eventIdTimerMap,
          waiting, dispatcherOpen, taskList, executed, deleted, stopRequested,
          cancelled>>

gameVars == <<terminated, lastEventId, eventId, dispatcherOpen, stopRequested>>
taskVars == <<taskList, executed, deleted>>

Ids == 0 .. IdRange - 1
Handler == [op : {"add", "expired", "aborted"}, event : Events]
             \cup [op : {"stop"}, id : Ids] \cup [op : {"shutdown"}]

(* Types; a task is deleted once: never both unrun and by the dispatcher.  *)
TypeOK ==
  /\ terminated \in BOOLEAN /\ ioStopped \in BOOLEAN /\ dispatcherOpen \in BOOLEAN
  /\ lastEventId \in Ids
  /\ eventId \in [Events -> Ids \cup {NoId}]
  /\ ioQueue \in Seq(Handler)
  /\ eventIdTimerMap \subseteq Ids
  /\ waiting \subseteq Events
  /\ taskList \in Seq(Events) /\ executed \in Seq(Events)
  /\ deleted \subseteq Events /\ stopRequested \subseteq Events
  /\ cancelled \subseteq Events
  /\ deleted \cap (ToSet(taskList) \cup ToSet(executed)) = {}

Init ==
  /\ terminated = FALSE
  /\ lastEventId = 0
  /\ eventId = [e \in Events |-> NoId]
  /\ ioQueue = <<>>
  /\ ioStopped = FALSE
  /\ eventIdTimerMap = {}
  /\ waiting = {}
  /\ dispatcherOpen = TRUE
  /\ taskList = <<>> /\ executed = <<>>
  /\ deleted = {} /\ stopRequested = {} /\ cancelled = {}

-----------------------------------------------------------------------------
(* Calls on the dispatcher thread.                                         *)

\* ++lastEventId of an atomic<uint32_t>
NextId == (lastEventId + 1) % IdRange

AddEvent(e) ==
  /\ eventId[e] = NoId
  /\ lastEventId' = NextId
  /\ eventId' = [eventId EXCEPT ![e] = NextId]
  /\ ioQueue' = Append(ioQueue, [op |-> "add", event |-> e])
  /\ UNCHANGED <<terminated, ioStopped, eventIdTimerMap, waiting, dispatcherOpen,
                 stopRequested, cancelled, taskVars>>

(* stopEvent with the id addEvent returned; it may be called late.  An id  *)
(* of 0 is taken for "no event".                                           *)
StopEvent(e) ==
  /\ eventId[e] \notin {NoId, 0}
  /\ e \notin stopRequested
  /\ stopRequested' = stopRequested \cup {e}
  /\ ioQueue' = Append(ioQueue, [op |-> "stop", id |-> eventId[e]])
  /\ UNCHANGED <<terminated, lastEventId, eventId, ioStopped, eventIdTimerMap,
                 waiting, dispatcherOpen, cancelled, taskVars>>

(* The dispatcher runs a scheduled task.                                   *)
RunTask ==
  /\ taskList # <<>>
  /\ executed' = Append(executed, Head(taskList))
  /\ taskList' = Tail(taskList)
  /\ UNCHANGED <<gameVars, ioQueue, ioStopped, eventIdTimerMap, waiting, deleted,
                 cancelled>>

\* setGameState(GAME_STATE_SHUTDOWN): g_dispatcher.stop()
StopDispatcher ==
  /\ dispatcherOpen
  /\ dispatcherOpen' = FALSE
  /\ UNCHANGED <<terminated, lastEventId, eventId, stopRequested, ioQueue, ioStopped,
                 eventIdTimerMap, waiting, cancelled, taskVars>>

\* Scheduler::shutdown, called by Game::shutdown
Shutdown ==
  /\ ~dispatcherOpen /\ ~terminated
  /\ terminated' = TRUE
  /\ ioQueue' = Append(ioQueue, [op |-> "shutdown"])
  /\ UNCHANGED <<lastEventId, eventId, dispatcherOpen, stopRequested, ioStopped,
                 eventIdTimerMap, waiting, cancelled, taskVars>>

-----------------------------------------------------------------------------
(* The scheduler thread: io_context.run().                                 *)

WaitsOn(id) == {e \in waiting : eventId[e] = id}

\* the completions of aborted waits, in some order
Aborted(S) == SetToSeq({[op |-> "aborted", event |-> e] : e \in S})

Handle(op) ==
  /\ ~ioStopped
  /\ ioQueue # <<>>
  /\ Head(ioQueue).op = op

(* A time passes: the wait completes without error.                        *)
Expire(e) ==
  /\ e \in waiting /\ ~ioStopped
  /\ waiting' = waiting \ {e}
  /\ ioQueue' = Append(ioQueue, [op |-> "expired", event |-> e])
  /\ UNCHANGED <<gameVars, ioStopped, eventIdTimerMap, cancelled, taskVars>>

(* addEvent's handler.  emplace finds the old timer when the id is still   *)
(* in use; expires_after then aborts the wait pending on it.               *)
HandleAdd ==
  /\ Handle("add")
  /\ LET e == Head(ioQueue).event
         id == eventId[e]
     IN /\ eventIdTimerMap' = eventIdTimerMap \cup {id}
        /\ waiting' = (waiting \ WaitsOn(id)) \cup {e}
        /\ ioQueue' = Tail(ioQueue) \o Aborted(WaitsOn(id))
  /\ UNCHANGED <<gameVars, ioStopped, cancelled, taskVars>>

\* mutants: the wait completes as if the time had passed; all are cancelled
HandleStopErases ==
  /\ Handle("stop")
  /\ LET id == Head(ioQueue).id
     IN /\ waiting' = waiting \ WaitsOn(id)
        /\ cancelled' = cancelled \cup WaitsOn(id)
        /\ ioQueue' = Tail(ioQueue) \o
             SetToSeq({[op |-> "expired", event |-> e] : e \in WaitsOn(id)})
  /\ UNCHANGED <<gameVars, ioStopped, eventIdTimerMap, taskVars>>

HandleStopAll ==
  /\ Handle("stop")
  /\ waiting' = {}
  /\ cancelled' = cancelled \cup waiting
  /\ ioQueue' = Tail(ioQueue) \o Aborted(waiting)
  /\ UNCHANGED <<gameVars, ioStopped, eventIdTimerMap, taskVars>>

(* stopEvent's handler: cancel() aborts the waits that have not completed. *)
HandleStop ==
  /\ Handle("stop")
  /\ LET id == Head(ioQueue).id
     IN /\ waiting' = waiting \ WaitsOn(id)
        /\ cancelled' = cancelled \cup WaitsOn(id)
        /\ ioQueue' = Tail(ioQueue) \o Aborted(WaitsOn(id))
  /\ UNCHANGED <<gameVars, ioStopped, eventIdTimerMap, taskVars>>

\* eventIdTimerMap.erase: destroying the timer aborts what waits on it
EraseTimer(id) ==
  /\ eventIdTimerMap' = eventIdTimerMap \ {id}
  /\ waiting' = waiting \ WaitsOn(id)
  /\ ioQueue' = Tail(ioQueue) \o Aborted(WaitsOn(id))

\* mutants: no return after delete; the id erased after the check
DeleteOrDispatchBoth(e) ==
  /\ deleted' = IF terminated \/ ~dispatcherOpen THEN deleted \cup {e} ELSE deleted
  /\ taskList' = IF terminated \/ dispatcherOpen THEN Append(taskList, e) ELSE taskList
HandleAbortedKeepsId ==
  /\ Handle("aborted")
  /\ ioQueue' = Tail(ioQueue)
  /\ deleted' = deleted \cup {Head(ioQueue).event}
  /\ UNCHANGED <<gameVars, ioStopped, eventIdTimerMap, waiting, cancelled, taskList,
                 executed>>

\* delete task, or g_dispatcher.addTask, which deletes it once stopped
DeleteOrDispatch(e) ==
  /\ deleted' = IF terminated \/ ~dispatcherOpen THEN deleted \cup {e} ELSE deleted
  /\ taskList' = IF terminated \/ ~dispatcherOpen THEN taskList ELSE Append(taskList, e)

HandleExpired ==
  /\ Handle("expired")
  /\ EraseTimer(eventId[Head(ioQueue).event])
  /\ DeleteOrDispatch(Head(ioQueue).event)
  /\ UNCHANGED <<gameVars, ioStopped, cancelled, executed>>

HandleAborted ==
  /\ Handle("aborted")
  /\ EraseTimer(eventId[Head(ioQueue).event])
  /\ deleted' = deleted \cup {Head(ioQueue).event}
  /\ UNCHANGED <<gameVars, ioStopped, cancelled, taskList, executed>>

(* shutdown's handler: the completions of the cancelled timers are queued  *)
(* but io_context.stop() keeps them from running.                          *)
HandleShutdown ==
  /\ Handle("shutdown")
  /\ ioStopped' = TRUE
  /\ ioQueue' = Tail(ioQueue) \o Aborted(waiting)
  /\ waiting' = {}
  /\ UNCHANGED <<gameVars, eventIdTimerMap, cancelled, taskVars>>

SchedulerThread ==
  \/ HandleAdd \/ HandleStop \/ HandleExpired \/ HandleAborted \/ HandleShutdown

Next ==
  \/ SchedulerThread
  \/ RunTask
  \/ StopDispatcher
  \/ Shutdown
  \/ \E e \in Events : AddEvent(e) \/ StopEvent(e) \/ Expire(e)

\* the threads run what is queued, and time passes
Fairness ==
  /\ WF_vars(SchedulerThread)
  /\ WF_vars(RunTask)
  /\ \A e \in Events : WF_vars(Expire(e))

Spec == Init /\ [][Next]_vars
FairSpec == Spec /\ Fairness

-----------------------------------------------------------------------------
\* ids are unique until lastEventId wraps around under a live event
UniqueId(e) == \A f \in Events \ {e} : eventId[f] # eventId[e]

Queued(op, e) == [op |-> op, event |-> e] \in ToSet(ioQueue)

(* A timer stays in eventIdTimerMap exactly as long as its event is        *)
(* waiting or its completion is queued: no id leaks, and a late stopEvent  *)
(* finds no timer of another event.                                        *)
TimersMatchEvents ==
  \A e \in Events : eventId[e] # NoId /\ UniqueId(e) /\ ~ioStopped =>
    (eventId[e] \in eventIdTimerMap
       <=> e \in waiting \/ Queued("expired", e) \/ Queued("aborted", e))

(* No event runs twice, ids reused or not; one whose timer a stopEvent     *)
(* cancelled in time does not run at all, whatever else is in flight.      *)
CancelledNeverRuns ==
  /\ IsInjective(executed \o taskList)
  /\ cancelled \cap (ToSet(taskList) \cup ToSet(executed)) = {}

(* An event nobody stops is run by the dispatcher, unless the game closes  *)
(* or its id comes round again while it is alive.                          *)
EveryEventRuns ==
  \A e \in Events :
    (eventId[e] # NoId) ~>
      (e \in ToSet(executed) \/ ~dispatcherOpen \/ ~UniqueId(e)
         \/ e \in stopRequested)
=============================================================================
