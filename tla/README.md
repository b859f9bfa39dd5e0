# A verification project for the game server

TLA+ modules of The Forgotten Server (a fork that speaks an older protocol), the TLC
runs that check them, and proofs checked by TLAPS. The reference is the C++ code under
`src/src`; `PROJECT.json` maps every definition to the lines it models.

- [1. The system](#1-the-system): components, threads, state, what is hard
- [2. Modules](#2-modules): what each models and how it corresponds to the code
- [3. Runs](#3-runs): what each checks and shows, bounds, fairness
- [4. Disagreements found](#4-disagreements-found)
- [5. Proofs](#5-proofs)
- [6. What is not modelled](#6-what-is-not-modelled)
- [7. Plan](#7-plan)

To repeat a run: `tlc -workers 2 -config MCDispatcher.cfg MCDispatcher`; a proof:
`tlapm GameThreadProofs.tla`.

## 1. The system

### Threads

The server is one process with four kinds of threads.

| thread | runs | shared with others |
|---|---|---|
| main / io | `io_service.run()`: accepts, completions of reads, writes and timers, signals; `parsePacket` | each `Connection` under its `connectionLock` |
| dispatcher | every game task, one after the other: all of `Game`, all Lua | `taskList` under `taskLock` |
| scheduler | timers of delayed tasks, on an io_context of its own | nothing; it is posted to |
| database | queued queries, on a connection of its own | `tasks` under `taskLock` |

So game state has no locks: it belongs to the dispatcher thread. What crosses threads
are tasks, and what goes wrong between two tasks of the same story (a login and its
delayed connect, a timer and its cancellation, a trade and the walk in between) is
where most of the hazards are. Nothing but the database survives a crash; a crash
loses what was not saved, and there is no recovery protocol to model.

### Components

For each: its state, its operations, whom it interacts with, what is hard, what makes it
correct.

**Dispatcher** (`tasks.cpp`, `thread_holder_base.h`). State: `taskList`, a batch,
`threadState`. Operations: `addTask`, the worker loop, `stop`, `shutdown`. Called by every
thread. Hard: the signal is sent after the unlock and only if the list was empty; state is
read outside the lock; shutdown is itself a task. Correct if every accepted task is taken
once, in order, and the thread ends. Modelled.

**Database tasks** (`databasetasks.cpp`). State: the queue, `threadState`, a connection of
its own. Operations: `addTask`, the loop, `flush` (on the dispatcher thread), `stop`,
`shutdown`; callbacks go to the dispatcher. Hard: two threads empty one queue; wait without
a predicate. Correct if each accepted query is executed once and its callback arrives.
Modelled.

**Database access** (`database.cpp`) and **player persistence** (`iologindata.cpp`,
`iomapserialize.cpp`). State: the game's connection, `retryQueries`, the tables. Operations:
queries that reconnect and try again, transactions in which they must not, `savePlayer`,
`loadPlayer`. Called by the dispatcher thread at a logout (up to three times) and by
`saveGameState`. Hard: the connection is lost at any point, also with the answer of a
COMMIT. Correct if what lasts of a player is of one save, whole. Partly modelled: escaping,
results, migrations, and what is written in which format are left out.

**Scheduler** (`scheduler.cpp`). State: `lastEventId`, `eventIdTimerMap`, timers.
Operations: `addEvent`, `stopEvent`, expiry, `shutdown`; expired tasks go to the
dispatcher. Hard: a cancellation that races the expiry, 32-bit ids that wrap, ownership of
a task through four hands. Correct if a cancelled event does not run, none runs twice, none
is forgotten. Modelled.

**Connection** (`connection.cpp`, with `ConnectionManager`). State: socket, `closed`,
the message queue, two timers, pending handlers that keep the object alive. Operations:
accept, header and packet handlers, send, close (graceful or by force), the timeouts,
`closeAll`. Hard: timeouts that were queued before they were cancelled; close from any
thread; lifetime by handlers. Correct if writes are in order and one at a time, `release`
is the last task, a close delivers and frees. Modelled.

**Waiting list** (`protocolgame.cpp`, top). State: two lists of (timeout, guid).
Operations: `clientLogin` and its helpers. Hard: two lists, retries in time windows, the
free-place test. Correct if nobody is over the limit or listed twice, who waits keeps the
place. Modelled.

**Game sessions** (`protocolgame.cpp`, `player.cpp`, `game.cpp`). State: `player` of the
protocol, `client` of the player, reference counts, the map of players, creatures to
release, `isConnecting`, the game state. Operations: login, takeover with a connect delayed
by a second, logout, kick, death, release, cleanup, the kicks of a game that closes or shuts
down; `parsePacket` on the io thread. Hard: all of that in any order. Correct if the character
is in the game at most once, protocol and player point at each other, references are exact, no
player is leaked or used after it is freed, and every login ends with the client in or its
connection closed. Partly modelled: one character; bans and account checks are left out.

**Output messages** (`outputmessage.cpp`, `protocol.cpp`). State: `bufferedProtocols`, a
buffer for each. Operations: add, remove, `sendAll` every 10 ms. Hard: a set that empties and
fills again while an event is under way. Correct if the chain of events is alive as long as
there is a protocol in the set. Partly modelled, in `GameSession`; what is in a buffer is data.

**Item decay and item lifetime** (`game.cpp`, `item.cpp`). State: `toDecayItems`, four
buckets, `ToReleaseItems`, each item's reference count, duration and decaying mark.
Operations: `startDecay`, `internalDecayItem`, `checkDecay`, `cleanup`, and all that starts
or ends a decay. Hard: four kinds of holders of a reference, items that change type while
they are listed, a mark kept apart from the lists. Correct if counting is exact and no
marked item is forgotten. Modelled.

**Trade** (`game.cpp`, `player.cpp`, `container.cpp`). State: partner, offer and state of
each player; `tradeItems` with references. Operations: request, accept, close; and the
notifications by which moves, walks, removals and logouts close a trade. Hard: three
players, bags in bags, partial failure of the exchange. Correct if both sides agree, offers
exist, do not overlap and stay in reach, and an exchange is one of both items. Modelled.

**Server lifecycle** (`otserv.cpp`, `server.cpp`, `signals.cpp`, `Game::setGameState`).
State: `running`, the game state, acceptors, `g_loaderSignal`. Operations: start, accept
loop with reopening after 15 s, game states, save, shutdown, joins. Hard: the order of the
stops, a signal waited for without a predicate, shutdown before `run()`. Correct if every
start or stop ends, and nobody logs in after the kicks. Partly: each thread's own part is in
its module.

**Creature checks and lifetime**, **monsters and spawns** (`game.cpp`, `creature.cpp`,
`monster.cpp`, `spawn.cpp`). State: ten check lists and two flags of each creature, reference
counts, masters and summons, whom each attacks, the targets and the sleep of monsters, the
slots and the timer of a spawn, which its startup need not fill. Operations: placing, moving, thinking, attacking, summoning,
death, `removeCreature`, `ReleaseCreature`, `cleanup`, spawn checks. Hard: plain pointers
without references beside counted ones; notifications before or after the change they tell of.
Correct if counting is exact, no pointer is left to a creature that is gone, and who should be
checked is. Modelled; of monsters and spawns partly: friends, the choice of a target, walking
and raids are left out.

**Conditions** (`condition.cpp`, `creature.cpp`). State: the list of a creature, and what
each condition has made of the creature: speed, skills, defence, visibility, outfit,
drunkenness, experience rate. Operations: add, merge with another of the same key, dispel, time
out, put off by a step under way, death, save, load. Hard: each kind takes back by hand what it
gave. Correct if the creature is what its list makes of it. Partly modelled: the periodic
effects are left out.

**Parties** (`party.cpp`, the party's channel in `chat.cpp`). State: members, invited and
leader, each with a pointer back, and the users of the channel. Operations: invite, revoke,
join, pass, leave, disband, login and logout. Hard: a party deletes itself in the middle of a
command. Correct if both ends agree. Modelled; guild and private channels are not.

**Game world** (`map.cpp`, `tile.cpp`, `cylinder.cpp`, `container.cpp`, ...): things on
tiles and in containers, their order, spectators. Partly, as trade and decay need it.
**Player actions**: walking, using, throwing, shops: handlers that look everything up
again. **Combat, spells, weapons**; **NPCs**; **houses and beds**; **guilds and groups**;
**Lua binding**; **configuration and data loading**; **login and status protocols**;
**encoding and cryptography**; **utilities**; **data scripts, website, build files**: see
section 6.

### How they interact

    client --bytes--> Connection --addTask--> Dispatcher --runs--> Game
       ^                  ^                       ^  ^               |
       |               send/close                 |  |          addEvent, stopEvent
       +------------------+-------- GameSession --+  +-- Scheduler <-+
                                                  |                  |
                              callbacks ----------+-- DatabaseTasks <+ addTask, flush
                                                                     |
                              Database, over the game's connection <-+ savePlayer

Each module takes its neighbours at the interface: a scheduler's expired task enters a
list that the dispatcher runs in order; `GameThreadProofs` shows that the real dispatcher
is such a list. `GameSession` rests on three facts checked elsewhere: tasks run in order
(`Dispatcher`), `release` is a connection's last task (`Connection`, `ReleaseComesLast`),
and a packet is parsed under `connectionLock`. `DatabaseTasks` extends `Database`: the
dispatcher thread saves in between two flushes. `Party` implements `Fellowship`, parties
without the pointers.

## 2. Modules

One critical section of a lock is one action; what the code does outside the lock is an
action of its own. A task of the dispatcher is one action, unless another thread can see
its steps. History variables are marked as such; no guard reads them, other than in
`TaskQueue`, of which they are the state, and where a query or message may be used once.

| module | code | state and actions |
|---|---|---|
| `TaskQueue` | what callers of `addTask` rely on | abstract: `accepted`, `processed`; `Accept`, `Process`, `ProcessAndAccept` |
| `Dispatcher` | `Dispatcher`, `ThreadHolder` | `dpc` is the place in `threadMain`; `AddTask` and `Signal` are the two halves of `addTask`; `RunCloseRequest`, `Stop`, `RunGameShutdown`, `RunTerminate` the shutdown by the game, `MainShutdown` that after a failed load |
| `Database` | `Database`, `DBTransaction` | the game's connection: `tables` is what lasts, `work` what the connection sees; `LoseConnection`, `Reconnect`, and the two ends of a transaction |
| `DatabaseTasks` | `DatabaseTasks`, `saveGameState`, `savePlayer` | `dpc`, `gpc`: where the two threads are; `held` is the query in a thread's hand; `Save...` and `Flush...` run beside `Take`, `DatabaseRun`, `DatabasePost` |
| `Scheduler` | `Scheduler`, `SchedulerTask` | `ioQueue` has handlers and completions in the order asio queues them; `Expire` at any time; ids modulo `IdRange` |
| `Connection` | `Connection`, `ConnectionManager` | `read`, `writes`, `readTimer`, `writeTimer` are what is pending on the io thread and what keeps the object alive (`Alive`); `expired` counts timeouts that were queued before a cancel |
| `WaitList` | `findClient` ... `clientLogin` | entries keep the time left in steps of 5 s; `TryLogin` is the whole of `clientLogin` and the login that follows |
| `GameSession` | `ProtocolGame::login/connect/logout/release`, `Game::removeCreature/cleanup/setGameState`, `OutputMessagePool` | `tasks` is the dispatcher's queue, `timers` the delayed connects, `Objects` the Player objects made; `SetGameState` closes, opens or shuts down; `autosend` and `chains` are the output pool |
| `Decay` | `startDecay` ... `cleanup`, `Item::setID/clone/canDecay` | a list is the number of times each item is in it; `CheckDecay`, `CheckEntry`, `CheckDecayEnds` are one round; nothing else happens in between |
| `Trade` | `playerRequestTrade` ... `internalCloseTrade` | `place` is the parent of an item; moves, walks, removals and logouts close what the notifications close |
| `Creatures` | `addCreatureCheck` ... `ReleaseCreature`, `Monster` targets and sleep, `Spawn` | a task is an action; destructors and the removal of summons are steps that nothing precedes (`removing`, `Dying`) |
| `Conditions` | `Creature::addCondition` ..., `Condition*`, load and save | `effects` is what the operations have made of the player; `delayed` the scheduled forced additions and removals; `stored` the static list |
| `Fellowship` | what parties promise | abstract: who is present, and sets of fellowships |
| `Party` | `Party`, party commands, `Chat::partyChannels` | `party` is the object at each address, `partyOf` and `invitePartyList` the pointers back |

The `...Proofs` modules have the theorems about the modules they extend (section 5).
`GameThreadProofs` is about the game's own thread: the dispatcher, the creatures its tasks work
on, and their conditions; `ClientProofs` about a client's way in: its connection and the waiting
list. So that they can be extended together, `Creatures`, `Conditions` and `WaitList` name their
specification `CreatureSpec`, `ConditionSpec` and `WaitSpec`, and the rest likewise. The
`MC...` modules give the constants; each names its instance in a comment. Operators
commented as mutants are the plausible bugs that show each property can fail: they are not
used by `Next`.

Abstractions to know about:

- *Time.* In `Scheduler` and `Connection` a timer may expire at any moment, so every race
  with it is present. In `GameSession` one timing assumption is made: with
  `Lingers = FALSE` a closed Connection does not outlive the second until the delayed
  connect. `Connection` shows that it can (section 4), and with `Lingers = TRUE`
  `NoLeakedPlayer` fails: `ProtocolGame::connect` recognises a released protocol by its
  Connection being gone, not by `release` having run.
- *Spurious wakeups* of condition variables are actions, without fairness.
- *The network* may stall or reset a connection at any moment, in every state.
- *Failures of memory allocation, and exceptions of asio other than reset*, are left out.
- *Retries.* START TRANSACTION that fails for another reason than a lost connection is left
  out (`~DBTransaction` then rolls back a transaction that never began and unlocks a mutex it
  does not hold, which is undefined), and so are the first `SELECT` of `savePlayer` and its
  short form for a player not to be saved. The queue's own connection is always repaired in
  time: a query is one action.
- *Conditions.* Ticks and `endTime`, which are counted side by side, are one number; `over`
  marks those of which a script fixed the end when it was loaded. No subId and no mark
  `constant`. A script that removes the condition whose damage it handles is left out. A save
  and its load are the identity on what is kept here, which the bytes are not (section 4);
  `EffectsExact` compares the effects with the list as loaded, and does not depend on it.
- *Creatures* at one place see each other, and nobody else. A spawn's startup may fail for any
  slot (`CreatureInit`); `unfilled` is a history of that, for `NobodyForgotten`.
- *Scripts* choose: whether a player may log out, whether an item is transformed.

## 3. Runs

| run | checks | states | shows |
|---|---|---|---|
| `dispatcher` | `TypeOK`, `NoLostWakeup`, `NothingLeftBehind`, `ImplementsTaskQueue`, `EveryTaskProcessed` | 3,393 | no wakeup lost; tasks come out once, in order, all before the thread ends; it ends |
| `databasetasks` | `TypeOK`, `OnlyHeldQueryIsOvertaken`, `ShutdownFlushesAll`, `SavesAreWhole`, `EveryQueryExecuted` | 341,958 | queries of a flush overtake only the one the other thread holds; none is lost or repeated; no half of a save lasts, whenever the connection is lost |
| `scheduler` | `TypeOK`, `TimersMatchEvents`, `CancelledNeverRuns`, `EveryEventRuns` | 105,946 | ids and timers agree; a cancelled event never runs, none runs twice, none is forgotten |
| `connection` | `TypeOK`, `WritesInOrder`, `ReleaseComesLast`, `GracefulCloseDelivers`, `QuietClientIsFreed` | 24,921 | the protocol's tasks are in order, release is the last, closes deliver or free |
| `waitlist` | `WaitTypeOK`, `NeverOverLimit`, `NobodyJumpsTheQueue` | 175,758 | the limit holds although slots are counted from the wrong end |
| `gamesession` | `OnlineAtMostOnce`, `PointersAgree`, `ReferencesExact`, `NoLeakedPlayer`, `NobodyWaitsInVain` | 292,269 | takeovers, kicks, deaths, closes and changes of the game state in any order leave no second, dangling or leaked player, and no client waiting |
| `decay` | `TypeOK`, `ReferencesExact`, `DecayingIsListed` | 1,120,824 | items may be listed twice, yet counting stays exact and no marked item is forgotten |
| `creatures` | `ReferencesExact`, `PointersLive`, `NobodyForgotten` | 474,601 | references are exact through sleep, death and summons; no pointer outlives its creature; who should think is listed; a spawn is short without a check ordered by no more than the slots its startup failed to fill |
| `conditions` | `EffectsExact` | 106,584 | after any chain of merges, dispels, deaths and reloads a player is what the listed conditions make of it |
| `trade` | `TypeOK`, `PartnersAgree`, `OffersReferenced`, `OffersInReach` | 4,166 | no one-sided trade, no leaked or overlapping offer |
| `party` | `PointersAgree`, `ImplementsFellowship` | 9,899 | pointers agree from all ends through every command, and `Party` implements `Fellowship` |
| `conditions_owner` | `ConditionsStayWithTheirOwner` | violated | section 4 |

Where the type invariant is not listed it is a conjunct of the first property.

*Bounds.* Two producers suffice for `Dispatcher`: a signal is pending or not, and one
producer may push behind another's signal. Three tasks make batches of two and more, with
an expired one and the closing one. Three queries let one be held while two are flushed.
Three events with ids modulo 2 make 1, 0 and 1: the id that `stopEvent` takes for none, and
one used twice. Two messages each way make a queue that is non-empty behind a write.
Four characters for two places make both lists, and waits of more than one. Three
connections and objects: an old client, one taking over and one more while that waits.
Two items of four types are a decaying item and its successor, or a clone, with items freed
and used again; `MaxRefs` stops the number of entries of one item from growing for ever.
Three players at two spots with a bag and two items allow one trade and an intruder.
One lost connection (`MaxLosses`) falls on every step of a save and of its retries; a second one
finds the state of the first again. A player and two monsters at two places, one slot of a spawn,
one check list: a summon, its master and an opponent, each of them in and out of sight. The one
slot is filled by the startup or is not; with two, of which one may be (set `Slot = {s1, s2}`), the
properties hold as well, in 1,148,410 states and five minutes, and the theorem is for any number.
One player with eleven templates and two conditions at a time: a condition, and one merged with it
or beside it; one put-off operation, one saved and two stored conditions. Three players and three
addresses: a party, another being founded while the first ends, and an address used again.

*Symmetry* is used for items, players, spots, monsters, addresses, connections and objects, only in runs
without liveness.

*Fairness.* Threads run what is queued: weak fairness on each thread's step, as loops and
io_context handlers are not starved. No fairness for spurious wakeups, for clients, for
posting tasks or for calling close: nobody owes them. Timers expire: in `Connection` and
`Scheduler` weak fairness on expiry, which is time passing. In `Connection` each handler is
fair by itself, because io_context runs completions in the order they were queued. `DatabaseTasks` assumes
weak fairness of each thread within the calls it is in, a save's statements included. The other
modules state liveness as invariants on what is under way: a client that waits has a
delayed connect, a protocol has a chain of `sendAll`, a spawn that lost a monster has its timer.

*Deadlock* is checked in `waitlist`, where time always goes on, and not where the modelled
part may come to rest: the server has shut down, the connection is gone, the tasks, queries,
events, connections, Player objects and bounds of the instance are used up, all items of a trade are
removed. In `decay` a round may meet an item that turns into one of another kind while all
names of items are in use: that is the bound on memory, and not a state of the server.

*Mutants.* Every checked property is shown to fail for a changed definition listed in
`PROJECT.json`, the way a dropped guard, a wrong order or a missing reset would be written.

## 4. Disagreements found

**With a run.** `conditions_owner`: the conditions read from the database go into the static
`Player::storedConditionList`, which is emptied by whoever appears next. A load that no login of
the same player follows (the mailbox, rent of a house, a bed, `OfflinePlayer` in Lua) leaves
them there: the next player gets them, and if the offline player is saved, as the first three
do, it has lost them. `player.h:1041` says "TODO: This variable is only temporarily used when
logging in, get rid of it somehow".

**With a configuration** kept beside the runs; TLC finds each violated:

| configuration | what the code does |
|---|---|
| `MCDatabaseShutdown` | `DatabaseTasks::shutdown` may leave its thread asleep, and `join` with it: the state is read before the lock, the wait has no predicate, and the notify takes no lock |
| `MCConnectionStalled` | a connection closed gracefully with a message in flight to a client that stopped reading keeps its socket for ever: the write timeout calls `close(FORCE_CLOSE)`, which returns as `closed` is set |
| `MCWaitListRefusedClientKeepsWaiting` | `clientLogin` overwrites the guid of a waiting client with its new timeout (`->second`), so that who retries in time loses the place, and the entry belongs to nobody |
| `MCTradeSafe` | `playerAcceptTrade` tests with stacking and moves without, and drops the result of the second move: a trade may hand over one item only |
| `MCCreaturesStartup` | `Spawn::startup` drops the result of `spawnMonster` (a script's veto, or no room and a warning) and orders no check: the slot stays empty until another monster of the spawn is removed, for ever if there is none |
| `MCPartyChannel` | `disband` and `leaveParty` clear `Player::party` before they close the channel, which is looked up through it: those who left go on listening |
| `MCConditionsRate` | any attributes condition sets the experience rates of the player to those it has, 0 if none is set, and nothing restores them |
| `MCConditionsHaste` | a haste merged into an ended one leaves the player both hasted and paralysed |

**Met while reading**, in the models unless said otherwise:

- `ConditionAttributes::serialize` writes the experience rates under `CONDITIONATTR_SPECIALSKILLS`,
  so that reading them back runs past the array `specialSkills`; the level of a drunkenness is not
  written at all. Neither is in `Conditions`.
- A condition of which a script fixed the end with `setTicks` as it was loaded may start with its
  time over; and merging attributes does not apply the new one's ban on defence.
- Of two conditions that both switch off defence, change the outfit or make drunk, the end of
  one resets what the other still asks for. `EffectsExact` says by what exactly.
- `isConnecting` is not reset by a connect that returns early; on a player without a client it
  stays, and `sendPing` does not log the player out: only idling does.
- An item that decays to a type without a duration which decays on keeps its mark
  (`DecayingCorrect`, section 5, says when that matters).
- A login queued behind the kicks of a shutdown succeeds: the state is tested for CLOSING and
  CLOSED only. What the player does then is not saved.
- `bufferedProtocols` may empty and fill again before the pending `sendAll` runs: then two
  chains of events go on. Harmless, but for the work.
- An opponent told of a summon's removal after it lost its master may keep it in
  `targetList` until its own next round, with the reference that keeps the object alive.
- A COMMIT whose answer is lost is reported as a failure, and the logout saves again; as
  `onlinetime` is written as a sum, it is counted twice (outside the model).

The properties of the passing runs hold in spite of them, and say what still does.

## 5. Proofs

Invariance, action properties and refinement, for every value of the constants under the
modules' ASSUMEs: any number of threads, tasks, items, creatures, players or connections. About
15,500 obligations in eight modules. Every invariant and action property of a passing run is a
theorem, and so are both refinements. Each invariant below was checked with TLC on the instance
of its run before it was proved; where it says more than the run's properties, what it adds is
given.

**`GameThreadProofs`: the dispatcher** (`TasksAssumption`: the shutdown's tasks differ from the
users').

- `TypeCorrect`: `TypeOK`.
- `WakeupCorrect`: `NoLostWakeup`. It is not inductive: it needs that a thread
  in the wait, or between its wake and the lock, together with the producers that are about
  to notify, accounts for a non-empty list.
- `ShutdownCorrect`: `NothingLeftBehind`. It needs to know where the closing request, the
  game's shutdown task and the terminating task are, which of them exist in each state of
  the thread, and that nothing is accepted behind the terminating task.
- `Refinement` (`ImplementsTaskQueue`): `Spec` implements `TaskQueue!Spec`. The invariant is
  that what is processed, the rest of the batch, and the list, one after the other, are what was accepted,
  each once. Every action maps to a step of the abstract queue or a stutter;
  `RunCloseRequest` and `RunGameShutdown` process one task and accept another.

**`GameThreadProofs`: the creatures** (`KindAssumption`: players, monsters and `None` are
different, creatures and slots finitely many, as the counters must be sums; `CountAssumption`:
there is a check list).

- `CreatureTypesSafe` (no counter falls below zero), `CreatureReferences` (`ReferencesExact`),
  `CreaturePointers` (`PointersLive`), `CreaturesRemembered` (`NobodyForgotten`), by
  `CreatureInv`; and `CreatureDestroyedUnheld`: what the counter frees, no list, slot, master or
  attacker has any more.

`CreatureInv` is the run's properties with `Kinds` (sorts of the lists and slots, nobody one's own
master), `Unborn` (an object that is not made yet is in no one's hands, so that one freed may be
made again), `Slots` (no monster in two slots, nor in one and a stray) and `Missed` (a check that is
ordered sees to what the startup did not fill). The properties need
each other: a removal gives back as many references as `ReferencesExact` says only because
`PointersLive` makes master and summons agree and `NobodyForgotten` makes the marks say who is on
a check list. The invariant counts a creature's master instead of the lists of summons
(`Count`), which is the same as long as each creature has one master. The summons of a
creature, theirs and so on (`Retinue`) are a recursive function; that it has a value
is proved.

**`GameThreadProofs`: the conditions** (`TemplatesAssumption`: what spells, items and scripts
hand out has one of the types and ids, and values as the code makes them).

- `ConditionsExact` (`EffectsExact`), by `ConditionInv`: the effects are exact for the list of
  each player, and what is put off, saved or in the static list is a condition that could be
  listed.

The argument is about a creature as it is in the middle of an operation (`Right`): each start of a
condition gives what the list will say (`Given`), each end undoes it (`Undone`), whichever
conditions are left, and each merge exchanges one for the other (`Exchanged`); so
the removal of any set, in whichever order, and the login's addition of a whole list keep it
right. Speed and skills are sums over the list, so this rests on a sum not depending on the order in
which it is taken (`SumAdd`, `SumRemove`). The sums and the folds are recursive functions of the
community modules; that they have a value, and the inductions over the parts of a finite set, are
proved as statements about a set of those parts (`PartsInSet`), which needs no operator as
a parameter.

**`DatabaseTasksProofs`** (`QueriesAssumption`, `MaxLossesAssumption`: the connection may be
lost any number of times).

- `TypeCorrect`, `OrderCorrect` (`OnlyHeldQueryIsOvertaken`), `FlushCorrect`
  (`ShutdownFlushesAll`): by `QueueInv`. The list is the end of what was accepted; what left
  it is executed or in the hand of just one of the two threads, which is at the place of its
  loop where it holds one; once the game is stopping the list is empty.
- `SaveCorrect` (`SavesAreWhole`): by `SaveInv`. While no transaction is open the connection
  sees what lasts; in one, the statements that ran are of the version being saved; and
  `retryQueries` is off just within a save, so that no statement is repeated outside the
  transaction that was lost with the connection.

**`SchedulerProofs`** (`IdAssumption`: ids of any range, wrapped around or not).

- `TypeCorrect`, `CancelCorrect` (`CancelledNeverRuns`), `TimersCorrect`
  (`TimersMatchEvents`): by `SchedulerInv`. An event is in one place: the posted handler, its
  timer's wait, the completion, the dispatcher's list, run, or deleted; a cancelled one has
  its aborted completion queued or is deleted.

**`ClientProofs`: the connection** (`BoundAssumption`).

- `TypeCorrect`, `WriteCorrect` (`WritesInOrder`), `ReleaseCorrect` (`ReleaseComesLast`),
  `GracefulCorrect` (`GracefulCloseDelivers`): by `ConnectionInv`. What was sent is written or
  queued in that order, with just one write under way while there is a queue; only a reset or a
  close by force drops it; and nothing has happened before `onAccept` but `closeAll`.

**`ClientProofs`: the waiting list** (`PlayersAssumption`: finitely many clients; the guid
`NoPlayer` is nobody's).

- `WaitingListed` (`WaitTypeOK`: nobody waits twice or is online and waits), `LimitKept`
  (`NeverOverLimit`), `QueueKept` (`NobodyJumpsTheQueue`), by `WaitInv`, which adds that the
  privileged never wait and that no limit means no list. Both action properties follow from whom
  `clientLogin` lets in: the privileged, anyone where there is no limit, who finds a free place
  and both lists empty, and who waits and finds as many free places as the slot it has.

Every helper of the lists (`cleanupList`, an erased entry, an overwritten guid, time passing) is
shown to leave a list whose guids are among those it had, each once (`Leaves`). `CleanUp` walks
the list as a recursive function, erasing as it goes; what it returns is proved by an induction in
the form of a set of numbers (`NatInSet`).

**`GameSessionProofs`** (`SessionAssumption`; any number of connections and objects).

- `OnlineCorrect`, `PointersCorrect`, `ReferencesCorrect`: by `GameInv`. `SessionInv` is the life
  of each connection: it waits in one way only (a login, a delayed connect, a posted one), then
  plays, and its release is posted once and followed by no other of its tasks but a late
  connect. `PlayerInv` has the pointers from both ends and the references of each object.
- `LeakCorrect` (`NoLeakedPlayer`), `WaitCorrect` (`NobodyWaitsInVain`): for `Lingers = FALSE`,
  stated in the theorem, without which the first is false (section 2, *Time*). By `AnswerInv`:
  a connect behind the release of its connection finds the connection gone; until
  the shutdown a closed connection is released or about to be, and an open one waits or plays.

**`DecayProofs`** (any number of items and types, any durations; `DecayAssumption`).

- `TypeCorrect`: `TypeOK`, with which no reference is released that is not held, and
  exactly the items without references are freed.
- `ReferencesCorrect`: `ReferencesExact`.
- `DecayingCorrect`: `DecayingIsListed`, for tables of item types of which `MarksEnd` holds.

The first two are proved together, as `Books`: what an item's counter has beyond the world,
`toDecayItems` and the releases due (`Balance`) is the number of its entries in the buckets
and in the walk (`Listed`); and between two rounds the walk is empty, without which
`checkDecay` would forget entries. `Ledger` says that this is `TypeOK` with
`ReferencesExact`. The effects (`Becomes`, `Appears`, `Replaces`, `Transforms`,
`DecaysTo`) each leave one item at most n references short (`Owes`); a step between rounds
owes nothing, an entry that is dropped or decays owes the one it gives up.

The third rests on `Books` and `Marks`: a marked item is listed and has time left, and an item
with a duration has time left, unless it is of a type that is `Stuck`. It does not hold for
every table. `setID` leaves the mark, and a duration of 0, when an item decays to a type that
decays on but has no duration, while the entry goes; a script that turns such an item into a
stopped ring, and that into a burning one, makes an item that is marked, can decay and is in
no list (TLC finds it with three types). `MarksEnd` says that timed types do not decay to such
a type if it is of one kind with types that keep durations. Of the 1098 timed types of
`data/items/items.xml` one decays to such a type, the corpse 8273 to 8274, and no script makes
a ring of it; the run's table satisfies `MarksEnd`.

**`TradeProofs`** (`TradeAssumption`: players, places and items are different things; any
number of players, any nesting of bags).

- `TypeCorrect`, `PartnersCorrect` (`PartnersAgree`), `OffersCorrect` (`OffersReferenced`),
  `ReachCorrect` (`OffersInReach`): by `TradeInv`, which is the four with `Acyclic(place)`: no
  bag lies in itself. That is the guard of the moves, and without it neither the topmost parent
  of an item nor what lies in a bag is determined. `Top` and `Inside` are recursive functions;
  that they have a value is proved from the least relation closed under their equation, and
  acyclicity is stated as the principle of induction it gives. A thing that moves changes what
  contains it and what it contains, and nothing for the rest (`Apart`): so the notifications of
  one move reach every trade that it ends.

**`PartyProofs`** (`NoneAssumption`; any number of players and addresses).

- `PointersCorrect`: `PointersAgree`, by `PartyInv`, which adds that nobody is in the list of
  members twice or also leads, that nobody in a party is invited to it, and that a party that
  exists is not one of the leader alone: by this a command knows what becomes of a party from
  its lists, without a search for pointers that are left.
- `FellowshipImplemented`: `Spec` implements `Fellowship!Spec`, initial states and step by
  step. A logout maps to one step, though it ends several parties: the invitations go first, and
  each party that they leave empty is deleted while the loop goes on.

*Only model-checked:*

- liveness (`EveryTaskProcessed`, `EveryQueryExecuted`, `EveryEventRuns`,
  `QuietClientIsFreed`): it needs ENABLED and fairness, out of the prover's reach; both
  abstract specifications are of safety alone;
- that the bounds of the runs are reached, and that each property fails for its mutant;
- `ConditionsStayWithTheirOwner` and the properties of the configurations of section 4, which do
  not hold.

No module declares a RECURSIVE operator: recursion is by functions and the folds of the community
modules.

## 6. What is not modelled

- *Numbers:* combat formulas, skills, experience, prices, areas. They compute within one
  task; testing suits them better than a bounded model.
- *Bytes:* messages, RSA, XTEA, OTB and OTBM files, XML, SQL text. Conversions of data,
  without state.
- *Scripts:* what game content does. The engine's calls to it are choices in the models.
- *Heuristics:* monsters' targets, path finding, NPC talk.
- *Periodic conditions*: damage, regeneration, soul, light; raids, which are chains of timers
  from XML; the start of the server up to the loader's signal.
- *Sequential handlers* of private chat, houses, guilds, outfits, shops, which look up and check all
  they use within one task.
- *The website, build files and data.*

Parts that keep state between tasks and are not modelled yet are in the plan.

## 7. Plan

Done, in the order of importance: what everything runs on (`TaskQueue`, `Dispatcher`,
`DatabaseTasks`, `Scheduler`), what connects it to clients (`Connection`, `WaitList`,
`GameSession`), then the game's longest-lived shared state (`Decay`, `Trade`, `Creatures`,
`Conditions`, `Party`), and what survives the process (`Database`); proofs of
every safety property that the passing runs check, and of both refinements.

To come:

1. Several characters in `GameSession`, with `WaitList` in front of the login.
2. Periodic conditions, and an abstract specification of `Conditions`.
3. The start of the server: the loader signal, `run`/`stop`/`die`, the accept loop.

Runs are kept few, one to a component: a component that is added takes the place of a
property that another implies, or of a run that only shows a disagreement, whose
configuration stays.
