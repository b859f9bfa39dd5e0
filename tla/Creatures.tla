----------------------------- MODULE Creatures -----------------------------
(***************************************************************************)
(* The life of the creatures of the world (game.cpp, creature.cpp,         *)
(* monster.cpp, spawn.cpp): placing, moving, death, removal and release,   *)
(* the targets of a monster and its sleep, masters and summons, whom a     *)
(* creature attacks, the lists of creatures to check, and the slots of a   *)
(* spawn.                                                                  *)
(*                                                                         *)
(* Everything runs in the dispatcher's thread; an action is a task, or what *)
(* a creature does in one when it thinks (cast, summon, kill, vanish).     *)
(* Destructors, and the removal of the summons of a removed creature, are  *)
(* steps of their own that nothing else precedes.  Creatures at one place  *)
(* see each other and nobody else.  Left out: a monster's friends, which   *)
(* are kept like its targets; whom a creature follows, as it attacks;      *)
(* conditions, which keep a monster awake; the order of a check list and   *)
(* whose turn it is in it; scripts that end a handler early.               *)
(***************************************************************************)
EXTENDS Integers, FiniteSets, Functions

CONSTANTS
  Player, Monster,             \* the objects of either class
  Place, Home,                 \* where a creature may be; the spawn's zone
  Slot,                        \* the entries of the spawn (spawnMap)
  EVENT_CREATURECOUNT,         \* how many check lists there are
  Aggressor,                   \* bound: who may choose whom to attack
  None                         \* no creature

Creature == Player \cup Monster

ASSUME KindAssumption ==
  /\ Player \cap Monster = {} /\ None \notin Creature /\ Home \in Place
  /\ IsFiniteSet(Creature) /\ IsFiniteSet(Slot)
ASSUME CountAssumption == EVENT_CREATURECOUNT \in Nat \ {0}

VARIABLES
  born,                        \* the objects that exist
  world,                       \* those placed and not removed
  dead,                        \* those without health
  at,                          \* Creature::position
  refs,                        \* Creature::referenceCounter
  toRelease,                   \* Game::ToReleaseCreatures, how often each
  marked,                      \* Creature::creatureCheck
  inVector,                    \* Creature::inCheckCreaturesVector
  checks,                      \* Game::checkCreatureLists, their order left out
  idle,                        \* Monster::isIdle
  targets,                     \* Monster::targetList
  master, summons,             \* Creature::master, summons
  attacked,                    \* Creature::attackedCreature
  spawned, strays,             \* Spawn::spawnedMap: by slot, under key 0
  timer,                       \* Spawn::checkSpawnEvent is set
  unfilled,                    \* history: the slots the startup left empty,
                               \* until a check is ordered; no guard reads it
  removing                     \* creatures whose removal is under way

bonds == <<master, summons>>
spawn == <<spawned, strays, timer, unfilled>>
creatureVars == <<born, world, dead, at, refs, toRelease, marked, inVector, checks,
                  idle, targets, bonds, attacked, spawn, removing>>

CheckList == 0..EVENT_CREATURECOUNT - 1

Dying == {c \in born : refs[c] = 0}

Quiet == Dying = {} /\ removing = {}   \* nothing is under way

One(S) == [c \in Creature |-> IF c \in S THEN 1 ELSE 0]

Here(p) == {c \in world : at[c] = p}

\* The creature c and its summons, theirs, and so on.
Retinue(c) ==
  LET f[n \in 0..Cardinality(Creature)] ==
        IF n = 0 THEN {c} ELSE f[n - 1] \cup UNION {summons[d] : d \in f[n - 1]}
  IN  f[Cardinality(Creature)]

\* Monster::isOpponent when the masters are ms.
IsOpponent(ms, m, c) ==
  IF ms[m] \in Player THEN c # ms[m] ELSE c \in Player \/ ms[c] \in Player

\* How many target lists of T hold c.
Listed(T, c) == Cardinality({m \in Monster : c \in T[m]})
-----------------------------------------------------------------------------
\* addCreatureCheck for the creatures S, each to any list; removeCreatureCheck
\* for those of U.
Check(S, U) ==
  LET new == S \ inVector
  IN  /\ marked' = (marked \ (U \cap inVector)) \cup S
      /\ inVector' = inVector \cup new
      /\ \E on \in [new -> CheckList] :
           checks' = [i \in CheckList |-> checks[i] \cup {c \in new : on[c] = i}]

\* The target lists become T; setIdle(true) is called for the monsters lull,
\* setIdle(false) for wake; S are checked too, and U no longer; the counters
\* change by other besides.
Update(T, lull, wake, S, U, other) ==
  LET T2  == [m \in Monster |-> IF m \in lull THEN {} ELSE T[m]]
      new == (S \cup wake) \ inVector
  IN  /\ targets' = T2
      /\ idle' = (idle \cup lull) \ wake
      /\ Check(S \cup wake, U \cup lull)
      /\ refs' = [c \in Creature |-> refs[c] + other[c] + One(new)[c]
                                      + Listed(T2, c) - Listed(targets, c)]

\* The monsters of M that updateIdleStatus lulls, and those it wakes.
Lulled(M, T) == {m \in M \ dead : master[m] = None /\ T[m] = {}}

\* mutant: targets alone do not wake a monster
WakenedSummons(M, T) == {m \in M \ dead : master[m] # None}

Wakened(M, T) == {m \in M \ dead : master[m] # None \/ T[m] # {}}

\* The target lists once c is seen at p: its own by updateTargetList, those
\* of the monsters there by onCreatureFound, those it left by onCreatureLeave.
SeenAt(c, p, left) ==
  [m \in Monster |->
     CASE m = c -> {d \in targets[c] \ dead : at[d] = p}
                     \cup {d \in Here(p) \ {c} : IsOpponent(master, c, d)}
       [] m \in Here(p) \ {c} /\ IsOpponent(master, m, c) -> targets[m] \cup {c}
       [] m \in left \ {c} /\ IsOpponent(master, m, c) -> targets[m] \ {c}
       [] OTHER -> targets[m]]

\* placeCreature: c appears at p; the counters change by other besides.
Appear(c, p, other) ==
  LET T == SeenAt(c, p, {})
      M == (Here(p) \cup {c}) \cap Monster
  IN  /\ c \notin born
      /\ born' = born \cup {c} /\ world' = world \cup {c}
      /\ at' = [at EXCEPT ![c] = p]
      /\ Update(T, Lulled(M, T), Wakened(M, T), {c}, {},
                [d \in Creature |-> other[d] + One({c})[d]])
      /\ UNCHANGED <<dead, toRelease, attacked, removing>>

Login(c, p) ==
  /\ Quiet /\ c \in Player
  /\ Appear(c, p, One({}))
  /\ UNCHANGED <<bonds, spawn>>

\* onThinkDefense, or a script for a player: placed first, mastered then.
Summon(m, c) ==
  /\ Quiet /\ m \in world \ dead /\ master[m] = None
  /\ Appear(c, at[m], One({c}))
  /\ master' = [master EXCEPT ![c] = m]
  /\ summons' = [summons EXCEPT ![m] = @ \cup {c}]
  /\ UNCHANGED spawn

\* Creature::setMaster by a script: a player convinces a monster, or lets it
\* go (a bound: a script may also give it to another monster).
SetMaster(c, m) ==
  LET old == master[c]
  IN  /\ Quiet /\ c \in Monster \cap world /\ m \in (Player \cap world) \cup {None}
      /\ m \notin Retinue(c) /\ m # old
      /\ master' = [master EXCEPT ![c] = m]
      /\ summons' = [d \in Creature |-> IF d = m THEN summons[d] \cup {c} ELSE summons[d] \ {c}]
      /\ refs' = [refs EXCEPT ![c] = @ + (IF m = None THEN 0 ELSE 1)
                                       - (IF old = None THEN 0 ELSE 1)]
      /\ UNCHANGED <<born, world, dead, at, toRelease, marked, inVector, checks,
                     idle, targets, attacked, spawn, removing>>

\* mutant: who loses sight of the other attacks on
StopAttackNever(X) == UNCHANGED attacked

\* Those of X, and their summons, stop attacking.
StopAttack(X) ==
  attacked' = [c \in Creature |->
    IF attacked[c] # None /\ \E x \in X : c \in Retinue(x) THEN None ELSE attacked[c]]

Attackers(c) == {x \in world : attacked[x] = c}

\* setAttackedCreature: the summons attack too, if they see the target.
Attack(c, d) ==
  /\ Quiet /\ c \in Aggressor /\ {c, d} \subseteq world /\ c # d /\ at[c] = at[d]
  /\ c \in Monster => d \in targets[c]
  /\ attacked' = [x \in Creature |->
       IF x \notin Retinue(c) THEN attacked[x] ELSE IF at[x] = at[d] THEN d ELSE None]
  /\ UNCHANGED <<born, world, dead, at, refs, toRelease, marked, inVector, checks,
                 idle, targets, bonds, spawn, removing>>

Move(c, p) ==
  LET left == Here(at[c])
      T    == SeenAt(c, p, left)
      M    == (left \cup Here(p)) \cap Monster
  IN  /\ Quiet /\ c \in world \ dead /\ p # at[c]
      /\ at' = [at EXCEPT ![c] = p]
      /\ Update(T, Lulled(M, T), Wakened(M, T), {}, {}, One({}))
      /\ StopAttack({x \in {c} : attacked[x] # None} \cup Attackers(c))
      /\ UNCHANGED <<born, world, dead, toRelease, bonds, spawn, removing>>

\* Monster::changeHealth: awake, and without health its death is posted.
Kill(c) ==
  /\ Quiet /\ c \in (Monster \cap world) \ dead
  /\ Update(targets, {}, {c}, {}, {}, One({}))
  /\ dead' = dead \cup {c}
  /\ UNCHANGED <<born, world, at, toRelease, bonds, attacked, spawn, removing>>

\* executeDeath: death takes the summons along, then the creature is removed.
Die(c) ==
  LET S == summons[c]
      G == S \cup (IF master[c] = None THEN {} ELSE {c})
  IN  /\ Quiet /\ c \in dead \cap world
      /\ Update([targets EXCEPT ![c] = {}], {}, S \ dead, {}, {},
                [d \in Creature |-> -One(G)[d]])
      /\ dead' = dead \cup S
      /\ StopAttack({c})
      /\ master' = [d \in Creature |-> IF d \in S \cup {c} THEN None ELSE master[d]]
      /\ summons' = [d \in Creature |-> IF d = c THEN {} ELSE summons[d] \ {c}]
      /\ removing' = {c}
      /\ UNCHANGED <<born, world, at, toRelease, spawn>>

\* removeCreature: whoever sees c is told, some before c itself, whose master
\* is known to those alone; the summons of c are removed next.
RemoveCreature(c) ==
  LET free  == master[c] # None /\ master[c] \in world
      after == IF free THEN [master EXCEPT ![c] = None] ELSE master
      peers == (Here(at[c]) \ {c}) \cap Monster
  IN  /\ Dying = {} /\ c \in world
      /\ IF removing = {} THEN TRUE ELSE c \in removing
      /\ \E early \in SUBSET peers :
           LET lose == {m \in early : IsOpponent(master, m, c)}
                         \cup {m \in peers \ early : IsOpponent(after, m, c)}
               T    == [m \in Monster |-> IF m \in lose THEN targets[m] \ {c} ELSE targets[m]]
           IN  Update(T, Lulled(lose, T) \cup (({c} \cap Monster) \ dead), Wakened(lose, T),
                      {}, {c}, [d \in Creature |-> IF free THEN -One({c})[d] ELSE 0])
      /\ world' = world \ {c}
      /\ StopAttack(Attackers(c))
      /\ master' = after
      /\ summons' = IF free THEN [summons EXCEPT ![master[c]] = @ \ {c}] ELSE summons
      /\ timer' = (timer \/ c \in Range(spawned) \cup strays)
      /\ unfilled' = IF timer' THEN {} ELSE unfilled
      /\ toRelease' = [toRelease EXCEPT ![c] = @ + 1]
      /\ removing' = (removing \ {c}) \cup (summons[c] \cap world)
      /\ UNCHANGED <<born, dead, at, spawned, strays>>

\* mutant: ~Monster does not give its targets back
DestroyHolding(c) ==
  LET S == summons[c]
  IN  /\ c \in Dying
      /\ born' = born \ {c} /\ dead' = dead \ {c}
      /\ targets' = [m \in Monster |-> IF m = c THEN {} ELSE targets[m]]
      /\ refs' = [d \in Creature |-> refs[d] - One(S)[d]]
      /\ master' = [d \in Creature |-> IF d \in S \cup {c} THEN None ELSE master[d]]
      /\ summons' = [summons EXCEPT ![c] = {}]
      /\ idle' = idle \cup ({c} \cap Monster)
      /\ UNCHANGED <<world, at, attacked, toRelease, marked, inVector, checks, spawn,
                     removing>>

\* delete this: the destructors of Monster and Creature.
Destroy(c) ==
  LET S == summons[c]
  IN  /\ c \in Dying
      /\ born' = born \ {c} /\ dead' = dead \ {c}
      /\ targets' = [m \in Monster |-> IF m = c THEN {} ELSE targets[m]]
      /\ refs' = [d \in Creature |-> refs[d] - One(S)[d]
                    - (IF c \in Monster /\ d \in targets[c] THEN 1 ELSE 0)]
      /\ master' = [d \in Creature |-> IF d \in S \cup {c} THEN None ELSE master[d]]
      /\ summons' = [summons EXCEPT ![c] = {}]
      /\ attacked' = [d \in Creature |->
           IF d = c \/ \E s \in S : d \in Retinue(s) THEN None ELSE attacked[d]]
      /\ idle' = idle \cup ({c} \cap Monster)
      /\ at' = [at EXCEPT ![c] = Home]
      /\ UNCHANGED <<world, toRelease, marked, inVector, checks, spawn, removing>>
-----------------------------------------------------------------------------
\* checkCreatures of the list i: monsters with the mark look whether they
\* should sleep; whoever has no mark is taken off the list and released, and
\* the walk ends with Game::cleanup.
CheckCreatures(i) ==
  LET off  == checks[i] \ marked
      M    == (checks[i] \cap marked \cap Monster \cap world) \ dead
      lull == Lulled(M, targets)
  IN  /\ Quiet
      /\ idle' = (idle \cup lull) \ Wakened(M, targets)
      /\ marked' = marked \ lull
      /\ inVector' = inVector \ off
      /\ checks' = [checks EXCEPT ![i] = @ \ off]
      /\ refs' = [c \in Creature |-> refs[c] - toRelease[c] - One(off)[c]]
      /\ toRelease' = One({})
      /\ UNCHANGED <<born, world, dead, at, targets, bonds, attacked, spawn, removing>>

\* Game::cleanup, at the end of a creature's step (checkCreatureWalk) and of
\* checkDecay.
Cleanup ==
  /\ Quiet
  /\ refs' = [c \in Creature |-> refs[c] - toRelease[c]]
  /\ toRelease' = One({})
  /\ UNCHANGED <<born, world, dead, at, marked, inVector, checks, idle, targets, bonds,
                 attacked, spawn, removing>>
-----------------------------------------------------------------------------
\* Spawn::cleanup: the removed are let go, those out of the zone are strays.
Gone == {s \in Slot : spawned[s] # None /\ spawned[s] \notin world}

Wandered == {s \in Slot : spawned[s] \in world /\ at[spawned[s]] # Home}

\* checkSpawn, RATE_SPAWN being 1: at most one slot is filled, one that did
\* not lose its monster just now; a slot may be blocked, or not yet due.
CheckSpawn ==
  LET kept  == [s \in Slot |-> IF s \in Gone \cup Wandered THEN None ELSE spawned[s]]
      loose == (strays \cap world) \cup {spawned[s] : s \in Wandered}
      let   == {spawned[s] : s \in Gone} \cup (strays \ world)
      Few(f) == Cardinality({s \in Slot : f[s] # None}) + Cardinality(loose)
                  < Cardinality(Slot)
  IN  /\ Quiet /\ timer
      /\ strays' = loose
      /\ \/ /\ spawned' = kept /\ timer' = Few(kept)
            /\ refs' = [c \in Creature |-> refs[c] - One(let)[c]]
            /\ UNCHANGED <<born, world, dead, at, toRelease, marked, inVector, checks,
                           idle, targets, attacked, removing>>
         \/ \E s \in Slot \ Gone, c \in Monster :
              /\ kept[s] = None
              /\ spawned' = [kept EXCEPT ![s] = c]
              /\ timer' = Few([kept EXCEPT ![s] = c])
              /\ Appear(c, Home, [d \in Creature |-> One({c})[d] - One(let)[d]])
      /\ UNCHANGED <<bonds, unfilled>>

\* Spawn::startup: a slot stays empty when a script forbids the monster or
\* there is no room for it; the result is not looked at, nobody is told and
\* no check is ordered.
CreatureInit ==
  /\ spawned \in [Slot -> Monster \cup {None}]
  /\ \A s, t \in Slot : spawned[s] = spawned[t] /\ spawned[s] # None => s = t
  /\ unfilled = {s \in Slot : spawned[s] = None}
  /\ born = Range(spawned) \ {None} /\ world = born
  /\ dead = {} /\ at = [c \in Creature |-> Home]
  /\ refs = [c \in Creature |-> 2 * One(born)[c]]
  /\ toRelease = One({})
  /\ marked = {} /\ inVector = {} /\ checks = [i \in CheckList |-> {}]
  /\ idle = Monster /\ targets = [m \in Monster |-> {}]
  /\ master = [c \in Creature |-> None] /\ summons = [c \in Creature |-> {}]
  /\ attacked = [c \in Creature |-> None]
  /\ strays = {} /\ timer = FALSE /\ removing = {}

CreatureNext ==
  \/ \E c \in Creature :
       \/ Kill(c) \/ Die(c) \/ RemoveCreature(c) \/ Destroy(c)
       \/ \E p \in Place : Login(c, p) \/ Move(c, p)
       \/ \E d \in Creature : Attack(c, d)
       \/ \E m \in Creature \cup {None} : SetMaster(c, m)
  \/ \E m \in Creature, c \in Monster : Summon(m, c)
  \/ \E i \in CheckList : CheckCreatures(i)
  \/ Cleanup \/ CheckSpawn

CreatureSpec == CreatureInit /\ [][CreatureNext]_creatureVars
-----------------------------------------------------------------------------
\* Each variable holds values of its kind.
CreatureTypeOK ==
  /\ world \subseteq born /\ born \subseteq Creature /\ dead \subseteq born
  /\ at \in [Creature -> Place]
  /\ refs \in [Creature -> Nat] /\ toRelease \in [Creature -> Nat]
  /\ \A i, j \in CheckList : i # j => checks[i] \cap checks[j] = {}
  /\ idle \subseteq Monster
  /\ targets \in [Monster -> SUBSET born]
  /\ master \in [Creature -> born \cup {None}]
  /\ summons \in [Creature -> SUBSET born]
  /\ attacked \in [Creature -> Creature \cup {None}]
  /\ timer \in BOOLEAN /\ removing \subseteq world

(* A creature's counter is the number of places that will give a reference *)
(* back: the world, the lists of releases and of checks, the spawn, its    *)
(* master and every monster it is a target of, whatever died, vanished,    *)
(* slept or changed its master meanwhile, and in whatever order.           *)
References(c) ==
  One(world)[c] + toRelease[c] + One(inVector)[c]
    + One(Range(spawned) \cup strays)[c]
    + Cardinality({m \in Creature : c \in summons[m]}) + Listed(targets, c)

ReferencesExact == \A c \in Creature : refs[c] = References(c)

(* The pointers nothing counts: a creature in the world attacks only one   *)
(* that is in the world and in its sight; and a master that exists and its *)
(* summons know each other (attackedCreature, master are plain pointers).  *)
PointersLive ==
  /\ CreatureTypeOK
  /\ \A c \in world : attacked[c] # None =>
       attacked[c] \in world /\ at[attacked[c]] = at[c]
  /\ \A c, m \in Creature : master[c] = m <=> c \in summons[m]

(* Nobody who should act or come back is forgotten: players and the        *)
(* monsters awake are marked to be checked, and a creature says that it is *)
(* on a check list exactly when it is on one (the flag spares              *)
(* addCreatureCheck a search of ten lists); a monster that sleeps has no   *)
(* target; and unless a check of the spawn is ordered, it lacks no more    *)
(* monsters than the slots its startup failed to fill, and none of them    *)
(* once a check was ordered (startSpawnCheck when a monster is removed,    *)
(* else checkSpawn, until the spawn is full).                              *)
NobodyForgotten ==
  /\ marked \subseteq inVector /\ inVector = UNION Range(checks)
  /\ \A c \in world \ dead : c \in Player \/ c \notin idle => c \in marked
  /\ \A m \in world \cap idle : targets[m] = {}
  /\ Cardinality((Range(spawned) \cup strays) \cap world) + Cardinality(unfilled)
       < Cardinality(Slot) => timer

(* What the last part would be without the startup's failures: a spawn     *)
(* that is short has a check ordered.  It does not hold, as Spawn::startup *)
(* orders none for a slot that it could not fill: the slot stays empty     *)
(* until another monster of the spawn is removed.                          *)
ShortSpawnIsChecked ==
  Cardinality((Range(spawned) \cup strays) \cap world) < Cardinality(Slot) => timer

=============================================================================
