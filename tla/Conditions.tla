----------------------------- MODULE Conditions -----------------------------
(***************************************************************************)
(* The conditions of players: how Creature (creature.cpp) keeps the list   *)
(* of a creature's conditions, what each kind of condition (condition.cpp) *)
(* does to the creature when it starts, is added to another of its key,    *)
(* and ends, the removals and additions that a step under way puts off     *)
(* with the scheduler, and the way of the lasting conditions through the   *)
(* database (iologindata.cpp): saved with the player, read back into the   *)
(* one static list Player::storedConditionList and added to the player who *)
(* appears next.                                                           *)
(*                                                                         *)
(* A condition is a record.  "left" is what is left of its time: endTime   *)
(* and the ticks, which the code counts side by side, as one number, 0     *)
(* once the time is over.  "value" is the speed difference, the sum of the *)
(* skills and stats, the drunkenness or the outfit, whichever the type     *)
(* has.  "over" marks one not yet listed whose end a script fixed with     *)
(* setTicks when it was made, so that its time may be over as it starts.   *)
(* "owner" is not in the code: the player it was first put on.  The        *)
(* periodic effects (damage, regeneration, soul, light) are left out; so   *)
(* are subIds, a part of the key, and the mark "constant".                 *)
(***************************************************************************)
EXTENDS Integers, Sequences, FiniteSetsExt, SequencesExt

CONSTANTS
  Players,
  Nobody,         \* stands for a creature that is gone
  Templates,      \* the conditions that spells, items and scripts hand out
  MaxConditions,  \* bound: conditions of one player
  MaxDelayed,     \* bound: delayed additions and removals
  MaxSaved,       \* bound: conditions saved of a player
  MaxStored       \* bound: entries of the static list

\* The ticks of a condition that does not end by itself (ticks == -1).
Forever == -1

\* The ids of a condition: those of spells and scripts, and that of an item,
\* which is its slot.
Ids == {"combat", "default", "slot"}

SpeedTypes == {"haste", "paralyze"}
Types == SpeedTypes \cup {"attributes", "invisible", "outfit", "drunk"}

ASSUME TemplatesAssumption ==
  \A t \in Templates :
     /\ t.type \in Types
     /\ t.id \in Ids
     /\ t.ticks \in {Forever} \cup (Nat \ {0})
     /\ t.stamped \in BOOLEAN
     /\ t.disables \in BOOLEAN
     /\ t.value \in Int
     /\ t.type = "haste" => t.value > 0
     /\ t.type = "paralyze" => t.value <= 0
     /\ t.type \in {"outfit", "drunk"} => t.value > 0

VARIABLES
  online,      \* the players in the game
  conditions,  \* Creature::conditions: player -> set of conditions
  effects,     \* what they made of the creature: player -> record
  delayed,     \* the scheduled forceAddCondition and forceRemoveCondition
  rows,        \* the column "conditions" of the database: player -> set
  stored       \* Player::storedConditionList

conditionVars == <<online, conditions, effects, delayed, rows, stored>>

\* A creature without conditions: varSpeed, varSkills with varStats,
\* canUseDefense, what the clients see, drunkenness, the outfit (0 is the
\* default one) and the experience rate (a number for 100 percent).
NoEffects == [speed |-> 0, stats |-> 0, defense |-> TRUE, visible |-> TRUE,
              drunk |-> 0, outfit |-> 0, rate |-> 100]

\* The creature an operation works on: its list, the effects, and what the
\* operation has put off so far.
Affected(p) == [list |-> conditions[p], eff |-> effects[p], later |-> <<>>]

\* Condition::updateCondition.
Updates(old, new) ==
  new.left = Forever \/ (old.left # Forever /\ old.left <= new.left)

-----------------------------------------------------------------------------
(* What a condition does to its creature *)

\* startCondition of each kind, on the effects e.  The experience rates of an
\* attributes condition are 0 unless a script sets them, and the code takes
\* 1.0, not 0, for none.
SpeedStart(e, c) == [e EXCEPT !.speed = @ + c.value]
AttributesStart(e, c) ==
  [e EXCEPT !.stats = @ + c.value, !.defense = ~c.disables, !.rate = 0]
InvisibleStart(e) == [e EXCEPT !.visible = FALSE]
OutfitStart(e, c) == [e EXCEPT !.outfit = c.value]
DrunkStart(e, c) == [e EXCEPT !.drunk = c.value]

Started(s, c) ==
  [s EXCEPT !.eff =
    CASE c.type \in SpeedTypes -> SpeedStart(@, c)
      [] c.type = "attributes" -> AttributesStart(@, c)
      [] c.type = "invisible"  -> InvisibleStart(@)
      [] c.type = "outfit"     -> OutfitStart(@, c)
      [] c.type = "drunk"      -> DrunkStart(@, c)]

\* endCondition of each kind; isInvisible asks the list, which the condition
\* has left.
SpeedEnd(e, c) == [e EXCEPT !.speed = @ - c.value]
AttributesEnd(e, c) ==
  [e EXCEPT !.stats = @ - c.value, !.defense = @ \/ c.disables, !.rate = 0]
InvisibleEnd(e, list) ==
  [e EXCEPT !.visible = ~\E d \in list : d.type = "invisible"]
OutfitEnd(e) == [e EXCEPT !.outfit = 0]
DrunkEnd(e) == [e EXCEPT !.drunk = 0]

Ended(s, c) ==
  [s EXCEPT !.eff =
    CASE c.type \in SpeedTypes -> SpeedEnd(@, c)
      [] c.type = "attributes" -> AttributesEnd(@, c)
      [] c.type = "invisible"  -> InvisibleEnd(@, s.list)
      [] c.type = "outfit"     -> OutfitEnd(@)
      [] c.type = "drunk"      -> DrunkEnd(@)]

\* A condition leaves the list, then ends.
Erase(s, c) == Ended([s EXCEPT !.list = @ \ {c}], c)
EraseAll(s, C) == FoldSet(LAMBDA c, t : Erase(t, c), s, C)

Replace(s, old, new) == [s EXCEPT !.list = (@ \ {old}) \cup {new}]

\* addCondition of each kind: a condition of the same key is listed already
\* and takes over what the new one brings.  The update of an attributes
\* condition ends the old effect and applies the new skills and stats; the
\* defence and the rate are only copied.  A drunkenness keeps its own level.
SpeedMerge(s, old, new) ==
  IF old.left = Forever /\ new.left # Forever THEN s
  ELSE [Replace(s, old, new) EXCEPT !.eff.speed = @ + (new.value - old.value)]

AttributesUpdate(e, old, new) ==
  [AttributesEnd(e, old) EXCEPT !.stats = @ + new.value]

\* Mutant of AttributesMerge: the old effect is not taken back.
AttributesPile(s, old, new) ==
  IF Updates(old, new)
  THEN [Replace(s, old, new) EXCEPT !.eff.stats = @ + new.value]
  ELSE s

AttributesMerge(s, old, new) ==
  IF Updates(old, new)
  THEN [Replace(s, old, new) EXCEPT !.eff = AttributesUpdate(@, old, new)]
  ELSE s

GenericMerge(s, old, new) ==
  IF Updates(old, new) THEN Replace(s, old, new) ELSE s

OutfitMerge(s, old, new) ==
  IF Updates(old, new)
  THEN [Replace(s, old, new) EXCEPT !.eff.outfit = new.value]
  ELSE s

DrunkMerge(s, old, new) ==
  IF new.value > old.value
  THEN [Replace(s, old, [new EXCEPT !.value = old.value]) EXCEPT
          !.eff.drunk = new.value]
  ELSE s

Merge(s, old, new) ==
  CASE old.type \in SpeedTypes -> SpeedMerge(s, old, new)
    [] old.type = "attributes" -> AttributesMerge(s, old, new)
    [] old.type = "invisible"  -> GenericMerge(s, old, new)
    [] old.type = "outfit"     -> OutfitMerge(s, old, new)
    [] old.type = "drunk"      -> DrunkMerge(s, old, new)

-----------------------------------------------------------------------------
(* The operations of Creature; "walking": a step is under way, so that      *)
(* getWalkDelay is positive                                                 *)

\* Creature::hasCondition: a condition whose time is over does not count.
HasCondition(s, type) == \E c \in s.list : c.type = type /\ c.left # 0

Later(s, event) == [s EXCEPT !.later = Append(@, event)]

AddLater(c) == [op |-> "add", condition |-> c]
RemoveLater(type) == [op |-> "remove", type |-> type]

\* The three removeCondition: of a type, of a type and id, of one condition.
\* Without force a paralysis is not lifted within a step.
RemoveConditions(s, C, type, force, walking) ==
  IF C = {} THEN s
  ELSE IF ~force /\ type = "paralyze" /\ walking
       THEN Later(s, RemoveLater(type))
       ELSE EraseAll(s, C)

RemoveType(s, type, force, walking) ==
  RemoveConditions(s, {c \in s.list : c.type = type}, type, force, walking)

\* Creature::onAddCondition.
OnAddCondition(s, type, walking) ==
  CASE type = "paralyze" /\ HasCondition(s, "haste") ->
         RemoveType(s, "haste", FALSE, walking)
    [] type = "haste" /\ HasCondition(s, "paralyze") ->
         RemoveType(s, "paralyze", FALSE, walking)
    [] OTHER -> s

\* Creature::addCondition.
AddCondition(s, c, force, walking) ==
  IF ~force /\ c.type = "haste" /\ HasCondition(s, "paralyze") /\ walking
  THEN Later(s, AddLater(c))
  ELSE LET same == {d \in s.list : d.type = c.type /\ d.id = c.id}
           started == [c EXCEPT !.left = IF c.over THEN 0 ELSE @, !.over = FALSE]
       IN IF same # {}
          THEN Merge(s, CHOOSE d \in same : TRUE, [c EXCEPT !.over = FALSE])
          ELSE OnAddCondition(
                 Started([s EXCEPT !.list = @ \cup {started}], started),
                 c.type, walking)

\* The condition a template is cloned to, for player p.
Cloned(t, p, over) ==
  [type |-> t.type, id |-> t.id, left |-> t.ticks, value |-> t.value,
   disables |-> t.disables, over |-> over, owner |-> p]

\* What an operation on player p leaves behind.
Becomes(p, s) ==
  /\ conditions' = [conditions EXCEPT ![p] = s.list]
  /\ effects' = [effects EXCEPT ![p] = s.eff]
  /\ delayed' = delayed \o [i \in 1..Len(s.later) |->
                              [who |-> p, event |-> s.later[i]]]
  /\ Len(delayed') <= MaxDelayed

\* Condition::isPersistent: neither endless nor of an item.
Persistent(c) == c.left # Forever /\ c.id # "slot"

-----------------------------------------------------------------------------
(* The actions, each a task of the dispatcher *)

ConditionInit ==
  /\ online = {}
  /\ conditions = [p \in Players |-> {}]
  /\ effects = [p \in Players |-> NoEffects]
  /\ delayed = <<>>
  /\ rows = [p \in Players |-> {}]
  /\ stored = <<>>

\* A spell, an item or a script puts a condition on a player.
Add(p, t, force, walking) ==
  /\ p \in online
  /\ Cardinality(conditions[p]) < MaxConditions
  /\ force \/ walking => t.type \in SpeedTypes  \* no other type asks
  /\ \E over \in {FALSE, t.stamped} :
       Becomes(p, AddCondition(Affected(p), Cloned(t, p, over), force, walking))
  /\ UNCHANGED <<online, rows, stored>>

\* creature:removeCondition of a script, which finds the condition first.
RemoveByScript(p, c, force, walking) ==
  /\ p \in online
  /\ force \/ walking => c.type = "paralyze"  \* no other type asks
  /\ Becomes(p, RemoveConditions(Affected(p), {c}, c.type, force, walking))
  /\ UNCHANGED <<online, rows, stored>>

\* MoveEvent::DeEquipItem: the conditions of the item's slot go.
DeEquip(p, type) ==
  LET ofSlot == {c \in conditions[p] : c.type = type /\ c.id = "slot"}
  IN /\ p \in online
     /\ ofSlot # {}
     /\ Becomes(p, RemoveConditions(Affected(p), ofSlot, type, FALSE, FALSE))
     /\ UNCHANGED <<online, rows, stored>>

\* Combat that dispels a type: a paralysis at once, of the others those that
\* are not an item's, and of a player who cannot act yet only the time is cut
\* to the delay that is left.
Dispel(p, type, acting, walking) ==
  LET s == Affected(p)
      C == {c \in s.list : c.type = type /\ c.id # "slot"}
      cut == {[c EXCEPT !.left = 1] : c \in C}
  IN /\ p \in online
     /\ C # {}
     /\ walking => type = "paralyze"
     /\ acting => type # "paralyze"
     /\ Becomes(p, IF type = "paralyze" THEN RemoveType(s, type, FALSE, walking)
                   ELSE IF acting THEN [s EXCEPT !.list = (@ \ C) \cup cut]
                   ELSE EraseAll(s, C))
     /\ UNCHANGED <<online, rows, stored>>

\* Game::forceAddCondition and forceRemoveCondition, in the order of the
\* times; the creature may be gone.
RunDelayed(i) ==
  LET e == delayed[i].event
      p == delayed[i].who
      rest == RemoveAt(delayed, i)
  IN /\ IF p = Nobody
        THEN /\ delayed' = rest
             /\ UNCHANGED <<conditions, effects>>
        ELSE \E walking \in BOOLEAN :
             LET s == IF e.op = "add"
                      THEN AddCondition(Affected(p), e.condition, TRUE, walking)
                      ELSE RemoveType(Affected(p), e.type, TRUE, walking)
             IN /\ conditions' = [conditions EXCEPT ![p] = s.list]
                /\ effects' = [effects EXCEPT ![p] = s.eff]
                /\ delayed' = rest \o [j \in 1..Len(s.later) |->
                                         [who |-> p, event |-> s.later[j]]]
     /\ UNCHANGED <<online, rows, stored>>

\* Time passes.
Tick ==
  /\ conditions' = [p \in Players |->
       {[c EXCEPT !.left = IF @ > 0 THEN @ - 1 ELSE @] : c \in conditions[p]}]
  /\ conditions' # conditions
  /\ UNCHANGED <<online, effects, delayed, rows, stored>>

\* Creature::executeConditions, at the check of the creature: the conditions
\* whose time is over end.
Think(p) ==
  /\ p \in online
  /\ \E c \in conditions[p] : c.left = 0
  /\ Becomes(p, EraseAll(Affected(p), {c \in conditions[p] : c.left = 0}))
  /\ UNCHANGED <<online, rows, stored>>

\* What savePlayer writes of the conditions, within the bound.  The bytes are
\* left out, and with them what they lose or mix up: an experience rate is
\* written as a special skill, a drunkenness without its level.
Saved(p) == {c \in conditions[p] : Persistent(c)}
FewSaved(p) == Cardinality(Saved(p)) <= MaxSaved

\* Player::death: what would be saved is ended.
Death(p) ==
  /\ p \in online
  /\ Saved(p) # {}
  /\ Becomes(p, EraseAll(Affected(p), Saved(p)))
  /\ UNCHANGED <<online, rows, stored>>

\* IOLoginData::savePlayer of a player in the game.
Save(p) ==
  /\ p \in online
  /\ FewSaved(p)
  /\ rows' = [rows EXCEPT ![p] = Saved(p)]
  /\ UNCHANGED <<online, conditions, effects, delayed, stored>>

\* The player leaves: saved, unless each of the three tries fails, and
\* destroyed with the conditions; what was put off finds nobody.
Logout(p, saved) ==
  /\ p \in online
  /\ online' = online \ {p}
  /\ saved => FewSaved(p)
  /\ rows' = IF saved THEN [rows EXCEPT ![p] = Saved(p)] ELSE rows
  /\ conditions' = [conditions EXCEPT ![p] = {}]
  /\ effects' = [effects EXCEPT ![p] = NoEffects]
  /\ delayed' = [i \in DOMAIN delayed |->
                   IF delayed[i].who = p
                   THEN [delayed[i] EXCEPT !.who = Nobody] ELSE delayed[i]]
  /\ UNCHANGED stored

\* IOLoginData::loadPlayer puts the conditions of the row in front of the
\* static list.
Loaded(p) == SetToSeq(rows[p]) \o stored

\* A login: the player is loaded, placed, and given every condition of the
\* static list (Player::onCreatureAppear); or loading stops after the
\* conditions, or the player finds no place.
EnterGame(p, placed) ==
  LET fresh == [list |-> {}, eff |-> NoEffects, later |-> <<>>]
      add(s, c) == AddCondition(s, c, FALSE, FALSE)
  IN /\ p \notin online
     /\ Len(Loaded(p)) <= MaxStored
     /\ IF placed
        THEN /\ online' = online \cup {p}
             /\ Becomes(p, FoldLeft(add, fresh, Loaded(p)))
             /\ stored' = <<>>
        ELSE /\ stored' = Loaded(p)
             /\ UNCHANGED <<online, conditions, effects, delayed>>
     /\ UNCHANGED rows

\* A player who is not in the game is loaded to be looked at or written to:
\* mail, a house's rent or its items (Mailbox::sendItem, House), a sleeper's
\* awakening (BedItem), OfflinePlayer.  Those that write save the player, who
\* has no conditions.
LoadOffline(p, writes) ==
  /\ p \notin online
  /\ Len(Loaded(p)) <= MaxStored
  /\ stored' = Loaded(p)
  /\ rows' = IF writes THEN [rows EXCEPT ![p] = {}] ELSE rows
  /\ UNCHANGED <<online, conditions, effects, delayed>>

ConditionNext ==
  \/ \E p \in Players, t \in Templates, force, walking \in BOOLEAN :
       Add(p, t, force, walking)
  \/ \E p \in Players, force, walking \in BOOLEAN :
       \E c \in conditions[p] : RemoveByScript(p, c, force, walking)
  \/ \E p \in Players, type \in Types : DeEquip(p, type)
  \/ \E p \in Players, type \in Types, acting, walking \in BOOLEAN :
       Dispel(p, type, acting, walking)
  \/ \E i \in DOMAIN delayed : RunDelayed(i)
  \/ Tick
  \/ \E p \in Players : Think(p) \/ Death(p) \/ Save(p)
  \/ \E p \in Players, saved \in BOOLEAN : Logout(p, saved)
  \/ \E p \in Players, placed \in BOOLEAN : EnterGame(p, placed)
  \/ \E p \in Players, writes \in BOOLEAN : LoadOffline(p, writes)

ConditionSpec == ConditionInit /\ [][ConditionNext]_conditionVars

-----------------------------------------------------------------------------
(* Properties *)

\* The types of the variables.
ConditionTypeOK ==
  LET IsCondition(c) == /\ c.type \in Types /\ c.id \in Ids
                        /\ c.left \in {Forever} \cup Nat
                        /\ c.owner \in Players
      Listed(C) == \A c \in C : IsCondition(c) /\ ~c.over
  IN /\ online \subseteq Players
     /\ \A p \in Players : Listed(conditions[p]) /\ Listed(rows[p])
     /\ Listed(Range(stored))

\* The sum of the values of the conditions of some types.
Total(C, types) ==
  MapThenSumSet(LAMBDA c : c.value, {c \in C : c.type \in types})

Active(p, type) == \E c \in conditions[p] : c.type = type

\* However conditions are added, merged, put off, dispelled, timed out, saved
\* and reloaded (addCondition, removeCondition, executeConditions), the
\* creature is what its list says: a player's speed and skills differ from
\* the base by just what the listed conditions add, clients see an invisible
\* player exactly when no invisibility is left, no drunkenness, outfit or
\* lost defence outlives its last condition, no key is listed twice, and
\* a player who is not in the game has none.
EffectsExact ==
  /\ \A p \in Players :
       /\ \A c, d \in conditions[p] : c.type = d.type /\ c.id = d.id => c = d
       /\ effects[p].speed = Total(conditions[p], SpeedTypes)
       /\ effects[p].stats = Total(conditions[p], {"attributes"})
       /\ effects[p].visible <=> ~Active(p, "invisible")
       /\ effects[p].drunk # 0 => Active(p, "drunk")
       /\ effects[p].outfit # 0 => Active(p, "outfit")
       /\ ~effects[p].defense =>
            \E c \in conditions[p] : c.type = "attributes" /\ c.disables
       /\ p \notin online => conditions[p] = {}
  /\ \A i \in DOMAIN delayed : delayed[i].who \in online \cup {Nobody}
  /\ ConditionTypeOK

\* A condition belongs to the player it was put on: another's never appears
\* among them.  The static list is meant for the login of its owner
\* (player.h: "only temporarily used when logging in").
ConditionsStayWithTheirOwner ==
  \A p \in Players : \A c \in conditions[p] : c.owner = p

\* A player without attributes conditions gains experience at the base rate
\* of Player's constructor.
RatesComeBack ==
  \A p \in online : ~Active(p, "attributes") => effects[p].rate = 100

\* Haste and paralysis exclude each other (Creature::onAddCondition) as long
\* as no addition or removal is put off.
HasteOrParalyze ==
  \A p \in online :
     ~ /\ delayed = <<>>
       /\ HasCondition(Affected(p), "haste")
       /\ HasCondition(Affected(p), "paralyze")

=============================================================================
