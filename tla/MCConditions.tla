---------------------------- MODULE MCConditions ----------------------------
(***************************************************************************)
(* Instances of Conditions.  MCConditions.cfg: one player, the kinds of    *)
(* condition with two of a key where merging matters.                      *)
(* MCConditionsOwner.cfg: two players, one kind, for the static list.      *)
(***************************************************************************)
EXTENDS Conditions

T(type, id, ticks, value, disables, stamped) ==
  [type |-> type, id |-> id, ticks |-> ticks, value |-> value,
   disables |-> disables, stamped |-> stamped]

ManyTemplates ==
  { T("haste", "combat", 2, 2, FALSE, TRUE),
    T("haste", "combat", 1, 1, FALSE, FALSE),
    T("paralyze", "combat", 1, -1, FALSE, FALSE),
    T("attributes", "combat", 1, 1, TRUE, FALSE),
    T("attributes", "combat", 1, 2, FALSE, FALSE),
    T("attributes", "default", 1, 4, FALSE, FALSE),
    T("invisible", "combat", 1, 0, FALSE, FALSE),
    T("invisible", "slot", Forever, 0, FALSE, FALSE),
    T("outfit", "combat", 1, 1, FALSE, FALSE),
    T("drunk", "combat", 1, 1, FALSE, FALSE),
    T("drunk", "combat", 1, 2, FALSE, FALSE) }

OneTemplate == { T("haste", "combat", 1, 1, FALSE, FALSE) }
=============================================================================
