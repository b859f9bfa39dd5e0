----------------------------- MODULE Fellowship -----------------------------
(***************************************************************************)
(* What parties promise to the players, without the objects that keep the  *)
(* promise: no addresses, no player holding a pointer to a party, no party *)
(* holding pointers to players.  A fellowship is a leader, the others and  *)
(* the players it has invited; it lasts while somebody else than its       *)
(* leader is about.                                                        *)
(***************************************************************************)

CONSTANT Player                \* the players that may be in the world

VARIABLES
  present,                     \* the players in the world
  fellowships                  \* the parties that exist

vars == <<present, fellowships>>

Fellowship == [leader : Player, others : SUBSET Player, invited : SUBSET Player]

Company(f) == f.others \cup {f.leader}

Alone(f) == f.others = {} /\ f.invited = {}

Free(p) == \A f \in fellowships : p \notin Company(f)

Uninvited(q, f) == [f EXCEPT !.invited = @ \ {q}]

\* F when every fellowship of it that invited q does so no more.
Withdrawn(F, q) == {f \in F : q \notin f.invited}
   \cup {f \in {Uninvited(q, g) : g \in {h \in F : q \in h.invited}} : ~Alone(f)}

\* What f may be once p has left it: one of the others leads after a leader.
Heirs(f, p) ==
  IF f.leader # p THEN {[f EXCEPT !.others = @ \ {p}]}
  ELSE {[f EXCEPT !.leader = q, !.others = @ \ {q}] : q \in f.others}

\* F becomes G when p, of the fellowship f, leaves; nobody stays on alone.
Parts(F, G, f, p) ==
  \/ \E h \in Heirs(f, p) : ~Alone(h) /\ G = (F \ {f}) \cup {h}
  \/ (\A h \in Heirs(f, p) : Alone(h)) /\ G = F \ {f}
-----------------------------------------------------------------------------
Init == present = {} /\ fellowships = {}

Enter(p) == p \notin present /\ present' = present \cup {p} /\ UNCHANGED fellowships

\* Whoever leads a fellowship, or is in none, may invite one who is in none.
Invite(p, q) ==
  /\ p # q /\ q \in present /\ Free(q)
  /\ UNCHANGED present
  /\ \/ /\ p \in present /\ Free(p)
        /\ fellowships' = fellowships \cup {[leader |-> p, others |-> {}, invited |-> {q}]}
     \/ \E f \in fellowships :
          /\ f.leader = p
          /\ fellowships' = (fellowships \ {f}) \cup {[f EXCEPT !.invited = @ \cup {q}]}

\* An invitation is withdrawn.
Withdraw(q) ==
  /\ UNCHANGED present
  /\ \E f \in fellowships :
       fellowships' = (fellowships \ {f}) \cup Withdrawn({f}, q)

Join(q) ==
  /\ Free(q)
  /\ UNCHANGED present
  /\ \E f \in fellowships :
       /\ q \in f.invited
       /\ fellowships' = (fellowships \ {f})
            \cup {[Uninvited(q, f) EXCEPT !.others = @ \cup {q}]}

\* The leader of f hands it to one of the others.
Pass(f) ==
  /\ UNCHANGED present
  /\ \E q \in f.others : fellowships' = (fellowships \ {f})
       \cup {[f EXCEPT !.leader = q, !.others = (@ \ {q}) \cup {f.leader}]}

Leave(p) ==
  /\ UNCHANGED present
  /\ \E f \in fellowships : p \in Company(f) /\ Parts(fellowships, fellowships', f, p)

\* Whoever leaves the world is invited by nobody and is in no fellowship.
Depart(p) ==
  LET rest == Withdrawn(fellowships, p)
  IN  /\ p \in present /\ present' = present \ {p}
      /\ \/ Free(p) /\ fellowships' = rest
         \/ \E f \in rest : p \in Company(f) /\ Parts(rest, fellowships', f, p)

Next ==
  \/ \E p \in Player : Enter(p) \/ Depart(p) \/ Leave(p) \/ Withdraw(p) \/ Join(p)
  \/ \E p, q \in Player : Invite(p, q)
  \/ \E f \in fellowships : Pass(f)

Spec == Init /\ [][Next]_vars
-----------------------------------------------------------------------------
(* What follows from the promise: everybody is in one fellowship at most, a  *)
(* fellowship has somebody to lead or to wait for, all of whom are in the   *)
(* world, and nobody is both in it and invited to it.                       *)
Apart ==
  /\ fellowships \subseteq Fellowship
  /\ \A f \in fellowships :
       /\ ~Alone(f)
       /\ f.leader \notin f.others
       /\ Company(f) \cup f.invited \subseteq present
       /\ Company(f) \cap f.invited = {}
  /\ \A f, g \in fellowships : Company(f) \cap Company(g) # {} => f = g
=============================================================================
