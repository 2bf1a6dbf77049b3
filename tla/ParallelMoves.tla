---------------------------- MODULE ParallelMoves ----------------------------
(***************************************************************************)
(* The moves of the parallel composition of two TIOSTSs, independently of  *)
(* how ParallelComposition.java walks the two models.                      *)
(*                                                                         *)
(* From a pair of locations either model moves alone on an action that the *)
(* other one does not know, and both move together when one sends what the *)
(* other receives.                                                         *)
(***************************************************************************)
EXTENDS TIOSTS

\* "l1,l2" and "a1_a2": concatenation, on labels and names that are lists of
\* identifiers.
Join(x, y) == x \o y

From(m, l) == Range(m.out[l])

\* The transition the compiler puts in front of a model's first location.
InitialOf(m) == m.out[m.initialLocation][1]

-----------------------------------------------------------------------------
(* The moves of a pair of locations.                                       *)

MovesOfFirst(m1, m2, l1, l2) ==
    {[t EXCEPT !.source = Join(l1, l2), !.target = Join(t.target, l2)] :
        t \in {u \in From(m1, l1) : u.action.name \notin ActionNames(m2)}}

MovesOfSecond(m1, m2, l1, l2) ==
    {[t EXCEPT !.source = Join(l1, l2), !.target = Join(l1, t.target)] :
        t \in {u \in From(m2, l2) : u.action.name \notin ActionNames(m1)}}

Complementary(a, b) ==
    /\ a.name = b.name
    /\ {a.type, b.type} = {ACTION_INPUT, ACTION_OUTPUT}

MostUrgent(d, e) == IF d >= e THEN d ELSE e

\* The move in which t and u synchronise.  It is an output of the product.
Together(l1, l2, t, u) ==
    [source      |-> Join(l1, l2),
     dataGuard   |-> t.dataGuard \cup u.dataGuard,
     clockGuard  |-> t.clockGuard \cup u.clockGuard,
     action      |-> [name |-> t.action.name, type |-> ACTION_OUTPUT],
     assignments |-> t.assignments \cup u.assignments,
     deadline    |-> MostUrgent(t.deadline, u.deadline),
     target      |-> Join(t.target, u.target)]

MovesOfBoth(m1, m2, l1, l2) ==
    {Together(l1, l2, p[1], p[2]) :
        p \in {q \in From(m1, l1) \X From(m2, l2) :
                  Complementary(q[1].action, q[2].action)}}

Moves(m1, m2, l1, l2) ==
    MovesOfFirst(m1, m2, l1, l2) \cup MovesOfSecond(m1, m2, l1, l2)
        \cup MovesOfBoth(m1, m2, l1, l2)

\* Both initial transitions, taken as one internal step.
InitialMove(m1, m2) ==
    LET t == InitialOf(m1)
        u == InitialOf(m2)
    IN  [source      |-> Join(t.source, u.source),
         dataGuard   |-> t.dataGuard \cup u.dataGuard,
         clockGuard  |-> t.clockGuard \cup u.clockGuard,
         action      |-> [name |-> Join(t.action.name, u.action.name),
                          type |-> ACTION_INTERNAL],
         assignments |-> t.assignments \cup u.assignments,
         deadline    |-> DEADLINE_LAZY,
         target      |-> Join(t.target, u.target)]

\* "The set of variables, locations [...] from both TIOSTSs must be disjoint"
Disjoint(m1, m2) ==
    /\ m1.locations \cap m2.locations = {}
    /\ m1.variables \cap m2.variables = {}

ReachedPairs(m1, m2, ts) ==
    {p \in m1.locations \X m2.locations :
        \E t \in ts : t.target = Join(p[1], p[2])}

Closed(m1, m2, ts) ==
    \A p \in ReachedPairs(m1, m2, ts) : Moves(m1, m2, p[1], p[2]) \subseteq ts
=============================================================================
