---------------------------- MODULE GuardNegation ----------------------------
(***************************************************************************)
(* What Completion.java and InputCompletion.java share: the negation of    *)
(* the guards of a transition, and what it means for a guard to hold.      *)
(*                                                                         *)
(* A data guard is negated as text, so "NOT (g)" is a conjunct of its own. *)
(* Every constraint on a clock compares it with the same constant, so a    *)
(* moment is: the tests that hold, and for each clock whether it is below  *)
(* (-1), at (0) or above (1) that constant.                                *)
(***************************************************************************)
EXTENDS TIOSTS

CONSTANTS Test,    \* the conjuncts that are not negations
          Not(_)   \* the conjunct "NOT (g)" for a set g of tests

ASSUME NegationAssumption ==
    /\ Test \subseteq Atom
    /\ \A g \in SUBSET Test : Not(g) \in Atom \ Test
    /\ \A g, h \in SUBSET Test : Not(g) = Not(h) => g = h

\* Mutants: the bound itself belongs to both sides; a relation is written
\* the way the javadoc writes it.
Opposite_Weak(r) ==
    CASE r = "<=" -> ">=" [] r = ">=" -> "<=" [] r = "<" -> ">=" [] r = ">" -> "<="

Opposite_Arrow(r) ==
    CASE r = "<=" -> ">" [] r = ">=" -> "<" [] r = "<" -> "=>" [] r = ">" -> "<="

Opposite(r) ==
    CASE r = "<=" -> ">" [] r = ">=" -> "<" [] r = "<" -> ">=" [] r = ">" -> "<="

\* negateClockGuard throws a ClockGuardException when this is false.
Negatable(guard) ==
    \E c \in guard : guard = {c} /\ c.relation # "="

negateClockGuard(guard) == {[c EXCEPT !.relation = Opposite(@)] : c \in guard}

\* !getAllGuard().equals("TRUE")
Guarded(t) == t.dataGuard # {} \/ t.clockGuard # {}

\* Transitions from l that nothing guards and that take any of the actions.
Unguarded(l, actions, d, target) ==
    {[source |-> l, dataGuard |-> {}, clockGuard |-> {}, action |-> a,
      assignments |-> {}, deadline |-> d[a], target |-> target] : a \in actions}

\* The declared actions with one of the types.
ActionsOfType(m, types) ==
    {a \in [name : ActionNames(m), type : types] : a.name \in NamesOfType(m, a.type)}

\* Mutant: actions are compared by type.
AbsentActions_ByType(m, l, types) ==
    {a \in ActionsOfType(m, types) : \A t \in Range(m.out[l]) : t.action.type # a.type}

\* getRemainingActions, getAbsentInputActions: actions are compared by name.
AbsentActions(m, l, types) ==
    {a \in ActionsOfType(m, types) : \A t \in Range(m.out[l]) : t.action.name # a.name}

\* createTransition called for the elements of s, which leave l, one after
\* the other: the list grows by s, the last one of each key is in the map.
CreateInOrder(m, l, s) ==
    [m EXCEPT !.initialCondition = IF m.initialLocation = l /\ s # <<>>
                                   THEN s[Len(s)].dataGuard ELSE @,
              !.out[l]           = @ \o s,
              !.transitions      = {u \in @ : \A i \in DOMAIN s : Key(u) # Key(s[i])}
                                       \cup LastOfKeys(s)]

\* createTransition called for every element of ts, which leave l, in some
\* order.
CreateAll(m, l, ts) == {CreateInOrder(m, l, order) : order \in SetToSeqs(ts)}

\* What a parser gives: a guard is not negated, the constraints of a guard
\* are parsed at once, and there are finitely many actions.
Parsed(m) ==
    /\ IsFiniteSet(ActionNames(m))
    /\ \A t \in m.transitions :
          /\ t.dataGuard \subseteq Test
          /\ \A c, d \in t.clockGuard : c.clock = d.clock => c.id = d.id

-----------------------------------------------------------------------------
(* The meaning of guards.                                                  *)

Moments == [tests : SUBSET Test, clocks : [Clock -> {-1, 0, 1}]]

ConjunctHolds(a, v) ==
    IF a \in Test THEN a \in v.tests
    ELSE \E g \in SUBSET Test : a = Not(g) /\ ~(g \subseteq v.tests)

ConstraintHolds(c, v) ==
    LET at == v.clocks[c.clock]
    IN  CASE c.relation = "<" -> at < 0 [] c.relation = "<=" -> at <= 0
          [] c.relation = "=" -> at = 0
          [] c.relation = ">=" -> at >= 0 [] c.relation = ">" -> at > 0

Enabled(t, v) ==
    /\ \A a \in t.dataGuard : ConjunctHolds(a, v)
    /\ \A c \in t.clockGuard : ConstraintHolds(c, v)

\* Whatever the moment, one of ts is enabled and takes the action named n.
Covers(ts, n) ==
    \A v \in Moments : \E t \in ts : t.action.name = n /\ Enabled(t, v)

\* "in each transition of a test purpose one of the guards [...] is true.
\* [...] only one constraint of the form c#i [...] the symbol = is not
\* allowed"
Supported(t) ==
    /\ t.dataGuard = {} \/ t.clockGuard = {}
    /\ t.clockGuard # {} => Negatable(t.clockGuard)
=============================================================================
