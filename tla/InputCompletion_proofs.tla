------------------------- MODULE InputCompletion_proofs -------------------------
(***************************************************************************)
(* Proofs about InputCompletion, for any number of models of any size.     *)
(*                                                                         *)
(* The inductive invariant says what is in each list: all that clone() put *)
(* there, negations of guarded inputs among it, and transitions for        *)
(* actions the model does not offer there.  At DontCare, which a model may *)
(* have had already, the last part fails: every action has a self loop.    *)
(***************************************************************************)
EXTENDS InputCompletion, TIOSTS_proofs

-----------------------------------------------------------------------------
(* The inductive invariant.                                                *)

\* What Negation adds for t while m is completed.
Complement(m, t) ==
    [t EXCEPT !.dataGuard   = {Not(@)},
              !.clockGuard  = ParseClockGuard(negateClockGuard(@), m.clocks),
              !.assignments = {},
              !.deadline    = DEADLINE_LAZY,
              !.target      = DontCare]

\* A transition of the model, the negation of one, or one for an action
\* that the model does not offer at l.
Origin(m, l, t) ==
    \/ t \in ClonedFrom(m, l)
    \/ \E y \in ClonedFrom(m, l) : Negatable(y.clockGuard) /\ t = Complement(m, y)
    \/ \A y \in ClonedFrom(m, l) : y.action.name # t.action.name

Holds(c, m, l) ==
    /\ ClonedFrom(m, l) \subseteq Range(c.out[l])
    /\ \A t \in Range(c.out[l]) : t.source = l /\ (l # DontCare => Origin(m, l, t))

\* No negation has been added at l.
Unvisited(c, m, l) ==
    \A t \in Range(c.out[l]) : Guarded(t) => t \in ClonedFrom(m, l)

\* l takes every input, and only those of rest have yet to be negated.
Visited(c, m, l, rest) ==
    /\ \A n \in m.inputActions : \E t \in Range(c.out[l]) : t.action.name = n
    /\ \A y \in ClonedFrom(m, l) : Negated(y) => y \in rest \/ Negatable(y.clockGuard)

LocationsHandled(c, m, waiting, rest) ==
    \A l \in c.locations :
        /\ Holds(c, m, l)
        /\ IF l \in waiting \/ l = m.initialLocation
           THEN Unvisited(c, m, l)
           ELSE Visited(c, m, l, Range(rest))

\* The copied list is of a location the loop has come to.
CopiedList(c, m, waiting, rest) ==
    \A k \in DOMAIN rest :
        /\ rest[k].source \in c.locations \ waiting
        /\ rest[k].source # m.initialLocation
        /\ Guarded(rest[k]) => rest[k] \in ClonedFrom(m, rest[k].source)

\* What the clone keeps of the model, besides its transitions.
Cloned(c, m) ==
    /\ c.locations = m.locations \cup {DontCare}
    /\ c.initialLocation = m.initialLocation
    /\ c.clocks = m.clocks
    /\ c.inputActions = m.inputActions
    /\ c.outputActions = m.outputActions
    /\ c.internalActions = m.internalActions

\* t is an input the code refuses: with an unsupported clock guard, or with
\* a data guard alone, which ends in negateClockGuard too.
NotNegatable(m, t) ==
    /\ t.source # m.initialLocation /\ t.action.type = ACTION_INPUT
    /\ t.dataGuard # {} \/ t.clockGuard # {}
    /\ \/ t.clockGuard = {} \/ \E c, d \in t.clockGuard : c # d
       \/ \E c \in t.clockGuard : c.relation = "="

IInv ==
    /\ TypeOK
    /\ tiosts \in Models
    /\ status # "completing" => todo = <<>> /\ pending = {}
    /\ status # "called" => Cloned(complete, tiosts)
    /\ status \in {"completing", "returned"} =>
          /\ LocationsHandled(complete, tiosts, pending, todo)
          /\ CopiedList(complete, tiosts, pending, todo)
    /\ status = "thrown" => \E t \in tiosts.transitions : NotNegatable(tiosts, t)

-----------------------------------------------------------------------------
(* Negations.                                                              *)

(* The negation of an input leaves the same location with the same action. *)
LEMMA ComplementType ==
    ASSUME NEW m \in Model, NEW y \in Transition, y.dataGuard \subseteq Test,
           Negatable(y.clockGuard), DontCare \in Label
    PROVE  LET u == Complement(m, y)
           IN  /\ u \in Transition /\ u.source = y.source /\ u.action = y.action
               /\ u.clockGuard = ParseClockGuard(negateClockGuard(y.clockGuard), m.clocks)
<1> DEFINE g == {Not(y.dataGuard)}
           cg == ParseClockGuard(negateClockGuard(y.clockGuard), m.clocks)
<1>1. g \subseteq Atom
  BY NegationAssumption
<1>2. cg \subseteq SimpleClockGuard
  <2>1. y.clockGuard \subseteq SimpleClockGuard /\ m.clocks \in Seq(Clock)
    BY DEF Transition, Model
  <2> QED
    BY <2>1, NegatedType
<1>3. Complement(m, y) = [y EXCEPT !.dataGuard = g, !.clockGuard = cg,
                                   !.assignments = {}, !.deadline = DEADLINE_LAZY,
                                   !.target = DontCare]
  BY DEF Complement, Transition
<1> HIDE DEF g, cg
<1>4. DEADLINE_LAZY \in Deadline
  BY DEF Deadline
<1>5. /\ Complement(m, y) \in Transition
      /\ Complement(m, y).source = y.source /\ Complement(m, y).action = y.action
      /\ Complement(m, y).clockGuard = cg
  BY <1>1, <1>2, <1>3, <1>4 DEF Transition
<1> QED
  BY <1>5 DEF cg

(* The negation of a transition is never possible together with it.        *)
LEMMA ComplementDisjoint ==
    ASSUME NEW m \in Model, NEW y \in Transition, y.dataGuard \subseteq Test,
           Negatable(y.clockGuard), DontCare \in Label, NEW v \in Moments
    PROVE  ~(Enabled(Complement(m, y), v) /\ Enabled(y, v))
<1>1. Complement(m, y).clockGuard = ParseClockGuard(negateClockGuard(y.clockGuard), m.clocks)
  BY ComplementType
<1>2. y.clockGuard \subseteq SimpleClockGuard /\ m.clocks \in Seq(Clock)
  BY DEF Transition, Model
<1>3. (\A o \in Complement(m, y).clockGuard : ConstraintHolds(o, v))
         <=> ~(\A c \in y.clockGuard : ConstraintHolds(c, v))
  BY <1>1, <1>2, ClockGuardNegated
<1> QED
  BY <1>3 DEF Enabled

(* The guard of an input cannot be negated when that of the transition it  *)
(* was cloned from cannot.                                                 *)
LEMMA RefusedAsCloned ==
    ASSUME NEW m \in Model, NEW t \in Transition,
           \A c, d \in t.clockGuard : c.clock = d.clock => c.id = d.id,
           t.source # m.initialLocation
    PROVE  /\ Negated(Reparsed(m, t)) <=> Negated(t)
           /\ Negatable(Reparsed(m, t).clockGuard) <=> Negatable(t.clockGuard)
           /\ NotNegatable(m, t) <=> Negated(t) /\ ~Negatable(t.clockGuard)
<1>1. /\ Guarded(Reparsed(m, t)) <=> Guarded(t)
      /\ Negatable(Reparsed(m, t).clockGuard) <=> Negatable(t.clockGuard)
      /\ Reparsed(m, t).action = t.action
  BY ReparsedGuard, ReparsedType
<1>2. Negatable(t.clockGuard) <=> ~(\/ t.clockGuard = {} \/ \E c, d \in t.clockGuard : c # d
                                    \/ \E c \in t.clockGuard : c.relation = "=")
  <2>1. ASSUME Negatable(t.clockGuard)
        PROVE  ~(\/ t.clockGuard = {} \/ \E c, d \in t.clockGuard : c # d
                 \/ \E c \in t.clockGuard : c.relation = "=")
    BY <2>1 DEF Negatable
  <2>2. ASSUME t.clockGuard # {}, ~(\E c, d \in t.clockGuard : c # d),
               ~(\E c \in t.clockGuard : c.relation = "=")
        PROVE  Negatable(t.clockGuard)
    <3>1. PICK c : c \in t.clockGuard
      BY <2>2
    <3>2. t.clockGuard = {c} /\ c.relation # "="
      BY <2>2, <3>1
    <3> QED
      BY <3>1, <3>2 DEF Negatable
  <2> QED
    BY <2>1, <2>2
<1>3. NotNegatable(m, t) <=> Negated(t) /\ ~Negatable(t.clockGuard)
  BY <1>2 DEF NotNegatable, Negated, Guarded
<1> QED
  BY <1>1, <1>3 DEF Negated
-----------------------------------------------------------------------------
(* The steps.                                                              *)

(* Before the loop: what clone() made, and the self loops of DontCare.     *)
LEMMA StartHandled ==
    ASSUME NEW m, WellFormed(m), Parsed(m), DontCare \in Label, NEW k \in Clones(m),
           NEW c \in CreateAll(AddLocation(k, DontCare), DontCare, Chaos(AddLocation(k, DontCare)))
    PROVE  /\ c \in Model /\ Cloned(c, m)
           /\ LocationsHandled(c, m, c.locations, <<>>)
           /\ CopiedList(c, m, c.locations, <<>>)
<1> DEFINE b == AddLocation(k, DontCare)
           types == {ACTION_INPUT, ACTION_OUTPUT}
           actions == ActionsOfType(b, types)
           X == Chaos(b)
<1>1. m \in Model /\ IsFiniteSet(m.transitions) /\ m.initialLocation \in m.locations
  BY DEF WellFormed
<1>2. /\ k \in Model
      /\ k.locations = m.locations /\ k.clocks = m.clocks
      /\ k.initialLocation = m.initialLocation
      /\ k.inputActions = m.inputActions /\ k.outputActions = m.outputActions
      /\ k.internalActions = m.internalActions
      /\ \A l \in m.locations : k.out[l] \in SetToSeqs(ClonedFrom(m, l))
      /\ \A l \in Label \ m.locations : k.out[l] = <<>>
  BY <1>1, CopyOf
<1>3. /\ b \in Model /\ b.out = k.out /\ b.locations = m.locations \cup {DontCare}
      /\ b.clocks = k.clocks /\ b.initialLocation = k.initialLocation
      /\ b.inputActions = k.inputActions /\ b.outputActions = k.outputActions
      /\ b.internalActions = k.internalActions
  BY <1>2, AddLocationType DEF AddLocation, Model
<1>4. \A l \in Label : Range(b.out[l]) = ClonedFrom(m, l)
  <2> SUFFICES ASSUME NEW l \in Label PROVE Range(b.out[l]) = ClonedFrom(m, l)
    OBVIOUS
  <2>1. CASE l \in m.locations
    <3>1. b.out[l] \in SetToSeqs(ClonedFrom(m, l)) /\ IsFiniteSet(ClonedFrom(m, l))
      BY <1>1, <1>2, <1>3, <2>1, ClonedFromType
    <3> QED
      BY <3>1, OrderingOnce
  <2>2. CASE l \notin m.locations
    <3>1. ClonedFrom(m, l) = {} /\ b.out[l] = <<>>
      BY <1>2, <1>3, <2>2, FromParser
    <3>2. Range(<<>>) = {}
      BY EmptySeq DEF Range
    <3> QED
      BY <3>1, <3>2
  <2> QED
    BY <2>1, <2>2
<1>5. X \subseteq Transition /\ IsFiniteSet(X) /\ \A t \in X : t.source = DontCare /\ ~Guarded(t)
  <2>1. IsFiniteSet(ActionNames(b))
    BY <1>2, <1>3 DEF Parsed, ActionNames
  <2>2. actions \subseteq Action /\ IsFiniteSet(actions)
    BY <1>3, <2>1, ActionsOfTypeFinite
  <2>3. Lazy \in [Action -> Deadline]
    BY DEF Lazy, Deadline
  <2>4. X = Unguarded(DontCare, actions, Lazy, DontCare)
    BY DEF Chaos
  <2> HIDE DEF actions, X
  <2> QED
    BY <2>2, <2>3, <2>4, UnguardedType
<1> HIDE DEF b, X
<1>6. /\ c \in Model
      /\ c.locations = b.locations /\ c.initialLocation = b.initialLocation
      /\ c.clocks = b.clocks
      /\ c.inputActions = b.inputActions /\ c.outputActions = b.outputActions
      /\ c.internalActions = b.internalActions
      /\ \A l \in Label \ {DontCare} : c.out[l] = b.out[l]
      /\ Range(c.out[DontCare]) = Range(b.out[DontCare]) \cup X
  <2>1. c \in CreateAll(b, DontCare, X)
    BY DEF b, X
  <2> QED
    BY <1>3, <1>5, <2>1, CreatedForAll
<1>7. Cloned(c, m)
  BY <1>2, <1>3, <1>6 DEF Cloned
<1>8. ASSUME NEW l \in c.locations
      PROVE  Holds(c, m, l) /\ Unvisited(c, m, l)
  <2>1. l \in Label /\ \A t \in ClonedFrom(m, l) : t.source = l
    BY <1>6, FromParser DEF Model
  <2>2. CASE l = DontCare
    <3>1. Range(c.out[l]) = ClonedFrom(m, l) \cup X
      BY <1>4, <1>6, <2>1, <2>2
    <3> QED
      BY <1>5, <2>1, <2>2, <3>1 DEF Holds, Unvisited
  <2>3. CASE l # DontCare
    <3>1. Range(c.out[l]) = ClonedFrom(m, l)
      BY <1>4, <1>6, <2>1, <2>3
    <3> QED
      BY <2>1, <3>1 DEF Holds, Unvisited, Origin
  <2> QED
    BY <2>2, <2>3
<1>9. CopiedList(c, m, c.locations, <<>>)
  BY EmptySeq DEF CopiedList
<1> QED
  BY <1>6, <1>7, <1>8, <1>9 DEF LocationsHandled

\* What a visit adds, in terms of the model that is completed.
MissingInputs(c, l) == Unguarded(l, AbsentActions(c, l, {ACTION_INPUT}), Lazy, DontCare)

(* The loop comes to a location that is completed.                         *)
LEMMA VisitHandled ==
    ASSUME NEW m, WellFormed(m), Parsed(m), DontCare \in Label,
           NEW c \in Model, Cloned(c, m),
           NEW waiting \in SUBSET c.locations, LocationsHandled(c, m, waiting, <<>>),
           NEW l \in waiting, l # m.initialLocation,
           NEW c2 \in CreateAll(c, l, MissingInputs(c, l))
    PROVE  /\ c2 \in Model /\ Cloned(c2, m) /\ c2.locations = c.locations
           /\ LocationsHandled(c2, m, waiting \ {l}, c2.out[l])
           /\ CopiedList(c2, m, waiting \ {l}, c2.out[l])
<1> DEFINE missing == MissingInputs(c, l)
           absent == AbsentActions(c, l, {ACTION_INPUT})
           rest == c2.out[l]
<1>1. /\ l \in c.locations /\ l \in Label /\ c.locations \subseteq Label
      /\ Holds(c, m, l) /\ Unvisited(c, m, l)
  BY DEF LocationsHandled, Model
<1>2. IsFiniteSet(ActionNames(c))
  BY DEF Cloned, ActionNames, Parsed
<1>3. /\ absent \subseteq Action /\ IsFiniteSet(absent)
      /\ \A a \in absent : \A t \in Range(c.out[l]) : t.action.name # a.name
      /\ \A n \in NamesOfType(c, ACTION_INPUT) :
            (\A t \in Range(c.out[l]) : t.action.name # n)
               => [name |-> n, type |-> ACTION_INPUT] \in absent
  BY <1>1, <1>2, AbsentType
<1>4. NamesOfType(c, ACTION_INPUT) = m.inputActions
  BY DEF NamesOfType, Cloned
<1>5. Lazy \in [Action -> Deadline]
  BY DEF Lazy, Deadline
<1> HIDE DEF absent
<1>6. missing = Unguarded(l, absent, Lazy, DontCare)
  BY DEF absent, MissingInputs
<1> HIDE DEF missing
<1>7. /\ missing \subseteq Transition /\ IsFiniteSet(missing)
      /\ \A t \in missing : t.source = l /\ ~Guarded(t) /\ t.action \in absent
      /\ \A a \in absent : \E t \in missing : t.action = a
  BY <1>1, <1>3, <1>5, <1>6, UnguardedType
<1>14. c2 \in CreateAll(c, l, missing)
  BY DEF missing
<1>8. /\ c2 \in Model
      /\ c2.locations = c.locations /\ c2.initialLocation = c.initialLocation
      /\ c2.clocks = c.clocks
      /\ c2.inputActions = c.inputActions /\ c2.outputActions = c.outputActions
      /\ c2.internalActions = c.internalActions
      /\ \A k \in Label \ {l} : c2.out[k] = c.out[k]
      /\ Range(c2.out[l]) = Range(c.out[l]) \cup missing
  BY <1>1, <1>7, <1>14, CreatedForAll
<1> HIDE DEF missing
<1>9. Cloned(c2, m)
  BY <1>8 DEF Cloned
<1>10. ASSUME NEW t \in Range(rest)
       PROVE  t.source = l /\ (Guarded(t) => t \in ClonedFrom(m, l))
  <2>1. t \in Range(c.out[l]) \/ t \in missing
    BY <1>8
  <2> QED
    BY <1>1, <1>7, <2>1 DEF Holds, Unvisited
<1>11. Holds(c2, m, l)
  <2>1. \A t \in missing : \A y \in ClonedFrom(m, l) : y.action.name # t.action.name
    BY <1>1, <1>3, <1>7 DEF Holds
  <2> QED
    BY <1>1, <1>7, <1>8, <2>1 DEF Holds, Origin
<1>12. Visited(c2, m, l, Range(rest))
  <2>1. ASSUME NEW n \in m.inputActions
        PROVE  \E t \in Range(rest) : t.action.name = n
    <3>1. CASE \E t \in Range(c.out[l]) : t.action.name = n
      BY <1>8, <3>1
    <3>2. CASE \A t \in Range(c.out[l]) : t.action.name # n
      <4>1. [name |-> n, type |-> ACTION_INPUT] \in absent
        BY <1>3, <1>4, <3>2
      <4>2. PICK t \in missing : t.action = [name |-> n, type |-> ACTION_INPUT]
        BY <1>7, <4>1
      <4> QED
        BY <1>8, <4>2
    <3> QED
      BY <3>1, <3>2
  <2>2. \A y \in ClonedFrom(m, l) : y \in Range(rest)
    BY <1>1, <1>8 DEF Holds
  <2> QED
    BY <2>1, <2>2 DEF Visited
<1>13. ASSUME NEW k \in c2.locations
       PROVE  /\ Holds(c2, m, k)
              /\ IF k \in waiting \ {l} \/ k = m.initialLocation
                 THEN Unvisited(c2, m, k)
                 ELSE Visited(c2, m, k, Range(rest))
  <2>1. CASE k = l
    BY <1>11, <1>12, <2>1
  <2>2. CASE k # l
    <3>1. c2.out[k] = c.out[k] /\ k \in c.locations
      BY <1>1, <1>8, <2>2
    <3>2. Holds(c2, m, k)
      BY <3>1 DEF Holds, LocationsHandled
    <3>3. CASE k \in waiting \/ k = m.initialLocation
      BY <2>2, <3>1, <3>2, <3>3 DEF Unvisited, LocationsHandled
    <3>4. CASE ~(k \in waiting \/ k = m.initialLocation)
      <4>1. Visited(c, m, k, Range(<<>>))
        BY <3>1, <3>4 DEF LocationsHandled
      <4>2. Range(<<>>) = {}
        BY EmptySeq DEF Range
      <4>3. Visited(c2, m, k, Range(rest))
        BY <3>1, <4>1, <4>2 DEF Visited
      <4> QED
        BY <3>2, <3>4, <4>3
    <3> QED
      BY <3>3, <3>4
  <2> QED
    BY <2>1, <2>2
<1>15. CopiedList(c2, m, waiting \ {l}, rest)
  <2>1. \A k \in DOMAIN rest : rest[k] \in Range(rest)
    BY DEF Range
  <2>2. l \in c2.locations \ (waiting \ {l})
    BY <1>1, <1>8
  <2> HIDE DEF rest
  <2> QED
    BY <1>10, <2>1, <2>2 DEF CopiedList
<1> QED
  BY <1>8, <1>9, <1>13, <1>15 DEF LocationsHandled

(* A guarded input of the copied list gets its negation.                   *)
LEMMA NegateHandled ==
    ASSUME NEW m, WellFormed(m), Parsed(m), DontCare \in Label,
           NEW c \in Model, Cloned(c, m),
           NEW waiting \in SUBSET c.locations, NEW rest \in Seq(Transition), rest # <<>>,
           LocationsHandled(c, m, waiting, rest), CopiedList(c, m, waiting, rest),
           Negated(Head(rest)), Negatable(Head(rest).clockGuard),
           NEW c2, c2 = CreateTransition(c, Complement(m, Head(rest)))
    PROVE  /\ c2 \in Model /\ Cloned(c2, m) /\ c2.locations = c.locations
           /\ LocationsHandled(c2, m, waiting, Tail(rest))
           /\ CopiedList(c2, m, waiting, Tail(rest))
<1> DEFINE h == Head(rest)
           l == h.source
           p == Complement(m, h)
<1>1. /\ h = rest[1] /\ 1 \in DOMAIN rest /\ h \in Transition
      /\ \A k \in DOMAIN Tail(rest) : k + 1 \in DOMAIN rest /\ Tail(rest)[k] = rest[k + 1]
      /\ Range(rest) = Range(Tail(rest)) \cup {h}
  BY TailOf
<1>2. /\ l \in c.locations \ waiting /\ l # m.initialLocation
      /\ h \in ClonedFrom(m, l)
  BY <1>1 DEF CopiedList, Negated
<1>3. m \in Model /\ h.dataGuard \subseteq Test
  BY <1>2, FromParser DEF WellFormed
<1>4. p \in Transition /\ p.source = l /\ p.action = h.action
  BY <1>1, <1>3, ComplementType
<1>5. Origin(m, l, p)
  BY <1>2 DEF Origin
<1> HIDE DEF p
<1>6. c2 = CreateTransition(c, p)
  BY DEF p
<1>7. /\ l \in Label /\ c.locations \subseteq Label /\ c.out \in [Label -> Seq(Transition)]
  BY <1>2 DEF Model
<1>8. /\ c2 \in Model /\ c2.locations = c.locations
      /\ \A k \in Label : c2.out[k] = IF k = l THEN Append(c.out[k], p) ELSE c.out[k]
  BY <1>4, <1>6, CreateTransitionType
<1>9. /\ c2.initialLocation = c.initialLocation /\ c2.clocks = c.clocks
      /\ c2.inputActions = c.inputActions /\ c2.outputActions = c.outputActions
      /\ c2.internalActions = c.internalActions
  BY <1>6 DEF CreateTransition, Model
<1>10. Cloned(c2, m)
  BY <1>8, <1>9 DEF Cloned
<1>11. Range(c2.out[l]) = Range(c.out[l]) \cup {p}
  <2>1. c.out[l] \in Seq(Transition) /\ c2.out[l] = Append(c.out[l], p)
    BY <1>7, <1>8
  <2>2. \A s \in Seq(Transition) : Range(Append(s, p)) = Range(s) \cup {p}
    BY <1>4, RangeOfAppend
  <2> QED
    BY <2>1, <2>2
<1>12. ASSUME NEW k \in c2.locations
       PROVE  /\ Holds(c2, m, k)
              /\ IF k \in waiting \/ k = m.initialLocation
                 THEN Unvisited(c2, m, k)
                 ELSE Visited(c2, m, k, Range(Tail(rest)))
  <2>1. /\ Holds(c, m, k)
        /\ IF k \in waiting \/ k = m.initialLocation
           THEN Unvisited(c, m, k) ELSE Visited(c, m, k, Range(rest))
    BY <1>8 DEF LocationsHandled
  <2>2. CASE k = l
    <3>1. Holds(c2, m, k)
      BY <1>4, <1>5, <1>11, <2>1, <2>2 DEF Holds
    <3>2. Visited(c, m, k, Range(rest))
      BY <1>2, <2>1, <2>2
    <3>3. Visited(c2, m, k, Range(Tail(rest)))
      BY <1>1, <1>11, <2>2, <3>2 DEF Visited
    <3> QED
      BY <1>2, <2>2, <3>1, <3>3
  <2>3. CASE k # l
    <3>1. c2.out[k] = c.out[k]
      BY <1>7, <1>8, <2>3
    <3>2. h \notin ClonedFrom(m, k)
      BY <2>3, FromParser
    <3>3. Holds(c2, m, k)
      BY <2>1, <3>1 DEF Holds
    <3>4. CASE k \in waiting \/ k = m.initialLocation
      BY <2>1, <3>1, <3>3, <3>4 DEF Unvisited
    <3>5. CASE ~(k \in waiting \/ k = m.initialLocation)
      <4>1. Visited(c2, m, k, Range(Tail(rest)))
        BY <1>1, <2>1, <3>1, <3>2, <3>5 DEF Visited
      <4> QED
        BY <3>3, <3>5, <4>1
    <3> QED
      BY <3>4, <3>5
  <2> QED
    BY <2>2, <2>3
<1>13. CopiedList(c2, m, waiting, Tail(rest))
  BY <1>1, <1>8 DEF CopiedList
<1> QED
  BY <1>8, <1>10, <1>12, <1>13 DEF LocationsHandled

(* What need not be negated is passed over.                                *)
LEMMA PassHandled ==
    ASSUME NEW m, NEW c, NEW waiting, NEW rest \in Seq(Transition), rest # <<>>,
           LocationsHandled(c, m, waiting, rest), CopiedList(c, m, waiting, rest),
           ~Negated(Head(rest))
    PROVE  /\ LocationsHandled(c, m, waiting, Tail(rest))
           /\ CopiedList(c, m, waiting, Tail(rest))
<1>1. /\ \A k \in DOMAIN Tail(rest) : k + 1 \in DOMAIN rest /\ Tail(rest)[k] = rest[k + 1]
      /\ Range(rest) = Range(Tail(rest)) \cup {Head(rest)}
  BY TailOf
<1>2. ASSUME NEW l, Visited(c, m, l, Range(rest)) PROVE Visited(c, m, l, Range(Tail(rest)))
  BY <1>1, <1>2 DEF Visited
<1>3. LocationsHandled(c, m, waiting, Tail(rest))
  BY <1>2 DEF LocationsHandled
<1>4. CopiedList(c, m, waiting, Tail(rest))
  BY <1>1 DEF CopiedList
<1> QED
  BY <1>3, <1>4

-----------------------------------------------------------------------------
(* The invariant.                                                          *)

(* It holds before the call.                                              *)
LEMMA Initially == Init => IInv
<1> SUFFICES ASSUME Init PROVE IInv
  OBVIOUS
<1>1. tiosts \in Model
  BY ModelsAssumption DEF Init, WellFormed
<1>2. EmptyTIOSTS \in Model
  <2>1. <<>> \in Seq(Transition) /\ <<>> \in Seq(Clock)
    BY EmptySeq
  <2> QED
    BY <2>1 DEF EmptyTIOSTS, Model
<1>3. TypeOK
  BY <1>1, <1>2, EmptySeq DEF Init, TypeOK, Status
<1> QED
  BY <1>3 DEF Init, IInv

(* Every step keeps the invariant.                                         *)
LEMMA Preserved == IInv /\ [Next]_vars => IInv'
<1> SUFFICES ASSUME IInv, [Next]_vars PROVE IInv'
  OBVIOUS
<1>1. /\ TypeOK /\ tiosts \in Models
      /\ WellFormed(tiosts) /\ Parsed(tiosts) /\ DontCare \in Label
  BY ModelsAssumption DEF IInv
<1>2. CASE Start
  <2>1. PICK k \in Clones(tiosts) :
           complete' \in CreateAll(AddLocation(k, DontCare), DontCare,
                                   Chaos(AddLocation(k, DontCare)))
    BY <1>2 DEF Start
  <2>2. /\ complete' \in Model /\ Cloned(complete', tiosts)
        /\ LocationsHandled(complete', tiosts, complete'.locations, <<>>)
        /\ CopiedList(complete', tiosts, complete'.locations, <<>>)
    BY <1>1, <2>1, StartHandled
  <2>3. /\ tiosts' = tiosts /\ todo = <<>> /\ todo' = <<>>
        /\ pending' = complete'.locations /\ status' = "completing"
    BY <1>2 DEF Start, IInv
  <2>4. TypeOK'
    BY <1>1, <2>2, <2>3 DEF TypeOK, Status
  <2> QED
    BY <1>1, <2>2, <2>3, <2>4 DEF IInv
<1>3. ASSUME NEW l \in pending, Visit(l)
      PROVE  IInv'
  <2>1. /\ status = "completing" /\ todo = <<>> /\ status' = "completing"
        /\ tiosts' = tiosts /\ pending' = pending \ {l}
        /\ complete \in Model /\ pending \subseteq complete.locations
        /\ Cloned(complete, tiosts)
        /\ LocationsHandled(complete, tiosts, pending, <<>>)
    BY <1>3 DEF Visit, IInv, TypeOK
  <2>2. complete.initialLocation = tiosts.initialLocation
    BY <2>1 DEF Cloned
  <2>3. CASE l # complete.initialLocation
    <3>1. /\ complete' \in CreateAll(complete, l, MissingInputs(complete, l))
          /\ todo' = complete'.out[l]
      BY <1>3, <2>3 DEF Visit, Missing, MissingInputs
    <3>2. /\ complete' \in Model /\ Cloned(complete', tiosts)
          /\ complete'.locations = complete.locations
          /\ LocationsHandled(complete', tiosts, pending \ {l}, complete'.out[l])
          /\ CopiedList(complete', tiosts, pending \ {l}, complete'.out[l])
      <4>1. l # tiosts.initialLocation /\ l \in pending
        BY <1>3, <2>2, <2>3
      <4>2. /\ WellFormed(tiosts) /\ Parsed(tiosts) /\ DontCare \in Label
            /\ complete \in Model /\ Cloned(complete, tiosts)
            /\ pending \in SUBSET complete.locations
            /\ LocationsHandled(complete, tiosts, pending, <<>>)
        BY <1>1, <2>1
      <4>3. \A c2 \in CreateAll(complete, l, MissingInputs(complete, l)) :
              /\ c2 \in Model /\ Cloned(c2, tiosts) /\ c2.locations = complete.locations
              /\ LocationsHandled(c2, tiosts, pending \ {l}, c2.out[l])
              /\ CopiedList(c2, tiosts, pending \ {l}, c2.out[l])
        BY <4>1, <4>2, VisitHandled
      <4> QED
        BY <3>1, <4>3
    <3>3. complete'.out[l] \in Seq(Transition)
      BY <2>1, <3>2 DEF Model
    <3>4. TypeOK'
      BY <1>1, <2>1, <3>1, <3>2, <3>3 DEF TypeOK
    <3> QED
      BY <1>1, <2>1, <3>1, <3>2, <3>4 DEF IInv
  <2>4. CASE l = complete.initialLocation
    <3>1. complete' = complete /\ todo' = <<>>
      BY <1>3, <2>1, <2>4 DEF Visit
    <3>2. LocationsHandled(complete, tiosts, pending \ {l}, <<>>)
      BY <2>1, <2>2, <2>4 DEF LocationsHandled
    <3>3. CopiedList(complete, tiosts, pending \ {l}, <<>>)
      BY EmptySeq DEF CopiedList
    <3>4. TypeOK'
      BY <1>1, <2>1, <3>1, EmptySeq DEF TypeOK
    <3> QED
      BY <1>1, <2>1, <3>1, <3>2, <3>3, <3>4 DEF IInv
  <2> QED
    BY <2>3, <2>4
<1>4. ASSUME todo # <<>>
      PROVE  /\ status = "completing" /\ complete \in Model /\ pending \subseteq complete.locations
             /\ todo \in Seq(Transition) /\ Tail(todo) \in Seq(Transition)
             /\ Head(todo) = todo[1] /\ 1 \in DOMAIN todo
             /\ Cloned(complete, tiosts)
             /\ LocationsHandled(complete, tiosts, pending, todo)
             /\ CopiedList(complete, tiosts, pending, todo)
  <2>1. status = "completing"
    BY <1>4 DEF IInv
  <2>2. todo \in Seq(Transition)
    BY <1>1 DEF TypeOK
  <2> QED
    BY <1>1, <1>4, <2>1, <2>2, TailOf DEF IInv, TypeOK
<1>5. CASE Negate
  <2>1. /\ todo # <<>> /\ Negated(Head(todo)) /\ Negatable(Head(todo).clockGuard)
        /\ complete' = CreateTransition(complete, Negation(Head(todo)))
        /\ todo' = Tail(todo)
        /\ tiosts' = tiosts /\ pending' = pending /\ status' = status
    BY <1>5 DEF Negate
  <2>2. Negation(Head(todo)) = Complement(tiosts, Head(todo))
    BY <1>4, <2>1 DEF Negation, Complement, Cloned
  <2>3. /\ complete' \in Model /\ Cloned(complete', tiosts)
        /\ complete'.locations = complete.locations
        /\ LocationsHandled(complete', tiosts, pending, Tail(todo))
        /\ CopiedList(complete', tiosts, pending, Tail(todo))
    BY <1>1, <1>4, <2>1, <2>2, NegateHandled
  <2>4. TypeOK'
    BY <1>1, <1>4, <2>1, <2>3 DEF TypeOK
  <2> QED
    BY <1>1, <1>4, <2>1, <2>3, <2>4 DEF IInv
<1>6. CASE Pass
  <2>1. /\ todo # <<>> /\ ~Negated(Head(todo)) /\ todo' = Tail(todo)
        /\ tiosts' = tiosts /\ complete' = complete /\ pending' = pending /\ status' = status
    BY <1>6 DEF Pass
  <2>2. /\ LocationsHandled(complete, tiosts, pending, Tail(todo))
        /\ CopiedList(complete, tiosts, pending, Tail(todo))
    BY <1>4, <2>1, PassHandled
  <2>3. TypeOK'
    BY <1>1, <1>4, <2>1 DEF TypeOK
  <2> QED
    BY <1>1, <1>4, <2>1, <2>2, <2>3 DEF IInv
<1>7. CASE Throw
  <2>1. /\ todo # <<>> /\ Negated(Head(todo)) /\ ~Negatable(Head(todo).clockGuard)
        /\ todo' = <<>> /\ pending' = {} /\ status' = "thrown"
        /\ tiosts' = tiosts /\ complete' = complete
    BY <1>7 DEF Throw
  <2>2. /\ Head(todo) \in ClonedFrom(tiosts, Head(todo).source)
        /\ Head(todo).source # tiosts.initialLocation
    BY <1>4, <2>1 DEF CopiedList, Negated
  <2>3. PICK t \in tiosts.transitions :
           /\ t \in Transition /\ t.source = Head(todo).source
           /\ Head(todo) = Reparsed(tiosts, t)
           /\ \A c, d \in t.clockGuard : c.clock = d.clock => c.id = d.id
    BY <1>1, <2>2, FromParser
  <2>4. NotNegatable(tiosts, t)
    BY <1>1, <2>1, <2>2, <2>3, RefusedAsCloned DEF TypeOK
  <2>5. TypeOK'
    BY <1>1, <1>4, <2>1, EmptySeq DEF TypeOK, Status
  <2> QED
    BY <1>1, <1>4, <2>1, <2>4, <2>5 DEF IInv
<1>8. CASE Return
  <2>1. /\ status = "completing" /\ todo = <<>> /\ pending = {} /\ status' = "returned"
        /\ tiosts' = tiosts /\ complete' = complete /\ pending' = pending /\ todo' = todo
    BY <1>8 DEF Return
  <2>2. TypeOK'
    BY <1>1, <2>1 DEF TypeOK, Status
  <2> QED
    BY <1>1, <2>1, <2>2 DEF IInv
<1>9. CASE UNCHANGED vars
  BY <1>9 DEF vars, IInv, TypeOK
<1> QED
  BY <1>2, <1>3, <1>5, <1>6, <1>7, <1>8, <1>9 DEF Next

(* The invariant holds in every reachable state.                           *)
THEOREM Invariance == Spec => []IInv
<1> QED
  BY Initially, Preserved, PTL DEF Spec

-----------------------------------------------------------------------------
(* What the run checks.                                                    *)

(* The locals of complete() keep their types, whatever the model and the   *)
(* order in which the maps are iterated.                                   *)
THEOREM TypeCorrect == Spec => []TypeOK
<1>1. IInv => TypeOK
  BY DEF IInv
<1> QED
  BY <1>1, Invariance, PTL

(* When complete() has returned, every location has been visited.          *)
LEMMA WhenReturned ==
    ASSUME IInv, status = "returned"
    PROVE  /\ WellFormed(tiosts) /\ Parsed(tiosts) /\ DontCare \in Label
           /\ Cloned(complete, tiosts)
           /\ \A l \in complete.locations :
                 /\ Holds(complete, tiosts, l)
                 /\ l # tiosts.initialLocation => Visited(complete, tiosts, l, {})
<1>1. tiosts \in Models /\ todo = <<>> /\ pending = {} /\ Cloned(complete, tiosts)
  BY DEF IInv
<1>2. WellFormed(tiosts) /\ Parsed(tiosts) /\ DontCare \in Label
  BY <1>1, ModelsAssumption
<1>3. LocationsHandled(complete, tiosts, pending, todo)
  BY DEF IInv
<1>4. Range(todo) = {}
  BY <1>1, EmptySeq DEF Range
<1> QED
  BY <1>1, <1>2, <1>3, <1>4 DEF LocationsHandled

(* Every location of the result but the initial one accepts, at every      *)
(* moment, every input that no guard restricts there.                      *)
THEOREM InputsAccepted == Spec => []FreeInputsAccepted
<1>1. IInv => FreeInputsAccepted
  <2> SUFFICES ASSUME IInv, status = "returned", NEW l \in Accepting(complete),
                      NEW n \in Free(complete, l), NEW v \in Moments
               PROVE  \E t \in Range(complete.out[l]) : t.action.name = n /\ Enabled(t, v)
    BY DEF FreeInputsAccepted, Covers
  <2>1. /\ l \in complete.locations /\ l # tiosts.initialLocation
        /\ n \in tiosts.inputActions
    BY WhenReturned DEF Accepting, Free, Cloned
  <2>2. Visited(complete, tiosts, l, {})
    BY <2>1, WhenReturned
  <2>3. PICK t \in Range(complete.out[l]) : t.action.name = n
    BY <2>1, <2>2 DEF Visited
  <2>4. ~Guarded(t)
    BY <2>3 DEF Free
  <2> QED
    BY <2>3, <2>4 DEF Guarded, Enabled
<1> QED
  BY <1>1, Invariance, PTL

(* What leads to DontCare is never possible where the model has the only   *)
(* move on that action.                                                    *)
THEOREM Specified == Spec => []SpecifiedKept
<1>1. IInv => SpecifiedKept
  <2> SUFFICES ASSUME IInv, status = "returned",
                      NEW l \in Accepting(tiosts) \ {DontCare},
                      NEW t \in Range(complete.out[l]), t.target = DontCare,
                      NEW u \in tiosts.transitions, u.source = l, u.target # DontCare,
                      u.action.name = t.action.name,
                      \A w \in tiosts.transitions :
                         (w.source = l /\ w.action.name = u.action.name) => w = u,
                      NEW v \in Moments
               PROVE  ~(Enabled(t, v) /\ Enabled(u, v))
    BY DEF SpecifiedKept
  <2>1. /\ WellFormed(tiosts) /\ Parsed(tiosts) /\ tiosts \in Model /\ DontCare \in Label
        /\ u \in Transition
    BY WhenReturned DEF WellFormed, Model
  <2>2. l \in complete.locations
    BY WhenReturned DEF Accepting, Cloned
  <2>3. Origin(tiosts, l, t)
    BY <2>2, WhenReturned DEF Holds
  <2> DEFINE r == Reparsed(tiosts, u)
  <2>4. /\ r \in ClonedFrom(tiosts, l) /\ r.action = u.action /\ r.target = u.target
        /\ r \in Transition /\ r.dataGuard \subseteq Test
    <3>1. r \in ClonedFrom(tiosts, l)
      BY DEF ClonedFrom
    <3> QED
      BY <2>1, <3>1, ReparsedType, FromParser
  <2>5. Enabled(r, v) <=> Enabled(u, v)
    BY <2>1, ReparsedGuard DEF Parsed
  <2>6. ASSUME NEW y \in ClonedFrom(tiosts, l), y.action.name = u.action.name
        PROVE  y = r
    <3>1. PICK w \in tiosts.transitions :
             w.source = l /\ y = Reparsed(tiosts, w) /\ w.action = y.action
      BY <2>1, FromParser
    <3>2. w = u
      BY <2>6, <3>1
    <3> QED
      BY <3>1, <3>2
  <2> HIDE DEF r
  <2>7. CASE t \in ClonedFrom(tiosts, l)
    BY <2>4, <2>6, <2>7
  <2>8. CASE \E y \in ClonedFrom(tiosts, l) :
                Negatable(y.clockGuard) /\ t = Complement(tiosts, y)
    <3>1. PICK y \in ClonedFrom(tiosts, l) :
             Negatable(y.clockGuard) /\ t = Complement(tiosts, y)
      BY <2>8
    <3>2. y \in Transition /\ y.dataGuard \subseteq Test
      BY <2>1, FromParser
    <3>3. t.action = y.action
      BY <2>1, <3>1, <3>2, ComplementType
    <3>4. y = r
      BY <2>6, <3>3
    <3>5. ~(Enabled(Complement(tiosts, y), v) /\ Enabled(y, v))
      BY <2>1, <3>1, <3>2, ComplementDisjoint
    <3> QED
      BY <2>5, <3>1, <3>4, <3>5
  <2>9. CASE \A y \in ClonedFrom(tiosts, l) : y.action.name # t.action.name
    BY <2>4, <2>9
  <2> QED
    BY <2>3, <2>7, <2>8, <2>9 DEF Origin
<1> QED
  BY <1>1, Invariance, PTL

(* A call that returns has met no input it refuses, in whatever order the  *)
(* locations were visited; in particular none with a clock guard that is   *)
(* not supported.                                                          *)
THEOREM Refusal == Spec => []UnsupportedRefused
<1>1. ASSUME IInv, status = "returned", NEW t \in tiosts.transitions, NotNegatable(tiosts, t)
      PROVE  FALSE
  <2>1. /\ WellFormed(tiosts) /\ Parsed(tiosts) /\ tiosts \in Model /\ t \in Transition
        /\ t.source # tiosts.initialLocation
    BY <1>1, WhenReturned DEF WellFormed, Model, NotNegatable
  <2> DEFINE y == Reparsed(tiosts, t)
  <2>2. y \in ClonedFrom(tiosts, t.source) /\ t.source \in tiosts.locations
    <3>1. y \in ClonedFrom(tiosts, t.source)
      BY DEF ClonedFrom
    <3> QED
      BY <2>1, <3>1, FromParser
  <2>3. Negated(y) /\ ~Negatable(y.clockGuard)
    <3>1. \A c, d \in t.clockGuard : c.clock = d.clock => c.id = d.id
      BY <2>1 DEF Parsed
    <3> QED
      BY <1>1, <2>1, <3>1, RefusedAsCloned
  <2>4. t.source \in complete.locations
    BY <1>1, <2>2, WhenReturned DEF Cloned
  <2>5. Visited(complete, tiosts, t.source, {})
    BY <1>1, <2>1, <2>4, WhenReturned
  <2> HIDE DEF y
  <2> QED
    BY <2>2, <2>3, <2>5 DEF Visited
<1>2. IInv => UnsupportedRefused
  <2> SUFFICES ASSUME IInv, status = "returned", NEW t \in tiosts.transitions,
                      t.source # tiosts.initialLocation, t.action.type = ACTION_INPUT,
                      NEW c \in t.clockGuard, NEW d \in t.clockGuard
               PROVE  c = d /\ c.relation # "="
    BY DEF UnsupportedRefused
  <2>1. ~NotNegatable(tiosts, t)
    BY <1>1
  <2> QED
    BY <2>1 DEF NotNegatable
<1> QED
  BY <1>2, Invariance, PTL

(* Nothing else makes a call throw: the model has an input the code        *)
(* refuses.  That those with a data guard alone are among them is what     *)
(* ThrownOnlyIfUnsupported objects to.                                     *)
THEOREM RefusedOnly ==
    Spec => [](status = "thrown" => \E t \in tiosts.transitions : NotNegatable(tiosts, t))
<1>1. IInv => (status = "thrown" => \E t \in tiosts.transitions : NotNegatable(tiosts, t))
  BY DEF IInv
<1> QED
  BY <1>1, Invariance, PTL
=============================================================================
