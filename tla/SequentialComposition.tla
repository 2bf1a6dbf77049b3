------------------------ MODULE SequentialComposition ------------------------
(***************************************************************************)
(* compositions/SequentialComposition.java: the first model runs up to the *)
(* composition transition, which it takes together with the first          *)
(* transition of the second model; then the second model runs.             *)
(***************************************************************************)
EXTENDS Rebuilding

\* The declarations: of the second model the internal actions, the initial
\* location and the input of t02 are left out.  An initial location of the
\* first model that becomes part of a joint one is no longer initial.
InitializedSequence(c1, c2, tc1, t02, start2) ==
    [Declarations(c1) EXCEPT
        !.initialLocation = IF @ \in {tc1.source, tc1.target} THEN NoLabel ELSE @,
        !.outputActions = @ \cup c2.outputActions,
        !.inputActions  = @ \cup (c2.inputActions \ {t02.action.name}),
        !.variables     = @ \cup c2.variables,
        !.clocks        = @ \o c2.clocks,
        !.locations     = (@ \ {tc1.source, tc1.target})
                             \cup (c2.locations \ {t02.source, t02.target, start2})
                             \cup {Join(tc1.source, t02.source),
                                   Join(tc1.target, t02.target)}]

\* The synchronised transition carries the initial condition of the second.
Composition(c2, tc1, t02) ==
    [Conjoined(tc1, t02) EXCEPT !.dataGuard = @ \cup c2.initialCondition]

\* A transition of the first model is redirected at one end only.
OfFirst(t, tc1, joint) ==
    IF t.target = tc1.source THEN [t EXCEPT !.target = joint.source]
    ELSE IF t.source = tc1.source THEN [t EXCEPT !.source = joint.source]
    ELSE t

\* Mutant: it leaves the location before the composition.
OfSecond_FromSource(t, t02, joint) ==
    IF t.source = t02.target THEN [t EXCEPT !.source = joint.source]
    ELSE IF t.target = t02.target THEN [t EXCEPT !.target = joint.target]
    ELSE t

OfSecond(t, t02, joint) ==
    IF t.source = t02.target THEN [t EXCEPT !.source = joint.target]
    ELSE IF t.target = t02.target THEN [t EXCEPT !.target = joint.target]
    ELSE t

Composed(c1, c2, tc1, t02, start2) ==
    LET joint  == Composition(c2, tc1, t02)
        joined == Created(InitializedSequence(c1, c2, tc1, t02, start2), joint)
        first  == CreatedAll(joined, [t \in Transition |-> OfFirst(t, tc1, joint)],
                             Kept(InOrder(c1), c1.transitions \ {tc1}))
    IN  CreatedAll(first, [t \in Transition |-> OfSecond(t, t02, joint)],
                   Kept(InOrder(c2), c2.transitions \ {InitialOf(c2), t02}))

\* The last match in the map: any of them.  Its flag, which should refuse a
\* second match, is reset for every transition.
getCompositionTransition(c, name) == {t \in c.transitions : t.action.name = name}

\* The first incoming transition of a location, in the order of the map.
SourcesInto(c, l) == {t.source : t \in {u \in c.transitions : u.target = l}}

\* No initial transition, no transition leaves l02, or none of the first model has its action.
ComposedClones(c1, c2) ==
    LET l02 == InitialOf(c2).target
        t02 == c2.out[l02][1]
        tc1s == getCompositionTransition(c1, t02.action.name)
    IN  IF ~HasInitial(c2) THEN {Thrown}
        ELSE IF c2.out[l02] = <<>> THEN {Thrown}
        ELSE IF tc1s = {} THEN {Thrown}
        ELSE {Composed(c1, c2, tc1, t02, start2) :
                 tc1 \in tc1s, start2 \in SourcesInto(c2, l02)}

\* The call of isCompatible is commented out.
sequentialComposition(model1, model2) ==
    IF Cloneable(model1) /\ Cloneable(model2)
    THEN UNION {ComposedClones(c1, c2) : c1 \in Copies(model1), c2 \in Copies(model2)}
    ELSE {Thrown}

-----------------------------------------------------------------------------
(* isCompatible, which states what the composition is meant for.           *)

\* Actions compare by name: "single" allows one transition of another type.
isSingleAction(m, a, type) ==
    /\ a.type = type
    /\ Cardinality({t \in m.transitions : t.action.name = a.name /\ t.action.type # a.type}) < 2

isCompatibleSequence(m1, m2, lc) ==
    LET into == {t \in m1.transitions : t.target = lc}
        first == m2.out[InitialOf(m2).target]
    IN  /\ m1.out[lc] = <<>>
        /\ Cardinality(into) = 1
        /\ Len(first) = 1
        /\ \A t \in into : /\ t.assignments = {}
                           /\ t.action.name = first[1].action.name
                           /\ isSingleAction(m1, t.action, ACTION_OUTPUT)
        /\ isSingleAction(m2, first[1].action, ACTION_INPUT)
        /\ Disjoint(m1, m2)
=============================================================================
