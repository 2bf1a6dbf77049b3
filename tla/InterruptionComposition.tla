----------------------- MODULE InterruptionComposition -----------------------
(***************************************************************************)
(* compositions/InterruptionComposition.java: the first model hands over   *)
(* to the second one, and gets control back, on the actions both declare   *)
(* with different types.                                                   *)
(***************************************************************************)
EXTENDS Rebuilding

\* intersectionActions
SynchronizedNames(m1, m2) ==
    {n \in ActionNames(m1) \cap ActionNames(m2) :
        \E ty, uy \in ActionType : /\ n \in NamesOfType(m1, ty)
                                   /\ n \in NamesOfType(m2, uy)
                                   /\ ty # uy}

Synchronizing(c, eSync) == {t \in c.transitions : t.action.name \in eSync}

Ends(ts) == UNION {{t.source, t.target} : t \in ts}

\* recoverTransition: the last match in a map, which any of them can be.
recoverTransition(transitions, name) == {t \in transitions : t.action.name = name}

-----------------------------------------------------------------------------
\* initialize: declarations, and the transitions that synchronization leaves
\* alone.  The clocks of the second model are not added.
InitializedInterruption(c1, c2, eSync) ==
    LET excluded == Ends(Synchronizing(c1, eSync) \cup Synchronizing(c2, eSync))
        declared ==
            [Declarations(c1) EXCEPT
                !.outputActions   = @ \cup c2.outputActions,
                !.inputActions    = (@ \cup c2.inputActions) \ eSync,
                !.variables       = @ \cup c2.variables,
                !.locations       = (@ \cup c2.locations) \ excluded,
                !.initialLocation = IF @ \in excluded THEN NoLabel ELSE @]
        kept(c) == Kept(InOrder(c), {t \in c.transitions : Ends({t}) \cap excluded = {}})
        same    == [t \in Transition |-> t]
    IN  CreatedAll(CreatedAll(declared, same, kept(c1)), same, kept(c2))

\* The transition that stands for p, the pair that synchronizes on an action.
\* The guard of the second model's initial transition is part of it when it
\* is the first one, entering, that the location lists.
Joint(p, entering) ==
    LET j == Conjoined(p[1], p[2])
    IN  [j EXCEPT !.action    = IF p[1].action.type = ACTION_OUTPUT THEN @ ELSE p[2].action,
                  !.dataGuard = @ \cup entering]

EnteringGuards(c2, p) ==
    {IF t.source = c2.initialLocation THEN t.dataGuard ELSE {} :
        t \in {u \in c2.transitions : u.target = p[2].source}}

\* A loop whose body, step, has several outcomes; an exception ends it.
LoopOutcomes(step, results, xs) ==
    Loop([rs \in SUBSET Outcome |-> [x \in Range(xs) |->
             UNION {IF r = Thrown THEN {r} ELSE step[r][x] : r \in rs}]],
         results, xs)

OrThrown(results) == IF results = {} THEN {Thrown} ELSE results

\* One iteration of the first loop of sync, on a result r.
Synchronized(r, c2, p) ==
    OrThrown({LET j == Joint(p, g)
              IN  IF Recoverable(r, j.action)
                  THEN CreateTransition(AddLocation(AddLocation(r, j.source), j.target), j)
                  ELSE Thrown : g \in EnteringGuards(c2, p)})

-----------------------------------------------------------------------------
(* The second loop: what enters or leaves the ends of a synchronizing pair.*)
(* tSync is looked up in the result, which has one transition on it.       *)

Source(p) == Join(p[1].source, p[2].source)
Target(p) == Join(p[1].target, p[2].target)

\* Mutant: what leaves the location after the synchronization is forgotten.
Redirected1_EnteringOnly(r, t, p) ==
    IF t.target = p[1].source THEN {Created(r, [t EXCEPT !.target = Source(p)])}
    ELSE IF t.target = p[1].target THEN {Created(r, [t EXCEPT !.target = Target(p)])}
    ELSE {r}

Redirected1(r, t, p) ==
    IF t.target = p[1].source THEN {Created(r, [t EXCEPT !.target = Source(p)])}
    ELSE IF t.target = p[1].target THEN {Created(r, [t EXCEPT !.target = Target(p)])}
    ELSE IF t.source = p[1].target THEN {Created(r, [t EXCEPT !.source = Target(p)])}
    ELSE IF t.source = p[1].source THEN {Created(r, [t EXCEPT !.source = Source(p)])}
    ELSE {r}

\* Between two locations that synchronize, the transition u that the result
\* has on the first action around the other location gives the other end.
\* Line 550 takes the joint source where its siblings lead to the target.
Redirected2(r, t, p, c2, excluded) ==
    LET leaving(l)  == IF c2.out[l] = <<>> THEN {} ELSE {c2.out[l][1].action.name}
        entering(l) == {u.action.name : u \in {w \in c2.transitions : w.target = l}}
        found(names) == UNION {recoverTransition(r.transitions, n) : n \in names}
        to(x, y) == Created(r, [t EXCEPT !.source = x, !.target = y])
    IN  IF t.source = p[2].target
        THEN IF t.target \notin excluded THEN {to(Target(p), t.target)}
             ELSE OrThrown({to(Target(p), u.source) : u \in found(leaving(t.target))})
        ELSE IF t.target = p[2].source
        THEN IF t.source \notin excluded THEN {to(t.source, Source(p))}
             ELSE OrThrown({to(u.target, Source(p)) : u \in found(entering(t.source))})
        ELSE IF t.target = p[2].target
        THEN IF t.source \notin excluded THEN {to(t.source, Target(p))}
             ELSE OrThrown({to(u.source, Source(p)) : u \in found(leaving(t.source))})
        ELSE {r}

\* One iteration of the second loop, for the pair p: first and second are the
\* transitions of the two models that do not synchronize.
Rejoined(r, p, c2, first, second, excluded) ==
    LoopOutcomes([s \in Model |-> [t \in Transition |-> Redirected2(s, t, p, c2, excluded)]],
                 LoopOutcomes([s \in Model |-> [t \in Transition |-> Redirected1(s, t, p)]],
                              {r}, first),
                 second)

-----------------------------------------------------------------------------
\* The pairs recoverTransition can find, one for each action.
Pairs(c1, c2, eSync) ==
    {f \in [eSync -> Synchronizing(c1, eSync) \X Synchronizing(c2, eSync)] :
        \A n \in eSync : /\ f[n][1] \in recoverTransition(c1.transitions, n)
                         /\ f[n][2] \in recoverTransition(c2.transitions, n)}

\* The orders of the map of a clone, for its elements in S: what is found in
\* the result depends on which transition was handled before, and the order
\* of transitions that leave one location is that of its list.
Orders(c, S) ==
    {s \in SetToSeqs(S) :
        \A j, k \in DOMAIN s :
            \A i, n \in DOMAIN c.out[s[j].source] :
                c.out[s[j].source][i] = s[j] /\ c.out[s[j].source][n] = s[k] /\ i < n => j < k}

\* sync: the names are taken in the order in which the first model lists them.
sync(c1, c2, eSync) ==
    LET alone(c) == {t \in c.transitions : t.action.name \notin eSync}
        first == Kept(InOrder(c1), alone(c1))
        joined(f, order) ==
            LoopOutcomes([r \in Model |-> [n \in eSync |-> Synchronized(r, c2, f[n])]],
                         {InitializedInterruption(c1, c2, eSync)}, order)
        excluded(f) == UNION {Ends({f[n][1], f[n][2]}) : n \in eSync}
    IN  OrThrown(UNION {
            LoopOutcomes([r \in Model |-> [n \in eSync |->
                             Rejoined(r, f[n], c2, first, second, excluded(f))]],
                         joined(f, order), order)
            : f \in Pairs(c1, c2, eSync), order \in SetToSeqs(eSync),
              second \in Orders(c2, {t \in alone(c2) : t.source # c2.initialLocation})})

\* The call of isCompatible is commented out.
interruptionComposition(model1, model2) ==
    IF Cloneable(model1) /\ Cloneable(model2)
    THEN UNION {sync(c1, c2, SynchronizedNames(c1, c2)) :
                   c1 \in Copies(model1), c2 \in Copies(model2)}
    ELSE {Thrown}
-----------------------------------------------------------------------------
(* isCompatible, which states what the composition is meant for: the first *)
(* model calls on one action and is answered on the next one.              *)

Into(m, l) == {t \in m.transitions : t.target = l}

\* The conditions are joined by && where each alone was meant to be refused.
SingleBetween(m, t) == Cardinality(Into(m, t.source)) = 1 \/ Len(m.out[t.target]) = 1

isCompatibleInterruption(m1, m2) ==
    LET first == m2.out[InitialOf(m2).target]
        call  == first[1].action.name
    IN  /\ Len(first) = 1 /\ first[1].action.type = ACTION_INPUT
        /\ recoverTransition(m2.transitions, call) = {first[1]}
        /\ Disjoint(m1, m2)
        /\ \E tc1 \in m1.transitions, tc2 \in m2.transitions :
              /\ recoverTransition(m1.transitions, call) = {tc1}
              /\ SingleBetween(m1, tc1)
              /\ m1.out[tc1.target] # <<>>
              /\ LET back == m1.out[tc1.target][1]
                 IN  /\ recoverTransition(m1.transitions, back.action.name) = {back}
                     /\ SingleBetween(m1, back)
                     /\ recoverTransition(m2.transitions, back.action.name) = {tc2}
                     /\ SingleBetween(m2, tc2)
                     /\ \A t \in {tc1, back, tc2, first[1]} : t.deadline = DEADLINE_LAZY
              /\ tc1.assignments = {} /\ tc2.assignments = {}
=============================================================================
