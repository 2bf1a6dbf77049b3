------------------------- MODULE ParallelComposition -------------------------
(***************************************************************************)
(* compositions/ParallelComposition.java: a singleton that composes pairs  *)
(* of TIOSTSs, one call after another, by a recursive depth-first walk of  *)
(* the pairs of locations.                                                 *)
(*                                                                         *)
(* The recursion is an explicit stack of frames, one per active call of    *)
(* parComposition; a frame remembers the transitions t1 and t2 of the two  *)
(* nested loops and which of the three cases of the loop body is next.     *)
(* The field visitedLocations belongs to the singleton: no call clears it. *)
(*                                                                         *)
(* Labels are lists of identifiers, so that "l1,l2" is a concatenation.    *)
(* Parameters of actions are left out.                                     *)
(***************************************************************************)
EXTENDS ParallelMoves

CONSTANTS Pairs,     \* the pairs of models callers compose
          MaxCalls,  \* bound on the calls of parallelComposition
          Glued      \* the text "c1ANDc2", the conjunction of nothing

ASSUME PairsAssumption ==
    \A p \in Pairs :
        /\ p = <<p[1], p[2]>>
        /\ WellFormed(p[1]) /\ WellFormed(p[2])
        /\ Disjoint(p[1], p[2]) =>
              /\ \A l1 \in p[1].locations, l2 \in p[2].locations : Join(l1, l2) \in Label
              /\ LET a1 == InitialOf(p[1]).action.name
                     a2 == InitialOf(p[2]).action.name
                 IN  Join(a1, a2) \in Name \ {a1, a2}

ASSUME BoundsAssumption == MaxCalls \in Nat /\ Glued \in Atom

VARIABLES model1, model2,    \* the arguments of the last call
          tiosts1, tiosts2,  \* their clones
          result,            \* the TIOSTS being built
          visitedLocations,  \* labels of the pairs, never cleared
          stack,             \* the active calls of parComposition
          status,            \* where the call stands
          calls              \* how many calls there were

vars == <<model1, model2, tiosts1, tiosts2, result, visitedLocations,
           stack, status, calls>>

Status == {"idle", "exploring", "returned", "incompatible", "crashed"}

\* An active parComposition(l1, l2): t1 is the i-th transition of l1, t2 the
\* j-th of l2, and case is the next one of the loop body.
Frame == [l1 : Label, l2 : Label, i : Nat \ {0}, j : Nat \ {0}, case : 1..3]

Init ==
    /\ model1 = EmptyTIOSTS /\ model2 = EmptyTIOSTS
    /\ tiosts1 = EmptyTIOSTS /\ tiosts2 = EmptyTIOSTS
    /\ result = EmptyTIOSTS
    /\ visitedLocations = {}
    /\ stack = <<>>
    /\ status = "idle"
    /\ calls = 0

-----------------------------------------------------------------------------
(* initialize(): the declarations and the initial transition.              *)

isCompatible(m1, m2) ==
    /\ m1.locations \cap m2.locations = {}
    /\ m1.variables \cap m2.variables = {}

\* The assignments of the first model are passed twice, those of the second
\* are lost.
InitialTransition(m1, m2) ==
    LET t == InitialOf(m1)
        u == InitialOf(m2)
    IN  [source      |-> Join(t.source, u.source),
         dataGuard   |-> t.dataGuard \cup u.dataGuard,
         clockGuard  |-> t.clockGuard \cup u.clockGuard,
         action      |-> [name |-> Join(t.action.name, u.action.name),
                          type |-> ACTION_INTERNAL],
         assignments |-> t.assignments \cup t.assignments,
         deadline    |-> DEADLINE_LAZY,
         target      |-> Join(t.target, u.target)]

\* Mutant: the new initial action is not declared.
InternalActions_NoInitial(m1, m2) ==
    (m1.internalActions \ {InitialOf(m1).action.name})
        \cup (m2.internalActions \ {InitialOf(m2).action.name})

\* An internal action with the name of its model's initial action is left out.
InternalActions(m1, m2) ==
    (m1.internalActions \ {InitialOf(m1).action.name})
        \cup (m2.internalActions \ {InitialOf(m2).action.name})
        \cup {InitialTransition(m1, m2).action.name}

\* Mutant: no union is made.
OutputActions_First(m1, m2) == m1.outputActions

\* The union is made in the list of the first model, which is read again
\* when the inputs of the second are filtered.
OutputActions(m1, m2) == m1.outputActions \cup m2.outputActions

Declarations(m1, m2) ==
    [EmptyTIOSTS EXCEPT
        !.variables       = m1.variables \cup m2.variables,
        !.clocks          = m1.clocks,
        !.inputActions    = (m1.inputActions \ m2.outputActions)
                               \cup (m2.inputActions \ OutputActions(m1, m2)),
        !.outputActions   = OutputActions(m1, m2),
        !.internalActions = InternalActions(m1, m2)]

WithMove(m, t) ==
    CreateTransition(AddLocation(AddLocation(m, t.source), t.target), t)

\* The initial location is marked after its transition was created, and the
\* two initial conditions are glued together without spaces.
initialize(m1, m2) ==
    LET t == InitialTransition(m1, m2)
        m == WithMove(Declarations(m1, m2), t)
    IN  [SetInitialLocation(m, t.source) EXCEPT !.initialCondition = {Glued}]

-----------------------------------------------------------------------------
(* The recursion.                                                          *)

\* Mutant: the pair is not recorded.
Invoke_Unrecorded(l1, l2, rest) ==
    /\ stack' = IF Join(l1, l2) \in visitedLocations THEN rest
                ELSE <<[l1 |-> l1, l2 |-> l2, i |-> 1, j |-> 1, case |-> 1]>> \o rest
    /\ UNCHANGED visitedLocations

\* parComposition(l1, l2, ...) called on top of rest: nothing happens when
\* the pair was visited, in this call or in an earlier one.
Invoke(l1, l2, rest) ==
    IF Join(l1, l2) \in visitedLocations
    THEN stack' = rest /\ UNCHANGED visitedLocations
    ELSE /\ stack' = <<[l1 |-> l1, l2 |-> l2, i |-> 1, j |-> 1, case |-> 1]>> \o rest
         /\ visitedLocations' = visitedLocations \cup {Join(l1, l2)}

\* parallelComposition(m1, m2) up to the first call of parComposition.
Call(m1, m2) ==
    /\ status \notin {"exploring", "crashed"}
    /\ calls < MaxCalls
    /\ calls' = calls + 1
    /\ model1' = m1 /\ model2' = m2
    /\ tiosts1' \in Clones(m1) /\ tiosts2' \in Clones(m2)
    /\ IF isCompatible(tiosts1', tiosts2')
       THEN /\ status' = "exploring"
            /\ result' = initialize(tiosts1', tiosts2')
            /\ Invoke(InitialOf(tiosts1').target, InitialOf(tiosts2').target, <<>>)
       ELSE /\ status' = "incompatible"
            /\ result' = EmptyTIOSTS
            /\ UNCHANGED <<visitedLocations, stack>>

Top == Head(stack)
T1  == tiosts1.out[Top.l1][Top.i]
T2  == tiosts2.out[Top.l2][Top.j]

\* Both loops still have a transition: the body is not reached at all when
\* one of the two locations has no outgoing transition.
InBody ==
    /\ status = "exploring"
    /\ stack # <<>>
    /\ Top.i <= Len(tiosts1.out[Top.l1])
    /\ Top.j <= Len(tiosts2.out[Top.l2])

\* Mutants: the case is not reset; the last t2 is left out.
Advance_NoReset(f) ==
    IF f.case < 3 \/ f.j < Len(tiosts2.out[f.l2]) THEN [f EXCEPT !.case = @ + 1]
    ELSE [f EXCEPT !.case = 1, !.j = 1, !.i = @ + 1]

Advance_ShortLoop(f) ==
    IF f.case < 3 THEN [f EXCEPT !.case = @ + 1]
    ELSE IF f.j < Len(tiosts2.out[f.l2]) - 1 THEN [f EXCEPT !.case = 1, !.j = @ + 1]
    ELSE [f EXCEPT !.case = 1, !.j = 1, !.i = @ + 1]

\* The frame after the current case: next case, next t2 or next t1.
Advance(f) ==
    IF f.case < 3 THEN [f EXCEPT !.case = @ + 1]
    ELSE IF f.j < Len(tiosts2.out[f.l2]) THEN [f EXCEPT !.case = 1, !.j = @ + 1]
    ELSE [f EXCEPT !.case = 1, !.j = 1, !.i = @ + 1]

\* Mutant: the loop body starts over.
Rest_NoAdvance == stack

Rest == <<Advance(Top)>> \o Tail(stack)

\* minusSet on the names of the caller's models.
actionsT1 == ActionNames(model1) \ ActionNames(model2)
actionsT2 == ActionNames(model2) \ ActionNames(model1)

\* Mutant: the types are not compared.
canSynchronize_NameOnly(a, b) == a.name = b.name

canSynchronize(a, b) ==
    /\ a.name = b.name
    /\ \/ a.type = ACTION_INPUT /\ b.type = ACTION_OUTPUT
       \/ b.type = ACTION_INPUT /\ a.type = ACTION_OUTPUT

\* Mutant: the least urgent deadline wins.
deadlineOperator_Lazy(d, e) ==
    IF DEADLINE_LAZY \in {d, e} THEN DEADLINE_LAZY
    ELSE IF DEADLINE_DELAYABLE \in {d, e} THEN DEADLINE_DELAYABLE
    ELSE DEADLINE_EAGER

deadlineOperator(d, e) ==
    IF DEADLINE_EAGER \in {d, e} THEN DEADLINE_EAGER
    ELSE IF DEADLINE_DELAYABLE \in {d, e} THEN DEADLINE_DELAYABLE
    ELSE DEADLINE_LAZY

FirstAlone ==
    [T1 EXCEPT !.source = Join(Top.l1, Top.l2), !.target = Join(@, Top.l2)]

SecondAlone ==
    [T2 EXCEPT !.source = Join(Top.l1, Top.l2), !.target = Join(Top.l1, @)]

Synchronized ==
    [source      |-> Join(Top.l1, Top.l2),
     dataGuard   |-> T1.dataGuard \cup T2.dataGuard,
     clockGuard  |-> T1.clockGuard \cup T2.clockGuard,
     action      |-> IF T2.action.type = ACTION_OUTPUT THEN T2.action ELSE T1.action,
     assignments |-> T1.assignments \cup T2.assignments,
     deadline    |-> deadlineOperator(T1.deadline, T2.deadline),
     target      |-> Join(T1.target, T2.target)]

\* Adds t and the walk goes on at <<l1, l2>>; recoverAction throws when the
\* result does not declare the action.
Create(t, l1, l2) ==
    /\ Recoverable(result, t.action)
    /\ result' = WithMove(result, t)
    /\ Invoke(l1, l2, Rest)
    /\ UNCHANGED <<model1, model2, tiosts1, tiosts2, status, calls>>

Case1 ==
    /\ InBody /\ Top.case = 1
    /\ T1.action.name \in actionsT1
    /\ Create(FirstAlone, T1.target, Top.l2)

Case2 ==
    /\ InBody /\ Top.case = 2
    /\ T2.action.name \in actionsT2
    /\ Create(SecondAlone, Top.l1, T2.target)

Case3 ==
    /\ InBody /\ Top.case = 3
    /\ canSynchronize(T1.action, T2.action)
    /\ Create(Synchronized, T1.target, T2.target)

\* The condition of the case that is next in the loop body.
CaseHolds ==
    \/ Top.case = 1 /\ T1.action.name \in actionsT1
    \/ Top.case = 2 /\ T2.action.name \in actionsT2
    \/ Top.case = 3 /\ canSynchronize(T1.action, T2.action)

CaseMove ==
    CASE Top.case = 1 -> FirstAlone
      [] Top.case = 2 -> SecondAlone
      [] OTHER        -> Synchronized

Skip ==
    /\ InBody
    /\ ~CaseHolds
    /\ stack' = Rest
    /\ UNCHANGED <<model1, model2, tiosts1, tiosts2, result, visitedLocations,
                   status, calls>>

\* indexOf returned -1: the exception ends the call.
Crash ==
    /\ InBody
    /\ CaseHolds
    /\ ~Recoverable(result, CaseMove.action)
    /\ status' = "crashed"
    /\ stack' = <<>>
    /\ UNCHANGED <<model1, model2, tiosts1, tiosts2, result, visitedLocations, calls>>

\* parComposition returns to its caller.
Leave ==
    /\ status = "exploring"
    /\ stack # <<>>
    /\ ~InBody
    /\ stack' = Tail(stack)
    /\ UNCHANGED <<model1, model2, tiosts1, tiosts2, result, visitedLocations,
                   status, calls>>

Return ==
    /\ status = "exploring"
    /\ stack = <<>>
    /\ status' = "returned"
    /\ UNCHANGED <<model1, model2, tiosts1, tiosts2, result, visitedLocations,
                   stack, calls>>

Walk == Case1 \/ Case2 \/ Case3 \/ Skip \/ Crash \/ Leave \/ Return

Next == (\E p \in Pairs : Call(p[1], p[2])) \/ Walk

\* A call that was started runs to its end: the program is sequential.
Spec == Init /\ [][Next]_vars /\ WF_vars(Walk)

-----------------------------------------------------------------------------
(* Type invariant: what the fields of the singleton and the locals of the  *)
(* calls in progress can hold.                                             *)
TypeOK ==
    /\ model1 \in Model /\ model2 \in Model
    /\ tiosts1 \in Model /\ tiosts2 \in Model
    /\ result \in Model
    /\ visitedLocations \subseteq Label
    /\ stack \in Seq(Frame)
    /\ status \in Status
    /\ calls \in 0..MaxCalls

\* The result holds a composition, finished or not.
Composing == status \in {"exploring", "returned"}

(* Every transition parComposition creates is a move of the composition:   *)
(* no case of the loop body joins what should not be joined, whatever the  *)
(* order of the lists and whichever pairs earlier calls visited.           *)
Sound ==
    Composing =>
        \A t \in OutTransitions(result) :
            \/ t = InitialTransition(tiosts1, tiosts2)
            \/ \E l1 \in tiosts1.locations, l2 \in tiosts2.locations :
                  t \in Moves(tiosts1, tiosts2, l1, l2)

\* The labels tell the pairs of locations apart, as they do without "," in
\* them.
Apart(m1, m2) ==
    \A p, q \in m1.locations \X m2.locations :
        Join(p[1], p[2]) = Join(q[1], q[2]) => p = q

PairsDistinct == Apart(tiosts1, tiosts2)

(* The loop body creates the same move once per partner transition, and    *)
(* the map of the result replaces by key; it must never replace a move by  *)
(* a different one, or clone() of the result would lose it.                *)
NothingOverwritten ==
    (Composing /\ PairsDistinct) => OutTransitions(result) = result.transitions

(* A returned composition can be given to the next operation, whose first  *)
(* step clones it: every action its transitions carry is declared.         *)
ResultCloneable == Composing => Cloneable(result)

(* The recursion is as deep as there are pairs of locations at most: no    *)
(* pair is active twice, and every active pair was recorded as visited.    *)
RecursionBounded ==
    /\ \A i, j \in DOMAIN stack :
          (stack[i].l1 = stack[j].l1 /\ stack[i].l2 = stack[j].l2) => i = j
    /\ \A i \in DOMAIN stack : Join(stack[i].l1, stack[i].l2) \in visitedLocations

\* A model in which the action of its initial transition can come again.
RepeatsInitialAction(m) ==
    \E t \in m.transitions :
        \/ t.action.name = InitialOf(m).action.name /\ t.source # m.initialLocation
        \/ t.target = m.initialLocation

(* recoverAction throws only for models in which the initial action, which *)
(* the result does not declare, can come again (a second "tau", a way back *)
(* to the initial location), or if the second one receives what it sends:  *)
(* the result then has no such input, since the outputs of the second were *)
(* added to the list its inputs are compared with.                         *)
CrashOnlyOnUndeclared ==
    status = "crashed" =>
        \/ RepeatsInitialAction(tiosts1) \/ RepeatsInitialAction(tiosts2)
        \/ tiosts2.inputActions \cap tiosts2.outputActions # {}

(* parallelComposition returns "the [...] composition between t1 and t2":  *)
(* with every move of every pair of locations it reaches.                  *)
ReturnedClosed ==
    status = "returned" => Closed(tiosts1, tiosts2, OutTransitions(result))

(* The first call returns every move of the pairs it reaches, except of    *)
(* those of which one location has no outgoing transition: there the body  *)
(* of the two loops is not reached.  The walk may not lose a pair because  *)
(* it is active, or was left, when it comes up again.                      *)
FirstCallClosed ==
    (status = "returned" /\ calls = 1 /\ PairsDistinct) =>
        \A p \in ReachedPairs(tiosts1, tiosts2, OutTransitions(result)) :
            (tiosts1.out[p[1]] # <<>> /\ tiosts2.out[p[2]] # <<>>)
                => Moves(tiosts1, tiosts2, p[1], p[2]) \subseteq OutTransitions(result)

(* Every call of parallelComposition ends: the walk cannot go on forever   *)
(* around the cycles of the two models.                                    *)
CallEnds == status = "exploring" ~> status # "exploring"

(* The walk as a composition built move by move.                           *)
Promise == INSTANCE ParallelProduct WITH
    request  <- <<model1, model2>>,
    composed <- OutTransitions(result),
    phase    <- CASE status = "exploring"    -> "composing"
                  [] status = "returned"     -> "done"
                  [] status = "incompatible" -> "refused"
                  [] OTHER                   -> status

\* A model that clone() copies as it is, that has an outgoing transition
\* everywhere, and whose initial action does not come again.
Benign(m) ==
    /\ OutTransitions(m) = m.transitions
    /\ \A t \in m.transitions : Reparsed(m, t) = t
    /\ \A l \in m.locations : m.out[l] # <<>>
    /\ ~RepeatsInitialAction(m)

\* A pair that meets none of the hazards of the other runs: the initial
\* assignments of the second model are the ones initialize() loses.
Faithful(p) ==
    /\ Benign(p[1]) /\ Benign(p[2])
    /\ Apart(p[1], p[2])
    /\ p[2].inputActions \cap p[2].outputActions = {}
    /\ InitialOf(p[2]).assignments \subseteq InitialOf(p[1]).assignments

\* What the promise is kept for: a first call, on a pair that is Faithful.
Promised == calls = 1 /\ Faithful(<<model1, model2>>)

(* parallelComposition implements the promise of ParallelProduct, step by  *)
(* step, in a first call on models in which the hazards the other runs     *)
(* show do not occur: the composition grows by one move of a reached pair  *)
(* at a time, and is returned only when none is missing.                   *)
RefinesProduct ==
    Promise!Init /\ [][Promised' => Promise!Next]_(Promise!vars)
=============================================================================
