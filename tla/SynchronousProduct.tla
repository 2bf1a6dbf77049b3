-------------------------- MODULE SynchronousProduct --------------------------
(***************************************************************************)
(* algorithms/SynchronousProduct.java: the product of a specification and  *)
(* a (complete) test purpose, computed by a recursive walk of the pairs of *)
(* locations from the initial one.                                         *)
(*                                                                         *)
(* Nothing records which pairs were visited.  The walk goes on after every *)
(* transition it creates, and creates a transition unless getTransition    *)
(* finds an equal one in the map of the product, where a transition with   *)
(* the same key replaces an older one.  The recursion is an explicit       *)
(* stack; MaxDepth stands for the size of the thread's stack, beyond which *)
(* a call throws StackOverflowError.                                       *)
(*                                                                         *)
(* A test purpose that starts with its verdict gives a product without     *)
(* locations, and the call ends with a NullPointerException.               *)
(*                                                                         *)
(* Parameters of actions, and the check that those of the test purpose are *)
(* parameters or variables of the specification, are left out.             *)
(***************************************************************************)
EXTENDS TIOSTS

CONSTANTS Instances,  \* the pairs <<spec, tp>> a caller multiplies
          MaxDepth    \* how many calls of syncProduct fit on the stack

\* "l1_l2", on labels that are lists of identifiers.
Join(x, y) == x \o y

ASSUME InstancesAssumption ==
    \A p \in Instances :
        /\ WellFormed(p[1]) /\ WellFormed(p[2])
        /\ \A s \in p[1].locations, l \in p[2].locations : Join(s, l) \in Label

ASSUME DepthAssumption == MaxDepth \in Nat \ {0}

VARIABLES spec, tp,  \* the arguments
          sp,        \* the product being built
          stack,     \* the active calls of syncProduct
          status

vars == <<spec, tp, sp, stack, status>>

Status == {"called", "exploring", "returned", "incompatible", "overflow", "crashed"}

\* An active syncProduct(specLoc, tpLoc) is at the i-th transition of specLoc
\* and has tried those of tpLoc with its action up to position j.
Frame == [specLoc : Label, tpLoc : Label, i : Nat \ {0}, j : Nat]

Init ==
    /\ \E p \in Instances : spec = p[1] /\ tp = p[2]
    /\ sp = EmptyTIOSTS
    /\ stack = <<>>
    /\ status = "called"

-----------------------------------------------------------------------------
Accept == <<"Accept">>
Reject == <<"Reject">>
\* Mutant: the verdict Reject does not end the walk.
isSpecialLocation_Accept(l) == l = Accept

isSpecialLocation(l) == l \in {Accept, Reject}

\* The clocks of the test purpose come after those of the specification.
initializeSyncProduct(s, t) ==
    [EmptyTIOSTS EXCEPT
        !.variables       = s.variables \cup t.variables,
        !.clocks          = s.clocks \o t.clocks,
        !.inputActions    = s.inputActions,
        !.outputActions   = s.outputActions,
        !.internalActions = s.internalActions]

Compatible(s, t) ==
    /\ s.variables \cap t.variables = {}
    /\ Range(s.clocks) \cap Range(t.clocks) = {}

\* Mutant: one call too many fits on the stack.
Invoke_OneMore(s, l, rest) ==
    IF isSpecialLocation(l)
    THEN stack' = rest /\ status' = "exploring"
    ELSE IF Len(rest) > MaxDepth
    THEN stack' = <<>> /\ status' = "overflow"
    ELSE /\ stack' = <<[specLoc |-> s, tpLoc |-> l, i |-> 1, j |-> 0]>> \o rest
         /\ status' = "exploring"

\* syncProduct(s, l) called on top of rest.
Invoke(s, l, rest) ==
    IF isSpecialLocation(l)
    THEN stack' = rest /\ status' = "exploring"
    ELSE IF Len(rest) >= MaxDepth
    THEN stack' = <<>> /\ status' = "overflow"
    ELSE /\ stack' = <<[specLoc |-> s, tpLoc |-> l, i |-> 1, j |-> 0]>> \o rest
         /\ status' = "exploring"

Start ==
    /\ status = "called"
    /\ IF Compatible(spec, tp)
       THEN /\ sp' = initializeSyncProduct(spec, tp)
            /\ Invoke(spec.initialLocation, tp.initialLocation, <<>>)
       ELSE /\ status' = "incompatible"
            /\ UNCHANGED <<sp, stack>>
    /\ UNCHANGED <<spec, tp>>

-----------------------------------------------------------------------------
(* One iteration of the loops of syncProduct.                              *)

Top == Head(stack)
SpecTransition == spec.out[Top.specLoc][Top.i]

\* The positions in the list of l of the transitions with action a, which
\* are collected in the order of the list.
getTransitionsByAction(l, a) ==
    {k \in DOMAIN tp.out[l] : tp.out[l][k].action.name = a.name}

TpTransitions == getTransitionsByAction(Top.tpLoc, SpecTransition.action)

InLoop ==
    /\ status = "exploring"
    /\ stack # <<>>
    /\ Top.i <= Len(spec.out[Top.specLoc])

\* After position k of the test purpose the frame is at its next transition
\* with the action, or at the next one of the specification.
Rest(k) ==
    <<IF \E later \in TpTransitions : later > k
      THEN [Top EXCEPT !.j = k]
      ELSE [Top EXCEPT !.i = @ + 1, !.j = 0]>> \o Tail(stack)

\* The test purpose does not know the action: it stays where it is.  The
\* guard is compared as the specification holds it, and stored re-parsed.
Unmatched ==
    [SpecTransition EXCEPT !.source = Join(Top.specLoc, Top.tpLoc),
                           !.target = Join(@, Top.tpLoc)]

\* Both move; the clock guards are cloned with the ids they have.
Matched(u) ==
    [SpecTransition EXCEPT
        !.source      = Join(Top.specLoc, Top.tpLoc),
        !.dataGuard   = @ \cup u.dataGuard,
        !.clockGuard  = @ \cup u.clockGuard,
        !.assignments = @ \cup u.assignments,
        !.target      = Join(@, u.target)]

\* Mutants: the guards are not compared; every transition is created again.
Absent_IgnoringGuards(t) == ~ \E u \in sp.transitions : Key(u) = Key(t)

Absent_Always(t) == TRUE

\* TIOSTS.getTransition(...) == null: only the map is searched.
Absent(t) ==
    ~ \E u \in sp.transitions :
        /\ Key(u) = Key(t)
        /\ u.dataGuard = t.dataGuard
        /\ u.clockGuard = t.clockGuard

WithLocations(m, t) == AddLocation(AddLocation(m, t.source), t.target)

\* sought is looked for, stored is what is created when it is absent; the
\* walk goes on with l and then with rest.
Visit(sought, stored, l, rest) ==
    /\ IF Absent(sought)
       THEN /\ sp' = CreateTransition(WithLocations(sp, stored), stored)
            /\ Invoke(SpecTransition.target, l, rest)
       ELSE /\ sp' = WithLocations(sp, stored)
            /\ stack' = rest
            /\ UNCHANGED status
    /\ UNCHANGED <<spec, tp>>

VisitUnmatched ==
    /\ InLoop
    /\ TpTransitions = {}
    /\ Visit(Unmatched, Reparsed(sp, Unmatched), Top.tpLoc, Rest(0))

VisitMatched ==
    /\ InLoop
    /\ \E k \in TpTransitions :
          /\ k > Top.j
          /\ \A later \in TpTransitions : later > Top.j => k <= later
          /\ LET u == tp.out[Top.tpLoc][k]
             IN  Visit(Matched(u), Matched(u), u.target, Rest(k))

Leave ==
    /\ status = "exploring"
    /\ stack # <<>>
    /\ ~InLoop
    /\ stack' = Tail(stack)
    /\ UNCHANGED <<spec, tp, sp, status>>

-----------------------------------------------------------------------------
(* mirror(): the Action objects the transitions share change their type.   *)

Flipped(a) ==
    [a EXCEPT !.type = IF @ = ACTION_INPUT THEN ACTION_OUTPUT
                       ELSE IF @ = ACTION_OUTPUT THEN ACTION_INPUT ELSE @]

FlippedTransition(t) == [t EXCEPT !.action = Flipped(@)]

\* Mutant: the lists are swapped and the actions keep their types.
mirror_ListsOnly(m) ==
    [m EXCEPT !.inputActions = m.outputActions, !.outputActions = m.inputActions]

mirror(m) ==
    [m EXCEPT
        !.inputActions  = m.outputActions,
        !.outputActions = m.inputActions,
        !.out           = [l \in Label |->
                              [i \in DOMAIN m.out[l] |-> FlippedTransition(m.out[l][i])]],
        !.transitions   = {FlippedTransition(t) : t \in @}]

\* The initial location is looked up by its label once the walk is over.
WithInitial(m) ==
    LET l == Join(spec.initialLocation, tp.initialLocation)
    IN  [SetInitialLocation(m, l) EXCEPT !.initialCondition = m.out[l][1].dataGuard]

Done == status = "exploring" /\ stack = <<>>

Begun == sp.out[Join(spec.initialLocation, tp.initialLocation)] # <<>>

Return ==
    /\ Done /\ Begun
    /\ sp' = mirror(WithInitial(sp))
    /\ status' = "returned"
    /\ UNCHANGED <<spec, tp, stack>>

\* Nothing was created: the initial location that is looked up is null.
Crash ==
    /\ Done /\ ~Begun
    /\ status' = "crashed"
    /\ UNCHANGED <<spec, tp, sp, stack>>

Next == Start \/ VisitUnmatched \/ VisitMatched \/ Leave \/ Return \/ Crash

\* One thread runs the call: it does not stop by itself.
Spec == Init /\ [][Next]_vars /\ WF_vars(Next)

-----------------------------------------------------------------------------
(* Type invariant: what the arguments, the product and the calls of the    *)
(* recursion can hold.                                                     *)
TypeOK ==
    /\ \E p \in Instances : spec = p[1] /\ tp = p[2]
    /\ sp \in Model
    /\ stack \in Seq(Frame)
    /\ Len(stack) <= MaxDepth
    /\ status \in Status

\* What the product owes to the pair <<s, l>>: an accepting or rejecting
\* location of the test purpose ends the product, an action it ignores
\* leaves it in place, and every transition it has on the action is tried.
JointMoves(s, l) ==
    UNION {LET us == {u \in Range(tp.out[l]) : u.action.name = t.action.name}
           IN  IF l \in {Accept, Reject} THEN {}
               ELSE IF us = {}
               THEN {[t EXCEPT !.source = Join(s, l), !.target = Join(t.target, l)]}
               ELSE {[t EXCEPT !.source = Join(s, l),
                               !.dataGuard = t.dataGuard \cup u.dataGuard,
                               !.clockGuard = t.clockGuard \cup u.clockGuard,
                               !.assignments = t.assignments \cup u.assignments,
                               !.target = Join(t.target, u.target)] : u \in us}
           : t \in Range(spec.out[s])}

Pairs == spec.locations \X tp.locations

\* The transitions of the product before mirror(), clock ids aside.
WithoutIds(ts) == {[t EXCEPT !.clockGuard = {[g EXCEPT !.id = 0] : g \in @}] : t \in ts}

Unmirrored(ts) == IF status = "returned" THEN {FlippedTransition(t) : t \in ts} ELSE ts

Product == WithoutIds(Unmirrored(OutTransitions(sp)))

(* syncProduct creates joint moves of the specification and the test       *)
(* purpose only, and none from a pair whose test purpose already gave its  *)
(* verdict (Accept or Reject).                                             *)
Sound ==
    Product \subseteq UNION {WithoutIds(JointMoves(p[1], p[2])) : p \in Pairs}

\* The labels tell the pairs apart, as they do without "_" in them.
PairsDistinct ==
    \A p, q \in Pairs : Join(p[1], p[2]) = Join(q[1], q[2]) => p = q

\* Neither argument has two transitions with the same key.
KeysDistinct == DistinctKeys(spec) /\ DistinctKeys(tp)

\* getTransition takes u for t.
Alike(t, u) ==
    Key(t) = Key(u) /\ t.dataGuard = u.dataGuard /\ t.clockGuard = u.clockGuard

(* The product that is returned has every joint move of every pair it      *)
(* reaches, although pairs are not recorded and the walk stops at every    *)
(* transition it finds.  Of joint moves that differ in their assignments   *)
(* or deadlines only, which getTransition does not compare, it has one.    *)
ReturnedComplete ==
    (status = "returned" /\ PairsDistinct) =>
        \A p \in Pairs :
            Join(p[1], p[2]) \in sp.locations
                => LET owed == WithoutIds(JointMoves(p[1], p[2]))
                   IN  /\ \A t \in owed : \E u \in Product : Alike(t, u)
                       /\ KeysDistinct => owed \subseteq Product

(* After mirror() the type of every action agrees with the list it is in,  *)
(* so that the next step can clone the product and look its actions up;    *)
(* and when neither argument has two transitions with one key, the clone   *)
(* has lost none: no joint move replaced another one in the map.           *)
ReturnedCloneable ==
    status = "returned" =>
        /\ Cloneable(sp)
        /\ (PairsDistinct /\ KeysDistinct) => OutTransitions(sp) = sp.transitions

(* synchronousProduct "Returns the synchronous product": every call ends   *)
(* with a product or with the exception it declares.                       *)
Ends == <>(status \in {"returned", "incompatible"})

\* Parsing a guard of the specification with the clocks of the product, as is
\* done when the transition is stored but not when it is looked for, gives
\* the ids the guard has: no earlier operator passed it on to a model with
\* another list of clocks.
IdsResolved ==
    \A t \in OutTransitions(spec) : Reparsed(initializeSyncProduct(spec, tp), t) = t

\* There are fewer joint moves than calls fit on the stack.
Room == Cardinality(UNION {JointMoves(p[1], p[2]) : p \in Pairs}) < MaxDepth

(* It does when no two transitions of an argument share a key, the labels  *)
(* tell the pairs apart, the clock ids of the specification are resolved   *)
(* and the test purpose does not start with its verdict: getTransition     *)
(* then finds every joint move that was created, so that each is created   *)
(* once and the recursion is as deep as there are joint moves at most.     *)
EndsOnDistinctKeys ==
    (/\ KeysDistinct /\ PairsDistinct /\ IdsResolved /\ Room
     /\ ~isSpecialLocation(tp.initialLocation)) => Ends
=============================================================================
