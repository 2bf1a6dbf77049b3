--------------------------- MODULE SymbolicExecution ---------------------------
(***************************************************************************)
(* symbolicexecution/algorithms/SymbolicExecution.java: execute(), which   *)
(* unfolds a synchronous product breadth first into a tree of symbolic     *)
(* states (ZSES).                                                          *)
(*                                                                         *)
(* A ZSES is an element of the sequence zset.  Its chain of parent         *)
(* transitions is kept as ancestry, the indices from the root to itself;   *)
(* the list of children is the elements that name it as their parent, in   *)
(* the order of zset.  The two solvers are other processes.  A run of one  *)
(* of them ends with its answer, with no output, or cannot be started.     *)
(***************************************************************************)
EXTENDS SymbolicValues

CONSTANTS Products,          \* the synchronous products execute() is called with
          Label,             \* the labels of their locations
          Zone,              \* the zones of the DBM program
          InitialZone,       \* what it prints for the initial zone
          NoZone,            \* what executeUPPAALDBM returns without output
          NextZone(_, _, _), \* the zone after a guard and some resets
          IsEmpty(_),        \* is a zone empty?
          MaxSilent          \* bound: how many runs of a solver print nothing

ASSUME ZoneAssumption ==
    /\ InitialZone \in Zone /\ NoZone \in Zone /\ IsEmpty(NoZone)
    /\ \A z \in Zone : \A p \in Products : \A l \in Label : \A i \in DOMAIN p.out[l] :
           NextZone(z, p.out[l][i].clockGuard, p.out[l][i].resets) \in Zone
ASSUME ProductsAssumption ==
    \A p \in Products :
        /\ p.initialLocation \in Label
        /\ p.out \in [Label -> Seq(UNION {Range(p.out[l]) : l \in Label})]
        /\ \A l \in Label : \A i \in DOMAIN p.out[l] : p.out[l][i].target \in Label
\* The texts are those the parser accepts that have no parentheses, products
\* and NOT.  The compiler declares the parameters of a gate with the gate; it
\* does not look whether other names are declared.
ASSUME TextsAssumption ==
    \A p \in Products :
        /\ p.names \subseteq Identifier
        /\ \A l \in Label : \A i \in DOMAIN p.out[l] :
              /\ p.out[l][i].params \in Seq(p.names)
              /\ p.out[l][i].dataGuard \in ParsedGuard
              /\ p.out[l][i].assignments \in Seq(ParsedAssignment)
ASSUME SilentAssumption == MaxSilent \in Nat

VARIABLES product,    \* the argument
          zset,       \* the states of the tree, in the order of symbolicStates
          unvisited,  \* the queue
          current,    \* currentZSES, 0 between two rounds of the outer loop
          i,          \* the next of its location's outgoing transitions
          silent,     \* how many runs of a solver printed nothing
          status

vars == <<product, zset, unvisited, current, i, silent, status>>

Status == {"called", "executing", "returned",
           "SymbolicValueNameException", "NumberFormatException", "NullPointerException"}

NoTransition == [action |-> "none"]

Init ==
    /\ product \in Products
    /\ zset = <<>> /\ unvisited = <<>> /\ current = 0 /\ i = 1
    /\ silent = 0
    /\ status = "called"

-----------------------------------------------------------------------------
\* A failed exec leaves process null, which is dereferenced.  Every exception
\* leaves the method with its locals.
Raise(exception) ==
    /\ status' = exception
    /\ zset' = <<>> /\ unvisited' = <<>> /\ current' = 0 /\ i' = 1
    /\ UNCHANGED <<product, silent>>

InitialState(zone) ==
    [location |-> product.initialLocation, pathCondition |-> GUARD_TRUE,
     mapping |-> [x \in product.names |-> <<Symbol(x, 0)>>], zone |-> zone,
     ancestry |-> <<1>>, transition |-> NoTransition, paramIds |-> <<>>]

\* The first statements; the first run of the DBM program.
Start ==
    /\ status = "called"
    /\ \E zone \in {InitialZone, NoZone} :
          /\ zone = NoZone => silent < MaxSilent
          /\ silent' = IF zone = NoZone THEN silent + 1 ELSE silent
          /\ zset' = <<InitialState(zone)>>
    /\ unvisited' = <<1>>
    /\ status' = "executing"
    /\ UNCHANGED <<product, current, i>>

NoSolver == status \in {"called", "executing"} /\ Raise("NullPointerException")

\* unvisited.remove(0)
Pick ==
    /\ status = "executing" /\ current = 0 /\ unvisited # <<>>
    /\ current' = Head(unvisited)
    /\ unvisited' = Tail(unvisited)
    /\ i' = 1
    /\ UNCHANGED <<product, zset, silent, status>>

CurrentZSES == zset[current]
OutTransitions == product.out[CurrentZSES.location]
InLoop == status = "executing" /\ current # 0 /\ i <= Len(OutTransitions)

Read == ReadParameters(OutTransitions[i].params, CurrentZSES.mapping)

\* Mutant: a state gets the chain of its parent.
Ancestry_Parent(n) == n.ancestry

Ancestry(n) == Append(n.ancestry, Len(zset) + 1)

\* Mutant: the assignments are executed before the guard is looked up.
GuardValues_Assigned(t) == updateSymbolicValueWithAssignments(t.assignments, Read.values)

\* What the guard sees: the parameters that are read, and the variables
\* before the assignments.
GuardValues(t) == Read.values

\* The state the next transition leads to.
nextZSES ==
    LET t == OutTransitions[i]
    IN  [location |-> t.target,
         pathCondition |->
             createNextPathCondition(CurrentZSES.pathCondition,
                                     UpdatedGuard(t.dataGuard, GuardValues(t))),
         mapping |-> updateSymbolicValueWithAssignments(t.assignments, Read.values),
         zone |-> NextZone(CurrentZSES.zone, t.clockGuard, t.resets),
         ancestry |-> Ancestry(CurrentZSES),
         transition |-> t, paramIds |-> Read.ids]

\* The positions of a location on the path to a state, the state included.
Visits(n, l) == {k \in DOMAIN n.ancestry : zset[n.ancestry[k]].location = l}

\* Mutant: the current state is not counted.
upperBoundReached_Parents(l, n) ==
    Cardinality(Visits(n, l) \ {Len(n.ancestry)}) >= 2

upperBoundReached(l, n) == Cardinality(Visits(n, l)) >= 2

\* The declarations for the solver look the first part of a symbol's name up.
Declarable(g) == \A s \in SymbolsOf(g) : s[1] \notin Separated

\* Mutant: the zone is not looked at.
isReachable_NoZone(n) == Satisfiable(n.pathCondition)

\* Both solvers answer, and the answers are yes and not empty.
isReachable(n) == Satisfiable(n.pathCondition) /\ ~IsEmpty(n.zone)

\* The next outgoing transition.
Continue == i' = i + 1 /\ UNCHANGED <<product, current, status>>

\* An exception before the solvers are called.
Throw ==
    /\ InLoop
    /\ \/ \E exception \in {"SymbolicValueNameException", "NumberFormatException"} :
             Read.thrown = exception /\ Raise(exception)
       \/ /\ Read.thrown = "" /\ ~Declarable(nextZSES.pathCondition)
          /\ Raise("NullPointerException")

Solved == InLoop /\ Read.thrown = "" /\ Declarable(nextZSES.pathCondition)

Extend ==
    /\ Solved
    /\ isReachable(nextZSES) /\ ~upperBoundReached(nextZSES.location, CurrentZSES)
    /\ zset' = Append(zset, nextZSES)
    /\ unvisited' = Append(unvisited, Len(zset) + 1)
    /\ Continue
    /\ UNCHANGED silent

Cut ==
    /\ Solved
    /\ ~isReachable(nextZSES) \/ upperBoundReached(nextZSES.location, CurrentZSES)
    /\ Continue
    /\ UNCHANGED <<zset, unvisited, silent>>

\* A run of a solver without output: the empty text is not "Satisfiable.",
\* and not the "0" of a zone that is not empty.
Silent ==
    /\ Solved
    /\ silent < MaxSilent
    /\ silent' = silent + 1
    /\ Continue
    /\ UNCHANGED <<zset, unvisited>>

Leave ==
    /\ status = "executing" /\ current # 0 /\ i > Len(OutTransitions)
    /\ current' = 0
    /\ i' = 1
    /\ UNCHANGED <<product, zset, unvisited, silent, status>>

Return ==
    /\ status = "executing" /\ current = 0 /\ unvisited = <<>>
    /\ status' = "returned"
    /\ UNCHANGED <<product, zset, unvisited, current, i, silent>>

Next ==
    \/ Start \/ NoSolver \/ Pick \/ Throw \/ Extend \/ Cut \/ Silent \/ Leave \/ Return

Spec == Init /\ [][Next]_vars

-----------------------------------------------------------------------------
(* Type invariant: the states of the tree have locations of the product,   *)
(* the queue and the loop refer to states of the tree, and the chain of    *)
(* parents of a state is that of its parent and itself, up to the root.    *)
TypeOK ==
    /\ product \in Products /\ status \in Status /\ silent \in 0..MaxSilent
    /\ current \in 0..Len(zset) /\ i \in Nat \ {0}
    /\ unvisited \in Seq(1..Len(zset))
    /\ \A k \in DOMAIN zset :
          /\ zset[k].location \in Label /\ zset[k].zone \in Zone
          /\ zset[k].ancestry \in Seq(1..k)
          /\ IF k = 1 THEN zset[k].ancestry = <<1>>
             ELSE \E parent \in 1..k - 1 :
                      zset[k].ancestry = Append(zset[parent].ancestry, k)

\* "each path of the ZSET has at most two ZSES corresponding to the same
\* TIOSTS location."
VisitsBounded ==
    \A k \in DOMAIN zset : \A l \in Label : Cardinality(Visits(zset[k], l)) <= 2
=============================================================================
