--------------------------- MODULE TestCaseSelection ---------------------------
(***************************************************************************)
(* symbolicexecution/algorithms/TestCaseSelection.java: a test tree for    *)
(* every accepting state of a symbolic execution tree, the path to it with *)
(* the other inputs the specification allows on the way.                   *)
(*                                                                         *)
(* A test tree is a sequence of states: those of the path from the root to *)
(* the accepting one, then the inconclusive leaves.  parent is the index   *)
(* of a state's parent, 0 for the root.                                    *)
(***************************************************************************)
EXTENDS SymbolicExecution

CONSTANT AcceptWords   \* the parts of labels that contain the text "Accept"

Accept       == "Accept"
Reject       == "Reject"
INCONCLUSIVE == "INCONCLUSIVE"

-----------------------------------------------------------------------------
(* The tree of the execution.                                              *)

Parent(n) == IF Len(n.ancestry) = 1 THEN 0 ELSE n.ancestry[Len(n.ancestry) - 1]

\* The numbers in a finite set, in increasing order.
Ascending(S) ==
    [n \in 1..Cardinality(S) |-> CHOOSE k \in S : Cardinality({j \in S : j < k}) = n - 1]

\* childrenTransitions of the state with index p, as the indices of targets.
ChildStates(tree, p) == {k \in DOMAIN tree : Parent(tree[k]) = p}
Children(tree, p) == Ascending(ChildStates(tree, p))

\* The label contains "Accept", wherever it does.
isAcceptZSES(n) == Range(n.location) \cap AcceptWords # {}

AcceptStates(tree) == Ascending({k \in DOMAIN tree : isAcceptZSES(tree[k])})

\* The attributes equals() compares: of a state, of a transition.
Mutable(n) == [location |-> n.location, pathCondition |-> n.pathCondition,
               mapping |-> n.mapping, zone |-> n.zone]
SameTransition(n1, n2) ==
    /\ n1.transition.action = n2.transition.action
    /\ n1.transition.params = n2.transition.params
    /\ n1.paramIds = n2.paramIds
    /\ Mutable(n1) = Mutable(n2)

isInput(n) == n.transition.type = 1

-----------------------------------------------------------------------------
\* What a state and the transition into it become in the test tree.
Copied(n, parent) ==
    [location |-> n.location, pathCondition |-> n.pathCondition, mapping |-> n.mapping,
     zone |-> n.zone, transition |-> n.transition, paramIds |-> n.paramIds,
     parent |-> parent]

backwardTraversal(tree, accept) ==
    LET path == tree[accept].ancestry
    IN  [k \in DOMAIN path |-> Copied(tree[path[k]], k - 1)]

\* Mutant: only the location is compared.
getNextZSES_Location(next, tree, previous) ==
    LET equal == {c \in ChildStates(tree, previous) : next.location = tree[c].location}
    IN  IF equal = {} THEN 0 ELSE Min(equal)

\* The first child with equal attributes; 0 is null.
getNextZSES(next, tree, previous) ==
    LET equal == {c \in ChildStates(tree, previous) : Mutable(next) = Mutable(tree[c])}
    IN  IF equal = {} THEN 0 ELSE Min(equal)

\* The inputs after state that are not the one the path takes.
getRemainingInputTransitions(next, tree, state) ==
    Ascending({c \in ChildStates(tree, state) :
        isInput(tree[c]) /\ ~(isInput(next) /\ SameTransition(next, tree[c]))})

\* A verdict at the end of the label is taken off first.
createInconclusiveLocation(l) ==
    IF Last(l) \in {Accept, Reject} THEN Append(Front(l), INCONCLUSIVE)
    ELSE Append(l, INCONCLUSIVE)

Leaf(n, parent) ==
    [Copied(n, parent) EXCEPT !.location = createInconclusiveLocation(@)]

\* The leaves for them: state is what the k-th state of the test tree
\* corresponds to, next the state that follows on the path.
Leaves(next, tree, state, k) ==
    LET found == getRemainingInputTransitions(next, tree, state)
    IN  [c \in DOMAIN found |-> Leaf(tree[found[c]], k)]
=============================================================================
