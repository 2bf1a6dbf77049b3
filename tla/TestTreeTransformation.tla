------------------------ MODULE TestTreeTransformation ------------------------
(***************************************************************************)
(* symbolicexecution/algorithms/TestTreeTransformation.java: the TIOSTS a  *)
(* test tree becomes.  A location of the test case is a label, so that     *)
(* states of the tree with one label become one location.                  *)
(*                                                                         *)
(* The test case is a value of module TIOSTS.  The path condition of the   *)
(* target, as one conjunct, is the data guard of a transition; symbolic    *)
(* variables, action parameters and clocks, which nothing here computes    *)
(* with, are left out.                                                     *)
(***************************************************************************)
EXTENDS TestCaseSelection

\* The labels of a test case.
TestLabel == Label \cup {createInconclusiveLocation(l) : l \in Label}

TestCase == INSTANCE TIOSTS WITH
    Label <- TestLabel, Name <- {}, Atom <- {}, Clock <- {}, Variable <- {}, Update <- {}

TreeChildren(tree, p) == Ascending({k \in DOMAIN tree : tree[k].parent = p})

\* Mutant: the guard is the path condition of the source.
GuardOf_Source(tree, k) == {tree[tree[k].parent].pathCondition}

GuardOf(tree, k) == {tree[k].pathCondition}

\* The arguments of createTransition for the transition into tree[k].  The
\* parameters of its action are the symbols, which no key contains.
CreatedTransition(tree, k) ==
    [source |-> tree[tree[k].parent].location,
     dataGuard |-> GuardOf(tree, k), clockGuard |-> tree[k].transition.clockGuard,
     action |-> [name |-> tree[k].transition.action, type |-> tree[k].transition.type],
     assignments |-> tree[k].transition.resets, deadline |-> tree[k].transition.deadline,
     target |-> tree[k].location]

Initialized(tree) ==
    TestCase!SetInitialLocation(
        TestCase!AddLocation(TestCase!EmptyTIOSTS, tree[1].location), tree[1].location)

WithTransition(m, t) ==
    TestCase!CreateTransition(TestCase!AddAction(TestCase!AddLocation(m, t.target), t.action), t)

\* The guard of the first outgoing transition becomes the initial condition.
WithInitialCondition(m) ==
    [m EXCEPT !.initialCondition = Head(m.out[m.initialLocation]).dataGuard]
=============================================================================
