---------------------------- MODULE TestGeneration ----------------------------
(***************************************************************************)
(* facade/SYMBOLRT.java: generateTestCases(), the five steps from a        *)
(* specification and a test purpose to test cases.                         *)
(*                                                                         *)
(* Completion and the synchronous product have modules of their own; here  *)
(* they return some product or throw what they declare.  Such an exception *)
(* is printed and the next step is called with null.                       *)
(***************************************************************************)
EXTENDS TestTreeTransformation

VARIABLES stage,     \* the step that is executed, or how the call has ended
          missing,   \* the result of the step before is null
          trees,     \* the test trees; the last one grows
          ttState,   \* forwardTraversal: where it is in that tree, 0 before it
          zsetState, \* and in the tree of the execution, 0 for null
          cases,     \* the test cases; the last one grows
          toVisit,   \* translateTestTree: its queue
          child      \* and the next child of the head of the queue

selectionVars      == <<trees, ttState, zsetState>>
transformationVars == <<cases, toVisit, child>>
allVars == <<product, zset, unvisited, current, i, silent, status, stage, missing,
             trees, ttState, zsetState, cases, toVisit, child>>

Stage == {"completion", "product", "execution", "selection", "transformation",
          "returned", "crashed"}

GenerationInit ==
    /\ Init
    /\ stage = "completion"
    /\ missing = FALSE
    /\ trees = <<>> /\ ttState = 0 /\ zsetState = 0
    /\ cases = <<>> /\ toVisit = <<>> /\ child = 1

-----------------------------------------------------------------------------
Crash == /\ stage' = "crashed"
         /\ UNCHANGED <<missing, selectionVars, transformationVars>>

\* A step of the pipeline before symbolic execution.
Prepare(step, following) ==
    /\ stage = step
    /\ UNCHANGED vars
    /\ IF missing
       THEN Crash
       ELSE /\ missing' \in BOOLEAN
            /\ stage' = following
            /\ UNCHANGED <<selectionVars, transformationVars>>

Complete == Prepare("completion", "product")
Multiply == Prepare("product", "execution")

\* execute(null) dereferences the product.
ExecuteNothing == stage = "execution" /\ missing /\ Crash /\ UNCHANGED vars

Execute ==
    /\ stage = "execution" /\ ~missing
    /\ Next
    /\ UNCHANGED <<stage, missing, selectionVars, transformationVars>>

\* Mutant: after the declared exception the step is tried again.
Executed_Retry ==
    /\ stage = "execution" /\ status \notin {"called", "executing"}
    /\ IF status = "SymbolicValueNameException"
       THEN status' = "called" /\ stage' = stage
       ELSE status' = status /\ stage' = IF status = "returned" THEN "selection" ELSE "crashed"
    /\ missing' = FALSE
    /\ UNCHANGED <<product, zset, unvisited, current, i, silent>>
    /\ UNCHANGED <<selectionVars, transformationVars>>

\* The declared exception is printed; the others are not caught.
Executed ==
    /\ stage = "execution" /\ status \notin {"called", "executing"}
    /\ CASE status = "returned" -> stage' = "selection" /\ missing' = FALSE
         [] status = "SymbolicValueNameException" -> stage' = "selection" /\ missing' = TRUE
         [] OTHER -> stage' = "crashed" /\ missing' = FALSE
    /\ UNCHANGED <<vars, selectionVars, transformationVars>>

-----------------------------------------------------------------------------
(* selectAllTestCases                                                      *)

SelectNothing == stage = "selection" /\ missing /\ Crash /\ UNCHANGED vars

Accepting == AcceptStates(zset)
Selecting == stage = "selection" /\ ~missing

\* selectTestCase for the next accepting state.  If that is the root, the
\* initial state of the test tree stays null and is dereferenced.
SelectTestCase ==
    /\ Selecting /\ ttState = 0 /\ Len(trees) < Len(Accepting)
    /\ LET path == backwardTraversal(zset, Accepting[Len(trees) + 1])
       IN  IF Len(path) = 1 THEN Crash
           ELSE /\ trees' = Append(trees, path)
                /\ ttState' = 1 /\ zsetState' = 1
                /\ UNCHANGED <<stage, missing, transformationVars>>
    /\ UNCHANGED vars

TestTree == Last(trees)

\* A round of the loop of forwardTraversal; the first child of a state of
\* the path is the next state of the path.
AddMissingInputs ==
    /\ Selecting /\ ttState # 0 /\ TreeChildren(TestTree, ttState) # <<>>
    /\ IF zsetState = 0 THEN Crash
       ELSE LET next == Head(TreeChildren(TestTree, ttState))
            IN  /\ trees' = [trees EXCEPT ![Len(trees)] =
                                @ \o Leaves(TestTree[next], zset, zsetState, ttState)]
                /\ ttState' = next
                /\ zsetState' = getNextZSES(TestTree[next], zset, zsetState)
                /\ UNCHANGED <<stage, missing, transformationVars>>
    /\ UNCHANGED vars

TestCaseSelected ==
    /\ Selecting /\ ttState # 0 /\ TreeChildren(TestTree, ttState) = <<>>
    /\ ttState' = 0 /\ zsetState' = 0
    /\ UNCHANGED <<vars, stage, missing, trees, transformationVars>>

Selected ==
    /\ Selecting /\ ttState = 0 /\ Len(trees) = Len(Accepting)
    /\ stage' = "transformation"
    /\ UNCHANGED <<vars, missing, selectionVars, transformationVars>>

-----------------------------------------------------------------------------
(* translateTestTree, for one test tree after the other.                   *)

Transforming == stage = "transformation"

BeginTestCase ==
    /\ Transforming /\ toVisit = <<>> /\ Len(cases) < Len(trees)
    /\ cases' = Append(cases, Initialized(trees[Len(cases) + 1]))
    /\ toVisit' = <<1>> /\ child' = 1
    /\ UNCHANGED <<vars, stage, missing, selectionVars>>

Translating == trees[Len(cases)]
CurrentChildren == TreeChildren(Translating, Head(toVisit))

\* A round of the inner loop.
AddChild ==
    /\ Transforming /\ toVisit # <<>> /\ child <= Len(CurrentChildren)
    /\ LET k == CurrentChildren[child]
       IN  /\ cases' = [cases EXCEPT ![Len(cases)] =
                           WithTransition(@, CreatedTransition(Translating, k))]
           /\ toVisit' = Append(toVisit, k)
    /\ child' = child + 1
    /\ UNCHANGED <<vars, stage, missing, selectionVars>>

\* The end of a round of the outer loop, and of the method after the last.
LeaveState ==
    /\ Transforming /\ toVisit # <<>> /\ child > Len(CurrentChildren)
    /\ toVisit' = Tail(toVisit) /\ child' = 1
    /\ cases' = IF Len(toVisit) > 1 THEN cases
                ELSE [cases EXCEPT ![Len(cases)] = WithInitialCondition(@)]
    /\ UNCHANGED <<vars, stage, missing, selectionVars>>

Transformed ==
    /\ Transforming /\ toVisit = <<>> /\ Len(cases) = Len(trees)
    /\ stage' = "returned"
    /\ UNCHANGED <<vars, missing, selectionVars, transformationVars>>

GenerationNext ==
    \/ Complete \/ Multiply \/ ExecuteNothing \/ Execute \/ Executed
    \/ SelectNothing \/ SelectTestCase \/ AddMissingInputs \/ TestCaseSelected \/ Selected
    \/ BeginTestCase \/ AddChild \/ LeaveState \/ Transformed

GenerationSpec == GenerationInit /\ [][GenerationNext]_allVars

\* One thread runs the call until it ends: a step that can be taken is taken.
FairGeneration == GenerationSpec /\ WF_allVars(GenerationNext)

-----------------------------------------------------------------------------
(* Type invariant: the locals of generateTestCases and of the three steps, *)
(* the execution's as in SymbolicExecution.                                *)
GenerationTypeOK ==
    /\ TypeOK
    /\ stage \in Stage /\ missing \in BOOLEAN
    /\ ttState \in Nat /\ zsetState \in 0..Len(zset) /\ child \in Nat \ {0}
    /\ Len(cases) <= Len(trees)
    /\ trees # <<>> => ttState \in 0..Len(Last(trees))

(* Concrete execution: a state s gives every name an integer, r gives one  *)
(* to every parameter the transition reads.                                *)
AfterReading(t, s, r) ==
    [x \in DOMAIN s |->
        IF x \in Range(t.params)
        THEN r[CHOOSE k \in DOMAIN t.params :
                   t.params[k] = x /\ \A j \in DOMAIN t.params : j > k => t.params[j] # x]
        ELSE s[x]]

Passes(t, s) == Holds(t.dataGuard, LAMBDA u : UnderState(s, u))

AfterAssigning(t, s) ==
    FoldLeft(LAMBDA now, a :
                 [now EXCEPT ![a.variable] = Sum(a.value, LAMBDA u : UnderState(now, u))],
             s, t.assignments)

\* A valuation makes the state of a model of a symbolic state.
Concrete(n, v) ==
    [x \in DOMAIN n.mapping |-> Sum(n.mapping[x], LAMBDA u : UnderSymbols(v, u))]

SymbolsIn(n) ==
    SymbolsOf(n.pathCondition) \cup UNION {Symbols(n.mapping[x]) : x \in DOMAIN n.mapping}
SymbolsRead(n) == UNION {Symbols(n.paramIds[k]) : k \in DOMAIN n.paramIds}

\* Texts for which substitution and AND need no parentheses: a conjunction
\* after a conjunction, and no name with a minus before it.
Unsigned(e) == \A k \in DOMAIN e : e[k].kind = "name" => e[k].sign = 1
Plain(previous, t) ==
    /\ previous = GUARD_TRUE \/ (Len(previous) = 1 /\ Len(t.dataGuard) = 1)
    /\ \A c \in UNION {Range(t.dataGuard[k]) : k \in DOMAIN t.dataGuard} :
           Unsigned(c.left) /\ Unsigned(c.right)
    /\ \A k \in DOMAIN t.assignments : Unsigned(t.assignments[k].value)

\* The names of an expression, and those a transition speaks of.
NamesOf(e) == {e[k].name : k \in {j \in DOMAIN e : e[j].kind = "name"}}
ExpressionsOf(t) ==
    (UNION {UNION {{c.left, c.right} : c \in Range(t.dataGuard[k])} : k \in DOMAIN t.dataGuard})
        \cup {t.assignments[k].value : k \in DOMAIN t.assignments}
Mentions(t) == UNION {NamesOf(e) : e \in ExpressionsOf(t)}

\* No name has "_", no parameter is assigned to, and every name is declared.  After p := x the code takes "x_0" for the value of p: the next
\* p that is read is "x_1", which may be a symbol already.
NamesInScope ==
    /\ product.names \cap Separated = {}
    /\ \A l \in Label : \A t \in Range(product.out[l]) :
          \A l2 \in Label : \A u \in Range(product.out[l2]) :
              \A a \in Range(u.assignments) : a.variable \notin Range(t.params)
NamesDeclared ==
    \A l \in Label : \A t \in Range(product.out[l]) : Mentions(t) \subseteq product.names

Newest == zset[Len(zset)]

(* If no parameter is assigned to, the state that was added last stands    *)
(* for exactly the model states its transition leads to: whatever the      *)
(* symbols are, its path condition holds where that of its parent does and *)
(* the guard of the transition passes, its mapping gives the names the     *)
(* values the assignments compute, and the parameters that are read have   *)
(* symbols nothing else depends on ("List of unique symbolic values").     *)
StepsExact ==
    (/\ Len(zset) > 1 /\ NamesInScope /\ NamesDeclared
     /\ Plain(zset[Parent(Newest)].pathCondition, Newest.transition)) =>
        LET n == Newest
            p == zset[Parent(n)]
            t == n.transition
        IN  /\ SymbolsRead(n) \cap SymbolsIn(p) = {}
            /\ Cardinality(SymbolsRead(n)) = Len(t.params)
            /\ \A v \in [SymbolsIn(n) \cup SymbolsIn(p) \cup SymbolsRead(n) -> Value] :
                  LET holds(g) == Holds(g, LAMBDA u : UnderSymbols(v, u))
                      r == [k \in DOMAIN n.paramIds |->
                               Sum(n.paramIds[k], LAMBDA u : UnderSymbols(v, u))]
                      s == AfterReading(t, Concrete(p, v), r)
                  IN  /\ holds(n.pathCondition) <=> (holds(p.pathCondition) /\ Passes(t, s))
                      /\ Concrete(n, v) = AfterAssigning(t, s)

\* The model can take t from some state n stands for.
Takes(n, t) ==
    /\ ~IsEmpty(NextZone(n.zone, t.clockGuard, t.resets))
    /\ \E v \in [SymbolsIn(n) -> Value] : \E r \in [DOMAIN t.params -> Value] :
          /\ Holds(n.pathCondition, LAMBDA u : UnderSymbols(v, u))
          /\ Passes(t, AfterReading(t, Concrete(n, v), r))

(* If every run of a solver answers and no parameter is assigned to, a     *)
(* state whose transitions have been tried has a child for every one the   *)
(* model can take from it to a location that is on the path less than      *)
(* twice, and for no other, in the order of the transitions.               *)
BranchesExact ==
    (/\ NamesInScope /\ NamesDeclared
     /\ silent = 0 /\ current # 0 /\ i = Len(OutTransitions) + 1
     /\ \A j \in DOMAIN OutTransitions :
           Plain(CurrentZSES.pathCondition, OutTransitions[j])) =>
        LET due      == {j \in DOMAIN OutTransitions :
                             /\ Takes(CurrentZSES, OutTransitions[j])
                             /\ Cardinality(Visits(CurrentZSES, OutTransitions[j].target)) < 2}
            places   == Ascending(due)
            children == Children(zset, current)
        IN  [c \in DOMAIN children |-> zset[children[c]].transition]
                = [c \in DOMAIN places |-> OutTransitions[places[c]]]

(* execute() throws SymbolicValueNameException "If there is some problem   *)
(* with variable and action parameter names"; no call fails in the middle  *)
(* because of names unless one contains the separator or a parameter is    *)
(* assigned to.                                                            *)
ThrownOnlyForNames ==
    status \in {"SymbolicValueNameException", "NumberFormatException"} => ~NamesInScope

(* What a transition of the test tree and one of the execution agree on.   *)
Matches(n, c) ==
    /\ n.transition.action = c.transition.action /\ n.transition.params = c.transition.params
    /\ n.paramIds = c.paramIds /\ n.pathCondition = c.pathCondition
    /\ n.mapping = c.mapping /\ n.zone = c.zone

(* If every run of a solver answers, the test tree of an accepting state   *)
(* follows its path, and in every state of the path it has all inputs the  *)
(* execution has there and nothing the execution has not: also where two   *)
(* children are equal, so that the walk follows the wrong one.             *)
TreesComplete ==
    (silent = 0 /\ ttState = 0) =>
        \A a \in DOMAIN trees :
            LET tree     == trees[a]
                ancestry == zset[Accepting[a]].ancestry
            IN  /\ \A k \in DOMAIN ancestry : Mutable(tree[k]) = Mutable(zset[ancestry[k]])
                /\ \A k \in 1..Len(ancestry) - 1 :
                      LET beside == {zset[c] : c \in Range(Children(zset, ancestry[k]))}
                          kept   == {tree[c] : c \in Range(TreeChildren(tree, k))}
                      IN  /\ \A c \in beside : isInput(c) => \E n \in kept : Matches(n, c)
                          /\ \A n \in kept : \E c \in beside : Matches(n, c)

Distinct(tree) == \A j, k \in DOMAIN tree : tree[j].location = tree[k].location => j = k

\* t shows the transition of the test tree into its k-th state.
Shows(t, tree, k) ==
    /\ t.source = tree[tree[k].parent].location /\ t.target = tree[k].location
    /\ t.action.name = tree[k].transition.action /\ t.action.type = tree[k].transition.type
    /\ t.dataGuard = {tree[k].pathCondition}

(* "@return A list with all generated test cases.": there is one for every *)
(* accepting state.  Its lists have the transitions of the test tree and   *)
(* its initial condition is the first one of the path, also if the path    *)
(* comes back to the initial location.  The HashMap a copy is made from    *)
(* has lost none of them if no location occurs twice in the tree.          *)
CasesFaithful ==
    stage = "returned" =>
        /\ Len(cases) = Len(Accepting)
        /\ \A a \in DOMAIN cases :
              LET tree == trees[a]
                  m    == cases[a]
                  moves == TestCase!OutTransitions(m)
              IN  /\ m.initialCondition = {tree[2].pathCondition}
                  /\ \A k \in 2..Len(tree) : \E t \in moves : Shows(t, tree, k)
                  /\ \A t \in moves : \E k \in 2..Len(tree) : Shows(t, tree, k)
                  /\ Distinct(tree) => m.transitions = moves

\* generateTestCases returns or throws, whatever the solvers print.
GenerationEnds == <>(stage \in {"returned", "crashed"})

-----------------------------------------------------------------------------
(* "Create the next path condition considering the previous path condition *)
(* and the next data guard.": it holds where both do.                      *)
ConditionsJoined ==
    Len(zset) > 1 =>
        LET n == Newest
            p == zset[Parent(n)]
            guard == UpdatedGuard(n.transition.dataGuard,
                        ReadParameters(n.transition.params, p.mapping).values)
        IN  \A v \in [SymbolsOf(n.pathCondition) \cup SymbolsOf(guard)
                        \cup SymbolsOf(p.pathCondition) -> Value] :
               LET holds(g) == Holds(g, LAMBDA u : UnderSymbols(v, u))
               IN  holds(n.pathCondition) <=> (holds(p.pathCondition) /\ holds(guard))
=============================================================================
