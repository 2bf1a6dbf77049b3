# SYMBOLRT: formal models

SYMBOLRT generates test cases for real-time systems. A system and a test
purpose are TIOSTSs (timed input-output symbolic transition systems): locations,
transitions with a data guard, a clock guard, an action, assignments and a
deadline. Larger systems are composed from smaller ones (sequential, parallel and
interruption composition, hiding, renaming, input completion). A specification
and a test purpose then go through a pipeline of five steps: completion of the
test purpose, synchronous product, symbolic execution, test case selection and
test tree transformation.

This directory holds TLA+ models of that program, the configurations that check
them with TLC and proofs that TLAPS checks. Paths below are relative to
`src/symbolrt/src/br/edu/ufcg/symbolrt/`.

    tlc -config MCParallelWalk.cfg MCParallelComposition.tla
    tlapm ParallelComposition_proofs.tla

## 1. Inventory

The program is sequential: one thread, no locks, no messages. What makes it hard
is elsewhere: recursive walks of cyclic graphs, singletons with fields that
outlive a call, HashMaps iterated in an order nobody chose, a transition kept in
two places that disagree, guards handled as text, and two external solvers.

| Component | State it keeps | Operations | Hard because |
|---|---|---|---|
| `base/TIOSTS`, `Location`, `Transition`, `ClockGuard` | lists of declarations, map of locations, HashMap of transitions keyed by source, action and target, an incoming and an outgoing list in every location | `addAction`, `addClock`, `addLocation`, `setInitialLocation`, `createTransition`, `getTransition`, `clone` | the key has no guards; `clone` iterates the map and re-parses guards |
| `compositions/ParallelComposition` | singleton; `visitedLocations`, the two clones, the result | `parallelComposition`: `initialize`, recursive `parComposition` | depth-first recursion, nested loops, state kept across calls |
| `algorithms/SynchronousProduct` | singleton; clones, result | `synchronousProduct`: recursive `syncProduct`, `mirror` | recursion without a visited set; shared `Action` objects mutated at the end |
| `algorithms/Completion` | clone of the test purpose | `complete`, `getRemainingActions`, `negateClockGuard` | lists grow while copies of them are iterated; an exception half way |
| `compositions/InputCompletion` | clone of the model | `complete`, `getAbsentInputActions`, `negateClockGuard` | the same, and applied to its own results |
| `compositions/SequentialComposition` | singleton; clones, result | `sequentialComposition` | two passes over unordered maps; last match wins |
| `compositions/InterruptionComposition` | singleton; clones, result | `interruptionComposition` | transitions looked up by action in an unordered map |
| `compositions/HidingOperator`, `RenamingOperator` | result | `hiding`, `renaming` | declarations and transitions must stay consistent |
| `symbolicexecution/algorithms/SymbolicExecution` | tree, counters of parameters, files shared with the solvers | `execute`: breadth-first expansion with a bound | the bound; solver failures that look like "unsatisfiable"; textual substitution |
| `symbolicexecution/algorithms/TestCaseSelection` | trees | selection of paths to Accept | states compared by value |
| `symbolicexecution/algorithms/TestTreeTransformation` | result | tree back to a TIOSTS | repeated locations and colliding keys |
| `facade/SYMBOLRT` | none | the pipeline | a failed step is printed and the pipeline goes on |
| `compiler/synthesis/Builder` | none | source text to TIOSTS | decides which models reach everything else |
| `compiler/parser`, `util`, `main`, solvers | none of interest | parsing, files, drawings, sample programs | generated, input and output, or third-party |

How they interact: the compiler builds TIOSTSs; every composition and every step
of the pipeline first calls `clone()` on its arguments and then calls the
mutators of a fresh or cloned object; the result is the argument of the next one.
So `clone()` decides what every component sees, and what each component must
guarantee to the next is that its result can be cloned without loss.

What makes each component correct:

* TIOSTS: the map and the lists agree about the newest transition of each key; a
  copy is consistent in itself, and loses nothing if keys are distinct.
* Parallel composition: only moves of the composition, all of them, in every call;
  the recursion ends; the result is clonable and its map loses nothing.
* Synchronous product: only joint moves, all of them; the recursion ends; the result
  is clonable and its clock constraints name the right clocks.
* Completion: at every moment every location reacts to every input and output,
  in the lists and in the map; what was accepted is not also rejected; the
  exception is thrown when due, whatever the order of the locations.
* Input completion: every location accepts every input; specified behaviour does not
  become "don't care"; it throws exactly for unsupported clock guards.
* Sequential and interruption composition, hiding, renaming: declarations match the
  transitions, no dangling location, the result independent of map order.
* Symbolic execution: the tree is finite; every symbolic state stands for exactly the
  model states its path leads to; a branch is missing only if the model cannot take it,
  the bound is reached, or a solver printed nothing.
* Selection and transformation: a test case for every accepting state, with the path to it
  and every other input the execution has on the way.
* Facade: every call ends, whatever step fails.

The `hazards` of `PROJECT.json` list what can go wrong at which line, with the
properties that would show it.

## 2. The modules

| Module | Models | Builds on |
|---|---|---|
| `TIOSTS` | records for TIOSTS, transitions and guards; the mutators; `clone()` | |
| `TIOSTSLifecycle` | one object under any order of mutators, cloned at any time | `TIOSTS` |
| `ParallelMoves` | the moves of a parallel composition, without the walk | `TIOSTS` |
| `ParallelProduct` | abstract specification: a composition grown move by move | `ParallelMoves` |
| `ParallelComposition` | the singleton and its recursion | `ParallelMoves`, refines `ParallelProduct` |
| `SynchronousProduct` | the recursion, its exception, stack overflow, `mirror` | `TIOSTS` |
| `GuardNegation` | negation of guards, absent actions, when a guard holds | `TIOSTS` |
| `Completion`, `InputCompletion` | the two `complete()` methods, step by step | `GuardNegation` |
| `Rebuilding` | what operators that rebuild a model share | `ParallelMoves` |
| `ActionOperators` | hiding and renaming | `Rebuilding` |
| `SequentialComposition`, `InterruptionComposition` | the operator of that name | `Rebuilding` |
| `Compositions` | a program that applies the four operators to models and results | the three modules above |
| `SymbolicValues` | expressions, guards, symbolic values, and the substitution of texts | |
| `SymbolicExecution` | `execute()`: the breadth-first walk and the two solvers | `SymbolicValues` |
| `TestCaseSelection`, `TestTreeTransformation` | what the two steps compute | `SymbolicExecution`, an instance of `TIOSTS` |
| `TestGeneration` | `generateTestCases()`: the five steps, the loops of the last three | `TestTreeTransformation` |
| `..._proofs` | lemmas and theorems | the modules they name, `TLAPS` |
| `MC...` | small instances for TLC | the module they name |

### State and actions

**TIOSTS.** An object is a record. The HashMap of transitions is the set of its
values (`Put` replaces by `Key`), and the outgoing lists of the locations are a
function `out` from labels to sequences. The incoming lists hold the same
transitions, appended by the same call, and are not kept twice. `Clones(m)` is the
set of the objects `clone()` may return, one for each order of the map.

**ParallelComposition.** One frame of `stack` per active call of `parComposition`:
the two locations, the indices `i`, `j` of the two loops, and the `case` of the loop
body that is next. `Call` is everything `parallelComposition` does up to the first
recursive call, `initialize` included; `Case1`, `Case2`, `Case3` create a transition
and recurse, `Skip` is a case whose condition is false, `Crash` is `recoverAction`
indexing a list with -1, `Leave` is the return of a recursive call and `Return` that
of the outer one. `visitedLocations` is not reset by `Call`, as it is not in the code.

**SynchronousProduct.** Frames again; `VisitUnmatched` and `VisitMatched` are the two
branches of the loop body. `mirror` changes the type of `Action` objects which
transitions in the map and in the lists share, so it maps over both. `MaxDepth` stands
for the size of the Java stack: a deeper call ends in `overflow`. `Crash` is the look-up of an
initial location that the walk did not create.

**Completion, InputCompletion.** `Start` is what precedes the loop over locations,
`Visit(l)` the body up to the inner loop, with `l` taken in any order, `Negate`, `Pass` and
`Throw` are the iterations of the inner loop over a copy of the list (`todo`). What one round
of the loop over actions creates (`AddTransitions`) is written without iterating: the list of a
location grows by a sequence, and the map keeps what no key of that sequence replaces.

**Rebuilding, ActionOperators, SequentialComposition, InterruptionComposition.** These
operators loop once over the HashMap of a clone and have no state between two calls, so a
call is the set of its outcomes: results and `Thrown`, one for each order of the maps. A loop is
`Loop(step, start, xs)`, a recursive function on the positions of the list `xs`. `Copies` computes
the clones location by location. `InOrder` is the order in which a clone's map is iterated, as far as
it makes a difference: the lists of the locations hold it, and transitions of different locations meet
only in the second loop of `sync`, which looks transitions up in the result; `Orders` has all orders
for that one. `Created` is `createTransition` with its lookup of both ends, which dereferences null
when one was replaced before.

**Compositions.** One step is one call on a compiled model or on the last result, as in the
classes of package `main`. An exception ends the program, since `main` catches only an
exception that no composition throws (the calls of `isCompatible` are commented out).

**SymbolicExecution.** `zset` is the list `symbolicStates`; a state's chain of parents is its
`ancestry`. `Pick` and `Leave` are the ends of a round of the outer loop, `Extend`, `Cut`,
`Silent` and `Throw` the ways a round of the inner loop can go, `NoSolver` a failed `exec`. A path
condition is a list of alternatives of conjunctions, because that is what the text means
to CVC3 (AND binds tighter than OR); `Spliced` replaces a name by a text without parentheses,
as the code does. CVC3 is `Satisfiable`, the truth over a finite set of integers; the DBM
program is `NextZone`, a constant.

**TestGeneration.** `stage` is the step of the facade that is executed. `Complete` and
`Multiply`, which have modules of their own, return some product or throw; from then on the
actions are one round of a loop each: `SelectTestCase` (`backwardTraversal` and the start
of `forwardTraversal`), `AddMissingInputs`, `AddChild`, `LeaveState`. `Crash` is an exception
the facade does not catch.

### Abstractions

* Labels and names are lists of identifiers and `Join` is concatenation: "l1,l2" and
  "a1_a2" are unambiguous for the labels a compiler produces. Labels that contain the
  separator themselves are a listed hazard.
* A data guard is the set of its conjuncts; `NOT (g)` is a conjunct of its own, since the
  code negates text. A clock guard is the set of its constraints. The constant of a
  constraint is dropped; where the meaning of guards matters (`GuardNegation`) all
  constraints on a clock compare it with one constant, and a moment is the set of tests that
  hold and the side of that constant each clock is on.
* Parameters of actions are left out, and with them the check of `SynchronousProduct`
  that those of a test purpose are variables or parameters of the specification.
* Variables keep their names only; types and initial values are data nothing branches on.
* Expressions of the symbolic execution are sums of signed terms, and symbolic values over
  them; the order of terms matters, since exceptions depend on where the symbol stands.
* The files between the program and the solvers are abstracted to what a solver prints.

## 3. Runs

Passing runs:

* `tiosts_lifecycle`: at most 3 transitions (two of four share a key) and 2 clocks. Three
  transitions suffice to collide, replace and still keep a different one; two calls of `addClock`
  let a guard be parsed before, between and after them.
* `parallel_walk`: 12 x 9 pairs with dead ends, loops, cycles and two transitions on one
  action, plus a model that reuses its initial action, one that comes back to its initial location,
  one that receives what it sends, a pair with common locations, and a second model that
  initialises a variable, and six pairs without dead ends;
  two calls, so that the second one finds `visitedLocations` filled. `NothingOverwritten` and
  `FirstCallClosed` assume that the joined labels tell the pairs of locations apart
  (`PairsDistinct`), as they do unless labels contain the separator; `FirstCallClosed` is the part of the
  promise the code keeps without conditions on the models: in a first call, all moves of every pair
  it reaches in which neither location is a dead end.
  `RefinesProduct` has such conditions, all of them in `Faithful`: in a first call on such a pair the walk implements
  `ParallelProduct` step by step. What `Faithful` leaves out is what the violation runs show; six pairs
  satisfy it (`LivePairsAssumption`).
* `sync_product`: 21 specifications x 7 test purposes, among them incompatible ones, one that constrains a clock, ones
  with choices between guards and verdicts, one that starts with its verdict, ones that overflow, and ones with
  two transitions that differ only in what `getTransition` does not compare. `ReturnedComplete` asks for
  a move that `getTransition` finds in the place of each joint move (`Alike`), and for the
  move itself when no key is used twice. The 21st specification is what a parallel composition returns: a guard
  in it has the clock id of the model it comes from. Its loop on an action the test purpose ignores overflows
  with distinct keys, so `EndsOnDistinctKeys` asks for resolved ids (`IdsResolved`), distinct labels
  and no verdict at the start too. It also asks that there are fewer joint moves than calls fit on the
  stack (`Room`); `MaxDepth = 16` is more than any instance with distinct keys has, so that here this excludes none.
* `completion`: every test purpose with up to two transitions from one location, with seven
  kinds of guard, also unsupported ones and ones on Accept; some declare an action both as input and
  as output, which then gets two loops where it is absent.
* `input_completion`: every model with up to two transitions and six kinds of guard, and
  models that have a DontCare of their own, as a model completed before has. `UnsupportedRefused` is the part of the
  promise about exceptions that holds; `input_completion_guards` shows the other one.
* `compositions`: nine processes that end with a message or call another one and are
  answered, sixteen that start with that message, one to attach to a result; two calls in a row, each of the
  four operators on each of them. Some satisfy `isCompatible`, some only almost; some have a
  loop at a location that becomes joint, a transition that only leaves such a location or that enters it
  from another one, an internal action that the other one does not declare, an
  action name twice, a transition back to the initial location. Words of at most 6 actions go through
  call, answer and a second call. The promises are stated where the operators were meant to be used: `SequentialFit`
  and `InterruptionFit` are the conditions of the two `isCompatible` methods, `HandsOver` says that one model waits
  while the other has control, `EndsFound` and `LeavesKept` exclude what `sync()` looks up wrongly or
  drops. `SequenceFaithful`, `ResultCloneable` and the last conjuncts of `InterruptionFaithful` are exact
  (`<=>`): they say when a call throws, and when the next call can use the result. What happens elsewhere
  stays in the run, under `TypeOK`, `NothingMerged` and `ResultCloneable`. `LabelsAfter` gives the labels that a
  model can have after each number of calls, and bounds nothing: `LabelsAssumption` asks it to contain all joined labels.
* `test_generation`: fourteen products, each for one difficulty: a parameter that is read again and
  again, assignments that depend on each other, two states of one location that differ in what is
  possible, equal siblings, a clock whose deadline is missed, a location of the specification that
  contains "Accept", a root that accepts, names with "_", a parameter that is assigned an
  expression, or a variable, and read again, a
  guard with OR, a minus before a name. Integers 0..2, one clock with times 0..3 where 3 stands for
  all later ones, one run of a solver without output, any failed start. One silent run can
  remove any one subtree, which is what the properties distinguish. `StepsExact` and `BranchesExact` say of themselves
  what they presuppose: texts that need no parentheses (`Plain`), no parameter that is assigned to (`NamesInScope`),
  and declared names (`NamesDeclared`). Without `NamesInScope` the product `Aliased` violates both. Further, `BranchesExact` and
  `TreesComplete` speak of executions in which all runs answered, the others of all.

Two locations besides the initial one are enough for the walks: with them there are cycles through
both models, self loops, and pairs reached twice by different paths.

Fairness is weak fairness of the steps of a call that was started (`Walk`, and `Next` for
`SynchronousProduct`). The program runs a call on one thread to its end, so a call
does not stop between two steps. For the same reason `FairGeneration` has weak fairness of
`GenerationNext`: `GenerationEnds` says that one call of the facade returns or throws. It includes that a
solver process ends, for which the code waits. Other calls themselves are not fair: nobody has to make them.
`CHECK_DEADLOCK FALSE` is set because a finished or crashed call, with no call left
within the bound, is the end.

### Where the code and its documentation disagree

Each is a run whose property quotes the documentation and which ends in a counterexample.

* `parallel_dead_end`: the moves of one model alone are created inside the loop over the
  transitions of the other (`ParallelComposition.java:123`). Once one model is in a location
  without outgoing transitions, the other one stops too.
* `parallel_again`: `visitedLocations` (line 60) is never cleared, so the second composition
  of the same pair has its initial transition only.
* `sync_loops`: two loops of a specification on one action, told apart by guards, replace
  each other in the map that `getTransition` searches; the recursion never ends.
* `input_completion_guards`: `InputCompletion.java:125` compares the clock guard with FALSE where
  `Completion.java:115` compares with TRUE, so that an input with a data guard only ends in `negateClockGuard`
  and the call throws. The javadoc (lines 82-90) admits such inputs: one guard of each transition is TRUE, and the
  exception is for unsupported clock guards.
* `symbolic_or`: path condition and guard are joined as text without parentheses
  (`SymbolicExecution.java:247`), so that after `p` the guard `a OR b` gives `p AND a OR b`,
  which `b` satisfies without `p`.

Observed, without a run of its own:

* `ParallelComposition.java:333`: `initialize` passes the initial assignments of the first model
  twice; those of the second are lost, in every call.
* `ParallelComposition.java:265` and `:308`: the result does not declare an action named like an initial
  action, nor an input of the second model that this model also sends, because its outputs have been
  added to the list that line 308 reads. `recoverAction` then throws for a model whose initial action
  comes again, by a second use of its name or by a transition back to the initial location.
* `SynchronousProduct.java:268`: constraints of a test purpose keep in the product the clock ids they
  had there, which are 0 since a test purpose is compiled without clocks.
* `SynchronousProduct.java:117`: `getTransition` compares neither assignments nor deadlines, so of two joint
  moves that differ in nothing else the product has the first.
* `SynchronousProduct.java:123`: the specification is walked itself, not a clone (line 90), and compared by its own clock
  ids; what line 124 stores has the ids of the product. A specification whose ids are not positions in its list of
  clocks is never found again, and a loop of it on an action the test purpose ignores overflows. Such is the
  result of a parallel composition: it has the clocks of its first model (`ParallelComposition.java:292-295`) and
  guard objects of both (lines 137, 147, 169).
* `SynchronousProduct.java:94`: a test purpose that starts with Accept or Reject makes the call end with a
  NullPointerException (`Crash`); `CrashesOnlyOnVerdict` proves that no other does.
* `InputCompletion.java:129` joins the negations of both guards, so an input with a clock
  guard is still refused at some moments; with a clock guard only, what is added has "NOT (TRUE)" and is never possible. `FreeInputsAccepted` is about inputs no guard restricts.
* `Completion` negates the transitions on one action one by one, so that each negation
  overlaps the other transition. `ChoicePreserved` assumes one transition for each action.
* Hiding declares `Tau` only, and renaming an internal action declares the new name nowhere: the
  result cannot be cloned, so that no other operator accepts it. `ResultCloneable` has the exact
  conditions. A sequential or interruption composition forgets the internal actions of its second
  model.
* `SequentialComposition.java:135`: a loop on a location that becomes joint is redirected at one end
  and `createTransition` dereferences null.
* `InterruptionComposition.java:526-530`: a transition between two locations that synchronize is
  attached to whichever transition of the result has the first action around its other end; at 523 the loop over the second model has no
  case for a transition whose source is that of the synchronizing one (the loop over the first model has it, lines
  510-511), which is then missing in the result unless its target is an end too (`LeavesKept`); at 465 the guard of the joint transition comes from whichever incoming
  transition is first; line 155 adds no clock of the second model.
* `HidingOperator.java:117`: hiding a name no action has dereferences null.
* Substitution writes no parentheses: `2 - y` with `y := x - 1` becomes `2 - x - 1`. `StepsExact` assumes
  texts without a minus before a name, and without OR.
* `SymbolicExecution.java:229`: the next symbol of a parameter is computed from its value. After `p := x` the
  value of `p` is `x_0`; an action that reads `p` and `x` gives both the symbol `x_1`, and reading `p` twice in a path can
  use one symbol for two values and cut a branch. The comment at line 124 calls the symbols unique.
  `StepsExact` and `BranchesExact` assume that no parameter is assigned to.
* A run of a solver that prints nothing counts as "unsatisfiable". The walk of `forwardTraversal`, which
  follows equal values, can then take the twin of a state whose subtree is missing and lose inputs.
* `split("_")` in the declarations for CVC3 finds no variable when its name contains "_": a
  NullPointerException, where for a parameter it is the declared SymbolicValueNameException.
* A label that contains "Accept" anywhere accepts; if the root does, test case selection dereferences
  null.
* The inconclusive copies of `X_Accept` and of `X_Reject` have one label.
* A test tree in which a location occurs twice becomes a test case with joined locations, and
  its map, though not its lists, may lose transitions.

## 4. Proofs

All theorems hold for any sets of labels, names, guards and clocks and any number of models of
any size; TLC evaluates their assumptions in every run of the module. An order of a HashMap is any order.

| Module | Proves |
|---|---|
| `TIOSTS_proofs` | lemmas on the mutators and on `clone()`, above all `CloneShape`; what many calls of `createTransition` leave; a negated guard holds exactly when the guard does not |
| `TIOSTSLifecycle_proofs` | every invariant of `tiosts_lifecycle` |
| `ParallelComposition_proofs` | every invariant of `parallel_walk`, and its refinement `RefinesProduct` |
| `SynchronousProduct_proofs` | every invariant of `sync_product` |
| `Completion_proofs`, `InputCompletion_proofs` | every invariant of `completion` and of `input_completion` |
| `Compositions_proofs` | of `compositions`: the type invariant, `ResultCloneable`, `NothingMerged` and `SequenceFaithful` |
| `TestGeneration_proofs` | the bound of the symbolic execution, the locals of the facade, which exceptions names can cause, that every state stands for the model states its transition leads to, that test trees are complete and test cases faithful to them |

**TIOSTS.** `CloneShape`: for every order of the map, a clone of a well-formed model has its declarations
and locations, its initial list is not empty, and every transition it lists ends in a declared location.

**Life cycle.** The properties of a copy say nothing of how the object came about, so the
inductive invariant has to (`MapHoldsLatest`): the map is finite, is exactly the last `createTransition` of every key,
and every source is a declared location (from a location `clone()` does not list, the transition would be
lost). With it a copy has the transitions of its object with their guards parsed again (`CopyOf`), which changes ids
only (`ReparsedGuard`); hence its lists match its map (`CopiesAgree`), its ids are positions (`CopiesResolve`), and it
has the latest transition of every key (`CopiesKeepLatest`). The assumption is `NewTransitionAssumption`.

**Parallel composition.** The assumptions are `PairsAssumption` (models are `WellFormed`, joined labels and names are
labels and names, and the joined name is neither of the two) and `BoundsAssumption`. Five
inductive invariants build on one another.

* `IInv` gives `TypeCorrect`, `Depth` (no pair is active twice) and `Soundness` (only moves of the composition are
  created, in any number of calls). It adds to the type invariant that the stack is empty unless a call is exploring (else
  `Call` could start on top of old frames); that the clones have the shape `CloneShape` gives (else a frame could index a
  transition whose target is not a location of its model, and the joined label would not be a label); that
  every frame stands on a pair of declared locations; and that every list of the result holds moves
  of the composition, not only the lists of declared locations, since `AddLocation` declares a
  location whose list may be filled already. `RecursionBounded` is inductive because
  a pair is pushed only when its label is not in `visitedLocations` and every active pair is;
  it does not need `Join` to be injective.
* `JInv` gives `ResultsCloneable` and `CrashesOnlyOnUndeclared`: the lists of actions of the result stay
  those of `initialize`, the lists of the clones hold transitions of their maps with declared actions, and
  the locations of every active pair are targets of transitions, so that the walk stands on an
  initial location only if the model has a way back to it.
* `KInv` gives `NothingIsOverwritten`. The map has nothing the lists lack, always; and the lists have nothing
  the map lacks when labels tell pairs apart. The second part rests on the keys: those of a
  clone are distinct, so that the key of a move tells which transitions it was made from, and the
  initial action has a new name, so that a way back to the initial pair cannot replace it.
* `LInv` gives `FirstCallComplete`. It describes a walk in progress: an active call has created
  whatever its three counters got past, a visited pair is active or has been gone through, and
  the target of every created transition was visited. When the stack is empty nothing is active. It is about the first
  call only, since a later one starts with pairs visited that its result does not have.
* `QInv` (every active call stands where a transition of the result leads to) makes each case an `Extend` of
  `ParallelProduct`. `Refinement` concludes `Spec => RefinesProduct`, which is about first calls on pairs that are `Faithful`: models that
  `clone()` copies unchanged, without dead ends, whose initial actions do not come again, a
  second model without initial assignments of its own and without an action it both sends and receives.
  Each condition is one of the hazards listed above, and TLC finds the refinement violated without it
  where a run shows the hazard.

**Synchronous product.** The assumptions are `InstancesAssumption` and `DepthAssumption`.

* `IInv` gives `TypeCorrect`, `Soundness` and `CrashesOnlyOnVerdict`. It places every call on a
  pair of declared locations without a verdict, and speaks of the lists of all labels. For the last theorem it says that
  the map has no transition that the lists lack, so that finding a transition instead of
  creating it also shows that the list of the pair is not empty, and that until the initial pair has a transition its call
  is the only one and has tried nothing.
* `WInv` gives `CompleteWhenReturned` and `CloneableWhenReturned`. No pair is recorded as visited here: a
  pair is entered again whenever a new transition leads to it, and not entered when the transition is found. So the
  invariant says what justifies not entering it: a pair that has a location in the product is active, or all its moves are
  listed up to `Alike`. Every transition of the product is `Stored`, that is, comes from known transitions of the two models,
  which with distinct keys shows that no joint move replaced another. The step `Return` carries
  all of it over to the flipped actions of `mirror`.

**Completion, input completion.** The assumptions are that test purposes (models) are `WellFormed` and their guards
parsed, and `NegationAssumption` on the texts of negated guards. The invariant `LocationsHandled` says
what each location holds, by whether the loop has been there. For completion: `Untouched`, exactly what `clone()` put there,
each once; or `Finished`, where every action is offered by an unguarded or an original transition, every guarded one has
its counterpart or is still in the copied list, and, if no action is offered or declared twice, two
transitions on one action are an original and its counterpart (`Paired`). The same is said of the map, where it needs
`OneWay`, for a counterpart could otherwise replace a different transition. For input completion: where every transition comes
from (`Holds`), and that a visited location takes every input. `CopiedList` says that the copied list is of one
visited location and that of what is left in it nothing is negated yet. `Completeness`, `InputsAccepted`, `ChoiceKept` and
`Specified` then follow from the lemmas that a moment satisfies a supported guard or its negation, never both.

**Hiding, renaming, sequential and interruption composition.** The assumptions are those of `Compositions`:
compiled models are `WellFormed` and have finitely many locations (`CompiledAssumption`), labels are non-empty lists
and lists without a common part can be joined (`LabelsAssumption`), new names are names (`NamesAssumption`), and the
bounds are numbers (`BoundsAssumption`). The number of calls is any number.

* A loop has no closed form here, since its body may throw. A property of a `Loop` is a set for each position, and is shown at the
  last position that has it (`IterationStays`, `LoopStays`; `IterationExists` that there is such a loop). With it `Copies` is
  shown to give clones only (`CopiesAreClones`), and a loop of `createTransition` either to throw, at a transition one
  end of which is not declared, or to have all its transitions in its lists (`CreatedAllShape`).
* `Sound` is what all four operators need and keep: every end is declared, and the lists and the map have the same keys,
  which are distinct in the map. It is weaker than that lists and map are equal, which fails as soon as hiding gives two
  actions one name.
* `HidingOf` and `RenamingOf` say which transitions the result has, hence when the next `clone()` finds their actions
  (`HidingCloneable`, `RenamingCloneable`) and when two of them share a key.
* A sequential composition throws before it creates a transition or is composed at two transitions that meet
  (`SequenceMeets`), and has then, or throws because of, the transitions of `ComposedShape`. `MovedKeyed` shows that
  redirecting transitions to a label that is new keeps their keys apart, hence `SequenceKeyed`; `SequenceThrows` says which
  ends `initialize()` has taken away.
* The words of what it returns (`SequencesFaithful`, for every `MaxWord`) are compared over `Leads`, one transition and the
  action it adds to a word. `SequenceLeads` shows that the result goes as the first model does up to the
  joint transition (`Continued`) and from there as the second (`Embedded`): the labels it makes up differ from all others, and
  from each other, because the two models share no locations (`JointsDiffer`). `WordsContinued` and
  `WordsEmbedded` then compare words of bounded length, by the last length up to which they agree (`UpTo`). That words compared at one
  bound may be cut at a smaller one is `WordsByLength`.
* Of an interruption less is said: whatever `sync()` looks up and redirects, its result is `Good`, that is, sound, with
  labels of the two models or joined ones, and with actions of the two models (`InterruptionShape`). An internal action of the second model can
  only come from its own transitions (`TakenOver`).
* The inductive invariant `IInv` says that `result` is one of the outcomes of the last call on sound arguments (`LastCall`), and, if it is
  a model, sound with labels of `LabelsAfter[calls]`; without the last part the next composition could meet
  a label that cannot be joined. The four theorems are what this says of each operator.

**Test generation.** `TypeCorrect` and `TwoVisits` are about `SymbolicExecution!Spec`, for all products, any zones, and
solvers that answer anything. The inductive invariant is the type invariant (the chain of parents of a state is that of its
parent and itself), the bound (no path visits a location more than twice), that `zset` is a sequence, and that nothing
is current before the first state. The texts play no part. That a new state keeps the bound needs the chain of
the state it extends to lie in the tree as it was, so that appending moves none of its visits. The facade implements the walk
(`ImplementsWalk`), hence the bound holds in a whole call (`TwoVisitsInCall`); selection and
transformation never see the tree of an execution that threw, and no other step changes that tree
(`SelectedFromComplete`). The assumptions are `ZoneAssumption`, `ProductsAssumption`, `SilentAssumption`, `ValueAssumption` (there is a value), and `TextsAssumption` (the texts of
a product are what the parser builds, without parentheses, products and NOT, and the parameters of a transition are declared).
Seven more invariants are about what the facade builds from the tree.

* `SInv` gives `GenerationTyped`. A test tree is `Structured`: first the path, each state the child of the one before, then
  leaves that hang on it before its end. Hence the first child of a state of the path is its next state (`AlongPath`), the
  round of `forwardTraversal` moves along the path, and the walk ends at the accepting state.
* `XInv` gives `Exploration`: every state is queued once or has been tried (`Queued`), the children of a state are due
  to transitions that have been tried, each to one that the solvers and the bound let through, and if no run has been
  silent, each of those has led to a child (`Explored`). What a transition makes of a state depends on the attributes of the
  state only (`NextContent`), and whether it is cut on these and the locations on its path (`Taken`).
* `TInv` gives `TreesAreComplete`. `forwardTraversal` looks its next state up by value and may end up in another
  state than that of the path. The invariant says that the two are `Twins`: they have equal attributes, and paths with the
  same locations. By `Exploration` whatever can follow the one can follow the other (`TwinChild`), so that the look-up never
  fails, the two stay twins, and the inputs found beside one are those beside the other (`RoundKeeps`). A silent run breaks
  exactly this, which is why the property has that premise.
* `NInv` (`NamesRead`) gives `OnlyForNames`: with names in scope no text is ever looked up in vain. It says (`Fresh`) of every
  state that each parameter of its transition has its newest symbol in the mapping, that no text has a symbol
  with a newer index than the mapping counts, and that the texts are well formed; that is what makes the index of the next symbol
  a number and each name of a text replaceable.
* `NInv` with `XInv` gives `StepsAreExact`: the property presupposes names in scope and declared, since otherwise `Fresh` fails. A sum is a fold, of which
  the lemmas `FoldExists` and `FoldSteps` say that it is what the rounds of its loop make (`Total`); hence sums of joined texts
  add up (`SumOfBoth`), a text means after substitution what it meant in the state the symbolic values stand for (`UpdatedSum`,
  `GuardMeans`, `AssignedMeans`), and the symbols that are read are newer than all others (`ReadAreNew`). `NewestStep` says
  which transition made the newest state of which.
* `BInv` (`BranchesPlaced`), with these, gives `BranchesAreExact`. It says (`Placed`) that the children of the current state are those
  transitions among the ones that have been tried that are let through, in their order; the order is not in `XInv`. That a transition is let
  through exactly if the model can take it (`TakenAsInModel`) follows from `StepMeans`, since a text speaks of its own
  symbols only (`SameSum`, `AskedOnly`): what the solver finds for the symbols of a path condition gives a state and values to read,
  and the other way round, because the symbols that are read are new and differ. `MappedInOrder` then compares the two lists.
* `DInv` gives `CasesAreFaithful`. Of the case that is being translated it says (`Translated`) that there is a set of
  states that have been left, that with the queue these are the states that have been met, and that the case has exactly
  the transitions into them (`Drawn`); a state whose parent has been left has been met. The set is not a variable of
  the code. With the queue empty it is the whole tree, for the least state missing would hang on one that has been
  left (`AllLeft`). The first transition out of the initial location is that into the second state of the path (`First`)
  from the first round on, and later ones come behind it, also where the path comes back to that location.

Induction over data is not available, since the library's induction theorems take an operator. Two ways
round it are used: definitions without iteration, where a loop has a closed form (`CreateInOrder`, `ClonedFrom`,
`LastOfKeys`), and an extreme element, which needs only that a set of positions that is not empty has a
last element (`HasLast`; `IterationStays` is the form of it for loops).

Checked by TLC only:

* liveness (`CallEnds`, `EndsOnDistinctKeys`, `GenerationEnds`), out of the prover's reach as is ENABLED;
* of `Compositions`: `InterruptionFaithful`, which speaks of the words of a model whose transitions `sync()` redirects as it
  looks them up, so that the result has no closed form (`InterruptionShape` bounds it);
* that the properties of the five violation runs fail, which is a counterexample each.


## 5. Not modelled

* `CopyOfSequentialComposition`: no class calls it.
* The compiler: the parser is generated by JavaCC; `Builder` has no state of its own, and decides which
  models reach the rest (one initial transition, a shared list of clocks, "tau" by default).
* `util` and what the facade and the mains do with results: files and drawings.
* CVC4, CVC3 and the UPPAAL DBM library: third-party programs that run as other processes. Their
  sources are most of the repository by volume (all of its C++); the program's own logic is the Java
  package named above, so the share of the repository these modules stand for is small by lines.
* The files between the program and the solvers, which all calls share: a write that fails lets a
  solver read what an earlier call left.
* Action parameters outside the symbolic execution, and the declarations a test case gets for its
  symbolic variables.
* `isCompatible` of the compositions as a step: its call is commented out. It is a predicate here.

## 6. Plan

1. Labels that contain the separator "_", of which two pairs can become one location.
2. The declarations of test cases in `TestTreeTransformation`.
3. Theorems: what `sync()` makes of models that satisfy the premises of `InterruptionFaithful`.
