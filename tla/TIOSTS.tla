------------------------------- MODULE TIOSTS -------------------------------
(***************************************************************************)
(* The data of a Timed Input-Output Symbolic Transition System and the     *)
(* mutators of br.edu.ufcg.symbolrt.base.TIOSTS, as operators on values.   *)
(*                                                                         *)
(* A TIOSTS object is a record.  Its lists of actions, variables and       *)
(* clocks keep their names only; the HashMap of transitions, whose keys    *)
(* are functions of their values, is the set of its values; the lists of   *)
(* outgoing transitions of the Location objects are one function from      *)
(* labels to sequences.  The incoming lists hold the same transitions,     *)
(* appended by the same call, and are not kept a second time.              *)
(*                                                                         *)
(* A data guard is the set of its conjuncts ({} is TRUE), a clock guard    *)
(* the set of its simple constraints, and the two assignment strings of a  *)
(* transition are one set of updates.                                      *)
(***************************************************************************)
EXTENDS Integers, Sequences, FiniteSets, SequencesExt

CONSTANTS Label,      \* the labels a location can have
          Name,       \* the names an action can have
          Atom,       \* the conjuncts of data guards
          Clock,      \* the clock names
          Variable,   \* the variable names
          Update      \* the single assignments

ACTION_INPUT    == 1
ACTION_INTERNAL == 0
ACTION_OUTPUT   == -1
ActionType      == {ACTION_INPUT, ACTION_INTERNAL, ACTION_OUTPUT}

\* Deadlines, in increasing order of urgency.
DEADLINE_LAZY      == 0
DEADLINE_DELAYABLE == 1
DEADLINE_EAGER     == 2
Deadline           == {DEADLINE_LAZY, DEADLINE_DELAYABLE, DEADLINE_EAGER}

Relation == {"<", "<=", "=", ">=", ">"}

Action == [name : Name, type : ActionType]

\* A constraint "clock relation k": id is the clock's index in the DBM, and
\* the constant k, which nothing here computes with, is abstracted away.
SimpleClockGuard == [clock : Clock, relation : Relation, id : Nat]

Transition ==
    [source : Label, dataGuard : SUBSET Atom, clockGuard : SUBSET SimpleClockGuard,
     action : Action, assignments : SUBSET Update, deadline : Deadline,
     target : Label]

\* What the initial location is before setInitialLocation is called.
NoLabel == <<>>

Model ==
    [locations : SUBSET Label, initialLocation : Label \cup {NoLabel},
     initialCondition : SUBSET Atom, variables : SUBSET Variable,
     clocks : Seq(Clock), inputActions : SUBSET Name,
     outputActions : SUBSET Name, internalActions : SUBSET Name,
     out : [Label -> Seq(Transition)], transitions : SUBSET Transition]

EmptyTIOSTS ==
    [locations |-> {}, initialLocation |-> NoLabel, initialCondition |-> {},
     variables |-> {}, clocks |-> <<>>, inputActions |-> {},
     outputActions |-> {}, internalActions |-> {},
     out |-> [l \in Label |-> <<>>], transitions |-> {}]

-----------------------------------------------------------------------------
(* Actions of a TIOSTS.                                                    *)

ActionNames(m) == m.inputActions \cup m.outputActions \cup m.internalActions

\* The list recoverAction and clone search for an action of type ty.
NamesOfType(m, ty) ==
    IF ty = ACTION_INPUT THEN m.inputActions
    ELSE IF ty = ACTION_OUTPUT THEN m.outputActions
    ELSE m.internalActions

\* list.get(list.indexOf(action)) throws exactly when this is false.
Recoverable(m, a) == a.name \in NamesOfType(m, a.type)

AddAction(m, a) ==
    CASE a.type = ACTION_INPUT  -> [m EXCEPT !.inputActions = @ \cup {a.name}]
      [] a.type = ACTION_OUTPUT -> [m EXCEPT !.outputActions = @ \cup {a.name}]
      [] OTHER                  -> [m EXCEPT !.internalActions = @ \cup {a.name}]

-----------------------------------------------------------------------------
(* Locations and transitions.                                              *)

\* A location whose label is already there is refused: its lists stay.
AddLocation(m, l) == [m EXCEPT !.locations = @ \cup {l}]

SetInitialLocation(m, l) == [m EXCEPT !.initialLocation = l]

\* Transition.setKey: the guards are not part of the key.
Key(t) == <<t.source, t.action.name, t.target>>

\* Mutants: the first value of a key stays; the action is left out of the key.
Put_IfAbsent(map, t) ==
    IF \E u \in map : Key(u) = Key(t) THEN map ELSE map \cup {t}

Put_ByEndpoints(map, t) ==
    {u \in map : <<u.source, u.target>> # <<t.source, t.target>>} \cup {t}

\* transitions.put(t.getKey(), t)
Put(map, t) == {u \in map : Key(u) # Key(t)} \cup {t}

\* What the map holds after put() for the elements of s, one after the
\* other: the last one of every key.
LastOfKeys(s) ==
    {s[i] : i \in {j \in DOMAIN s : \A k \in DOMAIN s : Key(s[k]) = Key(s[j]) => k <= j}}

CreateTransition(m, t) ==
    [m EXCEPT !.initialCondition = IF m.initialLocation = t.source
                                   THEN t.dataGuard ELSE @,
              !.out[t.source]    = Append(@, t),
              !.transitions      = Put(@, t)]

DefaultDeadline(a) ==
    IF a.type = ACTION_OUTPUT THEN DEADLINE_DELAYABLE ELSE DEADLINE_LAZY

-----------------------------------------------------------------------------
(* Clock guards.                                                           *)

\* Mutant: the index without the increment.
ClockId_IndexOf(clocks, c) ==
    IF \E i \in DOMAIN clocks : clocks[i] = c
    THEN Cardinality({i \in DOMAIN clocks : \A j \in 1..i : clocks[j] # c})
    ELSE -1

\* clocks.indexOf(c) + 1: one more than the positions before the first
\* occurrence, 0 for a clock that is absent.
ClockId(clocks, c) ==
    IF \E i \in DOMAIN clocks : clocks[i] = c
    THEN Cardinality({i \in DOMAIN clocks : \A j \in 1..i : clocks[j] # c}) + 1
    ELSE 0

\* new ClockGuard(text, clocks): the ids come from the list of clocks, which
\* is why printing a guard and parsing the text again can change them.
ParseClockGuard(guard, clocks) ==
    {[g EXCEPT !.id = ClockId(clocks, g.clock)] : g \in guard}

-----------------------------------------------------------------------------
(* clone().                                                                *)

\* Mutant: the ClockGuard object is passed on.
Reparsed_SameGuard(m, t) == t

\* The transition clone() creates from t: its guard is printed and parsed.
Reparsed(m, t) == [t EXCEPT !.clockGuard = ParseClockGuard(@, m.clocks)]

\* Mutant: the list of the location is iterated instead of the map.
ClonedFrom_List(m, l) == {Reparsed(m, t) : t \in Range(m.out[l])}

ClonedFrom(m, l) ==
    {Reparsed(m, t) : t \in {u \in m.transitions : u.source = l}}

\* The HashMap is iterated in an order nobody chose: every order of the
\* transitions of each location is possible.
CloneLists(m) ==
    {f \in [m.locations -> UNION {SetToSeqs(ClonedFrom(m, l)) : l \in m.locations}] :
        \A l \in m.locations : f[l] \in SetToSeqs(ClonedFrom(m, l))}

\* createTransition on the clone rewrites the initial condition for every
\* transition that leaves the initial location: the last one decides.
ClonedCondition(m, lists) ==
    IF m.initialLocation \in m.locations /\ lists[m.initialLocation] # <<>>
    THEN lists[m.initialLocation][Len(lists[m.initialLocation])].dataGuard
    ELSE m.initialCondition

CloneWith(m, lists) ==
    [m EXCEPT !.initialCondition = ClonedCondition(m, lists),
              !.out = [l \in Label |-> IF l \in m.locations THEN lists[l] ELSE <<>>],
              !.transitions = {Reparsed(m, t) : t \in @}]

Clones(m) == {CloneWith(m, lists) : lists \in CloneLists(m)}

\* clone() throws an IndexOutOfBoundsException when this is false.
Cloneable(m) == \A t \in m.transitions : Recoverable(m, t.action)

-----------------------------------------------------------------------------
(* What callers may rely on.                                               *)

OutTransitions(m) == UNION {Range(m.out[l]) : l \in m.locations}

\* No two transitions in the lists of m share a key.
DistinctKeys(m) ==
    \A l \in m.locations : \A i, j \in DOMAIN m.out[l] :
        Key(m.out[l][i]) = Key(m.out[l][j]) => i = j

\* The shape the compiler produces: one transition leaves the initial
\* location, and the endpoints and actions of every transition are declared.
WellFormed(m) ==
    /\ m \in Model
    /\ m.initialLocation \in m.locations
    /\ Len(m.out[m.initialLocation]) = 1
    /\ IsFiniteSet(m.transitions)
    /\ \A t, u \in m.transitions : Key(t) = Key(u) => t = u
    /\ m.transitions \subseteq OutTransitions(m)
    /\ \A t \in OutTransitions(m) : \E u \in m.transitions : Key(u) = Key(t)
    /\ \A l \in m.locations : \A i \in DOMAIN m.out[l] :
          m.out[l][i].source = l /\ m.out[l][i].target \in m.locations
    /\ \A t \in OutTransitions(m) : Recoverable(m, t.action)
=============================================================================
