------------------------------ MODULE Completion ------------------------------
(***************************************************************************)
(* algorithms/Completion.java: a test purpose is completed so that every   *)
(* location reacts to every input and output, whatever the guards.  The    *)
(* locations are visited in the order of a HashMap; each adds transitions  *)
(* to its own list while a copy of the list is iterated.                   *)
(***************************************************************************)
EXTENDS GuardNegation

CONSTANT TestPurposes  \* the models callers complete

Accept == <<"Accept">>
Reject == <<"Reject">>

ASSUME TestPurposesAssumption ==
    Reject \in Label /\ \A m \in TestPurposes : WellFormed(m) /\ Parsed(m)

VARIABLES tiosts,    \* the argument of the call
          complete,  \* its completed clone
          pending,   \* the locations the loop has yet to visit
          todo,      \* the rest of the copied outgoing transitions
          status

vars == <<tiosts, complete, pending, todo, status>>

Status == {"called", "completing", "returned", "thrown"}

Init ==
    /\ tiosts \in TestPurposes
    /\ complete = EmptyTIOSTS
    /\ pending = {}
    /\ todo = <<>>
    /\ status = "called"

-----------------------------------------------------------------------------
\* complete() up to the loop over the locations.
Start ==
    /\ status = "called"
    /\ \E c \in Clones(tiosts) : complete' = AddLocation(c, Reject)
    /\ pending' = complete'.locations
    /\ status' = "completing"
    /\ UNCHANGED <<tiosts, todo>>

isSpecialLocation(l) == l \in {Accept, Reject}

Completed(l) == ~isSpecialLocation(l) /\ l # complete.initialLocation

\* Mutant: the actions of the outputs are not looked at.
Remaining_Inputs(l) == AbsentActions(complete, l, {ACTION_INPUT})

\* getRemainingActions(loc, getInputOutputActions())
Remaining(l) == AbsentActions(complete, l, {ACTION_INPUT, ACTION_OUTPUT})

Loops(l) == Unguarded(l, Remaining(l), [a \in Action |-> DefaultDeadline(a)], l)

\* The loop comes to l: a self loop for every action that does not leave it.
Visit(l) ==
    /\ status = "completing" /\ todo = <<>>
    /\ l \in pending
    /\ pending' = pending \ {l}
    /\ IF Completed(l)
       THEN /\ complete' \in CreateAll(complete, l, Loops(l))
            /\ todo' = complete'.out[l]
       ELSE UNCHANGED <<complete, todo>>
    /\ UNCHANGED <<tiosts, status>>

\* Mutant: the self loop of a rejecting transition is forgotten.
Negation_AlwaysReject(t) ==
    [t EXCEPT !.dataGuard   = IF t.clockGuard = {} THEN {Not(t.dataGuard)} ELSE {},
              !.clockGuard  = ParseClockGuard(negateClockGuard(@), complete.clocks),
              !.assignments = {},
              !.target      = Reject]

\* What is added for t.  When t has both guards the data guard is dropped.
Negation(t) ==
    [t EXCEPT !.dataGuard   = IF t.clockGuard = {} THEN {Not(t.dataGuard)} ELSE {},
              !.clockGuard  = ParseClockGuard(negateClockGuard(@), complete.clocks),
              !.assignments = {},
              !.target      = IF @ = Reject THEN t.source ELSE Reject]

\* Mutant: the constraints are not counted.
Refused_EqualOnly(t) == \E c \in t.clockGuard : c.relation = "="

\* negateClockGuard(t.getClockGuard()) is called and throws.
Refused(t) == t.clockGuard # {} /\ ~Negatable(t.clockGuard)

Negate ==
    /\ todo # <<>>
    /\ Guarded(Head(todo)) /\ ~Refused(Head(todo))
    /\ complete' = CreateTransition(complete, Negation(Head(todo)))
    /\ todo' = Tail(todo)
    /\ UNCHANGED <<tiosts, pending, status>>

\* A transition without guards needs no counterpart.
Pass ==
    /\ todo # <<>>
    /\ ~Guarded(Head(todo))
    /\ todo' = Tail(todo)
    /\ UNCHANGED <<tiosts, complete, pending, status>>

\* The ClockGuardException reaches the caller.
Throw ==
    /\ todo # <<>>
    /\ Guarded(Head(todo)) /\ Refused(Head(todo))
    /\ todo' = <<>>
    /\ pending' = {}
    /\ status' = "thrown"
    /\ UNCHANGED <<tiosts, complete>>

Return ==
    /\ status = "completing" /\ todo = <<>> /\ pending = {}
    /\ status' = "returned"
    /\ UNCHANGED <<tiosts, complete, pending, todo>>

Next ==
    \/ Start
    \/ \E l \in pending : Visit(l)
    \/ Negate \/ Pass \/ Throw \/ Return

Spec == Init /\ [][Next]_vars

-----------------------------------------------------------------------------
(* Type invariant: what the locals of complete() can hold.                 *)
TypeOK ==
    /\ tiosts \in Model /\ complete \in Model
    /\ pending \subseteq complete.locations
    /\ todo \in Seq(Transition)
    /\ status \in Status

\* The model keeps to what the javadoc of complete() assumes.
InScope(m) == \A t \in OutTransitions(m) : Supported(t)

\* No location has two transitions on one action.
OneWay(m) ==
    \A l \in m.locations : \A t, u \in Range(m.out[l]) :
        t.action.name = u.action.name => t = u

\* No action is both received and sent.
OneType(m) == m.inputActions \cap m.outputActions = {}

Observable(m) == m.inputActions \cup m.outputActions

(* complete() returns "A complete TIOSTS model": in the lists that the     *)
(* synchronous product reads, every location of the test purpose reacts to *)
(* every input and output at every moment, provided its guards are as the  *)
(* javadoc assumes.                                                        *)
ReturnedComplete ==
    (status = "returned" /\ InScope(tiosts)) =>
        \A l \in {k \in complete.locations : Completed(k)} :
        \A n \in Observable(complete) : Covers(Range(complete.out[l]), n)

(* The same holds of the map, from which a clone of the result is built,   *)
(* when the test purpose never offers an action twice: no negation has the *)
(* key of another transition.                                              *)
MapComplete ==
    (status = "returned" /\ InScope(tiosts) /\ OneWay(tiosts)) =>
        \A l \in {k \in complete.locations : Completed(k)} :
        \A n \in Observable(complete) :
            Covers({t \in complete.transitions : t.source = l}, n)

(* The added transitions are taken only where the test purpose had no      *)
(* move: what it accepts is not also rejected.  Two transitions on one     *)
(* action are negated one by one, and an absent action that is declared    *)
(* twice gets two loops, so it holds for one of each only.                 *)
ChoicePreserved ==
    (status = "returned" /\ InScope(tiosts) /\ OneWay(tiosts) /\ OneType(tiosts)) =>
        \A l \in complete.locations : \A i, j \in DOMAIN complete.out[l] :
            LET t == complete.out[l][i]
                u == complete.out[l][j]
            IN  (i # j /\ t.action.name = u.action.name)
                    => \A v \in Moments : ~(Enabled(t, v) /\ Enabled(u, v))

(* The exception is for "one transition with an unsupported clock guard":  *)
(* a call ends with it exactly when a location that is completed has one,  *)
(* in whatever order the locations are visited.                            *)
ThrownIffUnsupported ==
    LET bad == \E t \in tiosts.transitions :
                   /\ Completed(t.source)
                   /\ \/ \E c, d \in t.clockGuard : c # d
                      \/ \E c \in t.clockGuard : c.relation = "="
    IN  (status = "thrown" => bad) /\ (status = "returned" => ~bad)
=============================================================================
