--------------------------- MODULE InputCompletion ---------------------------
(***************************************************************************)
(* compositions/InputCompletion.java: a model is completed so that every   *)
(* location accepts every input; what it did not specify leads to DontCare,*)
(* where every action is possible for ever.  The steps are those of        *)
(* Completion.java, with another scope and another negation.               *)
(***************************************************************************)
EXTENDS GuardNegation

CONSTANT Models  \* the models callers complete

DontCare == <<"DontCare">>

ASSUME ModelsAssumption ==
    DontCare \in Label /\ \A m \in Models : WellFormed(m) /\ Parsed(m)

VARIABLES tiosts,    \* the argument of the call
          complete,  \* its completed clone
          pending,   \* the locations the loop has yet to visit
          todo,      \* the rest of the copied outgoing transitions
          status

vars == <<tiosts, complete, pending, todo, status>>

Status == {"called", "completing", "returned", "thrown"}

Init ==
    /\ tiosts \in Models
    /\ complete = EmptyTIOSTS
    /\ pending = {}
    /\ todo = <<>>
    /\ status = "called"

-----------------------------------------------------------------------------
\* Every transition this class creates is lazy.
Lazy == [a \in Action |-> DEADLINE_LAZY]

\* The self loops of DontCare, which are created even if it was there.
Chaos(m) ==
    Unguarded(DontCare, ActionsOfType(m, {ACTION_INPUT, ACTION_OUTPUT}), Lazy, DontCare)

\* complete() up to the loop over the locations.
Start ==
    /\ status = "called"
    /\ \E c \in Clones(tiosts) :
           LET m == AddLocation(c, DontCare)
           IN  complete' \in CreateAll(m, DontCare, Chaos(m))
    /\ pending' = complete'.locations
    /\ status' = "completing"
    /\ UNCHANGED <<tiosts, todo>>

\* Every input that does not leave l leads to DontCare.
Missing(l) == Unguarded(l, AbsentActions(complete, l, {ACTION_INPUT}), Lazy, DontCare)

\* The loop comes to l.
Visit(l) ==
    /\ status = "completing" /\ todo = <<>>
    /\ l \in pending
    /\ pending' = pending \ {l}
    /\ IF l # complete.initialLocation
       THEN /\ complete' \in CreateAll(complete, l, Missing(l))
            /\ todo' = complete'.out[l]
       ELSE UNCHANGED <<complete, todo>>
    /\ UNCHANGED <<tiosts, status>>

\* Mutant: the negations are computed and not used.
Negation_Unused(t) ==
    [t EXCEPT !.dataGuard   = {},
              !.clockGuard  = {},
              !.assignments = {},
              !.deadline    = DEADLINE_LAZY,
              !.target      = DontCare]

\* Both guards are negated, and their negations joined.  The branch for
\* transitions without a clock guard compares it with "FALSE", which no
\* ClockGuard is printed as.
Negation(t) ==
    [t EXCEPT !.dataGuard   = {Not(@)},
              !.clockGuard  = ParseClockGuard(negateClockGuard(@), complete.clocks),
              !.assignments = {},
              !.deadline    = DEADLINE_LAZY,
              !.target      = DontCare]

\* Mutant: only the data guard is looked at.
Negated_DataGuard(t) == t.dataGuard # {} /\ t.action.type = ACTION_INPUT

Negated(t) == Guarded(t) /\ t.action.type = ACTION_INPUT

Negate ==
    /\ todo # <<>>
    /\ Negated(Head(todo)) /\ Negatable(Head(todo).clockGuard)
    /\ complete' = CreateTransition(complete, Negation(Head(todo)))
    /\ todo' = Tail(todo)
    /\ UNCHANGED <<tiosts, pending, status>>

Pass ==
    /\ todo # <<>>
    /\ ~Negated(Head(todo))
    /\ todo' = Tail(todo)
    /\ UNCHANGED <<tiosts, complete, pending, status>>

\* negateClockGuard throws; the exception reaches the caller.
Throw ==
    /\ todo # <<>>
    /\ Negated(Head(todo)) /\ ~Negatable(Head(todo).clockGuard)
    /\ todo' = <<>>
    /\ pending' = {}
    /\ status' = "thrown"
    /\ UNCHANGED <<tiosts, complete>>

Return ==
    /\ status = "completing" /\ todo = <<>> /\ pending = {}
    /\ status' = "returned"
    /\ UNCHANGED <<tiosts, complete, pending, todo>>

Next ==
    \/ Start
    \/ \E l \in pending : Visit(l)
    \/ Negate \/ Pass \/ Throw \/ Return

Spec == Init /\ [][Next]_vars

-----------------------------------------------------------------------------
(* Type invariant: what the locals of complete() can hold.                 *)
TypeOK ==
    /\ tiosts \in Model /\ complete \in Model
    /\ pending \subseteq complete.locations
    /\ todo \in Seq(Transition)
    /\ status \in Status

Accepting(m) == m.locations \ {m.initialLocation}

\* The inputs of l that no guard restricts.
Free(m, l) ==
    {n \in m.inputActions : \A t \in Range(m.out[l]) : t.action.name = n => ~Guarded(t)}

(* A call that returns has made every location accept, at every moment,    *)
(* every input that no guard restricts there: also the locations visited   *)
(* first, and DontCare itself.                                             *)
FreeInputsAccepted ==
    status = "returned" =>
        \A l \in Accepting(complete) : \A n \in Free(complete, l) :
            Covers(Range(complete.out[l]), n)

(* What is added for guarded inputs is never possible where the model has  *)
(* a move of its own: specified behaviour does not become "don't care".    *)
SpecifiedKept ==
    status = "returned" =>
        \A l \in Accepting(tiosts) \ {DontCare} :
        \A t \in {u \in Range(complete.out[l]) : u.target = DontCare} :
        \A u \in {w \in tiosts.transitions : w.source = l /\ w.target # DontCare} :
            (u.action.name = t.action.name
                /\ \A w \in tiosts.transitions :
                      (w.source = l /\ w.action.name = u.action.name) => w = u)
            => \A v \in Moments : ~(Enabled(t, v) /\ Enabled(u, v))

(* A call that returns has left no input outside the initial location with *)
(* a clock guard it does not support, several constraints or an equality:  *)
(* whatever the order of the locations, and however late it is looked at,  *)
(* such a guard stops the call.                                            *)
UnsupportedRefused ==
    status = "returned" =>
        \A t \in tiosts.transitions :
            (t.source # tiosts.initialLocation /\ t.action.type = ACTION_INPUT)
                => \A c, d \in t.clockGuard : c = d /\ c.relation # "="

(* "@throws ClockGuardException If there is one transition with an         *)
(* unsupported clock guard.": of a model in which, as the javadoc assumes, *)
(* one guard of each transition is TRUE, no other one makes a call throw.  *)
ThrownOnlyIfUnsupported ==
    status = "thrown" => \E t \in tiosts.transitions : ~Supported(t)
=============================================================================
