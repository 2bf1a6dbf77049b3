--------------------------- MODULE MCTestGeneration ---------------------------
(***************************************************************************)
(* Synchronous products for TLC.  Each stands for one thing the generation *)
(* of test cases has to cope with.                                         *)
(***************************************************************************)
EXTENDS TestGeneration

MCIdentifier == {"x", "y", "z", "p", "a_b"}
MCSeparated == {"a_b"}
MCValue == 0..2
MCAcceptWords == {"Accept", "AcceptCall"}

\* One clock; 3 stands for every time after 2.  A zone is the set of the
\* values the clock can have; the program lets time pass, applies the guard
\* and resets the clock.
Times == 0..3
MCZone == SUBSET Times
MCInitialZone == {0}
MCNoZone == {}
MCIsEmpty(zone) == zone = {}
MCNextZone(zone, guard, resets) ==
    LET passed == {w \in guard : \E u \in zone : u <= w}
    IN  IF resets # {} /\ passed # {} THEN {0} ELSE passed

-----------------------------------------------------------------------------
x == <<Named("x")>>
y == <<Named("y")>>
z == <<Named("z")>>
p == <<Named("p")>>
n(k) == <<Number(k)>>
Is(e, relation, f) == [left |-> e, relation |-> relation, right |-> f]
One(c) == << <<c>> >>
Set(name, e) == [variable |-> name, value |-> e]

Move(action, type, params, guard, assignments, target) ==
    [action |-> action, type |-> type, params |-> params, dataGuard |-> guard,
     assignments |-> assignments, clockGuard |-> Times, resets |-> {},
     deadline |-> 0, target |-> target]
Timed(t, guard, resets) == [t EXCEPT !.clockGuard = guard, !.resets = resets]
In(action, params, guard, assignments, target) == Move(action, 1, params, guard, assignments, target)
Out(action, guard, target) == Move(action, -1, <<>>, guard, <<>>, target)
Begin(assignments) == Move("init", 0, <<>>, GUARD_TRUE, assignments, <<"q1">>)

Q0 == <<"q0">>
Q1 == <<"q1">>
Q2 == <<"q2">>
Pass == <<"q2", "Accept">>
Fail == <<"q2", "Reject">>
Call == <<"AcceptCall">>
MCLabel == {Q0, Q1, Q2, Pass, Fail, Call}

\* The products start in q0, or where their lists start.
From(initial, names, f) ==
    [initialLocation |-> initial, names |-> names,
     out |-> [l \in MCLabel |-> IF l \in DOMAIN f THEN f[l] ELSE <<>>]]
Product(names, init, q1, q2) ==
    From(Q0, names, [l \in {Q0, Q1, Q2} |->
        CASE l = Q0 -> <<Begin(init)>> [] l = Q1 -> q1 [] OTHER -> q2])

\* A parameter is read again and again, stored, and compared with what was
\* stored before.
Repeated == Product({"x", "p"}, <<Set("x", n(1))>>,
    <<In("a", <<"p">>, One(Is(p, ">=", x)), <<Set("x", p)>>, Q1),
      Out("b", One(Is(x, "=", n(2))), Pass),
      Out("b", One(Is(x, "<>", n(2))), Fail)>>, <<>>)

\* A variable is read as a parameter, and two assignments depend on each other.
Stored == Product({"x", "y", "z"}, <<Set("y", n(0))>>,
    <<In("a", <<"x">>, One(Is(x, ">=", y)), <<Set("y", x \o n(1)), Set("z", y)>>, Q2)>>,
    <<Out("b", One(Is(z, "=", n(2))), Pass), In("c", <<>>, GUARD_TRUE, <<>>, Q1)>>)

\* Two states with one location, in which different inputs are possible.
Branched == Product({"p"}, <<>>,
    <<In("a", <<"p">>, One(Is(p, "=", n(0))), <<>>, Q2),
      In("a", <<"p">>, One(Is(p, "=", n(1))), <<>>, Q2)>>,
    <<In("d", <<>>, One(Is(p, "=", n(0))), <<>>, Fail),
      In("e", <<>>, One(Is(p, "=", n(1))), <<>>, Fail),
      In("c", <<>>, GUARD_TRUE, <<>>, Pass)>>)

\* Inputs that lead to equal states, and inputs with the same action.
Inputs == Product({"p"}, <<>>,
    <<In("a", <<>>, GUARD_TRUE, <<>>, Q2), In("c", <<>>, GUARD_TRUE, <<>>, Q2),
      In("a", <<>>, GUARD_TRUE, <<>>, Fail)>>,
    <<In("d", <<"p">>, One(Is(p, "=", n(1))), <<>>, Pass),
      In("d", <<"p">>, One(Is(p, "<>", n(1))), <<>>, Pass),
      In("d", <<"p">>, One(Is(p, ">", n(1))), <<>>, Fail),
      Out("b", GUARD_TRUE, Q0)>>)

\* Deadlines of a clock: one is missed, one is met after a reset.
Clocked == Product({"x"}, <<>>,
    <<Timed(In("a", <<>>, GUARD_TRUE, <<>>, Q2), {2, 3}, {}),
      Timed(In("c", <<>>, GUARD_TRUE, <<>>, Q2), {2, 3}, {"t"})>>,
    <<Timed(Out("b", GUARD_TRUE, Pass), {0, 1}, {}), Out("e", GUARD_TRUE, Q1)>>)

\* A location of the specification is called AcceptCall.
Called == From(Q0, {"x"}, [l \in {Q0, Call, Q1} |->
    CASE l = Q0 -> <<In("a", <<>>, GUARD_TRUE, <<>>, Call), In("c", <<>>, GUARD_TRUE, <<>>, Fail)>>
      [] l = Call -> <<Out("b", GUARD_TRUE, Q0), Out("e", GUARD_TRUE, Pass)>>
      [] OTHER -> <<>>])

\* The root accepts.
AtOnce == From(Call, {"x"}, [l \in {Call} |-> <<Out("b", GUARD_TRUE, Q1)>>])

\* The separator in the name of a parameter, and of a variable.
BadParameter == Product({"a_b"}, <<>>,
    <<In("a", <<"a_b">>, GUARD_TRUE, <<>>, Pass)>>, <<>>)
BadVariable == Product({"a_b"}, <<>>,
    <<Out("b", One(Is(<<Named("a_b")>>, "=", n(1))), Pass)>>, <<>>)

\* A parameter is assigned to, and read again.
Counted(e) == Product({"p"}, <<>>,
    <<In("a", <<"p">>, GUARD_TRUE, <<Set("p", e)>>, Q2)>>,
    <<In("d", <<"p">>, GUARD_TRUE, <<>>, Pass)>>)

\* A parameter gets the value of a variable: when it is read again, its new
\* symbol is one the variable can get too, or has.
Aliased == Product({"x", "p"}, <<Set("p", x)>>,
    <<In("a", <<"p">>, One(Is(p, "=", n(1))), <<Set("p", x)>>, Q2)>>,
    <<In("d", <<"p">>, One(Is(p, "=", n(2))), <<>>, Pass),
      In("e", <<"p", "x">>, GUARD_TRUE, <<>>, Pass)>>)

\* Guards with OR, and a name with a minus before it.
Either == Product({"x", "p"}, <<Set("x", n(1))>>,
    <<In("a", <<"p">>, << <<Is(p, "=", n(0))>>, <<Is(p, "=", n(1))>> >>, <<>>, Q2)>>,
    <<Out("b", One(Is(x, "=", p)), Pass)>>)
Less == Product({"x", "y"}, <<Set("y", x \o <<Minus(Number(1))>>)>>,
    <<Out("b", One(Is(n(2) \o <<Minus(Named("y"))>>, "=", n(1))), Pass)>>, <<>>)

MCProducts ==
    {Repeated, Stored, Branched, Inputs, Clocked, Called, AtOnce, BadParameter,
     BadVariable, Counted(n(1)), Counted(p \o n(1)), Aliased, Either, Less}
=============================================================================
