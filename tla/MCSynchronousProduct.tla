------------------------ MODULE MCSynchronousProduct ------------------------
(***************************************************************************)
(* Specifications with two locations after the initial one and test        *)
(* purposes with one, Accept and Reject, for SynchronousProduct.           *)
(***************************************************************************)
EXTENDS SynchronousProduct

S0 == <<"S0">>  S == <<"S">>  T == <<"T">>   \* the specification
P0 == <<"P0">>  P == <<"P">>                 \* the test purpose

MCName  == {<<"init">>, <<"a">>, <<"b">>}
MCLabel == {S0, S, T, P0, P, Accept, Reject}
               \cup {Join(s, l) : s \in {S0, S, T}, l \in {P0, P, Accept, Reject}}

Edge(s, name, ty, g, cs, t) ==
    [source |-> s, dataGuard |-> g, clockGuard |-> cs,
     action |-> [name |-> name, type |-> ty], assignments |-> {},
     deadline |-> DEADLINE_LAZY, target |-> t]

a(s, g, cs, t) == Edge(s, <<"a">>, ACTION_INPUT, g, cs, t)
b(s, g, cs, t) == Edge(s, <<"b">>, ACTION_OUTPUT, g, cs, t)

\* The same move with other assignments and another deadline.
Updated(t) == [t EXCEPT !.assignments = {"x := 0"}, !.deadline = DEADLINE_EAGER]

Build(init, first, second, clocks, variables, lists) ==
    LET t == Edge(init, <<"init">>, ACTION_INTERNAL, {}, {}, first)
        f == [l \in MCLabel |-> IF l = init THEN <<t>>
                                ELSE IF l = first THEN lists[1]
                                ELSE IF l = second THEN lists[2] ELSE <<>>]
        all == UNION {Range(f[l]) : l \in MCLabel}
        keys == {Key(u) : u \in all}
    IN  [EmptyTIOSTS EXCEPT
            !.locations = {init, first, second} \cup {u.target : u \in all},
            !.initialLocation = init, !.variables = variables, !.clocks = clocks,
            !.inputActions = {<<"a">>}, !.outputActions = {<<"b">>},
            !.internalActions = {<<"init">>}, !.out = f,
            !.transitions = {CHOOSE u \in all : Key(u) = k : k \in keys}]

SpecOf(listS, listT) == Build(S0, S, T, <<"c", "d">>, {"v"}, <<listS, listT>>)
TpOf(variables, listP) == Build(P0, P, Accept, <<>>, variables, <<listP, <<>>>>)

\* The clocks of a source file are global and the compiler lists them in the
\* specification only: a test purpose parses its guards with no clocks at
\* all, and every id it gets is 0.
within == {[clock |-> "c", relation |-> "<=", id |-> 1]}
late   == {[clock |-> "d", relation |-> ">", id |-> 0]}

Specs ==
    {SpecOf(s, t) :
        s \in {<<a(S, {}, {}, T)>>, <<a(S, {"g"}, within, S), b(S, {}, {}, T)>>,
               <<b(S, {}, {}, S), a(S, {}, {}, S), a(S, {}, {}, T)>>,
               <<a(S, {"g"}, {}, T), a(S, {"h"}, {}, T)>>,
               <<a(S, {"g"}, {}, T), Updated(a(S, {"g"}, {}, T))>>},
        t \in {<<>>, <<b(T, {}, within, S)>>, <<b(T, {"g"}, {}, T), a(T, {}, {}, S)>>,
               <<b(T, {"g"}, {}, S), b(T, {"h"}, {}, S)>>}}

TestPurposes ==
    {TpOf({}, l) :
        l \in {<<>>, <<a(P, {}, {}, P), b(P, {}, {}, Accept)>>,
               <<a(P, {"h"}, {}, P), a(P, {"g"}, {}, Reject)>>,
               <<a(P, {}, late, P), b(P, {}, {}, Accept)>>,
               <<b(P, {"h"}, {}, Accept), b(P, {"g"}, {}, Reject), a(P, {}, {}, Reject)>>}}
    \cup {TpOf({"v"}, <<>>)}

\* A test purpose that gives its verdict at once.
Vacuous == Build(Accept, P, Reject, <<>>, {}, <<<<>>, <<>>>>)

\* A specification that is the result of a parallel composition: it has the
\* clocks of the first model, and guards with the ids the clocks had in the
\* second.  Its loop on a is found again only if the test purpose knows a.
stale == {[clock |-> "d", relation |-> "<=", id |-> 1]}
Composed ==
    Build(S0, S, T, <<"c">>, {"v"}, <<<<a(S, {}, stale, S), b(S, {}, within, T)>>, <<>>>>)

MCInstances == (Specs \cup {Composed}) \X (TestPurposes \cup {Vacuous})

\* A specification with two loops on one action, told apart by their guards.
LoopInstances ==
    {<<SpecOf(<<a(S, {"g"}, {}, S), a(S, {"h"}, {}, S)>>, <<>>), TpOf({}, <<>>)>>}
=============================================================================
