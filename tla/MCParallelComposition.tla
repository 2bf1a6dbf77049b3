------------------------ MODULE MCParallelComposition ------------------------
(***************************************************************************)
(* Small pairs of models for ParallelComposition.  Every model has an      *)
(* initial location and two others; the first receives x and sends u, the  *)
(* second sends x and moves silently on v, both receive z.                 *)
(***************************************************************************)
EXTENDS ParallelComposition

I == <<"I">>   A == <<"A">>   B == <<"B">>   \* locations of the first model
J == <<"J">>   C == <<"C">>   D == <<"D">>   \* locations of the second

init1 == <<"init1">>
init2 == <<"init2">>

MCName  == {<<"x">>, <<"u">>, <<"v">>, <<"z">>, init1, init2, Join(init1, init2)}
MCLabel == {I, A, B, J, C, D} \cup {Join(l, m) : l \in {I, A, B}, m \in {J, C, D}}

Edge(s, name, ty, g, d, t) ==
    [source |-> s, dataGuard |-> g, clockGuard |-> {},
     action |-> [name |-> name, type |-> ty], assignments |-> {},
     deadline |-> d, target |-> t]

\* An inner edge of each kind.
x1(s, t) == Edge(s, <<"x">>, ACTION_INPUT, {}, DEADLINE_LAZY, t)
u1(s, t) == Edge(s, <<"u">>, ACTION_OUTPUT, {"g"}, DEADLINE_DELAYABLE, t)
z(s, t)  == Edge(s, <<"z">>, ACTION_INPUT, {}, DEADLINE_LAZY, t)
x2(s, t) == Edge(s, <<"x">>, ACTION_OUTPUT, {"h"}, DEADLINE_EAGER, t)
v2(s, t) == Edge(s, <<"v">>, ACTION_INTERNAL, {}, DEADLINE_LAZY, t)

Build(init, initName, updates, first, second, ins, outs, ints, listA, listB) ==
    LET t == [Edge(init, initName, ACTION_INTERNAL, {}, DEADLINE_LAZY, first)
                EXCEPT !.assignments = updates]
        lists == [l \in MCLabel |-> CASE l = init   -> <<t>>
                                      [] l = first  -> listA
                                      [] l = second -> listB
                                      [] OTHER      -> <<>>]
        all == {t} \cup Range(listA) \cup Range(listB)
    IN  [EmptyTIOSTS EXCEPT
            !.locations = {init, first, second}, !.initialLocation = init,
            !.inputActions = ins, !.outputActions = outs,
            !.internalActions = ints, !.out = lists,
            !.transitions = {CHOOSE v \in all : Key(v) = k : k \in {Key(v) : v \in all}}]

First(listA, listB) ==
    Build(I, init1, {}, A, B, {<<"x">>, <<"z">>}, {<<"u">>}, {init1}, listA, listB)

SecondWith(updates, listC, listD) ==
    Build(J, init2, updates, C, D, {<<"z">>}, {<<"x">>}, {init2, <<"v">>}, listC, listD)

Second(listC, listD) == SecondWith({}, listC, listD)

\* Locations without outgoing transitions, choices, loops and cycles.
AnyFirst ==
    {First(a, b) : a \in {<<>>, <<x1(A, B)>>, <<u1(A, B), x1(A, A)>>, <<x1(A, A), x1(A, B)>>},
                   b \in {<<>>, <<u1(B, A)>>, <<x1(B, A), z(B, B)>>}}
AnySecond ==
    {Second(c, d) : c \in {<<>>, <<x2(C, D)>>, <<x2(C, D), v2(C, D)>>},
                    d \in {<<>>, <<x2(D, C), z(D, C)>>, <<v2(D, D)>>}}

\* Models whose initial action comes again: it is used twice, or the initial
\* location is entered; one that receives what it sends.
Reusing == First(<<u1(A, B), Edge(A, init1, ACTION_INTERNAL, {}, DEADLINE_LAZY, B)>>, <<>>)
Returning == First(<<u1(A, I)>>, <<>>)
Echoing ==
    Build(J, init2, {}, C, D, {<<"v">>}, {<<"v">>}, {init2},
          <<Edge(C, <<"v">>, ACTION_INPUT, {}, DEADLINE_LAZY, D)>>, <<>>)

\* Every location has an outgoing transition, and nothing else is special.
LivePairs ==
    {First(a, b) : a \in {<<u1(A, B), x1(A, A)>>, <<x1(A, A), x1(A, B)>>, <<z(A, B), u1(A, A)>>},
                   b \in {<<u1(B, A)>>, <<x1(B, A), z(B, B)>>}}
    \X
    {Second(<<v2(C, D), x2(C, C)>>, <<x2(D, C), z(D, C)>>)}

ASSUME LivePairsAssumption == \A p \in LivePairs : Faithful(p)

\* A reusing model also with one that has the same locations; a second model
\* that initialises a variable.
AnyPairs ==
    (AnyFirst \X AnySecond)
        \cup LivePairs
        \cup {<<Reusing, Second(<<x2(C, D)>>, <<v2(D, D)>>)>>,
              <<Reusing, First(<<x1(A, B)>>, <<u1(B, A)>>)>>,
              <<Returning, Second(<<v2(C, D)>>, <<v2(D, D)>>)>>,
              <<First(<<x1(A, B)>>, <<>>), Echoing>>,
              <<First(<<x1(A, B)>>, <<u1(B, A)>>),
                SecondWith({"w := 0"}, <<x2(C, D)>>, <<v2(D, C)>>)>>}

\* The first model can send u for ever, the second stops after it sent x.
DeadEndPairs ==
    {<<First(<<x1(A, B)>>, <<u1(B, A)>>), Second(<<x2(C, D)>>, <<>>)>>}

\* One pair, composed twice by the same singleton.
OnePair ==
    {<<First(<<x1(A, B), u1(A, A)>>, <<u1(B, A)>>), Second(<<x2(C, D)>>, <<v2(D, C)>>)>>}
=============================================================================
