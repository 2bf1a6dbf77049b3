----------------------------- MODULE MCCompletion -----------------------------
(***************************************************************************)
(* Test purposes for Completion: one location P after the initial one, and *)
(* Accept and Reject, with up to two transitions from P.                   *)
(***************************************************************************)
EXTENDS Completion

P0 == <<"P0">>
P  == <<"P">>

MCNot(g) == CASE g = {} -> "not TRUE" [] g = {"g"} -> "not g" [] g = {"h"} -> "not h"
              [] g = {"g", "h"} -> "not both" [] OTHER -> "not other"

Edge(s, name, ty, g, cs, d, t) ==
    [source |-> s, dataGuard |-> g, clockGuard |-> cs,
     action |-> [name |-> name, type |-> ty], assignments |-> {},
     deadline |-> d, target |-> t]

a(s, g, t) == Edge(s, "a", ACTION_INPUT, g[1], g[2], DEADLINE_LAZY, t)
b(s, g, t) == Edge(s, "b", ACTION_OUTPUT, g[1], g[2], DEADLINE_EAGER, t)

\* A test purpose is compiled without clocks: the ids are 0.
c(r) == [clock |-> "c", relation |-> r, id |-> 0]

\* Data guard and clock guard.
Guards == {<<{}, {}>>, <<{"g"}, {}>>, <<{"h"}, {}>>, <<{}, {c("<=")}>>,
           <<{}, {c("=")}>>, <<{}, {c(">="), c("<")}>>, <<{"g"}, {c(">")}>>}

Edges == {a(P, g, t) : g \in Guards, t \in {P, Accept, Reject}}
            \cup {b(P, g, t) : g \in Guards, t \in {P, Accept}}

\* Accept may have transitions too.
Build(listP, listA) ==
    LET i == Edge(P0, "init", ACTION_INTERNAL, {}, {}, DEADLINE_LAZY, P)
        f == [l \in Label |-> CASE l = P0 -> <<i>> [] l = P -> listP
                                [] l = Accept -> listA [] OTHER -> <<>>]
        all == UNION {Range(f[l]) : l \in Label}
    IN  [EmptyTIOSTS EXCEPT
            !.locations = {P0, P, Accept} \cup {t.target : t \in all},
            !.initialLocation = P0,
            !.inputActions = {"a"}, !.outputActions = {"b"}, !.internalActions = {"init"},
            !.out = f,
            !.transitions = {CHOOSE t \in all : Key(t) = k : k \in {Key(u) : u \in all}}]

MCLabel == {P0, P, Accept, Reject}

MCTestPurposes ==
    {Build(s, <<>>) : s \in {<<>>} \cup [1..1 -> Edges] \cup [1..2 -> Edges]}
        \cup {Build(<<e>>, <<a(Accept, <<{"g"}, {}>>, Accept)>>) : e \in Edges}
        \cup {[Build(<<e>>, <<>>) EXCEPT !.inputActions = {"a", "b"}] : e \in Edges}
=============================================================================
