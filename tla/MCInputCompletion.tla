-------------------------- MODULE MCInputCompletion --------------------------
(***************************************************************************)
(* Models for InputCompletion: one location A after the initial one, with  *)
(* up to two transitions, and in some of them a location DontCare that the *)
(* author of the model wrote.                                              *)
(***************************************************************************)
EXTENDS InputCompletion

I == <<"I">>
A == <<"A">>

MCLabel == {I, A, DontCare}

MCNot(g) == CASE g = {} -> "not TRUE" [] g = {"g"} -> "not g" [] OTHER -> "not other"

Edge(s, name, ty, g, cs, t) ==
    [source |-> s, dataGuard |-> g, clockGuard |-> cs,
     action |-> [name |-> name, type |-> ty], assignments |-> {},
     deadline |-> DEADLINE_LAZY, target |-> t]

\* A specification is compiled with its clocks: c is the first.
c(r) == [clock |-> "c", relation |-> r, id |-> 1]

Guards == {<<{}, {}>>, <<{"g"}, {}>>, <<{}, {c("<=")}>>, <<{}, {c("=")}>>,
           <<{}, {c("<"), c(">")}>>, <<{"g"}, {c("<")}>>}

Edges(targets) ==
    {Edge(A, x, ACTION_INPUT, g[1], g[2], t) : x \in {"x", "y"}, g \in Guards, t \in targets}
        \cup {Edge(A, "u", ACTION_OUTPUT, g[1], g[2], A) : g \in Guards}

Build(list, rest) ==
    LET i == Edge(I, "init", ACTION_INTERNAL, {}, {}, A)
        f == [l \in Label |-> CASE l = I -> <<i>> [] l = A -> list [] OTHER -> rest]
        all == UNION {Range(f[l]) : l \in Label}
    IN  [EmptyTIOSTS EXCEPT
            !.locations = {t.source : t \in all} \cup {t.target : t \in all},
            !.initialLocation = I, !.clocks = <<"c">>,
            !.inputActions = {"x", "y"}, !.outputActions = {"u"},
            !.internalActions = {"init"}, !.out = f,
            !.transitions = {CHOOSE t \in all : Key(t) = k : k \in {Key(u) : u \in all}}]

MCModels ==
    {Build(s, <<>>) : s \in {<<>>} \cup [1..1 -> Edges({A})] \cup [1..2 -> Edges({A})]}
        \cup {Build(<<e>>, <<Edge(DontCare, "x", ACTION_INPUT, {"g"}, cs, A)>>) :
                 e \in Edges({A, DontCare}), cs \in {{}, {c(">")}}}
=============================================================================
