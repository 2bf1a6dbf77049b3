---------------------------- MODULE MCCompositions ----------------------------
(***************************************************************************)
(* Models for Compositions.  A is a process that ends with the output m or *)
(* that calls on m and is answered on r; B and C start with the input m.   *)
(***************************************************************************)
EXTENDS Compositions

Node(p, i) == <<p \o ToString(i)>>

MCName == {<<x>> : x \in {"init", "start", "x", "y", "z", "w", "m", "r", "v", "Tau", "q"}}

\* The transition of process p from i to j on the action a.
Edge(p, i, a, ty, g, j) ==
    [source |-> Node(p, i), dataGuard |-> g, clockGuard |-> {},
     action |-> [name |-> <<a>>, type |-> ty], assignments |-> {},
     deadline |-> DEADLINE_LAZY, target |-> Node(p, j)]

i(p, k, a, l) == Edge(p, k, a, ACTION_INPUT, {}, l)
o(p, k, a, l) == Edge(p, k, a, ACTION_OUTPUT, {}, l)
n(p, k, a, l) == Edge(p, k, a, ACTION_INTERNAL, {}, l)

GraphsA ==
    {<<i("A", 1, "x", 2), o("A", 2, "m", 3)>>,
     <<i("A", 1, "x", 1), o("A", 1, "y", 2), o("A", 2, "m", 3)>>,
     <<i("A", 1, "x", 2), o("A", 2, "y", 2), o("A", 2, "m", 3)>>,
     <<i("A", 1, "x", 2), o("A", 2, "m", 3), i("A", 3, "r", 2), o("A", 2, "y", 1)>>,
     <<i("A", 1, "x", 2), o("A", 2, "m", 3), i("A", 3, "r", 1)>>,
     <<i("A", 1, "x", 2), o("A", 2, "m", 3), i("A", 3, "r", 4), o("A", 4, "v", 1)>>,
     <<o("A", 1, "m", 2), i("A", 2, "r", 1), o("A", 1, "y", 1)>>,
     <<o("A", 1, "m", 2), i("A", 2, "r", 3), o("A", 3, "y", 1)>>,
     <<o("A", 1, "m", 2), i("A", 2, "r", 3), i("A", 2, "x", 3), o("A", 3, "y", 1)>>}

GraphsB ==
    {<<i("B", 1, "m", 2), o("B", 2, "z", 3)>>,
     <<i("B", 1, "m", 2), o("B", 2, "z", 3), n("B", 3, "w", 2)>>,
     <<i("B", 1, "m", 2), i("B", 2, "m", 3)>>,
     <<i("B", 1, "m", 2), o("B", 2, "z", 2)>>,
     <<i("B", 1, "m", 2), o("B", 2, "z", 1)>>,
     <<i("B", 1, "m", 2), o("B", 2, "z", 0)>>,
     <<i("B", 1, "m", 2), o("B", 2, "r", 1)>>,
     <<i("B", 1, "m", 2), o("B", 2, "r", 1), n("B", 2, "w", 1)>>,
     <<i("B", 1, "m", 2), n("B", 2, "w", 1), o("B", 3, "r", 1)>>,
     <<i("B", 1, "m", 2), o("B", 2, "z", 3), o("B", 3, "r", 1)>>,
     <<i("B", 1, "m", 2), o("B", 2, "z", 4), o("B", 4, "z", 3), o("B", 3, "r", 1),
       o("B", 3, "w", 4)>>,
     <<i("B", 1, "m", 2), o("B", 2, "z", 2), o("B", 2, "r", 1)>>,
     <<i("B", 1, "m", 2), o("B", 2, "z", 3), n("B", 3, "w", 2), o("B", 2, "r", 1)>>,
     <<i("B", 1, "m", 2), o("B", 2, "z", 4), o("B", 4, "z", 4), o("B", 4, "w", 3),
       o("B", 3, "r", 1)>>,
     <<i("B", 1, "m", 2), o("B", 2, "z", 3), n("B", 3, "w", 2), o("B", 3, "r", 1)>>,
     <<i("B", 1, "m", 2), o("B", 2, "r", 3), o("B", 3, "z", 1)>>}

GraphsC == {<<i("C", 1, "z", 2), o("C", 2, "v", 3)>>}

StartA == n("A", 0, "init", 1)
StartB == Edge("B", 0, "start", ACTION_INTERNAL, {"g"}, 1)
StartC == n("C", 0, "init", 1)

-----------------------------------------------------------------------------
Nodes(start, edges) == UNION {{t.source, t.target} : t \in Range(edges) \cup {start}}

NodesOfAdded == {Nodes(StartB, edges) : edges \in GraphsB}
                    \cup {Nodes(StartC, edges) : edges \in GraphsC}

\* Labels of an earlier result, of an added model, and of both joined.
Extended(labels) ==
    labels \cup UNION {
        ys \cup {Join(x, y) : x \in {l \in labels : Range(l) \cap UNION {Range(y) : y \in ys} = {}},
                             y \in ys} : ys \in NodesOfAdded}
LabelsAfter0 == UNION {Nodes(StartA, edges) : edges \in GraphsA}
LabelsAfter1 == Extended(LabelsAfter0)
LabelsAfter2 == Extended(LabelsAfter1)

MCLabelsAfter == (0 :> LabelsAfter0) @@ (1 :> LabelsAfter1) @@ (2 :> LabelsAfter2)
MCLabel == LabelsAfter2

NamesIn(ts, ty) == {t.action.name : t \in {u \in ts : u.action.type = ty}}

Build(start, edges) ==
    LET ts == Range(edges) \cup {start}
    IN  [EmptyTIOSTS EXCEPT
            !.locations = Nodes(start, edges), !.initialLocation = start.source,
            !.initialCondition = start.dataGuard,
            !.inputActions = NamesIn(ts, ACTION_INPUT),
            !.outputActions = NamesIn(ts, ACTION_OUTPUT),
            !.internalActions = NamesIn(ts, ACTION_INTERNAL),
            !.out = [l \in Label |-> SelectSeq(<<start>> \o edges, LAMBDA t : t.source = l)],
            !.transitions = ts]

CompiledModels == {Build(StartA, edges) : edges \in GraphsA}
AddedModels == {Build(StartB, edges) : edges \in GraphsB}
                 \cup {Build(StartC, edges) : edges \in GraphsC}

MCCompiled == CompiledModels
MCAdded == AddedModels
MCNewNames == {<<"y">>, <<"q">>}
=============================================================================
