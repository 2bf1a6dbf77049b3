-------------------------- MODULE MCTIOSTSLifecycle --------------------------
(***************************************************************************)
(* A small object: two locations, an initial transition and three loops,   *)
(* two of which share a key; a clock that is declared before or after a    *)
(* guard that names it is parsed, or twice.                                *)
(***************************************************************************)
EXTENDS TIOSTSLifecycle

MCLabel == {<<"START">>, <<"S">>}
MCName  == {<<"init">>, <<"a">>, <<"b">>}
MCAtom  == {"x > 0", "x <= 0"}
MCClock == {"d"}

MCInit(g) ==
    [source |-> <<"START">>, dataGuard |-> g, clockGuard |-> {},
     action |-> [name |-> <<"init">>, type |-> ACTION_INTERNAL],
     assignments |-> {}, deadline |-> DEADLINE_LAZY, target |-> <<"S">>]

MCLoop(name, g, cs) ==
    [source |-> <<"S">>, dataGuard |-> g,
     clockGuard |-> {[clock |-> c, relation |-> "<=", id |-> 0] : c \in cs},
     action |-> [name |-> name, type |-> ACTION_INPUT],
     assignments |-> {}, deadline |-> DEADLINE_LAZY, target |-> <<"S">>]

MCNewTransition ==
    {MCInit({"x > 0"}), MCLoop(<<"a">>, {"x > 0"}, {}),
     MCLoop(<<"a">>, {"x <= 0"}, {"d"}), MCLoop(<<"b">>, {}, {})}
=============================================================================
