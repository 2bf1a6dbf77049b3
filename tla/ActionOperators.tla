--------------------------- MODULE ActionOperators ---------------------------
(***************************************************************************)
(* compositions/HidingOperator.java and RenamingOperator.java.             *)
(***************************************************************************)
EXTENDS Rebuilding

tau == [name |-> <<"Tau">>, type |-> ACTION_INTERNAL]

\* Action.equals compares names.
Replaced(t, name, a) == IF t.action.name = name THEN [t EXCEPT !.action = a] ELSE t

\* Mutant: the internal actions of the model stay declared.
WithoutAction_InternalsKept(c, aName) ==
    [Declarations(c) EXCEPT !.internalActions = @ \cup {tau.name},
                            !.inputActions    = @ \ {aName},
                            !.outputActions   = @ \ {aName}]

\* initialize of HidingOperator: Tau is the only internal action.
WithoutAction(c, aName) ==
    [Declarations(c) EXCEPT !.internalActions = {tau.name},
                            !.inputActions    = @ \ {aName},
                            !.outputActions   = @ \ {aName}]

hidingOperator(model1, aName) ==
    IF ~Cloneable(model1) \/ aName \notin ActionNames(model1)
    THEN {Thrown}
    ELSE {CreatedAll(WithoutAction(c, aName),
                     [t \in Transition |-> Replaced(t, aName, tau)], InOrder(c)) :
             c \in Copies(model1)}

\* The last action of getActions() with the name.
ActionNamed(m, name) ==
    [name |-> name,
     type |-> IF name \in m.internalActions THEN ACTION_INTERNAL
              ELSE IF name \in m.outputActions THEN ACTION_OUTPUT
              ELSE ACTION_INPUT]

\* b: an action the model has keeps its type, a new one gets that of a.
NewAction(m, aName, bName) ==
    IF bName \in ActionNames(m) THEN ActionNamed(m, bName)
    ELSE [ActionNamed(m, aName) EXCEPT !.name = bName]

Renamed(names, aName, bName) ==
    IF aName \in names THEN (names \ {aName}) \cup {bName} ELSE names

\* initialize of RenamingOperator: the internal actions stay as they are.
WithRenamed(c, aName, bName) ==
    [Declarations(c) EXCEPT !.inputActions  = Renamed(@, aName, bName),
                            !.outputActions = Renamed(@, aName, bName)]

renamingOperator(model1, aName, bName) ==
    IF ~Cloneable(model1) \/ aName \notin ActionNames(model1)
    THEN {Thrown}
    ELSE {LET b == NewAction(c, aName, bName)
          IN  CreatedAll(WithRenamed(c, aName, bName),
                         [t \in Transition |-> Replaced(t, aName, b)], InOrder(c)) :
             c \in Copies(model1)}
=============================================================================
