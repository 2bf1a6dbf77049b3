---------------------------- MODULE SymbolicValues ----------------------------
(***************************************************************************)
(* The texts symbolicexecution/algorithms/SymbolicExecution.java computes  *)
(* with: expressions, data guards and path conditions, the symbolic values *)
(* of variables and action parameters, and the substitution of the ones in *)
(* the others.                                                             *)
(*                                                                         *)
(* An expression is a list of signed terms, a text without parentheses or  *)
(* products.  A guard is a list of alternatives joined by OR, each a list  *)
(* of comparisons joined by AND, which binds tighter: what the text says   *)
(* to the solver.  The text TRUE is one alternative without comparisons.   *)
(***************************************************************************)
EXTENDS Integers, Sequences, FiniteSets, SequencesExt

CONSTANTS Identifier,  \* the names of variables and action parameters
          Separated,   \* those that contain the character "_"
          Value        \* bound: the integers the solver tries

ASSUME SeparatedAssumption == Separated \subseteq Identifier
ASSUME ValueAssumption == Value \subseteq Int /\ Value # {}

\* A term: a number, a name as it is written in a model, or a symbol
\* "name_index".  The index of a number is the number.
Number(k)       == [kind |-> "number", name |-> "", index |-> k, sign |-> 1]
Named(x)        == [kind |-> "name", name |-> x, index |-> 0, sign |-> 1]
Symbol(x, k)    == [kind |-> "symbol", name |-> x, index |-> k, sign |-> 1]
Minus(t)        == [t EXCEPT !.sign = -@]

Relations == {"=", "<>", "<", "<=", ">=", ">"}
GUARD_TRUE == << <<>> >>

\* What the parser makes of an expression and of a data guard, if they have
\* neither parentheses nor products nor NOT.
ParsedTerm ==
    [kind : {"number"}, name : {""}, index : Int, sign : {1, -1}]
        \cup [kind : {"name"}, name : Identifier, index : {0}, sign : {1, -1}]
ParsedExpression == Seq(ParsedTerm) \ {<<>>}
ParsedAssignment == [variable : Identifier, value : ParsedExpression]
ParsedGuard ==
    Seq(Seq([left : ParsedExpression, relation : Relations, right : ParsedExpression])) \ {<<>>}

\* The symbols of an expression, of a guard: pairs of a name and an index.
Symbols(e) == {<<e[i].name, e[i].index>> : i \in {j \in DOMAIN e : e[j].kind = "symbol"}}
SymbolsOf(g) ==
    UNION {UNION {Symbols(c.left) \cup Symbols(c.right) : c \in Range(g[i])} : i \in DOMAIN g}

-----------------------------------------------------------------------------
(* Substitution.                                                           *)

\* The text that replaces a token.  It is not put in parentheses: a minus in
\* front of the name stands before the first term of the value only.
Spliced(t, symbolicValues) ==
    IF t.kind = "name" /\ t.name \in DOMAIN symbolicValues
    THEN LET text == symbolicValues[t.name]
         IN  <<[Head(text) EXCEPT !.sign = @ * t.sign]>> \o Tail(text)
    ELSE <<t>>

updateExpression(e, symbolicValues) ==
    FlattenSeq([i \in DOMAIN e |-> Spliced(e[i], symbolicValues)])

UpdatedGuard(g, symbolicValues) ==
    [i \in DOMAIN g |-> [j \in DOMAIN g[i] |->
        [g[i][j] EXCEPT !.left  = updateExpression(@, symbolicValues),
                        !.right = updateExpression(@, symbolicValues)]]]

\* "previous AND dataGuard", and only one of them if the other is TRUE: the
\* last alternative of the one and the first of the other become one.
createNextPathCondition(previous, dataGuard) ==
    Front(previous) \o <<Last(previous) \o Head(dataGuard)>> \o Tail(dataGuard)

-----------------------------------------------------------------------------
(* Symbolic values.                                                        *)

InitialValue(x) == <<Symbol(x, 0)>>

\* value.split("_") has two parts: the value has one symbol, whose name has
\* no "_" of its own.
TwoParts(value) ==
    /\ Cardinality({i \in DOMAIN value : value[i].kind = "symbol"}) = 1
    /\ \A i \in DOMAIN value : value[i].kind = "symbol" => value[i].name \notin Separated

\* Integer.parseInt reads the second part: nothing follows the symbol.
Parsable(value) == Last(value).kind = "symbol"

\* Mutant: one is added in the text.
updateSymbolicValue_Text(value) == Append(value, Number(1))

updateSymbolicValue(value) == [value EXCEPT ![Len(value)].index = @ + 1]

\* The assignments are executed from left to right.
updateSymbolicValueWithAssignments(assignments, symbolicValues) ==
    FoldLeft(LAMBDA values, a :
                 [values EXCEPT ![a.variable] = updateExpression(a.value, values)],
             symbolicValues, assignments)

\* nextSymbolicValues, paramIds and what was thrown, after the loop over the
\* parameters of an action.  Nothing is read after an exception.
ReadParameters(params, symbolicValues) ==
    FoldLeft(LAMBDA read, p :
                 LET value == read.values[p]
                     next  == updateSymbolicValue(value)
                 IN  IF read.thrown # "" THEN read
                     ELSE IF ~TwoParts(value)
                     THEN [read EXCEPT !.thrown = "SymbolicValueNameException"]
                     ELSE IF ~Parsable(value)
                     THEN [read EXCEPT !.thrown = "NumberFormatException"]
                     ELSE [read EXCEPT !.values[p] = next, !.ids = Append(@, next)],
             [values |-> symbolicValues, ids |-> <<>>, thrown |-> ""], params)

-----------------------------------------------------------------------------
(* What expressions and guards mean.                                       *)

\* The value of an expression: number(t) is the value of a term but its sign.
Sum(e, number(_)) ==
    FoldLeft(LAMBDA s, t : s + t.sign * number(t), 0, e)

Compare(x, relation, y) ==
    CASE relation = "="  -> x = y
      [] relation = "<>" -> x # y
      [] relation = "<"  -> x < y
      [] relation = "<=" -> x <= y
      [] relation = ">=" -> x >= y
      [] relation = ">"  -> x > y

Holds(g, number(_)) ==
    \E i \in DOMAIN g : \A c \in Range(g[i]) :
        Compare(Sum(c.left, number), c.relation, Sum(c.right, number))

\* v gives every symbol its value; s gives every name its value.
UnderSymbols(v, t) == IF t.kind = "number" THEN t.index ELSE v[<<t.name, t.index>>]
UnderState(s, t)   == IF t.kind = "number" THEN t.index ELSE s[t.name]

\* What CHECKSAT is asked.
Satisfiable(g) ==
    \E v \in [SymbolsOf(g) -> Value] : Holds(g, LAMBDA t : UnderSymbols(v, t))
=============================================================================
