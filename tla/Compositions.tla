----------------------------- MODULE Compositions -----------------------------
(***************************************************************************)
(* A program that builds a system: it applies the operators of the package *)
(* compositions to compiled models and to the results of earlier calls, as *)
(* the classes of package main do.  A call is one step; which of its       *)
(* outcomes occurs depends on the order of HashMaps.                       *)
(***************************************************************************)
EXTENDS ActionOperators, SequentialComposition, InterruptionComposition

CONSTANTS Compiled,   \* the models a system is built from
          Added,      \* the models that are composed with one
          NewNames,   \* the names an action may be renamed to
          LabelsAfter, \* the labels a model can have after so many calls
          MaxCalls,   \* bound: how many operators are applied
          MaxWord     \* bound: the length of the words that are compared

Parts(m) == UNION {Range(l) : l \in m.locations}

ASSUME CompiledAssumption ==
    \A m \in Compiled \cup Added : WellFormed(m) /\ IsFiniteSet(m.locations)

\* A label is a non-empty list of parts, and lists without a common part can
\* be joined.
ASSUME LabelsAssumption ==
    /\ LabelsAfter \in [0..MaxCalls -> SUBSET Label]
    /\ \A l \in Label : l # NoLabel /\ l \in Seq(Range(l))
    /\ \A m \in Compiled : m.locations \subseteq LabelsAfter[0]
    /\ \A k \in 1..MaxCalls :
          /\ LabelsAfter[k - 1] \subseteq LabelsAfter[k]
          /\ \A m \in Added :
                /\ m.locations \subseteq LabelsAfter[k]
                /\ \A x \in LabelsAfter[k - 1], y \in m.locations :
                      Range(x) \cap Parts(m) = {} => Join(x, y) \in LabelsAfter[k]

ASSUME NamesAssumption == NewNames \cup {tau.name} \subseteq Name
ASSUME BoundsAssumption == MaxCalls \in Nat /\ MaxWord \in Nat

VARIABLES calls,   \* how many calls were made
          last,    \* the last call: its operator and arguments
          result   \* its outcome

vars == <<calls, last, result>>

NoCall == [op |-> "none"]

Init ==
    /\ calls = 0
    /\ last = NoCall
    /\ result = EmptyTIOSTS

-----------------------------------------------------------------------------
\* The model a call starts from.  An exception ends the program.
Usable == IF calls = 0 THEN Compiled ELSE IF result = Thrown THEN {} ELSE {result}

\* No model is composed with itself or with one that has it as a part.
Apart(m1, m2) == Parts(m1) \cap Parts(m2) = {}

Call(call, outcomes) ==
    /\ calls < MaxCalls
    /\ calls' = calls + 1
    /\ last' = call
    /\ result' \in outcomes

Hide(m, a) ==
    Call([op |-> "hide", first |-> m, name |-> a], hidingOperator(m, a))

Rename(m, a, b) ==
    Call([op |-> "rename", first |-> m, name |-> a, new |-> b],
         renamingOperator(m, a, b))

Sequence(m1, m2) ==
    Call([op |-> "sequence", first |-> m1, second |-> m2],
         sequentialComposition(m1, m2))

Interrupt(m1, m2) ==
    Call([op |-> "interrupt", first |-> m1, second |-> m2],
         interruptionComposition(m1, m2))

Next ==
    \/ \E m \in Usable : \E a \in ActionNames(m) : Hide(m, a)
    \/ \E m \in Usable : \E a \in ActionNames(m) : \E b \in NewNames \ {a} : Rename(m, a, b)
    \/ \E m1 \in Usable, m2 \in Added : Apart(m1, m2) /\ Sequence(m1, m2)
    \/ \E m1 \in Usable, m2 \in Added : Apart(m1, m2) /\ Interrupt(m1, m2)

Spec == Init /\ [][Next]_vars

-----------------------------------------------------------------------------
(* Type invariant: a call ends with an exception or with a model, whose    *)
(* transitions connect locations the model has.                            *)
TypeOK ==
    /\ calls \in 0..MaxCalls
    /\ last = NoCall \/ last.first \in Model
    /\ \/ result = Thrown
       \/ /\ result \in Model
          /\ \A t \in OutTransitions(result) : {t.source, t.target} \subseteq result.locations

Returned(op) == calls > 0 /\ last.op = op /\ result # Thrown
CalledOn(op) == calls > 0 /\ last.op = op

Names(ts) == {t.action.name : t \in ts}
Internals(ts) == Names({t \in ts : t.action.type = ACTION_INTERNAL})
AfterInitial(m) == {t \in m.transitions : t.source # m.initialLocation}
OutOf(m, l) == {t \in m.transitions : t.source = l}

-----------------------------------------------------------------------------
(* What the compositions are meant for.                                    *)

\* The transitions of the two models that meet in a sequential composition.
FirstOf2 == last.second.out[InitialOf(last.second).target][1]
LastOf1  == {t \in last.first.transitions : t.action.name = FirstOf2.action.name}

Prepared == \A m \in {last.first, last.second} : Cloneable(m) /\ HasInitial(m)

SequentialFit ==
    /\ Prepared
    /\ last.second.out[InitialOf(last.second).target] # <<>>
    /\ FirstOf2.target \notin {FirstOf2.source, last.second.initialLocation}
    /\ \E t \in LastOf1 : /\ LastOf1 = {t} /\ t.source # last.first.initialLocation
                          /\ isCompatibleSequence(last.first, last.second, t.target)

\* No transition is left with an end that becomes part of a joint location.
SequentialEnds ==
    LET tc1 == CHOOSE t \in LastOf1 : TRUE
    IN  /\ Into(last.second, FirstOf2.source) = {InitialOf(last.second)}
        /\ Into(last.second, last.second.initialLocation) = {}
        /\ \A t \in last.first.transitions : t.source = tc1.source => t.target # tc1.source
        /\ \A t \in last.second.transitions :
              t.source = FirstOf2.target => t.target # FirstOf2.target

Synced(m) ==
    {t \in m.transitions :
        t.action.name \in SynchronizedNames(last.first, last.second)}
SyncedEnds(m) == Ends(Synced(m))

\* For the second model, what receives the call.
Calls(m) == {t \in Synced(m) : t.action.type = ACTION_INPUT}

InterruptionFit ==
    /\ Prepared
    /\ isCompatibleInterruption(last.first, last.second)
    /\ Names(Synced(last.first)) =
          Names(last.first.transitions) \cap Names(AfterInitial(last.second))
    /\ Cardinality(Synced(last.first)) = 2 /\ Cardinality(Synced(last.second)) = 2

\* While the second model has control the first one waits for the answer, and
\* only with the answer, from a location it enters, the second one comes back
\* to where it is called.
HandsOver ==
    /\ \A t \in Synced(last.first) : t.action.type = ACTION_OUTPUT =>
          /\ Into(last.first, t.target) = {t}
          /\ OutOf(last.first, t.target) \subseteq Synced(last.first)
    /\ \A t \in Synced(last.second) : Into(last.second, t.source) # {}
    /\ \A t \in Calls(last.second) :
          Into(last.second, t.source) \ {InitialOf(last.second)}
              = Synced(last.second) \ Calls(last.second)

\* A transition between two locations that become joint is found again only
\* in the second model, from where the call alone leads to where the answer
\* alone leaves.
EndsFound ==
    /\ \A t \in last.first.transitions \ Synced(last.first) :
          ~ {t.source, t.target} \subseteq SyncedEnds(last.first)
    /\ \A t \in AfterInitial(last.second) \ Synced(last.second) :
          {t.source, t.target} \subseteq SyncedEnds(last.second) =>
              /\ Into(last.second, t.source) \subseteq Calls(last.second)
              /\ OutOf(last.second, t.target) \subseteq Synced(last.second) \ Calls(last.second)

\* What leaves a location where the second model synchronizes leaves the one
\* before it too, or leads to another such location.
LeavesKept ==
    \A t \in AfterInitial(last.second) \ Synced(last.second) :
        t.source \in {u.source : u \in Synced(last.second)} =>
            \/ t.source \in {u.target : u \in Synced(last.second)}
            \/ t.target \in SyncedEnds(last.second)

-----------------------------------------------------------------------------
\* The internal actions of the second model that a composition leaves out.
Foreign == Internals(AfterInitial(last.second)) \ last.first.internalActions

\* The second model receives its first action again, which is left out too.
ReceivedAgain ==
    /\ FirstOf2.action.name \notin last.first.inputActions
    /\ \E t \in AfterInitial(last.second) \ {FirstOf2} : t.action = FirstOf2.action

(* Every operator clones its arguments, so what it returns is usable only  *)
(* if it can be cloned.  The result of hiding can be cloned exactly if the *)
(* model had no internal action left but Tau; that of renaming unless a    *)
(* transition of an internal action got a new name; that of a sequence of  *)
(* models that fit if the second one's internal actions, its initial one   *)
(* apart, are those of the first and its first input comes only once.  For *)
(* an interruption the first of these conditions is enough.                *)
ResultCloneable ==
    /\ Returned("hide") =>
          (Cloneable(result)
              <=> Internals(last.first.transitions) \ {last.name} \subseteq {<<"Tau">>})
    /\ Returned("rename") =>
          (Cloneable(result)
              <=> ~ (/\ last.name \in Names(last.first.transitions)
                     /\ last.name \in last.first.internalActions
                     /\ last.new \notin ActionNames(last.first)))
    /\ (Returned("sequence") /\ SequentialFit) =>
          (Cloneable(result) <=> Foreign = {} /\ ~ReceivedAgain)
    /\ (Returned("interrupt") /\ InterruptionFit /\ Foreign = {}) => Cloneable(result)

(* The lists of a result and its map hold the same transitions, so that    *)
(* the next clone() loses none, unless hiding or renaming gave an action   *)
(* the name of another one; InterruptionFaithful says when an interruption *)
(* loses none.                                                             *)
NothingMerged ==
    (/\ calls > 0 /\ result # Thrown /\ last.op # "interrupt"
     /\ last.op = "hide" => <<"Tau">> \notin Names(last.first.transitions)
     /\ last.op = "rename" => last.new \notin Names(last.first.transitions))
        => OutTransitions(result) = result.transitions

-----------------------------------------------------------------------------
(* The names of the actions along paths of at most MaxWord transitions.    *)

WordsFrom(m, start) ==
    LET words[k \in 0..MaxWord] ==
            [l \in m.locations |->
                {<<>>} \cup IF k = 0 THEN {}
                            ELSE UNION {{<<t.action.name>> \o w : w \in words[k - 1][t.target]} :
                                           t \in From(m, l)}]
    IN  words[MaxWord][start]

Words(m) == WordsFrom(m, m.initialLocation)

\* The composition throws exactly if a transition still names a location that
\* was replaced.
SequenceReturns == result = Thrown <=> ~SequentialEnds

(* If the models satisfy isCompatible, whose call is commented out, their  *)
(* sequential composition returns unless a transition still names a        *)
(* location that was replaced, and the result behaves like the first model *)
(* up to the composition transition and then like the second after its     *)
(* first input.                                                            *)
SequenceFaithful ==
    (CalledOn("sequence") /\ SequentialFit) =>
        /\ SequenceReturns
        /\ result # Thrown =>
              Words(result) =
                  Words(last.first) \cup
                  {w \in {u \o v : u \in {x \in Words(last.first) :
                                             x # <<>> /\ Last(x) = FirstOf2.action.name},
                                   v \in WordsFrom(last.second, FirstOf2.target)} :
                      Len(w) <= MaxWord}

Projected(w, names) == SelectSeq(w, LAMBDA n : n \in names)

(* If the models satisfy the conditions of isCompatible, whose call is     *)
(* commented out, one waits while the other has control, no transition     *)
(* joins two locations that synchronize in a way sync() cannot find again, *)
(* and none only leaves one, then the call returns, loses no transition,   *)
(* can be cloned exactly if the second model's internal actions are known  *)
(* to the first, and leaves each model with its own behaviour: what it     *)
(* does, seen alone, it can do alone.                                      *)
InterruptionFaithful ==
    (CalledOn("interrupt") /\ InterruptionFit /\ HandsOver /\ EndsFound /\ LeavesKept) =>
        /\ result # Thrown
        /\ OutTransitions(result) = result.transitions
        /\ Cloneable(result) <=> Foreign = {}
        /\ \A t \in last.first.transitions \cup AfterInitial(last.second) :
              \E u \in result.transitions :
                  /\ u.action.name = t.action.name
                  /\ t.dataGuard \subseteq u.dataGuard
        /\ \A w \in Words(result) :
              /\ Projected(w, Names(last.first.transitions)) \in Words(last.first)
              /\ Projected(w, Names(AfterInitial(last.second)))
                    \in WordsFrom(last.second, InitialOf(last.second).target)
=============================================================================
