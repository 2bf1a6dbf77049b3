------------------------------ MODULE Rebuilding ------------------------------
(***************************************************************************)
(* What the operators that rebuild a model share: they clone their         *)
(* arguments, declare the locations of the result and then call            *)
(* createTransition for the transitions in the HashMap of a clone.         *)
(*                                                                         *)
(* A call is the set of its outcomes, one for each order of the HashMaps.  *)
(***************************************************************************)
EXTENDS ParallelMoves

\* The call ended with an exception none of the callers handles.
Thrown == [thrown |-> TRUE]

Outcome == Model \cup {Thrown}

\* A loop over the list xs: step gives what its body makes of a value and an
\* element.
Loop(step, start, xs) ==
    LET after[k \in 0..Len(xs)] == IF k = 0 THEN start ELSE step[after[k - 1]][xs[k]]
    IN  after[Len(xs)]

\* The elements of a set, in an order that makes no difference.
Listed(S) ==
    LET size == Cardinality(S)
    IN  Loop([s \in Seq(S) |-> [k \in 1..size |-> Append(s, CHOOSE x \in S \ Range(s) : TRUE)]],
             <<>>, [k \in 1..size |-> k])

\* The lists of CloneLists, put together location by location, and Clones(m)
\* built from them.
ListsInOrder(m) ==
    Loop([fs \in SUBSET [m.locations -> Seq(Transition)] |-> [l \in m.locations |->
             {[f EXCEPT ![l] = ts] : f \in fs, ts \in SetToSeqs(ClonedFrom(m, l))}]],
         {[l \in m.locations |-> <<>>]}, Listed(m.locations))

Copies(m) == {CloneWith(m, lists) : lists \in ListsInOrder(m)}

\* The model has a location and a transition to start from.
HasInitial(m) == m.initialLocation # NoLabel /\ m.out[m.initialLocation] # <<>>

\* The values of the map of a clone.  Its keys went into the lists of the
\* clone in the order in which the original was iterated, so the lists hold
\* that order; transitions of different locations never meet.
InOrder(c) ==
    Loop([ts \in Seq(Transition) |-> [l \in c.locations |-> ts \o c.out[l]]],
         <<>>, Listed(c.locations))

\* The elements of ts that are in S.
Kept(ts, S) ==
    Loop([s \in Seq(Transition) |->
             [t \in Transition |-> IF t \in S THEN Append(s, t) ELSE s]],
         <<>>, ts)

\* Mutant: the labels are not looked up.
Created_Unchecked(m, t) == CreateTransition(m, t)

\* createTransition looks its endpoints up by label and uses what it finds.
Created(m, t) ==
    IF m = Thrown \/ {t.source, t.target} \ m.locations # {}
    THEN Thrown ELSE CreateTransition(m, t)

\* createTransition for what the function f makes of each element of ts.
CreatedAll(m, f, ts) ==
    Loop([r \in Outcome |-> [t \in Transition |-> Created(r, f[t])]], m, ts)

\* The result before its transitions: only the declarations of m.
Declarations(m) == [EmptyTIOSTS EXCEPT !.locations        = m.locations,
                                       !.initialLocation  = m.initialLocation,
                                       !.initialCondition = m.initialCondition,
                                       !.variables        = m.variables,
                                       !.clocks           = m.clocks,
                                       !.inputActions     = m.inputActions,
                                       !.outputActions    = m.outputActions,
                                       !.internalActions  = m.internalActions]

\* createDataGuard, createClockGuard and createAssignments, on two transitions.
Conjoined(t, u) ==
    [t EXCEPT !.dataGuard   = @ \cup u.dataGuard,
              !.clockGuard  = @ \cup u.clockGuard,
              !.assignments = @ \cup u.assignments,
              !.deadline    = DEADLINE_LAZY,
              !.source      = Join(@, u.source),
              !.target      = Join(@, u.target)]
=============================================================================
