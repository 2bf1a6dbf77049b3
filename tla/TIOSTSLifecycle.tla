--------------------------- MODULE TIOSTSLifecycle ---------------------------
(***************************************************************************)
(* The life of one TIOSTS object: a client (the compiler, a composition    *)
(* or a test) calls its mutators in any order and copies it with clone()   *)
(* at any time.                                                            *)
(*                                                                         *)
(* The object keeps every transition twice: in the lists of its locations, *)
(* which grow, and in a HashMap indexed by "source#action#target", where a *)
(* second transition with the same key replaces the first.  clone() copies *)
(* the map and rebuilds the lists from it; it also prints and re-parses    *)
(* every clock guard and rewrites the initial condition.  The properties   *)
(* say what a copy keeps of the object it was taken from.                  *)
(***************************************************************************)
EXTENDS TIOSTS

CONSTANTS MaxTransitions,  \* bound on the calls of createTransition
          MaxClocks,       \* bound on the calls of addClock
          NewTransition    \* the transitions clients create (ids unset)

ASSUME NewTransitionAssumption == NewTransition \subseteq Transition

VARIABLES tiosts,   \* the object
          copy,     \* the result of the last clone(), or NoCopy
          created,  \* the transitions given to createTransition, in order
          crashed   \* an exception left a call

vars == <<tiosts, copy, created, crashed>>

NoCopy == [none |-> TRUE]

Init ==
    /\ tiosts = EmptyTIOSTS
    /\ copy = NoCopy
    /\ created = <<>>
    /\ crashed = FALSE

AddClock(c) ==
    /\ ~crashed
    /\ Len(tiosts.clocks) < MaxClocks
    /\ tiosts' = [tiosts EXCEPT !.clocks = Append(@, c)]
    /\ UNCHANGED <<copy, created, crashed>>

AddNewLocation(l) ==
    /\ ~crashed
    /\ tiosts' = AddLocation(tiosts, l)
    /\ UNCHANGED <<copy, created, crashed>>

\* Called once, before or after transitions leave the location.
MarkInitial(l) ==
    /\ ~crashed
    /\ tiosts.initialLocation = NoLabel
    /\ l \in tiosts.locations
    /\ tiosts' = SetInitialLocation(tiosts, l)
    /\ UNCHANGED <<copy, created, crashed>>

DeclareAction(a) ==
    /\ ~crashed
    /\ tiosts' = AddAction(tiosts, a)
    /\ UNCHANGED <<copy, created, crashed>>

\* createTransition with the text of a clock guard: the ids are those of the
\* clocks declared so far.  "It is assumed the source and target location
\* already exists."
NewTransitionCall(t) ==
    /\ ~crashed
    /\ Len(created) < MaxTransitions
    /\ t.source \in tiosts.locations /\ t.target \in tiosts.locations
    /\ LET parsed == [t EXCEPT !.clockGuard = ParseClockGuard(@, tiosts.clocks)]
       IN  /\ tiosts' = CreateTransition(tiosts, parsed)
           /\ created' = Append(created, parsed)
    /\ UNCHANGED <<copy, crashed>>

Clone ==
    /\ ~crashed
    /\ Cloneable(tiosts)
    /\ copy' \in Clones(tiosts)
    /\ UNCHANGED <<tiosts, created, crashed>>

\* clone() of an object one of whose transitions has an undeclared action.
CloneFails ==
    /\ ~crashed
    /\ ~Cloneable(tiosts)
    /\ crashed' = TRUE
    /\ UNCHANGED <<tiosts, copy, created>>

Next ==
    \/ \E c \in Clock : AddClock(c)
    \/ \E l \in Label : AddNewLocation(l) \/ MarkInitial(l)
    \/ \E t \in NewTransition : DeclareAction(t.action) \/ NewTransitionCall(t)
    \/ Clone
    \/ CloneFails

Spec == Init /\ [][Next]_vars

-----------------------------------------------------------------------------
(* Type invariant: the object and its copy are TIOSTS records of the shape *)
(* the fields of class TIOSTS have.                                        *)
TypeOK ==
    /\ tiosts \in Model
    /\ copy # NoCopy => copy \in Model
    /\ created \in Seq(Transition)
    /\ crashed \in BOOLEAN

\* The last transition created with each key.
Latest ==
    {created[i] : i \in {j \in DOMAIN created :
        \A k \in DOMAIN created : Key(created[k]) = Key(created[j]) => k <= j}}

(* Whatever was done to the object before, its lists again hold exactly    *)
(* the transitions of its map after clone(), each one once.  Also if       *)
(* setInitialLocation was called after the initial transition was created, *)
(* which leaves the initial condition of the object unset, that of a copy  *)
(* is the guard of the last transition of its initial location.            *)
CopyListsMatchMap ==
    copy # NoCopy =>
        /\ DistinctKeys(copy)
        /\ OutTransitions(copy) = copy.transitions
        /\ copy.initialLocation # NoLabel =>
              LET list == copy.out[copy.initialLocation]
              IN  list # <<>> => copy.initialCondition = Last(list).dataGuard

(* A clock that was declared after a guard that uses it was parsed has id  *)
(* 0 in that guard (the DBM's reference clock); clone() parses the guard   *)
(* against the whole list, so in a copy every id is the clock's position.  *)
CopyResolvesClocks ==
    copy # NoCopy =>
        \A t \in OutTransitions(copy) : \A g \in t.clockGuard :
            g.id = ClockId(copy.clocks, g.clock)

\* Transitions up to the ids clone() computes anew.
WithoutIds(ts) == {[t EXCEPT !.clockGuard = {[g EXCEPT !.id = 0] : g \in @}] : t \in ts}

(* TIOSTS.clone "Creates a new TIOSTS with the same information of this    *)
(* instance": whatever was called before, the copy has of every key the    *)
(* transition that was created last, and so all of them if no two share a  *)
(* key, which the compositions, that clone their arguments first, rely on. *)
CloneKeepsLatest ==
    [][copy' # copy => WithoutIds(OutTransitions(copy')) = WithoutIds(Latest)]_vars
=============================================================================
