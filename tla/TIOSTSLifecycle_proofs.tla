------------------------ MODULE TIOSTSLifecycle_proofs ------------------------
(***************************************************************************)
(* Proofs about TIOSTSLifecycle: what clone() keeps, for any labels,       *)
(* actions, clocks and transitions and any number of calls.                *)
(*                                                                         *)
(* The inductive invariant says what the map is: the last transition that  *)
(* was created with each key, each leaving a declared location.            *)
(***************************************************************************)
EXTENDS TIOSTSLifecycle, TIOSTS_proofs

MapHoldsLatest ==
    /\ tiosts.transitions = Latest
    /\ IsFiniteSet(tiosts.transitions)
    /\ \A t \in tiosts.transitions : t.source \in tiosts.locations

IInv ==
    /\ TypeOK
    /\ MapHoldsLatest
    /\ tiosts.initialLocation \in tiosts.locations \cup {NoLabel}
    /\ CopyListsMatchMap
    /\ CopyResolvesClocks

-----------------------------------------------------------------------------
(* The map.                                                                *)

(* createTransition, on the map and on what was created.                   *)
LEMMA CreatedLatest ==
    ASSUME NEW m \in Model, NEW s \in Seq(Transition), NEW t \in Transition,
           m.transitions = LastOfKeys(s), IsFiniteSet(m.transitions)
    PROVE  /\ CreateTransition(m, t).transitions = LastOfKeys(Append(s, t))
           /\ IsFiniteSet(CreateTransition(m, t).transitions)
           /\ CreateTransition(m, t).transitions \subseteq m.transitions \cup {t}
           /\ CreateTransition(m, t).initialLocation = m.initialLocation
<1>1. /\ CreateTransition(m, t).transitions = Put(m.transitions, t)
      /\ CreateTransition(m, t).initialLocation = m.initialLocation
  BY DEF CreateTransition, Model
<1>2. Put(m.transitions, t) \subseteq m.transitions \cup {t}
  BY DEF Put
<1>3. IsFiniteSet(m.transitions \cup {t})
  BY FS_AddElement
<1> QED
  BY <1>1, <1>2, <1>3, PutKeepsLast, FS_Subset

-----------------------------------------------------------------------------
(* clone().                                                                *)

(* What CopyListsMatchMap and CopyResolvesClocks say of a copy.            *)
ListsMatchMap(c) ==
    /\ DistinctKeys(c)
    /\ OutTransitions(c) = c.transitions
    /\ c.initialLocation # NoLabel =>
          LET list == c.out[c.initialLocation]
          IN  list # <<>> => c.initialCondition = Last(list).dataGuard

ClocksResolved(c) ==
    \A t \in OutTransitions(c) : \A g \in t.clockGuard : g.id = ClockId(c.clocks, g.clock)

(* Parsing the guard of a transition again changes ids only, and gives     *)
(* every clock its place in the list.                                      *)
LEMMA ParsedAgain ==
    ASSUME NEW m \in Model, NEW t \in Transition
    PROVE  /\ Key(Reparsed(m, t)) = Key(t)
           /\ \A g \in Reparsed(m, t).clockGuard : g.id = ClockId(m.clocks, g.clock)
           /\ WithoutIds({Reparsed(m, t)}) = WithoutIds({t})
<1>1. Key(Reparsed(m, t)) = Key(t)
  BY ReparsedType DEF Key
<1>2. /\ Reparsed(m, t).clockGuard = ParseClockGuard(t.clockGuard, m.clocks)
      /\ t.clockGuard \subseteq SimpleClockGuard
  BY DEF Reparsed, Transition
<1>3. ASSUME NEW g \in SimpleClockGuard
      PROVE  LET h == [g EXCEPT !.id = ClockId(m.clocks, g.clock)]
             IN  /\ h.id = ClockId(m.clocks, h.clock)
                 /\ [h EXCEPT !.id = 0] = [g EXCEPT !.id = 0]
  BY DEF SimpleClockGuard
<1>4. \A g \in Reparsed(m, t).clockGuard : g.id = ClockId(m.clocks, g.clock)
  BY <1>2, <1>3 DEF ParseClockGuard
<1>5. {[h EXCEPT !.id = 0] : h \in ParseClockGuard(t.clockGuard, m.clocks)}
         = {[g EXCEPT !.id = 0] : g \in t.clockGuard}
  <2> DEFINE unset(g) == [g EXCEPT !.id = 0]
             parsed(g) == [g EXCEPT !.id = ClockId(m.clocks, g.clock)]
  <2>1. ParseClockGuard(t.clockGuard, m.clocks) = {parsed(g) : g \in t.clockGuard}
    BY DEF ParseClockGuard
  <2>2. \A g \in t.clockGuard : unset(parsed(g)) = unset(g)
    BY <1>2, <1>3
  <2> HIDE DEF unset, parsed
  <2>3. {unset(h) : h \in {parsed(g) : g \in t.clockGuard}} = {unset(g) : g \in t.clockGuard}
    BY <2>2
  <2>4. {unset(h) : h \in ParseClockGuard(t.clockGuard, m.clocks)}
           = {unset(g) : g \in t.clockGuard}
    BY <2>1, <2>3
  <2> QED
    BY <2>4 DEF unset
<1>6. [Reparsed(m, t) EXCEPT !.clockGuard = {[g EXCEPT !.id = 0] : g \in @}]
         = [t EXCEPT !.clockGuard = {[g EXCEPT !.id = 0] : g \in @}]
  <2> DEFINE G == {[g EXCEPT !.id = 0] : g \in t.clockGuard}
  <2>1. [Reparsed(m, t) EXCEPT !.clockGuard = {[g EXCEPT !.id = 0] : g \in @}]
           = [Reparsed(m, t) EXCEPT !.clockGuard = G]
    BY <1>2, <1>5
  <2>2. [t EXCEPT !.clockGuard = {[g EXCEPT !.id = 0] : g \in @}]
           = [t EXCEPT !.clockGuard = G]
    OBVIOUS
  <2> HIDE DEF G
  <2>3. [Reparsed(m, t) EXCEPT !.clockGuard = G] = [t EXCEPT !.clockGuard = G]
    BY DEF Reparsed, Transition
  <2> QED
    BY <2>1, <2>2, <2>3
<1>7. WithoutIds({Reparsed(m, t)}) = WithoutIds({t})
  BY <1>6 DEF WithoutIds
<1> QED
  BY <1>1, <1>4, <1>7

(* A copy of an object whose map has one transition for every key.         *)
LEMMA CopyConsistent ==
    ASSUME NEW m \in Model, IsFiniteSet(m.transitions),
           \A t \in m.transitions : t.source \in m.locations,
           \A t, u \in m.transitions : Key(t) = Key(u) => t = u,
           m.initialLocation \in m.locations \cup {NoLabel},
           NEW c \in Clones(m)
    PROVE  /\ ListsMatchMap(c)
           /\ ClocksResolved(c)
           /\ WithoutIds(OutTransitions(c)) = WithoutIds(m.transitions)
<1>1. /\ c \in Model /\ c.locations = m.locations /\ c.clocks = m.clocks
      /\ c.initialLocation = m.initialLocation
      /\ \A l \in m.locations : c.out[l] \in SetToSeqs(ClonedFrom(m, l))
  BY CopyOf
<1>2. c.transitions = {Reparsed(m, t) : t \in m.transitions}
  BY CopyOf
<1>3. m.transitions \subseteq Transition
  BY DEF Model
<1>4. ASSUME NEW l \in m.locations
      PROVE  /\ Range(c.out[l]) = ClonedFrom(m, l)
             /\ \A i, j \in DOMAIN c.out[l] : c.out[l][i] = c.out[l][j] => i = j
  <2>1. IsFiniteSet(ClonedFrom(m, l))
    BY ClonedFromType
  <2> QED
    BY <1>1, <2>1, OrderingOnce
<1>5. OutTransitions(c) = c.transitions
  <2>1. ASSUME NEW t \in m.transitions
        PROVE  Reparsed(m, t) \in OutTransitions(c)
    <3>1. Reparsed(m, t) \in ClonedFrom(m, t.source)
      BY DEF ClonedFrom
    <3>2. t.source \in c.locations /\ Reparsed(m, t) \in Range(c.out[t.source])
      BY <1>1, <1>4, <3>1
    <3> QED
      BY <3>2 DEF OutTransitions
  <2>2. ASSUME NEW u \in OutTransitions(c)
        PROVE  u \in c.transitions
    <3>1. PICK l \in m.locations : u \in ClonedFrom(m, l)
      BY <1>1, <1>4 DEF OutTransitions
    <3> QED
      BY <1>2, <3>1 DEF ClonedFrom
  <2> QED
    BY <1>2, <2>1, <2>2
<1>6. DistinctKeys(c)
  <2> SUFFICES ASSUME NEW l \in c.locations, NEW i \in DOMAIN c.out[l], NEW j \in DOMAIN c.out[l],
                      Key(c.out[l][i]) = Key(c.out[l][j])
               PROVE  i = j
    BY DEF DistinctKeys
  <2>1. c.out[l][i] \in ClonedFrom(m, l) /\ c.out[l][j] \in ClonedFrom(m, l)
    BY <1>1, <1>4 DEF Range
  <2>2. PICK t \in m.transitions : c.out[l][i] = Reparsed(m, t)
    BY <2>1 DEF ClonedFrom
  <2>3. PICK u \in m.transitions : c.out[l][j] = Reparsed(m, u)
    BY <2>1 DEF ClonedFrom
  <2>4. Key(Reparsed(m, t)) = Key(t) /\ Key(Reparsed(m, u)) = Key(u)
    BY <1>3, ParsedAgain
  <2>5. t = u
    BY <2>2, <2>3, <2>4
  <2> QED
    BY <1>1, <1>4, <2>2, <2>3, <2>5
<1>7. ListsMatchMap(c)
  <2>1. ASSUME c.initialLocation # NoLabel, c.out[c.initialLocation] # <<>>
        PROVE  c.initialCondition = Last(c.out[c.initialLocation]).dataGuard
    BY <1>1, <2>1, CopyOf
  <2> QED
    BY <1>5, <1>6, <2>1 DEF ListsMatchMap
<1>8. ClocksResolved(c)
  <2> SUFFICES ASSUME NEW u \in OutTransitions(c), NEW g \in u.clockGuard
               PROVE  g.id = ClockId(c.clocks, g.clock)
    BY DEF ClocksResolved
  <2>1. PICK t \in m.transitions : u = Reparsed(m, t)
    BY <1>2, <1>5
  <2>2. t \in Transition
    BY <1>3
  <2>3. \A h \in Reparsed(m, t).clockGuard : h.id = ClockId(m.clocks, h.clock)
    BY <2>2, ParsedAgain
  <2>4. g \in Reparsed(m, t).clockGuard /\ c.clocks = m.clocks
    BY <1>1, <2>1
  <2> QED
    BY <2>3, <2>4
<1>9. WithoutIds(OutTransitions(c)) = WithoutIds(m.transitions)
  <2> DEFINE w(t) == [t EXCEPT !.clockGuard = {[g EXCEPT !.id = 0] : g \in @}]
  <2>1. ASSUME NEW t \in m.transitions
        PROVE  w(Reparsed(m, t)) = w(t)
    <3>1. WithoutIds({Reparsed(m, t)}) = WithoutIds({t})
      BY <1>3, ParsedAgain
    <3>2. WithoutIds({Reparsed(m, t)}) = {w(Reparsed(m, t))} /\ WithoutIds({t}) = {w(t)}
      BY DEF WithoutIds
    <3> HIDE DEF w
    <3> QED
      BY <3>1, <3>2
  <2>2. /\ WithoutIds(OutTransitions(c)) = {w(t) : t \in OutTransitions(c)}
        /\ WithoutIds(m.transitions) = {w(t) : t \in m.transitions}
    BY DEF WithoutIds
  <2> HIDE DEF w
  <2>3. {w(u) : u \in OutTransitions(c)} = {w(t) : t \in m.transitions}
    BY <1>2, <1>5, <2>1
  <2> QED
    BY <2>2, <2>3
<1> QED
  BY <1>7, <1>8, <1>9

-----------------------------------------------------------------------------
(* The steps.                                                              *)

(* Before the first call.                                                  *)
LEMMA InitIInv == Init => IInv
<1> SUFFICES ASSUME Init PROVE IInv
  OBVIOUS
<1>1. EmptyTIOSTS \in Model
  BY EmptySeq DEF EmptyTIOSTS, Model
<1>2. created = <<>> /\ DOMAIN created = {}
  BY EmptySeq DEF Init
<1>3. Latest = {}
  BY <1>2 DEF Latest
<1>4. /\ tiosts.transitions = {} /\ tiosts.initialLocation = NoLabel
      /\ copy = NoCopy
  BY DEF Init, EmptyTIOSTS
<1>5. TypeOK
  BY <1>1, <1>4, EmptySeq DEF Init, TypeOK
<1>6. MapHoldsLatest
  BY <1>3, <1>4, FS_EmptySet DEF MapHoldsLatest
<1> QED
  BY <1>4, <1>5, <1>6 DEF IInv, CopyListsMatchMap, CopyResolvesClocks

(* What the copy is like does not change while it stays.                   *)
LEMMA CopyStays ==
    ASSUME IInv, UNCHANGED copy
    PROVE  CopyListsMatchMap' /\ CopyResolvesClocks'
  BY DEF IInv, CopyListsMatchMap, CopyResolvesClocks

(* A mutator that neither creates a transition nor removes a location.     *)
LEMMA MutatorStep ==
    ASSUME IInv, UNCHANGED <<copy, created>>, crashed' \in {TRUE, crashed},
           tiosts' \in Model,
           tiosts'.transitions = tiosts.transitions,
           tiosts.locations \subseteq tiosts'.locations,
           tiosts'.initialLocation \in tiosts'.locations \cup {NoLabel}
    PROVE  IInv'
<1>1. TypeOK'
  BY DEF IInv, TypeOK
<1>2. Latest' = Latest
  BY DEF Latest
<1>3. MapHoldsLatest'
  BY <1>2 DEF IInv, MapHoldsLatest
<1> QED
  BY <1>1, <1>3, CopyStays DEF IInv

(* addClock: the copy has the clocks it was made with.                     *)
LEMMA AddClockStep ==
    ASSUME IInv, NEW c \in Clock, AddClock(c)
    PROVE  IInv'
<1>1. tiosts \in Model /\ tiosts.clocks \in Seq(Clock)
  BY DEF IInv, TypeOK, Model
<1>2. Append(tiosts.clocks, c) \in Seq(Clock)
  BY <1>1, AppendProperties
<1>3. /\ tiosts' \in Model /\ tiosts'.transitions = tiosts.transitions
      /\ tiosts'.locations = tiosts.locations
      /\ tiosts'.initialLocation = tiosts.initialLocation
  BY <1>1, <1>2 DEF AddClock, Model
<1> QED
  BY <1>3, MutatorStep DEF AddClock, IInv

(* createLocation and setInitialLocation: the sources stay declared.       *)
LEMMA LocationStep ==
    ASSUME IInv, NEW l \in Label, AddNewLocation(l) \/ MarkInitial(l)
    PROVE  IInv'
<1>1. tiosts \in Model
  BY DEF IInv, TypeOK
<1>2. CASE AddNewLocation(l)
  <2>1. /\ tiosts' \in Model /\ tiosts'.transitions = tiosts.transitions
        /\ tiosts'.locations = tiosts.locations \cup {l}
        /\ tiosts'.initialLocation = tiosts.initialLocation
    BY <1>1, <1>2 DEF AddNewLocation, AddLocation, Model
  <2> QED
    BY <1>2, <2>1, MutatorStep DEF AddNewLocation, IInv
<1>3. CASE MarkInitial(l)
  <2>1. /\ tiosts' \in Model /\ tiosts'.transitions = tiosts.transitions
        /\ tiosts'.locations = tiosts.locations
        /\ tiosts'.initialLocation = l /\ l \in tiosts.locations
    BY <1>1, <1>3 DEF MarkInitial, SetInitialLocation, Model
  <2> QED
    BY <1>3, <2>1, MutatorStep DEF MarkInitial, IInv
<1> QED
  BY <1>2, <1>3

(* createInput, createOutput and createInternal.                           *)
LEMMA DeclareStep ==
    ASSUME IInv, NEW t \in NewTransition, DeclareAction(t.action)
    PROVE  IInv'
<1>1. tiosts \in Model /\ t.action \in Action
  BY NewTransitionAssumption DEF IInv, TypeOK, Transition
<1>2. /\ tiosts' \in Model /\ tiosts'.transitions = tiosts.transitions
      /\ tiosts'.locations = tiosts.locations
      /\ tiosts'.initialLocation = tiosts.initialLocation
  BY <1>1 DEF DeclareAction, AddAction, Model, Action
<1> QED
  BY <1>2, MutatorStep DEF DeclareAction, IInv

(* createTransition: the map has the last transition of the key.           *)
LEMMA NewTransitionStep ==
    ASSUME IInv, NEW t \in NewTransition, NewTransitionCall(t)
    PROVE  IInv'
<1> DEFINE parsed == [t EXCEPT !.clockGuard = ParseClockGuard(@, tiosts.clocks)]
<1>1. /\ tiosts \in Model /\ created \in Seq(Transition) /\ t \in Transition
      /\ tiosts.transitions = Latest /\ IsFiniteSet(tiosts.transitions)
      /\ t.source \in tiosts.locations
  BY NewTransitionAssumption DEF IInv, TypeOK, MapHoldsLatest, NewTransitionCall
<1>2. parsed = Reparsed(tiosts, t)
  BY DEF Reparsed
<1>3. parsed \in Transition /\ parsed.source = t.source
  BY <1>1, <1>2, ReparsedType
<1>4. /\ tiosts' = CreateTransition(tiosts, parsed)
      /\ created' = Append(created, parsed)
      /\ UNCHANGED <<copy, crashed>>
  BY DEF NewTransitionCall
<1> HIDE DEF parsed
<1>5. Latest = LastOfKeys(created) /\ Latest' = LastOfKeys(created')
  BY DEF Latest, LastOfKeys
<1>6. /\ tiosts' \in Model /\ tiosts'.locations = tiosts.locations
      /\ tiosts'.transitions = Latest' /\ IsFiniteSet(tiosts'.transitions)
      /\ tiosts'.transitions \subseteq tiosts.transitions \cup {parsed}
      /\ tiosts'.initialLocation = tiosts.initialLocation
      /\ created' \in Seq(Transition)
  <2>1. /\ CreateTransition(tiosts, parsed) \in Model
        /\ CreateTransition(tiosts, parsed).locations = tiosts.locations
    BY <1>1, <1>3, CreateTransitionType
  <2>2. tiosts.transitions = LastOfKeys(created)
    BY <1>1, <1>5
  <2>3. /\ CreateTransition(tiosts, parsed).transitions = LastOfKeys(Append(created, parsed))
        /\ IsFiniteSet(CreateTransition(tiosts, parsed).transitions)
        /\ CreateTransition(tiosts, parsed).transitions \subseteq tiosts.transitions \cup {parsed}
        /\ CreateTransition(tiosts, parsed).initialLocation = tiosts.initialLocation
    BY <1>1, <1>3, <2>2, CreatedLatest
  <2>4. Append(created, parsed) \in Seq(Transition)
    BY <1>1, <1>3, AppendProperties
  <2> QED
    BY <1>4, <1>5, <2>1, <2>3, <2>4
<1>7. TypeOK'
  BY <1>4, <1>6 DEF IInv, TypeOK
<1>8. MapHoldsLatest'
  BY <1>1, <1>3, <1>6 DEF IInv, MapHoldsLatest
<1> QED
  BY <1>4, <1>6, <1>7, <1>8, CopyStays DEF IInv

(* What a step that makes a copy gives.                                    *)
LEMMA CloneStep ==
    ASSUME IInv, Clone
    PROVE  /\ IInv'
           /\ WithoutIds(OutTransitions(copy')) = WithoutIds(Latest)
<1>1. /\ tiosts \in Model /\ created \in Seq(Transition)
      /\ tiosts.transitions = Latest /\ IsFiniteSet(tiosts.transitions)
      /\ \A t \in tiosts.transitions : t.source \in tiosts.locations
      /\ tiosts.initialLocation \in tiosts.locations \cup {NoLabel}
      /\ copy' \in Clones(tiosts) /\ UNCHANGED <<tiosts, created, crashed>>
  BY DEF IInv, TypeOK, MapHoldsLatest, Clone
<1>2. \A t, u \in tiosts.transitions : Key(t) = Key(u) => t = u
  <2>1. tiosts.transitions = LastOfKeys(created)
    BY <1>1 DEF Latest, LastOfKeys
  <2> QED
    BY <1>1, <2>1, LastOfKeysDistinct
<1>3. /\ ListsMatchMap(copy') /\ ClocksResolved(copy')
      /\ WithoutIds(OutTransitions(copy')) = WithoutIds(tiosts.transitions)
  BY <1>1, <1>2, CopyConsistent
<1>4. copy' \in Model
  BY <1>1, CopyOf
<1>5. TypeOK'
  BY <1>1, <1>4 DEF IInv, TypeOK
<1>6. Latest' = Latest
  BY <1>1 DEF Latest
<1>7. MapHoldsLatest'
  BY <1>1, <1>6 DEF MapHoldsLatest
<1>8. CopyListsMatchMap' /\ CopyResolvesClocks'
  BY <1>3 DEF ListsMatchMap, ClocksResolved, CopyListsMatchMap, CopyResolvesClocks
<1> QED
  BY <1>1, <1>3, <1>5, <1>7, <1>8 DEF IInv

-----------------------------------------------------------------------------
(* The theorems.                                                           *)

(* The invariant is inductive, and only clone() makes another copy.        *)
LEMMA StepIInv == IInv /\ [Next]_vars => IInv'
<1> SUFFICES ASSUME IInv, [Next]_vars PROVE IInv'
  OBVIOUS
<1>1. CASE \E c \in Clock : AddClock(c)
  BY <1>1, AddClockStep
<1>2. CASE \E l \in Label : AddNewLocation(l) \/ MarkInitial(l)
  BY <1>2, LocationStep
<1>3. CASE \E t \in NewTransition : DeclareAction(t.action)
  BY <1>3, DeclareStep
<1>4. CASE \E t \in NewTransition : NewTransitionCall(t)
  BY <1>4, NewTransitionStep
<1>5. CASE Clone
  BY <1>5, CloneStep
<1>6. CASE CloneFails \/ UNCHANGED vars
  BY <1>6, MutatorStep DEF CloneFails, vars, IInv, TypeOK
<1> QED
  BY <1>1, <1>2, <1>3, <1>4, <1>5, <1>6 DEF Next

(* In every reachable state, whatever the mutators and clone() did, the    *)
(* map is the last createTransition of every key and the copy matches it.  *)
THEOREM Invariance == Spec => []IInv
  BY InitIInv, StepIInv, PTL DEF Spec

(* The object and its copy keep the shape of class TIOSTS, in any order of *)
(* calls of the mutators.                                                  *)
THEOREM TypeCorrect == Spec => []TypeOK
<1>1. IInv => TypeOK
  BY DEF IInv
<1> QED
  BY <1>1, Invariance, PTL

(* Whatever was called before, in a copy the lists of the locations and    *)
(* the map agree.                                                          *)
THEOREM CopiesAgree == Spec => []CopyListsMatchMap
<1>1. IInv => CopyListsMatchMap
  BY DEF IInv
<1> QED
  BY <1>1, Invariance, PTL

(* The ids in the guards of a copy are the positions of its clocks, also   *)
(* of those declared after the guard was parsed first.                     *)
THEOREM CopiesResolve == Spec => []CopyResolvesClocks
<1>1. IInv => CopyResolvesClocks
  BY DEF IInv
<1> QED
  BY <1>1, Invariance, PTL

(* clone() keeps of every key the transition that was created last.        *)
THEOREM CopiesKeepLatest == Spec => CloneKeepsLatest
<1>1. IInv /\ [Next]_vars =>
        [copy' # copy => WithoutIds(OutTransitions(copy')) = WithoutIds(Latest)]_vars
  <2> SUFFICES ASSUME IInv, Next, copy' # copy
               PROVE  WithoutIds(OutTransitions(copy')) = WithoutIds(Latest)
    OBVIOUS
  <2>1. Clone
    BY DEF Next, AddClock, AddNewLocation, MarkInitial, DeclareAction, NewTransitionCall,
           CloneFails
  <2> QED
    BY <2>1, CloneStep
<1> QED
  BY <1>1, Invariance, PTL DEF Spec, CloneKeepsLatest
=============================================================================
