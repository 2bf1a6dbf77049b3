---------------------------- MODULE TIOSTS_proofs ----------------------------
(***************************************************************************)
(* Lemmas about TIOSTS and GuardNegation, for every value of the           *)
(* constants: the mutators and clone(), what a run of createTransition     *)
(* calls does to a model, and that the negation of a supported guard holds *)
(* exactly when the guard does not.                                        *)
(***************************************************************************)
EXTENDS GuardNegation, FiniteSetTheorems, SequenceTheorems, TLAPS

-----------------------------------------------------------------------------
(* The mutators.                                                           *)

(* indexOf is at least -1, so the index of a clock in the DBM is a natural *)
(* number, for a clock that is not in the list too.                        *)
LEMMA ClockIdType ==
    ASSUME NEW clocks \in Seq(Clock), NEW c
    PROVE  ClockId(clocks, c) \in Nat
<1> DEFINE before == {i \in DOMAIN clocks : \A j \in 1..i : clocks[j] # c}
<1>1. DOMAIN clocks = 1..Len(clocks) /\ Len(clocks) \in Nat
  BY LenProperties
<1>2. IsFiniteSet(1..Len(clocks))
  BY <1>1, FS_Interval
<1>3. IsFiniteSet(before)
  BY <1>1, <1>2, FS_Subset
<1>4. Cardinality(before) \in Nat
  BY <1>3, FS_CardinalityType
<1> QED
  BY <1>4 DEF ClockId

(* Printing a guard and parsing it again gives a guard over the same       *)
(* clocks; the endpoints and the action of the transition stay.            *)
LEMMA ReparsedType ==
    ASSUME NEW m \in Model, NEW t \in Transition
    PROVE  /\ Reparsed(m, t) \in Transition
           /\ Reparsed(m, t).source = t.source
           /\ Reparsed(m, t).target = t.target
           /\ Reparsed(m, t).action = t.action
<1>1. m.clocks \in Seq(Clock)
  BY DEF Model
<1>2. ASSUME NEW g \in SimpleClockGuard
      PROVE  [g EXCEPT !.id = ClockId(m.clocks, g.clock)] \in SimpleClockGuard
  <2>1. ClockId(m.clocks, g.clock) \in Nat
    BY <1>1, ClockIdType
  <2> QED
    BY <2>1 DEF SimpleClockGuard
<1>3. t.clockGuard \subseteq SimpleClockGuard
  BY DEF Transition
<1>4. ParseClockGuard(t.clockGuard, m.clocks) \subseteq SimpleClockGuard
  BY <1>2, <1>3 DEF ParseClockGuard
<1> QED
  BY <1>4 DEF Reparsed, Transition

(* addLocation keeps a TIOSTS well typed and touches nothing else.         *)
LEMMA AddLocationType ==
    ASSUME NEW m \in Model, NEW l \in Label
    PROVE  /\ AddLocation(m, l) \in Model
           /\ AddLocation(m, l).out = m.out
  BY DEF AddLocation, Model

(* createTransition appends to one list and leaves the others alone.       *)
LEMMA CreateTransitionType ==
    ASSUME NEW m \in Model, NEW t \in Transition
    PROVE  /\ CreateTransition(m, t) \in Model
           /\ CreateTransition(m, t).locations = m.locations
           /\ \A l \in Label :
                 CreateTransition(m, t).out[l] =
                    IF l = t.source THEN Append(m.out[l], t) ELSE m.out[l]
<1>1. /\ t.source \in Label
      /\ t.dataGuard \subseteq Atom
  BY DEF Transition
<1>2. m.out[t.source] \in Seq(Transition)
  BY <1>1 DEF Model
<1>3. Append(m.out[t.source], t) \in Seq(Transition)
  BY <1>2, AppendProperties
<1>4. Put(m.transitions, t) \subseteq Transition
  BY DEF Put, Model
<1> QED
  BY <1>1, <1>3, <1>4 DEF CreateTransition, Model

(* put() after another createTransition: the new transition is the last of *)
(* its key, and the last ones of the other keys stay.                      *)
LEMMA PutKeepsLast ==
    ASSUME NEW s \in Seq(Transition), NEW t \in Transition
    PROVE  Put(LastOfKeys(s), t) = LastOfKeys(Append(s, t))
<1> DEFINE e == Append(s, t)
           n == Len(s)
           last(j) == \A k \in DOMAIN s : Key(s[k]) = Key(s[j]) => k <= j
           lastE(j) == \A k \in DOMAIN e : Key(e[k]) = Key(e[j]) => k <= j
<1>1. /\ n \in Nat /\ DOMAIN s = 1..n /\ DOMAIN e = 1..n + 1
      /\ \A k \in 1..n : e[k] = s[k]
      /\ e[n + 1] = t
  BY AppendProperties, LenProperties
<1>2. LastOfKeys(s) = {s[j] : j \in {k \in DOMAIN s : last(k)}}
  BY DEF LastOfKeys
<1>3. LastOfKeys(e) = {e[j] : j \in {k \in DOMAIN e : lastE(k)}}
  BY DEF LastOfKeys
<1>4. lastE(n + 1)
  BY <1>1
<1>5. ASSUME NEW j \in 1..n
      PROVE  lastE(j) <=> (last(j) /\ Key(s[j]) # Key(t))
  <2>1. n + 1 \in DOMAIN e /\ ~(n + 1 <= j)
    BY <1>1
  <2>2. e[j] = s[j]
    BY <1>1
  <2>3. ASSUME last(j), Key(s[j]) # Key(t)
        PROVE  lastE(j)
    <3> SUFFICES ASSUME NEW k \in DOMAIN e, Key(e[k]) = Key(e[j]) PROVE k <= j
      OBVIOUS
    <3>1. k # n + 1
      BY <1>1, <2>2, <2>3
    <3>2. k \in 1..n
      BY <1>1, <3>1
    <3> QED
      BY <1>1, <2>2, <2>3, <3>2
  <2>4. ASSUME lastE(j)
        PROVE  last(j) /\ Key(s[j]) # Key(t)
    <3>1. Key(e[n + 1]) # Key(e[j])
      BY <2>1, <2>4
    <3>2. ASSUME NEW k \in DOMAIN s, Key(s[k]) = Key(s[j])
          PROVE  k <= j
      <4>1. k \in DOMAIN e /\ e[k] = s[k]
        BY <1>1
      <4> QED
        BY <2>2, <2>4, <3>2, <4>1
    <3> QED
      BY <1>1, <2>2, <3>1, <3>2
  <2> QED
    BY <2>3, <2>4
<1>6. ASSUME NEW u
      PROVE  u \in Put(LastOfKeys(s), t) <=> u \in LastOfKeys(e)
  <2>1. u \in Put(LastOfKeys(s), t)
           <=> (u = t \/ \E j \in 1..n : u = s[j] /\ last(j) /\ Key(s[j]) # Key(t))
    <3> HIDE DEF last
    <3> QED
      BY <1>1, <1>2 DEF Put
  <2>2. u \in LastOfKeys(e) <=> \E j \in 1..n + 1 : u = e[j] /\ lastE(j)
    <3> HIDE DEF lastE, e
    <3> QED
      BY <1>1, <1>3
  <2> HIDE DEF last, lastE, e
  <2>3. (\E j \in 1..n + 1 : u = e[j] /\ lastE(j))
           <=> (u = t \/ \E j \in 1..n : u = e[j] /\ lastE(j))
    BY <1>1, <1>4
  <2> QED
    BY <1>1, <1>5, <2>1, <2>2, <2>3
<1> QED
  BY <1>6

(* No two transitions are the last ones of one key.                        *)
LEMMA LastOfKeysDistinct ==
    ASSUME NEW s \in Seq(Transition), NEW t \in LastOfKeys(s), NEW u \in LastOfKeys(s),
           Key(t) = Key(u)
    PROVE  t = u
<1>1. PICK i \in DOMAIN s :
         t = s[i] /\ \A k \in DOMAIN s : Key(s[k]) = Key(s[i]) => k <= i
  BY DEF LastOfKeys
<1>2. PICK j \in DOMAIN s :
         u = s[j] /\ \A k \in DOMAIN s : Key(s[k]) = Key(s[j]) => k <= j
  BY DEF LastOfKeys
<1>3. i \in Nat /\ j \in Nat /\ i <= j /\ j <= i
  BY <1>1, <1>2, LenProperties
<1> QED
  BY <1>1, <1>2, <1>3

-----------------------------------------------------------------------------
(* clone().                                                                *)

(* The transitions cloned for a location are finitely many, well typed, and *)
(* leave that location.                                                    *)
LEMMA ClonedFromType ==
    ASSUME NEW m \in Model, IsFiniteSet(m.transitions), NEW l
    PROVE  /\ IsFiniteSet(ClonedFrom(m, l))
           /\ ClonedFrom(m, l) \subseteq Transition
           /\ \A t \in ClonedFrom(m, l) : t.source = l
<1> DEFINE leaving == {u \in m.transitions : u.source = l}
           copy    == [u \in leaving |-> Reparsed(m, u)]
<1>1. m.transitions \subseteq Transition
  BY DEF Model
<1>2. IsFiniteSet(leaving)
  BY FS_Subset
<1>3. copy \in Surjection(leaving, ClonedFrom(m, l))
  BY DEF Surjection, ClonedFrom
<1>4. IsFiniteSet(ClonedFrom(m, l))
  <2> HIDE DEF leaving, copy
  <2> QED
    BY <1>2, <1>3, FS_Surjection
<1>5. \A u \in leaving : Reparsed(m, u) \in Transition /\ Reparsed(m, u).source = l
  BY <1>1, ReparsedType
<1> QED
  BY <1>4, <1>5 DEF ClonedFrom

(* An ordering of a finite set is a sequence of its elements, as long as   *)
(* the set is large.                                                       *)
LEMMA OrderingIsSequence ==
    ASSUME NEW S, IsFiniteSet(S), NEW s \in SetToSeqs(S)
    PROVE  /\ s \in Seq(S)
           /\ Len(s) = Cardinality(S)
           /\ DOMAIN s = 1..Len(s)
<1>1. Cardinality(S) \in Nat
  BY FS_CardinalityType
<1>2. s \in [1..Cardinality(S) -> S]
  BY DEF SetToSeqs
<1> QED
  BY <1>1, <1>2

(* The ordering of a finite set has each of its elements once.             *)
LEMMA OrderingOnce ==
    ASSUME NEW S, IsFiniteSet(S), NEW s \in SetToSeqs(S)
    PROVE  /\ Range(s) = S
           /\ \A i, j \in DOMAIN s : s[i] = s[j] => i = j
<1>1. Cardinality(S) \in Nat
  BY FS_CardinalityType
<1>2. /\ s \in [1..Cardinality(S) -> S] /\ DOMAIN s = 1..Cardinality(S)
      /\ \A i, j \in 1..Cardinality(S) : i # j => s[i] # s[j]
  BY DEF SetToSeqs
<1>3. \A i, j \in DOMAIN s : s[i] = s[j] => i = j
  BY <1>2
<1>4. Range(s) = S
  <2>1. s \in Injection(1..Cardinality(S), S)
    BY <1>2 DEF Injection, IsInjective
  <2>2. IsFiniteSet(1..Cardinality(S)) /\ Cardinality(1..Cardinality(S)) = Cardinality(S)
    BY <1>1, FS_Interval
  <2>3. s \in Surjection(1..Cardinality(S), S)
    BY <2>1, <2>2, FS_Injection
  <2> QED
    BY <1>2, <2>3 DEF Surjection, Range
<1> QED
  BY <1>3, <1>4

(* A copy has every transition of the map, with its guard parsed again, in *)
(* the list of its source, in the order the map is iterated.               *)
LEMMA CopyOf ==
    ASSUME NEW m \in Model, IsFiniteSet(m.transitions),
           m.initialLocation \in m.locations \cup {NoLabel},
           NEW c \in Clones(m)
    PROVE  /\ c \in Model
           /\ c.locations = m.locations /\ c.clocks = m.clocks
           /\ c.initialLocation = m.initialLocation
           /\ c.inputActions = m.inputActions /\ c.outputActions = m.outputActions
           /\ c.internalActions = m.internalActions
           /\ c.transitions = {Reparsed(m, t) : t \in m.transitions}
           /\ \A l \in m.locations : c.out[l] \in SetToSeqs(ClonedFrom(m, l))
           /\ \A l \in Label \ m.locations : c.out[l] = <<>>
           /\ m.initialLocation \in m.locations /\ c.out[m.initialLocation] # <<>>
                 => c.initialCondition = Last(c.out[m.initialLocation]).dataGuard
<1> DEFINE init == m.initialLocation
<1>1. PICK lists \in CloneLists(m) : c = CloneWith(m, lists)
  BY DEF Clones
<1>2. /\ m.locations \subseteq Label /\ m.transitions \subseteq Transition
      /\ m.initialCondition \subseteq Atom
  BY DEF Model
<1>3. ASSUME NEW l \in m.locations
      PROVE  /\ lists[l] \in SetToSeqs(ClonedFrom(m, l))
             /\ lists[l] \in Seq(Transition)
  <2>1. lists[l] \in SetToSeqs(ClonedFrom(m, l))
    BY <1>1 DEF CloneLists
  <2>2. IsFiniteSet(ClonedFrom(m, l)) /\ ClonedFrom(m, l) \subseteq Transition
    BY ClonedFromType
  <2>3. lists[l] \in Seq(ClonedFrom(m, l))
    BY <2>1, <2>2, OrderingIsSequence
  <2> QED
    BY <2>1, <2>2, <2>3, SeqMonotonic
<1>4. /\ c.locations = m.locations /\ c.variables = m.variables
      /\ c.clocks = m.clocks /\ c.initialLocation = init
      /\ c.inputActions = m.inputActions /\ c.outputActions = m.outputActions
      /\ c.internalActions = m.internalActions
      /\ c.transitions = {Reparsed(m, t) : t \in m.transitions}
      /\ c.initialCondition = ClonedCondition(m, lists)
      /\ c.out = [l \in Label |-> IF l \in m.locations THEN lists[l] ELSE <<>>]
      /\ c = [m EXCEPT !.initialCondition = c.initialCondition,
                       !.out = c.out, !.transitions = c.transitions]
  BY <1>1 DEF CloneWith, Model
<1>5. /\ \A l \in m.locations : c.out[l] = lists[l]
      /\ \A l \in Label \ m.locations : c.out[l] = <<>>
  BY <1>2, <1>4
<1>6. c.transitions \subseteq Transition
  <2>1. \A t \in m.transitions : Reparsed(m, t) \in Transition
    BY <1>2, ReparsedType
  <2>2. c.transitions = {Reparsed(m, t) : t \in m.transitions}
    BY <1>4
  <2> QED
    BY <2>1, <2>2
<1>7. c.out \in [Label -> Seq(Transition)]
  BY <1>3, <1>4, EmptySeq
<1>8. CASE init \in m.locations /\ lists[init] # <<>>
  <2>1. lists[init] \in Seq(Transition) /\ Len(lists[init]) \in DOMAIN lists[init]
    BY <1>3, <1>8, EmptySeq, LenProperties
  <2>2. c.initialCondition = Last(c.out[init]).dataGuard
    BY <1>4, <1>5, <1>8 DEF ClonedCondition, Last
  <2>3. Last(c.out[init]) \in Transition
    BY <1>5, <1>8, <2>1, ElementOfSeq, LenProperties DEF Last
  <2>4. c.initialCondition \subseteq Atom
    BY <2>2, <2>3 DEF Transition
  <2>5. c \in Model
    BY <1>4, <1>6, <1>7, <2>4 DEF Model
  <2> QED
    BY <1>3, <1>4, <1>5, <2>2, <2>5
<1>9. CASE ~(init \in m.locations /\ lists[init] # <<>>)
  <2>1. c.initialCondition \subseteq Atom
    BY <1>2, <1>4, <1>9 DEF ClonedCondition
  <2>2. c \in Model
    BY <1>4, <1>6, <1>7, <2>1 DEF Model
  <2> QED
    BY <1>3, <1>4, <1>5, <1>9, <2>2
<1> QED
  BY <1>8, <1>9

(* What clone() keeps, whatever the order in which the map is iterated.    *)
CloneOf(m, c) ==
    /\ c \in Model
    /\ c.locations = m.locations
    /\ c.variables = m.variables
    /\ ActionNames(c) = ActionNames(m)
    /\ c.initialLocation \in c.locations
    /\ Len(c.out[c.initialLocation]) \in Nat \ {0}
    /\ \A l \in c.locations : \A i \in DOMAIN c.out[l] :
          c.out[l][i].source = l /\ c.out[l][i].target \in c.locations

(* The transition a well-formed model starts with is in the map.           *)
LEMMA InitialIsListed ==
    ASSUME NEW m, WellFormed(m)
    PROVE  /\ m.out[m.initialLocation][1] \in m.transitions
           /\ m.out[m.initialLocation][1].source = m.initialLocation
           /\ \A u \in m.transitions :
                 u.source = m.initialLocation => u = m.out[m.initialLocation][1]
<1> DEFINE init == m.initialLocation
<1>1. /\ m \in Model /\ init \in m.locations /\ init \in Label
      /\ m.out[init] \in Seq(Transition)
      /\ Len(m.out[init]) = 1
  BY DEF WellFormed, Model
<1>2. DOMAIN m.out[init] = {1}
  BY <1>1
<1>3. m.out[init][1].source = init
  BY <1>1, <1>2 DEF WellFormed
<1>4. \A u \in m.transitions : u.source = init => u = m.out[init][1]
  <2> SUFFICES ASSUME NEW u \in m.transitions, u.source = init
               PROVE  u = m.out[init][1]
    OBVIOUS
  <2>1. PICK l \in m.locations : u \in Range(m.out[l])
    BY DEF WellFormed, OutTransitions
  <2>2. l = init
    BY <2>1 DEF WellFormed, Range
  <2> QED
    BY <1>2, <2>1, <2>2 DEF Range
<1>5. m.out[init][1] \in OutTransitions(m)
  BY <1>1, <1>2 DEF OutTransitions, Range
<1>6. PICK u \in m.transitions : Key(u) = Key(m.out[init][1])
  BY <1>5 DEF WellFormed
<1>7. u.source = init
  BY <1>3, <1>6 DEF Key
<1> QED
  BY <1>3, <1>4, <1>6, <1>7

(* Every transition in the map of a well-formed model ends in a location   *)
(* of the model.                                                           *)
LEMMA TargetsDeclared ==
    ASSUME NEW m, WellFormed(m), NEW t \in m.transitions
    PROVE  t.target \in m.locations
  BY DEF WellFormed, OutTransitions, Range

(* clone() of a well-formed model keeps its declarations and locations,    *)
(* and starts with a transition that carries the same action.              *)
LEMMA CloneShape ==
    ASSUME NEW m, WellFormed(m), NEW c \in Clones(m)
    PROVE  /\ CloneOf(m, c)
           /\ c.initialLocation = m.initialLocation
           /\ c.out[c.initialLocation][1].action = m.out[m.initialLocation][1].action
<1> DEFINE init == m.initialLocation
<1>1. PICK lists \in CloneLists(m) : c = CloneWith(m, lists)
  BY DEF Clones
<1>2. /\ m \in Model /\ init \in m.locations /\ IsFiniteSet(m.transitions)
      /\ m.locations \subseteq Label /\ m.transitions \subseteq Transition
  BY DEF WellFormed, Model
<1>3. ASSUME NEW l \in m.locations
      PROVE  /\ lists[l] \in Seq(ClonedFrom(m, l))
             /\ lists[l] \in Seq(Transition)
             /\ Len(lists[l]) = Cardinality(ClonedFrom(m, l))
             /\ DOMAIN lists[l] = 1..Len(lists[l])
             /\ \A i \in DOMAIN lists[l] : lists[l][i] \in ClonedFrom(m, l)
  <2>1. lists[l] \in SetToSeqs(ClonedFrom(m, l))
    BY <1>1 DEF CloneLists
  <2>2. IsFiniteSet(ClonedFrom(m, l)) /\ ClonedFrom(m, l) \subseteq Transition
    BY <1>2, ClonedFromType
  <2>3. /\ lists[l] \in Seq(ClonedFrom(m, l))
        /\ Len(lists[l]) = Cardinality(ClonedFrom(m, l))
        /\ DOMAIN lists[l] = 1..Len(lists[l])
    BY <2>1, <2>2, OrderingIsSequence
  <2>4. lists[l] \in Seq(Transition)
    BY <2>2, <2>3, SeqMonotonic
  <2> QED
    BY <2>3, <2>4, ElementOfSeq
<1>4. /\ c.locations = m.locations /\ c.variables = m.variables
      /\ c.clocks = m.clocks /\ c.initialLocation = init
      /\ c.inputActions = m.inputActions /\ c.outputActions = m.outputActions
      /\ c.internalActions = m.internalActions
      /\ c.transitions = {Reparsed(m, t) : t \in m.transitions}
      /\ c.initialCondition = ClonedCondition(m, lists)
      /\ c.out = [l \in Label |-> IF l \in m.locations THEN lists[l] ELSE <<>>]
      /\ c = [m EXCEPT !.initialCondition = c.initialCondition,
                       !.out = c.out, !.transitions = c.transitions]
  BY <1>1, <1>2 DEF CloneWith, Model
<1>5. \A l \in m.locations : c.out[l] = lists[l]
  BY <1>2, <1>4
<1>6. c.transitions \subseteq Transition
  <2>1. \A t \in m.transitions : Reparsed(m, t) \in Transition
    BY <1>2, ReparsedType
  <2>2. c.transitions = {Reparsed(m, t) : t \in m.transitions}
    BY <1>4
  <2> QED
    BY <2>1, <2>2
<1>7. c.out \in [Label -> Seq(Transition)]
  BY <1>3, <1>4, EmptySeq
<1>8. c.initialCondition \subseteq Atom
  <2>1. CASE lists[init] # <<>>
    <3>1. Len(lists[init]) \in 1..Len(lists[init])
      BY <1>2, <1>3, <2>1, EmptySeq
    <3>2. lists[init][Len(lists[init])] \in Transition
      BY <1>2, <1>3, <3>1, ElementOfSeq
    <3> QED
      BY <1>2, <1>4, <2>1, <3>2 DEF ClonedCondition, Transition
  <2>2. CASE lists[init] = <<>>
    BY <1>2, <1>4, <2>2 DEF ClonedCondition, Model
  <2> QED
    BY <2>1, <2>2
<1>9. c \in Model
  BY <1>2, <1>4, <1>6, <1>7, <1>8 DEF Model
<1>10. ASSUME NEW l \in c.locations, NEW i \in DOMAIN c.out[l]
       PROVE  c.out[l][i].source = l /\ c.out[l][i].target \in c.locations
  <2>1. c.out[l][i] \in ClonedFrom(m, l)
    BY <1>3, <1>4, <1>5
  <2>2. PICK u \in m.transitions : u.source = l /\ c.out[l][i] = Reparsed(m, u)
    BY <2>1 DEF ClonedFrom
  <2>3. Reparsed(m, u).source = u.source /\ Reparsed(m, u).target = u.target
    BY <1>2, ReparsedType
  <2> QED
    BY <1>4, <2>2, <2>3, TargetsDeclared
<1>11. /\ Len(c.out[init]) \in Nat \ {0}
       /\ c.out[init][1].action = m.out[init][1].action
  <2>1. Reparsed(m, m.out[init][1]) \in ClonedFrom(m, init)
    BY InitialIsListed DEF ClonedFrom
  <2>2. Cardinality(ClonedFrom(m, init)) # 0 /\ Cardinality(ClonedFrom(m, init)) \in Nat
    BY <1>2, <2>1, ClonedFromType, FS_EmptySet, FS_CardinalityType
  <2>3. Len(c.out[init]) \in Nat \ {0} /\ 1 \in DOMAIN lists[init]
    BY <1>2, <1>3, <1>5, <2>2
  <2>4. c.out[init][1] \in ClonedFrom(m, init)
    BY <1>2, <1>3, <1>5, <2>3
  <2>5. PICK u \in m.transitions : u.source = init /\ c.out[init][1] = Reparsed(m, u)
    BY <2>4 DEF ClonedFrom
  <2>6. u = m.out[init][1]
    BY <2>5, InitialIsListed
  <2> QED
    BY <1>2, <2>3, <2>5, <2>6, ReparsedType
<1> QED
  BY <1>2, <1>4, <1>9, <1>10, <1>11 DEF CloneOf, ActionNames

(* The compiler declares what clone() looks up.                            *)
LEMMA CompiledCloneable ==
    ASSUME NEW m, WellFormed(m)
    PROVE  Cloneable(m)
  BY DEF WellFormed, Cloneable

(* clone() keeps the keys of the map apart, and lets one transition leave  *)
(* the initial location.                                                   *)
LEMMA CloneKeyed ==
    ASSUME NEW m, WellFormed(m), NEW c \in Clones(m)
    PROVE  /\ \A t, u \in c.transitions : Key(t) = Key(u) => t = u
           /\ \A t \in c.transitions :
                 t.source = c.initialLocation
                     => t.action = c.out[c.initialLocation][1].action
<1>1. /\ m \in Model /\ IsFiniteSet(m.transitions) /\ m.transitions \subseteq Transition
      /\ m.initialLocation \in m.locations \cup {NoLabel}
      /\ \A t, u \in m.transitions : Key(t) = Key(u) => t = u
  BY DEF WellFormed, Model
<1>2. c.transitions = {Reparsed(m, t) : t \in m.transitions}
  BY <1>1, CopyOf
<1>3. \A t \in m.transitions : /\ Key(Reparsed(m, t)) = Key(t)
                               /\ Reparsed(m, t).source = t.source
                               /\ Reparsed(m, t).action = t.action
  BY <1>1, ReparsedType DEF Key
<1>4. \A t, u \in c.transitions : Key(t) = Key(u) => t = u
  <2> SUFFICES ASSUME NEW t \in m.transitions, NEW u \in m.transitions,
                      Key(Reparsed(m, t)) = Key(Reparsed(m, u))
               PROVE  Reparsed(m, t) = Reparsed(m, u)
    BY <1>2
  <2>1. Key(t) = Key(u)
    BY <1>3
  <2> QED
    BY <1>1, <2>1
<1>5. \A t \in c.transitions :
         t.source = c.initialLocation => t.action = c.out[c.initialLocation][1].action
  <2> SUFFICES ASSUME NEW t \in m.transitions, Reparsed(m, t).source = c.initialLocation
               PROVE  Reparsed(m, t).action = c.out[c.initialLocation][1].action
    BY <1>2
  <2>1. /\ c.initialLocation = m.initialLocation
        /\ c.out[c.initialLocation][1].action = m.out[m.initialLocation][1].action
    BY CloneShape
  <2>2. t = m.out[m.initialLocation][1]
    BY <1>3, <2>1, InitialIsListed
  <2> QED
    BY <1>3, <2>1, <2>2
<1> QED
  BY <1>4, <1>5

-----------------------------------------------------------------------------
(* Sequences.                                                              *)

(* A set of positions that is not empty has a last one.  The positions     *)
(* from i on, for each i of the set, are finite sets: one of them has no   *)
(* smaller one among them.                                                 *)
LEMMA HasLast ==
    ASSUME NEW n \in Nat, NEW I \in SUBSET (1..n), I # {}
    PROVE  \E i \in I : \A j \in I : j <= i
<1> DEFINE from(i) == {j \in I : j >= i}
           T == {from(i) : i \in I}
<1>1. IsFiniteSet(I) /\ \A i \in I : i \in Int
  <2>1. 1 \in Int /\ n \in Int
    OBVIOUS
  <2>2. IsFiniteSet(1..n)
    BY <2>1, FS_Interval
  <2>3. IsFiniteSet(I)
    BY <2>2, FS_Subset
  <2> QED
    BY <2>1, <2>3
<1>2. T \subseteq FiniteSubsetsOf(I)
  BY <1>1, FS_Subset DEF FiniteSubsetsOf
<1>3. IsWellFoundedOn(StrictSubsetOrdering(I), FiniteSubsetsOf(I))
  BY FS_StrictSubsetOrderingWellFounded
<1>4. T # {}
  OBVIOUS
<1>5. PICK x \in T : \A y \in T : ~ (<<y, x>> \in StrictSubsetOrdering(I))
  <2> HIDE DEF T
  <2> QED
    BY <1>2, <1>3, <1>4, WFMin
<1>6. PICK i \in I : x = from(i)
  OBVIOUS
<1>7. \A j \in I : ~(j > i)
  <2> SUFFICES ASSUME NEW j \in I, j > i PROVE FALSE
    OBVIOUS
  <2>1. i \in Int /\ j \in Int
    BY <1>1
  <2>2. from(j) \subseteq from(i)
    <3>1. \A k \in I : k >= j => k >= i
      BY <1>1, <2>1
    <3> QED
      BY <3>1
  <2>3. i \notin from(j) /\ i \in from(i)
    BY <2>1
  <2>4. <<from(j), x>> \in StrictSubsetOrdering(I)
    <3>1. from(j) \subseteq I /\ from(i) \subseteq I
      OBVIOUS
    <3> HIDE DEF from
    <3> QED
      BY <1>6, <2>2, <2>3, <3>1 DEF StrictSubsetOrdering
  <2>5. from(j) \in T
    OBVIOUS
  <2> HIDE DEF T, from
  <2> QED
    BY <1>5, <2>4, <2>5
<1> QED
  BY <1>1, <1>7

(* After a run of put(), every key that was put is in the map.             *)
LEMMA LastOfKeysCover ==
    ASSUME NEW s \in Seq(Transition), NEW i \in DOMAIN s
    PROVE  /\ \E t \in LastOfKeys(s) : Key(t) = Key(s[i])
           /\ LastOfKeys(s) \subseteq Range(s)
<1> DEFINE same == {j \in DOMAIN s : Key(s[j]) = Key(s[i])}
<1>1. DOMAIN s = 1..Len(s) /\ Len(s) \in Nat
  BY LenProperties
<1>2. same \in SUBSET (1..Len(s)) /\ same # {}
  BY <1>1
<1>3. PICK j \in same : \A k \in same : k <= j
  <2> HIDE DEF same
  <2> QED
    BY <1>1, <1>2, HasLast
<1>4. s[j] \in LastOfKeys(s) /\ Key(s[j]) = Key(s[i])
  BY <1>3 DEF LastOfKeys
<1>5. LastOfKeys(s) \subseteq Range(s)
  BY DEF LastOfKeys, Range
<1> QED
  BY <1>4, <1>5

(* The elements of a concatenation.                                        *)
LEMMA RangeOfConcat ==
    ASSUME NEW S, NEW p \in Seq(S), NEW q \in Seq(S)
    PROVE  Range(p \o q) = Range(p) \cup Range(q)
<1>1. /\ p \o q \in Seq(S) /\ DOMAIN (p \o q) = 1..Len(p) + Len(q)
      /\ DOMAIN p = 1..Len(p) /\ DOMAIN q = 1..Len(q)
      /\ Len(p) \in Nat /\ Len(q) \in Nat
      /\ \A i \in 1..Len(p) + Len(q) :
            (p \o q)[i] = IF i <= Len(p) THEN p[i] ELSE q[i - Len(p)]
  BY ConcatProperties, LenProperties
<1> HIDE DEF \o
<1>2. ASSUME NEW i \in 1..Len(p) PROVE p[i] = (p \o q)[i] /\ i \in 1..Len(p) + Len(q)
  BY <1>1
<1>3. ASSUME NEW i \in 1..Len(q)
      PROVE  q[i] = (p \o q)[Len(p) + i] /\ Len(p) + i \in 1..Len(p) + Len(q)
  BY <1>1
<1>4. ASSUME NEW i \in 1..Len(p) + Len(q)
      PROVE  (p \o q)[i] \in Range(p) \/ (p \o q)[i] \in Range(q)
  <2>1. CASE i <= Len(p)
    BY <1>1, <2>1 DEF Range
  <2>2. CASE ~(i <= Len(p))
    <3>1. i - Len(p) \in 1..Len(q)
      BY <1>1, <2>2
    <3> QED
      BY <1>1, <2>2, <3>1 DEF Range
  <2> QED
    BY <2>1, <2>2
<1>5. ASSUME NEW x \in Range(p \o q) PROVE x \in Range(p) \cup Range(q)
  BY <1>1, <1>4 DEF Range
<1>6. ASSUME NEW x \in Range(p) PROVE x \in Range(p \o q)
  BY <1>1, <1>2 DEF Range
<1>7. ASSUME NEW x \in Range(q) PROVE x \in Range(p \o q)
  BY <1>1, <1>3 DEF Range
<1> QED
  BY <1>5, <1>6, <1>7

(* The elements of a sequence with one more at its end.                    *)
LEMMA RangeOfAppend ==
    ASSUME NEW S, NEW s \in Seq(S), NEW e \in S
    PROVE  Range(Append(s, e)) = Range(s) \cup {e}
<1>1. /\ Len(s) \in Nat /\ DOMAIN s = 1..Len(s)
      /\ DOMAIN Append(s, e) = 1..Len(s) + 1
      /\ \A i \in 1..Len(s) : Append(s, e)[i] = s[i]
      /\ Append(s, e)[Len(s) + 1] = e
  BY AppendProperties, LenProperties
<1>2. 1..Len(s) + 1 = 1..Len(s) \cup {Len(s) + 1}
  BY <1>1
<1> QED
  BY <1>1, <1>2 DEF Range

(* Appending to the second part of a concatenation.                        *)
LEMMA ConcatAppend ==
    ASSUME NEW S, NEW p \in Seq(S), NEW q \in Seq(S), NEW e \in S
    PROVE  p \o Append(q, e) = Append(p \o q, e)
<1>1. Append(q, e) = q \o <<e>> /\ <<e>> \in Seq(S) /\ p \o q \in Seq(S)
  BY AppendIsConcat, ConcatProperties
<1>2. Append(p \o q, e) = (p \o q) \o <<e>>
  BY <1>1, AppendIsConcat
<1>3. (p \o q) \o <<e>> = p \o (q \o <<e>>)
  BY <1>1, ConcatAssociative
<1> QED
  BY <1>1, <1>2, <1>3

(* What is left of a list after its first element.                         *)
LEMMA TailOf ==
    ASSUME NEW s \in Seq(Transition), s # <<>>
    PROVE  /\ Tail(s) \in Seq(Transition)
           /\ Head(s) = s[1] /\ 1 \in DOMAIN s /\ Head(s) \in Transition
           /\ \A k \in DOMAIN Tail(s) : k + 1 \in DOMAIN s /\ Tail(s)[k] = s[k + 1] /\ k + 1 # 1
           /\ \A k, n \in DOMAIN Tail(s) : k + 1 = n + 1 => k = n
           /\ Range(s) = Range(Tail(s)) \cup {Head(s)}
<1>1. /\ Len(s) \in Nat /\ Len(s) # 0 /\ DOMAIN s = 1..Len(s)
      /\ Tail(s) \in Seq(Transition) /\ Len(Tail(s)) = Len(s) - 1
      /\ Head(s) = s[1] /\ Head(s) \in Transition
      /\ \A k \in 1..Len(Tail(s)) : Tail(s)[k] = s[k + 1]
  BY HeadTailProperties, LenProperties, EmptySeq
<1>2. DOMAIN Tail(s) = 1..Len(s) - 1
  BY <1>1, LenProperties
<1>3. 1 \in DOMAIN s
  BY <1>1
<1>4. ASSUME NEW k \in DOMAIN Tail(s)
      PROVE  k + 1 \in DOMAIN s /\ Tail(s)[k] = s[k + 1] /\ k + 1 # 1
  BY <1>1, <1>2
<1>5. \A k, n \in DOMAIN Tail(s) : k + 1 = n + 1 => k = n
  BY <1>1, <1>2
<1>6. ASSUME NEW i \in DOMAIN s, i # 1
      PROVE  i - 1 \in DOMAIN Tail(s) /\ Tail(s)[i - 1] = s[i]
  <2>1. i - 1 \in 1..Len(s) - 1 /\ (i - 1) + 1 = i
    BY <1>1, <1>6
  <2> QED
    BY <1>1, <1>2, <2>1
<1>7. Range(s) = Range(Tail(s)) \cup {Head(s)}
  <2>1. ASSUME NEW x \in Range(s) PROVE x \in Range(Tail(s)) \cup {Head(s)}
    <3>1. PICK i \in DOMAIN s : x = s[i]
      BY DEF Range
    <3>2. CASE i = 1
      BY <1>1, <3>1, <3>2
    <3>3. CASE i # 1
      BY <1>6, <3>1, <3>3 DEF Range
    <3> QED
      BY <3>2, <3>3
  <2>2. ASSUME NEW x \in Range(Tail(s)) PROVE x \in Range(s)
    BY <1>4 DEF Range
  <2> QED
    BY <1>1, <1>3, <2>1, <2>2 DEF Range
<1> QED
  BY <1>1, <1>3, <1>4, <1>5, <1>7

-----------------------------------------------------------------------------
(* createTransition, called for a sequence of transitions.                 *)

(* Nothing to create changes nothing.                                      *)
LEMMA CreateNothing ==
    ASSUME NEW m \in Model, NEW l \in Label
    PROVE  CreateInOrder(m, l, <<>>) = m
<1>1. m.out[l] \o <<>> = m.out[l]
  BY ConcatEmptySeq DEF Model
<1>2. [m.out EXCEPT ![l] = @ \o <<>>] = m.out
  BY <1>1 DEF Model
<1>3. LastOfKeys(<<>>) = {}
  BY EmptySeq DEF LastOfKeys
<1>4. {u \in m.transitions : \A i \in DOMAIN <<>> : Key(u) # Key(<<>>[i])} = m.transitions
  BY EmptySeq
<1>5. CreateInOrder(m, l, <<>>) =
         [m EXCEPT !.initialCondition = m.initialCondition,
                   !.out = m.out, !.transitions = m.transitions]
  BY <1>1, <1>2, <1>3, <1>4 DEF CreateInOrder, Model
<1> QED
  BY <1>5 DEF Model

(* What is put over a map, after one more transition.                      *)
LEMMA PutOver ==
    ASSUME NEW map, NEW s \in Seq(Transition), NEW t \in Transition
    PROVE  Put({u \in map : \A i \in DOMAIN s : Key(u) # Key(s[i])} \cup LastOfKeys(s), t)
              = {u \in map : \A i \in DOMAIN Append(s, t) : Key(u) # Key(Append(s, t)[i])}
                   \cup LastOfKeys(Append(s, t))
<1> DEFINE kept == {u \in map : \A i \in DOMAIN s : Key(u) # Key(s[i])}
           kept2 == {u \in map : \A i \in DOMAIN Append(s, t) : Key(u) # Key(Append(s, t)[i])}
<1>1. /\ Len(s) \in Nat /\ DOMAIN s = 1..Len(s)
      /\ DOMAIN Append(s, t) = 1..Len(s) + 1
      /\ \A i \in 1..Len(s) : Append(s, t)[i] = s[i]
      /\ Append(s, t)[Len(s) + 1] = t
  BY AppendProperties, LenProperties
<1>2. 1..Len(s) + 1 = 1..Len(s) \cup {Len(s) + 1}
  BY <1>1
<1>3. \A u : (\A i \in DOMAIN Append(s, t) : Key(u) # Key(Append(s, t)[i]))
          <=> (\A i \in DOMAIN s : Key(u) # Key(s[i])) /\ Key(u) # Key(t)
  BY <1>1, <1>2
<1>4. kept2 = {u \in kept : Key(u) # Key(t)}
  BY <1>3
<1>5. Put(LastOfKeys(s), t) = LastOfKeys(Append(s, t))
  BY PutKeepsLast
<1>6. Put(kept \cup LastOfKeys(s), t)
         = {u \in kept : Key(u) # Key(t)} \cup Put(LastOfKeys(s), t)
  <2> HIDE DEF kept
  <2> QED
    BY DEF Put
<1> QED
  BY <1>4, <1>5, <1>6

(* One call more: CreateInOrder is the loop over createTransition.         *)
LEMMA CreateOneMore ==
    ASSUME NEW m \in Model, NEW l \in Label, NEW s \in Seq(Transition),
           NEW t \in Transition, t.source = l
    PROVE  CreateInOrder(m, l, Append(s, t)) = CreateTransition(CreateInOrder(m, l, s), t)
<1> DEFINE before == CreateInOrder(m, l, s)
           after  == CreateInOrder(m, l, Append(s, t))
           cond(q) == IF m.initialLocation = l /\ q # <<>>
                      THEN q[Len(q)].dataGuard ELSE m.initialCondition
           map(q)  == {u \in m.transitions : \A i \in DOMAIN q : Key(u) # Key(q[i])}
                         \cup LastOfKeys(q)
           with(c, o, ts) == [m EXCEPT !.initialCondition = c, !.out = o, !.transitions = ts]
<1>1. /\ before = with(cond(s), [m.out EXCEPT ![l] = @ \o s], map(s))
      /\ after = with(cond(Append(s, t)), [m.out EXCEPT ![l] = @ \o Append(s, t)],
                      map(Append(s, t)))
  BY DEF CreateInOrder, Model
<1>2. Append(s, t) # <<>> /\ Append(s, t)[Len(Append(s, t))] = t
  BY AppendProperties, EmptySeq
<1>3. cond(Append(s, t)) = IF m.initialLocation = l THEN t.dataGuard ELSE cond(s)
  BY <1>2
<1>4. [m.out EXCEPT ![l] = @ \o Append(s, t)]
         = [[m.out EXCEPT ![l] = @ \o s] EXCEPT ![l] = Append(@, t)]
  <2>1. m.out \in [Label -> Seq(Transition)] /\ m.out[l] \in Seq(Transition)
    BY DEF Model
  <2>2. m.out[l] \o Append(s, t) = Append(m.out[l] \o s, t)
    <3>1. \A p \in Seq(Transition) : p \o Append(s, t) = Append(p \o s, t)
      BY ConcatAppend
    <3> QED
      BY <2>1, <3>1
  <2> QED
    BY <2>1, <2>2
<1>5. map(Append(s, t)) = Put(map(s), t)
  BY PutOver
<1>6. CreateTransition(with(cond(s), [m.out EXCEPT ![l] = @ \o s], map(s)), t)
         = with(IF m.initialLocation = l THEN t.dataGuard ELSE cond(s),
                [[m.out EXCEPT ![l] = @ \o s] EXCEPT ![l] = Append(@, t)],
                Put(map(s), t))
  <2> HIDE DEF cond, map
  <2> QED
    BY DEF CreateTransition, Model
<1> HIDE DEF before, after, cond, map, with
<1> QED
  BY <1>1, <1>3, <1>4, <1>5, <1>6 DEF before, after
(* What a run of calls does to a model: one list grows, the map gains the  *)
(* last transition of each key.                                            *)
LEMMA CreatedInOrder ==
    ASSUME NEW m \in Model, NEW l \in Label, NEW s \in Seq(Transition)
    PROVE  LET c == CreateInOrder(m, l, s)
           IN  /\ c \in Model
               /\ c.locations = m.locations /\ c.initialLocation = m.initialLocation
               /\ c.clocks = m.clocks
               /\ c.inputActions = m.inputActions /\ c.outputActions = m.outputActions
               /\ c.internalActions = m.internalActions
               /\ \A k \in Label : c.out[k] = IF k = l THEN m.out[l] \o s ELSE m.out[k]
               /\ c.transitions = {u \in m.transitions : \A i \in DOMAIN s : Key(u) # Key(s[i])}
                                     \cup LastOfKeys(s)
<1> DEFINE c == CreateInOrder(m, l, s)
           cond == IF m.initialLocation = l /\ s # <<>>
                   THEN s[Len(s)].dataGuard ELSE m.initialCondition
           map  == {u \in m.transitions : \A i \in DOMAIN s : Key(u) # Key(s[i])}
                      \cup LastOfKeys(s)
<1>1. c = [m EXCEPT !.initialCondition = cond,
                    !.out = [m.out EXCEPT ![l] = @ \o s], !.transitions = map]
  BY DEF CreateInOrder, Model
<1>2. m.out \in [Label -> Seq(Transition)] /\ m.transitions \subseteq Transition
  BY DEF Model
<1>3. m.out[l] \o s \in Seq(Transition)
  BY <1>2, ConcatProperties
<1>4. [m.out EXCEPT ![l] = @ \o s] \in [Label -> Seq(Transition)]
  BY <1>2, <1>3
<1>5. cond \subseteq Atom
  <2>1. s # <<>> => s[Len(s)] \in Transition
    BY EmptySeq, ElementOfSeq, LenProperties
  <2> QED
    BY <2>1 DEF Model, Transition
<1>6. map \subseteq Transition
  <2>1. LastOfKeys(s) \subseteq Transition
    BY DEF LastOfKeys
  <2> QED
    BY <1>2, <2>1
<1> HIDE DEF c, cond, map
<1>7. /\ c \in Model
      /\ c.locations = m.locations /\ c.initialLocation = m.initialLocation
      /\ c.clocks = m.clocks
      /\ c.inputActions = m.inputActions /\ c.outputActions = m.outputActions
      /\ c.internalActions = m.internalActions
      /\ c.out = [m.out EXCEPT ![l] = @ \o s] /\ c.transitions = map
  BY <1>1, <1>4, <1>5, <1>6 DEF Model
<1>8. \A k \in Label : c.out[k] = IF k = l THEN m.out[l] \o s ELSE m.out[k]
  BY <1>2, <1>7
<1> QED
  BY <1>7, <1>8 DEF c, map

(* The transitions that createTransition is called for, in whatever order: *)
(* all of them are in the list, and no other ones; the map keeps what has  *)
(* another key, and gains one transition of each key that was put.         *)
LEMMA CreatedForAll ==
    ASSUME NEW m \in Model, NEW l \in Label, NEW ts \in SUBSET Transition,
           IsFiniteSet(ts), NEW c \in CreateAll(m, l, ts)
    PROVE  /\ c \in Model
           /\ c.locations = m.locations /\ c.initialLocation = m.initialLocation
           /\ c.clocks = m.clocks
           /\ c.inputActions = m.inputActions /\ c.outputActions = m.outputActions
           /\ c.internalActions = m.internalActions
           /\ \A k \in Label \ {l} : c.out[k] = m.out[k]
           /\ Range(c.out[l]) = Range(m.out[l]) \cup ts
           /\ \E order \in SetToSeqs(ts) :
                 order \in Seq(Transition) /\ c.out[l] = m.out[l] \o order
           /\ \A u \in m.transitions :
                 (\A t \in ts : Key(u) # Key(t)) => u \in c.transitions
           /\ \A t \in ts : \E u \in c.transitions \cap ts : Key(u) = Key(t)
           /\ c.transitions \subseteq m.transitions \cup ts
<1>1. PICK s \in SetToSeqs(ts) : c = CreateInOrder(m, l, s)
  BY DEF CreateAll
<1>2. s \in Seq(ts) /\ Range(s) = ts
  BY OrderingIsSequence, OrderingOnce
<1>3. s \in Seq(Transition)
  BY <1>2, SeqMonotonic
<1>4. /\ c \in Model
      /\ c.locations = m.locations /\ c.initialLocation = m.initialLocation
      /\ c.clocks = m.clocks
      /\ c.inputActions = m.inputActions /\ c.outputActions = m.outputActions
      /\ c.internalActions = m.internalActions
      /\ \A k \in Label : c.out[k] = IF k = l THEN m.out[l] \o s ELSE m.out[k]
  BY <1>1, <1>3, CreatedInOrder
<1>5. c.transitions = {u \in m.transitions : \A i \in DOMAIN s : Key(u) # Key(s[i])}
                        \cup LastOfKeys(s)
  BY <1>1, <1>3, CreatedInOrder
<1>6. m.out[l] \in Seq(Transition)
  BY DEF Model
<1>7. Range(c.out[l]) = Range(m.out[l]) \cup ts
  <2>1. Range(m.out[l] \o s) = Range(m.out[l]) \cup Range(s)
    BY <1>3, <1>6, RangeOfConcat
  <2> QED
    BY <1>2, <1>4, <2>1
<1>8. \A i \in DOMAIN s : s[i] \in ts
  BY <1>2 DEF Range
<1>9. \A t \in ts : \E i \in DOMAIN s : t = s[i]
  BY <1>2 DEF Range
<1>10. LastOfKeys(s) \subseteq ts
  BY <1>8 DEF LastOfKeys
<1>11. \A t \in ts : \E u \in LastOfKeys(s) : Key(u) = Key(t)
  BY <1>3, <1>9, LastOfKeysCover
<1>12. \A u \in m.transitions : (\A t \in ts : Key(u) # Key(t)) => u \in c.transitions
  BY <1>5, <1>8
<1>13. \A t \in ts : \E u \in c.transitions \cap ts : Key(u) = Key(t)
  BY <1>5, <1>10, <1>11
<1>14. c.transitions \subseteq m.transitions \cup ts
  BY <1>5, <1>10
<1> QED
  BY <1>1, <1>3, <1>4, <1>7, <1>12, <1>13, <1>14

(* The transitions without guards, for finitely many actions.              *)
LEMMA UnguardedType ==
    ASSUME NEW l \in Label, NEW target \in Label, NEW actions \in SUBSET Action,
           IsFiniteSet(actions), NEW d \in [Action -> Deadline]
    PROVE  /\ Unguarded(l, actions, d, target) \subseteq Transition
           /\ IsFiniteSet(Unguarded(l, actions, d, target))
           /\ \A t \in Unguarded(l, actions, d, target) :
                 /\ t.source = l /\ t.target = target /\ ~Guarded(t)
                 /\ t.dataGuard = {} /\ t.clockGuard = {}
                 /\ t.action \in actions
           /\ \A a \in actions : \E t \in Unguarded(l, actions, d, target) : t.action = a
           /\ \A t, u \in Unguarded(l, actions, d, target) : t.action = u.action => t = u
<1> DEFINE of(a) == [source |-> l, dataGuard |-> {}, clockGuard |-> {}, action |-> a,
                     assignments |-> {}, deadline |-> d[a], target |-> target]
           made == [a \in actions |-> of(a)]
           ts == Unguarded(l, actions, d, target)
<1>1. ts = {of(a) : a \in actions}
  BY DEF Unguarded
<1>2. \A a \in actions : of(a) \in Transition
  BY DEF Transition
<1>3. \A a \in actions :
         /\ of(a).source = l /\ of(a).target = target /\ of(a).action = a
         /\ of(a).dataGuard = {} /\ of(a).clockGuard = {}
  OBVIOUS
<1> HIDE DEF of
<1>4. made \in Surjection(actions, ts)
  BY <1>1 DEF Surjection
<1>5. IsFiniteSet(ts)
  <2> HIDE DEF made, ts
  <2> QED
    BY <1>4, FS_Surjection
<1> HIDE DEF ts
<1> QED
  BY <1>1, <1>2, <1>3, <1>5 DEF ts, Guarded
(* The declared actions of some types are finitely many.                   *)
LEMMA ActionsOfTypeFinite ==
    ASSUME NEW m \in Model, IsFiniteSet(ActionNames(m)),
           NEW types \in SUBSET {ACTION_INPUT, ACTION_OUTPUT}
    PROVE  /\ ActionsOfType(m, types) \subseteq Action
           /\ IsFiniteSet(ActionsOfType(m, types))
<1>1. ActionNames(m) \subseteq Name /\ types \subseteq ActionType
  BY DEF Model, ActionNames, ActionType
<1>2. ActionsOfType(m, types) \subseteq [name : ActionNames(m), type : types]
  BY DEF ActionsOfType
<1>3. IsFiniteSet([name : ActionNames(m), type : types])
  <2> DEFINE pairs == ActionNames(m) \X types
             record == [p \in pairs |-> [name |-> p[1], type |-> p[2]]]
             records == [name : ActionNames(m), type : types]
  <2>1. IsFiniteSet(types)
    <3>1. IsFiniteSet({ACTION_INPUT}) /\ IsFiniteSet({ACTION_OUTPUT})
      BY FS_Singleton
    <3>2. {ACTION_INPUT, ACTION_OUTPUT} = {ACTION_INPUT} \cup {ACTION_OUTPUT}
      OBVIOUS
    <3>3. IsFiniteSet({ACTION_INPUT, ACTION_OUTPUT})
      BY <3>1, <3>2, FS_Union
    <3> QED
      BY <3>3, FS_Subset
  <2>2. IsFiniteSet(pairs)
    BY <2>1, FS_Product
  <2>3. record \in [pairs -> records]
    OBVIOUS
  <2>4. ASSUME NEW r \in records PROVE \E p \in pairs : record[p] = r
    <3>1. <<r.name, r.type>> \in pairs /\ record[<<r.name, r.type>>] = r
      OBVIOUS
    <3> QED
      BY <3>1
  <2>5. record \in Surjection(pairs, records)
    <3> HIDE DEF record, records, pairs
    <3> QED
      BY <2>3, <2>4 DEF Surjection
  <2> HIDE DEF record, records, pairs
  <2>6. IsFiniteSet(records)
    BY <2>2, <2>5, FS_Surjection
  <2> QED
    BY <2>6 DEF records
<1>4. IsFiniteSet(ActionsOfType(m, types))
  BY <1>2, <1>3, FS_Subset
<1>5. ActionsOfType(m, types) \subseteq Action
  BY <1>1, <1>2 DEF Action
<1> QED
  BY <1>4, <1>5

(* The actions looked for are finitely many, and every declared action of  *)
(* one of the types that no transition of the list takes is among them.    *)
LEMMA AbsentType ==
    ASSUME NEW m \in Model, IsFiniteSet(ActionNames(m)), NEW l \in Label,
           NEW types \in SUBSET {ACTION_INPUT, ACTION_OUTPUT}
    PROVE  /\ AbsentActions(m, l, types) \subseteq Action
           /\ IsFiniteSet(AbsentActions(m, l, types))
           /\ \A a \in AbsentActions(m, l, types) :
                 /\ a.type \in types /\ a.name \in NamesOfType(m, a.type)
                 /\ \A t \in Range(m.out[l]) : t.action.name # a.name
           /\ \A ty \in types : \A n \in NamesOfType(m, ty) :
                 (\A t \in Range(m.out[l]) : t.action.name # n)
                    => [name |-> n, type |-> ty] \in AbsentActions(m, l, types)
<1>1. ActionsOfType(m, types) \subseteq Action /\ IsFiniteSet(ActionsOfType(m, types))
  BY ActionsOfTypeFinite
<1>2. AbsentActions(m, l, types) \subseteq ActionsOfType(m, types)
  BY DEF AbsentActions
<1>3. \A ty : NamesOfType(m, ty) \subseteq ActionNames(m)
  BY DEF NamesOfType, ActionNames
<1>6. IsFiniteSet(AbsentActions(m, l, types))
  BY <1>1, <1>2, FS_Subset
<1>7. AbsentActions(m, l, types) \subseteq Action
  BY <1>1, <1>2
<1>8. ASSUME NEW a \in AbsentActions(m, l, types)
      PROVE  /\ a.type \in types /\ a.name \in NamesOfType(m, a.type)
             /\ \A t \in Range(m.out[l]) : t.action.name # a.name
  BY DEF AbsentActions, ActionsOfType
<1>9. ASSUME NEW ty \in types, NEW n \in NamesOfType(m, ty),
             \A t \in Range(m.out[l]) : t.action.name # n
      PROVE  [name |-> n, type |-> ty] \in AbsentActions(m, l, types)
  <2>1. n \in ActionNames(m)
    BY <1>3
  <2> DEFINE a == [name |-> n, type |-> ty]
  <2>2. a \in [name : ActionNames(m), type : types] /\ a.name = n /\ a.type = ty
    BY <2>1
  <2> HIDE DEF a
  <2>3. a \in AbsentActions(m, l, types)
    BY <1>9, <2>2 DEF AbsentActions, ActionsOfType
  <2> QED
    BY <2>3 DEF a
<1> QED
  BY <1>6, <1>7, <1>8, <1>9

-----------------------------------------------------------------------------
(* What guards mean.                                                       *)

(* When a constraint holds, relation by relation.                          *)
LEMMA ConstraintMeaning ==
    ASSUME NEW c, NEW v
    PROVE  /\ c.relation = "<"  => (ConstraintHolds(c, v) <=> v.clocks[c.clock] < 0)
           /\ c.relation = "<=" => (ConstraintHolds(c, v) <=> v.clocks[c.clock] <= 0)
           /\ c.relation = ">=" => (ConstraintHolds(c, v) <=> v.clocks[c.clock] >= 0)
           /\ c.relation = ">"  => (ConstraintHolds(c, v) <=> v.clocks[c.clock] > 0)
<1>1. ASSUME c.relation = "<"
      PROVE  ConstraintHolds(c, v) <=> v.clocks[c.clock] < 0
  BY <1>1 DEF ConstraintHolds
<1>2. ASSUME c.relation = "<="
      PROVE  ConstraintHolds(c, v) <=> v.clocks[c.clock] <= 0
  BY <1>2 DEF ConstraintHolds
<1>3. ASSUME c.relation = ">="
      PROVE  ConstraintHolds(c, v) <=> v.clocks[c.clock] >= 0
  BY <1>3 DEF ConstraintHolds
<1>4. ASSUME c.relation = ">"
      PROVE  ConstraintHolds(c, v) <=> v.clocks[c.clock] > 0
  BY <1>4 DEF ConstraintHolds
<1> QED
  BY <1>1, <1>2, <1>3, <1>4

(* The opposite of a relation, whatever the index of the clock, holds when *)
(* the relation does not.                                                  *)
LEMMA OppositeHolds ==
    ASSUME NEW c \in SimpleClockGuard, NEW o \in SimpleClockGuard,
           c.relation # "=", o.clock = c.clock, o.relation = Opposite(c.relation),
           NEW v \in Moments
    PROVE  ConstraintHolds(o, v) <=> ~ConstraintHolds(c, v)
<1>1. v.clocks[c.clock] \in {-1, 0, 1}
  BY DEF Moments, SimpleClockGuard
<1>2. c.relation \in {"<", "<=", ">=", ">"}
  BY DEF SimpleClockGuard, Relation
<1>3. CASE c.relation = "<"
  <2>1. o.relation = ">="
    BY <1>3 DEF Opposite
  <2> QED
    BY <1>1, <1>3, <2>1, ConstraintMeaning
<1>4. CASE c.relation = "<="
  <2>1. o.relation = ">"
    BY <1>4 DEF Opposite
  <2> QED
    BY <1>1, <1>4, <2>1, ConstraintMeaning
<1>5. CASE c.relation = ">="
  <2>1. o.relation = "<"
    BY <1>5 DEF Opposite
  <2> QED
    BY <1>1, <1>5, <2>1, ConstraintMeaning
<1>6. CASE c.relation = ">"
  <2>1. o.relation = "<="
    BY <1>6 DEF Opposite
  <2> QED
    BY <1>1, <1>6, <2>1, ConstraintMeaning
<1> QED
  BY <1>2, <1>3, <1>4, <1>5, <1>6

(* The negation of a clock guard with one constraint, printed and parsed,  *)
(* is a clock guard.                                                       *)
LEMMA NegatedType ==
    ASSUME NEW guard \in SUBSET SimpleClockGuard, Negatable(guard), NEW clocks \in Seq(Clock)
    PROVE  ParseClockGuard(negateClockGuard(guard), clocks) \subseteq SimpleClockGuard
<1>1. PICK c \in guard : guard = {c} /\ c.relation # "="
  BY DEF Negatable
<1> DEFINE o == [c EXCEPT !.relation = Opposite(@)]
           p == [o EXCEPT !.id = ClockId(clocks, o.clock)]
<1>2. Opposite(c.relation) \in Relation
  BY <1>1 DEF Opposite, SimpleClockGuard, Relation
<1>3. ClockId(clocks, o.clock) \in Nat
  BY ClockIdType
<1>4. p \in SimpleClockGuard
  BY <1>1, <1>2, <1>3 DEF SimpleClockGuard
<1>5. ParseClockGuard(negateClockGuard(guard), clocks) = {p}
  <2>1. negateClockGuard(guard) = {o}
    BY <1>1 DEF negateClockGuard
  <2> QED
    BY <2>1 DEF ParseClockGuard
<1> HIDE DEF o, p
<1> QED
  BY <1>4, <1>5

(* Such a negation, printed and parsed, holds when the guard does not.     *)
LEMMA ClockGuardNegated ==
    ASSUME NEW guard \in SUBSET SimpleClockGuard, Negatable(guard),
           NEW clocks \in Seq(Clock), NEW v \in Moments
    PROVE  LET negated == ParseClockGuard(negateClockGuard(guard), clocks)
           IN  (\A o \in negated : ConstraintHolds(o, v))
                  <=> ~(\A c \in guard : ConstraintHolds(c, v))
<1>1. PICK c \in guard : guard = {c} /\ c.relation # "="
  BY DEF Negatable
<1> DEFINE o == [c EXCEPT !.relation = Opposite(@)]
           p == [o EXCEPT !.id = ClockId(clocks, o.clock)]
<1>2. c \in SimpleClockGuard
  OBVIOUS
<1>3. Opposite(c.relation) \in Relation
  BY <1>1, <1>2 DEF Opposite, SimpleClockGuard, Relation
<1>4. ClockId(clocks, o.clock) \in Nat
  BY ClockIdType
<1>5. p \in SimpleClockGuard /\ p.clock = c.clock /\ p.relation = Opposite(c.relation)
  BY <1>2, <1>3, <1>4 DEF SimpleClockGuard
<1>6. ParseClockGuard(negateClockGuard(guard), clocks) = {p}
  <2>1. negateClockGuard(guard) = {o}
    BY <1>1 DEF negateClockGuard
  <2> QED
    BY <2>1 DEF ParseClockGuard
<1>7. ConstraintHolds(p, v) <=> ~ConstraintHolds(c, v)
  BY <1>1, <1>2, <1>5, OppositeHolds
<1> HIDE DEF o, p
<1> QED
  BY <1>1, <1>5, <1>6, <1>7

(* A data guard that is negated as text holds when the guard does not.     *)
LEMMA DataGuardNegated ==
    ASSUME NEW guard \in SUBSET Test, NEW v \in Moments
    PROVE  ConjunctHolds(Not(guard), v) <=> ~(\A a \in guard : ConjunctHolds(a, v))
<1>1. Not(guard) \notin Test
  BY NegationAssumption
<1>2. \A h \in SUBSET Test : Not(guard) = Not(h) => guard = h
  BY NegationAssumption
<1>3. ConjunctHolds(Not(guard), v) <=> ~(guard \subseteq v.tests)
  <2>1. ConjunctHolds(Not(guard), v)
           <=> \E g \in SUBSET Test : Not(guard) = Not(g) /\ ~(g \subseteq v.tests)
    BY <1>1 DEF ConjunctHolds
  <2> QED
    BY <1>2, <2>1
<1>4. \A a \in guard : ConjunctHolds(a, v) <=> a \in v.tests
  BY DEF ConjunctHolds
<1> QED
  BY <1>3, <1>4

(* The negation of a guard of the supported form is exact: at every moment *)
(* either the guard or its negation holds, never both.                     *)
LEMMA NegationExact ==
    ASSUME NEW t \in Transition, t.dataGuard \subseteq Test, Guarded(t), Supported(t),
           NEW clocks \in Seq(Clock), NEW u,
           u.dataGuard = IF t.clockGuard = {} THEN {Not(t.dataGuard)} ELSE {},
           u.clockGuard = ParseClockGuard(negateClockGuard(t.clockGuard), clocks),
           NEW v \in Moments
    PROVE  Enabled(u, v) <=> ~Enabled(t, v)
<1>1. CASE t.clockGuard = {}
  <2>1. u.clockGuard = {}
    BY <1>1 DEF negateClockGuard, ParseClockGuard
  <2>2. u.dataGuard = {Not(t.dataGuard)}
    BY <1>1
  <2>3. ConjunctHolds(Not(t.dataGuard), v) <=> ~(\A a \in t.dataGuard : ConjunctHolds(a, v))
    BY DataGuardNegated
  <2> QED
    BY <1>1, <2>1, <2>2, <2>3 DEF Enabled
<1>2. CASE t.clockGuard # {}
  <2>1. t.dataGuard = {} /\ Negatable(t.clockGuard)
    BY <1>2 DEF Supported
  <2>2. u.dataGuard = {}
    BY <1>2
  <2>3. t.clockGuard \subseteq SimpleClockGuard
    BY DEF Transition
  <2>4. (\A o \in u.clockGuard : ConstraintHolds(o, v))
           <=> ~(\A c \in t.clockGuard : ConstraintHolds(c, v))
    BY <2>1, <2>3, ClockGuardNegated
  <2> QED
    BY <2>1, <2>2, <2>4 DEF Enabled
<1> QED
  BY <1>1, <1>2

(* clone() prints a guard and parses it again: the guard holds at the same *)
(* moments, and can be negated when it could before.                       *)
LEMMA ReparsedGuard ==
    ASSUME NEW m \in Model, NEW t \in Transition,
           \A c, d \in t.clockGuard : c.clock = d.clock => c.id = d.id
    PROVE  LET r == Reparsed(m, t)
           IN  /\ r.dataGuard = t.dataGuard
               /\ r.clockGuard = {} <=> t.clockGuard = {}
               /\ Guarded(r) <=> Guarded(t)
               /\ Negatable(r.clockGuard) <=> Negatable(t.clockGuard)
               /\ Supported(r) <=> Supported(t)
               /\ \A v \in Moments : Enabled(r, v) <=> Enabled(t, v)
<1> DEFINE r == Reparsed(m, t)
           p(c) == [c EXCEPT !.id = ClockId(m.clocks, c.clock)]
<1>1. t.clockGuard \subseteq SimpleClockGuard /\ t \in Transition
  BY DEF Transition
<1>2. r.dataGuard = t.dataGuard /\ r.clockGuard = {p(c) : c \in t.clockGuard}
  BY <1>1 DEF Reparsed, Transition, ParseClockGuard
<1>3. \A c \in t.clockGuard : p(c).clock = c.clock /\ p(c).relation = c.relation
  BY <1>1 DEF SimpleClockGuard
<1>4. ASSUME NEW c \in t.clockGuard, NEW d \in t.clockGuard, p(c) = p(d)
      PROVE  c = d
  <2>1. c.clock = d.clock /\ c.relation = d.relation
    BY <1>3, <1>4
  <2>2. c.id = d.id
    BY <2>1
  <2> QED
    BY <1>1, <2>1, <2>2 DEF SimpleClockGuard
<1> HIDE DEF r, p
<1>5. r.clockGuard = {} <=> t.clockGuard = {}
  BY <1>2
<1>6. ASSUME Negatable(t.clockGuard) PROVE Negatable(r.clockGuard)
  <2>1. PICK c \in t.clockGuard : t.clockGuard = {c} /\ c.relation # "="
    BY <1>6 DEF Negatable
  <2>2. r.clockGuard = {p(c)} /\ p(c).relation # "="
    BY <1>2, <1>3, <2>1
  <2> QED
    BY <2>2 DEF Negatable
<1>7. ASSUME Negatable(r.clockGuard) PROVE Negatable(t.clockGuard)
  <2>1. PICK o \in r.clockGuard : r.clockGuard = {o} /\ o.relation # "="
    BY <1>7 DEF Negatable
  <2>2. PICK c \in t.clockGuard : o = p(c)
    BY <1>2
  <2>3. \A d \in t.clockGuard : d = c
    BY <1>2, <1>4, <2>1, <2>2
  <2> QED
    BY <1>3, <2>1, <2>2, <2>3 DEF Negatable
<1>8. ASSUME NEW v \in Moments PROVE Enabled(r, v) <=> Enabled(t, v)
  <2>1. \A c \in t.clockGuard : ConstraintHolds(p(c), v) <=> ConstraintHolds(c, v)
    BY <1>3 DEF ConstraintHolds
  <2>2. (\A c \in r.clockGuard : ConstraintHolds(c, v))
           <=> (\A c \in t.clockGuard : ConstraintHolds(c, v))
    BY <1>2, <2>1
  <2> QED
    BY <1>2, <2>2 DEF Enabled
<1> QED
  BY <1>2, <1>5, <1>6, <1>7, <1>8 DEF r, Guarded, Supported
(* What clone() makes of a transition a parser gave.                       *)
LEMMA FromParser ==
    ASSUME NEW m, WellFormed(m), Parsed(m), NEW l, NEW y \in ClonedFrom(m, l)
    PROVE  /\ y \in Transition /\ y.source = l /\ y.dataGuard \subseteq Test
           /\ y.target \in m.locations /\ l \in m.locations
           /\ \E t \in m.transitions :
                 /\ t \in Transition /\ t.source = l /\ y = Reparsed(m, t)
                 /\ t.action = y.action /\ t \in Range(m.out[l])
                 /\ \A c, d \in t.clockGuard : c.clock = d.clock => c.id = d.id
<1>1. m \in Model /\ IsFiniteSet(m.transitions) /\ m.transitions \subseteq Transition
  BY DEF WellFormed, Model
<1>2. PICK t \in m.transitions : t.source = l /\ y = Reparsed(m, t)
  BY DEF ClonedFrom
<1>3. /\ t \in Transition
      /\ y \in Transition /\ y.source = t.source /\ y.target = t.target
      /\ y.action = t.action
  BY <1>1, <1>2, ReparsedType
<1>4. /\ t.dataGuard \subseteq Test
      /\ \A c, d \in t.clockGuard : c.clock = d.clock => c.id = d.id
  BY DEF Parsed
<1>5. y.dataGuard = t.dataGuard
  BY <1>2, <1>3 DEF Reparsed, Transition
<1>6. t \in OutTransitions(m)
  BY DEF WellFormed
<1>7. PICK k \in m.locations : t \in Range(m.out[k])
  BY <1>6 DEF OutTransitions
<1>8. k = l /\ t.target \in m.locations
  BY <1>2, <1>7 DEF WellFormed, Range
<1> QED
  BY <1>1, <1>2, <1>3, <1>4, <1>5, <1>7, <1>8
=============================================================================
