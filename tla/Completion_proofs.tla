--------------------------- MODULE Completion_proofs ---------------------------
(***************************************************************************)
(* Proofs about Completion, for any number of test purposes of any size.   *)
(*                                                                         *)
(* The inductive invariant tells apart the locations the loop has been to  *)
(* from the others.  A location it has not been to, or passes over, holds  *)
(* what clone() put there.  In one it has been to, every action is offered *)
(* by a transition, and every guarded transition that came from the clone  *)
(* has its counterpart, or is still in the copied list.  That holds of the *)
(* lists always; of the map, where a counterpart can take the place of     *)
(* another transition, when no location offers an action twice.            *)
(***************************************************************************)
EXTENDS Completion, TIOSTS_proofs

-----------------------------------------------------------------------------
(* The inductive invariant.                                                *)

\* What Negation adds for t while m is completed.
Counterpart(m, t) ==
    [t EXCEPT !.dataGuard   = IF t.clockGuard = {} THEN {Not(t.dataGuard)} ELSE {},
              !.clockGuard  = ParseClockGuard(negateClockGuard(@), m.clocks),
              !.assignments = {},
              !.target      = IF @ = Reject THEN t.source ELSE Reject]

\* u has been added for t.
Negates(m, t, u) == Guarded(t) /\ ~Refused(t) /\ u = Counterpart(m, t)

\* The loop adds transitions at l.
Due(m, l) == ~isSpecialLocation(l) /\ l # m.initialLocation

\* The transitions of the map that leave l.
Mapped(c, l) == {t \in c.transitions : t.source = l}

\* Nothing has been added at l.
Untouched(c, m, l) ==
    /\ Range(c.out[l]) = ClonedFrom(m, l)
    /\ \A i, j \in DOMAIN c.out[l] : c.out[l][i] = c.out[l][j] => i = j
    /\ Mapped(c, l) = ClonedFrom(m, l)

\* A transition of the model, a counterpart of one, or a self loop.
Origin(m, l, t) ==
    \/ t \in ClonedFrom(m, l)
    \/ \E y \in ClonedFrom(m, l) : Negates(m, y, t)
    \/ \A y \in ClonedFrom(m, l) : y.action.name # t.action.name

\* S, which leaves l, lacks nothing but the counterparts of rest.
Made(m, l, S, rest) ==
    /\ S \subseteq Transition
    /\ \A t \in S : t.source = l /\ Origin(m, l, t)
    /\ ClonedFrom(m, l) \subseteq S
    /\ \A n \in Observable(m) : \E t \in S :
          t.action.name = n /\ (~Guarded(t) \/ t \in ClonedFrom(m, l))
    /\ \A t \in ClonedFrom(m, l) :
          Guarded(t) => t \in rest \/ (~Refused(t) /\ Counterpart(m, t) \in S)

\* Two transitions of the list on one action are a guarded one and its
\* counterpart.
Paired(m, l, list) ==
    \A i, j \in DOMAIN list : (i # j /\ list[i].action.name = list[j].action.name) =>
        \E y \in ClonedFrom(m, l) :
            \/ list[i] = y /\ Negates(m, y, list[j])
            \/ list[j] = y /\ Negates(m, y, list[i])

Finished(c, m, l, rest) ==
    /\ Made(m, l, Range(c.out[l]), rest)
    /\ OneWay(m) => Made(m, l, Mapped(c, l), rest)
    /\ OneWay(m) /\ OneType(m) => Paired(m, l, c.out[l])

\* The copied list is of a location the loop has come to; where an action
\* is offered once, what it has left has no counterpart yet.
CopiedList(c, m, waiting, rest) ==
    /\ \A k \in DOMAIN rest :
          /\ rest[k].source \in c.locations \ waiting
          /\ Due(m, rest[k].source)
          /\ rest[k] \in Range(c.out[rest[k].source])
          /\ Guarded(rest[k]) => rest[k] \in ClonedFrom(m, rest[k].source)
    /\ OneWay(m) /\ OneType(m) =>
          /\ \A k, n \in DOMAIN rest : rest[k].action.name = rest[n].action.name => k = n
          /\ \A k \in DOMAIN rest : \A i, j \in DOMAIN c.out[rest[k].source] :
                (/\ c.out[rest[k].source][i].action.name = rest[k].action.name
                 /\ c.out[rest[k].source][j].action.name = rest[k].action.name) => i = j

\* What the clone keeps of the model, besides its transitions.
Cloned(c, m) ==
    /\ c.locations = m.locations \cup {Reject}
    /\ c.initialLocation = m.initialLocation
    /\ c.clocks = m.clocks
    /\ c.inputActions = m.inputActions
    /\ c.outputActions = m.outputActions
    /\ c.internalActions = m.internalActions

\* The model has a guard that cannot be negated.
Unsupported(m) ==
    \E t \in m.transitions :
        /\ Due(m, t.source)
        /\ \/ \E c, d \in t.clockGuard : c # d
           \/ \E c \in t.clockGuard : c.relation = "="

LocationsHandled(c, m, waiting, rest) ==
    \A l \in c.locations :
        IF l \in waiting \/ ~Due(m, l)
        THEN Untouched(c, m, l)
        ELSE Finished(c, m, l, Range(rest))

IInv ==
    /\ TypeOK
    /\ tiosts \in TestPurposes
    /\ status # "completing" => todo = <<>> /\ pending = {}
    /\ status # "called" => Cloned(complete, tiosts)
    /\ status \in {"completing", "returned"} =>
          /\ LocationsHandled(complete, tiosts, pending, todo)
          /\ CopiedList(complete, tiosts, pending, todo)
    /\ status = "thrown" => Unsupported(tiosts)

-----------------------------------------------------------------------------
(* The transitions of the clone and their counterparts.                    *)

(* Where no location offers an action twice, neither does the clone.       *)
LEMMA ClonedOneWay ==
    ASSUME NEW m, WellFormed(m), Parsed(m), OneWay(m), NEW l,
           NEW y \in ClonedFrom(m, l), NEW z \in ClonedFrom(m, l),
           y.action.name = z.action.name
    PROVE  y = z
<1>1. l \in m.locations
  BY FromParser
<1>2. PICK t : t \in Range(m.out[l]) /\ y = Reparsed(m, t) /\ t.action = y.action
  BY FromParser
<1>3. PICK u : u \in Range(m.out[l]) /\ z = Reparsed(m, u) /\ u.action = z.action
  BY FromParser
<1>4. t = u
  BY <1>1, <1>2, <1>3 DEF OneWay
<1> QED
  BY <1>2, <1>3, <1>4

(* What is added for a guarded transition leaves the same location with    *)
(* the same action, and goes elsewhere.                                    *)
LEMMA CounterpartType ==
    ASSUME NEW m \in Model, NEW y \in Transition, y.dataGuard \subseteq Test, ~Refused(y),
           Reject \in Label
    PROVE  LET u == Counterpart(m, y)
           IN  /\ u \in Transition /\ u.source = y.source /\ u.action = y.action
               /\ u.target = (IF y.target = Reject THEN y.source ELSE Reject)
               /\ u.dataGuard = IF y.clockGuard = {} THEN {Not(y.dataGuard)} ELSE {}
               /\ u.clockGuard = ParseClockGuard(negateClockGuard(y.clockGuard), m.clocks)
<1> DEFINE g == IF y.clockGuard = {} THEN {Not(y.dataGuard)} ELSE {}
           cg == ParseClockGuard(negateClockGuard(y.clockGuard), m.clocks)
           to == IF y.target = Reject THEN y.source ELSE Reject
<1>1. g \subseteq Atom
  BY NegationAssumption
<1>2. cg \subseteq SimpleClockGuard
  <2>1. CASE y.clockGuard = {}
    BY <2>1 DEF negateClockGuard, ParseClockGuard
  <2>2. CASE y.clockGuard # {}
    <3>1. Negatable(y.clockGuard) /\ y.clockGuard \subseteq SimpleClockGuard
      BY <2>2 DEF Refused, Transition
    <3>2. m.clocks \in Seq(Clock)
      BY DEF Model
    <3> QED
      BY <3>1, <3>2, NegatedType
  <2> QED
    BY <2>1, <2>2
<1>3. to \in Label
  BY DEF Transition
<1>4. Counterpart(m, y) = [y EXCEPT !.dataGuard = g, !.clockGuard = cg,
                                    !.assignments = {}, !.target = to]
  BY DEF Counterpart, Transition
<1> HIDE DEF g, cg, to
<1>5. /\ Counterpart(m, y) \in Transition
      /\ Counterpart(m, y).source = y.source /\ Counterpart(m, y).action = y.action
      /\ Counterpart(m, y).target = to
      /\ Counterpart(m, y).dataGuard = g /\ Counterpart(m, y).clockGuard = cg
  BY <1>1, <1>2, <1>3, <1>4 DEF Transition
<1> QED
  BY <1>5 DEF g, cg, to

(* The counterpart can be taken exactly when the transition cannot.        *)
LEMMA CounterpartExact ==
    ASSUME NEW m, WellFormed(m), Parsed(m), InScope(m), NEW l,
           NEW y \in ClonedFrom(m, l), Guarded(y), ~Refused(y), Reject \in Label,
           NEW v \in Moments
    PROVE  Enabled(Counterpart(m, y), v) <=> ~Enabled(y, v)
<1>1. m \in Model /\ m.clocks \in Seq(Clock)
  BY DEF WellFormed, Model
<1>2. PICK t \in m.transitions :
         /\ t \in Transition /\ t.source = l /\ y = Reparsed(m, t)
         /\ t \in Range(m.out[l])
         /\ \A c, d \in t.clockGuard : c.clock = d.clock => c.id = d.id
  BY FromParser
<1>3. y \in Transition /\ y.dataGuard \subseteq Test /\ l \in m.locations
  BY FromParser
<1>4. Supported(t)
  BY <1>2, <1>3 DEF InScope, OutTransitions
<1>5. Supported(y)
  BY <1>1, <1>2, <1>4, ReparsedGuard
<1>6. LET u == Counterpart(m, y)
      IN  /\ u.dataGuard = IF y.clockGuard = {} THEN {Not(y.dataGuard)} ELSE {}
          /\ u.clockGuard = ParseClockGuard(negateClockGuard(y.clockGuard), m.clocks)
  BY <1>1, <1>3, CounterpartType
<1> QED
  BY <1>1, <1>3, <1>5, <1>6, NegationExact

-----------------------------------------------------------------------------
(* What Made says.                                                         *)

(* A location that lacks nothing reacts to every input and output at every *)
(* moment: a guarded transition and its counterpart share the moments.     *)
LEMMA MadeCovers ==
    ASSUME NEW m, WellFormed(m), Parsed(m), InScope(m), Reject \in Label,
           NEW l, NEW S, Made(m, l, S, {}), NEW n \in Observable(m)
    PROVE  Covers(S, n)
<1>1. PICK y \in S : y.action.name = n /\ (~Guarded(y) \/ y \in ClonedFrom(m, l))
  BY DEF Made
<1>2. SUFFICES ASSUME NEW v \in Moments
               PROVE  \E t \in S : t.action.name = n /\ Enabled(t, v)
  BY DEF Covers
<1>3. CASE ~Guarded(y)
  BY <1>1, <1>3 DEF Guarded, Enabled
<1>4. CASE Guarded(y) /\ y \in ClonedFrom(m, l)
  <2>1. ~Refused(y) /\ Counterpart(m, y) \in S
    BY <1>4 DEF Made
  <2>2. Enabled(Counterpart(m, y), v) <=> ~Enabled(y, v)
    BY <1>4, <2>1, CounterpartExact
  <2>3. y \in Transition /\ y.dataGuard \subseteq Test /\ m \in Model
    BY <1>4, FromParser DEF WellFormed
  <2>4. Counterpart(m, y).action = y.action
    BY <2>1, <2>3, CounterpartType
  <2> QED
    BY <1>1, <2>1, <2>2, <2>4
<1> QED
  BY <1>1, <1>3, <1>4

(* More transitions of the right origin do not hurt.                       *)
LEMMA MadeMore ==
    ASSUME NEW m, NEW l, NEW S, NEW rest, Made(m, l, S, rest),
           NEW S2, S \subseteq S2, S2 \subseteq Transition,
           \A t \in S2 : t.source = l /\ Origin(m, l, t),
           NEW rest2,
           \A t \in ClonedFrom(m, l) : Guarded(t) /\ t \in rest =>
              t \in rest2 \/ (~Refused(t) /\ Counterpart(m, t) \in S2)
    PROVE  Made(m, l, S2, rest2)
<1>1. ClonedFrom(m, l) \subseteq S2
  BY DEF Made
<1>2. \A n \in Observable(m) : \E t \in S2 :
          t.action.name = n /\ (~Guarded(t) \/ t \in ClonedFrom(m, l))
  BY DEF Made
<1>3. \A t \in ClonedFrom(m, l) :
          Guarded(t) => t \in rest2 \/ (~Refused(t) /\ Counterpart(m, t) \in S2)
  BY DEF Made
<1> QED
  BY <1>1, <1>2, <1>3 DEF Made

(* The counterpart of a transition of the copied list is added.            *)
LEMMA MadeCounterpart ==
    ASSUME NEW m, WellFormed(m), Parsed(m), Reject \in Label, NEW l, NEW S, NEW rest,
           Made(m, l, S, rest), NEW h \in ClonedFrom(m, l), Guarded(h), ~Refused(h),
           NEW rest2, rest \subseteq rest2 \cup {h}
    PROVE  Made(m, l, S \cup {Counterpart(m, h)}, rest2)
<1>1. /\ m \in Model /\ h \in Transition /\ h.source = l /\ h.dataGuard \subseteq Test
  BY FromParser DEF WellFormed
<1>2. Counterpart(m, h) \in Transition /\ Counterpart(m, h).source = l
  BY <1>1, CounterpartType
<1>3. Origin(m, l, Counterpart(m, h))
  BY DEF Origin, Negates
<1> DEFINE S2 == S \cup {Counterpart(m, h)}
<1>4. S2 \subseteq Transition /\ \A t \in S2 : t.source = l /\ Origin(m, l, t)
  BY <1>2, <1>3 DEF Made
<1>5. \A t \in ClonedFrom(m, l) : Guarded(t) /\ t \in rest =>
         t \in rest2 \/ (~Refused(t) /\ Counterpart(m, t) \in S2)
  OBVIOUS
<1>6. S \subseteq S2
  OBVIOUS
<1> HIDE DEF S2
<1>7. Made(m, l, S2, rest2)
  BY <1>4, <1>5, <1>6, MadeMore
<1> QED
  BY <1>7 DEF S2

(* A transition that needs no counterpart is passed over.                  *)
LEMMA MadePass ==
    ASSUME NEW m, NEW l, NEW S, NEW rest, Made(m, l, S, rest), NEW h,
           ~(Guarded(h) /\ h \in ClonedFrom(m, l)),
           NEW rest2, rest \subseteq rest2 \cup {h}
    PROVE  Made(m, l, S, rest2)
<1>1. S \subseteq Transition /\ \A t \in S : t.source = l /\ Origin(m, l, t)
  BY DEF Made
<1>2. \A t \in ClonedFrom(m, l) : Guarded(t) /\ t \in rest => t \in rest2
  OBVIOUS
<1> QED
  BY <1>1, <1>2, MadeMore

(* Where no action is offered twice, put() of a counterpart replaces no    *)
(* other transition: the one with its action goes elsewhere, and the self  *)
(* loops are for other actions.                                            *)
LEMMA PutCounterpart ==
    ASSUME NEW m, WellFormed(m), Parsed(m), OneWay(m), Reject \in Label,
           NEW l, l # Reject, NEW c, NEW rest, Made(m, l, Mapped(c, l), rest),
           NEW h \in ClonedFrom(m, l), Guarded(h), ~Refused(h),
           NEW c2, c2.transitions = Put(c.transitions, Counterpart(m, h))
    PROVE  Mapped(c2, l) = Mapped(c, l) \cup {Counterpart(m, h)}
<1> DEFINE p == Counterpart(m, h)
           map == c.transitions
<1>1. m \in Model /\ h \in Transition /\ h.source = l /\ h.dataGuard \subseteq Test
  BY FromParser DEF WellFormed
<1>2. /\ p.source = l /\ p.action = h.action /\ p.target # h.target
  BY <1>1, CounterpartType
<1>3. ASSUME NEW t \in map, t.source = l, Key(t) = Key(p)
      PROVE  t = p
  <2>1. t.action.name = h.action.name /\ t.target = p.target
    BY <1>2, <1>3 DEF Key
  <2>2. Origin(m, l, t)
    BY <1>3 DEF Made, Mapped
  <2>3. CASE t \in ClonedFrom(m, l)
    <3>1. t = h
      BY <2>1, <2>3, ClonedOneWay
    <3> QED
      BY <1>2, <2>1, <3>1
  <2>4. CASE \E y \in ClonedFrom(m, l) : Negates(m, y, t)
    <3>1. PICK y \in ClonedFrom(m, l) : ~Refused(y) /\ t = Counterpart(m, y)
      BY <2>4 DEF Negates
    <3>2. y \in Transition /\ y.dataGuard \subseteq Test
      BY FromParser
    <3>3. t.action = y.action
      BY <1>1, <3>1, <3>2, CounterpartType
    <3>4. y = h
      BY <2>1, <3>3, ClonedOneWay
    <3> QED
      BY <3>1, <3>4
  <2>5. CASE \A y \in ClonedFrom(m, l) : y.action.name # t.action.name
    BY <2>1, <2>5
  <2> QED
    BY <2>2, <2>3, <2>4, <2>5 DEF Origin
<1> HIDE DEF p
<1>4. {t \in Put(map, p) : t.source = l} = {t \in map : t.source = l} \cup {p}
  BY <1>2, <1>3 DEF Put
<1>5. c2.transitions = Put(map, p)
  BY DEF p
<1> QED
  BY <1>4, <1>5 DEF p, Mapped

-----------------------------------------------------------------------------
(* Lists.                                                                  *)

\* No two transitions of the list take the same action.
NamesOnce(list) ==
    \A i, j \in DOMAIN list : list[i].action.name = list[j].action.name => i = j

(* Two such lists without a common action, one after the other.            *)
LEMMA ConcatNamesOnce ==
    ASSUME NEW p \in Seq(Transition), NEW q \in Seq(Transition), NamesOnce(p), NamesOnce(q),
           \A t \in Range(p), u \in Range(q) : t.action.name # u.action.name
    PROVE  NamesOnce(p \o q)
<1>1. /\ DOMAIN (p \o q) = 1..Len(p) + Len(q)
      /\ DOMAIN p = 1..Len(p) /\ DOMAIN q = 1..Len(q)
      /\ Len(p) \in Nat /\ Len(q) \in Nat
      /\ \A i \in 1..Len(p) + Len(q) :
            (p \o q)[i] = IF i <= Len(p) THEN p[i] ELSE q[i - Len(p)]
  BY ConcatProperties, LenProperties
<1> DEFINE s == p \o q
<1> HIDE DEF s
<1>2. ASSUME NEW i \in DOMAIN s
      PROVE  \/ i \in DOMAIN p /\ s[i] = p[i]
             \/ i - Len(p) \in DOMAIN q /\ s[i] = q[i - Len(p)]
  <2>1. CASE i <= Len(p)
    BY <1>1, <2>1 DEF s
  <2>2. CASE ~(i <= Len(p))
    BY <1>1, <2>2 DEF s
  <2> QED
    BY <2>1, <2>2
<1>3. ASSUME NEW i \in DOMAIN s, NEW j \in DOMAIN s, s[i].action.name = s[j].action.name
      PROVE  i = j
  <2>1. i \in Int /\ j \in Int
    BY <1>1 DEF s
  <2>2. CASE i \in DOMAIN p /\ s[i] = p[i] /\ j \in DOMAIN p /\ s[j] = p[j]
    BY <1>3, <2>2 DEF NamesOnce
  <2>3. CASE /\ i - Len(p) \in DOMAIN q /\ s[i] = q[i - Len(p)]
             /\ j - Len(p) \in DOMAIN q /\ s[j] = q[j - Len(p)]
    <3>1. i - Len(p) = j - Len(p)
      BY <1>3, <2>3 DEF NamesOnce
    <3> QED
      BY <1>1, <2>1, <3>1
  <2>4. CASE i \in DOMAIN p /\ s[i] = p[i] /\ j - Len(p) \in DOMAIN q /\ s[j] = q[j - Len(p)]
    BY <1>3, <2>4 DEF Range
  <2>5. CASE j \in DOMAIN p /\ s[j] = p[j] /\ i - Len(p) \in DOMAIN q /\ s[i] = q[i - Len(p)]
    BY <1>3, <2>5 DEF Range
  <2> QED
    BY <1>2, <2>2, <2>3, <2>4, <2>5
<1> QED
  BY <1>3 DEF NamesOnce, s

-----------------------------------------------------------------------------
(* The steps of the loop.                                                  *)

(* Before the loop, every location is as clone() made it; Reject, when it  *)
(* is new, is empty.                                                       *)
LEMMA StartHandled ==
    ASSUME NEW m, WellFormed(m), Parsed(m), Reject \in Label, NEW k \in Clones(m)
    PROVE  LET c == AddLocation(k, Reject)
           IN  /\ c \in Model /\ Cloned(c, m)
               /\ LocationsHandled(c, m, c.locations, <<>>)
               /\ CopiedList(c, m, c.locations, <<>>)
<1> DEFINE c == AddLocation(k, Reject)
<1>1. m \in Model /\ IsFiniteSet(m.transitions) /\ m.initialLocation \in m.locations
  BY DEF WellFormed
<1>2. /\ k \in Model
      /\ k.locations = m.locations /\ k.clocks = m.clocks
      /\ k.initialLocation = m.initialLocation
      /\ k.inputActions = m.inputActions /\ k.outputActions = m.outputActions
      /\ k.internalActions = m.internalActions
      /\ k.transitions = {Reparsed(m, t) : t \in m.transitions}
      /\ \A l \in m.locations : k.out[l] \in SetToSeqs(ClonedFrom(m, l))
      /\ \A l \in Label \ m.locations : k.out[l] = <<>>
  BY <1>1, CopyOf
<1>3. /\ c \in Model /\ c.out = k.out /\ c.locations = m.locations \cup {Reject}
      /\ c.clocks = k.clocks /\ c.initialLocation = k.initialLocation
      /\ c.inputActions = k.inputActions /\ c.outputActions = k.outputActions
      /\ c.internalActions = k.internalActions /\ c.transitions = k.transitions
  BY <1>2, AddLocationType DEF AddLocation, Model
<1>4. Cloned(c, m)
  BY <1>2, <1>3 DEF Cloned
<1>5. ASSUME NEW l \in c.locations
      PROVE  Untouched(c, m, l)
  <2>1. l \in Label
    BY <1>3 DEF Model
  <2>2. Mapped(c, l) = ClonedFrom(m, l)
    <3>1. \A t \in m.transitions : Reparsed(m, t).source = t.source
      BY <1>1, ReparsedType DEF Model
    <3> QED
      BY <1>2, <1>3, <3>1 DEF Mapped, ClonedFrom
  <2>3. CASE l \in m.locations
    <3>1. c.out[l] \in SetToSeqs(ClonedFrom(m, l))
      BY <1>2, <1>3, <2>3
    <3>2. IsFiniteSet(ClonedFrom(m, l))
      BY <1>1, ClonedFromType
    <3> QED
      BY <2>2, <3>1, <3>2, OrderingOnce DEF Untouched
  <2>4. CASE l \notin m.locations
    <3>1. ClonedFrom(m, l) = {}
      BY <2>4, FromParser
    <3>2. c.out[l] = <<>>
      BY <1>2, <1>3, <2>1, <2>4
    <3>3. Range(<<>>) = {} /\ DOMAIN <<>> = {}
      BY EmptySeq DEF Range
    <3> QED
      BY <2>2, <3>1, <3>2, <3>3 DEF Untouched
  <2> QED
    BY <2>3, <2>4
<1>6. CopiedList(c, m, c.locations, <<>>)
  <2>1. DOMAIN <<>> = {}
    BY EmptySeq
  <2> QED
    BY <2>1 DEF CopiedList
<1> HIDE DEF c
<1> QED
  BY <1>3, <1>4, <1>5, <1>6 DEF LocationsHandled, c

\* The self loops of a visit, in terms of the model that is completed.
SelfLoops(c, l) ==
    Unguarded(l, AbsentActions(c, l, {ACTION_INPUT, ACTION_OUTPUT}),
              [a \in Action |-> DefaultDeadline(a)], l)

(* The self loops are for the actions that the clone does not offer at l,  *)
(* one for each declaration.                                               *)
LEMMA LoopsFacts ==
    ASSUME NEW m, WellFormed(m), Parsed(m), NEW c \in Model, Cloned(c, m),
           NEW l \in Label, Range(c.out[l]) = ClonedFrom(m, l)
    PROVE  /\ SelfLoops(c, l) \subseteq Transition /\ IsFiniteSet(SelfLoops(c, l))
           /\ \A t \in SelfLoops(c, l) :
                 /\ t.source = l /\ ~Guarded(t)
                 /\ \A y \in ClonedFrom(m, l) : y.action.name # t.action.name
           /\ \A n \in Observable(m) :
                 (\A y \in ClonedFrom(m, l) : y.action.name # n)
                    => \E t \in SelfLoops(c, l) : t.action.name = n
           /\ OneType(m) => \A t, u \in SelfLoops(c, l) : t.action.name = u.action.name => t = u
<1> DEFINE types == {ACTION_INPUT, ACTION_OUTPUT}
           absent == AbsentActions(c, l, types)
           d == [a \in Action |-> DefaultDeadline(a)]
<1>1. /\ c.inputActions = m.inputActions /\ c.outputActions = m.outputActions
      /\ ActionNames(c) = ActionNames(m)
  BY DEF Cloned, ActionNames
<1>2. IsFiniteSet(ActionNames(c))
  BY <1>1 DEF Parsed
<1>3. /\ absent \subseteq Action /\ IsFiniteSet(absent)
      /\ \A a \in absent : /\ a.type \in types /\ a.name \in NamesOfType(c, a.type)
                           /\ \A t \in Range(c.out[l]) : t.action.name # a.name
      /\ \A ty \in types : \A n \in NamesOfType(c, ty) :
            (\A t \in Range(c.out[l]) : t.action.name # n) => [name |-> n, type |-> ty] \in absent
  BY <1>2, AbsentType
<1>4. d \in [Action -> Deadline]
  BY DEF DefaultDeadline, Deadline
<1>5. SelfLoops(c, l) = Unguarded(l, absent, d, l)
  BY DEF SelfLoops
<1> HIDE DEF absent, d
<1>6. /\ SelfLoops(c, l) \subseteq Transition /\ IsFiniteSet(SelfLoops(c, l))
      /\ \A t \in SelfLoops(c, l) : t.source = l /\ ~Guarded(t) /\ t.action \in absent
      /\ \A a \in absent : \E t \in SelfLoops(c, l) : t.action = a
      /\ \A t, u \in SelfLoops(c, l) : t.action = u.action => t = u
  BY <1>3, <1>4, <1>5, UnguardedType
<1>7. /\ NamesOfType(c, ACTION_INPUT) = m.inputActions
      /\ NamesOfType(c, ACTION_OUTPUT) = m.outputActions
  BY <1>1 DEF NamesOfType, ACTION_INPUT, ACTION_OUTPUT
<1>8. ASSUME NEW n \in Observable(m), \A y \in ClonedFrom(m, l) : y.action.name # n
      PROVE  \E t \in SelfLoops(c, l) : t.action.name = n
  <2>1. PICK ty \in types : n \in NamesOfType(c, ty)
    BY <1>7 DEF Observable
  <2>2. [name |-> n, type |-> ty] \in absent
    BY <1>3, <1>8, <2>1
  <2>3. PICK t \in SelfLoops(c, l) : t.action = [name |-> n, type |-> ty]
    BY <1>6, <2>2
  <2> QED
    BY <2>3
<1>9. ASSUME OneType(m), NEW t \in SelfLoops(c, l), NEW u \in SelfLoops(c, l),
             t.action.name = u.action.name
      PROVE  t = u
  <2>1. t.action \in absent /\ u.action \in absent /\ t.action \in Action /\ u.action \in Action
    BY <1>3, <1>6
  <2>2. /\ t.action.type \in types /\ t.action.name \in NamesOfType(c, t.action.type)
        /\ u.action.type \in types /\ u.action.name \in NamesOfType(c, u.action.type)
    BY <1>3, <2>1
  <2>3. t.action.type = u.action.type
    BY <1>7, <1>9, <2>2 DEF OneType
  <2>4. t.action = u.action
    BY <1>9, <2>1, <2>3 DEF Action
  <2> QED
    BY <1>6, <2>4
<1> QED
  BY <1>3, <1>6, <1>8, <1>9

(* The loop comes to a location that is due.                               *)
LEMMA VisitHandled ==
    ASSUME NEW m, WellFormed(m), Parsed(m), NEW c \in Model, Cloned(c, m),
           NEW waiting \in SUBSET c.locations, LocationsHandled(c, m, waiting, <<>>),
           NEW l \in waiting, Due(m, l), NEW c2 \in CreateAll(c, l, SelfLoops(c, l))
    PROVE  /\ c2 \in Model /\ Cloned(c2, m) /\ c2.locations = c.locations
           /\ LocationsHandled(c2, m, waiting \ {l}, c2.out[l])
           /\ CopiedList(c2, m, waiting \ {l}, c2.out[l])
<1> DEFINE L == SelfLoops(c, l)
           rest == c2.out[l]
<1>1. /\ l \in c.locations /\ l \in Label /\ c.locations \subseteq Label
      /\ c.out \in [Label -> Seq(Transition)]
  BY DEF Model
<1>2. Untouched(c, m, l)
  BY <1>1 DEF LocationsHandled
<1>3. /\ L \subseteq Transition /\ IsFiniteSet(L)
      /\ \A t \in L : /\ t.source = l /\ ~Guarded(t)
                      /\ \A y \in ClonedFrom(m, l) : y.action.name # t.action.name
      /\ \A n \in Observable(m) :
            (\A y \in ClonedFrom(m, l) : y.action.name # n) => \E t \in L : t.action.name = n
      /\ OneType(m) => \A t, u \in L : t.action.name = u.action.name => t = u
  BY <1>1, <1>2, LoopsFacts DEF Untouched
<1> HIDE DEF L
<1>4. c2 \in CreateAll(c, l, L)
  BY DEF L
<1>5. /\ c2 \in Model
      /\ c2.locations = c.locations /\ c2.initialLocation = c.initialLocation
      /\ c2.clocks = c.clocks
      /\ c2.inputActions = c.inputActions /\ c2.outputActions = c.outputActions
      /\ c2.internalActions = c.internalActions
      /\ \A k \in Label \ {l} : c2.out[k] = c.out[k]
      /\ Range(c2.out[l]) = Range(c.out[l]) \cup L
      /\ \E order \in SetToSeqs(L) : order \in Seq(Transition) /\ c2.out[l] = c.out[l] \o order
      /\ \A u \in c.transitions : (\A t \in L : Key(u) # Key(t)) => u \in c2.transitions
      /\ \A t \in L : \E u \in c2.transitions \cap L : Key(u) = Key(t)
      /\ c2.transitions \subseteq c.transitions \cup L
  BY <1>1, <1>3, <1>4, CreatedForAll
<1>6. Cloned(c2, m)
  BY <1>5 DEF Cloned
<1>7. \A u, t : Key(u) = Key(t) => u.source = t.source /\ u.action.name = t.action.name
  BY DEF Key
<1>8. ASSUME NEW k \in c.locations, k # l
      PROVE  c2.out[k] = c.out[k] /\ Mapped(c2, k) = Mapped(c, k)
  <2>1. ASSUME NEW u \in c.transitions, u.source = k
        PROVE  u \in c2.transitions
    <3>1. \A t \in L : Key(u) # Key(t)
      <4>1. \A t \in L : t.source # u.source
        BY <1>3, <1>8, <2>1
      <4> QED
        BY <1>7, <4>1
    <3> QED
      BY <1>5, <3>1
  <2>2. \A u \in c2.transitions : u.source = k => u \in c.transitions
    BY <1>3, <1>5, <1>8
  <2>3. Mapped(c2, k) = Mapped(c, k)
    BY <2>1, <2>2 DEF Mapped
  <2> QED
    BY <1>1, <1>5, <1>8, <2>3
<1>9. ClonedFrom(m, l) \subseteq Transition /\ \A y \in ClonedFrom(m, l) : y.source = l
  BY FromParser
<1>10. ASSUME NEW S, ClonedFrom(m, l) \subseteq S, S \subseteq ClonedFrom(m, l) \cup L,
              \A t \in L : \E u \in S : u.action.name = t.action.name /\ u \in L
       PROVE  Made(m, l, S, Range(rest))
  <2>1. S \subseteq Transition
    BY <1>3, <1>9, <1>10
  <2>2. \A t \in S : t.source = l /\ Origin(m, l, t)
    BY <1>3, <1>9, <1>10 DEF Origin
  <2>3. ASSUME NEW n \in Observable(m)
        PROVE  \E t \in S : t.action.name = n /\ (~Guarded(t) \/ t \in ClonedFrom(m, l))
    <3>1. CASE \E y \in ClonedFrom(m, l) : y.action.name = n
      BY <1>10, <3>1
    <3>2. CASE \A y \in ClonedFrom(m, l) : y.action.name # n
      <4>1. PICK t \in L : t.action.name = n
        BY <1>3, <3>2
      <4> QED
        BY <1>3, <1>10, <4>1
    <3> QED
      BY <3>1, <3>2
  <2>4. \A t \in ClonedFrom(m, l) : t \in Range(rest)
    BY <1>2, <1>5 DEF Untouched
  <2> QED
    BY <1>10, <2>1, <2>2, <2>3, <2>4 DEF Made
<1>11. Made(m, l, Range(rest), Range(rest))
  <2>1. Range(rest) = ClonedFrom(m, l) \cup L
    BY <1>2, <1>5 DEF Untouched
  <2> HIDE DEF rest
  <2> QED
    BY <1>10, <2>1
<1>12. Made(m, l, Mapped(c2, l), Range(rest))
  <2>1. \A y \in ClonedFrom(m, l) : y \in c.transitions /\ y.source = l
    BY <1>2 DEF Untouched, Mapped
  <2>2. ClonedFrom(m, l) \subseteq Mapped(c2, l)
    BY <1>3, <1>5, <1>7, <2>1 DEF Mapped
  <2>3. Mapped(c2, l) \subseteq ClonedFrom(m, l) \cup L
    BY <1>2, <1>5 DEF Untouched, Mapped
  <2>4. \A t \in L : \E u \in Mapped(c2, l) : u.action.name = t.action.name /\ u \in L
    BY <1>3, <1>5, <1>7 DEF Mapped
  <2> HIDE DEF rest
  <2> QED
    BY <1>10, <2>2, <2>3, <2>4
<1>13. ASSUME OneWay(m), OneType(m)
       PROVE  NamesOnce(rest)
  <2>1. PICK order \in SetToSeqs(L) : order \in Seq(Transition) /\ rest = c.out[l] \o order
    BY <1>5
  <2>2. Range(order) = L /\ \A i, j \in DOMAIN order : order[i] = order[j] => i = j
    BY <1>3, <2>1, OrderingOnce
  <2>3. NamesOnce(order)
    BY <1>3, <1>13, <2>2 DEF NamesOnce, Range
  <2>4. NamesOnce(c.out[l])
    <3> SUFFICES ASSUME NEW i \in DOMAIN c.out[l], NEW j \in DOMAIN c.out[l],
                        c.out[l][i].action.name = c.out[l][j].action.name
                 PROVE  i = j
      BY DEF NamesOnce
    <3>1. c.out[l][i] \in ClonedFrom(m, l) /\ c.out[l][j] \in ClonedFrom(m, l)
      BY <1>2 DEF Untouched, Range
    <3>2. c.out[l][i] = c.out[l][j]
      BY <1>13, <3>1, ClonedOneWay
    <3> QED
      BY <1>2, <3>2 DEF Untouched
  <2>5. \A t \in Range(c.out[l]), u \in Range(order) : t.action.name # u.action.name
    BY <1>2, <1>3, <2>2 DEF Untouched
  <2>6. c.out[l] \in Seq(Transition)
    BY <1>1
  <2> QED
    BY <2>1, <2>3, <2>4, <2>5, <2>6, ConcatNamesOnce
<1>14. Finished(c2, m, l, Range(rest))
  <2>1. OneWay(m) /\ OneType(m) => Paired(m, l, rest)
    BY <1>13 DEF NamesOnce, Paired
  <2> QED
    BY <1>11, <1>12, <2>1 DEF Finished
<1>15. ASSUME NEW k \in c2.locations
       PROVE  IF k \in waiting \ {l} \/ ~Due(m, k)
              THEN Untouched(c2, m, k)
              ELSE Finished(c2, m, k, Range(rest))
  <2>1. CASE k = l
    BY <1>14, <2>1
  <2>2. CASE k # l /\ (k \in waiting \/ ~Due(m, k))
    <3>1. Untouched(c, m, k)
      BY <1>5, <2>2 DEF LocationsHandled
    <3>2. c2.out[k] = c.out[k] /\ Mapped(c2, k) = Mapped(c, k)
      BY <1>5, <1>8, <2>2
    <3>3. Untouched(c2, m, k)
      BY <3>1, <3>2 DEF Untouched
    <3> QED
      BY <2>2, <3>3
  <2>3. CASE k # l /\ k \notin waiting /\ Due(m, k)
    <3>1. Finished(c, m, k, Range(<<>>))
      BY <1>5, <2>3 DEF LocationsHandled
    <3>2. c2.out[k] = c.out[k] /\ Mapped(c2, k) = Mapped(c, k)
      BY <1>5, <1>8, <2>3
    <3>3. Range(<<>>) = {}
      BY EmptySeq DEF Range
    <3>4. ASSUME NEW S, Made(m, k, S, {}) PROVE Made(m, k, S, Range(rest))
      BY <3>4 DEF Made
    <3>5. Finished(c2, m, k, Range(rest))
      <4> HIDE DEF rest
      <4> QED
        BY <3>1, <3>2, <3>3, <3>4 DEF Finished
    <3> QED
      BY <2>3, <3>5
  <2> QED
    BY <2>1, <2>2, <2>3
<1>16. CopiedList(c2, m, waiting \ {l}, rest)
  <2>1. ASSUME NEW k \in DOMAIN rest
        PROVE  /\ rest[k].source = l /\ rest[k] \in Range(rest)
               /\ Guarded(rest[k]) => rest[k] \in ClonedFrom(m, l)
    <3>1. rest[k] \in Range(rest)
      BY DEF Range
    <3>2. rest[k] \in ClonedFrom(m, l) \/ rest[k] \in L
      BY <1>2, <1>5, <3>1 DEF Untouched
    <3> QED
      BY <1>3, <1>9, <3>1, <3>2
  <2>2. l \in c2.locations \ (waiting \ {l})
    BY <1>1, <1>5
  <2>3. \A k \in DOMAIN rest :
           /\ rest[k].source \in c2.locations \ (waiting \ {l})
           /\ Due(m, rest[k].source)
           /\ rest[k] \in Range(c2.out[rest[k].source])
           /\ Guarded(rest[k]) => rest[k] \in ClonedFrom(m, rest[k].source)
    BY <2>1, <2>2
  <2>4. ASSUME OneWay(m), OneType(m)
        PROVE  /\ \A k, n \in DOMAIN rest :
                     rest[k].action.name = rest[n].action.name => k = n
               /\ \A k \in DOMAIN rest : \A i, j \in DOMAIN c2.out[rest[k].source] :
                     (/\ c2.out[rest[k].source][i].action.name = rest[k].action.name
                      /\ c2.out[rest[k].source][j].action.name = rest[k].action.name) => i = j
    <3>1. NamesOnce(rest)
      BY <1>13, <2>4
    <3>2. \A k \in DOMAIN rest : c2.out[rest[k].source] = rest
      BY <2>1
    <3> HIDE DEF rest
    <3> QED
      BY <3>1, <3>2 DEF NamesOnce
  <2> HIDE DEF rest
  <2> QED
    BY <2>3, <2>4 DEF CopiedList
<1> QED
  BY <1>5, <1>6, <1>15, <1>16 DEF LocationsHandled

(* A guarded transition of the copied list gets its counterpart.           *)
LEMMA NegateHandled ==
    ASSUME NEW m, WellFormed(m), Parsed(m), Reject \in Label, NEW c \in Model, Cloned(c, m),
           NEW waiting \in SUBSET c.locations, NEW rest \in Seq(Transition), rest # <<>>,
           LocationsHandled(c, m, waiting, rest), CopiedList(c, m, waiting, rest),
           Guarded(Head(rest)), ~Refused(Head(rest)),
           NEW c2, c2 = CreateTransition(c, Counterpart(m, Head(rest)))
    PROVE  /\ c2 \in Model /\ Cloned(c2, m) /\ c2.locations = c.locations
           /\ LocationsHandled(c2, m, waiting, Tail(rest))
           /\ CopiedList(c2, m, waiting, Tail(rest))
<1> DEFINE h == Head(rest)
           l == h.source
           p == Counterpart(m, h)
<1>1. /\ Tail(rest) \in Seq(Transition)
      /\ h = rest[1] /\ 1 \in DOMAIN rest /\ h \in Transition
      /\ \A k \in DOMAIN Tail(rest) :
            k + 1 \in DOMAIN rest /\ Tail(rest)[k] = rest[k + 1] /\ k + 1 # 1
      /\ \A k, n \in DOMAIN Tail(rest) : k + 1 = n + 1 => k = n
      /\ Range(rest) = Range(Tail(rest)) \cup {h}
  BY TailOf
<1>2. /\ l \in c.locations \ waiting /\ Due(m, l)
      /\ h \in Range(c.out[l])
      /\ h \in ClonedFrom(m, l)
  BY <1>1 DEF CopiedList
<1>3. m \in Model /\ h.dataGuard \subseteq Test
  BY <1>2, FromParser DEF WellFormed
<1>4. p \in Transition /\ p.source = l /\ p.action = h.action
  BY <1>1, <1>3, CounterpartType
<1> HIDE DEF p
<1>5. /\ l \in Label /\ c.locations \subseteq Label /\ l # Reject
      /\ c.out \in [Label -> Seq(Transition)]
  BY <1>2 DEF Model, Due, isSpecialLocation
<1>6. c2 = CreateTransition(c, p)
  BY DEF p
<1>7. /\ c2 \in Model /\ c2.locations = c.locations
      /\ \A k \in Label : c2.out[k] = IF k = l THEN Append(c.out[k], p) ELSE c.out[k]
  BY <1>4, <1>6, CreateTransitionType
<1>8. /\ c2.transitions = Put(c.transitions, p)
      /\ c2.initialLocation = c.initialLocation /\ c2.clocks = c.clocks
      /\ c2.inputActions = c.inputActions /\ c2.outputActions = c.outputActions
      /\ c2.internalActions = c.internalActions
  BY <1>6 DEF CreateTransition, Model
<1>9. Cloned(c2, m)
  BY <1>7, <1>8 DEF Cloned
<1>10. ASSUME NEW k \in c.locations, k # l
       PROVE  c2.out[k] = c.out[k] /\ Mapped(c2, k) = Mapped(c, k)
  <2>1. \A u : Key(u) = Key(p) => u.source = l
    BY <1>4 DEF Key
  <2>2. Mapped(c2, k) = Mapped(c, k)
    BY <1>4, <1>8, <1>10, <2>1 DEF Mapped, Put
  <2> QED
    BY <1>5, <1>7, <1>10, <2>2
<1> DEFINE old == c.out[l]
           n == Len(old)
<1>11. /\ old \in Seq(Transition) /\ n \in Nat /\ DOMAIN old = 1..n
       /\ c2.out[l] = Append(old, p) /\ DOMAIN Append(old, p) = 1..n + 1
       /\ \A i \in 1..n : Append(old, p)[i] = old[i]
       /\ Append(old, p)[n + 1] = p
  <2>1. old \in Seq(Transition) /\ c2.out[l] = Append(old, p)
    BY <1>5, <1>7
  <2> HIDE DEF old, l
  <2> QED
    BY <1>4, <2>1, AppendProperties, LenProperties
<1> HIDE DEF old, n
<1>12. Range(c2.out[l]) = Range(old) \cup {p}
  <2>1. 1..n + 1 = 1..n \cup {n + 1}
    BY <1>11
  <2> QED
    BY <1>11, <2>1 DEF Range
<1>13. Range(rest) \subseteq Range(Tail(rest)) \cup {h}
  BY <1>1
<1>14. Finished(c, m, l, Range(rest))
  BY <1>2 DEF LocationsHandled
<1>15. Made(m, l, Range(c2.out[l]), Range(Tail(rest)))
  <2>1. Made(m, l, Range(old), Range(rest))
    BY <1>14 DEF Finished, old
  <2>2. Made(m, l, Range(old) \cup {Counterpart(m, h)}, Range(Tail(rest)))
    BY <1>2, <1>13, <2>1, MadeCounterpart
  <2> QED
    BY <1>12, <2>2 DEF p
<1>16. ASSUME OneWay(m)
       PROVE  Made(m, l, Mapped(c2, l), Range(Tail(rest)))
  <2>1. Made(m, l, Mapped(c, l), Range(rest))
    BY <1>14, <1>16 DEF Finished
  <2>2. Made(m, l, Mapped(c, l) \cup {Counterpart(m, h)}, Range(Tail(rest)))
    BY <1>2, <1>13, <2>1, MadeCounterpart
  <2>3. c2.transitions = Put(c.transitions, Counterpart(m, h))
    BY <1>8 DEF p
  <2>4. Mapped(c2, l) = Mapped(c, l) \cup {Counterpart(m, h)}
    BY <1>2, <1>5, <1>16, <2>1, <2>3, PutCounterpart
  <2> QED
    BY <2>2, <2>4
<1>17. ASSUME OneWay(m), OneType(m)
       PROVE  /\ \A i \in DOMAIN old : old[i].action.name = h.action.name => old[i] = h
              /\ \A i, j \in DOMAIN old : (/\ old[i].action.name = h.action.name
                                           /\ old[j].action.name = h.action.name) => i = j
  <2>1. \A i, j \in DOMAIN old : (/\ old[i].action.name = h.action.name
                                  /\ old[j].action.name = h.action.name) => i = j
    BY <1>1, <1>17 DEF CopiedList, old
  <2>2. \E i \in DOMAIN old : old[i] = h
    BY <1>2 DEF Range, old
  <2> QED
    BY <2>1, <2>2
<1>18. ASSUME OneWay(m), OneType(m)
       PROVE  Paired(m, l, c2.out[l])
  <2>1. Paired(m, l, old)
    BY <1>14, <1>18 DEF Finished, old
  <2>2. Negates(m, h, p)
    BY DEF Negates, p
  <2> SUFFICES ASSUME NEW i \in 1..n + 1, NEW j \in 1..n + 1, i # j,
                      Append(old, p)[i].action.name = Append(old, p)[j].action.name
               PROVE  \E y \in ClonedFrom(m, l) :
                         \/ Append(old, p)[i] = y /\ Negates(m, y, Append(old, p)[j])
                         \/ Append(old, p)[j] = y /\ Negates(m, y, Append(old, p)[i])
    <3> DEFINE list == Append(old, p)
    <3>1. c2.out[l] = list /\ DOMAIN list = 1..n + 1
      BY <1>11
    <3> HIDE DEF list
    <3>2. SUFFICES Paired(m, l, list)
      BY <3>1
    <3> QED
      BY <3>1 DEF Paired, list
  <2>3. CASE i \in 1..n /\ j \in 1..n
    BY <1>11, <2>1, <2>3 DEF Paired
  <2>4. CASE i \in 1..n /\ j = n + 1
    <3>1. old[i] = h
      BY <1>4, <1>11, <1>17, <1>18, <2>4
    <3> QED
      BY <1>2, <1>11, <2>2, <2>4, <3>1
  <2>5. CASE j \in 1..n /\ i = n + 1
    <3>1. old[j] = h
      BY <1>4, <1>11, <1>17, <1>18, <2>5
    <3> QED
      BY <1>2, <1>11, <2>2, <2>5, <3>1
  <2> QED
    BY <1>11, <2>3, <2>4, <2>5
<1>19. Finished(c2, m, l, Range(Tail(rest)))
  BY <1>15, <1>16, <1>18 DEF Finished
<1>20. ASSUME NEW k \in c2.locations
       PROVE  IF k \in waiting \/ ~Due(m, k)
              THEN Untouched(c2, m, k)
              ELSE Finished(c2, m, k, Range(Tail(rest)))
  <2>1. CASE k = l
    BY <1>2, <1>19, <2>1
  <2>2. CASE k # l /\ (k \in waiting \/ ~Due(m, k))
    <3>1. Untouched(c, m, k)
      BY <1>7, <2>2 DEF LocationsHandled
    <3>2. c2.out[k] = c.out[k] /\ Mapped(c2, k) = Mapped(c, k)
      BY <1>7, <1>10, <2>2
    <3>3. Untouched(c2, m, k)
      BY <3>1, <3>2 DEF Untouched
    <3> QED
      BY <2>2, <3>3
  <2>3. CASE k # l /\ k \notin waiting /\ Due(m, k)
    <3>1. Finished(c, m, k, Range(rest))
      BY <1>7, <2>3 DEF LocationsHandled
    <3>2. c2.out[k] = c.out[k] /\ Mapped(c2, k) = Mapped(c, k)
      BY <1>7, <1>10, <2>3
    <3>3. h \notin ClonedFrom(m, k)
      BY <2>3, FromParser
    <3>4. ASSUME NEW S, Made(m, k, S, Range(rest)) PROVE Made(m, k, S, Range(Tail(rest)))
      BY <1>13, <3>3, <3>4, MadePass
    <3>5. Finished(c2, m, k, Range(Tail(rest)))
      BY <3>1, <3>2, <3>4 DEF Finished
    <3> QED
      BY <2>3, <3>5
  <2> QED
    BY <2>1, <2>2, <2>3
<1>21. CopiedList(c2, m, waiting, Tail(rest))
  <2>1. ASSUME NEW k \in DOMAIN Tail(rest)
        PROVE  LET t == Tail(rest)[k]
               IN  /\ t.source \in c2.locations \ waiting
                   /\ Due(m, t.source)
                   /\ t \in Range(c2.out[t.source])
                   /\ Guarded(t) => t \in ClonedFrom(m, t.source)
    <3> DEFINE t == rest[k + 1]
    <3>1. /\ t.source \in c.locations \ waiting /\ Due(m, t.source)
          /\ t \in Range(c.out[t.source])
          /\ Guarded(t) => t \in ClonedFrom(m, t.source)
      BY <1>1 DEF CopiedList
    <3>2. t \in Range(c2.out[t.source])
      <4>1. CASE t.source = l
        BY <1>12, <3>1, <4>1 DEF old
      <4>2. CASE t.source # l
        BY <1>10, <3>1, <4>2
      <4> QED
        BY <4>1, <4>2
    <3> QED
      BY <1>1, <1>7, <3>1, <3>2
  <2>2. ASSUME OneWay(m), OneType(m)
        PROVE  \A k, i \in DOMAIN Tail(rest) :
                  Tail(rest)[k].action.name = Tail(rest)[i].action.name => k = i
    BY <1>1, <2>2 DEF CopiedList
  <2>3. ASSUME OneWay(m), OneType(m), NEW k \in DOMAIN Tail(rest),
               NEW i \in DOMAIN c2.out[Tail(rest)[k].source],
               NEW j \in DOMAIN c2.out[Tail(rest)[k].source],
               c2.out[Tail(rest)[k].source][i].action.name = Tail(rest)[k].action.name,
               c2.out[Tail(rest)[k].source][j].action.name = Tail(rest)[k].action.name
        PROVE  i = j
    <3> DEFINE t == rest[k + 1]
    <3>1. /\ t = Tail(rest)[k] /\ k + 1 \in DOMAIN rest /\ k + 1 # 1
          /\ t.source \in c.locations
      BY <1>1 DEF CopiedList
    <3>2. t.action.name # h.action.name
      BY <1>1, <2>3, <3>1 DEF CopiedList
    <3>3. \A x, y \in DOMAIN c.out[t.source] :
             (/\ c.out[t.source][x].action.name = t.action.name
              /\ c.out[t.source][y].action.name = t.action.name) => x = y
      BY <2>3, <3>1 DEF CopiedList
    <3> HIDE DEF t
    <3>4. CASE t.source # l
      <4>1. c2.out[t.source] = c.out[t.source]
        BY <1>10, <3>1, <3>4
      <4> QED
        BY <2>3, <3>1, <3>3, <4>1
    <3>5. CASE t.source = l
      <4>1. i \in 1..n + 1 /\ j \in 1..n + 1
        BY <1>11, <2>3, <3>1, <3>5
      <4>2. /\ Append(old, p)[i].action.name = t.action.name
            /\ Append(old, p)[j].action.name = t.action.name
        BY <1>11, <2>3, <3>1, <3>5
      <4>3. i # n + 1 /\ j # n + 1
        BY <1>4, <1>11, <3>2, <4>2
      <4>4. i \in 1..n /\ j \in 1..n
        BY <1>11, <4>1, <4>3
      <4>5. old[i].action.name = t.action.name /\ old[j].action.name = t.action.name
        BY <1>11, <4>2, <4>4
      <4> QED
        BY <1>11, <3>3, <3>5, <4>4, <4>5 DEF old
    <3> QED
      BY <3>4, <3>5
  <2> QED
    BY <2>1, <2>2, <2>3 DEF CopiedList
<1> QED
  BY <1>7, <1>9, <1>20, <1>21 DEF LocationsHandled

(* A transition of the copied list without guards is passed over.          *)
LEMMA PassHandled ==
    ASSUME NEW m, NEW c, NEW waiting, NEW rest \in Seq(Transition), rest # <<>>,
           LocationsHandled(c, m, waiting, rest), CopiedList(c, m, waiting, rest),
           ~Guarded(Head(rest))
    PROVE  /\ LocationsHandled(c, m, waiting, Tail(rest))
           /\ CopiedList(c, m, waiting, Tail(rest))
<1> DEFINE h == Head(rest)
<1>1. /\ \A k \in DOMAIN Tail(rest) :
            k + 1 \in DOMAIN rest /\ Tail(rest)[k] = rest[k + 1]
      /\ \A k, n \in DOMAIN Tail(rest) : k + 1 = n + 1 => k = n
      /\ Range(rest) \subseteq Range(Tail(rest)) \cup {h}
  BY TailOf
<1>2. ASSUME NEW l, NEW S, Made(m, l, S, Range(rest)) PROVE Made(m, l, S, Range(Tail(rest)))
  BY <1>1, <1>2, MadePass
<1>3. LocationsHandled(c, m, waiting, Tail(rest))
  BY <1>2 DEF LocationsHandled, Finished
<1>4. CopiedList(c, m, waiting, Tail(rest))
  <2>1. \A k \in DOMAIN Tail(rest) :
           LET t == Tail(rest)[k]
           IN  /\ t.source \in c.locations \ waiting
               /\ Due(m, t.source)
               /\ t \in Range(c.out[t.source])
               /\ Guarded(t) => t \in ClonedFrom(m, t.source)
    BY <1>1 DEF CopiedList
  <2>2. ASSUME OneWay(m), OneType(m)
        PROVE  \A k, i \in DOMAIN Tail(rest) :
                  Tail(rest)[k].action.name = Tail(rest)[i].action.name => k = i
    BY <1>1, <2>2 DEF CopiedList
  <2>3. ASSUME OneWay(m), OneType(m), NEW k \in DOMAIN Tail(rest)
        PROVE  \A i, j \in DOMAIN c.out[Tail(rest)[k].source] :
                  (/\ c.out[Tail(rest)[k].source][i].action.name = Tail(rest)[k].action.name
                   /\ c.out[Tail(rest)[k].source][j].action.name = Tail(rest)[k].action.name)
                      => i = j
    <3>1. k + 1 \in DOMAIN rest /\ Tail(rest)[k] = rest[k + 1]
      BY <1>1
    <3>2. \A i, j \in DOMAIN c.out[rest[k + 1].source] :
             (/\ c.out[rest[k + 1].source][i].action.name = rest[k + 1].action.name
              /\ c.out[rest[k + 1].source][j].action.name = rest[k + 1].action.name) => i = j
      BY <2>3, <3>1 DEF CopiedList
    <3> QED
      BY <3>1, <3>2
  <2> QED
    BY <2>1, <2>2, <2>3 DEF CopiedList
<1> QED
  BY <1>3, <1>4

-----------------------------------------------------------------------------
(* The exception.                                                          *)

(* A guard that cannot be negated comes from one of the model.             *)
LEMMA RefusedUnsupported ==
    ASSUME NEW m, WellFormed(m), Parsed(m), NEW l, Due(m, l),
           NEW y \in ClonedFrom(m, l), Refused(y)
    PROVE  Unsupported(m)
<1>1. m \in Model
  BY DEF WellFormed
<1>2. PICK t \in m.transitions :
         /\ t \in Transition /\ t.source = l /\ y = Reparsed(m, t)
         /\ \A c, d \in t.clockGuard : c.clock = d.clock => c.id = d.id
  BY FromParser
<1>3. t.clockGuard # {} /\ ~Negatable(t.clockGuard)
  BY <1>1, <1>2, ReparsedGuard DEF Refused
<1>4. PICK c : c \in t.clockGuard
  BY <1>3
<1>5. CASE t.clockGuard = {c}
  <2>1. c.relation = "="
    BY <1>3, <1>4, <1>5 DEF Negatable
  <2> QED
    BY <1>2, <1>4, <2>1 DEF Unsupported
<1>6. CASE t.clockGuard # {c}
  <2>1. \E d \in t.clockGuard : c # d
    BY <1>4, <1>6
  <2> QED
    BY <1>2, <1>4, <2>1 DEF Unsupported
<1> QED
  BY <1>5, <1>6

(* Where everything has been handled no guard was refused.                 *)
LEMMA MadeSupported ==
    ASSUME NEW m, WellFormed(m), Parsed(m), NEW t \in m.transitions,
           NEW S, Made(m, t.source, S, {}),
           \/ \E c, d \in t.clockGuard : c # d
           \/ \E c \in t.clockGuard : c.relation = "="
    PROVE  FALSE
<1>1. m \in Model /\ t \in Transition
  BY DEF WellFormed, Model
<1>2. \A c, d \in t.clockGuard : c.clock = d.clock => c.id = d.id
  BY DEF Parsed
<1>3. t.clockGuard # {} /\ ~Negatable(t.clockGuard)
  BY DEF Negatable
<1> DEFINE y == Reparsed(m, t)
<1>4. Guarded(y) /\ Refused(y)
  BY <1>1, <1>2, <1>3, ReparsedGuard DEF Guarded, Refused
<1>5. y \in ClonedFrom(m, t.source)
  BY DEF ClonedFrom
<1> HIDE DEF y
<1> QED
  BY <1>4, <1>5 DEF Made

-----------------------------------------------------------------------------
(* The invariant.                                                          *)

(* It holds before the call.                                              *)
LEMMA Initially == Init => IInv
<1> SUFFICES ASSUME Init PROVE IInv
  OBVIOUS
<1>1. tiosts \in Model
  BY TestPurposesAssumption DEF Init, WellFormed
<1>2. EmptyTIOSTS \in Model
  <2>1. <<>> \in Seq(Transition) /\ <<>> \in Seq(Clock)
    BY EmptySeq
  <2> QED
    BY <2>1 DEF EmptyTIOSTS, Model
<1>3. <<>> \in Seq(Transition)
  BY EmptySeq
<1>4. TypeOK
  BY <1>1, <1>2, <1>3 DEF Init, TypeOK, Status
<1> QED
  BY <1>4 DEF Init, IInv

(* Every step keeps the invariant.                                         *)
LEMMA Preserved == IInv /\ [Next]_vars => IInv'
<1> SUFFICES ASSUME IInv, [Next]_vars PROVE IInv'
  OBVIOUS
<1>1. /\ TypeOK /\ tiosts \in TestPurposes
      /\ WellFormed(tiosts) /\ Parsed(tiosts) /\ Reject \in Label
  BY TestPurposesAssumption DEF IInv
<1>2. CASE Start
  <2>1. PICK c \in Clones(tiosts) : complete' = AddLocation(c, Reject)
    BY <1>2 DEF Start
  <2>2. /\ complete' \in Model /\ Cloned(complete', tiosts)
        /\ LocationsHandled(complete', tiosts, complete'.locations, <<>>)
        /\ CopiedList(complete', tiosts, complete'.locations, <<>>)
    BY <1>1, <2>1, StartHandled
  <2>3. /\ tiosts' = tiosts /\ todo = <<>> /\ todo' = <<>>
        /\ pending' = complete'.locations /\ status' = "completing"
    BY <1>2 DEF Start, IInv
  <2>4. TypeOK'
    BY <1>1, <2>2, <2>3 DEF TypeOK, Status
  <2> QED
    BY <1>1, <2>2, <2>3, <2>4 DEF IInv
<1>3. ASSUME NEW l \in pending, Visit(l)
      PROVE  IInv'
  <2>1. /\ status = "completing" /\ todo = <<>> /\ status' = "completing"
        /\ tiosts' = tiosts /\ pending' = pending \ {l}
        /\ complete \in Model /\ pending \subseteq complete.locations
        /\ Cloned(complete, tiosts)
        /\ LocationsHandled(complete, tiosts, pending, <<>>)
        /\ CopiedList(complete, tiosts, pending, <<>>)
    BY <1>3 DEF Visit, IInv, TypeOK
  <2>2. Completed(l) <=> Due(tiosts, l)
    BY <2>1 DEF Completed, Due, Cloned
  <2>3. CASE Completed(l)
    <3>1. complete' \in CreateAll(complete, l, SelfLoops(complete, l)) /\ todo' = complete'.out[l]
      BY <1>3, <2>3 DEF Visit, Loops, Remaining, SelfLoops
    <3>2. /\ complete' \in Model /\ Cloned(complete', tiosts)
          /\ complete'.locations = complete.locations
          /\ LocationsHandled(complete', tiosts, pending \ {l}, complete'.out[l])
          /\ CopiedList(complete', tiosts, pending \ {l}, complete'.out[l])
      BY <1>1, <2>1, <2>2, <2>3, <3>1, VisitHandled
    <3>3. complete'.out[l] \in Seq(Transition)
      BY <2>1, <3>2 DEF Model
    <3>4. TypeOK'
      BY <1>1, <2>1, <3>1, <3>2, <3>3 DEF TypeOK
    <3> QED
      BY <1>1, <2>1, <3>1, <3>2, <3>4 DEF IInv
  <2>4. CASE ~Completed(l)
    <3>1. complete' = complete /\ todo' = <<>>
      BY <1>3, <2>1, <2>4 DEF Visit
    <3>2. LocationsHandled(complete, tiosts, pending \ {l}, <<>>)
      BY <2>1, <2>2, <2>4 DEF LocationsHandled
    <3>3. CopiedList(complete, tiosts, pending \ {l}, <<>>)
      BY EmptySeq DEF CopiedList
    <3>4. TypeOK'
      BY <1>1, <2>1, <3>1, EmptySeq DEF TypeOK
    <3> QED
      BY <1>1, <2>1, <3>1, <3>2, <3>3, <3>4 DEF IInv
  <2> QED
    BY <2>3, <2>4
<1>4. ASSUME todo # <<>>
      PROVE  /\ status = "completing" /\ complete \in Model /\ pending \subseteq complete.locations
             /\ todo \in Seq(Transition) /\ Tail(todo) \in Seq(Transition)
             /\ Head(todo) = todo[1] /\ 1 \in DOMAIN todo
             /\ Cloned(complete, tiosts)
             /\ LocationsHandled(complete, tiosts, pending, todo)
             /\ CopiedList(complete, tiosts, pending, todo)
  <2>1. status \in Status /\ status # "called" /\ status # "returned"
    BY <1>1, <1>4 DEF IInv, TypeOK
  <2>2. status # "thrown"
    BY <1>4 DEF IInv
  <2>3. status = "completing"
    BY <2>1, <2>2 DEF Status
  <2>4. todo \in Seq(Transition)
    BY <1>1 DEF TypeOK
  <2> QED
    BY <1>1, <1>4, <2>3, <2>4, TailOf DEF IInv, TypeOK
<1>5. CASE Negate
  <2>1. /\ todo # <<>> /\ Guarded(Head(todo)) /\ ~Refused(Head(todo))
        /\ complete' = CreateTransition(complete, Negation(Head(todo)))
        /\ todo' = Tail(todo)
        /\ tiosts' = tiosts /\ pending' = pending /\ status' = status
    BY <1>5 DEF Negate
  <2>2. Negation(Head(todo)) = Counterpart(tiosts, Head(todo))
    BY <1>4, <2>1 DEF Negation, Counterpart, Cloned
  <2>3. /\ complete' \in Model /\ Cloned(complete', tiosts)
        /\ complete'.locations = complete.locations
        /\ LocationsHandled(complete', tiosts, pending, Tail(todo))
        /\ CopiedList(complete', tiosts, pending, Tail(todo))
    BY <1>1, <1>4, <2>1, <2>2, NegateHandled
  <2>4. TypeOK'
    BY <1>1, <1>4, <2>1, <2>3 DEF TypeOK
  <2> QED
    BY <1>1, <1>4, <2>1, <2>3, <2>4 DEF IInv
<1>6. CASE Pass
  <2>1. /\ todo # <<>> /\ ~Guarded(Head(todo)) /\ todo' = Tail(todo)
        /\ tiosts' = tiosts /\ complete' = complete /\ pending' = pending /\ status' = status
    BY <1>6 DEF Pass
  <2>2. /\ LocationsHandled(complete, tiosts, pending, Tail(todo))
        /\ CopiedList(complete, tiosts, pending, Tail(todo))
    BY <1>4, <2>1, PassHandled
  <2>3. TypeOK'
    BY <1>1, <1>4, <2>1 DEF TypeOK
  <2> QED
    BY <1>1, <1>4, <2>1, <2>2, <2>3 DEF IInv
<1>7. CASE Throw
  <2>1. /\ todo # <<>> /\ Guarded(Head(todo)) /\ Refused(Head(todo))
        /\ todo' = <<>> /\ pending' = {} /\ status' = "thrown"
        /\ tiosts' = tiosts /\ complete' = complete
    BY <1>7 DEF Throw
  <2>2. Due(tiosts, todo[1].source) /\ todo[1] \in ClonedFrom(tiosts, todo[1].source)
    BY <1>4, <2>1 DEF CopiedList
  <2>3. Unsupported(tiosts)
    BY <1>1, <1>4, <2>1, <2>2, RefusedUnsupported
  <2>4. TypeOK'
    BY <1>1, <1>4, <2>1, EmptySeq DEF TypeOK, Status
  <2> QED
    BY <1>1, <1>4, <2>1, <2>3, <2>4 DEF IInv
<1>8. CASE Return
  <2>1. /\ status = "completing" /\ todo = <<>> /\ pending = {} /\ status' = "returned"
        /\ tiosts' = tiosts /\ complete' = complete /\ pending' = pending /\ todo' = todo
    BY <1>8 DEF Return
  <2>2. TypeOK'
    BY <1>1, <2>1 DEF TypeOK, Status
  <2> QED
    BY <1>1, <2>1, <2>2 DEF IInv
<1>9. CASE UNCHANGED vars
  BY <1>9 DEF vars, IInv, TypeOK
<1> QED
  BY <1>2, <1>3, <1>5, <1>6, <1>7, <1>8, <1>9 DEF Next

(* The invariant holds in every reachable state.                           *)
THEOREM Invariance == Spec => []IInv
<1> QED
  BY Initially, Preserved, PTL DEF Spec
-----------------------------------------------------------------------------
(* What the run checks.                                                    *)

(* The locals of complete() keep their types, whatever the test purpose    *)
(* and the order in which the maps are iterated.                           *)
THEOREM TypeCorrect == Spec => []TypeOK
<1>1. IInv => TypeOK
  BY DEF IInv
<1> QED
  BY <1>1, Invariance, PTL

(* When complete() has returned, nothing is missing at a location that was *)
(* due.                                                                    *)
LEMMA WhenReturned ==
    ASSUME IInv, status = "returned"
    PROVE  /\ WellFormed(tiosts) /\ Parsed(tiosts) /\ Reject \in Label
           /\ Cloned(complete, tiosts)
           /\ Observable(complete) = Observable(tiosts)
           /\ \A l : Completed(l) <=> Due(tiosts, l)
           /\ \A l \in complete.locations :
                 IF Due(tiosts, l) THEN Finished(complete, tiosts, l, {})
                                   ELSE Untouched(complete, tiosts, l)
<1>1. tiosts \in TestPurposes /\ todo = <<>> /\ pending = {} /\ Cloned(complete, tiosts)
  BY DEF IInv
<1>2. WellFormed(tiosts) /\ Parsed(tiosts) /\ Reject \in Label
  BY <1>1, TestPurposesAssumption
<1>3. Observable(complete) = Observable(tiosts) /\ \A l : Completed(l) <=> Due(tiosts, l)
  BY <1>1 DEF Cloned, Observable, Completed, Due
<1>4. LocationsHandled(complete, tiosts, pending, todo)
  BY DEF IInv
<1>5. Range(todo) = {}
  BY <1>1, EmptySeq DEF Range
<1>6. \A l \in complete.locations :
         IF Due(tiosts, l) THEN Finished(complete, tiosts, l, {})
                           ELSE Untouched(complete, tiosts, l)
  BY <1>1, <1>4, <1>5 DEF LocationsHandled
<1> QED
  BY <1>1, <1>2, <1>3, <1>6

(* complete() returns a complete model: every location of a test purpose   *)
(* of the supported form reacts to every input and output at every moment, *)
(* in the lists the synchronous product reads.                             *)
THEOREM Completeness == Spec => []ReturnedComplete
<1>1. IInv => ReturnedComplete
  <2> SUFFICES ASSUME IInv, status = "returned", InScope(tiosts),
                      NEW l \in complete.locations, Completed(l),
                      NEW n \in Observable(complete)
               PROVE  Covers(Range(complete.out[l]), n)
    BY DEF ReturnedComplete
  <2>1. Made(tiosts, l, Range(complete.out[l]), {})
    BY WhenReturned DEF Finished
  <2> QED
    BY <2>1, WhenReturned, MadeCovers
<1> QED
  BY <1>1, Invariance, PTL

(* The map, from which a clone of the result is built, is complete too     *)
(* when no location of the test purpose offers an action twice.            *)
THEOREM CompleteMap == Spec => []MapComplete
<1>1. IInv => MapComplete
  <2> SUFFICES ASSUME IInv, status = "returned", InScope(tiosts), OneWay(tiosts),
                      NEW l \in complete.locations, Completed(l),
                      NEW n \in Observable(complete)
               PROVE  Covers(Mapped(complete, l), n)
    BY DEF MapComplete, Mapped
  <2>1. Made(tiosts, l, Mapped(complete, l), {})
    BY WhenReturned DEF Finished
  <2> QED
    BY <2>1, WhenReturned, MadeCovers
<1> QED
  BY <1>1, Invariance, PTL

(* What is added is taken only where the test purpose had no move.         *)
THEOREM ChoiceKept == Spec => []ChoicePreserved
<1>1. IInv => ChoicePreserved
  <2> SUFFICES ASSUME IInv, status = "returned",
                      InScope(tiosts), OneWay(tiosts), OneType(tiosts),
                      NEW l \in complete.locations,
                      NEW i \in DOMAIN complete.out[l], NEW j \in DOMAIN complete.out[l],
                      i # j,
                      complete.out[l][i].action.name = complete.out[l][j].action.name,
                      NEW v \in Moments
               PROVE  ~(Enabled(complete.out[l][i], v) /\ Enabled(complete.out[l][j], v))
    BY DEF ChoicePreserved
  <2>1. ASSUME NEW y \in ClonedFrom(tiosts, l), NEW u, Negates(tiosts, y, u)
        PROVE  ~(Enabled(y, v) /\ Enabled(u, v))
    BY <2>1, WhenReturned, CounterpartExact DEF Negates
  <2>2. CASE Due(tiosts, l)
    <3>1. Paired(tiosts, l, complete.out[l])
      BY <2>2, WhenReturned DEF Finished
    <3>2. PICK y \in ClonedFrom(tiosts, l) :
             \/ complete.out[l][i] = y /\ Negates(tiosts, y, complete.out[l][j])
             \/ complete.out[l][j] = y /\ Negates(tiosts, y, complete.out[l][i])
      BY <3>1 DEF Paired
    <3> QED
      BY <2>1, <3>2
  <2>3. CASE ~Due(tiosts, l)
    <3>1. Untouched(complete, tiosts, l)
      BY <2>3, WhenReturned
    <3>2. complete.out[l][i] \in ClonedFrom(tiosts, l) /\ complete.out[l][j] \in ClonedFrom(tiosts, l)
      BY <3>1 DEF Untouched, Range
    <3>3. complete.out[l][i] = complete.out[l][j]
      BY <3>2, WhenReturned, ClonedOneWay
    <3> QED
      BY <3>1, <3>3 DEF Untouched
  <2> QED
    BY <2>2, <2>3
<1> QED
  BY <1>1, Invariance, PTL

(* A call ends with the exception exactly when a location that is          *)
(* completed has a clock guard that is not supported, whatever the order   *)
(* in which the locations are visited.                                     *)
THEOREM ThrownExactly == Spec => []ThrownIffUnsupported
<1>1. IInv => ThrownIffUnsupported
  <2> SUFFICES ASSUME IInv
               PROVE  /\ status = "thrown" =>
                            \E t \in tiosts.transitions :
                               /\ Completed(t.source)
                               /\ \/ \E c, d \in t.clockGuard : c # d
                                  \/ \E c \in t.clockGuard : c.relation = "="
                      /\ status = "returned" =>
                            ~\E t \in tiosts.transitions :
                               /\ Completed(t.source)
                               /\ \/ \E c, d \in t.clockGuard : c # d
                                  \/ \E c \in t.clockGuard : c.relation = "="
    BY DEF ThrownIffUnsupported
  <2>1. ASSUME status = "thrown"
        PROVE  \E t \in tiosts.transitions :
                  /\ Completed(t.source)
                  /\ \/ \E c, d \in t.clockGuard : c # d
                     \/ \E c \in t.clockGuard : c.relation = "="
    <3>1. Unsupported(tiosts) /\ Cloned(complete, tiosts)
      BY <2>1 DEF IInv
    <3>2. \A l : Completed(l) <=> Due(tiosts, l)
      BY <3>1 DEF Cloned, Completed, Due
    <3> QED
      BY <3>1, <3>2 DEF Unsupported
  <2>2. ASSUME status = "returned", NEW t \in tiosts.transitions, Completed(t.source),
               \/ \E c, d \in t.clockGuard : c # d
               \/ \E c \in t.clockGuard : c.relation = "="
        PROVE  FALSE
    <3>1. WellFormed(tiosts) /\ Parsed(tiosts) /\ Due(tiosts, t.source)
      BY <2>2, WhenReturned
    <3>2. t.source \in complete.locations
      <4>1. Reparsed(tiosts, t) \in ClonedFrom(tiosts, t.source)
        BY DEF ClonedFrom
      <4>2. t.source \in tiosts.locations
        BY <3>1, <4>1, FromParser
      <4> QED
        BY <2>2, <4>2, WhenReturned DEF Cloned
    <3>3. Made(tiosts, t.source, Range(complete.out[t.source]), {})
      BY <2>2, <3>1, <3>2, WhenReturned DEF Finished
    <3> QED
      BY <2>2, <3>1, <3>3, MadeSupported
  <2> QED
    BY <2>1, <2>2
<1> QED
  BY <1>1, Invariance, PTL
=============================================================================
