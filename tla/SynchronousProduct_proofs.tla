----------------------- MODULE SynchronousProduct_proofs -----------------------
(***************************************************************************)
(* Proofs about SynchronousProduct, for all models and any size of the     *)
(* thread's stack.                                                         *)
(*                                                                         *)
(* IInv keeps the walk within the two models: it creates only their joint  *)
(* moves, and crashes only on a test purpose that starts with its verdict. *)
(* WInv is why nothing is missing, although no pair is recorded: an active *)
(* call has tried whatever its loops got past, and a pair that has a       *)
(* location in the product is active or has been explored.                 *)
(***************************************************************************)
EXTENDS SynchronousProduct, TIOSTS_proofs

Initials == Join(spec.initialLocation, tp.initialLocation)

\* A call of syncProduct that goes through the transitions of its pair.
Exploring(f) ==
    /\ f \in Frame
    /\ f.specLoc \in spec.locations /\ f.tpLoc \in tp.locations
    /\ ~isSpecialLocation(f.tpLoc)

Calls(q) ==
    /\ q \in Seq(Frame)
    /\ Len(q) <= MaxDepth
    /\ \A n \in 1..Len(q) : Exploring(q[n])

NoIds(t) == [t EXCEPT !.clockGuard = {[g EXCEPT !.id = 0] : g \in @}]

Joint == UNION {WithoutIds(JointMoves(p[1], p[2])) : p \in Pairs}

AsCreated(t) == IF status = "returned" THEN FlippedTransition(t) ELSE t

\* Every list of the product, also those of labels without a location yet.
ListsJoint == \A l \in Label : \A t \in Range(sp.out[l]) : NoIds(AsCreated(t)) \in Joint

MapListed == \A t \in sp.transitions : t \in Range(sp.out[t.source])

\* As long as the initial pair has no transition its call has done nothing.
FirstCall ==
    (status = "exploring" /\ ~isSpecialLocation(tp.initialLocation) /\ ~Begun) =>
        stack = <<[specLoc |-> spec.initialLocation, tpLoc |-> tp.initialLocation,
                   i |-> 1, j |-> 0]>>

CrashOnlyOnVerdict == status = "crashed" => isSpecialLocation(tp.initialLocation)

IInv ==
    /\ TypeOK
    /\ Calls(stack)
    /\ ListsJoint
    /\ status # "returned" => MapListed
    /\ FirstCall
    /\ CrashOnlyOnVerdict

-----------------------------------------------------------------------------
(* The arguments.                                                          *)

(* What the instances have: two well-formed models whose pairs are labels. *)
LEMMA Arguments ==
    ASSUME TypeOK
    PROVE  /\ WellFormed(spec) /\ WellFormed(tp)
           /\ spec \in Model /\ tp \in Model
           /\ \A s \in spec.locations, l \in tp.locations : Join(s, l) \in Label
           /\ spec.locations \subseteq Label /\ tp.locations \subseteq Label
           /\ spec.initialLocation \in spec.locations
           /\ tp.initialLocation \in tp.locations
<1>1. /\ WellFormed(spec) /\ WellFormed(tp)
      /\ \A s \in spec.locations, l \in tp.locations : Join(s, l) \in Label
  BY InstancesAssumption DEF TypeOK
<1> QED
  BY <1>1 DEF WellFormed, Model

(* The transitions a location of a well-formed model lists.                *)
LEMMA Listed ==
    ASSUME NEW m, WellFormed(m), NEW l \in m.locations, NEW i \in DOMAIN m.out[l]
    PROVE  /\ m.out[l][i] \in Transition
           /\ m.out[l][i] \in Range(m.out[l])
           /\ m.out[l][i].source = l
           /\ m.out[l][i].target \in m.locations
<1>1. m.out[l] \in Seq(Transition)
  BY DEF WellFormed, Model
<1> QED
  BY <1>1 DEF WellFormed, Range

-----------------------------------------------------------------------------
(* Joint moves.                                                            *)

\* What t gives in the pair <<s, l>>, which is not a verdict.
Waiting(t, s, l) == [t EXCEPT !.source = Join(s, l), !.target = Join(t.target, l)]

Moving(t, u, s, l) ==
    [t EXCEPT !.source = Join(s, l),
              !.dataGuard = t.dataGuard \cup u.dataGuard,
              !.clockGuard = t.clockGuard \cup u.clockGuard,
              !.assignments = t.assignments \cup u.assignments,
              !.target = Join(t.target, u.target)]

Partners(t, l) == {u \in Range(tp.out[l]) : u.action.name = t.action.name}

(* The joint moves of a pair, one transition of the specification at a     *)
(* time.                                                                   *)
LEMMA JointMovesOf ==
    ASSUME NEW s, NEW l, ~isSpecialLocation(l), NEW t \in Range(spec.out[s])
    PROVE  /\ Partners(t, l) = {} => Waiting(t, s, l) \in JointMoves(s, l)
           /\ \A u \in Partners(t, l) : Moving(t, u, s, l) \in JointMoves(s, l)
<1> DEFINE of(r) == IF Partners(r, l) = {} THEN {Waiting(r, s, l)}
                    ELSE {Moving(r, u, s, l) : u \in Partners(r, l)}
<1>1. l \notin {Accept, Reject}
  BY DEF isSpecialLocation
<1>2. JointMoves(s, l) = UNION {of(r) : r \in Range(spec.out[s])}
  BY <1>1 DEF JointMoves, Partners, Waiting, Moving
<1>3. of(t) \subseteq JointMoves(s, l)
  BY <1>2
<1> QED
  BY <1>3

(* A joint move of a pair that is explored is one, whatever its ids.       *)
LEMMA JointMove ==
    ASSUME NEW s \in spec.locations, NEW l \in tp.locations,
           NEW t \in JointMoves(s, l)
    PROVE  NoIds(t) \in Joint
<1>1. <<s, l>> \in Pairs
  BY DEF Pairs
<1>2. NoIds(t) \in WithoutIds(JointMoves(<<s, l>>[1], <<s, l>>[2]))
  BY DEF WithoutIds, NoIds
<1> QED
  BY <1>1, <1>2 DEF Joint

(* Parsing a guard again changes ids only.                                 *)
LEMMA ReparsedNoIds ==
    ASSUME NEW m \in Model, NEW t \in Transition
    PROVE  NoIds(Reparsed(m, t)) = NoIds(t)
<1> DEFINE strip(g) == [g EXCEPT !.id = 0]
           parse(g) == [g EXCEPT !.id = ClockId(m.clocks, g.clock)]
<1>1. t.clockGuard \subseteq SimpleClockGuard
  BY DEF Transition
<1>2. \A g \in t.clockGuard : strip(parse(g)) = strip(g)
  BY <1>1 DEF SimpleClockGuard
<1>3. Reparsed(m, t) = [t EXCEPT !.clockGuard = {parse(g) : g \in t.clockGuard}]
  BY DEF Reparsed, ParseClockGuard
<1> HIDE DEF parse, strip
<1>4. {strip(h) : h \in {parse(g) : g \in t.clockGuard}} = {strip(g) : g \in t.clockGuard}
  BY <1>2
<1>5. NoIds(t) = [t EXCEPT !.clockGuard = {strip(g) : g \in t.clockGuard}]
  BY DEF NoIds, strip
<1>6. Reparsed(m, t).clockGuard = {parse(g) : g \in t.clockGuard}
  BY <1>3 DEF Transition
<1>7. NoIds(Reparsed(m, t))
        = [Reparsed(m, t) EXCEPT !.clockGuard = {strip(h) : h \in Reparsed(m, t).clockGuard}]
  BY DEF NoIds, strip
<1> QED
  BY <1>3, <1>4, <1>5, <1>6, <1>7 DEF Transition

-----------------------------------------------------------------------------
(* The recursion.                                                          *)

(* The call on top of the stack and those below it.                        *)
LEMMA TopCall ==
    ASSUME Calls(stack), stack # <<>>
    PROVE  /\ Exploring(Top)
           /\ Calls(Tail(stack))
           /\ Len(stack) = Len(Tail(stack)) + 1
<1>1. /\ Len(stack) \in Nat \ {0}
      /\ Len(Tail(stack)) = Len(stack) - 1
      /\ Tail(stack) \in Seq(Frame)
      /\ \A n \in 1..Len(Tail(stack)) : Tail(stack)[n] = stack[n + 1]
  BY HeadTailProperties, EmptySeq, LenProperties DEF Calls
<1>2. Top = stack[1]
  BY DEF Top
<1>3. 1 \in 1..Len(stack)
  BY <1>1
<1>4. Exploring(Top)
  BY <1>2, <1>3 DEF Calls
<1>5. ASSUME NEW n \in 1..Len(Tail(stack))
      PROVE  Exploring(Tail(stack)[n])
  <2>1. n + 1 \in 1..Len(stack) /\ Tail(stack)[n] = stack[n + 1]
    BY <1>1
  <2> QED
    BY <2>1 DEF Calls
<1>6. Len(Tail(stack)) <= MaxDepth
  BY <1>1, DepthAssumption DEF Calls
<1> QED
  BY <1>1, <1>4, <1>5, <1>6 DEF Calls

(* One more call on top of some that are active.                           *)
LEMMA PushCall ==
    ASSUME NEW q, Calls(q), Len(q) < MaxDepth, NEW f, Exploring(f)
    PROVE  /\ Calls(<<f>> \o q)
           /\ Len(<<f>> \o q) = Len(q) + 1
<1>1. f \in Frame /\ q \in Seq(Frame) /\ Len(q) \in Nat
  BY LenProperties DEF Calls, Exploring
<1>2. /\ <<f>> \o q \in Seq(Frame)
      /\ Len(<<f>> \o q) = Len(q) + 1
  BY <1>1
<1>3. ASSUME NEW n \in 1..Len(q) + 1
      PROVE  (<<f>> \o q)[n] = IF n = 1 THEN f ELSE q[n - 1]
  BY <1>1
<1>4. ASSUME NEW n \in 1..Len(q) + 1
      PROVE  Exploring((<<f>> \o q)[n])
  <2>1. CASE n = 1
    BY <1>3, <2>1
  <2>2. CASE n # 1
    <3>1. n - 1 \in 1..Len(q)
      BY <1>1, <2>2
    <3> QED
      BY <1>3, <2>2, <3>1 DEF Calls
  <2> QED
    BY <2>1, <2>2
<1> QED
  BY <1>1, <1>2, <1>4, DepthAssumption DEF Calls

(* The iteration of the loops the call on top is at.                       *)
LEMMA Iteration ==
    ASSUME IInv, InLoop
    PROVE  /\ Exploring(Top)
           /\ SpecTransition \in Transition
           /\ SpecTransition \in Range(spec.out[Top.specLoc])
           /\ SpecTransition.target \in spec.locations
<1>1. Exploring(Top)
  BY TopCall DEF IInv, InLoop
<1>2. WellFormed(spec) /\ Top.specLoc \in spec.locations /\ Top.i \in Nat \ {0}
  BY <1>1, Arguments DEF IInv, Exploring, Frame
<1>3. spec.out[Top.specLoc] \in Seq(Transition)
  BY <1>2 DEF WellFormed, Model
<1>4. Top.i \in DOMAIN spec.out[Top.specLoc]
  BY <1>2, <1>3, LenProperties DEF InLoop
<1> QED
  BY <1>1, <1>2, <1>4, Listed DEF SpecTransition

(* The calls that are left when the one on top is past position k.         *)
LEMMA RestCalls ==
    ASSUME IInv, InLoop, NEW k \in Nat
    PROVE  Calls(Rest(k)) /\ Rest(k) # <<>>
<1> DEFINE f == IF \E later \in TpTransitions : later > k
                THEN [Top EXCEPT !.j = k]
                ELSE [Top EXCEPT !.i = @ + 1, !.j = 0]
<1>1. /\ Exploring(Top) /\ Calls(Tail(stack)) /\ Len(stack) = Len(Tail(stack)) + 1
      /\ Len(stack) <= MaxDepth
  BY TopCall DEF IInv, InLoop, Calls
<1>2. Exploring(f)
  <2>1. Exploring([Top EXCEPT !.j = k])
    BY <1>1 DEF Exploring, Frame
  <2>2. Exploring([Top EXCEPT !.i = @ + 1, !.j = 0])
    <3>1. ASSUME NEW g \in Frame
          PROVE  /\ [g EXCEPT !.i = @ + 1, !.j = 0] \in Frame
                 /\ [g EXCEPT !.i = @ + 1, !.j = 0].specLoc = g.specLoc
                 /\ [g EXCEPT !.i = @ + 1, !.j = 0].tpLoc = g.tpLoc
      <4>1. g.i \in Nat \ {0}
        BY DEF Frame
      <4>2. g.i + 1 \in Nat \ {0}
        BY <4>1
      <4> QED
        BY <4>2 DEF Frame
    <3> QED
      BY <1>1, <3>1 DEF Exploring
  <2> QED
    BY <2>1, <2>2
<1>3. Rest(k) = <<f>> \o Tail(stack)
  BY DEF Rest
<1> HIDE DEF f
<1>4. Len(Tail(stack)) \in Nat
  BY <1>1, LenProperties DEF Calls
<1>5. Len(Tail(stack)) < MaxDepth
  BY <1>1, <1>4, DepthAssumption
<1>6. Calls(Rest(k)) /\ Len(Rest(k)) = Len(Tail(stack)) + 1
  BY <1>1, <1>2, <1>3, <1>5, PushCall
<1> QED
  BY <1>4, <1>6

(* syncProduct called on a pair of locations.                              *)
LEMMA InvokeCalls ==
    ASSUME TypeOK, NEW s \in spec.locations, NEW l \in tp.locations,
           NEW rest, Calls(rest), Invoke(s, l, rest)
    PROVE  Calls(stack') /\ status' \in {"exploring", "overflow"}
<1> DEFINE f == [specLoc |-> s, tpLoc |-> l, i |-> 1, j |-> 0]
<1>1. CASE isSpecialLocation(l)
  BY <1>1 DEF Invoke
<1>2. CASE ~isSpecialLocation(l) /\ Len(rest) >= MaxDepth
  <2>1. stack' = <<>> /\ status' = "overflow"
    BY <1>2 DEF Invoke
  <2> QED
    BY <2>1, DepthAssumption DEF Calls
<1>3. CASE ~isSpecialLocation(l) /\ ~(Len(rest) >= MaxDepth)
  <2>1. stack' = <<f>> \o rest /\ status' = "exploring"
    BY <1>3 DEF Invoke
  <2>2. Exploring(f)
    BY <1>3, Arguments DEF Exploring, Frame
  <2>3. Len(rest) < MaxDepth
    BY <1>3, DepthAssumption, LenProperties DEF Calls
  <2> HIDE DEF f
  <2> QED
    BY <2>1, <2>2, <2>3, PushCall
<1> QED
  BY <1>1, <1>2, <1>3

(* The calls, when the arguments stay.                                     *)
LEMMA CallsPrime ==
    ASSUME Calls(stack'), UNCHANGED <<spec, tp>>
    PROVE  Calls(stack)'
  BY DEF Calls, Exploring

-----------------------------------------------------------------------------
(* The moves.                                                              *)

(* Where the test purpose does not know the action, it waits.              *)
LEMMA UnmatchedMove ==
    ASSUME IInv, InLoop, TpTransitions = {}
    PROVE  /\ Unmatched \in Transition
           /\ Unmatched.source = Join(Top.specLoc, Top.tpLoc)
           /\ NoIds(Unmatched) \in Joint
<1>1. /\ Exploring(Top) /\ SpecTransition \in Transition
      /\ SpecTransition \in Range(spec.out[Top.specLoc])
      /\ SpecTransition.target \in spec.locations
  BY Iteration
<1>2. /\ Join(Top.specLoc, Top.tpLoc) \in Label
      /\ Join(SpecTransition.target, Top.tpLoc) \in Label
  BY <1>1, Arguments DEF IInv, Exploring
<1>3. /\ Unmatched \in Transition
      /\ Unmatched.source = Join(Top.specLoc, Top.tpLoc)
  BY <1>1, <1>2 DEF Unmatched, Transition
<1>4. Unmatched \in JointMoves(Top.specLoc, Top.tpLoc)
  <2>1. Partners(SpecTransition, Top.tpLoc) = {}
    BY DEF Partners, TpTransitions, getTransitionsByAction, Range
  <2>2. Unmatched = Waiting(SpecTransition, Top.specLoc, Top.tpLoc)
    BY DEF Unmatched, Waiting
  <2> QED
    BY <1>1, <2>1, <2>2, JointMovesOf DEF Exploring
<1> QED
  BY <1>1, <1>3, <1>4, JointMove DEF Exploring

(* Where it knows the action, both move.                                   *)
LEMMA MatchedMove ==
    ASSUME IInv, InLoop, NEW k \in TpTransitions, NEW u, u = tp.out[Top.tpLoc][k]
    PROVE  /\ k \in Nat
           /\ u.target \in tp.locations
           /\ Matched(u) \in Transition
           /\ Matched(u).source = Join(Top.specLoc, Top.tpLoc)
           /\ NoIds(Matched(u)) \in Joint
<1>1. /\ Exploring(Top) /\ SpecTransition \in Transition
      /\ SpecTransition \in Range(spec.out[Top.specLoc])
      /\ SpecTransition.target \in spec.locations
  BY Iteration
<1>2. /\ k \in DOMAIN tp.out[Top.tpLoc]
      /\ u.action.name = SpecTransition.action.name
  BY DEF TpTransitions, getTransitionsByAction
<1>3. WellFormed(tp) /\ Top.tpLoc \in tp.locations
  BY <1>1, Arguments DEF IInv, Exploring
<1>4. /\ u \in Transition /\ u \in Range(tp.out[Top.tpLoc]) /\ u.target \in tp.locations
  BY <1>2, <1>3, Listed
<1>5. k \in Nat
  <2>1. tp.out[Top.tpLoc] \in Seq(Transition)
    BY <1>3 DEF WellFormed, Model
  <2> QED
    BY <1>2, <2>1, LenProperties
<1>6. /\ Join(Top.specLoc, Top.tpLoc) \in Label
      /\ Join(SpecTransition.target, u.target) \in Label
  BY <1>1, <1>4, Arguments DEF IInv, Exploring
<1>7. /\ Matched(u) \in Transition
      /\ Matched(u).source = Join(Top.specLoc, Top.tpLoc)
  BY <1>1, <1>4, <1>6 DEF Matched, Transition
<1>8. Matched(u) \in JointMoves(Top.specLoc, Top.tpLoc)
  <2>1. u \in Partners(SpecTransition, Top.tpLoc)
    BY <1>2, <1>4 DEF Partners
  <2>2. Matched(u) = Moving(SpecTransition, u, Top.specLoc, Top.tpLoc)
    BY DEF Matched, Moving
  <2> QED
    BY <1>1, <2>1, <2>2, JointMovesOf DEF Exploring
<1> QED
  BY <1>1, <1>4, <1>5, <1>7, <1>8, JointMove DEF Exploring

-----------------------------------------------------------------------------
(* The product.                                                            *)

ProductOK(m) ==
    /\ m \in Model
    /\ \A l \in Label : \A t \in Range(m.out[l]) : NoIds(t) \in Joint
    /\ \A t \in m.transitions : t \in Range(m.out[t.source])

(* createTransition with a joint move, after its locations are added.      *)
LEMMA Created ==
    ASSUME NEW m, ProductOK(m), NEW t \in Transition, NoIds(t) \in Joint
    PROVE  /\ ProductOK(WithLocations(m, t))
           /\ WithLocations(m, t).out = m.out
           /\ ProductOK(CreateTransition(WithLocations(m, t), t))
           /\ \A l \in Label :
                 (l = t.source \/ m.out[l] # <<>>)
                    => CreateTransition(WithLocations(m, t), t).out[l] # <<>>
<1> DEFINE w == WithLocations(m, t)
           c == CreateTransition(w, t)
<1>1. /\ m \in Model /\ t.source \in Label /\ t.target \in Label
  BY DEF ProductOK, Transition
<1>2. /\ AddLocation(m, t.source) \in Model
      /\ AddLocation(m, t.source).out = m.out
  BY <1>1, AddLocationType
<1>3. w \in Model /\ w.out = m.out
  BY <1>1, <1>2, AddLocationType DEF WithLocations
<1>4. w.transitions = m.transitions
  BY <1>1 DEF WithLocations, AddLocation, Model
<1>5. ProductOK(w)
  BY <1>3, <1>4 DEF ProductOK
<1> HIDE DEF w
<1>6. /\ c \in Model
      /\ \A l \in Label : c.out[l] = IF l = t.source THEN Append(w.out[l], t) ELSE w.out[l]
  BY <1>3, CreateTransitionType
<1>7. c.transitions = Put(w.transitions, t)
  BY <1>3 DEF CreateTransition, Model
<1> HIDE DEF c
<1>8. ASSUME NEW q \in Seq(Transition)
      PROVE  /\ Range(Append(q, t)) = Range(q) \cup {t}
             /\ Append(q, t) # <<>>
  BY AppendProperties, LenProperties DEF Range
<1>9. \A l \in Label : w.out[l] \in Seq(Transition)
  BY <1>3 DEF Model
<1>10. ASSUME NEW l \in Label
       PROVE  /\ Range(c.out[l]) =
                    IF l = t.source THEN Range(w.out[l]) \cup {t} ELSE Range(w.out[l])
              /\ (l = t.source \/ w.out[l] # <<>>) => c.out[l] # <<>>
  BY <1>6, <1>8, <1>9
<1>11. \A l \in Label : \A u \in Range(c.out[l]) : NoIds(u) \in Joint
  BY <1>5, <1>10 DEF ProductOK
<1>12. ASSUME NEW u \in c.transitions
       PROVE  u \in Range(c.out[u.source])
  <2>1. u = t \/ u \in w.transitions
    BY <1>7 DEF Put
  <2>2. u.source \in Label
    BY <1>6 DEF Model, Transition
  <2> QED
    BY <1>5, <1>10, <2>1, <2>2 DEF ProductOK
<1>13. ProductOK(c)
  BY <1>6, <1>11, <1>12 DEF ProductOK
<1> QED
  BY <1>3, <1>5, <1>10, <1>13 DEF w, c

(* What the pairs owe does not change while the arguments do not.          *)
LEMMA JointStays ==
    ASSUME UNCHANGED <<spec, tp>>
    PROVE  Joint' = Joint
  BY DEF Joint, Pairs, JointMoves, WithoutIds

(* In a call that has not returned, IInv says this of the product.         *)
LEMMA ProductOf ==
    ASSUME TypeOK, status # "returned"
    PROVE  (ListsJoint /\ MapListed) <=> ProductOK(sp)
  BY DEF TypeOK, ListsJoint, MapListed, ProductOK, AsCreated

LEMMA ProductPrime ==
    ASSUME ProductOK(sp'), UNCHANGED <<spec, tp>>, status' # "returned"
    PROVE  (ListsJoint /\ MapListed)'
<1>1. Joint' = Joint
  BY JointStays
<1>2. \A l \in Label : \A t \in Range(sp'.out[l]) : NoIds(t) \in Joint'
  BY <1>1 DEF ProductOK
<1> QED
  BY <1>2 DEF ListsJoint, MapListed, ProductOK, AsCreated

-----------------------------------------------------------------------------
(* The steps.                                                              *)

(* The initial pair has a transition once its call has tried one.          *)
LEMMA BegunAfterVisit ==
    ASSUME IInv, InLoop, ~isSpecialLocation(tp.initialLocation),
           NEW sought, NEW stored \in Transition, NoIds(stored) \in Joint,
           sought.source = Join(Top.specLoc, Top.tpLoc), stored.source = sought.source,
           NEW l, NEW rest, Visit(sought, stored, l, rest)
    PROVE  Begun'
<1>1. Initials \in Label
  BY Arguments DEF IInv, Initials
<1>2. ProductOK(sp)
  BY ProductOf DEF IInv, InLoop
<1>3. Initials' = Initials
  BY DEF Initials, Visit
<1>4. Begun \/ (Top.specLoc = spec.initialLocation /\ Top.tpLoc = tp.initialLocation)
  <2>1. ASSUME ~Begun
        PROVE  stack = <<[specLoc |-> spec.initialLocation, tpLoc |-> tp.initialLocation,
                          i |-> 1, j |-> 0]>>
    BY <2>1 DEF IInv, FirstCall, InLoop
  <2> QED
    BY <2>1 DEF Top
<1>5. CASE Absent(sought)
  <2>1. sp' = CreateTransition(WithLocations(sp, stored), stored)
    BY <1>5 DEF Visit
  <2>2. Initials = stored.source \/ sp.out[Initials] # <<>>
    BY <1>4 DEF Begun, Initials
  <2>3. sp'.out[Initials] # <<>>
    BY <1>1, <1>2, <2>1, <2>2, Created
  <2> QED
    BY <1>3, <2>3 DEF Begun, Initials
<1>6. CASE ~Absent(sought)
  <2>1. sp'.out = sp.out
    BY <1>2, <1>6, Created DEF Visit
  <2>2. PICK u \in sp.transitions : Key(u) = Key(sought)
    BY <1>6 DEF Absent
  <2>3. u.source = Join(Top.specLoc, Top.tpLoc)
    BY <2>2 DEF Key
  <2>4. u \in Range(sp.out[Join(Top.specLoc, Top.tpLoc)])
    BY <1>2, <2>3 DEF ProductOK
  <2>5. sp.out[Join(Top.specLoc, Top.tpLoc)] # <<>>
    BY <2>4 DEF Range
  <2>6. sp.out[Initials] # <<>>
    BY <1>4, <2>5 DEF Begun, Initials
  <2> QED
    BY <1>3, <2>1, <2>6 DEF Begun, Initials
<1> QED
  BY <1>5, <1>6

(* One transition of the pair on top, found or created.                    *)
LEMMA VisitStep ==
    ASSUME IInv, InLoop,
           NEW sought, NEW stored \in Transition, NoIds(stored) \in Joint,
           sought.source = Join(Top.specLoc, Top.tpLoc), stored.source = sought.source,
           NEW l \in tp.locations, NEW rest, Calls(rest),
           Visit(sought, stored, l, rest)
    PROVE  IInv'
<1>1. UNCHANGED <<spec, tp>>
  BY DEF Visit
<1>2. ProductOK(sp)
  BY ProductOf DEF IInv, InLoop
<1>3. ProductOK(sp')
  BY <1>2, Created DEF Visit
<1>4. SpecTransition.target \in spec.locations
  BY Iteration
<1>5. Calls(stack') /\ status' \in {"exploring", "overflow"}
  <2>1. CASE Absent(sought)
    BY <1>4, <2>1, InvokeCalls DEF Visit, IInv
  <2>2. CASE ~Absent(sought)
    BY <2>2 DEF Visit, InLoop
  <2> QED
    BY <2>1, <2>2
<1>6. Calls(stack)'
  BY <1>1, <1>5, CallsPrime
<1>7. (ListsJoint /\ MapListed)'
  BY <1>1, <1>3, <1>5, ProductPrime
<1>8. TypeOK'
  BY <1>1, <1>3, <1>5 DEF IInv, TypeOK, ProductOK, Calls, Status
<1>9. FirstCall'
  BY <1>1, BegunAfterVisit DEF FirstCall, isSpecialLocation
<1> QED
  BY <1>5, <1>6, <1>7, <1>8, <1>9 DEF IInv, CrashOnlyOnVerdict

(* A transition whose action the test purpose does not know.               *)
LEMMA UnmatchedStep == IInv /\ VisitUnmatched => IInv'
<1> SUFFICES ASSUME IInv, VisitUnmatched PROVE IInv'
  OBVIOUS
<1> DEFINE stored == Reparsed(sp, Unmatched)
<1>1. InLoop /\ TpTransitions = {} /\ Visit(Unmatched, stored, Top.tpLoc, Rest(0))
  BY DEF VisitUnmatched
<1>2. /\ Unmatched \in Transition
      /\ Unmatched.source = Join(Top.specLoc, Top.tpLoc)
      /\ NoIds(Unmatched) \in Joint
  BY <1>1, UnmatchedMove
<1>3. /\ stored \in Transition /\ stored.source = Unmatched.source
      /\ NoIds(stored) \in Joint
  BY <1>2, ReparsedType, ReparsedNoIds DEF IInv, TypeOK
<1>4. Calls(Rest(0)) /\ Top.tpLoc \in tp.locations
  BY <1>1, RestCalls, Iteration DEF Exploring
<1> HIDE DEF stored
<1> QED
  BY <1>1, <1>2, <1>3, <1>4, VisitStep

(* A transition and one of the test purpose with its action.               *)
LEMMA MatchedStep == IInv /\ VisitMatched => IInv'
<1> SUFFICES ASSUME IInv, VisitMatched PROVE IInv'
  OBVIOUS
<1>1. InLoop
  BY DEF VisitMatched
<1>2. PICK k \in TpTransitions :
         LET u == tp.out[Top.tpLoc][k]
         IN  Visit(Matched(u), Matched(u), u.target, Rest(k))
  BY DEF VisitMatched
<1> DEFINE u == tp.out[Top.tpLoc][k]
<1>3. Visit(Matched(u), Matched(u), u.target, Rest(k))
  BY <1>2
<1>4. /\ k \in Nat /\ u.target \in tp.locations
      /\ Matched(u) \in Transition
      /\ Matched(u).source = Join(Top.specLoc, Top.tpLoc)
      /\ NoIds(Matched(u)) \in Joint
  BY <1>1, MatchedMove
<1>5. Calls(Rest(k))
  BY <1>1, <1>4, RestCalls
<1> HIDE DEF u
<1> QED
  BY <1>1, <1>3, <1>4, <1>5, VisitStep

(* The end of a call of syncProduct.  The call of the initial pair has one *)
(* transition to try, so it does not end before it has.                    *)
LEMMA LeaveStep == IInv /\ Leave => IInv'
<1> SUFFICES ASSUME IInv, Leave PROVE IInv'
  OBVIOUS
<1>1. /\ status = "exploring" /\ stack # <<>> /\ ~InLoop
      /\ stack' = Tail(stack) /\ UNCHANGED <<spec, tp, sp, status>>
  BY DEF Leave
<1>2. Calls(stack')
  BY <1>1, TopCall DEF IInv
<1>3. Calls(stack)'
  BY <1>1, <1>2, CallsPrime
<1>4. TypeOK'
  BY <1>1, <1>2 DEF IInv, TypeOK, Calls
<1>5. (ListsJoint /\ MapListed)'
  BY <1>1, ProductOf, ProductPrime DEF IInv
<1>6. Begun \/ isSpecialLocation(tp.initialLocation)
  <2> SUFFICES ASSUME ~Begun, ~isSpecialLocation(tp.initialLocation) PROVE FALSE
    OBVIOUS
  <2>1. stack = <<[specLoc |-> spec.initialLocation, tpLoc |-> tp.initialLocation,
                   i |-> 1, j |-> 0]>>
    BY <1>1 DEF IInv, FirstCall
  <2>2. Top.specLoc = spec.initialLocation /\ Top.i = 1
    BY <2>1 DEF Top
  <2>3. Len(spec.out[spec.initialLocation]) = 1
    BY Arguments DEF IInv, WellFormed
  <2> QED
    BY <1>1, <2>2, <2>3 DEF InLoop
<1>7. FirstCall'
  BY <1>1, <1>6 DEF FirstCall, Begun, isSpecialLocation
<1> QED
  BY <1>1, <1>3, <1>4, <1>5, <1>7 DEF IInv, CrashOnlyOnVerdict

(* initializeSyncProduct and the first call.                               *)
LEMMA StartStep == IInv /\ Start => IInv'
<1> SUFFICES ASSUME IInv, Start PROVE IInv'
  OBVIOUS
<1>1. status = "called" /\ UNCHANGED <<spec, tp>>
  BY DEF Start
<1>2. CASE Compatible(spec, tp)
  <2>1. /\ sp' = initializeSyncProduct(spec, tp)
        /\ Invoke(spec.initialLocation, tp.initialLocation, <<>>)
    BY <1>2 DEF Start
  <2>2. spec \in Model /\ tp \in Model
        /\ spec.initialLocation \in spec.locations /\ tp.initialLocation \in tp.locations
    BY Arguments DEF IInv
  <2>3. /\ sp' \in Model /\ sp'.out = [l \in Label |-> <<>>] /\ sp'.transitions = {}
    <3>1. /\ EmptyTIOSTS \in Model
          /\ EmptyTIOSTS.out = [l \in Label |-> <<>>] /\ EmptyTIOSTS.transitions = {}
      BY DEF EmptyTIOSTS, Model
    <3>2. /\ spec.clocks \o tp.clocks \in Seq(Clock)
          /\ spec.variables \cup tp.variables \in SUBSET Variable
          /\ spec.inputActions \in SUBSET Name /\ spec.outputActions \in SUBSET Name
          /\ spec.internalActions \in SUBSET Name
      BY <2>2 DEF Model
    <3>3. sp' = [EmptyTIOSTS EXCEPT
                    !.variables       = spec.variables \cup tp.variables,
                    !.clocks          = spec.clocks \o tp.clocks,
                    !.inputActions    = spec.inputActions,
                    !.outputActions   = spec.outputActions,
                    !.internalActions = spec.internalActions]
      BY <2>1 DEF initializeSyncProduct
    <3> QED
      BY <3>1, <3>2, <3>3 DEF Model
  <2>4. ProductOK(sp')
    BY <2>3 DEF ProductOK, Range
  <2>5. Calls(<<>>)
    BY DepthAssumption DEF Calls
  <2>6. Calls(stack') /\ status' \in {"exploring", "overflow"}
    BY <2>1, <2>2, <2>5, InvokeCalls DEF IInv
  <2>7. Calls(stack)'
    BY <1>1, <2>6, CallsPrime
  <2>8. (ListsJoint /\ MapListed)'
    BY <1>1, <2>4, <2>6, ProductPrime
  <2>9. TypeOK'
    BY <1>1, <2>3, <2>6 DEF IInv, TypeOK, Calls, Status
  <2>10. FirstCall'
    <3> SUFFICES ASSUME ~isSpecialLocation(tp.initialLocation)
                 PROVE  stack' = <<[specLoc |-> spec.initialLocation,
                                    tpLoc |-> tp.initialLocation, i |-> 1, j |-> 0]>>
      BY <1>1 DEF FirstCall, isSpecialLocation
    <3> QED
      BY <2>1, DepthAssumption DEF Invoke
  <2> QED
    BY <2>6, <2>7, <2>8, <2>9, <2>10 DEF IInv, CrashOnlyOnVerdict
<1>3. CASE ~Compatible(spec, tp)
  <2>1. status' = "incompatible" /\ UNCHANGED <<spec, tp, sp, stack>>
    BY <1>1, <1>3 DEF Start
  <2>2. (ListsJoint /\ MapListed)'
    BY <1>1, <2>1, ProductOf, ProductPrime DEF IInv
  <2>3. Calls(stack)'
    BY <2>1, CallsPrime DEF IInv
  <2>4. TypeOK'
    BY <2>1 DEF IInv, TypeOK, Status
  <2> QED
    BY <2>1, <2>2, <2>3, <2>4 DEF IInv, FirstCall, CrashOnlyOnVerdict
<1> QED
  BY <1>2, <1>3

(* Swapping inputs and outputs twice changes nothing.                      *)
LEMMA FlippedTwice ==
    ASSUME NEW t \in Transition
    PROVE  /\ FlippedTransition(t) \in Transition
           /\ FlippedTransition(FlippedTransition(t)) = t
<1>1. t.action \in Action
  BY DEF Transition
<1>2. /\ Flipped(t.action) \in Action
      /\ Flipped(Flipped(t.action)) = t.action
  BY <1>1 DEF Flipped, Action, ActionType, ACTION_INPUT, ACTION_OUTPUT, ACTION_INTERNAL
<1>3. FlippedTransition(t) = [t EXCEPT !.action = Flipped(t.action)]
  BY DEF FlippedTransition
<1> QED
  BY <1>2, <1>3 DEF FlippedTransition, Transition

(* mirror: every list has its transitions with their types swapped.        *)
LEMMA Mirrored ==
    ASSUME NEW m \in Model
    PROVE  /\ mirror(m) \in Model
           /\ \A l \in Label : \A t \in Range(mirror(m).out[l]) :
                 \E u \in Range(m.out[l]) : t = FlippedTransition(u)
           /\ \A l \in Label : \A u \in Range(m.out[l]) :
                 FlippedTransition(u) \in Range(mirror(m).out[l])
           /\ \A l \in Label : mirror(m).out[l] # <<>> => m.out[l] # <<>>
<1> DEFINE lists == [l \in Label |-> [i \in DOMAIN m.out[l] |-> FlippedTransition(m.out[l][i])]]
           map   == {FlippedTransition(t) : t \in m.transitions}
<1>1. ASSUME NEW l \in Label
      PROVE  lists[l] \in Seq(Transition)
  <2>1. /\ Len(m.out[l]) \in Nat /\ DOMAIN m.out[l] = 1..Len(m.out[l])
        /\ \A i \in DOMAIN m.out[l] : m.out[l][i] \in Transition
    BY DEF Model
  <2>2. \A i \in DOMAIN m.out[l] : FlippedTransition(m.out[l][i]) \in Transition
    BY <2>1, FlippedTwice
  <2>3. lists[l] \in [1..Len(m.out[l]) -> Transition]
    BY <2>1, <2>2
  <2> QED
    BY <2>1, <2>3
<1>2. map \subseteq Transition
  BY FlippedTwice DEF Model
<1>3. lists \in [Label -> Seq(Transition)]
  BY <1>1
<1>4. /\ mirror(m) = [m EXCEPT !.inputActions = m.outputActions,
                             !.outputActions = m.inputActions,
                             !.out = lists, !.transitions = map]
  BY DEF mirror
<1> HIDE DEF lists, map
<1>5. mirror(m) \in Model /\ mirror(m).out = lists
  BY <1>2, <1>3, <1>4 DEF Model
<1>6. ASSUME NEW l \in Label, NEW t \in Range(lists[l])
      PROVE  \E u \in Range(m.out[l]) : t = FlippedTransition(u)
  BY DEF lists, Range
<1>7. ASSUME NEW l \in Label, NEW u \in Range(m.out[l])
      PROVE  FlippedTransition(u) \in Range(lists[l])
  BY DEF lists, Range
<1>8. ASSUME NEW l \in Label, m.out[l] = <<>>
      PROVE  lists[l] = <<>>
  BY <1>8 DEF lists
<1> QED
  BY <1>5, <1>6, <1>7, <1>8

(* The end of the walk: the product is mirrored.                           *)
LEMMA ReturnStep == IInv /\ Return => IInv'
<1> SUFFICES ASSUME IInv, Return PROVE IInv'
  OBVIOUS
<1> DEFINE m == WithInitial(sp)
<1>1. /\ status = "exploring" /\ stack = <<>> /\ Begun
      /\ sp' = mirror(m) /\ status' = "returned" /\ UNCHANGED <<spec, tp, stack>>
  BY DEF Return, Done
<1>2. sp \in Model /\ ProductOK(sp)
  BY <1>1, ProductOf DEF IInv, TypeOK
<1>3. Initials \in Label
  BY Arguments DEF IInv, Initials
<1>4. sp.out[Initials][1].dataGuard \subseteq Atom
  <2>1. sp.out[Initials] \in Seq(Transition) /\ sp.out[Initials] # <<>>
    BY <1>1, <1>2, <1>3 DEF Model, Begun, Initials
  <2>2. sp.out[Initials][1] \in Transition
    BY <2>1
  <2> QED
    BY <2>2 DEF Transition
<1>5. m \in Model /\ m.out = sp.out
  BY <1>2, <1>3, <1>4 DEF WithInitial, SetInitialLocation, Model, Initials
<1> HIDE DEF m
<1>6. /\ sp' \in Model
      /\ \A l \in Label : \A t \in Range(sp'.out[l]) :
            \E u \in Range(sp.out[l]) : t = FlippedTransition(u)
  BY <1>1, <1>5, Mirrored
<1>7. ListsJoint'
  <2>1. Joint' = Joint
    BY <1>1, JointStays
  <2>2. ASSUME NEW l \in Label, NEW t \in Range(sp'.out[l])
        PROVE  NoIds(FlippedTransition(t)) \in Joint
    <3>1. PICK u \in Range(sp.out[l]) : t = FlippedTransition(u)
      BY <1>6, <2>2
    <3>2. u \in Transition
      <4>1. sp.out[l] \in Seq(Transition)
        BY <1>2 DEF Model
      <4> QED
        BY <4>1 DEF Range
    <3>3. FlippedTransition(t) = u
      BY <3>1, <3>2, FlippedTwice
    <3> QED
      BY <1>2, <3>3 DEF ProductOK
  <2> QED
    BY <1>1, <2>1, <2>2 DEF ListsJoint, AsCreated
<1>8. Calls(stack)'
  BY <1>1, CallsPrime DEF IInv
<1>9. TypeOK'
  BY <1>1, <1>6 DEF IInv, TypeOK, Status
<1> QED
  BY <1>1, <1>7, <1>8, <1>9 DEF IInv, FirstCall, CrashOnlyOnVerdict

(* A walk that left nothing behind started with a verdict.                 *)
LEMMA CrashStep == IInv /\ Crash => IInv'
<1> SUFFICES ASSUME IInv, Crash PROVE IInv'
  OBVIOUS
<1>1. /\ status = "exploring" /\ stack = <<>> /\ ~Begun
      /\ status' = "crashed" /\ UNCHANGED <<spec, tp, sp, stack>>
  BY DEF Crash, Done
<1>2. isSpecialLocation(tp.initialLocation)
  BY <1>1 DEF IInv, FirstCall
<1>3. (ListsJoint /\ MapListed)'
  BY <1>1, ProductOf, ProductPrime DEF IInv
<1>4. Calls(stack)'
  BY <1>1, CallsPrime DEF IInv
<1>5. TypeOK'
  BY <1>1 DEF IInv, TypeOK, Status
<1> QED
  BY <1>1, <1>2, <1>3, <1>4, <1>5 DEF IInv, FirstCall, CrashOnlyOnVerdict, isSpecialLocation

-----------------------------------------------------------------------------
(* The theorems.                                                           *)

(* Before the call.                                                        *)
LEMMA InitIInv == Init => IInv
<1> SUFFICES ASSUME Init PROVE IInv
  OBVIOUS
<1>1. \E p \in Instances : spec = p[1] /\ tp = p[2]
  BY DEF Init
<1>2. /\ sp = EmptyTIOSTS /\ stack = <<>> /\ status = "called"
  BY DEF Init
<1>3. sp \in Model /\ sp.out = [l \in Label |-> <<>>] /\ sp.transitions = {}
  BY <1>2 DEF EmptyTIOSTS, Model
<1>4. ListsJoint /\ MapListed
  BY <1>3 DEF ListsJoint, MapListed, Range
<1>5. Calls(stack)
  BY <1>2, DepthAssumption DEF Calls
<1>6. TypeOK
  BY <1>1, <1>2, <1>3, <1>5 DEF TypeOK, Calls, Status
<1> QED
  BY <1>2, <1>4, <1>5, <1>6 DEF IInv, FirstCall, CrashOnlyOnVerdict

(* The invariant is inductive.                                             *)
LEMMA StepIInv == IInv /\ [Next]_vars => IInv'
<1> SUFFICES ASSUME IInv, [Next]_vars PROVE IInv'
  OBVIOUS
<1>1. CASE UNCHANGED vars
  <2>1. UNCHANGED <<spec, tp, sp, stack, status>>
    BY <1>1 DEF vars
  <2>2. Calls(stack)'
    BY <2>1, CallsPrime DEF IInv
  <2>3. ListsJoint'
    BY <2>1, JointStays DEF IInv, ListsJoint, AsCreated
  <2> QED
    BY <2>1, <2>2, <2>3 DEF IInv, TypeOK, MapListed, FirstCall, Begun,
                            CrashOnlyOnVerdict, isSpecialLocation
<1> QED
  BY <1>1, StartStep, UnmatchedStep, MatchedStep, LeaveStep, ReturnStep, CrashStep DEF Next

(* In every reachable state the active calls are of pairs of the two       *)
(* models, the product has joint moves only and the map no other           *)
(* transition than the lists.                                              *)
THEOREM Invariance == Spec => []IInv
  BY InitIInv, StepIInv, PTL DEF Spec

(* The product and the calls keep their shape, however deep the recursion  *)
(* goes.                                                                   *)
THEOREM TypeCorrect == Spec => []TypeOK
<1>1. IInv => TypeOK
  BY DEF IInv
<1> QED
  BY <1>1, Invariance, PTL

(* syncProduct creates joint moves of the two models only, for every pair  *)
(* of well-formed models, whatever transitions replace each other in the   *)
(* map.                                                                    *)
THEOREM Soundness == Spec => []Sound
<1>1. IInv => Sound
  <2> SUFFICES ASSUME IInv, NEW t \in Product PROVE t \in Joint
    BY DEF Sound, Joint
  <2>1. PICK u \in Unmirrored(OutTransitions(sp)) : t = NoIds(u)
    BY DEF Product, WithoutIds, NoIds
  <2>2. PICK w \in OutTransitions(sp) : u = AsCreated(w)
    BY <2>1 DEF Unmirrored, AsCreated
  <2>3. PICK l \in sp.locations : w \in Range(sp.out[l])
    BY <2>2 DEF OutTransitions
  <2>4. l \in Label
    BY <2>3 DEF IInv, TypeOK, Model
  <2> QED
    BY <2>1, <2>2, <2>3, <2>4 DEF IInv, ListsJoint
<1> QED
  BY <1>1, Invariance, PTL

(* A call ends with the NullPointerException only if the test purpose      *)
(* starts with Accept or Reject.                                           *)
THEOREM CrashesOnlyOnVerdict == Spec => []CrashOnlyOnVerdict
<1>1. IInv => CrashOnlyOnVerdict
  BY DEF IInv
<1> QED
  BY <1>1, Invariance, PTL

-----------------------------------------------------------------------------
(* What the walk leaves behind.  The proofs of ReturnedComplete and        *)
(* ReturnedCloneable keep track of the moves that every active call has    *)
(* got past, and of what the lists and the map of the product hold.        *)

\* The positions of the moves that go with position h of the specification.
Positions(m1, m2, s, l, h) ==
    {k \in DOMAIN m2.out[l] : m2.out[l][k].action.name = m1.out[s][h].action.name}

\* A transition that getTransition takes for t, ids aside, is listed.
Has(lists, x, t) == \E w \in Range(lists[x]) : Alike(NoIds(w), NoIds(t))

\* The moves the call f has got past are listed.
Tried(lists, m1, m2, f) ==
    \A h \in DOMAIN m1.out[f.specLoc] :
        /\ (h < f.i /\ Positions(m1, m2, f.specLoc, f.tpLoc, h) = {})
              => Has(lists, Join(f.specLoc, f.tpLoc),
                     Waiting(m1.out[f.specLoc][h], f.specLoc, f.tpLoc))
        /\ \A k \in Positions(m1, m2, f.specLoc, f.tpLoc, h) :
              (h < f.i \/ (h = f.i /\ k <= f.j))
                 => Has(lists, Join(f.specLoc, f.tpLoc),
                        Moving(m1.out[f.specLoc][h], m2.out[f.tpLoc][k], f.specLoc, f.tpLoc))

Explored(lists, m1, m2, s, l) ==
    \A h \in DOMAIN m1.out[s] :
        /\ Positions(m1, m2, s, l, h) = {}
              => Has(lists, Join(s, l), Waiting(m1.out[s][h], s, l))
        /\ \A k \in Positions(m1, m2, s, l, h) :
              Has(lists, Join(s, l), Moving(m1.out[s][h], m2.out[l][k], s, l))

Active(q, s, l) == \E n \in 1..Len(q) : q[n].specLoc = s /\ q[n].tpLoc = l

TriedAll(p, q, m1, m2) == \A n \in 1..Len(q) : Tried(p.out, m1, m2, q[n])

Reached(p, q, m1, m2) ==
    \A s \in m1.locations, l \in m2.locations :
        (Join(s, l) \in p.locations /\ ~isSpecialLocation(l))
            => Explored(p.out, m1, m2, s, l) \/ Active(q, s, l)

\* The map leads to locations of the product, and the lists start at them.
Grounded(p) ==
    /\ \A t \in p.transitions : t.target \in p.locations
    /\ \A x \in Label : p.out[x] # <<>> => x \in p.locations

\* initializeSyncProduct's declarations.
Declares(p, m1, m2) ==
    /\ p.clocks = m1.clocks \o m2.clocks
    /\ p.inputActions = m1.inputActions /\ p.outputActions = m1.outputActions
    /\ p.internalActions = m1.internalActions

\* Unmatched, stored: the guard is parsed with the clocks of the product.
StoredWaiting(m1, m2, s, l, h) ==
    [Waiting(m1.out[s][h], s, l) EXCEPT !.clockGuard = ParseClockGuard(@, m1.clocks \o m2.clocks)]

\* t is what a call of syncProduct on <<s, l>> stores for one of its moves.
OfPair(t, m1, m2, s, l) ==
    /\ ~isSpecialLocation(l)
    /\ \E h \in DOMAIN m1.out[s] :
          \/ /\ Positions(m1, m2, s, l, h) = {}
             /\ t = StoredWaiting(m1, m2, s, l, h)
          \/ \E k \in Positions(m1, m2, s, l, h) : t = Moving(m1.out[s][h], m2.out[l][k], s, l)

Stored(t, m1, m2) == \E s \in m1.locations, l \in m2.locations : OfPair(t, m1, m2, s, l)

Kept(p) == \A x \in Label : Range(p.out[x]) \subseteq p.transitions

Distinct == PairsDistinct /\ KeysDistinct

\* What the walk keeps true of the product.
Sufficient(p) ==
    /\ Declares(p, spec, tp)
    /\ Cloneable(p)
    /\ Grounded(p)
    /\ \A x \in Label : \A t \in Range(p.out[x]) : Stored(t, spec, tp)
    /\ Distinct => Kept(p)

\* What mirror() leaves of that.
Mirror(p) ==
    /\ Cloneable(p)
    /\ \A t \in p.transitions : t \in Range(p.out[t.source])
    /\ \A x \in Label : p.out[x] # <<>> => x \in p.locations
    /\ \A x \in Label : \A t \in Range(p.out[x]) : Stored(FlippedTransition(t), spec, tp)
    /\ Distinct => Kept(p)

WInv ==
    /\ status = "exploring" => Sufficient(sp)
    /\ status = "returned" => Mirror(sp) /\ stack = <<>>
    /\ (status \in {"exploring", "returned"} /\ PairsDistinct)
          => TriedAll(sp, stack, spec, tp) /\ Reached(sp, stack, spec, tp)

-----------------------------------------------------------------------------
(* Active calls.                                                           *)

(* What is on a stack when one more call is put on it.                     *)
LEMMA OnTop ==
    ASSUME NEW q \in Seq(Frame), NEW f \in Frame
    PROVE  /\ Len(<<f>> \o q) = Len(q) + 1 /\ Len(q) \in Nat
           /\ (<<f>> \o q)[1] = f
           /\ \A n \in 1..Len(q) : (<<f>> \o q)[n + 1] = q[n]
           /\ \A n \in 1..Len(q) + 1 : n # 1 => n - 1 \in 1..Len(q) /\ (<<f>> \o q)[n] = q[n - 1]
<1>1. <<f>> \in Seq(Frame) /\ Len(<<f>>) = 1 /\ <<f>>[1] = f
  OBVIOUS
<1>2. Len(q) \in Nat
  BY LenProperties
<1>3. Len(<<f>> \o q) = Len(q) + 1
  BY <1>1
<1>4. (<<f>> \o q)[1] = f
  BY <1>1, <1>2
<1>5. \A n \in 1..Len(q) : (<<f>> \o q)[n + 1] = q[n]
  BY <1>1, <1>2
<1>6. \A n \in 1..Len(q) + 1 :
         n # 1 => n - 1 \in 1..Len(q) /\ (<<f>> \o q)[n] = q[n - 1]
  <2> SUFFICES ASSUME NEW n \in 1..Len(q) + 1, n # 1
               PROVE  n - 1 \in 1..Len(q) /\ (<<f>> \o q)[n] = q[n - 1]
    OBVIOUS
  <2>1. n - 1 \in 1..Len(q) /\ (n - 1) + 1 = n
    BY <1>2
  <2> QED
    BY <1>5, <2>1
<1> QED
  BY <1>2, <1>3, <1>4, <1>5, <1>6

(* Which pairs are active then.                                            *)
LEMMA ActiveOnTop ==
    ASSUME NEW q \in Seq(Frame), NEW f \in Frame, NEW s, NEW l
    PROVE  Active(<<f>> \o q, s, l) <=> ((f.specLoc = s /\ f.tpLoc = l) \/ Active(q, s, l))
<1> DEFINE r == <<f>> \o q
<1>1. /\ Len(r) = Len(q) + 1 /\ Len(q) \in Nat /\ r[1] = f
      /\ \A n \in 1..Len(q) : r[n + 1] = q[n]
      /\ \A n \in 1..Len(q) + 1 : n # 1 => n - 1 \in 1..Len(q) /\ r[n] = q[n - 1]
  BY OnTop
<1> HIDE DEF r
<1>2. ASSUME Active(r, s, l)
      PROVE  (f.specLoc = s /\ f.tpLoc = l) \/ Active(q, s, l)
  <2>1. PICK n \in 1..Len(r) : r[n].specLoc = s /\ r[n].tpLoc = l
    BY <1>2 DEF Active
  <2>2. CASE n = 1
    BY <1>1, <2>1, <2>2
  <2>3. CASE n # 1
    <3>1. n - 1 \in 1..Len(q) /\ r[n] = q[n - 1]
      BY <1>1, <2>3
    <3> QED
      BY <2>1, <3>1 DEF Active
  <2> QED
    BY <2>2, <2>3
<1>3. ASSUME f.specLoc = s, f.tpLoc = l
      PROVE  Active(r, s, l)
  <2>1. 1 \in 1..Len(r)
    BY <1>1
  <2> QED
    BY <1>1, <1>3, <2>1 DEF Active
<1>4. ASSUME Active(q, s, l)
      PROVE  Active(r, s, l)
  <2>1. PICK n \in 1..Len(q) : q[n].specLoc = s /\ q[n].tpLoc = l
    BY <1>4 DEF Active
  <2>2. n + 1 \in 1..Len(r) /\ r[n + 1] = q[n]
    BY <1>1
  <2> QED
    BY <2>1, <2>2 DEF Active
<1>5. r = <<f>> \o q
  BY DEF r
<1> QED
  BY <1>2, <1>3, <1>4, <1>5

(* What the calls then have got past.                                      *)
LEMMA TriedOnTop ==
    ASSUME NEW p, NEW m1, NEW m2, NEW q \in Seq(Frame), NEW f \in Frame,
           Tried(p.out, m1, m2, f), TriedAll(p, q, m1, m2)
    PROVE  TriedAll(p, <<f>> \o q, m1, m2)
<1> DEFINE r == <<f>> \o q
<1>1. /\ Len(r) = Len(q) + 1 /\ Len(q) \in Nat /\ r[1] = f
      /\ \A n \in 1..Len(q) + 1 : n # 1 => n - 1 \in 1..Len(q) /\ r[n] = q[n - 1]
  BY OnTop
<1> HIDE DEF r
<1>2. ASSUME NEW n \in 1..Len(r)
      PROVE  Tried(p.out, m1, m2, r[n])
  <2>1. CASE n = 1
    BY <1>1, <2>1
  <2>2. CASE n # 1
    <3>1. n - 1 \in 1..Len(q) /\ r[n] = q[n - 1]
      BY <1>1, <2>2
    <3> QED
      BY <3>1 DEF TriedAll
  <2> QED
    BY <2>1, <2>2
<1>3. r = <<f>> \o q
  BY DEF r
<1> QED
  BY <1>2, <1>3 DEF TriedAll

(* A stack that is not empty is its first call on top of the others.       *)
LEMMA TopOnRest ==
    ASSUME Calls(stack), stack # <<>>
    PROVE  /\ stack = <<Top>> \o Tail(stack)
           /\ Tail(stack) \in Seq(Frame) /\ Top \in Frame
<1>1. stack \in Seq(Frame) /\ Len(stack) \in Nat \ {0}
  BY EmptySeq, LenProperties DEF Calls
<1>2. Exploring(Top) /\ Calls(Tail(stack))
  BY TopCall
<1>3. Tail(stack) \in Seq(Frame) /\ Top \in Frame
  BY <1>2 DEF Calls, Exploring
<1>4. stack = <<Head(stack)>> \o Tail(stack)
  BY <1>1
<1> QED
  BY <1>3, <1>4 DEF Top

(* Lists that grow have what they had.                                     *)
LEMMA TriedGrows ==
    ASSUME NEW a, NEW b, NEW m1, NEW m2, NEW f,
           Range(a[Join(f.specLoc, f.tpLoc)]) \subseteq Range(b[Join(f.specLoc, f.tpLoc)]),
           Tried(a, m1, m2, f)
    PROVE  Tried(b, m1, m2, f)
<1>1. \A t : Has(a, Join(f.specLoc, f.tpLoc), t) => Has(b, Join(f.specLoc, f.tpLoc), t)
  BY DEF Has
<1> QED
  BY <1>1 DEF Tried

(* The same for a pair without a call.                                     *)
LEMMA ExploredGrows ==
    ASSUME NEW a, NEW b, NEW m1, NEW m2, NEW s, NEW l,
           Range(a[Join(s, l)]) \subseteq Range(b[Join(s, l)]),
           Explored(a, m1, m2, s, l)
    PROVE  Explored(b, m1, m2, s, l)
<1>1. \A t : Has(a, Join(s, l), t) => Has(b, Join(s, l), t)
  BY DEF Has
<1> QED
  BY <1>1 DEF Explored

-----------------------------------------------------------------------------
(* One more transition.                                                    *)

Extended(m, t) == CreateTransition(WithLocations(m, t), t)

(* What createTransition, after its locations are added, changes.          *)
LEMMA Grown ==
    ASSUME NEW m \in Model, NEW t \in Transition
    PROVE  /\ WithLocations(m, t) \in Model /\ Extended(m, t) \in Model
           /\ WithLocations(m, t).locations = m.locations \cup {t.source, t.target}
           /\ Extended(m, t).locations = m.locations \cup {t.source, t.target}
           /\ WithLocations(m, t).out = m.out /\ WithLocations(m, t).transitions = m.transitions
           /\ \A x \in Label :
                 Range(Extended(m, t).out[x]) =
                    IF x = t.source THEN Range(m.out[x]) \cup {t} ELSE Range(m.out[x])
           /\ \A x \in Label : x # t.source => Extended(m, t).out[x] = m.out[x]
           /\ Extended(m, t).transitions = Put(m.transitions, t)
           /\ \A d \in {WithLocations(m, t), Extended(m, t)} :
                 /\ d.clocks = m.clocks /\ d.inputActions = m.inputActions
                 /\ d.outputActions = m.outputActions
                 /\ d.internalActions = m.internalActions
<1> DEFINE w == WithLocations(m, t)
           c == CreateTransition(w, t)
<1>1. t.source \in Label /\ t.target \in Label
  BY DEF Transition
<1>2. /\ AddLocation(m, t.source) \in Model
      /\ AddLocation(m, t.source).out = m.out
  BY <1>1, AddLocationType
<1>3. w \in Model /\ w.out = m.out
  BY <1>1, <1>2, AddLocationType DEF WithLocations
<1>4. /\ w.locations = m.locations \cup {t.source, t.target}
      /\ w.transitions = m.transitions
      /\ w.clocks = m.clocks /\ w.inputActions = m.inputActions
      /\ w.outputActions = m.outputActions /\ w.internalActions = m.internalActions
  BY <1>1 DEF WithLocations, AddLocation, Model
<1>5. /\ c \in Model /\ c.locations = w.locations
      /\ \A x \in Label : c.out[x] = IF x = t.source THEN Append(w.out[x], t) ELSE w.out[x]
  BY <1>3, CreateTransitionType
<1>6. /\ c.transitions = Put(w.transitions, t)
      /\ c.clocks = w.clocks /\ c.inputActions = w.inputActions
      /\ c.outputActions = w.outputActions /\ c.internalActions = w.internalActions
  BY <1>3 DEF CreateTransition, Model
<1>7. ASSUME NEW q \in Seq(Transition)
      PROVE  Range(Append(q, t)) = Range(q) \cup {t}
  BY AppendProperties, LenProperties DEF Range
<1>8. \A x \in Label : m.out[x] \in Seq(Transition)
  BY DEF Model
<1>9. \A x \in Label : Range(c.out[x]) = IF x = t.source THEN Range(m.out[x]) \cup {t}
                                         ELSE Range(m.out[x])
  BY <1>3, <1>5, <1>7, <1>8
<1>10. w = WithLocations(m, t) /\ c = Extended(m, t)
  BY DEF Extended
<1> HIDE DEF w, c
<1> QED
  BY <1>3, <1>4, <1>5, <1>6, <1>9, <1>10

(* getTransition compares nothing that the ids are part of but the guards. *)
LEMMA AlikeNoIds ==
    ASSUME NEW t \in Transition, NEW u \in Transition, Key(t) = Key(u),
           t.dataGuard = u.dataGuard, t.clockGuard = u.clockGuard
    PROVE  Alike(NoIds(t), NoIds(u))
<1>1. ASSUME NEW r \in Transition
      PROVE  /\ Key(NoIds(r)) = Key(r) /\ NoIds(r).dataGuard = r.dataGuard
             /\ NoIds(r).clockGuard = {[g EXCEPT !.id = 0] : g \in r.clockGuard}
  BY DEF NoIds, Key, Transition
<1> QED
  BY <1>1 DEF Alike

(* The product after an iteration: the lists have what was sought, every   *)
(* location that is new is at an end of it, and its target is new only if  *)
(* it was not found.                                                       *)
LEMMA Visited ==
    ASSUME IInv, InLoop, Grounded(sp),
           NEW sought \in Transition, NEW stored \in Transition,
           Alike(NoIds(stored), NoIds(sought)), sought.source = stored.source,
           sought.target = stored.target,
           NEW l, NEW rest, Visit(sought, stored, l, rest)
    PROVE  /\ \A x \in Label : Range(sp.out[x]) \subseteq Range(sp'.out[x])
           /\ Has(sp'.out, stored.source, sought)
           /\ sp'.locations = sp.locations \cup {stored.source, stored.target}
           /\ ~Absent(sought) => stored.target \in sp.locations
<1>1. sp \in Model /\ ProductOK(sp)
  BY ProductOf DEF IInv, InLoop, TypeOK
<1> DEFINE w == WithLocations(sp, stored)
           c == Extended(sp, stored)
<1>2. /\ w.locations = sp.locations \cup {stored.source, stored.target}
      /\ c.locations = w.locations /\ w.out = sp.out
      /\ \A x \in Label : Range(c.out[x]) = IF x = stored.source
                                            THEN Range(sp.out[x]) \cup {stored}
                                            ELSE Range(sp.out[x])
  <2>1. sp \in Model
    BY <1>1
  <2>2. w.locations = sp.locations \cup {stored.source, stored.target}
    BY <2>1, Grown
  <2>3. c.locations = sp.locations \cup {stored.source, stored.target}
    BY <2>1, Grown
  <2>4. w.out = sp.out
    BY <2>1, Grown
  <2>5. \A x \in Label : Range(c.out[x]) = IF x = stored.source
                                            THEN Range(sp.out[x]) \cup {stored}
                                            ELSE Range(sp.out[x])
    BY <2>1, Grown
  <2> QED
    BY <2>2, <2>3, <2>4, <2>5
<1>3. stored.source \in Label
  BY DEF Transition
<1>4. CASE Absent(sought)
  <2>1. sp' = c
    BY <1>4 DEF Visit, Extended
  <2> HIDE DEF w, c
  <2>2. stored \in Range(sp'.out[stored.source])
    BY <1>2, <1>3, <2>1
  <2> QED
    BY <1>2, <1>4, <2>1, <2>2 DEF Has
<1>5. CASE ~Absent(sought)
  <2>1. sp' = w
    BY <1>5 DEF Visit
  <2> HIDE DEF w, c
  <2>2. PICK u \in sp.transitions :
           /\ Key(u) = Key(sought) /\ u.dataGuard = sought.dataGuard
           /\ u.clockGuard = sought.clockGuard
    BY <1>5 DEF Absent
  <2>3. u.source = stored.source /\ u.target = stored.target
    BY <2>2 DEF Key
  <2>4. u \in Range(sp.out[stored.source])
    BY <1>1, <2>2, <2>3 DEF ProductOK
  <2>5. u \in Transition
    BY <1>1, <2>2 DEF Model
  <2>6. Alike(NoIds(u), NoIds(sought))
    BY <2>2, <2>5, AlikeNoIds
  <2>7. Has(sp'.out, stored.source, sought)
    BY <1>2, <2>1, <2>4, <2>6 DEF Has
  <2>8. stored.target \in sp.locations
    BY <2>2, <2>3 DEF Grounded
  <2> QED
    BY <1>2, <2>1, <2>7, <2>8
<1> QED
  BY <1>4, <1>5

(* A call that has just begun has got past nothing.                        *)
LEMMA FreshCall ==
    ASSUME TypeOK, NEW s \in spec.locations, NEW l \in tp.locations, NEW a
    PROVE  Tried(a, spec, tp, [specLoc |-> s, tpLoc |-> l, i |-> 1, j |-> 0])
<1> DEFINE new == [specLoc |-> s, tpLoc |-> l, i |-> 1, j |-> 0]
<1>1. /\ spec.out[s] \in Seq(Transition) /\ tp.out[l] \in Seq(Transition)
  BY Arguments DEF Model
<1>2. ASSUME NEW h \in DOMAIN spec.out[s]
      PROVE  ~(h < 1) /\ \A k \in Positions(spec, tp, s, l, h) : ~(k <= 0)
  <2>1. h \in Nat \ {0}
    BY <1>1, LenProperties
  <2>2. ASSUME NEW k \in Positions(spec, tp, s, l, h)
        PROVE  ~(k <= 0)
    <3>1. k \in DOMAIN tp.out[l]
      BY DEF Positions
    <3> QED
      BY <1>1, <3>1, LenProperties
  <2> QED
    BY <2>1, <2>2
<1>3. new.specLoc = s /\ new.tpLoc = l /\ new.i = 1 /\ new.j = 0
  OBVIOUS
<1> HIDE DEF new
<1>4. Tried(a, spec, tp, new)
  BY <1>2, <1>3 DEF Tried
<1> QED
  BY <1>4 DEF new

(* An iteration keeps track of the pairs, when what it leaves to the call  *)
(* on top is behind what it sought.                                        *)
LEMMA VisitWalked ==
    ASSUME IInv, InLoop, Grounded(sp), PairsDistinct,
           TriedAll(sp, stack, spec, tp), Reached(sp, stack, spec, tp),
           NEW sought \in Transition, NEW stored \in Transition,
           Alike(NoIds(stored), NoIds(sought)),
           sought.source = stored.source, sought.target = stored.target,
           stored.source = Join(Top.specLoc, Top.tpLoc),
           NEW l \in tp.locations, stored.target = Join(SpecTransition.target, l),
           NEW g \in Frame, g.specLoc = Top.specLoc, g.tpLoc = Top.tpLoc,
           \A a : (Tried(a, spec, tp, Top) /\ Has(a, stored.source, sought))
                     => Tried(a, spec, tp, g),
           Visit(sought, stored, l, <<g>> \o Tail(stack)), status' = "exploring"
    PROVE  TriedAll(sp', stack', spec, tp) /\ Reached(sp', stack', spec, tp)
<1> DEFINE rest == <<g>> \o Tail(stack)
           new == [specLoc |-> SpecTransition.target, tpLoc |-> l, i |-> 1, j |-> 0]
<1>1. /\ Exploring(Top) /\ SpecTransition.target \in spec.locations
      /\ \A s \in spec.locations, k \in tp.locations : Join(s, k) \in Label
      /\ spec.locations \subseteq Label /\ tp.locations \subseteq Label
  BY Iteration, Arguments DEF IInv
<1>2. /\ Calls(stack) /\ stack # <<>> /\ stack = <<Top>> \o Tail(stack)
      /\ Tail(stack) \in Seq(Frame) /\ Top \in Frame
      /\ Calls(Tail(stack))
  BY TopOnRest, TopCall DEF IInv, InLoop
<1>3. rest \in Seq(Frame)
  BY <1>2
<1>4. /\ \A x \in Label : Range(sp.out[x]) \subseteq Range(sp'.out[x])
      /\ Has(sp'.out, stored.source, sought)
      /\ sp'.locations = sp.locations \cup {stored.source, stored.target}
      /\ ~Absent(sought) => stored.target \in sp.locations
  BY Visited
<1>5. \/ stack' = rest /\ (isSpecialLocation(l) \/ ~Absent(sought))
      \/ stack' = <<new>> \o rest /\ Absent(sought)
  BY DEF Visit, Invoke
<1>6. new \in Frame
  BY <1>1 DEF Frame
<1>7. ASSUME NEW f, Exploring(f), Tried(sp.out, spec, tp, f)
      PROVE  Tried(sp'.out, spec, tp, f)
  <2>1. Join(f.specLoc, f.tpLoc) \in Label
    BY <1>1, <1>7 DEF Exploring
  <2> QED
    BY <1>4, <1>7, <2>1, TriedGrows
<1>8. TriedAll(sp', Tail(stack), spec, tp)
  <2>1. /\ Len(stack) = Len(Tail(stack)) + 1 /\ Len(Tail(stack)) \in Nat
        /\ \A n \in 1..Len(Tail(stack)) : stack[n + 1] = Tail(stack)[n]
    BY <1>2, OnTop
  <2>2. ASSUME NEW n \in 1..Len(Tail(stack))
        PROVE  Tried(sp'.out, spec, tp, Tail(stack)[n])
    <3>1. n + 1 \in 1..Len(stack)
      BY <2>1
    <3>2. Exploring(Tail(stack)[n])
      BY <1>2 DEF Calls
    <3>3. Tried(sp.out, spec, tp, Tail(stack)[n])
      BY <2>1, <3>1 DEF TriedAll
    <3> QED
      BY <1>7, <3>2, <3>3
  <2> QED
    BY <2>2 DEF TriedAll
<1>9. Tried(sp'.out, spec, tp, g)
  <2>1. Len(stack) = Len(Tail(stack)) + 1 /\ Len(Tail(stack)) \in Nat /\ stack[1] = Top
    BY <1>2, OnTop
  <2>2. Tried(sp.out, spec, tp, Top)
    BY <2>1 DEF TriedAll
  <2>3. Tried(sp'.out, spec, tp, Top)
    BY <1>1, <1>7, <2>2
  <2> QED
    BY <1>4, <2>3
<1>10. TriedAll(sp', rest, spec, tp)
  BY <1>2, <1>8, <1>9, TriedOnTop
<1>11. Tried(sp'.out, spec, tp, new)
  BY <1>1, FreshCall DEF IInv
<1>12. ASSUME NEW s, NEW k, Active(stack, s, k)
       PROVE  Active(rest, s, k)
  <2>1. (Top.specLoc = s /\ Top.tpLoc = k) \/ Active(Tail(stack), s, k)
    BY <1>2, <1>12, ActiveOnTop
  <2> QED
    BY <1>2, <2>1, ActiveOnTop
<1>13. Active(rest, Top.specLoc, Top.tpLoc)
  BY <1>2, ActiveOnTop
<1>14. new.specLoc = SpecTransition.target /\ new.tpLoc = l
  OBVIOUS
<1> HIDE DEF rest, new
<1>15. TriedAll(sp', stack', spec, tp)
  BY <1>3, <1>5, <1>6, <1>10, <1>11, TriedOnTop
<1>16. ASSUME NEW s, NEW k, Active(rest, s, k)
       PROVE  Active(stack', s, k)
  BY <1>3, <1>5, <1>6, <1>16, ActiveOnTop
<1>17. ASSUME NEW s \in spec.locations, NEW k \in tp.locations,
              Join(s, k) \in sp'.locations, ~isSpecialLocation(k)
       PROVE  Explored(sp'.out, spec, tp, s, k) \/ Active(stack', s, k)
  <2>1. CASE Join(s, k) \in sp.locations
    <3>1. Explored(sp.out, spec, tp, s, k) \/ Active(stack, s, k)
      BY <1>17, <2>1 DEF Reached
    <3>2. Join(s, k) \in Label
      BY <1>1
    <3> QED
      BY <1>4, <1>12, <1>16, <3>1, <3>2, ExploredGrows
  <2>2. CASE Join(s, k) = stored.source
    <3>1. <<s, k>> \in Pairs /\ <<Top.specLoc, Top.tpLoc>> \in Pairs
      BY <1>1 DEF Pairs, Exploring
    <3>2. s = Top.specLoc /\ k = Top.tpLoc
      BY <2>2, <3>1 DEF PairsDistinct
    <3> QED
      BY <1>13, <1>16, <3>2
  <2>3. CASE Join(s, k) = stored.target /\ Join(s, k) \notin sp.locations
    <3>1. <<s, k>> \in Pairs /\ <<SpecTransition.target, l>> \in Pairs
      BY <1>1 DEF Pairs
    <3>2. s = SpecTransition.target /\ k = l
      BY <2>3, <3>1 DEF PairsDistinct
    <3>3. stack' = <<new>> \o rest
      BY <1>4, <1>5, <1>17, <2>3, <3>2
    <3> QED
      BY <1>3, <1>6, <1>14, <3>2, <3>3, ActiveOnTop
  <2> QED
    BY <1>4, <1>17, <2>1, <2>2, <2>3
<1>18. Reached(sp', stack', spec, tp)
  BY <1>17 DEF Reached
<1> QED
  BY <1>15, <1>18

-----------------------------------------------------------------------------
(* The positions of the loops.                                             *)

(* The positions of the call on top are numbers, as are those of the lists.*)
LEMMA TopPositions ==
    ASSUME IInv, InLoop
    PROVE  /\ Top \in Frame /\ Top.i \in Nat \ {0} /\ Top.j \in Nat
           /\ Top.i \in DOMAIN spec.out[Top.specLoc]
           /\ DOMAIN spec.out[Top.specLoc] \subseteq Nat \ {0}
           /\ DOMAIN tp.out[Top.tpLoc] \subseteq Nat \ {0}
           /\ TpTransitions = Positions(spec, tp, Top.specLoc, Top.tpLoc, Top.i)
<1>1. Exploring(Top)
  BY Iteration
<1>2. /\ Top \in Frame /\ Top.i \in Nat \ {0} /\ Top.j \in Nat
      /\ Top.specLoc \in Label /\ Top.tpLoc \in Label
  BY <1>1 DEF Exploring, Frame
<1>3. spec.out[Top.specLoc] \in Seq(Transition) /\ tp.out[Top.tpLoc] \in Seq(Transition)
  BY <1>2, Arguments DEF IInv, Model
<1>4. /\ DOMAIN spec.out[Top.specLoc] = 1..Len(spec.out[Top.specLoc])
      /\ Len(spec.out[Top.specLoc]) \in Nat
      /\ DOMAIN tp.out[Top.tpLoc] \subseteq Nat \ {0}
  BY <1>3, LenProperties
<1>5. Top.i <= Len(spec.out[Top.specLoc])
  BY DEF InLoop
<1>6. TpTransitions = Positions(spec, tp, Top.specLoc, Top.tpLoc, Top.i)
  BY DEF TpTransitions, getTransitionsByAction, SpecTransition, Positions
<1> QED
  BY <1>2, <1>4, <1>5, <1>6

(* After an action the test purpose does not know, the call is at the next *)
(* transition of the specification.                                        *)
LEMMA AfterUnmatched ==
    ASSUME IInv, InLoop, TpTransitions = {},
           NEW g, g = [Top EXCEPT !.i = @ + 1, !.j = 0]
    PROVE  /\ g \in Frame /\ g.specLoc = Top.specLoc /\ g.tpLoc = Top.tpLoc
           /\ Rest(0) = <<g>> \o Tail(stack)
           /\ \A a : (Tried(a, spec, tp, Top)
                         /\ Has(a, Join(Top.specLoc, Top.tpLoc), Unmatched))
                        => Tried(a, spec, tp, g)
<1> DEFINE s == Top.specLoc
           l == Top.tpLoc
<1>1. /\ Top \in Frame /\ Top.i \in Nat \ {0} /\ Top.j \in Nat
      /\ Top.i \in DOMAIN spec.out[s]
      /\ DOMAIN spec.out[s] \subseteq Nat \ {0}
      /\ DOMAIN tp.out[l] \subseteq Nat \ {0}
      /\ TpTransitions = Positions(spec, tp, s, l, Top.i)
  BY TopPositions
<1>2. /\ g \in Frame /\ g.specLoc = s /\ g.tpLoc = l /\ g.i = Top.i + 1 /\ g.j = 0
  <2>1. Top.i + 1 \in Nat \ {0}
    BY <1>1
  <2> QED
    BY <1>1, <2>1 DEF Frame
<1>3. Rest(0) = <<g>> \o Tail(stack)
  BY DEF Rest
<1>4. Unmatched = Waiting(spec.out[s][Top.i], s, l)
  BY DEF Unmatched, Waiting, SpecTransition
<1> HIDE DEF s, l
<1>5. ASSUME NEW a, Tried(a, spec, tp, Top), Has(a, Join(s, l), Unmatched),
             NEW h \in DOMAIN spec.out[s]
      PROVE  /\ (h < g.i /\ Positions(spec, tp, s, l, h) = {})
                   => Has(a, Join(s, l), Waiting(spec.out[s][h], s, l))
             /\ \A k \in Positions(spec, tp, s, l, h) :
                   (h < g.i \/ (h = g.i /\ k <= g.j))
                      => Has(a, Join(s, l), Moving(spec.out[s][h], tp.out[l][k], s, l))
  <2>1. h \in Nat \ {0}
    BY <1>1
  <2>2. /\ (h < Top.i /\ Positions(spec, tp, s, l, h) = {})
              => Has(a, Join(s, l), Waiting(spec.out[s][h], s, l))
        /\ \A k \in Positions(spec, tp, s, l, h) :
              (h < Top.i) => Has(a, Join(s, l), Moving(spec.out[s][h], tp.out[l][k], s, l))
    BY <1>5 DEF Tried, s, l
  <2>3. h < g.i => h < Top.i \/ h = Top.i
    BY <1>1, <1>2, <2>1
  <2>4. ASSUME NEW k \in Positions(spec, tp, s, l, h), h < g.i \/ (h = g.i /\ k <= g.j)
        PROVE  h < Top.i
    <3>1. k \in Nat \ {0}
      BY <1>1 DEF Positions
    <3>2. h < g.i
      BY <1>2, <2>4, <3>1
    <3>3. h # Top.i
      BY <1>1, <2>4
    <3> QED
      BY <2>3, <3>2, <3>3
  <2> QED
    BY <1>4, <1>5, <2>2, <2>3, <2>4
<1>6. s = Top.specLoc /\ l = Top.tpLoc
  BY DEF s, l
<1>7. ASSUME NEW a, Tried(a, spec, tp, Top), Has(a, Join(s, l), Unmatched)
      PROVE  Tried(a, spec, tp, g)
  BY <1>2, <1>5, <1>7 DEF Tried
<1> QED
  BY <1>2, <1>3, <1>6, <1>7

(* After one of the transitions of the test purpose the call is behind it. *)
LEMMA AfterMatched ==
    ASSUME IInv, InLoop, NEW k \in TpTransitions, k > Top.j,
           \A later \in TpTransitions : later > Top.j => k <= later,
           NEW u, u = tp.out[Top.tpLoc][k],
           NEW g, g = IF \E later \in TpTransitions : later > k
                      THEN [Top EXCEPT !.j = k] ELSE [Top EXCEPT !.i = @ + 1, !.j = 0]
    PROVE  /\ g \in Frame /\ g.specLoc = Top.specLoc /\ g.tpLoc = Top.tpLoc
           /\ Rest(k) = <<g>> \o Tail(stack)
           /\ \A a : (Tried(a, spec, tp, Top)
                         /\ Has(a, Join(Top.specLoc, Top.tpLoc), Matched(u)))
                        => Tried(a, spec, tp, g)
<1> DEFINE s == Top.specLoc
           l == Top.tpLoc
           more == \E later \in TpTransitions : later > k
<1>1. /\ Top \in Frame /\ Top.i \in Nat \ {0} /\ Top.j \in Nat
      /\ Top.i \in DOMAIN spec.out[s]
      /\ DOMAIN spec.out[s] \subseteq Nat \ {0}
      /\ DOMAIN tp.out[l] \subseteq Nat \ {0}
      /\ TpTransitions = Positions(spec, tp, s, l, Top.i)
  BY TopPositions
<1>2. k \in Nat \ {0} /\ TpTransitions \subseteq Nat \ {0}
  BY <1>1 DEF Positions
<1>3. /\ g \in Frame /\ g.specLoc = s /\ g.tpLoc = l
      /\ more => g.i = Top.i /\ g.j = k
      /\ ~more => g.i = Top.i + 1 /\ g.j = 0
  <2>1. Top.i + 1 \in Nat \ {0}
    BY <1>1
  <2>2. CASE more
    BY <1>1, <1>2, <2>2 DEF Frame
  <2>3. CASE ~more
    BY <1>1, <2>1, <2>3 DEF Frame
  <2> QED
    BY <2>2, <2>3
<1>4. Rest(k) = <<g>> \o Tail(stack)
  BY DEF Rest
<1>5. Matched(u) = Moving(spec.out[s][Top.i], tp.out[l][k], s, l)
  BY DEF Matched, Moving, SpecTransition
<1>6. ~more => \A later \in TpTransitions : later <= k
  BY <1>2
<1>7. \A later \in TpTransitions : later <= k => later <= Top.j \/ later = k
  BY <1>1, <1>2
<1> HIDE DEF s, l, more
<1>8. ASSUME NEW a, Tried(a, spec, tp, Top), Has(a, Join(s, l), Matched(u)),
             NEW h \in DOMAIN spec.out[s]
      PROVE  /\ (h < g.i /\ Positions(spec, tp, s, l, h) = {})
                   => Has(a, Join(s, l), Waiting(spec.out[s][h], s, l))
             /\ \A j \in Positions(spec, tp, s, l, h) :
                   (h < g.i \/ (h = g.i /\ j <= g.j))
                      => Has(a, Join(s, l), Moving(spec.out[s][h], tp.out[l][j], s, l))
  <2>1. h \in Nat \ {0}
    BY <1>1
  <2>2. /\ (h < Top.i /\ Positions(spec, tp, s, l, h) = {})
              => Has(a, Join(s, l), Waiting(spec.out[s][h], s, l))
        /\ \A j \in Positions(spec, tp, s, l, h) :
              (h < Top.i \/ (h = Top.i /\ j <= Top.j))
                 => Has(a, Join(s, l), Moving(spec.out[s][h], tp.out[l][j], s, l))
    BY <1>8 DEF Tried, s, l
  <2>3. h < g.i => h < Top.i \/ h = Top.i
    BY <1>1, <1>3, <2>1
  <2>4. (h < g.i /\ Positions(spec, tp, s, l, h) = {}) => h < Top.i
    BY <1>1, <2>3
  <2>5. ASSUME NEW j \in Positions(spec, tp, s, l, h), h < g.i \/ (h = g.i /\ j <= g.j)
        PROVE  h < Top.i \/ (h = Top.i /\ (j <= Top.j \/ j = k))
    <3>1. j \in Nat \ {0}
      BY <1>1 DEF Positions
    <3>2. h < Top.i \/ (h = Top.i /\ j <= k)
      <4>1. CASE more
        BY <1>3, <2>5, <4>1
      <4>2. CASE ~more
        <5>1. h < g.i
          BY <1>3, <2>5, <3>1, <4>2
        <5>2. h = Top.i => j <= k
          BY <1>1, <1>6, <4>2
        <5> QED
          BY <2>3, <5>1, <5>2
      <4> QED
        BY <4>1, <4>2
    <3>3. h = Top.i => j \in TpTransitions
      BY <1>1
    <3> QED
      BY <1>7, <3>2, <3>3
  <2>6. ASSUME NEW j \in Positions(spec, tp, s, l, h), h < g.i \/ (h = g.i /\ j <= g.j)
        PROVE  Has(a, Join(s, l), Moving(spec.out[s][h], tp.out[l][j], s, l))
    <3>1. CASE h = Top.i /\ j = k
      BY <1>5, <1>8, <3>1
    <3>2. CASE ~(h = Top.i /\ j = k)
      BY <2>2, <2>5, <2>6, <3>2
    <3> QED
      BY <3>1, <3>2
  <2> QED
    BY <2>2, <2>4, <2>6
<1>9. s = Top.specLoc /\ l = Top.tpLoc
  BY DEF s, l
<1>10. ASSUME NEW a, Tried(a, spec, tp, Top), Has(a, Join(s, l), Matched(u))
       PROVE  Tried(a, spec, tp, g)
  BY <1>3, <1>8, <1>10 DEF Tried
<1> QED
  BY <1>3, <1>4, <1>9, <1>10

(* A call that leaves has explored its pair.                               *)
LEMMA LeaveWalked ==
    ASSUME IInv, Leave, TriedAll(sp, stack, spec, tp), Reached(sp, stack, spec, tp)
    PROVE  TriedAll(sp, Tail(stack), spec, tp) /\ Reached(sp, Tail(stack), spec, tp)
<1>1. /\ stack # <<>> /\ Calls(stack) /\ ~(Top.i <= Len(spec.out[Top.specLoc]))
  BY DEF Leave, InLoop, IInv
<1>2. /\ stack = <<Top>> \o Tail(stack) /\ Tail(stack) \in Seq(Frame) /\ Top \in Frame
      /\ Exploring(Top)
  BY <1>1, TopOnRest, TopCall
<1>3. /\ Len(stack) = Len(Tail(stack)) + 1 /\ Len(Tail(stack)) \in Nat
      /\ stack[1] = Top
      /\ \A n \in 1..Len(Tail(stack)) : stack[n + 1] = Tail(stack)[n]
  BY <1>2, OnTop
<1>4. TriedAll(sp, Tail(stack), spec, tp)
  <2> SUFFICES ASSUME NEW n \in 1..Len(Tail(stack))
               PROVE  Tried(sp.out, spec, tp, Tail(stack)[n])
    BY DEF TriedAll
  <2>1. n + 1 \in 1..Len(stack) /\ stack[n + 1] = Tail(stack)[n]
    BY <1>3
  <2> QED
    BY <2>1 DEF TriedAll
<1>5. Explored(sp.out, spec, tp, Top.specLoc, Top.tpLoc)
  <2>1. Tried(sp.out, spec, tp, Top)
    BY <1>3 DEF TriedAll
  <2>2. \A h \in DOMAIN spec.out[Top.specLoc] : h < Top.i
    <3>1. spec.out[Top.specLoc] \in Seq(Transition) /\ Top.i \in Nat
      BY <1>2, Arguments DEF IInv, Model, Exploring, Frame
    <3>2. \A h \in DOMAIN spec.out[Top.specLoc] : h \in Nat /\ h <= Len(spec.out[Top.specLoc])
      BY <3>1, LenProperties
    <3> QED
      BY <1>1, <3>1, <3>2, LenProperties
  <2> QED
    BY <2>1, <2>2 DEF Tried, Explored
<1>6. ASSUME NEW s \in spec.locations, NEW l \in tp.locations,
             Join(s, l) \in sp.locations, ~isSpecialLocation(l)
      PROVE  Explored(sp.out, spec, tp, s, l) \/ Active(Tail(stack), s, l)
  <2>1. Explored(sp.out, spec, tp, s, l) \/ Active(stack, s, l)
    BY <1>6 DEF Reached
  <2>2. Active(stack, s, l) => (Top.specLoc = s /\ Top.tpLoc = l) \/ Active(Tail(stack), s, l)
    BY <1>2, ActiveOnTop
  <2> QED
    BY <1>5, <2>1, <2>2
<1>7. Reached(sp, Tail(stack), spec, tp)
  BY <1>6 DEF Reached
<1> QED
  BY <1>4, <1>7

-----------------------------------------------------------------------------
(* What the product holds.                                                 *)

\* t goes with position h of the specification, from <<s, l>>.
FromPosition(t, s, l, h) ==
    /\ t.source = Join(s, l)
    /\ t.action = spec.out[s][h].action
    /\ \/ /\ Positions(spec, tp, s, l, h) = {}
          /\ t = StoredWaiting(spec, tp, s, l, h)
          /\ t.target = Join(spec.out[s][h].target, l)
       \/ \E k \in Positions(spec, tp, s, l, h) :
             /\ t = Moving(spec.out[s][h], tp.out[l][k], s, l)
             /\ t.target = Join(spec.out[s][h].target, tp.out[l][k].target)

(* What is stored for a pair of locations of the arguments, and where its  *)
(* parts come from.                                                        *)
LEMMA OfPairShape ==
    ASSUME TypeOK, NEW s \in spec.locations, NEW l \in tp.locations,
           NEW t, OfPair(t, spec, tp, s, l)
    PROVE  \E h \in DOMAIN spec.out[s] : FromPosition(t, s, l, h)
<1>1. PICK h \in DOMAIN spec.out[s] :
         \/ /\ Positions(spec, tp, s, l, h) = {}
            /\ t = StoredWaiting(spec, tp, s, l, h)
         \/ \E k \in Positions(spec, tp, s, l, h) : t = Moving(spec.out[s][h], tp.out[l][k], s, l)
  BY DEF OfPair
<1>2. spec.out[s][h] \in Transition
  BY Arguments, Listed
<1> DEFINE r == spec.out[s][h]
<1>3. LET w == StoredWaiting(spec, tp, s, l, h)
      IN  /\ w.source = Join(s, l) /\ w.action = r.action
          /\ w.target = Join(r.target, l)
  BY <1>2 DEF StoredWaiting, Waiting, Transition
<1>4. ASSUME NEW u
      PROVE  /\ Moving(r, u, s, l).source = Join(s, l)
             /\ Moving(r, u, s, l).action = r.action
             /\ Moving(r, u, s, l).target = Join(r.target, u.target)
  BY <1>2 DEF Moving, Transition
<1>5. CASE Positions(spec, tp, s, l, h) = {} /\ t = StoredWaiting(spec, tp, s, l, h)
  BY <1>3, <1>5 DEF FromPosition
<1>6. CASE \E k \in Positions(spec, tp, s, l, h) : t = Moving(spec.out[s][h], tp.out[l][k], s, l)
  <2>1. PICK k \in Positions(spec, tp, s, l, h) : t = Moving(spec.out[s][h], tp.out[l][k], s, l)
    BY <1>6
  <2>2. /\ t.source = Join(s, l) /\ t.action = spec.out[s][h].action
        /\ t.target = Join(spec.out[s][h].target, tp.out[l][k].target)
    BY <1>4, <2>1
  <2> QED
    BY <2>1, <2>2 DEF FromPosition
<1> QED
  BY <1>1, <1>5, <1>6

(* When neither the keys of the arguments nor the labels of the pairs      *)
(* collide, the key of a stored transition tells which move it is.         *)
LEMMA OfPairUnique ==
    ASSUME TypeOK, Distinct, NEW t, NEW u, Stored(t, spec, tp), Stored(u, spec, tp),
           Key(t) = Key(u)
    PROVE  t = u
<1>1. PICK s \in spec.locations, l \in tp.locations : OfPair(t, spec, tp, s, l)
  BY DEF Stored
<1>2. PICK s2 \in spec.locations, l2 \in tp.locations : OfPair(u, spec, tp, s2, l2)
  BY DEF Stored
<1>3. PICK h \in DOMAIN spec.out[s] : FromPosition(t, s, l, h)
  BY <1>1, OfPairShape
<1>4. PICK i \in DOMAIN spec.out[s2] : FromPosition(u, s2, l2, i)
  BY <1>2, OfPairShape
<1>5. /\ t.source = u.source /\ t.action.name = u.action.name /\ t.target = u.target
  BY DEF Key
<1>6. \A a, c \in spec.locations : \A b, d \in tp.locations :
         Join(a, b) = Join(c, d) => a = c /\ b = d
  <2> SUFFICES ASSUME NEW a \in spec.locations, NEW b \in tp.locations,
                      NEW c \in spec.locations, NEW d \in tp.locations,
                      Join(a, b) = Join(c, d)
               PROVE  a = c /\ b = d
    OBVIOUS
  <2>1. <<a, b>> \in Pairs /\ <<c, d>> \in Pairs
    BY DEF Pairs
  <2> QED
    BY <2>1 DEF Distinct, PairsDistinct
<1>7. s2 = s /\ l2 = l
  <2>1. Join(s, l) = Join(s2, l2)
    BY <1>3, <1>4, <1>5 DEF FromPosition
  <2> QED
    BY <1>6, <2>1
<1>8. WellFormed(spec) /\ WellFormed(tp) /\ DistinctKeys(spec) /\ DistinctKeys(tp)
  BY Arguments DEF Distinct, KeysDistinct
<1>9. /\ spec.out[s][h].target \in spec.locations /\ spec.out[s][h].source = s
      /\ spec.out[s][i].target \in spec.locations /\ spec.out[s][i].source = s
  BY <1>4, <1>7, <1>8, Listed
<1>10. spec.out[s][h].action.name = spec.out[s][i].action.name
  BY <1>3, <1>4, <1>5, <1>7 DEF FromPosition
<1>11. Positions(spec, tp, s, l, h) = Positions(spec, tp, s, l, i)
  BY <1>10 DEF Positions
<1>12. spec.out[s][h].target = spec.out[s][i].target => h = i
  <2> SUFFICES ASSUME spec.out[s][h].target = spec.out[s][i].target PROVE h = i
    OBVIOUS
  <2>1. Key(spec.out[s][h]) = Key(spec.out[s][i])
    BY <1>9, <1>10 DEF Key
  <2> QED
    BY <1>4, <1>7, <1>8, <2>1 DEF DistinctKeys
<1>13. CASE Positions(spec, tp, s, l, h) = {}
  <2>1. t.target = Join(spec.out[s][h].target, l) /\ u.target = Join(spec.out[s][i].target, l)
    BY <1>3, <1>4, <1>7, <1>11, <1>13 DEF FromPosition
  <2>2. Join(spec.out[s][h].target, l) = Join(spec.out[s][i].target, l)
    BY <1>5, <2>1
  <2>3. h = i
    BY <1>6, <1>9, <1>12, <2>2
  <2> QED
    BY <1>3, <1>4, <1>7, <1>11, <1>13, <2>3 DEF FromPosition
<1>14. CASE Positions(spec, tp, s, l, h) # {}
  <2>1. PICK k \in Positions(spec, tp, s, l, h) :
           /\ t = Moving(spec.out[s][h], tp.out[l][k], s, l)
           /\ t.target = Join(spec.out[s][h].target, tp.out[l][k].target)
    BY <1>3, <1>14 DEF FromPosition
  <2>2. PICK j \in Positions(spec, tp, s, l, i) :
           /\ u = Moving(spec.out[s][i], tp.out[l][j], s, l)
           /\ u.target = Join(spec.out[s][i].target, tp.out[l][j].target)
    BY <1>4, <1>7, <1>11, <1>14 DEF FromPosition
  <2>3. /\ k \in DOMAIN tp.out[l] /\ j \in DOMAIN tp.out[l]
        /\ tp.out[l][k].action.name = tp.out[l][j].action.name
    BY <1>10, <2>1, <2>2 DEF Positions
  <2>4. /\ tp.out[l][k].target \in tp.locations /\ tp.out[l][k].source = l
        /\ tp.out[l][j].target \in tp.locations /\ tp.out[l][j].source = l
    BY <1>8, <2>3, Listed
  <2>5. /\ spec.out[s][h].target = spec.out[s][i].target
        /\ tp.out[l][k].target = tp.out[l][j].target
    <3>1. Join(spec.out[s][h].target, tp.out[l][k].target)
            = Join(spec.out[s][i].target, tp.out[l][j].target)
      BY <1>5, <2>1, <2>2
    <3> QED
      BY <1>6, <1>9, <2>4, <3>1
  <2>6. Key(tp.out[l][k]) = Key(tp.out[l][j])
    BY <2>3, <2>4, <2>5 DEF Key
  <2>7. k = j
    BY <1>8, <2>3, <2>6 DEF DistinctKeys
  <2> QED
    BY <1>12, <2>1, <2>2, <2>5, <2>7
<1> QED
  BY <1>13, <1>14

(* An action the specification declares is found in the product.           *)
LEMMA DeclaredAction ==
    ASSUME NEW p, Declares(p, spec, tp), NEW a, Recoverable(spec, a)
    PROVE  Recoverable(p, a)
  BY DEF Declares, Recoverable, NamesOfType

(* A stored transition keeps that true of the product.                     *)
LEMMA CreatedSuffices ==
    ASSUME TypeOK, Sufficient(sp), NEW t \in Transition, Stored(t, spec, tp),
           Recoverable(spec, t.action)
    PROVE  Sufficient(WithLocations(sp, t)) /\ Sufficient(Extended(sp, t))
<1> DEFINE w == WithLocations(sp, t)
           c == Extended(sp, t)
<1>1. sp \in Model
  BY DEF TypeOK
<1>2. w.locations = sp.locations \cup {t.source, t.target}
  BY <1>1, Grown
<1>3. c.locations = sp.locations \cup {t.source, t.target}
  BY <1>1, Grown
<1>4. w.out = sp.out /\ w.transitions = sp.transitions
  BY <1>1, Grown
<1>5. \A x \in Label : Range(c.out[x]) = IF x = t.source THEN Range(sp.out[x]) \cup {t}
                                         ELSE Range(sp.out[x])
  BY <1>1, Grown
<1>6. \A x \in Label : x # t.source => c.out[x] = sp.out[x]
  BY <1>1, Grown
<1>7. c.transitions = Put(sp.transitions, t)
  BY <1>1, Grown
<1>8. \A d \in {w, c} : /\ d.clocks = sp.clocks /\ d.inputActions = sp.inputActions
                        /\ d.outputActions = sp.outputActions
                        /\ d.internalActions = sp.internalActions
  BY <1>1, Grown
<1> HIDE DEF w, c
<1>9. Declares(w, spec, tp) /\ Declares(c, spec, tp)
  BY <1>8 DEF Sufficient, Declares
<1>10. Cloneable(w)
  BY <1>4, <1>8 DEF Sufficient, Cloneable, Recoverable, NamesOfType
<1>11. Cloneable(c)
  <2> SUFFICES ASSUME NEW u \in c.transitions PROVE Recoverable(c, u.action)
    BY DEF Cloneable
  <2>1. u = t \/ u \in sp.transitions
    BY <1>7 DEF Put
  <2>2. u \in sp.transitions => Recoverable(c, u.action)
    BY <1>8 DEF Sufficient, Cloneable, Recoverable, NamesOfType
  <2>3. Recoverable(c, t.action)
    BY <1>9, DeclaredAction
  <2> QED
    BY <2>1, <2>2, <2>3
<1>12. Grounded(w)
  BY <1>2, <1>4 DEF Sufficient, Grounded
<1>13. Grounded(c)
  <2>1. \A u \in c.transitions : u.target \in c.locations
    BY <1>3, <1>7 DEF Sufficient, Grounded, Put
  <2>2. \A x \in Label : c.out[x] # <<>> => x \in c.locations
    BY <1>3, <1>6 DEF Sufficient, Grounded
  <2> QED
    BY <2>1, <2>2 DEF Grounded
<1>14. \A x \in Label : \A u \in Range(w.out[x]) : Stored(u, spec, tp)
  BY <1>4 DEF Sufficient
<1>15. \A x \in Label : \A u \in Range(c.out[x]) : Stored(u, spec, tp)
  BY <1>5 DEF Sufficient
<1>16. Distinct => Kept(w)
  BY <1>4 DEF Sufficient, Kept
<1>17. Distinct => Kept(c)
  <2> SUFFICES ASSUME Distinct, NEW x \in Label, NEW u \in Range(c.out[x])
               PROVE  u \in c.transitions
    BY DEF Kept
  <2>1. CASE u = t
    BY <1>7, <2>1 DEF Put
  <2>2. CASE u # t
    <3>1. u \in Range(sp.out[x])
      BY <1>5, <2>2
    <3>2. u \in sp.transitions /\ Stored(u, spec, tp)
      BY <3>1 DEF Sufficient, Kept
    <3>3. Key(u) # Key(t)
      BY <2>2, <3>2, OfPairUnique
    <3> QED
      BY <1>7, <3>2, <3>3 DEF Put
  <2> QED
    BY <2>1, <2>2
<1>18. Sufficient(w) /\ Sufficient(c)
  BY <1>9, <1>10, <1>11, <1>12, <1>13, <1>14, <1>15, <1>16, <1>17 DEF Sufficient
<1> QED
  BY <1>18 DEF w, c

-----------------------------------------------------------------------------
(* The steps, again.                                                       *)

(* While the arguments stay, what is said with them stays.                 *)
LEMMA WalkPrime ==
    ASSUME UNCHANGED <<spec, tp>>, status' = "exploring", Sufficient(sp'),
           PairsDistinct => TriedAll(sp', stack', spec, tp) /\ Reached(sp', stack', spec, tp)
    PROVE  WInv'
<1>1. (Distinct' <=> Distinct) /\ (PairsDistinct' <=> PairsDistinct)
  BY DEF Distinct, PairsDistinct, KeysDistinct, Pairs
<1>2. Sufficient(sp)'
  BY <1>1 DEF Sufficient
<1> QED
  BY <1>1, <1>2 DEF WInv

(* The first call of syncProduct.                                          *)
LEMMA StartWalks == IInv /\ Start => WInv'
<1> SUFFICES ASSUME IInv, Start PROVE WInv'
  OBVIOUS
<1> DEFINE f == [specLoc |-> spec.initialLocation, tpLoc |-> tp.initialLocation, i |-> 1, j |-> 0]
<1>1. /\ UNCHANGED <<spec, tp>> /\ TypeOK
      /\ status' \in {"incompatible", "overflow"}
            \/ /\ sp' = initializeSyncProduct(spec, tp) /\ status' = "exploring"
               /\ stack' = <<>> \/ stack' = <<f>> \o <<>>
  BY DEF Start, Invoke, IInv
<1>2. CASE status' \in {"incompatible", "overflow"}
  BY <1>2 DEF WInv
<1>3. CASE /\ sp' = initializeSyncProduct(spec, tp) /\ status' = "exploring"
           /\ stack' = <<>> \/ stack' = <<f>> \o <<>>
  <2>1. /\ sp'.locations = {} /\ sp'.transitions = {}
        /\ \A x \in Label : sp'.out[x] = <<>>
        /\ Declares(sp', spec, tp)
    BY <1>3 DEF initializeSyncProduct, EmptyTIOSTS, Declares
  <2>2. Sufficient(sp')
    BY <2>1 DEF Sufficient, Cloneable, Grounded, Kept, Range
  <2>3. /\ f \in Frame /\ Tried(sp'.out, spec, tp, f)
    BY <1>1, Arguments, FreshCall DEF Frame
  <2> HIDE DEF f
  <2>4. <<>> \in Seq(Frame) /\ Len(<<>>) = 0
    OBVIOUS
  <2>5. TriedAll(sp', <<>>, spec, tp)
    BY <2>4 DEF TriedAll
  <2>6. TriedAll(sp', stack', spec, tp)
    BY <1>3, <2>3, <2>4, <2>5, TriedOnTop
  <2>7. Reached(sp', stack', spec, tp)
    BY <2>1 DEF Reached
  <2> QED
    BY <1>1, <1>3, <2>2, <2>6, <2>7, WalkPrime
<1> QED
  BY <1>1, <1>2, <1>3

(* An iteration of the loops.                                              *)
LEMMA VisitWalks ==
    ASSUME IInv, WInv, InLoop,
           NEW sought \in Transition, NEW stored \in Transition,
           Alike(NoIds(stored), NoIds(sought)),
           sought.source = stored.source, sought.target = stored.target,
           stored.source = Join(Top.specLoc, Top.tpLoc),
           stored.action = SpecTransition.action, Stored(stored, spec, tp),
           NEW l \in tp.locations, stored.target = Join(SpecTransition.target, l),
           NEW g \in Frame, g.specLoc = Top.specLoc, g.tpLoc = Top.tpLoc,
           \A a : (Tried(a, spec, tp, Top) /\ Has(a, stored.source, sought))
                     => Tried(a, spec, tp, g),
           Visit(sought, stored, l, <<g>> \o Tail(stack))
    PROVE  WInv'
<1>1. /\ UNCHANGED <<spec, tp>> /\ status = "exploring" /\ status' \in {"exploring", "overflow"}
      /\ sp' \in {WithLocations(sp, stored), Extended(sp, stored)}
  BY DEF Visit, Invoke, InLoop, Extended
<1>2. Sufficient(sp) /\ Grounded(sp)
  BY <1>1 DEF WInv, Sufficient
<1>3. Recoverable(spec, stored.action)
  <2>1. /\ Exploring(Top) /\ SpecTransition \in Range(spec.out[Top.specLoc])
    BY Iteration
  <2>2. SpecTransition \in OutTransitions(spec)
    BY <2>1 DEF OutTransitions, Exploring
  <2> QED
    BY <2>2, Arguments DEF IInv, WellFormed
<1>4. Sufficient(sp')
  BY <1>1, <1>2, <1>3, CreatedSuffices DEF IInv
<1>5. (status' = "exploring" /\ PairsDistinct)
          => TriedAll(sp', stack', spec, tp) /\ Reached(sp', stack', spec, tp)
  <2> SUFFICES ASSUME status' = "exploring", PairsDistinct
               PROVE  TriedAll(sp', stack', spec, tp) /\ Reached(sp', stack', spec, tp)
    OBVIOUS
  <2>1. TriedAll(sp, stack, spec, tp) /\ Reached(sp, stack, spec, tp)
    BY <1>1 DEF WInv
  <2> QED
    BY <1>2, <2>1, VisitWalked
<1>6. CASE status' = "exploring"
  BY <1>1, <1>4, <1>5, <1>6, WalkPrime
<1>7. CASE status' = "overflow"
  BY <1>7 DEF WInv
<1> QED
  BY <1>1, <1>6, <1>7

(* A transition whose action the test purpose does not know.               *)
LEMMA UnmatchedWalks == IInv /\ WInv /\ VisitUnmatched => WInv'
<1> SUFFICES ASSUME IInv, WInv, VisitUnmatched PROVE WInv'
  OBVIOUS
<1> DEFINE stored == Reparsed(sp, Unmatched)
           g == [Top EXCEPT !.i = @ + 1, !.j = 0]
<1>1. InLoop /\ TpTransitions = {} /\ Visit(Unmatched, stored, Top.tpLoc, Rest(0))
  BY DEF VisitUnmatched
<1>2. /\ Unmatched \in Transition /\ Unmatched.source = Join(Top.specLoc, Top.tpLoc)
  BY <1>1, UnmatchedMove
<1>3. /\ Exploring(Top) /\ SpecTransition \in Transition /\ sp \in Model
      /\ Top.specLoc \in spec.locations /\ Top.tpLoc \in tp.locations
  BY <1>1, Iteration DEF Exploring, IInv, TypeOK
<1>4. /\ Unmatched.target = Join(SpecTransition.target, Top.tpLoc)
      /\ Unmatched.action = SpecTransition.action
  BY <1>3 DEF Unmatched, Transition
<1>5. /\ stored \in Transition /\ stored.source = Unmatched.source
      /\ stored.target = Unmatched.target /\ stored.action = Unmatched.action
      /\ NoIds(stored) = NoIds(Unmatched)
  BY <1>2, <1>3, ReparsedType, ReparsedNoIds
<1>6. Stored(stored, spec, tp)
  <2>1. Sufficient(sp)
    BY <1>1 DEF WInv, InLoop
  <2>2. sp.clocks = spec.clocks \o tp.clocks
    BY <2>1 DEF Sufficient, Declares
  <2>3. Unmatched = Waiting(spec.out[Top.specLoc][Top.i], Top.specLoc, Top.tpLoc)
    BY DEF Unmatched, Waiting, SpecTransition
  <2>4. stored = StoredWaiting(spec, tp, Top.specLoc, Top.tpLoc, Top.i)
    BY <2>2, <2>3 DEF StoredWaiting, Reparsed
  <2>5. /\ Top.i \in DOMAIN spec.out[Top.specLoc]
        /\ Positions(spec, tp, Top.specLoc, Top.tpLoc, Top.i) = {}
    BY <1>1, TopPositions
  <2> HIDE DEF stored
  <2>6. OfPair(stored, spec, tp, Top.specLoc, Top.tpLoc)
    BY <1>3, <2>4, <2>5 DEF OfPair, Exploring
  <2> QED
    BY <1>3, <2>6 DEF Stored
<1>7. /\ g \in Frame /\ g.specLoc = Top.specLoc /\ g.tpLoc = Top.tpLoc
      /\ Rest(0) = <<g>> \o Tail(stack)
      /\ \A a : (Tried(a, spec, tp, Top)
                    /\ Has(a, Join(Top.specLoc, Top.tpLoc), Unmatched)) => Tried(a, spec, tp, g)
  BY <1>1, AfterUnmatched
<1>8. Alike(NoIds(stored), NoIds(Unmatched))
  BY <1>5 DEF Alike
<1> HIDE DEF stored, g
<1>9. Visit(Unmatched, stored, Top.tpLoc, <<g>> \o Tail(stack))
  BY <1>1, <1>7
<1> QED
  BY <1>1, <1>2, <1>3, <1>4, <1>5, <1>6, <1>7, <1>8, <1>9, VisitWalks

(* A transition and one of the test purpose with its action.               *)
LEMMA MatchedWalks == IInv /\ WInv /\ VisitMatched => WInv'
<1> SUFFICES ASSUME IInv, WInv, VisitMatched PROVE WInv'
  OBVIOUS
<1>1. InLoop
  BY DEF VisitMatched
<1>2. PICK k \in TpTransitions :
         /\ k > Top.j
         /\ \A later \in TpTransitions : later > Top.j => k <= later
         /\ LET u == tp.out[Top.tpLoc][k]
            IN  Visit(Matched(u), Matched(u), u.target, Rest(k))
  BY DEF VisitMatched
<1> DEFINE u == tp.out[Top.tpLoc][k]
           stored == Matched(u)
           g == IF \E later \in TpTransitions : later > k
                THEN [Top EXCEPT !.j = k] ELSE [Top EXCEPT !.i = @ + 1, !.j = 0]
<1>3. Visit(stored, stored, u.target, Rest(k))
  BY <1>2
<1>4. /\ u.target \in tp.locations /\ stored \in Transition
      /\ stored.source = Join(Top.specLoc, Top.tpLoc)
  BY <1>1, MatchedMove
<1>5. /\ Exploring(Top) /\ SpecTransition \in Transition
      /\ Top.specLoc \in spec.locations /\ Top.tpLoc \in tp.locations
  BY <1>1, Iteration DEF Exploring
<1>6. /\ stored.target = Join(SpecTransition.target, u.target)
      /\ stored.action = SpecTransition.action
  BY <1>5 DEF Matched, Transition
<1>7. Stored(stored, spec, tp)
  <2>1. stored = Moving(spec.out[Top.specLoc][Top.i], tp.out[Top.tpLoc][k], Top.specLoc, Top.tpLoc)
    BY DEF Matched, Moving, SpecTransition
  <2>2. /\ Top.i \in DOMAIN spec.out[Top.specLoc]
        /\ k \in Positions(spec, tp, Top.specLoc, Top.tpLoc, Top.i)
    BY <1>1, TopPositions
  <2> HIDE DEF stored, u
  <2>3. OfPair(stored, spec, tp, Top.specLoc, Top.tpLoc)
    BY <1>5, <2>1, <2>2 DEF OfPair, Exploring
  <2> QED
    BY <1>5, <2>3 DEF Stored
<1>8. /\ g \in Frame /\ g.specLoc = Top.specLoc /\ g.tpLoc = Top.tpLoc
      /\ Rest(k) = <<g>> \o Tail(stack)
      /\ \A a : (Tried(a, spec, tp, Top)
                    /\ Has(a, Join(Top.specLoc, Top.tpLoc), stored)) => Tried(a, spec, tp, g)
  BY <1>1, <1>2, AfterMatched
<1>9. Alike(NoIds(stored), NoIds(stored))
  BY DEF Alike
<1> HIDE DEF stored, g, u
<1>10. Visit(stored, stored, u.target, <<g>> \o Tail(stack))
  BY <1>3, <1>8
<1> QED
  BY <1>1, <1>4, <1>5, <1>6, <1>7, <1>8, <1>9, <1>10, VisitWalks

(* The end of a call of syncProduct.                                       *)
LEMMA LeaveWalks == IInv /\ WInv /\ Leave => WInv'
<1> SUFFICES ASSUME IInv, WInv, Leave PROVE WInv'
  OBVIOUS
<1>1. /\ status = "exploring" /\ status' = "exploring" /\ UNCHANGED <<spec, tp>>
      /\ sp' = sp /\ stack' = Tail(stack)
  BY DEF Leave
<1>2. Sufficient(sp')
  BY <1>1 DEF WInv
<1>3. PairsDistinct => TriedAll(sp', stack', spec, tp) /\ Reached(sp', stack', spec, tp)
  BY <1>1, LeaveWalked DEF WInv
<1> QED
  BY <1>1, <1>2, <1>3, WalkPrime

(* Swapping inputs and outputs leaves what getTransition compares.         *)
LEMMA FlippedAlike ==
    ASSUME NEW t \in Transition
    PROVE  /\ Key(FlippedTransition(t)) = Key(t)
           /\ FlippedTransition(t).source = t.source
           /\ FlippedTransition(t).target = t.target
           /\ NoIds(FlippedTransition(t)).dataGuard = NoIds(t).dataGuard
           /\ NoIds(FlippedTransition(t)).clockGuard = NoIds(t).clockGuard
           /\ Key(NoIds(FlippedTransition(t))) = Key(NoIds(t))
<1>1. t.action \in Action
  BY DEF Transition
<1>2. Flipped(t.action).name = t.action.name
  BY <1>1 DEF Flipped, Action
<1>3. /\ FlippedTransition(t).source = t.source
      /\ FlippedTransition(t).target = t.target
      /\ FlippedTransition(t).action.name = t.action.name
      /\ FlippedTransition(t).dataGuard = t.dataGuard
      /\ FlippedTransition(t).clockGuard = t.clockGuard
  BY <1>2 DEF FlippedTransition, Transition
<1>4. FlippedTransition(t) \in Transition
  BY FlippedTwice
<1>5. ASSUME NEW r \in Transition
      PROVE  /\ Key(NoIds(r)) = Key(r) /\ NoIds(r).dataGuard = r.dataGuard
             /\ NoIds(r).clockGuard = {[g EXCEPT !.id = 0] : g \in r.clockGuard}
  BY DEF NoIds, Key, Transition
<1> QED
  BY <1>3, <1>4, <1>5 DEF Key

(* What mirror() leaves of a product: its transitions are found in the     *)
(* swapped lists of actions, and the lists and the map hold the same ones. *)
LEMMA MirrorSuffices ==
    ASSUME NEW m \in Model, Sufficient(m),
           \A t \in m.transitions : t \in Range(m.out[t.source])
    PROVE  Mirror(mirror(m))
<1>1. m.transitions \subseteq Transition /\ \A x \in Label : Range(m.out[x]) \subseteq Transition
  <2>1. m.transitions \subseteq Transition /\ \A x \in Label : m.out[x] \in Seq(Transition)
    BY DEF Model
  <2> QED
    BY <2>1 DEF Range
<1>2. /\ mirror(m).locations = m.locations /\ mirror(m).internalActions = m.internalActions
      /\ mirror(m).inputActions = m.outputActions /\ mirror(m).outputActions = m.inputActions
      /\ mirror(m).transitions = {FlippedTransition(t) : t \in m.transitions}
  BY DEF mirror, Model
<1>3. /\ \A l \in Label : \A t \in Range(mirror(m).out[l]) :
            \E u \in Range(m.out[l]) : t = FlippedTransition(u)
      /\ \A l \in Label : \A u \in Range(m.out[l]) :
            FlippedTransition(u) \in Range(mirror(m).out[l])
      /\ \A l \in Label : mirror(m).out[l] # <<>> => m.out[l] # <<>>
  BY Mirrored
<1>4. Cloneable(mirror(m))
  <2> SUFFICES ASSUME NEW t \in mirror(m).transitions PROVE Recoverable(mirror(m), t.action)
    BY DEF Cloneable
  <2>1. PICK u \in m.transitions : t = FlippedTransition(u)
    BY <1>2
  <2>2. u \in Transition /\ u.action \in Action /\ Recoverable(m, u.action)
    BY <1>1 DEF Sufficient, Cloneable, Transition
  <2>3. t.action = Flipped(u.action)
    BY <2>1, <2>2 DEF FlippedTransition, Transition
  <2>4. /\ Flipped(u.action).name = u.action.name
        /\ u.action.type = ACTION_INPUT => Flipped(u.action).type = ACTION_OUTPUT
        /\ u.action.type = ACTION_OUTPUT => Flipped(u.action).type = ACTION_INPUT
        /\ u.action.type = ACTION_INTERNAL => Flipped(u.action).type = ACTION_INTERNAL
        /\ u.action.type \in ActionType
    BY <2>2 DEF Flipped, Action, ActionType, ACTION_INPUT, ACTION_OUTPUT, ACTION_INTERNAL
  <2> QED
    BY <1>2, <2>2, <2>3, <2>4
       DEF Recoverable, NamesOfType, ActionType, ACTION_INPUT, ACTION_OUTPUT, ACTION_INTERNAL
<1>5. \A t \in mirror(m).transitions : t \in Range(mirror(m).out[t.source])
  <2> SUFFICES ASSUME NEW t \in mirror(m).transitions PROVE t \in Range(mirror(m).out[t.source])
    OBVIOUS
  <2>1. PICK u \in m.transitions : t = FlippedTransition(u)
    BY <1>2
  <2>2. u \in Transition /\ u.source \in Label /\ u \in Range(m.out[u.source])
    BY <1>1 DEF Transition
  <2>3. t.source = u.source
    BY <2>1, <2>2, FlippedAlike
  <2> QED
    BY <1>3, <2>1, <2>2, <2>3
<1>6. \A x \in Label : mirror(m).out[x] # <<>> => x \in mirror(m).locations
  BY <1>2, <1>3 DEF Sufficient, Grounded
<1>7. \A x \in Label : \A t \in Range(mirror(m).out[x]) : Stored(FlippedTransition(t), spec, tp)
  <2> SUFFICES ASSUME NEW x \in Label, NEW t \in Range(mirror(m).out[x])
               PROVE  Stored(FlippedTransition(t), spec, tp)
    OBVIOUS
  <2>1. PICK u \in Range(m.out[x]) : t = FlippedTransition(u)
    BY <1>3
  <2>2. u \in Transition /\ Stored(u, spec, tp)
    BY <1>1 DEF Sufficient
  <2>3. FlippedTransition(t) = u
    BY <2>1, <2>2, FlippedTwice
  <2> QED
    BY <2>2, <2>3
<1>8. Distinct => Kept(mirror(m))
  <2> SUFFICES ASSUME Distinct, NEW x \in Label, NEW t \in Range(mirror(m).out[x])
               PROVE  t \in mirror(m).transitions
    BY DEF Kept
  <2>1. PICK u \in Range(m.out[x]) : t = FlippedTransition(u)
    BY <1>3
  <2>2. u \in m.transitions
    BY DEF Sufficient, Kept
  <2> QED
    BY <1>2, <2>1, <2>2
<1> QED
  BY <1>4, <1>5, <1>6, <1>7, <1>8 DEF Mirror

(* A move that is listed is listed after mirror(), its type aside.         *)
LEMMA MirrorHas ==
    ASSUME NEW m \in Model, NEW x \in Label, NEW t, Has(m.out, x, t)
    PROVE  Has(mirror(m).out, x, t)
<1>1. PICK w \in Range(m.out[x]) : Alike(NoIds(w), NoIds(t))
  BY DEF Has
<1>2. w \in Transition
  <2>1. m.out[x] \in Seq(Transition)
    BY DEF Model
  <2> QED
    BY <2>1 DEF Range
<1>3. FlippedTransition(w) \in Range(mirror(m).out[x])
  BY <1>1, Mirrored
<1>4. Alike(NoIds(FlippedTransition(w)), NoIds(t))
  BY <1>1, <1>2, FlippedAlike DEF Alike
<1> QED
  BY <1>3, <1>4 DEF Has

(* The end of the walk.                                                    *)
LEMMA ReturnWalks == IInv /\ WInv /\ Return => WInv'
<1> SUFFICES ASSUME IInv, WInv, Return PROVE WInv'
  OBVIOUS
<1> DEFINE m == WithInitial(sp)
<1>1. /\ status = "exploring" /\ stack = <<>> /\ Begun
      /\ sp' = mirror(m) /\ status' = "returned" /\ UNCHANGED <<spec, tp, stack>>
  BY DEF Return, Done
<1>2. sp \in Model /\ sp' \in Model
  BY ReturnStep DEF IInv, TypeOK
<1>3. /\ m.out = sp.out /\ m.transitions = sp.transitions /\ m.locations = sp.locations
      /\ m.clocks = sp.clocks /\ m.inputActions = sp.inputActions
      /\ m.outputActions = sp.outputActions /\ m.internalActions = sp.internalActions
  BY <1>2 DEF WithInitial, SetInitialLocation, Model
<1>4. m \in Model
  <2>1. Initials \in Label
    BY Arguments DEF IInv, Initials
  <2>2. sp.out[Initials] \in Seq(Transition) /\ sp.out[Initials] # <<>>
    BY <1>1, <1>2, <2>1 DEF Model, Begun, Initials
  <2>3. sp.out[Initials][1] \in Transition
    BY <2>2
  <2>4. sp.out[Initials][1].dataGuard \subseteq Atom
    BY <2>3 DEF Transition
  <2> QED
    BY <1>2, <2>1, <2>4 DEF WithInitial, SetInitialLocation, Model, Initials
<1> HIDE DEF m
<1>5. Sufficient(m)
  <2>1. Sufficient(sp)
    BY <1>1 DEF WInv
  <2> QED
    BY <1>3, <2>1 DEF Sufficient, Declares, Cloneable, Recoverable, NamesOfType, Grounded, Kept
<1>6. \A t \in m.transitions : t \in Range(m.out[t.source])
  BY <1>1, <1>3 DEF IInv, MapListed
<1>7. Mirror(sp')
  BY <1>1, <1>4, <1>5, <1>6, MirrorSuffices
<1>8. sp'.locations = sp.locations
  BY <1>1, <1>3, <1>4 DEF mirror, Model
<1>9. /\ spec.locations \subseteq Label /\ tp.locations \subseteq Label
      /\ \A s \in spec.locations, l \in tp.locations : Join(s, l) \in Label
  BY Arguments DEF IInv
<1>10. PairsDistinct => Reached(sp', stack', spec, tp)
  <2> SUFFICES ASSUME PairsDistinct, NEW s \in spec.locations, NEW l \in tp.locations,
                      Join(s, l) \in sp'.locations, ~isSpecialLocation(l)
               PROVE  Explored(sp'.out, spec, tp, s, l)
    BY DEF Reached
  <2>1. ~Active(stack, s, l)
    BY <1>1 DEF Active
  <2>2. Explored(m.out, spec, tp, s, l)
    BY <1>1, <1>3, <1>8, <2>1 DEF WInv, Reached
  <2>3. \A t : Has(m.out, Join(s, l), t) => Has(sp'.out, Join(s, l), t)
    BY <1>1, <1>4, <1>9, MirrorHas
  <2> QED
    BY <2>2, <2>3 DEF Explored
<1>11. TriedAll(sp', stack', spec, tp)
  BY <1>1 DEF TriedAll
<1>12. (Distinct' <=> Distinct) /\ (PairsDistinct' <=> PairsDistinct)
  BY <1>1 DEF Distinct, PairsDistinct, KeysDistinct, Pairs
<1>13. Mirror(sp)'
  BY <1>1, <1>7, <1>12 DEF Mirror
<1> QED
  BY <1>1, <1>10, <1>11, <1>12, <1>13 DEF WInv

(* The call ends without a product.                                        *)
LEMMA CrashWalks == IInv /\ WInv /\ Crash => WInv'
  BY DEF WInv, Crash

(* The steps of the walk keep what it leaves behind.                       *)
LEMMA StepWalks == IInv /\ WInv /\ [Next]_vars => WInv'
<1> SUFFICES ASSUME IInv, WInv, [Next]_vars PROVE WInv'
  OBVIOUS
<1>1. CASE UNCHANGED vars
  <2>1. UNCHANGED <<spec, tp, sp, stack, status>>
    BY <1>1 DEF vars
  <2>2. (Distinct' <=> Distinct) /\ (PairsDistinct' <=> PairsDistinct)
    BY <2>1 DEF Distinct, PairsDistinct, KeysDistinct, Pairs
  <2>3. (Sufficient(sp)' <=> Sufficient(sp)) /\ (Mirror(sp)' <=> Mirror(sp))
    BY <2>1, <2>2 DEF Sufficient, Mirror
  <2> QED
    BY <2>1, <2>2, <2>3 DEF WInv
<1> QED
  BY <1>1, StartWalks, UnmatchedWalks, MatchedWalks, LeaveWalks, ReturnWalks, CrashWalks DEF Next

(* In every reachable state each active call has created what it got past, *)
(* and every pair with a location in the product is active or explored.    *)
THEOREM Walks == Spec => [](IInv /\ WInv)
<1>1. Init => IInv /\ WInv
  <2>1. Init => WInv
    BY DEF Init, WInv
  <2> QED
    BY <2>1, InitIInv
<1>2. IInv /\ WInv /\ [Next]_vars => (IInv /\ WInv)'
  BY StepIInv, StepWalks
<1> QED
  BY <1>1, <1>2, PTL DEF Spec

-----------------------------------------------------------------------------
(* The product that is returned.                                           *)

(* A joint move is one of a position of the specification, and of one of   *)
(* the test purpose if that has the action.                                *)
LEMMA JointMoveShape ==
    ASSUME NEW s, NEW l, NEW t \in JointMoves(s, l)
    PROVE  /\ ~isSpecialLocation(l)
           /\ \E h \in DOMAIN spec.out[s] :
                 \/ Positions(spec, tp, s, l, h) = {} /\ t = Waiting(spec.out[s][h], s, l)
                 \/ \E k \in Positions(spec, tp, s, l, h) :
                       t = Moving(spec.out[s][h], tp.out[l][k], s, l)
<1> DEFINE of(r) == IF l \in {Accept, Reject} THEN {}
                    ELSE IF Partners(r, l) = {} THEN {Waiting(r, s, l)}
                    ELSE {Moving(r, u, s, l) : u \in Partners(r, l)}
<1>1. JointMoves(s, l) = UNION {of(r) : r \in Range(spec.out[s])}
  BY DEF JointMoves, Partners, Waiting, Moving
<1>2. PICK r \in Range(spec.out[s]) : t \in of(r)
  BY <1>1
<1>3. l \notin {Accept, Reject}
  BY <1>2
<1>4. PICK h \in DOMAIN spec.out[s] : r = spec.out[s][h]
  BY DEF Range
<1>5. CASE Partners(r, l) = {}
  <2>1. t = Waiting(r, s, l)
    BY <1>2, <1>3, <1>5
  <2>2. Positions(spec, tp, s, l, h) = {}
    BY <1>4, <1>5 DEF Positions, Partners, Range
  <2> QED
    BY <1>3, <1>4, <2>1, <2>2 DEF isSpecialLocation
<1>6. CASE Partners(r, l) # {}
  <2>1. PICK u \in Partners(r, l) : t = Moving(r, u, s, l)
    BY <1>2, <1>3, <1>6
  <2>2. PICK k \in DOMAIN tp.out[l] : u = tp.out[l][k]
    BY DEF Partners, Range
  <2>3. k \in Positions(spec, tp, s, l, h)
    BY <1>4, <2>2 DEF Positions, Partners
  <2> QED
    BY <1>3, <1>4, <2>1, <2>2, <2>3 DEF isSpecialLocation
<1> QED
  BY <1>5, <1>6

(* What is stored for a joint move is the move itself, ids aside.          *)
LEMMA JointMoveStored ==
    ASSUME TypeOK, NEW s \in spec.locations, NEW l \in tp.locations, NEW t \in JointMoves(s, l)
    PROVE  \E r \in Transition : /\ Stored(r, spec, tp) /\ NoIds(r) = NoIds(t)
<1>1. ~isSpecialLocation(l)
  BY JointMoveShape
<1>2. PICK h \in DOMAIN spec.out[s] :
         \/ Positions(spec, tp, s, l, h) = {} /\ t = Waiting(spec.out[s][h], s, l)
         \/ \E k \in Positions(spec, tp, s, l, h) :
               t = Moving(spec.out[s][h], tp.out[l][k], s, l)
  BY JointMoveShape
<1>3. /\ spec.out[s][h] \in Transition /\ spec.out[s][h].target \in spec.locations
  BY Arguments, Listed
<1>4. \A a \in spec.locations, b \in tp.locations : Join(a, b) \in Label
  BY Arguments
<1>5. CASE Positions(spec, tp, s, l, h) = {} /\ t = Waiting(spec.out[s][h], s, l)
  <2> DEFINE m == initializeSyncProduct(spec, tp)
  <2>1. t \in Transition
    BY <1>3, <1>4, <1>5 DEF Waiting, Transition
  <2>2. m \in Model /\ m.clocks = spec.clocks \o tp.clocks
    <3>1. spec \in Model /\ tp \in Model
      BY Arguments
    <3>2. EmptyTIOSTS \in Model
      BY DEF EmptyTIOSTS, Model
    <3>3. spec.clocks \o tp.clocks \in Seq(Clock)
      BY <3>1 DEF Model
    <3>4. spec.variables \cup tp.variables \in SUBSET Variable
      BY <3>1 DEF Model
    <3> QED
      BY <3>1, <3>2, <3>3, <3>4 DEF initializeSyncProduct, Model
  <2> HIDE DEF m
  <2>3. Reparsed(m, t) = StoredWaiting(spec, tp, s, l, h)
    BY <1>5, <2>2 DEF Reparsed, StoredWaiting
  <2>4. Reparsed(m, t) \in Transition /\ NoIds(Reparsed(m, t)) = NoIds(t)
    BY <2>1, <2>2, ReparsedType, ReparsedNoIds
  <2>5. OfPair(Reparsed(m, t), spec, tp, s, l)
    BY <1>1, <1>5, <2>3 DEF OfPair
  <2> QED
    BY <2>4, <2>5 DEF Stored
<1>6. CASE \E k \in Positions(spec, tp, s, l, h) : t = Moving(spec.out[s][h], tp.out[l][k], s, l)
  <2>1. PICK k \in Positions(spec, tp, s, l, h) : t = Moving(spec.out[s][h], tp.out[l][k], s, l)
    BY <1>6
  <2>2. tp.out[l][k] \in Transition /\ tp.out[l][k].target \in tp.locations
    BY Arguments, Listed DEF Positions
  <2>3. t \in Transition
    BY <1>3, <1>4, <2>1, <2>2 DEF Moving, Transition
  <2>4. OfPair(t, spec, tp, s, l)
    BY <1>1, <2>1 DEF OfPair
  <2> QED
    BY <2>3, <2>4 DEF Stored
<1> QED
  BY <1>2, <1>5, <1>6

(* Every joint move of a pair that the product reaches is found in it by   *)
(* getTransition, for every pair of well-formed models whose labels keep   *)
(* the pairs apart; and is there itself if no two transitions of an        *)
(* argument have one key.                                                  *)
THEOREM CompleteWhenReturned == Spec => []ReturnedComplete
<1>1. ASSUME NEW ts PROVE WithoutIds(ts) = {NoIds(t) : t \in ts}
  BY DEF WithoutIds, NoIds
<1>2. ASSUME IInv, WInv, status = "returned", PairsDistinct,
             NEW s \in spec.locations, NEW l \in tp.locations,
             Join(s, l) \in sp.locations,
             NEW t \in JointMoves(s, l)
      PROVE  /\ \E u \in Product : Alike(NoIds(t), u)
             /\ KeysDistinct => NoIds(t) \in Product
  <2>1. TypeOK /\ Mirror(sp) /\ Reached(sp, stack, spec, tp) /\ stack = <<>>
    BY <1>2 DEF WInv, IInv
  <2>2. ~isSpecialLocation(l)
    BY <1>2, JointMoveShape
  <2>3. Explored(sp.out, spec, tp, s, l)
    BY <1>2, <2>1, <2>2 DEF Reached, Active
  <2>4. Has(sp.out, Join(s, l), t)
    BY <1>2, <2>3, JointMoveShape DEF Explored
  <2>5. PICK w \in Range(sp.out[Join(s, l)]) : Alike(NoIds(w), NoIds(t))
    BY <2>4 DEF Has
  <2>6. Join(s, l) \in Label /\ w \in Transition /\ w \in OutTransitions(sp)
    <3>1. Join(s, l) \in Label
      BY <2>1, Arguments
    <3>2. sp.out[Join(s, l)] \in Seq(Transition)
      BY <2>1, <3>1 DEF TypeOK, Model
    <3> QED
      BY <1>2, <2>5, <3>1, <3>2 DEF Range, OutTransitions
  <2> DEFINE f == FlippedTransition(w)
  <2>7. NoIds(f) \in Product
    BY <1>1, <1>2, <2>6 DEF Product, Unmirrored
  <2>8. Alike(NoIds(t), NoIds(f))
    BY <2>5, <2>6, FlippedAlike DEF Alike
  <2>9. ASSUME KeysDistinct PROVE NoIds(t) \in Product
    <3>1. Stored(f, spec, tp) /\ f \in Transition
      BY <1>2, <2>1, <2>6, FlippedTwice DEF Mirror
    <3>2. PICK r \in Transition : Stored(r, spec, tp) /\ NoIds(r) = NoIds(t)
      BY <1>2, <2>1, JointMoveStored
    <3>3. Key(NoIds(f)) = Key(NoIds(r))
      BY <2>8, <3>2 DEF Alike
    <3>4. \A x \in Transition : Key(NoIds(x)) = Key(x)
      BY DEF NoIds, Key, Transition
    <3>5. Key(f) = Key(r)
      BY <3>1, <3>3, <3>4
    <3>6. f = r
      BY <1>2, <2>1, <2>9, <3>1, <3>2, <3>5, OfPairUnique DEF Distinct
    <3> QED
      BY <2>7, <3>2, <3>6
  <2> QED
    BY <2>7, <2>8, <2>9
<1>3. IInv /\ WInv => ReturnedComplete
  <2> SUFFICES ASSUME IInv, WInv, status = "returned", PairsDistinct, NEW p \in Pairs,
                      Join(p[1], p[2]) \in sp.locations
               PROVE  /\ \A t \in WithoutIds(JointMoves(p[1], p[2])) :
                            \E u \in Product : Alike(t, u)
                      /\ KeysDistinct => WithoutIds(JointMoves(p[1], p[2])) \subseteq Product
    BY DEF ReturnedComplete
  <2>1. p[1] \in spec.locations /\ p[2] \in tp.locations
    BY DEF Pairs
  <2>2. \A t \in JointMoves(p[1], p[2]) :
           /\ \E u \in Product : Alike(NoIds(t), u)
           /\ KeysDistinct => NoIds(t) \in Product
    BY <1>2, <2>1
  <2> QED
    BY <1>1, <2>2
<1> QED
  BY <1>3, Walks, PTL

(* The product can be cloned after mirror(): its actions are in the lists  *)
(* of their new types, and no transition was replaced in the map when      *)
(* neither the labels nor the keys of the arguments collide.               *)
THEOREM CloneableWhenReturned == Spec => []ReturnedCloneable
<1>1. IInv /\ WInv => ReturnedCloneable
  <2> SUFFICES ASSUME IInv, WInv, status = "returned"
               PROVE  /\ Cloneable(sp)
                      /\ (PairsDistinct /\ KeysDistinct) => OutTransitions(sp) = sp.transitions
    BY DEF ReturnedCloneable
  <2>1. Mirror(sp) /\ sp \in Model
    BY DEF WInv, IInv, TypeOK
  <2>2. ASSUME PairsDistinct, KeysDistinct PROVE OutTransitions(sp) = sp.transitions
    <3>1. Kept(sp)
      BY <2>1, <2>2 DEF Mirror, Distinct
    <3>2. OutTransitions(sp) \subseteq sp.transitions
      BY <2>1, <3>1 DEF OutTransitions, Kept, Model
    <3>3. sp.transitions \subseteq OutTransitions(sp)
      <4> SUFFICES ASSUME NEW t \in sp.transitions PROVE t \in OutTransitions(sp)
        OBVIOUS
      <4>1. t.source \in Label /\ t \in Range(sp.out[t.source])
        BY <2>1 DEF Mirror, Model, Transition
      <4>2. sp.out[t.source] # <<>>
        BY <4>1 DEF Range
      <4> QED
        BY <2>1, <4>1, <4>2 DEF Mirror, OutTransitions
    <3> QED
      BY <3>2, <3>3
  <2> QED
    BY <2>1, <2>2 DEF Mirror
<1> QED
  BY <1>1, Walks, PTL
=============================================================================
