--------------------- MODULE ParallelComposition_proofs ---------------------
(***************************************************************************)
(* Proofs about ParallelComposition, for every set of well-formed pairs of *)
(* models and any number of calls.                                         *)
(*                                                                         *)
(* The inductive invariants build on one another.                          *)
(*   IInv  the clones have the shape CloneShape promises, every active     *)
(*         call stands on a pair of their locations, and every list of the *)
(*         result, of declared locations or not, holds moves of the        *)
(*         composition;                                                    *)
(*   JInv  which actions the result declares, and that the walk stands on  *)
(*         locations some transition leads to;                             *)
(*   KInv  the map and the lists of the result agree;                      *)
(*   LInv  what a first call has walked: a pair it has visited is active,  *)
(*         or all its moves are there;                                     *)
(*   QInv  every active call stands where the result leads to.             *)
(* With all of them one call implements the abstract composition.          *)
(***************************************************************************)
EXTENDS ParallelComposition, TIOSTS_proofs

-----------------------------------------------------------------------------
(* The inductive invariant.                                                *)

SoundMove(t) ==
    \/ t = InitialTransition(tiosts1, tiosts2)
    \/ \E l1 \in tiosts1.locations, l2 \in tiosts2.locations :
          t \in Moves(tiosts1, tiosts2, l1, l2)

Prepared ==
    /\ CloneOf(model1, tiosts1)
    /\ CloneOf(model2, tiosts2)
    /\ \A l1 \in tiosts1.locations, l2 \in tiosts2.locations : Join(l1, l2) \in Label

FramesPlaced ==
    \A i \in DOMAIN stack :
        stack[i].l1 \in tiosts1.locations /\ stack[i].l2 \in tiosts2.locations

AllSound == \A l \in Label : \A i \in DOMAIN result.out[l] : SoundMove(result.out[l][i])

IInv ==
    /\ TypeOK
    /\ RecursionBounded
    /\ status # "exploring" => stack = <<>>
    /\ Composing => Prepared /\ FramesPlaced /\ AllSound

-----------------------------------------------------------------------------
(* What the operations do to the result and to the stack.                  *)

(* The locations and the transition a case adds keep the result well typed *)
(* and lengthen one list.                                                  *)
LEMMA WithMoveType ==
    ASSUME NEW m \in Model, NEW t \in Transition
    PROVE  /\ WithMove(m, t) \in Model
           /\ \A l \in Label :
                 WithMove(m, t).out[l] =
                    IF l = t.source THEN Append(m.out[l], t) ELSE m.out[l]
<1>1. t.source \in Label /\ t.target \in Label
  BY DEF Transition
<1>2. AddLocation(m, t.source) \in Model /\ AddLocation(m, t.source).out = m.out
  BY <1>1, AddLocationType
<1> DEFINE n == AddLocation(AddLocation(m, t.source), t.target)
<1>3. n \in Model /\ n.out = m.out
  BY <1>1, <1>2, AddLocationType
<1>4. CreateTransition(n, t) \in Model
  BY <1>3, CreateTransitionType
<1>5. \A l \in Label : CreateTransition(n, t).out[l] =
                          IF l = t.source THEN Append(n.out[l], t) ELSE n.out[l]
  BY <1>3, CreateTransitionType
<1> QED
  BY <1>3, <1>4, <1>5 DEF WithMove

(* Appending to the lists of a sound result keeps every list sound.        *)
LEMMA AppendedMoves ==
    ASSUME NEW m \in Model, NEW t \in Transition, NEW l \in Label,
           NEW i \in DOMAIN WithMove(m, t).out[l]
    PROVE  \/ WithMove(m, t).out[l][i] = t
           \/ i \in DOMAIN m.out[l] /\ WithMove(m, t).out[l][i] = m.out[l][i]
<1>1. m.out[l] \in Seq(Transition)
  BY DEF Model
<1>2. CASE l = t.source
  <2>1. WithMove(m, t).out[l] = Append(m.out[l], t)
    BY <1>2, WithMoveType
  <2> QED
    BY <1>1, <2>1, AppendProperties
<1>3. CASE l # t.source
  BY <1>3, WithMoveType
<1> QED
  BY <1>2, <1>3

(* The loop counters stay positive, and the pair of a frame never changes. *)
LEMMA AdvanceType ==
    ASSUME NEW f \in Frame
    PROVE  Advance(f) \in Frame /\ Advance(f).l1 = f.l1 /\ Advance(f).l2 = f.l2
<1>1. f.i \in Nat \ {0} /\ f.j \in Nat \ {0} /\ f.case \in 1..3
  BY DEF Frame
<1>2. CASE f.case < 3
  <2>1. Advance(f) = [f EXCEPT !.case = f.case + 1]
    BY <1>2 DEF Advance
  <2>2. f.case + 1 \in 1..3
    BY <1>1, <1>2
  <2> QED
    BY <1>1, <2>1, <2>2 DEF Frame
<1>3. CASE ~(f.case < 3) /\ f.j < Len(tiosts2.out[f.l2])
  <2>1. Advance(f) = [l1 |-> f.l1, l2 |-> f.l2, i |-> f.i, j |-> f.j + 1, case |-> 1]
    BY <1>3 DEF Advance, Frame
  <2>2. f.j + 1 \in Nat \ {0}
    BY <1>1
  <2> QED
    BY <1>1, <2>1, <2>2 DEF Frame
<1>4. CASE ~(f.case < 3) /\ ~(f.j < Len(tiosts2.out[f.l2]))
  <2>1. Advance(f) = [l1 |-> f.l1, l2 |-> f.l2, i |-> f.i + 1, j |-> 1, case |-> 1]
    BY <1>4 DEF Advance, Frame
  <2>2. f.i + 1 \in Nat \ {0}
    BY <1>1
  <2> QED
    BY <1>1, <2>1, <2>2 DEF Frame
<1> QED
  BY <1>2, <1>3, <1>4

(* Advancing the loops moves the top frame on and keeps its pair.          *)
LEMMA RestType ==
    ASSUME stack \in Seq(Frame), stack # <<>>
    PROVE  /\ Rest \in Seq(Frame)
           /\ DOMAIN Rest = DOMAIN stack
           /\ \A i \in DOMAIN stack :
                 Rest[i].l1 = stack[i].l1 /\ Rest[i].l2 = stack[i].l2
<1>1. /\ Top \in Frame /\ Tail(stack) \in Seq(Frame)
      /\ Top = stack[1] /\ Len(Tail(stack)) = Len(stack) - 1
      /\ \A i \in 1..Len(Tail(stack)) : Tail(stack)[i] = stack[i+1]
      /\ Len(stack) \in Nat \ {0} /\ DOMAIN stack = 1..Len(stack)
  BY HeadTailProperties, EmptySeq DEF Top
<1>2. Advance(Top) \in Frame /\ Advance(Top).l1 = Top.l1 /\ Advance(Top).l2 = Top.l2
  BY <1>1, AdvanceType
<1>3. /\ <<Advance(Top)>> \in Seq(Frame)
      /\ Len(<<Advance(Top)>>) = 1
      /\ <<Advance(Top)>>[1] = Advance(Top)
  BY <1>2
<1>4. /\ Rest \in Seq(Frame)
      /\ Len(Rest) = Len(stack)
      /\ \A i \in 1..Len(stack) : Rest[i] = IF i = 1 THEN Advance(Top) ELSE stack[i]
  BY <1>1, <1>3, ConcatProperties DEF Rest
<1> QED
  BY <1>1, <1>2, <1>4

(* A stack on which no pair is active twice, all of them recorded.         *)
Bounded(s, visited) ==
    /\ \A i, j \in DOMAIN s : (s[i].l1 = s[j].l1 /\ s[i].l2 = s[j].l2) => i = j
    /\ \A i \in DOMAIN s : Join(s[i].l1, s[i].l2) \in visited

Placed(s, locs1, locs2) == \A i \in DOMAIN s : s[i].l1 \in locs1 /\ s[i].l2 \in locs2

(* A call of parComposition keeps the recursion bounded: it adds a frame   *)
(* only for a pair that was not recorded, and records it.                  *)
LEMMA InvokeStack ==
    ASSUME NEW locs1 \in SUBSET Label, NEW locs2 \in SUBSET Label,
           \A a \in locs1, b \in locs2 : Join(a, b) \in Label,
           NEW l1 \in locs1, NEW l2 \in locs2, NEW rest \in Seq(Frame),
           visitedLocations \subseteq Label,
           Bounded(rest, visitedLocations), Placed(rest, locs1, locs2),
           Invoke(l1, l2, rest)
    PROVE  /\ stack' \in Seq(Frame)
           /\ visitedLocations' \subseteq Label
           /\ Bounded(stack', visitedLocations')
           /\ Placed(stack', locs1, locs2)
<1>1. CASE Join(l1, l2) \in visitedLocations
  BY <1>1 DEF Invoke
<1>2. CASE Join(l1, l2) \notin visitedLocations
  <2> DEFINE f == [l1 |-> l1, l2 |-> l2, i |-> 1, j |-> 1, case |-> 1]
  <2>1. f \in Frame
    BY DEF Frame
  <2>2. /\ stack' = <<f>> \o rest
        /\ visitedLocations' = visitedLocations \cup {Join(l1, l2)}
    BY <1>2 DEF Invoke
  <2>3. f.l1 = l1 /\ f.l2 = l2
    OBVIOUS
  <2> HIDE DEF f
  <2>4. <<f>> \in Seq(Frame) /\ Len(<<f>>) = 1 /\ <<f>>[1] = f
    BY <2>1
  <2>5. /\ stack' \in Seq(Frame)
        /\ Len(stack') = Len(rest) + 1
        /\ Len(rest) \in Nat
        /\ DOMAIN stack' = 1..(Len(rest) + 1)
        /\ DOMAIN rest = 1..Len(rest)
        /\ stack'[1] = f
        /\ \A i \in 1..Len(rest) : stack'[i + 1] = rest[i]
    BY <2>2, <2>4, ConcatProperties, LenProperties
  <2>6. \A i \in DOMAIN stack' : i = 1 \/ (i - 1 \in DOMAIN rest /\ stack'[i] = rest[i - 1])
    BY <2>5
  <2>7. \A i \in DOMAIN rest : rest[i].l1 # l1 \/ rest[i].l2 # l2
    BY <1>2 DEF Bounded
  <2>8. \A i, j \in DOMAIN stack' :
           (stack'[i].l1 = stack'[j].l1 /\ stack'[i].l2 = stack'[j].l2) => i = j
    <3> SUFFICES ASSUME NEW i \in DOMAIN stack', NEW j \in DOMAIN stack',
                        stack'[i].l1 = stack'[j].l1, stack'[i].l2 = stack'[j].l2
                 PROVE  i = j
      OBVIOUS
    <3>1. CASE i = 1 /\ j # 1
      BY <2>3, <2>5, <2>6, <2>7, <3>1
    <3>2. CASE i # 1 /\ j = 1
      BY <2>3, <2>5, <2>6, <2>7, <3>2
    <3>3. CASE i # 1 /\ j # 1
      <4>1. i - 1 = j - 1
        BY <2>6, <3>3 DEF Bounded
      <4> QED
        BY <2>5, <4>1
    <3> QED
      BY <3>1, <3>2, <3>3
  <2>9. \A i \in DOMAIN stack' : Join(stack'[i].l1, stack'[i].l2) \in visitedLocations'
    BY <2>2, <2>3, <2>5, <2>6 DEF Bounded
  <2>10. Placed(stack', locs1, locs2)
    BY <2>3, <2>5, <2>6 DEF Placed
  <2>11. visitedLocations' \subseteq Label
    BY <2>2
  <2> QED
    BY <2>5, <2>8, <2>9, <2>10, <2>11 DEF Bounded
<1> QED
  BY <1>1, <1>2

-----------------------------------------------------------------------------
(* The three cases of the loop body.                                       *)

(* Inside the loop body t1 and t2 are transitions of the two clones that   *)
(* leave the pair of the top frame and end in declared locations.          *)
LEMMA TopFacts ==
    ASSUME IInv, InBody
    PROVE  /\ Composing /\ Prepared /\ stack # <<>> /\ stack \in Seq(Frame)
           /\ tiosts1.locations \subseteq Label /\ tiosts2.locations \subseteq Label
           /\ Top.l1 \in tiosts1.locations /\ Top.l2 \in tiosts2.locations
           /\ T1 \in Transition /\ T1 \in From(tiosts1, Top.l1)
           /\ T1.target \in tiosts1.locations
           /\ T2 \in Transition /\ T2 \in From(tiosts2, Top.l2)
           /\ T2.target \in tiosts2.locations
<1>1. /\ Composing /\ Prepared /\ FramesPlaced /\ stack # <<>> /\ stack \in Seq(Frame)
      /\ tiosts1 \in Model /\ tiosts2 \in Model
  BY DEF IInv, InBody, Composing, TypeOK
<1>2. /\ tiosts1.locations \subseteq Label /\ tiosts2.locations \subseteq Label
      /\ tiosts1.out \in [Label -> Seq(Transition)]
      /\ tiosts2.out \in [Label -> Seq(Transition)]
  BY <1>1 DEF Model
<1>3. Top = stack[1] /\ 1 \in DOMAIN stack /\ Top \in Frame
  BY <1>1, HeadTailProperties, EmptySeq DEF Top
<1>4. Top.l1 \in tiosts1.locations /\ Top.l2 \in tiosts2.locations
  BY <1>1, <1>3 DEF FramesPlaced
<1>5. /\ tiosts1.out[Top.l1] \in Seq(Transition)
      /\ tiosts2.out[Top.l2] \in Seq(Transition)
      /\ Top.i \in Nat \ {0} /\ Top.j \in Nat \ {0}
  BY <1>2, <1>3, <1>4 DEF Frame
<1>6. Top.i \in DOMAIN tiosts1.out[Top.l1] /\ Top.j \in DOMAIN tiosts2.out[Top.l2]
  BY <1>5, LenProperties DEF InBody
<1>7. /\ T1 \in Transition /\ T1 \in From(tiosts1, Top.l1)
      /\ T2 \in Transition /\ T2 \in From(tiosts2, Top.l2)
  BY <1>5, <1>6, LenProperties DEF T1, T2, From, Range
<1>8. T1.target \in tiosts1.locations /\ T2.target \in tiosts2.locations
  BY <1>1, <1>4, <1>6 DEF Prepared, CloneOf, T1, T2
<1> QED
  BY <1>1, <1>2, <1>4, <1>7, <1>8

(* A case that creates a move of the composition and goes on at a pair of  *)
(* declared locations preserves the invariant.                             *)
LEMMA CreateStep ==
    ASSUME IInv, InBody, NEW t \in Transition, SoundMove(t),
           NEW l1 \in tiosts1.locations, NEW l2 \in tiosts2.locations,
           Create(t, l1, l2)
    PROVE  IInv'
<1> DEFINE locs1 == tiosts1.locations
           locs2 == tiosts2.locations
<1>1. /\ Prepared /\ stack # <<>> /\ stack \in Seq(Frame)
      /\ locs1 \subseteq Label /\ locs2 \subseteq Label
  BY TopFacts
<1>2. /\ UNCHANGED <<model1, model2, tiosts1, tiosts2, status, calls>>
      /\ result' = WithMove(result, t)
      /\ Invoke(l1, l2, Rest)
  BY DEF Create
<1>3. result' \in Model
  BY <1>2, WithMoveType DEF IInv, TypeOK
<1>4. /\ Rest \in Seq(Frame)
      /\ DOMAIN Rest = DOMAIN stack
      /\ \A i \in DOMAIN stack : Rest[i].l1 = stack[i].l1 /\ Rest[i].l2 = stack[i].l2
  BY <1>1, RestType
<1>5. Bounded(Rest, visitedLocations) /\ Placed(Rest, locs1, locs2)
  BY <1>4, TopFacts DEF IInv, RecursionBounded, FramesPlaced, Bounded, Placed
<1>6. \A a \in locs1, b \in locs2 : Join(a, b) \in Label
  BY <1>1 DEF Prepared
<1>7. /\ stack' \in Seq(Frame) /\ visitedLocations' \subseteq Label
      /\ Bounded(stack', visitedLocations') /\ Placed(stack', locs1, locs2)
  <2>1. visitedLocations \subseteq Label
    BY DEF IInv, TypeOK
  <2> HIDE DEF locs1, locs2
  <2>2. l1 \in locs1 /\ l2 \in locs2
    BY DEF locs1, locs2
  <2> QED
    BY <1>1, <1>2, <1>4, <1>5, <1>6, <2>1, <2>2, InvokeStack
<1>8. TypeOK'
  BY <1>2, <1>3, <1>7 DEF IInv, TypeOK
<1>9. RecursionBounded' /\ FramesPlaced'
  BY <1>2, <1>7 DEF Bounded, Placed, RecursionBounded, FramesPlaced
<1>10. Prepared'
  BY <1>1, <1>2 DEF Prepared
<1>11. AllSound'
  <2> SUFFICES ASSUME NEW l \in Label, NEW i \in DOMAIN result'.out[l]
               PROVE  SoundMove(result.out[l][i])'
    BY DEF AllSound
  <2>1. \/ result'.out[l][i] = t
        \/ i \in DOMAIN result.out[l] /\ result'.out[l][i] = result.out[l][i]
    BY <1>2, AppendedMoves DEF IInv, TypeOK
  <2>2. SoundMove(result'.out[l][i])
    BY <2>1, TopFacts DEF IInv, AllSound
  <2> QED
    BY <1>2, <2>2 DEF SoundMove
<1>12. status' = "exploring"
  BY <1>2 DEF InBody
<1> QED
  BY <1>8, <1>9, <1>10, <1>11, <1>12 DEF IInv

AloneFirst(l1, l2, t)  == [t EXCEPT !.source = Join(l1, l2), !.target = Join(t.target, l2)]
AloneSecond(l1, l2, t) == [t EXCEPT !.source = Join(l1, l2), !.target = Join(l1, t.target)]

\* A case that creates t and goes on at <<l1, l2>>.
Creates(t, l1, l2) ==
    /\ InBody
    /\ t \in Transition /\ SoundMove(t)
    /\ t \in Moves(tiosts1, tiosts2, Top.l1, Top.l2)
    /\ l1 \in tiosts1.locations /\ l2 \in tiosts2.locations
    /\ t.source = Join(Top.l1, Top.l2) /\ t.target = Join(l1, l2)
    /\ Create(t, l1, l2)

(* Case 1: the first model moves alone.                                    *)
LEMMA Case1Move ==
    ASSUME IInv, Case1
    PROVE  /\ Creates(FirstAlone, T1.target, Top.l2)
           /\ FirstAlone = AloneFirst(Top.l1, Top.l2, T1)
<1>1. InBody /\ T1.action.name \in actionsT1 /\ Create(FirstAlone, T1.target, Top.l2)
  BY DEF Case1
<1>2. /\ Prepared
      /\ Top.l1 \in tiosts1.locations /\ Top.l2 \in tiosts2.locations
      /\ T1 \in Transition /\ T1 \in From(tiosts1, Top.l1)
      /\ T1.target \in tiosts1.locations
  BY <1>1, TopFacts
<1>3. Join(Top.l1, Top.l2) \in Label /\ Join(T1.target, Top.l2) \in Label
  BY <1>2 DEF Prepared
<1>4. FirstAlone = [T1 EXCEPT !.source = Join(Top.l1, Top.l2),
                             !.target = Join(T1.target, Top.l2)]
  BY <1>2 DEF FirstAlone, Transition
<1>5. FirstAlone \in Transition
  BY <1>2, <1>3, <1>4 DEF Transition
<1>6. T1.action.name \notin ActionNames(tiosts2)
  BY <1>1, <1>2 DEF actionsT1, Prepared, CloneOf
<1>7. FirstAlone \in MovesOfFirst(tiosts1, tiosts2, Top.l1, Top.l2)
  BY <1>2, <1>4, <1>6 DEF MovesOfFirst
<1>8. SoundMove(FirstAlone) /\ FirstAlone \in Moves(tiosts1, tiosts2, Top.l1, Top.l2)
  BY <1>2, <1>7 DEF SoundMove, Moves
<1>9. /\ FirstAlone.source = Join(Top.l1, Top.l2)
      /\ FirstAlone.target = Join(T1.target, Top.l2)
  BY <1>2, <1>4 DEF Transition
<1> QED
  BY <1>1, <1>2, <1>4, <1>5, <1>8, <1>9 DEF Creates, AloneFirst

(* Case 2: the second model moves alone.                                   *)
LEMMA Case2Move ==
    ASSUME IInv, Case2
    PROVE  /\ Creates(SecondAlone, Top.l1, T2.target)
           /\ SecondAlone = AloneSecond(Top.l1, Top.l2, T2)
<1>1. InBody /\ T2.action.name \in actionsT2 /\ Create(SecondAlone, Top.l1, T2.target)
  BY DEF Case2
<1>2. /\ Prepared
      /\ Top.l1 \in tiosts1.locations /\ Top.l2 \in tiosts2.locations
      /\ T2 \in Transition /\ T2 \in From(tiosts2, Top.l2)
      /\ T2.target \in tiosts2.locations
  BY <1>1, TopFacts
<1>3. Join(Top.l1, Top.l2) \in Label /\ Join(Top.l1, T2.target) \in Label
  BY <1>2 DEF Prepared
<1>4. SecondAlone = [T2 EXCEPT !.source = Join(Top.l1, Top.l2),
                              !.target = Join(Top.l1, T2.target)]
  BY <1>2 DEF SecondAlone, Transition
<1>5. SecondAlone \in Transition
  BY <1>2, <1>3, <1>4 DEF Transition
<1>6. T2.action.name \notin ActionNames(tiosts1)
  BY <1>1, <1>2 DEF actionsT2, Prepared, CloneOf
<1>7. SecondAlone \in MovesOfSecond(tiosts1, tiosts2, Top.l1, Top.l2)
  BY <1>2, <1>4, <1>6 DEF MovesOfSecond
<1>8. SoundMove(SecondAlone) /\ SecondAlone \in Moves(tiosts1, tiosts2, Top.l1, Top.l2)
  BY <1>2, <1>7 DEF SoundMove, Moves
<1>9. /\ SecondAlone.source = Join(Top.l1, Top.l2)
      /\ SecondAlone.target = Join(Top.l1, T2.target)
  BY <1>2, <1>4 DEF Transition
<1> QED
  BY <1>1, <1>2, <1>4, <1>5, <1>8, <1>9 DEF Creates, AloneSecond

(* The deadline of a synchronisation is the most urgent of the two.        *)
LEMMA DeadlineIsMostUrgent ==
    ASSUME NEW d \in Deadline, NEW e \in Deadline
    PROVE  /\ deadlineOperator(d, e) = MostUrgent(d, e)
           /\ deadlineOperator(d, e) \in Deadline
  BY DEF deadlineOperator, MostUrgent, Deadline, DEADLINE_LAZY,
         DEADLINE_DELAYABLE, DEADLINE_EAGER

(* Case 3: an output meets the input of the same name.                     *)
LEMMA Case3Move ==
    ASSUME IInv, Case3
    PROVE  /\ Creates(Synchronized, T1.target, T2.target)
           /\ Synchronized = Together(Top.l1, Top.l2, T1, T2)
<1>1. /\ InBody /\ canSynchronize(T1.action, T2.action)
      /\ Create(Synchronized, T1.target, T2.target)
  BY DEF Case3
<1>2. /\ Prepared
      /\ Top.l1 \in tiosts1.locations /\ Top.l2 \in tiosts2.locations
      /\ T1 \in Transition /\ T1 \in From(tiosts1, Top.l1)
      /\ T2 \in Transition /\ T2 \in From(tiosts2, Top.l2)
      /\ T1.target \in tiosts1.locations /\ T2.target \in tiosts2.locations
  BY <1>1, TopFacts
<1>3. Join(Top.l1, Top.l2) \in Label /\ Join(T1.target, T2.target) \in Label
  BY <1>2 DEF Prepared
<1>4. /\ T1.action \in Action /\ T2.action \in Action
      /\ T1.dataGuard \subseteq Atom /\ T2.dataGuard \subseteq Atom
      /\ T1.clockGuard \subseteq SimpleClockGuard /\ T2.clockGuard \subseteq SimpleClockGuard
      /\ T1.assignments \subseteq Update /\ T2.assignments \subseteq Update
      /\ T1.deadline \in Deadline /\ T2.deadline \in Deadline
  BY <1>2 DEF Transition
<1>5. /\ Complementary(T1.action, T2.action)
      /\ Synchronized.action = [name |-> T1.action.name, type |-> ACTION_OUTPUT]
  BY <1>1, <1>4 DEF canSynchronize, Complementary, Synchronized, Action,
                    ACTION_INPUT, ACTION_OUTPUT
<1>6. Synchronized.action \in Action
  BY <1>4, <1>5 DEF Action, ActionType
<1>7. Synchronized.deadline = MostUrgent(T1.deadline, T2.deadline)
      /\ Synchronized.deadline \in Deadline
  BY <1>4, DeadlineIsMostUrgent DEF Synchronized
<1>8. Synchronized \in Transition
  BY <1>3, <1>4, <1>6, <1>7 DEF Synchronized, Transition
<1>9. Synchronized = Together(Top.l1, Top.l2, T1, T2)
  BY <1>5, <1>7 DEF Synchronized, Together
<1>10. Synchronized \in MovesOfBoth(tiosts1, tiosts2, Top.l1, Top.l2)
  <2>1. <<T1, T2>> \in {q \in From(tiosts1, Top.l1) \X From(tiosts2, Top.l2) :
                           Complementary(q[1].action, q[2].action)}
    BY <1>2, <1>5
  <2> QED
    BY <1>9, <2>1 DEF MovesOfBoth
<1>11. SoundMove(Synchronized) /\ Synchronized \in Moves(tiosts1, tiosts2, Top.l1, Top.l2)
  BY <1>2, <1>10 DEF SoundMove, Moves
<1>12. /\ Synchronized.source = Join(Top.l1, Top.l2)
       /\ Synchronized.target = Join(T1.target, T2.target)
  BY DEF Synchronized
<1> QED
  BY <1>1, <1>2, <1>8, <1>9, <1>11, <1>12 DEF Creates

(* So each of them preserves the invariant.                                *)
LEMMA CasesStep ==
    ASSUME IInv, Case1 \/ Case2 \/ Case3
    PROVE  /\ IInv'
           /\ \E t, l1, l2 : Creates(t, l1, l2)
<1>1. PICK t, l1, l2 : Creates(t, l1, l2)
  BY Case1Move, Case2Move, Case3Move
<1>2. IInv'
  BY <1>1, CreateStep DEF Creates
<1> QED
  BY <1>1, <1>2

-----------------------------------------------------------------------------
(* The other steps.                                                        *)

(* Before the first call everything is empty.                              *)
LEMMA InitIInv == Init => IInv
<1> SUFFICES ASSUME Init PROVE IInv
  OBVIOUS
<1>1. EmptyTIOSTS \in Model
  BY EmptySeq DEF EmptyTIOSTS, Model
<1>2. <<>> \in Seq(Frame) /\ DOMAIN stack = {}
  BY EmptySeq DEF Init
<1>3. TypeOK
  BY <1>1, <1>2, BoundsAssumption DEF Init, TypeOK, Status
<1> QED
  BY <1>2, <1>3 DEF Init, IInv, RecursionBounded, Composing

(* initialize() declares a well-typed result whose only list with an entry *)
(* is the one of its initial location.                                     *)
LEMMA initializeType ==
    ASSUME NEW m1 \in Model, NEW m2 \in Model,
           InitialTransition(m1, m2) \in Transition
    PROVE  /\ initialize(m1, m2) \in Model
           /\ \A l \in Label : \A i \in DOMAIN initialize(m1, m2).out[l] :
                 initialize(m1, m2).out[l][i] = InitialTransition(m1, m2)
<1> DEFINE t == InitialTransition(m1, m2)
           d == Declarations(m1, m2)
           w == WithMove(d, t)
<1>1. t.action \in Action /\ t.action.name \in Name /\ t.source \in Label
  BY DEF Transition, Action
<1>2. EmptyTIOSTS \in Model
  BY EmptySeq DEF EmptyTIOSTS, Model
<1>3. d \in Model /\ d.out = [l \in Label |-> <<>>]
  <2>1. /\ OutputActions(m1, m2) \subseteq Name
        /\ InternalActions(m1, m2) \subseteq Name
    BY <1>1 DEF OutputActions, InternalActions, Model
  <2> QED
    BY <1>2, <2>1 DEF Declarations, Model, EmptyTIOSTS
<1>4. w \in Model
  BY <1>3, WithMoveType
<1>5. SetInitialLocation(w, t.source) \in Model /\ SetInitialLocation(w, t.source).out = w.out
  <2> HIDE DEF w, t
  <2> QED
    BY <1>1, <1>4 DEF SetInitialLocation, Model
<1>6. initialize(m1, m2) \in Model /\ initialize(m1, m2).out = w.out
  <2> DEFINE v == SetInitialLocation(w, t.source)
  <2>1. initialize(m1, m2) = [v EXCEPT !.initialCondition = {Glued}]
    BY DEF initialize
  <2>2. v \in Model /\ v.out = w.out
    BY <1>5
  <2>3. {Glued} \subseteq Atom
    BY BoundsAssumption
  <2> HIDE DEF v, w, t, d
  <2>4. [v EXCEPT !.initialCondition = {Glued}] \in Model
    BY <2>2, <2>3 DEF Model
  <2>5. [v EXCEPT !.initialCondition = {Glued}].out = v.out
    BY <2>2 DEF Model
  <2> QED
    BY <2>1, <2>2, <2>4, <2>5
<1>7. ASSUME NEW l \in Label, NEW i \in DOMAIN w.out[l]
      PROVE  w.out[l][i] = t
  <2>1. \/ w.out[l][i] = t
        \/ i \in DOMAIN d.out[l] /\ w.out[l][i] = d.out[l][i]
    BY <1>3, AppendedMoves
  <2>2. DOMAIN d.out[l] = {}
    BY <1>3
  <2> QED
    BY <2>1, <2>2
<1> QED
  BY <1>6, <1>7

(* A call clones its arguments, declares the result and enters the walk at *)
(* the pair behind the two initial transitions.                            *)
LEMMA CallStep ==
    ASSUME IInv, NEW p \in Pairs, Call(p[1], p[2])
    PROVE  IInv'
<1> DEFINE m1 == p[1]
           m2 == p[2]
<1>1. /\ status \notin {"exploring", "crashed"} /\ calls < MaxCalls
      /\ calls' = calls + 1
      /\ model1' = m1 /\ model2' = m2
      /\ tiosts1' \in Clones(m1) /\ tiosts2' \in Clones(m2)
  BY DEF Call
<1>2. WellFormed(m1) /\ WellFormed(m2) /\ m1 \in Model /\ m2 \in Model
  BY PairsAssumption DEF WellFormed
<1>3. /\ CloneOf(m1, tiosts1') /\ CloneOf(m2, tiosts2')
      /\ InitialOf(tiosts1').action.name = InitialOf(m1).action.name
      /\ InitialOf(tiosts2').action.name = InitialOf(m2).action.name
  BY <1>1, <1>2, CloneShape DEF InitialOf
<1>4. tiosts1' \in Model /\ tiosts2' \in Model
  BY <1>3 DEF CloneOf
<1>5. calls' \in 0..MaxCalls /\ stack = <<>> /\ stack \in Seq(Frame)
      /\ visitedLocations \subseteq Label
  BY <1>1, BoundsAssumption DEF IInv, TypeOK
<1>6. CASE ~isCompatible(tiosts1', tiosts2')
  <2>1. /\ status' = "incompatible" /\ result' = EmptyTIOSTS
        /\ visitedLocations' = visitedLocations /\ stack' = <<>>
    BY <1>5, <1>6 DEF Call
  <2>2. EmptyTIOSTS \in Model
    BY EmptySeq DEF EmptyTIOSTS, Model
  <2>3. TypeOK'
    BY <1>1, <1>2, <1>4, <1>5, <2>1, <2>2 DEF TypeOK, Status
  <2>4. RecursionBounded'
    BY <2>1 DEF RecursionBounded
  <2> QED
    BY <2>1, <2>3, <2>4 DEF IInv, Composing
<1>7. CASE isCompatible(tiosts1', tiosts2')
  <2> DEFINE t == InitialTransition(tiosts1', tiosts2')
             t1 == InitialOf(tiosts1')
             t2 == InitialOf(tiosts2')
             locs1 == tiosts1'.locations
             locs2 == tiosts2'.locations
  <2>1. /\ status' = "exploring"
        /\ result' = initialize(tiosts1', tiosts2')
        /\ Invoke(t1.target, t2.target, <<>>)
    BY <1>7 DEF Call
  <2>2. /\ \A l1 \in locs1, l2 \in locs2 : Join(l1, l2) \in Label
        /\ Join(t1.action.name, t2.action.name) \in Name
    <3>1. Disjoint(m1, m2)
      BY <1>3, <1>7 DEF isCompatible, Disjoint, CloneOf
    <3> QED
      BY <1>3, <3>1, PairsAssumption DEF CloneOf
  <2>3. /\ t1 \in Transition /\ t1.source \in locs1 /\ t1.target \in locs1
        /\ t2 \in Transition /\ t2.source \in locs2 /\ t2.target \in locs2
        /\ locs1 \in SUBSET Label /\ locs2 \in SUBSET Label
    <3>1. ASSUME NEW m, NEW c, CloneOf(m, c)
          PROVE  /\ InitialOf(c) \in Transition /\ InitialOf(c).source \in c.locations
                 /\ InitialOf(c).target \in c.locations
                 /\ c.locations \in SUBSET Label
      <4>1. /\ c.locations \in SUBSET Label /\ c.initialLocation \in c.locations
            /\ c.out[c.initialLocation] \in Seq(Transition)
        BY <3>1 DEF CloneOf, Model
      <4>2. 1 \in DOMAIN c.out[c.initialLocation]
        BY <3>1, <4>1, LenProperties DEF CloneOf
      <4> QED
        BY <3>1, <4>1, <4>2, LenProperties DEF CloneOf, InitialOf
    <3> QED
      BY <1>3, <3>1
  <2>4. t \in Transition
    <3>1. [name |-> Join(t1.action.name, t2.action.name), type |-> ACTION_INTERNAL] \in Action
      BY <2>2 DEF Action, ActionType
    <3>2. DEADLINE_LAZY \in Deadline
      BY DEF Deadline
    <3>3. Join(t1.source, t2.source) \in Label /\ Join(t1.target, t2.target) \in Label
      BY <2>2, <2>3
    <3> QED
      BY <2>3, <3>1, <3>2, <3>3 DEF InitialTransition, Transition
  <2>5. /\ result' \in Model
        /\ \A l \in Label : \A i \in DOMAIN result'.out[l] : result'.out[l][i] = t
    BY <1>4, <2>1, <2>4, initializeType
  <2>6. Bounded(<<>>, visitedLocations) /\ Placed(<<>>, locs1, locs2)
    BY DEF Bounded, Placed
  <2>7. /\ stack' \in Seq(Frame) /\ visitedLocations' \subseteq Label
        /\ Bounded(stack', visitedLocations') /\ Placed(stack', locs1, locs2)
    <3>1. t1.target \in locs1 /\ t2.target \in locs2
      BY <2>3
    <3> HIDE DEF locs1, locs2, t1, t2
    <3> QED
      BY <1>5, <2>1, <2>2, <2>3, <2>6, <3>1, InvokeStack
  <2>8. TypeOK'
    BY <1>1, <1>2, <1>4, <1>5, <2>1, <2>5, <2>7 DEF TypeOK, Status
  <2>9. RecursionBounded' /\ FramesPlaced'
    BY <2>7 DEF Bounded, Placed, RecursionBounded, FramesPlaced
  <2>10. Prepared'
    BY <1>1, <1>3, <2>2 DEF Prepared
  <2>11. AllSound'
    BY <2>5 DEF AllSound, SoundMove
  <2> QED
    BY <2>1, <2>8, <2>9, <2>10, <2>11 DEF IInv
<1> QED
  BY <1>6, <1>7

(* Steps that only move the walk on.                                       *)
LEMMA ControlStep ==
    ASSUME IInv, Skip \/ Crash \/ Leave \/ Return
    PROVE  IInv'
<1>1. /\ UNCHANGED <<model1, model2, tiosts1, tiosts2, result, visitedLocations, calls>>
      /\ status = "exploring" /\ Composing /\ stack \in Seq(Frame)
      /\ Prepared /\ FramesPlaced /\ AllSound
  BY DEF Skip, Crash, Leave, Return, InBody, IInv, TypeOK, Composing
<1>2. /\ stack' \in Seq(Frame)
      /\ Bounded(stack', visitedLocations)
      /\ Placed(stack', tiosts1.locations, tiosts2.locations)
      /\ status' \in Status
      /\ status' # "exploring" => stack' = <<>>
  <2>1. /\ Bounded(stack, visitedLocations)
        /\ Placed(stack, tiosts1.locations, tiosts2.locations)
    BY <1>1 DEF IInv, RecursionBounded, FramesPlaced, Bounded, Placed
  <2>2. CASE Skip
    <3>1. stack # <<>> /\ stack' = Rest /\ status' = status
      BY <2>2 DEF Skip, InBody
    <3> QED
      BY <1>1, <2>1, <3>1, RestType DEF Bounded, Placed, IInv, TypeOK
  <2>3. CASE Crash
    BY <2>3, EmptySeq DEF Crash, Bounded, Placed, Status
  <2>4. CASE Leave
    <3>1. stack # <<>> /\ stack' = Tail(stack) /\ status' = status
      BY <2>4 DEF Leave
    <3>2. /\ stack' \in Seq(Frame)
          /\ DOMAIN stack' = 1..(Len(stack) - 1)
          /\ DOMAIN stack = 1..Len(stack) /\ Len(stack) \in Nat
          /\ \A i \in DOMAIN stack' : stack'[i] = stack[i + 1]
      BY <1>1, <3>1, HeadTailProperties, LenProperties
    <3>3. \A i \in DOMAIN stack' : i \in Int /\ i + 1 \in DOMAIN stack
      BY <3>2
    <3>4. Placed(stack', tiosts1.locations, tiosts2.locations)
      BY <2>1, <3>2, <3>3 DEF Placed
    <3>5. Bounded(stack', visitedLocations)
      <4>1. \A i, j \in DOMAIN stack' :
               (stack'[i].l1 = stack'[j].l1 /\ stack'[i].l2 = stack'[j].l2) => i + 1 = j + 1
        BY <2>1, <3>2, <3>3 DEF Bounded
      <4>2. \A i, j \in DOMAIN stack' : i + 1 = j + 1 => i = j
        BY <3>3
      <4> QED
        BY <2>1, <3>2, <3>3, <4>1, <4>2 DEF Bounded
    <3> QED
      BY <1>1, <3>1, <3>2, <3>4, <3>5 DEF Status
  <2>5. CASE Return
    BY <1>1, <2>1, <2>5 DEF Return, Status
  <2> QED
    BY <2>2, <2>3, <2>4, <2>5
<1>3. TypeOK'
  BY <1>1, <1>2 DEF IInv, TypeOK
<1>4. RecursionBounded' /\ FramesPlaced'
  BY <1>1, <1>2 DEF Bounded, Placed, RecursionBounded, FramesPlaced
<1>5. Prepared' /\ AllSound'
  BY <1>1 DEF Prepared, AllSound, SoundMove
<1> QED
  BY <1>2, <1>3, <1>4, <1>5 DEF IInv

(* A step that changes nothing.                                            *)
LEMMA StutterStep ==
    ASSUME IInv, UNCHANGED vars
    PROVE  IInv'
<1>1. TypeOK' /\ RecursionBounded'
  BY DEF IInv, TypeOK, RecursionBounded, vars
<1>2. Composing => Prepared' /\ FramesPlaced' /\ AllSound'
  BY DEF IInv, Prepared, FramesPlaced, AllSound, SoundMove, vars
<1> QED
  BY <1>1, <1>2 DEF IInv, Composing, vars

-----------------------------------------------------------------------------
(* The theorems.                                                           *)

(* The invariant is inductive: every step of the walk preserves it.        *)
THEOREM Invariance == Spec => []IInv
<1>1. IInv /\ [Next]_vars => IInv'
  <2> SUFFICES ASSUME IInv, [Next]_vars PROVE IInv'
    OBVIOUS
  <2>1. CASE \E p \in Pairs : Call(p[1], p[2])
    BY <2>1, CallStep
  <2>2. CASE Case1 \/ Case2 \/ Case3
    BY <2>2, CasesStep
  <2>3. CASE Skip \/ Crash \/ Leave \/ Return
    BY <2>3, ControlStep
  <2>4. CASE UNCHANGED vars
    BY <2>4, StutterStep
  <2> QED
    BY <2>1, <2>2, <2>3, <2>4 DEF Next, Walk
<1> QED
  BY InitIInv, <1>1, PTL DEF Spec

(* The fields of the singleton and the locals of the calls in progress     *)
(* hold what their types say, for every set of well-formed models.         *)
THEOREM TypeCorrect == Spec => []TypeOK
<1>1. IInv => TypeOK
  BY DEF IInv
<1> QED
  BY <1>1, Invariance, PTL

(* parComposition never has the same pair of locations active twice, so    *)
(* the recursion is at most as deep as there are pairs.                    *)
THEOREM Depth == Spec => []RecursionBounded
<1>1. IInv => RecursionBounded
  BY DEF IInv
<1> QED
  BY <1>1, Invariance, PTL

(* Whatever the order of the lists and whatever earlier calls left in      *)
(* visitedLocations, parComposition creates only moves of the composition. *)
THEOREM Soundness == Spec => []Sound
<1>1. IInv => Sound
  <2> SUFFICES ASSUME IInv, Composing, NEW t \in OutTransitions(result)
               PROVE  SoundMove(t)
    BY DEF Sound, SoundMove
  <2>1. PICK l \in result.locations : t \in Range(result.out[l])
    BY DEF OutTransitions
  <2>2. l \in Label
    BY DEF IInv, TypeOK, Model
  <2>3. PICK i \in DOMAIN result.out[l] : t = result.out[l][i]
    BY <2>1 DEF Range
  <2> QED
    BY <2>2, <2>3 DEF IInv, AllSound
<1> QED
  BY <1>1, Invariance, PTL

-----------------------------------------------------------------------------
(* Which actions a composition declares.                                   *)
(*                                                                         *)
(* A second invariant, proved on top of the first one.  It says that the   *)
(* lists of actions of the result stay the ones initialize() wrote, that   *)
(* every created transition is found in them, and that the walk stands on  *)
(* locations some transition leads to, so that it comes back to an initial *)
(* location only if the model has a way back.                              *)

\* The lists of a clone hold transitions of its map, with declared actions.
Carries(c) ==
    \A l \in c.locations : \A i \in DOMAIN c.out[l] :
        c.out[l][i] \in c.transitions /\ Recoverable(c, c.out[l][i].action)

\* The lists of actions of a result that m1 and m2 are composed into.
Declared(r, m1, m2) ==
    /\ r.inputActions = (m1.inputActions \ m2.outputActions)
                            \cup (m2.inputActions \ OutputActions(m1, m2))
    /\ r.outputActions = OutputActions(m1, m2)
    /\ r.internalActions = InternalActions(m1, m2)

Reached(c, l) == \E t \in c.transitions : t.target = l

Entered(s, c1, c2) ==
    \A i \in DOMAIN s : Reached(c1, s[i].l1) /\ Reached(c2, s[i].l2)

Undeclarable(c1, c2) ==
    \/ RepeatsInitialAction(c1) \/ RepeatsInitialAction(c2)
    \/ c2.inputActions \cap c2.outputActions # {}

JInv ==
    /\ Composing =>
          /\ Carries(tiosts1) /\ Carries(tiosts2)
          /\ Declared(result, tiosts1, tiosts2)
          /\ Cloneable(result)
          /\ Entered(stack, tiosts1, tiosts2)
    /\ status = "crashed" => Undeclarable(tiosts1, tiosts2)

-----------------------------------------------------------------------------
(* The clones and the result.                                              *)

(* clone() appends what it puts into the map, with actions it looked up.   *)
LEMMA CloneCarries ==
    ASSUME NEW m, WellFormed(m), NEW c \in Clones(m)
    PROVE  Carries(c)
<1>1. PICK lists \in CloneLists(m) : c = CloneWith(m, lists)
  BY DEF Clones
<1>2. /\ m \in Model /\ IsFiniteSet(m.transitions) /\ Cloneable(m)
      /\ m.locations \subseteq Label /\ m.transitions \subseteq Transition
  BY CompiledCloneable DEF WellFormed, Model
<1>3. /\ c.locations = m.locations
      /\ c.inputActions = m.inputActions /\ c.outputActions = m.outputActions
      /\ c.internalActions = m.internalActions
      /\ c.transitions = {Reparsed(m, t) : t \in m.transitions}
      /\ c.out = [l \in Label |-> IF l \in m.locations THEN lists[l] ELSE <<>>]
  BY <1>1, <1>2 DEF CloneWith, Model
<1> SUFFICES ASSUME NEW l \in c.locations, NEW i \in DOMAIN c.out[l]
             PROVE  /\ c.out[l][i] \in c.transitions
                    /\ Recoverable(c, c.out[l][i].action)
  BY DEF Carries
<1>4. l \in m.locations /\ c.out[l] = lists[l]
  BY <1>2, <1>3
<1>5. c.out[l][i] \in ClonedFrom(m, l)
  <2>1. lists[l] \in SetToSeqs(ClonedFrom(m, l))
    BY <1>1, <1>4 DEF CloneLists
  <2>2. lists[l] \in Seq(ClonedFrom(m, l))
    BY <1>2, <2>1, ClonedFromType, OrderingIsSequence
  <2>3. i \in DOMAIN lists[l]
    BY <1>4
  <2> QED
    BY <1>4, <2>2, <2>3, LenProperties, ElementOfSeq
<1>6. PICK u \in m.transitions : c.out[l][i] = Reparsed(m, u)
  BY <1>5 DEF ClonedFrom
<1>7. c.out[l][i].action = u.action
  BY <1>2, <1>6, ReparsedType
<1>8. Recoverable(m, u.action)
  BY <1>2 DEF Cloneable
<1>9. Recoverable(c, u.action)
  BY <1>3, <1>8 DEF Recoverable, NamesOfType
<1> QED
  BY <1>3, <1>6, <1>7, <1>9

(* Creating a transition leaves the lists of actions alone.                *)
LEMMA WithMoveDeclares ==
    ASSUME NEW m \in Model, NEW t \in Transition
    PROVE  /\ WithMove(m, t).inputActions = m.inputActions
           /\ WithMove(m, t).outputActions = m.outputActions
           /\ WithMove(m, t).internalActions = m.internalActions
           /\ WithMove(m, t).transitions = Put(m.transitions, t)
<1> DEFINE n == AddLocation(AddLocation(m, t.source), t.target)
<1>1. /\ n \in Model
      /\ n.inputActions = m.inputActions /\ n.outputActions = m.outputActions
      /\ n.internalActions = m.internalActions /\ n.transitions = m.transitions
  BY DEF AddLocation, Model, Transition
<1>2. WithMove(m, t) = CreateTransition(n, t)
  BY DEF WithMove
<1> HIDE DEF n
<1> QED
  BY <1>1, <1>2 DEF CreateTransition, Model

(* A result stays cloneable when the created action is found in it.        *)
LEMMA CreatedCloneable ==
    ASSUME NEW m \in Model, NEW t \in Transition, Cloneable(m), Recoverable(m, t.action)
    PROVE  Cloneable(WithMove(m, t))
<1> DEFINE w == WithMove(m, t)
<1>1. /\ w.inputActions = m.inputActions /\ w.outputActions = m.outputActions
      /\ w.internalActions = m.internalActions
      /\ w.transitions = Put(m.transitions, t)
  BY WithMoveDeclares
<1> HIDE DEF w
<1>2. \A a : Recoverable(w, a) <=> Recoverable(m, a)
  BY <1>1 DEF Recoverable, NamesOfType
<1>3. \A u \in w.transitions : u = t \/ u \in m.transitions
  BY <1>1 DEF Put
<1>4. Cloneable(w)
  BY <1>2, <1>3 DEF Cloneable
<1> QED
  BY <1>4 DEF w

(* initialize() writes the lists and declares the new initial action.      *)
LEMMA initializeDeclares ==
    ASSUME NEW m1 \in Model, NEW m2 \in Model,
           InitialTransition(m1, m2) \in Transition
    PROVE  /\ Declared(initialize(m1, m2), m1, m2)
           /\ Cloneable(initialize(m1, m2))
<1> DEFINE t == InitialTransition(m1, m2)
           d == Declarations(m1, m2)
           w == WithMove(d, t)
           r == initialize(m1, m2)
<1>1. t.action.name \in Name
  BY DEF Transition, Action
<1>2. /\ OutputActions(m1, m2) \subseteq Name
      /\ InternalActions(m1, m2) \subseteq Name
  BY <1>1 DEF OutputActions, InternalActions, Model
<1>3. EmptyTIOSTS \in Model
  BY EmptySeq DEF EmptyTIOSTS, Model
<1>4. /\ d \in Model /\ d.transitions = {}
      /\ Declared(d, m1, m2)
  BY <1>2, <1>3 DEF Declarations, Declared, Model, EmptyTIOSTS
<1>5. /\ t.action.name \in InternalActions(m1, m2)
      /\ t.action.type = ACTION_INTERNAL
  BY DEF InternalActions, InitialTransition
<1>6. Recoverable(d, t.action)
  <2>1. t.action.name \in d.internalActions
    BY <1>4, <1>5 DEF Declared
  <2> HIDE DEF d, t
  <2> QED
    BY <1>5, <2>1 DEF Recoverable, NamesOfType, ACTION_INTERNAL, ACTION_INPUT, ACTION_OUTPUT
<1>7. Cloneable(d)
  BY <1>4 DEF Cloneable
<1>8. /\ w \in Model
      /\ w.inputActions = d.inputActions /\ w.outputActions = d.outputActions
      /\ w.internalActions = d.internalActions
      /\ Cloneable(w)
  <2> HIDE DEF d, t
  <2>1. t \in Transition
    BY DEF t
  <2> QED
    BY <1>4, <1>6, <1>7, <2>1, WithMoveType, WithMoveDeclares, CreatedCloneable
<1>9. r = [SetInitialLocation(w, t.source) EXCEPT !.initialCondition = {Glued}]
  BY DEF initialize
<1> HIDE DEF w, d, t, r
<1>10. /\ r.inputActions = w.inputActions /\ r.outputActions = w.outputActions
       /\ r.internalActions = w.internalActions /\ r.transitions = w.transitions
  BY <1>8, <1>9 DEF SetInitialLocation, Model
<1>11. Declared(r, m1, m2)
  BY <1>4, <1>8, <1>10 DEF Declared
<1>12. Cloneable(r)
  BY <1>8, <1>10 DEF Cloneable, Recoverable, NamesOfType
<1> QED
  BY <1>11, <1>12 DEF r

-----------------------------------------------------------------------------
(* The stack.                                                              *)

(* A call of parComposition for a reached pair keeps every active pair     *)
(* reached.                                                                *)
LEMMA InvokeEntered ==
    ASSUME NEW c1, NEW c2, NEW l1, NEW l2, Reached(c1, l1), Reached(c2, l2),
           NEW rest \in Seq(Frame), l1 \in Label, l2 \in Label,
           Entered(rest, c1, c2), Invoke(l1, l2, rest)
    PROVE  Entered(stack', c1, c2)
<1>1. CASE Join(l1, l2) \in visitedLocations
  BY <1>1 DEF Invoke
<1>2. CASE Join(l1, l2) \notin visitedLocations
  <2> DEFINE f == [l1 |-> l1, l2 |-> l2, i |-> 1, j |-> 1, case |-> 1]
  <2>1. f \in Frame /\ f.l1 = l1 /\ f.l2 = l2
    BY DEF Frame
  <2>2. stack' = <<f>> \o rest
    BY <1>2 DEF Invoke
  <2> HIDE DEF f
  <2>3. <<f>> \in Seq(Frame) /\ Len(<<f>>) = 1 /\ <<f>>[1] = f
    BY <2>1
  <2>4. \A i \in DOMAIN stack' : stack'[i] = f \/ \E k \in DOMAIN rest : stack'[i] = rest[k]
    <3>1. /\ Len(rest) \in Nat /\ DOMAIN rest = 1..Len(rest)
          /\ DOMAIN stack' = 1..(Len(rest) + 1)
          /\ stack'[1] = f
          /\ \A k \in 1..Len(rest) : stack'[k + 1] = rest[k]
      BY <2>2, <2>3, ConcatProperties, LenProperties
    <3>2. \A i \in DOMAIN stack' : i = 1 \/ (i - 1 \in DOMAIN rest /\ stack'[i] = rest[i - 1])
      BY <3>1
    <3> QED
      BY <3>1, <3>2
  <2> QED
    BY <2>1, <2>4 DEF Entered
<1> QED
  BY <1>1, <1>2

(* The pair of the top frame is reached, and what t1 and t2 lead to is.    *)
LEMMA TopReached ==
    ASSUME IInv, JInv, InBody
    PROVE  /\ Carries(tiosts1) /\ Carries(tiosts2)
           /\ Declared(result, tiosts1, tiosts2)
           /\ Cloneable(result) /\ Entered(stack, tiosts1, tiosts2)
           /\ Reached(tiosts1, Top.l1) /\ Reached(tiosts2, Top.l2)
           /\ T1 \in tiosts1.transitions /\ Recoverable(tiosts1, T1.action)
           /\ T2 \in tiosts2.transitions /\ Recoverable(tiosts2, T2.action)
           /\ T1.source = Top.l1 /\ T2.source = Top.l2
           /\ Reached(tiosts1, T1.target) /\ Reached(tiosts2, T2.target)
<1>1. /\ Composing /\ Prepared /\ stack # <<>> /\ stack \in Seq(Frame)
      /\ Top.l1 \in tiosts1.locations /\ Top.l2 \in tiosts2.locations
      /\ T1 \in From(tiosts1, Top.l1) /\ T2 \in From(tiosts2, Top.l2)
  BY TopFacts
<1>2. /\ Carries(tiosts1) /\ Carries(tiosts2)
      /\ Declared(result, tiosts1, tiosts2)
      /\ Cloneable(result) /\ Entered(stack, tiosts1, tiosts2)
  BY <1>1 DEF JInv
<1>3. Top = stack[1] /\ 1 \in DOMAIN stack
  BY <1>1, HeadTailProperties, EmptySeq DEF Top
<1>4. Reached(tiosts1, Top.l1) /\ Reached(tiosts2, Top.l2)
  BY <1>2, <1>3 DEF Entered
<1>5. /\ T1 \in tiosts1.transitions /\ Recoverable(tiosts1, T1.action)
      /\ T1.source = Top.l1
  <2>1. PICK i \in DOMAIN tiosts1.out[Top.l1] : T1 = tiosts1.out[Top.l1][i]
    BY <1>1 DEF From, Range
  <2> QED
    BY <1>1, <1>2, <2>1 DEF Carries, Prepared, CloneOf
<1>6. /\ T2 \in tiosts2.transitions /\ Recoverable(tiosts2, T2.action)
      /\ T2.source = Top.l2
  <2>1. PICK j \in DOMAIN tiosts2.out[Top.l2] : T2 = tiosts2.out[Top.l2][j]
    BY <1>1 DEF From, Range
  <2> QED
    BY <1>1, <1>2, <2>1 DEF Carries, Prepared, CloneOf
<1> QED
  BY <1>2, <1>4, <1>5, <1>6 DEF Reached

-----------------------------------------------------------------------------
(* When an action is found in the result.                                  *)

(* An action of the initial transition on a transition out of a reached    *)
(* location comes again: elsewhere, or by a way back.                      *)
LEMMA InitialActionRepeats ==
    ASSUME NEW c, NEW t \in c.transitions, Reached(c, t.source),
           t.action.name = InitialOf(c).action.name
    PROVE  RepeatsInitialAction(c)
<1>1. CASE t.source # c.initialLocation
  BY <1>1 DEF RepeatsInitialAction
<1>2. CASE t.source = c.initialLocation
  BY <1>2 DEF RepeatsInitialAction, Reached
<1> QED
  BY <1>1, <1>2

(* Case 1: the result finds an action of the first model, except the       *)
(* action of its initial transition.                                       *)
LEMMA FirstRecoverable ==
    ASSUME IInv, JInv, InBody, T1.action.name \in actionsT1,
           ~RepeatsInitialAction(tiosts1)
    PROVE  Recoverable(result, FirstAlone.action)
<1> DEFINE n == T1.action.name
           ty == T1.action.type
<1>1. /\ Declared(result, tiosts1, tiosts2)
      /\ T1 \in tiosts1.transitions /\ Recoverable(tiosts1, T1.action)
      /\ Reached(tiosts1, T1.source)
      /\ Prepared /\ T1 \in Transition
  BY TopReached, TopFacts
<1>2. FirstAlone.action = T1.action
  BY <1>1 DEF FirstAlone, Transition
<1>3. n \notin ActionNames(tiosts2)
  BY <1>1 DEF actionsT1, Prepared, CloneOf
<1>4. n # InitialOf(tiosts1).action.name
  BY <1>1, InitialActionRepeats
<1>5. n \in NamesOfType(tiosts1, ty)
  BY <1>1 DEF Recoverable
<1> HIDE DEF n, ty
<1>6. n \in NamesOfType(result, ty)
  <2>1. CASE ty = ACTION_INPUT
    BY <1>1, <1>3, <1>5, <2>1 DEF NamesOfType, Declared, ActionNames
  <2>2. CASE ty = ACTION_OUTPUT
    BY <1>1, <1>5, <2>2
       DEF NamesOfType, Declared, OutputActions, ACTION_INPUT, ACTION_OUTPUT
  <2>3. CASE ty \notin {ACTION_INPUT, ACTION_OUTPUT}
    BY <1>1, <1>4, <1>5, <2>3 DEF NamesOfType, Declared, InternalActions
  <2> QED
    BY <2>1, <2>2, <2>3
<1> QED
  BY <1>2, <1>6 DEF Recoverable, n, ty

(* Case 2: the same for the second model, whose inputs are also lost if it *)
(* sends them.                                                             *)
LEMMA SecondRecoverable ==
    ASSUME IInv, JInv, InBody, T2.action.name \in actionsT2,
           ~RepeatsInitialAction(tiosts2),
           tiosts2.inputActions \cap tiosts2.outputActions = {}
    PROVE  Recoverable(result, SecondAlone.action)
<1> DEFINE n == T2.action.name
           ty == T2.action.type
<1>1. /\ Declared(result, tiosts1, tiosts2)
      /\ T2 \in tiosts2.transitions /\ Recoverable(tiosts2, T2.action)
      /\ Reached(tiosts2, T2.source)
      /\ Prepared /\ T2 \in Transition
  BY TopReached, TopFacts
<1>2. SecondAlone.action = T2.action
  BY <1>1 DEF SecondAlone, Transition
<1>3. n \notin ActionNames(tiosts1)
  BY <1>1 DEF actionsT2, Prepared, CloneOf
<1>4. n # InitialOf(tiosts2).action.name
  BY <1>1, InitialActionRepeats
<1>5. n \in NamesOfType(tiosts2, ty)
  BY <1>1 DEF Recoverable
<1> HIDE DEF n, ty
<1>6. n \in NamesOfType(result, ty)
  <2>1. CASE ty = ACTION_INPUT
    BY <1>1, <1>3, <1>5, <2>1 DEF NamesOfType, Declared, OutputActions, ActionNames
  <2>2. CASE ty = ACTION_OUTPUT
    BY <1>1, <1>5, <2>2
       DEF NamesOfType, Declared, OutputActions, ACTION_INPUT, ACTION_OUTPUT
  <2>3. CASE ty \notin {ACTION_INPUT, ACTION_OUTPUT}
    BY <1>1, <1>4, <1>5, <2>3 DEF NamesOfType, Declared, InternalActions
  <2> QED
    BY <2>1, <2>2, <2>3
<1> QED
  BY <1>2, <1>6 DEF Recoverable, n, ty

(* Case 3: a synchronisation is an output of one of the two models.        *)
LEMMA BothRecoverable ==
    ASSUME IInv, JInv, InBody, canSynchronize(T1.action, T2.action)
    PROVE  Recoverable(result, Synchronized.action)
<1>1. /\ Declared(result, tiosts1, tiosts2)
      /\ Recoverable(tiosts1, T1.action) /\ Recoverable(tiosts2, T2.action)
  BY TopReached
<1>2. \E a \in {T1.action, T2.action} :
         /\ Synchronized.action = a /\ a.type = ACTION_OUTPUT
         /\ Recoverable(tiosts1, a) \/ Recoverable(tiosts2, a)
  BY <1>1 DEF canSynchronize, Synchronized, ACTION_INPUT, ACTION_OUTPUT
<1>3. PICK a \in {T1.action, T2.action} :
         /\ Synchronized.action = a /\ a.type = ACTION_OUTPUT
         /\ a.name \in tiosts1.outputActions \cup tiosts2.outputActions
  BY <1>2 DEF Recoverable, NamesOfType, ACTION_INPUT, ACTION_OUTPUT
<1> QED
  BY <1>1, <1>3
     DEF Declared, OutputActions, Recoverable, NamesOfType, ACTION_INPUT, ACTION_OUTPUT

-----------------------------------------------------------------------------
(* The steps.                                                              *)

(* A case that found its action and goes on at a reached pair preserves    *)
(* the second invariant.                                                   *)
LEMMA CreateDeclares ==
    ASSUME IInv, JInv, InBody, NEW t \in Transition,
           NEW l1 \in Label, NEW l2 \in Label,
           Reached(tiosts1, l1), Reached(tiosts2, l2), Create(t, l1, l2)
    PROVE  JInv'
<1>1. /\ UNCHANGED <<tiosts1, tiosts2, status>>
      /\ Recoverable(result, t.action)
      /\ result' = WithMove(result, t)
      /\ Invoke(l1, l2, Rest)
  BY DEF Create
<1>2. /\ Carries(tiosts1) /\ Carries(tiosts2)
      /\ Declared(result, tiosts1, tiosts2)
      /\ Cloneable(result) /\ Entered(stack, tiosts1, tiosts2)
  BY TopReached
<1>3. result \in Model /\ stack \in Seq(Frame) /\ stack # <<>> /\ status = "exploring"
  BY DEF IInv, TypeOK, InBody
<1>4. Declared(result', tiosts1, tiosts2) /\ Cloneable(result')
  BY <1>1, <1>2, <1>3, WithMoveDeclares, CreatedCloneable DEF Declared
<1>5. Rest \in Seq(Frame) /\ Entered(Rest, tiosts1, tiosts2)
  BY <1>2, <1>3, RestType DEF Entered
<1>6. Entered(stack', tiosts1, tiosts2)
  BY <1>1, <1>5, InvokeEntered
<1> QED
  BY <1>1, <1>2, <1>3, <1>4, <1>6 DEF JInv

(* The three cases of the loop body.                                       *)
LEMMA CasesDeclare ==
    ASSUME IInv, JInv, Case1 \/ Case2 \/ Case3
    PROVE  JInv'
<1>1. InBody
  BY DEF Case1, Case2, Case3
<1>2. /\ Top.l1 \in Label /\ Top.l2 \in Label
      /\ T1.target \in Label /\ T2.target \in Label
  BY <1>1, TopFacts
<1>3. /\ Reached(tiosts1, Top.l1) /\ Reached(tiosts2, Top.l2)
      /\ Reached(tiosts1, T1.target) /\ Reached(tiosts2, T2.target)
  BY <1>1, TopReached
<1>4. CASE Case1
  BY <1>1, <1>2, <1>3, <1>4, Case1Move, CreateDeclares DEF Creates
<1>5. CASE Case2
  BY <1>1, <1>2, <1>3, <1>5, Case2Move, CreateDeclares DEF Creates
<1>6. CASE Case3
  BY <1>1, <1>2, <1>3, <1>6, Case3Move, CreateDeclares DEF Creates
<1> QED
  BY <1>4, <1>5, <1>6

(* recoverAction throws only where the models let it.                      *)
LEMMA CrashDeclares ==
    ASSUME IInv, JInv, Crash
    PROVE  JInv'
<1>1. /\ InBody /\ CaseHolds /\ ~Recoverable(result, CaseMove.action)
      /\ status' = "crashed" /\ UNCHANGED <<tiosts1, tiosts2>>
  BY DEF Crash
<1>2. Undeclarable(tiosts1, tiosts2)
  <2>1. CASE Top.case = 1 /\ T1.action.name \in actionsT1
    BY <1>1, <2>1, FirstRecoverable DEF CaseMove, Undeclarable
  <2>2. CASE Top.case = 2 /\ T2.action.name \in actionsT2
    BY <1>1, <2>2, SecondRecoverable DEF CaseMove, Undeclarable
  <2>3. CASE Top.case = 3 /\ canSynchronize(T1.action, T2.action)
    BY <1>1, <2>3, BothRecoverable DEF CaseMove
  <2> QED
    BY <1>1, <2>1, <2>2, <2>3 DEF CaseHolds
<1> QED
  BY <1>1, <1>2 DEF JInv, Composing

(* A call starts with the lists initialize() wrote, at the targets of the  *)
(* two initial transitions.                                                *)
LEMMA CallDeclares ==
    ASSUME IInv, IInv', JInv, NEW p \in Pairs, Call(p[1], p[2])
    PROVE  JInv'
<1>1. /\ WellFormed(p[1]) /\ WellFormed(p[2])
      /\ tiosts1' \in Clones(p[1]) /\ tiosts2' \in Clones(p[2])
  BY PairsAssumption DEF Call
<1>2. CASE ~isCompatible(tiosts1', tiosts2')
  BY <1>2 DEF Call, JInv, Composing
<1>3. CASE isCompatible(tiosts1', tiosts2')
  <2> DEFINE c1 == tiosts1'
             c2 == tiosts2'
             l1 == InitialOf(c1).target
             l2 == InitialOf(c2).target
  <2>1. /\ status' = "exploring" /\ result' = initialize(c1, c2)
        /\ Invoke(l1, l2, <<>>)
    BY <1>3 DEF Call
  <2>2. Carries(c1) /\ Carries(c2)
    BY <1>1, CloneCarries
  <2>3. ASSUME NEW m, NEW c, CloneOf(m, c), Carries(c)
        PROVE  /\ Reached(c, InitialOf(c).target)
               /\ InitialOf(c) \in Transition
    <3>1. /\ c.initialLocation \in c.locations /\ c.transitions \subseteq Transition
          /\ c.out[c.initialLocation] \in Seq(Transition)
      BY <2>3 DEF CloneOf, Model
    <3>2. 1 \in DOMAIN c.out[c.initialLocation]
      BY <2>3, <3>1, LenProperties DEF CloneOf
    <3>3. InitialOf(c) \in c.transitions
      BY <2>3, <3>1, <3>2 DEF Carries, InitialOf
    <3> QED
      BY <3>1, <3>3 DEF Reached
  <2>4. /\ CloneOf(p[1], c1) /\ CloneOf(p[2], c2)
        /\ InitialOf(c1).action.name = InitialOf(p[1]).action.name
        /\ InitialOf(c2).action.name = InitialOf(p[2]).action.name
    BY <1>1, CloneShape DEF InitialOf
  <2>5. /\ Reached(c1, l1) /\ Reached(c2, l2)
        /\ InitialOf(c1) \in Transition /\ InitialOf(c2) \in Transition
    BY <2>2, <2>3, <2>4
  <2>6. InitialTransition(c1, c2) \in Transition
    <3>1. Disjoint(p[1], p[2])
      BY <1>3, <2>4 DEF isCompatible, Disjoint, CloneOf
    <3>2. [name |-> Join(InitialOf(c1).action.name, InitialOf(c2).action.name),
           type |-> ACTION_INTERNAL] \in Action
      BY <2>4, <3>1, PairsAssumption DEF Action, ActionType
    <3>3. /\ InitialOf(c1).source \in c1.locations /\ InitialOf(c1).target \in c1.locations
          /\ InitialOf(c2).source \in c2.locations /\ InitialOf(c2).target \in c2.locations
      <4>1. ASSUME NEW m, NEW c, CloneOf(m, c)
            PROVE  InitialOf(c).source \in c.locations /\ InitialOf(c).target \in c.locations
        <5>1. /\ c.initialLocation \in c.locations
              /\ c.out[c.initialLocation] \in Seq(Transition)
          BY <4>1 DEF CloneOf, Model
        <5>2. 1 \in DOMAIN c.out[c.initialLocation]
          BY <4>1, <5>1, LenProperties DEF CloneOf
        <5> QED
          BY <4>1, <5>1, <5>2 DEF CloneOf, InitialOf
      <4> QED
        BY <2>4, <4>1
    <3>4. /\ Join(InitialOf(c1).source, InitialOf(c2).source) \in Label
          /\ Join(InitialOf(c1).target, InitialOf(c2).target) \in Label
      BY <2>4, <3>1, <3>3, PairsAssumption DEF CloneOf
    <3> QED
      BY <2>5, <3>2, <3>4 DEF InitialTransition, Transition, Deadline
  <2>7. Declared(result', c1, c2) /\ Cloneable(result')
    BY <2>1, <2>4, <2>6, initializeDeclares DEF CloneOf
  <2>8. l1 \in Label /\ l2 \in Label
    BY <2>5 DEF Transition
  <2>9. Entered(stack', c1, c2)
    <3>1. <<>> \in Seq(Frame) /\ Entered(<<>>, c1, c2)
      BY EmptySeq DEF Entered
    <3> HIDE DEF c1, c2, l1, l2
    <3> QED
      BY <2>1, <2>5, <2>8, <3>1, InvokeEntered
  <2> QED
    BY <2>1, <2>2, <2>7, <2>9 DEF JInv
<1> QED
  BY <1>2, <1>3

(* Steps that only move the walk on, and steps that change nothing.        *)
LEMMA ControlDeclares ==
    ASSUME IInv, JInv, Skip \/ Leave \/ Return \/ UNCHANGED vars
    PROVE  JInv'
<1>1. UNCHANGED <<tiosts1, tiosts2, result>>
  BY DEF Skip, Leave, Return, vars
<1>2. Composing' => Composing
  BY DEF Skip, Leave, Return, InBody, vars, Composing
<1>3. status' = "crashed" => status = "crashed"
  BY DEF Skip, Leave, Return, InBody, vars
<1>4. Composing => Entered(stack', tiosts1, tiosts2)
  <2> SUFFICES ASSUME Composing PROVE Entered(stack', tiosts1, tiosts2)
    OBVIOUS
  <2>1. stack \in Seq(Frame) /\ Entered(stack, tiosts1, tiosts2)
    BY DEF IInv, TypeOK, JInv
  <2>2. CASE Skip
    BY <2>1, <2>2, RestType DEF Skip, InBody, Entered
  <2>3. CASE Leave
    <3>1. stack # <<>> /\ stack' = Tail(stack)
      BY <2>3 DEF Leave
    <3>2. /\ DOMAIN stack' = 1..(Len(stack) - 1)
          /\ DOMAIN stack = 1..Len(stack) /\ Len(stack) \in Nat
          /\ \A i \in DOMAIN stack' : stack'[i] = stack[i + 1]
      BY <2>1, <3>1, HeadTailProperties, LenProperties
    <3>3. \A i \in DOMAIN stack' : i + 1 \in DOMAIN stack
      BY <3>2
    <3> QED
      BY <2>1, <3>2, <3>3 DEF Entered
  <2>4. CASE Return \/ UNCHANGED vars
    BY <2>1, <2>4 DEF Return, vars
  <2> QED
    BY <2>2, <2>3, <2>4
<1> QED
  BY <1>1, <1>2, <1>3, <1>4 DEF JInv

-----------------------------------------------------------------------------
(* The theorems.                                                           *)

(* The declarations of the result fit what the walk creates, at every step *)
(* of every call.                                                          *)
THEOREM DeclaredInvariance == Spec => []JInv
<1>1. Init => JInv
  BY DEF Init, JInv, Composing
<1>2. IInv /\ IInv' /\ JInv /\ [Next]_vars => JInv'
  <2> SUFFICES ASSUME IInv, IInv', JInv, [Next]_vars PROVE JInv'
    OBVIOUS
  <2>1. CASE \E p \in Pairs : Call(p[1], p[2])
    BY <2>1, CallDeclares
  <2>2. CASE Case1 \/ Case2 \/ Case3
    BY <2>2, CasesDeclare
  <2>3. CASE Crash
    BY <2>3, CrashDeclares
  <2>4. CASE Skip \/ Leave \/ Return \/ UNCHANGED vars
    BY <2>4, ControlDeclares
  <2> QED
    BY <2>1, <2>2, <2>3, <2>4 DEF Next, Walk
<1> QED
  BY <1>1, <1>2, Invariance, PTL DEF Spec

(* Whatever is composed, clone() of the composition finds the action of    *)
(* every transition, during the call and after it.                         *)
THEOREM ResultsCloneable == Spec => []ResultCloneable
<1>1. JInv => ResultCloneable
  BY DEF JInv, ResultCloneable
<1> QED
  BY <1>1, DeclaredInvariance, PTL

(* parallelComposition throws for no other models than those in which the  *)
(* initial action can come again, or the second receives what it sends.    *)
THEOREM CrashesOnlyOnUndeclared == Spec => []CrashOnlyOnUndeclared
<1>1. JInv => CrashOnlyOnUndeclared
  BY DEF JInv, Undeclarable, CrashOnlyOnUndeclared
<1> QED
  BY <1>1, DeclaredInvariance, PTL

-----------------------------------------------------------------------------
(* What the lists and the map of a composition hold.                       *)
(*                                                                         *)
(* A third invariant: the map of the result has what its lists have.  It   *)
(* rests on the keys: those of the clones are distinct, so that the key of *)
(* a move tells of which transitions it is made, and the initial action    *)
(* has a name that no move of the initial pair has.                        *)

\* The map of a clone has one transition per key, and the initial action is
\* the only one that leaves the initial location.
Keyed(c) ==
    /\ \A t, u \in c.transitions : Key(t) = Key(u) => t = u
    /\ \A t \in c.transitions :
          t.source = c.initialLocation => t.action = InitialOf(c).action

NewName(c1, c2) ==
    InitialTransition(c1, c2).action.name
        \notin {InitialOf(c1).action.name, InitialOf(c2).action.name}

\* The map has nothing else than the lists of the declared locations.
MapListed(r) ==
    /\ \A t \in r.transitions : t \in Range(r.out[t.source])
    /\ \A x \in Label : r.out[x] # <<>> => x \in r.locations

ListsMapped(r) == \A x \in Label : Range(r.out[x]) \subseteq r.transitions

KInv ==
    Composing =>
        /\ Keyed(tiosts1) /\ Keyed(tiosts2) /\ NewName(tiosts1, tiosts2)
        /\ MapListed(result)
        /\ PairsDistinct => ListsMapped(result)

(* A transition that a clone lists.                                        *)
LEMMA FromClone ==
    ASSUME NEW m, NEW c, CloneOf(m, c), Carries(c), NEW l \in c.locations,
           NEW t \in From(c, l)
    PROVE  /\ t \in c.transitions /\ t \in Transition
           /\ t.source = l /\ t.target \in c.locations
           /\ t.action.name \in ActionNames(c)
<1>1. PICK i \in DOMAIN c.out[l] : t = c.out[l][i]
  BY DEF From, Range
<1>2. /\ t \in c.transitions /\ Recoverable(c, t.action)
      /\ t.source = l /\ t.target \in c.locations
  BY <1>1 DEF Carries, CloneOf
<1>3. c.transitions \subseteq Transition
  BY DEF CloneOf, Model
<1>4. t.action.name \in ActionNames(c)
  BY <1>2 DEF Recoverable, NamesOfType, ActionNames
<1> QED
  BY <1>2, <1>3, <1>4

\* t is a move of <<l1, l2>>: of a, of b, or of both.
ByFirst(t, l1, l2, a) ==
    /\ a \in From(tiosts1, l1) /\ a.action.name \notin ActionNames(tiosts2)
    /\ t = [a EXCEPT !.source = Join(l1, l2), !.target = Join(a.target, l2)]
    /\ t.source = Join(l1, l2) /\ t.target = Join(a.target, l2) /\ t.action = a.action

BySecond(t, l1, l2, b) ==
    /\ b \in From(tiosts2, l2) /\ b.action.name \notin ActionNames(tiosts1)
    /\ t = [b EXCEPT !.source = Join(l1, l2), !.target = Join(l1, b.target)]
    /\ t.source = Join(l1, l2) /\ t.target = Join(l1, b.target) /\ t.action = b.action

ByBoth(t, l1, l2, a, b) ==
    /\ a \in From(tiosts1, l1) /\ b \in From(tiosts2, l2)
    /\ a.action.name = b.action.name
    /\ t = Together(l1, l2, a, b)
    /\ t.source = Join(l1, l2) /\ t.target = Join(a.target, b.target)
    /\ t.action.name = a.action.name

(* A move of a pair is of one of the three kinds.                          *)
LEMMA MoveKinds ==
    ASSUME Prepared, Carries(tiosts1), Carries(tiosts2),
           NEW l1 \in tiosts1.locations, NEW l2 \in tiosts2.locations,
           NEW t \in Moves(tiosts1, tiosts2, l1, l2)
    PROVE  \/ \E a : ByFirst(t, l1, l2, a)
           \/ \E b : BySecond(t, l1, l2, b)
           \/ \E a, b : ByBoth(t, l1, l2, a, b)
<1>1. CASE t \in MovesOfFirst(tiosts1, tiosts2, l1, l2)
  <2>1. PICK a \in From(tiosts1, l1) :
           /\ a.action.name \notin ActionNames(tiosts2)
           /\ t = [a EXCEPT !.source = Join(l1, l2), !.target = Join(a.target, l2)]
    <3>1. PICK a \in {u \in From(tiosts1, l1) : u.action.name \notin ActionNames(tiosts2)} :
             t = [a EXCEPT !.source = Join(l1, l2), !.target = Join(a.target, l2)]
      BY <1>1 DEF MovesOfFirst
    <3> QED
      BY <3>1
  <2>2. a \in Transition
    BY FromClone DEF Prepared
  <2>3. t.source = Join(l1, l2) /\ t.target = Join(a.target, l2) /\ t.action = a.action
    BY <2>1, <2>2 DEF Transition
  <2> QED
    BY <2>1, <2>3 DEF ByFirst
<1>2. CASE t \in MovesOfSecond(tiosts1, tiosts2, l1, l2)
  <2>1. PICK b \in From(tiosts2, l2) :
           /\ b.action.name \notin ActionNames(tiosts1)
           /\ t = [b EXCEPT !.source = Join(l1, l2), !.target = Join(l1, b.target)]
    <3>1. PICK b \in {u \in From(tiosts2, l2) : u.action.name \notin ActionNames(tiosts1)} :
             t = [b EXCEPT !.source = Join(l1, l2), !.target = Join(l1, b.target)]
      BY <1>2 DEF MovesOfSecond
    <3> QED
      BY <3>1
  <2>2. b \in Transition
    BY FromClone DEF Prepared
  <2>3. t.source = Join(l1, l2) /\ t.target = Join(l1, b.target) /\ t.action = b.action
    BY <2>1, <2>2 DEF Transition
  <2> QED
    BY <2>1, <2>3 DEF BySecond
<1>3. CASE t \in MovesOfBoth(tiosts1, tiosts2, l1, l2)
  <2>1. PICK p \in From(tiosts1, l1) \X From(tiosts2, l2) :
           Complementary(p[1].action, p[2].action) /\ t = Together(l1, l2, p[1], p[2])
    BY <1>3 DEF MovesOfBoth
  <2>2. ByBoth(t, l1, l2, p[1], p[2])
    BY <2>1 DEF ByBoth, Together, Complementary
  <2> QED
    BY <2>2
<1> QED
  BY <1>1, <1>2, <1>3 DEF Moves

(* When the labels tell the pairs apart, a key tells which move it is.     *)
LEMMA MoveOfKey ==
    ASSUME Prepared, Carries(tiosts1), Carries(tiosts2), Keyed(tiosts1), Keyed(tiosts2),
           PairsDistinct,
           NEW l1 \in tiosts1.locations, NEW l2 \in tiosts2.locations,
           NEW t \in Moves(tiosts1, tiosts2, l1, l2),
           NEW k1 \in tiosts1.locations, NEW k2 \in tiosts2.locations,
           NEW u \in Moves(tiosts1, tiosts2, k1, k2),
           Key(t) = Key(u)
    PROVE  t = u
<1>1. /\ t.source = u.source /\ t.action.name = u.action.name /\ t.target = u.target
  BY DEF Key
<1>2. \A x1, y1 \in tiosts1.locations : \A x2, y2 \in tiosts2.locations :
         Join(x1, x2) = Join(y1, y2) => x1 = y1 /\ x2 = y2
  <2> SUFFICES ASSUME NEW x1 \in tiosts1.locations, NEW x2 \in tiosts2.locations,
                      NEW y1 \in tiosts1.locations, NEW y2 \in tiosts2.locations,
                      Join(x1, x2) = Join(y1, y2)
               PROVE  x1 = y1 /\ x2 = y2
    OBVIOUS
  <2>1. /\ <<x1, x2>> \in tiosts1.locations \X tiosts2.locations
        /\ <<y1, y2>> \in tiosts1.locations \X tiosts2.locations
    OBVIOUS
  <2> QED
    BY <2>1 DEF PairsDistinct, Apart
<1>3. /\ \/ \E a : ByFirst(t, l1, l2, a)
         \/ \E b : BySecond(t, l1, l2, b)
         \/ \E a, b : ByBoth(t, l1, l2, a, b)
      /\ \/ \E a : ByFirst(u, k1, k2, a)
         \/ \E b : BySecond(u, k1, k2, b)
         \/ \E a, b : ByBoth(u, k1, k2, a, b)
  BY MoveKinds
<1>4. t.source = Join(l1, l2) /\ u.source = Join(k1, k2)
  BY <1>3 DEF ByFirst, BySecond, ByBoth
<1>5. k1 = l1 /\ k2 = l2
  BY <1>1, <1>2, <1>4
<1>6. \A a \in From(tiosts1, l1) :
         /\ a \in tiosts1.transitions /\ a.source = l1 /\ a.target \in tiosts1.locations
         /\ a.action.name \in ActionNames(tiosts1)
  BY FromClone DEF Prepared
<1>7. \A b \in From(tiosts2, l2) :
         /\ b \in tiosts2.transitions /\ b.source = l2 /\ b.target \in tiosts2.locations
         /\ b.action.name \in ActionNames(tiosts2)
  BY FromClone DEF Prepared
<1>8. \A a, c \in From(tiosts1, l1) :
         (a.action.name = c.action.name /\ a.target = c.target) => a = c
  BY <1>6 DEF Keyed, Key
<1>9. \A b, d \in From(tiosts2, l2) :
         (b.action.name = d.action.name /\ b.target = d.target) => b = d
  BY <1>7 DEF Keyed, Key
<1>10. CASE \E a : ByFirst(t, l1, l2, a)
  <2>1. PICK a : ByFirst(t, l1, l2, a)
    BY <1>10
  <2>2. ASSUME NEW c, ByFirst(u, l1, l2, c)
        PROVE  t = u
    <3>1. a.target = c.target /\ a.action.name = c.action.name
      BY <1>1, <1>2, <1>6, <2>1, <2>2 DEF ByFirst
    <3>2. a = c
      BY <1>8, <2>1, <2>2, <3>1 DEF ByFirst
    <3> QED
      BY <2>1, <2>2, <3>2 DEF ByFirst
  <2>3. ASSUME NEW d, BySecond(u, l1, l2, d)
        PROVE  FALSE
    BY <1>1, <1>6, <2>1, <2>3 DEF ByFirst, BySecond
  <2>4. ASSUME NEW c, NEW d, ByBoth(u, l1, l2, c, d)
        PROVE  FALSE
    BY <1>1, <1>7, <2>1, <2>4 DEF ByFirst, ByBoth
  <2> QED
    BY <1>3, <1>5, <2>2, <2>3, <2>4
<1>11. CASE \E b : BySecond(t, l1, l2, b)
  <2>1. PICK b : BySecond(t, l1, l2, b)
    BY <1>11
  <2>2. ASSUME NEW c, ByFirst(u, l1, l2, c)
        PROVE  FALSE
    BY <1>1, <1>6, <2>1, <2>2 DEF ByFirst, BySecond
  <2>3. ASSUME NEW d, BySecond(u, l1, l2, d)
        PROVE  t = u
    <3>1. b.target = d.target /\ b.action.name = d.action.name
      BY <1>1, <1>2, <1>7, <2>1, <2>3 DEF BySecond
    <3>2. b = d
      BY <1>9, <2>1, <2>3, <3>1 DEF BySecond
    <3> QED
      BY <2>1, <2>3, <3>2 DEF BySecond
  <2>4. ASSUME NEW c, NEW d, ByBoth(u, l1, l2, c, d)
        PROVE  FALSE
    BY <1>1, <1>6, <2>1, <2>4 DEF BySecond, ByBoth
  <2> QED
    BY <1>3, <1>5, <2>2, <2>3, <2>4
<1>12. CASE \E a, b : ByBoth(t, l1, l2, a, b)
  <2>1. PICK a, b : ByBoth(t, l1, l2, a, b)
    BY <1>12
  <2>2. ASSUME NEW c, ByFirst(u, l1, l2, c)
        PROVE  FALSE
    BY <1>1, <1>7, <2>1, <2>2 DEF ByFirst, ByBoth
  <2>3. ASSUME NEW d, BySecond(u, l1, l2, d)
        PROVE  FALSE
    BY <1>1, <1>6, <2>1, <2>3 DEF BySecond, ByBoth
  <2>4. ASSUME NEW c, NEW d, ByBoth(u, l1, l2, c, d)
        PROVE  t = u
    <3>1. /\ a.action.name = c.action.name /\ b.action.name = d.action.name
          /\ a.target = c.target /\ b.target = d.target
      <4>1. Join(a.target, b.target) = Join(c.target, d.target)
        BY <1>1, <2>1, <2>4 DEF ByBoth
      <4>2. /\ a.target \in tiosts1.locations /\ c.target \in tiosts1.locations
            /\ b.target \in tiosts2.locations /\ d.target \in tiosts2.locations
        BY <1>6, <1>7, <2>1, <2>4 DEF ByBoth
      <4>3. a.target = c.target /\ b.target = d.target
        BY <1>2, <4>1, <4>2
      <4> QED
        BY <1>1, <2>1, <2>4, <4>3 DEF ByBoth
    <3>2. a = c /\ b = d
      BY <1>8, <1>9, <2>1, <2>4, <3>1 DEF ByBoth
    <3> QED
      BY <2>1, <2>4, <3>2 DEF ByBoth
  <2> QED
    BY <1>3, <1>5, <2>2, <2>3, <2>4
<1> QED
  BY <1>3, <1>10, <1>11, <1>12

(* The initial transition has a key of its own.                            *)
LEMMA InitialKey ==
    ASSUME Prepared, Carries(tiosts1), Carries(tiosts2), Keyed(tiosts1), Keyed(tiosts2),
           NewName(tiosts1, tiosts2), PairsDistinct,
           NEW l1 \in tiosts1.locations, NEW l2 \in tiosts2.locations,
           NEW u \in Moves(tiosts1, tiosts2, l1, l2)
    PROVE  Key(InitialTransition(tiosts1, tiosts2)) # Key(u)
<1> DEFINE t == InitialTransition(tiosts1, tiosts2)
<1> SUFFICES ASSUME Key(t) = Key(u) PROVE FALSE
  OBVIOUS
<1>1. t.source = u.source /\ t.action.name = u.action.name
  BY DEF Key
<1>2. ASSUME NEW m, NEW c, CloneOf(m, c)
      PROVE  c.initialLocation \in c.locations /\ InitialOf(c).source = c.initialLocation
  <2>1. /\ c.initialLocation \in c.locations /\ c.locations \subseteq Label
        /\ c.out[c.initialLocation] \in Seq(Transition)
    BY <1>2 DEF CloneOf, Model
  <2>2. 1 \in DOMAIN c.out[c.initialLocation]
    BY <1>2, <2>1, LenProperties DEF CloneOf
  <2> QED
    BY <1>2, <2>1, <2>2 DEF CloneOf, InitialOf
<1>3. t.source = Join(tiosts1.initialLocation, tiosts2.initialLocation)
  BY <1>2 DEF InitialTransition, Prepared
<1>4. \/ \E a : ByFirst(u, l1, l2, a)
      \/ \E b : BySecond(u, l1, l2, b)
      \/ \E a, b : ByBoth(u, l1, l2, a, b)
  BY MoveKinds
<1>5. u.source = Join(l1, l2)
  BY <1>4 DEF ByFirst, BySecond, ByBoth
<1>6. l1 = tiosts1.initialLocation /\ l2 = tiosts2.initialLocation
  <2>1. /\ <<l1, l2>> \in tiosts1.locations \X tiosts2.locations
        /\ <<tiosts1.initialLocation, tiosts2.initialLocation>>
              \in tiosts1.locations \X tiosts2.locations
    BY <1>2 DEF Prepared
  <2> QED
    BY <1>1, <1>3, <1>5, <2>1 DEF PairsDistinct, Apart
<1>7. \A a \in From(tiosts1, l1) : a.action = InitialOf(tiosts1).action
  BY <1>6, FromClone DEF Prepared, Keyed
<1>8. \A b \in From(tiosts2, l2) : b.action = InitialOf(tiosts2).action
  BY <1>6, FromClone DEF Prepared, Keyed
<1>9. u.action.name \in {InitialOf(tiosts1).action.name, InitialOf(tiosts2).action.name}
  BY <1>4, <1>7, <1>8 DEF ByFirst, BySecond, ByBoth
<1> QED
  BY <1>1, <1>9 DEF NewName

(* Two sound transitions of a result with one key are the same.            *)
LEMMA SoundKey ==
    ASSUME Prepared, Carries(tiosts1), Carries(tiosts2), Keyed(tiosts1), Keyed(tiosts2),
           NewName(tiosts1, tiosts2), PairsDistinct,
           NEW t, NEW u, SoundMove(t), SoundMove(u), Key(t) = Key(u)
    PROVE  t = u
  BY InitialKey, MoveOfKey DEF SoundMove

(* What WithMove changes.                                                  *)
LEMMA MoveAdded ==
    ASSUME NEW m \in Model, NEW t \in Transition
    PROVE  /\ WithMove(m, t) \in Model
           /\ WithMove(m, t).locations = m.locations \cup {t.source, t.target}
           /\ WithMove(m, t).transitions = Put(m.transitions, t)
           /\ \A x \in Label :
                 Range(WithMove(m, t).out[x]) = IF x = t.source THEN Range(m.out[x]) \cup {t}
                                                ELSE Range(m.out[x])
           /\ \A x \in Label : x # t.source => WithMove(m, t).out[x] = m.out[x]
<1>1. \A x \in Label :
         WithMove(m, t).out[x] = IF x = t.source THEN Append(m.out[x], t) ELSE m.out[x]
  BY WithMoveType
<1>2. ASSUME NEW q \in Seq(Transition)
      PROVE  Range(Append(q, t)) = Range(q) \cup {t}
  BY AppendProperties, LenProperties DEF Range
<1>3. \A x \in Label : m.out[x] \in Seq(Transition)
  BY DEF Model
<1>4. \A x \in Label :
         Range(WithMove(m, t).out[x]) = IF x = t.source THEN Range(m.out[x]) \cup {t}
                                        ELSE Range(m.out[x])
  BY <1>1, <1>2, <1>3
<1>5. WithMove(m, t).locations = m.locations \cup {t.source, t.target}
  BY DEF WithMove, AddLocation, CreateTransition, Model, Transition
<1> QED
  BY <1>1, <1>4, <1>5, WithMoveType, WithMoveDeclares

(* A case that creates a move.                                             *)
LEMMA CreateKeeps ==
    ASSUME IInv, JInv, KInv, NEW t, NEW l1, NEW l2, Creates(t, l1, l2)
    PROVE  KInv'
<1>1. /\ UNCHANGED <<tiosts1, tiosts2, status>> /\ Composing
      /\ result' = WithMove(result, t) /\ t \in Transition /\ SoundMove(t)
  BY DEF Creates, Create, InBody, Composing
<1>2. /\ Prepared /\ Carries(tiosts1) /\ Carries(tiosts2)
      /\ Keyed(tiosts1) /\ Keyed(tiosts2) /\ NewName(tiosts1, tiosts2)
      /\ MapListed(result) /\ AllSound /\ result \in Model
  BY <1>1 DEF IInv, JInv, KInv, TypeOK
<1>3. /\ result'.locations = result.locations \cup {t.source, t.target}
      /\ result'.transitions = Put(result.transitions, t)
  BY <1>1, <1>2, MoveAdded
<1>4. \A x \in Label : Range(result'.out[x]) = IF x = t.source THEN Range(result.out[x]) \cup {t}
                                               ELSE Range(result.out[x])
  <2>1. \A x \in Label : Range(WithMove(result, t).out[x]) =
                            IF x = t.source THEN Range(result.out[x]) \cup {t}
                            ELSE Range(result.out[x])
    BY <1>1, <1>2, MoveAdded
  <2> QED
    BY <1>1, <2>1
<1>5. \A x \in Label : x # t.source => result'.out[x] = result.out[x]
  BY <1>1, <1>2, MoveAdded
<1>6. MapListed(result')
  <2>1. ASSUME NEW u \in result'.transitions
        PROVE  u \in Range(result'.out[u.source])
    <3>1. u = t \/ u \in result.transitions
      BY <1>3 DEF Put
    <3>2. t.source \in Label /\ \A w \in result.transitions : w.source \in Label
      BY <1>1, <1>2 DEF Transition, Model
    <3> QED
      BY <1>2, <1>4, <3>1, <3>2 DEF MapListed
  <2>2. \A x \in Label : result'.out[x] # <<>> => x \in result'.locations
    BY <1>2, <1>3, <1>5 DEF MapListed
  <2> QED
    BY <2>1, <2>2 DEF MapListed
<1>7. ASSUME PairsDistinct PROVE ListsMapped(result')
  <2> SUFFICES ASSUME NEW x \in Label, NEW u \in Range(result'.out[x])
               PROVE  u \in result'.transitions
    BY DEF ListsMapped
  <2>1. CASE u = t
    BY <1>3, <2>1 DEF Put
  <2>2. CASE u # t
    <3>1. u \in Range(result.out[x])
      BY <1>4, <2>2
    <3>2. u \in result.transitions /\ SoundMove(u)
      BY <1>1, <1>2, <1>7, <3>1 DEF KInv, ListsMapped, AllSound, Range
    <3>3. Key(u) # Key(t)
      BY <1>1, <1>2, <1>7, <2>2, <3>2, SoundKey
    <3> QED
      BY <1>3, <3>2, <3>3 DEF Put
  <2> QED
    BY <2>1, <2>2
<1>8. PairsDistinct' <=> PairsDistinct
  BY <1>1 DEF PairsDistinct, Apart
<1> QED
  BY <1>1, <1>2, <1>6, <1>7, <1>8 DEF KInv

(* What initialize() puts into an empty result.                            *)
LEMMA initializeLists ==
    ASSUME NEW m1 \in Model, NEW m2 \in Model,
           InitialTransition(m1, m2) \in Transition
    PROVE  LET t == InitialTransition(m1, m2)
               r == initialize(m1, m2)
           IN  /\ r.transitions = {t}
               /\ t.source \in r.locations
               /\ \A x \in Label : Range(r.out[x]) = IF x = t.source THEN {t} ELSE {}
               /\ \A x \in Label : x # t.source => r.out[x] = <<>>
<1> DEFINE t == InitialTransition(m1, m2)
           d == Declarations(m1, m2)
           w == WithMove(d, t)
           r == initialize(m1, m2)
<1>1. t.action.name \in Name
  BY DEF Transition, Action
<1>2. EmptyTIOSTS \in Model
  BY EmptySeq DEF EmptyTIOSTS, Model
<1>3. d \in Model /\ d.out = [l \in Label |-> <<>>] /\ d.transitions = {}
  <2>1. /\ OutputActions(m1, m2) \subseteq Name
        /\ InternalActions(m1, m2) \subseteq Name
    BY <1>1 DEF OutputActions, InternalActions, Model
  <2> QED
    BY <1>2, <2>1 DEF Declarations, Model, EmptyTIOSTS
<1>4. r = [SetInitialLocation(w, t.source) EXCEPT !.initialCondition = {Glued}]
  BY DEF initialize
<1>5. t \in Transition
  OBVIOUS
<1> HIDE DEF d, t, r
<1>6. /\ w \in Model /\ w.locations = d.locations \cup {t.source, t.target}
      /\ w.transitions = Put(d.transitions, t)
  BY <1>3, <1>5, MoveAdded
<1>7. \A x \in Label : Range(w.out[x]) = IF x = t.source THEN Range(d.out[x]) \cup {t}
                                         ELSE Range(d.out[x])
  BY <1>3, <1>5, MoveAdded
<1>8. \A x \in Label : x # t.source => w.out[x] = d.out[x]
  BY <1>3, <1>5, MoveAdded
<1> HIDE DEF w
<1>9. /\ r.locations = w.locations /\ r.transitions = w.transitions /\ r.out = w.out
  BY <1>4, <1>6 DEF SetInitialLocation, Model
<1>10. r.transitions = {t}
  BY <1>3, <1>6, <1>9 DEF Put
<1>11. \A x \in Label : d.out[x] = <<>> /\ Range(d.out[x]) = {}
  BY <1>3 DEF Range
<1> QED
  BY <1>6, <1>7, <1>8, <1>9, <1>10, <1>11 DEF r, t

\* What a call starts with, when its arguments are compatible.
Started(p) ==
    /\ status' = "exploring" /\ result' = initialize(tiosts1', tiosts2')
    /\ Invoke(InitialOf(tiosts1').target, InitialOf(tiosts2').target, <<>>)
    /\ Keyed(tiosts1') /\ Keyed(tiosts2') /\ NewName(tiosts1', tiosts2')
    /\ tiosts1' \in Model /\ tiosts2' \in Model
    /\ InitialOf(tiosts1').target \in tiosts1'.locations
    /\ InitialOf(tiosts2').target \in tiosts2'.locations
    /\ InitialTransition(tiosts1', tiosts2') \in Transition

(* A call either starts so or refuses its arguments.                       *)
LEMMA CallStarts ==
    ASSUME IInv, NEW p \in Pairs, Call(p[1], p[2])
    PROVE  status' = "incompatible" \/ Started(p)
<1>1. /\ WellFormed(p[1]) /\ WellFormed(p[2])
      /\ tiosts1' \in Clones(p[1]) /\ tiosts2' \in Clones(p[2])
  BY PairsAssumption DEF Call
<1>2. CASE ~isCompatible(tiosts1', tiosts2')
  BY <1>2 DEF Call
<1>3. CASE isCompatible(tiosts1', tiosts2')
  <2> DEFINE c1 == tiosts1'
             c2 == tiosts2'
             a1 == InitialOf(c1).action.name
             a2 == InitialOf(c2).action.name
  <2>1. /\ CloneOf(p[1], c1) /\ CloneOf(p[2], c2)
        /\ a1 = InitialOf(p[1]).action.name
        /\ a2 = InitialOf(p[2]).action.name
    BY <1>1, CloneShape DEF InitialOf
  <2>2. Keyed(c1) /\ Keyed(c2)
    BY <1>1, CloneKeyed DEF Keyed, InitialOf
  <2>3. Disjoint(p[1], p[2])
    BY <1>3, <2>1 DEF isCompatible, Disjoint, CloneOf
  <2>4. /\ Join(a1, a2) \in Name /\ Join(a1, a2) # a1 /\ Join(a1, a2) # a2
        /\ \A l1 \in c1.locations, l2 \in c2.locations : Join(l1, l2) \in Label
    BY <2>1, <2>3, PairsAssumption DEF CloneOf
  <2>5. NewName(c1, c2)
    BY <2>4 DEF NewName, InitialTransition
  <2>6. ASSUME NEW m, NEW c, CloneOf(m, c)
        PROVE  /\ InitialOf(c) \in Transition /\ InitialOf(c).source \in c.locations
               /\ InitialOf(c).target \in c.locations /\ c \in Model
    <3>1. /\ c.locations \in SUBSET Label /\ c.initialLocation \in c.locations
          /\ c.out[c.initialLocation] \in Seq(Transition)
      BY <2>6 DEF CloneOf, Model
    <3>2. 1 \in DOMAIN c.out[c.initialLocation]
      BY <2>6, <3>1, LenProperties DEF CloneOf
    <3> QED
      BY <2>6, <3>1, <3>2, LenProperties DEF CloneOf, InitialOf
  <2>7. /\ InitialOf(c1) \in Transition /\ InitialOf(c2) \in Transition
        /\ InitialOf(c1).source \in c1.locations /\ InitialOf(c1).target \in c1.locations
        /\ InitialOf(c2).source \in c2.locations /\ InitialOf(c2).target \in c2.locations
        /\ c1 \in Model /\ c2 \in Model
    BY <2>1, <2>6
  <2>8. InitialTransition(c1, c2) \in Transition
    <3>1. [name |-> Join(a1, a2), type |-> ACTION_INTERNAL] \in Action
      BY <2>4 DEF Action, ActionType
    <3>2. /\ Join(InitialOf(c1).source, InitialOf(c2).source) \in Label
          /\ Join(InitialOf(c1).target, InitialOf(c2).target) \in Label
      BY <2>4, <2>7
    <3> QED
      BY <2>7, <3>1, <3>2 DEF InitialTransition, Transition, Deadline
  <2>9. /\ status' = "exploring" /\ result' = initialize(c1, c2)
        /\ Invoke(InitialOf(c1).target, InitialOf(c2).target, <<>>)
    BY <1>3 DEF Call
  <2> QED
    BY <2>2, <2>5, <2>7, <2>8, <2>9 DEF Started
<1> QED
  BY <1>2, <1>3

(* A call.                                                                 *)
LEMMA CallKeeps ==
    ASSUME IInv, NEW p \in Pairs, Call(p[1], p[2])
    PROVE  KInv'
<1>1. CASE status' = "incompatible"
  BY <1>1 DEF KInv, Composing
<1>2. CASE Started(p)
  <2> DEFINE t == InitialTransition(tiosts1', tiosts2')
             r == initialize(tiosts1', tiosts2')
  <2>1. tiosts1' \in Model /\ tiosts2' \in Model /\ t \in Transition /\ result' = r
    BY <1>2 DEF Started
  <2>2. r.transitions = {t} /\ t.source \in r.locations
    BY <2>1, initializeLists
  <2>3. \A x \in Label : Range(r.out[x]) = IF x = t.source THEN {t} ELSE {}
    BY <2>1, initializeLists
  <2>4. \A x \in Label : x # t.source => r.out[x] = <<>>
    BY <2>1, initializeLists
  <2>5. t.source \in Label
    BY <2>1 DEF Transition
  <2> HIDE DEF t, r
  <2>6. MapListed(result') /\ ListsMapped(result')
    BY <2>1, <2>2, <2>3, <2>4, <2>5 DEF MapListed, ListsMapped
  <2> QED
    BY <1>2, <2>6 DEF Started, KInv
<1> QED
  BY <1>1, <1>2, CallStarts

(* The map and the lists of a result agree, in every reachable state.      *)
THEOREM ListsInvariance == Spec => []KInv
<1>1. Init => KInv
  BY DEF Init, KInv, Composing
<1>2. IInv /\ JInv /\ KInv /\ [Next]_vars => KInv'
  <2> SUFFICES ASSUME IInv, JInv, KInv, [Next]_vars PROVE KInv'
    OBVIOUS
  <2>1. CASE \E p \in Pairs : Call(p[1], p[2])
    BY <2>1, CallKeeps
  <2>2. CASE Case1 \/ Case2 \/ Case3
    BY <2>2, CasesStep, CreateKeeps
  <2>3. CASE Crash
    BY <2>3 DEF Crash, KInv, Composing
  <2>4. CASE Skip \/ Leave \/ Return \/ UNCHANGED vars
    <3>1. UNCHANGED <<tiosts1, tiosts2, result>> /\ (Composing' => Composing)
      BY <2>4 DEF Skip, Leave, Return, InBody, vars, Composing
    <3>2. PairsDistinct' <=> PairsDistinct
      BY <3>1 DEF PairsDistinct, Apart
    <3> QED
      BY <3>1, <3>2 DEF KInv
  <2> QED
    BY <2>1, <2>2, <2>3, <2>4 DEF Next, Walk
<1> QED
  BY <1>1, <1>2, Invariance, DeclaredInvariance, PTL DEF Spec

(* When the labels tell the pairs apart, no move that the loop body        *)
(* creates replaces another one in the map, whatever the two models and    *)
(* however often a move is created again.                                  *)
THEOREM NothingIsOverwritten == Spec => []NothingOverwritten
<1>1. IInv /\ KInv => NothingOverwritten
  <2> SUFFICES ASSUME IInv, KInv, Composing, PairsDistinct
               PROVE  OutTransitions(result) = result.transitions
    BY DEF NothingOverwritten
  <2>1. result \in Model /\ MapListed(result) /\ ListsMapped(result)
    BY DEF IInv, TypeOK, KInv
  <2>2. OutTransitions(result) \subseteq result.transitions
    BY <2>1 DEF OutTransitions, ListsMapped, Model
  <2>3. ASSUME NEW t \in result.transitions PROVE t \in OutTransitions(result)
    <3>1. t.source \in Label /\ t \in Range(result.out[t.source])
      BY <2>1 DEF MapListed, Model, Transition
    <3>2. result.out[t.source] # <<>>
      BY <3>1 DEF Range
    <3> QED
      BY <2>1, <3>1, <3>2 DEF MapListed, OutTransitions
  <2> QED
    BY <2>2, <2>3
<1> QED
  BY <1>1, Invariance, ListsInvariance, PTL

-----------------------------------------------------------------------------
(* What the walk of a first call leaves behind.                            *)
(*                                                                         *)
(* A fourth invariant.  An active call has created what it got past, a     *)
(* visited pair is active or has been gone through, and the target of      *)
(* every created transition was visited.                                   *)

\* The move of the k-th case for the i-th and the j-th transition is listed.
Got(r, c1, c2, l1, l2, i, j, k) ==
    LET a == c1.out[l1][i]
        b == c2.out[l2][j]
    IN  /\ (k = 1 /\ a.action.name \notin ActionNames(c2))
              => AloneFirst(l1, l2, a) \in Range(r.out[Join(l1, l2)])
        /\ (k = 2 /\ b.action.name \notin ActionNames(c1))
              => AloneSecond(l1, l2, b) \in Range(r.out[Join(l1, l2)])
        /\ (k = 3 /\ Complementary(a.action, b.action))
              => Together(l1, l2, a, b) \in Range(r.out[Join(l1, l2)])

Before(f, i, j, k) ==
    i < f.i \/ (i = f.i /\ (j < f.j \/ (j = f.j /\ k < f.case)))

Tried(r, c1, c2, f) ==
    \A i \in DOMAIN c1.out[f.l1], j \in DOMAIN c2.out[f.l2], k \in 1..3 :
        Before(f, i, j, k) => Got(r, c1, c2, f.l1, f.l2, i, j, k)

Explored(r, c1, c2, l1, l2) ==
    \A i \in DOMAIN c1.out[l1], j \in DOMAIN c2.out[l2], k \in 1..3 :
        Got(r, c1, c2, l1, l2, i, j, k)

Active(q, l1, l2) == \E f \in Range(q) : f.l1 = l1 /\ f.l2 = l2

\* The inner loop never runs past its list, unless that is empty.
Counted(c2, f) == f.j = 1 \/ f.j <= Len(c2.out[f.l2])

\* Every active call has tried what it got past.
AllTried(r, q, c1, c2) == \A f \in Range(q) : Tried(r, c1, c2, f) /\ Counted(c2, f)

AllVisited(r, q, v, c1, c2) ==
    \A l1 \in c1.locations, l2 \in c2.locations :
        Join(l1, l2) \in v => Explored(r, c1, c2, l1, l2) \/ Active(q, l1, l2)

TargetsIn(r, v) == \A x \in Label : \A t \in Range(r.out[x]) : t.target \in v

LInv ==
    /\ calls = 0 => visitedLocations = {} /\ status = "idle"
    /\ (Composing /\ calls = 1 /\ PairsDistinct) =>
          /\ AllTried(result, stack, tiosts1, tiosts2)
          /\ AllVisited(result, stack, visitedLocations, tiosts1, tiosts2)
          /\ TargetsIn(result, visitedLocations)

(* What is on a stack: the top and the rest.                               *)
LEMMA OnStack ==
    ASSUME NEW q \in Seq(Frame)
    PROVE  /\ q # <<>> => Range(q) = {Head(q)} \cup Range(Tail(q))
           /\ \A f \in Frame : Range(<<f>> \o q) = {f} \cup Range(q)
<1>1. ASSUME NEW f \in Frame
      PROVE  Range(<<f>> \o q) = {f} \cup Range(q)
  <2>1. <<f>> \in Seq(Frame) /\ Len(<<f>>) = 1 /\ <<f>>[1] = f
    OBVIOUS
  <2> DEFINE s == <<f>> \o q
  <2>2. /\ Len(q) \in Nat /\ DOMAIN q = 1..Len(q)
        /\ DOMAIN s = 1..(Len(q) + 1) /\ s[1] = f
        /\ \A n \in 1..Len(q) : s[n + 1] = q[n]
    BY <2>1, ConcatProperties, LenProperties
  <2> HIDE DEF s
  <2>3. \A n \in DOMAIN s : n = 1 \/ (n - 1 \in DOMAIN q /\ s[n] = q[n - 1])
    BY <2>2
  <2>4. 1 \in DOMAIN s /\ \A n \in DOMAIN q : n + 1 \in DOMAIN s /\ s[n + 1] = q[n]
    BY <2>2
  <2>5. Range(s) = {f} \cup Range(q)
    BY <2>2, <2>3, <2>4 DEF Range
  <2> QED
    BY <2>5 DEF s
<1>2. ASSUME q # <<>>
      PROVE  Range(q) = {Head(q)} \cup Range(Tail(q))
  <2>1. /\ Len(q) \in Nat \ {0} /\ DOMAIN q = 1..Len(q)
        /\ Head(q) = q[1] /\ DOMAIN Tail(q) = 1..(Len(q) - 1)
        /\ \A n \in 1..(Len(q) - 1) : Tail(q)[n] = q[n + 1]
    BY <1>2, HeadTailProperties, LenProperties, EmptySeq
  <2>2. \A n \in DOMAIN q : n = 1 \/ (n - 1 \in DOMAIN Tail(q) /\ Tail(q)[n - 1] = q[n])
    BY <2>1
  <2>3. 1 \in DOMAIN q /\ \A n \in DOMAIN Tail(q) : n + 1 \in DOMAIN q /\ Tail(q)[n] = q[n + 1]
    BY <2>1
  <2>4. Head(q) = q[1]
    BY <2>1
  <2> DEFINE t == Tail(q)
             h == Head(q)
  <2>5. /\ \A n \in DOMAIN q : n = 1 \/ (n - 1 \in DOMAIN t /\ t[n - 1] = q[n])
        /\ 1 \in DOMAIN q /\ \A n \in DOMAIN t : n + 1 \in DOMAIN q /\ t[n] = q[n + 1]
        /\ h = q[1]
    BY <2>2, <2>3, <2>4
  <2> HIDE DEF t, h
  <2>6. Range(q) = {h} \cup Range(t)
    BY <2>5 DEF Range
  <2> QED
    BY <2>6 DEF t, h
<1> QED
  BY <1>1, <1>2

(* Lists that grow keep the moves they have.                               *)
LEMMA GotGrows ==
    ASSUME NEW r, NEW s, \A x \in Label : Range(r.out[x]) \subseteq Range(s.out[x]),
           NEW c1, NEW c2, \A l1 \in c1.locations, l2 \in c2.locations : Join(l1, l2) \in Label
    PROVE  /\ \A f : (f.l1 \in c1.locations /\ f.l2 \in c2.locations /\ Tried(r, c1, c2, f))
                        => Tried(s, c1, c2, f)
           /\ \A l1 \in c1.locations, l2 \in c2.locations :
                 Explored(r, c1, c2, l1, l2) => Explored(s, c1, c2, l1, l2)
<1>1. \A l1 \in c1.locations, l2 \in c2.locations :
         \A i, j, k : Got(r, c1, c2, l1, l2, i, j, k) => Got(s, c1, c2, l1, l2, i, j, k)
  <2> SUFFICES ASSUME NEW l1 \in c1.locations, NEW l2 \in c2.locations, NEW i, NEW j, NEW k,
                      Got(r, c1, c2, l1, l2, i, j, k)
               PROVE  Got(s, c1, c2, l1, l2, i, j, k)
    OBVIOUS
  <2>1. Range(r.out[Join(l1, l2)]) \subseteq Range(s.out[Join(l1, l2)])
    OBVIOUS
  <2> QED
    BY <2>1 DEF Got
<1> QED
  BY <1>1 DEF Tried, Explored

(* A call that begins has got past nothing.                                *)
LEMMA BeginTried ==
    ASSUME NEW r, NEW c1 \in Model, NEW c2 \in Model, NEW l1 \in c1.locations, NEW l2 \in c2.locations
    PROVE  LET f == [l1 |-> l1, l2 |-> l2, i |-> 1, j |-> 1, case |-> 1]
           IN  f \in Frame /\ Tried(r, c1, c2, f) /\ Counted(c2, f)
<1> DEFINE f == [l1 |-> l1, l2 |-> l2, i |-> 1, j |-> 1, case |-> 1]
<1>1. l1 \in Label /\ l2 \in Label
  BY DEF Model
<1>2. f \in Frame
  BY <1>1 DEF Frame
<1>3. c1.out[l1] \in Seq(Transition) /\ c2.out[l2] \in Seq(Transition)
  BY <1>1 DEF Model
<1>4. ASSUME NEW i \in DOMAIN c1.out[l1], NEW j \in DOMAIN c2.out[l2], NEW k \in 1..3
      PROVE  ~Before(f, i, j, k)
  <2>1. i \in Nat \ {0} /\ j \in Nat \ {0} /\ k \in Nat \ {0}
    BY <1>3
  <2> QED
    BY <2>1 DEF Before
<1>5. Tried(r, c1, c2, f)
  BY <1>4 DEF Tried
<1> QED
  BY <1>2, <1>5 DEF Counted

(* The active call that is on top.                                         *)
LEMMA TopFrame ==
    ASSUME stack \in Seq(Frame), stack # <<>>
    PROVE  /\ Top \in Frame
           /\ Top.i \in Nat \ {0} /\ Top.j \in Nat \ {0} /\ Top.case \in 1..3
           /\ Top.l1 \in Label /\ Top.l2 \in Label
<1>1. Top = stack[1] /\ 1 \in DOMAIN stack /\ Top \in Frame
  BY HeadTailProperties, EmptySeq DEF Top
<1> QED
  BY <1>1 DEF Frame

(* One position further, when the move of this one is listed.              *)
LEMMA AdvanceTried ==
    ASSUME IInv, InBody, NEW r, Tried(r, tiosts1, tiosts2, Top),
           Got(r, tiosts1, tiosts2, Top.l1, Top.l2, Top.i, Top.j, Top.case)
    PROVE  Tried(r, tiosts1, tiosts2, Advance(Top)) /\ Counted(tiosts2, Advance(Top))
<1> DEFINE f == Top
           g == Advance(Top)
           n == Len(tiosts2.out[f.l2])
<1>1. /\ stack \in Seq(Frame) /\ stack # <<>>
      /\ Top.l1 \in Label /\ Top.l2 \in Label
  BY TopFacts
<1>2. f \in Frame /\ f.i \in Nat \ {0} /\ f.j \in Nat \ {0} /\ f.case \in 1..3
  BY <1>1, TopFrame
<1>3. /\ tiosts1.out[f.l1] \in Seq(Transition) /\ tiosts2.out[f.l2] \in Seq(Transition)
      /\ n \in Nat /\ DOMAIN tiosts2.out[f.l2] = 1..n /\ f.j <= n
      /\ \A i \in DOMAIN tiosts1.out[f.l1] : i \in Nat \ {0}
  <2>1. tiosts1.out[f.l1] \in Seq(Transition) /\ tiosts2.out[f.l2] \in Seq(Transition)
    BY <1>1 DEF IInv, TypeOK, Model
  <2> QED
    BY <2>1, LenProperties DEF InBody
<1>4. g \in Frame /\ g.l1 = f.l1 /\ g.l2 = f.l2
  BY <1>2, AdvanceType
<1>5. \/ f.case < 3 /\ g.case = f.case + 1 /\ g.i = f.i /\ g.j = f.j
      \/ f.case = 3 /\ f.j < n /\ g.case = 1 /\ g.i = f.i /\ g.j = f.j + 1
      \/ f.case = 3 /\ f.j = n /\ g.case = 1 /\ g.i = f.i + 1 /\ g.j = 1
  BY <1>2, <1>3 DEF Advance, Frame
<1> HIDE DEF f, g, n
<1>6. ASSUME NEW i \in DOMAIN tiosts1.out[f.l1], NEW j \in DOMAIN tiosts2.out[f.l2],
             NEW k \in 1..3, Before(g, i, j, k)
      PROVE  Before(f, i, j, k) \/ (i = f.i /\ j = f.j /\ k = f.case)
  <2>1. i \in Nat \ {0} /\ j \in 1..n
    BY <1>3
  <2> QED
    BY <1>2, <1>3, <1>5, <1>6, <2>1 DEF Before
<1>7. Tried(r, tiosts1, tiosts2, g)
  <2>1. \A i \in DOMAIN tiosts1.out[f.l1], j \in DOMAIN tiosts2.out[f.l2], k \in 1..3 :
           Before(g, i, j, k) => Got(r, tiosts1, tiosts2, f.l1, f.l2, i, j, k)
    BY <1>6 DEF Tried, f
  <2> QED
    BY <1>4, <2>1 DEF Tried
<1>8. Counted(tiosts2, g)
  BY <1>2, <1>3, <1>4, <1>5 DEF Counted, n
<1> QED
  BY <1>7, <1>8 DEF g

(* A call that is left has gone through its pair.                          *)
LEMMA LeftExplored ==
    ASSUME IInv, status = "exploring", stack # <<>>, ~InBody, NEW r,
           Tried(r, tiosts1, tiosts2, Top), Counted(tiosts2, Top)
    PROVE  Explored(r, tiosts1, tiosts2, Top.l1, Top.l2)
<1> SUFFICES ASSUME NEW i \in DOMAIN tiosts1.out[Top.l1], NEW j \in DOMAIN tiosts2.out[Top.l2],
                    NEW k \in 1..3
             PROVE  Got(r, tiosts1, tiosts2, Top.l1, Top.l2, i, j, k)
  BY DEF Explored
<1>1. stack \in Seq(Frame)
  BY DEF IInv, TypeOK
<1>2. Top \in Frame /\ Top.i \in Nat \ {0} /\ Top.j \in Nat \ {0}
      /\ Top.l1 \in Label /\ Top.l2 \in Label
  BY <1>1, TopFrame
<1>3. tiosts1.out[Top.l1] \in Seq(Transition) /\ tiosts2.out[Top.l2] \in Seq(Transition)
  BY <1>2 DEF IInv, TypeOK, Model
<1>4. /\ i \in 1..Len(tiosts1.out[Top.l1]) /\ j \in 1..Len(tiosts2.out[Top.l2])
      /\ Len(tiosts1.out[Top.l1]) \in Nat /\ Len(tiosts2.out[Top.l2]) \in Nat
  BY <1>3, LenProperties
<1>5. Top.j <= Len(tiosts2.out[Top.l2])
  BY <1>4 DEF Counted
<1>6. Top.i > Len(tiosts1.out[Top.l1])
  BY <1>2, <1>4, <1>5 DEF InBody
<1>7. Before(Top, i, j, k)
  BY <1>2, <1>4, <1>6 DEF Before
<1> QED
  BY <1>7 DEF Tried

(* A call of parComposition on a pair it may have been called on before.   *)
LEMMA InvokeWalked ==
    ASSUME NEW r, NEW c1 \in Model, NEW c2 \in Model, Apart(c1, c2),
           NEW l1 \in c1.locations, NEW l2 \in c2.locations, NEW rest \in Seq(Frame),
           AllTried(r, rest, c1, c2), AllVisited(r, rest, visitedLocations, c1, c2),
           TargetsIn(r, visitedLocations \cup {Join(l1, l2)}),
           Invoke(l1, l2, rest)
    PROVE  /\ AllTried(r, stack', c1, c2)
           /\ AllVisited(r, stack', visitedLocations', c1, c2)
           /\ TargetsIn(r, visitedLocations')
<1>1. CASE Join(l1, l2) \in visitedLocations
  <2>1. stack' = rest /\ visitedLocations' = visitedLocations
    BY <1>1 DEF Invoke
  <2>2. visitedLocations \cup {Join(l1, l2)} = visitedLocations
    BY <1>1
  <2> QED
    BY <2>1, <2>2
<1>2. CASE Join(l1, l2) \notin visitedLocations
  <2> DEFINE f == [l1 |-> l1, l2 |-> l2, i |-> 1, j |-> 1, case |-> 1]
  <2>1. /\ stack' = <<f>> \o rest
        /\ visitedLocations' = visitedLocations \cup {Join(l1, l2)}
    BY <1>2 DEF Invoke
  <2>2. f \in Frame /\ Tried(r, c1, c2, f) /\ Counted(c2, f)
    BY BeginTried
  <2>3. f.l1 = l1 /\ f.l2 = l2
    OBVIOUS
  <2> HIDE DEF f
  <2>4. Range(stack') = {f} \cup Range(rest)
    BY <2>1, <2>2, OnStack
  <2>5. AllTried(r, stack', c1, c2)
    BY <2>2, <2>4 DEF AllTried
  <2>6. AllVisited(r, stack', visitedLocations', c1, c2)
    <3> SUFFICES ASSUME NEW k1 \in c1.locations, NEW k2 \in c2.locations,
                        Join(k1, k2) \in visitedLocations'
                 PROVE  Explored(r, c1, c2, k1, k2) \/ Active(stack', k1, k2)
      BY DEF AllVisited
    <3>1. CASE Join(k1, k2) \in visitedLocations
      BY <2>4, <3>1 DEF AllVisited, Active
    <3>2. CASE Join(k1, k2) = Join(l1, l2)
      <4>1. <<k1, k2>> \in c1.locations \X c2.locations /\ <<l1, l2>> \in c1.locations \X c2.locations
        OBVIOUS
      <4>2. k1 = l1 /\ k2 = l2
        BY <3>2, <4>1 DEF Apart
      <4> QED
        BY <2>3, <2>4, <4>2 DEF Active
    <3> QED
      BY <2>1, <3>1, <3>2
  <2> QED
    BY <2>1, <2>5, <2>6
<1> QED
  BY <1>1, <1>2

\* What the walk has done so far with the stack q and the visited pairs v.
Walked(r, q, v, c1, c2) ==
    AllTried(r, q, c1, c2) /\ AllVisited(r, q, v, c1, c2) /\ TargetsIn(r, v)

(* The loops of the top call go on, when the move they are at is listed.   *)
LEMMA RestWalked ==
    ASSUME IInv, InBody, NEW r,
           AllTried(r, stack, tiosts1, tiosts2),
           AllVisited(r, stack, visitedLocations, tiosts1, tiosts2),
           Got(r, tiosts1, tiosts2, Top.l1, Top.l2, Top.i, Top.j, Top.case)
    PROVE  /\ Rest \in Seq(Frame)
           /\ AllTried(r, Rest, tiosts1, tiosts2)
           /\ AllVisited(r, Rest, visitedLocations, tiosts1, tiosts2)
<1>1. stack \in Seq(Frame) /\ stack # <<>>
  BY TopFacts
<1>2. Top \in Frame /\ Tail(stack) \in Seq(Frame)
  BY <1>1, TopFrame, HeadTailProperties
<1>3. /\ Advance(Top) \in Frame
      /\ Advance(Top).l1 = Top.l1 /\ Advance(Top).l2 = Top.l2
  BY <1>2, AdvanceType
<1>4. Range(stack) = {Top} \cup Range(Tail(stack))
  BY <1>1, OnStack DEF Top
<1>5. Range(Rest) = {Advance(Top)} \cup Range(Tail(stack))
  BY <1>2, <1>3, OnStack DEF Rest
<1>6. Tried(r, tiosts1, tiosts2, Top)
  BY <1>4 DEF AllTried
<1>7. Tried(r, tiosts1, tiosts2, Advance(Top)) /\ Counted(tiosts2, Advance(Top))
  BY <1>6, AdvanceTried
<1>8. AllTried(r, Rest, tiosts1, tiosts2)
  BY <1>4, <1>5, <1>7 DEF AllTried
<1>9. \A l1, l2 : Active(stack, l1, l2) => Active(Rest, l1, l2)
  BY <1>3, <1>4, <1>5 DEF Active
<1>10. AllVisited(r, Rest, visitedLocations, tiosts1, tiosts2)
  BY <1>9 DEF AllVisited
<1> QED
  BY <1>1, <1>8, <1>10, RestType

(* A case that creates a move has its move listed.                         *)
LEMMA CasesGot ==
    ASSUME IInv, Case1 \/ Case2 \/ Case3
    PROVE  \E t, l1, l2 :
              /\ Creates(t, l1, l2)
              /\ Got(result', tiosts1, tiosts2, Top.l1, Top.l2, Top.i, Top.j, Top.case)
<1>1. ASSUME NEW t, NEW l1, NEW l2, Creates(t, l1, l2)
      PROVE  t \in Range(result'.out[Join(Top.l1, Top.l2)])
  <2>1. /\ result' = WithMove(result, t) /\ t \in Transition
        /\ t.source = Join(Top.l1, Top.l2) /\ result \in Model
    BY <1>1 DEF Creates, Create, IInv, TypeOK
  <2>2. t.source \in Label
    BY <2>1 DEF Transition
  <2>3. Range(WithMove(result, t).out[t.source]) = Range(result.out[t.source]) \cup {t}
    BY <2>1, <2>2, MoveAdded
  <2> QED
    BY <2>1, <2>3
<1>2. CASE Case1
  <2>1. /\ Creates(FirstAlone, T1.target, Top.l2)
        /\ FirstAlone = AloneFirst(Top.l1, Top.l2, T1) /\ Top.case = 1
    BY <1>2, Case1Move DEF Case1
  <2>2. AloneFirst(Top.l1, Top.l2, T1) \in Range(result'.out[Join(Top.l1, Top.l2)])
    BY <1>1, <2>1
  <2>3. Got(result', tiosts1, tiosts2, Top.l1, Top.l2, Top.i, Top.j, Top.case)
    BY <2>1, <2>2 DEF Got, T1
  <2> QED
    BY <2>1, <2>3
<1>3. CASE Case2
  <2>1. /\ Creates(SecondAlone, Top.l1, T2.target)
        /\ SecondAlone = AloneSecond(Top.l1, Top.l2, T2) /\ Top.case = 2
    BY <1>3, Case2Move DEF Case2
  <2>2. AloneSecond(Top.l1, Top.l2, T2) \in Range(result'.out[Join(Top.l1, Top.l2)])
    BY <1>1, <2>1
  <2>3. Got(result', tiosts1, tiosts2, Top.l1, Top.l2, Top.i, Top.j, Top.case)
    BY <2>1, <2>2 DEF Got, T2
  <2> QED
    BY <2>1, <2>3
<1>4. CASE Case3
  <2>1. /\ Creates(Synchronized, T1.target, T2.target)
        /\ Synchronized = Together(Top.l1, Top.l2, T1, T2) /\ Top.case = 3
    BY <1>4, Case3Move DEF Case3
  <2>2. Together(Top.l1, Top.l2, T1, T2) \in Range(result'.out[Join(Top.l1, Top.l2)])
    BY <1>1, <2>1
  <2>3. Got(result', tiosts1, tiosts2, Top.l1, Top.l2, Top.i, Top.j, Top.case)
    BY <2>1, <2>2 DEF Got, T1, T2
  <2> QED
    BY <2>1, <2>3
<1> QED
  BY <1>2, <1>3, <1>4

(* A case whose condition is false has no move that could be missing: the  *)
(* names the caller's models share are those the clones share.             *)
LEMMA SkipGot ==
    ASSUME IInv, JInv, Skip
    PROVE  Got(result, tiosts1, tiosts2, Top.l1, Top.l2, Top.i, Top.j, Top.case)
<1>1. InBody /\ ~CaseHolds
  BY DEF Skip
<1>2. /\ Prepared /\ Composing
      /\ Top.l1 \in tiosts1.locations /\ Top.l2 \in tiosts2.locations
      /\ T1 \in From(tiosts1, Top.l1) /\ T2 \in From(tiosts2, Top.l2)
  BY <1>1, TopFacts
<1>3. CloneOf(model1, tiosts1) /\ CloneOf(model2, tiosts2)
      /\ Carries(tiosts1) /\ Carries(tiosts2)
  BY <1>2 DEF Prepared, JInv
<1>4. T1.action.name \in ActionNames(tiosts1) /\ T2.action.name \in ActionNames(tiosts2)
  BY <1>2, <1>3, FromClone
<1>5. ActionNames(tiosts1) = ActionNames(model1) /\ ActionNames(tiosts2) = ActionNames(model2)
  BY <1>3 DEF CloneOf
<1>6. Top.case = 1 => T1.action.name \in ActionNames(tiosts2)
  BY <1>1, <1>4, <1>5 DEF CaseHolds, actionsT1
<1>7. Top.case = 2 => T2.action.name \in ActionNames(tiosts1)
  BY <1>1, <1>4, <1>5 DEF CaseHolds, actionsT2
<1>8. Top.case = 3 => ~Complementary(T1.action, T2.action)
  BY <1>1 DEF CaseHolds, canSynchronize, Complementary
<1> QED
  BY <1>6, <1>7, <1>8 DEF Got, T1, T2

(* A case that creates a move and goes on with its target.                 *)
LEMMA CreateWalked ==
    ASSUME IInv, NEW t, NEW l1, NEW l2, Creates(t, l1, l2),
           Got(result', tiosts1, tiosts2, Top.l1, Top.l2, Top.i, Top.j, Top.case),
           Apart(tiosts1, tiosts2),
           Walked(result, stack, visitedLocations, tiosts1, tiosts2)
    PROVE  Walked(result', stack', visitedLocations', tiosts1, tiosts2)
<1>1. /\ InBody /\ t \in Transition /\ t.target = Join(l1, l2)
      /\ l1 \in tiosts1.locations /\ l2 \in tiosts2.locations
      /\ result' = WithMove(result, t) /\ Invoke(l1, l2, Rest)
  BY DEF Creates, Create
<1>2. /\ result \in Model /\ tiosts1 \in Model /\ tiosts2 \in Model
      /\ Prepared /\ FramesPlaced
  BY <1>1 DEF IInv, TypeOK, InBody, Composing
<1>3. \A x \in Label : Range(result'.out[x]) = IF x = t.source THEN Range(result.out[x]) \cup {t}
                                               ELSE Range(result.out[x])
  <2>1. \A x \in Label : Range(WithMove(result, t).out[x]) =
                            IF x = t.source THEN Range(result.out[x]) \cup {t}
                            ELSE Range(result.out[x])
    BY <1>1, <1>2, MoveAdded
  <2> QED
    BY <1>1, <2>1
<1>4. \A x \in Label : Range(result.out[x]) \subseteq Range(result'.out[x])
  BY <1>3
<1>5. \A a \in tiosts1.locations, b \in tiosts2.locations : Join(a, b) \in Label
  BY <1>2 DEF Prepared
<1>6. \A f : (f.l1 \in tiosts1.locations /\ f.l2 \in tiosts2.locations
                 /\ Tried(result, tiosts1, tiosts2, f))
                => Tried(result', tiosts1, tiosts2, f)
  BY <1>4, <1>5, GotGrows
<1>7. \A a \in tiosts1.locations, b \in tiosts2.locations :
         Explored(result, tiosts1, tiosts2, a, b) => Explored(result', tiosts1, tiosts2, a, b)
  BY <1>4, <1>5, GotGrows
<1>8. \A f \in Range(stack) : f.l1 \in tiosts1.locations /\ f.l2 \in tiosts2.locations
  BY <1>2 DEF FramesPlaced, Range
<1>9. AllTried(result', stack, tiosts1, tiosts2)
  BY <1>6, <1>8 DEF AllTried, Walked
<1>10. AllVisited(result', stack, visitedLocations, tiosts1, tiosts2)
  BY <1>7 DEF AllVisited, Walked
<1>11. TargetsIn(result', visitedLocations \cup {Join(l1, l2)})
  BY <1>1, <1>3 DEF TargetsIn, Walked
<1>12. /\ Rest \in Seq(Frame)
       /\ AllTried(result', Rest, tiosts1, tiosts2)
       /\ AllVisited(result', Rest, visitedLocations, tiosts1, tiosts2)
  BY <1>1, <1>9, <1>10, RestWalked
<1> DEFINE r == result'
<1>13. /\ AllTried(r, Rest, tiosts1, tiosts2)
       /\ AllVisited(r, Rest, visitedLocations, tiosts1, tiosts2)
       /\ TargetsIn(r, visitedLocations \cup {Join(l1, l2)})
  BY <1>11, <1>12
<1> HIDE DEF r
<1>14. /\ AllTried(r, stack', tiosts1, tiosts2)
       /\ AllVisited(r, stack', visitedLocations', tiosts1, tiosts2)
       /\ TargetsIn(r, visitedLocations')
  BY <1>1, <1>2, <1>12, <1>13, InvokeWalked
<1> QED
  BY <1>14 DEF r, Walked

(* The other steps of the walk.                                            *)
LEMMA ControlWalked ==
    ASSUME IInv, JInv, Skip \/ Leave \/ Return,
           Walked(result, stack, visitedLocations, tiosts1, tiosts2)
    PROVE  Walked(result', stack', visitedLocations', tiosts1', tiosts2')
<1>1. CASE Skip
  <2>1. InBody /\ stack' = Rest /\ UNCHANGED <<tiosts1, tiosts2, result, visitedLocations>>
    BY <1>1 DEF Skip
  <2>2. AllTried(result, Rest, tiosts1, tiosts2)
        /\ AllVisited(result, Rest, visitedLocations, tiosts1, tiosts2)
    BY <1>1, <2>1, SkipGot, RestWalked DEF Walked
  <2> QED
    BY <2>1, <2>2 DEF Walked
<1>2. CASE Leave
  <2>1. /\ status = "exploring" /\ stack # <<>> /\ ~InBody /\ stack' = Tail(stack)
        /\ UNCHANGED <<tiosts1, tiosts2, result, visitedLocations>>
    BY <1>2 DEF Leave
  <2>2. stack \in Seq(Frame)
    BY DEF IInv, TypeOK
  <2>3. Range(stack) = {Top} \cup Range(Tail(stack))
    BY <2>1, <2>2, OnStack DEF Top
  <2>4. Explored(result, tiosts1, tiosts2, Top.l1, Top.l2)
    BY <2>1, <2>3, LeftExplored DEF Walked, AllTried
  <2>5. AllTried(result, Tail(stack), tiosts1, tiosts2)
    BY <2>3 DEF Walked, AllTried
  <2>6. AllVisited(result, Tail(stack), visitedLocations, tiosts1, tiosts2)
    <3> SUFFICES ASSUME NEW l1 \in tiosts1.locations, NEW l2 \in tiosts2.locations,
                        Join(l1, l2) \in visitedLocations
                 PROVE  \/ Explored(result, tiosts1, tiosts2, l1, l2)
                        \/ Active(Tail(stack), l1, l2)
      BY DEF AllVisited
    <3>1. Explored(result, tiosts1, tiosts2, l1, l2) \/ Active(stack, l1, l2)
      BY DEF Walked, AllVisited
    <3> QED
      BY <2>3, <2>4, <3>1 DEF Active
  <2> QED
    BY <2>1, <2>5, <2>6 DEF Walked
<1>3. CASE Return
  BY <1>3 DEF Return
<1> QED
  BY <1>1, <1>2, <1>3

(* The first call begins with nothing visited.                             *)
LEMMA CallWalked ==
    ASSUME NEW p, Started(p), visitedLocations = {}, Apart(tiosts1', tiosts2')
    PROVE  Walked(result', stack', visitedLocations', tiosts1', tiosts2')
<1> DEFINE c1 == tiosts1'
           c2 == tiosts2'
           t  == InitialTransition(c1, c2)
           r  == initialize(c1, c2)
           l1 == InitialOf(c1).target
           l2 == InitialOf(c2).target
<1>1. /\ c1 \in Model /\ c2 \in Model /\ t \in Transition /\ result' = r
      /\ l1 \in c1.locations /\ l2 \in c2.locations /\ Invoke(l1, l2, <<>>)
  BY DEF Started
<1>2. \A x \in Label : Range(r.out[x]) = IF x = t.source THEN {t} ELSE {}
  BY <1>1, initializeLists
<1>3. t.target = Join(l1, l2)
  BY DEF InitialTransition
<1>4. Apart(c1, c2)
  OBVIOUS
<1> HIDE DEF c1, c2, t, r, l1, l2
<1>5. TargetsIn(r, visitedLocations \cup {Join(l1, l2)})
  BY <1>2, <1>3 DEF TargetsIn
<1>6. <<>> \in Seq(Frame) /\ Range(<<>>) = {}
  BY EmptySeq DEF Range
<1>7. AllTried(r, <<>>, c1, c2) /\ AllVisited(r, <<>>, visitedLocations, c1, c2)
  BY <1>6 DEF AllTried, AllVisited
<1>8. /\ AllTried(r, stack', c1, c2)
      /\ AllVisited(r, stack', visitedLocations', c1, c2)
      /\ TargetsIn(r, visitedLocations')
  BY <1>1, <1>4, <1>5, <1>6, <1>7, InvokeWalked
<1>9. Walked(r, stack', visitedLocations', c1, c2)
  BY <1>8 DEF Walked
<1> QED
  BY <1>1, <1>9 DEF c1, c2

(* What a first call has walked, in every reachable state.                 *)
THEOREM WalkInvariance == Spec => []LInv
<1>1. Init => LInv
  BY DEF Init, LInv, Composing
<1>2. IInv /\ JInv /\ LInv /\ [Next]_vars => LInv'
  <2> SUFFICES ASSUME IInv, JInv, LInv, [Next]_vars PROVE LInv'
    OBVIOUS
  <2>1. calls \in Nat
    BY BoundsAssumption DEF IInv, TypeOK
  <2>2. CASE \E p \in Pairs : Call(p[1], p[2])
    <3>1. PICK p \in Pairs : Call(p[1], p[2])
      BY <2>2
    <3>2. calls' = calls + 1
      BY <3>1 DEF Call
    <3>3. CASE status' = "incompatible"
      BY <2>1, <3>2, <3>3 DEF LInv, Composing
    <3>4. CASE Started(p)
      <4> SUFFICES ASSUME calls' = 1, PairsDistinct'
                   PROVE  Walked(result', stack', visitedLocations', tiosts1', tiosts2')
        BY <2>1, <3>2 DEF LInv, Walked
      <4>1. visitedLocations = {}
        BY <2>1, <3>2 DEF LInv
      <4>2. Apart(tiosts1', tiosts2')
        BY DEF PairsDistinct, Apart
      <4> QED
        BY <3>4, <4>1, <4>2, CallWalked
    <3> QED
      BY <3>1, <3>3, <3>4, CallStarts
  <2>3. CASE Crash
    BY <2>3 DEF Crash, InBody, LInv, Composing
  <2>4. CASE UNCHANGED vars
    BY <2>4 DEF vars, LInv, Composing, PairsDistinct, Apart
  <2>5. CASE Case1 \/ Case2 \/ Case3 \/ Skip \/ Leave \/ Return
    <3>1. UNCHANGED <<tiosts1, tiosts2, calls>> /\ status = "exploring"
          /\ (calls = 0 => status # "exploring")
      <4>1. UNCHANGED <<tiosts1, tiosts2, calls>> /\ status = "exploring"
        BY <2>5 DEF Case1, Case2, Case3, Create, Skip, Leave, Return, InBody
      <4>2. calls = 0 => status # "exploring"
        BY DEF LInv
      <4> QED
        BY <4>1, <4>2
    <3> SUFFICES ASSUME calls = 1, PairsDistinct
                 PROVE  Walked(result', stack', visitedLocations', tiosts1', tiosts2')
      BY <3>1 DEF LInv, Walked, PairsDistinct, Apart
    <3>2. Apart(tiosts1, tiosts2) /\ Walked(result, stack, visitedLocations, tiosts1, tiosts2)
      BY <3>1 DEF LInv, Walked, PairsDistinct, Apart, Composing
    <3>3. CASE Case1 \/ Case2 \/ Case3
      BY <3>1, <3>2, <3>3, CasesGot, CreateWalked
    <3>4. CASE Skip \/ Leave \/ Return
      BY <3>2, <3>4, ControlWalked
    <3> QED
      BY <2>5, <3>3, <3>4
  <2> QED
    BY <2>2, <2>3, <2>4, <2>5 DEF Next, Walk
<1> QED
  BY <1>1, <1>2, Invariance, DeclaredInvariance, PTL DEF Spec

(* Every move of a pair that the walk has gone through is in the result,   *)
(* if both locations have outgoing transitions.                            *)
LEMMA ExploredMoves ==
    ASSUME NEW r, NEW c1 \in Model, NEW c2 \in Model,
           NEW l1 \in c1.locations, NEW l2 \in c2.locations,
           c1.out[l1] # <<>>, c2.out[l2] # <<>>,
           Explored(r, c1, c2, l1, l2), NEW t \in Moves(c1, c2, l1, l2)
    PROVE  t \in Range(r.out[Join(l1, l2)])
<1>1. c1.out[l1] \in Seq(Transition) /\ c2.out[l2] \in Seq(Transition)
  BY DEF Model
<1>2. 1 \in DOMAIN c1.out[l1] /\ 1 \in DOMAIN c2.out[l2]
  BY <1>1, LenProperties, EmptySeq
<1>3. \A i \in DOMAIN c1.out[l1], j \in DOMAIN c2.out[l2], k \in 1..3 :
         Got(r, c1, c2, l1, l2, i, j, k)
  BY DEF Explored
<1>4. CASE t \in MovesOfFirst(c1, c2, l1, l2)
  <2>1. PICK a \in {u \in From(c1, l1) : u.action.name \notin ActionNames(c2)} :
           t = AloneFirst(l1, l2, a)
    BY <1>4 DEF MovesOfFirst, AloneFirst
  <2>2. PICK i \in DOMAIN c1.out[l1] : a = c1.out[l1][i]
    BY <2>1 DEF From, Range
  <2>3. Got(r, c1, c2, l1, l2, i, 1, 1)
    BY <1>2, <1>3
  <2> QED
    BY <2>1, <2>2, <2>3 DEF Got
<1>5. CASE t \in MovesOfSecond(c1, c2, l1, l2)
  <2>1. PICK b \in {u \in From(c2, l2) : u.action.name \notin ActionNames(c1)} :
           t = AloneSecond(l1, l2, b)
    BY <1>5 DEF MovesOfSecond, AloneSecond
  <2>2. PICK j \in DOMAIN c2.out[l2] : b = c2.out[l2][j]
    BY <2>1 DEF From, Range
  <2>3. Got(r, c1, c2, l1, l2, 1, j, 2)
    BY <1>2, <1>3
  <2> QED
    BY <2>1, <2>2, <2>3 DEF Got
<1>6. CASE t \in MovesOfBoth(c1, c2, l1, l2)
  <2>1. PICK p \in From(c1, l1) \X From(c2, l2) :
           Complementary(p[1].action, p[2].action) /\ t = Together(l1, l2, p[1], p[2])
    BY <1>6 DEF MovesOfBoth
  <2>2. PICK i \in DOMAIN c1.out[l1] : p[1] = c1.out[l1][i]
    BY <2>1 DEF From, Range
  <2>3. PICK j \in DOMAIN c2.out[l2] : p[2] = c2.out[l2][j]
    BY <2>1 DEF From, Range
  <2>4. Got(r, c1, c2, l1, l2, i, j, 3)
    BY <1>3
  <2> QED
    BY <2>1, <2>2, <2>3, <2>4 DEF Got
<1> QED
  BY <1>4, <1>5, <1>6 DEF Moves

(* A location whose list has a transition is declared, so that the moves   *)
(* in its list are in the result.                                          *)
LEMMA ListedIsOut ==
    ASSUME NEW r \in Model, MapListed(r), NEW x \in Label
    PROVE  Range(r.out[x]) \subseteq OutTransitions(r)
<1> SUFFICES ASSUME NEW t \in Range(r.out[x])
             PROVE  t \in OutTransitions(r)
  OBVIOUS
<1>1. r.out[x] # <<>>
  BY DEF Range
<1>2. x \in r.locations
  BY <1>1 DEF MapListed
<1> QED
  BY <1>2 DEF OutTransitions

(* The walk of a first call loses no move: when it returns, it has created *)
(* every move of every pair of locations it reached, whatever the two      *)
(* models, the order of their lists and the cycles the recursion met.      *)
THEOREM FirstCallComplete == Spec => []FirstCallClosed
<1>1. IInv /\ KInv /\ LInv => FirstCallClosed
  <2> SUFFICES ASSUME IInv, KInv, LInv, status = "returned", calls = 1, PairsDistinct,
                      NEW p \in ReachedPairs(tiosts1, tiosts2, OutTransitions(result)),
                      tiosts1.out[p[1]] # <<>>, tiosts2.out[p[2]] # <<>>,
                      NEW t \in Moves(tiosts1, tiosts2, p[1], p[2])
               PROVE  t \in OutTransitions(result)
    BY DEF FirstCallClosed
  <2>1. /\ Composing /\ stack = <<>> /\ Prepared /\ MapListed(result)
        /\ result \in Model /\ tiosts1 \in Model /\ tiosts2 \in Model
    BY DEF IInv, KInv, TypeOK, Composing
  <2>2. p[1] \in tiosts1.locations /\ p[2] \in tiosts2.locations
    BY DEF ReachedPairs
  <2>3. PICK u \in OutTransitions(result) : u.target = Join(p[1], p[2])
    BY DEF ReachedPairs
  <2>4. PICK x \in result.locations : u \in Range(result.out[x])
    BY DEF OutTransitions
  <2>5. x \in Label
    BY <2>1 DEF Model
  <2>6. Join(p[1], p[2]) \in visitedLocations
    BY <2>1, <2>3, <2>4, <2>5 DEF LInv, TargetsIn
  <2>7. ~Active(stack, p[1], p[2])
    BY <2>1 DEF Active, Range
  <2>8. Explored(result, tiosts1, tiosts2, p[1], p[2])
    BY <2>1, <2>2, <2>6, <2>7 DEF LInv, AllVisited
  <2>9. t \in Range(result.out[Join(p[1], p[2])])
    BY <2>1, <2>2, <2>8, ExploredMoves
  <2>10. Join(p[1], p[2]) \in Label
    BY <2>1, <2>2 DEF Prepared
  <2> QED
    BY <2>1, <2>9, <2>10, ListedIsOut
<1> QED
  BY <1>1, Invariance, ListsInvariance, WalkInvariance, PTL

-----------------------------------------------------------------------------
(* The walk implements the promise of ParallelProduct.                     *)
(*                                                                         *)
(* A fifth invariant: the clones are clones of a pair the caller may ask   *)
(* for, and every active call stands on a pair that a transition of the    *)
(* result leads to.                                                        *)

\* Every active call stands on the target of a transition of r.
Led(r, q) ==
    \A f \in Range(q) : \E t \in OutTransitions(r) : t.target = Join(f.l1, f.l2)

QInv ==
    Composing =>
        /\ <<model1, model2>> \in Pairs
        /\ tiosts1 \in Clones(model1) /\ tiosts2 \in Clones(model2)
        /\ Led(result, stack)

(* A created transition is all that the result gains.                      *)
LEMMA OutGrows ==
    ASSUME NEW m \in Model, MapListed(m), NEW t \in Transition
    PROVE  OutTransitions(WithMove(m, t)) = OutTransitions(m) \cup {t}
<1> DEFINE w == WithMove(m, t)
<1>1. t.source \in Label /\ t.target \in Label /\ m.locations \subseteq Label
  BY DEF Transition, Model
<1>2. w.locations = m.locations \cup {t.source, t.target}
  BY MoveAdded
<1>3. \A x \in Label : Range(w.out[x]) = IF x = t.source THEN Range(m.out[x]) \cup {t}
                                         ELSE Range(m.out[x])
  BY MoveAdded
<1> HIDE DEF w
<1>4. ASSUME NEW x \in Label PROVE Range(m.out[x]) \subseteq OutTransitions(m)
  BY ListedIsOut
<1>5. ASSUME NEW u \in OutTransitions(w) PROVE u \in OutTransitions(m) \cup {t}
  <2>1. PICK x \in w.locations : u \in Range(w.out[x])
    BY DEF OutTransitions
  <2>2. x \in Label
    BY <1>1, <1>2
  <2>3. u = t \/ u \in Range(m.out[x])
    BY <1>3, <2>1, <2>2
  <2> QED
    BY <1>4, <2>2, <2>3
<1>6. ASSUME NEW u \in OutTransitions(m) PROVE u \in OutTransitions(w)
  <2>1. PICK x \in m.locations : u \in Range(m.out[x])
    BY DEF OutTransitions
  <2>2. x \in w.locations /\ u \in Range(w.out[x])
    BY <1>1, <1>2, <1>3, <2>1
  <2> QED
    BY <2>2 DEF OutTransitions
<1>7. t \in OutTransitions(w)
  <2>1. t.source \in w.locations /\ t \in Range(w.out[t.source])
    BY <1>1, <1>2, <1>3
  <2> QED
    BY <2>1 DEF OutTransitions
<1>8. OutTransitions(w) = OutTransitions(m) \cup {t}
  BY <1>5, <1>6, <1>7
<1> QED
  BY <1>8 DEF w

(* A composition starts with one transition.                               *)
LEMMA OutStarts ==
    ASSUME NEW m1 \in Model, NEW m2 \in Model,
           InitialTransition(m1, m2) \in Transition, initialize(m1, m2) \in Model
    PROVE  OutTransitions(initialize(m1, m2)) = {InitialTransition(m1, m2)}
<1> DEFINE t == InitialTransition(m1, m2)
           r == initialize(m1, m2)
<1>1. t.source \in r.locations
  BY initializeLists
<1>2. \A x \in Label : Range(r.out[x]) = IF x = t.source THEN {t} ELSE {}
  BY initializeLists
<1>3. r.locations \subseteq Label
  BY DEF Model
<1> HIDE DEF r, t
<1>4. OutTransitions(r) = {t}
  BY <1>1, <1>2, <1>3 DEF OutTransitions
<1> QED
  BY <1>4 DEF r, t

(* Going on leaves the calls where they are.                               *)
LEMMA RestLed ==
    ASSUME stack \in Seq(Frame), stack # <<>>, NEW r, Led(r, stack)
    PROVE  Led(r, Rest)
<1>1. /\ DOMAIN Rest = DOMAIN stack
      /\ \A i \in DOMAIN stack : Rest[i].l1 = stack[i].l1 /\ Rest[i].l2 = stack[i].l2
  BY RestType
<1> SUFFICES ASSUME NEW i \in DOMAIN Rest
             PROVE  \E t \in OutTransitions(r) : t.target = Join(Rest[i].l1, Rest[i].l2)
  BY DEF Led, Range
<1>2. i \in DOMAIN stack /\ stack[i] \in Range(stack)
  BY <1>1 DEF Range
<1> QED
  BY <1>1, <1>2 DEF Led

(* A call on a pair that a transition leads to.                            *)
LEMMA InvokeLed ==
    ASSUME NEW r, NEW l1 \in Label, NEW l2 \in Label, NEW rest \in Seq(Frame),
           Led(r, rest), Invoke(l1, l2, rest),
           \E t \in OutTransitions(r) : t.target = Join(l1, l2)
    PROVE  Led(r, stack')
<1>1. CASE Join(l1, l2) \in visitedLocations
  BY <1>1 DEF Invoke
<1>2. CASE Join(l1, l2) \notin visitedLocations
  <2> DEFINE f == [l1 |-> l1, l2 |-> l2, i |-> 1, j |-> 1, case |-> 1]
  <2>1. stack' = <<f>> \o rest
    BY <1>2 DEF Invoke
  <2>2. f \in Frame /\ f.l1 = l1 /\ f.l2 = l2
    BY DEF Frame
  <2> HIDE DEF f
  <2>3. Range(stack') = {f} \cup Range(rest)
    BY <2>1, <2>2, OnStack
  <2> QED
    BY <2>2, <2>3 DEF Led
<1> QED
  BY <1>1, <1>2

(* Every active call stands where a transition of the result leads to.     *)
THEOREM LedInvariance == Spec => []QInv
<1>1. Init => QInv
  BY DEF Init, QInv, Composing
<1>2. IInv /\ IInv' /\ KInv /\ QInv /\ [Next]_vars => QInv'
  <2> SUFFICES ASSUME IInv, IInv', KInv, QInv, [Next]_vars PROVE QInv'
    OBVIOUS
  <2>1. CASE \E p \in Pairs : Call(p[1], p[2])
    <3>1. PICK p \in Pairs : Call(p[1], p[2])
      BY <2>1
    <3>2. CASE status' = "incompatible"
      BY <3>2 DEF QInv, Composing
    <3>3. CASE Started(p)
      <4>1. /\ model1' = p[1] /\ model2' = p[2] /\ p = <<p[1], p[2]>>
            /\ tiosts1' \in Clones(model1') /\ tiosts2' \in Clones(model2')
        BY <3>1, PairsAssumption DEF Call
      <4> DEFINE c1 == tiosts1'
                 c2 == tiosts2'
                 r  == initialize(c1, c2)
                 l1 == InitialOf(c1).target
                 l2 == InitialOf(c2).target
      <4>2. /\ c1 \in Model /\ c2 \in Model /\ InitialTransition(c1, c2) \in Transition
            /\ result' = r /\ r \in Model /\ Invoke(l1, l2, <<>>)
            /\ l1 \in Label /\ l2 \in Label
        BY <3>3 DEF Started, IInv, TypeOK, Model
      <4>3. OutTransitions(r) = {InitialTransition(c1, c2)}
        BY <4>2, OutStarts
      <4>4. InitialTransition(c1, c2).target = Join(l1, l2)
        BY DEF InitialTransition
      <4> HIDE DEF r, c1, c2, l1, l2
      <4>5. <<>> \in Seq(Frame) /\ Led(r, <<>>)
        BY EmptySeq DEF Led, Range
      <4>6. \E t \in OutTransitions(r) : t.target = Join(l1, l2)
        BY <4>3, <4>4
      <4>7. Led(r, stack')
        BY <4>2, <4>5, <4>6, InvokeLed
      <4> QED
        BY <4>1, <4>2, <4>7 DEF QInv
    <3> QED
      BY <3>1, <3>2, <3>3, CallStarts
  <2>2. CASE Case1 \/ Case2 \/ Case3
    <3>1. PICK t, l1, l2 : Creates(t, l1, l2)
      BY <2>2, CasesStep
    <3>2. /\ InBody /\ t \in Transition /\ t.target = Join(l1, l2)
          /\ l1 \in tiosts1.locations /\ l2 \in tiosts2.locations
          /\ result' = WithMove(result, t) /\ Invoke(l1, l2, Rest)
          /\ UNCHANGED <<model1, model2, tiosts1, tiosts2>>
      BY <3>1 DEF Creates, Create
    <3>3. /\ Composing /\ stack \in Seq(Frame) /\ stack # <<>> /\ result \in Model
          /\ tiosts1.locations \subseteq Label /\ tiosts2.locations \subseteq Label
      BY <3>2, TopFacts DEF IInv, TypeOK
    <3> DEFINE r == result'
    <3>4. OutTransitions(r) = OutTransitions(result) \cup {t}
      BY <3>2, <3>3, OutGrows DEF KInv
    <3> HIDE DEF r
    <3>5. Led(r, stack)
      BY <3>3, <3>4 DEF Led, QInv
    <3>6. Rest \in Seq(Frame) /\ Led(r, Rest)
      BY <3>3, <3>5, RestLed, RestType
    <3>7. \E u \in OutTransitions(r) : u.target = Join(l1, l2)
      BY <3>2, <3>4
    <3>8. l1 \in Label /\ l2 \in Label
      BY <3>2, <3>3
    <3>9. Led(r, stack')
      BY <3>2, <3>6, <3>7, <3>8, InvokeLed
    <3> QED
      BY <3>2, <3>3, <3>9 DEF r, QInv
  <2>3. CASE Skip
    <3>1. InBody /\ stack' = Rest /\ UNCHANGED <<model1, model2, tiosts1, tiosts2, result>>
      BY <2>3 DEF Skip
    <3>2. stack \in Seq(Frame) /\ stack # <<>> /\ Composing
      BY <3>1, TopFacts
    <3> QED
      BY <3>1, <3>2, RestLed DEF QInv
  <2>4. CASE Crash
    BY <2>4 DEF Crash, QInv, Composing
  <2>5. CASE Leave
    <3>1. /\ status = "exploring" /\ stack # <<>> /\ stack' = Tail(stack)
          /\ UNCHANGED <<model1, model2, tiosts1, tiosts2, result>>
      BY <2>5 DEF Leave
    <3>2. stack \in Seq(Frame)
      BY DEF IInv, TypeOK
    <3>3. Range(Tail(stack)) \subseteq Range(stack)
      BY <3>1, <3>2, OnStack
    <3> QED
      BY <3>1, <3>3 DEF QInv, Led, Composing
  <2>6. CASE Return \/ UNCHANGED vars
    <3>1. /\ UNCHANGED <<model1, model2, tiosts1, tiosts2, result, stack>>
          /\ Composing' => Composing
      BY <2>6 DEF Return, vars, Composing
    <3> QED
      BY <3>1 DEF QInv
  <2> QED
    BY <2>1, <2>2, <2>3, <2>4, <2>5, <2>6 DEF Next, Walk
<1> QED
  BY <1>1, <1>2, Invariance, ListsInvariance, PTL DEF Spec

(* A clone of a model that meets no hazard has its transitions, location   *)
(* by location.                                                            *)
LEMMA BenignClone ==
    ASSUME NEW m, WellFormed(m), Benign(m), NEW c \in Clones(m)
    PROVE  /\ CloneOf(m, c) /\ c.initialLocation = m.initialLocation
           /\ c.inputActions = m.inputActions /\ c.outputActions = m.outputActions
           /\ c.transitions = m.transitions
           /\ InitialOf(c) = InitialOf(m)
           /\ \A l \in c.locations : From(c, l) = From(m, l) /\ c.out[l] # <<>>
<1>1. /\ m \in Model /\ IsFiniteSet(m.transitions) /\ m.transitions \subseteq Transition
      /\ m.initialLocation \in m.locations /\ Len(m.out[m.initialLocation]) = 1
      /\ m.locations \subseteq Label
      /\ \A l \in m.locations : \A i \in DOMAIN m.out[l] : m.out[l][i].source = l
      /\ \A l \in m.locations : m.out[l] \in Seq(Transition)
  BY DEF WellFormed, Model
<1>2. /\ CloneOf(m, c) /\ c.initialLocation = m.initialLocation
      /\ c.locations = m.locations
      /\ c.inputActions = m.inputActions /\ c.outputActions = m.outputActions
      /\ c.transitions = {Reparsed(m, t) : t \in m.transitions}
      /\ \A l \in m.locations : c.out[l] \in SetToSeqs(ClonedFrom(m, l))
  BY <1>1, CloneShape, CopyOf
<1>3. c.transitions = m.transitions
  BY <1>2 DEF Benign
<1>4. ASSUME NEW l \in m.locations
      PROVE  From(c, l) = From(m, l)
  <2>1. Range(c.out[l]) = ClonedFrom(m, l)
    BY <1>1, <1>2, ClonedFromType, OrderingOnce
  <2>2. ClonedFrom(m, l) = {t \in m.transitions : t.source = l}
    BY DEF ClonedFrom, Benign
  <2>3. \A t \in Range(m.out[l]) : t \in m.transitions /\ t.source = l
    BY <1>1 DEF Range, OutTransitions, Benign
  <2>4. ASSUME NEW t \in m.transitions, t.source = l
        PROVE  t \in Range(m.out[l])
    <3>1. PICK k \in m.locations : t \in Range(m.out[k])
      BY DEF Benign, OutTransitions
    <3>2. t.source = k
      BY <1>1, <3>1 DEF Range
    <3> QED
      BY <2>4, <3>1, <3>2
  <2> QED
    BY <2>1, <2>2, <2>3, <2>4 DEF From
<1>5. ASSUME NEW l \in m.locations
      PROVE  c.out[l] # <<>>
  <2>1. 1 \in DOMAIN m.out[l]
    BY <1>1, LenProperties, EmptySeq DEF Benign
  <2>2. m.out[l][1] \in Range(c.out[l])
    BY <1>4, <2>1 DEF From, Range
  <2> QED
    BY <2>2 DEF Range
<1>6. InitialOf(c) = InitialOf(m)
  <2> DEFINE init == m.initialLocation
  <2>1. DOMAIN m.out[init] = {1}
    BY <1>1, LenProperties
  <2>2. From(m, init) = {m.out[init][1]}
    BY <2>1 DEF From, Range
  <2>3. c.out[init] \in Seq(Transition)
    BY <1>1, <1>2 DEF CloneOf, Model
  <2>4. 1 \in DOMAIN c.out[init]
    BY <1>1, <1>5, <2>3, LenProperties, EmptySeq
  <2>5. c.out[init][1] \in From(c, init)
    BY <2>4 DEF From, Range
  <2>6. c.out[init][1] = m.out[init][1]
    BY <1>1, <1>4, <2>2, <2>5
  <2> QED
    BY <1>2, <2>6 DEF InitialOf
<1> QED
  BY <1>2, <1>3, <1>4, <1>5, <1>6

(* For such pairs the walk over the clones is a walk over the arguments.   *)
LEMMA FaithfulPair ==
    ASSUME NEW p \in Pairs, Faithful(p),
           NEW c1 \in Clones(p[1]), NEW c2 \in Clones(p[2])
    PROVE  /\ Apart(c1, c2) /\ ~Undeclarable(c1, c2)
           /\ c1.locations = p[1].locations /\ c2.locations = p[2].locations
           /\ InitialTransition(c1, c2) = InitialMove(p[1], p[2])
           /\ isCompatible(c1, c2) <=> Disjoint(p[1], p[2])
           /\ \A l1 \in c1.locations, l2 \in c2.locations :
                 /\ Moves(c1, c2, l1, l2) = Moves(p[1], p[2], l1, l2)
                 /\ c1.out[l1] # <<>> /\ c2.out[l2] # <<>>
<1> DEFINE m1 == p[1]
           m2 == p[2]
<1>1. WellFormed(m1) /\ WellFormed(m2) /\ Benign(m1) /\ Benign(m2)
  BY PairsAssumption DEF Faithful
<1>2. /\ CloneOf(m1, c1) /\ c1.initialLocation = m1.initialLocation
      /\ c1.transitions = m1.transitions /\ InitialOf(c1) = InitialOf(m1)
      /\ \A l \in c1.locations : From(c1, l) = From(m1, l) /\ c1.out[l] # <<>>
  BY <1>1, BenignClone
<1>3. /\ CloneOf(m2, c2) /\ c2.initialLocation = m2.initialLocation
      /\ c2.transitions = m2.transitions /\ InitialOf(c2) = InitialOf(m2)
      /\ c2.inputActions = m2.inputActions /\ c2.outputActions = m2.outputActions
      /\ \A l \in c2.locations : From(c2, l) = From(m2, l) /\ c2.out[l] # <<>>
  BY <1>1, BenignClone
<1>4. /\ c1.locations = m1.locations /\ c2.locations = m2.locations
      /\ c1.variables = m1.variables /\ c2.variables = m2.variables
      /\ ActionNames(c1) = ActionNames(m1) /\ ActionNames(c2) = ActionNames(m2)
  BY <1>2, <1>3 DEF CloneOf
<1>5. Apart(c1, c2)
  BY <1>4 DEF Faithful, Apart
<1>6. ~Undeclarable(c1, c2)
  <2>1. ~RepeatsInitialAction(m1) /\ ~RepeatsInitialAction(m2)
    BY <1>1 DEF Benign
  <2>2. ~RepeatsInitialAction(c1) /\ ~RepeatsInitialAction(c2)
    BY <1>2, <1>3, <2>1 DEF RepeatsInitialAction
  <2> QED
    BY <1>3, <2>2 DEF Undeclarable, Faithful
<1>7. InitialTransition(c1, c2) = InitialMove(m1, m2)
  <2>1. InitialOf(m1).assignments \cup InitialOf(m1).assignments
           = InitialOf(m1).assignments \cup InitialOf(m2).assignments
    BY DEF Faithful
  <2> QED
    BY <1>2, <1>3, <2>1 DEF InitialTransition, InitialMove
<1>8. isCompatible(c1, c2) <=> Disjoint(m1, m2)
  BY <1>4 DEF isCompatible, Disjoint
<1>9. ASSUME NEW l1 \in c1.locations, NEW l2 \in c2.locations
      PROVE  Moves(c1, c2, l1, l2) = Moves(m1, m2, l1, l2)
  <2>1. From(c1, l1) = From(m1, l1) /\ From(c2, l2) = From(m2, l2)
    BY <1>2, <1>3
  <2>2. MovesOfFirst(c1, c2, l1, l2) = MovesOfFirst(m1, m2, l1, l2)
    BY <1>4, <2>1 DEF MovesOfFirst
  <2>3. MovesOfSecond(c1, c2, l1, l2) = MovesOfSecond(m1, m2, l1, l2)
    BY <1>4, <2>1 DEF MovesOfSecond
  <2>4. MovesOfBoth(c1, c2, l1, l2) = MovesOfBoth(m1, m2, l1, l2)
    BY <2>1 DEF MovesOfBoth
  <2> QED
    BY <2>2, <2>3, <2>4 DEF Moves
<1> QED
  BY <1>2, <1>3, <1>4, <1>5, <1>6, <1>7, <1>8, <1>9

\* All that the invariants say, before a step and after it.
AllInv == IInv /\ JInv /\ KInv /\ LInv /\ QInv /\ FirstCallClosed

\* What the promise sees of a state.
Phase ==
    CASE status = "exploring"    -> "composing"
      [] status = "returned"     -> "done"
      [] status = "incompatible" -> "refused"
      [] OTHER                   -> status

(* The promise speaks of the same moves.                                   *)
LEMMA PromiseSpeaks ==
    ASSUME NEW m1, NEW m2, NEW ts
    PROVE  /\ Promise!InitialMove(m1, m2) = InitialMove(m1, m2)
           /\ Promise!Disjoint(m1, m2) <=> Disjoint(m1, m2)
           /\ Promise!ReachedPairs(m1, m2, ts) = ReachedPairs(m1, m2, ts)
           /\ \A l1, l2 : Promise!Moves(m1, m2, l1, l2) = Moves(m1, m2, l1, l2)
           /\ Promise!Closed(m1, m2, ts) <=> Closed(m1, m2, ts)
<1>1. Promise!InitialMove(m1, m2) = InitialMove(m1, m2)
  BY DEF Promise!InitialMove, InitialMove, Promise!InitialOf, InitialOf, Promise!Join, Join,
         Promise!ACTION_INTERNAL, ACTION_INTERNAL, Promise!DEADLINE_LAZY, DEADLINE_LAZY
<1>2. Promise!Disjoint(m1, m2) <=> Disjoint(m1, m2)
  BY DEF Promise!Disjoint, Disjoint
<1>3. Promise!ReachedPairs(m1, m2, ts) = ReachedPairs(m1, m2, ts)
  BY DEF Promise!ReachedPairs, ReachedPairs, Promise!Join, Join
<1>4. ASSUME NEW l1, NEW l2
      PROVE  Promise!Moves(m1, m2, l1, l2) = Moves(m1, m2, l1, l2)
  <2>1. /\ Promise!From(m1, l1) = From(m1, l1) /\ Promise!From(m2, l2) = From(m2, l2)
        /\ Promise!ActionNames(m1) = ActionNames(m1)
        /\ Promise!ActionNames(m2) = ActionNames(m2)
    BY DEF Promise!From, From, Promise!Range, Range, Promise!ActionNames, ActionNames
  <2>2. Promise!MovesOfFirst(m1, m2, l1, l2) = MovesOfFirst(m1, m2, l1, l2)
    BY <2>1 DEF Promise!MovesOfFirst, MovesOfFirst, Promise!Join, Join
  <2>3. Promise!MovesOfSecond(m1, m2, l1, l2) = MovesOfSecond(m1, m2, l1, l2)
    BY <2>1 DEF Promise!MovesOfSecond, MovesOfSecond, Promise!Join, Join
  <2>4. \A t, u : Promise!Together(l1, l2, t, u) = Together(l1, l2, t, u)
    BY DEF Promise!Together, Together, Promise!Join, Join, Promise!MostUrgent, MostUrgent,
           Promise!ACTION_OUTPUT, ACTION_OUTPUT
  <2>5. \A a, b : Promise!Complementary(a, b) <=> Complementary(a, b)
    BY DEF Promise!Complementary, Complementary, Promise!ACTION_INPUT, ACTION_INPUT,
           Promise!ACTION_OUTPUT, ACTION_OUTPUT
  <2>6. Promise!MovesOfBoth(m1, m2, l1, l2) = MovesOfBoth(m1, m2, l1, l2)
    BY <2>1, <2>4, <2>5 DEF Promise!MovesOfBoth, MovesOfBoth
  <2> QED
    BY <2>2, <2>3, <2>6 DEF Promise!Moves, Moves
<1>5. Promise!Closed(m1, m2, ts) <=> Closed(m1, m2, ts)
  BY <1>3, <1>4 DEF Promise!Closed, Closed
<1> QED
  BY <1>1, <1>2, <1>3, <1>4, <1>5

(* A call begins the promised composition, or refuses it.                  *)
LEMMA CallImplements ==
    ASSUME AllInv, AllInv', NEW p \in Pairs, Faithful(p), Call(p[1], p[2])
    PROVE  Promise!Begin(p) \/ Promise!Refuse(p)
<1>1. /\ status # "exploring" /\ status # "crashed"
      /\ model1' = p[1] /\ model2' = p[2] /\ p = <<p[1], p[2]>>
      /\ tiosts1' \in Clones(p[1]) /\ tiosts2' \in Clones(p[2])
  BY PairsAssumption DEF Call
<1>2. status \in {"idle", "returned", "incompatible"}
  BY <1>1 DEF AllInv, IInv, TypeOK, Status
<1>3. Phase # "composing"
  BY <1>2 DEF Phase
<1>4. <<model1, model2>>' = p
  BY <1>1
<1> DEFINE c1 == tiosts1'
           c2 == tiosts2'
<1>5. /\ InitialTransition(c1, c2) = InitialMove(p[1], p[2])
      /\ isCompatible(c1, c2) <=> Disjoint(p[1], p[2])
  BY <1>1, FaithfulPair
<1>6. CASE ~isCompatible(c1, c2)
  <2>1. status' = "incompatible" /\ result' = EmptyTIOSTS
    BY <1>6 DEF Call
  <2>2. OutTransitions(EmptyTIOSTS) = {}
    BY DEF OutTransitions, EmptyTIOSTS
  <2>3. OutTransitions(result)' = {} /\ Phase' = "refused"
    BY <2>1, <2>2 DEF Phase
  <2> QED
    BY <1>3, <1>4, <1>5, <1>6, <2>3, PromiseSpeaks DEF Promise!Refuse, Phase
<1>7. CASE isCompatible(c1, c2)
  <2>1. Started(p)
    <3>1. status' # "incompatible"
      BY <1>7 DEF Call
    <3> QED
      BY <3>1, CallStarts DEF AllInv
  <2>2. /\ c1 \in Model /\ c2 \in Model /\ InitialTransition(c1, c2) \in Transition
        /\ result' = initialize(c1, c2) /\ initialize(c1, c2) \in Model
        /\ status' = "exploring"
    BY <2>1 DEF Started, AllInv, IInv, TypeOK
  <2>3. OutTransitions(initialize(c1, c2)) = {InitialTransition(c1, c2)}
    BY <2>2, OutStarts
  <2>4. OutTransitions(result') = {InitialMove(p[1], p[2])}
    BY <1>5, <2>2, <2>3
  <2>5. OutTransitions(result)' = {InitialMove(p[1], p[2])} /\ Phase' = "composing"
    BY <2>2, <2>4 DEF Phase
  <2> QED
    BY <1>3, <1>4, <1>5, <1>7, <2>5, PromiseSpeaks DEF Promise!Begin, Phase
<1> QED
  BY <1>6, <1>7

(* A step of the walk builds the promised composition further, or is       *)
(* invisible: the pair of the top call is one that the composition reached.*)
LEMMA WalkImplements ==
    ASSUME AllInv, AllInv', Promised', Walk
    PROVE  Promise!Extend \/ Promise!Finish \/ UNCHANGED Promise!vars
<1>1. status = "exploring" /\ Composing /\ UNCHANGED <<model1, model2, tiosts1, tiosts2>>
  BY DEF Walk, Case1, Case2, Case3, Create, Skip, Crash, Leave, Return, InBody, Composing
<1> DEFINE p == <<model1, model2>>
<1>2. /\ p \in Pairs /\ Faithful(p)
      /\ tiosts1 \in Clones(p[1]) /\ tiosts2 \in Clones(p[2])
      /\ Led(result, stack)
  BY <1>1 DEF AllInv, QInv, Promised
<1>3. /\ Apart(tiosts1, tiosts2) /\ ~Undeclarable(tiosts1, tiosts2)
      /\ tiosts1.locations = model1.locations /\ tiosts2.locations = model2.locations
      /\ \A l1 \in tiosts1.locations, l2 \in tiosts2.locations :
            /\ Moves(tiosts1, tiosts2, l1, l2) = Moves(model1, model2, l1, l2)
            /\ tiosts1.out[l1] # <<>> /\ tiosts2.out[l2] # <<>>
  BY <1>2, FaithfulPair
<1>4. Phase = "composing" /\ p' = p
  BY <1>1 DEF Phase
<1> HIDE DEF p
<1>5. CASE Case1 \/ Case2 \/ Case3
  <2>1. IInv /\ KInv
    BY DEF AllInv
  <2>2. PICK t, l1, l2 : Creates(t, l1, l2)
    BY <1>5, <2>1, CasesStep
  <2>3. /\ InBody /\ t \in Transition /\ result' = WithMove(result, t)
        /\ status' = "exploring" /\ SoundMove(t) /\ t.source = Join(Top.l1, Top.l2)
    BY <1>1, <2>2 DEF Creates, Create
  <2>4. /\ stack \in Seq(Frame) /\ stack # <<>>
        /\ Top.l1 \in tiosts1.locations /\ Top.l2 \in tiosts2.locations
    BY <2>1, <2>3, TopFacts
  <2>5. OutTransitions(result') = OutTransitions(result) \cup {t}
    <3>1. result \in Model /\ MapListed(result)
      BY <1>1, <2>1 DEF IInv, TypeOK, KInv
    <3>2. OutTransitions(WithMove(result, t)) = OutTransitions(result) \cup {t}
      BY <2>3, <3>1, OutGrows
    <3> QED
      BY <2>3, <3>2
  <2>6. \E u \in OutTransitions(result) : u.target = Join(Top.l1, Top.l2)
    <3>1. Range(stack) = {Top} \cup Range(Tail(stack))
      BY <2>4, OnStack DEF Top
    <3> QED
      BY <1>2, <3>1 DEF Led
  <2> DEFINE q == <<Top.l1, Top.l2>>
  <2>7. q \in ReachedPairs(model1, model2, OutTransitions(result))
    BY <1>3, <2>4, <2>6 DEF ReachedPairs
  <2>8. t \in Moves(model1, model2, Top.l1, Top.l2)
    BY <1>3, <2>2, <2>4 DEF Creates
  <2>9. Promise!Extend
    <3>1. q \in Promise!ReachedPairs(p[1], p[2], OutTransitions(result))
      BY <2>7, PromiseSpeaks DEF p
    <3>2. t \in Promise!Moves(p[1], p[2], q[1], q[2])
      BY <2>8, PromiseSpeaks DEF p
    <3>3. OutTransitions(result)' = OutTransitions(result) \cup {t} /\ Phase' = Phase
      BY <1>4, <2>3, <2>5 DEF Phase
    <3> HIDE DEF q
    <3> QED
      BY <1>4, <3>1, <3>2, <3>3 DEF Promise!Extend, Phase, p
  <2> QED
    BY <2>9
<1>6. CASE Skip \/ Leave
  <2>1. UNCHANGED <<result, status>>
    BY <1>6 DEF Skip, Leave
  <2>2. OutTransitions(result)' = OutTransitions(result) /\ Phase' = Phase
    BY <2>1 DEF Phase
  <2> QED
    BY <1>4, <2>2 DEF Promise!vars, Phase, p
<1>7. CASE Crash
  <2>1. status' = "crashed"
    BY <1>7 DEF Crash
  <2>2. Undeclarable(tiosts1', tiosts2')
    BY <2>1 DEF AllInv, JInv
  <2> QED
    BY <1>1, <1>3, <2>2
<1>8. CASE Return
  <2>1. status' = "returned" /\ UNCHANGED <<result, calls>>
    BY <1>8 DEF Return
  <2>2. calls' = 1
    BY DEF Promised
  <2>3. PairsDistinct'
    BY <1>1, <1>3 DEF PairsDistinct
  <2>4. \A q \in ReachedPairs(tiosts1, tiosts2, OutTransitions(result)) :
           (tiosts1.out[q[1]] # <<>> /\ tiosts2.out[q[2]] # <<>>)
               => Moves(tiosts1, tiosts2, q[1], q[2]) \subseteq OutTransitions(result)
    BY <1>1, <2>1, <2>2, <2>3 DEF AllInv, FirstCallClosed
  <2>5. ReachedPairs(tiosts1, tiosts2, OutTransitions(result))
           = ReachedPairs(model1, model2, OutTransitions(result))
    BY <1>3 DEF ReachedPairs
  <2>6. \A q \in ReachedPairs(tiosts1, tiosts2, OutTransitions(result)) :
           q[1] \in tiosts1.locations /\ q[2] \in tiosts2.locations
    BY DEF ReachedPairs
  <2>7. Closed(model1, model2, OutTransitions(result))
    BY <1>3, <2>4, <2>5, <2>6 DEF Closed
  <2>8. Promise!Closed(p[1], p[2], OutTransitions(result))
    BY <2>7, PromiseSpeaks DEF p
  <2>9. OutTransitions(result)' = OutTransitions(result) /\ Phase' = "done"
    BY <2>1 DEF Phase
  <2>10. Promise!Finish
    BY <1>4, <2>8, <2>9 DEF Promise!Finish, Phase, p
  <2> QED
    BY <2>10
<1> QED
  BY <1>5, <1>6, <1>7, <1>8 DEF Walk

(* parallelComposition keeps its promise in a first call, on every pair    *)
(* that meets none of the hazards: it starts with the initial move, adds   *)
(* moves of pairs it has reached, and returns when none is missing.        *)
THEOREM Refinement == Spec => RefinesProduct
<1>1. Init => Promise!Init
  <2> SUFFICES ASSUME Init PROVE Promise!Init
    OBVIOUS
  <2>1. model1 = EmptyTIOSTS /\ model2 = EmptyTIOSTS /\ result = EmptyTIOSTS /\ status = "idle"
    BY DEF Init
  <2>2. OutTransitions(EmptyTIOSTS) = {}
    BY DEF OutTransitions, EmptyTIOSTS
  <2>3. Promise!EmptyTIOSTS = EmptyTIOSTS
    BY DEF Promise!EmptyTIOSTS, EmptyTIOSTS, Promise!NoLabel, NoLabel
  <2> QED
    BY <2>1, <2>2, <2>3 DEF Promise!Init
<1>2. AllInv /\ AllInv' /\ [Next]_vars => [Promised' => Promise!Next]_(Promise!vars)
  <2> SUFFICES ASSUME AllInv, AllInv', [Next]_vars, Promised'
               PROVE  Promise!Next \/ UNCHANGED Promise!vars
    BY DEF Promise!vars
  <2>1. CASE \E p \in Pairs : Call(p[1], p[2])
    <3>1. PICK p \in Pairs : Call(p[1], p[2])
      BY <2>1
    <3>2. Faithful(p)
      <4>1. model1' = p[1] /\ model2' = p[2] /\ p = <<p[1], p[2]>>
        BY <3>1, PairsAssumption DEF Call
      <4> QED
        BY <4>1 DEF Promised
    <3>3. Promise!Begin(p) \/ Promise!Refuse(p)
      BY <3>1, <3>2, CallImplements
    <3> QED
      BY <3>3 DEF Promise!Next
  <2>2. CASE Walk
    <3>1. Promise!Extend \/ Promise!Finish \/ UNCHANGED Promise!vars
      BY <2>2, WalkImplements
    <3> QED
      BY <3>1 DEF Promise!Next
  <2>3. CASE UNCHANGED vars
    <3>1. UNCHANGED <<model1, model2, result, status>>
      BY <2>3 DEF vars
    <3> QED
      BY <3>1 DEF Promise!vars
  <2> QED
    BY <2>1, <2>2, <2>3 DEF Next
<1>3. Spec => []AllInv
  BY Invariance, DeclaredInvariance, ListsInvariance, WalkInvariance, LedInvariance,
     FirstCallComplete, PTL DEF AllInv
<1> QED
  BY <1>1, <1>2, <1>3, PTL DEF Spec, RefinesProduct
=============================================================================
