------------------------- MODULE TestGeneration_proofs -------------------------
(***************************************************************************)
(* Proofs about SymbolicExecution and TestGeneration.                      *)
(*                                                                         *)
(* Of the walk, for all products, any zones and both solvers, whatever     *)
(* they answer: what the texts are plays no part, it ends because of the   *)
(* shape of the tree alone.  The inductive invariant is the type invariant *)
(* and the bound; that a new state keeps the bound needs the chain of its  *)
(* parent to lie in the tree as it was, which the type invariant says.     *)
(*                                                                         *)
(* The facade runs the walk at most once, and nothing it does later        *)
(* touches the tree, so that what is proved of the walk holds of the       *)
(* whole call.                                                             *)
(*                                                                         *)
(* Then what the facade builds from the tree: that the places its locals   *)
(* refer to exist (SInv), that every state has the children the answers    *)
(* of the solvers allow (XInv), that test trees have the inputs beside     *)
(* their paths although the walk compares states by value (TInv), and that *)
(* test cases have the transitions of the states that have been met (DInv).*)
(*                                                                         *)
(* Last, what the texts mean: that the names of a state can be read (NInv),*)
(* that a step on texts is a step of the model, and that the children of a *)
(* state are the transitions the model can take, in their order (BInv).    *)
(***************************************************************************)
EXTENDS TestGeneration, SequenceTheorems, FiniteSetTheorems, TLAPS

IInv ==
    /\ zset \in Seq(Range(zset))
    /\ TypeOK
    /\ VisitsBounded
    /\ status = "called" => current = 0

\* The visits of a location along a chain of states of a tree.
VisitsAlong(tree, a, l) == {k \in DOMAIN a : tree[a[k]].location = l}

-----------------------------------------------------------------------------
(* The tree after Append.                                                  *)

\* A state that is appended leaves the others where they are.
LEMMA Appended ==
    ASSUME NEW tree, NEW n, tree \in Seq(Range(tree))
    PROVE  /\ Append(tree, n) \in Seq(Range(Append(tree, n)))
           /\ Len(Append(tree, n)) = Len(tree) + 1
           /\ DOMAIN Append(tree, n) = 1..Len(tree) + 1
           /\ DOMAIN tree = 1..Len(tree) /\ Len(tree) \in Nat
           /\ \A k \in 1..Len(tree) : Append(tree, n)[k] = tree[k]
           /\ Append(tree, n)[Len(tree) + 1] = n
<1> DEFINE S == Range(tree) \cup {n}
           bigger == Append(tree, n)
<1>1. tree \in Seq(S) /\ Len(tree) \in Nat /\ DOMAIN tree = 1..Len(tree)
  OBVIOUS
<1>2. /\ bigger \in Seq(S)
      /\ Len(bigger) = Len(tree) + 1
      /\ \A k \in 1..Len(tree) : bigger[k] = tree[k]
      /\ bigger[Len(tree) + 1] = n
  BY <1>1
<1>3. DOMAIN bigger = 1..Len(tree) + 1
  BY <1>1, <1>2
<1>4. \A k \in 1..Len(bigger) : bigger[k] \in Range(bigger)
  BY <1>2, <1>3 DEF Range
<1>5. bigger \in Seq(Range(bigger))
  BY <1>2, <1>3, <1>4
<1> QED
  BY <1>1, <1>2, <1>3, <1>5

(* Along the chain of a state of the tree, the visits are those of before; *)
(* along that of the new state, there is one more for its own location.    *)
LEMMA VisitsAppended ==
    ASSUME NEW tree, NEW n, tree \in Seq(Range(tree)),
           NEW a \in Seq(1..Len(tree)), NEW l
    PROVE  /\ VisitsAlong(Append(tree, n), a, l) = VisitsAlong(tree, a, l)
           /\ Cardinality(VisitsAlong(tree, a, l)) \in Nat
           /\ Cardinality(VisitsAlong(Append(tree, n), Append(a, Len(tree) + 1), l)) =
                 IF n.location = l THEN Cardinality(VisitsAlong(tree, a, l)) + 1
                 ELSE Cardinality(VisitsAlong(tree, a, l))
<1> DEFINE bigger   == Append(tree, n)
           b        == Append(a, Len(tree) + 1)
           before   == {k \in DOMAIN a : tree[a[k]].location = l}
           now      == {k \in DOMAIN a : bigger[a[k]].location = l}
           extended == {k \in DOMAIN b : bigger[b[k]].location = l}
<1>1. /\ Len(tree) \in Nat
      /\ \A k \in 1..Len(tree) : bigger[k] = tree[k]
      /\ bigger[Len(tree) + 1] = n
  BY Appended
<1>2. /\ Len(a) \in Nat /\ DOMAIN a = 1..Len(a)
      /\ \A k \in DOMAIN a : a[k] \in 1..Len(tree)
  OBVIOUS
<1>3. /\ DOMAIN b = 1..Len(a) + 1
      /\ \A k \in 1..Len(a) : b[k] = a[k]
      /\ b[Len(a) + 1] = Len(tree) + 1
  <2>1. a \in Seq(1..Len(tree) + 1) /\ Len(tree) + 1 \in 1..Len(tree) + 1
    BY <1>1
  <2> QED
    BY <2>1, <1>2
<1> HIDE DEF bigger, b
<1>4. now = before
  BY <1>1, <1>2
<1>5. /\ IsFiniteSet(before) /\ Cardinality(before) \in Nat
      /\ Len(a) + 1 \notin before
  <2>1. IsFiniteSet(1..Len(a))
    BY <1>2, FS_Interval
  <2>2. IsFiniteSet(before)
    BY <2>1, <1>2, FS_Subset
  <2> QED
    BY <2>2, <1>2, FS_CardinalityType
<1>6. extended = IF n.location = l THEN before \cup {Len(a) + 1} ELSE before
  <2>1. ASSUME NEW k \in DOMAIN a PROVE k \in extended <=> k \in before
    BY <2>1, <1>1, <1>2, <1>3
  <2>2. Len(a) + 1 \in extended <=> n.location = l
    BY <1>1, <1>2, <1>3
  <2>3. DOMAIN b = DOMAIN a \cup {Len(a) + 1}
    BY <1>2, <1>3
  <2>4. extended \subseteq DOMAIN b /\ before \subseteq DOMAIN a
    OBVIOUS
  <2> HIDE DEF before, extended
  <2>5. CASE n.location = l
    <3>1. extended \subseteq before \cup {Len(a) + 1}
      BY <2>1, <2>3, <2>4
    <3>2. before \cup {Len(a) + 1} \subseteq extended
      BY <2>1, <2>2, <2>4, <2>5
    <3> QED
      BY <3>1, <3>2, <2>5
  <2>6. CASE n.location # l
    <3>1. extended \subseteq before
      BY <2>1, <2>2, <2>3, <2>4, <2>6
    <3>2. before \subseteq extended
      BY <2>1, <2>4
    <3> QED
      BY <3>1, <3>2, <2>6
  <2> QED
    BY <2>5, <2>6
<1>7. Cardinality(extended) =
         IF n.location = l THEN Cardinality(before) + 1 ELSE Cardinality(before)
  BY <1>5, <1>6, FS_AddElement
<1> QED
  BY <1>4, <1>5, <1>7 DEF VisitsAlong, bigger, b

-----------------------------------------------------------------------------
(* The state an outgoing transition leads to.                              *)
LEMMA NextState ==
    ASSUME IInv, InLoop
    PROVE  /\ current \in 1..Len(zset)
           /\ nextZSES.location \in Label
           /\ nextZSES.zone \in Zone
           /\ nextZSES.ancestry = Append(zset[current].ancestry, Len(zset) + 1)
<1>1. /\ Len(zset) \in Nat /\ DOMAIN zset = 1..Len(zset)
      /\ current \in 1..Len(zset)
  BY DEF IInv, TypeOK, InLoop
<1>2. zset[current].location \in Label /\ zset[current].zone \in Zone
  BY <1>1 DEF IInv, TypeOK
<1>3. product \in Products
  BY DEF IInv, TypeOK
<1>4. OutTransitions \in Seq(UNION {Range(product.out[l]) : l \in Label})
  BY <1>2, <1>3, ProductsAssumption DEF OutTransitions, CurrentZSES
<1>5. i \in DOMAIN OutTransitions
  <2>1. i \in Nat \ {0} /\ i <= Len(OutTransitions)
    BY DEF IInv, TypeOK, InLoop
  <2> HIDE DEF OutTransitions
  <2> QED
    BY <2>1, <1>4
<1>6. /\ OutTransitions[i].target \in Label
      /\ NextZone(zset[current].zone, OutTransitions[i].clockGuard, OutTransitions[i].resets)
            \in Zone
  BY <1>2, <1>3, <1>5, ProductsAssumption, ZoneAssumption DEF OutTransitions, CurrentZSES
<1> QED
  BY <1>1, <1>6 DEF nextZSES, CurrentZSES, Ancestry

(* Adding that state keeps the invariant, if its location is on the path   *)
(* to the current state less than twice.                                   *)
LEMMA ExtendedTree ==
    ASSUME IInv, Extend
    PROVE  IInv'
<1> DEFINE n == nextZSES
           bigger == Append(zset, n)
           new == Len(zset) + 1
<1>1. /\ current \in 1..Len(zset)
      /\ n.location \in Label /\ n.zone \in Zone
      /\ n.ancestry = Append(zset[current].ancestry, new)
  BY NextState DEF Extend, Solved
<1>2. /\ zset' = bigger
      /\ unvisited' = Append(unvisited, new)
      /\ i' = i + 1
      /\ product' = product /\ current' = current /\ status' = status /\ silent' = silent
      /\ status # "called"
  BY DEF Extend, Continue, Solved, InLoop
<1>3. zset \in Seq(Range(zset))
  BY DEF IInv
<1>4. ~upperBoundReached(n.location, zset[current])
  BY DEF Extend, CurrentZSES
<1> HIDE DEF n
<1>5. /\ bigger \in Seq(Range(bigger))
      /\ Len(bigger) = new
      /\ DOMAIN bigger = 1..new
      /\ DOMAIN zset = 1..Len(zset) /\ Len(zset) \in Nat
      /\ \A k \in 1..Len(zset) : bigger[k] = zset[k]
      /\ bigger[new] = n
  BY <1>3, Appended
<1> HIDE DEF bigger
<1>6. \A k \in 1..Len(zset) :
         /\ zset[k].ancestry \in Seq(1..k)
         /\ zset[k].ancestry \in Seq(1..Len(zset))
  <2>1. SUFFICES ASSUME NEW k \in 1..Len(zset)
                 PROVE  /\ zset[k].ancestry \in Seq(1..k)
                        /\ zset[k].ancestry \in Seq(1..Len(zset))
    OBVIOUS
  <2>2. zset[k].ancestry \in Seq(1..k)
    BY <2>1, <1>5 DEF IInv, TypeOK
  <2>3. \A S, T : S \subseteq T => Seq(S) \subseteq Seq(T)
    OBVIOUS
  <2>4. 1..k \subseteq 1..Len(zset)
    BY <2>1, <1>5
  <2> QED
    BY <2>2, <2>3, <2>4
<1>7. TypeOK'
  <2>1. product' \in Products /\ status' \in Status /\ silent' \in 0..MaxSilent
    BY <1>2 DEF IInv, TypeOK
  <2>2. current' \in 0..Len(zset') /\ i' \in Nat \ {0}
    BY <1>2, <1>5 DEF IInv, TypeOK
  <2>3. unvisited' \in Seq(1..Len(zset'))
    <3>1. unvisited \in Seq(1..new)
      BY <1>5 DEF IInv, TypeOK
    <3>2. new \in 1..new
      BY <1>5
    <3> HIDE DEF new
    <3> QED
      BY <3>1, <3>2, <1>2, <1>5
  <2>4. ASSUME NEW k \in 1..Len(zset)
        PROVE  /\ bigger[k].location \in Label /\ bigger[k].zone \in Zone
               /\ bigger[k].ancestry \in Seq(1..k)
               /\ IF k = 1 THEN bigger[k].ancestry = <<1>>
                  ELSE \E parent \in 1..k - 1 :
                           bigger[k].ancestry = Append(bigger[parent].ancestry, k)
    <3>1. /\ zset[k].location \in Label /\ zset[k].zone \in Zone
          /\ zset[k].ancestry \in Seq(1..k)
          /\ IF k = 1 THEN zset[k].ancestry = <<1>>
             ELSE \E parent \in 1..k - 1 :
                      zset[k].ancestry = Append(zset[parent].ancestry, k)
      BY <2>4, <1>5 DEF IInv, TypeOK
    <3>2. \A parent \in 1..k - 1 : bigger[parent] = zset[parent]
      BY <1>5
    <3> QED
      BY <3>1, <3>2, <1>5
  <2>5. /\ bigger[new].location \in Label /\ bigger[new].zone \in Zone
        /\ bigger[new].ancestry \in Seq(1..new)
        /\ new # 1
        /\ \E parent \in 1..new - 1 :
               bigger[new].ancestry = Append(bigger[parent].ancestry, new)
    <3>1. zset[current].ancestry \in Seq(1..new) /\ new \in 1..new
      BY <1>1, <1>5, <1>6
    <3>2. bigger[current] = zset[current] /\ current \in 1..new - 1 /\ new # 1
      BY <1>1, <1>5
    <3>3. Append(zset[current].ancestry, new) \in Seq(1..new)
      <4> HIDE DEF new
      <4> QED
        BY <3>1
    <3>4. bigger[new].ancestry = Append(bigger[current].ancestry, new)
      BY <3>2, <1>1, <1>5
    <3> QED
      BY <3>2, <3>3, <3>4, <1>1, <1>5
  <2>6. \A k \in 1..new : k \in 1..Len(zset) \/ k = new
    BY <1>5
  <2> HIDE DEF new
  <2> QED
    BY <2>1, <2>2, <2>3, <2>4, <2>5, <2>6, <1>2, <1>5 DEF TypeOK
<1>8. VisitsBounded'
  <2>1. SUFFICES ASSUME NEW k \in 1..new, NEW l \in Label
                 PROVE  Cardinality(Visits(zset[k], l)') <= 2
    BY <1>2, <1>5 DEF VisitsBounded, Visits
  <2>2. CASE k \in 1..Len(zset)
    <3>1. Visits(zset[k], l)' = Visits(zset[k], l)
      <4>1. /\ Visits(zset[k], l)' = VisitsAlong(bigger, zset[k].ancestry, l)
            /\ Visits(zset[k], l) = VisitsAlong(zset, zset[k].ancestry, l)
        BY <2>2, <1>2, <1>5 DEF Visits, VisitsAlong
      <4> QED
        BY <4>1, <2>2, <1>3, <1>6, VisitsAppended DEF bigger
    <3>2. Cardinality(Visits(zset[k], l)) <= 2
      BY <2>2, <1>5 DEF IInv, VisitsBounded
    <3> QED
      BY <3>1, <3>2
  <2>3. CASE k = new
    <3> DEFINE a == zset[current].ancestry
    <3>1. a \in Seq(1..Len(zset))
      BY <1>1, <1>6
    <3>2. /\ Visits(zset[k], l)' = VisitsAlong(bigger, Append(a, new), l)
          /\ Visits(zset[current], l) = VisitsAlong(zset, a, l)
      BY <2>3, <1>1, <1>2, <1>5 DEF Visits, VisitsAlong
    <3> HIDE DEF a
    <3>3. /\ Cardinality(Visits(zset[current], l)) \in Nat
          /\ Cardinality(Visits(zset[k], l)') =
                IF n.location = l THEN Cardinality(Visits(zset[current], l)) + 1
                ELSE Cardinality(Visits(zset[current], l))
      BY <3>1, <3>2, <1>3, VisitsAppended DEF bigger
    <3>4. Cardinality(Visits(zset[current], l)) <= 2
      BY <1>1, <1>5 DEF IInv, VisitsBounded
    <3>5. n.location = l => ~(Cardinality(Visits(zset[current], l)) >= 2)
      BY <1>4 DEF upperBoundReached
    <3> QED
      BY <3>3, <3>4, <3>5
  <2> QED
    BY <2>1, <2>2, <2>3, <1>5
<1> QED
  BY <1>2, <1>5, <1>7, <1>8 DEF IInv

-----------------------------------------------------------------------------
(* The invariant is inductive.                                             *)

(* A state with the chain <<1>> and nothing else is a tree.                *)
LEMMA StartedTree == ASSUME IInv, Start PROVE IInv'
<1>1. PICK zone \in {InitialZone, NoZone} :
         /\ zone = NoZone => silent < MaxSilent
         /\ silent' = IF zone = NoZone THEN silent + 1 ELSE silent
         /\ zset' = <<InitialState(zone)>>
  BY DEF Start
<1>2. /\ unvisited' = <<1>> /\ status' = "executing" /\ status = "called"
      /\ product' = product /\ current' = current /\ i' = i
  BY DEF Start
<1> DEFINE root == InitialState(zone)
<1>3. /\ root.location \in Label /\ root.zone \in Zone /\ root.ancestry = <<1>>
  BY ProductsAssumption, ZoneAssumption DEF IInv, TypeOK, InitialState
<1> HIDE DEF root
<1>4. zset' = <<root>>
  BY <1>1 DEF root
<1>5. /\ zset' \in Seq(Range(zset')) /\ DOMAIN zset' = {1} /\ Len(zset') = 1
      /\ zset'[1] = root
  BY <1>4 DEF Range
<1>6. silent' \in 0..MaxSilent
  BY <1>1, SilentAssumption DEF IInv, TypeOK
<1>7. TypeOK'
  <2>1. product' \in Products /\ status' \in Status
    BY <1>2 DEF IInv, TypeOK, Status
  <2>2. current' \in 0..Len(zset') /\ i' \in Nat \ {0}
    BY <1>2, <1>5 DEF IInv, TypeOK
  <2>3. unvisited' \in Seq(1..Len(zset')) /\ <<1>> \in Seq(1..1)
    BY <1>2, <1>5
  <2> QED
    BY <2>1, <2>2, <2>3, <1>3, <1>5, <1>6 DEF TypeOK
<1>8. VisitsBounded'
  <2>1. SUFFICES ASSUME NEW l \in Label
                 PROVE  Cardinality(Visits(zset[1], l)') <= 2
    BY <1>5 DEF VisitsBounded, Visits
  <2>2. Visits(zset[1], l)' \subseteq {1}
    BY <1>3, <1>5 DEF Visits
  <2>3. IsFiniteSet({1}) /\ Cardinality({1}) = 1
    BY FS_Singleton
  <2>4. Cardinality(Visits(zset[1], l)') <= 1
    BY <2>2, <2>3, FS_Subset
  <2>5. Cardinality(Visits(zset[1], l)') \in Nat
    BY <2>2, <2>3, FS_Subset, FS_CardinalityType
  <2> QED
    BY <2>4, <2>5
<1> QED
  BY <1>2, <1>5, <1>7, <1>8 DEF IInv

(* An exception leaves no tree.                                            *)
LEMMA RaisedException ==
    ASSUME IInv, NEW exception \in Status \ {"called"}, Raise(exception)
    PROVE  IInv'
<1>1. /\ zset' = <<>> /\ unvisited' = <<>> /\ current' = 0 /\ i' = 1
      /\ status' = exception /\ product' = product /\ silent' = silent
  BY DEF Raise
<1>2. zset' \in Seq(Range(zset')) /\ DOMAIN zset' = {} /\ Len(zset') = 0
  BY <1>1 DEF Range
<1>3. TypeOK'
  BY <1>1, <1>2 DEF IInv, TypeOK
<1>4. VisitsBounded'
  BY <1>2 DEF VisitsBounded
<1> QED
  BY <1>1, <1>2, <1>3, <1>4 DEF IInv

(* Every step of the walk keeps the invariant.                             *)
THEOREM Invariance == Spec => []IInv
<1>1. Init => IInv
  <2>1. ASSUME Init PROVE IInv
    <3>1. /\ product \in Products /\ zset = <<>> /\ unvisited = <<>> /\ current = 0
          /\ i = 1 /\ silent = 0 /\ status = "called"
      BY <2>1 DEF Init
    <3>2. zset \in Seq(Range(zset)) /\ DOMAIN zset = {} /\ Len(zset) = 0
      BY <3>1 DEF Range
    <3>3. TypeOK
      BY <3>1, <3>2, SilentAssumption DEF TypeOK, Status
    <3>4. VisitsBounded
      BY <3>2 DEF VisitsBounded
    <3> QED
      BY <3>1, <3>2, <3>3, <3>4 DEF IInv
  <2> QED
    BY <2>1
<1>2. IInv /\ [Next]_vars => IInv'
  <2> SUFFICES ASSUME IInv, [Next]_vars PROVE IInv'
    OBVIOUS
  \* The tree stays: what is left to show is about the queue and the loop.
  <2>1. ASSUME zset' = zset, product' = product,
               status' \in Status, silent' \in 0..MaxSilent,
               current' \in 0..Len(zset), i' \in Nat \ {0},
               unvisited' \in Seq(1..Len(zset)),
               status' = "called" => current' = 0
        PROVE  IInv'
    <3>1. TypeOK'
      BY <2>1 DEF IInv, TypeOK
    <3>2. VisitsBounded'
      BY <2>1 DEF IInv, VisitsBounded, Visits
    <3> QED
      BY <2>1, <3>1, <3>2 DEF IInv
  <2>2. /\ product \in Products /\ status \in Status /\ silent \in 0..MaxSilent
        /\ current \in 0..Len(zset) /\ i \in Nat \ {0}
        /\ unvisited \in Seq(1..Len(zset)) /\ Len(zset) \in Nat
        /\ status = "called" => current = 0
    BY DEF IInv, TypeOK
  <2>3. CASE Start
    BY <2>3, StartedTree
  <2>4. CASE NoSolver
    BY <2>4, RaisedException DEF NoSolver, Status
  <2>5. CASE Pick
    <3>1. /\ zset' = zset /\ product' = product /\ status' = status /\ silent' = silent
          /\ current' = Head(unvisited) /\ unvisited' = Tail(unvisited) /\ i' = 1
          /\ unvisited # <<>> /\ status = "executing"
      BY <2>5 DEF Pick
    <3>2. current' \in 1..Len(zset) /\ unvisited' \in Seq(1..Len(zset))
      BY <3>1, <2>2
    <3> QED
      BY <3>1, <3>2, <2>1, <2>2
  <2>6. CASE Throw
    <3>1. PICK exception \in {"SymbolicValueNameException", "NumberFormatException",
                              "NullPointerException"} : Raise(exception)
      BY <2>6 DEF Throw
    <3> QED
      BY <3>1, RaisedException DEF Status
  <2>7. CASE Extend
    BY <2>7, ExtendedTree
  <2>8. CASE Cut
    <3>1. /\ zset' = zset /\ unvisited' = unvisited /\ silent' = silent
          /\ i' = i + 1 /\ product' = product /\ current' = current /\ status' = status
      BY <2>8 DEF Cut, Continue
    <3> QED
      BY <3>1, <2>1, <2>2
  <2>9. CASE Silent
    <3>1. /\ zset' = zset /\ unvisited' = unvisited /\ silent' = silent + 1
          /\ i' = i + 1 /\ product' = product /\ current' = current /\ status' = status
          /\ silent < MaxSilent
      BY <2>9 DEF Silent, Continue
    <3> QED
      BY <3>1, <2>1, <2>2, SilentAssumption
  <2>10. CASE Leave
    BY <2>10, <2>1, <2>2 DEF Leave
  <2>11. CASE Return
    BY <2>11, <2>1, <2>2 DEF Return, Status
  <2>12. CASE UNCHANGED vars
    BY <2>12, <2>1, <2>2 DEF vars
  <2> QED
    BY <2>3, <2>4, <2>5, <2>6, <2>7, <2>8, <2>9, <2>10, <2>11, <2>12 DEF Next
<1> QED
  BY <1>1, <1>2, PTL DEF Spec

-----------------------------------------------------------------------------
(* What the runs check.                                                    *)

(* The queue and the loop refer to states of the tree, and the chain of    *)
(* every state leads to the root, in every execution.                      *)
THEOREM TypeCorrect == Spec => []TypeOK
<1>1. IInv => TypeOK
  BY DEF IInv
<1> QED
  BY <1>1, Invariance, PTL

(* "each path of the ZSET has at most two ZSES corresponding to the same   *)
(* TIOSTS location", for every product, whatever the solvers answer.       *)
THEOREM TwoVisits == Spec => []VisitsBounded
<1>1. IInv => VisitsBounded
  BY DEF IInv
<1> QED
  BY <1>1, Invariance, PTL

-----------------------------------------------------------------------------
(* The facade.                                                             *)

\* The steps after the execution have its complete tree, or null.
Ordered ==
    /\ stage \in {"completion", "product"} => status = "called"
    /\ stage \in {"selection", "transformation"} /\ ~missing => status = "returned"
    /\ stage = "transformation" => ~missing

(* Every step of the facade is a step of the walk or leaves it alone.      *)
LEMMA StepOfWalk == GenerationNext => [Next]_vars
<1> SUFFICES ASSUME GenerationNext PROVE [Next]_vars
  OBVIOUS
<1>1. CASE Execute
  BY <1>1 DEF Execute
<1>2. CASE Complete \/ Multiply
  BY <1>2 DEF Complete, Multiply, Prepare
<1>3. CASE ExecuteNothing \/ Executed
  BY <1>3 DEF ExecuteNothing, Executed
<1>4. CASE SelectNothing \/ SelectTestCase \/ AddMissingInputs \/ TestCaseSelected \/ Selected
  BY <1>4 DEF SelectNothing, SelectTestCase, AddMissingInputs, TestCaseSelected, Selected
<1>5. CASE BeginTestCase \/ AddChild \/ LeaveState \/ Transformed
  BY <1>5 DEF BeginTestCase, AddChild, LeaveState, Transformed
<1> QED
  BY <1>1, <1>2, <1>3, <1>4, <1>5 DEF GenerationNext

(* The call as a whole is an execution of the walk: steps of the facade    *)
(* are stuttering steps of it.                                             *)
THEOREM ImplementsWalk == GenerationSpec => Spec
<1>1. GenerationInit => Init
  BY DEF GenerationInit
<1>2. [GenerationNext]_allVars => [Next]_vars
  BY StepOfWalk DEF allVars, vars
<1> QED
  BY <1>1, <1>2, PTL DEF GenerationSpec, Spec

(* The bound on paths holds throughout the call of the facade: also when   *)
(* test cases are selected from the tree.                                  *)
THEOREM TwoVisitsInCall == GenerationSpec => []VisitsBounded
  BY ImplementsWalk, TwoVisits, PTL

(* The steps of the facade follow each other.                              *)
LEMMA InOrder == GenerationSpec => []Ordered
<1>1. GenerationInit => Ordered
  BY DEF GenerationInit, Init, Ordered
<1>2. Ordered /\ [GenerationNext]_allVars => Ordered'
  <2> SUFFICES ASSUME Ordered, [GenerationNext]_allVars PROVE Ordered'
    OBVIOUS
  <2>1. CASE Execute
    BY <2>1 DEF Execute, Ordered
  <2>2. CASE Complete \/ Multiply
    BY <2>2 DEF Complete, Multiply, Prepare, Crash, Ordered, vars
  <2>3. CASE ExecuteNothing \/ SelectNothing
    BY <2>3 DEF ExecuteNothing, SelectNothing, Crash, Ordered
  <2>4. CASE Executed
    BY <2>4 DEF Executed, Ordered, vars
  <2>5. CASE SelectTestCase
    BY <2>5 DEF SelectTestCase, Crash, Selecting, Ordered, vars
  <2>6. CASE AddMissingInputs
    BY <2>6 DEF AddMissingInputs, Crash, Selecting, Ordered, vars
  <2>7. CASE TestCaseSelected \/ Selected
    BY <2>7 DEF TestCaseSelected, Selected, Selecting, Ordered, vars
  <2>8. CASE BeginTestCase \/ AddChild \/ LeaveState
    BY <2>8 DEF BeginTestCase, AddChild, LeaveState, Ordered, vars
  <2>9. CASE Transformed
    BY <2>9 DEF Transformed, Ordered
  <2>10. CASE UNCHANGED allVars
    BY <2>10 DEF Ordered, allVars
  <2> QED
    BY <2>1, <2>2, <2>3, <2>4, <2>5, <2>6, <2>7, <2>8, <2>9, <2>10 DEF GenerationNext
<1> QED
  BY <1>1, <1>2, PTL DEF GenerationSpec

(* Selection and transformation work on the tree of an execution that has  *)
(* returned, never on that of one that threw; and none of them changes it. *)
THEOREM SelectedFromComplete ==
    GenerationSpec => [](stage = "transformation" => status = "returned")
                      /\ [][stage # "execution" => UNCHANGED vars]_allVars
<1>1. Ordered => (stage = "transformation" => status = "returned")
  BY DEF Ordered
<1>2. [GenerationNext]_allVars => [stage # "execution" => UNCHANGED vars]_allVars
  <2> SUFFICES ASSUME GenerationNext, stage # "execution" PROVE UNCHANGED vars
    OBVIOUS
  <2>1. CASE Complete \/ Multiply
    BY <2>1 DEF Complete, Multiply, Prepare
  <2>2. CASE SelectNothing \/ SelectTestCase \/ AddMissingInputs \/ TestCaseSelected
                 \/ Selected
    BY <2>2 DEF SelectNothing, SelectTestCase, AddMissingInputs, TestCaseSelected, Selected
  <2>3. CASE BeginTestCase \/ AddChild \/ LeaveState \/ Transformed
    BY <2>3 DEF BeginTestCase, AddChild, LeaveState, Transformed
  <2> QED
    BY <2>1, <2>2, <2>3 DEF GenerationNext, Execute, ExecuteNothing, Executed
<1> QED
  BY <1>1, <1>2, InOrder, PTL DEF GenerationSpec

-----------------------------------------------------------------------------
(* Finite sets of numbers in increasing order.                             *)

\* The place of a number of the set, counted from 0.
Rank(S, k) == Cardinality({j \in S : j < k})

(* The places of the numbers of a set are the first ones, each has its own *)
(* and smaller numbers have smaller ones.                                  *)
LEMMA Ranks ==
    ASSUME NEW n \in Nat, NEW S \in SUBSET (1..n)
    PROVE  /\ IsFiniteSet(S) /\ Cardinality(S) \in Nat
           /\ \A k \in S : Rank(S, k) \in 0..Cardinality(S) - 1
           /\ \A j, k \in S : j < k => Rank(S, j) < Rank(S, k)
           /\ \A q \in 1..Cardinality(S) : \E k \in S : Rank(S, k) = q - 1
<1>1. IsFiniteSet(S) /\ Cardinality(S) \in Nat
  <2>1. IsFiniteSet(1..n)
    BY FS_Interval
  <2>2. IsFiniteSet(S)
    BY <2>1, FS_Subset
  <2> QED
    BY <2>2, FS_CardinalityType
<1> DEFINE below(k) == {j \in S : j < k}
<1>2. \A k \in S : k \in Nat
  OBVIOUS
<1>3. ASSUME NEW k \in S
      PROVE  /\ IsFiniteSet(below(k)) /\ Cardinality(below(k)) \in Nat
             /\ Cardinality(below(k)) < Cardinality(S)
  <2>1. IsFiniteSet(S \ {k}) /\ Cardinality(S \ {k}) = Cardinality(S) - 1
    BY <1>1, FS_RemoveElement
  <2>2. below(k) \subseteq S \ {k}
    BY <1>2
  <2> HIDE DEF below
  <2>3. IsFiniteSet(below(k)) /\ Cardinality(below(k)) <= Cardinality(S) - 1
    BY <2>1, <2>2, FS_Subset
  <2> QED
    BY <2>3, <1>1, FS_CardinalityType
<1>4. ASSUME NEW j \in S, NEW k \in S, j < k
      PROVE  Cardinality(below(j)) < Cardinality(below(k))
  <2>1. below(j) \cup {j} \subseteq below(k) /\ j \notin below(j)
    <3>1. j \in Nat /\ k \in Nat
      BY <1>2
    <3>2. ASSUME NEW h \in S, h < j PROVE h < k
      BY <3>1, <3>2, <1>2, <1>4
    <3>3. below(j) \subseteq below(k) /\ j \in below(k)
      BY <3>2, <1>4
    <3>4. j \notin below(j)
      BY <3>1
    <3> HIDE DEF below
    <3> QED
      BY <3>3, <3>4
  <2>2. /\ IsFiniteSet(below(j)) /\ IsFiniteSet(below(k))
        /\ Cardinality(below(j)) \in Nat /\ Cardinality(below(k)) \in Nat
    BY <1>3
  <2> HIDE DEF below
  <2>3. Cardinality(below(j) \cup {j}) = Cardinality(below(j)) + 1
    BY <2>1, <2>2, FS_AddElement
  <2>4. Cardinality(below(j) \cup {j}) <= Cardinality(below(k))
    BY <2>1, <2>2, FS_Subset
  <2> QED
    BY <2>2, <2>3, <2>4
<1>5. \A k \in S : Rank(S, k) = Cardinality(below(k))
  BY DEF Rank
<1> HIDE DEF below
<1> DEFINE c == Cardinality(S)
           f == [k \in S |-> Rank(S, k) + 1]
<1>6. /\ \A k \in S : Rank(S, k) \in 0..c - 1
      /\ \A j, k \in S : j < k => Rank(S, j) < Rank(S, k)
  BY <1>1, <1>3, <1>4, <1>5
<1>7. f \in Injection(S, 1..c)
  <2>1. f \in [S -> 1..c]
    BY <1>1, <1>6
  <2>2. ASSUME NEW j \in S, NEW k \in S, f[j] = f[k] PROVE j = k
    BY <2>2, <1>2, <1>6
  <2> QED
    BY <2>1, <2>2 DEF Injection, IsInjective
<1>8. IsFiniteSet(1..c) /\ Cardinality(1..c) = c
  <2> HIDE DEF c
  <2>1. c \in Nat
    BY <1>1 DEF c
  <2> QED
    BY <2>1, FS_Interval
<1>9. f \in Surjection(S, 1..c)
  <2> HIDE DEF f
  <2> QED
    BY <1>7, <1>8, FS_Injection
<1>10. \A q \in 1..c : \E k \in S : f[k] = q
  BY <1>9 DEF Surjection
<1>11. \A q \in 1..c : \E k \in S : Rank(S, k) = q - 1
  BY <1>1, <1>6, <1>10
<1> QED
  BY <1>1, <1>6, <1>11

(* The sequence has the numbers of the set, all of them, the least first.  *)
LEMMA AscendingOf ==
    ASSUME NEW n \in Nat, NEW S \in SUBSET (1..n)
    PROVE  /\ Ascending(S) \in Seq(S)
           /\ Len(Ascending(S)) = Cardinality(S) /\ Cardinality(S) \in Nat
           /\ \A q \in 1..Cardinality(S) : Ascending(S)[q] \in S
           /\ \A k \in S : \E q \in 1..Cardinality(S) : Ascending(S)[q] = k
           /\ S # {} => 1 \in 1..Cardinality(S)
           /\ \A k \in S : Ascending(S)[1] <= k
<1>1. /\ IsFiniteSet(S) /\ Cardinality(S) \in Nat
      /\ \A k \in S : Rank(S, k) \in 0..Cardinality(S) - 1
      /\ \A j, k \in S : j < k => Rank(S, j) < Rank(S, k)
      /\ \A q \in 1..Cardinality(S) : \E k \in S : Rank(S, k) = q - 1
  BY Ranks
<1> DEFINE c == Cardinality(S)
           s == Ascending(S)
<1>2. \A k \in S : k \in Nat
  OBVIOUS
<1>3. ASSUME NEW q \in 1..c
      PROVE  s[q] \in S /\ Rank(S, s[q]) = q - 1
  <2>1. s[q] = CHOOSE k \in S : Rank(S, k) = q - 1
    BY DEF Ascending, Rank
  <2>2. \E k \in S : Rank(S, k) = q - 1
    BY <1>1
  <2> HIDE DEF s
  <2> QED
    BY <2>1, <2>2
<1>4. s \in [1..c -> S]
  <2>1. s = [q \in 1..c |-> s[q]]
    BY DEF Ascending
  <2> HIDE DEF s
  <2> QED
    BY <1>3, <2>1
<1> HIDE DEF s
<1> HIDE DEF c
<1>5. s \in Seq(S) /\ Len(s) = c /\ c \in Nat
  <2>1. c \in Nat
    BY <1>1 DEF c
  <2> QED
    BY <2>1, <1>4
<1>6. ASSUME NEW k \in S PROVE s[Rank(S, k) + 1] = k
  <2> DEFINE x == s[Rank(S, k) + 1]
  <2>1. Rank(S, k) + 1 \in 1..c /\ Rank(S, k) \in Nat
    BY <1>1, <1>5 DEF c
  <2>2. x \in S /\ Rank(S, x) = Rank(S, k)
    BY <1>3, <2>1
  <2> HIDE DEF x
  <2>3. x \in Nat /\ k \in Nat
    BY <1>2, <2>2
  <2>4. x < k => Rank(S, x) < Rank(S, k)
    BY <1>1, <2>2
  <2>5. k < x => Rank(S, k) < Rank(S, x)
    BY <1>1, <2>2
  <2>6. x = k
    BY <2>1, <2>2, <2>3, <2>4, <2>5
  <2> QED
    BY <2>6 DEF x
<1>7. \A k \in S : \E q \in 1..c : s[q] = k
  <2>1. \A k \in S : Rank(S, k) + 1 \in 1..c
    BY <1>1, <1>5 DEF c
  <2> QED
    BY <2>1, <1>6
<1>8. ASSUME NEW k \in S PROVE s[1] <= k /\ 1 \in 1..c
  <2>1. Rank(S, k) \in 0..c - 1
    BY <1>1 DEF c
  <2>2. 1 \in 1..c /\ Rank(S, k) \in Nat
    BY <2>1, <1>5
  <2>3. s[1] \in S /\ Rank(S, s[1]) = 0
    BY <1>3, <2>2
  <2>4. k < s[1] => Rank(S, k) < Rank(S, s[1])
    BY <1>1, <2>3
  <2>5. ~(k < s[1])
    BY <2>2, <2>3, <2>4
  <2>6. s[1] \in Nat /\ k \in Nat
    BY <1>2, <2>3
  <2> QED
    BY <2>2, <2>5, <2>6
<1>9. S # {} => 1 \in 1..c
  BY <1>8
<1> QED
  BY <1>3, <1>5, <1>7, <1>8, <1>9 DEF s, c

\* A set of numbers that is not empty has a least one.
LEMMA LeastOf ==
    ASSUME NEW n \in Nat, NEW S \in SUBSET (1..n), S # {}
    PROVE  Min(S) \in S /\ \A k \in S : Min(S) <= k
<1>1. /\ 1 \in 1..Cardinality(S)
      /\ \A q \in 1..Cardinality(S) : Ascending(S)[q] \in S
      /\ \A k \in S : Ascending(S)[1] <= k
  BY AscendingOf
<1>2. \E x \in S : \A k \in S : x <= k
  BY <1>1
<1> QED
  BY <1>2 DEF Min

\* A sequence is one of its own elements.
LEMMA OwnRange == ASSUME NEW R, NEW s \in Seq(R) PROVE s \in Seq(Range(s))
<1>1. DOMAIN s = 1..Len(s) /\ Len(s) \in Nat
  OBVIOUS
<1>2. \A k \in 1..Len(s) : s[k] \in Range(s)
  BY <1>1 DEF Range
<1> QED
  BY <1>1, <1>2

\* One element of a sequence is replaced.
LEMMA Replaced ==
    ASSUME NEW s, s \in Seq(Range(s)), NEW n \in 1..Len(s), NEW e,
           NEW b, b = [s EXCEPT ![n] = e]
    PROVE  /\ b \in Seq(Range(b)) /\ Len(b) = Len(s) /\ DOMAIN b = DOMAIN s
           /\ b[n] = e /\ \A k \in 1..Len(s) : k # n => b[k] = s[k]
<1>1. s \in [1..Len(s) -> Range(s)] /\ Len(s) \in Nat /\ DOMAIN s = 1..Len(s)
  OBVIOUS
<1>2. /\ b \in [1..Len(s) -> Range(s) \cup {e}] /\ DOMAIN b = DOMAIN s
      /\ b[n] = e /\ \A k \in 1..Len(s) : k # n => b[k] = s[k]
  BY <1>1
<1>3. b \in Seq(Range(s) \cup {e}) /\ Len(b) = Len(s)
  BY <1>1, <1>2
<1> QED
  BY <1>2, <1>3, OwnRange

\* A sequence after another one.
LEMMA Concatenated ==
    ASSUME NEW s, NEW t, s \in Seq(Range(s)), t \in Seq(Range(t)), NEW b, b = s \o t
    PROVE  /\ b \in Seq(Range(b))
           /\ Len(s) \in Nat /\ Len(t) \in Nat /\ Len(b) = Len(s) + Len(t)
           /\ \A q \in 1..Len(s) : b[q] = s[q]
           /\ \A q \in 1..Len(t) : b[Len(s) + q] = t[q]
<1> DEFINE R == Range(s) \cup Range(t)
<1>1. s \in Seq(R) /\ t \in Seq(R) /\ Len(s) \in Nat /\ Len(t) \in Nat
  OBVIOUS
<1> HIDE DEF R
<1>2. /\ b \in Seq(R) /\ Len(b) = Len(s) + Len(t)
      /\ \A q \in 1..Len(s) : b[q] = s[q]
      /\ \A q \in 1..Len(t) : b[Len(s) + q] = t[q]
  BY <1>1
<1>3. b \in Seq(Range(b))
  BY <1>2, OwnRange
<1> QED
  BY <1>1, <1>2, <1>3

-----------------------------------------------------------------------------
(* A test tree.                                                            *)

\* The path a copies from the tree z comes first; the other states hang on
\* it, not below its end.
Structured(tree, z, a) ==
    /\ tree \in Seq(Range(tree)) /\ Len(a) <= Len(tree)
    /\ \A p \in 1..Len(a) : tree[p] = Copied(z[a[p]], p - 1)
    /\ \A q \in Len(a) + 1..Len(tree) :
          tree[q].parent \in 1..Len(a) - 1 /\ tree[q].location \in TestLabel

\* The states a set of test states has below k are a set of numbers.
LEMMA ChildNumbers ==
    ASSUME NEW tree, tree \in Seq(Range(tree)), NEW k
    PROVE  /\ Len(tree) \in Nat /\ DOMAIN tree = 1..Len(tree)
           /\ {c \in DOMAIN tree : tree[c].parent = k} \in SUBSET (1..Len(tree))
  OBVIOUS

(* The first child of a state of the path is the next state of the path;   *)
(* the end of the path has none.                                           *)
LEMMA AlongPath ==
    ASSUME NEW tree, NEW z, NEW a, Len(a) \in Nat, Structured(tree, z, a),
           NEW k \in 1..Len(a)
    PROVE  /\ k < Len(a) => TreeChildren(tree, k) # <<>> /\ Head(TreeChildren(tree, k)) = k + 1
           /\ k = Len(a) => TreeChildren(tree, k) = <<>>
<1> DEFINE S == {c \in DOMAIN tree : tree[c].parent = k}
           s == Ascending(S)
           card == Cardinality(S)
<1>1. /\ Len(tree) \in Nat /\ DOMAIN tree = 1..Len(tree) /\ Len(a) <= Len(tree)
      /\ S \in SUBSET (1..Len(tree))
  BY ChildNumbers DEF Structured
<1>2. /\ s \in Seq(S) /\ Len(s) = card /\ card \in Nat
      /\ \A q \in 1..card : s[q] \in S
      /\ S # {} => 1 \in 1..card
      /\ \A c \in S : s[1] <= c
  <2> HIDE DEF S
  <2> QED
    BY <1>1, AscendingOf
<1>3. TreeChildren(tree, k) = s
  BY DEF TreeChildren
<1>4. \A p \in 1..Len(a) : tree[p].parent = p - 1
  <2>1. \A p \in 1..Len(a) : tree[p] = Copied(z[a[p]], p - 1)
    BY DEF Structured
  <2>2. \A n, p : Copied(n, p).parent = p
    BY DEF Copied
  <2> QED
    BY <2>1, <2>2
<1>5. \A q \in Len(a) + 1..Len(tree) : tree[q].parent \in 1..Len(a) - 1
  BY DEF Structured
<1>6. ASSUME NEW c \in S PROVE c > k /\ k < Len(a)
  <2>1. c \in 1..Len(tree) /\ tree[c].parent = k
    BY <1>1
  <2>2. CASE c \in 1..Len(a)
    BY <2>1, <2>2, <1>4
  <2>3. CASE c \in Len(a) + 1..Len(tree)
    BY <2>1, <2>3, <1>5
  <2> QED
    BY <2>1, <2>2, <2>3, <1>1
<1>7. ASSUME k < Len(a) PROVE k + 1 \in S
  BY <1>1, <1>4, <1>7
<1> HIDE DEF S, s, card
<1>8. ASSUME k < Len(a) PROVE s # <<>> /\ Head(s) = k + 1
  <2>1. 1 \in 1..card /\ s[1] \in S /\ s[1] <= k + 1
    BY <1>2, <1>7, <1>8
  <2>2. s[1] > k /\ s[1] \in 1..Len(tree)
    BY <1>1, <1>6, <2>1
  <2>3. s[1] = k + 1
    BY <2>1, <2>2
  <2>4. s # <<>> /\ Head(s) = s[1]
    BY <2>1, <1>2
  <2> QED
    BY <2>3, <2>4
<1>9. ASSUME k = Len(a) PROVE s = <<>>
  <2>1. S = {}
    BY <1>6, <1>9
  <2> QED
    BY <2>1, <1>2
<1> QED
  BY <1>3, <1>8, <1>9

\* The inputs after a state that are not the one to next.
Others(next, z, zs) ==
    {c \in ChildStates(z, zs) :
        isInput(z[c]) /\ ~(isInput(next) /\ SameTransition(next, z[c]))}

\* The states that have been added behind are the leaves for S.
Hung(tree, bigger, z, S, k) ==
    /\ Len(tree) <= Len(bigger) /\ \A q \in 1..Len(tree) : bigger[q] = tree[q]
    /\ \A q \in Len(tree) + 1..Len(bigger) : \E c \in S : bigger[q] = Leaf(z[c], k)
    /\ \A c \in S : \E q \in Len(tree) + 1..Len(bigger) : bigger[q] = Leaf(z[c], k)

(* The leaves for the inputs that are left out are added behind, each with *)
(* its input; the tree keeps its structure.                                *)
LEMMA WithLeaves ==
    ASSUME NEW tree, NEW z, NEW a, Len(a) \in Nat, Structured(tree, z, a),
           NEW k \in 1..Len(a) - 1, NEW next, NEW zs,
           z \in Seq(Range(z)), \A c \in DOMAIN z : z[c].location \in Label,
           NEW S, S = Others(next, z, zs),
           NEW bigger, bigger = tree \o Leaves(next, z, zs, k)
    PROVE  Structured(bigger, z, a) /\ Hung(tree, bigger, z, S, k)
<1> DEFINE s == Ascending(S)
           card == Cardinality(S)
           more == [c \in 1..card |-> Leaf(z[s[c]], k)]
<1>1. Len(z) \in Nat /\ DOMAIN z = 1..Len(z) /\ S \in SUBSET (1..Len(z))
  BY DEF ChildStates, Others
<1>2. /\ s \in Seq(S) /\ Len(s) = card /\ card \in Nat
      /\ \A q \in 1..card : s[q] \in S
      /\ \A c \in S : \E q \in 1..card : s[q] = c
  BY <1>1, AscendingOf
<1>3. bigger = tree \o more
  <2>1. getRemainingInputTransitions(next, z, zs) = s
    BY DEF getRemainingInputTransitions, Others
  <2>2. DOMAIN s = 1..card
    BY <1>2
  <2> HIDE DEF s
  <2> QED
    BY <2>1, <2>2 DEF Leaves
<1> HIDE DEF s, card
<1>4. more \in Seq(Range(more)) /\ Len(more) = card /\ DOMAIN more = 1..card
  <2>1. card \in Nat /\ DOMAIN more = 1..card
    BY <1>2
  <2>2. more \in [1..card -> Range(more)]
    BY DEF Range
  <2> HIDE DEF more
  <2> QED
    BY <2>1, <2>2
<1>5. \A q \in 1..card : more[q] = Leaf(z[s[q]], k)
  OBVIOUS
<1> HIDE DEF more
<1>6. tree \in Seq(Range(tree)) /\ Len(tree) \in Nat /\ Len(a) <= Len(tree)
  BY DEF Structured
<1>7. /\ Len(bigger) = Len(tree) + card /\ bigger \in Seq(Range(bigger))
      /\ \A q \in 1..Len(tree) : bigger[q] = tree[q]
      /\ \A q \in 1..card : bigger[Len(tree) + q] = more[q]
  <2>1. more \in Seq(Range(more)) /\ tree \in Seq(Range(tree))
    BY <1>4, <1>6
  <2>2. bigger \in Seq(Range(bigger))
    BY <2>1, <1>3, Concatenated
  <2>3. Len(bigger) = Len(tree) + Len(more)
    BY <2>1, <1>3, Concatenated
  <2>4. \A q \in 1..Len(tree) : bigger[q] = tree[q]
    BY <2>1, <1>3, Concatenated
  <2>5. \A q \in 1..Len(more) : bigger[Len(tree) + q] = more[q]
    BY <2>1, <1>3, Concatenated
  <2> QED
    BY <2>2, <2>3, <2>4, <2>5, <1>4
<1>8. card \in Nat
  BY <1>2
<1>9. ASSUME NEW q \in Len(tree) + 1..Len(bigger)
      PROVE  \E c \in S : bigger[q] = Leaf(z[c], k)
  <2>1. PICK j \in 1..card : q = Len(tree) + j
    <3>1. q - Len(tree) \in 1..card /\ q = Len(tree) + (q - Len(tree))
      BY <1>8, <1>6, <1>7
    <3> QED
      BY <3>1
  <2>2. s[j] \in S /\ bigger[q] = Leaf(z[s[j]], k)
    BY <2>1, <1>2, <1>5, <1>7
  <2> QED
    BY <2>2
<1>10. ASSUME NEW c \in S
       PROVE  \E q \in Len(tree) + 1..Len(bigger) : bigger[q] = Leaf(z[c], k)
  <2>1. PICK j \in 1..card : s[j] = c
    BY <1>2
  <2>2. Len(tree) + j \in Len(tree) + 1..Len(bigger)
    BY <1>8, <1>6, <1>7
  <2> QED
    BY <2>1, <2>2, <1>5, <1>7
<1>11. ASSUME NEW c \in S
       PROVE  Leaf(z[c], k).parent = k /\ Leaf(z[c], k).location \in TestLabel
  <2>1. z[c].location \in Label
    BY <1>1
  <2>2. createInconclusiveLocation(z[c].location) \in TestLabel
    BY <2>1 DEF TestLabel
  <2> QED
    BY <2>2 DEF Leaf, Copied
<1>12. \A p \in 1..Len(a) : bigger[p] = Copied(z[a[p]], p - 1)
  BY <1>6, <1>7 DEF Structured
<1>13. ASSUME NEW q \in Len(a) + 1..Len(bigger)
       PROVE  bigger[q].parent \in 1..Len(a) - 1 /\ bigger[q].location \in TestLabel
  <2>1. CASE q \in Len(a) + 1..Len(tree)
    <3>1. bigger[q] = tree[q]
      BY <2>1, <1>6, <1>7
    <3> QED
      BY <3>1, <2>1 DEF Structured
  <2>2. CASE q \in Len(tree) + 1..Len(bigger)
    BY <2>2, <1>9, <1>11
  <2> QED
    BY <2>1, <2>2, <1>6
<1>14. Len(a) <= Len(bigger) /\ Len(tree) <= Len(bigger)
  BY <1>8, <1>6, <1>7
<1> QED
  BY <1>7, <1>9, <1>10, <1>12, <1>13, <1>14 DEF Structured, Hung

-----------------------------------------------------------------------------
(* The locals of the selection.                                            *)

\* Chains are not empty, lie in the tree and lead to their state, from the
\* root or from an earlier state.
Shaped(z) ==
    /\ z \in Seq(Range(z))
    /\ \A k \in 1..Len(z) :
          /\ z[k].location \in Label
          /\ z[k].ancestry \in Seq(1..k) /\ Len(z[k].ancestry) >= 1
          /\ IF k = 1 THEN z[k].ancestry = <<1>>
             ELSE \E parent \in 1..k - 1 : z[k].ancestry = Append(z[parent].ancestry, k)

\* The chain to the accepting state a test tree is selected for.
PathTo(z, a) == z[AcceptStates(z)[a]].ancestry

\* Every test tree has the path to its accepting state, which is not the
\* root, and the walk along the last one is on that path.
TreesTyped(z, ts, tt, zs) ==
    /\ ts \in Seq(Range(ts)) /\ Len(ts) <= Len(AcceptStates(z))
    /\ \A a \in 1..Len(ts) :
          Len(PathTo(z, a)) >= 2 /\ Structured(ts[a], z, PathTo(z, a))
    /\ tt \in Nat /\ zs \in 0..Len(z)
    /\ tt # 0 => Len(ts) > 0 /\ tt \in 1..Len(PathTo(z, Len(ts)))

\* Accepting states are states of the tree.
LEMMA AcceptingStates ==
    ASSUME NEW z, z \in Seq(Range(z))
    PROVE  /\ Len(AcceptStates(z)) \in Nat
           /\ \A a \in 1..Len(AcceptStates(z)) :
                 AcceptStates(z)[a] \in 1..Len(z) /\ isAcceptZSES(z[AcceptStates(z)[a]])
<1> DEFINE S == {k \in DOMAIN z : isAcceptZSES(z[k])}
<1>1. Len(z) \in Nat /\ S \in SUBSET (1..Len(z)) /\ \A k \in S : isAcceptZSES(z[k])
  OBVIOUS
<1>2. AcceptStates(z) = Ascending(S)
  BY DEF AcceptStates
<1> HIDE DEF S
<1>3. /\ Len(Ascending(S)) = Cardinality(S) /\ Cardinality(S) \in Nat
      /\ \A q \in 1..Cardinality(S) : Ascending(S)[q] \in S
  BY <1>1, AscendingOf
<1> QED
  BY <1>1, <1>2, <1>3

\* The type invariant says of a chain that it is <<1>> or longer.
LEMMA Chains == ASSUME IInv PROVE Shaped(zset)
<1>1. Len(zset) \in Nat /\ DOMAIN zset = 1..Len(zset) /\ zset \in Seq(Range(zset))
  BY DEF IInv
<1>2. SUFFICES ASSUME NEW k \in 1..Len(zset)
               PROVE  /\ zset[k].location \in Label
                      /\ zset[k].ancestry \in Seq(1..k) /\ Len(zset[k].ancestry) >= 1
                      /\ IF k = 1 THEN zset[k].ancestry = <<1>>
                         ELSE \E parent \in 1..k - 1 :
                                  zset[k].ancestry = Append(zset[parent].ancestry, k)
  BY <1>1 DEF Shaped
<1>3. /\ zset[k].location \in Label /\ zset[k].ancestry \in Seq(1..k)
      /\ IF k = 1 THEN zset[k].ancestry = <<1>>
         ELSE \E parent \in 1..k - 1 : zset[k].ancestry = Append(zset[parent].ancestry, k)
  BY <1>1 DEF IInv, TypeOK
<1>4. zset[k].ancestry # <<>>
  <2>1. CASE k = 1
    <3>1. zset[k].ancestry = <<1>>
      BY <2>1, <1>3
    <3>2. <<1>> # <<>>
      OBVIOUS
    <3> QED
      BY <3>1, <3>2
  <2>2. CASE k # 1
    <3>1. PICK parent \in 1..k - 1 : zset[k].ancestry = Append(zset[parent].ancestry, k)
      BY <2>2, <1>3
    <3>2. zset[parent].ancestry \in Seq(1..parent)
      BY <1>1 DEF IInv, TypeOK
    <3>3. \A s \in Seq(1..parent) : Append(s, k) # <<>>
      OBVIOUS
    <3> QED
      BY <3>1, <3>2, <3>3
  <2> QED
    BY <2>1, <2>2
<1>5. Len(zset[k].ancestry) # 0 /\ Len(zset[k].ancestry) \in Nat
  BY <1>3, <1>4
<1> QED
  BY <1>3, <1>5

\* The path to an accepting state.
LEMMA PathLength ==
    ASSUME NEW z, Shaped(z), NEW a \in 1..Len(AcceptStates(z))
    PROVE  /\ AcceptStates(z)[a] \in 1..Len(z)
           /\ PathTo(z, a) \in Seq(1..Len(z))
           /\ Len(PathTo(z, a)) \in Nat /\ Len(PathTo(z, a)) >= 1
<1> DEFINE k == AcceptStates(z)[a]
<1>1. k \in 1..Len(z) /\ Len(z) \in Nat
  BY AcceptingStates DEF Shaped
<1> HIDE DEF k
<1>2. z[k].ancestry \in Seq(1..k) /\ Len(z[k].ancestry) >= 1
  BY <1>1 DEF Shaped
<1>3. \A S, T : S \subseteq T => Seq(S) \subseteq Seq(T)
  OBVIOUS
<1>4. 1..k \subseteq 1..Len(z)
  BY <1>1
<1>5. z[k].ancestry \in Seq(1..Len(z))
  BY <1>2, <1>3, <1>4
<1>6. Len(z[k].ancestry) \in Nat
  BY <1>5
<1> QED
  BY <1>1, <1>2, <1>5, <1>6 DEF PathTo, k

\* The path to the next accepting state is a test tree.
LEMMA PathSelected ==
    ASSUME NEW z, NEW ts, NEW tt, NEW zs, Shaped(z), TreesTyped(z, ts, tt, zs),
           Len(ts) < Len(AcceptStates(z)),
           NEW new, new = Len(ts) + 1,
           NEW path, path = backwardTraversal(z, AcceptStates(z)[new]),
           Len(path) # 1,
           NEW now, now = Append(ts, path)
    PROVE  /\ TreesTyped(z, now, 1, 1)
           /\ Len(now) = new /\ new \in 1..Len(AcceptStates(z))
           /\ \A b \in 1..Len(ts) : now[b] = ts[b]
           /\ now[new] = path
           /\ Len(path) = Len(PathTo(z, new))
<1> DEFINE n == Len(ts)
           chain == PathTo(z, new)
<1>1. /\ ts \in Seq(Range(ts)) /\ n \in Nat /\ new \in Nat
      /\ Len(AcceptStates(z)) \in Nat
  BY AcceptingStates DEF TreesTyped, Shaped
<1>2. new \in 1..Len(AcceptStates(z))
  BY <1>1
<1>3. /\ AcceptStates(z)[new] \in 1..Len(z)
      /\ chain \in Seq(1..Len(z)) /\ Len(chain) \in Nat /\ Len(chain) >= 1
  BY <1>2, PathLength
<1>4. /\ now \in Seq(Range(now)) /\ Len(now) = new
      /\ \A b \in 1..n : now[b] = ts[b]
      /\ now[new] = path
  BY <1>1, Appended
<1>5. path = [k \in DOMAIN chain |-> Copied(z[chain[k]], k - 1)]
  BY DEF backwardTraversal, PathTo
<1> HIDE DEF chain
<1>6. DOMAIN chain = 1..Len(chain)
  BY <1>3
<1>7. path = [k \in 1..Len(chain) |-> Copied(z[chain[k]], k - 1)]
  BY <1>5, <1>6
<1>8. /\ path \in [1..Len(chain) -> Range(path)]
      /\ \A p \in 1..Len(chain) : path[p] = Copied(z[chain[p]], p - 1)
  BY <1>7 DEF Range
<1>9. path \in Seq(Range(path)) /\ Len(path) = Len(chain)
  <2>1. Len(chain) \in Nat
    BY <1>3
  <2> QED
    BY <2>1, <1>8
<1>10. Structured(path, z, chain) /\ Len(chain) >= 2
  <2>1. Len(chain) >= 2
    BY <1>3, <1>9
  <2>2. Len(chain) <= Len(path) /\ Len(chain) + 1..Len(path) = {}
    BY <1>3, <1>9
  <2>3. \A q \in Len(chain) + 1..Len(path) :
           path[q].parent \in 1..Len(chain) - 1 /\ path[q].location \in TestLabel
    BY ONLY <2>2
  <2>4. Structured(path, z, chain)
    BY ONLY <1>8, <1>9, <2>2, <2>3 DEF Structured
  <2> QED
    BY <2>1, <2>4
<1>11. ASSUME NEW b \in 1..new
       PROVE  Len(PathTo(z, b)) >= 2 /\ Structured(now[b], z, PathTo(z, b))
  <2>1. CASE b = new
    BY <2>1, <1>4, <1>10 DEF chain
  <2>2. CASE b # new
    <3>1. b \in 1..n
      BY <2>2, <1>1
    <3>2. Len(PathTo(z, b)) >= 2 /\ Structured(ts[b], z, PathTo(z, b))
      BY <3>1 DEF TreesTyped
    <3> QED
      BY <3>1, <3>2, <1>4
  <2> QED
    BY <2>1, <2>2
<1>12. /\ 1 \in Nat /\ 1 \in 0..Len(z) /\ Len(now) > 0
       /\ 1 \in 1..Len(PathTo(z, Len(now)))
  <2>1. Len(now) > 0
    BY <1>1, <1>4
  <2>2. 1 \in 1..Len(PathTo(z, new))
    BY <1>3, <1>10 DEF chain
  <2>3. 1 \in 0..Len(z)
    BY <1>3 DEF Shaped
  <2> QED
    BY <2>1, <2>2, <2>3, <1>4
<1>13. TreesTyped(z, now, 1, 1)
  BY <1>1, <1>4, <1>11, <1>12 DEF TreesTyped
<1> QED
  BY <1>2, <1>4, <1>9, <1>13 DEF chain

\* The walk in the execution follows a child, if there is an equal one.
LEMMA NextInTree ==
    ASSUME NEW next, NEW z, NEW zs, z \in Seq(Range(z)),
           NEW found, found = getNextZSES(next, z, zs)
    PROVE  /\ found \in 0..Len(z)
           /\ found # 0 => found \in ChildStates(z, zs) /\ Mutable(next) = Mutable(z[found])
           /\ \A c \in ChildStates(z, zs) : Mutable(next) = Mutable(z[c]) => found # 0
<1> DEFINE equal == {c \in ChildStates(z, zs) : Mutable(next) = Mutable(z[c])}
<1>1. Len(z) \in Nat /\ equal \in SUBSET (1..Len(z))
  BY DEF ChildStates
<1>2. found = IF equal = {} THEN 0 ELSE Min(equal)
  BY DEF getNextZSES
<1>3. \A c \in ChildStates(z, zs) : Mutable(next) = Mutable(z[c]) => equal # {}
  OBVIOUS
<1>4. \A c \in equal : c \in ChildStates(z, zs) /\ Mutable(next) = Mutable(z[c])
  OBVIOUS
<1> HIDE DEF equal
<1>5. CASE equal = {}
  BY <1>1, <1>2, <1>3, <1>5
<1>6. CASE equal # {}
  <2>1. Min(equal) \in equal
    BY <1>1, <1>6, LeastOf
  <2>2. found \in equal /\ found \in 1..Len(z)
    BY <2>1, <1>1, <1>2, <1>6
  <2> QED
    BY <2>2, <1>1, <1>4
<1> QED
  BY <1>5, <1>6

\* A round of forwardTraversal in the last tree: next, the first child of the
\* state tt, is the state heir of that tree.
RoundOf(z, ts, tt, zs, n, heir, next, more, now) ==
    /\ tt # 0 /\ n = Len(ts) /\ TreeChildren(ts[n], tt) # <<>>
    /\ heir = Head(TreeChildren(ts[n], tt)) /\ next = ts[n][heir]
    /\ more = ts[n] \o Leaves(next, z, zs, tt)
    /\ now = [ts EXCEPT ![n] = more]

\* It goes to the next state of the path and keeps the structure of the tree.
LEMMA Round ==
    ASSUME NEW z, NEW ts, NEW tt, NEW zs, Shaped(z), TreesTyped(z, ts, tt, zs),
           zs # 0, NEW n, NEW heir, NEW next, NEW more, NEW now,
           RoundOf(z, ts, tt, zs, n, heir, next, more, now)
    PROVE  /\ n \in 1..Len(AcceptStates(z)) /\ n \in 1..Len(ts) /\ Len(now) = n
           /\ tt \in 1..Len(PathTo(z, n)) - 1 /\ heir = tt + 1
           /\ now[n] = more /\ \A b \in 1..n : b # n => now[b] = ts[b]
           /\ TreesTyped(z, now, heir, getNextZSES(next, z, zs))
<1>0. /\ tt # 0 /\ n = Len(ts) /\ TreeChildren(ts[n], tt) # <<>>
      /\ heir = Head(TreeChildren(ts[n], tt)) /\ next = ts[n][heir]
      /\ more = ts[n] \o Leaves(next, z, zs, tt)
      /\ now = [ts EXCEPT ![n] = more]
  BY DEF RoundOf
<1>1. /\ ts \in Seq(Range(ts)) /\ n \in Nat /\ n > 0 /\ n <= Len(AcceptStates(z))
      /\ tt \in 1..Len(PathTo(z, n))
  BY <1>0 DEF TreesTyped
<1>2. n \in 1..Len(AcceptStates(z)) /\ n \in 1..Len(ts)
  BY <1>0, <1>1, AcceptingStates DEF Shaped
<1>3. Structured(ts[n], z, PathTo(z, n)) /\ Len(PathTo(z, n)) >= 2
  BY <1>2 DEF TreesTyped
<1>4. Len(PathTo(z, n)) \in Nat
  BY <1>2, PathLength
<1>5. tt # Len(PathTo(z, n)) /\ heir = tt + 1
  <2>1. /\ tt < Len(PathTo(z, n)) => Head(TreeChildren(ts[n], tt)) = tt + 1
        /\ tt = Len(PathTo(z, n)) => TreeChildren(ts[n], tt) = <<>>
    BY <1>1, <1>3, <1>4, AlongPath
  <2> QED
    BY <2>1, <1>0, <1>1, <1>4
<1>6. tt \in 1..Len(PathTo(z, n)) - 1
  BY <1>1, <1>4, <1>5
<1>7. ts \in Seq(Range(ts)) /\ now = [ts EXCEPT ![n] = more]
  BY <1>0, <1>1
<1>8. Len(now) = n /\ now[n] = more /\ \A b \in 1..n : b # n => now[b] = ts[b]
  <2>1. Len(now) = Len(ts)
    BY ONLY <1>2, <1>7, Replaced
  <2>2. now[n] = more
    BY ONLY <1>2, <1>7, Replaced
  <2>3. \A b \in 1..Len(ts) : b # n => now[b] = ts[b]
    BY ONLY <1>2, <1>7, Replaced
  <2> QED
    BY <2>1, <2>2, <2>3, <1>0
<1>9. now \in Seq(Range(now))
  BY ONLY <1>2, <1>7, Replaced
<1>10. Structured(more, z, PathTo(z, n))
  <2>1. z \in Seq(Range(z)) /\ \A c \in DOMAIN z : z[c].location \in Label
    BY DEF Shaped
  <2>2. Structured(ts[n], z, PathTo(z, n)) /\ Len(PathTo(z, n)) \in Nat
    BY <1>3, <1>4
  <2> QED
    BY <2>1, <2>2, <1>0, <1>6, WithLeaves
<1>11. ASSUME NEW b \in 1..Len(now)
       PROVE  Len(PathTo(z, b)) >= 2 /\ Structured(now[b], z, PathTo(z, b))
  <2>1. CASE b = n
    BY <2>1, <1>3, <1>8, <1>10
  <2>2. CASE b # n
    <3>1. b \in 1..Len(ts) /\ now[b] = ts[b]
      BY <2>2, <1>0, <1>8
    <3> QED
      BY <3>1 DEF TreesTyped
  <2> QED
    BY <2>1, <2>2
<1>12. getNextZSES(next, z, zs) \in 0..Len(z)
  BY NextInTree DEF Shaped
<1>13. heir \in Nat /\ Len(now) > 0 /\ heir \in 1..Len(PathTo(z, Len(now)))
  BY <1>1, <1>4, <1>5, <1>6, <1>8
<1>14. TreesTyped(z, now, heir, getNextZSES(next, z, zs))
  BY <1>1, <1>8, <1>9, <1>11, <1>12, <1>13 DEF TreesTyped
<1> QED
  BY <1>2, <1>5, <1>6, <1>8, <1>14

-----------------------------------------------------------------------------
(* The locals of the facade.                                               *)

\* What the step that is executed says of the locals of the others.
Staged ==
    /\ stage \in Stage /\ missing \in BOOLEAN
    /\ stage \in {"completion", "product", "execution"} =>
          trees = <<>> /\ ttState = 0 /\ zsetState = 0
    /\ stage \in {"completion", "product", "execution", "selection"} =>
          cases = <<>> /\ toVisit = <<>> /\ child = 1
    /\ stage \in {"transformation", "returned"} =>
          ttState = 0 /\ Len(trees) = Len(Accepting)
    /\ cases \in Seq(Range(cases)) /\ Len(cases) <= Len(trees)
    /\ toVisit # <<>> => Len(cases) > 0
    /\ child \in Nat \ {0}

SInv ==
    /\ IInv
    /\ TreesTyped(zset, trees, ttState, zsetState)
    /\ Staged

\* Nothing is selected yet.
LEMMA NoTrees ==
    ASSUME NEW z, Shaped(z)
    PROVE  TreesTyped(z, <<>>, 0, 0)
<1>1. Len(AcceptStates(z)) \in Nat /\ Len(z) \in Nat
  BY AcceptingStates DEF Shaped
<1>2. <<>> \in Seq(Range(<<>>)) /\ Len(<<>>) = 0
  OBVIOUS
<1> QED
  BY <1>1, <1>2 DEF TreesTyped

\* The walk ends, and then both places are forgotten.
LEMMA WalkEnded ==
    ASSUME NEW z, NEW ts, NEW tt, NEW zs, Shaped(z), TreesTyped(z, ts, tt, zs)
    PROVE  TreesTyped(z, ts, 0, 0)
  BY DEF TreesTyped, Shaped

\* A step that leaves the trees and the cases alone.
LEMMA StagedKept ==
    ASSUME Staged, UNCHANGED <<zset, trees, transformationVars>>,
           stage' \in Stage, missing' \in BOOLEAN,
           \/ stage' = "crashed"
           \/ stage' = stage /\ UNCHANGED <<ttState, zsetState>>
    PROVE  Staged'
<1>1. Accepting' = Accepting
  BY DEF Accepting
<1> QED
  BY <1>1 DEF Staged, transformationVars

(* The steps of the selection keep the invariant.                          *)
LEMMA SelectionSteps ==
    ASSUME SInv, IInv',
           SelectTestCase \/ AddMissingInputs \/ TestCaseSelected \/ Selected
    PROVE  SInv'
<1>1. Shaped(zset) /\ zset' = zset
  BY Chains DEF SInv, SelectTestCase, AddMissingInputs, TestCaseSelected, Selected, vars
<1>2. TreesTyped(zset, trees, ttState, zsetState) /\ Staged
  BY DEF SInv
<1>3. Accepting' = Accepting /\ Accepting = AcceptStates(zset)
  BY <1>1 DEF Accepting
<1>4. stage = "selection" /\ missing = FALSE
  BY <1>2 DEF Selecting, SelectTestCase, AddMissingInputs, TestCaseSelected, Selected, Staged
\* A crash.
<1>5. ASSUME Crash PROVE SInv'
  <2>1. /\ trees' = trees /\ ttState' = ttState /\ zsetState' = zsetState
        /\ stage' = "crashed" /\ missing' = missing /\ UNCHANGED transformationVars
    BY <1>5 DEF Crash, selectionVars
  <2>2. Staged'
    BY <2>1, <1>1, <1>2, <1>4, StagedKept DEF Stage
  <2> QED
    BY <2>1, <2>2, <1>1, <1>2 DEF SInv
\* A step that goes on selecting.
<1>6. ASSUME stage' = stage, missing' = missing, UNCHANGED transformationVars,
             TreesTyped(zset, trees', ttState', zsetState')
      PROVE  SInv'
  <2>1. cases = <<>> /\ toVisit = <<>> /\ child = 1
    BY <1>2, <1>4 DEF Staged
  <2>2. Len(trees') \in Nat
    BY <1>6 DEF TreesTyped
  <2>3. Staged'
    BY <2>1, <2>2, <1>4, <1>6, <1>2 DEF Staged, transformationVars
  <2> QED
    BY <2>3, <1>1, <1>6 DEF SInv
<1>7. CASE SelectTestCase
  <2> DEFINE path == backwardTraversal(zset, Accepting[Len(trees) + 1])
  <2>1. CASE Len(path) = 1
    BY <2>1, <1>5, <1>7 DEF SelectTestCase
  <2>2. CASE Len(path) # 1
    <3>1. /\ trees' = Append(trees, path) /\ ttState' = 1 /\ zsetState' = 1
          /\ stage' = stage /\ missing' = missing /\ UNCHANGED transformationVars
          /\ Len(trees) < Len(Accepting)
      BY <2>2, <1>7 DEF SelectTestCase
    <3>2. path = backwardTraversal(zset, AcceptStates(zset)[Len(trees) + 1])
      BY <1>3
    <3> HIDE DEF path
    <3>3. TreesTyped(zset, trees', 1, 1)
      BY <3>1, <3>2, <2>2, <1>1, <1>2, <1>3, PathSelected
    <3> QED
      BY <3>1, <3>3, <1>6
  <2> QED
    BY <2>1, <2>2
<1>8. CASE AddMissingInputs
  <2>1. CASE zsetState = 0
    BY <2>1, <1>5, <1>8 DEF AddMissingInputs
  <2>2. CASE zsetState # 0
    <3> DEFINE n == Len(trees)
               heir == Head(TreeChildren(trees[n], ttState))
               next == trees[n][heir]
               more == trees[n] \o Leaves(next, zset, zsetState, ttState)
    <3>1. TestTree = trees[n]
      BY DEF TestTree, Last
    <3>2. /\ ttState # 0 /\ TreeChildren(trees[n], ttState) # <<>>
          /\ trees' = [trees EXCEPT ![n] = more]
          /\ ttState' = heir
          /\ zsetState' = getNextZSES(next, zset, zsetState)
          /\ stage' = stage /\ missing' = missing /\ UNCHANGED transformationVars
      <4>1. /\ ttState # 0 /\ TreeChildren(trees[n], ttState) # <<>>
            /\ ttState' = heir
            /\ zsetState' = getNextZSES(next, zset, zsetState)
            /\ stage' = stage /\ missing' = missing /\ UNCHANGED transformationVars
        BY <3>1, <2>2, <1>8 DEF AddMissingInputs
      <4>2. trees' = [trees EXCEPT ![n] = @ \o Leaves(next, zset, zsetState, ttState)]
        BY <3>1, <2>2, <1>8 DEF AddMissingInputs
      <4> QED
        BY <4>1, <4>2
    <3> HIDE DEF n, heir, next, more
    <3>3. TreesTyped(zset, trees', heir, getNextZSES(next, zset, zsetState))
      <4>1. RoundOf(zset, trees, ttState, zsetState, n, heir, next, more, trees')
        BY <3>2 DEF RoundOf, n, heir, next, more
      <4> QED
        BY <4>1, <2>2, <1>1, <1>2, Round
    <3> QED
      BY <3>2, <3>3, <1>6
  <2> QED
    BY <2>1, <2>2
<1>9. CASE TestCaseSelected
  <2>1. /\ trees' = trees /\ ttState' = 0 /\ zsetState' = 0
        /\ stage' = stage /\ missing' = missing /\ UNCHANGED transformationVars
    BY <1>9 DEF TestCaseSelected
  <2>2. TreesTyped(zset, trees', 0, 0)
    BY <2>1, <1>1, <1>2, WalkEnded
  <2> QED
    BY <2>1, <2>2, <1>6
<1>10. CASE Selected
  <2>1. /\ trees' = trees /\ ttState' = ttState /\ zsetState' = zsetState /\ ttState = 0
        /\ stage' = "transformation" /\ missing' = missing /\ UNCHANGED transformationVars
        /\ Len(trees) = Len(Accepting)
    BY <1>10 DEF Selected, selectionVars
  <2>2. Staged'
    BY <2>1, <1>1, <1>2, <1>3 DEF Staged, transformationVars, Stage
  <2> QED
    BY <2>1, <2>2, <1>1, <1>2 DEF SInv
<1> QED
  BY <1>7, <1>8, <1>9, <1>10

\* After a step, too.
LEMMA ChainsAfter == IInv' => Shaped(zset)'
<1>1. IInv => Shaped(zset)
  BY Chains
<1> QED
  BY <1>1, PTL

(* The steps before it, while there are no trees.                          *)
LEMMA PreparationSteps ==
    ASSUME SInv, IInv',
           Complete \/ Multiply \/ ExecuteNothing \/ Execute \/ Executed \/ SelectNothing
    PROVE  SInv'
<1>1. Shaped(zset) /\ Shaped(zset')
  BY Chains, ChainsAfter DEF SInv
<1>2. TreesTyped(zset, trees, ttState, zsetState) /\ Staged
  BY DEF SInv
\* No action changes a local of the later steps.
<1>3. /\ trees' = trees /\ ttState' = ttState /\ zsetState' = zsetState
      /\ cases' = cases /\ toVisit' = toVisit /\ child' = child
      /\ stage' \in Stage /\ missing' \in BOOLEAN
      /\ stage' \in {"product", "execution", "selection", "crashed"}
      /\ stage \in {"completion", "product", "execution"} \/ zset' = zset
  <2>1. stage \in Stage /\ missing \in BOOLEAN
    BY <1>2 DEF Staged
  <2>2. CASE Complete \/ Multiply
    BY <2>1, <2>2 DEF Complete, Multiply, Prepare, Crash, selectionVars, transformationVars, Stage
  <2>3. CASE ExecuteNothing \/ SelectNothing
    BY <2>1, <2>3 DEF ExecuteNothing, SelectNothing, Crash, selectionVars,
                      transformationVars, Stage, vars
  <2>4. CASE Execute
    BY <2>1, <2>4 DEF Execute, selectionVars, transformationVars, Stage
  <2>5. CASE Executed
    BY <2>1, <2>5 DEF Executed, selectionVars, transformationVars, Stage
  <2> QED
    BY <2>2, <2>3, <2>4, <2>5
<1>4. CASE stage \in {"completion", "product", "execution"}
  <2>1. /\ trees = <<>> /\ ttState = 0 /\ zsetState = 0
        /\ cases = <<>> /\ toVisit = <<>> /\ child = 1
    BY <1>2, <1>4 DEF Staged
  <2>2. TreesTyped(zset', trees', ttState', zsetState')
    BY <2>1, <1>1, <1>3, NoTrees
  <2>3. Staged'
    BY <2>1, <1>2, <1>3 DEF Staged
  <2> QED
    BY <2>2, <2>3 DEF SInv
<1>5. CASE stage \notin {"completion", "product", "execution"}
  <2>1. SelectNothing /\ zset' = zset
    BY <1>3, <1>5 DEF Complete, Multiply, Prepare, ExecuteNothing, Execute, Executed
  <2>2. stage' = "crashed"
    BY <2>1 DEF SelectNothing, Crash
  <2>3. Staged'
    BY <2>1, <2>2, <1>2, <1>3, StagedKept DEF transformationVars
  <2> QED
    BY <2>1, <2>3, <1>2, <1>3 DEF SInv
<1> QED
  BY <1>4, <1>5

(* The steps of the transformation.                                        *)
LEMMA TransformationSteps ==
    ASSUME SInv, IInv', BeginTestCase \/ AddChild \/ LeaveState \/ Transformed
    PROVE  SInv'
<1>1. TreesTyped(zset, trees, ttState, zsetState) /\ Staged
  BY DEF SInv
<1>2. /\ zset' = zset /\ trees' = trees /\ ttState' = ttState /\ zsetState' = zsetState
      /\ missing' = missing /\ stage = "transformation"
      /\ stage' \in {"transformation", "returned"}
      /\ stage' = "returned" => UNCHANGED transformationVars
  BY DEF BeginTestCase, AddChild, LeaveState, Transformed, Transforming, vars, selectionVars
<1>3. Accepting' = Accepting
  BY <1>2 DEF Accepting
<1>4. /\ cases \in Seq(Range(cases)) /\ Len(cases) \in Nat /\ Len(trees) \in Nat
      /\ Len(cases) <= Len(trees) /\ child \in Nat \ {0}
      /\ toVisit # <<>> => Len(cases) > 0
      /\ ttState = 0 /\ Len(trees) = Len(Accepting)
  BY <1>1, <1>2 DEF Staged, TreesTyped
\* What is left to show.
<1>5. ASSUME cases' \in Seq(Range(cases')), Len(cases') <= Len(trees),
             toVisit' # <<>> => Len(cases') > 0, child' \in Nat \ {0}
      PROVE  SInv'
  <2>1. Staged'
    BY <1>1, <1>2, <1>3, <1>4, <1>5 DEF Staged, Stage
  <2> QED
    BY <2>1, <1>1, <1>2 DEF SInv
<1>6. CASE BeginTestCase
  <2>1. \E m : cases' = Append(cases, m)
    BY <1>6 DEF BeginTestCase
  <2>2. PICK m : cases' = Append(cases, m)
    BY <2>1
  <2>3. Len(cases) < Len(trees) /\ child' = 1
    BY <1>6 DEF BeginTestCase
  <2>4. cases' \in Seq(Range(cases')) /\ Len(cases') = Len(cases) + 1
    BY <2>2, <1>4, Appended
  <2> QED
    BY <2>3, <2>4, <1>4, <1>5
\* The last case changes.
<1>7. ASSUME NEW m, cases' = [cases EXCEPT ![Len(cases)] = m], Len(cases) > 0
      PROVE  cases' \in Seq(Range(cases')) /\ Len(cases') = Len(cases)
  <2>1. Len(cases) \in 1..Len(cases) /\ cases \in Seq(Range(cases))
    BY <1>4, <1>7
  <2>2. cases' = [cases EXCEPT ![Len(cases)] = m]
    BY <1>7
  <2>3. cases' \in Seq(Range(cases'))
    BY ONLY <2>1, <2>2, Replaced
  <2>4. Len(cases') = Len(cases)
    BY ONLY <2>1, <2>2, Replaced
  <2> QED
    BY <2>3, <2>4
<1>8. CASE AddChild
  <2>1. \E m : cases' = [cases EXCEPT ![Len(cases)] = m]
    BY <1>8 DEF AddChild
  <2>2. /\ toVisit # <<>> /\ child' = child + 1
    BY <1>8 DEF AddChild
  <2>3. cases' \in Seq(Range(cases')) /\ Len(cases') = Len(cases)
    BY <2>1, <2>2, <1>4, <1>7
  <2> QED
    BY <2>2, <2>3, <1>4, <1>5
<1>9. CASE LeaveState
  <2>1. \/ cases' = cases
        \/ \E m : cases' = [cases EXCEPT ![Len(cases)] = m]
    BY <1>9 DEF LeaveState
  <2>2. toVisit # <<>> /\ child' = 1
    BY <1>9 DEF LeaveState
  <2>3. cases' \in Seq(Range(cases')) /\ Len(cases') = Len(cases)
    BY <2>1, <2>2, <1>4, <1>7
  <2> QED
    BY <2>2, <2>3, <1>4, <1>5
<1>10. CASE Transformed
  <2>1. cases' = cases /\ toVisit' = toVisit /\ child' = child
    BY <1>10 DEF Transformed, transformationVars
  <2> QED
    BY <2>1, <1>4, <1>5
<1> QED
  BY <1>6, <1>8, <1>9, <1>10

(* Every step of the call keeps the invariant.                             *)
THEOREM LocalsTyped == GenerationSpec => []SInv
<1>1. GenerationInit /\ IInv => SInv
  <2> SUFFICES ASSUME GenerationInit, IInv PROVE SInv
    OBVIOUS
  <2>1. /\ trees = <<>> /\ ttState = 0 /\ zsetState = 0
        /\ cases = <<>> /\ toVisit = <<>> /\ child = 1
        /\ stage = "completion" /\ missing = FALSE
    BY DEF GenerationInit
  <2>2. TreesTyped(zset, trees, ttState, zsetState)
    BY <2>1, Chains, NoTrees
  <2>3. <<>> \in Seq(Range(<<>>)) /\ Len(<<>>) = 0
    OBVIOUS
  <2>4. cases \in Seq(Range(cases)) /\ Len(cases) <= Len(trees)
    BY <2>1, <2>3
  <2>5. /\ stage \in Stage /\ stage \notin {"transformation", "returned"}
        /\ child \in Nat \ {0}
    BY <2>1 DEF Stage
  <2>6. missing \in BOOLEAN
    BY <2>1
  <2>7. Staged
    BY <2>1, <2>4, <2>5, <2>6 DEF Staged
  <2> QED
    BY <2>2, <2>7 DEF SInv
<1>2. SInv /\ IInv' /\ [GenerationNext]_allVars => SInv'
  <2> SUFFICES ASSUME SInv, IInv', [GenerationNext]_allVars PROVE SInv'
    OBVIOUS
  <2>1. CASE UNCHANGED allVars
    <3>1. UNCHANGED <<zset, trees, ttState, zsetState, stage, missing>>
          /\ UNCHANGED transformationVars
      BY <2>1 DEF allVars, transformationVars
    <3>2. Staged'
      BY <3>1, StagedKept DEF SInv, Staged
    <3> QED
      BY <3>1, <3>2 DEF SInv
  <2> QED
    BY <2>1, PreparationSteps, SelectionSteps, TransformationSteps DEF GenerationNext
<1>3. GenerationSpec => []IInv
  BY ImplementsWalk, Invariance, PTL
<1> QED
  BY <1>1, <1>2, <1>3, PTL DEF GenerationSpec

(* The locals of generateTestCases and of the three steps refer to states  *)
(* of the tree and to test trees that exist, throughout the call.          *)
THEOREM GenerationTyped == GenerationSpec => []GenerationTypeOK
<1>1. SInv => GenerationTypeOK
  <2> SUFFICES ASSUME SInv PROVE GenerationTypeOK
    OBVIOUS
  <2>1. TreesTyped(zset, trees, ttState, zsetState) /\ Staged /\ TypeOK /\ Shaped(zset)
    BY Chains DEF SInv, IInv
  <2>2. trees # <<>> => ttState \in 0..Len(Last(trees))
    <3>1. SUFFICES ASSUME trees # <<>> PROVE ttState \in 0..Len(Last(trees))
      OBVIOUS
    <3> DEFINE n == Len(trees)
    <3>2. n \in 1..Len(trees) /\ n \in 1..Len(AcceptStates(zset)) /\ Last(trees) = trees[n]
      <4>1. Len(AcceptStates(zset)) \in Nat
        BY <2>1, AcceptingStates DEF Shaped
      <4>2. trees \in Seq(Range(trees)) /\ n <= Len(AcceptStates(zset))
        BY <2>1 DEF TreesTyped
      <4>3. n \in Nat /\ n # 0
        BY <4>2, <3>1
      <4> QED
        BY <4>1, <4>2, <4>3 DEF Last
    <3>3. Structured(trees[n], zset, PathTo(zset, n))
      BY <2>1, <3>2 DEF TreesTyped
    <3>4. Len(PathTo(zset, n)) \in Nat
      BY <2>1, <3>2, PathLength
    <3>5. Len(PathTo(zset, n)) <= Len(trees[n]) /\ Len(trees[n]) \in Nat
      BY <3>3 DEF Structured
    <3>6. ttState \in Nat /\ (ttState # 0 => ttState \in 1..Len(PathTo(zset, n)))
      BY <2>1 DEF TreesTyped
    <3> QED
      BY <3>2, <3>4, <3>5, <3>6
  <2> QED
    BY <2>1, <2>2 DEF GenerationTypeOK, Staged, TreesTyped
<1> QED
  BY <1>1, LocalsTyped, PTL

-----------------------------------------------------------------------------
(* Parents and children in the tree of the execution.                      *)

\* A chain ends with its state.
LEMMA ChainEnds ==
    ASSUME NEW z, Shaped(z), NEW k \in 1..Len(z)
    PROVE  /\ z[k].ancestry \in Seq(1..Len(z)) /\ Len(z[k].ancestry) \in Nat
           /\ z[k].ancestry[Len(z[k].ancestry)] = k
<1>1. /\ Len(z) \in Nat /\ z[k].ancestry \in Seq(1..k)
      /\ IF k = 1 THEN z[k].ancestry = <<1>>
         ELSE \E parent \in 1..k - 1 : z[k].ancestry = Append(z[parent].ancestry, k)
  BY DEF Shaped
<1>2. \A S, T : S \subseteq T => Seq(S) \subseteq Seq(T)
  OBVIOUS
<1>3. 1..k \subseteq 1..Len(z)
  BY <1>1
<1>4. z[k].ancestry \in Seq(1..Len(z))
  BY <1>1, <1>2, <1>3
<1>5. Len(z[k].ancestry) \in Nat
  BY <1>4
<1>6. CASE k = 1
  <2>1. z[k].ancestry = <<1>>
    BY <1>1, <1>6
  <2>2. <<1>>[Len(<<1>>)] = 1
    OBVIOUS
  <2> QED
    BY <2>1, <2>2, <1>4, <1>5, <1>6
<1>7. CASE k # 1
  <2>1. PICK parent \in 1..k - 1 : z[k].ancestry = Append(z[parent].ancestry, k)
    BY <1>1, <1>7
  <2>2. z[parent].ancestry \in Seq(1..parent)
    BY <2>1, <1>1 DEF Shaped
  <2>3. \A s \in Seq(1..parent) : Append(s, k)[Len(Append(s, k))] = k
    OBVIOUS
  <2> QED
    BY <2>1, <2>2, <2>3, <1>4, <1>5
<1> QED
  BY <1>4, <1>5, <1>6, <1>7

\* The parent of a state whose chain continues that of another state.
LEMMA ParentInChain ==
    ASSUME NEW z, Shaped(z), NEW p \in 1..Len(z), NEW k,
           NEW n, n.ancestry = Append(z[p].ancestry, k)
    PROVE  Parent(n) = p
<1> DEFINE a == z[p].ancestry
<1>1. a \in Seq(1..Len(z)) /\ Len(a) \in Nat /\ a[Len(a)] = p /\ Len(a) >= 1
  BY ChainEnds DEF Shaped
<1> HIDE DEF a
<1>2. Len(Append(a, k)) = Len(a) + 1 /\ Append(a, k)[Len(a)] = a[Len(a)]
  <2>1. a \in Seq((1..Len(z)) \cup {k})
    BY <1>1
  <2> QED
    BY <2>1, <1>1
<1>3. n.ancestry = Append(a, k)
  BY DEF a
<1>4. Len(n.ancestry) = Len(a) + 1 /\ n.ancestry[Len(a)] = p
  BY <1>1, <1>2, <1>3
<1>5. Len(n.ancestry) # 1 /\ Len(n.ancestry) - 1 = Len(a)
  BY <1>1, <1>4
<1> QED
  BY <1>4, <1>5 DEF Parent

\* The chain of a child is that of its parent and itself.
LEMMA ChainOfChild ==
    ASSUME NEW z, Shaped(z), NEW p \in 1..Len(z), NEW c
    PROVE  c \in ChildStates(z, p) <=>
               c \in 2..Len(z) /\ p < c /\ z[c].ancestry = Append(z[p].ancestry, c)
<1>1. Len(z) \in Nat /\ DOMAIN z = 1..Len(z)
  BY DEF Shaped
<1>2. ASSUME c \in ChildStates(z, p)
      PROVE  c \in 2..Len(z) /\ p < c /\ z[c].ancestry = Append(z[p].ancestry, c)
  <2>1. c \in 1..Len(z) /\ Parent(z[c]) = p
    BY <1>1, <1>2 DEF ChildStates
  <2>2. c # 1
    <3>1. SUFFICES ASSUME c = 1 PROVE FALSE
      OBVIOUS
    <3>2. z[1].ancestry = <<1>>
      BY <2>1, <3>1 DEF Shaped
    <3>3. Parent(z[1]) = 0
      BY <3>2 DEF Parent
    <3> QED
      BY <2>1, <3>1, <3>3
  <2>3. PICK parent \in 1..c - 1 : z[c].ancestry = Append(z[parent].ancestry, c)
    BY <2>1, <2>2 DEF Shaped
  <2>4. parent \in 1..Len(z)
    BY <2>1, <2>3, <1>1
  <2>5. parent = p
    <3>1. Parent(z[c]) = parent
      BY <2>3, <2>4, ParentInChain
    <3> QED
      BY <3>1, <2>1
  <2> QED
    BY <2>1, <2>2, <2>3, <2>5
<1>3. ASSUME c \in 2..Len(z), z[c].ancestry = Append(z[p].ancestry, c)
      PROVE  c \in ChildStates(z, p)
  <2>1. Parent(z[c]) = p
    BY <1>3, ParentInChain
  <2> QED
    BY <2>1, <1>1, <1>3 DEF ChildStates
<1> QED
  BY <1>2, <1>3

\* A tree in which p has got the child n.
WithChild(z, p, n, bigger) ==
    n.ancestry = Append(z[p].ancestry, Len(z) + 1) /\ bigger = Append(z, n)

\* The children after a state has been appended behind a chain.
LEMMA ChildrenAppended ==
    ASSUME NEW z, Shaped(z), NEW p \in 1..Len(z), NEW n, NEW bigger,
           WithChild(z, p, n, bigger)
    PROVE  /\ \A q \in 1..Len(z) :
                 ChildStates(bigger, q) =
                     IF q = p THEN ChildStates(z, q) \cup {Len(z) + 1} ELSE ChildStates(z, q)
           /\ ChildStates(bigger, Len(z) + 1) = {}
<1> DEFINE new == Len(z) + 1
<1>1. /\ Len(z) \in Nat /\ DOMAIN z = 1..Len(z)
      /\ DOMAIN bigger = 1..new
      /\ \A k \in 1..Len(z) : bigger[k] = z[k]
      /\ bigger[new] = n
  BY Appended DEF Shaped, WithChild
<1>2. Parent(bigger[new]) = p
  BY <1>1, ParentInChain DEF WithChild
<1>3. \A c \in 1..Len(z) : Parent(bigger[c]) = Parent(z[c])
  BY <1>1
<1>4. \A c : c \in 1..new <=> c \in 1..Len(z) \/ c = new
  BY <1>1
<1>5. ASSUME NEW q
      PROVE  ChildStates(bigger, q) =
                 IF q = p THEN ChildStates(z, q) \cup {new} ELSE ChildStates(z, q)
  BY <1>1, <1>2, <1>3, <1>4 DEF ChildStates
<1>6. ChildStates(z, new) = {}
  <2>1. SUFFICES ASSUME NEW c \in 1..Len(z), Parent(z[c]) = new PROVE FALSE
    BY <1>1 DEF ChildStates
  <2>2. z[c].ancestry \in Seq(1..Len(z)) /\ Len(z[c].ancestry) \in Nat
    BY ChainEnds
  <2>3. Len(z[c].ancestry) >= 1
    BY DEF Shaped
  <2>4. \A s \in Seq(1..Len(z)) :
           Len(s) >= 1 => Len(s) = 1 \/ s[Len(s) - 1] \in 1..Len(z)
    <3>1. \A S : \A s \in Seq(S) : \A j \in 1..Len(s) : s[j] \in S
      OBVIOUS
    <3>2. \A m \in Nat : m >= 1 => m = 1 \/ m - 1 \in 1..m
      OBVIOUS
    <3>3. \A S : \A s \in Seq(S) : Len(s) \in Nat
      OBVIOUS
    <3> QED
      BY ONLY <3>1, <3>2, <3>3
  <2> QED
    BY <2>1, <2>2, <2>3, <2>4, <1>1 DEF Parent
<1>7. new # p
  BY <1>1
<1> QED
  BY <1>5, <1>6, <1>7

-----------------------------------------------------------------------------
(* What is executed of a state: its transitions, in any order.             *)

\* A state without its chain.
Content(n) ==
    [location |-> n.location, pathCondition |-> n.pathCondition, mapping |-> n.mapping,
     zone |-> n.zone, transition |-> n.transition, paramIds |-> n.paramIds]

\* What a transition makes of a state, which depends on its attributes only.
NextContent(n, t) ==
    [location |-> t.target,
     pathCondition |->
         createNextPathCondition(n.pathCondition,
             UpdatedGuard(t.dataGuard, ReadParameters(t.params, n.mapping).values)),
     mapping |->
         updateSymbolicValueWithAssignments(t.assignments,
             ReadParameters(t.params, n.mapping).values),
     zone |-> NextZone(n.zone, t.clockGuard, t.resets),
     transition |-> t, paramIds |-> ReadParameters(t.params, n.mapping).ids]

\* It gets a child if both solvers answer.
Taken(z, p, t) ==
    /\ isReachable(NextContent(z[p], t))
    /\ ~(Cardinality(VisitsAlong(z, z[p].ancestry, t.target)) >= 2)

\* Every child is due to one of these transitions; each of these has one.
GrownAt(z, p, S) ==
    \A c \in ChildStates(z, p) :
        \E t \in S : Taken(z, p, t) /\ Content(z[c]) = NextContent(z[p], t)
CompleteAt(z, p, S) ==
    \A t \in S :
        Taken(z, p, t) => \E c \in ChildStates(z, p) : Content(z[c]) = NextContent(z[p], t)

OutAt(pr, z, p) == pr.out[z[p].location]

\* The transitions of a state that have been tried, if done are those of the
\* current one.
Tried(pr, z, un, cu, done, p) ==
    IF p \in Range(un) THEN {} ELSE IF p = cu THEN done ELSE Range(OutAt(pr, z, p))

Explored(pr, z, un, cu, done, si) ==
    \A p \in 1..Len(z) :
        /\ GrownAt(z, p, Tried(pr, z, un, cu, done, p))
        /\ si = 0 => CompleteAt(z, p, Tried(pr, z, un, cu, done, p))

\* Every state is once in the queue or has been taken from it.
Queued(z, un, cu) ==
    /\ un \in Seq(1..Len(z)) /\ cu \in 0..Len(z)
    /\ \A j, k \in 1..Len(un) : un[j] = un[k] => j = k
    /\ cu \notin Range(un)

\* Every step along a chain leads to a child.
Chained(z) ==
    \A k \in 1..Len(z) :
        /\ z[k].ancestry[1] = 1
        /\ \A p \in 1..Len(z[k].ancestry) - 1 :
              z[k].ancestry[p + 1] \in ChildStates(z, z[k].ancestry[p])

\* A state that is appended behind a state that is executed.
LEMMA Extended ==
    ASSUME NEW z, Shaped(z), NEW p \in 1..Len(z), NEW n, NEW bigger,
           WithChild(z, p, n, bigger)
    PROVE  /\ Len(bigger) = Len(z) + 1
           /\ \A q \in 1..Len(z) : bigger[q] = z[q]
           /\ bigger[Len(z) + 1] = n
           /\ \A q \in 1..Len(z) : \A t : Taken(bigger, q, t) <=> Taken(z, q, t)
<1>1. /\ Len(z) \in Nat /\ Len(bigger) = Len(z) + 1
      /\ \A k \in 1..Len(z) : bigger[k] = z[k]
      /\ bigger[Len(z) + 1] = n /\ bigger = Append(z, n)
  BY Appended DEF Shaped, WithChild
<1>2. ASSUME NEW q \in 1..Len(z), NEW t
      PROVE  Taken(bigger, q, t) <=> Taken(z, q, t)
  <2>1. z[q].ancestry \in Seq(1..Len(z))
    BY ChainEnds
  <2>2. VisitsAlong(bigger, z[q].ancestry, t.target) = VisitsAlong(z, z[q].ancestry, t.target)
    BY <2>1, <1>1, VisitsAppended DEF Shaped
  <2>3. bigger[q] = z[q]
    BY <1>1
  <2> QED
    BY <2>2, <2>3 DEF Taken
<1> QED
  BY <1>1, <1>2

(* A new child of the current state.                                       *)
LEMMA ExploredExtend ==
    ASSUME NEW pr, NEW z, NEW un, NEW cu, NEW done, NEW si, Shaped(z), Queued(z, un, cu),
           Explored(pr, z, un, cu, done, si), cu # 0,
           NEW n, NEW bigger, WithChild(z, cu, n, bigger),
           NEW t, Content(n) = NextContent(z[cu], t), Taken(z, cu, t),
           NEW un2, un2 = Append(un, Len(z) + 1)
    PROVE  Explored(pr, bigger, un2, cu, done \cup {t}, si) /\ Queued(bigger, un2, cu)
<1> DEFINE new == Len(z) + 1
<1>1. cu \in 1..Len(z) /\ Len(z) \in Nat /\ un \in Seq(1..Len(z)) /\ Len(un) \in Nat
  BY DEF Queued, Shaped
<1>2. /\ Len(bigger) = new /\ bigger[new] = n
      /\ \A q \in 1..Len(z) : bigger[q] = z[q]
      /\ \A q \in 1..Len(z) : \A u : Taken(bigger, q, u) <=> Taken(z, q, u)
  BY <1>1, Extended
<1>3. /\ \A q \in 1..Len(z) :
            ChildStates(bigger, q) =
                IF q = cu THEN ChildStates(z, q) \cup {new} ELSE ChildStates(z, q)
      /\ ChildStates(bigger, new) = {}
  BY <1>1, ChildrenAppended
<1>4. /\ un2 \in Seq(1..new) /\ Len(un2) = Len(un) + 1
      /\ \A k \in 1..Len(un) : un2[k] = un[k] /\ un[k] \in 1..Len(z)
      /\ un2[Len(un) + 1] = new
  <2>1. un \in Seq(1..new) /\ new \in 1..new
    BY <1>1
  <2> QED
    BY <2>1, <1>1
<1>5. Range(un2) = Range(un) \cup {new} /\ Range(un) \subseteq 1..Len(z)
  <2>1. /\ DOMAIN un2 = 1..Len(un) + 1 /\ DOMAIN un = 1..Len(un)
        /\ 1..Len(un) + 1 = (1..Len(un)) \cup {Len(un) + 1}
    BY <1>1, <1>4
  <2> QED
    BY <2>1, <1>4 DEF Range
<1>6. new \notin 1..Len(z)
  BY <1>1
<1>7. \A q \in 1..Len(z) : q \in Range(un2) <=> q \in Range(un)
  BY <1>5, <1>6
<1>8. \A q \in 1..Len(z) :
         Tried(pr, bigger, un2, cu, done \cup {t}, q) =
             IF q = cu THEN Tried(pr, z, un, cu, done, q) \cup {t}
             ELSE Tried(pr, z, un, cu, done, q)
  <2>1. SUFFICES ASSUME NEW q \in 1..Len(z)
                 PROVE  Tried(pr, bigger, un2, cu, done \cup {t}, q) =
                            IF q = cu THEN Tried(pr, z, un, cu, done, q) \cup {t}
                            ELSE Tried(pr, z, un, cu, done, q)
    OBVIOUS
  <2>2. bigger[q] = z[q] /\ (q \in Range(un2) <=> q \in Range(un)) /\ cu \notin Range(un)
    BY <1>2, <1>7 DEF Queued
  <2> QED
    BY <2>2 DEF Tried, OutAt
<1>9. Tried(pr, bigger, un2, cu, done \cup {t}, new) = {}
  BY <1>5 DEF Tried
<1>10. ASSUME NEW q \in 1..Len(z),
              NEW S, S = Tried(pr, z, un, cu, done, q),
              NEW S2, S2 = Tried(pr, bigger, un2, cu, done \cup {t}, q)
       PROVE  GrownAt(bigger, q, S2) /\ (si = 0 => CompleteAt(bigger, q, S2))
  <2>1. GrownAt(z, q, S) /\ (si = 0 => CompleteAt(z, q, S))
    BY <1>10 DEF Explored
  <2>2. /\ bigger[q] = z[q]
        /\ \A u : Taken(bigger, q, u) <=> Taken(z, q, u)
        /\ \A c \in ChildStates(z, q) : bigger[c] = z[c]
    <3>1. ChildStates(z, q) \subseteq 1..Len(z)
      BY <1>1 DEF ChildStates, Shaped
    <3> QED
      BY <3>1, <1>2
  <2>3. CASE q # cu
    <3>1. S2 = S /\ ChildStates(bigger, q) = ChildStates(z, q)
      BY <2>3, <1>3, <1>8, <1>10
    <3>2. GrownAt(bigger, q, S2)
      BY <3>1, <2>1, <2>2 DEF GrownAt
    <3>3. si = 0 => CompleteAt(bigger, q, S2)
      BY <3>1, <2>1, <2>2 DEF CompleteAt
    <3> QED
      BY <3>2, <3>3
  <2>4. CASE q = cu
    <3>1. S2 = S \cup {t} /\ ChildStates(bigger, q) = ChildStates(z, q) \cup {new}
      BY <2>4, <1>3, <1>8, <1>10
    <3>2. /\ Content(bigger[new]) = NextContent(bigger[q], t) /\ Taken(bigger, q, t)
      BY <2>2, <2>4, <1>2
    <3>3. GrownAt(bigger, q, S2)
      BY <3>1, <3>2, <2>1, <2>2 DEF GrownAt
    <3>4. si = 0 => CompleteAt(bigger, q, S2)
      BY <3>1, <3>2, <2>1, <2>2 DEF CompleteAt
    <3> QED
      BY <3>3, <3>4
  <2> QED
    BY <2>3, <2>4
<1>11. /\ GrownAt(bigger, new, Tried(pr, bigger, un2, cu, done \cup {t}, new))
       /\ CompleteAt(bigger, new, Tried(pr, bigger, un2, cu, done \cup {t}, new))
  BY <1>3, <1>9 DEF GrownAt, CompleteAt
<1>12. Explored(pr, bigger, un2, cu, done \cup {t}, si)
  <2>1. \A q \in 1..new : q \in 1..Len(z) \/ q = new
    BY ONLY <1>1
  <2> QED
    BY <2>1, <1>2, <1>10, <1>11 DEF Explored
<1>13. Queued(bigger, un2, cu)
  <2>1. un2 \in Seq(1..Len(bigger)) /\ cu \in 0..Len(bigger)
    BY <1>1, <1>2, <1>4
  <2>2. cu \notin Range(un2)
    BY <1>1, <1>5, <1>6 DEF Queued
  <2>3. ASSUME NEW j \in 1..Len(un2), NEW k \in 1..Len(un2), un2[j] = un2[k]
        PROVE  j = k
    <3>1. \A h \in 1..Len(un2) : h \in 1..Len(un) \/ h = Len(un) + 1
      BY <1>1, <1>4
    <3>2. \A g, h \in 1..Len(un) : un[g] = un[h] => g = h
      BY DEF Queued
    <3> QED
      BY <3>1, <3>2, <2>3, <1>4, <1>6
  <2> QED
    BY <2>1, <2>2, <2>3 DEF Queued
<1> QED
  BY <1>12, <1>13

(* A transition without a child.                                           *)
LEMMA ExploredCut ==
    ASSUME NEW pr, NEW z, NEW un, NEW cu, NEW done, NEW si, Queued(z, un, cu),
           Explored(pr, z, un, cu, done, si),
           NEW t, NEW si2, si2 = 0 => si = 0 /\ ~Taken(z, cu, t)
    PROVE  Explored(pr, z, un, cu, done \cup {t}, si2)
<1>1. SUFFICES ASSUME NEW q \in 1..Len(z),
                      NEW S, S = Tried(pr, z, un, cu, done, q),
                      NEW S2, S2 = Tried(pr, z, un, cu, done \cup {t}, q)
               PROVE  GrownAt(z, q, S2) /\ (si2 = 0 => CompleteAt(z, q, S2))
  BY DEF Explored
<1>2. GrownAt(z, q, S) /\ (si = 0 => CompleteAt(z, q, S))
  BY <1>1 DEF Explored
<1>3. S2 = S \/ (S2 = S \cup {t} /\ q = cu)
  BY <1>1 DEF Tried, Queued
<1>4. GrownAt(z, q, S2)
  BY <1>2, <1>3 DEF GrownAt
<1>5. ASSUME si2 = 0 PROVE CompleteAt(z, q, S2)
  BY <1>2, <1>3, <1>5 DEF CompleteAt
<1> QED
  BY <1>4, <1>5

(* The head of the queue is taken; nothing of it has been tried.           *)
LEMMA ExploredPick ==
    ASSUME NEW pr, NEW z, NEW un, NEW done, NEW si, Queued(z, un, 0), un # <<>>,
           Explored(pr, z, un, 0, done, si),
           NEW cu, cu = Head(un), NEW rest, rest = Tail(un)
    PROVE  Explored(pr, z, rest, cu, {}, si) /\ Queued(z, rest, cu) /\ cu # 0
<1>1. /\ un \in Seq(1..Len(z)) /\ Len(un) \in Nat /\ Len(un) >= 1
      /\ \A j, k \in 1..Len(un) : un[j] = un[k] => j = k
  BY DEF Queued
<1>2. /\ cu = un[1] /\ rest \in Seq(1..Len(z)) /\ Len(rest) = Len(un) - 1
      /\ \A k \in 1..Len(rest) : rest[k] = un[k + 1]
      /\ cu \in 1..Len(z)
  BY <1>1
<1>3. DOMAIN un = 1..Len(un) /\ DOMAIN rest = 1..Len(rest)
  BY <1>1, <1>2
<1>4. cu \notin Range(rest)
  <2>1. SUFFICES ASSUME NEW k \in 1..Len(rest), rest[k] = cu PROVE FALSE
    BY <1>3 DEF Range
  <2>2. k + 1 \in 1..Len(un) /\ 1 \in 1..Len(un) /\ un[k + 1] = un[1] /\ k + 1 # 1
    BY <2>1, <1>1, <1>2
  <2> QED
    BY <2>2, <1>1
<1>5. Range(un) = Range(rest) \cup {cu}
  <2>1. ASSUME NEW k \in 1..Len(un) PROVE un[k] \in Range(rest) \cup {cu}
    <3>1. CASE k = 1
      BY <3>1, <1>2
    <3>2. CASE k # 1
      <4>1. k - 1 \in 1..Len(rest) /\ (k - 1) + 1 = k
        BY <3>2, <1>1, <1>2
      <4>2. rest[k - 1] = un[k]
        BY <4>1, <1>2
      <4> QED
        BY <4>1, <4>2, <1>3 DEF Range
    <3> QED
      BY <3>1, <3>2
  <2>2. ASSUME NEW k \in 1..Len(rest) PROVE rest[k] \in Range(un)
    <3>1. k + 1 \in 1..Len(un) /\ rest[k] = un[k + 1]
      BY <1>1, <1>2
    <3> QED
      BY <3>1, <1>3 DEF Range
  <2>3. cu \in Range(un)
    BY <1>1, <1>2, <1>3 DEF Range
  <2>4. Range(un) \subseteq Range(rest) \cup {cu}
    BY <2>1, <1>3 DEF Range
  <2>5. Range(rest) \subseteq Range(un)
    BY <2>2, <1>3 DEF Range
  <2> QED
    BY <2>3, <2>4, <2>5
<1>6. Queued(z, rest, cu)
  <2>1. ASSUME NEW j \in 1..Len(rest), NEW k \in 1..Len(rest), rest[j] = rest[k]
        PROVE  j = k
    <3>1. j + 1 \in 1..Len(un) /\ k + 1 \in 1..Len(un) /\ un[j + 1] = un[k + 1]
      BY <2>1, <1>1, <1>2
    <3>2. j + 1 = k + 1
      BY <3>1, <1>1
    <3> QED
      BY <3>2, <1>1, <1>2
  <2>2. cu \in 0..Len(z)
    BY <1>2
  <2> QED
    BY <2>1, <2>2, <1>2, <1>4 DEF Queued
<1>7. ASSUME NEW q \in 1..Len(z)
      PROVE  Tried(pr, z, rest, cu, {}, q) = Tried(pr, z, un, 0, done, q)
  <2>1. q # 0
    OBVIOUS
  <2>2. q = cu => Tried(pr, z, rest, cu, {}, q) = {} /\ Tried(pr, z, un, 0, done, q) = {}
    BY <1>5 DEF Tried
  <2>3. q # cu => (q \in Range(un) <=> q \in Range(rest))
    BY <1>5
  <2> QED
    BY <2>1, <2>2, <2>3 DEF Tried
<1>8. Explored(pr, z, rest, cu, {}, si)
  BY <1>7 DEF Explored
<1>9. cu # 0
  BY <1>2
<1> QED
  BY <1>6, <1>8, <1>9

(* All transitions of the current state have been tried.                   *)
LEMMA ExploredLeave ==
    ASSUME NEW pr, NEW z, NEW un, NEW cu, NEW si, Queued(z, un, cu),
           Explored(pr, z, un, cu, Range(OutAt(pr, z, cu)), si), NEW done
    PROVE  Explored(pr, z, un, 0, done, si) /\ (0 \notin Range(un) => Queued(z, un, 0))
<1>1. ASSUME NEW q \in 1..Len(z)
      PROVE  Tried(pr, z, un, 0, done, q) = Tried(pr, z, un, cu, Range(OutAt(pr, z, cu)), q)
  <2>1. q # 0
    OBVIOUS
  <2> QED
    BY <2>1 DEF Tried
<1>2. Explored(pr, z, un, 0, done, si)
  BY <1>1 DEF Explored
<1>3. 0 \in 0..Len(z)
  BY DEF Queued
<1> QED
  BY <1>2, <1>3 DEF Queued

\* All states of a tree have all the children they should have.
Finished(pr, z) ==
    \A p \in 1..Len(z) :
        GrownAt(z, p, Range(OutAt(pr, z, p))) /\ CompleteAt(z, p, Range(OutAt(pr, z, p)))

(* At the end everything has been tried.                                   *)
LEMMA ExploredEnd ==
    ASSUME NEW pr, NEW z, NEW done, Explored(pr, z, <<>>, 0, done, 0)
    PROVE  Finished(pr, z)
<1>1. SUFFICES ASSUME NEW q \in 1..Len(z)
               PROVE  Tried(pr, z, <<>>, 0, done, q) = Range(OutAt(pr, z, q))
  BY DEF Explored, Finished
<1>2. q \notin Range(<<>>) /\ q # 0
  BY DEF Range
<1> QED
  BY <1>2 DEF Tried

(* The root alone.                                                         *)
LEMMA ExploredStart ==
    ASSUME NEW pr, NEW n, n.ancestry = << 1 >>, NEW z, z = <<n>>, NEW done, NEW si
    PROVE  /\ Explored(pr, z, <<1>>, 0, done, si) /\ Queued(z, <<1>>, 0)
           /\ Chained(z)
<1>1. Len(z) = 1 /\ z[1] = n /\ DOMAIN z = {1}
  OBVIOUS
<1>2. Parent(n) = 0
  BY DEF Parent
<1>3. ChildStates(z, 1) = {}
  BY <1>1, <1>2 DEF ChildStates
<1>4. Range(<<1>>) = {1}
  BY DEF Range
<1>5. Explored(pr, z, <<1>>, 0, done, si)
  <2>1. SUFFICES ASSUME NEW q \in 1..Len(z)
                 PROVE  /\ GrownAt(z, q, Tried(pr, z, <<1>>, 0, done, q))
                        /\ CompleteAt(z, q, Tried(pr, z, <<1>>, 0, done, q))
    BY DEF Explored
  <2>2. q = 1
    BY <1>1
  <2>3. Tried(pr, z, <<1>>, 0, done, q) = {}
    BY <2>2, <1>4 DEF Tried
  <2> QED
    BY <2>2, <2>3, <1>3 DEF GrownAt, CompleteAt
<1>6. Queued(z, <<1>>, 0)
  BY <1>1, <1>4 DEF Queued
<1>7. Chained(z)
  BY <1>1 DEF Chained
<1> QED
  BY <1>5, <1>6, <1>7

(* Along the chain of the new state every step leads to a child.           *)
LEMMA ChainedExtend ==
    ASSUME NEW z, Shaped(z), Chained(z), NEW p \in 1..Len(z), NEW n, NEW bigger,
           WithChild(z, p, n, bigger)
    PROVE  Chained(bigger)
<1> DEFINE new == Len(z) + 1
           a == z[p].ancestry
<1>1. /\ Len(z) \in Nat /\ Len(bigger) = new
      /\ \A q \in 1..Len(z) : bigger[q] = z[q]
      /\ bigger[new] = n /\ n.ancestry = Append(a, new)
  BY Extended DEF Shaped, WithChild
<1>2. \A q \in 1..Len(z) :
         ChildStates(bigger, q) = IF q = p THEN ChildStates(z, q) \cup {new} ELSE ChildStates(z, q)
  BY ChildrenAppended
<1>3. ASSUME NEW k \in 1..Len(z)
      PROVE  /\ z[k].ancestry[1] = 1
             /\ \A j \in 1..Len(z[k].ancestry) - 1 :
                   z[k].ancestry[j + 1] \in ChildStates(bigger, z[k].ancestry[j])
  <2>1. /\ z[k].ancestry[1] = 1
        /\ \A j \in 1..Len(z[k].ancestry) - 1 :
              z[k].ancestry[j + 1] \in ChildStates(z, z[k].ancestry[j])
    BY DEF Chained
  <2>2. z[k].ancestry \in Seq(1..Len(z)) /\ Len(z[k].ancestry) \in Nat
    BY ChainEnds
  <2>3. \A j \in 1..Len(z[k].ancestry) - 1 : z[k].ancestry[j] \in 1..Len(z)
    BY <2>2
  <2> HIDE DEF new
  <2> QED
    BY <2>1, <2>3, <1>2
<1>4. /\ a \in Seq(1..Len(z)) /\ Len(a) \in Nat /\ Len(a) >= 1 /\ a[Len(a)] = p
      /\ a[1] = 1
      /\ \A j \in 1..Len(a) - 1 : a[j + 1] \in ChildStates(bigger, a[j])
  BY <1>3, ChainEnds DEF Shaped
<1> HIDE DEF a
<1>5. /\ Len(Append(a, new)) = Len(a) + 1
      /\ \A j \in 1..Len(a) : Append(a, new)[j] = a[j]
      /\ Append(a, new)[Len(a) + 1] = new
  <2>1. a \in Seq(1..Len(z)) /\ Len(a) \in Nat
    BY <1>4
  <2>2. \A S : \A s \in Seq(S) : \A e :
           /\ Len(Append(s, e)) = Len(s) + 1
           /\ \A j \in 1..Len(s) : Append(s, e)[j] = s[j]
           /\ Append(s, e)[Len(s) + 1] = e
    <3>1. SUFFICES ASSUME NEW S, NEW s \in Seq(S), NEW e
                   PROVE  /\ Len(Append(s, e)) = Len(s) + 1
                          /\ \A j \in 1..Len(s) : Append(s, e)[j] = s[j]
                          /\ Append(s, e)[Len(s) + 1] = e
      OBVIOUS
    <3>2. s \in Seq(S \cup {e})
      OBVIOUS
    <3> QED
      BY ONLY <3>2
  <2> QED
    BY <2>1, <2>2
<1>6. /\ n.ancestry[1] = 1
      /\ \A j \in 1..Len(n.ancestry) - 1 :
            n.ancestry[j + 1] \in ChildStates(bigger, n.ancestry[j])
  <2>1. n.ancestry[1] = 1 /\ Len(n.ancestry) - 1 = Len(a)
    BY <1>1, <1>4, <1>5
  <2>2. SUFFICES ASSUME NEW j \in 1..Len(a)
                 PROVE  n.ancestry[j + 1] \in ChildStates(bigger, n.ancestry[j])
    BY <2>1
  <2>3. CASE j = Len(a)
    <3>1. n.ancestry[j + 1] = new /\ n.ancestry[j] = p
      BY <2>3, <1>1, <1>4, <1>5
    <3>2. new \in ChildStates(bigger, p)
      BY <1>2
    <3> QED
      BY <3>1, <3>2
  <2>4. CASE j # Len(a)
    <3>1. j \in 1..Len(a) - 1 /\ j + 1 \in 1..Len(a)
      BY <2>4, <1>4
    <3>2. n.ancestry[j + 1] = a[j + 1] /\ n.ancestry[j] = a[j]
      BY <3>1, <1>1, <1>5
    <3> QED
      BY <3>1, <3>2, <1>4
  <2> QED
    BY <2>3, <2>4
<1>7. \A k \in 1..new : k \in 1..Len(z) \/ k = new
  BY ONLY <1>1
<1>8. ASSUME NEW k \in 1..Len(bigger)
      PROVE  /\ bigger[k].ancestry[1] = 1
             /\ \A j \in 1..Len(bigger[k].ancestry) - 1 :
                   bigger[k].ancestry[j + 1] \in ChildStates(bigger, bigger[k].ancestry[j])
  <2>1. CASE k \in 1..Len(z)
    BY <2>1, <1>1, <1>3
  <2>2. CASE k = new
    BY <2>2, <1>1, <1>6
  <2> QED
    BY <2>1, <2>2, <1>1, <1>7
<1> QED
  BY <1>8 DEF Chained

-----------------------------------------------------------------------------
(* The walk.                                                               *)

\* The transitions of a state before the ii-th.
Before(pr, z, p, ii) == {OutAt(pr, z, p)[j] : j \in (1..ii - 1) \cap DOMAIN OutAt(pr, z, p)}

XInv ==
    /\ IInv
    /\ Queued(zset, unvisited, current)
    /\ Explored(product, zset, unvisited, current, Before(product, zset, current, i), silent)
    /\ Chained(zset)
    /\ status = "returned" => unvisited = <<>> /\ current = 0

\* No tree.
LEMMA ExploredNothing ==
    ASSUME NEW pr, NEW done, NEW si
    PROVE  Explored(pr, <<>>, <<>>, 0, done, si) /\ Queued(<<>>, <<>>, 0) /\ Chained(<<>>)
<1>1. Len(<<>>) = 0 /\ Range(<<>>) = {} /\ <<>> \in Seq(1..0)
  BY DEF Range
<1> QED
  BY <1>1 DEF Explored, Queued, Chained

\* Whether a transition gets a child is what the two solvers are asked.
LEMMA TakenNow ==
    ASSUME XInv, InLoop, NEW t, t = OutTransitions[i]
    PROVE  /\ current \in 1..Len(zset) /\ i \in DOMAIN OutTransitions
           /\ OutTransitions = OutAt(product, zset, current)
           /\ Content(nextZSES) = NextContent(zset[current], t)
           /\ nextZSES.ancestry = Append(zset[current].ancestry, Len(zset) + 1)
           /\ Taken(zset, current, t) <=>
                 isReachable(nextZSES) /\ ~upperBoundReached(nextZSES.location, CurrentZSES)
           /\ Before(product, zset, current, i + 1) =
                 Before(product, zset, current, i) \cup {t}
<1>1. /\ current \in 1..Len(zset) /\ zset[current].location \in Label
      /\ nextZSES.ancestry = Append(zset[current].ancestry, Len(zset) + 1)
  BY NextState, Chains DEF XInv, Shaped
<1>2. OutTransitions = OutAt(product, zset, current)
  BY DEF OutTransitions, OutAt, CurrentZSES
<1>3. Content(nextZSES) = NextContent(zset[current], t)
  BY DEF Content, NextContent, nextZSES, Read, GuardValues, CurrentZSES
<1>4. /\ isReachable(nextZSES) <=> isReachable(NextContent(zset[current], t))
      /\ nextZSES.location = t.target
  <2>1. /\ nextZSES.pathCondition = NextContent(zset[current], t).pathCondition
        /\ nextZSES.zone = NextContent(zset[current], t).zone
        /\ nextZSES.location = t.target
    BY DEF NextContent, nextZSES, Read, GuardValues, CurrentZSES
  <2> QED
    BY <2>1 DEF isReachable
<1>5. upperBoundReached(t.target, CurrentZSES) <=>
         Cardinality(VisitsAlong(zset, zset[current].ancestry, t.target)) >= 2
  BY DEF upperBoundReached, Visits, VisitsAlong, CurrentZSES
<1>6. Taken(zset, current, t) <=>
         isReachable(nextZSES) /\ ~upperBoundReached(nextZSES.location, CurrentZSES)
  BY <1>4, <1>5 DEF Taken
<1>7. i \in DOMAIN OutTransitions /\ i \in Nat \ {0}
  <2>1. product \in Products /\ i \in Nat \ {0} /\ i <= Len(OutTransitions)
    BY DEF XInv, IInv, TypeOK, InLoop
  <2>2. OutTransitions \in Seq(UNION {Range(product.out[l]) : l \in Label})
    BY <1>1, <2>1, ProductsAssumption DEF OutTransitions, CurrentZSES
  <2> HIDE DEF OutTransitions
  <2> QED
    BY <2>1, <2>2
<1>8. Before(product, zset, current, i + 1) = Before(product, zset, current, i) \cup {t}
  <2> DEFINE out == OutAt(product, zset, current)
  <2>1. i \in DOMAIN out /\ t = out[i]
    BY <1>2, <1>7
  <2>2. (i + 1) - 1 = i
    BY <1>7
  <2> HIDE DEF out
  <2>3. (1..i) \cap DOMAIN out = ((1..i - 1) \cap DOMAIN out) \cup {i}
    BY <1>7, <2>1
  <2>4. Before(product, zset, current, i + 1) = {out[j] : j \in (1..i) \cap DOMAIN out}
    BY <2>2 DEF Before, out
  <2>5. Before(product, zset, current, i) = {out[j] : j \in (1..i - 1) \cap DOMAIN out}
    BY DEF Before, out
  <2> QED
    BY <2>1, <2>3, <2>4, <2>5
<1> QED
  BY <1>1, <1>2, <1>3, <1>6, <1>7, <1>8

\* Before the first transition, and after the last.
LEMMA BeforeFirst == ASSUME NEW pr, NEW z, NEW p PROVE Before(pr, z, p, 1) = {}
  BY DEF Before

LEMMA AfterLast ==
    ASSUME NEW pr, NEW z, NEW p, NEW ii \in Nat, NEW S, OutAt(pr, z, p) \in Seq(S),
           ii > Len(OutAt(pr, z, p))
    PROVE  Before(pr, z, p, ii) = Range(OutAt(pr, z, p))
<1> DEFINE out == OutAt(pr, z, p)
<1>1. DOMAIN out \subseteq 1..ii - 1
  BY DEF OutAt
<1>2. (1..ii - 1) \cap DOMAIN out = DOMAIN out
  BY <1>1
<1> QED
  BY <1>2 DEF Before, Range

(* Every step of the walk keeps it: what has been tried of a state is what *)
(* its children are due to.                                                *)
THEOREM Exploration == Spec => []XInv
<1>1. Init /\ IInv => XInv
  <2> SUFFICES ASSUME Init, IInv PROVE XInv
    OBVIOUS
  <2>1. zset = <<>> /\ unvisited = <<>> /\ current = 0 /\ status = "called"
    BY DEF Init
  <2> QED
    BY <2>1, ExploredNothing DEF XInv
<1>2. XInv /\ IInv' /\ [Next]_vars => XInv'
  <2> SUFFICES ASSUME XInv, IInv', [Next]_vars PROVE XInv'
    OBVIOUS
  <2>1. /\ Shaped(zset) /\ Queued(zset, unvisited, current) /\ Chained(zset)
        /\ Explored(product, zset, unvisited, current,
                    Before(product, zset, current, i), silent)
        /\ silent \in Nat /\ i \in Nat \ {0}
    BY Chains, SilentAssumption DEF XInv, IInv, TypeOK
  \* An exception.
  <2>2. ASSUME zset' = <<>>, unvisited' = <<>>, current' = 0, status' # "returned"
        PROVE  XInv'
    BY <2>2, ExploredNothing DEF XInv
  <2>3. CASE Start
    <3>1. PICK zone \in {InitialZone, NoZone} : zset' = <<InitialState(zone)>>
      BY <2>3 DEF Start
    <3>2. /\ unvisited' = <<1>> /\ status' = "executing" /\ current' = 0
      BY <2>3 DEF Start, XInv, IInv
    <3>3. InitialState(zone).ancestry = <<1>>
      BY DEF InitialState
    <3>4. /\ Explored(product', zset', <<1>>, 0, Before(product', zset', current', i'), silent')
          /\ Queued(zset', <<1>>, 0) /\ Chained(zset')
      BY <3>1, <3>3, ExploredStart
    <3> QED
      BY <3>2, <3>4 DEF XInv
  <2>4. CASE NoSolver
    BY <2>2, <2>4 DEF NoSolver, Raise
  <2>5. CASE Pick
    <3>1. /\ zset' = zset /\ product' = product /\ status' = status /\ silent' = silent
          /\ current' = Head(unvisited) /\ unvisited' = Tail(unvisited) /\ i' = 1
          /\ unvisited # <<>> /\ status = "executing" /\ current = 0
      BY <2>5 DEF Pick
    <3>2. /\ Explored(product, zset, unvisited', current', {}, silent)
          /\ Queued(zset, unvisited', current')
      BY <3>1, <2>1, ExploredPick
    <3>3. Before(product', zset', current', i') = {}
      BY <3>1, BeforeFirst
    <3> QED
      BY <3>1, <3>2, <3>3, <2>1 DEF XInv
  <2>6. CASE Throw
    <3>1. zset' = <<>> /\ unvisited' = <<>> /\ current' = 0 /\ status' # "returned"
      BY <2>6 DEF Throw, Raise
    <3> QED
      BY <3>1, <2>2
  <2>7. CASE Extend
    <3> DEFINE t == OutTransitions[i]
               done == Before(product, zset, current, i)
    <3>1. InLoop /\ status' = status /\ status = "executing"
      BY <2>7 DEF Extend, Solved, InLoop, Continue
    <3>2. /\ current \in 1..Len(zset)
          /\ Content(nextZSES) = NextContent(zset[current], t)
          /\ nextZSES.ancestry = Append(zset[current].ancestry, Len(zset) + 1)
          /\ Taken(zset, current, t) <=>
                isReachable(nextZSES) /\ ~upperBoundReached(nextZSES.location, CurrentZSES)
          /\ Before(product, zset, current, i + 1) = done \cup {t}
      BY <3>1, TakenNow
    <3>3. /\ zset' = Append(zset, nextZSES) /\ unvisited' = Append(unvisited, Len(zset) + 1)
          /\ i' = i + 1 /\ product' = product /\ current' = current /\ silent' = silent
          /\ Taken(zset, current, t)
      BY <2>7, <3>2 DEF Extend, Continue
    <3>4. WithChild(zset, current, nextZSES, zset')
      BY <3>2, <3>3 DEF WithChild
    <3> HIDE DEF t, done
    <3>5. Explored(product, zset, unvisited, current, done, silent)
      BY <2>1 DEF done
    <3>6. current # 0
      BY <3>2
    <3>7. /\ Explored(product, zset', unvisited', current, done \cup {t}, silent)
          /\ Queued(zset', unvisited', current)
      BY <3>2, <3>3, <3>4, <3>5, <3>6, <2>1, ExploredExtend
    <3>8. Chained(zset')
      BY <3>2, <3>4, <2>1, ChainedExtend
    <3>9. Before(product, zset', current, i + 1) = Before(product, zset, current, i + 1)
      <4>1. zset'[current] = zset[current]
        BY <3>2, <3>4, <2>1, Extended
      <4> QED
        BY <4>1 DEF Before, OutAt
    <3> QED
      BY <3>1, <3>2, <3>3, <3>7, <3>8, <3>9 DEF XInv
  \* A transition without a child.
  <2>8. ASSUME InLoop, UNCHANGED <<zset, unvisited>>, Continue,
               silent' = 0 =>
                   silent = 0 /\ ~(/\ isReachable(nextZSES)
                                   /\ ~upperBoundReached(nextZSES.location, CurrentZSES))
        PROVE  XInv'
    <3> DEFINE t == OutTransitions[i]
               done == Before(product, zset, current, i)
    <3>1. /\ Taken(zset, current, t) <=>
                isReachable(nextZSES) /\ ~upperBoundReached(nextZSES.location, CurrentZSES)
          /\ Before(product, zset, current, i + 1) = done \cup {t}
      BY <2>8, TakenNow
    <3>2. /\ zset' = zset /\ unvisited' = unvisited /\ i' = i + 1
          /\ product' = product /\ current' = current /\ status' = status
          /\ status = "executing"
      BY <2>8 DEF Continue, InLoop
    <3>3. silent' = 0 => silent = 0 /\ ~Taken(zset, current, t)
      BY <2>8, <3>1
    <3> HIDE DEF t, done
    <3>4. Explored(product, zset, unvisited, current, done, silent)
      BY <2>1 DEF done
    <3>5. Explored(product, zset, unvisited, current, done \cup {t}, silent')
      BY <3>3, <3>4, <2>1, ExploredCut
    <3> QED
      BY <3>1, <3>2, <3>5, <2>1 DEF XInv
  <2>9. CASE Cut
    BY <2>8, <2>9 DEF Cut, Solved
  <2>10. CASE Silent
    <3>1. InLoop /\ UNCHANGED <<zset, unvisited>> /\ Continue /\ silent' = silent + 1
      BY <2>10 DEF Silent, Solved
    <3>2. silent' # 0
      BY <3>1, <2>1
    <3> QED
      BY <3>1, <3>2, <2>8
  <2>11. CASE Leave
    <3>1. /\ zset' = zset /\ unvisited' = unvisited /\ product' = product /\ silent' = silent
          /\ current' = 0 /\ status' = status /\ status = "executing"
          /\ i > Len(OutTransitions) /\ current # 0
      BY <2>11 DEF Leave
    <3>2. OutTransitions = OutAt(product, zset, current)
      BY DEF OutTransitions, OutAt, CurrentZSES
    <3>3. OutTransitions \in Seq(UNION {Range(product.out[l]) : l \in Label})
      <4>1. zset[current].location \in Label /\ product \in Products
        BY <3>1, <2>1 DEF Queued, Shaped, XInv, IInv, TypeOK
      <4> QED
        BY <4>1, ProductsAssumption DEF OutTransitions, CurrentZSES
    <3>4. Before(product, zset, current, i) = Range(OutAt(product, zset, current))
      BY <3>1, <3>2, <3>3, <2>1, AfterLast
    <3>5. /\ \A done : Explored(product, zset, unvisited, 0, done, silent)
          /\ 0 \notin Range(unvisited) => Queued(zset, unvisited, 0)
      BY <3>4, <2>1, ExploredLeave
    <3>6. 0 \notin Range(unvisited)
      BY <2>1 DEF Queued, Range
    <3> QED
      BY <3>1, <3>5, <3>6, <2>1 DEF XInv
  <2>12. CASE Return
    BY <2>1, <2>12 DEF Return, XInv
  <2>13. CASE UNCHANGED vars
    BY <2>13 DEF vars, XInv
  <2> QED
    BY <2>3, <2>4, <2>5, <2>6, <2>7, <2>9, <2>10, <2>11, <2>12, <2>13 DEF Next
<1> QED
  BY <1>1, <1>2, Invariance, PTL DEF Spec

\* If every run of a solver has answered, the tree is finished.
LEMMA FinishedTree ==
    ASSUME XInv, status = "returned", silent = 0
    PROVE  Finished(product, zset)
<1>1. Explored(product, zset, <<>>, 0, Before(product, zset, 0, i), 0)
  BY DEF XInv
<1> QED
  BY <1>1, ExploredEnd

-----------------------------------------------------------------------------
(* Equal states of the tree.                                               *)

\* The locations along the chain of a state.
Locations(z, k) == [j \in DOMAIN z[k].ancestry |-> z[z[k].ancestry[j]].location]

\* Two states with equal attributes after paths with the same locations.
Twins(z, a, b) ==
    /\ a \in 1..Len(z) /\ b \in 1..Len(z)
    /\ Mutable(z[a]) = Mutable(z[b]) /\ Locations(z, a) = Locations(z, b)

\* They take the same transitions, to the same attributes.
LEMMA TwinsTaken ==
    ASSUME NEW pr, NEW z, NEW a, NEW b, Twins(z, a, b), NEW t
    PROVE  /\ NextContent(z[a], t) = NextContent(z[b], t)
           /\ Taken(z, a, t) <=> Taken(z, b, t)
           /\ OutAt(pr, z, a) = OutAt(pr, z, b)
<1>1. /\ z[a].location = z[b].location /\ z[a].pathCondition = z[b].pathCondition
      /\ z[a].mapping = z[b].mapping /\ z[a].zone = z[b].zone
  BY DEF Twins, Mutable
<1>2. NextContent(z[a], t) = NextContent(z[b], t)
  BY <1>1 DEF NextContent
<1>3. OutAt(pr, z, a) = OutAt(pr, z, b)
  BY <1>1 DEF OutAt
<1>4. ASSUME NEW k PROVE VisitsAlong(z, z[k].ancestry, t.target)
                             = {j \in DOMAIN Locations(z, k) : Locations(z, k)[j] = t.target}
  BY DEF VisitsAlong, Locations
<1>5. VisitsAlong(z, z[a].ancestry, t.target) = VisitsAlong(z, z[b].ancestry, t.target)
  BY <1>4 DEF Twins
<1> QED
  BY <1>2, <1>3, <1>5 DEF Taken

\* A child of the one has an equal child of the other.
LEMMA TwinChild ==
    ASSUME NEW pr, NEW z, Finished(pr, z), NEW a, NEW b, Twins(z, a, b),
           NEW c \in ChildStates(z, a)
    PROVE  \E d \in ChildStates(z, b) : Content(z[d]) = Content(z[c])
<1>1. a \in 1..Len(z) /\ b \in 1..Len(z)
  BY DEF Twins
<1>2. PICK t \in Range(OutAt(pr, z, a)) :
         Taken(z, a, t) /\ Content(z[c]) = NextContent(z[a], t)
  BY <1>1 DEF Finished, GrownAt
<1>3. t \in Range(OutAt(pr, z, b)) /\ Taken(z, b, t) /\ NextContent(z[a], t) = NextContent(z[b], t)
  BY <1>2, TwinsTaken
<1>4. PICK d \in ChildStates(z, b) : Content(z[d]) = NextContent(z[b], t)
  BY <1>1, <1>3 DEF Finished, CompleteAt
<1> QED
  BY <1>2, <1>3, <1>4

\* The locations on the way to a child.
LEMMA LocationsOfChild ==
    ASSUME NEW z, Shaped(z), NEW p \in 1..Len(z), NEW c \in ChildStates(z, p)
    PROVE  /\ c \in 1..Len(z) /\ Len(z[p].ancestry) \in Nat
           /\ DOMAIN Locations(z, p) = 1..Len(z[p].ancestry)
           /\ Locations(z, c) =
                 [j \in 1..Len(z[p].ancestry) + 1 |->
                     IF j = Len(z[p].ancestry) + 1 THEN z[c].location ELSE Locations(z, p)[j]]
<1> DEFINE a == z[p].ancestry
           n == Len(a)
<1>1. /\ a \in Seq(1..Len(z)) /\ n \in Nat /\ Len(z) \in Nat
      /\ c \in 2..Len(z) /\ z[c].ancestry = Append(a, c)
  <2>1. a \in Seq(1..Len(z)) /\ n \in Nat /\ Len(z) \in Nat
    BY ChainEnds DEF Shaped
  <2>2. c \in 2..Len(z) /\ z[c].ancestry = Append(a, c)
    BY ChainOfChild
  <2> QED
    BY <2>1, <2>2
<1>2. c \in 1..Len(z)
  BY <1>1
<1>3. /\ DOMAIN a = 1..n /\ DOMAIN Append(a, c) = 1..n + 1
      /\ \A j \in 1..n : Append(a, c)[j] = a[j]
      /\ Append(a, c)[n + 1] = c
  BY <1>1, <1>2
<1>4. DOMAIN Locations(z, p) = 1..n /\ \A j \in 1..n : Locations(z, p)[j] = z[a[j]].location
  BY <1>3 DEF Locations
<1>5. Locations(z, c) = [j \in 1..n + 1 |-> z[Append(a, c)[j]].location]
  BY <1>1, <1>3 DEF Locations
<1> HIDE DEF a, n
<1>6. ASSUME NEW j \in 1..n + 1
      PROVE  z[Append(a, c)[j]].location =
                 IF j = n + 1 THEN z[c].location ELSE Locations(z, p)[j]
  <2>1. CASE j = n + 1
    BY <2>1, <1>3
  <2>2. CASE j # n + 1
    <3>1. j \in 1..n
      BY <2>2, <1>1
    <3> QED
      BY <3>1, <2>2, <1>3, <1>4
  <2> QED
    BY <2>1, <2>2
<1>7. Locations(z, c) =
         [j \in 1..n + 1 |-> IF j = n + 1 THEN z[c].location ELSE Locations(z, p)[j]]
  BY <1>5, <1>6
<1> QED
  BY <1>1, <1>2, <1>4, <1>7 DEF a, n

\* Equal children of equal states.
LEMMA TwinsNext ==
    ASSUME NEW z, Shaped(z), NEW a, NEW b, Twins(z, a, b),
           NEW c \in ChildStates(z, a), NEW d \in ChildStates(z, b),
           Mutable(z[c]) = Mutable(z[d])
    PROVE  Twins(z, c, d)
<1> DEFINE n == Len(z[a].ancestry)
           m == Len(z[b].ancestry)
<1>1. a \in 1..Len(z) /\ b \in 1..Len(z) /\ Locations(z, a) = Locations(z, b)
  BY DEF Twins
<1>2. /\ c \in 1..Len(z) /\ n \in Nat /\ DOMAIN Locations(z, a) = 1..n
      /\ Locations(z, c) =
            [j \in 1..n + 1 |-> IF j = n + 1 THEN z[c].location ELSE Locations(z, a)[j]]
  BY <1>1, LocationsOfChild
<1>3. /\ d \in 1..Len(z) /\ m \in Nat /\ DOMAIN Locations(z, b) = 1..m
      /\ Locations(z, d) =
            [j \in 1..m + 1 |-> IF j = m + 1 THEN z[d].location ELSE Locations(z, b)[j]]
  BY <1>1, LocationsOfChild
<1> HIDE DEF n, m
<1>4. n = m
  <2>1. 1..n = 1..m
    BY <1>1, <1>2, <1>3
  <2> QED
    BY <2>1, <1>2, <1>3
<1>5. z[c].location = z[d].location
  BY DEF Mutable
<1>6. Locations(z, c) = Locations(z, d)
  BY <1>1, <1>2, <1>3, <1>4, <1>5
<1> QED
  BY <1>2, <1>3, <1>6 DEF Twins

-----------------------------------------------------------------------------
(* The inputs beside the path.                                             *)

\* In the k-th state of a test tree, which is the state p of the execution,
\* there are all inputs the execution has there, and nothing it has not.
Kept(tree, z, p, k) ==
    /\ \A c \in ChildStates(z, p) :
          isInput(z[c]) => \E n \in DOMAIN tree : tree[n].parent = k /\ Matches(tree[n], z[c])
    /\ \A n \in DOMAIN tree :
          tree[n].parent = k => \E c \in ChildStates(z, p) : Matches(tree[n], z[c])

\* Matching does not see more than the content.
LEMMA MatchesContent ==
    ASSUME NEW n, NEW c, NEW d, Content(c) = Content(d)
    PROVE  /\ Matches(n, c) <=> Matches(n, d)
           /\ isInput(c) <=> isInput(d)
           /\ Mutable(c) = Mutable(d)
<1>1. /\ c.location = d.location /\ c.pathCondition = d.pathCondition
      /\ c.mapping = d.mapping /\ c.zone = d.zone
      /\ c.transition = d.transition /\ c.paramIds = d.paramIds
  BY DEF Content
<1> QED
  BY <1>1 DEF Matches, isInput, Mutable

\* What is copied matches, with the location of a leaf or without.
LEMMA CopyMatches ==
    ASSUME NEW n, NEW k
    PROVE  /\ Matches(Copied(n, k), n) /\ Matches(Leaf(n, k), n)
           /\ Copied(n, k).parent = k /\ Leaf(n, k).parent = k
           /\ Mutable(Copied(n, k)) = Mutable(n)
<1>1. Matches(Copied(n, k), n) /\ Copied(n, k).parent = k /\ Mutable(Copied(n, k)) = Mutable(n)
  BY DEF Matches, Copied, Mutable
<1>2. Leaf(n, k) =
         [location |-> createInconclusiveLocation(n.location),
          pathCondition |-> n.pathCondition, mapping |-> n.mapping,
          zone |-> n.zone, transition |-> n.transition, paramIds |-> n.paramIds,
          parent |-> k]
  BY DEF Leaf, Copied
<1>3. Matches(Leaf(n, k), n) /\ Leaf(n, k).parent = k
  BY <1>2 DEF Matches
<1> QED
  BY <1>1, <1>3

\* No leaf hangs on the k-th state of the path yet, or below.
Bare(tree, a, k) == \A q \in Len(a) + 1..Len(tree) : tree[q].parent < k

\* A round in the k-th state of the tree, which is followed by the m-th, for
\* the state zs of the execution, which is followed by found.
Following(tree, z, zs, k, m, next, bigger, found) ==
    /\ m = k + 1 /\ next = tree[m]
    /\ bigger = tree \o Leaves(next, z, zs, k)
    /\ found = getNextZSES(next, z, zs)

(* A round of the walk keeps what it should, also if the walk follows a    *)
(* state that only looks like that of the path; and it can go on.          *)
LEMMA RoundKeeps ==
    ASSUME NEW pr, NEW z, Shaped(z), Finished(pr, z),
           NEW tree, NEW a, Len(a) \in Nat, Structured(tree, z, a),
           NEW k \in 1..Len(a) - 1, Bare(tree, a, k),
           NEW m, a[m] \in ChildStates(z, a[k]),
           NEW zs, Twins(z, zs, a[k]), NEW next, NEW bigger, NEW found,
           Following(tree, z, zs, k, m, next, bigger, found)
    PROVE  /\ Kept(bigger, z, a[k], k)
           /\ found # 0 /\ Twins(z, found, a[m])
           /\ Bare(bigger, a, m)
           /\ \A o, j : j # k /\ Kept(tree, z, o, j) => Kept(bigger, z, o, j)
<1> DEFINE S == Others(next, z, zs)
           p == a[k]
           on == a[k + 1]
<1>0. /\ m = k + 1 /\ next = tree[k + 1] /\ a[k + 1] \in ChildStates(z, a[k])
      /\ bigger = tree \o Leaves(next, z, zs, k) /\ found = getNextZSES(next, z, zs)
  BY DEF Following
<1>1. /\ Structured(bigger, z, a)
      /\ Len(tree) <= Len(bigger) /\ \A q \in 1..Len(tree) : bigger[q] = tree[q]
      /\ \A q \in Len(tree) + 1..Len(bigger) : \E c \in S : bigger[q] = Leaf(z[c], k)
      /\ \A c \in S : \E q \in Len(tree) + 1..Len(bigger) : bigger[q] = Leaf(z[c], k)
  <2>1. z \in Seq(Range(z)) /\ \A c \in DOMAIN z : z[c].location \in Label
    BY DEF Shaped
  <2>2. S = Others(next, z, zs)
    OBVIOUS
  <2>3. /\ Len(a) \in Nat /\ Structured(tree, z, a) /\ k \in 1..Len(a) - 1
        /\ bigger = tree \o Leaves(next, z, zs, k)
    BY <1>0
  <2> HIDE DEF S
  <2>4. Structured(bigger, z, a) /\ Hung(tree, bigger, z, S, k)
    BY ONLY <2>1, <2>2, <2>3, WithLeaves
  <2> QED
    BY <2>4 DEF Hung
<1>2. /\ Len(tree) \in Nat /\ Len(bigger) \in Nat /\ Len(a) <= Len(tree)
      /\ DOMAIN bigger = 1..Len(bigger)
      /\ k \in 1..Len(a) /\ k + 1 \in 1..Len(a) /\ k + 1 \in 1..Len(tree)
      /\ (k + 1) - 1 = k
  BY <1>1 DEF Structured
<1>3. next = Copied(z[on], k) /\ bigger[k + 1] = next /\ k + 1 \in DOMAIN bigger
  BY <1>0, <1>1, <1>2 DEF Structured
<1>4. on \in ChildStates(z, p) /\ Twins(z, zs, p) /\ Twins(z, p, zs)
  BY <1>0 DEF Twins
<1> HIDE DEF S, p, on
<1>5. /\ Matches(next, z[on]) /\ next.parent = k /\ Mutable(next) = Mutable(z[on])
      /\ isInput(next) <=> isInput(z[on])
  <2>1. /\ Matches(Copied(z[on], k), z[on]) /\ Copied(z[on], k).parent = k
        /\ Mutable(Copied(z[on], k)) = Mutable(z[on])
    BY CopyMatches
  <2>2. next.transition = z[on].transition
    BY <1>3 DEF Copied
  <2>3. isInput(next) <=> isInput(z[on])
    BY <2>2 DEF isInput
  <2> QED
    BY <2>1, <2>3, <1>3
<1>6. ASSUME NEW c \in ChildStates(z, p), isInput(z[c])
      PROVE  \E n \in DOMAIN bigger : bigger[n].parent = k /\ Matches(bigger[n], z[c])
  <2>1. PICK d \in ChildStates(z, zs) : Content(z[d]) = Content(z[c])
    BY <1>4, TwinChild
  <2>2. isInput(z[d]) /\ \A n : Matches(n, z[d]) => Matches(n, z[c])
    BY <2>1, <1>6, MatchesContent
  <2>3. CASE d \in S
    <3>1. PICK q \in Len(tree) + 1..Len(bigger) : bigger[q] = Leaf(z[d], k)
      BY <2>3, <1>1
    <3>2. q \in DOMAIN bigger /\ Matches(bigger[q], z[d]) /\ bigger[q].parent = k
      BY <3>1, <1>2, CopyMatches
    <3> QED
      BY <3>2, <2>2
  <2>4. CASE d \notin S
    <3>1. SameTransition(next, z[d])
      BY <2>2, <2>4 DEF S, Others
    <3>2. Matches(next, z[d])
      BY <3>1 DEF SameTransition, Matches, Mutable
    <3> QED
      BY <3>2, <2>2, <1>3, <1>5
  <2> QED
    BY <2>3, <2>4
<1>7. ASSUME NEW n \in DOMAIN bigger, bigger[n].parent = k
      PROVE  \E c \in ChildStates(z, p) : Matches(bigger[n], z[c])
  <2>1. CASE n \in 1..Len(a)
    <3>1. bigger[n].parent = n - 1
      <4>1. bigger[n] = Copied(z[a[n]], n - 1)
        BY <2>1, <1>1 DEF Structured
      <4> QED
        BY <4>1, CopyMatches
    <3>2. n = k + 1
      BY <3>1, <1>2, <1>7
    <3> QED
      BY <3>2, <1>3, <1>4, <1>5
  <2>2. CASE n \in Len(a) + 1..Len(tree)
    <3>1. bigger[n] = tree[n] /\ tree[n].parent < k
      BY <2>2, <1>1, <1>2 DEF Bare
    <3> QED
      BY <3>1, <1>2, <1>7
  <2>3. CASE n \in Len(tree) + 1..Len(bigger)
    <3>1. PICK d \in S : bigger[n] = Leaf(z[d], k)
      BY <2>3, <1>1
    <3>2. d \in ChildStates(z, zs)
      BY DEF S, Others
    <3>3. PICK c \in ChildStates(z, p) : Content(z[c]) = Content(z[d])
      BY <3>2, <1>4, TwinChild
    <3>4. Matches(bigger[n], z[d])
      BY <3>1, CopyMatches
    <3> QED
      BY <3>3, <3>4, MatchesContent
  <2> QED
    BY <2>1, <2>2, <2>3, <1>2
<1>8. Kept(bigger, z, a[k], k)
  BY <1>6, <1>7 DEF Kept, p
<1>9. found # 0 /\ Twins(z, found, on)
  <2>1. PICK d \in ChildStates(z, zs) : Content(z[d]) = Content(z[on])
    BY <1>4, TwinChild
  <2>2. Mutable(next) = Mutable(z[d])
    BY <2>1, <1>5, MatchesContent
  <2>3. found # 0 /\ found \in ChildStates(z, zs) /\ Mutable(next) = Mutable(z[found])
    BY <2>2, <1>0, NextInTree DEF Shaped
  <2>4. Mutable(z[found]) = Mutable(z[on])
    BY <2>3, <1>5
  <2> QED
    BY <2>3, <2>4, <1>4, TwinsNext
<1>10. ASSUME NEW q \in Len(a) + 1..Len(bigger) PROVE bigger[q].parent < k + 1
  <2>1. CASE q \in Len(a) + 1..Len(tree)
    <3>1. bigger[q] = tree[q] /\ tree[q].parent < k
      BY <2>1, <1>1, <1>2 DEF Bare
    <3>2. tree[q].parent \in 1..Len(a) - 1
      BY <2>1 DEF Structured
    <3> QED
      BY <3>1, <3>2, <1>2
  <2>2. CASE q \in Len(tree) + 1..Len(bigger)
    <3>1. PICK d \in S : bigger[q] = Leaf(z[d], k)
      BY <2>2, <1>1
    <3>2. bigger[q].parent = k
      BY <3>1, CopyMatches
    <3> QED
      BY <3>2, <1>2
  <2> QED
    BY <2>1, <2>2, <1>2
\* The states before are as they were.
<1>11. ASSUME NEW o, NEW j, j # k, Kept(tree, z, o, j) PROVE Kept(bigger, z, o, j)
  <2>1. DOMAIN tree = 1..Len(tree) /\ \A q \in DOMAIN tree : q \in DOMAIN bigger
    BY <1>1, <1>2 DEF Structured
  <2>2. \A q \in DOMAIN tree : bigger[q] = tree[q]
    BY <2>1, <1>1
  <2>3. ASSUME NEW q \in DOMAIN bigger, bigger[q].parent = j PROVE q \in DOMAIN tree
    <3>1. SUFFICES ASSUME q \in Len(tree) + 1..Len(bigger) PROVE FALSE
      BY <2>1, <1>2
    <3>2. PICK d \in S : bigger[q] = Leaf(z[d], k)
      BY <3>1, <1>1
    <3>3. bigger[q].parent = k
      BY <3>2, CopyMatches
    <3> QED
      BY <3>3, <2>3, <1>11
  <2>4. ASSUME NEW c \in ChildStates(z, o), isInput(z[c])
        PROVE  \E q \in DOMAIN bigger : bigger[q].parent = j /\ Matches(bigger[q], z[c])
    <3>1. PICK q \in DOMAIN tree : tree[q].parent = j /\ Matches(tree[q], z[c])
      BY <2>4, <1>11 DEF Kept
    <3> QED
      BY <3>1, <2>1, <2>2
  <2>5. ASSUME NEW q \in DOMAIN bigger, bigger[q].parent = j
        PROVE  \E c \in ChildStates(z, o) : Matches(bigger[q], z[c])
    <3>1. q \in DOMAIN tree /\ bigger[q] = tree[q] /\ tree[q].parent = j
      BY <2>2, <2>3, <2>5
    <3> QED
      BY <3>1, <1>11 DEF Kept
  <2> QED
    BY <2>4, <2>5 DEF Kept
<1> QED
  BY <1>0, <1>8, <1>9, <1>10, <1>11 DEF Bare, on

-----------------------------------------------------------------------------
(* The walk along the path.                                                *)

\* The trees are complete, the last one up to where the walk is; there the
\* state of the execution looks like that of the path.
Walked(z, ts, tt, zs) ==
    /\ \A a \in 1..Len(ts) : \A k \in 1..Len(PathTo(z, a)) - 1 :
          (a < Len(ts) \/ tt = 0 \/ k < tt) => Kept(ts[a], z, PathTo(z, a)[k], k)
    /\ tt # 0 => /\ Twins(z, zs, PathTo(z, Len(ts))[tt])
                 /\ Bare(ts[Len(ts)], PathTo(z, Len(ts)), tt)

\* Both walks begin at the roots.
LEMMA WalkBegins ==
    ASSUME NEW z, NEW ts, NEW zs, Shaped(z), Chained(z), TreesTyped(z, ts, 0, zs),
           Walked(z, ts, 0, zs), Len(ts) < Len(AcceptStates(z)),
           NEW path, path = backwardTraversal(z, AcceptStates(z)[Len(ts) + 1]),
           Len(path) # 1,
           NEW now, now = Append(ts, path)
    PROVE  Walked(z, now, 1, 1)
<1> DEFINE n == Len(ts)
           new == Len(ts) + 1
           chain == PathTo(z, new)
<1>1. n \in Nat /\ new \in Nat /\ n < new
  BY DEF TreesTyped
<1>2. /\ Len(now) = new /\ new \in 1..Len(AcceptStates(z))
      /\ \A b \in 1..n : now[b] = ts[b]
      /\ now[new] = path /\ Len(path) = Len(chain)
  BY PathSelected
<1>3. /\ AcceptStates(z)[new] \in 1..Len(z) /\ Len(z) \in Nat
      /\ chain \in Seq(1..Len(z)) /\ Len(chain) \in Nat /\ Len(chain) >= 1
  BY <1>2, PathLength DEF Shaped
<1>4. chain[1] = 1 /\ 1 \in 1..Len(z)
  BY <1>3 DEF Chained, PathTo
<1> HIDE DEF n, new, chain
<1>5. Twins(z, 1, chain[1])
  BY <1>4 DEF Twins
<1>6. Bare(path, chain, 1)
  BY <1>2, <1>3 DEF Bare
<1>7. ASSUME NEW a \in 1..new, NEW k \in 1..Len(PathTo(z, a)) - 1, a < new \/ k < 1
      PROVE  Kept(now[a], z, PathTo(z, a)[k], k)
  <2>1. a < new
    BY <1>7
  <2>2. a \in 1..n
    BY <2>1, <1>1 DEF n, new
  <2>3. Kept(ts[a], z, PathTo(z, a)[k], k)
    BY <2>2 DEF Walked, n
  <2> QED
    BY <2>2, <2>3, <1>2
<1> QED
  BY <1>2, <1>5, <1>6, <1>7 DEF Walked, chain

\* A round of both.
LEMMA WalkGoesOn ==
    ASSUME NEW pr, NEW z, NEW ts, NEW tt, NEW zs, Shaped(z), Chained(z), Finished(pr, z),
           TreesTyped(z, ts, tt, zs), Walked(z, ts, tt, zs),
           NEW n, NEW heir, NEW next, NEW more, NEW now,
           RoundOf(z, ts, tt, zs, n, heir, next, more, now),
           NEW found, found = getNextZSES(next, z, zs)
    PROVE  Walked(z, now, heir, found) /\ zs # 0
<1> DEFINE chain == PathTo(z, n)
           tree == ts[n]
<1>0. /\ tt # 0 /\ n = Len(ts) /\ next = ts[n][heir]
      /\ more = ts[n] \o Leaves(next, z, zs, tt)
  BY DEF RoundOf
<1>1. Twins(z, zs, chain[tt]) /\ Bare(tree, chain, tt)
  BY <1>0 DEF Walked
<1>2. zs # 0
  BY <1>1 DEF Twins
<1>3. /\ n \in 1..Len(AcceptStates(z)) /\ n \in 1..Len(ts) /\ Len(now) = n
      /\ tt \in 1..Len(chain) - 1 /\ heir = tt + 1
      /\ now[n] = more /\ \A b \in 1..n : b # n => now[b] = ts[b]
  <2>1. zs # 0
    BY <1>2
  <2>2. n \in 1..Len(AcceptStates(z)) /\ n \in 1..Len(ts) /\ Len(now) = n
    BY <2>1, Round
  <2>3. tt \in 1..Len(PathTo(z, n)) - 1 /\ heir = tt + 1
    BY <2>1, Round
  <2>4. now[n] = more /\ \A b \in 1..n : b # n => now[b] = ts[b]
    BY <2>1, Round
  <2> QED
    BY <2>2, <2>3, <2>4
<1>4. /\ AcceptStates(z)[n] \in 1..Len(z) /\ Len(chain) \in Nat
  BY <1>3, PathLength
<1>5. chain[heir] \in ChildStates(z, chain[tt])
  BY <1>3, <1>4 DEF Chained, PathTo
<1>6. Structured(tree, z, chain)
  BY <1>3 DEF TreesTyped
<1>7. next = tree[heir] /\ more = tree \o Leaves(next, z, zs, tt)
  BY <1>0, <1>3
<1> HIDE DEF chain, tree
<1>8. /\ Kept(more, z, chain[tt], tt)
      /\ Twins(z, found, chain[heir])
      /\ Bare(more, chain, heir)
      /\ \A o, j : j # tt /\ Kept(tree, z, o, j) => Kept(more, z, o, j)
  <2>1. Following(tree, z, zs, tt, heir, next, more, found)
    BY <1>3, <1>7 DEF Following
  <2>2. Kept(more, z, chain[tt], tt)
    BY <2>1, <1>1, <1>3, <1>4, <1>5, <1>6, RoundKeeps
  <2>3. Twins(z, found, chain[heir])
    BY <2>1, <1>1, <1>3, <1>4, <1>5, <1>6, RoundKeeps
  <2>4. Bare(more, chain, heir)
    BY <2>1, <1>1, <1>3, <1>4, <1>5, <1>6, RoundKeeps
  <2>5. \A o, j : j # tt /\ Kept(tree, z, o, j) => Kept(more, z, o, j)
    BY <2>1, <1>1, <1>3, <1>4, <1>5, <1>6, RoundKeeps
  <2> QED
    BY <2>2, <2>3, <2>4, <2>5
<1>9. ASSUME NEW a \in 1..n, NEW k \in 1..Len(PathTo(z, a)) - 1, a < n \/ k < tt + 1
      PROVE  Kept(now[a], z, PathTo(z, a)[k], k)
  <2>1. CASE a = n
    <3>1. k \in Nat /\ tt \in Nat /\ k < tt + 1
      BY <2>1, <1>3, <1>9
    <3>2. CASE k = tt
      BY <3>2, <2>1, <1>3, <1>8 DEF chain
    <3>3. CASE k # tt
      <4>1. Kept(tree, z, PathTo(z, a)[k], k)
        BY <3>1, <3>3, <2>1, <1>0 DEF Walked, tree
      <4> QED
        BY <4>1, <3>3, <2>1, <1>3, <1>8
    <3> QED
      BY <3>2, <3>3
  <2>2. CASE a # n
    <3>1. a < n /\ a \in 1..Len(ts) /\ now[a] = ts[a]
      BY <2>2, <1>0, <1>3
    <3> QED
      BY <3>1, <1>0 DEF Walked
  <2> QED
    BY <2>1, <2>2
<1>10. tt + 1 # 0
  BY <1>3
<1> QED
  BY <1>2, <1>3, <1>8, <1>9, <1>10 DEF Walked, chain

\* The end of the path.
LEMMA WalkEnds ==
    ASSUME NEW z, NEW ts, NEW tt, NEW zs, Shaped(z), TreesTyped(z, ts, tt, zs),
           Walked(z, ts, tt, zs), tt # 0, TreeChildren(ts[Len(ts)], tt) = <<>>
    PROVE  Walked(z, ts, 0, 0)
<1> DEFINE n == Len(ts)
           chain == PathTo(z, n)
<1>1. n \in 1..Len(AcceptStates(z)) /\ n \in 1..Len(ts) /\ tt \in 1..Len(chain)
  BY AcceptingStates DEF TreesTyped, Shaped
<1>2. Structured(ts[n], z, chain) /\ Len(chain) \in Nat
  BY <1>1, PathLength DEF TreesTyped
<1>3. tt = Len(chain)
  <2>1. tt < Len(chain) => TreeChildren(ts[n], tt) # <<>>
    BY <1>1, <1>2, AlongPath
  <2> QED
    BY <2>1, <1>1, <1>2
<1>4. ASSUME NEW a \in 1..n, NEW k \in 1..Len(PathTo(z, a)) - 1
      PROVE  Kept(ts[a], z, PathTo(z, a)[k], k)
  <2>1. a < n \/ k < tt
    BY <1>1, <1>2, <1>3
  <2> QED
    BY <2>1 DEF Walked
<1> QED
  BY <1>4 DEF Walked

-----------------------------------------------------------------------------
(* The selection.                                                          *)

TInv == silent = 0 => Walked(zset, trees, ttState, zsetState)

\* The numbers of a set are the elements of the sequence.
LEMMA AscendingRange ==
    ASSUME NEW n \in Nat, NEW S \in SUBSET (1..n) PROVE Range(Ascending(S)) = S
<1>1. /\ Ascending(S) \in Seq(S) /\ Len(Ascending(S)) = Cardinality(S)
      /\ \A q \in 1..Cardinality(S) : Ascending(S)[q] \in S
      /\ \A k \in S : \E q \in 1..Cardinality(S) : Ascending(S)[q] = k
  BY AscendingOf
<1>2. DOMAIN Ascending(S) = 1..Cardinality(S)
  BY <1>1
<1> QED
  BY <1>1, <1>2 DEF Range

\* Nothing is selected before the execution has ended.
LEMMA WalkedNothing == ASSUME NEW z PROVE Walked(z, <<>>, 0, 0)
  BY DEF Walked

(* Every step of the call keeps what the walk has found.                   *)
LEMMA TreesKept ==
    ASSUME TInv, SInv, XInv, Ordered, SInv', [GenerationNext]_allVars
    PROVE  TInv'
<1>1. /\ Shaped(zset) /\ Chained(zset) /\ TreesTyped(zset, trees, ttState, zsetState)
      /\ Staged
  BY Chains DEF SInv, XInv
\* Most steps leave the walk alone.
<1>2. ASSUME UNCHANGED <<vars, selectionVars>> PROVE TInv'
  BY <1>2 DEF TInv, vars, selectionVars
<1>3. CASE UNCHANGED allVars
  BY <1>2, <1>3 DEF allVars, vars, selectionVars
<1>4. CASE \/ Complete \/ Multiply \/ ExecuteNothing \/ Executed
           \/ SelectNothing \/ Selected \/ BeginTestCase \/ AddChild \/ LeaveState \/ Transformed
  <2>1. UNCHANGED <<vars, selectionVars>>
    <3>1. CASE Complete \/ Multiply
      BY <3>1 DEF Complete, Multiply, Prepare, Crash
    <3>2. CASE ExecuteNothing \/ SelectNothing
      BY <3>2 DEF ExecuteNothing, SelectNothing, Crash
    <3>3. CASE Executed \/ Selected
      BY <3>3 DEF Executed, Selected
    <3>4. CASE BeginTestCase \/ AddChild
      BY <3>4 DEF BeginTestCase, AddChild
    <3>5. CASE LeaveState \/ Transformed
      BY <3>5 DEF LeaveState, Transformed
    <3> QED
      BY <1>4, <3>1, <3>2, <3>3, <3>4, <3>5
  <2> QED
    BY <2>1, <1>2
<1>5. CASE Execute
  <2>1. stage = "execution" /\ UNCHANGED selectionVars
    BY <1>5 DEF Execute
  <2>2. trees' = <<>> /\ ttState' = 0 /\ zsetState' = 0
    BY <2>1, <1>1 DEF Staged, selectionVars
  <2> QED
    BY <2>2, WalkedNothing DEF TInv
\* The steps of the selection, if every run of a solver has answered.
<1>6. ASSUME UNCHANGED vars, silent = 0 => Walked(zset, trees', ttState', zsetState')
      PROVE  TInv'
  BY <1>6 DEF TInv, vars
<1>7. CASE SelectTestCase
  <2> DEFINE path == backwardTraversal(zset, Accepting[Len(trees) + 1])
  <2>1. UNCHANGED vars /\ ttState = 0 /\ Len(trees) < Len(Accepting)
    BY <1>7 DEF SelectTestCase
  <2>2. CASE Len(path) = 1
    <3>1. UNCHANGED selectionVars
      BY <2>2, <1>7 DEF SelectTestCase, Crash
    <3> QED
      BY <2>1, <3>1, <1>2
  <2>3. CASE Len(path) # 1
    <3>1. trees' = Append(trees, path) /\ ttState' = 1 /\ zsetState' = 1
      BY <2>3, <1>7 DEF SelectTestCase
    <3>2. path = backwardTraversal(zset, AcceptStates(zset)[Len(trees) + 1])
      BY DEF Accepting
    <3>3. Len(trees) < Len(AcceptStates(zset))
      BY <2>1 DEF Accepting
    <3> HIDE DEF path
    <3>4. ASSUME silent = 0 PROVE Walked(zset, trees', 1, 1)
      <4>1. /\ Walked(zset, trees, 0, zsetState)
            /\ TreesTyped(zset, trees, 0, zsetState)
        BY <2>1, <3>4, <1>1 DEF TInv
      <4> QED
        BY <4>1, <3>1, <3>2, <3>3, <2>3, <1>1, WalkBegins
    <3> QED
      BY <3>1, <3>4, <2>1, <1>6
  <2> QED
    BY <2>2, <2>3
<1>8. CASE AddMissingInputs
  <2> DEFINE n == Len(trees)
             heir == Head(TreeChildren(trees[n], ttState))
             next == trees[n][heir]
             more == trees[n] \o Leaves(next, zset, zsetState, ttState)
             now == [trees EXCEPT ![n] = more]
             found == getNextZSES(next, zset, zsetState)
  <2>1. TestTree = trees[n]
    BY DEF TestTree, Last
  <2>2. UNCHANGED vars /\ Selecting /\ ttState # 0 /\ TreeChildren(trees[n], ttState) # <<>>
    BY <2>1, <1>8 DEF AddMissingInputs
  <2>3. RoundOf(zset, trees, ttState, zsetState, n, heir, next, more, now)
    BY <2>2 DEF RoundOf
  <2>4. zsetState # 0 => trees' = now /\ ttState' = heir /\ zsetState' = found
    <3>1. zsetState # 0 => ttState' = heir /\ zsetState' = found
      BY <2>1, <1>8 DEF AddMissingInputs
    <3>2. zsetState # 0 =>
             trees' = [trees EXCEPT ![n] = @ \o Leaves(next, zset, zsetState, ttState)]
      BY <2>1, <1>8 DEF AddMissingInputs
    <3> QED
      BY <3>1, <3>2
  <2> HIDE DEF n, heir, next, more, now
  <2>5. ASSUME silent = 0 PROVE Walked(zset, now, heir, found) /\ zsetState # 0
    <3>1. status = "returned"
      BY <2>2 DEF Selecting, Ordered
    <3>2. Finished(product, zset)
      BY <3>1, <2>5, FinishedTree
    <3>3. Walked(zset, trees, ttState, zsetState)
      BY <2>5 DEF TInv
    <3>4. found = getNextZSES(next, zset, zsetState)
      OBVIOUS
    <3> HIDE DEF found
    <3> QED
      BY <3>2, <3>3, <3>4, <2>3, <1>1, WalkGoesOn
  <2>6. silent = 0 => Walked(zset, trees', ttState', zsetState')
    BY <2>4, <2>5
  <2> QED
    BY <2>2, <2>6, <1>6
<1>9. CASE TestCaseSelected
  <2>1. /\ UNCHANGED vars /\ ttState # 0 /\ TreeChildren(trees[Len(trees)], ttState) = <<>>
        /\ trees' = trees /\ ttState' = 0 /\ zsetState' = 0
    BY <1>9 DEF TestCaseSelected, TestTree, Last
  <2>2. ASSUME silent = 0 PROVE Walked(zset, trees, 0, 0)
    <3>1. Walked(zset, trees, ttState, zsetState)
      BY <2>2 DEF TInv
    <3> QED
      BY <3>1, <2>1, <1>1, WalkEnds
  <2> QED
    BY <2>1, <2>2, <1>6
<1> QED
  BY <1>3, <1>4, <1>5, <1>7, <1>8, <1>9 DEF GenerationNext

\* Between two accepting states, and at the end, every tree is complete.
LEMMA CompleteTrees == ASSUME TInv, SInv PROVE TreesComplete
<1>1. Shaped(zset) /\ TreesTyped(zset, trees, ttState, zsetState)
  BY Chains DEF SInv
<1>2. SUFFICES ASSUME silent = 0, ttState = 0, NEW a \in DOMAIN trees
               PROVE  LET tree     == trees[a]
                          ancestry == zset[Accepting[a]].ancestry
                      IN  /\ \A k \in DOMAIN ancestry : Mutable(tree[k]) = Mutable(zset[ancestry[k]])
                          /\ \A k \in 1..Len(ancestry) - 1 :
                                LET beside == {zset[c] : c \in Range(Children(zset, ancestry[k]))}
                                    kept   == {tree[c] : c \in Range(TreeChildren(tree, k))}
                                IN  /\ \A c \in beside : isInput(c) => \E n \in kept : Matches(n, c)
                                    /\ \A n \in kept : \E c \in beside : Matches(n, c)
  BY DEF TreesComplete
<1> DEFINE tree  == trees[a]
           chain == PathTo(zset, a)
<1>3. /\ a \in 1..Len(trees) /\ a \in 1..Len(AcceptStates(zset))
      /\ chain = zset[Accepting[a]].ancestry
  <2>1. /\ trees \in Seq(Range(trees)) /\ Len(trees) <= Len(AcceptStates(zset))
        /\ Len(AcceptStates(zset)) \in Nat
    BY <1>1, AcceptingStates DEF TreesTyped, Shaped
  <2>2. chain = zset[Accepting[a]].ancestry
    BY DEF PathTo, Accepting
  <2> QED
    BY <2>1, <2>2, <1>2
<1>4. Structured(tree, zset, chain) /\ chain \in Seq(1..Len(zset)) /\ Len(chain) \in Nat
  BY <1>1, <1>3, PathLength DEF TreesTyped
<1>5. Walked(zset, trees, 0, zsetState)
  BY <1>2 DEF TInv
<1> HIDE DEF chain, tree
<1>6. ASSUME NEW k \in DOMAIN chain PROVE Mutable(tree[k]) = Mutable(zset[chain[k]])
  <2>1. k \in 1..Len(chain)
    BY <1>4
  <2>2. tree[k] = Copied(zset[chain[k]], k - 1)
    BY <2>1, <1>4 DEF Structured
  <2> QED
    BY <2>2, CopyMatches
<1>7. ASSUME NEW k \in 1..Len(chain) - 1
      PROVE  LET beside == {zset[c] : c \in Range(Children(zset, chain[k]))}
                 kept   == {tree[c] : c \in Range(TreeChildren(tree, k))}
             IN  /\ \A c \in beside : isInput(c) => \E n \in kept : Matches(n, c)
                 /\ \A n \in kept : \E c \in beside : Matches(n, c)
  <2>1. Kept(tree, zset, chain[k], k)
    BY <1>3, <1>5 DEF Walked, chain, tree
  <2>2. Range(Children(zset, chain[k])) = ChildStates(zset, chain[k])
    <3>1. Len(zset) \in Nat /\ ChildStates(zset, chain[k]) \in SUBSET (1..Len(zset))
      BY <1>1 DEF Shaped, ChildStates
    <3> QED
      BY <3>1, AscendingRange DEF Children
  <2>3. Range(TreeChildren(tree, k)) = {c \in DOMAIN tree : tree[c].parent = k}
    <3> DEFINE S == {c \in DOMAIN tree : tree[c].parent = k}
    <3>1. Len(tree) \in Nat /\ S \in SUBSET (1..Len(tree))
      BY <1>4, ChildNumbers DEF Structured
    <3>2. TreeChildren(tree, k) = Ascending(S)
      BY DEF TreeChildren
    <3> HIDE DEF S
    <3>3. Range(TreeChildren(tree, k)) = S
      BY <3>1, <3>2, AscendingRange
    <3> QED
      BY <3>3 DEF S
  <2> QED
    BY <2>1, <2>2, <2>3 DEF Kept
<1> QED
  BY <1>3, <1>6, <1>7 DEF tree

(* If every run of a solver answers, the test trees follow their paths and *)
(* have all the inputs the execution has beside them and nothing it has    *)
(* not, for every tree the walk can build: the state of the execution that *)
(* forwardTraversal looks up by its attributes need not be the one of the  *)
(* path, but whatever can follow the one can follow the other.             *)
THEOREM TreesAreComplete == GenerationSpec => []TreesComplete
<1>1. GenerationInit => TInv
  BY WalkedNothing DEF GenerationInit, TInv
<1>2. TInv /\ SInv /\ XInv /\ Ordered /\ SInv' /\ [GenerationNext]_allVars => TInv'
  BY TreesKept
<1>3. GenerationSpec => []XInv
  BY ImplementsWalk, Exploration, PTL
<1>4. GenerationSpec => []TInv
  BY <1>1, <1>2, <1>3, LocalsTyped, InOrder, PTL DEF GenerationSpec
<1>5. TInv /\ SInv => TreesComplete
  BY CompleteTrees
<1> QED
  BY <1>4, <1>5, LocalsTyped, PTL

-----------------------------------------------------------------------------
(* The translation of a test tree.                                         *)

\* What is needed of a test tree: its states hang on earlier ones, the first
\* child of the root is the second state, and labels are labels of test cases.
Rooted(tree) ==
    /\ tree \in Seq(Range(tree)) /\ Len(tree) >= 2
    /\ \A k \in 1..Len(tree) : tree[k].location \in TestLabel
    /\ tree[1].parent = 0 /\ \A k \in 2..Len(tree) : tree[k].parent \in 1..k - 1
    /\ TreeChildren(tree, 1) # <<>> /\ Head(TreeChildren(tree, 1)) = 2

\* The trees the selection builds are such trees.
LEMMA RootedTrees ==
    ASSUME NEW z, Shaped(z), NEW a, a \in Seq(1..Len(z)), Len(a) >= 2,
           NEW tree, Structured(tree, z, a)
    PROVE  Rooted(tree)
<1>1. Len(a) \in Nat /\ \A k \in 1..Len(a) : a[k] \in 1..Len(z)
  OBVIOUS
<1>2. /\ tree \in Seq(Range(tree)) /\ Len(tree) \in Nat /\ Len(a) <= Len(tree)
      /\ \A k \in 1..Len(a) : tree[k] = Copied(z[a[k]], k - 1)
      /\ \A q \in Len(a) + 1..Len(tree) :
            tree[q].parent \in 1..Len(a) - 1 /\ tree[q].location \in TestLabel
  BY DEF Structured
<1>3. \A k \in 1..Len(tree) : k \in 1..Len(a) \/ k \in Len(a) + 1..Len(tree)
  BY <1>1, <1>2
<1>4. ASSUME NEW k \in 1..Len(a)
      PROVE  tree[k].location \in TestLabel /\ tree[k].parent = k - 1
  <2>1. tree[k].location = z[a[k]].location /\ tree[k].parent = k - 1
    <3>1. tree[k] = Copied(z[a[k]], k - 1)
      BY <1>2
    <3> QED
      BY ONLY <3>1 DEF Copied
  <2>2. z[a[k]].location \in Label
    BY <1>1 DEF Shaped
  <2> QED
    BY <2>1, <2>2 DEF TestLabel
<1>5. ASSUME NEW k \in 2..Len(tree) PROVE tree[k].parent \in 1..k - 1
  <2>1. CASE k \in 1..Len(a)
    BY <2>1, <1>4
  <2>2. CASE k \in Len(a) + 1..Len(tree)
    BY <2>2, <1>1, <1>2
  <2> QED
    BY <2>1, <2>2, <1>2, <1>3
<1>6. TreeChildren(tree, 1) # <<>> /\ Head(TreeChildren(tree, 1)) = 2
  <2>1. 1 \in 1..Len(a) /\ 1 < Len(a)
    BY <1>1
  <2>2. TreeChildren(tree, 1) # <<>> /\ Head(TreeChildren(tree, 1)) = 1 + 1
    BY <2>1, <1>1, AlongPath
  <2> QED
    BY <2>2
<1>7. Len(tree) >= 2 /\ tree[1].parent = 0
  BY <1>1, <1>2, <1>4
<1> QED
  BY <1>2, <1>3, <1>4, <1>5, <1>6, <1>7 DEF Rooted

\* The children of a state, in a sequence without repetitions.
LEMMA ChildrenListed ==
    ASSUME NEW tree, Rooted(tree), NEW p
    PROVE  /\ TreeChildren(tree, p) \in Seq(1..Len(tree))
           /\ Len(TreeChildren(tree, p)) \in Nat
           /\ \A j \in 1..Len(TreeChildren(tree, p)) :
                 TreeChildren(tree, p)[j] \in 1..Len(tree)
                 /\ tree[TreeChildren(tree, p)[j]].parent = p
           /\ \A k \in 1..Len(tree) : tree[k].parent = p =>
                 \E j \in 1..Len(TreeChildren(tree, p)) : TreeChildren(tree, p)[j] = k
<1> DEFINE S == {c \in DOMAIN tree : tree[c].parent = p}
           s == Ascending(S)
<1>1. /\ Len(tree) \in Nat /\ S \in SUBSET (1..Len(tree))
      /\ DOMAIN tree = 1..Len(tree)
  BY ChildNumbers DEF Rooted
<1>2. \A k \in S : tree[k].parent = p
  OBVIOUS
<1>3. \A k \in 1..Len(tree) : tree[k].parent = p => k \in S
  BY <1>1
<1>4. TreeChildren(tree, p) = s
  BY DEF TreeChildren
<1> HIDE DEF S
<1>5. /\ s \in Seq(S) /\ Len(s) = Cardinality(S) /\ Cardinality(S) \in Nat
      /\ \A q \in 1..Cardinality(S) : s[q] \in S
      /\ \A k \in S : \E q \in 1..Cardinality(S) : s[q] = k
  BY <1>1, AscendingOf
<1> HIDE DEF s
<1>6. s \in Seq(1..Len(tree))
  <2>1. \A A, B : A \subseteq B => Seq(A) \subseteq Seq(B)
    OBVIOUS
  <2> QED
    BY <2>1, <1>1, <1>5
<1> QED
  BY <1>1, <1>2, <1>3, <1>4, <1>5, <1>6

-----------------------------------------------------------------------------
(* The test case.                                                          *)

Fields == {"locations", "initialLocation", "initialCondition", "variables", "clocks",
           "inputActions", "outputActions", "internalActions", "out", "transitions"}

\* The transitions of the tree.
Moves(tree) == {CreatedTransition(tree, k) : k \in 2..Len(tree)}

\* now is the test case m after the transition t, one of S, has been created.
Creation(m, t, S, now) ==
    /\ m = [f \in Fields |-> m[f]] /\ m.out \in [TestLabel -> Seq(S)]
    /\ t \in S /\ t.source \in TestLabel
    /\ now = WithTransition(m, t)

\* A transition is created in a test case.
LEMMA Created ==
    ASSUME NEW m, NEW t, NEW S, NEW now, Creation(m, t, S, now)
    PROVE  /\ now = [f \in Fields |-> now[f]]
           /\ now.locations = m.locations \cup {t.target}
           /\ now.initialLocation = m.initialLocation
           /\ now.out \in [TestLabel -> Seq(S)]
           /\ now.out[t.source] = Append(m.out[t.source], t)
           /\ \A l \in TestLabel : l # t.source => now.out[l] = m.out[l]
           /\ now.transitions = TestCase!Put(m.transitions, t)
<1> DEFINE m1 == TestCase!AddLocation(m, t.target)
           m2 == TestCase!AddAction(m1, t.action)
<1>1. /\ m1 = [f \in Fields |-> m1[f]] /\ m1.locations = m.locations \cup {t.target}
      /\ m1.initialLocation = m.initialLocation /\ m1.out = m.out
      /\ m1.transitions = m.transitions
  BY DEF Creation, TestCase!AddLocation, Fields
<1> HIDE DEF m1
<1>2. /\ m2 = [f \in Fields |-> m2[f]] /\ m2.locations = m1.locations
      /\ m2.initialLocation = m1.initialLocation /\ m2.out = m1.out
      /\ m2.transitions = m1.transitions
  <2>1. \/ \E e : m2 = [m1 EXCEPT !.inputActions = e]
        \/ \E e : m2 = [m1 EXCEPT !.outputActions = e]
        \/ \E e : m2 = [m1 EXCEPT !.internalActions = e]
    <3>1. CASE t.action.type = 1
      <4>1. m2 = [m1 EXCEPT !.inputActions = m1.inputActions \cup {t.action.name}]
        BY <3>1 DEF TestCase!AddAction, TestCase!ACTION_INPUT, TestCase!ACTION_OUTPUT
      <4> HIDE DEF m2
      <4> QED
        BY <4>1
    <3>2. CASE t.action.type = -1
      <4>1. m2 = [m1 EXCEPT !.outputActions = m1.outputActions \cup {t.action.name}]
        BY <3>2 DEF TestCase!AddAction, TestCase!ACTION_INPUT, TestCase!ACTION_OUTPUT
      <4> HIDE DEF m2
      <4> QED
        BY <4>1
    <3>3. CASE t.action.type # 1 /\ t.action.type # -1
      <4>1. m2 = [m1 EXCEPT !.internalActions = m1.internalActions \cup {t.action.name}]
        BY <3>3 DEF TestCase!AddAction, TestCase!ACTION_INPUT, TestCase!ACTION_OUTPUT
      <4> HIDE DEF m2
      <4> QED
        BY <4>1
    <3> QED
      BY <3>1, <3>2, <3>3
  <2> HIDE DEF m2
  <2>2. ASSUME NEW e, m2 = [m1 EXCEPT !.inputActions = e]
        PROVE  /\ m2 = [f \in Fields |-> m2[f]] /\ m2.locations = m1.locations
               /\ m2.initialLocation = m1.initialLocation /\ m2.out = m1.out
               /\ m2.transitions = m1.transitions
    BY <2>2, <1>1 DEF Fields
  <2>3. ASSUME NEW e, m2 = [m1 EXCEPT !.outputActions = e]
        PROVE  /\ m2 = [f \in Fields |-> m2[f]] /\ m2.locations = m1.locations
               /\ m2.initialLocation = m1.initialLocation /\ m2.out = m1.out
               /\ m2.transitions = m1.transitions
    BY <2>3, <1>1 DEF Fields
  <2>4. ASSUME NEW e, m2 = [m1 EXCEPT !.internalActions = e]
        PROVE  /\ m2 = [f \in Fields |-> m2[f]] /\ m2.locations = m1.locations
               /\ m2.initialLocation = m1.initialLocation /\ m2.out = m1.out
               /\ m2.transitions = m1.transitions
    BY <2>4, <1>1 DEF Fields
  <2> QED
    BY <2>1, <2>2, <2>3, <2>4
<1>3. now = TestCase!CreateTransition(m2, t)
  BY DEF Creation, WithTransition, m1
<1> HIDE DEF m2
<1>4. /\ now = [f \in Fields |-> now[f]] /\ now.locations = m2.locations
      /\ now.initialLocation = m2.initialLocation
      /\ now.out = [m2.out EXCEPT ![t.source] = Append(@, t)]
      /\ now.transitions = TestCase!Put(m2.transitions, t)
  BY <1>2, <1>3 DEF TestCase!CreateTransition, Fields
<1>5. now.out = [m.out EXCEPT ![t.source] = Append(@, t)]
  BY <1>1, <1>2, <1>4
<1>6. /\ now.out \in [TestLabel -> Seq(S)]
      /\ now.out[t.source] = Append(m.out[t.source], t)
      /\ \A l \in TestLabel : l # t.source => now.out[l] = m.out[l]
  <2>1. /\ m.out \in [TestLabel -> Seq(S)] /\ t.source \in TestLabel
        /\ Append(m.out[t.source], t) \in Seq(S)
    BY DEF Creation
  <2> QED
    BY <2>1, <1>5
<1>7. /\ now.locations = m.locations \cup {t.target}
      /\ now.initialLocation = m.initialLocation
      /\ now.transitions = TestCase!Put(m.transitions, t)
  BY <1>1, <1>2, <1>4
<1> QED
  BY <1>4, <1>6, <1>7

\* r is the sequence s, over S, with one more element e.
Extension(S, s, e, r) == s \in Seq(S) /\ e \in S /\ r = Append(s, e)

\* One more element behind a sequence.
LEMMA OneMore ==
    ASSUME NEW S, NEW s, NEW e, NEW r, Extension(S, s, e, r)
    PROVE  /\ Range(r) = Range(s) \cup {e} /\ r # <<>>
           /\ s # <<>> => Head(r) = Head(s)
           /\ s = <<>> => Head(r) = e
<1>1. /\ r \in Seq(S) /\ Len(s) \in Nat /\ Len(r) = Len(s) + 1
      /\ DOMAIN r = 1..Len(s) + 1 /\ DOMAIN s = 1..Len(s)
      /\ \A k \in 1..Len(s) : r[k] = s[k]
      /\ r[Len(s) + 1] = e
  BY DEF Extension
<1>2. 1..Len(s) + 1 = (1..Len(s)) \cup {Len(s) + 1}
  BY <1>1
<1>3. Range(r) = Range(s) \cup {e}
  BY <1>1, <1>2 DEF Range
<1>4. r # <<>> /\ Head(r) = r[1]
  BY <1>1
<1>5. s # <<>> => 1 \in 1..Len(s) /\ Head(s) = s[1]
  BY <1>1
<1>6. s = <<>> => Len(s) + 1 = 1
  BY <1>1
<1> QED
  BY <1>1, <1>3, <1>4, <1>5, <1>6

\* The test case has the transitions into the states V of the tree.
Drawn(tree, m, V) ==
    /\ m = [f \in Fields |-> m[f]]
    /\ m.locations \subseteq TestLabel /\ m.initialLocation = tree[1].location
    /\ m.out \in [TestLabel -> Seq(Moves(tree))]
    /\ \A l \in TestLabel : m.out[l] # <<>> => l \in m.locations
    /\ \A k \in V : tree[k].location \in m.locations
    /\ \A k \in V : k # 1 => CreatedTransition(tree, k) \in TestCase!OutTransitions(m)
    /\ Distinct(tree) => m.transitions = TestCase!OutTransitions(m)

\* The first transition of the initial location is the first of the path.
First(tree, m) ==
    /\ m.out[tree[1].location] # <<>>
    /\ Head(m.out[tree[1].location]) = CreatedTransition(tree, 2)

\* The transitions in the lists of a test case.
LEMMA Listed ==
    ASSUME NEW m
    PROVE  TestCase!OutTransitions(m) = UNION {Range(m.out[l]) : l \in m.locations}
<1>1. \A s : TestCase!Range(s) = Range(s)
  BY DEF TestCase!Range, Range
<1> QED
  BY <1>1 DEF TestCase!OutTransitions

\* What the lists of a test case hold is from the tree.
LEMMA DrawnMoves ==
    ASSUME NEW tree, NEW m, NEW V, Drawn(tree, m, V)
    PROVE  TestCase!OutTransitions(m) \subseteq Moves(tree)
<1>1. SUFFICES ASSUME NEW l \in m.locations, NEW t \in Range(m.out[l]) PROVE t \in Moves(tree)
  BY Listed
<1>2. m.out[l] \in Seq(Moves(tree))
  BY DEF Drawn
<1>3. \A s \in Seq(Moves(tree)) : \A j \in DOMAIN s : s[j] \in Moves(tree)
  OBVIOUS
<1> QED
  BY <1>1, <1>2, <1>3 DEF Range

(* A child of a state that has been met is added.  If no label occurs      *)
(* twice in the tree, no transition of the map has the key of the new one. *)
LEMMA DrawnCreated ==
    ASSUME NEW tree, Rooted(tree), NEW m, NEW V, V \subseteq 1..Len(tree), Drawn(tree, m, V),
           NEW k \in 2..Len(tree), tree[k].parent \in V,
           NEW now, now = WithTransition(m, CreatedTransition(tree, k))
    PROVE  /\ Drawn(tree, now, V \cup {k})
           /\ First(tree, m) => First(tree, now)
           /\ m.out[tree[1].location] = <<>> /\ tree[k].parent = 1 /\ k = 2 => First(tree, now)
<1> DEFINE t == CreatedTransition(tree, k)
<1>1. /\ t.source = tree[tree[k].parent].location /\ t.target = tree[k].location
      /\ t \in Moves(tree)
  BY DEF CreatedTransition, Moves
<1>2. /\ Len(tree) \in Nat /\ k \in 1..Len(tree) /\ 1 \in 1..Len(tree)
      /\ t.target \in TestLabel /\ t.source \in m.locations /\ t.source \in TestLabel
      /\ tree[1].location \in TestLabel
  <2>1. Len(tree) \in Nat /\ Len(tree) >= 2 /\ \A j \in 1..Len(tree) : tree[j].location \in TestLabel
    BY DEF Rooted
  <2> HIDE DEF t
  <2>2. k \in 1..Len(tree) /\ 1 \in 1..Len(tree)
    BY <2>1
  <2> QED
    BY <2>1, <2>2, <1>1 DEF Drawn
<1>3. now = WithTransition(m, t)
  OBVIOUS
<1>4. m = [f \in Fields |-> m[f]] /\ m.out \in [TestLabel -> Seq(Moves(tree))]
  BY DEF Drawn
<1> HIDE DEF t
<1>5. /\ now = [f \in Fields |-> now[f]]
      /\ now.locations = m.locations \cup {t.target}
      /\ now.initialLocation = m.initialLocation
      /\ now.out \in [TestLabel -> Seq(Moves(tree))]
      /\ now.out[t.source] = Append(m.out[t.source], t)
      /\ \A l \in TestLabel : l # t.source => now.out[l] = m.out[l]
      /\ now.transitions = TestCase!Put(m.transitions, t)
  <2>1. Creation(m, t, Moves(tree), now)
    BY <1>1, <1>2, <1>3, <1>4 DEF Creation
  <2> QED
    BY ONLY <2>1, Created
<1>6. /\ Range(now.out[t.source]) = Range(m.out[t.source]) \cup {t}
      /\ now.out[t.source] # <<>>
      /\ m.out[t.source] # <<>> => Head(now.out[t.source]) = Head(m.out[t.source])
      /\ m.out[t.source] = <<>> => Head(now.out[t.source]) = t
  <2>1. Extension(Moves(tree), m.out[t.source], t, now.out[t.source])
    BY <1>1, <1>2, <1>4, <1>5 DEF Extension
  <2> QED
    BY ONLY <2>1, OneMore
<1>7. \A l \in TestLabel : m.out[l] # <<>> => l \in m.locations
  BY DEF Drawn
<1>8. TestCase!OutTransitions(now) = TestCase!OutTransitions(m) \cup {t}
  <2>1. ASSUME NEW l \in now.locations, NEW u \in Range(now.out[l])
        PROVE  u \in TestCase!OutTransitions(m) \cup {t}
    <3>1. CASE l = t.source
      BY <3>1, <2>1, <1>2, <1>6, Listed
    <3>2. CASE l # t.source
      <4>1. l \in TestLabel /\ now.out[l] = m.out[l]
        BY <3>2, <1>2, <1>5 DEF Drawn
      <4>2. m.out[l] # <<>>
        BY <4>1, <2>1 DEF Range
      <4> QED
        BY <4>1, <4>2, <2>1, <1>7, Listed
    <3> QED
      BY <3>1, <3>2
  <2>2. ASSUME NEW l \in m.locations, NEW u \in Range(m.out[l])
        PROVE  l \in now.locations /\ u \in Range(now.out[l])
    <3>1. l \in TestLabel
      BY DEF Drawn
    <3> QED
      BY <3>1, <2>2, <1>5, <1>6
  <2>3. t.source \in now.locations /\ t \in Range(now.out[t.source])
    BY <1>2, <1>5, <1>6
  <2>4. TestCase!OutTransitions(now) \subseteq TestCase!OutTransitions(m) \cup {t}
    BY <2>1, Listed
  <2>5. TestCase!OutTransitions(m) \subseteq TestCase!OutTransitions(now)
    BY <2>2, Listed
  <2>6. t \in TestCase!OutTransitions(now)
    BY <2>3, Listed
  <2> QED
    BY <2>4, <2>5, <2>6
<1>9. ASSUME Distinct(tree) PROVE now.transitions = TestCase!OutTransitions(now)
  <2>1. m.transitions = TestCase!OutTransitions(m)
    BY <1>9 DEF Drawn
  <2>2. ASSUME NEW u \in m.transitions, TestCase!Key(u) = TestCase!Key(t) PROVE u = t
    <3>1. u \in Moves(tree)
      BY <2>1, DrawnMoves
    <3>2. PICK j \in 2..Len(tree) : u = CreatedTransition(tree, j)
      BY <3>1 DEF Moves
    <3>3. u.target = tree[j].location
      BY <3>2 DEF CreatedTransition
    <3>4. u.target = t.target
      BY <2>2 DEF TestCase!Key
    <3>5. j \in DOMAIN tree /\ k \in DOMAIN tree
      BY <1>2 DEF Rooted
    <3>6. j = k
      BY <3>3, <3>4, <3>5, <1>1, <1>9 DEF Distinct
    <3> QED
      BY <3>2, <3>6 DEF t
  <2>3. TestCase!Put(m.transitions, t) = m.transitions \cup {t}
    BY <2>2 DEF TestCase!Put
  <2> QED
    BY <2>1, <2>3, <1>5, <1>8
<1>10. Drawn(tree, now, V \cup {k})
  <2>1. now.locations \subseteq TestLabel /\ now.initialLocation = tree[1].location
    BY <1>2, <1>5 DEF Drawn
  <2>2. \A l \in TestLabel : now.out[l] # <<>> => l \in now.locations
    BY <1>2, <1>5, <1>7
  <2>3. \A j \in V \cup {k} : tree[j].location \in now.locations
    BY <1>1, <1>5 DEF Drawn
  <2>4. \A j \in V \cup {k} :
           j # 1 => CreatedTransition(tree, j) \in TestCase!OutTransitions(now)
    BY <1>8 DEF Drawn, t
  <2> QED
    BY <2>1, <2>2, <2>3, <2>4, <1>5, <1>9 DEF Drawn
<1>11. First(tree, m) => First(tree, now)
  BY <1>2, <1>5, <1>6 DEF First
<1>12. m.out[tree[1].location] = <<>> /\ tree[k].parent = 1 /\ k = 2 => First(tree, now)
  BY <1>1, <1>6 DEF First, t
<1> QED
  BY <1>10, <1>11, <1>12

-----------------------------------------------------------------------------
(* The states of the tree that have been left are D; those in the queue q  *)
(* have been met as well.  ch is the next child of the head of the queue.  *)
Met(q, D) == D \cup Range(q)

Translated(tree, m, q, ch, D) ==
    /\ q \in Seq(1..Len(tree)) /\ D \subseteq 1..Len(tree) /\ 1 \in Met(q, D)
    /\ Drawn(tree, m, Met(q, D))
    /\ \A k \in 2..Len(tree) : tree[k].parent \in D => k \in Met(q, D)
    /\ q # <<>> =>
          \A j \in 1..Len(TreeChildren(tree, Head(q))) :
              j < ch => TreeChildren(tree, Head(q))[j] \in Met(q, D)
    /\ First(tree, m) \/ (q = << 1 >> /\ ch = 1 /\ m.out[tree[1].location] = <<>>)

\* A test case begins with the root of the tree.
LEMMA TranslationBegins ==
    ASSUME NEW tree, Rooted(tree), NEW m, m = Initialized(tree)
    PROVE  Translated(tree, m, << 1 >>, 1, {})
<1>1. 1 \in 1..Len(tree) /\ tree[1].location \in TestLabel
  BY DEF Rooted
<1>2. << 1 >> \in Seq(1..Len(tree)) /\ Range(<< 1 >>) = {1} /\ Head(<< 1 >>) = 1
  BY <1>1 DEF Range
<1>3. /\ m = [f \in Fields |-> m[f]]
      /\ m.locations = {tree[1].location} /\ m.initialLocation = tree[1].location
      /\ m.out = [l \in TestLabel |-> <<>>] /\ m.transitions = {}
  BY DEF Initialized, TestCase!SetInitialLocation, TestCase!AddLocation,
         TestCase!EmptyTIOSTS, Fields
<1>4. TestCase!OutTransitions(m) = {}
  <2>1. Range(<<>>) = {}
    BY DEF Range
  <2>2. \A l \in m.locations : m.out[l] = <<>>
    BY <1>1, <1>3
  <2> QED
    BY <2>1, <2>2, Listed
<1>5. <<>> \in Seq(Moves(tree))
  OBVIOUS
<1>6. m.out \in [TestLabel -> Seq(Moves(tree))] /\ m.out[tree[1].location] = <<>>
  BY <1>1, <1>3, <1>5
<1>7. Drawn(tree, m, {1})
  <2>1. \A l \in TestLabel : m.out[l] = <<>>
    BY <1>3
  <2> QED
    BY <2>1, <1>1, <1>3, <1>4, <1>6 DEF Drawn
<1>8. Met(<< 1 >>, {}) = {1}
  BY <1>2 DEF Met
<1>9. \A j \in 1..Len(TreeChildren(tree, 1)) : ~(j < 1)
  OBVIOUS
<1> QED
  BY <1>2, <1>6, <1>7, <1>8, <1>9 DEF Translated

\* The child k of the head of the queue is added, and the queue becomes r.
Adding(tree, m, q, ch, k, r, next, now) ==
    /\ q # <<>> /\ ch \in Nat \ {0} /\ next = ch + 1
    /\ ch <= Len(TreeChildren(tree, Head(q))) /\ k = TreeChildren(tree, Head(q))[ch]
    /\ r = Append(q, k) /\ now = WithTransition(m, CreatedTransition(tree, k))

\* A round of the inner loop.
LEMMA TranslationAdds ==
    ASSUME NEW tree, Rooted(tree), NEW m, NEW q, NEW ch, NEW D, Translated(tree, m, q, ch, D),
           NEW k, NEW r, NEW next, NEW now, Adding(tree, m, q, ch, k, r, next, now)
    PROVE  Translated(tree, now, r, next, D)
<1> DEFINE p == Head(q)
           V == Met(q, D)
           W == Met(r, D)
<1>1. /\ q \in Seq(1..Len(tree)) /\ q # <<>> /\ ch \in Nat \ {0} /\ next = ch + 1
      /\ Len(tree) \in Nat /\ Len(tree) >= 2
  BY DEF Adding, Translated, Rooted
<1>2. p \in 1..Len(tree) /\ p \in Range(q)
  <2>1. 1 \in DOMAIN q /\ Head(q) = q[1] /\ q[1] \in 1..Len(tree)
    BY <1>1
  <2> QED
    BY <2>1 DEF Range
<1> DEFINE c == TreeChildren(tree, p)
<1>3. /\ Len(c) \in Nat /\ ch \in 1..Len(c) /\ k = c[ch]
      /\ k \in 1..Len(tree) /\ tree[k].parent = p
  <2>1. /\ Len(c) \in Nat
        /\ \A j \in 1..Len(c) : c[j] \in 1..Len(tree) /\ tree[c[j]].parent = p
    BY ChildrenListed
  <2>2. ch <= Len(c) /\ k = c[ch]
    BY DEF Adding
  <2> HIDE DEF c
  <2> QED
    BY <2>1, <2>2, <1>1
<1>4. k \in 2..Len(tree)
  <2>1. tree[1].parent = 0
    BY DEF Rooted
  <2>2. k # 1
    BY <2>1, <1>2, <1>3
  <2> QED
    BY <2>2, <1>1, <1>3
<1>5. /\ Range(r) = Range(q) \cup {k} /\ r # <<>> /\ Head(r) = p
      /\ r \in Seq(1..Len(tree))
  <2>1. Extension(1..Len(tree), q, k, r)
    BY <1>1, <1>3 DEF Extension, Adding
  <2>2. Range(r) = Range(q) \cup {k} /\ r # <<>> /\ (q # <<>> => Head(r) = Head(q))
    BY ONLY <2>1, OneMore
  <2>3. r \in Seq(1..Len(tree))
    BY <2>1 DEF Extension
  <2> QED
    BY <2>2, <2>3, <1>1
<1>6. W = V \cup {k}
  BY <1>5 DEF Met
<1>7. /\ V \subseteq 1..Len(tree) /\ p \in V /\ D \subseteq 1..Len(tree)
      /\ 1 \in V /\ Drawn(tree, m, V)
      /\ \A j \in 2..Len(tree) : tree[j].parent \in D => j \in V
      /\ \A j \in 1..Len(c) : j < ch => c[j] \in V
      /\ First(tree, m) \/ (q = << 1 >> /\ ch = 1 /\ m.out[tree[1].location] = <<>>)
  <2>1. Range(q) \subseteq 1..Len(tree)
    BY <1>1 DEF Range
  <2> QED
    BY <2>1, <1>1, <1>2 DEF Translated, Met
<1>8. now = WithTransition(m, CreatedTransition(tree, k))
  BY DEF Adding
<1>9. q = << 1 >> /\ ch = 1 => p = 1 /\ k = 2
  <2>1. Head(<< 1 >>) = 1
    OBVIOUS
  <2>2. TreeChildren(tree, 1) # <<>> /\ Head(TreeChildren(tree, 1)) = 2
    BY DEF Rooted
  <2>3. TreeChildren(tree, 1) \in Seq(1..Len(tree))
    BY ChildrenListed
  <2>4. TreeChildren(tree, 1)[1] = 2
    BY <2>2, <2>3
  <2> QED
    BY <2>1, <2>4, <1>3
<1> HIDE DEF p, V, W, c
<1>10. tree[k].parent \in V
  BY <1>3, <1>7
<1>11. Drawn(tree, now, W)
  <2>1. Drawn(tree, now, V \cup {k})
    BY ONLY Rooted(tree), <1>4, <1>7, <1>8, <1>10, DrawnCreated
  <2> QED
    BY <2>1, <1>6
<1>12. First(tree, now)
  <2>1. First(tree, m) => First(tree, now)
    BY ONLY Rooted(tree), <1>4, <1>7, <1>8, <1>10, DrawnCreated
  <2>2. m.out[tree[1].location] = <<>> /\ tree[k].parent = 1 /\ k = 2 => First(tree, now)
    BY ONLY Rooted(tree), <1>4, <1>7, <1>8, <1>10, DrawnCreated
  <2> QED
    BY <2>1, <2>2, <1>3, <1>7, <1>9
<1>13. \A j \in 1..Len(c) : j < next => c[j] \in W
  <2>1. SUFFICES ASSUME NEW j \in 1..Len(c), j < next PROVE c[j] \in W
    OBVIOUS
  <2>2. j < ch \/ j = ch
    BY <2>1, <1>1, <1>3
  <2> QED
    BY <2>2, <1>3, <1>6, <1>7
<1>14. \A j \in 2..Len(tree) : tree[j].parent \in D => j \in W
  BY <1>6, <1>7
<1> QED
  BY <1>5, <1>6, <1>7, <1>11, <1>12, <1>13, <1>14 DEF Translated, c, W

\* The state at the head of the queue is left after its last child.
LEMMA TranslationLeaves ==
    ASSUME NEW tree, Rooted(tree), NEW m, NEW q, NEW ch, NEW D, Translated(tree, m, q, ch, D),
           q # <<>>, ch \in Nat \ {0}, ch > Len(TreeChildren(tree, Head(q)))
    PROVE  /\ Translated(tree, m, Tail(q), 1, D \cup {Head(q)})
           /\ First(tree, m)
<1> DEFINE p == Head(q)
           rest == Tail(q)
           E == D \cup {p}
           c == TreeChildren(tree, p)
<1>1. q \in Seq(1..Len(tree)) /\ Len(tree) \in Nat /\ D \subseteq 1..Len(tree)
  BY DEF Translated, Rooted
<1>2. /\ p \in 1..Len(tree) /\ p \in Range(q) /\ rest \in Seq(1..Len(tree))
      /\ Range(q) = {p} \cup Range(rest)
  <2>1. /\ Len(q) \in Nat /\ Len(q) > 0 /\ DOMAIN q = 1..Len(q) /\ p = q[1]
        /\ rest \in Seq(1..Len(tree)) /\ DOMAIN rest = 1..Len(q) - 1
        /\ \A j \in 1..Len(q) - 1 : rest[j] = q[j + 1]
    BY <1>1
  <2> HIDE DEF p, rest
  <2>2. 1 \in 1..Len(q)
    BY <2>1
  <2>3. p \in 1..Len(tree) /\ p \in Range(q)
    BY <2>1, <2>2, <1>1 DEF Range
  <2>4. ASSUME NEW j \in 1..Len(q) PROVE q[j] = p \/ q[j] \in Range(rest)
    <3>1. CASE j = 1
      BY <3>1, <2>1
    <3>2. CASE j # 1
      <4>1. j - 1 \in 1..Len(q) - 1 /\ rest[j - 1] = q[j]
        BY <3>2, <2>1
      <4> QED
        BY <4>1, <2>1 DEF Range
    <3> QED
      BY <3>1, <3>2
  <2>5. ASSUME NEW j \in 1..Len(q) - 1 PROVE rest[j] \in Range(q)
    <3>1. j + 1 \in 1..Len(q)
      BY <2>1
    <3> QED
      BY <3>1, <2>1 DEF Range
  <2>6. Range(q) \subseteq {p} \cup Range(rest)
    BY <2>1, <2>4 DEF Range
  <2>7. Range(rest) \subseteq Range(q)
    BY <2>1, <2>5 DEF Range
  <2> QED
    BY <2>1, <2>3, <2>6, <2>7
<1>3. Met(rest, E) = Met(q, D)
  BY <1>2 DEF Met
<1>4. /\ 1 \in Met(q, D) /\ Drawn(tree, m, Met(q, D))
      /\ \A k \in 2..Len(tree) : tree[k].parent \in D => k \in Met(q, D)
      /\ \A j \in 1..Len(c) : j < ch => c[j] \in Met(q, D)
      /\ First(tree, m) \/ (q = << 1 >> /\ ch = 1 /\ m.out[tree[1].location] = <<>>)
  BY DEF Translated
<1>5. /\ Len(c) \in Nat
      /\ \A k \in 1..Len(tree) : tree[k].parent = p => \E j \in 1..Len(c) : c[j] = k
  BY ChildrenListed
<1>6. ch > Len(c)
  OBVIOUS
<1>7. First(tree, m)
  <2>1. SUFFICES ASSUME q = << 1 >>, ch = 1 PROVE FALSE
    BY <1>4
  <2>2. Len(TreeChildren(tree, 1)) # 0
    <3>1. TreeChildren(tree, 1) # <<>> /\ TreeChildren(tree, 1) \in Seq(1..Len(tree))
      BY ChildrenListed DEF Rooted
    <3> QED
      BY <3>1
  <2>3. p = 1
    BY <2>1
  <2> QED
    BY <2>1, <2>2, <2>3, <1>5, <1>6
<1> HIDE DEF p, rest, E, c
<1>8. \A k \in 2..Len(tree) : tree[k].parent \in E => k \in Met(q, D)
  <2>1. SUFFICES ASSUME NEW k \in 2..Len(tree), tree[k].parent = p PROVE k \in Met(q, D)
    BY <1>4 DEF E
  <2>2. k \in 1..Len(tree)
    BY <1>1
  <2>3. PICK j \in 1..Len(c) : c[j] = k
    BY <2>1, <2>2, <1>5
  <2>4. j < ch
    BY <1>5, <1>6
  <2> QED
    BY <2>3, <2>4, <1>4
<1>9. E \subseteq 1..Len(tree)
  BY <1>1, <1>2 DEF E
<1>10. Translated(tree, m, rest, 1, E)
  <2>1. \A d : \A j \in 1..Len(d) : ~(j < 1)
    OBVIOUS
  <2> QED
    BY <2>1, <1>2, <1>3, <1>4, <1>7, <1>8, <1>9 DEF Translated
<1> QED
  BY <1>7, <1>10 DEF p, rest, E

\* When the queue is empty, every state has been left: the least one that
\* has not hangs on one that has.
LEMMA AllLeft ==
    ASSUME NEW tree, Rooted(tree), NEW m, NEW ch, NEW D, Translated(tree, m, <<>>, ch, D)
    PROVE  Met(<<>>, D) = 1..Len(tree)
<1>1. Met(<<>>, D) = D
  BY DEF Met, Range
<1>2. /\ D \subseteq 1..Len(tree) /\ 1 \in D /\ Len(tree) \in Nat
      /\ \A k \in 2..Len(tree) : tree[k].parent \in D => k \in D
      /\ \A k \in 2..Len(tree) : tree[k].parent \in 1..k - 1
  BY <1>1 DEF Translated, Rooted
<1> DEFINE S == (1..Len(tree)) \ D
<1>3. SUFFICES ASSUME S # {} PROVE FALSE
  BY <1>1, <1>2
<1>4. S \in SUBSET (1..Len(tree))
  OBVIOUS
<1>5. PICK k \in S : \A j \in S : k <= j
  <2> HIDE DEF S
  <2> QED
    BY <1>2, <1>3, <1>4, LeastOf
<1>6. k \in 2..Len(tree)
  BY <1>2
<1>7. tree[k].parent \in 1..k - 1 /\ tree[k].parent \in 1..Len(tree)
  BY <1>2, <1>6
<1>8. tree[k].parent \in D
  BY <1>5, <1>6, <1>7
<1> QED
  BY <1>2, <1>6, <1>8

\* What CasesFaithful says of one test case.
Faithful(tree, m) ==
    /\ m.initialCondition = {tree[2].pathCondition}
    /\ \A k \in 2..Len(tree) : \E t \in TestCase!OutTransitions(m) : Shows(t, tree, k)
    /\ \A t \in TestCase!OutTransitions(m) : \E k \in 2..Len(tree) : Shows(t, tree, k)
    /\ Distinct(tree) => m.transitions = TestCase!OutTransitions(m)

\* The translation ends with the initial condition.
LEMMA TranslationEnds ==
    ASSUME NEW tree, Rooted(tree), NEW m, NEW ch, NEW D, Translated(tree, m, <<>>, ch, D),
           First(tree, m), NEW now, now = WithInitialCondition(m)
    PROVE  Faithful(tree, now)
<1>1. Drawn(tree, m, 1..Len(tree))
  <2>1. Met(<<>>, D) = 1..Len(tree)
    BY AllLeft
  <2> QED
    BY <2>1 DEF Translated
<1>2. m = [f \in Fields |-> m[f]] /\ m.initialLocation = tree[1].location
  BY <1>1 DEF Drawn
<1>3. /\ now.initialCondition = Head(m.out[m.initialLocation]).dataGuard
      /\ now.out = m.out /\ now.locations = m.locations /\ now.transitions = m.transitions
  BY <1>2 DEF WithInitialCondition, Fields
<1>4. TestCase!OutTransitions(now) = TestCase!OutTransitions(m)
  BY <1>3, Listed
<1>5. \A k : Shows(CreatedTransition(tree, k), tree, k)
  BY DEF Shows, CreatedTransition, GuardOf
<1>6. now.initialCondition = {tree[2].pathCondition}
  BY <1>2, <1>3 DEF First, CreatedTransition, GuardOf
<1>7. ASSUME NEW k \in 2..Len(tree)
      PROVE  \E t \in TestCase!OutTransitions(now) : Shows(t, tree, k)
  <2>1. k \in 1..Len(tree) /\ k # 1
    BY DEF Rooted
  <2>2. CreatedTransition(tree, k) \in TestCase!OutTransitions(now)
    BY <2>1, <1>1, <1>4 DEF Drawn
  <2> QED
    BY <2>2, <1>5
<1>8. ASSUME NEW t \in TestCase!OutTransitions(now)
      PROVE  \E k \in 2..Len(tree) : Shows(t, tree, k)
  <2>1. t \in Moves(tree)
    BY <1>1, <1>4, DrawnMoves
  <2> QED
    BY <2>1, <1>5 DEF Moves
<1>9. Distinct(tree) => now.transitions = TestCase!OutTransitions(now)
  BY <1>1, <1>3, <1>4 DEF Drawn
<1> QED
  BY <1>6, <1>7, <1>8, <1>9 DEF Faithful

-----------------------------------------------------------------------------
(* The transformation.  The test cases that are finished are faithful; the *)
(* last one is being translated while there is a queue.                    *)
Rendered(ts, cs, q, ch) ==
    /\ \A a \in 1..Len(cs) : a < Len(cs) \/ q = <<>> => Faithful(ts[a], cs[a])
    /\ q # <<>> => \E D : Translated(ts[Len(cs)], cs[Len(cs)], q, ch, D)

DInv ==
    /\ Rendered(trees, cases, toVisit, child)
    /\ stage = "returned" => toVisit = <<>> /\ Len(cases) = Len(trees)

\* There is no test case at first.
LEMMA RenderedNothing == ASSUME NEW ts PROVE Rendered(ts, <<>>, <<>>, 1)
  BY DEF Rendered

\* Every test tree can be translated.
LEMMA TreesRooted ==
    ASSUME SInv, NEW a \in 1..Len(trees)
    PROVE  Rooted(trees[a])
<1>1. Shaped(zset) /\ TreesTyped(zset, trees, ttState, zsetState)
  BY Chains DEF SInv
<1>2. a \in 1..Len(AcceptStates(zset))
  <2>1. /\ trees \in Seq(Range(trees)) /\ Len(trees) <= Len(AcceptStates(zset))
        /\ Len(AcceptStates(zset)) \in Nat
    BY <1>1, AcceptingStates DEF TreesTyped, Shaped
  <2> QED
    BY <2>1
<1>3. Structured(trees[a], zset, PathTo(zset, a)) /\ Len(PathTo(zset, a)) >= 2
  BY <1>1 DEF TreesTyped
<1>4. PathTo(zset, a) \in Seq(1..Len(zset))
  BY <1>1, <1>2, PathLength
<1> QED
  BY <1>1, <1>3, <1>4, RootedTrees

(* The steps of the transformation keep the test cases faithful.           *)
LEMMA CasesKept ==
    ASSUME DInv, SInv, BeginTestCase \/ AddChild \/ LeaveState \/ Transformed
    PROVE  DInv'
<1> DEFINE n == Len(cases)
<1>1. /\ cases \in Seq(Range(cases)) /\ n \in Nat /\ n <= Len(trees) /\ Len(trees) \in Nat
      /\ toVisit # <<>> => n > 0
      /\ child \in Nat \ {0}
  BY DEF SInv, Staged, TreesTyped
<1>2. /\ \A a \in 1..n : a < n \/ toVisit = <<>> => Faithful(trees[a], cases[a])
      /\ toVisit # <<>> => \E D : Translated(trees[n], cases[n], toVisit, child, D)
  BY DEF DInv, Rendered
<1> HIDE DEF n
<1>3. trees' = trees
  BY DEF BeginTestCase, AddChild, LeaveState, Transformed, selectionVars
\* The others are still what they were.
<1>4. ASSUME NEW m, cases' = [cases EXCEPT ![n] = m], n > 0
      PROVE  /\ Len(cases') = n /\ cases'[n] = m
             /\ \A a \in 1..n : a # n => cases'[a] = cases[a]
  <2>1. n = Len(cases) /\ n \in 1..n
    BY <1>1, <1>4 DEF n
  <2> QED
    BY <2>1, <1>1, <1>4
<1>5. CASE BeginTestCase
  <2> DEFINE m == Initialized(trees[n + 1])
  <2>1. /\ toVisit = <<>> /\ n < Len(trees) /\ stage' = "transformation"
        /\ cases' = Append(cases, m) /\ toVisit' = << 1 >> /\ child' = 1
    BY <1>5 DEF BeginTestCase, Transforming, n
  <2>2. n + 1 \in 1..Len(trees)
    BY <1>1, <2>1
  <2>3. Rooted(trees[n + 1])
    BY <2>2, TreesRooted
  <2>4. Translated(trees[n + 1], m, << 1 >>, 1, {})
    BY <2>3, TranslationBegins
  <2> HIDE DEF m
  <2>5. /\ Len(cases') = n + 1 /\ cases'[n + 1] = m
        /\ \A a \in 1..n : cases'[a] = cases[a]
    BY <1>1, <2>1 DEF n
  <2>6. ASSUME NEW a \in 1..Len(cases'), a < Len(cases')
        PROVE  Faithful(trees'[a], cases'[a])
    <3>1. a \in 1..n
      BY <2>5, <2>6, <1>1
    <3> QED
      BY <3>1, <2>1, <2>5, <1>2, <1>3
  <2>7. toVisit' # <<>>
    BY <2>1
  <2>8. Translated(trees'[Len(cases')], cases'[Len(cases')], toVisit', child', {})
    BY <2>1, <2>4, <2>5, <1>3
  <2> QED
    BY <2>1, <2>6, <2>7, <2>8 DEF DInv, Rendered
\* A round of one of the loops.
<1>6. ASSUME toVisit # <<>>
      PROVE  n \in 1..Len(trees) /\ Rooted(trees[n])
  <2>1. n \in 1..Len(trees)
    BY <1>1, <1>6
  <2> QED
    BY <2>1, TreesRooted
<1>7. CASE AddChild
  <2> DEFINE tree == trees[n]
             k == TreeChildren(tree, Head(toVisit))[child]
             now == WithTransition(cases[n], CreatedTransition(tree, k))
  <2>1. /\ toVisit # <<>> /\ stage' = "transformation"
        /\ child <= Len(TreeChildren(tree, Head(toVisit)))
        /\ cases' = [cases EXCEPT ![n] = now]
        /\ toVisit' = Append(toVisit, k) /\ child' = child + 1
    BY <1>7 DEF AddChild, Transforming, CurrentChildren, Translating, n
  <2>2. Adding(tree, cases[n], toVisit, child, k, toVisit', child', now)
    BY <2>1, <1>1 DEF Adding
  <2> HIDE DEF k, now, tree
  <2>3. PICK D : Translated(tree, cases[n], toVisit, child, D)
    BY <2>1, <1>2 DEF tree
  <2>4. Rooted(tree)
    BY <2>1, <1>6 DEF tree
  <2>5. Translated(tree, now, toVisit', child', D)
    BY ONLY <2>2, <2>3, <2>4, TranslationAdds
  <2>6. n > 0
    BY <2>1, <1>1
  <2>7. /\ Len(cases') = n /\ cases'[n] = now
        /\ \A a \in 1..n : a # n => cases'[a] = cases[a]
    BY <2>1, <2>6, <1>4
  <2>8. toVisit' # <<>>
    <3>1. toVisit \in Seq(1..Len(tree))
      BY <2>3 DEF Translated
    <3> QED
      BY <3>1, <2>1
  <2>9. ASSUME NEW a \in 1..Len(cases'), a < Len(cases')
        PROVE  Faithful(trees'[a], cases'[a])
    BY <2>7, <2>9, <1>1, <1>2, <1>3
  <2>10. Translated(trees'[Len(cases')], cases'[Len(cases')], toVisit', child', D)
    BY <2>5, <2>7, <1>3 DEF tree
  <2> QED
    BY <2>1, <2>8, <2>9, <2>10 DEF DInv, Rendered
<1>8. CASE LeaveState
  <2> DEFINE tree == trees[n]
             now == WithInitialCondition(cases[n])
  <2>1. /\ toVisit # <<>> /\ stage' = "transformation"
        /\ child > Len(TreeChildren(tree, Head(toVisit)))
        /\ toVisit' = Tail(toVisit) /\ child' = 1
        /\ IF Len(toVisit) > 1 THEN cases' = cases ELSE cases' = [cases EXCEPT ![n] = now]
    BY <1>8 DEF LeaveState, Transforming, CurrentChildren, Translating, n
  <2>2. PICK D : Translated(tree, cases[n], toVisit, child, D)
    BY <2>1, <1>2
  <2>3. Rooted(tree) /\ n > 0
    BY <2>1, <1>1, <1>6
  <2> HIDE DEF tree
  <2>4. /\ Translated(tree, cases[n], toVisit', 1, D \cup {Head(toVisit)})
        /\ First(tree, cases[n])
    BY <2>1, <2>2, <2>3, <1>1, TranslationLeaves
  <2>5. toVisit' = <<>> <=> ~(Len(toVisit) > 1)
    <3>1. toVisit \in Seq(1..Len(tree))
      BY <2>2 DEF Translated
    <3>2. toVisit # <<>> /\ toVisit' = Tail(toVisit)
      BY <2>1
    <3>3. ASSUME NEW S, NEW q \in Seq(S), q # <<>>
          PROVE  Tail(q) = <<>> <=> ~(Len(q) > 1)
      <4>1. Len(q) \in Nat /\ Len(q) # 0 /\ Tail(q) \in Seq(S)
        BY <3>3
      <4>2. \A s \in Seq(S) : s = <<>> <=> Len(s) = 0
        OBVIOUS
      <4>3. Len(Tail(q)) = Len(q) - 1
        BY <4>1
      <4>4. Tail(q) = <<>> <=> Len(Tail(q)) = 0
        BY ONLY <4>1, <4>2
      <4> QED
        BY <4>1, <4>3, <4>4
    <3> QED
      BY <3>1, <3>2, <3>3
  <2>6. CASE Len(toVisit) > 1
    <3>1. cases' = cases /\ Len(cases') = n
      BY <2>1, <2>6 DEF n
    <3>2. toVisit' # <<>>
      BY <2>5, <2>6
    <3>3. ASSUME NEW a \in 1..Len(cases'), a < Len(cases')
          PROVE  Faithful(trees'[a], cases'[a])
      BY <3>1, <3>3, <1>2, <1>3
    <3>4. Translated(trees'[Len(cases')], cases'[Len(cases')], toVisit', child',
                     D \cup {Head(toVisit)})
      BY <3>1, <2>1, <2>4, <1>3 DEF tree
    <3> QED
      BY <2>1, <3>2, <3>3, <3>4 DEF DInv, Rendered
  <2>7. CASE ~(Len(toVisit) > 1)
    <3>1. cases' = [cases EXCEPT ![n] = now] /\ toVisit' = <<>>
      BY <2>1, <2>5, <2>7
    <3>2. Translated(tree, cases[n], <<>>, 1, D \cup {Head(toVisit)})
      BY <2>4, <3>1
    <3>3. Faithful(tree, now)
      BY <2>3, <2>4, <3>2, TranslationEnds
    <3> HIDE DEF now
    <3>4. /\ Len(cases') = n /\ cases'[n] = now
          /\ \A a \in 1..n : a # n => cases'[a] = cases[a]
      BY <3>1, <2>3, <1>4
    <3>5. ASSUME NEW a \in 1..Len(cases')
          PROVE  Faithful(trees'[a], cases'[a])
      <4>1. CASE a = n
        BY <4>1, <3>3, <3>4, <1>3 DEF tree
      <4>2. CASE a # n
        <5>1. a \in 1..n /\ a < n
          BY <4>2, <3>4, <1>1
        <5> QED
          BY <5>1, <4>2, <3>4, <1>2, <1>3
      <4> QED
        BY <4>1, <4>2
    <3> QED
      BY <2>1, <3>1, <3>5 DEF DInv, Rendered
  <2> QED
    BY <2>6, <2>7
<1>9. CASE Transformed
  <2>1. /\ toVisit = <<>> /\ n = Len(trees)
        /\ cases' = cases /\ toVisit' = toVisit /\ child' = child
    BY <1>9 DEF Transformed, transformationVars, n
  <2>2. Rendered(trees', cases', toVisit', child')
    BY <2>1, <1>3 DEF DInv
  <2>3. toVisit' = <<>> /\ Len(cases') = Len(trees')
    BY <2>1, <1>3 DEF n
  <2> QED
    BY <2>2, <2>3 DEF DInv
<1> QED
  BY <1>5, <1>7, <1>8, <1>9

(* The steps before it have no test case.                                  *)
LEMMA NoCasesYet ==
    ASSUME SInv, [GenerationNext]_allVars, DInv,
           ~(BeginTestCase \/ AddChild \/ LeaveState \/ Transformed)
    PROVE  DInv'
<1>1. CASE UNCHANGED allVars
  BY <1>1 DEF allVars, DInv
<1>2. CASE \/ Complete \/ Multiply \/ ExecuteNothing \/ Execute \/ Executed
           \/ SelectNothing \/ SelectTestCase \/ AddMissingInputs \/ TestCaseSelected \/ Selected
  <2>1. /\ stage \in {"completion", "product", "execution", "selection"}
        /\ UNCHANGED transformationVars /\ stage' # "returned"
    <3>1. CASE Complete \/ Multiply
      BY <3>1 DEF Complete, Multiply, Prepare, Crash
    <3>2. CASE ExecuteNothing \/ SelectNothing
      BY <3>2 DEF ExecuteNothing, SelectNothing, Crash
    <3>3. CASE Execute
      BY <3>3 DEF Execute
    <3>4. CASE Executed
      BY <3>4 DEF Executed
    <3>5. CASE SelectTestCase \/ AddMissingInputs
      BY <3>5 DEF SelectTestCase, AddMissingInputs, Selecting, Crash
    <3>6. CASE TestCaseSelected \/ Selected
      BY <3>6 DEF TestCaseSelected, Selected, Selecting
    <3> QED
      BY <1>2, <3>1, <3>2, <3>3, <3>4, <3>5, <3>6
  <2>2. cases' = <<>> /\ toVisit' = <<>> /\ child' = 1
    BY <2>1 DEF SInv, Staged, transformationVars
  <2> QED
    BY <2>1, <2>2, RenderedNothing DEF DInv
<1> QED
  BY <1>1, <1>2 DEF GenerationNext

(* There is a test case for every accepting state, with the transitions of *)
(* its test tree and the first condition of its path, for every tree that  *)
(* forwardTraversal can build.                                             *)
THEOREM CasesAreFaithful == GenerationSpec => []CasesFaithful
<1>1. GenerationInit => DInv
  <2> SUFFICES ASSUME GenerationInit PROVE DInv
    OBVIOUS
  <2>1. cases = <<>> /\ toVisit = <<>> /\ child = 1 /\ stage = "completion"
    BY DEF GenerationInit
  <2> QED
    BY <2>1, RenderedNothing DEF DInv
<1>2. DInv /\ SInv /\ [GenerationNext]_allVars => DInv'
  BY CasesKept, NoCasesYet
<1>3. DInv /\ SInv => CasesFaithful
  <2> SUFFICES ASSUME DInv, SInv, stage = "returned" PROVE CasesFaithful
    BY DEF CasesFaithful
  <2>1. /\ toVisit = <<>> /\ Len(cases) = Len(trees) /\ Len(trees) = Len(Accepting)
        /\ cases \in Seq(Range(cases))
    BY DEF DInv, SInv, Staged
  <2>2. \A a \in DOMAIN cases : Faithful(trees[a], cases[a])
    BY <2>1 DEF DInv, Rendered
  <2> QED
    BY <2>1, <2>2 DEF CasesFaithful, Faithful
<1> QED
  BY <1>1, <1>2, <1>3, LocalsTyped, PTL DEF GenerationSpec

-----------------------------------------------------------------------------
(* Folds of sequences.                                                     *)

(* What holds at 0, and at a number if it does at the one before, holds up *)
(* to n.                                                                   *)
LEMMA UpTo ==
    ASSUME NEW n \in Nat, NEW S, 0 \in S, \A k \in 1..n : k - 1 \in S => k \in S
    PROVE  0..n \subseteq S
<1> DEFINE T == {k \in 1..n : k \notin S}
<1>1. SUFFICES ASSUME T # {} PROVE FALSE
  <2>1. \A k \in 0..n : k = 0 \/ k \in 1..n
    OBVIOUS
  <2> QED
    BY <1>1, <2>1
<1>2. Min(T) \in T /\ \A k \in T : Min(T) <= k
  <2>1. T \in SUBSET (1..n)
    OBVIOUS
  <2> HIDE DEF T
  <2> QED
    BY <1>1, <2>1, LeastOf
<1>3. PICK k \in T : \A j \in T : k <= j
  BY <1>2
<1>4. k \in 1..n /\ k \notin S /\ (k - 1 = 0 \/ k - 1 \in 1..n) /\ ~(k <= k - 1)
  BY <1>3
<1>5. k - 1 \in S
  BY <1>3, <1>4
<1> QED
  BY <1>4, <1>5

(* Max of a set of numbers is its last one.                                *)
LEMMA LastOf ==
    ASSUME NEW n \in Nat, NEW S \in SUBSET (1..n)
    PROVE  /\ S # {} => Max(S) \in S
           /\ n \in S => Max(S) = n
<1>1. n \in S => Max(S) = n
  <2>1. ASSUME n \in S PROVE Max(S) = n
    <3>1. \A k \in S : k \in 1..n /\ n >= k
      OBVIOUS
    <3>2. \A x \in S : (\A y \in S : x >= y) => x = n
      BY <2>1, <3>1
    <3> QED
      BY <2>1, <3>1, <3>2 DEF Max
  <2> QED
    BY <2>1
<1>2. ASSUME S # {} PROVE Max(S) \in S
  <2> DEFINE above == {k \in 1..n : \A j \in S : j <= k}
  <2>1. n \in above /\ above \in SUBSET (1..n)
    <3>1. PICK j \in S : TRUE
      BY <1>2
    <3>2. n \in 1..n /\ \A k \in S : k <= n
      BY <3>1
    <3> QED
      BY <3>2
  <2>2. PICK k \in above : \A j \in above : k <= j
    <3> HIDE DEF above
    <3>1. Min(above) \in above /\ \A j \in above : Min(above) <= j
      BY <2>1, LeastOf
    <3> QED
      BY <3>1
  <2>3. k \in S
    <3> SUFFICES ASSUME k \notin S PROVE FALSE
      OBVIOUS
    <3>1. PICK j \in S : TRUE
      BY <1>2
    <3>2. k \in 1..n /\ \A h \in S : h \in 1..n /\ h <= k /\ h # k
      BY <2>2
    <3>3. k - 1 \in 1..n /\ \A h \in S : h <= k - 1
      BY <3>1, <3>2
    <3>4. k - 1 \in above /\ ~(k <= k - 1)
      BY <3>2, <3>3
    <3> QED
      BY <2>2, <3>4
  <2>4. \A y \in S : k >= y
    BY <2>2
  <2>5. \E x \in S : \A y \in S : x >= y
    BY <2>3, <2>4
  <2> QED
    BY <2>5 DEF Max
<1> QED
  BY <1>1, <1>2

\* h is the function by which Folds defines a fold of n elements that starts
\* with b, if F makes of the place of an element and a result the next result.
Folding(h, n, F, b) ==
    \A s \in SUBSET (1..n) : h[s] = IF s = {} THEN b ELSE F[<<Max(s), h[s \ {Max(s)}]>>]

(* There is such a function.                                               *)
LEMMA FoldExists ==
    ASSUME NEW n \in Nat, NEW D, NEW b \in D, NEW F \in [(1..n) \X D -> D]
    PROVE  \E h \in [SUBSET (1..n) -> D] : Folding(h, n, F, b)
<1> DEFINE S == {c \in 0..n : \E h \in [SUBSET (1..c) -> D] : Folding(h, c, F, b)}
<1>1. 0 \in S
  <2> DEFINE h == [s \in SUBSET (1..0) |-> b]
  <2>1. h \in [SUBSET (1..0) -> D] /\ 0 \in 0..n
    OBVIOUS
  <2>2. \A s \in SUBSET (1..0) : s = {}
    OBVIOUS
  <2>3. Folding(h, 0, F, b)
    BY <2>2 DEF Folding
  <2> QED
    BY <2>1, <2>3
<1>2. ASSUME NEW c \in 1..n, c - 1 \in S PROVE c \in S
  <2>1. c \in 0..n /\ c - 1 \in Nat /\ c \in Nat /\ c \notin 1..c - 1
    OBVIOUS
  <2>2. PICK g \in [SUBSET (1..c - 1) -> D] : Folding(g, c - 1, F, b)
    BY <1>2
  <2> DEFINE h == [s \in SUBSET (1..c) |-> IF c \in s THEN F[<<c, g[s \ {c}]>>] ELSE g[s]]
  <2>3. \A s \in SUBSET (1..c) : /\ s \ {c} \in SUBSET (1..c - 1)
                                 /\ c \notin s => s \in SUBSET (1..c - 1)
    BY <2>1
  <2>4. h \in [SUBSET (1..c) -> D]
    <3>1. \A s \in SUBSET (1..c) : g[s \ {c}] \in D /\ (c \notin s => g[s] \in D)
      BY <2>2, <2>3
    <3>2. \A s \in SUBSET (1..c) : F[<<c, g[s \ {c}]>>] \in D
      BY <3>1
    <3> QED
      BY <3>1, <3>2
  <2>5. ASSUME NEW s \in SUBSET (1..c)
        PROVE  h[s] = IF s = {} THEN b ELSE F[<<Max(s), h[s \ {Max(s)}]>>]
    <3>1. CASE c \in s
      <4>1. Max(s) = c
        BY <2>1, <3>1, LastOf
      <4>2. h[s \ {c}] = g[s \ {c}]
        BY <2>3
      <4>3. h[s] = F[<<c, g[s \ {c}]>>]
        BY <3>1
      <4> QED
        BY <3>1, <4>1, <4>2, <4>3
    <3>2. CASE c \notin s
      <4>1. s \in SUBSET (1..c - 1) /\ h[s] = g[s]
        BY <2>3, <3>2
      <4>2. CASE s = {}
        BY <2>2, <4>1, <4>2 DEF Folding
      <4>3. CASE s # {}
        <5>1. Max(s) \in s
          BY <2>1, <4>3, LastOf
        <5> DEFINE r == s \ {Max(s)}
        <5>2. r \in SUBSET (1..c) /\ c \notin r
          BY <3>2
        <5>3. h[r] = g[r]
          BY <5>2
        <5>4. g[s] = F[<<Max(s), g[r]>>]
          BY <2>2, <4>1, <4>3 DEF Folding
        <5> QED
          BY <4>1, <4>3, <5>3, <5>4
      <4> QED
        BY <4>2, <4>3
    <3> QED
      BY <3>1, <3>2
  <2> HIDE DEF h
  <2>6. Folding(h, c, F, b)
    BY <2>5 DEF Folding
  <2> QED
    BY <2>1, <2>4, <2>6
<1> HIDE DEF S
<1>3. 0..n \subseteq S
  BY <1>1, <1>2, UpTo
<1>4. n \in S
  BY <1>3
<1> QED
  BY <1>4 DEF S

\* Where h has values in D it is such a function.
FoldingIn(h, n, D, F, b) ==
    /\ h[{}] = b
    /\ \A s \in SUBSET (1..n) :
           s # {} /\ h[s \ {Max(s)}] \in D => h[s] = F[<<Max(s), h[s \ {Max(s)}]>>]

\* q has the results of the rounds of the loop, the last one is r.
Rounds(q, n, F, b, r) == /\ q[0] = b /\ q[n] = r
                         /\ \A k \in 1..n : q[k] = F[<<k, q[k - 1]>>]

(* The values of such a function at 1..k are those of the loop.            *)
LEMMA FoldSteps ==
    ASSUME NEW n \in Nat, NEW D, NEW b \in D, NEW F \in [(1..n) \X D -> D], NEW h,
           FoldingIn(h, n, D, F, b)
    PROVE  \E q \in [0..n -> D] : Rounds(q, n, F, b, h[1..n])
<1> DEFINE S == {k \in 0..n : h[1..k] \in D}
           q == [k \in 0..n |-> h[1..k]]
<1>1. ASSUME NEW k \in 1..n, k - 1 \in S
      PROVE  k \in S /\ h[1..k] = F[<<k, h[1..k - 1]>>]
  <2>1. k \in Nat /\ 1..k \in SUBSET (1..n) /\ k \in 1..k /\ (1..k) \ {k} = 1..k - 1 /\ k \in 0..n
    OBVIOUS
  <2>2. Max(1..k) = k
    BY <2>1, LastOf
  <2>3. h[1..k - 1] \in D
    BY <1>1
  <2>4. h[1..k] = F[<<k, h[1..k - 1]>>]
    BY <2>1, <2>2, <2>3 DEF FoldingIn
  <2> QED
    BY <2>1, <2>3, <2>4
<1>2. 1..0 = {} /\ h[{}] = b /\ 0 \in S
  BY DEF FoldingIn
<1> HIDE DEF S
<1>3. 0..n \subseteq S
  BY <1>1, <1>2, UpTo
<1>4. \A k \in 0..n : h[1..k] \in D
  BY <1>3 DEF S
<1>5. q \in [0..n -> D]
  BY <1>4
<1>6. \A k \in 1..n : q[k] = F[<<k, q[k - 1]>>]
  <2>1. \A k \in 1..n : k - 1 \in 0..n /\ k \in 0..n
    OBVIOUS
  <2> QED
    BY <1>1, <1>3, <2>1
<1>7. 0 \in 0..n /\ n \in 0..n
  OBVIOUS
<1>8. Rounds(q, n, F, b, h[1..n])
  BY <1>2, <1>6, <1>7 DEF Rounds
<1> QED
  BY <1>5, <1>8

-----------------------------------------------------------------------------
(* The texts of the symbolic execution.                                    *)

AnyTerm == [kind : {"number", "name", "symbol"}, name : Identifier \cup {""},
            index : Int, sign : {1, -1}]

\* The terms whose symbols are in D and whose names are in W, and the texts
\* they make.
Terms(D, W) == {u \in AnyTerm : /\ u.kind = "symbol" => <<u.name, u.index>> \in D
                                /\ u.kind = "name" => u.name \in W}
Texts(D, W) == Seq(Terms(D, W)) \ {<<>>}

\* With more symbols there are more texts.
LEMMA MoreTexts ==
    ASSUME NEW D, NEW E, D \subseteq E, NEW W
    PROVE  Terms(D, W) \subseteq Terms(E, W) /\ Texts(D, W) \subseteq Texts(E, W)
<1>1. Terms(D, W) \subseteq Terms(E, W)
  BY DEF Terms
<1>2. \A S, T : S \subseteq T => Seq(S) \subseteq Seq(T)
  OBVIOUS
<1> QED
  BY <1>1, <1>2 DEF Texts

\* A minus does not change what a term speaks of.
LEMMA SignedTerm ==
    ASSUME NEW D, NEW W, NEW u \in Terms(D, W), NEW s \in {1, -1}
    PROVE  [u EXCEPT !.sign = @ * s] \in Terms(D, W)
<1>1. u \in AnyTerm /\ u.sign \in {1, -1}
  BY DEF Terms, AnyTerm
<1>2. u.sign * s \in {1, -1}
  BY <1>1
<1> DEFINE w == [u EXCEPT !.sign = @ * s]
<1>3. w \in AnyTerm /\ w.kind = u.kind /\ w.name = u.name /\ w.index = u.index
  BY <1>1, <1>2 DEF AnyTerm
<1> HIDE DEF w
<1>4. w \in Terms(D, W)
  BY <1>3 DEF Terms
<1> QED
  BY <1>4 DEF w

(* A token of an expression becomes a text: the value of a name, with the  *)
(* sign of the token, and any other token itself.                          *)
LEMMA SplicedText ==
    ASSUME NEW D, NEW W, NEW N, NEW m \in [N -> Texts(D, W)],
           NEW u \in ParsedTerm, u.kind = "name" => u.name \in N \cup W
    PROVE  Spliced(u, m) \in Texts(D, W)
<1>1. DOMAIN m = N /\ u.sign \in {1, -1} /\ u \in AnyTerm /\ u.kind # "symbol"
  <2>1. DOMAIN m = N
    OBVIOUS
  <2>2. CASE u \in [kind : {"number"}, name : {""}, index : Int, sign : {1, -1}]
    BY <2>1, <2>2 DEF AnyTerm
  <2>3. CASE u \in [kind : {"name"}, name : Identifier, index : {0}, sign : {1, -1}]
    <3>1. /\ u = [kind |-> u.kind, name |-> u.name, index |-> u.index, sign |-> u.sign]
          /\ u.kind = "name" /\ u.name \in Identifier /\ u.index = 0 /\ u.sign \in {1, -1}
      BY <2>3
    <3>2. /\ u.kind \in {"number", "name", "symbol"} /\ u.name \in Identifier \cup {""}
          /\ u.index \in Int
      <4>1. u.kind \in {"number", "name", "symbol"}
        BY ONLY <3>1
      <4>2. u.name \in Identifier \cup {""}
        BY ONLY <3>1
      <4>3. u.index \in Int
        BY ONLY <3>1
      <4> QED
        BY ONLY <4>1, <4>2, <4>3
    <3>3. u \in AnyTerm
      BY ONLY <3>1, <3>2 DEF AnyTerm
    <3> QED
      BY <2>1, <3>1, <3>3
  <2> QED
    BY <2>2, <2>3 DEF ParsedTerm
<1>2. CASE u.kind = "name" /\ u.name \in N
  <2> DEFINE text == m[u.name]
             w == [Head(text) EXCEPT !.sign = @ * u.sign]
  <2>1. text \in Seq(Terms(D, W)) /\ text # <<>>
    BY <1>2 DEF Texts
  <2>2. Head(text) \in Terms(D, W) /\ Tail(text) \in Seq(Terms(D, W))
    <3> HIDE DEF text
    <3> QED
      BY <2>1
  <2>3. w \in Terms(D, W)
    <3> HIDE DEF text
    <3> QED
      BY <1>1, <2>2, SignedTerm
  <2>4. Spliced(u, m) = <<w>> \o Tail(text)
    BY <1>1, <1>2 DEF Spliced
  <2> HIDE DEF w, text
  <2>5. \A T : \A x \in T, y \in Seq(T) : <<x>> \o y \in Seq(T) /\ <<x>> \o y # <<>>
    <3>1. ASSUME NEW T, NEW x \in T, NEW y \in Seq(T)
          PROVE  <<x>> \o y \in Seq(T) /\ <<x>> \o y # <<>>
      <4>1. <<x>> \in Seq(T) /\ Len(<<x>>) = 1
        OBVIOUS
      <4>2. <<x>> \o y \in Seq(T) /\ Len(<<x>> \o y) = 1 + Len(y)
        BY <4>1
      <4>3. Len(<<>>) = 0 /\ Len(y) \in Nat
        OBVIOUS
      <4> QED
        BY <4>2, <4>3
    <3> QED
      BY <3>1
  <2> QED
    BY <2>2, <2>3, <2>4, <2>5 DEF Texts
<1>3. CASE ~(u.kind = "name" /\ u.name \in N)
  <2>1. Spliced(u, m) = <<u>>
    BY <1>1, <1>3 DEF Spliced
  <2>2. u \in Terms(D, W)
    BY <1>1, <1>3 DEF Terms
  <2>3. <<u>> \in Seq(Terms(D, W)) /\ <<u>> # <<>>
    BY <2>2
  <2> QED
    BY <2>1, <2>3 DEF Texts
<1> QED
  BY <1>2, <1>3

\* f is the function by which FlattenSeq is defined, for the first n of seqs.
Flattening(f, seqs, n) ==
    f = [j \in 1..n |-> IF j = 1 THEN seqs[j] ELSE f[j - 1] \o seqs[j]]

(* The elements of sequences, one sequence after the other.                *)
LEMMA Flattened ==
    ASSUME NEW T, NEW seqs \in Seq(Seq(T)), seqs # <<>>
    PROVE  \E f \in [1..Len(seqs) -> Seq(T)] :
               /\ f[1] = seqs[1]
               /\ \A j \in 1..Len(seqs) : j # 1 => f[j] = f[j - 1] \o seqs[j]
               /\ FlattenSeq(seqs) = f[Len(seqs)]
<1> DEFINE n == Len(seqs)
           S == {c \in 0..n : \E f \in [1..c -> Seq(T)] : Flattening(f, seqs, c)}
<1>1. n \in Nat /\ n # 0 /\ \A j \in 1..n : seqs[j] \in Seq(T)
  OBVIOUS
<1> HIDE DEF n
<1>2. 0 \in S
  <2>1. [j \in 1..0 |-> <<>>] \in [1..0 -> Seq(T)]
    OBVIOUS
  <2>2. Flattening([j \in 1..0 |-> <<>>], seqs, 0)
    BY DEF Flattening
  <2>3. 0 \in 0..n
    BY <1>1
  <2> QED
    BY <2>1, <2>2, <2>3
<1>3. ASSUME NEW c \in 1..n, c - 1 \in S PROVE c \in S
  <2>1. c \in 0..n /\ c \in Nat /\ c \in 1..c
    BY <1>1
  <2>2. PICK f \in [1..c - 1 -> Seq(T)] : Flattening(f, seqs, c - 1)
    BY <1>3
  <2> DEFINE last == IF c = 1 THEN seqs[c] ELSE f[c - 1] \o seqs[c]
             h == [j \in 1..c |-> IF j = c THEN last ELSE f[j]]
  <2>3. last \in Seq(T)
    <3>1. c # 1 => c - 1 \in 1..c - 1
      BY <2>1
    <3>2. \A x, y \in Seq(T) : x \o y \in Seq(T)
      OBVIOUS
    <3> QED
      BY <1>1, <2>2, <3>1, <3>2
  <2>4. \A j \in 1..c : j # c => /\ j \in 1..c - 1
                                 /\ f[j] = IF j = 1 THEN seqs[j] ELSE f[j - 1] \o seqs[j]
    <3>1. \A j \in 1..c : j # c => j \in 1..c - 1
      BY <2>1
    <3>2. f = [j \in 1..c - 1 |-> IF j = 1 THEN seqs[j] ELSE f[j - 1] \o seqs[j]]
      BY <2>2 DEF Flattening
    <3>3. \A j \in 1..c - 1 : f[j] = IF j = 1 THEN seqs[j] ELSE f[j - 1] \o seqs[j]
      BY ONLY <3>2
    <3> QED
      BY ONLY <3>1, <3>3
  <2>5. h \in [1..c -> Seq(T)]
    BY <2>2, <2>3, <2>4
  <2>6. ASSUME NEW j \in 1..c
        PROVE  h[j] = IF j = 1 THEN seqs[j] ELSE h[j - 1] \o seqs[j]
    <3>1. j # 1 => /\ j - 1 \in 1..c /\ j - 1 # c
                   /\ h[j - 1] = f[j - 1]
      BY <2>1
    <3>2. CASE j = c
      <4>1. h[j] = last
        BY <3>2
      <4> QED
        BY <3>1, <3>2, <4>1
    <3>3. CASE j # c
      <4>1. h[j] = f[j]
        BY <3>3
      <4> QED
        BY <2>4, <3>1, <3>3, <4>1
    <3> QED
      BY <3>2, <3>3
  <2> HIDE DEF h
  <2>7. h = [j \in 1..c |-> h[j]]
    BY <2>5
  <2>8. Flattening(h, seqs, c)
    BY <2>6, <2>7 DEF Flattening
  <2> QED
    BY <2>1, <2>5, <2>8
<1> HIDE DEF S
<1>4. 0..n \subseteq S
  BY <1>1, <1>2, <1>3, UpTo
<1>5. \E f : Flattening(f, seqs, n)
  <2>1. n \in S
    BY <1>1, <1>4
  <2> QED
    BY <2>1 DEF S
<1> DEFINE f == CHOOSE f : Flattening(f, seqs, n)
<1>6. Flattening(f, seqs, n)
  BY <1>5
<1>7. FlattenSeq(seqs) = f[n]
  BY <1>1 DEF FlattenSeq, Flattening, n
<1> HIDE DEF f
<1>8. /\ DOMAIN f = 1..n /\ f = [j \in 1..n |-> f[j]]
      /\ \A j \in 1..n : f[j] = IF j = 1 THEN seqs[j] ELSE f[j - 1] \o seqs[j]
  BY <1>6 DEF Flattening
<1>9. \A j \in 1..n : f[j] \in Seq(T)
  <2> DEFINE R == {j \in 0..n : j = 0 \/ f[j] \in Seq(T)}
  <2>1. 0 \in R
    BY <1>1
  <2>2. ASSUME NEW j \in 1..n, j - 1 \in R PROVE j \in R
    <3>1. j \in 0..n
      BY <1>1
    <3>2. CASE j = 1
      BY <1>1, <1>8, <3>1, <3>2
    <3>3. CASE j # 1
      <4>1. j - 1 # 0
        BY <1>1, <3>3
      <4>2. f[j - 1] \in Seq(T)
        BY <2>2, <4>1
      <4>3. seqs[j] \in Seq(T) /\ f[j] = f[j - 1] \o seqs[j]
        BY <1>1, <1>8, <3>3
      <4>4. f[j] \in Seq(T)
        <5>1. \A x, y \in Seq(T) : x \o y \in Seq(T)
          OBVIOUS
        <5> QED
          BY ONLY <4>2, <4>3, <5>1
      <4> QED
        BY <3>1, <4>4
    <3> QED
      BY <3>2, <3>3
  <2> HIDE DEF R
  <2>3. 0..n \subseteq R
    BY <1>1, <2>1, <2>2, UpTo
  <2>4. \A j \in 1..n : j \in 0..n /\ j # 0
    BY <1>1
  <2> QED
    BY <2>3, <2>4 DEF R
<1>10. f \in [1..n -> Seq(T)]
  BY <1>8, <1>9
<1>11. 1 \in 1..n
  BY <1>1
<1> QED
  BY <1>7, <1>8, <1>10, <1>11 DEF n

\* The tokens of e are replaced one by one.
TokenByToken(D, W, N, m, e) ==
    /\ DOMAIN e = 1..Len(e) /\ Len(e) \in Nat /\ 1 \in 1..Len(e)
    /\ \A j \in 1..Len(e) : /\ e[j] \in ParsedTerm
                            /\ e[j].kind = "name" => e[j].name \in N \cup W
                            /\ Spliced(e[j], m) \in Texts(D, W)
    /\ \E f \in [1..Len(e) -> Seq(Terms(D, W))] :
          /\ f[1] = Spliced(e[1], m)
          /\ \A j \in 1..Len(e) : j # 1 => f[j] = f[j - 1] \o Spliced(e[j], m)
          /\ updateExpression(e, m) = f[Len(e)]

(* An expression becomes a text.                                           *)
LEMMA UpdatedText ==
    ASSUME NEW D, NEW W, NEW N, NEW m \in [N -> Texts(D, W)],
           NEW e \in ParsedExpression, NamesOf(e) \subseteq N \cup W
    PROVE  updateExpression(e, m) \in Texts(D, W) /\ TokenByToken(D, W, N, m, e)
<1> DEFINE n == Len(e)
           seqs == [j \in 1..n |-> Spliced(e[j], m)]
           T == Terms(D, W)
<1>1. e \in Seq(ParsedTerm) /\ e # <<>>
  BY DEF ParsedExpression
<1>2. DOMAIN e = 1..n /\ n \in Nat /\ n # 0 /\ 1 \in 1..n /\ n \in 1..n
  BY <1>1
<1>3. ASSUME NEW j \in 1..n
      PROVE  /\ e[j] \in ParsedTerm
             /\ e[j].kind = "name" => e[j].name \in N \cup W
             /\ Spliced(e[j], m) \in Texts(D, W)
  <2>1. e[j] \in ParsedTerm
    BY <1>1, <1>2
  <2>2. e[j].kind = "name" => e[j].name \in N \cup W
    BY <1>2 DEF NamesOf
  <2> QED
    BY <2>1, <2>2, SplicedText
<1> HIDE DEF n, T
<1>4. \A j \in 1..n : Spliced(e[j], m) \in Seq(T) /\ Spliced(e[j], m) # <<>>
  BY <1>3 DEF Texts, T
<1>5. seqs \in Seq(Seq(T)) /\ Len(seqs) = n /\ seqs # <<>>
  <2>1. seqs \in [1..n -> Seq(T)]
    BY <1>4
  <2> HIDE DEF seqs
  <2>2. seqs \in Seq(Seq(T)) /\ Len(seqs) = n
    BY <1>2, <2>1
  <2> QED
    BY <1>2, <2>2
<1>6. updateExpression(e, m) = FlattenSeq(seqs)
  BY <1>2 DEF updateExpression
<1> HIDE DEF seqs
<1>7. PICK f \in [1..n -> Seq(T)] :
          /\ f[1] = seqs[1]
          /\ \A j \in 1..n : j # 1 => f[j] = f[j - 1] \o seqs[j]
          /\ FlattenSeq(seqs) = f[n]
  <2>1. \E f \in [1..Len(seqs) -> Seq(T)] :
            /\ f[1] = seqs[1]
            /\ \A j \in 1..Len(seqs) : j # 1 => f[j] = f[j - 1] \o seqs[j]
            /\ FlattenSeq(seqs) = f[Len(seqs)]
    BY <1>5, Flattened
  <2> QED
    BY <1>5, <2>1
<1>8. \A j \in 1..n : seqs[j] = Spliced(e[j], m)
  BY DEF seqs
<1>9. f[n] # <<>> /\ f[n] \in Seq(T)
  <2>1. f[n] \in Seq(T)
    BY <1>2, <1>7
  <2>2. CASE n = 1
    BY <1>2, <1>4, <1>7, <1>8, <2>2
  <2>3. CASE n # 1
    <3>1. f[n] = f[n - 1] \o seqs[n] /\ n - 1 \in 1..n
      <4>1. n - 1 \in 1..n
        BY <1>2, <2>3
      <4> QED
        BY ONLY <1>2, <1>7, <2>3, <4>1
    <3>2. f[n - 1] \in Seq(T) /\ seqs[n] \in Seq(T) /\ seqs[n] # <<>>
      BY <1>2, <1>4, <1>7, <1>8, <3>1
    <3>3. \A x, y \in Seq(T) : y # <<>> => x \o y # <<>>
      <4>1. ASSUME NEW x \in Seq(T), NEW y \in Seq(T), x \o y = <<>> PROVE y = <<>>
        <5>1. Len(x \o y) = Len(x) + Len(y) /\ Len(x) \in Nat /\ Len(y) \in Nat
          OBVIOUS
        <5>2. Len(y) = 0
          BY <4>1, <5>1
        <5> QED
          BY <5>2
      <4> QED
        BY <4>1
    <3> QED
      BY <2>1, <3>1, <3>2, <3>3
  <2> QED
    BY <2>2, <2>3
<1>10. /\ f[1] = Spliced(e[1], m)
       /\ \A j \in 1..n : j # 1 => f[j] = f[j - 1] \o Spliced(e[j], m)
       /\ updateExpression(e, m) = f[n]
  BY <1>2, <1>6, <1>7, <1>8
<1>11. updateExpression(e, m) \in Texts(D, W)
  BY <1>9, <1>10 DEF Texts, T
<1>12. TokenByToken(D, W, N, m, e)
  BY <1>2, <1>3, <1>7, <1>10 DEF TokenByToken, n, T
<1> QED
  BY <1>11, <1>12

(* What one assignment makes of the symbolic values.                       *)
AfterAssignment(values, a) == [values EXCEPT ![a.variable] = updateExpression(a.value, values)]

\* An assignment keeps texts texts.
LEMMA AssignedOnce ==
    ASSUME NEW D, NEW W, NEW N, NEW m \in [N -> Texts(D, W)],
           NEW a \in ParsedAssignment,
           NamesOf(a.value) \subseteq N \cup W
    PROVE  AfterAssignment(m, a) \in [N -> Texts(D, W)]
<1>1. updateExpression(a.value, m) \in Texts(D, W)
  <2>1. a.value \in ParsedExpression
    BY DEF ParsedAssignment
  <2> QED
    BY <2>1, UpdatedText
<1> QED
  BY <1>1 DEF AfterAssignment

(* The loop over the assignments.                                          *)
LEMMA AssignedTexts ==
    ASSUME NEW D, NEW W, NEW N, NEW m \in [N -> Texts(D, W)],
           NEW asg \in Seq(ParsedAssignment),
           \A k \in DOMAIN asg : NamesOf(asg[k].value) \subseteq N \cup W
    PROVE  \E q \in [0..Len(asg) -> [N -> Texts(D, W)]] :
               /\ q[0] = m
               /\ \A k \in 1..Len(asg) : q[k] = AfterAssignment(q[k - 1], asg[k])
               /\ updateSymbolicValueWithAssignments(asg, m) = q[Len(asg)]
<1> DEFINE n == Len(asg)
           M == [N -> Texts(D, W)]
<1>1. n \in Nat /\ DOMAIN asg = 1..n
  OBVIOUS
<1> DEFINE F == [z \in (1..n) \X M |-> AfterAssignment(z[2], asg[z[1]])]
           IsFold(h) == h = [s \in SUBSET DOMAIN asg |->
                                IF s = {} THEN m
                                ELSE LET x == Max(s) IN AfterAssignment(h[s \ {x}], asg[x])]
           g == CHOOSE h : IsFold(h)
<1>2. \A k \in 1..n : \A r \in M : AfterAssignment(r, asg[k]) \in M
  <2>1. ASSUME NEW k \in 1..n, NEW r \in M PROVE AfterAssignment(r, asg[k]) \in M
    <3>1. asg[k] \in ParsedAssignment
      BY ONLY <1>1, asg \in Seq(ParsedAssignment), k \in 1..n
    <3>2. NamesOf(asg[k].value) \subseteq N \cup W
      BY <1>1
    <3> QED
      BY <3>1, <3>2, AssignedOnce
  <2> QED
    BY <2>1
<1>3. updateSymbolicValueWithAssignments(asg, m) = g[1..n]
  BY <1>1 DEF updateSymbolicValueWithAssignments, FoldLeft, MapThenFoldSet, AfterAssignment
<1> HIDE DEF n, M
<1>4. F \in [(1..n) \X M -> M]
  BY <1>2
<1>5. \A k \in 1..n : \A r \in M : F[<<k, r>>] = AfterAssignment(r, asg[k])
  OBVIOUS
<1> HIDE DEF F
<1>6. m \in M
  BY DEF M
<1>7. \E h : IsFold(h)
  <2>1. PICK h \in [SUBSET (1..n) -> M] : Folding(h, n, F, m)
    BY <1>1, <1>4, <1>6, FoldExists
  <2>2. ASSUME NEW s \in SUBSET (1..n)
        PROVE  h[s] = IF s = {} THEN m
                      ELSE LET x == Max(s) IN AfterAssignment(h[s \ {x}], asg[x])
    <3>1. CASE s = {}
      BY <2>1, <3>1 DEF Folding
    <3>2. CASE s # {}
      <4>1. Max(s) \in 1..n
        BY <1>1, <3>2, LastOf
      <4>2. h[s \ {Max(s)}] \in M
        BY <2>1
      <4>3. h[s] = F[<<Max(s), h[s \ {Max(s)}]>>]
        BY <2>1, <3>2 DEF Folding
      <4> QED
        BY <1>5, <3>2, <4>1, <4>2, <4>3
    <3> QED
      BY <3>1, <3>2
  <2>3. IsFold(h)
    <3>1. h = [s \in SUBSET (1..n) |-> h[s]]
      BY <2>1
    <3> QED
      BY <1>1, <2>2, <3>1
  <2> QED
    BY <2>3
<1>8. IsFold(g)
  BY <1>7
<1> HIDE DEF g
<1>9. \A s \in SUBSET (1..n) :
          g[s] = IF s = {} THEN m ELSE LET x == Max(s) IN AfterAssignment(g[s \ {x}], asg[x])
  BY <1>1, <1>8
<1> HIDE DEF IsFold
<1>10. FoldingIn(g, n, M, F, m)
  <2>1. \A s \in SUBSET (1..n) : s # {} => Max(s) \in 1..n
    BY <1>1, LastOf
  <2>2. {} \in SUBSET (1..n)
    OBVIOUS
  <2>3. g[{}] = m
    BY <1>9, <2>2
  <2> QED
    BY <1>5, <1>9, <2>1, <2>3 DEF FoldingIn
<1>11. PICK q \in [0..n -> M] : Rounds(q, n, F, m, g[1..n])
  BY <1>1, <1>4, <1>6, <1>10, FoldSteps
<1>12. /\ q[0] = m /\ q[n] = g[1..n]
       /\ \A k \in 1..n : q[k] = AfterAssignment(q[k - 1], asg[k])
  <2>1. \A k \in 1..n : k - 1 \in 0..n
    BY <1>1
  <2>2. \A k \in 1..n : q[k - 1] \in M
    BY <1>11, <2>1
  <2> QED
    BY <1>5, <1>11, <2>2 DEF Rounds
<1> QED
  BY <1>3, <1>11, <1>12 DEF n, M

-----------------------------------------------------------------------------
(* What reading one parameter makes of the symbolic values, the values     *)
(* that have been read and what was thrown.                                *)
AfterParameter(read, p) ==
    LET value == read.values[p]
        next  == updateSymbolicValue(value)
    IN  IF read.thrown # "" THEN read
        ELSE IF ~TwoParts(value)
        THEN [read EXCEPT !.thrown = "SymbolicValueNameException"]
        ELSE IF ~Parsable(value)
        THEN [read EXCEPT !.thrown = "NumberFormatException"]
        ELSE [read EXCEPT !.values[p] = next, !.ids = Append(@, next)]

\* The names P still have the symbols they are read with.
Count(m, x) == m[x][1].index
Readable(m, P) == \A x \in P : Count(m, x) \in Nat /\ m[x] = <<Symbol(x, Count(m, x))>>

\* The results of reading where nothing has been thrown.
Reads(N, V, P) ==
    {r \in [values : [N -> V], ids : Seq(V), thrown : {""}] : Readable(r.values, P)}

\* The symbol of a name that has no separator is parsed and counted up.
LEMMA CountedUp ==
    ASSUME NEW x \in Identifier \ Separated, NEW j \in Nat
    PROVE  /\ TwoParts(<<Symbol(x, j)>>) /\ Parsable(<<Symbol(x, j)>>)
           /\ updateSymbolicValue(<<Symbol(x, j)>>) = <<Symbol(x, j + 1)>>
<1> DEFINE u == Symbol(x, j)
           text == <<u>>
<1>1. u.kind = "symbol" /\ u.name = x /\ u.index = j
  BY DEF Symbol
<1>2. [u EXCEPT !.index = @ + 1] = Symbol(x, j + 1)
  BY DEF Symbol
<1> HIDE DEF u
<1>3. Len(text) = 1 /\ DOMAIN text = {1} /\ text[1] = u /\ Last(text) = u
  BY DEF Last
<1>4. {k \in DOMAIN text : text[k].kind = "symbol"} = {1}
  BY <1>1, <1>3
<1>5. Cardinality({1}) = 1
  BY FS_Singleton
<1>6. TwoParts(text)
  BY <1>1, <1>3, <1>4, <1>5 DEF TwoParts
<1>7. Parsable(text)
  BY <1>1, <1>3 DEF Parsable
<1>8. updateSymbolicValue(text) = <<[u EXCEPT !.index = @ + 1]>>
  <2>1. [text EXCEPT ![1].index = @ + 1] = <<[u EXCEPT !.index = @ + 1]>>
    OBVIOUS
  <2> QED
    BY <1>3, <2>1 DEF updateSymbolicValue
<1> QED
  BY <1>2, <1>6, <1>7, <1>8 DEF u

\* The symbol of p is counted up, and read.
CountsUp(N, V, P, r, p, s) ==
    /\ s \in Reads(N, V, P)
    /\ s.ids = Append(r.ids, s.values[p])
    /\ Count(s.values, p) = Count(r.values, p) + 1
    /\ \A x \in N : x # p => s.values[x] = r.values[x]

\* Reading one parameter counts its symbol up.
LEMMA ReadOnce ==
    ASSUME NEW N, NEW V, NEW P \in SUBSET N, P \subseteq Identifier \ Separated,
           \A x \in P, j \in Nat : <<Symbol(x, j)>> \in V,
           NEW r \in Reads(N, V, P), NEW p \in P
    PROVE  CountsUp(N, V, P, r, p, AfterParameter(r, p))
<1> DEFINE c == Count(r.values, p)
           next == <<Symbol(p, c + 1)>>
           s == AfterParameter(r, p)
<1>1. /\ r \in [values : [N -> V], ids : Seq(V), thrown : {""}]
      /\ c \in Nat /\ r.values[p] = <<Symbol(p, c)>> /\ p \in N
  BY DEF Reads, Readable
<1> HIDE DEF c
<1>2. /\ TwoParts(r.values[p]) /\ Parsable(r.values[p])
      /\ updateSymbolicValue(r.values[p]) = next
  BY <1>1, CountedUp
<1>3. s = [r EXCEPT !.values[p] = next, !.ids = Append(@, next)]
  BY <1>1, <1>2 DEF AfterParameter
<1>4. next \in V /\ next[1].index = c + 1 /\ c + 1 \in Nat
  <2>1. c + 1 \in Nat
    <3>1. c \in Nat
      BY <1>1
    <3> QED
      BY ONLY <3>1
  <2>2. next \in V
    BY <2>1
  <2>3. next[1].index = c + 1
    BY DEF Symbol
  <2> QED
    BY <2>1, <2>2, <2>3
<1> HIDE DEF s, next
<1>5. /\ s.values = [r.values EXCEPT ![p] = next] /\ s.ids = Append(r.ids, next)
      /\ s.thrown = "" /\ s = [values |-> s.values, ids |-> s.ids, thrown |-> s.thrown]
  BY <1>1, <1>3
<1>6. s.values \in [N -> V] /\ s.ids \in Seq(V) /\ s.values[p] = next
  <2>1. r.values \in [N -> V] /\ r.ids \in Seq(V)
    BY <1>1
  <2>2. s.values \in [N -> V] /\ s.values[p] = next
    BY <1>1, <1>4, <1>5, <2>1
  <2>3. s.ids \in Seq(V)
    <3>1. \A y \in Seq(V) : Append(y, next) \in Seq(V)
      BY <1>4
    <3> QED
      BY ONLY <1>5, <2>1, <3>1
  <2> QED
    BY <2>2, <2>3
<1>7. \A x \in N : x # p => s.values[x] = r.values[x]
  BY <1>1, <1>5
<1>8. Count(s.values, p) = c + 1
  BY <1>4, <1>6 DEF Count
<1>9. Readable(s.values, P)
  <2> SUFFICES ASSUME NEW x \in P
               PROVE  /\ Count(s.values, x) \in Nat
                      /\ s.values[x] = <<Symbol(x, Count(s.values, x))>>
    BY DEF Readable
  <2>1. CASE x = p
    BY <1>4, <1>6, <1>8, <2>1 DEF next
  <2>2. CASE x # p
    <3>1. s.values[x] = r.values[x]
      BY <1>7, <2>2
    <3> QED
      BY <3>1 DEF Reads, Readable, Count
  <2> QED
    BY <2>1, <2>2
<1>10. s \in [values : [N -> V], ids : Seq(V), thrown : {""}]
  BY <1>5, <1>6
<1>11. s \in Reads(N, V, P)
  BY <1>9, <1>10 DEF Reads
<1>12. s.ids = Append(r.ids, s.values[p])
  BY <1>5, <1>6
<1>13. CountsUp(N, V, P, r, p, s)
  BY <1>7, <1>8, <1>11, <1>12 DEF CountsUp, c
<1> QED
  BY <1>13 DEF s

\* q has the results of the loop over the parameters, the last one is r.
ReadRounds(q, params, m, r) ==
    /\ q[0] = [values |-> m, ids |-> <<>>, thrown |-> ""] /\ q[Len(params)] = r
    /\ \A k \in 1..Len(params) : q[k] = AfterParameter(q[k - 1], params[k])

(* The loop over the parameters.                                           *)
LEMMA ReadInOrder ==
    ASSUME NEW N, NEW V, NEW P \in SUBSET N, P \subseteq Identifier \ Separated,
           \A x \in P, j \in Nat : <<Symbol(x, j)>> \in V,
           NEW m \in [N -> V], Readable(m, P), NEW params \in Seq(P)
    PROVE  \E q \in [0..Len(params) -> Reads(N, V, P)] :
               ReadRounds(q, params, m, ReadParameters(params, m))
<1> DEFINE n == Len(params)
           R == Reads(N, V, P)
           b == [values |-> m, ids |-> <<>>, thrown |-> ""]
           F == [z \in (1..n) \X R |-> AfterParameter(z[2], params[z[1]])]
           IsFold(h) == h = [s \in SUBSET DOMAIN params |->
                                IF s = {} THEN b
                                ELSE LET x == Max(s) IN AfterParameter(h[s \ {x}], params[x])]
           g == CHOOSE h : IsFold(h)
<1>1. n \in Nat /\ DOMAIN params = 1..n /\ \A k \in 1..n : params[k] \in P
  OBVIOUS
<1>2. \A k \in 1..n : \A r \in R : AfterParameter(r, params[k]) \in R
  BY <1>1, ReadOnce DEF CountsUp
<1>3. ReadParameters(params, m) = g[1..n]
  BY <1>1 DEF ReadParameters, FoldLeft, MapThenFoldSet, AfterParameter
<1>4. b \in R
  <2>1. <<>> \in Seq(V)
    OBVIOUS
  <2>2. b \in [values : [N -> V], ids : Seq(V), thrown : {""}] /\ b.values = m
    BY <2>1
  <2> QED
    BY <2>2 DEF Reads
<1> HIDE DEF n, R, b
<1>5. F \in [(1..n) \X R -> R]
  BY <1>2
<1>6. \A k \in 1..n : \A r \in R : F[<<k, r>>] = AfterParameter(r, params[k])
  OBVIOUS
<1> HIDE DEF F
<1>7. \E h : IsFold(h)
  <2>1. PICK h \in [SUBSET (1..n) -> R] : Folding(h, n, F, b)
    BY <1>1, <1>4, <1>5, FoldExists
  <2>2. ASSUME NEW s \in SUBSET (1..n)
        PROVE  h[s] = IF s = {} THEN b
                      ELSE LET x == Max(s) IN AfterParameter(h[s \ {x}], params[x])
    <3>1. CASE s = {}
      BY <2>1, <3>1 DEF Folding
    <3>2. CASE s # {}
      <4>1. Max(s) \in 1..n
        BY <1>1, <3>2, LastOf
      <4>2. h[s \ {Max(s)}] \in R
        BY <2>1
      <4>3. h[s] = F[<<Max(s), h[s \ {Max(s)}]>>]
        BY <2>1, <3>2 DEF Folding
      <4> QED
        BY <1>6, <3>2, <4>1, <4>2, <4>3
    <3> QED
      BY <3>1, <3>2
  <2>3. h = [s \in SUBSET (1..n) |-> h[s]]
    BY <2>1
  <2>4. IsFold(h)
    BY <1>1, <2>2, <2>3
  <2> QED
    BY <2>4
<1>8. IsFold(g)
  BY <1>7
<1> HIDE DEF g
<1>9. \A s \in SUBSET (1..n) :
          g[s] = IF s = {} THEN b ELSE LET x == Max(s) IN AfterParameter(g[s \ {x}], params[x])
  BY <1>1, <1>8
<1> HIDE DEF IsFold
<1>10. FoldingIn(g, n, R, F, b)
  <2>1. \A s \in SUBSET (1..n) : s # {} => Max(s) \in 1..n
    BY <1>1, LastOf
  <2>2. {} \in SUBSET (1..n)
    OBVIOUS
  <2>3. g[{}] = b
    BY <1>9, <2>2
  <2> QED
    BY <1>6, <1>9, <2>1, <2>3 DEF FoldingIn
<1>11. PICK q \in [0..n -> R] : Rounds(q, n, F, b, g[1..n])
  BY <1>1, <1>4, <1>5, <1>10, FoldSteps
<1>12. /\ q[0] = b /\ q[n] = g[1..n]
       /\ \A k \in 1..n : q[k] = AfterParameter(q[k - 1], params[k])
  <2>1. \A k \in 1..n : k - 1 \in 0..n
    BY <1>1
  <2>2. \A k \in 1..n : q[k - 1] \in R
    BY <1>11, <2>1
  <2> QED
    BY <1>6, <1>11, <2>2 DEF Rounds
<1>13. ReadRounds(q, params, m, ReadParameters(params, m))
  BY <1>3, <1>12 DEF n, b, ReadRounds
<1> QED
  BY <1>11, <1>13 DEF n, R

\* What reading the parameters in a row makes of m: every parameter has a symbol
\* of its own, newer than the one the name had, and the names have those they
\* got last.
ReadInto(N, V, P, m, params, r) ==
    /\ r \in Reads(N, V, P)
    /\ Len(r.ids) = Len(params)
    /\ \A k \in 1..Len(params) :
          /\ r.ids[k][1].index \in Nat
          /\ r.ids[k] = <<Symbol(params[k], r.ids[k][1].index)>>
          /\ Count(m, params[k]) < r.ids[k][1].index
          /\ r.ids[k][1].index <= Count(r.values, params[k])
    /\ \A k \in 1..Len(params) : \A i0 \in 1..Len(params) :
          i0 < k /\ params[i0] = params[k] => r.ids[i0][1].index < r.ids[k][1].index
    /\ \A x \in N \ Range(params) : r.values[x] = m[x]
    /\ \A k \in 1..Len(params) :
          (\A j \in 1..Len(params) : j > k => params[j] # params[k])
              => r.values[params[k]] = r.ids[k]
    /\ \A x \in P : Count(m, x) <= Count(r.values, x)

(* What has been read after all parameters.                                *)
LEMMA ReadFacts ==
    ASSUME NEW N, NEW V, NEW P \in SUBSET N, P \subseteq Identifier \ Separated,
           \A x \in P, j \in Nat : <<Symbol(x, j)>> \in V,
           NEW m \in [N -> V], Readable(m, P), NEW params \in Seq(P)
    PROVE  ReadInto(N, V, P, m, params, ReadParameters(params, m))
<1> DEFINE n == Len(params)
           R == Reads(N, V, P)
           r == ReadParameters(params, m)
<1>1. n \in Nat /\ DOMAIN params = 1..n /\ \A k \in 1..n : params[k] \in P
  OBVIOUS
<1>2. PICK q \in [0..n -> R] : ReadRounds(q, params, m, r)
  BY ReadInOrder
<1>3. /\ q[0] = [values |-> m, ids |-> <<>>, thrown |-> ""] /\ r = q[n]
      /\ \A k \in 1..n : q[k] = AfterParameter(q[k - 1], params[k])
  BY <1>2 DEF ReadRounds
<1> HIDE DEF n, R, r
<1> DEFINE val(k) == q[k].values
           new(k) == val(k)[params[k]]
           c(k, x) == Count(val(k), x)
<1>4. ASSUME NEW k \in 0..n
      PROVE  /\ q[k] \in R /\ q[k].ids \in Seq(V) /\ val(k) \in [N -> V]
             /\ \A x \in P : c(k, x) \in Nat /\ val(k)[x] = <<Symbol(x, c(k, x))>>
  BY <1>2 DEF R, Reads, Readable
<1>5. val(0) = m /\ q[0].ids = <<>>
  <2>1. q[0] = [values |-> m, ids |-> <<>>, thrown |-> ""]
    BY <1>3
  <2> DEFINE first == q[0]
  <2>2. first = [values |-> m, ids |-> <<>>, thrown |-> ""]
    BY <2>1
  <2> HIDE DEF first
  <2>3. first.values = m /\ first.ids = <<>>
    BY ONLY <2>2
  <2> QED
    BY <2>3 DEF first
<1>6. ASSUME NEW k \in 1..n
      PROVE  /\ k - 1 \in 0..n /\ k \in 0..n /\ params[k] \in P
             /\ q[k].ids = Append(q[k - 1].ids, new(k))
             /\ c(k, params[k]) = c(k - 1, params[k]) + 1
             /\ \A x \in N : x # params[k] => val(k)[x] = val(k - 1)[x]
  <2>1. k - 1 \in 0..n /\ k \in 0..n /\ params[k] \in P
    BY <1>1
  <2>2. q[k - 1] \in R /\ q[k] = AfterParameter(q[k - 1], params[k])
    BY <1>2, <1>3, <2>1
  <2>3. /\ q[k].ids = Append(q[k - 1].ids, q[k].values[params[k]])
        /\ Count(q[k].values, params[k]) = Count(q[k - 1].values, params[k]) + 1
        /\ \A x \in N : x # params[k] => q[k].values[x] = q[k - 1].values[x]
    <3>1. q[k - 1] \in Reads(N, V, P) /\ params[k] \in P
      BY <2>1, <2>2 DEF R
    <3>2. CountsUp(N, V, P, q[k - 1], params[k], AfterParameter(q[k - 1], params[k]))
      BY <3>1, ReadOnce
    <3> QED
      BY <2>2, <3>2 DEF CountsUp
  <2> QED
    BY <2>1, <2>3
<1> DEFINE fine(k) ==
               /\ Len(q[k].ids) = k
               /\ \A j \in 1..k : q[k].ids[j] = new(j)
               /\ \A j \in 0..k : \A x \in P : c(j, x) <= c(k, x)
               /\ \A j \in 0..k : \A x \in N :
                     (\A h \in 1..k : h > j => params[h] # x) => val(k)[x] = val(j)[x]
           S == {k \in 0..n : fine(k)}
<1>7. fine(0)
  <2>1. Len(<<>>) = 0 /\ 1..0 = {} /\ \A j \in 0..0 : j = 0
    OBVIOUS
  <2>2. \A x \in P : c(0, x) <= c(0, x)
    <3>1. \A x \in P : c(0, x) \in Nat
      BY <1>1, <1>4
    <3> HIDE DEF c
    <3> QED
      BY <3>1
  <2> HIDE DEF c, val, new
  <2> QED
    BY <1>5, <2>1, <2>2
<1>8. ASSUME NEW k \in 1..n, fine(k - 1) PROVE fine(k)
  <2>1. /\ k - 1 \in 0..n /\ k \in 0..n /\ params[k] \in P /\ P \subseteq N
        /\ q[k].ids = Append(q[k - 1].ids, new(k))
        /\ c(k, params[k]) = c(k - 1, params[k]) + 1
        /\ \A x \in N : x # params[k] => val(k)[x] = val(k - 1)[x]
    BY <1>6
  <2>2. /\ q[k - 1].ids \in Seq(V) /\ new(k) \in V
        /\ \A x \in P : c(k - 1, x) \in Nat /\ c(k, x) \in Nat
    BY <1>4, <2>1
  <2>3. \A j \in 1..k : j \in 1..k - 1 \/ j = k
    BY <1>1
  <2>4. \A j \in 0..k : j \in 0..k - 1 \/ j = k
    BY <1>1
  <2>5. \A x \in P : x # params[k] => c(k, x) = c(k - 1, x)
    BY <2>1 DEF Count
  <2>6. \A j \in 0..k - 1 : \A x \in P : c(j, x) \in Nat
    <3>1. \A j \in 0..k - 1 : j \in 0..n
      BY <1>1
    <3> QED
      BY <1>4, <3>1
  <2> HIDE DEF c, val, new
  <2>7. Len(q[k].ids) = k /\ \A j \in 1..k : q[k].ids[j] = new(j)
    <3>1. /\ Len(q[k].ids) = Len(q[k - 1].ids) + 1
          /\ q[k].ids[Len(q[k - 1].ids) + 1] = new(k)
          /\ \A j \in 1..Len(q[k - 1].ids) : q[k].ids[j] = q[k - 1].ids[j]
      BY <2>1, <2>2
    <3>2. Len(q[k - 1].ids) = k - 1 /\ (k - 1) + 1 = k
      BY <1>8
    <3>3. \A j \in 1..k - 1 : q[k].ids[j] = new(j)
      BY <1>8, <3>1, <3>2
    <3> QED
      BY <2>3, <3>1, <3>2, <3>3
  <2>8. ASSUME NEW j \in 0..k, NEW x \in P PROVE c(j, x) <= c(k, x)
    <3>1. CASE j = k
      BY <2>2, <3>1
    <3>2. CASE j \in 0..k - 1
      <4>1. c(j, x) <= c(k - 1, x) /\ c(j, x) \in Nat
        BY <1>8, <2>6, <3>2
      <4>2. c(k - 1, x) <= c(k, x)
        <5>1. c(k - 1, x) \in Nat
          BY <2>2
        <5>2. c(k, x) = c(k - 1, x) \/ c(k, x) = c(k - 1, x) + 1
          BY <2>1, <2>5, Zenon
        <5> QED
          BY ONLY <5>1, <5>2
      <4>3. c(k - 1, x) \in Nat /\ c(k, x) \in Nat
        BY <2>2
      <4> QED
        BY ONLY <4>1, <4>2, <4>3
    <3> QED
      BY <2>4, <3>1, <3>2
  <2>9. ASSUME NEW j \in 0..k, NEW x \in N, \A h \in 1..k : h > j => params[h] # x
        PROVE  val(k)[x] = val(j)[x]
    <3>1. CASE j = k
      BY <3>1
    <3>2. CASE j \in 0..k - 1
      <4>1. k \in 1..k /\ k > j /\ \A h \in 1..k - 1 : h \in 1..k
        BY <3>2, <1>1
      <4>2. x # params[k] /\ \A h \in 1..k - 1 : h > j => params[h] # x
        BY <2>9, <4>1
      <4>3. val(k - 1)[x] = val(j)[x]
        BY <1>8, <3>2, <4>2
      <4> QED
        BY <2>1, <4>2, <4>3
    <3> QED
      BY <2>4, <3>1, <3>2
  <2> QED
    BY <2>7, <2>8, <2>9
<1> HIDE DEF fine
<1>9. \A k \in 0..n : fine(k)
  <2>1. 0 \in S
    BY <1>1, <1>7
  <2>2. \A k \in 1..n : k - 1 \in S => k \in S
    BY <1>6, <1>8
  <2> HIDE DEF S
  <2>3. 0..n \subseteq S
    BY <1>1, <2>1, <2>2, UpTo
  <2> QED
    BY <2>3 DEF S
<1>10. n \in 0..n /\ 0 \in 0..n
  BY <1>1
<1>11. /\ Len(r.ids) = n
       /\ \A k \in 1..n : r.ids[k] = new(k)
       /\ \A x \in P : c(0, x) <= c(n, x)
  <2>1. fine(n) /\ r = q[n]
    BY <1>3, <1>9, <1>10
  <2> HIDE DEF c, val, new
  <2> QED
    BY <1>10, <2>1 DEF fine
<1>12. ASSUME NEW k \in 1..n
       PROVE  /\ c(k, params[k]) \in Nat /\ new(k) = <<Symbol(params[k], c(k, params[k]))>>
              /\ new(k)[1].index = c(k, params[k])
              /\ c(0, params[k]) < c(k, params[k]) /\ c(k, params[k]) <= c(n, params[k])
              /\ \A j \in 1..n : j < k /\ params[j] = params[k] => c(j, params[j]) < c(k, params[k])
  <2>1. k \in 0..n /\ k - 1 \in 0..n /\ k \in 0..n /\ params[k] \in P /\ n \in 0..n
    BY <1>6, <1>10
  <2>2. c(k, params[k]) \in Nat /\ new(k) = <<Symbol(params[k], c(k, params[k]))>>
    BY <1>4, <2>1
  <2>3. c(k, params[k]) = c(k - 1, params[k]) + 1
    BY <1>6
  <2>4. \A j \in 0..n : c(j, params[k]) \in Nat
    BY <1>4, <2>1
  <2>5. new(k)[1].index = c(k, params[k])
    BY DEF Count
  <2> HIDE DEF c, val, new
  <2>6. \A j \in 0..k - 1 : c(j, params[k]) <= c(k - 1, params[k])
    BY <1>9, <2>1 DEF fine
  <2>7. c(k, params[k]) <= c(n, params[k])
    <3>1. k \in 0..n /\ fine(n)
      BY <1>9, <2>1
    <3> QED
      BY <2>1, <3>1 DEF fine
  <2>8. \A j \in 0..k - 1 : c(j, params[k]) < c(k, params[k])
    <3>1. \A j \in 0..k - 1 : j \in 0..n
      BY <2>1, <1>1
    <3> QED
      BY <2>1, <2>3, <2>4, <2>6, <3>1
  <2>9. 0 \in 0..k - 1 /\ \A j \in 1..n : j < k => j \in 0..k - 1
    BY <1>1
  <2> QED
    BY <2>2, <2>5, <2>7, <2>8, <2>9
<1>13. ASSUME NEW x \in N \ Range(params) PROVE val(n)[x] = val(0)[x]
  <2>1. \A h \in 1..n : params[h] # x
    BY <1>1 DEF Range
  <2>2. fine(n) /\ 0 \in 0..n
    BY <1>9, <1>10
  <2> HIDE DEF val, c, new
  <2> QED
    BY <2>1, <2>2 DEF fine
<1>14. ASSUME NEW k \in 1..n, \A j \in 1..n : j > k => params[j] # params[k]
       PROVE  val(n)[params[k]] = new(k)
  <2>1. fine(n) /\ k \in 0..n /\ params[k] \in N
    BY <1>6, <1>9, <1>10
  <2>2. val(n)[params[k]] = val(k)[params[k]]
    <3> HIDE DEF val, c, new
    <3> QED
      BY <1>14, <2>1 DEF fine
  <2> QED
    BY <2>2
<1>15. r = q[n] /\ r \in R /\ val(n) = r.values
  BY <1>2, <1>3, <1>10
<1>16. /\ \A x : c(0, x) = Count(m, x)
       /\ \A x : c(n, x) = Count(r.values, x)
  BY <1>5, <1>15
<1> HIDE DEF c, val, new
<1>17. \A k \in 1..n : r.ids[k][1].index = c(k, params[k]) /\ params[k] \in P
  BY <1>6, <1>11, <1>12
<1>18. \A k \in 1..n : /\ r.ids[k][1].index \in Nat
                       /\ r.ids[k] = <<Symbol(params[k], r.ids[k][1].index)>>
                       /\ Count(m, params[k]) < r.ids[k][1].index
                       /\ r.ids[k][1].index <= Count(r.values, params[k])
  BY <1>11, <1>12, <1>16, <1>17
<1>19. \A k \in 1..n : \A i0 \in 1..n :
          i0 < k /\ params[i0] = params[k] => r.ids[i0][1].index < r.ids[k][1].index
  BY <1>12, <1>17
<1>20. /\ \A x \in N \ Range(params) : r.values[x] = m[x]
       /\ \A k \in 1..n : (\A j \in 1..n : j > k => params[j] # params[k])
                              => r.values[params[k]] = r.ids[k]
       /\ \A x \in P : Count(m, x) <= Count(r.values, x)
  BY <1>5, <1>11, <1>13, <1>14, <1>15, <1>16
<1>21. ReadInto(N, V, P, m, params, r)
  BY <1>11, <1>15, <1>18, <1>19, <1>20 DEF n, R, ReadInto
<1> QED
  BY <1>21 DEF r

\* A symbol is a text.
LEMMA SymbolText ==
    ASSUME NEW E, NEW W, NEW x \in Identifier, NEW j \in Int, <<x, j>> \in E
    PROVE  <<Symbol(x, j)>> \in Texts(E, W)
<1> DEFINE u == Symbol(x, j)
<1>1. u = [kind |-> "symbol", name |-> x, index |-> j, sign |-> 1]
  BY DEF Symbol
<1> HIDE DEF u
<1>2. u.kind = "symbol" /\ u.name = x /\ u.index = j /\ u.sign = 1
  BY ONLY <1>1
<1>3. u = [kind |-> u.kind, name |-> u.name, index |-> u.index, sign |-> u.sign]
  BY ONLY <1>1
<1>4. /\ u.kind \in {"number", "name", "symbol"} /\ u.name \in Identifier \cup {""}
      /\ u.index \in Int /\ u.sign \in {1, -1}
  BY <1>2, Zenon
<1>5. u \in AnyTerm
  BY ONLY <1>3, <1>4 DEF AnyTerm
<1>6. u \in Terms(E, W)
  BY <1>2, <1>5 DEF Terms
<1>7. <<u>> \in Seq(Terms(E, W)) /\ <<u>> # <<>>
  BY <1>6
<1>8. <<u>> \in Texts(E, W)
  BY <1>7 DEF Texts
<1> QED
  BY <1>8 DEF u

\* The symbols of the parameters that have been read.
SymbolsOfIds(params, ids) == {<<params[k], ids[k][1].index>> : k \in 1..Len(params)}

\* The texts speak of the symbols from before and of those that were read.
ReadFrom(N, P, D, W, m, params, r) ==
    LET S == SymbolsOfIds(params, r.ids)
    IN  /\ r.thrown = "" /\ Len(r.ids) = Len(params) /\ DOMAIN r.ids = 1..Len(params)
        /\ S \subseteq Identifier \X Int
        /\ r.values \in [N -> Texts(D \cup S, W)] /\ Readable(r.values, P)
        /\ \A x \in P : /\ Count(m, x) \in Nat /\ Count(r.values, x) \in Nat
                        /\ Count(m, x) <= Count(r.values, x)
        /\ \A k \in 1..Len(params) :
              /\ r.ids[k][1].index \in Nat
              /\ Count(m, params[k]) < r.ids[k][1].index
              /\ r.ids[k][1].index <= Count(r.values, params[k])
              /\ r.ids[k] = <<Symbol(params[k], r.ids[k][1].index)>>
        /\ \A k \in 1..Len(params) : \A i0 \in 1..Len(params) :
              i0 < k /\ params[i0] = params[k] => r.ids[i0][1].index < r.ids[k][1].index
        /\ \A x \in N \ Range(params) : r.values[x] = m[x]
        /\ \A k \in 1..Len(params) :
              (\A j \in 1..Len(params) : j > k => params[j] # params[k])
                  => r.values[params[k]] = r.ids[k]

\* A parameter that is read is read at some place for the last time.
LEMMA LastPlace ==
    ASSUME NEW P, NEW params \in Seq(P), NEW x \in Range(params)
    PROVE  \E k \in 1..Len(params) :
               params[k] = x /\ \A j \in 1..Len(params) : j > k => params[j] # x
<1> DEFINE n == Len(params)
           at == {k \in 1..n : params[k] = x}
           rev == {n + 1 - j : j \in at}
<1>1. n \in Nat /\ at \in SUBSET (1..n) /\ at # {}
  BY DEF Range
<1>2. rev \in SUBSET (1..n) /\ rev # {}
  BY <1>1
<1> HIDE DEF rev, n
<1>3. PICK y \in rev : \A z \in rev : y <= z
  BY <1>1, <1>2, LeastOf
<1>4. PICK k \in at : y = n + 1 - k
  BY <1>3 DEF rev
<1>5. ASSUME NEW j \in 1..n, j > k PROVE params[j] # x
  <2> SUFFICES ASSUME params[j] = x PROVE FALSE
    OBVIOUS
  <2>1. n + 1 - j \in rev /\ k \in 1..n
    BY <1>1, <1>4 DEF rev
  <2>2. n + 1 - k <= n + 1 - j
    BY <1>3, <1>4, <2>1
  <2> QED
    BY <1>1, <1>5, <2>1, <2>2
<1> QED
  BY <1>4, <1>5 DEF n

(* What the names have after the parameters have been read.                *)
LEMMA ReadTexts ==
    ASSUME NEW N \in SUBSET Identifier, NEW P \in SUBSET N, P \cap Separated = {},
           NEW D \in SUBSET (Identifier \X Int), NEW W,
           NEW m \in [N -> Texts(D, W)], Readable(m, P), NEW params \in Seq(P)
    PROVE  ReadFrom(N, P, D, W, m, params, ReadParameters(params, m))
<1> DEFINE n == Len(params)
           r == ReadParameters(params, m)
           S == SymbolsOfIds(params, r.ids)
           V == Texts(Identifier \X Int, W)
<1>1. n \in Nat /\ \A k \in 1..n : params[k] \in P
  OBVIOUS
<1>2. \A E : \A x \in Identifier : \A j \in Int :
          <<x, j>> \in E => <<Symbol(x, j)>> \in Texts(E, W)
  BY SymbolText
<1>3. P \subseteq Identifier \ Separated /\ \A x \in P : \A j \in Nat : <<Symbol(x, j)>> \in V
  <2>1. \A x \in P : \A j \in Nat :
            x \in Identifier /\ j \in Int /\ <<x, j>> \in Identifier \X Int
    OBVIOUS
  <2> QED
    BY <1>2, <2>1
<1>4. m \in [N -> V]
  <2>1. Texts(D, W) \subseteq V
    BY MoreTexts
  <2> QED
    BY <2>1
<1> HIDE DEF V, r
<1>5. /\ r \in Reads(N, V, P)
      /\ Len(r.ids) = n
      /\ \A k \in 1..n :
            /\ r.ids[k][1].index \in Nat
            /\ r.ids[k] = <<Symbol(params[k], r.ids[k][1].index)>>
            /\ Count(m, params[k]) < r.ids[k][1].index
            /\ r.ids[k][1].index <= Count(r.values, params[k])
      /\ \A k \in 1..n : \A i0 \in 1..n :
            i0 < k /\ params[i0] = params[k] => r.ids[i0][1].index < r.ids[k][1].index
      /\ \A x \in N \ Range(params) : r.values[x] = m[x]
      /\ \A k \in 1..n :
            (\A j \in 1..n : j > k => params[j] # params[k])
                => r.values[params[k]] = r.ids[k]
      /\ \A x \in P : Count(m, x) <= Count(r.values, x)
  <2>1. ReadInto(N, V, P, m, params, r)
    BY <1>3, <1>4, ReadFacts DEF r
  <2> QED
    BY <2>1 DEF ReadInto, n
<1>6. r.values \in [N -> V] /\ r.thrown = "" /\ Readable(r.values, P)
  BY <1>5 DEF Reads
<1>7. S \subseteq Identifier \X Int
  <2>1. \A k \in 1..n : params[k] \in Identifier /\ r.ids[k][1].index \in Int
    BY <1>1, <1>5
  <2> QED
    BY <2>1 DEF SymbolsOfIds
<1>8. ASSUME NEW x \in N PROVE r.values[x] \in Texts(D \cup S, W)
  <2>1. CASE x \notin Range(params)
    <3>1. r.values[x] = m[x] /\ m[x] \in Texts(D, W)
      BY <1>5, <2>1
    <3> HIDE DEF S
    <3>2. Texts(D, W) \subseteq Texts(D \cup S, W)
      BY MoreTexts
    <3> QED
      BY <3>1, <3>2
  <2>2. CASE x \in Range(params)
    <3>1. PICK k \in 1..n : params[k] = x /\ \A j \in 1..n : j > k => params[j] # x
      BY <2>2, LastPlace
    <3>2. r.values[x] = r.ids[k]
      BY <1>5, <3>1
    <3>3. r.values[x] = <<Symbol(x, r.ids[k][1].index)>>
      BY <1>5, <3>1, <3>2
    <3>4. <<x, r.ids[k][1].index>> \in D \cup S
      BY <3>1 DEF SymbolsOfIds
    <3>5. x \in Identifier /\ r.ids[k][1].index \in Int
      BY <1>5, <3>1
    <3> QED
      BY <1>2, <3>3, <3>4, <3>5
  <2> QED
    BY <2>1, <2>2
<1>9. r.values \in [N -> Texts(D \cup S, W)]
  BY <1>6, <1>8
<1>10. \A x \in P : Count(m, x) \in Nat /\ Count(r.values, x) \in Nat
  BY <1>6 DEF Readable
<1>11. DOMAIN r.ids = 1..n
  <2>1. r.ids \in Seq(V)
    BY <1>5 DEF Reads
  <2> DEFINE x == r.ids
  <2> HIDE DEF x
  <2>2. DOMAIN x = 1..Len(x)
    BY <2>1 DEF x
  <2> QED
    BY <1>5, <2>2 DEF x
<1>12. ReadFrom(N, P, D, W, m, params, r)
  BY <1>11, <1>5, <1>6, <1>7, <1>9, <1>10 DEF ReadFrom, n
<1> QED
  BY <1>12 DEF r

\* What the assignments asg make of m: other names keep their texts.
AssignedInto(D, W, N, m, asg, now) ==
    /\ now \in [N -> Texts(D, W)]
    /\ \A x \in N : (\A k \in DOMAIN asg : asg[k].variable # x) => now[x] = m[x]

(* The assignments leave other names alone.                                *)
LEMMA AssignedKeeps ==
    ASSUME NEW D, NEW W, NEW N, NEW m \in [N -> Texts(D, W)],
           NEW asg \in Seq(ParsedAssignment),
           \A k \in DOMAIN asg : NamesOf(asg[k].value) \subseteq N \cup W
    PROVE  AssignedInto(D, W, N, m, asg, updateSymbolicValueWithAssignments(asg, m))
<1> DEFINE n == Len(asg)
           now == updateSymbolicValueWithAssignments(asg, m)
<1>1. n \in Nat /\ DOMAIN asg = 1..n
  OBVIOUS
<1>2. PICK q \in [0..n -> [N -> Texts(D, W)]] :
          /\ q[0] = m
          /\ \A k \in 1..n : q[k] = AfterAssignment(q[k - 1], asg[k])
          /\ now = q[n]
  BY AssignedTexts
<1> HIDE DEF n, now
<1>3. now \in [N -> Texts(D, W)]
  <2>1. n \in 0..n
    BY <1>1
  <2> QED
    BY <1>2, <2>1
<1>4. ASSUME NEW x \in N, \A k \in DOMAIN asg : asg[k].variable # x PROVE now[x] = m[x]
  <2> DEFINE S == {k \in 0..n : q[k][x] = m[x]}
  <2>1. 0 \in S
    BY <1>1, <1>2
  <2>2. ASSUME NEW k \in 1..n, k - 1 \in S PROVE k \in S
    <3>1. k \in 0..n /\ k - 1 \in 0..n
      BY <1>1
    <3>2. asg[k].variable # x /\ q[k - 1] \in [N -> Texts(D, W)]
      BY <1>1, <1>2, <1>4, <3>1
    <3>3. q[k] = [q[k - 1] EXCEPT ![asg[k].variable] = updateExpression(asg[k].value, q[k - 1])]
      BY <1>2 DEF AfterAssignment
    <3>4. q[k][x] = q[k - 1][x]
      BY <3>2, <3>3
    <3> QED
      BY <2>2, <3>1, <3>4
  <2> HIDE DEF S
  <2>3. 0..n \subseteq S
    BY <1>1, <2>1, <2>2, UpTo
  <2>4. n \in S
    BY <1>1, <2>3
  <2> QED
    BY <1>2, <2>4 DEF S
<1>5. AssignedInto(D, W, N, m, asg, now)
  BY <1>3, <1>4 DEF AssignedInto
<1> QED
  BY <1>5 DEF now

-----------------------------------------------------------------------------
(* Guards.                                                                 *)

Comparisons(D, W) == [left : Texts(D, W), relation : Relations, right : Texts(D, W)]
Guards(D, W) == Seq(Seq(Comparisons(D, W))) \ {<<>>}

\* The names of a guard.
NamesInGuard(g) == UNION {UNION {NamesOf(c.left) \cup NamesOf(c.right) : c \in Range(g[k])} :
                              k \in DOMAIN g}

ParsedComparison == [left : ParsedExpression, relation : Relations, right : ParsedExpression]

\* A comparison of texts.
Compared(c, m) == [c EXCEPT !.left = updateExpression(@, m), !.right = updateExpression(@, m)]

(* With more symbols there are more guards.                                *)
LEMMA MoreGuards ==
    ASSUME NEW D, NEW E, D \subseteq E, NEW W
    PROVE  Guards(D, W) \subseteq Guards(E, W)
<1>1. Texts(D, W) \subseteq Texts(E, W)
  BY MoreTexts
<1>2. Comparisons(D, W) \subseteq Comparisons(E, W)
  BY <1>1 DEF Comparisons
<1>3. \A S, T : S \subseteq T => Seq(S) \subseteq Seq(T)
  OBVIOUS
<1>4. Seq(Comparisons(D, W)) \subseteq Seq(Comparisons(E, W))
  BY <1>2, <1>3
<1>5. Seq(Seq(Comparisons(D, W))) \subseteq Seq(Seq(Comparisons(E, W)))
  BY <1>3, <1>4
<1> QED
  BY <1>5 DEF Guards

\* The comparisons of g are updated one by one.
UpdatedComparisons(D, W, N, m, g) ==
    /\ UpdatedGuard(g, m) \in Guards(D, W)
    /\ Len(UpdatedGuard(g, m)) = Len(g)
    /\ \A k \in 1..Len(g) :
          /\ Len(UpdatedGuard(g, m)[k]) = Len(g[k]) /\ Len(g[k]) \in Nat
          /\ \A j \in 1..Len(g[k]) :
                /\ UpdatedGuard(g, m)[k][j] = Compared(g[k][j], m)
                /\ g[k][j] \in ParsedComparison
                /\ NamesOf(g[k][j].left) \subseteq N \cup W
                /\ NamesOf(g[k][j].right) \subseteq N \cup W

(* The guard of a transition becomes one of texts.                         *)
LEMMA UpdatedGuardText ==
    ASSUME NEW D, NEW W, NEW N, NEW m \in [N -> Texts(D, W)],
           NEW g \in ParsedGuard, NamesInGuard(g) \subseteq N \cup W
    PROVE  UpdatedComparisons(D, W, N, m, g)
<1> DEFINE C == ParsedComparison
           T == Comparisons(D, W)
<1>1. g \in Seq(Seq(C)) /\ g # <<>>
  BY DEF ParsedGuard, ParsedComparison
<1> HIDE DEF C
<1>2. DOMAIN g = 1..Len(g) /\ Len(g) \in Nat /\ \A k \in 1..Len(g) : g[k] \in Seq(C)
  BY <1>1
<1>3. ASSUME NEW k \in 1..Len(g)
      PROVE  /\ DOMAIN g[k] = 1..Len(g[k]) /\ Len(g[k]) \in Nat
             /\ \A j \in 1..Len(g[k]) : g[k][j] \in C
  <2>1. g[k] \in Seq(C)
    BY <1>2
  <2> DEFINE gk == g[k]
  <2> HIDE DEF gk
  <2>2. gk \in Seq(C)
    BY <2>1 DEF gk
  <2>3. DOMAIN gk = 1..Len(gk) /\ Len(gk) \in Nat /\ \A j \in 1..Len(gk) : gk[j] \in C
    BY <2>2
  <2> QED
    BY <2>3 DEF gk
<1>4. ASSUME NEW k \in 1..Len(g), NEW j \in 1..Len(g[k])
      PROVE  /\ NamesOf(g[k][j].left) \subseteq N \cup W
             /\ NamesOf(g[k][j].right) \subseteq N \cup W
             /\ Compared(g[k][j], m) \in T
  <2> DEFINE c == g[k][j]
  <2>1. c \in Range(g[k])
    BY <1>3 DEF Range
  <2>2. c \in C
    BY <1>3
  <2> HIDE DEF c
  <2>3. NamesOf(c.left) \cup NamesOf(c.right) \subseteq NamesInGuard(g)
    BY <1>2, <2>1 DEF NamesInGuard
  <2>4. /\ c.left \in ParsedExpression /\ c.right \in ParsedExpression
        /\ c.relation \in Relations
        /\ c = [left |-> c.left, relation |-> c.relation, right |-> c.right]
    BY <2>2 DEF C, ParsedComparison
  <2>5. updateExpression(c.left, m) \in Texts(D, W) /\ updateExpression(c.right, m) \in Texts(D, W)
    BY <2>3, <2>4, UpdatedText
  <2>6. Compared(c, m) = [left |-> updateExpression(c.left, m), relation |-> c.relation,
                          right |-> updateExpression(c.right, m)]
    <3> DEFINE a == updateExpression(c.left, m)
               b == updateExpression(c.right, m)
               l == c.left
               r == c.right
               s == c.relation
    <3>1. c = [left |-> l, relation |-> s, right |-> r]
      BY <2>4
    <3> HIDE DEF a, b, l, r, s
    <3>2. [c EXCEPT !.left = a, !.right = b] = [left |-> a, relation |-> s, right |-> b]
      <4> DEFINE d == [c EXCEPT !.left = a]
      <4>1. [c EXCEPT !.left = a, !.right = b] = [d EXCEPT !.right = b]
        OBVIOUS
      <4>2. d = [left |-> a, relation |-> s, right |-> r]
        BY ONLY <3>1
      <4> HIDE DEF d
      <4>3. [d EXCEPT !.right = b] = [left |-> a, relation |-> s, right |-> b]
        BY ONLY <4>2
      <4> QED
        BY ONLY <4>1, <4>3
    <3> QED
      BY <3>2 DEF Compared, a, b, s
  <2>7. Compared(c, m) \in T
    BY <2>4, <2>5, <2>6 DEF Comparisons
  <2> QED
    BY <2>3, <2>7 DEF c
<1> DEFINE u == UpdatedGuard(g, m)
<1>5. u = [k \in 1..Len(g) |-> [j \in 1..Len(g[k]) |-> Compared(g[k][j], m)]]
  BY <1>2, <1>3 DEF UpdatedGuard, Compared
<1> HIDE DEF u, T
<1>6. ASSUME NEW k \in 1..Len(g)
      PROVE  /\ u[k] \in Seq(T) /\ Len(u[k]) = Len(g[k])
             /\ \A j \in 1..Len(g[k]) : u[k][j] = Compared(g[k][j], m)
  <2> DEFINE s == [j \in 1..Len(g[k]) |-> Compared(g[k][j], m)]
  <2>1. u[k] = s
    BY <1>5
  <2>2. s \in [1..Len(g[k]) -> T]
    BY <1>4
  <2>3. \A j \in 1..Len(g[k]) : s[j] = Compared(g[k][j], m)
    OBVIOUS
  <2> HIDE DEF s
  <2>4. s \in Seq(T) /\ Len(s) = Len(g[k])
    <3>1. Len(g[k]) \in Nat
      BY <1>3
    <3> QED
      BY <2>2, <3>1
  <2> QED
    BY <2>1, <2>3, <2>4
<1>7. u \in Seq(Seq(T)) /\ Len(u) = Len(g) /\ u # <<>>
  <2>1. u \in [1..Len(g) -> Seq(T)]
    BY <1>5, <1>6
  <2>2. u \in Seq(Seq(T)) /\ Len(u) = Len(g)
    BY <1>2, <2>1
  <2>3. Len(g) # 0
    BY <1>1
  <2> QED
    BY <2>2, <2>3
<1>8. u \in Guards(D, W)
  BY <1>7 DEF Guards, T
<1> QED
  BY <1>3, <1>4, <1>6, <1>7, <1>8 DEF u, C, UpdatedComparisons

(* One condition and another make a condition.                             *)
LEMMA JoinedGuard ==
    ASSUME NEW D, NEW W, NEW g \in Guards(D, W), NEW h \in Guards(D, W)
    PROVE  createNextPathCondition(g, h) \in Guards(D, W)
<1> DEFINE C == Comparisons(D, W)
           S == Seq(C)
<1>1. /\ g \in Seq(S) /\ g # <<>> /\ h \in Seq(S) /\ h # <<>>
      /\ \A x, y \in S : x \o y \in S
  BY DEF Guards
<1> HIDE DEF S
<1>2. Last(g) \in S /\ Head(h) \in S /\ Tail(h) \in Seq(S)
  BY <1>1 DEF Last
<1>3. Front(g) \in Seq(S)
  <2>1. Len(g) - 1 \in 0..Len(g) /\ Len(g) \in Nat
    BY <1>1
  <2>2. SubSeq(g, 1, Len(g) - 1) \in Seq(S)
    BY <1>1, <2>1
  <2> QED
    BY <2>2 DEF Front
<1> DEFINE mid == <<Last(g) \o Head(h)>>
<1>4. mid \in Seq(S) /\ Len(mid) = 1
  BY <1>1, <1>2
<1> HIDE DEF mid
<1> DEFINE r == Front(g) \o mid \o Tail(h)
<1>5. r \in Seq(S) /\ Len(r) = Len(Front(g)) + 1 + Len(Tail(h))
  <2> DEFINE f == Front(g)
             l == Tail(h)
  <2>1. f \in Seq(S) /\ l \in Seq(S)
    BY <1>2, <1>3
  <2> HIDE DEF f, l
  <2>2. f \o mid \in Seq(S) /\ Len(f \o mid) = Len(f) + 1
    <3>1. \A x, y \in Seq(S) : x \o y \in Seq(S) /\ Len(x \o y) = Len(x) + Len(y)
      OBVIOUS
    <3> QED
      BY ONLY <1>4, <2>1, <3>1
  <2>3. (f \o mid) \o l \in Seq(S) /\ Len((f \o mid) \o l) = Len(f \o mid) + Len(l)
    BY <2>1, <2>2
  <2> QED
    BY <2>2, <2>3 DEF f, l
<1>6. Len(Front(g)) \in Nat /\ Len(Tail(h)) \in Nat
  BY <1>2, <1>3
<1>7. r \in Seq(S) /\ r # <<>>
  BY <1>5, <1>6
<1>8. createNextPathCondition(g, h) = r
  BY DEF createNextPathCondition, mid
<1> QED
  BY <1>7, <1>8 DEF Guards, S

-----------------------------------------------------------------------------
(* The states of the execution of one product.                             *)

Outs(pr) == UNION {Range(pr.out[l]) : l \in Label}

\* The names that are read as parameters, and those that are not declared.
ReadNames(pr) == UNION {Range(t.params) : t \in Outs(pr)}
Undeclared(pr) == (UNION {Mentions(t) : t \in Outs(pr)}) \ pr.names

\* NamesInScope, of a product.
Scoped(pr) ==
    /\ ReadNames(pr) \cap Separated = {}
    /\ \A t \in Outs(pr) : \A k \in DOMAIN t.assignments :
           t.assignments[k].variable \notin ReadNames(pr)

\* The symbols that can occur where the names have the values m: of a parameter
\* those up to the one it has.
Old(pr, m) ==
    {d \in Identifier \X Int : d[1] \in ReadNames(pr) => d[2] <= Count(m, d[1])}

\* Every parameter has its newest symbol, and no text has a newer one.
Fresh(pr, n) ==
    /\ Readable(n.mapping, ReadNames(pr))
    /\ n.mapping \in [pr.names -> Texts(Old(pr, n.mapping), Undeclared(pr))]
    /\ n.pathCondition \in Guards(Old(pr, n.mapping), Undeclared(pr))

(* Names in scope, said of the product.                                    *)
LEMMA ScopedNames ==
    ASSUME TypeOK, NamesInScope
    PROVE  Scoped(product)
<1>1. product \in Products
  BY DEF TypeOK
<1>2. ReadNames(product) \subseteq product.names
  BY <1>1, TextsAssumption DEF ReadNames, Outs, Range
<1>3. ASSUME NEW t \in Outs(product), NEW k \in DOMAIN t.assignments
      PROVE  t.assignments[k].variable \notin ReadNames(product)
  <2>1. t.assignments[k] \in Range(t.assignments)
    BY DEF Range
  <2>2. \A u \in Outs(product) : \A a \in Range(t.assignments) : a.variable \notin Range(u.params)
    BY DEF NamesInScope, Outs
  <2> QED
    BY <2>1, <2>2 DEF ReadNames
<1> QED
  BY <1>2, <1>3 DEF Scoped, NamesInScope

(* Names that are declared, said of the product.                           *)
LEMMA DeclaredNames ==
    ASSUME NamesDeclared
    PROVE  Undeclared(product) = {}
<1>1. \A t \in Outs(product) : Mentions(t) \subseteq product.names
  BY DEF NamesDeclared, Outs
<1> QED
  BY <1>1 DEF Undeclared

\* What the texts of a transition are.
LEMMA ParsedTransition ==
    ASSUME NEW pr \in Products, NEW t \in Outs(pr)
    PROVE  /\ pr.names \subseteq Identifier /\ ReadNames(pr) \subseteq pr.names
           /\ t.params \in Seq(ReadNames(pr)) /\ t.params \in Seq(pr.names)
           /\ t.dataGuard \in ParsedGuard
           /\ NamesInGuard(t.dataGuard) \subseteq pr.names \cup Undeclared(pr)
           /\ t.assignments \in Seq(ParsedAssignment)
           /\ \A k \in DOMAIN t.assignments :
                 NamesOf(t.assignments[k].value) \subseteq pr.names \cup Undeclared(pr)
<1>1. PICK l \in Label : \E j \in DOMAIN pr.out[l] : t = pr.out[l][j]
  BY DEF Outs, Range
<1>2. /\ pr.names \subseteq Identifier /\ t.params \in Seq(pr.names)
      /\ t.dataGuard \in ParsedGuard /\ t.assignments \in Seq(ParsedAssignment)
  BY <1>1, TextsAssumption
<1>3. ReadNames(pr) \subseteq pr.names
  BY TextsAssumption DEF ReadNames, Outs, Range
<1>4. t.params \in Seq(ReadNames(pr))
  <2>1. t.params \in Seq(Range(t.params))
    BY <1>2, OwnRange
  <2>2. Range(t.params) \subseteq ReadNames(pr)
    BY DEF ReadNames
  <2>3. \A S, T : S \subseteq T => Seq(S) \subseteq Seq(T)
    OBVIOUS
  <2> QED
    BY <2>1, <2>2, <2>3
<1>5. Mentions(t) \subseteq pr.names \cup Undeclared(pr)
  BY DEF Undeclared
<1>6. NamesInGuard(t.dataGuard) \subseteq Mentions(t)
  BY DEF NamesInGuard, Mentions, ExpressionsOf
<1>7. \A k \in DOMAIN t.assignments : NamesOf(t.assignments[k].value) \subseteq Mentions(t)
  BY DEF Mentions, ExpressionsOf
<1> QED
  BY <1>2, <1>3, <1>4, <1>5, <1>6, <1>7

\* What reading the parameters of t makes of n, and the symbols they get.
Reading(n, t) == ReadParameters(t.params, n.mapping)
NewSymbols(n, t) == SymbolsOfIds(t.params, Reading(n, t).ids)

(* A step makes a state of a state: nothing is thrown, its texts speak of  *)
(* those of the state before and of the symbols that were read, and these  *)
(* are new.                                                                *)
LEMMA NextFresh ==
    ASSUME NEW pr \in Products, Scoped(pr), NEW t \in Outs(pr), NEW n, Fresh(pr, n)
    PROVE  Reading(n, t).thrown = "" /\ Fresh(pr, NextContent(n, t))
<1> DEFINE N == pr.names
           P == ReadNames(pr)
           W == Undeclared(pr)
           D == Old(pr, n.mapping)
           r == Reading(n, t)
           S == NewSymbols(n, t)
           next == NextContent(n, t)
           E == Old(pr, next.mapping)
<1>1. /\ N \subseteq Identifier /\ P \subseteq N /\ P \cap Separated = {}
      /\ t.params \in Seq(P)
      /\ t.dataGuard \in ParsedGuard /\ NamesInGuard(t.dataGuard) \subseteq N \cup W
      /\ t.assignments \in Seq(ParsedAssignment)
      /\ \A k \in DOMAIN t.assignments : NamesOf(t.assignments[k].value) \subseteq N \cup W
      /\ \A k \in DOMAIN t.assignments : t.assignments[k].variable \notin P
  BY ParsedTransition DEF Scoped
<1>2. /\ n.mapping \in [N -> Texts(D, W)] /\ Readable(n.mapping, P)
      /\ n.pathCondition \in Guards(D, W) /\ D \subseteq Identifier \X Int
  BY DEF Fresh, Old
<1>3. /\ r.thrown = "" /\ S \subseteq Identifier \X Int
      /\ r.values \in [N -> Texts(D \cup S, W)] /\ Readable(r.values, P)
      /\ \A x \in P : /\ Count(n.mapping, x) \in Nat /\ Count(r.values, x) \in Nat
                      /\ Count(n.mapping, x) <= Count(r.values, x)
      /\ \A k \in 1..Len(t.params) :
            r.ids[k][1].index \in Nat /\ r.ids[k][1].index <= Count(r.values, t.params[k])
  <2>1. ReadFrom(N, P, D, W, n.mapping, t.params, r)
    <3> DEFINE m == n.mapping
               params == t.params
    <3> HIDE DEF N, P, D, W, m, params
    <3>1. /\ N \in SUBSET Identifier /\ P \in SUBSET N /\ P \cap Separated = {}
          /\ D \in SUBSET (Identifier \X Int) /\ m \in [N -> Texts(D, W)]
          /\ Readable(m, P) /\ params \in Seq(P)
      BY <1>1, <1>2 DEF m, params
    <3>2. ReadFrom(N, P, D, W, m, params, ReadParameters(params, m))
      BY ONLY <3>1, ReadTexts
    <3> QED
      BY <3>2 DEF Reading, m, params
  <2> QED
    BY <2>1 DEF ReadFrom, NewSymbols
<1>4. /\ next.mapping = updateSymbolicValueWithAssignments(t.assignments, r.values)
      /\ next.pathCondition =
            createNextPathCondition(n.pathCondition, UpdatedGuard(t.dataGuard, r.values))
  BY DEF NextContent, Reading
<1> HIDE DEF N, P, W, D, r, S, next
<1>5. /\ next.mapping \in [N -> Texts(D \cup S, W)]
      /\ \A x \in N : (\A k \in DOMAIN t.assignments : t.assignments[k].variable # x)
                          => next.mapping[x] = r.values[x]
  <2> DEFINE D0 == D \cup S
             asg == t.assignments
             now == updateSymbolicValueWithAssignments(asg, r.values)
  <2>1. r.values \in [N -> Texts(D0, W)] /\ asg \in Seq(ParsedAssignment)
        /\ \A k \in DOMAIN asg : NamesOf(asg[k].value) \subseteq N \cup W
    BY <1>1, <1>3
  <2> HIDE DEF D0, asg
  <2>2. AssignedInto(D0, W, N, r.values, asg, now)
    BY <2>1, AssignedKeeps
  <2> QED
    BY <1>4, <2>2 DEF AssignedInto, D0, asg
<1>6. \A x \in P : next.mapping[x] = r.values[x] /\ Count(next.mapping, x) = Count(r.values, x)
  <2>1. \A x \in P : next.mapping[x] = r.values[x]
    BY <1>1, <1>5
  <2> QED
    BY <2>1 DEF Count
<1>7. Readable(next.mapping, P)
  BY <1>3, <1>6 DEF Readable
<1>8. D \cup S \subseteq E
  <2>1. ASSUME NEW d \in D PROVE d \in E
    <3>1. d \in Identifier \X Int /\ (d[1] \in P => d[2] <= Count(n.mapping, d[1])) /\ d[2] \in Int
      BY <1>2 DEF D, Old, P
    <3>2. d[1] \in P => d[2] <= Count(next.mapping, d[1])
      <4> SUFFICES ASSUME d[1] \in P PROVE d[2] <= Count(next.mapping, d[1])
        OBVIOUS
      <4> DEFINE a == d[2]
                 b == Count(n.mapping, d[1])
                 c == Count(r.values, d[1])
      <4>1. a \in Int /\ b \in Nat /\ c \in Nat /\ a <= b /\ b <= c
        BY <1>3, <3>1
      <4>2. a <= c
        <5> HIDE DEF a, b, c
        <5> QED
          BY <4>1
      <4> QED
        BY <1>6, <4>2
    <3> QED
      BY <3>1, <3>2 DEF Old, P
  <2>2. ASSUME NEW d \in S PROVE d \in E
    <3>1. PICK k \in 1..Len(t.params) : d = <<t.params[k], r.ids[k][1].index>>
      BY DEF S, NewSymbols, SymbolsOfIds, r
    <3>2. t.params[k] \in P
      BY <1>1
    <3>3. d[2] <= Count(next.mapping, d[1])
      BY <1>3, <1>6, <3>1, <3>2
    <3> QED
      BY <1>3, <3>3 DEF Old
  <2> QED
    BY <2>1, <2>2
<1> HIDE DEF E
<1>9. next.mapping \in [N -> Texts(E, W)]
  <2>1. Texts(D \cup S, W) \subseteq Texts(E, W)
    BY <1>8, MoreTexts
  <2> QED
    BY <1>5, <2>1
<1>10. next.pathCondition \in Guards(E, W)
  <2>1. UpdatedGuard(t.dataGuard, r.values) \in Guards(D \cup S, W)
    BY <1>1, <1>3, UpdatedGuardText DEF UpdatedComparisons
  <2>2. Guards(D \cup S, W) \subseteq Guards(E, W) /\ Guards(D, W) \subseteq Guards(E, W)
    BY <1>8, MoreGuards
  <2>3. n.pathCondition \in Guards(E, W) /\ UpdatedGuard(t.dataGuard, r.values) \in Guards(E, W)
    BY <1>2, <2>1, <2>2
  <2> QED
    BY <1>4, <2>3, JoinedGuard
<1>11. Fresh(pr, next)
  BY <1>7, <1>9, <1>10 DEF Fresh, N, P, W, E
<1> QED
  BY <1>3, <1>11 DEF r, next

\* The root of the tree.
LEMMA InitialFresh ==
    ASSUME product \in Products, NEW zone
    PROVE  Fresh(product, InitialState(zone))
<1> DEFINE n == InitialState(zone)
           P == ReadNames(product)
           W == Undeclared(product)
           m == n.mapping
           D == Old(product, m)
<1>1. /\ m = [x \in product.names |-> <<Symbol(x, 0)>>] /\ n.pathCondition = << <<>> >>
      /\ product.names \subseteq Identifier /\ P \subseteq product.names
  <2>1. P \subseteq product.names
    BY TextsAssumption DEF ReadNames, Outs, Range
  <2>2. product.names \subseteq Identifier
    BY TextsAssumption
  <2>3. m = [x \in product.names |-> <<Symbol(x, 0)>>] /\ n.pathCondition = << <<>> >>
    BY DEF InitialState, GUARD_TRUE
  <2> QED
    BY <2>1, <2>2, <2>3
<1> HIDE DEF n, P, W
<1>2. \A x \in product.names : m[x] = <<Symbol(x, 0)>> /\ Count(m, x) = 0
  BY <1>1 DEF Count, Symbol
<1>3. Readable(m, P)
  <2>1. \A x \in P : m[x] = <<Symbol(x, 0)>> /\ Count(m, x) = 0
    BY <1>1, <1>2
  <2>2. \A x \in P : Count(m, x) \in Nat /\ m[x] = <<Symbol(x, Count(m, x))>>
    BY <2>1
  <2> QED
    BY <2>2 DEF Readable
<1>4. \A x \in product.names : <<x, 0>> \in D
  BY <1>1, <1>2 DEF Old
<1> HIDE DEF D, m
<1>5. m \in [product.names -> Texts(D, W)]
  <2>1. \A x \in product.names : <<Symbol(x, 0)>> \in Texts(D, W)
    <3> SUFFICES ASSUME NEW x \in product.names PROVE <<Symbol(x, 0)>> \in Texts(D, W)
      OBVIOUS
    <3>1. x \in Identifier /\ 0 \in Int /\ <<x, 0>> \in D
      BY <1>1, <1>4
    <3> QED
      BY ONLY <3>1, SymbolText
  <2> QED
    BY <1>1, <2>1
<1>6. << <<>> >> \in Guards(D, W)
  <2>1. \A S : << <<>> >> \in Seq(Seq(S)) \ {<<>>}
    OBVIOUS
  <2> QED
    BY <2>1 DEF Guards
<1> QED
  BY <1>1, <1>3, <1>5, <1>6 DEF Fresh, n, P, W, m, D

(* The names of a product in scope are read without an exception, and the  *)
(* texts of every state speak of symbols that have been given out.         *)
NInv ==
    NamesInScope =>
        /\ status \notin {"SymbolicValueNameException", "NumberFormatException"}
        /\ \A k \in 1..Len(zset) : Fresh(product, zset[k])

\* What is fresh does not depend on the chain.
LEMMA FreshContent ==
    ASSUME NEW pr, NEW n, NEW c, Content(n) = c, Fresh(pr, c)
    PROVE  Fresh(pr, n)
<1>1. c.mapping = n.mapping /\ c.pathCondition = n.pathCondition
  BY DEF Content
<1> QED
  BY <1>1 DEF Fresh

\* The next transition is one of the product.
LEMMA TransitionTried ==
    ASSUME XInv, InLoop, NamesInScope, NInv
    PROVE  /\ current \in 1..Len(zset) /\ Scoped(product) /\ product \in Products
           /\ OutTransitions[i] \in Outs(product) /\ Fresh(product, zset[current])
           /\ Read = Reading(zset[current], OutTransitions[i])
<1>1. /\ current \in 1..Len(zset) /\ i \in DOMAIN OutTransitions
      /\ zset[current].location \in Label /\ product \in Products /\ TypeOK
  <2>1. current \in 1..Len(zset) /\ i \in DOMAIN OutTransitions
    BY TakenNow
  <2>2. TypeOK /\ product \in Products /\ zset[current].location \in Label
    BY <2>1, Chains DEF XInv, IInv, TypeOK, Shaped
  <2> QED
    BY <2>1, <2>2
<1>2. OutTransitions[i] \in Outs(product)
  BY <1>1 DEF Outs, OutTransitions, CurrentZSES, Range
<1>3. Scoped(product)
  BY <1>1, ScopedNames
<1>4. Fresh(product, zset[current])
  BY <1>1 DEF NInv
<1> QED
  BY <1>1, <1>2, <1>3, <1>4 DEF Read, Reading, CurrentZSES

(* Every step of the walk keeps it.                                        *)
THEOREM NamesRead == Spec => []NInv
<1>1. Init => NInv
  BY DEF Init, NInv
<1>2. XInv /\ NInv /\ [Next]_vars => NInv'
  <2> SUFFICES ASSUME XInv, NInv, [Next]_vars, NamesInScope' PROVE
          /\ status' \notin {"SymbolicValueNameException", "NumberFormatException"}
          /\ \A k \in 1..Len(zset') : Fresh(product', zset'[k])
    BY DEF NInv
  <2>1. product' = product
    BY DEF Next, vars, Start, NoSolver, Raise, Pick, Throw, Extend, Cut, Silent, Continue,
           Leave, Return
  <2>2. NamesInScope
    BY <2>1 DEF NamesInScope
  <2>3. /\ status \notin {"SymbolicValueNameException", "NumberFormatException"}
        /\ \A k \in 1..Len(zset) : Fresh(product, zset[k])
    BY <2>2 DEF NInv
  <2>4. product \in Products /\ Len(zset) \in Nat
    BY Chains DEF XInv, IInv, TypeOK, Shaped
  <2>5. ASSUME zset' = zset, status' \in {status, "executing", "returned"}
        PROVE  /\ status' \notin {"SymbolicValueNameException", "NumberFormatException"}
               /\ \A k \in 1..Len(zset') : Fresh(product', zset'[k])
    BY <2>1, <2>3, <2>5
  <2>6. ASSUME zset' = <<>>, status' = "NullPointerException"
        PROVE  /\ status' \notin {"SymbolicValueNameException", "NumberFormatException"}
               /\ \A k \in 1..Len(zset') : Fresh(product', zset'[k])
    <3>1. Len(zset') = 0
      BY <2>6
    <3> QED
      BY <2>6, <3>1
  <2>7. CASE Start
    <3>1. PICK zone \in {InitialZone, NoZone} : zset' = <<InitialState(zone)>>
      BY <2>7 DEF Start
    <3>2. status' = "executing"
      BY <2>7 DEF Start
    <3>3. Fresh(product, InitialState(zone))
      BY <2>4, InitialFresh
    <3>4. Len(zset') = 1 /\ zset'[1] = InitialState(zone)
      BY <3>1
    <3> QED
      BY <2>1, <3>2, <3>3, <3>4
  <2>8. CASE NoSolver
    BY <2>6, <2>8 DEF NoSolver, Raise
  <2>9. CASE Pick
    BY <2>5, <2>9 DEF Pick
  <2>10. CASE Throw
    <3>1. InLoop
      BY <2>10 DEF Throw
    <3>2. Read.thrown = ""
      <4> DEFINE n == zset[current]
                 t == OutTransitions[i]
      <4>1. /\ t \in Outs(product) /\ Scoped(product) /\ Fresh(product, n)
            /\ Read = Reading(n, t)
        BY <2>2, <3>1, TransitionTried
      <4> HIDE DEF n, t
      <4>2. Reading(n, t).thrown = ""
        BY <2>4, <4>1, NextFresh
      <4> QED
        BY <4>1, <4>2
    <3>3. Raise("NullPointerException")
      BY <2>10, <3>2 DEF Throw
    <3> QED
      BY <2>6, <3>3 DEF Raise
  <2>11. CASE Extend
    <3> DEFINE n == zset[current]
               t == OutTransitions[i]
    <3>1. InLoop /\ zset' = Append(zset, nextZSES) /\ status' = status
      BY <2>11 DEF Extend, Solved, Continue
    <3>2. /\ t \in Outs(product) /\ Scoped(product) /\ Fresh(product, n)
          /\ Content(nextZSES) = NextContent(n, t)
      BY <2>2, <3>1, TransitionTried, TakenNow
    <3> HIDE DEF n, t
    <3>3. Fresh(product, NextContent(n, t))
      BY <2>4, <3>2, NextFresh
    <3>4. Fresh(product, nextZSES)
      BY <3>2, <3>3, FreshContent
    <3> DEFINE next == nextZSES
    <3> HIDE DEF next
    <3>5. /\ Len(zset') = Len(zset) + 1 /\ zset'[Len(zset) + 1] = next
          /\ \A k \in 1..Len(zset) : zset'[k] = zset[k]
      <4>1. zset' = Append(zset, next) /\ zset \in Seq(Range(zset))
        BY <3>1, Chains DEF next, XInv, Shaped, Range
      <4> QED
        BY <4>1
    <3>6. \A k \in 1..Len(zset') : k \in 1..Len(zset) \/ k = Len(zset) + 1
      BY <2>4, <3>5
    <3>7. \A k \in 1..Len(zset') : Fresh(product, zset'[k])
      BY <2>3, <3>4, <3>5, <3>6 DEF next
    <3> QED
      BY <2>1, <2>3, <3>1, <3>7
  <2>12. CASE Cut
    BY <2>5, <2>12 DEF Cut, Continue
  <2>13. CASE Silent
    BY <2>5, <2>13 DEF Silent, Continue
  <2>14. CASE Leave
    BY <2>5, <2>14 DEF Leave
  <2>15. CASE Return
    BY <2>5, <2>15 DEF Return
  <2>16. CASE UNCHANGED vars
    BY <2>5, <2>16 DEF vars
  <2> QED
    BY <2>7, <2>8, <2>9, <2>10, <2>11, <2>12, <2>13, <2>14, <2>15, <2>16 DEF Next
<1> QED
  BY <1>1, <1>2, Exploration, PTL DEF Spec

(* "If there is some problem with variable and action parameter names":    *)
(* the exceptions of the names are thrown only if a name contains the      *)
(* separator or a parameter is assigned to.                                *)
THEOREM OnlyForNames == GenerationSpec => []ThrownOnlyForNames
<1>1. NInv => ThrownOnlyForNames
  BY DEF NInv, ThrownOnlyForNames
<1> QED
  BY <1>1, NamesRead, ImplementsWalk, PTL

-----------------------------------------------------------------------------
(* What texts mean.                                                        *)

SymbolSum(e, v) == Sum(e, LAMBDA u : UnderSymbols(v, u))
StateSum(e, s)  == Sum(e, LAMBDA u : UnderState(s, u))

\* The sum of the numbers w.
Total(n, w, t) ==
    \E q \in [0..n -> Int] : /\ q[0] = 0 /\ q[n] = t
                             /\ \A k \in 1..n : q[k] = q[k - 1] + w[k]

\* h is the function by which Folds defines a sum of n numbers, if they are w.
Summing(h, n, w) ==
    \A s \in SUBSET (1..n) : h[s] = IF s = {} THEN 0 ELSE h[s \ {Max(s)}] + w[Max(s)]

\* There is such a function.
LEMMA SummingExists ==
    ASSUME NEW n \in Nat, NEW w \in [1..n -> Int]
    PROVE  \E h \in [SUBSET (1..n) -> Int] : Summing(h, n, w)
<1> DEFINE F == [z \in (1..n) \X Int |-> z[2] + w[z[1]]]
<1>1. F \in [(1..n) \X Int -> Int] /\ 0 \in Int
  OBVIOUS
<1>2. \A k \in 1..n : \A x \in Int : F[<<k, x>>] = x + w[k]
  OBVIOUS
<1> HIDE DEF F
<1>3. PICK h \in [SUBSET (1..n) -> Int] : Folding(h, n, F, 0)
  BY <1>1, FoldExists
<1>4. ASSUME NEW s \in SUBSET (1..n)
      PROVE  h[s] = IF s = {} THEN 0 ELSE h[s \ {Max(s)}] + w[Max(s)]
  <2>1. CASE s = {}
    BY <1>3, <2>1 DEF Folding
  <2>2. CASE s # {}
    <3>1. Max(s) \in 1..n
      BY <2>2, LastOf
    <3>2. h[s \ {Max(s)}] \in Int
      BY <1>3
    <3>3. h[s] = F[<<Max(s), h[s \ {Max(s)}]>>]
      BY <1>3, <2>2 DEF Folding
    <3> QED
      BY <1>2, <2>2, <3>1, <3>2, <3>3
  <2> QED
    BY <2>1, <2>2
<1>5. Summing(h, n, w)
  BY <1>4 DEF Summing
<1> QED
  BY <1>5

\* Its value for all of them is their sum.
LEMMA Summed ==
    ASSUME NEW n \in Nat, NEW w \in [1..n -> Int], NEW h, Summing(h, n, w)
    PROVE  Total(n, w, h[1..n])
<1> DEFINE F == [z \in (1..n) \X Int |-> z[2] + w[z[1]]]
<1>1. F \in [(1..n) \X Int -> Int] /\ 0 \in Int
  OBVIOUS
<1>2. \A k \in 1..n : \A x \in Int : F[<<k, x>>] = x + w[k]
  OBVIOUS
<1> HIDE DEF F
<1>3. FoldingIn(h, n, Int, F, 0)
  <2>1. \A s \in SUBSET (1..n) : s # {} => Max(s) \in 1..n
    BY LastOf
  <2>2. h[{}] = 0
    <3>1. {} \in SUBSET (1..n)
      OBVIOUS
    <3> QED
      BY <3>1 DEF Summing
  <2> QED
    BY <1>2, <2>1, <2>2 DEF FoldingIn, Summing
<1>4. PICK q \in [0..n -> Int] : Rounds(q, n, F, 0, h[1..n])
  BY <1>1, <1>3, FoldSteps
<1>5. /\ q[0] = 0 /\ q[n] = h[1..n]
      /\ \A k \in 1..n : q[k] = q[k - 1] + w[k]
  <2>1. \A k \in 1..n : k - 1 \in 0..n
    OBVIOUS
  <2>2. \A k \in 1..n : q[k - 1] \in Int
    BY <1>4, <2>1
  <2> QED
    BY <1>2, <1>4, <2>2 DEF Rounds
<1> QED
  BY <1>4, <1>5 DEF Total

\* The sum of a text.
LEMMA SymbolTotal ==
    ASSUME NEW n \in Nat, NEW w \in [1..n -> Int], NEW e, DOMAIN e = 1..n, NEW v,
           \A k \in 1..n : e[k].sign * UnderSymbols(v, e[k]) = w[k]
    PROVE  Total(n, w, SymbolSum(e, v))
<1> DEFINE IsFold(h) == h = [s \in SUBSET DOMAIN e |->
                                IF s = {} THEN 0
                                ELSE LET x == Max(s)
                                     IN  h[s \ {x}] + e[x].sign * UnderSymbols(v, e[x])]
           g == CHOOSE h : IsFold(h)
<1>1. SymbolSum(e, v) = g[1..n]
  BY DEF SymbolSum, Sum, FoldLeft, MapThenFoldSet
<1>2. \A s \in SUBSET (1..n) : s # {} =>
          Max(s) \in 1..n /\ e[Max(s)].sign * UnderSymbols(v, e[Max(s)]) = w[Max(s)]
  BY LastOf
<1>3. \E h : IsFold(h)
  <2>1. PICK h \in [SUBSET (1..n) -> Int] : Summing(h, n, w)
    BY SummingExists
  <2>2. \A s \in SUBSET (1..n) :
            h[s] = IF s = {} THEN 0
                   ELSE LET x == Max(s) IN h[s \ {x}] + e[x].sign * UnderSymbols(v, e[x])
    BY <1>2, <2>1 DEF Summing
  <2>3. h = [s \in SUBSET (1..n) |-> h[s]]
    BY <2>1
  <2>4. IsFold(h)
    BY <2>2, <2>3
  <2> QED
    BY <2>4
<1>4. IsFold(g)
  BY <1>3
<1> HIDE DEF g
<1>5. \A s \in SUBSET (1..n) :
          g[s] = IF s = {} THEN 0
                 ELSE LET x == Max(s) IN g[s \ {x}] + e[x].sign * UnderSymbols(v, e[x])
  BY <1>4
<1> HIDE DEF IsFold
<1>6. Summing(g, n, w)
  BY <1>2, <1>5 DEF Summing
<1> QED
  BY <1>1, <1>6, Summed

\* The sum of an expression.
LEMMA StateTotal ==
    ASSUME NEW n \in Nat, NEW w \in [1..n -> Int], NEW e, DOMAIN e = 1..n, NEW v,
           \A k \in 1..n : e[k].sign * UnderState(v, e[k]) = w[k]
    PROVE  Total(n, w, StateSum(e, v))
<1> DEFINE IsFold(h) == h = [s \in SUBSET DOMAIN e |->
                                IF s = {} THEN 0
                                ELSE LET x == Max(s)
                                     IN  h[s \ {x}] + e[x].sign * UnderState(v, e[x])]
           g == CHOOSE h : IsFold(h)
<1>1. StateSum(e, v) = g[1..n]
  BY DEF StateSum, Sum, FoldLeft, MapThenFoldSet
<1>2. \A s \in SUBSET (1..n) : s # {} =>
          Max(s) \in 1..n /\ e[Max(s)].sign * UnderState(v, e[Max(s)]) = w[Max(s)]
  BY LastOf
<1>3. \E h : IsFold(h)
  <2>1. PICK h \in [SUBSET (1..n) -> Int] : Summing(h, n, w)
    BY SummingExists
  <2>2. \A s \in SUBSET (1..n) :
            h[s] = IF s = {} THEN 0
                   ELSE LET x == Max(s) IN h[s \ {x}] + e[x].sign * UnderState(v, e[x])
    BY <1>2, <2>1 DEF Summing
  <2>3. h = [s \in SUBSET (1..n) |-> h[s]]
    BY <2>1
  <2>4. IsFold(h)
    BY <2>2, <2>3
  <2> QED
    BY <2>4
<1>4. IsFold(g)
  BY <1>3
<1> HIDE DEF g
<1>5. \A s \in SUBSET (1..n) :
          g[s] = IF s = {} THEN 0
                 ELSE LET x == Max(s) IN g[s \ {x}] + e[x].sign * UnderState(v, e[x])
  BY <1>4
<1> HIDE DEF IsFold
<1>6. Summing(g, n, w)
  BY <1>2, <1>5 DEF Summing
<1> QED
  BY <1>1, <1>6, Summed

\* There is one sum only.
LEMMA OneTotal ==
    ASSUME NEW n \in Nat, NEW w, NEW t, NEW u, Total(n, w, t), Total(n, w, u)
    PROVE  t = u
<1>1. PICK p \in [0..n -> Int] : /\ p[0] = 0 /\ p[n] = t
                                 /\ \A k \in 1..n : p[k] = p[k - 1] + w[k]
  BY DEF Total
<1>2. PICK q \in [0..n -> Int] : /\ q[0] = 0 /\ q[n] = u
                                 /\ \A k \in 1..n : q[k] = q[k - 1] + w[k]
  BY DEF Total
<1> DEFINE S == {k \in 0..n : p[k] = q[k]}
<1>3. 0 \in S
  BY <1>1, <1>2
<1>4. ASSUME NEW k \in 1..n, k - 1 \in S PROVE k \in S
  <2>1. p[k] = p[k - 1] + w[k] /\ q[k] = q[k - 1] + w[k] /\ p[k - 1] = q[k - 1] /\ k \in 0..n
    BY <1>1, <1>2, <1>4
  <2> QED
    BY <2>1
<1> HIDE DEF S
<1>5. 0..n \subseteq S
  BY <1>3, <1>4, UpTo
<1>6. n \in S
  BY <1>5
<1> QED
  BY <1>1, <1>2, <1>6 DEF S

\* The sum of numbers and of more numbers.
LEMMA TotalOfBoth ==
    ASSUME NEW n \in Nat, NEW w, NEW t, Total(n, w, t),
           NEW k \in Nat, NEW x \in [1..k -> Int], NEW u, Total(k, x, u),
           NEW y, \A j \in 1..n : y[j] = w[j], \A j \in 1..k : y[n + j] = x[j]
    PROVE  Total(n + k, y, t + u)
<1>1. PICK p \in [0..n -> Int] : /\ p[0] = 0 /\ p[n] = t
                                 /\ \A j \in 1..n : p[j] = p[j - 1] + w[j]
  BY DEF Total
<1>2. PICK q \in [0..k -> Int] : /\ q[0] = 0 /\ q[k] = u
                                 /\ \A j \in 1..k : q[j] = q[j - 1] + x[j]
  BY DEF Total
<1> DEFINE r == [j \in 0..n + k |-> IF j <= n THEN p[j] ELSE t + q[j - n]]
<1>3. t \in Int /\ \A j \in 0..n + k : (j <= n => j \in 0..n) /\ (~(j <= n) => j - n \in 0..k)
  BY <1>1
<1>4. r \in [0..n + k -> Int]
  <2>1. \A j \in 0..n + k : (j <= n => p[j] \in Int) /\ (~(j <= n) => t + q[j - n] \in Int)
    BY <1>1, <1>2, <1>3
  <2> QED
    BY <2>1
<1>5. r[0] = 0 /\ r[n + k] = t + u
  <2>1. r[0] = 0
    BY <1>1
  <2>2. CASE k = 0
    BY <1>1, <1>2, <2>2
  <2>3. CASE k # 0
    <3>1. ~(n + k <= n) /\ (n + k) - n = k /\ n + k \in 0..n + k
      BY <2>3
    <3> QED
      BY <1>2, <2>1, <3>1
  <2> QED
    BY <2>1, <2>2, <2>3
<1>6. ASSUME NEW j \in 1..n + k PROVE r[j] = r[j - 1] + y[j]
  <2>1. j \in 0..n + k /\ j - 1 \in 0..n + k
    OBVIOUS
  <2>2. CASE j <= n
    <3>1. j \in 1..n /\ j - 1 <= n
      BY <2>2
    <3> QED
      BY <1>1, <2>1, <2>2, <3>1
  <2>3. CASE j = n + 1
    <3>1. j - n = 1 /\ 1 \in 1..k /\ ~(j <= n) /\ j - 1 = n /\ n <= n
      BY <2>3
    <3>2. r[j] = t + q[1] /\ r[j - 1] = t
      BY <1>1, <2>1, <3>1
    <3>3. q[1] = q[0] + x[1] /\ y[n + 1] = x[1] /\ q[0] = 0 /\ 1 - 1 = 0
      BY <1>2, <3>1
    <3>4. q[1] \in Int /\ x[1] \in Int
      BY <1>2, <3>1
    <3>5. x[1] = q[1]
      <4>1. 0 + x[1] = q[1]
        BY <3>3
      <4> QED
        BY <3>4, <4>1
    <3> QED
      BY <2>3, <3>2, <3>3, <3>5
  <2>4. CASE j > n + 1
    <3>1. j - n \in 1..k /\ ~(j <= n) /\ ~(j - 1 <= n) /\ (j - 1) - n = (j - n) - 1 /\ n + (j - n) = j
      BY <2>4
    <3>2. r[j] = t + q[j - n] /\ r[j - 1] = t + q[(j - n) - 1]
      BY <2>1, <3>1
    <3>3. q[j - n] = q[(j - n) - 1] + x[j - n] /\ y[j] = x[j - n]
      BY <1>2, <3>1
    <3>4. q[(j - n) - 1] \in Int /\ x[j - n] \in Int
      <4>1. (j - n) - 1 \in 0..k
        BY <3>1
      <4> QED
        BY <1>2, <3>1, <4>1
    <3> DEFINE a == q[(j - n) - 1]
               b == x[j - n]
    <3>5. r[j] = t + (a + b) /\ r[j - 1] = t + a /\ y[j] = b
      BY <3>2, <3>3
    <3> HIDE DEF a, b, r
    <3>6. a \in Int /\ b \in Int /\ t \in Int
      BY <1>3, <3>4 DEF a, b
    <3> QED
      BY ONLY <3>5, <3>6
  <2> QED
    BY <2>2, <2>3, <2>4
<1> HIDE DEF r
<1> QED
  BY <1>4, <1>5, <1>6 DEF Total

\* A term of a text has a value.
LEMMA TermValue ==
    ASSUME NEW D, NEW E, D \subseteq E, NEW v \in [E -> Int], NEW u \in Terms(D, {})
    PROVE  u.sign * UnderSymbols(v, u) \in Int
<1>1. /\ u.kind \in {"number", "name", "symbol"} /\ u.index \in Int /\ u.sign \in {1, -1}
      /\ u.kind = "symbol" => <<u.name, u.index>> \in E
      /\ u.kind # "name"
  BY DEF Terms, AnyTerm
<1>2. UnderSymbols(v, u) \in Int
  BY <1>1 DEF UnderSymbols
<1> DEFINE a == u.sign
           b == UnderSymbols(v, u)
<1>3. a \in Int /\ b \in Int
  BY <1>1, <1>2
<1> HIDE DEF a, b
<1>4. a * b \in Int
  BY <1>3
<1> QED
  BY <1>4 DEF a, b

\* The numbers of a text.
Weights(e, v) == [k \in 1..Len(e) |-> e[k].sign * UnderSymbols(v, e[k])]

LEMMA TextSum ==
    ASSUME NEW D, NEW E, D \subseteq E, NEW v \in [E -> Int], NEW e \in Seq(Terms(D, {}))
    PROVE  /\ Weights(e, v) \in [1..Len(e) -> Int]
           /\ Total(Len(e), Weights(e, v), SymbolSum(e, v))
           /\ SymbolSum(e, v) \in Int
<1> DEFINE n == Len(e)
           w == Weights(e, v)
           T == Terms(D, {})
<1>1. n \in Nat /\ DOMAIN e = 1..n /\ \A k \in 1..n : e[k] \in T
  OBVIOUS
<1>2. \A k \in 1..n : e[k].sign * UnderSymbols(v, e[k]) \in Int
  BY <1>1, TermValue
<1>3. w \in [1..n -> Int] /\ \A k \in 1..n : e[k].sign * UnderSymbols(v, e[k]) = w[k]
  BY <1>2 DEF Weights
<1> HIDE DEF n, w
<1>4. Total(n, w, SymbolSum(e, v))
  BY <1>1, <1>3, SymbolTotal
<1>5. SymbolSum(e, v) \in Int
  BY <1>1, <1>4 DEF Total
<1> QED
  BY <1>3, <1>4, <1>5 DEF n, w

\* The sum of two texts.
LEMMA SumOfBoth ==
    ASSUME NEW D, NEW E, D \subseteq E, NEW v \in [E -> Int],
           NEW e \in Seq(Terms(D, {})), NEW f \in Seq(Terms(D, {}))
    PROVE  SymbolSum(e \o f, v) = SymbolSum(e, v) + SymbolSum(f, v)
<1> DEFINE T == Terms(D, {})
           n == Len(e)
           k == Len(f)
           g == e \o f
           y == Weights(g, v)
<1>1. /\ e \in Seq(T) /\ f \in Seq(T) /\ n \in Nat /\ k \in Nat
      /\ g \in Seq(T) /\ Len(g) = n + k
      /\ \A j \in 1..n : g[j] = e[j]
      /\ \A j \in 1..k : g[n + j] = f[j]
  OBVIOUS
<1> HIDE DEF T, g
<1>2. /\ Weights(e, v) \in [1..n -> Int] /\ Total(n, Weights(e, v), SymbolSum(e, v))
      /\ Weights(f, v) \in [1..k -> Int] /\ Total(k, Weights(f, v), SymbolSum(f, v))
      /\ Total(n + k, y, SymbolSum(g, v))
  BY <1>1, TextSum DEF T
<1>3. /\ \A j \in 1..n : y[j] = Weights(e, v)[j]
      /\ \A j \in 1..k : y[n + j] = Weights(f, v)[j]
  <2>1. /\ \A j \in 1..n : j \in 1..n + k
        /\ \A j \in 1..k : n + j \in 1..n + k
    BY <1>1
  <2> QED
    BY <1>1, <2>1 DEF Weights
<1> HIDE DEF n, k, y
<1>4. Total(n + k, y, SymbolSum(e, v) + SymbolSum(f, v))
  BY <1>1, <1>2, <1>3, TotalOfBoth
<1>5. n + k \in Nat
  BY <1>1
<1>6. SymbolSum(g, v) = SymbolSum(e, v) + SymbolSum(f, v)
  BY <1>2, <1>4, <1>5, OneTotal
<1> QED
  BY <1>6 DEF g

\* The sum of one term.
LEMMA SumOfOne ==
    ASSUME NEW D, NEW E, D \subseteq E, NEW v \in [E -> Int], NEW u \in Terms(D, {})
    PROVE  SymbolSum(<<u>>, v) = u.sign * UnderSymbols(v, u)
<1> DEFINE e == <<u>>
           x == u.sign * UnderSymbols(v, u)
           T == Terms(D, {})
<1>1. e \in Seq(T) /\ Len(e) = 1 /\ e[1] = u
  OBVIOUS
<1>2. x \in Int
  BY TermValue
<1> HIDE DEF e, T
<1>3. Total(1, Weights(e, v), SymbolSum(e, v)) /\ Weights(e, v)[1] = x
  <2>1. Total(Len(e), Weights(e, v), SymbolSum(e, v))
    BY <1>1, TextSum DEF T
  <2>2. Weights(e, v)[1] = x
    BY <1>1 DEF Weights
  <2> QED
    BY <1>1, <2>1, <2>2
<1> HIDE DEF x
<1>4. SymbolSum(e, v) = 0 + x
  <2>1. PICK q \in [0..1 -> Int] :
            /\ q[0] = 0 /\ q[1] = SymbolSum(e, v)
            /\ \A k \in 1..1 : q[k] = q[k - 1] + Weights(e, v)[k]
    BY <1>3 DEF Total
  <2>2. 1 \in 1..1 /\ 1 - 1 = 0
    OBVIOUS
  <2>3. q[1] = q[1 - 1] + Weights(e, v)[1]
    BY <2>1, <2>2
  <2> QED
    BY <1>3, <2>1, <2>2, <2>3
<1>5. SymbolSum(e, v) = x
  BY <1>2, <1>4
<1> QED
  BY <1>5 DEF e, x

\* The values of the names under a valuation of the symbols.
Meaning(m, v) == [x \in DOMAIN m |-> SymbolSum(m[x], v)]

(* What replaces a token means what the token does.                        *)
LEMMA SplicedSum ==
    ASSUME NEW D, NEW E, D \subseteq E, NEW v \in [E -> Int], NEW N,
           NEW m \in [N -> Texts(D, {})], NEW u \in ParsedTerm,
           u.kind = "name" => u.name \in N /\ u.sign = 1
    PROVE  /\ SymbolSum(Spliced(u, m), v) = u.sign * UnderState(Meaning(m, v), u)
           /\ u.sign * UnderState(Meaning(m, v), u) \in Int
<1> DEFINE T == Terms(D, {})
           text == m[u.name]
           s == Meaning(m, v)
<1>1. DOMAIN m = N /\ (u.kind = "number" \/ u.kind = "name")
  <2>1. DOMAIN m = N
    OBVIOUS
  <2>2. u.kind = "number" \/ u.kind = "name"
    BY DEF ParsedTerm
  <2> QED
    BY <2>1, <2>2
<1>2. CASE u.kind = "name"
  <2>1. u.name \in N /\ u.sign = 1
    BY <1>2
  <2>2. text \in Seq(T) /\ text # <<>>
    BY <2>1 DEF Texts
  <2>3. Spliced(u, m) = text
    <3> DEFINE h == Head(text)
               w == [h EXCEPT !.sign = @ * 1]
    <3>1. Spliced(u, m) = <<[h EXCEPT !.sign = @ * u.sign]>> \o Tail(text)
      BY <1>1, <1>2, <2>1 DEF Spliced
    <3>2. h \in T /\ <<h>> \o Tail(text) = text
      <4> HIDE DEF text, T
      <4> QED
        BY <2>2
    <3>3. h = [kind |-> h.kind, name |-> h.name, index |-> h.index, sign |-> h.sign]
          /\ h.sign \in {1, -1}
      <4>1. h \in AnyTerm
        BY <3>2 DEF Terms
      <4> HIDE DEF h
      <4> QED
        BY <4>1 DEF AnyTerm
    <3> HIDE DEF h
    <3>4. h.sign * 1 = h.sign
      BY <3>3
    <3>5. [h EXCEPT !.sign = @ * 1] = h
      BY <3>3, <3>4
    <3> HIDE DEF text
    <3> QED
      BY <2>1, <3>1, <3>2, <3>5
  <2>4. SymbolSum(text, v) \in Int
    <3> HIDE DEF text
    <3> QED
      BY <2>2, TextSum DEF T
  <2>5. UnderState(s, u) = SymbolSum(text, v)
    BY <1>1, <1>2, <2>1 DEF UnderState, Meaning
  <2> DEFINE a == SymbolSum(text, v)
  <2> HIDE DEF a
  <2>6. 1 * a = a
    BY <2>4 DEF a
  <2>7. u.sign * UnderState(s, u) = a
    BY <2>1, <2>5, <2>6 DEF a
  <2> QED
    BY <2>3, <2>4, <2>7 DEF a
<1>3. CASE u.kind = "number"
  <2>1. u \in [kind : {"number"}, name : {""}, index : Int, sign : {1, -1}]
    BY <1>3 DEF ParsedTerm
  <2>2. u \in T
    BY <1>3, <2>1 DEF Terms, AnyTerm
  <2>3. Spliced(u, m) = <<u>>
    BY <1>3 DEF Spliced
  <2>4. SymbolSum(<<u>>, v) = u.sign * UnderSymbols(v, u) /\ u.sign * UnderSymbols(v, u) \in Int
    BY <2>2, SumOfOne, TermValue
  <2>5. UnderState(s, u) = UnderSymbols(v, u)
    BY <1>3 DEF UnderState, UnderSymbols
  <2> QED
    BY <2>3, <2>4, <2>5
<1> QED
  BY <1>1, <1>2, <1>3

\* The text of e means what e does in the state the texts of m stand for.
SameMeaning(D, E, N, v, m, e) ==
    /\ SymbolSum(updateExpression(e, m), v) = StateSum(e, Meaning(m, v))
    /\ StateSum(e, Meaning(m, v)) \in Int

(* Substitution does not change what an expression means.                  *)
LEMMA UpdatedSum ==
    ASSUME NEW D, NEW E, D \subseteq E, NEW v \in [E -> Int], NEW N,
           NEW m \in [N -> Texts(D, {})], NEW e \in ParsedExpression,
           NamesOf(e) \subseteq N, Unsigned(e)
    PROVE  SameMeaning(D, E, N, v, m, e)
<1> DEFINE n == Len(e)
           T == Terms(D, {})
           s == Meaning(m, v)
           w == [k \in 1..n |-> e[k].sign * UnderState(s, e[k])]
           IsText(f) == /\ f[1] = Spliced(e[1], m)
                        /\ \A j \in 1..n : j # 1 => f[j] = f[j - 1] \o Spliced(e[j], m)
                        /\ updateExpression(e, m) = f[n]
<1>1. /\ DOMAIN e = 1..n /\ n \in Nat /\ 1 \in 1..n
      /\ \A j \in 1..n : /\ e[j] \in ParsedTerm
                         /\ e[j].kind = "name" => e[j].name \in N
                         /\ Spliced(e[j], m) \in Texts(D, {})
      /\ \E f \in [1..n -> Seq(T)] : IsText(f)
  <2>1. NamesOf(e) \subseteq N \cup {}
    OBVIOUS
  <2>2. TokenByToken(D, {}, N, m, e)
    BY <2>1, UpdatedText
  <2> QED
    BY <2>2 DEF TokenByToken
<1>2. PICK f \in [1..n -> Seq(T)] : IsText(f)
  BY <1>1
<1>3. ASSUME NEW j \in 1..n
      PROVE  /\ SymbolSum(Spliced(e[j], m), v) = e[j].sign * UnderState(s, e[j])
             /\ e[j].sign * UnderState(s, e[j]) \in Int
             /\ Spliced(e[j], m) \in Seq(T)
  <2>1. e[j].kind = "name" => e[j].name \in N /\ e[j].sign = 1
    BY <1>1 DEF Unsigned
  <2>2. e[j] \in ParsedTerm
    BY <1>1
  <2>3. Spliced(e[j], m) \in Seq(T)
    BY <1>1 DEF Texts
  <2> DEFINE u == e[j]
  <2> HIDE DEF u
  <2>4. u \in ParsedTerm /\ (u.kind = "name" => u.name \in N /\ u.sign = 1)
    BY <2>1, <2>2 DEF u
  <2>5. /\ SymbolSum(Spliced(u, m), v) = u.sign * UnderState(s, u)
        /\ u.sign * UnderState(s, u) \in Int
    BY <2>4, SplicedSum
  <2> QED
    BY <2>3, <2>5 DEF u
<1>4. /\ w \in [1..n -> Int] /\ \A j \in 1..n : e[j].sign * UnderState(s, e[j]) = w[j]
      /\ \A j \in 1..n : SymbolSum(Spliced(e[j], m), v) = w[j]
  BY <1>3
<1> HIDE DEF n, s, w, T
<1>5. Total(n, w, StateSum(e, s))
  BY <1>1, <1>4, StateTotal
<1>6. PICK q \in [0..n -> Int] : /\ q[0] = 0 /\ q[n] = StateSum(e, s)
                                 /\ \A k \in 1..n : q[k] = q[k - 1] + w[k]
  BY <1>5 DEF Total
<1> DEFINE S == {j \in 0..n : j = 0 \/ SymbolSum(f[j], v) = q[j]}
<1>7. 0 \in S
  BY <1>1
<1>8. ASSUME NEW j \in 1..n, j - 1 \in S PROVE j \in S
  <2>1. j \in 0..n /\ q[j] = q[j - 1] + w[j] /\ SymbolSum(Spliced(e[j], m), v) = w[j]
        /\ w[j] \in Int
    BY <1>1, <1>4, <1>6
  <2>2. CASE j = 1
    <3>1. f[1] = Spliced(e[1], m)
      BY <1>2
    <3>2. q[1] = 0 + w[1]
      BY <1>6, <2>1, <2>2
    <3> QED
      BY <2>1, <2>2, <3>1, <3>2
  <2>3. CASE j # 1
    <3>1. j - 1 # 0 /\ j - 1 \in 1..n
      BY <1>1, <2>3
    <3>2. SymbolSum(f[j - 1], v) = q[j - 1]
      BY <1>8, <3>1
    <3>3. f[j] = f[j - 1] \o Spliced(e[j], m)
      BY <1>2, <2>3
    <3>4. f[j - 1] \in Seq(T) /\ Spliced(e[j], m) \in Seq(T)
      BY <1>2, <1>3, <3>1
    <3>5. SymbolSum(f[j], v) = SymbolSum(f[j - 1], v) + SymbolSum(Spliced(e[j], m), v)
      BY <3>3, <3>4, SumOfBoth DEF T
    <3> QED
      BY <2>1, <3>2, <3>5
  <2> QED
    BY <2>2, <2>3
<1> HIDE DEF S
<1>9. 0..n \subseteq S
  BY <1>1, <1>7, <1>8, UpTo
<1>10. SymbolSum(f[n], v) = q[n]
  <2>1. n \in 0..n /\ n # 0
    BY <1>1
  <2> QED
    BY <1>9, <2>1 DEF S
<1>11. q[n] \in Int
  BY <1>1, <1>6
<1> QED
  BY <1>2, <1>6, <1>10, <1>11 DEF s, SameMeaning

\* A condition holds under a valuation; a guard holds in a state.
SymbolHolds(g, v) == Holds(g, LAMBDA u : UnderSymbols(v, u))
StateHolds(g, s)  == Holds(g, LAMBDA u : UnderState(s, u))

LEMMA Holding ==
    ASSUME NEW g, NEW v
    PROVE  /\ SymbolHolds(g, v) <=>
                 \E k \in DOMAIN g : \A c \in Range(g[k]) :
                     Compare(SymbolSum(c.left, v), c.relation, SymbolSum(c.right, v))
           /\ StateHolds(g, v) <=>
                 \E k \in DOMAIN g : \A c \in Range(g[k]) :
                     Compare(StateSum(c.left, v), c.relation, StateSum(c.right, v))
  BY DEF SymbolHolds, StateHolds, Holds, SymbolSum, StateSum

\* The comparisons of a guard have no minus before a name.
UnsignedGuard(g) ==
    \A c \in UNION {Range(g[k]) : k \in DOMAIN g} : Unsigned(c.left) /\ Unsigned(c.right)

(* Substitution does not change what a guard means.                        *)
LEMMA GuardMeans ==
    ASSUME NEW D, NEW E, D \subseteq E, NEW v \in [E -> Int], NEW N,
           NEW m \in [N -> Texts(D, {})], NEW g \in ParsedGuard,
           NamesInGuard(g) \subseteq N, UnsignedGuard(g)
    PROVE  SymbolHolds(UpdatedGuard(g, m), v) <=> StateHolds(g, Meaning(m, v))
<1> DEFINE u == UpdatedGuard(g, m)
           s == Meaning(m, v)
<1>1. /\ u \in Guards(D, {}) /\ Len(u) = Len(g)
      /\ \A k \in 1..Len(g) :
            /\ Len(u[k]) = Len(g[k]) /\ Len(g[k]) \in Nat
            /\ \A j \in 1..Len(g[k]) :
                  /\ u[k][j] = Compared(g[k][j], m)
                  /\ g[k][j] \in ParsedComparison
                  /\ NamesOf(g[k][j].left) \subseteq N
                  /\ NamesOf(g[k][j].right) \subseteq N
  <2>1. NamesInGuard(g) \subseteq N \cup {}
    OBVIOUS
  <2>2. UpdatedComparisons(D, {}, N, m, g)
    BY <2>1, UpdatedGuardText
  <2> QED
    BY <2>2 DEF UpdatedComparisons
<1>2. /\ DOMAIN g = 1..Len(g) /\ DOMAIN u = 1..Len(g)
      /\ \A k \in 1..Len(g) : DOMAIN g[k] = 1..Len(g[k]) /\ DOMAIN u[k] = 1..Len(g[k])
  <2> DEFINE C == ParsedComparison
             T == Comparisons(D, {})
  <2>1. g \in Seq(Seq(C)) /\ u \in Seq(Seq(T))
    BY <1>1 DEF ParsedGuard, ParsedComparison, Guards
  <2> HIDE DEF C, T, u
  <2>2. DOMAIN g = 1..Len(g) /\ DOMAIN u = 1..Len(u)
        /\ (\A k \in 1..Len(g) : g[k] \in Seq(C)) /\ \A k \in 1..Len(u) : u[k] \in Seq(T)
    BY <2>1
  <2>3. \A S : \A x \in Seq(S) : DOMAIN x = 1..Len(x)
    OBVIOUS
  <2> QED
    BY <1>1, <2>2, <2>3
<1> HIDE DEF u
<1>3. ASSUME NEW k \in 1..Len(g), NEW j \in 1..Len(g[k])
      PROVE  LET c == g[k][j]
                 d == u[k][j]
             IN  Compare(SymbolSum(d.left, v), d.relation, SymbolSum(d.right, v))
                     <=> Compare(StateSum(c.left, s), c.relation, StateSum(c.right, s))
  <2> DEFINE c == g[k][j]
             d == u[k][j]
  <2>1. /\ d = Compared(c, m) /\ c \in ParsedComparison
        /\ NamesOf(c.left) \subseteq N /\ NamesOf(c.right) \subseteq N
    BY <1>1
  <2>2. Unsigned(c.left) /\ Unsigned(c.right)
    <3>1. c \in Range(g[k]) /\ k \in DOMAIN g
      BY <1>2 DEF Range
    <3> QED
      BY <3>1 DEF UnsignedGuard
  <2> HIDE DEF c, d, s
  <2>3. /\ c.left \in ParsedExpression /\ c.right \in ParsedExpression
        /\ d.left = updateExpression(c.left, m) /\ d.right = updateExpression(c.right, m)
        /\ d.relation = c.relation
    BY <2>1 DEF ParsedComparison, Compared
  <2>4. /\ SymbolSum(d.left, v) = StateSum(c.left, s)
        /\ SymbolSum(d.right, v) = StateSum(c.right, s)
    <3>1. ASSUME NEW e \in {c.left, c.right} PROVE SymbolSum(updateExpression(e, m), v) = StateSum(e, s)
      <4>1. e \in ParsedExpression /\ NamesOf(e) \subseteq N /\ Unsigned(e)
        BY <2>1, <2>2, <2>3
      <4>2. D \subseteq E /\ v \in [E -> Int] /\ m \in [N -> Texts(D, {})]
        OBVIOUS
      <4>3. SameMeaning(D, E, N, v, m, e)
        BY ONLY <4>1, <4>2, UpdatedSum
      <4> QED
        BY <4>3 DEF s, SameMeaning
    <3> QED
      BY <2>3, <3>1
  <2>5. Compare(SymbolSum(d.left, v), d.relation, SymbolSum(d.right, v))
            <=> Compare(StateSum(c.left, s), c.relation, StateSum(c.right, s))
    BY <2>3, <2>4
  <2> QED
    BY <2>5 DEF c, d
<1> HIDE DEF s
<1>4. ASSUME NEW k \in 1..Len(g)
      PROVE  (\A d \in Range(u[k]) :
                  Compare(SymbolSum(d.left, v), d.relation, SymbolSum(d.right, v)))
                <=> \A c \in Range(g[k]) :
                        Compare(StateSum(c.left, s), c.relation, StateSum(c.right, s))
  <2>1. /\ Range(u[k]) = {u[k][j] : j \in 1..Len(g[k])}
        /\ Range(g[k]) = {g[k][j] : j \in 1..Len(g[k])}
    BY <1>2 DEF Range
  <2> QED
    BY <1>3, <2>1
<1>5. SymbolHolds(u, v) <=> StateHolds(g, s)
  BY <1>2, <1>4, Holding
<1> QED
  BY <1>5 DEF u, s

\* The elements of two lists.
LEMMA RangeOfBoth ==
    ASSUME NEW S, NEW x \in Seq(S), NEW y \in Seq(S)
    PROVE  Range(x \o y) = Range(x) \cup Range(y)
<1>1. /\ DOMAIN x = 1..Len(x) /\ DOMAIN y = 1..Len(y) /\ Len(x) \in Nat /\ Len(y) \in Nat
      /\ DOMAIN (x \o y) = 1..Len(x) + Len(y)
      /\ \A j \in 1..Len(x) : (x \o y)[j] = x[j]
      /\ \A j \in 1..Len(y) : (x \o y)[Len(x) + j] = y[j]
  OBVIOUS
<1> DEFINE z == x \o y
<1> HIDE DEF z
<1>2. ASSUME NEW j \in DOMAIN z PROVE z[j] \in Range(x) \cup Range(y)
  <2>1. j \in 1..Len(x) \/ (j - Len(x) \in 1..Len(y) /\ Len(x) + (j - Len(x)) = j)
    BY <1>1 DEF z
  <2> QED
    BY <1>1, <2>1 DEF Range, z
<1>3. \A j \in DOMAIN x : j \in DOMAIN z /\ z[j] = x[j]
  BY <1>1 DEF z
<1>4. \A j \in DOMAIN y : Len(x) + j \in DOMAIN z /\ z[Len(x) + j] = y[j]
  BY <1>1 DEF z
<1>5. Range(z) = Range(x) \cup Range(y)
  BY <1>2, <1>3, <1>4 DEF Range
<1> QED
  BY <1>5 DEF z

(* "previous AND dataGuard" holds where both do, if AND joins conjunctions. *)
LEMMA JoinedMeans ==
    ASSUME NEW D, NEW W, NEW g \in Guards(D, W), NEW h \in Guards(D, W), NEW v,
           g = GUARD_TRUE \/ (Len(g) = 1 /\ Len(h) = 1)
    PROVE  SymbolHolds(createNextPathCondition(g, h), v)
               <=> SymbolHolds(g, v) /\ SymbolHolds(h, v)
<1> DEFINE S == Seq(Comparisons(D, W))
           r == createNextPathCondition(g, h)
<1>1. g \in Seq(S) /\ h \in Seq(S) /\ g # <<>> /\ h # <<>>
  BY DEF Guards
<1>2. Head(h) = h[1] /\ h[1] \in S /\ Tail(h) \in Seq(S) /\ <<h[1]>> \o Tail(h) = h
  <2> HIDE DEF S
  <2> QED
    BY <1>1
<1>3. CASE g = GUARD_TRUE
  <2>1. Front(g) = <<>> /\ Last(g) = <<>>
    BY <1>3 DEF GUARD_TRUE, Front, Last
  <2>2. <<>> \o h[1] = h[1]
    <3> DEFINE b == h[1]
    <3>1. b \in S
      BY <1>2
    <3> HIDE DEF b
    <3>2. <<>> \o b = b
      BY <3>1
    <3> QED
      BY <3>2 DEF b
  <2>3. r = <<>> \o <<h[1]>> \o Tail(h)
    BY <1>2, <2>1, <2>2 DEF createNextPathCondition
  <2>4. <<>> \o <<h[1]>> = <<h[1]>>
    OBVIOUS
  <2>5. r = h
    BY <1>2, <2>3, <2>4
  <2>6. SymbolHolds(g, v)
    <3>1. 1 \in DOMAIN GUARD_TRUE /\ GUARD_TRUE[1] = <<>> /\ Range(<<>>) = {}
      BY DEF GUARD_TRUE, Range
    <3> QED
      BY <1>3, <3>1, Holding
  <2> QED
    BY <2>5, <2>6
<1>4. CASE Len(g) = 1 /\ Len(h) = 1
  <2> DEFINE a == g[1]
             b == h[1]
             C == Comparisons(D, W)
  <2>1. /\ a \in Seq(C) /\ b \in Seq(C) /\ Front(g) = <<>> /\ Last(g) = a /\ Tail(h) = <<>>
        /\ DOMAIN g = {1} /\ DOMAIN h = {1}
    <3> HIDE DEF C
    <3>1. Tail(h) = <<>> /\ DOMAIN g = {1} /\ DOMAIN h = {1} /\ a \in Seq(C) /\ b \in Seq(C)
      <4>1. ASSUME NEW Q, NEW x \in Seq(Q), Len(x) = 1
            PROVE  Tail(x) = <<>> /\ DOMAIN x = {1} /\ x[1] \in Q
        <5>1. Tail(x) = <<>>
          <6> DEFINE y == Tail(x)
          <6>1. Len(y) = 0 /\ y \in Seq(Q)
            BY <4>1
          <6> HIDE DEF y
          <6>2. y = <<>>
            BY <6>1
          <6> QED
            BY <6>2 DEF y
        <5>2. DOMAIN x = {1}
          BY <4>1
        <5>3. x[1] \in Q
          <6>1. \A k \in 1..Len(x) : x[k] \in Q
            OBVIOUS
          <6>2. 1 \in 1..Len(x)
            BY <4>1
          <6> QED
            BY <6>1, <6>2
        <5> QED
          BY <5>1, <5>2, <5>3
      <4> QED
        BY <1>1, <1>4, <4>1 DEF C
    <3>2. Front(g) = <<>> /\ Last(g) = a
      <4>1. SubSeq(g, 1, 1 - 1) = <<>>
        BY <1>1
      <4> QED
        BY <1>4, <4>1 DEF Front, Last
    <3> QED
      BY <3>1, <3>2
  <2>2. r = <<a \o b>>
    <3>1. r = <<>> \o <<a \o b>> \o <<>>
      BY <1>2, <2>1 DEF createNextPathCondition
    <3>2. \A y : <<>> \o <<y>> \o <<>> = <<y>>
      OBVIOUS
    <3> QED
      BY <3>1, <3>2
  <2>3. Range(a \o b) = Range(a) \cup Range(b)
    <3> HIDE DEF a, b, C
    <3> QED
      BY <2>1, RangeOfBoth
  <2>4. DOMAIN r = {1} /\ r[1] = a \o b
    <3> DEFINE x == a \o b
               y == <<x>>
    <3> HIDE DEF x
    <3>1. DOMAIN y = {1} /\ y[1] = x
      OBVIOUS
    <3> QED
      BY <2>2, <3>1 DEF x
  <2> HIDE DEF r, a, b
  <2>5. SymbolHolds(r, v) <=> \A c \in Range(a) \cup Range(b) :
            Compare(SymbolSum(c.left, v), c.relation, SymbolSum(c.right, v))
    BY <2>3, <2>4, Holding
  <2>6. /\ SymbolHolds(g, v) <=> \A c \in Range(a) :
               Compare(SymbolSum(c.left, v), c.relation, SymbolSum(c.right, v))
        /\ SymbolHolds(h, v) <=> \A c \in Range(b) :
               Compare(SymbolSum(c.left, v), c.relation, SymbolSum(c.right, v))
    BY <2>1, Holding DEF a, b
  <2>7. SymbolHolds(r, v) <=> SymbolHolds(g, v) /\ SymbolHolds(h, v)
    BY <2>5, <2>6
  <2> QED
    BY <2>7 DEF r
<1> QED
  BY <1>3, <1>4

\* An expression has a value in every state.
LEMMA StateNumber ==
    ASSUME NEW N, NEW s \in [N -> Int], NEW e \in ParsedExpression, NamesOf(e) \subseteq N
    PROVE  StateSum(e, s) \in Int
<1> DEFINE n == Len(e)
           w == [k \in 1..n |-> e[k].sign * UnderState(s, e[k])]
<1>1. n \in Nat /\ DOMAIN e = 1..n /\ \A k \in 1..n : e[k] \in ParsedTerm
  <2>1. e \in Seq(ParsedTerm)
    BY DEF ParsedExpression
  <2> QED
    BY <2>1
<1>2. ASSUME NEW k \in 1..n PROVE e[k].sign * UnderState(s, e[k]) \in Int
  <2>1. e[k] \in ParsedTerm /\ (e[k].kind = "name" => e[k].name \in N)
    BY <1>1 DEF NamesOf
  <2> DEFINE u == e[k]
             a == u.sign
             b == UnderState(s, u)
  <2>2. u \in ParsedTerm /\ (u.kind = "name" => u.name \in N)
    BY <2>1
  <2> HIDE DEF u
  <2>3. /\ u.kind \in {"number", "name"} /\ u.index \in Int /\ u.sign \in {1, -1}
    <3>1. CASE u \in [kind : {"number"}, name : {""}, index : Int, sign : {1, -1}]
      BY <3>1
    <3>2. CASE u \in [kind : {"name"}, name : Identifier, index : {0}, sign : {1, -1}]
      BY <3>2
    <3> QED
      BY <2>2, <3>1, <3>2 DEF ParsedTerm
  <2>4. a \in Int /\ b \in Int
    BY <2>2, <2>3 DEF UnderState
  <2> HIDE DEF a, b
  <2>5. a * b \in Int
    BY <2>4
  <2> QED
    BY <2>5 DEF a, b, u
<1>3. w \in [1..n -> Int] /\ \A k \in 1..n : e[k].sign * UnderState(s, e[k]) = w[k]
  BY <1>2
<1> HIDE DEF n, w
<1>4. Total(n, w, StateSum(e, s))
  BY <1>1, <1>3, StateTotal
<1> QED
  BY <1>1, <1>4 DEF Total

\* What one assignment makes of a state.
AssignedState(s, a) == [s EXCEPT ![a.variable] = StateSum(a.value, s)]

\* q has the states after the rounds of the loop, the last one is r.
StateRounds(q, asg, s, r) ==
    /\ q[0] = s /\ q[Len(asg)] = r
    /\ \A k \in 1..Len(asg) : q[k] = AssignedState(q[k - 1], asg[k])

(* The assignments of a transition, one after the other.                   *)
LEMMA AssignedStates ==
    ASSUME NEW N, NEW s \in [N -> Int], NEW t,
           t.assignments \in Seq(ParsedAssignment),
           \A k \in DOMAIN t.assignments : NamesOf(t.assignments[k].value) \subseteq N
    PROVE  \E q \in [0..Len(t.assignments) -> [N -> Int]] :
               StateRounds(q, t.assignments, s, AfterAssigning(t, s))
<1> DEFINE asg == t.assignments
           n == Len(asg)
           M == [N -> Int]
<1>1. n \in Nat /\ DOMAIN asg = 1..n
  OBVIOUS
<1> DEFINE F == [z \in (1..n) \X M |-> AssignedState(z[2], asg[z[1]])]
           IsFold(h) == h = [c \in SUBSET DOMAIN asg |->
                                IF c = {} THEN s
                                ELSE LET x == Max(c) IN AssignedState(h[c \ {x}], asg[x])]
           g == CHOOSE h : IsFold(h)
<1>2. \A k \in 1..n : \A r \in M : AssignedState(r, asg[k]) \in M
  <2>1. ASSUME NEW k \in 1..n, NEW r \in M PROVE AssignedState(r, asg[k]) \in M
    <3>1. asg[k] \in ParsedAssignment
      BY ONLY <1>1, asg \in Seq(ParsedAssignment), k \in 1..n
    <3>2. NamesOf(asg[k].value) \subseteq N /\ asg[k].value \in ParsedExpression
      BY <1>1, <3>1 DEF ParsedAssignment
    <3>3. StateSum(asg[k].value, r) \in Int
      BY <3>2, StateNumber
    <3> QED
      BY <3>3 DEF AssignedState
  <2> QED
    BY <2>1
<1>3. AfterAssigning(t, s) = g[1..n]
  BY <1>1 DEF AfterAssigning, FoldLeft, MapThenFoldSet, AssignedState, StateSum
<1> HIDE DEF n, M
<1>4. F \in [(1..n) \X M -> M]
  BY <1>2
<1>5. \A k \in 1..n : \A r \in M : F[<<k, r>>] = AssignedState(r, asg[k])
  OBVIOUS
<1> HIDE DEF F
<1>6. s \in M
  BY DEF M
<1>7. \E h : IsFold(h)
  <2>1. PICK h \in [SUBSET (1..n) -> M] : Folding(h, n, F, s)
    BY <1>1, <1>4, <1>6, FoldExists
  <2>2. ASSUME NEW c \in SUBSET (1..n)
        PROVE  h[c] = IF c = {} THEN s
                      ELSE LET x == Max(c) IN AssignedState(h[c \ {x}], asg[x])
    <3>1. CASE c = {}
      BY <2>1, <3>1 DEF Folding
    <3>2. CASE c # {}
      <4>1. Max(c) \in 1..n
        BY <1>1, <3>2, LastOf
      <4>2. h[c \ {Max(c)}] \in M
        BY <2>1
      <4>3. h[c] = F[<<Max(c), h[c \ {Max(c)}]>>]
        BY <2>1, <3>2 DEF Folding
      <4> QED
        BY <1>5, <3>2, <4>1, <4>2, <4>3
    <3> QED
      BY <3>1, <3>2
  <2>3. IsFold(h)
    <3>1. h = [c \in SUBSET (1..n) |-> h[c]]
      BY <2>1
    <3> QED
      BY <1>1, <2>2, <3>1
  <2> QED
    BY <2>3
<1>8. IsFold(g)
  BY <1>7
<1> HIDE DEF g
<1>9. \A c \in SUBSET (1..n) :
          g[c] = IF c = {} THEN s ELSE LET x == Max(c) IN AssignedState(g[c \ {x}], asg[x])
  BY <1>1, <1>8
<1> HIDE DEF IsFold
<1>10. FoldingIn(g, n, M, F, s)
  <2>1. \A c \in SUBSET (1..n) : c # {} => Max(c) \in 1..n
    BY <1>1, LastOf
  <2>2. {} \in SUBSET (1..n)
    OBVIOUS
  <2>3. g[{}] = s
    BY <1>9, <2>2
  <2> QED
    BY <1>5, <1>9, <2>1, <2>3 DEF FoldingIn
<1>11. PICK q \in [0..n -> M] : Rounds(q, n, F, s, g[1..n])
  BY <1>1, <1>4, <1>6, <1>10, FoldSteps
<1>12. /\ q[0] = s /\ q[n] = g[1..n]
       /\ \A k \in 1..n : q[k] = AssignedState(q[k - 1], asg[k])
  <2>1. \A k \in 1..n : k - 1 \in 0..n
    BY <1>1
  <2>2. \A k \in 1..n : q[k - 1] \in M
    BY <1>11, <2>1
  <2> QED
    BY <1>5, <1>11, <2>2 DEF Rounds
<1>13. StateRounds(q, asg, s, AfterAssigning(t, s))
  BY <1>3, <1>12 DEF StateRounds, n
<1> QED
  BY <1>11, <1>13 DEF n, M

\* The assignments of t to the texts m mean those to the states m stands for.
SameAssigned(D, E, N, m, t, v) ==
    Meaning(updateSymbolicValueWithAssignments(t.assignments, m), v)
        = AfterAssigning(t, Meaning(m, v))

(* The assignments in texts mean those of the transition.                  *)
LEMMA AssignedMeans ==
    ASSUME NEW D, NEW E, D \subseteq E, NEW v \in [E -> Int], NEW N,
           NEW m \in [N -> Texts(D, {})], NEW t,
           t.assignments \in Seq(ParsedAssignment),
           \A k \in DOMAIN t.assignments : /\ NamesOf(t.assignments[k].value) \subseteq N
                                           /\ Unsigned(t.assignments[k].value)
    PROVE  SameAssigned(D, E, N, m, t, v)
<1> DEFINE asg == t.assignments
           n == Len(asg)
           M == [N -> Texts(D, {})]
           s == Meaning(m, v)
           now == updateSymbolicValueWithAssignments(asg, m)
<1>1. /\ n \in Nat /\ DOMAIN asg = 1..n
      /\ asg \in Seq(ParsedAssignment)
      /\ \A k \in 1..n : asg[k] \in ParsedAssignment
      /\ \A k \in 1..n : /\ NamesOf(asg[k].value) \subseteq N
                         /\ Unsigned(asg[k].value)
  OBVIOUS
<1> HIDE DEF asg
<1>2. PICK q \in [0..n -> M] :
          /\ q[0] = m
          /\ \A k \in 1..n : q[k] = AfterAssignment(q[k - 1], asg[k])
          /\ now = q[n]
  <2> DEFINE W == {}
  <2>1. /\ m \in [N -> Texts(D, W)] /\ asg \in Seq(ParsedAssignment)
        /\ \A k \in DOMAIN asg : NamesOf(asg[k].value) \subseteq N \cup W
    BY <1>1
  <2> HIDE DEF W, now
  <2>2. \E q \in [0..Len(asg) -> [N -> Texts(D, W)]] :
           /\ q[0] = m
           /\ \A k \in 1..Len(asg) : q[k] = AfterAssignment(q[k - 1], asg[k])
           /\ updateSymbolicValueWithAssignments(asg, m) = q[Len(asg)]
    BY ONLY <2>1, AssignedTexts
  <2> QED
    BY <2>2 DEF W, now
<1>3. \A x \in M : Meaning(x, v) \in [N -> Int] /\ DOMAIN x = N
  <2>1. ASSUME NEW x \in M, NEW y \in N PROVE SymbolSum(x[y], v) \in Int
    <3>1. x[y] \in Seq(Terms(D, {}))
      BY DEF Texts
    <3> QED
      BY <3>1, TextSum
  <2> QED
    BY <2>1 DEF Meaning
<1>4. PICK p \in [0..n -> [N -> Int]] : StateRounds(p, asg, s, AfterAssigning(t, s))
  BY <1>1, <1>3, AssignedStates DEF asg
<1>5. /\ p[0] = s /\ p[n] = AfterAssigning(t, s)
      /\ \A k \in 1..n : p[k] = AssignedState(p[k - 1], asg[k])
  BY <1>4 DEF StateRounds
<1> HIDE DEF now, s, n
<1> DEFINE S == {k \in 0..n : Meaning(q[k], v) = p[k]}
<1>6. 0 \in S
  BY <1>1, <1>2, <1>5 DEF s
<1>7. ASSUME NEW k \in 1..n, k - 1 \in S PROVE k \in S
  <2> DEFINE a == asg[k]
             x == q[k - 1]
             y == updateExpression(a.value, x)
  <2>1. /\ k \in 0..n /\ x \in M /\ q[k] = [x EXCEPT ![a.variable] = y]
        /\ Meaning(x, v) = p[k - 1]
        /\ p[k] = [p[k - 1] EXCEPT ![a.variable] = StateSum(a.value, p[k - 1])]
    <3>1. k \in 0..n /\ k - 1 \in 0..n
      BY <1>1
    <3>2. q[k - 1] \in M
      BY <1>2, <3>1
    <3>3. q[k] = AfterAssignment(q[k - 1], asg[k]) /\ p[k] = AssignedState(p[k - 1], asg[k])
      BY <1>2, <1>5
    <3>4. Meaning(q[k - 1], v) = p[k - 1]
      BY <1>7
    <3> QED
      BY <3>1, <3>2, <3>3, <3>4 DEF AfterAssignment, AssignedState
  <2>2. /\ a.value \in ParsedExpression /\ NamesOf(a.value) \subseteq N /\ Unsigned(a.value)
    BY <1>1 DEF ParsedAssignment
  <2> HIDE DEF a, x
  <2>3. SameMeaning(D, E, N, v, x, a.value)
    BY <2>1, <2>2, UpdatedSum
  <2>4. SymbolSum(y, v) = StateSum(a.value, p[k - 1])
    BY <2>1, <2>3 DEF SameMeaning
  <2> HIDE DEF y
  <2>5. Meaning([x EXCEPT ![a.variable] = y], v)
            = [Meaning(x, v) EXCEPT ![a.variable] = SymbolSum(y, v)]
    BY DEF Meaning
  <2> QED
    BY <2>1, <2>4, <2>5
<1> HIDE DEF S
<1>8. 0..n \subseteq S
  BY <1>1, <1>6, <1>7, UpTo
<1>9. n \in S
  <2>1. n \in 0..n
    BY <1>1
  <2> QED
    BY <1>8, <2>1
<1> QED
  BY <1>2, <1>5, <1>9 DEF S, now, s, asg, SameAssigned

\* The names have the values they have after reading the symbols ids.
SameRead(N, m, values, v, t, ids) ==
    Meaning(values, v)
        = AfterReading(t, Meaning(m, v), [k \in DOMAIN ids |-> SymbolSum(ids[k], v)])

\* The names that are read have the symbols ids, the others keep their texts.
SameNames(N, m, values, t, ids) ==
    /\ DOMAIN m = N /\ DOMAIN values = N /\ DOMAIN ids = 1..Len(t.params)
    /\ \A x \in N \ Range(t.params) : values[x] = m[x]
    /\ \A k \in 1..Len(t.params) :
           (\A j \in 1..Len(t.params) : j > k => t.params[j] # t.params[k])
               => values[t.params[k]] = ids[k]

\* Reading in texts means reading: a name has the value that was read for it last.
LEMMA ReadingMeans ==
    ASSUME NEW N, NEW m, NEW values, NEW v, NEW t, t.params \in Seq(N), NEW ids,
           SameNames(N, m, values, t, ids)
    PROVE  SameRead(N, m, values, v, t, ids)
<1> DEFINE params == t.params
           r == [k \in DOMAIN ids |-> SymbolSum(ids[k], v)]
           last(x, k) == params[k] = x /\ \A j \in DOMAIN params : j > k => params[j] # x
<1>1. /\ DOMAIN params = 1..Len(params) /\ params \in Seq(N)
      /\ DOMAIN m = N /\ DOMAIN values = N /\ DOMAIN ids = DOMAIN params
      /\ \A x \in N \ Range(params) : values[x] = m[x]
      /\ \A k \in DOMAIN params :
             (\A j \in DOMAIN params : j > k => params[j] # params[k]) => values[params[k]] = ids[k]
  <2>1. DOMAIN params = 1..Len(params)
    OBVIOUS
  <2> QED
    BY <2>1 DEF SameNames
<1>2. ASSUME NEW x \in N, x \in Range(params)
      PROVE  SymbolSum(values[x], v) = r[CHOOSE k \in DOMAIN params : last(x, k)]
  <2>1. \E k \in DOMAIN params : last(x, k)
    <3>1. \E k \in 1..Len(params) :
              params[k] = x /\ \A j \in 1..Len(params) : j > k => params[j] # x
      <4> HIDE DEF params
      <4> QED
        BY <1>1, <1>2, LastPlace
    <3> QED
      BY <1>1, <3>1
  <2> DEFINE k == CHOOSE k \in DOMAIN params : last(x, k)
  <2>2. k \in DOMAIN params /\ last(x, k)
    BY <2>1
  <2> HIDE DEF k
  <2>3. values[x] = ids[k] /\ k \in DOMAIN ids
    BY <1>1, <2>2
  <2>4. SymbolSum(values[x], v) = r[k]
    BY <2>3
  <2> QED
    BY <2>4 DEF k
<1>3. ASSUME NEW x \in N, x \notin Range(params) PROVE values[x] = m[x]
  BY <1>1, <1>3
<1>4. AfterReading(t, Meaning(m, v), r)
          = [x \in N |-> IF x \in Range(params)
                         THEN r[CHOOSE k \in DOMAIN params : last(x, k)]
                         ELSE SymbolSum(m[x], v)]
  BY <1>1 DEF AfterReading, Meaning
<1>5. Meaning(values, v) = [x \in N |-> SymbolSum(values[x], v)]
  BY <1>1 DEF Meaning
<1> HIDE DEF r, last, params
<1>6. \A x \in N : SymbolSum(values[x], v)
          = IF x \in Range(params) THEN r[CHOOSE k \in DOMAIN params : last(x, k)]
            ELSE SymbolSum(m[x], v)
  BY <1>2, <1>3
<1> QED
  BY <1>4, <1>5, <1>6 DEF r, SameRead

(* The symbols of a text.                                                  *)
LEMMA OwnSymbols ==
    ASSUME NEW D, NEW E, NEW W, NEW e \in Texts(D, W)
    PROVE  /\ Symbols(e) \subseteq D
           /\ Symbols(e) \subseteq E => e \in Texts(E, W)
<1>1. e \in Seq(Terms(D, W)) /\ e # <<>>
  BY DEF Texts
<1>2. Len(e) \in Nat /\ DOMAIN e = 1..Len(e) /\ \A k \in 1..Len(e) : e[k] \in Terms(D, W)
  BY <1>1
<1>3. Symbols(e) \subseteq D
  BY <1>2 DEF Symbols, Terms
<1>4. ASSUME Symbols(e) \subseteq E PROVE e \in Texts(E, W)
  <2>1. ASSUME NEW k \in 1..Len(e) PROVE e[k] \in Terms(E, W)
    <3>1. e[k] \in AnyTerm /\ (e[k].kind = "name" => e[k].name \in W)
      BY <1>2 DEF Terms
    <3>2. e[k].kind = "symbol" => <<e[k].name, e[k].index>> \in E
      BY <1>2, <1>4 DEF Symbols
    <3> QED
      BY <3>1, <3>2 DEF Terms
  <2> DEFINE T == Terms(E, W)
  <2> HIDE DEF T
  <2>2. e = [k \in 1..Len(e) |-> e[k]] /\ Len(e) \in Nat
    BY <1>1
  <2>3. [k \in 1..Len(e) |-> e[k]] \in [1..Len(e) -> T]
    BY <2>1 DEF T
  <2>4. \A c \in Nat : \A f \in [1..c -> T] : f \in Seq(T)
    OBVIOUS
  <2>5. e \in Seq(T)
    <3> DEFINE f == [k \in 1..Len(e) |-> e[k]]
    <3>1. f \in [1..Len(e) -> T] /\ Len(e) \in Nat /\ f = e
      BY <2>2, <2>3
    <3> HIDE DEF f
    <3>2. f \in Seq(T)
      BY <2>4, <3>1
    <3> QED
      BY <3>1, <3>2
  <2> QED
    BY <1>1, <2>5 DEF Texts, T
<1> QED
  BY <1>3, <1>4

\* A list whose elements are in T is one over T.
LEMMA SameList ==
    ASSUME NEW S, NEW T, NEW x \in Seq(S), \A k \in 1..Len(x) : x[k] \in T
    PROVE  x \in Seq(T)
<1> DEFINE f == [k \in 1..Len(x) |-> x[k]]
<1>1. f \in [1..Len(x) -> T] /\ Len(x) \in Nat /\ f = x
  OBVIOUS
<1> HIDE DEF f
<1>2. \A c \in Nat : \A g \in [1..c -> T] : g \in Seq(T)
  OBVIOUS
<1>3. f \in Seq(T)
  BY <1>1, <1>2
<1> QED
  BY <1>1, <1>3

(* The symbols of a guard.                                                 *)
LEMMA OwnGuardSymbols ==
    ASSUME NEW D, NEW E, NEW W, NEW g \in Guards(D, W)
    PROVE  /\ SymbolsOf(g) \subseteq D
           /\ SymbolsOf(g) \subseteq E => g \in Guards(E, W)
<1> DEFINE C == Comparisons(D, W)
           F == Comparisons(E, W)
<1>1. /\ g \in Seq(Seq(C)) /\ g # <<>> /\ DOMAIN g = 1..Len(g)
      /\ \A k \in 1..Len(g) : g[k] \in Seq(C)
  BY DEF Guards
<1>2. ASSUME NEW k \in 1..Len(g) PROVE Range(g[k]) \subseteq C /\ DOMAIN g[k] = 1..Len(g[k])
  <2>1. g[k] \in Seq(C)
    BY <1>1
  <2> DEFINE x == g[k]
  <2> HIDE DEF x, C
  <2>2. DOMAIN x = 1..Len(x) /\ \A j \in 1..Len(x) : x[j] \in C
    BY <2>1 DEF x
  <2> QED
    BY <2>2 DEF x, Range
<1>3. ASSUME NEW c \in C
      PROVE  /\ Symbols(c.left) \cup Symbols(c.right) \subseteq D
             /\ Symbols(c.left) \cup Symbols(c.right) \subseteq E => c \in F
  <2>1. /\ c = [left |-> c.left, relation |-> c.relation, right |-> c.right]
        /\ c.left \in Texts(D, W) /\ c.right \in Texts(D, W) /\ c.relation \in Relations
    BY DEF Comparisons
  <2> DEFINE a == c.left
             b == c.right
  <2> HIDE DEF a, b
  <2>2. a \in Texts(D, W) /\ b \in Texts(D, W)
    BY <2>1 DEF a, b
  <2>3. /\ Symbols(a) \subseteq D /\ Symbols(b) \subseteq D
        /\ Symbols(a) \subseteq E => a \in Texts(E, W)
        /\ Symbols(b) \subseteq E => b \in Texts(E, W)
    BY <2>2, OwnSymbols
  <2> QED
    BY <2>1, <2>3 DEF a, b, Comparisons
<1> HIDE DEF C, F
<1>4. SymbolsOf(g) \subseteq D
  BY <1>1, <1>2, <1>3 DEF SymbolsOf
<1>5. ASSUME SymbolsOf(g) \subseteq E PROVE g \in Guards(E, W)
  <2>1. ASSUME NEW k \in 1..Len(g) PROVE g[k] \in Seq(F)
    <3> DEFINE x == g[k]
    <3>1. \A c \in Range(x) : Symbols(c.left) \cup Symbols(c.right) \subseteq E
      BY <1>1, <1>5 DEF SymbolsOf
    <3>2. \A c \in Range(x) : c \in F
      BY <1>2, <1>3, <3>1
    <3>3. x \in Seq(C) /\ DOMAIN x = 1..Len(x)
      BY <1>1, <1>2
    <3> HIDE DEF x
    <3>4. \A j \in 1..Len(x) : x[j] \in F
      BY <3>2, <3>3 DEF Range
    <3>5. x \in Seq(F)
      BY <3>3, <3>4, SameList
    <3> QED
      BY <3>5 DEF x
  <2>2. g \in Seq(Seq(F))
    BY <1>1, <2>1, SameList
  <2> QED
    BY <1>1, <2>2 DEF Guards, F
<1> QED
  BY <1>4, <1>5

-----------------------------------------------------------------------------
(* A step of the symbolic execution is a step of the model.                *)

\* StepsExact, of a state n that t makes of p.
StepExact(n, p, t) ==
    /\ SymbolsRead(n) \cap SymbolsIn(p) = {}
    /\ Cardinality(SymbolsRead(n)) = Len(t.params)
    /\ \A v \in [SymbolsIn(n) \cup SymbolsIn(p) \cup SymbolsRead(n) -> Value] :
          LET r == [k \in DOMAIN n.paramIds |-> SymbolSum(n.paramIds[k], v)]
              s == AfterReading(t, Meaning(p.mapping, v), r)
          IN  /\ SymbolHolds(n.pathCondition, v)
                     <=> (SymbolHolds(p.pathCondition, v) /\ StateHolds(t.dataGuard, s))
              /\ Meaning(n.mapping, v) = AfterAssigning(t, s)

\* As many pairs as positions, if no two positions have the same pair.
LEMMA OneEach ==
    ASSUME NEW n \in Nat, NEW f, NEW S, S = {f[k] : k \in 1..n},
           \A k \in 1..n : \A j \in 1..n : j < k => f[j] # f[k]
    PROVE  Cardinality(S) = n
<1> DEFINE g == [k \in 1..n |-> f[k]]
<1>1. g \in Surjection(1..n, S)
  BY DEF Surjection
<1>2. g \in Injection(1..n, S)
  BY DEF Injection, IsInjective
<1>3. ExistsBijection(1..n, S)
  BY <1>1, <1>2 DEF ExistsBijection, Bijection
<1>4. IsFiniteSet(1..n) /\ Cardinality(1..n) = n
  <2>1. /\ IsFiniteSet(1..n) /\ Cardinality(1..n) = IF 1 > n THEN 0 ELSE n - 1 + 1
    BY FS_Interval
  <2>2. 1 > n => n = 0
    OBVIOUS
  <2>3. n - 1 + 1 = n
    OBVIOUS
  <2> QED
    BY <2>1, <2>2, <2>3
<1> QED
  BY <1>3, <1>4, FS_Bijection

\* The symbol of a text that has one.
LEMMA OneSymbol ==
    ASSUME NEW x, NEW j
    PROVE  Symbols(<<Symbol(x, j)>>) = {<<x, j>>}
<1> DEFINE u == Symbol(x, j)
           e == <<u>>
<1>1. u.kind = "symbol" /\ u.name = x /\ u.index = j
  BY DEF Symbol
<1> HIDE DEF u
<1>2. DOMAIN e = {1} /\ e[1] = u
  OBVIOUS
<1> HIDE DEF e
<1>3. Symbols(e) = {<<x, j>>}
  BY <1>1, <1>2 DEF Symbols
<1> QED
  BY <1>3 DEF e, u

\* The symbol of the k-th parameter.
ReadAt(n, t, k) == <<t.params[k], n.paramIds[k][1].index>>

\* t reads new symbols in p, and n has them.
ReadNew(N, P, pr, W, n, p, t) ==
    /\ SymbolsRead(n) = NewSymbols(p, t)
    /\ SymbolsRead(n) \cap SymbolsIn(p) = {}
    /\ Cardinality(SymbolsRead(n)) = Len(t.params)
    /\ SymbolsRead(n) = {ReadAt(n, t, k) : k \in 1..Len(t.params)}
    /\ \A k \in 1..Len(t.params) : \A j \in 1..Len(t.params) :
           j < k => ReadAt(n, t, j) # ReadAt(n, t, k)
    /\ DOMAIN n.paramIds = 1..Len(t.params)
    /\ \A k \in 1..Len(t.params) :
           /\ n.paramIds[k] = <<Symbol(t.params[k], n.paramIds[k][1].index)>>
           /\ t.params[k] \in P /\ n.paramIds[k][1].index \in Nat

(* The symbols that are read are new, and each place has its own.          *)
LEMMA ReadAreNew ==
    ASSUME NEW N, NEW P, NEW pr, P = ReadNames(pr), NEW W, NEW n, NEW p, NEW t, t.params \in Seq(P),
           ReadFrom(N, P, Old(pr, p.mapping), W, p.mapping, t.params, Reading(p, t)),
           n.paramIds = Reading(p, t).ids,
           SymbolsIn(p) \subseteq Old(pr, p.mapping)
    PROVE  ReadNew(N, P, pr, W, n, p, t)
<1> DEFINE params == t.params
           len == Len(params)
           ids == n.paramIds
           D == Old(pr, p.mapping)
           at(k) == <<params[k], ids[k][1].index>>
<1>1. /\ len \in Nat /\ \A k \in 1..len : params[k] \in P
  OBVIOUS
<1>2. /\ Len(ids) = len
      /\ \A x \in P : Count(p.mapping, x) \in Nat
      /\ \A k \in 1..len : /\ ids[k][1].index \in Nat
                           /\ Count(p.mapping, params[k]) < ids[k][1].index
                           /\ ids[k] = <<Symbol(params[k], ids[k][1].index)>>
      /\ \A k \in 1..len : \A j \in 1..len :
            j < k /\ params[j] = params[k] => ids[j][1].index < ids[k][1].index
  BY DEF ReadFrom
<1>3. DOMAIN ids = 1..len
  BY DEF ReadFrom
<1>4. \A k \in 1..len : Symbols(ids[k]) = {at(k)}
  BY <1>2, OneSymbol
<1>5. SymbolsRead(n) = {at(k) : k \in 1..len}
  BY <1>3, <1>4 DEF SymbolsRead
<1>6. NewSymbols(p, t) = {at(k) : k \in 1..len}
  BY DEF NewSymbols, SymbolsOfIds
<1>7. ASSUME NEW k \in 1..len PROVE at(k) \notin D
  <2> SUFFICES ASSUME at(k) \in D PROVE FALSE
    OBVIOUS
  <2> DEFINE a == ids[k][1].index
             b == Count(p.mapping, params[k])
  <2>1. a \in Nat /\ b \in Nat /\ b < a
    BY <1>1, <1>2
  <2>2. a <= b
    BY <1>1 DEF Old
  <2> HIDE DEF a, b
  <2> QED
    BY <2>1, <2>2
<1>8. \A k \in 1..len : \A j \in 1..len : j < k => at(j) # at(k)
  <2>1. ASSUME NEW k \in 1..len, NEW j \in 1..len, j < k, at(j) = at(k) PROVE FALSE
    <3> DEFINE a == ids[k][1].index
               b == ids[j][1].index
    <3>1. params[j] = params[k] /\ a = b /\ a \in Nat /\ b \in Nat
      BY <1>2, <2>1
    <3>2. b < a
      BY <1>2, <2>1, <3>1
    <3> HIDE DEF a, b
    <3> QED
      BY <3>1, <3>2
  <2> QED
    BY <2>1
<1>9. Cardinality(SymbolsRead(n)) = len
  <2> DEFINE f == [k \in 1..len |-> at(k)]
             S == SymbolsRead(n)
  <2>1. \A k \in 1..len : f[k] = at(k)
    OBVIOUS
  <2> HIDE DEF f, at, len, S
  <2>2. S = {f[k] : k \in 1..len} /\ \A k \in 1..len : \A j \in 1..len : j < k => f[j] # f[k]
    BY <1>5, <1>8, <2>1 DEF S
  <2>3. len \in Nat
    BY <1>1
  <2> QED
    BY ONLY <2>2, <2>3, OneEach DEF S
<1>10. SymbolsRead(n) \cap SymbolsIn(p) = {}
  BY <1>5, <1>7
<1> QED
  BY <1>1, <1>2, <1>3, <1>5, <1>6, <1>8, <1>9, <1>10 DEF ReadNew, ReadAt

\* The texts of p and of the state n that t makes of it, and how n comes about.
Stepped(N, P, pr, n, p, t) ==
    LET A      == SymbolsIn(p) \cup SymbolsRead(n)
        values == Reading(p, t).values
        h      == UpdatedGuard(t.dataGuard, values)
    IN  /\ ReadNew(N, P, pr, {}, n, p, t)
        /\ p.mapping \in [N -> Texts(SymbolsIn(p), {})]
        /\ p.pathCondition \in Guards(SymbolsIn(p), {})
        /\ values \in [N -> Texts(A, {})] /\ h \in Guards(A, {}) /\ Len(h) = Len(t.dataGuard)
        /\ p.pathCondition \in Guards(A, {})
        /\ n.mapping = updateSymbolicValueWithAssignments(t.assignments, values)
        /\ n.mapping \in [N -> Texts(A, {})]
        /\ n.pathCondition = createNextPathCondition(p.pathCondition, h)
        /\ n.pathCondition \in Guards(A, {})
        /\ n.paramIds = Reading(p, t).ids
        /\ SameNames(N, p.mapping, values, t, n.paramIds)

(* Where the names are in scope and declared, a step makes texts of texts. *)
LEMMA StepTexts ==
    ASSUME NEW pr \in Products, Scoped(pr), Undeclared(pr) = {}, NEW t \in Outs(pr),
           NEW p, Fresh(pr, p), NEW n, Content(n) = NextContent(p, t)
    PROVE  Stepped(pr.names, ReadNames(pr), pr, n, p, t)
<1> DEFINE N == pr.names
           P == ReadNames(pr)
           D == Old(pr, p.mapping)
           r == Reading(p, t)
           B == SymbolsIn(p)
           S == NewSymbols(p, t)
           A == B \cup S
           g == t.dataGuard
           asg == t.assignments
<1>1. /\ N \subseteq Identifier /\ P \subseteq N /\ P \cap Separated = {}
      /\ t.params \in Seq(P) /\ t.params \in Seq(N)
      /\ g \in ParsedGuard /\ NamesInGuard(g) \subseteq N
      /\ asg \in Seq(ParsedAssignment)
      /\ \A k \in DOMAIN asg : NamesOf(asg[k].value) \subseteq N
  BY ParsedTransition DEF Scoped
<1>2. /\ p.mapping \in [N -> Texts(D, {})] /\ Readable(p.mapping, P)
      /\ p.pathCondition \in Guards(D, {}) /\ D \subseteq Identifier \X Int
  BY DEF Fresh, Old
<1>3. /\ n.mapping = updateSymbolicValueWithAssignments(asg, r.values)
      /\ n.pathCondition = createNextPathCondition(p.pathCondition, UpdatedGuard(g, r.values))
      /\ n.paramIds = r.ids
  BY DEF Content, NextContent, Reading
<1> DEFINE params == t.params
           m == p.mapping
<1>5. /\ N \in SUBSET Identifier /\ P \in SUBSET N /\ P \cap Separated = {}
      /\ D \in SUBSET (Identifier \X Int) /\ m \in [N -> Texts(D, {})]
      /\ Readable(m, P) /\ params \in Seq(P) /\ DOMAIN m = N
  BY <1>1, <1>2
<1> HIDE DEF N, P, D, r, S
<1>6. ReadFrom(N, P, D, {}, m, params, r)
  <2> HIDE DEF m, params
  <2>1. ReadFrom(N, P, D, {}, m, params, ReadParameters(params, m))
    BY ONLY <1>5, ReadTexts
  <2> QED
    BY <2>1 DEF Reading, m, params, r
<1>7. /\ B \subseteq D /\ p.pathCondition \in Guards(B, {})
      /\ m \in [N -> Texts(B, {})]
  <2>1. SymbolsOf(p.pathCondition) \subseteq D
        /\ (SymbolsOf(p.pathCondition) \subseteq B => p.pathCondition \in Guards(B, {}))
    <3> HIDE DEF B
    <3> QED
      BY <1>2, OwnGuardSymbols
  <2>2. \A x \in N : Symbols(m[x]) \subseteq D
                     /\ (Symbols(m[x]) \subseteq B => m[x] \in Texts(B, {}))
    <3>1. \A x \in N : m[x] \in Texts(D, {})
      BY <1>5
    <3> HIDE DEF B, m
    <3> QED
      BY <3>1, OwnSymbols
  <2>3. B = SymbolsOf(p.pathCondition) \cup UNION {Symbols(m[x]) : x \in N}
    BY <1>5 DEF SymbolsIn
  <2> HIDE DEF B, m
  <2>4. \A x \in N : m[x] \in Texts(B, {})
    BY <2>2, <2>3
  <2>5. B \subseteq D /\ p.pathCondition \in Guards(B, {})
    BY <2>1, <2>2, <2>3
  <2> QED
    BY <1>5, <2>4, <2>5
<1>8. ReadFrom(N, P, B, {}, m, params, r)
  <2>1. B \in SUBSET (Identifier \X Int)
    BY <1>5, <1>7
  <2> HIDE DEF m, params, B
  <2>2. ReadFrom(N, P, B, {}, m, params, ReadParameters(params, m))
    BY ONLY <1>5, <1>7, <2>1, ReadTexts
  <2> QED
    BY <2>2 DEF Reading, m, params, r
<1>9. SymbolsRead(n) = S /\ ReadNew(N, P, pr, {}, n, p, t)
  <2>1. ReadFrom(N, P, Old(pr, p.mapping), {}, p.mapping, t.params, Reading(p, t))
    BY <1>6 DEF D, r
  <2>2. /\ P = ReadNames(pr) /\ t.params \in Seq(P) /\ n.paramIds = Reading(p, t).ids
        /\ SymbolsIn(p) \subseteq Old(pr, p.mapping)
    BY <1>1, <1>3, <1>7 DEF P, D, r
  <2>3. ReadNew(N, P, pr, {}, n, p, t)
    BY ONLY <2>1, <2>2, ReadAreNew
  <2> QED
    BY <2>3 DEF S, ReadNew
<1>10. r.values \in [N -> Texts(A, {})] /\ SameNames(N, m, r.values, t, r.ids)
  <2> HIDE DEF B, m
  <2> QED
    BY <1>5, <1>8 DEF ReadFrom, S, NewSymbols, r, SameNames, params
<1>11. /\ UpdatedGuard(g, r.values) \in Guards(A, {}) /\ p.pathCondition \in Guards(A, {})
       /\ Len(UpdatedGuard(g, r.values)) = Len(g)
  <2> HIDE DEF B, m, g
  <2> DEFINE Z == A
             W == {}
  <2>1. r.values \in [N -> Texts(Z, W)] /\ g \in ParsedGuard /\ NamesInGuard(g) \subseteq N \cup W
    BY <1>1, <1>10
  <2>2. B \subseteq Z /\ p.pathCondition \in Guards(B, W)
    BY <1>7
  <2> HIDE DEF Z, W
  <2>3. UpdatedComparisons(Z, W, N, r.values, g)
    BY ONLY <2>1, UpdatedGuardText
  <2>4. Guards(B, W) \subseteq Guards(Z, W)
    BY ONLY <2>2, MoreGuards
  <2> QED
    BY <2>2, <2>3, <2>4 DEF UpdatedComparisons, Z, W
<1>12. n.mapping \in [N -> Texts(A, {})]
  <2> DEFINE Z == A
             W == {}
  <2> HIDE DEF B, m, g, asg
  <2>1. r.values \in [N -> Texts(Z, W)] /\ asg \in Seq(ParsedAssignment)
        /\ \A k \in DOMAIN asg : NamesOf(asg[k].value) \subseteq N \cup W
    BY <1>1, <1>10
  <2> HIDE DEF Z, W
  <2>2. AssignedInto(Z, W, N, r.values, asg, updateSymbolicValueWithAssignments(asg, r.values))
    BY ONLY <2>1, AssignedKeeps
  <2> QED
    BY <1>3, <2>2 DEF AssignedInto, Z, W
<1>13. n.pathCondition \in Guards(A, {})
  <2> DEFINE c == p.pathCondition
             h == UpdatedGuard(g, r.values)
             Z == A
  <2>1. c \in Guards(Z, {}) /\ h \in Guards(Z, {})
    BY <1>11
  <2> HIDE DEF c, h, Z
  <2>2. createNextPathCondition(c, h) \in Guards(Z, {})
    BY ONLY <2>1, JoinedGuard
  <2> QED
    BY <1>3, <2>2 DEF c, h, Z
<1> HIDE DEF m
<1>14. Stepped(N, P, pr, n, p, t)
  BY <1>3, <1>5, <1>7, <1>9, <1>10, <1>11, <1>12, <1>13 DEF Stepped, r, m
<1> QED
  BY <1>14 DEF N, P

(* What the transition t makes of a state p stands for what it makes of the*)
(* model states p stands for.                                              *)
LEMMA StepMeans ==
    ASSUME NEW pr \in Products, Scoped(pr), Undeclared(pr) = {}, NEW t \in Outs(pr),
           NEW p, Fresh(pr, p), NEW n, Content(n) = NextContent(p, t),
           Plain(p.pathCondition, t)
    PROVE  StepExact(n, p, t)
<1> DEFINE N == pr.names
           P == ReadNames(pr)
           r == Reading(p, t)
           A == SymbolsIn(p) \cup SymbolsRead(n)
           g == t.dataGuard
           asg == t.assignments
           m == p.mapping
<1>1. /\ t.params \in Seq(N) /\ g \in ParsedGuard /\ NamesInGuard(g) \subseteq N
      /\ asg \in Seq(ParsedAssignment)
      /\ \A k \in DOMAIN asg : NamesOf(asg[k].value) \subseteq N
  BY ParsedTransition DEF Scoped
<1>2. Stepped(N, P, pr, n, p, t)
  BY StepTexts
<1> HIDE DEF N, P
<1>3. /\ n.mapping = updateSymbolicValueWithAssignments(asg, r.values)
      /\ n.pathCondition = createNextPathCondition(p.pathCondition, UpdatedGuard(g, r.values))
      /\ n.paramIds = r.ids /\ r.values \in [N -> Texts(A, {})]
      /\ UpdatedGuard(g, r.values) \in Guards(A, {}) /\ p.pathCondition \in Guards(A, {})
      /\ Len(UpdatedGuard(g, r.values)) = Len(g)
      /\ SameNames(N, m, r.values, t, r.ids)
  BY <1>2 DEF Stepped
<1>4. /\ UnsignedGuard(g)
      /\ p.pathCondition = GUARD_TRUE \/ (Len(p.pathCondition) = 1 /\ Len(g) = 1)
      /\ \A k \in DOMAIN asg : Unsigned(asg[k].value)
  BY DEF Plain, UnsignedGuard
<1>5. /\ SymbolsRead(n) \cap SymbolsIn(p) = {}
      /\ Cardinality(SymbolsRead(n)) = Len(t.params)
  BY <1>2 DEF Stepped, ReadNew
<1> DEFINE E == SymbolsIn(n) \cup SymbolsIn(p) \cup SymbolsRead(n)
<1>6. ASSUME NEW v \in [E -> Value]
       PROVE  LET q == [k \in DOMAIN n.paramIds |-> SymbolSum(n.paramIds[k], v)]
                  s == AfterReading(t, Meaning(p.mapping, v), q)
              IN  /\ SymbolHolds(n.pathCondition, v)
                         <=> (SymbolHolds(p.pathCondition, v) /\ StateHolds(t.dataGuard, s))
                  /\ Meaning(n.mapping, v) = AfterAssigning(t, s)
  <2> DEFINE q == [k \in DOMAIN n.paramIds |-> SymbolSum(n.paramIds[k], v)]
             s == AfterReading(t, Meaning(p.mapping, v), q)
  <2>1. v \in [E -> Int] /\ A \subseteq E
    BY ValueAssumption
  <2> HIDE DEF A, E, m, r
  <2>2. Meaning(r.values, v) = s
    <3>1. Meaning(r.values, v)
              = AfterReading(t, Meaning(m, v), [k \in DOMAIN r.ids |-> SymbolSum(r.ids[k], v)])
      <4> DEFINE values == r.values
                 ids == r.ids
      <4>1. SameNames(N, m, values, t, ids) /\ t.params \in Seq(N)
        BY <1>1, <1>3
      <4> HIDE DEF values, ids
      <4>2. SameRead(N, m, values, v, t, ids)
        BY ONLY <4>1, ReadingMeans
      <4> QED
        BY <4>2 DEF values, ids, SameRead
    <3> QED
      BY <1>3, <3>1 DEF m
  <2>3. SymbolHolds(UpdatedGuard(g, r.values), v) <=> StateHolds(g, Meaning(r.values, v))
    <3> HIDE DEF g
    <3>1. /\ A \subseteq E /\ v \in [E -> Int] /\ r.values \in [N -> Texts(A, {})]
          /\ g \in ParsedGuard /\ NamesInGuard(g) \subseteq N /\ UnsignedGuard(g)
      BY <1>1, <1>3, <1>4, <2>1
    <3> QED
      BY ONLY <3>1, GuardMeans
  <2>4. SymbolHolds(n.pathCondition, v)
            <=> SymbolHolds(p.pathCondition, v) /\ SymbolHolds(UpdatedGuard(g, r.values), v)
    <3> DEFINE c == p.pathCondition
               h == UpdatedGuard(g, r.values)
    <3>1. /\ c \in Guards(A, {}) /\ h \in Guards(A, {})
          /\ c = GUARD_TRUE \/ (Len(c) = 1 /\ Len(h) = 1)
      BY <1>3, <1>4
    <3> HIDE DEF c, h
    <3>2. SymbolHolds(createNextPathCondition(c, h), v) <=> SymbolHolds(c, v) /\ SymbolHolds(h, v)
      BY ONLY <3>1, JoinedMeans
    <3> QED
      BY <1>3, <3>2 DEF c, h
  <2>5. Meaning(n.mapping, v) = AfterAssigning(t, Meaning(r.values, v))
    <3>1. /\ A \subseteq E /\ v \in [E -> Int] /\ r.values \in [N -> Texts(A, {})]
          /\ t.assignments \in Seq(ParsedAssignment)
          /\ \A k \in DOMAIN t.assignments : /\ NamesOf(t.assignments[k].value) \subseteq N
                                             /\ Unsigned(t.assignments[k].value)
      BY <1>1, <1>3, <1>4, <2>1
    <3>2. SameAssigned(A, E, N, r.values, t, v)
      BY ONLY <3>1, AssignedMeans
    <3> QED
      BY <1>3, <3>2 DEF SameAssigned
  <2> QED
    BY <2>2, <2>3, <2>4, <2>5
<1> QED
  BY <1>5, <1>6 DEF StepExact

(* The newest state is what a transition of the product makes of its       *)
(* parent.                                                                 *)
LEMMA NewestStep ==
    ASSUME XInv, Len(zset) > 1
    PROVE  /\ Parent(Newest) \in 1..Len(zset) /\ Newest.transition \in Outs(product)
           /\ Content(Newest) = NextContent(zset[Parent(Newest)], Newest.transition)
<1> DEFINE k == Len(zset)
           p == Parent(Newest)
<1>1. Shaped(zset) /\ product \in Products
  BY Chains DEF XInv, IInv, TypeOK
<1>2. k \in Nat /\ DOMAIN zset = 1..k /\ k \in 1..k /\ k # 1 /\ Newest = zset[k]
  BY <1>1 DEF Shaped, Newest
<1> HIDE DEF k
<1>3. PICK parent \in 1..k - 1 : zset[k].ancestry = Append(zset[parent].ancestry, k)
  BY <1>1, <1>2 DEF Shaped, k
<1>4. parent \in 1..Len(zset) /\ parent \in 1..k
  BY <1>2, <1>3 DEF k
<1>5. p = parent
  <2> DEFINE z == zset
             n == z[k]
  <2>1. n.ancestry = Append(z[parent].ancestry, k) /\ Shaped(z) /\ parent \in 1..Len(z)
    BY <1>1, <1>3, <1>4
  <2> HIDE DEF z, n
  <2>2. Parent(n) = parent
    BY ONLY <2>1, ParentInChain
  <2> QED
    BY <1>2, <2>2 DEF z, n
<1>6. k \in ChildStates(zset, p)
  BY <1>2, <1>5 DEF ChildStates
<1> DEFINE S == Tried(product, zset, unvisited, current, Before(product, zset, current, i), p)
<1>7. GrownAt(zset, p, S)
  BY <1>4, <1>5 DEF XInv, Explored
<1> HIDE DEF S
<1>8. PICK t \in S : Content(zset[k]) = NextContent(zset[p], t)
  BY <1>6, <1>7 DEF GrownAt
<1>9. zset[k].transition = t
  BY <1>8 DEF Content, NextContent
<1>10. S \subseteq Outs(product)
  <2>1. zset[p].location \in Label
    BY <1>1, <1>4, <1>5 DEF Shaped
  <2>2. Range(OutAt(product, zset, p)) \subseteq Outs(product)
    BY <2>1 DEF OutAt, Outs
  <2>3. p = current => Before(product, zset, current, i) \subseteq Range(OutAt(product, zset, p))
    BY DEF Before, Range
  <2> QED
    BY <2>2, <2>3 DEF S, Tried
<1> QED
  BY <1>2, <1>4, <1>5, <1>8, <1>9, <1>10

(* A step of the symbolic execution is a step of the model, for every      *)
(* product whose names are in scope and declared and whose texts need no   *)
(* parentheses, which StepsExact itself presupposes: the path condition, the mapping and the symbols that are   *)
(* read say of a state what the guard, the assignments and the parameters  *)
(* of its transition make of the model states its parent stands for.       *)
THEOREM StepsAreExact ==
    GenerationSpec => []StepsExact
<1>1. XInv /\ NInv => StepsExact
  <2> SUFFICES ASSUME XInv, NInv, NamesInScope, NamesDeclared, Len(zset) > 1,
                      Plain(zset[Parent(Newest)].pathCondition, Newest.transition)
               PROVE  StepsExact
    BY DEF StepsExact
  <2> DEFINE n == Newest
             p == zset[Parent(Newest)]
             t == Newest.transition
  <2>1. /\ Parent(Newest) \in 1..Len(zset) /\ t \in Outs(product)
        /\ Content(n) = NextContent(p, t)
    BY NewestStep
  <2>2. /\ product \in Products /\ Scoped(product)
    BY ScopedNames DEF XInv, IInv, TypeOK
  <2>3. Fresh(product, p)
    BY <2>1 DEF NInv
  <2>4. StepExact(n, p, t)
    <3> DEFINE pr == product
    <3>1. /\ pr \in Products /\ Scoped(pr) /\ Undeclared(pr) = {} /\ t \in Outs(pr)
          /\ Fresh(pr, p) /\ Content(n) = NextContent(p, t) /\ Plain(p.pathCondition, t)
      BY <2>1, <2>2, <2>3, DeclaredNames
    <3> HIDE DEF pr, n, p, t
    <3> QED
      BY ONLY <3>1, StepMeans
  <2> QED
    BY <2>4 DEF StepsExact, StepExact, Meaning, Concrete, SymbolSum, SymbolHolds, StateHolds, Passes
<1>2. GenerationSpec => []XInv
  BY ImplementsWalk, Exploration, PTL
<1>3. GenerationSpec => []NInv
  BY ImplementsWalk, NamesRead, PTL
<1> QED
  BY <1>1, <1>2, <1>3, PTL

-----------------------------------------------------------------------------
(* What the model can take, and what the solvers say.                      *)

\* Two valuations that agree about some symbols.
Agree(D, v, w) == \A x \in D : v[x] = w[x]

\* A text has the same sum under v and w, which give values to E and F.
SameUnder(D, E, F, v, w, e) == SymbolSum(e, v) = SymbolSum(e, w)

\* A text speaks of its symbols only,
LEMMA SameSum ==
    ASSUME NEW D, NEW E, D \subseteq E, NEW v \in [E -> Int],
           NEW F, D \subseteq F, NEW w \in [F -> Int], Agree(D, v, w),
           NEW e \in Seq(Terms(D, {}))
    PROVE  SameUnder(D, E, F, v, w, e)
<1> DEFINE n == Len(e)
<1>1. n \in Nat /\ \A k \in 1..n : e[k] \in Terms(D, {})
  OBVIOUS
<1>2. \A k \in 1..n : UnderSymbols(v, e[k]) = UnderSymbols(w, e[k])
  <2>1. ASSUME NEW u \in Terms(D, {}) PROVE UnderSymbols(v, u) = UnderSymbols(w, u)
    <3>1. u.kind \in {"number", "name", "symbol"} /\ u.kind # "name"
      BY DEF Terms, AnyTerm
    <3>2. u.kind = "symbol" => v[<<u.name, u.index>>] = w[<<u.name, u.index>>]
      BY DEF Terms, Agree
    <3> QED
      BY <3>1, <3>2 DEF UnderSymbols
  <2> QED
    BY <1>1, <2>1
<1>3. Weights(e, v) = Weights(e, w)
  BY <1>2 DEF Weights
<1>4. Total(n, Weights(e, v), SymbolSum(e, v))
  BY TextSum
<1>5. Total(n, Weights(e, w), SymbolSum(e, w))
  BY TextSum
<1> HIDE DEF n
<1> QED
  BY <1>1, <1>3, <1>4, <1>5, OneTotal DEF SameUnder

\* and so does a condition.
LEMMA SameHolds ==
    ASSUME NEW D, NEW E, D \subseteq E, NEW v \in [E -> Int],
           NEW F, D \subseteq F, NEW w \in [F -> Int], Agree(D, v, w),
           NEW g \in Guards(D, {})
    PROVE  SymbolHolds(g, v) <=> SymbolHolds(g, w)
<1> DEFINE C == Comparisons(D, {})
<1>1. ASSUME NEW k \in DOMAIN g, NEW c \in Range(g[k])
      PROVE  /\ SymbolSum(c.left, v) = SymbolSum(c.left, w)
             /\ SymbolSum(c.right, v) = SymbolSum(c.right, w)
  <2>1. g \in Seq(Seq(C))
    BY DEF Guards
  <2> HIDE DEF C
  <2>2. g[k] \in Seq(C)
    BY <2>1
  <2> DEFINE x == g[k]
  <2> HIDE DEF x
  <2>3. \A j \in DOMAIN x : x[j] \in C
    BY <2>2 DEF x
  <2>4. c \in C
    BY <2>3 DEF Range, x
  <2>5. c.left \in Texts(D, {}) /\ c.right \in Texts(D, {})
    BY <2>4 DEF C, Comparisons
  <2>6. c.left \in Seq(Terms(D, {})) /\ c.right \in Seq(Terms(D, {}))
    BY <2>5 DEF Texts
  <2> DEFINE a == c.left
             b == c.right
  <2>7. a \in Seq(Terms(D, {})) /\ b \in Seq(Terms(D, {}))
    BY <2>6
  <2> HIDE DEF a, b
  <2>8. SameUnder(D, E, F, v, w, a) /\ SameUnder(D, E, F, v, w, b)
    BY <2>7, SameSum
  <2> QED
    BY <2>8 DEF a, b, SameUnder
<1> QED
  BY <1>1, Holding

\* The sum of a text that is a symbol.
LEMMA SumOfSymbol ==
    ASSUME NEW E, NEW v \in [E -> Int], NEW x \in Identifier, NEW j \in Int, <<x, j>> \in E
    PROVE  SymbolSum(<<Symbol(x, j)>>, v) = v[<<x, j>>]
<1> DEFINE u == Symbol(x, j)
<1>1. /\ u = [kind |-> "symbol", name |-> x, index |-> j, sign |-> 1]
      /\ u.kind = "symbol" /\ u.name = x /\ u.index = j /\ u.sign = 1
  BY DEF Symbol
<1>2. u \in Terms(E, {})
  BY <1>1 DEF Terms, AnyTerm
<1>3. u.sign * UnderSymbols(v, u) = v[<<x, j>>]
  <2>1. UnderSymbols(v, u) = v[<<x, j>>]
    BY <1>1 DEF UnderSymbols
  <2>2. v[<<x, j>>] \in Int
    OBVIOUS
  <2> HIDE DEF u
  <2> QED
    BY <1>1, <2>1, <2>2
<1> HIDE DEF u
<1>4. SymbolSum(<<u>>, v) = u.sign * UnderSymbols(v, u)
  BY <1>2, SumOfOne
<1> QED
  BY <1>3, <1>4 DEF u

\* What a step speaks of: its symbols, and where they come from.
Speaks(n, c, t, A, B, S) ==
    /\ B = SymbolsIn(n) /\ S = SymbolsRead(c) /\ A = B \cup S /\ B \cap S = {}
    /\ SymbolsIn(c) \subseteq A
    /\ n.pathCondition \in Guards(B, {}) /\ c.pathCondition \in Guards(A, {})
    /\ SymbolsOf(c.pathCondition) \subseteq A
    /\ S = {ReadAt(c, t, k) : k \in 1..Len(t.params)}
    /\ \A k \in 1..Len(t.params) : \A j \in 1..Len(t.params) :
           j < k => ReadAt(c, t, j) # ReadAt(c, t, k)
    /\ DOMAIN c.paramIds = 1..Len(t.params) /\ DOMAIN t.params = 1..Len(t.params)
    /\ \A v \in [A -> Int] : \A k \in 1..Len(t.params) :
           SymbolSum(c.paramIds[k], v) = v[ReadAt(c, t, k)]
    /\ \A v \in [A -> Int] : \A w \in [B -> Int] :
           Agree(B, v, w) => Meaning(n.mapping, v) = Meaning(n.mapping, w)

LEMMA StepSpeaks ==
    ASSUME NEW pr \in Products, Scoped(pr), Undeclared(pr) = {}, NEW t \in Outs(pr),
           NEW n, Fresh(pr, n), NEW c, Content(c) = NextContent(n, t)
    PROVE  Speaks(n, c, t, SymbolsIn(n) \cup SymbolsRead(c), SymbolsIn(n), SymbolsRead(c))
<1> DEFINE N == pr.names
           P == ReadNames(pr)
           B == SymbolsIn(n)
           S == SymbolsRead(c)
           A == B \cup S
           ids == c.paramIds
           len == Len(t.params)
           m == n.mapping
<1>1. Stepped(N, P, pr, c, n, t)
  BY StepTexts
<1>2. P \subseteq Identifier /\ t.params \in Seq(P)
  BY ParsedTransition
<1> HIDE DEF N, P
<1>3. /\ S \cap B = {} /\ S = {ReadAt(c, t, k) : k \in 1..len}
      /\ \A k \in 1..len : \A j \in 1..len : j < k => ReadAt(c, t, j) # ReadAt(c, t, k)
      /\ DOMAIN ids = 1..len
      /\ \A k \in 1..len : /\ ids[k] = <<Symbol(t.params[k], ids[k][1].index)>>
                           /\ t.params[k] \in P /\ ids[k][1].index \in Nat
  BY <1>1 DEF Stepped, ReadNew
<1>4. /\ m \in [N -> Texts(B, {})] /\ n.pathCondition \in Guards(B, {})
      /\ c.mapping \in [N -> Texts(A, {})] /\ c.pathCondition \in Guards(A, {})
  BY <1>1 DEF Stepped
<1>5. SymbolsIn(c) \subseteq A /\ SymbolsOf(c.pathCondition) \subseteq A
  <2> DEFINE g == c.pathCondition
             q == c.mapping
  <2>1. SymbolsIn(c) = SymbolsOf(g) \cup UNION {Symbols(q[x]) : x \in N}
    BY <1>4 DEF SymbolsIn
  <2>2. g \in Guards(A, {}) /\ \A x \in N : q[x] \in Texts(A, {})
    BY <1>4
  <2> HIDE DEF g, q, A
  <2>3. SymbolsOf(g) \subseteq A
    BY <2>2, OwnGuardSymbols
  <2>4. \A x \in N : Symbols(q[x]) \subseteq A
    BY <2>2, OwnSymbols
  <2> QED
    BY <2>1, <2>3, <2>4 DEF g
<1>6. ASSUME NEW v \in [A -> Int], NEW k \in 1..len
      PROVE  SymbolSum(ids[k], v) = v[ReadAt(c, t, k)]
  <2> DEFINE x == t.params[k]
             j == ids[k][1].index
  <2>1. ids[k] = <<Symbol(x, j)>> /\ x \in Identifier /\ j \in Int /\ ReadAt(c, t, k) = <<x, j>>
    BY <1>2, <1>3 DEF ReadAt
  <2>2. <<x, j>> \in A
    BY <1>3, <2>1
  <2> HIDE DEF x, j, A, ids
  <2>3. SymbolSum(<<Symbol(x, j)>>, v) = v[<<x, j>>]
    BY <2>1, <2>2, SumOfSymbol
  <2> QED
    BY <2>1, <2>3
<1>7. ASSUME NEW v \in [A -> Int], NEW w \in [B -> Int], Agree(B, v, w)
      PROVE  Meaning(m, v) = Meaning(m, w)
  <2>1. DOMAIN m = N
    BY <1>4
  <2>2. ASSUME NEW x \in N PROVE SymbolSum(m[x], v) = SymbolSum(m[x], w)
    <3> DEFINE e == m[x]
    <3>1. e \in Texts(B, {})
      BY <1>4
    <3> HIDE DEF e
    <3>2. e \in Seq(Terms(B, {})) /\ B \subseteq A
      BY <3>1 DEF Texts
    <3> HIDE DEF A, B
    <3>3. SameUnder(B, A, B, v, w, e)
      BY <1>7, <3>2, SameSum
    <3> QED
      BY <3>3 DEF e, SameUnder
  <2> HIDE DEF m
  <2> QED
    BY <2>1, <2>2 DEF Meaning
<1>8. DOMAIN t.params = 1..len
  BY <1>2
<1> QED
  BY <1>3, <1>4, <1>5, <1>6, <1>7, <1>8 DEF Speaks

\* The solvers let t through from n if the model can take it.
TakenIfCan(n, t) == isReachable(NextContent(n, t)) <=> Takes(n, t)

\* The solver is asked about the symbols of a condition only: other values
\* make no difference.
LEMMA AskedOnly ==
    ASSUME NEW A, NEW g \in Guards(A, {}), SymbolsOf(g) \subseteq A
    PROVE  Satisfiable(g) <=> \E v \in [A -> Value] : SymbolHolds(g, v)
<1> DEFINE B == SymbolsOf(g)
<1>1. g \in Guards(B, {})
  <2> HIDE DEF B
  <2> QED
    BY OwnGuardSymbols DEF B
<1>2. Value \subseteq Int /\ B \subseteq A
  BY ValueAssumption
<1>3. PICK d \in Value : TRUE
  BY ValueAssumption
<1>4. Satisfiable(g) <=> \E v \in [B -> Value] : SymbolHolds(g, v)
  BY DEF Satisfiable, SymbolHolds
<1> HIDE DEF B
<1>5. ASSUME NEW v \in [B -> Value], NEW w \in [A -> Value], \A x \in B : v[x] = w[x]
      PROVE  SymbolHolds(g, v) <=> SymbolHolds(g, w)
  <2>1. v \in [B -> Int] /\ w \in [A -> Int] /\ Agree(B, v, w) /\ B \subseteq B
    BY <1>2, <1>5 DEF Agree
  <2> QED
    BY <2>1, <1>1, <1>2, SameHolds
<1>6. ASSUME NEW v \in [B -> Value], SymbolHolds(g, v)
      PROVE  \E w \in [A -> Value] : SymbolHolds(g, w)
  <2> DEFINE w == [x \in A |-> IF x \in B THEN v[x] ELSE d]
  <2>1. w \in [A -> Value] /\ \A x \in B : v[x] = w[x]
    BY <1>2
  <2> HIDE DEF w
  <2> QED
    BY <2>1, <1>5, <1>6
<1>7. ASSUME NEW w \in [A -> Value], SymbolHolds(g, w)
      PROVE  \E v \in [B -> Value] : SymbolHolds(g, v)
  <2> DEFINE v == [x \in B |-> w[x]]
  <2>1. v \in [B -> Value] /\ \A x \in B : v[x] = w[x]
    BY <1>2
  <2> HIDE DEF v
  <2> QED
    BY <2>1, <1>5, <1>7
<1> QED
  BY <1>4, <1>6, <1>7

(* Where the texts need no parentheses a transition is let through exactly *)
(* if the model can take it from some state the symbolic state stands for. *)
LEMMA TakenAsInModel ==
    ASSUME NEW pr \in Products, Scoped(pr), Undeclared(pr) = {}, NEW t \in Outs(pr),
           NEW n, Fresh(pr, n), Plain(n.pathCondition, t)
    PROVE  TakenIfCan(n, t)
<1> DEFINE c == NextContent(n, t)
           B == SymbolsIn(n)
           S == SymbolsRead(c)
           A == B \cup S
           ids == c.paramIds
           len == Len(t.params)
           q(v) == [k \in DOMAIN ids |-> SymbolSum(ids[k], v)]
<1>1. Content(c) = NextContent(n, t) /\ c.zone = NextZone(n.zone, t.clockGuard, t.resets)
  BY DEF Content, NextContent
<1> HIDE DEF c
<1>2. Speaks(n, c, t, A, B, S)
  BY <1>1, StepSpeaks
<1>3. StepExact(c, n, t)
  BY <1>1, StepMeans
<1>4. SymbolsIn(c) \cup SymbolsIn(n) \cup SymbolsRead(c) = A
  BY <1>2 DEF Speaks
<1>5. ASSUME NEW v \in [A -> Value]
      PROVE  /\ SymbolHolds(c.pathCondition, v)
                   <=> /\ SymbolHolds(n.pathCondition, v)
                       /\ StateHolds(t.dataGuard, AfterReading(t, Meaning(n.mapping, v), q(v)))
             /\ q(v) = [k \in 1..len |-> v[ReadAt(c, t, k)]]
             /\ q(v) \in [1..len -> Value]
  <2>1. v \in [SymbolsIn(c) \cup SymbolsIn(n) \cup SymbolsRead(c) -> Value]
    BY <1>4
  <2> HIDE DEF A, B, S
  <2>2. SymbolHolds(c.pathCondition, v)
            <=> /\ SymbolHolds(n.pathCondition, v)
                /\ StateHolds(t.dataGuard, AfterReading(t, Meaning(n.mapping, v), q(v)))
    BY <1>3, <2>1 DEF StepExact
  <2>3. v \in [A -> Int] /\ DOMAIN ids = 1..len
        /\ \A k \in 1..len : ReadAt(c, t, k) \in A
    BY <1>2, ValueAssumption DEF Speaks
  <2>4. \A k \in 1..len : SymbolSum(ids[k], v) = v[ReadAt(c, t, k)]
    BY <1>2, <2>3 DEF Speaks
  <2>5. q(v) = [k \in 1..len |-> v[ReadAt(c, t, k)]]
    BY <2>3, <2>4
  <2>6. [k \in 1..len |-> v[ReadAt(c, t, k)]] \in [1..len -> Value]
    BY <2>3
  <2> QED
    BY <2>2, <2>5, <2>6
<1> HIDE DEF q
<1>6. ASSUME NEW w \in [A -> Value], NEW v \in [B -> Value], \A x \in B : w[x] = v[x]
      PROVE  /\ SymbolHolds(n.pathCondition, w) <=> SymbolHolds(n.pathCondition, v)
             /\ Meaning(n.mapping, w) = Meaning(n.mapping, v)
  <2> HIDE DEF A, B, S
  <2>1. w \in [A -> Int] /\ v \in [B -> Int] /\ Agree(B, w, v) /\ B \subseteq A /\ B \subseteq B
        /\ n.pathCondition \in Guards(B, {})
    BY <1>2, <1>6, ValueAssumption DEF Agree, Speaks
  <2> DEFINE g == n.pathCondition
  <2> HIDE DEF g
  <2>2. SymbolHolds(g, w) <=> SymbolHolds(g, v)
    BY <2>1, SameHolds DEF g
  <2> QED
    BY <1>2, <2>1, <2>2 DEF Speaks, g
<1>7. Satisfiable(c.pathCondition) <=> \E w \in [A -> Value] : SymbolHolds(c.pathCondition, w)
  <2> DEFINE g == c.pathCondition
  <2>1. g \in Guards(A, {}) /\ SymbolsOf(g) \subseteq A
    BY <1>2 DEF Speaks
  <2> HIDE DEF g, A
  <2> QED
    BY <2>1, AskedOnly DEF g
<1>8. DOMAIN t.params = 1..len /\ S = {ReadAt(c, t, k) : k \in 1..len} /\ B \cap S = {}
      /\ \A k \in 1..len : \A j \in 1..len : j < k => ReadAt(c, t, j) # ReadAt(c, t, k)
  BY <1>2 DEF Speaks
<1> DEFINE Can(v, r) == /\ SymbolHolds(n.pathCondition, v)
                        /\ StateHolds(t.dataGuard, AfterReading(t, Meaning(n.mapping, v), r))
<1>9. Takes(n, t) <=> /\ ~IsEmpty(c.zone)
                      /\ \E v \in [B -> Value] : \E r \in [1..len -> Value] : Can(v, r)
  BY <1>1, <1>8 DEF Takes, Concrete, Meaning, SymbolSum, SymbolHolds, StateHolds, Passes
<1> HIDE DEF Can
<1>10. ASSUME NEW w \in [A -> Value], SymbolHolds(c.pathCondition, w)
       PROVE  \E v \in [B -> Value] : \E r \in [1..len -> Value] : Can(v, r)
  <2> DEFINE v == [x \in B |-> w[x]]
             r == q(w)
  <2>1. v \in [B -> Value] /\ \A x \in B : w[x] = v[x]
    OBVIOUS
  <2>2. r \in [1..len -> Value]
    BY <1>5
  <2> HIDE DEF v, A, B, S
  <2>3. Can(v, r)
    BY <1>5, <1>6, <1>10, <2>1 DEF Can
  <2> HIDE DEF r
  <2> QED
    BY <2>1, <2>2, <2>3
<1>11. ASSUME NEW v \in [B -> Value], NEW r \in [1..len -> Value], Can(v, r)
       PROVE  \E w \in [A -> Value] : SymbolHolds(c.pathCondition, w)
  <2> DEFINE place(x) == CHOOSE k \in 1..len : ReadAt(c, t, k) = x
             w == [x \in A |-> IF x \in B THEN v[x] ELSE r[place(x)]]
  <2>1. \A x \in S : place(x) \in 1..len /\ ReadAt(c, t, place(x)) = x
    BY <1>8
  <2>2. ASSUME NEW k \in 1..len PROVE place(ReadAt(c, t, k)) = k
    <3> DEFINE j == place(ReadAt(c, t, k))
    <3>1. j \in 1..len /\ ReadAt(c, t, j) = ReadAt(c, t, k)
      BY <1>8, <2>1
    <3> HIDE DEF j
    <3>2. ~(j < k) /\ ~(k < j)
      BY <1>8, <3>1
    <3>3. j = k
      BY <3>1, <3>2
    <3> QED
      BY <3>3 DEF j
  <2> HIDE DEF place
  <2>3. w \in [A -> Value]
    <3>1. \A x \in A : x \in B \/ x \in S
      OBVIOUS
    <3> HIDE DEF A, B, S
    <3>2. \A x \in A : (IF x \in B THEN v[x] ELSE r[place(x)]) \in Value
      BY <2>1, <3>1
    <3> QED
      BY <3>2
  <2>4. \A x \in B : w[x] = v[x]
    OBVIOUS
  <2>5. \A k \in 1..len : w[ReadAt(c, t, k)] = r[k]
    <3>1. \A k \in 1..len : ReadAt(c, t, k) \in A /\ ReadAt(c, t, k) \notin B
      BY <1>8
    <3> HIDE DEF A, B, S
    <3> QED
      BY <2>2, <3>1
  <2> HIDE DEF w, A, B, S
  <2>6. q(w) = r
    <3>1. q(w) = [k \in 1..len |-> w[ReadAt(c, t, k)]]
      BY <1>5, <2>3
    <3>2. [k \in 1..len |-> w[ReadAt(c, t, k)]] = [k \in 1..len |-> r[k]]
      BY <2>5
    <3>3. [k \in 1..len |-> r[k]] = r
      OBVIOUS
    <3> QED
      BY <3>1, <3>2, <3>3
  <2>7. SymbolHolds(c.pathCondition, w)
    BY <1>5, <1>6, <1>11, <2>3, <2>4, <2>6 DEF Can
  <2> QED
    BY <2>3, <2>7
<1>12. Takes(n, t) <=> ~IsEmpty(c.zone) /\ Satisfiable(c.pathCondition)
  <2> HIDE DEF A, B, S
  <2> QED
    BY <1>7, <1>9, <1>10, <1>11
<1> QED
  BY <1>12 DEF c, isReachable, TakenIfCan

-----------------------------------------------------------------------------
(* The order of the children.                                              *)

\* f gives every child of p the place of the transition it is due to, among the
\* first k of out; the order is the same, and no place that is taken is missing.
PlacedBy(z, p, out, k, f) ==
    LET C == ChildStates(z, p)
    IN  /\ f \in [C -> (1..k) \cap DOMAIN out]
        /\ \A c, d \in C : c < d => f[c] < f[d]
        /\ \A c \in C : Taken(z, p, out[f[c]]) /\ Content(z[c]) = NextContent(z[p], out[f[c]])
        /\ \A j \in (1..k) \cap DOMAIN out : Taken(z, p, out[j]) => \E c \in C : f[c] = j
Placed(z, p, out, k) == \E f : PlacedBy(z, p, out, k, f)

\* A state without children.
LEMMA PlacedNone ==
    ASSUME NEW z, NEW p, NEW out, ChildStates(z, p) = {}
    PROVE  Placed(z, p, out, 0)
<1>1. 1..0 = {}
  OBVIOUS
<1> DEFINE f == [c \in {} |-> 0]
<1>2. f \in [{} -> (1..0) \cap DOMAIN out]
  BY <1>1
<1>3. PlacedBy(z, p, out, 0, f)
  BY <1>1, <1>2 DEF PlacedBy
<1> QED
  BY <1>3 DEF Placed

\* A transition that gets no child.
LEMMA PlacedCut ==
    ASSUME NEW z, NEW p, NEW out, NEW k \in Nat, Placed(z, p, out, k),
           ~Taken(z, p, out[k + 1])
    PROVE  Placed(z, p, out, k + 1)
<1>1. PICK f : PlacedBy(z, p, out, k, f)
  BY DEF Placed
<1>2. 1..k + 1 = (1..k) \cup {k + 1}
  OBVIOUS
<1> DEFINE C == ChildStates(z, p)
<1>3. f \in [C -> (1..k + 1) \cap DOMAIN out]
  BY <1>1, <1>2 DEF PlacedBy
<1>4. ASSUME NEW j \in (1..k + 1) \cap DOMAIN out, Taken(z, p, out[j])
      PROVE  \E c \in C : f[c] = j
  <2>1. j \in (1..k) \cap DOMAIN out
    BY <1>2, <1>4
  <2> QED
    BY <1>1, <1>4, <2>1 DEF PlacedBy
<1>5. PlacedBy(z, p, out, k + 1, f)
  BY <1>1, <1>3, <1>4 DEF PlacedBy
<1> QED
  BY <1>5 DEF Placed

\* A transition that gets one, which comes after the others.
LEMMA PlacedExtend ==
    ASSUME NEW z, Shaped(z), NEW p \in 1..Len(z), NEW out, NEW k \in Nat,
           Placed(z, p, out, k), k + 1 \in DOMAIN out, Taken(z, p, out[k + 1]),
           NEW n, Content(n) = NextContent(z[p], out[k + 1]),
           NEW bigger, WithChild(z, p, n, bigger)
    PROVE  Placed(bigger, p, out, k + 1)
<1> DEFINE new == Len(z) + 1
           C == ChildStates(z, p)
           D == ChildStates(bigger, p)
           P == (1..k) \cap DOMAIN out
           Q == (1..k + 1) \cap DOMAIN out
<1>1. PICK f : PlacedBy(z, p, out, k, f)
  BY DEF Placed
<1>2. /\ f \in [C -> P]
      /\ \A c, d \in C : c < d => f[c] < f[d]
      /\ \A c \in C : Taken(z, p, out[f[c]]) /\ Content(z[c]) = NextContent(z[p], out[f[c]])
      /\ \A j \in P : Taken(z, p, out[j]) => \E c \in C : f[c] = j
  BY <1>1 DEF PlacedBy
<1>3. D = C \cup {new}
  BY ChildrenAppended
<1>4. /\ \A q \in 1..Len(z) : bigger[q] = z[q]
      /\ bigger[new] = n
      /\ \A t : Taken(bigger, p, t) <=> Taken(z, p, t)
  BY Extended
<1>5. C \subseteq 1..Len(z) /\ Len(z) \in Nat /\ new \notin C
      /\ \A c \in C : c < new /\ ~(new < c)
  <2>1. Len(z) \in Nat /\ DOMAIN z = 1..Len(z)
    BY DEF Shaped
  <2>2. C \subseteq 1..Len(z)
    BY <2>1 DEF ChildStates
  <2> HIDE DEF C
  <2> QED
    BY <2>1, <2>2
<1>6. Q = P \cup {k + 1} /\ P \subseteq Q /\ \A j \in P : j < k + 1
  BY 1..k + 1 = (1..k) \cup {k + 1}
<1> DEFINE g == [c \in D |-> IF c = new THEN k + 1 ELSE f[c]]
<1> HIDE DEF C, D, P, Q, new
<1>7. g \in [D -> Q] /\ g[new] = k + 1 /\ \A c \in C : g[c] = f[c]
  BY <1>2, <1>3, <1>5, <1>6
<1> HIDE DEF g
<1>8. ASSUME NEW c \in D, NEW d \in D, c < d PROVE g[c] < g[d]
  <2>1. CASE c \in C /\ d \in C
    BY <1>2, <1>7, <1>8, <2>1
  <2>2. CASE c \in C /\ d = new
    BY <1>2, <1>6, <1>7, <2>2
  <2>3. CASE c = new
    <3>1. d \in C \/ d = new
      BY <1>3
    <3>2. new \in Nat
      BY <1>5 DEF new
    <3> QED
      BY <1>5, <1>8, <2>3, <3>1, <3>2
  <2> QED
    BY <1>3, <2>1, <2>2, <2>3
<1>9. ASSUME NEW c \in D
      PROVE  Taken(bigger, p, out[g[c]]) /\ Content(bigger[c]) = NextContent(bigger[p], out[g[c]])
  <2>1. bigger[p] = z[p]
    BY <1>4
  <2>2. CASE c \in C
    <3>1. bigger[c] = z[c]
      BY <1>4, <1>5, <2>2
    <3> QED
      BY <1>2, <1>4, <1>7, <2>1, <2>2, <3>1
  <2>3. CASE c = new
    BY <1>4, <1>7, <2>1, <2>3
  <2> QED
    BY <1>3, <2>2, <2>3
<1>10. ASSUME NEW j \in Q, Taken(bigger, p, out[j]) PROVE \E c \in D : g[c] = j
  <2>1. CASE j \in P
    <3>1. PICK c \in C : f[c] = j
      BY <1>2, <1>4, <1>10, <2>1
    <3> QED
      BY <1>3, <1>7, <3>1
  <2>2. CASE j = k + 1
    BY <1>3, <1>7, <2>2
  <2> QED
    BY <1>6, <2>1, <2>2
<1>11. PlacedBy(bigger, p, out, k + 1, g)
  BY <1>7, <1>8, <1>9, <1>10 DEF PlacedBy, D, Q
<1> QED
  BY <1>11 DEF Placed

(* The children of the current state are in the order of the transitions   *)
(* that have been tried.                                                   *)
BInv == current # 0 /\ silent = 0 => Placed(zset, current, OutTransitions, i - 1)

(* Every step of the walk keeps it.                                        *)
THEOREM BranchesPlaced == Spec => []BInv
<1>1. Init => BInv
  BY DEF Init, BInv
<1>2. XInv /\ XInv' /\ BInv /\ [Next]_vars => BInv'
  <2> SUFFICES ASSUME XInv, XInv', BInv, [Next]_vars, current' # 0, silent' = 0
               PROVE  Placed(zset', current', OutTransitions', i' - 1)
    BY DEF BInv
  <2>1. /\ i \in Nat \ {0} /\ silent \in Nat /\ Shaped(zset)
    BY Chains, SilentAssumption DEF XInv, IInv, TypeOK
  <2>2. CASE Start
    <3>1. current' = current /\ current = 0
      BY <2>2 DEF Start, XInv, IInv
    <3> QED
      BY <3>1
  <2>3. CASE NoSolver
    BY <2>3 DEF NoSolver, Raise
  <2>4. CASE Pick
    <3>1. i' = 1 /\ i' - 1 = 0
      BY <2>4 DEF Pick
    <3>2. /\ Queued(zset', unvisited', current')
          /\ Explored(product', zset', unvisited', current',
                      Before(product', zset', current', i'), silent')
      BY DEF XInv
    <3>3. current' \in 1..Len(zset') /\ current' \notin Range(unvisited')
      BY <3>2 DEF Queued
    <3>4. Before(product', zset', current', i') = {}
      BY <3>1, BeforeFirst
    <3>5. GrownAt(zset', current', {})
      BY <3>2, <3>3, <3>4 DEF Explored, Tried
    <3>6. ChildStates(zset', current') = {}
      BY <3>5 DEF GrownAt
    <3> QED
      BY <3>1, <3>6, PlacedNone
  <2>5. CASE Throw
    BY <2>5 DEF Throw, Raise
  \* One of the transitions of the current state.
  <2>6. ASSUME InLoop, Continue
        PROVE  /\ i' - 1 = (i - 1) + 1 /\ (i - 1) + 1 = i /\ i - 1 \in Nat
               /\ current' = current /\ current \in 1..Len(zset) /\ i \in DOMAIN OutTransitions
    <3>1. i' = i + 1 /\ current' = current
      BY <2>6 DEF Continue
    <3>2. current \in 1..Len(zset) /\ i \in DOMAIN OutTransitions
      BY <2>6, TakenNow
    <3> QED
      BY <2>1, <3>1, <3>2
  <2>7. CASE Extend
    <3> DEFINE out == OutTransitions
               t == out[i]
               z == zset
               p == current
               n == nextZSES
    <3>1. InLoop /\ Continue /\ silent' = silent /\ zset' = Append(z, n)
          /\ isReachable(n) /\ ~upperBoundReached(n.location, CurrentZSES)
      BY <2>7 DEF Extend, Solved
    <3>2. /\ p \in 1..Len(z) /\ i \in DOMAIN out /\ Content(n) = NextContent(z[p], t)
          /\ n.ancestry = Append(z[p].ancestry, Len(z) + 1) /\ Taken(z, p, t)
      BY <3>1, TakenNow
    <3>3. WithChild(z, p, n, zset')
      BY <3>1, <3>2 DEF WithChild
    <3>4. zset'[p] = z[p]
      BY <2>1, <3>2, <3>3, Extended
    <3>5. OutTransitions' = out
      <4>1. product' = product /\ current' = current
        BY <3>1 DEF Continue
      <4> QED
        BY <3>4, <4>1 DEF OutTransitions, CurrentZSES
    <3>6. Placed(z, p, out, i - 1)
      BY <3>1, <3>2, <2>1 DEF BInv
    <3> HIDE DEF n, out, z, p
    <3>7. Placed(zset', p, out, (i - 1) + 1)
      <4>1. /\ (i - 1) + 1 = i /\ i - 1 \in Nat
        BY <2>1
      <4> DEFINE k == i - 1
                 bigger == zset'
      <4>2. /\ k \in Nat /\ Shaped(z) /\ k + 1 \in DOMAIN out /\ Taken(z, p, out[k + 1])
            /\ Content(n) = NextContent(z[p], out[k + 1]) /\ Placed(z, p, out, k)
            /\ WithChild(z, p, n, bigger) /\ p \in 1..Len(z)
        BY <2>1, <3>2, <3>3, <3>6, <4>1 DEF z
      <4> HIDE DEF k, bigger
      <4>3. Placed(bigger, p, out, k + 1)
        BY ONLY <4>2, PlacedExtend
      <4> QED
        BY <4>3 DEF k, bigger
    <3> QED
      BY <2>6, <3>1, <3>5, <3>7 DEF p
  <2>8. CASE Cut
    <3> DEFINE out == OutTransitions
               t == out[i]
               z == zset
               p == current
    <3>1. InLoop /\ Continue /\ silent' = silent /\ zset' = z
          /\ ~(isReachable(nextZSES) /\ ~upperBoundReached(nextZSES.location, CurrentZSES))
      BY <2>8 DEF Cut, Solved
    <3>2. p \in 1..Len(z) /\ ~Taken(z, p, t)
      BY <3>1, TakenNow
    <3>3. OutTransitions' = out
      <4>1. product' = product /\ current' = current
        BY <3>1 DEF Continue
      <4> QED
        BY <3>1, <4>1 DEF OutTransitions, CurrentZSES
    <3>4. Placed(z, p, out, i - 1)
      BY <3>1, <3>2, <2>1 DEF BInv
    <3>5. (i - 1) + 1 = i /\ i - 1 \in Nat /\ ~Taken(z, p, out[(i - 1) + 1])
      BY <2>1, <3>2
    <3> HIDE DEF out, z, p
    <3>6. Placed(z, p, out, (i - 1) + 1)
      BY <3>4, <3>5, PlacedCut
    <3> QED
      BY <2>6, <3>1, <3>3, <3>6 DEF p
  <2>9. CASE Silent
    <3>1. silent' = silent + 1
      BY <2>9 DEF Silent
    <3> QED
      BY <2>1, <3>1
  <2>10. CASE Leave
    BY <2>10 DEF Leave
  <2>11. CASE Return
    <3>1. current' = current /\ current = 0
      BY <2>11 DEF Return
    <3> QED
      BY <3>1
  <2>12. CASE UNCHANGED vars
    <3>1. /\ zset' = zset /\ current' = current /\ i' = i /\ silent' = silent
          /\ product' = product
      BY <2>12 DEF vars
    <3>2. OutTransitions' = OutTransitions
      BY <3>1 DEF OutTransitions, CurrentZSES
    <3> QED
      BY <3>1, <3>2 DEF BInv
  <2> QED
    BY <2>2, <2>3, <2>4, <2>5, <2>7, <2>8, <2>9, <2>10, <2>11, <2>12 DEF Next
<1> QED
  BY <1>1, <1>2, Exploration, PTL DEF Spec

\* f lists T as S is listed.
SameOrder(S, T, f) ==
    /\ Cardinality(S) = Cardinality(T) /\ Cardinality(S) \in Nat
    /\ \A q \in 1..Cardinality(S) : Ascending(S)[q] \in S /\ Ascending(T)[q] = f[Ascending(S)[q]]

\* Two sets of numbers have the same order if one is mapped onto the other such
\* that smaller numbers go to smaller ones.
LEMMA MappedInOrder ==
    ASSUME NEW n \in Nat, NEW S \in SUBSET (1..n), NEW m \in Nat, NEW T \in SUBSET (1..m),
           NEW f \in [S -> T], \A j, k \in S : j < k => f[j] < f[k],
           \A y \in T : \E k \in S : f[k] = y
    PROVE  SameOrder(S, T, f)
<1>1. /\ IsFiniteSet(S) /\ Cardinality(S) \in Nat
      /\ \A q \in 1..Cardinality(S) : \E k \in S : Rank(S, k) = q - 1
  BY Ranks
<1>2. /\ IsFiniteSet(T) /\ Cardinality(T) \in Nat
      /\ \A k \in T : Rank(T, k) \in 0..Cardinality(T) - 1
      /\ \A j, k \in T : j < k => Rank(T, j) < Rank(T, k)
      /\ \A q \in 1..Cardinality(T) : \E k \in T : Rank(T, k) = q - 1
  BY Ranks
<1>3. /\ \A k \in S : k \in Nat
      /\ \A k \in T : k \in Nat
  OBVIOUS
<1>4. ASSUME NEW j \in S, NEW k \in S, f[j] = f[k] PROVE j = k
  <2>1. f[j] \in Nat /\ f[k] \in Nat /\ j \in Nat /\ k \in Nat
    BY <1>3
  <2>2. ~(j < k) /\ ~(k < j)
    BY <1>4, <2>1
  <2> QED
    BY <2>1, <2>2
<1>5. ASSUME NEW j \in S, NEW k \in S PROVE j < k <=> f[j] < f[k]
  <2>1. f[j] \in Nat /\ f[k] \in Nat /\ j \in Nat /\ k \in Nat
    BY <1>3
  <2>2. k < j => f[k] < f[j]
    OBVIOUS
  <2>3. j < k => f[j] < f[k]
    OBVIOUS
  <2>4. j = k => f[j] = f[k]
    OBVIOUS
  <2> QED
    BY <2>1, <2>2, <2>3, <2>4
<1>6. ASSUME NEW A, A \subseteq S, IsFiniteSet(A),
             NEW B, B = {f[k] : k \in A}
      PROVE  Cardinality(A) = Cardinality(B)
  <2> DEFINE g == [k \in A |-> f[k]]
  <2>1. g \in Surjection(A, B)
    BY <1>6 DEF Surjection
  <2>2. g \in Injection(A, B)
    BY <1>4, <1>6 DEF Injection, IsInjective
  <2>3. ExistsBijection(A, B)
    BY <2>1, <2>2 DEF ExistsBijection, Bijection
  <2> QED
    BY <1>6, <2>3, FS_Bijection
<1>7. Cardinality(S) = Cardinality(T)
  <2>1. T = {f[k] : k \in S}
    OBVIOUS
  <2> QED
    BY <1>1, <1>6, <2>1
<1>8. ASSUME NEW k \in S PROVE Rank(T, f[k]) = Rank(S, k)
  <2> DEFINE A == {j \in S : j < k}
             B == {y \in T : y < f[k]}
  <2>1. A \subseteq S /\ IsFiniteSet(A)
    BY <1>1, FS_Subset
  <2>2. B = {f[j] : j \in A}
    <3>1. ASSUME NEW y \in B PROVE y \in {f[j] : j \in A}
      <4>1. PICK j \in S : f[j] = y
        OBVIOUS
      <4>2. j < k
        BY <1>5, <4>1
      <4> QED
        BY <4>1, <4>2
    <3>2. ASSUME NEW j \in A PROVE f[j] \in B
      BY <1>5
    <3> QED
      BY <3>1, <3>2
  <2> HIDE DEF A, B
  <2>3. Cardinality(A) = Cardinality(B)
    BY <1>6, <2>1, <2>2
  <2> QED
    BY <2>3 DEF Rank, A, B
<1>9. ASSUME NEW q \in 1..Cardinality(S)
      PROVE  Ascending(S)[q] \in S /\ Ascending(T)[q] = f[Ascending(S)[q]]
  <2> DEFINE x == Ascending(S)[q]
             y == Ascending(T)[q]
  <2>1. x = CHOOSE k \in S : Rank(S, k) = q - 1
    BY DEF Ascending, Rank
  <2>2. y = CHOOSE k \in T : Rank(T, k) = q - 1
    BY <1>7 DEF Ascending, Rank
  <2> HIDE DEF x, y
  <2>3. x \in S /\ Rank(S, x) = q - 1
    <3>1. \E k \in S : Rank(S, k) = q - 1
      BY <1>1
    <3> QED
      BY <2>1, <3>1
  <2>4. y \in T /\ Rank(T, y) = q - 1
    <3>1. \E k \in T : Rank(T, k) = q - 1
      BY <1>2, <1>7
    <3> QED
      BY <2>2, <3>1
  <2>5. f[x] \in T /\ Rank(T, f[x]) = q - 1
    BY <1>8, <2>3
  <2>6. y \in Nat /\ f[x] \in Nat /\ q - 1 \in Int
    <3>1. q \in Nat
      <4> DEFINE c == Cardinality(S)
      <4>1. c \in Nat /\ q \in 1..c
        BY <1>1
      <4> HIDE DEF c
      <4> QED
        BY <4>1
    <3>2. y \in Nat
      BY <1>3, <2>4
    <3>3. f[x] \in Nat
      BY <1>3, <2>5
    <3> QED
      BY <3>1, <3>2, <3>3
  <2>7. y < f[x] => Rank(T, y) < Rank(T, f[x])
    BY <1>2, <2>4, <2>5
  <2>8. f[x] < y => Rank(T, f[x]) < Rank(T, y)
    BY <1>2, <2>4, <2>5
  <2>9. y = f[x]
    BY <2>4, <2>5, <2>6, <2>7, <2>8
  <2> QED
    BY <2>3, <2>9 DEF x, y
<1> QED
  BY <1>1, <1>7, <1>9 DEF SameOrder

\* The chain that is looked along is that of the state.
LEMMA BoundAlong ==
    ASSUME NEW z, Shaped(z), NEW p \in 1..Len(z), NEW l
    PROVE  /\ IsFiniteSet(VisitsAlong(z, z[p].ancestry, l))
           /\ ~(Cardinality(VisitsAlong(z, z[p].ancestry, l)) >= 2)
                  <=> Cardinality(VisitsAlong(z, z[p].ancestry, l)) < 2
<1> DEFINE a == z[p].ancestry
           V == VisitsAlong(z, a, l)
<1>1. a \in Seq(1..Len(z)) /\ Len(a) \in Nat
  BY ChainEnds
<1> HIDE DEF a
<1>2. V \subseteq 1..Len(a)
  <2>1. DOMAIN a = 1..Len(a)
    BY <1>1
  <2> QED
    BY <2>1 DEF VisitsAlong
<1> HIDE DEF V
<1>3. IsFiniteSet(V)
  <2>1. IsFiniteSet(1..Len(a))
    BY <1>1, FS_Interval
  <2> QED
    BY <1>2, <2>1, FS_Subset
<1>4. Cardinality(V) \in Nat
  BY <1>3, FS_CardinalityType
<1>5. ~(Cardinality(V) >= 2) <=> Cardinality(V) < 2
  BY <1>4
<1> QED
  BY <1>3, <1>5 DEF V, a

(* The children of a state are the branches the model has: if every run of *)
(* a solver answers, names are in scope and declared, and texts need no    *)
(* parentheses, a state whose transitions have been tried has a child for  *)
(* each that the model can take from some state it stands for, to a        *)
(* location that is on its path less than twice, and no other, in the      *)
(* order of the transitions.                                               *)
THEOREM BranchesAreExact ==
    GenerationSpec => []BranchesExact
<1>1. XInv /\ NInv /\ BInv => BranchesExact
  <2> DEFINE z == zset
             p == current
             out == OutTransitions
             len == Len(OutTransitions)
             due == {j \in DOMAIN OutTransitions :
                        /\ Takes(CurrentZSES, OutTransitions[j])
                        /\ Cardinality(Visits(CurrentZSES, OutTransitions[j].target)) < 2}
             C == ChildStates(zset, current)
             places == Ascending(due)
             children == Children(zset, current)
  <2> SUFFICES ASSUME XInv, NInv, BInv, NamesInScope, NamesDeclared,
                      silent = 0, current # 0, i = len + 1,
                      \A j \in DOMAIN out : Plain(CurrentZSES.pathCondition, out[j])
               PROVE  [c \in DOMAIN children |-> z[children[c]].transition]
                          = [c \in DOMAIN places |-> out[places[c]]]
    BY DEF BranchesExact
  <2>1. /\ product \in Products /\ Shaped(z) /\ Scoped(product) /\ p \in 1..Len(z)
        /\ Len(z) \in Nat /\ z[p].location \in Label /\ Fresh(product, z[p])
    <3>1. product \in Products /\ Shaped(z) /\ Scoped(product)
      BY Chains, ScopedNames DEF XInv, IInv, TypeOK
    <3>2. p \in 1..Len(z) /\ Len(z) \in Nat
      BY <3>1 DEF XInv, Queued, Shaped
    <3> QED
      BY <3>1, <3>2 DEF Shaped, NInv
  <2>2. len \in Nat /\ DOMAIN out = 1..len /\ \A j \in 1..len : out[j] \in Outs(product)
    <3>1. out = product.out[z[p].location]
      BY DEF OutTransitions, CurrentZSES
    <3>2. out \in Seq(UNION {Range(product.out[l]) : l \in Label})
      BY <2>1, <3>1, ProductsAssumption
    <3> HIDE DEF out
    <3>3. Len(out) \in Nat /\ DOMAIN out = 1..Len(out)
          /\ \A j \in 1..Len(out) : out[j] \in UNION {Range(product.out[l]) : l \in Label}
      BY <3>2
    <3> QED
      BY <3>3 DEF out, Outs
  <2>3. ASSUME NEW j \in 1..len
        PROVE  j \in due <=> Taken(z, p, out[j])
    <3> DEFINE t == out[j]
               n == z[p]
               pr == product
    <3>1. /\ pr \in Products /\ Scoped(pr) /\ Undeclared(pr) = {} /\ t \in Outs(pr)
          /\ Fresh(pr, n) /\ Plain(n.pathCondition, t)
      BY <2>1, <2>2, DeclaredNames DEF CurrentZSES
    <3>2. j \in due <=> Takes(n, t) /\ Cardinality(VisitsAlong(z, n.ancestry, t.target)) < 2
      BY <2>2 DEF CurrentZSES, Visits, VisitsAlong
    <3>3. ~(Cardinality(VisitsAlong(z, n.ancestry, t.target)) >= 2)
             <=> Cardinality(VisitsAlong(z, n.ancestry, t.target)) < 2
      BY <2>1, BoundAlong
    <3> HIDE DEF pr, n, t
    <3>4. TakenIfCan(n, t)
      BY ONLY <3>1, TakenAsInModel
    <3> HIDE DEF due
    <3> QED
      BY <3>2, <3>3, <3>4 DEF TakenIfCan, Taken, n, t
  <2>4. due \subseteq 1..len
    BY <2>2
  <2> HIDE DEF due
  <2>5. PICK f : PlacedBy(z, p, out, i - 1, f)
    BY DEF BInv, Placed
  <2>6. (1..i - 1) \cap DOMAIN out = 1..len
    BY <2>2
  <2> HIDE DEF out, len
  <2>7. /\ f \in [C -> 1..len]
        /\ \A c, d \in C : c < d => f[c] < f[d]
        /\ \A c \in C : Taken(z, p, out[f[c]]) /\ Content(z[c]) = NextContent(z[p], out[f[c]])
        /\ \A j \in 1..len : Taken(z, p, out[j]) => \E c \in C : f[c] = j
    BY <2>5, <2>6 DEF PlacedBy
  <2>8. C \in SUBSET (1..Len(z))
    <3>1. DOMAIN z = 1..Len(z)
      BY <2>1 DEF Shaped
    <3> QED
      BY <3>1 DEF ChildStates
  <2>9. children = Ascending(C)
    BY DEF Children
  <2> HIDE DEF C, z, p, children
  <2>10. f \in [C -> due]
    BY <2>3, <2>7
  <2>11. \A y \in due : \E c \in C : f[c] = y
    BY <2>3, <2>4, <2>7
  <2>12. SameOrder(C, due, f)
    <3>1. Len(z) \in Nat /\ len \in Nat /\ due \in SUBSET (1..len)
      BY <2>1, <2>2, <2>4
    <3> QED
      BY <3>1, <2>7, <2>8, <2>10, <2>11, MappedInOrder
  <2>13. DOMAIN children = 1..Cardinality(C) /\ DOMAIN places = 1..Cardinality(C)
    BY <2>9, <2>12 DEF SameOrder, Ascending
  <2>14. ASSUME NEW c \in 1..Cardinality(C)
         PROVE  z[children[c]].transition = out[places[c]]
    <3>1. children[c] \in C /\ places[c] = f[children[c]]
      BY <2>9, <2>12 DEF SameOrder
    <3>2. Content(z[children[c]]) = NextContent(z[p], out[places[c]])
      BY <2>7, <3>1
    <3> QED
      BY <3>2 DEF Content, NextContent
  <2> HIDE DEF places
  <2> QED
    BY <2>13, <2>14
<1>2. GenerationSpec => []XInv
  BY ImplementsWalk, Exploration, PTL
<1>3. GenerationSpec => []NInv
  BY ImplementsWalk, NamesRead, PTL
<1>4. GenerationSpec => []BInv
  BY ImplementsWalk, BranchesPlaced, PTL
<1> QED
  BY <1>1, <1>2, <1>3, <1>4, PTL
=============================================================================
