------------------------- MODULE Compositions_proofs -------------------------
(***************************************************************************)
(* Proofs about Compositions: what the loops of the operators keep, what   *)
(* each operator makes of its arguments, and the properties of every       *)
(* sequence of calls.                                                      *)
(***************************************************************************)
EXTENDS Compositions, TIOSTS_proofs

-----------------------------------------------------------------------------
(* Loops.                                                                  *)

\* The values of a loop over xs after its first rounds, n of them.
IsIteration(f, step, start, xs, n) ==
    f = [k \in 0..n |-> IF k = 0 THEN start ELSE step[f[k - 1]][xs[k]]]

\* One round more.
OneMore(f, step, xs, n) ==
    [k \in 0..(n + 1) |-> IF k = n + 1 THEN step[f[n]][xs[n + 1]] ELSE f[k]]

(* A loop can go on for one round more.                                    *)
LEMMA IterationGoesOn ==
    ASSUME NEW step, NEW start, NEW xs, NEW n \in Nat, NEW f,
           IsIteration(f, step, start, xs, n)
    PROVE  IsIteration(OneMore(f, step, xs, n), step, start, xs, n + 1)
<1> DEFINE g == OneMore(f, step, xs, n)
           body(h, k) == IF k = 0 THEN start ELSE step[h[k - 1]][xs[k]]
<1>1. /\ g = [k \in 0..(n + 1) |-> IF k = n + 1 THEN step[f[n]][xs[n + 1]] ELSE f[k]]
      /\ f = [k \in 0..n |-> body(f, k)]
  BY DEF OneMore, IsIteration
<1>2. ASSUME NEW k \in 0..(n + 1) PROVE g[k] = body(g, k)
  <2>1. CASE k = n + 1
    <3>1. n \in 0..(n + 1) /\ n # n + 1 /\ k - 1 = n /\ k # 0 /\ k \in 0..(n + 1)
      BY <2>1
    <3>2. g[n] = f[n] /\ g[k] = step[f[n]][xs[n + 1]]
      BY <1>1, <2>1, <3>1
    <3> QED
      BY <2>1, <3>1, <3>2
  <2>2. CASE k # n + 1 /\ k = 0
    <3>1. 0 \in 0..n /\ g[k] = f[0] /\ f[0] = body(f, 0)
      BY <1>1, <2>2
    <3> QED
      BY <2>2, <3>1
  <2>3. CASE k # n + 1 /\ k # 0
    <3>1. k \in 0..n /\ k - 1 \in 0..n /\ k - 1 \in 0..(n + 1) /\ k - 1 # n + 1
      BY <2>3
    <3>2. f[k] = body(f, k)
      BY <1>1, <3>1
    <3>3. g[k] = f[k] /\ g[k - 1] = f[k - 1]
      BY <1>1, <2>3, <3>1
    <3> QED
      BY <2>3, <3>2, <3>3
  <2> QED
    BY <2>1, <2>2, <2>3
<1>3. g = [k \in 0..(n + 1) |-> g[k]]
  BY <1>1
<1> HIDE DEF g
<1>4. g = [k \in 0..(n + 1) |-> body(g, k)]
  BY <1>2, <1>3
<1> QED
  BY <1>4 DEF IsIteration, g

(* Every loop ends: there is a last number of rounds it can go on for, and *)
(* that is the length of its list.                                         *)
LEMMA IterationExists ==
    ASSUME NEW step, NEW start, NEW xs, NEW N \in Nat
    PROVE  \E f : IsIteration(f, step, start, xs, N)
<1> DEFINE goes(n) == \E f : IsIteration(f, step, start, xs, n)
           I == {i \in 1..(N + 1) : goes(i - 1)}
<1>1. goes(0)
  <2>1. [k \in 0..0 |-> start]
           = [k \in 0..0 |-> IF k = 0 THEN start ELSE step[[j \in 0..0 |-> start][k - 1]][xs[k]]]
    OBVIOUS
  <2>2. IsIteration([k \in 0..0 |-> start], step, start, xs, 0)
    BY <2>1 DEF IsIteration
  <2> QED
    BY <2>2
<1>2. ASSUME NEW n \in Nat, goes(n) PROVE goes(n + 1)
  BY <1>2, IterationGoesOn
<1> HIDE DEF goes
<1>3. N + 1 \in Nat /\ I \in SUBSET (1..(N + 1)) /\ I # {}
  <2>1. 1 \in 1..(N + 1) /\ 1 - 1 = 0 /\ N + 1 \in Nat
    OBVIOUS
  <2>2. 1 \in I
    BY <1>1, <2>1
  <2> QED
    BY <2>1, <2>2
<1>4. PICK i \in I : \A j \in I : j <= i
  <2> HIDE DEF I
  <2> QED
    BY <1>3, HasLast
<1>5. i = N + 1
  <2> SUFFICES ASSUME i # N + 1 PROVE FALSE
    OBVIOUS
  <2>1. i - 1 \in Nat /\ (i - 1) + 1 = i /\ i + 1 \in 1..(N + 1) /\ (i + 1) - 1 = i
    BY <1>4
  <2>2. goes(i)
    BY <1>2, <1>4, <2>1
  <2>3. i + 1 \in I
    BY <2>1, <2>2
  <2> QED
    BY <1>4, <2>1, <2>3
<1>6. goes(N)
  BY <1>4, <1>5
<1> QED
  BY <1>6 DEF goes

(* Loop is what its body makes of the last value but one.                  *)
LEMMA LoopIsIteration ==
    ASSUME NEW step, NEW start, NEW xs, Len(xs) \in Nat
    PROVE  \E f : IsIteration(f, step, start, xs, Len(xs)) /\ Loop(step, start, xs) = f[Len(xs)]
<1> DEFINE f == CHOOSE g : IsIteration(g, step, start, xs, Len(xs))
<1>1. IsIteration(f, step, start, xs, Len(xs))
  BY IterationExists
<1>2. Loop(step, start, xs) = f[Len(xs)]
  BY DEF Loop, IsIteration
<1> QED
  BY <1>1, <1>2

(* What holds at the start of an iteration, and is kept by each round,     *)
(* holds at its end.                                                       *)
LEMMA IterationStays ==
    ASSUME NEW step, NEW start, NEW xs, NEW N \in Nat, NEW f,
           IsIteration(f, step, start, xs, N), NEW S, start \in S[0],
           \A k \in 1..N : \A q \in S[k - 1] : step[q][xs[k]] \in S[k]
    PROVE  f[N] \in S[N]
<1>1. /\ f[0] = start
      /\ \A k \in 1..N : f[k] = step[f[k - 1]][xs[k]]
  <2>1. f = [k \in 0..N |-> IF k = 0 THEN start ELSE step[f[k - 1]][xs[k]]]
    BY DEF IsIteration
  <2>2. 0 \in 0..N /\ \A k \in 1..N : k \in 0..N /\ k # 0
    OBVIOUS
  <2> QED
    BY <2>1, <2>2
<1> DEFINE I == {i \in 1..(N + 1) : f[i - 1] \in S[i - 1]}
<1>2. N + 1 \in Nat /\ I \in SUBSET (1..(N + 1)) /\ I # {}
  <2>1. 1 \in 1..(N + 1) /\ 1 - 1 = 0 /\ N + 1 \in Nat
    OBVIOUS
  <2>2. f[1 - 1] \in S[1 - 1]
    BY <1>1, <2>1
  <2>3. 1 \in I
    BY <2>1, <2>2
  <2> QED
    BY <2>1, <2>3
<1>3. PICK i \in I : \A j \in I : j <= i
  <2> HIDE DEF I
  <2> QED
    BY <1>2, HasLast
<1>4. i = N + 1
  <2> SUFFICES ASSUME i # N + 1 PROVE FALSE
    OBVIOUS
  <2>1. i \in 1..N /\ i + 1 \in 1..(N + 1) /\ (i + 1) - 1 = i /\ ~(i + 1 <= i)
    BY <1>3
  <2>2. f[i - 1] \in S[i - 1]
    BY <1>3
  <2>3. f[i] \in S[i]
    BY <1>1, <2>1, <2>2
  <2>4. i + 1 \in I
    BY <2>1, <2>3
  <2> QED
    BY <1>3, <2>1, <2>4
<1>5. i - 1 = N /\ f[i - 1] \in S[i - 1]
  BY <1>3, <1>4
<1> QED
  BY <1>5

(* What holds before a loop, and is kept by each round, holds after it.    *)
LEMMA LoopStays ==
    ASSUME NEW step, NEW start, NEW xs, Len(xs) \in Nat, NEW S,
           start \in S[0],
           \A k \in 1..Len(xs) : \A q \in S[k - 1] : step[q][xs[k]] \in S[k]
    PROVE  Loop(step, start, xs) \in S[Len(xs)]
<1> DEFINE N == Len(xs)
<1>1. PICK f : IsIteration(f, step, start, xs, N) /\ Loop(step, start, xs) = f[N]
  BY LoopIsIteration
<1>2. N \in Nat /\ \A k \in 1..N : \A q \in S[k - 1] : step[q][xs[k]] \in S[k]
  OBVIOUS
<1> HIDE DEF N
<1>3. f[N] \in S[N]
  BY <1>1, <1>2, IterationStays
<1> QED
  BY <1>1, <1>3 DEF N

-----------------------------------------------------------------------------
(* Lists and their elements.                                               *)

\* The first k elements of a list.
First(xs, k) == {xs[i] : i \in 1..k}

(* The first elements of a list grow by one.                               *)
LEMMA FirstGrows ==
    ASSUME NEW T, NEW xs \in Seq(T)
    PROVE  /\ Len(xs) \in Nat /\ First(xs, 0) = {} /\ First(xs, Len(xs)) = Range(xs)
           /\ \A k \in 1..Len(xs) : /\ k - 1 \in 0..Len(xs) /\ k \in 0..Len(xs) /\ xs[k] \in T
                                    /\ First(xs, k) = First(xs, k - 1) \cup {xs[k]}
           /\ Range(xs) \subseteq T
<1>1. Len(xs) \in Nat /\ DOMAIN xs = 1..Len(xs) /\ \A i \in 1..Len(xs) : xs[i] \in T
  BY LenProperties, ElementOfSeq
<1>2. First(xs, 0) = {}
  <2>1. 1..0 = {}
    OBVIOUS
  <2> QED
    BY <2>1 DEF First
<1>3. First(xs, Len(xs)) = Range(xs)
  BY <1>1 DEF First, Range
<1>4. ASSUME NEW k \in 1..Len(xs)
      PROVE  /\ k - 1 \in 0..Len(xs) /\ k \in 0..Len(xs)
             /\ First(xs, k) = First(xs, k - 1) \cup {xs[k]}
  <2>1. k \in Nat /\ 1..k = (1..(k - 1)) \cup {k} /\ k - 1 \in 0..Len(xs) /\ k \in 0..Len(xs)
    BY <1>1
  <2> QED
    BY <2>1 DEF First
<1>5. Range(xs) \subseteq T
  BY <1>1 DEF Range
<1> QED
  BY <1>1, <1>2, <1>3, <1>4, <1>5

(* Kept leaves out the elements that are not in S.                         *)
LEMMA KeptElements ==
    ASSUME NEW ts \in Seq(Transition), NEW S
    PROVE  /\ Kept(ts, S) \in Seq(Transition)
           /\ Range(Kept(ts, S)) = Range(ts) \cap S
<1> DEFINE n == Len(ts)
           step == [s \in Seq(Transition) |->
                       [t \in Transition |-> IF t \in S THEN Append(s, t) ELSE s]]
           Q == [k \in 0..n |-> {s \in Seq(Transition) : Range(s) = First(ts, k) \cap S}]
<1>1. /\ n \in Nat /\ First(ts, 0) = {} /\ First(ts, n) = Range(ts)
      /\ \A k \in 1..n : /\ k - 1 \in 0..n /\ k \in 0..n /\ ts[k] \in Transition
                         /\ First(ts, k) = First(ts, k - 1) \cup {ts[k]}
  BY FirstGrows
<1>2. <<>> \in Q[0]
  <2>1. <<>> \in Seq(Transition) /\ Range(<<>>) = {} /\ 0 \in 0..n
    BY <1>1, EmptySeq DEF Range
  <2> QED
    BY <1>1, <2>1
<1>3. ASSUME NEW k \in 1..n, NEW q \in Q[k - 1] PROVE step[q][ts[k]] \in Q[k]
  <2>1. /\ k - 1 \in 0..n /\ k \in 0..n /\ ts[k] \in Transition
        /\ First(ts, k) = First(ts, k - 1) \cup {ts[k]}
    BY <1>1
  <2>2. q \in Seq(Transition) /\ Range(q) = First(ts, k - 1) \cap S
    BY <2>1
  <2>3. step[q][ts[k]] = IF ts[k] \in S THEN Append(q, ts[k]) ELSE q
    BY <2>1, <2>2
  <2>4. Append(q, ts[k]) \in Seq(Transition) /\ Range(Append(q, ts[k])) = Range(q) \cup {ts[k]}
    BY <2>1, <2>2, AppendProperties, RangeOfAppend
  <2>5. /\ step[q][ts[k]] \in Seq(Transition)
        /\ Range(step[q][ts[k]]) = First(ts, k) \cap S
    <3> HIDE DEF step
    <3>1. CASE ts[k] \in S
      BY <2>1, <2>2, <2>3, <2>4, <3>1
    <3>2. CASE ts[k] \notin S
      BY <2>1, <2>2, <2>3, <3>2
    <3> QED
      BY <3>1, <3>2
  <2> HIDE DEF step
  <2> QED
    BY <2>1, <2>5
<1>4. Kept(ts, S) = Loop(step, <<>>, ts)
  BY DEF Kept
<1>5. Loop(step, <<>>, ts) \in Q[n]
  <2> HIDE DEF step, Q
  <2> QED
    BY <1>1, <1>2, <1>3, LoopStays
<1>6. n \in 0..n
  BY <1>1
<1> HIDE DEF step
<1> QED
  BY <1>1, <1>4, <1>5, <1>6

(* Listed has every element of a finite set.                               *)
LEMMA ListedElements ==
    ASSUME NEW S, IsFiniteSet(S)
    PROVE  Listed(S) \in Seq(S) /\ Range(Listed(S)) = S
<1> DEFINE n == Cardinality(S)
           step == [s \in Seq(S) |-> [k \in 1..n |-> Append(s, CHOOSE x \in S \ Range(s) : TRUE)]]
           xs == [k \in 1..n |-> k]
           Q == [k \in 0..n |-> {s \in Seq(S) : Cardinality(Range(s)) = k}]
<1>1. n \in Nat /\ Len(xs) = n /\ \A k \in 1..n : xs[k] = k /\ k - 1 \in 0..n /\ k \in 0..n
  <2>1. n \in Nat
    BY FS_CardinalityType
  <2> HIDE DEF n
  <2> QED
    BY <2>1
<1>2. <<>> \in Q[0]
  <2>1. <<>> \in Seq(S) /\ Range(<<>>) = {} /\ Cardinality({}) = 0 /\ 0 \in 0..n
    BY <1>1, EmptySeq, FS_EmptySet DEF Range
  <2> QED
    BY <2>1
<1>3. ASSUME NEW k \in 1..n, NEW q \in Q[k - 1] PROVE step[q][xs[k]] \in Q[k]
  <2>1. xs[k] = k /\ k - 1 \in 0..n /\ k \in 0..n /\ k - 1 # n /\ (k - 1) + 1 = k
    BY <1>1
  <2>2. q \in Seq(S) /\ Cardinality(Range(q)) = k - 1
    BY <2>1
  <2>3. Range(q) \in SUBSET S
    BY <2>2, FirstGrows
  <2>4. S \ Range(q) # {} /\ IsFiniteSet(Range(q))
    <3>1. Range(q) # S /\ IsFiniteSet(Range(q))
      BY <2>1, <2>2, <2>3, FS_Subset
    <3> QED
      BY <2>3, <3>1
  <2>5. PICK x \in S \ Range(q) : x = CHOOSE y \in S \ Range(q) : TRUE
    BY <2>4
  <2>6. step[q][xs[k]] = Append(q, x)
    BY <2>1, <2>2, <2>5
  <2>7. Append(q, x) \in Seq(S) /\ Range(Append(q, x)) = Range(q) \cup {x}
    <3>1. x \in S /\ q \in Seq(S)
      BY <2>2, <2>5
    <3> QED
      BY ONLY <3>1, AppendProperties, RangeOfAppend
  <2>8. Cardinality(Range(q) \cup {x}) = k
    BY <2>1, <2>2, <2>4, <2>5, FS_AddElement
  <2> HIDE DEF step, xs, n
  <2> QED
    BY <2>1, <2>6, <2>7, <2>8
<1>4. Listed(S) = Loop(step, <<>>, xs)
  BY DEF Listed
<1>5. Loop(step, <<>>, xs) \in Q[n]
  <2> HIDE DEF step, Q, xs
  <2> QED
    BY <1>1, <1>2, <1>3, LoopStays
<1>6. Listed(S) \in Seq(S) /\ Cardinality(Range(Listed(S))) = n
  <2>1. n \in 0..n
    BY <1>1
  <2> HIDE DEF step, xs
  <2> QED
    BY <1>4, <1>5, <2>1
<1>7. Range(Listed(S)) \in SUBSET S
  BY <1>6, FirstGrows
<1> QED
  BY <1>6, <1>7, FS_Subset

(* The order in which the map of a clone is iterated has the transitions   *)
(* of its lists.                                                           *)
LEMMA InOrderElements ==
    ASSUME NEW c, IsFiniteSet(c.locations), \A l \in c.locations : c.out[l] \in Seq(Transition)
    PROVE  /\ InOrder(c) \in Seq(Transition)
           /\ Range(InOrder(c)) = OutTransitions(c)
<1> DEFINE ls == Listed(c.locations)
           n == Len(ls)
           step == [ts \in Seq(Transition) |-> [l \in c.locations |-> ts \o c.out[l]]]
           Q == [k \in 0..n |-> {ts \in Seq(Transition) :
                                    Range(ts) = UNION {Range(c.out[l]) : l \in First(ls, k)}}]
<1>1. ls \in Seq(c.locations) /\ Range(ls) = c.locations
  BY ListedElements
<1>2. /\ n \in Nat /\ First(ls, 0) = {} /\ First(ls, n) = c.locations
      /\ \A k \in 1..n : /\ k - 1 \in 0..n /\ k \in 0..n /\ ls[k] \in c.locations
                         /\ First(ls, k) = First(ls, k - 1) \cup {ls[k]}
  <2> HIDE DEF ls
  <2> QED
    BY <1>1, FirstGrows
<1>3. <<>> \in Q[0]
  <2>1. <<>> \in Seq(Transition) /\ Range(<<>>) = {} /\ 0 \in 0..n
    BY <1>2, EmptySeq DEF Range
  <2>2. UNION {Range(c.out[l]) : l \in First(ls, 0)} = {}
    BY <1>2
  <2> QED
    BY <2>1, <2>2
<1>4. ASSUME NEW k \in 1..n, NEW q \in Q[k - 1] PROVE step[q][ls[k]] \in Q[k]
  <2>1. /\ k - 1 \in 0..n /\ k \in 0..n /\ ls[k] \in c.locations
        /\ First(ls, k) = First(ls, k - 1) \cup {ls[k]}
    BY <1>2
  <2>2. /\ q \in Seq(Transition)
        /\ Range(q) = UNION {Range(c.out[l]) : l \in First(ls, k - 1)}
    BY <2>1
  <2>3. step[q][ls[k]] = q \o c.out[ls[k]] /\ c.out[ls[k]] \in Seq(Transition)
    BY <2>1, <2>2
  <2>4. q \o c.out[ls[k]] \in Seq(Transition)
    BY <2>2, <2>3, ConcatProperties
  <2>5. Range(q \o c.out[ls[k]]) = Range(q) \cup Range(c.out[ls[k]])
    BY <2>2, <2>3, RangeOfConcat
  <2>6. UNION {Range(c.out[l]) : l \in First(ls, k)}
           = (UNION {Range(c.out[l]) : l \in First(ls, k - 1)}) \cup Range(c.out[ls[k]])
    BY <2>1
  <2> HIDE DEF step, ls, n
  <2> QED
    BY <2>1, <2>2, <2>3, <2>4, <2>5, <2>6
<1>5. InOrder(c) = Loop(step, <<>>, ls)
  BY DEF InOrder
<1>6. Loop(step, <<>>, ls) \in Q[n]
  <2> HIDE DEF step, Q, ls
  <2> QED
    BY <1>2, <1>3, <1>4, LoopStays
<1>7. n \in 0..n
  BY <1>2
<1> HIDE DEF step, ls
<1> QED
  BY <1>2, <1>5, <1>6, <1>7 DEF OutTransitions

(* Location by location, the lists of a clone get the transitions of the   *)
(* map in some order.                                                      *)
LEMMA CopiesAreClones ==
    ASSUME NEW m \in Model, IsFiniteSet(m.locations), IsFiniteSet(m.transitions)
    PROVE  Copies(m) \subseteq Clones(m)
<1> DEFINE ls == Listed(m.locations)
           n == Len(ls)
           F == [m.locations -> Seq(Transition)]
           orders(l) == SetToSeqs(ClonedFrom(m, l))
           step == [fs \in SUBSET F |-> [l \in m.locations |->
                       {[f EXCEPT ![l] = ts] : f \in fs, ts \in orders(l)}]]
           start == {[l \in m.locations |-> <<>>]}
           Q == [k \in 0..n |-> SUBSET {f \in F : \A l \in First(ls, k) : f[l] \in orders(l)}]
<1>1. ls \in Seq(m.locations) /\ Range(ls) = m.locations
  BY ListedElements
<1>2. /\ n \in Nat /\ First(ls, 0) = {} /\ First(ls, n) = m.locations
      /\ \A k \in 1..n : /\ k - 1 \in 0..n /\ k \in 0..n /\ ls[k] \in m.locations
                         /\ First(ls, k) = First(ls, k - 1) \cup {ls[k]}
  <2> HIDE DEF ls
  <2> QED
    BY <1>1, FirstGrows
<1>3. \A l : orders(l) \subseteq Seq(Transition)
  <2> SUFFICES ASSUME NEW l, NEW ts \in orders(l) PROVE ts \in Seq(Transition)
    OBVIOUS
  <2>1. IsFiniteSet(ClonedFrom(m, l)) /\ ClonedFrom(m, l) \subseteq Transition
    BY ClonedFromType
  <2>2. ts \in Seq(ClonedFrom(m, l))
    BY <2>1, OrderingIsSequence
  <2> QED
    BY <2>1, <2>2, SeqMonotonic
<1>4. start \in Q[0]
  <2>1. <<>> \in Seq(Transition) /\ 0 \in 0..n
    BY <1>2, EmptySeq
  <2> HIDE DEF n
  <2> QED
    BY <1>2, <2>1
<1>5. ASSUME NEW k \in 1..n, NEW q \in Q[k - 1] PROVE step[q][ls[k]] \in Q[k]
  <2>1. /\ k - 1 \in 0..n /\ k \in 0..n /\ ls[k] \in m.locations
        /\ First(ls, k) = First(ls, k - 1) \cup {ls[k]}
    BY <1>2
  <2>2. q \in SUBSET F /\ \A f \in q : \A l \in First(ls, k - 1) : f[l] \in orders(l)
    BY <2>1
  <2>3. step[q][ls[k]] = {[f EXCEPT ![ls[k]] = ts] : f \in q, ts \in orders(ls[k])}
    BY <2>1, <2>2
  <2>4. ASSUME NEW f \in q, NEW ts \in orders(ls[k])
        PROVE  /\ [f EXCEPT ![ls[k]] = ts] \in F
               /\ \A l \in First(ls, k) : [f EXCEPT ![ls[k]] = ts][l] \in orders(l)
    <3>1. f \in F /\ ts \in Seq(Transition)
      BY <1>3, <2>2
    <3>2. [f EXCEPT ![ls[k]] = ts] \in F
      BY <3>1
    <3>3. First(ls, k) \subseteq m.locations
      <4>1. \A i \in 1..k : i \in 1..n
        BY <1>2
      <4> QED
        BY <1>2, <4>1 DEF First
    <3>4. ASSUME NEW l \in First(ls, k) PROVE [f EXCEPT ![ls[k]] = ts][l] \in orders(l)
      <4>1. CASE l = ls[k]
        BY <2>1, <3>1, <4>1
      <4>2. CASE l # ls[k]
        BY <2>1, <2>2, <3>1, <3>3, <4>2
      <4> QED
        BY <4>1, <4>2
    <3> QED
      BY <3>2, <3>4
  <2>5. step[q][ls[k]] \subseteq {f \in F : \A l \in First(ls, k) : f[l] \in orders(l)}
    <3> HIDE DEF step, ls, n, F, orders, Q
    <3> SUFFICES ASSUME NEW g \in step[q][ls[k]]
                 PROVE  g \in F /\ \A l \in First(ls, k) : g[l] \in orders(l)
      OBVIOUS
    <3>1. PICK f \in q, ts \in orders(ls[k]) : g = [f EXCEPT ![ls[k]] = ts]
      BY <2>3
    <3> QED
      BY <2>4, <3>1
  <2> HIDE DEF step, ls, n, F, orders
  <2> QED
    BY <2>1, <2>5
<1>6. ListsInOrder(m) = Loop(step, start, ls)
  BY DEF ListsInOrder
<1>7. Loop(step, start, ls) \in Q[n]
  <2> HIDE DEF step, Q, ls, start
  <2> QED
    BY <1>2, <1>4, <1>5, LoopStays
<1>8. n \in 0..n
  BY <1>2
<1>9. \A f \in ListsInOrder(m) : f \in F /\ \A l \in m.locations : f[l] \in orders(l)
  <2> HIDE DEF step, ls, start, F, orders
  <2> QED
    BY <1>2, <1>6, <1>7, <1>8
<1>10. ListsInOrder(m) \subseteq CloneLists(m)
  <2> SUFFICES ASSUME NEW f \in ListsInOrder(m) PROVE f \in CloneLists(m)
    OBVIOUS
  <2>1. f \in F /\ \A l \in m.locations : f[l] \in orders(l)
    BY <1>9
  <2>2. f \in [m.locations -> UNION {orders(l) : l \in m.locations}]
    BY <2>1
  <2> QED
    BY <2>1, <2>2 DEF CloneLists
<1> QED
  BY <1>10 DEF Copies, Clones

-----------------------------------------------------------------------------
(* createTransition, called in a loop.                                     *)

\* The lists of the locations and the map of m agree on the keys, and every
\* end is declared.
Sound(m) ==
    /\ m \in Model /\ IsFiniteSet(m.locations) /\ IsFiniteSet(m.transitions)
    /\ m.initialLocation \in m.locations \cup {NoLabel}
    /\ \A l \in m.locations : \A t \in Range(m.out[l]) :
          t.source = l /\ t.target \in m.locations
    /\ m.transitions \subseteq OutTransitions(m)
    /\ \A t \in OutTransitions(m) : \E u \in m.transitions : Key(u) = Key(t)
    /\ \A t, u \in m.transitions : Key(t) = Key(u) => t = u

\* r has what m declares.
SameDeclarations(m, r) ==
    /\ r.locations = m.locations /\ r.initialLocation = m.initialLocation
    /\ r.inputActions = m.inputActions /\ r.outputActions = m.outputActions
    /\ r.internalActions = m.internalActions

\* r is m with the transitions T in its lists.
Grown(m, r, T) ==
    Sound(r) /\ SameDeclarations(m, r) /\ OutTransitions(r) = OutTransitions(m) \cup T

\* Both ends of t are locations of m.
Connects(t, m) == t.source \in m.locations /\ t.target \in m.locations

(* An exception is no model.                                               *)
LEMMA ThrownIsNoModel == Thrown \notin Model
<1>1. ASSUME Thrown \in Model PROVE FALSE
  <2>1. DOMAIN Thrown = {"thrown"}
    BY DEF Thrown
  <2>2. "locations" \in DOMAIN Thrown
    BY <1>1 DEF Model
  <2> QED
    BY <2>1, <2>2
<1> QED
  BY <1>1

(* createTransition with declared ends keeps lists and map in agreement.   *)
LEMMA CreatedSound ==
    ASSUME NEW m, Sound(m), NEW t \in Transition, Connects(t, m)
    PROVE  Grown(m, CreateTransition(m, t), {t})
<1> DEFINE r == CreateTransition(m, t)
<1>1. /\ m \in Model /\ m.locations \subseteq Label /\ m.transitions \subseteq Transition
      /\ t.source \in m.locations /\ t.target \in m.locations
      /\ \A l \in Label : m.out[l] \in Seq(Transition)
  BY DEF Sound, Model, Connects
<1>2. /\ r \in Model
      /\ \A l \in Label : r.out[l] = IF l = t.source THEN Append(m.out[l], t) ELSE m.out[l]
  BY <1>1, CreateTransitionType
<1>3. SameDeclarations(m, r) /\ r.transitions = Put(m.transitions, t)
  BY <1>1 DEF CreateTransition, SameDeclarations, Model
<1> HIDE DEF r
<1>4. \A l \in m.locations :
         Range(r.out[l]) = IF l = t.source THEN Range(m.out[l]) \cup {t} ELSE Range(m.out[l])
  <2>1. \A l \in m.locations : Range(Append(m.out[l], t)) = Range(m.out[l]) \cup {t}
    BY <1>1, RangeOfAppend
  <2> QED
    BY <1>1, <1>2, <2>1
<1>5. r.locations = m.locations /\ r.initialLocation = m.initialLocation
  BY <1>3 DEF SameDeclarations
<1>6. OutTransitions(r) = OutTransitions(m) \cup {t}
  BY <1>1, <1>4, <1>5 DEF OutTransitions
<1>7. \A l \in r.locations : \A u \in Range(r.out[l]) :
         u.source = l /\ u.target \in r.locations
  <2> SUFFICES ASSUME NEW l \in m.locations, NEW u \in Range(r.out[l])
               PROVE  u.source = l /\ u.target \in m.locations
    BY <1>5
  <2>1. u \in Range(m.out[l]) \/ (u = t /\ l = t.source)
    BY <1>4
  <2> QED
    BY <1>1, <2>1 DEF Sound
<1>8. IsFiniteSet(r.transitions)
  <2>1. {u \in m.transitions : Key(u) # Key(t)} \in SUBSET m.transitions
    OBVIOUS
  <2>2. IsFiniteSet({u \in m.transitions : Key(u) # Key(t)})
    BY <2>1, FS_Subset DEF Sound
  <2> QED
    BY <1>3, <2>2, FS_AddElement DEF Put
<1>9. r.transitions \subseteq OutTransitions(r)
  BY <1>3, <1>6 DEF Put, Sound
<1>10. \A u \in OutTransitions(r) : \E v \in r.transitions : Key(v) = Key(u)
  <2> SUFFICES ASSUME NEW u \in OutTransitions(r)
               PROVE  \E v \in r.transitions : Key(v) = Key(u)
    OBVIOUS
  <2>1. CASE Key(u) = Key(t)
    BY <1>3, <2>1 DEF Put
  <2>2. CASE Key(u) # Key(t)
    <3>1. u \in OutTransitions(m)
      BY <1>6, <2>2
    <3>2. PICK v \in m.transitions : Key(v) = Key(u)
      BY <3>1 DEF Sound
    <3> QED
      BY <1>3, <2>2, <3>2 DEF Put
  <2> QED
    BY <2>1, <2>2
<1>11. \A u, v \in r.transitions : Key(u) = Key(v) => u = v
  BY <1>3 DEF Put, Sound
<1> QED
  BY <1>2, <1>3, <1>5, <1>6, <1>7, <1>8, <1>9, <1>10, <1>11 DEF Grown, Sound, r

(* A loop of createTransition ends with an exception if a transition names *)
(* a location that is not there, and has all of them in the lists if not.  *)
LEMMA CreatedAllShape ==
    ASSUME NEW m, m = Thrown \/ Sound(m), NEW f \in [Transition -> Transition],
           NEW ts \in Seq(Transition)
    PROVE  \/ /\ CreatedAll(m, f, ts) = Thrown
              /\ m = Thrown \/ \E t \in Range(ts) : ~Connects(f[t], m)
           \/ /\ m # Thrown /\ \A t \in Range(ts) : Connects(f[t], m)
              /\ Grown(m, CreatedAll(m, f, ts), {f[t] : t \in Range(ts)})
<1> DEFINE n == Len(ts)
           step == [r \in Outcome |-> [t \in Transition |-> Created(r, f[t])]]
           fails(k) == m = Thrown \/ \E t \in First(ts, k) : ~Connects(f[t], m)
           ok(r, k) == /\ m # Thrown /\ \A t \in First(ts, k) : Connects(f[t], m)
                       /\ Grown(m, r, {f[t] : t \in First(ts, k)})
           Q == [k \in 0..n |-> {r \in Outcome : (r = Thrown /\ fails(k)) \/ ok(r, k)}]
<1>1. /\ n \in Nat /\ First(ts, 0) = {} /\ First(ts, n) = Range(ts)
      /\ \A k \in 1..n : /\ k - 1 \in 0..n /\ k \in 0..n /\ ts[k] \in Transition
                         /\ First(ts, k) = First(ts, k - 1) \cup {ts[k]}
  BY FirstGrows
<1>2. m \in Q[0]
  <2>1. 0 \in 0..n /\ m \in Outcome
    BY <1>1 DEF Outcome, Sound
  <2>2. CASE m = Thrown
    BY <2>1, <2>2
  <2>3. CASE m # Thrown
    <3>1. Grown(m, m, {}) /\ {f[t] : t \in First(ts, 0)} = {}
      BY <1>1, <2>3 DEF Grown, SameDeclarations
    <3>2. ok(m, 0)
      BY <1>1, <2>3, <3>1
    <3> HIDE DEF ok
    <3> QED
      BY <2>1, <3>2
  <2> QED
    BY <2>2, <2>3
<1>3. ASSUME NEW k \in 1..n, NEW q \in Q[k - 1] PROVE step[q][ts[k]] \in Q[k]
  <2> DEFINE t == ts[k]
             r == Created(q, f[t])
  <2>1. /\ k - 1 \in 0..n /\ k \in 0..n /\ t \in Transition /\ f[t] \in Transition
        /\ First(ts, k) = First(ts, k - 1) \cup {t}
    BY <1>1
  <2>2. q \in Outcome /\ ((q = Thrown /\ fails(k - 1)) \/ ok(q, k - 1))
    <3> HIDE DEF fails, ok
    <3> QED
      BY <2>1
  <2>3. step[q][ts[k]] = r
    BY <2>1, <2>2
  <2>4. r \in Outcome /\ ((r = Thrown /\ fails(k)) \/ ok(r, k))
    <3>1. CASE q = Thrown /\ fails(k - 1)
      BY <2>1, <3>1 DEF Created, Outcome
    <3>2. CASE ok(q, k - 1) /\ ~Connects(f[t], q)
      <4>1. q.locations = m.locations
        BY <3>2 DEF Grown, SameDeclarations
      <4>2. ~Connects(f[t], m)
        BY <3>2, <4>1 DEF Connects
      <4>3. r = Thrown
        BY <3>2 DEF Created, Connects
      <4>4. fails(k)
        BY <2>1, <4>2
      <4> QED
        BY <4>3, <4>4 DEF Outcome
    <3>3. CASE ok(q, k - 1) /\ Connects(f[t], q)
      <4>1. Sound(q) /\ SameDeclarations(m, q)
            /\ OutTransitions(q) = OutTransitions(m) \cup {f[u] : u \in First(ts, k - 1)}
        BY <3>3 DEF Grown
      <4>2. q # Thrown
        BY <4>1, ThrownIsNoModel DEF Sound
      <4>3. r = CreateTransition(q, f[t])
        BY <3>3, <4>2 DEF Created, Connects
      <4>4. Grown(q, r, {f[t]})
        BY <2>1, <3>3, <4>1, <4>3, CreatedSound
      <4>5. {f[u] : u \in First(ts, k)} = {f[u] : u \in First(ts, k - 1)} \cup {f[t]}
        BY <2>1
      <4>6. Grown(m, r, {f[u] : u \in First(ts, k)})
        <5> HIDE DEF r
        <5> QED
          BY <4>1, <4>4, <4>5 DEF Grown, SameDeclarations
      <4>7. Connects(f[t], m)
        BY <3>3, <4>1 DEF Connects, SameDeclarations
      <4>8. ok(r, k)
        BY <2>1, <3>3, <4>6, <4>7
      <4>9. r \in Outcome
        BY <4>6 DEF Grown, Sound, Outcome
      <4> QED
        BY <4>8, <4>9
    <3> QED
      BY <2>2, <3>1, <3>2, <3>3
  <2> HIDE DEF step, r, fails, ok
  <2> QED
    BY <2>1, <2>3, <2>4
<1>4. CreatedAll(m, f, ts) = Loop(step, m, ts)
  BY DEF CreatedAll
<1>5. Loop(step, m, ts) \in Q[n]
  <2> HIDE DEF step, Q
  <2> QED
    BY <1>1, <1>2, <1>3, LoopStays
<1>6. n \in 0..n
  BY <1>1
<1>7. (CreatedAll(m, f, ts) = Thrown /\ fails(n)) \/ ok(CreatedAll(m, f, ts), n)
  <2> HIDE DEF step, fails, ok
  <2> QED
    BY <1>4, <1>5, <1>6
<1> QED
  BY <1>1, <1>7

-----------------------------------------------------------------------------
(* What the operators start from: the clones of their arguments.           *)

\* u connects the same locations as t, on the same action.
Twin(t, u) == u.source = t.source /\ u.target = t.target /\ u.action = t.action

\* What the operators use of a copy c of m.
Copied(m, c) ==
    /\ c \in Model /\ SameDeclarations(m, c) /\ IsFiniteSet(c.transitions)
    /\ IsFiniteSet(c.locations)
    /\ \A l \in c.locations : Range(c.out[l]) = {t \in c.transitions : t.source = l}
    /\ InOrder(c) \in Seq(Transition) /\ Range(InOrder(c)) = c.transitions
    /\ \A t, u \in c.transitions : Key(t) = Key(u) => t = u
    /\ \A t \in c.transitions : t \in Transition /\ Connects(t, c)
    /\ \A t \in m.transitions : \E u \in c.transitions : Twin(t, u)
    /\ \A u \in c.transitions : \E t \in m.transitions : Twin(t, u)

(* What the compiler gives is sound.                                       *)
LEMMA WellFormedSound ==
    ASSUME NEW m, WellFormed(m), IsFiniteSet(m.locations)
    PROVE  Sound(m)
<1>1. \A l \in m.locations : \A t \in Range(m.out[l]) :
         t.source = l /\ t.target \in m.locations
  BY DEF WellFormed, Range
<1> QED
  BY <1>1 DEF WellFormed, Sound

(* The transitions of a sound model connect its locations.                 *)
LEMMA SoundConnects ==
    ASSUME NEW m, Sound(m)
    PROVE  /\ \A t \in OutTransitions(m) : t \in Transition /\ Connects(t, m)
           /\ m.transitions \subseteq OutTransitions(m)
<1>1. \A l \in m.locations : m.out[l] \in Seq(Transition)
  BY DEF Sound, Model
<1>2. \A l \in m.locations : Range(m.out[l]) \subseteq Transition
  BY <1>1, FirstGrows
<1> QED
  BY <1>2 DEF Sound, OutTransitions, Connects

(* Every copy of a sound model has its transitions, in lists and map.      *)
LEMMA CopySound ==
    ASSUME NEW m, Sound(m), NEW c \in Copies(m)
    PROVE  Copied(m, c)
<1>1. /\ m \in Model /\ IsFiniteSet(m.transitions) /\ m.transitions \subseteq Transition
      /\ IsFiniteSet(m.locations) /\ m.locations \subseteq Label
      /\ m.initialLocation \in m.locations \cup {NoLabel}
  BY DEF Sound, Model
<1>2. c \in Clones(m)
  BY <1>1, CopiesAreClones
<1>3. /\ c \in Model
      /\ c.locations = m.locations /\ c.initialLocation = m.initialLocation
      /\ c.inputActions = m.inputActions /\ c.outputActions = m.outputActions
      /\ c.internalActions = m.internalActions
      /\ c.transitions = {Reparsed(m, t) : t \in m.transitions}
      /\ \A l \in m.locations : c.out[l] \in SetToSeqs(ClonedFrom(m, l))
  BY <1>1, <1>2, CopyOf
<1>4. \A t \in m.transitions : Reparsed(m, t) \in Transition /\ Twin(t, Reparsed(m, t))
  BY <1>1, ReparsedType DEF Twin
<1>5. IsFiniteSet(c.transitions)
  <2> DEFINE copy == [t \in m.transitions |-> Reparsed(m, t)]
  <2>1. copy \in Surjection(m.transitions, c.transitions)
    BY <1>3 DEF Surjection
  <2> HIDE DEF copy
  <2> QED
    BY <1>1, <2>1, FS_Surjection
<1>6. \A t \in m.transitions : \E u \in c.transitions : Twin(t, u)
  BY <1>3, <1>4
<1>7. \A u \in c.transitions : \E t \in m.transitions : Twin(t, u)
  BY <1>3, <1>4
<1>8. \A t \in c.transitions : t \in Transition /\ Connects(t, c)
  <2> SUFFICES ASSUME NEW t \in c.transitions PROVE t \in Transition /\ Connects(t, c)
    OBVIOUS
  <2>1. PICK u \in m.transitions : t = Reparsed(m, u)
    BY <1>3
  <2>2. Connects(u, m)
    BY SoundConnects
  <2> QED
    BY <1>3, <1>4, <2>1, <2>2 DEF Connects, Twin
<1>9. \A t, u \in c.transitions : Key(t) = Key(u) => t = u
  <2> SUFFICES ASSUME NEW t \in m.transitions, NEW u \in m.transitions,
                      Key(Reparsed(m, t)) = Key(Reparsed(m, u))
               PROVE  Reparsed(m, t) = Reparsed(m, u)
    BY <1>3
  <2>1. Key(t) = Key(u)
    BY <1>4 DEF Key, Twin
  <2> QED
    BY <2>1 DEF Sound
<1>10. ASSUME NEW l \in c.locations
       PROVE  /\ c.out[l] \in Seq(Transition)
              /\ Range(c.out[l]) = {t \in c.transitions : t.source = l}
  <2>1. Range(c.out[l]) = ClonedFrom(m, l)
    BY <1>1, <1>3, ClonedFromType, OrderingOnce
  <2>2. ClonedFrom(m, l) = {t \in c.transitions : t.source = l}
    BY <1>3, <1>4 DEF ClonedFrom, Twin
  <2>3. c.out[l] \in Seq(Transition)
    BY <1>1, <1>3 DEF Model
  <2> QED
    BY <2>1, <2>2, <2>3
<1>11. OutTransitions(c) = c.transitions
  BY <1>8, <1>10 DEF OutTransitions, Connects
<1>12. IsFiniteSet(c.locations)
  BY <1>1, <1>3
<1>13. InOrder(c) \in Seq(Transition) /\ Range(InOrder(c)) = c.transitions
  BY <1>10, <1>11, <1>12, InOrderElements
<1> QED
  BY <1>3, <1>5, <1>6, <1>7, <1>8, <1>9, <1>10, <1>12, <1>13 DEF Copied, SameDeclarations

(* Declarations alone are sound.                                           *)
LEMMA DeclaredSound ==
    ASSUME NEW d \in Model, IsFiniteSet(d.locations),
           d.initialLocation \in d.locations \cup {NoLabel},
           d.out = [l \in Label |-> <<>>], d.transitions = {}
    PROVE  Sound(d) /\ OutTransitions(d) = {}
<1>1. d.locations \subseteq Label
  BY DEF Model
<1>2. \A l \in d.locations : Range(d.out[l]) = {}
  BY <1>1 DEF Range
<1>3. OutTransitions(d) = {}
  BY <1>2 DEF OutTransitions
<1>4. IsFiniteSet(d.transitions)
  BY FS_EmptySet
<1> QED
  BY <1>2, <1>3, <1>4 DEF Sound

(* The declarations of a model are a model without transitions.            *)
LEMMA DeclarationsType ==
    ASSUME NEW m \in Model
    PROVE  /\ Declarations(m) \in Model
           /\ SameDeclarations(m, Declarations(m))
           /\ Declarations(m).out = [l \in Label |-> <<>>]
           /\ Declarations(m).transitions = {}
<1>1. EmptyTIOSTS \in Model
  BY EmptySeq DEF EmptyTIOSTS, Model
<1> QED
  BY <1>1 DEF Declarations, EmptyTIOSTS, Model, SameDeclarations

(* If the keys of a result's transitions are distinct its lists and its    *)
(* map hold the same ones.                                                 *)
LEMMA KeysDistinct ==
    ASSUME NEW m, Sound(m), \A t, u \in OutTransitions(m) : Key(t) = Key(u) => t = u
    PROVE  OutTransitions(m) = m.transitions
  BY DEF Sound

-----------------------------------------------------------------------------
(* Hiding and renaming.                                                    *)

\* u is t with the action b in place of the one named a.
Retyped(t, u, a, b) ==
    /\ u.source = t.source /\ u.target = t.target
    /\ u.action = IF t.action.name = a THEN b ELSE t.action

\* r has the declarations d and the transitions of m, retyped.
AllRetyped(m, d, r, a, b) ==
    /\ Sound(r) /\ SameDeclarations(d, r)
    /\ \A t \in m.transitions : \E u \in OutTransitions(r) : Retyped(t, u, a, b)
    /\ \A u \in OutTransitions(r) : \E t \in m.transitions : Retyped(t, u, a, b)
    /\ b.name \notin Names(m.transitions) => OutTransitions(r) = r.transitions

(* A loop that replaces one action throws nothing.                         *)
LEMMA ReplacedInAll ==
    ASSUME NEW m, Sound(m), NEW c, Copied(m, c), NEW a, NEW b \in Action,
           NEW d \in Model, d.locations = m.locations, d.initialLocation = m.initialLocation,
           d.out = [l \in Label |-> <<>>], d.transitions = {}
    PROVE  AllRetyped(m, d, CreatedAll(d, [t \in Transition |-> Replaced(t, a, b)], InOrder(c)),
                      a, b)
<1> DEFINE f == [t \in Transition |-> Replaced(t, a, b)]
           r == CreatedAll(d, f, InOrder(c))
<1>1. /\ InOrder(c) \in Seq(Transition) /\ Range(InOrder(c)) = c.transitions
      /\ \A t \in c.transitions : t \in Transition /\ Connects(t, c)
      /\ c.locations = m.locations
  BY DEF Copied, SameDeclarations
<1>2. /\ f \in [Transition -> Transition]
      /\ \A t \in Transition : Retyped(t, f[t], a, b)
  BY DEF Transition, Replaced, Retyped
<1>3. Sound(d) /\ OutTransitions(d) = {}
  <2>1. /\ IsFiniteSet(d.locations)
        /\ d.initialLocation \in d.locations \cup {NoLabel}
    BY DEF Sound
  <2> QED
    BY <2>1, DeclaredSound
<1>4. \A t \in c.transitions : Connects(f[t], d)
  BY <1>1, <1>2 DEF Connects, Retyped
<1> HIDE DEF f
<1>5. Grown(d, r, {f[t] : t \in c.transitions})
  <2>1. \/ d = Thrown \/ \E t \in c.transitions : ~Connects(f[t], d)
        \/ Grown(d, r, {f[t] : t \in c.transitions})
    BY <1>1, <1>2, <1>3, CreatedAllShape
  <2> QED
    BY <1>4, <2>1, ThrownIsNoModel
<1>6. /\ Sound(r) /\ SameDeclarations(d, r)
      /\ OutTransitions(r) = {f[t] : t \in c.transitions}
  BY <1>3, <1>5 DEF Grown
<1> HIDE DEF r
<1>7. \A t \in m.transitions : \E u \in OutTransitions(r) : Retyped(t, u, a, b)
  <2> SUFFICES ASSUME NEW t \in m.transitions
               PROVE  \E u \in OutTransitions(r) : Retyped(t, u, a, b)
    OBVIOUS
  <2>1. PICK v \in c.transitions : Twin(t, v)
    BY DEF Copied
  <2>2. f[v] \in OutTransitions(r) /\ Retyped(v, f[v], a, b)
    BY <1>1, <1>2, <1>6
  <2> QED
    BY <2>1, <2>2 DEF Twin, Retyped
<1>8. \A u \in OutTransitions(r) : \E t \in m.transitions : Retyped(t, u, a, b)
  <2> SUFFICES ASSUME NEW v \in c.transitions
               PROVE  \E t \in m.transitions : Retyped(t, f[v], a, b)
    BY <1>6
  <2>1. PICK t \in m.transitions : Twin(t, v)
    BY DEF Copied
  <2>2. Retyped(v, f[v], a, b)
    BY <1>1, <1>2
  <2> QED
    BY <2>1, <2>2 DEF Twin, Retyped
<1>9. ASSUME b.name \notin Names(m.transitions) PROVE OutTransitions(r) = r.transitions
  <2>1. \A t, u \in c.transitions : Key(f[t]) = Key(f[u]) => t = u
    <3> SUFFICES ASSUME NEW t \in c.transitions, NEW u \in c.transitions,
                        Key(f[t]) = Key(f[u])
                 PROVE  t = u
      OBVIOUS
    <3>1. Retyped(t, f[t], a, b) /\ Retyped(u, f[u], a, b)
      BY <1>1, <1>2
    <3>2. b.name # t.action.name /\ b.name # u.action.name
      BY <1>9 DEF Copied, Twin, Names
    <3>3. t.source = u.source /\ t.target = u.target /\ f[t].action.name = f[u].action.name
      BY <3>1 DEF Retyped, Key
    <3>4. t.action.name = u.action.name
      BY <3>1, <3>2, <3>3 DEF Retyped
    <3>5. Key(t) = Key(u)
      BY <3>3, <3>4 DEF Key
    <3> QED
      BY <3>5 DEF Copied
  <2>2. \A t, u \in OutTransitions(r) : Key(t) = Key(u) => t = u
    BY <1>6, <2>1
  <2> QED
    BY <1>6, <2>2, KeysDistinct
<1> QED
  BY <1>6, <1>7, <1>8, <1>9 DEF AllRetyped, r, f

\* What hiding makes of m.
HidingOf(m, r, a) ==
    \E d \in Model :
        /\ AllRetyped(m, d, r, a, tau) /\ d.locations = m.locations
        /\ d.internalActions = {tau.name}
        /\ d.inputActions = m.inputActions \ {a} /\ d.outputActions = m.outputActions \ {a}

(* hidingOperator returns the model with Tau for the hidden action, or     *)
(* throws because the model cannot be cloned or has no such action.        *)
LEMMA HidingShape ==
    ASSUME NEW m, Sound(m), NEW a, NEW r \in hidingOperator(m, a)
    PROVE  r = Thrown \/ (Cloneable(m) /\ a \in ActionNames(m) /\ HidingOf(m, r, a))
<1> SUFFICES ASSUME r # Thrown
             PROVE  Cloneable(m) /\ a \in ActionNames(m) /\ HidingOf(m, r, a)
  OBVIOUS
<1>1. PICK c \in Copies(m) :
         /\ Cloneable(m) /\ a \in ActionNames(m)
         /\ r = CreatedAll(WithoutAction(c, a), [t \in Transition |-> Replaced(t, a, tau)],
                           InOrder(c))
  BY DEF hidingOperator
<1>2. Copied(m, c)
  BY CopySound
<1>3. tau \in Action /\ tau.name \in Name
  BY NamesAssumption DEF tau, Action, ActionType
<1> DEFINE d == WithoutAction(c, a)
<1>4. /\ d \in Model /\ d.locations = m.locations /\ d.initialLocation = m.initialLocation
      /\ d.out = [l \in Label |-> <<>>] /\ d.transitions = {}
      /\ d.internalActions = {tau.name}
      /\ d.inputActions = m.inputActions \ {a} /\ d.outputActions = m.outputActions \ {a}
  <2>1. c \in Model /\ SameDeclarations(m, c)
    BY <1>2 DEF Copied
  <2>2. /\ Declarations(c) \in Model /\ SameDeclarations(c, Declarations(c))
        /\ Declarations(c).out = [l \in Label |-> <<>>] /\ Declarations(c).transitions = {}
    BY <2>1, DeclarationsType
  <2> QED
    BY <1>3, <2>1, <2>2 DEF WithoutAction, Model, SameDeclarations
<1> HIDE DEF d
<1>5. AllRetyped(m, d, CreatedAll(d, [t \in Transition |-> Replaced(t, a, tau)], InOrder(c)),
                 a, tau)
  BY <1>2, <1>3, <1>4, ReplacedInAll
<1>6. r = CreatedAll(d, [t \in Transition |-> Replaced(t, a, tau)], InOrder(c))
  BY <1>1 DEF d
<1> QED
  BY <1>1, <1>4, <1>5, <1>6 DEF HidingOf

(* The result of hiding can be cloned if and only if no internal action is *)
(* left but Tau.                                                           *)
LEMMA HidingCloneable ==
    ASSUME NEW m, Sound(m), Cloneable(m), NEW a, NEW r, HidingOf(m, r, a)
    PROVE  Cloneable(r) <=> Internals(m.transitions) \ {a} \subseteq {<<"Tau">>}
<1>1. PICK d \in Model :
         /\ AllRetyped(m, d, r, a, tau)
         /\ d.internalActions = {tau.name}
         /\ d.inputActions = m.inputActions \ {a} /\ d.outputActions = m.outputActions \ {a}
  BY DEF HidingOf
<1>2. /\ r.internalActions = {tau.name} /\ r.inputActions = m.inputActions \ {a}
      /\ r.outputActions = m.outputActions \ {a} /\ Sound(r)
      /\ \A t \in m.transitions : \E u \in OutTransitions(r) : Retyped(t, u, a, tau)
      /\ \A u \in OutTransitions(r) : \E t \in m.transitions : Retyped(t, u, a, tau)
  BY <1>1 DEF AllRetyped, SameDeclarations
<1>3. \A t \in m.transitions : Recoverable(m, t.action) /\ t.action.type \in ActionType
  BY DEF Cloneable, Sound, Model, Transition, Action
<1>4. tau.name = <<"Tau">> /\ tau.type = ACTION_INTERNAL
  BY DEF tau
<1>5. \A x : x.type = ACTION_INTERNAL /\ x.name = tau.name => Recoverable(r, x)
  BY <1>2 DEF Recoverable, NamesOfType, ACTION_INPUT, ACTION_OUTPUT, ACTION_INTERNAL
<1>6. ASSUME Internals(m.transitions) \ {a} \subseteq {<<"Tau">>}
      PROVE  Cloneable(r)
  <2> SUFFICES ASSUME NEW u \in r.transitions PROVE Recoverable(r, u.action)
    BY DEF Cloneable
  <2>1. PICK t \in m.transitions : Retyped(t, u, a, tau)
    BY <1>2 DEF Sound
  <2>2. CASE t.action.name = a
    <3>1. u.action = tau
      BY <2>1, <2>2 DEF Retyped
    <3> QED
      BY <1>4, <1>5, <3>1
  <2>3. CASE t.action.name # a /\ t.action.type = ACTION_INTERNAL
    <3>1. t.action.name = <<"Tau">>
      BY <1>6, <2>3 DEF Internals, Names
    <3>2. u.action = t.action
      BY <2>1, <2>3 DEF Retyped
    <3> QED
      BY <1>4, <1>5, <2>3, <3>1, <3>2
  <2>4. CASE t.action.name # a /\ t.action.type # ACTION_INTERNAL
    BY <1>2, <1>3, <2>1, <2>4
       DEF Retyped, Recoverable, NamesOfType, ActionType, ACTION_INPUT, ACTION_OUTPUT,
           ACTION_INTERNAL
  <2> QED
    BY <2>2, <2>3, <2>4
<1>7. ASSUME Cloneable(r), NEW n \in Internals(m.transitions) \ {a}
      PROVE  n = <<"Tau">>
  <2>1. PICK t \in m.transitions : t.action.type = ACTION_INTERNAL /\ t.action.name = n
    BY DEF Internals, Names
  <2>2. n # a
    OBVIOUS
  <2> SUFFICES ASSUME n # <<"Tau">> PROVE FALSE
    OBVIOUS
  <2>3. PICK u \in OutTransitions(r) : Retyped(t, u, a, tau)
    BY <1>2
  <2>4. PICK v \in r.transitions : Key(v) = Key(u)
    BY <1>2 DEF Sound
  <2>5. v \in OutTransitions(r)
    BY <1>2 DEF Sound
  <2>6. PICK w \in m.transitions : Retyped(w, v, a, tau)
    BY <1>2, <2>5
  <2>7. /\ v.source = t.source /\ v.target = t.target /\ v.action.name = n
    BY <2>1, <2>2, <2>3, <2>4 DEF Key, Retyped
  <2>8. w.action.name = n /\ v.action = w.action
    BY <1>4, <2>6, <2>7 DEF Retyped
  <2>9. Key(w) = Key(t)
    BY <2>1, <2>6, <2>7, <2>8 DEF Key, Retyped
  <2>10. w = t
    BY <2>9 DEF Sound
  <2>11. Recoverable(r, v.action) /\ v.action = t.action
    BY <1>7, <2>8, <2>10 DEF Cloneable
  <2> QED
    BY <1>2, <1>4, <2>1, <2>11
       DEF Recoverable, NamesOfType, ACTION_INPUT, ACTION_OUTPUT, ACTION_INTERNAL
<1> QED
  BY <1>6, <1>7

\* What renaming makes of m: b is what stands for the action named a.
RenamingOf(m, r, a, new, b) ==
    \E d \in Model :
        /\ AllRetyped(m, d, r, a, b) /\ d.locations = m.locations
        /\ b = NewAction(m, a, new) /\ b \in Action /\ b.name = new
        /\ d.internalActions = m.internalActions
        /\ d.inputActions = Renamed(m.inputActions, a, new)
        /\ d.outputActions = Renamed(m.outputActions, a, new)

(* renamingOperator returns the model with the new name for the action, or *)
(* throws because the model cannot be cloned or has no such action.        *)
LEMMA RenamingShape ==
    ASSUME NEW m, Sound(m), NEW a \in ActionNames(m), NEW new \in NewNames,
           NEW r \in renamingOperator(m, a, new)
    PROVE  r = Thrown \/ (Cloneable(m) /\ \E b : RenamingOf(m, r, a, new, b))
<1> SUFFICES ASSUME r # Thrown
             PROVE  Cloneable(m) /\ \E b : RenamingOf(m, r, a, new, b)
  OBVIOUS
<1>1. PICK c \in Copies(m) :
         /\ Cloneable(m)
         /\ r = CreatedAll(WithRenamed(c, a, new),
                           [t \in Transition |-> Replaced(t, a, NewAction(c, a, new))],
                           InOrder(c))
  BY DEF renamingOperator
<1>2. Copied(m, c)
  BY CopySound
<1>3. new \in Name
  BY NamesAssumption
<1> DEFINE d == WithRenamed(c, a, new)
           b == NewAction(c, a, new)
<1>4. c \in Model /\ SameDeclarations(m, c)
  BY <1>2 DEF Copied
<1>5. b = NewAction(m, a, new) /\ b \in Action /\ b.name = new
  <2>1. \A n : ActionNamed(c, n) = ActionNamed(m, n)
    BY <1>4 DEF ActionNamed, SameDeclarations
  <2>2. ActionNames(c) = ActionNames(m)
    BY <1>4 DEF ActionNames, SameDeclarations
  <2>3. /\ ActionNamed(m, new) \in Action /\ ActionNamed(m, new).name = new
        /\ ActionNamed(m, a).type \in ActionType
        /\ [ActionNamed(m, a) EXCEPT !.name = new] \in Action
        /\ [ActionNamed(m, a) EXCEPT !.name = new].name = new
    BY <1>3 DEF ActionNamed, Action, ActionType
  <2> QED
    BY <2>1, <2>2, <2>3 DEF NewAction
<1>6. /\ d \in Model /\ d.locations = m.locations /\ d.initialLocation = m.initialLocation
      /\ d.out = [l \in Label |-> <<>>] /\ d.transitions = {}
      /\ d.internalActions = m.internalActions
      /\ d.inputActions = Renamed(m.inputActions, a, new)
      /\ d.outputActions = Renamed(m.outputActions, a, new)
  <2>1. /\ Declarations(c) \in Model /\ SameDeclarations(c, Declarations(c))
        /\ Declarations(c).out = [l \in Label |-> <<>>] /\ Declarations(c).transitions = {}
    BY <1>4, DeclarationsType
  <2>2. /\ Renamed(c.inputActions, a, new) \subseteq Name
        /\ Renamed(c.outputActions, a, new) \subseteq Name
    BY <1>3, <1>4 DEF Renamed, Model
  <2> QED
    BY <1>4, <2>1, <2>2 DEF WithRenamed, Model, SameDeclarations
<1>7. r = CreatedAll(d, [t \in Transition |-> Replaced(t, a, b)], InOrder(c))
  BY <1>1
<1> HIDE DEF d, b
<1>8. AllRetyped(m, d, CreatedAll(d, [t \in Transition |-> Replaced(t, a, b)], InOrder(c)),
                 a, b)
  BY <1>2, <1>5, <1>6, ReplacedInAll
<1> QED
  BY <1>1, <1>5, <1>6, <1>7, <1>8 DEF RenamingOf

(* The result of renaming can be cloned unless a transition of an internal *)
(* action got a name the model did not have.                               *)
LEMMA RenamingCloneable ==
    ASSUME NEW m, Sound(m), Cloneable(m), NEW a, NEW new, new # a,
           NEW b, NEW r, RenamingOf(m, r, a, new, b)
    PROVE  Cloneable(r) <=> ~ (/\ a \in Names(m.transitions) /\ a \in m.internalActions
                               /\ new \notin ActionNames(m))
<1>1. PICK d \in Model :
         /\ AllRetyped(m, d, r, a, b)
         /\ b = NewAction(m, a, new) /\ b \in Action /\ b.name = new
         /\ d.internalActions = m.internalActions
         /\ d.inputActions = Renamed(m.inputActions, a, new)
         /\ d.outputActions = Renamed(m.outputActions, a, new)
  BY DEF RenamingOf
<1>2. /\ r.internalActions = m.internalActions
      /\ r.inputActions = Renamed(m.inputActions, a, new)
      /\ r.outputActions = Renamed(m.outputActions, a, new) /\ Sound(r)
      /\ \A t \in m.transitions : \E u \in OutTransitions(r) : Retyped(t, u, a, b)
      /\ \A u \in OutTransitions(r) : \E t \in m.transitions : Retyped(t, u, a, b)
  BY <1>1 DEF AllRetyped, SameDeclarations
<1>3. \A t \in m.transitions : /\ Recoverable(m, t.action) /\ t.action.type \in ActionType
                               /\ t.action.name \in ActionNames(m)
  <2>1. \A t \in m.transitions : Recoverable(m, t.action) /\ t.action.type \in ActionType
    BY DEF Cloneable, Sound, Model, Transition, Action
  <2> QED
    BY <2>1 DEF Recoverable, NamesOfType, ActionNames
<1> DEFINE undeclared == a \in m.internalActions /\ new \notin ActionNames(m)
<1>4. ASSUME a \in ActionNames(m) PROVE Recoverable(r, b) <=> ~undeclared
  BY <1>1, <1>2, <1>4
     DEF Recoverable, NamesOfType, NewAction, ActionNamed, Renamed, ActionNames,
         ACTION_INPUT, ACTION_OUTPUT, ACTION_INTERNAL
<1>5. \A t \in m.transitions : t.action.name # a => Recoverable(r, t.action)
  BY <1>2, <1>3 DEF Recoverable, NamesOfType, Renamed
<1>6. ASSUME ~ (a \in Names(m.transitions) /\ undeclared)
      PROVE  Cloneable(r)
  <2> SUFFICES ASSUME NEW u \in r.transitions PROVE Recoverable(r, u.action)
    BY DEF Cloneable
  <2>1. PICK t \in m.transitions : Retyped(t, u, a, b)
    BY <1>2 DEF Sound
  <2>2. CASE t.action.name # a
    BY <1>5, <2>1, <2>2 DEF Retyped
  <2>3. CASE t.action.name = a
    <3>1. a \in Names(m.transitions) /\ a \in ActionNames(m)
      BY <1>3, <2>3 DEF Names
    <3>2. Recoverable(r, b)
      BY <1>4, <1>6, <3>1
    <3> QED
      BY <2>1, <2>3, <3>2 DEF Retyped
  <2> QED
    BY <2>2, <2>3
<1>7. ASSUME Cloneable(r), a \in Names(m.transitions), undeclared
      PROVE  FALSE
  <2>1. PICK t \in m.transitions : t.action.name = a
    BY <1>7 DEF Names
  <2>2. PICK u \in OutTransitions(r) : Retyped(t, u, a, b)
    BY <1>2
  <2>3. PICK v \in r.transitions : Key(v) = Key(u)
    BY <1>2 DEF Sound
  <2>4. v \in OutTransitions(r)
    BY <1>2 DEF Sound
  <2>5. PICK w \in m.transitions : Retyped(w, v, a, b)
    BY <1>2, <2>4
  <2>6. v.action.name = new
    BY <1>1, <2>1, <2>2, <2>3 DEF Key, Retyped
  <2>7. v.action = b
    BY <1>3, <1>7, <2>5, <2>6 DEF Retyped
  <2>8. Recoverable(r, b)
    BY <1>7, <2>7 DEF Cloneable
  <2> QED
    BY <1>3, <1>4, <1>7, <2>1, <2>8
<1> QED
  BY <1>6, <1>7

-----------------------------------------------------------------------------
(* Sequential composition.                                                 *)

\* m1 and m2 can be composed: they have no part of a label in common, and
\* their labels can be joined.
Joinable(m1, m2) ==
    /\ Sound(m1) /\ Sound(m2) /\ Apart(m1, m2)
    /\ \A x \in m1.locations, y \in m2.locations : Join(x, y) \in Label

(* A joint label is none of the labels it is made of.                      *)
LEMMA JointIsNew ==
    ASSUME NEW m1, NEW m2, Joinable(m1, m2)
    PROVE  /\ m1.locations \cap m2.locations = {}
           /\ \A x \in m1.locations, y \in m2.locations :
                 Join(x, y) \in Label /\ Join(x, y) \notin m1.locations \cup m2.locations
<1>1. \A l \in Label : l \in Seq(Range(l)) /\ Range(l) # {}
  <2> SUFFICES ASSUME NEW l \in Label PROVE l \in Seq(Range(l)) /\ Range(l) # {}
    OBVIOUS
  <2>1. l \in Seq(Range(l)) /\ l # <<>>
    BY LabelsAssumption DEF NoLabel
  <2>2. Len(l) \in Nat \ {0} /\ DOMAIN l = 1..Len(l)
    BY <2>1, EmptySeq, LenProperties
  <2>3. 1 \in DOMAIN l
    BY <2>2
  <2> QED
    BY <2>1, <2>3 DEF Range
<1>2. /\ m1.locations \subseteq Label /\ m2.locations \subseteq Label
      /\ Parts(m1) \cap Parts(m2) = {}
      /\ \A x \in m1.locations, y \in m2.locations : Join(x, y) \in Label
  BY DEF Joinable, Sound, Model, Apart
<1>3. /\ \A x \in m1.locations : Range(x) \subseteq Parts(m1)
      /\ \A y \in m2.locations : Range(y) \subseteq Parts(m2)
  BY DEF Parts
<1>4. m1.locations \cap m2.locations = {}
  BY <1>1, <1>2, <1>3
<1>5. ASSUME NEW x \in m1.locations, NEW y \in m2.locations
      PROVE  Join(x, y) \notin m1.locations \cup m2.locations
  <2>1. Range(Join(x, y)) = Range(x) \cup Range(y)
    <3> DEFINE S == Range(x) \cup Range(y)
    <3>1. x \in Seq(S) /\ y \in Seq(S)
      BY <1>1, <1>2, SeqMonotonic
    <3> QED
      BY <3>1, RangeOfConcat DEF Join
  <2>2. /\ Range(x) # {} /\ Range(x) \subseteq Parts(m1)
        /\ Range(y) # {} /\ Range(y) \subseteq Parts(m2)
    BY <1>1, <1>2, <1>3
  <2> QED
    BY <1>2, <1>3, <2>1, <2>2
<1> QED
  BY <1>2, <1>4, <1>5

\* The transitions that meet: tc1 and t02, which comes after the initial
\* one of c2.
Meeting(m1, m2, c1, c2, tc1, t02, start2) ==
    /\ Copied(m1, c1) /\ Copied(m2, c2)
    /\ c2.initialLocation \in c2.locations /\ InitialOf(c2) \in c2.transitions
    /\ InitialOf(c2).source = c2.initialLocation
    /\ t02 \in c2.transitions /\ t02.source = InitialOf(c2).target
    /\ tc1 \in c1.transitions /\ tc1.action.name = t02.action.name
    /\ start2 \in SourcesInto(c2, t02.source)

\* Copies of m1 and m2 have transitions that meet, and r is composed at them.
MetIn(m1, m2, r) ==
    \E c1 \in Copies(m1), c2 \in Copies(m2) : \E tc1, t02, start2 :
       Meeting(m1, m2, c1, c2, tc1, t02, start2) /\ r = Composed(c1, c2, tc1, t02, start2)

\* Nothing meets: no transition is created.
NothingMeets(m1, m2) ==
    \/ ~Cloneable(m1) \/ ~Cloneable(m2)
    \/ \E c1 \in Copies(m1), c2 \in Copies(m2) :
          \/ ~HasInitial(c2) \/ c2.out[InitialOf(c2).target] = <<>>
          \/ getCompositionTransition(c1, c2.out[InitialOf(c2).target][1].action.name) = {}

(* A call of sequentialComposition composes two clones, or throws before   *)
(* it creates a transition.                                                *)
LEMMA SequenceMeets ==
    ASSUME NEW m1, NEW m2, Sound(m1), Sound(m2), NEW r \in sequentialComposition(m1, m2)
    PROVE  (r = Thrown /\ NothingMeets(m1, m2)) \/ MetIn(m1, m2, r)
<1>1. CASE ~(Cloneable(m1) /\ Cloneable(m2))
  BY <1>1 DEF sequentialComposition, NothingMeets
<1>2. CASE Cloneable(m1) /\ Cloneable(m2)
  <2>1. PICK c1 \in Copies(m1), c2 \in Copies(m2) : r \in ComposedClones(c1, c2)
    BY <1>2 DEF sequentialComposition
  <2> DEFINE l02 == InitialOf(c2).target
             t02 == c2.out[l02][1]
             tc1s == getCompositionTransition(c1, t02.action.name)
  <2>2. CASE ~HasInitial(c2) \/ c2.out[l02] = <<>> \/ tc1s = {}
    <3>1. r = Thrown
      BY <2>1, <2>2 DEF ComposedClones
    <3> QED
      BY <2>2, <3>1 DEF NothingMeets
  <2>3. CASE ~(~HasInitial(c2) \/ c2.out[l02] = <<>> \/ tc1s = {})
    <3>1. PICK tc1 \in tc1s, start2 \in SourcesInto(c2, l02) :
             r = Composed(c1, c2, tc1, t02, start2)
      BY <2>1, <2>3 DEF ComposedClones
    <3>2. Copied(m1, c1) /\ Copied(m2, c2)
      BY CopySound
    <3>3. ASSUME NEW l \in c2.locations, c2.out[l] # <<>>
          PROVE  c2.out[l][1] \in c2.transitions /\ c2.out[l][1].source = l
      <4>1. c2.out[l] \in Seq(Transition)
        BY <3>2 DEF Copied, Model
      <4>2. 1 \in DOMAIN c2.out[l]
        BY <3>3, <4>1, TailOf
      <4> QED
        BY <3>2, <4>2 DEF Copied, Range
    <3>4. c2.initialLocation \in c2.locations /\ c2.out[c2.initialLocation] # <<>>
      BY <2>3, <3>2 DEF HasInitial, Copied, SameDeclarations, Sound
    <3>5. InitialOf(c2) \in c2.transitions /\ InitialOf(c2).source = c2.initialLocation
      BY <3>3, <3>4 DEF InitialOf
    <3>6. l02 \in c2.locations
      BY <3>2, <3>5 DEF Copied, Connects
    <3>7. t02 \in c2.transitions /\ t02.source = l02
      BY <2>3, <3>3, <3>6
    <3>8. tc1 \in c1.transitions /\ tc1.action.name = t02.action.name
      BY DEF getCompositionTransition
    <3>9. Meeting(m1, m2, c1, c2, tc1, t02, start2)
      <4> HIDE DEF t02, l02
      <4> QED
        BY <3>1, <3>2, <3>4, <3>5, <3>7, <3>8 DEF Meeting, l02
    <3> QED
      BY <3>1, <3>9 DEF MetIn
  <2> QED
    BY <2>2, <2>3
<1> QED
  BY <1>1, <1>2

\* What becomes of the transitions of the two models that do not meet.
FirstPart(c1, tc1, joint) == {OfFirst(t, tc1, joint) : t \in c1.transitions \ {tc1}}
SecondPart(c2, t02, joint) ==
    {OfSecond(t, t02, joint) : t \in c2.transitions \ {InitialOf(c2), t02}}

(* The ends of the transitions that meet are locations of the two models,  *)
(* and the joint transition is a transition between two joint labels.      *)
LEMMA JointType ==
    ASSUME NEW m1, NEW m2, Joinable(m1, m2), NEW c1, NEW c2, NEW tc1, NEW t02, NEW start2,
           Meeting(m1, m2, c1, c2, tc1, t02, start2)
    PROVE  /\ tc1.source \in m1.locations /\ tc1.target \in m1.locations
           /\ t02.source \in m2.locations /\ t02.target \in m2.locations
           /\ tc1 \in Transition /\ t02 \in Transition /\ InitialOf(c2) \in Transition
           /\ Composition(c2, tc1, t02) \in Transition
           /\ Composition(c2, tc1, t02).source = Join(tc1.source, t02.source)
           /\ Composition(c2, tc1, t02).target = Join(tc1.target, t02.target)
           /\ Composition(c2, tc1, t02).action = tc1.action
<1>1. /\ tc1 \in Transition /\ t02 \in Transition /\ InitialOf(c2) \in Transition
      /\ Connects(tc1, c1) /\ Connects(t02, c2)
      /\ c1.locations = m1.locations /\ c2.locations = m2.locations
      /\ c2.initialCondition \in SUBSET Atom
  BY DEF Meeting, Copied, SameDeclarations, Model
<1>2. /\ tc1.source \in m1.locations /\ tc1.target \in m1.locations
      /\ t02.source \in m2.locations /\ t02.target \in m2.locations
  BY <1>1 DEF Connects
<1>3. Join(tc1.source, t02.source) \in Label /\ Join(tc1.target, t02.target) \in Label
  BY <1>2 DEF Joinable
<1>4. Composition(c2, tc1, t02)
         = [tc1 EXCEPT !.dataGuard   = (tc1.dataGuard \cup t02.dataGuard)
                                           \cup c2.initialCondition,
                       !.clockGuard  = tc1.clockGuard \cup t02.clockGuard,
                       !.assignments = tc1.assignments \cup t02.assignments,
                       !.deadline    = DEADLINE_LAZY,
                       !.source      = Join(tc1.source, t02.source),
                       !.target      = Join(tc1.target, t02.target)]
  BY <1>1 DEF Composition, Conjoined, Transition
<1>5. DEADLINE_LAZY \in Deadline
  BY DEF Deadline
<1> QED
  BY <1>1, <1>2, <1>3, <1>4, <1>5 DEF Transition

(* The declarations of a composition are those of a model, with the joint  *)
(* locations.                                                              *)
LEMMA InitializedSequenceShape ==
    ASSUME NEW m1, NEW m2, Joinable(m1, m2), NEW c1, NEW c2, NEW tc1, NEW t02, NEW start2,
           Meeting(m1, m2, c1, c2, tc1, t02, start2)
    PROVE  LET d == InitializedSequence(c1, c2, tc1, t02, start2)
           IN  /\ Sound(d) /\ OutTransitions(d) = {}
               /\ d.locations = (m1.locations \ {tc1.source, tc1.target})
                                   \cup (m2.locations \ {t02.source, t02.target, start2})
                                   \cup {Join(tc1.source, t02.source),
                                         Join(tc1.target, t02.target)}
               /\ d.inputActions = m1.inputActions
                                      \cup (m2.inputActions \ {t02.action.name})
               /\ d.outputActions = m1.outputActions \cup m2.outputActions
               /\ d.internalActions = m1.internalActions
               /\ d.initialLocation = IF m1.initialLocation \in {tc1.source, tc1.target}
                                      THEN NoLabel ELSE m1.initialLocation
<1> DEFINE d == InitializedSequence(c1, c2, tc1, t02, start2)
           locations == (m1.locations \ {tc1.source, tc1.target})
                           \cup (m2.locations \ {t02.source, t02.target, start2})
                           \cup {Join(tc1.source, t02.source), Join(tc1.target, t02.target)}
<1>1. /\ c1 \in Model /\ c2 \in Model
      /\ SameDeclarations(m1, c1) /\ SameDeclarations(m2, c2)
      /\ IsFiniteSet(m1.locations) /\ IsFiniteSet(m2.locations)
      /\ m1.initialLocation \in m1.locations \cup {NoLabel}
  BY DEF Meeting, Copied, Joinable, Sound
<1>2. /\ Declarations(c1) \in Model /\ SameDeclarations(c1, Declarations(c1))
      /\ Declarations(c1).out = [l \in Label |-> <<>>] /\ Declarations(c1).transitions = {}
      /\ Declarations(c1).clocks = c1.clocks
  BY <1>1, DeclarationsType DEF Declarations, EmptyTIOSTS
<1>3. Join(tc1.source, t02.source) \in Label /\ Join(tc1.target, t02.target) \in Label
  BY JointType DEF Transition
<1>4. c1.clocks \o c2.clocks \in Seq(Clock)
  BY <1>1, ConcatProperties DEF Model
<1>5. /\ d \in Model /\ d.locations = locations
      /\ d.out = [l \in Label |-> <<>>] /\ d.transitions = {}
      /\ d.inputActions = m1.inputActions \cup (m2.inputActions \ {t02.action.name})
      /\ d.outputActions = m1.outputActions \cup m2.outputActions
      /\ d.internalActions = m1.internalActions
      /\ d.initialLocation = IF m1.initialLocation \in {tc1.source, tc1.target}
                             THEN NoLabel ELSE m1.initialLocation
  BY <1>1, <1>2, <1>3, <1>4 DEF InitializedSequence, Model, SameDeclarations
<1> HIDE DEF d
<1>6. d.initialLocation \in d.locations \cup {NoLabel}
  BY <1>1, <1>5
<1>7. IsFiniteSet(locations)
  <2>1. /\ IsFiniteSet(m1.locations \ {tc1.source, tc1.target})
        /\ IsFiniteSet(m2.locations \ {t02.source, t02.target, start2})
    BY <1>1, FS_Subset
  <2>2. IsFiniteSet({Join(tc1.source, t02.source), Join(tc1.target, t02.target)})
    <3>1. \A x, y : IsFiniteSet({x, y})
      <4> SUFFICES ASSUME NEW x, NEW y PROVE IsFiniteSet({x, y})
        OBVIOUS
      <4>1. {x, y} = {x} \cup {y}
        OBVIOUS
      <4>2. IsFiniteSet({x})
        BY FS_Singleton
      <4>3. IsFiniteSet({x} \cup {y})
        BY <4>2, FS_AddElement
      <4> QED
        BY <4>1, <4>3
    <3> QED
      BY <3>1
  <2> QED
    BY <2>1, <2>2, FS_Union
<1>8. Sound(d) /\ OutTransitions(d) = {}
  BY <1>5, <1>6, <1>7, DeclaredSound
<1> QED
  BY <1>5, <1>8 DEF d

(* Composed throws if a transition that does not meet is left with an end  *)
(* that was replaced, and has all the transitions in its lists if not.     *)
LEMMA ComposedShape ==
    ASSUME NEW m1, NEW m2, Joinable(m1, m2), NEW c1, NEW c2, NEW tc1, NEW t02, NEW start2,
           Meeting(m1, m2, c1, c2, tc1, t02, start2)
    PROVE  LET d     == InitializedSequence(c1, c2, tc1, t02, start2)
               joint == Composition(c2, tc1, t02)
               others == FirstPart(c1, tc1, joint) \cup SecondPart(c2, t02, joint)
               r     == Composed(c1, c2, tc1, t02, start2)
           IN  \/ r = Thrown /\ \E t \in others : ~Connects(t, d)
               \/ /\ \A t \in others : Connects(t, d)
                  /\ Sound(r) /\ SameDeclarations(d, r)
                  /\ OutTransitions(r) = {joint} \cup others
<1> DEFINE d     == InitializedSequence(c1, c2, tc1, t02, start2)
           joint == Composition(c2, tc1, t02)
           f1    == [t \in Transition |-> OfFirst(t, tc1, joint)]
           f2    == [t \in Transition |-> OfSecond(t, t02, joint)]
           ts1   == Kept(InOrder(c1), c1.transitions \ {tc1})
           ts2   == Kept(InOrder(c2), c2.transitions \ {InitialOf(c2), t02})
           joined == Created(d, joint)
           first  == CreatedAll(joined, f1, ts1)
           r      == CreatedAll(first, f2, ts2)
<1>1. r = Composed(c1, c2, tc1, t02, start2)
  BY DEF Composed
<1>2. /\ Sound(d) /\ OutTransitions(d) = {}
      /\ joint.source \in d.locations /\ joint.target \in d.locations
      /\ joint \in Transition
  BY InitializedSequenceShape, JointType
<1>3. /\ joint.source \in Label /\ joint.target \in Label
  BY <1>2 DEF Transition
<1>4. f1 \in [Transition -> Transition] /\ f2 \in [Transition -> Transition]
  <2> HIDE DEF joint
  <2>1. \A t \in Transition : OfFirst(t, tc1, joint) \in Transition
    BY <1>3 DEF OfFirst, Transition
  <2>2. \A t \in Transition : OfSecond(t, t02, joint) \in Transition
    BY <1>3 DEF OfSecond, Transition
  <2> QED
    BY <2>1, <2>2
<1>5. /\ ts1 \in Seq(Transition) /\ Range(ts1) = c1.transitions \ {tc1}
      /\ ts2 \in Seq(Transition) /\ Range(ts2) = c2.transitions \ {InitialOf(c2), t02}
  <2>1. /\ InOrder(c1) \in Seq(Transition) /\ Range(InOrder(c1)) = c1.transitions
        /\ InOrder(c2) \in Seq(Transition) /\ Range(InOrder(c2)) = c2.transitions
    BY DEF Meeting, Copied
  <2> QED
    BY <2>1, KeptElements
<1>6. /\ {f1[t] : t \in Range(ts1)} = FirstPart(c1, tc1, joint)
      /\ {f2[t] : t \in Range(ts2)} = SecondPart(c2, t02, joint)
  <2>1. c1.transitions \subseteq Transition /\ c2.transitions \subseteq Transition
    BY DEF Meeting, Copied
  <2> HIDE DEF joint, ts1, ts2
  <2> QED
    BY <1>5, <2>1 DEF FirstPart, SecondPart
<1> HIDE DEF d, joint, f1, f2, ts1, ts2
<1>7. Grown(d, joined, {joint}) /\ joined # Thrown
  <2>1. d # Thrown
    BY <1>2, ThrownIsNoModel DEF Sound
  <2>2. joined = CreateTransition(d, joint)
    BY <1>2, <2>1 DEF Created
  <2>3. Connects(joint, d)
    BY <1>2 DEF Connects
  <2>4. Grown(d, CreateTransition(d, joint), {joint})
    BY <1>2, <2>3, CreatedSound
  <2>5. Grown(d, joined, {joint})
    BY <2>2, <2>4
  <2> QED
    BY <2>5, ThrownIsNoModel DEF Grown, Sound
<1> HIDE DEF joined
<1>8. Sound(joined) /\ SameDeclarations(d, joined) /\ OutTransitions(joined) = {joint}
  BY <1>2, <1>7 DEF Grown
<1>9. \/ first = Thrown /\ \E t \in Range(ts1) : ~Connects(f1[t], joined)
      \/ /\ \A t \in Range(ts1) : Connects(f1[t], joined)
         /\ Grown(joined, first, {f1[t] : t \in Range(ts1)})
  BY <1>4, <1>5, <1>7, <1>8, CreatedAllShape
<1> HIDE DEF first
<1>10. \A t : Connects(t, joined) <=> Connects(t, d)
  BY <1>8 DEF Connects, SameDeclarations
<1>11. CASE first = Thrown /\ \E t \in Range(ts1) : ~Connects(f1[t], joined)
  <2>1. r = Thrown
    BY <1>4, <1>5, <1>11, CreatedAllShape
  <2>2. \E t \in FirstPart(c1, tc1, joint) : ~Connects(t, d)
    BY <1>6, <1>10, <1>11
  <2> QED
    BY <1>1, <2>1, <2>2 DEF d, joint
<1>12. CASE /\ \A t \in Range(ts1) : Connects(f1[t], joined)
            /\ Grown(joined, first, {f1[t] : t \in Range(ts1)})
  <2>1. /\ Sound(first) /\ SameDeclarations(d, first)
        /\ OutTransitions(first) = {joint} \cup FirstPart(c1, tc1, joint)
    BY <1>6, <1>8, <1>12 DEF Grown, SameDeclarations
  <2>2. \A t \in FirstPart(c1, tc1, joint) : Connects(t, d)
    BY <1>6, <1>10, <1>12
  <2>3. \A t : Connects(t, first) <=> Connects(t, d)
    BY <2>1 DEF Connects, SameDeclarations
  <2>4. first # Thrown
    BY <2>1, ThrownIsNoModel DEF Sound
  <2>5. \/ r = Thrown /\ \E t \in Range(ts2) : ~Connects(f2[t], first)
        \/ /\ \A t \in Range(ts2) : Connects(f2[t], first)
           /\ Grown(first, r, {f2[t] : t \in Range(ts2)})
    BY <1>4, <1>5, <2>1, <2>4, CreatedAllShape
  <2> HIDE DEF r
  <2>6. CASE r = Thrown /\ \E t \in Range(ts2) : ~Connects(f2[t], first)
    <3>1. \E t \in SecondPart(c2, t02, joint) : ~Connects(t, d)
      BY <1>6, <2>3, <2>6
    <3> QED
      BY <1>1, <2>6, <3>1 DEF d, joint
  <2>7. CASE /\ \A t \in Range(ts2) : Connects(f2[t], first)
             /\ Grown(first, r, {f2[t] : t \in Range(ts2)})
    <3>1. \A t \in SecondPart(c2, t02, joint) : Connects(t, d)
      BY <1>6, <2>3, <2>7
    <3>2. /\ Sound(r) /\ SameDeclarations(d, r)
          /\ OutTransitions(r) = {joint} \cup (FirstPart(c1, tc1, joint)
                                                 \cup SecondPart(c2, t02, joint))
      BY <1>6, <2>1, <2>7 DEF Grown, SameDeclarations
    <3> QED
      BY <1>1, <2>2, <3>1, <3>2 DEF d, joint
  <2> QED
    BY <2>5, <2>6, <2>7
<1> QED
  BY <1>9, <1>11, <1>12

\* u is t, with the location new wherever t has the location old.
Moved(t, u, old, new) ==
    /\ u.source = IF t.source = old THEN new ELSE t.source
    /\ u.target = IF t.target = old THEN new ELSE t.target
    /\ u.action = t.action

(* Transitions that moved keep distinct keys.                              *)
LEMMA MovedKeyed ==
    ASSUME NEW L, NEW old, NEW new, new \notin L,
           NEW t1, t1.source \in L, t1.target \in L, NEW t2, t2.source \in L, t2.target \in L,
           NEW u1, Moved(t1, u1, old, new), NEW u2, Moved(t2, u2, old, new), Key(u1) = Key(u2)
    PROVE  Key(t1) = Key(t2)
<1>1. u1.source = u2.source /\ u1.target = u2.target /\ u1.action.name = u2.action.name
  BY DEF Key
<1> QED
  BY <1>1 DEF Moved, Key

(* What is left of a transition of the first model connects the result     *)
(* only if it moved at one end at most, and the other end is its own.      *)
LEMMA FirstMoves ==
    ASSUME NEW m1, NEW m2, Joinable(m1, m2), NEW c1, NEW c2, NEW tc1, NEW t02, NEW start2,
           Meeting(m1, m2, c1, c2, tc1, t02, start2),
           NEW t \in c1.transitions,
           Connects(OfFirst(t, tc1, Composition(c2, tc1, t02)),
                    InitializedSequence(c1, c2, tc1, t02, start2))
    PROVE  LET u == OfFirst(t, tc1, Composition(c2, tc1, t02))
           IN  /\ Moved(t, u, tc1.source, Join(tc1.source, t02.source))
               /\ t.source \in m1.locations /\ t.target \in m1.locations
               /\ u.source \in m1.locations \/ u.target \in m1.locations
<1> DEFINE joint == Composition(c2, tc1, t02)
           u == OfFirst(t, tc1, joint)
           locations == InitializedSequence(c1, c2, tc1, t02, start2).locations
<1>1. /\ t \in Transition /\ t.source \in m1.locations /\ t.target \in m1.locations
  BY DEF Meeting, Copied, Connects, SameDeclarations
<1>2. /\ tc1.source \in m1.locations /\ tc1.source \notin locations
      /\ joint.source = Join(tc1.source, t02.source)
  <2>1. /\ tc1.source \in m1.locations /\ t02.source \in m2.locations
        /\ tc1.target \in m1.locations /\ t02.target \in m2.locations
        /\ joint.source = Join(tc1.source, t02.source)
    BY JointType
  <2>2. locations = (m1.locations \ {tc1.source, tc1.target})
                       \cup (m2.locations \ {t02.source, t02.target, start2})
                       \cup {Join(tc1.source, t02.source), Join(tc1.target, t02.target)}
    BY InitializedSequenceShape
  <2>3. tc1.source \notin m2.locations
        /\ tc1.source # Join(tc1.source, t02.source)
        /\ tc1.source # Join(tc1.target, t02.target)
    BY <2>1, JointIsNew
  <2> HIDE DEF joint, locations
  <2> QED
    BY <2>1, <2>2, <2>3
<1>3. u.source \in locations /\ u.target \in locations
  BY DEF Connects
<1> HIDE DEF joint, locations
<1>4. CASE t.target = tc1.source
  <2>1. u = [t EXCEPT !.target = joint.source]
    BY <1>4 DEF OfFirst
  <2>2. u.source = t.source /\ u.target = joint.source /\ u.action = t.action
    BY <1>1, <2>1 DEF Transition
  <2> QED
    BY <1>1, <1>2, <1>3, <1>4, <2>2 DEF Moved, joint
<1>5. CASE t.target # tc1.source /\ t.source = tc1.source
  <2>1. u = [t EXCEPT !.source = joint.source]
    BY <1>5 DEF OfFirst
  <2>2. u.source = joint.source /\ u.target = t.target /\ u.action = t.action
    BY <1>1, <2>1 DEF Transition
  <2> QED
    BY <1>1, <1>2, <1>3, <1>5, <2>2 DEF Moved, joint
<1>6. CASE t.target # tc1.source /\ t.source # tc1.source
  <2>1. u = t
    BY <1>6 DEF OfFirst
  <2> QED
    BY <1>1, <1>6, <2>1 DEF Moved, joint
<1> QED
  BY <1>4, <1>5, <1>6

(* The same for a transition of the second model.                          *)
LEMMA SecondMoves ==
    ASSUME NEW m1, NEW m2, Joinable(m1, m2), NEW c1, NEW c2, NEW tc1, NEW t02, NEW start2,
           Meeting(m1, m2, c1, c2, tc1, t02, start2),
           NEW t \in c2.transitions,
           Connects(OfSecond(t, t02, Composition(c2, tc1, t02)),
                    InitializedSequence(c1, c2, tc1, t02, start2))
    PROVE  LET u == OfSecond(t, t02, Composition(c2, tc1, t02))
           IN  /\ Moved(t, u, t02.target, Join(tc1.target, t02.target))
               /\ t.source \in m2.locations /\ t.target \in m2.locations
               /\ u.source \in m2.locations \/ u.target \in m2.locations
<1> DEFINE joint == Composition(c2, tc1, t02)
           u == OfSecond(t, t02, joint)
           locations == InitializedSequence(c1, c2, tc1, t02, start2).locations
<1>1. /\ t \in Transition /\ t.source \in m2.locations /\ t.target \in m2.locations
  BY DEF Meeting, Copied, Connects, SameDeclarations
<1>2. /\ t02.target \in m2.locations /\ t02.target \notin locations
      /\ joint.target = Join(tc1.target, t02.target)
  <2>1. /\ tc1.source \in m1.locations /\ t02.source \in m2.locations
        /\ tc1.target \in m1.locations /\ t02.target \in m2.locations
        /\ joint.target = Join(tc1.target, t02.target)
    BY JointType
  <2>2. locations = (m1.locations \ {tc1.source, tc1.target})
                       \cup (m2.locations \ {t02.source, t02.target, start2})
                       \cup {Join(tc1.source, t02.source), Join(tc1.target, t02.target)}
    BY InitializedSequenceShape
  <2>3. t02.target \notin m1.locations
        /\ t02.target # Join(tc1.source, t02.source)
        /\ t02.target # Join(tc1.target, t02.target)
    BY <2>1, JointIsNew
  <2> HIDE DEF joint, locations
  <2> QED
    BY <2>1, <2>2, <2>3
<1>3. u.source \in locations /\ u.target \in locations
  BY DEF Connects
<1> HIDE DEF joint, locations
<1>4. CASE t.source = t02.target
  <2>1. u = [t EXCEPT !.source = joint.target]
    BY <1>4 DEF OfSecond
  <2>2. u.source = joint.target /\ u.target = t.target /\ u.action = t.action
    BY <1>1, <2>1 DEF Transition
  <2> QED
    BY <1>1, <1>2, <1>3, <1>4, <2>2 DEF Moved, joint
<1>5. CASE t.source # t02.target /\ t.target = t02.target
  <2>1. u = [t EXCEPT !.target = joint.target]
    BY <1>5 DEF OfSecond
  <2>2. u.source = t.source /\ u.target = joint.target /\ u.action = t.action
    BY <1>1, <2>1 DEF Transition
  <2> QED
    BY <1>1, <1>2, <1>3, <1>5, <2>2 DEF Moved, joint
<1>6. CASE t.source # t02.target /\ t.target # t02.target
  <2>1. u = t
    BY <1>6 DEF OfSecond
  <2> QED
    BY <1>1, <1>6, <2>1 DEF Moved, joint
<1> QED
  BY <1>4, <1>5, <1>6

(* No two transitions of a sequence that returns share a key.              *)
LEMMA SequenceKeyed ==
    ASSUME NEW m1, NEW m2, Joinable(m1, m2), NEW c1, NEW c2, NEW tc1, NEW t02, NEW start2,
           Meeting(m1, m2, c1, c2, tc1, t02, start2),
           Composed(c1, c2, tc1, t02, start2) # Thrown
    PROVE  LET joint == Composition(c2, tc1, t02)
               r     == Composed(c1, c2, tc1, t02, start2)
           IN  /\ OutTransitions(r) = r.transitions
               /\ r.transitions = {joint} \cup FirstPart(c1, tc1, joint)
                                          \cup SecondPart(c2, t02, joint)
<1> DEFINE joint == Composition(c2, tc1, t02)
           d     == InitializedSequence(c1, c2, tc1, t02, start2)
           g1    == FirstPart(c1, tc1, joint)
           g2    == SecondPart(c2, t02, joint)
           r     == Composed(c1, c2, tc1, t02, start2)
<1>1. /\ \A t \in g1 \cup g2 : Connects(t, d)
      /\ Sound(r) /\ OutTransitions(r) = {joint} \cup g1 \cup g2
  BY ComposedShape
<1>2. /\ joint.source \notin m1.locations \cup m2.locations
      /\ joint.target \notin m1.locations \cup m2.locations
      /\ m1.locations \cap m2.locations = {}
      /\ Join(tc1.source, t02.source) \notin m1.locations
      /\ Join(tc1.target, t02.target) \notin m2.locations
  BY JointType, JointIsNew
<1>3. ASSUME NEW u \in g1
      PROVE  \E t \in c1.transitions :
                /\ u = OfFirst(t, tc1, joint)
                /\ Moved(t, u, tc1.source, Join(tc1.source, t02.source))
                /\ t.source \in m1.locations /\ t.target \in m1.locations
                /\ u.source \in m1.locations \/ u.target \in m1.locations
  <2>1. PICK t \in c1.transitions : u = OfFirst(t, tc1, joint)
    BY <1>3 DEF FirstPart
  <2>2. Connects(OfFirst(t, tc1, joint), d)
    BY <1>1, <2>1
  <2> QED
    BY <2>1, <2>2, FirstMoves
<1>4. ASSUME NEW u \in g2
      PROVE  \E t \in c2.transitions :
                /\ u = OfSecond(t, t02, joint)
                /\ Moved(t, u, t02.target, Join(tc1.target, t02.target))
                /\ t.source \in m2.locations /\ t.target \in m2.locations
                /\ u.source \in m2.locations \/ u.target \in m2.locations
  <2>1. PICK t \in c2.transitions : u = OfSecond(t, t02, joint)
    BY <1>4 DEF SecondPart
  <2>2. Connects(OfSecond(t, t02, joint), d)
    BY <1>1, <2>1
  <2> QED
    BY <2>1, <2>2, SecondMoves
<1>5. /\ \A t, u \in c1.transitions : Key(t) = Key(u) => t = u
      /\ \A t, u \in c2.transitions : Key(t) = Key(u) => t = u
  BY DEF Meeting, Copied
<1> HIDE DEF joint, d, g1, g2, r
<1>6. \A u, v \in g1 : Key(u) = Key(v) => u = v
  <2> SUFFICES ASSUME NEW u \in g1, NEW v \in g1, Key(u) = Key(v) PROVE u = v
    OBVIOUS
  <2>1. PICK t \in c1.transitions :
                /\ u = OfFirst(t, tc1, joint)
                /\ Moved(t, u, tc1.source, Join(tc1.source, t02.source))
                /\ t.source \in m1.locations /\ t.target \in m1.locations
    BY <1>3
  <2>2. PICK w \in c1.transitions :
                /\ v = OfFirst(w, tc1, joint)
                /\ Moved(w, v, tc1.source, Join(tc1.source, t02.source))
                /\ w.source \in m1.locations /\ w.target \in m1.locations
    BY <1>3
  <2>3. Key(t) = Key(w)
    BY <1>2, <2>1, <2>2, MovedKeyed
  <2> QED
    BY <1>5, <2>1, <2>2, <2>3
<1>7. \A u, v \in g2 : Key(u) = Key(v) => u = v
  <2> SUFFICES ASSUME NEW u \in g2, NEW v \in g2, Key(u) = Key(v) PROVE u = v
    OBVIOUS
  <2>1. PICK t \in c2.transitions :
                /\ u = OfSecond(t, t02, joint)
                /\ Moved(t, u, t02.target, Join(tc1.target, t02.target))
                /\ t.source \in m2.locations /\ t.target \in m2.locations
    BY <1>4
  <2>2. PICK w \in c2.transitions :
                /\ v = OfSecond(w, t02, joint)
                /\ Moved(w, v, t02.target, Join(tc1.target, t02.target))
                /\ w.source \in m2.locations /\ w.target \in m2.locations
    BY <1>4
  <2>3. Key(t) = Key(w)
    BY <1>2, <2>1, <2>2, MovedKeyed
  <2> QED
    BY <1>5, <2>1, <2>2, <2>3
<1>8. /\ \A u \in g1 : u.source \in m1.locations \/ u.target \in m1.locations
      /\ \A u \in g2 : u.source \in m2.locations \/ u.target \in m2.locations
  BY <1>3, <1>4
<1>9. /\ \A u \in g1 : /\ u.source \in m1.locations \cup {Join(tc1.source, t02.source)}
                       /\ u.target \in m1.locations \cup {Join(tc1.source, t02.source)}
      /\ Join(tc1.source, t02.source) \notin m2.locations
  BY <1>2, <1>3, JointIsNew, JointType DEF Moved
<1>10. \A u \in g1, v \in g2 : Key(u) # Key(v)
  BY <1>2, <1>8, <1>9 DEF Key
<1>11. \A u \in g1 \cup g2 : Key(u) # Key(joint)
  BY <1>2, <1>8 DEF Key
<1>12. \A u, v \in {joint} \cup g1 \cup g2 : Key(u) = Key(v) => u = v
  BY <1>6, <1>7, <1>10, <1>11
<1>13. OutTransitions(r) = r.transitions
  BY <1>1, <1>12, KeysDistinct
<1> QED
  BY <1>1, <1>13 DEF joint, d, g1, g2, r

\* The first transition of m after its initial one, as FirstOf2 takes it.
FirstAfterInitial(m) == m.out[InitialOf(m).target][1]

(* In a copy of a compiled model in which one transition follows the       *)
(* initial one, the transitions that a sequential composition leaves out   *)
(* are copies of these two.                                                *)
LEMMA LeftOut ==
    ASSUME NEW m1, NEW m2, Sound(m2), WellFormed(m2),
           Len(m2.out[InitialOf(m2).target]) = 1,
           NEW c1, NEW c2, NEW tc1, NEW t02, NEW start2,
           Meeting(m1, m2, c1, c2, tc1, t02, start2)
    PROVE  /\ Twin(InitialOf(m2), InitialOf(c2)) /\ Twin(FirstAfterInitial(m2), t02)
           /\ InitialOf(m2) \in m2.transitions /\ FirstAfterInitial(m2) \in m2.transitions
           /\ \A t \in AfterInitial(m2) \ {FirstAfterInitial(m2)} :
                 \E u \in c2.transitions \ {InitialOf(c2), t02} : Twin(t, u)
           /\ \A u \in c2.transitions \ {InitialOf(c2), t02} :
                 \E t \in AfterInitial(m2) \ {FirstAfterInitial(m2)} : Twin(t, u)
<1> DEFINE init == InitialOf(m2)
           l02  == init.target
           next == FirstAfterInitial(m2)
<1>1. /\ init \in m2.transitions /\ init.source = m2.initialLocation
      /\ \A u \in m2.transitions : u.source = m2.initialLocation => u = init
  BY InitialIsListed DEF InitialOf
<1>2. /\ c2.initialLocation = m2.initialLocation
      /\ InitialOf(c2) \in c2.transitions /\ InitialOf(c2).source = c2.initialLocation
      /\ t02 \in c2.transitions /\ t02.source = InitialOf(c2).target
      /\ \A t \in m2.transitions : \E u \in c2.transitions : Twin(t, u)
      /\ \A u \in c2.transitions : \E t \in m2.transitions : Twin(t, u)
      /\ \A t, u \in c2.transitions : Key(t) = Key(u) => t = u
  BY DEF Meeting, Copied, SameDeclarations
<1>3. Twin(init, InitialOf(c2))
  <2>1. PICK t \in m2.transitions : Twin(t, InitialOf(c2))
    BY <1>2
  <2>2. t = init
    BY <1>1, <1>2, <2>1 DEF Twin
  <2> QED
    BY <2>1, <2>2
<1>4. l02 \in m2.locations /\ m2.out[l02] \in Seq(Transition) /\ DOMAIN m2.out[l02] = {1}
  <2>1. l02 \in m2.locations /\ l02 \in Label
    BY <1>1, SoundConnects DEF Connects, Sound, Model
  <2>2. m2.out[l02] \in Seq(Transition) /\ Len(m2.out[l02]) = 1
    BY <2>1 DEF Sound, Model
  <2>3. DOMAIN m2.out[l02] = {1}
    BY <2>2
  <2> QED
    BY <2>1, <2>2, <2>3
<1>5. \A t \in m2.transitions : t.source = l02 => t = next
  <2> SUFFICES ASSUME NEW t \in m2.transitions, t.source = l02 PROVE t = next
    OBVIOUS
  <2>1. PICK l \in m2.locations : t \in Range(m2.out[l])
    BY DEF Sound, OutTransitions
  <2>2. t \in Range(m2.out[l02])
    BY <2>1 DEF Sound
  <2> QED
    BY <1>4, <2>2 DEF Range, FirstAfterInitial
<1>6. next \in m2.transitions /\ next.source = l02
  <2>1. next \in Range(m2.out[l02])
    BY <1>4 DEF Range, FirstAfterInitial
  <2>2. next \in OutTransitions(m2) /\ next.source = l02
    BY <1>4, <2>1 DEF OutTransitions, Sound
  <2>3. PICK u \in m2.transitions : Key(u) = Key(next)
    BY <2>2 DEF Sound
  <2>4. u = next
    BY <1>5, <2>2, <2>3 DEF Key
  <2> QED
    BY <2>2, <2>3, <2>4
<1>7. Twin(next, t02)
  <2>1. PICK t \in m2.transitions : Twin(t, t02)
    BY <1>2
  <2>2. t = next
    BY <1>2, <1>3, <1>5, <2>1 DEF Twin
  <2> QED
    BY <2>1, <2>2
<1> HIDE DEF init, next
<1>8. ASSUME NEW t \in AfterInitial(m2) \ {next}
      PROVE  \E u \in c2.transitions \ {InitialOf(c2), t02} : Twin(t, u)
  <2>1. t \in m2.transitions /\ t.source # m2.initialLocation
    BY DEF AfterInitial
  <2>2. PICK u \in c2.transitions : Twin(t, u)
    BY <1>2, <2>1
  <2>3. u # InitialOf(c2)
    BY <1>2, <2>1, <2>2 DEF Twin
  <2>4. u # t02
    <3>1. ASSUME u = t02 PROVE FALSE
      <4>1. Key(t) = Key(next)
        BY <1>7, <2>2, <3>1 DEF Twin, Key
      <4> QED
        BY <1>6, <2>1, <4>1 DEF Sound
    <3> QED
      BY <3>1
  <2> QED
    BY <2>2, <2>3, <2>4
<1>9. ASSUME NEW u \in c2.transitions \ {InitialOf(c2), t02}
      PROVE  \E t \in AfterInitial(m2) \ {next} : Twin(t, u)
  <2>1. PICK t \in m2.transitions : Twin(t, u)
    BY <1>2
  <2>2. t # init
    <3>1. ASSUME t = init PROVE FALSE
      <4>1. Key(u) = Key(InitialOf(c2))
        BY <1>3, <2>1, <3>1 DEF Twin, Key
      <4> QED
        BY <1>2, <4>1
    <3> QED
      BY <3>1
  <2>3. t # next
    <3>1. ASSUME t = next PROVE FALSE
      <4>1. Key(u) = Key(t02)
        BY <1>7, <2>1, <3>1 DEF Twin, Key
      <4> QED
        BY <1>2, <4>1
    <3> QED
      BY <3>1
  <2>4. t \in AfterInitial(m2)
    BY <1>1, <2>1, <2>2 DEF AfterInitial
  <2> QED
    BY <2>1, <2>3, <2>4
<1> QED
  BY <1>1, <1>3, <1>6, <1>7, <1>8, <1>9 DEF init, next

(* The result of a sequential composition can be cloned exactly if the     *)
(* actions of the second model that are left out are not used again.       *)
LEMMA SequenceCloneable ==
    ASSUME NEW m1, NEW m2, Joinable(m1, m2), WellFormed(m2), Cloneable(m1), Cloneable(m2),
           Len(m2.out[InitialOf(m2).target]) = 1,
           FirstAfterInitial(m2).action.type = ACTION_INPUT,
           NEW c1, NEW c2, NEW tc1, NEW t02, NEW start2,
           Meeting(m1, m2, c1, c2, tc1, t02, start2),
           Composed(c1, c2, tc1, t02, start2) # Thrown
    PROVE  Cloneable(Composed(c1, c2, tc1, t02, start2))
              <=> /\ Internals(AfterInitial(m2)) \ m1.internalActions = {}
                  /\ ~ /\ FirstAfterInitial(m2).action.name \notin m1.inputActions
                       /\ \E t \in AfterInitial(m2) \ {FirstAfterInitial(m2)} :
                             t.action = FirstAfterInitial(m2).action
<1> DEFINE next  == FirstAfterInitial(m2)
           rest  == AfterInitial(m2) \ {next}
           joint == Composition(c2, tc1, t02)
           r     == Composed(c1, c2, tc1, t02, start2)
<1>1. /\ r.transitions = {joint} \cup FirstPart(c1, tc1, joint) \cup SecondPart(c2, t02, joint)
      /\ joint.action = tc1.action
  BY SequenceKeyed, JointType
<1>2. /\ r.inputActions = m1.inputActions \cup (m2.inputActions \ {t02.action.name})
      /\ r.outputActions = m1.outputActions \cup m2.outputActions
      /\ r.internalActions = m1.internalActions
  BY ComposedShape, InitializedSequenceShape DEF SameDeclarations
<1>3. /\ \A t \in rest : \E u \in c2.transitions \ {InitialOf(c2), t02} : Twin(t, u)
      /\ \A u \in c2.transitions \ {InitialOf(c2), t02} : \E t \in rest : Twin(t, u)
      /\ t02.action = next.action /\ next \in m2.transitions
  <2>1. Sound(m2)
    BY DEF Joinable
  <2>2. /\ Twin(next, t02) /\ next \in m2.transitions
        /\ \A t \in rest : \E u \in c2.transitions \ {InitialOf(c2), t02} : Twin(t, u)
        /\ \A u \in c2.transitions \ {InitialOf(c2), t02} : \E t \in rest : Twin(t, u)
    BY <2>1, LeftOut
  <2> QED
    BY <2>2 DEF Twin
<1>4. /\ \A t : /\ t.action = OfFirst(t, tc1, joint).action \/ t \notin Transition
                /\ t.action = OfSecond(t, t02, joint).action \/ t \notin Transition
      /\ c1.transitions \subseteq Transition /\ c2.transitions \subseteq Transition
  BY DEF OfFirst, OfSecond, Transition, Meeting, Copied
<1>5. \A t \in m1.transitions : Recoverable(m1, t.action) /\ t.action.type \in ActionType
  BY DEF Cloneable, Joinable, Sound, Model, Transition, Action
<1>6. \A t \in m2.transitions : /\ Recoverable(m2, t.action) /\ t.action.type \in ActionType
                                /\ t.action \in Action
  BY DEF Cloneable, Joinable, Sound, Model, Transition, Action
<1> HIDE DEF r, joint, next
<1>7. \A u \in {joint} \cup FirstPart(c1, tc1, joint) : Recoverable(r, u.action)
  <2> SUFFICES ASSUME NEW u \in {joint} \cup FirstPart(c1, tc1, joint)
               PROVE  Recoverable(r, u.action)
    OBVIOUS
  <2>1. PICK v \in c1.transitions : u.action = v.action
    BY <1>1, <1>4 DEF FirstPart, Meeting
  <2>2. PICK t \in m1.transitions : Twin(t, v)
    BY DEF Meeting, Copied
  <2>3. u.action = t.action
    BY <2>1, <2>2 DEF Twin
  <2>4. Recoverable(m1, t.action)
    BY <1>5
  <2> QED
    BY <1>2, <2>3, <2>4 DEF Recoverable, NamesOfType
<1>8. Cloneable(r) <=> \A t \in rest : Recoverable(r, t.action)
  <2>1. \A t \in rest : \E u \in SecondPart(c2, t02, joint) : u.action = t.action
    <3> SUFFICES ASSUME NEW t \in rest
                 PROVE  \E u \in SecondPart(c2, t02, joint) : u.action = t.action
      OBVIOUS
    <3>1. PICK v \in c2.transitions \ {InitialOf(c2), t02} : Twin(t, v)
      BY <1>3
    <3>2. OfSecond(v, t02, joint) \in SecondPart(c2, t02, joint)
      BY DEF SecondPart
    <3>3. OfSecond(v, t02, joint).action = t.action
      BY <1>4, <3>1 DEF Twin
    <3> QED
      BY <3>2, <3>3
  <2>2. \A u \in SecondPart(c2, t02, joint) : \E t \in rest : u.action = t.action
    <3> SUFFICES ASSUME NEW v \in c2.transitions \ {InitialOf(c2), t02}
                 PROVE  \E t \in rest : OfSecond(v, t02, joint).action = t.action
      BY DEF SecondPart
    <3>1. PICK t \in rest : Twin(t, v)
      BY <1>3
    <3> QED
      BY <1>4, <3>1 DEF Twin
  <2> HIDE DEF rest
  <2> QED
    BY <1>1, <1>7, <2>1, <2>2 DEF Cloneable
<1>9. \A t \in rest : Recoverable(r, t.action) <=>
         /\ t.action.type = ACTION_INTERNAL => t.action.name \in m1.internalActions
         /\ t.action = next.action => next.action.name \in m1.inputActions
  <2> SUFFICES ASSUME NEW t \in rest
               PROVE  Recoverable(r, t.action) <=>
                        /\ t.action.type = ACTION_INTERNAL
                              => t.action.name \in m1.internalActions
                        /\ t.action = next.action => next.action.name \in m1.inputActions
    OBVIOUS
  <2>1. /\ Recoverable(m2, t.action) /\ t.action.type \in ActionType
        /\ t.action \in Action /\ next.action \in Action /\ next.action.type = ACTION_INPUT
    BY <1>3, <1>6 DEF AfterInitial, next
  <2>2. t.action = next.action
           <=> t.action.name = next.action.name /\ t.action.type = ACTION_INPUT
    BY <2>1 DEF Action
  <2>3. CASE t.action.type = ACTION_INTERNAL
    BY <1>2, <2>1, <2>2, <2>3
       DEF Recoverable, NamesOfType, ACTION_INTERNAL, ACTION_INPUT, ACTION_OUTPUT
  <2>4. CASE t.action.type = ACTION_INPUT
    BY <1>2, <1>3, <2>1, <2>2, <2>4
       DEF Recoverable, NamesOfType, ACTION_INTERNAL, ACTION_INPUT, ACTION_OUTPUT
  <2>5. CASE t.action.type = ACTION_OUTPUT
    BY <1>2, <2>1, <2>2, <2>5
       DEF Recoverable, NamesOfType, ACTION_INTERNAL, ACTION_INPUT, ACTION_OUTPUT
  <2> QED
    BY <2>1, <2>3, <2>4, <2>5 DEF ActionType
<1>10. /\ next.action.type # ACTION_INTERNAL
       /\ \A t \in AfterInitial(m2) : t \in rest \/ t = next
  BY DEF next, ACTION_INPUT, ACTION_INTERNAL
<1>11. Internals(AfterInitial(m2)) \ m1.internalActions = {}
          <=> \A t \in rest : t.action.type = ACTION_INTERNAL
                                 => t.action.name \in m1.internalActions
  BY <1>10 DEF Internals, Names
<1>12. Cloneable(r)
          <=> /\ Internals(AfterInitial(m2)) \ m1.internalActions = {}
              /\ ~ /\ next.action.name \notin m1.inputActions
                   /\ \E t \in rest : t.action = next.action
  <2> HIDE DEF rest
  <2> QED
    BY <1>8, <1>9, <1>11
<1> QED
  BY <1>12 DEF r, next

(* The locations of a sequence: which of the two models' are left.         *)
LEMMA SequenceLocations ==
    ASSUME NEW m1, NEW m2, Joinable(m1, m2), NEW c1, NEW c2, NEW tc1, NEW t02, NEW start2,
           Meeting(m1, m2, c1, c2, tc1, t02, start2)
    PROVE  LET joint     == Composition(c2, tc1, t02)
               locations == InitializedSequence(c1, c2, tc1, t02, start2).locations
           IN  /\ joint.source \in locations /\ joint.target \in locations
               /\ \A l \in m1.locations : l \in locations <=> l \notin {tc1.source, tc1.target}
               /\ \A l \in m2.locations :
                     l \in locations <=> l \notin {t02.source, t02.target, start2}
<1>1. /\ tc1.source \in m1.locations /\ tc1.target \in m1.locations
      /\ t02.source \in m2.locations /\ t02.target \in m2.locations
      /\ Composition(c2, tc1, t02).source = Join(tc1.source, t02.source)
      /\ Composition(c2, tc1, t02).target = Join(tc1.target, t02.target)
  BY JointType
<1>2. InitializedSequence(c1, c2, tc1, t02, start2).locations
         = (m1.locations \ {tc1.source, tc1.target})
              \cup (m2.locations \ {t02.source, t02.target, start2})
              \cup {Join(tc1.source, t02.source), Join(tc1.target, t02.target)}
  BY InitializedSequenceShape
<1>3. /\ m1.locations \cap m2.locations = {}
      /\ Join(tc1.source, t02.source) \notin m1.locations \cup m2.locations
      /\ Join(tc1.target, t02.target) \notin m1.locations \cup m2.locations
  BY <1>1, JointIsNew
<1> QED
  BY <1>1, <1>2, <1>3

(* If only tc1 enters tc1.target and nothing leaves it, a transition of    *)
(* the first model is left with a replaced end if it loops where tc1       *)
(* starts.                                                                 *)
LEMMA FirstConnects ==
    ASSUME NEW m1, NEW m2, Joinable(m1, m2), NEW c1, NEW c2, NEW tc1, NEW t02, NEW start2,
           Meeting(m1, m2, c1, c2, tc1, t02, start2),
           \A u \in c1.transitions : /\ u.source # tc1.target
                                     /\ u.target = tc1.target => u = tc1
    PROVE  (\A u \in FirstPart(c1, tc1, Composition(c2, tc1, t02)) :
               Connects(u, InitializedSequence(c1, c2, tc1, t02, start2)))
           <=> \A t \in c1.transitions : t.source = tc1.source => t.target # tc1.source
<1> DEFINE joint == Composition(c2, tc1, t02)
           d     == InitializedSequence(c1, c2, tc1, t02, start2)
<1>1. /\ joint.source \in d.locations
      /\ \A l \in m1.locations : l \in d.locations <=> l \notin {tc1.source, tc1.target}
  BY SequenceLocations
<1>2. /\ \A t \in c1.transitions :
            t \in Transition /\ t.source \in m1.locations /\ t.target \in m1.locations
      /\ tc1 \in c1.transitions
  BY DEF Meeting, Copied, Connects, SameDeclarations
<1> HIDE DEF joint, d
<1>3. ASSUME NEW t \in c1.transitions \ {tc1}
      PROVE  Connects(OfFirst(t, tc1, joint), d)
                <=> ~(t.source = tc1.source /\ t.target = tc1.source)
  <2>1. t \in Transition /\ t.source \in m1.locations /\ t.target \in m1.locations
    BY <1>2
  <2>2. t.source # tc1.target /\ t.target # tc1.target
    OBVIOUS
  <2>3. CASE t.target = tc1.source
    <3>1. OfFirst(t, tc1, joint) = [t EXCEPT !.target = joint.source]
      BY <2>3 DEF OfFirst
    <3>2. /\ OfFirst(t, tc1, joint).source = t.source
          /\ OfFirst(t, tc1, joint).target = joint.source
      BY <2>1, <3>1 DEF Transition
    <3> QED
      BY <1>1, <2>1, <2>2, <2>3, <3>2 DEF Connects
  <2>4. CASE t.target # tc1.source /\ t.source = tc1.source
    <3>1. OfFirst(t, tc1, joint) = [t EXCEPT !.source = joint.source]
      BY <2>4 DEF OfFirst
    <3>2. /\ OfFirst(t, tc1, joint).source = joint.source
          /\ OfFirst(t, tc1, joint).target = t.target
      BY <2>1, <3>1 DEF Transition
    <3> QED
      BY <1>1, <2>1, <2>2, <2>4, <3>2 DEF Connects
  <2>5. CASE t.target # tc1.source /\ t.source # tc1.source
    BY <1>1, <2>1, <2>2, <2>5 DEF Connects, OfFirst
  <2> QED
    BY <2>3, <2>4, <2>5
<1>4. tc1.target # tc1.source
  BY <1>2
<1> QED
  BY <1>2, <1>3, <1>4 DEF FirstPart, joint, d

(* If only the initial transition and t02 leave the locations before t02,  *)
(* and t02 comes back to neither, a transition of the second model is left *)
(* with a replaced end if it comes back there or loops where t02 leads.    *)
LEMMA SecondConnects ==
    ASSUME NEW m1, NEW m2, Joinable(m1, m2), NEW c1, NEW c2, NEW tc1, NEW t02, NEW start2,
           Meeting(m1, m2, c1, c2, tc1, t02, start2),
           \A u \in c2.transitions : /\ u.source = c2.initialLocation => u = InitialOf(c2)
                                     /\ u.source = t02.source => u = t02,
           t02.target # t02.source, t02.target # c2.initialLocation
    PROVE  (\A u \in SecondPart(c2, t02, Composition(c2, tc1, t02)) :
               Connects(u, InitializedSequence(c1, c2, tc1, t02, start2)))
           <=> /\ Into(c2, t02.source) = {InitialOf(c2)}
               /\ Into(c2, c2.initialLocation) = {}
               /\ \A t \in c2.transitions : t.source = t02.target => t.target # t02.target
<1> DEFINE joint == Composition(c2, tc1, t02)
           d     == InitializedSequence(c1, c2, tc1, t02, start2)
           init  == InitialOf(c2)
           rest  == c2.transitions \ {init, t02}
<1>1. /\ joint.target \in d.locations
      /\ \A l \in m2.locations :
            l \in d.locations <=> l \notin {t02.source, t02.target, start2}
  BY SequenceLocations
<1>2. /\ \A t \in c2.transitions :
            t \in Transition /\ t.source \in m2.locations /\ t.target \in m2.locations
      /\ t02 \in c2.transitions /\ init \in c2.transitions
      /\ init.source = c2.initialLocation /\ init.target = t02.source
  BY DEF Meeting, Copied, Connects, SameDeclarations
<1>3. \E t \in Into(c2, t02.source) : start2 = t.source
  BY DEF Meeting, SourcesInto, Into
<1> HIDE DEF joint, d, init
<1>4. init # t02 /\ t02.source # c2.initialLocation
  BY <1>2 DEF init
<1>5. ASSUME NEW t \in rest
      PROVE  /\ t.source # t02.source /\ t.source # c2.initialLocation
             /\ Connects(OfSecond(t, t02, joint), d)
                   <=> /\ t.source # start2 \/ t.source = t02.target
                       /\ t.target # start2 \/ (t.target = t02.target /\ t.source # t02.target)
                       /\ t.target # t02.source
                       /\ ~(t.source = t02.target /\ t.target = t02.target)
  <2>1. t \in Transition /\ t.source \in m2.locations /\ t.target \in m2.locations
    BY <1>2
  <2>2. t.source # t02.source /\ t.source # c2.initialLocation
    BY DEF init
  <2>3. CASE t.source = t02.target
    <3>1. OfSecond(t, t02, joint) = [t EXCEPT !.source = joint.target]
      BY <2>3 DEF OfSecond
    <3>2. /\ OfSecond(t, t02, joint).source = joint.target
          /\ OfSecond(t, t02, joint).target = t.target
      BY <2>1, <3>1 DEF Transition
    <3> QED
      BY <1>1, <2>1, <2>2, <2>3, <3>2 DEF Connects
  <2>4. CASE t.source # t02.target /\ t.target = t02.target
    <3>1. OfSecond(t, t02, joint) = [t EXCEPT !.target = joint.target]
      BY <2>4 DEF OfSecond
    <3>2. /\ OfSecond(t, t02, joint).source = t.source
          /\ OfSecond(t, t02, joint).target = joint.target
      BY <2>1, <3>1 DEF Transition
    <3> QED
      BY <1>1, <2>1, <2>2, <2>4, <3>2 DEF Connects
  <2>5. CASE t.source # t02.target /\ t.target # t02.target
    BY <1>1, <2>1, <2>2, <2>5 DEF Connects, OfSecond
  <2> QED
    BY <2>2, <2>3, <2>4, <2>5
<1> DEFINE allConnect == \A t \in rest : Connects(OfSecond(t, t02, joint), d)
<1>6. ASSUME allConnect
      PROVE  /\ Into(c2, t02.source) = {init} /\ Into(c2, c2.initialLocation) = {}
             /\ \A t \in c2.transitions : t.source = t02.target => t.target # t02.target
  <2>1. ASSUME NEW t \in c2.transitions, t.target = t02.source PROVE t = init
    <3>1. t # t02
      BY <2>1
    <3> QED
      BY <1>5, <1>6, <2>1, <3>1
  <2>2. Into(c2, t02.source) = {init} /\ start2 = c2.initialLocation
    BY <1>2, <1>3, <2>1 DEF Into
  <2>3. ASSUME NEW t \in c2.transitions, t.target = c2.initialLocation PROVE FALSE
    <3>1. t # t02 /\ t # init
      BY <1>2, <1>4, <2>3
    <3> QED
      BY <1>5, <1>6, <2>2, <2>3, <3>1
  <2>4. ASSUME NEW t \in c2.transitions, t.source = t02.target, t.target = t02.target
        PROVE  FALSE
    <3>1. t # t02 /\ t # init
      BY <1>2, <2>4
    <3> QED
      BY <1>5, <1>6, <2>4, <3>1
  <2> QED
    BY <2>2, <2>3, <2>4 DEF Into
<1>7. ASSUME Into(c2, t02.source) = {init}, Into(c2, c2.initialLocation) = {},
             \A t \in c2.transitions : t.source = t02.target => t.target # t02.target
      PROVE  allConnect
  <2> SUFFICES ASSUME NEW t \in rest PROVE Connects(OfSecond(t, t02, joint), d)
    OBVIOUS
  <2>1. start2 = c2.initialLocation
    BY <1>2, <1>3, <1>7
  <2>2. t.target # t02.source /\ t.target # c2.initialLocation
    BY <1>7 DEF Into
  <2> QED
    BY <1>5, <1>7, <2>1, <2>2
<1>8. (\A u \in SecondPart(c2, t02, joint) : Connects(u, d)) <=> allConnect
  BY DEF SecondPart, init
<1> QED
  BY <1>6, <1>7, <1>8 DEF joint, d, init

\* The locations of m1 and m2, and those of both joined.
JoinedLocations(m1, m2) ==
    m1.locations \cup m2.locations
        \cup UNION {{Join(x, y) : x \in m1.locations} : y \in m2.locations}

(* A sequential composition that returns gives a sound model, whose lists  *)
(* and map hold the same transitions.                                      *)
LEMMA SequenceShape ==
    ASSUME NEW m1, NEW m2, Joinable(m1, m2), NEW r \in sequentialComposition(m1, m2),
           r # Thrown
    PROVE  /\ Sound(r) /\ OutTransitions(r) = r.transitions
           /\ r.locations \subseteq JoinedLocations(m1, m2)
<1>1. Sound(m1) /\ Sound(m2)
  BY DEF Joinable
<1>2. MetIn(m1, m2, r)
  BY <1>1, SequenceMeets
<1>3. PICK c1, c2, tc1, t02, start2 :
         Meeting(m1, m2, c1, c2, tc1, t02, start2) /\ r = Composed(c1, c2, tc1, t02, start2)
  BY <1>2 DEF MetIn
<1>4. OutTransitions(r) = r.transitions
  BY <1>3, SequenceKeyed
<1>5. Sound(r) /\ SameDeclarations(InitializedSequence(c1, c2, tc1, t02, start2), r)
  BY <1>3, ComposedShape
<1>6. r.locations = (m1.locations \ {tc1.source, tc1.target})
                       \cup (m2.locations \ {t02.source, t02.target, start2})
                       \cup {Join(tc1.source, t02.source), Join(tc1.target, t02.target)}
  BY <1>3, <1>5, InitializedSequenceShape DEF SameDeclarations
<1>7. /\ tc1.source \in m1.locations /\ tc1.target \in m1.locations
      /\ t02.source \in m2.locations /\ t02.target \in m2.locations
  BY <1>3, JointType
<1>8. r.locations \subseteq JoinedLocations(m1, m2)
  BY <1>6, <1>7 DEF JoinedLocations
<1> QED
  BY <1>4, <1>5, <1>8

\* The last call was a sequential composition of two models.
SequenceCalled ==
    /\ Joinable(last.first, last.second) /\ WellFormed(last.second)
    /\ result \in sequentialComposition(last.first, last.second)

(* What SequentialFit says of the two models.                              *)
LEMMA FitOf ==
    ASSUME SequentialFit
    PROVE  LET m1 == last.first
               m2 == last.second
           IN  /\ Cloneable(m1) /\ Cloneable(m2) /\ HasInitial(m2)
               /\ Len(m2.out[InitialOf(m2).target]) = 1
               /\ FirstOf2 = FirstAfterInitial(m2)
               /\ FirstOf2.action.type = ACTION_INPUT
               /\ FirstOf2.target \notin {FirstOf2.source, m2.initialLocation}
               /\ \E t \in LastOf1 : /\ LastOf1 = {t}
                                     /\ m1.out[t.target] = <<>>
                                     /\ Cardinality(Into(m1, t.target)) = 1
<1>1. /\ Cloneable(last.first) /\ Cloneable(last.second) /\ HasInitial(last.second)
  BY DEF SequentialFit, Prepared
<1>2. PICK t \in LastOf1 : /\ LastOf1 = {t}
                           /\ isCompatibleSequence(last.first, last.second, t.target)
  BY DEF SequentialFit
<1>3. /\ last.first.out[t.target] = <<>>
      /\ Cardinality(Into(last.first, t.target)) = 1
      /\ Len(last.second.out[InitialOf(last.second).target]) = 1
      /\ FirstOf2.action.type = ACTION_INPUT
  BY <1>2 DEF isCompatibleSequence, isSingleAction, Into, FirstOf2
<1> QED
  BY <1>1, <1>2, <1>3 DEF SequentialFit, FirstOf2, FirstAfterInitial

(* What meets in a sequence of models that fit.                            *)
LEMMA FitMeets ==
    ASSUME SequentialFit, SequenceCalled
    PROVE  MetIn(last.first, last.second, result)
<1> DEFINE m1 == last.first
           m2 == last.second
<1>1. /\ Cloneable(m1) /\ Cloneable(m2) /\ HasInitial(m2)
      /\ Len(m2.out[InitialOf(m2).target]) = 1 /\ FirstOf2 = FirstAfterInitial(m2)
      /\ \E t \in LastOf1 : TRUE
  BY FitOf
<1>2. Joinable(m1, m2) /\ Sound(m1) /\ Sound(m2) /\ WellFormed(m2)
  BY DEF SequenceCalled, Joinable
<1>3. PICK t1 \in m1.transitions : t1.action.name = FirstAfterInitial(m2).action.name
  BY <1>1 DEF LastOf1
<1>4. result \in sequentialComposition(m1, m2)
  BY DEF SequenceCalled
<1> HIDE DEF m1, m2
<1>5. InitialOf(m2) \in m2.transitions /\ InitialOf(m2).source = m2.initialLocation
      /\ \A u \in m2.transitions : u.source = m2.initialLocation => u = InitialOf(m2)
  BY <1>2, InitialIsListed DEF InitialOf
<1>6. LET l02 == InitialOf(m2).target
      IN  /\ l02 \in m2.locations /\ m2.out[l02] \in Seq(Transition)
          /\ FirstAfterInitial(m2) \in OutTransitions(m2) /\ FirstAfterInitial(m2).source = l02
          /\ \A t \in Range(m2.out[l02]) : t = FirstAfterInitial(m2)
  <2> DEFINE l02 == InitialOf(m2).target
  <2>1. l02 \in m2.locations /\ l02 \in Label
    BY <1>2, <1>5, SoundConnects DEF Connects, Sound, Model
  <2>2. m2.out[l02] \in Seq(Transition) /\ Len(m2.out[l02]) = 1
    BY <1>1, <1>2, <2>1 DEF Sound, Model
  <2>3. DOMAIN m2.out[l02] = {1}
    BY <2>2
  <2>4. FirstAfterInitial(m2) \in Range(m2.out[l02])
    BY <2>3 DEF Range, FirstAfterInitial
  <2>5. FirstAfterInitial(m2) \in OutTransitions(m2) /\ FirstAfterInitial(m2).source = l02
    BY <1>2, <2>1, <2>4 DEF OutTransitions, Sound
  <2>6. \A t \in Range(m2.out[l02]) : t = FirstAfterInitial(m2)
    BY <2>3 DEF Range, FirstAfterInitial
  <2> QED
    BY <2>1, <2>2, <2>5, <2>6
<1>7. PICK u2 \in m2.transitions : Key(u2) = Key(FirstAfterInitial(m2))
  BY <1>2, <1>6 DEF Sound
<1>8. ASSUME NEW c1 \in Copies(m1), NEW c2 \in Copies(m2)
      PROVE  /\ HasInitial(c2) /\ c2.out[InitialOf(c2).target] # <<>>
             /\ getCompositionTransition(c1,
                    c2.out[InitialOf(c2).target][1].action.name) # {}
  <2>1. Copied(m1, c1) /\ Copied(m2, c2)
    BY <1>2, CopySound
  <2>2. /\ c2.initialLocation = m2.initialLocation /\ c2.locations = m2.locations
        /\ \A t \in m2.transitions : \E u \in c2.transitions : Twin(t, u)
        /\ \A u \in c2.transitions : \E t \in m2.transitions : Twin(t, u)
        /\ \A l \in c2.locations : Range(c2.out[l]) = {t \in c2.transitions : t.source = l}
        /\ \A t, u \in c2.transitions : Key(t) = Key(u) => t = u
        /\ \A l \in c2.locations : c2.out[l] \in Seq(Transition)
    BY <2>1 DEF Copied, SameDeclarations, Model
  <2>3. ASSUME NEW l \in c2.locations, NEW t \in m2.transitions, t.source = l
        PROVE  c2.out[l] # <<>> /\ c2.out[l][1] \in c2.transitions /\ c2.out[l][1].source = l
    <3>1. PICK u \in c2.transitions : Twin(t, u)
      BY <2>2
    <3>2. u \in Range(c2.out[l])
      BY <2>2, <2>3, <3>1 DEF Twin
    <3>3. c2.out[l] # <<>>
      BY <3>2, EmptySeq DEF Range
    <3>4. 1 \in DOMAIN c2.out[l]
      BY <2>2, <3>3, TailOf
    <3>5. c2.out[l][1] \in Range(c2.out[l])
      BY <3>4 DEF Range
    <3> QED
      BY <2>2, <3>3, <3>5
  <2>4. /\ c2.initialLocation \in c2.locations /\ c2.initialLocation # NoLabel
    BY <1>1, <1>2, <2>2 DEF HasInitial, Sound
  <2>5. /\ c2.out[c2.initialLocation] # <<>>
        /\ InitialOf(c2) \in c2.transitions /\ InitialOf(c2).source = c2.initialLocation
    BY <1>5, <2>2, <2>3, <2>4 DEF InitialOf
  <2>6. InitialOf(c2).target = InitialOf(m2).target
    BY <1>5, <2>2, <2>5 DEF Twin
  <2> DEFINE l02 == InitialOf(c2).target
  <2>7. /\ c2.out[l02] # <<>> /\ c2.out[l02][1] \in c2.transitions
        /\ c2.out[l02][1].source = l02
    <3>1. l02 \in c2.locations /\ u2.source = l02
      BY <1>6, <1>7, <2>2, <2>6 DEF Key
    <3> QED
      BY <2>3, <3>1
  <2>8. c2.out[l02][1].action.name = FirstAfterInitial(m2).action.name
    <3>1. PICK t \in m2.transitions : Twin(t, c2.out[l02][1])
      BY <2>2, <2>7
    <3>2. t \in OutTransitions(m2) /\ t.source = l02
      BY <1>2, <2>7, <3>1 DEF Sound, Twin
    <3>3. t \in Range(m2.out[l02])
      BY <1>2, <3>2 DEF Sound, OutTransitions
    <3> QED
      BY <1>6, <2>6, <3>1, <3>3 DEF Twin
  <2>9. \E u \in c1.transitions : Twin(t1, u)
    BY <2>1 DEF Copied
  <2>10. getCompositionTransition(c1, c2.out[l02][1].action.name) # {}
    BY <1>3, <2>8, <2>9 DEF getCompositionTransition, Twin
  <2> QED
    BY <2>4, <2>5, <2>7, <2>10 DEF HasInitial
<1>9. ~NothingMeets(m1, m2)
  BY <1>1, <1>8 DEF NothingMeets
<1>10. MetIn(m1, m2, result)
  BY <1>2, <1>4, <1>9, SequenceMeets
<1> QED
  BY <1>10 DEF m1, m2

(* What a sequence of models that fit returns can be cloned as             *)
(* ResultCloneable says.                                                   *)
LEMMA SequenceResult ==
    ASSUME SequentialFit, SequenceCalled, result # Thrown
    PROVE  Cloneable(result) <=> Foreign = {} /\ ~ReceivedAgain
<1> DEFINE m1 == last.first
           m2 == last.second
<1>1. /\ Cloneable(m1) /\ Cloneable(m2)
      /\ Len(m2.out[InitialOf(m2).target]) = 1 /\ FirstOf2 = FirstAfterInitial(m2)
      /\ FirstAfterInitial(m2).action.type = ACTION_INPUT
  BY FitOf
<1>2. Joinable(m1, m2) /\ WellFormed(m2)
  BY DEF SequenceCalled
<1>3. MetIn(m1, m2, result)
  BY FitMeets
<1>4. /\ Foreign = Internals(AfterInitial(m2)) \ m1.internalActions
      /\ ReceivedAgain <=> /\ FirstOf2.action.name \notin m1.inputActions
                           /\ \E t \in AfterInitial(m2) \ {FirstOf2} : t.action = FirstOf2.action
  BY DEF Foreign, ReceivedAgain
<1> HIDE DEF m1, m2
<1>5. PICK c1, c2, tc1, t02, start2 :
         /\ Meeting(m1, m2, c1, c2, tc1, t02, start2)
         /\ result = Composed(c1, c2, tc1, t02, start2)
  BY <1>3 DEF MetIn
<1>6. Cloneable(Composed(c1, c2, tc1, t02, start2))
        <=> /\ Internals(AfterInitial(m2)) \ m1.internalActions = {}
            /\ ~ /\ FirstAfterInitial(m2).action.name \notin m1.inputActions
                 /\ \E t \in AfterInitial(m2) \ {FirstAfterInitial(m2)} :
                       t.action = FirstAfterInitial(m2).action
  BY <1>1, <1>2, <1>5, SequenceCloneable
<1> QED
  BY <1>1, <1>4, <1>5, <1>6

(* Of the location that the initial transition leads to, one transition    *)
(* leaves if its list has one.                                             *)
LEMMA OnlyOneLeaves ==
    ASSUME NEW m, Sound(m), InitialOf(m) \in m.transitions,
           Len(m.out[InitialOf(m).target]) = 1,
           FirstAfterInitial(m) \in m.transitions
    PROVE  \A t \in m.transitions :
              t.source = FirstAfterInitial(m).source => t = FirstAfterInitial(m)
<1> DEFINE l02  == InitialOf(m).target
           next == FirstAfterInitial(m)
<1>1. l02 \in m.locations /\ m.out[l02] \in Seq(Transition)
  BY SoundConnects DEF Connects, Sound, Model
<1>2. DOMAIN m.out[l02] = {1} /\ next = m.out[l02][1]
  BY <1>1 DEF FirstAfterInitial
<1>3. Range(m.out[l02]) = {next}
  <2> HIDE DEF l02, next
  <2> QED
    BY <1>2 DEF Range
<1>4. next.source = l02
  BY <1>1, <1>3 DEF Sound
<1> SUFFICES ASSUME NEW t \in m.transitions, t.source = next.source PROVE t = next
  OBVIOUS
<1>5. PICK l \in m.locations : t \in Range(m.out[l])
  BY DEF Sound, OutTransitions
<1>6. l = l02
  BY <1>4, <1>5 DEF Sound
<1> QED
  BY <1>3, <1>5, <1>6

(* What is known of two copies with transitions that meet.                 *)
LEMMA MeetingCopies ==
    ASSUME NEW m1, NEW m2, NEW c1, NEW c2, NEW tc1, NEW t02, NEW start2,
           Meeting(m1, m2, c1, c2, tc1, t02, start2)
    PROVE  /\ c1.locations = m1.locations /\ c2.locations = m2.locations
           /\ c2.initialLocation = m2.initialLocation
           /\ InitialOf(c2) \in c2.transitions /\ InitialOf(c2).source = c2.initialLocation
           /\ InitialOf(c2).target = t02.source
           /\ t02 \in c2.transitions /\ tc1 \in c1.transitions
           /\ tc1.action.name = t02.action.name
           /\ \A t, u \in c1.transitions : Key(t) = Key(u) => t = u
           /\ \A t, u \in c2.transitions : Key(t) = Key(u) => t = u
           /\ \A t \in m1.transitions : \E u \in c1.transitions : Twin(t, u)
           /\ \A u \in c1.transitions : \E t \in m1.transitions : Twin(t, u)
           /\ \A t \in m2.transitions : \E u \in c2.transitions : Twin(t, u)
           /\ \A u \in c2.transitions : \E t \in m2.transitions : Twin(t, u)
  BY DEF Meeting, Copied, SameDeclarations

\* What meets in models that fit: t1, which becomes tc1, and FirstOf2, which
\* becomes t02.
Fitting(m1, m2, c1, c2, t1, tc1, t02) ==
    /\ LastOf1 = {t1} /\ t1 \in m1.transitions /\ Twin(t1, tc1)
    /\ Twin(InitialOf(m2), InitialOf(c2)) /\ InitialOf(m2) \in m2.transitions
    /\ Twin(FirstOf2, t02) /\ FirstOf2 \in m2.transitions
    /\ \A u \in c1.transitions : /\ u.source # tc1.target
                                 /\ u.target = tc1.target => u = tc1
                                 /\ u.action.name = tc1.action.name => u = tc1
    /\ \A u \in c2.transitions : /\ u.source = c2.initialLocation => u = InitialOf(c2)
                                 /\ u.source = t02.source => u = t02
    /\ t02.target # t02.source /\ t02.target # c2.initialLocation

(* What SequentialFit says of the copies that are composed.                *)
LEMMA FitParts ==
    ASSUME SequentialFit, SequenceCalled
    PROVE  \E c1, c2, t1, tc1, t02, start2 :
              /\ Meeting(last.first, last.second, c1, c2, tc1, t02, start2)
              /\ result = Composed(c1, c2, tc1, t02, start2)
              /\ Fitting(last.first, last.second, c1, c2, t1, tc1, t02)
<1> DEFINE m1 == last.first
           m2 == last.second
           next == FirstAfterInitial(m2)
           init == InitialOf(m2)
<1>1. /\ Len(m2.out[InitialOf(m2).target]) = 1 /\ FirstOf2 = next
      /\ next.target \notin {next.source, m2.initialLocation}
  BY FitOf
<1>2. PICK t1 \in m1.transitions : /\ LastOf1 = {t1} /\ m1.out[t1.target] = <<>>
                                   /\ Cardinality(Into(m1, t1.target)) = 1
                                   /\ t1.action.name = next.action.name
                                   /\ \A t \in m1.transitions :
                                         t.action.name = next.action.name => t = t1
  <2>1. /\ LastOf1 = {t \in m1.transitions : t.action.name = next.action.name}
        /\ \E t \in LastOf1 : /\ LastOf1 = {t} /\ m1.out[t.target] = <<>>
                              /\ Cardinality(Into(m1, t.target)) = 1
    BY FitOf DEF LastOf1
  <2> HIDE DEF next, m1
  <2> QED
    BY <2>1
<1>3. Joinable(m1, m2) /\ WellFormed(m2) /\ Sound(m1) /\ Sound(m2)
  BY DEF SequenceCalled, Joinable
<1>4. MetIn(m1, m2, result)
  BY FitMeets
<1> HIDE DEF m1, m2, next, init
<1>5. PICK c1, c2, tc1, t02, start2 :
         /\ Meeting(m1, m2, c1, c2, tc1, t02, start2)
         /\ result = Composed(c1, c2, tc1, t02, start2)
  BY <1>4 DEF MetIn
<1>6. /\ Twin(init, InitialOf(c2)) /\ Twin(next, t02)
      /\ init \in m2.transitions /\ next \in m2.transitions
      /\ \A t \in AfterInitial(m2) \ {next} :
            \E u \in c2.transitions \ {InitialOf(c2), t02} : Twin(t, u)
      /\ \A u \in c2.transitions \ {InitialOf(c2), t02} :
            \E t \in AfterInitial(m2) \ {next} : Twin(t, u)
  BY <1>1, <1>3, <1>5, LeftOut DEF next, init
<1>7. /\ c1.locations = m1.locations /\ c2.locations = m2.locations
      /\ c2.initialLocation = m2.initialLocation
      /\ InitialOf(c2) \in c2.transitions /\ InitialOf(c2).source = c2.initialLocation
      /\ InitialOf(c2).target = t02.source
      /\ t02 \in c2.transitions /\ tc1 \in c1.transitions
      /\ tc1.action.name = t02.action.name
      /\ \A t, u \in c1.transitions : Key(t) = Key(u) => t = u
      /\ \A t, u \in c2.transitions : Key(t) = Key(u) => t = u
      /\ \A t \in m1.transitions : \E u \in c1.transitions : Twin(t, u)
      /\ \A u \in c1.transitions : \E t \in m1.transitions : Twin(t, u)
      /\ \A t \in m2.transitions : \E u \in c2.transitions : Twin(t, u)
      /\ \A u \in c2.transitions : \E t \in m2.transitions : Twin(t, u)
  BY <1>5, MeetingCopies
<1>8. Twin(t1, tc1)
  <2>1. PICK t \in m1.transitions : Twin(t, tc1)
    BY <1>7
  <2>2. t.action.name = next.action.name
    BY <1>6, <1>7, <2>1 DEF Twin
  <2> QED
    BY <1>2, <2>1, <2>2
<1>9. /\ \A t \in m1.transitions : t.source # t1.target
      /\ \A t \in m1.transitions : t.target = t1.target => t = t1
  <2>1. t1.target \in m1.locations
    BY <1>2, <1>3, SoundConnects DEF Connects
  <2>2. ASSUME NEW t \in m1.transitions, t.source = t1.target PROVE FALSE
    <3>1. PICK l \in m1.locations : t \in Range(m1.out[l])
      BY <1>3 DEF Sound, OutTransitions
    <3>2. l = t1.target
      BY <1>3, <2>2, <3>1 DEF Sound
    <3>3. Range(m1.out[l]) = {}
      BY <1>2, <3>2, EmptySeq DEF Range
    <3> QED
      BY <3>1, <3>3
  <2>3. IsFiniteSet(Into(m1, t1.target))
    <3>1. Into(m1, t1.target) \in SUBSET m1.transitions
      BY DEF Into
    <3> QED
      BY <1>3, <3>1, FS_Subset DEF Sound
  <2>4. PICK x : Into(m1, t1.target) = {x}
    BY <1>2, <2>3, FS_Singleton
  <2>5. t1 \in Into(m1, t1.target)
    BY <1>2 DEF Into
  <2> QED
    BY <2>2, <2>4, <2>5 DEF Into
<1>10. \A u \in c1.transitions : /\ u.source # tc1.target
                                 /\ u.target = tc1.target => u = tc1
                                 /\ u.action.name = tc1.action.name => u = tc1
  <2> SUFFICES ASSUME NEW u \in c1.transitions
               PROVE  /\ u.source # tc1.target
                      /\ u.target = tc1.target => u = tc1
                      /\ u.action.name = tc1.action.name => u = tc1
    OBVIOUS
  <2>1. PICK t \in m1.transitions : Twin(t, u)
    BY <1>7
  <2>2. /\ t.source # t1.target /\ (t.target = t1.target => t = t1)
        /\ t.action.name = t1.action.name => t = t1
    BY <1>2, <1>9
  <2>3. t = t1 => Key(u) = Key(tc1)
    BY <1>8, <2>1 DEF Twin, Key
  <2> QED
    BY <1>7, <1>8, <2>1, <2>2, <2>3 DEF Twin
<1>11. \A u \in c2.transitions : /\ u.source = c2.initialLocation => u = InitialOf(c2)
                                 /\ u.source = t02.source => u = t02
  <2>1. \A t \in m2.transitions : t.source = m2.initialLocation => t = init
    BY <1>3, InitialIsListed DEF InitialOf, init
  <2>2. \A t \in m2.transitions : t.source = next.source => t = next
    BY <1>1, <1>3, <1>6, OnlyOneLeaves DEF init, next
  <2> SUFFICES ASSUME NEW u \in c2.transitions
               PROVE  /\ u.source = c2.initialLocation => u = InitialOf(c2)
                      /\ u.source = t02.source => u = t02
    OBVIOUS
  <2>3. PICK t \in m2.transitions : Twin(t, u)
    BY <1>7
  <2>4. t = init => Key(u) = Key(InitialOf(c2))
    BY <1>6, <2>3 DEF Twin, Key
  <2>5. t = next => Key(u) = Key(t02)
    BY <1>6, <2>3 DEF Twin, Key
  <2> QED
    BY <1>6, <1>7, <2>1, <2>2, <2>3, <2>4, <2>5 DEF Twin
<1>12. t02.target # t02.source /\ t02.target # c2.initialLocation
  BY <1>1, <1>6, <1>7 DEF Twin
<1>13. Fitting(m1, m2, c1, c2, t1, tc1, t02)
  BY <1>1, <1>2, <1>6, <1>8, <1>10, <1>11, <1>12 DEF Fitting, init
<1> QED
  BY <1>5, <1>13 DEF m1, m2

(* A sequence of models that fit throws exactly if a transition is left    *)
(* with an end that was replaced.                                          *)
LEMMA SequenceThrows ==
    ASSUME SequentialFit, SequenceCalled
    PROVE  SequenceReturns
<1> DEFINE m1 == last.first
           m2 == last.second
           next == FirstOf2
           init == InitialOf(m2)
<1>1. PICK c1, c2, t1, tc1, t02, start2 :
         /\ Meeting(m1, m2, c1, c2, tc1, t02, start2)
         /\ result = Composed(c1, c2, tc1, t02, start2)
         /\ Fitting(m1, m2, c1, c2, t1, tc1, t02)
  BY FitParts
<1>2. /\ LastOf1 = {t1} /\ Twin(t1, tc1) /\ Twin(init, InitialOf(c2)) /\ Twin(next, t02)
      /\ init \in m2.transitions /\ next \in m2.transitions
      /\ \A u \in c1.transitions : /\ u.source # tc1.target
                                   /\ u.target = tc1.target => u = tc1
      /\ \A u \in c2.transitions : /\ u.source = c2.initialLocation => u = InitialOf(c2)
                                   /\ u.source = t02.source => u = t02
      /\ t02.target # t02.source /\ t02.target # c2.initialLocation
  BY <1>1 DEF Fitting
<1>3. SequentialEnds
        <=> /\ Into(m2, next.source) = {init}
            /\ Into(m2, m2.initialLocation) = {}
            /\ \A t \in m1.transitions : t.source = t1.source => t.target # t1.source
            /\ \A t \in m2.transitions : t.source = next.target => t.target # next.target
  <2>1. (CHOOSE t \in LastOf1 : TRUE) = t1
    BY <1>2
  <2> QED
    BY <2>1 DEF SequentialEnds
<1>4. Joinable(m1, m2) /\ WellFormed(m2) /\ Sound(m1) /\ Sound(m2)
  BY DEF SequenceCalled, Joinable
<1> HIDE DEF m1, m2, next, init
<1>5. /\ c1.locations = m1.locations /\ c2.locations = m2.locations
      /\ c2.initialLocation = m2.initialLocation
      /\ InitialOf(c2) \in c2.transitions /\ InitialOf(c2).source = c2.initialLocation
      /\ InitialOf(c2).target = t02.source
      /\ t02 \in c2.transitions /\ tc1 \in c1.transitions
      /\ tc1.action.name = t02.action.name
      /\ \A t, u \in c1.transitions : Key(t) = Key(u) => t = u
      /\ \A t, u \in c2.transitions : Key(t) = Key(u) => t = u
      /\ \A t \in m1.transitions : \E u \in c1.transitions : Twin(t, u)
      /\ \A u \in c1.transitions : \E t \in m1.transitions : Twin(t, u)
      /\ \A t \in m2.transitions : \E u \in c2.transitions : Twin(t, u)
      /\ \A u \in c2.transitions : \E t \in m2.transitions : Twin(t, u)
  BY <1>1, MeetingCopies
<1>6. (\A t \in c1.transitions : t.source = tc1.source => t.target # tc1.source)
          <=> \A t \in m1.transitions : t.source = t1.source => t.target # t1.source
  BY <1>2, <1>5 DEF Twin
<1>7. /\ Into(c2, t02.source) = {InitialOf(c2)} <=> Into(m2, next.source) = {init}
      /\ Into(c2, c2.initialLocation) = {} <=> Into(m2, m2.initialLocation) = {}
      /\ (\A t \in c2.transitions : t.source = t02.target => t.target # t02.target)
            <=> \A t \in m2.transitions : t.source = next.target => t.target # next.target
  <2>1. next.source = t02.source /\ next.target = t02.target /\ init.target = t02.source
        /\ c2.initialLocation = m2.initialLocation
    BY <1>2, <1>5 DEF Twin
  <2>2. ASSUME NEW t \in m2.transitions, NEW u \in c2.transitions, Twin(t, u)
        PROVE  t = init <=> u = InitialOf(c2)
    <3>1. Twin(init, InitialOf(c2)) /\ init \in m2.transitions
      BY <1>2
    <3>2. t = init => Key(u) = Key(InitialOf(c2))
      BY <2>2, <3>1 DEF Twin, Key
    <3>3. u = InitialOf(c2) => Key(t) = Key(init)
      BY <2>2, <3>1 DEF Twin, Key
    <3>4. Key(t) = Key(init) => t = init
      BY <1>4, <3>1 DEF Sound
    <3> QED
      BY <1>5, <3>2, <3>3, <3>4
  <2>3. Into(c2, t02.source) = {InitialOf(c2)} <=> Into(m2, next.source) = {init}
    <3>1. Into(c2, t02.source) = {InitialOf(c2)}
            <=> \A u \in c2.transitions : u.target = t02.source => u = InitialOf(c2)
      BY <1>5 DEF Into
    <3>2. Into(m2, next.source) = {init}
            <=> \A t \in m2.transitions : t.target = t02.source => t = init
      BY <1>2, <2>1 DEF Into
    <3> QED
      BY <1>5, <2>2, <3>1, <3>2 DEF Twin
  <2>4. Into(c2, c2.initialLocation) = {} <=> Into(m2, m2.initialLocation) = {}
    BY <1>5, <2>1 DEF Into, Twin
  <2>5. (\A t \in c2.transitions : t.source = t02.target => t.target # t02.target)
           <=> \A t \in m2.transitions : t.source = next.target => t.target # next.target
    BY <1>5, <2>1 DEF Twin
  <2> QED
    BY <2>3, <2>4, <2>5
<1> DEFINE d     == InitializedSequence(c1, c2, tc1, t02, start2)
           joint == Composition(c2, tc1, t02)
           p1    == FirstPart(c1, tc1, joint)
           p2    == SecondPart(c2, t02, joint)
           r     == Composed(c1, c2, tc1, t02, start2)
<1>8. (\A u \in p1 : Connects(u, d))
          <=> \A t \in m1.transitions : t.source = t1.source => t.target # t1.source
  BY <1>1, <1>2, <1>4, <1>6, FirstConnects
<1>9. (\A u \in p2 : Connects(u, d))
          <=> /\ Into(m2, next.source) = {init} /\ Into(m2, m2.initialLocation) = {}
              /\ \A t \in m2.transitions : t.source = next.target => t.target # next.target
  <2>1. (\A u \in p2 : Connects(u, d))
          <=> /\ Into(c2, t02.source) = {InitialOf(c2)}
              /\ Into(c2, c2.initialLocation) = {}
              /\ \A t \in c2.transitions : t.source = t02.target => t.target # t02.target
    BY <1>1, <1>2, <1>4, SecondConnects
  <2> QED
    BY <1>7, <2>1
<1>10. (r = Thrown /\ \E t \in p1 \cup p2 : ~Connects(t, d))
          \/ ((\A t \in p1 \cup p2 : Connects(t, d)) /\ Sound(r))
  BY <1>1, <1>4, ComposedShape
<1>11. r = Thrown <=> ~(\A t \in p1 \cup p2 : Connects(t, d))
  <2> HIDE DEF p1, p2, r, d
  <2> QED
    BY <1>10, ThrownIsNoModel DEF Sound
<1>12. result = Thrown <=> ~SequentialEnds
  <2> HIDE DEF p1, p2, r, d
  <2>1. (\A t \in p1 \cup p2 : Connects(t, d))
           <=> (\A u \in p1 : Connects(u, d)) /\ (\A u \in p2 : Connects(u, d))
    OBVIOUS
  <2>2. result = r
    BY <1>1 DEF r
  <2> QED
    BY <1>3, <1>8, <1>9, <1>11, <2>1, <2>2
<1> QED
  BY <1>12 DEF SequenceReturns

-----------------------------------------------------------------------------
(* The words of a model.                                                   *)

(* What holds at 0, and at a number if it does at the one before, holds up *)
(* to N.                                                                   *)
LEMMA UpTo ==
    ASSUME NEW N \in Nat, NEW S, 0 \in S, \A k \in 1..N : k - 1 \in S => k \in S
    PROVE  0..N \subseteq S
<1> SUFFICES ASSUME NEW n \in 0..N PROVE n \in S
  OBVIOUS
<1> DEFINE I == {i \in 1..(n + 1) : i - 1 \in S}
<1>1. n + 1 \in Nat /\ I \in SUBSET (1..(n + 1)) /\ I # {}
  <2>1. 1 \in 1..(n + 1) /\ 1 - 1 = 0 /\ n + 1 \in Nat
    OBVIOUS
  <2>2. 1 \in I
    BY <2>1
  <2> QED
    BY <2>1, <2>2
<1>2. PICK i \in I : \A j \in I : j <= i
  <2> HIDE DEF I
  <2> QED
    BY <1>1, HasLast
<1>3. i = n + 1
  <2> SUFFICES ASSUME i # n + 1 PROVE FALSE
    OBVIOUS
  <2>1. i \in 1..N /\ i + 1 \in 1..(n + 1) /\ (i + 1) - 1 = i /\ ~(i + 1 <= i)
    BY <1>2
  <2>2. i \in S
    BY <1>2, <2>1
  <2>3. i + 1 \in I
    BY <2>1, <2>2
  <2> QED
    BY <1>2, <2>1, <2>3
<1>4. i - 1 = n /\ i - 1 \in S
  BY <1>2, <1>3
<1> QED
  BY <1>4

\* A transition of m leads from l to x on an action named a.
Leads(m, l, a, x) ==
    \E t \in OutTransitions(m) : t.source = l /\ t.action.name = a /\ t.target = x

\* w is v with a before it.
Before(a, v, w) == v \in Seq(Name) /\ w = <<a>> \o v

\* f[k][l] are the words of at most k actions from the location l of m.
AreWords(m, f) ==
    \A k \in 0..MaxWord, l \in m.locations : \A w :
       w \in f[k][l] <=> \/ w = <<>>
                         \/ /\ k > 0
                            /\ \E a, x, v : /\ Leads(m, l, a, x) /\ v \in f[k - 1][x]
                                            /\ Before(a, v, w)

\* One round of the loop over the lengths.
Longer(m, W) ==
    [l \in m.locations |->
        {<<>>} \cup UNION {{<<t.action.name>> \o w : w \in W[t.target]} : t \in From(m, l)}]

(* A word with an action before it is a word.                              *)
LEMMA LongerType ==
    ASSUME NEW m, Sound(m), NEW W \in [m.locations -> SUBSET Seq(Name)]
    PROVE  /\ Longer(m, W) \in [m.locations -> SUBSET Seq(Name)]
           /\ \A l \in m.locations : \A w :
                 w \in Longer(m, W)[l]
                    <=> w = <<>> \/ \E a, x, v : /\ Leads(m, l, a, x) /\ v \in W[x]
                                                 /\ Before(a, v, w)
<1>1. ASSUME NEW l \in m.locations, NEW t \in From(m, l)
      PROVE  t.source = l /\ t.target \in m.locations /\ t.action.name \in Name
  <2>1. t \in OutTransitions(m) /\ t.source = l
    BY <1>1 DEF From, OutTransitions, Sound
  <2>2. t \in Transition /\ Connects(t, m)
    BY <2>1, SoundConnects
  <2> QED
    BY <2>1, <2>2 DEF Transition, Action, Connects
<1>2. ASSUME NEW l \in m.locations, NEW t \in OutTransitions(m), t.source = l
      PROVE  t \in From(m, l)
  BY <1>2 DEF From, OutTransitions, Sound
<1>3. ASSUME NEW l \in m.locations
      PROVE  Longer(m, W)[l]
                = {<<>>} \cup UNION {{<<t.action.name>> \o w : w \in W[t.target]} :
                                        t \in From(m, l)}
  BY DEF Longer
<1>4. ASSUME NEW l \in m.locations, NEW w
      PROVE  w \in Longer(m, W)[l]
                <=> w = <<>> \/ \E a, x, v : /\ Leads(m, l, a, x) /\ v \in W[x]
                                             /\ Before(a, v, w)
  <2>1. w \in Longer(m, W)[l]
           <=> w = <<>> \/ \E t \in From(m, l) : \E v \in W[t.target] : w = <<t.action.name>> \o v
    <3> DEFINE after(t) == {<<t.action.name>> \o v : v \in W[t.target]}
    <3>1. \A t : w \in after(t) <=> \E v \in W[t.target] : w = <<t.action.name>> \o v
      OBVIOUS
    <3>2. Longer(m, W)[l] = {<<>>} \cup UNION {after(t) : t \in From(m, l)}
      BY <1>3
    <3> HIDE DEF after
    <3>3. w \in Longer(m, W)[l] <=> w = <<>> \/ \E t \in From(m, l) : w \in after(t)
      BY <3>2
    <3> QED
      BY <3>1, <3>3
  <2>2. ASSUME NEW t \in From(m, l), NEW v \in W[t.target], w = <<t.action.name>> \o v
        PROVE  \E a, x, u : Leads(m, l, a, x) /\ u \in W[x] /\ Before(a, u, w)
    <3>1. t \in OutTransitions(m) /\ t.source = l /\ t.target \in m.locations
      BY <1>1 DEF From, OutTransitions
    <3>2. v \in Seq(Name)
      BY <3>1
    <3>3. Leads(m, l, t.action.name, t.target) /\ Before(t.action.name, v, w)
      BY <2>2, <3>1, <3>2 DEF Leads, Before
    <3> QED
      BY <3>3
  <2>3. ASSUME NEW a, NEW x, NEW v, Leads(m, l, a, x), v \in W[x], Before(a, v, w)
        PROVE  \E t \in From(m, l) : \E u \in W[t.target] : w = <<t.action.name>> \o u
    <3>1. PICK t \in OutTransitions(m) : t.source = l /\ t.action.name = a /\ t.target = x
      BY <2>3 DEF Leads
    <3> QED
      BY <1>2, <2>3, <3>1 DEF Before
  <2> QED
    BY <2>1, <2>2, <2>3
<1>5. ASSUME NEW l \in m.locations, NEW w \in Longer(m, W)[l] PROVE w \in Seq(Name)
  <2>1. CASE w = <<>>
    BY <2>1
  <2>2. CASE w # <<>>
    <3>1. PICK a, x, v : Leads(m, l, a, x) /\ v \in W[x] /\ Before(a, v, w)
      BY <1>4, <2>2
    <3>2. a \in Name
      <4>1. PICK t \in OutTransitions(m) : t.source = l /\ t.action.name = a
        BY <3>1 DEF Leads
      <4> QED
        BY <1>1, <1>2, <4>1
    <3>3. <<a>> \in Seq(Name)
      BY <3>2
    <3> QED
      BY <3>1, <3>3, ConcatProperties DEF Before
  <2> QED
    BY <2>1, <2>2
<1>6. Longer(m, W) \in [m.locations -> SUBSET Seq(Name)]
  BY <1>5 DEF Longer
<1> QED
  BY <1>4, <1>6

\* What the function in WordsFrom has for k, if f is that function.
WordsBody(m, f, k) ==
    [l \in m.locations |->
        {<<>>} \cup IF k = 0 THEN {}
                    ELSE UNION {{<<t.action.name>> \o w : w \in f[k - 1][t.target]} :
                                   t \in From(m, l)}]

IsWordsFrom(m, f) == f = [k \in 0..MaxWord |-> WordsBody(m, f, k)]

WordFunctions(m) == [m.locations -> SUBSET Seq(Name)]

(* The two cases of the body.                                              *)
LEMMA WordsBodyCases ==
    ASSUME NEW m, NEW f
    PROVE  /\ WordsBody(m, f, 0) = [l \in m.locations |-> {<<>>}]
           /\ \A k \in 1..MaxWord : WordsBody(m, f, k) = Longer(m, f[k - 1])
<1>1. WordsBody(m, f, 0) = [l \in m.locations |-> {<<>>}]
  BY DEF WordsBody
<1>2. ASSUME NEW k \in 1..MaxWord PROVE WordsBody(m, f, k) = Longer(m, f[k - 1])
  <2>1. k # 0
    BY BoundsAssumption
  <2> QED
    BY <2>1 DEF WordsBody, Longer
<1> QED
  BY <1>1, <1>2

(* The function in WordsFrom exists.                                       *)
LEMMA WordsFromExists ==
    ASSUME NEW m, Sound(m)
    PROVE  \E f : IsWordsFrom(m, f)
<1> DEFINE D == WordFunctions(m)
           step == [W \in D |-> [k \in 1..MaxWord |-> Longer(m, W)]]
           start == [l \in m.locations |-> {<<>>}]
           xs == [k \in 1..MaxWord |-> k]
<1>1. MaxWord \in Nat
  BY BoundsAssumption
<1>2. PICK f : IsIteration(f, step, start, xs, MaxWord)
  <2> HIDE DEF step, start, xs
  <2> QED
    BY <1>1, IterationExists
<1>3. start \in D
  <2>1. {<<>>} \in SUBSET Seq(Name)
    BY EmptySeq
  <2> QED
    BY <2>1 DEF WordFunctions
<1>4. /\ DOMAIN f = 0..MaxWord /\ f = [k \in 0..MaxWord |-> f[k]] /\ f[0] = start
      /\ \A k \in 1..MaxWord : f[k] = step[f[k - 1]][xs[k]]
  <2> HIDE DEF step, start, xs
  <2>1. f = [k \in 0..MaxWord |-> IF k = 0 THEN start ELSE step[f[k - 1]][xs[k]]]
    BY <1>2 DEF IsIteration
  <2>2. 0 \in 0..MaxWord /\ \A k \in 1..MaxWord : k \in 0..MaxWord /\ k # 0
    BY <1>1
  <2>3. DOMAIN f = 0..MaxWord /\ f = [k \in 0..MaxWord |-> f[k]]
    BY <2>1
  <2> QED
    BY <2>1, <2>2, <2>3
<1>5. \A k \in 1..MaxWord : f[k - 1] \in D => f[k] = Longer(m, f[k - 1])
  BY <1>4
<1> HIDE DEF step, start, xs
<1>6. \A W \in D : Longer(m, W) \in D
  BY LongerType DEF WordFunctions
<1>7. \A k \in 0..MaxWord : f[k] \in D
  <2> DEFINE S == {k \in 0..MaxWord : f[k] \in D}
  <2>1. 0 \in S
    BY <1>1, <1>3, <1>4
  <2>2. ASSUME NEW k \in 1..MaxWord, k - 1 \in S PROVE k \in S
    <3>1. k \in 0..MaxWord /\ f[k - 1] \in D
      BY <1>1, <2>2
    <3> QED
      BY <1>5, <1>6, <3>1
  <2> HIDE DEF S
  <2>3. 0..MaxWord \subseteq S
    BY <1>1, <2>1, <2>2, UpTo
  <2> QED
    BY <2>3 DEF S
<1>8. ASSUME NEW k \in 0..MaxWord PROVE f[k] = WordsBody(m, f, k)
  <2>1. CASE k = 0
    BY <1>4, <2>1, WordsBodyCases DEF start
  <2>2. CASE k # 0
    <3>1. k \in 1..MaxWord /\ k - 1 \in 0..MaxWord
      BY <1>1, <2>2
    <3>2. f[k] = Longer(m, f[k - 1])
      BY <1>5, <1>7, <3>1
    <3>3. \A j \in 1..MaxWord : WordsBody(m, f, j) = Longer(m, f[j - 1])
      BY ONLY WordsBodyCases, Zenon
    <3> QED
      BY ONLY <3>1, <3>2, <3>3
  <2> QED
    BY <2>1, <2>2
<1>9. [k \in 0..MaxWord |-> f[k]] = [k \in 0..MaxWord |-> WordsBody(m, f, k)]
  BY <1>8
<1> QED
  BY <1>4, <1>9 DEF IsWordsFrom

(* WordsFrom gives the words of at most MaxWord actions.                   *)
LEMMA WordsFromAreWords ==
    ASSUME NEW m, Sound(m)
    PROVE  \E f : /\ AreWords(m, f)
                  /\ \A l : WordsFrom(m, l) = f[MaxWord][l]
<1> DEFINE f == CHOOSE g : IsWordsFrom(m, g)
<1>1. IsWordsFrom(m, f)
  BY WordsFromExists
<1>2. \A l : WordsFrom(m, l) = f[MaxWord][l]
  BY DEF WordsFrom, IsWordsFrom, WordsBody
<1> HIDE DEF f
<1>3. MaxWord \in Nat
  BY BoundsAssumption
<1>4. \A k \in 0..MaxWord : f[k] = WordsBody(m, f, k)
  BY <1>1 DEF IsWordsFrom
<1>5. /\ f[0] = [l \in m.locations |-> {<<>>}]
      /\ \A k \in 1..MaxWord : f[k] = Longer(m, f[k - 1])
  <2>1. 0 \in 0..MaxWord /\ \A k \in 1..MaxWord : k \in 0..MaxWord
    BY <1>3
  <2>2. f[0] = WordsBody(m, f, 0) /\ \A k \in 1..MaxWord : f[k] = WordsBody(m, f, k)
    BY <1>4, <2>1
  <2>3. WordsBody(m, f, 0) = [l \in m.locations |-> {<<>>}]
    BY ONLY WordsBodyCases, Zenon
  <2>4. \A k \in 1..MaxWord : WordsBody(m, f, k) = Longer(m, f[k - 1])
    BY ONLY WordsBodyCases, Zenon
  <2> QED
    BY ONLY <2>2, <2>3, <2>4
<1>6. \A k \in 0..MaxWord : f[k] \in WordFunctions(m)
  <2> DEFINE S == {k \in 0..MaxWord : f[k] \in WordFunctions(m)}
  <2>1. 0 \in S
    <3>1. {<<>>} \in SUBSET Seq(Name)
      BY EmptySeq
    <3>2. f[0] \in WordFunctions(m)
      BY <1>5, <3>1 DEF WordFunctions
    <3> QED
      BY <1>3, <3>2
  <2>2. ASSUME NEW k \in 1..MaxWord, k - 1 \in S PROVE k \in S
    <3>1. k \in 0..MaxWord /\ f[k - 1] \in WordFunctions(m)
      BY <1>3, <2>2
    <3>2. f[k] \in WordFunctions(m)
      BY <1>5, <3>1, LongerType DEF WordFunctions
    <3> QED
      BY <3>1, <3>2
  <2> HIDE DEF S
  <2>3. 0..MaxWord \subseteq S
    BY <1>3, <2>1, <2>2, UpTo
  <2> QED
    BY <2>3 DEF S
<1>7. ASSUME NEW k \in 0..MaxWord, NEW l \in m.locations, NEW w
      PROVE  w \in f[k][l] <=> \/ w = <<>>
                               \/ /\ k > 0
                                  /\ \E a, x, v : /\ Leads(m, l, a, x) /\ v \in f[k - 1][x]
                                                  /\ Before(a, v, w)
  <2>1. CASE k = 0
    BY <1>5, <2>1
  <2>2. CASE k # 0
    <3>1. k \in 1..MaxWord /\ k > 0 /\ k - 1 \in 0..MaxWord
      BY <1>3, <2>2
    <3>2. f[k - 1] \in WordFunctions(m) /\ f[k] = Longer(m, f[k - 1])
      BY <1>5, <1>6, <3>1
    <3>3. w \in Longer(m, f[k - 1])[l]
             <=> w = <<>> \/ \E a, x, v : /\ Leads(m, l, a, x) /\ v \in f[k - 1][x]
                                          /\ Before(a, v, w)
      BY <3>2, LongerType DEF WordFunctions
    <3> QED
      BY <3>1, <3>2, <3>3
  <2> QED
    BY <2>1, <2>2
<1> QED
  BY <1>2, <1>7 DEF AreWords

(* The word w with an action before it.                                    *)
LEMMA BeforeIs ==
    ASSUME NEW a \in Name, NEW v, NEW w, Before(a, v, w)
    PROVE  /\ v \in Seq(Name) /\ w \in Seq(Name) /\ w # <<>> /\ Len(v) \in Nat
           /\ Len(w) = Len(v) + 1
           /\ Last(w) = IF v = <<>> THEN a ELSE Last(v)
           /\ \A z \in Seq(Name) : Before(a, v \o z, w \o z)
<1>1. v \in Seq(Name) /\ <<a>> \in Seq(Name) /\ w = <<a>> \o v /\ Len(<<a>>) = 1
  BY DEF Before
<1>2. Len(v) \in Nat /\ w \in Seq(Name) /\ Len(w) = 1 + Len(v)
  BY <1>1, ConcatProperties, LenProperties
<1>3. w # <<>>
  BY <1>2, EmptySeq
<1>4. Last(w) = IF v = <<>> THEN a ELSE Last(v)
  <2>1. CASE v = <<>>
    <3>1. Len(v) = 0
      BY <2>1
    <3>2. w[1] = <<a>>[1]
      BY <1>1, ConcatProperties
    <3> QED
      BY <1>2, <2>1, <3>1, <3>2 DEF Last
  <2>2. CASE v # <<>>
    <3>1. Len(v) > 0
      BY <1>1, <1>2, <2>2, EmptySeq
    <3>2. Len(v) + 1 \in 1..(1 + Len(v)) /\ Len(v) + 1 > 1 /\ (Len(v) + 1) - 1 = Len(v)
      BY <1>2, <3>1
    <3>3. w[Len(v) + 1] = v[(Len(v) + 1) - 1]
      BY <1>1, <3>2, ConcatProperties
    <3> QED
      BY <1>2, <2>2, <3>2, <3>3 DEF Last
  <2> QED
    BY <2>1, <2>2
<1>5. ASSUME NEW z \in Seq(Name) PROVE Before(a, v \o z, w \o z)
  <2>1. v \o z \in Seq(Name)
    BY <1>1, ConcatProperties
  <2>2. (<<a>> \o v) \o z = <<a>> \o (v \o z)
    BY <1>1, ConcatAssociative
  <2> QED
    BY <1>1, <2>1, <2>2 DEF Before
<1> QED
  BY <1>1, <1>2, <1>3, <1>4, <1>5

(* An action leads to a location.                                          *)
LEMMA LeadsType ==
    ASSUME NEW m, Sound(m), NEW l, NEW a, NEW x, Leads(m, l, a, x)
    PROVE  l \in m.locations /\ a \in Name /\ x \in m.locations
<1>1. PICK t \in OutTransitions(m) : t.source = l /\ t.action.name = a /\ t.target = x
  BY DEF Leads
<1>2. t \in Transition /\ Connects(t, m)
  BY SoundConnects
<1> QED
  BY <1>1, <1>2 DEF Transition, Action, Connects

(* The words of k actions are the words that are not longer.               *)
LEMMA WordsByLength ==
    ASSUME NEW m, Sound(m), NEW f, AreWords(m, f)
    PROVE  /\ \A k \in 0..MaxWord, l \in m.locations : \A w \in f[k][l] :
                 w \in Seq(Name) /\ Len(w) <= k
           /\ \A j, k \in 0..MaxWord, l \in m.locations : \A w \in f[j][l] :
                 Len(w) <= k => w \in f[k][l]
<1> DEFINE short(j)  == \A l \in m.locations : \A w \in f[j][l] : w \in Seq(Name) /\ Len(w) <= j
           inAll(j) == \A k \in 0..MaxWord, l \in m.locations : \A w \in f[j][l] :
                            Len(w) <= k => w \in f[k][l]
           S == {j \in 0..MaxWord : short(j) /\ inAll(j)}
<1>1. MaxWord \in Nat /\ <<>> \in Seq(Name) /\ Len(<<>>) = 0
  BY BoundsAssumption, EmptySeq
<1>2. \A k \in 0..MaxWord, l \in m.locations : <<>> \in f[k][l]
  BY DEF AreWords
<1>3. \A l \in m.locations : \A w \in f[0][l] : w = <<>>
  BY <1>1 DEF AreWords
<1>4. 0 \in S
  <2>1. short(0)
    <3> SUFFICES ASSUME NEW l \in m.locations, NEW w \in f[0][l]
                 PROVE  w \in Seq(Name) /\ Len(w) <= 0
      OBVIOUS
    <3>1. w = <<>>
      BY <1>3
    <3> QED
      BY ONLY <1>1, <3>1
  <2>2. inAll(0)
    BY <1>2, <1>3
  <2>3. 0 \in 0..MaxWord
    BY <1>1
  <2> HIDE DEF short, inAll
  <2> QED
    BY <2>1, <2>2, <2>3
<1>5. ASSUME NEW j \in 1..MaxWord, j - 1 \in S PROVE j \in S
  <2>1. j \in 0..MaxWord /\ j - 1 \in 0..MaxWord /\ j > 0
    BY <1>1
  <2>2. short(j - 1) /\ inAll(j - 1)
    BY <1>5
  <2> HIDE DEF short, inAll
  <2>3. ASSUME NEW l \in m.locations, NEW w \in f[j][l], w # <<>>
        PROVE  \E a, x, v : /\ Leads(m, l, a, x) /\ v \in f[j - 1][x] /\ Before(a, v, w)
                            /\ a \in Name /\ x \in m.locations
                            /\ v \in Seq(Name) /\ Len(v) \in Nat /\ Len(v) <= j - 1
                            /\ w \in Seq(Name) /\ Len(w) = Len(v) + 1
    <3>1. PICK a, x, v : Leads(m, l, a, x) /\ v \in f[j - 1][x] /\ Before(a, v, w)
      BY <2>1, <2>3 DEF AreWords
    <3>2. a \in Name /\ x \in m.locations
      BY <3>1, LeadsType
    <3>3. /\ v \in Seq(Name) /\ w \in Seq(Name) /\ Len(v) \in Nat /\ Len(w) = Len(v) + 1
      BY <3>1, <3>2, BeforeIs
    <3>4. Len(v) <= j - 1
      BY <2>2, <3>1, <3>2 DEF short
    <3> QED
      BY <3>1, <3>2, <3>3, <3>4
  <2>4. short(j)
    <3> SUFFICES ASSUME NEW l \in m.locations, NEW w \in f[j][l]
                 PROVE  w \in Seq(Name) /\ Len(w) <= j
      BY DEF short
    <3>1. CASE w = <<>>
      BY <1>1, <2>1, <3>1
    <3>2. CASE w # <<>>
      BY <1>1, <2>3, <3>2
    <3> QED
      BY <3>1, <3>2
  <2>5. inAll(j)
    <3> SUFFICES ASSUME NEW k \in 0..MaxWord, NEW l \in m.locations, NEW w \in f[j][l],
                        Len(w) <= k
                 PROVE  w \in f[k][l]
      BY DEF inAll
    <3>1. CASE w = <<>>
      BY <1>2, <3>1
    <3>2. CASE w # <<>>
      <4>1. PICK a, x, v : /\ Leads(m, l, a, x) /\ v \in f[j - 1][x] /\ Before(a, v, w)
                           /\ x \in m.locations
                           /\ Len(v) \in Nat /\ Len(w) = Len(v) + 1
        BY <2>3, <3>2
      <4>2. k > 0 /\ k - 1 \in 0..MaxWord /\ Len(v) <= k - 1
        BY <1>1, <4>1
      <4>3. v \in f[k - 1][x]
        BY <2>2, <4>1, <4>2 DEF inAll
      <4> QED
        BY <4>1, <4>2, <4>3 DEF AreWords
    <3> QED
      BY <3>1, <3>2
  <2> QED
    BY <2>1, <2>4, <2>5
<1> HIDE DEF S
<1>6. 0..MaxWord \subseteq S
  BY <1>1, <1>4, <1>5, UpTo
<1>7. \A j \in 0..MaxWord : short(j) /\ inAll(j)
  BY <1>6 DEF S
<1> QED
  BY <1>7

\* The locations L of m are called to[l] in r, and m does not leave them.
Embedded(m, r, L, to) ==
    /\ L \subseteq m.locations
    /\ \A l \in L : to[l] \in r.locations
    /\ \A l \in L : \A b, x : Leads(m, l, b, x) => x \in L
    /\ \A l \in L : \A b, x :
          Leads(r, to[l], b, x) <=> \E y \in L : x = to[y] /\ Leads(m, l, b, y)

(* Locations with the same transitions have the same words.                *)
LEMMA WordsEmbedded ==
    ASSUME NEW m, NEW r, NEW L, NEW to, Embedded(m, r, L, to),
           NEW f, AreWords(m, f), NEW g, AreWords(r, g)
    PROVE  \A k \in 0..MaxWord, l \in L : \A w : w \in g[k][to[l]] <=> w \in f[k][l]
<1> DEFINE same(k) == \A l \in L : \A w : w \in g[k][to[l]] <=> w \in f[k][l]
           S == {k \in 0..MaxWord : same(k)}
<1>1. MaxWord \in Nat /\ 0 \in 0..MaxWord
  BY BoundsAssumption
<1>2. same(0)
  <2>1. \A l \in L : \A w : (w \in g[0][to[l]] <=> w = <<>>) /\ (w \in f[0][l] <=> w = <<>>)
    BY <1>1 DEF AreWords, Embedded
  <2> QED
    BY <2>1
<1>3. ASSUME NEW k \in 1..MaxWord, same(k - 1) PROVE same(k)
  <2>1. k \in 0..MaxWord /\ k > 0
    BY <1>1
  <2> SUFFICES ASSUME NEW l \in L, NEW w PROVE w \in g[k][to[l]] <=> w \in f[k][l]
    OBVIOUS
  <2>2. l \in m.locations /\ to[l] \in r.locations
    BY DEF Embedded
  <2>3. w \in f[k][l]
           <=> w = <<>> \/ \E a, x, v : Leads(m, l, a, x) /\ v \in f[k - 1][x] /\ Before(a, v, w)
    BY <2>1, <2>2 DEF AreWords
  <2>4. w \in g[k][to[l]]
           <=> w = <<>> \/ \E a, x, v : /\ Leads(r, to[l], a, x) /\ v \in g[k - 1][x]
                                        /\ Before(a, v, w)
    BY <2>1, <2>2 DEF AreWords
  <2>5. ASSUME NEW a, NEW x, NEW v, Leads(m, l, a, x), v \in f[k - 1][x], Before(a, v, w)
        PROVE  Leads(r, to[l], a, to[x]) /\ v \in g[k - 1][to[x]]
    <3>1. x \in L
      BY <2>5 DEF Embedded
    <3>2. Leads(r, to[l], a, to[x])
      BY <2>5, <3>1 DEF Embedded
    <3> QED
      BY <1>3, <2>5, <3>1, <3>2
  <2>6. ASSUME NEW a, NEW x, NEW v, Leads(r, to[l], a, x), v \in g[k - 1][x], Before(a, v, w)
        PROVE  \E y : Leads(m, l, a, y) /\ v \in f[k - 1][y]
    <3>1. PICK y \in L : x = to[y] /\ Leads(m, l, a, y)
      BY <2>6 DEF Embedded
    <3> QED
      BY <1>3, <2>6, <3>1
  <2> QED
    BY <2>3, <2>4, <2>5, <2>6
<1> HIDE DEF same
<1>4. 0 \in S /\ \A k \in 1..MaxWord : k - 1 \in S => k \in S
  <2>1. \A k \in 1..MaxWord : k \in 0..MaxWord
    BY <1>1
  <2> QED
    BY <1>1, <1>2, <1>3, <2>1
<1> HIDE DEF S
<1>5. 0..MaxWord \subseteq S
  BY <1>1, <1>4, UpTo
<1>6. \A k \in 0..MaxWord : same(k)
  BY <1>5 DEF S
<1> QED
  BY <1>6 DEF same

\* As Embedded, but from p the action a, which no other transition of the
\* locations has, leads out of L: to q in m, where m ends, and to e in r.
Continued(m, r, L, to, p, a, q, e) ==
    /\ L \subseteq m.locations /\ p \in L /\ q \in m.locations /\ e \in r.locations
    /\ \A l \in L : to[l] \in r.locations
    /\ Leads(m, p, a, q) /\ \A b, x : ~Leads(m, q, b, x)
    /\ \A l \in L : \A b, x :
          Leads(m, l, b, x) => (l = p /\ b = a /\ x = q) \/ (b # a /\ x \in L)
    /\ \A l \in L : \A b, x :
          Leads(r, to[l], b, x)
             <=> (l = p /\ b = a /\ x = e) \/ \E y \in L : x = to[y] /\ Leads(m, l, b, y)

\* w is a word of U that ends with a, and then one of V.
Composite(U, V, a, w) ==
    \E u, v : u \in U /\ u # <<>> /\ Last(u) = a /\ v \in V /\ w = u \o v

(* Where a continues with e, a word is one of m or one of m that ends with *)
(* a and then one from e.                                                  *)
LEMMA WordsContinued ==
    ASSUME NEW m, Sound(m), NEW r, Sound(r), NEW L, NEW to, NEW p, NEW a, NEW q, NEW e,
           Continued(m, r, L, to, p, a, q, e),
           NEW f, AreWords(m, f), NEW g, AreWords(r, g)
    PROVE  \A k \in 0..MaxWord, l \in L : \A w :
              w \in g[k][to[l]]
                 <=> w \in f[k][l] \/ (Composite(f[k][l], g[MaxWord][e], a, w) /\ Len(w) <= k)
<1> DEFINE V == g[MaxWord][e]
           goesOn(k, l, w) == Composite(f[k][l], V, a, w) /\ Len(w) <= k
           same(k) == \A l \in L : \A w : w \in g[k][to[l]] <=> w \in f[k][l] \/ goesOn(k, l, w)
           S == {k \in 0..MaxWord : same(k)}
<1>1. /\ MaxWord \in Nat /\ 0 \in 0..MaxWord /\ MaxWord \in 0..MaxWord
      /\ <<>> \in Seq(Name) /\ Len(<<>>) = 0
  BY BoundsAssumption, EmptySeq
<1>2. /\ \A k \in 0..MaxWord, l \in m.locations : <<>> \in f[k][l]
      /\ \A k \in 0..MaxWord, l \in r.locations : <<>> \in g[k][l]
  BY DEF AreWords
<1>3. \A k \in 0..MaxWord : \A w : w \in f[k][q] => w = <<>>
  BY DEF AreWords, Continued
<1>4. same(0)
  <2> SUFFICES ASSUME NEW l \in L, NEW w
               PROVE  w \in g[0][to[l]] <=> w \in f[0][l] \/ goesOn(0, l, w)
    OBVIOUS
  <2>1. (w \in g[0][to[l]] <=> w = <<>>) /\ \A u : u \in f[0][l] <=> u = <<>>
    BY <1>1 DEF AreWords, Continued
  <2>2. ~goesOn(0, l, w)
    BY <2>1 DEF Composite
  <2> QED
    BY <2>1, <2>2
<1>5. ASSUME NEW k \in 1..MaxWord, same(k - 1) PROVE same(k)
  <2>1. k \in 0..MaxWord /\ k > 0 /\ k - 1 \in 0..MaxWord
    BY <1>1
  <2> SUFFICES ASSUME NEW l \in L, NEW w
               PROVE  w \in g[k][to[l]] <=> w \in f[k][l] \/ goesOn(k, l, w)
    OBVIOUS
  <2>2. /\ l \in m.locations /\ to[l] \in r.locations /\ p \in m.locations
        /\ q \in m.locations /\ e \in r.locations
    BY DEF Continued
  <2>3. \A u : u \in f[k][l]
           <=> u = <<>> \/ \E b, x, v : Leads(m, l, b, x) /\ v \in f[k - 1][x] /\ Before(b, v, u)
    BY <2>1, <2>2 DEF AreWords
  <2>4. \A u : u \in g[k][to[l]]
           <=> u = <<>> \/ \E b, x, v : /\ Leads(r, to[l], b, x) /\ v \in g[k - 1][x]
                                        /\ Before(b, v, u)
    BY <2>1, <2>2 DEF AreWords
  <2>5. /\ \A b, x : Leads(m, l, b, x) => b \in Name /\ x \in m.locations
        /\ \A b, x : Leads(r, to[l], b, x) => b \in Name /\ x \in r.locations
    BY LeadsType
  <2>6. a \in Name /\ Leads(m, p, a, q)
    BY LeadsType DEF Continued
  <2>7. ASSUME w \in g[k][to[l]], w # <<>> PROVE w \in f[k][l] \/ goesOn(k, l, w)
    <3>1. PICK b, x, v : Leads(r, to[l], b, x) /\ v \in g[k - 1][x] /\ Before(b, v, w)
      BY <2>4, <2>7
    <3>2. b \in Name /\ x \in r.locations
      BY <2>5, <3>1
    <3>3. /\ v \in Seq(Name) /\ w \in Seq(Name) /\ Len(v) \in Nat /\ Len(w) = Len(v) + 1
          /\ Len(v) <= k - 1 /\ Len(w) <= k
      <4>1. /\ v \in Seq(Name) /\ w \in Seq(Name) /\ Len(v) \in Nat /\ Len(w) = Len(v) + 1
        BY <3>1, <3>2, BeforeIs
      <4>2. Len(v) <= k - 1
        BY <2>1, <3>1, <3>2, WordsByLength
      <4> QED
        BY <2>1, <4>1, <4>2
    <3>4. CASE l = p /\ b = a /\ x = e
      <4>1. Before(a, <<>>, <<a>>)
        <5>1. <<a>> \o <<>> = <<a>>
          BY <2>6, ConcatEmptySeq
        <5> QED
          BY <1>1, <5>1 DEF Before
      <4>2. <<a>> \in f[k][l] /\ <<a>> # <<>> /\ Last(<<a>>) = a
        <5>1. <<>> \in f[k - 1][q]
          BY <1>2, <2>1, <2>2
        <5>2. <<a>> \in f[k][l]
          BY <2>3, <2>6, <3>4, <4>1, <5>1
        <5> QED
          BY <2>6, <4>1, <5>2, BeforeIs
      <4>3. v \in V
        <5>1. Len(v) <= MaxWord
          BY <1>1, <2>1, <3>3
        <5> QED
          BY <1>1, <2>1, <2>2, <3>1, <3>4, <5>1, WordsByLength
      <4>4. w = <<a>> \o v
        BY <3>1, <3>4 DEF Before
      <4>5. Composite(f[k][l], V, a, w)
        BY <4>2, <4>3, <4>4 DEF Composite
      <4> QED
        BY <3>3, <4>5
    <3>5. CASE ~(l = p /\ b = a /\ x = e)
      <4>1. PICK y \in L : x = to[y] /\ Leads(m, l, b, y)
        BY <3>1, <3>5 DEF Continued
      <4>2. v \in f[k - 1][y] \/ goesOn(k - 1, y, v)
        BY <1>5, <3>1, <4>1
      <4>3. CASE v \in f[k - 1][y]
        BY <2>3, <3>1, <4>1, <4>3
      <4>4. CASE Composite(f[k - 1][y], V, a, v)
        <5>1. PICK u, z : /\ u \in f[k - 1][y] /\ u # <<>> /\ Last(u) = a
                          /\ z \in V /\ v = u \o z
          BY <4>4 DEF Composite
        <5>2. u \in Seq(Name) /\ z \in Seq(Name)
          <6>1. y \in m.locations
            BY <4>1 DEF Continued
          <6> QED
            BY <1>1, <2>1, <2>2, <5>1, <6>1, WordsByLength
        <5>3. Before(b, u, <<b>> \o u)
          BY <5>2 DEF Before
        <5>4. <<b>> \o u \in f[k][l]
          BY <2>3, <4>1, <5>1, <5>3
        <5>5. /\ <<b>> \o u # <<>> /\ Last(<<b>> \o u) = a
              /\ Before(b, u \o z, (<<b>> \o u) \o z)
          BY <3>2, <5>1, <5>2, <5>3, BeforeIs
        <5>6. w = (<<b>> \o u) \o z
          BY <3>1, <5>1, <5>5 DEF Before
        <5>7. Composite(f[k][l], V, a, w)
          BY <5>1, <5>4, <5>5, <5>6 DEF Composite
        <5> QED
          BY <3>3, <5>7
      <4> QED
        BY <4>2, <4>3, <4>4
    <3> QED
      BY <3>4, <3>5
  <2>8. ASSUME w \in f[k][l], w # <<>> PROVE w \in g[k][to[l]]
    <3>1. PICK b, x, v : Leads(m, l, b, x) /\ v \in f[k - 1][x] /\ Before(b, v, w)
      BY <2>3, <2>8
    <3>2. (l = p /\ b = a /\ x = q) \/ (b # a /\ x \in L)
      BY <3>1 DEF Continued
    <3>3. CASE l = p /\ b = a /\ x = q
      <4>1. v = <<>>
        BY <1>3, <2>1, <3>1, <3>3
      <4>2. Leads(r, to[l], a, e) /\ <<>> \in g[k - 1][e]
        BY <1>2, <2>1, <2>2, <3>3 DEF Continued
      <4> QED
        BY <2>4, <3>1, <3>3, <4>1, <4>2
    <3>4. CASE b # a /\ x \in L
      <4>1. Leads(r, to[l], b, to[x])
        BY <3>1, <3>4 DEF Continued
      <4>2. v \in g[k - 1][to[x]]
        BY <1>5, <3>1, <3>4
      <4> QED
        BY <2>4, <3>1, <4>1, <4>2
    <3> QED
      BY <3>2, <3>3, <3>4
  <2>9. ASSUME goesOn(k, l, w) PROVE w \in g[k][to[l]]
    <3>1. PICK u, z : /\ u \in f[k][l] /\ u # <<>> /\ Last(u) = a
                      /\ z \in V /\ w = u \o z
      BY <2>9 DEF Composite
    <3>2. PICK b, x, v : Leads(m, l, b, x) /\ v \in f[k - 1][x] /\ Before(b, v, u)
      BY <2>3, <3>1
    <3>3. z \in Seq(Name) /\ b \in Name
      BY <1>1, <2>2, <2>5, <3>1, <3>2, WordsByLength
    <3>4. /\ v \in Seq(Name) /\ Last(u) = (IF v = <<>> THEN b ELSE Last(v))
          /\ Before(b, v \o z, w)
      BY <3>1, <3>2, <3>3, BeforeIs
    <3>5. Len(v \o z) \in Nat /\ Len(v \o z) <= k - 1
      <4>1. Len(v \o z) \in Nat /\ Len(w) = Len(v \o z) + 1
        BY <3>3, <3>4, BeforeIs
      <4>2. Len(w) <= k
        BY <2>9
      <4> QED
        BY <2>1, <4>1, <4>2
    <3>6. (l = p /\ b = a /\ x = q) \/ (b # a /\ x \in L)
      BY <3>2 DEF Continued
    <3>7. CASE l = p /\ b = a /\ x = q
      <4>1. v = <<>>
        BY <1>3, <2>1, <3>2, <3>7
      <4>2. v \o z = z
        BY <3>3, <4>1, ConcatEmptySeq
      <4>3. z \in g[k - 1][e]
        BY <1>1, <2>1, <2>2, <3>1, <3>5, <4>2, WordsByLength
      <4>4. Leads(r, to[l], a, e)
        BY <3>7 DEF Continued
      <4> QED
        BY <2>4, <3>4, <3>7, <4>2, <4>3, <4>4
    <3>8. CASE b # a /\ x \in L
      <4>1. v # <<>> /\ Last(v) = a
        BY <3>1, <3>4, <3>8
      <4>2. Composite(f[k - 1][x], V, a, v \o z)
        BY <3>1, <3>2, <4>1 DEF Composite
      <4>3. v \o z \in g[k - 1][to[x]]
        BY <1>5, <3>5, <3>8, <4>2
      <4>4. Leads(r, to[l], b, to[x])
        BY <3>2, <3>8 DEF Continued
      <4> QED
        BY <2>4, <3>4, <4>3, <4>4
    <3> QED
      BY <3>6, <3>7, <3>8
  <2>10. <<>> \in g[k][to[l]] /\ <<>> \in f[k][l]
    BY <2>3, <2>4
  <2> HIDE DEF goesOn
  <2> QED
    BY <2>7, <2>8, <2>9, <2>10
<1> HIDE DEF same
<1>6. 0 \in S /\ \A k \in 1..MaxWord : k - 1 \in S => k \in S
  <2>1. \A k \in 1..MaxWord : k \in 0..MaxWord
    BY <1>1
  <2> QED
    BY <1>1, <1>4, <1>5, <2>1
<1> HIDE DEF S
<1>7. 0..MaxWord \subseteq S
  BY <1>1, <1>6, UpTo
<1>8. \A k \in 0..MaxWord : same(k)
  BY <1>7 DEF S
<1> QED
  BY <1>8 DEF same

(* Joint labels differ if their first parts do.                            *)
LEMMA JointsDiffer ==
    ASSUME NEW m1, NEW m2, Joinable(m1, m2), NEW x1 \in m1.locations, NEW x2 \in m1.locations,
           NEW y1 \in m2.locations, NEW y2 \in m2.locations, Join(x1, y1) = Join(x2, y2)
    PROVE  x1 = x2
<1>1. /\ \A x \in m1.locations : x \in Seq(Parts(m1)) /\ Len(x) \in Nat
      /\ \A y \in m2.locations : y \in Seq(Parts(m2)) /\ Len(y) \in Nat /\ Len(y) > 0
      /\ Parts(m1) \cap Parts(m2) = {}
  <2>1. m1.locations \subseteq Label /\ m2.locations \subseteq Label /\ Apart(m1, m2)
    BY DEF Joinable, Sound, Model
  <2>2. ASSUME NEW m, m.locations \subseteq Label, NEW l \in m.locations
        PROVE  l \in Seq(Parts(m)) /\ Len(l) \in Nat /\ Len(l) > 0
    <3>1. l \in Seq(Range(l)) /\ l # <<>> /\ Range(l) \subseteq Parts(m)
      BY <2>2, LabelsAssumption DEF NoLabel, Parts
    <3>2. l \in Seq(Parts(m))
      BY <3>1, SeqMonotonic
    <3> QED
      BY <3>1, <3>2, EmptySeq, LenProperties
  <2> QED
    BY <2>1, <2>2 DEF Apart
<1> DEFINE S == Parts(m1) \cup Parts(m2)
           w == Join(x1, y1)
<1>2. /\ x1 \in Seq(S) /\ x2 \in Seq(S) /\ y1 \in Seq(S) /\ y2 \in Seq(S)
      /\ Len(x1) \in Nat /\ Len(x2) \in Nat /\ Len(y1) \in Nat /\ Len(y2) \in Nat
      /\ Len(y1) > 0 /\ Len(y2) > 0
      /\ \A i \in 1..Len(x1) : x1[i] \in Parts(m1)
      /\ \A i \in 1..Len(x2) : x2[i] \in Parts(m1)
      /\ y1[1] \in Parts(m2) /\ y2[1] \in Parts(m2)
  <2>1. /\ x1 \in Seq(Parts(m1)) /\ x2 \in Seq(Parts(m1))
        /\ y1 \in Seq(Parts(m2)) /\ y2 \in Seq(Parts(m2))
        /\ Len(y1) \in Nat /\ Len(y2) \in Nat /\ Len(y1) > 0 /\ Len(y2) > 0
    BY <1>1
  <2>2. 1 \in 1..Len(y1) /\ 1 \in 1..Len(y2)
    BY <2>1
  <2>3. y1[1] \in Parts(m2) /\ y2[1] \in Parts(m2)
    BY <2>1, <2>2, ElementOfSeq
  <2>4. /\ \A i \in 1..Len(x1) : x1[i] \in Parts(m1)
        /\ \A i \in 1..Len(x2) : x2[i] \in Parts(m1)
    BY <2>1, ElementOfSeq
  <2>5. x1 \in Seq(S) /\ x2 \in Seq(S) /\ y1 \in Seq(S) /\ y2 \in Seq(S)
    BY <2>1, SeqMonotonic
  <2> QED
    BY <1>1, <2>1, <2>3, <2>4, <2>5
<1> HIDE DEF S
<1>3. /\ w = x1 \o y1 /\ w = x2 \o y2
      /\ \A i \in 1..(Len(x1) + Len(y1)) : w[i] = IF i <= Len(x1) THEN x1[i] ELSE y1[i - Len(x1)]
      /\ \A i \in 1..(Len(x2) + Len(y2)) : w[i] = IF i <= Len(x2) THEN x2[i] ELSE y2[i - Len(x2)]
      /\ Len(x1) + Len(y1) = Len(x2) + Len(y2)
  <2>1. w = x1 \o y1 /\ w = x2 \o y2
    BY DEF Join
  <2>2. /\ Len(w) = Len(x1) + Len(y1)
        /\ \A i \in 1..(Len(x1) + Len(y1)) :
              w[i] = IF i <= Len(x1) THEN x1[i] ELSE y1[i - Len(x1)]
    BY <1>2, <2>1, ConcatProperties
  <2>3. /\ Len(w) = Len(x2) + Len(y2)
        /\ \A i \in 1..(Len(x2) + Len(y2)) :
              w[i] = IF i <= Len(x2) THEN x2[i] ELSE y2[i - Len(x2)]
    BY <1>2, <2>1, ConcatProperties
  <2> QED
    BY <2>1, <2>2, <2>3
<1> HIDE DEF w
<1>4. ASSUME Len(x1) < Len(x2) PROVE FALSE
  <2> DEFINE i == Len(x1) + 1
  <2>1. /\ i \in 1..(Len(x1) + Len(y1)) /\ i \in 1..(Len(x2) + Len(y2)) /\ i \in 1..Len(x2)
        /\ ~(i <= Len(x1)) /\ i <= Len(x2) /\ i - Len(x1) = 1
    BY <1>2, <1>4
  <2> HIDE DEF i
  <2>2. w[i] = y1[1] /\ w[i] = x2[i]
    BY <1>3, <2>1
  <2> QED
    BY <1>1, <1>2, <2>1, <2>2
<1>5. ASSUME Len(x2) < Len(x1) PROVE FALSE
  <2> DEFINE i == Len(x2) + 1
  <2>1. /\ i \in 1..(Len(x1) + Len(y1)) /\ i \in 1..(Len(x2) + Len(y2)) /\ i \in 1..Len(x1)
        /\ ~(i <= Len(x2)) /\ i <= Len(x1) /\ i - Len(x2) = 1
    BY <1>2, <1>5
  <2> HIDE DEF i
  <2>2. w[i] = y2[1] /\ w[i] = x1[i]
    BY <1>3, <2>1
  <2> QED
    BY <1>1, <1>2, <2>1, <2>2
<1>6. Len(x1) = Len(x2)
  BY <1>2, <1>4, <1>5
<1>7. \A i \in 1..Len(x1) : x1[i] = x2[i]
  <2> SUFFICES ASSUME NEW i \in 1..Len(x1) PROVE x1[i] = x2[i]
    OBVIOUS
  <2>1. /\ i \in 1..(Len(x1) + Len(y1)) /\ i \in 1..(Len(x2) + Len(y2))
        /\ i <= Len(x1) /\ i <= Len(x2)
    BY <1>2, <1>6
  <2> QED
    BY <1>3, <2>1
<1> QED
  BY <1>2, <1>6, <1>7, SeqEqual

(* A copy leads where its original does.                                   *)
LEMMA LeadsInCopy ==
    ASSUME NEW m, Sound(m), NEW c, Copied(m, c), NEW l, NEW a, NEW x
    PROVE  Leads(m, l, a, x)
              <=> \E u \in c.transitions : u.source = l /\ u.action.name = a /\ u.target = x
<1>1. ASSUME NEW t \in OutTransitions(m)
      PROVE  \E u \in c.transitions : /\ u.source = t.source /\ u.target = t.target
                                      /\ u.action.name = t.action.name
  <2>1. PICK t1 \in m.transitions : Key(t1) = Key(t)
    BY DEF Sound
  <2>2. PICK u \in c.transitions : Twin(t1, u)
    BY DEF Copied
  <2>3. t1.source = t.source /\ t1.target = t.target /\ t1.action.name = t.action.name
    BY <2>1 DEF Key
  <2> QED
    BY <2>2, <2>3 DEF Twin
<1>2. ASSUME NEW u \in c.transitions
      PROVE  \E t \in OutTransitions(m) : /\ u.source = t.source /\ u.target = t.target
                                          /\ u.action.name = t.action.name
  <2>1. PICK t \in m.transitions : Twin(t, u)
    BY DEF Copied
  <2> QED
    BY <2>1 DEF Sound, Twin
<1> QED
  BY <1>1, <1>2 DEF Leads

\* What the labels L are called when old is called new.
Relabel(L, old, new) == [l \in L |-> IF l = old THEN new ELSE l]

(* The result of a sequence of models that fit leads on as the first model *)
(* does up to the joint transition, and then as the second one.            *)
LEMMA SequenceLeads ==
    ASSUME NEW m1, NEW m2, Joinable(m1, m2), NEW c1, NEW c2, NEW t1, NEW tc1, NEW t02,
           NEW start2, Meeting(m1, m2, c1, c2, tc1, t02, start2),
           Fitting(m1, m2, c1, c2, t1, tc1, t02),
           Composed(c1, c2, tc1, t02, start2) # Thrown
    PROVE  LET r  == Composed(c1, c2, tc1, t02, start2)
               j1 == Join(tc1.source, t02.source)
               j2 == Join(tc1.target, t02.target)
               L1 == m1.locations \ {tc1.target}
               L2 == m2.locations \ {t02.source, m2.initialLocation}
           IN  /\ Sound(r)
               /\ Continued(m1, r, L1, Relabel(L1, tc1.source, j1),
                            tc1.source, tc1.action.name, tc1.target, j2)
               /\ Embedded(m2, r, L2, Relabel(L2, t02.target, j2))
<1> DEFINE r  == Composed(c1, c2, tc1, t02, start2)
           d  == InitializedSequence(c1, c2, tc1, t02, start2)
           joint == Composition(c2, tc1, t02)
           p1 == FirstPart(c1, tc1, joint)
           p2 == SecondPart(c2, t02, joint)
           p  == tc1.source
           q  == tc1.target
           a  == tc1.action.name
           init == InitialOf(c2)
           j1 == Join(tc1.source, t02.source)
           j2 == Join(tc1.target, t02.target)
           L1 == m1.locations \ {tc1.target}
           L2 == m2.locations \ {t02.source, m2.initialLocation}
           to1 == Relabel(L1, tc1.source, j1)
           to2 == Relabel(L2, t02.target, j2)
<1>1. /\ \A u \in c1.transitions : /\ u.source # q
                                   /\ u.target = q => u = tc1
                                   /\ u.action.name = a => u = tc1
      /\ \A u \in c2.transitions : /\ u.source = c2.initialLocation => u = init
                                   /\ u.source = t02.source => u = t02
      /\ t02.target # t02.source /\ t02.target # c2.initialLocation
  BY DEF Fitting
<1>2. /\ Sound(m1) /\ Sound(m2) /\ Copied(m1, c1) /\ Copied(m2, c2)
      /\ c1.locations = m1.locations /\ c2.locations = m2.locations
      /\ c2.initialLocation = m2.initialLocation
      /\ tc1 \in c1.transitions /\ t02 \in c2.transitions
      /\ init \in c2.transitions /\ init.source = c2.initialLocation
  BY DEF Joinable, Meeting, Copied, SameDeclarations
<1>3. /\ p \in m1.locations /\ q \in m1.locations /\ p # q
      /\ t02.source \in m2.locations /\ t02.target \in m2.locations
      /\ joint.source = j1 /\ joint.target = j2 /\ joint.action.name = a
  BY <1>1, <1>2, JointType
<1>4. /\ m1.locations \cap m2.locations = {}
      /\ j1 \notin m1.locations \cup m2.locations
      /\ j2 \notin m1.locations \cup m2.locations
  BY <1>3, JointIsNew
<1>5. j1 # j2
  BY <1>3, JointsDiffer
<1>6. /\ Sound(r) /\ r.locations = d.locations
      /\ OutTransitions(r) = {joint} \cup (p1 \cup p2)
      /\ \A u \in p1 \cup p2 : Connects(u, d)
  BY ComposedShape DEF SameDeclarations
<1>7. /\ d.locations = (m1.locations \ {p, q})
                          \cup (m2.locations \ {t02.source, t02.target, start2})
                          \cup {j1, j2}
  BY InitializedSequenceShape
<1>8. /\ \A u \in c2.transitions : u.target = t02.source => u = init
      /\ \A u \in c2.transitions : u.target # c2.initialLocation
  <2>1. /\ Into(c2, t02.source) = {init} /\ Into(c2, c2.initialLocation) = {}
    BY <1>1, <1>6, SecondConnects
  <2> QED
    BY <2>1 DEF Into
<1>9. \A l \in m2.locations : l = start2 => l = m2.initialLocation
  <2>1. PICK u \in c2.transitions : start2 = u.source /\ u.target = t02.source
    BY DEF Meeting, SourcesInto
  <2> QED
    BY <1>2, <1>8, <2>1
<1>10. ASSUME NEW t \in c1.transitions \ {tc1}
       PROVE  LET u == OfFirst(t, tc1, joint)
              IN  /\ t.source \in L1 /\ t.target \in L1 /\ u.action = t.action
                  /\ u.source = to1[t.source] /\ u.target = to1[t.target]
  <2>1. OfFirst(t, tc1, joint) \in p1
    BY DEF FirstPart
  <2>2. /\ Moved(t, OfFirst(t, tc1, joint), p, j1)
        /\ t.source \in m1.locations /\ t.target \in m1.locations
    BY <1>6, <2>1, FirstMoves
  <2> QED
    BY <1>1, <2>2 DEF Moved, Relabel
<1>11. ASSUME NEW t \in c2.transitions \ {init, t02}
       PROVE  LET u == OfSecond(t, t02, joint)
              IN  /\ t.source \in L2 /\ t.target \in L2 /\ u.action = t.action
                  /\ u.source = to2[t.source] /\ u.target = to2[t.target]
  <2>1. OfSecond(t, t02, joint) \in p2
    BY DEF SecondPart
  <2>2. /\ Moved(t, OfSecond(t, t02, joint), t02.target, j2)
        /\ t.source \in m2.locations /\ t.target \in m2.locations
    BY <1>6, <2>1, SecondMoves
  <2>3. t.source \in L2 /\ t.target \in L2
    BY <1>1, <1>2, <1>8, <2>2
  <2> QED
    BY <2>2, <2>3 DEF Moved, Relabel
<1>12. /\ \A l, b, x : Leads(m1, l, b, x)
             <=> \E u \in c1.transitions : u.source = l /\ u.action.name = b /\ u.target = x
       /\ \A l, b, x : Leads(m2, l, b, x)
             <=> \E u \in c2.transitions : u.source = l /\ u.action.name = b /\ u.target = x
  BY <1>2, LeadsInCopy
<1>13. /\ \A l \in L1 : to1[l] = IF l = p THEN j1 ELSE l
       /\ \A l \in L2 : to2[l] = IF l = t02.target THEN j2 ELSE l
       /\ p \in L1 /\ t02.target \in L2
  BY <1>1, <1>2, <1>3 DEF Relabel
<1> HIDE DEF to1, to2, p1, p2, d, r, joint, init, j1, j2
<1>14. /\ \A l, y \in L1 : to1[l] = to1[y] => l = y
       /\ \A l, y \in L2 : to2[l] = to2[y] => l = y
       /\ \A l \in L1, y \in L2 : to1[l] # to2[y]
       /\ \A l \in L1 : to1[l] = j1 <=> l = p
       /\ \A l \in L2 : to2[l] # j1
       /\ \A l \in L1 : to1[l] \in r.locations
       /\ \A l \in L2 : to2[l] \in r.locations
       /\ j2 \in r.locations
  <2>1. /\ \A l, y \in L1 : to1[l] = to1[y] => l = y
        /\ \A l \in L1 : to1[l] = j1 <=> l = p
    BY <1>4, <1>13
  <2>2. /\ \A l, y \in L2 : to2[l] = to2[y] => l = y
        /\ \A l \in L2 : to2[l] # j1
    BY <1>4, <1>5, <1>13
  <2>3. \A l \in L1, y \in L2 : to1[l] # to2[y]
    BY <1>4, <1>5, <1>13
  <2>4. /\ \A l \in L1 : to1[l] \in r.locations
        /\ \A l \in L2 : to2[l] \in r.locations
        /\ j2 \in r.locations
    BY <1>6, <1>7, <1>9, <1>13
  <2> QED
    BY <2>1, <2>2, <2>3, <2>4
<1>15. \A l, b, x : Leads(r, l, b, x)
          <=> \/ l = j1 /\ b = a /\ x = j2
              \/ \E t \in c1.transitions \ {tc1} :
                    l = to1[t.source] /\ b = t.action.name /\ x = to1[t.target]
              \/ \E t \in c2.transitions \ {init, t02} :
                    l = to2[t.source] /\ b = t.action.name /\ x = to2[t.target]
  <2> SUFFICES ASSUME NEW l, NEW b, NEW x
               PROVE  Leads(r, l, b, x)
                         <=> \/ l = j1 /\ b = a /\ x = j2
                             \/ \E t \in c1.transitions \ {tc1} :
                                   l = to1[t.source] /\ b = t.action.name /\ x = to1[t.target]
                             \/ \E t \in c2.transitions \ {init, t02} :
                                   l = to2[t.source] /\ b = t.action.name /\ x = to2[t.target]
    OBVIOUS
  <2> DEFINE is(u) == u.source = l /\ u.action.name = b /\ u.target = x
  <2>1. Leads(r, l, b, x)
           <=> is(joint) \/ (\E u \in p1 : is(u)) \/ (\E u \in p2 : is(u))
    BY <1>6 DEF Leads
  <2>2. is(joint) <=> l = j1 /\ b = a /\ x = j2
    BY <1>3
  <2>3. (\E u \in p1 : is(u))
           <=> \E t \in c1.transitions \ {tc1} :
                  l = to1[t.source] /\ b = t.action.name /\ x = to1[t.target]
    <3>1. (\E u \in p1 : is(u)) <=> \E t \in c1.transitions \ {tc1} : is(OfFirst(t, tc1, joint))
      BY DEF p1, FirstPart
    <3>2. \A t \in c1.transitions \ {tc1} :
             is(OfFirst(t, tc1, joint))
                <=> l = to1[t.source] /\ b = t.action.name /\ x = to1[t.target]
      BY <1>10
    <3> QED
      BY <3>1, <3>2
  <2>4. (\E u \in p2 : is(u))
           <=> \E t \in c2.transitions \ {init, t02} :
                  l = to2[t.source] /\ b = t.action.name /\ x = to2[t.target]
    <3>1. (\E u \in p2 : is(u))
             <=> \E t \in c2.transitions \ {init, t02} : is(OfSecond(t, t02, joint))
      BY DEF p2, SecondPart, init
    <3>2. \A t \in c2.transitions \ {init, t02} :
             is(OfSecond(t, t02, joint))
                <=> l = to2[t.source] /\ b = t.action.name /\ x = to2[t.target]
      BY <1>11
    <3> QED
      BY <3>1, <3>2
  <2> HIDE DEF is
  <2> QED
    BY <2>1, <2>2, <2>3, <2>4
<1>16. Continued(m1, r, L1, to1, p, a, q, j2)
  <2>1. Leads(m1, p, a, q) /\ \A b, x : ~Leads(m1, q, b, x)
    BY <1>1, <1>2, <1>12
  <2>2. ASSUME NEW l \in L1, NEW b, NEW x, Leads(m1, l, b, x)
        PROVE  (l = p /\ b = a /\ x = q) \/ (b # a /\ x \in L1)
    <3>1. PICK u \in c1.transitions : u.source = l /\ u.action.name = b /\ u.target = x
      BY <1>12, <2>2
    <3>2. CASE u = tc1
      BY <3>1, <3>2
    <3>3. CASE u # tc1
      <4>1. u.target \in L1
        BY <1>10, <3>3
      <4> QED
        BY <1>1, <3>1, <3>3, <4>1
    <3> QED
      BY <3>2, <3>3
  <2>3. ASSUME NEW l \in L1, NEW b, NEW x
        PROVE  Leads(r, to1[l], b, x)
                  <=> (l = p /\ b = a /\ x = j2) \/ \E y \in L1 : x = to1[y] /\ Leads(m1, l, b, y)
    <3>1. Leads(r, to1[l], b, x)
             <=> \/ l = p /\ b = a /\ x = j2
                 \/ \E t \in c1.transitions \ {tc1} :
                       l = t.source /\ b = t.action.name /\ x = to1[t.target]
      <4>1. to1[l] = j1 <=> l = p
        BY <1>14
      <4>2. \A t \in c2.transitions \ {init, t02} : to1[l] # to2[t.source]
        BY <1>11, <1>14
      <4>3. \A t \in c1.transitions \ {tc1} : to1[l] = to1[t.source] <=> l = t.source
        BY <1>10, <1>14
      <4> HIDE DEF L1
      <4> QED
        BY <1>15, <4>1, <4>2, <4>3
    <3>2. (\E t \in c1.transitions \ {tc1} :
              l = t.source /\ b = t.action.name /\ x = to1[t.target])
             <=> \E y \in L1 : x = to1[y] /\ Leads(m1, l, b, y)
      <4>1. ASSUME NEW t \in c1.transitions \ {tc1},
                   l = t.source, b = t.action.name, x = to1[t.target]
            PROVE  \E y \in L1 : x = to1[y] /\ Leads(m1, l, b, y)
        <5>1. t.target \in L1
          BY <1>10
        <5>2. Leads(m1, l, b, t.target)
          BY <1>12, <4>1
        <5> QED
          BY <4>1, <5>1, <5>2
      <4>2. ASSUME NEW y \in L1, x = to1[y], Leads(m1, l, b, y)
            PROVE  \E t \in c1.transitions \ {tc1} :
                      l = t.source /\ b = t.action.name /\ x = to1[t.target]
        <5>1. PICK t \in c1.transitions : t.source = l /\ t.action.name = b /\ t.target = y
          BY <1>12, <4>2
        <5>2. t # tc1
          BY <5>1
        <5> QED
          BY <4>2, <5>1, <5>2
      <4> HIDE DEF L1
      <4> QED
        BY <4>1, <4>2
    <3> QED
      BY <3>1, <3>2
  <2> QED
    BY <1>3, <1>13, <1>14, <2>1, <2>2, <2>3 DEF Continued
<1>17. Embedded(m2, r, L2, to2)
  <2>1. ASSUME NEW l \in L2, NEW b, NEW x, Leads(m2, l, b, x)
        PROVE  \E u \in c2.transitions \ {init, t02} :
                  u.source = l /\ u.action.name = b /\ u.target = x /\ x \in L2
    <3>1. PICK u \in c2.transitions : u.source = l /\ u.action.name = b /\ u.target = x
      BY <1>12, <2>1
    <3>2. u # init /\ u # t02
      BY <1>2, <3>1
    <3> QED
      BY <1>11, <3>1, <3>2
  <2>2. ASSUME NEW l \in L2, NEW b, NEW x
        PROVE  Leads(r, to2[l], b, x) <=> \E y \in L2 : x = to2[y] /\ Leads(m2, l, b, y)
    <3>1. Leads(r, to2[l], b, x)
             <=> \E t \in c2.transitions \ {init, t02} :
                    l = t.source /\ b = t.action.name /\ x = to2[t.target]
      <4>1. to2[l] # j1
        BY <1>14
      <4>2. \A t \in c1.transitions \ {tc1} : to2[l] # to1[t.source]
        BY <1>10, <1>14
      <4>3. \A t \in c2.transitions \ {init, t02} : to2[l] = to2[t.source] <=> l = t.source
        BY <1>11, <1>14
      <4> HIDE DEF L2
      <4> QED
        BY <1>15, <4>1, <4>2, <4>3
    <3>2. ASSUME NEW t \in c2.transitions \ {init, t02}
          PROVE  t.target \in L2 /\ Leads(m2, t.source, t.action.name, t.target)
      BY <1>11, <1>12
    <3> HIDE DEF L2
    <3> QED
      BY <2>1, <3>1, <3>2
  <2> QED
    BY <1>14, <2>1, <2>2 DEF Embedded
<1> QED
  BY <1>6, <1>16, <1>17 DEF r, to1, to2, j1, j2

(* The words of a sequence of models that fit are those of the first model *)
(* and those that go on with the second one after the composition          *)
(* transition.                                                             *)
LEMMA SequenceWords ==
    ASSUME SequentialFit, SequenceCalled, result # Thrown
    PROVE  Words(result) =
              Words(last.first) \cup
              {w \in {u \o v : u \in {x \in Words(last.first) :
                                         x # <<>> /\ Last(x) = FirstOf2.action.name},
                               v \in WordsFrom(last.second, FirstOf2.target)} :
                  Len(w) <= MaxWord}
<1> DEFINE m1 == last.first
           m2 == last.second
<1>1. PICK c1, c2, t1, tc1, t02, start2 :
         /\ Meeting(m1, m2, c1, c2, tc1, t02, start2)
         /\ result = Composed(c1, c2, tc1, t02, start2)
         /\ Fitting(m1, m2, c1, c2, t1, tc1, t02)
  BY FitParts
<1>2. Joinable(m1, m2) /\ Sound(m1) /\ Sound(m2)
  BY DEF SequenceCalled, Joinable
<1>3. /\ HasInitial(m1) /\ LastOf1 = {t1} /\ t1.source # m1.initialLocation
      /\ m1.out[t1.target] = <<>>
  <2>1. LastOf1 = {t1}
    BY <1>1 DEF Fitting
  <2>2. HasInitial(m1) /\ \E t \in LastOf1 : t.source # m1.initialLocation
    BY DEF SequentialFit, Prepared
  <2>3. \E t \in LastOf1 : m1.out[t.target] = <<>>
    BY FitOf
  <2> QED
    BY <2>1, <2>2, <2>3
<1> DEFINE a  == FirstOf2.action.name
           e  == FirstOf2.target
           i1 == m1.initialLocation
           j1 == Join(tc1.source, t02.source)
           j2 == Join(tc1.target, t02.target)
           L1 == m1.locations \ {tc1.target}
           L2 == m2.locations \ {t02.source, m2.initialLocation}
           to1 == Relabel(L1, tc1.source, j1)
           to2 == Relabel(L2, t02.target, j2)
<1>4. tc1.source = t1.source /\ tc1.target = t1.target
      /\ t02.target = e /\ tc1.action.name = a /\ e \in L2
  <2>1. /\ Twin(t1, tc1) /\ Twin(FirstOf2, t02)
        /\ t02.target # t02.source /\ t02.target # c2.initialLocation
    BY <1>1 DEF Fitting
  <2>2. tc1.action.name = t02.action.name /\ c2.initialLocation = m2.initialLocation
    BY <1>1, MeetingCopies
  <2>3. t02.target \in m2.locations
    BY <1>1, <1>2, JointType
  <2> QED
    BY <2>1, <2>2, <2>3 DEF Twin
<1>5. i1 \in L1 /\ i1 # tc1.source
  <2>1. i1 \in m1.locations
    BY <1>2, <1>3 DEF Sound, HasInitial
  <2>2. i1 # tc1.target
    BY <1>3, <1>4 DEF HasInitial
  <2> QED
    BY <1>3, <1>4, <2>1, <2>2
<1> HIDE DEF m1, m2
<1>6. /\ Sound(result)
      /\ Continued(m1, result, L1, to1, tc1.source, tc1.action.name, tc1.target, j2)
      /\ Embedded(m2, result, L2, to2)
  BY <1>1, <1>2, SequenceLeads
<1>7. result.initialLocation = i1
  <2> DEFINE d == InitializedSequence(c1, c2, tc1, t02, start2)
  <2>1. SameDeclarations(d, result)
    BY <1>1, <1>2, ComposedShape, result # Thrown
  <2>2. d.initialLocation = IF i1 \in {tc1.source, tc1.target} THEN NoLabel ELSE i1
    BY <1>1, <1>2, InitializedSequenceShape
  <2> HIDE DEF d
  <2> QED
    BY <1>5, <2>1, <2>2 DEF SameDeclarations
<1>8. PICK f1 : AreWords(m1, f1) /\ \A l : WordsFrom(m1, l) = f1[MaxWord][l]
  BY <1>2, WordsFromAreWords
<1>9. PICK f2 : AreWords(m2, f2) /\ \A l : WordsFrom(m2, l) = f2[MaxWord][l]
  BY <1>2, WordsFromAreWords
<1>10. PICK g : AreWords(result, g) /\ \A l : WordsFrom(result, l) = g[MaxWord][l]
  BY <1>6, WordsFromAreWords
<1>11. to1[i1] = i1 /\ to2[e] = j2
  BY <1>4, <1>5 DEF Relabel
<1> HIDE DEF L1, L2, to1, to2, j1, j2, a, e, i1
<1> DEFINE U == f1[MaxWord][i1]
           V == f2[MaxWord][e]
           W == g[MaxWord][i1]
<1>12. /\ Words(m1) = U /\ WordsFrom(m2, e) = V /\ Words(result) = W
  BY <1>7, <1>8, <1>9, <1>10 DEF Words, i1
<1>13. MaxWord \in 0..MaxWord
  BY BoundsAssumption
<1>14. \A w : w \in g[MaxWord][j2] <=> w \in V
  BY <1>4, <1>6, <1>9, <1>10, <1>11, <1>13, WordsEmbedded
<1>15. \A w : w \in W
          <=> w \in U \/ (Composite(U, g[MaxWord][j2], a, w) /\ Len(w) <= MaxWord)
  <2>1. Continued(m1, result, L1, to1, tc1.source, a, tc1.target, j2)
    BY <1>4, <1>6
  <2> QED
    BY <1>2, <1>5, <1>6, <1>8, <1>10, <1>11, <1>13, <2>1, WordsContinued
<1>16. \A w : Composite(U, g[MaxWord][j2], a, w)
          <=> w \in {u \o v : u \in {x \in U : x # <<>> /\ Last(x) = a}, v \in V}
  <2> DEFINE X == {x \in U : x # <<>> /\ Last(x) = a}
             G == g[MaxWord][j2]
  <2>1. G = V
    <3> HIDE DEF G, V
    <3>1. \A w : w \in G <=> w \in V
      BY <1>14 DEF G, V
    <3> QED
      BY <3>1
  <2>2. \A u : u \in X <=> u \in U /\ u # <<>> /\ Last(u) = a
    OBVIOUS
  <2> HIDE DEF X, G, U, V
  <2>3. ASSUME NEW w
        PROVE  Composite(U, V, a, w) <=> w \in {u \o v : u \in X, v \in V}
    <3>1. Composite(U, V, a, w) <=> \E u \in X, v \in V : w = u \o v
      BY <2>2 DEF Composite
    <3> QED
      BY <3>1
  <2> QED
    BY <2>1, <2>3 DEF G, X
<1> HIDE DEF U, V, W
<1>17. W = U \cup {w \in {u \o v : u \in {x \in U : x # <<>> /\ Last(x) = a}, v \in V} :
                      Len(w) <= MaxWord}
  <2> DEFINE K == {u \o v : u \in {x \in U : x # <<>> /\ Last(x) = a}, v \in V}
             G == g[MaxWord][j2]
             short(w) == Len(w) <= MaxWord
  <2>1. \A w : w \in W <=> w \in U \/ (Composite(U, G, a, w) /\ short(w))
    BY <1>15
  <2>2. \A w : Composite(U, G, a, w) <=> w \in K
    BY <1>16
  <2> HIDE DEF K, G, short
  <2>3. \A w : w \in W <=> w \in U \/ (w \in K /\ short(w))
    BY ONLY <2>1, <2>2
  <2>4. W = U \cup {w \in K : short(w)}
    BY ONLY <2>3
  <2> QED
    BY ONLY <2>4 DEF K, short
<1> QED
  BY <1>12, <1>17 DEF m1, m2, a, e

-----------------------------------------------------------------------------
(* Interruption.                                                           *)

(* A loop with several outcomes stays in a set that each round stays in.   *)
LEMMA LoopOutcomesStay ==
    ASSUME NEW S, S \subseteq Outcome, Thrown \in S, NEW T, NEW xs \in Seq(T),
           NEW results, results \subseteq S, NEW step,
           \A r \in S \ {Thrown} : \A x \in Range(xs) : step[r][x] \subseteq S
    PROVE  LoopOutcomes(step, results, xs) \subseteq S
<1> DEFINE n == Len(xs)
           body == [rs \in SUBSET Outcome |-> [x \in Range(xs) |->
                       UNION {IF r = Thrown THEN {r} ELSE step[r][x] : r \in rs}]]
           Q == [k \in 0..n |-> SUBSET S]
<1>1. n \in Nat /\ \A k \in 1..n : k - 1 \in 0..n /\ k \in 0..n /\ xs[k] \in Range(xs)
  <2>1. n \in Nat /\ DOMAIN xs = 1..n
    BY LenProperties
  <2> QED
    BY <2>1 DEF Range
<1>2. results \in Q[0]
  <2>1. 0 \in 0..n
    BY <1>1
  <2> QED
    BY <2>1
<1>3. ASSUME NEW k \in 1..n, NEW q \in Q[k - 1] PROVE body[q][xs[k]] \in Q[k]
  <2>1. k - 1 \in 0..n /\ k \in 0..n /\ xs[k] \in Range(xs)
    BY <1>1
  <2>2. q \in SUBSET S
    BY <2>1
  <2>3. body[q][xs[k]] = UNION {IF r = Thrown THEN {r} ELSE step[r][xs[k]] : r \in q}
    BY <2>1, <2>2
  <2>4. \A r \in q : (IF r = Thrown THEN {r} ELSE step[r][xs[k]]) \subseteq S
    BY <2>1, <2>2
  <2>5. body[q][xs[k]] \subseteq S
    <3> HIDE DEF body, n
    <3> QED
      BY <2>3, <2>4
  <2> HIDE DEF body
  <2> QED
    BY <2>1, <2>5
<1>4. LoopOutcomes(step, results, xs) = Loop(body, results, xs)
  BY DEF LoopOutcomes
<1>5. Loop(body, results, xs) \in Q[n]
  <2> HIDE DEF body, Q
  <2> QED
    BY <1>1, <1>2, <1>3, LoopStays
<1>6. n \in 0..n
  BY <1>1
<1> HIDE DEF body
<1> QED
  BY <1>4, <1>5, <1>6

\* The outcomes with locations in A and the actions of d: sound models, in
\* which nothing leaves an undeclared location and, if the actions are to be
\* known, every action is declared.
Within(r, A, d, known) ==
    /\ Sound(r) /\ r.locations \subseteq A
    /\ r.inputActions = d.inputActions /\ r.outputActions = d.outputActions
    /\ r.internalActions = d.internalActions
    /\ \A l \in Label \ r.locations : r.out[l] = <<>>
    /\ known => Cloneable(r)

Good(A, d, known) == {Thrown} \cup {r \in Model : Within(r, A, d, known)}

(* createTransition stays within them, and so does a loop of it.           *)
LEMMA CreatedGood ==
    ASSUME NEW A, NEW d, NEW known \in BOOLEAN, NEW r \in Good(A, d, known),
           NEW t \in Transition, known => Recoverable(d, t.action)
    PROVE  Created(r, t) \in Good(A, d, known)
<1>1. CASE r = Thrown \/ ~Connects(t, r)
  <2>1. Created(r, t) = Thrown
    BY <1>1 DEF Created, Connects
  <2> QED
    BY <2>1 DEF Good
<1>2. CASE r # Thrown /\ Connects(t, r)
  <2> DEFINE q == CreateTransition(r, t)
  <2>1. Created(r, t) = q
    BY <1>2 DEF Created, Connects
  <2>2. r \in Model /\ Within(r, A, d, known) /\ Sound(r)
    BY <1>2 DEF Good, Within
  <2>3. Grown(r, q, {t})
    BY <1>2, <2>2, CreatedSound
  <2>4. /\ \A l \in Label : q.out[l] = IF l = t.source THEN Append(r.out[l], t) ELSE r.out[l]
        /\ q.transitions = Put(r.transitions, t)
    <3>1. r \in Model /\ t \in Transition /\ t.source \in r.locations
      BY <1>2, <2>2 DEF Connects
    <3>2. q.transitions = Put(r.transitions, t)
      BY <3>1 DEF CreateTransition, Model
    <3>3. \A l \in Label : q.out[l] = IF l = t.source THEN Append(r.out[l], t) ELSE r.out[l]
      BY <3>1, CreateTransitionType
    <3> QED
      BY <3>2, <3>3
  <2> HIDE DEF q
  <2>5. /\ q.locations = r.locations /\ q.inputActions = r.inputActions
        /\ q.outputActions = r.outputActions /\ q.internalActions = r.internalActions
        /\ Sound(q) /\ q \in Model
    BY <2>3 DEF Grown, SameDeclarations, Sound
  <2>6. \A l \in Label \ q.locations : q.out[l] = <<>>
    BY <1>2, <2>2, <2>4, <2>5 DEF Within, Connects
  <2>7. ASSUME known PROVE Cloneable(q)
    <3>1. \A a : Recoverable(q, a) <=> Recoverable(r, a)
      BY <2>5 DEF Recoverable, NamesOfType
    <3>2. Recoverable(r, t.action)
      BY <2>2, <2>7 DEF Within, Recoverable, NamesOfType
    <3>3. \A u \in r.transitions : Recoverable(r, u.action)
      BY <2>2, <2>7 DEF Within, Cloneable
    <3> QED
      BY <2>4, <3>1, <3>2, <3>3 DEF Put, Cloneable
  <2>8. Within(q, A, d, known)
    BY <2>2, <2>5, <2>6, <2>7 DEF Within
  <2> QED
    BY <2>1, <2>5, <2>8 DEF Good
<1> QED
  BY <1>1, <1>2

(* Good outcomes are outcomes.                                             *)
LEMMA GoodType ==
    ASSUME NEW A, NEW d, NEW known
    PROVE  /\ Good(A, d, known) \subseteq Outcome /\ Thrown \in Good(A, d, known)
           /\ \A r \in Good(A, d, known) \ {Thrown} :
                 r \in Model /\ Within(r, A, d, known) /\ r.transitions \subseteq Transition
  BY DEF Good, Outcome, Model

(* A loop of createTransition stays within the good outcomes.              *)
LEMMA CreatedAllGood ==
    ASSUME NEW A, NEW d, NEW known \in BOOLEAN, NEW m \in Good(A, d, known),
           NEW f \in [Transition -> Transition], NEW ts \in Seq(Transition),
           known => \A t \in Range(ts) : Recoverable(d, f[t].action)
    PROVE  CreatedAll(m, f, ts) \in Good(A, d, known)
<1> DEFINE n == Len(ts)
           G == Good(A, d, known)
           step == [r \in Outcome |-> [t \in Transition |-> Created(r, f[t])]]
           Q == [k \in 0..n |-> G]
<1>1. n \in Nat /\ \A k \in 1..n : /\ k - 1 \in 0..n /\ k \in 0..n
                                   /\ ts[k] \in Transition /\ ts[k] \in Range(ts)
  <2>1. n \in Nat /\ DOMAIN ts = 1..n /\ \A i \in 1..n : ts[i] \in Transition
    BY LenProperties, ElementOfSeq
  <2> QED
    BY <2>1 DEF Range
<1>2. m \in Q[0]
  <2>1. 0 \in 0..n
    BY <1>1
  <2> HIDE DEF G, n
  <2> QED
    BY <2>1 DEF G
<1>3. ASSUME NEW k \in 1..n, NEW q \in Q[k - 1] PROVE step[q][ts[k]] \in Q[k]
  <2>1. k - 1 \in 0..n /\ k \in 0..n /\ ts[k] \in Transition /\ ts[k] \in Range(ts)
    BY <1>1
  <2>2. q \in G
    <3> HIDE DEF G, n
    <3> QED
      BY <2>1
  <2>3. q \in Outcome
    BY <2>2, GoodType
  <2>4. step[q][ts[k]] = Created(q, f[ts[k]]) /\ f[ts[k]] \in Transition
    BY <2>1, <2>3
  <2>5. known => Recoverable(d, f[ts[k]].action)
    BY <2>1
  <2>6. Created(q, f[ts[k]]) \in G
    BY <2>2, <2>4, <2>5, CreatedGood
  <2> HIDE DEF step, G, n
  <2> QED
    BY <2>1, <2>4, <2>6
<1>4. CreatedAll(m, f, ts) = Loop(step, m, ts)
  BY DEF CreatedAll
<1>5. Loop(step, m, ts) \in Q[n]
  <2> HIDE DEF step, Q
  <2> QED
    BY <1>1, <1>2, <1>3, LoopStays
<1>6. n \in 0..n
  BY <1>1
<1> HIDE DEF step, G, n
<1> QED
  BY <1>4, <1>5, <1>6 DEF G

\* The actions an interruption of m1 by m2 declares.
InterruptedActions(m1, m2) ==
    [inputActions    |-> (m1.inputActions \cup m2.inputActions) \ SynchronizedNames(m1, m2),
     outputActions   |-> m1.outputActions \cup m2.outputActions,
     internalActions |-> m1.internalActions]

\* The transitions that the composition takes over have declared actions.
TakenOverKnown(c1, c2, d, eSync) ==
    /\ \A t \in c1.transitions : t.action.name \notin eSync => Recoverable(d, t.action)
    /\ \A t \in c2.transitions :
          (t.action.name \notin eSync /\ t.source # c2.initialLocation)
              => Recoverable(d, t.action)
    /\ \A t \in c2.transitions :
          Ends({t}) \cap Ends(Synchronizing(c1, eSync) \cup Synchronizing(c2, eSync)) = {}
              => Recoverable(d, t.action)

\* c1 and c2 are copies of models that can be composed.
Interrupting(m1, m2, c1, c2) == Joinable(m1, m2) /\ Copied(m1, c1) /\ Copied(m2, c2)

(* The transitions and locations of the copies.                            *)
LEMMA InterruptingType ==
    ASSUME NEW m1, NEW m2, NEW c1, NEW c2, Interrupting(m1, m2, c1, c2)
    PROVE  /\ SynchronizedNames(c1, c2) = SynchronizedNames(m1, m2)
           /\ \A t \in c1.transitions :
                 t \in Transition /\ t.source \in m1.locations /\ t.target \in m1.locations
           /\ \A t \in c2.transitions :
                 t \in Transition /\ t.source \in m2.locations /\ t.target \in m2.locations
           /\ JoinedLocations(m1, m2) \subseteq Label
           /\ \A x \in m1.locations, y \in m2.locations : Join(x, y) \in JoinedLocations(m1, m2)
<1>1. /\ SynchronizedNames(c1, c2) = SynchronizedNames(m1, m2)
  BY DEF Interrupting, Copied, SameDeclarations, SynchronizedNames, ActionNames, NamesOfType
<1>2. /\ \A t \in c1.transitions :
            t \in Transition /\ t.source \in m1.locations /\ t.target \in m1.locations
      /\ \A t \in c2.transitions :
            t \in Transition /\ t.source \in m2.locations /\ t.target \in m2.locations
  BY DEF Interrupting, Copied, SameDeclarations, Connects
<1>3. JoinedLocations(m1, m2) \subseteq Label
  BY DEF Interrupting, Joinable, Sound, Model, JoinedLocations
<1>4. \A x \in m1.locations, y \in m2.locations : Join(x, y) \in JoinedLocations(m1, m2)
  BY DEF JoinedLocations
<1> QED
  BY <1>1, <1>2, <1>3, <1>4

(* initialize gives a good outcome.                                        *)
LEMMA InitializedGood ==
    ASSUME NEW m1, NEW m2, NEW c1, NEW c2, Interrupting(m1, m2, c1, c2),
           NEW known \in BOOLEAN,
           known => TakenOverKnown(c1, c2, InterruptedActions(m1, m2),
                                   SynchronizedNames(c1, c2))
    PROVE  InitializedInterruption(c1, c2, SynchronizedNames(c1, c2))
              \in Good(JoinedLocations(m1, m2), InterruptedActions(m1, m2), known)
<1> DEFINE A == JoinedLocations(m1, m2)
           d == InterruptedActions(m1, m2)
           eSync == SynchronizedNames(c1, c2)
           excluded == Ends(Synchronizing(c1, eSync) \cup Synchronizing(c2, eSync))
           declared ==
            [Declarations(c1) EXCEPT
                !.outputActions   = @ \cup c2.outputActions,
                !.inputActions    = (@ \cup c2.inputActions) \ eSync,
                !.variables       = @ \cup c2.variables,
                !.locations       = (@ \cup c2.locations) \ excluded,
                !.initialLocation = IF @ \in excluded THEN NoLabel ELSE @]
           kept(c) == Kept(InOrder(c), {t \in c.transitions : Ends({t}) \cap excluded = {}})
           same == [t \in Transition |-> t]
<1>1. InitializedInterruption(c1, c2, eSync)
         = CreatedAll(CreatedAll(declared, same, kept(c1)), same, kept(c2))
  BY DEF InitializedInterruption
<1>2. /\ c1 \in Model /\ c2 \in Model
      /\ SameDeclarations(m1, c1) /\ SameDeclarations(m2, c2)
      /\ IsFiniteSet(c1.locations) /\ IsFiniteSet(c2.locations)
      /\ c1.initialLocation \in c1.locations \cup {NoLabel}
      /\ InOrder(c1) \in Seq(Transition) /\ Range(InOrder(c1)) = c1.transitions
      /\ InOrder(c2) \in Seq(Transition) /\ Range(InOrder(c2)) = c2.transitions
  BY DEF Interrupting, Copied, SameDeclarations, Joinable, Sound
<1>3. eSync = SynchronizedNames(m1, m2)
  BY InterruptingType
<1> HIDE DEF eSync, excluded
<1>4. /\ declared \in Model
      /\ declared.locations = (m1.locations \cup m2.locations) \ excluded
      /\ declared.initialLocation \in declared.locations \cup {NoLabel}
      /\ declared.out = [l \in Label |-> <<>>] /\ declared.transitions = {}
      /\ declared.inputActions = d.inputActions
      /\ declared.outputActions = d.outputActions
      /\ declared.internalActions = d.internalActions
  <2>1. /\ Declarations(c1) \in Model /\ SameDeclarations(c1, Declarations(c1))
        /\ Declarations(c1).out = [l \in Label |-> <<>>]
        /\ Declarations(c1).transitions = {}
    BY <1>2, DeclarationsType
  <2>2. /\ d.inputActions = (m1.inputActions \cup m2.inputActions) \ eSync
        /\ d.outputActions = m1.outputActions \cup m2.outputActions
        /\ d.internalActions = m1.internalActions
    BY <1>3 DEF InterruptedActions
  <2>3. /\ declared \in Model
        /\ declared.locations = (c1.locations \cup c2.locations) \ excluded
        /\ declared.initialLocation = IF c1.initialLocation \in excluded THEN NoLabel
                                      ELSE c1.initialLocation
        /\ declared.out = [l \in Label |-> <<>>] /\ declared.transitions = {}
        /\ declared.inputActions = (c1.inputActions \cup c2.inputActions) \ eSync
        /\ declared.outputActions = c1.outputActions \cup c2.outputActions
        /\ declared.internalActions = c1.internalActions
    BY <1>2, <2>1 DEF Model, SameDeclarations
  <2> HIDE DEF declared, d
  <2> QED
    BY <1>2, <2>2, <2>3 DEF SameDeclarations
<1> HIDE DEF declared
<1>5. IsFiniteSet(declared.locations)
  <2>1. IsFiniteSet(c1.locations \cup c2.locations)
    BY <1>2, FS_Union
  <2>2. declared.locations \in SUBSET (c1.locations \cup c2.locations)
    BY <1>2, <1>4 DEF SameDeclarations
  <2> QED
    BY <2>1, <2>2, FS_Subset
<1>6. declared \in Good(A, d, known)
  <2>1. Sound(declared)
    BY <1>4, <1>5, DeclaredSound
  <2>2. declared.locations \subseteq A
    BY <1>4 DEF JoinedLocations
  <2>3. Cloneable(declared)
    BY <1>4 DEF Cloneable
  <2>4. \A l \in Label \ declared.locations : declared.out[l] = <<>>
    BY <1>4
  <2> HIDE DEF A, d
  <2>5. Within(declared, A, d, known)
    BY <1>4, <2>1, <2>2, <2>3, <2>4 DEF Within
  <2> QED
    BY <1>4, <2>5 DEF Good
<1>7. /\ kept(c1) \in Seq(Transition) /\ kept(c2) \in Seq(Transition)
      /\ \A t \in Range(kept(c1)) : t \in c1.transitions /\ Ends({t}) \cap excluded = {}
      /\ \A t \in Range(kept(c2)) : t \in c2.transitions /\ Ends({t}) \cap excluded = {}
  BY <1>2, KeptElements
<1>8. same \in [Transition -> Transition] /\ \A t \in Transition : same[t] = t
  OBVIOUS
<1>9. \A t \in c1.transitions \cup c2.transitions : t \in Transition
  BY InterruptingType
<1>10. known => \A t \in Range(kept(c1)) : Recoverable(d, same[t].action)
  <2> SUFFICES ASSUME known, NEW t \in Range(kept(c1)) PROVE Recoverable(d, t.action)
    BY <1>7, <1>8, <1>9
  <2>1. t \in c1.transitions /\ Ends({t}) \cap excluded = {}
    BY <1>7
  <2>2. t.source \notin excluded
    BY <2>1 DEF Ends
  <2>3. t.action.name \notin eSync
    BY <2>1, <2>2 DEF excluded, Ends, Synchronizing
  <2> QED
    BY <2>1, <2>3 DEF TakenOverKnown, eSync
<1>11. known => \A t \in Range(kept(c2)) : Recoverable(d, same[t].action)
  <2> SUFFICES ASSUME known, NEW t \in Range(kept(c2)) PROVE Recoverable(d, t.action)
    BY <1>7, <1>8, <1>9
  <2>1. t \in c2.transitions /\ Ends({t}) \cap excluded = {}
    BY <1>7
  <2> QED
    BY <2>1 DEF TakenOverKnown, eSync, excluded
<1> HIDE DEF A, d, same, kept
<1>12. CreatedAll(declared, same, kept(c1)) \in Good(A, d, known)
  BY <1>6, <1>7, <1>8, <1>10, CreatedAllGood
<1>13. CreatedAll(CreatedAll(declared, same, kept(c1)), same, kept(c2)) \in Good(A, d, known)
  BY <1>7, <1>8, <1>11, <1>12, CreatedAllGood
<1> QED
  BY <1>1, <1>13 DEF A, d, eSync

(* A location can be added to a good outcome.                              *)
LEMMA AddedGood ==
    ASSUME NEW A, A \subseteq Label, NEW d, NEW known, NEW r \in Good(A, d, known) \ {Thrown},
           NEW l \in A
    PROVE  AddLocation(r, l) \in Good(A, d, known) \ {Thrown}
<1> DEFINE q == AddLocation(r, l)
<1>1. r \in Model /\ Within(r, A, d, known) /\ Sound(r) /\ l \in Label
  BY GoodType DEF Within
<1>2. /\ q \in Model /\ q.locations = r.locations \cup {l}
      /\ q.inputActions = r.inputActions /\ q.outputActions = r.outputActions
      /\ q.internalActions = r.internalActions /\ q.initialLocation = r.initialLocation
      /\ q.out = r.out /\ q.transitions = r.transitions
  BY <1>1 DEF AddLocation, Model
<1> HIDE DEF q
<1>3. l \in r.locations \/ Range(r.out[l]) = {}
  <2>1. l \notin r.locations => r.out[l] = <<>>
    BY <1>1 DEF Within
  <2> QED
    BY <2>1 DEF Range
<1>4. OutTransitions(q) = OutTransitions(r)
  BY <1>2, <1>3 DEF OutTransitions
<1>5. IsFiniteSet(q.locations)
  <2>1. IsFiniteSet(r.locations)
    BY <1>1 DEF Sound
  <2>2. IsFiniteSet(r.locations \cup {l})
    BY <2>1, FS_AddElement
  <2> QED
    BY <1>2, <2>2
<1>6. \A k \in q.locations : \A t \in Range(q.out[k]) : t.source = k /\ t.target \in q.locations
  BY <1>1, <1>2, <1>3 DEF Sound
<1>7. Sound(q)
  <2>1. q \in Model /\ IsFiniteSet(q.transitions)
        /\ q.initialLocation \in q.locations \cup {NoLabel}
    BY <1>1, <1>2 DEF Sound
  <2> QED
    BY <1>1, <1>2, <1>4, <1>5, <1>6, <2>1 DEF Sound
<1>8. known => Cloneable(q)
  BY <1>1, <1>2 DEF Within, Cloneable, Recoverable, NamesOfType
<1>9. Within(q, A, d, known)
  BY <1>1, <1>2, <1>7, <1>8 DEF Within
<1> QED
  BY <1>2, <1>9, ThrownIsNoModel DEF Good, q

\* p is a pair of transitions of the copies.
IsPair(c1, c2, p) == p \in c1.transitions \X c2.transitions

(* The ends of a pair can be joined, and the pair to one transition.       *)
LEMMA PairType ==
    ASSUME NEW m1, NEW m2, NEW c1, NEW c2, Interrupting(m1, m2, c1, c2),
           NEW p, IsPair(c1, c2, p)
    PROVE  /\ Source(p) \in JoinedLocations(m1, m2) /\ Target(p) \in JoinedLocations(m1, m2)
           /\ Source(p) \in Label /\ Target(p) \in Label
           /\ \A g \in EnteringGuards(c2, p) :
                 /\ Joint(p, g) \in Transition
                 /\ Joint(p, g).source = Source(p) /\ Joint(p, g).target = Target(p)
<1> DEFINE t == p[1]
           u == p[2]
<1>1. t \in c1.transitions /\ u \in c2.transitions
  BY DEF IsPair
<1>2. /\ t \in Transition /\ t.source \in m1.locations /\ t.target \in m1.locations
      /\ u \in Transition /\ u.source \in m2.locations /\ u.target \in m2.locations
      /\ JoinedLocations(m1, m2) \subseteq Label
      /\ \A x \in m1.locations, y \in m2.locations : Join(x, y) \in JoinedLocations(m1, m2)
  BY <1>1, InterruptingType
<1>3. /\ Source(p) \in JoinedLocations(m1, m2) /\ Target(p) \in JoinedLocations(m1, m2)
      /\ Source(p) \in Label /\ Target(p) \in Label
  BY <1>2 DEF Source, Target
<1>4. ASSUME NEW g \in EnteringGuards(c2, p)
      PROVE  /\ Joint(p, g) \in Transition
             /\ Joint(p, g).source = Source(p) /\ Joint(p, g).target = Target(p)
  <2>1. g \in SUBSET Atom
    <3>1. \A v \in c2.transitions : v.dataGuard \in SUBSET Atom
      BY InterruptingType DEF Transition
    <3> QED
      BY <3>1 DEF EnteringGuards
  <2>2. Conjoined(t, u)
           = [t EXCEPT !.dataGuard   = t.dataGuard \cup u.dataGuard,
                       !.clockGuard  = t.clockGuard \cup u.clockGuard,
                       !.assignments = t.assignments \cup u.assignments,
                       !.deadline    = DEADLINE_LAZY,
                       !.source      = Source(p),
                       !.target      = Target(p)]
    BY <1>2 DEF Conjoined, Transition, Source, Target
  <2>3. DEADLINE_LAZY \in Deadline
    BY DEF Deadline
  <2>4. /\ Conjoined(t, u) \in Transition
        /\ Conjoined(t, u).source = Source(p) /\ Conjoined(t, u).target = Target(p)
    <3> HIDE DEF t, u
    <3> QED
      BY <1>2, <1>3, <2>2, <2>3 DEF Transition
  <2> DEFINE j == Conjoined(t, u)
             a == IF t.action.type = ACTION_OUTPUT THEN j.action ELSE u.action
  <2>5. a \in Action
    BY <1>2, <2>4 DEF Transition
  <2>6. Joint(p, g) = [j EXCEPT !.action = a, !.dataGuard = j.dataGuard \cup g]
    BY <2>4 DEF Joint, Transition
  <2> HIDE DEF j, a
  <2>7. j \in Transition /\ j.source = Source(p) /\ j.target = Target(p)
    BY <2>4 DEF j
  <2> QED
    BY <2>1, <2>5, <2>6, <2>7 DEF Transition
<1> QED
  BY <1>3, <1>4

(* A round of the first loop of sync() stays within the good outcomes.     *)
LEMMA SynchronizedGood ==
    ASSUME NEW m1, NEW m2, NEW c1, NEW c2, Interrupting(m1, m2, c1, c2),
           NEW d, NEW known \in BOOLEAN,
           NEW r \in Good(JoinedLocations(m1, m2), d, known) \ {Thrown},
           NEW p, IsPair(c1, c2, p)
    PROVE  Synchronized(r, c2, p) \subseteq Good(JoinedLocations(m1, m2), d, known)
<1> DEFINE A == JoinedLocations(m1, m2)
           G == Good(A, d, known)
           outcome(g) == LET j == Joint(p, g)
                         IN  IF Recoverable(r, j.action)
                             THEN CreateTransition(AddLocation(AddLocation(r, j.source),
                                                               j.target), j)
                             ELSE Thrown
<1>1. ASSUME NEW g \in EnteringGuards(c2, p) PROVE outcome(g) \in G
  <2> DEFINE j == Joint(p, g)
             q == AddLocation(AddLocation(r, j.source), j.target)
  <2>1. /\ j \in Transition /\ j.source \in A /\ j.target \in A /\ A \subseteq Label
    <3>1. Joint(p, g).source = Source(p) /\ Joint(p, g).target = Target(p)
          /\ Joint(p, g) \in Transition /\ Source(p) \in A /\ Target(p) \in A
      BY PairType
    <3> QED
      BY <3>1, InterruptingType
  <2> HIDE DEF j, A
  <2>2. AddLocation(r, j.source) \in G \ {Thrown}
    BY <2>1, AddedGood DEF A
  <2>3. q \in G \ {Thrown}
    BY <2>1, <2>2, AddedGood
  <2>4. /\ \A a : Recoverable(q, a) <=> Recoverable(r, a)
        /\ j.source \in q.locations /\ j.target \in q.locations
    <3>1. r \in Model
      BY GoodType DEF A
    <3> QED
      BY <3>1 DEF AddLocation, Recoverable, NamesOfType, Model
  <2>5. Recoverable(q, j.action) => Recoverable(d, j.action)
    BY <2>3, GoodType DEF Within, Recoverable, NamesOfType
  <2>6. CASE Recoverable(r, j.action)
    <3>1. CreateTransition(q, j) = Created(q, j)
      BY <2>3, <2>4 DEF Created
    <3>2. Created(q, j) \in G
      BY <2>1, <2>3, <2>4, <2>5, <2>6, CreatedGood
    <3> QED
      BY <2>6, <3>1, <3>2 DEF j
  <2>7. CASE ~Recoverable(r, j.action)
    BY <2>7, GoodType DEF j
  <2> QED
    BY <2>6, <2>7
<1>2. Synchronized(r, c2, p) = OrThrown({outcome(g) : g \in EnteringGuards(c2, p)})
  BY DEF Synchronized
<1>3. Thrown \in G
  BY GoodType
<1> HIDE DEF outcome, G
<1> QED
  BY <1>1, <1>2, <1>3 DEF OrThrown, G

(* createTransition of a transition with other ends, in a good outcome.    *)
LEMMA RedirectedGood ==
    ASSUME NEW A, NEW d, NEW known \in BOOLEAN, NEW r \in Good(A, d, known),
           NEW t \in Transition, known => Recoverable(d, t.action),
           NEW x \in Label, NEW y \in Label
    PROVE  /\ Created(r, [t EXCEPT !.source = x]) \in Good(A, d, known)
           /\ Created(r, [t EXCEPT !.target = y]) \in Good(A, d, known)
           /\ Created(r, [t EXCEPT !.source = x, !.target = y]) \in Good(A, d, known)
<1>1. ASSUME NEW u \in Transition, u.action = t.action
      PROVE  Created(r, u) \in Good(A, d, known)
  BY <1>1, CreatedGood
<1>2. /\ [t EXCEPT !.source = x] \in Transition
      /\ [t EXCEPT !.target = y] \in Transition
      /\ [t EXCEPT !.source = x, !.target = y] \in Transition
      /\ [t EXCEPT !.source = x].action = t.action
      /\ [t EXCEPT !.target = y].action = t.action
      /\ [t EXCEPT !.source = x, !.target = y].action = t.action
  BY DEF Transition
<1> QED
  BY <1>1, <1>2

(* A round of the second loop of sync() over the first model's transitions *)
(* stays within the good outcomes.                                         *)
LEMMA Redirected1Good ==
    ASSUME NEW A, NEW d, NEW known \in BOOLEAN, NEW r \in Good(A, d, known),
           NEW t \in Transition, known => Recoverable(d, t.action),
           NEW p, Source(p) \in Label, Target(p) \in Label
    PROVE  Redirected1(r, t, p) \subseteq Good(A, d, known)
<1>1. /\ Created(r, [t EXCEPT !.source = Source(p)]) \in Good(A, d, known)
      /\ Created(r, [t EXCEPT !.target = Source(p)]) \in Good(A, d, known)
      /\ Created(r, [t EXCEPT !.source = Target(p)]) \in Good(A, d, known)
      /\ Created(r, [t EXCEPT !.target = Target(p)]) \in Good(A, d, known)
  BY RedirectedGood
<1> QED
  BY <1>1 DEF Redirected1

(* The same over the second model's transitions.                           *)
LEMMA Redirected2Good ==
    ASSUME NEW A, NEW d, NEW known \in BOOLEAN, NEW r \in Good(A, d, known) \ {Thrown},
           NEW t \in Transition, known => Recoverable(d, t.action),
           NEW p, Source(p) \in Label, Target(p) \in Label, NEW c2, NEW excluded
    PROVE  Redirected2(r, t, p, c2, excluded) \subseteq Good(A, d, known)
<1> DEFINE G == Good(A, d, known)
           leaving(l)   == IF c2.out[l] = <<>> THEN {} ELSE {c2.out[l][1].action.name}
           entering(l)  == {u.action.name : u \in {w \in c2.transitions : w.target = l}}
           found(names) == UNION {recoverTransition(r.transitions, n) : n \in names}
           to(x, y)     == Created(r, [t EXCEPT !.source = x, !.target = y])
<1>1. \A x \in Label, y \in Label : to(x, y) \in G
  BY RedirectedGood
<1>2. \A names : \A u \in found(names) : u.source \in Label /\ u.target \in Label
  <2>1. r.transitions \subseteq Transition
    BY GoodType
  <2> QED
    BY <2>1 DEF recoverTransition, Transition
<1>3. t.source \in Label /\ t.target \in Label /\ Thrown \in G /\ r \in G
  BY GoodType DEF Transition
<1>4. Redirected2(r, t, p, c2, excluded) =
        IF t.source = p[2].target
        THEN IF t.target \notin excluded THEN {to(Target(p), t.target)}
             ELSE OrThrown({to(Target(p), u.source) : u \in found(leaving(t.target))})
        ELSE IF t.target = p[2].source
        THEN IF t.source \notin excluded THEN {to(t.source, Source(p))}
             ELSE OrThrown({to(u.target, Source(p)) : u \in found(entering(t.source))})
        ELSE IF t.target = p[2].target
        THEN IF t.source \notin excluded THEN {to(t.source, Target(p))}
             ELSE OrThrown({to(u.source, Source(p)) : u \in found(leaving(t.source))})
        ELSE {r}
  BY DEF Redirected2
<1> HIDE DEF to, found, leaving, entering, G
<1>5. /\ \A names : OrThrown({to(Target(p), u.source) : u \in found(names)}) \subseteq G
      /\ \A names : OrThrown({to(u.target, Source(p)) : u \in found(names)}) \subseteq G
      /\ \A names : OrThrown({to(u.source, Source(p)) : u \in found(names)}) \subseteq G
  BY <1>1, <1>2, <1>3 DEF OrThrown
<1>6. /\ to(Target(p), t.target) \in G /\ to(t.source, Source(p)) \in G
      /\ to(t.source, Target(p)) \in G
  BY <1>1, <1>3
<1>7. Redirected2(r, t, p, c2, excluded) \subseteq G
  <2>1. CASE t.source = p[2].target
    BY <1>4, <1>5, <1>6, <2>1
  <2>2. CASE t.source # p[2].target /\ t.target = p[2].source
    BY <1>4, <1>5, <1>6, <2>2
  <2>3. CASE t.source # p[2].target /\ t.target # p[2].source
    BY <1>3, <1>4, <1>5, <1>6, <2>3
  <2> QED
    BY <2>1, <2>2, <2>3
<1> QED
  BY <1>7 DEF G

(* A round of the second loop of sync().                                   *)
LEMMA RejoinedGood ==
    ASSUME NEW A, NEW d, NEW known \in BOOLEAN, NEW r \in Good(A, d, known) \ {Thrown},
           NEW p, Source(p) \in Label, Target(p) \in Label, NEW c2, NEW excluded,
           NEW first \in Seq(Transition), NEW second \in Seq(Transition),
           known => \A t \in Range(first) \cup Range(second) : Recoverable(d, t.action)
    PROVE  Rejoined(r, p, c2, first, second, excluded) \subseteq Good(A, d, known)
<1> DEFINE G == Good(A, d, known)
           step1 == [s \in Model |-> [t \in Transition |-> Redirected1(s, t, p)]]
           step2 == [s \in Model |-> [t \in Transition |-> Redirected2(s, t, p, c2, excluded)]]
<1>1. Range(first) \subseteq Transition /\ Range(second) \subseteq Transition
  BY FirstGrows
<1>2. ASSUME NEW s \in G \ {Thrown}, NEW t \in Range(first)
      PROVE  step1[s][t] \subseteq G
  <2>1. s \in Model /\ t \in Transition
    BY <1>1, GoodType
  <2>2. Redirected1(s, t, p) \subseteq G
    BY <2>1, Redirected1Good
  <2> HIDE DEF G
  <2> QED
    BY <2>1, <2>2
<1>3. ASSUME NEW s \in G \ {Thrown}, NEW t \in Range(second)
      PROVE  step2[s][t] \subseteq G
  <2>1. s \in Model /\ t \in Transition
    BY <1>1, GoodType
  <2>2. Redirected2(s, t, p, c2, excluded) \subseteq G
    BY <2>1, Redirected2Good
  <2> HIDE DEF G
  <2> QED
    BY <2>1, <2>2
<1>4. G \subseteq Outcome /\ Thrown \in G /\ {r} \subseteq G
  BY GoodType
<1> HIDE DEF G, step1, step2
<1>5. LoopOutcomes(step1, {r}, first) \subseteq G
  BY <1>2, <1>4, LoopOutcomesStay
<1>6. LoopOutcomes(step2, LoopOutcomes(step1, {r}, first), second) \subseteq G
  BY <1>3, <1>4, <1>5, LoopOutcomesStay
<1>7. Rejoined(r, p, c2, first, second, excluded)
        = LoopOutcomes(step2, LoopOutcomes(step1, {r}, first), second)
  BY DEF Rejoined, step1, step2
<1> QED
  BY <1>6, <1>7 DEF G

(* sync() gives good outcomes.                                             *)
LEMMA SyncGood ==
    ASSUME NEW m1, NEW m2, NEW c1, NEW c2, Interrupting(m1, m2, c1, c2),
           NEW known \in BOOLEAN,
           known => TakenOverKnown(c1, c2, InterruptedActions(m1, m2),
                                   SynchronizedNames(c1, c2))
    PROVE  sync(c1, c2, SynchronizedNames(c1, c2))
              \subseteq Good(JoinedLocations(m1, m2), InterruptedActions(m1, m2), known)
<1> DEFINE A == JoinedLocations(m1, m2)
           d == InterruptedActions(m1, m2)
           G == Good(A, d, known)
           eSync == SynchronizedNames(c1, c2)
           alone(c) == {t \in c.transitions : t.action.name \notin eSync}
           first == Kept(InOrder(c1), alone(c1))
           start == {InitializedInterruption(c1, c2, eSync)}
           step1(f) == [r \in Model |-> [n \in eSync |-> Synchronized(r, c2, f[n])]]
           joined(f, order) == LoopOutcomes(step1(f), start, order)
           excluded(f) == UNION {Ends({f[n][1], f[n][2]}) : n \in eSync}
           step2(f, second) ==
               [r \in Model |-> [n \in eSync |->
                   Rejoined(r, f[n], c2, first, second, excluded(f))]]
           others == {t \in alone(c2) : t.source # c2.initialLocation}
           outcomes == UNION {
               LoopOutcomes(step2(f, second), joined(f, order), order)
               : f \in Pairs(c1, c2, eSync), order \in SetToSeqs(eSync),
                 second \in Orders(c2, others)}
<1>1. sync(c1, c2, eSync) = OrThrown(outcomes)
  BY DEF sync
<1>2. /\ IsFiniteSet(c1.transitions) /\ IsFiniteSet(c2.transitions)
      /\ InOrder(c1) \in Seq(Transition) /\ Range(InOrder(c1)) = c1.transitions
      /\ c2.transitions \subseteq Transition
  BY DEF Interrupting, Copied
<1>3. start \subseteq G /\ G \subseteq Outcome /\ Thrown \in G
  BY InitializedGood, GoodType
<1>4. /\ first \in Seq(Transition)
      /\ \A t \in Range(first) : t \in c1.transitions /\ t.action.name \notin eSync
  <2> HIDE DEF eSync
  <2> QED
    BY <1>2, KeptElements
<1>5. known => /\ \A t \in c1.transitions : t.action.name \notin eSync => Recoverable(d, t.action)
               /\ \A t \in others : Recoverable(d, t.action)
  BY DEF TakenOverKnown
<1>6. others \subseteq c2.transitions
  OBVIOUS
<1>7. ASSUME NEW f \in Pairs(c1, c2, eSync), NEW order \in SetToSeqs(eSync),
             NEW second \in Orders(c2, others)
      PROVE  LoopOutcomes(step2(f, second), joined(f, order), order) \subseteq G
  <2>1. \A n \in eSync : /\ IsPair(c1, c2, f[n])
                         /\ f[n][1] \in c1.transitions /\ f[n][1].action.name = n
    <3>1. \A n \in eSync :
             /\ f[n] \in Synchronizing(c1, eSync) \X Synchronizing(c2, eSync)
             /\ f[n][1] \in recoverTransition(c1.transitions, n)
      BY DEF Pairs
    <3> HIDE DEF eSync
    <3> QED
      BY <3>1 DEF IsPair, Synchronizing, recoverTransition
  <2>2. IsFiniteSet(eSync)
    <3> DEFINE name == [t \in c1.transitions |-> t.action.name]
               names == {t.action.name : t \in c1.transitions}
    <3>1. name \in Surjection(c1.transitions, names)
      BY DEF Surjection
    <3> HIDE DEF name
    <3>2. IsFiniteSet(names)
      BY <1>2, <3>1, FS_Surjection
    <3>3. eSync \in SUBSET names
      BY <2>1
    <3> HIDE DEF names
    <3> QED
      BY <3>2, <3>3, FS_Subset
  <2>3. order \in Seq(eSync) /\ Range(order) \subseteq eSync
    <3>1. order \in Seq(eSync)
      BY <2>2, OrderingIsSequence
    <3> HIDE DEF eSync
    <3> QED
      BY <3>1, FirstGrows
  <2>4. second \in Seq(Transition) /\ Range(second) \subseteq others
    <3> HIDE DEF others
    <3>1. second \in SetToSeqs(others) /\ IsFiniteSet(others)
      BY <1>2, <1>6, FS_Subset DEF Orders
    <3>2. second \in Seq(others)
      BY <3>1, OrderingIsSequence
    <3>3. others \subseteq Transition
      BY <1>2, <1>6
    <3> QED
      BY <3>2, <3>3, FirstGrows, SeqMonotonic
  <2>5. joined(f, order) \subseteq G
    <3>1. ASSUME NEW r \in G \ {Thrown}, NEW n \in Range(order)
          PROVE  step1(f)[r][n] \subseteq G
      <4>1. n \in eSync /\ r \in Model
        BY <2>3, GoodType
      <4>2. IsPair(c1, c2, f[n])
        BY <2>1, <4>1
      <4>3. Synchronized(r, c2, f[n]) \subseteq G
        BY <4>2, SynchronizedGood
      <4> HIDE DEF G, eSync
      <4> QED
        BY <4>1, <4>3
    <3> HIDE DEF G, eSync, start, step1
    <3> QED
      BY <1>3, <2>3, <3>1, LoopOutcomesStay
  <2>6. ASSUME NEW r \in G \ {Thrown}, NEW n \in Range(order)
        PROVE  step2(f, second)[r][n] \subseteq G
    <3>1. n \in eSync /\ r \in Model
      BY <2>3, GoodType
    <3>2. IsPair(c1, c2, f[n])
      BY <2>1, <3>1
    <3>3. Source(f[n]) \in Label /\ Target(f[n]) \in Label
      BY <3>2, PairType
    <3>4. known => \A t \in Range(first) \cup Range(second) : Recoverable(d, t.action)
      <4> HIDE DEF eSync, d, first, others
      <4> QED
        BY <1>4, <1>5, <2>4
    <3>5. step2(f, second)[r][n] = Rejoined(r, f[n], c2, first, second, excluded(f))
      <4> HIDE DEF eSync, G, d, first
      <4> QED
        BY <3>1
    <3> HIDE DEF eSync, A, d, first, step2, excluded
    <3>6. Rejoined(r, f[n], c2, first, second, excluded(f)) \subseteq G
      BY <1>4, <2>4, <3>3, <3>4, RejoinedGood
    <3> QED
      BY <3>5, <3>6
  <2> HIDE DEF G, eSync, step2, joined
  <2> QED
    BY <1>3, <2>3, <2>5, <2>6, LoopOutcomesStay
<1>8. outcomes \subseteq G
  <2> HIDE DEF G, eSync, step2, joined, others
  <2> QED
    BY <1>7
<1> HIDE DEF G, outcomes
<1>9. sync(c1, c2, eSync) \subseteq G
  BY <1>1, <1>3, <1>8 DEF OrThrown
<1> QED
  BY <1>9 DEF G

(* An interruption that returns gives a sound model.                       *)
LEMMA InterruptionShape ==
    ASSUME NEW m1, NEW m2, Joinable(m1, m2), NEW r \in interruptionComposition(m1, m2),
           r # Thrown
    PROVE  Sound(r) /\ r.locations \subseteq JoinedLocations(m1, m2)
<1>1. PICK c1 \in Copies(m1), c2 \in Copies(m2) : r \in sync(c1, c2, SynchronizedNames(c1, c2))
  BY DEF interruptionComposition
<1>2. Interrupting(m1, m2, c1, c2)
  BY CopySound DEF Interrupting, Joinable
<1>3. r \in Good(JoinedLocations(m1, m2), InterruptedActions(m1, m2), FALSE)
  BY <1>1, <1>2, SyncGood
<1> QED
  BY <1>3, GoodType DEF Within

\* The last call was an interruption of one model by another one.
InterruptionCalled ==
    /\ Joinable(last.first, last.second) /\ WellFormed(last.second)
    /\ result \in interruptionComposition(last.first, last.second)

(* Models that fit, whose internal actions the first one knows, are taken  *)
(* over without an undeclared action: the initial transition of the second *)
(* model, whose action is not declared, leads to where it is called, which *)
(* is left out.                                                            *)
LEMMA TakenOver ==
    ASSUME InterruptionFit, Foreign = {}, WellFormed(last.second),
           NEW c1, NEW c2, Interrupting(last.first, last.second, c1, c2)
    PROVE  TakenOverKnown(c1, c2, InterruptedActions(last.first, last.second),
                          SynchronizedNames(c1, c2))
<1> DEFINE m1 == last.first
           m2 == last.second
           d == InterruptedActions(m1, m2)
           eSync == SynchronizedNames(c1, c2)
           init == InitialOf(m2)
           next == FirstAfterInitial(m2)
<1>1. /\ Cloneable(m1) /\ Cloneable(m2) /\ isCompatibleInterruption(m1, m2)
      /\ Names(Synced(m1)) = Names(m1.transitions) \cap Names(AfterInitial(m2))
      /\ Synced(m1) = {t \in m1.transitions : t.action.name \in SynchronizedNames(m1, m2)}
      /\ Internals(AfterInitial(m2)) \subseteq m1.internalActions
  BY DEF InterruptionFit, Prepared, Foreign, Synced
<1>2. /\ Sound(m1) /\ Sound(m2) /\ WellFormed(m2) /\ Interrupting(m1, m2, c1, c2)
  BY DEF Interrupting, Joinable
<1>3. /\ next.action.type = ACTION_INPUT
      /\ recoverTransition(m2.transitions, next.action.name) = {next}
      /\ \E t \in m1.transitions : recoverTransition(m1.transitions, next.action.name) = {t}
      /\ Len(m2.out[init.target]) = 1
  <2>1. isCompatibleInterruption(m1, m2)
    BY <1>1
  <2> HIDE DEF m1, m2
  <2> QED
    BY <2>1 DEF isCompatibleInterruption, next, init, FirstAfterInitial
<1> HIDE DEF m1, m2
<1>4. /\ eSync = SynchronizedNames(m1, m2)
      /\ c2.initialLocation = m2.initialLocation
      /\ \A u \in c1.transitions : \E t \in m1.transitions : Twin(t, u)
      /\ \A u \in c2.transitions : \E t \in m2.transitions : Twin(t, u)
      /\ \A t \in m2.transitions : \E u \in c2.transitions : Twin(t, u)
  BY <1>2, InterruptingType DEF Interrupting, Copied, SameDeclarations
<1>5. /\ d.inputActions = (m1.inputActions \cup m2.inputActions) \ eSync
      /\ d.outputActions = m1.outputActions \cup m2.outputActions
      /\ d.internalActions = m1.internalActions
  BY <1>4 DEF InterruptedActions
<1> HIDE DEF d, eSync
<1>6. \A t \in m1.transitions : Recoverable(m1, t.action)
  BY <1>1 DEF Cloneable
<1>7. \A t \in m2.transitions : Recoverable(m2, t.action)
  BY <1>1 DEF Cloneable
<1>8. \A t \in c1.transitions : t.action.name \notin eSync => Recoverable(d, t.action)
  <2> SUFFICES ASSUME NEW u \in c1.transitions, u.action.name \notin eSync
               PROVE  Recoverable(d, u.action)
    OBVIOUS
  <2>1. PICK t \in m1.transitions : u.action = t.action
    BY <1>4 DEF Twin
  <2> QED
    BY <1>5, <1>6, <2>1 DEF Recoverable, NamesOfType
<1>9. ASSUME NEW t \in m2.transitions, t.action.name \notin eSync,
             t.action.type = ACTION_INTERNAL => t.source # m2.initialLocation
      PROVE  Recoverable(d, t.action)
  <2>1. Recoverable(m2, t.action)
    BY <1>7
  <2>2. t.action.type \in ActionType
    BY <1>2 DEF Sound, Model, Transition, Action
  <2>3. CASE t.action.type = ACTION_INTERNAL
    <3>1. t.action.name \in m1.internalActions
      BY <1>1, <1>9, <2>3 DEF Internals, Names, AfterInitial
    <3> QED
      BY <1>5, <2>3, <3>1
         DEF Recoverable, NamesOfType, ACTION_INPUT, ACTION_OUTPUT, ACTION_INTERNAL
  <2>4. CASE t.action.type = ACTION_INPUT \/ t.action.type = ACTION_OUTPUT
    BY <1>5, <1>9, <2>1, <2>4
       DEF Recoverable, NamesOfType, ACTION_INPUT, ACTION_OUTPUT, ACTION_INTERNAL
  <2> QED
    BY <2>2, <2>3, <2>4 DEF ActionType
<1>10. \A u \in c2.transitions :
          (u.action.name \notin eSync /\ u.source # c2.initialLocation)
              => Recoverable(d, u.action)
  <2> SUFFICES ASSUME NEW u \in c2.transitions, u.action.name \notin eSync,
                      u.source # c2.initialLocation
               PROVE  Recoverable(d, u.action)
    OBVIOUS
  <2>1. PICK t \in m2.transitions : Twin(t, u)
    BY <1>4
  <2> QED
    BY <1>4, <1>9, <2>1 DEF Twin
<1> DEFINE excluded == Ends(Synchronizing(c1, eSync) \cup Synchronizing(c2, eSync))
<1>11. ASSUME NEW u \in c2.transitions, Ends({u}) \cap excluded = {}
       PROVE  Recoverable(d, u.action)
  <2>1. u.source \notin excluded /\ u.target \notin excluded
    BY <1>11 DEF Ends
  <2>2. u.action.name \notin eSync
    BY <2>1 DEF Ends, Synchronizing
  <2>3. PICK t \in m2.transitions : Twin(t, u)
    BY <1>4
  <2>4. CASE t.action.type # ACTION_INTERNAL \/ t.source # m2.initialLocation
    BY <1>9, <2>2, <2>3, <2>4 DEF Twin
  <2>5. CASE t.action.type = ACTION_INTERNAL /\ t.source = m2.initialLocation
    <3>1. t = init /\ init \in m2.transitions
          /\ \A v \in m2.transitions : v.source = m2.initialLocation => v = init
      BY <1>2, <2>5, InitialIsListed DEF InitialOf, init
    <3>2. next \in m2.transitions
      BY <1>3 DEF recoverTransition
    <3>3. next.source = init.target
      <4>1. init.target \in m2.locations /\ m2.out[init.target] \in Seq(Transition)
        BY <1>2, <3>1, SoundConnects DEF Connects, Sound, Model
      <4>2. DOMAIN m2.out[init.target] = {1} /\ next = m2.out[init.target][1]
        BY <1>3, <4>1 DEF FirstAfterInitial, next, init
      <4>3. next \in Range(m2.out[init.target])
        BY <4>2 DEF Range
      <4> HIDE DEF next, init
      <4> QED
        BY <1>2, <4>1, <4>3 DEF Sound
    <3>4. next # init
      BY <1>3, <2>5, <3>1 DEF ACTION_INPUT, ACTION_INTERNAL
    <3>5. next \in AfterInitial(m2)
      BY <3>1, <3>2, <3>4 DEF AfterInitial
    <3>6. next.action.name \in eSync
      <4>1. PICK v \in m1.transitions : v.action.name = next.action.name
        BY <1>3 DEF recoverTransition
      <4>2. next.action.name \in Names(Synced(m1))
        BY <1>1, <3>5, <4>1 DEF Names
      <4> QED
        BY <1>1, <1>4, <4>2 DEF Names
    <3>7. PICK v \in c2.transitions : Twin(next, v)
      BY <1>4, <3>2
    <3>8. v.source \in excluded
      BY <3>6, <3>7 DEF Twin, Synchronizing, Ends
    <3>9. v.source = u.target
      BY <2>3, <3>1, <3>3, <3>7 DEF Twin
    <3> QED
      BY <2>1, <3>8, <3>9
  <2> QED
    BY <2>4, <2>5
<1> QED
  BY <1>8, <1>10, <1>11 DEF TakenOverKnown, eSync, d, m1, m2

(* What an interruption of models that fit returns can be cloned if the    *)
(* first model knows the internal actions of the second.                   *)
LEMMA InterruptionResult ==
    ASSUME InterruptionFit, Foreign = {}, InterruptionCalled, result # Thrown
    PROVE  Cloneable(result)
<1> DEFINE m1 == last.first
           m2 == last.second
<1>1. Joinable(m1, m2) /\ WellFormed(m2) /\ result \in interruptionComposition(m1, m2)
  BY DEF InterruptionCalled
<1> HIDE DEF m1, m2
<1>2. PICK c1 \in Copies(m1), c2 \in Copies(m2) :
         result \in sync(c1, c2, SynchronizedNames(c1, c2))
  BY <1>1 DEF interruptionComposition
<1>3. Interrupting(m1, m2, c1, c2)
  BY <1>1, CopySound DEF Interrupting, Joinable
<1>4. TakenOverKnown(c1, c2, InterruptedActions(m1, m2), SynchronizedNames(c1, c2))
  BY <1>1, <1>3, TakenOver DEF m1, m2
<1>5. result \in Good(JoinedLocations(m1, m2), InterruptedActions(m1, m2), TRUE)
  BY <1>2, <1>3, <1>4, SyncGood
<1> QED
  BY <1>5, GoodType DEF Within

-----------------------------------------------------------------------------
(* The inductive invariant.                                                *)

\* The last call, and that its outcome is one of its outcomes.
HideCalled ==
    /\ last.op = "hide" /\ last.name \in ActionNames(last.first)
    /\ result \in hidingOperator(last.first, last.name)

RenameCalled ==
    /\ last.op = "rename" /\ last.name \in ActionNames(last.first)
    /\ last.new \in NewNames /\ last.new # last.name
    /\ result \in renamingOperator(last.first, last.name, last.new)

LastCall ==
    /\ Sound(last.first) /\ last.first.locations \subseteq LabelsAfter[calls - 1]
    /\ \/ HideCalled
       \/ RenameCalled
       \/ last.op = "sequence" /\ SequenceCalled
       \/ last.op = "interrupt" /\ InterruptionCalled

IInv ==
    /\ calls \in 0..MaxCalls
    /\ calls = 0 => last = NoCall /\ result = EmptyTIOSTS
    /\ calls > 0 => /\ LastCall
                    /\ result # Thrown =>
                          Sound(result) /\ result.locations \subseteq LabelsAfter[calls]

(* A program starts with no call.                                          *)
LEMMA InitOK == Init => IInv
<1> SUFFICES ASSUME Init PROVE IInv
  OBVIOUS
<1>1. calls = 0 /\ last = NoCall /\ result = EmptyTIOSTS
  BY DEF Init
<1>2. calls \in 0..MaxCalls /\ ~(calls > 0)
  BY <1>1, BoundsAssumption
<1> QED
  BY <1>1, <1>2 DEF IInv

(* A call starts from a sound model, with the labels a model can have      *)
(* after the calls made so far.                                            *)
LEMMA UsableSound ==
    ASSUME IInv, NEW m \in Usable
    PROVE  Sound(m) /\ m.locations \subseteq LabelsAfter[calls]
<1>1. CASE calls = 0
  <2>1. m \in Compiled
    BY <1>1 DEF Usable
  <2>2. WellFormed(m) /\ IsFiniteSet(m.locations)
    BY <2>1, CompiledAssumption
  <2>3. Sound(m)
    BY <2>2, WellFormedSound
  <2> QED
    BY <1>1, <2>1, <2>3, LabelsAssumption
<1>2. CASE calls # 0
  <2>1. m = result /\ result # Thrown
    BY <1>2 DEF Usable
  <2>2. calls > 0
    BY <1>2, BoundsAssumption DEF IInv
  <2> QED
    BY <2>1, <2>2 DEF IInv
<1> QED
  BY <1>1, <1>2

(* The next call is counted, and labels stay.                              *)
LEMMA Counted ==
    ASSUME IInv, calls < MaxCalls, calls' = calls + 1
    PROVE  /\ calls' \in 0..MaxCalls /\ calls' > 0 /\ calls' # 0 /\ calls' - 1 = calls
           /\ LabelsAfter[calls] \subseteq LabelsAfter[calls']
           /\ LabelsAfter[calls'] \subseteq Label
           /\ \A m \in Added :
                 /\ m.locations \subseteq LabelsAfter[calls']
                 /\ \A x \in LabelsAfter[calls], y \in m.locations :
                       Range(x) \cap Parts(m) = {} => Join(x, y) \in LabelsAfter[calls']
<1>1. calls \in 0..MaxCalls /\ MaxCalls \in Nat
  BY BoundsAssumption DEF IInv
<1>2. /\ calls' \in 1..MaxCalls /\ calls' \in 0..MaxCalls /\ calls' > 0 /\ calls' # 0
      /\ calls' - 1 = calls
  BY <1>1
<1>3. \A k \in 1..MaxCalls :
         /\ LabelsAfter[k - 1] \subseteq LabelsAfter[k]
         /\ \A m \in Added :
               /\ m.locations \subseteq LabelsAfter[k]
               /\ \A x \in LabelsAfter[k - 1], y \in m.locations :
                     Range(x) \cap Parts(m) = {} => Join(x, y) \in LabelsAfter[k]
  BY LabelsAssumption
<1>4. LabelsAfter[calls'] \subseteq Label
  BY <1>2, LabelsAssumption
<1> QED
  BY <1>2, <1>3, <1>4

(* An added model can be joined with one that has no part of it.           *)
LEMMA AddedJoinable ==
    ASSUME IInv, calls < MaxCalls, calls' = calls + 1,
           NEW m1 \in Usable, NEW m2 \in Added, Apart(m1, m2)
    PROVE  /\ Joinable(m1, m2) /\ WellFormed(m2)
           /\ JoinedLocations(m1, m2) \subseteq LabelsAfter[calls']
<1>1. Sound(m1) /\ m1.locations \subseteq LabelsAfter[calls]
  BY UsableSound
<1>2. WellFormed(m2) /\ Sound(m2)
  <2>1. WellFormed(m2) /\ IsFiniteSet(m2.locations)
    BY CompiledAssumption
  <2> QED
    BY <2>1, WellFormedSound
<1>3. /\ LabelsAfter[calls] \subseteq LabelsAfter[calls']
      /\ LabelsAfter[calls'] \subseteq Label
      /\ m2.locations \subseteq LabelsAfter[calls']
      /\ \A x \in LabelsAfter[calls], y \in m2.locations :
            Range(x) \cap Parts(m2) = {} => Join(x, y) \in LabelsAfter[calls']
  BY Counted
<1>4. \A x \in m1.locations : Range(x) \cap Parts(m2) = {}
  BY DEF Apart, Parts
<1>5. \A x \in m1.locations, y \in m2.locations : Join(x, y) \in LabelsAfter[calls']
  BY <1>1, <1>3, <1>4
<1> QED
  BY <1>1, <1>2, <1>3, <1>5 DEF Joinable, JoinedLocations

(* What a call leaves to show.                                             *)
LEMMA CallKeeps ==
    ASSUME IInv, calls < MaxCalls, calls' = calls + 1, LastCall',
           result' # Thrown => Sound(result') /\ result'.locations \subseteq LabelsAfter[calls']
    PROVE  IInv'
  BY Counted DEF IInv

(* hidingOperator keeps the invariant.                                     *)
LEMMA HideKeeps ==
    ASSUME IInv, NEW m \in Usable, NEW a \in ActionNames(m), Hide(m, a)
    PROVE  IInv'
<1>1. /\ calls < MaxCalls /\ calls' = calls + 1
      /\ last' = [op |-> "hide", first |-> m, name |-> a]
      /\ result' \in hidingOperator(m, a)
  BY DEF Hide, Call
<1>2. last'.op = "hide" /\ last'.first = m /\ last'.name = a
  BY <1>1
<1>3. Sound(m) /\ m.locations \subseteq LabelsAfter[calls]
  BY UsableSound
<1>4. calls' - 1 = calls /\ LabelsAfter[calls] \subseteq LabelsAfter[calls']
  BY <1>1, Counted
<1>5. LastCall'
  BY <1>1, <1>2, <1>3, <1>4 DEF LastCall, HideCalled
<1>6. ASSUME result' # Thrown
      PROVE  Sound(result') /\ result'.locations \subseteq LabelsAfter[calls']
  <2>1. HidingOf(m, result', a)
    BY <1>1, <1>3, <1>6, HidingShape
  <2> QED
    BY <1>3, <1>4, <2>1 DEF HidingOf, AllRetyped, SameDeclarations
<1> QED
  BY <1>1, <1>5, <1>6, CallKeeps

(* renamingOperator keeps the invariant.                                   *)
LEMMA RenameKeeps ==
    ASSUME IInv, NEW m \in Usable, NEW a \in ActionNames(m), NEW b \in NewNames \ {a},
           Rename(m, a, b)
    PROVE  IInv'
<1>1. /\ calls < MaxCalls /\ calls' = calls + 1
      /\ last' = [op |-> "rename", first |-> m, name |-> a, new |-> b]
      /\ result' \in renamingOperator(m, a, b)
  BY DEF Rename, Call
<1>2. last'.op = "rename" /\ last'.first = m /\ last'.name = a /\ last'.new = b
  BY <1>1
<1>3. Sound(m) /\ m.locations \subseteq LabelsAfter[calls]
  BY UsableSound
<1>4. calls' - 1 = calls /\ LabelsAfter[calls] \subseteq LabelsAfter[calls']
  BY <1>1, Counted
<1>5. LastCall'
  BY <1>1, <1>2, <1>3, <1>4 DEF LastCall, RenameCalled
<1>6. ASSUME result' # Thrown
      PROVE  Sound(result') /\ result'.locations \subseteq LabelsAfter[calls']
  <2>1. PICK x : RenamingOf(m, result', a, b, x)
    BY <1>1, <1>3, <1>6, RenamingShape
  <2> QED
    BY <1>3, <1>4, <2>1 DEF RenamingOf, AllRetyped, SameDeclarations
<1> QED
  BY <1>1, <1>5, <1>6, CallKeeps

(* sequentialComposition keeps the invariant.                              *)
LEMMA SequenceKeeps ==
    ASSUME IInv, NEW m1 \in Usable, NEW m2 \in Added, Apart(m1, m2), Sequence(m1, m2)
    PROVE  IInv'
<1>1. /\ calls < MaxCalls /\ calls' = calls + 1
      /\ last' = [op |-> "sequence", first |-> m1, second |-> m2]
      /\ result' \in sequentialComposition(m1, m2)
  BY DEF Sequence, Call
<1>2. last'.op = "sequence" /\ last'.first = m1 /\ last'.second = m2
  BY <1>1
<1>3. Sound(m1) /\ m1.locations \subseteq LabelsAfter[calls]
  BY UsableSound
<1>4. calls' - 1 = calls
  BY <1>1, Counted
<1>5. /\ Joinable(m1, m2) /\ WellFormed(m2)
      /\ JoinedLocations(m1, m2) \subseteq LabelsAfter[calls']
  BY <1>1, AddedJoinable
<1>6. LastCall'
  BY <1>1, <1>2, <1>3, <1>4, <1>5 DEF LastCall, SequenceCalled
<1>7. ASSUME result' # Thrown
      PROVE  Sound(result') /\ result'.locations \subseteq LabelsAfter[calls']
  <2>1. Sound(result') /\ result'.locations \subseteq JoinedLocations(m1, m2)
    BY <1>1, <1>5, <1>7, SequenceShape
  <2> QED
    BY <1>5, <2>1
<1> QED
  BY <1>1, <1>6, <1>7, CallKeeps

(* interruptionComposition keeps the invariant.                            *)
LEMMA InterruptKeeps ==
    ASSUME IInv, NEW m1 \in Usable, NEW m2 \in Added, Apart(m1, m2), Interrupt(m1, m2)
    PROVE  IInv'
<1>1. /\ calls < MaxCalls /\ calls' = calls + 1
      /\ last' = [op |-> "interrupt", first |-> m1, second |-> m2]
      /\ result' \in interruptionComposition(m1, m2)
  BY DEF Interrupt, Call
<1>2. last'.op = "interrupt" /\ last'.first = m1 /\ last'.second = m2
  BY <1>1
<1>3. Sound(m1) /\ m1.locations \subseteq LabelsAfter[calls]
  BY UsableSound
<1>4. calls' - 1 = calls
  BY <1>1, Counted
<1>5. /\ Joinable(m1, m2) /\ WellFormed(m2)
      /\ JoinedLocations(m1, m2) \subseteq LabelsAfter[calls']
  BY <1>1, AddedJoinable
<1>6. LastCall'
  BY <1>1, <1>2, <1>3, <1>4, <1>5 DEF LastCall, InterruptionCalled
<1>7. ASSUME result' # Thrown
      PROVE  Sound(result') /\ result'.locations \subseteq LabelsAfter[calls']
  <2>1. Sound(result') /\ result'.locations \subseteq JoinedLocations(m1, m2)
    BY <1>1, <1>5, <1>7, InterruptionShape
  <2> QED
    BY <1>5, <2>1
<1> QED
  BY <1>1, <1>6, <1>7, CallKeeps

(* Every call keeps the invariant.                                         *)
LEMMA NextOK == IInv /\ [Next]_vars => IInv'
<1> SUFFICES ASSUME IInv, [Next]_vars PROVE IInv'
  OBVIOUS
<1>1. CASE \E m \in Usable : \E a \in ActionNames(m) : Hide(m, a)
  BY <1>1, HideKeeps
<1>2. CASE \E m \in Usable : \E a \in ActionNames(m) : \E b \in NewNames \ {a} : Rename(m, a, b)
  BY <1>2, RenameKeeps
<1>3. CASE \E m1 \in Usable, m2 \in Added : Apart(m1, m2) /\ Sequence(m1, m2)
  BY <1>3, SequenceKeeps
<1>4. CASE \E m1 \in Usable, m2 \in Added : Apart(m1, m2) /\ Interrupt(m1, m2)
  BY <1>4, InterruptKeeps
<1>5. CASE UNCHANGED vars
  BY <1>5 DEF vars, IInv, LastCall, HideCalled, RenameCalled, SequenceCalled,
             InterruptionCalled
<1> QED
  BY <1>1, <1>2, <1>3, <1>4, <1>5 DEF Next

(* The invariant always holds.                                             *)
LEMMA Invariance == Spec => []IInv
  BY InitOK, NextOK, PTL DEF Spec

-----------------------------------------------------------------------------
(* What the invariant gives.                                               *)

(* The transitions of what a call returns connect its locations.           *)
LEMMA InvType == IInv => TypeOK
<1> SUFFICES ASSUME IInv PROVE TypeOK
  OBVIOUS
<1>1. calls \in 0..MaxCalls
  BY DEF IInv
<1>2. CASE calls = 0
  <2>1. last = NoCall /\ result = EmptyTIOSTS
    BY <1>2 DEF IInv
  <2>2. result \in Model /\ OutTransitions(result) = {}
    BY <2>1, EmptySeq DEF EmptyTIOSTS, Model, OutTransitions
  <2> QED
    BY <1>1, <2>1, <2>2 DEF TypeOK
<1>3. CASE calls # 0
  <2>1. LastCall /\ (result # Thrown => Sound(result))
    BY <1>1, <1>3, BoundsAssumption DEF IInv
  <2>2. last.first \in Model
    BY <2>1 DEF LastCall, Sound
  <2>3. ASSUME result # Thrown
        PROVE  /\ result \in Model
               /\ \A t \in OutTransitions(result) :
                     {t.source, t.target} \subseteq result.locations
    <3>1. Sound(result)
      BY <2>1, <2>3
    <3> QED
      BY <3>1, SoundConnects DEF Sound, Connects
  <2> QED
    BY <1>1, <2>2, <2>3 DEF TypeOK
<1> QED
  BY <1>2, <1>3

(* What is known of a call that returned.                                  *)
LEMMA ReturnedBy ==
    ASSUME IInv, calls > 0
    PROVE  /\ Sound(last.first)
           /\ last.op = "hide" => HideCalled
           /\ last.op = "rename" => RenameCalled
           /\ last.op = "sequence" => SequenceCalled
           /\ last.op = "interrupt" => InterruptionCalled
           /\ last.op \in {"hide", "rename", "sequence", "interrupt"}
<1>1. LastCall
  BY DEF IInv
<1>2. Sound(last.first) /\ (\/ HideCalled \/ RenameCalled
                            \/ last.op = "sequence" /\ SequenceCalled
                            \/ last.op = "interrupt" /\ InterruptionCalled)
  BY <1>1 DEF LastCall
<1>3. (HideCalled => last.op = "hide") /\ (RenameCalled => last.op = "rename")
  BY DEF HideCalled, RenameCalled
<1> QED
  BY <1>2, <1>3

(* What hiding, renaming, a sequence and an interruption return can be     *)
(* cloned as ResultCloneable says.                                         *)
LEMMA InvCloneable == IInv => ResultCloneable
<1> SUFFICES ASSUME IInv PROVE ResultCloneable
  OBVIOUS
<1>1. ASSUME Returned("hide")
      PROVE  Cloneable(result)
                <=> Internals(last.first.transitions) \ {last.name} \subseteq {<<"Tau">>}
  <2>1. calls > 0 /\ last.op = "hide" /\ result # Thrown
    BY <1>1 DEF Returned
  <2>2. Sound(last.first) /\ result \in hidingOperator(last.first, last.name)
    BY <2>1, ReturnedBy DEF HideCalled
  <2>3. Cloneable(last.first) /\ HidingOf(last.first, result, last.name)
    BY <2>1, <2>2, HidingShape
  <2> QED
    BY <2>2, <2>3, HidingCloneable
<1>2. ASSUME Returned("rename")
      PROVE  Cloneable(result)
                <=> ~ (/\ last.name \in Names(last.first.transitions)
                       /\ last.name \in last.first.internalActions
                       /\ last.new \notin ActionNames(last.first))
  <2>1. calls > 0 /\ last.op = "rename" /\ result # Thrown
    BY <1>2 DEF Returned
  <2>2. /\ Sound(last.first) /\ last.name \in ActionNames(last.first)
        /\ last.new \in NewNames /\ last.new # last.name
        /\ result \in renamingOperator(last.first, last.name, last.new)
    BY <2>1, ReturnedBy DEF RenameCalled
  <2>3. Cloneable(last.first)
        /\ \E b : RenamingOf(last.first, result, last.name, last.new, b)
    BY <2>1, <2>2, RenamingShape
  <2> QED
    BY <2>2, <2>3, RenamingCloneable
<1>3. ASSUME Returned("sequence"), SequentialFit
      PROVE  Cloneable(result) <=> Foreign = {} /\ ~ReceivedAgain
  <2>1. calls > 0 /\ last.op = "sequence" /\ result # Thrown
    BY <1>3 DEF Returned
  <2>2. SequenceCalled
    BY <2>1, ReturnedBy
  <2> QED
    BY <1>3, <2>1, <2>2, SequenceResult
<1>4. ASSUME Returned("interrupt"), InterruptionFit, Foreign = {}
      PROVE  Cloneable(result)
  <2>1. calls > 0 /\ last.op = "interrupt" /\ result # Thrown
    BY <1>4 DEF Returned
  <2>2. InterruptionCalled
    BY <2>1, ReturnedBy
  <2> QED
    BY <1>4, <2>1, <2>2, InterruptionResult
<1> QED
  BY <1>1, <1>2, <1>3, <1>4 DEF ResultCloneable

(* The lists of a result and its map hold the same transitions as          *)
(* NothingMerged says.                                                     *)
LEMMA InvMerged == IInv => NothingMerged
<1> SUFFICES ASSUME IInv, calls > 0, result # Thrown, last.op # "interrupt",
                    last.op = "hide" => <<"Tau">> \notin Names(last.first.transitions),
                    last.op = "rename" => last.new \notin Names(last.first.transitions)
             PROVE  OutTransitions(result) = result.transitions
  BY DEF NothingMerged
<1>1. CASE last.op = "hide"
  <2>1. Sound(last.first) /\ result \in hidingOperator(last.first, last.name)
    BY <1>1, ReturnedBy DEF HideCalled
  <2>2. HidingOf(last.first, result, last.name)
    BY <2>1, HidingShape
  <2>3. tau.name = <<"Tau">>
    BY DEF tau
  <2> QED
    BY <1>1, <2>2, <2>3 DEF HidingOf, AllRetyped
<1>2. CASE last.op = "rename"
  <2>1. /\ Sound(last.first) /\ last.name \in ActionNames(last.first)
        /\ last.new \in NewNames
        /\ result \in renamingOperator(last.first, last.name, last.new)
    BY <1>2, ReturnedBy DEF RenameCalled
  <2>2. PICK b : RenamingOf(last.first, result, last.name, last.new, b)
    BY <2>1, RenamingShape
  <2> QED
    BY <1>2, <2>2 DEF RenamingOf, AllRetyped
<1>3. CASE last.op = "sequence"
  <2>1. /\ Joinable(last.first, last.second)
        /\ result \in sequentialComposition(last.first, last.second)
    BY <1>3, ReturnedBy DEF SequenceCalled
  <2> QED
    BY <2>1, SequenceShape
<1> QED
  BY <1>1, <1>2, <1>3, ReturnedBy

(* A sequence of models that fit throws exactly if a transition is left    *)
(* with an end that was replaced, and otherwise has the words of the two.  *)
LEMMA InvSequence == IInv => SequenceFaithful
<1> SUFFICES ASSUME IInv, CalledOn("sequence"), SequentialFit
             PROVE  /\ SequenceReturns
                    /\ result # Thrown =>
                         Words(result) =
                           Words(last.first) \cup
                           {w \in {u \o v : u \in {x \in Words(last.first) :
                                                     x # <<>> /\ Last(x) = FirstOf2.action.name},
                                           v \in WordsFrom(last.second, FirstOf2.target)} :
                               Len(w) <= MaxWord}
  BY DEF SequenceFaithful
<1>1. SequenceCalled
  BY ReturnedBy DEF CalledOn
<1> QED
  BY <1>1, SequenceThrows, SequenceWords

-----------------------------------------------------------------------------
(* The theorems.                                                           *)

(* TypeOK: every call of a composition or of hiding or renaming, in any    *)
(* order of the maps, ends with an exception or with a model whose         *)
(* transitions connect locations it has (createTransition).                *)
THEOREM TypeCorrect == Spec => []TypeOK
  BY Invariance, InvType, PTL

(* ResultCloneable: which results the next operator can clone, that is,    *)
(* when every action of a result is in the list its type selects           *)
(* (initialize of the four classes, and clone()).                          *)
THEOREM ResultsCloneable == Spec => []ResultCloneable
  BY Invariance, InvCloneable, PTL

(* NothingMerged: createTransition never replaces a transition in the map  *)
(* of a result, unless hiding or renaming gave an action another one's     *)
(* name (transitions.put in createTransition).                             *)
THEOREM ResultsKeepTransitions == Spec => []NothingMerged
  BY Invariance, InvMerged, PTL

(* SequenceFaithful: for models that satisfy isCompatible, the composition *)
(* throws if and only if a transition of one of the models is left with an *)
(* end that initialize replaced, and the result otherwise does what the    *)
(* first model does up to the composition transition and then what the     *)
(* second one does after its first input (SequentialComposition).          *)
THEOREM SequencesFaithful == Spec => []SequenceFaithful
  BY Invariance, InvSequence, PTL
=============================================================================
