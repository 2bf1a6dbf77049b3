--------------------------- MODULE ParallelProduct ---------------------------
(***************************************************************************)
(* What a caller of parallel composition is promised, whatever the order   *)
(* in which the two models are walked.  A composition starts with one      *)
(* initial transition, grows by moves of pairs of locations it has         *)
(* reached, in any order, and is returned only when every move of every    *)
(* reached pair is in it.                                                  *)
(***************************************************************************)
EXTENDS ParallelMoves

CONSTANT Pairs   \* the pairs of models a caller may ask to compose

VARIABLES request,   \* the pair being composed, or composed last
          composed,  \* the transitions of the composition
          phase      \* "idle", "composing", "done" or "refused"

vars == <<request, composed, phase>>

-----------------------------------------------------------------------------
Init ==
    /\ request = <<EmptyTIOSTS, EmptyTIOSTS>>
    /\ composed = {}
    /\ phase = "idle"

Begin(p) ==
    /\ phase # "composing"
    /\ Disjoint(p[1], p[2])
    /\ request' = p
    /\ composed' = {InitialMove(p[1], p[2])}
    /\ phase' = "composing"

Refuse(p) ==
    /\ phase # "composing"
    /\ ~Disjoint(p[1], p[2])
    /\ request' = p
    /\ composed' = {}
    /\ phase' = "refused"

Extend ==
    /\ phase = "composing"
    /\ \E p \in ReachedPairs(request[1], request[2], composed) :
       \E t \in Moves(request[1], request[2], p[1], p[2]) :
          composed' = composed \cup {t}
    /\ UNCHANGED <<request, phase>>

Finish ==
    /\ phase = "composing"
    /\ Closed(request[1], request[2], composed)
    /\ phase' = "done"
    /\ UNCHANGED <<request, composed>>

Next ==
    \/ \E p \in Pairs : Begin(p) \/ Refuse(p)
    \/ Extend
    \/ Finish

Spec == Init /\ [][Next]_vars
=============================================================================
