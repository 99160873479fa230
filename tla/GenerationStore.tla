--------------------------- MODULE GenerationStore ---------------------------
(***************************************************************************)
(* What the destinations promise: sets of generations.  A generation is    *)
(* committed as a whole, and it goes only while the destination holds keep *)
(* newer ones (docs/design.md, "Placement protocol" and "Retention").      *)
(***************************************************************************)
EXTENDS Integers, FiniteSets

CONSTANTS Dests, Ids, Keep

VARIABLE held       \* the generations each destination holds

Init == held = [d \in Dests |-> {}]

Commit(d, x) ==
    held' = [held EXCEPT ![d] = @ \cup {x}]

Expire(d, x) ==
    /\ Cardinality({y \in held[d] : y > x}) >= Keep[d]
    /\ held' = [held EXCEPT ![d] = @ \ {x}]

Next == \E d \in Dests, x \in Ids : Commit(d, x) \/ Expire(d, x)

Spec == Init /\ [][Next]_held
=============================================================================
