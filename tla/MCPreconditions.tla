--------------------------- MODULE MCPreconditions ---------------------------
(* Instances of Preconditions: overlapping checks are interchangeable.       *)
EXTENDS Preconditions, TLC

MCSymmetry == Permutations(Checks)
=============================================================================
