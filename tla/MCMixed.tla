------------------------------- MODULE MCMixed -------------------------------
(* Instances of Orchestrator with an ssh destination.                        *)
EXTENDS DistinctIds, TLC

MCKeep == [d \in Dests |-> 1]
MCKeepTwo == [d \in Dests |-> 2]
MCKind == [d \in Dests |-> IF d = N THEN "ssh" ELSE "local"]
MCSymmetry == Permutations(Procs)
=============================================================================
