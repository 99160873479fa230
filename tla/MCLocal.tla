------------------------------- MODULE MCLocal -------------------------------
(* Instances of Orchestrator whose destinations are local directories.      *)
EXTENDS Guarantees, TLC

MCKeep == [d \in Dests |-> 1]
MCKeepTwo == [d \in Dests |-> 2]
MCKind == [d \in Dests |-> "local"]
MCSymmetry == Permutations(Procs)
=============================================================================
