------------------------------ MODULE Manifest ------------------------------
(***************************************************************************)
(* Names and manifests of backup generations (manifest.py).                *)
(*                                                                         *)
(* A backup_id is "<prefix>-<UTC timestamp>"; every use the code makes of  *)
(* it is a comparison of names.  A directory name is therefore its rank in *)
(* lexicographic order: even ranks are backup_ids, and the odd rank after  *)
(* an id is "<id>.partial", which sorts right behind "<id>" and before     *)
(* every other id.                                                         *)
(***************************************************************************)
EXTENDS Integers, FiniteSets

CONSTANTS
    Prefixes,   \* ranks of the name_prefix values the operator configures
    MaxClock    \* bound: the last instant of the UTC clock

ASSUME ManifestAssumption ==
    /\ Prefixes \subseteq Nat
    /\ Prefixes # {} /\ IsFiniteSet(Prefixes)
    /\ MaxClock \in Nat

Times == 0 .. MaxClock

\* "{prefix}-{timestamp}": ordered by prefix first, and by time within one
\* prefix, because the timestamp has a fixed width.
generate_backup_id(prefix, now) == 2 * (prefix * (MaxClock + 1) + now)

Ids == {generate_backup_id(prefix, t) : prefix \in Prefixes, t \in Times}

Partial(x) == x + 1                 \* the name "<id>.partial"
Names == Ids \cup {Partial(x) : x \in Ids}
NoId == -1                          \* None

\* What a generation directory holds: nothing at all, some of the data files,
\* all of them, all of them and meta.json, or meta.json without all the data
\* (what an interrupted removal can leave behind).
DirStates == {"none", "some", "full", "whole", "husk"}
HasMeta(s) == s \in {"whole", "husk"}
=============================================================================
