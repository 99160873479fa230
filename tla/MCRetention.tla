----------------------------- MODULE MCRetention -----------------------------
(***************************************************************************)
(* select_purge on every listing in range.  The lists of PurgeLists are    *)
(* arranged without recursion; on short lists TLC compares them with the   *)
(* recursive operators of the standard modules.                            *)
(***************************************************************************)
EXTENDS PurgeLists

ASSUME ListsAreStandard ==
    \A n \in 0 .. 3 :
       \A s \in [1 .. n -> [backup_id : 0 .. 2, complete : BOOLEAN]] :
          /\ Filter(s, {i \in DOMAIN s : s[i].complete}) = SelectSeq(s, LAMBDA b : b.complete)
          /\ IdsOf(Sorted(s)) = SortSeq(IdsOf(s), >)
=============================================================================
