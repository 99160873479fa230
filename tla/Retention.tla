------------------------------ MODULE Retention ------------------------------
(***************************************************************************)
(* The purge decision (retention.py): a function from what a destination   *)
(* lists to what it should keep and delete.  stored is the set of          *)
(* StoredBackup records [backup_id, complete, stored_at] of a listing.     *)
(*                                                                         *)
(* The delete tuple of the code is the surplus, newest first, followed by  *)
(* the stale incomplete generations in listing order; the two parts are    *)
(* separate fields here.                                                   *)
(***************************************************************************)
EXTENDS Integers, FiniteSets

\* The complete generations that sort before x in "reverse=True" order.
Newer_Ascending(x, complete) == {y \in complete : y < x}    \* reverse=True lost
Newer(x, complete) == {y \in complete : y > x}

\* complete[keep:]
Surplus_OffByOne(complete, keep) ==
    {x \in complete : Cardinality(Newer(x, complete)) + 1 >= keep}     \* [keep-1:]
Surplus_OnlyNext(complete, keep) ==                     \* [keep:keep+1]
    {x \in complete : Cardinality(Newer(x, complete)) = keep}
Surplus(complete, keep) ==
    {x \in complete : Cardinality(Newer(x, complete)) >= keep}

\* An incomplete generation nobody has touched for the grace period.
Expired_Ungraced(b, grace_hours, now) == TRUE
Expired_Strict(b, grace_hours, now) == now - b.stored_at > grace_hours
Expired(b, grace_hours, now) == now - b.stored_at >= grace_hours

select_purge(stored, keep, grace_hours, now, in_progress_id) ==
    LET complete == {b.backup_id : b \in {b \in stored : b.complete}}
        incomplete == {b \in stored : ~b.complete}
        stale == {b \in incomplete : /\ b.backup_id # in_progress_id
                                     /\ Expired(b, grace_hours, now)}
        surplus == Surplus(complete, keep)
    IN  [keep    |-> (complete \ surplus)
                        \cup {b.backup_id : b \in incomplete \ stale},
         surplus |-> surplus,
         stale   |-> {b.backup_id : b \in stale}]
=============================================================================
