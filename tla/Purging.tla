------------------------------- MODULE Purging -------------------------------
(***************************************************************************)
(* One destination that receives and purges generations in any order, and  *)
(* select_purge (retention.py) on what it lists.  Orchestrator has the     *)
(* same purge in steps that may fail; here it is all or nothing, so that   *)
(* the decision itself can be looked at on every listing.                  *)
(***************************************************************************)
EXTENDS Retention

CONSTANTS
    PurgeIds,   \* backup_ids, in lexicographic order
    PurgeKeep,  \* keep of the destination
    PurgeGrace, \* incomplete_grace_hours
    MaxNow,     \* bound: the last hour
    MaxListed   \* bound: directories at the destination

ASSUME PurgingAssumption ==
    /\ PurgeIds \subseteq Nat /\ PurgeKeep \in Nat \ {0} /\ PurgeGrace \in Nat
    /\ MaxNow \in Nat /\ MaxListed \in Nat

VARIABLES listing, now       \* the StoredBackups of the destination; the time
vars == <<listing, now>>

\* in_progress_id: the id of the run that purges, none for the purge command.
InProgress == PurgeIds \cup {-1}

Plan(stored, in_progress_id) == select_purge(stored, PurgeKeep, PurgeGrace, now, in_progress_id)

Init == listing = {} /\ now = 0

\* A directory appears, complete or not.  An id is listed as complete once, but
\* what a crash left of it, final directory and partial, may be there as well.
Arrive ==
    \E x \in PurgeIds, complete \in BOOLEAN :
       /\ Cardinality(listing) < MaxListed
       /\ complete => \A b \in listing : ~(b.backup_id = x /\ b.complete)
       /\ listing' = listing \cup {[backup_id |-> x, complete |-> complete, stored_at |-> now]}
       /\ UNCHANGED now

Hour == now < MaxNow /\ now' = now + 1 /\ UNCHANGED listing

\* delete() takes whatever is there under an id.
Purged(x) ==
    LET plan == Plan(listing, x)
    IN  {b \in listing : b.backup_id \notin plan.surplus \cup plan.stale}

Purge == \E x \in InProgress : listing' = Purged(x) /\ UNCHANGED now

Next == Arrive \/ Hour \/ Purge
Spec == Init /\ [][Next]_vars

-----------------------------------------------------------------------------
\* A purge settles a destination: a second one at the same time has nothing to
\* delete, and the newest keep complete generations have survived the first,
\* unless one had a stale incomplete twin, which goes under the same id.
PurgeSettles ==
    \A x \in InProgress :
       LET stale == Plan(listing, x).stale
           again == Plan(Purged(x), x)
           complete == {b \in listing : b.complete}
           survivors == {b \in Purged(x) : b.complete}
       IN  /\ again.surplus \cup again.stale = {}
           /\ \/ \E b \in complete : b.backup_id \in stale
              \/ survivors = complete /\ Cardinality(complete) < PurgeKeep
              \/ /\ Cardinality(survivors) = PurgeKeep
                 /\ \A b \in survivors, c \in complete \ survivors : b.backup_id > c.backup_id
==============================================================================
