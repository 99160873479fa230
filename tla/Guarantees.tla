------------------------------ MODULE Guarantees ------------------------------
(***************************************************************************)
(* What the pipelines of Orchestrator guarantee to the operator.           *)
(***************************************************************************)
EXTENDS Orchestrator

\* The variables stay in their types.
TypeOK ==
    /\ clock \in Times
    /\ lock \in Procs \cup {NoProc}
    /\ work \in [Ids -> DirStates]
    /\ pc \in [Procs -> Places]
    /\ job \in [Procs -> Jobs]
    /\ faults \in 0 .. MaxFaults
    /\ disk \in [Dests -> [Names -> DirStates]]
    /\ mtime \in [Dests -> [Names -> Times]]

Local == {d \in Dests : Kind[d] = "local"}

\* The generations a destination holds completely.
Held(d) == {x \in Ids : disk[d][x] = "whole"}

\* While a run copies, its source in work_dir is complete, and what it is about
\* to rename is complete: no other invocation cleans the work_dir, purges the
\* partial or writes to it (acquire_lock, in_progress_id).
StoreInProgress ==
    \A p \in Procs :
       /\ pc[p] \in Storing => work[job[p].id] = "whole"
       /\ pc[p] = "commit" =>
             \A d \in Dests : Current(p, d) => disk[d][Partial(job[p].id)] = "whole"

\* Of the generations a destination lists as complete, the newest keep are: no
\* data file is missing, whatever was interrupted (commit protocol of store(),
\* order of select_purge).  At a local destination this needs no assumption; for
\* those over ssh see DistinctIds.
Intact(d) ==
    LET complete == {b.backup_id : b \in {b \in list_backups(d) : b.complete}}
    IN  \A n \in complete :
           Cardinality({m \in complete : m > n}) < Keep[d] => disk[d][n] = "whole"
NewestIntact == \A d \in Local : Intact(d)

\* When a run reports a local destination as stored, the generation is held
\* there, or retention has already replaced it by keep newer ones; and when it
\* reports that all destinations failed, the copy in work_dir is complete
\* (_finish).
Safe(d, x) == x \in Held(d) \/ Cardinality({y \in Held(d) : y > x}) >= Keep[d]

\* The destinations that the exit code of a run claims to hold its generation.
Claimed(j) ==
    CASE j.code \in {"SUCCESS", "PURGE_FAILED"}  -> Dests
      [] j.code = "PARTIAL_DESTINATION_FAILURE" -> j.stored
      [] OTHER                                  -> {}

ReportTruthful ==
    \A p \in Procs : pc[p] = "exit" /\ job[p].cmd = "run" =>
       /\ \A d \in Claimed(job[p]) \cap Local : Safe(d, job[p].id)
       /\ job[p].code = "ALL_DESTINATIONS_FAILED" => work[job[p].id] = "whole"

\* Where a purge ends without an error, the policy is established: at most keep
\* complete generations are left, and at a local destination no incomplete one
\* is over the grace period unless it is the one in progress (docs/design.md,
\* "Retention"; for ssh see DamagedPurged).  Over ssh this is as long as no mv
\* outlives its ssh: one that happens between the list and the rm of a purge
\* takes a generation out of its way.
Complete(d, n) == n \in Ids /\ HasMeta(disk[d][n])

KeepEstablished(p, d) ==
    Cardinality({n \in Names : Complete(d, n)}) <= Keep[d]
Tidy(p, d, n) ==
    disk[d][n] # "none" /\ ~Complete(d, n) /\ job[p].now - mtime[d][n] >= Grace
       => job[p].cmd = "run" /\ n \in Victims(job[p].id)
AfterPurge(p, d) == pc[p] = "exit" /\ ~job[p].err /\ ~job[p].dry /\ d \in job[p].purged

PurgeConverges ==
    \A p \in Procs, d \in Dests : AfterPurge(p, d) =>
       KeepEstablished(p, d) /\ (d \in Local => \A n \in Names : Tidy(p, d, n))

\* At a local destination a partial generation goes only by its commit, by the
\* run that writes it, or when nobody writes it and it, or a damaged directory
\* with the same id, is over the grace period (select_purge, delete).  A purge
\* that has found both so may take what its own first delete() left of them.
PartialGoes(d, x) ==
    \/ disk'[d][x] = "whole"
    \/ \E p \in Procs : pc[p] = "begin" /\ job[p].id = x
    \/ \E p \in Procs : pc[p] = "delete" /\ x \in job[p].tried
    \/ /\ \A p \in Procs : ~(pc[p] \in Storing /\ job[p].id = x)
       /\ \E n \in Victims(x) : disk[d][n] # "none" /\ clock - mtime[d][n] >= Grace
PartialProtected ==
    [][\A d \in Local, x \in Ids :
          disk[d][Partial(x)] # "none" /\ disk'[d][Partial(x)] = "none" => PartialGoes(d, x)]_vars

\* SUCCESS of a run: every destination has been purged, and what it holds is what
\* the policy asks for (_purge_one_destination, _finish).
SuccessMeansPurged ==
    \A p \in Procs : pc[p] = "exit" /\ job[p].cmd = "run" /\ job[p].code = "SUCCESS" =>
       \A d \in Dests :
          /\ KeepEstablished(p, d)
          /\ d \in Local => \A n \in Names : Tidy(p, d, n)

\* The local destinations implement the abstract store of generations: what is
\* held appears as a whole, and goes only while keep newer generations are held.
Store == INSTANCE GenerationStore WITH Dests <- Local, held <- [d \in Local |-> Held(d)]
RefinesStore == Store!Spec

-----------------------------------------------------------------------------
(* Statements of the documentation that the code does not keep             *)

\* docs/design.md: a generation is complete if and only if its directory does
\* not end in ".partial" and contains meta.json (list_backups).
CompletenessCheck ==
    \A d \in Dests : \A b \in list_backups(d) :
       b.complete <=> Complete(d, b.backup_id)

\* docs/design.md: a generation that misses its meta.json is incomplete, and goes
\* once the grace period has passed (list_backups).
DamagedPurged ==
    \A p \in Procs, d \in Dests : AfterPurge(p, d) => \A x \in Ids : Tidy(p, d, x)

\* docs/exit-codes.md: after ALL_DESTINATIONS_FAILED the work_dir is the only
\* copy and is not deleted (_cleanup_stale_work_dir).
OnlyCopyPreserved ==
    \A p \in Procs, x \in Ids :
       [](pc[p] = "exit" /\ job[p].id = x /\ job[p].code = "ALL_DESTINATIONS_FAILED"
             => [](work[x] = "whole" \/ \E d \in Dests : x \in Held(d)))

\* docs/exit-codes.md: SUCCESS is "stored at every destination".
SuccessMeansStored ==
    \A p \in Procs : pc[p] = "exit" /\ job[p].cmd = "run" /\ job[p].code = "SUCCESS" =>
       \A d \in Dests : job[p].id \in Held(d)

\* docs/exit-codes.md: PURGE_FAILED is what a run ends with when it has stored
\* everywhere and cannot list a destination (_purge_one_destination).
PurgeFailureReported ==
    \A p \in Procs :
       pc[p] = "exit" /\ job[p].stored = Dests => job[p].code \in {"SUCCESS", "PURGE_FAILED"}

\* docs/configuration.md: post_run runs "always, at the very end" (_finish).
PostRunAlways ==
    \A p \in Procs : pc[p] = "exit" /\ job[p].cmd = "run" => job[p].notified
=============================================================================
