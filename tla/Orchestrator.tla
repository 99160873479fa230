----------------------------- MODULE Orchestrator -----------------------------
(***************************************************************************)
(* The run and purge pipelines (orchestrator.py) as processes that         *)
(* interleave: mbkeeper invocations started by cron, a systemd timer or an *)
(* operator on one node, over one lock file, one work_dir and the          *)
(* destinations.                                                           *)
(*                                                                         *)
(* The control state pc[p] names the next call of invocation p.  What can  *)
(* go wrong in the environment (a failed copy, a lost reply, an OSError, a *)
(* kill) is an action of its own, or a disjunct, and spends one of the     *)
(* MaxFaults faults of a behaviour.                                        *)
(*                                                                         *)
(* One assumption is made here: a remote mv or rm whose ssh is killed      *)
(* happens before that ssh is given up, or never.  DistinctIds adds those  *)
(* that happen later, and so does RemoteStore.                             *)
(***************************************************************************)
EXTENDS Destination

CONSTANTS
    Procs, NoProc,  \* slots for invocations that may run at the same time
    Keep,           \* keep of each destination
    Grace,          \* retention.incomplete_grace_hours
    Policies,       \* transfer.on_destination_failure values an operator uses
    ClockSteps,     \* TRUE: the clock may be set back (NTP, operator)
    MaxFaults       \* bound: faults in one behaviour

ASSUME OrchestratorAssumption ==
    /\ NoProc \notin Procs
    /\ Keep \in [Dests -> Nat \ {0}]
    /\ Grace \in Nat
    /\ Policies \subseteq {"continue", "abort"}
    /\ ClockSteps \in BOOLEAN
    /\ MaxFaults \in Nat

VARIABLES
    clock,      \* datetime.now(timezone.utc)
    lock,       \* who holds the flock on lock.file
    work,       \* what work_dir/<id> holds
    pc, job,    \* where each invocation is, and its local state
    faults      \* faults so far

vars == <<clock, lock, work, pc, job, faults, disk, mtime>>

Codes == {"SUCCESS", "INTERNAL_ERROR", "LOCKED", "PRECONDITION_FAILED",
          "BACKUP_FAILED", "ALL_DESTINATIONS_FAILED",
          "PARTIAL_DESTINATION_FAILURE", "PURGE_FAILED"}

\* Where an invocation is.  "exit" is the return to cli.main().
Storing == {"store", "begin", "copy", "copymeta", "commit"}
Inside == {"precondition", "cleanup", "backup", "meta", "decide", "purge", "delete", "finish"}
            \cup Storing
Places == {"idle", "lock", "exit"} \cup Inside

Jobs == [cmd : {"run", "purge"}, id : Ids, now : Times, policy : {"continue", "abort"},
         dry : BOOLEAN,
         stamp : Times,             \* when write_meta last touched work_dir/<id>
         todo : SUBSET Dests,       \* destinations the current loop has left
         stored : SUBSET Dests,     \* outcomes of the store loop
         failed : SUBSET Dests,
         purged : SUBSET Dests,     \* destinations the purge loop is done with
         kept : SUBSET Names,       \* the plan for the destination being purged
         surplus : SUBSET Names,
         stale : SUBSET Names,
         tried : SUBSET Names,      \* stale ids with a second delete() to come
         err : BOOLEAN,             \* had_error
         code : Codes,
         notified : BOOLEAN]        \* post_run was run

NoJob == [cmd |-> "purge", id |-> generate_backup_id(CHOOSE x \in Prefixes : TRUE, 0),
          now |-> 0, policy |-> "continue", dry |-> FALSE, stamp |-> 0,
          todo |-> {}, stored |-> {}, failed |-> {}, purged |-> {},
          kept |-> {}, surplus |-> {}, stale |-> {}, tried |-> {},
          err |-> FALSE, code |-> "SUCCESS", notified |-> FALSE]

Init ==
    /\ clock = 0
    /\ lock = NoProc
    /\ work = [x \in Ids |-> "none"]
    /\ pc = [p \in Procs |-> "idle"]
    /\ job = [p \in Procs |-> NoJob]
    /\ faults = 0
    /\ disk = [d \in Dests |-> [n \in Names |-> "none"]]
    /\ mtime = [d \in Dests |-> [n \in Names |-> 0]]

-----------------------------------------------------------------------------
(* Building blocks of the actions                                          *)

\* Invocation p goes on to `place` with local state j.
Go(p, place, j) ==
    /\ pc' = [pc EXCEPT ![p] = place]
    /\ job' = [job EXCEPT ![p] = j]

\* An exception that reaches cli.main(), or the end of purge().
Raise(p, code) == Go(p, "exit", [job[p] EXCEPT !.code = code])

Fault == faults < MaxFaults /\ faults' = faults + 1
NoFault == UNCHANGED faults

\* The destination a loop over config.destinations is at.
Current(p, d) == d \in job[p].todo /\ \A e \in job[p].todo : d <= e
Left(j, d) == j.todo \ {d}

-----------------------------------------------------------------------------
(* The environment                                                         *)

Tick ==
    /\ clock < MaxClock
    /\ clock' = clock + 1
    /\ UNCHANGED <<lock, work, pc, job, faults, disks>>

\* Setting the clock back is one fault, however far it goes.
StepBack ==
    /\ ClockSteps /\ Fault
    /\ \E t \in 0 .. clock - 1 : clock' = t
    /\ UNCHANGED <<lock, work, pc, job, disks>>

\* The process is killed or the node restarts; the kernel drops the flock.
Crash(p) ==
    /\ pc[p] # "idle" /\ Fault
    /\ Go(p, "idle", NoJob)
    /\ lock' = IF lock = p THEN NoProc ELSE lock
    /\ UNCHANGED <<clock, work, disks>>

-----------------------------------------------------------------------------
(* cli.main(): an invocation begins, and takes the lock or not             *)

\* `mbkeeper run`.  now is read before the lock is tried.
StartRun(p) ==
    /\ pc[p] = "idle"
    /\ \E prefix \in Prefixes, policy \in Policies :
          Go(p, "lock", [NoJob EXCEPT !.cmd = "run", !.policy = policy, !.now = clock,
                                      !.id = generate_backup_id(prefix, clock)])
    /\ UNCHANGED <<clock, lock, work, faults, disks>>

\* `mbkeeper purge [--destination NAME]... [--dry-run]`.
StartPurge(p) ==
    /\ pc[p] = "idle"
    /\ \E targets \in SUBSET Dests, dry \in BOOLEAN :
          Go(p, "lock", [NoJob EXCEPT !.now = clock, !.todo = targets, !.dry = dry])
    /\ UNCHANGED <<clock, lock, work, faults, disks>>

\* flock(LOCK_EX | LOCK_NB) succeeds.
LockFree_Always == TRUE                     \* flock not exclusive
LockFree == lock = NoProc

Acquire(p) ==
    /\ pc[p] = "lock" /\ LockFree
    /\ lock' = p
    /\ Go(p, IF job[p].cmd = "run" THEN "precondition" ELSE "purge", job[p])
    /\ UNCHANGED <<clock, work, faults, disks>>

Locked(p) ==
    /\ pc[p] = "lock" /\ ~LockFree
    /\ Raise(p, "LOCKED")
    /\ UNCHANGED <<clock, lock, work, faults, disks>>

\* The with block is left and main() returns the exit code.  LOCK_UN on a
\* descriptor that never got the lock changes nothing.
Unlock(p) == IF lock = p THEN NoProc ELSE lock

Exit(p) ==
    /\ pc[p] = "exit"
    /\ Go(p, "idle", NoJob)
    /\ lock' = Unlock(p)
    /\ UNCHANGED <<clock, work, faults, disks>>

\* An exception that no handler of the pipeline expects: an OSError when the
\* lock file is opened, from mkdir and iterdir of work_dir, the log file of
\* mariabackup, meta.json, and the stat calls of a local destination outside its
\* try blocks; output of ssh or rsync that is not text; or one of the exceptions
\* run_hook lets through, in any hook.
BeforeHook(p) ==
    \/ pc[p] \in {"precondition", "finish"}                    \* pre_backup, post_run
    \/ pc[p] = "store" /\ job[p].todo = Dests                  \* post_backup
    \/ pc[p] = "purge" /\ job[p].cmd = "run" /\ job[p].purged = {}  \* pre_purge

Unexpected(p) ==
    /\ \/ pc[p] \in {"lock", "cleanup", "backup", "meta"}
       \/ BeforeHook(p)
       \/ /\ pc[p] \in {"store", "purge", "delete"}
          /\ \E d \in Dests : Current(p, d)
       \/ /\ pc[p] \in Storing
          /\ \E d \in Dests : Current(p, d) /\ Kind[d] = "ssh"
    /\ Fault
    /\ Raise(p, "INTERNAL_ERROR")
    /\ UNCHANGED <<clock, lock, work, disks>>

-----------------------------------------------------------------------------
(* run(): before the store                                                 *)

\* Replication requirement and the fail-fast pre_backup hook.
Precondition(p) ==
    /\ pc[p] = "precondition"
    /\ \/ Go(p, "cleanup", job[p])
       \/ Raise(p, "PRECONDITION_FAILED")
    /\ UNCHANGED <<clock, lock, work, faults, disks>>

\* _cleanup_stale_work_dir, then mkdir(exist_ok=True).  rmtree ignores errors,
\* so one entry x may survive, whole or in part.
CleanWork(p) ==
    /\ pc[p] = "cleanup"
    /\ LET Cleaned(x, rest) == [y \in Ids |-> IF y = x THEN rest
                                              ELSE IF y # job[p].id THEN "none"
                                              ELSE IF work[y] = "none" THEN "some" ELSE work[y]]
       IN  \/ work' = Cleaned(NoId, "none") /\ NoFault
           \/ /\ Fault
              /\ \E x \in Ids \ {job[p].id} : \E rest \in Remains(work[x]) \ {"none"} :
                    work' = Cleaned(x, rest)
    /\ Go(p, "backup", job[p])
    /\ UNCHANGED <<clock, lock, disks>>

\* run_backup and run_prepare.  A BackupError is reported through _finish and
\* leaves what mariabackup wrote.
Backup(p) ==
    /\ pc[p] = "backup"
    /\ \/ /\ work' = [work EXCEPT ![job[p].id] = IF HasMeta(@) THEN "whole" ELSE "full"]
          /\ Go(p, "meta", job[p])
       \/ /\ UNCHANGED work
          /\ Go(p, "finish", [job[p] EXCEPT !.code = "BACKUP_FAILED"])
    /\ UNCHANGED <<clock, lock, faults, disks>>

\* write_meta puts a meta.json beside what work_dir/<id> holds; the post_backup
\* hook cannot fail a run.
WriteMeta(p) ==
    /\ pc[p] = "meta"
    /\ work' = [work EXCEPT ![job[p].id] = IF @ \in {"full", "whole"} THEN "whole" ELSE "husk"]
    /\ Go(p, "store", [job[p] EXCEPT !.todo = Dests, !.stamp = clock])
    /\ UNCHANGED <<clock, lock, faults, disks>>

-----------------------------------------------------------------------------
(* run(): _store_to_destinations, one call of Destination.store at a time  *)

\* A store has ended.  Under the "abort" policy a failure ends the loop.
Stored(p, d) ==
    Go(p, "store", [job[p] EXCEPT !.todo = Left(job[p], d), !.stored = @ \cup {d}])
Failed(p, d) ==
    Go(p, "store", [job[p] EXCEPT !.todo = IF job[p].policy = "abort" THEN {} ELSE Left(job[p], d),
                                  !.failed = @ \cup {d}])

\* The test for meta.json.  Over ssh a lost connection looks like "absent".
StoreCheck(p, d) ==
    /\ pc[p] = "store" /\ Current(p, d)
    /\ \/ AlreadyStored(d, job[p].id) /\ Stored(p, d) /\ NoFault
       \/ ~AlreadyStored(d, job[p].id) /\ Go(p, "begin", job[p]) /\ NoFault
       \/ AlreadyStored(d, job[p].id) /\ Kind[d] = "ssh" /\ Go(p, "begin", job[p]) /\ Fault
    /\ UNCHANGED <<clock, lock, work, disks>>

StoreBegin(p, d) ==
    /\ pc[p] = "begin" /\ Current(p, d)
    /\ BeginCopy(d, job[p].id, clock)
    /\ Go(p, "copy", job[p])
    /\ UNCHANGED <<clock, lock, work, faults>>

StoreCopy(p, d) ==
    /\ pc[p] = "copy" /\ Current(p, d)
    /\ work[job[p].id] = "whole"
    /\ FinishCopy(d, job[p].id, job[p].stamp)
    /\ Go(p, "copymeta", job[p])
    /\ UNCHANGED <<clock, lock, work, faults>>

StoreMeta(p, d) ==
    /\ pc[p] = "copymeta" /\ Current(p, d)
    /\ work[job[p].id] = "whole"
    /\ CopyMeta(d, job[p].id, clock)
    /\ Go(p, "commit", job[p])
    /\ UNCHANGED <<clock, lock, work, faults>>

StoreCommit(p, d) ==
    /\ pc[p] = "commit" /\ Current(p, d)
    /\ CanRename(d, job[p].id)
    /\ Rename(d, job[p].id, clock)
    /\ Stored(p, d)
    /\ UNCHANGED <<clock, lock, work, faults>>

\* A DestinationError: the exists test times out, a copy fails or retries run
\* out, rename() is refused, or the reply to a remote mv is lost, be it carried
\* out or not.
StoreFail(p, d) ==
    /\ pc[p] \in Storing /\ Current(p, d)
    /\ \/ UNCHANGED disks /\ Fault /\ (pc[p] = "store" => Kind[d] = "ssh")
       \/ pc[p] = "begin" /\ BeginInterrupted(d, job[p].id, clock) /\ Fault
       \/ pc[p] = "commit" /\ Kind[d] = "local" /\ disk[d][job[p].id] # "none"
            /\ UNCHANGED disks /\ NoFault
       \/ pc[p] = "commit" /\ Kind[d] = "ssh" /\ Rename(d, job[p].id, clock) /\ Fault
    /\ Failed(p, d)
    /\ UNCHANGED <<clock, lock, work>>

\* The loop is over.  With every destination failed the work_dir is kept;
\* otherwise it is removed, errors ignored, and only the destinations that
\* received this generation are purged.
PurgeTargets_All(j) == Dests                \* failed destinations too
PurgeTargets(j) == j.stored

StoresDone(p) ==
    /\ pc[p] = "store" /\ job[p].todo = {}
    /\ Go(p, "decide", job[p])
    /\ UNCHANGED <<clock, lock, work, faults, disks>>

Decide(p) ==
    /\ pc[p] = "decide"
    /\ \/ /\ job[p].failed # {} /\ job[p].stored = {}
          /\ Go(p, "finish", [job[p] EXCEPT !.code = "ALL_DESTINATIONS_FAILED"])
          /\ UNCHANGED <<work, faults>>
       \/ /\ ~(job[p].failed # {} /\ job[p].stored = {})
          /\ \E rest \in Remains(work[job[p].id]) :
                /\ work' = [work EXCEPT ![job[p].id] = rest]
                /\ IF rest = "none" THEN NoFault ELSE Fault
          /\ Go(p, "purge", [job[p] EXCEPT !.todo = PurgeTargets(job[p])])
    /\ UNCHANGED <<clock, lock, disks>>

-----------------------------------------------------------------------------
(* _purge_one_destination, for run() and for purge()                       *)

\* The plan of d is carried out, or there is no plan: on to the next one.
Purged(p, d, j) ==
    Go(p, "purge", [j EXCEPT !.todo = Left(j, d), !.purged = @ \cup {d},
                             !.kept = {}, !.surplus = {}, !.stale = {}, !.tried = {}])

InProgress(j) == IF j.cmd = "run" THEN j.id ELSE NoId

List(p, d) ==
    /\ pc[p] = "purge" /\ Current(p, d)
    /\ LET plan == select_purge(list_backups(d), Keep[d], Grace, job[p].now, InProgress(job[p]))
       IN  IF job[p].dry \/ plan.surplus \cup plan.stale = {}
           THEN Purged(p, d, job[p])
           ELSE Go(p, "delete", [job[p] EXCEPT !.kept = plan.keep, !.surplus = plan.surplus,
                                               !.stale = plan.stale])
    /\ UNCHANGED <<clock, lock, work, faults, disks>>

\* list_backups raised a DestinationError: no plan for d, and had_error.
ListFail(p, d) ==
    /\ pc[p] = "purge" /\ Current(p, d)
    /\ Fault
    /\ Go(p, "purge", [job[p] EXCEPT !.todo = Left(job[p], d), !.err = TRUE])
    /\ UNCHANGED <<clock, lock, work, disks>>

\* plan.delete: the surplus, newest first, then the stale in listing order.
NextToDelete(j, b) ==
    \/ b \in j.surplus /\ \A c \in j.surplus : c <= b
    \/ j.surplus = {} /\ b \in j.stale

\* local lists "<id>" without a meta.json and "<id>.partial" as two incomplete
\* generations of one id.  With both over the grace period plan.delete has the id
\* twice; up to the first of its delete() calls nothing about them changes.
Twice(d, b, j) ==
    /\ Kind[d] = "local" /\ b \notin j.tried
    /\ \A n \in Victims(b) : disk[d][n] # "none" /\ j.now - mtime[d][n] >= Grace

\* What is left of the plan when b has been tried.  One id may be in both parts;
\* it is tried in both then.
Rest(d, b, j) ==
    IF j.surplus # {} THEN [j EXCEPT !.surplus = @ \ {b}]
    ELSE IF Twice(d, b, j) THEN [j EXCEPT !.tried = @ \cup {b}]
    ELSE [j EXCEPT !.stale = @ \ {b}, !.tried = @ \ {b}]

Deleted(p, d, b, j) ==
    LET rest == Rest(d, b, j)
    IN  IF rest.surplus \cup rest.stale = {} THEN Purged(p, d, rest)
                                             ELSE Go(p, "delete", rest)

DeleteOne(p, d, b) ==
    /\ pc[p] = "delete" /\ Current(p, d) /\ NextToDelete(job[p], b)
    /\ Delete(d, b)
    /\ Deleted(p, d, b, job[p])
    /\ UNCHANGED <<clock, lock, work, faults>>

\* A DestinationError from delete(), with all, some or nothing removed: logged,
\* and the loop goes on.
DeleteFail(p, d, b) ==
    /\ pc[p] = "delete" /\ Current(p, d) /\ NextToDelete(job[p], b)
    /\ Fault
    /\ DeleteInterrupted(d, b, clock)
    /\ Deleted(p, d, b, [job[p] EXCEPT !.err = TRUE])
    /\ UNCHANGED <<clock, lock, work>>

-----------------------------------------------------------------------------
(* The end of run() and of purge()                                         *)

ExitCode_Unnamed(j) == IF j.failed # {} THEN "DESTINATION_FAILED" ELSE "SUCCESS"
ExitCode_NoError(j) == IF j.failed # {} THEN "PARTIAL_DESTINATION_FAILURE" ELSE "SUCCESS"
ExitCode_NoFailed(j) == IF j.err THEN "PURGE_FAILED" ELSE "SUCCESS"
ExitCode(j) ==
    IF j.failed # {} THEN "PARTIAL_DESTINATION_FAILURE"
    ELSE IF j.err THEN "PURGE_FAILED" ELSE "SUCCESS"

PurgesDone(p) ==
    /\ pc[p] = "purge" /\ job[p].todo = {}
    /\ LET j == [job[p] EXCEPT !.code = ExitCode(job[p])]
       IN  IF job[p].cmd = "run" THEN Go(p, "finish", j) ELSE Go(p, "exit", j)
    /\ UNCHANGED <<clock, lock, work, faults, disks>>

\* _finish: the post_run hook, whose failure is logged.
Finish(p) ==
    /\ pc[p] = "finish"
    /\ Go(p, "exit", [job[p] EXCEPT !.notified = TRUE])
    /\ UNCHANGED <<clock, lock, work, faults, disks>>

-----------------------------------------------------------------------------
\* What an invocation does once it is started.
Pipeline(p) ==
    \/ Acquire(p) \/ Locked(p) \/ Exit(p) \/ Unexpected(p)
    \/ Precondition(p) \/ CleanWork(p) \/ Backup(p) \/ WriteMeta(p)
    \/ StoresDone(p) \/ Decide(p) \/ PurgesDone(p) \/ Finish(p)
    \/ \E d \in Dests :
          \/ StoreCheck(p, d) \/ StoreBegin(p, d) \/ StoreCopy(p, d) \/ StoreMeta(p, d)
          \/ StoreCommit(p, d) \/ StoreFail(p, d)
          \/ List(p, d) \/ ListFail(p, d)
          \/ \E b \in Names : DeleteOne(p, d, b) \/ DeleteFail(p, d, b)

Next ==
    \/ Tick \/ StepBack
    \/ \E p \in Procs : StartRun(p) \/ StartPurge(p) \/ Crash(p) \/ Pipeline(p)

Spec == Init /\ [][Next]_vars

\* What runs no other program goes on.  mariabackup, hooks, ssh and rsync may
\* hang: timeout_seconds is 0 unless it is set, rsync has no timeout, and even a
\* child that is killed may leave a pipe open.
Prompt == {"lock", "cleanup", "decide", "exit"}
FairSpec == Spec /\ \A p \in Procs : WF_vars(pc[p] \in Prompt /\ Pipeline(p))
==============================================================================
