----------------------------- MODULE DistinctIds -----------------------------
(***************************************************************************)
(* The guarantees for any mix of destinations, as long as no backup_id is  *)
(* generated twice.  A backup_id has a resolution of one second and comes  *)
(* from a clock that may be set back.  local.py copes with an id that is   *)
(* used again; ssh.py does not: rsync then works inside what the first run *)
(* left, and mv puts one directory into the other.                         *)
(*                                                                         *)
(* Here a remote mv or rm may outlive its ssh: subprocess.run kills the    *)
(* ssh client after its timeout, and a crash ends it, but not what it has  *)
(* started on the other side.  The variable distinct is a history          *)
(* variable: it adds no step and forbids none.                             *)
(***************************************************************************)
EXTENDS Guarantees

VARIABLES
    late,       \* remote commands that nobody waits for any more
    distinct    \* no run so far has begun with an id in use

dvars == <<vars, late, distinct>>

Commands == [op : {"mv", "rm"}, dest : Dests, name : Names]

\* There is a directory for the id at a destination, a command or a plan that may
\* still change one, or a run that has it.
InUse(x) ==
    \/ \E d \in Dests : \E n \in Victims(x) : disk[d][n] # "none"
    \/ \E c \in late : c.name \in Victims(x)
    \/ \E q \in Procs : (job[q].surplus \cup job[q].stale) \cap Victims(x) # {}
    \/ \E q \in Procs : pc[q] # "idle" /\ job[q].cmd = "run" /\ job[q].id = x

Begins(p) == pc[p] = "idle" /\ pc'[p] # "idle" /\ job'[p].cmd = "run"
NewIds == \A p \in Procs : Begins(p) => ~InUse(job'[p].id)
History == distinct' = (distinct /\ NewIds)

DistinctInit == Init /\ late = {} /\ distinct = TRUE

\* The pipelines, with every command over when its ssh is.
Pipelines == Next /\ UNCHANGED late /\ History

Leave(op, d, n) == late' = late \cup {[op |-> op, dest |-> d, name |-> n]}

\* The commit is given up, and its mv has not begun yet.
LateMove(p, d) ==
    /\ pc[p] = "commit" /\ Current(p, d) /\ Kind[d] = "ssh"
    /\ (StoreFail(p, d) /\ UNCHANGED disks) \/ Crash(p)
    /\ Leave("mv", d, job[p].id)
    /\ History

\* A removal is given up, and its rm goes on.
LateRemove(p, d, b) ==
    /\ pc[p] = "delete" /\ Current(p, d) /\ Kind[d] = "ssh" /\ NextToDelete(job[p], b)
    /\ DeleteFail(p, d, b) \/ Crash(p)
    /\ Leave("rm", d, b)
    /\ History

\* It happens.  mv without a source changes nothing.
LateEffect(c) ==
    /\ \/ /\ c.op = "mv" /\ disk[c.dest][Partial(c.name)] # "none"
          /\ Rename(c.dest, c.name, clock)
       \/ c.op = "mv" /\ disk[c.dest][Partial(c.name)] = "none" /\ UNCHANGED disks
       \/ c.op = "rm" /\ Delete(c.dest, c.name)
    /\ late' = late \ {c}
    /\ UNCHANGED <<clock, lock, work, pc, job, faults, distinct>>

DistinctNext ==
    \/ Pipelines
    \/ \E p \in Procs, d \in Dests :
          LateMove(p, d) \/ \E b \in Names : LateRemove(p, d, b)
    \/ \E c \in late : LateEffect(c)

DistinctSpec == DistinctInit /\ [][DistinctNext]_dvars

\* The generations that d holds completely, under their final name or, over ssh,
\* where list_backups() reports it as complete, under that of the partial.
Copies(d) ==
    {x \in Ids : disk[d][x] = "whole" \/ (d \notin Local /\ disk[d][Partial(x)] = "whole")}

\* At every destination the newest keep of the generations that are listed as
\* complete miss no data: a purge that stops half-way, or whose rm goes on later,
\* damages older ones only (select_purge, list_backups of ssh.py).
IntactIfDistinct == distinct => \A d \in Dests : Intact(d)

\* A generation that the exit code claims for a destination has a complete copy
\* there, or was replaced by keep newer ones (_finish, store() of ssh.py).
Preserved(d, x) == x \in Copies(d) \/ Cardinality({y \in Copies(d) : y > x}) >= Keep[d]

ReportIfDistinct ==
    distinct => \A p \in Procs : pc[p] = "exit" /\ job[p].cmd = "run" =>
                   \A d \in Claimed(job[p]) : Preserved(d, job[p].id)

\* Every destination implements the abstract store of generations: copies go one
\* at a time, and only while keep newer ones are there, although a purge over
\* ssh counts partials and final directories alike, and a late mv or rm changes
\* what it has listed (delete of ssh.py).
Mixed == INSTANCE GenerationStore WITH held <- [d \in Dests |-> Copies(d)]
StoreIfDistinct ==
    [][distinct' => Mixed!Next \/ UNCHANGED [d \in Dests |-> Copies(d)]]_dvars

\* A destination that the run in progress could not write to, or did not try,
\* loses no generation to it; only the rm of an earlier purge may still take one
\* (_purge_stored_destinations).
DegradedUntouched ==
    [][\A d \in Dests : \A p \in Procs :
          lock = p /\ job[p].cmd = "run" /\ d \notin job[p].stored =>
             \A x \in Held(d) : \/ disk'[d][x] = "whole"
                                \/ [op |-> "rm", dest |-> d, name |-> x] \in late]_dvars
==============================================================================
