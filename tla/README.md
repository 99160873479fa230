# A TLA+ model of mariabackup-keeper

`mbkeeper` is a command started by cron, a systemd timer or an operator. `run`
takes a full backup with mariabackup into `work_dir`, copies it to a list of
destinations (local directories or ssh hosts), purges old generations and exits
with a code that monitoring reads. `purge`, `list` and `check` work on the same
destinations. There is no daemon and no database: the whole state is in
directories and their names, a lock file and the exit code. What makes the
program hard to get right is that every invocation starts from whatever the
previous one, or the one that was killed, left in those directories.

Paths below are relative to `src/src/mariabackup_keeper/`; documentation is in
`src/docs/`.

## 1. Inventory

| Component | Source | State | Operations | Interacts with |
|---|---|---|---|---|
| run pipeline | `orchestrator.py:77-192, 299-353` | backup_id, `now`, outcomes, `had_error` of one invocation; `work_dir/<id>` | `run`, `_cleanup_stale_work_dir`, `_store_to_destinations`, `_purge_stored_destinations`, `_finish` | everything below |
| purge pipeline | `orchestrator.py:195-217, 253-296` | plan of the destination at hand, `had_error` | `purge`, `_purge_one_destination` | lock, destinations, retention |
| retention policy | `retention.py` | none (a function) | `select_purge` | fed by `list_backups`, carried out by `delete` |
| backup ids, manifest | `manifest.py` | `meta.json` in a directory | `generate_backup_id`, `write_meta`, `read_meta` | its presence makes a generation complete |
| local destination | `destinations/local.py` | directories `<id>`, `<id>.partial`, their mtimes | `store`, `list_backups`, `delete`, `check` | file system |
| ssh destination | `destinations/ssh.py` | the same, on a remote host | the same, as ssh commands (30 s timeout) and rsync (retries, no timeout) | network; remote commands may outlive the call |
| destination contract, registry | `destinations/base.py`, `destinations/__init__.py` | table of types | `register`, `build_destination` | pipelines |
| lock | `locking.py` | flock on one file | `acquire_lock` | `run` and `purge`; not `list` and `check` |
| hooks | `hooks.py` | none | `run_hook`, 60 s timeout | `pre_backup` can stop a run, the others cannot |
| exit codes, errors | `exit_codes.py`, `errors.py` | none | mapping of exceptions to codes | `cli.main` |
| command line | `cli.py` | none | `main`, `_cmd_list`, printing | exception boundary of the pipelines |
| mariabackup runner | `backup.py` | a child process, a log file | `run_backup`, `run_prepare`, `get_version` | timeout, SIGTERM, 10 s, SIGKILL |
| replication precondition | `replication.py` | none | `check_replication` | `run` and `check` |
| check pipeline | `orchestrator.py:220-250` | a probe file per destination | `check` | runs without the lock |
| configuration | `config.py` | none | `load_config` and its validation | fixes `keep`, paths, policies |
| logging | `logging_setup.py` | log handlers | `setup_logging` | nothing reads it |

What is hard, and what makes each component correct:

* **Overlap.** Two invocations may overlap at every instruction; only what is
  between `acquire_lock` and its `finally` is exclusive. `now`, and with it the
  backup_id, is read *before* the lock is tried (`orchestrator.py:79`). Correct
  means: nobody touches the source or the partial of a store in progress; the
  lock is always given back.
* **Crash and restart.** A kill can leave a partial, a work_dir entry, or a
  directory that a half-finished removal has taken data files or `meta.json`
  from. Correct means: a generation that is listed among the newest `keep` has
  all its data, and leftovers are removed in the end, but not too early.
* **Several destinations, some of which fail.** Correct means: the report says
  what is on disk, and a destination that could not be written to loses
  nothing.
* **Names as order.** Retention sorts names. Name order is time order only for
  one prefix and a clock that does not go back.
* **Unreliable calls.** Over ssh a reply can be lost after the command was
  carried out, a command can take effect after its client was killed, and a
  broken connection looks like "file not there". Correct means: a store that
  returned has put down a complete generation, and no retry damages one.
* **A child process.** mariabackup may hang, ignore SIGTERM, end while the
  timeout fires, or outlive the run that started it. Correct means: what is stored
  is complete and nothing writes to it any more; the call ends.
* **Commands without the lock.** `list` and `check` read, and `check` writes,
  beside a run. Correct means: what was there all the time is shown, and a false
  alarm has an explanation.
* **What the settings allow.** Everything above takes `keep >= 1`, distinct
  directories and at least one destination for granted; `load_config` has to
  provide that.

## 2. Modules

```
Manifest      names, their order, what a directory holds
Retention     select_purge
   \  /
Destination   disk, mtime; the effect of each backend call
     |
Orchestrator  invocations: run and purge, step by step; Spec, FairSpec
     |
Guarantees    what the pipelines promise    ---- INSTANCE ---> GenerationStore
     |     \   \                                               (abstract store)
     |      \   MCLocal           instance for TLC: local destinations
     |       DistinctIds          the guarantees for ssh too, and remote commands
     |        /    \              that outlive their ssh  -- INSTANCE ---> GenerationStore
     |       /      MCMixed       instance for TLC: a local and an ssh destination
OrchestratorProofs                types, the lock, the outcomes of a run, local
     |     /                      destinations, refinement
SafetyProofs                      what a purge leaves; DistinctIds

Purging       EXTENDS Retention: one destination, purged again and again
PurgeLists    EXTENDS Purging: select_purge on lists, statement by statement;
              MCRetention
              RetentionProofs
Listing       EXTENDS Orchestrator: `list` beside the pipelines; MCListing
              ListingProofs
Executor      one mariabackup call: parent, child, helper, signals
              ExecutorProofs
RemoteStore   one ssh destination, command by command
              RemoteStoreProofs
Preconditions replication, hooks, check and its probes; MCPreconditions
              PreconditionsProofs
Config        load_config and the start of main()
              ConfigProofs
```

Executor, RemoteStore, Preconditions and Config stand alone. Each opens up what
is one step of Orchestrator: its
`Backup` is a life of Executor, its store over ssh a call of RemoteStore, its
`Precondition` and its hooks the steps of Preconditions, and its ASSUMEs are what
Config has to guarantee. They are not composed with it: the product would be
out of reach. What crosses the border is a result (done or `BackupError`; stored or
`DestinationError`; passed, raised or an exception nobody expects), and Orchestrator
has each of them as a disjunct. What does not end with its call is only partly there:
a remote `mv` or `rm` that outlives its ssh happens at once or never in Orchestrator,
at any later time in DistinctIds and RemoteStore; a mariabackup that outlives a killed
run is in Executor alone.

**Manifest.** The code uses a backup_id only by comparing it, so a name is its
rank in lexicographic order: `generate_backup_id(prefix, now)` is even and
`Partial(x) = x + 1` sits between `x` and the next id, as `"<id>.partial"` does.
`Prefixes` has more than one member when an operator changes `name_prefix`. Two
runs in the same second get the same id, because one tick of the model's clock is
one second of the timestamp (and one hour for the grace period: both uses only
compare, and the bounds are small enough that every order of the two occurs). A
directory is `none`, `some` (part of the data), `full` (all data, no
`meta.json`), `whole`, or `husk` (`meta.json` but not all the data: what an
interrupted `rmtree` or `rm -rf` can leave).

**Retention.** `select_purge` as operators on sets. Its `delete` tuple is kept
as its two parts, `surplus` (newest first) and `stale`. **Purging** puts it to
work on a destination that receives complete and incomplete directories and is
purged in one step, by the purge command or by a run with its own id.
**PurgeLists** is the body of `select_purge` on lists, statement by statement: the
comprehensions, the stable `sorted(..., reverse=True)`, the two slices and the
concatenations that make `keep` and `delete`. Its lists are arranged by counting
how many places come before a place, without recursion, so that one can prove
about them; MCRetention has TLC compare them with `SelectSeq` and `SortSeq`.

**Destination.** `disk[d][name]` and `mtime[d][name]`, and one operator per call:
`BeginCopy`, `FinishCopy`, `CopyMeta` and `Rename` are the four steps of
`store()` (`CopyMeta` makes a directory complete only if its data is: `meta.json` in
one that misses data makes a husk); `list_backups` has the local rule (suffix first, then `meta.json`) and
the rule of the ssh script (`meta.json` first, then suffix; a directory with
neither is not printed); `Delete` and `DeleteInterrupted` remove `<id>` and
`<id>.partial` in one call. `Rename` keeps the difference between `rename(2)`,
which refuses a non-empty target, and `mv`, which nests the source inside it.

**Orchestrator.** `pc[p]` is the next call of invocation `p` and `job[p]` its
local variables. A slot that finishes becomes free for the next invocation.

| Action | Code |
|---|---|
| `StartRun`, `StartPurge` | `cli.main` up to `now = ...`; the purge targets and `--dry-run` |
| `Acquire`, `Locked`, `Exit` | `acquire_lock`; leaving the `with` block and `main` |
| `Precondition` | replication requirement and `pre_backup` |
| `CleanWork` | `_cleanup_stale_work_dir`, `mkdir(exist_ok)` |
| `Backup`, `WriteMeta` | `run_backup`/`run_prepare` and `BackupError`; `write_meta` beside whatever is there, `post_backup` |
| `StoreCheck`, `StoreBegin`, `StoreCopy`, `StoreMeta`, `StoreCommit`, `StoreFail` | `Destination.store` step by step, and a `DestinationError` at any of them |
| `StoresDone`, `Decide` | the end of the loop; `work_dir` kept or removed, `pre_purge`, purge targets |
| `List`, `ListFail`, `DeleteOne`, `DeleteFail` | `_purge_one_destination`; the ids of `plan.delete` one by one |
| `PurgesDone`, `Finish` | exit code; `_finish` with `post_run` |
| `Unexpected` | an exception that reaches the last handler of `cli.main`: an OSError, output of ssh or rsync that is not text, what `run_hook` lets through |
| `Crash` | kill or restart in any state; the kernel drops the flock |
| `Tick`, `StepBack` | the UTC clock, and setting it back |

`plan.delete` is a list, and may hold an id twice. A local destination lists `<id>`
without a `meta.json` and `<id>.partial` as two incomplete generations of one id; when
both are over the grace period, `delete(id)` is called twice, and what the first call
left in half, or has failed on, meets the second. `stale` is a set, so `tried` holds
the ids whose second call is to come (`Twice`, `Rest`). An id that is surplus and stale
is in both parts and is tried in both.

An environment that misbehaves (a failed copy, a lost reply, a kill, an
interrupted removal, a clock that is set back by any amount) spends one of
`MaxFaults` faults. Failures that the code
takes as a normal outcome (precondition not met, `BackupError`) are free.

**Guarantees.** The properties, and those statements of the documentation that
the code does not keep (section 5). **GenerationStore** is the abstract promise of the
destinations: sets of generations; a generation appears as a whole (`Commit`)
and goes only while `keep` newer ones are held (`Expire`). `Guarantees`
instantiates it for the local destinations of any mix, with `held[d] = Held(d)`,
the ids that are `whole` at `d`.

**DistinctIds.** What `Guarantees` says of local destinations, for ssh as well. It
needs that no backup_id is generated twice: with an id that is in use, rsync works
inside what the first run left and `mv` puts one directory into the other. The
history variable `distinct` is true until a run begins with an id for which there
is a directory, another run, a plan or a late command (`InUse`); it forbids no step.
`Copies(d)` are the ids that are whole under their final name or, over ssh, under that of the partial,
which the ssh script lists as complete too (`v_completeness`). `IntactIfDistinct`,
`ReportIfDistinct` and `StoreIfDistinct` say of all destinations, while `distinct`
holds, what `NewestIntact`, `ReportTruthful` and `RefinesStore` say of local ones in
any case; the last instantiates GenerationStore a second time, with `Copies`.

This is also where remote commands outlive their ssh. `subprocess.run` kills the ssh
client after 30 seconds, and a crash ends it, but not what it started on the other
side. `LateMove` and `LateRemove` give up a commit or a removal whose command has not
happened yet, and put it into `late`; `LateEffect` is the command, at any later time:
during a later run, between the list and the removals of a purge, or never. For this
reason `InUse` counts more than directories: an id is in use too while a late command
or the plan of a purge may still change a directory of it.

**Listing.** `scan` is one `list` command, which goes through the destinations
and, in each, through the entries of one directory reading. An entry is looked
at twice, and the pipelines may move in between: suffix and `meta.json` first,
then `stat` for a local destination; time first, then `meta.json` in the ssh
script. `quiet` and `steady` remember what has changed at the destination since
its scan began. `OpenFails` is a `DestinationError`, after which the next destination
follows; `ReadFails` is what `_cmd_list` does not catch although nothing has changed:
an OSError of `iterdir`, `is_dir`, `is_file` or `stat`, and ssh output that cannot be
decoded or read. It ends the command with `INTERNAL_ERROR` and is remembered in
`scan.broken`. A removal is one step here, as in Orchestrator.

**Executor.** `_execute` is the parent in one of the three calls of
`communicate()` (`wait`, `grace`, `reap`), a child per run with the last signal
it got, and, where `mariabackup_path` may be a wrapper script, a `helper` that
inherited stderr and that no signal reaches. `communicate()` returns only when
the child is gone and nobody holds stderr. `Crash` kills the parent and leaves
the child. A child that ends has done its work if it returned 0 *and* printed the
marker; either alone allows both. What it prints may not be text, and a
`mariabackup_path` that is no string is not refused by the configuration: both end the
run with `INTERNAL_ERROR`. Runs have different ids here.

| Action | Code |
|---|---|
| `Begin`, `Launch` | `run` reaching `run_backup`; `Popen` and its OSError |
| `Returned`, `Expire`, `ExpireGrace` | `communicate()` and its two `TimeoutExpired` |
| `Log`, `Verdict` | the log file; timeout, return code and marker; `--prepare` next |
| `ChildEnds`, `ChildKilled`, `HelperEnds` | mariabackup, the kernel, what a wrapper started |

**RemoteStore.** `final[x]`, `part[x]` and `nested` are `<id>`, `<id>.partial`
and an `<id>.partial` inside `<id>`. A call is a sequence of remote commands;
each can fail, be carried out with its reply lost, or outlive its ssh: then it goes
to `late` and is carried out at any later time; `overdue` remembers the ids whose
`mv` did. rsync works in place, `--delete`
spares the excluded `meta.json`, and a transfer that is running follows its
directory when a late `mv` renames it or puts it into `<id>` (`at`). A second `mv` into
an `<id>` that has an `<id>.partial` inside fails (`MoveWorks`). The caller keeps the contract of
`base.py`: it may store an id again, from a backup taken anew, and does not store
an id it has deleted.

**Preconditions.** `check_replication` as a decision over the settings and what
the client returns, a status or a version that is not text among it; `run_hook` over the outcomes of a command; a run reduced to
the steps that can stop it; up to `Checks` concurrent `check` commands with the
probe file they share; and `Change`, by which server, program and disk change
beside them. Output that is not text escapes wherever the code decodes it: in the
hooks, in the two queries, in `mariabackup --version` (of `check` and of `write_meta`)
and in the ssh probe. `wrong` is the history of what went wrong in a run, an exception
that nobody handles included; a hook that runs after the backup enters it only by such
an exception.

**Config.** The schema of each section gives the values a key may have; an
operator edits a good file in up to `MaxEdits` places. `destinations` is the set of
indices of the entries that parsing appends; `NoTuple` is the `tuple(ssh_options)` of
a local entry, which no check has looked at before. A value is one
representative of each class the checks tell apart (`"0"`, `"-1"`, `"true"`,
`"[1]"`, a path with and without a trailing slash, ...).

## 3. Runs

Deadlock is checked in all runs but those of `Executor` and `Config`, which end
when the last run is over or the edits are used up: an invocation that is started
never gets stuck, and a new one can always be started.

| Run | Question | Bounds |
|---|---|---|
| `local_pair` | `TypeOK`, `StoreInProgress`, `ReportTruthful`, `SuccessMeansPurged` with two overlapping invocations, two local destinations and both failure policies | 2 instants, keep 1, 1 fault |
| `local_overlap` | `PartialProtected` and the refinement of `GenerationStore`, with two overlapping invocations, one of which may hold a stale `now` and id | 3 instants, 1 destination, keep 1, 1 fault |
| `local_history` | `NewestIntact`, `PurgeConverges` over a history of runs and purges, kills, half-finished removals, a clock that is set back and retries under one id | 4 instants, keep 2, 2 faults |
| `mixed` | `DegradedUntouched` with a local and an ssh destination, a clock that is set back, and remote commands that outlive their ssh; until an id is used twice, `IntactIfDistinct`, `ReportIfDistinct`, `StoreIfDistinct` | 2 instants, keep 1, 3 faults, 1 invocation at a time |
| `retention` | `select_purge` on sets equals its code list by list, in whatever order a destination lists (`PlanMatchesCode`); one purge settles a destination (`PurgeSettles`) | 4 directories of 4 ids, 4 hours, keep 2, grace 2 |
| `executor` | `TypeOK`, `CompleteAndQuiet`, `NoChildLeft`, and `RunEnds` under fairness, with and without a wrapper, with a timeout and kills of the parent | 2 runs, both phases |
| `remote` | `SuccessMeansWhole`, `NoHalfCommit`, `PriorSafe`, and `StoreReturns` under fairness, although commands may outlive their ssh | 2 ids, 1 retry |
| `listing` | `ScanIsListing`, `NothingOmitted`, `ListErrorExplained` beside one run or purge at a time | a local and an ssh destination, 2 instants, keep 1, 1 fault |
| `preconditions` | `GateExact`, `CheckPredictsRun`, `HooksHarmless`, `FalseAlarm` | 2 checks and a run, lags 1, 2 and NULL, limits 0 and 1 |
| `config` | `StartedFits`, `NoneDropped` | a file of 3 destinations, 2 edits |

Why the bounds are enough for what they are asked. Two invocations suffice for
every overlap, since a third one can only wait for the same lock. With keep 1 two
generations make a surplus, and three instants let a late invocation meet both
an older and a newer generation; keep 2 with four instants (`local_history`) gives a
surplus of two, an order of removal, and a kill between the two. One fault is enough
for each single failure; two faults (`local_history`) for a failed removal and a
kill of the run that follows it, or for damage under an id that a clock set back
makes a run use again; three (`mixed`) for a kill that leaves a partial which is
listed as complete, and a lost reply and a failed removal after it. A command that
outlives its ssh is one of these faults, since its invocation sees a timeout or is
killed; with one slot for invocations it takes effect during a later one, and what two
overlapping ones add, the lock, is the matter of the local runs. A grace period of
one hour with at least two instants has both sides of the boundary. `Procs` is
symmetric in `local_pair`, which checks invariants only.
Two runs of Executor are the least that let an orphan of one meet the other. One
id of RemoteStore has all retries of its own store; the second shows that ids do
not touch each other; one retry is enough for a late command to meet a second
attempt. A lag on each side of the limit, and NULL, are the cases of
`check_replication`. Two edits make every pair of mistakes, and every mistake
that takes two places (a shared path, a path equal to `work_dir`).

The properties, and what each could catch:

* `StoreInProgress`: the source stays complete while it is copied, and what is
  about to be renamed is complete. Fails if the flock is not exclusive, or if
  `meta.json` is copied into the final directory.
* `NewestIntact`: of the generations that a local destination lists as complete,
  the newest `keep` miss no data, whatever else is configured. Fails if surplus is
  taken from the wrong end.
* `SuccessMeansPurged`: `SUCCESS` of a run is a statement about every destination: none
  was left out of the purge, and each holds what the policy asks for. Fails if
  `had_error` is not looked at for the exit code. `PurgeConverges` speaks of the
  destinations a purge is done with, this of what `SUCCESS` tells the operator.
* `ReportTruthful`: local destinations reported as stored hold the generation, or
  `keep` newer ones; after `ALL_DESTINATIONS_FAILED` the copy in `work_dir` is complete. Fails
  if a failed destination is not counted.
* `PurgeConverges`: after a purge without error at most `keep` complete
  generations are left and nothing incomplete is over the grace period. Fails at an
  off-by-one of the grace comparison. Over ssh it is as long as no `mv` outlives its ssh: one that happens between the
  list and the end of a purge brings one generation more, which the next purge takes.
* `PartialProtected`: a partial goes only by its commit, by the run that writes
  it, by the second `delete` of a purge that found both directories of its id stale, or
  after the grace period when nobody writes it.
* `DegradedUntouched`: a destination that a run did not store to loses nothing to
  it; the rm of an earlier purge, which outlived its ssh, may still take one. The lost
  reply of an ssh `mv` gives a failed destination more generations than it keeps, so
  that purging failed destinations would break it.
* `RefinesStore`: no generation of a local destination is lost before `keep` newer
  ones are held.
* `IntactIfDistinct`, `ReportIfDistinct`, `StoreIfDistinct`: the same three for
  every destination, until an id is used twice. Over ssh a purge counts final
  directories, complete partials and damaged directories alike, so that a
  generation with two of them would push an older one out, and a late `mv` or `rm` may
  change what a purge has listed. They fail if surplus is
  taken from the wrong end, if `meta.json` is copied into the final directory, and
  if one generation too many is surplus.
* `CompleteAndQuiet`: what is stored has all its phases done, and no process,
  not even what a wrapper left, still writes to it. Fails if the return code
  alone decides.
* `NoChildLeft`: `_execute` leaves no process on any way out; two mariabackups
  at once take a kill of mbkeeper. Fails if the wait after SIGKILL is dropped.
* `RunEnds`: with `timeout_seconds`, a run ends although mariabackup hangs and
  ignores SIGTERM, unless a process behind a wrapper holds stderr. Fails if the
  second signal is SIGTERM again.
* `SuccessMeansWhole`, `NoHalfCommit`: after any mix of failed attempts, retries
  and lost replies, what is under a final name with a `meta.json` is complete,
  for every id whose `mv` did not outlive its ssh.
  Both fail if the loop of retries ends without raising.
* `StoreReturns`: the call comes back. Fails if failed attempts are not counted.
* `PriorSafe`: no retry and no late command takes data from a complete
  generation. Fails if the commit merges into an existing directory.
* `ScanIsListing`: reading entry by entry gives, at rest, what the pipelines take
  in one step; this justifies the one-step `List` of Orchestrator.
* `NothingOmitted`: a generation that is complete during the whole scan is shown
  as complete. Fails if one entry that has gone ends the loop.
* `ListErrorExplained`: where everything can be read, `list` ends with
  `INTERNAL_ERROR` only when a directory went away under it. Fails if `stat` is taken
  of the wrong name.
* `GateExact`: the replication step passes exactly the servers that meet the
  settings. Fails if the limit itself is refused. A server that is no replica passes
  with `max_lag_seconds` set and `mode` off, since `replication.py:47` looks at the lag
  of a replica only; "or is unknown" of `configuration.md:31` could be read to refuse
  it, and no test of the repository decides.
* `CheckPredictsRun`: while nothing changes, no run fails its replication step
  after a check that succeeded. Fails if `check` asks only for `mode`.
* `HooksHarmless`: the exit code of a run is what went wrong before and in its
  backup (`PRECONDITION_FAILED`, `BACKUP_FAILED`, `SUCCESS`), however later hooks fail,
  post_run of a failed backup included; it is `INTERNAL_ERROR` exactly if an exception
  came up that `run_hook`, or the step, does not handle. Fails if `fail_fast` is
  ignored.
* `FalseAlarm`: a good local destination is reported broken only by overlapping
  checks, whose unlinks race. Fails if the probe file is opened exclusively.
* `StartedFits`, `NoneDropped`: what starts meets the assumptions of the other
  modules, and has every destination of the file. Fail if `keep = 0` passes, or if
  the error of an entry that is left out gets lost.

For each of them the project names a mutation of the code that makes the run
fail (`PROJECT.json`, "mutants"; the operators named `X_...` next to `X`).

**Fairness.** Three specifications state fairness, each of as little as its property
needs, and none of the clock, of new invocations or of faults.

* Orchestrator: weak fairness of the steps of an invocation that run no other program
  (`Prompt`: the lock is non-blocking; cleanup, removal of the `work_dir` entry, return).
  mariabackup, hooks, ssh and rsync may hang: `timeout_seconds` is 0 unless it is set
  (`backup.py:89`), the last `communicate` waits for whoever holds the pipe
  (`backup.py:100`), and rsync has no timeout. That the lock comes back, and so that
  every invocation ends, is therefore no property of Orchestrator. What there is of it
  are `RunEnds` and `StoreReturns`, each under its condition. Only `v_only_copy` uses
  this fairness.
* Executor: the parent, and the kernel that carries out a SIGKILL, and nothing else;
  mariabackup may hang and ignore SIGTERM.
* RemoteStore: the steps of the call in progress. ssh commands end by their timeout;
  rsync is taken to end, and section 6 says so.

## 4. Proofs

Eight modules hold proofs checked by TLAPS. They assume only the ASSUMEs of the
modules: finitely many prefixes, at least one destination, `keep >= 1`, and
natural numbers for grace period and bounds; for Executor that its settings are
Booleans; for RemoteStore that `Retries` is a natural number; for Preconditions
that lags and limits are natural numbers. Any number of invocations,
destinations, generations, ids, faults, checks and edits is covered.

| Theorem | Statement | Destinations |
|---|---|---|
| `TypeCorrect` | `Spec => []TypeOK` | any |
| `StoreUndisturbed` | `Spec => []StoreInProgress` | any |
| `NewestAlwaysIntact` | `Spec => []NewestIntact` | the local ones of any mix |
| `ReportsAreTrue` | `Spec => []ReportTruthful` | the local ones of any mix |
| `Refinement` | `Spec => RefinesStore` | the local ones of any mix |
| `NewestIntactAnywhere` | `DistinctSpec => []IntactIfDistinct` | any |
| `ClaimsAreKept` | `DistinctSpec => []ReportIfDistinct` | any |
| `RefinementAnywhere` | `DistinctSpec => StoreIfDistinct` | any |
| `DegradedKeepsAll` | `DistinctSpec => DegradedUntouched`, reused ids included | any |
| `PurgesConverge` | `Spec => []PurgeConverges`: at most `keep` complete ones everywhere, nothing stale at the local ones | any, no `mv` outliving its ssh |
| `SuccessIsPurged` | `Spec => []SuccessMeansPurged` | any, no `mv` outliving its ssh |
| `PartialsProtected` | `Spec => PartialProtected`, if the clock is not set back | the local ones of any mix |
| `Settled` | `Spec => []PurgeSettles` (Purging) | - |
| `PlanIsCode` | `Spec => []PlanMatchesCode` (Purging, PurgeLists) | - |
| `ScanExact`, `SteadyIsListed`, `ErrorHasCause` | `ListSpec => []ScanIsListing`, `[]NothingOmitted`, `[]ListErrorExplained` | any |
| `ReplicationGate`, `CheckForetellsRun` | `Spec => GateExact`, `CheckPredictsRun` (Preconditions) | - |
| `HookFailuresContained`, `AlarmExplained` | `Spec => []HooksHarmless`, `[]FalseAlarm` (Preconditions) | - |
| `AssumptionsMet`, `EveryEntryCounts` | `Spec => []StartedFits`, `[]NoneDropped` (Config) | - |
| `TypeCorrect` (Executor) | `Spec => []TypeOK` | - |
| `StoredIsComplete` | `Spec => []CompleteAndQuiet` (Executor) | - |
| `ChildReaped` | `Spec => []NoChildLeft` (Executor) | - |
| `PriorIsSafe` | `Spec => PriorSafe` (RemoteStore) | ssh |
| `StoredIsWhole` | `Spec => []SuccessMeansWhole` (RemoteStore) | ssh |
| `CommitIsAtomic` | `Spec => []NoHalfCommit` (RemoteStore) | ssh |

The argument for the pipelines. None of the properties is inductive by itself.
`SafetyInv` is:

* `Exclusive`: who is inside the lock holds it. With `Undisturbed`, this reduces
  every step to the invocation that takes it: the lock holder's files do not
  change under it.
* `Source`, `Copied`: what is copied and what is renamed is complete. Both begin one
  step earlier, because `meta.json` makes only a directory complete that has its data:
  the source has it when `write_meta` is called, the partial when its `meta.json` is
  copied.
* `Ledgers`: the outcomes add up. While nothing failed, every destination is
  stored or still to come; only stored ones are purged; a run whose code is
  `SUCCESS` or `PURGE_FAILED` has stored everywhere.
* `Results`: a run that reports still holds the lock.
* `Single`, `Fresh`: at a local destination a directory with a `meta.json` has no
  partial beside it, so `delete(id)` for a stale partial never takes a complete
  generation with it; and a store never meets its own finished generation.
* `Single` also says that a generation with a `meta.json` is whole or has `keep`
  newer whole ones: husks are harmless.
* `Planned`: each id of the plan being carried out has `keep` newer whole
  generations, or is damaged.
* `Kept`: what a run has counted as stored is there or replaced.

The lemma everything turns on is `Replaced`: when one generation goes, and only
while `keep` newer ones are there, every other generation keeps what it had: it
is still there, or still has `keep` newer ones. It needs no induction, only that
a larger set is at least as large. `PlanSound` shows that `select_purge` on a
local listing names only such generations, although its count includes husks: if
one of the newer complete directories is a husk, then by `Single` there are `keep`
whole ones newer still.

What a purge establishes (`ConvInv`, on top of `SafetyInv`). `PurgeConverges`
speaks of the end of an invocation, after a loop over destinations each of which
has a loop over a plan; the invariant says what holds at each turn of both.

* `Loops`, `Owner`: no destination is purged before the purge loop or twice, and
  who has purged one holds the lock until it returns, so that nobody else undoes
  it.
* `Converging`: while a plan without an error is carried out, what is not in the
  rest of the plan is already what the policy asks for.
* `Converged`: where the plan is done, and no error has been met, it is so, and
  stays so while the others are purged.
* `Overdue`, `Began`: what is still to be deleted as stale is over the grace
  period as of the invocation's `now`; unless the clock was set back, that is not
  in the future. `PartialProtected` needs both. An id that a first `delete` has been
  tried on (`tried`) is exempt: that call may have renewed what it left.
* `Accounts`: a run purges, and what it has stored at is still to be purged, purged, or
  an error was noted. With `Ledgers`, `SUCCESS` is the verdict on a purge of all
  destinations, which is `SuccessMeansPurged`.

The count comes from `KeepCount`: of the names that are left, the oldest has
fewer than `keep` newer ones, and these are all the others. A set of names has an
oldest one because the order of the natural numbers is well-founded; no induction
over the listing is needed. For ssh `Tidy` is not claimed: a directory without
`meta.json` is not listed (section 5, `v_damaged`).

The argument for `Settled`. The invariant `PurgingInv` says that the listing is
finite and that an id is complete once; without the second part the count of
directories is not the count of names. `KeepExactly` sharpens `KeepCount`: if
something is surplus, take the surplus name with the fewest newer ones; all of
those are kept, and there are at least `keep`. `KeepsNewest` says that whatever
is kept is newer than whatever is not. A second purge finds nothing
because a smaller listing has fewer newer ones, and what was stale is gone under
its id.

The argument for `PlanIsCode`. `select_purge` builds lists, the models use sets; the
theorem says that nothing hangs on the difference. `Arranged` puts at place `k` the
member that `k` members, itself included, come up to. `ArrangedFacts` shows that
every place is taken once: the count is different for different members and at most
their number, and an injection between finite sets of one size is onto. It holds of
every order of the places, so that `FilterFacts` and `SortedFacts` are two
instances of it. `SliceFacts` is the heart: in a list with falling ids, the ones
after place `keep` are those with `keep` newer ones. The ids of complete directories
are distinct because the listing comes from a directory (`PurgingInv`).

The argument for Listing. `ListInv` follows the scan between the two looks at an
entry. `QuietInv`: while nothing has changed, what is left to read is still
there, the first look is still true (`Half`), and the rows so far are those of
the names that were read (`Sofar`). `SteadyInv`: a generation that was whole all
the time is still to be read, in hand, or shown. `ErrorInv`: an error comes from
an entry that could not be read, or from one that went away. `ListingByName` splits `list_backups` into the rows of
single names, for both rules. The pipelines beside the scan enter only by what
they do to `quiet` and `steady`, so the proof has one step for all their actions.

The argument for Preconditions. The invariant is `RunInv` and `CheckInv`, which
no action connects. `Course` says that nothing has gone wrong in a run that goes on, but a `BackupError` on
the way to its `post_run`. For the checks, `Alone` says that two busy checks know of each other,
`ProbeThere` that a check which is alone finds the file it wrote, and `Asked` that
an unchanged, successful check has asked the server that is there now.
`ReplicationGate` needs no history: `check_replication` is compared with the
requirement case by case.

The argument for Config. `FileOK` is the shape of what an operator can write;
`StartInv` says that the file mbkeeper was started with is `Clean`, that is, good
key by key. The lemma `NoErrors` derives `Clean` from an empty set of collected
errors, section by section and entry by entry. `StartedFits` is what the ASSUMEs of
Orchestrator, Executor, RemoteStore and Preconditions take for granted.

The argument for destinations over ssh. `Single` does not hold there: the ssh
script lists a partial with a `meta.json` as complete (section 5), and `delete`
removes both names of an id. While ids are distinct a generation has one name
instead, and that is enough. `AfarInv`, on top of `ConvInv`, is:

* `Unique`, `Unwritten`: no two runs have the same id, and a run that has still to
  write to a destination finds nothing there under its id.
* `Midway`: while it copies there is no final directory that `mv` could put the
  partial into, so that `mv` renames; and rsync starts from nothing.
* `OneName`: of `<id>` and `<id>.partial` at most one is there; one that is listed
  as complete is whole, or has `keep` newer whole ones.
* `PlannedAfar`: what is surplus in the plan being carried out has `keep` newer
  copies, and what is stale is not listed as complete, under either name.
* `KeptAfar`: what a run has counted as stored is there or replaced.

A plan over ssh names directories, and the guarantee speaks of generations.
`NamesCount` connects the two: by `OneName` the names listed as complete and the
ids they belong to are in bijection, so as many names as ids are newer.
`ListedAmple` is the step from listed to whole: if one of the `keep` newer ones is
damaged, it has `keep` newer whole ones itself. Without distinct ids it
fails: a run that repeats the id of a partial left behind has rsync work in a
directory whose `meta.json` is already there, so that it is listed as complete
while it is not.

Commands that outlive their ssh come on top. `DistinctInv` has two halves. `Always`
(types, the lock, the loops, what is in `late`) needs nothing of the ids, and
`DegradedKeepsAll` follows from it alone: only the holder of the lock deletes, only at
destinations that are still to be purged, and those are stored ones; the rest is a late
`rm`. `Meanwhile` holds while `distinct` does. It is `SafetyInv` and `AfarInv` with

* `Spared`: no run that has still to write to a destination has the id of a late
  command there, or of a plan being carried out, of which a command may come late;
* `Replaceable`: what a late `rm` takes is not listed as complete, or has `keep` newer
  copies.

By `Spared` a late command is about an id that nobody writes any more. Its `mv` then
moves a copy from the one name of its id to the other, so that `Copies` does not
change (`LateCopies`). Its `rm` took over from a plan, and `PlannedAfar` said
of it then what `Replaceable` says now; it stays true because `Replaced` holds of copies
as well. A plan survives a late `mv` for the same reason: it speaks of copies of an id,
under either name.

The argument for Executor. `NoChildLeft` and `CompleteAndQuiet` need to know what
the parent reads in its verdict: `Fresh` says that, once the child is gone, the
result that is there is the one of the current phase, so that return code and
marker together mean a finished phase. `Future` (runs to come have nothing),
`Course` (a code is given once, at the end) and `Prepared` complete it.

The argument for RemoteStore. For `PriorIsSafe` only `LateRemovals` is needed: a removal that comes
late is of an id given to `delete()`, a late
`mv` nests instead of overwriting, and no rsync can be writing into a directory
that is already whole under its final name unless it completes it. For the other
two, `Progress` follows the copy of an id that is not overdue: when `meta.json` is
sent all data is there, when `mv` is sent the partial is whole, and its final name
is empty or whole unless it was deleted. A late command touches only its own id,
which is overdue or deleted.

Only model-checked: `RunEnds` and `StoreReturns`, liveness under fairness, which is
outside what TLAPS proves. That the lists of PurgeLists are the
ones `SelectSeq` and `SortSeq` build is checked on short lists (`ListsAreStandard`):
those two are recursive, and an induction over data is outside it as well.

## 5. Where documentation and code differ

Two statements are runs that must find the documented rule violated, because
other properties depend on them: the first is why what is said about ssh
destinations counts partials as copies and needs distinct ids, the second is what
`ReportTruthful` cannot
promise for longer than one run.

| Run | Documentation | Code |
|---|---|---|
| `v_completeness` | `design.md:77-79`: complete iff no `.partial` suffix and `meta.json`, everywhere | `ssh.py:32` tests `meta.json` before the suffix: a run killed between the `meta.json` copy and `mv` leaves a partial that counts as one of the newest `keep` |
| `v_only_copy` | `exit-codes.md:16`: the work_dir copy is the only one and is not deleted | `orchestrator.py:88`: the next run deletes it before it has a backup of its own |

The others came up while modelling. Each has a configuration of the same name
(`v_damaged.cfg` with `MCMixed`; `v_success`, `v_purge_failure` and `v_post_run`
with `MCLocal`; `v_hook` and `v_check` with `MCPreconditions`; the rest with the
module that defines its property) under which TLC shows the behaviour.

| Configuration | Documentation | Code |
|---|---|---|
| `v_damaged` | `design.md:93-96`: a generation that misses `meta.json` is deleted after the grace period | `ssh.py:33` prints nothing for it, so no purge ever sees it |
| `v_success` | `manifest.py:3-4`: name order is time order; `exit-codes.md:9` | `retention.py:37` sorts whole names: after a change of `name_prefix` a run can purge what it has just stored and report `SUCCESS` |
| `v_purge_failure` | `exit-codes.md:18`: cannot list a destination is `PURGE_FAILED` | `local.py:59`: an OSError from `iterdir`/`stat` is `INTERNAL_ERROR`, and the remaining destinations are not purged |
| `v_post_run` | `configuration.md:104`: `post_run` runs always | a `PreconditionError` leaves `run` without `_finish` |
| `v_timeout` | `configuration.md:22`: on timeout SIGTERM, then SIGKILL, and the run is marked failed | `backup.py:100`: the last `communicate()` has no timeout and waits for whoever holds stderr, for instance the mariabackup behind a wrapper script |
| `v_missing` | `exit-codes.md:14`: a missing mariabackup is `PRECONDITION_FAILED` | `backup.py:86`: it is a `BackupError`, so `BACKUP_FAILED` |
| `v_nested` | `base.py:3-5`: a store is retried without corrupting a prior complete generation | `ssh.py:141`: after a false "not there", `mv` puts the second copy inside the first |
| `v_late` | `design.md:69-70`: `store()` is idempotent, safe to retry | `ssh.py:169`: a `mv` that outlived its ssh commits what a second store of the id is still copying; the next store takes it for complete |
| `v_hook` | `configuration.md:95-97`: only `pre_backup` failing aborts the run | `hooks.py:34`: a blank command (IndexError) or output that is not UTF-8 (UnicodeDecodeError) ends the run with `INTERNAL_ERROR` from any hook |
| `v_check` | `exit-codes.md:20-21`: `0` if every probe passed | `orchestrator.py:227`: the return code of `mariabackup --version` is not looked at |
| `v_config_error` | `exit-codes.md:12`: a malformed file is `CONFIG_ERROR` | `config.py:143`: the UnicodeDecodeError is not caught, in `main()` neither |
| `v_work_dir` | `configuration.md:15`: `work_dir` equals no local path | `config.py:186` compares texts: a trailing slash gets through |
| `v_shared` | `configuration.md:66`: `keep` is independent per destination | `config.py:406` compares names only: two destinations may be one directory |
| `v_all_at_once` | `configuration.md:4-5`: all errors are reported together | `config.py:399`: an entry of unknown type is not looked into |

`v_nested` and `v_late` take a second store of one id. A run stores its id once
at each destination, so in mbkeeper as it is this needs two runs with the same
timestamp (a clock that was set back) or two destinations with one path; the
statements are about the contract of `store()`.

## 6. What is not modelled

* The text of things: TOML syntax, `meta.json` (only its presence is read), log
  records, the JSON summary for `post_run`, tables printed by `list` and `check`,
  the argument lists of mariabackup, ssh and rsync, argparse. No decision of the
  program depends on them beyond what the modules keep.
* `version` of `cli.py` and the registry of destination types: constants.
* rsync is taken to end; a hanging transfer would hold the lock for ever, and
  nothing in the code bounds it.
* rsync children of a killed run. The mariabackup child that outlives its run is
  in Executor, with the assumption that the next run has another id, so that the
  orphan writes to a directory of its own; the cleanup of the next run, which
  removes that directory under the orphan, is in Orchestrator, where the directory
  is dead.
* A removal is one step (or stops half-way) for a concurrent `list`; in between,
  `rmtree` may already have taken `meta.json` from a directory that is still
  there, and it is shown as incomplete.
* Directories at a destination that are not named like a generation.
* That destinations do not share a directory is assumed by Orchestrator; the configuration
  `v_shared` shows that `config.py` does not provide it, and `v_work_dir` the same
  for `work_dir`.

## 7. Plan

1. Done: `Manifest`, `Retention`, `Purging`, `PurgeLists`, `Destination`,
   `Orchestrator`, `Guarantees`, `DistinctIds`, `GenerationStore`; `Executor`,
   `RemoteStore`, `Listing`, `Preconditions`, `Config`; their runs, and the proofs
   of section 4, which cover every safety property of a passing run.
2. Left: what holds over ssh when an id is used again (a weaker count than
   `keep`), and `Tidy` over ssh if the script listed directories without a
   `meta.json`.
