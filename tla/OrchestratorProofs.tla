-------------------------- MODULE OrchestratorProofs --------------------------
(***************************************************************************)
(* Proofs of guarantees of the pipelines, for every number of invocations  *)
(* and destinations, every keep, grace period and bound.                   *)
(***************************************************************************)
EXTENDS Guarantees, FiniteSetTheorems, TLAPS

-----------------------------------------------------------------------------
(* Names                                                                   *)

\* Every id is a name, and so is its partial (manifest.py, PARTIAL_SUFFIX).
LEMMA NameFacts ==
    /\ Ids \subseteq Names
    /\ \A x \in Ids : Partial(x) \in Names
  BY DEF Names

\* A new invocation computes an id of the model (generate_backup_id).
LEMMA IdFacts ==
    /\ 0 \in Times
    /\ \A prefix \in Prefixes, t \in Times : generate_backup_id(prefix, t) \in Ids
    /\ \E prefix \in Prefixes : TRUE
  BY ManifestAssumption DEF Times, Ids

\* The id and its partial are different names.
LEMMA IdsAreInts ==
    /\ Ids \subseteq Int
    /\ \A x \in Ids : Partial(x) # x
  BY ManifestAssumption DEF Times, Ids, generate_backup_id, Partial

\* "<id>.partial" is no backup_id, and it belongs to one id.
LEMMA PartialFacts ==
    /\ \A x, y \in Ids : Partial(x) # y
    /\ \A x, y \in Ids : Partial(x) = Partial(y) => x = y
<1>1. \A x \in Ids : \E k \in Int : x = 2 * k
  <2> SUFFICES ASSUME NEW prefix \in Prefixes, NEW t \in Times
               PROVE  \E k \in Int : generate_backup_id(prefix, t) = 2 * k
    BY DEF Ids
  <2>1. prefix * (MaxClock + 1) + t \in Int
    BY ManifestAssumption DEF Times
  <2> QED
    BY <2>1 DEF generate_backup_id
<1>2. ASSUME NEW x \in Ids, NEW y \in Ids PROVE Partial(x) # y
  <2>1. PICK j \in Int, k \in Int : x = 2 * j /\ y = 2 * k
    BY <1>1
  <2> QED
    BY <2>1 DEF Partial
<1> QED
  BY <1>2, IdsAreInts DEF Partial

\* The slot of an invocation that does not run holds a job.
LEMMA NoJobType == NoJob \in Jobs
<1>1. (CHOOSE x \in Prefixes : TRUE) \in Prefixes
  BY IdFacts
<1>2. generate_backup_id(CHOOSE x \in Prefixes : TRUE, 0) \in Ids
  BY <1>1, IdFacts
<1> QED
  BY <1>2, IdFacts DEF NoJob, Jobs, Codes

-----------------------------------------------------------------------------
(* The effects of backend calls keep the types of disk and mtime           *)

DisksOK ==
    /\ disk \in [Dests -> [Names -> DirStates]]
    /\ mtime \in [Dests -> [Names -> Times]]

\* One write to one directory of one destination keeps the types.
LEMMA SetType ==
    ASSUME DisksOK, NEW d \in Dests, NEW n \in Names, NEW s \in DirStates, NEW t \in Times,
           Set(d, n, s, t)
    PROVE  DisksOK'
  BY DEF DisksOK, Set

\* store() (BeginCopy, FinishCopy, CopyMeta, Rename).
LEMMA StoreType ==
    ASSUME DisksOK, NEW d \in Dests, NEW x \in Ids, NEW t \in Times,
           \/ BeginCopy(d, x, t) \/ FinishCopy(d, x, t) \/ CopyMeta(d, x, t)
           \/ Rename(d, x, t) \/ BeginInterrupted(d, x, t)
    PROVE  DisksOK'
<1> USE NameFacts
<1>1. CASE BeginCopy(d, x, t)
  BY <1>1, SetType DEF BeginCopy, DirStates
<1>2. CASE FinishCopy(d, x, t)
  BY <1>2, SetType DEF FinishCopy, DirStates
<1>3. CASE CopyMeta(d, x, t)
  BY <1>3, SetType DEF CopyMeta, DirStates
<1>4. CASE Rename(d, x, t)
  BY <1>4, IdFacts DEF DisksOK, Rename, DirStates
<1>5. CASE BeginInterrupted(d, x, t)
  <2>1. Remains(disk[d][Partial(x)]) \subseteq DirStates
    BY DEF Remains
  <2> QED
    BY <1>5, <2>1, SetType DEF BeginInterrupted
<1> QED
  BY <1>1, <1>2, <1>3, <1>4, <1>5

\* delete(), finished or interrupted.
LEMMA DeleteType ==
    ASSUME DisksOK, NEW d \in Dests, NEW b \in Names, NEW t \in Times,
           Delete(d, b) \/ DeleteInterrupted(d, b, t)
    PROVE  DisksOK'
<1>1. CASE Delete(d, b)
  BY <1>1, IdFacts DEF DisksOK, Delete, DirStates
<1>2. CASE DeleteInterrupted(d, b, t)
  BY <1>2, IdFacts DEF DisksOK, DeleteInterrupted
<1> QED
  BY <1>1, <1>2

\* What a plan names is listed, and what is listed is a name (list_backups).
LEMMA PlanType ==
    ASSUME NEW d \in Dests, NEW k, NEW g, NEW now, NEW x
    PROVE  LET plan == select_purge(list_backups(d), k, g, now, x)
           IN  plan.keep \subseteq Names /\ plan.surplus \subseteq Names /\ plan.stale \subseteq Names
<1>1. \A b \in list_backups(d) : b.backup_id \in Names
  BY NameFacts DEF list_backups, LocalListing, SSHListing
<1> QED
  BY <1>1 DEF select_purge, Surplus

\* Trying one generation shortens what is left of the plan and touches nothing
\* else of the job.
LEMMA RestFacts ==
    ASSUME NEW d \in Dests, NEW b \in Names, NEW j \in Jobs
    PROVE  LET rest == Rest(d, b, j)
           IN  /\ rest \in Jobs
               /\ rest.surplus \subseteq j.surplus /\ rest.stale \subseteq j.stale
               /\ rest.cmd = j.cmd /\ rest.id = j.id /\ rest.now = j.now /\ rest.dry = j.dry
               /\ rest.todo = j.todo /\ rest.stored = j.stored /\ rest.failed = j.failed
               /\ rest.purged = j.purged /\ rest.kept = j.kept /\ rest.err = j.err
               /\ rest.code = j.code
  BY DEF Rest, Jobs

\* After that the destination is done with, or the loop goes on.
LEMMA DeletedMoves ==
    ASSUME NEW p, NEW d, NEW b, NEW j, Deleted(p, d, b, j)
    PROVE  Purged(p, d, Rest(d, b, j)) \/ Go(p, "delete", Rest(d, b, j))
  BY DEF Deleted

-----------------------------------------------------------------------------
(* Type correctness                                                        *)

\* The state before the first invocation is well typed: nothing stored, nobody runs.
THEOREM TypeInit == Init => TypeOK
<1> SUFFICES ASSUME Init PROVE TypeOK
  OBVIOUS
<1>1. job \in [Procs -> Jobs] /\ pc \in [Procs -> Places]
  BY NoJobType DEF Init, Places
<1>2. work \in [Ids -> DirStates]
  BY DEF Init, DirStates
<1>3. disk \in [Dests -> [Names -> DirStates]] /\ mtime \in [Dests -> [Names -> Times]]
  BY IdFacts DEF Init, DirStates
<1> QED
  BY <1>1, <1>2, <1>3, IdFacts, OrchestratorAssumption DEF Init, TypeOK

\* Every action moves one invocation (Go) and touches little else.
LEMMA GoType ==
    ASSUME TypeOK, NEW p \in Procs, NEW place \in Places, NEW j \in Jobs, Go(p, place, j),
           UNCHANGED clock, lock' \in {lock, p, NoProc}, work' \in [Ids -> DirStates],
           Fault \/ NoFault, DisksOK' \/ UNCHANGED disks
    PROVE  TypeOK'
<1>1. pc' \in [Procs -> Places] /\ job' \in [Procs -> Jobs]
  BY DEF TypeOK, Go
<1>2. faults' \in 0 .. MaxFaults
  BY OrchestratorAssumption DEF TypeOK, Fault, NoFault
<1> QED
  BY <1>1, <1>2 DEF TypeOK, DisksOK, disks

\* The exceptions and the end of purge() (Raise).
LEMMA RaiseType ==
    ASSUME TypeOK, NEW p \in Procs, NEW code \in Codes
    PROVE  [job[p] EXCEPT !.code = code] \in Jobs
<1>1. job[p] \in Jobs
  BY DEF TypeOK
<1> QED
  BY <1>1 DEF Jobs

\* The clock stays in range, forward and back.
LEMMA TypeClock == TypeOK /\ (Tick \/ StepBack) => TypeOK'
<1> SUFFICES ASSUME TypeOK, Tick \/ StepBack PROVE TypeOK'
  OBVIOUS
<1>1. MaxClock \in Nat /\ clock \in 0 .. MaxClock
  BY ManifestAssumption DEF TypeOK, Times
<1>2. clock' \in 0 .. MaxClock /\ faults' \in 0 .. MaxFaults
  <2>1. CASE Tick
    BY <1>1, <2>1 DEF Tick, TypeOK
  <2>2. CASE StepBack
    <3>1. PICK t \in 0 .. clock - 1 : clock' = t
      BY <2>2 DEF StepBack
    <3>2. faults \in 0 .. MaxFaults /\ faults < MaxFaults /\ faults' = faults + 1
      BY <2>2 DEF StepBack, Fault, TypeOK
    <3> QED
      BY <1>1, <3>1, <3>2, OrchestratorAssumption
  <2> QED
    BY <2>1, <2>2
<1>3. UNCHANGED <<lock, work, pc, job, disks>>
  BY DEF Tick, StepBack
<1> QED
  BY <1>2, <1>3 DEF TypeOK, Times, disks

\* A crash and the start of an invocation (cli.main) keep the types.
LEMMA TypeEnvironment ==
    ASSUME TypeOK, NEW p \in Procs, Crash(p) \/ StartRun(p) \/ StartPurge(p)
    PROVE  TypeOK'
<1>1. CASE Crash(p)
  <2>1. "idle" \in Places /\ lock' \in {lock, NoProc}
    BY <1>1 DEF Places, Crash
  <2> QED
    BY <1>1, <2>1, NoJobType, GoType DEF Crash, TypeOK
<1>2. CASE StartRun(p)
  <2>1. PICK prefix \in Prefixes, policy \in Policies :
           Go(p, "lock", [NoJob EXCEPT !.cmd = "run", !.policy = policy, !.now = clock,
                                       !.id = generate_backup_id(prefix, clock)])
    BY <1>2 DEF StartRun
  <2>2. generate_backup_id(prefix, clock) \in Ids /\ policy \in {"continue", "abort"}
    BY IdFacts, OrchestratorAssumption DEF TypeOK
  <2>3. [NoJob EXCEPT !.cmd = "run", !.policy = policy, !.now = clock,
                      !.id = generate_backup_id(prefix, clock)] \in Jobs
    BY <2>2, NoJobType DEF Jobs, TypeOK
  <2>4. "lock" \in Places
    BY DEF Places
  <2> QED
    BY <1>2, <2>1, <2>3, <2>4, GoType DEF StartRun, TypeOK, NoFault
<1>3. CASE StartPurge(p)
  <2>1. PICK targets \in SUBSET Dests, dry \in BOOLEAN :
           Go(p, "lock", [NoJob EXCEPT !.now = clock, !.todo = targets, !.dry = dry])
    BY <1>3 DEF StartPurge
  <2>2. [NoJob EXCEPT !.now = clock, !.todo = targets, !.dry = dry] \in Jobs
    BY NoJobType DEF Jobs, TypeOK
  <2>3. "lock" \in Places
    BY DEF Places
  <2> QED
    BY <1>3, <2>1, <2>2, <2>3, GoType DEF StartPurge, TypeOK, NoFault
<1> QED
  BY <1>1, <1>2, <1>3

\* Taking the lock or not, returning, and unexpected errors (acquire_lock,
\* cli.main) keep the types.
LEMMA TypeMain ==
    ASSUME TypeOK, NEW p \in Procs,
           Acquire(p) \/ Locked(p) \/ Exit(p) \/ Unexpected(p)
    PROVE  TypeOK'
<1> USE DEF TypeOK, NoFault
<1>1. job[p] \in Jobs /\ {"precondition", "purge", "exit", "idle"} \subseteq Places
  BY DEF Places, Inside
<1>2. "LOCKED" \in Codes /\ "INTERNAL_ERROR" \in Codes
  BY DEF Codes
<1>3. CASE Acquire(p)
  BY <1>1, <1>3, GoType DEF Acquire
<1>4. CASE Locked(p)
  BY <1>1, <1>2, <1>4, RaiseType, GoType DEF Locked, Raise
<1>5. CASE Exit(p)
  BY <1>1, <1>5, NoJobType, GoType DEF Exit, Unlock
<1>6. CASE Unexpected(p)
  BY <1>1, <1>2, <1>6, RaiseType, GoType DEF Unexpected, Raise
<1> QED
  BY <1>3, <1>4, <1>5, <1>6

\* The steps of run() outside its loops keep the types.
LEMMA TypeRun ==
    ASSUME TypeOK, NEW p \in Procs,
           \/ Precondition(p) \/ CleanWork(p) \/ Backup(p) \/ WriteMeta(p)
           \/ StoresDone(p) \/ Decide(p) \/ PurgesDone(p) \/ Finish(p)
    PROVE  TypeOK'
<1> DEFINE j == job[p]
<1> USE DEF NoFault
<1>1. j \in Jobs /\ j.id \in Ids /\ work \in [Ids -> DirStates] /\ clock \in Times
  BY DEF TypeOK, Jobs
<1>2. {"cleanup", "backup", "meta", "store", "decide", "purge", "finish", "exit"} \subseteq Places
  BY DEF Places, Inside, Storing
<1>3. CASE Precondition(p)
  <2>1. "PRECONDITION_FAILED" \in Codes
    BY DEF Codes
  <2> QED
    BY <1>1, <1>2, <1>3, <2>1, RaiseType, GoType DEF Precondition, Raise
<1>4. CASE CleanWork(p)
  <2>1. work' \in [Ids -> DirStates]
    BY <1>1, <1>4 DEF CleanWork, Remains, DirStates
  <2> QED
    BY <1>1, <1>2, <1>4, <2>1, GoType DEF CleanWork
<1>5. CASE Backup(p)
  <2>1. work' \in [Ids -> DirStates]
    BY <1>1, <1>5 DEF Backup, DirStates
  <2>2. [j EXCEPT !.code = "BACKUP_FAILED"] \in Jobs
    BY RaiseType DEF Codes
  <2> QED
    BY <1>1, <1>2, <1>5, <2>1, <2>2, GoType DEF Backup
<1>6. CASE WriteMeta(p)
  <2>1. work' \in [Ids -> DirStates]
    BY <1>1, <1>6 DEF WriteMeta, DirStates
  <2>2. [j EXCEPT !.todo = Dests, !.stamp = clock] \in Jobs
    BY <1>1 DEF Jobs
  <2> QED
    BY <1>2, <1>6, <2>1, <2>2, GoType DEF WriteMeta
<1>7. CASE StoresDone(p)
  BY <1>1, <1>2, <1>7, GoType DEF StoresDone
<1>8. CASE Decide(p)
  <2>1. [j EXCEPT !.code = "ALL_DESTINATIONS_FAILED"] \in Jobs
    BY RaiseType DEF Codes
  <2>2. [j EXCEPT !.todo = PurgeTargets(j)] \in Jobs
    BY <1>1 DEF Jobs, PurgeTargets
  <2>3. work' \in [Ids -> DirStates]
    BY <1>1, <1>8 DEF Decide, Remains
  <2>4. Fault \/ UNCHANGED faults
    BY <1>8 DEF Decide
  <2> QED
    BY <1>2, <1>8, <2>1, <2>2, <2>3, <2>4, GoType DEF Decide
<1>9. CASE PurgesDone(p)
  <2>1. ExitCode(j) \in Codes
    BY DEF ExitCode, Codes
  <2>2. [j EXCEPT !.code = ExitCode(j)] \in Jobs
    BY <2>1, RaiseType
  <2> QED
    BY <1>1, <1>2, <1>9, <2>2, GoType DEF PurgesDone
<1>10. CASE Finish(p)
  <2>1. [j EXCEPT !.notified = TRUE] \in Jobs
    BY <1>1 DEF Jobs
  <2> QED
    BY <1>1, <1>2, <1>10, <2>1, GoType DEF Finish
<1> QED
  BY <1>3, <1>4, <1>5, <1>6, <1>7, <1>8, <1>9, <1>10

\* The steps of the store loop (_store_to_destinations) keep the types.
LEMMA TypeStore ==
    ASSUME TypeOK, NEW p \in Procs, NEW d \in Dests,
           \/ StoreCheck(p, d) \/ StoreBegin(p, d) \/ StoreCopy(p, d)
           \/ StoreMeta(p, d) \/ StoreCommit(p, d) \/ StoreFail(p, d)
    PROVE  TypeOK'
<1> DEFINE j == job[p]
<1> USE DEF NoFault
<1>1. j \in Jobs /\ j.id \in Ids /\ j.stamp \in Times /\ clock \in Times /\ DisksOK
      /\ work \in [Ids -> DirStates]
  BY DEF TypeOK, Jobs, DisksOK
<1>2. {"store", "begin", "copy", "copymeta", "commit"} \subseteq Places
  BY DEF Places, Inside, Storing
<1>3. /\ [j EXCEPT !.todo = Left(j, d), !.stored = @ \cup {d}] \in Jobs
      /\ [j EXCEPT !.todo = IF j.policy = "abort" THEN {} ELSE Left(j, d),
                   !.failed = @ \cup {d}] \in Jobs
  BY <1>1 DEF Jobs, Left
<1>4. CASE StoreCheck(p, d)
  BY <1>1, <1>2, <1>3, <1>4, GoType DEF StoreCheck, Stored
<1>5. CASE StoreBegin(p, d)
  BY <1>1, <1>2, <1>5, StoreType, GoType DEF StoreBegin
<1>6. CASE StoreCopy(p, d)
  BY <1>1, <1>2, <1>6, StoreType, GoType DEF StoreCopy
<1>7. CASE StoreMeta(p, d)
  BY <1>1, <1>2, <1>7, StoreType, GoType DEF StoreMeta
<1>8. CASE StoreCommit(p, d)
  BY <1>1, <1>2, <1>3, <1>8, StoreType, GoType DEF StoreCommit, Stored
<1>9. CASE StoreFail(p, d)
  <2>1. DisksOK' \/ UNCHANGED disks
    BY <1>1, <1>9, StoreType DEF StoreFail
  <2>2. Fault \/ UNCHANGED faults
    BY <1>9 DEF StoreFail
  <2> QED
    BY <1>1, <1>2, <1>3, <1>9, <2>1, <2>2, GoType DEF StoreFail, Failed
<1> QED
  BY <1>4, <1>5, <1>6, <1>7, <1>8, <1>9

\* The steps of the purge loop (_purge_one_destination) keep the types.
LEMMA TypePurge ==
    ASSUME TypeOK, NEW p \in Procs, NEW d \in Dests,
           \/ List(p, d) \/ ListFail(p, d)
           \/ \E b \in Names : DeleteOne(p, d, b) \/ DeleteFail(p, d, b)
    PROVE  TypeOK'
<1> USE DEF NoFault
<1>1. job[p] \in Jobs /\ clock \in Times /\ DisksOK /\ work \in [Ids -> DirStates]
  BY DEF TypeOK, DisksOK
<1>2. {"purge", "delete"} \subseteq Places
  BY DEF Places, Inside
<1>3. ASSUME NEW j \in Jobs
      PROVE  [j EXCEPT !.todo = Left(j, d), !.purged = @ \cup {d},
                       !.kept = {}, !.surplus = {}, !.stale = {}, !.tried = {}] \in Jobs
  BY DEF Jobs, Left
<1>4. CASE List(p, d)
  <2> DEFINE plan == select_purge(list_backups(d), Keep[d], Grace, job[p].now, InProgress(job[p]))
  <2>1. plan.keep \subseteq Names /\ plan.surplus \subseteq Names /\ plan.stale \subseteq Names
    BY PlanType
  <2> HIDE DEF plan
  <2>2. [job[p] EXCEPT !.kept = plan.keep, !.surplus = plan.surplus, !.stale = plan.stale] \in Jobs
    BY <1>1, <2>1 DEF Jobs
  <2>3. \/ Go(p, "delete", [job[p] EXCEPT !.kept = plan.keep, !.surplus = plan.surplus,
                                          !.stale = plan.stale])
        \/ Purged(p, d, job[p])
    BY <1>4 DEF List, plan
  <2> QED
    BY <1>1, <1>2, <1>3, <1>4, <2>2, <2>3, GoType DEF List, Purged
<1>5. CASE ListFail(p, d)
  <2>1. [job[p] EXCEPT !.todo = Left(job[p], d), !.err = TRUE] \in Jobs
    BY <1>1 DEF Jobs, Left
  <2> QED
    BY <1>1, <1>2, <1>5, <2>1, GoType DEF ListFail
<1>6. ASSUME NEW b \in Names, NEW j \in Jobs, Deleted(p, d, b, j)
      PROVE  \/ \E k \in Jobs : Go(p, "purge", k)
             \/ \E k \in Jobs : Go(p, "delete", k)
  <2>1. Rest(d, b, j) \in Jobs
    BY RestFacts
  <2>2. Purged(p, d, Rest(d, b, j)) \/ Go(p, "delete", Rest(d, b, j))
    BY <1>6, DeletedMoves
  <2> QED
    BY <1>3, <2>1, <2>2 DEF Purged
<1>7. ASSUME NEW b \in Names, DeleteOne(p, d, b) \/ DeleteFail(p, d, b)
      PROVE  TypeOK'
  <2>1. [job[p] EXCEPT !.err = TRUE] \in Jobs
    BY <1>1 DEF Jobs
  <2>2. DisksOK'
    BY <1>1, <1>7, DeleteType DEF DeleteOne, DeleteFail
  <2>3. \E place \in {"purge", "delete"}, k \in Jobs : Go(p, place, k)
    BY <1>1, <1>6, <1>7, <2>1 DEF DeleteOne, DeleteFail
  <2> QED
    BY <1>1, <1>2, <1>7, <2>2, <2>3, GoType DEF DeleteOne, DeleteFail
<1> QED
  BY <1>4, <1>5, <1>7

\* No step of any invocation, and no fault, takes a variable out of its type.
LEMMA TypeStep == TypeOK /\ [Next]_vars => TypeOK'
<1> SUFFICES ASSUME TypeOK, [Next]_vars PROVE TypeOK'
  OBVIOUS
<1>1. CASE UNCHANGED vars
  BY <1>1 DEF TypeOK, vars, disks
<1>2. CASE Tick \/ StepBack
  BY <1>2, TypeClock
<1>3. ASSUME NEW p \in Procs, StartRun(p) \/ StartPurge(p) \/ Crash(p) \/ Pipeline(p)
      PROVE  TypeOK'
  BY <1>3, TypeEnvironment, TypeMain, TypeRun, TypeStore, TypePurge DEF Pipeline
<1> QED
  BY <1>1, <1>2, <1>3 DEF Next

\* The variables stay in their types in every behaviour.
THEOREM TypeCorrect == Spec => []TypeOK
  BY TypeInit, TypeStep, PTL DEF Spec

-----------------------------------------------------------------------------
(* Counting generations                                                    *)

\* There are finitely many ids, so any set of them can be counted.
LEMMA IdsFinite == IsFiniteSet(Ids)
<1> DEFINE pairs == Prefixes \X Times
           f == [z \in pairs |-> generate_backup_id(z[1], z[2])]
<1>1. IsFiniteSet(Times)
  BY ManifestAssumption, FS_Interval DEF Times
<1>2. IsFiniteSet(pairs)
  <2>1. IsFiniteSet(Prefixes)
    BY ManifestAssumption
  <2> QED
    BY <1>1, <2>1, FS_Product
<1>3. \A z \in pairs : f[z] \in Ids
  BY DEF Ids
<1>4. \A x \in Ids : \E z \in pairs : f[z] = x
  <2> SUFFICES ASSUME NEW x \in Ids PROVE \E z \in pairs : f[z] = x
    OBVIOUS
  <2>1. PICK prefix \in Prefixes, t \in Times : x = generate_backup_id(prefix, t)
    BY DEF Ids
  <2>2. <<prefix, t>> \in pairs /\ f[<<prefix, t>>] = x
    BY <2>1
  <2> QED
    BY <2>2
<1>5. f \in Surjection(pairs, Ids)
  BY <1>3, <1>4 DEF Surjection
<1> HIDE DEF pairs, f
<1> QED
  BY <1>2, <1>5, FS_Surjection

\* A larger set of ids has at least as many members.
LEMMA CountMonotone ==
    ASSUME NEW S \in SUBSET Ids, NEW T \in SUBSET S
    PROVE  Cardinality(T) \in Nat /\ Cardinality(S) \in Nat /\ Cardinality(T) <= Cardinality(S)
  BY IdsFinite, FS_Subset, FS_CardinalityType

-----------------------------------------------------------------------------
(* One invocation at a time                                                *)

Step(p) == StartRun(p) \/ StartPurge(p) \/ Crash(p) \/ Pipeline(p)

\* What the pipelines do under the lock they do alone (acquire_lock).
Exclusive == \A p \in Procs : pc[p] \in Inside => lock = p

\* A step is a move of its invocation.
LEMMA Moves ==
    ASSUME NEW p \in Procs, Step(p)
    PROVE  \E place, j : Go(p, place, j)
<1> USE DEF Raise
<1>1. CASE StartRun(p) \/ StartPurge(p) \/ Crash(p)
  BY <1>1 DEF StartRun, StartPurge, Crash
<1>2. CASE Acquire(p) \/ Locked(p) \/ Exit(p) \/ Unexpected(p)
  BY <1>2 DEF Acquire, Locked, Exit, Unexpected
<1>3. CASE \/ Precondition(p) \/ CleanWork(p) \/ Backup(p) \/ WriteMeta(p)
           \/ StoresDone(p) \/ Decide(p) \/ PurgesDone(p) \/ Finish(p)
  BY <1>3 DEF Precondition, CleanWork, Backup, WriteMeta, StoresDone, Decide, PurgesDone, Finish
<1>4. ASSUME NEW d \in Dests,
             \/ StoreCheck(p, d) \/ StoreBegin(p, d) \/ StoreCopy(p, d) \/ StoreMeta(p, d)
             \/ StoreCommit(p, d) \/ StoreFail(p, d)
      PROVE  \E place, j : Go(p, place, j)
  BY <1>4 DEF StoreCheck, StoreBegin, StoreCopy, StoreMeta, StoreCommit, StoreFail, Stored, Failed
<1>5. ASSUME NEW d \in Dests, List(p, d) \/ ListFail(p, d)
      PROVE  \E place, j : Go(p, place, j)
  BY <1>5 DEF List, ListFail, Purged
<1>6. ASSUME NEW d \in Dests, NEW b \in Names, DeleteOne(p, d, b) \/ DeleteFail(p, d, b)
      PROVE  \E place, j : Go(p, place, j)
  BY <1>6 DEF DeleteOne, DeleteFail, Deleted, Purged
<1> QED
  BY <1>1, <1>2, <1>3, <1>4, <1>5, <1>6 DEF Step, Pipeline

\* An invocation that is not inside the lock is one that starts, waits for the
\* lock or leaves (cli.main), and touches neither the work_dir nor a destination.
LEMMA Outside ==
    ASSUME NEW p \in Procs, Step(p), pc[p] \notin Inside
    PROVE  /\ StartRun(p) \/ StartPurge(p) \/ Crash(p) \/ Acquire(p) \/ Locked(p)
              \/ Exit(p) \/ Unexpected(p)
           /\ UNCHANGED <<work, disks>>
<1>1. \/ StartRun(p) \/ StartPurge(p) \/ Crash(p) \/ Acquire(p) \/ Locked(p)
      \/ Exit(p) \/ Unexpected(p)
  BY DEF Step, Pipeline, Inside, Storing, Precondition, CleanWork, Backup, WriteMeta, StoresDone,
         Decide, PurgesDone, Finish, StoreCheck, StoreBegin, StoreCopy, StoreMeta, StoreCommit,
         StoreFail, List, ListFail, DeleteOne, DeleteFail
<1> QED
  BY <1>1 DEF StartRun, StartPurge, Crash, Acquire, Locked, Exit, Unexpected, disks

\* An invocation inside the lock gives it up by being killed only.
LEMMA Within ==
    ASSUME NEW p \in Procs, Step(p), pc[p] \in Inside
    PROVE  Crash(p) \/ UNCHANGED lock
<1>1. CASE StartRun(p) \/ StartPurge(p) \/ Acquire(p) \/ Locked(p) \/ Exit(p)
  BY <1>1 DEF StartRun, StartPurge, Acquire, Locked, Exit, Inside, Storing
<1>2. CASE Unexpected(p) \/ Precondition(p) \/ CleanWork(p) \/ Backup(p) \/ WriteMeta(p)
           \/ StoresDone(p) \/ Decide(p) \/ PurgesDone(p) \/ Finish(p)
  BY <1>2 DEF Unexpected, Precondition, CleanWork, Backup, WriteMeta,
              StoresDone, Decide, PurgesDone, Finish
<1>3. ASSUME NEW d \in Dests,
             \/ StoreCheck(p, d) \/ StoreBegin(p, d) \/ StoreCopy(p, d) \/ StoreMeta(p, d)
             \/ StoreCommit(p, d) \/ StoreFail(p, d) \/ List(p, d) \/ ListFail(p, d)
             \/ \E b \in Names : DeleteOne(p, d, b) \/ DeleteFail(p, d, b)
      PROVE  UNCHANGED lock
  BY <1>3 DEF StoreCheck, StoreBegin, StoreCopy, StoreMeta, StoreCommit, StoreFail, List, ListFail,
              DeleteOne, DeleteFail
<1> QED
  BY <1>1, <1>2, <1>3 DEF Step, Pipeline

\* The lock holder is undisturbed: nobody else moves it, takes its lock, or
\* changes the work_dir or a destination under it.
LEMMA Undisturbed ==
    ASSUME TypeOK, Exclusive, NEW p \in Procs, Step(p), NEW q \in Procs, q # p
    PROVE  /\ pc'[q] = pc[q] /\ job'[q] = job[q]
           /\ lock = q => lock' = q /\ UNCHANGED <<work, disks>>
<1>1. PICK place, j : Go(p, place, j)
  BY Moves
<1>2. pc'[q] = pc[q] /\ job'[q] = job[q]
  BY <1>1 DEF Go, TypeOK
<1>3. ASSUME lock = q PROVE pc[p] \notin Inside
  BY <1>3 DEF Exclusive
<1>4. ASSUME lock = q PROVE lock' = q
  BY <1>3, <1>4, Outside, OrchestratorAssumption
     DEF StartRun, StartPurge, Crash, Acquire, LockFree, Locked, Exit, Unlock, Unexpected
<1> QED
  BY <1>2, <1>3, <1>4, Outside

\* flock excludes: no two invocations are inside the lock together.
LEMMA ExclusiveStep ==
    ASSUME TypeOK, Exclusive, NEW p \in Procs, Step(p)
    PROVE  Exclusive'
<1> SUFFICES ASSUME NEW q \in Procs, pc'[q] \in Inside PROVE lock' = q
  BY DEF Exclusive
<1>1. CASE q # p
  BY <1>1, Undisturbed DEF Exclusive
<1>2. CASE q = p /\ pc[p] \in Inside
  <2>1. ~Crash(p)
    BY <1>2 DEF Crash, Go, Inside, Storing, TypeOK
  <2> QED
    BY <1>2, <2>1, Within DEF Exclusive
<1>3. CASE q = p /\ pc[p] \notin Inside
  <2>1. Acquire(p)
    BY <1>3, Outside DEF StartRun, StartPurge, Crash, Locked, Exit, Unexpected, Raise, Go,
                         Inside, Storing, TypeOK
  <2> QED
    BY <1>3, <2>1 DEF Acquire
<1> QED
  BY <1>1, <1>2, <1>3

-----------------------------------------------------------------------------
(* The store in progress                                                   *)

\* What is being copied is complete, and so is what is about to be renamed: data
\* first, meta.json last, in work_dir and in the partial.
Source == \A p \in Procs :
             /\ pc[p] = "meta" => work[job[p].id] \in {"full", "whole"}
             /\ pc[p] \in Storing \cup {"decide"} => work[job[p].id] = "whole"
Copied == \A p \in Procs, d \in Dests :
             /\ pc[p] = "copymeta" /\ Current(p, d) => disk[d][Partial(job[p].id)] \in {"full", "whole"}
             /\ pc[p] = "commit" /\ Current(p, d) => disk[d][Partial(job[p].id)] = "whole"

\* Which steps lead into the store loop, and which go round it.
LEMMA IntoStoring ==
    ASSUME TypeOK, NEW p \in Procs, Step(p), pc'[p] \in Storing \cup {"decide"}
    PROVE  \/ WriteMeta(p)
           \/ StoresDone(p)
           \/ \E d \in Dests : \/ StoreCheck(p, d) \/ StoreBegin(p, d) \/ StoreCopy(p, d)
                               \/ StoreMeta(p, d) \/ StoreCommit(p, d) \/ StoreFail(p, d)
<1> USE DEF TypeOK, Go, Raise, Storing
<1>1. ~(StartRun(p) \/ StartPurge(p) \/ Crash(p))
  BY DEF StartRun, StartPurge, Crash
<1>2. ~(Acquire(p) \/ Locked(p) \/ Exit(p) \/ Unexpected(p))
  BY DEF Acquire, Locked, Exit, Unexpected
<1>3. ~(Precondition(p) \/ CleanWork(p) \/ Backup(p) \/ Decide(p) \/ PurgesDone(p) \/ Finish(p))
  BY DEF Precondition, CleanWork, Backup, Decide, PurgesDone, Finish
<1>4. \A d \in Dests : ~List(p, d) /\ ~ListFail(p, d)
  BY DEF List, ListFail, Purged
<1>5. \A d \in Dests, b \in Names : ~DeleteOne(p, d, b) /\ ~DeleteFail(p, d, b)
  BY DEF DeleteOne, DeleteFail, Deleted, Purged
<1> QED
  BY <1>1, <1>2, <1>3, <1>4, <1>5 DEF Step, Pipeline

\* meta.json is written after a backup that has succeeded.
LEMMA IntoMeta ==
    ASSUME TypeOK, NEW p \in Procs, Step(p), pc'[p] = "meta"
    PROVE  Backup(p)
<1> USE DEF TypeOK, Go, Raise
<1>1. ~(StartRun(p) \/ StartPurge(p) \/ Crash(p))
  BY DEF StartRun, StartPurge, Crash
<1>2. ~(Acquire(p) \/ Locked(p) \/ Exit(p) \/ Unexpected(p))
  BY DEF Acquire, Locked, Exit, Unexpected
<1>3. ~(\/ Precondition(p) \/ CleanWork(p) \/ WriteMeta(p) \/ StoresDone(p) \/ Decide(p)
        \/ PurgesDone(p) \/ Finish(p))
  BY DEF Precondition, CleanWork, WriteMeta, StoresDone, Decide, PurgesDone, Finish
<1>4. \A d \in Dests : ~StoreCheck(p, d) /\ ~StoreBegin(p, d) /\ ~StoreCopy(p, d)
                       /\ ~StoreMeta(p, d) /\ ~StoreCommit(p, d) /\ ~StoreFail(p, d)
  BY DEF StoreCheck, StoreBegin, StoreCopy, StoreMeta, StoreCommit, StoreFail, Stored, Failed
<1>5. \A d \in Dests : ~List(p, d) /\ ~ListFail(p, d)
  BY DEF List, ListFail, Purged
<1>6. \A d \in Dests, b \in Names : ~DeleteOne(p, d, b) /\ ~DeleteFail(p, d, b)
  BY DEF DeleteOne, DeleteFail, Deleted, Purged
<1> QED
  BY <1>1, <1>2, <1>3, <1>4, <1>5, <1>6 DEF Step, Pipeline

\* The steps of a store leave the id of the run alone (Stored, Failed).
LEMMA StoreKeepsId ==
    ASSUME TypeOK, NEW p \in Procs, NEW d \in Dests,
           \/ StoreCheck(p, d) \/ StoreBegin(p, d) \/ StoreCopy(p, d)
           \/ StoreMeta(p, d) \/ StoreCommit(p, d) \/ StoreFail(p, d)
    PROVE  job'[p].id = job[p].id
<1>1. job \in [Procs -> Jobs]
  BY DEF TypeOK
<1>2. ASSUME NEW place, Go(p, place, job[p]) PROVE job'[p].id = job[p].id
  BY <1>1, <1>2 DEF Go
<1>3. ASSUME Stored(p, d) \/ Failed(p, d) PROVE job'[p].id = job[p].id
  <2>1. job[p] \in Jobs
    BY <1>1
  <2>2. CASE Stored(p, d)
    BY <1>1, <2>1, <2>2 DEF Stored, Go, Jobs
  <2>3. CASE Failed(p, d)
    BY <1>1, <2>1, <2>3 DEF Failed, Go, Jobs
  <2> QED
    BY <1>3, <2>2, <2>3
<1>4. CASE StoreCheck(p, d)
  BY <1>2, <1>3, <1>4 DEF StoreCheck
<1>5. CASE StoreBegin(p, d) \/ StoreCopy(p, d) \/ StoreMeta(p, d)
  BY <1>2, <1>5 DEF StoreBegin, StoreCopy, StoreMeta
<1>6. CASE StoreCommit(p, d) \/ StoreFail(p, d)
  BY <1>3, <1>6 DEF StoreCommit, StoreFail
<1> QED
  BY <1>4, <1>5, <1>6

\* The source stays complete: only its own run touches it (CleanWork of another
\* invocation would have to take the lock first).
LEMMA SourceStep ==
    ASSUME TypeOK, Exclusive, Source, NEW p \in Procs, Step(p)
    PROVE  Source'
<1> SUFFICES ASSUME NEW q \in Procs
             PROVE  /\ pc'[q] = "meta" => work'[job'[q].id] \in {"full", "whole"}
                    /\ pc'[q] \in Storing \cup {"decide"} => work'[job'[q].id] = "whole"
  BY DEF Source
<1>1. CASE q # p
  BY <1>1, Undisturbed DEF Source, Exclusive, Inside
<1>2. CASE q = p /\ pc'[q] \in Storing \cup {"decide"}
  <2>1. CASE WriteMeta(p)
    BY <2>1, <1>2 DEF WriteMeta, Go, TypeOK, Jobs, Source
  <2>2. CASE StoresDone(p)
    BY <2>2, <1>2 DEF StoresDone, Go, TypeOK, Source, Storing
  <2>3. ASSUME NEW d \in Dests,
               \/ StoreCheck(p, d) \/ StoreBegin(p, d) \/ StoreCopy(p, d)
               \/ StoreMeta(p, d) \/ StoreCommit(p, d) \/ StoreFail(p, d)
        PROVE  /\ pc[p] \in Storing
               /\ UNCHANGED work /\ job'[p].id = job[p].id
    <3>1. pc[p] \in Storing /\ UNCHANGED work
      BY <2>3 DEF StoreCheck, StoreBegin, StoreCopy, StoreMeta, StoreCommit, StoreFail, Storing
    <3> QED
      BY <2>3, <3>1, StoreKeepsId
  <2> QED
    BY <1>2, <2>1, <2>2, <2>3, IntoStoring DEF Source
<1>3. CASE q = p /\ pc'[q] = "meta"
  <2>1. Backup(p)
    BY <1>3, IntoMeta
  <2>2. job'[p] = job[p] /\ job[p].id \in Ids
        /\ work' = [work EXCEPT ![job[p].id] = IF HasMeta(@) THEN "whole" ELSE "full"]
    BY <1>3, <2>1 DEF Backup, Go, TypeOK, Jobs
  <2> QED
    BY <1>3, <2>2 DEF TypeOK, Storing
<1> QED
  BY <1>1, <1>2, <1>3

\* The loop is at one destination.
LEMMA OneCurrent ==
    ASSUME NEW p \in Procs, NEW d \in Dests, NEW e \in Dests, Current(p, d), Current(p, e)
    PROVE  d = e
  BY DestinationAssumption DEF Current, Dests

\* What is renamed is complete: meta.json is copied last, and nobody purges or
\* rewrites the partial in between.
LEMMA CopiedStep ==
    ASSUME TypeOK, Exclusive, Copied, NEW p \in Procs, Step(p)
    PROVE  Copied'
<1> SUFFICES ASSUME NEW q \in Procs, NEW d \in Dests, pc'[q] \in {"copymeta", "commit"}, Current(q, d)'
             PROVE  /\ disk'[d][Partial(job'[q].id)] \in {"full", "whole"}
                    /\ pc'[q] = "commit" => disk'[d][Partial(job'[q].id)] = "whole"
  BY DEF Copied
<1>1. CASE q # p
  <2>1. Current(q, d) /\ UNCHANGED disk
    BY <1>1, Undisturbed DEF Current, Exclusive, Inside, Storing, disks
  <2> QED
    BY <1>1, <2>1, Undisturbed DEF Copied
<1>2. CASE q = p
  <2>1. PICK e \in Dests : StoreCopy(p, e) \/ StoreMeta(p, e)
    <3>1. ~WriteMeta(p) /\ ~StoresDone(p)
      BY <1>2 DEF WriteMeta, StoresDone, Go, TypeOK
    <3>2. \A e \in Dests : ~StoreCheck(p, e) /\ ~StoreBegin(p, e)
      BY <1>2 DEF StoreCheck, StoreBegin, Stored, Go, TypeOK
    <3>3. \A e \in Dests : ~StoreCommit(p, e) /\ ~StoreFail(p, e)
      BY <1>2 DEF StoreCommit, StoreFail, Stored, Failed, Go, TypeOK
    <3> QED
      BY <1>2, <3>1, <3>2, <3>3, IntoStoring DEF Storing
  <2>2. job'[p] = job[p] /\ Current(p, e)
    BY <2>1 DEF StoreCopy, StoreMeta, Go, TypeOK
  <2>3. d = e
    BY <1>2, <2>2, OneCurrent DEF Current
  <2>4. Partial(job[p].id) \in Names
    BY NameFacts DEF TypeOK, Jobs
  <2>5. CASE StoreCopy(p, e)
    <3>1. pc'[p] = "copymeta" /\ disk'[e][Partial(job[p].id)] \in {"full", "whole"}
      BY <2>4, <2>5 DEF StoreCopy, FinishCopy, Set, Go, TypeOK
    <3> QED
      BY <1>2, <2>2, <2>3, <3>1
  <2>6. CASE StoreMeta(p, e)
    <3>1. disk[e][Partial(job[p].id)] \in {"full", "whole"}
      BY <2>2, <2>6 DEF StoreMeta, Copied
    <3>2. disk'[e][Partial(job[p].id)] = "whole"
      BY <2>4, <2>6, <3>1 DEF StoreMeta, CopyMeta, Set, TypeOK
    <3> QED
      BY <1>2, <2>2, <2>3, <3>2
  <2> QED
    BY <2>1, <2>5, <2>6
<1> QED
  BY <1>1, <1>2

\* No step of the environment or stutter moves an invocation or a file.
LEMMA StepOrQuiet ==
    ASSUME [Next]_vars
    PROVE  (\E p \in Procs : Step(p)) \/ UNCHANGED <<lock, work, pc, job, disks>>
  BY DEF Next, Step, Tick, StepBack, vars, disks

\* What holds for destinations of either kind while a run is inside the lock.
LockInv == TypeOK /\ Exclusive /\ Source /\ Copied

\* Nobody runs at first, so nothing is being stored.
LEMMA LockInvInit == Init => LockInv
  BY TypeInit DEF Init, LockInv, Exclusive, Source, Copied, Inside, Storing

\* No step of an invocation disturbs what another one does under the lock.
LEMMA LockInvStep == LockInv /\ [Next]_vars => LockInv'
<1> SUFFICES ASSUME LockInv, [Next]_vars PROVE LockInv'
  OBVIOUS
<1>1. TypeOK'
  BY TypeStep DEF LockInv
<1>2. CASE UNCHANGED <<lock, work, pc, job, disks>>
  BY <1>1, <1>2 DEF LockInv, Exclusive, Source, Copied, Current, disks
<1>3. ASSUME NEW p \in Procs, Step(p) PROVE LockInv'
  BY <1>1, <1>3, ExclusiveStep, SourceStep, CopiedStep DEF LockInv
<1> QED
  BY <1>2, <1>3, StepOrQuiet

\* While a run copies, nobody disturbs its source, and what it renames is
\* complete: the lock protects work_dir and the partial (acquire_lock).
THEOREM StoreUndisturbed == Spec => []StoreInProgress
<1>1. LockInv => StoreInProgress
  BY DEF LockInv, Source, Copied, StoreInProgress
<1> QED
  BY <1>1, LockInvInit, LockInvStep, PTL DEF Spec

-----------------------------------------------------------------------------
(* The outcomes of a run                                                   *)

\* The outcomes add up: nothing is recorded before the store loop, every
\* destination is recorded in it unless the "abort" policy ended it by a
\* failure, and only the stored ones are purged.
Ledger(place, j) ==
    /\ place \in {"idle", "lock", "precondition", "cleanup", "backup", "meta"}
          => j.stored = {} /\ j.failed = {}
    /\ place \in Storing /\ j.failed = {} => Dests \subseteq j.todo \cup j.stored
    /\ place = "decide" /\ j.failed = {} => Dests \subseteq j.stored
    /\ place \in {"purge", "delete"} /\ j.cmd = "run" =>
          /\ j.failed = {} => Dests \subseteq j.stored
          /\ j.todo \subseteq j.stored
    /\ place \in {"finish", "exit"} /\ j.cmd = "run" /\ j.code \in {"SUCCESS", "PURGE_FAILED"}
          => Dests \subseteq j.stored

Ledgers == \A p \in Procs : Ledger(pc[p], job[p])

\* The ledger of the invocation that moves.
LEMMA LedgerStart ==
    ASSUME TypeOK, NEW p \in Procs, Ledger(pc[p], job[p]),
           \/ StartRun(p) \/ StartPurge(p) \/ Crash(p) \/ Acquire(p) \/ Locked(p) \/ Exit(p)
           \/ Unexpected(p)
    PROVE  Ledger(pc'[p], job'[p])
<1> USE DEF Ledger, Go, Raise, TypeOK, Jobs, Storing
<1>1. NoJob.stored = {} /\ NoJob.failed = {}
  BY DEF NoJob
<1>2. CASE Crash(p) \/ Exit(p)
  BY <1>1, <1>2, NoJobType DEF Crash, Exit
<1>3. CASE StartRun(p)
  <2>1. PICK prefix \in Prefixes, policy \in Policies :
           Go(p, "lock", [NoJob EXCEPT !.cmd = "run", !.policy = policy, !.now = clock,
                                       !.id = generate_backup_id(prefix, clock)])
    BY <1>3 DEF StartRun
  <2> DEFINE j == [NoJob EXCEPT !.cmd = "run", !.policy = policy, !.now = clock,
                                !.id = generate_backup_id(prefix, clock)]
  <2>2. j.stored = {} /\ j.failed = {}
    BY DEF NoJob
  <2>3. Go(p, "lock", j)
    BY <2>1
  <2> HIDE DEF j
  <2> QED
    BY <2>2, <2>3
<1>4. CASE StartPurge(p)
  <2>1. PICK targets \in SUBSET Dests, dry \in BOOLEAN :
           Go(p, "lock", [NoJob EXCEPT !.now = clock, !.todo = targets, !.dry = dry])
    BY <1>4 DEF StartPurge
  <2> DEFINE j == [NoJob EXCEPT !.now = clock, !.todo = targets, !.dry = dry]
  <2>2. j.stored = {} /\ j.failed = {}
    BY DEF NoJob
  <2>3. Go(p, "lock", j)
    BY <2>1
  <2> HIDE DEF j
  <2> QED
    BY <2>2, <2>3
<1>5. CASE Acquire(p)
  BY <1>5 DEF Acquire
<1>6. CASE Locked(p)
  BY <1>6 DEF Locked
<1>7. CASE Unexpected(p)
  BY <1>7 DEF Unexpected
<1> QED
  BY <1>2, <1>3, <1>4, <1>5, <1>6, <1>7

\* run() outside its loops: the loop starts with all destinations and empty
\* outcomes, and what is purged is what was stored.
LEMMA LedgerRun ==
    ASSUME TypeOK, NEW p \in Procs, Ledger(pc[p], job[p]),
           \/ Precondition(p) \/ CleanWork(p) \/ Backup(p) \/ WriteMeta(p)
           \/ StoresDone(p) \/ Decide(p) \/ PurgesDone(p) \/ Finish(p)
    PROVE  Ledger(pc'[p], job'[p])
<1> USE DEF Ledger, Go, Raise, TypeOK, Jobs, Storing
<1>1. CASE Precondition(p)
  BY <1>1 DEF Precondition
<1>2. CASE CleanWork(p)
  BY <1>2 DEF CleanWork
<1>3. CASE Backup(p)
  BY <1>3 DEF Backup
<1>4. CASE WriteMeta(p)
  BY <1>4 DEF WriteMeta
<1>5. CASE StoresDone(p)
  BY <1>5 DEF StoresDone
<1>6. CASE Decide(p)
  <2>1. CASE pc'[p] = "finish"
    BY <1>6, <2>1 DEF Decide
  <2>2. CASE pc'[p] # "finish"
    <3>1. pc'[p] = "purge" /\ job'[p] = [job[p] EXCEPT !.todo = PurgeTargets(job[p])]
      BY <1>6, <2>2 DEF Decide
    <3>2. job'[p].stored = job[p].stored /\ job'[p].failed = job[p].failed
          /\ job'[p].todo = job[p].stored
      BY <3>1 DEF PurgeTargets
    <3> QED
      BY <1>6, <3>1, <3>2 DEF Decide
  <2> QED
    BY <2>1, <2>2
<1>7. CASE PurgesDone(p)
  <2>1. pc'[p] \in {"finish", "exit"} /\ job'[p] = [job[p] EXCEPT !.code = ExitCode(job[p])]
    BY <1>7 DEF PurgesDone
  <2>2. job'[p].stored = job[p].stored /\ job'[p].cmd = job[p].cmd
        /\ job'[p].code = ExitCode(job[p])
    BY <2>1
  <2> QED
    BY <1>7, <2>1, <2>2 DEF PurgesDone, ExitCode
<1>8. CASE Finish(p)
  BY <1>8 DEF Finish
<1> QED
  BY <1>1, <1>2, <1>3, <1>4, <1>5, <1>6, <1>7, <1>8

\* _store_to_destinations: each destination left is recorded, and an "abort"
\* that skips some has recorded a failure.
LEMMA LedgerStore ==
    ASSUME TypeOK, NEW p \in Procs, Ledger(pc[p], job[p]), NEW d \in Dests,
           \/ StoreCheck(p, d) \/ StoreBegin(p, d) \/ StoreCopy(p, d)
           \/ StoreMeta(p, d) \/ StoreCommit(p, d) \/ StoreFail(p, d)
    PROVE  Ledger(pc'[p], job'[p])
<1> USE DEF Ledger, Go, TypeOK, Jobs, Storing
<1>1. ASSUME Stored(p, d), pc[p] \in Storing PROVE Ledger(pc'[p], job'[p])
  BY <1>1 DEF Stored, Left
<1>2. ASSUME Failed(p, d) PROVE Ledger(pc'[p], job'[p])
  BY <1>2 DEF Failed, Left
<1>3. CASE StoreCheck(p, d)
  BY <1>1, <1>3 DEF StoreCheck
<1>4. CASE StoreBegin(p, d) \/ StoreCopy(p, d) \/ StoreMeta(p, d)
  BY <1>4 DEF StoreBegin, StoreCopy, StoreMeta
<1>5. CASE StoreCommit(p, d)
  BY <1>1, <1>5 DEF StoreCommit
<1>6. CASE StoreFail(p, d)
  BY <1>2, <1>6 DEF StoreFail
<1> QED
  BY <1>3, <1>4, <1>5, <1>6

\* _purge_one_destination leaves the outcomes alone and only shortens its loop.
LEMMA LedgerPurge ==
    ASSUME TypeOK, NEW p \in Procs, Ledger(pc[p], job[p]), NEW d \in Dests,
           \/ List(p, d) \/ ListFail(p, d)
           \/ \E b \in Names : DeleteOne(p, d, b) \/ DeleteFail(p, d, b)
    PROVE  Ledger(pc'[p], job'[p])
<1>0. job[p] \in Jobs
  BY DEF TypeOK
<1>1. ASSUME NEW j \in Jobs, j.cmd = job[p].cmd, j.stored = job[p].stored, j.failed = job[p].failed,
             j.todo \subseteq job[p].todo, pc[p] \in {"purge", "delete"},
             Go(p, "purge", j) \/ Go(p, "delete", j)
      PROVE  Ledger(pc'[p], job'[p])
  <2>1. pc'[p] \in {"purge", "delete"} /\ job'[p] = j
    BY <1>1 DEF Go, TypeOK
  <2> QED
    BY <1>1, <2>1 DEF Ledger, Storing
<1>2. ASSUME NEW j \in Jobs, j.cmd = job[p].cmd, j.stored = job[p].stored, j.failed = job[p].failed,
             j.todo = job[p].todo, pc[p] \in {"purge", "delete"}, Purged(p, d, j)
      PROVE  Ledger(pc'[p], job'[p])
  <2> DEFINE k == [j EXCEPT !.todo = Left(j, d), !.purged = @ \cup {d},
                            !.kept = {}, !.surplus = {}, !.stale = {}, !.tried = {}]
  <2>1. k \in Jobs /\ k.cmd = j.cmd /\ k.stored = j.stored /\ k.failed = j.failed
        /\ k.todo \subseteq j.todo
    BY DEF Jobs, Left
  <2>2. Go(p, "purge", k)
    BY <1>2 DEF Purged
  <2> HIDE DEF k
  <2> QED
    BY <1>1, <1>2, <2>1, <2>2
<1>3. CASE ListFail(p, d)
  <2> DEFINE j == [job[p] EXCEPT !.todo = Left(job[p], d), !.err = TRUE]
  <2>1. j \in Jobs /\ j.cmd = job[p].cmd /\ j.stored = job[p].stored
        /\ j.failed = job[p].failed /\ j.todo \subseteq job[p].todo
    BY <1>0 DEF Jobs, Left
  <2>2. Go(p, "purge", j) /\ pc[p] = "purge"
    BY <1>3 DEF ListFail
  <2> HIDE DEF j
  <2> QED
    BY <1>1, <2>1, <2>2
<1>4. CASE List(p, d)
  <2> DEFINE plan == select_purge(list_backups(d), Keep[d], Grace, job[p].now, InProgress(job[p]))
             j == [job[p] EXCEPT !.kept = plan.keep, !.surplus = plan.surplus, !.stale = plan.stale]
  <2>1. plan.keep \subseteq Names /\ plan.surplus \subseteq Names /\ plan.stale \subseteq Names
    BY PlanType
  <2>2. (Purged(p, d, job[p]) \/ Go(p, "delete", j)) /\ pc[p] = "purge"
    BY <1>4 DEF List
  <2> HIDE DEF plan
  <2>3. j \in Jobs /\ j.cmd = job[p].cmd /\ j.stored = job[p].stored
        /\ j.failed = job[p].failed /\ j.todo = job[p].todo
    BY <1>0, <2>1 DEF Jobs
  <2> HIDE DEF j
  <2> QED
    BY <1>0, <1>1, <1>2, <2>2, <2>3
<1>5. ASSUME NEW b \in Names, NEW j \in Jobs, Deleted(p, d, b, j), pc[p] = "delete",
             j.cmd = job[p].cmd, j.stored = job[p].stored, j.failed = job[p].failed,
             j.todo = job[p].todo
      PROVE  Ledger(pc'[p], job'[p])
  <2> DEFINE rest == Rest(d, b, j)
  <2>1. rest \in Jobs /\ rest.cmd = j.cmd /\ rest.stored = j.stored
        /\ rest.failed = j.failed /\ rest.todo = j.todo
    BY RestFacts
  <2>2. Purged(p, d, rest) \/ Go(p, "delete", rest)
    BY <1>5, DeletedMoves
  <2> HIDE DEF rest
  <2> QED
    BY <1>1, <1>2, <1>5, <2>1, <2>2
<1>6. ASSUME NEW b \in Names, DeleteOne(p, d, b) PROVE Ledger(pc'[p], job'[p])
  BY <1>5, <1>6 DEF DeleteOne, TypeOK
<1>7. ASSUME NEW b \in Names, DeleteFail(p, d, b) PROVE Ledger(pc'[p], job'[p])
  <2> DEFINE j == [job[p] EXCEPT !.err = TRUE]
  <2>1. j \in Jobs /\ j.cmd = job[p].cmd /\ j.stored = job[p].stored
        /\ j.failed = job[p].failed /\ j.todo = job[p].todo
    BY <1>0 DEF Jobs
  <2>2. Deleted(p, d, b, j) /\ pc[p] = "delete"
    BY <1>7 DEF DeleteFail
  <2> HIDE DEF j
  <2> QED
    BY <1>5, <2>1, <2>2
<1> QED
  BY <1>3, <1>4, <1>6, <1>7

\* The ledger of every invocation adds up after every step.
LEMMA LedgersStep ==
    ASSUME TypeOK, Exclusive, Ledgers, NEW p \in Procs, Step(p)
    PROVE  Ledgers'
<1> SUFFICES ASSUME NEW q \in Procs PROVE Ledger(pc'[q], job'[q])
  BY DEF Ledgers
<1>1. CASE q # p
  BY <1>1, Undisturbed DEF Ledgers
<1>2. CASE q = p
  BY <1>2, LedgerStart, LedgerRun, LedgerStore, LedgerPurge DEF Ledgers, Step, Pipeline
<1> QED
  BY <1>1, <1>2

\* A run that is about to report still holds the lock, and the copy it reports
\* as the last one is complete.
Reported == {"SUCCESS", "PURGE_FAILED", "PARTIAL_DESTINATION_FAILURE", "ALL_DESTINATIONS_FAILED"}
Results ==
    \A p \in Procs :
       /\ pc[p] = "exit" /\ job[p].code \in Reported => lock = p
       /\ pc[p] \in {"finish", "exit"} /\ job[p].code = "ALL_DESTINATIONS_FAILED"
             => work[job[p].id] = "whole"

\* The steps that lead to a report.
LEMMA IntoReport ==
    ASSUME TypeOK, NEW p \in Procs, Step(p), pc'[p] \in {"finish", "exit"},
           job'[p].code \in Reported
    PROVE  Decide(p) \/ PurgesDone(p) \/ Finish(p)
<1> USE DEF TypeOK, Jobs, Go, Raise, Reported
<1>1. ~(StartRun(p) \/ StartPurge(p) \/ Crash(p))
  BY DEF StartRun, StartPurge, Crash
<1>2. ~(Acquire(p) \/ Locked(p) \/ Exit(p) \/ Unexpected(p))
  BY DEF Acquire, Locked, Exit, Unexpected
<1>3. ~(Precondition(p) \/ CleanWork(p) \/ Backup(p) \/ WriteMeta(p) \/ StoresDone(p))
  BY DEF Precondition, CleanWork, Backup, WriteMeta, StoresDone
<1>4. \A d \in Dests : ~StoreCheck(p, d) /\ ~StoreBegin(p, d) /\ ~StoreCopy(p, d)
                       /\ ~StoreMeta(p, d) /\ ~StoreCommit(p, d) /\ ~StoreFail(p, d)
  BY DEF StoreCheck, StoreBegin, StoreCopy, StoreMeta, StoreCommit, StoreFail, Stored, Failed
<1>5. \A d \in Dests : ~List(p, d) /\ ~ListFail(p, d)
  BY DEF List, ListFail, Purged
<1>6. \A d \in Dests, b \in Names : ~DeleteOne(p, d, b) /\ ~DeleteFail(p, d, b)
  BY DEF DeleteOne, DeleteFail, Deleted, Purged
<1> QED
  BY <1>1, <1>2, <1>3, <1>4, <1>5, <1>6 DEF Step, Pipeline

\* The report of a run is made under the lock, on the outcomes of its own loop.
LEMMA ResultsStep ==
    ASSUME TypeOK, Exclusive, Source, Results, NEW p \in Procs, Step(p)
    PROVE  Results'
<1> SUFFICES ASSUME NEW q \in Procs, pc'[q] \in {"finish", "exit"}, job'[q].code \in Reported
             PROVE  /\ pc'[q] = "exit" => lock' = q
                    /\ job'[q].code = "ALL_DESTINATIONS_FAILED" => work'[job'[q].id] = "whole"
  BY DEF Results, Reported
<1>1. CASE q # p
  <2>1. lock = q
    BY <1>1, Undisturbed DEF Results, Exclusive, Inside
  <2> QED
    BY <1>1, <2>1, Undisturbed DEF Results
<1>2. CASE q = p
  <2>1. CASE Decide(p)
    <3>1. pc'[p] = "finish" /\ pc[p] = "decide" /\ UNCHANGED work
      BY <1>2, <2>1 DEF Decide, Go, TypeOK
    <3>2. job'[p].id = job[p].id
      BY <2>1 DEF Decide, Go, TypeOK, Jobs
    <3> QED
      BY <1>2, <3>1, <3>2 DEF Source
  <2>2. CASE PurgesDone(p)
    <3>1. lock = p /\ UNCHANGED lock
      BY <2>2 DEF PurgesDone, Exclusive, Inside
    <3>2. job'[p].code # "ALL_DESTINATIONS_FAILED"
      BY <2>2 DEF PurgesDone, ExitCode, Go, TypeOK, Jobs
    <3> QED
      BY <1>2, <3>1, <3>2
  <2>3. CASE Finish(p)
    <3>1. lock = p /\ UNCHANGED <<lock, work>>
      BY <2>3 DEF Finish, Exclusive, Inside
    <3>2. job'[p].id = job[p].id /\ job'[p].code = job[p].code
      BY <2>3 DEF Finish, Go, TypeOK, Jobs
    <3>3. pc[p] = "finish"
      BY <2>3 DEF Finish
    <3> QED
      BY <1>2, <3>1, <3>2, <3>3 DEF Results
  <2> QED
    BY <1>2, <2>1, <2>2, <2>3, IntoReport
<1> QED
  BY <1>1, <1>2

-----------------------------------------------------------------------------
(* Generations and counts                                                  *)

\* The heart of retention: when at most one generation y goes, and only with
\* keep newer ones there, nothing else loses its keep newer generations, and
\* whatever was there or replaced is still there or replaced.
LEMMA Replaced ==
    ASSUME NEW before \in SUBSET Ids, NEW after \in SUBSET Ids, NEW k \in Nat, NEW y \in Ids,
           before \ {y} \subseteq after,
           y \in before \ after => Cardinality(Newer(y, before)) >= k,
           NEW x \in Ids
    PROVE  /\ Cardinality(Newer(x, before)) >= k => Cardinality(Newer(x, after)) >= k
           /\ x \in before \/ Cardinality(Newer(x, before)) >= k
                 => x \in after \/ Cardinality(Newer(x, after)) >= k
<1>1. \A z \in Ids : Newer(z, before) \subseteq Ids /\ Newer(z, after) \subseteq Ids
  BY DEF Newer
<1>2. CASE before \subseteq after
  <2>1. Newer(x, before) \subseteq Newer(x, after)
    BY <1>2 DEF Newer
  <2> QED
    BY <1>1, <1>2, <2>1, CountMonotone
<1>3. CASE y \in before \ after
  <2>1. CASE y > x
    <3>1. Newer(y, before) \subseteq Newer(x, after)
      <4> SUFFICES ASSUME NEW z \in before, z > y PROVE z \in after /\ z > x
        BY DEF Newer
      <4>1. x \in Int /\ y \in Int /\ z \in Int
        BY IdsAreInts
      <4> QED
        BY <2>1, <4>1
    <3> QED
      BY <1>1, <1>3, <3>1, CountMonotone
  <2>2. CASE ~(y > x)
    <3>1. Newer(x, before) \subseteq Newer(x, after)
      BY <2>2 DEF Newer
    <3>2. Cardinality(Newer(x, before)) >= k => Cardinality(Newer(x, after)) >= k
      BY <1>1, <3>1, CountMonotone
    <3>3. x = y => Cardinality(Newer(x, before)) >= k
      BY <1>3
    <3> QED
      BY <3>2, <3>3
  <2> QED
    BY <2>1, <2>2
<1> QED
  BY <1>2, <1>3

-----------------------------------------------------------------------------
(* Local destinations                                                      *)

Enough(d, x) == Cardinality(Newer(x, Held(d))) >= Keep[d]

\* A generation directory with a meta.json has no partial beside it, and is
\* whole or replaced.
Single == \A d \in Local, x \in Ids :
             HasMeta(disk[d][x]) => disk[d][Partial(x)] = "none" /\ Safe(d, x)

\* What is being stored is not there yet.
Writing(p, d, x) == pc[p] \in Storing \ {"store"} /\ Current(p, d) /\ x = job[p].id
Fresh == \A p \in Procs, d \in Local, x \in Ids : Writing(p, d, x) => ~HasMeta(disk[d][x])

\* What is planned for deletion has keep newer generations, or is damaged.
Planned == \A p \in Procs, d \in Local :
              pc[p] = "delete" /\ Current(p, d) =>
                 /\ job[p].surplus \subseteq Ids /\ job[p].stale \subseteq Ids
                 /\ \A x \in job[p].surplus : Enough(d, x)
                 /\ \A x \in job[p].stale : ~HasMeta(disk[d][x])

\* What a run has stored is there or replaced.
Kept == \A p \in Procs : lock = p => \A d \in job[p].stored \cap Local : Safe(d, job[p].id)

\* What a step may do to one local destination.
Apart(d, x) == \A n \in Names \ {x, Partial(x)} : disk'[d][n] = disk[d][n]
Write(d, x) ==
    /\ Apart(d, x)
    /\ \/ disk'[d][x] = disk[d][x]
       \/ disk'[d][x] = "whole" /\ disk'[d][Partial(x)] = "none"
Remove(d, x) ==
    /\ Apart(d, x)
    /\ \A n \in {x, Partial(x)} : disk'[d][n] \in Remains(disk[d][n])

\* store() adds its generation or nothing.
LEMMA StoreEffect ==
    ASSUME TypeOK, Copied, NEW p \in Procs, NEW d \in Local, NEW e \in Dests,
           \/ StoreCheck(p, e) \/ StoreBegin(p, e) \/ StoreCopy(p, e)
           \/ StoreMeta(p, e) \/ StoreCommit(p, e) \/ StoreFail(p, e)
    PROVE  disk'[d] = disk[d] \/ \E x \in Ids : Writing(p, d, x) /\ Write(d, x)
<1>1. PICK x \in Ids : x = job[p].id
  BY DEF TypeOK, Jobs
<1>2. /\ d \in Dests /\ Kind[d] = "local"
      /\ Partial(x) \in Names /\ x \in Names /\ Partial(x) # x
      /\ disk \in [Dests -> [Names -> DirStates]]
  BY NameFacts, IdsAreInts DEF TypeOK, Local
<1> SUFFICES disk'[d] = disk[d] \/ (Writing(p, d, x) /\ Write(d, x))
  OBVIOUS
<1>3. ASSUME NEW s, NEW t, Set(e, Partial(x), s, t), Writing(p, e, x)
      PROVE  disk'[d] = disk[d] \/ (Writing(p, d, x) /\ Write(d, x))
  BY <1>2, <1>3 DEF Set, Write, Apart
<1>4. CASE StoreCheck(p, e)
  BY <1>4 DEF StoreCheck, disks
<1>5. CASE StoreBegin(p, e) \/ StoreCopy(p, e) \/ StoreMeta(p, e)
  <2>1. Writing(p, e, x)
    BY <1>1, <1>5 DEF StoreBegin, StoreCopy, StoreMeta, Writing, Storing
  <2> QED
    BY <1>1, <1>3, <1>5, <2>1 DEF StoreBegin, StoreCopy, StoreMeta, BeginCopy, FinishCopy, CopyMeta
<1>6. CASE StoreCommit(p, e)
  <2>1. Writing(p, e, x) /\ Rename(e, x, clock) /\ pc[p] = "commit"
    BY <1>1, <1>6 DEF StoreCommit, Writing, Storing
  <2>2. disk[e][Partial(x)] = "whole"
    BY <2>1 DEF Copied, Writing
  <2> QED
    BY <1>2, <2>1, <2>2 DEF Rename, Nests, Write, Apart
<1>7. CASE StoreFail(p, e)
  <2>1. CASE UNCHANGED disks
    BY <2>1 DEF disks
  <2>2. CASE pc[p] = "begin" /\ BeginInterrupted(e, x, clock)
    <3>1. Writing(p, e, x)
      BY <1>1, <1>7, <2>2 DEF StoreFail, Writing, Storing
    <3>2. PICK rest : Set(e, Partial(x), rest, clock)
      BY <2>2 DEF BeginInterrupted
    <3> QED
      BY <1>3, <3>1, <3>2
  <2>3. CASE Kind[e] = "ssh" /\ Rename(e, x, clock)
    BY <1>2, <2>3 DEF Rename
  <2> QED
    BY <1>1, <1>7, <2>1, <2>2, <2>3 DEF StoreFail
<1> QED
  BY <1>4, <1>5, <1>6, <1>7

\* delete() takes from the id it was called for, and from its partial.
Deleting(p, d, b) ==
    pc[p] = "delete" /\ Current(p, d) /\ b \in (job[p].surplus \cup job[p].stale) \cap Ids

\* delete() of a planned id changes that id and its partial at one destination.
LEMMA DeleteEffect ==
    ASSUME TypeOK, Planned, NEW p \in Procs, NEW d \in Local, NEW e \in Dests, NEW b \in Names,
           DeleteOne(p, e, b) \/ DeleteFail(p, e, b)
    PROVE  disk'[d] = disk[d] \/ (Deleting(p, d, b) /\ Remove(d, b))
<1>1. d \in Dests /\ disk \in [Dests -> [Names -> DirStates]]
  BY DEF TypeOK, Local
<1>2. pc[p] = "delete" /\ Current(p, e) /\ b \in job[p].surplus \cup job[p].stale
  BY DEF DeleteOne, DeleteFail, NextToDelete
<1>3. CASE d # e
  <2>1. \E f : disk' = [disk EXCEPT ![e] = f]
    BY DEF DeleteOne, DeleteFail, Delete, DeleteInterrupted
  <2> QED
    BY <1>1, <1>3, <2>1
<1>4. CASE d = e
  <2>1. Deleting(p, d, b)
    BY <1>2, <1>4 DEF Planned, Deleting
  <2>2. b \in Ids /\ Victims(b) = {b, Partial(b)} /\ {b, Partial(b)} \subseteq Names
    BY <2>1, NameFacts DEF Deleting, Victims
  <2>3. CASE Delete(d, b)
    BY <1>1, <2>1, <2>2, <2>3 DEF Delete, Remove, Apart, Remains, DirStates
  <2>4. CASE DeleteInterrupted(d, b, clock)
    BY <1>1, <2>1, <2>2, <2>4 DEF DeleteInterrupted, Remove, Apart
  <2> QED
    BY <1>4, <2>3, <2>4 DEF DeleteOne, DeleteFail
<1> QED
  BY <1>3, <1>4

\* All that can happen to a local destination.
LEMMA LocalEffect ==
    ASSUME TypeOK, Copied, Planned, NEW p \in Procs, Step(p), NEW d \in Local
    PROVE  \/ disk'[d] = disk[d]
           \/ \E x \in Ids : Writing(p, d, x) /\ Write(d, x)
           \/ \E b \in Ids : Deleting(p, d, b) /\ Remove(d, b)
<1>1. CASE UNCHANGED disks
  BY <1>1 DEF disks
<1>2. CASE \/ StartRun(p) \/ StartPurge(p) \/ Crash(p) \/ Acquire(p) \/ Locked(p)
           \/ Exit(p) \/ Unexpected(p)
  BY <1>1, <1>2 DEF StartRun, StartPurge, Crash, Acquire, Locked, Exit, Unexpected
<1>3. CASE \/ Precondition(p) \/ CleanWork(p) \/ Backup(p) \/ WriteMeta(p)
           \/ StoresDone(p) \/ Decide(p) \/ PurgesDone(p) \/ Finish(p)
  BY <1>1, <1>3 DEF Precondition, CleanWork, Backup, WriteMeta, StoresDone, Decide,
                    PurgesDone, Finish
<1>4. ASSUME NEW e \in Dests, List(p, e) \/ ListFail(p, e)
      PROVE  UNCHANGED disks
  BY <1>4 DEF List, ListFail
<1>5. ASSUME NEW e \in Dests,
             \/ StoreCheck(p, e) \/ StoreBegin(p, e) \/ StoreCopy(p, e)
             \/ StoreMeta(p, e) \/ StoreCommit(p, e) \/ StoreFail(p, e)
      PROVE  disk'[d] = disk[d] \/ \E x \in Ids : Writing(p, d, x) /\ Write(d, x)
  BY <1>5, StoreEffect
<1>6. ASSUME NEW e \in Dests, NEW b \in Names, DeleteOne(p, e, b) \/ DeleteFail(p, e, b)
      PROVE  disk'[d] = disk[d] \/ \E c \in Ids : Deleting(p, d, c) /\ Remove(d, c)
  BY <1>6, DeleteEffect DEF Deleting
<1> QED
  BY <1>1, <1>2, <1>3, <1>4, <1>5, <1>6 DEF Step, Pipeline

\* So it gains a generation, or loses one that keep newer ones replace, or
\* neither (Commit and Expire of GenerationStore).
LEMMA HeldEffect ==
    ASSUME TypeOK, Copied, Planned, NEW p \in Procs, Step(p), NEW d \in Local
    PROVE  \/ Held(d)' = Held(d)
           \/ \E x \in Ids : Held(d)' = Held(d) \cup {x}
           \/ \E x \in Ids : Held(d)' = Held(d) \ {x} /\ Enough(d, x)
<1>1. CASE disk'[d] = disk[d]
  BY <1>1 DEF Held
<1>2. ASSUME NEW x \in Ids, Write(d, x)
      PROVE  Held(d)' = Held(d) \/ Held(d)' = Held(d) \cup {x}
  <2>1. \A y \in Ids \ {x} : disk'[d][y] = disk[d][y]
    BY <1>2, PartialFacts, NameFacts DEF Write, Apart
  <2> QED
    BY <1>2, <2>1 DEF Write, Held
<1>3. ASSUME NEW b \in Ids, Deleting(p, d, b), Remove(d, b)
      PROVE  \/ Held(d)' = Held(d)
             \/ Held(d)' = Held(d) \ {b} /\ Enough(d, b)
  <2>1. \A y \in Ids \ {b} : disk'[d][y] = disk[d][y]
    BY <1>3, PartialFacts, NameFacts DEF Remove, Apart
  <2>2. disk'[d][b] = "whole" => disk[d][b] = "whole"
    BY <1>3 DEF Remove, Remains
  <2>3. Held(d)' = Held(d) \/ (b \in Held(d) /\ Held(d)' = Held(d) \ {b})
    <3>1. \A y \in Ids \ {b} : y \in Held(d)' <=> y \in Held(d)
      BY <2>1 DEF Held
    <3>2. Held(d) \subseteq Ids /\ Held(d)' \subseteq Ids /\ (b \in Held(d)' => b \in Held(d))
      BY <2>2 DEF Held
    <3> QED
      BY <3>1, <3>2
  <2>4. b \in Held(d) => Enough(d, b)
    BY <1>3 DEF Deleting, Planned, Held, HasMeta
  <2> QED
    BY <2>3, <2>4
<1> QED
  BY <1>1, <1>2, <1>3, LocalEffect

\* Hence what is there or replaced stays there or replaced.
LEMMA SafeStep ==
    ASSUME TypeOK, Copied, Planned, NEW p \in Procs, Step(p), NEW d \in Local, NEW x \in Ids
    PROVE  /\ Enough(d, x) => Enough(d, x)'
           /\ Safe(d, x) => Safe(d, x)'
<1> DEFINE before == Held(d)
           after == Held(d)'
<1>1. Keep[d] \in Nat
  BY OrchestratorAssumption DEF Local
<1>2. before \in SUBSET Ids /\ after \in SUBSET Ids
  BY DEF Held
<1>3. \E y \in Ids : /\ before \ {y} \subseteq after
                     /\ y \in before \ after => Cardinality(Newer(y, before)) >= Keep[d]
  BY HeldEffect DEF Enough
<1>4. /\ Safe(d, x) <=> x \in before \/ Cardinality(Newer(x, before)) >= Keep[d]
      /\ Safe(d, x)' <=> x \in after \/ Cardinality(Newer(x, after)) >= Keep[d]
      /\ Enough(d, x) <=> Cardinality(Newer(x, before)) >= Keep[d]
      /\ Enough(d, x)' <=> Cardinality(Newer(x, after)) >= Keep[d]
  BY DEF Safe, Enough, Newer
<1> HIDE DEF before, after
<1> QED
  BY <1>1, <1>2, <1>3, <1>4, Replaced

\* A removal, finished or not, never makes a directory look complete.
LEMMA RemainsFacts ==
    /\ \A s \in DirStates : \A rest \in Remains(s) : HasMeta(rest) => HasMeta(s)
    /\ Remains("none") = {"none"}
  BY DEF Remains, HasMeta, DirStates

\* Commits and removals leave no complete generation beside its partial, and no
\* damaged one that is not replaced.
LEMMA SingleStep ==
    ASSUME TypeOK, Copied, Planned, Fresh, Single, NEW p \in Procs, Step(p)
    PROVE  Single'
<1> SUFFICES ASSUME NEW d \in Local, NEW x \in Ids, HasMeta(disk'[d][x])
             PROVE  disk'[d][Partial(x)] = "none" /\ Safe(d, x)'
  BY DEF Single
<1>1. x \in Names /\ Partial(x) \in Names /\ disk[d] \in [Names -> DirStates]
  BY NameFacts DEF TypeOK, Local
<1>2. ASSUME HasMeta(disk[d][x]), disk'[d][Partial(x)] = "none"
      PROVE  disk'[d][Partial(x)] = "none" /\ Safe(d, x)'
  BY <1>2, SafeStep DEF Single
<1>3. ASSUME NEW y \in Ids, y # x, Apart(d, y)
      PROVE  disk'[d][x] = disk[d][x] /\ disk'[d][Partial(x)] = disk[d][Partial(x)]
  BY <1>1, <1>3, PartialFacts DEF Apart
<1>4. CASE disk'[d] = disk[d]
  BY <1>2, <1>4 DEF Single
<1>5. ASSUME NEW y \in Ids, Writing(p, d, y), Write(d, y)
      PROVE  disk'[d][Partial(x)] = "none" /\ Safe(d, x)'
  <2>1. CASE y # x
    BY <1>2, <1>3, <1>5, <2>1 DEF Write, Single
  <2>2. CASE y = x
    <3>1. disk'[d][x] = "whole" /\ disk'[d][Partial(x)] = "none"
      BY <1>5, <2>2 DEF Write, Fresh
    <3> QED
      BY <3>1 DEF Safe, Held
  <2> QED
    BY <2>1, <2>2
<1>6. ASSUME NEW b \in Ids, Remove(d, b)
      PROVE  disk'[d][Partial(x)] = "none" /\ Safe(d, x)'
  <2>1. CASE b # x
    BY <1>2, <1>3, <1>6, <2>1 DEF Remove, Single
  <2>2. CASE b = x
    <3>1. HasMeta(disk[d][x])
      BY <1>1, <1>6, <2>2, RemainsFacts DEF Remove
    <3>2. disk'[d][Partial(x)] = "none"
      BY <1>6, <2>2, <3>1, RemainsFacts DEF Remove, Single
    <3> QED
      BY <1>2, <3>1, <3>2
  <2> QED
    BY <2>1, <2>2
<1> QED
  BY <1>4, <1>5, <1>6, LocalEffect

\* A store goes on only where its generation was absent, and stays absent until
\* the commit, since the store is alone under the lock.
LEMMA FreshStep ==
    ASSUME TypeOK, Exclusive, Fresh, NEW p \in Procs, Step(p)
    PROVE  Fresh'
<1> SUFFICES ASSUME NEW q \in Procs, NEW d \in Local, NEW x \in Ids, Writing(q, d, x)'
             PROVE  ~HasMeta(disk'[d][x])
  BY DEF Fresh
<1>1. /\ d \in Dests /\ Kind[d] = "local" /\ disk \in [Dests -> [Names -> DirStates]]
      /\ x \in Names /\ Partial(x) \in Names /\ Partial(x) # x
  BY NameFacts, IdsAreInts DEF Local, TypeOK
<1>2. CASE q # p
  <2>1. pc'[q] = pc[q] /\ job'[q] = job[q]
    BY <1>2, Undisturbed
  <2>2. Writing(q, d, x)
    BY <2>1 DEF Writing, Current
  <2>3. UNCHANGED disk
    BY <1>2, <2>2, Undisturbed DEF Writing, Exclusive, Inside, Storing, disks
  <2> QED
    BY <2>2, <2>3 DEF Fresh
<1>3. CASE q = p
  <2>1. pc'[p] \in {"begin", "copy", "copymeta", "commit"} /\ x = job'[p].id
    BY <1>3 DEF Writing, Storing
  <2>2. PICK e \in Dests : StoreCheck(p, e) \/ StoreBegin(p, e) \/ StoreCopy(p, e) \/ StoreMeta(p, e)
    <3>1. ~WriteMeta(p) /\ ~StoresDone(p)
      BY <2>1 DEF WriteMeta, StoresDone, Go, TypeOK
    <3>2. \A e \in Dests : ~StoreCommit(p, e) /\ ~StoreFail(p, e)
      BY <2>1 DEF StoreCommit, StoreFail, Stored, Failed, Go, TypeOK
    <3> QED
      BY <2>1, <3>1, <3>2, IntoStoring DEF Storing
  <2>3. job'[p] = job[p] /\ Current(p, e)
    BY <2>1, <2>2 DEF StoreCheck, StoreBegin, StoreCopy, StoreMeta, Stored, Go, TypeOK
  <2>4. d = e
    BY <1>1, <1>3, <2>3, OneCurrent DEF Writing, Current
  <2>5. CASE StoreCheck(p, e)
    BY <1>1, <2>1, <2>3, <2>4, <2>5 DEF StoreCheck, AlreadyStored, Stored, Go, TypeOK, disks
  <2>6. CASE StoreBegin(p, e) \/ StoreCopy(p, e) \/ StoreMeta(p, e)
    <3>1. Writing(p, d, x)
      BY <2>1, <2>3, <2>4, <2>6 DEF StoreBegin, StoreCopy, StoreMeta, Writing, Storing
    <3>2. \E s, t : Set(d, Partial(x), s, t)
      BY <2>1, <2>3, <2>4, <2>6 DEF StoreBegin, StoreCopy, StoreMeta, BeginCopy, FinishCopy, CopyMeta
    <3>3. disk'[d][x] = disk[d][x]
      BY <1>1, <3>2 DEF Set
    <3> QED
      BY <3>1, <3>3 DEF Fresh
  <2> QED
    BY <2>2, <2>5, <2>6
<1> QED
  BY <1>2, <1>3

\* select_purge on the listing of a local destination names as surplus what is
\* replaced, and as stale no complete generation.
LEMMA PlanSound ==
    ASSUME TypeOK, Single, NEW d \in Local, NEW g, NEW now, NEW id
    PROVE  LET plan == select_purge(list_backups(d), Keep[d], g, now, id)
           IN  /\ plan.surplus \subseteq Ids /\ plan.stale \subseteq Ids
               /\ \A x \in plan.surplus : Enough(d, x)
               /\ \A x \in plan.stale : ~HasMeta(disk[d][x])
<1> DEFINE listed == list_backups(d)
           complete == {b.backup_id : b \in {b \in listed : b.complete}}
           plan == select_purge(listed, Keep[d], g, now, id)
<1>1. d \in Dests /\ Kind[d] = "local" /\ Keep[d] \in Nat
  BY OrchestratorAssumption DEF Local
<1>2. listed = LocalListing(d)
  BY <1>1 DEF list_backups
<1>3. \A b \in listed : b.backup_id \in Ids /\ (b.complete => HasMeta(disk[d][b.backup_id]))
  BY <1>2 DEF LocalListing
<1>4. \A b \in listed : ~b.complete => ~HasMeta(disk[d][b.backup_id])
  BY <1>2 DEF LocalListing, Single
<1>5. complete \subseteq Ids /\ \A h \in complete : HasMeta(disk[d][h])
  BY <1>3
<1> HIDE DEF listed, complete
<1>6. plan.surplus = Surplus(complete, Keep[d])
      /\ plan.stale \subseteq {b.backup_id : b \in {b \in listed : ~b.complete}}
  BY DEF select_purge, complete
<1> HIDE DEF plan
<1>7. ASSUME NEW x \in Ids, Cardinality(Newer(x, complete)) >= Keep[d]
      PROVE  Enough(d, x)
  <2>1. Newer(x, complete) \subseteq Ids /\ \A h \in Ids : Newer(h, Held(d)) \subseteq Ids
    BY <1>5 DEF Newer, Held
  <2>2. CASE Newer(x, complete) \subseteq Held(d)
    <3>1. Newer(x, complete) \subseteq Newer(x, Held(d))
      BY <2>2 DEF Newer
    <3> QED
      BY <1>1, <1>7, <2>1, <3>1, CountMonotone DEF Enough
  <2>3. CASE ~(Newer(x, complete) \subseteq Held(d))
    <3>1. PICK h \in complete : h > x /\ h \notin Held(d)
      BY <2>3 DEF Newer
    <3>2. Cardinality(Newer(h, Held(d))) >= Keep[d]
      BY <1>1, <1>5, <3>1 DEF Single, Safe, Newer
    <3>3. Newer(h, Held(d)) \subseteq Newer(x, Held(d))
      <4> SUFFICES ASSUME NEW z \in Held(d), z > h PROVE z > x
        BY DEF Newer
      <4>1. x \in Int /\ h \in Int /\ z \in Int
        BY <1>5, IdsAreInts DEF Held
      <4> QED
        BY <3>1, <4>1
    <3> QED
      BY <1>1, <1>5, <2>1, <3>2, <3>3, CountMonotone DEF Enough
  <2> QED
    BY <2>2, <2>3
<1>8. plan.surplus \subseteq Ids /\ \A x \in plan.surplus : Enough(d, x)
  BY <1>5, <1>6, <1>7 DEF Surplus
<1>9. plan.stale \subseteq Ids /\ \A x \in plan.stale : ~HasMeta(disk[d][x])
  BY <1>3, <1>4, <1>6
<1> QED
  BY <1>8, <1>9 DEF plan, listed

\* The plan stays sound while it is carried out, because nobody else touches
\* the destination in between, and what it deletes has newer generations.
LEMMA PlannedStep ==
    ASSUME TypeOK, Exclusive, Copied, Single, Planned, NEW p \in Procs, Step(p)
    PROVE  Planned'
<1> SUFFICES ASSUME NEW q \in Procs, NEW d \in Local, pc'[q] = "delete", Current(q, d)'
             PROVE  /\ job'[q].surplus \subseteq Ids /\ job'[q].stale \subseteq Ids
                    /\ \A x \in job'[q].surplus : Enough(d, x)'
                    /\ \A x \in job'[q].stale : ~HasMeta(disk'[d][x])
  BY DEF Planned
<1>1. d \in Dests /\ disk[d] \in [Names -> DirStates]
  BY DEF Local, TypeOK
<1>2. CASE q # p
  <2>1. pc[q] = "delete" /\ job'[q] = job[q] /\ Current(q, d)
    BY <1>2, Undisturbed DEF Current
  <2>2. UNCHANGED disk
    BY <1>2, <2>1, Undisturbed DEF Exclusive, Inside, disks
  <2> QED
    BY <2>1, <2>2 DEF Planned, Enough, Held
<1>3. CASE q = p
  <2>1. PICK e \in Dests : List(p, e) \/ \E b \in Names : DeleteOne(p, e, b) \/ DeleteFail(p, e, b)
    <3>1. ~(StartRun(p) \/ StartPurge(p) \/ Crash(p))
      BY <1>3 DEF StartRun, StartPurge, Crash, Go, TypeOK
    <3>2. ~(Acquire(p) \/ Locked(p) \/ Exit(p) \/ Unexpected(p))
      BY <1>3 DEF Acquire, Locked, Exit, Unexpected, Go, Raise, TypeOK
    <3>3. ~(\/ Precondition(p) \/ CleanWork(p) \/ Backup(p) \/ WriteMeta(p) \/ StoresDone(p)
            \/ Decide(p) \/ PurgesDone(p) \/ Finish(p))
      BY <1>3 DEF Precondition, CleanWork, Backup, WriteMeta, StoresDone, Decide, PurgesDone, Finish,
                  Go, Raise, TypeOK
    <3>4. \A e \in Dests : ~StoreCheck(p, e) /\ ~StoreBegin(p, e) /\ ~StoreCopy(p, e)
                           /\ ~StoreMeta(p, e) /\ ~StoreCommit(p, e) /\ ~StoreFail(p, e)
      BY <1>3 DEF StoreCheck, StoreBegin, StoreCopy, StoreMeta, StoreCommit, StoreFail,
                  Stored, Failed, Go, TypeOK
    <3>5. \A e \in Dests : ~ListFail(p, e)
      BY <1>3 DEF ListFail, Go, TypeOK
    <3> QED
      BY <3>1, <3>2, <3>3, <3>4, <3>5 DEF Step, Pipeline
  <2>2. CASE List(p, e)
    <3> DEFINE plan == select_purge(list_backups(e), Keep[e], Grace, job[p].now, InProgress(job[p]))
    <3>1. /\ Go(p, "delete", [job[p] EXCEPT !.kept = plan.keep, !.surplus = plan.surplus,
                                            !.stale = plan.stale])
          /\ Current(p, e) /\ UNCHANGED disks
      BY <1>3, <2>2 DEF List, Purged, Go, TypeOK
    <3> HIDE DEF plan
    <3>2. job'[p].todo = job[p].todo /\ job'[p].surplus = plan.surplus /\ job'[p].stale = plan.stale
      BY <3>1 DEF Go, TypeOK, Jobs
    <3>3. d = e
      BY <1>1, <1>3, <3>1, <3>2, OneCurrent DEF Current
    <3>4. UNCHANGED disk
      BY <3>1 DEF disks
    <3>5. /\ plan.surplus \subseteq Ids /\ plan.stale \subseteq Ids
          /\ \A x \in plan.surplus : Enough(d, x)
          /\ \A x \in plan.stale : ~HasMeta(disk[d][x])
      BY <3>3, PlanSound DEF plan
    <3> QED
      BY <1>3, <3>2, <3>4, <3>5 DEF Enough, Held
  <2>3. ASSUME NEW b \in Names, DeleteOne(p, e, b) \/ DeleteFail(p, e, b)
        PROVE  /\ job'[p].surplus \subseteq Ids /\ job'[p].stale \subseteq Ids
               /\ \A x \in job'[p].surplus : Enough(d, x)'
               /\ \A x \in job'[p].stale : ~HasMeta(disk'[d][x])
    <3>1. pc[p] = "delete" /\ Current(p, e)
      BY <2>3 DEF DeleteOne, DeleteFail
    <3>2. PICK j \in Jobs : Deleted(p, e, b, j) /\ j.todo = job[p].todo
                            /\ j.surplus = job[p].surplus /\ j.stale = job[p].stale
      <4> DEFINE j == [job[p] EXCEPT !.err = TRUE]
      <4>1. job[p] \in Jobs
        BY DEF TypeOK
      <4>2. j \in Jobs /\ j.todo = job[p].todo /\ j.surplus = job[p].surplus
            /\ j.stale = job[p].stale
        BY <4>1 DEF Jobs
      <4>3. Deleted(p, e, b, job[p]) \/ Deleted(p, e, b, j)
        BY <2>3 DEF DeleteOne, DeleteFail
      <4> HIDE DEF j
      <4> QED
        BY <4>1, <4>2, <4>3
    <3>3. job'[p].todo = job[p].todo /\ job'[p].surplus \subseteq job[p].surplus
          /\ job'[p].stale \subseteq job[p].stale
      <4> DEFINE rest == Rest(e, b, j)
      <4>1. rest.todo = j.todo /\ rest.surplus \subseteq j.surplus /\ rest.stale \subseteq j.stale
        BY RestFacts
      <4>2. Purged(p, e, rest) \/ Go(p, "delete", rest)
        BY <3>2, DeletedMoves
      <4> HIDE DEF rest
      <4>3. Go(p, "delete", rest)
        BY <1>3, <4>2 DEF Purged, Go, TypeOK
      <4>4. job'[p] = rest
        BY <4>3 DEF Go, TypeOK
      <4> QED
        BY <3>2, <4>1, <4>4
    <3>4. d = e
      BY <1>1, <1>3, <3>1, <3>3, OneCurrent DEF Current
    <3>5. /\ job[p].surplus \subseteq Ids /\ job[p].stale \subseteq Ids
          /\ \A x \in job[p].surplus : Enough(d, x)
          /\ \A x \in job[p].stale : ~HasMeta(disk[d][x])
      BY <3>1, <3>4 DEF Planned
    <3>6. \A x \in job[p].stale : ~HasMeta(disk'[d][x])
      <4>1. CASE disk'[d] = disk[d]
        BY <3>5, <4>1
      <4>2. ASSUME Deleting(p, d, b), Remove(d, b), NEW x \in job[p].stale
            PROVE  ~HasMeta(disk'[d][x])
        <5>1. x \in Ids /\ x \in Names /\ b \in Ids /\ ~HasMeta(disk[d][x])
          BY <3>5, <4>2, NameFacts DEF Deleting
        <5>2. CASE x = b
          BY <1>1, <4>2, <5>1, <5>2, RemainsFacts DEF Remove
        <5>3. CASE x # b
          BY <4>2, <5>1, <5>3, PartialFacts DEF Remove, Apart
        <5> QED
          BY <5>2, <5>3
      <4> QED
        BY <2>3, <4>1, <4>2, DeleteEffect
    <3> QED
      BY <3>3, <3>5, <3>6, SafeStep
  <2> QED
    BY <1>3, <2>1, <2>2, <2>3
<1> QED
  BY <1>2, <1>3

\* The purge loop leaves the outcomes of the store loop alone.
LEMMA PurgeMoves ==
    ASSUME TypeOK, NEW p \in Procs, NEW d \in Dests,
           \/ List(p, d) \/ ListFail(p, d)
           \/ \E b \in Names : DeleteOne(p, d, b) \/ DeleteFail(p, d, b)
    PROVE  job'[p].stored = job[p].stored /\ job'[p].id = job[p].id
<1> DEFINE Same(j) == j \in Jobs /\ j.stored = job[p].stored /\ j.id = job[p].id
<1>1. Same(job[p])
  BY DEF TypeOK
<1>2. ASSUME NEW place, NEW j, Same(j), Go(p, place, j)
      PROVE  job'[p].stored = job[p].stored /\ job'[p].id = job[p].id
  BY <1>2 DEF Go, TypeOK
<1>3. ASSUME NEW j, Same(j), Purged(p, d, j)
      PROVE  job'[p].stored = job[p].stored /\ job'[p].id = job[p].id
  BY <1>3 DEF Purged, Go, TypeOK, Jobs
<1>4. ASSUME NEW j, Same(j), NEW b \in Names, Deleted(p, d, b, j)
      PROVE  job'[p].stored = job[p].stored /\ job'[p].id = job[p].id
  <2> DEFINE rest == Rest(d, b, j)
  <2>1. Same(rest)
    BY <1>4, RestFacts
  <2>2. Purged(p, d, rest) \/ Go(p, "delete", rest)
    BY <1>4, DeletedMoves
  <2> HIDE DEF rest, Same
  <2> QED
    BY <1>2, <1>3, <2>1, <2>2
<1>5. CASE List(p, d)
  <2>1. ASSUME NEW a, NEW b, NEW c, a \subseteq Names, b \subseteq Names, c \subseteq Names
        PROVE  Same([job[p] EXCEPT !.kept = a, !.surplus = b, !.stale = c])
    BY <1>1, <2>1 DEF Jobs
  <2> DEFINE plan == select_purge(list_backups(d), Keep[d], Grace, job[p].now, InProgress(job[p]))
             j == [job[p] EXCEPT !.kept = plan.keep, !.surplus = plan.surplus, !.stale = plan.stale]
  <2>2. Purged(p, d, job[p]) \/ Go(p, "delete", j)
    BY <1>5 DEF List
  <2>3. plan.keep \subseteq Names /\ plan.surplus \subseteq Names /\ plan.stale \subseteq Names
    BY PlanType
  <2> HIDE DEF Same, plan
  <2>4. Same(j)
    BY <2>1, <2>3
  <2> HIDE DEF j
  <2> QED
    BY <1>1, <1>2, <1>3, <2>2, <2>4
<1>6. CASE ListFail(p, d)
  BY <1>6 DEF ListFail, Go, TypeOK, Jobs
<1>7. ASSUME NEW b \in Names, DeleteOne(p, d, b) \/ DeleteFail(p, d, b)
      PROVE  job'[p].stored = job[p].stored /\ job'[p].id = job[p].id
  <2>1. Same([job[p] EXCEPT !.err = TRUE])
    BY <1>1 DEF Jobs
  <2> HIDE DEF Same
  <2> QED
    BY <1>1, <1>4, <1>7, <2>1 DEF DeleteOne, DeleteFail
<1> QED
  BY <1>5, <1>6, <1>7

\* A destination enters the outcomes as stored because its generation was there
\* already or has just been committed (over ssh: if mv did not put it elsewhere).
LEMMA StoredMoves ==
    ASSUME TypeOK, Copied, NEW p \in Procs, Step(p)
    PROVE  \/ job'[p].stored = {}
           \/ job'[p].stored = job[p].stored /\ job'[p].id = job[p].id
           \/ \E d \in Dests : /\ job'[p].stored = job[p].stored \cup {d} /\ job'[p].id = job[p].id
                               /\ pc[p] \in Storing
                               /\ \/ HasMeta(disk[d][job[p].id]) /\ disk' = disk
                                  \/ /\ pc[p] = "commit" /\ Current(p, d)
                                     /\ ~Nests(d, job[p].id) => disk'[d][job[p].id] = "whole"
<1> USE DEF Go, Raise, TypeOK
<1>1. CASE Crash(p) \/ Exit(p)
  BY <1>1 DEF Crash, Exit, NoJob
<1>2. CASE StartRun(p)
  <2>1. PICK prefix, policy :
           Go(p, "lock", [NoJob EXCEPT !.cmd = "run", !.policy = policy, !.now = clock,
                                       !.id = generate_backup_id(prefix, clock)])
    BY <1>2 DEF StartRun
  <2> DEFINE j == [NoJob EXCEPT !.cmd = "run", !.policy = policy, !.now = clock,
                                !.id = generate_backup_id(prefix, clock)]
  <2>2. j.stored = {} /\ job'[p] = j
    BY <2>1 DEF NoJob
  <2> QED
    BY <2>2
<1>3. CASE StartPurge(p)
  <2>1. PICK targets, dry :
           Go(p, "lock", [NoJob EXCEPT !.now = clock, !.todo = targets, !.dry = dry])
    BY <1>3 DEF StartPurge
  <2> DEFINE j == [NoJob EXCEPT !.now = clock, !.todo = targets, !.dry = dry]
  <2>2. j.stored = {} /\ job'[p] = j
    BY <2>1 DEF NoJob
  <2> QED
    BY <2>2
<1>4. CASE Acquire(p) \/ Locked(p) \/ Unexpected(p)
  BY <1>4 DEF Acquire, Locked, Unexpected, Jobs
<1>5. CASE Precondition(p) \/ CleanWork(p) \/ Backup(p) \/ WriteMeta(p)
  <2>1. CASE Precondition(p)
    BY <2>1 DEF Precondition, Jobs
  <2>2. CASE CleanWork(p)
    BY <2>2 DEF CleanWork
  <2>3. CASE Backup(p)
    BY <2>3 DEF Backup, Jobs
  <2>4. CASE WriteMeta(p)
    BY <2>4 DEF WriteMeta, Jobs
  <2> QED
    BY <1>5, <2>1, <2>2, <2>3, <2>4
<1>6. CASE StoresDone(p) \/ Decide(p) \/ Finish(p) \/ PurgesDone(p)
  <2>1. CASE StoresDone(p)
    BY <2>1 DEF StoresDone
  <2>2. CASE Decide(p)
    BY <2>2 DEF Decide, Jobs
  <2>3. CASE Finish(p)
    BY <2>3 DEF Finish, Jobs
  <2>4. CASE PurgesDone(p)
    BY <2>4 DEF PurgesDone, Jobs
  <2> QED
    BY <1>6, <2>1, <2>2, <2>3, <2>4
<1>7. ASSUME NEW d \in Dests, StoreCheck(p, d) \/ StoreCommit(p, d)
      PROVE  \/ job'[p].stored = job[p].stored /\ job'[p].id = job[p].id
             \/ /\ job'[p].stored = job[p].stored \cup {d} /\ job'[p].id = job[p].id
                /\ pc[p] \in Storing
                /\ \/ HasMeta(disk[d][job[p].id]) /\ disk' = disk
                   \/ /\ pc[p] = "commit" /\ Current(p, d)
                      /\ ~Nests(d, job[p].id) => disk'[d][job[p].id] = "whole"
  <2>1. ASSUME Stored(p, d)
        PROVE  job'[p].stored = job[p].stored \cup {d} /\ job'[p].id = job[p].id
    BY <2>1 DEF Stored, Jobs
  <2>2. CASE StoreCheck(p, d)
    BY <2>1, <2>2 DEF StoreCheck, AlreadyStored, disks, Storing
  <2>3. CASE StoreCommit(p, d)
    <3>1. pc[p] = "commit" /\ Rename(d, job[p].id, clock) /\ disk[d][Partial(job[p].id)] = "whole"
      BY <2>3 DEF StoreCommit, Copied
    <3>2. job[p].id \in Names /\ Partial(job[p].id) # job[p].id
      BY NameFacts, IdsAreInts DEF Jobs
    <3>3. ~Nests(d, job[p].id) => disk'[d][job[p].id] = "whole"
      BY <3>1, <3>2 DEF Rename
    <3> QED
      BY <2>1, <2>3, <3>1, <3>3 DEF StoreCommit, Storing
  <2> QED
    BY <1>7, <2>2, <2>3
<1>8. ASSUME NEW d \in Dests,
             StoreBegin(p, d) \/ StoreCopy(p, d) \/ StoreMeta(p, d) \/ StoreFail(p, d)
      PROVE  job'[p].stored = job[p].stored /\ job'[p].id = job[p].id
  <2>1. CASE StoreBegin(p, d)
    BY <2>1 DEF StoreBegin
  <2>2. CASE StoreCopy(p, d)
    BY <2>2 DEF StoreCopy
  <2>3. CASE StoreMeta(p, d)
    BY <2>3 DEF StoreMeta
  <2>4. CASE StoreFail(p, d)
    <3>1. Failed(p, d)
      BY <2>4 DEF StoreFail
    <3> QED
      BY <3>1 DEF Failed, Jobs
  <2> QED
    BY <1>8, <2>1, <2>2, <2>3, <2>4
<1>9. ASSUME NEW d \in Dests, \/ List(p, d) \/ ListFail(p, d)
                               \/ \E b \in Names : DeleteOne(p, d, b) \/ DeleteFail(p, d, b)
      PROVE  job'[p].stored = job[p].stored /\ job'[p].id = job[p].id
  BY <1>9, PurgeMoves
<1> QED
  BY <1>1, <1>2, <1>3, <1>4, <1>5, <1>6, <1>7, <1>8, <1>9 DEF Step, Pipeline

\* What is reported as stored stays there or is replaced, as long as the run
\* holds the lock.
LEMMA KeptStep ==
    ASSUME TypeOK, Exclusive, Copied, Single, Planned, Ledgers, Kept, NEW p \in Procs, Step(p)
    PROVE  Kept'
<1> SUFFICES ASSUME NEW q \in Procs, lock' = q, NEW d \in Local, d \in job'[q].stored,
                    NEW x \in Ids, x = job'[q].id
             PROVE  Safe(d, x)'
  <2>1. TypeOK'
    BY TypeStep DEF Next, Step
  <2>2. \A q \in Procs : job'[q].id \in Ids
    BY <2>1 DEF TypeOK, Jobs
  <2> QED
    BY <2>2 DEF Kept, Safe, Held
<1>1. Safe(d, x) => Safe(d, x)'
  BY SafeStep
<1>2. CASE q # p
  <2>1. lock = q
    BY <1>2, Within, Outside, OrchestratorAssumption
       DEF Exclusive, StartRun, StartPurge, Crash, Acquire, Locked, Exit, Unlock, Unexpected
  <2>2. job'[q] = job[q]
    BY <1>2, Undisturbed
  <2> QED
    BY <1>1, <2>1, <2>2 DEF Kept
<1>3. CASE q = p
  <2>1. CASE lock = p
    <3>1. CASE d \in job[p].stored /\ job[p].id = x
      BY <1>1, <2>1, <3>1 DEF Kept
    <3>2. CASE HasMeta(disk[d][x])
      BY <1>1, <3>2 DEF Single
    <3>3. CASE disk'[d][x] = "whole"
      BY <3>3 DEF Safe, Held
    <3>4. ~Nests(d, x)
      BY DEF Nests, Local
    <3> QED
      BY <1>3, <3>1, <3>2, <3>3, <3>4, StoredMoves
  <2>2. CASE lock # p
    <3>1. pc[p] \notin Inside
      BY <2>2 DEF Exclusive
    <3>2. Acquire(p)
      BY <1>3, <2>2, <3>1, Outside, OrchestratorAssumption
         DEF StartRun, StartPurge, Crash, Locked, Exit, Unlock, Unexpected
    <3>3. job'[p].stored = {}
      BY <3>2 DEF Acquire, Go, TypeOK, Ledgers, Ledger
    <3> QED
      BY <1>3, <3>3
  <2> QED
    BY <2>1, <2>2
<1> QED
  BY <1>2, <1>3

-----------------------------------------------------------------------------
(* The invariant and what follows from it                                  *)

SafetyInv ==
    /\ LockInv /\ Ledgers /\ Results
    /\ Single /\ Fresh /\ Planned /\ Kept

\* With empty destinations and no invocation, nothing is claimed.
LEMMA SafetyInit == Init => SafetyInv
<1> SUFFICES ASSUME Init PROVE SafetyInv
  OBVIOUS
<1>1. LockInv
  BY LockInvInit
<1>2. NoJob.stored = {} /\ NoJob.failed = {} /\ \A p \in Procs : pc[p] = "idle" /\ job[p] = NoJob
  BY DEF Init, NoJob
<1>3. Ledgers /\ Results /\ Fresh /\ Planned /\ Kept
  BY <1>2 DEF Ledgers, Ledger, Results, Fresh, Writing, Planned, Kept, Storing
<1>4. Single
  BY NameFacts DEF Init, Single, HasMeta, Local
<1> QED
  BY <1>1, <1>3, <1>4 DEF SafetyInv

\* The invariant is inductive: each step of an invocation is looked at once for
\* each part, and the lock keeps the others' parts as they are.
LEMMA SafetyStep == SafetyInv /\ [Next]_vars => SafetyInv'
<1> SUFFICES ASSUME SafetyInv, [Next]_vars PROVE SafetyInv'
  OBVIOUS
<1>1. LockInv'
  BY LockInvStep DEF SafetyInv
<1>2. CASE UNCHANGED <<lock, work, pc, job, disks>>
  <2>1. UNCHANGED <<lock, work, pc, job, disk>>
    BY <1>2 DEF disks
  <2>2. Ledgers' /\ Results'
    BY <2>1 DEF SafetyInv, Ledgers, Ledger, Results
  <2>3. Single' /\ Kept'
    BY <2>1 DEF SafetyInv, Single, Kept, Safe, Held
  <2>4. Fresh' /\ Planned'
    BY <2>1 DEF SafetyInv, Fresh, Writing, Planned, Enough, Held, Current
  <2> QED
    BY <1>1, <2>2, <2>3, <2>4 DEF SafetyInv
<1>3. ASSUME NEW p \in Procs, Step(p) PROVE SafetyInv'
  BY <1>1, <1>3, LedgersStep, ResultsStep, SingleStep, FreshStep, PlannedStep, KeptStep
     DEF SafetyInv, LockInv
<1> QED
  BY <1>2, <1>3, StepOrQuiet

\* The invariant holds throughout.
LEMMA SafetyAlways == Spec => []SafetyInv
  BY SafetyInit, SafetyStep, PTL DEF Spec

\* At a local destination what is listed as complete and damaged was replaced by
\* keep newer generations, so that it is not among the newest.
LEMMA LocalIntact ==
    ASSUME SafetyInv, NEW d \in Local
    PROVE  Intact(d)
<1> SUFFICES ASSUME NEW n \in {b.backup_id : b \in {b \in list_backups(d) : b.complete}},
                    Cardinality({m \in {b.backup_id : b \in {b \in list_backups(d) : b.complete}} :
                                    m > n}) < Keep[d]
             PROVE  disk[d][n] = "whole"
  BY DEF Intact
<1> DEFINE complete == {b.backup_id : b \in {b \in list_backups(d) : b.complete}}
           newer == {m \in complete : m > n}
           heldNewer == {y \in Held(d) : y > n}
<1>1. d \in Local /\ d \in Dests /\ Kind[d] = "local" /\ Keep[d] \in Nat
  BY OrchestratorAssumption DEF Local
<1>2. complete = {x \in Ids : HasMeta(disk[d][x])}
  <2>1. list_backups(d) = LocalListing(d)
    BY <1>1 DEF list_backups
  <2>2. \A x \in complete : x \in Ids /\ HasMeta(disk[d][x])
    BY <2>1 DEF LocalListing
  <2>3. ASSUME NEW x \in Ids, HasMeta(disk[d][x]) PROVE x \in complete
    <3> DEFINE b == [backup_id |-> x, complete |-> TRUE, stored_at |-> mtime[d][x]]
    <3>1. b \in list_backups(d)
      BY <2>1, <2>3 DEF LocalListing, HasMeta
    <3>2. b.complete /\ b.backup_id = x
      OBVIOUS
    <3> QED
      BY <3>1, <3>2
  <2> QED
    BY <2>2, <2>3
<1>3. n \in Ids /\ Safe(d, n)
  BY <1>1, <1>2 DEF SafetyInv, Single
<1>4. heldNewer \subseteq newer /\ newer \subseteq Ids
  BY <1>2 DEF Held, HasMeta
<1>5. Cardinality(heldNewer) < Keep[d]
  BY <1>1, <1>4, CountMonotone
<1>6. ~(Cardinality(heldNewer) >= Keep[d])
  <2>1. Cardinality(heldNewer) \in Nat
    BY <1>4, CountMonotone
  <2> HIDE DEF heldNewer
  <2> QED
    BY <1>1, <1>5, <2>1
<1> QED
  BY <1>3, <1>6 DEF Safe, Held

\* Of the generations that a local destination lists as complete, the newest
\* keep miss no data, whatever was interrupted (store(), select_purge), and
\* whatever destinations there are besides it.
THEOREM NewestAlwaysIntact == Spec => []NewestIntact
<1>1. SafetyInv => NewestIntact
  BY LocalIntact DEF NewestIntact
<1> QED
  BY <1>1, SafetyAlways, PTL

\* An exit code claims only what the store loop has entered as stored, and the
\* run that reports it still holds the lock (_finish, exit code 0 and 8 need an
\* outcome for every destination).
LEMMA ClaimsAreLedger ==
    ASSUME TypeOK, Ledgers, Results, NEW p \in Procs, pc[p] = "exit", job[p].cmd = "run"
    PROVE  Claimed(job[p]) \subseteq job[p].stored /\ (Claimed(job[p]) # {} => lock = p)
<1>1. job[p].code \in Reported => lock = p
  BY DEF Results
<1>2. job[p].code \in {"SUCCESS", "PURGE_FAILED"} => Dests \subseteq job[p].stored
  BY DEF Ledgers, Ledger
<1>3. CASE job[p].code \in {"SUCCESS", "PURGE_FAILED"}
  <2>1. Claimed(job[p]) = Dests
    BY <1>3 DEF Claimed
  <2> QED
    BY <1>1, <1>2, <1>3, <2>1 DEF Reported
<1>4. CASE job[p].code = "PARTIAL_DESTINATION_FAILURE"
  <2>1. Claimed(job[p]) = job[p].stored
    BY <1>4 DEF Claimed
  <2> QED
    BY <1>1, <1>4, <2>1 DEF Reported
<1>5. CASE job[p].code \notin {"SUCCESS", "PURGE_FAILED", "PARTIAL_DESTINATION_FAILURE"}
  <2>1. Claimed(job[p]) = {}
    BY <1>5 DEF Claimed
  <2> QED
    BY <2>1
<1> QED
  BY <1>3, <1>4, <1>5

\* A report is true: what a run counts as stored is held or was replaced by keep
\* newer generations, and after the failure of all destinations the copy in
\* work_dir is complete (_finish).
THEOREM ReportsAreTrue == Spec => []ReportTruthful
<1>1. SafetyInv => ReportTruthful
  <2> SUFFICES ASSUME SafetyInv, NEW p \in Procs, pc[p] = "exit", job[p].cmd = "run"
               PROVE  /\ \A d \in Claimed(job[p]) \cap Local : Safe(d, job[p].id)
                      /\ job[p].code = "ALL_DESTINATIONS_FAILED" => work[job[p].id] = "whole"
    BY DEF ReportTruthful
  <2>1. Claimed(job[p]) \subseteq job[p].stored /\ (Claimed(job[p]) # {} => lock = p)
    BY ClaimsAreLedger DEF SafetyInv, LockInv
  <2>2. \A d \in Claimed(job[p]) \cap Local : Safe(d, job[p].id)
    BY <2>1 DEF SafetyInv, Kept
  <2>3. job[p].code = "ALL_DESTINATIONS_FAILED" => work[job[p].id] = "whole"
    BY DEF SafetyInv, Results
  <2> QED
    BY <2>2, <2>3
<1> QED
  BY <1>1, SafetyAlways, PTL

-----------------------------------------------------------------------------
(* Action properties                                                       *)

\* A step changes one destination at most, and over the writes of a store it
\* loses no generation, of either kind.
LEMMA OneDisk ==
    ASSUME TypeOK, NEW p \in Procs, Step(p)
    PROVE  \E e \in Dests :
              /\ \A d \in Dests \ {e} : disk'[d] = disk[d]
              /\ ~(pc[p] = "delete" /\ Current(p, e)) => Held(e) \subseteq Held(e)'
<1> USE DEF TypeOK
<1>1. CASE UNCHANGED disk
  <2>1. 1 \in Dests
    BY DestinationAssumption DEF Dests
  <2>2. Held(1) \subseteq Held(1)'
    BY <1>1 DEF Held
  <2> QED
    BY <1>1, <2>1, <2>2
<1>2. CASE \/ StartRun(p) \/ StartPurge(p) \/ Crash(p) \/ Acquire(p) \/ Locked(p)
           \/ Exit(p) \/ Unexpected(p)
  BY <1>1, <1>2 DEF StartRun, StartPurge, Crash, Acquire, Locked, Exit, Unexpected, disks
<1>3. CASE \/ Precondition(p) \/ CleanWork(p) \/ Backup(p) \/ WriteMeta(p)
           \/ StoresDone(p) \/ Decide(p) \/ PurgesDone(p) \/ Finish(p)
  BY <1>1, <1>3 DEF Precondition, CleanWork, Backup, WriteMeta, StoresDone, Decide,
                    PurgesDone, Finish, disks
<1>4. ASSUME NEW e \in Dests, List(p, e) \/ ListFail(p, e) \/ StoreCheck(p, e)
      PROVE  UNCHANGED disk
  BY <1>4 DEF List, ListFail, StoreCheck, disks
<1>5. ASSUME NEW e \in Dests, NEW b \in Names, DeleteOne(p, e, b) \/ DeleteFail(p, e, b)
      PROVE  (\A d \in Dests \ {e} : disk'[d] = disk[d]) /\ pc[p] = "delete" /\ Current(p, e)
  <2>1. \E f : disk' = [disk EXCEPT ![e] = f]
    BY <1>5 DEF DeleteOne, DeleteFail, Delete, DeleteInterrupted
  <2> QED
    BY <1>5, <2>1 DEF DeleteOne, DeleteFail
<1>6. job[p].id \in Ids /\ job[p].id \in Names /\ Partial(job[p].id) \in Names
  BY NameFacts DEF Jobs
<1>7. ASSUME NEW e \in Dests, NEW x \in Ids, NEW s, NEW t, Set(e, Partial(x), s, t)
      PROVE  (\A d \in Dests \ {e} : disk'[d] = disk[d]) /\ Held(e) \subseteq Held(e)'
  BY <1>7, PartialFacts, NameFacts DEF Set, Held
<1>8. ASSUME NEW e \in Dests, NEW x \in Ids, Rename(e, x, clock),
             Nests(e, x) \/ disk[e][x] \in {"none", "some"}
      PROVE  (\A d \in Dests \ {e} : disk'[d] = disk[d]) /\ Held(e) \subseteq Held(e)'
  BY <1>8, PartialFacts, NameFacts DEF Rename, Held
<1>9. ASSUME NEW e \in Dests,
             \/ StoreBegin(p, e) \/ StoreCopy(p, e) \/ StoreMeta(p, e) \/ StoreCommit(p, e)
             \/ StoreFail(p, e)
      PROVE  UNCHANGED disk \/ ((\A d \in Dests \ {e} : disk'[d] = disk[d]) /\ Held(e) \subseteq Held(e)')
  <2>1. CASE StoreBegin(p, e) \/ StoreCopy(p, e) \/ StoreMeta(p, e)
    BY <1>6, <1>7, <2>1 DEF StoreBegin, StoreCopy, StoreMeta, BeginCopy, FinishCopy, CopyMeta
  <2>2. CASE StoreCommit(p, e)
    BY <1>6, <1>8, <2>2 DEF StoreCommit, CanRename, Nests
  <2>3. CASE StoreFail(p, e)
    BY <1>6, <1>7, <1>8, <2>3 DEF StoreFail, BeginInterrupted, Nests, disks
  <2> QED
    BY <1>9, <2>1, <2>2, <2>3
<1>10. CASE UNCHANGED disk \/ Step(p)
  BY <1>1, <1>2, <1>3, <1>4, <1>5, <1>9 DEF Step, Pipeline
<1> QED
  BY <1>10

\* Local destinations implement the abstract store of generations: a generation
\* appears by its commit, and goes when keep newer ones are held.
THEOREM Refinement == Spec => RefinesStore
<1> DEFINE h == [d \in Local |-> Held(d)]
<1>0. \A S : Store!Cardinality(S) = Cardinality(S)
  BY DEF Store!Cardinality, Cardinality
<1>1. Init => Store!Init
  BY NameFacts DEF Init, Store!Init, Held, Local
<1>2. SafetyInv /\ [Next]_vars => [Store!Next]_h
  <2> SUFFICES ASSUME SafetyInv, [Next]_vars PROVE Store!Next \/ UNCHANGED h
    OBVIOUS
  <2>1. CASE UNCHANGED disks
    BY <2>1 DEF Held, disks
  <2>2. ASSUME NEW p \in Procs, Step(p) PROVE Store!Next \/ UNCHANGED h
    <3>1. PICK e \in Dests : \A d \in Dests \ {e} : disk'[d] = disk[d]
      BY <2>2, OneDisk DEF SafetyInv, LockInv
    <3>2. \A d \in Local \ {e} : Held(d)' = Held(d)
      BY <3>1 DEF Held, Local
    <3>3. CASE e \notin Local
      BY <3>2, <3>3
    <3>4. CASE Held(e)' = Held(e)
      BY <3>2, <3>4
    <3>5. ASSUME e \in Local, NEW x \in Ids, Held(e)' = Held(e) \cup {x} PROVE Store!Next
      <4>1. Store!Commit(e, x)
        BY <3>2, <3>5 DEF Store!Commit
      <4> QED
        BY <3>5, <4>1 DEF Store!Next
    <3>6. ASSUME e \in Local, NEW x \in Ids, Held(e)' = Held(e) \ {x}, Enough(e, x) PROVE Store!Next
      <4>1. Store!Expire(e, x)
        <5>1. Cardinality({y \in h[e] : y > x}) >= Keep[e]
          BY <3>6 DEF Enough, Newer
        <5>2. h' = [h EXCEPT ![e] = @ \ {x}]
          BY <3>2, <3>6
        <5> QED
          BY <5>1, <5>2, <1>0 DEF Store!Expire
      <4> QED
        BY <3>6, <4>1 DEF Store!Next
    <3> QED
      BY <2>2, <3>3, <3>4, <3>5, <3>6, HeldEffect DEF SafetyInv, LockInv
  <2> QED
    BY <2>1, <2>2, StepOrQuiet
<1> QED
  BY <1>1, <1>2, SafetyAlways, PTL DEF Spec, RefinesStore, Store!Spec
=============================================================================
