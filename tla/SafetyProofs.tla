----------------------------- MODULE SafetyProofs -----------------------------
(***************************************************************************)
(* Proofs of what a purge establishes, of what it may not touch, and of    *)
(* the guarantees for destinations over ssh while ids are distinct.        *)
(***************************************************************************)
EXTENDS OrchestratorProofs, DistinctIds, WellFoundedInduction

-----------------------------------------------------------------------------
\* The generations that d lists, or should list, as complete.
Meta(d) == {x \in Ids : HasMeta(disk[d][x])}

-----------------------------------------------------------------------------
(* Counting what a purge keeps                                             *)

\* There are finitely many directory names.
LEMMA NamesFinite == IsFiniteSet(Names)
<1> DEFINE partials == {Partial(x) : x \in Ids}
           f == [x \in Ids |-> Partial(x)]
<1>1. f \in Surjection(Ids, partials)
  BY DEF Surjection
<1>2. IsFiniteSet(partials)
  <2> HIDE DEF partials, f
  <2> QED
    BY <1>1, IdsFinite, FS_Surjection
<1> QED
  BY <1>2, IdsFinite, FS_Union DEF Names

\* Names are compared as numbers (their rank).
LEMMA NamesAreNats == Names \subseteq Nat
<1>1. ASSUME NEW prefix \in Prefixes, NEW t \in Times PROVE generate_backup_id(prefix, t) \in Nat
  <2>1. prefix \in Nat /\ t \in Nat /\ MaxClock + 1 \in Nat
    BY ManifestAssumption DEF Times
  <2>2. prefix * (MaxClock + 1) \in Nat
    BY <2>1
  <2> QED
    BY <2>1, <2>2 DEF generate_backup_id
<1> QED
  BY <1>1 DEF Names, Ids, Partial

\* A set of natural numbers that is not empty has a least member.
LEMMA Least ==
    ASSUME NEW T \in SUBSET Nat, T # {}
    PROVE  \E m \in T : \A n \in T : m <= n
<1> DEFINE R == {ss \in Nat \X Nat : ss[1] < ss[2]}
<1>1. \E x \in T : \A y \in T : ~(<<y, x>> \in R)
  <2>1. IsWellFoundedOn(R, Nat)
    BY NatLessThanWellFounded DEF OpToRel
  <2> HIDE DEF R
  <2> QED
    BY <2>1, WFMin
<1>2. PICK x \in T : \A y \in T : ~(<<y, x>> \in R)
  BY <1>1
<1>3. ASSUME NEW y \in T PROVE x <= y
  <2>1. x \in Nat /\ y \in Nat
    OBVIOUS
  <2>2. y < x => <<y, x>> \in R
    BY <2>1
  <2> QED
    BY <1>2, <2>1, <2>2
<1> QED
  BY <1>3

\* complete[keep:] leaves at most keep names: the oldest of them has fewer than
\* keep newer ones, and those are all the others.
LEMMA KeepCount ==
    ASSUME NEW complete \in SUBSET Names, NEW keep \in Nat
    PROVE  LET rest == complete \ Surplus(complete, keep)
           IN  IsFiniteSet(rest) /\ Cardinality(rest) <= keep
<1> DEFINE rest == complete \ Surplus(complete, keep)
<1>1. rest \in SUBSET Names /\ rest \subseteq complete
  OBVIOUS
<1>2. IsFiniteSet(complete) /\ IsFiniteSet(rest)
  BY <1>1, NamesFinite, FS_Subset
<1>3. CASE rest = {}
  BY <1>2, <1>3, FS_EmptySet
<1>4. CASE rest # {}
  <2>1. PICK m \in rest : \A n \in rest : m <= n
    <3>1. rest \in SUBSET Nat
      BY <1>1, NamesAreNats
    <3> HIDE DEF rest
    <3> QED
      BY <1>4, <3>1, Least
  <2>2. Newer(m, complete) \in SUBSET complete /\ IsFiniteSet(Newer(m, complete))
        /\ Cardinality(Newer(m, complete)) \in Nat
    BY <1>2, FS_Subset, FS_CardinalityType DEF Newer
  <2>3. Cardinality(Newer(m, complete)) < keep
    BY <2>2 DEF Surplus
  <2>4. rest \ {m} \in SUBSET Newer(m, complete)
    <3> SUFFICES ASSUME NEW n \in rest, n # m PROVE n \in complete /\ n > m
      BY DEF Newer
    <3>1. n \in Nat /\ m \in Nat /\ m <= n /\ n \in complete
      BY <1>1, <2>1, NamesAreNats
    <3> QED
      BY <3>1
  <2> HIDE DEF rest
  <2>5. Cardinality(rest \ {m}) <= Cardinality(Newer(m, complete))
    BY <2>2, <2>4, FS_Subset
  <2>6. Cardinality(rest) \in Nat /\ Cardinality(rest \ {m}) = Cardinality(rest) - 1
    BY <1>2, FS_RemoveElement, FS_CardinalityType
  <2> QED
    BY <1>2, <2>2, <2>3, <2>5, <2>6 DEF rest
<1> QED
  BY <1>3, <1>4

-----------------------------------------------------------------------------
(* The invariant                                                           *)

\* No destination is done with before the purge loop, or is done with twice.
Loop(place, j) ==
    /\ place \notin {"purge", "delete", "finish", "exit"} => j.purged = {}
    /\ j.todo \cap j.purged = {}
Loops == \A p \in Procs : Loop(pc[p], job[p])

\* Who has purged a destination holds the lock until it returns.
Owner == \A p \in Procs : job[p].purged # {} => lock = p

\* While a plan without an error so far is carried out, what it leaves is what
\* the policy asks for.
Converging ==
    \A p \in Procs, d \in Dests : pc[p] = "delete" /\ Current(p, d) /\ ~job[p].err =>
       /\ Cardinality(Meta(d) \ job[p].surplus) <= Keep[d]
       /\ d \in Local => \A n \in Names : Tidy(p, d, n) \/ \E b \in job[p].stale : n \in Victims(b)

\* Where the plan is carried out, it still is.
Converged ==
    \A p \in Procs : ~job[p].err /\ ~job[p].dry =>
       \A d \in job[p].purged :
          /\ Cardinality(Meta(d)) <= Keep[d]
          /\ d \in Local => \A n \in Names : Tidy(p, d, n)

\* What is still to be deleted is complete, or overdue unless a first delete()
\* has failed on it.
Late(p, d, n) == disk[d][n] # "none" /\ job[p].now - mtime[d][n] >= Grace
Overdue ==
    \A p \in Procs, d \in Local : pc[p] = "delete" /\ Current(p, d) =>
       /\ \A b \in job[p].surplus : HasMeta(disk[d][b])
       /\ \A b \in job[p].stale \ job[p].tried : \E n \in Victims(b) : Late(p, d, n)

\* No invocation began in the future, unless the clock was set back.
Began == ClockSteps \/ \A p \in Procs : job[p].now <= clock

ConvInv == SafetyInv /\ Loops /\ Owner /\ Converging /\ Converged /\ Overdue /\ Began

-----------------------------------------------------------------------------
(* What a plan leaves                                                      *)

Plan(p, d) == select_purge(list_backups(d), Keep[d], Grace, job[p].now, InProgress(job[p]))

\* Of the generations with a meta.json, a plan leaves keep at most, at a
\* destination of either kind: every one of them is listed as complete.
LEMMA PlanKeeps ==
    ASSUME TypeOK, NEW p \in Procs, NEW d \in Dests
    PROVE  Cardinality(Meta(d) \ Plan(p, d).surplus) <= Keep[d]
<1> DEFINE listed == list_backups(d)
           complete == {b.backup_id : b \in {b \in listed : b.complete}}
           rest == complete \ Surplus(complete, Keep[d])
<1>1. complete \in SUBSET Names
  BY NameFacts DEF list_backups, LocalListing, SSHListing
<1>2. ASSUME NEW x \in Meta(d) PROVE x \in complete
  <2> DEFINE b == [backup_id |-> x, complete |-> TRUE, stored_at |-> mtime[d][x]]
  <2>1. x \in Ids /\ x \in Names /\ HasMeta(disk[d][x]) /\ disk[d][x] # "none"
    BY NameFacts DEF Meta, HasMeta
  <2>2. b \in LocalListing(d) /\ b \in SSHListing(d)
    BY <2>1 DEF LocalListing, SSHListing
  <2>3. b \in listed /\ b.complete /\ b.backup_id = x
    BY <2>2 DEF list_backups
  <2> QED
    BY <2>3
<1>3. Plan(p, d).surplus = Surplus(complete, Keep[d])
  BY DEF Plan, select_purge
<1>4. Keep[d] \in Nat
  BY OrchestratorAssumption
<1> HIDE DEF complete
<1>5. IsFiniteSet(rest) /\ Cardinality(rest) <= Keep[d]
  BY <1>1, <1>4, KeepCount
<1>6. Meta(d) \ Plan(p, d).surplus \in SUBSET rest
  BY <1>2, <1>3
<1> HIDE DEF rest
<1> QED
  BY <1>4, <1>5, <1>6, FS_Subset, FS_CardinalityType

\* At a local destination, whatever is incomplete and over the grace period is
\* planned to go, unless it is in progress; what the plan names is complete or
\* over the grace period.
LEMMA PlanTidies ==
    ASSUME TypeOK, NEW p \in Procs, NEW d \in Local
    PROVE  /\ \A n \in Names : Tidy(p, d, n) \/ \E b \in Plan(p, d).stale : n \in Victims(b)
           /\ \A b \in Plan(p, d).surplus : b \in Ids /\ HasMeta(disk[d][b])
           /\ \A b \in Plan(p, d).stale : \E n \in Victims(b) : Late(p, d, n)
<1> DEFINE listed == list_backups(d)
           complete == {b.backup_id : b \in {b \in listed : b.complete}}
           stale == {b \in listed : /\ ~b.complete
                                    /\ b.backup_id # InProgress(job[p])
                                    /\ job[p].now - b.stored_at >= Grace}
<1>1. listed = LocalListing(d)
  BY DEF list_backups, Local
<1>2. /\ Plan(p, d).surplus \subseteq complete
      /\ Plan(p, d).stale = {b.backup_id : b \in stale}
  BY DEF Plan, select_purge, Surplus, Expired
<1>3. ASSUME NEW n \in Names, ~Tidy(p, d, n)
      PROVE  \E b \in Plan(p, d).stale : n \in Victims(b)
  <2>1. /\ disk[d][n] # "none" /\ ~Complete(d, n) /\ job[p].now - mtime[d][n] >= Grace
        /\ job[p].cmd = "run" => n \notin Victims(job[p].id)
    BY <1>3 DEF Tidy
  <2>2. PICK x \in Ids : n = x \/ n = Partial(x)
    BY DEF Names
  <2> DEFINE b == [backup_id |-> x, complete |-> FALSE, stored_at |-> mtime[d][n]]
  <2>3. n \in Victims(x) /\ job[p].id \in Ids
    BY <2>2 DEF Victims, TypeOK, Jobs
  <2>4. x # InProgress(job[p])
    <3>1. NoId \notin Ids
      BY NameFacts, NamesAreNats DEF NoId
    <3> QED
      BY <2>1, <2>3, <3>1 DEF InProgress
  <2>5. b \in listed
    <3>1. CASE n = x
      <4>1. HasMeta(disk[d][x]) = FALSE
        BY <2>1, <3>1 DEF Complete, HasMeta
      <4> QED
        BY <1>1, <2>1, <3>1, <4>1 DEF LocalListing
    <3>2. CASE n = Partial(x)
      BY <1>1, <2>1, <3>2 DEF LocalListing
    <3> QED
      BY <2>2, <3>1, <3>2
  <2>6. ~b.complete /\ b.backup_id = x /\ b.stored_at = mtime[d][n]
    OBVIOUS
  <2> HIDE DEF b
  <2>7. b \in stale
    BY <2>1, <2>4, <2>5, <2>6
  <2>8. x \in Plan(p, d).stale
    BY <1>2, <2>6, <2>7
  <2> QED
    BY <2>3, <2>8
<1>4. ASSUME NEW x \in complete PROVE x \in Ids /\ HasMeta(disk[d][x])
  BY <1>1, <1>4 DEF LocalListing
<1>5. ASSUME NEW b \in stale PROVE \E n \in Victims(b.backup_id) : Late(p, d, n)
  <2>1. \E n \in Victims(b.backup_id) : disk[d][n] # "none" /\ b.stored_at = mtime[d][n]
    BY <1>1 DEF LocalListing, Victims
  <2> QED
    BY <2>1 DEF Late
<1> HIDE DEF stale, complete
<1> QED
  BY <1>2, <1>3, <1>4, <1>5

-----------------------------------------------------------------------------
(* The steps outside the purge loop                                        *)

PurgeLoop(p) == \E d \in Dests : \/ List(p, d) \/ ListFail(p, d)
                                 \/ \E b \in Names : DeleteOne(p, d, b) \/ DeleteFail(p, d, b)

\* What the verdict on a purge depends on.
Same(j, k) ==
    /\ k.purged = j.purged /\ k.cmd = j.cmd /\ k.id = j.id
    /\ k.now = j.now /\ k.dry = j.dry /\ k.err = j.err

\* A step outside the loop starts a new invocation or clears an old one, or it
\* changes nothing that the verdict depends on.
Elsewhere(p) ==
    /\ pc'[p] # "delete"
    /\ Loop(pc'[p], job'[p])
    /\ job'[p].now \in {0, clock, job[p].now}
    /\ job'[p].purged = {} \/ (Same(job[p], job'[p]) /\ UNCHANGED <<lock, disks>>)

\* cli.main() and the exceptions that reach it.
LEMMA ElsewhereMain ==
    ASSUME TypeOK, NEW p \in Procs, Loop(pc[p], job[p]),
           \/ StartRun(p) \/ StartPurge(p) \/ Crash(p) \/ Acquire(p) \/ Locked(p) \/ Exit(p)
           \/ Unexpected(p)
    PROVE  Elsewhere(p)
<1> USE DEF Elsewhere, Loop, Same, Go, Raise, TypeOK, Jobs
<1>1. NoJob.purged = {} /\ NoJob.todo = {} /\ NoJob.now = 0
  BY DEF NoJob
<1>2. CASE Crash(p) \/ Exit(p)
  BY <1>1, <1>2, NoJobType DEF Crash, Exit
<1>3. CASE StartRun(p)
  <2>1. PICK prefix \in Prefixes, policy \in Policies :
           Go(p, "lock", [NoJob EXCEPT !.cmd = "run", !.policy = policy, !.now = clock,
                                       !.id = generate_backup_id(prefix, clock)])
    BY <1>3 DEF StartRun
  <2> DEFINE j == [NoJob EXCEPT !.cmd = "run", !.policy = policy, !.now = clock,
                                !.id = generate_backup_id(prefix, clock)]
  <2>2. j.purged = {} /\ j.todo = {} /\ j.now = clock
    BY DEF NoJob
  <2>3. Go(p, "lock", j)
    BY <2>1
  <2> HIDE DEF j
  <2> QED
    BY <2>2, <2>3
<1>4. CASE StartPurge(p)
  <2>1. PICK targets \in SUBSET Dests, dry \in BOOLEAN :
           Go(p, "lock", [NoJob EXCEPT !.now = clock, !.todo = targets, !.dry = dry])
    BY <1>4 DEF StartPurge
  <2> DEFINE j == [NoJob EXCEPT !.now = clock, !.todo = targets, !.dry = dry]
  <2>2. j.purged = {} /\ j.now = clock
    BY DEF NoJob
  <2>3. Go(p, "lock", j)
    BY <2>1
  <2> HIDE DEF j
  <2> QED
    BY <2>2, <2>3
<1>5. CASE Acquire(p)
  BY <1>5 DEF Acquire
<1>6. CASE Locked(p)
  BY <1>6 DEF Locked
<1>7. CASE Unexpected(p)
  <2>1. Go(p, "exit", [job[p] EXCEPT !.code = "INTERNAL_ERROR"]) /\ UNCHANGED <<lock, disks>>
    BY <1>7 DEF Unexpected
  <2> QED
    BY <2>1
<1> QED
  BY <1>2, <1>3, <1>4, <1>5, <1>6, <1>7

\* run() outside its loops.
LEMMA ElsewhereRun ==
    ASSUME TypeOK, NEW p \in Procs, Loop(pc[p], job[p]),
           \/ Precondition(p) \/ CleanWork(p) \/ Backup(p) \/ WriteMeta(p)
           \/ StoresDone(p) \/ Decide(p) \/ PurgesDone(p) \/ Finish(p)
    PROVE  Elsewhere(p)
<1> USE DEF Elsewhere, Loop, Same, Go, Raise, TypeOK, Jobs
<1>1. CASE Precondition(p)
  BY <1>1 DEF Precondition
<1>2. CASE CleanWork(p)
  BY <1>2 DEF CleanWork
<1>3. CASE Backup(p)
  BY <1>3 DEF Backup
<1>4. CASE WriteMeta(p)
  BY <1>4 DEF WriteMeta
<1>5. CASE StoresDone(p)
  BY <1>5 DEF StoresDone
<1>6. CASE Decide(p)
  <2>1. job[p].purged = {}
    BY <1>6 DEF Decide
  <2>2. \/ Go(p, "finish", [job[p] EXCEPT !.code = "ALL_DESTINATIONS_FAILED"])
        \/ Go(p, "purge", [job[p] EXCEPT !.todo = PurgeTargets(job[p])])
    BY <1>6 DEF Decide
  <2>3. job[p] \in Jobs /\ pc'[p] \in {"finish", "purge"}
    BY <2>2
  <2>4. job'[p].purged = {} /\ job'[p].now = job[p].now
    <3>1. job'[p] = [job[p] EXCEPT !.code = "ALL_DESTINATIONS_FAILED"]
          \/ job'[p] = [job[p] EXCEPT !.todo = PurgeTargets(job[p])]
      BY <2>2
    <3> QED
      BY <2>1, <2>3, <3>1
  <2> QED
    BY <2>3, <2>4
<1>7. CASE PurgesDone(p)
  BY <1>7 DEF PurgesDone
<1>8. CASE Finish(p)
  BY <1>8 DEF Finish
<1> QED
  BY <1>1, <1>2, <1>3, <1>4, <1>5, <1>6, <1>7, <1>8

\* The store loop: no destination has been purged yet.
LEMMA ElsewhereStore ==
    ASSUME TypeOK, NEW p \in Procs, Loop(pc[p], job[p]), NEW d \in Dests,
           \/ StoreCheck(p, d) \/ StoreBegin(p, d) \/ StoreCopy(p, d)
           \/ StoreMeta(p, d) \/ StoreCommit(p, d) \/ StoreFail(p, d)
    PROVE  Elsewhere(p)
<1> USE DEF Elsewhere, Loop, Go, TypeOK, Jobs, Storing
<1>1. ASSUME Stored(p, d), pc[p] \in Storing PROVE Elsewhere(p)
  BY <1>1 DEF Stored
<1>2. ASSUME Failed(p, d), pc[p] \in Storing PROVE Elsewhere(p)
  BY <1>2 DEF Failed
<1>3. CASE StoreCheck(p, d)
  BY <1>1, <1>3 DEF StoreCheck
<1>4. CASE StoreBegin(p, d) \/ StoreCopy(p, d) \/ StoreMeta(p, d)
  BY <1>4 DEF StoreBegin, StoreCopy, StoreMeta
<1>5. CASE StoreCommit(p, d)
  BY <1>1, <1>5 DEF StoreCommit
<1>6. CASE StoreFail(p, d)
  BY <1>2, <1>6 DEF StoreFail
<1> QED
  BY <1>3, <1>4, <1>5, <1>6

\* So every step is one of the purge loop, or leaves the verdict alone.
LEMMA LoopOrElsewhere ==
    ASSUME TypeOK, Loops, NEW p \in Procs, Step(p)
    PROVE  PurgeLoop(p) \/ Elsewhere(p)
  BY ElsewhereMain, ElsewhereRun, ElsewhereStore DEF Loops, Step, Pipeline, PurgeLoop

-----------------------------------------------------------------------------
(* The steps of the purge loop                                             *)

\* The purge loop goes round: the invocation stays what it is, d stays at hand
\* or is done with, and of its plan the part `surplus`, `stale` is left.
Alike(j, k) == k.cmd = j.cmd /\ k.id = j.id /\ k.now = j.now /\ k.dry = j.dry
AtHand(p, j, surplus, stale) ==
    /\ pc'[p] = "delete" /\ job'[p].todo = j.todo /\ job'[p].purged = j.purged
    /\ job'[p].surplus = surplus /\ job'[p].stale = stale
Done(p, j, d) ==
    pc'[p] = "purge" /\ job'[p].todo = j.todo \ {d} /\ job'[p].purged = j.purged \cup {d}

\* The end of a plan (Purged) for an invocation in state j.
LEMMA PurgedMoves ==
    ASSUME TypeOK, NEW p \in Procs, NEW d \in Dests, NEW j \in Jobs, Purged(p, d, j)
    PROVE  Alike(j, job'[p]) /\ job'[p].err = j.err /\ Done(p, j, d)
  BY DEF Purged, Left, Go, TypeOK, Jobs, Alike, Done

\* list_backups and select_purge.
LEMMA ListMoves ==
    ASSUME TypeOK, NEW p \in Procs, NEW d \in Dests, List(p, d)
    PROVE  /\ Alike(job[p], job'[p]) /\ job'[p].err = job[p].err
           /\ \/ AtHand(p, job[p], Plan(p, d).surplus, Plan(p, d).stale)
              \/ /\ Done(p, job[p], d)
                 /\ job[p].dry \/ (Plan(p, d).surplus = {} /\ Plan(p, d).stale = {})
<1> DEFINE plan == Plan(p, d)
           j == [job[p] EXCEPT !.kept = plan.keep, !.surplus = plan.surplus, !.stale = plan.stale]
<1>1. plan.keep \subseteq Names /\ plan.surplus \subseteq Names /\ plan.stale \subseteq Names
  BY PlanType DEF Plan
<1>2. \/ Purged(p, d, job[p]) /\ (job[p].dry \/ plan.surplus \cup plan.stale = {})
      \/ Go(p, "delete", j)
  BY DEF List, Plan
<1> HIDE DEF plan
<1>3. job[p] \in Jobs
  BY DEF TypeOK
<1>4. ASSUME Go(p, "delete", j)
      PROVE  /\ Alike(job[p], job'[p]) /\ job'[p].err = job[p].err
             /\ AtHand(p, job[p], plan.surplus, plan.stale)
  BY <1>3, <1>4 DEF Go, TypeOK, Jobs, Alike, AtHand
<1> HIDE DEF j
<1>5. CASE Go(p, "delete", j)
  BY <1>4, <1>5 DEF plan
<1>6. CASE Purged(p, d, job[p]) /\ (job[p].dry \/ plan.surplus \cup plan.stale = {})
  <2>1. job[p].dry \/ (plan.surplus = {} /\ plan.stale = {})
    BY <1>6
  <2> QED
    BY <1>3, <1>6, <2>1, PurgedMoves DEF plan
<1> QED
  BY <1>2, <1>5, <1>6

\* A removal moves the invocation on as Rest says, and ends no loop early.
LEMMA DeletedOn ==
    ASSUME TypeOK, NEW p \in Procs, NEW d \in Dests, NEW b \in Names, NEW j \in Jobs,
           Deleted(p, d, b, j)
    PROVE  LET rest == Rest(d, b, j)
           IN  /\ Alike(j, job'[p]) /\ job'[p].err = j.err
               /\ \/ AtHand(p, j, rest.surplus, rest.stale) /\ job'[p].tried = rest.tried
                  \/ Done(p, j, d) /\ rest.surplus = {} /\ rest.stale = {}
<1> DEFINE rest == Rest(d, b, j)
<1>1. /\ rest \in Jobs /\ Alike(j, rest) /\ rest.err = j.err
      /\ rest.todo = j.todo /\ rest.purged = j.purged
  BY RestFacts DEF Alike
<1>2. \/ Purged(p, d, rest) /\ rest.surplus \cup rest.stale = {}
      \/ Go(p, "delete", rest)
  BY DEF Deleted
<1> HIDE DEF rest
<1>3. CASE Go(p, "delete", rest)
  <2>1. pc'[p] = "delete" /\ job'[p] = rest
    BY <1>3 DEF Go, TypeOK
  <2>2. AtHand(p, j, rest.surplus, rest.stale) /\ job'[p].tried = rest.tried
    BY <1>1, <2>1 DEF AtHand
  <2> QED
    BY <1>1, <2>1, <2>2 DEF rest
<1>4. CASE Purged(p, d, rest) /\ rest.surplus \cup rest.stale = {}
  <2>1. rest.surplus = {} /\ rest.stale = {}
    BY <1>4
  <2>2. Alike(rest, job'[p]) /\ job'[p].err = rest.err /\ Done(p, rest, d)
    BY <1>1, <1>4, PurgedMoves
  <2>3. Alike(j, job'[p]) /\ job'[p].err = j.err /\ Done(p, j, d)
    BY <1>1, <2>2 DEF Alike, Done
  <2> QED
    BY <2>1, <2>3 DEF rest
<1> QED
  BY <1>2, <1>3, <1>4

\* What is left does not depend on had_error.
LEMMA RestAlike ==
    ASSUME NEW d \in Dests, NEW b \in Names, NEW j \in Jobs, NEW k \in Jobs, Alike(j, k),
           k.surplus = j.surplus, k.stale = j.stale, k.tried = j.tried
    PROVE  /\ Rest(d, b, k).surplus = Rest(d, b, j).surplus
           /\ Rest(d, b, k).stale = Rest(d, b, j).stale
           /\ Rest(d, b, k).tried = Rest(d, b, j).tried
<1>1. Twice(d, b, k) <=> Twice(d, b, j)
  BY DEF Twice, Alike
<1> QED
  BY <1>1 DEF Rest, Jobs

\* delete(), successful or not.
LEMMA DeleteMoves ==
    ASSUME TypeOK, NEW p \in Procs, NEW d \in Dests, NEW b \in Names,
           DeleteOne(p, d, b) \/ DeleteFail(p, d, b)
    PROVE  LET rest == Rest(d, b, job[p])
           IN  /\ Alike(job[p], job'[p])
               /\ (DeleteOne(p, d, b) /\ job'[p].err = job[p].err) \/ job'[p].err = TRUE
               /\ \/ AtHand(p, job[p], rest.surplus, rest.stale) /\ job'[p].tried = rest.tried
                  \/ Done(p, job[p], d) /\ rest.surplus = {} /\ rest.stale = {}
<1> DEFINE j == [job[p] EXCEPT !.err = TRUE]
<1>1. job[p] \in Jobs
  BY DEF TypeOK
<1>2. /\ j \in Jobs /\ Alike(job[p], j) /\ j.err = TRUE
      /\ j.todo = job[p].todo /\ j.purged = job[p].purged
      /\ j.surplus = job[p].surplus /\ j.stale = job[p].stale /\ j.tried = job[p].tried
  BY <1>1 DEF Jobs, Alike
<1>3. (DeleteOne(p, d, b) /\ Deleted(p, d, b, job[p])) \/ Deleted(p, d, b, j)
  BY DEF DeleteOne, DeleteFail
<1> HIDE DEF j
<1>4. CASE DeleteOne(p, d, b) /\ Deleted(p, d, b, job[p])
  BY <1>1, <1>4, DeletedOn
<1>5. CASE Deleted(p, d, b, j)
  <2>1. /\ Rest(d, b, j).surplus = Rest(d, b, job[p]).surplus
        /\ Rest(d, b, j).stale = Rest(d, b, job[p]).stale
        /\ Rest(d, b, j).tried = Rest(d, b, job[p]).tried
    BY <1>1, <1>2, RestAlike
  <2>2. LET rest == Rest(d, b, j)
        IN  /\ Alike(j, job'[p]) /\ job'[p].err = j.err
            /\ \/ AtHand(p, j, rest.surplus, rest.stale) /\ job'[p].tried = rest.tried
               \/ Done(p, j, d) /\ rest.surplus = {} /\ rest.stale = {}
    BY <1>2, <1>5, DeletedOn
  <2> QED
    BY <1>2, <2>1, <2>2 DEF Alike, AtHand, Done
<1> QED
  BY <1>3, <1>4, <1>5

\* list_backups() that fails.
LEMMA ListFailMoves ==
    ASSUME TypeOK, NEW p \in Procs, NEW d \in Dests, ListFail(p, d)
    PROVE  /\ Alike(job[p], job'[p]) /\ job'[p].err = TRUE /\ pc'[p] = "purge"
           /\ job'[p].todo = job[p].todo \ {d} /\ job'[p].purged = job[p].purged
  BY DEF ListFail, Left, Go, TypeOK, Jobs, Alike

\* What delete() removes is gone, and the rest is as it was.
LEMMA DeleteDisk ==
    ASSUME TypeOK, NEW p \in Procs, NEW d \in Dests, NEW b \in Names, DeleteOne(p, d, b)
    PROVE  /\ \A e \in Dests \ {d} : disk'[e] = disk[e] /\ mtime'[e] = mtime[e]
           /\ \A n \in Names : IF n \in Victims(b) THEN disk'[d][n] = "none"
                               ELSE disk'[d][n] = disk[d][n] /\ mtime'[d][n] = mtime[d][n]
  BY DEF DeleteOne, Delete, TypeOK

\* Under the lock, and with each destination once, the loop stays in order.
LEMMA LoopsStep ==
    ASSUME TypeOK, Exclusive, Loops, Owner, NEW p \in Procs, Step(p)
    PROVE  Loops' /\ Owner'
<1> SUFFICES ASSUME NEW q \in Procs
             PROVE  Loop(pc'[q], job'[q]) /\ (job'[q].purged # {} => lock' = q)
  BY DEF Loops, Owner
<1>1. CASE q # p
  BY <1>1, Undisturbed DEF Loops, Owner
<1>2. CASE q = p /\ Elsewhere(p)
  BY <1>2 DEF Elsewhere, Same, Owner
<1>3. CASE q = p /\ PurgeLoop(p)
  <2>1. PICK d \in Dests : \/ List(p, d) \/ ListFail(p, d)
                           \/ \E b \in Names : DeleteOne(p, d, b) \/ DeleteFail(p, d, b)
    BY <1>3 DEF PurgeLoop
  <2>2. pc[p] \in Inside /\ UNCHANGED lock
    BY <2>1 DEF List, ListFail, DeleteOne, DeleteFail, Inside
  <2>3. pc'[p] \in {"purge", "delete"} /\ job'[p].todo \cap job'[p].purged = {}
    BY <2>1, ListMoves, ListFailMoves, DeleteMoves DEF Loops, Loop, AtHand, Done
  <2> QED
    BY <1>3, <2>2, <2>3 DEF Loop, Exclusive
<1> QED
  BY <1>1, <1>2, <1>3, LoopOrElsewhere

\* now is read from the clock and then kept.
LEMMA BeganStep ==
    ASSUME TypeOK, Exclusive, Loops, Began, [Next]_vars
    PROVE  Began'
<1> SUFFICES ASSUME ~ClockSteps, NEW q \in Procs PROVE job'[q].now <= clock'
  BY DEF Began
<1>1. clock \in Nat /\ job[q].now \in Nat /\ job[q].now <= clock
  BY DEF TypeOK, Began, Jobs, Times
<1>2. CASE Tick \/ UNCHANGED vars
  BY <1>1, <1>2 DEF Tick, vars
<1>3. ASSUME NEW p \in Procs, Step(p) PROVE job'[q].now <= clock'
  <2>1. UNCHANGED clock
    BY <1>3 DEF Step, Pipeline, StartRun, StartPurge, Crash, Acquire, Locked, Exit, Unexpected,
                Precondition, CleanWork, Backup, WriteMeta, StoresDone, Decide, PurgesDone, Finish,
                StoreCheck, StoreBegin, StoreCopy, StoreMeta, StoreCommit, StoreFail,
                List, ListFail, DeleteOne, DeleteFail
  <2>2. CASE q # p
    BY <1>1, <1>3, <2>1, <2>2, Undisturbed
  <2>3. CASE q = p /\ Elsewhere(p)
    BY <1>1, <2>1, <2>3 DEF Elsewhere
  <2>4. CASE q = p /\ PurgeLoop(p)
    <3>1. Alike(job[p], job'[p])
      BY <2>4, ListMoves, ListFailMoves, DeleteMoves DEF PurgeLoop
    <3> QED
      BY <1>1, <2>1, <2>4, <3>1 DEF Alike
  <2> QED
    BY <1>3, <2>2, <2>3, <2>4, LoopOrElsewhere
<1> QED
  BY <1>2, <1>3 DEF Next, Step, StepBack

-----------------------------------------------------------------------------
(* The policy is established and stays established                         *)

\* The verdict on a destination that nobody touched.
LEMMA VerdictSame ==
    ASSUME NEW p \in Procs, NEW d \in Dests, disk'[d] = disk[d], mtime'[d] = mtime[d],
           Alike(job[p], job'[p])
    PROVE  Meta(d)' = Meta(d) /\ \A n \in Names : Tidy(p, d, n)' <=> Tidy(p, d, n)
  BY DEF Meta, Tidy, Complete, Alike

\* A successful delete() never makes a destination worse, and what it removes
\* is tidy: of a plan, it is enough to look at the rest.
LEMMA VerdictDeleted ==
    ASSUME TypeOK, NEW p \in Procs, NEW d \in Dests, NEW b \in Names, DeleteOne(p, d, b),
           Alike(job[p], job'[p])
    PROVE  /\ Meta(d)' \ Rest(d, b, job[p]).surplus \subseteq Meta(d) \ job[p].surplus
           /\ \A n \in Names : n \in Victims(b) => Tidy(p, d, n)'
           /\ \A n \in Names \ Victims(b) : Tidy(p, d, n) => Tidy(p, d, n)'
<1>1. /\ b \in Victims(b) /\ Ids \subseteq Names
      /\ \A n \in Names : IF n \in Victims(b) THEN disk'[d][n] = "none"
                         ELSE disk'[d][n] = disk[d][n] /\ mtime'[d][n] = mtime[d][n]
  BY DeleteDisk, NameFacts DEF Victims
<1>2. Meta(d)' \subseteq Meta(d) \ {b}
  BY <1>1 DEF Meta, HasMeta
<1>3. job[p].surplus \subseteq Rest(d, b, job[p]).surplus \cup {b}
  BY DEF Rest, TypeOK, Jobs
<1>4. \A n \in Names : n \in Victims(b) => Tidy(p, d, n)'
  BY <1>1 DEF Tidy
<1>5. \A n \in Names \ Victims(b) : Tidy(p, d, n) => Tidy(p, d, n)'
  BY <1>1 DEF Tidy, Complete, Alike
<1> QED
  BY <1>2, <1>3, <1>4, <1>5

\* A set of ids that shrinks stays within keep.
LEMMA StillKept ==
    ASSUME NEW d \in Dests, NEW S \in SUBSET Ids, NEW T \in SUBSET S, Cardinality(S) <= Keep[d]
    PROVE  Cardinality(T) <= Keep[d]
  BY CountMonotone, OrchestratorAssumption

\* What is left of the plan after a step of its own invocation.
LEMMA ConvergingOwn ==
    ASSUME TypeOK, Converging, NEW p \in Procs, NEW d \in Dests, ~job'[p].err,
           \/ List(p, d) /\ ~job[p].dry
           \/ \E b \in Names : DeleteOne(p, d, b) \/ DeleteFail(p, d, b),
           NEW surplus, NEW stale,
           \/ AtHand(p, job[p], surplus, stale)
           \/ Done(p, job[p], d) /\ surplus = {} /\ stale = {}
    PROVE  /\ Cardinality(Meta(d)' \ surplus) <= Keep[d]
           /\ d \in Local => \A n \in Names : Tidy(p, d, n)' \/ \E b \in stale : n \in Victims(b)
<1>1. CASE List(p, d) /\ ~job[p].dry
  <2>1. UNCHANGED disks /\ Alike(job[p], job'[p])
    BY <1>1, ListMoves DEF List
  <2>2. disk'[d] = disk[d] /\ mtime'[d] = mtime[d]
    BY <2>1 DEF disks
  <2>3. Meta(d)' = Meta(d) /\ \A n \in Names : Tidy(p, d, n)' <=> Tidy(p, d, n)
    BY <2>1, <2>2, VerdictSame
  <2>4. surplus = Plan(p, d).surplus /\ stale = Plan(p, d).stale
    BY <1>1, ListMoves DEF AtHand, Done
  <2>5. Cardinality(Meta(d) \ Plan(p, d).surplus) <= Keep[d]
    BY PlanKeeps
  <2>6. d \in Local => \A n \in Names : Tidy(p, d, n) \/ \E b \in Plan(p, d).stale : n \in Victims(b)
    BY PlanTidies
  <2> QED
    BY <2>3, <2>4, <2>5, <2>6
<1>2. ASSUME NEW b \in Names, DeleteOne(p, d, b) \/ DeleteFail(p, d, b)
      PROVE  /\ Cardinality(Meta(d)' \ surplus) <= Keep[d]
             /\ d \in Local => \A n \in Names : Tidy(p, d, n)' \/ \E c \in stale : n \in Victims(c)
  <2>1. /\ DeleteOne(p, d, b) /\ Alike(job[p], job'[p]) /\ ~job[p].err
        /\ surplus = Rest(d, b, job[p]).surplus /\ stale = Rest(d, b, job[p]).stale
    <3>1. DeleteOne(p, d, b) /\ Alike(job[p], job'[p]) /\ ~job[p].err
      BY <1>2, DeleteMoves
    <3>2. CASE AtHand(p, job[p], Rest(d, b, job[p]).surplus, Rest(d, b, job[p]).stale)
      BY <3>1, <3>2 DEF AtHand, Done
    <3>3. CASE /\ Done(p, job[p], d)
               /\ Rest(d, b, job[p]).surplus = {} /\ Rest(d, b, job[p]).stale = {}
      BY <3>1, <3>3 DEF AtHand, Done
    <3> QED
      BY <1>2, <3>2, <3>3, DeleteMoves
  <2>2. /\ Cardinality(Meta(d) \ job[p].surplus) <= Keep[d]
        /\ d \in Local => \A n \in Names : Tidy(p, d, n) \/ \E c \in job[p].stale : n \in Victims(c)
    BY <1>2, <2>1 DEF Converging, DeleteOne
  <2>3. /\ Meta(d)' \ surplus \subseteq Meta(d) \ job[p].surplus
        /\ \A n \in Names : n \in Victims(b) => Tidy(p, d, n)'
        /\ \A n \in Names \ Victims(b) : Tidy(p, d, n) => Tidy(p, d, n)'
    BY <2>1, VerdictDeleted
  <2>4. job[p].stale \subseteq stale \cup {b}
    BY <2>1 DEF Rest, TypeOK, Jobs
  <2>5. Cardinality(Meta(d)' \ surplus) <= Keep[d]
    <3>1. Meta(d) \ job[p].surplus \in SUBSET Ids
      BY DEF Meta
    <3> QED
      BY <2>2, <2>3, <3>1, StillKept
  <2> QED
    BY <2>2, <2>3, <2>4, <2>5
<1> QED
  BY <1>1, <1>2

\* While a plan is carried out, what it leaves is what the policy asks for.
LEMMA ConvergingStep ==
    ASSUME TypeOK, Exclusive, Loops, Converging, NEW p \in Procs, Step(p)
    PROVE  Converging'
<1> SUFFICES ASSUME NEW q \in Procs, NEW d \in Dests, pc'[q] = "delete", Current(q, d)', ~job'[q].err
             PROVE  /\ Cardinality(Meta(d)' \ job'[q].surplus) <= Keep[d]
                    /\ d \in Local => \A n \in Names :
                          Tidy(q, d, n)' \/ \E b \in job'[q].stale : n \in Victims(b)
  BY DEF Converging
<1>1. CASE q # p
  <2>1. pc[q] = "delete" /\ job'[q] = job[q] /\ Current(q, d)
    BY <1>1, Undisturbed DEF Current
  <2>2. disk'[d] = disk[d] /\ mtime'[d] = mtime[d] /\ Alike(job[q], job'[q])
    BY <1>1, <2>1, Undisturbed DEF Exclusive, Inside, disks, Alike
  <2>3. Meta(d)' = Meta(d) /\ \A n \in Names : Tidy(q, d, n)' <=> Tidy(q, d, n)
    BY <2>2, VerdictSame
  <2> QED
    BY <2>1, <2>3 DEF Converging
<1>2. CASE q = p
  <2>1. PurgeLoop(p)
    BY <1>2, LoopOrElsewhere DEF Elsewhere
  <2>2. PICK e \in Dests : List(p, e) \/ \E b \in Names : DeleteOne(p, e, b) \/ DeleteFail(p, e, b)
    BY <1>2, <2>1, ListFailMoves DEF PurgeLoop
  <2>3. AtHand(p, job[p], job'[p].surplus, job'[p].stale) /\ Current(p, e)
    BY <1>2, <2>2, ListMoves, DeleteMoves DEF AtHand, Done, List, DeleteOne, DeleteFail
  <2>4. d = e
    BY <1>2, <2>3, OneCurrent DEF Current, AtHand
  <2>5. List(p, e) => ~job[p].dry
    BY <1>2 DEF List, Purged, Go, TypeOK
  <2> QED
    BY <1>2, <2>2, <2>3, <2>4, <2>5, ConvergingOwn
<1> QED
  BY <1>1, <1>2

\* A destination that is done with stays as the purge left it, as long as the
\* invocation holds the lock; the one just dealt with has no plan left.
LEMMA ConvergedStep ==
    ASSUME TypeOK, Exclusive, Loops, Owner, Converging, Converged, NEW p \in Procs, Step(p)
    PROVE  Converged'
<1> SUFFICES ASSUME NEW q \in Procs, ~job'[q].err, ~job'[q].dry, NEW d \in job'[q].purged
             PROVE  /\ Cardinality(Meta(d)') <= Keep[d]
                    /\ d \in Local => \A n \in Names : Tidy(q, d, n)'
  BY DEF Converged
<1>1. ASSUME Alike(job[q], job'[q]), ~job[q].err, d \in job[q].purged, d \in Dests,
             disk'[d] = disk[d], mtime'[d] = mtime[d]
      PROVE  /\ Cardinality(Meta(d)') <= Keep[d]
             /\ d \in Local => \A n \in Names : Tidy(q, d, n)'
  <2>1. ~job[q].dry
    BY <1>1 DEF Alike
  <2> QED
    BY <1>1, <2>1, VerdictSame DEF Converged
<1>2. \A r \in Procs : job[r].purged \subseteq Dests
  BY DEF TypeOK, Jobs
<1>3. CASE q # p
  <2>1. job'[q] = job[q] /\ lock = q
    BY <1>3, Undisturbed DEF Owner
  <2>2. UNCHANGED disks /\ d \in Dests /\ Alike(job[q], job'[q])
    BY <1>2, <1>3, <2>1, Undisturbed DEF Alike
  <2> QED
    BY <1>1, <2>1, <2>2 DEF disks
<1>4. CASE q = p /\ Elsewhere(p)
  <2>1. Same(job[p], job'[p]) /\ UNCHANGED disks
    BY <1>4 DEF Elsewhere
  <2> QED
    BY <1>1, <1>2, <1>4, <2>1 DEF Same, Alike, disks
<1>5. CASE q = p /\ PurgeLoop(p)
  <2>1. PICK e \in Dests : List(p, e) \/ \E b \in Names : DeleteOne(p, e, b) \/ DeleteFail(p, e, b)
    BY <1>5, ListFailMoves DEF PurgeLoop
  <2>2. /\ Current(p, e) /\ Alike(job[p], job'[p]) /\ ~job[p].err /\ ~job[p].dry
        /\ List(p, e) \/ \E b \in Names : DeleteOne(p, e, b)
    BY <1>5, <2>1, ListMoves, DeleteMoves DEF List, DeleteOne, DeleteFail, Alike
  <2>3. \/ Done(p, job[p], e)
        \/ job'[p].purged = job[p].purged
    BY <2>1, ListMoves, DeleteMoves DEF AtHand
  <2>4. e \notin job[p].purged
    BY <2>2 DEF Loops, Loop, Current
  <2>5. CASE d \in job[p].purged
    <3>1. d \in Dests \ {e}
      BY <1>2, <2>4, <2>5
    <3>2. disk'[d] = disk[d] /\ mtime'[d] = mtime[d]
      BY <2>2, <3>1, DeleteDisk DEF List, disks
    <3> QED
      BY <1>1, <1>5, <2>2, <2>5, <3>1, <3>2
  <2>6. CASE d \notin job[p].purged
    <3>1. Done(p, job[p], e) /\ d = e
      BY <1>5, <2>3, <2>6 DEF Done
    <3> DEFINE none == {}
    <3>2. none = {}
      OBVIOUS
    <3> HIDE DEF none
    <3>3. /\ d \in Dests /\ ~job'[p].err /\ Done(p, job[p], d) /\ none = {}
          /\ (List(p, d) /\ ~job[p].dry) \/ \E b \in Names : DeleteOne(p, d, b) \/ DeleteFail(p, d, b)
      BY <1>5, <2>1, <2>2, <3>1, <3>2
    <3>4. /\ Cardinality(Meta(d)' \ none) <= Keep[d]
          /\ d \in Local => \A n \in Names : Tidy(p, d, n)' \/ \E b \in none : n \in Victims(b)
      BY <3>3, ConvergingOwn
    <3>5. Meta(d)' \ none = Meta(d)'
      BY <3>2
    <3>6. d \in Local => \A n \in Names : Tidy(p, d, n)'
      BY <3>2, <3>4
    <3> QED
      BY <1>5, <3>4, <3>5, <3>6
  <2> QED
    BY <2>5, <2>6
<1> QED
  BY <1>3, <1>4, <1>5, LoopOrElsewhere

\* What is still to be deleted is untouched so far: surplus and stale ids are
\* different ones, so a delete() concerns one of them.
LEMMA OverdueStep ==
    ASSUME TypeOK, Exclusive, Loops, Planned, Overdue, NEW p \in Procs, Step(p)
    PROVE  Overdue'
<1> SUFFICES ASSUME NEW q \in Procs, NEW d \in Local, pc'[q] = "delete", Current(q, d)'
             PROVE  /\ \A b \in job'[q].surplus : HasMeta(disk'[d][b])
                    /\ \A b \in job'[q].stale \ job'[q].tried : \E n \in Victims(b) : Late(q, d, n)'
  BY DEF Overdue
<1>0. d \in Dests
  BY DEF Local
<1>1. CASE q # p
  <2>1. pc[q] = "delete" /\ job'[q] = job[q] /\ Current(q, d)
    BY <1>1, Undisturbed DEF Current
  <2>2. disk'[d] = disk[d] /\ mtime'[d] = mtime[d]
    BY <1>1, <2>1, Undisturbed DEF Exclusive, Inside, disks
  <2> QED
    BY <2>1, <2>2 DEF Overdue, Late
<1>2. CASE q = p
  <2>1. PurgeLoop(p)
    BY <1>2, LoopOrElsewhere DEF Elsewhere
  <2>2. PICK e \in Dests : List(p, e) \/ \E b \in Names : DeleteOne(p, e, b) \/ DeleteFail(p, e, b)
    BY <1>2, <2>1, ListFailMoves DEF PurgeLoop
  <2>3. AtHand(p, job[p], job'[p].surplus, job'[p].stale) /\ Current(p, e) /\ Alike(job[p], job'[p])
    BY <1>2, <2>2, ListMoves, DeleteMoves DEF AtHand, Done, List, DeleteOne, DeleteFail
  <2>4. d = e
    BY <1>0, <1>2, <2>3, OneCurrent DEF Current, AtHand
  <2>5. CASE List(p, e)
    <3>1. job'[p].surplus = Plan(p, d).surplus /\ job'[p].stale = Plan(p, d).stale
      BY <2>3, <2>4, <2>5, ListMoves DEF AtHand, Done
    <3>2. disk' = disk /\ mtime' = mtime
      BY <2>5 DEF List, disks
    <3>3. /\ \A b \in Plan(p, d).surplus : HasMeta(disk[d][b])
          /\ \A b \in Plan(p, d).stale : \E n \in Victims(b) : Late(p, d, n)
      BY PlanTidies
    <3> QED
      BY <1>2, <2>3, <3>1, <3>2, <3>3 DEF Late, Alike
  <2>6. ASSUME NEW b \in Names, DeleteOne(p, e, b) \/ DeleteFail(p, e, b)
        PROVE  /\ \A c \in job'[p].surplus : HasMeta(disk'[d][c])
               /\ \A c \in job'[p].stale \ job'[p].tried : \E n \in Victims(c) : Late(p, d, n)'
    <3>1. /\ pc[p] = "delete" /\ Current(p, d) /\ NextToDelete(job[p], b)
          /\ job'[p].surplus = Rest(d, b, job[p]).surplus
          /\ job'[p].stale = Rest(d, b, job[p]).stale /\ job'[p].tried = Rest(d, b, job[p]).tried
      <4>1. pc[p] = "delete" /\ Current(p, d) /\ NextToDelete(job[p], b)
        BY <2>4, <2>6 DEF DeleteOne, DeleteFail
      <4>2. ~Done(p, job[p], e)
        BY <2>3 DEF AtHand, Done
      <4>3. /\ AtHand(p, job[p], Rest(e, b, job[p]).surplus, Rest(e, b, job[p]).stale)
            /\ job'[p].tried = Rest(e, b, job[p]).tried
        BY <2>6, <4>2, DeleteMoves
      <4> QED
        BY <2>4, <4>1, <4>3 DEF AtHand
    <3>2. /\ job[p].surplus \subseteq Ids /\ job[p].stale \subseteq Ids
          /\ \A c \in job[p].stale : ~HasMeta(disk[d][c])
          /\ \A c \in job[p].surplus : HasMeta(disk[d][c])
          /\ \A c \in job[p].stale \ job[p].tried : \E n \in Victims(c) : Late(p, d, n)
      BY <3>1 DEF Planned, Overdue
    <3>3. /\ b \in Ids
          /\ \A c \in job'[p].surplus : c \in job[p].surplus /\ c # b
          /\ \A c \in job'[p].stale \ job'[p].tried : c \in job[p].stale \ job[p].tried /\ c # b
      <4> USE DEF NextToDelete, Rest, TypeOK, Jobs
      <4>1. b \in Ids
        BY <3>1, <3>2
      <4>2. CASE job[p].surplus # {}
        BY <3>1, <3>2, <4>2
      <4>3. CASE job[p].surplus = {} /\ Twice(d, b, job[p])
        BY <3>1, <3>2, <4>3
      <4>4. CASE job[p].surplus = {} /\ ~Twice(d, b, job[p])
        BY <3>1, <3>2, <4>4
      <4> QED
        BY <4>1, <4>2, <4>3, <4>4
    <3>4. \A n \in Names \ Victims(b) : disk'[d][n] = disk[d][n] /\ mtime'[d][n] = mtime[d][n]
      BY <2>4, <2>6 DEF DeleteOne, DeleteFail, Delete, DeleteInterrupted, TypeOK
    <3>5. ASSUME NEW c \in Ids, c # b PROVE Victims(c) \subseteq Names \ Victims(b) /\ c \in Victims(c)
      BY <3>3, <3>5, NameFacts, PartialFacts DEF Victims
    <3>6. \A c \in job'[p].surplus : HasMeta(disk'[d][c])
      BY <3>2, <3>3, <3>4, <3>5
    <3>7. ASSUME NEW c \in job'[p].stale \ job'[p].tried PROVE \E n \in Victims(c) : Late(p, d, n)'
      <4>1. PICK n \in Victims(c) : Late(p, d, n)
        BY <3>2, <3>3
      <4>2. disk'[d][n] = disk[d][n] /\ mtime'[d][n] = mtime[d][n]
        BY <3>2, <3>3, <3>4, <3>5
      <4>3. Late(p, d, n)'
        BY <2>3, <4>1, <4>2 DEF Late, Alike
      <4> QED
        BY <4>3
    <3> QED
      BY <3>6, <3>7
  <2> QED
    BY <1>2, <2>2, <2>5, <2>6
<1> QED
  BY <1>1, <1>2

-----------------------------------------------------------------------------
(* The invariant and what follows from it                                  *)

\* Nothing is purged or planned before the first invocation.
LEMMA ConvInit == Init => ConvInv
<1> SUFFICES ASSUME Init PROVE ConvInv
  OBVIOUS
<1>1. SafetyInv
  BY SafetyInit
<1>2. \A p \in Procs : /\ pc[p] = "idle" /\ job[p].purged = {} /\ job[p].todo = {}
                       /\ job[p].now = 0 /\ clock = 0
  BY DEF Init, NoJob
<1>3. Loops /\ Owner /\ Converging /\ Converged /\ Overdue /\ Began
  BY <1>2 DEF Loops, Loop, Owner, Converging, Converged, Overdue, Began
<1> QED
  BY <1>1, <1>3 DEF ConvInv

\* The invariant is inductive.
LEMMA ConvStep == ConvInv /\ [Next]_vars => ConvInv'
<1> SUFFICES ASSUME ConvInv, [Next]_vars PROVE ConvInv'
  OBVIOUS
<1>1. SafetyInv' /\ Began'
  BY SafetyStep, BeganStep DEF ConvInv, SafetyInv, LockInv
<1>2. CASE UNCHANGED <<lock, work, pc, job, disks>>
  <2>1. UNCHANGED <<lock, pc, job, disk, mtime>>
    BY <1>2 DEF disks
  <2>2. Loops' /\ Owner'
    BY <2>1 DEF ConvInv, Loops, Loop, Owner
  <2>3. Converging' /\ Converged'
    BY <2>1 DEF ConvInv, Converging, Converged, Meta, Tidy, Complete, Current
  <2>4. Overdue'
    BY <2>1 DEF ConvInv, Overdue, Late, Current
  <2> QED
    BY <1>1, <2>2, <2>3, <2>4 DEF ConvInv
<1>3. ASSUME NEW p \in Procs, Step(p) PROVE ConvInv'
  BY <1>1, <1>3, LoopsStep, ConvergingStep, ConvergedStep, OverdueStep DEF ConvInv, SafetyInv, LockInv
<1> QED
  BY <1>2, <1>3, StepOrQuiet

\* The invariant holds throughout.
LEMMA ConvAlways == Spec => []ConvInv
  BY ConvInit, ConvStep, PTL DEF Spec

\* Where a purge ends without an error, keep complete generations at most are
\* left; at a local destination nothing incomplete is left over the grace period
\* but the generation in progress.  So it is with local and ssh destinations in
\* any combination, whatever else the remote directories hold (select_purge,
\* _purge_one_destination).
THEOREM PurgesConverge == Spec => []PurgeConverges
<1>1. ConvInv => PurgeConverges
  <2> SUFFICES ASSUME ConvInv, NEW p \in Procs, NEW d \in Dests, AfterPurge(p, d)
               PROVE  KeepEstablished(p, d) /\ (d \in Local => \A n \in Names : Tidy(p, d, n))
    BY DEF PurgeConverges
  <2>1. Meta(d) = {n \in Names : Complete(d, n)}
    BY NameFacts DEF Meta, Complete
  <2>2. Cardinality(Meta(d)) <= Keep[d] /\ (d \in Local => \A n \in Names : Tidy(p, d, n))
    BY DEF ConvInv, Converged, AfterPurge
  <2> QED
    BY <2>1, <2>2 DEF KeepEstablished
<1> QED
  BY <1>1, ConvAlways, PTL

-----------------------------------------------------------------------------
(* What SUCCESS of a run says of the destinations                          *)

\* A run purges, and no destination that it has stored at is left out of its
\* purge without an error; SUCCESS is the verdict on a purge of all of them.
Account(place, j) ==
    /\ j.cmd = "run" => ~j.dry
    /\ place \in {"purge", "delete"} /\ j.cmd = "run" /\ ~j.err => j.stored \subseteq j.todo \cup j.purged
    /\ place \in {"finish", "exit"} /\ j.cmd = "run" /\ j.code = "SUCCESS" =>
          ~j.err /\ Dests \subseteq j.purged
Accounts == \A p \in Procs : Account(pc[p], job[p])

\* cli.main() and the exceptions that reach it.
LEMMA AccountMain ==
    ASSUME TypeOK, NEW p \in Procs, Account(pc[p], job[p]),
           \/ StartRun(p) \/ StartPurge(p) \/ Crash(p) \/ Acquire(p) \/ Locked(p) \/ Exit(p)
           \/ Unexpected(p)
    PROVE  Account(pc'[p], job'[p])
<1> USE DEF Account, Go, Raise, TypeOK
<1>1. NoJob.cmd = "purge" /\ ~NoJob.dry /\ NoJob \in Jobs
  BY NoJobType DEF NoJob
<1>2. CASE Crash(p) \/ Exit(p)
  BY <1>1, <1>2 DEF Crash, Exit
<1>3. CASE StartRun(p)
  <2>1. PICK prefix \in Prefixes, policy \in Policies :
           Go(p, "lock", [NoJob EXCEPT !.cmd = "run", !.policy = policy, !.now = clock,
                                       !.id = generate_backup_id(prefix, clock)])
    BY <1>3 DEF StartRun
  <2>2. pc'[p] = "lock" /\ ~job'[p].dry
    BY <1>1, <2>1
  <2> QED
    BY <2>2
<1>4. CASE StartPurge(p)
  <2>1. PICK targets, dry :
           Go(p, "lock", [NoJob EXCEPT !.now = clock, !.todo = targets, !.dry = dry])
    BY <1>4 DEF StartPurge
  <2>2. job'[p].cmd = "purge"
    BY <1>1, <2>1
  <2> QED
    BY <2>2
<1>5. CASE Acquire(p)
  <2>1. CASE job[p].cmd = "run"
    <3>1. pc'[p] = "precondition" /\ job'[p] = job[p]
      BY <1>5, <2>1 DEF Acquire
    <3> QED
      BY <3>1
  <2>2. CASE job[p].cmd # "run"
    BY <1>5, <2>2 DEF Acquire
  <2> QED
    BY <2>1, <2>2
<1>6. ASSUME NEW code \in Codes \ {"SUCCESS"}, Raise(p, code) PROVE Account(pc'[p], job'[p])
  <2>1. /\ pc'[p] = "exit" /\ job'[p].cmd = job[p].cmd /\ job'[p].dry = job[p].dry
        /\ job'[p].code # "SUCCESS"
    BY <1>6 DEF Jobs
  <2> QED
    BY <2>1
<1>7. CASE Locked(p) \/ Unexpected(p)
  BY <1>6, <1>7 DEF Locked, Unexpected, Codes
<1> QED
  BY <1>2, <1>3, <1>4, <1>5, <1>7

\* run() outside its loops: what is purged is what was stored, and the exit code
\* says whether all of it was.
LEMMA AccountRun ==
    ASSUME TypeOK, NEW p \in Procs, Account(pc[p], job[p]), Ledger(pc[p], job[p]),
           \/ Precondition(p) \/ CleanWork(p) \/ Backup(p) \/ WriteMeta(p)
           \/ StoresDone(p) \/ Decide(p) \/ PurgesDone(p) \/ Finish(p)
    PROVE  Account(pc'[p], job'[p])
<1> USE DEF Account, Go, TypeOK, Jobs
<1>1. CASE Precondition(p)
  <2>1. \/ pc'[p] = "cleanup" /\ job'[p] = job[p]
        \/ pc'[p] = "exit" /\ job'[p] = [job[p] EXCEPT !.code = "PRECONDITION_FAILED"]
    BY <1>1 DEF Precondition, Raise
  <2> QED
    BY <2>1
<1>2. CASE CleanWork(p) \/ StoresDone(p)
  <2>1. job'[p] = job[p] /\ pc'[p] \in {"backup", "decide"}
    BY <1>2 DEF CleanWork, StoresDone
  <2> QED
    BY <2>1
<1>3. CASE Backup(p)
  <2>1. \/ pc'[p] = "meta" /\ job'[p] = job[p]
        \/ pc'[p] = "finish" /\ job'[p] = [job[p] EXCEPT !.code = "BACKUP_FAILED"]
    BY <1>3 DEF Backup
  <2>2. pc[p] = "backup"
    BY <1>3 DEF Backup
  <2> QED
    BY <2>1, <2>2
<1>4. CASE WriteMeta(p)
  <2>1. /\ pc[p] = "meta" /\ pc'[p] = "store"
        /\ job'[p] = [job[p] EXCEPT !.todo = Dests, !.stamp = clock]
    BY <1>4 DEF WriteMeta
  <2> QED
    BY <2>1
<1>5. CASE Decide(p)
  <2>1. CASE pc'[p] = "finish"
    <3>1. job'[p] = [job[p] EXCEPT !.code = "ALL_DESTINATIONS_FAILED"]
      BY <1>5, <2>1 DEF Decide
    <3> QED
      BY <2>1, <3>1
  <2>2. CASE pc'[p] # "finish"
    <3>1. pc'[p] = "purge" /\ job'[p] = [job[p] EXCEPT !.todo = PurgeTargets(job[p])]
      BY <1>5, <2>2 DEF Decide
    <3>2. /\ job'[p].stored = job'[p].todo /\ job'[p].cmd = job[p].cmd
          /\ job'[p].dry = job[p].dry
      BY <3>1 DEF PurgeTargets
    <3> QED
      BY <3>1, <3>2
  <2> QED
    BY <2>1, <2>2
<1>6. CASE PurgesDone(p)
  <2>1. /\ pc[p] = "purge" /\ job[p].todo = {} /\ pc'[p] \in {"finish", "exit"}
        /\ job'[p] = [job[p] EXCEPT !.code = ExitCode(job[p])]
    BY <1>6 DEF PurgesDone
  <2>2. /\ job'[p].code = ExitCode(job[p]) /\ job'[p].cmd = job[p].cmd
        /\ job'[p].dry = job[p].dry /\ job'[p].err = job[p].err /\ job'[p].purged = job[p].purged
    BY <2>1
  <2>3. ASSUME job[p].cmd = "run", ExitCode(job[p]) = "SUCCESS"
        PROVE  ~job[p].err /\ Dests \subseteq job[p].purged
    <3>1. job[p].failed = {} /\ ~job[p].err
      BY <2>3 DEF ExitCode
    <3>2. Dests \subseteq job[p].stored /\ job[p].stored \subseteq job[p].purged
      BY <2>1, <2>3, <3>1 DEF Ledger
    <3> QED
      BY <3>1, <3>2
  <2> QED
    BY <2>1, <2>2, <2>3
<1>7. CASE Finish(p)
  <2>1. /\ pc[p] = "finish" /\ pc'[p] = "exit" /\ job'[p] = [job[p] EXCEPT !.notified = TRUE]
    BY <1>7 DEF Finish
  <2>2. /\ job'[p].code = job[p].code /\ job'[p].cmd = job[p].cmd
        /\ job'[p].dry = job[p].dry /\ job'[p].err = job[p].err /\ job'[p].purged = job[p].purged
    BY <2>1
  <2> QED
    BY <2>1, <2>2
<1> QED
  BY <1>1, <1>2, <1>3, <1>4, <1>5, <1>6, <1>7

\* The loops: a destination leaves the purge as done with, or by an error.
LEMMA AccountLoops ==
    ASSUME TypeOK, NEW p \in Procs, Account(pc[p], job[p]), NEW d \in Dests,
           \/ StoreCheck(p, d) \/ StoreBegin(p, d) \/ StoreCopy(p, d)
           \/ StoreMeta(p, d) \/ StoreCommit(p, d) \/ StoreFail(p, d)
           \/ List(p, d) \/ ListFail(p, d)
           \/ \E b \in Names : DeleteOne(p, d, b) \/ DeleteFail(p, d, b)
    PROVE  Account(pc'[p], job'[p])
<1>1. CASE \/ StoreCheck(p, d) \/ StoreBegin(p, d) \/ StoreCopy(p, d)
           \/ StoreMeta(p, d) \/ StoreCommit(p, d) \/ StoreFail(p, d)
  <2>1. pc'[p] \in Storing /\ job'[p].cmd = job[p].cmd /\ job'[p].dry = job[p].dry
    <3> USE DEF Go, TypeOK, Jobs, Storing
    <3>1. \/ Stored(p, d) \/ Failed(p, d)
          \/ pc'[p] \in Storing /\ job'[p] = job[p]
      BY <1>1 DEF StoreCheck, StoreBegin, StoreCopy, StoreMeta, StoreCommit, StoreFail
    <3>2. CASE Stored(p, d)
      BY <3>2 DEF Stored
    <3>3. CASE Failed(p, d)
      BY <3>3 DEF Failed
    <3> QED
      BY <3>1, <3>2, <3>3
  <2> QED
    BY <2>1 DEF Account, Storing
<1>2. CASE \/ List(p, d) \/ ListFail(p, d)
           \/ \E b \in Names : DeleteOne(p, d, b) \/ DeleteFail(p, d, b)
  <2>1. pc[p] \in {"purge", "delete"} /\ job'[p].stored = job[p].stored
    BY <1>2, PurgeMoves DEF List, ListFail, DeleteOne, DeleteFail
  <2>2. /\ Alike(job[p], job'[p]) /\ pc'[p] \in {"purge", "delete"}
        /\ job'[p].err \in BOOLEAN /\ job[p].err \in BOOLEAN
        /\ \/ job'[p].err = TRUE
           \/ /\ job'[p].err = job[p].err
              /\ job[p].todo \cup job[p].purged \subseteq job'[p].todo \cup job'[p].purged
    <3>1. job[p].err \in BOOLEAN
      BY DEF TypeOK, Jobs
    <3>2. CASE List(p, d)
      BY <3>1, <3>2, ListMoves DEF AtHand, Done
    <3>3. CASE ListFail(p, d)
      BY <3>1, <3>3, ListFailMoves
    <3>4. CASE \E b \in Names : DeleteOne(p, d, b) \/ DeleteFail(p, d, b)
      <4>1. PICK b \in Names : DeleteOne(p, d, b) \/ DeleteFail(p, d, b)
        BY <3>4
      <4>2. /\ Alike(job[p], job'[p]) /\ (job'[p].err = job[p].err \/ job'[p].err = TRUE)
            /\ \/ AtHand(p, job[p], Rest(d, b, job[p]).surplus, Rest(d, b, job[p]).stale)
               \/ Done(p, job[p], d)
        BY <4>1, DeleteMoves
      <4> QED
        BY <3>1, <4>2 DEF AtHand, Done
    <3> QED
      BY <1>2, <3>2, <3>3, <3>4
  <2>3. pc'[p] \notin {"finish", "exit"} /\ job'[p].cmd = job[p].cmd /\ job'[p].dry = job[p].dry
    BY <2>2 DEF Alike
  <2>4. ASSUME job'[p].cmd = "run", ~job'[p].err
        PROVE  job'[p].stored \subseteq job'[p].todo \cup job'[p].purged
    <3>1. ~job[p].err /\ job[p].todo \cup job[p].purged \subseteq job'[p].todo \cup job'[p].purged
      BY <2>2, <2>4
    <3>2. job[p].stored \subseteq job[p].todo \cup job[p].purged
      BY <2>1, <2>3, <2>4, <3>1 DEF Account
    <3> QED
      BY <2>1, <3>1, <3>2
  <2> QED
    BY <2>3, <2>4 DEF Account
<1> QED
  BY <1>1, <1>2

\* Nobody runs at first.
LEMMA AccountsInit == Init => Accounts
  BY DEF Init, Accounts, Account, NoJob

\* Every step keeps the accounts.
LEMMA AccountsStep == ConvInv /\ Accounts /\ [Next]_vars => Accounts'
<1> SUFFICES ASSUME ConvInv, Accounts, [Next]_vars, NEW q \in Procs
             PROVE  Account(pc'[q], job'[q])
  BY DEF Accounts
<1>0. TypeOK /\ Exclusive /\ Ledgers
  BY DEF ConvInv, SafetyInv, LockInv
<1>1. CASE UNCHANGED <<lock, work, pc, job, disks>>
  BY <1>1 DEF Accounts
<1>2. ASSUME NEW p \in Procs, Step(p) PROVE Account(pc'[q], job'[q])
  <2>1. CASE q # p
    BY <1>0, <1>2, <2>1, Undisturbed DEF Accounts
  <2>2. CASE q = p
    <3>1. Account(pc[p], job[p]) /\ Ledger(pc[p], job[p])
      BY <1>0 DEF Accounts, Ledgers
    <3> QED
      BY <1>0, <1>2, <2>2, <3>1, AccountMain, AccountRun, AccountLoops DEF Step, Pipeline
  <2> QED
    BY <2>1, <2>2
<1> QED
  BY <1>1, <1>2, StepOrQuiet

\* A run that reports SUCCESS has purged every destination, and what each holds
\* is what the policy asks for (_purge_stored_destinations, _finish).
THEOREM SuccessIsPurged == Spec => []SuccessMeansPurged
<1>1. ConvInv /\ Accounts => SuccessMeansPurged
  <2> SUFFICES ASSUME ConvInv, Accounts, NEW p \in Procs, pc[p] = "exit", job[p].cmd = "run",
                      job[p].code = "SUCCESS", NEW d \in Dests
               PROVE  KeepEstablished(p, d) /\ (d \in Local => \A n \in Names : Tidy(p, d, n))
    BY DEF SuccessMeansPurged
  <2>1. ~job[p].err /\ ~job[p].dry /\ d \in job[p].purged
    BY DEF Accounts, Account
  <2>2. Cardinality(Meta(d)) <= Keep[d] /\ (d \in Local => \A n \in Names : Tidy(p, d, n))
    BY <2>1 DEF ConvInv, Converged
  <2>3. Meta(d) = {n \in Names : Complete(d, n)}
    BY NameFacts DEF Meta, Complete
  <2> QED
    BY <2>2, <2>3 DEF KeepEstablished
<1> QED
  BY <1>1, AccountsInit, AccountsStep, ConvAlways, PTL DEF Spec

-----------------------------------------------------------------------------
(* Who removes a partial generation                                        *)

\* store() writes to a partial until it renames it.
LEMMA StoreKeepsPartial ==
    ASSUME TypeOK, Copied, NEW p \in Procs, NEW d \in Local, NEW e \in Dests, NEW x \in Ids,
           \/ StoreCheck(p, e) \/ StoreBegin(p, e) \/ StoreCopy(p, e)
           \/ StoreMeta(p, e) \/ StoreCommit(p, e) \/ StoreFail(p, e),
           disk[d][Partial(x)] # "none", disk'[d][Partial(x)] = "none"
    PROVE  disk'[d][x] = "whole"
<1> DEFINE y == job[p].id
<1>1. /\ d \in Dests /\ Kind[d] = "local" /\ disk \in [Dests -> [Names -> DirStates]]
      /\ y \in Ids /\ y \in Names /\ Partial(y) \in Names /\ Partial(x) \in Names
      /\ Partial(y) # y /\ Partial(x) # y /\ (Partial(x) = Partial(y) => x = y)
  BY NameFacts, PartialFacts DEF Local, TypeOK, Jobs
<1> HIDE DEF y
<1>2. ASSUME NEW s, s # "none", NEW t, Set(e, Partial(y), s, t) PROVE FALSE
  BY <1>1, <1>2 DEF Set
<1>3. CASE StoreCheck(p, e)
  BY <1>3 DEF StoreCheck, disks
<1>4. CASE StoreBegin(p, e) \/ StoreCopy(p, e) \/ StoreMeta(p, e)
  BY <1>2, <1>4 DEF StoreBegin, StoreCopy, StoreMeta, BeginCopy, FinishCopy, CopyMeta, y
<1>5. CASE StoreCommit(p, e)
  <2>1. Rename(e, y, clock) /\ disk[e][Partial(y)] = "whole"
    BY <1>5 DEF StoreCommit, Copied, y
  <2>2. d = e /\ x = y
    BY <1>1, <2>1 DEF Rename
  <2> QED
    BY <1>1, <2>1, <2>2 DEF Rename, Nests
<1>6. CASE StoreFail(p, e)
  <2>1. CASE UNCHANGED disks
    BY <2>1 DEF disks
  <2>2. CASE BeginInterrupted(e, y, clock)
    BY <1>2, <2>2 DEF BeginInterrupted
  <2>3. CASE Kind[e] = "ssh" /\ Rename(e, y, clock)
    BY <1>1, <2>3 DEF Rename
  <2> QED
    BY <1>6, <2>1, <2>2, <2>3 DEF StoreFail, y
<1> QED
  BY <1>3, <1>4, <1>5, <1>6

\* With a clock that is not set back, a partial generation of a local destination
\* goes by its commit, or when nobody writes it and it, or a damaged directory
\* with its id, is over the grace period, or by the second delete() of a purge
\* that has found both so (select_purge, delete).
THEOREM PartialsProtected ==
    ASSUME ~ClockSteps
    PROVE  Spec => PartialProtected
<1> DEFINE Protected == \A d \in Local, x \in Ids :
              disk[d][Partial(x)] # "none" /\ disk'[d][Partial(x)] = "none" => PartialGoes(d, x)
<1>1. ConvInv /\ [Next]_vars => Protected
  <2> SUFFICES ASSUME ConvInv, [Next]_vars, NEW d \in Local, NEW x \in Ids,
                      disk[d][Partial(x)] # "none", disk'[d][Partial(x)] = "none"
               PROVE  PartialGoes(d, x)
    OBVIOUS
  <2>0. /\ TypeOK /\ Exclusive /\ Copied /\ Planned /\ Single /\ Overdue /\ Began
        /\ d \in Dests /\ Partial(x) \in Names
    BY NameFacts DEF ConvInv, SafetyInv, LockInv, Local
  <2>1. PICK p \in Procs : Step(p)
    BY StepOrQuiet DEF disks
  <2>2. CASE \E e \in Dests : \/ StoreCheck(p, e) \/ StoreBegin(p, e) \/ StoreCopy(p, e)
                              \/ StoreMeta(p, e) \/ StoreCommit(p, e) \/ StoreFail(p, e)
    BY <2>0, <2>2, StoreKeepsPartial DEF PartialGoes
  <2>3. ASSUME NEW e \in Dests, NEW b \in Names, DeleteOne(p, e, b) \/ DeleteFail(p, e, b)
        PROVE  PartialGoes(d, x)
    <3>1. Deleting(p, d, b) /\ Apart(d, b)
      BY <2>0, <2>3, DeleteEffect DEF Remove
    <3>2. b \in Ids /\ b = x
      BY <2>0, <3>1, PartialFacts DEF Deleting, Apart
    <3>3. ~HasMeta(disk[d][x])
      BY <2>0 DEF Single
    <3>4. x \in job[p].stale
      BY <2>0, <3>1, <3>2, <3>3 DEF Deleting, Overdue
    <3> SUFFICES ASSUME x \notin job[p].tried PROVE PartialGoes(d, x)
      BY <3>1 DEF PartialGoes, Deleting
    <3>5. PICK n \in Victims(x) : disk[d][n] # "none" /\ job[p].now - mtime[d][n] >= Grace
      BY <2>0, <3>1, <3>4 DEF Deleting, Overdue, Late
    <3>6. clock - mtime[d][n] >= Grace
      <4>1. n \in Names
        BY NameFacts DEF Victims
      <4>2. clock \in Int /\ job[p].now \in Int /\ mtime[d][n] \in Int /\ Grace \in Int
        BY <2>0, <4>1, OrchestratorAssumption DEF TypeOK, Jobs, Times
      <4>3. job[p].now <= clock
        BY <2>0 DEF Began
      <4> QED
        BY <3>5, <4>2, <4>3
    <3>7. \A q \in Procs : pc[q] \notin Storing
      BY <2>0, <3>1 DEF Deleting, Exclusive, Inside, Storing
    <3> QED
      BY <3>5, <3>6, <3>7 DEF PartialGoes
  <2>4. CASE UNCHANGED disks
    BY <2>4 DEF disks
  <2>5. CASE \/ StartRun(p) \/ StartPurge(p) \/ Crash(p) \/ Acquire(p) \/ Locked(p)
             \/ Exit(p) \/ Unexpected(p)
    BY <2>4, <2>5 DEF StartRun, StartPurge, Crash, Acquire, Locked, Exit, Unexpected
  <2>6. CASE \/ Precondition(p) \/ CleanWork(p) \/ Backup(p) \/ WriteMeta(p)
             \/ StoresDone(p) \/ Decide(p) \/ PurgesDone(p) \/ Finish(p)
    BY <2>4, <2>6 DEF Precondition, CleanWork, Backup, WriteMeta, StoresDone, Decide,
                      PurgesDone, Finish
  <2>7. CASE \E e \in Dests : List(p, e) \/ ListFail(p, e)
    BY <2>4, <2>7 DEF List, ListFail
  <2> QED
    BY <2>1, <2>2, <2>3, <2>5, <2>6, <2>7 DEF Step, Pipeline
<1> QED
  BY <1>1, ConvAlways, PTL DEF Spec, PartialProtected

-----------------------------------------------------------------------------
(* Destinations over ssh, while ids are distinct                           *)

Remote == Dests \ Local

\* Before the store loop; between the check for meta.json and the commit, that
\* is, with a partial of the run's own at the destination at hand.
Early == {"lock", "precondition", "cleanup", "backup", "meta"}
Copying == {"copy", "copymeta", "commit"}

\* Run p has still to write to d.
Ahead(p, d) ==
    /\ job[p].cmd = "run"
    /\ \/ pc[p] \in Early
       \/ pc[p] \in Storing /\ d \in job[p].todo /\ ~(pc[p] \in Copying /\ Current(p, d))

\* Nothing is there under an id.
Blank(d, x) == disk[d][x] = "none" /\ disk[d][Partial(x)] = "none"

\* Only `mbkeeper run` stores, and no two of them have the same id.
RunsStore == \A p \in Procs : pc[p] \in (Early \ {"lock"}) \cup Storing => job[p].cmd = "run"
Unique ==
    \A p, q \in Procs :
       /\ pc[p] # "idle" /\ job[p].cmd = "run" /\ pc[q] # "idle" /\ job[q].cmd = "run"
       /\ job[p].id = job[q].id
       => p = q

\* A run finds nothing under its id, and while it copies there is no final
\* directory that mv could put the partial into.
Unwritten == \A p \in Procs, d \in Remote : Ahead(p, d) => Blank(d, job[p].id)
Midway ==
    \A p \in Procs, d \in Remote : pc[p] \in Copying /\ Current(p, d) =>
       /\ disk[d][job[p].id] = "none"
       /\ pc[p] = "copy" => disk[d][Partial(job[p].id)] = "some"

\* A generation has one directory, and one that is listed as complete is there
\* or replaced.
Ample(d, x) == Cardinality(Newer(x, Copies(d))) >= Keep[d]
Listed(d) == {x \in Ids : HasMeta(disk[d][x]) \/ HasMeta(disk[d][Partial(x)])}
OneName ==
    \A d \in Remote, x \in Ids :
       /\ disk[d][x] = "none" \/ disk[d][Partial(x)] = "none"
       /\ x \in Listed(d) => Preserved(d, x)

\* A plan names directories, those of partials too.  What is surplus has keep
\* newer copies, and what is stale is not listed as complete.
IdOf(n) == IF n \in Ids THEN n ELSE n - 1
PlannedAfar ==
    \A p \in Procs, d \in Remote : pc[p] = "delete" /\ Current(p, d) =>
       /\ \A n \in job[p].surplus : Ample(d, IdOf(n))
       /\ \A n \in job[p].stale : IdOf(n) \notin Listed(d)

\* What a run has stored is there or replaced.
KeptAfar == \A p \in Procs : lock = p => \A d \in job[p].stored \cap Remote : Preserved(d, job[p].id)

AfarInv ==
    /\ RunsStore /\ Unique /\ Unwritten /\ Midway /\ OneName /\ PlannedAfar /\ KeptAfar

\* A name belongs to one id.
LEMMA IdOfFacts ==
    /\ \A x \in Ids : IdOf(x) = x /\ IdOf(Partial(x)) = x
    /\ \A n \in Names : IdOf(n) \in Ids /\ n \in {IdOf(n), Partial(IdOf(n))}
                        /\ Victims(n) \subseteq {IdOf(n), Partial(IdOf(n))}
<1>1. ASSUME NEW x \in Ids PROVE IdOf(x) = x /\ IdOf(Partial(x)) = x
  <2>1. Partial(x) \notin Ids /\ x \in Int
    BY PartialFacts, IdsAreInts
  <2> QED
    BY <2>1 DEF IdOf, Partial
<1>2. ASSUME NEW n \in Names
      PROVE  IdOf(n) \in Ids /\ n \in {IdOf(n), Partial(IdOf(n))}
             /\ Victims(n) \subseteq {IdOf(n), Partial(IdOf(n))}
  <2>1. CASE n \in Ids
    BY <2>1 DEF IdOf, Victims
  <2>2. CASE n \notin Ids
    <3>1. PICK x \in Ids : n = Partial(x)
      BY <2>2 DEF Names
    <3> QED
      BY <1>1, <2>2, <3>1 DEF Victims
  <2> QED
    BY <2>1, <2>2
<1> QED
  BY <1>1, <1>2

\* An invocation begins by waiting for the lock.
LEMMA Beginning ==
    ASSUME TypeOK, NEW p \in Procs, Step(p), pc[p] = "idle"
    PROVE  pc'[p] = "lock" /\ UNCHANGED disk
<1>1. StartRun(p) \/ StartPurge(p)
  BY Outside DEF Inside, Storing, Crash, Acquire, Locked, Exit, Unexpected, BeforeHook
<1> QED
  BY <1>1 DEF StartRun, StartPurge, Go, TypeOK, disks

\* Until it ends it keeps its command and its id.
LEMMA KeepsIdentity ==
    ASSUME TypeOK, NEW p \in Procs, Step(p), pc[p] # "idle", pc'[p] # "idle"
    PROVE  job'[p].cmd = job[p].cmd /\ job'[p].id = job[p].id
<1> USE DEF TypeOK, Go, Raise
<1>1. ~(StartRun(p) \/ StartPurge(p) \/ Crash(p) \/ Exit(p))
  BY DEF StartRun, StartPurge, Crash, Exit
<1>2. CASE Acquire(p) \/ Locked(p) \/ Unexpected(p)
  BY <1>2 DEF Acquire, Locked, Unexpected, Jobs
<1>3. CASE Precondition(p) \/ CleanWork(p) \/ Backup(p)
  <2>1. CASE Precondition(p)
    BY <2>1 DEF Precondition, Jobs
  <2>2. CASE CleanWork(p)
    BY <2>2 DEF CleanWork
  <2>3. CASE Backup(p)
    BY <2>3 DEF Backup, Jobs
  <2> QED
    BY <1>3, <2>1, <2>2, <2>3
<1>4. CASE WriteMeta(p) \/ StoresDone(p)
  <2>1. CASE WriteMeta(p)
    BY <2>1 DEF WriteMeta, Jobs
  <2>2. CASE StoresDone(p)
    BY <2>2 DEF StoresDone
  <2> QED
    BY <1>4, <2>1, <2>2
<1>5. CASE Decide(p) \/ Finish(p) \/ PurgesDone(p)
  <2>1. CASE Decide(p)
    BY <2>1 DEF Decide, Jobs
  <2>2. CASE Finish(p)
    BY <2>2 DEF Finish, Jobs
  <2>3. CASE PurgesDone(p)
    BY <2>3 DEF PurgesDone, Jobs
  <2> QED
    BY <1>5, <2>1, <2>2, <2>3
<1>6. ASSUME NEW d \in Dests,
             \/ StoreCheck(p, d) \/ StoreBegin(p, d) \/ StoreCopy(p, d)
             \/ StoreMeta(p, d) \/ StoreCommit(p, d) \/ StoreFail(p, d)
      PROVE  job'[p].cmd = job[p].cmd /\ job'[p].id = job[p].id
  <2>1. \/ job'[p] = job[p] \/ Stored(p, d) \/ Failed(p, d)
    BY <1>6 DEF StoreCheck, StoreBegin, StoreCopy, StoreMeta, StoreCommit, StoreFail
  <2>2. CASE Stored(p, d)
    BY <2>2 DEF Stored, Jobs
  <2>3. CASE Failed(p, d)
    BY <2>3 DEF Failed, Jobs
  <2> QED
    BY <2>1, <2>2, <2>3
<1>7. ASSUME NEW d \in Dests, \/ List(p, d) \/ ListFail(p, d)
                               \/ \E b \in Names : DeleteOne(p, d, b) \/ DeleteFail(p, d, b)
      PROVE  job'[p].cmd = job[p].cmd /\ job'[p].id = job[p].id
  BY <1>7, ListMoves, ListFailMoves, DeleteMoves DEF Alike
<1> QED
  BY <1>1, <1>2, <1>3, <1>4, <1>5, <1>6, <1>7 DEF Step, Pipeline

\* What leads up to the store loop touches no destination.
LEMMA IntoEarly ==
    ASSUME TypeOK, NEW p \in Procs, Step(p), pc[p] # "idle", pc'[p] \in Early
    PROVE  /\ pc[p] \in Early /\ pc'[p] # "lock" /\ UNCHANGED disk
           /\ pc[p] = "lock" => job[p].cmd = "run"
<1> USE DEF TypeOK, Go, Raise, Early
<1>1. ~(StartRun(p) \/ StartPurge(p) \/ Crash(p) \/ Exit(p) \/ Locked(p) \/ Unexpected(p))
  BY DEF StartRun, StartPurge, Crash, Exit, Locked, Unexpected
<1>2. CASE Acquire(p)
  BY <1>2 DEF Acquire, disks
<1>3. CASE Precondition(p) \/ CleanWork(p) \/ Backup(p)
  BY <1>3 DEF Precondition, CleanWork, Backup, disks
<1>4. ~(WriteMeta(p) \/ StoresDone(p) \/ Decide(p) \/ PurgesDone(p) \/ Finish(p))
  BY DEF WriteMeta, StoresDone, Decide, PurgesDone, Finish
<1>5. \A d \in Dests : ~StoreCheck(p, d) /\ ~StoreBegin(p, d) /\ ~StoreCopy(p, d)
                       /\ ~StoreMeta(p, d) /\ ~StoreCommit(p, d) /\ ~StoreFail(p, d)
  BY DEF StoreCheck, StoreBegin, StoreCopy, StoreMeta, StoreCommit, StoreFail, Stored, Failed
<1>6. \A d \in Dests : ~List(p, d) /\ ~ListFail(p, d)
  BY DEF List, ListFail, Purged
<1>7. \A d \in Dests, b \in Names : ~DeleteOne(p, d, b) /\ ~DeleteFail(p, d, b)
  BY DEF DeleteOne, DeleteFail, Deleted, Purged
<1> QED
  BY <1>1, <1>2, <1>3, <1>4, <1>5, <1>6, <1>7 DEF Step, Pipeline

\* What a step may add at a destination over ssh: a partial that is not complete
\* yet, or a complete generation under one of its two names.
Place(d, x) ==
    /\ Apart(d, x) /\ disk[d][x] = "none"
    /\ \/ /\ disk'[d][x] = "none"
          /\ ~HasMeta(disk[d][Partial(x)]) /\ ~HasMeta(disk'[d][Partial(x)])
       \/ {disk'[d][x], disk'[d][Partial(x)]} = {"none", "whole"}

\* With distinct ids rsync starts from nothing, and mv renames.
LEMMA PlaceEffect ==
    ASSUME TypeOK, Copied, RunsStore, Unwritten, Midway, NEW p \in Procs, NEW d \in Remote,
           NEW e \in Dests,
           \/ StoreCheck(p, e) \/ StoreBegin(p, e) \/ StoreCopy(p, e)
           \/ StoreMeta(p, e) \/ StoreCommit(p, e) \/ StoreFail(p, e)
    PROVE  disk'[d] = disk[d] \/ \E x \in Ids : Writing(p, d, x) /\ Place(d, x)
<1>1. PICK x \in Ids : x = job[p].id
  BY DEF TypeOK, Jobs
<1>2. /\ d \in Dests /\ Kind[d] = "ssh"
      /\ Partial(x) \in Names /\ x \in Names /\ Partial(x) # x
      /\ disk \in [Dests -> [Names -> DirStates]]
  BY NameFacts, IdsAreInts, DestinationAssumption DEF TypeOK, Remote, Local, Dests
<1> SUFFICES disk'[d] = disk[d] \/ (Writing(p, d, x) /\ Place(d, x))
  OBVIOUS
<1>3. CASE UNCHANGED disks
  BY <1>3 DEF disks
<1>4. CASE d # e
  <2>1. \/ UNCHANGED disks \/ (\E s, t : Set(e, Partial(x), s, t)) \/ Rename(e, x, clock)
    BY <1>1 DEF StoreCheck, StoreBegin, StoreCopy, StoreMeta, StoreCommit, StoreFail,
                BeginCopy, FinishCopy, CopyMeta, BeginInterrupted
  <2> QED
    BY <1>2, <1>3, <1>4, <2>1 DEF Set, Rename
<1>5. CASE StoreCheck(p, e)
  BY <1>3, <1>5 DEF StoreCheck
<1>6. CASE d = e /\ StoreBegin(p, e)
  <2>1. pc[p] = "begin" /\ Current(p, d) /\ Writing(p, d, x) /\ BeginCopy(d, x, clock)
    BY <1>1, <1>6 DEF StoreBegin, Writing, Storing
  <2>2. Ahead(p, d)
    BY <2>1 DEF Ahead, RunsStore, Storing, Copying, Current
  <2>3. Blank(d, x)
    BY <1>1, <2>2 DEF Unwritten
  <2>4. Set(d, Partial(x), "some", clock)
    BY <2>1, <2>3 DEF BeginCopy, Blank, HasMeta
  <2> QED
    BY <1>2, <2>1, <2>3, <2>4 DEF Set, Place, Apart, Blank, HasMeta
<1>7. CASE d = e /\ StoreCopy(p, e)
  <2>1. pc[p] = "copy" /\ Current(p, d) /\ Writing(p, d, x) /\ FinishCopy(d, x, job[p].stamp)
    BY <1>1, <1>7 DEF StoreCopy, Writing, Storing
  <2>2. disk[d][x] = "none" /\ disk[d][Partial(x)] = "some"
    BY <1>1, <2>1 DEF Midway, Copying
  <2>3. Set(d, Partial(x), "full", job[p].stamp)
    BY <2>1, <2>2 DEF FinishCopy
  <2> QED
    BY <1>2, <2>1, <2>2, <2>3 DEF Set, Place, Apart, HasMeta
<1>8. CASE d = e /\ StoreMeta(p, e)
  <2>1. pc[p] = "copymeta" /\ Current(p, d) /\ Writing(p, d, x) /\ CopyMeta(d, x, clock)
    BY <1>1, <1>8 DEF StoreMeta, Writing, Storing
  <2>2. disk[d][x] = "none" /\ disk[d][Partial(x)] \in {"full", "whole"}
    BY <1>1, <1>2, <2>1 DEF Midway, Copied, Copying
  <2>3. Set(d, Partial(x), "whole", clock)
    BY <2>1, <2>2 DEF CopyMeta
  <2> QED
    BY <1>2, <2>1, <2>2, <2>3 DEF Set, Place, Apart
<1>9. CASE d = e /\ pc[p] = "commit" /\ Current(p, d) /\ Rename(d, x, clock)
  <2>1. Writing(p, d, x)
    BY <1>1, <1>9 DEF Writing, Storing
  <2>2. disk[d][x] = "none" /\ disk[d][Partial(x)] = "whole"
    BY <1>1, <1>2, <1>9 DEF Midway, Copying, Copied
  <2> QED
    BY <1>2, <1>9, <2>1, <2>2 DEF Rename, Nests, Place, Apart
<1>10. CASE d = e /\ (StoreCommit(p, e) \/ StoreFail(p, e))
  BY <1>1, <1>2, <1>3, <1>9, <1>10 DEF StoreCommit, StoreFail, BeginInterrupted
<1> QED
  BY <1>4, <1>5, <1>6, <1>7, <1>8, <1>10

\* delete() of a planned name changes the two names of its id at one destination.
Taking(p, d, n) == pc[p] = "delete" /\ Current(p, d) /\ n \in job[p].surplus \cup job[p].stale

\* Only the two names of its id change, at that destination; one is removed or
\* left damaged.
LEMMA TakeEffect ==
    ASSUME TypeOK, NEW p \in Procs, NEW d \in Dests, NEW e \in Dests, NEW n \in Names,
           DeleteOne(p, e, n) \/ DeleteFail(p, e, n)
    PROVE  disk'[d] = disk[d] \/ (Taking(p, d, n) /\ Remove(d, IdOf(n)))
<1>1. disk \in [Dests -> [Names -> DirStates]]
  BY DEF TypeOK
<1>2. Taking(p, e, n)
  BY DEF DeleteOne, DeleteFail, NextToDelete, Taking
<1>3. CASE d # e
  <2>1. \E f : disk' = [disk EXCEPT ![e] = f]
    BY DEF DeleteOne, DeleteFail, Delete, DeleteInterrupted
  <2> QED
    BY <1>1, <1>3, <2>1
<1>4. CASE d = e
  <2>1. /\ IdOf(n) \in Names /\ Partial(IdOf(n)) \in Names
        /\ Victims(n) \subseteq {IdOf(n), Partial(IdOf(n))}
    BY IdOfFacts, NameFacts
  <2>2. ASSUME \A m \in Names : IF m \in Victims(n) THEN disk'[d][m] \in Remains(disk[d][m])
                                                    ELSE disk'[d][m] = disk[d][m]
        PROVE  Remove(d, IdOf(n))
    BY <1>1, <2>1, <2>2 DEF Remove, Apart, Remains
  <2>3. CASE Delete(d, n)
    <3>1. \A m \in Names : disk'[d][m] = IF m \in Victims(n) THEN "none" ELSE disk[d][m]
      BY <1>1, <2>3 DEF Delete
    <3> QED
      BY <1>2, <1>4, <2>2, <3>1 DEF Remains, DirStates
  <2>4. CASE DeleteInterrupted(d, n, clock)
    BY <1>1, <1>2, <1>4, <2>2, <2>4 DEF DeleteInterrupted
  <2> QED
    BY <1>4, <2>3, <2>4 DEF DeleteOne, DeleteFail
<1> QED
  BY <1>3, <1>4

\* All that can happen to a destination over ssh.
LEMMA AfarEffect ==
    ASSUME TypeOK, Copied, RunsStore, Unwritten, Midway, NEW p \in Procs, Step(p), NEW d \in Remote
    PROVE  \/ disk'[d] = disk[d]
           \/ \E x \in Ids : Writing(p, d, x) /\ Place(d, x)
           \/ \E n \in Names : Taking(p, d, n) /\ Remove(d, IdOf(n))
<1>1. CASE UNCHANGED disks
  BY <1>1 DEF disks
<1>2. CASE \/ StartRun(p) \/ StartPurge(p) \/ Crash(p) \/ Acquire(p) \/ Locked(p)
           \/ Exit(p) \/ Unexpected(p)
  BY <1>1, <1>2 DEF StartRun, StartPurge, Crash, Acquire, Locked, Exit, Unexpected
<1>3. CASE \/ Precondition(p) \/ CleanWork(p) \/ Backup(p) \/ WriteMeta(p)
           \/ StoresDone(p) \/ Decide(p) \/ PurgesDone(p) \/ Finish(p)
  BY <1>1, <1>3 DEF Precondition, CleanWork, Backup, WriteMeta, StoresDone, Decide,
                    PurgesDone, Finish
<1>4. ASSUME NEW e \in Dests, List(p, e) \/ ListFail(p, e)
      PROVE  UNCHANGED disks
  BY <1>4 DEF List, ListFail
<1>5. ASSUME NEW e \in Dests,
             \/ StoreCheck(p, e) \/ StoreBegin(p, e) \/ StoreCopy(p, e)
             \/ StoreMeta(p, e) \/ StoreCommit(p, e) \/ StoreFail(p, e)
      PROVE  disk'[d] = disk[d] \/ \E x \in Ids : Writing(p, d, x) /\ Place(d, x)
  BY <1>5, PlaceEffect
<1>6. ASSUME NEW e \in Dests, NEW n \in Names, DeleteOne(p, e, n) \/ DeleteFail(p, e, n)
      PROVE  disk'[d] = disk[d] \/ (Taking(p, d, n) /\ Remove(d, IdOf(n)))
  BY <1>6, TakeEffect DEF Remote
<1> QED
  BY <1>1, <1>2, <1>3, <1>4, <1>5, <1>6 DEF Step, Pipeline

\* So it gains a copy, or loses one that keep newer ones replace, or neither.
LEMMA CopiesEffect ==
    ASSUME TypeOK, Copied, RunsStore, Unwritten, Midway, PlannedAfar,
           NEW p \in Procs, Step(p), NEW d \in Remote
    PROVE  \/ Copies(d)' = Copies(d)
           \/ \E x \in Ids : Copies(d)' = Copies(d) \cup {x}
           \/ \E x \in Ids : Copies(d)' = Copies(d) \ {x} /\ Ample(d, x)
<1>1. /\ d \notin Local /\ Copies(d) \subseteq Ids /\ Copies(d)' \subseteq Ids
      /\ \A y \in Ids : y \in Copies(d) <=> disk[d][y] = "whole" \/ disk[d][Partial(y)] = "whole"
      /\ \A y \in Ids : y \in Copies(d)' <=> disk'[d][y] = "whole" \/ disk'[d][Partial(y)] = "whole"
  BY DEF Copies, Remote, Local
<1>2. CASE disk'[d] = disk[d]
  BY <1>2 DEF Copies, Local
<1>3. ASSUME NEW x \in Ids, Apart(d, x), NEW y \in Ids \ {x}
      PROVE  y \in Copies(d)' <=> y \in Copies(d)
  BY <1>1, <1>3, PartialFacts, NameFacts DEF Apart
<1>4. ASSUME NEW x \in Ids, Place(d, x)
      PROVE  Copies(d)' = Copies(d) \/ Copies(d)' = Copies(d) \cup {x}
  <2>1. x \in Copies(d)' \/ (x \notin Copies(d) /\ x \notin Copies(d)')
    BY <1>1, <1>4 DEF Place, HasMeta
  <2>2. \A y \in Ids \ {x} : y \in Copies(d)' <=> y \in Copies(d)
    BY <1>3, <1>4 DEF Place
  <2> QED
    BY <1>1, <2>1, <2>2
<1>5. ASSUME NEW n \in Names, Taking(p, d, n), Remove(d, IdOf(n))
      PROVE  \E x \in Ids : \/ Copies(d)' = Copies(d)
                            \/ Copies(d)' = Copies(d) \ {x} /\ Ample(d, x)
  <2>1. PICK x \in Ids : x = IdOf(n)
    BY IdOfFacts
  <2>2. x \in Copies(d)' => x \in Copies(d)
    BY <1>1, <1>5, <2>1 DEF Remove, Remains
  <2>3. \A y \in Ids \ {x} : y \in Copies(d)' <=> y \in Copies(d)
    BY <1>3, <1>5, <2>1 DEF Remove
  <2>4. x \in Copies(d) => Ample(d, x)
    BY <1>1, <1>5, <2>1 DEF Taking, PlannedAfar, Listed, HasMeta
  <2>5. Copies(d)' = Copies(d) \/ (x \in Copies(d) /\ Copies(d)' = Copies(d) \ {x})
    BY <1>1, <2>2, <2>3
  <2> QED
    BY <2>4, <2>5
<1> QED
  BY <1>2, <1>4, <1>5, AfarEffect

\* Hence what is there or replaced stays there or replaced.
LEMMA PreservedStep ==
    ASSUME TypeOK, Copied, RunsStore, Unwritten, Midway, PlannedAfar,
           NEW p \in Procs, Step(p), NEW d \in Remote, NEW x \in Ids
    PROVE  /\ Ample(d, x) => Ample(d, x)'
           /\ Preserved(d, x) => Preserved(d, x)'
<1> DEFINE before == Copies(d)
           after == Copies(d)'
<1>1. Keep[d] \in Nat
  BY OrchestratorAssumption DEF Remote
<1>2. before \in SUBSET Ids /\ after \in SUBSET Ids
  BY DEF Copies
<1>3. \E y \in Ids : /\ before \ {y} \subseteq after
                     /\ y \in before \ after => Cardinality(Newer(y, before)) >= Keep[d]
  BY CopiesEffect DEF Ample
<1>4. /\ Preserved(d, x) <=> x \in before \/ Cardinality(Newer(x, before)) >= Keep[d]
      /\ Preserved(d, x)' <=> x \in after \/ Cardinality(Newer(x, after)) >= Keep[d]
      /\ Ample(d, x) <=> Cardinality(Newer(x, before)) >= Keep[d]
      /\ Ample(d, x)' <=> Cardinality(Newer(x, after)) >= Keep[d]
  BY DEF Preserved, Ample, Newer
<1> HIDE DEF before, after
<1> QED
  BY <1>1, <1>2, <1>3, <1>4, Replaced

\* `mbkeeper run` enters the store loop under the lock, and by write_meta.
LEMMA RunsStoreStep ==
    ASSUME TypeOK, Exclusive, RunsStore, NEW p \in Procs, Step(p)
    PROVE  RunsStore'
<1> SUFFICES ASSUME NEW q \in Procs, pc'[q] \in (Early \ {"lock"}) \cup Storing
             PROVE  job'[q].cmd = "run"
  BY DEF RunsStore
<1>1. CASE q # p
  BY <1>1, Undisturbed DEF RunsStore
<1>2. CASE q = p
  <2>1. pc[p] # "idle" /\ pc'[p] # "idle"
    BY <1>2, Beginning DEF Early, Storing
  <2>2. job'[p].cmd = job[p].cmd
    BY <2>1, KeepsIdentity
  <2>3. CASE pc'[p] \in Early
    BY <1>2, <2>1, <2>2, <2>3, IntoEarly DEF RunsStore
  <2>4. CASE pc'[p] \in Storing
    <3>1. ~StoresDone(p)
      BY <2>4 DEF StoresDone, Go, TypeOK, Storing
    <3>2. pc[p] \in Storing \cup {"meta"}
      BY <2>4, <3>1, IntoStoring DEF WriteMeta, StoreCheck, StoreBegin, StoreCopy, StoreMeta,
                                     StoreCommit, StoreFail, Storing
    <3> QED
      BY <1>2, <2>2, <3>2 DEF RunsStore, Early
  <2> QED
    BY <1>2, <2>3, <2>4
<1> QED
  BY <1>1, <1>2

\* A run that begins has an id of its own, and keeps it.
LEMMA UniqueStep ==
    ASSUME TypeOK, Exclusive, Unique, NEW p \in Procs, Step(p), NewIds
    PROVE  Unique'
<1> SUFFICES ASSUME NEW a \in Procs, NEW b \in Procs, a # b,
                    pc'[a] # "idle", job'[a].cmd = "run", pc'[b] # "idle", job'[b].cmd = "run",
                    job'[a].id = job'[b].id
             PROVE  FALSE
  BY DEF Unique
<1>1. ASSUME NEW q \in Procs, q # p
      PROVE  pc'[q] = pc[q] /\ job'[q] = job[q]
  BY <1>1, Undisturbed
<1>2. ASSUME NEW q \in Procs, q # p, pc'[q] # "idle", job'[q].cmd = "run", job'[q].id = job'[p].id,
             pc'[p] # "idle", job'[p].cmd = "run"
      PROVE  FALSE
  <2>1. pc[q] # "idle" /\ job[q].cmd = "run" /\ job[q].id = job'[p].id
    BY <1>1, <1>2
  <2>2. CASE pc[p] = "idle"
    BY <1>2, <2>1, <2>2 DEF NewIds, Begins, InUse
  <2>3. CASE pc[p] # "idle"
    BY <1>2, <2>1, <2>3, KeepsIdentity DEF Unique
  <2> QED
    BY <2>2, <2>3
<1>3. CASE a # p /\ b # p
  BY <1>1, <1>3 DEF Unique
<1> QED
  BY <1>2, <1>3

\* A call of store() goes on at its destination, or is done with it.
LEMMA StoreTodo ==
    ASSUME TypeOK, NEW p \in Procs, NEW e \in Dests,
           \/ StoreCheck(p, e) \/ StoreBegin(p, e) \/ StoreCopy(p, e)
           \/ StoreMeta(p, e) \/ StoreCommit(p, e) \/ StoreFail(p, e)
    PROVE  /\ Current(p, e) /\ pc[p] \in Storing
           /\ \/ job'[p].todo \subseteq job[p].todo \ {e}
              \/ job'[p] = job[p] /\ (pc[p] = "store" \/ pc'[p] \in Copying)
<1>1. Current(p, e) /\ pc[p] \in Storing
  BY DEF StoreCheck, StoreBegin, StoreCopy, StoreMeta, StoreCommit, StoreFail, Storing
<1>2. job[p] \in Jobs /\ p \in DOMAIN job /\ p \in DOMAIN pc
  BY DEF TypeOK
<1>3. CASE Stored(p, e)
  <2>1. job'[p].todo = job[p].todo \ {e}
    BY <1>2, <1>3 DEF Stored, Left, Go, Jobs
  <2> QED
    BY <1>1, <2>1
<1>4. CASE Failed(p, e)
  <2>1. job'[p].todo \subseteq job[p].todo \ {e}
    BY <1>2, <1>4 DEF Failed, Left, Go, Jobs
  <2> QED
    BY <1>1, <2>1
<1>5. CASE StoreCheck(p, e) /\ ~Stored(p, e)
  <2>1. job'[p] = job[p] /\ pc[p] = "store"
    BY <1>2, <1>5 DEF StoreCheck, Go
  <2> QED
    BY <1>1, <2>1
<1>6. CASE StoreBegin(p, e) \/ StoreCopy(p, e) \/ StoreMeta(p, e)
  <2>1. job'[p] = job[p] /\ pc'[p] \in Copying
    BY <1>2, <1>6 DEF StoreBegin, StoreCopy, StoreMeta, Go, Copying
  <2> QED
    BY <1>1, <2>1
<1> QED
  BY <1>3, <1>4, <1>5, <1>6 DEF StoreCommit, StoreFail

\* The run that moves: it found nothing under its id when it began, and has
\* written to no destination that it has still ahead.
LEMMA UnwrittenOwn ==
    ASSUME TypeOK, Copied, RunsStore, Unwritten, Midway,
           NEW p \in Procs, Step(p), NewIds, NEW d \in Remote, Ahead(p, d)'
    PROVE  Blank(d, job[p].id)'
<1>1. pc'[p] # "idle" /\ job'[p].cmd = "run" /\ d \in Dests
  BY DEF Ahead, Early, Storing, Remote
<1>2. CASE pc[p] = "idle"
  <2>1. pc'[p] = "lock" /\ UNCHANGED disk
    BY <1>2, Beginning
  <2>2. job'[p].id \in Ids
    BY TypeStep DEF TypeOK, Jobs, Next, Step
  <2>3. ~InUse(job'[p].id)
    BY <1>1, <1>2 DEF NewIds, Begins
  <2> QED
    BY <1>1, <2>1, <2>2, <2>3 DEF InUse, Victims, Blank
<1>3. ASSUME pc[p] # "idle", Ahead(p, d), disk'[d] = disk[d] PROVE Blank(d, job[p].id)'
  BY <1>1, <1>3, KeepsIdentity DEF Unwritten, Blank
<1>4. CASE pc[p] # "idle" /\ pc'[p] \in Early
  <2>1. job[p].cmd = "run" /\ pc[p] \in Early /\ UNCHANGED disk
    BY <1>1, <1>4, KeepsIdentity, IntoEarly
  <2> QED
    BY <1>3, <1>4, <2>1 DEF Ahead
<1>5. CASE pc[p] # "idle" /\ pc'[p] \in Storing
  <2>1. job[p].cmd = "run" /\ ~StoresDone(p)
    BY <1>1, <1>5, KeepsIdentity DEF StoresDone, Go, TypeOK, Storing
  <2>2. CASE WriteMeta(p)
    BY <1>3, <1>5, <2>1, <2>2 DEF WriteMeta, disks, Ahead, Early
  <2>3. ASSUME NEW e \in Dests,
               \/ StoreCheck(p, e) \/ StoreBegin(p, e) \/ StoreCopy(p, e)
               \/ StoreMeta(p, e) \/ StoreCommit(p, e) \/ StoreFail(p, e)
        PROVE  Blank(d, job[p].id)'
    <3>1. /\ Current(p, e) /\ pc[p] \in Storing
          /\ \/ job'[p].todo \subseteq job[p].todo \ {e}
             \/ job'[p] = job[p] /\ (pc[p] = "store" \/ pc'[p] \in Copying)
      BY <2>3, StoreTodo
    <3>2. d \in job'[p].todo /\ ~(pc'[p] \in Copying /\ Current(p, d)')
      BY <1>5 DEF Ahead, Storing, Early
    <3>3. CASE d = e
      <4>1. job'[p] = job[p] /\ pc[p] = "store"
        BY <3>1, <3>2, <3>3 DEF Current
      <4>2. Ahead(p, d)
        BY <2>1, <3>1, <3>3, <4>1 DEF Ahead, Current, Copying
      <4>3. UNCHANGED disk
        BY <2>3, <3>2, <3>3, <4>1
           DEF StoreCheck, StoreBegin, StoreCopy, StoreMeta, StoreCommit, StoreFail, disks
      <4> QED
        BY <1>3, <1>5, <4>2, <4>3
    <3>4. CASE d # e
      <4>1. ~Current(p, d) /\ d \in job[p].todo
        BY <1>1, <3>1, <3>2, <3>4, OneCurrent
      <4>2. Ahead(p, d)
        BY <2>1, <3>1, <4>1 DEF Ahead
      <4>3. disk'[d] = disk[d]
        BY <4>1, AfarEffect DEF Writing, Taking
      <4> QED
        BY <1>3, <1>5, <4>2, <4>3
    <3> QED
      BY <3>3, <3>4
  <2> QED
    BY <1>5, <2>1, <2>2, <2>3, IntoStoring
<1> QED
  BY <1>2, <1>4, <1>5 DEF Ahead

\* Other runs write under other ids, and a purge only takes away.
LEMMA UnwrittenStep ==
    ASSUME TypeOK, Exclusive, Copied, RunsStore, Unique, Unwritten, Midway,
           NEW p \in Procs, Step(p), NewIds
    PROVE  Unwritten'
<1> SUFFICES ASSUME NEW q \in Procs, NEW d \in Remote, Ahead(q, d)'
             PROVE  Blank(d, job[q].id)'
  BY DEF Unwritten
<1>1. CASE q = p
  BY <1>1, UnwrittenOwn
<1>2. CASE q # p
  <2>1. pc'[q] = pc[q] /\ job'[q] = job[q]
    BY <1>2, Undisturbed
  <2>2. Ahead(q, d)
    BY <2>1 DEF Ahead, Current
  <2>3. PICK y \in Ids : y = job[q].id
    BY DEF TypeOK, Jobs
  <2>4. Blank(d, y) /\ y \in Names /\ Partial(y) \in Names
    BY <2>2, <2>3, NameFacts DEF Unwritten
  <2>5. ASSUME NEW x \in Ids, Apart(d, x), x # y PROVE Blank(d, y)'
    BY <2>4, <2>5, PartialFacts DEF Apart, Blank
  <2>6. ASSUME NEW x \in Ids, Writing(p, d, x) PROVE x # y
    <3>1. pc[p] \in Storing /\ pc[p] # "idle" /\ pc[q] # "idle" /\ job[q].cmd = "run"
      BY <2>2, <2>6 DEF Writing, Ahead, Early, Storing
    <3> QED
      BY <1>2, <2>3, <2>6, <3>1 DEF Writing, RunsStore, Unique
  <2>7. ASSUME NEW n \in Names, Remove(d, IdOf(n)) PROVE Blank(d, y)'
    <3>1. CASE IdOf(n) = y
      BY <2>4, <2>7, <3>1, RemainsFacts DEF Remove, Blank
    <3>2. CASE IdOf(n) # y
      BY <2>5, <2>7, <3>2, IdOfFacts DEF Remove
    <3> QED
      BY <3>1, <3>2
  <2>8. ASSUME disk'[d] = disk[d] PROVE Blank(d, y)'
    BY <2>4, <2>8 DEF Blank
  <2>9. Blank(d, y)'
    BY <2>5, <2>6, <2>7, <2>8, AfarEffect DEF Place
  <2> QED
    BY <2>1, <2>3, <2>9
<1> QED
  BY <1>1, <1>2

\* While a run copies nobody else is inside the lock, so that no final directory
\* appears in the way.
LEMMA MidwayStep ==
    ASSUME TypeOK, Exclusive, RunsStore, Unwritten, Midway, NEW p \in Procs, Step(p)
    PROVE  Midway'
<1> SUFFICES ASSUME NEW q \in Procs, NEW d \in Remote, pc'[q] \in Copying, Current(q, d)'
             PROVE  /\ disk'[d][job'[q].id] = "none"
                    /\ pc'[q] = "copy" => disk'[d][Partial(job'[q].id)] = "some"
  BY DEF Midway
<1>1. CASE q # p
  <2>1. pc'[q] = pc[q] /\ job'[q] = job[q] /\ UNCHANGED disk
    BY <1>1, Undisturbed DEF Exclusive, Inside, Storing, Copying, disks
  <2> QED
    BY <2>1 DEF Midway, Current
<1>2. CASE q = p
  <2>1. PICK e \in Dests : StoreBegin(p, e) \/ StoreCopy(p, e) \/ StoreMeta(p, e)
    <3>1. ~WriteMeta(p) /\ ~StoresDone(p)
      BY <1>2 DEF WriteMeta, StoresDone, Go, TypeOK, Copying
    <3>2. \A e \in Dests : ~StoreCheck(p, e) /\ ~StoreCommit(p, e) /\ ~StoreFail(p, e)
      BY <1>2 DEF StoreCheck, StoreCommit, StoreFail, Stored, Failed, Go, TypeOK, Copying
    <3> QED
      BY <1>2, <3>1, <3>2, IntoStoring DEF Storing, Copying
  <2>2. job'[p] = job[p] /\ Current(p, e)
    BY <2>1 DEF StoreBegin, StoreCopy, StoreMeta, Go, TypeOK
  <2>3. d = e /\ d \in Dests
    BY <1>2, <2>2, OneCurrent DEF Current, Remote
  <2>4. PICK x \in Ids : x = job[p].id
    BY DEF TypeOK, Jobs
  <2>5. x \in Names /\ Partial(x) \in Names /\ Partial(x) # x /\ disk \in [Dests -> [Names -> DirStates]]
    BY NameFacts, IdsAreInts DEF TypeOK
  <2>6. CASE StoreBegin(p, e)
    <3>1. pc[p] = "begin" /\ BeginCopy(d, x, clock)
      BY <2>3, <2>4, <2>6 DEF StoreBegin
    <3>2. Blank(d, x)
      BY <2>2, <2>3, <2>4, <3>1 DEF Unwritten, Ahead, RunsStore, Storing, Copying, Current
    <3>3. Set(d, Partial(x), "some", clock)
      BY <3>1, <3>2 DEF BeginCopy, Blank, HasMeta
    <3> QED
      BY <1>2, <2>2, <2>3, <2>4, <2>5, <3>2, <3>3 DEF Set, Blank
  <2>7. CASE StoreCopy(p, e) \/ StoreMeta(p, e)
    <3>1. pc[p] \in Copying /\ pc'[p] # "copy" /\ \E s, t : Set(d, Partial(x), s, t)
      BY <2>3, <2>4, <2>7 DEF StoreCopy, StoreMeta, FinishCopy, CopyMeta, Copying, Go, TypeOK
    <3>2. disk[d][x] = "none"
      BY <2>2, <2>3, <2>4, <3>1 DEF Midway
    <3> QED
      BY <1>2, <2>2, <2>3, <2>4, <2>5, <3>1, <3>2 DEF Set
  <2> QED
    BY <2>1, <2>6, <2>7
<1> QED
  BY <1>1, <1>2

\* A generation keeps to one name, and what is listed is there or replaced.
LEMMA OneNameStep ==
    ASSUME TypeOK, Copied, RunsStore, Unwritten, Midway, OneName, PlannedAfar,
           NEW p \in Procs, Step(p)
    PROVE  OneName'
<1> SUFFICES ASSUME NEW d \in Remote, NEW x \in Ids
             PROVE  /\ disk'[d][x] = "none" \/ disk'[d][Partial(x)] = "none"
                    /\ x \in Listed(d)' => Preserved(d, x)'
  BY DEF OneName
<1>1. /\ d \in Dests /\ x \in Names /\ Partial(x) \in Names /\ disk[d] \in [Names -> DirStates]
      /\ disk[d][x] = "none" \/ disk[d][Partial(x)] = "none"
      /\ x \in Listed(d) => Preserved(d, x)'
  BY NameFacts, PreservedStep DEF TypeOK, Remote, OneName
<1>2. CASE disk'[d][x] = disk[d][x] /\ disk'[d][Partial(x)] = disk[d][Partial(x)]
  BY <1>1, <1>2 DEF Listed
<1>3. ASSUME NEW y \in Ids, Apart(d, y), y # x
      PROVE  disk'[d][x] = disk[d][x] /\ disk'[d][Partial(x)] = disk[d][Partial(x)]
  BY <1>1, <1>3, PartialFacts DEF Apart
<1>4. CASE Place(d, x)
  <2>1. CASE disk'[d][x] = "none" /\ ~HasMeta(disk'[d][Partial(x)])
    BY <2>1 DEF Listed, HasMeta
  <2>2. CASE {disk'[d][x], disk'[d][Partial(x)]} = {"none", "whole"}
    <3>1. /\ disk'[d][x] = "none" \/ disk'[d][Partial(x)] = "none"
          /\ disk'[d][x] = "whole" \/ disk'[d][Partial(x)] = "whole"
      BY <2>2
    <3> QED
      BY <3>1 DEF Preserved, Copies, Remote
  <2> QED
    BY <1>4, <2>1, <2>2 DEF Place
<1>5. CASE Remove(d, x)
  <2>1. \A n \in {x, Partial(x)} : /\ disk[d][n] = "none" => disk'[d][n] = "none"
                                   /\ HasMeta(disk'[d][n]) => HasMeta(disk[d][n])
    BY <1>1, <1>5, RemainsFacts DEF Remove
  <2> QED
    BY <1>1, <2>1 DEF Listed
<1>6. CASE disk'[d] = disk[d]
  BY <1>2, <1>6
<1>7. ASSUME NEW y \in Ids, Place(d, y) \/ Remove(d, y), y # x
      PROVE  disk'[d][x] = disk[d][x] /\ disk'[d][Partial(x)] = disk[d][Partial(x)]
  BY <1>3, <1>7 DEF Place, Remove
<1>8. \A n \in Names : IdOf(n) \in Ids
  BY IdOfFacts
<1> QED
  BY <1>2, <1>4, <1>5, <1>6, <1>7, <1>8, AfarEffect

\* list_backups() of ssh.py names a generation once, so that among the names it
\* reports as complete as many are newer as there are newer generations.
LEMMA NamesCount ==
    ASSUME TypeOK, OneName, NEW d \in Remote, NEW n \in Names, HasMeta(disk[d][n])
    PROVE  LET names == {m \in Names : HasMeta(disk[d][m])}
           IN  /\ Cardinality({m \in names : m > n}) = Cardinality(Newer(IdOf(n), Listed(d)))
               /\ IdOf(n) \in Listed(d)
<1> DEFINE names == {m \in Names : HasMeta(disk[d][m])}
           above == {m \in names : m > n}
           ids == Newer(IdOf(n), Listed(d))
           f == [m \in above |-> IdOf(m)]
<1>1. \A x \in Ids : HasMeta(disk[d][x]) => ~HasMeta(disk[d][Partial(x)])
  BY DEF OneName, HasMeta
<1>2. ASSUME NEW m \in names PROVE m \in Names /\ IdOf(m) \in Listed(d)
  BY <1>2, IdOfFacts DEF Listed
<1>3. ASSUME NEW m \in names, NEW k \in names, IdOf(m) = IdOf(k) PROVE m = k
  <2>1. m \in {IdOf(m), Partial(IdOf(m))} /\ k \in {IdOf(m), Partial(IdOf(m))} /\ IdOf(m) \in Ids
    BY <1>2, <1>3, IdOfFacts
  <2> QED
    BY <1>1, <1>3, <2>1
<1>4. ASSUME NEW m \in names, NEW k \in names
      PROVE  m > k <=> IdOf(m) > IdOf(k)
  <2>1. /\ IdOf(m) \in Ids /\ IdOf(k) \in Ids /\ Ids \subseteq Int
        /\ m \in {IdOf(m), IdOf(m) + 1} /\ k \in {IdOf(k), IdOf(k) + 1}
    BY <1>2, IdOfFacts, IdsAreInts DEF Partial
  <2>2. IdOf(m) + 1 # IdOf(k) /\ IdOf(k) + 1 # IdOf(m)
    BY <2>1, PartialFacts DEF Partial
  <2>3. IdOf(m) = IdOf(k) => m = k
    BY <1>3
  <2>4. \A a, b, x, y \in Int : /\ x \in {a, a + 1} /\ y \in {b, b + 1} /\ a + 1 # b /\ b + 1 # a
                                /\ a = b => x = y
                                => (x > y <=> a > b)
    OBVIOUS
  <2>5. m \in Int /\ k \in Int /\ IdOf(m) \in Int /\ IdOf(k) \in Int
    <3>1. m \in Names /\ k \in Names
      BY <1>2
    <3>2. m \in Nat /\ k \in Nat
      BY <3>1, NamesAreNats
    <3>3. IdOf(m) \in Int /\ IdOf(k) \in Int
      BY <3>1, IdOfFacts, IdsAreInts
    <3> QED
      BY <3>2, <3>3
  <2> QED
    BY <2>1, <2>2, <2>3, <2>4, <2>5
<1>5. n \in names
  OBVIOUS
<1>6. IsFiniteSet(above)
  <2>1. above \subseteq Names
    OBVIOUS
  <2> QED
    BY <2>1, NamesFinite, FS_Subset
<1>7. f \in [above -> ids]
  <2> SUFFICES ASSUME NEW m \in above PROVE IdOf(m) \in ids
    OBVIOUS
  <2>1. m \in names /\ m > n
    OBVIOUS
  <2> QED
    BY <1>2, <1>4, <1>5, <2>1 DEF Newer
<1>8. \A m, k \in above : f[m] = f[k] => m = k
  BY <1>3
<1>9. \A x \in ids : \E m \in above : f[m] = x
  <2> SUFFICES ASSUME NEW x \in ids PROVE \E m \in above : IdOf(m) = x
    OBVIOUS
  <2>1. x \in Ids /\ x > IdOf(n) /\ x \in Listed(d)
    BY DEF Newer, Listed
  <2>2. PICK m \in {x, Partial(x)} : HasMeta(disk[d][m])
    BY <2>1 DEF Listed
  <2>3. m \in names /\ IdOf(m) = x
    BY <2>1, <2>2, IdOfFacts, NameFacts
  <2>4. m > n
    BY <1>4, <1>5, <2>1, <2>3
  <2> QED
    BY <2>3, <2>4
<1> HIDE DEF f, above, ids
<1>10. f \in Bijection(above, ids)
  BY <1>7, <1>8, <1>9 DEF Bijection, Injection, Surjection, IsInjective
<1>11. Cardinality(ids) = Cardinality(above)
  BY <1>6, <1>10, FS_Bijection DEF ExistsBijection
<1>12. IdOf(n) \in Listed(d)
  BY <1>2, <1>5
<1> QED
  BY <1>11, <1>12 DEF above, ids

\* What has keep newer generations listed as complete has keep newer copies: one
\* that is listed and damaged was replaced itself.
LEMMA ListedAmple ==
    ASSUME OneName, NEW d \in Remote, NEW x \in Ids, Cardinality(Newer(x, Listed(d))) >= Keep[d]
    PROVE  Ample(d, x)
<1>1. d \in Dests /\ Keep[d] \in Nat
  BY OrchestratorAssumption DEF Remote
<1>2. /\ Listed(d) \subseteq Ids /\ Newer(x, Listed(d)) \subseteq Ids
      /\ \A h \in Ids : Newer(h, Copies(d)) \subseteq Ids
  BY DEF Newer, Copies, Listed
<1>3. CASE Newer(x, Listed(d)) \subseteq Copies(d)
  <2>1. Newer(x, Listed(d)) \subseteq Newer(x, Copies(d))
    BY <1>3 DEF Newer
  <2> QED
    BY <1>1, <1>2, <2>1, CountMonotone DEF Ample
<1>4. CASE ~(Newer(x, Listed(d)) \subseteq Copies(d))
  <2>1. PICK h \in Listed(d) : h > x /\ h \notin Copies(d)
    BY <1>4 DEF Newer
  <2>2. Cardinality(Newer(h, Copies(d))) >= Keep[d] /\ h \in Ids
    BY <1>1, <1>2, <2>1 DEF OneName, Preserved, Newer
  <2>3. Newer(h, Copies(d)) \subseteq Newer(x, Copies(d))
    <3> SUFFICES ASSUME NEW z \in Copies(d), z > h PROVE z > x
      BY DEF Newer
    <3>1. x \in Int /\ h \in Int /\ z \in Int
      BY <2>2, IdsAreInts DEF Copies
    <3> QED
      BY <2>1, <3>1
  <2> QED
    BY <1>1, <1>2, <2>2, <2>3, CountMonotone DEF Ample
<1> QED
  BY <1>3, <1>4

\* What the listing of a destination over ssh calls complete.
LEMMA ListingAfar ==
    ASSUME NEW d \in Remote
    PROVE  /\ {b.backup_id : b \in {b \in list_backups(d) : b.complete}}
                 = {n \in Names : HasMeta(disk[d][n])}
           /\ \A b \in list_backups(d) : ~b.complete =>
                 b.backup_id \in Ids /\ disk[d][Partial(b.backup_id)] \in {"some", "full"}
<1>1. Kind[d] = "ssh"
  BY DestinationAssumption DEF Remote, Local, Dests
<1>2. list_backups(d) = SSHListing(d)
  BY <1>1 DEF list_backups
<1> DEFINE complete == {b.backup_id : b \in {b \in list_backups(d) : b.complete}}
<1>3. \A n \in complete : n \in Names /\ HasMeta(disk[d][n])
  BY <1>2 DEF SSHListing
<1>4. ASSUME NEW n \in Names, HasMeta(disk[d][n]) PROVE n \in complete
  <2> DEFINE b == [backup_id |-> n, complete |-> TRUE, stored_at |-> mtime[d][n]]
  <2>1. b \in list_backups(d)
    BY <1>2, <1>4 DEF SSHListing
  <2>2. b.complete /\ b.backup_id = n
    OBVIOUS
  <2> QED
    BY <2>1, <2>2
<1>5. \A b \in list_backups(d) : ~b.complete =>
         b.backup_id \in Ids /\ disk[d][Partial(b.backup_id)] \in {"some", "full"}
  BY <1>2 DEF SSHListing
<1> QED
  BY <1>3, <1>4, <1>5

\* select_purge on it names as surplus what is replaced, and as stale nothing
\* that is listed as complete.
LEMMA PlanSoundAfar ==
    ASSUME TypeOK, OneName, NEW d \in Remote, NEW p \in Procs
    PROVE  /\ \A n \in Plan(p, d).surplus : Ample(d, IdOf(n))
           /\ \A n \in Plan(p, d).stale : IdOf(n) \notin Listed(d)
<1> DEFINE listed == list_backups(d)
           names == {n \in Names : HasMeta(disk[d][n])}
<1>1. names = {b.backup_id : b \in {b \in listed : b.complete}}
  BY ListingAfar
<1>2. \A b \in listed : ~b.complete =>
         b.backup_id \in Ids /\ disk[d][Partial(b.backup_id)] \in {"some", "full"}
  BY ListingAfar
<1> HIDE DEF listed
<1>3. Plan(p, d).surplus = Surplus(names, Keep[d])
      /\ Plan(p, d).stale \subseteq {b.backup_id : b \in {b \in listed : ~b.complete}}
  BY <1>1 DEF Plan, select_purge, listed
<1>4. ASSUME NEW n \in Plan(p, d).surplus PROVE Ample(d, IdOf(n))
  <2>1. n \in names /\ Cardinality({m \in names : m > n}) >= Keep[d]
    BY <1>3 DEF Surplus, Newer
  <2>2. Cardinality(Newer(IdOf(n), Listed(d))) >= Keep[d] /\ IdOf(n) \in Ids
    BY <2>1, NamesCount, IdOfFacts
  <2> QED
    BY <2>2, ListedAmple
<1>5. ASSUME NEW n \in Plan(p, d).stale PROVE IdOf(n) \notin Listed(d)
  <2>1. n \in Ids /\ disk[d][Partial(n)] \in {"some", "full"}
    BY <1>2, <1>3
  <2> QED
    BY <2>1, IdOfFacts DEF OneName, Listed, HasMeta
<1> QED
  BY <1>4, <1>5

\* A plan names what is there.
LEMMA PlanThere ==
    ASSUME NEW d \in Remote, NEW p \in Procs, NEW n \in Plan(p, d).surplus \cup Plan(p, d).stale
    PROVE  n \in Names /\ ~Blank(d, IdOf(n))
<1> DEFINE listed == list_backups(d)
           names == {m \in Names : HasMeta(disk[d][m])}
<1>1. names = {b.backup_id : b \in {b \in listed : b.complete}}
  BY ListingAfar
<1>2. \A b \in listed : ~b.complete =>
         b.backup_id \in Ids /\ disk[d][Partial(b.backup_id)] \in {"some", "full"}
  BY ListingAfar
<1> HIDE DEF listed
<1>3. Plan(p, d).surplus \subseteq names
      /\ Plan(p, d).stale \subseteq {b.backup_id : b \in {b \in listed : ~b.complete}}
  BY <1>1 DEF Plan, select_purge, listed, Surplus
<1>4. CASE n \in names
  BY <1>4, IdOfFacts DEF Blank, HasMeta
<1>5. CASE n \in Ids /\ disk[d][Partial(n)] \in {"some", "full"}
  BY <1>5, IdOfFacts, NameFacts DEF Blank
<1> QED
  BY <1>2, <1>3, <1>4, <1>5

\* The plan stays sound while it is carried out.
LEMMA PlannedAfarStep ==
    ASSUME TypeOK, Exclusive, Copied, Loops, RunsStore, Unwritten, Midway, OneName, PlannedAfar,
           NEW p \in Procs, Step(p)
    PROVE  PlannedAfar'
<1> SUFFICES ASSUME NEW q \in Procs, NEW d \in Remote, pc'[q] = "delete", Current(q, d)'
             PROVE  /\ \A n \in job'[q].surplus : Ample(d, IdOf(n))'
                    /\ \A n \in job'[q].stale : IdOf(n) \notin Listed(d)'
  BY DEF PlannedAfar
<1>1. d \in Dests /\ disk[d] \in [Names -> DirStates] /\ TypeOK'
  BY TypeStep DEF Remote, TypeOK, Next, Step
<1>2. job'[q].surplus \subseteq Names /\ job'[q].stale \subseteq Names
  BY <1>1 DEF TypeOK, Jobs
<1>3. CASE q # p
  <2>1. pc[q] = "delete" /\ job'[q] = job[q] /\ Current(q, d)
    BY <1>3, Undisturbed DEF Current
  <2>2. UNCHANGED disk
    BY <1>3, <2>1, Undisturbed DEF Exclusive, Inside, disks
  <2> QED
    BY <2>1, <2>2 DEF PlannedAfar, Ample, Copies, Listed
<1>4. CASE q = p
  <2>1. PurgeLoop(p)
    BY <1>4, LoopOrElsewhere DEF Elsewhere
  <2>2. PICK e \in Dests : List(p, e) \/ \E b \in Names : DeleteOne(p, e, b) \/ DeleteFail(p, e, b)
    BY <1>4, <2>1, ListFailMoves DEF PurgeLoop
  <2>3. CASE List(p, e)
    <3>1. Current(p, e) /\ AtHand(p, job[p], Plan(p, e).surplus, Plan(p, e).stale) /\ UNCHANGED disk
      BY <1>4, <2>3, ListMoves DEF List, Done, disks
    <3>2. d = e
      BY <1>1, <1>4, <3>1, OneCurrent DEF Current, AtHand
    <3> QED
      BY <1>4, <3>1, <3>2, PlanSoundAfar DEF AtHand, Ample, Copies, Listed
  <2>4. ASSUME NEW b \in Names, DeleteOne(p, e, b) \/ DeleteFail(p, e, b)
        PROVE  /\ \A n \in job'[p].surplus : Ample(d, IdOf(n))'
               /\ \A n \in job'[p].stale : IdOf(n) \notin Listed(d)'
    <3>1. pc[p] = "delete" /\ Current(p, e)
      BY <2>4 DEF DeleteOne, DeleteFail
    <3>2. AtHand(p, job[p], Rest(e, b, job[p]).surplus, Rest(e, b, job[p]).stale)
      BY <1>4, <2>4, DeleteMoves DEF Done
    <3>3. d = e
      BY <1>1, <1>4, <3>1, <3>2, OneCurrent DEF Current, AtHand
    <3>4. job'[p].surplus \subseteq job[p].surplus /\ job'[p].stale \subseteq job[p].stale
      BY <3>2, RestFacts DEF AtHand, TypeOK
    <3>5. /\ \A n \in job[p].surplus : Ample(d, IdOf(n))
          /\ \A n \in job[p].stale : IdOf(n) \notin Listed(d)
      BY <3>1, <3>3 DEF PlannedAfar
    <3>6. Listed(d)' \subseteq Listed(d)
      <4> SUFFICES ASSUME NEW x \in Ids, x \in Listed(d)' PROVE x \in Listed(d)
        BY DEF Listed
      <4>1. CASE disk'[d] = disk[d]
        BY <4>1 DEF Listed
      <4>2. CASE Remove(d, IdOf(b))
        <5>1. x \in Names /\ Partial(x) \in Names
          BY NameFacts
        <5>2. CASE x = IdOf(b)
          BY <1>1, <4>2, <5>1, <5>2, RemainsFacts DEF Remove, Listed
        <5>3. CASE x # IdOf(b)
          BY <4>2, <5>1, <5>3, PartialFacts, IdOfFacts DEF Remove, Apart, Listed
        <5> QED
          BY <5>2, <5>3
      <4> QED
        BY <1>1, <2>4, <4>1, <4>2, TakeEffect
    <3>7. \A n \in Names : Ample(d, IdOf(n)) => Ample(d, IdOf(n))'
      BY PreservedStep, IdOfFacts
    <3> QED
      BY <1>2, <1>4, <3>4, <3>5, <3>6, <3>7
  <2> QED
    BY <1>4, <2>2, <2>3, <2>4
<1> QED
  BY <1>3, <1>4

\* What is reported as stored stays there or is replaced, as long as the run
\* holds the lock: mv has renamed the partial.
LEMMA KeptAfarStep ==
    ASSUME TypeOK, Exclusive, Copied, Ledgers, RunsStore, Unwritten, Midway, OneName, PlannedAfar,
           KeptAfar, NEW p \in Procs, Step(p)
    PROVE  KeptAfar'
<1> SUFFICES ASSUME NEW q \in Procs, lock' = q, NEW d \in Remote, d \in job'[q].stored,
                    NEW x \in Ids, x = job'[q].id
             PROVE  Preserved(d, x)'
  <2>1. TypeOK'
    BY TypeStep DEF Next, Step
  <2>2. \A q \in Procs : job'[q].id \in Ids
    BY <2>1 DEF TypeOK, Jobs
  <2> QED
    BY <2>2 DEF KeptAfar, Preserved, Copies
<1>1. Preserved(d, x) => Preserved(d, x)'
  BY PreservedStep
<1>2. CASE q # p
  <2>1. lock = q
    BY <1>2, Within, Outside, OrchestratorAssumption
       DEF Exclusive, StartRun, StartPurge, Crash, Acquire, Locked, Exit, Unlock, Unexpected
  <2>2. job'[q] = job[q]
    BY <1>2, Undisturbed
  <2> QED
    BY <1>1, <2>1, <2>2 DEF KeptAfar
<1>3. CASE q = p
  <2>1. CASE lock = p
    <3>1. CASE d \in job[p].stored /\ job[p].id = x
      BY <1>1, <2>1, <3>1 DEF KeptAfar
    <3>2. CASE HasMeta(disk[d][x])
      BY <1>1, <3>2 DEF OneName, Listed
    <3>3. CASE disk'[d][x] = "whole"
      BY <3>3 DEF Preserved, Copies
    <3>4. ASSUME pc[p] = "commit", Current(p, d), job[p].id = x PROVE ~Nests(d, x)
      BY <3>4 DEF Midway, Copying, Nests
    <3> QED
      BY <1>3, <3>1, <3>2, <3>3, <3>4, StoredMoves
  <2>2. CASE lock # p
    <3>1. pc[p] \notin Inside
      BY <2>2 DEF Exclusive
    <3>2. Acquire(p)
      BY <1>3, <2>2, <3>1, Outside, OrchestratorAssumption
         DEF StartRun, StartPurge, Crash, Locked, Exit, Unlock, Unexpected
    <3>3. job'[p].stored = {}
      BY <3>2 DEF Acquire, Go, TypeOK, Ledgers, Ledger
    <3> QED
      BY <1>3, <3>3
  <2> QED
    BY <2>1, <2>2
<1> QED
  BY <1>2, <1>3

-----------------------------------------------------------------------------
(* Commands that outlive their ssh                                         *)

\* Run p has still to write to d, or is writing to it.
Toward(p, d) ==
    job[p].cmd = "run" /\ (pc[p] \in Early \/ (pc[p] \in Storing /\ d \in job[p].todo))

\* Commands are left behind over ssh only, and mv gives a partial its id.
LateOK ==
    \A c \in late : /\ c \in Commands /\ c.dest \in Remote
                    /\ c.op = "mv" => c.name \in Ids

\* No run is about to write under the id of a late command or of a plan, and what
\* a late rm takes is not listed as complete or has keep newer copies.
Spared ==
    /\ \A c \in late, q \in Procs : Toward(q, c.dest) => job[q].id # IdOf(c.name)
    /\ \A p, q \in Procs, d \in Remote, n \in Names :
          Taking(p, d, n) /\ Toward(q, d) => job[q].id # IdOf(n)
Replaceable ==
    \A c \in late : c.op = "rm" => \/ IdOf(c.name) \notin Listed(c.dest)
                                   \/ Ample(c.dest, IdOf(c.name))

\* What holds even after an id was used twice, and what holds until then.
Always == TypeOK /\ Exclusive /\ Ledgers /\ Loops /\ Owner /\ LateOK
Meanwhile == SafetyInv /\ AfarInv /\ Spared /\ Replaceable
DistinctInv == Always /\ (distinct => Meanwhile)

\* A step leaves at most one command behind: the mv of the commit, or the rm of
\* the removal, that it gives up.
Leaves(p) ==
    \/ UNCHANGED late
    \/ \E d \in Remote :
          \/ /\ pc[p] = "commit" /\ Current(p, d)
             /\ pc'[p] = "idle" \/ (pc'[p] = "store" /\ d \notin job'[p].todo)
             /\ Leave("mv", d, job[p].id)
          \/ \E b \in Names : Taking(p, d, b) /\ Leave("rm", d, b)

\* What a step of DistinctNext is.
LEMMA DistinctSteps ==
    ASSUME TypeOK, [DistinctNext]_dvars
    PROVE  /\ distinct' => distinct
           /\ \/ [Next]_vars /\ UNCHANGED <<lock, work, pc, job, disks, late>>
              \/ \E p \in Procs : Step(p) /\ Leaves(p) /\ (distinct' => NewIds)
              \/ \E c \in late : LateEffect(c)
<1>1. CASE UNCHANGED dvars
  BY <1>1 DEF dvars, vars, disks
<1>2. CASE Pipelines
  BY <1>2, StepOrQuiet DEF Pipelines, History, Leaves
<1>3. ASSUME NEW p \in Procs, NEW d \in Dests, LateMove(p, d)
      PROVE  Step(p) /\ Leaves(p) /\ History
  <2>1. StoreFail(p, d) \/ Crash(p)
    BY <1>3 DEF LateMove
  <2>2. pc'[p] = "idle" \/ (pc'[p] = "store" /\ d \notin job'[p].todo)
    <3>1. CASE Crash(p)
      BY <3>1 DEF Crash, Go, TypeOK
    <3>2. CASE StoreFail(p, d)
      BY <3>2 DEF StoreFail, Failed, Left, Go, TypeOK, Jobs
    <3> QED
      BY <2>1, <3>1, <3>2
  <2>3. d \in Remote
    BY <1>3 DEF LateMove, Remote, Local
  <2> QED
    BY <1>3, <2>1, <2>2, <2>3 DEF LateMove, Leaves, Step, Pipeline
<1>4. ASSUME NEW p \in Procs, NEW d \in Dests, NEW b \in Names, LateRemove(p, d, b)
      PROVE  Step(p) /\ Leaves(p) /\ History
  <2>1. d \in Remote /\ Taking(p, d, b) /\ Leave("rm", d, b)
    BY <1>4 DEF LateRemove, Remote, Local, Taking, NextToDelete
  <2> QED
    BY <1>4, <2>1 DEF LateRemove, Leaves, Step, Pipeline
<1>5. ASSUME NEW c \in late, LateEffect(c) PROVE distinct' = distinct
  BY <1>5 DEF LateEffect
<1> QED
  BY <1>1, <1>2, <1>3, <1>4, <1>5 DEF DistinctNext, History

\* A run that has still to write somewhere had to before, unless it begins.
LEMMA TowardStep ==
    ASSUME TypeOK, NEW p \in Procs, Step(p), pc[p] # "idle", NEW d \in Dests, Toward(p, d)'
    PROVE  Toward(p, d) /\ job'[p].id = job[p].id
<1>1. pc'[p] # "idle" /\ job'[p].cmd = "run"
  BY DEF Toward, Early, Storing
<1>2. job[p].cmd = "run" /\ job'[p].id = job[p].id
  BY <1>1, KeepsIdentity
<1>3. CASE pc'[p] \in Early
  BY <1>2, <1>3, IntoEarly DEF Toward
<1>4. CASE pc'[p] \in Storing /\ d \in job'[p].todo
  <2>1. ~StoresDone(p)
    BY <1>4 DEF StoresDone, Go, TypeOK, Storing
  <2>2. CASE WriteMeta(p)
    BY <1>2, <2>2 DEF WriteMeta, Toward, Early
  <2>3. ASSUME NEW e \in Dests,
               \/ StoreCheck(p, e) \/ StoreBegin(p, e) \/ StoreCopy(p, e)
               \/ StoreMeta(p, e) \/ StoreCommit(p, e) \/ StoreFail(p, e)
        PROVE  pc[p] \in Storing /\ d \in job[p].todo
    BY <1>4, <2>3, StoreTodo
  <2> QED
    BY <1>2, <1>4, <2>1, <2>2, <2>3, IntoStoring DEF Toward
<1> QED
  BY <1>2, <1>3, <1>4 DEF Toward

\* Where a run has still to write, nothing is planned for its id, because
\* nothing is there; and nobody else has the id.
LEMMA SparedStep ==
    ASSUME Always, Meanwhile, NEW p \in Procs, Step(p), Leaves(p), NewIds
    PROVE  Spared'
<1> USE DEF Always, Meanwhile, AfarInv
<1>1. ASSUME NEW q \in Procs, NEW d \in Dests, Toward(q, d)', NEW x \in Ids, job'[q].id = x
      PROVE  \/ Toward(q, d) /\ job[q].id = x
             \/ q = p /\ pc[p] = "idle" /\ ~InUse(x)
  <2>1. CASE q # p
    BY <1>1, <2>1, Undisturbed DEF Toward
  <2>2. CASE q = p /\ pc[p] = "idle"
    BY <1>1, <2>2 DEF NewIds, Begins, Toward, Early, Storing
  <2>3. CASE q = p /\ pc[p] # "idle"
    BY <1>1, <2>3, TowardStep
  <2> QED
    BY <2>1, <2>2, <2>3
<1>2. \A q \in Procs : job'[q].id \in Ids /\ job[q].id \in Ids
  BY TypeStep DEF TypeOK, Jobs, Next, Step
<1>3. \A n \in Names : IdOf(n) \in Ids /\ n \in Victims(IdOf(n))
  BY IdOfFacts DEF Victims
<1>4. ASSUME NEW c \in late, NEW q \in Procs, Toward(q, c.dest)' PROVE job'[q].id # IdOf(c.name)
  <2>1. c.dest \in Dests /\ c.name \in Names
    BY DEF LateOK, Commands, Remote
  <2> QED
    BY <1>1, <1>2, <1>3, <1>4, <2>1 DEF Spared, InUse
<1>5. ASSUME NEW d \in Remote, pc[p] = "commit", Current(p, d),
             pc'[p] = "idle" \/ (pc'[p] = "store" /\ d \notin job'[p].todo),
             NEW q \in Procs, Toward(q, d)'
      PROVE  job'[q].id # job[p].id
  <2>1. q # p
    BY <1>5 DEF Toward, Early, Storing
  <2>2. pc[q] # "idle" /\ job[q].cmd = "run" /\ job'[q].id = job[q].id
    BY <1>5, <2>1, Undisturbed DEF Toward, Early, Storing
  <2>3. job[p].cmd = "run" /\ pc[p] # "idle"
    BY <1>5 DEF RunsStore, Storing
  <2> QED
    BY <2>1, <2>2, <2>3 DEF Unique
<1>6. ASSUME NEW d \in Remote, NEW b \in Names, Taking(p, d, b), NEW q \in Procs, Toward(q, d)'
      PROVE  job'[q].id # IdOf(b)
  <2>1. pc[p] # "idle" /\ d \in Dests
    BY <1>6 DEF Taking, Remote
  <2> QED
    BY <1>1, <1>2, <1>6, <2>1 DEF Spared
<1>7. ASSUME NEW c \in late', NEW q \in Procs, Toward(q, c.dest)' PROVE job'[q].id # IdOf(c.name)
  <2>1. CASE c \in late
    BY <1>4, <1>7, <2>1
  <2>2. ASSUME NEW d \in Remote, pc[p] = "commit", Current(p, d),
               pc'[p] = "idle" \/ (pc'[p] = "store" /\ d \notin job'[p].todo),
               Leave("mv", d, job[p].id), c \notin late
        PROVE  job'[q].id # IdOf(c.name)
    <3>1. c.dest = d /\ c.name = job[p].id
      BY <2>2 DEF Leave
    <3> QED
      BY <1>2, <1>5, <1>7, <2>2, <3>1, IdOfFacts
  <2>3. ASSUME NEW d \in Remote, NEW b \in Names, Taking(p, d, b), Leave("rm", d, b), c \notin late
        PROVE  job'[q].id # IdOf(c.name)
    <3>1. c.dest = d /\ c.name = b
      BY <2>3 DEF Leave
    <3> QED
      BY <1>6, <1>7, <2>3, <3>1
  <2> QED
    BY <1>7, <2>1, <2>2, <2>3 DEF Leaves
<1>8. ASSUME NEW r \in Procs, NEW q \in Procs, NEW d \in Remote, NEW n \in Names,
             Taking(r, d, n)', Toward(q, d)'
      PROVE  job'[q].id # IdOf(n)
  <2>1. d \in Dests /\ disk[d] \in [Names -> DirStates]
    BY DEF Remote, TypeOK
  <2>2. CASE Taking(r, d, n)
    <3>1. ~InUse(IdOf(n)) => FALSE
      BY <1>3, <2>2 DEF InUse, Taking
    <3> QED
      BY <1>1, <1>2, <1>8, <2>1, <2>2, <3>1 DEF Spared
  <2>3. CASE ~Taking(r, d, n)
    <3>1. r = p
      BY <1>8, <2>3, Undisturbed DEF Taking, Current
    <3>2. PurgeLoop(p)
      BY <1>8, <3>1, LoopOrElsewhere DEF Elsewhere, Taking
    <3>3. PICK e \in Dests : List(p, e) \/ \E b \in Names : DeleteOne(p, e, b) \/ DeleteFail(p, e, b)
      BY <1>8, <3>1, <3>2, ListFailMoves DEF PurgeLoop, Taking
    <3>4. CASE List(p, e)
      <4>1. /\ Current(p, e) /\ pc[p] = "purge" /\ UNCHANGED disk
            /\ AtHand(p, job[p], Plan(p, e).surplus, Plan(p, e).stale)
        BY <1>8, <3>1, <3>4, ListMoves DEF List, Done, disks, Taking
      <4>2. d = e
        BY <1>8, <2>1, <3>1, <4>1, OneCurrent DEF Current, AtHand, Taking
      <4>3. n \in Plan(p, d).surplus \cup Plan(p, d).stale
        BY <1>8, <3>1, <4>1, <4>2 DEF AtHand, Taking
      <4>4. ~Blank(d, IdOf(n))
        BY <4>3, PlanThere
      <4>5. Toward(q, d) /\ job'[q].id = job[q].id
        <5>1. q # p
          BY <1>8, <3>1 DEF Taking, Toward, Early, Storing
        <5> QED
          BY <1>8, <5>1, Undisturbed DEF Toward
      <4>6. Ahead(q, d)
        <5>1. q # p /\ lock = p
          BY <4>1, <4>5 DEF Toward, Early, Storing, Exclusive, Inside
        <5>2. pc[q] \notin Inside
          BY <5>1 DEF Exclusive
        <5> QED
          BY <4>5, <5>2 DEF Toward, Ahead, Copying, Inside, Storing
      <4> QED
        BY <4>4, <4>5, <4>6 DEF Unwritten
    <3>5. ASSUME NEW b \in Names, DeleteOne(p, e, b) \/ DeleteFail(p, e, b) PROVE FALSE
      <4>1. pc[p] = "delete" /\ Current(p, e)
        BY <3>5 DEF DeleteOne, DeleteFail
      <4>2. AtHand(p, job[p], Rest(e, b, job[p]).surplus, Rest(e, b, job[p]).stale)
        BY <1>8, <3>1, <3>5, DeleteMoves DEF Done, Taking
      <4>3. job'[p].surplus \subseteq job[p].surplus /\ job'[p].stale \subseteq job[p].stale
        BY <4>2, RestFacts DEF AtHand, TypeOK
      <4> QED
        BY <1>8, <2>3, <3>1, <4>1, <4>2, <4>3 DEF Taking, AtHand, Current
    <3> QED
      BY <3>3, <3>4, <3>5
  <2> QED
    BY <2>2, <2>3
<1> QED
  BY <1>7, <1>8 DEF Spared

\* A late rm still takes nothing that would be missed.
LEMMA ReplaceableStep ==
    ASSUME Always, Meanwhile, NEW p \in Procs, Step(p), Leaves(p)
    PROVE  Replaceable'
<1> USE DEF Always, Meanwhile, AfarInv, SafetyInv, LockInv
<1>1. ASSUME NEW d \in Remote, NEW x \in Ids, x \notin Listed(d), x \in Listed(d)'
      PROVE  Writing(p, d, x)
  <2>1. /\ x \in Names /\ Partial(x) \in Names /\ d \in Dests /\ disk[d] \in [Names -> DirStates]
    BY NameFacts DEF Remote, TypeOK
  <2>2. disk'[d] # disk[d]
    BY <1>1 DEF Listed
  <2>3. ASSUME NEW y \in Ids, Apart(d, y) PROVE x = y
    BY <1>1, <2>1, <2>3, PartialFacts DEF Apart, Listed
  <2>4. ASSUME NEW n \in Names, Remove(d, IdOf(n)) PROVE FALSE
    <3>1. IdOf(n) = x
      BY <2>3, <2>4, IdOfFacts DEF Remove
    <3> QED
      BY <1>1, <2>1, <2>4, <3>1, RemainsFacts DEF Remove, Listed
  <2> QED
    BY <2>2, <2>3, <2>4, AfarEffect DEF Place
<1>2. ASSUME NEW d \in Remote, NEW x \in Ids, x \notin Listed(d) \/ Ample(d, x),
             ~Writing(p, d, x)
      PROVE  (x \notin Listed(d) \/ Ample(d, x))'
  BY <1>1, <1>2, PreservedStep
<1>3. ASSUME NEW c \in late, c.op = "rm"
      PROVE  (IdOf(c.name) \notin Listed(c.dest) \/ Ample(c.dest, IdOf(c.name)))'
  <2>1. c.dest \in Remote /\ IdOf(c.name) \in Ids
    BY IdOfFacts DEF LateOK, Commands
  <2>2. ~Writing(p, c.dest, IdOf(c.name))
    BY DEF Spared, Writing, Toward, Storing, RunsStore, Current
  <2> QED
    BY <1>2, <1>3, <2>1, <2>2 DEF Replaceable
<1>4. ASSUME NEW d \in Remote, NEW b \in Names, Taking(p, d, b)
      PROVE  (IdOf(b) \notin Listed(d) \/ Ample(d, IdOf(b)))'
  <2>1. IdOf(b) \in Ids /\ ~Writing(p, d, IdOf(b))
    BY <1>4, IdOfFacts DEF Taking, Writing, Storing
  <2>2. IdOf(b) \notin Listed(d) \/ Ample(d, IdOf(b))
    BY <1>4 DEF Taking, PlannedAfar
  <2> QED
    BY <1>2, <2>1, <2>2
<1>5. ASSUME NEW c \in late', c \notin late, c.op = "rm"
      PROVE  \E d \in Remote, b \in Names : Taking(p, d, b) /\ c.dest = d /\ c.name = b
  BY <1>5 DEF Leaves, Leave
<1> QED
  BY <1>3, <1>4, <1>5 DEF Replaceable

\* A generation gets the final name of its partial.
Shift(d, x) ==
    /\ Apart(d, x) /\ disk[d][x] = "none"
    /\ disk'[d][x] = disk[d][Partial(x)] /\ disk'[d][Partial(x)] = "none"

\* What a late command does, while a generation keeps to one name.
LEMMA LateChange ==
    ASSUME Always, OneName, NEW c \in late, LateEffect(c)
    PROVE  /\ c.dest \in Remote /\ c.name \in Names /\ IdOf(c.name) \in Ids
           /\ UNCHANGED <<lock, work, pc, job>> /\ late' \subseteq late
           /\ \A e \in Dests \ {c.dest} : disk'[e] = disk[e]
           /\ \/ disk'[c.dest] = disk[c.dest]
              \/ Shift(c.dest, IdOf(c.name))
              \/ c.op = "rm" /\ Remove(c.dest, IdOf(c.name))
<1> USE DEF Always
<1>1. PICK d \in Remote, n \in Names : d = c.dest /\ n = c.name
  BY DEF LateOK, Commands
<1>2. PICK x \in Ids : x = IdOf(n)
  BY IdOfFacts
<1>3. /\ d \in Dests /\ disk \in [Dests -> [Names -> DirStates]]
      /\ x \in Names /\ Partial(x) \in Names /\ Partial(x) # x
  BY NameFacts, IdsAreInts DEF TypeOK, Remote
<1>4. CASE UNCHANGED disks
  BY <1>1, <1>2, <1>4 DEF LateEffect, disks
<1>5. CASE c.op = "mv" /\ disk[d][Partial(n)] # "none" /\ Rename(d, n, clock)
  <2>1. n = x
    BY <1>1, <1>2, <1>5, IdOfFacts DEF LateOK
  <2>2. disk[d][x] = "none"
    BY <1>5, <2>1 DEF OneName
  <2>3. Shift(d, x) /\ \A e \in Dests \ {d} : disk'[e] = disk[e]
    BY <1>3, <1>5, <2>1, <2>2 DEF Rename, Nests, Shift, Apart
  <2> QED
    BY <1>1, <1>2, <2>3 DEF LateEffect
<1>6. CASE c.op = "rm" /\ Delete(d, n)
  <2>1. Victims(n) \subseteq {x, Partial(x)}
    BY <1>2, IdOfFacts
  <2>2. \A m \in Names : disk'[d][m] = IF m \in Victims(n) THEN "none" ELSE disk[d][m]
    BY <1>3, <1>6 DEF Delete
  <2>3. Remove(d, x)
    BY <1>3, <2>1, <2>2 DEF Remove, Apart, Remains, DirStates
  <2>4. \A e \in Dests \ {d} : disk'[e] = disk[e]
    BY <1>3, <1>6 DEF Delete
  <2> QED
    BY <1>1, <1>2, <1>6, <2>3, <2>4 DEF LateEffect
<1> QED
  BY <1>1, <1>4, <1>5, <1>6 DEF LateEffect

\* Nothing is listed after it that was not, and a copy goes only where keep newer
\* ones are there.
LEMMA LateCopies ==
    ASSUME Always, OneName, Replaceable, NEW c \in late, LateEffect(c), NEW d \in Remote
    PROVE  /\ Listed(d)' \subseteq Listed(d)
           /\ \/ Copies(d)' = Copies(d)
              \/ \E x \in Ids : Copies(d)' = Copies(d) \ {x} /\ Ample(d, x)
<1> DEFINE x == IdOf(c.name)
<1>1. /\ c.dest \in Remote /\ x \in Ids
      /\ \A e \in Dests \ {c.dest} : disk'[e] = disk[e]
      /\ disk'[c.dest] = disk[c.dest] \/ Shift(c.dest, x) \/ (c.op = "rm" /\ Remove(c.dest, x))
  BY LateChange
<1>2. c.op = "rm" => x \notin Listed(c.dest) \/ Ample(c.dest, x)
  BY DEF Replaceable
<1> HIDE DEF x
<1>3. /\ d \in Dests /\ d \notin Local /\ disk[d] \in [Names -> DirStates]
      /\ x \in Names /\ Partial(x) \in Names
      /\ Copies(d) \subseteq Ids /\ Copies(d)' \subseteq Ids
      /\ \A y \in Ids : y \in Copies(d) <=> disk[d][y] = "whole" \/ disk[d][Partial(y)] = "whole"
      /\ \A y \in Ids : y \in Copies(d)' <=> disk'[d][y] = "whole" \/ disk'[d][Partial(y)] = "whole"
  BY <1>1, NameFacts DEF Copies, Remote, Local, Always, TypeOK
<1>4. CASE disk'[d] = disk[d]
  BY <1>4 DEF Copies, Listed, Local
<1>5. ASSUME Apart(d, x), NEW y \in Ids \ {x}
      PROVE  disk'[d][y] = disk[d][y] /\ disk'[d][Partial(y)] = disk[d][Partial(y)]
  BY <1>1, <1>5, PartialFacts, NameFacts DEF Apart
<1>6. CASE Shift(d, x)
  <2>1. Listed(d)' \subseteq Listed(d)
    <3>1. \A y \in Ids \ {x} : y \in Listed(d)' => y \in Listed(d)
      BY <1>5, <1>6 DEF Shift, Listed
    <3>2. x \in Listed(d)' => x \in Listed(d)
      BY <1>6 DEF Shift, Listed, HasMeta
    <3> QED
      BY <3>1, <3>2 DEF Listed
  <2>2. Copies(d)' = Copies(d)
    <3>1. \A y \in Ids \ {x} : y \in Copies(d)' <=> y \in Copies(d)
      BY <1>3, <1>5, <1>6 DEF Shift
    <3>2. x \in Copies(d)' <=> x \in Copies(d)
      BY <1>1, <1>3, <1>6 DEF Shift
    <3> QED
      BY <1>3, <3>1, <3>2
  <2> QED
    BY <2>1, <2>2
<1>7. CASE c.dest = d /\ c.op = "rm" /\ Remove(d, x)
  <2>1. Listed(d)' \subseteq Listed(d)
    <3>1. \A y \in Ids \ {x} : y \in Listed(d)' => y \in Listed(d)
      BY <1>5, <1>7 DEF Remove, Listed
    <3>2. x \in Listed(d)' => x \in Listed(d)
      BY <1>3, <1>7, RemainsFacts DEF Remove, Listed
    <3> QED
      BY <3>1, <3>2 DEF Listed
  <2>2. \A y \in Ids \ {x} : y \in Copies(d)' <=> y \in Copies(d)
    BY <1>3, <1>5, <1>7 DEF Remove
  <2>3. x \in Copies(d)' => x \in Copies(d)
    BY <1>1, <1>3, <1>7 DEF Remove, Remains
  <2>4. x \in Copies(d) => Ample(d, x)
    BY <1>1, <1>2, <1>3, <1>7 DEF Listed, HasMeta
  <2>5. Copies(d)' = Copies(d) \/ (x \in Copies(d) /\ Copies(d)' = Copies(d) \ {x})
    BY <1>1, <1>3, <2>2, <2>3
  <2> QED
    BY <1>1, <2>1, <2>4, <2>5
<1> QED
  BY <1>1, <1>3, <1>4, <1>6, <1>7

\* Hence what is there or replaced stays there or replaced.
LEMMA LatePreserved ==
    ASSUME Always, OneName, Replaceable, NEW c \in late, LateEffect(c),
           NEW d \in Remote, NEW x \in Ids
    PROVE  /\ Ample(d, x) => Ample(d, x)'
           /\ Preserved(d, x) => Preserved(d, x)'
<1> DEFINE before == Copies(d)
           after == Copies(d)'
<1>1. Keep[d] \in Nat
  BY OrchestratorAssumption DEF Remote
<1>2. before \in SUBSET Ids /\ after \in SUBSET Ids
  BY DEF Copies
<1>3. \E y \in Ids : /\ before \ {y} \subseteq after
                     /\ y \in before \ after => Cardinality(Newer(y, before)) >= Keep[d]
  BY LateCopies DEF Ample
<1>4. /\ Preserved(d, x) <=> x \in before \/ Cardinality(Newer(x, before)) >= Keep[d]
      /\ Preserved(d, x)' <=> x \in after \/ Cardinality(Newer(x, after)) >= Keep[d]
      /\ Ample(d, x) <=> Cardinality(Newer(x, before)) >= Keep[d]
      /\ Ample(d, x)' <=> Cardinality(Newer(x, after)) >= Keep[d]
  BY DEF Preserved, Ample, Newer
<1> HIDE DEF before, after
<1> QED
  BY <1>1, <1>2, <1>3, <1>4, Replaced

\* A run that has still to write finds what it left.
LEMMA LateSpares ==
    ASSUME Always, Meanwhile, NEW c \in late, LateEffect(c),
           NEW p \in Procs, NEW d \in Remote, Toward(p, d)
    PROVE  /\ disk'[d][job[p].id] = disk[d][job[p].id]
           /\ disk'[d][Partial(job[p].id)] = disk[d][Partial(job[p].id)]
<1> DEFINE x == IdOf(c.name)
<1>1. PICK y \in Ids : y = job[p].id
  BY DEF Always, TypeOK, Jobs
<1>2. /\ x \in Ids
      /\ \A e \in Dests \ {c.dest} : disk'[e] = disk[e]
      /\ disk'[c.dest] = disk[c.dest] \/ Shift(c.dest, x) \/ (c.op = "rm" /\ Remove(c.dest, x))
  BY LateChange DEF Meanwhile, AfarInv
<1>3. d = c.dest => y # x
  BY <1>1 DEF Meanwhile, Spared
<1> HIDE DEF x
<1>4. CASE disk'[d] = disk[d]
  BY <1>4
<1>5. CASE d = c.dest /\ Apart(d, x)
  BY <1>1, <1>2, <1>3, <1>5, PartialFacts, NameFacts DEF Apart
<1> QED
  BY <1>2, <1>4, <1>5 DEF Shift, Remove, Remote

\* A late command leaves a generation one name.
LEMMA OneNameLate ==
    ASSUME Always, OneName, Replaceable, NEW c \in late, LateEffect(c)
    PROVE  OneName'
<1> SUFFICES ASSUME NEW d \in Remote, NEW x \in Ids
             PROVE  /\ disk'[d][x] = "none" \/ disk'[d][Partial(x)] = "none"
                    /\ x \in Listed(d)' => Preserved(d, x)'
  BY DEF OneName
<1>1. x \in Listed(d)' => Preserved(d, x)'
  BY LateCopies, LatePreserved DEF OneName
<1>2. /\ d \in Dests /\ x \in Names /\ Partial(x) \in Names
      /\ disk[d][x] = "none" \/ disk[d][Partial(x)] = "none"
  BY NameFacts DEF OneName, Remote
<1>3. PICK y \in Ids : y = IdOf(c.name)
  BY LateChange
<1>4. /\ d # c.dest => disk'[d] = disk[d]
      /\ disk'[c.dest] = disk[c.dest] \/ Shift(c.dest, y) \/ Remove(c.dest, y)
  BY <1>2, <1>3, LateChange
<1>5. CASE x # y /\ Apart(d, y)
  <2>1. disk'[d][x] = disk[d][x] /\ disk'[d][Partial(x)] = disk[d][Partial(x)]
    BY <1>2, <1>3, <1>5, PartialFacts DEF Apart
  <2> QED
    BY <1>1, <1>2, <2>1
<1>6. CASE x = y /\ Remove(d, x)
  BY <1>1, <1>2, <1>6, RemainsFacts DEF Remove
<1>7. CASE x = y /\ Shift(d, x)
  BY <1>1, <1>7 DEF Shift
<1>8. CASE disk'[d] = disk[d]
  BY <1>1, <1>2, <1>8
<1> QED
  BY <1>4, <1>5, <1>6, <1>7, <1>8 DEF Shift, Remove

\* A late command keeps the types.
LEMMA LateType ==
    ASSUME TypeOK, LateOK, NEW c \in late, LateEffect(c)
    PROVE  TypeOK'
<1>1. /\ DisksOK /\ c.dest \in Dests /\ c.name \in Names /\ clock \in Times
      /\ c.op = "mv" => c.name \in Ids
  BY DEF TypeOK, DisksOK, LateOK, Commands
<1>2. CASE c.op = "mv" /\ Rename(c.dest, c.name, clock)
  <2>1. DisksOK'
    BY <1>1, <1>2, StoreType
  <2> QED
    BY <2>1 DEF TypeOK, DisksOK, LateEffect
<1>3. CASE Delete(c.dest, c.name)
  <2>1. DisksOK'
    BY <1>1, <1>3, DeleteType
  <2> QED
    BY <2>1 DEF TypeOK, DisksOK, LateEffect
<1>4. CASE UNCHANGED disks
  BY <1>4 DEF TypeOK, LateEffect, disks
<1> QED
  BY <1>2, <1>3, <1>4 DEF LateEffect

\* A late command keeps what always holds.
LEMMA AlwaysLate ==
    ASSUME Always, NEW c \in late, LateEffect(c)
    PROVE  Always'
<1>1. UNCHANGED <<lock, pc, job>> /\ late' \subseteq late
  BY DEF LateEffect
<1>2. TypeOK'
  BY LateType DEF Always
<1>3. Exclusive' /\ Ledgers' /\ Loops' /\ Owner'
  BY <1>1 DEF Always, Exclusive, Ledgers, Loops, Owner
<1>4. LateOK'
  BY <1>1 DEF Always, LateOK
<1> QED
  BY <1>2, <1>3, <1>4 DEF Always

\* A late command keeps what holds while ids are distinct.
LEMMA MeanwhileLate ==
    ASSUME Always, Meanwhile, NEW c \in late, LateEffect(c)
    PROVE  Meanwhile'
<1> USE DEF Meanwhile, AfarInv
<1>1. /\ c.dest \in Remote /\ UNCHANGED <<lock, work, pc, job>> /\ late' \subseteq late
      /\ \A e \in Dests \ {c.dest} : disk'[e] = disk[e]
  BY LateChange
<1>2. \A d \in Local : d \in Dests /\ disk'[d] = disk[d]
  BY <1>1 DEF Local, Remote
<1>3. SafetyInv'
  <2> USE DEF SafetyInv, LockInv
  <2>1. TypeOK' /\ Exclusive'
    BY AlwaysLate DEF Always
  <2>2. Source' /\ Ledgers' /\ Results'
    BY <1>1 DEF Source, Ledgers, Results
  <2>3. Copied'
    <3> SUFFICES ASSUME NEW p \in Procs, NEW d \in Dests, pc[p] \in {"copymeta", "commit"}, Current(p, d)
                 PROVE  disk'[d][Partial(job[p].id)] = disk[d][Partial(job[p].id)]
      BY <1>1 DEF Copied, Current
    <3>1. CASE d \in Local
      BY <1>2, <3>1
    <3>2. CASE d \in Remote
      <4>1. Toward(p, d)
        BY DEF Toward, RunsStore, Storing, Current
      <4> QED
        BY <3>2, <4>1, LateSpares
    <3> QED
      BY <3>1, <3>2 DEF Remote
  <2>4. Single' /\ Kept'
    BY <1>1, <1>2 DEF Single, Kept, Safe, Held
  <2>5. Fresh' /\ Planned'
    BY <1>1, <1>2 DEF Fresh, Writing, Planned, Enough, Held, Current
  <2> QED
    BY <2>1, <2>2, <2>3, <2>4, <2>5
<1>4. RunsStore' /\ Unique'
  BY <1>1 DEF RunsStore, Unique
<1>5. Unwritten'
  <2> SUFFICES ASSUME NEW p \in Procs, NEW d \in Remote, Ahead(p, d)
               PROVE  Blank(d, job[p].id)'
    BY <1>1 DEF Unwritten, Ahead, Current
  <2>1. Toward(p, d)
    BY DEF Ahead, Toward
  <2> QED
    BY <1>1, <2>1, LateSpares DEF Unwritten, Blank
<1>6. Midway'
  <2> SUFFICES ASSUME NEW p \in Procs, NEW d \in Remote, pc[p] \in Copying, Current(p, d)
               PROVE  /\ disk'[d][job[p].id] = disk[d][job[p].id]
                      /\ disk'[d][Partial(job[p].id)] = disk[d][Partial(job[p].id)]
    BY <1>1 DEF Midway, Current
  <2>1. Toward(p, d)
    BY DEF Toward, RunsStore, Copying, Storing, Current
  <2> QED
    BY <2>1, LateSpares
<1>7. OneName'
  BY OneNameLate
<1>8. PlannedAfar'
  <2> SUFFICES ASSUME NEW p \in Procs, NEW d \in Remote, pc[p] = "delete", Current(p, d)
               PROVE  /\ \A n \in job[p].surplus : Ample(d, IdOf(n))'
                      /\ \A n \in job[p].stale : IdOf(n) \notin Listed(d)'
    BY <1>1 DEF PlannedAfar, Current
  <2>1. \A n \in job[p].surplus \cup job[p].stale : IdOf(n) \in Ids
    BY IdOfFacts DEF Always, TypeOK, Jobs
  <2> QED
    BY <2>1, LateCopies, LatePreserved DEF PlannedAfar
<1>9. KeptAfar'
  <2>1. \A p \in Procs : job[p].id \in Ids
    BY DEF Always, TypeOK, Jobs
  <2> SUFFICES ASSUME NEW p \in Procs, lock = p, NEW d \in job[p].stored \cap Remote
               PROVE  Preserved(d, job[p].id)'
    BY <1>1 DEF KeptAfar
  <2>2. Preserved(d, job[p].id)
    BY DEF KeptAfar
  <2>3. PICK x \in Ids : x = job[p].id
    BY <2>1
  <2>4. Preserved(d, x)'
    BY <2>2, <2>3, LatePreserved
  <2> QED
    BY <1>1, <2>3, <2>4
<1>10. Spared'
  BY <1>1 DEF Spared, Toward, Taking, Current
<1>11. Replaceable'
  <2> SUFFICES ASSUME NEW b \in late, b.op = "rm"
               PROVE  (IdOf(b.name) \notin Listed(b.dest) \/ Ample(b.dest, IdOf(b.name)))'
    BY <1>1 DEF Replaceable
  <2>1. b.dest \in Remote /\ IdOf(b.name) \in Ids
    BY IdOfFacts DEF Always, LateOK, Commands
  <2> QED
    BY <2>1, LateCopies, LatePreserved DEF Replaceable
<1> QED
  BY <1>3, <1>4, <1>5, <1>6, <1>7, <1>8, <1>9, <1>10, <1>11

-----------------------------------------------------------------------------
(* The invariant of any mix of destinations, and what follows from it      *)

\* Nothing is there at first, and nobody runs.
LEMMA AfarInit == Init => AfarInv
<1> SUFFICES ASSUME Init PROVE AfarInv
  OBVIOUS
<1>1. NoJob.stored = {} /\ \A p \in Procs : pc[p] = "idle" /\ job[p] = NoJob
  BY DEF Init, NoJob
<1>2. RunsStore /\ Unique /\ Unwritten /\ Midway /\ PlannedAfar /\ KeptAfar
  BY <1>1 DEF RunsStore, Unique, Unwritten, Ahead, Midway, PlannedAfar, KeptAfar, Early, Storing,
              Copying
<1>3. OneName
  BY NameFacts DEF Init, OneName, Listed, HasMeta, Remote
<1> QED
  BY <1>2, <1>3 DEF AfarInv

\* No command is left behind at first.
LEMMA DistinctStart == DistinctInit => DistinctInv
<1> SUFFICES ASSUME DistinctInit PROVE DistinctInv
  OBVIOUS
<1>1. ConvInv /\ SafetyInv /\ TypeOK /\ Exclusive /\ Ledgers /\ Loops /\ Owner
  BY ConvInit DEF DistinctInit, ConvInv, SafetyInv, LockInv
<1>2. AfarInv /\ LateOK /\ Replaceable
  BY AfarInit DEF DistinctInit, LateOK, Replaceable
<1>3. Spared
  BY DEF DistinctInit, Init, Spared, Taking
<1> QED
  BY <1>1, <1>2, <1>3 DEF DistinctInv, Always, Meanwhile

\* The lock, the ledger and the loops do not depend on what the ids are.
LEMMA AlwaysStep ==
    ASSUME Always, [DistinctNext]_dvars
    PROVE  Always'
<1> USE DEF Always
<1>1. CASE [Next]_vars /\ UNCHANGED <<lock, work, pc, job, disks, late>>
  <2>1. TypeOK'
    BY <1>1, TypeStep
  <2>2. Exclusive' /\ Ledgers' /\ Loops' /\ Owner' /\ LateOK'
    BY <1>1 DEF Exclusive, Ledgers, Loops, Owner, LateOK
  <2> QED
    BY <2>1, <2>2
<1>2. ASSUME NEW p \in Procs, Step(p), Leaves(p) PROVE Always'
  <2>1. TypeOK' /\ Exclusive' /\ Ledgers' /\ Loops' /\ Owner'
    BY <1>2, TypeStep, ExclusiveStep, LedgersStep, LoopsStep DEF Next, Step
  <2>2. LateOK'
    <3> SUFFICES ASSUME NEW c \in late', c \notin late
                 PROVE  c \in Commands /\ c.dest \in Remote /\ (c.op = "mv" => c.name \in Ids)
      BY DEF LateOK
    <3>1. job[p].id \in Ids /\ Ids \subseteq Names /\ Remote \subseteq Dests
      BY NameFacts DEF TypeOK, Jobs, Remote
    <3>2. \E d \in Remote : \/ c = [op |-> "mv", dest |-> d, name |-> job[p].id]
                            \/ \E b \in Names : c = [op |-> "rm", dest |-> d, name |-> b]
      BY <1>2 DEF Leaves, Leave
    <3> QED
      BY <3>1, <3>2 DEF Commands
  <2> QED
    BY <2>1, <2>2
<1>3. ASSUME NEW c \in late, LateEffect(c) PROVE Always'
  BY <1>3, AlwaysLate
<1> QED
  BY <1>1, <1>2, <1>3, DistinctSteps

\* As long as no id has been used twice, every step keeps the rest.
LEMMA MeanwhileStep ==
    ASSUME Always, Meanwhile, [DistinctNext]_dvars, distinct'
    PROVE  Meanwhile'
<1>1. CASE [Next]_vars /\ UNCHANGED <<lock, work, pc, job, disks, late>>
  <2>1. UNCHANGED <<lock, pc, job, disk, late>>
    BY <1>1 DEF disks
  <2>2. SafetyInv'
    BY <1>1, SafetyStep DEF Meanwhile
  <2>3. RunsStore' /\ Unique' /\ Unwritten' /\ Midway'
    BY <2>1 DEF Meanwhile, AfarInv, RunsStore, Unique, Unwritten, Ahead, Blank, Midway, Current
  <2>4. OneName' /\ PlannedAfar' /\ KeptAfar'
    BY <2>1 DEF Meanwhile, AfarInv, OneName, PlannedAfar, KeptAfar, Preserved, Ample, Copies,
                Listed, Current
  <2>5. Spared'
    BY <2>1 DEF Meanwhile, Spared, Toward, Taking, Current
  <2>6. Replaceable'
    BY <2>1 DEF Meanwhile, Replaceable, Listed, Ample, Copies
  <2> QED
    BY <2>2, <2>3, <2>4, <2>5, <2>6 DEF Meanwhile, AfarInv
<1>2. ASSUME NEW p \in Procs, Step(p), Leaves(p), NewIds PROVE Meanwhile'
  <2>1. TypeOK /\ Exclusive /\ Copied /\ Ledgers /\ Loops /\ AfarInv
    BY DEF Always, Meanwhile, SafetyInv, LockInv
  <2>2. SafetyInv'
    BY <1>2, SafetyStep DEF Meanwhile, Next, Step
  <2>3. RunsStore' /\ Unique' /\ Unwritten' /\ Midway'
    BY <1>2, <2>1, RunsStoreStep, UniqueStep, UnwrittenStep, MidwayStep DEF AfarInv
  <2>4. OneName' /\ PlannedAfar' /\ KeptAfar'
    BY <1>2, <2>1, OneNameStep, PlannedAfarStep, KeptAfarStep DEF AfarInv
  <2>5. Spared' /\ Replaceable'
    BY <1>2, SparedStep, ReplaceableStep
  <2> QED
    BY <2>2, <2>3, <2>4, <2>5 DEF Meanwhile, AfarInv
<1>3. ASSUME NEW c \in late, LateEffect(c) PROVE Meanwhile'
  BY <1>3, MeanwhileLate
<1> QED
  BY <1>1, <1>2, <1>3, DistinctSteps DEF Always

\* The invariant holds throughout.
LEMMA DistinctStep == DistinctInv /\ [DistinctNext]_dvars => DistinctInv'
<1> SUFFICES ASSUME DistinctInv, [DistinctNext]_dvars PROVE DistinctInv'
  OBVIOUS
<1>1. Always /\ Always' /\ (distinct' => distinct)
  BY AlwaysStep, DistinctSteps DEF DistinctInv, Always
<1>2. ASSUME distinct' PROVE Meanwhile'
  BY <1>1, <1>2, MeanwhileStep DEF DistinctInv
<1> QED
  BY <1>1, <1>2 DEF DistinctInv

\* The invariant of the whole specification, late commands included.
LEMMA DistinctAlways == DistinctSpec => []DistinctInv
  BY DistinctStart, DistinctStep, PTL DEF DistinctSpec

\* A run purges only where it has stored: a destination that failed, or that an
\* abort left out, loses nothing to it (_purge_stored_destinations).
THEOREM DegradedKeepsAll == DistinctSpec => DegradedUntouched
<1>1. DistinctInv /\ [DistinctNext]_dvars =>
         \A d \in Dests : \A p \in Procs :
            lock = p /\ job[p].cmd = "run" /\ d \notin job[p].stored =>
               \A x \in Held(d) : \/ disk'[d][x] = "whole"
                                  \/ [op |-> "rm", dest |-> d, name |-> x] \in late
  <2> DEFINE Gone(e, y) == [op |-> "rm", dest |-> e, name |-> y] \in late
  <2> SUFFICES ASSUME Always, [DistinctNext]_dvars, NEW d \in Dests, NEW p \in Procs,
                      lock = p, job[p].cmd = "run", d \notin job[p].stored,
                      NEW x \in Held(d)
               PROVE  disk'[d][x] = "whole" \/ Gone(d, x)
    BY DEF DistinctInv
  <2>0. x \in Ids /\ x \in Names /\ disk[d][x] = "whole" /\ TypeOK
    BY NameFacts DEF Held, Always
  <2>1. CASE UNCHANGED disks
    BY <2>0, <2>1 DEF disks
  <2>2. ASSUME NEW q \in Procs, Step(q) PROVE disk'[d][x] = "whole"
    <3>1. PICK e \in Dests :
             /\ \A c \in Dests \ {e} : disk'[c] = disk[c]
             /\ ~(pc[q] = "delete" /\ Current(q, e)) => Held(e) \subseteq Held(e)'
      BY <2>0, <2>2, OneDisk
    <3>2. CASE d # e
      BY <2>0, <3>1, <3>2
    <3>3. CASE d = e /\ pc[q] = "delete" /\ Current(q, d)
      <4>1. q = p
        BY <3>3 DEF Always, Exclusive, Inside
      <4>2. job[p].todo \subseteq job[p].stored
        BY <3>3, <4>1 DEF Always, Ledgers, Ledger
      <4> QED
        BY <3>3, <4>1, <4>2 DEF Current
    <3> QED
      BY <3>1, <3>2, <3>3 DEF Held
  <2>3. ASSUME NEW c \in late, LateEffect(c) PROVE disk'[d][x] = "whole" \/ Gone(d, x)
    <3>1. c \in Commands /\ c.dest \in Dests /\ Kind[c.dest] = "ssh" /\ (c.op = "mv" => c.name \in Ids)
          /\ disk \in [Dests -> [Names -> DirStates]]
      BY DestinationAssumption DEF Always, LateOK, Remote, Local, Dests, TypeOK
    <3>2. CASE c.op = "mv" /\ Rename(c.dest, c.name, clock)
      <4>1. Partial(c.name) # x
        BY <2>0, <3>1, <3>2, PartialFacts
      <4>2. CASE c.dest = d /\ c.name = x
        BY <2>0, <3>1, <3>2, <4>1, <4>2 DEF Rename, Nests
      <4>3. CASE c.dest # d \/ c.name # x
        BY <2>0, <3>1, <3>2, <4>1, <4>3 DEF Rename
      <4> QED
        BY <4>2, <4>3
    <3>3. CASE c.op = "rm" /\ Delete(c.dest, c.name)
      <4>1. CASE c.dest = d /\ c.name = x
        BY <3>1, <3>3, <4>1 DEF Commands
      <4>2. CASE c.dest # d
        BY <2>0, <3>1, <3>3, <4>2 DEF Delete
      <4>3. CASE c.name # x
        <5>1. x \notin Victims(c.name)
          BY <2>0, <4>3, <3>1, PartialFacts DEF Victims, Commands
        <5> QED
          BY <2>0, <3>1, <3>3, <5>1 DEF Delete
      <4> QED
        BY <4>1, <4>2, <4>3
    <3> QED
      BY <2>1, <2>3, <3>2, <3>3 DEF LateEffect
  <2> QED
    BY <2>0, <2>1, <2>2, <2>3, DistinctSteps
<1> QED
  BY <1>1, DistinctAlways, PTL DEF DistinctSpec, DegradedUntouched

\* Copies at a local destination have one name.
LEMMA LocalCopies ==
    /\ \A d \in Local : Copies(d) = Held(d)
    /\ \A d \in Local, x \in Ids : Safe(d, x) => Preserved(d, x)
  BY DEF Copies, Held, Safe, Preserved

\* With distinct ids the newest keep of the generations that any destination
\* lists as complete miss no data, although list_backups() of ssh.py goes by
\* meta.json alone (select_purge, delete).
THEOREM NewestIntactAnywhere == DistinctSpec => []IntactIfDistinct
<1>1. DistinctInv => IntactIfDistinct
  <2> SUFFICES ASSUME SafetyInv, AfarInv, NEW d \in Dests PROVE Intact(d)
    BY DEF DistinctInv, Meanwhile, IntactIfDistinct
  <2>1. CASE d \in Local
    BY <2>1, LocalIntact
  <2>2. CASE d \in Remote
    <3> DEFINE names == {n \in Names : HasMeta(disk[d][n])}
    <3>1. {b.backup_id : b \in {b \in list_backups(d) : b.complete}} = names
      BY <2>2, ListingAfar
    <3>2. TypeOK /\ OneName /\ Keep[d] \in Nat
      BY OrchestratorAssumption DEF SafetyInv, LockInv, AfarInv
    <3>3. ASSUME NEW n \in names, Cardinality({m \in names : m > n}) < Keep[d]
          PROVE  disk[d][n] = "whole"
      <4> DEFINE x == IdOf(n)
      <4>1. /\ Cardinality(Newer(x, Listed(d))) < Keep[d]
            /\ x \in Ids /\ x \in Listed(d) /\ n \in {x, Partial(x)}
        BY <2>2, <3>2, <3>3, NamesCount, IdOfFacts
      <4>2. ~Ample(d, x)
        <5> HIDE DEF x
        <5>1. Newer(x, Copies(d)) \subseteq Newer(x, Listed(d)) /\ Newer(x, Listed(d)) \subseteq Ids
          BY <2>2 DEF Copies, Listed, Newer, HasMeta
        <5>2. /\ Cardinality(Newer(x, Copies(d))) \in Nat /\ Cardinality(Newer(x, Listed(d))) \in Nat
              /\ Cardinality(Newer(x, Copies(d))) <= Cardinality(Newer(x, Listed(d)))
          BY <5>1, CountMonotone
        <5> QED
          BY <3>2, <4>1, <5>2 DEF Ample
      <4> HIDE DEF x
      <4>3. x \in Copies(d)
        BY <2>2, <3>2, <4>1, <4>2 DEF OneName, Preserved, Ample, Newer
      <4>4. HasMeta(disk[d][n])
        OBVIOUS
      <4> QED
        BY <2>2, <3>2, <4>1, <4>3, <4>4 DEF Copies, OneName, HasMeta
    <3> QED
      BY <3>1, <3>3 DEF Intact
  <2> QED
    BY <2>1, <2>2 DEF Remote
<1> QED
  BY <1>1, DistinctAlways, PTL

\* With distinct ids a generation that an exit code claims for a destination, of
\* either kind, is there or was replaced by keep newer ones (_finish).
THEOREM ClaimsAreKept == DistinctSpec => []ReportIfDistinct
<1>1. DistinctInv => ReportIfDistinct
  <2> SUFFICES ASSUME SafetyInv, AfarInv, NEW p \in Procs, pc[p] = "exit", job[p].cmd = "run",
                      NEW d \in Claimed(job[p])
               PROVE  Preserved(d, job[p].id)
    BY DEF DistinctInv, Meanwhile, ReportIfDistinct
  <2>1. TypeOK /\ Ledgers /\ Results /\ Kept
    BY DEF SafetyInv, LockInv
  <2>2. d \in job[p].stored /\ lock = p
    BY <2>1, ClaimsAreLedger
  <2>3. d \in Dests /\ job[p].id \in Ids
    BY <2>1, <2>2 DEF TypeOK, Jobs
  <2>4. CASE d \in Local
    BY <2>1, <2>2, <2>3, <2>4, LocalCopies DEF Kept
  <2>5. CASE d \in Remote
    BY <2>2, <2>5 DEF AfarInv, KeptAfar
  <2> QED
    BY <2>3, <2>4, <2>5 DEF Remote
<1> QED
  BY <1>1, DistinctAlways, PTL

\* With distinct ids every destination, of either kind, implements the abstract
\* store of generations: a copy appears whole, and goes while keep newer ones are
\* there.
THEOREM RefinementAnywhere == DistinctSpec => StoreIfDistinct
<1> DEFINE h == [d \in Dests |-> Copies(d)]
<1>0. \A S : Mixed!Cardinality(S) = Cardinality(S)
  BY DEF Mixed!Cardinality, Cardinality
<1>1. DistinctInv /\ [DistinctNext]_dvars => (distinct' => Mixed!Next \/ UNCHANGED h)
  <2> SUFFICES ASSUME DistinctInv, [DistinctNext]_dvars, distinct'
               PROVE  Mixed!Next \/ UNCHANGED h
    OBVIOUS
  <2>1. Always /\ Meanwhile /\ AfarInv
    BY DistinctSteps DEF DistinctInv, Always, Meanwhile
  <2>2. TypeOK /\ Copied /\ Planned
    BY <2>1 DEF Meanwhile, SafetyInv, LockInv
  <2>3. CASE UNCHANGED disks
    BY <2>3 DEF Copies, Local, disks
  <2>4. ASSUME NEW e \in Dests, \A d \in Dests \ {e} : disk'[d] = disk[d],
               \/ Copies(e)' = Copies(e)
               \/ \E x \in Ids : Copies(e)' = Copies(e) \cup {x}
               \/ \E x \in Ids : Copies(e)' = Copies(e) \ {x} /\ Ample(e, x)
        PROVE  Mixed!Next \/ UNCHANGED h
    <3>2. \A d \in Dests \ {e} : Copies(d)' = Copies(d)
      BY <2>4 DEF Copies, Local
    <3>4. CASE Copies(e)' = Copies(e)
      BY <3>2, <3>4
    <3>5. ASSUME NEW x \in Ids, Copies(e)' = Copies(e) \cup {x} PROVE Mixed!Next
      <4>1. Mixed!Commit(e, x)
        BY <3>2, <3>5 DEF Mixed!Commit
      <4> QED
        BY <4>1 DEF Mixed!Next
    <3>6. ASSUME NEW x \in Ids, Copies(e)' = Copies(e) \ {x}, Ample(e, x) PROVE Mixed!Next
      <4>1. Cardinality({y \in h[e] : y > x}) >= Keep[e]
        BY <3>6 DEF Ample, Newer
      <4>2. h' = [h EXCEPT ![e] = @ \ {x}]
        BY <3>2, <3>6
      <4>3. Mixed!Expire(e, x)
        BY <4>1, <4>2, <1>0 DEF Mixed!Expire
      <4> QED
        BY <4>3 DEF Mixed!Next
    <3> QED
      BY <2>4, <3>4, <3>5, <3>6
  <2>5. ASSUME NEW p \in Procs, Step(p) PROVE Mixed!Next \/ UNCHANGED h
    <3>1. PICK e \in Dests : \A d \in Dests \ {e} : disk'[d] = disk[d]
      BY <2>2, <2>5, OneDisk
    <3>2. CASE e \in Remote
      BY <2>1, <2>2, <2>4, <2>5, <3>1, <3>2, CopiesEffect DEF AfarInv
    <3>3. CASE e \in Local
      <4>1. Copies(e) = Held(e) /\ Copies(e)' = Held(e)'
        BY <3>3 DEF Copies, Held, Local
      <4>2. \A x \in Ids : Enough(e, x) => Ample(e, x)
        BY <4>1 DEF Enough, Ample
      <4> QED
        BY <2>2, <2>4, <2>5, <3>1, <3>3, <4>1, <4>2, HeldEffect
    <3> QED
      BY <3>2, <3>3 DEF Remote
  <2>6. ASSUME NEW c \in late, LateEffect(c) PROVE Mixed!Next \/ UNCHANGED h
    <3>1. OneName /\ Replaceable
      BY <2>1 DEF Meanwhile, AfarInv
    <3>2. c.dest \in Remote /\ \A e \in Dests \ {c.dest} : disk'[e] = disk[e]
      BY <2>1, <2>6, <3>1, LateChange
    <3>3. \/ Copies(c.dest)' = Copies(c.dest)
          \/ \E x \in Ids : Copies(c.dest)' = Copies(c.dest) \ {x} /\ Ample(c.dest, x)
      BY <2>1, <2>6, <3>1, <3>2, LateCopies
    <3> QED
      BY <2>4, <3>2, <3>3 DEF Remote
  <2> QED
    BY <2>2, <2>3, <2>5, <2>6, DistinctSteps
<1> QED
  BY <1>1, DistinctAlways, PTL DEF DistinctSpec, StoreIfDistinct
=============================================================================
