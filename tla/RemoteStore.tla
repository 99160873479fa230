----------------------------- MODULE RemoteStore -----------------------------
(***************************************************************************)
(* One ssh destination, command by command (destinations/ssh.py).  Each    *)
(* step of store() and delete() is a process on another machine: a command *)
(* can fail, be carried out with its reply lost, or be cut off by the      *)
(* 30 second timeout and take effect later; an rsync can fail half-way and *)
(* is tried again.                                                         *)
(*                                                                         *)
(* The caller uses the contract of destinations/base.py: it may store an   *)
(* id again after a failure, from a backup that it took anew, and does not *)
(* store an id that it has deleted.  States of a directory are those of    *)
(* Manifest.                                                               *)
(***************************************************************************)
EXTENDS Naturals

CONSTANTS
    Ids,            \* backup ids
    Retries         \* transfer.retries

ASSUME RemoteAssumption == Retries \in Nat

VARIABLES
    final, part,    \* what <id> and <id>.partial hold
    nested,         \* ids with an <id>.partial inside <id>
    late,           \* commands that outlived their ssh and are still to take effect
    overdue,        \* ids with a commit that outlived its ssh
    pc, cur,        \* the call in progress: its next command, and its id
    tries,          \* rsync attempts left
    at,             \* where the directory is that the running rsync writes to
    stored, deleted \* ids whose store returned; ids given to delete

remote == <<final, part, nested, late, overdue>>
caller == <<stored, deleted>>
vars == <<remote, pc, cur, tries, at, caller>>

DirStates == {"none", "some", "full", "husk", "whole"}
HasMeta(s) == s \in {"husk", "whole"}
Commands == [op : {"mv", "rm"}, id : Ids]

Init ==
    /\ final = [x \in Ids |-> "none"] /\ part = [x \in Ids |-> "none"]
    /\ nested = {} /\ late = {} /\ overdue = {}
    /\ pc = "idle" /\ cur \in Ids /\ tries = 0 /\ at = "part"
    /\ stored = {} /\ deleted = {}

-----------------------------------------------------------------------------
(* The remote side                                                         *)

\* mv of a missing directory fails; mv into one that exists puts the partial
\* inside it, once: a second one would have to replace a directory with files.
MoveWorks(x) == part[x] # "none" /\ (final[x] # "none" => x \notin nested)

Move_Merge(x) ==                            \* cp -r over <id>, then rm
    /\ final' = [final EXCEPT ![x] = IF @ = "none" THEN part[x] ELSE "husk"]
    /\ part' = [part EXCEPT ![x] = "none"]
    /\ UNCHANGED nested
Move(x) ==
    /\ IF final[x] = "none" THEN final' = [final EXCEPT ![x] = part[x]] /\ UNCHANGED nested
                            ELSE nested' = nested \cup {x} /\ UNCHANGED final
    /\ part' = [part EXCEPT ![x] = "none"]

Remove(x) ==
    /\ final' = [final EXCEPT ![x] = "none"]
    /\ part' = [part EXCEPT ![x] = "none"]
    /\ nested' = nested \ {x}

\* A command whose ssh timed out takes effect after all.  A transfer that is
\* running goes on in the moved directory.
LateEffect(c) ==
    /\ c \in late
    /\ late' = late \ {c}
    /\ \/ c.op = "mv" /\ MoveWorks(c.id) /\ Move(c.id)
            /\ at' = IF pc # "rsync" \/ cur # c.id THEN at
                     ELSE IF final[c.id] = "none" THEN "final" ELSE "nested"
       \/ c.op = "mv" /\ ~MoveWorks(c.id) /\ UNCHANGED <<final, part, nested, at>>
       \/ c.op = "rm" /\ Remove(c.id) /\ UNCHANGED at
    /\ UNCHANGED <<overdue, pc, cur, tries, caller>>

-----------------------------------------------------------------------------
(* The caller                                                              *)

Step(place) == pc' = place /\ UNCHANGED <<cur, at, caller>>

\* A DestinationError ends the call.
Fail == Step("idle") /\ UNCHANGED tries

\* store() returns.
Return == pc' = "idle" /\ stored' = stored \cup {cur} /\ UNCHANGED <<cur, tries, at, deleted>>

StartStore(x) ==
    /\ pc = "idle" /\ x \notin deleted
    /\ pc' = "test" /\ cur' = x /\ stored' = stored \ {x}
    /\ UNCHANGED <<remote, tries, at, deleted>>

\* test -f: a broken connection reads as "not there"; a timeout is an error.
Test ==
    /\ pc = "test"
    /\ \/ HasMeta(final[cur]) /\ Return
       \/ Step("mkdir") /\ UNCHANGED tries
       \/ Fail
    /\ UNCHANGED remote

\* mkdir -p of the destination's path.
Mkdir ==
    /\ pc = "mkdir"
    /\ \/ Step("copy") /\ tries' = Retries + 1
       \/ Fail
    /\ UNCHANGED remote

\* An rsync begins.  It works in place, and --delete spares the excluded
\* meta.json of a leftover partial.
Begin ==
    /\ part' = [part EXCEPT ![cur] = IF HasMeta(@) THEN "husk" ELSE "some"]
    /\ UNCHANGED final

Copy ==
    /\ pc = "copy"
    /\ Begin
    /\ pc' = "rsync" /\ at' = "part"
    /\ UNCHANGED <<nested, late, overdue, cur, tries, caller>>

\* An attempt fails: the next one, or a DestinationError after the last.
Again_Ignore(retry, next) ==                \* no raise after the loop
    IF tries > 1 THEN Step(retry) /\ tries' = tries - 1 ELSE Step(next) /\ tries' = Retries + 1
Again_Forever(retry, next) == Step(retry) /\ UNCHANGED tries
Again(retry, next) == IF tries > 1 THEN Step(retry) /\ tries' = tries - 1 ELSE Fail

\* All data files are in; a meta.json that was spared stays.
Filled(s) == IF HasMeta(s) THEN "whole" ELSE "full"

Rsync ==
    /\ pc = "rsync"
    /\ \/ /\ part' = IF at = "part" THEN [part EXCEPT ![cur] = Filled(@)] ELSE part
          /\ final' = IF at = "final" THEN [final EXCEPT ![cur] = Filled(@)] ELSE final
          /\ Step("meta") /\ tries' = Retries + 1
       \/ Again("copy", "meta") /\ UNCHANGED <<final, part>>
    /\ UNCHANGED <<nested, late, overdue>>

\* meta.json alone; there must be a directory to put it in.
Meta ==
    /\ pc = "meta"
    /\ \/ /\ part[cur] # "none"
          /\ part' = [part EXCEPT ![cur] = IF @ \in {"full", "whole"} THEN "whole" ELSE "husk"]
          /\ Step("commit") /\ UNCHANGED tries
       \/ Again("meta", "commit") /\ UNCHANGED part
    /\ UNCHANGED <<final, nested, late, overdue>>

\* The ssh of a command times out, and the command goes on.
Outlives(op, x) == late' = late \cup {[op |-> op, id |-> x]} /\ UNCHANGED <<final, part, nested>>

\* mv: done, done with the reply lost, not done, or not done yet.
Commit ==
    /\ pc = "commit"
    /\ \/ MoveWorks(cur) /\ Move(cur) /\ UNCHANGED <<late, overdue>> /\ (Return \/ Fail)
       \/ UNCHANGED remote /\ Fail
       \/ Outlives("mv", cur) /\ overdue' = overdue \cup {cur} /\ Fail

\* delete(): rm -rf of both names, which can stop half-way.
Delete(x) ==
    /\ pc = "idle" /\ x \in Ids
    /\ deleted' = deleted \cup {x} /\ stored' = stored \ {x} /\ cur' = x
    /\ \/ Remove(x) /\ UNCHANGED late
       \/ /\ final[x] # "none"
          /\ \E rest \in {"some", "husk"} :
                /\ rest = "husk" => HasMeta(final[x])
                /\ final' = [final EXCEPT ![x] = rest]
          /\ part' \in {part, [part EXCEPT ![x] = "none"]}
          /\ UNCHANGED <<nested, late>>
       \/ UNCHANGED remote
       \/ Outlives("rm", x)
    /\ UNCHANGED <<overdue, pc, tries, at>>

-----------------------------------------------------------------------------
Storing == Test \/ Mkdir \/ Copy \/ Rsync \/ Meta \/ Commit

Next ==
    \/ Storing
    \/ \E x \in Ids : StartStore(x) \/ Delete(x)
    \/ \E c \in Commands : LateEffect(c)

Spec == Init /\ [][Next]_vars

\* ssh commands run under a timeout; rsync has none and is taken to end.
FairSpec == Spec /\ WF_vars(Storing)

-----------------------------------------------------------------------------
(* Properties                                                              *)

TypeOK ==
    /\ final \in [Ids -> DirStates] /\ part \in [Ids -> DirStates]
    /\ nested \subseteq Ids /\ late \subseteq Commands /\ overdue \subseteq Ids
    /\ pc \in {"idle", "test", "mkdir", "copy", "rsync", "meta", "commit"}
    /\ cur \in Ids /\ tries \in 0 .. Retries + 1 /\ at \in {"part", "final", "nested"}
    /\ stored \subseteq Ids /\ deleted \subseteq Ids

\* A store that returned has put a complete generation under its final name,
\* and it is still there: interrupted attempts, retries and lost replies
\* before it do not matter.  Only a mv that comes late can spoil this, and only
\* for its own id.
SuccessMeansWhole == \A x \in stored \ overdue : final[x] = "whole"

\* The commit is atomic: a directory that list_backups calls complete has all
\* its data, unless a removal is under way or was cut short, or the mv of this
\* id outlived its ssh.
NoHalfCommit == \A x \in Ids \ (deleted \cup overdue) : HasMeta(final[x]) => final[x] = "whole"

\* A complete generation is lost only through delete(): no retry of a store,
\* and no command that comes late, takes any of its data.
PriorSafe == [][\A x \in Ids : final[x] = "whole" /\ final'[x] # "whole" => x \in deleted']_vars

\* design.md: store() is idempotent, safe to retry, whatever came late.
RetrySafe == \A x \in stored : final[x] = "whole"

\* base.py: a retried store does not touch a prior complete generation.  Here
\* that includes what else lies in its directory.
PriorUntouched ==
    [][\A x \in Ids : final[x] = "whole" /\ x \in nested' => x \in nested]_vars

\* store() comes back, with a result or a DestinationError, after at most
\* retries + 1 attempts for each rsync.
StoreReturns == pc # "idle" ~> pc = "idle"
==============================================================================
