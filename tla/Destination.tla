----------------------------- MODULE Destination -----------------------------
(***************************************************************************)
(* The disks behind the destinations, and what one call of a backend does  *)
(* to them (destinations/local.py, destinations/ssh.py).                   *)
(*                                                                         *)
(* Destinations are numbered in the order of the configuration.  For a     *)
(* directory name n, disk[d][n] is what destination d holds under it and   *)
(* mtime[d][n] its modification time.  The operators below are the effects *)
(* of single calls; Orchestrator decides when they happen.                 *)
(***************************************************************************)
EXTENDS Manifest, Retention

CONSTANTS
    N,          \* number of [[destinations]] entries
    Kind        \* their type, "local" or "ssh"

ASSUME DestinationAssumption ==
    /\ N \in Nat \ {0}
    /\ Kind \in [1 .. N -> {"local", "ssh"}]

Dests == 1 .. N

VARIABLES disk, mtime
disks == <<disk, mtime>>

Set(d, n, s, t) ==
    /\ disk' = [disk EXCEPT ![d][n] = s]
    /\ mtime' = [mtime EXCEPT ![d][n] = t]

-----------------------------------------------------------------------------
(* store()                                                                 *)

\* The idempotence test: "<id>/meta.json" is there already.
AlreadyStored(d, x) == HasMeta(disk[d][x])

\* local removes a leftover "<id>.partial" before it copies; rsync works in
\* place, and --delete spares the excluded meta.json of a leftover.
BeginCopy(d, x, t) ==
    LET leftover == Kind[d] = "ssh" /\ HasMeta(disk[d][Partial(x)])
    IN  Set(d, Partial(x), IF leftover THEN "husk" ELSE "some", t)

\* All data files are in, and the directory is given the time t of its source.
FinishCopy(d, x, t) ==
    Set(d, Partial(x), IF disk[d][Partial(x)] = "husk" THEN "whole" ELSE "full", t)

CopyMeta_Final(d, x, t) == Set(d, x, "husk", t)     \* into the final directory
\* meta.json joins what the partial holds.
CopyMeta(d, x, t) ==
    Set(d, Partial(x), IF disk[d][Partial(x)] \in {"full", "whole"} THEN "whole" ELSE "husk", t)

\* The commit.  rename() replaces an empty directory and refuses one that is
\* not; mv into a directory that exists puts the partial inside it.
Nests(d, x) == Kind[d] = "ssh" /\ disk[d][x] # "none"
CanRename(d, x) == Kind[d] = "ssh" \/ disk[d][x] \in {"none", "some"}
Rename(d, x, t) ==
    /\ disk' = [disk EXCEPT ![d][x] = IF Nests(d, x) THEN @ ELSE disk[d][Partial(x)],
                            ![d][Partial(x)] = "none"]
    /\ mtime' = [mtime EXCEPT ![d][x] = IF Nests(d, x) THEN t ELSE mtime[d][Partial(x)],
                              ![d][Partial(x)] = 0]

-----------------------------------------------------------------------------
(* list_backups()                                                          *)

\* "*.partial" is incomplete whatever it holds; any other directory is
\* complete if it has a meta.json, and is listed either way.
LocalListing(d) ==
    {[backup_id |-> x, complete |-> HasMeta(disk[d][x]), stored_at |-> mtime[d][x]] :
        x \in {x \in Ids : disk[d][x] # "none"}}
    \cup
    {[backup_id |-> x, complete |-> FALSE, stored_at |-> mtime[d][Partial(x)]] :
        x \in {x \in Ids : disk[d][Partial(x)] # "none"}}

\* The remote script looks for meta.json first and prints COMPLETE with the
\* full directory name; only then does it look at the suffix.  A directory
\* with neither is not printed.
SSHListing(d) ==
    {[backup_id |-> n, complete |-> TRUE, stored_at |-> mtime[d][n]] :
        n \in {n \in Names : HasMeta(disk[d][n])}}
    \cup
    {[backup_id |-> x, complete |-> FALSE, stored_at |-> mtime[d][Partial(x)]] :
        x \in {x \in Ids : disk[d][Partial(x)] \in {"some", "full"}}}

list_backups(d) == IF Kind[d] = "ssh" THEN SSHListing(d) ELSE LocalListing(d)

-----------------------------------------------------------------------------
(* delete()                                                                *)

\* "<id>" and "<id>.partial" both go, in one call.
Victims(b) == IF b \in Ids THEN {b, Partial(b)} ELSE {b}

Delete(d, b) ==
    /\ disk' = [disk EXCEPT ![d] = [n \in Names |-> IF n \in Victims(b) THEN "none" ELSE @[n]]]
    /\ mtime' = [mtime EXCEPT ![d] = [n \in Names |-> IF n \in Victims(b) THEN 0 ELSE @[n]]]

\* What a removal that stops half-way can leave of a directory: files go in
\* no particular order.
Remains(s) ==
    {rest \in DirStates : \/ rest = s \/ rest = "none" \/ s = "whole"
                          \/ rest = "some" /\ s # "none"}

\* A leftover partial that local could not remove before its copy.
BeginInterrupted(d, x, t) ==
    /\ Kind[d] = "local"
    /\ \E rest \in Remains(disk[d][Partial(x)]) \ {"none"} : Set(d, Partial(x), rest, t)

DeleteInterrupted(d, b, t) ==
    \E rest \in [Victims(b) -> DirStates] :
        /\ \A n \in Victims(b) : rest[n] \in Remains(disk[d][n])
        /\ disk' = [disk EXCEPT ![d] =
                        [n \in Names |-> IF n \in Victims(b) THEN rest[n] ELSE @[n]]]
        /\ mtime' = [mtime EXCEPT ![d] =
                        [n \in Names |-> IF n \notin Victims(b) THEN @[n]
                                         ELSE IF rest[n] = "none" THEN 0
                                         ELSE IF rest[n] = disk[d][n] THEN @[n] ELSE t]]
=============================================================================
