-------------------------------- MODULE Listing --------------------------------
(***************************************************************************)
(* `mbkeeper list` beside the pipelines.  It takes no lock, so runs and    *)
(* purges go on while it reads a destination entry by entry (_cmd_list of  *)
(* cli.py, list_backups of both backends).  Orchestrator lists in one      *)
(* step, which is right for a process that holds the lock; this module     *)
(* takes the same code apart.  A removal still happens in one step, or     *)
(* stops half-way as DeleteFail has it.                                    *)
(***************************************************************************)
EXTENDS Orchestrator

VARIABLES
    scan,       \* the list command: where it is, and its local state
    quiet,      \* nothing has changed since it opened the destination
    steady      \* generations held completely since then

lvars == <<vars, scan, quiet, steady>>

NoScan == [place |-> "idle", todo |-> {}, left |-> {}, name |-> NoId, at |-> 0,
           complete |-> FALSE, rows |-> {}, code |-> "SUCCESS",
           broken |-> FALSE]            \* something could not be read

ListInit == Init /\ scan = NoScan /\ quiet = TRUE /\ steady = {}

Scanned(d) == d \in scan.todo /\ \A e \in scan.todo : d <= e
Whole(d) == {x \in Ids : disk[d][x] = "whole"}

\* The scan goes on in state s; what it reads, it does not change.
Scan(s) == scan' = s /\ UNCHANGED <<vars, quiet, steady>>

\* `mbkeeper list [--destination NAME]`: all, one, or, for an unknown name, none.
StartList ==
    /\ scan.place = "idle"
    /\ \E targets \in {Dests, {}} \cup {{d} : d \in Dests} :
          Scan([NoScan EXCEPT !.place = "open", !.todo = targets])

\* iterdir() and the glob of the script read the directory once.
Open(d) ==
    /\ scan.place = "open" /\ Scanned(d)
    /\ scan' = [scan EXCEPT !.place = "entry", !.rows = {},
                            !.left = {n \in Names : disk[d][n] # "none"}]
    /\ quiet' = TRUE /\ steady' = Whole(d)
    /\ UNCHANGED vars

\* A DestinationError (no such directory, a failed ssh) is printed, and the
\* other destinations follow.
OpenFails(d) ==
    /\ scan.place \in {"open", "entry", "second"} /\ Scanned(d)
    /\ Kind[d] = "local" => scan.place = "open"
    /\ Fault
    /\ scan' = [scan EXCEPT !.place = "open", !.todo = @ \ {d}, !.code = "PRECONDITION_FAILED"]
    /\ UNCHANGED <<clock, lock, work, pc, job, disks, quiet, steady>>

\* What no handler of _cmd_list expects: an OSError of iterdir(), is_dir(),
\* is_file() or stat(); output of ssh that is not text, or a line of it that
\* holds no time.  What follows is not listed.
ReadFails(d) ==
    /\ scan.place \in {"open", "entry", "second"} /\ Scanned(d)
    /\ Kind[d] = "local" /\ scan.place = "entry" => scan.left # {}
    /\ Fault
    /\ scan' = [scan EXCEPT !.place = "end", !.code = "INTERNAL_ERROR", !.broken = TRUE]
    /\ UNCHANGED <<clock, lock, work, pc, job, disks, quiet, steady>>

\* `continue` for an entry that is gone, or no directory.
Skip_Break(s) == [s EXCEPT !.left = {}]     \* break instead of continue
Skip(s) == s

\* local looks at suffix and meta.json first, and takes the time of an entry
\* that was there; the script takes the time first, 0 for one that is gone.
First(d, n) ==
    /\ scan.place = "entry" /\ Scanned(d) /\ n \in scan.left
    /\ LET s == [scan EXCEPT !.left = @ \ {n}, !.name = n, !.place = "second"]
       IN  IF Kind[d] = "ssh" THEN Scan([s EXCEPT !.at = mtime[d][n]])
           ELSE IF disk[d][n] = "none" THEN Scan(Skip([s EXCEPT !.place = "entry"]))
           ELSE Scan([s EXCEPT !.complete = n \in Ids /\ HasMeta(disk[d][n])])

Row(name, complete, at) == [backup_id |-> name, complete |-> complete, stored_at |-> at]

\* The entry's name without the suffix.
IdOf_Name(n) == n                           \* suffix kept
IdOf(n) == IF n \in Ids THEN n ELSE n - 1

\* stat() finds nothing any more.
Gone_ById(d, n) == disk[d][IdOf(n)] = "none"    \* path / backup_id for entry
Gone(d, n) == disk[d][n] = "none"

Second(d) ==
    /\ scan.place = "second" /\ Scanned(d)
    /\ LET n == scan.name
           gone == Gone(d, n)
           s == [scan EXCEPT !.place = "entry"]
       IN  \/ /\ Kind[d] = "local" /\ ~gone
              /\ Scan([s EXCEPT !.rows = @ \cup {Row(IdOf(n), scan.complete, mtime[d][n])}])
           \/ /\ Kind[d] = "local" /\ gone            \* FileNotFoundError of stat()
              /\ Scan([s EXCEPT !.place = "end", !.code = "INTERNAL_ERROR"])
           \/ /\ Kind[d] = "ssh"
              /\ Scan([s EXCEPT !.rows = @ \cup
                         (IF HasMeta(disk[d][n]) THEN {Row(n, TRUE, scan.at)}
                          ELSE IF n \notin Ids THEN {Row(IdOf(n), FALSE, scan.at)} ELSE {})])

\* The rows of d are printed.
Printed(d) == scan.place = "entry" /\ Scanned(d) /\ scan.left = {}

PrintRows(d) ==
    /\ Printed(d)
    /\ Scan([scan EXCEPT !.place = "open", !.todo = @ \ {d}])

EndList ==
    /\ scan.place = "end" \/ (scan.place = "open" /\ scan.todo = {})
    /\ Scan(NoScan)

ListStep ==
    \/ StartList \/ EndList
    \/ \E d \in Dests : Open(d) \/ OpenFails(d) \/ ReadFails(d) \/ Second(d) \/ PrintRows(d)
                        \/ \E n \in Names : First(d, n)

\* A step of the pipelines; the history of what it did to the destination
\* being listed goes into quiet and steady.
Beside ==
    /\ Next
    /\ UNCHANGED scan
    /\ LET same == \A d \in Dests : Scanned(d) => disk'[d] = disk[d] /\ mtime'[d] = mtime[d]
       IN  quiet' = (quiet /\ same)
    /\ steady' = {x \in steady : \A d \in Dests : Scanned(d) => disk'[d][x] = "whole"}

ListNext == ListStep \/ Beside
ListSpec == ListInit /\ [][ListNext]_lvars

-----------------------------------------------------------------------------
(* Properties                                                              *)

\* With no change to the destination meanwhile, reading it entry by entry gives
\* what the pipelines take it to give in one step.
ScanIsListing == \A d \in Dests : Printed(d) /\ quiet => scan.rows = list_backups(d)

\* A generation that is there from the beginning to the end of the scan is shown,
\* and as complete, whatever runs and purges do around it.
NothingOmitted ==
    \A d \in Dests : Printed(d) =>
       \A x \in steady : \E row \in scan.rows : row.backup_id = x /\ row.complete

\* Where everything can be read, list fails with INTERNAL_ERROR only if a
\* directory went away under it: a rename at the commit of a store, a cleared
\* leftover or a purge (stat() of list_backups in local.py).
ListErrorExplained == scan.code = "INTERNAL_ERROR" /\ ~scan.broken => ~quiet
==============================================================================
