------------------------------- MODULE Executor -------------------------------
(***************************************************************************)
(* MariabackupRunner._execute (backup.py) and the two phases run() calls   *)
(* it for.  The parent, mariabackup and the kernel are processes of their  *)
(* own: the child ends, hangs or ignores SIGTERM as it likes, the timeout  *)
(* fires beside it, and a killed parent leaves its child behind.           *)
(*                                                                         *)
(* Orchestrator has all of this as the one action Backup.                  *)
(***************************************************************************)
EXTENDS Naturals

CONSTANTS
    MaxRuns,    \* bound: runs one after another
    Prepare,    \* backup.prepare
    Timeout,    \* backup.timeout_seconds > 0
    Wrapped,    \* mariabackup_path may be a script that starts mariabackup as a child
    Installed   \* mariabackup_path is a text that names a program

ASSUME ExecutorAssumption ==
    /\ MaxRuns \in Nat
    /\ Prepare \in BOOLEAN /\ Timeout \in BOOLEAN
    /\ Wrapped \in BOOLEAN /\ Installed \in BOOLEAN

VARIABLES
    pc, run,    \* where the parent is, and its run; work_dir/<id> belongs to run
    late,       \* timed_out
    code,       \* how the run ended
    phase,      \* phase[r]: the phase run r has come to
    child,      \* child[r]: the process run r has started, and its last signal
    result,     \* result[r]: return code and stderr of that process
    helper,     \* runs with a process that inherited stderr from the child
    done        \* done[r]: the phases that are complete in the directory of r

vars == <<pc, run, late, code, phase, child, result, helper, done>>

Runs == 1..MaxRuns
Phases == IF Prepare THEN {"backup", "prepare"} ELSE {"backup"}
Waiting == {"wait", "grace", "reap"}        \* the three calls of communicate()
Results == [zero : BOOLEAN, marker : BOOLEAN, text : BOOLEAN]
Alive(r) == child[r] # "none"

Init ==
    /\ pc = "idle" /\ run = 0 /\ late = FALSE /\ code = "none"
    /\ phase = [r \in Runs |-> "backup"]
    /\ child = [r \in Runs |-> "none"]
    /\ result = [r \in Runs |-> [zero |-> FALSE, marker |-> FALSE, text |-> TRUE]]
    /\ helper = {}
    /\ done = [r \in Runs |-> {}]

-----------------------------------------------------------------------------
(* The child, its helper and the kernel                                    *)

\* mariabackup writes "completed OK!" and returns 0 only when its work is
\* done; either one alone proves nothing.  stderr may hold bytes that are not
\* text.  A wrapper waits for its mariabackup, unless a signal ends it.
Ended(r, res) ==
    /\ child' = [child EXCEPT ![r] = "none"]
    /\ result' = [result EXCEPT ![r] = res]
    /\ UNCHANGED <<pc, run, late, code, phase, helper>>

ChildEnds(r) ==
    /\ child[r] \in {"runs", "term"} /\ r \notin helper
    /\ \E res \in Results, work \in {done[r], done[r] \cup {phase[r]}} :
          /\ res.zero /\ res.marker => phase[r] \in work
          /\ Ended(r, res)
          /\ done' = [done EXCEPT ![r] = work]

\* The default action of SIGTERM, and the only one of SIGKILL.
ChildKilled(r) ==
    /\ child[r] \in {"term", "kill"}
    /\ \E res \in Results : ~res.zero /\ Ended(r, res)
    /\ UNCHANGED done

HelperEnds(r) ==
    /\ r \in helper
    /\ helper' = helper \ {r}
    /\ \E work \in {done[r], done[r] \cup {phase[r]}} : done' = [done EXCEPT ![r] = work]
    /\ UNCHANGED <<pc, run, late, code, phase, child, result>>

-----------------------------------------------------------------------------
(* The parent                                                              *)

\* A new invocation takes the lock; the directory it makes is new.
Begin ==
    /\ pc \in {"idle", "over"} /\ run < MaxRuns
    /\ pc' = "launch" /\ run' = run + 1 /\ code' = "none"
    /\ UNCHANGED <<late, phase, child, result, helper, done>>

Over(c) == pc' = "over" /\ code' = c

\* Popen, or the OSError it raises, which becomes a BackupError.  A
\* mariabackup_path that is no text, which no check of the configuration
\* refuses, is a TypeError that nobody expects.
LaunchError_Raw == "FileNotFoundError"      \* OSError not caught
LaunchError == "BACKUP_FAILED"
LaunchErrors == {LaunchError} \cup (IF Installed THEN {} ELSE {"INTERNAL_ERROR"})

Launch ==
    /\ pc = "launch"
    /\ \/ /\ Installed
          /\ pc' = "wait" /\ late' = FALSE
          /\ child' = [child EXCEPT ![run] = "runs"]
          /\ helper' \in {helper, helper \cup (IF Wrapped THEN {run} ELSE {})}
          /\ UNCHANGED code
       \/ /\ \E error \in LaunchErrors : Over(error)
          /\ UNCHANGED <<late, child, helper>>
    /\ UNCHANGED <<run, phase, result, done>>

\* communicate() returns when stderr is at its end and the child is reaped;
\* it decodes the text only then.
EndOfFile == ~Alive(run) /\ run \notin helper

CanReturn_GiveUp == EndOfFile \/ pc = "reap"    \* no communicate() after kill()
CanReturn == EndOfFile

Returned ==
    /\ pc \in Waiting /\ CanReturn
    /\ IF result[run].text THEN pc' = "log" /\ UNCHANGED code ELSE Over("INTERNAL_ERROR")
    /\ UNCHANGED <<run, late, phase, child, result, helper, done>>

\* TimeoutExpired: SIGTERM after timeout_seconds, SIGKILL after the grace
\* period.  The child may be gone by then; the signal has no effect on it.
Signalled(sig) == child' = [child EXCEPT ![run] = IF @ = "none" THEN @ ELSE sig]

Expire ==
    /\ pc = "wait" /\ Timeout
    /\ pc' = "grace" /\ late' = TRUE /\ Signalled("term")
    /\ UNCHANGED <<run, code, phase, result, helper, done>>

AfterGrace_TermAgain == "term"              \* terminate() for kill()
AfterGrace == "kill"

ExpireGrace ==
    /\ pc = "grace"
    /\ pc' = "reap" /\ Signalled(AfterGrace)
    /\ UNCHANGED <<run, late, code, phase, result, helper, done>>

\* The log file in the target directory.
Log ==
    /\ pc = "log"
    /\ \/ pc' = "verdict" /\ UNCHANGED code
       \/ Over("INTERNAL_ERROR")
    /\ UNCHANGED <<run, late, phase, child, result, helper, done>>

Succeeded_ReturnCode == ~late /\ result[run].zero           \* marker ignored
Succeeded == ~late /\ result[run].zero /\ result[run].marker

Verdict ==
    /\ pc = "verdict"
    /\ IF ~Succeeded THEN Over("BACKUP_FAILED") /\ UNCHANGED phase
       ELSE IF Prepare /\ phase[run] = "backup"
       THEN pc' = "launch" /\ phase' = [phase EXCEPT ![run] = "prepare"] /\ UNCHANGED code
       ELSE Over("SUCCESS") /\ UNCHANGED phase
    /\ UNCHANGED <<run, late, child, result, helper, done>>

\* The parent is killed.  The lock goes with it, the child does not.
Crash ==
    /\ pc \notin {"idle", "over"}
    /\ pc' = "idle" /\ code' = "CRASHED"
    /\ UNCHANGED <<run, late, phase, child, result, helper, done>>

-----------------------------------------------------------------------------
Parent == Launch \/ Returned \/ Expire \/ ExpireGrace \/ Log \/ Verdict

Next ==
    \/ Begin \/ Parent \/ Crash
    \/ \E r \in Runs : ChildEnds(r) \/ ChildKilled(r) \/ HelperEnds(r)

Spec == Init /\ [][Next]_vars

\* The parent runs, and the kernel carries out a SIGKILL.  mariabackup and its
\* helper may hang for ever, and SIGTERM may be ignored.
FairSpec ==
    /\ Spec
    /\ WF_vars(Parent)
    /\ \A r \in Runs : WF_vars(child[r] = "kill" /\ ChildKilled(r))

-----------------------------------------------------------------------------
(* Properties                                                              *)

TypeOK ==
    /\ pc \in {"idle", "launch", "log", "verdict", "over"} \cup Waiting
    /\ run \in 0..MaxRuns /\ late \in BOOLEAN
    /\ code \in {"none", "SUCCESS", "BACKUP_FAILED", "INTERNAL_ERROR", "CRASHED"}
    /\ phase \in [Runs -> Phases]
    /\ child \in [Runs -> {"none", "runs", "term", "kill"}]
    /\ result \in [Runs -> Results]
    /\ helper \subseteq Runs
    /\ done \in [Runs -> SUBSET Phases]

\* A generation that run() goes on to store is complete, phase by phase, and
\* no process writes to it any more, neither the child of this run nor what a
\* wrapper has left behind; --prepare starts only on a complete --backup.
CompleteAndQuiet ==
    /\ code = "SUCCESS" => done[run] = Phases /\ EndOfFile
    /\ run \in Runs /\ phase[run] = "prepare" => "backup" \in done[run]

\* _execute leaves no process behind on any of its ways out: a child that is
\* alive belongs to the call that waits for it, or to a run that was killed.
\* Two mariabackups at once therefore take a kill of mbkeeper.
NoChildLeft ==
    pc \notin Waiting /\ code # "CRASHED" /\ run \in Runs => EndOfFile

\* With timeout_seconds set, a run ends even when mariabackup hangs and
\* ignores SIGTERM.  What it can come to wait for without a bound is only a
\* process behind a wrapper, which no signal reaches.
RunEnds == pc = "launch" ~> pc \in {"idle", "over"} \/ (pc = "reap" /\ run \in helper)

\* configuration.md: on timeout SIGTERM, then SIGKILL; the run is marked failed.
TimeoutEndsRun == pc = "launch" ~> pc \in {"idle", "over"}

\* exit-codes.md: a missing mariabackup is a precondition that is not met.
MissingIsPrecondition == ~Installed /\ pc = "over" => code = "PRECONDITION_FAILED"
==============================================================================
