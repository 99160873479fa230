----------------------------- MODULE Preconditions -----------------------------
(***************************************************************************)
(* What a run depends on before and around its backup, and `mbkeeper check`*)
(* which probes it in advance: the replication state of the server         *)
(* (replication.py), the mariabackup program, the hooks (hooks.py) and     *)
(* access to a local and an ssh destination.  check takes no lock; several *)
(* may run at once; the server and the machine change beside them.  Of a   *)
(* run, the steps that can stop it here are shown; its stores succeed.     *)
(***************************************************************************)
EXTENDS Integers, FiniteSets

CONSTANTS
    Checks,     \* slots for `check` commands that may run at the same time
    Lags,       \* values of Seconds_Behind_Master to consider
    MaxLags     \* values of replication.max_lag_seconds to consider

ASSUME PreconditionsAssumption == Lags \subseteq Nat /\ MaxLags \subseteq Nat

NULL == -1

VARIABLES
    mode, max_lag,  \* [replication]
    server,         \* what the client gets from the server
    program,        \* the mariabackup program
    probe,          \* .mbkeeper-check exists in the destination's directory
    writable,       \* the destination's directory can be written to
    chk,            \* chk[c]: a check command
    run, code,      \* the run command: its next step, and how it ended
    wrong           \* what went wrong in this run

config == <<mode, max_lag>>
world == <<server, program, writable>>
vars == <<config, world, probe, chk, run, code, wrong>>

\* The client answers; answers the status, but gives a version that is not
\* text; gives a status that is not text; or fails.  What is behind a client
\* that gives no status, and the lag of a server that is no replica, nobody sees.
Clients == {"answers", "unversioned", "garbled", "fails"}
Servers ==
    {s \in [client : Clients, replica : BOOLEAN, lag : Lags \cup {NULL}] :
        (s.replica => s.client \in {"answers", "unversioned"}) /\ (~s.replica => s.lag = NULL)}
\* What a broken program prints, if anything, may not even be text.
Programs == {"works", "missing", "broken"}
Idle == [at |-> "idle", failed |-> {}, code |-> "none",
         clean |-> TRUE, alone |-> TRUE]    \* since it began: no change; no other check

Init ==
    /\ mode \in {"off", "require_replica"} /\ max_lag \in MaxLags
    /\ server \in Servers /\ program = "works" /\ writable = TRUE /\ probe = FALSE
    /\ chk = [c \in Checks |-> Idle]
    /\ run = "idle" /\ code = "none" /\ wrong = {}

-----------------------------------------------------------------------------
(* Decisions                                                               *)

\* check_replication: "pass", a PreconditionError, or, for output that is not
\* text, an exception nobody expects.  The version is asked for last; a client
\* that fails then does no harm, output that is not text escapes there too.
TooOld_OrEqual(s) == s.lag = NULL \/ s.lag >= max_lag
TooOld(s) == s.lag = NULL \/ s.lag > max_lag

check_replication(s) ==
    IF s.client = "garbled" THEN "escape"
    ELSE IF s.client = "fails" THEN "raise"
    ELSE IF mode = "require_replica" /\ ~s.replica THEN "raise"
    ELSE IF s.replica /\ max_lag > 0 /\ TooOld(s) THEN "raise"
    ELSE IF s.client = "unversioned" THEN "escape"
    ELSE "pass"

\* A run asks the server only if a requirement is configured.
Asks == mode # "off" \/ max_lag # 0

\* What can become of a hook command, configured or not.
HookOutcomes == {"none", "unparsable", "cannot start", "times out", "nonzero", "zero",
                 "blank", "garbled"}

\* run_hook: a failure is raised with fail_fast and logged without.  A blank
\* command has no argv[0], and output that is not text cannot be decoded; neither
\* exception is a failure run_hook handles.
HandleFailure_Always(fail_fast) == "raise"  \* fail_fast ignored
HandleFailure(fail_fast) == IF fail_fast THEN "raise" ELSE "pass"

run_hook(outcome, fail_fast) ==
    CASE outcome \in {"none", "zero"} -> "pass"
      [] outcome \in {"unparsable", "cannot start", "times out", "nonzero"} ->
            HandleFailure(fail_fast)
      [] OTHER -> "escape"

-----------------------------------------------------------------------------
(* mbkeeper run                                                            *)

Steps == <<"replication", "pre_backup", "backup", "post_backup", "pre_purge", "post_run">>
StepNo == [s \in {Steps[i] : i \in 1..6} |-> CHOOSE i \in 1..6 : Steps[i] = s]
After(s) == IF s \in {"post_run", "failed"} THEN "over" ELSE Steps[StepNo[s] + 1]

\* The exit code _finish is given, and returns whatever post_run makes of it.
Ending == [post_run |-> "SUCCESS", failed |-> "BACKUP_FAILED"]

\* The run goes on, or ends with an exception: v is the verdict of step `run`.
Proceed(v, blame) ==
    /\ CASE v = "pass" -> /\ run' = After(run)
                          /\ code' = IF run \in DOMAIN Ending THEN Ending[run] ELSE code
         [] v = "raise" -> run' = "over" /\ code' = "PRECONDITION_FAILED"
         [] v = "escape" -> run' = "over" /\ code' = "INTERNAL_ERROR"
    /\ wrong' = wrong \cup blame
    /\ UNCHANGED <<config, world, probe, chk>>

StartRun ==
    /\ run \in {"idle", "over"}
    /\ run' = "replication" /\ code' = "none" /\ wrong' = {}
    /\ UNCHANGED <<config, world, probe, chk>>

\* A requirement that is not met, or output that is not text.
Replication ==
    /\ run = "replication"
    /\ LET v == IF Asks THEN check_replication(server) ELSE "pass"
       IN  Proceed(v, CASE v = "pass" -> {}
                        [] v = "raise" -> {"replication"}
                        [] v = "escape" -> {"replication", "unexpected"})

\* What an outcome of hook `name` adds to what went wrong.  Of a hook after the
\* backup only what run_hook does not handle is noted.
Blame(name, outcome) ==
    (IF name = "pre_backup" /\ outcome \notin {"none", "zero"} THEN {name} ELSE {})
    \cup (IF outcome \in {"blank", "garbled"} THEN {"unexpected"} ELSE {})

Hook(name, fail_fast) ==
    /\ run = name
    /\ \E outcome \in HookOutcomes : Proceed(run_hook(outcome, fail_fast), Blame(name, outcome))

\* run_backup and write_meta, which asks for the version once more.  A
\* BackupError is reported through _finish, that is, post_run.
Backup ==
    /\ run = "backup"
    /\ \/ program = "works" /\ Proceed("pass", {})
       \/ program = "broken" /\ Proceed("escape", {"backup", "unexpected"})
       \/ /\ run' = "failed" /\ wrong' = wrong \cup {"backup"}
          /\ UNCHANGED <<config, world, probe, chk, code>>

FailedPostRun ==
    /\ run = "failed"
    /\ \E outcome \in HookOutcomes : Proceed(run_hook(outcome, FALSE), Blame("post_run", outcome))

Run ==
    \/ Replication \/ Backup \/ FailedPostRun
    \/ Hook("pre_backup", TRUE) \/ Hook("post_backup", FALSE)
    \/ Hook("pre_purge", FALSE) \/ Hook("post_run", FALSE)

-----------------------------------------------------------------------------
(* mbkeeper check                                                          *)

\* Check c goes on at `place`; `bad` are the items that have failed: the local
\* destination, or another one (mariabackup, replication, the ssh destination).
Check(c, place, bad) ==
    /\ chk' = [chk EXCEPT ![c].at = place, ![c].failed = @ \cup bad]
    /\ UNCHANGED <<config, world, run, code, wrong>>

StartCheck(c) ==
    /\ chk[c].at \in {"idle", "over"}
    /\ LET busy == {b \in Checks : chk[b].at \notin {"idle", "over"}}
       IN  chk' = [b \in Checks |-> IF b = c THEN [Idle EXCEPT !.at = "version", !.alone = busy = {}]
                                    ELSE IF b \in busy THEN [chk[b] EXCEPT !.alone = FALSE]
                                    ELSE chk[b]]
    /\ UNCHANGED <<config, world, probe, run, code, wrong>>

\* Output that is not text ends the command.
Escapes(c) ==
    /\ chk' = [chk EXCEPT ![c].at = "over", ![c].code = "INTERNAL_ERROR"]
    /\ UNCHANGED <<config, world, run, code, wrong>>

\* get_version() reads "unknown (...)" only when the program cannot be started
\* or times out; any output, and none at all, counts as a version.
VersionKnown == program # "missing"

Version(c) ==
    /\ chk[c].at = "version"
    /\ \/ Check(c, "replication", IF VersionKnown THEN {} ELSE {"other"})
       \/ program = "broken" /\ Escapes(c)
    /\ UNCHANGED probe

\* check asks the server in every case.
CheckAsks_ModeOnly == mode # "off"
CheckAsks == TRUE

CheckReplication(c) ==
    /\ chk[c].at = "replication"
    /\ LET v == IF CheckAsks THEN check_replication(server) ELSE "pass"
       IN  IF v = "escape"
           THEN Escapes(c) ELSE Check(c, "write", IF v = "pass" THEN {} ELSE {"other"})
    /\ UNCHANGED probe

\* The exit code, from the items of the summary.
Verdict(failed) == IF failed = {} THEN "SUCCESS" ELSE "PRECONDITION_FAILED"

Report(c, bad) ==
    /\ chk' = [chk EXCEPT ![c].at = "over", ![c].failed = @ \cup bad,
                          ![c].code = Verdict(chk[c].failed \cup bad)]
    /\ UNCHANGED <<config, world, run, code, wrong>>

\* LocalDestination.check: write the probe file, then unlink it.  All checks
\* use the same name.
Writes_Exclusive == writable /\ ~probe      \* open(probe, "x")
Writes == writable

ProbeWrite(c) ==
    /\ chk[c].at = "write"
    /\ \/ Writes /\ Check(c, "unlink", {}) /\ probe' = TRUE
       \/ ~Writes /\ Check(c, "remote", {"local"}) /\ UNCHANGED probe

Unlinks == probe /\ writable

ProbeUnlink(c) ==
    /\ chk[c].at = "unlink"
    /\ \/ Unlinks /\ Check(c, "remote", {}) /\ probe' = FALSE
       \/ ~Unlinks /\ Check(c, "remote", {"local"}) /\ UNCHANGED probe

\* SSHDestination.check: touch and rm -f in one remote command, which another
\* check does not disturb.  The last item of the summary.
ProbeRemote(c) ==
    /\ chk[c].at = "remote"
    /\ Report(c, {}) \/ Report(c, {"other"}) \/ Escapes(c)
    /\ UNCHANGED probe

-----------------------------------------------------------------------------
\* The server, the installation and the disk change.
Change ==
    /\ \/ server' \in Servers \ {server} /\ UNCHANGED <<program, writable>>
       \/ program' \in Programs \ {program} /\ UNCHANGED <<server, writable>>
       \/ writable' = ~writable /\ UNCHANGED <<server, program>>
    /\ chk' = [c \in Checks |-> IF chk[c].at = "over" THEN Idle
                                ELSE [chk[c] EXCEPT !.clean = chk[c].at = "idle"]]
    /\ UNCHANGED <<config, probe, run, code, wrong>>

Next ==
    \/ StartRun \/ Run \/ Change
    \/ \E c \in Checks : StartCheck(c) \/ Version(c) \/ CheckReplication(c)
                         \/ ProbeWrite(c) \/ ProbeUnlink(c) \/ ProbeRemote(c)

Spec == Init /\ [][Next]_vars

-----------------------------------------------------------------------------
(* Properties                                                              *)

\* What the configuration asks of the server.
Meets(s) ==
    /\ mode = "require_replica" => s.replica
    /\ max_lag > 0 /\ s.replica => s.lag \in 0 .. max_lag

\* A run passes the replication step only on a server that meets the
\* requirement, and fails it only on one that does not or cannot be asked.
Required == mode = "require_replica" \/ max_lag > 0

GateExact ==
    [][run = "replication" /\ run' # run =>
         (run' = "pre_backup" <=> (Required => server.client = "answers") /\ Meets(server))]_vars

\* A check that succeeded predicts the next run as long as nothing changes: the
\* replication step of a run does not fail.
CheckPredictsRun ==
    [][run = "replication" /\ run' = "over" =>
         \A c \in Checks : chk[c].at = "over" /\ chk[c].clean => chk[c].code # "SUCCESS"]_vars

\* The exit code of a run says what went wrong before and in its backup, and
\* nothing else: the hooks after it, post_run of a failed backup included, do not
\* change it however they fail, except by output that is not text or a command
\* that is blank, which run_hook does not handle.
HooksHarmless ==
    run = "over" =>
       code = IF "unexpected" \in wrong THEN "INTERNAL_ERROR"
              ELSE IF wrong \cap {"replication", "pre_backup"} # {} THEN "PRECONDITION_FAILED"
              ELSE IF "backup" \in wrong THEN "BACKUP_FAILED"
              ELSE "SUCCESS"

\* A check reports a good destination as broken only if another check overlapped
\* with it, whose unlink came first.
FalseAlarm ==
    \A c \in Checks : "local" \in chk[c].failed /\ chk[c].clean /\ chk[c].alone
                         => ~writable

\* configuration.md: only pre_backup failing aborts the run.
OnlyPreBackupAborts ==
    run = "over" /\ code \notin {"SUCCESS", "BACKUP_FAILED"} =>
       wrong \cap {"replication", "pre_backup", "backup"} # {}

\* exit-codes.md: check returns 0 if every probe, mariabackup included, passed.
CheckFindsBroken ==
    \A c \in Checks : chk[c].at = "over" /\ chk[c].clean /\ chk[c].code = "SUCCESS"
                         => program = "works"
==============================================================================
