-------------------------- MODULE PreconditionsProofs --------------------------
(***************************************************************************)
(* The properties of Preconditions for any number of overlapping checks    *)
(* and any lags.                                                           *)
(***************************************************************************)
EXTENDS Preconditions, TLAPS

CheckPlaces == {"idle", "over", "version", "replication", "write", "unlink", "remote"}
RunPlaces == {"idle", "over", "failed", "replication", "pre_backup", "backup", "post_backup",
              "pre_purge", "post_run"}

CheckStates ==
    [at : CheckPlaces, failed : SUBSET {"local", "other"},
     code : {"none", "SUCCESS", "PRECONDITION_FAILED", "INTERNAL_ERROR"},
     clean : BOOLEAN, alone : BOOLEAN]

TypeOK ==
    /\ mode \in {"off", "require_replica"} /\ max_lag \in MaxLags
    /\ server \in Servers /\ program \in Programs
    /\ probe \in BOOLEAN /\ writable \in BOOLEAN
    /\ chk \in [Checks -> CheckStates]
    /\ run \in RunPlaces
    /\ code \in {"none", "SUCCESS", "PRECONDITION_FAILED", "INTERNAL_ERROR", "BACKUP_FAILED"}

\* What can have gone wrong by the time a run is at each of its steps.
Course ==
    /\ run \in {"replication", "pre_backup", "backup", "post_backup", "pre_purge", "post_run"} =>
          wrong = {}
    /\ run = "failed" => wrong = {"backup"}
    /\ run = "idle" => code = "none"

Busy(c) == chk[c].at \notin {"idle", "over"}

\* A check that believes itself alone is: no other one has begun.
Alone == \A b, c \in Checks : Busy(b) /\ Busy(c) /\ b # c => ~chk[b].alone

\* Between its write and its unlink a check that is alone finds its probe, and
\* in a directory that has not changed, can unlink it.
ProbeThere ==
    \A c \in Checks : chk[c].at = "unlink" /\ chk[c].alone =>
       probe /\ (chk[c].clean => writable)

\* A check that has not changed since it began has asked the server as it is.
Asked ==
    \A c \in Checks :
       chk[c].clean /\ (chk[c].at \in {"write", "unlink", "remote"} \/ chk[c].code = "SUCCESS")
          => chk[c].failed # {} \/ check_replication(server) = "pass"

\* An exit code is given at the end, and SUCCESS only with nothing failed.
Reported ==
    \A c \in Checks :
       /\ chk[c].at = "idle" => chk[c].failed = {}
       /\ chk[c].code # "none" => chk[c].at = "over"
       /\ chk[c].code = "SUCCESS" => chk[c].failed = {}

\* The inductive invariant, in two parts that no action connects: the run
\* command, and the check commands.
RunInv == Course /\ HooksHarmless
CheckInv == Alone /\ ProbeThere /\ Asked /\ Reported /\ FalseAlarm
IInv == TypeOK /\ RunInv /\ CheckInv

-----------------------------------------------------------------------------
(* The run command                                                         *)

\* The steps of run() in their order.
LEMMA AfterFacts ==
    /\ After("replication") = "pre_backup" /\ After("pre_backup") = "backup"
    /\ After("backup") = "post_backup" /\ After("post_backup") = "pre_purge"
    /\ After("pre_purge") = "post_run" /\ After("post_run") = "over" /\ After("failed") = "over"
<1>1. Steps = <<"replication", "pre_backup", "backup", "post_backup", "pre_purge", "post_run">>
  BY DEF Steps
<1>2. ASSUME NEW i \in 1 .. 6
      PROVE  StepNo[Steps[i]] = i
  <2>1. Steps[i] \in {Steps[k] : k \in 1 .. 6}
    OBVIOUS
  <2>2. StepNo[Steps[i]] = CHOOSE k \in 1 .. 6 : Steps[k] = Steps[i]
    BY <2>1 DEF StepNo
  <2>3. \A k \in 1 .. 6 : Steps[k] = Steps[i] => k = i
    BY <1>1
  <2>4. QED
    BY <2>2, <2>3
<1>3. /\ StepNo["replication"] = 1 /\ StepNo["pre_backup"] = 2 /\ StepNo["backup"] = 3
      /\ StepNo["post_backup"] = 4 /\ StepNo["pre_purge"] = 5
  BY <1>1, <1>2
<1>4. QED
  BY <1>1, <1>3 DEF After

\* check_replication raises nothing exactly on a server that can be asked and
\* meets the requirement.
LEMMA ReplicationFacts ==
    ASSUME TypeOK
    PROVE  /\ check_replication(server) \in {"pass", "raise", "escape"}
           /\ check_replication(server) = "pass" <=> server.client = "answers" /\ Meets(server)
           /\ Asks <=> Required
           /\ ~Required => Meets(server)
<1>1. /\ server.client \in {"answers", "unversioned", "garbled", "fails"} /\ server.replica \in BOOLEAN
      /\ server.lag \in Nat \cup {-1}
      /\ max_lag \in Nat /\ mode \in {"off", "require_replica"}
  BY PreconditionsAssumption DEF TypeOK, Servers, Clients, NULL
<1>2. QED
  BY <1>1 DEF check_replication, TooOld, Meets, Asks, Required, NULL

\* run_hook has three results: it raises only what fail_fast asks it to raise, and
\* what it does not handle is marked as unexpected.
LEMMA HookFacts ==
    ASSUME NEW name, NEW outcome \in HookOutcomes, NEW fail_fast \in BOOLEAN, fail_fast <=> name = "pre_backup"
    PROVE  /\ run_hook(outcome, fail_fast) \in {"pass", "raise", "escape"}
           /\ run_hook(outcome, fail_fast) = "pass" => Blame(name, outcome) = {}
           /\ run_hook(outcome, fail_fast) = "raise" =>
                 fail_fast /\ Blame(name, outcome) = {"pre_backup"}
           /\ run_hook(outcome, fail_fast) = "escape" => "unexpected" \in Blame(name, outcome)
  BY DEF run_hook, HandleFailure, Blame, HookOutcomes

\* A step of run() that ends with verdict v.
LEMMA ProceedFacts ==
    ASSUME TypeOK, NEW v \in {"pass", "raise", "escape"}, NEW blame, Proceed(v, blame)
    PROVE  /\ v = "pass" => /\ run' = After(run)
                            /\ run = "post_run" => code' = "SUCCESS"
                            /\ run = "failed" => code' = "BACKUP_FAILED"
                            /\ run \notin {"post_run", "failed"} => code' = code
           /\ v = "raise" => run' = "over" /\ code' = "PRECONDITION_FAILED"
           /\ v = "escape" => run' = "over" /\ code' = "INTERNAL_ERROR"
           /\ wrong' = wrong \cup blame
<1>1. DOMAIN Ending = {"post_run", "failed"} /\ Ending.post_run = "SUCCESS" /\ Ending.failed = "BACKUP_FAILED"
  BY DEF Ending
<1>2. QED
  BY <1>1 DEF Proceed

\* A step that blames nothing when it passes, replication or pre_backup when it
\* raises and the unexpected when it escapes keeps the account.
LEMMA AccountKept ==
    ASSUME TypeOK, RunInv, run \notin {"idle", "over"},
           NEW v \in {"pass", "raise", "escape"}, NEW blame, Proceed(v, blame),
           v = "pass" => blame = {},
           v = "raise" => run \in {"replication", "pre_backup"} /\ blame = {run},
           v = "escape" => "unexpected" \in blame
    PROVE  /\ RunInv' /\ run' \in RunPlaces
           /\ code' \in {"none", "SUCCESS", "PRECONDITION_FAILED", "INTERNAL_ERROR", "BACKUP_FAILED"}
<1> USE DEF RunInv, Course, HooksHarmless, TypeOK, RunPlaces
<1>1. CASE v = "pass"
  <2>1. wrong' = wrong
    BY <1>1, ProceedFacts
  <2>2. QED
    BY <1>1, <2>1, ProceedFacts, AfterFacts
<1>2. CASE v = "raise"
  <2>1. wrong' = {run}
    BY <1>2, ProceedFacts
  <2>2. QED
    BY <1>2, <2>1, ProceedFacts
<1>3. CASE v = "escape"
  <2>1. "unexpected" \in wrong' /\ run' = "over" /\ code' = "INTERNAL_ERROR"
    BY <1>3, ProceedFacts
  <2>2. QED
    BY <2>1
<1>4. QED
  BY <1>1, <1>2, <1>3

\* The steps of run() keep the account of what went wrong.
LEMMA RunStep == TypeOK /\ RunInv /\ (StartRun \/ Run) => RunInv' /\ TypeOK'
<1> SUFFICES ASSUME TypeOK, RunInv, StartRun \/ Run PROVE RunInv' /\ TypeOK'
  OBVIOUS
<1>1. UNCHANGED <<config, world, probe, chk>>
  BY DEF StartRun, Run, Replication, Hook, Proceed, Backup, FailedPostRun
<1>2. SUFFICES RunInv' /\ run' \in RunPlaces
               /\ code' \in {"none", "SUCCESS", "PRECONDITION_FAILED", "INTERNAL_ERROR", "BACKUP_FAILED"}
  BY <1>1 DEF TypeOK, config, world
<1> USE DEF RunInv, Course, HooksHarmless, TypeOK, RunPlaces
<1>3. CASE StartRun
  BY <1>3 DEF StartRun
<1>4. CASE Replication
  <2>1. PICK v \in {"pass", "raise", "escape"}, blame \in SUBSET {"replication", "unexpected"} :
           /\ Proceed(v, blame) /\ run = "replication"
           /\ v = "pass" => blame = {}
           /\ v = "raise" => blame = {"replication"}
           /\ v = "escape" => "unexpected" \in blame
    BY <1>4, ReplicationFacts DEF Replication
  <2>2. QED
    BY <1>1, <2>1, AccountKept
<1>5. CASE Backup
  <2>1. CASE Proceed("pass", {})
    BY <1>5, <2>1, AccountKept DEF Backup
  <2>2. CASE Proceed("escape", {"backup", "unexpected"})
    BY <1>5, <2>2, AccountKept DEF Backup
  <2>3. CASE run' = "failed" /\ wrong' = wrong \cup {"backup"} /\ code' = code
    BY <1>5, <2>3 DEF Backup
  <2>4. QED
    BY <1>5, <2>1, <2>2, <2>3 DEF Backup
<1>6. ASSUME NEW name \in {"pre_backup", "post_backup", "pre_purge", "post_run"},
             NEW outcome \in HookOutcomes, run = name \/ (name = "post_run" /\ run = "failed"),
             Proceed(run_hook(outcome, name = "pre_backup"), Blame(name, outcome))
      PROVE  RunInv' /\ run' \in RunPlaces
             /\ code' \in {"none", "SUCCESS", "PRECONDITION_FAILED", "INTERNAL_ERROR", "BACKUP_FAILED"}
  <2>1. /\ run_hook(outcome, name = "pre_backup") \in {"pass", "raise", "escape"}
        /\ run_hook(outcome, name = "pre_backup") = "pass" => Blame(name, outcome) = {}
        /\ run_hook(outcome, name = "pre_backup") = "raise" =>
              name = "pre_backup" /\ Blame(name, outcome) = {"pre_backup"}
        /\ run_hook(outcome, name = "pre_backup") = "escape" => "unexpected" \in Blame(name, outcome)
    BY HookFacts
  <2>2. run \notin {"idle", "over"} /\ (name = "pre_backup" => run = name)
    BY <1>6
  <2>3. QED
    BY <1>6, <2>1, <2>2, AccountKept
<1>7. CASE FailedPostRun \/ Hook("pre_backup", TRUE)
  BY <1>6, <1>7 DEF FailedPostRun, Hook
<1>8. ASSUME NEW name \in {"post_backup", "pre_purge", "post_run"}, Hook(name, FALSE)
      PROVE  RunInv' /\ run' \in RunPlaces
             /\ code' \in {"none", "SUCCESS", "PRECONDITION_FAILED", "INTERNAL_ERROR", "BACKUP_FAILED"}
  BY <1>6, <1>8 DEF Hook
<1>9. QED
  BY <1>2, <1>3, <1>4, <1>5, <1>7, <1>8 DEF Run

-----------------------------------------------------------------------------
(* The check commands                                                      *)

Others(c) ==
    /\ \A b \in Checks \ {c} : chk'[b] = chk[b]
    /\ UNCHANGED <<mode, max_lag, server, program, writable, run, code, wrong>>

\* Check c goes on, or gives its report or ends with an exception; the other
\* checks, the server, the program and the disk are as they were.
LEMMA CheckFacts ==
    ASSUME TypeOK, NEW c \in Checks, NEW place \in CheckPlaces, NEW bad \in SUBSET {"local", "other"},
           Check(c, place, bad)
    PROVE  /\ chk' \in [Checks -> CheckStates] /\ Others(c)
           /\ chk'[c].at = place /\ chk'[c].failed = chk[c].failed \cup bad
           /\ chk'[c].code = chk[c].code /\ chk'[c].clean = chk[c].clean /\ chk'[c].alone = chk[c].alone
<1>1. chk[c] \in CheckStates /\ chk \in [Checks -> CheckStates]
  BY DEF TypeOK
<1>2. chk' = [chk EXCEPT ![c] = [chk[c] EXCEPT !.at = place, !.failed = @ \cup bad]]
  BY DEF Check
<1>3. [chk[c] EXCEPT !.at = place, !.failed = @ \cup bad] \in CheckStates
  BY <1>1 DEF CheckStates
<1>4. QED
  BY <1>1, <1>2, <1>3 DEF Check, Others, CheckStates, config, world

\* The same at the end of check c.
LEMMA ReportFacts ==
    ASSUME TypeOK, NEW c \in Checks, NEW bad \in SUBSET {"local", "other"}, Report(c, bad)
    PROVE  /\ chk' \in [Checks -> CheckStates] /\ Others(c)
           /\ chk'[c].at = "over" /\ chk'[c].failed = chk[c].failed \cup bad
           /\ chk'[c].code = Verdict(chk[c].failed \cup bad)
           /\ chk'[c].clean = chk[c].clean /\ chk'[c].alone = chk[c].alone
<1>1. chk[c] \in CheckStates /\ chk \in [Checks -> CheckStates]
  BY DEF TypeOK
<1>2. chk' = [chk EXCEPT ![c] = [chk[c] EXCEPT !.at = "over", !.failed = @ \cup bad,
                                               !.code = Verdict(chk[c].failed \cup bad)]]
  BY DEF Report
<1>3. Verdict(chk[c].failed \cup bad) \in {"SUCCESS", "PRECONDITION_FAILED"}
  BY DEF Verdict
<1>4. [chk[c] EXCEPT !.at = "over", !.failed = @ \cup bad,
                     !.code = Verdict(chk[c].failed \cup bad)] \in CheckStates
  BY <1>1, <1>3 DEF CheckStates, CheckPlaces
<1>5. QED
  BY <1>1, <1>2, <1>4 DEF Report, Others, CheckStates, config, world

\* The same when check c ends with an exception.
LEMMA EscapeFacts ==
    ASSUME TypeOK, NEW c \in Checks, Escapes(c)
    PROVE  /\ chk' \in [Checks -> CheckStates] /\ Others(c)
           /\ chk'[c].at = "over" /\ chk'[c].code = "INTERNAL_ERROR" /\ chk'[c].failed = chk[c].failed
           /\ chk'[c].clean = chk[c].clean /\ chk'[c].alone = chk[c].alone
<1>1. chk[c] \in CheckStates /\ chk \in [Checks -> CheckStates]
  BY DEF TypeOK
<1>2. chk' = [chk EXCEPT ![c] = [chk[c] EXCEPT !.at = "over", !.code = "INTERNAL_ERROR"]]
  BY DEF Escapes
<1>3. [chk[c] EXCEPT !.at = "over", !.code = "INTERNAL_ERROR"] \in CheckStates
  BY <1>1 DEF CheckStates, CheckPlaces
<1>4. QED
  BY <1>1, <1>2, <1>3 DEF Escapes, Others, CheckStates, config, world

\* What is known of one check; FalseAlarm, ProbeThere, Asked and Reported say it
\* of every one.
OneCheck(c) ==
    /\ "local" \in chk[c].failed /\ chk[c].clean /\ chk[c].alone => ~writable
    /\ chk[c].at = "unlink" /\ chk[c].alone => probe /\ (chk[c].clean => writable)
    /\ chk[c].clean /\ (chk[c].at \in {"write", "unlink", "remote"} \/ chk[c].code = "SUCCESS")
          => chk[c].failed # {} \/ check_replication(server) = "pass"
    /\ chk[c].at = "idle" => chk[c].failed = {}
    /\ chk[c].code # "none" => chk[c].at = "over"
    /\ chk[c].code = "SUCCESS" => chk[c].failed = {}

\* The invariant of the checks, check by check.
LEMMA OneByOne == CheckInv <=> Alone /\ \A c \in Checks : OneCheck(c)
  BY DEF CheckInv, OneCheck, FalseAlarm, ProbeThere, Asked, Reported

\* A step of check c that leaves the probe, or removes it while c is at work,
\* disturbs no check that is alone.
LEMMA OthersKeep ==
    ASSUME TypeOK, CheckInv, NEW c \in Checks, Others(c), Busy(c),
           chk'[c].alone = chk[c].alone, probe' \in BOOLEAN, chk' \in [Checks -> CheckStates]
    PROVE  /\ TypeOK' /\ Alone' /\ RunInv' = RunInv
           /\ \A b \in Checks \ {c} : OneCheck(b)'
<1>1. TypeOK'
  BY DEF TypeOK, Others
<1>2. Alone'
  BY DEF CheckInv, Alone, Busy, Others
<1>3. check_replication(server)' = check_replication(server)
  BY DEF Others, check_replication, TooOld
<1>4. RunInv' = RunInv
  BY DEF Others, RunInv, Course, HooksHarmless
<1>5. ASSUME NEW b \in Checks \ {c}
      PROVE  OneCheck(b)'
  <2>1. chk[b].at = "unlink" => ~chk[b].alone
    BY DEF CheckInv, Alone, Busy
  <2>2. OneCheck(b)
    BY OneByOne
  <2>3. QED
    BY <1>3, <2>1, <2>2 DEF OneCheck, Others
<1>6. QED
  BY <1>1, <1>2, <1>4, <1>5

\* A step of check c.
LEMMA CheckStep ==
    ASSUME TypeOK, CheckInv, NEW c \in Checks,
           \/ Version(c) \/ CheckReplication(c) \/ ProbeWrite(c) \/ ProbeUnlink(c) \/ ProbeRemote(c)
    PROVE  TypeOK' /\ CheckInv' /\ RunInv' = RunInv
<1> DEFINE Moved == /\ Others(c) /\ Busy(c) /\ chk'[c].alone = chk[c].alone
                    /\ probe' \in BOOLEAN /\ chk' \in [Checks -> CheckStates]
<1>1. SUFFICES Moved /\ OneCheck(c)'
  BY OthersKeep DEF CheckInv, OneCheck, FalseAlarm, ProbeThere, Asked, Reported
<1>2. chk[c] \in CheckStates /\ OneCheck(c) /\ probe \in BOOLEAN
  BY OneByOne DEF TypeOK
<1>3. CASE Version(c)
  <2>1. CASE Escapes(c)
    BY <1>2, <1>3, <2>1, EscapeFacts DEF Version, OneCheck, Busy, Others, CheckStates
  <2>2. ASSUME NEW bad \in SUBSET {"local", "other"}, "local" \notin bad,
               Check(c, "replication", bad), chk[c].at = "version", UNCHANGED probe
        PROVE  Moved /\ OneCheck(c)'
    <3>1. Moved
      BY <1>2, <2>2, CheckFacts DEF Busy, CheckPlaces
    <3>2. chk'[c].at = "replication" /\ chk'[c].code = "none" /\ writable' = writable
          /\ ("local" \in chk'[c].failed <=> "local" \in chk[c].failed)
          /\ chk'[c].clean = chk[c].clean /\ chk'[c].alone = chk[c].alone
      BY <1>2, <2>2, CheckFacts DEF OneCheck, Others, CheckPlaces
    <3>3. QED
      BY <1>2, <3>1, <3>2 DEF OneCheck
  <2>3. QED
    BY <1>3, <2>1, <2>2 DEF Version
<1>4. CASE CheckReplication(c)
  <2>1. chk[c].at = "replication" /\ UNCHANGED probe
    BY <1>4 DEF CheckReplication
  <2>2. CASE Escapes(c)
    BY <1>2, <2>1, <2>2, EscapeFacts DEF OneCheck, Busy, Others, CheckStates
  <2>3. ASSUME NEW bad \in SUBSET {"local", "other"}, Check(c, "write", bad), "local" \notin bad,
               bad = {} => check_replication(server) = "pass"
        PROVE  Moved /\ OneCheck(c)'
    <3>1. check_replication(server)' = check_replication(server)
      BY <2>3, CheckFacts DEF Others, check_replication, TooOld, CheckPlaces
    <3>2. QED
      BY <1>2, <2>1, <2>3, <3>1, CheckFacts DEF OneCheck, Busy, Others, CheckStates, CheckPlaces
  <2>4. QED
    BY <1>4, <2>2, <2>3, ReplicationFacts DEF CheckReplication, CheckAsks
<1>5. CASE ProbeWrite(c)
  <2>1. PICK place \in {"unlink", "remote"}, bad \in SUBSET {"local", "other"} :
           /\ Check(c, place, bad) /\ chk[c].at = "write"
           /\ \/ place = "unlink" /\ bad = {} /\ writable /\ probe' = TRUE
              \/ place = "remote" /\ bad = {"local"} /\ ~writable /\ probe' = probe
    BY <1>5 DEF ProbeWrite, Writes
  <2>2. check_replication(server)' = check_replication(server)
    BY <2>1, CheckFacts DEF Others, check_replication, TooOld, CheckPlaces
  <2>3. Moved
    BY <1>2, <2>1, CheckFacts DEF Busy, CheckPlaces
  <2>4. /\ chk'[c].at = place /\ chk'[c].code = "none" /\ chk'[c].failed = chk[c].failed \cup bad
        /\ writable' = writable
        /\ chk'[c].clean = chk[c].clean /\ chk'[c].alone = chk[c].alone
    BY <1>2, <2>1, CheckFacts DEF OneCheck, Others, CheckPlaces
  <2>5. QED
    BY <1>2, <2>1, <2>2, <2>3, <2>4 DEF OneCheck
<1>6. CASE ProbeUnlink(c)
  <2>1. PICK bad \in SUBSET {"local", "other"} :
           /\ Check(c, "remote", bad) /\ chk[c].at = "unlink" /\ probe' \in BOOLEAN
           /\ \/ bad = {}
              \/ bad = {"local"} /\ ~(probe /\ writable)
    BY <1>2, <1>6 DEF ProbeUnlink, Unlinks
  <2>2. check_replication(server)' = check_replication(server)
    BY <2>1, CheckFacts DEF Others, check_replication, TooOld, CheckPlaces
  <2>3. QED
    BY <1>2, <2>1, <2>2, CheckFacts DEF OneCheck, Busy, Others, CheckStates, CheckPlaces
<1>7. CASE ProbeRemote(c)
  <2>1. chk[c].at = "remote" /\ UNCHANGED probe
    BY <1>7 DEF ProbeRemote
  <2>2. CASE Escapes(c)
    BY <1>2, <2>1, <2>2, EscapeFacts DEF OneCheck, Busy, Others, CheckStates
  <2>3. ASSUME NEW bad \in SUBSET {"local", "other"}, Report(c, bad), "local" \notin bad
        PROVE  Moved /\ OneCheck(c)'
    <3>1. check_replication(server)' = check_replication(server)
      BY <2>3, ReportFacts DEF Others, check_replication, TooOld
    <3>2. QED
      BY <1>2, <2>1, <2>3, <3>1, ReportFacts DEF OneCheck, Busy, Others, CheckStates, Verdict
  <2>4. QED
    BY <1>7, <2>2, <2>3 DEF ProbeRemote
<1>8. QED
  BY <1>3, <1>4, <1>5, <1>6, <1>7

\* A new check is alone only if none is at work, and takes that from the others.
LEMMA StartCheckStep ==
    ASSUME TypeOK, CheckInv, NEW c \in Checks, StartCheck(c)
    PROVE  TypeOK' /\ CheckInv' /\ RunInv' = RunInv
<1> DEFINE busy == {b \in Checks : chk[b].at \notin {"idle", "over"}}
<1>1. chk \in [Checks -> CheckStates] /\ chk[c].at \in {"idle", "over"}
  BY DEF TypeOK, StartCheck
<1>2. UNCHANGED <<mode, max_lag, server, program, writable, probe, run, code, wrong>>
  BY DEF StartCheck, config, world
<1>3. [Idle EXCEPT !.at = "version", !.alone = busy = {}] \in CheckStates
  BY DEF Idle, CheckStates, CheckPlaces
<1>4. \A b \in Checks : [chk[b] EXCEPT !.alone = FALSE] \in CheckStates
  BY <1>1 DEF CheckStates
<1>5. chk' = [b \in Checks |-> IF b = c THEN [Idle EXCEPT !.at = "version", !.alone = busy = {}]
                               ELSE IF b \in busy THEN [chk[b] EXCEPT !.alone = FALSE]
                               ELSE chk[b]]
  BY DEF StartCheck
<1>6. TypeOK'
  BY <1>1, <1>2, <1>3, <1>4, <1>5 DEF TypeOK
<1>7. /\ chk'[c].at = "version" /\ chk'[c].failed = {} /\ chk'[c].code = "none"
      /\ (chk'[c].alone => busy = {})
  BY <1>5 DEF Idle
<1>8. ASSUME NEW b \in Checks \ {c}
      PROVE  /\ chk'[b].at = chk[b].at /\ chk'[b].failed = chk[b].failed
             /\ chk'[b].code = chk[b].code /\ chk'[b].clean = chk[b].clean
             /\ (chk'[b].alone => chk[b].alone /\ b \notin busy)
  <2>1. chk[b] \in CheckStates
    BY <1>1
  <2>2. CASE b \in busy
    <3>1. chk'[b] = [chk[b] EXCEPT !.alone = FALSE]
      BY <1>5, <2>2
    <3>2. QED
      BY <2>1, <3>1 DEF CheckStates
  <2>3. CASE b \notin busy
    <3>1. chk'[b] = chk[b]
      BY <1>5, <2>3
    <3>2. QED
      BY <2>3, <3>1
  <2>4. QED
    BY <2>2, <2>3
<1>9. Alone'
  BY <1>7, <1>8 DEF Alone, Busy
<1>10. check_replication(server)' = check_replication(server)
  BY <1>2 DEF check_replication, TooOld
<1>11. ASSUME NEW b \in Checks
       PROVE  OneCheck(b)'
  <2>1. CASE b = c
    BY <1>7, <2>1 DEF OneCheck
  <2>2. CASE b # c
    <3>1. OneCheck(b)
      BY OneByOne
    <3>2. QED
      BY <1>2, <1>8, <1>10, <2>2, <3>1 DEF OneCheck
  <2>3. QED
    BY <2>1, <2>2
<1>12. RunInv' = RunInv
  BY <1>2 DEF RunInv, Course, HooksHarmless
<1>13. QED
  BY <1>6, <1>9, <1>11, <1>12 DEF CheckInv, OneCheck, FalseAlarm, ProbeThere, Asked, Reported

\* After a change no check that has begun is clean.
LEMMA ChangeStep ==
    ASSUME TypeOK, CheckInv, Change
    PROVE  TypeOK' /\ CheckInv' /\ RunInv' = RunInv
<1>1. chk \in [Checks -> CheckStates]
  BY DEF TypeOK
<1>2. UNCHANGED <<mode, max_lag, probe, run, code, wrong>>
  BY DEF Change, config
<1>3. server' \in Servers /\ program' \in Programs /\ writable' \in BOOLEAN
  BY DEF Change, TypeOK
<1>4. Idle \in CheckStates
  BY DEF Idle, CheckStates, CheckPlaces
<1>5. \A c \in Checks : [chk[c] EXCEPT !.clean = chk[c].at = "idle"] \in CheckStates
  BY <1>1 DEF CheckStates
<1>6. chk' = [c \in Checks |-> IF chk[c].at = "over" THEN Idle
                               ELSE [chk[c] EXCEPT !.clean = chk[c].at = "idle"]]
  BY DEF Change
<1>7. TypeOK'
  BY <1>1, <1>2, <1>3, <1>4, <1>5, <1>6 DEF TypeOK
<1>8. ASSUME NEW c \in Checks, chk[c].at = "over"
      PROVE  chk'[c].at = "idle" /\ chk'[c].failed = {} /\ chk'[c].code = "none"
  BY <1>6, <1>8 DEF Idle
<1>9. ASSUME NEW c \in Checks, chk[c].at # "over"
      PROVE  /\ chk'[c].at = chk[c].at /\ chk'[c].failed = chk[c].failed
             /\ chk'[c].code = chk[c].code /\ chk'[c].alone = chk[c].alone
             /\ (chk'[c].clean => chk[c].at = "idle")
  BY <1>1, <1>6, <1>9 DEF CheckStates
<1>10. Alone'
  BY <1>8, <1>9 DEF CheckInv, Alone, Busy
<1>11. ASSUME NEW c \in Checks
       PROVE  OneCheck(c)'
  <2>1. OneCheck(c)
    BY OneByOne
  <2>2. QED
    BY <1>2, <1>8, <1>9, <2>1 DEF OneCheck
<1>12. RunInv' = RunInv
  BY <1>2 DEF RunInv, Course, HooksHarmless
<1>13. QED
  BY <1>7, <1>10, <1>11, <1>12 DEF CheckInv, OneCheck, FalseAlarm, ProbeThere, Asked, Reported

-----------------------------------------------------------------------------
(* The invariant, and what follows from it                                 *)

\* Before the first command.
LEMMA InitInv == Init => IInv
<1>1. SUFFICES ASSUME Init PROVE IInv
  OBVIOUS
<1>2. Idle \in CheckStates
  BY DEF Idle, CheckStates, CheckPlaces
<1>3. TypeOK
  BY <1>1, <1>2 DEF Init, TypeOK, RunPlaces, Programs
<1>4. RunInv
  BY <1>1 DEF Init, RunInv, Course, HooksHarmless
<1>5. \A c \in Checks : chk[c].at = "idle" /\ chk[c].failed = {} /\ chk[c].code = "none"
  BY <1>1 DEF Init, Idle
<1>6. CheckInv
  BY <1>5 DEF CheckInv, Alone, Busy, ProbeThere, Asked, Reported, FalseAlarm
<1>7. QED
  BY <1>3, <1>4, <1>6 DEF IInv

\* Every step keeps the invariant.
LEMMA StepInv == IInv /\ [Next]_vars => IInv'
<1>1. SUFFICES ASSUME IInv, [Next]_vars PROVE IInv'
  OBVIOUS
<1>2. CASE StartRun \/ Run
  <2>1. RunInv' /\ TypeOK'
    BY <1>1, <1>2, RunStep DEF IInv
  <2>2. UNCHANGED <<mode, max_lag, server, program, writable, probe, chk>>
    BY <1>2 DEF StartRun, Run, Replication, Hook, Proceed, Backup, FailedPostRun, config, world
  <2>3. CheckInv'
    BY <1>1, <2>2 DEF IInv, CheckInv, Alone, Busy, ProbeThere, Asked, Reported, FalseAlarm,
                      check_replication, TooOld
  <2>4. QED
    BY <2>1, <2>3 DEF IInv
<1>3. CASE Change
  BY <1>1, <1>3, ChangeStep DEF IInv
<1>4. ASSUME NEW c \in Checks,
             \/ StartCheck(c) \/ Version(c) \/ CheckReplication(c)
             \/ ProbeWrite(c) \/ ProbeUnlink(c) \/ ProbeRemote(c)
      PROVE  IInv'
  BY <1>1, <1>4, StartCheckStep, CheckStep DEF IInv
<1>5. CASE UNCHANGED vars
  BY <1>1, <1>5 DEF vars, config, world, IInv, TypeOK, RunInv, Course, HooksHarmless, CheckInv, Alone,
                    Busy, ProbeThere, Asked, Reported, FalseAlarm, check_replication, TooOld
<1>6. QED
  BY <1>1, <1>2, <1>3, <1>4, <1>5 DEF Next

\* The invariant holds throughout.
LEMMA Invariant == Spec => []IInv
  BY InitInv, StepInv, PTL DEF Spec

\* The exit code of a run is the one its replication step, pre_backup and its
\* backup call for; later hooks change it only by what run_hook does not handle.
THEOREM HookFailuresContained == Spec => []HooksHarmless
<1>1. IInv => HooksHarmless
  BY DEF IInv, RunInv
<1>2. QED
  BY <1>1, Invariant, PTL

\* LocalDestination.check blames a good directory only when checks overlap.
THEOREM AlarmExplained == Spec => []FalseAlarm
<1>1. IInv => FalseAlarm
  BY DEF IInv, CheckInv
<1>2. QED
  BY <1>1, Invariant, PTL

\* The replication step of a run lets exactly the right servers pass.
THEOREM ReplicationGate == Spec => GateExact
<1>1. IInv /\ [Next]_vars =>
        [run = "replication" /\ run' # run =>
           (run' = "pre_backup" <=> (Required => server.client = "answers") /\ Meets(server))]_vars
  <2>1. SUFFICES ASSUME IInv, [Next]_vars, run = "replication", run' # run
                 PROVE  run' = "pre_backup" <=> (Required => server.client = "answers") /\ Meets(server)
    OBVIOUS
  <2>2. Replication
    BY <2>1 DEF Next, vars, StartRun, Run, Hook, Backup, FailedPostRun, Change, StartCheck, Version,
                CheckReplication, ProbeWrite, ProbeUnlink, ProbeRemote, Check, Report, Escapes
  <2>3. PICK v \in {"pass", "raise", "escape"}, blame \in SUBSET {"replication", "unexpected"} :
           Proceed(v, blame) /\ v = IF Required THEN check_replication(server) ELSE "pass"
    BY <2>1, <2>2, ReplicationFacts DEF Replication, IInv
  <2>4. run' = "pre_backup" <=> v = "pass"
    BY <2>1, <2>3, ProceedFacts, AfterFacts DEF IInv
  <2>5. QED
    BY <2>1, <2>3, <2>4, ReplicationFacts DEF IInv
<1>2. QED
  BY <1>1, Invariant, PTL DEF Spec, GateExact

\* What a check has found about the server, the next run finds too.
THEOREM CheckForetellsRun == Spec => CheckPredictsRun
<1>1. IInv /\ [Next]_vars =>
        [run = "replication" /\ run' = "over" =>
           \A c \in Checks : chk[c].at = "over" /\ chk[c].clean => chk[c].code # "SUCCESS"]_vars
  <2>1. SUFFICES ASSUME IInv, [Next]_vars, run = "replication", run' = "over"
                 PROVE  \A c \in Checks : chk[c].clean => chk[c].code # "SUCCESS"
    OBVIOUS
  <2>2. Replication
    BY <2>1 DEF Next, vars, StartRun, Run, Hook, Backup, FailedPostRun, Change, StartCheck, Version,
                CheckReplication, ProbeWrite, ProbeUnlink, ProbeRemote, Check, Report, Escapes
  <2>3. PICK v \in {"pass", "raise", "escape"}, blame \in SUBSET {"replication", "unexpected"} :
           Proceed(v, blame) /\ v = IF Required THEN check_replication(server) ELSE "pass"
    BY <2>1, <2>2, ReplicationFacts DEF Replication, IInv
  <2>4. check_replication(server) # "pass"
    BY <2>1, <2>3, ProceedFacts, AfterFacts DEF IInv
  <2>5. QED
    BY <2>1, <2>4 DEF IInv, CheckInv, Asked, Reported
<1>2. QED
  BY <1>1, Invariant, PTL DEF Spec, CheckPredictsRun
==============================================================================
