---------------------------- MODULE ExecutorProofs ----------------------------
(***************************************************************************)
(* CompleteAndQuiet and NoChildLeft for any number of runs, with and       *)
(* without prepare, a timeout and a wrapper.                               *)
(***************************************************************************)
EXTENDS Executor, TLAPS

\* Runs that have not begun have nothing.
Future ==
    \A r \in Runs : r > run =>
       ~Alive(r) /\ r \notin helper /\ done[r] = {} /\ phase[r] = "backup"

\* A run is under way from its launch to its end, and has no code before.
Course ==
    /\ pc # "idle" => run \in Runs
    /\ pc \notin {"idle", "over"} => code = "none"
    /\ code = "SUCCESS" => pc = "over"
    /\ code = "CRASHED" => pc = "idle"

\* What the parent will read in the verdict is the result of the current phase.
Fresh ==
    pc \in Waiting \cup {"log", "verdict"} /\ ~Alive(run)
       => (result[run].zero /\ result[run].marker => phase[run] \in done[run])

Prepared == \A r \in Runs : phase[r] = "prepare" => "backup" \in done[r]

Finished == code = "SUCCESS" => done[run] = Phases /\ EndOfFile

\* The inductive invariant.
IInv == TypeOK /\ Future /\ Course /\ NoChildLeft /\ Fresh /\ Prepared /\ Finished

-----------------------------------------------------------------------------
(* Facts about the constants                                               *)

\* Every run begins with --backup, and goes on to --prepare only if configured.
LEMMA PhaseFacts ==
    /\ Phases \subseteq {"backup", "prepare"}
    /\ "backup" \in Phases
    /\ Prepare => Phases = {"backup", "prepare"}
    /\ ~Prepare => Phases = {"backup"}
  BY ExecutorAssumption DEF Phases

-----------------------------------------------------------------------------
(* The invariant is inductive                                              *)

\* A first run finds nothing.
LEMMA InitInv == Init => IInv
<1>1. SUFFICES ASSUME Init PROVE IInv
  OBVIOUS
<1>2. TypeOK
  <2>1. [zero |-> FALSE, marker |-> FALSE, text |-> TRUE] \in Results
    BY DEF Results
  <2>2. result \in [Runs -> Results] /\ phase \in [Runs -> Phases]
    BY <1>1, <2>1, PhaseFacts DEF Init
  <2>3. run \in 0..MaxRuns /\ helper \subseteq Runs /\ done \in [Runs -> SUBSET Phases]
        /\ child \in [Runs -> {"none", "runs", "term", "kill"}]
    BY <1>1, ExecutorAssumption DEF Init
  <2>4. QED
    BY <1>1, <2>2, <2>3 DEF Init, TypeOK
<1>3. Future /\ Course /\ NoChildLeft /\ Fresh /\ Prepared /\ Finished
  BY <1>1, ExecutorAssumption
  DEF Init, Future, Course, NoChildLeft, Fresh, Prepared, Finished, Runs, Waiting, Alive
<1>4. QED
  BY <1>2, <1>3 DEF IInv

\* A new run has a directory and a child of its own.
LEMMA BeginInv == IInv /\ Begin => IInv'
<1>1. SUFFICES ASSUME IInv, Begin PROVE IInv'
  OBVIOUS
<1>2. run' \in Runs /\ run' > run /\ pc' = "launch" /\ code' = "none"
  BY <1>1, ExecutorAssumption DEF IInv, TypeOK, Begin, Runs
<1>3. TypeOK'
  BY <1>1, <1>2 DEF IInv, TypeOK, Begin, Runs, Waiting
<1>4. EndOfFile'
  BY <1>1, <1>2 DEF IInv, Future, Begin, EndOfFile, Alive
<1>5. Future' /\ Course' /\ NoChildLeft' /\ Fresh' /\ Prepared' /\ Finished'
  BY <1>1, <1>2, <1>4, ExecutorAssumption
  DEF IInv, TypeOK, Begin, Future, Course, NoChildLeft, Fresh, Prepared, Finished, Alive, Waiting,
      Runs
<1>6. QED
  BY <1>3, <1>5 DEF IInv

\* _execute: the steps of the parent before communicate() returns.
LEMMA LaunchInv == IInv /\ (Launch \/ Expire \/ ExpireGrace) => IInv'
<1>1. SUFFICES ASSUME IInv, Launch \/ Expire \/ ExpireGrace PROVE IInv'
  OBVIOUS
<1>2. run \in Runs /\ code = "none" /\ run' = run /\ UNCHANGED <<phase, result, done>>
  BY <1>1 DEF IInv, Course, Launch, Expire, ExpireGrace, Waiting
<1>3. TypeOK'
  BY <1>1, <1>2, ExecutorAssumption
  DEF IInv, TypeOK, Launch, Expire, ExpireGrace, Signalled, AfterGrace, LaunchErrors, LaunchError, Over,
      Waiting
<1>4. Future' /\ Prepared'
  BY <1>1, <1>2, ExecutorAssumption
  DEF IInv, TypeOK, Future, Prepared, Alive, Launch, Expire, ExpireGrace, Signalled, AfterGrace,
      Runs, Over
<1>5. Course' /\ Finished'
  BY <1>1, <1>2
  DEF IInv, Course, Finished, Launch, Expire, ExpireGrace, Over, LaunchErrors, LaunchError, Waiting
<1>6. NoChildLeft'
  BY <1>1, <1>2
  DEF IInv, NoChildLeft, EndOfFile, Alive, Launch, Expire, ExpireGrace, Over, LaunchErrors, LaunchError,
      Waiting
<1>7. Fresh'
  BY <1>1, <1>2
  DEF IInv, TypeOK, Fresh, Alive, Launch, Expire, ExpireGrace, Signalled, AfterGrace, Over, Waiting
<1>8. QED
  BY <1>3, <1>4, <1>5, <1>6, <1>7 DEF IInv

\* _execute after communicate(), and the kill of the parent.
LEMMA ReturnInv == IInv /\ (Returned \/ Log \/ Verdict \/ Crash) => IInv'
<1>1. SUFFICES ASSUME IInv, Returned \/ Log \/ Verdict \/ Crash PROVE IInv'
  OBVIOUS
<1>2. /\ run \in Runs /\ code = "none" /\ run' = run
      /\ UNCHANGED <<child, result, helper, done, late>>
  BY <1>1 DEF IInv, Course, Returned, Log, Verdict, Crash, Waiting
<1>3. \/ phase' = phase
      \/ /\ Verdict /\ Succeeded /\ Prepare /\ phase[run] = "backup" /\ pc' = "launch"
         /\ phase' = [phase EXCEPT ![run] = "prepare"]
  BY <1>1 DEF Returned, Log, Verdict, Crash
<1>4. TypeOK'
  BY <1>1, <1>2, <1>3, PhaseFacts
  DEF IInv, TypeOK, Returned, Log, Verdict, Crash, Over, Waiting
<1>5. Verdict /\ Succeeded => phase[run] \in done[run] /\ EndOfFile
  BY <1>1, <1>2 DEF IInv, Fresh, NoChildLeft, EndOfFile, Alive, Verdict, Succeeded, Waiting
<1>6. Future' /\ Prepared'
  BY <1>1, <1>2, <1>3, <1>5 DEF IInv, TypeOK, Future, Prepared, Alive, Runs
<1>7. Course' /\ NoChildLeft'
  BY <1>1, <1>2
  DEF IInv, Course, NoChildLeft, EndOfFile, CanReturn, Alive, Returned, Log, Verdict, Crash, Over,
      Waiting
<1>8. Fresh'
  BY <1>1, <1>2, <1>3
  DEF IInv, Fresh, Alive, Returned, Log, Verdict, Crash, Over, Waiting
<1>9. Finished'
  <2>1. SUFFICES ASSUME code' = "SUCCESS" PROVE done[run] = Phases /\ EndOfFile
    BY <1>2 DEF Finished, EndOfFile, Alive
  <2>2. Verdict /\ Succeeded /\ ~(Prepare /\ phase[run] = "backup")
    BY <1>1, <1>2, <2>1 DEF Returned, Log, Verdict, Crash, Over
  <2>3. EndOfFile /\ phase[run] \in done[run] /\ phase[run] \in Phases /\ done[run] \subseteq Phases
    BY <1>1, <1>2, <1>5, <2>2 DEF IInv, TypeOK
  <2>4. phase[run] = "prepare" => "backup" \in done[run]
    BY <1>1, <1>2 DEF IInv, Prepared
  <2>5. QED
    BY <2>2, <2>3, <2>4, PhaseFacts
<1>10. QED
  BY <1>4, <1>6, <1>7, <1>8, <1>9 DEF IInv

\* mariabackup, its helper and the kernel: only the child that is waited for, or
\* one that a killed run has left, can do anything.
LEMMA ChildInv ==
    ASSUME IInv, NEW r \in Runs, ChildEnds(r) \/ ChildKilled(r) \/ HelperEnds(r)
    PROVE  IInv'
<1>1. UNCHANGED <<pc, run, late, code, phase>>
  BY DEF ChildEnds, ChildKilled, HelperEnds, Ended
<1>2. PICK work \in {done[r], done[r] \cup {phase[r]}} : done' = [done EXCEPT ![r] = work]
  BY DEF ChildEnds, ChildKilled, HelperEnds, IInv, TypeOK
<1>3. Alive(r) \/ r \in helper
  BY DEF ChildEnds, ChildKilled, HelperEnds, Alive
<1>4. /\ child' = child \/ child' = [child EXCEPT ![r] = "none"]
      /\ helper' \subseteq helper
  BY DEF ChildEnds, ChildKilled, HelperEnds, Ended
<1>5. result' = result \/ \E res \in Results : result' = [result EXCEPT ![r] = res]
  BY DEF ChildEnds, ChildKilled, HelperEnds, Ended
<1>6. TypeOK'
  BY <1>1, <1>2, <1>4, <1>5 DEF IInv, TypeOK
<1>7. ~(r > run)
  BY <1>3 DEF IInv, Future
<1>8. Future' /\ Prepared' /\ Course'
  BY <1>1, <1>2, <1>4, <1>7 DEF IInv, TypeOK, Future, Prepared, Course, Alive
<1>9. r = run => pc \in Waiting \/ code = "CRASHED"
  BY <1>3 DEF IInv, NoChildLeft, EndOfFile
<1>10. NoChildLeft' /\ Finished'
  BY <1>1, <1>2, <1>4, <1>9
  DEF IInv, TypeOK, Course, NoChildLeft, Finished, EndOfFile, Alive, Waiting
<1>11. Fresh'
  <2>1. SUFFICES ASSUME pc \in Waiting \cup {"log", "verdict"}, ~Alive(run)',
                        result'[run].zero, result'[run].marker
                 PROVE  phase[run] \in done'[run]
    BY <1>1 DEF Fresh
  <2>2. run \in Runs
    BY <2>1 DEF IInv, Course, Waiting
  <2>3. CASE r = run /\ ChildEnds(r)
    BY <2>2, <2>3, <2>1 DEF ChildEnds, Ended, IInv, TypeOK
  <2>4. CASE r = run /\ ChildKilled(r)
    BY <2>2, <2>4, <2>1 DEF ChildKilled, Ended, IInv, TypeOK
  <2>5. CASE r # run \/ HelperEnds(r)
    <3>1. child'[run] = child[run] /\ result'[run] = result[run]
      BY <2>2, <2>5 DEF ChildEnds, ChildKilled, HelperEnds, Ended, IInv, TypeOK
    <3>2. done[run] \subseteq done'[run]
      BY <1>2, <2>2 DEF IInv, TypeOK
    <3>3. QED
      BY <1>1, <2>1, <3>1, <3>2 DEF IInv, Fresh, Alive
  <2>6. QED
    BY <2>3, <2>4, <2>5
<1>12. QED
  BY <1>6, <1>8, <1>10, <1>11 DEF IInv

\* Every step of the parent, the child and the kernel keeps the invariant.
LEMMA StepInv == IInv /\ [Next]_vars => IInv'
<1>1. SUFFICES ASSUME IInv, [Next]_vars PROVE IInv'
  OBVIOUS
<1>2. CASE UNCHANGED vars
  BY <1>1, <1>2
  DEF IInv, TypeOK, Future, Course, NoChildLeft, Fresh, Prepared, Finished, EndOfFile, Alive, vars
<1>3. CASE Next
  BY <1>1, <1>3, BeginInv, LaunchInv, ReturnInv, ChildInv DEF Next, Parent
<1>4. QED
  BY <1>1, <1>2, <1>3

-----------------------------------------------------------------------------
(* The theorems                                                            *)

\* The inductive invariant holds in every behaviour.
LEMMA Invariant == Spec => []IInv
  BY InitInv, StepInv, PTL DEF Spec

\* A generation that run() goes on to store is complete, and nothing writes to
\* it any more.
THEOREM StoredIsComplete == Spec => []CompleteAndQuiet
<1>1. IInv => CompleteAndQuiet
  BY DEF IInv, Prepared, Finished, CompleteAndQuiet
<1>2. QED
  BY <1>1, Invariant, PTL

\* The state of the parent, its children and their results stays in its types.
THEOREM TypeCorrect == Spec => []TypeOK
<1>1. IInv => TypeOK
  BY DEF IInv
<1>2. QED
  BY <1>1, Invariant, PTL

\* No way out of _execute leaves a child behind.
THEOREM ChildReaped == Spec => []NoChildLeft
<1>1. IInv => NoChildLeft
  BY DEF IInv
<1>2. QED
  BY <1>1, Invariant, PTL
==============================================================================
