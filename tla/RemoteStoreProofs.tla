-------------------------- MODULE RemoteStoreProofs --------------------------
(***************************************************************************)
(* What an ssh destination keeps to, for any set of ids and any number of  *)
(* retries.                                                                *)
(***************************************************************************)
EXTENDS RemoteStore, TLAPS

\* A removal that comes late is of an id that was given to delete().
LateRemovals == \A c \in late : c.op = "rm" => c.id \in deleted

\* The states the copy of an id goes through when its commits were all answered
\* in time, and what they leave under its final name.
Progress ==
    /\ \A c \in late : c.id \in overdue \cup deleted
    /\ pc # "idle" => cur \notin deleted
    /\ cur \notin overdue =>
          /\ pc = "rsync" => at = "part"
          /\ pc = "meta" => part[cur] \in {"full", "whole"}
          /\ pc = "commit" => part[cur] = "whole"
    /\ stored \cap deleted = {}
    /\ \A x \in Ids \ (deleted \cup overdue) : final[x] \in {"none", "whole"}

\* The inductive invariants.
IInv == TypeOK /\ LateRemovals
PromptInv == IInv /\ Progress /\ SuccessMeansWhole

-----------------------------------------------------------------------------
(* A complete generation stays                                             *)

\* The variables stay in their types.
LEMMA TypeStep == TypeOK /\ [Next]_vars => TypeOK'
<1>1. SUFFICES ASSUME TypeOK, [Next]_vars PROVE TypeOK'
  OBVIOUS
<1> USE <1>1, RemoteAssumption DEF TypeOK, Step, Fail, Return, Again, caller, remote
<1>2. CASE UNCHANGED vars
  BY <1>2 DEF vars
<1>3. CASE Test \/ Mkdir
  BY <1>3 DEF Test, Mkdir
<1>4. CASE Copy
  BY <1>4 DEF Copy, Begin, DirStates
<1>5. CASE Rsync
  <2>1. \A s \in DirStates : Filled(s) \in DirStates
    BY DEF Filled, DirStates
  <2>2. final' \in [Ids -> DirStates] /\ part' \in [Ids -> DirStates]
    BY <1>5, <2>1 DEF Rsync
  <2>3. tries' \in 0 .. Retries + 1 /\ pc' \in {"idle", "copy", "meta"}
    BY <1>5 DEF Rsync
  <2>4. QED
    BY <1>5, <2>2, <2>3 DEF Rsync
<1>6. CASE Meta
  BY <1>6 DEF Meta, DirStates
<1>7. CASE Commit
  <2>1. final' \in [Ids -> DirStates] /\ part' \in [Ids -> DirStates] /\ nested' \subseteq Ids
    BY <1>7 DEF Commit, Move, MoveWorks, Outlives, DirStates
  <2>2. late' \subseteq Commands /\ overdue' \subseteq Ids
    BY <1>7 DEF Commit, Outlives, Commands
  <2>3. pc' = "idle" /\ UNCHANGED <<cur, tries, at, deleted>> /\ stored' \subseteq Ids
    BY <1>7 DEF Commit
  <2>4. QED
    BY <2>1, <2>2, <2>3
<1>8. ASSUME NEW x \in Ids, StartStore(x) \/ Delete(x) PROVE TypeOK'
  BY <1>8 DEF StartStore, Delete, Remove, Outlives, Commands, DirStates
<1>9. ASSUME NEW c \in Commands, LateEffect(c) PROVE TypeOK'
  BY <1>9 DEF LateEffect, Move, Remove, Commands, DirStates
<1>10. QED
  BY <1>2, <1>3, <1>4, <1>5, <1>6, <1>7, <1>8, <1>9 DEF Next, Storing

\* An id stays deleted, and overdue.
Growth == deleted \subseteq deleted' /\ overdue \subseteq overdue'

\* Only delete() leaves a removal behind.
LEMMA LateStep == IInv /\ [Next]_vars => IInv' /\ Growth
<1>1. SUFFICES ASSUME IInv, [Next]_vars PROVE LateRemovals' /\ Growth
  BY TypeStep DEF IInv
<1> USE <1>1 DEF Growth, IInv, LateRemovals, Step, Fail, Return, Again, caller, remote
<1>2. CASE UNCHANGED vars
  BY <1>2 DEF vars
<1>3. CASE Test \/ Mkdir \/ Copy \/ Rsync \/ Meta
  BY <1>3 DEF Test, Mkdir, Copy, Rsync, Meta
<1>4. CASE Commit
  BY <1>4 DEF Commit, Outlives
<1>5. ASSUME NEW x \in Ids, StartStore(x) \/ Delete(x)
      PROVE  LateRemovals' /\ Growth
  BY <1>5 DEF StartStore, Delete, Outlives
<1>6. ASSUME NEW c \in Commands, LateEffect(c) PROVE LateRemovals' /\ Growth
  BY <1>6 DEF LateEffect
<1>7. QED
  BY <1>2, <1>3, <1>4, <1>5, <1>6 DEF Next, Storing

\* A complete generation stays complete, or delete() was called for it.
LEMMA WholeStep ==
    ASSUME IInv, [Next]_vars, NEW x \in Ids, final[x] = "whole", x \notin deleted'
    PROVE  final'[x] = "whole"
<1>1. deleted \subseteq deleted'
  BY LateStep DEF Growth
<1> USE <1>1 DEF IInv, TypeOK
<1>2. CASE UNCHANGED vars \/ Test \/ Mkdir \/ Meta
  BY <1>2 DEF vars, remote, Test, Mkdir, Meta
<1>3. CASE Copy
  BY <1>3 DEF Copy, Begin
<1>4. CASE Rsync
  BY <1>4 DEF Rsync, Filled, HasMeta
<1>5. CASE Commit
  BY <1>5 DEF Commit, Move, Outlives, remote
<1>6. ASSUME NEW y \in Ids, StartStore(y) \/ Delete(y) PROVE final'[x] = "whole"
  BY <1>6 DEF StartStore, Delete, Remove, Outlives, remote
<1>7. ASSUME NEW c \in Commands, LateEffect(c) PROVE final'[x] = "whole"
  BY <1>7 DEF LateEffect, Move, Remove, LateRemovals, Commands
<1>8. QED
  BY <1>2, <1>3, <1>4, <1>5, <1>6, <1>7 DEF Next, Storing

\* At the beginning there is nothing.
LEMMA InitInv == Init => PromptInv
  BY RemoteAssumption
  DEF Init, PromptInv, IInv, TypeOK, LateRemovals, Progress, SuccessMeansWhole, DirStates

\* A complete generation is lost only through delete(), even if commands come
\* late and stores are retried.
THEOREM PriorIsSafe == Spec => PriorSafe
<1>1. IInv /\ [Next]_vars =>
        \A x \in Ids : final[x] = "whole" /\ final'[x] # "whole" => x \in deleted'
  BY WholeStep
<1>2. IInv /\ [Next]_vars => IInv'
  BY LateStep
<1>3. Init => IInv
  BY InitInv DEF PromptInv
<1>4. QED
  BY <1>1, <1>2, <1>3, PTL DEF Spec, PriorSafe

-----------------------------------------------------------------------------
(* What a store leaves behind                                              *)

\* The order of the copy: data, meta.json, mv.
LEMMA ProgressStep ==
    ASSUME PromptInv, [Next]_vars
    PROVE  Progress'
<1> USE DEF PromptInv, IInv, TypeOK, Progress, Step, Fail, Return, Again, caller, remote
<1>2. CASE UNCHANGED vars
  BY <1>2 DEF vars
<1>3. CASE Test \/ Mkdir
  BY <1>3, RemoteAssumption DEF Test, Mkdir, SuccessMeansWhole
<1>4. CASE Copy
  BY <1>4 DEF Copy, Begin
<1>5. CASE Rsync
  BY <1>5 DEF Rsync, Filled
<1>6. CASE Meta
  BY <1>6 DEF Meta
<1>7. CASE Commit
  BY <1>7 DEF Commit, Move, Outlives
<1>8. ASSUME NEW x \in Ids, StartStore(x) PROVE Progress'
  BY <1>8 DEF StartStore
<1>9. ASSUME NEW x \in Ids, Delete(x) PROVE Progress'
  BY <1>9 DEF Delete, Remove, Outlives
<1>10. ASSUME NEW c \in Commands, LateEffect(c) PROVE Progress'
  <2>1. c.id \in Ids /\ c.id \in overdue \cup deleted
        /\ late' \subseteq late /\ UNCHANGED <<overdue, deleted, stored, pc, cur>>
    BY <1>10 DEF LateEffect, Commands
  <2>2. \A x \in Ids \ {c.id} : final'[x] = final[x] /\ part'[x] = part[x]
    BY <1>10 DEF LateEffect, Move, Remove
  <2>3. pc = "rsync" /\ cur # c.id => at' = at
    BY <1>10 DEF LateEffect
  <2>4. QED
    BY <2>1, <2>2, <2>3
<1>11. QED
  BY <1>2, <1>3, <1>4, <1>5, <1>6, <1>7, <1>8, <1>9, <1>10 DEF Next, Storing

\* What was stored stays, and what is stored now is complete.
LEMMA SuccessStep ==
    ASSUME PromptInv, [Next]_vars
    PROVE  SuccessMeansWhole'
<1>1. SUFFICES ASSUME NEW x \in stored' \ overdue' PROVE final'[x] = "whole"
  BY DEF SuccessMeansWhole
<1>2. x \in Ids /\ x \notin deleted' /\ x \notin deleted /\ x \notin overdue
  BY ProgressStep, TypeStep, LateStep DEF PromptInv, IInv, TypeOK, Progress, Growth
<1>3. CASE x \in stored
  BY <1>2, <1>3, WholeStep DEF PromptInv, SuccessMeansWhole
<1>4. CASE x \notin stored
  <2>1. x = cur /\ (Test \/ Commit) /\ Return
    BY <1>1, <1>4
    DEF Next, Storing, Test, Mkdir, Copy, Rsync, Meta, Commit, StartStore, Delete, LateEffect,
        Step, Fail, Again, Return, caller, remote, vars
  <2>2. pc' = "idle" /\ stored' # stored
    BY <1>1, <1>4, <2>1 DEF Return
  <2>3. CASE Test
    BY <1>2, <2>1, <2>2, <2>3
    DEF Test, Step, Fail, HasMeta, PromptInv, IInv, TypeOK, Progress, remote, caller
  <2>4. CASE Commit
    BY <1>2, <2>1, <2>2, <2>4
    DEF Commit, Move, Fail, Step, PromptInv, IInv, TypeOK, Progress, remote, caller
  <2>5. QED
    BY <2>1, <2>3, <2>4
<1>5. QED
  BY <1>3, <1>4

\* A store that returned has put a complete generation under its final name.
THEOREM StoredIsWhole == Spec => []SuccessMeansWhole
<1>1. PromptInv /\ [Next]_vars => PromptInv'
  BY ProgressStep, SuccessStep, LateStep DEF PromptInv
<1>2. PromptInv => SuccessMeansWhole
  BY DEF PromptInv
<1>3. QED
  BY <1>1, <1>2, InitInv, PTL DEF Spec

\* A directory that is listed as complete has all its data.
THEOREM CommitIsAtomic == Spec => []NoHalfCommit
<1>1. PromptInv /\ [Next]_vars => PromptInv'
  BY ProgressStep, SuccessStep, LateStep DEF PromptInv
<1>2. PromptInv => NoHalfCommit
  BY DEF PromptInv, Progress, NoHalfCommit, HasMeta
<1>3. QED
  BY <1>1, <1>2, InitInv, PTL DEF Spec
==============================================================================
