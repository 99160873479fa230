----------------------------- MODULE PurgeLists -----------------------------
(***************************************************************************)
(* select_purge statement by statement, on the listings of Purging as the  *)
(* lists a destination returns: in any order.                              *)
(***************************************************************************)
EXTENDS Purging, Sequences, SequencesExt

\* The members of list s at the places I, in the order B of the places: the k-th
\* is the one that k of the places, itself included, come up to.
Arranged(s, I, B) ==
    [k \in 1 .. Cardinality(I) |->
        s[CHOOSE i \in I : Cardinality({j \in I : <<j, i>> \in B}) = k]]

\* A comprehension, and sorted(..., key=backup_id, reverse=True), which is stable.
InPlace(I) == {e \in I \X I : e[1] <= e[2]}
Descending(s) ==
    {e \in (DOMAIN s) \X (DOMAIN s) :
        LET a == s[e[1]].backup_id   b == s[e[2]].backup_id
        IN  a > b \/ (a = b /\ e[1] <= e[2])}

Filter(s, I) == Arranged(s, I, InPlace(I))
Sorted(s) == Arranged(s, DOMAIN s, Descending(s))
IdsOf(s) == [i \in DOMAIN s |-> s[i].backup_id]

\* The body of select_purge, list by list.
Stays(b, in_progress_id) == b.backup_id = in_progress_id \/ now - b.stored_at < PurgeGrace

Reference(s, in_progress_id) ==
    LET complete == Sorted(Filter(s, {i \in DOMAIN s : s[i].complete}))
        incomplete == Filter(s, {i \in DOMAIN s : ~s[i].complete})
        cut == IF Len(complete) < PurgeKeep THEN Len(complete) ELSE PurgeKeep
        stays == {i \in DOMAIN incomplete : Stays(incomplete[i], in_progress_id)}
    IN  [keep   |-> IdsOf(SubSeq(complete, 1, cut)) \o IdsOf(Filter(incomplete, stays)),
         delete |-> IdsOf(SubSeq(complete, cut + 1, Len(complete)))
                        \o IdsOf(Filter(incomplete, (DOMAIN incomplete) \ stays))]

\* The plan of sets is the plan of the code, in whatever order the destination
\* lists: the same ids are kept and deleted, and deletion begins with the
\* surplus, newest first (select_purge).
PlanMatchesCode ==
    \A x \in InProgress :
       LET plan == Plan(listing, x)
           k == Cardinality(plan.surplus)
       IN  \A s \in SetToSeqs(listing) :
              LET code == Reference(s, x)
              IN  /\ ToSet(code.keep) = plan.keep
                  /\ ToSet(code.delete) = plan.surplus \cup plan.stale
                  /\ {code.delete[i] : i \in 1 .. k} = plan.surplus
                  /\ \A i, j \in 1 .. k : i < j => code.delete[i] > code.delete[j]
=============================================================================
