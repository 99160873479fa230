--------------------------- MODULE RetentionProofs ---------------------------
(***************************************************************************)
(* What select_purge decides, for every keep, grace period and listing.    *)
(***************************************************************************)
EXTENDS PurgeLists, FiniteSetTheorems, SequenceTheorems, WellFoundedInduction, TLAPS

Rows == [backup_id : PurgeIds, complete : BOOLEAN, stored_at : Nat]

\* What is listed is finite, and an id is complete once.
PurgingInv ==
    /\ listing \subseteq Rows /\ IsFiniteSet(listing)
    /\ now \in Nat
    /\ \A a, b \in listing : a.complete /\ b.complete /\ a.backup_id = b.backup_id => a = b

-----------------------------------------------------------------------------
(* Counting names                                                          *)

\* A set of natural numbers that is not empty has a least member.
LEMMA Smallest ==
    ASSUME NEW T \in SUBSET Nat, T # {}
    PROVE  \E m \in T : \A n \in T : m <= n
<1> DEFINE R == {ss \in Nat \X Nat : ss[1] < ss[2]}
<1>1. PICK m \in T : \A n \in T : <<n, m>> \notin R
  <2>1. IsWellFoundedOn(R, Nat)
    BY NatLessThanWellFounded DEF OpToRel
  <2> HIDE DEF R
  <2> QED
    BY <2>1, WFMin
<1>2. \A n \in T : <<n, m>> \in R \/ m <= n
  OBVIOUS
<1> QED
  BY <1>1, <1>2

\* Sorting in reverse order: what is older has more newer ones.
LEMMA NewerShrinks ==
    ASSUME NEW complete \in SUBSET Nat, IsFiniteSet(complete),
           NEW x \in complete, NEW y \in complete, x < y
    PROVE  /\ Cardinality(Newer(x, complete)) \in Nat
           /\ Cardinality(Newer(y, complete)) \in Nat
           /\ Cardinality(Newer(y, complete)) < Cardinality(Newer(x, complete))
<1>1. Newer(x, complete) \subseteq complete /\ Newer(y, complete) \subseteq Newer(x, complete)
  <2>1. ASSUME NEW z \in complete, z > y PROVE z > x
    <3>1. x \in Nat /\ y \in Nat /\ z \in Nat
      OBVIOUS
    <3> QED
      BY <2>1, <3>1
  <2> QED
    BY <2>1 DEF Newer
<1>2. y \in Newer(x, complete) /\ y \notin Newer(y, complete)
  BY DEF Newer
<1>3. IsFiniteSet(Newer(x, complete)) /\ IsFiniteSet(Newer(y, complete))
  BY <1>1, FS_Subset
<1> QED
  BY <1>1, <1>2, <1>3, FS_Subset, FS_CardinalityType

\* complete[:keep] has keep members, or it is all there is.
LEMMA KeepExactly ==
    ASSUME NEW complete \in SUBSET Nat, IsFiniteSet(complete), NEW keep \in Nat
    PROVE  LET rest == complete \ Surplus(complete, keep)
           IN  \/ Cardinality(rest) = keep
               \/ rest = complete /\ Cardinality(complete) < keep
<1> DEFINE surplus == Surplus(complete, keep)
           rest == complete \ surplus
           Count(x) == Cardinality(Newer(x, complete))
<1>1. surplus = {x \in complete : Count(x) >= keep}
  BY DEF Surplus
<1>2. \A x \in complete : /\ Newer(x, complete) \subseteq complete
                          /\ IsFiniteSet(Newer(x, complete)) /\ Count(x) \in Nat
  <2>1. \A x \in complete : Newer(x, complete) \subseteq complete
    BY DEF Newer
  <2> QED
    BY <2>1, FS_Subset, FS_CardinalityType
<1>3. IsFiniteSet(rest) /\ Cardinality(rest) \in Nat /\ rest \subseteq complete
  BY FS_Subset, FS_CardinalityType
<1> HIDE DEF surplus, rest
<1>4. Cardinality(rest) <= keep
  <2>1. CASE rest = {}
    BY <2>1, FS_EmptySet
  <2>2. CASE rest # {}
    <3>1. PICK m \in rest : \A n \in rest : m <= n
      BY <1>3, <2>2, Smallest
    <3>2. Count(m) \in Nat /\ Count(m) < keep
      BY <1>1, <1>2, <1>3 DEF rest
    <3>3. rest \ {m} \subseteq Newer(m, complete)
      BY <1>3, <3>1 DEF Newer
    <3>4. Cardinality(rest \ {m}) <= Count(m)
      BY <1>2, <1>3, <3>3, FS_Subset
    <3>5. Cardinality(rest \ {m}) = Cardinality(rest) - 1
      BY <1>3, FS_RemoveElement
    <3> QED
      BY <1>3, <3>2, <3>4, <3>5
  <2> QED
    BY <2>1, <2>2
<1>5. CASE surplus = {}
  <2>1. rest = complete
    BY <1>5 DEF rest
  <2> QED
    BY <1>3, <1>4, <2>1 DEF rest, surplus
<1>6. CASE surplus # {}
  <2> DEFINE counts == {Count(x) : x \in surplus}
  <2>1. counts \in SUBSET Nat /\ counts # {} /\ surplus \subseteq complete
    BY <1>1, <1>2, <1>6
  <2>2. PICK c \in counts : \A n \in counts : c <= n
    <3> HIDE DEF counts
    <3> QED
      BY <2>1, Smallest
  <2>3. PICK x \in surplus : c = Count(x)
    OBVIOUS
  <2>4. Newer(x, complete) \subseteq rest
    <3> SUFFICES ASSUME NEW y \in Newer(x, complete), y \in surplus PROVE FALSE
      BY <1>2, <2>1, <2>3 DEF rest
    <3>1. x \in complete /\ y \in complete /\ x < y
      BY <2>1 DEF Newer
    <3>2. Count(y) < Count(x) /\ Count(x) \in Nat /\ Count(y) \in Nat
      BY <3>1, NewerShrinks
    <3>3. c <= Count(y)
      BY <2>2
    <3> QED
      BY <2>3, <3>2, <3>3
  <2>5. keep <= Count(x) /\ Count(x) \in Nat
    BY <1>1, <1>2, <2>1
  <2>6. Count(x) <= Cardinality(rest)
    BY <1>3, <2>4, FS_Subset
  <2> QED
    BY <1>3, <1>4, <2>5, <2>6 DEF rest, surplus
<1> QED
  BY <1>5, <1>6

\* complete[:keep] are the newest.
LEMMA KeepsNewest ==
    ASSUME NEW complete \in SUBSET Nat, IsFiniteSet(complete), NEW keep \in Nat
    PROVE  LET rest == complete \ Surplus(complete, keep)
           IN  \A x \in rest, y \in complete \ rest : x > y
<1> SUFFICES ASSUME NEW x \in complete, x \notin Surplus(complete, keep),
                    NEW y \in Surplus(complete, keep)
             PROVE  x > y
  BY DEF Surplus
<1>1. /\ y \in complete /\ Cardinality(Newer(y, complete)) >= keep
      /\ ~(Cardinality(Newer(x, complete)) >= keep)
  BY DEF Surplus
<1>2. CASE x < y
  BY <1>1, <1>2, NewerShrinks
<1>3. x \in Nat /\ y \in Nat /\ x # y
  BY <1>1
<1> QED
  BY <1>2, <1>3

-----------------------------------------------------------------------------
(* The invariant                                                           *)

\* Nothing is listed at first.
LEMMA PurgingInit == Init => PurgingInv
  BY FS_EmptySet DEF Init, PurgingInv

\* Arrivals, hours and purges keep the listing in order.
LEMMA PurgingStep == PurgingInv /\ [Next]_vars => PurgingInv'
<1> SUFFICES ASSUME PurgingInv, [Next]_vars PROVE PurgingInv'
  OBVIOUS
<1> USE DEF PurgingInv
<1>1. CASE Arrive
  <2>1. PICK x \in PurgeIds, complete \in BOOLEAN :
           /\ complete => \A b \in listing : ~(b.backup_id = x /\ b.complete)
           /\ listing' = listing \cup {[backup_id |-> x, complete |-> complete, stored_at |-> now]}
           /\ UNCHANGED now
    BY <1>1 DEF Arrive
  <2> DEFINE new == [backup_id |-> x, complete |-> complete, stored_at |-> now]
  <2>2. new \in Rows /\ new.backup_id = x /\ new.complete = complete
    BY DEF Rows
  <2>3. listing' = listing \cup {new}
    BY <2>1
  <2> HIDE DEF new
  <2>4. IsFiniteSet(listing')
    BY <2>3, FS_AddElement
  <2> QED
    BY <2>1, <2>2, <2>3, <2>4
<1>2. CASE Hour
  BY <1>2 DEF Hour
<1>3. CASE Purge
  <2>1. listing' \subseteq listing /\ now' = now
    BY <1>3 DEF Purge, Purged
  <2> QED
    BY <2>1, FS_Subset
<1>4. CASE UNCHANGED vars
  BY <1>4 DEF vars
<1> QED
  BY <1>1, <1>2, <1>3, <1>4 DEF Next

-----------------------------------------------------------------------------
(* A purge settles                                                         *)

\* After a purge, what is left is neither surplus nor stale: it has fewer than
\* keep newer ones, and the grace period has been asked about.
LEMMA NothingLeft ==
    ASSUME PurgingInv, NEW x \in InProgress
    PROVE  LET again == Plan(Purged(x), x) IN again.surplus = {} /\ again.stale = {}
<1> DEFINE plan == Plan(listing, x)
           complete == {b.backup_id : b \in {b \in listing : b.complete}}
           left == {b.backup_id : b \in {b \in Purged(x) : b.complete}}
<1>1. plan.surplus = Surplus(complete, PurgeKeep) /\ Plan(Purged(x), x).surplus = Surplus(left, PurgeKeep)
  BY DEF Plan, select_purge
<1>2. /\ Purged(x) \subseteq listing
      /\ \A b \in Purged(x) : b.backup_id \notin plan.surplus /\ b.backup_id \notin plan.stale
  BY DEF Purged
<1>3. complete \in SUBSET Nat /\ IsFiniteSet(complete)
  <2>1. complete \in SUBSET PurgeIds
    BY DEF PurgingInv, Rows
  <2>2. IsFiniteSet({b \in listing : b.complete})
    BY FS_Subset DEF PurgingInv
  <2> DEFINE S == {b \in listing : b.complete}
             f == [b \in S |-> b.backup_id]
  <2>3. f \in Surjection(S, complete)
    BY DEF Surjection
  <2> HIDE DEF f
  <2>4. IsFiniteSet(complete)
    <3> HIDE DEF complete, S
    <3> QED
      BY <2>2, <2>3, FS_Surjection DEF S
  <2> QED
    BY <2>1, <2>4, PurgingAssumption
<1>4. left \subseteq complete /\ left \cap Surplus(complete, PurgeKeep) = {}
  BY <1>1, <1>2
<1> HIDE DEF complete, left
<1>5. Plan(Purged(x), x).surplus = {}
  <2> SUFFICES ASSUME NEW y \in left, Cardinality(Newer(y, left)) >= PurgeKeep PROVE FALSE
    BY <1>1 DEF Surplus
  <2>1. Newer(y, left) \subseteq Newer(y, complete) /\ Newer(y, complete) \subseteq complete
    BY <1>4 DEF Newer
  <2>2. IsFiniteSet(Newer(y, complete)) /\ IsFiniteSet(Newer(y, left))
    BY <1>3, <2>1, FS_Subset
  <2>3. /\ Cardinality(Newer(y, left)) \in Nat /\ Cardinality(Newer(y, complete)) \in Nat
        /\ Cardinality(Newer(y, left)) <= Cardinality(Newer(y, complete))
    BY <2>1, <2>2, FS_Subset, FS_CardinalityType
  <2>4. ~(Cardinality(Newer(y, complete)) >= PurgeKeep)
    BY <1>4 DEF Surplus
  <2> QED
    BY <2>3, <2>4, PurgingAssumption
<1>6. Plan(Purged(x), x).stale = {}
  <2> SUFFICES ASSUME NEW b \in Purged(x), ~b.complete, b.backup_id # x,
                      Expired(b, PurgeGrace, now)
               PROVE  FALSE
    BY DEF Plan, select_purge
  <2>1. b.backup_id \in plan.stale
    BY <1>2 DEF Plan, select_purge
  <2> QED
    BY <1>2, <2>1
<1> QED
  BY <1>5, <1>6

\* Where no complete generation has a stale twin, the newest keep survive.
LEMMA NewestSurvive ==
    ASSUME PurgingInv, NEW x \in InProgress,
           \A b \in listing : b.complete => b.backup_id \notin Plan(listing, x).stale
    PROVE  LET complete == {b \in listing : b.complete}
               survivors == {b \in Purged(x) : b.complete}
           IN  /\ \/ survivors = complete /\ Cardinality(complete) < PurgeKeep
                  \/ Cardinality(survivors) = PurgeKeep
               /\ \A b \in survivors, c \in complete \ survivors : b.backup_id > c.backup_id
<1> DEFINE complete == {b \in listing : b.complete}
           survivors == {b \in Purged(x) : b.complete}
           names == {b.backup_id : b \in complete}
           rest == names \ Surplus(names, PurgeKeep)
<1>1. Plan(listing, x).surplus = Surplus(names, PurgeKeep)
  BY DEF Plan, select_purge
<1>2. survivors = {b \in complete : b.backup_id \in rest}
  BY <1>1 DEF Purged
<1>3. IsFiniteSet(complete) /\ IsFiniteSet(survivors)
  BY <1>2, FS_Subset DEF PurgingInv
<1>4. ASSUME NEW S \in SUBSET complete
      PROVE  Cardinality({b.backup_id : b \in S}) = Cardinality(S) /\ IsFiniteSet({b.backup_id : b \in S})
  <2> DEFINE T == {b.backup_id : b \in S}
             f == [b \in S |-> b.backup_id]
  <2>1. f \in Bijection(S, T)
    BY DEF Bijection, Injection, Surjection, IsInjective, PurgingInv
  <2>2. IsFiniteSet(S)
    BY <1>3, FS_Subset
  <2> HIDE DEF T, f
  <2>3. ExistsBijection(S, T)
    BY <2>1 DEF ExistsBijection
  <2> QED
    BY <2>2, <2>3, FS_Bijection DEF T
<1>5. names \in SUBSET Nat
  BY PurgingAssumption DEF PurgingInv, Rows
<1>6. {b.backup_id : b \in survivors} = rest /\ survivors \in SUBSET complete
  BY <1>2
<1> HIDE DEF survivors, complete
<1>7. /\ Cardinality(names) = Cardinality(complete) /\ IsFiniteSet(names)
      /\ Cardinality(rest) = Cardinality(survivors)
  BY <1>4, <1>6
<1> HIDE DEF names
<1>8. \/ Cardinality(rest) = PurgeKeep
      \/ rest = names /\ Cardinality(names) < PurgeKeep
  BY <1>5, <1>7, KeepExactly, PurgingAssumption
<1> HIDE DEF rest
<1>9. rest = names => survivors = complete
  BY <1>2 DEF names
<1>10. ASSUME NEW b \in survivors, NEW c \in complete \ survivors PROVE b.backup_id > c.backup_id
  <2>1. /\ b.backup_id \in names /\ c.backup_id \in names
        /\ b.backup_id \in rest /\ c.backup_id \notin rest
    BY <1>2, <1>6 DEF names
  <2>2. \A y \in rest, z \in names \ rest : y > z
    BY <1>5, <1>7, KeepsNewest, PurgingAssumption DEF rest
  <2> QED
    BY <2>1, <2>2
<1> QED
  BY <1>7, <1>8, <1>9, <1>10 DEF survivors, complete

\* A second purge at the same time deletes nothing, and the newest keep complete
\* generations survive the first, on every listing that arrivals and purges in
\* any order can produce (select_purge, _purge_one_destination).
THEOREM Settled == Spec => []PurgeSettles
<1>1. PurgingInv => PurgeSettles
  <2> SUFFICES ASSUME PurgingInv, NEW x \in InProgress,
                      \A b \in listing : b.complete => b.backup_id \notin Plan(listing, x).stale
               PROVE  LET complete == {b \in listing : b.complete}
                          survivors == {b \in Purged(x) : b.complete}
                      IN  \/ survivors = complete /\ Cardinality(complete) < PurgeKeep
                          \/ /\ Cardinality(survivors) = PurgeKeep
                             /\ \A b \in survivors, c \in complete \ survivors :
                                   b.backup_id > c.backup_id
    BY NothingLeft DEF PurgeSettles
  <2> QED
    BY NewestSurvive
<1> QED
  BY <1>1, PurgingInit, PurgingStep, PTL DEF Spec

-----------------------------------------------------------------------------
(* Lists                                                                   *)

\* A function on 1..n is a list of n members.
LEMMA IsList ==
    ASSUME NEW S, NEW n \in Nat, NEW f \in [1 .. n -> S]
    PROVE  f \in Seq(S) /\ Len(f) = n
  BY SeqDef

\* backup_ids can be compared.
LEMMA RowIds == \A r \in Rows : r.backup_id \in Int
<1> SUFFICES ASSUME NEW r \in Rows PROVE r.backup_id \in Int
  OBVIOUS
<1>1. r.backup_id \in PurgeIds
  BY DEF Rows
<1>2. r.backup_id \in Nat
  BY <1>1, PurgingAssumption
<1> QED
  BY <1>2

Orders(B, I) ==
    /\ \A i \in I : <<i, i>> \in B
    /\ \A i, j \in I : <<i, j>> \in B \/ <<j, i>> \in B
    /\ \A i, j \in I : <<i, j>> \in B /\ <<j, i>> \in B => i = j
    /\ \A i, j, k \in I : <<i, j>> \in B /\ <<j, k>> \in B => <<i, k>> \in B

\* Places that are arranged in an order are all there, once, and in that order.
LEMMA ArrangedFacts ==
    ASSUME NEW I, IsFiniteSet(I), NEW B, Orders(B, I), NEW s
    PROVE  LET n == Cardinality(I)
           IN  \E at \in Bijection(1 .. n, I) :
                  /\ Arranged(s, I, B) = [k \in 1 .. n |-> s[at[k]]]
                  /\ \A k, l \in 1 .. n : k < l => <<at[k], at[l]>> \in B
<1> DEFINE n == Cardinality(I)
           Upto(i) == {j \in I : <<j, i>> \in B}
           rank == [i \in I |-> Cardinality(Upto(i))]
           at == [k \in 1 .. n |-> CHOOSE i \in I : Cardinality(Upto(i)) = k]
<1>1. n \in Nat
  BY FS_CardinalityType
<1>2. ASSUME NEW i \in I
      PROVE  IsFiniteSet(Upto(i)) /\ Cardinality(Upto(i)) \in 1 .. n
  <2>1. Upto(i) \in SUBSET I /\ i \in Upto(i)
    BY DEF Orders
  <2> HIDE DEF Upto
  <2>2. IsFiniteSet(Upto(i)) /\ Cardinality(Upto(i)) <= n /\ Cardinality(Upto(i)) \in Nat
    BY <2>1, FS_Subset, FS_CardinalityType
  <2>3. Cardinality(Upto(i)) # 0
    BY <2>1, <2>2, FS_EmptySet
  <2> QED
    BY <1>1, <2>2, <2>3
<1>3. ASSUME NEW i \in I, NEW j \in I, i # j, <<i, j>> \in B
      PROVE  Cardinality(Upto(i)) < Cardinality(Upto(j))
  <2>1. Upto(i) \in SUBSET Upto(j) /\ j \in Upto(j) /\ j \notin Upto(i)
    BY <1>3 DEF Orders
  <2> HIDE DEF Upto
  <2>2. Cardinality(Upto(i)) <= Cardinality(Upto(j)) /\ Cardinality(Upto(i)) # Cardinality(Upto(j))
    BY <1>2, <2>1, FS_Subset
  <2> QED
    BY <1>1, <1>2, <2>2
<1> HIDE DEF Upto
<1>4. rank \in Injection(I, 1 .. n)
  <2>1. rank \in [I -> 1 .. n]
    BY <1>2
  <2>2. ASSUME NEW i \in I, NEW j \in I, i # j PROVE rank[i] # rank[j]
    <3>1. Cardinality(Upto(i)) \in Nat /\ Cardinality(Upto(j)) \in Nat
      BY <1>1, <1>2
    <3>2. <<i, j>> \in B \/ <<j, i>> \in B
      BY DEF Orders
    <3>3. \/ Cardinality(Upto(i)) < Cardinality(Upto(j))
          \/ Cardinality(Upto(j)) < Cardinality(Upto(i))
      BY <1>3, <2>2, <3>2
    <3> QED
      BY <3>1, <3>3
  <2> QED
    BY <2>1, <2>2 DEF Injection, IsInjective
<1>5. rank \in Surjection(I, 1 .. n)
  <2>1. IsFiniteSet(1 .. n) /\ Cardinality(1 .. n) = n
    BY <1>1, FS_Interval
  <2> HIDE DEF rank
  <2> QED
    BY <1>4, <2>1, FS_Injection
<1>6. \A k \in 1 .. n : at[k] \in I /\ Cardinality(Upto(at[k])) = k
  BY <1>5 DEF Surjection
<1>7. at \in Bijection(1 .. n, I)
  <2>1. at \in [1 .. n -> I]
    BY <1>6
  <2>2. \A i \in I : Cardinality(Upto(i)) \in 1 .. n
    BY <1>2
  <2>3. ASSUME NEW i \in I PROVE at[Cardinality(Upto(i))] = i
    <3>1. at[Cardinality(Upto(i))] \in I /\ rank[at[Cardinality(Upto(i))]] = rank[i]
      BY <1>6, <2>2
    <3> QED
      BY <1>4, <3>1 DEF Injection, IsInjective
  <2> HIDE DEF at
  <2>4. at \in Injection(1 .. n, I)
    BY <1>6, <2>1 DEF Injection, IsInjective
  <2>5. at \in Surjection(1 .. n, I)
    BY <2>1, <2>2, <2>3 DEF Surjection
  <2> QED
    BY <2>4, <2>5 DEF Bijection
<1>8. Arranged(s, I, B) = [k \in 1 .. n |-> s[at[k]]]
  BY DEF Arranged, Upto
<1>9. ASSUME NEW k \in 1 .. n, NEW l \in 1 .. n, k < l PROVE <<at[k], at[l]>> \in B
  <2> HIDE DEF at
  <2>1. at[k] \in I /\ at[l] \in I /\ Cardinality(Upto(at[k])) = k /\ Cardinality(Upto(at[l])) = l
    BY <1>6
  <2>2. k \in Int /\ l \in Int
    BY <1>1
  <2>3. at[k] # at[l]
    BY <1>9, <2>1, <2>2
  <2>4. ~(<<at[l], at[k]>> \in B)
    <3> SUFFICES ASSUME <<at[l], at[k]>> \in B PROVE FALSE
      OBVIOUS
    <3>1. Cardinality(Upto(at[l])) < Cardinality(Upto(at[k]))
      BY <1>3, <2>1, <2>3
    <3> QED
      BY <1>9, <2>1, <2>2, <3>1
  <2> QED
    BY <2>1, <2>4 DEF Orders
<1> HIDE DEF at, rank
<1> QED
  BY <1>7, <1>8, <1>9

\* A comprehension has the members that satisfy its condition, in their order.
LEMMA FilterFacts ==
    ASSUME NEW S, NEW s \in Seq(S), NEW I \in SUBSET DOMAIN s
    PROVE  /\ Filter(s, I) \in Seq(S)
           /\ ToSet(Filter(s, I)) = {s[i] : i \in I}
           /\ IsInjective(s) => IsInjective(Filter(s, I))
<1> DEFINE n == Cardinality(I)
<1>1. Len(s) \in Nat /\ DOMAIN s = 1 .. Len(s)
  BY LenProperties
<1>2. IsFiniteSet(I) /\ n \in Nat
  <2>1. IsFiniteSet(1 .. Len(s))
    BY <1>1, FS_Interval
  <2> QED
    BY <1>1, <2>1, FS_Subset, FS_CardinalityType
<1>3. Orders(InPlace(I), I)
  <2>1. \A i \in I : i \in Int
    BY <1>1
  <2>2. \A i, j \in I : <<i, j>> \in InPlace(I) <=> i <= j
    BY DEF InPlace
  <2> QED
    BY <2>1, <2>2 DEF Orders
<1>4. PICK at \in Bijection(1 .. n, I) : Filter(s, I) = [k \in 1 .. n |-> s[at[k]]]
  BY <1>2, <1>3, ArrangedFacts DEF Filter
<1>5. /\ at \in [1 .. n -> I]
      /\ \A i \in I : \E k \in 1 .. n : at[k] = i
      /\ \A k, l \in 1 .. n : at[k] = at[l] => k = l
  BY DEF Bijection, Injection, Surjection, IsInjective
<1>6. Filter(s, I) \in Seq(S)
  <2>1. Filter(s, I) \in [1 .. n -> S]
    BY <1>1, <1>4, <1>5, ElementOfSeq
  <2> QED
    BY <1>2, <2>1, IsList
<1>7. ToSet(Filter(s, I)) = {s[i] : i \in I}
  BY <1>4, <1>5 DEF ToSet
<1>8. IsInjective(s) => IsInjective(Filter(s, I))
  BY <1>4, <1>5 DEF IsInjective
<1> QED
  BY <1>6, <1>7, <1>8

Falling(c) == \A k, l \in DOMAIN c : k < l => c[k].backup_id > c[l].backup_id

\* sorted(..., reverse=True) keeps what is in the list; where no id is there
\* twice, the ids fall strictly.
LEMMA SortedFacts ==
    ASSUME NEW s \in Seq(Rows),
           \A i, j \in DOMAIN s : s[i].backup_id = s[j].backup_id => i = j
    PROVE  /\ Sorted(s) \in Seq(Rows)
           /\ ToSet(Sorted(s)) = ToSet(s)
           /\ Falling(Sorted(s))
<1> DEFINE I == DOMAIN s
           n == Cardinality(I)
<1>1. Len(s) \in Nat /\ I = 1 .. Len(s)
  BY LenProperties
<1>2. IsFiniteSet(I) /\ n \in Nat
  BY <1>1, FS_Interval, FS_CardinalityType
<1>3. \A i \in I : i \in Int /\ s[i] \in Rows /\ s[i].backup_id \in Int
  <2>1. \A i \in I : i \in Int /\ s[i] \in Rows
    BY <1>1, ElementOfSeq
  <2> QED
    BY <2>1, RowIds
<1>4. \A i, j \in I : <<i, j>> \in Descending(s) <=>
         s[i].backup_id > s[j].backup_id \/ (s[i].backup_id = s[j].backup_id /\ i <= j)
  BY DEF Descending
<1>5. Orders(Descending(s), I)
  BY <1>3, <1>4 DEF Orders
<1>6. PICK at \in Bijection(1 .. n, I) :
         /\ Sorted(s) = [k \in 1 .. n |-> s[at[k]]]
         /\ \A k, l \in 1 .. n : k < l => <<at[k], at[l]>> \in Descending(s)
  <2> HIDE DEF I
  <2> QED
    BY <1>2, <1>5, ArrangedFacts DEF Sorted, I
<1>7. /\ at \in [1 .. n -> I]
      /\ \A i \in I : \E k \in 1 .. n : at[k] = i
      /\ \A k, l \in 1 .. n : at[k] = at[l] => k = l
  BY DEF Bijection, Injection, Surjection, IsInjective
<1>8. Sorted(s) \in Seq(Rows)
  <2>1. Sorted(s) \in [1 .. n -> Rows]
    BY <1>3, <1>6, <1>7
  <2> QED
    BY <1>2, <2>1, IsList
<1>9. ToSet(Sorted(s)) = ToSet(s)
  BY <1>6, <1>7 DEF ToSet
<1>10. ASSUME NEW k \in 1 .. n, NEW l \in 1 .. n, k < l
       PROVE  s[at[k]].backup_id > s[at[l]].backup_id
  <2>1. at[k] \in I /\ at[l] \in I /\ k \in Int /\ l \in Int
    BY <1>2, <1>7
  <2>2. at[k] # at[l]
    BY <1>7, <1>10, <2>1
  <2>3. s[at[k]].backup_id # s[at[l]].backup_id
    BY <2>1, <2>2
  <2> QED
    BY <1>4, <1>6, <1>10, <2>1, <2>3
<1>11. Falling(Sorted(s))
  BY <1>6, <1>10 DEF Falling
<1> QED
  BY <1>8, <1>9, <1>11

\* complete[keep:] are the ids with keep newer ones before them.
LEMMA SliceFacts ==
    ASSUME NEW c \in Seq(Rows), Falling(c), NEW keep \in Nat
    PROVE  LET names == {c[i].backup_id : i \in DOMAIN c}
           IN  /\ Surplus(names, keep) = {c[i].backup_id : i \in {i \in DOMAIN c : i > keep}}
               /\ Cardinality(Surplus(names, keep)) = IF Len(c) > keep THEN Len(c) - keep ELSE 0
<1> DEFINE names == {c[i].backup_id : i \in DOMAIN c}
<1>1. Len(c) \in Nat /\ DOMAIN c = 1 .. Len(c)
  BY LenProperties
<1>2. \A i \in DOMAIN c : i \in Int /\ c[i].backup_id \in Int
  <2>1. \A i \in DOMAIN c : i \in Int /\ c[i] \in Rows
    BY <1>1, ElementOfSeq
  <2> QED
    BY <2>1, RowIds
<1>3. \A i, j \in DOMAIN c : c[j].backup_id > c[i].backup_id <=> j < i
  BY <1>2 DEF Falling
<1>4. ASSUME NEW i \in DOMAIN c PROVE Cardinality(Newer(c[i].backup_id, names)) = i - 1
  <2> DEFINE f == [j \in 1 .. i - 1 |-> c[j].backup_id]
             T == Newer(c[i].backup_id, names)
  <2>1. \A j \in 1 .. i - 1 : j \in DOMAIN c /\ j < i
    BY <1>1
  <2>2. T = {c[j].backup_id : j \in {j \in DOMAIN c : j < i}}
    BY <1>3 DEF Newer
  <2>3. \A j \in DOMAIN c : j < i => j \in 1 .. i - 1
    BY <1>1
  <2>4. f \in Surjection(1 .. i - 1, T)
    BY <2>1, <2>2, <2>3 DEF Surjection
  <2>5. \A j, k \in 1 .. i - 1 : f[j] = f[k] => j = k
    <3> SUFFICES ASSUME NEW j \in 1 .. i - 1, NEW k \in 1 .. i - 1, c[j].backup_id = c[k].backup_id
                 PROVE  j = k
      OBVIOUS
    <3>1. ~(j < k) /\ ~(k < j)
      BY <1>2, <1>3, <2>1
    <3> QED
      BY <1>2, <2>1, <3>1
  <2>6. f \in Bijection(1 .. i - 1, T)
    BY <2>4, <2>5 DEF Bijection, Injection, IsInjective, Surjection
  <2> HIDE DEF f, T
  <2>7. ExistsBijection(1 .. i - 1, T) /\ i - 1 \in Nat
    BY <1>1, <2>6 DEF ExistsBijection
  <2> QED
    BY <2>7, FS_CountingElements DEF T
<1>5. Surplus(names, keep) = {c[i].backup_id : i \in {i \in DOMAIN c : i > keep}}
  <2> HIDE DEF names
  <2>1. ASSUME NEW i \in DOMAIN c
        PROVE  Cardinality(Newer(c[i].backup_id, names)) >= keep <=> i > keep
    <3>1. Cardinality(Newer(c[i].backup_id, names)) = i - 1 /\ i \in Int
      BY <1>2, <1>4
    <3> QED
      BY <3>1
  <2>2. Surplus(names, keep) = {x \in names : Cardinality(Newer(x, names)) >= keep}
    BY DEF Surplus
  <2> QED
    BY <2>1, <2>2 DEF names
<1>6. Cardinality(Surplus(names, keep)) = IF Len(c) > keep THEN Len(c) - keep ELSE 0
  <2> DEFINE T == {c[i].backup_id : i \in {i \in DOMAIN c : i > keep}}
  <2>1. CASE Len(c) > keep
    <3> DEFINE k == Len(c) - keep
               f == [j \in 1 .. k |-> c[keep + j].backup_id]
    <3>1. k \in Nat /\ \A j \in 1 .. k : keep + j \in DOMAIN c /\ keep + j > keep
      BY <1>1, <2>1
    <3>2. \A i \in DOMAIN c : i > keep => i - keep \in 1 .. k /\ keep + (i - keep) = i
      BY <1>1, <2>1
    <3>3. f \in Surjection(1 .. k, T)
      BY <3>1, <3>2 DEF Surjection
    <3>4. ASSUME NEW j \in 1 .. k, NEW l \in 1 .. k, f[j] = f[l] PROVE j = l
      <4>1. ~(keep + j < keep + l) /\ ~(keep + l < keep + j)
        BY <1>2, <1>3, <3>1, <3>4
      <4> QED
        BY <3>1, <4>1
    <3>5. f \in Bijection(1 .. k, T)
      BY <3>3, <3>4 DEF Bijection, Injection, IsInjective, Surjection
    <3> HIDE DEF f, T, k
    <3>6. ExistsBijection(1 .. k, T)
      BY <3>5 DEF ExistsBijection
    <3>7. Cardinality(T) = k
      BY <3>1, <3>6, FS_CountingElements
    <3> QED
      BY <1>5, <2>1, <3>7 DEF T, k
  <2>2. CASE ~(Len(c) > keep)
    <3>1. T = {}
      BY <1>1, <2>2
    <3> QED
      BY <1>5, <2>2, <3>1, FS_EmptySet
  <2> QED
    BY <2>1, <2>2
<1> QED
  BY <1>5, <1>6

\* [b.backup_id for b in a] followed by those of b.
LEMMA IdsConcat ==
    ASSUME NEW a \in Seq(Rows), NEW b \in Seq(Rows)
    PROVE  LET t == IdsOf(a) \o IdsOf(b)
           IN  /\ ToSet(t) = {r.backup_id : r \in ToSet(a)} \cup {r.backup_id : r \in ToSet(b)}
               /\ \A i \in 1 .. Len(a) : t[i] = a[i].backup_id
<1> DEFINE f == IdsOf(a)
           g == IdsOf(b)
           t == f \o g
<1>1. /\ Len(a) \in Nat /\ DOMAIN a = 1 .. Len(a)
      /\ Len(b) \in Nat /\ DOMAIN b = 1 .. Len(b)
  BY LenProperties
<1>2. f \in [1 .. Len(a) -> Int] /\ g \in [1 .. Len(b) -> Int]
  <2>1. \A i \in 1 .. Len(a) : a[i] \in Rows
    BY ElementOfSeq
  <2>2. \A i \in 1 .. Len(b) : b[i] \in Rows
    BY ElementOfSeq
  <2> QED
    BY <1>1, <2>1, <2>2, RowIds DEF IdsOf
<1>3. /\ \A i \in 1 .. Len(a) : f[i] = a[i].backup_id
      /\ \A i \in 1 .. Len(b) : g[i] = b[i].backup_id
  BY <1>1 DEF IdsOf
<1> HIDE DEF f, g
<1>4. f \in Seq(Int) /\ Len(f) = Len(a) /\ g \in Seq(Int) /\ Len(g) = Len(b)
  BY <1>1, <1>2, IsList
<1>5. /\ t \in Seq(Int) /\ Len(t) = Len(a) + Len(b)
      /\ \A i \in 1 .. Len(a) + Len(b) :
            t[i] = IF i <= Len(a) THEN f[i] ELSE g[i - Len(a)]
  <2>1. /\ t \in Seq(Int) /\ Len(t) = Len(f) + Len(g)
        /\ \A i \in 1 .. Len(f) + Len(g) :
              t[i] = IF i <= Len(f) THEN f[i] ELSE g[i - Len(f)]
    BY <1>4, ConcatProperties, Zenon
  <2> QED
    BY <1>4, <2>1, Zenon
<1> HIDE DEF t
<1>6. DOMAIN t = 1 .. Len(a) + Len(b)
  BY <1>5, LenProperties
<1>7. \A i \in 1 .. Len(a) : i \in DOMAIN t /\ t[i] = a[i].backup_id
  <2> SUFFICES ASSUME NEW i \in 1 .. Len(a)
               PROVE  i \in DOMAIN t /\ t[i] = a[i].backup_id
    OBVIOUS
  <2>1. i \in 1 .. Len(a) + Len(b) /\ i <= Len(a)
    BY <1>1
  <2> QED
    BY <1>3, <1>5, <1>6, <2>1
<1>8. \A i \in 1 .. Len(b) : Len(a) + i \in DOMAIN t /\ t[Len(a) + i] = b[i].backup_id
  <2> SUFFICES ASSUME NEW i \in 1 .. Len(b)
               PROVE  Len(a) + i \in DOMAIN t /\ t[Len(a) + i] = b[i].backup_id
    OBVIOUS
  <2>1. /\ Len(a) + i \in 1 .. Len(a) + Len(b) /\ ~(Len(a) + i <= Len(a))
        /\ (Len(a) + i) - Len(a) = i
    BY <1>1
  <2> QED
    BY <1>3, <1>5, <1>6, <2>1
<1>9. \A k \in DOMAIN t : \/ \E i \in 1 .. Len(a) : t[k] = a[i].backup_id
                          \/ \E i \in 1 .. Len(b) : t[k] = b[i].backup_id
  <2> SUFFICES ASSUME NEW k \in 1 .. Len(a) + Len(b)
               PROVE  \/ \E i \in 1 .. Len(a) : t[k] = a[i].backup_id
                      \/ \E i \in 1 .. Len(b) : t[k] = b[i].backup_id
    BY <1>6
  <2>1. CASE k <= Len(a)
    <3>1. k \in 1 .. Len(a)
      BY <1>1, <2>1
    <3> QED
      BY <1>7, <3>1
  <2>2. CASE ~(k <= Len(a))
    <3>1. k - Len(a) \in 1 .. Len(b)
      BY <1>1, <2>2
    <3> QED
      BY <1>3, <1>5, <2>2, <3>1
  <2> QED
    BY <2>1, <2>2
<1>10. ToSet(t) = {r.backup_id : r \in ToSet(a)} \cup {r.backup_id : r \in ToSet(b)}
  <2> DEFINE A == {r.backup_id : r \in ToSet(a)}
             B == {r.backup_id : r \in ToSet(b)}
  <2>1. /\ \A v : v \in A <=> \E i \in 1 .. Len(a) : v = a[i].backup_id
        /\ \A v : v \in B <=> \E i \in 1 .. Len(b) : v = b[i].backup_id
        /\ \A v : v \in ToSet(t) <=> \E k \in DOMAIN t : v = t[k]
    BY <1>1 DEF ToSet
  <2> HIDE DEF A, B
  <2>2. ToSet(t) \subseteq A \cup B
    BY <1>9, <2>1
  <2>3. A \subseteq ToSet(t)
    BY <1>7, <2>1
  <2>4. B \subseteq ToSet(t)
    BY <1>8, <2>1
  <2>5. ToSet(t) = A \cup B
    BY <2>2, <2>3, <2>4
  <2> QED
    BY <2>5 DEF A, B
<1> QED
  BY <1>7, <1>10 DEF t, f, g

\* A slice of a list.
LEMMA SliceSet ==
    ASSUME NEW c \in Seq(Rows), NEW m \in 1 .. Len(c) + 1, NEW n \in 0 .. Len(c), m <= n + 1
    PROVE  /\ SubSeq(c, m, n) \in Seq(Rows) /\ Len(SubSeq(c, m, n)) = n - m + 1
           /\ \A i \in 1 .. n - m + 1 : SubSeq(c, m, n)[i] = c[m + i - 1]
           /\ ToSet(SubSeq(c, m, n)) = {c[i] : i \in m .. n}
<1> DEFINE t == SubSeq(c, m, n)
<1>1. Len(c) \in Nat /\ m \in Int /\ n \in Int
  BY LenProperties
<1>2. \A i \in m .. n : c[i] \in Rows
  <2>1. \A i \in m .. n : i \in 1 .. Len(c)
    BY <1>1
  <2> QED
    BY <2>1, ElementOfSeq
<1>3. /\ t \in Seq(Rows)
      /\ Len(t) = IF m <= n THEN n - m + 1 ELSE 0
      /\ \A i \in 1 .. n - m + 1 : t[i] = c[m + i - 1]
  BY <1>1, <1>2, SubSeqProperties
<1>4. Len(t) = n - m + 1
  BY <1>1, <1>3
<1>5. DOMAIN t = 1 .. n - m + 1
  BY <1>3, <1>4, LenProperties
<1> HIDE DEF t
<1>6. \A i \in 1 .. n - m + 1 : m + i - 1 \in m .. n
  BY <1>1
<1>7. \A i \in m .. n : i - m + 1 \in 1 .. n - m + 1 /\ m + (i - m + 1) - 1 = i
  BY <1>1
<1>8. \A i \in m .. n : t[i - m + 1] = c[i]
  BY <1>3, <1>7
<1>9. ToSet(t) = {c[i] : i \in m .. n}
  <2>1. ASSUME NEW k \in DOMAIN t PROVE \E i \in m .. n : t[k] = c[i]
    BY <1>3, <1>5, <1>6
  <2>2. ASSUME NEW i \in m .. n PROVE \E k \in DOMAIN t : t[k] = c[i]
    BY <1>5, <1>7, <1>8
  <2>3. ToSet(t) = {t[k] : k \in DOMAIN t}
    BY DEF ToSet
  <2>4. {t[k] : k \in DOMAIN t} \subseteq {c[i] : i \in m .. n}
    BY <2>1
  <2>5. {c[i] : i \in m .. n} \subseteq {t[k] : k \in DOMAIN t}
    BY <2>2
  <2> QED
    BY <2>3, <2>4, <2>5
<1> QED
  BY <1>3, <1>4, <1>9 DEF t

\* A listing as a list: every StoredBackup, once.
LEMMA ListingAsList ==
    ASSUME PurgingInv, NEW s \in SetToSeqs(listing)
    PROVE  s \in Seq(Rows) /\ IsInjective(s) /\ ToSet(s) = listing
<1> DEFINE n == Cardinality(listing)
<1>1. n \in Nat /\ IsFiniteSet(listing) /\ listing \subseteq Rows
  BY FS_CardinalityType DEF PurgingInv
<1>2. s \in [1 .. n -> listing] /\ \A i, j \in 1 .. n : i # j => s[i] # s[j]
  BY DEF SetToSeqs
<1> HIDE DEF n
<1>3. s \in Injection(1 .. n, listing) /\ IsInjective(s)
  BY <1>2 DEF Injection, IsInjective
<1>4. Cardinality(1 .. n) = n
  BY <1>1, FS_Interval
<1>5. s \in Surjection(1 .. n, listing)
  BY <1>1, <1>3, <1>4, FS_Injection DEF n
<1>6. ToSet(s) = listing
  BY <1>2, <1>5 DEF ToSet, Surjection
<1>7. s \in [1 .. n -> Rows]
  BY <1>1, <1>2
<1> QED
  BY <1>1, <1>3, <1>6, <1>7, IsList

\* The lists `complete` and `incomplete` of select_purge.
LEMMA ListParts ==
    ASSUME PurgingInv, NEW s \in SetToSeqs(listing)
    PROVE  LET complete == Sorted(Filter(s, {i \in DOMAIN s : s[i].complete}))
               incomplete == Filter(s, {i \in DOMAIN s : ~s[i].complete})
           IN  /\ complete \in Seq(Rows) /\ Falling(complete)
               /\ ToSet(complete) = {b \in listing : b.complete}
               /\ incomplete \in Seq(Rows)
               /\ ToSet(incomplete) = {b \in listing : ~b.complete}
<1> DEFINE I == {i \in DOMAIN s : s[i].complete}
           J == {i \in DOMAIN s : ~s[i].complete}
           c == Filter(s, I)
<1>1. s \in Seq(Rows) /\ IsInjective(s) /\ ToSet(s) = listing
  BY ListingAsList
<1>2. {s[i] : i \in I} = {b \in listing : b.complete} /\ {s[i] : i \in J} = {b \in listing : ~b.complete}
  BY <1>1 DEF ToSet
<1>3. I \in SUBSET DOMAIN s /\ J \in SUBSET DOMAIN s
  OBVIOUS
<1> HIDE DEF I, J
<1>4. Filter(s, J) \in Seq(Rows) /\ ToSet(Filter(s, J)) = {s[i] : i \in J}
  BY <1>1, <1>3, FilterFacts
<1>5. c \in Seq(Rows) /\ ToSet(c) = {s[i] : i \in I} /\ IsInjective(c)
  BY <1>1, <1>3, FilterFacts
<1> HIDE DEF c
<1>6. ASSUME NEW i \in DOMAIN c, NEW j \in DOMAIN c, c[i].backup_id = c[j].backup_id PROVE i = j
  <2>1. c[i] \in {b \in listing : b.complete} /\ c[j] \in {b \in listing : b.complete}
    BY <1>2, <1>5 DEF ToSet
  <2>2. c[i] = c[j]
    BY <1>6, <2>1 DEF PurgingInv
  <2> QED
    BY <1>5, <2>2 DEF IsInjective
<1>7. Sorted(c) \in Seq(Rows) /\ ToSet(Sorted(c)) = ToSet(c) /\ Falling(Sorted(c))
  BY <1>5, <1>6, SortedFacts
<1> QED
  BY <1>2, <1>4, <1>5, <1>7 DEF I, J, c

\* The plan of sets and the plan of lists agree.
LEMMA CodeIsPlan ==
    ASSUME PurgingInv, NEW x \in InProgress, NEW s \in SetToSeqs(listing)
    PROVE  LET plan == Plan(listing, x)
               k == Cardinality(plan.surplus)
               code == Reference(s, x)
           IN  /\ ToSet(code.keep) = plan.keep
               /\ ToSet(code.delete) = plan.surplus \cup plan.stale
               /\ {code.delete[i] : i \in 1 .. k} = plan.surplus
               /\ \A i, j \in 1 .. k : i < j => code.delete[i] > code.delete[j]
<1> DEFINE c == Sorted(Filter(s, {i \in DOMAIN s : s[i].complete}))
           inc == Filter(s, {i \in DOMAIN s : ~s[i].complete})
           n == Len(c)
           cut == IF n < PurgeKeep THEN n ELSE PurgeKeep
           stays == {i \in DOMAIN inc : Stays(inc[i], x)}
           old == Filter(inc, stays)
           gone == Filter(inc, (DOMAIN inc) \ stays)
           head == SubSeq(c, 1, cut)
           tail == SubSeq(c, cut + 1, n)
           keep == IdsOf(head) \o IdsOf(old)
           delete == IdsOf(tail) \o IdsOf(gone)
           names == {c[i].backup_id : i \in DOMAIN c}
           k == Cardinality(Surplus(names, PurgeKeep))
<1>1. Reference(s, x).keep = keep /\ Reference(s, x).delete = delete
  BY DEF Reference
<1>2. /\ c \in Seq(Rows) /\ Falling(c) /\ ToSet(c) = {b \in listing : b.complete}
      /\ inc \in Seq(Rows) /\ ToSet(inc) = {b \in listing : ~b.complete}
  BY ListParts
<1> HIDE DEF c, inc
<1>3. n \in Nat /\ DOMAIN c = 1 .. n /\ PurgeKeep \in Nat
  BY <1>2, LenProperties, PurgingAssumption
<1> HIDE DEF n
<1>4. cut \in 0 .. n /\ cut + 1 \in 1 .. n + 1 /\ (n > PurgeKeep => cut = PurgeKeep)
      /\ (~(n > PurgeKeep) => cut = n)
  BY <1>3
<1> HIDE DEF cut
<1>5. /\ head \in Seq(Rows) /\ ToSet(head) = {c[i] : i \in 1 .. cut}
      /\ tail \in Seq(Rows) /\ Len(tail) = n - cut
      /\ \A i \in 1 .. n - cut : tail[i] = c[cut + i]
      /\ ToSet(tail) = {c[i] : i \in cut + 1 .. n}
  <2>1. /\ head \in Seq(Rows) /\ ToSet(head) = {c[i] : i \in 1 .. cut}
    <3>1. 1 \in 1 .. n + 1 /\ cut \in 0 .. n /\ 1 <= cut + 1
      BY <1>3, <1>4
    <3> QED
      BY <1>2, <3>1, SliceSet DEF n
  <2>2. cut + 1 \in 1 .. n + 1 /\ n \in 0 .. n /\ cut + 1 <= n + 1
    BY <1>3, <1>4
  <2>3. /\ tail \in Seq(Rows) /\ Len(tail) = n - (cut + 1) + 1
        /\ \A i \in 1 .. n - (cut + 1) + 1 : tail[i] = c[(cut + 1) + i - 1]
        /\ ToSet(tail) = {c[i] : i \in cut + 1 .. n}
    BY <1>2, <2>2, SliceSet DEF n
  <2>4. n - (cut + 1) + 1 = n - cut /\ \A i \in 1 .. n - cut : (cut + 1) + i - 1 = cut + i
    BY <1>3, <1>4
  <2> HIDE DEF tail
  <2> QED
    BY <2>1, <2>3, <2>4
<1>6. /\ old \in Seq(Rows) /\ ToSet(old) = {b \in listing : ~b.complete /\ Stays(b, x)}
      /\ gone \in Seq(Rows) /\ ToSet(gone) = {b \in listing : ~b.complete /\ ~Stays(b, x)}
  <2>1. stays \in SUBSET DOMAIN inc /\ (DOMAIN inc) \ stays \in SUBSET DOMAIN inc
    OBVIOUS
  <2>2. /\ {inc[i] : i \in stays} = {b \in ToSet(inc) : Stays(b, x)}
        /\ {inc[i] : i \in (DOMAIN inc) \ stays} = {b \in ToSet(inc) : ~Stays(b, x)}
    BY DEF ToSet
  <2> HIDE DEF stays
  <2>3. old \in Seq(Rows) /\ ToSet(old) = {inc[i] : i \in stays}
    BY <1>2, <2>1, FilterFacts
  <2>4. gone \in Seq(Rows) /\ ToSet(gone) = {inc[i] : i \in (DOMAIN inc) \ stays}
    BY <1>2, <2>1, FilterFacts
  <2> HIDE DEF old, gone
  <2> QED
    BY <1>2, <2>2, <2>3, <2>4
<1> HIDE DEF head, tail, old, gone
<1>7. /\ ToSet(keep) = {r.backup_id : r \in ToSet(head)} \cup {r.backup_id : r \in ToSet(old)}
      /\ ToSet(delete) = {r.backup_id : r \in ToSet(tail)} \cup {r.backup_id : r \in ToSet(gone)}
      /\ \A i \in 1 .. Len(tail) : delete[i] = tail[i].backup_id
  BY <1>5, <1>6, IdsConcat
<1> HIDE DEF keep, delete
<1>8. /\ Surplus(names, PurgeKeep) = {c[i].backup_id : i \in {i \in DOMAIN c : i > PurgeKeep}}
      /\ k = IF n > PurgeKeep THEN n - PurgeKeep ELSE 0
  BY <1>2, <1>3, SliceFacts DEF n
<1>9. {i \in DOMAIN c : i > PurgeKeep} = cut + 1 .. n /\ k = n - cut
  BY <1>3, <1>4, <1>8
<1>10. Surplus(names, PurgeKeep) = {r.backup_id : r \in ToSet(tail)}
  BY <1>5, <1>8, <1>9
<1>11. names \ Surplus(names, PurgeKeep) = {r.backup_id : r \in ToSet(head)}
  <2>1. \A i, j \in DOMAIN c : c[i].backup_id = c[j].backup_id => i = j
    <3> SUFFICES ASSUME NEW i \in DOMAIN c, NEW j \in DOMAIN c, c[i].backup_id = c[j].backup_id
                 PROVE  i = j
      OBVIOUS
    <3>1. c[i].backup_id \in Int /\ c[j].backup_id \in Int /\ i \in Int /\ j \in Int
      <4>1. c[i] \in Rows /\ c[j] \in Rows
        BY <1>2, <1>3, ElementOfSeq DEF n
      <4> QED
        BY <1>3, <4>1, RowIds
    <3>2. ~(i < j) /\ ~(j < i)
      BY <1>2, <3>1 DEF Falling
    <3> QED
      BY <3>1, <3>2
  <2>2. DOMAIN c = (1 .. cut) \cup (cut + 1 .. n) /\ (1 .. cut) \cap (cut + 1 .. n) = {}
    BY <1>3, <1>4
  <2>3. Surplus(names, PurgeKeep) = {c[i].backup_id : i \in cut + 1 .. n}
    BY <1>8, <1>9
  <2>4. {r.backup_id : r \in ToSet(head)} = {c[i].backup_id : i \in 1 .. cut}
    BY <1>5
  <2> QED
    BY <2>1, <2>2, <2>3, <2>4
<1>12. names = {b.backup_id : b \in {b \in listing : b.complete}}
  BY <1>2 DEF ToSet
<1> HIDE DEF names, k
<1>13. ASSUME NEW b \in listing PROVE Stays(b, x) <=> ~(b.backup_id # x /\ Expired(b, PurgeGrace, now))
  <2>1. now \in Int /\ b.stored_at \in Int /\ PurgeGrace \in Int
    BY PurgingAssumption DEF PurgingInv, Rows
  <2>2. now - b.stored_at < PurgeGrace <=> ~(now - b.stored_at >= PurgeGrace)
    BY <2>1
  <2> QED
    BY <2>2 DEF Stays, Expired
<1>14. /\ Plan(listing, x).surplus = Surplus(names, PurgeKeep)
       /\ Plan(listing, x).stale = {r.backup_id : r \in ToSet(gone)}
       /\ Plan(listing, x).keep = (names \ Surplus(names, PurgeKeep))
                                     \cup {r.backup_id : r \in ToSet(old)}
  <2> DEFINE incomplete == {b \in listing : ~b.complete}
             stale == {b \in incomplete : b.backup_id # x /\ Expired(b, PurgeGrace, now)}
  <2>1. stale = ToSet(gone) /\ incomplete \ stale = ToSet(old)
    BY <1>6, <1>13
  <2>2. /\ Plan(listing, x).surplus = Surplus(names, PurgeKeep)
        /\ Plan(listing, x).stale = {r.backup_id : r \in stale}
        /\ Plan(listing, x).keep = (names \ Surplus(names, PurgeKeep))
                                      \cup {r.backup_id : r \in incomplete \ stale}
    BY <1>12 DEF Plan, select_purge
  <2> QED
    BY <2>1, <2>2
<1>15. \A i \in 1 .. k : delete[i] = c[cut + i].backup_id /\ cut + i \in cut + 1 .. n
  <2> SUFFICES ASSUME NEW i \in 1 .. n - cut
               PROVE  delete[i] = c[cut + i].backup_id /\ cut + i \in cut + 1 .. n
    BY <1>9
  <2> QED
    BY <1>3, <1>4, <1>5, <1>7
<1>16. {delete[i] : i \in 1 .. k} = Surplus(names, PurgeKeep)
  <2>1. \A j \in cut + 1 .. n : j - cut \in 1 .. k /\ cut + (j - cut) = j
    BY <1>3, <1>4, <1>9
  <2>2. \A j \in cut + 1 .. n : delete[j - cut] = c[j].backup_id
    BY <1>15, <2>1
  <2> QED
    BY <1>8, <1>9, <1>15, <2>1, <2>2
<1>17. ASSUME NEW i \in 1 .. k, NEW j \in 1 .. k, i < j PROVE delete[i] > delete[j]
  <2>1. cut + i \in DOMAIN c /\ cut + j \in DOMAIN c /\ cut + i < cut + j
    BY <1>3, <1>4, <1>9, <1>17
  <2> QED
    BY <1>2, <1>15, <2>1 DEF Falling
<1>18. ToSet(keep) = Plan(listing, x).keep
  BY <1>7, <1>11, <1>14
<1>19. ToSet(delete) = Plan(listing, x).surplus \cup Plan(listing, x).stale
  BY <1>7, <1>10, <1>14
<1>20. Cardinality(Plan(listing, x).surplus) = k
  BY <1>14 DEF k
<1>21. {delete[i] : i \in 1 .. k} = Plan(listing, x).surplus
  BY <1>14, <1>16
<1>22. \A i, j \in 1 .. k : i < j => delete[i] > delete[j]
  BY <1>17
<1> QED
  BY <1>1, <1>18, <1>19, <1>20, <1>21, <1>22, Zenon

\* select_purge of the model, which speaks of sets, is select_purge of the code,
\* which builds lists: for every keep and grace period, on every listing, in
\* whatever order a destination returns it.
THEOREM PlanIsCode == Spec => []PlanMatchesCode
<1>1. PurgingInv => PlanMatchesCode
  BY CodeIsPlan DEF PlanMatchesCode
<1> QED
  BY <1>1, PurgingInit, PurgingStep, PTL DEF Spec
==============================================================================
