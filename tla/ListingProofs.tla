---------------------------- MODULE ListingProofs ----------------------------
(***************************************************************************)
(* The properties of Listing for any number of invocations beside the list *)
(* command and any number of destinations of either kind.                  *)
(***************************************************************************)
EXTENDS Listing, OrchestratorProofs

Rows == [backup_id : Names, complete : BOOLEAN, stored_at : Times]

Scans ==
    [place : {"idle", "open", "entry", "second", "end"}, todo : SUBSET Dests, left : SUBSET Names,
     name : Names \cup {NoId}, at : Times, complete : BOOLEAN, rows : SUBSET Rows,
     code : {"SUCCESS", "PRECONDITION_FAILED", "INTERNAL_ERROR"}, broken : BOOLEAN]

ListTypeOK ==
    /\ TypeOK /\ scan \in Scans /\ quiet \in BOOLEAN /\ steady \subseteq Ids
    /\ scan.place = "second" => scan.name \in Names

\* The names that destination d holds something under, and what list_backups
\* says of one of them.
Existing(d) == {n \in Names : disk[d][n] # "none"}
RowsOf(d, n) ==
    IF Kind[d] = "local" THEN {Row(IdOf(n), n \in Ids /\ HasMeta(disk[d][n]), mtime[d][n])}
    ELSE IF HasMeta(disk[d][n]) THEN {Row(n, TRUE, mtime[d][n])}
    ELSE IF n \notin Ids THEN {Row(IdOf(n), FALSE, mtime[d][n])} ELSE {}

Reading(d) == scan.place \in {"entry", "second"} /\ Scanned(d)
Pending == IF scan.place = "second" THEN {scan.name} ELSE {}

\* While nothing changes: what is still to be read exists, ...
Present(d) == scan.left \cup Pending \subseteq Existing(d)
\* ... what was read first of an entry is still true, ...
Half(d) ==
    scan.place = "second" =>
       IF Kind[d] = "local" THEN scan.complete <=> scan.name \in Ids /\ HasMeta(disk[d][scan.name])
                            ELSE scan.at = mtime[d][scan.name]
\* ... and the rows so far are those of the entries that have been read.
Sofar(d) ==
    /\ \A n \in Existing(d) \ (scan.left \cup Pending) : RowsOf(d, n) \subseteq scan.rows
    /\ \A row \in scan.rows : \E n \in Existing(d) : row \in RowsOf(d, n)

QuietInv == \A d \in Dests : quiet /\ Reading(d) => Present(d) /\ Half(d) /\ Sofar(d)

\* Whatever changes: a generation that stays is yet to be read, about to be shown
\* as complete, or shown.
Shown(x) == \E row \in scan.rows : row.backup_id = x /\ row.complete
SteadyInv ==
    \A d \in Dests : Reading(d) =>
       \A x \in steady :
          /\ disk[d][x] = "whole"
          /\ \/ x \in scan.left \/ Shown(x)
             \/ scan.place = "second" /\ scan.name = x /\ (Kind[d] = "local" => scan.complete)

ErrorInv == scan.code = "INTERNAL_ERROR" => scan.place = "end" /\ (scan.broken \/ ~quiet)

ListInv == ListTypeOK /\ QuietInv /\ SteadyInv /\ ErrorInv

-----------------------------------------------------------------------------
(* Listings, name by name                                                  *)

\* A name is a backup_id or the partial of one (PARTIAL_SUFFIX).
LEMMA NameParts ==
    /\ \A x \in Ids : IdOf(x) = x /\ Partial(x) \notin Ids /\ IdOf(Partial(x)) = x
    /\ \A n \in Names : IdOf(n) \in Ids /\ (n \notin Ids => n = Partial(IdOf(n)))
<1>1. \A x \in Ids : IdOf(x) = x /\ Partial(x) \notin Ids /\ IdOf(Partial(x)) = x
  BY PartialFacts, IdsAreInts DEF IdOf, Partial
<1>2. QED
  BY <1>1 DEF Names

\* list_backups of either backend says of each name what RowsOf does.
LEMMA ListingByName ==
    ASSUME TypeOK, NEW d \in Dests, NEW row
    PROVE  row \in list_backups(d) <=> \E n \in Existing(d) : row \in RowsOf(d, n)
<1>1. Kind[d] \in {"local", "ssh"} /\ disk[d] \in [Names -> DirStates]
  BY DestinationAssumption DEF TypeOK, Dests
<1>2. CASE Kind[d] = "local"
  <2>1. row \in list_backups(d) <=>
           \/ \E x \in Ids : disk[d][x] # "none" /\ row = Row(x, HasMeta(disk[d][x]), mtime[d][x])
           \/ \E x \in Ids : /\ disk[d][Partial(x)] # "none"
                             /\ row = Row(x, FALSE, mtime[d][Partial(x)])
    <3>1. list_backups(d) =
             {Row(x, HasMeta(disk[d][x]), mtime[d][x]) : x \in {x \in Ids : disk[d][x] # "none"}}
             \cup
             {Row(x, FALSE, mtime[d][Partial(x)]) : x \in {x \in Ids : disk[d][Partial(x)] # "none"}}
      BY <1>2, Zenon DEF list_backups, LocalListing, Row
    <3>2. QED
      BY <3>1, Zenon
  <2>2. \A n \in Names : row \in RowsOf(d, n) <=>
           row = Row(IdOf(n), n \in Ids /\ HasMeta(disk[d][n]), mtime[d][n])
    BY <1>2 DEF RowsOf
  <2>3. ASSUME NEW x \in Ids
        PROVE  /\ row \in RowsOf(d, x) <=> row = Row(x, HasMeta(disk[d][x]), mtime[d][x])
               /\ row \in RowsOf(d, Partial(x)) <=> row = Row(x, FALSE, mtime[d][Partial(x)])
    <3>1. /\ (x \in Ids /\ HasMeta(disk[d][x])) = HasMeta(disk[d][x])
          /\ (Partial(x) \in Ids /\ HasMeta(disk[d][Partial(x)])) = FALSE
          /\ IdOf(x) = x /\ IdOf(Partial(x)) = x
      BY NameParts DEF HasMeta
    <3>2. x \in Names /\ Partial(x) \in Names
      BY NameFacts
    <3>3. QED
      BY <2>2, <3>1, <3>2, Zenon
  <2>4. QED
    BY <2>1, <2>3, NameParts, NameFacts DEF Existing
<1>3. CASE Kind[d] = "ssh"
  <2>1. row \in list_backups(d) <=>
           \/ \E n \in Names : HasMeta(disk[d][n]) /\ row = Row(n, TRUE, mtime[d][n])
           \/ \E x \in Ids : /\ disk[d][Partial(x)] \in {"some", "full"}
                             /\ row = Row(x, FALSE, mtime[d][Partial(x)])
    BY <1>3 DEF list_backups, SSHListing, Row
  <2>2. ASSUME NEW n \in Names
        PROVE  row \in RowsOf(d, n) <=>
                 \/ HasMeta(disk[d][n]) /\ row = Row(n, TRUE, mtime[d][n])
                 \/ ~HasMeta(disk[d][n]) /\ n \notin Ids /\ row = Row(IdOf(n), FALSE, mtime[d][n])
    BY <1>3 DEF RowsOf
  <2>3. \A n \in Existing(d) : HasMeta(disk[d][n]) \/ disk[d][n] \in {"some", "full"}
    BY <1>1 DEF Existing, DirStates, HasMeta
  <2>4. \A n \in Names : HasMeta(disk[d][n]) \/ disk[d][n] \in {"some", "full"} => n \in Existing(d)
    BY DEF Existing, HasMeta
  <2>5. \A n \in Names : disk[d][n] \in {"some", "full"} => ~HasMeta(disk[d][n])
    BY DEF HasMeta
  <2>6. ASSUME row \in list_backups(d) PROVE \E n \in Existing(d) : row \in RowsOf(d, n)
    BY <2>1, <2>2, <2>4, <2>5, <2>6, NameParts, NameFacts
  <2>7. ASSUME NEW n \in Existing(d), row \in RowsOf(d, n) PROVE row \in list_backups(d)
    <3>1. n \in Names
      BY DEF Existing
    <3>2. QED
      BY <2>1, <2>2, <2>3, <2>7, <3>1, NameParts
  <2>8. QED
    BY <2>6, <2>7
<1>4. QED
  BY <1>1, <1>2, <1>3

\* A row is a row.
LEMMA RowType ==
    ASSUME NEW n \in Names, NEW complete \in BOOLEAN, NEW at \in Times
    PROVE  Row(n, complete, at) \in Rows /\ Row(IdOf(n), complete, at) \in Rows
  BY NameParts, NameFacts DEF Row, Rows

\* The scan reads one destination at a time.
LEMMA OneScanned ==
    ASSUME NEW d \in Dests, NEW e \in Dests, Scanned(d), Scanned(e)
    PROVE  d = e
  BY DestinationAssumption DEF Scanned, Dests

-----------------------------------------------------------------------------
(* The steps of the list command                                           *)

\* Before and after the reading of a destination.
LEMMA AroundStep ==
    ASSUME ListInv,
           StartList \/ EndList \/ \E d \in Dests : OpenFails(d) \/ PrintRows(d)
    PROVE  ListInv'
<1> USE DEF ListInv, ListTypeOK
<1>1. NoScan \in Scans /\ NoScan.place = "idle" /\ NoScan.code = "SUCCESS"
  BY IdFacts DEF NoScan, Scans
<1>2. scan' \in Scans /\ scan'.place \in {"idle", "open"} /\ scan'.code # "INTERNAL_ERROR"
  <2>1. CASE StartList
    <3>1. PICK targets \in SUBSET Dests : scan' = [NoScan EXCEPT !.place = "open", !.todo = targets]
      BY <2>1 DEF StartList, Scan
    <3>2. QED
      BY <1>1, <3>1 DEF Scans
  <2>2. CASE EndList
    BY <1>1, <2>2 DEF EndList, Scan
  <2>3. ASSUME NEW d \in Dests, OpenFails(d)
        PROVE  scan' \in Scans /\ scan'.place \in {"idle", "open"} /\ scan'.code # "INTERNAL_ERROR"
    BY <2>3 DEF OpenFails, Scans
  <2>4. ASSUME NEW d \in Dests, PrintRows(d)
        PROVE  scan' \in Scans /\ scan'.place \in {"idle", "open"} /\ scan'.code # "INTERNAL_ERROR"
    BY <2>4 DEF PrintRows, Printed, Scan, Scans, ErrorInv
  <2>5. QED
    BY <2>1, <2>2, <2>3, <2>4
<1>3. /\ UNCHANGED <<clock, lock, work, pc, job, disk, mtime, quiet, steady>>
      /\ UNCHANGED faults \/ Fault
  BY DEF StartList, EndList, OpenFails, PrintRows, Scan, vars, disks
<1>4. TypeOK'
  BY <1>3, OrchestratorAssumption DEF TypeOK, Fault
<1>5. QED
  BY <1>2, <1>3, <1>4 DEF QuietInv, SteadyInv, Reading, ErrorInv

\* Something could not be read.
LEMMA ReadFailsStep ==
    ASSUME ListInv, NEW d \in Dests, ReadFails(d)
    PROVE  ListInv'
<1> USE DEF ListInv, ListTypeOK
<1>1. scan' \in Scans /\ scan'.place = "end" /\ scan'.broken
  BY DEF ReadFails, Scans
<1>2. UNCHANGED <<clock, lock, work, pc, job, disk, mtime, quiet, steady>> /\ Fault
  BY DEF ReadFails, disks
<1>3. TypeOK'
  BY <1>2, OrchestratorAssumption DEF TypeOK, Fault
<1>4. QED
  BY <1>1, <1>2, <1>3 DEF QuietInv, SteadyInv, Reading, ErrorInv

\* Opening: everything is still to be read.
LEMMA OpenStep ==
    ASSUME ListInv, NEW d \in Dests, Open(d)
    PROVE  ListInv'
<1> USE DEF ListInv, ListTypeOK
<1>1. scan' = [scan EXCEPT !.place = "entry", !.rows = {}, !.left = Existing(d)]
      /\ scan.place = "open" /\ Scanned(d)
  BY DEF Open, Existing
<1>2. /\ scan' \in Scans /\ scan'.place = "entry" /\ scan'.rows = {} /\ scan'.left = Existing(d)
      /\ scan'.todo = scan.todo /\ scan'.code = scan.code
  BY <1>1 DEF Scans, Existing
<1>3. quiet' = TRUE /\ steady' = Whole(d) /\ UNCHANGED <<vars, disk, mtime>>
  BY DEF Open, vars
<1>4. TypeOK' /\ steady' \subseteq Ids
  BY <1>3 DEF TypeOK, vars, Whole
<1>5. \A e \in Dests : Reading(e)' => e = d
  BY <1>1, <1>2, OneScanned DEF Reading, Scanned
<1>6. Existing(d)' = Existing(d)
  BY <1>3 DEF Existing
<1>7. QuietInv'
  BY <1>2, <1>5, <1>6 DEF QuietInv, Present, Half, Sofar, Pending
<1>8. SteadyInv'
  BY <1>2, <1>3, <1>5, NameFacts DEF SteadyInv, Whole, Existing
<1>9. ErrorInv'
  BY <1>1, <1>2 DEF ErrorInv
<1>10. QED
  BY <1>2, <1>3, <1>4, <1>7, <1>8, <1>9

\* The first look at an entry.
LEMMA FirstStep ==
    ASSUME ListInv, NEW d \in Dests, NEW n \in Names, First(d, n)
    PROVE  ListInv'
<1> USE DEF ListInv, ListTypeOK
<1> DEFINE s == [scan EXCEPT !.left = @ \ {n}, !.name = n, !.place = "second"]
<1>1. scan.place = "entry" /\ Scanned(d) /\ n \in scan.left /\ scan \in Scans /\ Reading(d)
  BY DEF First, Reading
<1>2. /\ mtime[d][n] \in Times /\ disk[d] \in [Names -> DirStates] /\ Kind[d] \in {"local", "ssh"}
      /\ (n \in Ids /\ HasMeta(disk[d][n])) \in BOOLEAN
  BY DestinationAssumption DEF TypeOK, Dests, HasMeta
<1>3. /\ UNCHANGED <<vars, disk, mtime, quiet, steady>>
      /\ \/ Kind[d] = "ssh" /\ scan' = [s EXCEPT !.at = mtime[d][n]]
         \/ Kind[d] = "local" /\ disk[d][n] = "none" /\ scan' = [s EXCEPT !.place = "entry"]
         \/ /\ Kind[d] = "local" /\ disk[d][n] # "none"
            /\ scan' = [s EXCEPT !.complete = n \in Ids /\ HasMeta(disk[d][n])]
  BY <1>2 DEF First, Scan, Skip, vars
<1>4. /\ scan' \in Scans /\ scan'.left = scan.left \ {n} /\ scan'.rows = scan.rows
      /\ scan'.todo = scan.todo /\ scan'.code = scan.code /\ scan'.name = n
      /\ scan'.place \in {"entry", "second"}
      /\ scan'.place = "entry" => Kind[d] = "local" /\ disk[d][n] = "none"
      /\ scan'.place = "second" /\ Kind[d] = "local" =>
            disk[d][n] # "none" /\ (scan'.complete <=> n \in Ids /\ HasMeta(disk[d][n]))
      /\ Kind[d] = "ssh" => scan'.at = mtime[d][n]
  <2>1. /\ s \in Scans /\ s.left = scan.left \ {n} /\ s.rows = scan.rows /\ s.todo = scan.todo
        /\ s.code = scan.code /\ s.name = n /\ s.place = "second"
    BY <1>1 DEF Scans
  <2> HIDE DEF s
  <2>2. CASE Kind[d] = "ssh" /\ scan' = [s EXCEPT !.at = mtime[d][n]]
    BY <1>2, <2>1, <2>2 DEF Scans
  <2>3. CASE Kind[d] = "local" /\ disk[d][n] = "none" /\ scan' = [s EXCEPT !.place = "entry"]
    BY <2>1, <2>3 DEF Scans
  <2>4. CASE /\ Kind[d] = "local" /\ disk[d][n] # "none"
             /\ scan' = [s EXCEPT !.complete = n \in Ids /\ HasMeta(disk[d][n])]
    BY <1>2, <2>1, <2>4 DEF Scans
  <2>5. QED
    BY <1>3, <2>2, <2>3, <2>4
<1>5. TypeOK'
  BY <1>3 DEF TypeOK, vars
<1>6. \A e \in Dests : Reading(e)' => e = d
  BY <1>1, <1>4, OneScanned DEF Reading, Scanned
<1>7. Existing(d)' = Existing(d) /\ \A m : RowsOf(d, m)' = RowsOf(d, m)
  BY <1>3 DEF Existing, RowsOf
<1>8. QuietInv'
  <2>1. SUFFICES ASSUME quiet PROVE Present(d)' /\ Half(d)' /\ Sofar(d)'
    BY <1>3, <1>6 DEF QuietInv
  <2>2. Present(d) /\ Half(d) /\ Sofar(d) /\ Pending = {}
    BY <1>1, <2>1 DEF QuietInv, Pending
  <2>3. n \in Existing(d) /\ scan'.place = "second" /\ Pending' = {n}
    BY <1>1, <1>4, <2>2 DEF Present, Existing, Pending
  <2>4. Present(d)'
    BY <1>4, <1>7, <2>2, <2>3 DEF Present
  <2>5. Half(d)'
    BY <1>2, <1>3, <1>4 DEF Half
  <2>6. Sofar(d)'
    BY <1>1, <1>4, <1>7, <2>2, <2>3 DEF Sofar
  <2>7. QED
    BY <2>4, <2>5, <2>6
<1>9. SteadyInv'
  <2>1. SUFFICES ASSUME NEW x \in steady
                 PROVE  /\ disk[d][x] = "whole"
                        /\ \/ x \in scan'.left \/ Shown(x)'
                           \/ scan'.place = "second" /\ scan'.name = x /\ (Kind[d] = "local" => scan'.complete)
    BY <1>3, <1>6 DEF SteadyInv
  <2>2. disk[d][x] = "whole" /\ (x \in scan.left \/ Shown(x)) /\ x \in Ids
    BY <1>1 DEF SteadyInv
  <2>3. Shown(x)' = Shown(x)
    BY <1>4 DEF Shown
  <2>4. QED
    BY <1>2, <1>4, <2>2, <2>3 DEF HasMeta
<1>10. ErrorInv'
  BY <1>1, <1>4 DEF ErrorInv
<1>11. QED
  BY <1>3, <1>4, <1>5, <1>8, <1>9, <1>10

\* The second look at an entry, and its row.
LEMMA SecondStep ==
    ASSUME ListInv, NEW d \in Dests, Second(d)
    PROVE  ListInv'
<1> USE DEF ListInv, ListTypeOK
<1> DEFINE n == scan.name
           s == [scan EXCEPT !.place = "entry"]
           found == IF Kind[d] = "local" THEN {Row(IdOf(n), scan.complete, mtime[d][n])}
                    ELSE IF HasMeta(disk[d][n]) THEN {Row(n, TRUE, scan.at)}
                    ELSE IF n \notin Ids THEN {Row(IdOf(n), FALSE, scan.at)} ELSE {}
<1>1. scan.place = "second" /\ Scanned(d) /\ n \in Names /\ scan \in Scans /\ Reading(d)
  BY DEF Second, Reading
<1>2. /\ mtime[d][n] \in Times /\ disk[d] \in [Names -> DirStates] /\ Kind[d] \in {"local", "ssh"}
      /\ scan.complete \in BOOLEAN /\ scan.at \in Times /\ scan.rows \subseteq Rows
  BY <1>1, DestinationAssumption DEF TypeOK, Dests, Scans
<1>3. /\ UNCHANGED <<vars, disk, mtime, quiet, steady>>
      /\ \/ (Kind[d] = "local" => disk[d][n] # "none") /\ scan' = [s EXCEPT !.rows = @ \cup found]
         \/ /\ Kind[d] = "local" /\ disk[d][n] = "none"
            /\ scan' = [s EXCEPT !.place = "end", !.code = "INTERNAL_ERROR"]
  <2>1. UNCHANGED <<vars, disk, mtime, quiet, steady>>
    BY DEF Second, Scan, vars
  <2>2. CASE Kind[d] = "local"
    <3>1. found = {Row(IdOf(n), scan.complete, mtime[d][n])}
      BY <2>2
    <3> HIDE DEF found
    <3>2. QED
      BY <2>1, <2>2, <3>1, Zenon DEF Second, Scan, Gone
  <2>3. CASE Kind[d] = "ssh"
    <3>1. found = (IF HasMeta(disk[d][n]) THEN {Row(n, TRUE, scan.at)}
                   ELSE IF n \notin Ids THEN {Row(IdOf(n), FALSE, scan.at)} ELSE {})
      BY <2>3
    <3> HIDE DEF found
    <3>2. Kind[d] # "local"
      BY <2>3
    <3>3. QED
      BY <2>1, <3>1, <3>2, Zenon DEF Second, Scan, Gone
  <2>4. QED
    BY <1>2, <2>1, <2>2, <2>3
<1>4. TypeOK'
  BY <1>3 DEF TypeOK, vars
<1>5. found \subseteq Rows
  BY <1>1, <1>2, RowType
<1>6. CASE /\ Kind[d] = "local" /\ disk[d][n] = "none"
           /\ scan' = [s EXCEPT !.place = "end", !.code = "INTERNAL_ERROR"]
  <2>1. scan' \in Scans /\ scan'.place = "end"
    BY <1>1, <1>6 DEF Scans
  <2>2. ~quiet
    BY <1>1, <1>6 DEF QuietInv, Present, Pending, Existing
  <2>3. QED
    BY <1>3, <1>4, <2>1, <2>2 DEF QuietInv, SteadyInv, Reading, ErrorInv
<1>7. CASE (Kind[d] = "local" => disk[d][n] # "none") /\ scan' = [s EXCEPT !.rows = @ \cup found]
  <2> HIDE DEF found
  <2>1. /\ scan' \in Scans /\ scan'.place = "entry" /\ scan'.left = scan.left
        /\ scan'.rows = scan.rows \cup found /\ scan'.todo = scan.todo /\ scan'.code = scan.code
    BY <1>1, <1>2, <1>5, <1>7 DEF Scans
  <2>2. \A e \in Dests : Reading(e)' => e = d
    BY <1>1, <2>1, OneScanned DEF Reading, Scanned
  <2>3. Existing(d)' = Existing(d) /\ \A m : RowsOf(d, m)' = RowsOf(d, m)
    BY <1>3 DEF Existing, RowsOf
  <2>4. QuietInv'
    <3>1. SUFFICES ASSUME quiet PROVE Present(d)' /\ Half(d)' /\ Sofar(d)'
      BY <1>3, <2>2 DEF QuietInv
    <3>2. Present(d) /\ Half(d) /\ Sofar(d) /\ Pending = {n} /\ Pending' = {}
      BY <1>1, <2>1, <3>1 DEF QuietInv, Pending
    <3>3. found = RowsOf(d, n)
      <4>1. CASE Kind[d] = "local"
        <5>1. scan.complete = (n \in Ids /\ HasMeta(disk[d][n]))
          BY <1>1, <1>2, <3>2, <4>1 DEF Half, HasMeta
        <5>2. QED
          BY <4>1, <5>1, Zenon DEF found, RowsOf
      <4>2. CASE Kind[d] = "ssh"
        <5>1. scan.at = mtime[d][n]
          BY <1>1, <3>2, <4>2 DEF Half
        <5>2. QED
          BY <4>2, <5>1 DEF found, RowsOf
      <4>3. QED
        BY <1>2, <4>1, <4>2
    <3>4. Present(d)' /\ Half(d)'
      BY <2>1, <2>3, <3>2 DEF Present, Half
    <3>5. Sofar(d)'
      <4>1. n \in Existing(d)
        BY <3>2 DEF Present
      <4>2. QED
        BY <2>1, <2>3, <3>2, <3>3, <4>1 DEF Sofar
    <3>6. QED
      BY <3>4, <3>5
  <2>5. SteadyInv'
    <3>1. SUFFICES ASSUME NEW x \in steady
                   PROVE  disk[d][x] = "whole" /\ (x \in scan'.left \/ Shown(x)')
      BY <1>3, <2>2 DEF SteadyInv
    <3>2. /\ disk[d][x] = "whole" /\ x \in Ids
          /\ x \in scan.left \/ Shown(x) \/ (n = x /\ (Kind[d] = "local" => scan.complete))
      BY <1>1 DEF SteadyInv
    <3>3. Shown(x) => Shown(x)'
      BY <2>1 DEF Shown
    <3>4. ASSUME n = x, Kind[d] = "local" => scan.complete PROVE Shown(x)'
      <4>1. PICK row \in found : row.backup_id = x /\ row.complete
        <5>1. HasMeta(disk[d][x]) /\ IdOf(x) = x
          BY <3>2, NameParts DEF HasMeta
        <5>2. CASE Kind[d] = "local"
          BY <1>2, <3>4, <5>1, <5>2 DEF found, Row
        <5>3. CASE Kind[d] = "ssh"
          BY <3>4, <5>1, <5>3 DEF found, Row
        <5>4. QED
          BY <1>2, <5>2, <5>3
      <4>2. QED
        BY <2>1, <4>1 DEF Shown
    <3>5. QED
      BY <2>1, <3>2, <3>3, <3>4
  <2>6. ErrorInv'
    BY <1>1, <2>1 DEF ErrorInv
  <2>7. QED
    BY <1>3, <1>4, <2>1, <2>4, <2>5, <2>6
<1>8. QED
  BY <1>3, <1>6, <1>7

-----------------------------------------------------------------------------
(* The pipelines beside it, and the theorems                               *)

\* A step of a run or a purge: what it changes is in quiet and steady.
LEMMA BesideStep ==
    ASSUME ListInv, Beside
    PROVE  ListInv'
<1> USE DEF ListInv, ListTypeOK
<1>1. scan' = scan /\ TypeOK'
  BY TypeStep DEF Beside
<1>2. quiet' \in BOOLEAN /\ steady' \subseteq steady
  BY DEF Beside
<1>3. ASSUME quiet' PROVE quiet /\ \A d \in Dests : Scanned(d) => disk'[d] = disk[d] /\ mtime'[d] = mtime[d]
  BY <1>3 DEF Beside
<1>4. \A x \in steady', d \in Dests : Scanned(d) => disk'[d][x] = "whole"
  BY DEF Beside
<1>5. QuietInv'
  <2>1. SUFFICES ASSUME NEW d \in Dests, quiet', Reading(d)'
                 PROVE  Present(d)' /\ Half(d)' /\ Sofar(d)'
    BY DEF QuietInv
  <2>2. quiet /\ Reading(d) /\ disk'[d] = disk[d] /\ mtime'[d] = mtime[d] /\ Pending' = Pending
    BY <1>1, <1>3, <2>1 DEF Reading, Scanned, Pending
  <2>3. Present(d) /\ Half(d) /\ Sofar(d)
    BY <2>2 DEF QuietInv
  <2>4. Existing(d)' = Existing(d) /\ \A m : RowsOf(d, m)' = RowsOf(d, m)
    BY <2>2 DEF Existing, RowsOf
  <2>5. QED
    BY <1>1, <2>2, <2>3, <2>4 DEF Present, Half, Sofar
<1>6. SteadyInv'
  BY <1>1, <1>2, <1>4 DEF SteadyInv, Reading, Scanned, Shown
<1>7. ErrorInv'
  BY <1>1, <1>3 DEF ErrorInv
<1>8. QED
  BY <1>1, <1>2, <1>5, <1>6, <1>7

\* No list command runs at first.
LEMMA ListInvInit == ListInit => ListInv
<1>1. SUFFICES ASSUME ListInit PROVE ListInv
  OBVIOUS
<1>2. TypeOK
  BY <1>1, TypeInit DEF ListInit
<1>3. NoScan \in Scans /\ NoScan.place = "idle" /\ NoScan.code = "SUCCESS"
  BY IdFacts DEF NoScan, Scans
<1>4. QED
  BY <1>1, <1>2, <1>3
  DEF ListInit, ListInv, ListTypeOK, QuietInv, SteadyInv, ErrorInv, Reading

\* Every step of the list command and of the pipelines keeps the invariant.
LEMMA ListInvStep == ListInv /\ [ListNext]_lvars => ListInv'
<1>1. SUFFICES ASSUME ListInv, [ListNext]_lvars PROVE ListInv'
  OBVIOUS
<1>2. CASE UNCHANGED lvars
  <2>1. UNCHANGED <<clock, lock, work, pc, job, faults, disk, mtime, scan, quiet, steady>>
    BY <1>2 DEF lvars, vars
  <2>2. TypeOK'
    BY <1>1, <2>1 DEF ListInv, ListTypeOK, TypeOK
  <2>3. QuietInv'
    <3>1. SUFFICES ASSUME NEW d \in Dests, quiet, Reading(d)
                   PROVE  Present(d)' /\ Half(d)' /\ Sofar(d)'
      BY <2>1 DEF QuietInv, Reading, Scanned
    <3>2. Present(d) /\ Half(d) /\ Sofar(d)
      BY <1>1, <3>1 DEF ListInv, QuietInv
    <3>3. Pending' = Pending /\ Existing(d)' = Existing(d) /\ \A m : RowsOf(d, m)' = RowsOf(d, m)
      BY <2>1 DEF Pending, Existing, RowsOf
    <3>4. QED
      BY <2>1, <3>2, <3>3 DEF Present, Half, Sofar
  <2>4. SteadyInv' /\ ErrorInv'
    BY <1>1, <2>1 DEF ListInv, SteadyInv, ErrorInv, Reading, Scanned, Shown
  <2>5. QED
    BY <1>1, <2>1, <2>2, <2>3, <2>4 DEF ListInv, ListTypeOK
<1>3. CASE ListStep
  BY <1>1, <1>3, AroundStep, ReadFailsStep, OpenStep, FirstStep, SecondStep DEF ListStep
<1>4. CASE Beside
  BY <1>1, <1>4, BesideStep
<1>5. QED
  BY <1>1, <1>2, <1>3, <1>4 DEF ListNext

\* The invariant holds throughout.
LEMMA ListInvAlways == ListSpec => []ListInv
  BY ListInvInit, ListInvStep, PTL DEF ListSpec

\* A destination that does not change is listed as the pipelines see it
\* (list_backups of both backends, taken apart).
THEOREM ScanExact == ListSpec => []ScanIsListing
<1>1. ListInv => ScanIsListing
  <2>1. SUFFICES ASSUME ListInv, NEW d \in Dests, Printed(d), quiet
                 PROVE  scan.rows = list_backups(d)
    BY DEF ScanIsListing
  <2>2. Reading(d) /\ scan.left = {} /\ Pending = {}
    BY <2>1 DEF Printed, Reading, Pending
  <2>3. Sofar(d)
    BY <2>1, <2>2 DEF ListInv, QuietInv
  <2>4. \A row : row \in scan.rows <=> \E n \in Existing(d) : row \in RowsOf(d, n)
    BY <2>2, <2>3 DEF Sofar
  <2>5. \A row : row \in list_backups(d) <=> \E n \in Existing(d) : row \in RowsOf(d, n)
    BY <2>1, ListingByName DEF ListInv, ListTypeOK
  <2>6. QED
    BY <2>4, <2>5
<1>2. QED
  BY <1>1, ListInvAlways, PTL

\* A generation that stays is listed, and as complete, whatever runs and purges do.
THEOREM SteadyIsListed == ListSpec => []NothingOmitted
<1>1. ListInv => NothingOmitted
  BY DEF ListInv, SteadyInv, NothingOmitted, Printed, Reading, Shown
<1>2. QED
  BY <1>1, ListInvAlways, PTL

\* list ends with INTERNAL_ERROR, where everything could be read, only because a
\* directory went away between two looks at it (stat() of list_backups in
\* local.py).  What cannot be read is ReadFails.
THEOREM ErrorHasCause == ListSpec => []ListErrorExplained
<1>1. ListInv => ListErrorExplained
  BY DEF ListInv, ErrorInv, ListErrorExplained
<1>2. QED
  BY <1>1, ListInvAlways, PTL
==============================================================================
