----------------------------- MODULE ConfigProofs -----------------------------
(***************************************************************************)
(* What is started fits, for any number of edits of the file and any       *)
(* number of destinations that are left in it.                             *)
(***************************************************************************)
EXTENDS Config, TLAPS

-----------------------------------------------------------------------------
(* The invariant                                                           *)

\* The shape of what the operator can write.
Tables(schema) ==
    [shape : Shapes, unknown : BOOLEAN, keys : [DOMAIN schema -> Values]]
Entries ==
    [shape : {"table", "scalar"}, unknown : BOOLEAN, type : {"local", "ssh", "text", "absent"},
     keys : [DOMAIN Entry("ssh") -> Values]]

FileOK ==
    /\ DOMAIN file = {"state", "unknown", "version", "sections", "dshape", "dests"}
    /\ DOMAIN file.sections = DOMAIN Sections
    /\ \A s \in DOMAIN Sections : file.sections[s] \in Tables(Sections[s])
    /\ file.dests \in Seq(Entries)

\* What a file without errors is like.
Clean ==
    /\ file.sections["backup"].shape = "table"
    /\ \A s \in DOMAIN Sections :
          /\ file.sections[s].shape # "scalar"
          /\ file.sections[s].shape = "table" =>
                \A k \in DOMAIN Sections[s] : file.sections[s].keys[k] \in Sections[s][k]
    /\ file.dshape = "list" /\ file.dests # <<>>
    /\ \A i \in DOMAIN file.dests :
          /\ Appended(file.dests[i]) /\ ~Duplicate(i)
          /\ file.dests[i].type = "local" =>
                file.dests[i].keys["path"] # Str(file.sections["backup"].keys["work_dir"])

\* mbkeeper starts on the file it has read and found good, and an edit comes
\* before the next start.
StartInv == outcome = "STARTED" => Clean

ConfigInv == FileOK /\ StartInv

-----------------------------------------------------------------------------
(* Files                                                                   *)

\* The keys of an entry are the same for both types.
LEMMA EntryKeys ==
    \A type : DOMAIN Entry(type) = {"name", "path", "keep"} \cup SSHKeys
  BY DEF Entry

\* The sections of the file.
LEMMA SectionNames ==
    DOMAIN Sections = {"backup", "replication", "transfer", "retention", "logging", "lock", "hooks"}
  BY DEF Sections

\* A good entry is an entry.
LEMMA GoodEntryType ==
    ASSUME NEW type \in {"local", "ssh"}, NEW name \in Values, NEW path \in Values
    PROVE  GoodEntry(type, name, path) \in Entries
<1>1. {"1", "text", "absent"} \subseteq Values
  BY DEF Values, Texts
<1>2. GoodEntry(type, name, path).keys \in [DOMAIN Entry("ssh") -> Values]
  BY <1>1, EntryKeys DEF GoodEntry
<1> QED
  BY <1>2 DEF GoodEntry, Entries

\* The file the operator begins with.
LEMMA ConfigInit == Init => ConfigInv
<1> SUFFICES ASSUME Init PROVE ConfigInv
  OBVIOUS
<1>1. StartInv
  BY DEF Init, StartInv
<1>2. file = Good
  BY DEF Init
<1>3. {"/a/", "/b", "text", "choice", "absent"} \subseteq Values
  BY DEF Values, Texts
<1>4. file.dests \in Seq(Entries)
  <2>1. /\ GoodEntry("local", "text", "/b") \in Entries
        /\ GoodEntry("local", "choice", "text") \in Entries
        /\ GoodEntry("ssh", "/b", "/b") \in Entries
    BY <1>3, GoodEntryType
  <2> QED
    BY <1>2, <2>1 DEF Good
<1>5. ASSUME NEW s \in DOMAIN Sections PROVE Blank(Sections[s]) \in Tables(Sections[s])
  BY <1>3 DEF Blank, Tables, Shapes
<1>6. DOMAIN file.sections = DOMAIN Sections
  BY <1>2 DEF Good
<1>7. ASSUME NEW s \in DOMAIN Sections PROVE file.sections[s] \in Tables(Sections[s])
  <2>1. CASE s # "backup"
    <3>1. file.sections[s] = Blank(Sections[s])
      BY <1>2, <1>7, <2>1 DEF Good
    <3> QED
      BY <1>5, <1>7, <3>1
  <2>2. CASE s = "backup"
    <3>1. file.sections[s] = [Blank(Sections[s]) EXCEPT !.keys["work_dir"] = "/a/"]
      BY <1>2, <1>7, <2>2 DEF Good
    <3> QED
      BY <1>3, <1>5, <1>7, <3>1 DEF Tables
  <2> QED
    BY <2>1, <2>2
<1>8. DOMAIN file = {"state", "unknown", "version", "sections", "dshape", "dests"}
  BY <1>2 DEF Good
<1> QED
  BY <1>1, <1>4, <1>6, <1>7, <1>8 DEF ConfigInv, FileOK

\* An edit of a part that is no table keeps the shape of the file.
LEMMA EditTop ==
    ASSUME FileOK, NEW k \in {"state", "unknown", "version", "dshape"}, NEW v,
           file' = [file EXCEPT ![k] = v]
    PROVE  FileOK'
<1>1. DOMAIN file' = DOMAIN file /\ file'.sections = file.sections /\ file'.dests = file.dests
  BY DEF FileOK
<1> QED
  BY <1>1 DEF FileOK

\* So does an edit of one section.
LEMMA EditSection ==
    ASSUME FileOK, NEW s \in DOMAIN Sections, NEW t \in Tables(Sections[s]),
           file' = [file EXCEPT !.sections[s] = t]
    PROVE  FileOK'
<1>1. /\ DOMAIN file' = DOMAIN file /\ file'.dests = file.dests
      /\ file'.sections = [file.sections EXCEPT ![s] = t]
  BY DEF FileOK
<1>2. DOMAIN file'.sections = DOMAIN Sections
  BY <1>1 DEF FileOK
<1>3. \A r \in DOMAIN Sections : file'.sections[r] \in Tables(Sections[r])
  BY <1>1 DEF FileOK
<1> QED
  BY <1>1, <1>2, <1>3 DEF FileOK

\* And an edit of the list of destinations.
LEMMA EditDests ==
    ASSUME FileOK, NEW q \in Seq(Entries), file' = [file EXCEPT !.dests = q]
    PROVE  FileOK'
<1>1. DOMAIN file' = DOMAIN file /\ file'.sections = file.sections /\ file'.dests = q
  BY DEF FileOK
<1> QED
  BY <1>1 DEF FileOK

\* Whatever the operator writes is a file of this shape.
LEMMA EditStep ==
    ASSUME FileOK, Edit
    PROVE  FileOK'
<1> DEFINE sec(s) == file.sections[s]
<1>0. ASSUME NEW s \in DOMAIN Sections PROVE sec(s) \in Tables(Sections[s])
  BY <1>0 DEF FileOK
<1>1. ASSUME NEW s \in DOMAIN Sections, NEW k \in DOMAIN Sections[s], NEW v \in Values,
             file' = [file EXCEPT !.sections[s].keys[k] = v]
      PROVE  FileOK'
  <2> DEFINE t == [sec(s) EXCEPT !.keys[k] = v]
  <2>1. t \in Tables(Sections[s])
    BY <1>0, <1>1 DEF Tables
  <2>2. file' = [file EXCEPT !.sections[s] = t]
    BY <1>1 DEF FileOK
  <2> HIDE DEF t
  <2> QED
    BY <1>1, <2>1, <2>2, EditSection
<1>2. ASSUME NEW s \in DOMAIN Sections, NEW shape \in Shapes,
             file' = [file EXCEPT !.sections[s].shape = shape]
      PROVE  FileOK'
  <2> DEFINE t == [sec(s) EXCEPT !.shape = shape]
  <2>1. t \in Tables(Sections[s])
    BY <1>0, <1>2 DEF Tables
  <2>2. file' = [file EXCEPT !.sections[s] = t]
    BY <1>2 DEF FileOK
  <2> HIDE DEF t
  <2> QED
    BY <1>2, <2>1, <2>2, EditSection
<1>3. ASSUME NEW s \in DOMAIN Sections, file' = [file EXCEPT !.sections[s].unknown = TRUE]
      PROVE  FileOK'
  <2> DEFINE t == [sec(s) EXCEPT !.unknown = TRUE]
  <2>1. t \in Tables(Sections[s])
    BY <1>0, <1>3 DEF Tables
  <2>2. file' = [file EXCEPT !.sections[s] = t]
    BY <1>3 DEF FileOK
  <2> HIDE DEF t
  <2> QED
    BY <1>3, <2>1, <2>2, EditSection
<1>4. ASSUME NEW i \in DOMAIN file.dests, NEW e \in Entries, file' = [file EXCEPT !.dests[i] = e]
      PROVE  FileOK'
  <2> DEFINE q == [file.dests EXCEPT ![i] = e]
  <2>1. q \in Seq(Entries)
    BY <1>4 DEF FileOK
  <2>2. file' = [file EXCEPT !.dests = q]
    BY <1>4 DEF FileOK
  <2> HIDE DEF q
  <2> QED
    BY <2>1, <2>2, EditDests
<1>5. ASSUME NEW i \in DOMAIN file.dests PROVE file.dests[i] \in Entries
  BY <1>5 DEF FileOK
<1>6. ASSUME NEW i \in DOMAIN file.dests, NEW k \in DOMAIN Entry("ssh"), NEW v \in Values,
             file' = [file EXCEPT !.dests[i].keys[k] = v]
      PROVE  FileOK'
  <2> DEFINE e == [file.dests[i] EXCEPT !.keys[k] = v]
  <2>1. e \in Entries
    BY <1>5, <1>6 DEF Entries
  <2>2. file' = [file EXCEPT !.dests[i] = e]
    BY <1>6 DEF FileOK
  <2> HIDE DEF e
  <2> QED
    BY <1>4, <2>1, <2>2
<1>7. ASSUME NEW i \in DOMAIN file.dests,
             \/ \E type \in {"local", "ssh", "text", "absent"} :
                   file' = [file EXCEPT !.dests[i].type = type]
             \/ file' = [file EXCEPT !.dests[i].shape = "scalar"]
             \/ file' = [file EXCEPT !.dests[i].unknown = TRUE]
      PROVE  FileOK'
  <2> DEFINE e(type) == [file.dests[i] EXCEPT !.type = type]
             scalar == [file.dests[i] EXCEPT !.shape = "scalar"]
             unknown == [file.dests[i] EXCEPT !.unknown = TRUE]
  <2>1. \A type \in {"local", "ssh", "text", "absent"} : e(type) \in Entries
    BY <1>5, <1>7 DEF Entries
  <2>2. scalar \in Entries /\ unknown \in Entries
    BY <1>5, <1>7 DEF Entries
  <2>3. \/ \E type \in {"local", "ssh", "text", "absent"} : file' = [file EXCEPT !.dests[i] = e(type)]
        \/ file' = [file EXCEPT !.dests[i] = scalar]
        \/ file' = [file EXCEPT !.dests[i] = unknown]
    BY <1>7 DEF FileOK
  <2> HIDE DEF e, scalar, unknown
  <2> QED
    BY <1>4, <1>7, <2>1, <2>2, <2>3
<1>8. ASSUME NEW i \in DOMAIN file.dests,
             file' = [file EXCEPT !.dests = SubSeq(@, 1, i - 1) \o SubSeq(@, i + 1, Len(@))]
      PROVE  FileOK'
  <2> DEFINE old == file.dests
             q == SubSeq(old, 1, i - 1) \o SubSeq(old, i + 1, Len(old))
  <2>1. old \in Seq(Entries)
    BY DEF FileOK
  <2>2. q \in Seq(Entries)
    <3> HIDE DEF old
    <3>1. SubSeq(old, 1, i - 1) \in Seq(Entries) /\ SubSeq(old, i + 1, Len(old)) \in Seq(Entries)
      BY <1>8, <2>1 DEF old
    <3> QED
      BY <3>1
  <2>3. file' = [file EXCEPT !.dests = q]
    BY <1>8
  <2> HIDE DEF q
  <2> QED
    BY <2>2, <2>3, EditDests
<1>9. ASSUME \/ \E shape \in {"absent", "scalar"} : file' = [file EXCEPT !.dshape = shape]
             \/ \E v \in Values : file' = [file EXCEPT !.version = v]
             \/ file' = [file EXCEPT !.unknown = TRUE]
             \/ \E st \in {"missing", "unreadable", "undecodable", "unparsable"} :
                   file' = [file EXCEPT !.state = st]
      PROVE  FileOK'
  BY <1>9, EditTop
<1> QED
  BY <1>1, <1>2, <1>3, <1>6, <1>7, <1>8, <1>9 DEF Edit

-----------------------------------------------------------------------------
(* parse_config                                                            *)

\* Nothing is wrong with a table that has no errors.
LEMMA NothingWrong ==
    ASSUME NEW table, NEW schema, Wrong(table, schema) = {}
    PROVE  \A k \in DOMAIN schema : table.keys[k] \in schema[k]
  BY DEF Wrong

\* An entry without errors is appended.
LEMMA EntryClean ==
    ASSUME NEW e, EntryErrors(e) = {}
    PROVE  Appended(e)
<1>1. Known(e) /\ Wrong(e, Entry(e.type)) = {}
  BY DEF EntryErrors
<1>2. \A k \in DOMAIN Entry(e.type) : e.keys[k] \in Entry(e.type)[k]
  BY <1>1, NothingWrong
<1> QED
  BY <1>1, <1>2, EntryKeys DEF Appended

\* When the checks of parse_config have found nothing, the file is good: no
\* check is skipped that a later stage relies on.
LEMMA NoErrors ==
    ASSUME FileOK, Errors = {}
    PROVE  Clean
<1>1. DestinationErrors = {} /\ PathErrors = {} /\ \A s \in DOMAIN Sections : SectionErrors(s) = {}
  <2> DEFINE inSections == UNION {SectionErrors(s) : s \in DOMAIN Sections}
             top == {<<"top-level", 0, w>> : w \in (IF file.unknown THEN {"unknown key"} ELSE {})
                        \cup (IF file.version \in {"1", "true"} THEN {} ELSE {"version"})}
  <2>1. Errors = inSections \cup DestinationErrors \cup PathErrors \cup top
    BY DEF Errors
  <2>2. \A s \in DOMAIN Sections : SectionErrors(s) \subseteq inSections
    OBVIOUS
  <2> HIDE DEF inSections, top
  <2> QED
    BY <2>1, <2>2
<1>2. ASSUME NEW s \in DOMAIN Sections
      PROVE  /\ file.sections[s].shape # "scalar"
             /\ s = "backup" => file.sections[s].shape = "table"
             /\ file.sections[s].shape = "table" => Wrong(file.sections[s], Sections[s]) = {}
  <2>1. file.sections[s].shape \in Shapes
    BY <1>2 DEF FileOK, Tables
  <2>2. SectionErrors(s) = {}
    BY <1>1, <1>2
  <2>3. file.sections[s].shape # "scalar"
    BY <2>2 DEF SectionErrors
  <2>4. s = "backup" => file.sections[s].shape # "absent"
    BY <2>2 DEF SectionErrors
  <2>5. file.sections[s].shape = "table" => Wrong(file.sections[s], Sections[s]) = {}
    BY <2>2 DEF SectionErrors
  <2> QED
    BY <2>1, <2>3, <2>4, <2>5 DEF Shapes
<1>3. ASSUME NEW s \in DOMAIN Sections, file.sections[s].shape = "table"
      PROVE  \A k \in DOMAIN Sections[s] : file.sections[s].keys[k] \in Sections[s][k]
  BY <1>2, <1>3, NothingWrong
<1>4. file.dshape = "list" /\ file.dests # <<>>
  BY <1>1 DEF DestinationErrors
<1>5. ASSUME NEW i \in DOMAIN file.dests PROVE Appended(file.dests[i]) /\ ~Duplicate(i)
  <2> DEFINE wrong == EntryErrors(file.dests[i]) \cup (IF Duplicate(i) THEN {"duplicate"} ELSE {})
  <2>1. {<<"destinations", i, k>> : k \in wrong} = {}
    BY <1>1, <1>4, <1>5 DEF DestinationErrors
  <2>2. wrong = {}
    BY <2>1
  <2> QED
    BY <2>2, EntryClean
<1>6. "backup" \in DOMAIN Sections /\ file.sections["backup"].keys["work_dir"] \in NonEmpty
  <2>1. "backup" \in DOMAIN Sections
    BY SectionNames
  <2>2. "work_dir" \in DOMAIN Sections["backup"] /\ Sections["backup"]["work_dir"] = NonEmpty
    BY DEF Sections, Backup
  <2> QED
    BY <1>2, <1>3, <2>1, <2>2
<1>7. ASSUME NEW i \in DOMAIN file.dests, file.dests[i].type = "local"
      PROVE  file.dests[i].keys["path"] # Str(file.sections["backup"].keys["work_dir"])
  <2>1. i \in destinations
    BY <1>4, <1>5, <1>7 DEF destinations
  <2>2. file.sections["backup"].shape = "table"
    BY <1>2, <1>6
  <2> QED
    BY <1>1, <1>6, <1>7, <2>1, <2>2 DEF PathErrors
<1> QED
  BY <1>2, <1>3, <1>4, <1>5, <1>6, <1>7 DEF Clean

-----------------------------------------------------------------------------
(* What is started                                                         *)

\* The invariant is inductive.
LEMMA ConfigStep == ConfigInv /\ [Next]_vars => ConfigInv'
<1> SUFFICES ASSUME ConfigInv, [Next]_vars PROVE ConfigInv'
  OBVIOUS
<1>1. CASE Edit
  BY <1>1, EditStep DEF ConfigInv, Edit, StartInv
<1>2. CASE UNCHANGED file /\ (outcome' = "STARTED" => Clean)
  <2>1. FileOK'
    BY <1>2 DEF ConfigInv, FileOK
  <2>2. Clean => Clean'
    BY <1>2 DEF Clean, Duplicate, Named
  <2> QED
    BY <1>2, <2>1, <2>2 DEF ConfigInv, StartInv
<1>3. CASE Load
  BY <1>2, <1>3, NoErrors DEF Load, ConfigInv
<1>4. CASE UNCHANGED vars
  BY <1>2, <1>4 DEF vars, ConfigInv, StartInv
<1> QED
  BY <1>1, <1>3, <1>4 DEF Next

\* The invariant holds throughout.
LEMMA ConfigAlways == Spec => []ConfigInv
  BY ConfigInit, ConfigStep, PTL DEF Spec

\* No [[destinations]] entry is left out of a configuration that is started,
\* however often the file was edited (_parse_destinations).
THEOREM EveryEntryCounts == Spec => []NoneDropped
<1>1. ConfigInv => NoneDropped
  BY DEF ConfigInv, StartInv, Clean, NoneDropped, destinations
<1> QED
  BY <1>1, ConfigAlways, PTL

\* What parse_config lets pass meets the assumptions that the other modules make
\* about destinations, keep, grace period, retries, policy and work_dir.
THEOREM AssumptionsMet == Spec => []StartedFits
<1>1. ConfigInv => StartedFits
  <2> SUFFICES ASSUME ConfigInv, outcome = "STARTED"
               PROVE  /\ destinations # {}
                      /\ \A i, j \in destinations :
                            file.dests[i].keys["name"] = file.dests[j].keys["name"] => i = j
                      /\ \A i \in destinations : file.dests[i].keys["keep"] \in {"1", "65536"}
                      /\ \A key \in {<<"backup", "timeout_seconds">>, <<"replication", "max_lag_seconds">>,
                                     <<"transfer", "retries">>, <<"retention", "incomplete_grace_hours">>} :
                            Value(key[1], key[2]) \in {"absent", "0", "1", "65536"}
                      /\ Value("transfer", "on_destination_failure") \in {"absent", "choice"}
                      /\ \A i \in destinations :
                            file.dests[i].type = "local" =>
                               file.dests[i].keys["path"] # Str(Value("backup", "work_dir"))
    BY DEF StartedFits
  <2>1. Clean /\ FileOK
    BY DEF ConfigInv, StartInv
  <2>2. destinations = DOMAIN file.dests
    BY <2>1 DEF Clean, destinations
  <2>3. destinations # {} /\ DOMAIN file.dests \subseteq Nat
    BY <2>1, <2>2 DEF Clean, FileOK
  <2>4. ASSUME NEW i \in destinations
        PROVE  Named(i) /\ file.dests[i].keys["keep"] \in {"1", "65536"}
    <3>1. Appended(file.dests[i])
      BY <2>1, <2>2, <2>4 DEF Clean
    <3> DEFINE type == file.dests[i].type
    <3>2. Entry(type)["name"] = NonEmpty
      BY DEF Entry, SSHKeys
    <3>3. Entry(type)["keep"] = Positive
      BY DEF Entry, SSHKeys
    <3> QED
      BY <3>1, <3>2, <3>3 DEF Appended, Named, Positive, Natural
  <2>5. ASSUME NEW i \in destinations, NEW j \in destinations,
               file.dests[i].keys["name"] = file.dests[j].keys["name"], i < j
        PROVE  FALSE
    <3>1. Named(i) /\ Named(j) /\ i \in 1 .. j - 1
      BY <2>1, <2>2, <2>4, <2>5 DEF FileOK
    <3>2. Duplicate(j)
      BY <2>5, <3>1 DEF Duplicate
    <3> QED
      BY <2>1, <2>2, <2>5, <3>2 DEF Clean
  <2>6. \A i, j \in destinations :
           file.dests[i].keys["name"] = file.dests[j].keys["name"] => i = j
    BY <2>2, <2>3, <2>5
  <2>7. ASSUME NEW s \in DOMAIN Sections, NEW k \in DOMAIN Sections[s]
        PROVE  Value(s, k) \in Sections[s][k] \cup {"absent"}
    BY <2>1, <2>7 DEF Clean, Value
  <2>8. /\ Value("backup", "timeout_seconds") \in Optional(Natural)
        /\ Value("replication", "max_lag_seconds") \in Optional(Natural)
        /\ Value("transfer", "retries") \in Optional(Natural)
        /\ Value("retention", "incomplete_grace_hours") \in Optional(Natural)
        /\ Value("transfer", "on_destination_failure") \in Optional({"choice"})
    <3>1. /\ "timeout_seconds" \in DOMAIN Sections["backup"]
          /\ Sections["backup"]["timeout_seconds"] = Optional(Natural)
      BY DEF Sections, Backup
    <3>2. /\ "max_lag_seconds" \in DOMAIN Sections["replication"]
          /\ Sections["replication"]["max_lag_seconds"] = Optional(Natural)
      BY DEF Sections, Replication
    <3>3. /\ {"retries", "on_destination_failure"} \subseteq DOMAIN Sections["transfer"]
          /\ Sections["transfer"]["retries"] = Optional(Natural)
          /\ Sections["transfer"]["on_destination_failure"] = Optional({"choice"})
      BY DEF Sections, Transfer
    <3>4. /\ "incomplete_grace_hours" \in DOMAIN Sections["retention"]
          /\ Sections["retention"]["incomplete_grace_hours"] = Optional(Natural)
      BY DEF Sections, Retention
    <3> QED
      BY <2>7, <3>1, <3>2, <3>3, <3>4, SectionNames DEF Optional
  <2>9. \A i \in destinations :
           file.dests[i].type = "local" =>
              file.dests[i].keys["path"] # Str(Value("backup", "work_dir"))
    BY <2>1, <2>2 DEF Clean, Value
  <2> QED
    BY <2>3, <2>4, <2>6, <2>8, <2>9 DEF Optional, Natural
<1> QED
  BY <1>1, ConfigAlways, PTL
=============================================================================
