-------------------------------- MODULE Config --------------------------------
(***************************************************************************)
(* The configuration file (config.py) and what mbkeeper makes of it before *)
(* a command begins (main() of cli.py).  An operator edits the file, one   *)
(* place at a time, and starts mbkeeper.                                   *)
(*                                                                         *)
(* A TOML value is reduced to what the checks can tell apart.  Texts,      *)
(* integers and lists are written as strings; "choice" is a value from the *)
(* list of those a key allows.  A section is described by the values that  *)
(* each of its keys may have; "absent" is a key that is not in the file.   *)
(***************************************************************************)
EXTENDS Naturals, Sequences, FiniteSets

CONSTANT MaxEdits   \* bound: edits of a file that was good

VARIABLES file, edits, outcome
vars == <<file, edits, outcome>>

Texts == {"", "text", "choice", "/a", "/a/", "/b"}
Values == Texts \cup {"-1", "0", "1", "65536"}
                \cup {"true", "1.5", "[]", "[text]", "[reserved]", "[1]", "absent"}

Optional(S) == S \cup {"absent"}
NonEmpty == Texts \ {""}                        \* _require_str
Natural == {"0", "1", "65536"}                  \* an int, no bool, not negative
Positive_Zero == Natural                        \* keep < 0 for keep < 1
Positive == Natural \ {"0"}
Port == {"1"}
TextList == {"[]", "[text]", "[reserved]"}
Truthy == Values \ {"absent", "", "0", "[]"}    \* only `if not value`
Unchecked == Values

-----------------------------------------------------------------------------
(* The sections                                                            *)

Backup ==
    [work_dir |-> NonEmpty, name_prefix |-> Optional(NonEmpty), mariabackup_path |-> Unchecked,
     defaults_file |-> Unchecked, defaults_extra_file |-> Unchecked,
     extra_args |-> Optional(TextList \ {"[reserved]"}), prepare |-> Optional({"true"}),
     timeout_seconds |-> Optional(Natural)]

Replication ==
    [mode |-> Optional({"choice"}), max_lag_seconds |-> Optional(Natural),
     safe_slave_backup |-> Optional({"true"}), client_path |-> Unchecked]

Transfer ==
    [on_destination_failure |-> Optional({"choice"}), retries |-> Optional(Natural),
     rsync_path |-> Unchecked]

Retention == [incomplete_grace_hours |-> Optional(Natural)]

Logging == [level |-> Optional({"choice"}), format |-> Optional({"choice"}), file |-> Unchecked]

Lock == [file |-> Optional(NonEmpty)]

Hooks ==
    [k \in {"pre_backup", "post_backup", "pre_purge", "post_run"} |-> Optional(Texts)]

Sections ==
    [backup |-> Backup, replication |-> Replication, transfer |-> Transfer,
     retention |-> Retention, logging |-> Logging, lock |-> Lock, hooks |-> Hooks]

\* One [[destinations]] entry.  The keys of ssh are unknown keys in a local one.
SSHKeys == {"host", "port", "user", "ssh_key", "ssh_options", "bwlimit_kbps"}

Entry(type) ==
    [k \in {"name", "path", "keep"} \cup SSHKeys |->
        CASE k \in {"name", "path"} -> NonEmpty
          [] k = "keep" -> Positive
          [] k \in SSHKeys /\ type = "local" -> {"absent"}
          [] k \in {"host", "user", "ssh_key"} -> Truthy
          [] k = "port" -> Optional(Port)
          [] k = "ssh_options" -> Optional(TextList)
          [] k = "bwlimit_kbps" -> Optional(Natural)]

-----------------------------------------------------------------------------
(* parse_config: the errors it collects, each with the place it is about    *)

Wrong(table, schema) ==
    {k \in DOMAIN schema : table.keys[k] \notin schema[k]}
    \cup (IF table.unknown THEN {"unknown key"} ELSE {})

SectionErrors(s) ==
    LET t == file.sections[s]
        wrong == CASE t.shape = "absent" -> IF s = "backup" THEN {"missing"} ELSE {}
                   [] t.shape = "scalar" -> {"not a table"}
                   [] t.shape = "table" -> Wrong(t, Sections[s])
    IN  {<<s, 0, k>> : k \in wrong}

\* An entry that is no table, or of no known type, is not looked into.
Known(e) == e.shape = "table" /\ e.type \in {"local", "ssh"}

EntryErrors_NoKeep(e) == IF Known(e) THEN Wrong(e, Entry(e.type)) \ {"keep"} ELSE {"type"}
EntryErrors(e) ==
    IF e.shape = "scalar" THEN {"not a table"}
    ELSE IF ~Known(e) THEN {"type"}
    ELSE Wrong(e, Entry(e.type))

Named(i) == Known(file.dests[i]) /\ file.dests[i].keys["name"] \in NonEmpty
Duplicate(i) ==
    /\ Named(i)
    /\ \E j \in 1 .. i - 1 : Named(j) /\ file.dests[j].keys["name"] = file.dests[i].keys["name"]

DestinationErrors ==
    IF file.dshape # "list" \/ file.dests = <<>> THEN {<<"destinations", 0, "missing">>}
    ELSE UNION {{<<"destinations", i, k>> : k \in EntryErrors(file.dests[i])
                                                \cup (IF Duplicate(i) THEN {"duplicate"} ELSE {})}
                : i \in DOMAIN file.dests}

\* An entry is appended if name, path and keep are good, whatever else is wrong.
Appended(e) ==
    Known(e) /\ \A k \in {"name", "path", "keep"} : e.keys[k] \in Entry(e.type)[k]

destinations ==                     \* their indices, in the order of the file
    IF file.dshape # "list" THEN {} ELSE {i \in DOMAIN file.dests : Appended(file.dests[i])}

\* str(Path(work_dir)) has lost a trailing slash; dest.path is as written.
Str(path) == IF path = "/a/" THEN "/a" ELSE path

PathErrors ==
    LET b == file.sections["backup"]
    IN  IF b.shape # "table" THEN {}
        ELSE {<<"destinations", i, "work_dir">> : i \in {i \in destinations :
                                           /\ b.keys["work_dir"] \in NonEmpty
                                           /\ file.dests[i].type = "local"
                                           /\ file.dests[i].keys["path"] = Str(b.keys["work_dir"])}}

\* `True == 1`.
Errors ==
    (UNION {SectionErrors(s) : s \in DOMAIN Sections}) \cup DestinationErrors \cup PathErrors
    \cup {<<"top-level", 0, w>> : w \in (IF file.unknown THEN {"unknown key"} ELSE {})
                                     \cup (IF file.version \in {"1", "true"} THEN {} ELSE {"version"})}

-----------------------------------------------------------------------------
(* main() and the operator                                                 *)

\* The value of a key that the section has after parsing.
Value(s, k) ==
    IF file.sections[s].shape = "table" THEN file.sections[s].keys[k] ELSE "absent"

\* setup_logging opens logging.file outside the try block of main().
LogFile == Value("logging", "file") \in Truthy
LogFileBad == LogFile /\ Value("logging", "file") \notin Texts

\* tuple(ssh_options) of a local entry, where no check has looked at it, raises
\* TypeError for a number or a Boolean, before any error is reported.
Iterable == Texts \cup TextList \cup {"[1]", "absent"}
NoTuple ==
    \E i \in destinations : /\ file.dests[i].type = "local"
                            /\ file.dests[i].keys["ssh_options"] \notin Iterable

\* A traceback leaves main() as an exception that nothing catches.
Load ==
    /\ outcome = "none"
    /\ UNCHANGED <<file, edits>>
    /\ \/ file.state \in {"missing", "unreadable", "unparsable"} /\ outcome' = "CONFIG_ERROR"
       \/ file.state = "undecodable" /\ outcome' = "TRACEBACK"
       \/ file.state = "parsed" /\ NoTuple /\ outcome' = "TRACEBACK"
       \/ /\ file.state = "parsed" /\ ~NoTuple
          /\ \/ Errors # {} /\ outcome' = "CONFIG_ERROR"
             \/ Errors = {} /\ ~LogFileBad /\ outcome' = "STARTED"
             \/ Errors = {} /\ LogFile /\ outcome' = "TRACEBACK"

\* A file that is good: three destinations, and the required keys.
Blank(schema) == [shape |-> "table", unknown |-> FALSE, keys |-> [k \in DOMAIN schema |-> "absent"]]

GoodEntry(type, name, path) ==
    [shape |-> "table", unknown |-> FALSE, type |-> type,
     keys |-> [k \in DOMAIN Entry(type) |->
                 CASE k = "name" -> name
                   [] k = "path" -> path
                   [] k = "keep" -> "1"
                   [] k \in {"host", "user", "ssh_key"} /\ type = "ssh" -> "text"
                   [] OTHER -> "absent"]]

Good ==
    [state |-> "parsed", unknown |-> FALSE, version |-> "1",
     sections |-> [[s \in DOMAIN Sections |-> Blank(Sections[s])]
                     EXCEPT !["backup"].keys["work_dir"] = "/a/"],
     dshape |-> "list", dests |-> <<GoodEntry("local", "text", "/b"), GoodEntry("local", "choice", "text"),
                                   GoodEntry("ssh", "/b", "/b")>>]

Init == file = Good /\ edits = 0 /\ outcome = "none"

Shapes == {"absent", "scalar", "table"}

Edit ==
    /\ edits < MaxEdits
    /\ edits' = edits + 1 /\ outcome' = "none"
    /\ \/ \E s \in DOMAIN Sections : \E k \in DOMAIN Sections[s], v \in Values :
             file' = [file EXCEPT !.sections[s].keys[k] = v]
       \/ \E s \in DOMAIN Sections, shape \in Shapes : file' = [file EXCEPT !.sections[s].shape = shape]
       \/ \E s \in DOMAIN Sections : file' = [file EXCEPT !.sections[s].unknown = TRUE]
       \/ \E i \in DOMAIN file.dests : \E k \in DOMAIN Entry("ssh"), v \in Values :
             file' = [file EXCEPT !.dests[i].keys[k] = v]
       \/ \E i \in DOMAIN file.dests, type \in {"local", "ssh", "text", "absent"} :
             file' = [file EXCEPT !.dests[i].type = type]
       \/ \E i \in DOMAIN file.dests :
             file' \in {[file EXCEPT !.dests[i].shape = "scalar"],
                        [file EXCEPT !.dests[i].unknown = TRUE],
                        [file EXCEPT !.dests = SubSeq(@, 1, i - 1) \o SubSeq(@, i + 1, Len(@))]}
       \/ \E shape \in {"absent", "scalar"} : file' = [file EXCEPT !.dshape = shape]
       \/ \E v \in Values : file' = [file EXCEPT !.version = v]
       \/ file' = [file EXCEPT !.unknown = TRUE]
       \/ \E st \in {"missing", "unreadable", "undecodable", "unparsable"} :
             file' = [file EXCEPT !.state = st]

Next == Load \/ Edit
Spec == Init /\ [][Next]_vars

-----------------------------------------------------------------------------
(* Properties                                                              *)

\* What is started meets the assumptions of the other modules: at least one
\* destination, names that tell them apart, keep >= 1, a grace period, a timeout
\* and a number of retries that are natural numbers, a failure policy, and a
\* work_dir apart from every local path that is written without a final slash.
StartedFits ==
    outcome = "STARTED" =>
       /\ destinations # {}
       /\ \A i, j \in destinations :
             file.dests[i].keys["name"] = file.dests[j].keys["name"] => i = j
       /\ \A i \in destinations : file.dests[i].keys["keep"] \in {"1", "65536"}
       /\ \A key \in {<<"backup", "timeout_seconds">>, <<"replication", "max_lag_seconds">>,
                      <<"transfer", "retries">>, <<"retention", "incomplete_grace_hours">>} :
             Value(key[1], key[2]) \in {"absent", "0", "1", "65536"}
       /\ Value("transfer", "on_destination_failure") \in {"absent", "choice"}
       /\ \A i \in destinations :
             LET path == file.dests[i].keys["path"]
             IN  file.dests[i].type = "local" /\ Str(path) = path
                    => path # Str(Value("backup", "work_dir"))

\* No [[destinations]] entry is left out without an error: a run stores to, and
\* reports about, every destination the operator has written down.
NoneDropped == outcome = "STARTED" => destinations = DOMAIN file.dests

\* exit-codes.md: a file that is missing or malformed ends with CONFIG_ERROR.
ConfigErrorCode ==
    file.state # "parsed" /\ outcome # "none" => outcome = "CONFIG_ERROR"

\* configuration.md: work_dir must not equal any local destination's path.
WorkDirApart ==
    outcome = "STARTED" =>
       \A i \in destinations :
          file.dests[i].type = "local" =>
             Str(file.dests[i].keys["path"]) # Str(Value("backup", "work_dir"))

\* configuration.md: keep is independent per destination, which it is not for two
\* that are one directory.
KeepIndependent ==
    outcome = "STARTED" =>
       \A i, j \in destinations :
          /\ file.dests[i].type = "local" /\ file.dests[j].type = "local"
          /\ Str(file.dests[i].keys["path"]) = Str(file.dests[j].keys["path"])
          => i = j

\* configuration.md: all validation errors are reported together.  What is wrong
\* with an entry is the same whatever its type says of it.
ReportedTogether ==
    file.dshape = "list" =>
       \A i \in DOMAIN file.dests : \A k \in {"name", "path", "keep"} :
          file.dests[i].shape = "table" /\ file.dests[i].keys[k] \notin Entry("local")[k]
             => <<"destinations", i, k>> \in Errors
==============================================================================
