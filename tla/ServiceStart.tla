------------------------------ MODULE ServiceStart ------------------------------
(***************************************************************************)
(* How a program of the project comes up, again and again: it searches the *)
(* configuration file on the way from its working directory to the root    *)
(* (Config_searching), reads its section (Parser), opens its log (Logger)  *)
(* and makes records until it ends.  Between its runs, and during them,    *)
(* somebody removes log files.                                             *)
(*                                                                         *)
(* Directories are numbered by their depth, the root being 0.  The records *)
(* of all runs are numbered; a log file is the set of records in it, which *)
(* it holds in this order, and its size is their number.  A "Slip" is a    *)
(* variant of the definition after it with a plausible mistake, used only  *)
(* to see a property fail.                                                 *)
(***************************************************************************)
EXTENDS Integers, FiniteSets

CONSTANTS
    MaxDepth,           \* of the directory the program is started in
    max_log_file_size,  \* in records
    MaxStarts, MaxRecords   \* bounds

ASSUME ServiceStartAssumption ==
    MaxDepth \in Nat /\ max_log_file_size \in Nat /\ MaxStarts \in Nat /\ MaxRecords \in Nat

VARIABLES
    program,    \* "server", "inotify", "client"
    depth,      \* of the directory it is started in
    configs,    \* directories with a file of the name of the configuration
    section,    \* the program's sections in it: "complete", "short", "absent"
    phase,      \* "down", "searching", "reading", "logging", "up", "dead", "undefined"
    cwd,        \* the working directory
    level_up,   \* Config_searching::level_up
    path,       \* Config_searching::path: of a file, of a directory, or none
    log_folder, \* "absent", "directories" (no file ever), "present"
    files,      \* the log files by their numbers
    mtime,      \* when each was last written
    log_file,   \* number of the file f_stream writes to, 0 without a logger
    clock, starts, records,     \* writes to files, runs and records so far
    removed     \* history: a log file was removed

configVars == <<program, depth, configs, section>>
searchVars == <<cwd, level_up, path>>
logVars    == <<log_folder, files, mtime, log_file, clock, records, removed>>
vars == <<configVars, phase, searchVars, logVars, starts>>

Directories == 0..depth
NoPath      == [of |-> "none", in |-> 0]

TypeOK ==
    /\ program \in {"server", "inotify", "client"}
    /\ depth \in 0..MaxDepth
    /\ configs \subseteq Directories /\ section \in {"complete", "short", "absent"}
    /\ phase \in {"down", "searching", "reading", "logging", "up", "dead", "undefined"}
    /\ cwd \in Directories /\ level_up \in 0..4
    /\ path \in {NoPath} \cup [of : {"file", "directory"}, in : Directories]
    /\ log_folder \in {"absent", "directories", "present"}
    /\ DOMAIN files \subseteq 1..starts
    /\ files \in [DOMAIN files -> SUBSET (1..records)]
    /\ mtime \in [DOMAIN files -> 1..clock]
    /\ log_file \in 0..starts
    /\ clock \in Nat /\ starts \in Nat /\ records \in Nat
    /\ removed \in BOOLEAN

NoFiles == [k \in {} |-> {}]

Init ==
    /\ program \in {"server", "inotify", "client"}
    /\ depth \in 0..MaxDepth
    /\ configs \in SUBSET Directories /\ section \in {"complete", "short", "absent"}
    /\ phase = "down"
    /\ cwd = depth /\ level_up = 0 /\ path = NoPath
    /\ log_folder \in {"absent", "directories", "present"}
    /\ files = NoFiles /\ mtime = NoFiles /\ log_file = 0
    /\ clock = 0 /\ starts = 0 /\ records = 0
    /\ removed = FALSE

Start ==
    /\ phase = "down" /\ starts < MaxStarts
    /\ starts' = starts + 1
    /\ phase' = "searching"
    /\ cwd' = depth /\ level_up' = 0 /\ path' = NoPath
    /\ UNCHANGED <<configVars, logVars>>

-------------------------------------------------------------------------------
(* Config_searching                                                        *)

\* Whether the exception at the root is caught or not, nothing is read.
Throw == phase' = "dead" /\ UNCHANGED <<cwd, path>>

\* Slip: it goes on for one level more, next to searching_backward.
searching_forward_further ==
    /\ phase = "searching" /\ level_up <= 4
    /\ \/ /\ cwd \in configs
          /\ path' = [of |-> "file", in |-> cwd]
          /\ phase' = "reading" /\ UNCHANGED cwd
       \/ /\ cwd \notin configs /\ cwd > 0
          /\ cwd' = cwd - 1
          /\ UNCHANGED <<phase, path>>
       \/ cwd \notin configs /\ cwd = 0 /\ Throw
    /\ level_up' = level_up + 1
    /\ UNCHANGED <<configVars, logVars, starts>>

\* The working directory's files are looked at, and it becomes the one above.  Its
\* directories are not: only what is a regular file is asked whether it is one.
searching_forward ==
    /\ phase = "searching" /\ level_up <= 3
    /\ \/ /\ cwd \in configs
          /\ path' = [of |-> "file", in |-> cwd]
          /\ phase' = "reading" /\ UNCHANGED cwd
       \/ /\ cwd \notin configs /\ cwd > 0
          /\ cwd' = cwd - 1
          /\ UNCHANGED <<phase, path>>
       \/ cwd \notin configs /\ cwd = 0 /\ Throw
    /\ level_up' = level_up + 1
    /\ UNCHANGED <<configVars, logVars, starts>>

\* Slip: it goes up before it looks.
searching_backward_up_first ==
    /\ phase = "searching" /\ level_up > 3
    /\ \/ /\ cwd > 0
          /\ cwd' = cwd - 1
          /\ IF cwd' \in configs
             THEN path' = [of |-> "directory", in |-> cwd'] /\ phase' = "reading"
             ELSE UNCHANGED <<phase, path>>
       \/ cwd = 0 /\ Throw
    /\ UNCHANGED <<configVars, level_up, logVars, starts>>

\* The path is that of the directory.
searching_backward ==
    /\ phase = "searching" /\ level_up > 3
    /\ \/ /\ cwd \in configs
          /\ path' = [of |-> "directory", in |-> cwd]
          /\ phase' = "reading" /\ UNCHANGED cwd
       \/ /\ cwd \notin configs /\ cwd > 0
          /\ cwd' = cwd - 1
          /\ UNCHANGED <<phase, path>>
       \/ cwd \notin configs /\ cwd = 0 /\ Throw
    /\ UNCHANGED <<configVars, level_up, logVars, starts>>

-------------------------------------------------------------------------------
(* The parsers.  Nobody calls validate_parsed: of the programs only the    *)
(* one for inotify notices that its section is absent, and none that it is *)
(* short of a value, which is then taken from beyond the parsed ones.      *)

\* read_ini throws at a directory.
Parsed(complete, absent) ==
    /\ phase = "reading"
    /\ \/ path.of = "directory" /\ phase' = "dead"
       \/ path.of = "file" /\ section = "complete" /\ phase' = complete
       \/ path.of = "file" /\ section = "short" /\ phase' = "undefined"
       \/ path.of = "file" /\ section = "absent" /\ phase' = absent
    /\ UNCHANGED <<configVars, searchVars, logVars, starts>>

Parser_Inotify     == program = "inotify" /\ Parsed("logging", "dead")
Parser_Server_HTTP == program = "server" /\ Parsed("logging", "undefined")
Parser_Client_HTTP == program = "client" /\ Parsed("up", "undefined")

ReadSection == Parser_Inotify \/ Parser_Server_HTTP \/ Parser_Client_HTTP

-------------------------------------------------------------------------------
(* Logger::open_file                                                       *)

Touch(k, content) ==
    /\ clock' = clock + 1
    /\ files' = [i \in DOMAIN files \cup {k} |-> IF i = k THEN content ELSE files[i]]
    /\ mtime' = [i \in DOMAIN files \cup {k} |-> IF i = k THEN clock' ELSE mtime[i]]

\* Slip: the files are not counted.
n_uncounted == 1

\* The number of the next log file.
n == Cardinality(DOMAIN files) + 1

LastModified(k) == k \in DOMAIN files /\ \A i \in DOMAIN files : mtime[i] <= mtime[k]

\* The folder is absent and not created, or the file cannot be opened.
OpenFails ==
    /\ phase = "logging"
    /\ phase' = "up"
    /\ log_file' = 0
    /\ UNCHANGED <<configVars, searchVars, log_folder, files, mtime, clock, records, removed,
                   starts>>

\* The greatest of no elements.
OpenUndefined ==
    /\ phase = "logging"
    /\ log_folder = "directories" /\ DOMAIN files = {}
    /\ phase' = "undefined"
    /\ UNCHANGED <<configVars, searchVars, logVars, starts>>

Append ==
    /\ phase = "logging"
    /\ \E k \in DOMAIN files :
          /\ LastModified(k)
          /\ Cardinality(files[k]) <= max_log_file_size
          /\ log_file' = k
    /\ phase' = "up"
    /\ UNCHANGED <<configVars, searchVars, log_folder, files, mtime, clock, records, removed,
                   starts>>

\* A new file, in a new folder if the user agrees; ios::out empties one that is
\* there.
OpenNew ==
    /\ phase = "logging"
    /\ \A k \in DOMAIN files : LastModified(k) => Cardinality(files[k]) > max_log_file_size
    /\ log_folder = "directories" => DOMAIN files # {}
    /\ log_folder' = IF log_folder = "absent" THEN "present" ELSE log_folder
    /\ Touch(n, {})
    /\ log_file' = n
    /\ phase' = "up"
    /\ UNCHANGED <<configVars, searchVars, records, removed, starts>>

open_file == OpenFails \/ OpenUndefined \/ Append \/ OpenNew

-------------------------------------------------------------------------------
(* The run.                                                                *)

\* A record for a file that was removed meanwhile goes with it.
make_record ==
    /\ phase = "up" /\ log_file # 0
    /\ records < MaxRecords
    /\ records' = records + 1
    /\ \/ log_file \in DOMAIN files /\ Touch(log_file, files[log_file] \cup {records'})
       \/ log_file \notin DOMAIN files /\ UNCHANGED <<files, mtime, clock>>
    /\ UNCHANGED <<configVars, phase, searchVars, log_folder, log_file, removed, starts>>

\* By the user or by a crash; every record was flushed.
Stop ==
    /\ phase = "up"
    /\ phase' = "down"
    /\ log_file' = 0
    /\ UNCHANGED <<configVars, searchVars, log_folder, files, mtime, clock, records, removed,
                   starts>>

Remove(k) ==
    /\ k \in DOMAIN files
    /\ files' = [i \in DOMAIN files \ {k} |-> files[i]]
    /\ mtime' = [i \in DOMAIN files \ {k} |-> mtime[i]]
    /\ removed' = TRUE
    /\ UNCHANGED <<configVars, phase, searchVars, log_folder, log_file, clock, records, starts>>

Next ==
    \/ Start \/ searching_forward \/ searching_backward \/ ReadSection
    \/ open_file \/ make_record \/ Stop
    \/ \E k \in 1..starts : Remove(k)

Spec == Init /\ [][Next]_vars

-------------------------------------------------------------------------------
(* Properties.                                                             *)

Nearest == {d \in configs : \A e \in configs : e <= d}

(* The search finds the nearest configuration file above the directory the *)
(* program was started in, and leaves the program in the directory of that *)
(* file; but a program comes up only if the file is at most three levels   *)
(* up: from further away it gets the path of the directory.  A program     *)
(* that dies has no file within these levels, or not its section in it.    *)
ConfigWithinThreeLevels ==
    /\ phase \in {"reading", "logging", "up"} => path.in \in Nearest /\ cwd = path.in
    /\ phase \in {"logging", "up"} => path.of = "file" /\ path.in >= depth - 3
    /\ phase = "dead" => section = "absent" \/ \A d \in Nearest : d < depth - 3

(* The log of all runs is complete and its files follow each other in the  *)
(* order of their numbers, as long as nobody removes one: no start begins  *)
(* a file anew that holds records ("Number of next log file that will be   *)
(* created in log dir", logger.h:19), or goes back to an earlier one.      *)
LogCompleteInOrder ==
    removed \/
        /\ UNION {files[k] : k \in DOMAIN files} = 1..records
        /\ \A i, j \in DOMAIN files : i < j => \A a \in files[i], b \in files[j] : a < b
================================================================================
