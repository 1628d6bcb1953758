--------------------------- MODULE ServiceStartProofs ---------------------------
(***************************************************************************)
(* Proofs about module ServiceStart, for any directory, size of a log file *)
(* and number of starts and records.                                       *)
(***************************************************************************)
EXTENDS ServiceStart, FiniteSetTheorems, TLAPS

(***************************************************************************)
(* No more log files than starts, so that the number of the next one is    *)
(* that of a start.                                                        *)
(***************************************************************************)

Starting == phase \in {"searching", "reading", "logging"}

Counted ==
    /\ IsFiniteSet(DOMAIN files)
    /\ Cardinality(DOMAIN files) <= starts
    /\ Starting => Cardinality(DOMAIN files) < starts

TypeInv == TypeOK /\ Counted

LEMMA TypeInit == Init => TypeInv
<1> SUFFICES ASSUME Init PROVE TypeInv
  OBVIOUS
<1>1. DOMAIN files = {}
  BY DEF Init, NoFiles
<1>2. TypeOK
  <2>1. files \in [DOMAIN files -> SUBSET (1..records)] /\ mtime \in [DOMAIN files -> 1..clock]
    BY <1>1 DEF Init, NoFiles
  <2>2. depth \in Nat /\ cwd \in Directories
    BY ServiceStartAssumption DEF Init, Directories
  <2>3. path \in {NoPath} \cup [of : {"file", "directory"}, in : Directories]
    BY DEF Init
  <2>4. level_up \in 0..4 /\ log_file \in 0..starts /\ clock \in Nat /\ starts \in Nat
    BY DEF Init
  <2> QED BY <1>1, <2>1, <2>2, <2>3, <2>4 DEF Init, TypeOK
<1>3. Counted
  BY <1>1, FS_EmptySet DEF Init, Counted, Starting
<1> QED BY <1>2, <1>3 DEF TypeInv

\* What Touch makes of the files.
LEMMA TouchType ==
    ASSUME TypeOK, NEW k \in Nat, NEW content, Touch(k, content)
    PROVE  /\ DOMAIN files' = DOMAIN files \cup {k} /\ DOMAIN mtime' = DOMAIN files \cup {k}
           /\ files'[k] = content /\ mtime'[k] = clock + 1
           /\ \A i \in DOMAIN files : i # k => files'[i] = files[i] /\ mtime'[i] = mtime[i]
           /\ clock' = clock + 1
           /\ mtime' \in [DOMAIN files' -> 1..clock']
           /\ files' = [i \in DOMAIN files' |-> files'[i]]
<1>1. clock \in Nat /\ mtime \in [DOMAIN files -> 1..clock] /\ clock' = clock + 1
  BY DEF TypeOK, Touch
<1>2. files' = [i \in DOMAIN files \cup {k} |-> IF i = k THEN content ELSE files[i]]
  BY DEF Touch
<1>3. mtime' = [i \in DOMAIN files \cup {k} |-> IF i = k THEN clock' ELSE mtime[i]]
  BY DEF Touch
<1>4. \A i \in DOMAIN files : mtime[i] \in 1..clock'
  BY <1>1
<1>5. clock' \in 1..clock'
  BY <1>1
<1> QED BY <1>1, <1>2, <1>3, <1>4, <1>5

LEMMA TypeStep == TypeInv /\ [Next]_vars => TypeInv'
<1> SUFFICES ASSUME TypeInv, [Next]_vars PROVE TypeInv'
  OBVIOUS
<1> USE ServiceStartAssumption DEF TypeInv
<1>1. CASE Start
  <2>1. TypeOK'
    BY <1>1 DEF Start, TypeOK, configVars, logVars, Directories, NoPath
  <2>2. Cardinality(DOMAIN files) \in Nat
    BY FS_CardinalityType DEF Counted
  <2>3. Counted'
    BY <1>1, <2>2 DEF Start, TypeOK, Counted, Starting, logVars
  <2> QED BY <2>1, <2>3
<1>2. CASE searching_forward \/ searching_backward
  <2>1. cwd > 0 => cwd - 1 \in 0..depth
    BY DEF TypeOK, Directories
  <2>2. TypeOK'
    BY <1>2, <2>1 DEF searching_forward, searching_backward, Throw, TypeOK, configVars, logVars,
                      Directories, NoPath
  <2>3. Counted'
    BY <1>2 DEF searching_forward, searching_backward, Throw, Counted, Starting, logVars, TypeOK
  <2> QED BY <2>2, <2>3
<1>3. CASE ReadSection
  <2>1. phase' \in {"dead", "logging", "up", "undefined"}
    BY <1>3 DEF ReadSection, Parser_Inotify, Parser_Server_HTTP, Parser_Client_HTTP, Parsed
  <2>2. TypeOK'
    BY <1>3, <2>1
    DEF ReadSection, Parser_Inotify, Parser_Server_HTTP, Parser_Client_HTTP, Parsed,
         TypeOK, configVars, searchVars, logVars, Directories, NoPath
  <2>3. Counted'
    BY <1>3, <2>1
    DEF ReadSection, Parser_Inotify, Parser_Server_HTTP, Parser_Client_HTTP, Parsed,
        Counted, Starting, logVars, TypeOK
  <2> QED BY <2>2, <2>3
<1>4. CASE OpenFails \/ OpenUndefined \/ Append \/ Stop
  <2>1. phase' \in {"up", "undefined", "down"} /\ log_file' \in 0..starts
    BY <1>4 DEF OpenFails, OpenUndefined, Append, Stop, TypeOK, logVars
  <2>2. TypeOK'
    BY <1>4, <2>1 DEF OpenFails, OpenUndefined, Append, Stop, TypeOK, configVars, searchVars,
                      logVars, Directories, NoPath
  <2>3. Counted'
    BY <1>4, <2>1 DEF OpenFails, OpenUndefined, Append, Stop, Counted, Starting, logVars, TypeOK
  <2> QED BY <2>2, <2>3
<1>5. CASE OpenNew
  <2>1. n \in 1..starts /\ Cardinality(DOMAIN files) \in Nat
    BY <1>5, FS_CardinalityType DEF OpenNew, Counted, Starting, TypeOK, n
  <2>2. /\ DOMAIN files' = DOMAIN files \cup {n}
        /\ mtime' \in [DOMAIN files' -> 1..clock'] /\ clock' \in Nat
        /\ files'[n] = {} /\ \A i \in DOMAIN files : i # n => files'[i] = files[i]
        /\ files' = [i \in DOMAIN files' |-> files'[i]]
    <3>1. Touch(n, {}) /\ n \in Nat /\ clock + 1 \in Nat
      BY <1>5, <2>1 DEF OpenNew, TypeOK
    <3> QED BY <3>1, TouchType
  <2>3. files' \in [DOMAIN files' -> SUBSET (1..records')]
    <3>1. records' = records
      BY <1>5 DEF OpenNew
    <3>2. \A i \in DOMAIN files' : files'[i] \in SUBSET (1..records)
      BY <2>2 DEF TypeOK
    <3> QED BY <2>2, <3>1, <3>2
  <2>4. TypeOK'
    BY <1>5, <2>1, <2>2, <2>3 DEF OpenNew, TypeOK, configVars, searchVars, Directories, NoPath
  <2>5. Counted'
    <3>1. IsFiniteSet(DOMAIN files) /\ Cardinality(DOMAIN files) < starts
      BY <1>5 DEF OpenNew, Counted, Starting
    <3>2. /\ IsFiniteSet(DOMAIN files')
          /\ Cardinality(DOMAIN files') <= Cardinality(DOMAIN files) + 1
      BY <2>1, <2>2, <3>1, FS_AddElement
    <3>3. starts' = starts /\ phase' = "up" /\ starts \in Nat
      BY <1>5 DEF OpenNew, TypeOK
    <3>4. Cardinality(DOMAIN files') \in Nat
      BY <3>2, FS_CardinalityType
    <3> QED BY <2>1, <3>1, <3>2, <3>3, <3>4 DEF Counted, Starting
  <2> QED BY <2>4, <2>5
<1>6. CASE make_record
  <2>1. records' = records + 1 /\ records' \in Nat /\ starts' = starts
    BY <1>6 DEF make_record, TypeOK
  <2>2. /\ DOMAIN files' = DOMAIN files
        /\ mtime' \in [DOMAIN files' -> 1..clock'] /\ clock' \in Nat
        /\ files' \in [DOMAIN files' -> SUBSET (1..records')]
    <3>1. CASE log_file \in DOMAIN files /\ Touch(log_file, files[log_file] \cup {records'})
      <4>1. log_file \in Nat
        BY DEF TypeOK
      <4>2. /\ DOMAIN files' = DOMAIN files \cup {log_file}
            /\ mtime' \in [DOMAIN files' -> 1..clock'] /\ clock' = clock + 1
            /\ files'[log_file] = files[log_file] \cup {records'}
            /\ \A i \in DOMAIN files : i # log_file => files'[i] = files[i]
            /\ files' = [i \in DOMAIN files' |-> files'[i]]
        BY <3>1, <4>1, TouchType
      <4>3. \A i \in DOMAIN files : files'[i] \in SUBSET (1..records')
        <5>1. \A i \in DOMAIN files : files[i] \in SUBSET (1..records')
          BY <2>1 DEF TypeOK
        <5>2. records' \in 1..records'
          BY <2>1 DEF TypeOK
        <5> QED BY <3>1, <4>2, <5>1, <5>2
      <4> QED BY <3>1, <4>2, <4>3 DEF TypeOK
    <3>2. CASE log_file \notin DOMAIN files
      <4>1. files' = files /\ mtime' = mtime /\ clock' = clock
        BY <1>6, <3>2 DEF make_record
      <4>2. \A i \in DOMAIN files : files[i] \in SUBSET (1..records')
        BY <2>1 DEF TypeOK
      <4> QED BY <4>1, <4>2 DEF TypeOK
    <3> QED BY <1>6, <3>1, <3>2 DEF make_record
  <2>3. TypeOK'
    BY <1>6, <2>1, <2>2 DEF make_record, TypeOK, configVars, searchVars, Directories, NoPath
  <2>4. Counted'
    BY <1>6, <2>2 DEF make_record, Counted, Starting
  <2> QED BY <2>3, <2>4
<1>7. ASSUME NEW k \in 1..starts, Remove(k) PROVE TypeInv'
  <2>1. /\ files' = [i \in DOMAIN files \ {k} |-> files[i]]
        /\ mtime' = [i \in DOMAIN files \ {k} |-> mtime[i]]
    BY <1>7 DEF Remove
  <2>2. TypeOK'
    BY <1>7, <2>1 DEF Remove, TypeOK, configVars, searchVars, Directories, NoPath
  <2>3. IsFiniteSet(DOMAIN files') /\ Cardinality(DOMAIN files') = Cardinality(DOMAIN files) - 1
    BY <1>7, <2>1, FS_RemoveElement DEF Remove, Counted
  <2>4. Cardinality(DOMAIN files) \in Nat
    BY FS_CardinalityType DEF Counted
  <2>5. Counted'
    BY <1>7, <2>3, <2>4 DEF Remove, Counted, Starting, TypeOK
  <2> QED BY <2>2, <2>5
<1>8. CASE UNCHANGED vars
  <2>1. TypeOK'
    BY <1>8 DEF vars, TypeOK, configVars, searchVars, logVars, Directories, NoPath
  <2>2. Counted'
    BY <1>8 DEF vars, Counted, Starting, logVars
  <2> QED BY <2>1, <2>2
<1> QED BY <1>1, <1>2, <1>3, <1>4, <1>5, <1>6, <1>7, <1>8 DEF Next, open_file

(* The variables keep their types: a log file has the number of a start    *)
(* (Logger::open_file).                                                    *)
THEOREM TypeCorrect == Spec => []TypeOK
<1>1. TypeInv => TypeOK
  BY DEF TypeInv
<1> QED BY <1>1, TypeInit, TypeStep, PTL DEF Spec

(***************************************************************************)
(* The search: no configuration file is left below the directory it has    *)
(* come to, and it comes to a level counts.                                *)
(***************************************************************************)

AllWithin(d) == \A e \in configs : e <= d

SearchInv ==
    /\ phase = "searching" =>
          /\ AllWithin(cwd)
          /\ level_up <= 3 => cwd = depth - level_up
          /\ level_up > 3 => cwd < depth - 3
    /\ phase \in {"reading", "logging", "up"} =>
          /\ path.in \in configs /\ AllWithin(path.in) /\ cwd = path.in
          /\ \/ path.of = "file" /\ path.in >= depth - 3
             \/ path.of = "directory" /\ path.in < depth - 3 /\ phase = "reading"
    /\ phase = "dead" => section = "absent" \/ \A d \in configs : d < depth - 3

LEMMA SearchStep == TypeOK /\ SearchInv /\ [Next]_vars => SearchInv'
<1> SUFFICES ASSUME TypeOK, SearchInv, [Next]_vars PROVE SearchInv'
  OBVIOUS
<1>1. /\ depth \in Nat /\ cwd \in Nat /\ level_up \in Nat /\ configs \subseteq Nat
      /\ \A e \in configs : e <= depth
  BY ServiceStartAssumption DEF TypeOK, Directories
<1>2. CASE Start
  BY <1>1, <1>2 DEF Start, SearchInv, AllWithin, configVars
<1>3. CASE searching_forward \/ searching_backward
  <2> USE DEF AllWithin
  <2>1. /\ phase = "searching" /\ AllWithin(cwd)
        /\ level_up <= 3 => cwd = depth - level_up
        /\ level_up > 3 => cwd < depth - 3
        /\ configs' = configs /\ depth' = depth /\ section' = section
    BY <1>3 DEF searching_forward, searching_backward, SearchInv, configVars
  <2>2. CASE cwd \in configs
    <3>1. /\ phase' = "reading" /\ cwd' = cwd /\ path'.in = cwd
          /\ \/ level_up <= 3 /\ path'.of = "file"
             \/ level_up > 3 /\ path'.of = "directory"
      BY <1>3, <2>2 DEF searching_forward, searching_backward
    <3>2. level_up <= 3 => cwd >= depth - 3
      BY <1>1, <2>1
    <3>3. \/ path'.of = "file" /\ path'.in >= depth' - 3
          \/ path'.of = "directory" /\ path'.in < depth' - 3 /\ phase' = "reading"
      BY <1>1, <2>1, <3>1, <3>2
    <3>4. path'.in \in configs' /\ (\A e \in configs' : e <= path'.in) /\ cwd' = path'.in
      BY <2>1, <2>2, <3>1
    <3> QED BY <3>1, <3>3, <3>4 DEF SearchInv
  <2>3. CASE cwd \notin configs /\ cwd > 0
    <3>1. /\ phase' = "searching" /\ cwd' = cwd - 1
          /\ \/ level_up <= 3 /\ level_up' = level_up + 1
             \/ level_up > 3 /\ level_up' = level_up
      BY <1>3, <2>1, <2>3 DEF searching_forward, searching_backward
    <3>2. \A e \in configs : e <= cwd - 1
      BY <1>1, <2>1, <2>3
    <3> QED BY <1>1, <2>1, <3>1, <3>2 DEF SearchInv
  <2>4. CASE cwd \notin configs /\ cwd = 0
    <3>1. phase' = "dead"
      BY <1>3, <2>4 DEF searching_forward, searching_backward, Throw
    <3>2. configs = {}
      BY <1>1, <2>1, <2>4
    <3> QED BY <2>1, <3>1, <3>2 DEF SearchInv
  <2> QED BY <1>1, <2>2, <2>3, <2>4
<1>4. CASE ReadSection
  <2>1. /\ phase = "reading" /\ configs' = configs /\ depth' = depth /\ section' = section
        /\ cwd' = cwd /\ path' = path
    BY <1>4
    DEF ReadSection, Parser_Inotify, Parser_Server_HTTP, Parser_Client_HTTP, Parsed,
        configVars, searchVars
  <2>2. CASE path.of = "directory"
    <3>1. phase' = "dead"
      BY <1>4, <2>2 DEF ReadSection, Parser_Inotify, Parser_Server_HTTP, Parser_Client_HTTP, Parsed
    <3>2. path.in < depth - 3 /\ path.in \in Nat /\ AllWithin(path.in)
      BY <1>1, <2>1, <2>2 DEF SearchInv
    <3>3. \A d \in configs : d < depth - 3
      BY <1>1, <3>2 DEF AllWithin
    <3> QED BY <2>1, <3>1, <3>3 DEF SearchInv
  <2>3. CASE path.of # "directory"
    <3>1. /\ phase' \in {"logging", "up", "dead", "undefined"}
          /\ phase' = "dead" => section = "absent"
      BY <1>4, <2>3 DEF ReadSection, Parser_Inotify, Parser_Server_HTTP, Parser_Client_HTTP, Parsed
    <3>2. /\ path.in \in configs /\ AllWithin(path.in) /\ cwd = path.in
          /\ path.of = "file" /\ path.in >= depth - 3
      BY <2>1, <2>3 DEF SearchInv
    <3>3. /\ path'.in \in configs' /\ (\A e \in configs' : e <= path'.in) /\ cwd' = path'.in
          /\ path'.of = "file" /\ path'.in >= depth' - 3
      BY <2>1, <3>2 DEF AllWithin
    <3>4. phase' = "dead" => section' = "absent"
      BY <2>1, <3>1
    <3>5. phase' # "searching"
      BY <3>1
    <3> QED BY <3>3, <3>4, <3>5 DEF SearchInv, AllWithin
  <2> QED BY <2>2, <2>3
<1>5. CASE open_file \/ make_record \/ Stop
  <2>1. /\ phase \in {"logging", "up"} /\ phase' \in {"up", "undefined", "down"}
        /\ configs' = configs /\ depth' = depth /\ cwd' = cwd /\ path' = path
    BY <1>5 DEF open_file, OpenFails, OpenUndefined, Append, OpenNew, make_record, Stop,
                configVars, searchVars
  <2> QED BY <2>1 DEF SearchInv, AllWithin
<1>6. ASSUME NEW k \in 1..starts, Remove(k) PROVE SearchInv'
  BY <1>6 DEF Remove, SearchInv, AllWithin, configVars, searchVars
<1>7. CASE UNCHANGED vars
  BY <1>7 DEF vars, SearchInv, AllWithin, configVars, searchVars
<1> QED BY <1>2, <1>3, <1>4, <1>5, <1>6, <1>7 DEF Next

(* A program comes up with the nearest configuration file, if it is at     *)
(* most three levels up, and one that dies has none so near or not its     *)
(* section in it (Config_searching, read_ini).                             *)
THEOREM ConfigFound == Spec => []ConfigWithinThreeLevels
<1>1. Init => SearchInv
  BY DEF Init, SearchInv
<1>2. TypeInv => TypeOK
  BY DEF TypeInv
<1>3. TypeOK /\ SearchInv => ConfigWithinThreeLevels
  <2> SUFFICES ASSUME TypeOK, SearchInv PROVE ConfigWithinThreeLevels
    OBVIOUS
  <2>1. phase \in {"reading", "logging", "up"} => path.in \in Nearest /\ cwd = path.in
    BY DEF SearchInv, AllWithin, Nearest
  <2>2. phase \in {"logging", "up"} => path.of = "file" /\ path.in >= depth - 3
    BY DEF SearchInv
  <2>3. phase = "dead" => section = "absent" \/ \A d \in Nearest : d < depth - 3
    BY DEF SearchInv, Nearest
  <2> QED BY <2>1, <2>2, <2>3 DEF ConfigWithinThreeLevels
<1> QED BY <1>1, <1>2, <1>3, TypeInit, TypeStep, SearchStep, PTL DEF Spec

(***************************************************************************)
(* The log: as long as no file is removed the numbers have no gap, the     *)
(* last file is the one last modified, and it is the one written to.       *)
(***************************************************************************)

Follows(m) ==
    \A i, j \in 1..m : i < j =>
        mtime[i] < mtime[j] /\ \A a \in files[i], b \in files[j] : a < b

UpTo(m) ==
    /\ DOMAIN files = 1..m
    /\ Follows(m)
    /\ \A r \in 1..records : \E k \in 1..m : r \in files[k]
    /\ log_file \in {0, m}

LogInv == removed \/ \E m \in Nat : UpTo(m)

LEMMA NextNumber == ASSUME NEW m \in Nat, DOMAIN files = 1..m PROVE n = m + 1
<1>1. Cardinality(1..m) = m
  BY FS_Interval
<1> QED BY <1>1 DEF n

LEMMA LogStep == TypeOK /\ LogInv /\ [Next]_vars => LogInv'
<1> SUFFICES ASSUME TypeOK, LogInv, [Next]_vars, ~removed' PROVE LogInv'
  BY DEF LogInv
<1>1. ~removed
  BY DEF Next, Start, searching_forward, searching_backward, Throw, ReadSection,
         Parser_Inotify, Parser_Server_HTTP, Parser_Client_HTTP, Parsed, open_file,
         OpenFails, OpenUndefined, Append, OpenNew, make_record, Stop, Remove, vars, logVars
<1>2. PICK m \in Nat : UpTo(m)
  BY <1>1 DEF LogInv
<1>3. SUFFICES \E k \in Nat : UpTo(k)'
  BY DEF LogInv
<1>4. /\ clock \in Nat /\ records \in Nat
      /\ \A i \in 1..m : mtime[i] \in 1..clock /\ files[i] \subseteq 1..records
  BY <1>2 DEF TypeOK, UpTo
<1>5. CASE UNCHANGED <<files, mtime, records>> /\ log_file' \in {0, log_file}
  <2>1. UpTo(m)'
    BY <1>2, <1>5 DEF UpTo, Follows
  <2> QED BY <2>1
<1>6. CASE Start \/ searching_forward \/ searching_backward \/ ReadSection \/ OpenFails
           \/ OpenUndefined \/ Stop \/ UNCHANGED vars
  <2>1. UNCHANGED <<files, mtime, records>> /\ log_file' \in {0, log_file}
    BY <1>6 DEF Start, searching_forward, searching_backward, ReadSection,
                Parser_Inotify, Parser_Server_HTTP, Parser_Client_HTTP, Parsed, OpenFails,
                OpenUndefined, Stop, vars, logVars
  <2> QED BY <1>5, <2>1
<1>7. CASE Append
  <2>1. PICK k \in DOMAIN files : LastModified(k) /\ log_file' = k
    BY <1>7 DEF Append
  <2>2. k \in 1..m /\ m \in 1..m /\ mtime[m] <= mtime[k]
    BY <1>2, <2>1 DEF UpTo, LastModified
  <2>3. k = m
    <3>1. k < m => mtime[k] < mtime[m]
      BY <1>2, <2>2 DEF UpTo, Follows
    <3>2. mtime[k] \in Nat /\ mtime[m] \in Nat
      BY <1>4, <2>2
    <3> QED BY <2>2, <3>1, <3>2
  <2>4. files' = files /\ mtime' = mtime /\ records' = records
    BY <1>7 DEF Append
  <2>5. UpTo(m)'
    BY <1>2, <2>1, <2>3, <2>4 DEF UpTo, Follows
  <2> QED BY <2>5
<1>8. CASE OpenNew
  <2>1. n = m + 1 /\ log_file' = n /\ records' = records /\ Touch(n, {})
    BY <1>2, <1>8, NextNumber DEF OpenNew, UpTo
  <2>2. Touch(m + 1, {}) /\ m + 1 \in Nat
    BY <2>1
  <2>3. /\ DOMAIN files' = 1..(m + 1)
        /\ files'[m + 1] = {} /\ mtime'[m + 1] = clock + 1
        /\ \A i \in 1..m : files'[i] = files[i] /\ mtime'[i] = mtime[i]
    <3>1. DOMAIN files = 1..m /\ 1..(m + 1) = 1..m \cup {m + 1} /\ m + 1 \notin 1..m
      BY <1>2 DEF UpTo
    <3>2. /\ DOMAIN files' = DOMAIN files \cup {m + 1}
          /\ files'[m + 1] = {} /\ mtime'[m + 1] = clock + 1
          /\ \A i \in DOMAIN files : i # m + 1 => files'[i] = files[i] /\ mtime'[i] = mtime[i]
      BY <2>2, TouchType
    <3> QED BY <3>1, <3>2
  <2>4. Follows(m + 1)'
    <3> SUFFICES ASSUME NEW i \in 1..(m + 1), NEW j \in 1..(m + 1), i < j
                 PROVE  /\ mtime'[i] < mtime'[j]
                        /\ \A a \in files'[i], b \in files'[j] : a < b
      BY DEF Follows
    <3>1. CASE j \in 1..m
      BY <1>2, <2>3, <3>1 DEF UpTo, Follows
    <3>2. CASE j = m + 1
      <4>1. i \in 1..m
        BY <3>2
      <4> QED BY <1>4, <2>3, <3>2, <4>1
    <3> QED BY <3>1, <3>2
  <2>5. \A r \in 1..records' : \E k \in 1..(m + 1) : r \in files'[k]
    <3>1. \A k \in 1..m : k \in 1..(m + 1)
      OBVIOUS
    <3> QED BY <1>2, <2>1, <2>3, <3>1 DEF UpTo
  <2>6. UpTo(m + 1)'
    BY <2>1, <2>3, <2>4, <2>5 DEF UpTo
  <2> QED BY <2>2, <2>6
<1>9. CASE make_record
  <2>1. /\ log_file = m /\ m \in 1..m /\ DOMAIN files = 1..m
        /\ records' = records + 1 /\ log_file' = log_file
    BY <1>2, <1>9 DEF make_record, UpTo
  <2>2. Touch(m, files[m] \cup {records + 1})
    BY <1>9, <2>1 DEF make_record
  <2>3. /\ DOMAIN files' = 1..m
        /\ files'[m] = files[m] \cup {records + 1} /\ mtime'[m] = clock + 1
        /\ \A i \in 1..m : i # m => files'[i] = files[i] /\ mtime'[i] = mtime[i]
    BY <2>1, <2>2, TouchType
  <2>4. Follows(m)'
    <3> SUFFICES ASSUME NEW i \in 1..m, NEW j \in 1..m, i < j
                 PROVE  /\ mtime'[i] < mtime'[j]
                        /\ \A a \in files'[i], b \in files'[j] : a < b
      BY DEF Follows
    <3>1. /\ i # m /\ files'[i] = files[i] /\ mtime'[i] = mtime[i]
          /\ mtime[i] < mtime[j] /\ \A a \in files[i], b \in files[j] : a < b
      BY <1>2, <2>3 DEF UpTo, Follows
    <3>2. \A a \in files[i] : a < records + 1
      BY <1>4
    <3>3. mtime[i] < clock + 1
      BY <1>4
    <3> QED BY <2>3, <3>1, <3>2, <3>3
  <2>5. \A r \in 1..records' : \E k \in 1..m : r \in files'[k]
    <3> SUFFICES ASSUME NEW r \in 1..records' PROVE \E k \in 1..m : r \in files'[k]
      OBVIOUS
    <3>1. CASE r = records + 1
      BY <2>1, <2>3, <3>1
    <3>2. CASE r \in 1..records
      BY <1>2, <2>3, <3>2 DEF UpTo
    <3> QED BY <1>4, <2>1, <3>1, <3>2
  <2>6. UpTo(m)'
    BY <2>1, <2>3, <2>4, <2>5 DEF UpTo
  <2> QED BY <2>6
<1>10. ASSUME NEW k \in 1..starts, Remove(k) PROVE FALSE
  BY <1>10 DEF Remove
<1> QED BY <1>6, <1>7, <1>8, <1>9, <1>10 DEF Next, open_file

(* Unless a file is removed, the log of all runs is complete and in the    *)
(* order of its files, however often the program was started and ended     *)
(* (Logger::open_file).                                                    *)
THEOREM LogComplete == Spec => []LogCompleteInOrder
<1>1. Init => LogInv
  <2> SUFFICES ASSUME Init PROVE UpTo(0)
    BY DEF LogInv
  <2>1. DOMAIN files = 1..0 /\ 1..0 = {} /\ records = 0 /\ log_file = 0
    BY DEF Init, NoFiles
  <2> QED BY <2>1 DEF UpTo, Follows
<1>2. TypeInv => TypeOK
  BY DEF TypeInv
<1>3. TypeOK /\ LogInv => LogCompleteInOrder
  <2> SUFFICES ASSUME TypeOK, NEW m \in Nat, UpTo(m) PROVE LogCompleteInOrder
    BY DEF LogInv, LogCompleteInOrder
  <2>1. DOMAIN files = 1..m /\ \A k \in 1..m : files[k] \subseteq 1..records
    BY DEF UpTo, TypeOK
  <2>2. UNION {files[k] : k \in DOMAIN files} = 1..records
    BY <2>1 DEF UpTo
  <2>3. \A i, j \in DOMAIN files : i < j => \A a \in files[i], b \in files[j] : a < b
    BY <2>1 DEF UpTo, Follows
  <2> QED BY <2>2, <2>3 DEF LogCompleteInOrder
<1> QED BY <1>1, <1>2, <1>3, TypeInit, TypeStep, LogStep, PTL DEF Spec
================================================================================
