------------------------------ MODULE FileLookupProofs ------------------------------
(***************************************************************************)
(* Theorems about FileLookup, for any set of songs and any number of       *)
(* changes and failures: the answer is true of some moment of the request, *)
(* and a file that was available all the time is sent.                     *)
(***************************************************************************)
EXTENDS FileLookup, FiniteSetTheorems, TLAPS

\* The rows of the table are finitely many, and each is of a song.
LEMMA TableFinite ==
    IsFiniteSet(TableRows) /\ \A row \in TableRows : row[1] \in Songs /\ row[2] \in 1..MaxRows
<1>1. IsFiniteSet(1..MaxRows)
  BY FileLookupAssumption, FS_Interval
<1>2. IsFiniteSet(Songs \X (1..MaxRows))
  BY <1>1, FileLookupAssumption, FS_Product
<1> QED BY <1>2 DEF TableRows

\* The songs of some rows.
LEMMA SongsOfRows ==
    /\ SongsOf({}) = {}
    /\ \A row : SongsOf({row}) = {row[1]}
    /\ \A R : SongsOf(R) = {} => R = {}
    /\ \A R : \A row \in R : row[1] \in SongsOf(R)
    /\ \A R \in SUBSET TableRows : SongsOf(R) \subseteq Songs
<1> QED BY TableFinite DEF SongsOf

\* What is known of the outcome of a query, by its state.
LEMMA RowStates ==
    ASSUME NEW r \in Outcomes
    PROVE  /\ r.found \subseteq TableRows /\ IsFiniteSet(r.found)
           /\ r # Pending /\ r # Failed => r = Returned(r.found)
           /\ Cardinality(r.found) \in Nat
           /\ r = Failed \/ r = Pending => r.found = {}
<1>1. r.found \subseteq TableRows
  BY DEF Outcomes, Pending, Failed, Returned
<1>2. IsFiniteSet(r.found)
  BY <1>1, TableFinite, FS_Subset
<1>3. r # Pending /\ r # Failed => r = Returned(r.found)
  BY DEF Outcomes, Pending, Failed, Returned
<1>4. r = Failed \/ r = Pending => r.found = {}
  BY DEF Pending, Failed
<1> QED BY <1>1, <1>2, <1>3, <1>4, FS_CardinalityType

\* What res_handle says of a result.
LEMMA ResHandle ==
    ASSUME NEW r \in Outcomes
    PROVE  /\ res_handle(r) \in {"DB_ERROR", "RESULT_IS_OK", "SEVERAL_FILES", "NOT_FOUND"}
           /\ res_handle(r) = "DB_ERROR" <=> r = Failed
           /\ res_handle(r) = "RESULT_IS_OK" => r # Failed /\ \E row \in TableRows : r.found = {row}
           /\ res_handle(r) = "SEVERAL_FILES" => r # Failed /\ Cardinality(r.found) > 1
           /\ res_handle(r) = "NOT_FOUND" => r # Failed /\ r.found = {}
<1>1. Cardinality(r.found) \in Nat /\ IsFiniteSet(r.found) /\ r.found \subseteq TableRows
  BY RowStates
<1>2. Cardinality(r.found) = 0 <=> r.found = {}
  BY <1>1, FS_EmptySet
<1>3. Cardinality(r.found) = 1 => \E row \in TableRows : r.found = {row}
  BY <1>1, FS_Singleton
<1>4. /\ res_handle(r) \in {"DB_ERROR", "RESULT_IS_OK", "SEVERAL_FILES", "NOT_FOUND"}
      /\ res_handle(r) = "DB_ERROR" <=> r = Failed
      /\ res_handle(r) = "RESULT_IS_OK" => r # Failed /\ Cardinality(r.found) = 1
      /\ res_handle(r) = "SEVERAL_FILES" => r # Failed /\ Cardinality(r.found) > 1
      /\ res_handle(r) = "NOT_FOUND" => r # Failed /\ ~(Cardinality(r.found) = 1)
                                                  /\ ~(Cardinality(r.found) > 1)
  <2>1. r = Failed => Cardinality(r.found) = 0
    BY <1>2, RowStates
  <2>2. CASE r = Failed
    BY <2>1, <2>2 DEF res_handle
  <2>3. CASE r # Failed /\ Cardinality(r.found) = 1
    BY <1>1, <2>3 DEF res_handle
  <2>4. CASE r # Failed /\ Cardinality(r.found) > 1
    BY <1>1, <2>4 DEF res_handle
  <2>5. CASE r # Failed /\ ~(Cardinality(r.found) = 1) /\ ~(Cardinality(r.found) > 1)
    BY <1>1, <2>5 DEF res_handle
  <2> QED BY <2>2, <2>3, <2>4, <2>5
<1>5. res_handle(r) = "NOT_FOUND" => Cardinality(r.found) = 0
  BY <1>1, <1>4
<1> QED BY <1>2, <1>3, <1>4, <1>5

(***************************************************************************)
(* The step that combines the two results.                                 *)
(***************************************************************************)

Answers == {"DB_ERROR", "RESULT_IS_OK", "SEVERAL_FILES", "NOT_FOUND"}

\* The songs a query found.
FoundBy(q) == SongsOf(rows[q].found)

\* Both queries succeeded, and only one of them found rows: one.
OneFound(f) ==
    /\ rows["name"] # Failed /\ rows["uid"] # Failed
    /\ \/ FoundBy("name") = {f} /\ FoundBy("uid") = {}
       \/ FoundBy("name") = {} /\ FoundBy("uid") = {f}

NothingFound == \A q \in Queries : rows[q] # Failed /\ FoundBy(q) = {}

SeveralFound ==
    \/ \E q \in Queries : rows[q] # Failed /\ Cardinality(rows[q].found) > 1
    \/ /\ rows["name"] # Failed /\ rows["uid"] # Failed
       /\ \E f, g \in Songs : FoundBy("name") = {f} /\ FoundBy("uid") = {g}

\* The songs of one row, and of none.
LEMMA FoundRows ==
    ASSUME NEW q \in Queries
    PROVE  /\ rows[q].found = {} => FoundBy(q) = {}
           /\ \A row \in TableRows : rows[q].found = {row} => row[1] \in Songs /\ FoundBy(q) = {row[1]}
<1> QED BY SongsOfRows, TableFinite DEF FoundBy

LEMMA DecideCases ==
    ASSUME TypeOK, Decide
    PROVE  \/ Refuse(Appended("Database")) /\ \E q \in Queries : rows[q] = Failed
           \/ Refuse("Several") /\ SeveralFound
           \/ Refuse("File") /\ NothingFound
           \/ \E f \in Songs : Found({f}) /\ OneFound(f)
<1> DEFINE name == res_handle(rows["name"])
           uid  == res_handle(rows["uid"])
           end  == IF name \in {"DB_ERROR", "SEVERAL_FILES"} THEN name ELSE uid
           both == {name, uid}
<1>1. /\ rows["name"] \in Outcomes /\ rows["uid"] \in Outcomes /\ Queries = {"name", "uid"}
      /\ rows["name"] # Pending /\ rows["uid"] # Pending
  <2>1. rows \in [Queries -> Outcomes]
    BY DEF TypeOK
  <2>2. \A q \in Queries : rows[q] # Pending
    BY DEF Decide
  <2> QED BY <2>1, <2>2 DEF Queries
<1>2. name \in Answers /\ uid \in Answers
  BY <1>1, ResHandle DEF Answers
<1>3. (CASE end = "DB_ERROR"        -> Refuse(Appended("Database"))
        [] end = "SEVERAL_FILES"    -> Refuse("Several")
        [] both = {"NOT_FOUND"}     -> Refuse("File")
        [] both = {"RESULT_IS_OK"}  -> Refuse("Several")
        [] OTHER                    -> Found(SongsOf(rows["name"].found \cup rows["uid"].found)))
  BY DEF Decide
<1> HIDE DEF name, uid
<1>4. \/ end = "DB_ERROR" /\ Refuse(Appended("Database"))
      \/ end = "SEVERAL_FILES" /\ Refuse("Several")
      \/ name = "NOT_FOUND" /\ uid = "NOT_FOUND" /\ Refuse("File")
      \/ name = "RESULT_IS_OK" /\ uid = "RESULT_IS_OK" /\ Refuse("Several")
      \/ /\ {name, uid} = {"NOT_FOUND", "RESULT_IS_OK"}
         /\ Found(SongsOf(rows["name"].found \cup rows["uid"].found))
  <2>1. CASE end = "DB_ERROR"
    BY <1>2, <1>3, <2>1 DEF Answers
  <2>2. CASE end = "SEVERAL_FILES"
    BY <1>2, <1>3, <2>2 DEF Answers
  <2>3. CASE name = "NOT_FOUND" /\ uid = "NOT_FOUND"
    BY <1>3, <2>3
  <2>4. CASE name = "RESULT_IS_OK" /\ uid = "RESULT_IS_OK"
    BY <1>3, <2>4
  <2>5. CASE {name, uid} = {"NOT_FOUND", "RESULT_IS_OK"}
    BY <1>3, <2>5
  <2> QED BY <1>2, <2>1, <2>2, <2>3, <2>4, <2>5 DEF Answers
<1>5. CASE end = "DB_ERROR" /\ Refuse(Appended("Database"))
  BY <1>1, <1>2, <1>5, ResHandle DEF name, uid, Answers
<1>6. CASE end = "SEVERAL_FILES" /\ Refuse("Several")
  BY <1>1, <1>2, <1>6, ResHandle DEF name, uid, Answers, SeveralFound
<1>7. CASE name = "NOT_FOUND" /\ uid = "NOT_FOUND" /\ Refuse("File")
  <2>1. rows["name"].found = {} /\ rows["uid"].found = {} /\ rows["name"] # Failed /\ rows["uid"] # Failed
    BY <1>1, <1>7, ResHandle DEF name, uid
  <2> QED BY <1>1, <1>7, <2>1, FoundRows DEF NothingFound
<1>8. CASE name = "RESULT_IS_OK" /\ uid = "RESULT_IS_OK" /\ Refuse("Several")
  <2>1. PICK x \in TableRows, y \in TableRows : rows["name"].found = {x} /\ rows["uid"].found = {y}
    BY <1>1, <1>8, ResHandle DEF name, uid
  <2>2. rows["name"] # Failed /\ rows["uid"] # Failed
    BY <1>1, <1>8, ResHandle DEF name, uid
  <2>3. FoundBy("name") = {x[1]} /\ FoundBy("uid") = {y[1]} /\ x[1] \in Songs /\ y[1] \in Songs
    BY <1>1, <2>1, FoundRows
  <2> QED BY <1>8, <2>2, <2>3 DEF SeveralFound
<1>9. CASE /\ {name, uid} = {"NOT_FOUND", "RESULT_IS_OK"}
           /\ Found(SongsOf(rows["name"].found \cup rows["uid"].found))
  <2>1. CASE name = "NOT_FOUND" /\ uid = "RESULT_IS_OK"
    <3>1. PICK row \in TableRows : rows["uid"].found = {row}
      BY <1>1, <2>1, ResHandle DEF uid
    <3>2. rows["name"].found = {} /\ rows["name"] # Failed /\ rows["uid"] # Failed
      BY <1>1, <2>1, ResHandle DEF name, uid
    <3>3. row[1] \in Songs /\ OneFound(row[1])
      BY <1>1, <3>1, <3>2, FoundRows DEF OneFound
    <3>4. rows["name"].found \cup rows["uid"].found = {row}
      BY <3>1, <3>2
    <3>5. SongsOf(rows["name"].found \cup rows["uid"].found) = {row[1]}
      BY <3>4, SongsOfRows
    <3> QED BY <1>9, <3>3, <3>5
  <2>2. CASE name = "RESULT_IS_OK" /\ uid = "NOT_FOUND"
    <3>1. PICK row \in TableRows : rows["name"].found = {row}
      BY <1>1, <2>2, ResHandle DEF name
    <3>2. rows["uid"].found = {} /\ rows["name"] # Failed /\ rows["uid"] # Failed
      BY <1>1, <2>2, ResHandle DEF name, uid
    <3>3. row[1] \in Songs /\ OneFound(row[1])
      BY <1>1, <3>1, <3>2, FoundRows DEF OneFound
    <3>4. rows["name"].found \cup rows["uid"].found = {row}
      BY <3>1, <3>2
    <3>5. SongsOf(rows["name"].found \cup rows["uid"].found) = {row[1]}
      BY <3>4, SongsOfRows
    <3> QED BY <1>9, <3>3, <3>5
  <2> QED BY <1>9, <2>1, <2>2
<1> QED BY <1>4, <1>5, <1>6, <1>7, <1>8, <1>9

(***************************************************************************)
(* The invariant.                                                          *)
(***************************************************************************)

\* What the history says of what the handler can see now.
HistoryInv ==
    /\ always \subseteq Source /\ Source \subseteq ever
    /\ Double \subseteq doubled
    /\ handler = "database" => doubled \subseteq ever

\* A query returned rows of songs that match and were listed, of all that were there
\* always, and several of one song only if it had several.
RowsInv ==
    \A q \in Queries :
        /\ rows[q] # Pending => handler = "database" /\ request.kind = "file"
        /\ rows[q] = Failed => failures > 0
        /\ rows[q] # Pending /\ rows[q] # Failed =>
              /\ FoundBy(q) \subseteq request[q] \cap ever
              /\ request[q] \cap always \subseteq FoundBy(q)
              /\ \A x, y \in rows[q].found : x # y /\ x[1] = y[1] => x[1] \in doubled

\* What a request for both tables has of the first when it comes to the second.
FilesTold ==
    \/ request.kind = "log table" /\ req_result.tables = {}
    \/ request.kind = "both tables" /\ req_result.tables = {"files"}
    \/ /\ request.kind = "both tables" /\ req_result.tables = {}
       /\ failures > 0 /\ req_error = "Database"

\* What is true at each step of the handler.
PhaseInv ==
    /\ pc # "answered" => status = 0 /\ req_error \in {"none", "Database"}
    /\ req_error = "Database" => failures > 0
    /\ handler = "directory" => pc \in {"logging", "open", "answered"}
    /\ pc \in {"logging", "files table"} => req_result.tables = {}
    /\ pc = "files table" => request.kind \in {"files table", "both tables"}
    /\ pc = "log table" => request.kind \in {"log table", "both tables"}
    /\ pc = "log table" => FilesTold
    /\ pc = "lookup" => request.kind \in {"file", "illegal"}
    /\ pc = "open" => request.kind = "file"

FoundInv == req_result.songs \subseteq Matching \cap ever

Unique(f) == Matching \cap ever = {f} /\ f \notin request.name \cap request.uid

\* A file that nothing keeps from its client is what was found.
AvailInv ==
    /\ pc \in {"open", "answered"} /\ handler = "database" /\ request.kind = "file"
    /\ \A q \in Queries : rows[q] # Failed
    =>  \A f \in (always \cap present) \ doubled :
            Unique(f) => req_result.songs = {f} /\ (pc = "answered" => status = 200)

IInv == TypeOK /\ HistoryInv /\ RowsInv /\ PhaseInv /\ FoundInv /\ AnswerTruthful /\ AvailInv

(***************************************************************************)
(* Types, in parts.                                                        *)
(***************************************************************************)

Results == [tables : SUBSET {"files", "log"}, songs : SUBSET Songs]

SongsType ==
    /\ disk \subseteq Songs /\ song_table \in [Songs -> 0..MaxRows]
    /\ always \subseteq ever /\ ever \subseteq Songs /\ present \subseteq disk
    /\ doubled \subseteq Songs

RequestType == handler \in {"database", "directory"} /\ request \in Requests

Steps  == {"logging", "files table", "log table", "lookup", "open", "answered"}
Errors == {"none", "Database", "Illegal", "Several", "File"}
Status == {0, 200, 300, 400, 404, 500}

StepType == pc \in Steps /\ req_error \in Errors /\ status \in Status

ResultType ==
    /\ req_result \in Results
    /\ pc = "open" => Cardinality(req_result.songs) = 1

CountType == changes \in 0..MaxChanges /\ failures \in 0..MaxFailures

LEMMA TypeParts ==
    TypeOK <=> /\ SongsType /\ RequestType /\ StepType /\ ResultType /\ CountType
               /\ rows \in [Queries -> Outcomes]
<1> QED BY DEF TypeOK, SongsType, RequestType, StepType, Steps, Errors, Status, ResultType,
              CountType, Results

LEMMA RequestParts ==
    ASSUME request \in Requests
    PROVE  /\ request.kind \in Tables \cup {"illegal", "file"}
           /\ request.name \subseteq Songs /\ request.uid \subseteq Songs
           /\ request["name"] = request.name /\ request["uid"] = request.uid
           /\ request.kind # "file" => request.name = {} /\ request.uid = {}
<1> QED BY DEF Requests, Tables

\* What the two changes of a result leave.
LEMMA ResultParts ==
    ASSUME NEW r \in Results
    PROVE  /\ \A S \in SUBSET Songs :
                 /\ [r EXCEPT !.songs = S] \in Results
                 /\ [r EXCEPT !.songs = S].songs = S
                 /\ [r EXCEPT !.songs = S].tables = r.tables
           /\ \A T \in SUBSET {"files", "log"} :
                 /\ [r EXCEPT !.tables = T] \in Results
                 /\ [r EXCEPT !.tables = T].songs = r.songs
                 /\ [r EXCEPT !.tables = T].tables = T
           /\ r.tables \in SUBSET {"files", "log"} /\ r.songs \in SUBSET Songs
<1> QED BY DEF Results

LEMMA NothingType ==
    Nothing \in Results /\ Nothing.tables = {} /\ Nothing.songs = {}
<1> QED BY DEF Nothing, Results

LEMMA FoundParts ==
    ASSUME ResultType, NEW f \in Songs, Found({f})
    PROVE  /\ ResultType' /\ req_result'.songs = {f} /\ pc' = "open"
           /\ req_error' = req_error /\ status' = status
<1>1. /\ req_result' = [req_result EXCEPT !.songs = {f}] /\ pc' = "open"
      /\ req_error' = req_error /\ status' = status
  BY DEF Found
<1>2. req_result' \in Results /\ req_result'.songs = {f}
  BY <1>1, ResultParts DEF ResultType
<1>3. Cardinality({f}) = 1
  BY FS_Singleton
<1> QED BY <1>1, <1>2, <1>3 DEF ResultType

LEMMA RefuseParts ==
    ASSUME ResultType, NEW e, Refuse(e)
    PROVE  /\ ResultType' /\ req_result' = req_result /\ pc' = "answered"
           /\ req_error' = e /\ status' = Refusal(e)
<1> QED BY DEF Refuse, Answer, ResultType

LEMMA RefusalStatus ==
    /\ Refusal("Illegal") = 400 /\ Refusal("Several") = 300
    /\ Refusal("Database") = 500 /\ Refusal("File") = 404
    /\ \A e : Refusal(e) \in {300, 400, 404, 500}
<1> QED BY DEF Refusal

\* Every error that leads to a refusal is of one of the kinds.
LEMMA RefuseType ==
    ASSUME StepType, ResultType, NEW e \in {"Database", "Illegal", "Several", "File"},
           Refuse(e) \/ Refuse(Appended(e))
    PROVE  StepType' /\ ResultType'
<1>1. Appended(e) \in Errors
  BY DEF StepType, Appended, Errors
<1>2. PICK x \in Errors : Refuse(x)
  BY <1>1 DEF Errors
<1>3. /\ ResultType' /\ pc' = "answered" /\ req_error' = x /\ status' = Refusal(x)
  BY <1>2, RefuseParts
<1>4. Refusal(x) \in Status /\ "answered" \in Steps
  BY DEF Refusal, Status, Steps
<1> QED BY <1>3, <1>4 DEF StepType

\* A table that is formed or left out.
LEMMA TableParts ==
    ASSUME ResultType, NEW t \in {"files", "log"}, FormTable(t)
    PROVE  /\ req_result' \in Results /\ req_result'.songs = req_result.songs
           /\ \/ /\ req_result'.tables = req_result.tables \cup {t}
                 /\ req_error' = req_error /\ failures' = failures
              \/ Fails /\ req_error' = Appended("Database") /\ req_result' = req_result
<1>1. req_result \in Results
  BY DEF ResultType
<1>2. req_result.tables \cup {t} \in SUBSET {"files", "log"}
  BY <1>1, ResultParts
<1>3. CASE /\ req_result' = [req_result EXCEPT !.tables = req_result.tables \cup {t}]
           /\ UNCHANGED <<req_error, failures>>
  BY <1>1, <1>2, <1>3, ResultParts
<1>4. CASE /\ Fails /\ req_error' = Appended("Database")
           /\ UNCHANGED req_result
  BY <1>1, <1>4
<1> QED BY <1>3, <1>4 DEF FormTable

LEMMA TypeInit == Init => TypeOK
<1> SUFFICES ASSUME Init PROVE TypeOK
  OBVIOUS
<1>1. rows \in [Queries -> Outcomes]
  BY DEF Init, Outcomes
<1>2. ResultType
  BY NothingType DEF Init, ResultType
<1>3. SongsType
  BY DEF Init, SongsType, Source, Listed, Double
<1>4. RequestType /\ StepType
  BY DEF Init, RequestType, StepType, Steps, Errors, Status
<1>5. CountType
  <2>1. changes = 0 /\ failures = 0
    BY DEF Init
  <2> QED BY <2>1, FileLookupAssumption DEF CountType
<1> QED BY <1>1, <1>2, <1>3, <1>4, <1>5, TypeParts

LEMMA TypeStep == TypeOK /\ [Next]_vars => TypeOK'
<1> SUFFICES ASSUME TypeOK, [Next]_vars PROVE TypeOK'
  OBVIOUS
<1>1. /\ SongsType /\ RequestType /\ StepType /\ ResultType /\ CountType
      /\ rows \in [Queries -> Outcomes]
  BY TypeParts
<1>2. Fails \/ failures' = failures => failures' \in 0..MaxFailures
  BY <1>1, FileLookupAssumption DEF Fails, CountType
<1>3. ASSUME UNCHANGED <<environment, handler, request>>, StepType', ResultType',
             rows' \in [Queries -> Outcomes], failures' \in 0..MaxFailures
      PROVE  TypeOK'
  <2>1. SongsType' /\ RequestType' /\ CountType'
    BY <1>1, <1>3 DEF SongsType, RequestType, CountType, environment, historyVars
  <2> QED BY <1>3, <2>1 DEF TypeOK, SongsType, RequestType, StepType, Steps, Errors, Status,
              ResultType, CountType, Results
<1>4. CASE Change
  <2>1. SongsType'
    <3>1. song_table' \in [Songs -> 0..MaxRows] /\ disk' \subseteq Songs
      <4>1. ASSUME NEW f \in Songs, song_table[f] < MaxRows
            PROVE  [song_table EXCEPT ![f] = @ + 1] \in [Songs -> 0..MaxRows]
        <5>1. song_table[f] \in 0..MaxRows /\ song_table[f] + 1 \in 0..MaxRows
          BY <1>1, <4>1, FileLookupAssumption DEF SongsType
        <5> QED BY <1>1, <5>1 DEF SongsType
      <4>2. 0 \in 0..MaxRows
        BY FileLookupAssumption
      <4> QED BY <1>1, <1>4, <4>1, <4>2 DEF Change, SongsType
    <3>2. Source' \subseteq Songs /\ Double' \subseteq Songs
      BY <3>1 DEF Source, Listed, Double
    <3> QED BY <1>1, <1>4, <3>1, <3>2 DEF Change, SongsType
  <2>2. CountType'
    BY <1>1, <1>4, FileLookupAssumption DEF Change, CountType
  <2>3. RequestType' /\ rows' \in [Queries -> Outcomes]
    BY <1>1, <1>4 DEF Change, RequestType, requestVars
  <2>4. StepType' /\ ResultType'
    <3>1. UNCHANGED <<pc, req_error, req_result, status>>
      BY <1>4 DEF Change, requestVars
    <3> QED BY <1>1, <3>1 DEF StepType, ResultType
  <2> QED BY <2>1, <2>2, <2>3, <2>4 DEF TypeOK, SongsType, RequestType, StepType, Steps, Errors, Status,
              ResultType, CountType, Results
<1>5. CASE Log
  <2>1. StepType' /\ ResultType'
    <3>1. /\ pc' \in {"files table", "log table", "lookup"} /\ status' = status
          /\ req_error' \in {req_error, "Database"} /\ req_result' = req_result
      BY <1>5 DEF Log
    <3>2. StepType'
      <4>1. pc' \in Steps
        BY <3>1 DEF Steps
      <4>2. req_error' \in Errors
        BY <1>1, <3>1 DEF StepType, Errors
      <4> QED BY <1>1, <3>1, <4>1, <4>2 DEF StepType
    <3> QED BY <1>1, <3>1, <3>2 DEF ResultType
  <2>2. failures' \in 0..MaxFailures
    BY <1>2, <1>5 DEF Log
  <2> QED BY <1>1, <1>3, <1>5, <2>1, <2>2 DEF Log
<1>6. CASE FilesTable \/ LogTable
  <2>1. PICK t \in {"files", "log"} : FormTable(t)
    BY <1>6 DEF FilesTable, LogTable
  <2>2. pc' \in {"log table", "answered"} /\ (status' = status \/ status' = 200)
    BY <1>6 DEF FilesTable, LogTable, Answer
  <2>3. req_error' \in {req_error, Appended("Database")}
    BY <1>1, <2>1, TableParts
  <2>4. StepType'
    <3>1. Appended("Database") \in {req_error, "Database"}
      BY DEF Appended
    <3>2. req_error' \in Errors
      BY <1>1, <2>3, <3>1 DEF StepType, Errors
    <3>3. pc' \in Steps
      BY <2>2 DEF Steps
    <3>4. status' \in Status
      <4>1. 200 \in Status /\ status \in Status
        BY <1>1 DEF StepType, Status
      <4> QED BY <2>2, <4>1
    <3> QED BY <3>2, <3>3, <3>4 DEF StepType
  <2>5. ResultType' /\ failures' \in 0..MaxFailures
    BY <1>1, <1>2, <2>1, <2>2, TableParts DEF ResultType
  <2> QED BY <1>1, <1>3, <1>6, <2>4, <2>5 DEF FilesTable, LogTable
<1>7. CASE Illegal
  <2>1. StepType' /\ ResultType'
    BY <1>1, <1>7, RefuseType DEF Illegal
  <2>2. failures' \in 0..MaxFailures
    BY <1>2, <1>7 DEF Illegal
  <2> QED BY <1>1, <1>3, <1>7, <2>1, <2>2 DEF Illegal
<1>8. ASSUME NEW q \in Queries, Query(q) PROVE TypeOK'
  <2>1. Failed \in Outcomes /\ \A R \in SUBSET TableRows : Returned(R) \in Outcomes
    BY DEF Outcomes
  <2>2. Selected(request[q]) \in SUBSET TableRows
    BY DEF Selected
  <2>3. rows' \in [Queries -> Outcomes]
    BY <1>1, <1>8, <2>1, <2>2 DEF Query
  <2>4. StepType' /\ ResultType'
    BY <1>1, <1>8 DEF Query, StepType, ResultType
  <2>5. failures' \in 0..MaxFailures
    BY <1>2, <1>8 DEF Query
  <2> QED BY <1>3, <1>8, <2>3, <2>4, <2>5 DEF Query
<1>9. CASE Decide
  <2>1. StepType' /\ ResultType'
    <3>1. ASSUME NEW f \in Songs, Found({f}) PROVE StepType' /\ ResultType'
      <4>1. ResultType' /\ pc' = "open" /\ UNCHANGED <<req_error, status>>
        BY <1>1, <3>1, FoundParts
      <4> QED BY <1>1, <4>1 DEF StepType, Steps
    <3> QED BY <1>1, <1>9, <3>1, DecideCases, RefuseType
  <2>2. failures' \in 0..MaxFailures
    BY <1>2, <1>9 DEF Decide
  <2> QED BY <1>1, <1>3, <1>9, <2>1, <2>2 DEF Decide
<1>10. CASE ListDirectory
  <2>1. StepType'
    BY <1>1, <1>10 DEF ListDirectory, Answer, StepType, Steps, Status
  <2>2. {"files"} \in SUBSET {"files", "log"}
    OBVIOUS
  <2>3. ResultType'
    BY <1>1, <1>10, <2>2, ResultParts DEF ListDirectory, Answer, ResultType
  <2>4. failures' \in 0..MaxFailures
    BY <1>2, <1>10 DEF ListDirectory
  <2> QED BY <1>1, <1>3, <1>10, <2>1, <2>3, <2>4 DEF ListDirectory
<1>11. CASE Find
  <2>1. StepType' /\ ResultType'
    <3>1. ASSUME NEW f \in disk, Found({f}) PROVE StepType' /\ ResultType'
      <4>1. f \in Songs
        BY <1>1, <3>1 DEF SongsType
      <4>2. ResultType' /\ pc' = "open" /\ UNCHANGED <<req_error, status>>
        BY <1>1, <3>1, <4>1, FoundParts
      <4> QED BY <1>1, <4>2 DEF StepType, Steps
    <3> QED BY <1>1, <1>11, <3>1, RefuseType DEF Find
  <2>2. failures' \in 0..MaxFailures
    BY <1>2, <1>11 DEF Find
  <2> QED BY <1>1, <1>3, <1>11, <2>1, <2>2 DEF Find
<1>12. CASE Open
  <2>1. StepType' /\ ResultType'
    <3>1. /\ pc' = "answered" /\ status' \in {200, 500}
          /\ UNCHANGED <<req_error, req_result>>
      BY <1>12 DEF Open, Answer
    <3> QED BY <1>1, <3>1 DEF StepType, Steps, Status, ResultType
  <2>2. failures' \in 0..MaxFailures
    BY <1>2, <1>12 DEF Open
  <2> QED BY <1>1, <1>3, <1>12, <2>1, <2>2 DEF Open, environment
<1>13. CASE UNCHANGED vars
  <2>1. /\ UNCHANGED <<environment, handler, request>>
        /\ UNCHANGED <<pc, req_error, req_result, status, rows, failures>>
    BY <1>13 DEF vars, requestVars, environment
  <2>2. StepType' /\ ResultType'
    BY <1>1, <2>1 DEF StepType, ResultType
  <2> QED BY <1>1, <1>2, <1>3, <2>1, <2>2
<1> QED
  BY <1>4, <1>5, <1>6, <1>7, <1>8, <1>9, <1>10, <1>11, <1>12, <1>13 DEF Next

(* The variables keep their types; a file is opened after one was found.   *)
THEOREM TypeCorrect == Spec => []TypeOK
<1> QED BY TypeInit, TypeStep, PTL DEF Spec

(***************************************************************************)
(* The invariant is inductive.                                             *)
(***************************************************************************)

LEMMA InvInit == Init => IInv
<1> SUFFICES ASSUME Init PROVE IInv
  OBVIOUS
<1>1. req_result.tables = {} /\ req_result.songs = {}
  BY NothingType DEF Init
<1>2. HistoryInv /\ FoundInv
  <2>1. song_table \in [Songs -> 0..MaxRows] /\ ever = Source /\ always = Source /\ doubled = Double
    BY DEF Init
  <2>2. Double \subseteq Listed
    BY <2>1, FileLookupAssumption DEF Double, Listed
  <2>3. handler = "database" => Source = Listed
    BY DEF Source
  <2> QED BY <1>1, <2>1, <2>2, <2>3 DEF HistoryInv, FoundInv
<1>3. RowsInv
  <2>1. \A q \in Queries : rows[q] = Pending
    BY DEF Init
  <2>2. Pending # Failed
    BY DEF Pending, Failed
  <2> QED BY <2>1, <2>2 DEF RowsInv
<1>4. PhaseInv /\ AvailInv
  BY <1>1 DEF Init, PhaseInv, AvailInv
<1>5. AnswerTruthful
  <2>1. status = 0 /\ pc = "logging"
    BY DEF Init
  <2> QED BY <2>1 DEF AnswerTruthful, SentMatches, MissingWhenNotFound, SeveralMatched,
                      ErrorOccurred, IllegalRefused, TablesComplete
<1> QED BY <1>2, <1>3, <1>4, <1>5, TypeInit DEF IInv

\* What a step leaves alone.
LEMMA StepFrame ==
    ASSUME TypeOK, [Next]_vars
    PROVE  /\ Change \/ UNCHANGED environment
           /\ UNCHANGED <<handler, request>> /\ Matching' = Matching
           /\ failures \in Nat /\ (failures' = failures \/ failures' = failures + 1)
           /\ pc = "answered" => UNCHANGED vars
<1>1. failures \in Nat
  BY TypeParts DEF CountType
<1>2. CASE Change
  BY <1>1, <1>2 DEF Change, requestVars, Matching
<1>3. CASE Log
  BY <1>1, <1>3 DEF Log, Fails, Matching
<1>4. CASE FilesTable \/ LogTable
  BY <1>1, <1>4 DEF FilesTable, LogTable, FormTable, Fails, Matching
<1>5. CASE Illegal \/ Decide \/ ListDirectory \/ Find
  BY <1>1, <1>5 DEF Illegal, Decide, ListDirectory, Find, Matching
<1>6. CASE \E q \in Queries : Query(q)
  BY <1>1, <1>6 DEF Query, Fails, Matching
<1>7. CASE Open
  BY <1>1, <1>7 DEF Open, environment, Matching
<1>8. CASE UNCHANGED vars
  BY <1>1, <1>8 DEF vars, requestVars, environment, Matching
<1> QED BY <1>2, <1>3, <1>4, <1>5, <1>6, <1>7, <1>8 DEF Next

\* The steps that change what the handler holds: all others leave it alone.
LEMMA QueryFrame ==
    ASSUME [Next]_vars, ~\E q \in Queries : Query(q)
    PROVE  rows' = rows
<1> QED BY DEF Next, vars, requestVars, Change, Log, FilesTable, LogTable, Illegal, Decide,
               ListDirectory, Find, Open

LEMMA HistoryStep == TypeOK /\ HistoryInv /\ [Next]_vars => HistoryInv'
<1> SUFFICES ASSUME TypeOK, HistoryInv, [Next]_vars PROVE HistoryInv'
  OBVIOUS
<1>1. CASE Change
  <2>1. TypeOK'
    BY TypeStep
  <2>2. song_table' \in [Songs -> 0..MaxRows]
    BY <2>1 DEF TypeOK
  <2>3. Double' \subseteq Listed'
    BY <2>2, FileLookupAssumption DEF Double, Listed
  <2>4. handler' = handler /\ (handler' = "database" => Source' = Listed')
    BY <1>1 DEF Change, requestVars, Source
  <2>5. /\ ever' = ever \cup Source' /\ always' = always \cap Source'
        /\ doubled' = doubled \cup Double'
    BY <1>1 DEF Change
  <2> QED BY <2>3, <2>4, <2>5 DEF HistoryInv
<1>2. CASE UNCHANGED environment
  BY <1>2, StepFrame DEF environment, historyVars, HistoryInv, Source, Listed, Double
<1> QED BY <1>1, <1>2, StepFrame

\* What a query selects: rows of the listed songs that match, several of one song only
\* if it has several.
LEMMA SelectedSongs ==
    ASSUME TypeOK, NEW q \in Queries
    PROVE  /\ request[q] \subseteq Songs
           /\ SongsOf(Selected(request[q])) = request[q] \cap Listed
           /\ \A x, y \in Selected(request[q]) : x # y /\ x[1] = y[1] => x[1] \in Double
<1>1. request[q] \subseteq Songs /\ song_table \in [Songs -> 0..MaxRows]
  BY TypeParts, RequestParts DEF RequestType, SongsType, Queries
<1>2. MaxRows \in Nat \ {0}
  BY FileLookupAssumption
<1>3. \A f \in Songs : song_table[f] \in Nat
  BY <1>1, <1>2
<1>4. ASSUME NEW f \in SongsOf(Selected(request[q])) PROVE f \in request[q] \cap Listed
  <2>1. PICK row \in Selected(request[q]) : row[1] = f
    BY DEF SongsOf
  <2>2. /\ row[1] \in request[q] /\ row[2] <= song_table[row[1]]
        /\ row[1] \in Songs /\ row[2] \in 1..MaxRows
    BY TableFinite DEF Selected
  <2>3. song_table[f] > 0
    BY <1>2, <1>3, <2>1, <2>2
  <2> QED BY <2>1, <2>2, <2>3 DEF Listed
<1>5. ASSUME NEW f \in request[q] \cap Listed PROVE f \in SongsOf(Selected(request[q]))
  <2>1. f \in Songs /\ song_table[f] > 0 /\ song_table[f] \in Nat
    BY <1>3 DEF Listed
  <2>2. <<f, 1>> \in TableRows
    BY <1>2, <2>1 DEF TableRows
  <2>3. <<f, 1>> \in Selected(request[q])
    BY <2>1, <2>2 DEF Selected
  <2>4. <<f, 1>>[1] = f
    OBVIOUS
  <2> QED BY <2>3, <2>4 DEF SongsOf
<1>6. ASSUME NEW x \in Selected(request[q]), NEW y \in Selected(request[q]), x # y, x[1] = y[1]
      PROVE  x[1] \in Double
  <2>1. x \in Songs \X (1..MaxRows) /\ y \in Songs \X (1..MaxRows)
    BY DEF Selected, TableRows
  <2>2. x[2] # y[2]
    BY <1>6, <2>1
  <2>3. x[2] <= song_table[x[1]] /\ y[2] <= song_table[x[1]]
    BY <1>6 DEF Selected
  <2>4. x[1] \in Songs /\ x[2] \in 1..MaxRows /\ y[2] \in 1..MaxRows
    BY <2>1
  <2>5. song_table[x[1]] > 1
    BY <1>2, <1>3, <2>2, <2>3, <2>4
  <2> QED BY <2>4, <2>5 DEF Double
<1> QED BY <1>1, <1>4, <1>5, <1>6

LEMMA RowsStep ==
    TypeOK /\ HistoryInv /\ RowsInv /\ PhaseInv /\ [Next]_vars => RowsInv'
<1> SUFFICES ASSUME TypeOK, HistoryInv, RowsInv, PhaseInv, [Next]_vars,
                    NEW q \in Queries
             PROVE  /\ rows'[q] # Pending => handler' = "database" /\ request'.kind = "file"
                    /\ rows'[q] = Failed => failures' > 0
                    /\ rows'[q] # Pending /\ rows'[q] # Failed =>
                          /\ FoundBy(q)' \subseteq request'[q] \cap ever'
                          /\ request'[q] \cap always' \subseteq FoundBy(q)'
                          /\ \A x, y \in rows'[q].found :
                                x # y /\ x[1] = y[1] => x[1] \in doubled'
  BY DEF RowsInv
<1>1. /\ request' = request /\ handler' = handler
      /\ failures \in Nat /\ (failures' = failures \/ failures' = failures + 1)
  BY StepFrame
<1>2. ever \subseteq ever' /\ always' \subseteq always /\ doubled \subseteq doubled'
  BY StepFrame DEF Change, environment, historyVars
<1>3. CASE rows'[q] = rows[q]
  <2>1. failures > 0 => failures' > 0
    BY <1>1
  <2>2. FoundBy(q)' = FoundBy(q)
    BY <1>3 DEF FoundBy
  <2> QED BY <1>1, <1>2, <1>3, <2>1, <2>2 DEF RowsInv
<1>4. CASE Query(q)
  <2>1. handler = "database" /\ request.kind = "file" /\ Source = Listed
    BY <1>4, TypeParts DEF Query, PhaseInv, RequestType, Source
  <2>2. q \in DOMAIN rows /\ UNCHANGED <<ever, always, doubled>>
    BY <1>4, TypeParts DEF Query, environment, historyVars
  <2>3. CASE rows'[q] = Failed /\ Fails
    BY <1>1, <2>1, <2>3 DEF Fails
  <2>4. CASE rows'[q] = Returned(Selected(request[q]))
    <3>1. rows'[q].found = Selected(request[q]) /\ rows'[q] # Failed
      BY <2>4 DEF Returned, Failed
    <3>2. FoundBy(q)' = request[q] \cap Listed /\ request[q] \subseteq Songs
      BY <3>1, SelectedSongs DEF FoundBy
    <3>3. \A x, y \in rows'[q].found : x # y /\ x[1] = y[1] => x[1] \in doubled'
      BY <2>2, <3>1, SelectedSongs DEF HistoryInv
    <3> QED BY <1>1, <2>1, <2>2, <3>1, <3>2, <3>3 DEF HistoryInv
  <2> QED BY <1>4, <2>2, <2>3, <2>4 DEF Query
<1>5. ASSUME NEW r \in Queries, Query(r), r # q PROVE rows'[q] = rows[q]
  BY <1>5, TypeParts DEF Query
<1> QED BY <1>3, <1>4, <1>5, QueryFrame

LEMMA PhaseAnswered ==
    ASSUME pc' = "answered", req_error' = "Database" => failures' > 0
    PROVE  PhaseInv'
<1> QED BY DEF PhaseInv

LEMMA FailsCounted ==
    ASSUME TypeOK, Fails
    PROVE  failures' > 0
<1> QED BY TypeParts DEF Fails, CountType

LEMMA PhaseStep == TypeOK /\ RowsInv /\ PhaseInv /\ [Next]_vars => PhaseInv'
<1> SUFFICES ASSUME TypeOK, RowsInv, PhaseInv, [Next]_vars PROVE PhaseInv'
  OBVIOUS
<1>1. /\ request' = request /\ handler' = handler
      /\ failures \in Nat /\ (failures' = failures \/ failures' = failures + 1)
      /\ handler \in {"database", "directory"} /\ ResultType
  BY StepFrame, TypeParts DEF RequestType
<1>2. request.kind \in Tables \cup {"illegal", "file"}
  BY TypeParts, RequestParts DEF RequestType
<1>3. failures > 0 => failures' > 0
  BY <1>1
<1>4. Appended("Database") \in {req_error, "Database"}
  BY DEF Appended
<1>5. CASE UNCHANGED <<pc, status, req_error, req_result>>
  <2>1. FilesTold => FilesTold'
    BY <1>1, <1>3, <1>5 DEF FilesTold
  <2> QED BY <1>1, <1>3, <1>5, <2>1 DEF PhaseInv
<1>6. CASE Log
  <2>1. /\ handler = "database" /\ status' = status /\ req_result' = req_result
        /\ req_result.tables = {}
    BY <1>6 DEF Log, PhaseInv
  <2>2. /\ req_error' \in {req_error, "Database"}
        /\ req_error' = "Database" => failures' > 0
    <3>1. UNCHANGED req_error \/ (Fails /\ req_error' = "Database")
      BY <1>6 DEF Log
    <3> QED BY <1>3, <3>1, FailsCounted DEF PhaseInv
  <2>3. /\ pc' \in {"files table", "log table", "lookup"} /\ pc = "logging"
        /\ pc' = "files table" => request.kind \in {"files table", "both tables"}
        /\ pc' = "log table" => request.kind = "log table"
        /\ pc' = "lookup" => request.kind \in {"file", "illegal"}
    BY <1>2, <1>6 DEF Log, Tables
  <2>4. pc' = "log table" => FilesTold'
    BY <1>1, <2>1, <2>3 DEF FilesTold
  <2> QED BY <1>1, <2>1, <2>2, <2>3, <2>4 DEF PhaseInv
<1>7. CASE FilesTable
  <2>1. /\ req_result.tables = {} /\ request.kind \in {"files table", "both tables"}
        /\ handler = "database" /\ status = 0 /\ req_error \in {"none", "Database"}
        /\ req_error = "Database" => failures > 0
    BY <1>1, <1>7 DEF FilesTable, PhaseInv
  <2>2. /\ \/ pc' = "log table" /\ request.kind = "both tables" /\ status' = status
           \/ pc' = "answered"
    BY <1>7 DEF FilesTable, Answer
  <2>3. \/ /\ req_result'.tables = {"files"}
           /\ req_error' = req_error /\ failures' = failures
        \/ failures' > 0 /\ req_error' = "Database" /\ req_result'.tables = {}
    <3>1. FormTable("files")
      BY <1>7 DEF FilesTable
    <3>2. CASE Fails /\ req_error' = Appended("Database") /\ req_result' = req_result
      BY <2>1, <3>2, FailsCounted DEF Appended
    <3>3. CASE /\ req_result'.tables = req_result.tables \cup {"files"}
               /\ req_error' = req_error /\ failures' = failures
      BY <2>1, <3>3
    <3> QED BY <1>1, <3>1, <3>2, <3>3, TableParts
  <2>4. req_error' \in {"none", "Database"} /\ (req_error' = "Database" => failures' > 0)
    BY <2>1, <2>3
  <2>5. CASE pc' = "answered"
    BY <2>4, <2>5, PhaseAnswered
  <2>6. CASE pc' = "log table" /\ request.kind = "both tables" /\ status' = status
    <3>1. FilesTold'
      BY <1>1, <2>3, <2>6 DEF FilesTold
    <3> QED BY <1>1, <2>1, <2>4, <2>6, <3>1 DEF PhaseInv
  <2> QED BY <2>2, <2>5, <2>6
<1>8. CASE LogTable
  <2>1. pc' = "answered" /\ FormTable("log") /\ handler = "database"
    BY <1>1, <1>8 DEF LogTable, Answer, PhaseInv
  <2>2. req_error' = "Database" => failures' > 0
    <3>1. CASE req_error' = req_error
      BY <1>3, <3>1 DEF PhaseInv
    <3> QED BY <1>1, <2>1, <3>1, TableParts, FailsCounted
  <2> QED BY <2>1, <2>2, PhaseAnswered
<1>9. CASE Illegal
  <2>1. pc' = "answered" /\ req_error' = "Illegal"
    BY <1>1, <1>9, RefuseParts DEF Illegal
  <2> QED BY <2>1, PhaseAnswered
<1>10. CASE Decide
  <2>1. /\ pc = "lookup" /\ handler = "database" /\ request.kind = "file"
        /\ failures' = failures /\ status = 0 /\ req_error \in {"none", "Database"}
        /\ req_error = "Database" => failures > 0
    BY <1>1, <1>10 DEF Decide, PhaseInv, RowsInv, Queries
  <2>2. CASE Refuse(Appended("Database")) /\ \E q \in Queries : rows[q] = Failed
    <3>1. failures > 0
      BY <2>2 DEF RowsInv
    <3>2. pc' = "answered"
      BY <1>1, <2>2, RefuseParts
    <3> QED BY <2>1, <3>1, <3>2, PhaseAnswered
  <2>3. CASE Refuse("Several") \/ Refuse("File")
    <3>1. pc' = "answered" /\ req_error' \in {"Several", "File"}
      BY <1>1, <2>3, RefuseParts
    <3> QED BY <3>1, PhaseAnswered
  <2>4. ASSUME NEW f \in Songs, Found({f}) PROVE PhaseInv'
    BY <1>1, <2>1, <2>4, FoundParts DEF PhaseInv
  <2> QED BY <1>10, <2>2, <2>3, <2>4, DecideCases
<1>11. CASE ListDirectory
  BY <1>1, <1>11 DEF ListDirectory, Answer, PhaseInv
<1>12. CASE Find
  <2>1. handler = "directory" /\ status = 0 /\ UNCHANGED failures
    BY <1>12 DEF Find, PhaseInv
  <2>2. CASE Refuse("Illegal") \/ Refuse("File")
    <3>1. pc' = "answered" /\ req_error' \in {"Illegal", "File"}
      BY <1>1, <2>2, RefuseParts
    <3> QED BY <3>1, PhaseAnswered
  <2>3. ASSUME NEW f \in request.name \cap disk, Found({f}) PROVE PhaseInv'
    <3>1. f \in Songs /\ request.kind = "file"
      <4>1. disk \subseteq Songs /\ request \in Requests
        BY TypeParts DEF SongsType, RequestType
      <4> QED BY <2>3, <4>1, RequestParts
    <3>2. pc' = "open" /\ req_error' = req_error /\ status' = status
      BY <1>1, <2>3, <3>1, FoundParts
    <3>3. req_error \in {"none", "Database"} /\ (req_error = "Database" => failures > 0)
      BY <1>12 DEF Find, PhaseInv
    <3> QED BY <1>1, <2>1, <3>1, <3>2, <3>3 DEF PhaseInv
  <2> QED BY <1>12, <2>2, <2>3 DEF Find
<1>13. CASE Open
  BY <1>1, <1>13 DEF Open, Answer, PhaseInv
<1>14. CASE Change \/ (\E q \in Queries : Query(q)) \/ UNCHANGED vars
  BY <1>5, <1>14 DEF Change, Query, vars, requestVars
<1> QED BY <1>6, <1>7, <1>8, <1>9, <1>10, <1>11, <1>12, <1>13, <1>14 DEF Next

\* Only a step that finds a song changes the songs of the result.
LEMMA ResultFrame ==
    ASSUME TypeOK, [Next]_vars
    PROVE  \/ req_result'.songs = req_result.songs
           \/ \E f \in Songs : Decide /\ Found({f}) /\ OneFound(f)
           \/ \E f \in request.name \cap disk : Find /\ Found({f})
<1>1. ResultType
  BY TypeParts
<1>2. CASE FilesTable \/ LogTable
  BY <1>1, <1>2, TableParts DEF FilesTable, LogTable
<1>3. CASE ListDirectory
  <2>1. {"files"} \in SUBSET {"files", "log"} /\ req_result \in Results
    BY <1>1 DEF ResultType
  <2> QED BY <1>3, <2>1, ResultParts DEF ListDirectory
<1>4. CASE Decide
  BY <1>1, <1>4, DecideCases, RefuseParts
<1>5. CASE Find
  BY <1>1, <1>5, RefuseParts DEF Find
<1>6. CASE Illegal
  BY <1>1, <1>6, RefuseParts DEF Illegal
<1>7. CASE Change \/ Log \/ Open \/ (\E q \in Queries : Query(q)) \/ UNCHANGED vars
  BY <1>7 DEF Change, Log, Open, Query, vars, requestVars
<1> QED BY <1>2, <1>3, <1>4, <1>5, <1>6, <1>7 DEF Next

LEMMA Sources ==
    ASSUME TypeOK
    PROVE  /\ handler = "database" => Matching = request.name \cup request.uid
           /\ handler = "directory" => Matching = request.name /\ Source = disk
           /\ handler \in {"database", "directory"}
           /\ request["name"] = request.name /\ request["uid"] = request.uid
           /\ request.name \subseteq Songs /\ request.uid \subseteq Songs
<1>1. request \in Requests /\ handler \in {"database", "directory"}
  BY TypeParts DEF RequestType
<1> QED BY <1>1, RequestParts DEF Matching, Source

\* What a query found is known to match and to have been listed.
LEMMA RowSongs ==
    ASSUME TypeOK, RowsInv, Decide, NEW q \in Queries, rows[q] # Failed
    PROVE  /\ handler = "database" /\ request.kind = "file"
           /\ FoundBy(q) \subseteq Matching \cap ever
           /\ FoundBy(q) \subseteq request[q] \cap ever
           /\ request[q] \cap always \subseteq FoundBy(q)
           /\ \A x, y \in rows[q].found : x # y /\ x[1] = y[1] => x[1] \in doubled
<1>1. rows[q] # Pending
  BY DEF Decide
<1>2. /\ handler = "database" /\ request.kind = "file"
      /\ FoundBy(q) \subseteq request[q] \cap ever
      /\ request[q] \cap always \subseteq FoundBy(q)
      /\ \A x, y \in rows[q].found : x # y /\ x[1] = y[1] => x[1] \in doubled
  BY <1>1 DEF RowsInv
<1>3. request[q] \subseteq Matching
  BY <1>2, Sources DEF Queries
<1> QED BY <1>2, <1>3

LEMMA FoundStep ==
    TypeOK /\ HistoryInv /\ RowsInv /\ FoundInv /\ [Next]_vars => FoundInv'
<1> SUFFICES ASSUME TypeOK, HistoryInv, RowsInv, FoundInv, [Next]_vars PROVE FoundInv'
  OBVIOUS
<1>1. Matching' = Matching /\ ever \subseteq ever'
  BY StepFrame DEF Change, environment, historyVars
<1>2. ResultType
  BY TypeParts
<1>3. CASE req_result'.songs = req_result.songs
  BY <1>1, <1>3 DEF FoundInv
<1>4. ASSUME NEW f \in Songs, Decide, Found({f}), OneFound(f) PROVE FoundInv'
  <2>1. req_result'.songs = {f}
    BY <1>2, <1>4, FoundParts
  <2>2. f \in Matching \cap ever
    BY <1>4, RowSongs DEF OneFound, Queries
  <2> QED BY <1>1, <2>1, <2>2 DEF FoundInv
<1>5. ASSUME NEW f \in request.name \cap disk, Find, Found({f}) PROVE FoundInv'
  <2>1. f \in Songs /\ Matching = request.name /\ Source = disk
    BY <1>5, Sources DEF Find
  <2>2. req_result'.songs = {f}
    BY <1>2, <1>5, <2>1, FoundParts
  <2> QED BY <1>1, <1>5, <2>1, <2>2 DEF FoundInv, HistoryInv
<1> QED BY <1>3, <1>4, <1>5, ResultFrame

\* Two elements of a finite set are counted.
LEMMA TwoElements ==
    ASSUME NEW S, IsFiniteSet(S), NEW f \in S, NEW g \in S, f # g
    PROVE  Cardinality(S) > 1
<1>1. IsFiniteSet({f}) /\ Cardinality({f}) = 1
  BY FS_Singleton
<1>2. Cardinality({f} \cup {g}) = Cardinality({f}) + 1
  BY <1>1, FS_AddElement
<1>3. {f} \cup {g} \in SUBSET S
  OBVIOUS
<1>4. Cardinality({f} \cup {g}) <= Cardinality(S) /\ Cardinality(S) \in Nat
  BY <1>3, FS_Subset, FS_CardinalityType
<1> QED BY <1>1, <1>2, <1>4

\* Several rows under one query are of several songs or of one that has several, and
\* one under each is one of each.
LEMMA SeveralMatch ==
    ASSUME TypeOK, RowsInv, Decide, SeveralFound
    PROVE  \/ Cardinality(Matching \cap ever) > 1
           \/ request.name \cap request.uid \cap ever # {}
           \/ Matching \cap doubled # {}
<1>1. IsFiniteSet(Matching \cap ever)
  <2>1. Matching \cap ever \subseteq Songs
    BY TypeParts DEF SongsType
  <2> QED BY <2>1, FileLookupAssumption, FS_Subset
<1>2. ASSUME NEW q \in Queries, rows[q] # Failed, Cardinality(rows[q].found) > 1
      PROVE  Cardinality(Matching \cap ever) > 1 \/ Matching \cap doubled # {}
  <2>1. PICK x \in rows[q].found, y \in rows[q].found : x # y
    <3>1. rows[q].found # {}
      BY <1>2, FS_EmptySet
    <3>2. PICK x \in rows[q].found : TRUE
      BY <3>1
    <3>3. rows[q].found # {x}
      <4>1. Cardinality({x}) = 1
        BY FS_Singleton
      <4> QED BY <1>2, <4>1
    <3> QED BY <3>2, <3>3
  <2>2. x[1] \in FoundBy(q) /\ y[1] \in FoundBy(q)
    BY SongsOfRows DEF FoundBy
  <2>3. x[1] \in Matching \cap ever /\ y[1] \in Matching \cap ever
    BY <1>2, <2>2, RowSongs
  <2>4. CASE x[1] = y[1]
    <3>1. x[1] \in doubled
      BY <1>2, <2>1, <2>4, RowSongs
    <3> QED BY <2>3, <3>1
  <2>5. CASE x[1] # y[1]
    BY <1>1, <2>3, <2>5, TwoElements
  <2> QED BY <2>4, <2>5
<1>3. ASSUME rows["name"] # Failed, rows["uid"] # Failed, NEW f \in Songs, NEW g \in Songs,
             FoundBy("name") = {f}, FoundBy("uid") = {g}
      PROVE  \/ Cardinality(Matching \cap ever) > 1
             \/ request.name \cap request.uid \cap ever # {}
  <2>1. f \in request["name"] \cap ever /\ g \in request["uid"] \cap ever
    BY <1>3, RowSongs DEF Queries
  <2>2. f \in request.name \cap ever /\ g \in request.uid \cap ever
    BY <2>1, Sources
  <2>3. f \in Matching \cap ever /\ g \in Matching \cap ever
    BY <1>3, RowSongs DEF Queries
  <2>4. CASE f # g
    BY <1>1, <2>3, <2>4, TwoElements
  <2> QED BY <2>2, <2>4
<1> QED BY <1>2, <1>3 DEF SeveralFound

\* The other parts of AnswerTruthful are about other answers.
LEMMA NoAnswer ==
    ASSUME status' = 0, pc' # "answered"
    PROVE  AnswerTruthful'
<1> QED BY DEF AnswerTruthful, SentMatches, MissingWhenNotFound, SeveralMatched, ErrorOccurred,
               IllegalRefused, TablesComplete

LEMMA AnswerOK ==
    ASSUME status' = 200, request'.kind # "illegal", SentMatches', TablesComplete'
    PROVE  AnswerTruthful'
<1> QED BY DEF AnswerTruthful, MissingWhenNotFound, SeveralMatched, ErrorOccurred, IllegalRefused

LEMMA AnswerNotOK ==
    ASSUME status' \in {300, 404, 500}, request'.kind # "illegal",
           MissingWhenNotFound', SeveralMatched', ErrorOccurred'
    PROVE  AnswerTruthful'
<1>1. status' # 200 /\ status' # 400
  OBVIOUS
<1>2. SentMatches' /\ TablesComplete'
  BY <1>1 DEF SentMatches, TablesComplete
<1> QED BY <1>1, <1>2 DEF AnswerTruthful, IllegalRefused

LEMMA AnswerIllegal ==
    ASSUME status' = 400, pc' = "answered", request'.kind = "illegal"
    PROVE  AnswerTruthful'
<1> QED BY DEF AnswerTruthful, SentMatches, MissingWhenNotFound, SeveralMatched, ErrorOccurred,
               IllegalRefused, TablesComplete

\* Each table that is missing cost a failure, which was noted.
TablesTold ==
    /\ req_result.tables \subseteq Asked
    /\ Cardinality(Asked \ req_result.tables) <= failures
    /\ Asked \ req_result.tables # {} => req_error = "Database"

LEMMA AnswerTables ==
    ASSUME status' = 200, request'.kind \in Tables, handler' = "directory" \/ TablesTold'
    PROVE  AnswerTruthful'
<1>1. request'.kind # "file" /\ request'.kind # "illegal"
  BY DEF Tables
<1>2. SentMatches'
  BY <1>1 DEF SentMatches
<1>3. TablesComplete'
  BY DEF TablesComplete, TablesTold
<1> QED BY <1>1, <1>2, <1>3, AnswerOK

\* The tables that a request of each kind asks for.
LEMMA AskedTables ==
    /\ request.kind = "files table" => Asked = {"files"}
    /\ request.kind = "log table" => Asked = {"log"}
    /\ request.kind = "both tables" => Asked = {"files", "log"}
<1> QED BY DEF Asked

LEMMA AskedStays ==
    ASSUME request' = request
    PROVE  Asked' = Asked
<1> QED BY DEF Asked

\* Tables that are had or missing, one and two.
LEMMA MissingCounted ==
    ASSUME NEW A, NEW T, NEW n \in Nat
    PROVE  /\ A = T => Cardinality(A \ T) <= n
           /\ \A t : A \ T = {t} /\ n > 0 => Cardinality(A \ T) <= n
           /\ \A t, u : A \ T = {t, u} /\ n > 1 => Cardinality(A \ T) <= n
<1>1. Cardinality({}) = 0
  BY FS_EmptySet
<1>2. \A t : IsFiniteSet({t}) /\ Cardinality({t}) = 1
  BY FS_Singleton
<1>3. ASSUME NEW t, NEW u PROVE Cardinality({t, u}) \in {1, 2}
  <2>1. CASE t = u
    BY <1>2, <2>1
  <2>2. CASE t # u
    <3>1. Cardinality({t} \cup {u}) = Cardinality({t}) + 1
      BY <1>2, <2>2, FS_AddElement
    <3>2. {t} \cup {u} = {t, u}
      OBVIOUS
    <3>3. Cardinality({t}) = 1
      BY <1>2
    <3> QED BY <3>1, <3>2, <3>3
  <2> QED BY <2>1, <2>2
<1>4. ASSUME NEW t, NEW u, A \ T = {t, u}, n > 1 PROVE Cardinality(A \ T) <= n
  <2>1. Cardinality({t, u}) \in {1, 2}
    BY <1>3
  <2> QED BY <1>4, <2>1
<1>5. A = T => A \ T = {}
  OBVIOUS
<1>6. ASSUME NEW t, A \ T = {t}, n > 0 PROVE Cardinality(A \ T) <= n
  BY <1>2, <1>6
<1>7. A = T => Cardinality(A \ T) <= n
  BY <1>1, <1>5
<1> QED BY <1>4, <1>6, <1>7

LEMMA TruthStep ==
    /\ TypeOK /\ HistoryInv /\ RowsInv /\ PhaseInv /\ FoundInv /\ AnswerTruthful
    /\ [Next]_vars /\ PhaseInv'
    => AnswerTruthful'
<1> SUFFICES ASSUME TypeOK, HistoryInv, RowsInv, PhaseInv, FoundInv, AnswerTruthful,
                    [Next]_vars, PhaseInv'
             PROVE  AnswerTruthful'
  OBVIOUS
<1>1. /\ request' = request /\ handler' = handler /\ Matching' = Matching
      /\ ResultType /\ SongsType
  BY StepFrame, TypeParts
<1>2. CASE pc' # "answered"
  <2>1. status' = 0
    BY <1>2 DEF PhaseInv
  <2> QED BY <1>2, <2>1, NoAnswer
<1>3. CASE UNCHANGED vars
  <2>1. UNCHANGED <<pc, status, failures, req_error, req_result, ever, always, present, doubled>>
    BY <1>3 DEF vars, requestVars, historyVars
  <2>2. SentMatches' /\ MissingWhenNotFound' /\ SeveralMatched'
    BY <1>1, <2>1 DEF AnswerTruthful, SentMatches, MissingWhenNotFound, SeveralMatched
  <2>3. ErrorOccurred' /\ IllegalRefused'
    BY <1>1, <2>1 DEF AnswerTruthful, ErrorOccurred, IllegalRefused
  <2>4. TablesComplete'
    BY <1>1, <2>1 DEF AnswerTruthful, TablesComplete, Asked
  <2> QED BY <2>2, <2>3, <2>4 DEF AnswerTruthful
<1>4. CASE FilesTable /\ pc' = "answered"
  <2>1. /\ status' = 200 /\ request.kind = "files table" /\ req_result.tables = {}
        /\ FormTable("files") /\ req_error \in {"none", "Database"}
    BY <1>4 DEF FilesTable, Answer, PhaseInv
  <2>2. Asked' = {"files"} /\ failures' \in Nat
    <3>1. failures' \in Nat
      BY StepFrame
    <3> QED BY <1>1, <2>1, <3>1, AskedTables, AskedStays
  <2>3. TablesTold'
    <3>1. CASE req_result'.tables = req_result.tables \cup {"files"}
      <4>1. req_result'.tables = {"files"}
        BY <2>1, <3>1
      <4>2. Cardinality(Asked' \ req_result'.tables) <= failures'
        BY <2>2, <4>1, MissingCounted
      <4> QED BY <2>2, <4>1, <4>2 DEF TablesTold
    <3>2. CASE Fails /\ req_error' = Appended("Database") /\ req_result' = req_result
      <4>1. req_result'.tables = {} /\ req_error' = "Database" /\ failures' > 0
        BY <2>1, <3>2, FailsCounted DEF Appended
      <4>2. Asked' \ req_result'.tables = {"files"}
        BY <2>2, <4>1
      <4>3. Cardinality(Asked' \ req_result'.tables) <= failures'
        BY <2>2, <4>1, <4>2, MissingCounted
      <4> QED BY <4>1, <4>3 DEF TablesTold
    <3> QED BY <1>1, <2>1, <3>1, <3>2, TableParts
  <2> QED BY <1>1, <2>1, <2>3, AnswerTables DEF Tables
<1>5. CASE LogTable
  <2>1. /\ status' = 200 /\ pc' = "answered" /\ FormTable("log") /\ FilesTold
        /\ request.kind \in {"log table", "both tables"} /\ req_error \in {"none", "Database"}
    BY <1>5 DEF LogTable, Answer, PhaseInv
  <2>2. /\ request.kind = "log table" => Asked' = {"log"}
        /\ request.kind = "both tables" => Asked' = {"files", "log"}
        /\ failures \in Nat /\ failures' \in Nat
    <3>1. failures \in Nat /\ failures' \in Nat
      BY StepFrame
    <3> QED BY <1>1, <3>1, AskedTables, AskedStays
  <2>3. TablesTold'
    <3>1. CASE Fails /\ req_error' = Appended("Database") /\ req_result' = req_result
      <4>1. req_error' = "Database" /\ failures' = failures + 1
        BY <2>1, <3>1 DEF Appended, Fails
      <4>2. /\ req_result'.tables \subseteq Asked'
            /\ \/ Asked' \ req_result'.tables = {"log"}
               \/ Asked' \ req_result'.tables = {"files", "log"} /\ failures > 0
        <5>1. CASE request.kind = "log table"
          <6>1. Asked' = {"log"} /\ req_result'.tables = {}
            BY <2>1, <2>2, <3>1, <5>1 DEF FilesTold
          <6> QED BY <6>1
        <5>2. CASE request.kind = "both tables" /\ req_result.tables = {"files"}
          <6>1. Asked' = {"files", "log"} /\ req_result'.tables = {"files"}
            BY <2>2, <3>1, <5>2
          <6> QED BY <6>1
        <5>3. CASE request.kind = "both tables" /\ req_result.tables = {} /\ failures > 0
          <6>1. Asked' = {"files", "log"} /\ req_result'.tables = {}
            BY <2>2, <3>1, <5>3
          <6> QED BY <5>3, <6>1
        <5>4. \/ request.kind = "log table"
              \/ request.kind = "both tables" /\ req_result.tables = {"files"}
              \/ request.kind = "both tables" /\ req_result.tables = {} /\ failures > 0
          BY <2>1 DEF FilesTold
        <5> QED BY ONLY <5>1, <5>2, <5>3, <5>4
      <4>3. failures' > 0 /\ (failures > 0 => failures' > 1)
        <5>1. failures \in Nat /\ failures' = failures + 1
          BY <2>2, <4>1
        <5> QED BY ONLY <5>1
      <4>4. Cardinality(Asked' \ req_result'.tables) <= failures'
        BY <2>2, <4>2, <4>3, MissingCounted
      <4> QED BY <4>1, <4>2, <4>4 DEF TablesTold
    <3>2. CASE /\ req_result'.tables = req_result.tables \cup {"log"}
               /\ req_error' = req_error /\ failures' = failures
      <4>1. CASE req_result'.tables = Asked'
        <5>1. Cardinality(Asked' \ req_result'.tables) <= failures'
          BY <2>2, <4>1, MissingCounted
        <5> QED BY <4>1, <5>1 DEF TablesTold
      <4>2. CASE req_result'.tables # Asked'
        <5>1. /\ request.kind = "both tables" /\ req_result.tables = {}
              /\ failures > 0 /\ req_error = "Database"
          BY <2>1, <2>2, <3>2, <4>2 DEF FilesTold
        <5>2. Asked' = {"files", "log"} /\ req_result'.tables = {"log"}
          BY <2>2, <3>2, <5>1
        <5>3. Asked' \ req_result'.tables = {"files"}
          BY <5>2
        <5>4. Cardinality(Asked' \ req_result'.tables) <= failures'
          BY <2>2, <3>2, <5>1, <5>3, MissingCounted
        <5> QED BY <3>2, <5>1, <5>2, <5>4 DEF TablesTold
      <4> QED BY <4>1, <4>2
    <3> QED BY <1>1, <2>1, <3>1, <3>2, TableParts
  <2> QED BY <1>1, <2>1, <2>3, AnswerTables DEF Tables
<1>6. CASE Illegal
  <2>1. pc' = "answered" /\ status' = 400 /\ request.kind = "illegal"
    BY <1>1, <1>6, RefuseParts, RefusalStatus DEF Illegal
  <2> QED BY <1>1, <2>1, AnswerIllegal
<1>7. CASE Decide
  <2>1. /\ handler = "database" /\ request.kind = "file" /\ failures' = failures
        /\ always' = always /\ ever' = ever /\ doubled' = doubled
    BY <1>7 DEF Decide, RowsInv, Queries, environment, historyVars
  <2>2. CASE Refuse(Appended("Database")) /\ \E q \in Queries : rows[q] = Failed
    <3>1. failures' > 0
      BY <2>1, <2>2 DEF RowsInv
    <3>2. Appended("Database") = "Database"
      BY <1>7 DEF Appended, PhaseInv, Decide
    <3>3. pc' = "answered" /\ status' = 500
      BY <1>1, <2>2, <3>2, RefuseParts, RefusalStatus
    <3> QED BY <1>1, <2>1, <3>1, <3>3, AnswerNotOK
              DEF MissingWhenNotFound, SeveralMatched, ErrorOccurred
  <2>3. CASE Refuse("Several") /\ SeveralFound
    <3>1. pc' = "answered" /\ status' = 300
      BY <1>1, <2>3, RefuseParts, RefusalStatus
    <3>2. \/ Cardinality(Matching \cap ever) > 1
          \/ request.name \cap request.uid \cap ever # {}
          \/ Matching \cap doubled # {}
      BY <1>7, <2>3, SeveralMatch
    <3> QED BY <1>1, <2>1, <3>1, <3>2, AnswerNotOK
              DEF MissingWhenNotFound, SeveralMatched, ErrorOccurred
  <2>4. CASE Refuse("File") /\ NothingFound
    <3>1. pc' = "answered" /\ status' = 404
      BY <1>1, <2>4, RefuseParts, RefusalStatus
    <3>2. request["name"] \cap always = {} /\ request["uid"] \cap always = {}
      BY <1>7, <2>4, RowSongs DEF NothingFound, Queries
    <3>3. Matching \cap always = {}
      BY <2>1, <3>2, Sources
    <3> QED BY <1>1, <2>1, <3>1, <3>3, AnswerNotOK
              DEF MissingWhenNotFound, SeveralMatched, ErrorOccurred
  <2>5. ASSUME NEW f \in Songs, Found({f}) PROVE AnswerTruthful'
    <3>1. pc' = "open"
      BY <1>1, <2>5, FoundParts
    <3> QED BY <1>2, <3>1
  <2> QED BY <1>7, <2>2, <2>3, <2>4, <2>5, DecideCases
<1>8. CASE ListDirectory
  <2>1. /\ pc' = "answered" /\ status' = 200 /\ handler = "directory"
        /\ request.kind \in {"files table", "both tables"}
    BY <1>8 DEF ListDirectory, Answer
  <2> QED BY <1>1, <2>1, AnswerTables DEF Tables
<1>9. CASE Find
  <2>1. handler = "directory"
    BY <1>9 DEF Find
  <2>2. CASE request.kind = "illegal" /\ Refuse("Illegal")
    <3>1. pc' = "answered" /\ status' = 400
      BY <1>1, <2>2, RefuseParts, RefusalStatus
    <3> QED BY <1>1, <2>2, <3>1, AnswerIllegal
  <2>3. CASE request.kind # "illegal" /\ Refuse("File")
    <3>1. pc' = "answered" /\ status' = 404
      BY <1>1, <2>3, RefuseParts, RefusalStatus
    <3> QED BY <1>1, <2>1, <2>3, <3>1, AnswerNotOK
              DEF MissingWhenNotFound, SeveralMatched, ErrorOccurred
  <2>4. ASSUME NEW f \in request.name \cap disk, Found({f}) PROVE AnswerTruthful'
    <3>1. pc' = "open"
      BY <2>4 DEF Found
    <3> QED BY <1>2, <3>1
  <2> QED BY <1>9, <2>2, <2>3, <2>4 DEF Find
<1>10. CASE Open
  <2>1. /\ pc' = "answered" /\ request.kind = "file" /\ req_result' = req_result
        /\ ever' = ever /\ present' = present
        /\ status' = IF req_result.songs \subseteq disk THEN 200 ELSE 500
    BY <1>10 DEF Open, Answer, PhaseInv, historyVars
  <2>2. req_result.songs \subseteq Matching \cap ever
    BY DEF FoundInv
  <2>3. CASE req_result.songs \subseteq disk
    <3>1. status' = 200 /\ request'.kind = "file" /\ "file" \notin Tables
      BY <1>1, <2>1, <2>3 DEF Tables
    <3>2. SentMatches'
      BY <1>1, <2>1, <2>2 DEF SentMatches
    <3>3. TablesComplete'
      BY <3>1 DEF TablesComplete
    <3> QED BY <3>1, <3>2, <3>3, AnswerOK
  <2>4. CASE ~(req_result.songs \subseteq disk)
    <3>1. ~(req_result'.songs \subseteq present')
      BY <1>1, <2>1, <2>4 DEF SongsType
    <3>2. status' = 500
      BY <2>1, <2>4
    <3> QED BY <1>1, <2>1, <3>1, <3>2, AnswerNotOK
              DEF MissingWhenNotFound, SeveralMatched, ErrorOccurred
  <2> QED BY <2>3, <2>4
<1>11. CASE Change \/ Log \/ \E q \in Queries : Query(q)
  <2>1. pc' # "answered"
    BY <1>11 DEF Change, Log, Query, requestVars
  <2> QED BY <1>2, <2>1
<1> QED
  BY <1>2, <1>3, <1>4, <1>5, <1>6, <1>7, <1>8, <1>9, <1>10, <1>11 DEF Next

LEMMA AvailStep ==
    /\ TypeOK /\ HistoryInv /\ RowsInv /\ PhaseInv /\ FoundInv /\ AvailInv /\ [Next]_vars
    => AvailInv'
<1> SUFFICES ASSUME TypeOK, HistoryInv, RowsInv, PhaseInv, FoundInv, AvailInv, [Next]_vars,
                    pc' \in {"open", "answered"}, handler' = "database",
                    request'.kind = "file", \A q \in Queries : rows'[q] # Failed,
                    NEW f \in (always' \cap present') \ doubled', Unique(f)'
             PROVE  req_result'.songs = {f} /\ (pc' = "answered" => status' = 200)
  BY DEF AvailInv
<1>1. /\ request' = request /\ handler = "database" /\ request.kind = "file"
      /\ Matching' = Matching /\ ResultType /\ SongsType
  BY StepFrame, TypeParts
<1>2. /\ ever \subseteq ever' /\ always' \subseteq always /\ present' \subseteq present
      /\ doubled \subseteq doubled'
  BY StepFrame DEF Change, environment, historyVars
<1>3. f \in (always \cap present) \ doubled /\ Unique(f)
  BY <1>1, <1>2 DEF Unique, SongsType
<1>4. CASE UNCHANGED vars
  <2>1. pc \in {"open", "answered"} /\ \A q \in Queries : rows[q] # Failed
    BY <1>4 DEF vars, requestVars
  <2>2. req_result.songs = {f} /\ (pc = "answered" => status = 200)
    BY <1>1, <1>3, <2>1 DEF AvailInv
  <2> QED BY <1>4, <2>2 DEF vars, requestVars
<1>5. CASE Change \/ Open
  <2>1. /\ pc = "open" /\ req_result' = req_result /\ rows' = rows
        /\ Open => status' = IF req_result.songs \subseteq disk THEN 200 ELSE 500
        /\ Change => pc' = "open"
    BY <1>5 DEF Change, Open, Answer, requestVars
  <2>2. req_result.songs = {f}
    BY <1>1, <1>3, <2>1 DEF AvailInv
  <2>3. req_result.songs \subseteq disk
    BY <1>1, <1>3, <2>2 DEF SongsType
  <2> QED BY <1>5, <2>1, <2>2, <2>3
<1>6. CASE Decide
  <2>1. rows' = rows
    BY <1>6 DEF Decide
  <2>2. \A q \in Queries : /\ rows[q] # Failed /\ FoundBy(q) \subseteq Matching \cap ever
                           /\ request[q] \cap always \subseteq FoundBy(q)
    BY <1>6, <2>1, RowSongs
  <2>3. ~SeveralFound
    <3>1. Cardinality({f}) = 1
      BY FS_Singleton
    <3>2. /\ Matching \cap ever = {f} /\ f \notin request.name \cap request.uid
          /\ request.name \cap request.uid \subseteq Matching
      BY <1>1, <1>3, Sources DEF Unique
    <3>3. request.name \cap request.uid \cap ever = {}
      BY <3>2
    <3>4. ~(Cardinality(Matching \cap ever) > 1)
      BY <3>1, <3>2
    <3>5. Matching \cap doubled = {}
      BY <1>1, <1>3, <3>2 DEF HistoryInv
    <3> QED BY <1>6, <3>3, <3>4, <3>5, SeveralMatch
  <2>4. ~NothingFound
    <3>1. f \in request["name"] \cap always \/ f \in request["uid"] \cap always
      BY <1>1, <1>3, Sources DEF Unique
    <3> QED BY <2>2, <3>1 DEF NothingFound, Queries
  <2>5. ASSUME NEW g \in Songs, Found({g}), OneFound(g)
        PROVE  req_result'.songs = {f} /\ (pc' = "answered" => status' = 200)
    <3>1. g \in Matching \cap ever
      BY <2>2, <2>5 DEF OneFound, Queries
    <3>2. g = f
      BY <1>3, <3>1 DEF Unique
    <3> QED BY <1>1, <2>5, <3>2, FoundParts
  <2> QED BY <1>6, <2>2, <2>3, <2>4, <2>5, DecideCases
<1>7. CASE Log \/ (\E q \in Queries : Query(q)) \/ ListDirectory \/ Find
  BY <1>1, <1>7 DEF Log, Query, ListDirectory, Find
<1>8. CASE FilesTable \/ LogTable \/ Illegal
  BY <1>1, <1>8 DEF FilesTable, LogTable, Illegal, PhaseInv
<1> QED BY <1>4, <1>5, <1>6, <1>7, <1>8 DEF Next

LEMMA InvStep == IInv /\ [Next]_vars => IInv'
<1> QED
  BY TypeStep, HistoryStep, RowsStep, PhaseStep, FoundStep, TruthStep, AvailStep DEF IInv

(* Whatever changes between the steps of a request, and whichever of its   *)
(* commands fail, its answer is true of some moment of it.                 *)
THEOREM AnswersTrue == Spec => []AnswerTruthful
<1>1. IInv => AnswerTruthful
  BY DEF IInv
<1> QED BY <1>1, InvInit, InvStep, PTL DEF Spec

(* A file that is listed and on disk all the time is sent, unless another  *)
(* one matches, or the one matches twice, or a query for it fails.         *)
THEOREM AvailableSent == Spec => []AvailableIsSent
<1>1. IInv => AvailableIsSent
  BY DEF IInv, AvailInv, AvailableIsSent, Unique
<1> QED BY <1>1, InvInit, InvStep, PTL DEF Spec
================================================================================
