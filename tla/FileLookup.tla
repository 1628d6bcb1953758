------------------------------- MODULE FileLookup -------------------------------
(***************************************************************************)
(* One request for a file or a table: what Handle_request::handle answers, *)
(* with Server_HTTP_handler, which asks the database, or with              *)
(* Server_dir_handler, which reads the folder.  Meanwhile the folder       *)
(* changes, and the table of songs follows it with delay (FileList).  A    *)
(* request for a file asks twice, for files of that name and of that id,   *)
(* and two threads of the database run the queries in either order, so     *)
(* that no two steps of a lookup see the same state.                       *)
(*                                                                         *)
(* Requests share nothing but what they look at (LogTable has the log they *)
(* write), so one stands for all.  A target is the songs its pattern would *)
(* match by name and by id.  song_table has no unique column: a song may   *)
(* have several rows, as FileList shows, and what counts here is rows.     *)
(* The folder itself is not removed, and no trim of the log table ends the *)
(* process (LogTable).  A "Slip" is a variant of the definition after it   *)
(* with a plausible mistake, used only to see a property fail.             *)
(***************************************************************************)
EXTENDS Naturals, FiniteSets

CONSTANTS
    Songs,
    MaxRows,        \* bound: rows of one song
    MaxChanges,     \* bound: changes of the folder or the table during the request
    MaxFailures     \* bound: commands the database fails

ASSUME FileLookupAssumption ==
    /\ IsFiniteSet(Songs) /\ MaxRows \in Nat \ {0}
    /\ MaxChanges \in Nat /\ MaxFailures \in Nat

VARIABLES
    disk,       \* regular files in the folder
    song_table, \* number of rows each song has in the database
    handler,    \* Handle_request::handler: "database", "directory"
    request,
    pc,         \* "logging", "files table", "log table", "lookup", "open", "answered"
    req_error,  \* how REQ_ERROR begins, "none" when it is empty
    req_result, \* REQ_RESULT: the tables, or the file
    rows,       \* what the queries by name and by id returned
    status,     \* of the response, 0 before it
    changes, failures,              \* history, for the bounds
    ever, always, present, doubled  \* history: songs the handler could find at some time of
                                    \* the request, at any time, those always on disk, and
                                    \* those with several rows at some time
requestVars == <<handler, request, pc, req_error, req_result, rows, status>>
historyVars == <<ever, always, present, doubled>>
vars == <<disk, song_table, requestVars, changes, failures, historyVars>>

Tables   == {"files table", "log table", "both tables"}
Queries  == {"name", "uid"}
Requests == [kind : Tables \cup {"illegal"}, name : {{}}, uid : {{}}]
                \cup [kind : {"file"}, name : SUBSET Songs, uid : SUBSET Songs]

\* The rows of the table: of each song the first, the second and so on.
TableRows   == Songs \X (1..MaxRows)
SongsOf(R)  == {row[1] : row \in R}

Pending     == [state |-> "pending", found |-> {}]
Failed      == [state |-> "failed", found |-> {}]
Returned(R) == [state |-> "returned", found |-> R]
Outcomes    == {Pending, Failed} \cup {Returned(R) : R \in SUBSET TableRows}
Nothing     == [tables |-> {}, songs |-> {}]

TypeOK ==
    /\ disk \subseteq Songs /\ song_table \in [Songs -> 0..MaxRows]
    /\ handler \in {"database", "directory"} /\ request \in Requests
    /\ pc \in {"logging", "files table", "log table", "lookup", "open", "answered"}
    /\ req_error \in {"none", "Database", "Illegal", "Several", "File"}
    /\ req_result \in [tables : SUBSET {"files", "log"}, songs : SUBSET Songs]
    /\ rows \in [Queries -> Outcomes]
    /\ status \in {0, 200, 300, 400, 404, 500}
    /\ always \subseteq ever /\ ever \subseteq Songs /\ present \subseteq disk
    /\ doubled \subseteq Songs
    /\ changes \in 0..MaxChanges /\ failures \in 0..MaxFailures
    /\ pc = "open" => Cardinality(req_result.songs) = 1

\* Where the handler looks for songs.
Listed == {f \in Songs : song_table[f] > 0}
Source == IF handler = "database" THEN Listed ELSE disk
Double == {f \in Songs : song_table[f] > 1}

Init ==
    /\ disk \in SUBSET Songs /\ song_table \in [Songs -> 0..MaxRows]
    /\ handler \in {"database", "directory"}
    /\ request \in Requests
    /\ pc = "logging"
    /\ req_error = "none" /\ req_result = Nothing
    /\ rows = [q \in Queries |-> Pending]
    /\ status = 0
    /\ changes = 0 /\ failures = 0
    /\ ever = Source /\ always = Source /\ present = disk /\ doubled = Double

-------------------------------------------------------------------------------
(* The folder changes, and the table as the other process sees fit: one    *)
(* more row for a song, none of it any more, or none at all.               *)

Change ==
    /\ pc # "answered"
    /\ changes < MaxChanges
    /\ changes' = changes + 1
    /\ \/ /\ \E f \in Songs : disk' \in {disk \cup {f}, disk \ {f}}
          /\ UNCHANGED song_table
       \/ /\ \/ \E f \in Songs : /\ song_table[f] < MaxRows
                                /\ song_table' = [song_table EXCEPT ![f] = @ + 1]
             \/ \E f \in Songs : song_table' = [song_table EXCEPT ![f] = 0]
             \/ song_table' = [f \in Songs |-> 0]
          /\ UNCHANGED disk
    /\ UNCHANGED <<requestVars, failures>>
    /\ ever' = ever \cup Source'
    /\ always' = always \cap Source'
    /\ present' = present \cap disk'
    /\ doubled' = doubled \cup Double'

-------------------------------------------------------------------------------
(* Handle_request::handle, with what the handler returned.                 *)

Answer(s) == pc' = "answered" /\ status' = s

\* The beginning of REQ_ERROR decides; it is looked at if there is no result.
Refusal(error) ==
    CASE error = "Illegal"  -> 400
      [] error = "Several"  -> 300
      [] error = "Database" -> 500
      [] OTHER              -> 404

Refuse(error) ==
    /\ req_error' = error
    /\ Answer(Refusal(error))
    /\ UNCHANGED req_result

\* An error is appended to that of update_log_table, if there is one.
Appended(error) == IF req_error = "none" THEN error ELSE req_error

Found(S) ==
    /\ pc' = "open"
    /\ req_result' = [req_result EXCEPT !.songs = S]
    /\ UNCHANGED <<req_error, status>>

\* Slip: whoever has an error in REQ_ERROR is told of it.
Open_error_first ==
    /\ pc = "open"
    /\ Answer(IF req_error # "none" THEN Refusal(req_error)
              ELSE IF req_result.songs \subseteq disk THEN 200 ELSE 500)
    /\ UNCHANGED <<disk, song_table, handler, request, req_error, req_result, rows, changes,
                   failures, historyVars>>

\* A file that was found may be gone when it is opened.
Open ==
    /\ pc = "open"
    /\ Answer(IF req_result.songs \subseteq disk THEN 200 ELSE 500)
    /\ UNCHANGED <<disk, song_table, handler, request, req_error, req_result, rows, changes,
                   failures, historyVars>>

Fails == failures < MaxFailures /\ failures' = failures + 1

-------------------------------------------------------------------------------
(* Server_HTTP_handler::handle.  The failure to log the request is noted   *)
(* in REQ_ERROR and nothing else.                                          *)

environment == <<disk, song_table, changes, historyVars>>

Log ==
    /\ handler = "database" /\ pc = "logging"
    /\ \/ UNCHANGED <<req_error, failures>>
       \/ Fails /\ req_error' = "Database"
    /\ pc' = CASE request.kind \in {"files table", "both tables"} -> "files table"
               [] request.kind = "log table"                      -> "log table"
               [] OTHER                                           -> "lookup"
    /\ UNCHANGED <<environment, handler, request, req_result, rows, status>>

\* A table that cannot be had is left out.
FormTable(table) ==
    \/ /\ req_result' = [req_result EXCEPT !.tables = @ \cup {table}]
       /\ UNCHANGED <<req_error, failures>>
    \/ /\ Fails
       /\ req_error' = Appended("Database")
       /\ UNCHANGED req_result

FilesTable ==
    /\ pc = "files table"
    /\ \/ request.kind = "both tables" /\ pc' = "log table" /\ UNCHANGED status
       \/ request.kind # "both tables" /\ Answer(200)
    /\ FormTable("files")
    /\ UNCHANGED <<environment, handler, request, rows>>

LogTable ==
    /\ pc = "log table"
    /\ FormTable("log")
    /\ Answer(200)
    /\ UNCHANGED <<environment, handler, request, rows>>

\* get_file_URI
Illegal ==
    /\ pc = "lookup" /\ request.kind = "illegal"
    /\ Refuse("Illegal")
    /\ UNCHANGED <<environment, handler, request, rows, failures>>

\* SELECT ... WHERE song_name, or song_uid, SIMILAR TO the target
Selected(S) == {row \in TableRows : row[1] \in S /\ row[2] <= song_table[row[1]]}

Query(q) ==
    /\ pc = "lookup" /\ request.kind = "file"
    /\ rows[q] = Pending
    /\ \/ /\ rows' = [rows EXCEPT ![q] = Returned(Selected(request[q]))]
          /\ UNCHANGED failures
       \/ Fails /\ rows' = [rows EXCEPT ![q] = Failed]
    /\ UNCHANGED <<environment, handler, request, pc, req_error, req_result, status>>

\* Slip: the first of several rows will do.
res_handle_first(res) ==
    CASE res = Failed                -> "DB_ERROR"
      [] Cardinality(res.found) >= 1 -> "RESULT_IS_OK"
      [] OTHER                       -> "NOT_FOUND"

res_handle(res) ==
    CASE res = Failed                -> "DB_ERROR"
      [] Cardinality(res.found) = 1  -> "RESULT_IS_OK"
      [] Cardinality(res.found) > 1  -> "SEVERAL_FILES"
      [] OTHER                       -> "NOT_FOUND"

\* Slip: a file is only looked for by its name.
Decide_name_only ==
    LET name == res_handle(rows["name"])
    IN  /\ pc = "lookup" /\ \A q \in Queries : rows[q] # Pending
        /\ CASE name = "DB_ERROR"      -> Refuse(Appended("Database"))
             [] name = "SEVERAL_FILES" -> Refuse("Several")
             [] name = "NOT_FOUND"     -> Refuse("File")
             [] OTHER                  -> Found(SongsOf(rows["name"].found))
        /\ UNCHANGED <<environment, handler, request, rows, failures>>

\* One row under each of the queries is several files, be it the same.
Decide ==
    LET name == res_handle(rows["name"])
        uid  == res_handle(rows["uid"])
        end  == IF name \in {"DB_ERROR", "SEVERAL_FILES"} THEN name ELSE uid
        both == {name, uid}
    IN  /\ pc = "lookup" /\ \A q \in Queries : rows[q] # Pending
        /\ CASE end = "DB_ERROR"         -> Refuse(Appended("Database"))
             [] end = "SEVERAL_FILES"    -> Refuse("Several")
             [] both = {"NOT_FOUND"}     -> Refuse("File")
             [] both = {"RESULT_IS_OK"}  -> Refuse("Several")
             [] OTHER                     -> Found(SongsOf(rows["name"].found \cup rows["uid"].found))
        /\ UNCHANGED <<environment, handler, request, rows, failures>>

-------------------------------------------------------------------------------
(* Server_dir_handler::handle, which writes no log and has no table of it. *)

ListDirectory ==
    /\ handler = "directory" /\ pc = "logging"
    /\ request.kind \in {"files table", "both tables"}
    /\ req_result' = [req_result EXCEPT !.tables = {"files"}]
    /\ Answer(200)
    /\ UNCHANGED <<environment, handler, request, req_error, rows, failures>>

\* The first match in the order of the directory will do.  A name is compared after
\* the path it belongs to has been destroyed: with a longer name its memory is already
\* in use for something else, and the match is missed.
Find ==
    /\ handler = "directory" /\ pc = "logging"
    /\ request.kind \notin {"files table", "both tables"}
    /\ \/ request.kind = "illegal" /\ Refuse("Illegal")
       \/ request.kind # "illegal" /\ \E f \in request.name \cap disk : Found({f})
       \/ request.kind # "illegal" /\ Refuse("File")
    /\ UNCHANGED <<environment, handler, request, rows, failures>>

Next ==
    \/ Change
    \/ Log \/ FilesTable \/ LogTable \/ Illegal \/ Decide \/ \E q \in Queries : Query(q)
    \/ ListDirectory \/ Find
    \/ Open

Spec == Init /\ [][Next]_vars

-------------------------------------------------------------------------------
(* Properties.                                                             *)

\* The songs the handler may take for the requested one.
Matching == IF handler = "database" THEN request.name \cup request.uid ELSE request.name

SentMatches ==
    status = 200 /\ request.kind = "file" => req_result.songs \subseteq Matching \cap ever

MissingWhenNotFound == status = 404 /\ handler = "database" => Matching \cap always = {}

SeveralMatched ==
    status = 300 => \/ Cardinality(Matching \cap ever) > 1
                    \/ request.name \cap request.uid \cap ever # {}
                    \/ Matching \cap doubled # {}

ErrorOccurred == status = 500 => failures > 0 \/ ~(req_result.songs \subseteq present)

IllegalRefused == status = 400 <=> pc = "answered" /\ request.kind = "illegal"

Asked == CASE request.kind = "files table" -> {"files"}
           [] request.kind = "log table"   -> {"log"}
           [] OTHER                        -> {"files", "log"}

TablesComplete ==
    status = 200 /\ request.kind \in Tables /\ handler = "database" =>
        LET missing == Asked \ req_result.tables
        IN  /\ req_result.tables \subseteq Asked
            /\ Cardinality(missing) <= failures
            /\ missing # {} => req_error = "Database"

(* The answer is true of some moment of the request, although its steps    *)
(* see different states: a file that is sent matched and was listed; one   *)
(* that the database does not find was not listed all the time; several    *)
(* files are two, or one that has the requested name and the requested id, *)
(* or one that was listed twice; an error comes from the database or from  *)
(* a file that went; each table that an answer lacks is one that the       *)
(* database failed to give, and is noted in REQ_ERROR, from which the      *)
(* client does not learn it.                                               *)
AnswerTruthful ==
    /\ SentMatches /\ MissingWhenNotFound /\ SeveralMatched /\ ErrorOccurred
    /\ IllegalRefused /\ TablesComplete

(* Nothing keeps a file from its client that had one row and was on disk   *)
(* all the time while no other file matched: not even the failure to log   *)
(* the request.  Only a failed query does, a second row of the file, and a *)
(* target that is both its name and its id.                                *)
AvailableIsSent ==
    /\ pc = "answered" /\ handler = "database" /\ request.kind = "file"
    /\ \A q \in Queries : rows[q] # Failed
    =>  \A f \in (always \cap present) \ doubled :
            Matching \cap ever = {f} /\ f \notin request.name \cap request.uid =>
                status = 200 /\ req_result.songs = {f}
================================================================================
