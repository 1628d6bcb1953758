------------------------------- MODULE LogTable -------------------------------
(***************************************************************************)
(* The log of the requests: Server_HTTP_handler's constructor and its      *)
(* update_log_table, which every thread of the server runs once per        *)
(* request.  A thread compares its copy of the counter log_table_nrows     *)
(* with the limit, trims the table if it is exceeded, brings the counter   *)
(* up to date by a compare-exchange, inserts the request, and increments   *)
(* the counter.  Between any two of these steps other threads run.         *)
(*                                                                         *)
(* The database executes each command as one transaction with the table    *)
(* locked; the sequence that numbers the rows is not rolled back with it.  *)
(* A "Slip" is a variant of the definition after it with a plausible       *)
(* mistake, used only to see a property fail.                              *)
(***************************************************************************)
EXTENDS Integers, FiniteSets, FiniteSetsExt

CONSTANTS
    Threads,        \* threads of the server
    RowsLimit,      \* Server_HTTP_handler::rows_limit
    MaxRequests, MaxFailures, MaxStarts, MaxRows    \* bounds of the runs

ASSUME LogTableAssumption ==
    /\ IsFiniteSet(Threads) /\ RowsLimit \in Nat
    /\ MaxRequests \in Nat /\ MaxFailures \in Nat /\ MaxStarts \in Nat /\ MaxRows \in Nat

VARIABLES
    rows,               \* log_table: the ids of its rows
    log_seq,            \* the last id the sequence gave away
    log_table_nrows,    \* Server_HTTP_handler::log_table_nrows
    phase,              \* the server: "down", "renumber", "expire", "count", "up"
    pc,                 \* each thread: "idle", "trim", "exchange", "insert", "increment"
    seen,               \* its copy of the counter, log_tables_nrows_temp
    temp_nrows,         \* the number of rows its trimming left
    requests, failures, starts,     \* history, for the bounds
    inherited,          \* history: rows of the table when the server came up
    unknown,            \* history: rows of the table the counter was not told of
    overlapped          \* history: a trimming met another thread at work

tableVars  == <<rows, log_seq>>
threadVars == <<pc, seen, temp_nrows>>
boundVars  == <<requests, failures, starts>>
historyVars == <<inherited, unknown, overlapped>>
vars == <<tableVars, log_table_nrows, phase, threadVars, boundVars, historyVars>>

TypeOK ==
    /\ rows \subseteq 1..log_seq
    /\ log_seq \in Nat
    /\ log_table_nrows \in Nat
    /\ phase \in {"down", "renumber", "expire", "count", "up"}
    /\ pc \in [Threads -> {"idle", "trim", "exchange", "insert", "increment"}]
    /\ seen \in [Threads -> Nat]
    /\ temp_nrows \in [Threads -> Nat]
    /\ inherited \in Nat /\ unknown \in Nat /\ overlapped \in BOOLEAN

Init ==
    /\ log_seq \in 0..MaxRows
    /\ rows = 1..log_seq
    /\ log_table_nrows = 0
    /\ phase = "down"
    /\ pc = [t \in Threads |-> "idle"]
    /\ seen = [t \in Threads |-> 0]
    /\ temp_nrows = [t \in Threads |-> 0]
    /\ requests = 0 /\ failures = 0 /\ starts = 0
    /\ inherited = 0 /\ unknown = 0 /\ overlapped = FALSE

\* ALTER SEQUENCE log_seq RESTART; UPDATE log_table SET ID = DEFAULT
Renumbered(n) == rows' = 1..n /\ log_seq' = n

Fails == failures < MaxFailures /\ failures' = failures + 1

-------------------------------------------------------------------------------
(* The constructor.  A failure is printed and goes without consequences.  A *)
(* command may have taken effect although its answer was lost.              *)

Start ==
    /\ phase = "down"
    /\ starts < MaxStarts
    /\ starts' = starts + 1
    /\ phase' = "renumber"
    /\ log_table_nrows' = 0
    /\ inherited' = 0 /\ unknown' = 0 /\ overlapped' = FALSE
    /\ UNCHANGED <<tableVars, threadVars, requests, failures>>

UpdateIds ==
    /\ phase = "renumber"
    /\ phase' = "expire"
    /\ \/ UNCHANGED failures /\ Renumbered(Cardinality(rows))
       \/ Fails /\ (UNCHANGED tableVars \/ Renumbered(Cardinality(rows)))
    /\ UNCHANGED <<log_table_nrows, threadVars, requests, starts, historyVars>>

\* The rows that are older than the limit of days go.
Expire ==
    /\ phase = "expire"
    /\ phase' = "count"
    /\ \/ UNCHANGED failures /\ \E n \in 0..Cardinality(rows) : Renumbered(n)
       \/ Fails /\ (UNCHANGED tableVars \/ \E n \in 0..Cardinality(rows) : Renumbered(n))
    /\ UNCHANGED <<log_table_nrows, threadVars, requests, starts, historyVars>>

Count ==
    /\ phase = "count"
    /\ phase' = "up"
    /\ inherited' = Cardinality(rows)
    /\ \/ log_table_nrows' = Cardinality(rows) /\ UNCHANGED <<failures, unknown>>
       \/ Fails /\ unknown' = Cardinality(rows) /\ UNCHANGED log_table_nrows
    /\ UNCHANGED <<tableVars, threadVars, requests, starts, overlapped>>

\* The process ends, by the user's will or by a crash.
Stopped ==
    /\ phase' = "down"
    /\ pc' = [t \in Threads |-> "idle"]
    /\ seen' = [t \in Threads |-> 0]
    /\ temp_nrows' = [t \in Threads |-> 0]

Stop ==
    /\ phase = "up" /\ starts < MaxStarts
    /\ Stopped
    /\ UNCHANGED <<tableVars, log_table_nrows, boundVars, historyVars>>

-------------------------------------------------------------------------------
(* update_log_table                                                        *)

Overlap(l) ==
    \E t, u \in Threads : t # u /\ l[t] \in {"trim", "exchange"} /\ l[u] # "idle"

Goto(t, l) ==
    /\ pc' = [pc EXCEPT ![t] = l]
    /\ overlapped' = (overlapped \/ Overlap(pc'))

\* Slip: the limit is compared for equality.
LoadCounter_equal(t) ==
    /\ phase = "up" /\ pc[t] = "idle"
    /\ requests < MaxRequests
    /\ requests' = requests + 1
    /\ IF log_table_nrows = RowsLimit + 1
       THEN Goto(t, "trim") /\ seen' = [seen EXCEPT ![t] = log_table_nrows]
       ELSE Goto(t, "insert") /\ UNCHANGED seen
    /\ UNCHANGED <<tableVars, log_table_nrows, phase, temp_nrows, failures, starts,
                   inherited, unknown>>

LoadCounter(t) ==
    /\ phase = "up" /\ pc[t] = "idle"
    /\ requests < MaxRequests
    /\ requests' = requests + 1
    /\ IF log_table_nrows > RowsLimit
       THEN Goto(t, "trim") /\ seen' = [seen EXCEPT ![t] = log_table_nrows]
       ELSE Goto(t, "insert") /\ UNCHANGED seen
    /\ UNCHANGED <<tableVars, log_table_nrows, phase, temp_nrows, failures, starts,
                   inherited, unknown>>

\* Slip: the rows that stay keep their ids while the sequence starts again.
Trimmed_unnumbered ==
    /\ rows' = {i \in rows : i > RowsLimit \div 2}
    /\ log_seq' = Cardinality(rows')

\* DELETE FROM log_table WHERE id <= rows_limit / 2, renumbered.
Trimmed == Renumbered(Cardinality({i \in rows : i > RowsLimit \div 2}))

\* SELECT last_value FROM log_seq is 1 when the table has become empty.
Trim(t) ==
    /\ pc[t] = "trim"
    /\ Trimmed
    /\ temp_nrows' = [temp_nrows EXCEPT ![t] = Max({1, log_seq'})]
    /\ Goto(t, "exchange")
    /\ UNCHANGED <<log_table_nrows, phase, seen, boundVars, inherited, unknown>>

\* The failed result has no value to convert: the process crashes.
TrimFails(t) ==
    /\ pc[t] = "trim"
    /\ Fails
    /\ Trimmed \/ UNCHANGED tableVars
    /\ Stopped
    /\ UNCHANGED <<log_table_nrows, requests, starts, historyVars>>

\* Slip: expected and desired value swapped.
CompareExchange_swapped(t) ==
    /\ pc[t] = "exchange"
    /\ log_table_nrows' = IF log_table_nrows = temp_nrows[t] THEN seen[t] ELSE log_table_nrows
    /\ Goto(t, "insert")
    /\ UNCHANGED <<tableVars, phase, seen, temp_nrows, boundVars, inherited, unknown>>

CompareExchange(t) ==
    /\ pc[t] = "exchange"
    /\ log_table_nrows' = IF log_table_nrows = seen[t] THEN temp_nrows[t] ELSE log_table_nrows
    /\ Goto(t, "insert")
    /\ UNCHANGED <<tableVars, phase, seen, temp_nrows, boundVars, inherited, unknown>>

Insert(t) ==
    /\ pc[t] = "insert"
    /\ log_seq' = log_seq + 1
    /\ rows' = rows \cup {log_seq'}
    /\ Goto(t, "increment")
    /\ UNCHANGED <<log_table_nrows, phase, seen, temp_nrows, boundVars, inherited, unknown>>

\* REQ_ERROR says so.  The id may be spent, and the row there, all the same.
InsertFails(t) ==
    /\ pc[t] = "insert"
    /\ Fails
    /\ \/ UNCHANGED <<tableVars, unknown>>
       \/ log_seq' = log_seq + 1 /\ UNCHANGED <<rows, unknown>>
       \/ log_seq' = log_seq + 1 /\ rows' = rows \cup {log_seq'} /\ unknown' = unknown + 1
    /\ Goto(t, "idle")
    /\ UNCHANGED <<log_table_nrows, phase, seen, temp_nrows, requests, starts, inherited>>

Increment(t) ==
    /\ pc[t] = "increment"
    /\ log_table_nrows' = log_table_nrows + 1
    /\ Goto(t, "idle")
    /\ UNCHANGED <<tableVars, phase, seen, temp_nrows, boundVars, inherited, unknown>>

-------------------------------------------------------------------------------
Constructor == Start \/ UpdateIds \/ Expire \/ Count

update_log_table(t) ==
    \/ LoadCounter(t) \/ Trim(t) \/ TrimFails(t) \/ CompareExchange(t)
    \/ Insert(t) \/ InsertFails(t) \/ Increment(t)

Next == Constructor \/ Stop \/ \E t \in Threads : update_log_table(t)

Spec == Init /\ [][Next]_vars

-------------------------------------------------------------------------------
(* Properties                                                              *)

\* rows_limit: "Number of rows to store in log_table, after exceeding this value,
\* first rows_limit rows clearing" (handler.h:46).  With two threads the table
\* exceeds the limit, by the compare-exchange that succeeds although the counter
\* changed and came back, but never holds more than twice the limit, or what
\* it held when the server came up, and one row per thread, apart from the rows the
\* counter was not told of.  (A limit below two is never enforced: see Trimmed.)
TableBounded ==
    phase = "up" =>
        Cardinality(rows) <= Max({2 * RowsLimit, inherited}) + Cardinality(Threads) + unknown

\* log_table_nrows: "Number of rows in the log_table" (handler.h:48).  It is,
\* between requests, as long as no trimming met another thread at work and no
\* command failed that the counter depends on; after a restart it is again.
CounterExactUnlessOverlapped ==
    /\ phase = "up" /\ ~overlapped /\ unknown = 0
    /\ \A t \in Threads : pc[t] = "idle"
    => log_table_nrows = Cardinality(rows)

\* "If we can't delete rows with id number exceeding the limit we don't bother to
\* inform client about that, but we make appropriate record in log file"
\* (handler.cpp:153): a failed command leaves the server running.  Does not hold.
FailuresSurvived ==
    [][failures' > failures => phase' # "down"]_vars
==============================================================================
