\* Two threads, for which TableBounded is stated; a limit of two, so that a trim
\* takes one row; requests enough for the counter to come back to a value that a
\* stalled thread has seen; one failure; two starts over a table that may exceed
\* the limit from the beginning.
CONSTANTS
    Threads = {t1, t2}
    RowsLimit = 2
    MaxRequests = 8
    MaxFailures = 1
    MaxStarts = 2
    MaxRows = 3
SPECIFICATION Spec
CHECK_DEADLOCK FALSE
INVARIANTS
    TypeOK
    TableBounded
    CounterExactUnlessOverlapped
