\* One request that has to trim the table and cannot.
CONSTANTS
    Threads = {t1}
    RowsLimit = 2
    MaxRequests = 2
    MaxFailures = 1
    MaxStarts = 1
    MaxRows = 3
SPECIFICATION Spec
CHECK_DEADLOCK FALSE
PROPERTIES
    FailuresSurvived
