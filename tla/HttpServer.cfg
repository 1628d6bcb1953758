\* Two threads, as in the configuration file, and two sessions that can block both;
\* two requests, so that a connection is used again; one failure; as many pending
\* records as one handler posts.
CONSTANTS
    num_threads = 2
    Sessions = {s1, s2}
    MaxRequests = 2
    MaxFailures = 1
    MaxPending = 3
SPECIFICATION FairSpec
\* Without clients the server waits for ever.
CHECK_DEADLOCK FALSE
INVARIANTS
    TypeOK
    OneAnswerPerRequest
    LogTellsConnections
PROPERTIES
    ServedUnlessStalled
