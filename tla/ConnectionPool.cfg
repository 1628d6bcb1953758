\* Three connections for two users, so that the deque can be empty, short and
\* full; two attempts stand for the five of the code; two outages, so that a
\* connection can be lost, reset and lost again.
CONSTANTS
    ConnCount = 3
    Attempts = 2
    Users = {u1, u2}
    NoConn = NoConn
    MaxOutages = 2
SPECIFICATION CPSpec
INVARIANTS
    CPTypeOK
    ExclusiveOwnership
    HandedOutIsGood
    FailuresBounded
    RefusalsTolerated
