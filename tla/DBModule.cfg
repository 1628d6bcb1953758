\* Two workers contend for one connection, and two commands for the workers; one
\* outage lets the connection be found dead, be reset and be lost.
CONSTANTS
    Workers = {w1, w2}
    Tasks = {q1, q2}
    Clients = {c1}
    Nobody = Nobody
    NoTask = NoTask
    Users = {w1, w2}
    ConnCount = 1
    Attempts = 1
    NoConn = NoConn
    MaxOutages = 1
SPECIFICATION FairSpec
INVARIANTS
    AnswersAreTrue
    ConnectionsFollowTasks
    NoUseAfterDestruction
PROPERTIES
    AnsweredUnlessStranded
