\* One worker, one connection and one outage are enough to strand a command.
CONSTANTS
    Workers = {w1}
    Tasks = {q1, q2}
    Clients = {c1}
    Nobody = Nobody
    NoTask = NoTask
    Users = {w1}
    ConnCount = 1
    Attempts = 1
    NoConn = NoConn
    MaxOutages = 1
SPECIFICATION RecoveringSpec
PROPERTIES
    AnsweredWhenServerReturns
