\* One task is enough for a destructor that never returns.
CONSTANTS
    Workers = {w1, w2}
    Tasks = {t1}
    Clients = {c1}
    Nobody = Nobody
    NoTask = NoTask
SPECIFICATION TPFairSpec
PROPERTIES
    DestructorReturns
