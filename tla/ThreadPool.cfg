\* Two workers, so that a notification can go to the wrong one; three tasks, so
\* that the deque holds more tasks than there are free workers; two clients, so
\* that two notifications can be under way.
CONSTANTS
    Workers = {w1, w2}
    Tasks = {t1, t2, t3}
    Clients = {c1, c2}
    Nobody = Nobody
    NoTask = NoTask
SPECIFICATION TPFairSpec
INVARIANTS
    TPTypeOK
    TaskConservation
    ServiceOrder
    NoTaskSleptThrough
    AtMostOneSleeper
    AtMostOneLateTask
PROPERTIES
    ImplementsTaskQueue
    EveryTaskServed
    DestructorReturnsIfNoneMissed
