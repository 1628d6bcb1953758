\* Two servers, two threads, two targets asked for twice: a session may be held up
\* anywhere in the choice while the other goes through the list.  One download
\* directory for both; one target is typed.
CONSTANTS
    num_coroutines = 2
    num_threads = 2
    targets_size = 2
    Loops = 2
    dirs = 1
    MaxTyped = 1
SPECIFICATION FairSpec
\* Sessions end; a session may wait for the user for ever.
CHECK_DEADLOCK FALSE
INVARIANTS
    TypeOK
    LoopsExactUnlessRaced
    FileCompleteUnlessDisturbed
PROPERTIES
    LoopingEnds
    
