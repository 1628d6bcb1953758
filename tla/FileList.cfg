\* Two files, so that one can replace the other and commands about both are
\* pending; two workers, so that commands overtake each other; a kernel queue of
\* two, so that it overflows; one failing command; a second start.
CONSTANTS
    Names = {f1, f2}
    Workers = {w1, w2}
    QueueLimit = 2
    MaxChanges = 2
    MaxFailures = 1
    MaxStarts = 2
    Everyone = Everyone
    NoCommand = NoCommand
SPECIFICATION FairSpec
CHECK_DEADLOCK FALSE
INVARIANTS
    TypeOK
    ListedExactlyUnlessDisturbed
    RefreshStandsAlone
PROPERTIES
    WorkedOff
