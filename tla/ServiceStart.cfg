\* A directory five levels deep, so that there is one that only searching_backward
\* looks at above and below the one it finds; files of two records; four starts, for
\* three files.
CONSTANTS
    MaxDepth = 5
    max_log_file_size = 1
    MaxStarts = 4
    MaxRecords = 5
SPECIFICATION Spec
\* A program that died, or was started as often as the bound allows, is at its end.
CHECK_DEADLOCK FALSE
INVARIANTS
    TypeOK
    ConfigWithinThreeLevels
    LogCompleteInOrder
