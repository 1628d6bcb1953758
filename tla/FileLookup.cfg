\* Two songs, so that several can match, each with up to two rows; a change before, between and after the two
\* queries; the failure to log the request and of one query.
CONSTANTS
    Songs = {a, b}
    MaxRows = 2
    MaxChanges = 3
    MaxFailures = 2
SPECIFICATION Spec
\* The request ends with its answer.
CHECK_DEADLOCK FALSE
INVARIANTS
    TypeOK
    AnswerTruthful
    AvailableIsSent
