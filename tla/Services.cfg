SPECIFICATION Spec
CONSTANTS
    j1 = j1
    j2 = j2
    NoJob = NoJob
    w1 = w1
    w2 = w2
CHECK_DEADLOCK FALSE
INVARIANTS NoncesAccounted ReplacesOwn ConfirmedIsMined
PROPERTIES HistoryKept JobsEnd
