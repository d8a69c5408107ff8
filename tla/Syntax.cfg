SPECIFICATION Spec
CONSTANT Files <- MCFiles
INVARIANTS
    ParsesBack
    Recovers
    HeaderAgrees
CHECK_DEADLOCK FALSE
