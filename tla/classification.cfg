SPECIFICATION Spec
CONSTANTS
    MaxLines = 4
INVARIANTS TypeOK QuietVerdictFits TimeoutOutranks RowFits
CHECK_DEADLOCK FALSE
