SPECIFICATION Spec
CONSTANTS
    MaxLines = 4
INVARIANT TestsFailIsTestFailure
CHECK_DEADLOCK FALSE
