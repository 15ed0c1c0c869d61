SPECIFICATION Spec
CONSTANTS
    Msrv <- MCMsrv
    Undeclared = Undeclared
    NotSemver = NotSemver
    Dates <- MCDates
    Published <- MCPublished
    NoAnswer = NoAnswer
    None = None
    MaxSdeDate = 20251231
    MaxMoves = 2
INVARIANTS TypeOK RightCompiler RefusedForAReason RightEra SnapshotAfterCommit PlanOutlivesHub
CHECK_DEADLOCK FALSE
