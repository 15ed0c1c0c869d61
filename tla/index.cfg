SPECIFICATION Spec
CONSTANTS
    e1 = e1
    e2 = e2
    d1 = d1
    Entry = {e1, e2}
    Driver = {d1}
    Chunk <- OneDriver
    Rebuild = Rebuild
    Sourceless = {e2}
    Alone = {TRUE, FALSE}
    NoEntry = NoEntry
    NoRow = NoRow
    Msrv = {m1}
    m1 = m1
    NoMsrv = NoMsrv
    MaxWrites = 2
    MaxFlips = 1
INVARIANTS TypeOK OneCurrent CleanMeansFresh CompleteAfterRebuild AttemptsStand
PROPERTIES DriverFactsKept
