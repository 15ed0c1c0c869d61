SPECIFICATION FairSpec
CONSTANTS
    w1 = w1
    w2 = w2
    n1 = n1
    n2 = n2
    n3 = n3
    n4 = n4
    Worker = {w1, w2}
    Handler = Handler
    Nobody = Nobody
    Name = {n1, n2, n3, n4}
    Stubborn = {n1}
    Builds = 2
    Candidates = 2
    Serial = FALSE
INVARIANTS TypeOK RegistryTracks NoOrphans
PROPERTIES ShutdownEnds
CHECK_DEADLOCK FALSE
