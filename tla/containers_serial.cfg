SPECIFICATION FairSpec
CONSTANTS
    w1 = w1
    w2 = w2
    n1 = n1
    n2 = n2
    n3 = n3
    n4 = n4
    Worker = {w1}
    Handler = Handler
    Nobody = Nobody
    Name = {n1, n2, n3, n4}
    Stubborn = {}
    Builds = 2
    Candidates = 2
    Serial = TRUE
PROPERTIES ShutdownEnds
CHECK_DEADLOCK FALSE
