SPECIFICATION Spec
CONSTANTS
    r1 = r1
    r2 = r2
    r3 = r3
    h1 = h1
    h2 = h2
    p1 = p1
    p2 = p2
    d1 = d1
    d2 = d2
    Run = {r1, r2, r3}
    Host = {h1, h2}
    HostOf <- Hosts
    Platform = {p1, p2}
    PlatformOf <- Platforms
    Digest = {d1, d2}
    Category = {"breaking", "non-breaking", "fix-after-update"}
    KeepThin = {TRUE, FALSE}
    Alone = {TRUE, FALSE}
    NoDigest = NoDigest
    MaxStarts = 2
    MaxKills = 1
SYMMETRY Alike
INVARIANTS TypeOK RanInRecordedEnvironment  ThinsRemoved
PROPERTIES ImplementsContract
CHECK_DEADLOCK FALSE
