SPECIFICATION Spec
CONSTANTS
    c1 = c1
    c2 = c2
    c3 = c3
    k1 = k1
    k2 = k2
    e1 = e1
    e2 = e2
    e3 = e3
    w1 = w1
    w2 = w2
    t1 = t1
    t2 = t2
    Candidate = {c1, c2}
    Entry = {e1, e2}
    EntryOf <- MCEntryOf
    Worker = {w1, w2}
    Tag = {t1, t2}
    NoTag = NoTag
    NoCandidate = NoCandidate
    Key = {k1, k2}
    KeyOf <- MCKeyOf
    Fixed = {c1}
    Undated = {c2}
    Slow = {c2}
    Poison = {c1}
    Options <- MCOptions
    Indexed = {t1}
    Local = {t1}
    MaxRuns = 2
    MaxCrashes = 1
SYMMETRY SameWorkers
INVARIANTS TypeOK OneVerdictPerKey NoVerdictFromKilled OkIsWitnessed
PROPERTIES EntriesSurvive MirrorFollowsLedger ImplementsBatch
CHECK_DEADLOCK FALSE
