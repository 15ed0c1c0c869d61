SPECIFICATION Spec
CONSTANTS
    p1 = p1
    p2 = p2
    t1 = t1
    t2 = t2
    Process = {p1, p2}
    Tag = {t1, t2}
    NoTag = NoTag
    Alone = {TRUE, FALSE}
    MaxOps = 5
    MaxKills = 1
SYMMETRY Alike
INVARIANTS TypeOK NoDuplicateTag AppendOnlyUncrossed
PROPERTIES GivenUpIsUnlisted CommittedGrows
