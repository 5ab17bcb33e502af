SPECIFICATION Spec
CONSTANTS
    k1 = k1
    k2 = k2
    k3 = k3
    k4 = k4
    v1 = v1
    v2 = v2
    w1 = w1
    w2 = w2
    r1 = r1
    Keys = {k1, k2, k3, k4}
    Values = {v1, v2}
    Hash <- HashOf
    Log2Buckets = 1
    KvpPerPage = 1
    Levels = {TRUE, FALSE}
    Adds = {"add", "add_new", "add_stale"}
    Writers = {w1, w2}
    Readers = {r1}
    Stores <- OwnValue
    MaxOps = 4
    MaxSearches = 1
INVARIANTS
    TypeOK
    TableExact
    ArraysConserved
    PresentFound
CHECK_DEADLOCK FALSE
SYMMETRY Alike
