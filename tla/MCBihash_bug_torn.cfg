SPECIFICATION Spec
CONSTANTS
    k1 = k1
    k2 = k2
    k3 = k3
    k4 = k4
    v1 = v1
    v2 = v2
    w1 = w1
    w2 = w2
    r1 = r1
    Keys = {k1, k2, k3, k4}
    Values = {v1, v2}
    Hash <- HashOf
    Log2Buckets = 1
    KvpPerPage = 1
    Levels = {FALSE}
    Adds = {"add"}
    Writers = {w1}
    Readers = {r1}
    Stores <- BothValues
    MaxOps = 4
    MaxSearches = 1
INVARIANTS
    SearchExact
CHECK_DEADLOCK FALSE
