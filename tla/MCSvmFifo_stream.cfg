SPECIFICATION Spec
CONSTANTS
    c1 = c1
    c2 = c2
    c3 = c3
    c4 = c4
    NoChunk = NoChunk
    Chunks = {c1, c2, c3, c4}
    ChunkLen <- Length
    FirstChunk = c1
    Size = 4
    MinAlloc = 2
    W = 18
    Kinds = {"rx", "tx", "plain"}
    EnqLens = {1, 3}
    Offsets = {1, 2, 3}
    DeqLens = {1, 4}
    PeekOffsets = {1}
INVARIANTS
    TypeOK
    ReadExact
    StreamIntact
    ChunksConserved
    OooExact
SYMMETRY Sym
