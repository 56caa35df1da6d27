SPECIFICATION Spec
CONSTANTS
    g = g
    p = p
    c = c
    d = d
    e = e
    i1 = i1
    None = None
    TxIds = {g, p, c, d, e}
    Outpoints = {"a", "b", "k", "l", "g0", "p0", "c0"}
    Images = {i1}
    Source <- ChainSource
    Inputs <- ChainInputs
    KeyImages <- ChainKeyImages
    Refused = {}
    Value <- Values
    OutputSum <- OneEach
    Size <- OneEach
    MaxPackageDepth = 4
    MaxPackageSize = 4
    MaxSize = 3
    MaxTxs = 4
    Expiration = 1
    LastInsert = 1
    MaxTime = 2
CHECK_DEADLOCK FALSE
INVARIANTS
    PackagesIntact
    IndexesExact
    StuckOnlyWhenFull
    Shallow
