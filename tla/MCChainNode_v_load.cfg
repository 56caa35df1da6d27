SPECIFICATION Spec
CONSTANTS
    g = g
    a = a
    b = b
    c = c
    x = x
    tg = tg
    ta = ta
    tc = tc
    None = None
    Blocks <- MCBlocks
    Genesis = g
    Parent <- MCParent
    TxIds <- MCTxIds
    Txs <- MCTxs
    Stamp <- MCStamp
    Valid <- MCValid
    Subsidy = 1
    MaxOrphans = 1
    ReorgMaxDepth = 2
    Faults = {}
    MaxHeight = 2
    MaxJournals = 2
    MaxBoots = 2
INVARIANT StoredChainLoads
CHECK_DEADLOCK FALSE
