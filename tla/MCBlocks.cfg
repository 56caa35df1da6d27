SPECIFICATION BlocksSpec
CHECK_DEADLOCK FALSE
CONSTANTS
    Pools <- MCPools
    Size <- MCSize
    MaxSize = 5
    MaxPackageDepth = 4
    MaxPackageSize = 5
    Threads = {t1, t2}
    Nonces = {1, 2, 3}
    MaxTip = 2
    MaxTime = 2
    Radix = 16
    MaxTargetSize = 6
    GenesisExp = 6
    Expected = 8
    TimeMod = 64
    Ends <- MCEnds
    BlockTxs = {x1, x2}
    MaxTxs = 6
    g = g
    c1 = c1
    c2 = c2
    c3 = c3
    pay = pay
    change = change
    free = free
    hidden = hidden
    k1 = k1
    Txs <- MCTxs
    Coinbases <- MCCoinbases
    Anonymous = {hidden}
    Inputs <- MCInputs
    Outputs <- MCOutputs
    Scripts <- MCScripts
    Images <- MCImages
    LockTime <- MCLockTime
    Final <- MCFinal
    RequiredFee <- MCFee
    Verifies = {hidden}
    GenesisBlock <- MCGenesis
    Candidates <- MCCandidates
    Subsidy = 5
    Supply = 5
    MaxValue = 20
    Maturity = 2
    MaxHeight = 2
    MaxJournals = 1
INVARIANTS
    SelectionSound
    NothingLeftOut
    BlockFits
    TargetsSound
    RootIdentifies
    CoinbasesOnly
