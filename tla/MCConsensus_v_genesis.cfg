SPECIFICATION ConsensusSpec
CONSTANTS
    Radix = 16
    MaxTargetSize = 6
    GenesisExp = 6
    Expected = 8
    TimeMod = 64
    Ends <- MCEnds
    BlockTxs = {x1}
    MaxTxs = 1
INVARIANT
    GenesisBitsSurvive
