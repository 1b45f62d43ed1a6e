SPECIFICATION FairSpec
CONSTANTS
    a = a
    b = b
    c = c
    ab = ab
    bc = bc
    Rank = {a, b, c}
    Link = {ab, bc}
    Ends <- MCEnds
    LinkDelay <- MCLinkDelay
    Infinity = 20
    Delay <- MCDelay
    TxTime <- MCTxTime
    Bound <- MCBound
    MaxUid = 7
    MaxTx = 1
INVARIANTS
    NothingInThePast
    NobodyLeavesEarly
PROPERTIES
    ImplementsParallel
    RunEnds
CHECK_DEADLOCK FALSE
