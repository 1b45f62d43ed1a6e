SPECIFICATION FairSpec
CONSTANTS
    ab = ab
    bc = bc
    Rank = {0, 1, 2}
    Link = {ab, bc}
    Ends <- RowEnds
    LinkDelay <- RowLinkDelay
    TxTime <- RowTxTime
    InterframeGap <- RowInterframeGap
    Infinity = 20
    Delay <- MCDelay
    Source = {1, 2}
    StopTime = 4
    m_schedulerTune = 100
    MaxCalls = 2
    None = none
INVARIANTS
    GuaranteeKept
    PromisesAhead
PROPERTIES
    ImplementsParallel
    EverybodyFinishes
CHECK_DEADLOCK FALSE
