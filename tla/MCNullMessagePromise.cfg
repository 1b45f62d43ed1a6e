SPECIFICATION Spec
CONSTANTS
    ab = ab
    bc = bc
    Rank = {0, 1}
    Link = {ab, bc}
    Ends <- PairEnds
    LinkDelay <- PairLinkDelay
    TxTime <- PairTxTime
    InterframeGap <- PairInterframeGap
    Infinity = 20
    Delay <- MCDelay
    Source = {0}
    StopTime = 4
    m_schedulerTune = 100
    MaxCalls = 3
    None = none
INVARIANTS
    GuaranteeKept
CHECK_DEADLOCK FALSE
