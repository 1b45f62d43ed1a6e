SPECIFICATION FairSpec
CONSTANTS
    Thread = {t1, t2}
    Delay <- MCDelay
    Epoch = 9
    SpinMargin = 1
    IdleDelay = 3
    m_hardLimit = 1
    Careful = TRUE
    MaxUid = 7
    MaxTime = 3
    None = none
INVARIANTS
    NeverEarly
    NothingInThePast
    NoSignalIsLost
PROPERTY
    InsertedEventLeaves
CHECK_DEADLOCK FALSE
