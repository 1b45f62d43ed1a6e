SPECIFICATION SetSpec
CONSTANTS
    Key <- MCKey
    MaxBuckets = 4
INVARIANTS
    PeekIsEarliest
    QSizeIsExact
    InItsBucket
    FollowsLoad
    CalendarPeekIsEarliest
PROPERTIES
    ImplementsScheduler
    SimulatorImplementsScheduler
