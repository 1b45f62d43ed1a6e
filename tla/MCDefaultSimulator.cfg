SPECIFICATION Spec
CONSTANTS
    Event = {e1, e2, e3}
    Thread = {t1, t2}
    Delay <- MCDelay
    UidModulus = 16
    UidLimit = 12
    Main = main
    None = none
SYMMETRY Symmetry
INVARIANTS
    TypeOK
    ExpiredIsExact
    CountIsExact
    ReferencesExact
    QueueIsAnnounced
    PostedRunInOrder
    FirstInsertedRunsFirst
PROPERTIES
    RunsInKeyOrder
    NeverRunAgain
    ImplementsEventLoop
