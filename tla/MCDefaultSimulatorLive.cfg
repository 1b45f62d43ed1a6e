SPECIFICATION RunningSpec
CONSTANTS
    Event = {e1, e2}
    Thread = {t1, t2}
    Delay <- MCDelay
    UidModulus = 16
    UidLimit = 12
    Main = main
    None = none
PROPERTIES
    RunReturns
    PostedEventRuns
