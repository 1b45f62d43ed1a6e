SPECIFICATION FairSpec
CONSTANTS
    Delay <- MCDelay
    MaxTime = 6
    MaxEvents = 8
CHECK_DEADLOCK FALSE
INVARIANTS
    OneEventWhileOwed
PROPERTIES
    InvokedAtLastDeadline
    PingIsAnswered
