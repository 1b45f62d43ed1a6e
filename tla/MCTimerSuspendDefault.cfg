SPECIFICATION Spec
CONSTANTS
    Delay <- MCDelay
    MaxTime = 8
    MaxEvents = 7
    Policy <- AllPolicies
    Suspendable <- AllPolicies
    Careless = TRUE
    NotArmed = NotArmed
CHECK_DEADLOCK FALSE
PROPERTY
    SuspendedIsPaused
