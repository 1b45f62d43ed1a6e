SPECIFICATION Spec
CONSTANTS
    Delay <- MCDelay
    MaxTime = 8
    MaxEvents = 7
    Policy <- AllPolicies
    Suspendable <- DroppingPolicies
    Careless = FALSE
    NotArmed = NotArmed
CHECK_DEADLOCK FALSE
INVARIANTS
    DelayLeftIsExact
    OneEventAtMost
PROPERTIES
    FiresAfterItsDelay
    SuspendedIsPaused
