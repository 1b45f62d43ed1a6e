SPECIFICATION SpecFitting
CONSTANT
    Key <- MCKey
INVARIANT
    PeekIsEarliest
PROPERTY
    ImplementsScheduler
