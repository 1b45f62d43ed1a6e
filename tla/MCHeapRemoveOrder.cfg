SPECIFICATION Spec
CONSTANT
    Key <- MCKey
INVARIANT
    PeekIsEarliest
