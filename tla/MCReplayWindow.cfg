CONSTANTS
    W = 3
    MaxNonce = 9
SPECIFICATION Spec
INVARIANTS
    ReplayTypeOK
    TakesExactlyTheNew
PROPERTIES
    ImplementsChannel
CHECK_DEADLOCK FALSE
