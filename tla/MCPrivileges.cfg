CONSTANTS
    NServers = 2

SPECIFICATION Spec

INVARIANT TypeOK
INVARIANT DroppedOnlyWhenComplete
PROPERTY ImplementsPrivilegeDrop

CHECK_DEADLOCK FALSE
