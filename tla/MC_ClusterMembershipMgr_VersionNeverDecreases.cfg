CONSTANTS
    L = L
    A = A
    Backends <- MCBackends
    Local = L
    Executors <- MCBackends
    Groups <- MCGroups
    BeGroups <- MCBeGroups
    MaxVersion <- MCMaxVersion
SPECIFICATION Spec
PROPERTIES
    VersionNeverDecreases
CHECK_DEADLOCK FALSE
