CONSTANTS
    L = L
    A = A
    Backends <- MCBackends
    Local = L
    Executors <- MCBackends
    Groups <- MCGroups
    BeGroups <- MCBeGroups
    MaxVersion <- MCMaxVersion
SPECIFICATION Spec
INVARIANTS
    TypeOK
    GroupsConsistent
    BlacklistTracksMembers
    PublishedMatchesTopic
    ServerViewNoStaleBackends
PROPERTIES
    RecoveringNeverPublished
\* The version bound stops the manager; the statestore may stay quiet.
CHECK_DEADLOCK FALSE
