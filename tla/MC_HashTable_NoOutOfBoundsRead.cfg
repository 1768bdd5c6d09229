CONSTANTS
    K1 = K1
    K2 = K2
    K3 = K3
    K4 = K4
    K5 = K5
    NumBuckets = 4
    Keys <- MCKeys
    Hash <- MCHash
    MaxRows = 4
    NodesPerPage = 3
SPECIFICATION Spec
INVARIANTS
    NoOutOfBoundsRead
\* The join is over once the build rows are output.
CHECK_DEADLOCK FALSE
