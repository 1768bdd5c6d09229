CONSTANTS
    A = A
    B = B
    C = C
    G1 = G1
    G2 = G2
    Backends <- MCBackends
    Executors <- MCBackends
    Groups <- MCGroups
    DescGroups <- MCRegroups
SPECIFICATION Spec
INVARIANTS
    GroupsHoldOnlySchedulable
