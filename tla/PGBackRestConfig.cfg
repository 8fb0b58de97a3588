CONSTANTS
    h1 = h1
    h2 = h2
    RepoNames <- MCRepoNames
    Backends <- MCBackends
    GlobalKeys <- MCGlobalKeys
    Hosts <- MCHosts
    RepoHostNames <- MCRepoHostNames
    IPAnnotations <- MCIPAnnotations
    UpperToLower <- MCUpperToLower
SYMMETRY MCSymmetry
SPECIFICATION Spec
\* Both functions are computed once from fixed inputs; the program stops.
CHECK_DEADLOCK FALSE
INVARIANT
    TypeOK
    RepoHostIndicesMatchHosts
    RepoHostLogsToCreatedDir
    GlobalOverridesWin
    RepoHostReachableOnlyWhenServed
