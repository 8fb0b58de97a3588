CONSTANTS
    ResourceNames <- MCResourceNames
    HugePageResources <- MCHugePageResources
    Quantities <- MCQuantities
    MaxInstanceSets = 2
SPECIFICATION Spec
INVARIANT TypeOK HugePagesMatchRequest
