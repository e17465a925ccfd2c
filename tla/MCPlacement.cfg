CONSTANTS
    Nodes <- MCNodes
    Private <- MCPrivate
    AllowList = {}
    MaxPartitions = 2
    MaxSpaces = 2
SPECIFICATION Spec
INVARIANT TypeOK
INVARIANT PickIsLeastLoaded
PROPERTY PlacementBalanced
PROPERTY PlacementRefines
