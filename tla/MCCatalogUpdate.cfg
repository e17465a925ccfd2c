CONSTANTS
    Clients = {c1, c2, c3}
    DBNames = {"d1"}
    SpaceNames = {"s1"}
    IPs = {"ip1"}
    Servers = {"ip1"}
    MaxId = 2
    Ops <- MCOpsUpdate
    OpsPerClient = 2
    MaxCrash = 1
    MaxDelFail = 1
    None = None
SYMMETRY MCSymmetryU
SPECIFICATION SpecU
INVARIANT SpaceNameUnique
