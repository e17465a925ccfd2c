CONSTANTS
    Clients = {c1, c2, c3}
    DBNames = {"d1"}
    SpaceNames = {"s1"}
    IPs = {"ip1", "ip2"}
    Servers = {"ip1"}
    MaxId = 2
    Ops <- MCOps
    OpsPerClient = 2
    MaxCrash = 1
    MaxDelFail = 1
    None = None
SYMMETRY MCSymmetry
SPECIFICATION Spec
INVARIANT TypeOK SpaceNameUnique StrandedOnlyByFault
