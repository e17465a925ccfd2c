CONSTANTS
    Nodes <- MCNodes
    NParts = 2
    NoLeader = NoLeader
    MaxEnv = 1
    ReplicaNum = 2
    Creates = TRUE
    Layout <- MCLayout
    Admins = {}
    Reqs = {}
    NoSpace = NoSpace
    NoAdmin = NoAdmin
    OpsPerAdmin = 0
    Job = "change"
    FailNode = "n1"
    NewNode = "n3"
    NoRecord = NoRecord
    MaxFault = 1
SPECIFICATION Spec
INVARIANT TypeOK EnabledOnlyWhenRegistered
