CONSTANTS
    Nodes <- MCNodes
    NParts = 2
    NoLeader = NoLeader
    MaxEnv = 0
    ReplicaNum = 2
    Creates = FALSE
    Layout <- MCFailLayout
    Admins = {a1}
    Reqs = {}
    NoSpace = NoSpace
    NoAdmin = NoAdmin
    OpsPerAdmin = 2
    Job = "recover"
    FailNode = "n1"
    NewNode = "n3"
    NoRecord = NoRecord
    MaxFault = 1
SPECIFICATION Spec
INVARIANT RerunSucceeds
