CONSTANTS
    Nodes <- MCNodes
    NParts = 2
    NoLeader = NoLeader
    MaxEnv = 0
    ReplicaNum = 2
    Creates = FALSE
    Layout <- MCFailLayout
    Admins = {a1}
    Reqs = {}
    NoSpace = NoSpace
    NoAdmin = NoAdmin
    OpsPerAdmin = 3
    Job = "remove"
    FailNode = "n1"
    NewNode = "n3"
    NoRecord = NoRecord
    MaxFault = 2
SPECIFICATION Spec
INVARIANT RerunSucceeds LoopComplete
