CONSTANTS
    Nodes <- MCNodes
    NParts = 2
    NoLeader = NoLeader
    MaxEnv = 1
    ReplicaNum = 2
    Creates = FALSE
    Layout <- MCLayout
    Admins = {a1}
    Reqs <- MCReqs
    NoSpace = NoSpace
    NoAdmin = NoAdmin
    OpsPerAdmin = 2
    Job = "change"
    FailNode = "n1"
    NewNode = "n3"
    NoRecord = NoRecord
    MaxFault = 1
SPECIFICATION Spec
INVARIANT MetaMatchesRaft MembersHosted
