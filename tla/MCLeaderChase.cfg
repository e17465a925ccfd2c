CONSTANTS
    Nodes <- MCNodes
    NoLeader = NoLeader
    AdaptRetry = 3
    Handler = "UpdatePartition"
    MaxEnv = 4
SPECIFICATION Spec
INVARIANT TypeOK
INVARIANT ExecuteConverges
INVARIANT CallerOkOnlyIfServed
