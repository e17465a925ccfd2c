-------------------------- MODULE PartitionServer --------------------------
(***************************************************************************)
(* The partition servers as the master's admin RPCs see them: which        *)
(* partitions each server holds, the consensus configuration and leader of *)
(* every partition, and which servers are running.                        *)
(*                                                                         *)
(* The admin handlers of src/ps/handler_admin.go are operators over this   *)
(* state, for the caller's action to use: an RPC is atomic at the server.  *)
(* The store and consensus code behind them (server.CreatePartition,       *)
(* store.ChangeMember, the raft group) is not in the repository and is     *)
(* modelled from the description of the system: a group is formed with    *)
(* the replicas of the space the first replica is created with, it elects  *)
(* a leader among a majority of its live members, and a configuration      *)
(* change is applied by the leader.                                        *)
(***************************************************************************)
EXTENDS Naturals, FiniteSets

CONSTANTS
    Nodes,     \* partition servers
    NParts,    \* partitions of the space: ids 1..NParts
    NoLeader,  \* model value: leader id 0, no leader known
    MaxEnv     \* bound on crashes, restarts and elections

ASSUME NoLeader \notin Nodes /\ NParts \in Nat \ {0} /\ MaxEnv \in Nat

Parts == 1..NParts

VARIABLES
    up,       \* servers that are running
    hosted,   \* partitions each server holds a store of
    members,  \* the consensus configuration of each partition
    leader,   \* the leader of each partition's group
    env       \* environment steps taken

psVars == <<up, hosted, members, leader, env>>

-----------------------------------------------------------------------------
(* Handlers.  Each returns whether the RPC succeeds; the action that calls *)
(* it states the effect with the matching *Effect operator.               *)

\* CreatePartitionHandler: PARTITION_DUPLICATE when the server already
\* holds the partition, otherwise server.CreatePartition.
CreatePartitionOk(n, p) == n \in up /\ p \notin hosted[n]

\* The effect of a created replica: the store exists; the first replica of
\* a partition forms the group with the replicas of the space it was given.
CreatePartitionEffect(n, p, reps) ==
    /\ hosted' = [hosted EXCEPT ![n] = @ \cup {p}]
    /\ members' = IF members[p] = {} THEN [members EXCEPT ![p] = reps]
                                     ELSE members

\* ChangeMemberHandler: PARTITION_NOT_EXIST when the server holds no store
\* of the partition, PARTITION_NOT_LEADER (no redirect: the chain has no
\* psErrorChange) when it is not the leader.
ChangeMemberOk(n, p) == n \in up /\ p \in hosted[n] /\ leader[p] = n

\* A store bug: a removal is not applied to the configuration.
ChangeMemberEffectNoRemove(p, node, method) ==
    /\ members' = [members EXCEPT ![p] = IF method = "add" THEN @ \cup {node}
                                                            ELSE @]
    /\ leader' = leader

\* store.ChangeMember at the leader; a removed leader steps down.
ChangeMemberEffect(p, node, method) ==
    /\ members' = [members EXCEPT ![p] = IF method = "add" THEN @ \cup {node}
                                                            ELSE @ \ {node}]
    /\ leader' = IF method = "remove" /\ leader[p] = node
                 THEN [leader EXCEPT ![p] = NoLeader] ELSE leader

\* UpdatePartitionHandler: PARTITION_NOT_EXIST when the server holds no
\* store of the partition, otherwise store.UpdateSpace (whose own errors
\* come from the engine and are not modelled).  The new space is data.
UpdatePartitionOk(n, p) == n \in up /\ p \in hosted[n]

\* client.IsLive: the IsLive RPC, whose handler always answers SUCCESS,
\* fails only when the server cannot be reached.
IsLive(n) == n \in up

\* DeleteReplicaHandler: server.DeleteReplica drops the store, always SUCCESS.
DeleteReplicaEffect(n, p) ==
    hosted' = [hosted EXCEPT ![n] = @ \ {p}]

-----------------------------------------------------------------------------
(* Environment.                                                            *)

\* Members of p's group that are running and hold its store.
Voters(p) == {m \in members[p] : m \in up /\ p \in hosted[m]}

\* A live member of p's group becomes leader with the votes of a majority.
\* A group without a leader always elects one when it can; replacing a
\* leader that is still there is an environment step.
ElectLeader(p, n) ==
    /\ n \in Voters(p)
    /\ leader[p] # n
    /\ 2 * Cardinality(Voters(p)) > Cardinality(members[p])
    /\ leader[p] # NoLeader => env < MaxEnv
    /\ leader' = [leader EXCEPT ![p] = n]
    /\ env' = IF leader[p] = NoLeader THEN env ELSE env + 1
    /\ UNCHANGED <<up, hosted, members>>

\* A server stops; the groups it led have no leader.
Crash(n) ==
    /\ env < MaxEnv
    /\ n \in up
    /\ up' = up \ {n}
    /\ leader' = [p \in Parts |-> IF leader[p] = n THEN NoLeader ELSE leader[p]]
    /\ env' = env + 1
    /\ UNCHANGED <<hosted, members>>

\* A server starts again with the stores it had.
Restart(n) ==
    /\ env < MaxEnv
    /\ n \notin up
    /\ up' = up \cup {n}
    /\ env' = env + 1
    /\ UNCHANGED <<hosted, members, leader>>

PSTypeOK ==
    /\ up \subseteq Nodes
    /\ hosted \in [Nodes -> SUBSET Parts]
    /\ members \in [Parts -> SUBSET Nodes]
    /\ leader \in [Parts -> Nodes \cup {NoLeader}]
    /\ env \in 0..MaxEnv
=============================================================================
