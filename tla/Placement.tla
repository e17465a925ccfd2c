------------------------------ MODULE Placement ------------------------------
(***************************************************************************)
(* Replica placement of the master's createSpaceService                    *)
(* (src/master/cluster_service.go): filterAndSortServer counts, for every  *)
(* eligible server, the replicas it already holds across all spaces, and   *)
(* generatePartitionsInfo walks the servers in ascending order of that     *)
(* count, skips those whose IsLive probe fails, takes the first replicaNum *)
(* and bumps their count before the next partition is placed.              *)
(*                                                                         *)
(* The stored spaces are abstracted to the number of replicas each server  *)
(* holds, which is all filterAndSortServer reads of them; the algorithm    *)
(* itself is in PlacementOps.                                              *)
(***************************************************************************)
EXTENDS Naturals, FiniteSets, Sequences, SequencesExt, PlacementOps

CONSTANTS
    Nodes,          \* registered partition servers (Server.ID)
    Private,        \* servers registered with private = true
    AllowList,      \* db.Ps of the space's db; {} when the db has none
    MaxPartitions,  \* largest partition_num a create request carries
    MaxSpaces       \* number of createSpace calls explored

ASSUME Private \subseteq Nodes /\ AllowList \subseteq Nodes
ASSUME MaxPartitions \in Nat \ {0} /\ MaxSpaces \in Nat

VARIABLES
    load,       \* replicas each server holds in the stored spaces
    up,         \* servers that currently answer the IsLive probe
    serverPartitions, \* the count map of the createSpace in progress
    todo,       \* partitions of the current space still to place
    replicaNum, \* replica_num of the current space (0: no create running)
    placed,     \* replica sets chosen so far for the current space
    created,    \* createSpace calls started so far
    allAnswered, \* every candidate answered IsLive in the last placement
    queried     \* QuerySpacesByKey succeeded for the create in progress

vars == <<load, up, serverPartitions, todo, replicaNum, placed, created,
          allAnswered, queried>>

\* The candidate servers of the space's db.
Eligible == EligibleServers(Nodes, Private, AllowList)

-----------------------------------------------------------------------------
(* The createSpace calls.                                                  *)

Init ==
    /\ load = [s \in Nodes |-> 0]
    /\ up = Nodes
    /\ serverPartitions = [s \in {} |-> 0]
    /\ todo = 0
    /\ replicaNum = 0
    /\ placed = <<>>
    /\ created = 0
    /\ allAnswered = TRUE
    /\ queried = TRUE

\* createSpaceService up to the placement: filterAndSortServer, then the
\* check that there are at least replicaNum candidate servers.  The error
\* of QuerySpacesByKey is not checked: when the query fails, spaces is nil
\* and every candidate is counted with 0 replicas.
StartCreateSpace ==
    /\ replicaNum = 0
    /\ created < MaxSpaces
    /\ \E pn \in 1..MaxPartitions, r \in 1..Cardinality(Nodes) :
         IF r > Cardinality(Eligible)
         THEN UNCHANGED <<serverPartitions, todo, replicaNum, placed, queried>>
         ELSE /\ \E ok \in BOOLEAN :
                   /\ queried' = ok
                   /\ serverPartitions' = [s \in Eligible |-> IF ok THEN load[s] ELSE 0]
              /\ todo' = pn
              /\ replicaNum' = r
              /\ placed' = <<>>
    /\ created' = created + 1
    /\ UNCHANGED <<load, up, allAnswered>>

\* One call of generatePartitionsInfo.  IsLive is an RPC per server, so the
\* servers that answer are some of those that are up.  On
\* MASTER_PS_NOT_ENOUGH_SELECT the space is abandoned and nothing of it
\* is kept.
PlacePartition ==
    /\ replicaNum > 0
    /\ todo > 0
    /\ \E kv \in KvLists(serverPartitions), live \in SUBSET up :
         LET chosen == GeneratePartitionsInfo(serverPartitions, kv, live, replicaNum)
         IN  /\ allAnswered' = (Eligible \subseteq live)
             /\ IF chosen = <<>>
                THEN /\ replicaNum' = 0
                     /\ todo' = 0
                     /\ UNCHANGED <<serverPartitions, placed>>
                ELSE /\ serverPartitions' = Bump(serverPartitions, chosen)
                     /\ placed' = Append(placed, ToSet(chosen))
                     /\ todo' = todo - 1
                     /\ UNCHANGED replicaNum
    /\ UNCHANGED <<load, up, created, queried>>

\* Every partition was placed: the space is stored with its replicas.
StoreSpace ==
    /\ replicaNum > 0
    /\ todo = 0
    /\ load' = [s \in Nodes |->
                  load[s] + Cardinality({i \in 1..Len(placed) : s \in placed[i]})]
    /\ replicaNum' = 0
    /\ placed' = <<>>
    /\ UNCHANGED <<up, serverPartitions, todo, created, allAnswered, queried>>

\* A partition server stops or starts answering.
Crash(s) ==
    /\ s \in up
    /\ up' = up \ {s}
    /\ UNCHANGED <<load, serverPartitions, todo, replicaNum, placed, created, allAnswered, queried>>

Restart(s) ==
    /\ s \notin up
    /\ up' = up \cup {s}
    /\ UNCHANGED <<load, serverPartitions, todo, replicaNum, placed, created, allAnswered, queried>>

Next ==
    \/ StartCreateSpace
    \/ PlacePartition
    \/ StoreSpace
    \/ \E s \in Nodes : Crash(s) \/ Restart(s)

Spec == Init /\ [][Next]_vars

-----------------------------------------------------------------------------
(* Properties.                                                             *)

TypeOK ==
    /\ load \in [Nodes -> Nat]
    /\ up \subseteq Nodes
    /\ serverPartitions \in [DOMAIN serverPartitions -> Nat]
    /\ DOMAIN serverPartitions \subseteq Nodes
    /\ todo \in 0..MaxPartitions
    /\ queried \in BOOLEAN
    /\ replicaNum \in 0..Cardinality(Nodes)
    /\ placed \in Seq(SUBSET Nodes)
    /\ created \in 0..MaxSpaces
    /\ allAnswered \in BOOLEAN

\* The replicas generatePartitionsInfo picks for a partition, for every
\* order sort.Slice may produce and every set of servers answering IsLive,
\* are replicaNum distinct live candidates that are least loaded.
PickIsLeastLoaded ==
    \A kv \in KvLists(serverPartitions), live \in SUBSET up :
        LET chosen == GeneratePartitionsInfo(serverPartitions, kv, live, replicaNum)
        IN  replicaNum > 0 =>
              \/ /\ chosen = <<>>
                 /\ Cardinality(live \cap Eligible) < replicaNum
              \/ /\ Len(chosen) = Cardinality(ToSet(chosen))
                 /\ LeastLoaded(serverPartitions, live, replicaNum, ToSet(chosen))

\* Spread of the replica counts over the candidate servers.
Spread(count) ==
    LET vals == {count[s] : s \in DOMAIN count}
    IN  IF vals = {} THEN 0
        ELSE (CHOOSE x \in vals : \A y \in vals : x >= y)
             - (CHOOSE x \in vals : \A y \in vals : x <= y)

\* Replicas each candidate holds: the stored spaces and the partitions of
\* the current space placed so far.
Holding ==
    [s \in Eligible |-> load[s] + Cardinality({i \in 1..Len(placed) : s \in placed[i]})]

\* Placement balance: when QuerySpacesByKey succeeded and every candidate
\* answers IsLive, placing a partition never widens the spread of the
\* replicas the candidate servers hold beyond the larger of 1 and the
\* spread before it.  It rests on the count map starting from the stored
\* replicas, being bumped after every partition, and on the ascending
\* sort.  Without the first premise it fails: the unchecked error of
\* QuerySpacesByKey (cluster_service.go:499) counts every server with 0.
PlacementBalanced ==
    [][ (PlacePartition /\ queried /\ allAnswered' /\ replicaNum' > 0) =>
          Spread(Holding') <= IF Spread(Holding) > 1 THEN Spread(Holding) ELSE 1
      ]_vars

\* The refinement mapping: the replicas held in PlacementSpec are the load
\* of the stored spaces; a space in progress is not yet held.
Abstract == INSTANCE PlacementSpec WITH held <- load

\* Refinement: the stored replicas grow only by whole spaces whose every
\* partition has replicaNum distinct candidate servers, as PlacementSpec
\* promises.  It rests on StoreSpace running only after every partition of
\* the space was placed, on generatePartitionsInfo never choosing a server
\* twice, and on filterAndSortServer leaving out private servers.
PlacementRefines == Abstract!Spec

=============================================================================
