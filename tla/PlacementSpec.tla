---------------------------- MODULE PlacementSpec ----------------------------
(***************************************************************************)
(* What createSpaceService promises of the replicas it stores, without the *)
(* walk that picks them: a space is stored whole, with partition_num       *)
(* partitions of replica_num distinct candidate servers each, and a create *)
(* that is abandoned leaves nothing behind.  The candidates are the        *)
(* servers of the db's allow-list when it has one, else the servers that   *)
(* did not register as private.  The state is the number of replicas each  *)
(* server holds in the stored spaces, held.                                 *)
(***************************************************************************)
EXTENDS Naturals, FiniteSets

CONSTANTS Nodes, Private, AllowList, MaxPartitions

VARIABLE held   \* replicas each server holds in the stored spaces

Candidates ==
    IF AllowList = {} THEN Nodes \ Private ELSE Nodes \cap AllowList

\* The replica sets a partition of replica_num r may have.
ReplicaSets(r) == {S \in SUBSET Candidates : Cardinality(S) = r}

\* A space of pn partitions with replica sets reps is stored at once.
AddSpace ==
    \E pn \in 1..MaxPartitions, r \in 1..Cardinality(Candidates) :
       \E reps \in [1..pn -> ReplicaSets(r)] :
          held' = [s \in Nodes |-> held[s] + Cardinality({i \in 1..pn : s \in reps[i]})]

Spec == held = [s \in Nodes |-> 0] /\ [][AddSpace]_held

=============================================================================
