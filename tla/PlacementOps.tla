---------------------------- MODULE PlacementOps ----------------------------
(***************************************************************************)
(* The replica placement algorithm of createSpaceService                   *)
(* (src/master/cluster_service.go) as constant operators: the candidate    *)
(* servers and their replica counts (filterAndSortServer), and the walk of *)
(* generatePartitionsInfo over the servers sorted by that count.           *)
(***************************************************************************)
EXTENDS Naturals, FiniteSets, Sequences, SequencesExt

\* A filter that forgets the private flag.
EligibleServersIgnorePrivate(servers, private, allowList) ==
    IF allowList # {} THEN servers \cap allowList ELSE servers

\* filterAndSortServer: with a db allow-list (db.Ps) only the listed servers
\* are candidates, otherwise every server that is not private.
EligibleServers(servers, private, allowList) ==
    IF allowList # {} THEN servers \cap allowList ELSE servers \ private

\* filterAndSortServer: the number of replicas each candidate holds in the
\* partitions of all stored spaces (parts: partition -> replica set).
FilterAndSortServer(elig, parts) ==
    [s \in elig |-> Cardinality({p \in DOMAIN parts : s \in parts[p]})]

\* A comparator bug: kvList sorted by descending count.
KvListsDesc(count) ==
    { kv \in SetToSeqs(DOMAIN count) :
        IsSorted(kv, LAMBDA a, b : count[a] >= count[b]) }

\* The orders sort.Slice may leave kvList in: ascending by count.  The list
\* is built by ranging over a Go map and sort.Slice is not stable, so
\* servers with equal counts may come in any order.
KvLists(count) ==
    { kv \in SetToSeqs(DOMAIN count) :
        IsSorted(kv, LAMBDA a, b : count[a] <= count[b]) }

\* The loop of generatePartitionsInfo over kvList: a server that fails
\* IsLive is skipped without using up a replica; the loop stops once
\* replicaNum servers have been chosen.
RECURSIVE Walk(_, _, _, _)
Walk(kv, live, need, chosen) ==
    IF kv = <<>> \/ need = 0 THEN chosen
    ELSE IF Head(kv) \in live
         THEN Walk(Tail(kv), live, need - 1, Append(chosen, Head(kv)))
         ELSE Walk(Tail(kv), live, need, chosen)

\* generatePartitionsInfo: the chosen replicas, or <<>> when fewer than
\* replicaNum servers answered (MASTER_PS_NOT_ENOUGH_SELECT).
GeneratePartitionsInfo(count, kv, live, r) ==
    LET chosen == Walk(kv, live, r, <<>>)
    IN  IF Len(chosen) < r THEN <<>> ELSE chosen

\* A missing update: the count map is left as it was.
BumpNone(count, chosen) == count

\* A sign bug: the chosen servers' counts go down.
BumpDown(count, chosen) ==
    [s \in DOMAIN count |-> IF s \in ToSet(chosen) THEN count[s] - 1
                                                    ELSE count[s]]

\* The count map after a partition was placed on the chosen servers.
Bump(count, chosen) ==
    [s \in DOMAIN count |-> IF s \in ToSet(chosen) THEN count[s] + 1
                                                    ELSE count[s]]

\* Reference definition: r distinct live candidates, none of which holds
\* more replicas than a live candidate left out.
LeastLoaded(count, live, r, S) ==
    /\ S \subseteq live \cap DOMAIN count
    /\ Cardinality(S) = r
    /\ \A a \in S, b \in (live \cap DOMAIN count) \ S : count[a] <= count[b]
=============================================================================
