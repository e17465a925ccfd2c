------------------------------ MODULE MCMaster ------------------------------
(* Model values and small layouts for checking Master with TLC.            *)
EXTENDS Master

MCNodes == {"n1", "n2", "n3"}

\* An existing space of two partitions with two replicas each.
MCLayout == [p \in 1..2 |-> IF p = 1 THEN {"n1", "n2"} ELSE {"n2", "n3"}]

\* ChangeMember requests on partition 1: add n3, remove n1.
MCReqs == {[p |-> 1, n |-> "n3", m |-> "add"], [p |-> 1, n |-> "n1", m |-> "remove"]}

\* An existing space whose two partitions both have a replica on n1, the
\* server that fails; n3 holds none.
MCFailLayout == [p \in 1..2 |-> {"n1", "n2"}]
=============================================================================
