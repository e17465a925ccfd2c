------------------------------ MODULE MCCatalog ------------------------------
(* Requests and symmetry for checking Catalog with TLC.                    *)
EXTENDS Catalog, TLC

\* One db, one space name, one allow-list address: every request of every
\* kind on them; a db is created with an empty allow-list, with the
\* address of a registered server, or with an unknown address.
MCOps ==
    {[kind |-> "createDB", db |-> "d1", ps |-> {}],
     [kind |-> "createDB", db |-> "d1", ps |-> {"ip1"}],
     [kind |-> "createDB", db |-> "d1", ps |-> {"ip2"}],
     [kind |-> "deleteDB", db |-> "d1"],
     [kind |-> "updateIp", db |-> "d1", ip |-> "ip1", m |-> "add"],
     [kind |-> "updateIp", db |-> "d1", ip |-> "ip1", m |-> "remove"],
     [kind |-> "createSpace", db |-> "d1", sp |-> "s1"],
     [kind |-> "deleteSpace", db |-> "d1", sp |-> "s1"]}

\* The handlers are interchangeable.
MCSymmetry == Permutations(Clients)
=============================================================================
