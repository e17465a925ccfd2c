--------------------------- MODULE MCCatalogUpdate ---------------------------
(* The catalog's requests and the HTTP updateSpace, for checking           *)
(* CatalogUpdate with TLC.                                                 *)
EXTENDS CatalogUpdate, TLC

\* One db and one space name; besides the catalog's requests, an
\* updateSpace whose body leaves enabled as it is.
MCOpsUpdate ==
    {[kind |-> "createDB", db |-> "d1", ps |-> {}],
     [kind |-> "deleteDB", db |-> "d1"],
     [kind |-> "createSpace", db |-> "d1", sp |-> "s1"],
     [kind |-> "deleteSpace", db |-> "d1", sp |-> "s1"],
     [kind |-> "updateSpace", db |-> "d1", sp |-> "s1", enabled |-> "unset"]}

\* The handlers are interchangeable.
MCSymmetryU == Permutations(Clients)
=============================================================================
