---------------------------- MODULE MCPlacement ----------------------------
EXTENDS Placement

\* Four servers, one of them private, so that filterAndSortServer leaves
\* one server out and ties between equal counts occur.
MCNodes == {"n1", "n2", "n3", "n4"}
MCPrivate == {"n4"}
=============================================================================
