--------------------------- MODULE MCLeaderChase ---------------------------
EXTENDS LeaderChase

\* Three replicas: enough for two servers to point at each other while a
\* third is the real leader.
MCNodes == {"n1", "n2", "n3"}
=============================================================================
