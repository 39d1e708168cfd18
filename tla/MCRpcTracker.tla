---------------------------- MODULE MCRpcTracker ----------------------------
\* Instances of RpcTracker for TLC: one or two servers and two clients.
EXTENDS RpcTracker

CONSTANTS s1, s2, c1, c2

\* The priorities of the requests.
Equal == [c \in Clients |-> 1]
FirstIsUrgent == [c \in Clients |-> IF c = c1 THEN 2 ELSE 1]
=============================================================================
