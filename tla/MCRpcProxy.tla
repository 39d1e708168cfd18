----------------------------- MODULE MCRpcProxy -----------------------------
\* Instances of RpcProxy for TLC.
EXTENDS RpcProxy
=============================================================================
