----------------------------- MODULE MCP2PStep ------------------------------
(* Instances of P2PStep for TLC. *)
EXTENDS P2PStep

NoDescs == <<>>
DboDescs == <<[size |-> 2, stages |-> 1], [size |-> 3, stages |-> 2]>>

=============================================================================
