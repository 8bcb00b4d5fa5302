------------------------------ MODULE MCPaxos ------------------------------
(* Values for the constants of Paxos that a configuration cannot write. *)
EXTENDS Paxos

\* The vector of the initial view is 1, 2, 3, ...: nodes joined in this order.
JoinOrder == {o \in Node \X Node : o[1] < o[2]}
=============================================================================
