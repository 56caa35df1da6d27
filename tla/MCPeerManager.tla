--------------------------- MODULE MCPeerManager ---------------------------
(* An instance of PeerManager for TLC. *)
EXTENDS PeerManager

CONSTANTS i1, i2

\* i1 ends in .0 and is the subnet of both.
MCSubnet == [i \in Ips |-> i1]
OneSeed  == <<i1>>
=============================================================================
