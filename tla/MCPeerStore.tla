---------------------------- MODULE MCPeerStore -----------------------------
(* PeerStore with one node announced in the network graph, at its first address. *)
EXTENDS PeerStore

CONSTANTS n1, a1

AnnouncedOne == [n \in Nodes |-> IF n = n1 THEN a1 ELSE None]
=============================================================================
