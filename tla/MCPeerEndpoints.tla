--------------------------- MODULE MCPeerEndpoints ---------------------------
(* Two installations; the first was paired after one address change. *)
EXTENDS PeerEndpoints

CONSTANTS a, b

MCNodes == {a, b}
MCPairedAt == [n \in MCNodes |-> IF n = a THEN 2 ELSE 1]

=============================================================================
