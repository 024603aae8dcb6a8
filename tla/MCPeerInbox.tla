----------------------------- MODULE MCPeerInbox -----------------------------
(* Small instances of PeerInbox for TLC. *)
EXTENDS PeerInbox
=============================================================================
