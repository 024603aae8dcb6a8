---------------------------- MODULE MCPeerSession ----------------------------
(* The ciphertexts of the instances: a message and the receipt encrypted    *)
(* after it, and the message alone.                                         *)
EXTENDS PeerSession

MCOutbox == <<"m1", "r2">>
MCMessage == <<"m1">>
=============================================================================
