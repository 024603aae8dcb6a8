---------------------------- MODULE MCRelayBroker ----------------------------
(* Small instances of RelayBroker for TLC. *)
EXTENDS RelayBroker, TLC

Symmetry == Permutations(Connections) \cup Permutations(Handles) \cup Permutations(Pairings)
=============================================================================
