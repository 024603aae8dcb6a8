--------------------------- MODULE MCMessageOutbox ---------------------------
(* Small instances of MessageOutbox for TLC. *)
EXTENDS MessageOutbox, TLC

Symmetry == Permutations(Messages)
=============================================================================
