------------------------------ MODULE MCPairing ------------------------------
(* Instances of Pairing: two requests of one joiner, or crossed requests.  *)
EXTENDS Pairing, TLC

CONSTANTS A, B

MCEngines == {A, B}
MCPairings == {1, 2}

\* A submits B's code, up to two times.
OneWayJoiner == [p \in MCPairings |-> A]
OneWayOwner == [p \in MCPairings |-> B]

\* Each submits the other's code.
CrossedJoiner == (1 :> A) @@ (2 :> B)
CrossedOwner == (1 :> B) @@ (2 :> A)
=============================================================================
