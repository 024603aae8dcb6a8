--------------------------- MODULE MCRelationship ---------------------------
(* Two removals by the user, one notice in each of two groups: the first is  *)
(* far ahead of the local epochs, the second carries none.                   *)
EXTENDS Relationship

MCNoticeGroup == [n \in Notices |-> IF n = "n1" THEN 1 ELSE 2]
MCNoticeEpoch == [n \in Notices |-> IF n = "n1" THEN 4 ELSE 0]
=============================================================================
