-------------------------- MODULE MCEngineScheduler --------------------------
(* Two retry kinds, in the order in which next_retry_deadline lists them.   *)
EXTENDS EngineScheduler

MCRetryOrder == <<"ReadReceipt", "RelationshipRemoval">>
=============================================================================
