-------------------------- MODULE MCCommandPipeline --------------------------
(* Instance of CommandPipeline: a repeated command, a direct command that   *)
(* reuses its identifier, and a cancellation.                               *)
EXTENDS CommandPipeline, TLC

MCIdOf == ("m1" :> "c1") @@ ("m2" :> "c1") @@ ("d1" :> "c1") @@ ("k1" :> "c2")
MCKindOf == ("m1" :> "Runtime") @@ ("m2" :> "Runtime") @@ ("d1" :> "Direct") @@ ("k1" :> "Cancel")
=============================================================================
