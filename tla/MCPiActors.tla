----------------------------- MODULE MCPiActors -----------------------------
(* The Pi actors with two requests, two attempts of a model call. *)
EXTENDS PiActors

MCCall == Req \X (1 .. MaxRetries + 1)
MCMaxEvent == [k \in Kinds |-> IF k = "idle" THEN 2 ELSE 1]
=============================================================================
