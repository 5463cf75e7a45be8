----------------------------- MODULE MCActorHost -----------------------------
(***************************************************************************)
(* The supervisor on small sets of actors, units and bindings.             *)
(***************************************************************************)
EXTENDS ActorHost
=============================================================================
