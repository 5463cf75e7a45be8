--------------------------- MODULE MCActorControl ---------------------------
(* Instances of ActorControl for TLC. *)
EXTENDS ActorControl

\* An agent's declaration and a peer's.
MCOrigin == [d \in Decl |-> IF d = "agent" THEN 1 ELSE 3]
=============================================================================
