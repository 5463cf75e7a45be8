----------------------------- MODULE MCClosure -----------------------------
(***************************************************************************)
(* The closure of requests a member makes of another one.                  *)
(***************************************************************************)
EXTENDS Closure
=============================================================================
