------------------------------ MODULE MCStation ------------------------------
(* Small instances of Station for TLC. *)
EXTENDS Station
=============================================================================
