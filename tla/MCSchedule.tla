----------------------------- MODULE MCSchedule -----------------------------
(* Small instances of Schedule for TLC. *)
EXTENDS Schedule

\* The timers' deadlines differ, so that either home may hold the earlier one.
Deadlines == [t \in TimerId |-> {t}]
=============================================================================
