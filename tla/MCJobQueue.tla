---------------------------- MODULE MCJobQueue ----------------------------
(* JobQueue on a small instance, for TLC. *)
EXTENDS JobQueue
============================================================================
