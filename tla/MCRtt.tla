------------------------------- MODULE MCRtt -------------------------------
(* Small words and times for the model checker. *)
EXTENDS Rtt
============================================================================
