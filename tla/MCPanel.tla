------------------------------- MODULE MCPanel -------------------------------
(* Instances of Panel for TLC. *)
EXTENDS Panel
MCRemote == {"open", "stop", "enter"}
===============================================================================
