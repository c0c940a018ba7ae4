----------------------------- MODULE MCPositioning -----------------------------
(***************************************************************************)
(* Instances of Positioning for TLC: everything is given by the cfg.       *)
(***************************************************************************)
EXTENDS Positioning
================================================================================
