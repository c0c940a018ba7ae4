----------------------------- MODULE MCInfoModule -----------------------------
(* Values of InfoModule for TLC. *)
EXTENDS InfoModule

MCRequests == {<<3, 2>>, <<5, 1, 0, 2>>, <<5, 2, 0, 2>>}
MCNoCarrier == <<78, 79, 67>>
===============================================================================
