---------------------------- MODULE MCBoardInputs ----------------------------
(* The instance of BoardInputs for TLC.  Its period and its frame are      *)
(* shorter than the firmware's; an exchange is still shorter than the      *)
(* period and has no divisor in common with it.                            *)
EXTENDS BoardInputs
MCContacts == {"mu", "du"}
===============================================================================
