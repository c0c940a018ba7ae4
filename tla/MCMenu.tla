-------------------------------- MODULE MCMenu --------------------------------
(* Instances of Menu for TLC: the two codes, a protected and a read-only    *)
(* parameter.                                                               *)
EXTENDS Menu
MCParams == {"code", "fcode", "locked", "shown"}
MCPaswwPrt == [p \in MCParams |-> IF p = "locked" THEN 2 ELSE 0]
MCListOf == [s \in {0, 2, 5, 7, 10, 11} \cup (28..34) |-> IF s = 2 THEN <<"locked", "locked">> ELSE <<"locked">>]
===============================================================================
