------------------------------ MODULE MCBurDrive ------------------------------
(***************************************************************************)
(* BurDrive for TLC: the inputs a run draws from.                          *)
(***************************************************************************)
EXTENDS DriveInvariant

MCNoTu        == {{}}
MCRelayTu     == {{}, {"open"}, {"close"}}
MCAllTu       == {{}, {"open"}, {"close"}, {"open", "close"}, {"stop"}}
MCPhases      == {-1, 1}
MCForward     == {1}
MCAnyPhase    == {-1, 0, 1}
=============================================================================
