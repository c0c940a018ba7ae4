---------------------------- MODULE MCDriveService ----------------------------
(***************************************************************************)
(* DriveService for TLC: the inputs a run draws from.                      *)
(***************************************************************************)
EXTENDS DriveService

MCNoTu    == {{}}
MCPhases  == {-1, 1}
MCForward == {1}
=============================================================================
