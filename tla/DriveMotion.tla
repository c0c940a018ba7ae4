----------------------------- MODULE DriveMotion -----------------------------
(***************************************************************************)
(* What the drive promises to the valve and to the mains, whatever the     *)
(* tasks do to each other: two thyristor groups that never follow one      *)
(* another without a pause, and a braking current only at standstill.      *)
(***************************************************************************)
VARIABLES
  motion,   \* the movement in progress, or "idle"
  gates     \* what the thyristors are driven for

vars == << motion, gates >>

Motions == {"idle", "closing", "opening"}
Groups  == {"up", "down"}

TypeOK == motion \in Motions /\ gates \in Groups \cup {"none", "brake"}

Init == motion = "idle" /\ gates = "none"

(* A movement starts from rest, with every thyristor closed. *)
Start == /\ motion = "idle" /\ gates = "none"
         /\ motion' \in {"closing", "opening"}
         /\ UNCHANGED gates

(* Its group is chosen once and kept to the end of the movement. *)
Energise == /\ motion # "idle" /\ gates = "none"
            /\ gates' \in Groups
            /\ UNCHANGED motion

(* A movement ends before its gates do, or with them. *)
Stop == /\ motion # "idle" /\ motion' = "idle"
        /\ gates' \in {gates, "none"}

SwitchOff == /\ motion = "idle" /\ gates' = "none"
             /\ UNCHANGED motion

(* Braking current flows only after the gates have been closed. *)
Brake == /\ motion = "idle" /\ gates = "none"
         /\ gates' = "brake"
         /\ UNCHANGED motion

Next == Start \/ Energise \/ Stop \/ SwitchOff \/ Brake

Spec == Init /\ [][Next]_vars
=============================================================================
