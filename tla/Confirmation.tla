----------------------------- MODULE Confirmation -----------------------------
(***************************************************************************)
(* What the confirmation of remote-control commands promises                *)
(* (ctrlNeedConfirm): a movement is granted only when it was asked for,     *)
(* nothing took its place, and ENTER followed while it was still awaited.   *)
(***************************************************************************)
CONSTANT Moves                  \* the movement keys
VARIABLES
  pressed,                      \* the key received and not yet taken
  asked,                        \* the movement waiting for its confirmation
  granted                       \* the movement handed to the drive

vars == <<pressed, asked, granted>>

Init == pressed = "none" /\ asked = "none" /\ granted = "none"

Press == pressed' # "none" /\ UNCHANGED <<asked, granted>>

Ask ==
  /\ pressed \in Moves /\ asked = "none"
  /\ asked' = pressed /\ pressed' = "none" /\ granted' = "none"

Grant ==
  /\ pressed = "enter" /\ asked # "none"
  /\ granted' = asked /\ asked' = "none" /\ pressed' = "none"

Forget ==
  /\ asked' \in {asked, "none"} /\ granted' \in {granted, "none"}
  /\ pressed' \in {pressed, "none"}

Next == Press \/ Ask \/ Grant \/ Forget
Spec == Init /\ [][Next]_vars
===============================================================================
