------------------------------ MODULE MenuModes ------------------------------
(***************************************************************************)
(* The modes of the menu (MENU_Update, src/src/core/menu2x.c) without its  *)
(* data: which mode a key leads to, where the parameter, the access code   *)
(* or the memory decides, is left open.  Panel runs the keys against these *)
(* modes; Menu has the data, and the run "menu" shows that it implements   *)
(* them.                                                                   *)
(***************************************************************************)
VARIABLES
  State, Key, Asleep,      \* MENU
  Enable                   \* MENU.Express.Enable: the wizard is offered

modes == <<State, Key, Asleep, Enable>>
MenuStates == {"start", "type", "group", "param", "edit", "express"}
KeyNames == {"none", "open", "close", "stop", "up", "right", "enter", "escape"}

ModesType ==
  /\ State \in MenuStates /\ Key \in KeyNames
  /\ Asleep \in BOOLEAN /\ Enable \in BOOLEAN

ModesInit ==
  /\ State = "start" /\ Key = "none" /\ Asleep = FALSE /\ Enable \in BOOLEAN

StartState(k) ==
  State' = IF Enable THEN "express" ELSE IF k = "enter" THEN "group" ELSE "start"

SelectGroup(k) ==
  State' \in CASE k = "escape" -> {"group", "start"}
               [] k = "enter"  -> {"group", "param"}
               [] OTHER        -> {"group"}

(* A code half entered takes the selection back to the editing by itself. *)
SelectParam(k) ==
  State' \in IF k = "escape" THEN {"group"} ELSE {"param", "edit"}

EditParam(k) ==
  State' \in CASE k = "escape" -> {"param"}
               [] k = "enter"  -> {"edit", "param"}
               [] OTHER        -> {"edit"}

(* The wizard may be left by a key, or by itself when a write has ended. *)
ExpressState(k) ==
  IF Enable THEN IF k = "enter" THEN Enable' = FALSE /\ State' \in {"express", "start"}
                 ELSE UNCHANGED <<Enable, State>>
  ELSE State' \in {"express", "start"} /\ UNCHANGED Enable

Awake(k) ==
  \/ State = "start" /\ StartState(k) /\ UNCHANGED Enable
  \/ State = "group" /\ SelectGroup(k) /\ UNCHANGED Enable
  \/ State = "param" /\ SelectParam(k) /\ UNCHANGED Enable
  \/ State = "edit" /\ EditParam(k) /\ UNCHANGED Enable
  \/ State = "express" /\ ExpressState(k)
  \/ State = "type" /\ UNCHANGED <<State, Enable>>

(* A written code brings a message. *)
MayNotify == ~Asleep /\ State = "edit" /\ Key = "enter"

(* A key wakes the menu and takes it to the start; while an entry of the   *)
(* journal is read nothing happens.                                        *)
ModesUpdate(mayFallAsleep) ==
  /\ Key' = "none"
  /\ \/ /\ Key = "none" /\ (Asleep \/ mayFallAsleep)
        /\ Asleep' = TRUE /\ UNCHANGED <<State, Enable>>
     \/ /\ Asleep /\ Key # "none" /\ Asleep' = FALSE
        /\ State' \in {"start", IF Enable THEN "express" ELSE "start"}
        /\ UNCHANGED Enable
     \/ ~Asleep /\ Awake(Key) /\ UNCHANGED Asleep
     \/ ~Asleep /\ UNCHANGED <<State, Asleep, Enable>>

(* What comes from outside: a key, a reset of the calibration, the name of  *)
(* the drive or a lost supply on the screen.                                *)
KeyGiven == Key' \in KeyNames /\ UNCHANGED <<State, Asleep, Enable>>
WizardOffered == State # "express" /\ Enable' \in BOOLEAN /\ UNCHANGED <<State, Key, Asleep>>
Screen == State' \in {State, "start", "type"} /\ UNCHANGED <<Key, Asleep, Enable>>

ModesNext == ModesUpdate(TRUE) \/ KeyGiven \/ WizardOffered \/ Screen
ModesSpec == ModesInit /\ [][ModesNext]_modes
===============================================================================
