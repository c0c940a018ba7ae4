-------------------------------- MODULE Menu --------------------------------
(***************************************************************************)
(* The menu of the local panel (src/src/core/menu2x.c) with the functions  *)
(* interface.c gives it: the access codes, the writing of a parameter and  *)
(* the express set-up wizard.  MENU_Update takes one key in every round of *)
(* the 10 Hz list, MENU_Display follows it in the same round; Panel brings *)
(* the keys and owns the schedule.                                         *)
(*                                                                         *)
(* A parameter is its description (read only, password, memory).  Of a     *)
(* value the menu only asks whether a typed code is 0, the password, the    *)
(* default code or the one typed before, which is left open; an access code *)
(* and a half-entered one are TRUE when they are not 0.  Left out: what is  *)
(* drawn, the digit editors, which stay in the range, the blinking, the     *)
(* name of the drive at start and the messages (both in Panel).             *)
(***************************************************************************)
EXTENDS Naturals, Sequences

CONSTANTS
  Params, CodeParam, FactParam,  \* the parameters, REG_CODE and REG_FCODE
  ReadOnly, InMemory,            \* M_SHOW and Memory of their descriptions
  PaswwPrt,                      \* the password that protects each: 0, 1, 2
  ListOf,                        \* the parameters of each wizard step that has a list
  Klin                           \* GrB->ValveType = vtKlin

MenuStates == {"start", "group", "param", "edit", "express"}
Keys == {"up", "right", "enter", "escape"}
Steps == 0..35                   \* 35: any value the wizard has no case for
ListSteps == DOMAIN ListOf
MoveSteps == {15, 16, 19, 21, 22, 25}
ChoiceSteps == {1, 3, 4, 6, 8, 9, 12, 17, 23, 26, 27}
StartsAtNo == {17}               \* steps whose choice starts at "no"
OneChoice == {1, 4, 6, 8, 27}    \* steps that offer "yes" only

ASSUME MenuAssumption ==
  /\ {CodeParam, FactParam} \subseteq Params \ ReadOnly /\ CodeParam # FactParam
  /\ ReadOnly \subseteq Params /\ InMemory \subseteq Params
  /\ PaswwPrt \in [Params -> 0..2] /\ PaswwPrt[CodeParam] = 0 /\ PaswwPrt[FactParam] = 0
  /\ ListSteps = {0, 2, 5, 7, 10, 11} \cup (28..34)
  /\ \A s \in ListSteps : ListOf[s] \in Seq(Params) /\ ListOf[s] # <<>>
  /\ Klin \in BOOLEAN

VARIABLES
  turn,                                     \* "update" or "display"
  State, Key, Asleep, Update,               \* MENU
  Param, Log,                               \* the parameter, EvLogSelected and EvLogFlag
  Enable, Select, Step, Index, First,       \* MENU.Express
  ExpNextStateRdy, ExCycleCount,
  extraPassword, Password                   \* the access codes

wizard == <<Enable, Select, Step, Index, First, ExpNextStateRdy, ExCycleCount>>
place  == <<State, Param, Log>>
codes  == <<extraPassword, Password>>
vars   == <<turn, Key, Asleep, Update, place, wizard, codes>>

TypeOK ==
  /\ turn \in {"update", "display"} /\ State \in MenuStates
  /\ Key \in Keys \cup {"none"}
  /\ Param \in Params \cup {"none"} /\ Log \in {"no", "selected", "reading"}
  /\ {Asleep, Update, Enable, Select, First, ExpNextStateRdy} \subseteq BOOLEAN
  /\ Step \in Steps /\ Index \in Nat /\ ExCycleCount \in 0..1
  /\ extraPassword \in BOOLEAN /\ Password \in [1..2 -> BOOLEAN]

Init ==
  /\ turn = "update" /\ State = "start" /\ Key = "none" /\ Asleep = FALSE /\ Update = TRUE
  /\ Param = "none" /\ Log = "no"
  /\ Enable \in BOOLEAN /\ Select = FALSE /\ Step = 0 /\ Index = 0 /\ First = FALSE
  /\ ExpNextStateRdy = FALSE /\ ExCycleCount = 0
  /\ extraPassword = FALSE /\ Password \in [1..2 -> BOOLEAN]

-----------------------------------------------------------------------------
(* Access codes *)

EnableEdit(p) == PaswwPrt[p] = 0 \/ ~Password[PaswwPrt[p]]

(* UpdateCode: a code typed while the password stands opens it or resets it; *)
(* while none stands it has to be typed twice to become the password.        *)
UpdateCode(n) ==
  \/ Password[n] /\ UNCHANGED codes                                   \* wrong
  \/ Password' = [Password EXCEPT ![n] = FALSE] /\ UNCHANGED extraPassword  \* right, default, or 0
  \/ ~Password[n] /\ ~extraPassword /\ extraPassword' = TRUE /\ UNCHANGED Password
  \/ /\ ~Password[n] /\ extraPassword /\ extraPassword' = FALSE
     /\ \E same \in BOOLEAN : Password' = [Password EXCEPT ![n] = same]

(* WriteValue; memReady: what IsMemParReady() returns during the call *)
Refused(p, memReady) == (p \in InMemory \cup {CodeParam, FactParam}) /\ ~memReady

(* The code that switches the calibration of the input board on and off    *)
(* leaves the passwords alone.                                              *)
WriteValue(p) ==
  \/ p = CodeParam /\ UpdateCode(1)
  \/ p = FactParam /\ UpdateCode(2)
  \/ p # CodeParam /\ UNCHANGED codes

-----------------------------------------------------------------------------
(* The states of the menu, for the key k taken in this call *)

StartState(k) ==
  /\ Param' = "none"
  /\ IF Enable THEN State' = "express" /\ UNCHANGED <<Log, extraPassword>>
     ELSE /\ extraPassword' = FALSE
          /\ IF k = "enter" THEN State' = "group" /\ Log' = "no"
             ELSE State' = "start" /\ UNCHANGED Log

(* The group of the journal opens its entries first. *)
SelectGroup(k) ==
  /\ UNCHANGED extraPassword
  /\ \/ /\ k = "up" /\ Log' = (IF Log = "selected" THEN "reading" ELSE Log)
        /\ UNCHANGED <<State, Param>>
     \/ /\ k = "escape" /\ Log' = "no" /\ UNCHANGED Param
        /\ State' = IF Log = "no" THEN "start" ELSE "group"
     \/ k = "enter" /\ Log = "no" /\ Log' = "reading" /\ UNCHANGED <<State, Param>>
     \/ k = "enter" /\ State' = "param" /\ Param' \in Params /\ UNCHANGED Log
     \/ k \notin {"up", "escape", "enter"} /\ UNCHANGED place

MutSelectParam(k) ==
  /\ UNCHANGED <<Log, extraPassword>>
  /\ \/ k = "up" /\ State' = "param" /\ Param' \in Params
     \/ k = "escape" /\ State' = "group" /\ Param' = "none"
     \/ k = "enter" /\ UNCHANGED Param /\ State' = IF Param \notin ReadOnly THEN "edit" ELSE "param"
     \/ k \notin {"up", "escape", "enter"} /\ State' = "param" /\ UNCHANGED Param

(* A code half entered opens the editing of whatever parameter is selected. *)
SelectParam(k) ==
  LET here == IF extraPassword THEN "edit" ELSE "param" IN
  /\ UNCHANGED <<Log, extraPassword>>
  /\ \/ k = "up" /\ State' = here /\ Param' \in Params
     \/ k = "escape" /\ State' = "group" /\ Param' = "none"
     \/ /\ k = "enter" /\ UNCHANGED Param
        /\ State' = IF Param \notin ReadOnly /\ EnableEdit(Param) THEN "edit" ELSE here
     \/ k \notin {"up", "escape", "enter"} /\ State' = here /\ UNCHANGED Param

(* EditParam on parameter p; the caller chooses the state afterwards *)
EditParam(p, k, memReady) ==
  IF k = "enter" /\ ~Refused(p, memReady) THEN WriteValue(p) ELSE UNCHANGED codes

EditState(k, memReady) ==
  /\ UNCHANGED <<Param, Log>>
  /\ IF k = "escape"
     THEN State' = "param" /\ extraPassword' = FALSE /\ UNCHANGED Password
     ELSE /\ EditParam(Param, k, memReady)
          /\ State' = IF k = "enter" /\ ~Refused(Param, memReady) THEN "param" ELSE "edit"

-----------------------------------------------------------------------------
(* The wizard.  NextState is a local variable without a value of its own:  *)
(* where the code assigns none, it is whatever was left there.             *)

NextSteps(zone, moving) ==
  LET Or(found, s) == IF found THEN {s} ELSE {} IN
  LET At13 == IF zone = "closed" THEN {14} ELSE IF zone = "opened" THEN {20} ELSE Steps
      Left(s, away, end) == IF ~moving /\ zone # end THEN {away}
                            ELSE IF zone = end THEN {s} ELSE Steps
  IN CASE Step \in {0, 1, 2, 4, 5, 6, 8, 27, 29, 31, 33} -> {Step + 1}
       [] Step = 3  -> {IF Select THEN 4 ELSE 8}
       [] Step = 7  -> {12}
       [] Step = 9  -> {IF Select THEN 10 ELSE 11}
       [] Step \in {10, 11} -> {12}
       [] Step = 12 -> {IF Select THEN 13 ELSE 27}
       [] Step = 13 -> At13
       [] Step = 14 -> IF moving THEN {15} ELSE Steps
       [] Step = 15 -> Left(19, 16, "opened")
       [] Step = 16 -> {17}
       [] Step = 17 -> {IF Select THEN 18 ELSE 14}
       [] Step \in {18, 24} -> {3}
       [] Step = 19 -> {IF ExCycleCount >= 1 THEN 26 ELSE 20}
       [] Step = 20 -> IF moving THEN {21} ELSE Steps
       [] Step = 21 -> Left(25, 22, "closed")
       [] Step = 22 -> {23}
       [] Step = 23 -> {IF Select THEN 24 ELSE 20}
       [] Step = 25 -> {IF ExCycleCount >= 1 THEN 26 ELSE 14}
       [] Step = 26 -> {IF Select THEN 27 ELSE 18}
       [] Step = 28 -> {IF Klin THEN 29 ELSE 30}
       [] Step = 30 -> {IF Klin THEN 31 ELSE 32}
       [] Step = 32 -> {33}
       [] Step \in {34, 35} -> Steps

(* ... for any position and movement of the drive *)
Onward == UNION {NextSteps(zone, moving) : zone \in {"closed", "between", "opened"}, moving \in BOOLEAN}

(* The choice whether to run the wizard *)
ExpressChoice(k) ==
  /\ UNCHANGED <<codes, Param, Log, ExpNextStateRdy, ExCycleCount>>
  /\ IF k = "enter"
     THEN /\ State' = IF Select THEN "express" ELSE "start"
          /\ Step' = 0 /\ Index' = 0 /\ Update' = TRUE /\ Enable' = FALSE /\ First' = TRUE
          /\ UNCHANGED Select
     ELSE /\ Select' = (Select # (k = "right"))
          /\ UNCHANGED <<State, Step, Index, Update, Enable, First>>

(* The cycles of opening and closing, counted until the check has ended or  *)
(* the calibration is reset (CalibReset, which Panel has)                    *)
StepEffects ==
  ExCycleCount' = CASE Step \in {18, 24} -> 0
                       [] Step \in {19, 25} -> IF ExCycleCount >= 1 THEN 0 ELSE 1
                       [] OTHER -> ExCycleCount

MutAfterKey(k, next) ==
  [step  |-> IF k = "enter" /\ Step \notin ListSteps THEN next ELSE Step,
   state |-> IF Step \in ListSteps /\ k = "enter" THEN "param" ELSE "express",
   ready |-> ExpNextStateRdy \/ (Step \in ListSteps /\ k = "enter")]

(* ENTER, given or put there by the code, moves a step without a list on. *)
AfterKey(k, next) ==
  LET onward == Step \notin ListSteps /\ k = "enter"
  IN [step  |-> IF k = "escape" THEN 0
                ELSE IF onward THEN (IF Step < 34 THEN next ELSE 0) ELSE Step,
      state |-> IF k = "escape" \/ (onward /\ Step >= 34) THEN "start" ELSE "express",
      ready |-> ExpNextStateRdy \/ (Step \in ListSteps /\ k = "enter")]

(* Outside a list, and past its end, List->Buf[Index] is any address. *)
Within == Step \in ListSteps /\ Index < Len(ListOf[Step])
Edited == IF Within THEN {ListOf[Step][Index + 1]} ELSE Params
Last   == IF Within THEN {Index + 1 = Len(ListOf[Step])} ELSE BOOLEAN

(* A parameter of a list is left when the memory is free. *)
ExpressStep(k0, memReady) ==
  \E next \in Onward, p \in Edited, last \in Last :
  LET k == IF Step \in {13, 16, 18, 19, 22, 24, 25} THEN "enter" ELSE k0
      a == AfterKey(k, next)
      leave == a.ready /\ memReady
  IN /\ StepEffects
     /\ UNCHANGED <<Param, Log, Enable>>
     /\ IF next \in MoveSteps
        THEN /\ Step' = next
             /\ UNCHANGED <<State, Index, Update, First, Select, ExpNextStateRdy, codes>>
        ELSE /\ IF Step \in ListSteps
                THEN IF k = "escape"
                     THEN extraPassword' = FALSE /\ UNCHANGED Password
                     ELSE EditParam(p, k, memReady)
                ELSE UNCHANGED codes
             /\ Select' = (Select # (k = "right" /\ Step \notin ListSteps))
             /\ First' = (First \/ k = "enter")
             /\ Update' = (k \in {"enter", "escape"} \/ leave)
             /\ ExpNextStateRdy' = (a.ready /\ ~leave)
             /\ IF leave /\ last
                THEN /\ Index' = 0
                     /\ Step' = IF a.step < 34 THEN next ELSE 0
                     /\ State' = IF a.step < 34 THEN a.state ELSE "start"
                ELSE /\ Index' = (IF leave THEN Index + 1 ELSE Index)
                     /\ Step' = a.step /\ State' = a.state

ExpressState(k) ==
  IF Enable THEN ExpressChoice(k)
  ELSE IF Update THEN UNCHANGED <<place, Update, codes, wizard>>
  ELSE \E memReady \in BOOLEAN : ExpressStep(k, memReady)

-----------------------------------------------------------------------------
(* The tasks *)

Awake(k) ==
  \/ /\ State = "start" /\ StartState(k)
     /\ UNCHANGED <<Update, Password, wizard>>
  \/ /\ State = "group" /\ SelectGroup(k)
     /\ UNCHANGED <<Update, Password, wizard>>
  \/ /\ State = "param" /\ SelectParam(k)
     /\ UNCHANGED <<Update, Password, wizard>>
  \/ /\ State = "edit" /\ \E memReady \in BOOLEAN : EditState(k, memReady)
     /\ UNCHANGED <<Update, wizard>>
  \/ State = "express" /\ ExpressState(k)

MENU_Update ==
  /\ turn = "update" /\ turn' = "display"
  /\ Key' = "none"
  /\ \/ /\ Key = "none" /\ Asleep' = TRUE /\ Update' = (Update \/ ~Asleep)  \* SleepMode
        /\ UNCHANGED <<place, codes, wizard>>
     \/ /\ Asleep /\ Key # "none" /\ Asleep' = FALSE
        /\ Update' = TRUE /\ Step' = 0 /\ Index' = 0    \* of no use outside the wizard
        /\ IF Log = "reading"
           THEN State' = "start" /\ Param' = "none" /\ UNCHANGED <<Log, extraPassword>>
           ELSE StartState("none")
        /\ UNCHANGED <<Password, Enable, Select, First, ExpNextStateRdy, ExCycleCount>>
     \/ /\ ~Asleep /\ UNCHANGED Asleep
        /\ IF Log = "reading" THEN UNCHANGED <<place, Update, codes, wizard>>
           ELSE Awake(Key)

ShowExpress ==
  \/ /\ Enable \/ (~ExpNextStateRdy /\ Step \in ChoiceSteps)
     /\ \/ First /\ First' = FALSE /\ Select' = (~Enable /\ Step \notin StartsAtNo)
        \/ ~First /\ UNCHANGED First /\ Select' = (Select \/ (~Enable /\ Step \in OneChoice))
        \/ UNCHANGED <<First, Select>>          \* the brackets blink
  \/ ~Enable /\ ~ExpNextStateRdy /\ Step \in ListSteps /\ First' = FALSE /\ UNCHANGED Select
  \/ ~Enable /\ (ExpNextStateRdy \/ Step \notin ListSteps \cup ChoiceSteps) /\ UNCHANGED <<First, Select>>

MENU_Display ==
  /\ turn = "display" /\ turn' = "update"
  /\ UNCHANGED <<place, Key, Asleep, codes, Enable, Step, Index, ExpNextStateRdy, ExCycleCount>>
  /\ \/ Update' = TRUE /\ UNCHANGED <<First, Select>>    \* AddControl shows a message
     \/ Log = "reading" /\ UNCHANGED <<Update, First, Select>>
     \/ /\ Log # "reading" /\ Update' = FALSE
        /\ IF ~Asleep /\ State = "express" THEN ShowExpress ELSE UNCHANGED <<First, Select>>

(* What comes from the other tasks: a key, an entry of the journal read,    *)
(* and the resets of the calibration (ClbControl).                          *)
KeyGiven ==
  /\ turn = "update" /\ Key = "none" /\ Key' \in Keys
  /\ UNCHANGED <<turn, Asleep, Update, place, wizard, codes>>

LogRead ==
  /\ turn = "update" /\ Log = "reading" /\ Log' = "selected"
  /\ UNCHANGED <<turn, Key, Asleep, Update, State, Param, wizard, codes>>

WizardOffered ==
  /\ turn = "update" /\ State # "express" /\ Enable' = ~Enable
  /\ UNCHANGED <<turn, Key, Asleep, Update, place, codes,
                 Select, Step, Index, First, ExpNextStateRdy, ExCycleCount>>

(* Index grows past the end of a list only where the code reads a list that *)
(* is not there; the model stops it at the bound.                           *)
IndexBound == 1
Next == /\ MENU_Update \/ MENU_Display \/ KeyGiven \/ LogRead \/ WizardOffered
        /\ Index' <= IndexBound

Spec == Init /\ [][Next]_vars

-----------------------------------------------------------------------------
(* Properties *)

(* A parameter is in the editor only when it may be edited and its password *)
(* is open, through every way in and whatever codes are typed meanwhile.    *)
(* The exception is the second entry of a code, which the code half entered *)
(* leads back to: there the selection may have moved on to any parameter.   *)
EditAuthorised ==
  State = "edit" /\ ~extraPassword => Param \notin ReadOnly /\ EnableEdit(Param)

(* The data decide only which of the ways the modes of the menu leave open  *)
(* is taken: Panel, which runs the keys against the modes, loses nothing.   *)
Modes == INSTANCE MenuModes
ModesSpec == Modes!ModesSpec
===============================================================================
