-------------------------------- MODULE Panel --------------------------------
(***************************************************************************)
(* The local panel: the infrared receiver (src/src/peref/pult.c), the      *)
(* handle, the tasks of interface.c that turn keys into commands and       *)
(* messages, and the modes of the menu (MenuModes).  The tasks run in the  *)
(* order of the task lists (src/include/global/system.h): in a round of    *)
(* the 10 Hz list MENU_Update, AddControl and ShowDriveType once, and the  *)
(* 50 Hz tasks LocalControl, the key part of ValveDriveUpdate and          *)
(* PultTimer SLOTS times.                                                  *)
(*                                                                         *)
(* The receiver's own timers are counted in calls of PultTimer, 20 ms; the *)
(* time after a frame saturates (the code's counter wraps after 64000 keys).*)
(* What reaches this component from elsewhere - the supply, a memory being *)
(* cleared, the movement of the drive, a calibration reset - is an input   *)
(* of the task that reads it.                                              *)
(***************************************************************************)
EXTENDS MenuModes, Naturals, Sequences

CONSTANTS
  SLOTS,          \* 50 Hz periods in a round of the 10 Hz list
  PRE, POST,      \* whole 20 ms periods in PRE_FRAME_TIMEOUT and POST_FRAME_TIMEOUT
  PULT_CAP_RESET, \* calls of PultTimer that reset the capture
  CONFIRM_TOUT, CANCEL_TOUT, BLOCKED_TOUT,  \* rounds a message is shown
  EnableControlPDU, \* GrB->EnableControlPDU: "confirm", "free" or "disabled"
  SleepTime,      \* the menu may fall asleep
  Remote          \* the keys of the remote control

ASSUME PanelAssumption ==
  /\ {SLOTS, CONFIRM_TOUT, CANCEL_TOUT, BLOCKED_TOUT, PULT_CAP_RESET} \subseteq Nat \ {0}
  /\ {PRE, POST} \subseteq Nat /\ POST < PULT_CAP_RESET
  /\ EnableControlPDU \in {"confirm", "free", "disabled"} /\ SleepTime \in BOOLEAN
  /\ Remote \subseteq {"open", "close", "stop", "up", "right", "enter", "escape"}

Moves == {"open", "close"}
(* What AddControl shows, by rank; "notice" stands for the ten kinds that   *)
(* are shown for CANCEL_TOUT, one after the other.                          *)
Order == <<"notice", "blocked">>

VARIABLES
  turn, slot,                        \* the task that runs next, the 50 Hz period
  receiver, capTimer,                \* TPult: phase, CapCounter and preFrameTimer
  postTimer,                         \* postFrameTimer
  PultKey,                           \* Pult.Key
  held,                              \* BtnStatus: BTN_STOP
  BtnKey, PduKey, MpuEnable,         \* Mcu.Mpu
  WaitConfirmFlag, savedCommand, CancelTimer, messages,
  MuDu,                              \* local control
  IsDriveTypeShow, PduKeyFlag,
  \* observers
  did                                \* what ValveDriveUpdate took in this turn

menu    == <<modes, messages>>
rx      == <<receiver, capTimer, postTimer>>
mpu     == <<BtnKey, PduKey, MpuEnable>>
confirm == <<WaitConfirmFlag, savedCommand, CancelTimer>>
type    == <<IsDriveTypeShow, PduKeyFlag>>
vars    == <<menu, turn, slot, rx, PultKey, held, mpu, confirm, MuDu, type, did>>

PanelInit ==
  /\ ModesInit /\ messages = {}
  /\ turn = "menu" /\ slot = 0
  /\ receiver = "settle" /\ capTimer = 0 /\ postTimer = 0 /\ PultKey = "none"
  /\ held = FALSE /\ BtnKey = "none" /\ PduKey = "none" /\ MpuEnable = FALSE
  /\ WaitConfirmFlag = FALSE /\ savedCommand = "none" /\ CancelTimer = 0
  /\ MuDu \in BOOLEAN
  /\ IsDriveTypeShow = TRUE /\ PduKeyFlag = FALSE /\ did = "none"

-----------------------------------------------------------------------------
(* The infrared receiver.  Phases: the line settles before a frame, ready, *)
(* bits are captured, the line has to stay quiet after the 11th, complete. *)

Elsewhere == UNCHANGED <<menu, turn, slot, held, mpu, confirm, MuDu, type>>

(* What the line does is told where LocalControl is next: only PultTimer    *)
(* and the end of the frame, which come later, look at it.                  *)
Capture(phase) == receiver' = phase /\ capTimer' = 0
OnLine(phase) ==
  /\ turn = "local" /\ Capture(phase) /\ did' = "none"
  /\ UNCHANGED <<PultKey, postTimer>> /\ Elsewhere

LineSettles == receiver = "settle" /\ capTimer >= PRE /\ OnLine("ready")  \* IrDA_NoiseFilter, part 1
FrameBegins == receiver = "ready" /\ OnLine("bits")     \* PultImpulseCapture: the first edge
BitCaptured == receiver \in {"bits", "complete"} /\ OnLine(receiver)  \* an edge keeps PultTimer away
FrameCaptured == receiver = "bits" /\ OnLine("post")    \* the 11th bit, SYNC_PULSES_NUM
(* IrDA_NoiseFilter, part 2: only here the time after a frame starts anew.  *)
Noise ==
  /\ receiver \in {"post", "complete"} /\ turn = "local"
  /\ Capture("settle") /\ postTimer' = 0 /\ did' = "none"
  /\ UNCHANGED PultKey /\ Elsewhere

MutPultKeyExecute ==
  /\ turn # "menu" /\ did' = "none"
  /\ receiver = "complete" \/ (receiver = "post" /\ postTimer >= POST)
  /\ \/ receiver' = "complete" /\ UNCHANGED <<PultKey, capTimer>>
     \/ PultKey' \in Remote \cup {PultKey} /\ Capture("ready")
  /\ UNCHANGED postTimer /\ Elsewhere

(* A frame is complete once the line was quiet long enough after it, or     *)
(* after earlier ones.  One with an unknown code is taken; one without the  *)
(* start bit or with another address stays, its code shifted and open to    *)
(* further edges, until it is taken after all or PultTimer clears it.       *)
PultKeyExecute ==
  /\ turn # "menu" /\ did' = "none"
  /\ receiver = "complete" \/ (receiver = "post" /\ postTimer >= POST)
  /\ \/ receiver' = "complete" /\ UNCHANGED <<PultKey, capTimer>>
     \/ PultKey' \in Remote \cup {PultKey} /\ Capture("settle")
  /\ UNCHANGED postTimer /\ Elsewhere

PultTimer ==
  /\ postTimer' = (IF receiver = "post" /\ postTimer < POST THEN postTimer + 1 ELSE postTimer)
  /\ IF receiver = "settle" THEN capTimer' = (IF capTimer < PRE THEN capTimer + 1 ELSE capTimer) /\ UNCHANGED receiver
     ELSE IF receiver = "ready" THEN UNCHANGED <<receiver, capTimer>>
     ELSE IF capTimer + 1 >= PULT_CAP_RESET THEN Capture("ready")
     ELSE capTimer' = capTimer + 1 /\ UNCHANGED receiver

-----------------------------------------------------------------------------
(* Keys of the remote control.  savedCommand means nothing outside the wait *)
(* and is "none" then.                                                      *)

MutPduKeysControls(k) ==
  [key   |-> IF k \in Moves /\ ~WaitConfirmFlag THEN "none"
             ELSE IF WaitConfirmFlag /\ k # "stop" THEN savedCommand ELSE k,
   saved |-> IF k \in Moves /\ ~WaitConfirmFlag THEN k ELSE "none",
   wait  |-> k \in Moves /\ ~WaitConfirmFlag,
   note  |-> {}]

(* PduKeysControls: the key that is passed on *)
PduKeysControls(k) ==
  LET filter == k \in Moves /\ \/ EnableControlPDU = "disabled"
                               \/ EnableControlPDU = "confirm" /\ ~MuDu
      asking == ~filter /\ EnableControlPDU = "confirm" /\ MuDu
  IN [key   |-> IF filter \/ (asking /\ (k \in Moves \/ WaitConfirmFlag))
                THEN IF asking /\ WaitConfirmFlag /\ k = "enter" THEN savedCommand ELSE "none"
                ELSE k,
      saved |-> IF asking /\ ~WaitConfirmFlag /\ k \in Moves THEN k
                ELSE IF asking THEN "none" ELSE savedCommand,
      wait  |-> IF asking THEN ~WaitConfirmFlag /\ k \in Moves ELSE WaitConfirmFlag,
      note  |-> IF filter THEN {"notice"} ELSE {}]

(* What LocalControl leaves in Menu.Key *)
KeyForMenu(k, btn, moving) ==
  LET stopped == State = "express" /\ Enable /\ held /\ k = "none"
      taken   == IF stopped THEN "enter" ELSE k
      allowed == IF State = "param" /\ taken = "enter" /\ moving THEN "none" ELSE taken
  IN IF Asleep /\ btn # "none" THEN "escape" ELSE allowed

(* turned: what the handle was turned to since the last call *)
LocalControl == \E turned \in Moves \cup {"none"}, moving \in BOOLEAN :
  /\ turn = "local" /\ turn' = "valve"
  /\ MpuEnable' = (State # "edit")
  /\ BtnKey' = IF held /\ MuDu THEN "stop" ELSE IF turned # "none" THEN turned ELSE BtnKey
  /\ UNCHANGED held
  /\ IF PultKey = "none"
     THEN /\ Key' = KeyForMenu(Key, BtnKey', moving)
          /\ UNCHANGED <<PduKey, PduKeyFlag, confirm, messages>>
     ELSE LET c == PduKeysControls(PultKey) IN
          /\ PduKey' = c.key /\ PduKeyFlag' = IsDriveTypeShow
          /\ Key' = KeyForMenu(c.key, BtnKey', moving)
          /\ savedCommand' = c.saved /\ WaitConfirmFlag' = c.wait
          /\ messages' = messages \cup c.note /\ UNCHANGED CancelTimer
  /\ PultKey' = "none"
  /\ did' = "none"
  /\ UNCHANGED <<State, Asleep, Enable, slot, rx, MuDu, IsDriveTypeShow>>

MutMpuControl ==
  /\ turn = "valve" /\ messages' = messages
  /\ LET key == IF PduKey # "none" THEN PduKey ELSE BtnKey IN
     did' = IF MpuEnable /\ messages = {} /\ key \in Moves \cup {"stop"} THEN key ELSE "none"
  /\ IF MpuEnable THEN BtnKey' = "none" /\ PduKey' = "none" ELSE UNCHANGED <<BtnKey, PduKey>>
  /\ PultTimer
  /\ slot' = (slot + 1) % SLOTS
  /\ turn' = CASE slot = 0 /\ IsDriveTypeShow -> "type" [] slot = SLOTS - 1 -> "menu" [] OTHER -> "local"
  /\ UNCHANGED <<modes, PultKey, held, MpuEnable, confirm, MuDu, type>>

(* MpuControl in ValveDriveUpdate: a key of the remote control outweighs   *)
(* the handle; both wait while a parameter is edited.                      *)
MpuControl ==
  /\ turn = "valve"
  /\ LET key == IF PduKey # "none" THEN PduKey ELSE BtnKey
         blocked == MpuEnable /\ key \in Moves /\ ~MuDu
     IN /\ did' = IF MpuEnable /\ (key = "stop" \/ (key \in Moves /\ MuDu)) THEN key ELSE "none"
        /\ messages' = messages \cup (IF blocked THEN {"blocked"} ELSE {})
  /\ IF MpuEnable THEN BtnKey' = "none" /\ PduKey' = "none" ELSE UNCHANGED <<BtnKey, PduKey>>
  /\ PultTimer
  /\ slot' = (slot + 1) % SLOTS
  /\ turn' = CASE slot = 0 /\ IsDriveTypeShow -> "type" [] slot = SLOTS - 1 -> "menu" [] OTHER -> "local"
  /\ UNCHANGED <<modes, PultKey, held, MpuEnable, confirm, MuDu, type>>

-----------------------------------------------------------------------------
(* Messages *)

FirstShown == Order[CHOOSE i \in 1..Len(Order) : Order[i] \in messages /\ \A j \in 1..(i - 1) : Order[j] \notin messages]
Tout(m) == IF m = "blocked" THEN BLOCKED_TOUT ELSE CANCEL_TOUT

Nothing == ~WaitConfirmFlag /\ messages = {}

(* One message at a time, in a fixed order, over one timer *)
ShowMessage ==
  LET last == CancelTimer + 1 >= (IF WaitConfirmFlag THEN CONFIRM_TOUT ELSE Tout(FirstShown)) IN
  /\ CancelTimer' = IF last THEN 0 ELSE CancelTimer + 1
  /\ IF WaitConfirmFlag
     THEN /\ WaitConfirmFlag' = ~last
          /\ savedCommand' = IF last THEN "none" ELSE savedCommand
          /\ UNCHANGED messages
     ELSE /\ \/ ~last /\ UNCHANGED messages
             \/ last /\ messages' = messages \ {FirstShown}
             \/ last /\ FirstShown = "notice" /\ UNCHANGED messages   \* another one waits
          /\ UNCHANGED <<WaitConfirmFlag, savedCommand>>

BesidesScreen == UNCHANGED <<Key, Asleep, Enable, slot, rx, held, mpu, MuDu, type, did>>

(* While anything is shown a key of the remote control is dropped. *)
AddControl ==
  /\ turn = "add" /\ turn' = "local"
  /\ IF Nothing
     THEN /\ CancelTimer' = 0
          /\ UNCHANGED <<messages, WaitConfirmFlag, savedCommand, PultKey>>
     ELSE ShowMessage /\ PultKey' = "none"
  /\ UNCHANGED State /\ BesidesScreen

(* The same while the supply is off, or the journal or the parameters are   *)
(* being cleared: that is shown before anything else.                       *)
AddControlHeld ==
  /\ turn = "add" /\ turn' = "local"
  /\ State' \in {State, "start"} /\ PultKey' = "none"
  /\ UNCHANGED <<messages, confirm>> /\ BesidesScreen

-----------------------------------------------------------------------------
(* The other tasks, and what comes from outside *)

MenuTask ==
  /\ turn = "menu" /\ turn' = "add"
  /\ ModesUpdate(SleepTime)
  /\ messages' \in {messages} \cup (IF MayNotify THEN {messages \cup {"notice"}} ELSE {})
  /\ did' = "none"
  /\ UNCHANGED <<slot, rx, PultKey, held, mpu, confirm, MuDu, type>>

(* The resets of the calibration, from the wizard or a command register; a *)
(* run of this 200 Hz task without one changes nothing here.               *)
ClbControl ==
  /\ turn = "menu" /\ UNCHANGED turn
  /\ \E reset, noCalib, moving \in BOOLEAN :
       /\ messages' = messages \cup (IF reset /\ moving THEN {"notice"} ELSE {})
       /\ Enable' = (IF State = "express" THEN Enable ELSE reset \/ (noCalib /\ Enable))
  /\ UNCHANGED <<State, Key, Asleep, slot, rx, PultKey, held, mpu, confirm, MuDu, type, did>>

TypeTask ==
  /\ turn = "type" /\ turn' = "local"
  /\ \E timeUp \in BOOLEAN :
       LET over == timeUp \/ PduKeyFlag \/ held IN
       /\ State' = IF over THEN "start" ELSE "type"
       /\ IsDriveTypeShow' = ~over
       /\ PduKeyFlag' = (PduKeyFlag /\ ~over)
  /\ did' = "none"
  /\ UNCHANGED <<Key, Asleep, Enable, messages, slot, rx,
                 PultKey, held, mpu, confirm, MuDu>>

Handle ==
  /\ turn = "local" /\ held' = ~held /\ did' = "none"
  /\ UNCHANGED <<menu, turn, slot, rx, PultKey, mpu, confirm, MuDu, type>>

Switch ==
  /\ turn = "local" /\ MuDu' = ~MuDu /\ did' = "none"
  /\ UNCHANGED <<menu, turn, slot, rx, PultKey, held, mpu, confirm, type>>

Tasks == MenuTask \/ AddControl \/ AddControlHeld \/ LocalControl \/ MpuControl \/ TypeTask
Receiver == LineSettles \/ FrameBegins \/ BitCaptured \/ FrameCaptured \/ Noise \/ PultKeyExecute
Outside == Handle \/ Switch \/ ClbControl

Next == Tasks \/ Receiver \/ Outside
Spec == PanelInit /\ [][Next]_vars
(* The timer interrupt runs the task lists for ever. *)
FairSpec == Spec /\ WF_vars(Tasks)

-----------------------------------------------------------------------------
(* Properties *)

(* PultKeyExecute writes Pult.Key without a look at what is there ("it will *)
(* have time to process the key"): no key is overwritten before LocalControl *)
(* or AddControl has taken it, because the line has to settle in between.   *)
KeysInTime == [][PultKey # "none" => PultKey' \in {PultKey, "none"}]_vars

(* The confirmation of interface.c, with AddControl dropping keys and       *)
(* ending the wait, the switch turned and the editing holding the command   *)
(* back, still grants only what was asked for and confirmed.                *)
InConfirm(x) == IF EnableControlPDU = "confirm" THEN x ELSE "none"
Asked == InConfirm(IF WaitConfirmFlag THEN savedCommand ELSE "none")
Granted == InConfirm(IF PduKey \in Moves THEN PduKey ELSE "none")
Confirmed == INSTANCE Confirmation WITH pressed <- PultKey, asked <- Asked, granted <- Granted
ConfirmationSpec == Confirmed!Spec

(* A stop held on the handle in local control reaches the drive, whatever   *)
(* is on the screen and whatever keys of the remote control outweigh it,    *)
(* unless a parameter is edited or it is taken back.                        *)
StopsObeyed == (held /\ MuDu) ~> (did = "stop" \/ ~held \/ ~MuDu \/ State = "edit")
===============================================================================
