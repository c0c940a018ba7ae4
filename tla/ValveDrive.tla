------------------------------ MODULE ValveDrive ------------------------------
(***************************************************************************)
(* The command task of the valve drive (src/core/VlvDrvCtrl.c): which of   *)
(* the local post, the remote control, the tele-inputs and the serial line *)
(* may command the drive, how their requests become one control word, and  *)
(* what a control word does.                                               *)
(*                                                                         *)
(* Left out: the smooth control (Smooth.Enable is never set), the demo     *)
(* mode (Demo.Enable is never set, so ValveDriveMove is never called) and  *)
(* Tu.LocalFlag (never set).                                               *)
(***************************************************************************)
EXTENDS MotorControl

ValveDriveStop(w) ==
  StopPowerControl(
    [w EXCEPT !.mcu = [w.mcu EXCEPT
       !.breakFlag = FALSE,
       !.releStop = FALSE,
       !.tuReady = @ /\ (w.mcu.releStop \/ (~w.st.fault /\ LockSeal)),
       !.releStopEnable = TRUE,
       !.target = FALSE]])

(***************************************************************************)
(* GetActiveControls: the sources that may start the drive; local is the   *)
(* position of the local/remote switch.                                    *)
(***************************************************************************)
ActiveControls(local) ==
  LET mu == \/ MuDuSetup \in {"mdOff", "mdMuOnly"}
            \/ MuDuSetup = "mdSelect" /\ local
      du == MuDuSetup = "mdOff" \/ ~mu
  IN (IF mu THEN {"PDU", "MPU"} ELSE {})
       \cup (IF du /\ DuSource # "mdsSerial" THEN {"DIGITAL"} ELSE {})
       \cup (IF du /\ DuSource # "mdsDigital" THEN {"SERIAL"} ELSE {})

(***************************************************************************)
(* TeleControl, the tele-inputs; RemoteControl disables it during a test   *)
(* and while parameters are edited.  In relay mode letting go of the       *)
(* inputs is a stop.                                                       *)
(***************************************************************************)
TeleWord(w, tu) ==
  LET ready    == w.st.stop /\ w.mcu.tuReady
      released == tu \cap {"open", "close"} = {}
      relStop  == /\ released /\ ~w.st.stop
                  /\ ReleMode /\ w.mcu.releStopEnable
      word     == IF {"open", "close"} \subseteq tu \/ relStop THEN "Stop"
                  ELSE IF "close" \in tu /\ ready THEN "Close"
                  ELSE IF "open" \in tu /\ ready THEN "Open"
                  ELSE "None"
  IN [word     |-> IF "stop" \in tu /\ ~ReleMode THEN "Stop" ELSE word,
      released |-> released, releStop |-> relStop]

TeleControl(w, enabled, tu, active) ==
  IF ~enabled THEN w
  ELSE IF "DIGITAL" \notin active
  THEN [w EXCEPT !.mcu = [w.mcu EXCEPT !.tuReady = TRUE, !.releStop = FALSE,
                                       !.releStopEnable = TRUE]]
  ELSE LET t == TeleWord(w, tu) IN
       [w EXCEPT !.mcu = [w.mcu EXCEPT
          !.tuReady = @ \/ t.released,
          !.releStop = @ \/ t.releStop,
          !.cw = IF t.word # "None" THEN t.word ELSE @,
          !.digital = @ \/ t.word # "None"]]

(***************************************************************************)
(* MpuControl: a key of the remote control overrides one of the local      *)
(* post; a stop is obeyed from an inactive source too.  A key pressed      *)
(* while parameters are edited waits, as one pressed later.                *)
(***************************************************************************)
MpuControl(w, btn, pdu, active) ==
  LET key     == IF pdu # "none" THEN pdu ELSE btn
      source  == IF pdu # "none" THEN "PDU" ELSE "MPU"
      allowed == source \in active
  IN IF key = "none" THEN w
     ELSE [w EXCEPT !.mcu = [w.mcu EXCEPT
             !.digital = FALSE,
             !.cw = IF key = "stop" THEN "Stop"
                    ELSE IF ~allowed THEN @
                    ELSE IF key = "close" THEN "Close" ELSE "Open"]]

-----------------------------------------------------------------------------
MutKeyBeatsCommand(w) ==
  IF w.mcu.command = "None" \/ (w.mcu.command # "Stop" /\ ~w.st.stop) THEN w
  ELSE [w EXCEPT !.mcu = [w.mcu EXCEPT
          !.cw = IF @ = "None" THEN w.mcu.command ELSE @,
          !.command = "None"]]

(***************************************************************************)
(* UpdateComm: the internal command waits for the drive to stop.           *)
(***************************************************************************)
UpdateComm(w) ==
  IF w.mcu.command = "None" \/ (w.mcu.command # "Stop" /\ ~w.st.stop) THEN w
  ELSE [w EXCEPT !.mcu = [w.mcu EXCEPT !.cw = w.mcu.command,
                                       !.command = "None"]]

ReverseDrive(w) ==
  CASE ReverseType = "rvtStop" -> [w EXCEPT !.mcu.command = "Stop"]
    [] ReverseType = "rvtAuto" ->
         ValveDriveStop([w EXCEPT !.mcu.command = w.mcu.cw])
    [] ReverseType = "rvtNone" -> [w EXCEPT !.mcu.cw = "None"]

(***************************************************************************)
(* DriveClose and DriveOpen.  A target position is set only by a           *)
(* calibrated drive; a seal moves it beyond the end position.              *)
(***************************************************************************)
SealsAt(end) == BreakMode \in {"vtBoth", end}

BeginMove(w, test, sealed, phase) ==
  LET free == test \/ ~Calibrated IN
  StartPowerControl(
    [w EXCEPT !.mcu = [w.mcu EXCEPT !.breakFlag = ~free /\ sealed,
                                    !.target = ~free,
                                    !.releStopEnable = @ /\ w.mcu.digital]],
    w.mcu.cw, phase)

DriveClose(w, phase) ==
  LET test == w.mcu.cw = "TestClose" IN
  IF (w.st.closed /\ ~test) \/ w.st.closing THEN w
  ELSE IF w.st.opening THEN ReverseDrive(w)
  ELSE BeginMove(w, test, SealsAt("vtClose"), phase)

DriveOpen(w, phase) ==
  LET test == w.mcu.cw = "TestOpen" IN
  IF (w.st.opened /\ ~test) \/ w.st.opening THEN w
  ELSE IF w.st.closing THEN ReverseDrive(w)
  ELSE BeginMove(w, test, SealsAt("vtOpen"), phase)

DriveCommand(w, phase) ==
  CASE w.mcu.cw = "Stop" -> ValveDriveStop(w)
    [] w.mcu.cw \in {"Close", "TestClose"} -> DriveClose(w, phase)
    [] w.mcu.cw \in {"Open", "TestOpen"} -> DriveOpen(w, phase)
    [] OTHER -> w   \* Demo is disabled, TestEng starts nothing

MutDelayIgnored(w, phase) ==
  LET u == UpdateComm(w)
      d == [u EXCEPT !.mcu.startDelay = IF @ > 0 THEN @ - 1 ELSE 0]
  IN [(IF d.mcu.cw # "None" THEN DriveCommand(d, phase) ELSE d)
        EXCEPT !.mcu.cw = "None"]

UnitControl(w, phase) ==
  LET u == UpdateComm(w) IN
  [(IF u.mcu.startDelay > 0 THEN [u EXCEPT !.mcu.startDelay = @ - 1]
    ELSE IF u.mcu.cw # "None" THEN DriveCommand(u, phase)
    ELSE u) EXCEPT !.mcu.cw = "None"]

(***************************************************************************)
(* ValveDriveUpdate, the task itself.                                      *)
(***************************************************************************)
ValveDriveUpdate(w, in) ==
  LET active == ActiveControls(in.local) IN
  UnitControl(MpuControl(TeleControl(w, in.tuEnable, in.tu, active),
                         in.btn, in.pdu, active), in.phase)
=============================================================================
