----------------------------- MODULE DriveState -----------------------------
(***************************************************************************)
(* The state shared by the drive-control tasks of the BUR-T-90 actuator    *)
(* controller, and the parameters the tasks read.                          *)
(*                                                                         *)
(* The firmware keeps this state in C structures that every task of the    *)
(* 18 kHz scheduler reads and writes: GrA->Status, Mcu, Dmc with Sifu, the *)
(* protection flags and the variables of the supply monitor.  Here each is *)
(* a record and the five of them form a "world"; a C function that changes *)
(* the shared state is an operator from worlds to worlds, so that the call *)
(* chains of one task compose as they do in the code.                      *)
(***************************************************************************)
EXTENDS Integers, FiniteSets

CONSTANTS
  ReverseType,    \* GrB->ReverseType: "rvtStop" | "rvtAuto" | "rvtNone"
  ReleMode,       \* relay mode of the tele-inputs
  LockSeal,       \* a tele-input held through a stop may start the drive
  MuDuSetup,      \* "mdOff" | "mdSelect" | "mdMuOnly" | "mdDuOnly"
  DuSource,       \* "mdsAll" | "mdsDigital" | "mdsSerial"
  BreakMode,      \* sealing: "vtNone" | "vtClose" | "vtOpen" | "vtBoth"
  BurM90to60,     \* protections reset at a start as on the BUR-60
  Calibrated,     \* the position sensor is calibrated
  ReversMove,     \* GrB->ReversMove
  PosSensEnable,  \* "pmOff" | "pmBlkSign" | "pmBlkTsSign" | "pmSignStop"
  StopKinds,      \* the protections set to pmSignStop
  UporOnly,       \* GrH->UporOnly
  KickCount       \* GrH->KickCount

(***************************************************************************)
(* Times, in calls of the task that counts them.                           *)
(***************************************************************************)
CONSTANTS
  StartDelayTime,   \* pause between a stop and the next start
  BlockDelay,       \* 0xFFFF: commands blocked while braking
  TestStateTime, PrestartTime, UporStateTime, AccelTime, UporSwitchTime,
  PauseStateTime, KickSt1Time, ZazorTime,
  NoCurrPause,      \* pause before the braking current
  BrakeTime,        \* length of the braking current
  FaultDelayTime,   \* protections are blind for this long after power-up
  LowPowerTime,     \* hold-off after a supply dip
  PowerTout,        \* hold-off after a short circuit
  PowerOffCount     \* samples before a lost supply is believed

Times == {StartDelayTime, BlockDelay, TestStateTime, PrestartTime,
          UporStateTime, AccelTime, UporSwitchTime, PauseStateTime,
          KickSt1Time, ZazorTime, NoCurrPause, BrakeTime, FaultDelayTime,
          LowPowerTime, PowerTout, PowerOffCount, KickCount}

(***************************************************************************)
(* What a task reads besides the shared state is an input of the step,     *)
(* drawn from these sets.                                                  *)
(***************************************************************************)
CONSTANTS
  BtnKeys,      \* keys of the local post
  PduKeys,      \* keys of the remote control
  TuStates,     \* combinations of the tele-inputs
  PhaseOrders,  \* PhEl.Direction: phase order of the mains
  Zones,        \* end position reported by the calibration
  Words,        \* commands written by Modbus, the menu, the cycle mode
  Faulty        \* the fault kinds that occur

-----------------------------------------------------------------------------
Commands == {"None", "Stop", "Close", "Open", "TestClose", "TestOpen",
             "Demo", "TestEng"}
KeyCodes == {"none", "stop", "close", "open"}
TuBits   == {"open", "close", "stop"}

MovingModes == {"wmTestPh", "wmPreStart", "wmUporStart", "wmMove", "wmPause",
                "wmUporFinish", "wmKick", "wmSpeedTest"}
WorkModes   == MovingModes \cup {"wmStop", "wmDynBrake", "wmTestThyr"}
MuffModes   == {"wmUporStart", "wmMove", "wmPause", "wmUporFinish"}

Gates == {"none", "down", "up", "brake"}   \* Sifu.Direction

(***************************************************************************)
(* A fault kind stands for the bits of one protection.  LibraryKinds are   *)
(* raised by PrtCalc and by the I2t module; those in SelfClearing also     *)
(* fall by themselves when the cause goes away.                            *)
(***************************************************************************)
LibraryKinds == {"Net", "Drv_T", "Th_Err", "I2t", "MuDuDef"}
SelfClearing == {"Net", "Drv_T", "Th_Err", "MuDuDef"}
FaultKinds   == LibraryKinds \cup {"ShC", "PhOrd", "NoMove", "PosSens"}

ASSUME ParamAssumption ==
  /\ ReverseType \in {"rvtStop", "rvtAuto", "rvtNone"}
  /\ MuDuSetup \in {"mdOff", "mdSelect", "mdMuOnly", "mdDuOnly"}
  /\ DuSource \in {"mdsAll", "mdsDigital", "mdsSerial"}
  /\ BreakMode \in {"vtNone", "vtClose", "vtOpen", "vtBoth"}
  /\ PosSensEnable \in {"pmOff", "pmBlkSign", "pmBlkTsSign", "pmSignStop"}
  /\ {ReleMode, LockSeal, BurM90to60, Calibrated, ReversMove, UporOnly}
       \subseteq BOOLEAN
  /\ StopKinds \subseteq FaultKinds

ASSUME TimeAssumption ==
  /\ Times \subseteq Nat
  /\ StartDelayTime >= 2
  /\ BlockDelay > StartDelayTime
  /\ NoCurrPause >= 2   \* GrC->NoCurrPause is 2 at least, and is doubled

ASSUME InputAssumption ==
  /\ BtnKeys \cup PduKeys \subseteq KeyCodes
  /\ TuStates \subseteq SUBSET TuBits
  /\ PhaseOrders \subseteq {-1, 0, 1}
  /\ Zones \subseteq {"none", "closed", "opened"}
  /\ Words \subseteq Commands
  /\ Faulty \subseteq FaultKinds

-----------------------------------------------------------------------------
StatusReg ==
  [stop : BOOLEAN, closing : BOOLEAN, opening : BOOLEAN, test : BOOLEAN,
   fault : BOOLEAN, defect : BOOLEAN, mufta : BOOLEAN,
   closed : BOOLEAN, opened : BOOLEAN]

VlvDrvCtrl ==
  [cw : Commands, command : Commands, startDelay : 0 .. BlockDelay,
   tuReady : BOOLEAN, releStop : BOOLEAN, releStopEnable : BOOLEAN,
   digital : BOOLEAN,      \* EvLog.Source = CMD_SRC_DIGITAL
   target : BOOLEAN,       \* Valve.Position /= POS_UNDEF
   breakFlag : BOOLEAN]

DmControl ==
  [mode : WorkModes, dir : {-1, 0, 1}, reqDir : {"none", "down", "up"},
   sifu : Gates, drvOn : BOOLEAN, clk : BOOLEAN, dynEnable : BOOLEAN,
   kickEnable : BOOLEAN, runStatus : {"none", "closing", "opening"},
   testTimer : Nat, preStart : Nat, upor : Nat, accel : Nat, maxTorque : Nat,
   pause : Nat, kick : Nat, kickCounter : Nat, dyn : Nat, zazor : Nat]

ProtectionState ==
  [faults : SUBSET FaultKinds, defects : SUBSET {"Overway", "Other"},
   muff : BOOLEAN, mufEnable : BOOLEAN, overWay : BOOLEAN,
   onlyPosSens : BOOLEAN, delay : Nat, isShcReset : BOOLEAN]

PowerState ==
  [testMode : BOOLEAN, supply : BOOLEAN, cnt : Nat, timer : Nat,
   reset : SUBSET {"BIT0", "BIT1"}, saveDir : Gates, shcFlag : BOOLEAN,
   scFaults : BOOLEAN,
   eeSc : BOOLEAN,         \* the stored short circuit, in the EEPROM
   eeReq : BOOLEAN]        \* MemPar.Func: scFaults is being written there

World == [st : StatusReg, mcu : VlvDrvCtrl, dmc : DmControl,
          prt : ProtectionState, pwr : PowerState]

IsStopped(w)  == w.st.stop
IsTestMode(w) == w.pwr.testMode
=============================================================================
