----------------------------- MODULE DriveService -----------------------------
(***************************************************************************)
(* The drive of BurDrive with the events that cut across a movement: dips  *)
(* of the supply, the thyristor and input test an operator switches on,    *)
(* and a restart of the controller.                                        *)
(***************************************************************************)
EXTENDS BurDrive

CONSTANT Events   \* which of these events occur

ASSUME EventAssumption == Events \subseteq {"supply", "test", "restart"}

(***************************************************************************)
(* The motor task with the state of the supply and the test parameters     *)
(* GrG->SifuEnable and GrG->ThyrGroup.                                     *)
(***************************************************************************)
ServiceControlModeTick ==
  \E speed \in {"low", "min", "high"},
     powered \in IF "supply" \in Events THEN BOOLEAN ELSE {TRUE},
     sifuEnable \in IF "test" \in Events THEN BOOLEAN ELSE {FALSE},
     group \in {"up", "down"} :
    ControlModeWith([powered |-> powered, sifuEnable |-> sifuEnable,
                     group |-> group, speed |-> speed, overload |-> FALSE])

LowPowerControlTick ==
  \E s \in Samples, memReady \in MemReady :
    Run(LowPowerControl(ProtectionsUpdate(Now, s), memReady))

(***************************************************************************)
(* DiscrInOutTestObserver and the parameter G.Mode switch the test mode;   *)
(* neither looks whether the drive moves.                                  *)
(***************************************************************************)
SetTestMode(w, on) == [w EXCEPT !.pwr.testMode = on]

TestModeTick ==
  /\ "test" \in Events
  /\ \E s \in Samples, on \in BOOLEAN :
       Run(SetTestMode(ProtectionsUpdate(Now, s), on))

(***************************************************************************)
(* A restart keeps what the EEPROM holds: InterfaceInit finds a stored     *)
(* short circuit there and asks the supply monitor to recall it.  A write  *)
(* under way is lost.                                                      *)
(***************************************************************************)
Restart ==
  /\ "restart" \in Events
  /\ st' = [f \in DOMAIN st |-> f = "stop"]
  /\ mcu' = [mcu EXCEPT !.cw = "None", !.command = "None", !.startDelay = 0,
                        !.tuReady = TRUE, !.releStop = FALSE,
                        !.releStopEnable = TRUE, !.digital = FALSE,
                        !.target = FALSE, !.breakFlag = FALSE]
  /\ dmc' = [dmc EXCEPT !.mode = "wmStop", !.dir = 0, !.reqDir = "none",
                        !.sifu = "none", !.drvOn = FALSE, !.clk = FALSE,
                        !.dynEnable = FALSE, !.kickEnable = FALSE,
                        !.runStatus = "none", !.testTimer = 0,
                        !.preStart = 0, !.upor = 0, !.accel = 0,
                        !.maxTorque = 0, !.pause = 0, !.kick = 0,
                        !.kickCounter = 0, !.dyn = 0, !.zazor = 0]
  /\ prt' = [prt EXCEPT !.faults = {}, !.defects = {}, !.muff = FALSE,
                        !.mufEnable = FALSE, !.overWay = FALSE,
                        !.onlyPosSens = FALSE, !.delay = FaultDelayTime,
                        !.isShcReset = FALSE]
  /\ pwr' = [pwr EXCEPT !.testMode = FALSE, !.supply = FALSE, !.cnt = 0,
                        !.timer = 0,
                        !.reset = IF pwr.eeSc THEN {"BIT0"} ELSE {},
                        !.saveDir = "none", !.shcFlag = FALSE,
                        !.scFaults = pwr.eeSc, !.eeReq = FALSE]
  /\ ran' = FALSE /\ rest' = StartDelayTime

ServiceNext ==
  \/ ServiceControlModeTick \/ ValveDriveUpdateTick \/ OtherTick
  \/ LowPowerControlTick \/ TestModeTick \/ Restart

ServiceSpec == Init /\ [][ServiceNext]_vars

-----------------------------------------------------------------------------
(***************************************************************************)
(* A short circuit that reached the EEPROM is not forgotten, restarts      *)
(* included, until the operator's reset: it is latched, or still to be     *)
(* recalled, or its reset waits for the EEPROM or is being written there.  *)
(***************************************************************************)
ShcRemembered ==
  pwr.eeSc => \/ "ShC" \in prt.faults
              \/ "BIT0" \in pwr.reset /\ pwr.scFaults
              \/ prt.isShcReset
              \/ pwr.eeReq /\ ~pwr.scFaults

(***************************************************************************)
(* No braking current flows in a moving drive, although the thyristor test *)
(* may cut a movement or a braking short at any point.                     *)
(***************************************************************************)
BrakeAtRest == dmc.sifu = "brake" => st.stop
=============================================================================
