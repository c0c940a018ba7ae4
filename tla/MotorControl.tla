----------------------------- MODULE MotorControl -----------------------------
(***************************************************************************)
(* The motor-control task (src/core/motor_control.c): how a start and a    *)
(* stop prepare it, the state machine that drives the thyristors 200 times *)
(* a second, the thyristor test, and the supply monitor.                   *)
(*                                                                         *)
(* Firing angles and torque values are left out: the direction given to    *)
(* the firing unit, Sifu.Direction, decides which thyristor group fires.   *)
(***************************************************************************)
EXTENDS Protections

(***************************************************************************)
(* StopPowerControl: braking follows a stop unless the clutch or a fault   *)
(* caused it; without permission to brake the mode is left as it is.       *)
(* The operators named Mut... here and below are slips the properties must *)
(* not survive; nothing uses them.                                         *)
(***************************************************************************)
MutStopKeepsMode(w) ==
  IF w.prt.muff \/ w.st.fault \/ w.st.defect THEN "wmStop" ELSE w.dmc.mode

MutStopBrakesFaulty(w) ==
  IF w.dmc.dynEnable THEN "wmDynBrake" ELSE w.dmc.mode

ModeAfterStop(w) ==
  IF w.prt.muff \/ w.st.fault \/ w.st.defect THEN "wmStop"
  ELSE IF w.dmc.dynEnable THEN "wmDynBrake" ELSE w.dmc.mode

StopPowerControl(w) ==
  [w EXCEPT !.st = [w.st EXCEPT !.stop = TRUE, !.closing = FALSE,
                                !.opening = FALSE, !.test = FALSE],
            !.dmc.mode = ModeAfterStop(w),
            !.mcu.startDelay = StartDelayTime]

(***************************************************************************)
(* StartPowerControl: refused on a short circuit, before the phase order   *)
(* of the mains is known, and for every word that names no movement.       *)
(***************************************************************************)
StartWords == {"Close", "Open", "TestClose", "TestOpen"}

DirectionOf(word) == IF word \in {"Close", "TestClose"} THEN -1 ELSE 1

(***************************************************************************)
(* The thyristor group that turns the motor in direction dir.              *)
(***************************************************************************)
GroupOf(dir, phase) == IF (dir = phase) = ReversMove THEN "down" ELSE "up"

MayStart(w, word, phase) ==
  /\ "ShC" \notin w.prt.faults
  /\ phase # 0
  /\ word \in StartWords

StartPowerControl(w, word, phase) ==
  IF ~MayStart(w, word, phase) THEN w
  ELSE LET dir  == DirectionOf(word)
           test == word \in {"TestClose", "TestOpen"}
           run  == IF dir = -1 THEN "closing" ELSE "opening"
           reset == ProtectionsReset(w)
       IN [reset EXCEPT
             !.st = [reset.st EXCEPT
                       !.stop = FALSE,
                       !.test = @ \/ test,
                       !.closing = @ \/ dir = -1,
                       !.opening = @ \/ dir = 1],
             !.dmc = [reset.dmc EXCEPT
                        !.mode = IF test THEN "wmSpeedTest" ELSE "wmTestPh",
                        !.dir = dir,
                        !.reqDir = GroupOf(dir, phase),
                        !.kickEnable = KickCount > 0 /\ dir = 1,
                        !.kickCounter = 0, !.kick = 0, !.upor = 0,
                        !.maxTorque = 0, !.accel = 0, !.pause = 0,
                        !.dyn = 0, !.preStart = 0,
                        !.zazor = IF w.dmc.runStatus = run THEN 0
                                  ELSE ZazorTime,
                        !.runStatus = run,
                        !.clk = TRUE, !.drvOn = TRUE, !.dynEnable = TRUE]]

-----------------------------------------------------------------------------
(***************************************************************************)
(* The modes, one operator each.                                           *)
(***************************************************************************)
MutStopLeavesGates(w) ==
  [w EXCEPT !.dmc = [w.dmc EXCEPT !.dir = 0, !.drvOn = FALSE, !.clk = FALSE]]

StopMode(w) ==
  [w EXCEPT !.dmc = [w.dmc EXCEPT !.sifu = "none", !.dir = 0,
                                  !.drvOn = FALSE, !.clk = FALSE]]

MutTestPhTimerNotStatic(w) ==
  LET done == 1 >= TestStateTime IN
  [w EXCEPT !.dmc = [w.dmc EXCEPT !.sifu = w.dmc.reqDir,
                                  !.mode = IF done THEN "wmPreStart" ELSE @]]

(* Its timer is a static variable: a start does not reset it. *)
TestPhMode(w) ==
  LET done == w.dmc.testTimer + 1 >= TestStateTime IN
  [w EXCEPT !.dmc = [w.dmc EXCEPT !.sifu = w.dmc.reqDir,
                                  !.mode = IF done THEN "wmPreStart" ELSE @,
                                  !.testTimer = IF done THEN 0 ELSE @ + 1]]

PreStartMode(w) ==
  LET done == w.dmc.preStart + 1 >= PrestartTime IN
  [w EXCEPT !.dmc = [w.dmc EXCEPT !.mode = IF done THEN "wmUporStart" ELSE @,
                                  !.preStart = IF done THEN 0 ELSE @ + 1]]

(* speed compares AbsSpeed with MIN_FREQ_RPM. *)
UporStartMode(w, speed) ==
  IF UporOnly THEN w
  ELSE IF w.dmc.upor + 1 < UporStateTime THEN [w EXCEPT !.dmc.upor = @ + 1]
  ELSE LET fast == speed = "high"
           kick == ~fast /\ w.dmc.kickEnable /\ w.dmc.kickCounter < KickCount
       IN [w EXCEPT !.dmc = [w.dmc EXCEPT
             !.upor = 0,
             !.mode = IF fast THEN "wmMove" ELSE IF kick THEN "wmKick" ELSE @,
             !.kickEnable = kick]]

(* stall: the torque exceeds its limit, or the motor is too slow. *)
MoveMode(w, speed, overload) ==
  LET stall == overload \/ speed = "low"
      accel == w.dmc.accel < AccelTime
      pause == stall /\ (accel => w.dmc.maxTorque >= UporSwitchTime)
  IN [w EXCEPT !.dmc = [w.dmc EXCEPT
        !.mode = IF pause THEN "wmPause" ELSE @,
        !.accel = IF pause THEN 0 ELSE IF accel THEN @ + 1 ELSE @,
        !.maxTorque = IF ~accel THEN @
                      ELSE IF stall /\ ~pause THEN @ + 1 ELSE 0]]

PauseMode(w) ==
  LET done == w.dmc.pause + 1 >= PauseStateTime IN
  [w EXCEPT !.dmc = [w.dmc EXCEPT !.mode = IF done THEN "wmUporFinish" ELSE @,
                                  !.pause = IF done THEN 0 ELSE @ + 1]]

UporFinishMode(w, speed) ==
  IF UporOnly THEN w
  ELSE IF w.dmc.upor + 1 < UporStateTime THEN [w EXCEPT !.dmc.upor = @ + 1]
  ELSE [w EXCEPT !.dmc = [w.dmc EXCEPT
          !.upor = 0,
          !.mode = IF speed = "high" THEN "wmMove" ELSE @]]

KickMode(w) ==
  LET done == w.dmc.kick + 1 >= KickSt1Time IN
  [w EXCEPT !.dmc = [w.dmc EXCEPT !.mode = IF done THEN "wmUporStart" ELSE @,
                                  !.kickCounter = IF done THEN @ + 1 ELSE @,
                                  !.kick = IF done THEN 0 ELSE @ + 1]]

SpeedTestMode(w) == [w EXCEPT !.dmc.sifu = w.dmc.reqDir]

MutBrakeWithoutPause(w) ==
  LET n == w.dmc.dyn + 1 IN
  IF n < BrakeTime + NoCurrPause
  THEN [w EXCEPT !.dmc = [w.dmc EXCEPT !.dyn = n, !.sifu = "brake"],
                 !.mcu.startDelay = BlockDelay]
  ELSE [w EXCEPT !.dmc = [w.dmc EXCEPT !.dyn = 0, !.mode = "wmStop",
                                       !.dynEnable = FALSE],
                 !.mcu.startDelay = StartDelayTime]

MutBrakeForEver(w) ==
  LET n == w.dmc.dyn + 1 IN
  IF n < BrakeTime + NoCurrPause
  THEN [w EXCEPT !.dmc = [w.dmc EXCEPT
                   !.dyn = n,
                   !.sifu = IF n < NoCurrPause THEN "none" ELSE "brake"],
                 !.mcu.startDelay = BlockDelay]
  ELSE [w EXCEPT !.dmc = [w.dmc EXCEPT !.dyn = 0, !.dynEnable = FALSE]]

(***************************************************************************)
(* DynBrakeMode: gates closed for NoCurrPause, then the braking current    *)
(* for BrakeTime; commands stay blocked until it is over.                  *)
(***************************************************************************)
DynBrakeMode(w) ==
  LET n == w.dmc.dyn + 1 IN
  IF n < BrakeTime + NoCurrPause
  THEN [w EXCEPT !.dmc = [w.dmc EXCEPT
                   !.dyn = n,
                   !.sifu = IF n < NoCurrPause THEN "none" ELSE "brake"],
                 !.mcu.startDelay = BlockDelay]
  ELSE [w EXCEPT !.dmc = [w.dmc EXCEPT !.dyn = 0, !.mode = "wmStop",
                                       !.dynEnable = FALSE],
                 !.mcu.startDelay = StartDelayTime]

(***************************************************************************)
(* DmcTest: the thyristor test takes the mode over, whatever it was.       *)
(***************************************************************************)
DmcTest(w, sifuEnable, group) ==
  IF ~sifuEnable
  THEN [w EXCEPT !.dmc = [w.dmc EXCEPT !.mode = "wmStop", !.sifu = "none",
                                       !.clk = FALSE],
                 !.st.test = FALSE]
  ELSE [w EXCEPT !.dmc = [w.dmc EXCEPT !.mode = "wmTestThyr", !.sifu = group,
                                       !.clk = TRUE],
                 !.st.test = TRUE]

(***************************************************************************)
(* PowerCheck: the supply counts as lost at the PowerOffCount-th sample    *)
(* without it, and as back at the first one with it.                       *)
(***************************************************************************)
PowerCheck(w, powered) ==
  IF powered THEN [w EXCEPT !.pwr = [w.pwr EXCEPT !.supply = TRUE, !.cnt = 0]]
  ELSE LET n == IF w.pwr.cnt < PowerOffCount THEN w.pwr.cnt + 1
                ELSE w.pwr.cnt   \* beyond the limit the count is not read
       IN [w EXCEPT !.pwr = [w.pwr EXCEPT !.cnt = n,
                                          !.supply = @ /\ n # PowerOffCount]]

RunMode(w, speed, overload) ==
  CASE w.dmc.mode = "wmStop"       -> StopMode(w)
    [] w.dmc.mode = "wmTestPh"     -> TestPhMode(w)
    [] w.dmc.mode = "wmPreStart"   -> PreStartMode(w)
    [] w.dmc.mode = "wmUporStart"  -> UporStartMode(w, speed)
    [] w.dmc.mode = "wmMove"       -> MoveMode(w, speed, overload)
    [] w.dmc.mode = "wmPause"      -> PauseMode(w)
    [] w.dmc.mode = "wmUporFinish" -> UporFinishMode(w, speed)
    [] w.dmc.mode = "wmKick"       -> KickMode(w)
    [] w.dmc.mode = "wmSpeedTest"  -> SpeedTestMode(w)
    [] w.dmc.mode = "wmDynBrake"   -> DynBrakeMode(w)
    [] OTHER                       -> w   \* no case for wmTestThyr

(***************************************************************************)
(* ControlMode, the task itself.  in is what it reads from outside.        *)
(***************************************************************************)
CountZazor(w) == [w EXCEPT !.dmc.zazor = IF @ > 0 THEN @ - 1 ELSE 0]

ControlMode(w, in) ==
  LET c == PowerCheck(w, in.powered) IN
  IF IsTestMode(c) THEN DmcTest(c, in.sifuEnable, in.group)
  ELSE CountZazor(RunMode(c, in.speed, in.overload))

-----------------------------------------------------------------------------
(***************************************************************************)
(* LowPowerControl.  Status.Power is 0 on this hardware, so the branch for *)
(* the reserve supply does not run.                                        *)
(***************************************************************************)
RecallShC(w, memReady) ==
  IF ~memReady THEN w
  ELSE [w EXCEPT !.prt.faults = @ \cup (IF w.pwr.scFaults THEN {"ShC"} ELSE {}),
                 !.pwr = [w.pwr EXCEPT !.scFaults = FALSE,
                                       !.reset = @ \ {"BIT0"}]]

StoreShC(w, memReady) ==
  IF ~memReady THEN w
  ELSE [w EXCEPT !.pwr = [w.pwr EXCEPT !.scFaults = TRUE, !.eeReq = TRUE,
                                       !.reset = @ \cup {"BIT0"},
                                       !.timer = PowerTout,
                                       !.shcFlag = TRUE]]

SupplyLost(w) ==
  [w EXCEPT !.dmc = [w.dmc EXCEPT !.clk = FALSE, !.sifu = "none"],
            !.pwr = [w.pwr EXCEPT !.reset = @ \cup {"BIT1"},
                                  !.timer = LowPowerTime]]

SupplyBack(w) ==
  [w EXCEPT !.dmc = [w.dmc EXCEPT !.sifu = w.pwr.saveDir, !.clk = TRUE],
            !.pwr.reset = @ \ {"BIT1"}]

LowPowerControl(w, memReady) ==
  LET shc == "ShC" \in w.prt.faults
      v   == [w EXCEPT !.pwr.shcFlag = @ /\ shc]
  IN IF IsTestMode(v) THEN v
     ELSE IF v.pwr.timer > 0 THEN [v EXCEPT !.pwr.timer = @ - 1]
     ELSE IF "BIT0" \in v.pwr.reset THEN RecallShC(v, memReady)
     ELSE IF ~v.pwr.shcFlag /\ shc THEN StoreShC(v, memReady)
     ELSE IF ~v.pwr.supply THEN SupplyLost(v)
     ELSE IF "BIT1" \in v.pwr.reset THEN SupplyBack(v)
     ELSE [v EXCEPT !.pwr.saveDir = v.dmc.sifu]
=============================================================================
