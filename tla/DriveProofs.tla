------------------------------ MODULE DriveProofs ------------------------------
(***************************************************************************)
(* The theorems about the drive, for every value of the constants: about   *)
(* BurDrive, and about DriveService, which is BurDrive with the events     *)
(* that cut across a movement.  First the lemmas: what the protections,    *)
(* the motor task and the command task do to the part of the world the     *)
(* invariant speaks of.  Every one takes a world to a world.               *)
(***************************************************************************)
EXTENDS DriveInvariant, DriveService, TLAPS

(***************************************************************************)
(* A function that keeps motion, gates and start delay keeps a world       *)
(* sound.                                                                  *)
(***************************************************************************)
LEMMA KeptSound ==
  ASSUME NEW w, NEW v \in World, Sound(w), Kept(w, v)
  PROVE  Sound(v)
BY DEF Sound, Kept, SameMotion, SameGates, Consistent, MovesFreely,
       BrakesSafely, Halting

-----------------------------------------------------------------------------
(***************************************************************************)
(* The stop of motor_control.c.                                            *)
(***************************************************************************)
LEMMA StopPowerControlEffect ==
  ASSUME NEW w \in World
  PROVE  LET v == StopPowerControl(w) IN
         /\ v \in World /\ SameGates(w, v)
         /\ v.st.stop /\ ~v.st.closing /\ ~v.st.opening
         /\ v.dmc.mode = ModeAfterStop(w)
         /\ v.mcu.startDelay = StartDelayTime
         /\ v.prt = w.prt /\ v.st.fault = w.st.fault
<1> DEFINE v == StopPowerControl(w)
<1>1. [w.st EXCEPT !.stop = TRUE, !.closing = FALSE, !.opening = FALSE,
                   !.test = FALSE] \in StatusReg
  BY DEF World, StatusReg
<1>2. [w.dmc EXCEPT !.mode = ModeAfterStop(w)] \in DmControl
  BY DEF World, DmControl, ModeAfterStop, WorkModes
<1>3. [w.mcu EXCEPT !.startDelay = StartDelayTime] \in VlvDrvCtrl
  BY TimeAssumption DEF World, VlvDrvCtrl, Times
<1>4. v \in World
  BY <1>1, <1>2, <1>3 DEF StopPowerControl, World
<1> QED
  BY <1>4 DEF StopPowerControl, World, StatusReg, VlvDrvCtrl, DmControl,
              SameGates

(***************************************************************************)
(* The stop of VlvDrvCtrl.c.                                               *)
(***************************************************************************)
LEMMA ValveDriveStopEffect ==
  ASSUME NEW w \in World
  PROVE  LET v == ValveDriveStop(w) IN
         /\ v \in World /\ SameGates(w, v)
         /\ v.st.stop /\ ~v.st.closing /\ ~v.st.opening
         /\ v.dmc.mode = ModeAfterStop(w)
         /\ v.mcu.startDelay = StartDelayTime
         /\ v.prt = w.prt /\ v.st.fault = w.st.fault
<1> DEFINE m == [w.mcu EXCEPT
                   !.breakFlag = FALSE,
                   !.releStop = FALSE,
                   !.tuReady = @ /\ (w.mcu.releStop \/ (~w.st.fault /\ LockSeal)),
                   !.releStopEnable = TRUE,
                   !.target = FALSE]
           u == [w EXCEPT !.mcu = m]
<1>1. m \in VlvDrvCtrl
  BY DEF World, VlvDrvCtrl
<1>2. ValveDriveStop(w) = StopPowerControl(u)
  BY DEF ValveDriveStop
<1> HIDE DEF m
<1>3. /\ u \in World /\ u.st = w.st /\ u.dmc = w.dmc
      /\ u.prt = w.prt /\ u.pwr = w.pwr
  BY <1>1 DEF World
<1>4. ModeAfterStop(u) = ModeAfterStop(w)
  BY <1>3 DEF ModeAfterStop
<1> HIDE DEF u
<1> QED
  BY <1>2, <1>3, <1>4, StopPowerControlEffect DEF SameGates

(***************************************************************************)
(* Stopping a drive that moves, or coasts already, brakes or coasts.       *)
(***************************************************************************)
LEMMA StopHalts ==
  ASSUME NEW w \in World, w.dmc.dynEnable \/ w.dmc.mode = "wmStop"
  PROVE  Halted(w, ValveDriveStop(w))
BY ValveDriveStopEffect DEF Halted, ModeAfterStop

(* The stop of the protections and of the calibration, the same stop. *)
LEMMA BlockStopEffect ==
  ASSUME NEW w \in World
  PROVE  LET v == BlockStop(w) IN
         /\ v \in World /\ SameGates(w, v)
         /\ v.st.stop /\ ~v.st.closing /\ ~v.st.opening
         /\ v.dmc.mode = ModeAfterStop(w)
         /\ v.mcu.startDelay = StartDelayTime
         /\ v.prt = w.prt /\ v.st.fault = w.st.fault
<1> DEFINE u == ValveDriveStop(w)
<1>1. /\ u \in World /\ SameGates(w, u)
      /\ u.st.stop /\ ~u.st.closing /\ ~u.st.opening
      /\ u.dmc.mode = ModeAfterStop(w)
      /\ u.mcu.startDelay = StartDelayTime
      /\ u.prt = w.prt /\ u.st.fault = w.st.fault
  BY ValveDriveStopEffect
<1>2. BlockStop(w) = [u EXCEPT !.mcu.digital = FALSE]
  BY DEF BlockStop
<1> HIDE DEF u
<1>3. [u.mcu EXCEPT !.digital = FALSE] \in VlvDrvCtrl
  BY <1>1 DEF World, VlvDrvCtrl
<1> QED
  BY <1>1, <1>2, <1>3 DEF World, VlvDrvCtrl, SameGates

-----------------------------------------------------------------------------
(***************************************************************************)
(* The protections.  Reading the faults, or raising one, moves nothing.    *)
(***************************************************************************)
LEMMA ReadFaultsEffect ==
  ASSUME NEW w \in World
  PROVE  LET v == ReadFaults(w) IN
         /\ v \in World /\ Kept(w, v)
         /\ v.st.fault = (ActiveFaults(w) # {})
         /\ v.prt.muff = w.prt.muff
<1> DEFINE v == ReadFaults(w)
           fault == IsFaultExist(w)
           defect == IsDefectExist(w)
           only == w.prt.onlyPosSens \/ ActiveFaults(w) = {"PosSens"}
           s == [w.st EXCEPT !.fault = fault, !.defect = defect]
           p == [w.prt EXCEPT !.onlyPosSens = only]
<1>1. v = [w EXCEPT !.st = s, !.prt = p]
  BY DEF ReadFaults, World
<1>2. fault \in BOOLEAN /\ defect \in BOOLEAN /\ only \in BOOLEAN
  BY DEF IsFaultExist, IsDefectExist, World, ProtectionState
<1>3. fault = (ActiveFaults(w) # {})
  BY DEF IsFaultExist
<1> HIDE DEF fault, defect, only
<1>4. s \in StatusReg
  BY <1>2 DEF World, StatusReg
<1>5. p \in ProtectionState
  BY <1>2 DEF World, ProtectionState
<1>6. v \in World
  BY <1>1, <1>4, <1>5 DEF World
<1>7. Kept(w, v)
  BY <1>1 DEF World, StatusReg, Kept, SameMotion, SameGates
<1>8. v.prt.muff = w.prt.muff
  BY <1>1 DEF World, ProtectionState
<1>9. v.st.fault = fault
  BY <1>1 DEF World, StatusReg
<1> QED BY <1>3, <1>6, <1>7, <1>8, <1>9

(* The short circuit is only latched. *)
LEMMA ShCProtectEffect ==
  ASSUME NEW w \in World, NEW hit
  PROVE  LET v == ShCProtect(w, hit) IN
         /\ v \in World /\ Kept(w, v)
         /\ v.prt.muff = w.prt.muff
         /\ ActiveFaults(w) \subseteq ActiveFaults(v)
<1> DEFINE p == [w.prt EXCEPT !.faults = @ \cup {"ShC"}]
           v == [w EXCEPT !.prt = p]
<1>1. CASE hit /\ w.prt.delay = 0
  <2>1. ShCProtect(w, hit) = v
    BY <1>1 DEF ShCProtect, World
  <2>2. /\ p \in ProtectionState /\ p.muff = w.prt.muff
        /\ p.delay = w.prt.delay /\ w.prt.faults \subseteq p.faults
    BY DEF World, ProtectionState, FaultKinds, LibraryKinds
  <2> HIDE DEF p
  <2>3. v \in World /\ v.prt = p /\ Kept(w, v)
    BY <2>2 DEF World, Kept, SameMotion, SameGates
  <2> HIDE DEF v
  <2> QED BY <2>1, <2>2, <2>3 DEF ActiveFaults
<1>2. CASE ~(hit /\ w.prt.delay = 0)
  BY <1>2 DEF ShCProtect, Kept, SameMotion, SameGates
<1> QED BY <1>1, <1>2

(***************************************************************************)
(* The clutch, and then a fault, stop a moving drive; it is not braked.    *)
(***************************************************************************)
LEMMA StopOnMuffEffect ==
  ASSUME NEW w \in World, NEW inSeal
  PROVE  LET v == StopOnMuff(w, inSeal) IN
         /\ v \in World /\ v.st.fault = w.st.fault
         /\ v.prt.muff = w.prt.muff
         /\ ~w.prt.muff => v = w
         /\ w.prt.muff => Halted(w, v) /\ v.dmc.mode = "wmStop"
<1> DEFINE fault == MuffIsFault(w, inSeal)
           f == (w.prt.faults \ {"NoMove"})
                   \cup (IF fault THEN {"NoMove"} ELSE {})
           p == [w.prt EXCEPT !.faults = f]
           s == [w.st EXCEPT !.mufta = fault]
           u == [w EXCEPT !.prt = p, !.st = s]
<1>1. CASE ~w.prt.muff
  BY <1>1 DEF StopOnMuff
<1>2. CASE w.prt.muff
  <2>1. fault \in BOOLEAN
    BY DEF MuffIsFault
  <2>2. StopOnMuff(w, inSeal) = BlockStop(u)
    BY <1>2 DEF StopOnMuff, World
  <2> HIDE DEF fault
  <2>3. f \in SUBSET FaultKinds
    BY DEF World, ProtectionState, FaultKinds
  <2> HIDE DEF f
  <2>4. p \in ProtectionState /\ p.muff = w.prt.muff
    BY <2>3 DEF World, ProtectionState
  <2>5. s \in StatusReg /\ s.fault = w.st.fault
    BY <2>1 DEF World, StatusReg
  <2> HIDE DEF p, s
  <2>6. /\ u \in World /\ u.dmc = w.dmc /\ u.mcu = w.mcu /\ u.pwr = w.pwr
        /\ u.prt.muff = w.prt.muff /\ u.st.fault = w.st.fault
    BY <2>4, <2>5 DEF World
  <2>7. ModeAfterStop(u) = "wmStop"
    BY <1>2, <2>6 DEF ModeAfterStop
  <2> HIDE DEF u
  <2> QED BY <1>2, <2>2, <2>6, <2>7, BlockStopEffect DEF Halted, SameGates
<1> QED BY <1>1, <1>2

(* A fault stops it in the same way. *)
LEMMA StopOnFaultEffect ==
  ASSUME NEW w \in World
  PROVE  LET v == StopOnFault(w) IN
         /\ v \in World
         /\ v = w \/ (Halted(w, v) /\ v.dmc.mode = "wmStop")
         /\ PosSensEnable = "pmSignStop" /\ w.st.fault
              => Halted(w, v) /\ v.dmc.mode = "wmStop"
<1>1. CASE StopOnFault(w) = w /\ ~(w.st.fault /\ PosSensEnable = "pmSignStop")
  BY <1>1
<1>2. CASE w.st.fault /\ StopOnFault(w) = BlockStop(w)
  <2>1. ModeAfterStop(w) = "wmStop"
    BY <1>2 DEF ModeAfterStop
  <2> QED BY <1>2, <2>1, BlockStopEffect DEF Halted
<1> QED BY <1>1, <1>2 DEF StopOnFault

(* The protections as a whole, which run at the start of every call. *)
LEMMA ProtectionsUpdateEffect ==
  ASSUME NEW w \in World, NEW in
  PROVE  LET v == ProtectionsUpdate(w, in) IN
         /\ v \in World
         /\ Kept(w, v) \/ Coasts(w, v)
         /\ /\ PosSensEnable = "pmSignStop" /\ ~w.st.stop
            /\ w.prt.muff \/ ActiveFaults(w) # {}
            => Coasts(w, v)
<1> DEFINE a == ShCProtect(w, in.shc)
           r == ReadFaults(a)
           m == StopOnMuff(r, in)
           v == StopOnFault(m)
<1>1. /\ a \in World /\ Kept(w, a) /\ a.prt.muff = w.prt.muff
      /\ ActiveFaults(w) \subseteq ActiveFaults(a)
  BY ShCProtectEffect
<1>2. /\ r \in World /\ Kept(a, r) /\ r.prt.muff = a.prt.muff
      /\ r.st.fault = (ActiveFaults(a) # {})
  BY <1>1, ReadFaultsEffect
<1>3. Kept(w, r)
  BY <1>1, <1>2 DEF Kept, SameMotion, SameGates
<1>4. ProtectionsUpdate(w, in) = IF r.st.stop THEN r ELSE v
  BY DEF ProtectionsUpdate, DefDriveFaults, IsStopped
<1>5. /\ m \in World /\ m.st.fault = r.st.fault
      /\ ~r.prt.muff => m = r
      /\ r.prt.muff => Halted(r, m) /\ m.dmc.mode = "wmStop"
  BY <1>2, StopOnMuffEffect
<1>6. /\ v \in World
      /\ v = m \/ (Halted(m, v) /\ v.dmc.mode = "wmStop")
      /\ PosSensEnable = "pmSignStop" /\ m.st.fault
           => Halted(m, v) /\ v.dmc.mode = "wmStop"
  BY <1>5, StopOnFaultEffect
<1> HIDE DEF a, r, m, v
<1>7. CASE r.st.stop
  BY <1>2, <1>3, <1>4, <1>7 DEF Kept, SameMotion
<1>8. CASE ~r.st.stop
  <2>1. v = r \/ (Halted(r, v) /\ v.dmc.mode = "wmStop")
    BY <1>5, <1>6 DEF Halted, SameGates
  <2>2. Halted(r, v) /\ v.dmc.mode = "wmStop" => Coasts(w, v)
    BY <1>3, <1>8 DEF Halted, SameGates, Coasts, Kept, SameMotion
  <2>3. ASSUME PosSensEnable = "pmSignStop",
               w.prt.muff \/ ActiveFaults(w) # {}
        PROVE  Halted(r, v) /\ v.dmc.mode = "wmStop"
    BY <1>1, <1>2, <1>5, <1>6, <2>3 DEF Halted, SameGates
  <2> QED BY <1>3, <1>4, <1>6, <1>8, <2>1, <2>2, <2>3
<1> QED BY <1>7, <1>8

-----------------------------------------------------------------------------
(***************************************************************************)
(* The modes of the motor task.                                            *)
(***************************************************************************)
LEMMA SetDmc ==
  ASSUME NEW w \in World, NEW d \in DmControl
  PROVE  LET v == [w EXCEPT !.dmc = d] IN
         /\ v \in World /\ v.dmc = d
         /\ v.st = w.st /\ v.mcu = w.mcu /\ v.prt = w.prt /\ v.pwr = w.pwr
BY DEF World

(* The mode wmStop closes the gates. *)
LEMMA StopModeEffect ==
  ASSUME NEW w \in World, w.dmc.mode = "wmStop"
  PROVE  StopMode(w) \in World /\ StandsStill(w, StopMode(w))
<1> DEFINE d == [w.dmc EXCEPT !.sifu = "none", !.dir = 0, !.drvOn = FALSE,
                              !.clk = FALSE]
<1>1. /\ d \in DmControl /\ d.mode = "wmStop" /\ d.sifu = "none"
      /\ d.dyn = w.dmc.dyn
  BY DEF World, DmControl, Gates
<1>2. StopMode(w) = [w EXCEPT !.dmc = d]
  BY DEF StopMode
<1> HIDE DEF d
<1> QED BY <1>1, <1>2, SetDmc DEF StandsStill

(* Braking counts on, or ends in wmStop. *)
LEMMA DynBrakeModeEffect ==
  ASSUME NEW w \in World, w.dmc.mode = "wmDynBrake"
  PROVE  DynBrakeMode(w) \in World /\ Brakes(w, DynBrakeMode(w))
<1> DEFINE n == w.dmc.dyn + 1
           gates == IF n < NoCurrPause THEN "none" ELSE "brake"
           d == [w.dmc EXCEPT !.dyn = n, !.sifu = gates]
           e == [w.dmc EXCEPT !.dyn = 0, !.mode = "wmStop",
                              !.dynEnable = FALSE]
           v == DynBrakeMode(w)
<1>1. w.dmc \in DmControl /\ w.mcu \in VlvDrvCtrl /\ w.dmc.dyn \in Nat
  BY DEF World, DmControl
<1>2. {BlockDelay, StartDelayTime} \subseteq 0 .. BlockDelay
  BY TimeAssumption DEF Times
<1>3. CASE n < BrakeTime + NoCurrPause
  <2>1. v = [w EXCEPT !.dmc = d, !.mcu.startDelay = BlockDelay]
    BY <1>3 DEF DynBrakeMode
  <2>2. gates \in Gates /\ n \in Nat
    BY <1>1 DEF Gates
  <2> HIDE DEF gates, n
  <2>3. /\ d \in DmControl /\ d.mode = "wmDynBrake" /\ d.dyn = n
        /\ d.sifu = gates
    BY <1>1, <2>2 DEF DmControl
  <2>4. /\ [w.mcu EXCEPT !.startDelay = BlockDelay] \in VlvDrvCtrl
        /\ [w.mcu EXCEPT !.startDelay = BlockDelay].startDelay = BlockDelay
    BY <1>1, <1>2 DEF VlvDrvCtrl
  <2> HIDE DEF d
  <2>5. /\ v \in World /\ v.dmc = d /\ v.st = w.st /\ v.pwr = w.pwr
        /\ v.mcu.startDelay = BlockDelay
    BY <2>1, <2>3, <2>4 DEF World
  <2> QED BY <2>3, <2>5 DEF Brakes, gates, n
<1>4. CASE ~(n < BrakeTime + NoCurrPause)
  <2>1. v = [w EXCEPT !.dmc = e, !.mcu.startDelay = StartDelayTime]
    BY <1>4 DEF DynBrakeMode
  <2>2. /\ e \in DmControl /\ e.mode = "wmStop" /\ e.dyn = 0
        /\ e.sifu = w.dmc.sifu
    BY <1>1 DEF DmControl, WorkModes
  <2>3. /\ [w.mcu EXCEPT !.startDelay = StartDelayTime] \in VlvDrvCtrl
        /\ [w.mcu EXCEPT !.startDelay = StartDelayTime].startDelay
              = StartDelayTime
    BY <1>1, <1>2 DEF VlvDrvCtrl
  <2> HIDE DEF e
  <2>4. /\ v \in World /\ v.dmc = e /\ v.st = w.st /\ v.pwr = w.pwr
        /\ v.mcu.startDelay = StartDelayTime
    BY <2>1, <2>2, <2>3 DEF World
  <2> QED BY <2>2, <2>4 DEF Brakes
<1> QED BY <1>3, <1>4

(***************************************************************************)
(* The modes of a movement: each of them only counts, chooses the next     *)
(* mode of the movement, and fires the group asked for.                    *)
(***************************************************************************)
LEMMA MoveOnWith ==
  ASSUME NEW w \in World, NEW d \in DmControl, CarriesOn(w.dmc, d)
  PROVE  LET v == [w EXCEPT !.dmc = d] IN v \in World /\ MovesOn(w, v)
BY SetDmc DEF MovesOn

(* A mode that waits changes nothing. *)
LEMMA MoveOnAsIs ==
  ASSUME NEW w \in World, w.dmc.mode \in MovingModes
  PROVE  MovesOn(w, w)
BY DEF MovesOn, CarriesOn

(* The phase test. *)
LEMMA TestPhModeEffect ==
  ASSUME NEW w \in World, w.dmc.mode = "wmTestPh"
  PROVE  TestPhMode(w) \in World /\ MovesOn(w, TestPhMode(w))
<1> DEFINE done == w.dmc.testTimer + 1 >= TestStateTime
           mode == IF done THEN "wmPreStart" ELSE w.dmc.mode
           time == IF done THEN 0 ELSE w.dmc.testTimer + 1
           d == [w.dmc EXCEPT !.sifu = w.dmc.reqDir,
                              !.mode = mode, !.testTimer = time]
<1>1. /\ w.dmc \in DmControl /\ mode \in MovingModes
      /\ time \in Nat
  BY DEF World, DmControl, MovingModes
<1>2. TestPhMode(w) = [w EXCEPT !.dmc = d]
  BY DEF TestPhMode
<1> HIDE DEF mode, time
<1>3. d \in DmControl /\ CarriesOn(w.dmc, d)
  BY <1>1 DEF DmControl, CarriesOn, WorkModes, Gates
<1> HIDE DEF d
<1> QED BY <1>2, <1>3, MoveOnWith

(* The pre-start. *)
LEMMA PreStartModeEffect ==
  ASSUME NEW w \in World, w.dmc.mode = "wmPreStart"
  PROVE  PreStartMode(w) \in World /\ MovesOn(w, PreStartMode(w))
<1> DEFINE done == w.dmc.preStart + 1 >= PrestartTime
           mode == IF done THEN "wmUporStart" ELSE w.dmc.mode
           time == IF done THEN 0 ELSE w.dmc.preStart + 1
           d == [w.dmc EXCEPT !.mode = mode, !.preStart = time]
<1>1. /\ w.dmc \in DmControl /\ mode \in MovingModes
      /\ time \in Nat
  BY DEF World, DmControl, MovingModes
<1>2. PreStartMode(w) = [w EXCEPT !.dmc = d]
  BY DEF PreStartMode
<1> HIDE DEF mode, time
<1>3. d \in DmControl /\ CarriesOn(w.dmc, d)
  BY <1>1 DEF DmControl, CarriesOn, WorkModes, Gates
<1> HIDE DEF d
<1> QED BY <1>2, <1>3, MoveOnWith

(* The pause after a stall. *)
LEMMA PauseModeEffect ==
  ASSUME NEW w \in World, w.dmc.mode = "wmPause"
  PROVE  PauseMode(w) \in World /\ MovesOn(w, PauseMode(w))
<1> DEFINE done == w.dmc.pause + 1 >= PauseStateTime
           mode == IF done THEN "wmUporFinish" ELSE w.dmc.mode
           time == IF done THEN 0 ELSE w.dmc.pause + 1
           d == [w.dmc EXCEPT !.mode = mode, !.pause = time]
<1>1. /\ w.dmc \in DmControl /\ mode \in MovingModes
      /\ time \in Nat
  BY DEF World, DmControl, MovingModes
<1>2. PauseMode(w) = [w EXCEPT !.dmc = d]
  BY DEF PauseMode
<1> HIDE DEF mode, time
<1>3. d \in DmControl /\ CarriesOn(w.dmc, d)
  BY <1>1 DEF DmControl, CarriesOn, WorkModes, Gates
<1> HIDE DEF d
<1> QED BY <1>2, <1>3, MoveOnWith

(* The kick. *)
LEMMA KickModeEffect ==
  ASSUME NEW w \in World, w.dmc.mode = "wmKick"
  PROVE  KickMode(w) \in World /\ MovesOn(w, KickMode(w))
<1> DEFINE done == w.dmc.kick + 1 >= KickSt1Time
           mode == IF done THEN "wmUporStart" ELSE w.dmc.mode
           time == IF done THEN 0 ELSE w.dmc.kick + 1
           count == IF done THEN w.dmc.kickCounter + 1 ELSE w.dmc.kickCounter
           d == [w.dmc EXCEPT !.kickCounter = count,
                              !.mode = mode, !.kick = time]
<1>1. /\ w.dmc \in DmControl /\ mode \in MovingModes
      /\ time \in Nat /\ count \in Nat
  BY DEF World, DmControl, MovingModes
<1>2. KickMode(w) = [w EXCEPT !.dmc = d]
  BY DEF KickMode
<1> HIDE DEF mode, time, count
<1>3. d \in DmControl /\ CarriesOn(w.dmc, d)
  BY <1>1 DEF DmControl, CarriesOn, WorkModes, Gates
<1> HIDE DEF d
<1> QED BY <1>2, <1>3, MoveOnWith

(* The speed test. *)
LEMMA SpeedTestModeEffect ==
  ASSUME NEW w \in World, w.dmc.mode = "wmSpeedTest"
  PROVE  SpeedTestMode(w) \in World /\ MovesOn(w, SpeedTestMode(w))
<1> DEFINE d == [w.dmc EXCEPT !.sifu = w.dmc.reqDir]
<1>1. SpeedTestMode(w) = [w EXCEPT !.dmc = d]
  BY DEF SpeedTestMode
<1>2. d \in DmControl /\ CarriesOn(w.dmc, d)
  BY DEF World, DmControl, CarriesOn, MovingModes, Gates
<1> HIDE DEF d
<1> QED BY <1>1, <1>2, MoveOnWith

(* The start against a stop. *)
LEMMA UporStartModeEffect ==
  ASSUME NEW w \in World, NEW speed, w.dmc.mode = "wmUporStart"
  PROVE  UporStartMode(w, speed) \in World /\ MovesOn(w, UporStartMode(w, speed))
<1> DEFINE v == UporStartMode(w, speed)
           fast == speed = "high"
           kick == /\ ~fast /\ w.dmc.kickEnable
                   /\ w.dmc.kickCounter < KickCount
           mode == IF fast THEN "wmMove" ELSE IF kick THEN "wmKick"
                   ELSE w.dmc.mode
           n == w.dmc.upor + 1
           c == [w.dmc EXCEPT !.upor = n]
           d == [w.dmc EXCEPT !.upor = 0, !.mode = mode, !.kickEnable = kick]
<1>1. /\ w.dmc \in DmControl /\ mode \in MovingModes
      /\ kick \in BOOLEAN /\ n \in Nat
  BY DEF World, DmControl, MovingModes
<1>2. \/ v = w
      \/ v = [w EXCEPT !.dmc = c]
      \/ v = [w EXCEPT !.dmc = d]
  BY DEF UporStartMode
<1> HIDE DEF mode, kick, n, v
<1>3. c \in DmControl /\ CarriesOn(w.dmc, c)
  BY <1>1 DEF DmControl, CarriesOn, MovingModes
<1>4. d \in DmControl /\ CarriesOn(w.dmc, d)
  BY <1>1 DEF DmControl, CarriesOn, WorkModes
<1> HIDE DEF c, d
<1>5. v \in World /\ MovesOn(w, v)
  BY <1>2, <1>3, <1>4, MoveOnWith, MoveOnAsIs DEF MovingModes
<1> QED BY <1>5 DEF v

(* Pressing against the stop. *)
LEMMA UporFinishModeEffect ==
  ASSUME NEW w \in World, NEW speed, w.dmc.mode = "wmUporFinish"
  PROVE  UporFinishMode(w, speed) \in World /\ MovesOn(w, UporFinishMode(w, speed))
<1> DEFINE v == UporFinishMode(w, speed)
           mode == IF speed = "high" THEN "wmMove" ELSE w.dmc.mode
           n == w.dmc.upor + 1
           c == [w.dmc EXCEPT !.upor = n]
           d == [w.dmc EXCEPT !.upor = 0, !.mode = mode]
<1>1. w.dmc \in DmControl /\ mode \in MovingModes /\ n \in Nat
  BY DEF World, DmControl, MovingModes
<1>2. \/ v = w
      \/ v = [w EXCEPT !.dmc = c]
      \/ v = [w EXCEPT !.dmc = d]
  BY DEF UporFinishMode
<1> HIDE DEF mode, n, v
<1>3. c \in DmControl /\ CarriesOn(w.dmc, c)
  BY <1>1 DEF DmControl, CarriesOn, MovingModes
<1>4. d \in DmControl /\ CarriesOn(w.dmc, d)
  BY <1>1 DEF DmControl, CarriesOn, WorkModes
<1> HIDE DEF c, d
<1>5. v \in World /\ MovesOn(w, v)
  BY <1>2, <1>3, <1>4, MoveOnWith, MoveOnAsIs DEF MovingModes
<1> QED BY <1>5 DEF v

(* The movement itself. *)
LEMMA MoveModeEffect ==
  ASSUME NEW w \in World, NEW speed, NEW overload, w.dmc.mode = "wmMove"
  PROVE  LET v == MoveMode(w, speed, overload) IN
         v \in World /\ MovesOn(w, v)
<1> DEFINE stall == overload \/ speed = "low"
           accel == w.dmc.accel < AccelTime
           pause == stall /\ (accel => w.dmc.maxTorque >= UporSwitchTime)
           mode == IF pause THEN "wmPause" ELSE w.dmc.mode
           time == IF pause THEN 0
                   ELSE IF accel THEN w.dmc.accel + 1 ELSE w.dmc.accel
           torq == IF ~accel THEN w.dmc.maxTorque
                   ELSE IF stall /\ ~pause THEN w.dmc.maxTorque + 1 ELSE 0
           d == [w.dmc EXCEPT !.mode = mode, !.accel = time,
                              !.maxTorque = torq]
<1>1. /\ w.dmc \in DmControl /\ mode \in MovingModes
      /\ time \in Nat /\ torq \in Nat
  BY DEF World, DmControl, MovingModes
<1>2. MoveMode(w, speed, overload) = [w EXCEPT !.dmc = d]
  BY DEF MoveMode
<1> HIDE DEF mode, time, torq
<1>3. d \in DmControl /\ CarriesOn(w.dmc, d)
  BY <1>1 DEF DmControl, CarriesOn, WorkModes
<1> HIDE DEF d
<1> QED BY <1>2, <1>3, MoveOnWith

-----------------------------------------------------------------------------
(***************************************************************************)
(* The motor task.  PowerCheck and the slack counter move nothing.         *)
(***************************************************************************)
LEMMA PowerCheckEffect ==
  ASSUME NEW w \in World, NEW powered
  PROVE  PowerCheck(w, powered) \in World /\ Kept(w, PowerCheck(w, powered))
<1> DEFINE v == PowerCheck(w, powered)
           n == IF w.pwr.cnt < PowerOffCount THEN w.pwr.cnt + 1 ELSE w.pwr.cnt
           on == w.pwr.supply /\ n # PowerOffCount
           p == [w.pwr EXCEPT !.supply = TRUE, !.cnt = 0]
           q == [w.pwr EXCEPT !.cnt = n, !.supply = on]
<1>1. w.pwr \in PowerState /\ n \in Nat /\ on \in BOOLEAN
  BY DEF World, PowerState
<1>2. v = [w EXCEPT !.pwr = p] \/ v = [w EXCEPT !.pwr = q]
  BY DEF PowerCheck
<1> HIDE DEF v, n, on
<1>3. /\ p \in PowerState /\ p.testMode = w.pwr.testMode
      /\ q \in PowerState /\ q.testMode = w.pwr.testMode
  BY <1>1 DEF PowerState
<1> HIDE DEF p, q
<1>4. v \in World /\ Kept(w, v)
  BY <1>2, <1>3 DEF World, Kept, SameMotion, SameGates
<1> QED BY <1>4 DEF v

(* The slack counter. *)
LEMMA CountZazorEffect ==
  ASSUME NEW w \in World
  PROVE  CountZazor(w) \in World /\ Kept(w, CountZazor(w))
<1> DEFINE v == CountZazor(w)
           n == IF w.dmc.zazor > 0 THEN w.dmc.zazor - 1 ELSE 0
           d == [w.dmc EXCEPT !.zazor = n]
<1>1. w.dmc \in DmControl /\ n \in Nat
  BY DEF World, DmControl
<1>2. v = [w EXCEPT !.dmc = d]
  BY DEF CountZazor
<1> HIDE DEF v, n
<1>3. /\ d \in DmControl /\ d.mode = w.dmc.mode /\ d.dir = w.dmc.dir
      /\ d.reqDir = w.dmc.reqDir /\ d.sifu = w.dmc.sifu
      /\ d.dyn = w.dmc.dyn /\ d.dynEnable = w.dmc.dynEnable
  BY <1>1 DEF DmControl
<1> HIDE DEF d
<1>4. v \in World /\ Kept(w, v)
  BY <1>2, <1>3 DEF World, Kept, SameMotion, SameGates
<1> QED BY <1>4 DEF v

(***************************************************************************)
(* Each mode of the motor task moves on, stands still, or brakes.          *)
(***************************************************************************)
LEMMA RunModeEffect ==
  ASSUME NEW w \in World, NEW speed, NEW overload,
         w.dmc.mode # "wmTestThyr"
  PROVE  LET v == RunMode(w, speed, overload) IN
         /\ v \in World
         /\ \/ w.dmc.mode \in MovingModes /\ MovesOn(w, v)
            \/ w.dmc.mode = "wmStop" /\ StandsStill(w, v)
            \/ w.dmc.mode = "wmDynBrake" /\ Brakes(w, v)
<1> DEFINE v == RunMode(w, speed, overload)
           Good(u) == u \in World /\ MovesOn(w, u)
<1>1. w.dmc.mode \in WorkModes
  BY DEF World, DmControl
<1>2. CASE w.dmc.mode = "wmStop"
  <2>1. v = StopMode(w)
    BY <1>2 DEF RunMode
  <2> QED BY <1>2, <2>1, StopModeEffect
<1>3. CASE w.dmc.mode = "wmDynBrake"
  <2>1. v = DynBrakeMode(w)
    BY <1>3 DEF RunMode
  <2> QED BY <1>3, <2>1, DynBrakeModeEffect
<1>4. CASE w.dmc.mode \in MovingModes
  <2>1. CASE w.dmc.mode = "wmTestPh"
    <3>1. v = TestPhMode(w)
      BY <2>1 DEF RunMode
    <3> QED BY <1>4, <2>1, <3>1, TestPhModeEffect
  <2>2. CASE w.dmc.mode = "wmPreStart"
    <3>1. v = PreStartMode(w)
      BY <2>2 DEF RunMode
    <3> QED BY <1>4, <2>2, <3>1, PreStartModeEffect
  <2>3. CASE w.dmc.mode = "wmUporStart"
    <3>1. v = UporStartMode(w, speed)
      BY <2>3 DEF RunMode
    <3> QED BY <1>4, <2>3, <3>1, UporStartModeEffect
  <2>4. CASE w.dmc.mode = "wmMove"
    <3>1. v = MoveMode(w, speed, overload)
      BY <2>4 DEF RunMode
    <3> QED BY <1>4, <2>4, <3>1, MoveModeEffect
  <2>5. CASE w.dmc.mode = "wmPause"
    <3>1. v = PauseMode(w)
      BY <2>5 DEF RunMode
    <3> QED BY <1>4, <2>5, <3>1, PauseModeEffect
  <2>6. CASE w.dmc.mode = "wmUporFinish"
    <3>1. v = UporFinishMode(w, speed)
      BY <2>6 DEF RunMode
    <3> QED BY <1>4, <2>6, <3>1, UporFinishModeEffect
  <2>7. CASE w.dmc.mode = "wmKick"
    <3>1. v = KickMode(w)
      BY <2>7 DEF RunMode
    <3> QED BY <1>4, <2>7, <3>1, KickModeEffect
  <2>8. CASE w.dmc.mode = "wmSpeedTest"
    <3>1. v = SpeedTestMode(w)
      BY <2>8 DEF RunMode
    <3> QED BY <1>4, <2>8, <3>1, SpeedTestModeEffect
  <2> QED BY <1>4, <2>1, <2>2, <2>3, <2>4, <2>5, <2>6, <2>7, <2>8 DEF MovingModes
<1> QED BY <1>1, <1>2, <1>3, <1>4 DEF WorkModes

(***************************************************************************)
(* The task with the supply check before and the slack counter after it.   *)
(***************************************************************************)
LEMMA ControlModeEffect ==
  ASSUME NEW w \in World, NEW in,
         ~w.pwr.testMode, w.dmc.mode # "wmTestThyr"
  PROVE  LET v == ControlMode(w, in) IN v \in World /\ Motor(w, v)
<1> DEFINE c == PowerCheck(w, in.powered)
           r == RunMode(c, in.speed, in.overload)
           v == CountZazor(r)
<1>1. c \in World /\ Kept(w, c)
  BY PowerCheckEffect
<1>2. ~c.pwr.testMode /\ c.dmc.mode = w.dmc.mode
  BY <1>1 DEF Kept, SameMotion, SameGates
<1>3. ControlMode(w, in) = v
  BY <1>2 DEF ControlMode, IsTestMode
<1>4. /\ r \in World
      /\ \/ c.dmc.mode \in MovingModes /\ MovesOn(c, r)
         \/ c.dmc.mode = "wmStop" /\ StandsStill(c, r)
         \/ c.dmc.mode = "wmDynBrake" /\ Brakes(c, r)
  BY <1>1, <1>2, RunModeEffect
<1>5. v \in World /\ Kept(r, v)
  BY <1>4, CountZazorEffect
<1> HIDE DEF c, r, v
<1>6. Motor(c, r)
  BY <1>4 DEF Motor, MovesOn, StandsStill, Brakes
<1>7. Motor(w, v)
  BY <1>1, <1>5, <1>6 DEF Motor, CarriesOn, Kept, SameMotion, SameGates
<1> QED BY <1>3, <1>5, <1>7

(* What the motor task does to a sound drive leaves it sound. *)
LEMMA MotorSound ==
  ASSUME NEW w, NEW v \in World, Sound(w), Motor(w, v)
  PROVE  Sound(v) /\ (Halting(v) => v.mcu.startDelay # StartDelayTime - 1)
<1> USE TimeAssumption DEF Sound, Motor, Consistent, MovesFreely, BrakesSafely,
                           Halting
<1>0. /\ w.dmc.dyn \in Nat /\ v.mcu.startDelay \in Nat
      /\ {StartDelayTime, BlockDelay, NoCurrPause} \subseteq Nat
  BY DEF World, DmControl, VlvDrvCtrl, Times
<1>1. CASE w.dmc.mode \in MovingModes /\ CarriesOn(w.dmc, v.dmc)
           /\ v.mcu.startDelay = w.mcu.startDelay
  BY <1>1 DEF CarriesOn, MovingModes
<1>2. CASE w.dmc.mode \in {"wmStop", "wmDynBrake"}
           /\ v.dmc.mode \in {"wmStop", "wmDynBrake"}
  <2>1. Consistent(v) /\ MovesFreely(v)
    BY <1>2 DEF MovingModes
  <2>2. w.st.stop
    BY <1>2 DEF MovingModes
  <2>3. BrakesSafely(v)
    BY <1>0, <1>2, <2>2 DEF MovingModes
  <2>4. Halting(v) => v.mcu.startDelay # StartDelayTime - 1
    BY <1>0, <1>2, <2>2 DEF MovingModes
  <2> QED BY <2>1, <2>3, <2>4
<1> QED BY <1>1, <1>2 DEF CarriesOn

(* A fault that stops a moving drive, too. *)
LEMMA ProtectedSound ==
  ASSUME NEW w, NEW v \in World, Sound(w), Kept(w, v) \/ Coasts(w, v)
  PROVE  Sound(v)
<1>1. CASE Kept(w, v)
  BY <1>1, KeptSound
<1>2. CASE Coasts(w, v)
  <2>1. /\ w.st.stop \in BOOLEAN /\ v.st.stop \in BOOLEAN
        /\ StartDelayTime \in Nat
    BY TimeAssumption DEF Sound, World, StatusReg, Times
  <2>2. w.dmc.mode \in MovingModes /\ w.dmc.dyn = 0
    BY <1>2, <2>1 DEF Coasts, Sound, Consistent, BrakesSafely, MovingModes
  <2>3. Consistent(v) /\ MovesFreely(v)
    BY <1>2, <2>1
    DEF Coasts, Halted, SameGates, Sound, Consistent, MovesFreely, MovingModes
  <2>4. BrakesSafely(v)
    BY <1>2, <2>1, <2>2
    DEF Coasts, Halted, SameGates, BrakesSafely, Halting
  <2> QED BY <2>3, <2>4 DEF Sound
<1> QED BY <1>1, <1>2

-----------------------------------------------------------------------------
(***************************************************************************)
(* The command task.                                                       *)
(***************************************************************************)

(* New requests move nothing. *)
LEMMA SetMcu ==
  ASSUME NEW w \in World, NEW m \in VlvDrvCtrl,
         m.startDelay = w.mcu.startDelay
  PROVE  LET v == [w EXCEPT !.mcu = m] IN SetsRequests(w, v) /\ v.mcu = m
BY DEF World, SetsRequests, Kept, SameMotion, SameGates

(* The inputs may leave everything as it is. *)
LEMMA SetsRequestsRefl ==
  ASSUME NEW w \in World
  PROVE  SetsRequests(w, w)
BY DEF SetsRequests, Kept, SameMotion, SameGates

(* The tele-inputs. *)
LEMMA TeleControlEffect ==
  ASSUME NEW w \in World, NEW enabled, NEW tu, NEW active
  PROVE  SetsRequests(w, TeleControl(w, enabled, tu, active))
<1> DEFINE v == TeleControl(w, enabled, tu, active)
           t == TeleWord(w, tu)
           ready == w.mcu.tuReady \/ t.released
           rel == w.mcu.releStop \/ t.releStop
           word == IF t.word # "None" THEN t.word ELSE w.mcu.cw
           dig == w.mcu.digital \/ t.word # "None"
           m == [w.mcu EXCEPT !.tuReady = TRUE, !.releStop = FALSE,
                              !.releStopEnable = TRUE]
           n == [w.mcu EXCEPT !.tuReady = ready, !.releStop = rel,
                              !.cw = word, !.digital = dig]
<1>1. w.mcu \in VlvDrvCtrl
  BY DEF World
<1>2. t.word \in Commands
  BY DEF TeleWord, Commands
<1>3. word \in Commands
  BY <1>1, <1>2 DEF VlvDrvCtrl
<1>4. ready \in BOOLEAN /\ rel \in BOOLEAN /\ dig \in BOOLEAN
  OBVIOUS
<1>5. v = w \/ v = [w EXCEPT !.mcu = m] \/ v = [w EXCEPT !.mcu = n]
  <2>1. CASE ~enabled
    BY <2>1 DEF TeleControl
  <2>2. CASE enabled /\ "DIGITAL" \notin active
    BY <2>2 DEF TeleControl
  <2>3. CASE enabled /\ "DIGITAL" \in active
    BY <2>3 DEF TeleControl
  <2> QED BY <2>1, <2>2, <2>3
<1> HIDE DEF v, t, ready, rel, word, dig
<1>6. m \in VlvDrvCtrl /\ m.startDelay = w.mcu.startDelay
  BY <1>1 DEF VlvDrvCtrl
<1>7. n \in VlvDrvCtrl /\ n.startDelay = w.mcu.startDelay
  BY <1>1, <1>3, <1>4 DEF VlvDrvCtrl
<1> HIDE DEF m, n
<1>8. SetsRequests(w, v)
  BY <1>5, <1>6, <1>7, SetMcu, SetsRequestsRefl
<1> QED BY <1>8 DEF v

(* The keys. *)
LEMMA MpuControlEffect ==
  ASSUME NEW w \in World, NEW btn, NEW pdu, NEW active
  PROVE  SetsRequests(w, MpuControl(w, btn, pdu, active))
<1> DEFINE v == MpuControl(w, btn, pdu, active)
           key == IF pdu # "none" THEN pdu ELSE btn
           source == IF pdu # "none" THEN "PDU" ELSE "MPU"
           word == IF key = "stop" THEN "Stop"
                   ELSE IF ~(source \in active) THEN w.mcu.cw
                   ELSE IF key = "close" THEN "Close" ELSE "Open"
           m == [w.mcu EXCEPT !.digital = FALSE, !.cw = word]
<1>1. w.mcu \in VlvDrvCtrl /\ word \in Commands
  BY DEF World, VlvDrvCtrl, Commands
<1>2. v = w \/ v = [w EXCEPT !.mcu = m]
  BY DEF MpuControl
<1> HIDE DEF v, word
<1>3. m \in VlvDrvCtrl /\ m.startDelay = w.mcu.startDelay
  BY <1>1 DEF VlvDrvCtrl
<1> HIDE DEF m
<1>4. SetsRequests(w, v)
  BY <1>2, <1>3, SetMcu, SetsRequestsRefl
<1> QED BY <1>4 DEF v

(* The postponed command. *)
LEMMA UpdateCommEffect ==
  ASSUME NEW w \in World
  PROVE  SetsRequests(w, UpdateComm(w))
<1> DEFINE v == UpdateComm(w)
           m == [w.mcu EXCEPT !.cw = w.mcu.command, !.command = "None"]
<1>1. w.mcu \in VlvDrvCtrl
  BY DEF World
<1>2. v = w \/ v = [w EXCEPT !.mcu = m]
  BY DEF UpdateComm
<1> HIDE DEF v
<1>3. m \in VlvDrvCtrl /\ m.startDelay = w.mcu.startDelay
  BY <1>1 DEF VlvDrvCtrl, Commands
<1> HIDE DEF m
<1>4. SetsRequests(w, v)
  BY <1>2, <1>3, SetMcu, SetsRequestsRefl
<1> QED BY <1>4 DEF v

-----------------------------------------------------------------------------
(***************************************************************************)
(* A start.  The reset of the protections before it moves nothing.         *)
(***************************************************************************)
LEMMA ProtectionsResetEffect ==
  ASSUME NEW w \in World
  PROVE  LET v == ProtectionsReset(w) IN
         /\ v \in World /\ Kept(w, v)
         /\ v.dmc = w.dmc /\ v.mcu = w.mcu /\ v.pwr = w.pwr
<1> DEFINE v == ProtectionsReset(w)
           mufta == w.st.mufta /\ ~ResetsMuff
           muff == w.prt.muff /\ ~ResetsMuff
           f == w.prt.faults \ ResetFaults
           d == w.prt.defects \ {"Overway"}
           s == [w.st EXCEPT !.fault = FALSE, !.defect = FALSE, !.mufta = mufta]
           p == [w.prt EXCEPT !.overWay = FALSE, !.muff = muff, !.faults = f,
                              !.defects = d]
<1>1. /\ w.st \in StatusReg /\ w.prt \in ProtectionState
      /\ mufta \in BOOLEAN /\ muff \in BOOLEAN
  BY DEF World
<1>2. /\ f \in SUBSET FaultKinds
      /\ d \in SUBSET {"Overway", "Other"}
  BY <1>1 DEF ProtectionState
<1>3. v = [w EXCEPT !.st = s, !.prt = p]
  BY DEF ProtectionsReset
<1> HIDE DEF v, mufta, muff, f, d
<1>4. /\ s \in StatusReg /\ s.stop = w.st.stop
      /\ s.closing = w.st.closing /\ s.opening = w.st.opening
  BY <1>1 DEF StatusReg
<1>5. p \in ProtectionState
  BY <1>1, <1>2 DEF ProtectionState
<1> HIDE DEF s, p
<1>6. /\ v \in World /\ Kept(w, v)
      /\ v.dmc = w.dmc /\ v.mcu = w.mcu /\ v.pwr = w.pwr
  BY <1>3, <1>4, <1>5 DEF World, Kept, SameMotion, SameGates
<1> QED BY <1>6 DEF v

(* A start from rest, or nothing if it is refused. *)
LEMMA StartPowerControlEffect ==
  ASSUME NEW w \in World, NEW word, NEW phase,
         w.st.stop, ~w.st.closing, ~w.st.opening
  PROVE  LET v == StartPowerControl(w, word, phase) IN
         v \in World /\ (v = w \/ Started(w, v))
<1> DEFINE v == StartPowerControl(w, word, phase)
           dir == DirectionOf(word)
           test == word \in {"TestClose", "TestOpen"}
           run == IF dir = -1 THEN "closing" ELSE "opening"
           r == ProtectionsReset(w)
           mode == IF test THEN "wmSpeedTest" ELSE "wmTestPh"
           group == GroupOf(dir, phase)
           kick == KickCount > 0 /\ dir = 1
           slack == IF w.dmc.runStatus = run THEN 0 ELSE ZazorTime
           stest == r.st.test \/ test
           sclose == r.st.closing \/ dir = -1
           sopen == r.st.opening \/ dir = 1
           s == [r.st EXCEPT !.stop = FALSE, !.test = stest,
                             !.closing = sclose, !.opening = sopen]
           d1 == [r.dmc EXCEPT
                    !.mode = mode, !.dir = dir, !.reqDir = group,
                    !.kickEnable = kick]
           d2 == [d1 EXCEPT
                    !.kickCounter = 0, !.kick = 0, !.upor = 0,
                    !.maxTorque = 0, !.accel = 0, !.pause = 0]
           d == [d2 EXCEPT
                   !.dyn = 0, !.preStart = 0,
                   !.zazor = slack, !.runStatus = run,
                   !.clk = TRUE, !.drvOn = TRUE, !.dynEnable = TRUE]
<1>1. /\ r \in World /\ Kept(w, r)
      /\ r.dmc = w.dmc /\ r.mcu = w.mcu /\ r.pwr = w.pwr
  BY ProtectionsResetEffect
<1>2. ~r.st.closing /\ ~r.st.opening
  BY <1>1 DEF Kept, SameMotion
<1>3. v = w \/ v = [r EXCEPT !.st = s, !.dmc = d]
  BY DEF StartPowerControl
<1>4. /\ dir \in {-1, 1} /\ run \in {"closing", "opening"}
      /\ mode \in {"wmTestPh", "wmSpeedTest"} /\ group \in {"down", "up"}
      /\ kick \in BOOLEAN /\ slack \in Nat
  BY TimeAssumption DEF DirectionOf, GroupOf, Times
<1>5. /\ stest \in BOOLEAN /\ sclose \in BOOLEAN /\ sopen \in BOOLEAN
      /\ sclose <=> dir = -1
      /\ sopen <=> dir = 1
  BY <1>2
<1> HIDE DEF v, r, dir, test, run, mode, group, kick, slack, stest, sclose,
             sopen
<1>6. r.st \in StatusReg /\ r.dmc \in DmControl
  BY <1>1 DEF World
<1>7. /\ s \in StatusReg /\ ~s.stop
      /\ s.closing = sclose /\ s.opening = sopen
  <2>1. stest \in BOOLEAN /\ sclose \in BOOLEAN /\ sopen \in BOOLEAN
    BY <1>5
  <2> QED BY <1>6, <2>1 DEF StatusReg
<1>8. /\ d \in DmControl /\ d.mode = mode /\ d.dir = dir /\ d.reqDir = group
      /\ d.dyn = 0 /\ d.dynEnable /\ d.sifu = r.dmc.sifu
  <2>1. mode \in WorkModes
    BY <1>4 DEF WorkModes, MovingModes
  <2>2. /\ d1 \in DmControl /\ d1.mode = mode /\ d1.dir = dir
        /\ d1.reqDir = group /\ d1.sifu = r.dmc.sifu
    BY <1>6, <1>4, <2>1 DEF DmControl
  <2> HIDE DEF d1
  <2>3. /\ d2 \in DmControl /\ d2.mode = d1.mode /\ d2.dir = d1.dir
        /\ d2.reqDir = d1.reqDir /\ d2.sifu = d1.sifu
    BY <2>2 DEF DmControl
  <2> HIDE DEF d2
  <2>4. /\ d \in DmControl /\ d.mode = d2.mode /\ d.dir = d2.dir
        /\ d.reqDir = d2.reqDir /\ d.sifu = d2.sifu
        /\ d.dyn = 0 /\ d.dynEnable
    BY <1>4, <2>3 DEF DmControl
  <2> QED BY <2>2, <2>3, <2>4
<1> HIDE DEF s, d
<1>9. CASE v = [r EXCEPT !.st = s, !.dmc = d]
  <2>1. /\ v \in World /\ v.st = s /\ v.dmc = d /\ v.mcu = w.mcu
        /\ v.pwr = w.pwr
    BY <1>1, <1>7, <1>8, <1>9 DEF World
  <2>2. Started(w, v)
    BY <1>1, <1>4, <1>5, <1>7, <1>8, <2>1 DEF Started
  <2> QED BY <2>1, <2>2 DEF v
<1>10. CASE v = w
  BY <1>10 DEF v
<1> QED BY <1>3, <1>9, <1>10

(* The requests do not change what the drive is ready for. *)
LEMMA RequestsObeyed ==
  ASSUME NEW w, NEW u, NEW v, SetsRequests(w, u), Obeyed(u, v)
  PROVE  Obeyed(w, v)
BY DEF SetsRequests, Obeyed, Kept, SameMotion, SameGates, Halted, Started

(* Nor do they make an unready drive. *)
LEMMA RequestsReady ==
  ASSUME NEW w, NEW u, Ready(w), SetsRequests(w, u)
  PROVE  Ready(u)
BY DEF Ready, SetsRequests, Consistent

(* A reversal stops the drive, now or later, or is refused. *)
LEMMA ReverseDriveEffect ==
  ASSUME NEW w, Ready(w)
  PROVE  ReverseDrive(w) \in World /\ Obeyed(w, ReverseDrive(w))
<1> DEFINE v == ReverseDrive(w)
           m == [w.mcu EXCEPT !.command = "Stop"]
           n == [w.mcu EXCEPT !.command = w.mcu.cw]
           o == [w.mcu EXCEPT !.cw = "None"]
           u == [w EXCEPT !.mcu = n]
<1>1. w \in World /\ w.mcu \in VlvDrvCtrl
  BY DEF Ready, World
<1>2. \/ v = [w EXCEPT !.mcu = m]
      \/ v = ValveDriveStop(u)
      \/ v = [w EXCEPT !.mcu = o]
  BY <1>1, ParamAssumption DEF ReverseDrive, World
<1>3. /\ m \in VlvDrvCtrl /\ m.startDelay = w.mcu.startDelay
      /\ n \in VlvDrvCtrl /\ n.startDelay = w.mcu.startDelay
      /\ o \in VlvDrvCtrl /\ o.startDelay = w.mcu.startDelay
  BY <1>1 DEF VlvDrvCtrl, Commands
<1> HIDE DEF v, m, n, o
<1>4. SetsRequests(w, u) /\ Ready(u)
  BY <1>1, <1>3, SetMcu, RequestsReady
<1>5. CASE v = [w EXCEPT !.mcu = m] \/ v = [w EXCEPT !.mcu = o]
  <2>1. SetsRequests(w, v)
    BY <1>1, <1>3, <1>5, SetMcu
  <2> QED BY <2>1 DEF SetsRequests, Obeyed, v
<1>6. CASE v = ValveDriveStop(u)
  <2> HIDE DEF u
  <2>1. v \in World /\ Halted(u, v)
    BY <1>4, <1>6, ValveDriveStopEffect, StopHalts DEF Ready
  <2>2. Obeyed(w, v)
    BY <1>4, <2>1, RequestsObeyed DEF Obeyed
  <2> QED BY <2>1, <2>2 DEF v
<1> QED BY <1>2, <1>5, <1>6

(* A movement begins from rest, or not at all. *)
LEMMA BeginMoveEffect ==
  ASSUME NEW w, Ready(w), NEW test, NEW sealed, NEW phase, w.st.stop
  PROVE  LET v == BeginMove(w, test, sealed, phase) IN
         v \in World /\ Obeyed(w, v)
<1> DEFINE v == BeginMove(w, test, sealed, phase)
           free == test \/ ~Calibrated
           brk == ~free /\ sealed
           tgt == ~free
           rse == w.mcu.releStopEnable /\ w.mcu.digital
           m == [w.mcu EXCEPT !.breakFlag = brk, !.target = tgt,
                              !.releStopEnable = rse]
           u == [w EXCEPT !.mcu = m]
<1>1. /\ w \in World /\ w.mcu \in VlvDrvCtrl
      /\ brk \in BOOLEAN /\ tgt \in BOOLEAN /\ rse \in BOOLEAN
  BY DEF Ready, World
<1>2. v = StartPowerControl(u, w.mcu.cw, phase)
  BY DEF BeginMove
<1> HIDE DEF v, free, brk, tgt, rse
<1>3. m \in VlvDrvCtrl /\ m.startDelay = w.mcu.startDelay
  BY <1>1 DEF VlvDrvCtrl
<1> HIDE DEF m
<1>4. SetsRequests(w, u) /\ Ready(u)
  BY <1>1, <1>3, SetMcu, RequestsReady
<1> HIDE DEF u
<1>5. u \in World /\ u.st.stop /\ ~u.st.closing /\ ~u.st.opening
  BY <1>4 DEF SetsRequests, Ready, Consistent
<1>6. v \in World /\ (v = u \/ Started(u, v))
  BY <1>2, <1>5, StartPowerControlEffect
<1>7. Obeyed(u, v)
  BY <1>6 DEF Obeyed, Kept, SameMotion, SameGates
<1>8. Obeyed(w, v)
  BY <1>4, <1>7, RequestsObeyed
<1> QED BY <1>6, <1>8 DEF v

(* The commands to close and to open. *)
LEMMA DriveCloseEffect ==
  ASSUME NEW w, Ready(w), NEW phase
  PROVE  DriveClose(w, phase) \in World /\ Obeyed(w, DriveClose(w, phase))
<1> DEFINE v == DriveClose(w, phase)
           test == w.mcu.cw = "TestClose"
<1>1. \/ v = w
      \/ v = ReverseDrive(w)
      \/ w.st.stop /\ v = BeginMove(w, test, SealsAt("vtClose"), phase)
  <2>1. ~w.st.opening /\ ~w.st.closing => w.st.stop
    BY DEF Ready, Consistent, World, StatusReg
  <2> QED BY <2>1 DEF DriveClose
<1> HIDE DEF v, test
<1>2. v \in World /\ Obeyed(w, v)
  BY <1>1, ReverseDriveEffect, BeginMoveEffect
  DEF Ready, Obeyed, Kept, SameMotion, SameGates
<1> QED BY <1>2 DEF v

(* To open. *)
LEMMA DriveOpenEffect ==
  ASSUME NEW w, Ready(w), NEW phase
  PROVE  DriveOpen(w, phase) \in World /\ Obeyed(w, DriveOpen(w, phase))
<1> DEFINE v == DriveOpen(w, phase)
           test == w.mcu.cw = "TestOpen"
<1>1. \/ v = w
      \/ v = ReverseDrive(w)
      \/ w.st.stop /\ v = BeginMove(w, test, SealsAt("vtOpen"), phase)
  <2>1. ~w.st.opening /\ ~w.st.closing => w.st.stop
    BY DEF Ready, Consistent, World, StatusReg
  <2> QED BY <2>1 DEF DriveOpen
<1> HIDE DEF v, test
<1>2. v \in World /\ Obeyed(w, v)
  BY <1>1, ReverseDriveEffect, BeginMoveEffect
  DEF Ready, Obeyed, Kept, SameMotion, SameGates
<1> QED BY <1>2 DEF v

(* Any command. *)
LEMMA DriveCommandEffect ==
  ASSUME NEW w, Ready(w), NEW phase
  PROVE  DriveCommand(w, phase) \in World /\ Obeyed(w, DriveCommand(w, phase))
<1> DEFINE v == DriveCommand(w, phase)
<1>1. \/ v = ValveDriveStop(w)
      \/ v = DriveClose(w, phase)
      \/ v = DriveOpen(w, phase)
      \/ v = w
  BY DEF DriveCommand
<1> SUFFICES v \in World /\ Obeyed(w, v)
  OBVIOUS
<1> HIDE DEF v
<1>2. CASE v = ValveDriveStop(w)
  BY <1>2, ValveDriveStopEffect, StopHalts DEF Ready, Obeyed
<1>3. CASE v = w
  BY <1>3 DEF Ready, Obeyed, Kept, SameMotion, SameGates
<1> QED BY <1>1, <1>2, <1>3, DriveCloseEffect, DriveOpenEffect

(***************************************************************************)
(* The command task.  A sound drive whose delay has run out is ready: it   *)
(* no longer brakes.                                                       *)
(***************************************************************************)
LEMMA SoundReady ==
  ASSUME NEW w, Sound(w), w.mcu.startDelay = 0
  PROVE  Ready(w)
<1>1. w.dmc.mode # "wmDynBrake"
  <2>1. StartDelayTime \in Nat
    BY TimeAssumption DEF Times
  <2> QED BY <2>1, TimeAssumption DEF Sound, BrakesSafely, Halting
<1>2. w.dmc.mode \in WorkModes
  BY DEF Sound, World, DmControl
<1> QED BY <1>1, <1>2
        DEF Ready, Sound, Consistent, MovesFreely, WorkModes

(* The command task after the requests: it waits, or obeys. *)
LEMMA UnitControlEffect ==
  ASSUME NEW w, Sound(w), NEW phase
  PROVE  LET v == UnitControl(w, phase) IN v \in World /\ Commanded(w, v)
<1> DEFINE u == UpdateComm(w)
           d == IF u.mcu.startDelay > 0
                THEN [u EXCEPT !.mcu.startDelay = @ - 1]
                ELSE IF u.mcu.cw # "None" THEN DriveCommand(u, phase) ELSE u
           v == [d EXCEPT !.mcu.cw = "None"]
<1>1. UnitControl(w, phase) = v
  BY DEF UnitControl
<1>2. w \in World /\ SetsRequests(w, u)
  BY UpdateCommEffect DEF Sound
<1>3. /\ u \in World /\ u.mcu \in VlvDrvCtrl
      /\ u.mcu.startDelay = w.mcu.startDelay
      /\ u.mcu.startDelay \in Nat /\ BlockDelay \in Nat
  BY <1>2, TimeAssumption DEF SetsRequests, Kept, World, VlvDrvCtrl, Times
<1> HIDE DEF u
<1>4. ASSUME NEW x \in World
      PROVE  SetsRequests(x, [x EXCEPT !.mcu.cw = "None"])
  <2> DEFINE m == [x.mcu EXCEPT !.cw = "None"]
  <2>1. m \in VlvDrvCtrl /\ m.startDelay = x.mcu.startDelay
    BY DEF World, VlvDrvCtrl, Commands
  <2>2. [x EXCEPT !.mcu.cw = "None"] = [x EXCEPT !.mcu = m]
    BY DEF World
  <2> HIDE DEF m
  <2> QED BY <2>1, <2>2, SetMcu
<1>5. CASE u.mcu.startDelay > 0
  <2> DEFINE m == [u.mcu EXCEPT !.startDelay = u.mcu.startDelay - 1]
  <2>1. m \in VlvDrvCtrl /\ m.startDelay = u.mcu.startDelay - 1
    BY <1>3, <1>5 DEF VlvDrvCtrl
  <2>2. d = [u EXCEPT !.mcu = m]
    BY <1>3, <1>5 DEF World
  <2> HIDE DEF m, d
  <2>3. d \in World /\ Waited(w, d)
    BY <1>2, <1>3, <1>5, <2>1, <2>2
    DEF World, Waited, SetsRequests, Kept, SameMotion, SameGates
  <2> HIDE DEF v
  <2>4. SetsRequests(d, v)
    BY <1>4, <2>3 DEF v
  <2> QED BY <1>1, <2>3, <2>4
          DEF Commanded, Waited, SetsRequests, Kept, SameMotion, SameGates
<1>6. CASE u.mcu.startDelay = 0
  <2>1. Ready(u)
    BY <1>2, <1>3, <1>6, SoundReady, RequestsReady
  <2>2. d = DriveCommand(u, phase) \/ d = u
    BY <1>6
  <2> HIDE DEF d
  <2>3. d \in World /\ Obeyed(u, d)
    BY <1>3, <2>1, <2>2, DriveCommandEffect
    DEF Obeyed, Kept, SameMotion, SameGates
  <2>4. Obeyed(w, d)
    BY <1>2, <2>3, RequestsObeyed
  <2> HIDE DEF v
  <2>5. SetsRequests(d, v)
    BY <1>4, <2>3 DEF v
  <2>6. Obeyed(w, v)
    BY <2>4, <2>5
    DEF Obeyed, SetsRequests, Kept, SameMotion, SameGates, Halted, Started
  <2> QED BY <1>1, <1>3, <1>6, <2>5, <2>6 DEF Commanded, SetsRequests
<1> QED BY <1>3, <1>5, <1>6

(* The command task as a whole. *)
LEMMA ValveDriveUpdateEffect ==
  ASSUME NEW w, Sound(w), NEW in
  PROVE  LET v == ValveDriveUpdate(w, in) IN v \in World /\ Commanded(w, v)
<1> DEFINE active == ActiveControls(in.local)
           t == TeleControl(w, in.tuEnable, in.tu, active)
           m == MpuControl(t, in.btn, in.pdu, active)
           v == UnitControl(m, in.phase)
<1>1. w \in World /\ SetsRequests(w, t)
  BY TeleControlEffect DEF Sound
<1>2. t \in World
  BY <1>1 DEF SetsRequests
<1>3. SetsRequests(t, m)
  BY <1>2, MpuControlEffect
<1> HIDE DEF active, t, m
<1>4. m \in World /\ Kept(w, m)
  BY <1>1, <1>3 DEF SetsRequests, Kept, SameMotion, SameGates
<1>5. Sound(m)
  BY <1>4, KeptSound
<1>6. v \in World /\ Commanded(m, v)
  BY <1>5, UnitControlEffect
<1>7. ValveDriveUpdate(w, in) = v
  BY DEF ValveDriveUpdate, active, t, m
<1> HIDE DEF v
<1>8. Commanded(w, v)
  BY <1>4, <1>6 DEF Commanded, Waited, Obeyed, Kept, SameMotion, SameGates,
                    Halted, Started
<1> QED BY <1>6, <1>7, <1>8

-----------------------------------------------------------------------------
(***************************************************************************)
(* The tasks besides those two move nothing; the position sensor may stop  *)
(* a drive at its target.                                                  *)
(***************************************************************************)
LEMMA SetPrt ==
  ASSUME NEW w \in World, NEW p \in ProtectionState
  PROVE  LET v == [w EXCEPT !.prt = p] IN v \in World /\ Idle(w, v)
BY DEF World, Idle, Kept, SameMotion, SameGates

(* Target reached. *)
LEMMA CalibStopEffect ==
  ASSUME NEW w, Sound(w), NEW reached
  PROVE  LET v == CalibStop(w, reached) IN v \in World /\ Idle(w, v)
<1> DEFINE v == CalibStop(w, reached)
           p == [w.prt EXCEPT !.overWay = TRUE]
<1>1. \/ v = w
      \/ v = [w EXCEPT !.prt.overWay = TRUE]
      \/ v = BlockStop(w) /\ ~w.st.stop
  BY DEF CalibStop, IsStopped
<1>2. w \in World /\ p \in ProtectionState
  BY DEF Sound, World, ProtectionState
<1>3. [w EXCEPT !.prt.overWay = TRUE] = [w EXCEPT !.prt = p]
  BY <1>2 DEF World
<1> SUFFICES v \in World /\ Idle(w, v)
  OBVIOUS
<1> HIDE DEF v, p
<1>4. CASE v = w
  BY <1>2, <1>4 DEF Idle, Kept, SameMotion, SameGates
<1>5. CASE v = [w EXCEPT !.prt.overWay = TRUE]
  BY <1>2, <1>3, <1>5, SetPrt
<1>6. CASE v = BlockStop(w) /\ ~w.st.stop
  <2>1. w.dmc.dynEnable
    BY <1>6 DEF Sound, MovesFreely
  <2> QED BY <1>2, <1>6, <2>1, BlockStopEffect
          DEF Idle, Halted, ModeAfterStop
<1> QED BY <1>1, <1>4, <1>5, <1>6

(* The end positions, and a command of the automatic calibration. *)
LEMMA ClbControlEffect ==
  ASSUME NEW w \in World, NEW zone,
         NEW autoCmd \in Commands
  PROVE  LET v == ClbControl(w, zone, autoCmd) IN v \in World /\ Idle(w, v)
<1> DEFINE v == ClbControl(w, zone, autoCmd)
           word == IF autoCmd # "None" THEN autoCmd ELSE w.mcu.cw
           s == [w.st EXCEPT !.closed = zone = "closed",
                             !.opened = zone = "opened"]
           m == [w.mcu EXCEPT !.cw = word]
<1>1. w.st \in StatusReg /\ w.mcu \in VlvDrvCtrl /\ word \in Commands
  BY DEF World, VlvDrvCtrl
<1>2. v = [w EXCEPT !.st = s, !.mcu = m]
  BY DEF ClbControl, World
<1> SUFFICES v \in World /\ Idle(w, v)
  OBVIOUS
<1> HIDE DEF v, word
<1>3. /\ s \in StatusReg /\ s.stop = w.st.stop
      /\ s.closing = w.st.closing /\ s.opening = w.st.opening
  BY <1>1 DEF StatusReg
<1>4. m \in VlvDrvCtrl /\ m.startDelay = w.mcu.startDelay
  BY <1>1 DEF VlvDrvCtrl
<1> HIDE DEF s, m
<1> QED BY <1>2, <1>3, <1>4
        DEF World, Idle, Kept, SameMotion, SameGates

(* The bits that follow their cause. *)
LEMMA FaultIndicationEffect ==
  ASSUME NEW w \in World, NEW posErr
  PROVE  LET v == FaultIndication(w, posErr) IN v \in World /\ Idle(w, v)
<1> DEFINE v == FaultIndication(w, posErr)
           d == (w.prt.defects \ {"Overway"})
                  \cup (IF w.prt.overWay THEN {"Overway"} ELSE {})
           f == (w.prt.faults \ {"PosSens"})
                  \cup (IF posErr /\ PosSensEnable # "pmOff"
                        THEN {"PosSens"} ELSE {})
           n == w.prt.delay - 1
           p == [w.prt EXCEPT !.delay = n]
           q == [w.prt EXCEPT !.defects = d, !.faults = f]
<1>1. /\ w.prt \in ProtectionState
      /\ d \in SUBSET {"Overway", "Other"} /\ f \in SUBSET FaultKinds
  BY DEF World, ProtectionState, FaultKinds
<1>2. \/ w.prt.delay > 0 /\ v = [w EXCEPT !.prt = p]
      \/ v = [w EXCEPT !.prt = q]
  BY <1>1 DEF FaultIndication, World, ProtectionState
<1> SUFFICES v \in World /\ Idle(w, v)
  OBVIOUS
<1> HIDE DEF v, d, f
<1>3. w.prt.delay > 0 => p \in ProtectionState
  BY <1>1 DEF ProtectionState
<1>4. q \in ProtectionState
  BY <1>1 DEF ProtectionState
<1> HIDE DEF p, q
<1> QED BY <1>2, <1>3, <1>4, SetPrt

(* The clutch is watched, and a confirmed reset is stored. *)
LEMMA ProtectionsEnableEffect ==
  ASSUME NEW w \in World, NEW muffTurn, NEW memReady \in BOOLEAN
  PROVE  LET v == ProtectionsEnable(w, muffTurn, memReady) IN
         v \in World /\ Idle(w, v)
<1> DEFINE v == ProtectionsEnable(w, muffTurn, memReady)
           clear == w.prt.isShcReset /\ memReady
           watch == IF muffTurn
                    THEN /\ w.dmc.mode \in MuffModes
                         /\ w.dmc.zazor = 0
                         /\ ~w.dmc.kickEnable
                    ELSE w.prt.mufEnable
           p == [w.prt EXCEPT !.mufEnable = watch,
                              !.isShcReset = @ /\ ~clear]
           q == [w.pwr EXCEPT !.scFaults = @ /\ ~clear,
                              !.eeReq = @ \/ clear]
<1>1. /\ w.prt \in ProtectionState /\ w.pwr \in PowerState
      /\ clear \in BOOLEAN /\ watch \in BOOLEAN
  BY DEF World, ProtectionState
<1>2. v = w \/ v = [w EXCEPT !.prt = p, !.pwr = q]
  BY DEF ProtectionsEnable
<1> SUFFICES v \in World /\ Idle(w, v)
  OBVIOUS
<1> HIDE DEF v, clear, watch
<1>3. p \in ProtectionState
  BY <1>1 DEF ProtectionState
<1>4. q \in PowerState /\ q.testMode = w.pwr.testMode
  BY <1>1 DEF PowerState
<1> HIDE DEF p, q
<1> QED BY <1>2, <1>3, <1>4
        DEF World, Idle, Kept, SameMotion, SameGates

(* What the memory writes of a stored short circuit. *)
LEMMA EepromUpdateEffect ==
  ASSUME NEW w \in World, NEW last \in BOOLEAN
  PROVE  /\ EepromUpdate(w, last) \in World
         /\ Idle(w, EepromUpdate(w, last))
<1> DEFINE q == [w.pwr EXCEPT !.eeSc = w.pwr.scFaults, !.eeReq = ~last]
           v == [w EXCEPT !.pwr = q]
<1>1. q \in PowerState /\ q.testMode = w.pwr.testMode
  BY DEF World, PowerState
<1>2. EepromUpdate(w, last) = v
  BY DEF EepromUpdate
<1> HIDE DEF q
<1>3. v \in World /\ Idle(w, v)
  BY <1>1 DEF World, Idle, Kept, SameMotion, SameGates
<1> QED BY <1>2, <1>3

(* A fault, a defect or the clutch is latched or let go. *)
LEMMA FaultTasksEffect ==
  ASSUME NEW w \in World, NEW f \in FaultKinds, NEW on
  PROVE  /\ RaiseFault(w, f) \in World /\ Idle(w, RaiseFault(w, f))
         /\ DropFault(w, f) \in World /\ Idle(w, DropFault(w, f))
         /\ SetDefect(w, on) \in World /\ Idle(w, SetDefect(w, on))
         /\ DiffInputCalc(w) \in World /\ Idle(w, DiffInputCalc(w))
<1> DEFINE d == (w.prt.defects \ {"Other"})
                  \cup (IF on THEN {"Other"} ELSE {})
           m == w.prt.muff \/ w.prt.mufEnable
           p1 == [w.prt EXCEPT !.faults = @ \cup {f}]
           p2 == [w.prt EXCEPT !.faults = @ \ {f}]
           p3 == [w.prt EXCEPT !.defects = d]
           p4 == [w.prt EXCEPT !.muff = m]
<1>1. /\ w.prt \in ProtectionState /\ m \in BOOLEAN
      /\ d \in SUBSET {"Overway", "Other"}
  BY DEF World, ProtectionState
<1>2. /\ RaiseFault(w, f) = [w EXCEPT !.prt = p1]
      /\ DropFault(w, f) = [w EXCEPT !.prt = p2]
  BY DEF RaiseFault, DropFault, World
<1>3. SetDefect(w, on) = [w EXCEPT !.prt = p3]
  BY DEF SetDefect, World
<1>4. DiffInputCalc(w) = [w EXCEPT !.prt = p4]
  BY DEF DiffInputCalc, World
<1> HIDE DEF d, m
<1>5. p1 \in ProtectionState /\ p2 \in ProtectionState
  BY <1>1 DEF ProtectionState
<1>6. p3 \in ProtectionState /\ p4 \in ProtectionState
  BY <1>1 DEF ProtectionState
<1> HIDE DEF p1, p2, p3, p4
<1> QED BY <1>2, <1>3, <1>4, <1>5, <1>6, SetPrt

(* The shaft turns the wrong way. *)
LEMMA EngPhOrdPrtEffect ==
  ASSUME NEW w \in World
  PROVE  EngPhOrdPrt(w) \in World /\ Idle(w, EngPhOrdPrt(w))
<1>1. EngPhOrdPrt(w) = w \/ EngPhOrdPrt(w) = RaiseFault(w, "PhOrd")
  BY DEF EngPhOrdPrt
<1>2. "PhOrd" \in FaultKinds
  BY DEF FaultKinds
<1>3. Idle(w, w)
  BY DEF Idle, Kept, SameMotion, SameGates
<1> QED BY <1>1, <1>2, <1>3, FaultTasksEffect

(* The operator's reset. *)
LEMMA AlgControlEffect ==
  ASSUME NEW w \in World
  PROVE  AlgControl(w) \in World /\ Idle(w, AlgControl(w))
<1> DEFINE v == AlgControl(w)
           s == [w.st EXCEPT !.fault = FALSE, !.defect = FALSE,
                             !.mufta = FALSE]
           p == [w.prt EXCEPT !.overWay = FALSE, !.muff = FALSE,
                              !.faults = {}, !.defects = {},
                              !.isShcReset = TRUE]
<1>1. v = w \/ v = [w EXCEPT !.st = s, !.prt = p]
  BY DEF AlgControl, ProtectionsClear
<1> SUFFICES v \in World /\ Idle(w, v)
  OBVIOUS
<1> HIDE DEF v
<1>2. w.st \in StatusReg /\ w.prt \in ProtectionState
  BY DEF World
<1>3. /\ s \in StatusReg /\ s.stop = w.st.stop
      /\ s.closing = w.st.closing /\ s.opening = w.st.opening
  BY <1>2 DEF StatusReg
<1>4. p \in ProtectionState
  BY <1>2 DEF ProtectionState
<1> HIDE DEF s, p
<1> QED BY <1>1, <1>3, <1>4
        DEF World, Idle, Kept, SameMotion, SameGates

(* Commands written and journalled. *)
LEMMA RequestTasksEffect ==
  ASSUME NEW w \in World, NEW word \in Commands
  PROVE  /\ GetCurrentCmd(w) \in World /\ Idle(w, GetCurrentCmd(w))
         /\ WriteControlWord(w, word) \in World
         /\ Idle(w, WriteControlWord(w, word))
<1> DEFINE m == [w.mcu EXCEPT !.digital = FALSE]
           n == [w.mcu EXCEPT !.cw = word]
<1>1. /\ GetCurrentCmd(w) = [w EXCEPT !.mcu = m]
      /\ WriteControlWord(w, word) = [w EXCEPT !.mcu = n]
  BY DEF GetCurrentCmd, WriteControlWord, World
<1>2. /\ m \in VlvDrvCtrl /\ m.startDelay = w.mcu.startDelay
      /\ n \in VlvDrvCtrl /\ n.startDelay = w.mcu.startDelay
  BY DEF World, VlvDrvCtrl
<1> HIDE DEF m, n
<1> QED BY <1>1, <1>2, SetMcu DEF SetsRequests, Idle

-----------------------------------------------------------------------------
(***************************************************************************)
(* Every call of the interrupt is a step of one of the three kinds.        *)
(***************************************************************************)
LEMMA BecomeNow ==
  ASSUME NEW v \in World, Become(v)
  PROVE  Now' = v
BY DEF World, Become, Now

(* Before its task, the protections. *)
LEMMA NowProtected ==
  ASSUME Sound(Now), NEW s
  PROVE  LET p == ProtectionsUpdate(Now, s) IN Protected(p) /\ Sound(p)
<1> DEFINE p == ProtectionsUpdate(Now, s)
<1>1. Now \in World /\ Now.st = st /\ Now.prt = prt
  BY DEF Sound, Now
<1>2. /\ p \in World
      /\ Kept(Now, p) \/ Coasts(Now, p)
      /\ /\ PosSensEnable = "pmSignStop" /\ ~Now.st.stop
         /\ Now.prt.muff \/ ActiveFaults(Now) # {}
         => Coasts(Now, p)
  BY <1>1, ProtectionsUpdateEffect
<1> HIDE DEF p
<1>3. Protected(p)
  BY <1>1, <1>2 DEF Protected
<1>4. Sound(p)
  BY <1>2, ProtectedSound
<1> QED BY <1>3, <1>4 DEF p

(* The motor task. *)
LEMMA ControlModeStep ==
  ASSUME Sound(Now), ControlModeTick
  PROVE  \E p : Interrupt(p) /\ Sound(p)
<1>1. PICK s, in :
        /\ Become(ControlMode(ProtectionsUpdate(Now, s), in))
        /\ ran' = TRUE /\ UNCHANGED rest
  BY Zenon DEF ControlModeTick, ControlModeWith
<1> DEFINE p == ProtectionsUpdate(Now, s)
           v == ControlMode(p, in)
<1>2. Protected(p) /\ Sound(p)
  BY NowProtected
<1> HIDE DEF p
<1>3. p \in World /\ ~p.pwr.testMode /\ p.dmc.mode # "wmTestThyr"
  BY <1>2 DEF Sound, Consistent
<1>4. v \in World /\ Motor(p, v)
  BY <1>3, ControlModeEffect
<1>5. Become(v)
  BY <1>1 DEF p
<1> HIDE DEF v
<1>6. Now' = v
  BY <1>4, <1>5, BecomeNow
<1> QED BY <1>1, <1>2, <1>4, <1>6 DEF Interrupt, TaskStep

(* The command task. *)
LEMMA ValveDriveUpdateStep ==
  ASSUME Sound(Now), ValveDriveUpdateTick
  PROVE  \E p : Interrupt(p) /\ Sound(p)
<1>1. PICK s, in :
        Become(ValveDriveUpdate(ProtectionsUpdate(Now, s), in))
  BY Zenon DEF ValveDriveUpdateTick
<1> DEFINE p == ProtectionsUpdate(Now, s)
           v == ValveDriveUpdate(p, in)
<1>2. Protected(p) /\ Sound(p)
  BY NowProtected
<1> HIDE DEF p
<1>3. v \in World /\ Commanded(p, v)
  BY <1>2, ValveDriveUpdateEffect
<1>4. Become(v)
  BY <1>1 DEF p
<1> HIDE DEF v
<1>5. Now' = v
  BY <1>3, <1>4, BecomeNow
<1>6. /\ ran /\ ran' = FALSE
      /\ rest' = IF ~st.stop \/ ~st'.stop THEN 0
                 ELSE IF rest < StartDelayTime THEN rest + 1 ELSE rest
  BY DEF ValveDriveUpdateTick
<1> QED BY <1>2, <1>3, <1>5, <1>6 DEF Interrupt, TaskStep

(***************************************************************************)
(* Any other task: it is enough that it keeps the world a world and lets   *)
(* the drive be or stops it.                                               *)
(***************************************************************************)
LEMMA OtherStep ==
  ASSUME NEW p, NEW v, Protected(p), v \in World, Idle(p, v), Run(v)
  PROVE  Interrupt(p)
<1>1. Now' = v
  BY BecomeNow DEF Run
<1> QED BY <1>1 DEF Interrupt, TaskStep, Run

(* Each of the other tasks is such a step. *)
LEMMA OtherTaskStep ==
  ASSUME Sound(Now), OtherTick
  PROVE  \E p : Interrupt(p) /\ Sound(p)
<1> DEFINE P(s) == ProtectionsUpdate(Now, s)
<1>1. ASSUME NEW s PROVE Protected(P(s)) /\ Sound(P(s)) /\ P(s) \in World
  BY NowProtected DEF Sound
<1> SUFFICES \E s, v : v \in World /\ Idle(P(s), v) /\ Run(v)
  BY <1>1, OtherStep
<1> HIDE DEF P
<1>2. CASE CalibStopTick
  <2>1. PICK s, reached : Run(CalibStop(P(s), reached))
    BY <1>2 DEF CalibStopTick, P
  <2> QED BY <1>1, <2>1, CalibStopEffect
<1>3. CASE ClbControlTick
  <2>1. PICK s \in Samples, zone \in Zones,
             autoCmd \in {"None"} \cup (Words \cap {"Close", "Open"}) :
          Run(ClbControl(P(s), zone, autoCmd))
    BY <1>3 DEF ClbControlTick, P
  <2>2. autoCmd \in Commands
    BY DEF Commands
  <2> QED BY <1>1, <2>1, <2>2, ClbControlEffect
<1>4. CASE FaultIndicationTick
  <2>1. PICK s, posErr : Run(FaultIndication(P(s), posErr))
    BY <1>4 DEF FaultIndicationTick, P
  <2> QED BY <1>1, <2>1, FaultIndicationEffect
<1>5. CASE ProtectionsEnableTick
  <2>1. PICK s \in Samples, muffTurn \in BOOLEAN,
             memReady \in MemReady :
          Run(ProtectionsEnable(P(s), muffTurn, memReady))
    BY <1>5 DEF ProtectionsEnableTick, P
  <2>2. memReady \in BOOLEAN
    BY DEF MemReady
  <2> QED BY <1>1, <2>1, <2>2, ProtectionsEnableEffect
<1>6. CASE DiffInputCalcTick
  <2>1. PICK s : Run(DiffInputCalc(P(s)))
    BY <1>6 DEF DiffInputCalcTick, P
  <2>2. "NoMove" \in FaultKinds
    BY DEF FaultKinds
  <2> QED BY <1>1, <2>1, <2>2, FaultTasksEffect
<1>7. CASE PrtCalcTick
  <2>1. PICK s \in Samples, f \in Faulty \cap LibraryKinds :
          Run(RaiseFault(P(s), f)) \/ Run(DropFault(P(s), f))
    BY <1>7 DEF PrtCalcTick, P
  <2>2. f \in FaultKinds
    BY DEF FaultKinds
  <2> QED BY <1>1, <2>1, <2>2, FaultTasksEffect
<1>8. CASE DefectTick
  <2>1. PICK s, on : Run(SetDefect(P(s), on))
    BY <1>8 DEF DefectTick, P
  <2>2. "NoMove" \in FaultKinds
    BY DEF FaultKinds
  <2> QED BY <1>1, <2>1, <2>2, FaultTasksEffect
<1>9. CASE EngPhOrdPrtTick
  <2>1. PICK s : Run(EngPhOrdPrt(P(s)))
    BY <1>9 DEF EngPhOrdPrtTick, P
  <2> QED BY <1>1, <2>1, EngPhOrdPrtEffect
<1>10. CASE AlgControlTick
  <2>1. PICK s : Run(AlgControl(P(s)))
    BY <1>10 DEF AlgControlTick, P
  <2> QED BY <1>1, <2>1, AlgControlEffect
<1>11. CASE GetCurrentCmdTick
  <2>1. PICK s : Run(GetCurrentCmd(P(s)))
    BY <1>11 DEF GetCurrentCmdTick, P
  <2>2. "None" \in Commands
    BY DEF Commands
  <2> QED BY <1>1, <2>1, <2>2, RequestTasksEffect
<1>12. CASE WriteControlWordTick
  <2>1. PICK s \in Samples, word \in Words : Run(WriteControlWord(P(s), word))
    BY <1>12 DEF WriteControlWordTick, P
  <2>2. word \in Commands
    BY InputAssumption
  <2> QED BY <1>1, <2>1, <2>2, RequestTasksEffect
<1>13. CASE EepromTick
  <2>1. PICK s \in Samples, last \in BOOLEAN : Run(EepromUpdate(P(s), last))
    BY <1>13 DEF EepromTick, P
  <2> QED BY <1>1, <2>1, EepromUpdateEffect
<1> QED BY <1>2, <1>3, <1>4, <1>5, <1>6, <1>7, <1>8, <1>9, <1>10, <1>11,
           <1>12, <1>13
        DEF OtherTick

(* Any step. *)
LEMMA EveryStep ==
  ASSUME Sound(Now), Next
  PROVE  \E p : Interrupt(p) /\ Sound(p)
BY ControlModeStep, ValveDriveUpdateStep, OtherTaskStep DEF Next

-----------------------------------------------------------------------------
(***************************************************************************)
(* A call of the interrupt keeps the invariant.  A stop, whichever task    *)
(* makes it, restarts the delay; only the end of the delay makes room for  *)
(* a start, and by then the motor task has closed the gates.               *)
(***************************************************************************)
LEMMA TimesNat ==
  /\ StartDelayTime \in Nat /\ BlockDelay \in Nat /\ NoCurrPause \in Nat
  /\ StartDelayTime >= 2 /\ BlockDelay > StartDelayTime /\ NoCurrPause >= 2
BY TimeAssumption DEF Times

(* A drive that a fault has just stopped waits for the full delay. *)
LEMMA CoastsWaits ==
  ASSUME NEW p, Sound(Now), Coasts(Now, p)
  PROVE  /\ ~st.stop /\ p.st.stop /\ p.dmc.mode = "wmStop"
         /\ ~p.st.closing /\ ~p.st.opening
         /\ p.mcu.startDelay = StartDelayTime
         /\ p.dmc.sifu = dmc.sifu /\ dmc.sifu \in {"none", dmc.reqDir}
BY DEF Coasts, Halted, SameGates, Now, Sound, MovesFreely

(* One that carries on does so unchanged. *)
LEMMA KeptSame ==
  ASSUME NEW p, Kept(Now, p)
  PROVE  /\ p.st.stop = st.stop /\ p.st.closing = st.closing
         /\ p.st.opening = st.opening /\ p.dmc.mode = dmc.mode
         /\ p.dmc.sifu = dmc.sifu /\ p.mcu.startDelay = mcu.startDelay
         /\ Halting(p) = Halting(Now)
BY DEF Kept, SameMotion, SameGates, Now, Halting

(* A task that stops a moving drive leaves it sound. *)
LEMMA IdleSound ==
  ASSUME NEW p, NEW v \in World, Sound(p), Idle(p, v)
  PROVE  Sound(v)
<1>1. CASE Kept(p, v)
  BY <1>1, KeptSound
<1>2. CASE Halted(p, v) /\ ~p.st.stop
  <2>1. /\ p.dmc.mode \in MovingModes /\ p.dmc.dyn = 0
        /\ v.st.stop = TRUE
    BY <1>2
    DEF Halted, Sound, World, StatusReg, Consistent, BrakesSafely, MovingModes
  <2>2. Consistent(v) /\ MovesFreely(v)
    BY <1>2, <2>1
    DEF Sound, Consistent, MovesFreely, Halted, SameGates, MovingModes
  <2>3. BrakesSafely(v)
    BY <1>2, <2>1, TimesNat DEF BrakesSafely, Halted, SameGates, Halting
  <2> QED BY <2>2, <2>3 DEF Sound
<1> QED BY <1>1, <1>2 DEF Idle

(* The command task leaves a sound drive sound. *)
LEMMA CommandedSound ==
  ASSUME NEW p, NEW v \in World, Sound(p), Commanded(p, v),
         Halting(p) => p.mcu.startDelay # StartDelayTime - 1
  PROVE  /\ Sound(v)
         /\ p.st.stop /\ ~v.st.stop
              => p.mcu.startDelay = 0 /\ p.dmc.sifu = "none"
<1>1. /\ p.mcu.startDelay \in Nat /\ v.mcu.startDelay \in Nat
      /\ p.st.stop \in BOOLEAN /\ v.st.stop \in BOOLEAN
      /\ p.dmc.mode \in WorkModes /\ p.dmc.dyn \in Nat
      /\ p.st.closing \in BOOLEAN /\ p.st.opening \in BOOLEAN
      /\ v.st.closing \in BOOLEAN /\ v.st.opening \in BOOLEAN
  BY TimesNat DEF Sound, World, VlvDrvCtrl, StatusReg, DmControl
<1>2. CASE Waited(p, v)
  <2>1. Consistent(v) /\ p.st.stop = v.st.stop
    BY <1>2 DEF Sound, Waited, SameMotion, SameGates, Consistent
  <2>2. p.st.stop
    BY <1>1, <1>2 DEF Sound, Waited, MovesFreely
  <2>3. BrakesSafely(v)
    BY <1>1, <1>2, TimesNat
    DEF Sound, Waited, SameMotion, SameGates, BrakesSafely, Halting
  <2> QED BY <2>1, <2>2, <2>3 DEF Sound, MovesFreely
<1>3. CASE p.mcu.startDelay = 0 /\ Kept(p, v)
  BY <1>3, KeptSound DEF Kept, SameMotion
<1>4. CASE p.mcu.startDelay = 0 /\ Halted(p, v)
  <2>1. ~Halting(p)
    BY <1>4, TimesNat DEF Sound, BrakesSafely
  <2>2. Consistent(v) /\ MovesFreely(v)
    BY <1>1, <1>4
    DEF Sound, Consistent, MovesFreely, Halted, SameGates, MovingModes
  <2>3. p.dmc.dyn = 0
    BY <2>1 DEF Sound, BrakesSafely, Halting
  <2>4. BrakesSafely(v)
    BY <1>4, <2>3, TimesNat DEF BrakesSafely, Halted, SameGates, Halting
  <2> QED BY <1>4, <2>2, <2>4 DEF Sound, Halted
<1>5. CASE p.mcu.startDelay = 0 /\ Started(p, v)
  <2>1. ~Halting(p)
    BY <1>5, TimesNat DEF Sound, BrakesSafely
  <2>2. p.dmc.sifu = "none"
    BY <1>5, <2>1 DEF Started, Halting
  <2>3. Consistent(v)
    BY <1>1, <1>5 DEF Sound, Consistent, Started, MovingModes
  <2>4. MovesFreely(v)
    BY <1>5, <2>2 DEF MovesFreely, Started
  <2>5. BrakesSafely(v)
    BY <1>5 DEF BrakesSafely, Started, Halting
  <2> QED BY <1>5, <2>2, <2>3, <2>4, <2>5 DEF Sound
<1> QED BY <1>2, <1>3, <1>4, <1>5 DEF Commanded, Obeyed

(***************************************************************************)
(* The invariant: at the start, and after every call of the interrupt.     *)
(***************************************************************************)
LEMMA DriveInvInit ==
  ASSUME Init
  PROVE  DriveInv
<1>1. st \in StatusReg
  BY DEF Init, StatusReg
<1>2. mcu \in VlvDrvCtrl
  BY TimesNat DEF Init, VlvDrvCtrl, Commands
<1>3. dmc \in DmControl
  BY DEF Init, DmControl, WorkModes, Gates
<1>4. prt \in ProtectionState
  BY TimeAssumption DEF Init, ProtectionState, Times
<1>5. pwr \in PowerState
  BY DEF Init, PowerState, Gates
<1>6. Now \in World
  BY <1>1, <1>2, <1>3, <1>4, <1>5 DEF Now, World
<1>7. Consistent(Now) /\ MovesFreely(Now) /\ BrakesSafely(Now) /\ ~Halting(Now)
  BY DEF Init, Now, Consistent, MovesFreely, BrakesSafely, Halting, MovingModes
<1>8. Paced
  <2>1. /\ st.stop = TRUE /\ mcu.startDelay = 0
        /\ ran = FALSE /\ rest = StartDelayTime
    BY DEF Init
  <2>2. rest \in 0 .. StartDelayTime
    BY <2>1, TimesNat
  <2>3. rest + mcu.startDelay >= StartDelayTime - 1
    BY <2>1, TimesNat
  <2> QED BY <2>1, <2>2, <2>3 DEF Paced
<1> QED BY <1>6, <1>7, <1>8 DEF DriveInv, Sound

(* What a call of the interrupt does to a sound drive. *)
LEMMA InterruptSound ==
  ASSUME DriveInv, NEW p, Interrupt(p), Sound(p)
  PROVE  /\ Sound(Now') /\ Now'.st = st' /\ Now'.mcu = mcu' /\ Now'.dmc = dmc'
         /\ Halting(p) /\ ran => p.mcu.startDelay # StartDelayTime - 1
         /\ st.stop /\ ~st'.stop
              => /\ Kept(Now, p) /\ Commanded(p, Now')
                 /\ mcu.startDelay = 0 /\ dmc.sifu = "none"
<1> DEFINE v == Now'
<1>1. v \in World /\ v.st = st' /\ v.mcu = mcu' /\ v.dmc = dmc'
  BY DEF Interrupt, Now
<1>2. Now.st = st /\ Now.mcu = mcu /\ Now.dmc = dmc /\ Sound(Now)
  BY DEF Now, DriveInv
<1>3. Kept(Now, p) \/ Coasts(Now, p)
  BY DEF Interrupt, Protected
<1>4. Halting(p) /\ ran => p.mcu.startDelay # StartDelayTime - 1
  BY <1>2, <1>3, KeptSame, CoastsWaits, TimesNat DEF DriveInv, Paced
<1>5. TaskStep(p)
  BY DEF Interrupt
<1>6. CASE Motor(p, v)
  <2>1. Sound(v)
    BY <1>1, <1>6, MotorSound
  <2>2. v.st.stop = p.st.stop
    BY <1>6 DEF Motor
  <2>3. ~(st.stop /\ ~st'.stop)
    BY <1>1, <1>2, <1>3, <2>2, KeptSame, CoastsWaits
  <2> QED BY <1>1, <1>4, <2>1, <2>3
<1>7. CASE Commanded(p, v) /\ ran
  <2>1. /\ Sound(v)
        /\ p.st.stop /\ ~v.st.stop
             => p.mcu.startDelay = 0 /\ p.dmc.sifu = "none"
    BY <1>1, <1>4, <1>7, CommandedSound
  <2>2. st.stop => Kept(Now, p)
    BY <1>2, <1>3, CoastsWaits
  <2> QED BY <1>1, <1>4, <1>7, <2>1, <2>2, KeptSame
<1>8. CASE Idle(p, v)
  <2>1. Sound(v)
    BY <1>1, <1>8, IdleSound
  <2>2. ~(st.stop /\ ~st'.stop)
    BY <1>1, <1>2, <1>3, <1>8, KeptSame, CoastsWaits
    DEF Idle, Kept, SameMotion, Halted
  <2> QED BY <1>1, <1>4, <2>1, <2>2
<1> QED BY <1>5, <1>6, <1>7, <1>8 DEF TaskStep

(* The inductive step: each kind of call keeps the delay and rest in pace. *)
LEMMA DriveInvStep ==
  ASSUME DriveInv, [Next]_vars
  PROVE  DriveInv'
<1>1. CASE UNCHANGED vars
  <2>1. Now' = Now
    BY <1>1 DEF vars, Now
  <2> QED BY <1>1, <2>1 DEF vars, DriveInv, Paced
<1>2. CASE Next
  <2>1. PICK p : Interrupt(p) /\ Sound(p)
    BY <1>2, EveryStep DEF DriveInv
  <2> DEFINE v == Now'
  <2>2. /\ Sound(v) /\ v.st = st' /\ v.mcu = mcu' /\ v.dmc = dmc'
        /\ st.stop /\ ~st'.stop
             => /\ Kept(Now, p) /\ Commanded(p, v)
                /\ mcu.startDelay = 0 /\ dmc.sifu = "none"
    BY <2>1, InterruptSound
  <2>3. /\ Now.st = st /\ Now.mcu = mcu /\ Sound(Now) /\ Paced
    BY DEF Now, DriveInv
  <2>4. Kept(Now, p) \/ Coasts(Now, p)
    BY <2>1 DEF Interrupt, Protected
  <2>5. TaskStep(p)
    BY <2>1 DEF Interrupt
  <2>6. /\ mcu.startDelay \in Nat /\ v.mcu.startDelay \in Nat
        /\ p.mcu.startDelay \in Nat
        /\ st.stop \in BOOLEAN /\ v.st.stop \in BOOLEAN
        /\ p.st.stop \in BOOLEAN
    BY <2>1, <2>2, <2>3, TimesNat DEF Sound, World, VlvDrvCtrl, StatusReg
  <2>7. rest \in 0 .. StartDelayTime /\ ran \in BOOLEAN
    BY <2>3 DEF Paced
  <2>8. st.stop => rest + mcu.startDelay >= StartDelayTime - 1
    BY <2>3 DEF Paced
  <2>9. /\ st.stop => /\ p.st.stop /\ p.mcu.startDelay = mcu.startDelay
        /\ Halting(p) /\ p.mcu.startDelay = StartDelayTime - 1 => ~ran
    BY <2>3, <2>4, KeptSame, CoastsWaits, TimesNat DEF Paced
  <2>10. /\ ~st.stop /\ p.st.stop => p.mcu.startDelay = StartDelayTime
    BY <2>3, <2>4, KeptSame, CoastsWaits
  <2> SUFFICES /\ ran' \in BOOLEAN /\ rest' \in 0 .. StartDelayTime
               /\ Halting(v) /\ v.mcu.startDelay = StartDelayTime - 1 => ~ran'
               /\ v.st.stop => rest' + v.mcu.startDelay >= StartDelayTime - 1
               /\ ~v.st.stop => rest' = 0
    BY <2>2 DEF DriveInv, Paced
  <2>11. ~st.stop => rest = 0
    BY <2>3 DEF Paced
  <2> HIDE DEF v
  <2>12. CASE Motor(p, v) /\ ran' = TRUE /\ rest' = rest
    <3>1. Halting(v) => v.mcu.startDelay # StartDelayTime - 1
      BY <2>1, <2>2, <2>12, MotorSound DEF Sound
    <3>2. v.st.stop = p.st.stop
      BY <2>12 DEF Motor
    <3>3. v.st.stop => \/ v.mcu.startDelay = p.mcu.startDelay
                       \/ v.mcu.startDelay >= StartDelayTime
      BY <2>12, TimesNat DEF Motor
    <3> QED BY <2>6, <2>7, <2>8, <2>9, <2>10, <2>11, <2>12, <3>1, <3>2, <3>3,
               TimesNat
  <2>13. CASE /\ Commanded(p, v) /\ ran' = FALSE
              /\ rest' = IF ~st.stop \/ ~v.st.stop THEN 0
                         ELSE IF rest < StartDelayTime THEN rest + 1 ELSE rest
    <3>1. v.st.stop =>
            \/ p.st.stop /\ v.mcu.startDelay = p.mcu.startDelay
            \/ p.st.stop /\ v.mcu.startDelay = p.mcu.startDelay - 1
            \/ v.mcu.startDelay = StartDelayTime
      BY <2>6, <2>13
      DEF Commanded, Waited, Obeyed, Kept, SameMotion, Halted, Started
    <3>2. rest' \in 0 .. StartDelayTime
      BY <2>7, <2>13, TimesNat
    <3>3. v.st.stop => rest' + v.mcu.startDelay >= StartDelayTime - 1
      <4>1. CASE st.stop
        BY <2>6, <2>7, <2>8, <2>9, <2>13, <3>1, <4>1, TimesNat
      <4>2. CASE ~st.stop
        BY <2>6, <2>10, <2>13, <3>1, <4>2, TimesNat DEF Commanded
      <4> QED BY <4>1, <4>2
    <3>4. ~v.st.stop => rest' = 0
      BY <2>13
    <3> QED BY <2>13, <3>2, <3>3, <3>4
  <2>14. CASE Idle(p, v) /\ ran' = ran /\ rest' = rest
    <3>1. CASE Kept(p, v)
      <4>1. /\ v.st.stop = p.st.stop /\ v.mcu.startDelay = p.mcu.startDelay
            /\ Halting(v) = Halting(p)
        BY <3>1 DEF Kept, SameMotion, SameGates, Halting
      <4> QED BY <2>6, <2>7, <2>8, <2>9, <2>10, <2>11, <2>14, <4>1, TimesNat
    <3>2. CASE Halted(p, v) /\ ~p.st.stop
      <4>1. v.st.stop /\ v.mcu.startDelay = StartDelayTime
        BY <3>2 DEF Halted
      <4> QED BY <2>7, <2>14, <4>1, TimesNat
    <3> QED BY <2>14, <3>1, <3>2 DEF Idle
  <2> QED BY <2>2, <2>5, <2>12, <2>13, <2>14 DEF TaskStep, v
<1> QED BY <1>1, <1>2

(***************************************************************************)
(* The inductive invariant holds of the drive.                             *)
(***************************************************************************)
THEOREM InvariantHolds == Spec => []DriveInv
<1>1. Init => DriveInv
  BY DriveInvInit
<1>2. DriveInv /\ [Next]_vars => DriveInv'
  BY DriveInvStep
<1> QED BY <1>1, <1>2, PTL DEF Spec

(***************************************************************************)
(* Types: every field stays in its range, whatever the inputs; the start   *)
(* delay, in particular, is never counted below zero.                      *)
(***************************************************************************)
THEOREM TypesHold == Spec => []TypeOK
<1>1. DriveInv => TypeOK
  BY DEF DriveInv, Sound, Paced, TypeOK
<1> QED BY <1>1, InvariantHolds, PTL

(***************************************************************************)
(* The status word of ValveDriveUpdate and the state machine of            *)
(* ControlMode agree in every reachable state.                             *)
(***************************************************************************)
THEOREM StatusHolds == Spec => []StatusAgrees
<1>1. DriveInv => StatusAgrees
  BY DEF DriveInv, Sound, Consistent, StatusAgrees, Now
<1> QED BY <1>1, InvariantHolds, PTL

(***************************************************************************)
(* No stop command is ever discarded while the drive moves: the delay that *)
(* makes UnitControl discard commands never runs then.                     *)
(***************************************************************************)
THEOREM StopNeverLost == Spec => []NoLockoutWhileMoving
<1>1. DriveInv => NoLockoutWhileMoving
  BY DEF DriveInv, Sound, MovesFreely, NoLockoutWhileMoving, Moving, Now
<1> QED BY <1>1, InvariantHolds, PTL

(***************************************************************************)
(* START_DELAY_TIME: the drive rests between a stop and the next start.    *)
(***************************************************************************)
THEOREM RestHolds == Spec => RestBeforeStart
<1>1. ASSUME DriveInv, [Next]_vars
      PROVE  [st.stop /\ ~st'.stop => rest >= StartDelayTime - 1]_vars
  <2>1. CASE UNCHANGED vars
    BY <2>1
  <2>2. CASE Next
    <3>1. PICK p : Interrupt(p) /\ Sound(p)
      BY <1>1, <2>2, EveryStep DEF DriveInv
    <3>2. st.stop /\ ~st'.stop => mcu.startDelay = 0
      BY <1>1, <3>1, InterruptSound
    <3>3. rest \in Nat /\ (st.stop => rest + mcu.startDelay >= StartDelayTime - 1)
      BY <1>1, TimesNat DEF DriveInv, Paced
    <3> QED BY <3>2, <3>3, TimesNat
  <2> QED BY <1>1, <2>1, <2>2
<1>2. DriveInv /\ [Next]_vars
        => [st.stop /\ ~st'.stop => rest >= StartDelayTime - 1]_vars
  BY <1>1
<1> QED BY <1>2, InvariantHolds, PTL DEF Spec, RestBeforeStart

(***************************************************************************)
(* If a fault of the position sensor is set to stop the drive (then the    *)
(* flag onlyPosSens plays no part), every active fault and a tripped       *)
(* clutch stop a moving drive within one call, and it coasts.              *)
(***************************************************************************)
THEOREM CoastHolds == PosSensEnable = "pmSignStop" /\ Spec => FaultCoasts
<1> SUFFICES ASSUME PosSensEnable = "pmSignStop"
             PROVE  Spec => FaultCoasts
  OBVIOUS
<1>1. ASSUME DriveInv, [Next]_vars
      PROVE  [Moving /\ (prt.muff \/ ActiveFaults(Now) # {})
                => st'.stop /\ dmc'.mode = "wmStop"]_vars
  <2>1. CASE UNCHANGED vars
    BY <2>1
  <2>2. CASE Next
    <3>1. PICK p : Interrupt(p) /\ Sound(p)
      BY <1>1, <2>2, EveryStep DEF DriveInv
    <3>2. SUFFICES ASSUME ~st.stop, prt.muff \/ ActiveFaults(Now) # {}
                   PROVE  st'.stop /\ dmc'.mode = "wmStop"
      BY DEF Moving
    <3>3. Coasts(Now, p)
      BY <1>1, <3>1, <3>2 DEF Interrupt, Protected
    <3>4. /\ p.st.stop /\ p.dmc.mode = "wmStop"
          /\ p.mcu.startDelay = StartDelayTime
      BY <1>1, <3>3, CoastsWaits DEF DriveInv
    <3> DEFINE v == Now'
    <3>5. v.st = st' /\ v.dmc = dmc'
      BY DEF Now
    <3>6. Motor(p, v) \/ Commanded(p, v) \/ Idle(p, v)
      BY <3>1 DEF Interrupt, TaskStep
    <3> HIDE DEF v
    <3>7. v.st.stop /\ v.dmc.mode = "wmStop"
      <4>1. CASE Motor(p, v)
        BY <3>4, <4>1 DEF Motor, MovingModes
      <4>2. CASE Commanded(p, v)
        <5>1. p.mcu.startDelay # 0
          BY <3>4, TimesNat
        <5>2. Waited(p, v)
          BY <4>2, <5>1 DEF Commanded
        <5> QED BY <3>4, <5>2 DEF Waited, SameMotion
      <4>3. CASE Idle(p, v)
        BY <3>4, <4>3 DEF Idle, Kept, SameMotion
      <4> QED BY <3>6, <4>1, <4>2, <4>3
    <3> QED BY <3>5, <3>7
  <2> QED BY <1>1, <2>1, <2>2
<1>2. DriveInv /\ [Next]_vars
        => [Moving /\ (prt.muff \/ ActiveFaults(Now) # {})
              => st'.stop /\ dmc'.mode = "wmStop"]_vars
  BY <1>1
<1> QED BY <1>2, InvariantHolds, PTL DEF Spec, FaultCoasts

-----------------------------------------------------------------------------
(***************************************************************************)
(* The tasks implement the abstract drive of DriveMotion.  A step of the   *)
(* motor task on a drive that no fault has stopped:                        *)
(***************************************************************************)
MotionOf(w) == IF w.st.opening THEN "opening"
               ELSE IF w.st.closing THEN "closing" ELSE "idle"

Stutters(w, v) == MotionOf(v) = MotionOf(w) /\ v.dmc.sifu = w.dmc.sifu

Moves(w, v) ==
  \/ Stutters(w, v)
  \/ /\ MotionOf(w) = "idle" /\ w.dmc.sifu = "none"
     /\ MotionOf(v) \in {"closing", "opening"} /\ v.dmc.sifu = w.dmc.sifu
  \/ /\ MotionOf(w) # "idle" /\ w.dmc.sifu = "none"
     /\ v.dmc.sifu \in {"up", "down"} /\ MotionOf(v) = MotionOf(w)
  \/ /\ MotionOf(w) # "idle" /\ MotionOf(v) = "idle"
     /\ v.dmc.sifu \in {w.dmc.sifu, "none"}
  \/ /\ MotionOf(w) = "idle" /\ MotionOf(v) = "idle"
     /\ v.dmc.sifu = "none"
  \/ /\ MotionOf(w) = "idle" /\ w.dmc.sifu = "none"
     /\ MotionOf(v) = "idle" /\ v.dmc.sifu = "brake"

(* Moves is the next-state relation of the abstract drive. *)
LEMMA MovesIsNext ==
  ASSUME Moves(Now, Now')
  PROVE  [Motion!Next]_(Motion!vars)
<1>1. MotionOf(Now) = motion /\ Now.dmc.sifu = dmc.sifu
  BY DEF MotionOf, Now, motion
<1>2. MotionOf(Now') = motion' /\ Now'.dmc.sifu = dmc'.sifu
  BY DEF MotionOf, Now, motion
<1> QED BY <1>1, <1>2
        DEF Moves, Stutters, Motion!Next, Motion!vars, Motion!Start,
            Motion!Energise, Motion!Stop, Motion!SwitchOff, Motion!Brake,
            Motion!Groups

(* A sound drive is idle exactly when it is stopped. *)
LEMMA SoundMotion ==
  ASSUME NEW w, Sound(w)
  PROVE  /\ w.st.stop => MotionOf(w) = "idle"
         /\ ~w.st.stop => MotionOf(w) \in {"opening", "closing"}
BY DEF Sound, Consistent, MotionOf, World, StatusReg

(* The motor task. *)
LEMMA MotorMoves ==
  ASSUME NEW p, NEW v \in World, Sound(p), Motor(p, v)
  PROVE  Moves(p, v)
<1>1. MotionOf(v) = MotionOf(p)
  BY DEF Motor, MotionOf
<1>2. CASE p.dmc.mode \in MovingModes /\ CarriesOn(p.dmc, v.dmc)
  <2>1. ~p.st.stop
    BY <1>2 DEF Sound, Consistent
  <2>2. /\ p.dmc.sifu \in {"none", p.dmc.reqDir} /\ p.dmc.reqDir \in {"up", "down"}
    BY <2>1 DEF Sound, World, DmControl, MovesFreely
  <2>3. v.dmc.sifu \in {p.dmc.sifu, p.dmc.reqDir}
    BY <1>2 DEF CarriesOn
  <2> QED BY <1>1, <2>1, <2>2, <2>3, SoundMotion DEF Moves, Stutters
<1>3. CASE p.dmc.mode \in {"wmStop", "wmDynBrake"}
  <2>1. MotionOf(p) = "idle"
    BY <1>3, SoundMotion DEF Sound, Consistent, MovingModes
  <2>2. p.dmc.dyn \in Nat /\ NoCurrPause \in Nat /\ NoCurrPause >= 2
    BY TimesNat DEF Sound, World, DmControl
  <2>3. \/ v.dmc.sifu = "none" \/ v.dmc.sifu = p.dmc.sifu
        \/ /\ p.dmc.mode = "wmDynBrake" /\ v.dmc.sifu = "brake"
           /\ p.dmc.dyn + 1 >= NoCurrPause
    BY <1>3, <2>2 DEF Motor, MovingModes
  <2>4. ASSUME p.dmc.mode = "wmDynBrake", p.dmc.dyn + 1 >= NoCurrPause
        PROVE  p.dmc.sifu \in {"none", "brake"}
    <3>1. p.dmc.dyn > 0
      BY <2>2, <2>4
    <3> QED BY <2>4, <3>1 DEF Sound, BrakesSafely
  <2> QED BY <1>1, <2>1, <2>3, <2>4 DEF Moves, Stutters
<1> QED BY <1>2, <1>3 DEF Motor

(* A stop leaves the gates as they are. *)
LEMMA HaltedMoves ==
  ASSUME NEW p, NEW v, Sound(p), Halted(p, v)
  PROVE  Moves(p, v)
<1>1. MotionOf(v) = "idle" /\ v.dmc.sifu = p.dmc.sifu
  BY DEF Halted, SameGates, MotionOf
<1> QED BY <1>1, SoundMotion DEF Moves, Stutters

(* A task that lets the drive be stutters. *)
LEMMA KeptMoves ==
  ASSUME NEW p, NEW v, Kept(p, v)
  PROVE  Stutters(p, v)
BY DEF Kept, SameMotion, SameGates, Stutters, MotionOf

(* The command task starts the abstract drive, stops it, or stutters. *)
LEMMA CommandedMoves ==
  ASSUME NEW p, NEW v \in World, Sound(p), Commanded(p, v),
         Halting(p) => p.mcu.startDelay # StartDelayTime - 1
  PROVE  Moves(p, v)
<1>1. CASE Waited(p, v)
  BY <1>1 DEF Waited, SameMotion, SameGates, Moves, Stutters, MotionOf
<1>2. CASE Kept(p, v)
  BY <1>2, KeptMoves DEF Moves
<1>3. CASE Halted(p, v)
  BY <1>3, HaltedMoves
<1>4. CASE Started(p, v)
  <2>1. Sound(v) /\ p.dmc.sifu = "none"
    BY <1>4, CommandedSound DEF Started
  <2>2. /\ MotionOf(p) = "idle" /\ MotionOf(v) \in {"opening", "closing"}
        /\ v.dmc.sifu = p.dmc.sifu
    BY <1>4, <2>1, SoundMotion DEF Started
  <2> QED BY <2>1, <2>2 DEF Moves
<1> QED BY <1>1, <1>2, <1>3, <1>4 DEF Commanded, Obeyed

(* When the protections have stopped the drive, the task may only let the  *)
(* gates go.                                                               *)
LEMMA CoastsMoves ==
  ASSUME NEW p, NEW v, Sound(Now), Coasts(Now, p),
         Motor(p, v) \/ Commanded(p, v) \/ Idle(p, v)
  PROVE  Moves(Now, v)
<1>1. /\ Now.st.stop = st.stop /\ Now.dmc.sifu = dmc.sifu
      /\ MotionOf(Now) # "idle"
  BY SoundMotion DEF Coasts, Now
<1>2. /\ p.st.stop /\ p.dmc.mode = "wmStop" /\ p.dmc.sifu = dmc.sifu
      /\ ~p.st.closing /\ ~p.st.opening /\ p.mcu.startDelay # 0
  BY CoastsWaits, TimesNat
<1>3. MotionOf(p) = "idle"
  BY <1>2 DEF MotionOf
<1>4. MotionOf(v) = "idle" /\ v.dmc.sifu \in {p.dmc.sifu, "none"}
  <2>1. CASE Motor(p, v)
    BY <1>2, <1>3, <2>1 DEF Motor, MotionOf, MovingModes
  <2>2. CASE Commanded(p, v)
    BY <1>2, <1>3, <2>2 DEF Commanded, Waited, SameMotion, SameGates, MotionOf
  <2>3. CASE Idle(p, v)
    BY <1>2, <1>3, <2>3 DEF Idle, Kept, SameMotion, SameGates, MotionOf
  <2> QED BY <2>1, <2>2, <2>3
<1> QED BY <1>1, <1>2, <1>4 DEF Moves

(***************************************************************************)
(* Refinement: no interleaving of the tasks drives both thyristor groups   *)
(* without a pause, changes the group of a movement, starts a movement     *)
(* with gates open, or brakes a drive whose gates were just firing.        *)
(***************************************************************************)
THEOREM DriveImplementsMotion == Spec => MotionSpec
<1>1. ASSUME Init
      PROVE  Motion!Init
  BY <1>1 DEF Init, Motion!Init, motion
<1>2. ASSUME DriveInv, [Next]_vars
      PROVE  [Motion!Next]_(Motion!vars)
  <2>1. CASE UNCHANGED vars
    BY <2>1 DEF vars, Motion!vars, motion
  <2>2. CASE Next
    <3>1. PICK p : Interrupt(p) /\ Sound(p)
      BY <1>2, <2>2, EveryStep DEF DriveInv
    <3> DEFINE v == Now'
    <3>2. /\ Sound(Now) /\ v \in World /\ TaskStep(p)
          /\ Kept(Now, p) \/ Coasts(Now, p)
          /\ Halting(p) /\ ran => p.mcu.startDelay # StartDelayTime - 1
      BY <1>2, <3>1, InterruptSound DEF DriveInv, Interrupt, Protected
    <3>3. Motor(p, v) \/ (Commanded(p, v) /\ ran) \/ Idle(p, v)
      BY <3>2 DEF TaskStep
    <3> SUFFICES Moves(Now, v)
      BY MovesIsNext
    <3> HIDE DEF v
    <3>4. CASE Coasts(Now, p)
      BY <3>2, <3>3, <3>4, CoastsMoves
    <3>5. CASE Kept(Now, p)
      <4>1. Stutters(Now, p)
        BY <3>5, KeptMoves
      <4>2. Moves(p, v)
        BY <3>1, <3>2, <3>3, MotorMoves, CommandedMoves, HaltedMoves, KeptMoves
        DEF Idle, Moves
      <4> QED BY <4>1, <4>2 DEF Moves, Stutters
    <3> QED BY <3>2, <3>4, <3>5
  <2> QED BY <1>2, <2>1, <2>2
<1>3. DriveInv /\ [Next]_vars => [Motion!Next]_(Motion!vars)
  BY <1>2
<1>4. Init => Motion!Init
  BY <1>1
<1> QED BY <1>3, <1>4, InvariantHolds, PTL DEF Spec, MotionSpec, Motion!Spec

-----------------------------------------------------------------------------
(***************************************************************************)
(* The latched bits of the drive: what the clutch, a target passed into a  *)
(* seal, a stored short circuit and a postponed stop leave behind them,    *)
(* with and without the events of DriveService.                            *)
(***************************************************************************)

(***************************************************************************)
(* What most functions of the tasks do to the latched bits: nothing.  A    *)
(* drive that is not stopped by the function keeps its target and its seal.*)
(***************************************************************************)
PrtLeft(p, q) ==
  /\ q.muff = p.muff /\ q.overWay = p.overWay /\ q.isShcReset = p.isShcReset
  /\ "NoMove" \in q.faults <=> "NoMove" \in p.faults
  /\ "ShC" \in p.faults => "ShC" \in q.faults

PwrLeft(p, q) ==
  /\ q.eeSc = p.eeSc /\ q.scFaults = p.scFaults /\ q.eeReq = p.eeReq
  /\ q.reset = p.reset /\ q.saveDir = p.saveDir /\ q.testMode = p.testMode
  /\ p.supply => q.supply

SameCourse(w, v) ==
  /\ v.st.stop = w.st.stop
  /\ v.st.closing = w.st.closing /\ v.st.opening = w.st.opening
  /\ v.mcu.breakFlag = w.mcu.breakFlag /\ v.mcu.target = w.mcu.target

AtRest(v) == v.st.stop /\ ~v.st.closing /\ ~v.st.opening

Leaves(w, v) ==
  /\ v \in World
  /\ v.st.mufta = w.st.mufta /\ PrtLeft(w.prt, v.prt) /\ PwrLeft(w.pwr, v.pwr)
  /\ v.mcu.command = w.mcu.command
  /\ AtRest(v) \/ SameCourse(w, v)

LEMMA LeavesRefl ==
  ASSUME NEW w \in World
  PROVE  Leaves(w, w)
BY DEF Leaves, PrtLeft, PwrLeft, SameCourse

LEMMA LeavesTrans ==
  ASSUME NEW w, NEW u, NEW v, Leaves(w, u), Leaves(u, v)
  PROVE  Leaves(w, v)
<1>1. PrtLeft(w.prt, v.prt) /\ PwrLeft(w.pwr, v.pwr)
  BY DEF Leaves, PrtLeft, PwrLeft
<1>2. AtRest(v) \/ SameCourse(w, v)
  BY DEF Leaves, AtRest, SameCourse
<1> QED BY <1>1, <1>2 DEF Leaves

(* One part of the world is set.                                           *)
LEMMA PutSt ==
  ASSUME NEW w \in World, NEW s \in StatusReg, s.mufta = w.st.mufta,
         \/ s.stop /\ ~s.closing /\ ~s.opening
         \/ s.stop = w.st.stop /\ s.closing = w.st.closing /\ s.opening = w.st.opening
  PROVE  Leaves(w, [w EXCEPT !.st = s])
<1> DEFINE v == [w EXCEPT !.st = s]
<1>1. /\ v \in World /\ v.st = s /\ v.mcu = w.mcu /\ v.dmc = w.dmc
      /\ v.prt = w.prt /\ v.pwr = w.pwr
  BY DEF World
<1> HIDE DEF v
<1> QED BY <1>1 DEF Leaves, PrtLeft, PwrLeft, AtRest, SameCourse, v

LEMMA PutMcu ==
  ASSUME NEW w \in World, NEW m \in VlvDrvCtrl, m.command = w.mcu.command,
         \/ AtRest(w)
         \/ m.breakFlag = w.mcu.breakFlag /\ m.target = w.mcu.target
  PROVE  Leaves(w, [w EXCEPT !.mcu = m])
<1> DEFINE v == [w EXCEPT !.mcu = m]
<1>1. /\ v \in World /\ v.st = w.st /\ v.mcu = m /\ v.dmc = w.dmc
      /\ v.prt = w.prt /\ v.pwr = w.pwr
  BY DEF World
<1> HIDE DEF v
<1> QED BY <1>1 DEF Leaves, PrtLeft, PwrLeft, AtRest, SameCourse, v

LEMMA PutDmc ==
  ASSUME NEW w \in World, NEW d \in DmControl
  PROVE  Leaves(w, [w EXCEPT !.dmc = d])
<1> DEFINE v == [w EXCEPT !.dmc = d]
<1>1. /\ v \in World /\ v.st = w.st /\ v.mcu = w.mcu /\ v.dmc = d
      /\ v.prt = w.prt /\ v.pwr = w.pwr
  BY DEF World
<1> HIDE DEF v
<1> QED BY <1>1 DEF Leaves, PrtLeft, PwrLeft, AtRest, SameCourse, v

LEMMA PutPrt ==
  ASSUME NEW w \in World, NEW p \in ProtectionState, PrtLeft(w.prt, p)
  PROVE  Leaves(w, [w EXCEPT !.prt = p])
<1> DEFINE v == [w EXCEPT !.prt = p]
<1>1. /\ v \in World /\ v.st = w.st /\ v.mcu = w.mcu /\ v.dmc = w.dmc
      /\ v.prt = p /\ v.pwr = w.pwr
  BY DEF World
<1> HIDE DEF v
<1> QED BY <1>1 DEF Leaves, PrtLeft, PwrLeft, AtRest, SameCourse, v

LEMMA PutPwr ==
  ASSUME NEW w \in World, NEW p \in PowerState, PwrLeft(w.pwr, p)
  PROVE  Leaves(w, [w EXCEPT !.pwr = p])
<1> DEFINE v == [w EXCEPT !.pwr = p]
<1>1. /\ v \in World /\ v.st = w.st /\ v.mcu = w.mcu /\ v.dmc = w.dmc
      /\ v.prt = w.prt /\ v.pwr = p
  BY DEF World
<1> HIDE DEF v
<1> QED BY <1>1 DEF Leaves, PrtLeft, PwrLeft, AtRest, SameCourse, v

-----------------------------------------------------------------------------
(* A stop.                                                                 *)
LEMMA ValveDriveStopLeaves ==
  ASSUME NEW w \in World
  PROVE  Leaves(w, ValveDriveStop(w)) /\ Leaves(w, BlockStop(w))
<1> DEFINE ready == w.mcu.tuReady /\ (w.mcu.releStop \/ (~w.st.fault /\ LockSeal))
           m == [w.mcu EXCEPT !.breakFlag = FALSE, !.releStop = FALSE,
                              !.tuReady = ready, !.releStopEnable = TRUE,
                              !.target = FALSE]
           s == [w.st EXCEPT !.stop = TRUE, !.closing = FALSE,
                             !.opening = FALSE, !.test = FALSE]
           u == [w EXCEPT !.mcu = m]
           v == ValveDriveStop(w)
           b == BlockStop(w)
           e == [v.mcu EXCEPT !.digital = FALSE]
<1>1. v \in World /\ v.prt = w.prt
  BY ValveDriveStopEffect
<1>2. v.st = s /\ v.pwr = w.pwr /\ v.mcu.command = w.mcu.command
  <2>1. u.st = w.st /\ u.pwr = w.pwr /\ u.mcu = m
    BY DEF World
  <2>2. m.command = w.mcu.command
    BY DEF World, VlvDrvCtrl
  <2> QED BY <2>1, <2>2 DEF ValveDriveStop, StopPowerControl, World, VlvDrvCtrl
<1>3. s.mufta = w.st.mufta /\ s.stop /\ ~s.closing /\ ~s.opening
  BY DEF World, StatusReg
<1> HIDE DEF s, v, m, u
<1>4. Leaves(w, v)
  BY <1>1, <1>2, <1>3 DEF Leaves, AtRest, PrtLeft, PwrLeft
<1>5. b = [v EXCEPT !.mcu = e]
  BY <1>1 DEF BlockStop, v, World
<1>6. e \in VlvDrvCtrl /\ e.command = v.mcu.command
  BY <1>1 DEF World, VlvDrvCtrl
<1>7. AtRest(v)
  BY <1>2, <1>3 DEF AtRest
<1> HIDE DEF e, b
<1>8. Leaves(w, b)
  BY <1>1, <1>4, <1>5, <1>6, <1>7, PutMcu, LeavesTrans
<1> QED BY <1>4, <1>8 DEF v, b

-----------------------------------------------------------------------------
(***************************************************************************)
(* The protections before every task.                                      *)
(***************************************************************************)
LEMMA ShCProtectLeaves ==
  ASSUME NEW w \in World, NEW hit
  PROVE  Leaves(w, ShCProtect(w, hit))
<1> DEFINE v == ShCProtect(w, hit)
           p == [w.prt EXCEPT !.faults = @ \cup {"ShC"}]
<1>1. w.prt \in ProtectionState
  BY DEF World
<1>2. v = w \/ v = [w EXCEPT !.prt = p]
  BY <1>1 DEF ShCProtect, World, ProtectionState
<1>3. p \in ProtectionState /\ PrtLeft(w.prt, p)
  BY <1>1 DEF ProtectionState, PrtLeft, FaultKinds
<1> HIDE DEF v, p
<1>4. Leaves(w, v)
  BY <1>2, <1>3, PutPrt, LeavesRefl
<1> QED BY <1>4 DEF v

LEMMA ReadFaultsLeaves ==
  ASSUME NEW w \in World
  PROVE  Leaves(w, ReadFaults(w))
<1> DEFINE v == ReadFaults(w)
           fault == IsFaultExist(w)
           defect == IsDefectExist(w)
           only == w.prt.onlyPosSens \/ ActiveFaults(w) = {"PosSens"}
           s == [w.st EXCEPT !.fault = fault, !.defect = defect]
           p == [w.prt EXCEPT !.onlyPosSens = only]
           u == [w EXCEPT !.st = s]
<1>1. /\ w.st \in StatusReg /\ w.prt \in ProtectionState
      /\ fault \in BOOLEAN /\ defect \in BOOLEAN /\ only \in BOOLEAN
  BY DEF World, IsFaultExist, IsDefectExist
<1>2. v = [u EXCEPT !.prt = p]
  BY <1>1 DEF ReadFaults, World, ProtectionState
<1> HIDE DEF v, fault, defect, only
<1>3. /\ s \in StatusReg /\ s.mufta = w.st.mufta /\ s.stop = w.st.stop
      /\ s.closing = w.st.closing /\ s.opening = w.st.opening
  BY <1>1 DEF StatusReg
<1>4. p \in ProtectionState /\ PrtLeft(w.prt, p)
  BY <1>1 DEF ProtectionState, PrtLeft
<1>5. u.prt = w.prt
  BY DEF World
<1> HIDE DEF s, p
<1>6. Leaves(w, u)
  BY <1>3, PutSt
<1> HIDE DEF u
<1>7. Leaves(u, v)
  BY <1>2, <1>4, <1>5, <1>6, PutPrt DEF Leaves
<1>8. Leaves(w, v)
  BY <1>6, <1>7, LeavesTrans
<1> QED BY <1>8 DEF v

LEMMA StopOnFaultLeaves ==
  ASSUME NEW w \in World
  PROVE  Leaves(w, StopOnFault(w))
BY ValveDriveStopLeaves, LeavesRefl DEF StopOnFault

(***************************************************************************)
(* The latched bits fit together.                                          *)
(***************************************************************************)
MuffOK(w) ==
  /\ w.st.mufta <=> "NoMove" \in w.prt.faults
  /\ w.st.mufta => w.prt.muff

SealOK(w) == ~w.st.stop /\ w.prt.overWay => w.mcu.breakFlag /\ w.mcu.target

ShcOK(w) ==
  /\ w.pwr.eeSc => \/ "ShC" \in w.prt.faults
                   \/ w.pwr.scFaults
                   \/ w.prt.isShcReset
                   \/ w.pwr.eeReq
  /\ w.pwr.scFaults => "BIT0" \in w.pwr.reset

CourseOK(w) == w.st.stop = ~(w.st.closing \/ w.st.opening)

Latched(w) == w \in World /\ CourseOK(w) /\ MuffOK(w) /\ SealOK(w) /\ ShcOK(w)

LEMMA LeavesLatched ==
  ASSUME NEW w, NEW v, Latched(w), Leaves(w, v)
  PROVE  Latched(v)
<1>1. MuffOK(v)
  BY DEF Latched, MuffOK, Leaves, PrtLeft
<1>2. SealOK(v)
  BY DEF Latched, SealOK, Leaves, PrtLeft, AtRest, SameCourse
<1>3. ShcOK(v)
  BY DEF Latched, ShcOK, Leaves, PrtLeft, PwrLeft
<1>4. CourseOK(v)
  <2>1. v.st \in StatusReg
    BY DEF Leaves, World
  <2>2. CASE AtRest(v)
    BY <2>1, <2>2 DEF StatusReg, AtRest, CourseOK
  <2>3. CASE SameCourse(w, v)
    BY <2>1, <2>3 DEF Latched, CourseOK, SameCourse
  <2> QED BY <2>2, <2>3 DEF Leaves
<1> QED BY <1>1, <1>2, <1>3, <1>4 DEF Latched, Leaves

(* What every function but the command task and the supply monitor does.   *)
Keeps(w, v) ==
  /\ Latched(v) /\ v.mcu.command = w.mcu.command
  /\ v.pwr.reset = w.pwr.reset /\ v.pwr.saveDir = w.pwr.saveDir
  /\ v.pwr.testMode = w.pwr.testMode
  /\ w.pwr.supply => v.pwr.supply

LEMMA LeavesKeeps ==
  ASSUME NEW w, NEW v, Latched(w), Leaves(w, v)
  PROVE  Keeps(w, v)
BY LeavesLatched DEF Keeps, Leaves, PwrLeft

LEMMA KeepsTrans ==
  ASSUME NEW w, NEW u, NEW v, Keeps(w, u), Keeps(u, v)
  PROVE  Keeps(w, v)
BY DEF Keeps

(* The clutch stops the drive and shows itself.                            *)
LEMMA StopOnMuffKeeps ==
  ASSUME NEW w, Latched(w), NEW inSeal
  PROVE  Keeps(w, StopOnMuff(w, inSeal))
<1> DEFINE v == StopOnMuff(w, inSeal)
           fault == MuffIsFault(w, inSeal)
           f == (w.prt.faults \ {"NoMove"})
                  \cup (IF fault THEN {"NoMove"} ELSE {})
           p == [w.prt EXCEPT !.faults = f]
           s == [w.st EXCEPT !.mufta = fault]
           u == [w EXCEPT !.prt = p, !.st = s]
<1>1. /\ w \in World /\ w.st \in StatusReg /\ w.prt \in ProtectionState
      /\ fault \in BOOLEAN
  BY DEF Latched, World, MuffIsFault
<1>2. v = w \/ (w.prt.muff /\ v = BlockStop(u))
  BY <1>1 DEF StopOnMuff, World, ProtectionState, StatusReg
<1> HIDE DEF v, fault
<1>3. f \in SUBSET FaultKinds /\ ("NoMove" \in f <=> fault)
      /\ ("ShC" \in f <=> "ShC" \in w.prt.faults)
  BY <1>1 DEF ProtectionState, FaultKinds
<1> HIDE DEF f
<1>4. /\ p \in ProtectionState /\ p.faults = f /\ p.muff = w.prt.muff
      /\ p.overWay = w.prt.overWay /\ p.isShcReset = w.prt.isShcReset
  BY <1>1, <1>3 DEF ProtectionState
<1>5. /\ s \in StatusReg /\ s.mufta = fault /\ s.stop = w.st.stop
      /\ s.closing = w.st.closing /\ s.opening = w.st.opening
  BY <1>1 DEF StatusReg
<1> HIDE DEF p, s
<1>6. /\ u \in World /\ u.st = s /\ u.prt = p /\ u.mcu = w.mcu
      /\ u.pwr = w.pwr
  BY <1>1, <1>4, <1>5 DEF World
<1> HIDE DEF u
<1>7. CASE v = w
  BY <1>7 DEF Keeps, v
<1>8. CASE w.prt.muff /\ v = BlockStop(u)
  <2>1. MuffOK(u)
    BY <1>3, <1>4, <1>5, <1>6, <1>8 DEF MuffOK
  <2>2. SealOK(u) /\ CourseOK(u)
    BY <1>4, <1>5, <1>6 DEF Latched, SealOK, CourseOK
  <2>3. ShcOK(u)
    BY <1>3, <1>4, <1>6 DEF Latched, ShcOK
  <2>4. Leaves(u, v)
    BY <1>6, <1>8, ValveDriveStopLeaves
  <2>5. Latched(v)
    BY <1>6, <2>1, <2>2, <2>3, <2>4, LeavesLatched DEF Latched
  <2> QED BY <1>6, <2>4, <2>5 DEF Leaves, PwrLeft, Keeps, v
<1> QED BY <1>2, <1>7, <1>8 DEF v

LEMMA ProtectionsUpdateKeeps ==
  ASSUME NEW w, Latched(w), NEW in
  PROVE  Keeps(w, ProtectionsUpdate(w, in))
<1> DEFINE a == ShCProtect(w, in.shc)
           r == ReadFaults(a)
           m == StopOnMuff(r, in)
           v == StopOnFault(m)
<1>1. Keeps(w, a)
  BY ShCProtectLeaves, LeavesKeeps DEF Latched
<1> HIDE DEF a
<1>2. Keeps(a, r)
  BY <1>1, ReadFaultsLeaves, LeavesKeeps DEF Keeps, Latched
<1> HIDE DEF r
<1>3. Keeps(r, m)
  BY <1>2, StopOnMuffKeeps DEF Keeps
<1> HIDE DEF m
<1>4. Keeps(m, v)
  BY <1>3, StopOnFaultLeaves, LeavesKeeps DEF Keeps, Latched
<1> HIDE DEF v
<1>5. Keeps(w, r) /\ Keeps(w, v)
  BY <1>1, <1>2, <1>3, <1>4, KeepsTrans
<1>6. ProtectionsUpdate(w, in) \in {r, v}
  BY DEF ProtectionsUpdate, DefDriveFaults, a, r, m, v
<1> QED BY <1>5, <1>6

-----------------------------------------------------------------------------
(***************************************************************************)
(* The motor task, the thyristor test included.                            *)
(***************************************************************************)
LEMMA PowerCheckKeeps ==
  ASSUME NEW w, Latched(w), NEW powered
  PROVE  LET v == PowerCheck(w, powered) IN
         /\ Latched(v) /\ v.mcu.command = w.mcu.command /\ v.st = w.st
         /\ v.dmc = w.dmc /\ v.mcu = w.mcu /\ v.pwr.testMode = w.pwr.testMode
         /\ v.pwr.reset = w.pwr.reset /\ v.pwr.saveDir = w.pwr.saveDir
         /\ powered => v.pwr.supply
<1> DEFINE v == PowerCheck(w, powered)
           n == IF w.pwr.cnt < PowerOffCount THEN w.pwr.cnt + 1 ELSE w.pwr.cnt
           on == w.pwr.supply /\ n # PowerOffCount
           p == [w.pwr EXCEPT !.supply = TRUE, !.cnt = 0]
           q == [w.pwr EXCEPT !.cnt = n, !.supply = on]
           new == IF powered THEN p ELSE q
<1>1. w \in World /\ w.pwr \in PowerState /\ on \in BOOLEAN
  BY DEF Latched, World
<1>2. v = [w EXCEPT !.pwr = new]
  BY DEF PowerCheck
<1>3. /\ new.testMode = w.pwr.testMode /\ new.reset = w.pwr.reset
      /\ new.saveDir = w.pwr.saveDir
      /\ new.eeSc = w.pwr.eeSc /\ new.scFaults = w.pwr.scFaults
      /\ new.eeReq = w.pwr.eeReq
      /\ powered => new.supply
  BY <1>1 DEF PowerState
<1>4. v \in World
  BY <1>1, PowerCheckEffect
<1> HIDE DEF v, new
<1>5. /\ v.st = w.st /\ v.mcu = w.mcu /\ v.dmc = w.dmc /\ v.prt = w.prt
      /\ v.pwr = new
  BY <1>1, <1>2 DEF World
<1>6. Latched(v)
  BY <1>3, <1>4, <1>5 DEF Latched, CourseOK, MuffOK, SealOK, ShcOK
<1> QED BY <1>3, <1>5, <1>6 DEF v

(* The modes look at the latched bits of no protection.                    *)
LEMMA DynBrakeModeLeaves ==
  ASSUME NEW w \in World
  PROVE  Leaves(w, DynBrakeMode(w))
<1> DEFINE n == w.dmc.dyn + 1
           gates == IF n < NoCurrPause THEN "none" ELSE "brake"
           d == [w.dmc EXCEPT !.dyn = n, !.sifu = gates]
           e == [w.dmc EXCEPT !.dyn = 0, !.mode = "wmStop",
                              !.dynEnable = FALSE]
           b == [w.mcu EXCEPT !.startDelay = BlockDelay]
           t == [w.mcu EXCEPT !.startDelay = StartDelayTime]
           v == DynBrakeMode(w)
           x == [w EXCEPT !.dmc = d]
           y == [w EXCEPT !.dmc = e]
<1>1. w.dmc \in DmControl /\ w.mcu \in VlvDrvCtrl /\ w.dmc.dyn \in Nat
  BY DEF World, DmControl
<1>2. BlockDelay \in 0 .. BlockDelay /\ StartDelayTime \in 0 .. BlockDelay
  BY TimeAssumption DEF Times
<1>3. v = [x EXCEPT !.mcu = b] \/ v = [y EXCEPT !.mcu = t]
  BY <1>1 DEF DynBrakeMode, World, VlvDrvCtrl
<1> HIDE DEF v, gates
<1>4. gates \in Gates
  BY DEF gates, Gates
<1>5. d \in DmControl /\ e \in DmControl
  <2>1. n \in Nat
    BY <1>1
  <2> HIDE DEF n
  <2>2. d \in DmControl
    BY <1>1, <1>4, <2>1 DEF DmControl
  <2>3. e \in DmControl
    BY <1>1 DEF DmControl, WorkModes
  <2> QED BY <2>2, <2>3
<1>6. /\ b \in VlvDrvCtrl /\ b.command = w.mcu.command
      /\ b.breakFlag = w.mcu.breakFlag /\ b.target = w.mcu.target
      /\ t \in VlvDrvCtrl /\ t.command = w.mcu.command
      /\ t.breakFlag = w.mcu.breakFlag /\ t.target = w.mcu.target
  BY <1>1, <1>2 DEF VlvDrvCtrl
<1> HIDE DEF d, e, b, t
<1>7. Leaves(w, x) /\ Leaves(w, y) /\ x.mcu = w.mcu /\ y.mcu = w.mcu
  BY <1>5, PutDmc DEF World
<1> HIDE DEF x, y
<1>8. Leaves(x, [x EXCEPT !.mcu = b]) /\ Leaves(y, [y EXCEPT !.mcu = t])
  BY <1>6, <1>7, PutMcu DEF Leaves
<1>9. Leaves(w, v)
  BY <1>3, <1>7, <1>8, LeavesTrans
<1> QED BY <1>9 DEF v

(* A movement goes on.                                                     *)
LEMMA MovesOnLeaves ==
  ASSUME NEW w \in World, NEW v \in World, v.prt = w.prt,
         MovesOn(w, v) \/ StandsStill(w, v)
  PROVE  Leaves(w, v)
BY DEF MovesOn, StandsStill, Leaves, PrtLeft, PwrLeft, SameCourse

LEMMA RunModeLeaves ==
  ASSUME NEW w \in World, NEW speed, NEW overload
  PROVE  Leaves(w, RunMode(w, speed, overload))
<1> DEFINE v == RunMode(w, speed, overload)
<1>1. CASE w.dmc.mode = "wmTestThyr"
  BY <1>1, LeavesRefl DEF RunMode
<1>2. CASE w.dmc.mode = "wmDynBrake"
  BY <1>2, DynBrakeModeLeaves DEF RunMode
<1>3. CASE w.dmc.mode \notin {"wmTestThyr", "wmDynBrake"}
  <2>1. v \in World /\ (MovesOn(w, v) \/ StandsStill(w, v))
    BY <1>3, RunModeEffect
  <2>2. v.prt = w.prt
    <3>1. w.dmc.mode \in WorkModes
      BY DEF World, DmControl
    <3>2. w.dmc.mode \in {"wmStop", "wmTestPh"} => v.prt = w.prt
      BY DEF RunMode, StopMode, TestPhMode, World
    <3>3. w.dmc.mode \in {"wmPreStart", "wmUporStart"} => v.prt = w.prt
      BY DEF RunMode, PreStartMode, UporStartMode, World
    <3>4. w.dmc.mode \in {"wmMove", "wmPause"} => v.prt = w.prt
      BY DEF RunMode, MoveMode, PauseMode, World
    <3>5. w.dmc.mode \in {"wmUporFinish", "wmKick"} => v.prt = w.prt
      BY DEF RunMode, UporFinishMode, KickMode, World
    <3>6. w.dmc.mode = "wmSpeedTest" => v.prt = w.prt
      BY DEF RunMode, SpeedTestMode, World
    <3> QED BY <1>3, <3>1, <3>2, <3>3, <3>4, <3>5, <3>6
            DEF WorkModes, MovingModes
  <2> QED BY <2>1, <2>2, MovesOnLeaves
<1> QED BY <1>1, <1>2, <1>3

LEMMA CountZazorLeaves ==
  ASSUME NEW w \in World
  PROVE  Leaves(w, CountZazor(w))
<1> DEFINE n == IF w.dmc.zazor > 0 THEN w.dmc.zazor - 1 ELSE 0
           d == [w.dmc EXCEPT !.zazor = n]
<1>1. w.dmc \in DmControl /\ n \in Nat
  BY DEF World, DmControl
<1>2. CountZazor(w) = [w EXCEPT !.dmc = d]
  BY DEF CountZazor
<1> HIDE DEF n
<1>3. d \in DmControl
  BY <1>1 DEF DmControl
<1> HIDE DEF d
<1> QED BY <1>2, <1>3, PutDmc

LEMMA DmcTestLeaves ==
  ASSUME NEW w \in World, NEW sifuEnable, NEW group \in Gates
  PROVE  LET v == DmcTest(w, sifuEnable, group) IN
         /\ Leaves(w, v)
         /\ v.dmc.mode \in {"wmStop", "wmTestThyr"} /\ v.dmc.sifu \in {"none", group}
         /\ v.st.stop = w.st.stop
<1> DEFINE v == DmcTest(w, sifuEnable, group)
           d == [w.dmc EXCEPT !.mode = "wmStop", !.sifu = "none", !.clk = FALSE]
           e == [w.dmc EXCEPT !.mode = "wmTestThyr", !.sifu = group, !.clk = TRUE]
           new == IF sifuEnable THEN e ELSE d
           on == IF sifuEnable THEN TRUE ELSE FALSE
           s == [w.st EXCEPT !.test = on]
           u == [w EXCEPT !.dmc = new]
<1>1. w.st \in StatusReg /\ w.dmc \in DmControl
  BY DEF World
<1>2. v = [u EXCEPT !.st = s]
  BY <1>1 DEF DmcTest, World, StatusReg
<1>3. /\ new \in DmControl /\ new.mode \in {"wmStop", "wmTestThyr"}
      /\ new.sifu \in {"none", group}
  BY <1>1 DEF DmControl, WorkModes, Gates
<1>4. /\ s \in StatusReg /\ s.mufta = w.st.mufta /\ s.stop = w.st.stop
      /\ s.closing = w.st.closing /\ s.opening = w.st.opening
  BY <1>1 DEF StatusReg
<1> HIDE DEF v, new, s
<1>5. Leaves(w, u) /\ u.st = w.st /\ u.dmc = new
  BY <1>3, PutDmc DEF World
<1> HIDE DEF u
<1>6. Leaves(u, v) /\ v.dmc = new /\ v.st = s
  BY <1>2, <1>4, <1>5, PutSt DEF Leaves, World
<1> QED BY <1>3, <1>4, <1>5, <1>6, LeavesTrans DEF v

LEMMA ControlModeKeeps ==
  ASSUME NEW w, Latched(w), NEW in, in.group \in Gates
  PROVE  LET v == ControlMode(w, in) IN
         /\ Latched(v) /\ v.mcu.command = w.mcu.command
         /\ v.pwr.reset = w.pwr.reset /\ v.pwr.saveDir = w.pwr.saveDir
         /\ v.pwr.testMode = w.pwr.testMode
         /\ in.powered => v.pwr.supply
<1> DEFINE c == PowerCheck(w, in.powered)
           t == DmcTest(c, in.sifuEnable, in.group)
           r == RunMode(c, in.speed, in.overload)
           v == ControlMode(w, in)
<1>1. /\ Latched(c) /\ c.mcu.command = w.mcu.command
      /\ c.pwr.reset = w.pwr.reset /\ c.pwr.saveDir = w.pwr.saveDir
      /\ c.pwr.testMode = w.pwr.testMode
      /\ in.powered => c.pwr.supply
  BY PowerCheckKeeps
<1>2. v = t \/ v = CountZazor(r)
  BY DEF ControlMode
<1> HIDE DEF v, c
<1>3. Leaves(c, t) /\ Leaves(c, r)
  BY <1>1, DmcTestLeaves, RunModeLeaves DEF Latched
<1> HIDE DEF r, t
<1>4. Leaves(c, CountZazor(r))
  BY <1>3, CountZazorLeaves, LeavesTrans DEF Leaves
<1>5. Keeps(c, v)
  BY <1>1, <1>2, <1>3, <1>4, LeavesKeeps
<1> QED BY <1>1, <1>5 DEF Keeps, v

-----------------------------------------------------------------------------
(***************************************************************************)
(* The command task.  The inputs only set requests.                        *)
(***************************************************************************)
LEMMA TeleControlLeaves ==
  ASSUME NEW w \in World, NEW enabled, NEW tu, NEW active
  PROVE  Leaves(w, TeleControl(w, enabled, tu, active))
<1> DEFINE v == TeleControl(w, enabled, tu, active)
           t == TeleWord(w, tu)
           ready == w.mcu.tuReady \/ t.released
           rel == w.mcu.releStop \/ t.releStop
           word == IF t.word # "None" THEN t.word ELSE w.mcu.cw
           dig == w.mcu.digital \/ t.word # "None"
           m == [w.mcu EXCEPT !.tuReady = TRUE, !.releStop = FALSE,
                              !.releStopEnable = TRUE]
           n == [w.mcu EXCEPT !.tuReady = ready, !.releStop = rel,
                              !.cw = word, !.digital = dig]
<1>1. w.mcu \in VlvDrvCtrl
  BY DEF World
<1>2. t.word \in Commands
  BY DEF TeleWord, Commands
<1>3. word \in Commands
  BY <1>1, <1>2 DEF VlvDrvCtrl
<1>4. ready \in BOOLEAN /\ rel \in BOOLEAN /\ dig \in BOOLEAN
  OBVIOUS
<1>5. v = w \/ v = [w EXCEPT !.mcu = m] \/ v = [w EXCEPT !.mcu = n]
  <2>1. CASE ~enabled
    BY <2>1 DEF TeleControl
  <2>2. CASE enabled /\ "DIGITAL" \notin active
    BY <2>2 DEF TeleControl
  <2>3. CASE enabled /\ "DIGITAL" \in active
    BY <2>3 DEF TeleControl
  <2> QED BY <2>1, <2>2, <2>3
<1> HIDE DEF v, t, ready, rel, word, dig
<1>6. /\ m \in VlvDrvCtrl /\ m.command = w.mcu.command
      /\ m.breakFlag = w.mcu.breakFlag /\ m.target = w.mcu.target
  BY <1>1 DEF VlvDrvCtrl
<1>7. /\ n \in VlvDrvCtrl /\ n.command = w.mcu.command
      /\ n.breakFlag = w.mcu.breakFlag /\ n.target = w.mcu.target
  BY <1>1, <1>3, <1>4 DEF VlvDrvCtrl
<1> HIDE DEF m, n
<1>8. Leaves(w, v)
  BY <1>5, <1>6, <1>7, PutMcu, LeavesRefl
<1> QED BY <1>8 DEF v

LEMMA MpuControlLeaves ==
  ASSUME NEW w \in World, NEW btn, NEW pdu, NEW active
  PROVE  Leaves(w, MpuControl(w, btn, pdu, active))
<1> DEFINE v == MpuControl(w, btn, pdu, active)
           key == IF pdu # "none" THEN pdu ELSE btn
           source == IF pdu # "none" THEN "PDU" ELSE "MPU"
           word == IF key = "stop" THEN "Stop"
                   ELSE IF ~(source \in active) THEN w.mcu.cw
                   ELSE IF key = "close" THEN "Close" ELSE "Open"
           m == [w.mcu EXCEPT !.digital = FALSE, !.cw = word]
<1>1. w.mcu \in VlvDrvCtrl /\ word \in Commands
  BY DEF World, VlvDrvCtrl, Commands
<1>2. v = w \/ v = [w EXCEPT !.mcu = m]
  BY DEF MpuControl
<1> HIDE DEF v, word
<1>3. /\ m \in VlvDrvCtrl /\ m.command = w.mcu.command
      /\ m.breakFlag = w.mcu.breakFlag /\ m.target = w.mcu.target
  BY <1>1 DEF VlvDrvCtrl
<1> HIDE DEF m
<1>4. Leaves(w, v)
  BY <1>2, <1>3, PutMcu, LeavesRefl
<1> QED BY <1>4 DEF v

(* A request set aside or taken up changes mcu.command; the rest is left.  *)
Obeys(w, v) ==
  /\ Latched(v)
  /\ v.pwr.reset = w.pwr.reset /\ v.pwr.saveDir = w.pwr.saveDir
  /\ v.pwr.testMode = w.pwr.testMode
  /\ w.pwr.supply => v.pwr.supply

LEMMA KeepsObeys ==
  ASSUME NEW w, NEW v, Keeps(w, v)
  PROVE  Obeys(w, v)
BY DEF Keeps, Obeys

LEMMA ObeysTrans ==
  ASSUME NEW w, NEW u, NEW v, Obeys(w, u), Obeys(u, v)
  PROVE  Obeys(w, v)
BY DEF Obeys

LEMMA SetCommand ==
  ASSUME NEW w, Latched(w), NEW m \in VlvDrvCtrl,
         \/ AtRest(w)
         \/ m.breakFlag = w.mcu.breakFlag /\ m.target = w.mcu.target
  PROVE  LET v == [w EXCEPT !.mcu = m] IN
         /\ Obeys(w, v) /\ v.mcu = m /\ v.st = w.st /\ v.prt = w.prt /\ v.pwr = w.pwr
         /\ v.dmc = w.dmc
<1> DEFINE v == [w EXCEPT !.mcu = m]
<1>1. /\ v \in World /\ v.st = w.st /\ v.mcu = m /\ v.dmc = w.dmc
      /\ v.prt = w.prt /\ v.pwr = w.pwr
  BY DEF Latched, World
<1> HIDE DEF v
<1>2. Latched(v)
  BY <1>1 DEF Latched, CourseOK, MuffOK, SealOK, ShcOK, AtRest
<1> QED BY <1>1, <1>2 DEF Obeys, v

LEMMA LatchedAtRest ==
  ASSUME NEW w, Latched(w), w.st.stop
  PROVE  AtRest(w)
BY DEF Latched, CourseOK, AtRest, World, StatusReg

LEMMA UpdateCommObeys ==
  ASSUME NEW w, Latched(w)
  PROVE  LET u == UpdateComm(w) IN
         /\ Obeys(w, u) /\ u.st = w.st /\ u.dmc = w.dmc
         /\ u.mcu.startDelay = w.mcu.startDelay
         /\ w.mcu.command = "Stop" => u.mcu.cw = "Stop"
<1> DEFINE u == UpdateComm(w)
           m == [w.mcu EXCEPT !.cw = w.mcu.command, !.command = "None"]
<1>1. w \in World /\ w.mcu \in VlvDrvCtrl
  BY DEF Latched, World
<1>2. \/ u = w /\ w.mcu.command # "Stop"
      \/ u = [w EXCEPT !.mcu = m]
  BY DEF UpdateComm
<1> HIDE DEF u
<1>3. /\ m \in VlvDrvCtrl /\ m.startDelay = w.mcu.startDelay
      /\ m.cw = w.mcu.command
      /\ m.breakFlag = w.mcu.breakFlag /\ m.target = w.mcu.target
  BY <1>1 DEF VlvDrvCtrl, Commands
<1> HIDE DEF m
<1>4. CASE u = w /\ w.mcu.command # "Stop"
  BY <1>4 DEF Obeys, u
<1>5. CASE u = [w EXCEPT !.mcu = m]
  BY <1>3, <1>5, SetCommand DEF u
<1> QED BY <1>2, <1>4, <1>5

(* The reset of a start, and the start.                                    *)
LEMMA ProtectionsResetObeys ==
  ASSUME NEW w, Latched(w), "ShC" \notin w.prt.faults, w.st.stop
  PROVE  LET v == ProtectionsReset(w) IN
         /\ Obeys(w, v) /\ ~v.prt.overWay /\ v.pwr = w.pwr
         /\ v.dmc = w.dmc /\ v.mcu = w.mcu
<1> DEFINE v == ProtectionsReset(w)
           mufta == w.st.mufta /\ ~ResetsMuff
           muff == w.prt.muff /\ ~ResetsMuff
           f == w.prt.faults \ ResetFaults
           d == w.prt.defects \ {"Overway"}
           s == [w.st EXCEPT !.fault = FALSE, !.defect = FALSE, !.mufta = mufta]
           p == [w.prt EXCEPT !.overWay = FALSE, !.muff = muff, !.faults = f,
                              !.defects = d]
<1>1. /\ w \in World /\ w.st \in StatusReg /\ w.prt \in ProtectionState
      /\ mufta \in BOOLEAN /\ muff \in BOOLEAN
  BY DEF Latched, World
<1>2. /\ f \in SUBSET FaultKinds
      /\ d \in SUBSET {"Overway", "Other"}
      /\ ("NoMove" \in f <=> "NoMove" \in w.prt.faults /\ ~ResetsMuff)
  BY <1>1 DEF ProtectionState, ResetFaults
<1>3. v = [w EXCEPT !.st = s, !.prt = p]
  BY DEF ProtectionsReset
<1>4. v \in World
  BY <1>1, ProtectionsResetEffect
<1>5. (mufta <=> w.st.mufta /\ ~ResetsMuff) /\ (muff <=> w.prt.muff /\ ~ResetsMuff)
  OBVIOUS
<1> HIDE DEF v, mufta, muff, f, d
<1>6. /\ s.mufta = mufta /\ s.stop = w.st.stop
      /\ s.closing = w.st.closing /\ s.opening = w.st.opening
  BY <1>1 DEF StatusReg
<1>7. /\ p.muff = muff /\ p.faults = f /\ ~p.overWay
      /\ p.isShcReset = w.prt.isShcReset
  BY <1>1, <1>2 DEF ProtectionState
<1> HIDE DEF s, p
<1>8. /\ v.st = s /\ v.prt = p /\ v.mcu = w.mcu /\ v.dmc = w.dmc
      /\ v.pwr = w.pwr
  BY <1>1, <1>3 DEF World
<1>9. MuffOK(v)
  BY <1>2, <1>5, <1>6, <1>7, <1>8 DEF Latched, MuffOK
<1>10. SealOK(v) /\ CourseOK(v) /\ ShcOK(v)
  BY <1>6, <1>7, <1>8 DEF Latched, SealOK, CourseOK, ShcOK
<1> QED BY <1>4, <1>7, <1>8, <1>9, <1>10 DEF Latched, Obeys, v

LEMMA StartPowerControlObeys ==
  ASSUME NEW w, Latched(w), w.st.stop, NEW word, NEW phase
  PROVE  Obeys(w, StartPowerControl(w, word, phase))
<1> DEFINE v == StartPowerControl(w, word, phase)
           r == ProtectionsReset(w)
           dir == DirectionOf(word)
           test == word \in {"TestClose", "TestOpen"}
           stest == r.st.test \/ test
           sclose == r.st.closing \/ dir = -1
           sopen == r.st.opening \/ dir = 1
           s == [r.st EXCEPT !.stop = FALSE, !.test = stest,
                             !.closing = sclose, !.opening = sopen]
<1>1. w \in World /\ AtRest(w)
  BY LatchedAtRest DEF Latched
<1>2. v \in World
  BY <1>1, StartPowerControlEffect DEF AtRest
<1>3. CASE v = w
  BY <1>3 DEF Obeys
<1>4. CASE "ShC" \notin w.prt.faults /\ v # w
  <2>1. Obeys(w, r) /\ ~r.prt.overWay /\ r.pwr = w.pwr
    BY <1>4, ProtectionsResetObeys
  <2>2. r \in World /\ r.st \in StatusReg
    BY <2>1 DEF Obeys, Latched, World
  <2>3. v.prt = r.prt /\ v.pwr = r.pwr /\ v.st = s
    BY <1>4, <2>2 DEF StartPowerControl, World
  <2>4. dir \in {-1, 1}
    BY DEF DirectionOf
  <2> HIDE DEF v, r, dir
  <2>5. /\ s.mufta = r.st.mufta /\ ~s.stop
        /\ s.closing <=> (r.st.closing \/ dir = -1)
        /\ s.opening <=> (r.st.opening \/ dir = 1)
    BY <2>2 DEF StatusReg
  <2>6. s.stop = FALSE /\ (s.closing \/ s.opening)
    BY <2>2, <2>4, <2>5 DEF StatusReg
  <2> HIDE DEF s
  <2>7. MuffOK(v) /\ SealOK(v) /\ ShcOK(v)
    BY <2>1, <2>3, <2>5 DEF Obeys, Latched, MuffOK, SealOK, ShcOK
  <2>8. CourseOK(v)
    BY <2>3, <2>6 DEF CourseOK
  <2> QED BY <1>2, <2>1, <2>3, <2>7, <2>8 DEF Obeys, Latched, v
<1>5. "ShC" \in w.prt.faults => v = w
  BY DEF StartPowerControl, MayStart
<1> QED BY <1>3, <1>4, <1>5

LEMMA BeginMoveObeys ==
  ASSUME NEW w, Latched(w), w.st.stop, NEW test, NEW sealed, NEW phase
  PROVE  Obeys(w, BeginMove(w, test, sealed, phase))
<1> DEFINE v == BeginMove(w, test, sealed, phase)
           free == test \/ ~Calibrated
           brk == ~free /\ sealed
           tgt == ~free
           rse == w.mcu.releStopEnable /\ w.mcu.digital
           m == [w.mcu EXCEPT !.breakFlag = brk, !.target = tgt,
                              !.releStopEnable = rse]
           u == [w EXCEPT !.mcu = m]
<1>1. /\ w \in World /\ w.mcu \in VlvDrvCtrl
      /\ brk \in BOOLEAN /\ tgt \in BOOLEAN /\ rse \in BOOLEAN
  BY DEF Latched, World
<1>2. v = StartPowerControl(u, w.mcu.cw, phase)
  BY DEF BeginMove
<1> HIDE DEF v, free, brk, tgt, rse
<1>3. m \in VlvDrvCtrl
  BY <1>1 DEF VlvDrvCtrl
<1> HIDE DEF m
<1>4. Obeys(w, u) /\ u.st = w.st
  BY <1>3, LatchedAtRest, SetCommand
<1> HIDE DEF u
<1>5. Obeys(u, v)
  BY <1>2, <1>4, StartPowerControlObeys DEF Obeys
<1>6. Obeys(w, v)
  BY <1>4, <1>5, ObeysTrans
<1> QED BY <1>6 DEF v

LEMMA ValveDriveStopObeys ==
  ASSUME NEW w, Latched(w)
  PROVE  Obeys(w, ValveDriveStop(w))
BY ValveDriveStopLeaves, LeavesKeeps, KeepsObeys DEF Latched

LEMMA ReverseDriveObeys ==
  ASSUME NEW w, Latched(w)
  PROVE  Obeys(w, ReverseDrive(w))
<1> DEFINE v == ReverseDrive(w)
           m == [w.mcu EXCEPT !.command = "Stop"]
           n == [w.mcu EXCEPT !.command = w.mcu.cw]
           o == [w.mcu EXCEPT !.cw = "None"]
           u == [w EXCEPT !.mcu = n]
<1>1. w \in World /\ w.mcu \in VlvDrvCtrl
  BY DEF Latched, World
<1>2. \/ v = [w EXCEPT !.mcu = m]
      \/ v = ValveDriveStop(u)
      \/ v = [w EXCEPT !.mcu = o]
  BY <1>1, ParamAssumption DEF ReverseDrive, World
<1>3. /\ m \in VlvDrvCtrl /\ m.breakFlag = w.mcu.breakFlag /\ m.target = w.mcu.target
      /\ n \in VlvDrvCtrl /\ n.breakFlag = w.mcu.breakFlag /\ n.target = w.mcu.target
      /\ o \in VlvDrvCtrl /\ o.breakFlag = w.mcu.breakFlag /\ o.target = w.mcu.target
  BY <1>1 DEF VlvDrvCtrl, Commands
<1> HIDE DEF v, m, n, o
<1>4. Obeys(w, u)
  BY <1>3, SetCommand
<1> HIDE DEF u
<1>5. Obeys(w, ValveDriveStop(u))
  BY <1>4, ValveDriveStopObeys, ObeysTrans DEF Obeys
<1>6. Obeys(w, v)
  BY <1>2, <1>3, <1>5, SetCommand
<1> QED BY <1>6 DEF v

LEMMA DriveCommandObeys ==
  ASSUME NEW w, Latched(w), NEW phase
  PROVE  Obeys(w, DriveCommand(w, phase))
<1>1. ~w.st.opening /\ ~w.st.closing => w.st.stop
  BY DEF Latched, CourseOK, World, StatusReg
<1>2. Obeys(w, w)
  BY DEF Obeys
<1>3. Obeys(w, DriveClose(w, phase))
  BY <1>1, <1>2, ReverseDriveObeys, BeginMoveObeys DEF DriveClose
<1>4. Obeys(w, DriveOpen(w, phase))
  BY <1>1, <1>2, ReverseDriveObeys, BeginMoveObeys DEF DriveOpen
<1>5. DriveCommand(w, phase)
        \in {ValveDriveStop(w), DriveClose(w, phase), DriveOpen(w, phase), w}
  BY DEF DriveCommand
<1> QED BY <1>2, <1>3, <1>4, <1>5, ValveDriveStopObeys

(* While the delay runs, a call only counts it down; later it acts on the  *)
(* command, which leaves the gates alone and begins no braking of a drive  *)
(* that moves.                                                             *)
Waits(w, v) ==
  v.st = w.st /\ v.dmc = w.dmc /\ v.mcu.startDelay = w.mcu.startDelay - 1

Acts(w, v) ==
  /\ v.dmc.sifu = w.dmc.sifu
  /\ \/ v.dmc.mode = w.dmc.mode /\ v.st.stop = w.st.stop
     \/ v.st.stop \/ v.dmc.mode \in MovingModes

LEMMA DriveCommandActs ==
  ASSUME NEW w, Latched(w), NEW phase
  PROVE  Acts(w, DriveCommand(w, phase))
<1>1. w \in World /\ (~w.st.opening /\ ~w.st.closing => AtRest(w))
  BY DEF Latched, CourseOK, World, StatusReg, AtRest
<1>2. Acts(w, w)
  BY DEF Acts
<1>3. ASSUME NEW u \in World
      PROVE  Acts(u, ValveDriveStop(u))
  BY ValveDriveStopEffect DEF Acts, SameGates
<1>4. ASSUME NEW m \in VlvDrvCtrl
      PROVE  LET u == [w EXCEPT !.mcu = m] IN
             u \in World /\ u.dmc = w.dmc /\ u.st = w.st
  BY <1>1 DEF World
<1>5. Acts(w, ReverseDrive(w))
  <2> DEFINE m == [w.mcu EXCEPT !.command = "Stop"]
             n == [w.mcu EXCEPT !.command = w.mcu.cw]
             o == [w.mcu EXCEPT !.cw = "None"]
             u == [w EXCEPT !.mcu = n]
  <2>1. \/ ReverseDrive(w) = [w EXCEPT !.mcu = m]
        \/ ReverseDrive(w) = ValveDriveStop(u)
        \/ ReverseDrive(w) = [w EXCEPT !.mcu = o]
    BY <1>1, ParamAssumption DEF ReverseDrive, World
  <2>2. m \in VlvDrvCtrl /\ n \in VlvDrvCtrl /\ o \in VlvDrvCtrl
    BY <1>1 DEF World, VlvDrvCtrl, Commands
  <2> HIDE DEF m, n, o
  <2>3. u \in World /\ u.dmc = w.dmc /\ u.st = w.st
    BY <1>4, <2>2
  <2> HIDE DEF u
  <2>4. Acts(w, ValveDriveStop(u))
    BY <1>3, <2>3 DEF Acts
  <2>5. Acts(w, [w EXCEPT !.mcu = m]) /\ Acts(w, [w EXCEPT !.mcu = o])
    BY <1>4, <2>2 DEF Acts
  <2> QED BY <2>1, <2>4, <2>5
<1>6. ASSUME AtRest(w), NEW test, NEW sealed
      PROVE  Acts(w, BeginMove(w, test, sealed, phase))
  <2> DEFINE free == test \/ ~Calibrated
             brk == ~free /\ sealed
             tgt == ~free
             rse == w.mcu.releStopEnable /\ w.mcu.digital
             m == [w.mcu EXCEPT !.breakFlag = brk, !.target = tgt,
                                !.releStopEnable = rse]
             u == [w EXCEPT !.mcu = m]
             v == StartPowerControl(u, w.mcu.cw, phase)
  <2>1. /\ w.mcu \in VlvDrvCtrl
        /\ brk \in BOOLEAN /\ tgt \in BOOLEAN /\ rse \in BOOLEAN
    BY <1>1 DEF World
  <2>2. BeginMove(w, test, sealed, phase) = v
    BY DEF BeginMove
  <2> HIDE DEF free, brk, tgt, rse
  <2>3. m \in VlvDrvCtrl
    BY <2>1 DEF VlvDrvCtrl
  <2> HIDE DEF m
  <2>4. u \in World /\ u.dmc = w.dmc /\ u.st = w.st
    BY <1>4, <2>3
  <2> HIDE DEF u
  <2>5. v = u \/ Started(u, v)
    BY <1>6, <2>4, StartPowerControlEffect DEF AtRest
  <2> HIDE DEF v
  <2>6. Acts(w, v)
    BY <2>4, <2>5 DEF Acts, Started, MovingModes
  <2> QED BY <2>2, <2>6
<1>7. Acts(w, DriveClose(w, phase))
  BY <1>1, <1>2, <1>5, <1>6 DEF DriveClose
<1>8. Acts(w, DriveOpen(w, phase))
  BY <1>1, <1>2, <1>5, <1>6 DEF DriveOpen
<1>9. DriveCommand(w, phase)
        \in {ValveDriveStop(w), DriveClose(w, phase), DriveOpen(w, phase), w}
  BY DEF DriveCommand
<1> QED BY <1>1, <1>2, <1>3, <1>7, <1>8, <1>9

(* A stop that was set aside is obeyed, unless the drive stands already.   *)
LEMMA UnitControlObeys ==
  ASSUME NEW w, Latched(w), NEW phase
  PROVE  LET v == UnitControl(w, phase) IN
         /\ Obeys(w, v)
         /\ /\ w.mcu.command = "Stop"
            /\ w.mcu.startDelay = 0 \/ w.st.stop
            => v.st.stop
         /\ w.mcu.startDelay > 0 => Waits(w, v)
         /\ w.mcu.startDelay = 0 => Acts(w, v)
<1> DEFINE u == UpdateComm(w)
           x == [u EXCEPT !.mcu.startDelay = @ - 1]
           d == IF u.mcu.startDelay > 0 THEN x
                ELSE IF u.mcu.cw # "None" THEN DriveCommand(u, phase) ELSE u
           v == [d EXCEPT !.mcu.cw = "None"]
           n == [d.mcu EXCEPT !.cw = "None"]
           y == [u.mcu EXCEPT !.startDelay = u.mcu.startDelay - 1]
<1>1. UnitControl(w, phase) = v
  BY DEF UnitControl
<1>2. /\ Obeys(w, u) /\ u.st = w.st /\ u.mcu.startDelay = w.mcu.startDelay
      /\ u.dmc = w.dmc
      /\ w.mcu.command = "Stop" => u.mcu.cw = "Stop"
  BY UpdateCommObeys
<1> HIDE DEF u
<1>3. Latched(u) /\ u \in World /\ u.mcu \in VlvDrvCtrl
  BY <1>2 DEF Obeys, Latched, World
<1>4. u.mcu.startDelay > 0 => Obeys(u, x) /\ Waits(u, x)
  <2> SUFFICES ASSUME u.mcu.startDelay > 0
               PROVE  Obeys(u, x) /\ Waits(u, x)
    OBVIOUS
  <2>1. x = [u EXCEPT !.mcu = y]
    BY <1>3 DEF World
  <2>2. u.mcu.startDelay \in 0 .. BlockDelay /\ BlockDelay \in Nat
    BY <1>3, TimeAssumption DEF VlvDrvCtrl, Times
  <2>3. /\ y \in VlvDrvCtrl /\ y.startDelay = u.mcu.startDelay - 1
        /\ y.breakFlag = u.mcu.breakFlag /\ y.target = u.mcu.target
    BY <1>3, <2>2 DEF VlvDrvCtrl
  <2> HIDE DEF y, x
  <2> QED BY <1>3, <2>1, <2>3, SetCommand DEF Waits
<1>5. Obeys(u, DriveCommand(u, phase)) /\ Obeys(u, u)
  BY <1>3, DriveCommandObeys DEF Obeys
<1>6. Obeys(u, d)
  BY <1>4, <1>5
<1>7. /\ w.mcu.command = "Stop"
      /\ w.mcu.startDelay = 0 \/ w.st.stop
      => d.st.stop
  <2>1. ASSUME w.mcu.command = "Stop", w.mcu.startDelay = 0
        PROVE  d.st.stop
    <3>1. d = ValveDriveStop(u)
      BY <1>2, <2>1 DEF DriveCommand
    <3> QED BY <1>3, <3>1, ValveDriveStopEffect
  <2>2. ASSUME w.mcu.command = "Stop", w.st.stop, w.mcu.startDelay > 0
        PROVE  d.st.stop
    BY <1>2, <1>4, <2>2 DEF Waits
  <2>3. w.mcu.startDelay = 0 \/ w.mcu.startDelay > 0
    BY TimeAssumption DEF Latched, World, VlvDrvCtrl, Times
  <2> QED BY <2>1, <2>2, <2>3
<1>8. u.mcu.startDelay = 0 => Acts(u, d)
  BY <1>3, DriveCommandActs DEF Acts
<1>9. /\ w.mcu.startDelay > 0 => Waits(w, d)
      /\ w.mcu.startDelay = 0 => Acts(w, d)
  BY <1>2, <1>4, <1>8 DEF Waits, Acts
<1> HIDE DEF d
<1>10. Latched(d) /\ d \in World /\ d.mcu \in VlvDrvCtrl
  BY <1>6 DEF Obeys, Latched, World
<1>11. v = [d EXCEPT !.mcu = n]
  BY <1>10 DEF World
<1>12. /\ n \in VlvDrvCtrl /\ n.startDelay = d.mcu.startDelay
       /\ n.breakFlag = d.mcu.breakFlag /\ n.target = d.mcu.target
  BY <1>10 DEF VlvDrvCtrl, Commands
<1> HIDE DEF n, v
<1>13. /\ Obeys(d, v) /\ v.st = d.st /\ v.dmc = d.dmc
       /\ v.mcu.startDelay = d.mcu.startDelay
  BY <1>10, <1>11, <1>12, SetCommand
<1>14. Obeys(w, v)
  BY <1>2, <1>6, <1>13, ObeysTrans
<1> QED BY <1>1, <1>7, <1>9, <1>13, <1>14 DEF Waits, Acts

LEMMA ValveDriveUpdateObeys ==
  ASSUME NEW w, Latched(w), NEW in
  PROVE  LET v == ValveDriveUpdate(w, in) IN
         /\ Obeys(w, v)
         /\ /\ w.mcu.command = "Stop"
            /\ w.mcu.startDelay = 0 \/ w.st.stop
            => v.st.stop
         /\ w.mcu.startDelay > 0 => Waits(w, v)
         /\ w.mcu.startDelay = 0 => Acts(w, v)
<1> DEFINE active == ActiveControls(in.local)
           t == TeleControl(w, in.tuEnable, in.tu, active)
           m == MpuControl(t, in.btn, in.pdu, active)
           v == UnitControl(m, in.phase)
<1>1. w \in World
  BY DEF Latched
<1>2. Leaves(w, t) /\ SetsRequests(w, t)
  BY <1>1, TeleControlLeaves, TeleControlEffect
<1>3. Leaves(t, m) /\ SetsRequests(t, m)
  BY <1>2, MpuControlLeaves, MpuControlEffect DEF Leaves
<1> HIDE DEF active, t, m
<1>4. Keeps(w, m) /\ Leaves(w, m)
  BY <1>2, <1>3, LeavesTrans, LeavesKeeps
<1>5. /\ m.mcu.command = w.mcu.command /\ m.st = w.st /\ m.dmc = w.dmc
      /\ m.mcu.startDelay = w.mcu.startDelay
  BY <1>2, <1>3, <1>4 DEF SetsRequests, Kept, Leaves
<1>6. /\ Obeys(m, v)
      /\ /\ m.mcu.command = "Stop"
         /\ m.mcu.startDelay = 0 \/ m.st.stop
         => v.st.stop
      /\ m.mcu.startDelay > 0 => Waits(m, v)
      /\ m.mcu.startDelay = 0 => Acts(m, v)
  BY <1>4, UnitControlObeys DEF Keeps
<1>7. ValveDriveUpdate(w, in) = v
  BY DEF ValveDriveUpdate, active, t, m
<1> HIDE DEF v
<1> QED BY <1>4, <1>5, <1>6, <1>7, KeepsObeys, ObeysTrans DEF Waits, Acts

-----------------------------------------------------------------------------
(***************************************************************************)
(* The other tasks.                                                        *)
(***************************************************************************)
LEMMA CalibStopKeeps ==
  ASSUME NEW w, Latched(w), NEW reached
  PROVE  Keeps(w, CalibStop(w, reached))
<1> DEFINE v == CalibStop(w, reached)
           p == [w.prt EXCEPT !.overWay = TRUE]
<1>1. w \in World /\ w.prt \in ProtectionState
  BY DEF Latched, World
<1>2. \/ v = w \/ v = BlockStop(w)
      \/ w.mcu.target /\ w.mcu.breakFlag /\ v = [w EXCEPT !.prt = p]
  BY <1>1 DEF CalibStop, World
<1> HIDE DEF v
<1>3. /\ p \in ProtectionState /\ p.muff = w.prt.muff
      /\ p.faults = w.prt.faults /\ p.isShcReset = w.prt.isShcReset
  BY <1>1 DEF ProtectionState
<1> HIDE DEF p
<1>4. CASE v \in {w, BlockStop(w)}
  BY <1>1, <1>4, LeavesRefl, ValveDriveStopLeaves, LeavesKeeps DEF v
<1>5. CASE w.mcu.target /\ w.mcu.breakFlag /\ v = [w EXCEPT !.prt = p]
  <2>1. /\ v \in World /\ v.st = w.st /\ v.mcu = w.mcu /\ v.prt = p
        /\ v.pwr = w.pwr
    BY <1>1, <1>3, <1>5 DEF World
  <2>2. Latched(v)
    BY <1>3, <1>5, <2>1 DEF Latched, CourseOK, MuffOK, SealOK, ShcOK
  <2> QED BY <2>1, <2>2 DEF Keeps, v
<1> QED BY <1>2, <1>4, <1>5

LEMMA ClbControlKeeps ==
  ASSUME NEW w, Latched(w), NEW zone, NEW autoCmd \in Commands
  PROVE  Keeps(w, ClbControl(w, zone, autoCmd))
<1> DEFINE v == ClbControl(w, zone, autoCmd)
           word == IF autoCmd # "None" THEN autoCmd ELSE w.mcu.cw
           s == [w.st EXCEPT !.closed = zone = "closed",
                             !.opened = zone = "opened"]
           m == [w.mcu EXCEPT !.cw = word]
           u == [w EXCEPT !.st = s]
<1>1. /\ w \in World /\ w.st \in StatusReg /\ w.mcu \in VlvDrvCtrl
      /\ word \in Commands
  BY DEF Latched, World, VlvDrvCtrl
<1>2. v = [u EXCEPT !.mcu = m]
  BY <1>1 DEF ClbControl, World
<1> HIDE DEF v, word
<1>3. /\ s \in StatusReg /\ s.mufta = w.st.mufta /\ s.stop = w.st.stop
      /\ s.closing = w.st.closing /\ s.opening = w.st.opening
  BY <1>1 DEF StatusReg
<1>4. /\ m \in VlvDrvCtrl /\ m.command = w.mcu.command
      /\ m.breakFlag = w.mcu.breakFlag /\ m.target = w.mcu.target
  BY <1>1 DEF VlvDrvCtrl
<1> HIDE DEF s, m
<1>5. Leaves(w, u) /\ u.mcu = w.mcu
  BY <1>1, <1>3, PutSt DEF World
<1> HIDE DEF u
<1>6. Leaves(u, v)
  BY <1>2, <1>4, <1>5, PutMcu DEF Leaves
<1> QED BY <1>5, <1>6, LeavesTrans, LeavesKeeps DEF v

LEMMA FaultIndicationKeeps ==
  ASSUME NEW w, Latched(w), NEW posErr
  PROVE  Keeps(w, FaultIndication(w, posErr))
<1> DEFINE v == FaultIndication(w, posErr)
           d == (w.prt.defects \ {"Overway"})
                  \cup (IF w.prt.overWay THEN {"Overway"} ELSE {})
           f == (w.prt.faults \ {"PosSens"})
                  \cup (IF posErr /\ PosSensEnable # "pmOff"
                        THEN {"PosSens"} ELSE {})
           n == w.prt.delay - 1
           p == [w.prt EXCEPT !.delay = n]
           q == [w.prt EXCEPT !.defects = d, !.faults = f]
<1>1. w \in World /\ w.prt \in ProtectionState
  BY DEF Latched, World
<1>2. \/ w.prt.delay > 0 /\ v = [w EXCEPT !.prt = p]
      \/ v = [w EXCEPT !.prt = q]
  BY <1>1 DEF FaultIndication, World, ProtectionState
<1>3. /\ d \in SUBSET {"Overway", "Other"} /\ f \in SUBSET FaultKinds
      /\ "NoMove" \in f <=> "NoMove" \in w.prt.faults
      /\ "ShC" \in f <=> "ShC" \in w.prt.faults
  BY <1>1 DEF ProtectionState, FaultKinds
<1> HIDE DEF v, d, f
<1>4. w.prt.delay > 0 => p \in ProtectionState /\ PrtLeft(w.prt, p)
  BY <1>1 DEF ProtectionState, PrtLeft
<1>5. q \in ProtectionState /\ PrtLeft(w.prt, q)
  BY <1>1, <1>3 DEF ProtectionState, PrtLeft
<1> HIDE DEF p, q
<1>6. Leaves(w, v)
  BY <1>1, <1>2, <1>4, <1>5, PutPrt
<1> QED BY <1>6, LeavesKeeps DEF v

(* A reset is sent to the EEPROM, to take the stored short circuit away.   *)
LEMMA ProtectionsEnableKeeps ==
  ASSUME NEW w, Latched(w), NEW muffTurn, NEW memReady \in BOOLEAN
  PROVE  Keeps(w, ProtectionsEnable(w, muffTurn, memReady))
<1> DEFINE v == ProtectionsEnable(w, muffTurn, memReady)
           clear == w.prt.isShcReset /\ memReady
           watch == IF muffTurn
                    THEN /\ w.dmc.mode \in MuffModes
                         /\ w.dmc.zazor = 0
                         /\ ~w.dmc.kickEnable
                    ELSE w.prt.mufEnable
           p == [w.prt EXCEPT !.mufEnable = watch,
                              !.isShcReset = @ /\ ~clear]
           q == [w.pwr EXCEPT !.scFaults = @ /\ ~clear,
                              !.eeReq = @ \/ clear]
<1>1. /\ w \in World /\ w.prt \in ProtectionState /\ w.pwr \in PowerState
      /\ clear \in BOOLEAN /\ watch \in BOOLEAN
  BY DEF Latched, World, ProtectionState
<1>2. v = w \/ v = [w EXCEPT !.prt = p, !.pwr = q]
  BY DEF ProtectionsEnable
<1>3. v \in World
  BY <1>1, ProtectionsEnableEffect
<1> HIDE DEF v, clear, watch
<1>4. /\ p.muff = w.prt.muff /\ p.overWay = w.prt.overWay
      /\ p.faults = w.prt.faults
      /\ p.isShcReset <=> (w.prt.isShcReset /\ ~clear)
  BY <1>1 DEF ProtectionState
<1>5. /\ q.eeSc = w.pwr.eeSc /\ (q.eeReq <=> (w.pwr.eeReq \/ clear))
      /\ q.scFaults <=> (w.pwr.scFaults /\ ~clear)
      /\ q.reset = w.pwr.reset /\ q.saveDir = w.pwr.saveDir
      /\ q.supply = w.pwr.supply /\ q.testMode = w.pwr.testMode
  BY <1>1 DEF PowerState
<1> HIDE DEF p, q
<1>6. CASE v = w
  BY <1>6 DEF Keeps, v
<1>7. CASE v = [w EXCEPT !.prt = p, !.pwr = q]
  <2>1. v.st = w.st /\ v.mcu = w.mcu /\ v.prt = p /\ v.pwr = q
    BY <1>1, <1>7 DEF World
  <2>2. MuffOK(v) /\ SealOK(v) /\ CourseOK(v)
    BY <1>4, <2>1 DEF Latched, MuffOK, SealOK, CourseOK
  <2>3. ShcOK(v)
    BY <1>4, <1>5, <2>1 DEF Latched, ShcOK
  <2> QED BY <1>3, <1>5, <2>1, <2>2, <2>3 DEF Latched, Keeps, v
<1> QED BY <1>2, <1>6, <1>7

(* What it stores is what is to be recalled.                               *)
LEMMA EepromUpdateKeeps ==
  ASSUME NEW w, Latched(w), NEW last \in BOOLEAN
  PROVE  Keeps(w, EepromUpdate(w, last))
<1> DEFINE v == EepromUpdate(w, last)
           q == [w.pwr EXCEPT !.eeSc = w.pwr.scFaults, !.eeReq = ~last]
<1>1. w \in World /\ w.pwr \in PowerState
  BY DEF Latched, World
<1>2. v = [w EXCEPT !.pwr = q] /\ v \in World
  BY <1>1, EepromUpdateEffect DEF EepromUpdate
<1> HIDE DEF v
<1>3. /\ q.eeSc = w.pwr.scFaults /\ q.scFaults = w.pwr.scFaults
      /\ q.reset = w.pwr.reset /\ q.saveDir = w.pwr.saveDir
      /\ q.supply = w.pwr.supply /\ q.testMode = w.pwr.testMode
  BY <1>1 DEF PowerState
<1> HIDE DEF q
<1>4. v.st = w.st /\ v.mcu = w.mcu /\ v.prt = w.prt /\ v.pwr = q
  BY <1>1, <1>2 DEF World
<1>5. MuffOK(v) /\ SealOK(v) /\ CourseOK(v) /\ ShcOK(v)
  BY <1>3, <1>4 DEF Latched, MuffOK, SealOK, CourseOK, ShcOK
<1>6. Keeps(w, v)
  BY <1>2, <1>3, <1>4, <1>5 DEF Latched, Keeps
<1> QED BY <1>6 DEF v

LEMMA FaultTasksKeep ==
  ASSUME NEW w, Latched(w), NEW f \in FaultKinds \ {"NoMove", "ShC"}, NEW on
  PROVE  /\ Keeps(w, RaiseFault(w, f)) /\ Keeps(w, DropFault(w, f))
         /\ Keeps(w, SetDefect(w, on)) /\ Keeps(w, DiffInputCalc(w))
<1> DEFINE d == (w.prt.defects \ {"Other"})
                  \cup (IF on THEN {"Other"} ELSE {})
           m == w.prt.muff \/ w.prt.mufEnable
           p1 == [w.prt EXCEPT !.faults = @ \cup {f}]
           p2 == [w.prt EXCEPT !.faults = @ \ {f}]
           p3 == [w.prt EXCEPT !.defects = d]
           p4 == [w.prt EXCEPT !.muff = m]
           v == [w EXCEPT !.prt = p4]
<1>1. /\ w \in World /\ w.prt \in ProtectionState /\ m \in BOOLEAN
      /\ d \in SUBSET {"Overway", "Other"} /\ (w.prt.muff => m)
  BY DEF Latched, World, ProtectionState
<1>2. /\ RaiseFault(w, f) = [w EXCEPT !.prt = p1]
      /\ DropFault(w, f) = [w EXCEPT !.prt = p2]
  BY <1>1 DEF RaiseFault, DropFault, World
<1>3. SetDefect(w, on) = [w EXCEPT !.prt = p3]
  BY <1>1 DEF SetDefect, World
<1>4. DiffInputCalc(w) = v
  BY <1>1 DEF DiffInputCalc, World
<1> HIDE DEF d, m
<1>5. /\ p1 \in ProtectionState /\ p2 \in ProtectionState
      /\ PrtLeft(w.prt, p1) /\ PrtLeft(w.prt, p2)
  BY <1>1 DEF ProtectionState, PrtLeft
<1>6. p3 \in ProtectionState /\ PrtLeft(w.prt, p3)
  BY <1>1 DEF ProtectionState, PrtLeft
<1>7. /\ p4 \in ProtectionState /\ p4.muff = m /\ p4.faults = w.prt.faults
      /\ p4.overWay = w.prt.overWay /\ p4.isShcReset = w.prt.isShcReset
  BY <1>1 DEF ProtectionState
<1> HIDE DEF p1, p2, p3, p4
<1>8. /\ v \in World /\ v.st = w.st /\ v.mcu = w.mcu /\ v.prt = p4
      /\ v.pwr = w.pwr
  BY <1>1, <1>7 DEF World
<1> HIDE DEF v
<1>9. Latched(v)
  BY <1>1, <1>7, <1>8 DEF Latched, CourseOK, MuffOK, SealOK, ShcOK
<1>10. Keeps(w, v)
  BY <1>8, <1>9 DEF Keeps
<1> QED BY <1>1, <1>2, <1>3, <1>4, <1>5, <1>6, <1>10, PutPrt, LeavesKeeps

LEMMA EngPhOrdPrtKeeps ==
  ASSUME NEW w, Latched(w)
  PROVE  Keeps(w, EngPhOrdPrt(w))
<1>1. EngPhOrdPrt(w) = w \/ EngPhOrdPrt(w) = RaiseFault(w, "PhOrd")
  BY DEF EngPhOrdPrt
<1>2. "PhOrd" \in FaultKinds \ {"NoMove", "ShC"}
  BY DEF FaultKinds
<1>3. Keeps(w, w)
  BY DEF Keeps
<1> QED BY <1>1, <1>2, <1>3, FaultTasksKeep

(* The operator's reset waits for the EEPROM to forget the short circuit.  *)
LEMMA AlgControlKeeps ==
  ASSUME NEW w, Latched(w)
  PROVE  Keeps(w, AlgControl(w))
<1> DEFINE v == AlgControl(w)
           s == [w.st EXCEPT !.fault = FALSE, !.defect = FALSE,
                             !.mufta = FALSE]
           p == [w.prt EXCEPT !.overWay = FALSE, !.muff = FALSE,
                              !.faults = {}, !.defects = {},
                              !.isShcReset = TRUE]
<1>1. w \in World /\ w.st \in StatusReg /\ w.prt \in ProtectionState
  BY DEF Latched, World
<1>2. v = w \/ v = [w EXCEPT !.st = s, !.prt = p]
  BY DEF AlgControl, ProtectionsClear
<1>3. v \in World
  BY <1>1, AlgControlEffect
<1> HIDE DEF v
<1>4. /\ s.mufta = FALSE /\ s.stop = w.st.stop
      /\ s.closing = w.st.closing /\ s.opening = w.st.opening
  BY <1>1 DEF StatusReg
<1>5. p.overWay = FALSE /\ p.faults = {} /\ p.isShcReset
  BY <1>1 DEF ProtectionState
<1> HIDE DEF s, p
<1>6. CASE v = w
  BY <1>6 DEF Keeps, v
<1>7. CASE v = [w EXCEPT !.st = s, !.prt = p]
  <2>1. v.st = s /\ v.prt = p /\ v.mcu = w.mcu /\ v.pwr = w.pwr
    BY <1>1, <1>7 DEF World
  <2>2. MuffOK(v) /\ SealOK(v) /\ ShcOK(v) /\ CourseOK(v)
    BY <1>4, <1>5, <2>1 DEF Latched, MuffOK, SealOK, ShcOK, CourseOK
  <2> QED BY <1>3, <2>1, <2>2 DEF Latched, Keeps, v
<1> QED BY <1>2, <1>6, <1>7

LEMMA RequestTasksKeep ==
  ASSUME NEW w, Latched(w), NEW word \in Commands
  PROVE  Keeps(w, GetCurrentCmd(w)) /\ Keeps(w, WriteControlWord(w, word))
<1> DEFINE m == [w.mcu EXCEPT !.digital = FALSE]
           n == [w.mcu EXCEPT !.cw = word]
<1>1. w \in World /\ w.mcu \in VlvDrvCtrl
  BY DEF Latched, World
<1>2. /\ GetCurrentCmd(w) = [w EXCEPT !.mcu = m]
      /\ WriteControlWord(w, word) = [w EXCEPT !.mcu = n]
  BY <1>1 DEF GetCurrentCmd, WriteControlWord, World
<1>3. /\ m \in VlvDrvCtrl /\ m.command = w.mcu.command
      /\ m.breakFlag = w.mcu.breakFlag /\ m.target = w.mcu.target
      /\ n \in VlvDrvCtrl /\ n.command = w.mcu.command
      /\ n.breakFlag = w.mcu.breakFlag /\ n.target = w.mcu.target
  BY <1>1 DEF VlvDrvCtrl
<1> HIDE DEF m, n
<1> QED BY <1>1, <1>2, <1>3, PutMcu, LeavesKeeps

-----------------------------------------------------------------------------
(***************************************************************************)
(* The supply monitor.                                                     *)
(***************************************************************************)
BrakeSafe(w) ==
  /\ w.dmc.mode = "wmDynBrake" => w.st.stop
  /\ w.dmc.sifu = "brake" =>
       /\ w.st.stop /\ w.dmc.mode \in {"wmDynBrake", "wmStop"}
       /\ w.mcu.startDelay >= StartDelayTime - 1
  /\ ~w.pwr.supply \/ "BIT1" \in w.pwr.reset => w.pwr.saveDir = "none"

(* It moves nothing, and leaves the braking to the motor task.             *)
Monitors(w, v) ==
  /\ Latched(v) /\ v.st = w.st /\ v.mcu = w.mcu /\ v.dmc.mode = w.dmc.mode
  /\ v.pwr.testMode = w.pwr.testMode
  /\ BrakeSafe(w) =>
       BrakeSafe(v) /\ (v.dmc.sifu = "brake" => w.dmc.sifu = "brake")

LEMMA MonitorsIf ==
  ASSUME NEW w, Latched(w), NEW v \in World,
         v.st = w.st, v.mcu = w.mcu, v.dmc.mode = w.dmc.mode,
         v.pwr.testMode = w.pwr.testMode,
         v.prt.muff = w.prt.muff, v.prt.overWay = w.prt.overWay,
         "NoMove" \in v.prt.faults <=> "NoMove" \in w.prt.faults,
         ShcOK(v),
         \/ v.dmc.sifu \in {w.dmc.sifu, "none"}
         \/ v.dmc.sifu = w.pwr.saveDir /\ "BIT1" \in w.pwr.reset,
         \/ v.pwr.supply /\ "BIT1" \notin v.pwr.reset
         \/ /\ v.pwr.saveDir = w.pwr.saveDir
            /\ ~w.pwr.supply \/ "BIT1" \in w.pwr.reset
  PROVE  Monitors(w, v)
<1>1. MuffOK(v) /\ SealOK(v) /\ CourseOK(v)
  BY DEF Latched, MuffOK, SealOK, CourseOK
<1>2. ASSUME BrakeSafe(w)
      PROVE  BrakeSafe(v) /\ (v.dmc.sifu = "brake" => w.dmc.sifu = "brake")
  BY <1>2 DEF BrakeSafe
<1> QED BY <1>1, <1>2 DEF Monitors, Latched

LEMMA LowPowerControlMonitors ==
  ASSUME NEW w, Latched(w), NEW memReady
  PROVE  Monitors(w, LowPowerControl(w, memReady))
<1> DEFINE shc == "ShC" \in w.prt.faults
           flag == w.pwr.shcFlag /\ shc
           q == [w.pwr EXCEPT !.shcFlag = flag]
           v == [w EXCEPT !.pwr = q]
<1>1. w \in World /\ w.pwr \in PowerState /\ w.dmc \in DmControl /\ flag \in BOOLEAN
  BY DEF Latched, World
<1>2. [w EXCEPT !.pwr.shcFlag = @ /\ shc] = v
  BY <1>1 DEF World, PowerState
<1>3. /\ q \in PowerState /\ q.shcFlag = flag /\ q.supply = w.pwr.supply
      /\ q.saveDir = w.pwr.saveDir /\ q.reset = w.pwr.reset
      /\ q.eeSc = w.pwr.eeSc /\ q.scFaults = w.pwr.scFaults
      /\ q.eeReq = w.pwr.eeReq
      /\ q.testMode = w.pwr.testMode /\ q.timer = w.pwr.timer
  BY <1>1 DEF PowerState
<1> HIDE DEF flag, q
<1>4. /\ v \in World /\ v.st = w.st /\ v.mcu = w.mcu /\ v.dmc = w.dmc
      /\ v.prt = w.prt /\ v.pwr = q
  BY <1>1, <1>3 DEF World
<1> HIDE DEF v
<1>5. /\ v.dmc \in DmControl /\ v.pwr \in PowerState /\ v.prt \in ProtectionState
  BY <1>4 DEF World
<1>6. Monitors(w, v)
  BY <1>3, <1>4, MonitorsIf DEF Latched, ShcOK
<1>7. ASSUME v.pwr.timer > 0
      PROVE  Monitors(w, [v EXCEPT !.pwr.timer = @ - 1])
  <2> DEFINE r == [v.pwr EXCEPT !.timer = v.pwr.timer - 1]
             u == [v EXCEPT !.pwr = r]
  <2>1. [v EXCEPT !.pwr.timer = @ - 1] = u
    BY <1>4 DEF World
  <2>2. /\ r \in PowerState /\ r.supply = q.supply /\ r.saveDir = q.saveDir
        /\ r.reset = q.reset /\ r.eeSc = q.eeSc /\ r.scFaults = q.scFaults
        /\ r.testMode = q.testMode /\ r.eeReq = q.eeReq
    BY <1>4, <1>5, <1>7 DEF PowerState
  <2> HIDE DEF r
  <2>3. /\ u \in World /\ u.st = v.st /\ u.mcu = v.mcu /\ u.dmc = v.dmc
        /\ u.prt = v.prt /\ u.pwr = r
    BY <1>4, <2>2 DEF World
  <2> HIDE DEF u
  <2> QED BY <1>3, <1>4, <2>1, <2>2, <2>3, MonitorsIf DEF Latched, ShcOK
<1>8. ASSUME "BIT0" \in v.pwr.reset
      PROVE  Monitors(w, RecallShC(v, memReady))
  <2> DEFINE f == v.prt.faults \cup (IF v.pwr.scFaults THEN {"ShC"} ELSE {})
             p == [v.prt EXCEPT !.faults = f]
             r == [v.pwr EXCEPT !.scFaults = FALSE, !.reset = @ \ {"BIT0"}]
             u == [v EXCEPT !.prt = p, !.pwr = r]
  <2>1. RecallShC(v, memReady) \in {v, u}
    BY <1>4, <1>5 DEF RecallShC, World, ProtectionState
  <2>2. f \in SUBSET FaultKinds /\ ("NoMove" \in f <=> "NoMove" \in v.prt.faults)
        /\ ("ShC" \in f <=> v.pwr.scFaults \/ "ShC" \in v.prt.faults)
    BY <1>5 DEF ProtectionState, FaultKinds
  <2> HIDE DEF f
  <2>3. /\ p \in ProtectionState /\ p.faults = f /\ p.muff = v.prt.muff
        /\ p.overWay = v.prt.overWay /\ p.isShcReset = v.prt.isShcReset
    BY <1>5, <2>2 DEF ProtectionState
  <2>4. /\ r \in PowerState /\ r.supply = q.supply /\ r.saveDir = q.saveDir
        /\ r.reset = q.reset \ {"BIT0"} /\ r.eeSc = q.eeSc
        /\ r.testMode = q.testMode /\ r.eeReq = q.eeReq /\ ~r.scFaults
    BY <1>4, <1>5 DEF PowerState
  <2> HIDE DEF p, r
  <2>5. /\ u \in World /\ u.st = v.st /\ u.mcu = v.mcu /\ u.dmc = v.dmc
        /\ u.prt = p /\ u.pwr = r
    BY <1>4, <2>3, <2>4 DEF World
  <2> HIDE DEF u
  <2>6. ShcOK(u)
    BY <1>3, <1>4, <2>2, <2>3, <2>4, <2>5 DEF Latched, ShcOK
  <2>7. Monitors(w, u)
    BY <1>3, <1>4, <2>2, <2>3, <2>4, <2>5, <2>6, MonitorsIf
  <2> QED BY <1>6, <2>1, <2>7
<1>9. ASSUME "ShC" \in v.prt.faults
      PROVE  Monitors(w, StoreShC(v, memReady))
  <2> DEFINE r == [v.pwr EXCEPT !.scFaults = TRUE, !.eeReq = TRUE,
                                !.reset = @ \cup {"BIT0"},
                                !.timer = PowerTout, !.shcFlag = TRUE]
             u == [v EXCEPT !.pwr = r]
  <2>1. StoreShC(v, memReady) \in {v, u}
    BY DEF StoreShC
  <2>2. /\ r \in PowerState /\ r.supply = q.supply /\ r.saveDir = q.saveDir
        /\ r.reset = q.reset \cup {"BIT0"} /\ r.testMode = q.testMode
    BY <1>4, <1>5, TimeAssumption DEF PowerState, Times
  <2> HIDE DEF r
  <2>3. /\ u \in World /\ u.st = v.st /\ u.mcu = v.mcu /\ u.dmc = v.dmc
        /\ u.prt = v.prt /\ u.pwr = r
    BY <1>4, <2>2 DEF World
  <2> HIDE DEF u
  <2>4. Monitors(w, u)
    BY <1>3, <1>4, <1>9, <2>2, <2>3, MonitorsIf DEF ShcOK
  <2> QED BY <1>6, <2>1, <2>4
<1>10. ASSUME ~v.pwr.supply
       PROVE  Monitors(w, SupplyLost(v))
  <2> DEFINE r == [v.pwr EXCEPT !.reset = @ \cup {"BIT1"}, !.timer = LowPowerTime]
             d == [v.dmc EXCEPT !.clk = FALSE, !.sifu = "none"]
             u == [v EXCEPT !.dmc = d, !.pwr = r]
  <2>1. SupplyLost(v) = u
    BY DEF SupplyLost
  <2>2. /\ r \in PowerState /\ r.supply = q.supply /\ r.saveDir = q.saveDir
        /\ r.reset = q.reset \cup {"BIT1"} /\ r.testMode = q.testMode
        /\ r.eeSc = q.eeSc /\ r.scFaults = q.scFaults /\ r.eeReq = q.eeReq
    BY <1>4, <1>5, TimeAssumption DEF PowerState, Times
  <2>3. d \in DmControl /\ d.sifu = "none" /\ d.mode = v.dmc.mode
    BY <1>5 DEF DmControl, Gates
  <2> HIDE DEF r, d
  <2>4. /\ u \in World /\ u.st = v.st /\ u.mcu = v.mcu /\ u.dmc = d
        /\ u.prt = v.prt /\ u.pwr = r
    BY <1>4, <2>2, <2>3 DEF World
  <2> HIDE DEF u
  <2>5. ShcOK(u)
    BY <1>3, <1>4, <2>2, <2>4 DEF Latched, ShcOK
  <2> QED BY <1>3, <1>4, <1>10, <2>1, <2>2, <2>3, <2>4, <2>5, MonitorsIf
<1>11. ASSUME v.pwr.supply, "BIT1" \in v.pwr.reset
       PROVE  Monitors(w, SupplyBack(v))
  <2> DEFINE r == [v.pwr EXCEPT !.reset = @ \ {"BIT1"}]
             d == [v.dmc EXCEPT !.sifu = v.pwr.saveDir, !.clk = TRUE]
             u == [v EXCEPT !.dmc = d, !.pwr = r]
  <2>1. SupplyBack(v) = u
    BY <1>4, <1>5 DEF SupplyBack, World, PowerState
  <2>2. /\ r \in PowerState /\ r.supply = q.supply /\ r.saveDir = q.saveDir
        /\ r.reset = q.reset \ {"BIT1"} /\ r.testMode = q.testMode
        /\ r.eeSc = q.eeSc /\ r.scFaults = q.scFaults /\ r.eeReq = q.eeReq
    BY <1>4, <1>5 DEF PowerState
  <2>3. d \in DmControl /\ d.sifu = v.pwr.saveDir /\ d.mode = v.dmc.mode
    BY <1>5 DEF DmControl, PowerState
  <2> HIDE DEF r, d
  <2>4. /\ u \in World /\ u.st = v.st /\ u.mcu = v.mcu /\ u.dmc = d
        /\ u.prt = v.prt /\ u.pwr = r
    BY <1>4, <2>2, <2>3 DEF World
  <2> HIDE DEF u
  <2>5. ShcOK(u)
    BY <1>3, <1>4, <2>2, <2>4 DEF Latched, ShcOK
  <2> QED BY <1>3, <1>4, <1>11, <2>1, <2>2, <2>3, <2>4, <2>5, MonitorsIf
<1>12. ASSUME v.pwr.supply, "BIT1" \notin v.pwr.reset
       PROVE  Monitors(w, [v EXCEPT !.pwr.saveDir = v.dmc.sifu])
  <2> DEFINE r == [v.pwr EXCEPT !.saveDir = v.dmc.sifu]
             u == [v EXCEPT !.pwr = r]
  <2>1. [v EXCEPT !.pwr.saveDir = v.dmc.sifu] = u
    BY <1>4, <1>5 DEF World, PowerState
  <2>2. /\ r \in PowerState /\ r.supply = q.supply /\ r.reset = q.reset
        /\ r.testMode = q.testMode
        /\ r.eeSc = q.eeSc /\ r.scFaults = q.scFaults /\ r.eeReq = q.eeReq
    BY <1>4, <1>5 DEF PowerState, DmControl
  <2> HIDE DEF r
  <2>3. /\ u \in World /\ u.st = v.st /\ u.mcu = v.mcu /\ u.dmc = v.dmc
        /\ u.prt = v.prt /\ u.pwr = r
    BY <1>4, <2>2 DEF World
  <2> HIDE DEF u
  <2>4. ShcOK(u)
    BY <1>3, <1>4, <2>2, <2>3 DEF Latched, ShcOK
  <2>5. u.pwr.supply /\ "BIT1" \notin u.pwr.reset
    BY <1>4, <1>12, <2>2, <2>3
  <2>6. /\ u.st = w.st /\ u.mcu = w.mcu /\ u.dmc = w.dmc /\ u.prt = w.prt
        /\ u.pwr.testMode = w.pwr.testMode
    BY <1>3, <1>4, <2>2, <2>3
  <2>7. Monitors(w, u)
    BY <2>3, <2>4, <2>5, <2>6, MonitorsIf
  <2> QED BY <2>1, <2>7
<1> DEFINE m == LowPowerControl(w, memReady)
<1>13. \/ m = v
       \/ v.pwr.timer > 0 /\ m = [v EXCEPT !.pwr.timer = @ - 1]
       \/ "BIT0" \in v.pwr.reset /\ m = RecallShC(v, memReady)
       \/ "ShC" \in v.prt.faults /\ m = StoreShC(v, memReady)
       \/ ~v.pwr.supply /\ m = SupplyLost(v)
       \/ v.pwr.supply /\ "BIT1" \in v.pwr.reset /\ m = SupplyBack(v)
       \/ /\ v.pwr.supply /\ "BIT1" \notin v.pwr.reset
          /\ m = [v EXCEPT !.pwr.saveDir = v.dmc.sifu]
  BY <1>2, <1>4, Zenon DEF LowPowerControl
<1> HIDE DEF m
<1>14. Monitors(w, m)
  BY <1>6, <1>7, <1>8, <1>9, <1>10, <1>11, <1>12, <1>13
<1> QED BY <1>14 DEF m

-----------------------------------------------------------------------------
(***************************************************************************)
(* What a task besides the two of the motor may do to gates and mode.      *)
(***************************************************************************)
Lets(w, v) ==
  \/ Kept(w, v)
  \/ /\ SameGates(w, v) /\ ~w.st.stop /\ v.st.stop
     /\ v.dmc.mode \in {w.dmc.mode, "wmStop", "wmDynBrake"}
     /\ v.mcu.startDelay = StartDelayTime

LEMMA IdleLets ==
  ASSUME NEW w \in World, NEW v, Idle(w, v)
  PROVE  Lets(w, v)
BY DEF Idle, Halted, Lets

(* A target reached in any mode, the thyristor test included.              *)
LEMMA CalibStopLets ==
  ASSUME NEW w \in World, NEW reached
  PROVE  Lets(w, CalibStop(w, reached))
<1> DEFINE v == CalibStop(w, reached)
           p == [w.prt EXCEPT !.overWay = TRUE]
<1>1. \/ v = w
      \/ v = BlockStop(w) /\ ~w.st.stop
      \/ v = [w EXCEPT !.prt = p]
  <2>1. [w EXCEPT !.prt.overWay = TRUE] = [w EXCEPT !.prt = p]
    BY DEF World
  <2>2. \/ v = w
        \/ v = [w EXCEPT !.prt.overWay = TRUE]
        \/ v = BlockStop(w) /\ ~w.st.stop
    BY DEF CalibStop, IsStopped
  <2> QED BY <2>1, <2>2
<1>2. p \in ProtectionState
  BY DEF World, ProtectionState
<1> SUFFICES Lets(w, v)
  OBVIOUS
<1> HIDE DEF v, p
<1>3. CASE v = w
  BY <1>3 DEF Lets, Kept, SameMotion, SameGates
<1>4. CASE v = BlockStop(w) /\ ~w.st.stop
  BY <1>4, BlockStopEffect DEF Lets, ModeAfterStop
<1>5. CASE v = [w EXCEPT !.prt = p]
  BY <1>2, <1>5, SetPrt, IdleLets
<1> QED BY <1>1, <1>3, <1>4, <1>5

LEMMA ProtectionsUpdateLets ==
  ASSUME NEW w, Latched(w), NEW in
  PROVE  LET v == ProtectionsUpdate(w, in) IN
         /\ Keeps(w, v) /\ Lets(w, v)
         /\ Kept(w, v) \/ Coasts(w, v)
BY ProtectionsUpdateKeeps, ProtectionsUpdateEffect
   DEF Lets, Coasts, Halted, Latched

(* The other tasks, one after another.                                     *)
LEMMA OtherTaskKeeps ==
  ASSUME Latched(Now), OtherTick
  PROVE  \E s, v : /\ Run(v)
                   /\ Keeps(ProtectionsUpdate(Now, s), v)
                   /\ Lets(ProtectionsUpdate(Now, s), v)
<1> DEFINE P(s) == ProtectionsUpdate(Now, s)
<1>1. ASSUME NEW s PROVE Latched(P(s)) /\ P(s) \in World
  BY ProtectionsUpdateKeeps DEF Keeps, Latched
<1> SUFFICES \E s, v : Run(v) /\ Keeps(P(s), v) /\ Lets(P(s), v)
  OBVIOUS
<1> HIDE DEF P
<1>2. CASE CalibStopTick
  <2>1. PICK s, reached : Run(CalibStop(P(s), reached))
    BY <1>2 DEF CalibStopTick, P
  <2> QED BY <1>1, <2>1, CalibStopKeeps, CalibStopLets
<1>3. CASE ClbControlTick
  <2>1. PICK s \in Samples, zone \in Zones,
             autoCmd \in {"None"} \cup (Words \cap {"Close", "Open"}) :
          Run(ClbControl(P(s), zone, autoCmd))
    BY <1>3 DEF ClbControlTick, P
  <2>2. autoCmd \in Commands
    BY DEF Commands
  <2> QED BY <1>1, <2>1, <2>2, ClbControlKeeps, ClbControlEffect, IdleLets
<1>4. CASE FaultIndicationTick
  <2>1. PICK s, posErr : Run(FaultIndication(P(s), posErr))
    BY <1>4 DEF FaultIndicationTick, P
  <2> QED BY <1>1, <2>1, FaultIndicationKeeps, FaultIndicationEffect, IdleLets
<1>5. CASE ProtectionsEnableTick
  <2>1. PICK s \in Samples, muffTurn \in BOOLEAN, memReady \in MemReady :
          Run(ProtectionsEnable(P(s), muffTurn, memReady))
    BY <1>5 DEF ProtectionsEnableTick, P
  <2>2. memReady \in BOOLEAN
    BY DEF MemReady
  <2> QED BY <1>1, <2>1, <2>2, ProtectionsEnableKeeps, ProtectionsEnableEffect,
             IdleLets
<1>6. CASE DiffInputCalcTick
  <2>1. PICK s : Run(DiffInputCalc(P(s)))
    BY <1>6 DEF DiffInputCalcTick, P
  <2>2. "Net" \in FaultKinds \ {"NoMove", "ShC"} /\ "Net" \in FaultKinds
    BY DEF FaultKinds, LibraryKinds
  <2> QED BY <1>1, <2>1, <2>2, FaultTasksKeep, FaultTasksEffect, IdleLets
<1>7. CASE PrtCalcTick
  <2>1. PICK s \in Samples, f \in Faulty \cap LibraryKinds :
          Run(RaiseFault(P(s), f)) \/ Run(DropFault(P(s), f))
    BY <1>7 DEF PrtCalcTick, P
  <2>2. f \in FaultKinds \ {"NoMove", "ShC"} /\ f \in FaultKinds
    BY DEF FaultKinds, LibraryKinds
  <2>3. CASE Run(RaiseFault(P(s), f))
    BY <1>1, <2>2, <2>3, FaultTasksKeep, FaultTasksEffect, IdleLets
  <2>4. CASE Run(DropFault(P(s), f))
    BY <1>1, <2>2, <2>4, FaultTasksKeep, FaultTasksEffect, IdleLets
  <2> QED BY <2>1, <2>3, <2>4
<1>8. CASE DefectTick
  <2>1. PICK s, on : Run(SetDefect(P(s), on))
    BY <1>8 DEF DefectTick, P
  <2>2. "Net" \in FaultKinds \ {"NoMove", "ShC"} /\ "Net" \in FaultKinds
    BY DEF FaultKinds, LibraryKinds
  <2> QED BY <1>1, <2>1, <2>2, FaultTasksKeep, FaultTasksEffect, IdleLets
<1>9. CASE EngPhOrdPrtTick
  <2>1. PICK s : Run(EngPhOrdPrt(P(s)))
    BY <1>9 DEF EngPhOrdPrtTick, P
  <2> QED BY <1>1, <2>1, EngPhOrdPrtKeeps, EngPhOrdPrtEffect, IdleLets
<1>10. CASE AlgControlTick
  <2>1. PICK s : Run(AlgControl(P(s)))
    BY <1>10 DEF AlgControlTick, P
  <2> QED BY <1>1, <2>1, AlgControlKeeps, AlgControlEffect, IdleLets
<1>11. CASE GetCurrentCmdTick
  <2>1. PICK s : Run(GetCurrentCmd(P(s)))
    BY <1>11 DEF GetCurrentCmdTick, P
  <2>2. "None" \in Commands
    BY DEF Commands
  <2> QED BY <1>1, <2>1, <2>2, RequestTasksKeep, RequestTasksEffect, IdleLets
<1>12. CASE WriteControlWordTick
  <2>1. PICK s \in Samples, word \in Words : Run(WriteControlWord(P(s), word))
    BY <1>12 DEF WriteControlWordTick, P
  <2>2. word \in Commands
    BY InputAssumption
  <2> QED BY <1>1, <2>1, <2>2, RequestTasksKeep, RequestTasksEffect, IdleLets
<1>13. CASE EepromTick
  <2>1. PICK s \in Samples, last \in BOOLEAN : Run(EepromUpdate(P(s), last))
    BY <1>13 DEF EepromTick, P
  <2> QED BY <1>1, <2>1, EepromUpdateKeeps, EepromUpdateEffect, IdleLets
<1> QED BY <1>2, <1>3, <1>4, <1>5, <1>6, <1>7, <1>8, <1>9, <1>10, <1>11,
           <1>12, <1>13
        DEF OtherTick

-----------------------------------------------------------------------------
(***************************************************************************)
(* Every step of both specifications: the protections lead from Now to p,  *)
(* the task from p to Now'.                                                *)
(***************************************************************************)
Guarded(p) == Protected(p) /\ Keeps(Now, p)

LEMMA GuardedFirst ==
  ASSUME Latched(Now), NEW s
  PROVE  Guarded(ProtectionsUpdate(Now, s))
<1> DEFINE p == ProtectionsUpdate(Now, s)
<1>1. Now \in World /\ Now.st = st /\ Now.prt = prt
  BY DEF Latched, Now
<1>2. /\ p \in World
      /\ Kept(Now, p) \/ Coasts(Now, p)
      /\ /\ PosSensEnable = "pmSignStop" /\ ~Now.st.stop
         /\ Now.prt.muff \/ ActiveFaults(Now) # {}
         => Coasts(Now, p)
  BY <1>1, ProtectionsUpdateEffect
<1>3. Keeps(Now, p)
  BY ProtectionsUpdateKeeps
<1> HIDE DEF p
<1> QED BY <1>1, <1>2, <1>3 DEF Guarded, Protected, p

LEMMA OtherStepKeeps ==
  ASSUME Latched(Now), OtherTick
  PROVE  \E p : /\ Guarded(p) /\ Keeps(p, Now') /\ Lets(p, Now')
                /\ ran' = ran
<1>1. PICK s, v : /\ Run(v)
                  /\ Keeps(ProtectionsUpdate(Now, s), v)
                  /\ Lets(ProtectionsUpdate(Now, s), v)
  BY OtherTaskKeeps
<1>2. Now' = v
  BY <1>1, BecomeNow DEF Run, Keeps, Latched
<1>3. ran' = ran
  BY <1>1 DEF Run
<1> QED BY <1>1, <1>2, <1>3, GuardedFirst

(* The motor task, with the inputs either specification gives it.          *)
MotorInput(in) ==
  /\ in.group \in {"up", "down"}
  /\ "supply" \notin Events => in.powered

LEMMA MotorStepKeeps ==
  ASSUME Latched(Now), ServiceControlModeTick \/ ControlModeTick
  PROVE  \E p, in : /\ Guarded(p) /\ MotorInput(in)
                    /\ Now' = ControlMode(p, in) /\ Latched(Now')
                    /\ ran' = TRUE
<1>1. PICK in : ControlModeWith(in) /\ MotorInput(in)
  <2>1. CASE ServiceControlModeTick
    <3>1. PICK speed \in {"low", "min", "high"},
               powered \in IF "supply" \in Events THEN BOOLEAN ELSE {TRUE},
               sifuEnable \in IF "test" \in Events THEN BOOLEAN ELSE {FALSE},
               group \in {"up", "down"} :
            ControlModeWith([powered |-> powered, sifuEnable |-> sifuEnable,
                             group |-> group, speed |-> speed,
                             overload |-> FALSE])
      BY <2>1 DEF ServiceControlModeTick
    <3> DEFINE in == [powered |-> powered, sifuEnable |-> sifuEnable,
                      group |-> group, speed |-> speed, overload |-> FALSE]
    <3>2. in.group = group /\ in.powered = powered
      OBVIOUS
    <3>3. "supply" \notin Events => powered
      BY <3>1
    <3>4. ControlModeWith(in)
      BY <3>1
    <3> HIDE DEF in
    <3>5. MotorInput(in)
      BY <3>2, <3>3 DEF MotorInput
    <3> QED BY <3>4, <3>5
  <2>2. CASE ControlModeTick
    BY <2>2 DEF ControlModeTick, MotorInput
  <2> QED BY <2>1, <2>2
<1>2. PICK s : /\ Become(ControlMode(ProtectionsUpdate(Now, s), in))
               /\ ran' = TRUE
  BY <1>1 DEF ControlModeWith
<1> DEFINE p == ProtectionsUpdate(Now, s)
<1>3. Guarded(p)
  BY GuardedFirst
<1>4. in.group \in Gates
  BY <1>1 DEF MotorInput, Gates
<1> HIDE DEF p
<1>5. Latched(ControlMode(p, in))
  BY <1>3, <1>4, ControlModeKeeps DEF Guarded, Keeps
<1>6. Now' = ControlMode(p, in)
  BY <1>2, <1>5, BecomeNow DEF p, Latched
<1> QED BY <1>1, <1>2, <1>3, <1>5, <1>6

LEMMA CommandStepKeeps ==
  ASSUME Latched(Now), ValveDriveUpdateTick
  PROVE  \E p, in : /\ Guarded(p)
                    /\ Now' = ValveDriveUpdate(p, in) /\ Latched(Now')
                    /\ ran /\ ran' = FALSE
<1>1. PICK s, in : Become(ValveDriveUpdate(ProtectionsUpdate(Now, s), in))
  BY Zenon DEF ValveDriveUpdateTick
<1> DEFINE p == ProtectionsUpdate(Now, s)
<1>2. Guarded(p)
  BY GuardedFirst
<1> HIDE DEF p
<1>3. Latched(ValveDriveUpdate(p, in))
  BY <1>2, ValveDriveUpdateObeys DEF Guarded, Keeps, Obeys
<1>4. Now' = ValveDriveUpdate(p, in)
  BY <1>1, <1>3, BecomeNow DEF p, Latched
<1>5. ran /\ ran' = FALSE
  BY DEF ValveDriveUpdateTick
<1> QED BY <1>2, <1>3, <1>4, <1>5

LEMMA PowerStepKeeps ==
  ASSUME Latched(Now), LowPowerControlTick
  PROVE  \E p : Guarded(p) /\ Monitors(p, Now') /\ ran' = ran
<1>1. PICK s, memReady :
        Run(LowPowerControl(ProtectionsUpdate(Now, s), memReady))
  BY DEF LowPowerControlTick
<1> DEFINE p == ProtectionsUpdate(Now, s)
           v == LowPowerControl(p, memReady)
<1>2. Guarded(p)
  BY GuardedFirst
<1> HIDE DEF p
<1>3. Monitors(p, v)
  BY <1>2, LowPowerControlMonitors DEF Guarded, Keeps
<1>4. Become(v) /\ ran' = ran
  BY <1>1 DEF p, Run
<1> HIDE DEF v
<1>5. Now' = v
  BY <1>3, <1>4, BecomeNow DEF Monitors, Latched
<1> QED BY <1>2, <1>3, <1>4, <1>5

(* The test mode is switched.                                              *)
Switches(w, v) ==
  /\ Latched(v) /\ v.st = w.st /\ v.mcu = w.mcu /\ v.dmc = w.dmc
  /\ v.pwr.reset = w.pwr.reset /\ v.pwr.saveDir = w.pwr.saveDir
  /\ v.pwr.supply = w.pwr.supply

LEMMA SetTestModeSwitches ==
  ASSUME NEW w, Latched(w), NEW on, on \in BOOLEAN
  PROVE  Switches(w, SetTestMode(w, on))
<1> DEFINE q == [w.pwr EXCEPT !.testMode = on]
           v == [w EXCEPT !.pwr = q]
<1>1. w \in World /\ w.pwr \in PowerState
  BY DEF Latched, World
<1>2. SetTestMode(w, on) = v
  BY <1>1 DEF SetTestMode, World
<1>3. /\ q \in PowerState /\ q.reset = w.pwr.reset
      /\ q.saveDir = w.pwr.saveDir /\ q.supply = w.pwr.supply
      /\ q.eeSc = w.pwr.eeSc /\ q.scFaults = w.pwr.scFaults
      /\ q.eeReq = w.pwr.eeReq
  BY <1>1 DEF PowerState
<1> HIDE DEF q
<1>4. /\ v \in World /\ v.st = w.st /\ v.mcu = w.mcu /\ v.dmc = w.dmc
      /\ v.prt = w.prt /\ v.pwr = q
  BY <1>1, <1>3 DEF World
<1> HIDE DEF v
<1>5. Latched(v)
  BY <1>3, <1>4 DEF Latched, CourseOK, MuffOK, SealOK, ShcOK
<1> QED BY <1>2, <1>3, <1>4, <1>5 DEF Switches

LEMMA TestStepKeeps ==
  ASSUME Latched(Now), TestModeTick
  PROVE  \E p : /\ Guarded(p) /\ Switches(p, Now') /\ ran' = ran
                /\ "test" \in Events
<1>1. PICK s \in Samples, on \in BOOLEAN :
        Run(SetTestMode(ProtectionsUpdate(Now, s), on))
  BY DEF TestModeTick
<1> DEFINE p == ProtectionsUpdate(Now, s)
           v == SetTestMode(p, on)
<1>2. Guarded(p)
  BY GuardedFirst
<1> HIDE DEF p
<1>3. Switches(p, v)
  BY <1>2, SetTestModeSwitches DEF Guarded, Keeps
<1>4. Become(v) /\ ran' = ran /\ "test" \in Events
  BY <1>1 DEF p, Run, TestModeTick
<1> HIDE DEF v
<1>5. Now' = v
  BY <1>3, <1>4, BecomeNow DEF Switches, Latched
<1> QED BY <1>2, <1>3, <1>4, <1>5

(* A restart keeps the stored short circuit, and leaves nothing moving.    *)
LEMMA RestartKeeps ==
  ASSUME Latched(Now), Restart
  PROVE  /\ Latched(Now') /\ BrakeSafe(Now') /\ ~pwr'.testMode
         /\ st'.stop /\ dmc'.mode = "wmStop" /\ dmc'.sifu = "none"
         /\ ran' = FALSE /\ rest' = StartDelayTime
<1> DEFINE s == [f \in DOMAIN st |-> f = "stop"]
           m == [mcu EXCEPT !.cw = "None", !.command = "None",
                            !.startDelay = 0, !.tuReady = TRUE,
                            !.releStop = FALSE, !.releStopEnable = TRUE,
                            !.digital = FALSE, !.target = FALSE,
                            !.breakFlag = FALSE]
           d == [dmc EXCEPT !.mode = "wmStop", !.dir = 0, !.reqDir = "none",
                        !.sifu = "none", !.drvOn = FALSE, !.clk = FALSE,
                        !.dynEnable = FALSE, !.kickEnable = FALSE,
                        !.runStatus = "none", !.testTimer = 0,
                        !.preStart = 0, !.upor = 0, !.accel = 0,
                        !.maxTorque = 0, !.pause = 0, !.kick = 0,
                        !.kickCounter = 0, !.dyn = 0, !.zazor = 0]
           p == [prt EXCEPT !.faults = {}, !.defects = {}, !.muff = FALSE,
                        !.mufEnable = FALSE, !.overWay = FALSE,
                        !.onlyPosSens = FALSE, !.delay = FaultDelayTime,
                        !.isShcReset = FALSE]
           q == [pwr EXCEPT !.testMode = FALSE, !.supply = FALSE, !.cnt = 0,
                        !.timer = 0,
                        !.reset = IF pwr.eeSc THEN {"BIT0"} ELSE {},
                        !.saveDir = "none", !.shcFlag = FALSE,
                        !.scFaults = pwr.eeSc, !.eeReq = FALSE]
<1>1. /\ st \in StatusReg /\ mcu \in VlvDrvCtrl /\ dmc \in DmControl
      /\ prt \in ProtectionState /\ pwr \in PowerState
  BY DEF Latched, Now, World
<1>2. /\ st' = s /\ mcu' = m /\ dmc' = d /\ prt' = p /\ pwr' = q
      /\ ran' = FALSE /\ rest' = StartDelayTime
  BY DEF Restart
<1>3. /\ s \in StatusReg /\ s.stop /\ ~s.closing /\ ~s.opening /\ ~s.mufta
  BY <1>1 DEF StatusReg
<1>4. m \in VlvDrvCtrl
  <2>1. "None" \in Commands /\ 0 \in 0 .. BlockDelay
    BY TimesNat DEF Commands
  <2> QED BY <1>1, <2>1 DEF VlvDrvCtrl
<1>5. d \in DmControl /\ d.mode = "wmStop" /\ d.sifu = "none"
  BY <1>1 DEF DmControl, WorkModes, Gates
<1>6. /\ p \in ProtectionState /\ p.faults = {} /\ ~p.overWay
  BY <1>1, TimeAssumption DEF ProtectionState, Times
<1>7. /\ q \in PowerState /\ ~q.testMode /\ q.saveDir = "none"
      /\ q.eeSc = pwr.eeSc /\ q.scFaults = pwr.eeSc
      /\ q.eeSc => "BIT0" \in q.reset
  BY <1>1 DEF PowerState, Gates
<1> HIDE DEF s, m, d, p, q
<1> DEFINE v == Now'
<1>8. v.st = s /\ v.mcu = m /\ v.dmc = d /\ v.prt = p /\ v.pwr = q
  BY <1>2 DEF Now
<1>9. v \in World
  BY <1>2, <1>3, <1>4, <1>5, <1>6, <1>7 DEF Now, World
<1> HIDE DEF v
<1>10. Latched(v)
  BY <1>3, <1>6, <1>7, <1>8, <1>9
     DEF Latched, CourseOK, MuffOK, SealOK, ShcOK, StatusReg
<1>11. BrakeSafe(v)
  BY <1>3, <1>5, <1>7, <1>8 DEF BrakeSafe
<1> QED BY <1>2, <1>3, <1>5, <1>7, <1>10, <1>11 DEF v

(***************************************************************************)
(* The latched bits: at the start, and after every step.                   *)
(***************************************************************************)
LEMMA LatchedInit ==
  ASSUME Init
  PROVE  Latched(Now)
<1>1. Now \in World
  BY DriveInvInit DEF DriveInv, Sound
<1> QED BY <1>1
        DEF Init, Now, Latched, CourseOK, MuffOK, SealOK, ShcOK

LEMMA LatchedStep ==
  ASSUME Latched(Now), [Next \/ ServiceNext]_vars
  PROVE  Latched(Now)'
<1>1. CASE UNCHANGED vars
  <2>1. Now' = Now
    BY <1>1 DEF vars, Now
  <2> QED BY <2>1
<1>2. CASE ControlModeTick \/ ServiceControlModeTick
  BY <1>2, MotorStepKeeps
<1>3. CASE ValveDriveUpdateTick
  BY <1>3, CommandStepKeeps
<1>4. CASE OtherTick
  BY <1>4, OtherStepKeeps DEF Keeps
<1>5. CASE LowPowerControlTick
  BY <1>5, PowerStepKeeps DEF Monitors
<1>6. CASE TestModeTick
  BY <1>6, TestStepKeeps DEF Switches
<1>7. CASE Restart
  BY <1>7, RestartKeeps
<1> QED BY <1>1, <1>2, <1>3, <1>4, <1>5, <1>6, <1>7 DEF Next, ServiceNext

(***************************************************************************)
(* The latched bits fit together in every reachable state of the drive.    *)
(***************************************************************************)
THEOREM LatchesHold == Spec => []Latched(Now)
<1>1. Init => Latched(Now)
  BY LatchedInit
<1>2. Latched(Now) /\ [Next]_vars => Latched(Now)'
  BY LatchedStep
<1> QED BY <1>1, <1>2, PTL DEF Spec

(***************************************************************************)
(* The same with dips of the supply, the thyristor test and restarts.      *)
(***************************************************************************)
THEOREM ServiceLatchesHold == ServiceSpec => []Latched(Now)
<1>1. Init => Latched(Now)
  BY LatchedInit
<1>2. Latched(Now) /\ [ServiceNext]_vars => Latched(Now)'
  BY LatchedStep
<1> QED BY <1>1, <1>2, PTL DEF ServiceSpec

(* What the latched bits say of the variables.                             *)
LEMMA LatchedSays ==
  ASSUME Latched(Now)
  PROVE  MuftaAgrees /\ OverWayInSeal /\ ShcRemembered
<1>1. Now.st = st /\ Now.mcu = mcu /\ Now.prt = prt /\ Now.pwr = pwr
  BY DEF Now
<1> QED BY <1>1 DEF Latched, MuffOK, SealOK, ShcOK, Moving,
                    MuftaAgrees, OverWayInSeal, ShcRemembered

(***************************************************************************)
(* The bit mufta of the status word, the latched fault and the flag of the *)
(* clutch agree in every reachable state, whoever sets and clears them.    *)
(***************************************************************************)
THEOREM MuftaHolds == Spec => []MuftaAgrees
<1>1. Latched(Now) => MuftaAgrees
  BY LatchedSays
<1> QED BY <1>1, LatchesHold, PTL

(***************************************************************************)
(* The flag that a target was passed never meets a movement without seal.  *)
(***************************************************************************)
THEOREM OverWayHolds == Spec => []OverWayInSeal
<1>1. Latched(Now) => OverWayInSeal
  BY LatchedSays
<1> QED BY <1>1, LatchesHold, PTL

(***************************************************************************)
(* A stored short circuit outlives dips of the supply and restarts until   *)
(* the operator resets it.                                                 *)
(***************************************************************************)
THEOREM ShcHolds == ServiceSpec => []ShcRemembered
<1>1. Latched(Now) => ShcRemembered
  BY LatchedSays
<1> QED BY <1>1, ServiceLatchesHold, PTL

(***************************************************************************)
(* A command that stops the drive before a reversal does stop it in the    *)
(* call that takes it: the drive moves only with no delay running, and     *)
(* only the command task takes commands.                                   *)
(***************************************************************************)
THEOREM ReversalHolds == Spec => ReversalStops
<1>1. ASSUME DriveInv, Latched(Now), [Next]_vars
      PROVE  [mcu.command = "Stop" /\ mcu'.command = "None" => st'.stop]_vars
  <2> DEFINE A == mcu.command = "Stop" /\ mcu'.command = "None" => st'.stop
  <2>1. Now.mcu = mcu /\ Now'.mcu = mcu' /\ Now'.st = st'
    BY DEF Now
  <2>2. CASE UNCHANGED vars
    BY <2>2
  <2>3. CASE ControlModeTick
    <3>1. PICK s, in :
            Become(ControlMode(ProtectionsUpdate(Now, s), in)) /\ in.group = "up"
      BY <2>3 DEF ControlModeTick, ControlModeWith
    <3> DEFINE p == ProtectionsUpdate(Now, s)
    <3>2. Keeps(Now, p)
      BY <1>1, ProtectionsUpdateKeeps
    <3> HIDE DEF p
    <3>3. LET v == ControlMode(p, in) IN
          Latched(v) /\ v.mcu.command = p.mcu.command
      BY <3>1, <3>2, ControlModeKeeps DEF Keeps, Gates
    <3>4. Now' = ControlMode(p, in)
      BY <3>1, <3>3, BecomeNow DEF p, Latched
    <3>5. mcu'.command = mcu.command
      BY <2>1, <3>2, <3>3, <3>4 DEF Keeps
    <3> QED BY <3>5
  <2>4. CASE ValveDriveUpdateTick
    <3>1. PICK p, in : Guarded(p) /\ Now' = ValveDriveUpdate(p, in)
      BY <1>1, <2>4, CommandStepKeeps
    <3>2. Protected(p) /\ Keeps(Now, p) /\ Sound(Now)
      BY <1>1, <3>1 DEF Guarded, DriveInv
    <3>3. Sound(p)
      BY <3>2, ProtectedSound DEF Protected
    <3>4. p.mcu.startDelay = 0 \/ p.st.stop
      BY <3>3 DEF Sound, MovesFreely
    <3>5. p.mcu.command = "Stop" => Now'.st.stop
      BY <3>1, <3>2, <3>4, ValveDriveUpdateObeys DEF Keeps
    <3> QED BY <2>1, <3>2, <3>5 DEF Keeps
  <2>5. CASE OtherTick
    <3>1. PICK p : Keeps(Now, p) /\ Keeps(p, Now')
      BY <1>1, <2>5, OtherStepKeeps DEF Guarded
    <3>2. mcu'.command = mcu.command
      BY <2>1, <3>1 DEF Keeps
    <3> QED BY <3>2
  <2> QED BY <1>1, <2>2, <2>3, <2>4, <2>5 DEF Next
<1>2. DriveInv /\ Latched(Now) /\ [Next]_vars
        => [mcu.command = "Stop" /\ mcu'.command = "None" => st'.stop]_vars
  BY <1>1
<1> QED BY <1>2, InvariantHolds, LatchesHold, PTL DEF Spec, ReversalStops

(***************************************************************************)
(* With every fault set to stop the drive, no group starts to fire for a   *)
(* movement while a fault is active: a fault stops a moving drive in that  *)
(* call, and a start only prepares the movement.                           *)
(***************************************************************************)
THEOREM HealthyHolds == PosSensEnable = "pmSignStop" /\ Spec => HealthyWhenFiring
<1> SUFFICES ASSUME PosSensEnable = "pmSignStop"
             PROVE  Spec => HealthyWhenFiring
  OBVIOUS
<1>1. ASSUME DriveInv, [Next]_vars,
             [Moving /\ (prt.muff \/ ActiveFaults(Now) # {})
                => st'.stop /\ dmc'.mode = "wmStop"]_vars
      PROVE  [dmc.sifu = "none" /\ dmc'.sifu \in {"up", "down"} /\ ~st'.stop
                => ActiveFaults(Now) = {} /\ ~prt.muff]_vars
  <2>1. CASE UNCHANGED vars
    BY <2>1
  <2>2. CASE Next /\ ~UNCHANGED vars
    <3>1. PICK p : Interrupt(p) /\ Sound(p)
      BY <1>1, <2>2, EveryStep DEF DriveInv
    <3>2. /\ Now'.dmc = dmc'
          /\ st.stop /\ ~st'.stop => Kept(Now, p) /\ Commanded(p, Now')
      BY <1>1, <3>1, InterruptSound
    <3>3. Now.dmc = dmc
      BY DEF Now
    <3>4. st.stop /\ ~st'.stop => dmc'.sifu = dmc.sifu
      BY <3>2, <3>3
         DEF Kept, Commanded, Waited, Obeyed, Halted, Started, SameGates
    <3> QED BY <1>1, <2>2, <3>4 DEF Moving
  <2> QED BY <1>1, <2>1, <2>2
<1>2. DriveInv /\ [Next]_vars
      /\ [Moving /\ (prt.muff \/ ActiveFaults(Now) # {})
            => st'.stop /\ dmc'.mode = "wmStop"]_vars
      => [dmc.sifu = "none" /\ dmc'.sifu \in {"up", "down"} /\ ~st'.stop
            => ActiveFaults(Now) = {} /\ ~prt.muff]_vars
  BY <1>1
<1>3. Spec => FaultCoasts
  BY CoastHolds
<1> QED BY <1>2, <1>3, InvariantHolds, PTL
        DEF Spec, FaultCoasts, HealthyWhenFiring

-----------------------------------------------------------------------------
(***************************************************************************)
(* Braking with the thyristor test and restarts, the supply being on: the  *)
(* current flows in the state wmDynBrake and until the motor task runs     *)
(* next, and the command task waits for that.                              *)
(***************************************************************************)
StaysBraked(w, v) ==
  BrakeSafe(v) /\ (v.dmc.sifu = "brake" =>
                     /\ w.dmc.sifu = "brake"
                     /\ v.mcu.startDelay = w.mcu.startDelay)

LEMMA LetsBraked ==
  ASSUME NEW w, NEW v, BrakeSafe(w), Lets(w, v),
         v.pwr.reset = w.pwr.reset, v.pwr.saveDir = w.pwr.saveDir,
         w.pwr.supply => v.pwr.supply
  PROVE  StaysBraked(w, v)
<1>1. CASE Kept(w, v)
  BY <1>1 DEF Kept, SameMotion, SameGates, BrakeSafe, StaysBraked
<1>2. CASE ~Kept(w, v)
  BY <1>2 DEF Lets, SameGates, BrakeSafe, StaysBraked
<1> QED BY <1>1, <1>2

LEMMA GuardedBraked ==
  ASSUME Latched(Now), BrakeSafe(Now), NEW p, Guarded(p)
  PROVE  StaysBraked(Now, p)
<1>1. Lets(Now, p)
  BY DEF Guarded, Protected, Lets, Coasts, Halted
<1> QED BY <1>1, LetsBraked DEF Guarded, Keeps

(* The motor task.                                                         *)
LEMMA ControlModeBrakes ==
  ASSUME NEW w, Latched(w), BrakeSafe(w),
         NEW in, in.group \in {"up", "down"}, in.powered
  PROVE  LET v == ControlMode(w, in) IN
         /\ BrakeSafe(v)
         /\ v.dmc.sifu = "brake" => v.mcu.startDelay # StartDelayTime - 1
<1> DEFINE c == PowerCheck(w, in.powered)
           t == DmcTest(c, in.sifuEnable, in.group)
           r == RunMode(c, in.speed, in.overload)
           v == ControlMode(w, in)
           Braked(u) == /\ BrakeSafe(u)
                        /\ u.dmc.sifu = "brake" =>
                             u.mcu.startDelay # StartDelayTime - 1
<1>1. /\ Latched(c) /\ c \in World /\ c.pwr.supply
      /\ c.st = w.st /\ c.mcu = w.mcu /\ c.dmc = w.dmc
      /\ c.pwr.reset = w.pwr.reset /\ c.pwr.saveDir = w.pwr.saveDir
  BY PowerCheckKeeps DEF Latched
<1>2. v = IF IsTestMode(c) THEN t ELSE CountZazor(r)
  BY DEF ControlMode
<1>3. /\ Leaves(c, t) /\ t.dmc.mode \in {"wmStop", "wmTestThyr"}
      /\ t.dmc.sifu \in {"none", in.group}
  BY <1>1, DmcTestLeaves DEF Gates
<1>4. /\ r \in World /\ Leaves(c, r)
      /\ c.dmc.mode = "wmTestThyr" => r = c
      /\ c.dmc.mode # "wmTestThyr" =>
           \/ c.dmc.mode \in MovingModes /\ MovesOn(c, r)
           \/ c.dmc.mode = "wmStop" /\ StandsStill(c, r)
           \/ c.dmc.mode = "wmDynBrake" /\ Brakes(c, r)
  <2>1. r \in World /\ Leaves(c, r)
    <3>1. Leaves(c, r)
      BY <1>1, RunModeLeaves
    <3> QED BY <3>1, Zenon DEF Leaves
  <2>2. c.dmc.mode = "wmTestThyr" => r = c
    BY DEF RunMode
  <2> QED BY <1>1, <2>1, <2>2, RunModeEffect
<1>5. Kept(r, CountZazor(r)) /\ Leaves(r, CountZazor(r))
  BY <1>4, CountZazorEffect, CountZazorLeaves
<1>6. BrakeSafe(c)
  BY <1>1 DEF BrakeSafe
<1> SUFFICES Braked(v)
  OBVIOUS
<1> HIDE DEF c, t, r, v
<1>7. Braked(t)
  BY <1>1, <1>3, <1>6 DEF BrakeSafe, Leaves, PwrLeft
<1>8. Braked(r)
  <2>1. /\ r.pwr.supply /\ r.pwr.reset = c.pwr.reset
        /\ r.pwr.saveDir = c.pwr.saveDir
    BY <1>1, <1>4 DEF Leaves, PwrLeft
  <2>2. CASE c.dmc.mode = "wmTestThyr"
    BY <1>4, <1>6, <2>2 DEF BrakeSafe
  <2>3. CASE c.dmc.mode \in MovingModes /\ MovesOn(c, r)
    <3>1. c.dmc.sifu # "brake" /\ c.dmc.reqDir # "brake"
      BY <1>1, <1>6, <2>3 DEF BrakeSafe, World, DmControl, MovingModes
    <3>2. r.dmc.sifu # "brake" /\ r.dmc.mode # "wmDynBrake"
      BY <2>3, <3>1 DEF MovesOn, CarriesOn, MovingModes
    <3> QED BY <1>6, <2>1, <3>2 DEF BrakeSafe
  <2>4. CASE c.dmc.mode = "wmStop" /\ StandsStill(c, r)
    BY <1>6, <2>1, <2>4 DEF BrakeSafe, StandsStill
  <2>5. CASE c.dmc.mode = "wmDynBrake" /\ Brakes(c, r)
    <3>1. r.st.stop /\ r.dmc.mode \in {"wmDynBrake", "wmStop"}
      BY <1>6, <2>5 DEF BrakeSafe, Brakes
    <3>2. r.mcu.startDelay \in {BlockDelay, StartDelayTime}
      BY <2>5 DEF Brakes
    <3>3. /\ r.mcu.startDelay >= StartDelayTime - 1
          /\ r.mcu.startDelay # StartDelayTime - 1
      BY <3>2, TimesNat
    <3> QED BY <1>6, <2>1, <3>1, <3>3 DEF BrakeSafe
  <2> QED BY <1>4, <2>2, <2>3, <2>4, <2>5
<1>9. Braked(CountZazor(r))
  BY <1>5, <1>8
     DEF Kept, SameMotion, SameGates, BrakeSafe, Leaves, PwrLeft
<1> QED BY <1>2, <1>7, <1>9

(* The command task.                                                       *)
LEMMA ValveDriveUpdateBrakes ==
  ASSUME NEW w, Latched(w), BrakeSafe(w), NEW in,
         w.dmc.sifu = "brake" => w.mcu.startDelay # StartDelayTime - 1
  PROVE  BrakeSafe(ValveDriveUpdate(w, in))
<1> DEFINE v == ValveDriveUpdate(w, in)
<1>1. /\ Obeys(w, v)
      /\ w.mcu.startDelay > 0 => Waits(w, v)
      /\ w.mcu.startDelay = 0 => Acts(w, v)
  BY ValveDriveUpdateObeys
<1>2. w.mcu.startDelay \in Nat /\ v.mcu.startDelay \in Nat
  BY <1>1, TimesNat DEF Obeys, Latched, World, VlvDrvCtrl
<1> HIDE DEF v
<1>3. ~v.pwr.supply \/ "BIT1" \in v.pwr.reset => v.pwr.saveDir = "none"
  BY <1>1 DEF Obeys, BrakeSafe
<1>4. CASE w.mcu.startDelay > 0
  <2>1. /\ v.st = w.st /\ v.dmc = w.dmc
        /\ v.mcu.startDelay = w.mcu.startDelay - 1
    BY <1>1, <1>4 DEF Waits
  <2>2. v.dmc.sifu = "brake" => v.mcu.startDelay >= StartDelayTime - 1
    BY <1>2, <2>1, TimesNat DEF BrakeSafe
  <2> QED BY <1>3, <2>1, <2>2 DEF BrakeSafe, v
<1>5. CASE w.mcu.startDelay = 0
  <2>1. w.dmc.sifu # "brake"
    BY <1>5, TimesNat DEF BrakeSafe
  <2>2. v.dmc.sifu # "brake" /\ (v.dmc.mode = "wmDynBrake" => v.st.stop)
    BY <1>1, <1>5, <2>1 DEF Acts, BrakeSafe, MovingModes
  <2> QED BY <1>3, <2>2 DEF BrakeSafe, v
<1> QED BY <1>2, <1>4, <1>5

BrakeInv ==
  /\ Latched(Now) /\ BrakeSafe(Now) /\ ran \in BOOLEAN
  /\ dmc.sifu = "brake" /\ mcu.startDelay = StartDelayTime - 1 => ~ran

LEMMA BrakeInvStep ==
  ASSUME "supply" \notin Events, BrakeInv, [ServiceNext]_vars
  PROVE  BrakeInv'
<1>1. /\ Now.dmc = dmc /\ Now.mcu = mcu
      /\ Now'.dmc = dmc' /\ Now'.mcu = mcu'
  BY DEF Now
<1>2. Latched(Now) /\ BrakeSafe(Now) /\ Latched(Now')
  BY LatchedStep DEF BrakeInv
<1>3. ASSUME NEW p, Guarded(p)
      PROVE  /\ Latched(p) /\ BrakeSafe(p)
             /\ p.dmc.sifu = "brake" => /\ dmc.sifu = "brake"
                                        /\ p.mcu.startDelay = mcu.startDelay
  BY <1>1, <1>2, <1>3, GuardedBraked DEF StaysBraked, Guarded, Keeps
<1> SUFFICES /\ BrakeSafe(Now') /\ ran' \in BOOLEAN
             /\ dmc'.sifu = "brake" /\ mcu'.startDelay = StartDelayTime - 1
                  => ~ran'
  BY <1>2 DEF BrakeInv
<1>4. CASE UNCHANGED vars
  <2>1. Now' = Now
    BY <1>4 DEF vars, Now
  <2> QED BY <1>4, <2>1 DEF vars, BrakeInv
<1>5. CASE ServiceControlModeTick
  <2>1. PICK p, in : /\ Guarded(p) /\ MotorInput(in)
                     /\ Now' = ControlMode(p, in) /\ ran' = TRUE
    BY <1>2, <1>5, MotorStepKeeps
  <2>2. /\ BrakeSafe(Now')
        /\ Now'.dmc.sifu = "brake" => Now'.mcu.startDelay # StartDelayTime - 1
    BY <1>3, <2>1, ControlModeBrakes DEF MotorInput
  <2> QED BY <1>1, <2>1, <2>2
<1>6. CASE ValveDriveUpdateTick
  <2>1. PICK p, in : /\ Guarded(p) /\ Now' = ValveDriveUpdate(p, in)
                     /\ ran /\ ran' = FALSE
    BY <1>2, <1>6, CommandStepKeeps
  <2>2. p.dmc.sifu = "brake" => p.mcu.startDelay # StartDelayTime - 1
    BY <1>3, <2>1 DEF BrakeInv
  <2> QED BY <1>3, <2>1, <2>2, ValveDriveUpdateBrakes
<1>7. CASE OtherTick
  <2>1. PICK p : /\ Guarded(p) /\ Keeps(p, Now') /\ Lets(p, Now')
                 /\ ran' = ran
    BY <1>2, <1>7, OtherStepKeeps
  <2>2. StaysBraked(p, Now')
    BY <1>3, <2>1, LetsBraked DEF Keeps
  <2> QED BY <1>1, <1>3, <2>1, <2>2 DEF StaysBraked, BrakeInv
<1>8. CASE LowPowerControlTick
  <2>1. PICK p : Guarded(p) /\ Monitors(p, Now') /\ ran' = ran
    BY <1>2, <1>8, PowerStepKeeps
  <2> QED BY <1>1, <1>3, <2>1 DEF Monitors, BrakeInv
<1>9. CASE TestModeTick
  <2>1. PICK p : Guarded(p) /\ Switches(p, Now') /\ ran' = ran
    BY <1>2, <1>9, TestStepKeeps
  <2> QED BY <1>1, <1>3, <2>1 DEF Switches, BrakeSafe, BrakeInv
<1>10. CASE Restart
  BY <1>2, <1>10, RestartKeeps
<1> QED BY <1>4, <1>5, <1>6, <1>7, <1>8, <1>9, <1>10 DEF ServiceNext

(***************************************************************************)
(* No braking current flows in a moving drive, wherever the thyristor test *)
(* and restarts cut a movement or a braking short.  The supply must not    *)
(* dip: the direction it restores may be the braking current.              *)
(***************************************************************************)
THEOREM BrakeHolds == "supply" \notin Events /\ ServiceSpec => []BrakeAtRest
<1> SUFFICES ASSUME "supply" \notin Events
             PROVE  ServiceSpec => []BrakeAtRest
  OBVIOUS
<1>1. Init => BrakeInv
  <2>1. ASSUME Init PROVE BrakeSafe(Now) /\ ran = FALSE
    BY <2>1 DEF Init, Now, BrakeSafe
  <2> QED BY <2>1, LatchedInit DEF BrakeInv
<1>2. BrakeInv /\ [ServiceNext]_vars => BrakeInv'
  BY BrakeInvStep
<1>3. BrakeInv => BrakeAtRest
  BY DEF BrakeInv, BrakeSafe, BrakeAtRest, Now
<1> QED BY <1>1, <1>2, <1>3, PTL DEF ServiceSpec

-----------------------------------------------------------------------------
(***************************************************************************)
(* Types, with every event.                                                *)
(***************************************************************************)
THEOREM ServiceTypesHold == ServiceSpec => []TypeOK
<1> DEFINE I == Latched(Now) /\ TypeOK
<1>1. Init => I
  BY LatchedInit, DriveInvInit DEF DriveInv, Paced, TypeOK, Latched
<1>2. ASSUME I, [ServiceNext]_vars PROVE I'
  <2>1. Latched(Now)'
    BY <1>2, LatchedStep
  <2>2. ran' \in BOOLEAN /\ rest' \in 0 .. StartDelayTime
    <3>1. ran \in BOOLEAN /\ rest \in 0 .. StartDelayTime
      BY <1>2 DEF TypeOK
    <3>2. CASE UNCHANGED vars
      BY <3>1, <3>2 DEF vars
    <3>3. CASE ServiceControlModeTick
      BY <3>1, <3>3 DEF ServiceControlModeTick, ControlModeWith
    <3>4. CASE ValveDriveUpdateTick
      <4>1. /\ ran' = FALSE
            /\ rest' = IF ~st.stop \/ ~st'.stop THEN 0
                       ELSE IF rest < StartDelayTime THEN rest + 1 ELSE rest
        BY <3>4 DEF ValveDriveUpdateTick
      <4>2. rest' = 0 \/ rest' = rest \/ (rest < StartDelayTime /\ rest' = rest + 1)
        BY <4>1
      <4>3. rest' \in 0 .. StartDelayTime
        BY <3>1, <4>2, TimesNat
      <4> QED BY <4>1, <4>3
    <3>5. CASE OtherTick
      <4>1. UNCHANGED << ran, rest >>
        BY <1>2, <3>5, OtherTaskKeeps DEF Run
      <4> QED BY <3>1, <4>1
    <3>6. CASE LowPowerControlTick \/ TestModeTick
      BY <3>1, <3>6 DEF LowPowerControlTick, TestModeTick, Run
    <3>7. CASE Restart
      <4>1. ran' = FALSE /\ rest' = StartDelayTime
        BY <1>2, <3>7, RestartKeeps
      <4>2. rest' \in 0 .. StartDelayTime
        BY <4>1, TimesNat
      <4> QED BY <4>1, <4>2
    <3> QED BY <1>2, <3>2, <3>3, <3>4, <3>5, <3>6, <3>7 DEF ServiceNext
  <2> QED BY <2>1, <2>2 DEF TypeOK, Latched
<1>3. I /\ [ServiceNext]_vars => I'
  BY <1>2
<1> QED BY <1>1, <1>3, PTL DEF ServiceSpec

(* A faulty drive comes to rest, and nothing but the test starts it.       *)
CoastInv == Latched(Now) /\ ~pwr.testMode

LEMMA StoppedStays ==
  ASSUME NEW p, NEW v, p.st.stop, p.dmc.mode = "wmStop", Lets(p, v)
  PROVE  v.st.stop /\ v.dmc.mode = "wmStop"
BY DEF Lets, Kept, SameMotion

LEMMA CoastStep ==
  ASSUME "test" \notin Events, PosSensEnable = "pmSignStop",
         CoastInv, [ServiceNext]_vars
  PROVE  /\ CoastInv'
         /\ [Moving /\ (prt.muff \/ ActiveFaults(Now) # {})
               => st'.stop /\ dmc'.mode = "wmStop"]_vars
<1> DEFINE v == Now'
           Faulty1 == Moving /\ (prt.muff \/ ActiveFaults(Now) # {})
           Stands(w) == w.st.stop /\ w.dmc.mode = "wmStop"
           Good == /\ ~v.pwr.testMode
                   /\ UNCHANGED vars \/ (Faulty1 => Stands(v))
<1>1. /\ Now.pwr = pwr /\ v.pwr = pwr' /\ v.st = st' /\ v.dmc = dmc'
      /\ Latched(Now) /\ Latched(v)
  BY LatchedStep DEF Now, CoastInv
<1> SUFFICES Good
  BY <1>1 DEF CoastInv
<1>2. ASSUME NEW p, Guarded(p)
      PROVE  /\ Latched(p) /\ p \in World /\ ~p.pwr.testMode
             /\ Faulty1 => Stands(p) /\ p.mcu.startDelay = StartDelayTime
  <2>1. Latched(p) /\ p.pwr.testMode = pwr.testMode
    BY <1>1, <1>2 DEF Guarded, Keeps
  <2>2. Faulty1 => Coasts(Now, p)
    BY <1>2 DEF Guarded, Protected, Moving
  <2> HIDE DEF Faulty1
  <2> QED BY <2>1, <2>2 DEF CoastInv, Latched, Coasts, Halted
<1> HIDE DEF v, Faulty1
<1>3. CASE UNCHANGED vars
  BY <1>1, <1>3 DEF vars, CoastInv
<1>4. CASE ServiceControlModeTick
  <2>1. PICK p, in : Guarded(p) /\ MotorInput(in) /\ v = ControlMode(p, in)
    BY <1>1, <1>4, MotorStepKeeps DEF v
  <2>2. ~v.pwr.testMode
    BY <1>2, <2>1, ControlModeKeeps DEF MotorInput, Gates
  <2>3. ASSUME Stands(p) PROVE Stands(v)
    <3>1. Motor(p, v)
      BY <1>2, <2>1, <2>3, ControlModeEffect
    <3> QED BY <2>3, <3>1 DEF Motor, MovingModes
  <2> QED BY <1>2, <2>1, <2>2, <2>3
<1>5. CASE ValveDriveUpdateTick
  <2>1. PICK p, in : Guarded(p) /\ v = ValveDriveUpdate(p, in)
    BY <1>1, <1>5, CommandStepKeeps DEF v
  <2>2. Obeys(p, v) /\ (p.mcu.startDelay > 0 => Waits(p, v))
    BY <1>2, <2>1, ValveDriveUpdateObeys
  <2>3. p.mcu.startDelay = StartDelayTime => p.mcu.startDelay > 0
    BY TimesNat
  <2> QED BY <1>2, <2>1, <2>2, <2>3 DEF Obeys, Waits
<1>6. CASE OtherTick
  <2>1. PICK p : Guarded(p) /\ Keeps(p, v) /\ Lets(p, v)
    BY <1>1, <1>6, OtherStepKeeps DEF v
  <2> QED BY <1>2, <2>1, StoppedStays DEF Keeps
<1>7. CASE LowPowerControlTick
  <2>1. PICK p : Guarded(p) /\ Monitors(p, v)
    BY <1>1, <1>7, PowerStepKeeps DEF v
  <2> QED BY <1>2, <2>1 DEF Monitors
<1>8. ~TestModeTick
  BY DEF TestModeTick
<1>9. CASE Restart
  BY <1>1, <1>9, RestartKeeps
<1> QED BY <1>3, <1>4, <1>5, <1>6, <1>7, <1>8, <1>9 DEF ServiceNext

(***************************************************************************)
(* Unless the thyristor test is switched on, a fault stops a moving drive  *)
(* within one call and lets it coast, through dips of the supply and       *)
(* restarts.                                                               *)
(***************************************************************************)
THEOREM ServiceCoasts ==
  PosSensEnable = "pmSignStop" /\ "test" \notin Events /\ ServiceSpec
    => FaultCoasts
<1> SUFFICES ASSUME PosSensEnable = "pmSignStop", "test" \notin Events
             PROVE  ServiceSpec => FaultCoasts
  OBVIOUS
<1>1. Init => CoastInv
  <2>1. Init => ~pwr.testMode
    BY DEF Init
  <2> QED BY <2>1, LatchedInit DEF CoastInv
<1>2. CoastInv /\ [ServiceNext]_vars => CoastInv'
  BY CoastStep
<1>3. CoastInv /\ [ServiceNext]_vars
        => [Moving /\ (prt.muff \/ ActiveFaults(Now) # {})
              => st'.stop /\ dmc'.mode = "wmStop"]_vars
  BY CoastStep
<1> QED BY <1>1, <1>2, <1>3, PTL DEF ServiceSpec, FaultCoasts
=============================================================================
