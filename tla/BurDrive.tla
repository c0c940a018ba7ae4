------------------------------- MODULE BurDrive -------------------------------
(***************************************************************************)
(* The drive of the BUR-T-90 as its tasks share it.  One step is one call  *)
(* of the 18 kHz timer interrupt: the protections first, then the gate     *)
(* outputs, then at most one of the slower tasks (system.h, ListM and      *)
(* List0 .. List4).  The interrupt is not interrupted by another task, so  *)
(* a step is atomic; which task a step runs is left open, except that the  *)
(* command task (50 Hz) finds the motor task (200 Hz) to have run since    *)
(* its last call.                                                          *)
(*                                                                         *)
(* Here the supply is on and the thyristor test is off; DriveService adds  *)
(* them.  The camera test (GrG->TestCamera) is off in both.                *)
(***************************************************************************)
EXTENDS ValveDrive

VARIABLES
  st,     \* GrA->Status
  mcu,    \* Mcu and the control word
  dmc,    \* Dmc, Sifu and the variables of motor_control.c
  prt,    \* the latched faults and the flags of protections.c
  pwr,    \* the supply monitor and the test mode
  ran,    \* ControlMode has run since the last ValveDriveUpdate
  rest    \* history: calls of ValveDriveUpdate since the drive stood still

vars == << st, mcu, dmc, prt, pwr, ran, rest >>

Now == [st |-> st, mcu |-> mcu, dmc |-> dmc, prt |-> prt, pwr |-> pwr]

Become(w) == /\ st' = w.st /\ mcu' = w.mcu /\ dmc' = w.dmc
             /\ prt' = w.prt /\ pwr' = w.pwr

-----------------------------------------------------------------------------
(***************************************************************************)
(* DefDriveFaults: how a moving drive reacts to the clutch and to a fault. *)
(* s.inSeal: the valve is in the zone where a seal may trip the clutch;    *)
(* s.autoStep: an automatic calibration is under way (Calib.AutoStep).     *)
(***************************************************************************)
MuffIsFault(w, s) ==
  /\ \/ ~Calibrated /\ ~s.autoStep
     \/ Calibrated /\ w.dmc.dir = 0
     \/ Calibrated /\ w.dmc.dir > 0 /\ ~w.st.opened
     \/ Calibrated /\ w.dmc.dir < 0 /\ ~w.st.closed
  /\ ~(w.mcu.breakFlag /\ s.inSeal)

BlockStop(w) == [ValveDriveStop(w) EXCEPT !.mcu.digital = FALSE]

MutMuftaAlwaysShown(w, s) ==
  LET fault == MuffIsFault(w, s) IN
  IF ~w.prt.muff THEN w
  ELSE BlockStop([w EXCEPT
         !.prt.faults = (@ \ {"NoMove"}) \cup (IF fault THEN {"NoMove"} ELSE {}),
         !.st.mufta = TRUE])

StopOnMuff(w, s) ==
  LET fault == MuffIsFault(w, s) IN
  IF ~w.prt.muff THEN w
  ELSE BlockStop([w EXCEPT
         !.prt.faults = (@ \ {"NoMove"}) \cup (IF fault THEN {"NoMove"} ELSE {}),
         !.st.mufta = fault])

MutPosSensNeverStops(w) ==
  IF w.st.fault /\ ~w.prt.onlyPosSens THEN BlockStop(w) ELSE w

StopOnFault(w) ==
  IF w.st.fault /\ (~w.prt.onlyPosSens \/ PosSensEnable = "pmSignStop")
  THEN BlockStop(w)
  ELSE w

DefDriveFaults(w, s) ==
  LET r == ReadFaults(w) IN
  IF IsStopped(r) THEN r ELSE StopOnFault(StopOnMuff(r, s))

ProtectionsUpdate(w, in) == DefDriveFaults(ShCProtect(w, in.shc), in)

(***************************************************************************)
(* CalibStop: the target is reached.  A valve with a seal moves on until   *)
(* the clutch stops it.                                                    *)
(***************************************************************************)
CalibStop(w, reached) ==
  IF ~w.mcu.target \/ IsStopped(w) \/ ~reached THEN w
  ELSE IF w.mcu.breakFlag THEN [w EXCEPT !.prt.overWay = TRUE]
  ELSE BlockStop(w)

(***************************************************************************)
(* ClbControl: the end positions, and the commands of the automatic        *)
(* calibration.                                                            *)
(***************************************************************************)
ClbControl(w, zone, autoCmd) ==
  [w EXCEPT !.st = [w.st EXCEPT !.closed = zone = "closed",
                                !.opened = zone = "opened"],
            !.mcu.cw = IF autoCmd # "None" THEN autoCmd ELSE @]

(* AlgControl with a request to reset the protections. *)
AlgControl(w) == IF IsStopped(w) THEN ProtectionsClear(w) ELSE w

(* GetCurrentCmd forgets the source of a command once it is journalled. *)
GetCurrentCmd(w) == [w EXCEPT !.mcu.digital = FALSE]

(***************************************************************************)
(* A command written by Modbus, by the menu or by the cycle mode: none of  *)
(* them touches EvLog.Source, which may still name the tele-inputs.        *)
(***************************************************************************)
WriteControlWord(w, word) == [w EXCEPT !.mcu.cw = word]

(* The library that watches the shaft trips the clutch when it is enabled. *)
DiffInputCalc(w) == [w EXCEPT !.prt.muff = @ \/ w.prt.mufEnable]

-----------------------------------------------------------------------------
Init ==
  /\ st = [stop |-> TRUE, closing |-> FALSE, opening |-> FALSE,
           test |-> FALSE, fault |-> FALSE, defect |-> FALSE,
           mufta |-> FALSE, closed |-> FALSE, opened |-> FALSE]
  /\ mcu = [cw |-> "None", command |-> "None", startDelay |-> 0,
            tuReady |-> TRUE, releStop |-> FALSE, releStopEnable |-> TRUE,
            digital |-> FALSE, target |-> FALSE, breakFlag |-> FALSE]
  /\ dmc = [mode |-> "wmStop", dir |-> 0, reqDir |-> "none", sifu |-> "none",
            drvOn |-> FALSE, clk |-> FALSE, dynEnable |-> FALSE,
            kickEnable |-> FALSE, runStatus |-> "none", testTimer |-> 0,
            preStart |-> 0, upor |-> 0, accel |-> 0, maxTorque |-> 0,
            pause |-> 0, kick |-> 0, kickCounter |-> 0, dyn |-> 0,
            zazor |-> 0]
  /\ prt = [faults |-> {}, defects |-> {}, muff |-> FALSE,
            mufEnable |-> FALSE, overWay |-> FALSE, onlyPosSens |-> FALSE,
            delay |-> FaultDelayTime, isShcReset |-> FALSE]
  /\ pwr = [testMode |-> FALSE, supply |-> FALSE, cnt |-> 0, timer |-> 0,
            reset |-> {}, saveDir |-> "none", shcFlag |-> FALSE,
            scFaults |-> FALSE, eeSc |-> FALSE, eeReq |-> FALSE]
  /\ ran = FALSE /\ rest = StartDelayTime

(***************************************************************************)
(* What a call of the interrupt reads before it runs its task.             *)
(***************************************************************************)
Samples ==
  [shc : IF "ShC" \in Faulty THEN BOOLEAN ELSE {FALSE},
   inSeal : IF BreakMode = "vtNone" THEN {FALSE} ELSE BOOLEAN,
   autoStep : IF Calibrated THEN {FALSE} ELSE BOOLEAN]

(* What IsMemParReady may answer: others use the memory too. *)
MemReady == IF pwr.eeReq THEN {FALSE} ELSE BOOLEAN

(* Every task but the two below leaves ran and rest alone. *)
Run(w) == Become(w) /\ UNCHANGED << ran, rest >>

ControlModeWith(in) ==
  \E s \in Samples :
    /\ Become(ControlMode(ProtectionsUpdate(Now, s), in))
    /\ ran' = TRUE /\ UNCHANGED rest

ControlModeTick ==
  \E speed \in {"low", "min", "high"}, overload \in BOOLEAN :
    ControlModeWith([powered |-> TRUE, sifuEnable |-> FALSE, group |-> "up",
                     speed |-> speed, overload |-> overload])

ValveDriveUpdateTick ==
  /\ ran /\ ran' = FALSE
  /\ \E s \in Samples, btn \in BtnKeys, pdu \in PduKeys, tu \in TuStates,
        local \in IF MuDuSetup = "mdSelect" THEN BOOLEAN ELSE {TRUE},
        tuEnable \in BOOLEAN, phase \in PhaseOrders :
       Become(ValveDriveUpdate(ProtectionsUpdate(Now, s),
                [btn |-> btn, pdu |-> pdu, tu |-> tu, local |-> local,
                 tuEnable |-> tuEnable, phase |-> phase]))
  /\ rest' = IF ~st.stop \/ ~st'.stop THEN 0
             ELSE IF rest < StartDelayTime THEN rest + 1 ELSE rest

CalibStopTick ==
  \E s \in Samples, reached \in BOOLEAN :
    Run(CalibStop(ProtectionsUpdate(Now, s), reached))

ClbControlTick ==
  \E s \in Samples, zone \in Zones,
     autoCmd \in {"None"} \cup (Words \cap {"Close", "Open"}) :
    Run(ClbControl(ProtectionsUpdate(Now, s), zone, autoCmd))

FaultIndicationTick ==
  \E s \in Samples,
     posErr \in IF "PosSens" \in Faulty THEN BOOLEAN ELSE {FALSE} :
    Run(FaultIndication(ProtectionsUpdate(Now, s), posErr))

ProtectionsEnableTick ==
  \E s \in Samples, muffTurn \in BOOLEAN, memReady \in MemReady :
    Run(ProtectionsEnable(ProtectionsUpdate(Now, s), muffTurn, memReady))

DiffInputCalcTick ==
  /\ "NoMove" \in Faulty
  /\ \E s \in Samples : Run(DiffInputCalc(ProtectionsUpdate(Now, s)))

PrtCalcTick ==
  \E s \in Samples, f \in Faulty \cap LibraryKinds :
    \/ Run(RaiseFault(ProtectionsUpdate(Now, s), f))
    \/ f \in SelfClearing /\ Run(DropFault(ProtectionsUpdate(Now, s), f))

DefectTick ==
  /\ Faulty \cap LibraryKinds # {}
  /\ \E s \in Samples, on \in BOOLEAN :
       Run(SetDefect(ProtectionsUpdate(Now, s), on))

EngPhOrdPrtTick ==
  /\ "PhOrd" \in Faulty
  /\ \E s \in Samples : Run(EngPhOrdPrt(ProtectionsUpdate(Now, s)))

AlgControlTick ==
  /\ Faulty # {}
  /\ \E s \in Samples : Run(AlgControl(ProtectionsUpdate(Now, s)))

GetCurrentCmdTick ==
  \E s \in Samples : Run(GetCurrentCmd(ProtectionsUpdate(Now, s)))

WriteControlWordTick ==
  \E s \in Samples, word \in Words :
    Run(WriteControlWord(ProtectionsUpdate(Now, s), word))

EepromTick ==
  /\ pwr.eeReq
  /\ \E s \in Samples, last \in BOOLEAN :
       Run(EepromUpdate(ProtectionsUpdate(Now, s), last))

OtherTick ==
  \/ CalibStopTick \/ ClbControlTick \/ FaultIndicationTick
  \/ ProtectionsEnableTick \/ DiffInputCalcTick \/ PrtCalcTick
  \/ DefectTick \/ EngPhOrdPrtTick \/ AlgControlTick
  \/ GetCurrentCmdTick \/ WriteControlWordTick \/ EepromTick

Next == ControlModeTick \/ ValveDriveUpdateTick \/ OtherTick

Spec == Init /\ [][Next]_vars

(***************************************************************************)
(* The scheduler calls every task periodically, whatever the others do:    *)
(* the motor task and the command task run again and again.                *)
(***************************************************************************)
Fairness == []<>ran /\ []<>~ran

FairSpec == Spec /\ Fairness

-----------------------------------------------------------------------------
(* Every field keeps its type; the start delay stays within 16 bits' lock. *)
TypeOK == /\ Now \in World
          /\ ran \in BOOLEAN
          /\ rest \in 0 .. StartDelayTime

Moving == ~st.stop

(***************************************************************************)
(* The status word shown to the operator and to Modbus agrees with the     *)
(* state machine of motor_control.c, although one is set by the starts and *)
(* stops of several tasks and the other also moves on by itself.           *)
(***************************************************************************)
StatusAgrees ==
  /\ st.stop = ~(st.closing \/ st.opening)
  /\ ~(st.closing /\ st.opening)
  /\ st.stop = (dmc.mode \notin MovingModes)
  /\ st.closing => dmc.dir = -1
  /\ st.opening => dmc.dir = 1

(***************************************************************************)
(* UnitControl throws commands away while StartDelay runs: a stop would be *)
(* lost too, so no movement may ever coexist with a running delay.         *)
(***************************************************************************)
NoLockoutWhileMoving == Moving => mcu.startDelay = 0

(***************************************************************************)
(* START_DELAY_TIME (timings.h): between a stop and the next start the     *)
(* drive rests, whatever caused the stop and whoever asks for the start.   *)
(* The call that stops may already count the first period.                 *)
(***************************************************************************)
RestBeforeStart == [][st.stop /\ ~st'.stop => rest >= StartDelayTime - 1]_vars

(***************************************************************************)
(* A reversal in the mode rvtStop stops the drive at the next call, even   *)
(* if a key or a tele-input asks for a movement in that very call.         *)
(***************************************************************************)
ReversalStops ==
  [][mcu.command = "Stop" /\ mcu'.command = "None" => st'.stop]_vars

(***************************************************************************)
(* A drive that moves with an active fault or a tripped clutch stands at   *)
(* the end of the next call of the interrupt, and it coasts: a faulty      *)
(* drive is not braked.                                                    *)
(***************************************************************************)
FaultCoasts ==
  [][Moving /\ (prt.muff \/ ActiveFaults(Now) # {})
       => st'.stop /\ dmc'.mode = "wmStop"]_vars

(***************************************************************************)
(* No thyristor group starts to fire for a movement while a fault is       *)
(* active; the thyristor test, which moves nothing, may.                   *)
(***************************************************************************)
HealthyWhenFiring ==
  [][dmc.sifu = "none" /\ dmc'.sifu \in {"up", "down"} /\ ~st'.stop
       => ActiveFaults(Now) = {} /\ ~prt.muff]_vars

(***************************************************************************)
(* The clutch is shown tripped exactly while the "no movement" fault is    *)
(* latched, and never without the flag that stopped the drive.             *)
(***************************************************************************)
MuftaAgrees ==
  /\ st.mufta <=> "NoMove" \in prt.faults
  /\ st.mufta => prt.muff

(***************************************************************************)
(* A moving drive that has passed its target presses into a seal: the flag *)
(* of one movement never survives into another that must stop at its       *)
(* target, and the clutch is allowed to trip while it is up.               *)
(***************************************************************************)
OverWayInSeal ==
  Moving /\ prt.overWay => mcu.breakFlag /\ mcu.target

(***************************************************************************)
(* The drive as its surroundings see it.                                   *)
(***************************************************************************)
motion == IF st.opening THEN "opening"
          ELSE IF st.closing THEN "closing" ELSE "idle"

Motion == INSTANCE DriveMotion WITH motion <- motion, gates <- dmc.sifu

(***************************************************************************)
(* Every behaviour of the tasks is one the abstract drive allows.          *)
(***************************************************************************)
MotionSpec == Motion!Spec

(* Braking ends, and so does the lock on commands it sets. *)
LockoutEnds == mcu.startDelay > 0 ~> mcu.startDelay = 0

(* The phase test at the start of a movement ends. *)
TestPhaseEnds == dmc.mode = "wmTestPh" ~> dmc.mode # "wmTestPh"
=============================================================================
