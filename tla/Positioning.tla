----------------------------- MODULE Positioning -----------------------------
(***************************************************************************)
(* The position of the drive, from the sensor to the stop at the end of    *)
(* the stroke: encoder_DPMA15_GetData and EncoderUpdate take a reading     *)
(* (src/src/peref/peref_drv_DPMA15.c, encoder.c), Calibration sets the     *)
(* ends and DefineCalibParams turns a reading into a place on the stroke   *)
(* (src/src/peref/calibs.c), and CalibStop stops the drive at its target   *)
(* (src/src/core/motor_control.c), but not in the camera test.  How near   *)
(* an end counts as reached is PositionAccTmp, which TsSignalization       *)
(* (src/src/core/interface.c) sets after the drive has started or stopped. *)
(*                                                                         *)
(* The sensor counts round a circle of RevMax + 1 marks; the stroke may    *)
(* lie across its zero.  Four of the tasks run one after the other in      *)
(* every round of the 200 Hz list, Calibration once in many rounds; a      *)
(* start comes between any two of them.                                    *)
(*                                                                         *)
(* Left out: movements into a seal and to a set percentage, the saving of  *)
(* calibration and count, the flags that only show a refusal on the panel, *)
(* the sensor's error flag (a fault of BurDrive), and the sensor of type   *)
(* 0, whose code is empty on a BUR-90.                                     *)
(***************************************************************************)
EXTENDS Integers

CONSTANTS
  RevMax,          \* marks of the sensor - 1: 0x7FFF
  RevMisc,         \* a step of this size or more is a jump: 5
  GearRatio, PosSensPow, PositionAcc, BrakeZone, MuffTime,  \* parameters
  RodType,         \* TRUE: the valve opens as the count goes down
  Turns,           \* turns a calibration command may name
  Orders,          \* the calibration commands the operator gives
  Marks,           \* positions at which the operator gives them
  ROUNDS,          \* 200 Hz rounds between two calls of Calibration, at least
  REST,            \* rounds between a stop and the next start, at least
  GoodRun,         \* sound readings between two bad ones, at least
  BadBy,           \* how far a bad reading may be off
  OVERRUN,         \* marks the shaft may run past an end
  Starts           \* shaft positions at power on

Ends == {"close", "open"}                 \* CLB_CLOSE, CLB_OPEN
CLB_FLAG == Ends
Tasks == {"closeSet", "closeReset", "openSet", "openReset",
          "revOpen", "revClose", "revAuto", "calibReset"}
POS_UNDEF == 2147483647               \* 0x7FFFFFFF

ASSUME PositionAssumption ==
  /\ {RevMisc, GearRatio, ROUNDS} \subseteq Nat \ {0}
  /\ {RevMax, PosSensPow, PositionAcc, BrakeZone, MuffTime, REST, GoodRun} \subseteq Nat
  /\ {2 ^ PosSensPow, 2 ^ (PosSensPow + 1)} \subseteq Nat \ {0}
  /\ 2 * RevMisc <= RevMax /\ RevMax % 2 = 1 /\ RodType \in BOOLEAN
  /\ Turns \subseteq Nat \ {0} /\ Orders \subseteq Tasks
  /\ Starts \subseteq 0..RevMax /\ BadBy \subseteq Nat /\ OVERRUN \in Nat

(***************************************************************************)
(* What EndsRespected takes for granted.  A turn of a mark in a round is   *)
(* no jump; a bad reading comes alone; Calibration runs seldom and a start *)
(* comes late enough for the readings to have settled.  OVERRUN is no      *)
(* parameter of the code but the least that can be promised: a bad reading *)
(* may lie RevMisc off, and two more marks pass before it is corrected.    *)
(***************************************************************************)
ASSUME EndsAssumption ==
  RevMisc >= 2 /\ GoodRun >= 3 /\ ROUNDS >= 2 /\ REST >= 4 /\ OVERRUN >= RevMisc + 2

VARIABLES
  shaft,           \* the count a sound sensor would show
  EncoderData,     \* the last reading
  revolution,      \* the last reading taken for a position
  clb,             \* Calib, its Indication and the counter of cycles
  tasks,           \* the commands written and not yet handled
  turns,           \* the number of turns written with them
  TestCamera,      \* the parameter of the camera test
  PositionAccTmp,  \* PositionAcc at rest, 0 in a movement
  drive,           \* direction, Valve.Position, ControlWord, the bits Closed
                   \* and Opened of the status, the rounds at rest, and
                   \* whether the movement began on the stroke, with no
                   \* camera test since (an observer)
  slot,            \* the next task of the 200 Hz list
  rounds,          \* rounds since Calibration ran, up to ROUNDS
  \* observers
  good             \* sound readings since a bad one, up to GoodRun

sensorVars == <<shaft, EncoderData, revolution, good>>
listVars   == <<slot, rounds>>
settings   == <<TestCamera, PositionAccTmp>>
vars == <<sensorVars, clb, tasks, turns, drive, settings, listVars>>

N == RevMax + 1
Stopped == drive.dir = "stop"

\* EncoderUpdate, for the sensor of type 1
Revolution == RevMax - revolution

Init ==
  /\ shaft \in Starts /\ EncoderData = shaft /\ revolution = shaft
  /\ clb = [Status |-> {}, ClosePos |-> 0, OpenPos |-> 0, FullStep |-> 0,
            FullWay |-> 0, BasePos |-> 0, LinePos |-> 0, Zone |-> {},
            ResetFlag |-> FALSE, AutoStep |-> 0, AutoCmd |-> "none",
            RevAuto |-> 0, MuffTimer |-> 0]
  /\ tasks = {} /\ turns \in Turns
  /\ drive = [dir |-> "stop", target |-> POS_UNDEF, word |-> "none",
              ends |-> {}, rest |-> REST,
              inside |-> FALSE]
  /\ TestCamera = FALSE /\ PositionAccTmp = 0
  /\ slot = "DefineCalibParams" /\ rounds = 0
  /\ good = GoodRun

-----------------------------------------------------------------------------
(***************************************************************************)
(* Marks and turns of the output shaft                                     *)
(***************************************************************************)
Quotient(a, b) == IF a < 0 THEN -((-a) \div b) ELSE a \div b
CalcClbGearRev(marks) == Quotient(2000 * marks, GearRatio) \div 2 ^ (PosSensPow + 1)
CalcClbAbsRev(gear)   == (gear * GearRatio * 2 ^ PosSensPow) \div 1000

(***************************************************************************)
(* The sensor: a reading far from the one before is remembered but not     *)
(* taken.                                                                  *)
(***************************************************************************)
Abs(n) == IF n < 0 THEN -n ELSE n

\* The stroke, as the ends give it, and where a count lies, seen from the
\* closed end: the one of its distances round the circle that is nearest to the
\* middle of the stroke, and a second one near the point opposite to it.
Sign == IF RodType THEN -1 ELSE 1
Stroke == (Sign * (clb.OpenPos - clb.ClosePos)) % N
Ways(mark) == LET line == Sign * (mark - clb.ClosePos) IN {line - N, line, line + N}
Far(d) == Abs(2 * d - Stroke)
Places(mark, slack) ==
  {d \in Ways(mark) : \A e \in Ways(mark) : Far(d) <= Far(e) + slack}

OnTheStroke ==
  \A d \in Places(RevMax - shaft, 0) : d \in -OVERRUN..(clb.FullStep + OVERRUN)

Jump(delta) == RevMisc <= delta /\ delta <= RevMax - RevMisc

GetData(data) ==
  /\ EncoderData' = data
  /\ revolution' = IF Jump(Abs(data - EncoderData)) THEN revolution ELSE data

\* One mark in a round at most, in the direction of the movement.  The count
\* of the position runs against the count of the sensor.
Turned(to) ==
  CASE Stopped -> {shaft}
    [] drive.dir = to -> {shaft, (shaft + 1) % N}
    [] OTHER -> {shaft, (shaft - 1) % N}

EncoderUpdate ==
  /\ slot = "EncoderUpdate"
  /\ shaft' \in Turned(IF RodType THEN "open" ELSE "close")
  /\ \/ GetData(shaft') /\ good' = IF good < GoodRun THEN good + 1 ELSE good
     \/ good = GoodRun /\ good' = 0 /\ \E off \in BadBy : GetData((shaft' + off) % N)
  /\ slot' = "DefineCalibParams"
  /\ rounds' = IF rounds < ROUNDS THEN rounds + 1 ELSE rounds
  /\ drive' = [drive EXCEPT !.rest = IF Stopped /\ @ < REST THEN @ + 1 ELSE @]
  /\ UNCHANGED <<clb, tasks, turns, settings>>

-----------------------------------------------------------------------------
(***************************************************************************)
(* DefineCalibParams                                                       *)
(***************************************************************************)
\* With the other rod the circle is turned over: N - 0 is N here, not 0.
Along(mark) == IF RodType THEN N - mark ELSE mark

Zones(c, way) ==
  {z \in Ends : IF z = "close" THEN way <= PositionAccTmp
                ELSE way >= c.FullWay - PositionAccTmp}

\* The stroke is found in one call and used from the next one on.  BasePos
\* is only read while there is a stroke: without one it is 0 here.
FindStroke(c) ==
  LET open == Along(c.OpenPos)  close == Along(c.ClosePos)
      step == (open - close) % N
      way  == CalcClbGearRev(step)
      opposite == (open + close) \div 2 + (IF open >= close THEN RevMax \div 2 ELSE 0)
  IN IF way \div 2 <= PositionAccTmp
     THEN [c EXCEPT !.FullStep = 0, !.FullWay = way, !.BasePos = 0,
                    !.Zone = CLB_FLAG]
     ELSE [c EXCEPT !.FullStep = step, !.FullWay = way, !.Zone = {},
                    !.BasePos = opposite % N]

MutNoTurnBack(c, position, close) ==
  position - close + IF close > c.BasePos /\ position < c.BasePos THEN N ELSE 0
\* The side of the closed end on which the position lies: the circle is cut
\* opposite to the middle of the stroke.
LinePosition(c, position, close) ==
  position - close + CASE close > c.BasePos /\ position < c.BasePos -> N
                       [] close <= c.BasePos /\ position > c.BasePos -> -N
                       [] OTHER -> 0

OnStroke(c) ==
  LET line == LinePosition(c, Along(Revolution), Along(c.ClosePos))
  IN [c EXCEPT !.LinePos = line, !.Zone = Zones(c, CalcClbGearRev(line))]

\* With one end set, the distance from it.
FromOneEnd(c) ==
  LET line == IF "close" \in c.Status
              THEN (Along(Revolution) - Along(c.ClosePos)) % N
              ELSE (Along(c.OpenPos) - Along(Revolution)) % N
  IN [c EXCEPT !.FullStep = 0, !.FullWay = 9999, !.BasePos = 0, !.LinePos = line,
               !.Zone = IF CalcClbGearRev(line) <= PositionAccTmp THEN c.Status
                        ELSE {}]

Located(c) ==
  CASE c.Status = CLB_FLAG -> IF c.FullStep = 0 THEN FindStroke(c) ELSE OnStroke(c)
    [] c.Status = {} -> [c EXCEPT !.FullStep = 0, !.FullWay = 9999, !.BasePos = 0,
                                   !.Zone = {}]
    [] OTHER -> FromOneEnd(c)

DefineCalibParams ==
  /\ slot = "DefineCalibParams" /\ slot' = "ClbControl"
  /\ clb' = Located(clb)
  /\ UNCHANGED <<sensorVars, tasks, turns, drive, settings, rounds>>

(***************************************************************************)
(* ClbControl: what Calibration may do, what it asks for, and the reset of *)
(* the calibration, which waits for Calibration in its turn.               *)
(***************************************************************************)
ClbControl ==
  /\ slot = "ClbControl" /\ slot' = "CalibStop"
  /\ clb' = [clb EXCEPT !.ResetFlag = ~Stopped, !.AutoCmd = "none"]
  /\ drive' = [drive EXCEPT !.ends = clb.Zone,
                           !.word = IF clb.AutoCmd \in Ends THEN clb.AutoCmd ELSE @]
  /\ tasks' = IF "calibReset" \notin tasks THEN tasks
              ELSE IF Stopped THEN {"closeReset", "openReset"} ELSE {}
  /\ UNCHANGED <<sensorVars, turns, settings, rounds>>

(***************************************************************************)
(* CalibStop                                                               *)
(***************************************************************************)
MutTargetHitExactly ==
  /\ ~Stopped /\ ~TestCamera /\ drive.target # POS_UNDEF
  /\ clb.LinePos = drive.target
AtTarget ==
  /\ ~Stopped /\ ~TestCamera /\ drive.target # POS_UNDEF
  /\ IF drive.dir = "close" THEN clb.LinePos - drive.target <= BrakeZone
     ELSE clb.LinePos - drive.target >= -BrakeZone

Halted == [drive EXCEPT !.dir = "stop", !.target = POS_UNDEF, !.rest = 0,
                            !.inside = FALSE]

CalibStop ==
  /\ slot = "CalibStop" /\ slot' = "EncoderUpdate"
  /\ drive' = IF AtTarget THEN Halted ELSE drive
  /\ UNCHANGED <<sensorVars, clb, tasks, turns, settings, rounds>>

(***************************************************************************)
(* ValveDriveUpdate, with the commands of buttons and tele-control: a      *)
(* start, after the pause of StartDelay, is given the target that the      *)
(* calibration has now.                                                    *)
(***************************************************************************)
Target(end) == IF clb.Status # CLB_FLAG THEN POS_UNDEF
               ELSE IF end = "open" THEN clb.FullStep ELSE 0

ValveDriveUpdate ==
  \/ \E end \in Ends :
       /\ Stopped /\ drive.rest = REST /\ end \notin drive.ends
       /\ drive' = [drive EXCEPT !.dir = end, !.target = Target(end),
                                !.word = "none", !.inside = OnTheStroke /\ ~TestCamera]
  \/ ~Stopped /\ drive' = [Halted EXCEPT !.word = "none"]
  \/ drive.word # "none" /\ drive' = [drive EXCEPT !.word = "none"]

ValveDrive ==
  /\ ValveDriveUpdate
  /\ UNCHANGED <<sensorVars, clb, tasks, turns, settings, listVars>>

-----------------------------------------------------------------------------
(***************************************************************************)
(* Calibration, in its order, with at most one command of the operator's   *)
(* pending (a reset of both ends is one).                                  *)
(***************************************************************************)
Accepts(c, condition) == /\ c.Status \cap condition = {}
                         /\ ~c.ResetFlag /\ c.AutoStep = 0

SetClose(c, pos) == [c EXCEPT !.ClosePos = pos, !.Status = @ \cup {"close"}]
SetOpen(c, pos)  == [c EXCEPT !.OpenPos = pos, !.Status = @ \cup {"open"}]
ResetClose(c) == [c EXCEPT !.ClosePos = 0, !.Status = @ \cap {"open"}]
ResetOpen(c)  == [c EXCEPT !.OpenPos = 0, !.Status = @ \cap {"close"}]

TaskClose(c) ==
  CASE "closeSet" \in tasks /\ Accepts(c, {"close"}) -> SetClose(c, Revolution)
    [] "closeReset" \in tasks /\ Accepts(c, {}) -> ResetClose(c)
    [] OTHER -> c

TaskOpen(c) ==
  CASE "openSet" \in tasks /\ Accepts(c, {"open"}) -> SetOpen(c, Revolution)
    [] "openReset" \in tasks /\ Accepts(c, {}) -> ResetOpen(c)
    [] OTHER -> c

TaskRev(c) ==
  LET marks == CalcClbAbsRev(turns)
      up    == (Revolution + marks) % N
      down  == (Revolution - marks) % N
  IN CASE "revOpen" \in tasks /\ Accepts(c, CLB_FLAG) ->
            SetOpen(SetClose(c, Revolution), IF RodType THEN down ELSE up)
       [] "revClose" \in tasks /\ Accepts(c, CLB_FLAG) ->
            SetClose(SetOpen(c, Revolution), IF RodType THEN up ELSE down)
       [] OTHER -> c

\* The automatic calibration takes one step for each command: the steps are
\* inside the handling of the command.
CurWay(c) == IF c.Status = {} THEN 9999 ELSE CalcClbGearRev(c.LinePos)

AutoNext(c, muffFlag) ==
  CASE c.AutoStep = 1 -> [c EXCEPT !.AutoCmd = "close", !.AutoStep = 2]
    [] c.AutoStep \in {2, 5} /\ muffFlag ->
         [c EXCEPT !.MuffTimer = MuffTime, !.AutoStep = @ + 1]
    [] c.AutoStep \in {3, 6} /\ c.MuffTimer > 0 -> [c EXCEPT !.MuffTimer = @ - 1]
    [] c.AutoStep = 3 /\ c.MuffTimer = 0 ->
         [c EXCEPT !.ClosePos = Revolution, !.Status = {"close"},
                   !.AutoCmd = "open", !.AutoStep = 4]
    [] c.AutoStep = 4 /\ ~muffFlag -> [c EXCEPT !.AutoStep = 5]
    [] c.AutoStep = 6 /\ c.MuffTimer = 0 ->
         IF CurWay(c) < c.RevAuto THEN [c EXCEPT !.Status = {}, !.AutoStep = 0]
         ELSE [c EXCEPT !.OpenPos = Revolution, !.Status = CLB_FLAG, !.AutoStep = 0]
    [] OTHER -> c

TaskAuto(c, muffFlag) ==
  IF "revAuto" \notin tasks THEN c
  ELSE AutoNext(IF Accepts(c, CLB_FLAG)
                THEN [c EXCEPT !.AutoStep = 1, !.RevAuto = turns] ELSE c, muffFlag)

Calibration ==
  /\ rounds = ROUNDS /\ rounds' = 0
  /\ \E muffFlag \in BOOLEAN :
       clb' = TaskAuto(TaskRev(TaskOpen(TaskClose(clb))), muffFlag)
  /\ tasks' = tasks \cap {"calibReset"}
  /\ UNCHANGED <<sensorVars, turns, drive, settings, slot>>

\* Nothing looks at an order before the 10 Hz list is due again, so when in
\* the pause it is given makes no difference.
Operator ==
  /\ tasks = {} /\ rounds = ROUNDS /\ Revolution \in Marks
  /\ \E t \in Orders : tasks' = {t} /\ turns' \in Turns
  /\ UNCHANGED <<sensorVars, clb, drive, settings, listVars>>

(***************************************************************************)
(* TsSignalization, once in 100 ms, and the parameter of the camera test.  *)
(* Each comes before the task that looks at what it sets.                  *)
(***************************************************************************)
TsSignalization ==
  /\ slot = "DefineCalibParams"
  /\ PositionAccTmp' = IF Stopped THEN PositionAcc ELSE 0
  /\ UNCHANGED <<sensorVars, clb, tasks, turns, drive, TestCamera, listVars>>

CameraWritten ==
  /\ slot = "CalibStop"
  /\ TestCamera' = ~TestCamera /\ drive' = [drive EXCEPT !.inside = FALSE]
  /\ UNCHANGED <<sensorVars, clb, tasks, turns, PositionAccTmp, listVars>>

-----------------------------------------------------------------------------
Next ==
  \/ DefineCalibParams \/ ClbControl \/ CalibStop \/ EncoderUpdate
  \/ Calibration \/ ValveDrive \/ Operator \/ TsSignalization \/ CameraWritten

Spec == Init /\ [][Next]_vars

-----------------------------------------------------------------------------
(***************************************************************************)
(* Properties                                                              *)
(***************************************************************************)
TypeOK ==
  /\ {shaft, EncoderData, revolution} \subseteq 0..RevMax
  /\ clb.Status \subseteq Ends /\ clb.Zone \subseteq Ends
  /\ tasks \subseteq Tasks /\ turns \in Turns /\ good \in 0..GoodRun
  /\ TestCamera \in BOOLEAN /\ PositionAccTmp \in {0, PositionAcc}

(***************************************************************************)
(* With both ends set, DefineCalibParams finds the place on the stroke     *)
(* wherever the ends, the zero of the sensor and the position lie.  Within *)
(* two marks of the point opposite to the middle it may take either side.  *)
(***************************************************************************)
PlaceFound ==
  [][slot = "DefineCalibParams" /\ slot' # slot /\ clb.FullStep # 0
       /\ clb.Status = CLB_FLAG
       => clb'.LinePos \in Places(Revolution, 8)]_vars

ToItsEnd == /\ drive.inside /\ drive.target # POS_UNDEF
            /\ clb.Status = CLB_FLAG /\ clb.FullStep > 0
            /\ CalcClbGearRev(clb.FullStep) \div 2 > PositionAcc
            /\ 2 * (OVERRUN + RevMisc + 2) <= N - clb.FullStep

(***************************************************************************)
(* A drive on its stroke, given an end as its target, stops there: it runs *)
(* past it by OVERRUN marks at most, wherever the end lies on the circle   *)
(* and whatever a single bad reading shows.  The stroke must leave enough  *)
(* of the circle free, which Calibration does not check, and be longer     *)
(* than the accuracy at both ends: a shorter one is unknown at rest and    *)
(* comes into use in the middle of a movement.  In the camera test nothing *)
(* stops the drive at its end, so the movement must have none.             *)
(***************************************************************************)
EndsRespected ==
  ToItsEnd => \A d \in Places(RevMax - shaft, 0) :
    IF drive.dir = "close" THEN d >= -OVERRUN ELSE d <= clb.FullStep + OVERRUN
=============================================================================
