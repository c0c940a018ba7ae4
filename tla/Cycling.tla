------------------------------- MODULE Cycling -------------------------------
(***************************************************************************)
(* Work in cycles: the cycle counter (CalcClbCycle,                        *)
(* src/src/peref/calibs.c, and its reset in ClbControl), and the cycle     *)
(* mode (ProgonModeUpdate, src/src/core/motor_control.c), which drives the *)
(* valve from end to end for a number of cycles.  Both look at the status  *)
(* of the drive ten times a second and keep their own memory of what they  *)
(* saw; nothing tells them when an end is left.                            *)
(*                                                                         *)
(* The drive itself is BurDrive's: here it is started and stopped by       *)
(* anyone, obeys or loses a command, and passes at most one border of an   *)
(* end between two looks (100 ms).  Both ends at once (a stroke of zero)   *)
(* are left out.                                                           *)
(***************************************************************************)
EXTENDS Integers

CONSTANTS
  PROGON_DELAY,      \* 50: rest at an end before the command
  STOP_DELAY,        \* 20: rest between the ends that ends the mode
  ORDERED            \* cycles ordered at once (GrC->progonCycles)

ASSUME CyclingAssumption ==
  {PROGON_DELAY, STOP_DELAY, ORDERED} \subseteq Nat

VARIABLES
  Zone,              \* Calib.Zone, in Status.Closed and Status.Opened
  motion,            \* Status.Stop, Opening, Closing
  calibrated, faulted,
  ControlWord,       \* GrD->ControlWord
  CycleData, CycleCnt,
  progonCycles, CycleMode, progonDelay, halfCycle, stopTimer, isComandDone,
  \* observers
  trip,              \* the cycles the valve has really made
  changed,           \* an end was left or reached, or the counter reset,
                     \* since CalcClbCycle last looked
  owed               \* commands the cycle mode may still give

place    == <<Zone, calibrated>>
counter  == <<CycleData, CycleCnt, trip, changed>>
progon   == <<progonCycles, CycleMode, progonDelay, halfCycle, stopTimer,
              isComandDone, owed>>
cycling  == <<place, motion, faulted, ControlWord, counter, progon>>

Ends      == {"closed", "opened"}
NoCycle   == [home |-> {}, here |-> FALSE, away |-> FALSE]

CyclingInit ==
  /\ Zone \in {{}, {"closed"}, {"opened"}} /\ motion = "stop"
  /\ calibrated = TRUE /\ faulted = FALSE /\ ControlWord = "none"
  /\ CycleData = NoCycle /\ CycleCnt = 0
  /\ progonCycles = 0 /\ CycleMode = FALSE /\ progonDelay = 0
  /\ halfCycle = 0 /\ stopTimer = 0 /\ isComandDone = FALSE
  /\ trip = [home |-> Zone, away |-> FALSE, made |-> 0]
  /\ changed = TRUE /\ owed = 0

-----------------------------------------------------------------------------
MutBetweenEndsCounts == TRUE
AtAnEnd == Zone # {}

(* CalcClbCycle: the first end seen is the home; the bits 0x40 and 0x80 of *)
(* CycleData say that the valve is at home, or has been away since.        *)
CalcClbCycle ==
  /\ LET data == IF CycleData = NoCycle THEN [NoCycle EXCEPT !.home = Zone]
                 ELSE CycleData
         back == Zone = data.home /\ ~data.here
         gone == Zone # data.home /\ data.here
     IN CASE ~calibrated ->
               CycleData' = NoCycle /\ UNCHANGED CycleCnt
          [] calibrated /\ AtAnEnd ->
               /\ CycleData' = CASE back -> [data EXCEPT !.here = TRUE, !.away = FALSE]
                                 [] gone -> [data EXCEPT !.here = FALSE, !.away = TRUE]
                                 [] OTHER -> data
               /\ CycleCnt' = IF back /\ data.away THEN CycleCnt + 1 ELSE CycleCnt
          [] OTHER -> UNCHANGED <<CycleData, CycleCnt>>
  /\ changed' = FALSE
  /\ UNCHANGED <<place, motion, faulted, ControlWord, trip, progon>>

(* ClbControl, the order to reset the counter: refused unless at rest.     *)
CycleReset ==
  /\ motion = "stop" /\ ~changed
  /\ CycleCnt' = 0 /\ CycleData' = NoCycle
  /\ trip' = [home |-> Zone, away |-> FALSE, made |-> 0] /\ changed' = TRUE
  /\ UNCHANGED <<place, motion, faulted, ControlWord, progon>>

MutModeWithoutOrder == TRUE
Ordered == progonCycles # 0

(* ProgonModeUpdate.  owed watches how many commands the order allows: two *)
(* for a cycle, as far as they were not given.                             *)
ProgonModeUpdate ==
  LET atEnd   == AtAnEnd
      aborted == faulted \/ ~calibrated
      mode    == CycleMode /\ ~aborted
      cycles  == IF aborted THEN 0 ELSE progonCycles
      command == mode /\ atEnd /\ ~isComandDone /\ progonDelay > PROGON_DELAY
      last    == command /\ halfCycle = 1
      given   == mode /\ ~atEnd /\ motion = "stop" /\ stopTimer > STOP_DELAY
      left    == IF given THEN 0 ELSE IF last THEN cycles - 1 ELSE cycles
  IN IF ~Ordered THEN UNCHANGED cycling
     ELSE /\ progonCycles' = left
          /\ CycleMode' = IF mode THEN ~given /\ ~(last /\ left = 0)
                          ELSE motion # "stop"
          /\ progonDelay' = IF mode /\ atEnd /\ ~isComandDone
                            THEN IF command THEN 0 ELSE progonDelay + 1
                            ELSE progonDelay
          /\ halfCycle' = IF command THEN 1 - halfCycle ELSE halfCycle
          /\ isComandDone' = IF mode THEN atEnd /\ (isComandDone \/ command)
                             ELSE isComandDone
          /\ stopTimer' = IF ~mode \/ (~atEnd /\ motion # "stop") THEN stopTimer
                          ELSE IF atEnd \/ given THEN 0 ELSE stopTimer + 1
          /\ ControlWord' = IF command THEN IF Zone = {"closed"} THEN "open" ELSE "close"
                            ELSE ControlWord
          /\ owed' = IF command THEN owed - 1 ELSE owed
          /\ UNCHANGED <<place, motion, faulted, counter>>

-----------------------------------------------------------------------------
(* The drive and the operator.                                             *)

OrderCycles ==
  /\ progonCycles' = ORDERED /\ owed' = 2 * ORDERED
  /\ UNCHANGED <<place, motion, faulted, ControlWord, counter, CycleMode,
                 progonDelay, halfCycle, stopTimer, isComandDone>>

Moving(word) == CASE word = "open" -> "opening" [] word = "close" -> "closing"
                  [] OTHER -> "stop"

(* A start by anyone; the word of the cycle mode is obeyed or refused.     *)
Obey ==
  /\ ControlWord # "none"
  /\ ControlWord' = "none"
  /\ motion' \in {motion, Moving(ControlWord)}
  /\ UNCHANGED <<place, faulted, counter, progon>>

StartOrStop ==
  /\ motion' \in IF motion = "stop" THEN {"opening", "closing"} ELSE {"stop"}
  /\ UNCHANGED <<place, faulted, ControlWord, counter, progon>>

Fault ==
  /\ faulted' = ~faulted
  /\ motion' = IF faulted' THEN "stop" ELSE motion
  /\ UNCHANGED <<place, ControlWord, counter, progon>>

Target == IF motion = "opening" THEN "opened" ELSE "closed"

(* The valve leaves an end, or reaches one.                                *)
Pass ==
  /\ calibrated /\ motion # "stop" /\ ~changed /\ Target \notin Zone
  /\ Zone' = IF Zone = {} THEN {Target} ELSE {}
  /\ LET home == IF trip.home = {} THEN Zone' ELSE trip.home
         back == Zone' = home
     IN trip' = [home |-> home,
                 away |-> IF Zone' = {} THEN trip.away ELSE ~back,
                 made |-> IF back /\ trip.away THEN trip.made + 1 ELSE trip.made]
  /\ changed' = TRUE
  /\ UNCHANGED <<calibrated, motion, faulted, ControlWord, CycleData, CycleCnt, progon>>

(* The ends are reset, and set again with the valve at some place.         *)
Calibrate ==
  /\ motion = "stop" /\ ~changed
  /\ calibrated' = ~calibrated
  /\ Zone' \in IF calibrated THEN {{}} ELSE {{}, {"closed"}, {"opened"}}
  /\ trip' = [trip EXCEPT !.home = Zone', !.away = FALSE]
  /\ changed' = TRUE
  /\ UNCHANGED <<motion, faulted, ControlWord, CycleData, CycleCnt, progon>>

-----------------------------------------------------------------------------
(* However the valve is driven back and forth, turned back half way, the   *)
(* counter reset and the ends set anew: whenever CalcClbCycle has looked,  *)
(* the count is the number of times the valve has been to the other end    *)
(* and back.                                                               *)
CycleCounted == ~changed => CycleCnt = trip.made

(* The cycle mode never gives more than the two commands of each cycle     *)
(* that was ordered, through faults, stops, lost commands and orders in    *)
(* the middle of a cycle, although it counts the halves in variables that  *)
(* an abandoned run leaves as they are.                                    *)
CyclesBounded == owed >= 0 /\ owed >= 2 * progonCycles - halfCycle
=============================================================================
