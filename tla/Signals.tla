------------------------------- MODULE Signals -------------------------------
(***************************************************************************)
(* What the control room and the block see of the drive: the lamps         *)
(* (BlkSignalization), the output contacts (TsSignalization,               *)
(* OffKVOKVZ_Control, src/src/core/interface.c), the technological         *)
(* register of the Modbus map and its commands (TekModbusParamsUpdate) and *)
(* the test of the contacts (DiscrInOutTestObserver,                       *)
(* src/src/peref/rim_devices.c), with the supply that puts them out        *)
(* (PowerOn, PowerOff).                                                    *)
(*                                                                         *)
(* The six tasks and the two of Cycling run one after the other in the     *)
(* 10 Hz list (src/include/global/system.h); everything else happens at    *)
(* the places of the list in the windows.  A set of lamps or contacts      *)
(* holds those that are lit or closed; B.36 opens both end contacts on a   *)
(* stop, which for outputs that are not inverted means that both are set.  *)
(*                                                                         *)
(* Left out: the camera test, the calibration of the board, the lamps at   *)
(* start-up and in sleep, the defects and measured values of the Modbus    *)
(* map.  Levels that decide whether a fault is signalled are Protections'. *)
(***************************************************************************)
EXTENDS Cycling, FiniteSets, FiniteSetsExt

CONSTANTS
  ON_TIMEOUT, DELAY_TIMEOUT,   \* 10: OffKVOKVZ_Control
  LED_TEST_TIMEOUT, LAMP,      \* the lamp test, the lamp of the remote control
  PAUSE,                       \* GrC->ModbusPauseStart
  OutputReg,                   \* GrG->OutputReg: contacts closed in the test mode
  Settings                     \* parameters of the block, what happens to it,
                               \* at which places of the list (windows) and for
                               \* how many trips (-1: none): bounds of the model

VARIABLES
  slot,              \* the next task of the 10 Hz list
  setting,
  supply, PowerEnable, PauseModbus,
  marks,             \* faults, defects, mufta, local control: GrA->Status
  pressed,           \* keys held, by source
  KvoKvzOff, BtnStopFlag,
  Outputs, DiscrOut, \* GrH->Outputs, and what goes to the board
  LedsReg, LedTestTimer, PultActiveTimer,
  ledTest,           \* GrC->LedTestMode
  Mode, tests,       \* GrG->Mode; DiscrInTest "in", DiscrOutTest "out"
  IsDiscrTestActive,
  TsTu, TechReg, ComReg        \* GrT

lamps    == <<LedsReg, LedTestTimer, PultActiveTimer, ledTest>>
contacts == <<KvoKvzOff, BtnStopFlag, Outputs, DiscrOut>>
testing  == <<Mode, tests, IsDiscrTestActive, TsTu>>
block    == <<supply, PowerEnable, PauseModbus, marks, pressed>>
modbus   == <<TechReg, ComReg>>
vars     == <<slot, setting, block, lamps, contacts, testing, modbus, cycling>>

-----------------------------------------------------------------------------
(* The tasks in their order: LocalControl, once for the five times it runs *)
(* in 100 ms, Cycle, BlkSignalization, TsSignalization,                    *)
(* DiscrInOutTestObserver, Progon, TekModbusParamsUpdate.                  *)
Turn(i) == slot = i /\ slot' = 1 + (i % 7)
Window == slot \in setting.windows

Contacts == {"fault", "closed", "opened", "muftaOpen", "closing", "opening",
             "remote", "defect", "muftaClose", "input"}
Tested   == {"fault", "closed", "opened", "muftaOpen", "closing", "opening",
             "remote", "defect"}
Lamps    == {"closed", "opened", "pdu", "defect", "mudu", "fault", "muff"}

(* Keys are codes, and codes are sets of bits: a stop is what opening and  *)
(* closing together look like.                                             *)
KEY_STOP == {0, 1}
NoInputs == [tu |-> {}, buttons |-> {}, pdu |-> {}]

(* The status of the drive as lamps and contacts show it.                  *)
Shown ==
  (marks \cap {"fault", "defect"}) \cup Zone \cup ({motion} \ {"stop"})
    \cup (IF {"muff", "lastOpen"} \subseteq marks THEN {"muftaOpen"} ELSE {})
    \cup (IF {"muff", "lastClose"} \subseteq marks THEN {"muftaClose"} ELSE {})

-----------------------------------------------------------------------------
(* OffKVOKVZ_Control: a stop opens both end contacts for a while, and for  *)
(* as long as it is held.                                                  *)
StopSeen(k) ==
  \/ k.buttons = KEY_STOP \/ k.pdu = KEY_STOP
  \/ "stop" \in k.tu /\ "remote" \in setting.has

KvoNext(k) ==
  CASE k.delay ->
         [k EXCEPT !.off = FALSE,
                   !.delay = k.timer < DELAY_TIMEOUT,
                   !.timer = IF k.timer < DELAY_TIMEOUT THEN @ + 1 ELSE 0]
    [] ~k.delay /\ ~k.off ->
         [k EXCEPT !.off = StopSeen(k) /\ motion = "stop"]
    [] ~k.delay /\ k.off /\ k.timer < ON_TIMEOUT ->
         [k EXCEPT !.timer = @ + 1]
    [] ~k.delay /\ k.off /\ k.timer >= ON_TIMEOUT ->
         IF StopSeen(k) THEN [k EXCEPT !.timer = ON_TIMEOUT]
         ELSE [k EXCEPT !.timer = DELAY_TIMEOUT, !.off = FALSE, !.delay = TRUE]

MutInputsKept(k) == k
ClearInputs(k) == [k EXCEPT !.tu = {}, !.buttons = {}, !.pdu = {}]

OffKVOKVZ_Control ==
  IF "kvoOff" \in setting.has /\ PowerEnable
  THEN KvoKvzOff' = ClearInputs(KvoNext(KvoKvzOff)) /\ BtnStopFlag' = KvoKvzOff'.off
  ELSE UNCHANGED KvoKvzOff /\ BtnStopFlag' = ("kvoOff" \in setting.has)

(* An inverted end contact is not opened by a stop.                        *)
Told(flag) ==
  SymDiff(Shown \cup (IF "local" \in marks THEN {} ELSE {"remote"}),
          setting.OutputMask)
    \cup (IF flag THEN Ends \ setting.OutputMask ELSE {})
    \cup (IF "inputType" \in setting.has THEN {} ELSE {"input"})

TsSignalization ==
  /\ Turn(4)
  /\ OffKVOKVZ_Control
  /\ IF PauseModbus > 0 THEN UNCHANGED <<Outputs, DiscrOut>>
     ELSE /\ Outputs' = CASE Mode /\ IsDiscrTestActive -> Outputs \cap Tested
                          [] Mode /\ ~IsDiscrTestActive -> OutputReg
                          [] ~Mode -> Told(BtnStopFlag')
          /\ DiscrOut' = IF PowerEnable THEN Outputs' ELSE DiscrOut
  /\ UNCHANGED <<setting, block, lamps, testing, modbus, cycling>>

-----------------------------------------------------------------------------
(* BlkSignalization: a lamp blinks while the valve goes to its end.        *)
EndLamp(end, towards) ==
  \/ end \in Zone
  \/ end \notin Zone /\ motion = towards /\ end \notin LedsReg

LampsNow ==
  {e \in Ends : EndLamp(e, IF e = "closed" THEN "closing" ELSE "opening")}
    \cup (marks \cap {"fault", "defect", "muff"})
    \cup (IF "local" \in marks THEN {"mudu"} ELSE {})
    \cup (IF PultActiveTimer > 0 THEN {"pdu"} ELSE {})

BlkSignalization ==
  /\ Turn(3)
  /\ IF ~PowerEnable THEN UNCHANGED lamps
     ELSE IF Mode THEN LedsReg' = Lamps /\ UNCHANGED <<LedTestTimer, PultActiveTimer, ledTest>>
     ELSE IF ledTest
     THEN /\ LedsReg' = Lamps
          /\ ledTest' = (LedTestTimer + 1 < LED_TEST_TIMEOUT)
          /\ LedTestTimer' = IF ledTest' THEN LedTestTimer + 1 ELSE 0
          /\ UNCHANGED PultActiveTimer
     ELSE /\ LedsReg' = LampsNow
          /\ PultActiveTimer' = IF PultActiveTimer > 0 THEN PultActiveTimer - 1 ELSE 0
          /\ UNCHANGED <<LedTestTimer, ledTest>>
  /\ UNCHANGED <<setting, block, contacts, testing, modbus, cycling>>

-----------------------------------------------------------------------------
(* DiscrInOutTestObserver: both tests at once are refused, with the mode   *)
(* left as it is; a test starts the test mode and ends with it.            *)
DiscrInOutTestObserver ==
  LET both   == tests = {"in", "out"}
      starts == ~both /\ ~IsDiscrTestActive /\ tests # {}
  IN /\ Turn(5)
     /\ tests' = IF both \/ (IsDiscrTestActive /\ ~Mode) THEN {} ELSE tests
     /\ Mode' = (Mode \/ starts)
     /\ Outputs' = IF starts THEN {} ELSE Outputs
     /\ TsTu' = IF starts THEN {} ELSE TsTu
     /\ IsDiscrTestActive' = IF both THEN IsDiscrTestActive ELSE tests' # {}
     /\ UNCHANGED <<setting, block, lamps, KvoKvzOff, BtnStopFlag, DiscrOut, modbus, cycling>>

-----------------------------------------------------------------------------
(* TekModbusParamsUpdate.  Of the commands of one pass the stop comes      *)
(* first; the register is then cleared whatever else it holds.             *)
ModbusWord ==
  IF "serial" \notin setting.has THEN "none"
  ELSE IF "stop" \in ComReg THEN "stop"
  ELSE IF "open" \in ComReg THEN "open"
  ELSE IF "close" \in ComReg THEN "close" ELSE "none"

TestCommands ==
  LET on(order)    == order \in ComReg
      endOut       == ~on("enOut") /\ on("disOut")
      starts       == IF on("enOut") THEN {"out"}
                      ELSE IF ~on("disOut") /\ on("enIn") THEN {"in"} ELSE {}
      ends         == IF endOut THEN {"out"}
                      ELSE IF ComReg \cap {"enOut", "enIn"} = {} /\ on("disIn")
                           THEN {"in"} ELSE {}
  IN /\ tests' = (tests \cup starts) \ ends
     /\ Mode' = (Mode /\ ends \cap tests = {})

TestRegister ==
  IF "out" \in tests'
  THEN Outputs' = (Outputs \ Tested) \cup TsTu /\ UNCHANGED TsTu
  ELSE TsTu' = Outputs \cap Tested /\ UNCHANGED Outputs

TechnologicalBits ==
  (Shown \ {"fault", "defect"})
    \cup (IF "local" \in marks THEN {} ELSE {"mudu"})
    \cup (IF "fault" \in marks THEN {} ELSE {"ready"})
    \cup (IF BtnStopFlag \/ "opened" \in Zone THEN {} ELSE {"kvo"})
    \cup (IF BtnStopFlag \/ "closed" \in Zone THEN {} ELSE {"kvz"})

TekModbusParamsUpdate ==
  /\ Turn(7)
  /\ PauseModbus' = IF PauseModbus > 0 THEN PauseModbus - 1 ELSE 0
  /\ TechReg' = TechnologicalBits
  /\ ControlWord' = IF ModbusWord = "none" THEN ControlWord ELSE ModbusWord
  /\ ComReg' = {}
  /\ TestCommands
  /\ TestRegister
  /\ UNCHANGED <<setting, supply, PowerEnable, marks, pressed, lamps, KvoKvzOff,
                 BtnStopFlag, DiscrOut, IsDiscrTestActive, place, motion,
                 faulted, counter, progon>>

-----------------------------------------------------------------------------
(* The tasks of 50 Hz, the cycles, and the operators.                      *)

Cycle == Turn(2) /\ CalcClbCycle /\ UNCHANGED <<setting, block, lamps, contacts, testing, modbus>>
Progon == Turn(6) /\ ProgonModeUpdate /\ UNCHANGED <<setting, block, lamps, contacts, testing, modbus>>

(* LocalControl collects what is pressed for OffKVOKVZ_Control.            *)
LocalControl ==
  /\ Turn(1)
  /\ KvoKvzOff' = [KvoKvzOff EXCEPT !.tu = @ \cup pressed.tu,
                     !.buttons = @ \cup pressed.buttons, !.pdu = @ \cup pressed.pdu]
  /\ UNCHANGED <<setting, block, lamps, BtnStopFlag, Outputs, DiscrOut,
                 testing, modbus, cycling>>

(* LowPowerControl: PowerOn or PowerOff.                                   *)
LowPowerControl ==
  /\ Window
  /\ PowerEnable' = (Mode \/ supply)
  /\ LedsReg' = IF PowerEnable' THEN LedsReg ELSE {}
  /\ DiscrOut' = IF PowerEnable' THEN DiscrOut ELSE {}
  /\ UNCHANGED <<slot, setting, supply, PauseModbus, marks, pressed, LedTestTimer,
                 PultActiveTimer, ledTest, KvoKvzOff, BtnStopFlag, Outputs,
                 testing, modbus, cycling>>

Supply ==
  /\ "dips" \in setting.does
  /\ supply' = ~supply
  /\ UNCHANGED <<slot, setting, PowerEnable, PauseModbus, marks, pressed, lamps,
                 contacts, testing, modbus, cycling>>

Press ==
  /\ \E p \in setting.keys : pressed' = p
  /\ PultActiveTimer' = IF pressed'.pdu # {} THEN LAMP ELSE PultActiveTimer
  /\ UNCHANGED <<slot, setting, supply, PowerEnable, PauseModbus, marks, LedsReg,
                 LedTestTimer, ledTest, contacts, testing, modbus, cycling>>

Mark ==
  /\ \E m \in setting.marks : marks' = m
  /\ UNCHANGED <<slot, setting, supply, PowerEnable, PauseModbus, pressed, lamps,
                 contacts, testing, modbus, cycling>>

(* The master writes commands and, in the test, contacts; the menu may     *)
(* write the mode and start the lamp test.                                 *)
Master ==
  /\ "modbus" \in setting.does
  /\ \/ ComReg' \in setting.orders /\ UNCHANGED TsTu
     \/ TsTu' \in {{}, {"closed"}} /\ UNCHANGED ComReg
  /\ UNCHANGED <<slot, setting, block, lamps, contacts, Mode, tests,
                 IsDiscrTestActive, TechReg, cycling>>

MenuWrites ==
  /\ "menu" \in setting.does
  /\ \/ Mode' = ~Mode /\ UNCHANGED <<tests, ledTest>>
     \/ tests' \in SUBSET {"in", "out"} /\ UNCHANGED <<Mode, ledTest>>
     \/ ledTest' = TRUE /\ UNCHANGED <<Mode, tests>>
  /\ UNCHANGED <<slot, setting, block, LedsReg, LedTestTimer, PultActiveTimer,
                 contacts, IsDiscrTestActive, TsTu, modbus, cycling>>

Drive ==
  /\ \/ "moves" \in setting.does /\ (StartOrStop \/ Obey)
     \/ Pass /\ trip'.made <= setting.trips
     \/ "counts" \in setting.does /\ (CycleReset \/ Calibrate)
     \/ "orders" \in setting.does /\ (OrderCycles \/ Fault)
  /\ UNCHANGED <<slot, setting, block, lamps, contacts, testing, modbus>>

-----------------------------------------------------------------------------
Init ==
  /\ CyclingInit
  /\ slot = 1 /\ setting \in Settings /\ Zone \in setting.zones
  /\ supply = TRUE /\ PowerEnable = TRUE /\ PauseModbus = PAUSE
  /\ marks \in setting.marks /\ pressed = NoInputs
  /\ KvoKvzOff = [tu |-> {}, buttons |-> {}, pdu |-> {}, timer |-> 0,
                  delay |-> FALSE, off |-> FALSE]
  /\ BtnStopFlag = FALSE /\ Outputs = {} /\ DiscrOut = {}
  /\ LedsReg = {} /\ LedTestTimer = 0 /\ PultActiveTimer = 0 /\ ledTest = FALSE
  /\ Mode = FALSE /\ tests = {} /\ IsDiscrTestActive = FALSE /\ TsTu = {}
  /\ TechReg = {} /\ ComReg = {}

List == LocalControl \/ Cycle \/ BlkSignalization \/ TsSignalization \/ DiscrInOutTestObserver
          \/ Progon \/ TekModbusParamsUpdate

Others == Window /\ (Supply \/ Press \/ Mark \/ Master \/ MenuWrites \/ Drive)

Next == List \/ LowPowerControl \/ Others

(* The lists are run from the timer interrupt, whatever happens.           *)
Spec == Init /\ [][Next]_vars /\ WF_vars(List) /\ SF_vars(LowPowerControl)

-----------------------------------------------------------------------------
(* The contacts tell the truth in the end.  When nothing happens for good, *)
(* the contacts of a powered block outside the test mode show where the    *)
(* valve is and what it does, whatever stops, tests and dips of the supply *)
(* came before; and a stop that is held at rest opens both end contacts    *)
(* for good where B.36 asks for it, unless they are inverted.              *)
Settled == supply /\ ~Mode /\ tests = {} /\ pressed = NoInputs
Held    == supply /\ ~Mode /\ motion = "stop" /\ "kvoOff" \in setting.has
           /\ pressed.buttons = KEY_STOP
ContactsTell ==
  /\ <>[]Settled /\ <>[][FALSE]_<<Zone, motion, marks>>
       => <>[](DiscrOut = Told(FALSE))
  /\ <>[]Held => <>[](Ends \ setting.OutputMask \subseteq DiscrOut)
=============================================================================
