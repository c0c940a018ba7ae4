# BUR-T-90 actuator controller: a TLA+ model

The repository is the firmware of the BUR, a controller for the electric
drives of pipeline valves: a TMS320F2808 that switches a three-phase motor
with thyristors, watches mains, currents, temperatures, the clutch and the
position sensor, and takes commands from local buttons, an infrared remote,
tele-inputs, Modbus, Bluetooth and a menu. This directory models how the drive
is commanded, started, stopped, braked and protected, how it finds its
position, how commands and answers come and go over its links, and how its
journals reach the memories. TLC checks the models on small instances; TLAPS
proves most of the safety properties, and that each of the five abstract
specifications is implemented, for every value of the constants (section 4 says
under which assumptions).

The build modelled is the one `src/include/device_modification.h` selects:
`BUR_90 = 1`, `BUR_M = 0` (thyristors, not contactors).

## 1. Inventory

| Component | Source | State it keeps | Operations | What makes it correct |
|---|---|---|---|---|
| Valve drive commands | `src/src/core/VlvDrvCtrl.c` | `Mcu`: control word, internal command, start delay, tele-input flags, target, seal flag | `ValveDriveUpdate`, `ValveDriveStop`, 50 Hz | a stop is never lost, a start never comes too early, a reversal stops first |
| Motor control | `src/src/core/motor_control.c` | `Dmc.WorkMode`, `Sifu.Direction`, direction, mode timers, kick and brake permissions | `StartPowerControl`, `StopPowerControl`, `ControlMode` 200 Hz, `DmcTest` | one thyristor group per movement, braking only at standstill and after a pause, status agrees with mode |
| Supply monitor | `motor_control.c` 1692-1791, 2010-2029 | hold-off timer, reset bits, saved direction, stored short circuit | `LowPowerControl` 50 Hz, `PowerCheck` | a dip does not move the valve; a short circuit survives power cuts |
| Protections | `src/src/core/protections.c` | latched fault and defect bits, `MuffFlag`, `OverWayFlag`, `onlyPosSens`, blind time | `ProtectionsUpdate` 18 kHz, `ProtectionsEnable`, `FaultIndication`, `EngPhOrdPrt`, `ProtectionsReset`, `ProtectionsClear` | an active fault stops the drive at once and without braking |
| Overload I2t | `src/src/core/protectionI2T.c` | accumulated time | `ProtectionI2T_Update` 50 Hz | trips on time, not before |
| Interface | `src/src/core/interface.c` | parameter image, passwords, calibration requests | `AlgControl`, `ClbControl`, `GetCurrentCmd`, `LocalControl`, ... | requests act once, in the right state |
| Journals | `interface.c` 379-700, `src/src/stat/LogEv.c` | three rings in EEPROM, addresses, counts, pending records | `LogEvControl`, `LogCmdControl`, `LogParamControl` 200 Hz | a record is whole or absent, also after a power cut |
| Memory drivers | `src/src/stat/fm25v10.c`, `at25xxx.c` | request, byte position, retries, error | `FM25V10_Update` 2 kHz, `EEPROM_Func` | a request finishes, verified, or reports an error |
| Modbus port | `src/src/comm/drv_modbus.c` | frame buffer, gap timers, counters | receive and transmit interrupts, `SerialCommTimings`, `SerialCommUpdate` in the main loop | one answer per request, no frame torn |
| Bluetooth and information module | `src/src/comm/btwt41.c`, `src/src/stat/im.c`, `interface.c` | receive index, state of the set-up, request in progress, journal cursor | receive and transmit interrupts, `BtWTUpdate`, `ImUpdate` in the main loop | the record sent is the record asked for; a request is answered |
| I/O board link | `src/src/comm/serial_communication.c` | SPI frame, connection timer, debounce timers | `PiUpdate` 2 kHz | stale or damaged inputs are not taken for fresh ones |
| Cycle mode | `motor_control.c` 761-822, `calibs.c` | cycle counter, pause | `ProgonModeUpdate`, `CalcClbCycle`, both 10 Hz | the number of cycles asked for |
| Contacts (tele-signals) | `interface.c`, `src/src/peref/rim_devices.c` | output register, stop timer, masks of the tests | `TsSignalization`, `OffKVOKVZ_Control`, `TekModbusParamsUpdate`, `DiscrInOutTestObserver` 10 Hz | the contacts tell what the drive does |
| Position sensor | `src/src/peref/encoder.c`, `peref_drv_DPMA15.c` | revolution counter, error timers | `EncoderUpdate` 200 Hz | no jump is taken for a movement |
| Calibration | `src/src/peref/calibs.c` | end positions, stroke, zone | `Calibration`, `DefineCalibParams`, `FindStroke` | end zones match the position |
| Remote control | `src/src/peref/pult.c`, `interface.c` 1328-1400 | pulse decoder, key, saved command | `PultKeyExecute`, `PduKeysControls` | a command is confirmed before it acts |
| Menu and display | `src/src/core/menu2x.c`, `src/src/peref/display.c` | state, group, parameter, passwords, wizard step | `MENU_Update` 10 Hz, `DisplayUpdate` | a parameter is written only as its protection allows |
| Test mode | `rim_devices.c` 327-358, 484-516 | `G.Mode` | `DiscrInOutTestObserver`, `TekModbusParamsUpdate` 10 Hz | test and movement exclude each other |
| Clock, temperature sensor, analogue output, data monitor, hardware set-up | `rtc.c`, `ds3234.c`, `adt7301.c`, `dac7513.c`, `csl_dlog.c`, `InitHardware.c` | register access | | |

**How they interact.** There are no messages: every component reads and writes
global structures (`GrA->Status`, `Mcu`, `Dmc`, `Sifu`, the fault registers,
the supply variables). `ValveDriveUpdate` calls `StartPowerControl` and
`StopPowerControl` through pointers; protections, calibration and the supply
monitor call `ValveDriveStop` or write `Sifu` directly; `StopPowerControl` only
sets the mode, and `ControlMode` opens and closes the gates when it runs next.
The key of the remote control is one variable (`Pult.Key`) that four tasks read
and clear. The two memories are reached through one driver structure each,
which every client checks with `IsMemParReady` or `IsMemLogReady` first.

**Scheduling** (`src/include/global/system.h`). A timer interrupt of 18 kHz runs
`ListM`: `ProtectionsUpdate` and the other fast tasks every time, then the next
element of the slower lists, so that one slow task runs per call at most. The
interrupt is not interrupted by another task. The 2 kHz list calls the memory
drivers and the board link; `List1` runs at 200 Hz, `List2` and `List4` at 50 Hz,
`List3` at 10 Hz. `SerialCommUpdate`, `BtWTUpdate` and `ImUpdate` run in the
main loop and are interrupted by the serial interrupts and by the timer;
interrupts do not nest.

**Hard behaviours.** A stop can come from any of six places between any two
calls of the motor task; the delay counter that spaces starts also discards
commands, stops included; braking holds commands off with a counter another
mode may leave behind; flags latched in one movement are read in the next; a
supply dip and the test mode suspend the state machine in the middle of a
movement; a short circuit has to outlive a power cut; a journal record is taken
from RAM while it is written, byte by byte, with power cuts between any two; the
main loop of the serial links works on indices that the interrupts change. The
list of hazards in `PROJECT.json` names them at their lines.

## 2. Modules

| Module | Models | Contents |
|---|---|---|
| `DriveState` | `VlvDrvCtrl.h`, `structs.h`, `timings.h`, globals | the shared state as five records (a *world*), parameters and their assumptions |
| `Protections` | `protections.c` | masking, reaction inputs, the two resets, clutch, encoder error, phase order |
| `MotorControl` | `motor_control.c` | start, stop, one operator per mode, thyristor test, supply monitor |
| `ValveDrive` | `VlvDrvCtrl.c` | control sources, keys, tele-inputs, reversal, start delay |
| `BurDrive` | the composition, `system.h` | variables, `Init`, one action per task, `Next`, fairness, properties |
| `DriveMotion` | - | abstract specification: what the drive promises to the valve and the mains |
| `DriveService` | supply dips, thyristor test, restart | `BurDrive` with three more actions |
| `DriveInvariant` | - | the inductive invariant of the drive, and relations that say what a task may do to it |
| `Fm25v10` | `fm25v10.c`, `EEPROM_Func`, `csl_memory.h` | the driver of one memory, and a request to it |
| `Journals` | `interface.c` 379-515, 590-637, `LogEv.c`, `system.h` | event and command journals over two memories |
| `BlockStore` | - | abstract specification: what a memory driver promises to its clients |
| `ModbusPort` | `drv_modbus.c`, the serial interrupts | the port of one slave, and a master |
| `ModbusExchange` | - | abstract specification: request and answer on one line |
| `BoardInputs` | `serial_communication.c`, `dac7513.c`, `interface.c` | the exchange over the shared SPI bus, debouncing, the local/remote switch |
| `Panel` | `pult.c`, `interface.c` 1328-1400 | pulses, frames, keys, the tasks that take a key, confirmation |
| `Confirmation` | - | abstract specification: a movement asked for, then confirmed |
| `Menu` | `menu2x.c`, `interface.c` | menu, groups, passwords, editing, wizard |
| `MenuModes` | - | abstract specification: the mode diagram of the menu, which `Panel` also runs against |
| `Positioning` | `encoder.c`, `peref_drv_DPMA15.c`, `calibs.c` | reading the sensor, setting the ends, place and zones, stop at the target |
| `Cycling` | `motor_control.c` 761-822, `calibs.c` | the cycle mode and the cycle counter |
| `Signals` | `rim_devices.c`, `interface.c` | the contacts and their tests, composed with `Cycling` |
| `Bluetooth` | `btwt41.c` | the link to the module: set-up, connection, reception and transmission |
| `InfoModule` | `im.c`, `interface.c` | the requests of a peer and the journals read for it, over `Bluetooth` |
| `MC...` | - | input sets, views and constants for TLC, one for each composition |
| `...Proofs` | - | theorems and their lemmas, one module for each composition proved about |

### The drive

A C function that changes the shared state is an operator from worlds to
worlds, so a call chain composes as in the code: `StopMode(w)` is
`StopMode()`, and `ProtectionsUpdate(Now, s)` followed by a task is one call of
the interrupt. Names are the code's. The five variables `st`, `mcu`, `dmc`,
`prt`, `pwr` are the records of a world:

* `st` is `GrA->Status` (the bits the drive logic reads);
* `mcu` is `Mcu` with the control word (`GrD->ControlWord`);
* `dmc` is `Dmc`, `Sifu.Direction`, `ReqDirection`, `DrvEnable`, the thyristor
  clock and the timers of the modes;
* `prt` is the latched faults and the flags of `protections.c`;
* `pwr` is the supply monitor, the test mode and the stored short circuit, both
  the copy in RAM (`scFaults`) and the one in the EEPROM (`eeSc`); `eeReq` is the
  write under way between the two. `StoreShC` and `ProtectionsEnable` only ask for it,
  `EepromTick` carries it out later, and a restart may come first. The three bits of
  `LOAD_SHC_MASK` (`structs.h:116`) lie in one byte, so the write changes `eeSc` in
  one step.

Two more variables are not in the firmware. `ran` says that `ControlMode` has
run since the last `ValveDriveUpdate`; it is all that is assumed of the ratio
between the 200 Hz and the 50 Hz list. `rest` is a history variable that counts
calls of `ValveDriveUpdate` at standstill.

A **step** is one interrupt call: `ProtectionsUpdate` first, then one slow task
with its inputs (keys, tele-inputs, speed, phase order, clutch, sensor error,
state of the memory) chosen freely. Which task runs is left open, so every
interleaving of the lists, and more, is covered.

`DriveService` adds supply dips (`LowPowerControl` while the supply is low), the
thyristor test and restarts; `Restart` sets `rest` to its limit, because a cold
start takes longer than the start delay (the protections alone are blind for
`FaultDelayTime`).

### Journals

`Journals` shares with the drive only the fault registers (an event) and the
last command. Its variables are the two drivers `par` (`Eeprom1`) and `log`
(`Eeprom2`), the bytes of the parameter memory `mem`, the structures `LogEv` and
`LogCmd` with the statics of their tasks (`ev`, `cmd`), addresses and counts in
`GroupH` (`ram`) and as last stored (`prev`), the samples `buf`, the menu's
request, and `env`, what the bounds count.

A **step** is one period of the 2 kHz list: the next of the ten tasks of the
200 Hz list (`slot`; 5, 6 and 7 are `DataBufferPre`, `LogEvControl` and
`LogCmdControl`), then one call of each driver. The rates matter here, because a
record is taken from RAM while it is written: a byte takes five calls, a word
one round of the 200 Hz list, so the schedule is exact, unlike in `BurDrive`.
`Restart` is a power cut and `InterfaceInit` after it: the memory stays, and
addresses and counts are what its bytes say.

The driver is a machine of one state per call: dispatch, take a byte from the
buffer as it is now, send it, dispatch, read it back and compare. `BlockStore`
forgets states, retries and timing: take, put, advance only when the memory holds
what was taken, give up. `TaskOf` and `TakenBy` read a request of `BlockStore` off
the driver's fields.

A record is a mark that all its bytes carry, so a torn record is two marks in one
cell; offsets in the client's buffer are left out. Left out as well are the
parameter journal (slots 8 and 9, of the same form as the commands'), the other
clients of the parameter memory (parameter writes by menu and Modbus, the stored
short circuit, the cycle counter), which check `IsMemParReady` as the journals do
and make the journals wait, and the contents of the log memory, of which the
model keeps the driver and the address it writes to.

### Modbus port

The main loop is cut at every statement an interrupt can observe: a step is one
such piece of `SerialCommUpdate`, one receive or transmit interrupt, or one tick
of `SerialCommTimings`. A frame is its number of bytes, whether it is addressed
to this device, whole and acceptable; registers have no contents. The master
sends when it likes, repeats when it has lost patience, and noise, breaks and
resets by tasks come when the constants allow. `MidFrame` says whether they may
hit the main loop while it works on a frame; the theorems that need it FALSE say
so, and section 3 says what happens otherwise.

### Board link, remote control and menu

`BoardInputs` runs the 2 kHz list exactly, because the analogue output shares the
bus: an exchange takes nine ticks and the output's turn comes every forty. The
inputs and the switch are read from the frame in the tasks that debounce them. Of
`MuDuSetup` only `mdSelect` is modelled: the other settings keep the flags of the
switch at 0. `CameraWritten` switches the camera test (`TestCamera`) on and off: then the
switch is not read, `ReadSwitch` clears the causes of its fault, and
`ProtectionsUpdate`, first in every interrupt, the fault itself.

`Panel` runs the tasks in their order: in a round of the 10 Hz list the menu and the
messages once, the 50 Hz tasks that read keys `SLOTS` times, with pulses and frames
in between. `PRE` and `POST` are the numbers of 20 ms periods that the line must be
quiet before and after a frame. The menu is `MenuModes` there, the diagram that `Menu` is shown
to implement.

`Menu` has one action per key handler and state. Parameters are the members of a
set, with the protection each carries; values have no contents.

### Position, cycles, contacts

`Positioning` keeps the whole arithmetic of the position (the circle of the
sensor, the ends, the stroke, the base) with a small circle. The drive is a
direction that starts and stops; the sensor reads the true place or, now and
then, a bad value. `TsSignalization` sets the accuracy (`PositionAccTmp`) to
`PositionAcc` at rest and 0 in a movement, up to 100 ms late. `CameraWritten` switches
the camera test on and off, in which `CalibStop` returns before it stops anything
(`motor_control.c:1093`); `inside`, the observer that `EndsRespected` looks at, marks a
movement that began on the stroke and has had no camera test.

`Cycling` and `Signals` look every 100 ms (the 10 Hz list). The drive obeys a
command or loses it, runs, is stopped by anyone, and passes at most one border of an
end between two looks. `Signals` is composed of `Cycling` and the contacts, and its runs check
both; the theorems about the cycles are of the same specification.

### Information module

`Bluetooth` is the driver of the link (receive and transmit interrupts, set-up,
connection strings), `InfoModule` the protocol above it: its main loop passes,
the interrupts, ticks of the 10 s timer and answers of the memory are steps. The
peer, the module and the other client of the memories are the environment. A
record is its number. It is assumed that the main loop runs between two bytes, that a
text has no pauses of the length of a tick, and that a memory becomes free within
the timeout.

### Abstractions

* Faults of the drive are kinds, not bits of phases: `Net` (mains), `Drv_T`,
  `Th_Err`, `I2t`, `MuDuDef`, `ShC` (short circuit), `PhOrd`, `NoMove` (clutch),
  `PosSens`. What `PrtCalc` (a binary library) measures is an input: a kind of
  `Faulty` may be raised at any call and, if it is not latched, dropped again.
* Times are counted in calls of the task that counts them, and are constants.
  `DriveState` names every bound: `TimeAssumption` says what the proofs need
  (`StartDelayTime >= 2`, `BlockDelay > StartDelayTime`, `NoCurrPause >= 2`);
  the firmware's values are 100, 65535 and at least 4. `BlockDelay` is the 0xFFFF of
  `DynBrakeMode`.
* The speed is `low`, `min` or `high` against the limits the modes compare it
  with; torque above its limit is the Boolean `overload`; in the drive's modules
  the position is a zone, and `reached` says that the target is (`Positioning` is
  where the zone comes from).
* A calibrated position sensor is a constant of the drive, as is everything an
  operator sets as a parameter: the runs fix it, the proofs hold for all values.

Left out because no code enables it: smooth control (`Smooth.Enable`), the demo
mode (`Demo.Enable`), `Tu.LocalFlag`, the reserve supply (`Status.Power` is never
cleared on this hardware by code that runs in the build modelled). Left out as
detail without control: firing angles, torque, indication filters, journals'
source codes.

The drive modules (`DriveState` to `DriveService`) are about a drive without the camera
test (`GrG->TestCamera` = 0): with it the commands of the control become test movements
(`motor_control.c:437`, 440, 495), the protections are switched off one by one
(`protections.c:119-120`, 134-201, 371, 397) and nothing stops at the target
(`motor_control.c:1093`). `BoardInputs` and `Positioning` do have the camera test.
`StopKinds`, the protections that stop the drive, is a constant: it stands for what the
parameters of the protections and the place of setting (`GrB->SettingPlace`,
`protections.c:577-614`) come to together. A write of the short circuit that the memory
gives up, or that another client's request replaces, is left out: it would be stored
again or recalled once more.

## 3. What the runs check

The cfgs scale times to a few calls each, keeping their order, so that every
counter still counts, expires and is interrupted at every value.

| Run | Question | Bounds |
|---|---|---|
| `drive_commands` | Do command logic and motor logic stay consistent when button, remote control, relay tele-inputs behind the local/remote switch, calibration and Modbus command at once? Does every lock and every phase test end? | fair; no faults, two kicks, delay 3, lock 5 |
| `drive_faults` | What holds when mains, phase order, clutch and position sensor fail and recover at any moment of a movement into a seal? | seal at "open"; delay 2, lock 3 |
| `drive_test` | Does no braking current flow in a moving drive when the test mode and the thyristor test come at any moment? | delay 2 |
| `supply_restart` | Is a stored short circuit remembered until its reset, and does a fault still stop the drive, through dips and restarts? | restarts at any step, also between a request to the EEPROM and its byte; delay 2, hold-off 2, a dip believed at the first sample |
| `journals` | Is a record whole or about to be overwritten, are addresses and counts stored, and does the memory driver keep its promise, when events, commands and menu requests come at any time, bytes fail and power is cut at any step? | two event records, one command record, one word each, two attempts per byte, two lost bytes, a command every third round at most |
| `modbus_line` | Does the port answer whole frames, once, alone on the line, and does it recover from noise, breaks, bad frames and resets? | fair; frames of two bytes, a buffer of three, two line errors |
| `board_link` | Does the bus have one user at a time, does the analogue output get its turn, are inputs and switch believed only when they may be? | 8 ticks instead of 40 and frames of 3 bytes instead of 5: an exchange of 7 ticks, again without a common divisor with the period and shorter than it (the firmware's 40 and 9 are the theorem's) |
| `panel` | Does every key of the remote control arrive, is a movement confirmed before it acts, is a stop obeyed? | fair; two 50 Hz periods to a round, quiet line of two periods as in the code |
| `menu` | Is a parameter edited only as its protection allows, through groups, passwords, wizard and sleep? | four parameters, one for each kind of protection |
| `positioning` | Is the place found, and does the stop come at the end, with wrong readings and ends set anew? | circle of 20 marks, a jump from 2 marks on, overrun of 4; ends set by turns from the open end and reset together; a reading wrong by 2 or 8 marks, three sound ones between two of them |
| `signals` | Do the contacts end up telling the truth, and are cycles counted and bounded? | fair; five settings of stops, inversion, tests, counter and cycles |
| `info_module` | Is the record sent the one asked for, and is a peer served again and again, with lost bytes, broken connections and another client of the memory? | fair; two journals, one fault, one other client |

Properties, by run:

* `drive_commands`: `DriveInv`, the inductive invariant of the proofs;
  `NoLockoutWhileMoving`: a moving drive has no start delay running, so no stop
  command is discarded; `RestBeforeStart`: a start needs `StartDelayTime` at rest,
  less the first period that the call of the stop may count; `ReversalStops`: the
  stop of a reversal beats the keys and inputs of that call; `MotionSpec`: `BurDrive`
  implements `DriveMotion` (`motion` from the status bits, `gates` from
  `Sifu.Direction`); `LockoutEnds`, `TestPhaseEnds`: liveness.
* `drive_faults`: `MuftaAgrees`: the clutch's flag, its fault bit and its status bit,
  reset by different masks, agree; `OverWayInSeal`: the permission to run past the
  target belongs to this movement; `HealthyWhenFiring`: no gate opens in a fault.
* `drive_test`: `BrakeAtRest`: no braking current in a moving drive.
* `supply_restart`: `ShcRemembered`: the EEPROM's short circuit is latched, or about
  to be, or its reset is about to be stored or on its way; `FaultCoasts`: a fault or the clutch
  stops the drive at the next interrupt and without braking.
* `journals`: `EventCellsWhole`: an event record put together from two is the one at
  the stored address, which the next event overwrites; `PointersStored`: an idle
  memory holds each address and count that `PrevLogAddr` and `PrevLogCount` say it
  holds; `ParStoreSpec`: `Journals` implements `BlockStore` for the parameter memory.
* `modbus_line`: `HalfDuplex`: receiver and transmitter are never on together;
  `ConnectionTimed`: the connection is shown only while its timer runs; `AnswerWhole`:
  an answer is sent from its first byte, and to its last unless a task resets the
  port; `ExchangeSpec`: an answer follows a whole request and is sent once;
  `Listens`, `Recovers`: liveness.
* `board_link`: `BusOwned`, `DacServed`, `ConnectTimed`, `FalseInputFiltered` (an
  input that no sound frame has shown closed is on only after more than `TuTime`
  doubtful samples: of the frames since the sample before, the last accepted was
  damaged, or none was accepted; any number of frames may be damaged or lost),
  `SwitchFaultKnown` (a switch fault that is shown has its cause latched, also through
  the camera test, whose branch at `interface.c:1465` clears the causes only: it is
  `protections.c:120` that has cleared the fault before), `SwitchAtRest` (the commanding
  post does not change in a movement or in the camera test).
* `panel`: `KeysInTime`: no key is overwritten before it has been taken;
  `ConfirmationSpec`: a movement is granted only when it was asked for, nothing took
  its place and ENTER followed; `StopsObeyed`: liveness.
* `menu`: `EditAuthorised`: a parameter in the editor may be edited and its password
  is open; `ModesSpec`: the menu implements `MenuModes`.
* `positioning`: `PlaceFound`: the place computed is the place; `EndsRespected`: a
  drive sent to an end runs past it by `RevMisc + 2` marks at most, unless it is in the
  camera test.
* `signals`: `CycleCounted`: the counter is the number of trips to the other end and
  back; `CyclesBounded`: no more than two commands for each cycle ordered;
  `ContactsTell`: the contacts come to tell what the drive does (liveness).
* `info_module`: `RecordTrue`: a record sent is the one asked for; `Served`: liveness.

**Why the bounds are enough.** Every timer is compared with its limit and reset, so
values between the first and the last behave alike; the cfgs keep at least one
such value where an interruption matters (`TestStateTime` 3, `StartDelayTime` 3,
`BlockDelay` = `StartDelayTime` + 2). The proofs remove the bounds for the
properties they cover.

In `journals` two values of a byte are enough for an address of two bytes with a
carry, two records for a ring that wraps, two attempts for both outcomes of a
retry. A record shorter than the buffer cells that follow it keeps the order of
the firmware's sizes (20 words against 5 of 12). `CommandGap` assumes that a
command's record is written before the next command, which the 50 Hz rate of
`GetCurrentCmd` does not guarantee when the memory is busy: otherwise the second
command replaces the record under the driver. `Resets` and `Lossy` leave clearing
the journals and failures of the log memory out of this run (see below for what
they do), `Restart` does not follow the clearing of a memory error, and the menu
asks only while no byte has failed. `MCView` drops fields that are written before
they are read again.

`board_link` was also run with the firmware's frame of five bytes in a period of 10
ticks (11.4 million states), `modbus_line` with frames of three bytes (1.7 million), and
`positioning` with four commands together, the ends set from either end and one or both
reset (31.5 million), with readings wrong by one mark, and with the other rod
(`calibs.c:137-148`), for which the circle is turned over: ends set from the closed end
and one of them reset alone (10 million) or both (17 million). Nothing new.
With `MB_FRAME_MAX = FRAME` a frame received in the step of the gap would
fill the buffer without a timer; the firmware's buffer is larger than a frame.

`Positioning` assumes that one calibration command is pending at a time. `ToItsEnd` asks
for a stroke that leaves room for the overrun (on almost the whole circle an overrun
changes the sign of the position), for one longer than the accuracy at both ends, and
for a movement without the camera test. What else `EndsRespected` needs is the named
assumption `EndsAssumption`, and the run takes its least values: a mark in a round is
no jump (`RevMisc >= 2`), three sound readings follow a bad one, `Calibration` runs
every other round of the 200 Hz list at most (the firmware: at 10 Hz), and four
rounds, 20 ms, pass between a stop and a start. With an overrun of 3, one less than
the assumption asks, TLC finds the property violated: the bound is tight. `info_module` assumes that the peer asks after
the main loop has seen the connection, for at least two records of a journal, and
asks again when it is not answered.

**Fairness.** In `drive_commands` the motor task and the command task run again and
again (`ran` is set and cleared infinitely often), which is what the periodic
scheduler does. `modbus_line` assumes weak fairness of each step of the main loop,
of the timer, of the transmit interrupt, and of a master that sends and gives up;
`panel` of the tasks; `signals` of the 10 Hz list, and strong fairness of
`LowPowerControl` (a supply that returns again and again is noticed once);
`info_module` of the main loop, the interrupts, the tick, the memory, the module,
and of a peer that connects, asks and gives up. All are of the periodic scheduler,
the hardware or a partner that does not go away; nothing is assumed of inputs,
faults or losses, except that `modbus_line` and `info_module` bound the number of
losses.

**Mutants.** The operators named `Mut...` beside a definition are plausible slips
(a guard dropped, a field not reset, an off-by-one). `PROJECT.json` pairs each
property of each run with the slip it detects; nothing uses them otherwise.

### What the code does otherwise than one would expect

The properties above hold. These observations were made while modelling; where
they would break a property, the property or the run excludes them by name.

Drive:

* The automatic reversal loses the movement it postpones: the opposite command is
  handed over in the first call after the stop, while the delay runs, and discarded
  (`VlvDrvCtrl.c:335`, 225-229).
* `onlyPosSens` is set and never cleared (`protections.c:630`): after one sensor
  failure no other fault stops the drive, unless the sensor is set to stop it. The
  theorems about faults have the parameter `pmSignStop` for that reason.
* After a supply dip the gates of before are restored although the drive has stopped
  meanwhile (`motor_control.c:1772`), and a dip in the braking applies the brake
  again: `BrakeHolds` assumes no dips.
* The test mode cuts the braking short and leaves the delay at 0xFFFF, 21 minutes
  (`motor_control.c:1023`); leaving the test mode leaves the chosen thyristor group
  on (742-754 has no case for `wmTestThyr`); `DmcTest` leaves the status at moving
  (1055).
* The phase-test timer is static (`motor_control.c:843`): a start after an
  interrupted test tests for a shorter time.
* A stop written by Modbus is overwritten by a movement key of the same call
  (`VlvDrvCtrl.c:198`). `IsDefectExist` copies the over-voltage bits of one register
  three times (`protections.c:513`).

Journals:

* The event flag is cleared when the last cell of the buffer is requested
  (`interface.c:505`, 512), so `DataBufferPre` may shift the samples while it is
  being written.
* `Addr` in `LogEvControl` is static and serves the event record, the buffer and the
  menu: a reading from the menu (`interface.c:482`) while buffer cells are still to
  be written sends them to the wrong place of the log memory.
* A second event within the 300 ms of the first one's writing replaces it. When the
  log memory has given up, its requests return at once, the address moves on after
  five rounds while the record takes twenty, and a second event in between leaves a
  mixed record.
* An address that the parameter memory refused counts as stored when the error is
  cleared (hence `mended` in `PointersStored`).
* An address is two bytes. A power cut between them leaves the low byte of the new
  with the high byte of the old one: a wrong number, but never one beyond the ring
  (0 between 255 and 256). That this is so for every size of the ring is the lemma
  `TornWord`, and without it the invariant of the journals would not hold.
* `EEPROM_Func` is called from the main loop and from the timer interrupt
  (`rim_devices.c:171`); between check and call the request of one can become that of
  the other. The models take the call as one step.

Modbus:

* A reset in the middle of a frame that the main loop works on leaves the line driven
  (`drv_modbus.c:172`); with `MidFrame` TRUE `HalfDuplex` fails.
* While `PauseModbus` runs a stale frame is answered late. Line 320 reads the value of
  a write-single as a count, so values of 0 and above 50 are refused. The
  slave-ID answer carries its checksum twice. The guard on the baud rate is always
  true.

Board, remote control, menu:

* An exchange takes nine ticks and the output's turn comes every forty, numbers
  without a common factor: a frame of four bytes would keep the analogue output off
  the bus for good. A frame is accepted for its mark 0xAA alone. The debounce timer
  runs on while the link is lost. `ProtectionsReset` clears the bit of the switch
  fault and not its flag.
* `postFrameTimer` is reset by noise only, so the noise filter of `pult.c:47-50`
  works once; the first frame after noise is sometimes lost. A second key before
  the 10 Hz menu replaces the first. A stop by the remote is filtered while a
  confirmation is awaited. A message on the screen erases the key. The confirmation
  window can be shorter than 5 s, because its timer is shared. While a parameter is
  edited (`Mpu.Enable`) a stop of handle or remote control is ignored.
* `extraPassword` opens the editing of every parameter. The wizard leaves `NextState`
  unset in six steps, ignores passwords, and goes on when a write was refused.

Position, cycles, contacts:

* `FullStep` is stale when an end is reset and another set in one call; the target
  taken before `FindStroke` ran is 0 also for opening; `RevMax >> 1` makes the base
  one off; the first reading after start-up is rejected, and a wrong one costs two
  more rounds; a reading less than `RevMisc` off is taken, and so is one exactly
  `RevMisc` off across the sensor's zero, because a jump must also be at most
  `RevMax - RevMisc`; so a stop may come up to `RevMisc + 2` marks late; the automatic calibration advances one step per command.
* In the camera test nothing stops the drive at its end (`motor_control.c:1093`), and
  `EndsRespected` leaves movements with one out. A stroke not longer than the accuracy at
  both ends is unknown at rest (`calibs.c:157`), but found in the middle of a movement, when
  `TsSignalization` has set the accuracy to 0 (`interface.c:1586`); then a target taken
  before it was found, 0 for either end, begins to count. `EndsRespected` leaves such a
  stroke out.
* The cycle mode waits for ever when its single command is lost, and its flags
  survive an aborted run.
* The test outputs show the normal register when both tests are ordered at once
  (`rim_devices.c:330`); `PowerOff` sets the heater's bit that the comment calls off;
  inputs of the contact B.36 gather over a power loss.

Information module:

* A reply lost in the set-up hangs it for good, there is no timeout (set-up is free of
  losses in the model). Remains of NO CARRIER stay in the buffer for 10 s, so the
  first request of a new connection may go unanswered.
* A memory busy for more than 10 s in the first record leaves the flags of the
  journal reading set. Reading one single record makes the next download of another
  journal start with a record of the old one. A memory error sends the buffer as
  it was. With `Index` at 10 an event record ends two cells past `WrBuffer`, and
  `RdBuffer` is written before its bound is checked.

## 4. What is proved

Each theorem holds for all values of the constants that satisfy the `ASSUME`s of
the modules (which TLC evaluates on every run) and the assumption named here.

| Module | Theorem | Statement | Assumes |
|---|---|---|---|
| `DriveProofs` | `InvariantHolds` | `Spec => []DriveInv` | |
| | `TypesHold`, `StatusHolds` | `Spec => []TypeOK`, `[]StatusAgrees` | |
| | `StopNeverLost` | `Spec => []NoLockoutWhileMoving` | |
| | `RestHolds` | `Spec => RestBeforeStart` | |
| | `CoastHolds` | `Spec => FaultCoasts` | sensor set to stop |
| | `DriveImplementsMotion` | `Spec => MotionSpec` | |
| | `MuftaHolds`, `OverWayHolds` | `Spec => []MuftaAgrees`, `[]OverWayInSeal` | |
| | `ReversalHolds` | `Spec => ReversalStops` | |
| | `HealthyHolds` | `Spec => HealthyWhenFiring` | sensor set to stop |
| | `ServiceTypesHold`, `ShcHolds` | `ServiceSpec => []TypeOK`, `[]ShcRemembered` | |
| | `BrakeHolds` | `ServiceSpec => []BrakeAtRest` | no supply dips |
| | `ServiceCoasts` | `ServiceSpec => FaultCoasts` | sensor set to stop, no thyristor test |
| `JournalsProofs` | `PointersAreStored` | `Spec => []PointersStored` | journals are not cleared |
| | `JournalsImplementBlockStore` | `Spec => ParStoreSpec` | journals are not cleared |
| | `EventRecordsWhole` | `Spec => []EventCellsWhole` | journals are not cleared, the log memory works, `ShortRecord` |
| `ModbusPortProofs` | `NeverListensAndSends`, `PortTypesHold` | `Spec => []HalfDuplex`, `[]TypeOK` | `MidFrame = FALSE` |
| | `AnswersAreWhole` | `Spec => AnswerWhole` | `MidFrame = FALSE` |
| | `PortImplementsExchange` | `Spec => ExchangeSpec` | `MidFrame = FALSE` |
| | `ConnectionIsTimed` | `Spec => []ConnectionTimed` | |
| `BoardInputsProofs` | `BusHasOneUser`, `LinkIsTimed`, `SwitchFaultHasCause`, `BoardTypesHold` | `Spec => []BusOwned`, `[]ConnectTimed`, `[]SwitchFaultKnown`, `[]TypeOK` | |
| | `SwitchChangesAtRest` | `Spec => SwitchAtRest` | |
| | `DamagedFramesAreFiltered` | `Spec => []FalseInputFiltered` | `FrameEachPeriod` |
| | `DacIsServed` | `Spec => []DacServed` | 40 ticks, 5 bytes |
| `AccessProofs` | `EditorIsAuthorised` | `Spec => []EditAuthorised` (of `Menu`) | |
| | `MenuImplementsModes` | `Spec => ModesSpec` | |
| | `RecordsAreTrue` | `InfoSpec /\ []NoSingleRecord => []RecordTrue` (of `InfoModule`) | `NoSingleRecord` |
| `CyclingProofs` | `CyclesAreCounted`, `OrdersAreBounded` | `Spec => []CycleCounted`, `[]CyclesBounded` (of `Signals`) | |
| `PositioningProofs` | `PositionTypesHold` | `Spec => []TypeOK` | |
| | `PlaceIsFound` | `Spec => PlaceFound` | |
| | `EndsAreRespected` | `Spec => []EndsRespected` | `EndsAssumption` |
| `PanelProofs` | `NoKeyOverwritten` | `Spec => KeysInTime` | `PRE > 1` |
| | `ConfirmationKept` | `Spec => ConfirmationSpec` | |

**The assumptions.** `PosSensEnable = "pmSignStop"` is the setting with which the
sensor's failure stops the drive; with another, `onlyPosSens` lets later faults
pass (section 3). "No supply dips" and "no thyristor test" are sets of `Events`: what
the code does otherwise is in section 3 as well. "Not cleared" is
`TRUE \notin Resets`: two clearings of the journals during one write break
`PointersStored`. "The log memory works" is `"log" \notin Lossy`: with a log memory that
has given up, `EventCellsWhole` is false (section 3). `ShortRecord` says that a record,
with the bytes lost between two power cuts, is written before all but one of the
cells of its buffer are:
`2 * LOG_EV_DATA_CNT + MaxLosses <= 2 * ((LOG_EV_BUF_CELL_COUNT - 1) * LOG_EV_BUF_DATA_CNT + 1)`.
With the firmware's 20, 5 and 12 that allows 58 lost bytes for a record of 40; the run
`journals` lies at the limit (4 on both sides). `MidFrame = FALSE` leaves out noise, breaks and resets in the
middle of a step of the main loop, where `HalfDuplex` is false. `FrameEachPeriod`
asks for an exchange no longer than the sample period: it takes 9 ticks of 40. `DacIsServed` is about the firmware's numbers, because
with others it is false (four bytes). `PRE > 1` means that the quiet line before a
frame lasts at least two 50 Hz periods: the firmware asks for 900 ticks of 18 kHz,
50 ms (`pult.h:11`); with one period a key may be lost. `EndsAssumption` is explained
in section 3; the rest of `PositionAssumption` are the types of the parameters, with a
circle of an even number of marks (the sensor's 15 bits) that is at least twice a
jump, and `2 ^ PosSensPow` a number greater than zero, said because no prover
computes powers. `NoSingleRecord` says that nobody asks for a download of one single
record. After one its number stays in `PrevRecNum`, and the next download of another
journal takes its own first record for read (`interface.c:1960`, section 3), so
without it `RecordTrue` is false. It is a condition on what the peers ask for: no
request of the run `info_module` is one.

**The drive** (`DriveProofs`). None of its properties is inductive. `DriveInv`
(module `DriveInvariant`) adds what they rest on:

* `Consistent`: status, mode and direction agree (this is `StatusAgrees`) and the
  test mode is off;
* `MovesFreely`: a moving drive has no delay, may brake, and its gates are closed
  or open for its own group. The permission to brake (`dynEnable`) is needed
  because `StopPowerControl` leaves the mode of the movement when it is missing;
* `BrakesSafely`: gates are closed before the braking current, and while they may
  still be open after a stop (`Halting`) the delay has not run down by more than
  one. That one is why `StartDelayTime >= 2`;
* `Paced`: the delay runs down by one only when `ControlMode` has not run
  (`ran`), which turns "not more than one" into "closed in time"; and
  `rest` covers what the delay no longer counts.

An operator of the code is shown to do one of a few things to a world
(`DriveInvariant`): leave the movement alone (`Kept`), stop it (`Halted`, `Coasts`),
advance the motor state machine (`Motor`), or obey a command (`Commanded`). There is
one lemma for each mode and one for starts and stops, then the chain of
`ValveDriveUpdate`, then the composition with `ProtectionsUpdate`, which gives each
action of `Next` its step. The refinement reads its abstract step off the same
relations: `Kept` stutters, `Halted` is `Stop` and so on.

**The drive in service** (`DriveProofs`, second half) has an invariant of its own, because
supply dips, the thyristor test and restarts break `Consistent`. `Latched(Now)` is the
types, `CourseOK` (target and seal of the movement under way), `MuffOK` (the three
bits of the clutch), `SealOK` (the flag of a target passed) and `ShcOK` (the stored
short circuit: latched, to be recalled, or its reset waiting for the EEPROM, or a write
under way, which stores no more than what is to be recalled). The relations are `Obeys`, `Waits` and `Acts` for the command task, `Lets` for tasks that
leave the flags alone, `Monitors` and `Switches` for supply and test.
`BrakeInv` adds that braking current flows in a standing drive only, and in the one
call in which a start could meet it the motor task has not run; `CoastInv` that the
test mode is off.

**The journals** (`JournalsProofs`). `PointersStored` says something of an idle driver
only; the invariant `Store(World)` has to say what every state of the driver owes to
it. `DriverOK` and `PlaceOK` tie state, place and length of a request together: a
pointer is written at its own two bytes, does not change meanwhile, and records lie
behind the pointers. `TakenOK` and `StoredOK` follow the byte in the driver and those
already written. `AheadOK` and `CalmOK` are of the clients: addresses and counts stay
in their ring and an event's record is finished before its pointers move. `RingOK` is
what makes a power cut harmless: whatever mixture of old and new bytes the memory
holds, the word they make is a number within the ring (`TornWord`), so the journals
go on at a record that exists. Each task of the 200 Hz list is shown to be a `Client`
that hands the driver at most one request and only when it is ready; each call of
the driver keeps `Store` and is a step of `BlockStore` or a stutter; a power cut is
its `Cut`.

`EventCellsWhole` needs the time as well: nothing in `LogEvControl` waits for the record
before the address moves on; that it is written by then follows from the lengths
alone. `Records(World, Wait(slot))`, with the periods left to the next call of
`LogEvControl`, adds to `Store(World)`

* `OnlyThere` and `NotPassed`: a torn record is at the stored address, and the address
  is not about to move on while there is one;
* `RecordOK`: while the record is written, what of it lies in the memory is of one
  event (`WrittenOK`), and the calls its driver needs to the end, with a repeat
  for each byte that may yet be lost (`ToTheEnd`), are not more than those until
  the address moves on (`ToAdvance`);
* `LogOK`, from which `ToAdvance` is known: the log memory's cells are written in whole
  rounds of the 200 Hz list, so it is ready exactly when `LogEvControl` asks;
* `Redone`: a record that a second event has torn is being written again, or will be
  asked for at the next call.

`RecordsInit` and `RecordsNext` say that it holds at the start and is kept; for the
latter there is a lemma for each task and each call of the drivers, and for the
power cut, which may tear a record anywhere but leaves the stored address at it.

**The Modbus port** (`ModbusPortProofs`). `Inv` gives for each step of the main loop
what the interrupts may do meanwhile: `LineInv` (who drives the line at which step),
`BreakInv` (a break shuts the port until its timer ends), `ReceiveInv` and
`ContentInv` (nothing arrives while a frame is handled; the last byte received
belongs to a request the master waits for), `AnswerInv` (the buffer holds the answer
and so much of it is out). `AnswerWhole` in its first form was false of a reset by
a task in the middle of an answer; it now excepts that one.

**The board link** (`BoardInputsProofs`). Most of `Inv` follows the exchange. `FilterInv`
says that the timer of an input no sound frame has shown closed never runs ahead of
the doubtful samples. For that it follows the exchange from one sample to the next: a
sample always finds that a frame of its period has come or failed to. `DacInv` is number theory in one line: with exchanges of 9 ticks and a turn
every 40, the output finds the bus free after `2 * (Place + Until) % 9` further turns.

**The position** (`PositioningProofs`). The arithmetic comes first: a count is reduced
once round the circle at most (`OnCircle`), and the base of `FindStroke` lies opposite
to the middle of the stroke but for the rounding (`OppositePoint`), so the side that
`OnStroke` chooses is the nearest one (`LineIsPlace`). This gives `PlaceFound`, with
`FreshInv`: a stroke in use belongs to the ends set, and one left over from ends that
are no longer set is forgotten before `Calibration` runs again. Where the stroke leaves room, only one of the
distances round the circle is within the overrun (`OneWay`, `OneAt`), and "the place
of the shaft" is a number that moves by one.

`EndsRespected` is far from inductive: when a stop is due depends on what the last
readings were worth. The invariant adds

* `LagInv`: how far the reading taken lies behind the shaft, by the number of sound
  readings since the bad one;
* `ResetInv` and `TargetInv`: a drive with a target has no automatic calibration
  under way and, if an end is missing, the reset is flagged or has only just come;
  with both ends set the target is the one it turns to, and not beyond it;
* `RestInv`, by the table `AtRest`: at the end of the rest the reading is right, and
  a drive that stands in an end zone is known to stand there, so that it is not sent
  further;
* `MoveInv`, by the table `Within`: how far past the end the shaft may be, for each
  next task of the list and each age of the bad reading (`Before` is the allowance).

`StopInv` adds that a movement marked `inside` is under way and has no camera test, so that
`CalibStop` looks at it in every round.

Each step moves a row of a table to the next (`AllowancesRead`, `WithinRead`,
`AtRestRead`). The one event that could spoil it is an end set under a moving drive:
`EndIsHere` shows that the end lies then where the drive is. TLC had checked the
tables on small instances before they were proved, and by simulation with every order
of commands.

**The information module** (`AccessProofs`, second half). `RecordTrue` relates a record
that is sent to a request that the peer made long before, and the two are tied by
what the module remembers in between. `Fit(World, job)` adds

* `LinkOK`: during the set-up nothing reaches the module;
* `LineOK`: while a request is in work or answered no other one is recognised, for the
  line has one direction at a time;
* `DownloadOK`: the cursor of a download under way (`Live`) is in the journal of the
  request observed, at the record that is due next;
* `ReadOK`: how far that record has been read. For an event these are nothing, its main
  part, or both, and each stage says what the memory has been asked for and what
  lies in the buffers already;
* `AnswerOK`, which is `RecordTrue` of a world.

Each function of the code keeps `Fit` (`ReceiveFit`, `DownloadFit`, `SendFit`, `LinkFit`,
`DataByteFit`, `TimerFit`, `MemoryFit`), and the actions are put together from these. A
time-out would spoil the cursor, but the timer ticks only while the main loop rests,
which it does not while there is a record to be had (`DownloadGoesOn`). TLC has
checked the parts of `Fit` on the run's instance, with further requests, before they
were proved.

**The others.** `EditAuthorised` is inductive as it stands once each key handler's
effect on mode and codes is a lemma. `CountInv` says that what `CalcClbCycle`
would make of its memory if it looked now agrees with the trips made, which
covers the 100 ms between two looks. `OrderInv` bounds the commands by the cycles
left, less the half already ordered. `SettleInv` says that a key waiting to be
taken is so young that no other frame can be under way; `SavedInv` that a movement is
saved while ENTER is awaited.

Attempts at proofs have changed the models where these were vague: a CASE with
overlapping guards, of which TLC takes the first arm and logic any, now has disjoint
ones.

**Only model-checked.** Liveness (`LockoutEnds`, `TestPhaseEnds`, `Listens`,
`Recovers`, `StopsObeyed`, `ContactsTell`, `Served`), which is out of the prover's
reach. Every safety property that a run checks has its theorem, under the
assumptions of the table; what is known beyond these is in section 3.

## 5. Plan

Built so far, in this order: the drive with its abstract specification and its
proofs, the drive in service, journals and memory drivers, the Modbus port, the board
link, the panel and the menu, the position, cycles and contacts, the information
module; then the proofs about each of them. Next:

1. `JournalsProofs` with the journals cleared. `RingOK` fails there: after a clearing
   in the middle of a write a torn word can lie beyond the ring, so a weaker property
   of the memory has to be stated first. `TypeOK` of `Journals`.
2. `OverloadI2t` as a bounded accumulation; the parameter journal as a third client
   of the memory; a run with a short schedule for the liveness of memory requests.

## 6. Not modelled

The clock, the temperature sensor, the analogue output's value, the data monitor and
the hardware set-up contain no control of the drive; the binary libraries (`PrtCalc`,
the firing unit, the scheduler) have no source. Of components modelled in part,
`PROJECT.json` says what is left out; the largest are the firing angles and the torque
(IQmath), the register maps of Modbus and of the menu, the digit-wise editing and
drawing, the overload protection's time-current curve, and the code of the BUR-M and
of the Avago sensor, which this build does not contain.
