----------------------------- MODULE BoardInputs -----------------------------
(***************************************************************************)
(* The board of the discrete inputs and outputs: PiUpdate exchanges a      *)
(* frame with it over SPI-C (src/src/comm/serial_communication.c), the     *)
(* analogue output DAC7513_Update uses the same SPI-C                      *)
(* (src/src/peref/dac7513.c), and RemoteControl turns the bits received    *)
(* into debounced inputs and the local/remote switch                       *)
(* (src/src/core/interface.c).                                             *)
(*                                                                         *)
(* The three run from the 2 kHz task list at fixed places                  *)
(* (src/include/global/system.h): the two 50 Hz tasks each in their own    *)
(* one of LIST consecutive 2 kHz ticks, PiUpdate in every tick and after   *)
(* them.  Whether the analogue output ever finds the bus free is a matter  *)
(* of these phases, so the model counts the ticks.                         *)
(*                                                                         *)
(* A step is one call from the timer interrupt, which begins with          *)
(* ProtectionsUpdate; the parameter TestCamera is written between two.     *)
(*                                                                         *)
(* Left out: what the frame sends to the board, the notes of the board     *)
(* that only show a message, the inputs other than Contacts, which are     *)
(* debounced the same way, the settings of MuDuSetup other than mdSelect,  *)
(* which keep the flags of the switch at 0, and the wait for SPI_ready in  *)
(* PiUpdate: at 1 MHz a byte is there long before the next tick.           *)
(***************************************************************************)
EXTENDS Naturals, FiniteSets

CONSTANTS
  Contacts,        \* the inputs modelled, "mu" and "du" among them
  LIST,            \* 2 kHz ticks in a period of the 50 Hz lists
  DacSlot,         \* place of DAC7513_Update in List2
  RemoteSlot,      \* place of RemoteControl in List4
  DriveSlot,       \* place of ValveDriveUpdate in List4
  PI_FRAME_SIZE,
  PI_CONN_TOUT,    \* calls of PiUpdate without a frame that end the link
  TuTime,          \* samples of the debouncing: GrB->TuTime*5
  MuDuTime         \* samples until the switch is at fault: 3*PRD_50HZ

ASSUME BoardAssumption ==
  /\ {"mu", "du"} \subseteq Contacts /\ IsFiniteSet(Contacts)
  /\ {LIST, PI_FRAME_SIZE, PI_CONN_TOUT} \subseteq Nat \ {0}
  /\ {TuTime, MuDuTime} \subseteq Nat
  /\ {DacSlot, RemoteSlot, DriveSlot} \subseteq 0..(LIST - 1)
  /\ DacSlot # RemoteSlot

VARIABLES
  tick,            \* 2 kHz ticks, counted within the period of the 50 Hz lists
  due,             \* the task of this tick that runs next
  supply,          \* PowerSupplyEnable, and PiUpdate is not held back at start
  stopped,         \* IsStopped
  State, Counter, Connect, ConnTimer, DiscrIn,         \* PiData
  CsAtBusy,        \* the board is selected
  spi,             \* the device SPI-C is set up for
  inputs,          \* DigitalInputUpdate: timer and output of each contact
  MuDuInput, MuDuDef, MuDuDefTimer, mudustatefault, mudustatedefect,
  TestCamera,      \* the parameter of the camera test
  \* observers
  period,          \* the frames since the last sample, see below
  doubts,          \* doubtful samples since "mu" was last sampled open
  age,             \* ticks since a frame was accepted, or the supply was lost
  missed,          \* DAC writes left out in a row while the supply was on
  shown            \* a sound frame has shown "mu" closed since it was last
                   \* sampled open

frame   == <<State, Counter, CsAtBusy, spi>>
link    == <<Connect, ConnTimer, DiscrIn, age>>
switch  == <<MuDuInput, MuDuDefTimer, mudustatefault, mudustatedefect>>
samples == <<inputs, period, doubts, shown>>
drive   == <<supply, stopped, TestCamera>>
vars    == <<tick, due, drive, frame, link, samples, switch, MuDuDef, missed>>

\* What came since the last sample: nothing, a sound frame as the last one
\* accepted, or else something doubtful: the last one accepted was damaged, or
\* every frame was rejected, or held back by a lost supply.
Periods == {"none", "doubtful", "sound"}

\* PiUpdate clocks a byte in the call that reads the one before.
ExchangeTicks == PI_FRAME_SIZE + 4

TypeOK ==
  /\ tick \in 0..(LIST - 1) /\ due \in {"Dac", "Remote", "Pi"}
  /\ supply \in BOOLEAN /\ stopped \in BOOLEAN
  /\ Connect \in BOOLEAN /\ CsAtBusy \in BOOLEAN
  /\ TestCamera \in BOOLEAN
  /\ period \in Periods /\ doubts \in 0..(TuTime + 1)
  /\ State \in 0..3 /\ Counter \in 0..(PI_FRAME_SIZE + 1)
  /\ ConnTimer \in 0..PI_CONN_TOUT /\ DiscrIn \subseteq Contacts
  /\ spi \in {"board", "dac"}
  /\ inputs \in [Contacts -> [timer : 0..(TuTime + 1), output : BOOLEAN]]
  /\ MuDuInput \in BOOLEAN /\ MuDuDef \in BOOLEAN
  /\ mudustatefault \in BOOLEAN /\ mudustatedefect \in BOOLEAN
  /\ MuDuDefTimer \in 0..MuDuTime
  /\ age \in 0..(PI_CONN_TOUT + 1) /\ missed \in Nat
  /\ shown \in BOOLEAN

DueAt(t) == IF t = DacSlot THEN "Dac"
            ELSE IF t = RemoteSlot THEN "Remote" ELSE "Pi"

Init ==
  /\ tick = 0 /\ due = DueAt(0)
  /\ supply \in BOOLEAN /\ stopped = TRUE /\ TestCamera = FALSE
  /\ State = 0 /\ Counter = 0 /\ CsAtBusy = FALSE /\ spi = "board"
  /\ Connect = FALSE /\ ConnTimer = 0 /\ DiscrIn = {}
  /\ inputs = [c \in Contacts |-> [timer |-> 0, output |-> FALSE]]
  /\ MuDuInput = FALSE /\ MuDuDef = FALSE /\ MuDuDefTimer = 0
  /\ mudustatefault = FALSE /\ mudustatedefect = FALSE
  /\ age = 0 /\ missed = 0 /\ period = "none" /\ doubts = 0 /\ shown = FALSE

-----------------------------------------------------------------------------
(* ProtectionsUpdate: in the camera test no fault of the switch is kept.   *)

MutProtectionsUpdate == UNCHANGED MuDuDef
ProtectionsUpdate == MuDuDef' = (MuDuDef /\ ~TestCamera)

-----------------------------------------------------------------------------
(* DAC7513_Update leaves the bus alone while the board is selected.        *)

MutDacFree == TRUE
DacFree == ~CsAtBusy

DAC7513_Update ==
  /\ due = "Dac" /\ due' = "Pi"
  /\ spi' = IF DacFree THEN "dac" ELSE spi
  /\ missed' = IF DacFree \/ ~supply THEN 0 ELSE missed + 1
  /\ ProtectionsUpdate
  /\ UNCHANGED <<tick, drive, State, Counter, CsAtBusy, link, samples, switch>>

-----------------------------------------------------------------------------
(* PiUpdate: one call in every tick.                                       *)

EndOfTick == /\ due = "Pi"
             /\ tick' = (tick + 1) % LIST
             /\ due' = DueAt(tick')
             /\ ProtectionsUpdate
             /\ UNCHANGED <<drive, inputs, doubts, switch, missed>>

MutLinkTimer(timer, connected) ==
  /\ ConnTimer' = IF timer < PI_CONN_TOUT THEN timer + 1 ELSE timer
  /\ Connect' = connected
\* The timer that ends every call that is not cut short.
LinkTimer(timer, connected) ==
  /\ ConnTimer' = IF timer < PI_CONN_TOUT THEN timer + 1 ELSE timer
  /\ Connect' = (connected /\ timer < PI_CONN_TOUT)

Older == age' = IF age <= PI_CONN_TOUT THEN age + 1 ELSE age

PiHeld == EndOfTick /\ ~supply /\ age' = 0
          /\ UNCHANGED <<frame, Connect, ConnTimer, DiscrIn, period, shown>>

Waiting == LinkTimer(ConnTimer, Connect) /\ Older /\ UNCHANGED <<DiscrIn, shown>>
Quietly == Waiting /\ UNCHANGED period

Missing == period' = IF period = "none" THEN "doubtful" ELSE period

PiBegin ==
  /\ EndOfTick /\ supply /\ State = 0
  /\ State' = 1 /\ Counter' = 0 /\ CsAtBusy' = TRUE /\ spi' = "board"
  /\ Quietly

MutAfterBytes == IF Counter = PI_FRAME_SIZE - 1 THEN 2 ELSE 1
\* The call that reads the last byte transmits none.
AfterBytes == IF Counter = PI_FRAME_SIZE THEN 2 ELSE 1

PiByte ==
  /\ EndOfTick /\ supply /\ State = 1
  /\ Counter' = Counter + 1 /\ State' = AfterBytes
  /\ UNCHANGED <<CsAtBusy, spi>>
  /\ Quietly

PiGap == /\ EndOfTick /\ supply /\ State = 2 /\ State' = 3
         /\ UNCHANGED <<Counter, CsAtBusy, spi>>
         /\ Quietly

Release == CsAtBusy' = FALSE /\ State' = 0 /\ UNCHANGED <<Counter, spi>>

\* A frame with neither its mark nor its checksum is rejected.
PiReject == /\ EndOfTick /\ supply /\ State = 3 /\ Release
            /\ Waiting /\ Missing

\* A frame is accepted for its checksum, or for the mark 0xAA of its second
\* byte whatever its checksum says.
PiAccept(on, sound) ==
  /\ EndOfTick /\ supply /\ State = 3 /\ Release
  /\ DiscrIn' = on
  /\ period' = IF sound THEN "sound" ELSE "doubtful"
  /\ shown' = (shown \/ (sound /\ "mu" \in on))
  /\ age' = 0
  /\ LinkTimer(0, TRUE)

-----------------------------------------------------------------------------
(* RemoteControl.                                                          *)

MutDigitalInputUpdate(input, on) ==
  [input EXCEPT !.timer = 0, !.output = on]
\* The timer of an input that is on decides nothing: it is left at 0.
DigitalInputUpdate(input, on) ==
  IF ~on THEN [timer |-> 0, output |-> FALSE]
  ELSE IF input.output \/ input.timer >= TuTime THEN [timer |-> 0, output |-> TRUE]
  ELSE [input EXCEPT !.timer = @ + 1]

\* The switch is read only at rest; neither position or both for MuDuTime
\* samples is a fault and means remote control.
SwitchAt(position) ==
  /\ MuDuDefTimer' = 0
  /\ MuDuInput' = position
  /\ MuDuDef' = (MuDuDef /\ mudustatefault)
  /\ mudustatedefect' = FALSE
  /\ UNCHANGED mudustatefault

SwitchUnclear(both) ==
  IF MuDuDefTimer < MuDuTime
  THEN /\ MuDuDefTimer' = MuDuDefTimer + 1
       /\ UNCHANGED <<MuDuInput, MuDuDef, mudustatefault, mudustatedefect>>
  ELSE /\ MuDuDefTimer' = 0 /\ MuDuInput' = FALSE /\ MuDuDef' = TRUE
       /\ mudustatedefect' = both
       /\ mudustatefault' = (mudustatefault \/ ~both)

\* In the camera test the causes are cleared; MuDuDef is left to
\* ProtectionsUpdate, which comes first in every call.
SwitchIgnored == /\ mudustatefault' = FALSE /\ mudustatedefect' = FALSE
                 /\ ProtectionsUpdate /\ UNCHANGED <<MuDuInput, MuDuDefTimer>>

SwitchKept == ProtectionsUpdate /\ UNCHANGED switch

MutReadSwitch(mu, du) ==
  \/ TestCamera /\ SwitchIgnored
  \/ ~TestCamera /\ mu # du /\ SwitchAt(mu)
  \/ ~TestCamera /\ mu = du /\ SwitchUnclear(mu)
ReadSwitch(mu, du) ==
  \/ TestCamera /\ SwitchIgnored
  \/ ~TestCamera /\ ~stopped /\ SwitchKept
  \/ ~TestCamera /\ stopped /\ mu # du /\ SwitchAt(mu)
  \/ ~TestCamera /\ stopped /\ mu = du /\ SwitchUnclear(mu)

\* The observers at a sample of "mu".
Sampled ==
  /\ shown' = (shown /\ "mu" \in DiscrIn)
  /\ doubts' = IF shown' \/ "mu" \notin DiscrIn THEN 0
               ELSE IF period = "doubtful" /\ doubts <= TuTime THEN doubts + 1
               ELSE doubts
  /\ period' = IF supply THEN "none" ELSE "doubtful"

RemoteControl ==
  /\ due = "Remote" /\ due' = "Pi"
  /\ IF Connect
     THEN /\ inputs' = [c \in Contacts |->
                          DigitalInputUpdate(inputs[c], c \in DiscrIn)]
          /\ ReadSwitch(inputs["mu"].output', inputs["du"].output')
          /\ Sampled
     ELSE SwitchKept /\ UNCHANGED samples
  /\ UNCHANGED <<tick, drive, frame, link, missed>>

-----------------------------------------------------------------------------
(* Other tasks, each at a place of its own too: the drive starts           *)
(* (ProtectionsReset) and stops, the protections are cleared at rest       *)
(* (ProtectionsClear); and PowerCheck, which sees the supply at any time.  *)

AtDriveSlot == due = "Pi" /\ tick = DriveSlot

Start == /\ AtDriveSlot
         /\ stopped /\ stopped' = FALSE
         /\ MuDuDef' = FALSE /\ mudustatedefect' = FALSE
         /\ UNCHANGED <<tick, due, supply, TestCamera, frame, link, samples, MuDuInput,
                        MuDuDefTimer, mudustatefault, missed>>

Stop == /\ AtDriveSlot
        /\ ~stopped /\ stopped' = TRUE
        /\ SwitchKept
        /\ UNCHANGED <<tick, due, supply, TestCamera, frame, link, samples, missed>>

ProtectionsClear ==
  /\ AtDriveSlot /\ stopped
  /\ MuDuDef' = FALSE /\ mudustatedefect' = FALSE /\ mudustatefault' = FALSE
  /\ UNCHANGED <<tick, due, drive, frame, link, samples, MuDuInput, MuDuDefTimer, missed>>

\* PiUpdate keeps what it was doing while the supply is lost.
PowerLost == /\ due = "Pi" /\ supply /\ supply' = FALSE
             /\ missed' = 0 /\ Missing /\ SwitchKept
             /\ UNCHANGED <<tick, due, stopped, TestCamera, frame, link, inputs, doubts,
                            shown>>

PowerBack == /\ due = "Pi" /\ ~supply /\ supply' = TRUE
             /\ SwitchKept
             /\ UNCHANGED <<tick, due, stopped, TestCamera, frame, link, samples, missed>>

\* The menu or the main loop writes the parameter: right before RemoteControl,
\* and once more in the period, so that it may be taken back before it is seen.
CameraWritten == /\ due = "Remote" \/ AtDriveSlot
                 /\ TestCamera' = ~TestCamera
                 /\ UNCHANGED <<tick, due, supply, stopped, frame, link, samples, switch,
                                MuDuDef, missed>>

Tasks == \/ DAC7513_Update \/ RemoteControl
         \/ PiHeld \/ PiBegin \/ PiByte \/ PiGap \/ PiReject
         \/ \E on \in SUBSET Contacts, sound \in BOOLEAN : PiAccept(on, sound)

Next == \/ Tasks \/ Start \/ Stop \/ ProtectionsClear
        \/ PowerLost \/ PowerBack \/ CameraWritten

Spec     == Init /\ [][Next]_vars
-----------------------------------------------------------------------------
(* The bus has one user: while the board is selected SPI-C is set up for   *)
(* it, and the analogue output has not been written in between.            *)
BusOwned == CsAtBusy => spi = "board"

(* The analogue output is written at least once in ExchangeTicks periods   *)
(* although the board gives up the bus for one tick only: the exchange     *)
(* lasts 9 ticks and the task comes every 40, and these have no common     *)
(* divisor.                                                                *)
DacServed == missed < ExchangeTicks

(* The link is believed no longer than PI_CONN_TOUT after the last frame   *)
(* accepted, the time without a supply not counted: PiUpdate, and with it  *)
(* the timer of the link, does not run then.                               *)
ConnectTimed == Connect => age <= PI_CONN_TOUT

(* An input that no sound frame has shown closed is on only after TuTime + *)
(* 1 doubtful samples: of the frames since the sample before the last one  *)
(* accepted was damaged, and accepted for its mark, or every one was       *)
(* rejected or held back by a lost supply.  One sample of a contact that   *)
(* a sound frame of its period shows open keeps the input off.             *)
FalseInputFiltered == inputs["mu"].output => shown \/ doubts > TuTime

(* A fault of the switch that is shown has its cause latched in one of the *)
(* two flags the signalling reads, whatever starts, resets, positions and  *)
(* camera tests come in between.  The camera test clears the causes and    *)
(* not MuDuDef; only because ProtectionsUpdate has cleared that one before *)
(* RemoteControl comes is there no fault without a cause.                  *)
SwitchFaultKnown == MuDuDef => (mudustatefault \/ mudustatedefect)

(* The post that commands the drive is not changed under a drive that      *)
(* moves, nor in the camera test.                                          *)
SwitchAtRest == [][MuDuInput' # MuDuInput => stopped /\ ~TestCamera]_vars

=============================================================================
