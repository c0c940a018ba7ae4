-------------------------- MODULE BoardInputsProofs --------------------------
(***************************************************************************)
(* The theorems about BoardInputs, for every value of its constants that   *)
(* the theorem itself does not restrict.                                   *)
(***************************************************************************)
EXTENDS BoardInputs, TLAPS

(* The inductive invariant has a part for each group of variables.         *)

ClockInv ==
  /\ tick \in 0..(LIST - 1) /\ due \in {"Dac", "Remote", "Pi"}
  /\ due = "Dac" => tick = DacSlot
  /\ due = "Remote" => tick = RemoteSlot

DriveInv == supply \in BOOLEAN /\ stopped \in BOOLEAN /\ TestCamera \in BOOLEAN

(* The exchange goes on byte by byte, with the board selected.             *)
FrameInv ==
  /\ State \in 0..3 /\ Counter \in 0..(PI_FRAME_SIZE + 1)
  /\ CsAtBusy \in BOOLEAN /\ spi \in {"board", "dac"}
  /\ State = 1 => Counter <= PI_FRAME_SIZE
  /\ CsAtBusy <=> State # 0
  /\ BusOwned

(* A link that is believed has been timed since its last frame.            *)
LinkInv ==
  /\ ConnTimer \in 0..PI_CONN_TOUT /\ Connect \in BOOLEAN
  /\ age \in 0..(PI_CONN_TOUT + 1)
  /\ Connect => age <= ConnTimer

SamplesInv ==
  /\ DiscrIn \subseteq Contacts /\ shown \in BOOLEAN
  /\ period \in Periods /\ doubts \in 0..(TuTime + 1)
  /\ inputs \in [Contacts -> [timer : 0..(TuTime + 1), output : BOOLEAN]]

SwitchInv ==
  /\ MuDuInput \in BOOLEAN /\ MuDuDef \in BOOLEAN
  /\ mudustatefault \in BOOLEAN /\ mudustatedefect \in BOOLEAN
  /\ MuDuDefTimer \in 0..MuDuTime
  /\ SwitchFaultKnown

Inv == /\ ClockInv /\ DriveInv /\ FrameInv /\ LinkInv /\ SamplesInv /\ SwitchInv
       /\ missed \in Nat

-----------------------------------------------------------------------------
(* The constants, one by one.                                              *)
LEMMA Constants ==
  /\ LIST \in Nat \ {0} /\ PI_FRAME_SIZE \in Nat \ {0} /\ PI_CONN_TOUT \in Nat \ {0}
  /\ TuTime \in Nat /\ MuDuTime \in Nat
  /\ DacSlot \in 0..(LIST - 1) /\ RemoteSlot \in 0..(LIST - 1)
  /\ DriveSlot \in 0..(LIST - 1) /\ DacSlot # RemoteSlot
  /\ "mu" \in Contacts /\ "du" \in Contacts
  BY BoardAssumption

LEMMA InvTypes == Inv => TypeOK
  BY DEF Inv, ClockInv, DriveInv, FrameInv, LinkInv, SamplesInv, SwitchInv, TypeOK

(* A part holds as long as its variables are left alone.                   *)
LEMMA PartsKept ==
  /\ ClockInv /\ UNCHANGED <<tick, due>> => ClockInv'
  /\ DriveInv /\ UNCHANGED drive => DriveInv'
  /\ FrameInv /\ UNCHANGED frame => FrameInv'
  /\ LinkInv /\ UNCHANGED link => LinkInv'
  /\ SwitchInv /\ UNCHANGED <<MuDuDef, switch>> => SwitchInv'
  /\ SamplesInv /\ UNCHANGED <<DiscrIn, samples>> => SamplesInv'
  BY DEF ClockInv, DriveInv, FrameInv, LinkInv, SwitchInv, SamplesInv, BusOwned,
         SwitchFaultKnown, drive, frame, link, switch, samples

(* The protections may only take the fault of the switch away.             *)
LEMMA SwitchStays == ASSUME SwitchInv, SwitchKept PROVE SwitchInv'
<1>1. MuDuDef' = (MuDuDef /\ ~TestCamera) /\ UNCHANGED switch
  BY DEF SwitchKept, ProtectionsUpdate
<1>2. MuDuDef' \in BOOLEAN /\ (MuDuDef' => MuDuDef)
  BY <1>1, Zenon
<1> QED BY <1>1, <1>2 DEF SwitchInv, SwitchFaultKnown, switch

(* The tick after this one.                                                *)
LEMMA NextTick ==
  ASSUME NEW t \in 0..(LIST - 1)
  PROVE  /\ (t + 1) % LIST \in 0..(LIST - 1)
         /\ (t + 1) % LIST = IF t = LIST - 1 THEN 0 ELSE t + 1
<1>1. LIST \in Nat \ {0}
  BY Constants
<1>2. CASE t = LIST - 1
  BY <1>1, <1>2
<1>3. CASE t # LIST - 1
  BY <1>1, <1>3
<1> QED BY <1>1, <1>2, <1>3

(* A call of PiUpdate, whatever else it does, ends the tick.               *)
LEMMA EndOfTickEffect ==
  ASSUME ClockInv, EndOfTick
  PROVE  /\ tick' = IF tick = LIST - 1 THEN 0 ELSE tick + 1
         /\ ClockInv'
         /\ due' = "Pi" => tick' # DacSlot /\ tick' # RemoteSlot
<1>1. tick \in 0..(LIST - 1)
  BY DEF ClockInv
<1> QED BY <1>1, NextTick DEF EndOfTick, DueAt, ClockInv

(* The timer of the link.                                                  *)
LEMMA LinkTimerEffect ==
  ASSUME NEW timer \in 0..PI_CONN_TOUT, NEW connected \in BOOLEAN,
         LinkTimer(timer, connected)
  PROVE  /\ ConnTimer' \in 0..PI_CONN_TOUT /\ Connect' \in BOOLEAN
         /\ Connect' => connected /\ ConnTimer' = timer + 1
<1>1. Connect' = (connected /\ timer < PI_CONN_TOUT)
  BY DEF LinkTimer
<1>2. ConnTimer' = IF timer < PI_CONN_TOUT THEN timer + 1 ELSE timer
  BY DEF LinkTimer
<1>3. ConnTimer' \in 0..PI_CONN_TOUT
  BY <1>2, Constants
<1>4. Connect' \in BOOLEAN
  BY <1>1, Zenon
<1>5. Connect' <=> connected /\ timer < PI_CONN_TOUT
  BY <1>1, Zenon
<1> QED BY <1>2, <1>3, <1>4, <1>5

(* A frame starts it.                                                      *)
LEMMA LinkRestarted ==
  ASSUME LinkTimer(0, TRUE)
  PROVE  ConnTimer' = 1 /\ Connect' = TRUE /\ 1 \in 0..PI_CONN_TOUT
<1>1. 0 < PI_CONN_TOUT
  BY Constants
<1>2. Connect' = TRUE
  BY <1>1, Zenon DEF LinkTimer
<1>3. ConnTimer' = 1
  BY <1>1 DEF LinkTimer
<1> QED BY <1>1, <1>2, <1>3, Constants

(* The end of an exchange.                                                 *)
LEMMA ReleaseEffect ==
  ASSUME FrameInv, Release
  PROVE  FrameInv' /\ State' = 0
<1>1. CsAtBusy' \in BOOLEAN /\ ~CsAtBusy' /\ State' = 0
  BY Zenon DEF Release
<1>2. UNCHANGED <<Counter, spi>>
  BY DEF Release
<1> QED BY <1>1, <1>2 DEF FrameInv, BusOwned

(* What a waiting PiUpdate does to the link.                               *)
LEMMA WaitingEffect ==
  ASSUME LinkInv, Waiting
  PROVE  /\ LinkInv' /\ DiscrIn' = DiscrIn /\ shown' = shown
         /\ ConnTimer' = IF ConnTimer < PI_CONN_TOUT THEN ConnTimer + 1 ELSE ConnTimer
         /\ Connect' => Connect
<1>1. /\ ConnTimer \in 0..PI_CONN_TOUT /\ Connect \in BOOLEAN
      /\ age \in 0..(PI_CONN_TOUT + 1) /\ PI_CONN_TOUT \in Nat
  BY Constants DEF LinkInv
<1>2. LinkTimer(ConnTimer, Connect)
  BY DEF Waiting
<1>3. /\ ConnTimer' \in 0..PI_CONN_TOUT /\ Connect' \in BOOLEAN
      /\ Connect' => Connect /\ ConnTimer' = ConnTimer + 1
  BY <1>1, <1>2, LinkTimerEffect
<1>4. age' = IF age <= PI_CONN_TOUT THEN age + 1 ELSE age
  BY DEF Waiting, Older
<1>5. age' \in 0..(PI_CONN_TOUT + 1)
  BY <1>1, <1>4
<1>6. Connect' => age' <= ConnTimer'
  BY <1>1, <1>3, <1>4 DEF LinkInv
<1>7. LinkInv'
  BY <1>3, <1>5, <1>6 DEF LinkInv
<1> QED BY <1>2, <1>3, <1>7 DEF Waiting, LinkTimer

-----------------------------------------------------------------------------
LEMMA InitInv == Init => Inv
<1> SUFFICES ASSUME Init PROVE Inv
  OBVIOUS
<1>1. inputs \in [Contacts -> [timer : 0..(TuTime + 1), output : BOOLEAN]]
  BY Constants DEF Init
<1>2. /\ supply \in BOOLEAN /\ stopped \in BOOLEAN
      /\ Connect \in BOOLEAN /\ CsAtBusy \in BOOLEAN
      /\ MuDuInput \in BOOLEAN /\ MuDuDef \in BOOLEAN
      /\ mudustatefault \in BOOLEAN /\ mudustatedefect \in BOOLEAN
      /\ shown \in BOOLEAN /\ TestCamera \in BOOLEAN
  BY Zenon DEF Init
<1>3. ClockInv
  BY Constants DEF Init, ClockInv, DueAt
<1>4. FrameInv
  BY <1>2, Constants DEF Init, FrameInv, BusOwned
<1>5. LinkInv
  BY <1>2, Constants DEF Init, LinkInv
<1>6. SwitchInv
  BY <1>2, Constants DEF Init, SwitchInv, SwitchFaultKnown
<1>7. SamplesInv
  BY <1>1, <1>2, Constants DEF Init, SamplesInv, Periods
<1>8. missed \in Nat
  BY DEF Init
<1> QED BY <1>2, <1>3, <1>4, <1>5, <1>6, <1>7, <1>8 DEF Inv, DriveInv
-----------------------------------------------------------------------------
(* The analogue output takes the bus only from a board not selected.       *)
LEMMA DacStep == ASSUME Inv, DAC7513_Update PROVE Inv'
<1>1. FrameInv'
  BY DEF Inv, FrameInv, BusOwned, DAC7513_Update, DacFree
<1>2. ClockInv'
  BY DEF Inv, ClockInv, DAC7513_Update
<1>3. missed' \in Nat
  BY DEF Inv, DAC7513_Update
<1>4. SwitchInv'
  BY SwitchStays DEF Inv, DAC7513_Update, SwitchKept
<1> QED BY <1>1, <1>2, <1>3, <1>4, PartsKept DEF Inv, DAC7513_Update, link

(* PiUpdate: whether held, waiting or at the end of a frame.               *)
LEMMA PiSteps ==
  ASSUME Inv,
         \/ PiHeld \/ PiBegin \/ PiByte \/ PiGap \/ PiReject
         \/ \E on \in SUBSET Contacts, sound \in BOOLEAN : PiAccept(on, sound)
  PROVE  Inv'
<1>1. EndOfTick
  BY DEF PiHeld, PiBegin, PiByte, PiGap, PiReject, PiAccept
<1>2. ClockInv' /\ DriveInv' /\ SwitchInv' /\ missed' \in Nat
  BY <1>1, EndOfTickEffect, PartsKept, SwitchStays DEF Inv, EndOfTick, SwitchKept
<1>3. FrameInv' /\ LinkInv' /\ SamplesInv'
  <2>1. CASE PiHeld
    <3>1. LinkInv'
      BY <2>1, Constants DEF Inv, LinkInv, PiHeld
    <3> QED BY <2>1, <3>1, PartsKept DEF Inv, PiHeld, EndOfTick, samples
  <2>2. CASE PiBegin \/ PiByte \/ PiGap
    <3>1. LinkInv' /\ SamplesInv'
      BY <1>1, <2>2, WaitingEffect, PartsKept
      DEF Inv, PiBegin, PiByte, PiGap, Quietly, EndOfTick, samples
    <3>2. ASSUME PiBegin PROVE FrameInv'
      BY <3>2, Constants DEF Inv, FrameInv, BusOwned, PiBegin
    <3>3. ASSUME PiByte PROVE FrameInv'
      <4>1. State = 1 /\ Counter \in 0..(PI_FRAME_SIZE + 1) /\ Counter <= PI_FRAME_SIZE
        BY <3>3 DEF Inv, FrameInv, PiByte
      <4>2. Counter' = Counter + 1 /\ State' = IF Counter = PI_FRAME_SIZE THEN 2 ELSE 1
        BY <3>3 DEF PiByte, AfterBytes
      <4>3. CsAtBusy /\ UNCHANGED <<CsAtBusy, spi>>
        BY <3>3, <4>1 DEF Inv, FrameInv, PiByte
      <4> QED BY <4>1, <4>2, <4>3, Constants DEF Inv, FrameInv, BusOwned
    <3>4. ASSUME PiGap PROVE FrameInv'
      BY <3>4 DEF Inv, FrameInv, BusOwned, PiGap
    <3> QED BY <2>2, <3>1, <3>2, <3>3, <3>4
  <2>3. CASE PiReject
    <3>1. FrameInv'
      BY <2>3, ReleaseEffect DEF Inv, PiReject
    <3>2. period' \in Periods
      BY <2>3 DEF Inv, SamplesInv, PiReject, Missing, Periods
    <3> QED BY <2>3, <3>1, <3>2, WaitingEffect DEF Inv, SamplesInv, PiReject, EndOfTick
  <2>4. ASSUME NEW on \in SUBSET Contacts, NEW sound \in BOOLEAN, PiAccept(on, sound)
        PROVE  FrameInv' /\ LinkInv' /\ SamplesInv'
    <3>1. FrameInv'
      BY <2>4, ReleaseEffect DEF Inv, PiAccept
    <3>2. ConnTimer' \in 0..PI_CONN_TOUT /\ Connect' \in BOOLEAN
      BY <2>4, LinkRestarted, Zenon DEF PiAccept
    <3>3. LinkInv'
      BY <2>4, <3>2, Constants DEF LinkInv, PiAccept
    <3>4. shown' \in BOOLEAN
      BY <2>4, Zenon DEF PiAccept
    <3>5. period' \in Periods
      BY <2>4 DEF PiAccept, Periods
    <3> QED BY <2>4, <3>1, <3>3, <3>4, <3>5 DEF Inv, SamplesInv, PiAccept, EndOfTick
  <2> QED BY <2>1, <2>2, <2>3, <2>4
<1> QED BY <1>2, <1>3 DEF Inv

(* The switch is read, or not.                                             *)
LEMMA ReadSwitchEffect ==
  ASSUME SwitchInv, NEW mu \in BOOLEAN, NEW du \in BOOLEAN, ReadSwitch(mu, du)
  PROVE  SwitchInv'
<1>1. CASE SwitchKept
  BY <1>1, SwitchStays
<1>4. CASE TestCamera /\ SwitchIgnored
  <2>1. /\ mudustatefault' = FALSE /\ mudustatedefect' = FALSE
        /\ UNCHANGED <<MuDuInput, MuDuDefTimer>>
    BY <1>4 DEF SwitchIgnored
  <2>2. MuDuDef' = FALSE
    BY <1>4, Zenon DEF SwitchIgnored, ProtectionsUpdate
  <2> QED BY <2>1, <2>2 DEF SwitchInv, SwitchFaultKnown
<1>2. CASE SwitchAt(mu)
  <2>1. /\ MuDuDef' = (MuDuDef /\ mudustatefault) /\ mudustatedefect' = FALSE
        /\ mudustatefault' = mudustatefault /\ MuDuInput' = mu
    BY <1>2 DEF SwitchAt
  <2>2. /\ MuDuDef' \in BOOLEAN /\ mudustatedefect' \in BOOLEAN
        /\ mudustatefault' \in BOOLEAN /\ MuDuInput' \in BOOLEAN
        /\ MuDuDef' => mudustatefault'
    BY <2>1, Zenon DEF SwitchInv
  <2>3. MuDuDefTimer' \in 0..MuDuTime
    BY <1>2, Constants DEF SwitchAt
  <2> QED BY <2>2, <2>3, Zenon DEF SwitchInv, SwitchFaultKnown
<1>3. CASE SwitchUnclear(mu)
  <2>1. MuDuDefTimer' \in 0..MuDuTime
    BY <1>3, Constants DEF SwitchUnclear, SwitchInv
  <2>2. CASE UNCHANGED <<MuDuInput, MuDuDef, mudustatefault, mudustatedefect>>
    BY <2>1, <2>2 DEF SwitchInv, SwitchFaultKnown
  <2>3. CASE /\ MuDuInput' = FALSE /\ MuDuDef' = TRUE /\ mudustatedefect' = mu
             /\ mudustatefault' = (mudustatefault \/ ~mu)
    <3>1. mudustatefault' \/ mudustatedefect'
      BY <2>3, Zenon
    <3>2. /\ MuDuInput' \in BOOLEAN /\ MuDuDef' \in BOOLEAN
          /\ mudustatefault' \in BOOLEAN /\ mudustatedefect' \in BOOLEAN
      BY <2>3, Zenon
    <3> QED BY <2>1, <3>1, <3>2, Zenon DEF SwitchInv, SwitchFaultKnown
  <2> QED BY <1>3, <2>2, <2>3, Zenon DEF SwitchUnclear
<1> QED BY <1>1, <1>2, <1>3, <1>4, Zenon DEF ReadSwitch

LEMMA RemoteStep == ASSUME Inv, RemoteControl PROVE Inv'
<1>1. ClockInv'
  BY DEF Inv, ClockInv, RemoteControl
<1>2. period' \in Periods /\ doubts' \in 0..(TuTime + 1)
  BY Constants DEF Inv, SamplesInv, RemoteControl, Sampled, Periods, samples
<1>3. DiscrIn' = DiscrIn /\ UNCHANGED <<drive, frame, link, missed>>
  BY DEF RemoteControl, link
<1>4. SwitchInv' /\ shown' \in BOOLEAN
      /\ inputs' \in [Contacts -> [timer : 0..(TuTime + 1), output : BOOLEAN]]
  <2>1. CASE ~Connect
    BY <2>1, SwitchStays DEF Inv, SamplesInv, RemoteControl, samples
  <2>2. CASE Connect
    <3>1. inputs' = [c \in Contacts |-> DigitalInputUpdate(inputs[c], c \in DiscrIn)]
      BY <2>2 DEF RemoteControl
    <3>2. inputs' \in [Contacts -> [timer : 0..(TuTime + 1), output : BOOLEAN]]
      <4>1. ASSUME NEW c \in Contacts
            PROVE  DigitalInputUpdate(inputs[c], c \in DiscrIn)
                     \in [timer : 0..(TuTime + 1), output : BOOLEAN]
        <5>1. inputs[c] \in [timer : 0..(TuTime + 1), output : BOOLEAN]
          BY DEF Inv, SamplesInv
        <5>2. CASE c \in DiscrIn
          BY <5>1, <5>2, Constants DEF DigitalInputUpdate
        <5>3. CASE c \notin DiscrIn
          BY <5>1, <5>3, Constants DEF DigitalInputUpdate
        <5> QED BY <5>2, <5>3
      <4> QED BY <3>1, <4>1
    <3>3. inputs["mu"].output' \in BOOLEAN /\ inputs["du"].output' \in BOOLEAN
      BY <3>2, Constants
    <3>4. SwitchInv'
      BY <2>2, <3>3, ReadSwitchEffect DEF Inv, RemoteControl
    <3>5. shown' \in BOOLEAN
      BY <2>2, Zenon DEF RemoteControl, Sampled
    <3> QED BY <3>2, <3>4, <3>5
  <2> QED BY <2>1, <2>2
<1>5. SamplesInv'
  BY <1>2, <1>3, <1>4 DEF Inv, SamplesInv
<1> QED BY <1>1, <1>3, <1>4, <1>5, PartsKept DEF Inv

(* The drive, the supply and the camera test.                              *)
LEMMA OtherSteps ==
  ASSUME Inv, \/ Start \/ Stop \/ ProtectionsClear
              \/ PowerLost \/ PowerBack \/ CameraWritten
  PROVE  Inv'
<1>1. ASSUME Start PROVE Inv'
  <2>1. SwitchInv'
    BY <1>1 DEF Inv, SwitchInv, SwitchFaultKnown, Start
  <2> QED BY <1>1, <2>1, PartsKept DEF Inv, DriveInv, Start, link
<1>2. ASSUME Stop PROVE Inv'
  BY <1>2, PartsKept, SwitchStays DEF Inv, DriveInv, Stop, link
<1>3. ASSUME ProtectionsClear PROVE Inv'
  <2>1. SwitchInv'
    BY <1>3 DEF Inv, SwitchInv, SwitchFaultKnown, ProtectionsClear
  <2> QED BY <1>3, <2>1, PartsKept DEF Inv, DriveInv, ProtectionsClear, link
<1>4. ASSUME PowerLost PROVE Inv'
  <2>1. period' \in Periods
    BY <1>4 DEF Inv, SamplesInv, PowerLost, Missing, Periods
  <2>2. SamplesInv'
    BY <1>4, <2>1 DEF Inv, SamplesInv, PowerLost, link
  <2> QED BY <1>4, <2>2, PartsKept, SwitchStays DEF Inv, DriveInv, PowerLost, link
<1>5. ASSUME PowerBack PROVE Inv'
  BY <1>5, PartsKept, SwitchStays DEF Inv, DriveInv, PowerBack, link
<1>6. ASSUME CameraWritten PROVE Inv'
  <2>1. DriveInv'
    BY <1>6, Zenon DEF Inv, DriveInv, CameraWritten
  <2> QED BY <1>6, <2>1, PartsKept DEF Inv, CameraWritten, link
<1> QED BY <1>1, <1>2, <1>3, <1>4, <1>5, <1>6

(* The invariant is inductive.                                             *)
LEMMA NextInv == Inv /\ [Next]_vars => Inv'
<1> SUFFICES ASSUME Inv, [Next]_vars PROVE Inv'
  OBVIOUS
<1>1. CASE UNCHANGED vars
  BY <1>1, PartsKept DEF Inv, vars, link
<1>2. CASE Next
  BY <1>2, DacStep, PiSteps, RemoteStep, OtherSteps DEF Next, Tasks
<1> QED BY <1>1, <1>2

(***************************************************************************)
(* The types of all variables, for every number of contacts, place of the  *)
(* tasks and length of the times.                                          *)
(***************************************************************************)
THEOREM BoardTypesHold == Spec => []TypeOK
<1>1. Inv => TypeOK
  BY InvTypes
<1> QED BY <1>1, InitInv, NextInv, PTL DEF Spec

(***************************************************************************)
(* The shared bus has one user (dac7513.c 12, serial_communication.c 99).  *)
(***************************************************************************)
THEOREM BusHasOneUser == Spec => []BusOwned
<1>1. Inv => BusOwned
  BY DEF Inv, FrameInv
<1> QED BY <1>1, InitInv, NextInv, PTL DEF Spec

(***************************************************************************)
(* A link is not believed for longer than its time                         *)
(* (serial_communication.c 174).                                           *)
(***************************************************************************)
THEOREM LinkIsTimed == Spec => []ConnectTimed
<1>1. Inv => ConnectTimed
  BY Constants DEF Inv, LinkInv, ConnectTimed
<1> QED BY <1>1, InitInv, NextInv, PTL DEF Spec

(***************************************************************************)
(* A switch that is shown at fault has the cause of it latched             *)
(* (interface.c 1426).                                                     *)
(***************************************************************************)
THEOREM SwitchFaultHasCause == Spec => []SwitchFaultKnown
<1>1. Inv => SwitchFaultKnown
  BY DEF Inv, SwitchInv
<1> QED BY <1>1, InitInv, NextInv, PTL DEF Spec

(***************************************************************************)
(* The post in command changes only under a drive at rest, and never in    *)
(* the camera test (interface.c 1424).                                     *)
(***************************************************************************)
THEOREM SwitchChangesAtRest == Spec => SwitchAtRest
<1>1. ASSUME Next, MuDuInput' # MuDuInput
      PROVE  stopped /\ ~TestCamera
  <2>1. CASE RemoteControl
    BY <1>1, <2>1 DEF RemoteControl, ReadSwitch, SwitchKept, SwitchIgnored, switch
  <2>2. CASE ~RemoteControl
    BY <1>1, <2>2
    DEF Next, Tasks, DAC7513_Update, PiHeld, PiBegin, PiByte, PiGap, PiReject, PiAccept,
        EndOfTick, Start, Stop, ProtectionsClear, PowerLost, PowerBack, CameraWritten,
        SwitchKept, switch
  <2> QED BY <2>1, <2>2
<1>2. [Next]_vars => [MuDuInput' # MuDuInput => stopped /\ ~TestCamera]_vars
  BY <1>1
<1> QED BY <1>2, PTL DEF Spec, SwitchAtRest
-----------------------------------------------------------------------------
(* The place in the exchange: the calls of PiUpdate since it began.        *)
Place == CASE State = 0 -> 0
           [] State = 1 -> Counter + 1
           [] State = 2 -> PI_FRAME_SIZE + 2
           [] State = 3 -> PI_FRAME_SIZE + 3

(* The calls since the inputs were sampled, and until the analogue output. *)
Since == IF tick > RemoteSlot \/ (tick = RemoteSlot /\ due # "Remote")
         THEN tick - RemoteSlot ELSE tick + LIST - RemoteSlot
Until == IF due = "Dac" THEN 0
         ELSE IF tick < DacSlot THEN DacSlot - tick ELSE DacSlot + LIST - tick

(* As long as nothing sound has shown the contact closed, each sample of   *)
(* it that counts is a doubtful one: what is believed was accepted in this *)
(* period, or the exchange that goes on is the first since the sample.     *)
FilterInv ==
  /\ period = "sound" /\ "mu" \in DiscrIn => shown
  /\ ~shown => /\ inputs["mu"].timer <= doubts
               /\ inputs["mu"].output => doubts > TuTime
  /\ period = "none" /\ Connect => supply /\ Since <= Place

(* With 40 ticks and exchanges of 9 the analogue output finds the bus free *)
(* after 2 * (Place + Until) % 9 further turns.                            *)
DacInv ==
  /\ missed + ((2 * (Place + Until)) % ExchangeTicks) < ExchangeTicks
  /\ ~supply => missed = 0

(* How the exchange and the clock advance together.                        *)
LEMMA PlaceTyped == FrameInv => Place \in 0..(PI_FRAME_SIZE + 3)
<1> SUFFICES ASSUME FrameInv PROVE Place \in 0..(PI_FRAME_SIZE + 3)
  OBVIOUS
<1>1. State \in {0, 1, 2, 3}
  BY DEF FrameInv
<1> QED BY <1>1, Constants DEF FrameInv, Place

LEMMA PlaceKept == UNCHANGED <<State, Counter>> => Place' = Place
  BY DEF Place

LEMMA PlaceAdvances ==
  ASSUME FrameInv, PiBegin \/ PiByte \/ PiGap
  PROVE  Place' = Place + 1 /\ Place <= PI_FRAME_SIZE + 2
<1>1. CASE PiBegin
  BY <1>1, Constants DEF PiBegin, Place
<1>2. CASE PiByte
  BY <1>2, Constants DEF PiByte, AfterBytes, Place, FrameInv
<1>3. CASE PiGap
  BY <1>3, Constants DEF PiGap, Place
<1> QED BY <1>1, <1>2, <1>3

LEMMA PlaceAtEnd ==
  ASSUME FrameInv, State = 3, Release
  PROVE  Place = PI_FRAME_SIZE + 3 /\ Place' = 0
  BY DEF Place, Release

LEMMA SinceTyped == ClockInv => Since \in 0..LIST
  BY Constants DEF ClockInv, Since

LEMMA SinceAdvances ==
  ASSUME ClockInv, EndOfTick
  PROVE  Since' = Since + 1
<1>1. /\ tick \in 0..(LIST - 1) /\ due = "Pi"
      /\ tick' = IF tick = LIST - 1 THEN 0 ELSE tick + 1
      /\ tick' = RemoteSlot => due' = "Remote"
  BY EndOfTickEffect, Constants DEF ClockInv, EndOfTick, DueAt
<1>2. due' = "Remote" => tick' = RemoteSlot
  BY EndOfTickEffect DEF ClockInv
<1> QED BY <1>1, <1>2, Constants DEF Since

LEMMA UntilAdvances ==
  ASSUME ClockInv, EndOfTick
  PROVE  Until \in 1..LIST /\ Until' = Until - 1
<1>1. /\ tick \in 0..(LIST - 1) /\ due = "Pi"
      /\ tick' = IF tick = LIST - 1 THEN 0 ELSE tick + 1
      /\ tick' = DacSlot => due' = "Dac"
      /\ due' = "Dac" => tick' = DacSlot
  BY EndOfTickEffect DEF ClockInv, EndOfTick, DueAt
<1> QED BY <1>1, Constants DEF Until

-----------------------------------------------------------------------------
(* The debouncing counts doubtful samples only, if an exchange fits        *)
(* between two samples.                                                    *)

FrameEachPeriod == ExchangeTicks <= LIST

LEMMA InitFilter == Init => FilterInv
  BY Constants DEF Init, FilterInv

(* Nothing but the place of a waiting exchange moves.                      *)
LEMMA FilterWaits ==
  ASSUME Inv, FilterInv, PiBegin \/ PiByte \/ PiGap
  PROVE  FilterInv'
<1>1. EndOfTick /\ Quietly
  BY DEF PiBegin, PiByte, PiGap
<1>2. Place' = Place + 1 /\ Place \in 0..(PI_FRAME_SIZE + 3)
  BY PlaceAdvances, PlaceTyped DEF Inv
<1>3. Since' = Since + 1 /\ Since \in 0..LIST
  BY <1>1, SinceAdvances, SinceTyped DEF Inv
<1>4. UNCHANGED <<shown, DiscrIn, period, doubts, inputs, supply>>
  BY <1>1, WaitingEffect DEF Inv, Quietly, EndOfTick, drive
<1>5. Connect' => Connect
  BY <1>1, WaitingEffect DEF Inv, Quietly
<1>6. Since <= Place => Since' <= Place'
  BY <1>2, <1>3, Constants
<1> QED BY <1>4, <1>5, <1>6 DEF FilterInv

(* A frame ends.                                                           *)
LEMMA FilterAtEnd ==
  ASSUME Inv, FilterInv,
         \/ PiReject
         \/ \E on \in SUBSET Contacts, sound \in BOOLEAN : PiAccept(on, sound)
  PROVE  FilterInv'
<1>1. CASE PiReject
  <2>1. UNCHANGED <<shown, DiscrIn, doubts, inputs>>
    BY <1>1, WaitingEffect DEF Inv, PiReject, EndOfTick
  <2>2. period' # "none" /\ (period' = "sound" => period = "sound")
    BY <1>1 DEF PiReject, Missing
  <2> QED BY <2>1, <2>2 DEF FilterInv
<1>2. ASSUME NEW on \in SUBSET Contacts, NEW sound \in BOOLEAN, PiAccept(on, sound)
      PROVE  FilterInv'
  <2>1. /\ DiscrIn' = on /\ UNCHANGED <<inputs, doubts>>
        /\ period' = IF sound THEN "sound" ELSE "doubtful"
    BY <1>2 DEF PiAccept, EndOfTick
  <2>2. shown' <=> shown \/ (sound /\ "mu" \in on)
    BY <1>2, Zenon DEF PiAccept
  <2> QED BY <2>1, <2>2 DEF FilterInv
<1> QED BY <1>1, <1>2

(* A sample of what was accepted before the sample before is never taken.  *)
LEMMA SampleIsOfThisPeriod ==
  ASSUME FrameEachPeriod, Inv, FilterInv, RemoteControl, Connect
  PROVE  period \in {"sound", "doubtful"}
<1>1. Since = LIST /\ Place \in 0..(PI_FRAME_SIZE + 3)
  BY PlaceTyped, Constants DEF Inv, ClockInv, RemoteControl, Since
<1>2. ~(Since <= Place)
  BY <1>1, Constants DEF FrameEachPeriod, ExchangeTicks
<1> QED BY <1>2 DEF FilterInv, Inv, SamplesInv, Periods

(* The timer of an input goes up with the doubts.                          *)
LEMMA DoubtfulSample ==
  ASSUME FrameEachPeriod, Inv, FilterInv, RemoteControl, Connect,
         ~shown, "mu" \in DiscrIn
  PROVE  /\ inputs'["mu"].timer <= doubts'
         /\ inputs'["mu"].output => doubts' > TuTime
<1>1. period = "doubtful"
  BY SampleIsOfThisPeriod DEF FilterInv
<1>2. doubts' = IF doubts <= TuTime THEN doubts + 1 ELSE doubts
  BY <1>1, Zenon DEF RemoteControl, Sampled
<1>3. /\ inputs["mu"].timer \in 0..(TuTime + 1) /\ doubts \in 0..(TuTime + 1)
      /\ inputs["mu"] \in [timer : 0..(TuTime + 1), output : BOOLEAN]
      /\ TuTime \in Nat
  BY Constants DEF Inv, SamplesInv
<1>4. inputs'["mu"] = DigitalInputUpdate(inputs["mu"], "mu" \in DiscrIn)
  BY Constants DEF RemoteControl
<1>5. CASE inputs["mu"].output \/ inputs["mu"].timer >= TuTime
  <2>1. inputs'["mu"].timer = 0
    BY <1>4, <1>5 DEF DigitalInputUpdate
  <2>2. doubts >= TuTime
    BY <1>3, <1>5 DEF FilterInv
  <2> QED BY <1>2, <1>3, <2>1, <2>2
<1>6. CASE ~(inputs["mu"].output \/ inputs["mu"].timer >= TuTime)
  <2>1. inputs'["mu"].timer = inputs["mu"].timer + 1 /\ ~inputs'["mu"].output
    BY <1>3, <1>4, <1>6 DEF DigitalInputUpdate
  <2> QED BY <1>2, <1>3, <1>6, <2>1 DEF FilterInv
<1> QED BY <1>5, <1>6

LEMMA FilterSamples ==
  ASSUME FrameEachPeriod, Inv, FilterInv, RemoteControl
  PROVE  FilterInv'
<1>1. /\ UNCHANGED <<DiscrIn, supply, Connect>> /\ Place' = Place
      /\ due' = "Pi" /\ tick' = tick /\ tick = RemoteSlot
  BY PlaceKept DEF Inv, ClockInv, RemoteControl, drive, frame, link
<1>2. Since' = 0 /\ Place \in 0..(PI_FRAME_SIZE + 3)
  BY <1>1, PlaceTyped, Constants DEF Inv, Since
<1>3. CASE ~Connect
  <2>1. UNCHANGED samples
    BY <1>3 DEF RemoteControl
  <2> QED BY <1>1, <1>3, <2>1 DEF FilterInv, samples
<1>4. CASE Connect
  <2>1. shown' <=> shown /\ "mu" \in DiscrIn
    BY <1>4, Zenon DEF RemoteControl, Sampled
  <2>2. period' = IF supply THEN "none" ELSE "doubtful"
    BY <1>4 DEF RemoteControl, Sampled
  <2>3. ~shown' => /\ inputs'["mu"].timer <= doubts'
                   /\ inputs'["mu"].output => doubts' > TuTime
    <3>1. CASE "mu" \notin DiscrIn
      <4>1. inputs'["mu"] = DigitalInputUpdate(inputs["mu"], "mu" \in DiscrIn)
        BY <1>4, Constants DEF RemoteControl
      <4>2. doubts' = 0
        BY <1>4, <3>1, Zenon DEF RemoteControl, Sampled
      <4> QED BY <3>1, <4>1, <4>2 DEF DigitalInputUpdate
    <3>2. CASE "mu" \in DiscrIn
      BY <1>4, <2>1, <3>2, DoubtfulSample
    <3> QED BY <3>1, <3>2
  <2> QED BY <1>1, <1>2, <2>2, <2>3 DEF FilterInv
<1> QED BY <1>3, <1>4

LEMMA NextFilter ==
  ASSUME FrameEachPeriod
  PROVE  Inv /\ FilterInv /\ [Next]_vars => FilterInv'
<1> SUFFICES ASSUME Inv, FilterInv, [Next]_vars PROVE FilterInv'
  OBVIOUS
<1>1. ASSUME UNCHANGED <<samples, DiscrIn, Connect, State, Counter>>,
             supply => supply', Since' = Since \/ ~supply
      PROVE  FilterInv'
  BY <1>1, PlaceKept DEF FilterInv, samples
<1>2. CASE UNCHANGED vars
  BY <1>1, <1>2 DEF vars, link, frame, drive, Since
<1>3. CASE PiHeld
  BY <1>1, <1>3 DEF PiHeld, EndOfTick, drive, frame, samples
<1>4. CASE DAC7513_Update
  <2>1. Since' = Since
    BY <1>4 DEF DAC7513_Update, Since
  <2> QED BY <1>1, <1>4, <2>1 DEF DAC7513_Update, link, drive
<1>5. CASE Start \/ Stop \/ ProtectionsClear \/ PowerBack \/ CameraWritten
  BY <1>1, <1>5 DEF Start, Stop, ProtectionsClear, PowerBack, CameraWritten,
                    link, frame, drive, Since
<1>6. CASE PowerLost
  <2>1. period' # "none" /\ (period' = "sound" => period = "sound")
    BY <1>6 DEF PowerLost, Missing
  <2> QED BY <1>6, <2>1 DEF PowerLost, FilterInv, link
<1> QED BY <1>2, <1>3, <1>4, <1>5, <1>6, FilterWaits, FilterAtEnd, FilterSamples
        DEF Next, Tasks

(***************************************************************************)
(* An input that no sound frame has shown closed is on only after more     *)
(* than TuTime doubtful samples (serial_communication.c 146, interface.c   *)
(* 2030), however many damaged frames are accepted, frames rejected and    *)
(* supplies lost: for every length of the debouncing and of the time of    *)
(* the link, if an exchange is no longer than the period of the samples.   *)
(***************************************************************************)
THEOREM DamagedFramesAreFiltered ==
  ASSUME FrameEachPeriod
  PROVE  Spec => []FalseInputFiltered
<1>1. Inv /\ FilterInv => FalseInputFiltered
  BY DEF FilterInv, FalseInputFiltered
<1> QED BY <1>1, InitInv, NextInv, InitFilter, NextFilter, PTL DEF Spec

-----------------------------------------------------------------------------
(* The analogue output, with the numbers of the code.                      *)

LEMMA TwoRounds == \A n \in Nat : (n + 18) % 9 = n % 9
  OBVIOUS

LEMMA InitDac ==
  ASSUME LIST = 40, PI_FRAME_SIZE = 5
  PROVE  Init => DacInv
<1> SUFFICES ASSUME Init PROVE DacInv
  OBVIOUS
<1>1. Place = 0 /\ Until \in 0..40 /\ missed = 0
  BY Constants DEF Init, Place, Until
<1> QED BY <1>1 DEF DacInv, ExchangeTicks

LEMMA NextDac ==
  ASSUME LIST = 40, PI_FRAME_SIZE = 5
  PROVE  Inv /\ DacInv /\ [Next]_vars => DacInv'
<1> SUFFICES ASSUME Inv, DacInv, [Next]_vars PROVE DacInv'
  OBVIOUS
<1>1. ExchangeTicks = 9 /\ Place \in 0..8 /\ Until \in 0..40 /\ missed \in Nat
  BY PlaceTyped, Constants DEF Inv, ClockInv, ExchangeTicks, Until
<1>2. ASSUME UNCHANGED <<missed, State, Counter, tick, due>>, supply' => supply \/ missed = 0,
             supply => supply' \/ missed' = 0
      PROVE  DacInv'
  <2>1. Place' = Place /\ Until' = Until
    BY <1>2, PlaceKept DEF Until
  <2> QED BY <1>2, <2>1 DEF DacInv, ExchangeTicks
<1>3. CASE DAC7513_Update
  <2>1. Until = 0 /\ Until' = 40 /\ Place' = Place /\ supply' = supply
    BY <1>3, PlaceKept, Constants DEF Inv, ClockInv, DAC7513_Update, Until, drive
  <2>2. (Place = 0) <=> ~CsAtBusy
    BY Constants DEF Inv, FrameInv, Place
  <2>3. missed' = IF Place = 0 \/ ~supply THEN 0 ELSE missed + 1
    BY <1>3, <2>2 DEF DAC7513_Update, DacFree
  <2>4. missed' + ((2 * (Place + 40)) % 9) < 9
    BY <1>1, <2>1, <2>3 DEF DacInv
  <2> QED BY <1>1, <2>1, <2>3, <2>4 DEF DacInv, ExchangeTicks
<1>4. CASE PiHeld
  <2>1. missed' = 0 /\ Place' = Place /\ Until' \in 0..40 /\ ~supply'
    BY <1>4, PlaceKept, EndOfTickEffect, UntilAdvances, Constants
    DEF Inv, DacInv, PiHeld, EndOfTick, frame, drive
  <2>2. \A p \in 0..8, u \in 0..40 : (2 * (p + u)) % 9 \in 0..8
    OBVIOUS
  <2>3. (2 * (Place' + Until')) % 9 \in 0..8
    BY <1>1, <2>1, <2>2
  <2>4. missed' + ((2 * (Place' + Until')) % 9) < 9
    BY <2>1, <2>3
  <2> QED BY <1>1, <2>1, <2>4 DEF DacInv, ExchangeTicks
<1>5. CASE \/ PiBegin \/ PiByte \/ PiGap \/ PiReject
           \/ \E on \in SUBSET Contacts, sound \in BOOLEAN : PiAccept(on, sound)
  <2>1. EndOfTick /\ supply
    BY <1>5 DEF PiBegin, PiByte, PiGap, PiReject, PiAccept
  <2>2. Until \in 1..40 /\ Until' = Until - 1 /\ missed' = missed /\ supply'
    BY <2>1, UntilAdvances DEF Inv, EndOfTick, drive
  <2>3. Place' = Place + 1 \/ (Place = 8 /\ Place' = 0)
    <3>1. CASE PiBegin \/ PiByte \/ PiGap
      BY <3>1, PlaceAdvances DEF Inv
    <3>2. CASE ~(PiBegin \/ PiByte \/ PiGap)
      <4>1. State = 3 /\ Release
        BY <1>5, <3>2 DEF PiReject, PiAccept
      <4> QED BY <4>1, PlaceAtEnd DEF Inv
    <3> QED BY <3>1, <3>2
  <2>4. (2 * (Place' + Until')) % 9 = (2 * (Place + Until)) % 9
    <3>1. CASE Place' = Place + 1
      BY <1>1, <2>2, <3>1
    <3>2. CASE Place = 8 /\ Place' = 0
      <4>1. 2 * (Place + Until) = 2 * (Place' + Until') + 18 /\ 2 * (Place' + Until') \in Nat
        BY <2>2, <3>2
      <4> QED BY <4>1, TwoRounds
    <3> QED BY <2>3, <3>1, <3>2
  <2> QED BY <1>1, <2>2, <2>4 DEF DacInv, ExchangeTicks
<1>6. CASE RemoteControl
  <2>1. Until' = Until /\ Place' = Place /\ missed' = missed /\ supply' = supply
    BY <1>6, PlaceKept DEF RemoteControl, Until, frame, drive
  <2> QED BY <2>1 DEF DacInv, ExchangeTicks
<1>7. CASE PowerLost
  <2>1. missed' = 0 /\ Place' = Place /\ Until' = Until
    BY <1>7, PlaceKept DEF PowerLost, Until, frame
  <2> QED BY <1>1, <2>1 DEF DacInv, ExchangeTicks
<1>8. CASE \/ Start \/ Stop \/ ProtectionsClear \/ PowerBack \/ CameraWritten
           \/ UNCHANGED vars
  BY <1>2, <1>8 DEF Start, Stop, ProtectionsClear, PowerBack, CameraWritten, DacInv,
                    vars, frame, drive
<1> QED BY <1>3, <1>4, <1>5, <1>6, <1>7, <1>8 DEF Next, Tasks

(***************************************************************************)
(* The analogue output finds the bus free in every ninth of its turns at   *)
(* least (dac7513.c 12), with the period of the 50 Hz tasks and the length *)
(* of the frame that the code has: 40 and 5.                               *)
(***************************************************************************)
THEOREM DacIsServed ==
  ASSUME LIST = 40, PI_FRAME_SIZE = 5
  PROVE  Spec => []DacServed
<1>1. Inv /\ DacInv => DacServed
  <2> SUFFICES ASSUME Inv, DacInv PROVE DacServed
    OBVIOUS
  <2>1. Place \in 0..8 /\ Until \in 0..40 /\ missed \in Nat /\ ExchangeTicks = 9
    BY PlaceTyped, Constants DEF Inv, ClockInv, Until, ExchangeTicks
  <2> QED BY <2>1 DEF DacInv, DacServed
<1> QED BY <1>1, InitInv, NextInv, InitDac, NextDac, PTL DEF Spec
==============================================================================
