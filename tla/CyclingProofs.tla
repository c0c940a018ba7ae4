---------------------------- MODULE CyclingProofs ----------------------------
(***************************************************************************)
(* The theorems about Cycling in the list of tasks that Signals runs it in,*)
(* for every delay, every number of cycles ordered and every setting.      *)
(***************************************************************************)
EXTENDS Signals, TLAPS

Zones == {{}, {"closed"}, {"opened"}}

LEMMA Constants ==
  PROGON_DELAY \in Nat /\ STOP_DELAY \in Nat /\ ORDERED \in Nat
  BY CyclingAssumption

(* Every task and every other step leaves the valve and the counter alone  *)
(* but the look of CalcClbCycle and the four of the drive and the operator.*)
LEMMA PlaceAndCounter ==
  ASSUME [Next]_vars
  PROVE  CalcClbCycle \/ Pass \/ CycleReset \/ Calibrate \/ UNCHANGED <<place, counter>>
<1>1. CASE List
  BY <1>1 DEF List, LocalControl, Cycle, BlkSignalization, TsSignalization,
     DiscrInOutTestObserver, Progon, TekModbusParamsUpdate, ProgonModeUpdate, cycling
<1>2. CASE Others
  BY <1>2 DEF Others, Supply, Press, Mark, Master, MenuWrites, Drive, StartOrStop, Obey,
     OrderCycles, Fault, cycling
<1>3. CASE LowPowerControl \/ UNCHANGED vars
  BY <1>3 DEF LowPowerControl, vars, cycling
<1> QED BY <1>1, <1>2, <1>3 DEF Next

-----------------------------------------------------------------------------
(* The counter.  What CalcClbCycle would make of its memory if it looked   *)
(* now agrees with the trips the valve has made; what it has made of it    *)
(* agrees too, as long as nothing happens.  A look at the zone z with the  *)
(* memory d and the count n gives LookedData and LookedCnt.                *)
DataType == [home : Zones, here : BOOLEAN, away : BOOLEAN]
TripType == [home : Zones, away : BOOLEAN, made : Nat]

Memory(z, d) == IF d = NoCycle THEN [home |-> z, here |-> FALSE, away |-> FALSE] ELSE d
Back(z, d) == z = Memory(z, d).home /\ ~Memory(z, d).here
Gone(z, d) == z # Memory(z, d).home /\ Memory(z, d).here

LookedData(known, z, d) ==
  IF ~known THEN NoCycle
  ELSE IF z = {} THEN d
  ELSE IF Back(z, d) THEN [home |-> Memory(z, d).home, here |-> TRUE, away |-> FALSE]
  ELSE IF Gone(z, d) THEN [home |-> Memory(z, d).home, here |-> FALSE, away |-> TRUE]
  ELSE Memory(z, d)
LookedCnt(known, z, d, n) ==
  IF known /\ z # {} /\ Back(z, d) /\ Memory(z, d).away THEN n + 1 ELSE n

(* The memory and the count tell the trip t, with the valve at z.          *)
Agrees(z, t, d, n) ==
  /\ n = t.made
  /\ \/ d = NoCycle /\ t.home = {} /\ ~t.away /\ z = {}
     \/ /\ d.home = t.home /\ d.home # {}
        /\ d.away <=> t.away
        /\ d.here <=> ~t.away
        /\ z # {} => (z = d.home <=> d.here)

CountTypes ==
  /\ Zone \in Zones /\ calibrated \in BOOLEAN /\ changed \in BOOLEAN
  /\ CycleData \in DataType /\ CycleCnt \in Nat /\ trip \in TripType

CountInv ==
  /\ CountTypes
  /\ ~calibrated => Zone = {} /\ trip.home = {}
  /\ Agrees(Zone, trip, LookedData(calibrated, Zone, CycleData),
                        LookedCnt(calibrated, Zone, CycleData, CycleCnt))
  /\ ~changed => /\ Agrees(Zone, trip, CycleData, CycleCnt)
                 /\ ~calibrated => CycleData = NoCycle

(* A second look sees nothing new.                                         *)
LEMMA LookAgain ==
  ASSUME NEW z \in Zones, NEW t \in TripType, NEW d \in DataType, NEW n \in Nat,
         Agrees(z, t, d, n)
  PROVE  LookedData(TRUE, z, d) = d /\ LookedCnt(TRUE, z, d, n) = n
<1>1. CASE z = {}
  BY <1>1 DEF LookedData, LookedCnt
<1>2. CASE z # {}
  <2>1. d.home # {} /\ (z = d.home <=> d.here)
    BY <1>2 DEF Agrees
  <2>2. Memory(z, d) = d
    BY <2>1 DEF Memory, NoCycle
  <2> QED BY <1>2, <2>1, <2>2 DEF LookedData, LookedCnt, Back, Gone
<1> QED BY <1>1, <1>2

(* A look at an end, for the first time.                                   *)
LEMMA FirstLook ==
  ASSUME NEW z \in Zones, z # {}, NEW n \in Nat
  PROVE  /\ LookedData(TRUE, z, NoCycle) = [home |-> z, here |-> TRUE, away |-> FALSE]
         /\ LookedCnt(TRUE, z, NoCycle, n) = n
<1>1. Memory(z, NoCycle) = [home |-> z, here |-> FALSE, away |-> FALSE]
  BY DEF Memory
<1> QED BY <1>1 DEF LookedData, LookedCnt, Back

(* A reset, or ends set anew, with the valve at z.                         *)
LEMMA LookFromNothing ==
  ASSUME NEW z \in Zones, NEW t \in TripType, t.home = z, ~t.away,
         NEW known \in BOOLEAN, known \/ z = {}
  PROVE  Agrees(z, t, LookedData(known, z, NoCycle), LookedCnt(known, z, NoCycle, t.made))
<1>1. CASE z = {}
  BY <1>1 DEF Agrees, LookedData, LookedCnt
<1>2. CASE z # {}
  <2>1. known
    BY <1>2
  <2>2. /\ LookedData(known, z, NoCycle) = [home |-> z, here |-> TRUE, away |-> FALSE]
        /\ LookedCnt(known, z, NoCycle, t.made) = t.made
    BY <1>2, <2>1, FirstLook DEF TripType
  <2> QED BY <1>2, <2>2 DEF Agrees
<1> QED BY <1>1, <1>2

(* The valve leaves an end, or reaches the end z.                          *)
LEMMA LookAfterLeaving ==
  ASSUME NEW z \in Zones, z # {}, NEW t \in TripType, NEW d \in DataType, NEW n \in Nat,
         Agrees(z, t, d, n)
  PROVE  Agrees({}, t, LookedData(TRUE, {}, d), LookedCnt(TRUE, {}, d, n))
  BY DEF Agrees, LookedData, LookedCnt

LEMMA LookAfterReaching ==
  ASSUME NEW z \in Zones, z # {}, NEW t \in TripType, NEW d \in DataType, NEW n \in Nat,
         Agrees({}, t, d, n),
         NEW home, home = IF t.home = {} THEN z ELSE t.home,
         NEW u \in TripType, u.home = home, u.away <=> z # home,
         u.made = IF z = home /\ t.away THEN t.made + 1 ELSE t.made
  PROVE  Agrees(z, u, LookedData(TRUE, z, d), LookedCnt(TRUE, z, d, n))
<1>1. CASE d = NoCycle /\ t.home = {} /\ ~t.away
  <2>1. /\ LookedData(TRUE, z, d) = [home |-> z, here |-> TRUE, away |-> FALSE]
        /\ LookedCnt(TRUE, z, d, n) = n
    BY <1>1, FirstLook
  <2>2. u.home = z /\ ~u.away /\ u.made = n
    BY <1>1 DEF Agrees
  <2> DEFINE seen == LookedData(TRUE, z, d)
  <2>3. seen.home = z /\ seen.here = TRUE /\ seen.away = FALSE
    <3>1. seen = [home |-> z, here |-> TRUE, away |-> FALSE]
      BY <2>1
    <3> HIDE DEF seen
    <3> QED BY <3>1
  <2> HIDE DEF seen
  <2>4. Agrees(z, u, seen, n)
    BY <2>2, <2>3 DEF Agrees
  <2> QED BY <2>1, <2>4 DEF seen
<1>2. CASE /\ d.home = t.home /\ d.home # {}
           /\ d.away <=> t.away
           /\ d.here <=> ~t.away
  <2>1. Memory(z, d) = d
    BY <1>2 DEF Memory, NoCycle
  <2>2. home = d.home /\ n = t.made
    BY <1>2 DEF Agrees
  <2>3. CASE z = home /\ t.away
    BY <1>2, <2>1, <2>2, <2>3 DEF Agrees, LookedData, LookedCnt, Back
  <2>4. CASE z = home /\ ~t.away
    BY <1>2, <2>1, <2>2, <2>4 DEF Agrees, LookedData, LookedCnt, Back, Gone
  <2>5. CASE z # home /\ t.away
    BY <1>2, <2>1, <2>2, <2>5 DEF Agrees, LookedData, LookedCnt, Back, Gone
  <2>6. CASE z # home /\ ~t.away
    BY <1>2, <2>1, <2>2, <2>6 DEF Agrees, LookedData, LookedCnt, Back, Gone
  <2> QED BY <2>3, <2>4, <2>5, <2>6
<1> QED BY <1>1, <1>2 DEF Agrees

LEMMA LookTypes ==
  ASSUME NEW z \in Zones, NEW d \in DataType, NEW n \in Nat, NEW known \in BOOLEAN
  PROVE  LookedData(known, z, d) \in DataType /\ LookedCnt(known, z, d, n) \in Nat
<1>1. Memory(z, d) \in DataType /\ NoCycle \in DataType
  BY DEF Memory, DataType, NoCycle, Zones
<1> QED BY <1>1 DEF LookedData, LookedCnt, DataType

(* What setting both bits makes of a memory.                               *)
LEMMA BitsSet ==
  ASSUME NEW d \in DataType, NEW h \in BOOLEAN, NEW a \in BOOLEAN
  PROVE  [d EXCEPT !.here = h, !.away = a] = [home |-> d.home, here |-> h, away |-> a]
<1> DEFINE r == [d EXCEPT !.here = h, !.away = a]
<1>1. r \in DataType /\ r.home = d.home /\ r.here = h /\ r.away = a
  BY DEF DataType
<1> HIDE DEF r
<1>2. r = [home |-> d.home, here |-> h, away |-> a]
  BY <1>1 DEF DataType
<1> QED BY <1>2 DEF r

(* CalcClbCycle takes the look.                                            *)
LEMMA LookEffect ==
  ASSUME CountInv, CalcClbCycle
  PROVE  /\ CycleData' = LookedData(calibrated, Zone, CycleData)
         /\ CycleCnt' = LookedCnt(calibrated, Zone, CycleData, CycleCnt)
         /\ changed' = FALSE /\ UNCHANGED <<Zone, calibrated, trip>>
<1> DEFINE data == IF CycleData = NoCycle THEN [NoCycle EXCEPT !.home = Zone] ELSE CycleData
           back == Zone = data.home /\ ~data.here
           gone == Zone # data.home /\ data.here
<1>1. data = Memory(Zone, CycleData)
  <2>1. NoCycle \in DataType /\ ~NoCycle.here /\ ~NoCycle.away
    BY DEF NoCycle, DataType, Zones
  <2> DEFINE first == [NoCycle EXCEPT !.home = Zone]
  <2>2. first \in DataType /\ first.home = Zone /\ ~first.here /\ ~first.away
    BY <2>1 DEF DataType, CountInv, CountTypes
  <2> HIDE DEF first
  <2>3. first = [home |-> Zone, here |-> FALSE, away |-> FALSE]
    BY <2>2 DEF DataType
  <2> QED BY <2>3 DEF Memory, first
<1>2. changed' = FALSE /\ UNCHANGED <<Zone, calibrated, trip>>
  BY DEF CalcClbCycle, place
<1>3. CASE ~calibrated
  BY <1>2, <1>3 DEF CalcClbCycle, LookedData, LookedCnt
<1>4. CASE calibrated /\ Zone = {}
  BY <1>2, <1>4 DEF CalcClbCycle, AtAnEnd, LookedData, LookedCnt
<1>5. CASE calibrated /\ Zone # {}
  <2>1. /\ CycleData' = IF back THEN [data EXCEPT !.here = TRUE, !.away = FALSE]
                        ELSE IF gone THEN [data EXCEPT !.here = FALSE, !.away = TRUE] ELSE data
        /\ CycleCnt' = IF back /\ data.away THEN CycleCnt + 1 ELSE CycleCnt
    BY <1>5 DEF CalcClbCycle, AtAnEnd
  <2>2. data \in DataType
    BY <1>1 DEF Memory, DataType, CountInv, CountTypes
  <2>3. /\ [data EXCEPT !.here = TRUE, !.away = FALSE]
              = [home |-> data.home, here |-> TRUE, away |-> FALSE]
        /\ [data EXCEPT !.here = FALSE, !.away = TRUE]
              = [home |-> data.home, here |-> FALSE, away |-> TRUE]
    <3> HIDE DEF data
    <3> QED BY <2>2, BitsSet, TRUE \in BOOLEAN, FALSE \in BOOLEAN
  <2>4. (back <=> Back(Zone, CycleData)) /\ (gone <=> Gone(Zone, CycleData))
    <3> HIDE DEF data
    <3> QED BY <1>1, Zenon DEF Back, Gone
  <2> HIDE DEF data, back, gone
  <2> QED BY <1>1, <1>2, <1>5, <2>1, <2>3, <2>4 DEF LookedData, LookedCnt
<1> QED BY <1>2, <1>3, <1>4, <1>5

LEMMA CountInit == Init => CountInv
<1> SUFFICES ASSUME Init PROVE CountInv
  OBVIOUS
<1>1. CountTypes /\ calibrated /\ changed /\ CycleData = NoCycle /\ CycleCnt = 0
      /\ trip = [home |-> Zone, away |-> FALSE, made |-> 0]
  BY DEF Init, CyclingInit, CountTypes, Zones, DataType, TripType, NoCycle
<1> QED BY <1>1, LookFromNothing DEF CountInv, CountTypes

LEMMA CountNext ==
  ASSUME CountInv, [Next]_vars
  PROVE  CountInv'
<1>1. CASE UNCHANGED <<place, counter>>
  BY <1>1 DEF CountInv, CountTypes, Agrees, place, counter
<1>2. CASE CalcClbCycle
  <2>1. CountTypes'
    BY <1>2, LookEffect, LookTypes DEF CountInv, CountTypes
  <2>2. Agrees(Zone, trip, CycleData, CycleCnt)'
    BY <1>2, LookEffect DEF CountInv, Agrees
  <2>3. CASE calibrated
    <3>1. Agrees(Zone', trip', LookedData(TRUE, Zone', CycleData'),
                               LookedCnt(TRUE, Zone', CycleData', CycleCnt'))
      BY <2>1, <2>2, LookAgain DEF CountTypes
    <3>2. calibrated' = TRUE
      BY <1>2, <2>1, <2>3, LookEffect DEF CountTypes
    <3> QED BY <1>2, <2>1, <2>2, <3>1, <3>2, LookEffect DEF CountInv
  <2>4. CASE ~calibrated
    <3>1. CycleData' = NoCycle /\ ~calibrated'
      BY <1>2, <2>4, LookEffect DEF LookedData
    <3>2. /\ LookedData(calibrated', Zone', CycleData') = CycleData'
          /\ LookedCnt(calibrated', Zone', CycleData', CycleCnt') = CycleCnt'
      BY <3>1 DEF LookedData, LookedCnt
    <3> QED BY <1>2, <2>1, <2>2, <2>4, <3>1, <3>2, LookEffect DEF CountInv
  <2> QED BY <2>3, <2>4
<1>3. CASE CycleReset
  <2>1. /\ ~changed /\ CycleCnt' = 0 /\ CycleData' = NoCycle /\ changed' = TRUE
        /\ trip' = [home |-> Zone, away |-> FALSE, made |-> 0]
        /\ UNCHANGED <<Zone, calibrated>>
    BY <1>3 DEF CycleReset, place
  <2>2. CountTypes'
    BY <2>1 DEF CountInv, CountTypes, DataType, TripType, NoCycle, Zones
  <2>3. Agrees(Zone', trip', LookedData(calibrated', Zone', CycleData'),
                             LookedCnt(calibrated', Zone', CycleData', CycleCnt'))
    BY <2>1, <2>2, LookFromNothing DEF CountInv, CountTypes
  <2> QED BY <2>1, <2>2, <2>3 DEF CountInv
<1>4. CASE Calibrate
  <2>1. /\ ~changed /\ changed' = TRUE
        /\ calibrated' = ~calibrated
        /\ Zone' \in IF calibrated THEN {{}} ELSE {{}, {"closed"}, {"opened"}}
        /\ trip' = [trip EXCEPT !.home = Zone', !.away = FALSE]
        /\ UNCHANGED <<CycleData, CycleCnt>>
    BY <1>4 DEF Calibrate
  <2>2. calibrated' \in BOOLEAN /\ (calibrated' <=> ~calibrated)
    BY <2>1, Zenon
  <2>3. CountTypes'
    BY <2>1, <2>2 DEF CountInv, CountTypes, DataType, TripType, Zones
  <2>4. trip'.home = Zone' /\ ~trip'.away /\ trip'.made = trip.made
    BY <2>1 DEF CountInv, CountTypes, TripType
  <2>5. CycleCnt' = trip'.made
    BY <2>1, <2>4 DEF CountInv, Agrees
  <2>6. CASE calibrated
    <3>1. Zone' = {} /\ ~calibrated'
      BY <2>1, <2>2, <2>6
    <3>2. LookedData(calibrated', Zone', CycleData') = LookedData(calibrated', Zone', NoCycle)
      BY <3>1 DEF LookedData
    <3>3. LookedCnt(calibrated', Zone', CycleData', CycleCnt') = CycleCnt'
      BY <3>1 DEF LookedCnt
    <3>4. LookedCnt(calibrated', Zone', NoCycle, trip'.made) = trip'.made
      BY <3>1 DEF LookedCnt
    <3>5. Agrees(Zone', trip', LookedData(calibrated', Zone', NoCycle),
                               LookedCnt(calibrated', Zone', NoCycle, trip'.made))
      BY <2>2, <2>3, <2>4, <3>1, LookFromNothing DEF CountTypes
    <3> QED BY <2>1, <2>3, <2>4, <2>5, <3>1, <3>2, <3>3, <3>4, <3>5 DEF CountInv
  <2>7. CASE ~calibrated
    <3>1. CycleData' = NoCycle /\ calibrated'
      BY <2>1, <2>2, <2>7 DEF CountInv
    <3>2. Agrees(Zone', trip', LookedData(calibrated', Zone', CycleData'),
                               LookedCnt(calibrated', Zone', CycleData', CycleCnt'))
      BY <2>2, <2>3, <2>4, <2>5, <3>1, LookFromNothing DEF CountTypes
    <3> QED BY <2>1, <2>3, <3>1, <3>2 DEF CountInv
  <2> QED BY <2>6, <2>7
<1>5. CASE Pass
  <2> DEFINE home == IF trip.home = {} THEN Zone' ELSE trip.home
  <2>1. /\ calibrated /\ ~changed /\ changed' = TRUE
        /\ Zone' = IF Zone = {} THEN {Target} ELSE {}
        /\ UNCHANGED <<calibrated, CycleData, CycleCnt>>
        /\ trip' = [home |-> home,
                    away |-> IF Zone' = {} THEN trip.away ELSE Zone' # home,
                    made |-> IF Zone' = home /\ trip.away THEN trip.made + 1 ELSE trip.made]
    BY <1>5 DEF Pass
  <2>2. Zone' \in Zones
    BY <2>1 DEF Zones, Target
  <2>3. CountTypes'
    <3>1. trip'.away \in BOOLEAN /\ home \in Zones
      BY <2>1, <2>2 DEF CountInv, CountTypes, TripType
    <3> QED BY <2>1, <2>2, <3>1 DEF CountInv, CountTypes, TripType
  <2>4. CountTypes /\ Agrees(Zone, trip, CycleData, CycleCnt) /\ calibrated = TRUE /\ calibrated' = TRUE
    BY <2>1 DEF CountInv, CountTypes
  <2>5. CASE Zone # {}
    <3>1. trip.home # {} /\ Zone' = {}
      BY <2>1, <2>4, <2>5 DEF Agrees
    <3>2. trip' = trip
      BY <2>1, <2>4, <3>1 DEF CountTypes, TripType
    <3> QED BY <2>1, <2>3, <2>4, <2>5, <3>1, <3>2, LookAfterLeaving DEF CountInv, CountTypes
  <2>6. CASE Zone = {}
    <3>1. Zone' # {} /\ trip'.home = home /\ (trip'.away <=> Zone' # home)
          /\ trip'.made = IF Zone' = home /\ trip.away THEN trip.made + 1 ELSE trip.made
      BY <2>1, <2>6
    <3>2. Agrees(Zone', trip', LookedData(TRUE, Zone', CycleData),
                               LookedCnt(TRUE, Zone', CycleData, CycleCnt))
      BY <2>2, <2>3, <2>4, <2>6, <3>1, LookAfterReaching DEF CountTypes
    <3> QED BY <2>1, <2>3, <2>4, <3>2 DEF CountInv
  <2> QED BY <2>5, <2>6
<1> QED BY <1>1, <1>2, <1>3, <1>4, <1>5, PlaceAndCounter

(* Whenever CalcClbCycle has looked, its count is the number of times the  *)
(* valve has been to the other end and back.                               *)
THEOREM CyclesAreCounted == Spec => []CycleCounted
<1>1. CountInv => CycleCounted
  BY DEF CountInv, Agrees, CycleCounted
<1> QED BY <1>1, CountInit, CountNext, PTL DEF Spec

-----------------------------------------------------------------------------
(* The cycle mode: what it may still order covers the cycles left, less    *)
(* the half it has ordered already.                                        *)
OrderInv ==
  /\ owed \in Int /\ progonCycles \in Nat /\ halfCycle \in 0..1
  /\ CyclesBounded

LEMMA Ordering ==
  ASSUME OrderInv, OrderCycles
  PROVE  OrderInv'
  BY Constants DEF OrderInv, OrderCycles, CyclesBounded

LEMMA Updating ==
  ASSUME OrderInv, ProgonModeUpdate
  PROVE  OrderInv'
<1> DEFINE aborted == faulted \/ ~calibrated
           mode    == CycleMode /\ ~aborted
           cycles  == IF aborted THEN 0 ELSE progonCycles
           command == mode /\ AtAnEnd /\ ~isComandDone /\ progonDelay > PROGON_DELAY
           last    == command /\ halfCycle = 1
           given   == mode /\ ~AtAnEnd /\ motion = "stop" /\ stopTimer > STOP_DELAY
<1>1. CASE ~Ordered
  BY <1>1 DEF ProgonModeUpdate, OrderInv, CyclesBounded, cycling, progon
<1>2. CASE Ordered
  <2>1. /\ progonCycles' = IF given THEN 0 ELSE IF last THEN cycles - 1 ELSE cycles
        /\ halfCycle' = IF command THEN 1 - halfCycle ELSE halfCycle
        /\ owed' = IF command THEN owed - 1 ELSE owed
    BY <1>2 DEF ProgonModeUpdate
  <2>2. progonCycles \in Nat \ {0}
    BY <1>2 DEF Ordered, OrderInv
  <2>3. CASE command
    <3>1. ~given /\ cycles = progonCycles
      BY <2>3
    <3> HIDE DEF command, given, cycles
    <3> QED BY <2>1, <2>2, <2>3, <3>1 DEF OrderInv, CyclesBounded
  <2>4. CASE ~command
    <3>1. progonCycles' \in {0, progonCycles}
      BY <2>1, <2>4
    <3> HIDE DEF command
    <3> QED BY <2>1, <2>2, <2>4, <3>1 DEF OrderInv, CyclesBounded
  <2> QED BY <2>3, <2>4
<1> QED BY <1>1, <1>2

LEMMA OrderNext ==
  ASSUME OrderInv, [Next]_vars
  PROVE  OrderInv'
<1>1. ProgonModeUpdate \/ OrderCycles \/ UNCHANGED progon
  <2>1. CASE List
    BY <2>1 DEF List, LocalControl, Cycle, BlkSignalization, TsSignalization,
       DiscrInOutTestObserver, Progon, TekModbusParamsUpdate, CalcClbCycle, cycling
  <2>2. CASE Others
    BY <2>2 DEF Others, Supply, Press, Mark, Master, MenuWrites, Drive, StartOrStop, Obey,
       Pass, CycleReset, Calibrate, Fault, cycling
  <2>3. CASE LowPowerControl \/ UNCHANGED vars
    BY <2>3 DEF LowPowerControl, vars, cycling
  <2> QED BY <2>1, <2>2, <2>3 DEF Next
<1>2. CASE UNCHANGED progon
  BY <1>2 DEF OrderInv, CyclesBounded, progon
<1> QED BY <1>1, <1>2, Ordering, Updating

(* The cycle mode never gives more than the two commands of each cycle     *)
(* that was ordered.                                                       *)
THEOREM OrdersAreBounded == Spec => []CyclesBounded
<1>1. Init => OrderInv
  BY DEF Init, CyclingInit, OrderInv, CyclesBounded
<1>2. OrderInv => CyclesBounded
  BY DEF OrderInv
<1> QED BY <1>1, <1>2, OrderNext, PTL DEF Spec
===============================================================================
