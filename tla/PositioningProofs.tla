-------------------------- MODULE PositioningProofs --------------------------
(***************************************************************************)
(* The theorems about Positioning, for every sensor, gear, stroke and      *)
(* place of the stroke on the circle.                                      *)
(***************************************************************************)
EXTENDS Positioning, TLAPS

(* The circle has an even number of marks.                                 *)
LEMMA Circle ==
  /\ RevMax \in Nat /\ RevMisc \in Nat \ {0} /\ N \in Nat \ {0}
  /\ RevMax \div 2 \in Nat /\ N = 2 * (RevMax \div 2) + 2
  /\ N = RevMax + 1
  BY PositionAssumption DEF N

(* Once round at most.                                                     *)
LEMMA OnceRound ==
  ASSUME NEW n \in Nat \ {0}, NEW x \in Int, -n <= x, x < 2 * n
  PROVE  x % n = IF x < 0 THEN x + n ELSE IF x < n THEN x ELSE x - n
<1>1. x % n \in 0 .. n - 1 /\ x = (x % n) + n * (x \div n) /\ x \div n \in Int
  OBVIOUS
<1>2. PICK q \in Int, r \in 0 .. n - 1 : q = x \div n /\ r = x % n /\ x = r + n * q
  BY <1>1
<1>3. q \in {-1, 0, 1}
  <2>1. q < 2
    BY <1>2
  <2>2. q > -2
    BY <1>2
  <2> QED BY <2>1, <2>2
<1>4. \/ q = -1 /\ x = r - n
      \/ q = 0 /\ x = r
      \/ q = 1 /\ x = r + n
  BY <1>2, <1>3
<1> QED BY <1>2, <1>4

LEMMA OnCircle ==
  ASSUME NEW x \in Int, -N <= x, x < 2 * N
  PROVE  /\ x % N = IF x < 0 THEN x + N ELSE IF x < N THEN x ELSE x - N
         /\ x % N \in 0 .. N - 1
<1>1. N \in Nat \ {0}
  BY Circle
<1>2. x % N = IF x < 0 THEN x + N ELSE IF x < N THEN x ELSE x - N
  BY <1>1, OnceRound
<1> QED BY <1>1, <1>2

LEMMA Halves ==
  ASSUME NEW s \in Nat
  PROVE  s \div 2 \in Nat /\ (s = 2 * (s \div 2) \/ s = 2 * (s \div 2) + 1)
  OBVIOUS

(* The circle is cut opposite to the middle of the stroke: a place as      *)
(* LinePosition computes it, from counts along the stroke, lies within     *)
(* half the circle of the middle, but for the rounding.                    *)
LEMMA OppositePoint ==
  ASSUME NEW open \in Nat, NEW close \in Nat, open <= N, close <= N,
         open - close < N, close - open < N,
         NEW base, base = ((open + close) \div 2
                           + (IF open >= close THEN RevMax \div 2 ELSE 0)) % N
  PROVE  /\ base \in 0 .. N - 1
         /\ (open - close) % N = IF open >= close THEN open - close ELSE open - close + N
         /\ IF open >= close
            THEN \E u \in {0, 1} : \/ 2 * base = open + close - u + N - 2
                                   \/ 2 * base = open + close - u - N - 2
            ELSE \E u \in {0, 1} : 2 * base = open + close - u
<1>1. (open - close) % N = IF open >= close THEN open - close ELSE open - close + N
  <2>1. PICK x \in Int : x = open - close
    OBVIOUS
  <2>2. -N <= x /\ x < 2 * N /\ x < N /\ (x < 0 <=> open < close)
    BY <2>1, Circle
  <2>3. x % N = IF x < 0 THEN x + N ELSE x
    BY <2>2, OnCircle
  <2> QED BY <2>1, <2>2, <2>3
<1>2. PICK h \in Nat : h = (open + close) \div 2 /\ (open + close = 2 * h \/ open + close = 2 * h + 1)
  BY Halves
<1>3. PICK k \in Nat : k = RevMax \div 2 /\ N = 2 * k + 2
  BY Circle
<1>4. CASE open >= close
  <2>1. PICK x \in Nat : x = h + k
    OBVIOUS
  <2>2. base = x % N
    BY <1>2, <1>3, <1>4, <2>1
  <2>3. -N <= x /\ x < 2 * N
    BY <1>2, <1>3, <1>4, <2>1, Circle
  <2>4. base = IF x < N THEN x ELSE x - N
    BY <2>2, <2>3, OnCircle
  <2> QED BY <1>1, <1>2, <1>3, <1>4, <2>1, <2>4, Circle
<1>5. CASE open < close
  <2>1. base = h % N
    BY <1>2, <1>5
  <2>3. -N <= h /\ h < N /\ h < 2 * N
    BY <1>2, <1>5, Circle
  <2>2. base = h
    BY <2>1, <2>3, OnCircle
  <2> QED BY <1>1, <1>2, <1>5, <2>3, <2>2, Circle
<1> QED BY <1>4, <1>5

LEMMA NearTheMiddle ==
  ASSUME NEW open \in Nat, NEW close \in Nat, NEW place \in Nat,
         open <= N, close <= N, place <= N,
         open - close < N, close - open < N, place - close < N, close - place < N,
         NEW c, c.BasePos = ((open + close) \div 2
                           + (IF open >= close THEN RevMax \div 2 ELSE 0)) % N,
         NEW step, step = (open - close) % N
  PROVE  /\ step \in 0 .. N - 1
         /\ LinePosition(c, place, close) \in {place - close - N, place - close, place - close + N}
         /\ Abs(2 * LinePosition(c, place, close) - step) <= N + 3
<1> DEFINE base == c.BasePos
           line == LinePosition(c, place, close)
<1>1. /\ base \in 0 .. N - 1
      /\ step = IF open >= close THEN open - close ELSE open - close + N
      /\ IF open >= close
         THEN \E u \in {0, 1} : \/ 2 * base = open + close - u + N - 2
                                \/ 2 * base = open + close - u - N - 2
         ELSE \E u \in {0, 1} : 2 * base = open + close - u
  <2> HIDE DEF base
  <2>1. base = ((open + close) \div 2 + (IF open >= close THEN RevMax \div 2 ELSE 0)) % N
    BY DEF base
  <2> QED BY <2>1, OppositePoint
<1>2. \/ close > base /\ place < base /\ line = place - close + N
      \/ close <= base /\ place > base /\ line = place - close - N
      \/ ~(close > base /\ place < base) /\ ~(close <= base /\ place > base)
         /\ line = place - close
  <2>1. base \in Int /\ N \in Int
    BY <1>1, Circle
  <2> QED BY <2>1 DEF LinePosition
<1> HIDE DEF base, line
<1>3. step \in 0 .. N - 1
  BY <1>1, Circle
<1>4. line \in Int
  BY <1>2, Circle
<1>5. 2 * line - step <= N + 3 /\ 2 * line - step >= -(N + 3)
  BY <1>1, <1>2, Circle
<1>6. line \in {place - close - N, place - close, place - close + N}
  BY <1>2, Circle
<1>7. PICK z \in Int : z = 2 * line - step
  BY <1>3, <1>4
<1>8. Abs(z) <= N + 3
  BY <1>5, <1>7, Circle DEF Abs
<1> QED BY <1>3, <1>6, <1>7, <1>8 DEF line

-----------------------------------------------------------------------------
(* The ends, the stroke between them and the ways to a count.              *)
Counts == 0 .. RevMax
EndTypes == clb.ClosePos \in Counts /\ clb.OpenPos \in Counts
Opposite(c) ==
  ((Along(c.OpenPos) + Along(c.ClosePos)) \div 2
   + (IF Along(c.OpenPos) >= Along(c.ClosePos) THEN RevMax \div 2 ELSE 0)) % N

LEMMA Signs ==
  ASSUME NEW a \in Counts, NEW b \in Counts
  PROVE  /\ Along(a) \in Nat /\ Along(a) <= N /\ Along(b) \in Nat /\ Along(b) <= N
         /\ Along(a) - Along(b) = Sign * (a - b)
         /\ Along(a) - Along(b) < N /\ Along(b) - Along(a) < N
         /\ Sign \in {-1, 1}
<1>1. RodType \in BOOLEAN
  BY PositionAssumption
<1>2. CASE RodType
  BY <1>2, Circle DEF Along, Sign, Counts
<1>3. CASE ~RodType
  BY <1>3, Circle DEF Along, Sign, Counts
<1> QED BY <1>1, <1>2, <1>3

LEMMA WayTypes ==
  ASSUME EndTypes, NEW m \in Counts
  PROVE  /\ Stroke \in 0 .. N - 1
         /\ Stroke = (Along(clb.OpenPos) - Along(clb.ClosePos)) % N
         /\ Along(m) - Along(clb.ClosePos) \in Int
         /\ Along(m) - Along(clb.ClosePos) < N
         /\ Along(clb.ClosePos) - Along(m) < N
         /\ Ways(m) = {Along(m) - Along(clb.ClosePos) - N, Along(m) - Along(clb.ClosePos),
                       Along(m) - Along(clb.ClosePos) + N}
         /\ Ways(m) \subseteq Int
<1>1. /\ Along(clb.OpenPos) - Along(clb.ClosePos) = Sign * (clb.OpenPos - clb.ClosePos)
      /\ Along(clb.OpenPos) - Along(clb.ClosePos) < N
      /\ Along(clb.ClosePos) - Along(clb.OpenPos) < N
      /\ Along(clb.OpenPos) \in Nat /\ Along(clb.ClosePos) \in Nat
  BY Signs DEF EndTypes
<1>2. /\ Along(m) - Along(clb.ClosePos) = Sign * (m - clb.ClosePos)
      /\ Along(m) - Along(clb.ClosePos) < N
      /\ Along(clb.ClosePos) - Along(m) < N
      /\ Along(m) \in Nat
  BY Signs DEF EndTypes
<1>3. Stroke = (Along(clb.OpenPos) - Along(clb.ClosePos)) % N
  BY <1>1 DEF Stroke
<1>4. Stroke \in 0 .. N - 1
  <2>1. PICK x \in Int : x = Along(clb.OpenPos) - Along(clb.ClosePos)
    BY <1>1
  <2>2. -N <= x /\ x < 2 * N
    BY <1>1, <2>1, Circle
  <2>3. x % N \in 0 .. N - 1
    BY <2>2, OnCircle
  <2> QED BY <1>3, <2>1, <2>3
<1>5. PICK x \in Int : x = Along(m) - Along(clb.ClosePos)
  BY <1>1, <1>2
<1>6. Ways(m) = {x - N, x, x + N}
  BY <1>2, <1>5 DEF Ways
<1>7. N \in Int
  BY Circle
<1> QED BY <1>1, <1>2, <1>3, <1>4, <1>5, <1>6, <1>7

(* DefineCalibParams finds one of the ways to a count, and one that lies   *)
(* within half a circle of the middle but for the rounding.                *)
LEMMA LineIsPlace ==
  ASSUME EndTypes, NEW m \in Counts, NEW c, c.BasePos = Opposite(clb)
  PROVE  LET d == LinePosition(c, Along(m), Along(clb.ClosePos))
         IN  d \in Ways(m) /\ Far(d) <= N + 3
<1>1. PICK open \in Nat, close \in Nat, place \in Nat :
        /\ open = Along(clb.OpenPos) /\ close = Along(clb.ClosePos) /\ place = Along(m)
        /\ open <= N /\ close <= N /\ place <= N
        /\ open - close < N /\ close - open < N /\ place - close < N /\ close - place < N
  BY Signs DEF EndTypes
<1>2. Stroke = (open - close) % N /\ Ways(m) = {place - close - N, place - close, place - close + N}
  BY <1>1, WayTypes
<1>3. c.BasePos = ((open + close) \div 2 + (IF open >= close THEN RevMax \div 2 ELSE 0)) % N
  BY <1>1 DEF Opposite
<1>4. PICK step : step = Stroke
  OBVIOUS
<1>5. /\ LinePosition(c, place, close) \in {place - close - N, place - close, place - close + N}
      /\ Abs(2 * LinePosition(c, place, close) - step) <= N + 3
  BY <1>1, <1>2, <1>3, <1>4, NearTheMiddle
<1> QED BY <1>1, <1>2, <1>4, <1>5 DEF Far

LEMMA OneWay ==
  ASSUME EndTypes, NEW m \in Counts, NEW d \in Ways(m), NEW e \in Ways(m), Far(d) <= N + 3
  PROVE  /\ Far(d) <= Far(e) + 8
         /\ Far(e) <= N - 4 => e = d
<1>1. PICK x \in Int : Ways(m) = {x - N, x, x + N}
  BY WayTypes
<1>2. Stroke \in Int /\ N \in Nat /\ d \in Int /\ e \in Int
  BY WayTypes, Circle
<1>3. PICK s \in Int : s = Stroke
  BY <1>2
<1>4. PICK f \in Int, g \in Int : f = 2 * d - s /\ g = 2 * e - s
  <2>1. 2 * d - s \in Int /\ 2 * e - s \in Int
    BY <1>2
  <2> QED BY <2>1
<1>5. f <= N + 3 /\ f >= -(N + 3) /\ Far(d) = Abs(f) /\ Far(e) = Abs(g)
  <2>1. Far(d) = Abs(f) /\ Far(e) = Abs(g)
    BY <1>3, <1>4 DEF Far
  <2> QED BY <2>1, <1>2 DEF Abs
<1>6. g \in {f - 4 * N, f - 2 * N, f, f + 2 * N, f + 4 * N} /\ (g = f => e = d)
  BY <1>1, <1>2, <1>4
<1> QED BY <1>2, <1>5, <1>6 DEF Abs

-----------------------------------------------------------------------------
(* More marks are no fewer turns of the output shaft.                      *)
LEMMA PartsOrdered ==
  ASSUME NEW k \in Nat \ {0}, NEW q \in Int, NEW r \in 0 .. k - 1,
         NEW s \in Int, NEW t \in 0 .. k - 1, r + k * q <= t + k * s
  PROVE  q <= s
<1>1. SUFFICES ASSUME q >= s + 1 PROVE FALSE
  OBVIOUS
<1>2. \A x, y \in Int : x >= y => k * x >= k * y
  OBVIOUS
<1>3. k * q >= k * (s + 1)
  BY <1>1, <1>2
<1>4. k * (s + 1) = k * s + k
  OBVIOUS
<1>5. k * q \in Int /\ k * s \in Int
  OBVIOUS
<1> QED BY <1>3, <1>4, <1>5

LEMMA DivOrdered ==
  ASSUME NEW k \in Nat \ {0}, NEW a \in Int, NEW b \in Int, a <= b
  PROVE  a \div k <= b \div k /\ a \div k \in Int
<1>1. /\ a % k \in 0 .. k - 1 /\ a \div k \in Int /\ a = (a % k) + k * (a \div k)
      /\ b % k \in 0 .. k - 1 /\ b \div k \in Int /\ b = (b % k) + k * (b \div k)
  OBVIOUS
<1> QED BY <1>1, PartsOrdered

LEMMA DivOfNat ==
  ASSUME NEW k \in Nat \ {0}, NEW a \in Nat
  PROVE  a \div k \in Nat /\ 0 \div k = 0
<1>1. a % k \in 0 .. k - 1 /\ a \div k \in Int /\ a = (a % k) + k * (a \div k)
  OBVIOUS
<1>2. a \div k >= 0
  <2>1. SUFFICES ASSUME a \div k <= -1 PROVE FALSE
    BY <1>1
  <2>2. \A x, y \in Int : x >= y => k * x >= k * y
    OBVIOUS
  <2>3. k * (-1) >= k * (a \div k) /\ k * (-1) = -k /\ k * (a \div k) \in Int
    BY <1>1, <2>1, <2>2
  <2> QED BY <1>1, <2>3
<1>3. 0 \div k = 0
  OBVIOUS
<1> QED BY <1>1, <1>2, <1>3

LEMMA QuotientOrdered ==
  ASSUME NEW k \in Nat \ {0}, NEW a \in Int, NEW b \in Int, a <= b
  PROVE  Quotient(a, k) <= Quotient(b, k) /\ Quotient(a, k) \in Int /\ Quotient(b, k) \in Int
<1>1. CASE a >= 0
  BY <1>1, DivOrdered DEF Quotient
<1>2. CASE a < 0 /\ b >= 0
  <2>1. (-a) \div k \in Nat /\ b \div k \in Nat
    BY <1>2, DivOfNat
  <2> QED BY <1>2, <2>1 DEF Quotient
<1>3. CASE a < 0 /\ b < 0
  <2>1. PICK c \in Int, d \in Int : c = -a /\ d = -b /\ d <= c
    OBVIOUS
  <2>2. d \div k <= c \div k /\ d \div k \in Int /\ c \div k \in Int
    BY <2>1, DivOrdered
  <2> QED BY <1>3, <2>1, <2>2 DEF Quotient
<1> QED BY <1>1, <1>2, <1>3

LEMMA GearOrdered ==
  ASSUME NEW a \in Int, NEW b \in Int, a <= b
  PROVE  /\ CalcClbGearRev(a) <= CalcClbGearRev(b)
         /\ CalcClbGearRev(a) \in Int /\ CalcClbGearRev(b) \in Int
<1>1. GearRatio \in Nat \ {0} /\ 2 ^ (PosSensPow + 1) \in Nat \ {0}
  BY PositionAssumption
<1>2. PICK x \in Int, y \in Int : x = 2000 * a /\ y = 2000 * b /\ x <= y
  OBVIOUS
<1>3. PICK p \in Int, q \in Int :
        p = Quotient(2000 * a, GearRatio) /\ q = Quotient(2000 * b, GearRatio) /\ p <= q
  <2>1. Quotient(x, GearRatio) <= Quotient(y, GearRatio)
        /\ Quotient(x, GearRatio) \in Int /\ Quotient(y, GearRatio) \in Int
    <3>1. GearRatio \in Nat \ {0}
      BY <1>1
    <3>2. x \in Int /\ y \in Int /\ x <= y
      BY <1>2
    <3> QED BY <3>1, <3>2, QuotientOrdered, ZenonT(30)
  <2> QED BY <1>2, <2>1
<1>4. PICK k \in Nat \ {0} : k = 2 ^ (PosSensPow + 1)
  BY <1>1
<1>5. p \div k <= q \div k /\ p \div k \in Int /\ q \div k \in Int
  BY <1>3, DivOrdered
<1> QED BY <1>3, <1>4, <1>5 DEF CalcClbGearRev

LEMMA GearOfNothing == CalcClbGearRev(0) = 0
<1>1. GearRatio \in Nat \ {0} /\ 2 ^ (PosSensPow + 1) \in Nat \ {0}
  BY PositionAssumption
<1>2. Quotient(0, GearRatio) = 0
  BY <1>1, DivOfNat DEF Quotient
<1> QED BY <1>1, <1>2, DivOfNat DEF CalcClbGearRev

-----------------------------------------------------------------------------
(* Types.                                                                  *)
Slots == {"DefineCalibParams", "ClbControl", "CalibStop", "EncoderUpdate"}
ClbType ==
  [Status : SUBSET Ends, ClosePos : Counts, OpenPos : Counts, FullStep : Nat,
   FullWay : Int, BasePos : Int, LinePos : Int, Zone : SUBSET Ends,
   ResetFlag : BOOLEAN, AutoStep : 0 .. 6, AutoCmd : {"none"} \cup Ends,
   RevAuto : Nat, MuffTimer : Nat]
DriveType ==
  [dir : {"stop"} \cup Ends, target : Int, word : {"none"} \cup Ends,
   ends : SUBSET Ends, rest : 0 .. REST, inside : BOOLEAN]

Types ==
  /\ shaft \in Counts /\ EncoderData \in Counts /\ revolution \in Counts
  /\ clb \in ClbType /\ drive \in DriveType
  /\ tasks \subseteq Tasks /\ turns \in Turns
  /\ slot \in Slots /\ rounds \in 0 .. ROUNDS /\ good \in 0 .. GoodRun
  /\ TestCamera \in BOOLEAN /\ PositionAccTmp \in {0, PositionAcc}

LEMMA Parameters ==
  /\ REST \in Nat /\ ROUNDS \in Nat \ {0} /\ GoodRun \in Nat /\ MuffTime \in Nat
  /\ PositionAcc \in Nat /\ BrakeZone \in Nat /\ Turns \subseteq Nat \ {0}
  /\ Orders \subseteq Tasks /\ Starts \subseteq Counts
  BY PositionAssumption DEF Counts

(* At rest and in a movement an end counts as reached no farther off than  *)
(* the parameter allows.                                                   *)
LEMMA Accuracy ==
  ASSUME Types
  PROVE  PositionAccTmp \in Nat /\ PositionAccTmp <= PositionAcc
  BY Parameters DEF Types

LEMMA ModIsCount ==
  ASSUME NEW x \in Int
  PROVE  x % N \in Counts /\ x % N \in Nat
<1>1. PICK n \in Nat \ {0} : n = N
  BY Circle
<1>2. x % n \in 0 .. n - 1
  OBVIOUS
<1> QED BY <1>1, <1>2, Circle DEF Counts

LEMMA SomeCount == 0 \in Counts
  BY Circle DEF Counts

LEMMA TypesInit ==
  ASSUME Init
  PROVE  Types
<1>1. shaft \in Counts /\ EncoderData \in Counts /\ revolution \in Counts
  BY Parameters DEF Init
<1>2. clb \in ClbType
  BY SomeCount DEF Init, ClbType, Ends
<1>3. drive \in DriveType
  BY Parameters DEF Init, DriveType, POS_UNDEF
<1>4. rounds \in 0 .. ROUNDS /\ good \in 0 .. GoodRun
  BY Parameters DEF Init
<1> QED BY <1>1, <1>2, <1>3, <1>4 DEF Init, Types, Slots

LEMMA RevolutionType ==
  ASSUME Types
  PROVE  Revolution \in Counts
  BY Circle DEF Types, Revolution, Counts

LEMMA StrokeType ==
  ASSUME Types
  PROVE  EndTypes /\ Stroke \in 0 .. N - 1
<1>1. EndTypes
  BY DEF Types, ClbType, EndTypes
<1>2. 0 \in Counts
  BY SomeCount
<1> QED BY <1>1, <1>2, WayTypes

(* A place of LinePosition, and what is made of it.                        *)
LEMMA PlaceTypes ==
  ASSUME Types
  PROVE  /\ LinePosition(clb, Along(Revolution), Along(clb.ClosePos)) \in Int
         /\ Along(Revolution) - Along(clb.ClosePos) \in Int
         /\ Along(clb.OpenPos) - Along(Revolution) \in Int
<1>1. Revolution \in Counts /\ clb.ClosePos \in Counts /\ clb.OpenPos \in Counts /\ clb.BasePos \in Int
  BY RevolutionType DEF Types, ClbType
<1>2. /\ Along(Revolution) \in Nat /\ Along(clb.ClosePos) \in Nat /\ Along(clb.OpenPos) \in Nat
  BY <1>1, Signs
<1>3. N \in Int
  BY Circle
<1> QED BY <1>1, <1>2, <1>3 DEF LinePosition

LEMMA MeasuredType ==
  ASSUME NEW c \in ClbType, NEW step \in Nat, NEW way \in Int, NEW base \in Int,
         NEW zone \in SUBSET Ends, NEW line \in Int
  PROVE  /\ [c EXCEPT !.FullStep = step, !.FullWay = way, !.BasePos = base,
                       !.Zone = zone] \in ClbType
         /\ [c EXCEPT !.FullStep = step, !.FullWay = way, !.Zone = zone,
                       !.BasePos = base] \in ClbType
         /\ [c EXCEPT !.FullStep = step, !.FullWay = way, !.BasePos = base,
                       !.LinePos = line, !.Zone = zone] \in ClbType
  BY DEF ClbType

LEMMA LocatedType ==
  ASSUME Types
  PROVE  Located(clb) \in ClbType
<1>1. \A w \in Int : CalcClbGearRev(w) \in Int
  BY GearOrdered
<1>2. \A z, w \in Int : \A c : Zones(c, w) \subseteq Ends
  BY DEF Zones
<1>3. clb \in ClbType
  BY DEF Types
<1>8. PICK none \in Nat, many \in Int : none = 0 /\ many = 9999
  OBVIOUS
<1>9. PICK zones \in SUBSET Ends : zones = {}
  OBVIOUS
<1>10. PICK all \in SUBSET Ends : all = CLB_FLAG
  BY DEF CLB_FLAG
<1>4. FindStroke(clb) \in ClbType
  <2>1. PICK step \in Nat : step = (Along(clb.OpenPos) - Along(clb.ClosePos)) % N
    <3>1. 0 \in Counts
      BY SomeCount
    <3> QED BY <3>1, StrokeType, WayTypes
  <2>2. PICK base : base = Opposite(clb)
    OBVIOUS
  <2>3. base \in Int
    <3>1. PICK open \in Nat, close \in Nat :
             open = Along(clb.OpenPos) /\ close = Along(clb.ClosePos)
      BY <1>3, Signs DEF ClbType
    <3>2. PICK h \in Nat : h = (open + close) \div 2
      BY Halves
    <3>3. PICK x \in Int : x = h + IF open >= close THEN RevMax \div 2 ELSE 0
      BY <3>2, Circle
    <3>4. base = x % N
      BY <2>2, <3>1, <3>2, <3>3 DEF Opposite
    <3> QED BY <3>4, ModIsCount
  <2>4. PICK way \in Int : way = CalcClbGearRev(step)
    BY <1>1
  <2>5. FindStroke(clb) =
          IF way \div 2 <= PositionAccTmp
          THEN [clb EXCEPT !.FullStep = 0, !.FullWay = way, !.BasePos = 0, !.Zone = CLB_FLAG]
          ELSE [clb EXCEPT !.FullStep = step, !.FullWay = way, !.Zone = {}, !.BasePos = base]
    BY <2>1, <2>2, <2>4 DEF FindStroke, Opposite
  <2>6. FindStroke(clb) \in
          {[clb EXCEPT !.FullStep = none, !.FullWay = way, !.BasePos = none, !.Zone = all],
           [clb EXCEPT !.FullStep = step, !.FullWay = way, !.Zone = zones, !.BasePos = base]}
    BY <1>8, <1>9, <1>10, <2>5
  <2>7. none \in Int
    OBVIOUS
  <2>8. [clb EXCEPT !.FullStep = none, !.FullWay = way, !.BasePos = none, !.Zone = all] \in ClbType
    BY <1>3, <2>7, MeasuredType
  <2>9. [clb EXCEPT !.FullStep = step, !.FullWay = way, !.Zone = zones, !.BasePos = base] \in ClbType
    BY <1>3, <2>3, MeasuredType
  <2> QED BY <2>6, <2>8, <2>9
<1>5. OnStroke(clb) \in ClbType
  <2>1. PICK line \in Int : line = LinePosition(clb, Along(Revolution), Along(clb.ClosePos))
    BY PlaceTypes
  <2>2. PICK zone \in SUBSET Ends : zone = Zones(clb, CalcClbGearRev(line))
    BY <1>1, <1>2
  <2> QED BY <1>3, <2>1, <2>2 DEF OnStroke, ClbType
<1>6. FromOneEnd(clb) \in ClbType
  <2>1. PICK line \in Int :
          line = IF "close" \in clb.Status
                 THEN (Along(Revolution) - Along(clb.ClosePos)) % N
                 ELSE (Along(clb.OpenPos) - Along(Revolution)) % N
    BY PlaceTypes, ModIsCount
  <2>2. PICK zone \in SUBSET Ends :
          zone = IF CalcClbGearRev(line) <= PositionAccTmp THEN clb.Status ELSE {}
    BY <1>3 DEF ClbType
  <2>3. none \in Int
    OBVIOUS
  <2>4. FromOneEnd(clb) = [clb EXCEPT !.FullStep = none, !.FullWay = many, !.BasePos = none,
                                      !.LinePos = line, !.Zone = zone]
    BY <1>8, <2>1, <2>2 DEF FromOneEnd
  <2>5. [clb EXCEPT !.FullStep = none, !.FullWay = many, !.BasePos = none,
                    !.LinePos = line, !.Zone = zone] \in ClbType
    BY <1>3, <2>3, MeasuredType
  <2> QED BY <2>4, <2>5
<1>7. [clb EXCEPT !.FullStep = 0, !.FullWay = 9999, !.BasePos = 0, !.Zone = {}] \in ClbType
  <2>1. none \in Int
    OBVIOUS
  <2>2. [clb EXCEPT !.FullStep = none, !.FullWay = many, !.BasePos = none, !.Zone = zones] \in ClbType
    BY <1>3, <2>1, MeasuredType
  <2> QED BY <1>8, <1>9, <2>2
<1> QED BY <1>4, <1>5, <1>6, <1>7 DEF Located

-----------------------------------------------------------------------------
(* Calibration.  Only one of its five parts does anything, but for the     *)
(* reset of both ends; and it measures nothing.                            *)
TasksInv == \/ \E t \in Tasks : tasks \subseteq {t}
            \/ tasks = {"closeReset", "openReset"}

AutoSound(c) == /\ c.AutoStep \in 1 .. 3 => c.Status = {}
                /\ c.AutoStep \in 4 .. 6 => c.Status \subseteq {"close"}

Measured(c, d) == /\ d.FullStep = c.FullStep /\ d.FullWay = c.FullWay
                  /\ d.BasePos = c.BasePos /\ d.LinePos = c.LinePos
                  /\ d.Zone = c.Zone /\ d.ResetFlag = c.ResetFlag

EndsKept(c, d) == /\ d.Status = c.Status
                  /\ d.ClosePos = c.ClosePos /\ d.OpenPos = c.OpenPos

EndSetNow(c, d) == /\ d.Status = CLB_FLAG /\ c.Status # CLB_FLAG
                   /\ c.AutoStep # 0 \/ ~c.ResetFlag
                   /\ d.ClosePos = Revolution \/ d.OpenPos = Revolution

Outcome(c, d) == /\ d \in ClbType /\ Measured(c, d) /\ AutoSound(d)
                 /\ d.AutoStep # 0 => \/ c.AutoStep # 0
                                      \/ ~c.ResetFlag /\ c.Status # CLB_FLAG
                 /\ EndsKept(c, d) \/ d.Status # CLB_FLAG \/ EndSetNow(c, d)

LEMMA EndsSet ==
  ASSUME NEW c \in ClbType, NEW p \in Counts
  PROVE  /\ SetClose(c, p) \in ClbType /\ Measured(c, SetClose(c, p))
         /\ SetClose(c, p).Status = c.Status \cup {"close"}
         /\ SetClose(c, p).ClosePos = p /\ SetClose(c, p).OpenPos = c.OpenPos
         /\ SetClose(c, p).AutoStep = c.AutoStep
         /\ SetOpen(c, p) \in ClbType /\ Measured(c, SetOpen(c, p))
         /\ SetOpen(c, p).Status = c.Status \cup {"open"}
         /\ SetOpen(c, p).OpenPos = p /\ SetOpen(c, p).ClosePos = c.ClosePos
         /\ SetOpen(c, p).AutoStep = c.AutoStep
<1>1. PICK s \in SUBSET Ends, o \in SUBSET Ends : s = c.Status \cup {"close"} /\ o = c.Status \cup {"open"}
  <2>1. c.Status \cup {"close"} \in SUBSET Ends /\ c.Status \cup {"open"} \in SUBSET Ends
    BY DEF ClbType, Ends
  <2> QED BY <2>1
<1>2. SetClose(c, p) = [c EXCEPT !.ClosePos = p, !.Status = s]
  BY <1>1 DEF SetClose
<1>3. SetOpen(c, p) = [c EXCEPT !.OpenPos = p, !.Status = o]
  BY <1>1 DEF SetOpen
<1> QED BY <1>1, <1>2, <1>3 DEF ClbType, Measured

LEMMA EndsReset ==
  ASSUME NEW c \in ClbType
  PROVE  /\ ResetClose(c) \in ClbType /\ Measured(c, ResetClose(c))
         /\ ResetClose(c).Status = c.Status \cap {"open"}
         /\ ResetClose(c).AutoStep = c.AutoStep
         /\ ResetOpen(c) \in ClbType /\ Measured(c, ResetOpen(c))
         /\ ResetOpen(c).Status = c.Status \cap {"close"}
         /\ ResetOpen(c).AutoStep = c.AutoStep
<1>1. PICK s \in SUBSET Ends, o \in SUBSET Ends : s = c.Status \cap {"open"} /\ o = c.Status \cap {"close"}
  <2>1. c.Status \cap {"close"} \in SUBSET Ends /\ c.Status \cap {"open"} \in SUBSET Ends
    BY DEF ClbType, Ends
  <2> QED BY <2>1
<1>2. PICK z \in Counts : z = 0
  BY SomeCount
<1>3. ResetClose(c) = [c EXCEPT !.ClosePos = z, !.Status = s]
  BY <1>1, <1>2 DEF ResetClose
<1>4. ResetOpen(c) = [c EXCEPT !.OpenPos = z, !.Status = o]
  BY <1>1, <1>2 DEF ResetOpen
<1> QED BY <1>1, <1>3, <1>4 DEF ClbType, Measured

LEMMA MarksOfTurns ==
  ASSUME Types
  PROVE  CalcClbAbsRev(turns) \in Int
<1>1. PICK g \in Nat \ {0} : g = GearRatio
  BY PositionAssumption
<1>2. PICK p \in Nat \ {0} : p = 2 ^ PosSensPow
  BY PositionAssumption
<1>3. turns \in Nat
  BY Parameters DEF Types
<1>4. turns * g * p \in Nat
  <2>1. PICK y \in Nat : y = turns * g
    BY <1>3
  <2>2. y * p \in Nat
    OBVIOUS
  <2> QED BY <2>1, <2>2
<1>5. PICK x \in Nat : x = turns * g * p
  BY <1>4
<1>6. x \div 1000 \in Nat
  OBVIOUS
<1> QED BY <1>1, <1>2, <1>5, <1>6 DEF CalcClbAbsRev

LEMMA AutoDoes ==
  ASSUME Types, NEW c \in ClbType, AutoSound(c), NEW muff \in BOOLEAN,
         NEW d, d = AutoNext(c, muff)
  PROVE  /\ d \in ClbType /\ Measured(c, d)
         /\ AutoSound(d)
         /\ d.AutoStep # 0 => c.AutoStep # 0
         /\ EndsKept(c, d) \/ d.Status # CLB_FLAG
              \/ EndSetNow(c, d)
<1>1. PICK rev \in Counts : rev = Revolution
  BY RevolutionType
<1>2. PICK none \in SUBSET Ends, first \in SUBSET Ends, all \in SUBSET Ends :
        none = {} /\ first = {"close"} /\ all = CLB_FLAG
  <2>1. {} \in SUBSET Ends /\ {"close"} \in SUBSET Ends /\ CLB_FLAG \in SUBSET Ends
    BY DEF Ends, CLB_FLAG
  <2> QED BY <2>1
<1>3. PICK s \in 0 .. 6 : s = c.AutoStep
  BY DEF ClbType
<1>4. PICK t \in Nat : t = MuffTime
  BY Parameters
<1>5. first # all
  BY <1>2 DEF CLB_FLAG, Ends
<1>6. \/ s = 1 /\ d = [c EXCEPT !.AutoCmd = "close", !.AutoStep = 2]
      \/ s \in {2, 5} /\ d = [c EXCEPT !.MuffTimer = t, !.AutoStep = s + 1]
      \/ /\ s \in {3, 6} /\ c.MuffTimer > 0
         /\ d = [c EXCEPT !.MuffTimer = c.MuffTimer - 1]
      \/ /\ s = 3
         /\ d = [c EXCEPT !.ClosePos = rev, !.Status = first,
                                          !.AutoCmd = "open", !.AutoStep = 4]
      \/ s = 4 /\ d = [c EXCEPT !.AutoStep = 5]
      \/ s = 6 /\ d = [c EXCEPT !.Status = none, !.AutoStep = 0]
      \/ /\ s = 6
         /\ d = [c EXCEPT !.OpenPos = rev, !.Status = all, !.AutoStep = 0]
      \/ d = c
  BY <1>1, <1>2, <1>3, <1>4 DEF AutoNext
<1>15. none # all /\ (s = 6 => c.Status # all)
  BY <1>2, <1>3 DEF CLB_FLAG, Ends, AutoSound
<1>7. CASE s = 1 /\ d = [c EXCEPT !.AutoCmd = "close", !.AutoStep = 2]
  <2>1. PICK p \in Counts, q \in Counts, st \in SUBSET Ends :
          p = c.ClosePos /\ q = c.OpenPos /\ st = c.Status
    BY <1>1, <1>2 DEF ClbType
  <2>2. PICK cmd \in {"none"} \cup Ends, step \in 0 .. 6, timer \in Nat :
          cmd = "close" /\ step = 2 /\ timer = c.MuffTimer
    BY <1>3, <1>4, <1>7 DEF ClbType, Ends
  <2>3. d = [c EXCEPT !.ClosePos = p, !.OpenPos = q, !.Status = st, !.AutoCmd = cmd,
                      !.AutoStep = step, !.MuffTimer = timer]
    BY <1>3, <1>7, <2>1, <2>2 DEF ClbType
  <2>4. /\ d \in ClbType /\ Measured(c, d)
        /\ d.ClosePos = p /\ d.OpenPos = q /\ d.Status = st /\ d.AutoStep = step
    <3>1. d \in ClbType
      BY <2>3 DEF ClbType
    <3> QED BY <2>3, <3>1 DEF ClbType, Measured
  <2> QED BY <1>3, <1>7, <2>1, <2>2, <2>4 DEF AutoSound, EndsKept
<1>8. CASE s \in {2, 5} /\ d = [c EXCEPT !.MuffTimer = t, !.AutoStep = s + 1]
  <2>1. PICK p \in Counts, q \in Counts, st \in SUBSET Ends :
          p = c.ClosePos /\ q = c.OpenPos /\ st = c.Status
    BY <1>1, <1>2 DEF ClbType
  <2>2. PICK cmd \in {"none"} \cup Ends, step \in 0 .. 6, timer \in Nat :
          cmd = c.AutoCmd /\ step = s + 1 /\ timer = t
    BY <1>3, <1>4, <1>8 DEF ClbType, Ends
  <2>3. d = [c EXCEPT !.ClosePos = p, !.OpenPos = q, !.Status = st, !.AutoCmd = cmd,
                      !.AutoStep = step, !.MuffTimer = timer]
    BY <1>3, <1>8, <2>1, <2>2 DEF ClbType
  <2>4. /\ d \in ClbType /\ Measured(c, d)
        /\ d.ClosePos = p /\ d.OpenPos = q /\ d.Status = st /\ d.AutoStep = step
    <3>1. d \in ClbType
      BY <2>3 DEF ClbType
    <3> QED BY <2>3, <3>1 DEF ClbType, Measured
  <2> QED BY <1>3, <1>8, <2>1, <2>2, <2>4 DEF AutoSound, EndsKept
<1>9. CASE /\ s \in {3, 6} /\ c.MuffTimer > 0
           /\ d = [c EXCEPT !.MuffTimer = c.MuffTimer - 1]
  <2>1. PICK p \in Counts, q \in Counts, st \in SUBSET Ends :
          p = c.ClosePos /\ q = c.OpenPos /\ st = c.Status
    BY <1>1, <1>2 DEF ClbType
  <2>2. PICK cmd \in {"none"} \cup Ends, step \in 0 .. 6, timer \in Nat :
          cmd = c.AutoCmd /\ step = s /\ timer = c.MuffTimer - 1
    BY <1>3, <1>4, <1>9 DEF ClbType, Ends
  <2>3. d = [c EXCEPT !.ClosePos = p, !.OpenPos = q, !.Status = st, !.AutoCmd = cmd,
                      !.AutoStep = step, !.MuffTimer = timer]
    BY <1>3, <1>9, <2>1, <2>2 DEF ClbType
  <2>4. /\ d \in ClbType /\ Measured(c, d)
        /\ d.ClosePos = p /\ d.OpenPos = q /\ d.Status = st /\ d.AutoStep = step
    <3>1. d \in ClbType
      BY <2>3 DEF ClbType
    <3> QED BY <2>3, <3>1 DEF ClbType, Measured
  <2> QED BY <1>3, <1>9, <2>1, <2>2, <2>4 DEF AutoSound, EndsKept
<1>10. CASE /\ s = 3
            /\ d = [c EXCEPT !.ClosePos = rev, !.Status = first,
                             !.AutoCmd = "open", !.AutoStep = 4]
  <2>1. PICK p \in Counts, q \in Counts, st \in SUBSET Ends :
          p = rev /\ q = c.OpenPos /\ st = first
    BY <1>1, <1>2 DEF ClbType
  <2>2. PICK cmd \in {"none"} \cup Ends, step \in 0 .. 6, timer \in Nat :
          cmd = "open" /\ step = 4 /\ timer = c.MuffTimer
    BY <1>3, <1>4, <1>10 DEF ClbType, Ends
  <2>3. d = [c EXCEPT !.ClosePos = p, !.OpenPos = q, !.Status = st, !.AutoCmd = cmd,
                      !.AutoStep = step, !.MuffTimer = timer]
    BY <1>3, <1>10, <2>1, <2>2 DEF ClbType
  <2>4. /\ d \in ClbType /\ Measured(c, d)
        /\ d.ClosePos = p /\ d.OpenPos = q /\ d.Status = st /\ d.AutoStep = step
    <3>1. d \in ClbType
      BY <2>3 DEF ClbType
    <3> QED BY <2>3, <3>1 DEF ClbType, Measured
  <2> QED BY <1>2, <1>5, <1>3, <1>10, <2>1, <2>2, <2>4 DEF AutoSound, EndsKept
<1>11. CASE s = 4 /\ d = [c EXCEPT !.AutoStep = 5]
  <2>1. PICK p \in Counts, q \in Counts, st \in SUBSET Ends :
          p = c.ClosePos /\ q = c.OpenPos /\ st = c.Status
    BY <1>1, <1>2 DEF ClbType
  <2>2. PICK cmd \in {"none"} \cup Ends, step \in 0 .. 6, timer \in Nat :
          cmd = c.AutoCmd /\ step = 5 /\ timer = c.MuffTimer
    BY <1>3, <1>4, <1>11 DEF ClbType, Ends
  <2>3. d = [c EXCEPT !.ClosePos = p, !.OpenPos = q, !.Status = st, !.AutoCmd = cmd,
                      !.AutoStep = step, !.MuffTimer = timer]
    BY <1>3, <1>11, <2>1, <2>2 DEF ClbType
  <2>4. /\ d \in ClbType /\ Measured(c, d)
        /\ d.ClosePos = p /\ d.OpenPos = q /\ d.Status = st /\ d.AutoStep = step
    <3>1. d \in ClbType
      BY <2>3 DEF ClbType
    <3> QED BY <2>3, <3>1 DEF ClbType, Measured
  <2> QED BY <1>3, <1>11, <2>1, <2>2, <2>4 DEF AutoSound, EndsKept
<1>12. CASE s = 6 /\ d = [c EXCEPT !.Status = none, !.AutoStep = 0]
  <2>1. PICK p \in Counts, q \in Counts, st \in SUBSET Ends :
          p = c.ClosePos /\ q = c.OpenPos /\ st = none
    BY <1>1, <1>2 DEF ClbType
  <2>2. PICK cmd \in {"none"} \cup Ends, step \in 0 .. 6, timer \in Nat :
          cmd = c.AutoCmd /\ step = 0 /\ timer = c.MuffTimer
    BY <1>3, <1>4, <1>12 DEF ClbType, Ends
  <2>3. d = [c EXCEPT !.ClosePos = p, !.OpenPos = q, !.Status = st, !.AutoCmd = cmd,
                      !.AutoStep = step, !.MuffTimer = timer]
    BY <1>3, <1>12, <2>1, <2>2 DEF ClbType
  <2>4. /\ d \in ClbType /\ Measured(c, d)
        /\ d.ClosePos = p /\ d.OpenPos = q /\ d.Status = st /\ d.AutoStep = step
    <3>1. d \in ClbType
      BY <2>3 DEF ClbType
    <3> QED BY <2>3, <3>1 DEF ClbType, Measured
  <2> QED BY <1>2, <1>15, <1>3, <1>12, <2>1, <2>2, <2>4 DEF AutoSound, EndsKept
<1>13. CASE /\ s = 6
            /\ d = [c EXCEPT !.OpenPos = rev, !.Status = all, !.AutoStep = 0]
  <2>1. PICK p \in Counts, q \in Counts, st \in SUBSET Ends :
          p = c.ClosePos /\ q = rev /\ st = all
    BY <1>1, <1>2 DEF ClbType
  <2>2. PICK cmd \in {"none"} \cup Ends, step \in 0 .. 6, timer \in Nat :
          cmd = c.AutoCmd /\ step = 0 /\ timer = c.MuffTimer
    BY <1>3, <1>4, <1>13 DEF ClbType, Ends
  <2>3. d = [c EXCEPT !.ClosePos = p, !.OpenPos = q, !.Status = st, !.AutoCmd = cmd,
                      !.AutoStep = step, !.MuffTimer = timer]
    BY <1>3, <1>13, <2>1, <2>2 DEF ClbType
  <2>4. /\ d \in ClbType /\ Measured(c, d)
        /\ d.ClosePos = p /\ d.OpenPos = q /\ d.Status = st /\ d.AutoStep = step
    <3>1. d \in ClbType
      BY <2>3 DEF ClbType
    <3> QED BY <2>3, <3>1 DEF ClbType, Measured
  <2> QED BY <1>1, <1>2, <1>15, <1>3, <1>13, <2>1, <2>2, <2>4 DEF AutoSound, EndSetNow
<1>14. CASE d = c
  BY <1>14 DEF Measured, EndsKept
<1> QED BY <1>6, <1>7, <1>8, <1>9, <1>10, <1>11, <1>12, <1>13, <1>14

LEMMA OneTask ==
  ASSUME Types, NEW t \in Tasks, tasks \subseteq {t}, AutoSound(clb), NEW muff \in BOOLEAN
  PROVE  Outcome(clb, TaskAuto(TaskRev(TaskOpen(TaskClose(clb))), muff))
<1> DEFINE closed == TaskClose(clb)
           opened == TaskOpen(closed)
           turned == TaskRev(opened)
<1>0. SUFFICES ASSUME NEW d, d = TaskAuto(turned, muff) PROVE Outcome(clb, d)
  OBVIOUS
<1>1. clb \in ClbType /\ Revolution \in Counts
  BY RevolutionType DEF Types
<1>2. tasks = {} \/ tasks = {t}
  OBVIOUS
<1>3. Measured(clb, clb) /\ EndsKept(clb, clb)
  BY DEF Measured, EndsKept
<1>4. CASE tasks \cap {"closeSet", "closeReset", "openSet", "openReset", "revOpen",
                       "revClose", "revAuto"} = {}
  <2>1. d = clb
    BY <1>0, <1>4 DEF TaskClose, TaskOpen, TaskRev, TaskAuto
  <2> QED BY <1>1, <1>3, <2>1 DEF Outcome
<1>5. CASE tasks \subseteq {"closeSet", "closeReset"}
  <2>1. d = closed
    BY <1>0, <1>5 DEF TaskOpen, TaskRev, TaskAuto
  <2>2. CASE closed = clb
    BY <1>1, <1>3, <2>1, <2>2 DEF Outcome
  <2>3. CASE closed = SetClose(clb, Revolution) /\ Accepts(clb, {"close"})
    <3>1. /\ SetClose(clb, Revolution) \in ClbType /\ Measured(clb, SetClose(clb, Revolution))
          /\ SetClose(clb, Revolution).Status = clb.Status \cup {"close"}
          /\ SetClose(clb, Revolution).ClosePos = Revolution
          /\ SetClose(clb, Revolution).AutoStep = clb.AutoStep
      BY <1>1, EndsSet
    <3> HIDE DEF closed
    <3>2. clb.Status # CLB_FLAG /\ clb.AutoStep = 0 /\ ~clb.ResetFlag
      BY <2>3 DEF Accepts, CLB_FLAG, Ends
    <3> QED BY <2>1, <2>3, <3>1, <3>2 DEF Outcome, AutoSound, EndSetNow
  <2>4. CASE closed = ResetClose(clb) /\ Accepts(clb, {})
    <3>1. /\ ResetClose(clb) \in ClbType /\ Measured(clb, ResetClose(clb))
          /\ ResetClose(clb).Status = clb.Status \cap {"open"}
          /\ ResetClose(clb).AutoStep = clb.AutoStep
      BY <1>1, EndsReset
    <3> HIDE DEF closed
    <3>2. ResetClose(clb).Status # CLB_FLAG /\ clb.AutoStep = 0
      BY <2>4, <3>1 DEF Accepts, CLB_FLAG, Ends
    <3> QED BY <2>1, <2>4, <3>1, <3>2 DEF Outcome, AutoSound
  <2> QED BY <2>2, <2>3, <2>4 DEF TaskClose
<1>6. CASE tasks \subseteq {"openSet", "openReset"}
  <2>1. closed = clb /\ d = TaskOpen(clb)
    BY <1>0, <1>6 DEF TaskClose, TaskRev, TaskAuto
  <2>2. CASE d = clb
    BY <1>1, <1>3, <2>2 DEF Outcome
  <2>3. CASE d = SetOpen(clb, Revolution) /\ Accepts(clb, {"open"})
    <3>1. /\ SetOpen(clb, Revolution) \in ClbType /\ Measured(clb, SetOpen(clb, Revolution))
          /\ SetOpen(clb, Revolution).Status = clb.Status \cup {"open"}
          /\ SetOpen(clb, Revolution).OpenPos = Revolution
          /\ SetOpen(clb, Revolution).AutoStep = clb.AutoStep
      BY <1>1, EndsSet
    <3>2. clb.Status # CLB_FLAG /\ clb.AutoStep = 0 /\ ~clb.ResetFlag
      BY <2>3 DEF Accepts, CLB_FLAG, Ends
    <3> QED BY <2>3, <3>1, <3>2 DEF Outcome, AutoSound, EndSetNow
  <2>4. CASE d = ResetOpen(clb) /\ Accepts(clb, {})
    <3>1. /\ ResetOpen(clb) \in ClbType /\ Measured(clb, ResetOpen(clb))
          /\ ResetOpen(clb).Status = clb.Status \cap {"close"}
          /\ ResetOpen(clb).AutoStep = clb.AutoStep
      BY <1>1, EndsReset
    <3>2. ResetOpen(clb).Status # CLB_FLAG /\ clb.AutoStep = 0
      BY <2>4, <3>1 DEF Accepts, CLB_FLAG, Ends
    <3> QED BY <2>4, <3>1, <3>2 DEF Outcome, AutoSound
  <2> QED BY <2>1, <2>2, <2>3, <2>4 DEF TaskOpen
<1>7. CASE tasks \subseteq {"revOpen", "revClose"}
  <2>1. opened = clb /\ d = TaskRev(clb)
    BY <1>0, <1>7 DEF TaskClose, TaskOpen, TaskAuto
  <2>2. CASE d = clb
    BY <1>1, <1>3, <2>2 DEF Outcome
  <2>3. PICK marks \in Int : marks = CalcClbAbsRev(turns)
    BY MarksOfTurns
  <2>4. PICK up \in Counts, down \in Counts :
          up = (Revolution + marks) % N /\ down = (Revolution - marks) % N
    <3>1. Revolution + marks \in Int /\ Revolution - marks \in Int
      BY <1>1, Circle DEF Counts
    <3> QED BY <3>1, ModIsCount
  <2>5. PICK far \in Counts : far = IF RodType THEN down ELSE up
    BY DEF Counts
  <2>6. PICK near \in Counts : near = IF RodType THEN up ELSE down
    BY DEF Counts
  <2>7. CASE d = SetOpen(SetClose(clb, Revolution), far) /\ Accepts(clb, CLB_FLAG)
    <3>1. /\ SetClose(clb, Revolution) \in ClbType /\ Measured(clb, SetClose(clb, Revolution))
          /\ SetClose(clb, Revolution).Status = clb.Status \cup {"close"}
          /\ SetClose(clb, Revolution).ClosePos = Revolution
          /\ SetClose(clb, Revolution).AutoStep = clb.AutoStep
      BY <1>1, EndsSet
    <3>2. PICK c : c = SetClose(clb, Revolution)
      OBVIOUS
    <3>3. /\ SetOpen(c, far) \in ClbType /\ Measured(c, SetOpen(c, far))
          /\ SetOpen(c, far).Status = c.Status \cup {"open"}
          /\ SetOpen(c, far).ClosePos = c.ClosePos
          /\ SetOpen(c, far).AutoStep = c.AutoStep
      BY <3>1, <3>2, EndsSet
    <3>4. clb.Status # CLB_FLAG /\ clb.AutoStep = 0 /\ ~clb.ResetFlag
      BY <2>7 DEF Accepts, CLB_FLAG, Ends
    <3>5. d.Status = CLB_FLAG
      BY <1>1, <2>7, <3>1, <3>2, <3>3 DEF CLB_FLAG, Ends, ClbType
    <3>6. Measured(clb, d)
      BY <2>7, <3>1, <3>2, <3>3 DEF Measured
    <3> QED BY <2>7, <3>1, <3>2, <3>3, <3>4, <3>5, <3>6 DEF Outcome, AutoSound, EndSetNow
  <2>8. CASE d = SetClose(SetOpen(clb, Revolution), near) /\ Accepts(clb, CLB_FLAG)
    <3>1. /\ SetOpen(clb, Revolution) \in ClbType /\ Measured(clb, SetOpen(clb, Revolution))
          /\ SetOpen(clb, Revolution).Status = clb.Status \cup {"open"}
          /\ SetOpen(clb, Revolution).OpenPos = Revolution
          /\ SetOpen(clb, Revolution).AutoStep = clb.AutoStep
      BY <1>1, EndsSet
    <3>2. PICK c : c = SetOpen(clb, Revolution)
      OBVIOUS
    <3>3. /\ SetClose(c, near) \in ClbType /\ Measured(c, SetClose(c, near))
          /\ SetClose(c, near).Status = c.Status \cup {"close"}
          /\ SetClose(c, near).OpenPos = c.OpenPos
          /\ SetClose(c, near).AutoStep = c.AutoStep
      BY <3>1, <3>2, EndsSet
    <3>4. clb.Status # CLB_FLAG /\ clb.AutoStep = 0 /\ ~clb.ResetFlag
      BY <2>8 DEF Accepts, CLB_FLAG, Ends
    <3>5. d.Status = CLB_FLAG
      BY <1>1, <2>8, <3>1, <3>2, <3>3 DEF CLB_FLAG, Ends, ClbType
    <3>6. Measured(clb, d)
      BY <2>8, <3>1, <3>2, <3>3 DEF Measured
    <3> QED BY <2>8, <3>1, <3>2, <3>3, <3>4, <3>5, <3>6 DEF Outcome, AutoSound, EndSetNow
  <2> QED BY <2>1, <2>2, <2>3, <2>4, <2>5, <2>6, <2>7, <2>8 DEF TaskRev
<1>8. CASE tasks \subseteq {"revAuto"}
  <2>1. turned = clb
    BY <1>8 DEF TaskClose, TaskOpen, TaskRev
  <2>2. CASE d = clb
    BY <1>1, <1>3, <2>2 DEF Outcome
  <2>3. CASE ~Accepts(clb, CLB_FLAG) /\ d = AutoNext(clb, muff)
    BY <1>1, <2>3, AutoDoes DEF Outcome
  <2>4. CASE Accepts(clb, CLB_FLAG) /\ d = AutoNext([clb EXCEPT !.AutoStep = 1, !.RevAuto = turns], muff)
    <3>1. PICK one \in 0 .. 6, n \in Nat : one = 1 /\ n = turns
      BY Parameters DEF Types
    <3>2. PICK c : c = [clb EXCEPT !.AutoStep = one, !.RevAuto = n]
      OBVIOUS
    <3>3. /\ c \in ClbType /\ Measured(clb, c) /\ EndsKept(clb, c) /\ c.AutoStep = 1
          /\ c.Status = clb.Status
      BY <1>1, <3>1, <3>2 DEF ClbType, Measured, EndsKept
    <3>4. clb.Status = {} /\ clb.AutoStep = 0 /\ ~clb.ResetFlag /\ clb.Status # CLB_FLAG
      BY <1>1, <2>4 DEF Accepts, CLB_FLAG, ClbType, Ends
    <3>5. AutoSound(c)
      BY <3>3, <3>4 DEF AutoSound
    <3>6. d = AutoNext(c, muff)
      BY <2>4, <3>1, <3>2
    <3>7. /\ d \in ClbType /\ Measured(c, d) /\ AutoSound(d)
          /\ EndsKept(c, d) \/ d.Status # CLB_FLAG \/ EndSetNow(c, d)
      BY <3>3, <3>5, <3>6, AutoDoes
    <3>8. Measured(clb, d)
      BY <3>3, <3>7 DEF Measured
    <3>9. EndsKept(c, d) => EndsKept(clb, d)
      BY <3>3 DEF EndsKept
    <3>10. EndSetNow(c, d) => EndSetNow(clb, d)
      BY <3>3, <3>4 DEF EndSetNow
    <3> QED BY <3>4, <3>7, <3>8, <3>9, <3>10 DEF Outcome
  <2> QED BY <1>0, <1>8, <2>1, <2>2, <2>3, <2>4 DEF TaskAuto, AutoNext
<1> HIDE DEF turned, opened, closed
<1> QED BY <1>2, <1>4, <1>5, <1>6, <1>7, <1>8 DEF Tasks

LEMMA CalibrationDoes ==
  ASSUME Types, TasksInv, AutoSound(clb), Calibration
  PROVE  Outcome(clb, clb')
<1>1. PICK muff \in BOOLEAN : clb' = TaskAuto(TaskRev(TaskOpen(TaskClose(clb))), muff)
  BY DEF Calibration
<1>2. CASE \E t \in Tasks : tasks \subseteq {t}
  BY <1>1, <1>2, OneTask
<1>3. CASE tasks = {"closeReset", "openReset"}
  <2> DEFINE closed == TaskClose(clb)
             d == TaskOpen(closed)
  <2>1. clb' = d
    BY <1>1, <1>3 DEF TaskRev, TaskAuto
  <2>2. clb \in ClbType
    BY DEF Types
  <2>3. Measured(clb, clb) /\ EndsKept(clb, clb)
    BY DEF Measured, EndsKept
  <2>4. CASE Accepts(clb, {})
    <3>1. closed = ResetClose(clb)
      BY <1>3, <2>4 DEF TaskClose
    <3>2. /\ ResetClose(clb) \in ClbType /\ Measured(clb, ResetClose(clb))
          /\ ResetClose(clb).Status = clb.Status \cap {"open"}
          /\ ResetClose(clb).AutoStep = clb.AutoStep
      BY <2>2, EndsReset
    <3>3. PICK c : c = ResetClose(clb)
      OBVIOUS
    <3>4. c \in ClbType /\ Measured(clb, c) /\ c.Status = clb.Status \cap {"open"} /\ c.AutoStep = 0
      BY <2>4, <3>2, <3>3 DEF Accepts
    <3>5. /\ ResetOpen(c) \in ClbType /\ Measured(c, ResetOpen(c))
          /\ ResetOpen(c).Status = c.Status \cap {"close"}
          /\ ResetOpen(c).AutoStep = c.AutoStep
      BY <3>4, EndsReset
    <3>6. d = c \/ d = ResetOpen(c)
      BY <1>3, <3>1, <3>3 DEF TaskOpen
    <3>7. c.Status # CLB_FLAG /\ ResetOpen(c).Status # CLB_FLAG
      BY <3>4, <3>5 DEF CLB_FLAG, Ends
    <3>8. Measured(clb, ResetOpen(c))
      BY <3>4, <3>5 DEF Measured
    <3> HIDE DEF d
    <3> QED BY <2>1, <3>4, <3>5, <3>6, <3>7, <3>8 DEF Outcome, AutoSound
  <2>5. CASE ~Accepts(clb, {})
    <3>1. d = clb
      BY <1>3, <2>5 DEF TaskClose, TaskOpen
    <3> QED BY <2>1, <2>2, <2>3, <3>1 DEF Outcome
  <2> QED BY <2>4, <2>5
<1> QED BY <1>2, <1>3 DEF TasksInv

-----------------------------------------------------------------------------
(* Types, tasks and the automatic calibration in every step.               *)
Basic == Types /\ TasksInv /\ AutoSound(clb)

LEMMA DataTypes ==
  ASSUME NEW e \in Counts, NEW data \in Counts, NEW r \in Counts
  PROVE  (IF Jump(Abs(data - e)) THEN r ELSE data) \in Counts
  OBVIOUS

LEMMA HaltedType ==
  ASSUME Types
  PROVE  /\ Halted \in DriveType /\ [Halted EXCEPT !.word = "none"] \in DriveType
         /\ Halted.dir = "stop" /\ Halted.rest = 0
         /\ [Halted EXCEPT !.word = "none"].dir = "stop"
         /\ [Halted EXCEPT !.word = "none"].rest = 0
         /\ ~Halted.inside /\ ~[Halted EXCEPT !.word = "none"].inside
<1>1. PICK undef \in Int : undef = POS_UNDEF
  BY DEF POS_UNDEF
<1>6. PICK r \in 0 .. REST : r = 0
  BY Parameters
<1>7. PICK f \in BOOLEAN : f = FALSE
  OBVIOUS
<1>2. PICK d : d = [drive EXCEPT !.dir = "stop", !.target = undef, !.rest = r, !.inside = f]
  OBVIOUS
<1>3. d \in DriveType /\ d.dir = "stop" /\ d.rest = r /\ d.inside = f
  BY <1>2 DEF Types, DriveType
<1>4. Halted = d
  BY <1>1, <1>2, <1>6, <1>7 DEF Halted
<1>5. [d EXCEPT !.word = "none"] \in DriveType /\ [d EXCEPT !.word = "none"].dir = "stop"
      /\ [d EXCEPT !.word = "none"].rest = r /\ [d EXCEPT !.word = "none"].inside = f
  BY <1>3 DEF DriveType
<1> QED BY <1>3, <1>4, <1>5, <1>6, <1>7

LEMMA TurnedType ==
  ASSUME Types, NEW to
  PROVE  Turned(to) \subseteq Counts
<1>1. (shaft + 1) % N \in Counts /\ (shaft - 1) % N \in Counts
  <2>1. shaft + 1 \in Int /\ shaft - 1 \in Int
    BY Circle DEF Types, Counts
  <2> QED BY <2>1, ModIsCount
<1>2. shaft \in Counts
  BY DEF Types
<1> QED BY <1>1, <1>2 DEF Turned

(* What is set besides the tasks of the list moves nothing.                *)
Settings == TsSignalization \/ CameraWritten

LEMMA SettingsDo ==
  ASSUME Types, Settings
  PROVE  /\ UNCHANGED <<sensorVars, clb, tasks, turns, listVars>>
         /\ slot' = slot /\ rounds' = rounds /\ shaft' = shaft /\ good' = good
         /\ EndsKept(clb, clb') /\ Measured(clb, clb') /\ drive' \in DriveType
         /\ drive'.dir = drive.dir /\ drive'.target = drive.target
         /\ drive'.ends = drive.ends /\ drive'.rest = drive.rest
         /\ drive'.inside => drive.inside /\ TestCamera' = TestCamera
<1>1. UNCHANGED <<sensorVars, clb, tasks, turns, listVars>>
  BY DEF Settings, TsSignalization, CameraWritten
<1>2. /\ slot' = slot /\ rounds' = rounds /\ shaft' = shaft /\ good' = good
      /\ EndsKept(clb, clb') /\ Measured(clb, clb')
  BY <1>1 DEF sensorVars, listVars, EndsKept, Measured
<1>3. CASE drive' = drive /\ TestCamera' = TestCamera
  BY <1>1, <1>2, <1>3 DEF Types
<1>4. CASE drive' = [drive EXCEPT !.inside = FALSE]
  <2>1. PICK f \in BOOLEAN : f = FALSE
    OBVIOUS
  <2>2. drive' = [drive EXCEPT !.inside = f]
    BY <1>4, <2>1
  <2>3. /\ drive' \in DriveType /\ drive'.inside = f
        /\ drive'.dir = drive.dir /\ drive'.target = drive.target
        /\ drive'.ends = drive.ends /\ drive'.rest = drive.rest
    BY <2>2 DEF Types, DriveType
  <2> QED BY <1>1, <1>2, <2>1, <2>3
<1> QED BY <1>3, <1>4 DEF Settings, TsSignalization, CameraWritten

LEMMA BasicNext ==
  ASSUME Basic, [Next]_vars
  PROVE  Basic'
<1> USE DEF Basic
<1>1. CASE DefineCalibParams
  <2>1. clb' \in ClbType
    BY <1>1, LocatedType DEF DefineCalibParams
  <2>2. clb'.AutoStep = clb.AutoStep /\ clb'.Status = clb.Status
    <3>1. clb \in ClbType
      BY DEF Types
    <3>2. FindStroke(clb).AutoStep = clb.AutoStep /\ FindStroke(clb).Status = clb.Status
      BY <3>1 DEF FindStroke, ClbType
    <3>3. OnStroke(clb).AutoStep = clb.AutoStep /\ OnStroke(clb).Status = clb.Status
      BY <3>1 DEF OnStroke, ClbType
    <3>4. FromOneEnd(clb).AutoStep = clb.AutoStep /\ FromOneEnd(clb).Status = clb.Status
      BY <3>1 DEF FromOneEnd, ClbType
    <3>5. clb' = Located(clb)
      BY <1>1 DEF DefineCalibParams
    <3> QED BY <3>1, <3>2, <3>3, <3>4, <3>5 DEF Located, ClbType
  <2> QED BY <1>1, <2>1, <2>2
          DEF DefineCalibParams, sensorVars, settings, Types, Slots, AutoSound, TasksInv
<1>2. CASE ClbControl
  <2>1. PICK f \in BOOLEAN : f = ~Stopped
    OBVIOUS
  <2>2. clb' = [clb EXCEPT !.ResetFlag = f, !.AutoCmd = "none"]
    BY <1>2, <2>1 DEF ClbControl
  <2>3. clb' \in ClbType /\ clb'.AutoStep = clb.AutoStep /\ clb'.Status = clb.Status
    BY <2>2 DEF Types, ClbType
  <2>4. PICK w \in {"none"} \cup Ends : w = IF clb.AutoCmd \in Ends THEN clb.AutoCmd ELSE drive.word
    BY DEF Types, DriveType
  <2>5. drive' = [drive EXCEPT !.ends = clb.Zone, !.word = w]
    BY <1>2, <2>4 DEF ClbControl
  <2>6. drive' \in DriveType
    BY <2>5 DEF Types, DriveType, ClbType
  <2>7. tasks' \subseteq Tasks /\ TasksInv'
    <3>1. tasks' = tasks \/ tasks' = {} \/ tasks' = {"closeReset", "openReset"}
      BY <1>2 DEF ClbControl
    <3> QED BY <3>1 DEF Types, TasksInv, Tasks
  <2> QED BY <1>2, <2>3, <2>6, <2>7
          DEF ClbControl, sensorVars, settings, Types, Slots, AutoSound
<1>3. CASE CalibStop
  <2>1. drive' \in DriveType
    BY <1>3, HaltedType DEF CalibStop, Types
  <2> QED BY <1>3, <2>1 DEF CalibStop, sensorVars, settings, Types, Slots, AutoSound, TasksInv
<1>4. CASE EncoderUpdate
  <2>1. shaft' \in Counts
    BY <1>4, TurnedType DEF EncoderUpdate
  <2>3. EncoderData' \in Counts /\ revolution' \in Counts /\ good' \in 0 .. GoodRun
    <3>1. good \in 0 .. GoodRun /\ EncoderData \in Counts /\ revolution \in Counts
      BY DEF Types
    <3>2. CASE GetData(shaft') /\ good' = IF good < GoodRun THEN good + 1 ELSE good
      BY <2>1, <3>1, <3>2, Parameters DEF GetData
    <3>3. CASE good = GoodRun /\ good' = 0 /\ \E off \in BadBy : GetData((shaft' + off) % N)
      <4>1. PICK off \in BadBy : GetData((shaft' + off) % N)
        BY <3>3
      <4>2. (shaft' + off) % N \in Counts
        <5>1. shaft' + off \in Int
          BY <2>1, PositionAssumption DEF Counts
        <5> QED BY <5>1, ModIsCount
      <4> QED BY <3>1, <3>3, <4>1, <4>2, Parameters DEF GetData
    <3> QED BY <1>4, <3>2, <3>3 DEF EncoderUpdate
  <2>4. rounds' \in 0 .. ROUNDS
    BY <1>4, Parameters DEF EncoderUpdate, Types
  <2>5. drive' \in DriveType
    <3>1. PICK r \in 0 .. REST : r = IF Stopped /\ drive.rest < REST THEN drive.rest + 1 ELSE drive.rest
      BY Parameters DEF Types, DriveType
    <3>2. drive' = [drive EXCEPT !.rest = r]
      BY <1>4, <3>1 DEF EncoderUpdate
    <3> QED BY <3>2 DEF Types, DriveType
  <2> QED BY <1>4, <2>1, <2>3, <2>4, <2>5
          DEF EncoderUpdate, settings, Types, Slots, AutoSound, TasksInv
<1>5. CASE Calibration
  <2>1. Outcome(clb, clb')
    BY <1>5, CalibrationDoes
  <2>2. tasks' \subseteq {"calibReset"} /\ rounds' \in 0 .. ROUNDS
    BY <1>5, Parameters DEF Calibration
  <2>3. TasksInv' /\ tasks' \subseteq Tasks
    BY <2>2 DEF TasksInv, Tasks
  <2> QED BY <1>5, <2>1, <2>2, <2>3 DEF Calibration, sensorVars, settings, Types, Outcome
<1>6. CASE ValveDrive
  <2>1. drive' \in DriveType
    <3>1. CASE \E end \in Ends :
                 drive' = [drive EXCEPT !.dir = end, !.target = Target(end),
                                        !.word = "none", !.inside = OnTheStroke /\ ~TestCamera]
      <4>1. PICK end \in Ends : drive' = [drive EXCEPT !.dir = end, !.target = Target(end),
                                        !.word = "none", !.inside = OnTheStroke /\ ~TestCamera]
        BY <3>1
      <4>2. PICK target \in Int : target = Target(end)
        BY DEF Target, POS_UNDEF, Types, ClbType
      <4>3. PICK in \in BOOLEAN : in = (OnTheStroke /\ ~TestCamera)
        OBVIOUS
      <4>4. drive' = [drive EXCEPT !.dir = end, !.target = target, !.word = "none", !.inside = in]
        BY <4>1, <4>2, <4>3
      <4> QED BY <4>4 DEF Types, DriveType
    <3>2. CASE drive' = [Halted EXCEPT !.word = "none"]
      BY <3>2, HaltedType
    <3>3. CASE drive' = [drive EXCEPT !.word = "none"]
      BY <3>3 DEF Types, DriveType
    <3> QED BY <1>6, <3>1, <3>2, <3>3 DEF ValveDrive, ValveDriveUpdate
  <2> QED BY <1>6, <2>1 DEF ValveDrive, sensorVars, listVars, settings, Types, AutoSound, TasksInv
<1>7. CASE Operator
  <2>1. TasksInv' /\ tasks' \subseteq Tasks /\ turns' \in Turns
    BY <1>7, Parameters DEF Operator, TasksInv
  <2> QED BY <1>7, <2>1 DEF Operator, sensorVars, listVars, settings, Types, AutoSound
<1>8. CASE UNCHANGED vars
  BY <1>8 DEF vars, sensorVars, listVars, settings, Types, AutoSound, TasksInv
<1>9. CASE Settings
  <2>1. Types'
    <3>1. UNCHANGED <<sensorVars, clb, tasks, turns, listVars>> /\ drive' \in DriveType
      BY <1>9, SettingsDo
    <3>2. TestCamera' \in BOOLEAN /\ PositionAccTmp' \in {0, PositionAcc}
      BY <1>9 DEF Settings, TsSignalization, CameraWritten, Types
    <3> QED BY <3>1, <3>2 DEF Types, sensorVars, listVars
  <2> QED BY <1>9, <2>1, SettingsDo DEF AutoSound, TasksInv
<1> QED BY <1>1, <1>2, <1>3, <1>4, <1>5, <1>6, <1>7, <1>8, <1>9 DEF Next, Settings

-----------------------------------------------------------------------------
(* The stroke, once found, is the one between the ends; and Calibration    *)
(* runs so seldom that a stroke left from before does not meet new ends.   *)
FoundStroke == CalcClbGearRev(Stroke) \div 2 > PositionAcc

Early == rounds = 0 \/ (rounds = 1 /\ slot = "DefineCalibParams")

FreshInv ==
  /\ clb.Status = CLB_FLAG /\ clb.FullStep # 0 =>
       /\ clb.FullStep = Stroke /\ clb.BasePos = Opposite(clb)
       /\ clb.FullWay = CalcClbGearRev(Stroke)
  /\ clb.Status # CLB_FLAG /\ clb.FullStep # 0 => Early

LEMMA NoStroke ==
  ASSUME FoundStroke
  PROVE  Stroke # 0
<1>1. 0 \div 2 = 0
  OBVIOUS
<1>2. CalcClbGearRev(0) \div 2 = 0
  BY <1>1, GearOfNothing
<1> QED BY <1>2, Parameters DEF FoundStroke

LEMMA LocatedFields ==
  ASSUME Types, NEW d, d = Located(clb)
  PROVE  /\ d.Status = clb.Status /\ d.ClosePos = clb.ClosePos /\ d.OpenPos = clb.OpenPos
         /\ d.ResetFlag = clb.ResetFlag /\ d.AutoStep = clb.AutoStep
         /\ clb.Status = CLB_FLAG /\ clb.FullStep = 0 /\ FoundStroke =>
              /\ d.FullStep = Stroke /\ d.FullWay = CalcClbGearRev(Stroke)
              /\ d.BasePos = Opposite(clb) /\ d.Zone = {} /\ d.LinePos = clb.LinePos
         /\ clb.Status = CLB_FLAG /\ clb.FullStep = 0 =>
              \/ d.FullStep = 0
              \/ /\ d.FullStep = Stroke /\ d.FullWay = CalcClbGearRev(Stroke)
                 /\ d.BasePos = Opposite(clb)
         /\ clb.Status = CLB_FLAG /\ clb.FullStep # 0 =>
              /\ d.FullStep = clb.FullStep /\ d.FullWay = clb.FullWay /\ d.BasePos = clb.BasePos
              /\ d.LinePos = LinePosition(clb, Along(Revolution), Along(clb.ClosePos))
              /\ d.Zone = Zones(clb, CalcClbGearRev(d.LinePos))
         /\ clb.Status # CLB_FLAG => d.FullStep = 0
<1>1. clb \in ClbType
  BY DEF Types
<1>2. CASE clb.Status = CLB_FLAG /\ clb.FullStep = 0
  <2>1. PICK step, way, base : step = Stroke /\ way = CalcClbGearRev(step) /\ base = Opposite(clb)
    OBVIOUS
  <2>2. step = (Along(clb.OpenPos) - Along(clb.ClosePos)) % N
    <3>1. 0 \in Counts /\ EndTypes
      BY SomeCount, StrokeType
    <3> QED BY <2>1, <3>1, WayTypes
  <2>3. d = IF way \div 2 <= PositionAccTmp
            THEN [clb EXCEPT !.FullStep = 0, !.FullWay = way, !.BasePos = 0, !.Zone = CLB_FLAG]
            ELSE [clb EXCEPT !.FullStep = step, !.FullWay = way, !.Zone = {}, !.BasePos = base]
    <3>1. d = FindStroke(clb)
      BY <1>2 DEF Located, CLB_FLAG, Ends
    <3> QED BY <2>1, <2>2, <3>1 DEF FindStroke, Opposite
  <2>4. FoundStroke => ~(way \div 2 <= PositionAccTmp)
    <3>1. Stroke \in Int
      BY StrokeType, Circle
    <3>2. way \in Int
      BY <2>1, <3>1, GearOrdered
    <3>3. PICK h \in Int : h = way \div 2
      BY <3>2
    <3> QED BY <2>1, <3>3, Accuracy, Parameters DEF FoundStroke
  <2>5. CASE ~(way \div 2 <= PositionAccTmp)
    <3>1. d = [clb EXCEPT !.FullStep = step, !.FullWay = way, !.Zone = {}, !.BasePos = base]
      BY <2>3, <2>5
    <3> QED BY <1>1, <1>2, <2>1, <3>1 DEF ClbType
  <2>6. CASE way \div 2 <= PositionAccTmp
    <3>1. d = [clb EXCEPT !.FullStep = 0, !.FullWay = way, !.BasePos = 0, !.Zone = CLB_FLAG]
      BY <2>3, <2>6
    <3> QED BY <1>1, <1>2, <2>4, <2>6, <3>1 DEF ClbType
  <2> QED BY <2>5, <2>6
<1>3. CASE clb.Status = CLB_FLAG /\ clb.FullStep # 0
  <2>1. PICK line : line = LinePosition(clb, Along(Revolution), Along(clb.ClosePos))
    OBVIOUS
  <2>2. PICK zone : zone = Zones(clb, CalcClbGearRev(line))
    OBVIOUS
  <2>3. d = [clb EXCEPT !.LinePos = line, !.Zone = zone]
    <3>1. d = OnStroke(clb)
      BY <1>3 DEF Located, CLB_FLAG, Ends
    <3> QED BY <2>1, <2>2, <3>1 DEF OnStroke
  <2> QED BY <1>1, <1>3, <2>1, <2>2, <2>3 DEF ClbType
<1>4. CASE clb.Status = {}
  <2>1. clb.Status # CLB_FLAG
    BY <1>4 DEF CLB_FLAG, Ends
  <2>2. d = [clb EXCEPT !.FullStep = 0, !.FullWay = 9999, !.BasePos = 0, !.Zone = {}]
    BY <1>4, <2>1 DEF Located
  <2> QED BY <1>1, <2>1, <2>2 DEF ClbType
<1>5. CASE clb.Status # {} /\ clb.Status # CLB_FLAG
  <2>1. d = FromOneEnd(clb)
    BY <1>5 DEF Located
  <2>2. PICK line : line = IF "close" \in clb.Status
                           THEN (Along(Revolution) - Along(clb.ClosePos)) % N
                           ELSE (Along(clb.OpenPos) - Along(Revolution)) % N
    OBVIOUS
  <2>3. PICK zone : zone = IF CalcClbGearRev(line) <= PositionAccTmp THEN clb.Status ELSE {}
    OBVIOUS
  <2>4. d = [clb EXCEPT !.FullStep = 0, !.FullWay = 9999, !.BasePos = 0,
                        !.LinePos = line, !.Zone = zone]
    BY <2>1, <2>2, <2>3 DEF FromOneEnd
  <2> QED BY <1>1, <1>5, <2>4 DEF ClbType
<1> QED BY <1>2, <1>3, <1>4, <1>5

LEMMA FreshInit ==
  ASSUME Init
  PROVE  FreshInv
<1>1. clb.Status = {} /\ clb.FullStep = 0
  BY DEF Init
<1> QED BY <1>1 DEF FreshInv

(* Where neither the ends nor what was found of them changes, the stroke   *)
(* stays.                                                                  *)
SameEnds == EndsKept(clb, clb') /\ Measured(clb, clb')

LEMMA SameStroke ==
  ASSUME EndsKept(clb, clb')
  PROVE  /\ Stroke' = Stroke /\ Opposite(clb)' = Opposite(clb) /\ (FoundStroke' <=> FoundStroke)
         /\ \A m : Ways(m)' = Ways(m) /\ Far(m)' = Far(m)
<1>1. Stroke' = Stroke
  BY DEF EndsKept, Stroke
<1> QED BY <1>1 DEF EndsKept, Ways, Opposite, FoundStroke, Far

LEMMA FreshSame ==
  ASSUME FreshInv, SameEnds, Early => Early'
  PROVE  FreshInv'
<1>1. /\ Stroke' = Stroke /\ Opposite(clb)' = Opposite(clb) /\ (FoundStroke' <=> FoundStroke)
  BY SameStroke DEF SameEnds
<1> QED BY <1>1 DEF FreshInv, SameEnds, EndsKept, Measured, listVars

LEMMA FreshNext ==
  ASSUME Basic, FreshInv, [Next]_vars
  PROVE  FreshInv'
<1> USE DEF Basic
<1>1. CASE DefineCalibParams
  <2>1. PICK d : d = clb' /\ d = Located(clb)
    BY <1>1 DEF DefineCalibParams
  <2>2. EndsKept(clb, clb')
    BY <2>1, LocatedFields DEF EndsKept
  <2>3. /\ Stroke' = Stroke /\ Opposite(clb)' = Opposite(clb) /\ (FoundStroke' <=> FoundStroke)
    BY <2>2, SameStroke
  <2>4. CASE clb.Status # CLB_FLAG
    <3>1. clb'.FullStep = 0 /\ clb'.Status # CLB_FLAG
      BY <2>1, <2>4, LocatedFields
    <3> QED BY <3>1 DEF FreshInv
  <2>5. CASE clb.Status = CLB_FLAG /\ clb.FullStep # 0
    <3>1. /\ clb'.FullStep = clb.FullStep /\ clb'.FullWay = clb.FullWay
          /\ clb'.BasePos = clb.BasePos /\ clb'.Status = CLB_FLAG
      BY <2>1, <2>5, LocatedFields
    <3> QED BY <2>3, <2>5, <3>1 DEF FreshInv
  <2>6. CASE clb.Status = CLB_FLAG /\ clb.FullStep = 0
    <3>1. /\ clb'.Status = CLB_FLAG
          /\ \/ clb'.FullStep = 0
             \/ /\ clb'.FullStep = Stroke /\ clb'.FullWay = CalcClbGearRev(Stroke)
                /\ clb'.BasePos = Opposite(clb)
      BY <2>1, <2>6, LocatedFields
    <3> QED BY <2>3, <2>6, <3>1 DEF FreshInv
  <2> QED BY <2>4, <2>5, <2>6
<1>2. CASE ClbControl
  <2>1. PICK f : f = ~Stopped
    OBVIOUS
  <2>2. clb' = [clb EXCEPT !.ResetFlag = f, !.AutoCmd = "none"]
    BY <1>2, <2>1 DEF ClbControl
  <2>3. EndsKept(clb, clb') /\ clb'.FullStep = clb.FullStep /\ clb'.FullWay = clb.FullWay
        /\ clb'.BasePos = clb.BasePos
    BY <2>2 DEF Types, ClbType, EndsKept
  <2>4. /\ Stroke' = Stroke /\ Opposite(clb)' = Opposite(clb) /\ (FoundStroke' <=> FoundStroke)
    BY <2>3, SameStroke
  <2>5. Early => Early'
    BY <1>2 DEF ClbControl, Early
  <2> QED BY <2>3, <2>4, <2>5 DEF FreshInv, EndsKept
<1>3. CASE CalibStop
  <2>1. SameEnds /\ (Early => Early')
    BY <1>3 DEF CalibStop, SameEnds, EndsKept, Measured, Early
  <2> QED BY <2>1, FreshSame
<1>4. CASE EncoderUpdate
  <2>1. SameEnds
    BY <1>4 DEF EncoderUpdate, SameEnds, EndsKept, Measured
  <2>2. /\ Stroke' = Stroke /\ Opposite(clb)' = Opposite(clb) /\ (FoundStroke' <=> FoundStroke)
    BY <2>1, SameStroke DEF SameEnds
  <2>3. Early => Early'
    BY <1>4, Parameters DEF EncoderUpdate, Early
  <2> QED BY <2>1, <2>2, <2>3 DEF FreshInv, SameEnds, EndsKept, Measured
<1>5. CASE Calibration
  <2>1. Outcome(clb, clb') /\ rounds = ROUNDS /\ rounds' = 0 /\ ROUNDS >= 2
    BY <1>5, CalibrationDoes, EndsAssumption DEF Calibration
  <2>2. CASE EndsKept(clb, clb')
    <3>1. SameEnds /\ (Early => Early')
      BY <2>1, <2>2 DEF Outcome, SameEnds, Early
    <3> QED BY <3>1, FreshSame
  <2>3. CASE clb'.Status # CLB_FLAG
    BY <2>1, <2>3 DEF FreshInv, Early
  <2>4. CASE EndSetNow(clb, clb')
    <3>1. clb.FullStep = 0
      BY <2>1, <2>4 DEF EndSetNow, FreshInv, Early
    <3> QED BY <2>1, <3>1 DEF FreshInv, Outcome, Measured
  <2> QED BY <2>1, <2>2, <2>3, <2>4 DEF Outcome
<1>6. CASE ValveDrive
  <2>1. SameEnds /\ (Early => Early')
    BY <1>6 DEF ValveDrive, SameEnds, EndsKept, Measured, listVars, Early
  <2> QED BY <2>1, FreshSame
<1>7. CASE Operator
  <2>1. SameEnds /\ (Early => Early')
    BY <1>7 DEF Operator, SameEnds, EndsKept, Measured, listVars, Early
  <2> QED BY <2>1, FreshSame
<1>8. CASE UNCHANGED vars
  <2>1. SameEnds /\ (Early => Early')
    BY <1>8 DEF vars, SameEnds, EndsKept, Measured, listVars, Early
  <2> QED BY <2>1, FreshSame
<1>9. CASE Settings
  <2>1. SameEnds /\ (Early => Early')
    BY <1>9, SettingsDo DEF SameEnds, Early
  <2> QED BY <2>1, FreshSame
<1> QED BY <1>1, <1>2, <1>3, <1>4, <1>5, <1>6, <1>7, <1>8, <1>9 DEF Next, Settings

LEMMA BasicInit ==
  ASSUME Init
  PROVE  Basic
<1>1. tasks \subseteq {"calibReset"} /\ clb.AutoStep = 0
  BY DEF Init
<1>2. TasksInv
  BY <1>1 DEF TasksInv, Tasks
<1>3. AutoSound(clb)
  BY <1>1 DEF AutoSound
<1> QED BY <1>2, <1>3, TypesInit DEF Basic

(* The position sensor, the calibration and the drive keep their types.    *)
THEOREM PositionTypesHold == Spec => []TypeOK
<1>1. Init => Basic
  BY BasicInit
<1>2. Basic /\ [Next]_vars => Basic'
  BY BasicNext
<1>3. Basic => TypeOK
  BY DEF Basic, Types, TypeOK, ClbType, Counts
<1> QED BY <1>1, <1>2, <1>3, PTL DEF Spec

(* PlaceFound: DefineCalibParams finds the place on the stroke, wherever   *)
(* the ends, the zero of the sensor and the position lie on the circle.    *)
THEOREM PlaceIsFound == Spec => PlaceFound
<1> DEFINE Inv == Basic /\ FreshInv
<1>1. Init => Inv
  BY BasicInit, FreshInit
<1>2. Inv /\ [Next]_vars => Inv'
  BY BasicNext, FreshNext
<1>3. Inv /\ [Next]_vars =>
        [slot = "DefineCalibParams" /\ slot' # slot /\ clb.FullStep # 0
           /\ clb.Status = CLB_FLAG
           => clb'.LinePos \in Places(Revolution, 8)]_vars
  <2>1. SUFFICES ASSUME Basic, FreshInv, [Next]_vars, slot = "DefineCalibParams", slot' # slot,
                        clb.FullStep # 0, clb.Status = CLB_FLAG
                 PROVE  clb'.LinePos \in Places(Revolution, 8)
    OBVIOUS
  <2>2. DefineCalibParams
    BY <2>1 DEF Next, ClbControl, CalibStop, EncoderUpdate, Calibration, ValveDrive, Operator,
       TsSignalization, CameraWritten, vars, listVars
  <2>3. PICK d : d = clb' /\ d = Located(clb)
    BY <2>2 DEF DefineCalibParams
  <2>4. clb'.LinePos = LinePosition(clb, Along(Revolution), Along(clb.ClosePos))
    BY <2>1, <2>3, LocatedFields DEF Basic
  <2>5. EndTypes /\ Revolution \in Counts
    BY <2>1, StrokeType, RevolutionType DEF Basic
  <2>6. clb.BasePos = Opposite(clb)
    BY <2>1 DEF FreshInv
  <2>7. PICK line : line = clb'.LinePos
    OBVIOUS
  <2>8. line \in Ways(Revolution) /\ Far(line) <= N + 3
    BY <2>4, <2>5, <2>6, <2>7, LineIsPlace
  <2>9. PICK m \in Counts : m = Revolution
    BY <2>5
  <2>10. \A e \in Ways(m) : Far(line) <= Far(e) + 8
    BY <2>5, <2>8, <2>9, OneWay
  <2> QED BY <2>7, <2>8, <2>9, <2>10 DEF Places
<1> QED BY <1>1, <1>2, <1>3, PTL DEF Spec, PlaceFound

-----------------------------------------------------------------------------
(* The readings.  The last reading taken is the true count, but for a bad  *)
(* reading in the last two rounds; at rest a bad one is off by RevMisc at  *)
(* most.                                                                   *)
Near == LET d == Abs(revolution - shaft) IN d <= RevMisc \/ d >= N - RevMisc

LagInv ==
  /\ good >= 2 => revolution = shaft /\ EncoderData = shaft
  /\ good = 1 => EncoderData = shaft
  /\ Stopped /\ drive.rest >= 1 /\ good = 0 => Near
  /\ Stopped /\ drive.rest >= 2 /\ good = 1 => Near

LEMMA OneMark ==
  ASSUME Types, NEW to \in Ends, NEW s \in Turned(to)
  PROVE  /\ s \in Counts
         /\ Stopped => s = shaft
         /\ s = shaft \/ s = shaft + 1 \/ s = shaft - 1
              \/ (shaft = RevMax /\ s = 0) \/ (shaft = 0 /\ s = RevMax)
         /\ ~Stopped /\ drive.dir = to =>
              s = shaft \/ s = shaft + 1 \/ (shaft = RevMax /\ s = 0)
         /\ ~Stopped /\ drive.dir # to =>
              s = shaft \/ s = shaft - 1 \/ (shaft = 0 /\ s = RevMax)
<1>1. shaft \in Counts /\ shaft \in Int /\ RevMax \in Nat /\ N = RevMax + 1 /\ N \in Int
  BY Circle DEF Types, Counts
<1>2. (shaft + 1) % N = IF shaft = RevMax THEN 0 ELSE shaft + 1
  <2>1. PICK x \in Int : x = shaft + 1
    BY <1>1
  <2>2. -N <= x /\ x < 2 * N
    BY <1>1, <2>1 DEF Counts
  <2>3. x % N = IF x < 0 THEN x + N ELSE IF x < N THEN x ELSE x - N
    BY <2>2, OnCircle
  <2> QED BY <1>1, <2>1, <2>3 DEF Counts
<1>3. (shaft - 1) % N = IF shaft = 0 THEN RevMax ELSE shaft - 1
  <2>1. PICK x \in Int : x = shaft - 1
    BY <1>1
  <2>2. -N <= x /\ x < 2 * N
    BY <1>1, <2>1 DEF Counts
  <2>3. x % N = IF x < 0 THEN x + N ELSE IF x < N THEN x ELSE x - N
    BY <2>2, OnCircle
  <2> QED BY <1>1, <2>1, <2>3 DEF Counts
<1>4. s \in Counts
  BY TurnedType
<1>5. CASE Stopped
  <2>1. s = shaft
    BY <1>5 DEF Turned, Stopped, Ends
  <2> QED BY <1>4, <1>5, <2>1
<1>6. CASE ~Stopped /\ drive.dir = to
  <2>1. s = shaft \/ s = (shaft + 1) % N
    BY <1>6 DEF Turned, Stopped, Ends
  <2> QED BY <1>2, <1>4, <1>6, <2>1
<1>7. CASE ~Stopped /\ drive.dir # to
  <2>1. s = shaft \/ s = (shaft - 1) % N
    BY <1>7 DEF Turned, Stopped, Ends
  <2> QED BY <1>3, <1>4, <1>7, <2>1
<1> QED BY <1>5, <1>6, <1>7

LEMMA LagInit ==
  ASSUME Init
  PROVE  LagInv
<1>1. good >= 3 /\ revolution = shaft /\ EncoderData = shaft
  BY EndsAssumption DEF Init
<1>2. good \in Nat
  BY TypesInit, Parameters DEF Types
<1> QED BY <1>1, <1>2 DEF LagInv

LEMMA LagAlone ==
  ASSUME LagInv, UNCHANGED sensorVars,
         Stopped' => drive'.rest = 0 \/ (Stopped /\ drive'.rest = drive.rest)
  PROVE  LagInv'
  BY DEF LagInv, sensorVars, Near

LEMMA LagRead ==
  ASSUME Types, LagInv, EncoderUpdate
  PROVE  LagInv'
<1>1. /\ shaft \in Int /\ shaft' \in Int /\ shaft >= 0 /\ shaft <= RevMax /\ shaft' >= 0
      /\ shaft' <= RevMax /\ RevMax \in Nat /\ RevMisc \in Nat /\ RevMisc >= 2
      /\ 2 * RevMisc <= RevMax /\ N = RevMax + 1
      /\ good \in Nat /\ GoodRun \in Nat /\ GoodRun >= 3 /\ good <= GoodRun
      /\ drive.rest \in Nat /\ REST \in Nat /\ revolution \in Int /\ EncoderData \in Int
  <2>1. shaft' \in Counts
    BY TurnedType DEF EncoderUpdate
  <2> QED BY <2>1, Circle, Parameters, PositionAssumption, EndsAssumption DEF Types, Counts, DriveType
<1>2. shaft' = shaft \/ shaft' = shaft + 1 \/ shaft' = shaft - 1
        \/ (shaft = RevMax /\ shaft' = 0) \/ (shaft = 0 /\ shaft' = RevMax)
  BY OneMark DEF EncoderUpdate, Ends
<1>3. Stopped => shaft' = shaft
  BY OneMark DEF EncoderUpdate, Ends
<1>4. drive'.dir = drive.dir /\ drive'.rest = IF Stopped /\ drive.rest < REST
                                              THEN drive.rest + 1 ELSE drive.rest
  BY DEF EncoderUpdate, Types, DriveType
<1>5. Stopped' <=> Stopped
  BY <1>4 DEF Stopped
<1>6. CASE GetData(shaft') /\ good' = IF good < GoodRun THEN good + 1 ELSE good
  <2>1. EncoderData' = shaft'
    BY <1>6 DEF GetData
  <2>2. revolution' = shaft' \/ revolution' = revolution
    BY <1>6 DEF GetData
  <2>3. CASE good >= 1
    <3>1. EncoderData = shaft
      BY <1>1, <2>3 DEF LagInv
    <3>2. ~Jump(Abs(shaft' - EncoderData))
      <4>1. PICK x \in Int : x = shaft' - EncoderData
        <5>1. shaft' - EncoderData \in Int
          BY <1>1
        <5> QED BY <5>1
      <4>2. x = 0 \/ x = 1 \/ x = -1 \/ x = RevMax \/ x = -RevMax
        <5>1. PICK a \in Int, b \in Int : a = shaft /\ b = shaft'
          BY <1>1
        <5>2. b = a \/ b = a + 1 \/ b = a - 1 \/ (a = RevMax /\ b = 0) \/ (a = 0 /\ b = RevMax)
          BY <1>2, <5>1
        <5>3. x = b - a
          BY <3>1, <4>1, <5>1
        <5>4. RevMax \in Int
          BY <1>1
        <5> QED BY <5>2, <5>3, <5>4
      <4>3. PICK d \in Int : d = Abs(x) /\ (d = 0 \/ d = 1 \/ d = RevMax)
        BY <1>1, <4>2 DEF Abs
      <4> QED BY <1>1, <4>1, <4>3 DEF Jump
    <3>3. revolution' = shaft'
      BY <1>6, <3>2 DEF GetData
    <3>4. good' >= 2 /\ good' \in Nat
      BY <1>1, <1>6, <2>3
    <3> QED BY <2>1, <3>3, <3>4 DEF LagInv
  <2>4. CASE good = 0
    <3>1. good' = 1
      BY <1>1, <1>6, <2>4
    <3>2. Stopped' /\ drive'.rest >= 2 => Near'
      <4>1. SUFFICES ASSUME Stopped, drive'.rest >= 2 PROVE Near'
        BY <1>5
      <4>2. drive.rest >= 1 /\ shaft' = shaft
        BY <1>1, <1>3, <1>4, <4>1
      <4>3. Near
        BY <2>4, <4>1, <4>2 DEF LagInv
      <4>4. CASE revolution' = revolution
        BY <4>2, <4>3, <4>4 DEF Near
      <4>5. CASE revolution' = shaft'
        <5>3. PICK b \in Int : b = shaft' /\ b = revolution'
          BY <1>1, <4>5
        <5>4. b - b = 0
          OBVIOUS
        <5>1. revolution' - shaft' = 0
          BY <5>3, <5>4
        <5>2. Abs(0) = 0
          BY DEF Abs
        <5> QED BY <1>1, <5>1, <5>2 DEF Near
      <4> QED BY <2>2, <4>4, <4>5
    <3> QED BY <2>1, <3>1, <3>2 DEF LagInv
  <2> QED BY <1>1, <2>3, <2>4
<1>7. CASE good = GoodRun /\ good' = 0 /\ \E off \in BadBy : GetData((shaft' + off) % N)
  <2>1. revolution = shaft /\ EncoderData = shaft
    BY <1>1, <1>7 DEF LagInv
  <2>2. PICK data \in Counts : GetData(data)
    <3>1. PICK off \in BadBy : GetData((shaft' + off) % N)
      BY <1>7
    <3>2. shaft' + off \in Int
      BY <1>1, PositionAssumption
    <3> QED BY <3>1, <3>2, ModIsCount
  <2>3. Stopped' => Near'
    <3>1. SUFFICES ASSUME Stopped PROVE Near'
      BY <1>5
    <3>2. shaft' = shaft
      BY <1>3, <3>1
    <3>3. CASE revolution' = revolution
      BY <1>1, <2>1, <3>2, <3>3 DEF Near, Abs
    <3>4. CASE revolution' = data /\ ~Jump(Abs(data - shaft))
      <4>1. PICK x \in Int : x = data - shaft
        <5>1. data - shaft \in Int
          BY <1>1 DEF Counts
        <5> QED BY <5>1
      <4>2. PICK d \in Int : d = Abs(x)
        BY DEF Abs
      <4>3. d < RevMisc \/ d > RevMax - RevMisc
        BY <1>1, <3>4, <4>1, <4>2 DEF Jump
      <4>4. Abs(revolution' - shaft') = d
        BY <3>2, <3>4, <4>1, <4>2
      <4> QED BY <1>1, <4>3, <4>4 DEF Near
    <3> QED BY <2>1, <2>2, <3>3, <3>4 DEF GetData
  <2> QED BY <1>7, <2>3 DEF LagInv
<1> QED BY <1>6, <1>7 DEF EncoderUpdate

LEMMA LagNext ==
  ASSUME Basic, LagInv, [Next]_vars
  PROVE  LagInv'
<1>1. CASE EncoderUpdate
  BY <1>1, LagRead DEF Basic
<1>2. CASE UNCHANGED sensorVars
             /\ (Stopped' => drive'.rest = 0 \/ (Stopped /\ drive'.rest = drive.rest))
  BY <1>2, LagAlone
<1>3. CASE DefineCalibParams \/ Calibration \/ Operator \/ UNCHANGED vars
  BY <1>2, <1>3 DEF DefineCalibParams, Calibration, Operator, vars, sensorVars, Stopped
<1>4. CASE ClbControl
  <2>1. drive'.dir = drive.dir /\ drive'.rest = drive.rest
    BY <1>4 DEF ClbControl, Basic, Types, DriveType
  <2> QED BY <1>2, <1>4, <2>1 DEF ClbControl, Stopped
<1>5. CASE CalibStop
  <2>1. drive' = drive \/ drive'.rest = 0
    BY <1>5, HaltedType DEF CalibStop, Basic
  <2> QED BY <1>2, <1>5, <2>1 DEF CalibStop, Stopped
<1>6. CASE ValveDrive
  <2>1. CASE \E end \in Ends : drive' = [drive EXCEPT !.dir = end, !.target = Target(end),
                                !.word = "none", !.inside = OnTheStroke /\ ~TestCamera]
    <3>1. drive'.dir \in Ends
      BY <2>1 DEF Basic, Types, DriveType
    <3>2. ~Stopped'
      BY <3>1 DEF Stopped, Ends
    <3> QED BY <1>2, <1>6, <3>2 DEF ValveDrive
  <2>2. CASE drive' = [Halted EXCEPT !.word = "none"]
    BY <1>2, <1>6, <2>2, HaltedType DEF ValveDrive, Basic
  <2>3. CASE drive' = [drive EXCEPT !.word = "none"]
    <3>1. drive'.dir = drive.dir /\ drive'.rest = drive.rest
      BY <2>3 DEF Basic, Types, DriveType
    <3> QED BY <1>2, <1>6, <3>1 DEF ValveDrive, Stopped
  <2> QED BY <1>6, <2>1, <2>2, <2>3 DEF ValveDrive, ValveDriveUpdate
<1>7. CASE Settings
  BY <1>2, <1>7, SettingsDo DEF Basic, Stopped
<1> QED BY <1>1, <1>3, <1>4, <1>5, <1>6, <1>7 DEF Next, Settings

-----------------------------------------------------------------------------
(* A movement to a target.  No end can be set anew before the drive has    *)
(* stopped: after a reset in its first round ClbControl has seen that it   *)
(* moves before Calibration runs again.                                    *)
Aimed == ~Stopped /\ drive.target # POS_UNDEF
Recent == rounds = 0 \/ (rounds = 1 /\ slot \in {"DefineCalibParams", "ClbControl"})

ResetInv == Aimed => /\ clb.AutoStep = 0
                     /\ clb.Status # CLB_FLAG => clb.ResetFlag \/ Recent

TargetInv == Aimed /\ clb.Status = CLB_FLAG =>
               IF drive.dir = "close" THEN drive.target = 0 ELSE drive.target \in 0 .. Stroke

(* What the tasks do to the drive: a start, a stop or nothing.             *)
Started(end) == /\ drive'.dir = end /\ drive'.target = Target(end)
                /\ (drive'.inside => OnTheStroke /\ ~TestCamera) /\ drive'.rest = drive.rest
                /\ drive'.ends = drive.ends
SameDrive == /\ drive'.dir = drive.dir /\ drive'.target = drive.target
             /\ drive'.inside = drive.inside /\ drive'.rest = drive.rest
             /\ drive'.ends = drive.ends

LEMMA ValveDriveDoes ==
  ASSUME Types, ValveDrive
  PROVE  \/ \E end \in Ends : /\ Stopped /\ drive.rest = REST /\ end \notin drive.ends
                              /\ Started(end)
         \/ drive'.dir = "stop" /\ drive'.rest = 0 /\ ~drive'.inside
         \/ SameDrive
<1>1. CASE \E end \in Ends :
             /\ Stopped /\ drive.rest = REST /\ end \notin drive.ends
             /\ drive' = [drive EXCEPT !.dir = end, !.target = Target(end),
                                !.word = "none", !.inside = OnTheStroke /\ ~TestCamera]
  <2>1. PICK end \in Ends :
             /\ Stopped /\ drive.rest = REST /\ end \notin drive.ends
             /\ drive' = [drive EXCEPT !.dir = end, !.target = Target(end),
                                !.word = "none", !.inside = OnTheStroke /\ ~TestCamera]
    BY <1>1
  <2>2. PICK t, i : t = Target(end) /\ i = (OnTheStroke /\ ~TestCamera)
    OBVIOUS
  <2>3. drive' = [drive EXCEPT !.dir = end, !.target = t, !.word = "none", !.inside = i]
    BY <2>1, <2>2
  <2>4. Started(end)
    BY <2>2, <2>3 DEF Types, DriveType, Started
  <2> QED BY <2>1, <2>4
<1>2. CASE drive' = [Halted EXCEPT !.word = "none"]
  BY <1>2, HaltedType
<1>3. CASE drive' = [drive EXCEPT !.word = "none"]
  BY <1>3 DEF Types, DriveType, SameDrive
<1> QED BY <1>1, <1>2, <1>3 DEF ValveDrive, ValveDriveUpdate

LEMMA TaskOfList ==
  ASSUME Types, DefineCalibParams \/ ClbControl \/ CalibStop \/ Calibration \/ Operator \/ UNCHANGED vars
  PROVE  \/ CalibStop /\ AtTarget /\ drive'.dir = "stop" /\ drive'.rest = 0 /\ ~drive'.inside
         \/ CalibStop /\ ~AtTarget /\ drive' = drive
         \/ /\ ClbControl /\ drive'.dir = drive.dir /\ drive'.target = drive.target
            /\ drive'.inside = drive.inside /\ drive'.rest = drive.rest
            /\ drive'.ends = clb.Zone
         \/ ~CalibStop /\ ~ClbControl /\ drive' = drive
<1>1. CASE ClbControl
  <2>1. PICK w : w = IF clb.AutoCmd \in Ends THEN clb.AutoCmd ELSE drive.word
    OBVIOUS
  <2>2. drive' = [drive EXCEPT !.ends = clb.Zone, !.word = w]
    BY <1>1, <2>1 DEF ClbControl
  <2> QED BY <1>1, <2>2 DEF Types, DriveType
<1>2. CASE CalibStop
  BY <1>2, HaltedType DEF CalibStop
<1>3. CASE ~ClbControl /\ ~CalibStop
  BY <1>3 DEF DefineCalibParams, Calibration, Operator, vars
<1> QED BY <1>1, <1>2, <1>3

LEMMA ControlDoes ==
  ASSUME Types, ClbControl
  PROVE  /\ clb'.ResetFlag <=> ~Stopped
         /\ clb'.AutoStep = clb.AutoStep /\ EndsKept(clb, clb')
         /\ clb'.FullStep = clb.FullStep /\ clb'.FullWay = clb.FullWay
         /\ clb'.BasePos = clb.BasePos /\ clb'.LinePos = clb.LinePos /\ clb'.Zone = clb.Zone
<1>1. PICK f : f = ~Stopped
  OBVIOUS
<1>2. clb' = [clb EXCEPT !.ResetFlag = f, !.AutoCmd = "none"]
  BY <1>1 DEF ClbControl
<1>3. clb'.ResetFlag = f
  BY <1>2 DEF Types, ClbType
<1>4. clb'.ResetFlag <=> ~Stopped
  BY <1>1, <1>3
<1> QED BY <1>2, <1>4 DEF Types, ClbType, EndsKept

LEMMA ReadingKeeps ==
  ASSUME Types, EncoderUpdate
  PROVE  /\ drive'.dir = drive.dir /\ drive'.target = drive.target
         /\ drive'.inside = drive.inside /\ drive'.ends = drive.ends
         /\ drive'.rest = IF Stopped /\ drive.rest < REST THEN drive.rest + 1 ELSE drive.rest
  BY DEF EncoderUpdate, Types, DriveType

LEMMA AimKept ==
  ASSUME Types, DefineCalibParams \/ ClbControl \/ EncoderUpdate \/ Calibration \/ Operator
                  \/ UNCHANGED vars \/ CalibStop \/ (ValveDrive /\ SameDrive) \/ Settings
  PROVE  Aimed' => Aimed /\ drive'.dir = drive.dir /\ drive'.target = drive.target
<1>1. CASE EncoderUpdate
  BY <1>1, ReadingKeeps DEF Aimed, Stopped
<1>2. CASE ValveDrive /\ SameDrive
  BY <1>2 DEF Aimed, Stopped, SameDrive
<1>3. CASE DefineCalibParams \/ ClbControl \/ Calibration \/ Operator
                  \/ UNCHANGED vars \/ CalibStop
  BY <1>3, TaskOfList DEF Aimed, Stopped
<1>4. CASE Settings
  BY <1>4, SettingsDo DEF Aimed, Stopped
<1> QED BY <1>1, <1>2, <1>3, <1>4

LEMMA ResetNext ==
  ASSUME Basic, ResetInv, [Next]_vars
  PROVE  ResetInv'
<1> USE DEF Basic
<1>1. CASE DefineCalibParams
  <2>1. PICK d : d = clb' /\ d = Located(clb)
    BY <1>1 DEF DefineCalibParams
  <2>2. clb'.Status = clb.Status /\ clb'.ResetFlag = clb.ResetFlag /\ clb'.AutoStep = clb.AutoStep
    BY <2>1, LocatedFields
  <2>3. Recent => Recent'
    BY <1>1 DEF DefineCalibParams, Recent
  <2> QED BY <1>1, <2>2, <2>3, AimKept DEF ResetInv
<1>2. CASE ClbControl
  <2>1. Aimed' => Aimed /\ ~Stopped
    BY <1>2, AimKept DEF Aimed
  <2> QED BY <1>2, <2>1, ControlDoes DEF ResetInv
<1>3. CASE CalibStop
  <2>1. clb' = clb /\ (Recent => Recent')
    BY <1>3 DEF CalibStop, Recent
  <2> QED BY <1>3, <2>1, AimKept DEF ResetInv
<1>4. CASE EncoderUpdate
  <2>1. clb' = clb /\ (Recent => Recent')
    BY <1>4, Parameters DEF EncoderUpdate, Recent
  <2> QED BY <1>4, <2>1, AimKept DEF ResetInv
<1>5. CASE Calibration
  <2>1. Outcome(clb, clb') /\ rounds' = 0 /\ ~Recent
    BY <1>5, CalibrationDoes, EndsAssumption, Parameters DEF Calibration, Recent
  <2>2. Aimed' => Aimed
    BY <1>5, AimKept
  <2>3. Aimed' => clb'.AutoStep = 0
    BY <2>1, <2>2 DEF ResetInv, Outcome
  <2>4. Recent'
    BY <2>1 DEF Recent
  <2> QED BY <2>3, <2>4 DEF ResetInv
<1>6. CASE ValveDrive
  <2>1. clb' = clb /\ Recent' = Recent
    BY <1>6 DEF ValveDrive, listVars, Recent
  <2>2. CASE \E end \in Ends : Started(end)
    <3>1. Aimed' => clb.Status = CLB_FLAG
      BY <2>2 DEF Aimed, Started, Target
    <3>2. clb.Status = CLB_FLAG => clb.AutoStep = 0
      BY DEF AutoSound, Types, ClbType, CLB_FLAG, Ends
    <3> QED BY <2>1, <3>1, <3>2 DEF ResetInv
  <2>3. CASE drive'.dir = "stop"
    BY <2>3 DEF ResetInv, Aimed, Stopped
  <2>4. CASE SameDrive
    BY <1>6, <2>1, <2>4, AimKept DEF ResetInv
  <2> QED BY <1>6, <2>2, <2>3, <2>4, ValveDriveDoes
<1>7. CASE Operator \/ UNCHANGED vars
  <2>1. clb' = clb /\ Recent' = Recent
    BY <1>7 DEF Operator, vars, listVars, Recent
  <2> QED BY <1>7, <2>1, AimKept DEF ResetInv
<1>8. CASE Settings
  <2>1. clb' = clb /\ Recent' = Recent
    BY <1>8, SettingsDo DEF Recent
  <2> QED BY <1>8, <2>1, AimKept DEF ResetInv
<1> QED BY <1>1, <1>2, <1>3, <1>4, <1>5, <1>6, <1>7, <1>8 DEF Next, Settings

(* While a drive moves to its target no end is set.                        *)
LEMMA NoEndSet ==
  ASSUME Basic, ResetInv, Calibration, Aimed
  PROVE  ~EndSetNow(clb, clb')
<1>1. ~Recent
  BY EndsAssumption, Parameters DEF Calibration, Recent
<1> QED BY <1>1 DEF EndSetNow, ResetInv

LEMMA TargetNext ==
  ASSUME Basic, FreshInv, ResetInv, TargetInv, [Next]_vars
  PROVE  TargetInv'
<1> USE DEF Basic
<1>1. CASE EndsKept(clb, clb') /\ (Aimed' => Aimed /\ drive'.dir = drive.dir
                                                /\ drive'.target = drive.target)
  <2>1. Stroke' = Stroke /\ clb'.Status = clb.Status
    BY <1>1, SameStroke DEF EndsKept
  <2> QED BY <1>1, <2>1 DEF TargetInv
<1>2. CASE DefineCalibParams
  <2>1. PICK d : d = clb' /\ d = Located(clb)
    BY <1>2 DEF DefineCalibParams
  <2>2. EndsKept(clb, clb')
    BY <2>1, LocatedFields DEF EndsKept
  <2> QED BY <1>1, <1>2, <2>2, AimKept
<1>3. CASE ClbControl
  BY <1>1, <1>3, ControlDoes, AimKept
<1>4. CASE CalibStop \/ EncoderUpdate \/ Operator \/ UNCHANGED vars
  <2>1. EndsKept(clb, clb')
    BY <1>4 DEF CalibStop, EncoderUpdate, Operator, vars, EndsKept
  <2> QED BY <1>1, <1>4, <2>1, AimKept
<1>5. CASE Calibration
  <2>1. Outcome(clb, clb')
    BY <1>5, CalibrationDoes
  <2>2. CASE EndsKept(clb, clb')
    BY <1>1, <1>5, <2>2, AimKept
  <2>3. CASE clb'.Status # CLB_FLAG
    BY <2>3 DEF TargetInv
  <2>4. CASE EndSetNow(clb, clb')
    BY <1>5, <2>4, NoEndSet, AimKept DEF TargetInv
  <2> QED BY <2>1, <2>2, <2>3, <2>4 DEF Outcome
<1>6. CASE ValveDrive
  <2>1. clb' = clb
    BY <1>6 DEF ValveDrive
  <2>2. EndsKept(clb, clb')
    BY <2>1 DEF EndsKept
  <2>3. CASE \E end \in Ends : Started(end)
    <3>1. PICK end \in Ends : Started(end)
      BY <2>3
    <3>2. Stroke' = Stroke /\ clb'.Status = clb.Status
      BY <2>1, <2>2, SameStroke
    <3>3. CASE clb.Status = CLB_FLAG
      <4>1. drive'.target = IF end = "open" THEN clb.FullStep ELSE 0
        BY <3>1, <3>3 DEF Started, Target
      <4>2. clb.FullStep \in 0 .. Stroke
        BY <3>3, StrokeType DEF FreshInv
      <4>3. drive'.dir = end
        BY <3>1 DEF Started
      <4> QED BY <3>2, <4>1, <4>2, <4>3 DEF TargetInv, Ends
    <3>4. CASE clb.Status # CLB_FLAG
      BY <3>2, <3>4 DEF TargetInv
    <3> QED BY <3>3, <3>4
  <2>4. CASE drive'.dir = "stop"
    BY <2>4 DEF TargetInv, Aimed, Stopped
  <2>5. CASE SameDrive
    BY <1>1, <1>6, <2>2, <2>5, AimKept
  <2> QED BY <1>6, <2>3, <2>4, <2>5, ValveDriveDoes
<1>7. CASE Settings
  BY <1>1, <1>7, SettingsDo, AimKept
<1> QED BY <1>2, <1>3, <1>4, <1>5, <1>6, <1>7 DEF Next, Settings

-----------------------------------------------------------------------------
(* Where the drive is: its place on the stroke, and how deep it lies from  *)
(* an end.  On a stroke that leaves room there is one place only.          *)
Pos == RevMax - shaft
Depth(e, x) == IF e = "close" THEN x ELSE Stroke - x
At(x) == x \in Ways(Pos) /\ -OVERRUN <= x /\ x <= Stroke + OVERRUN
Roomy == /\ clb.Status = CLB_FLAG /\ FoundStroke
         /\ 2 * (OVERRUN + RevMisc + 2) <= N - Stroke

LEMMA Sizes ==
  /\ OVERRUN \in Nat /\ OVERRUN >= RevMisc + 2
  /\ RevMisc >= 2 /\ RevMisc \in Nat
  BY EndsAssumption, PositionAssumption, Circle

LEMMA PosType ==
  ASSUME Types
  PROVE  Pos \in Counts
  BY Circle DEF Types, Pos, Counts

(* From a place over delta marks to another.                               *)
LEMMA MarksAway ==
  ASSUME NEW a \in Nat, NEW b \in Nat, NEW c \in Nat, NEW n \in Nat \ {0},
         b - c < n, c - b < n,
         NEW delta \in Int, b - a \in {delta - n, delta, delta + n},
         NEW x \in {a - c - n, a - c, a - c + n}, -n <= x + delta, x + delta <= n
  PROVE  x + delta \in {b - c - n, b - c, b - c + n}
<1>1. x \in Int
  OBVIOUS
<1>2. \/ x + delta = b - c - 2 * n \/ x + delta = b - c - n \/ x + delta = b - c
      \/ x + delta = b - c + n \/ x + delta = b - c + 2 * n
  <2>1. b = a + delta - n \/ b = a + delta \/ b = a + delta + n
    OBVIOUS
  <2>2. x = a - c - n \/ x = a - c \/ x = a - c + n
    OBVIOUS
  <2> QED BY <1>1, <2>1, <2>2
<1> QED BY <1>1, <1>2

LEMMA WayAway ==
  ASSUME EndTypes, NEW m \in Counts, NEW q \in Counts, NEW delta \in Int,
         Along(q) - Along(m) \in {delta - N, delta, delta + N},
         NEW x \in Ways(m), -N <= x + delta, x + delta <= N
  PROVE  x + delta \in Ways(q)
<1>1. PICK a \in Nat, b \in Nat, c \in Nat : a = Along(m) /\ b = Along(q) /\ c = Along(clb.ClosePos)
  BY Signs DEF EndTypes
<1>2. PICK n \in Nat \ {0} : n = N
  BY Circle
<1>3. b - c < n /\ c - b < n /\ Ways(q) = {b - c - n, b - c, b - c + n}
  BY <1>1, <1>2, WayTypes
<1>4. Ways(m) = {a - c - n, a - c, a - c + n}
  BY <1>1, <1>2, WayTypes
<1>5. b - a \in {delta - n, delta, delta + n}
  BY <1>1, <1>2
<1> QED BY <1>2, <1>3, <1>4, <1>5, MarksAway

LEMMA OneAt ==
  ASSUME Types, Roomy, NEW x, At(x), NEW y, At(y)
  PROVE  x = y /\ x \in Int
<1>1. Ways(Pos) \subseteq Int /\ Stroke \in Int /\ Stroke >= 0 /\ N \in Nat /\ RevMisc \in Nat
  BY PosType, StrokeType, WayTypes, Circle
<1>2. PICK w \in Int : Ways(Pos) = {w - N, w, w + N}
  BY PosType, StrokeType, WayTypes
<1>3. x \in Int /\ y \in Int /\ x \in {w - N, w, w + N} /\ y \in {w - N, w, w + N}
  BY <1>1, <1>2 DEF At
<1>4. OVERRUN \in Int
  BY PositionAssumption
<1>5. /\ -OVERRUN <= x /\ x <= Stroke + OVERRUN
      /\ -OVERRUN <= y /\ y <= Stroke + OVERRUN
      /\ 2 * (OVERRUN + RevMisc + 2) <= N - Stroke
  BY DEF At, Roomy
<1>6. x - y < N /\ y - x < N
  BY <1>1, <1>3, <1>4, <1>5
<1> QED BY <1>1, <1>3, <1>6

(* How far past an end the drive may be, by the task that comes next and   *)
(* the sound readings since a bad one: before the position is measured,    *)
(* after it is known not to be at the end, and while the stroke is not yet *)
(* found, when an end was set at rest a moment ago.                        *)
Before(g) == IF g = 0 THEN -RevMisc ELSE IF g = 1 THEN -RevMisc - 1 ELSE -RevMisc - 2
After(g)  == IF g = 0 THEN -RevMisc ELSE IF g \in {1, 2} THEN -RevMisc - 1 ELSE -RevMisc + 1
Idle(g)   == IF g \in {0, 1} THEN -RevMisc ELSE -RevMisc + 2

Within(s, g, found, z, exact) ==
  /\ ~found /\ s = "DefineCalibParams" => z >= After(g)
  /\ ~found /\ s # "DefineCalibParams" => z >= Idle(g)
  /\ found /\ s # "EncoderUpdate" => z >= Before(g)
  /\ found /\ s = "EncoderUpdate" => z >= After(g)
  /\ found /\ s \in {"ClbControl", "CalibStop"} => z >= After(g) \/ exact

(* At rest: what a start towards an end that is not known to be reached    *)
(* will find, and what will make it so.                                    *)
AtRest(s, r, g, found, inZone, inEnds, z, exact) ==
  /\ ~found /\ r >= 3 /\ s = "DefineCalibParams" => z >= After(g)
  /\ ~found /\ r >= 2 /\ s # "DefineCalibParams" => z >= Idle(g)
  /\ found /\ r >= 3 /\ s = "ClbControl" /\ ~inZone => z >= After(g)
  /\ found /\ r >= 3 /\ s \in {"CalibStop", "EncoderUpdate"} /\ ~inEnds => z >= After(g)
  /\ found /\ r >= 4 /\ s \in {"DefineCalibParams", "ClbControl"} /\ ~inEnds => z >= Before(g)
  /\ found /\ r >= 4 /\ s = "ClbControl" /\ ~inEnds => z >= After(g) \/ exact

MoveInv ==
  Aimed /\ drive.inside /\ Roomy =>
    \E x \in Int : At(x) /\ Within(slot, good, clb.FullStep # 0, Depth(drive.dir, x), clb.LinePos = x)

RestInv ==
  Stopped /\ Roomy =>
    \A x \in Int : At(x) => \A e \in Ends :
      AtRest(slot, drive.rest, good, clb.FullStep # 0, e \in clb.Zone, e \in drive.ends,
             Depth(e, x), clb.LinePos = x)

LEMMA Allowances ==
  ASSUME NEW g \in Nat
  PROVE  /\ Before(g) \in Int /\ After(g) \in Int /\ Idle(g) \in Int
         /\ Before(g) <= After(g) /\ Before(g) >= -RevMisc - 2 /\ Idle(g) >= After(g)
         /\ g <= 1 => Before(g) = After(g) /\ After(g) <= -RevMisc + 1
         /\ After(g) <= 1 /\ Idle(g) <= 0 /\ (g <= 1 => Idle(g) <= -RevMisc)
<1>1. PICK m \in Nat : m = RevMisc /\ m >= 2
  BY Sizes
<1>2. CASE g = 0
  BY <1>1, <1>2 DEF Before, After, Idle
<1>3. CASE g = 1
  BY <1>1, <1>3 DEF Before, After, Idle
<1>4. CASE g = 2
  BY <1>1, <1>4 DEF Before, After, Idle
<1>5. CASE g >= 3
  BY <1>1, <1>5 DEF Before, After, Idle
<1> QED BY <1>2, <1>3, <1>4, <1>5

(* A reading: one sound one more, or a bad one after many.                 *)
Reads(g, h) == h = g + 1 \/ (g >= 3 /\ h = g) \/ (g >= 3 /\ h = 0)

LEMMA AllowancesRead ==
  ASSUME NEW g \in Nat, NEW h \in Nat, Reads(g, h)
  PROVE  /\ Before(h) <= After(g) - 1 /\ After(h) <= Idle(g) - 1
  BY Sizes DEF Before, After, Idle, Reads

LEMMA WithinRead ==
  ASSUME NEW g \in Nat, NEW h \in Nat, Reads(g, h), NEW z \in Int, NEW y \in Int, y >= z - 1,
         NEW found \in BOOLEAN, NEW ex \in BOOLEAN, NEW fx \in BOOLEAN,
         Within("EncoderUpdate", g, found, z, ex)
  PROVE  Within("DefineCalibParams", h, found, y, fx)
<1>1. PICK b \in Int, a \in Int, i \in Int, c \in Int :
        b = Before(h) /\ a = After(g) /\ i = Idle(g) /\ c = After(h) /\ b <= a - 1 /\ c <= i - 1
  <2>1. Before(h) \in Int /\ After(g) \in Int /\ Idle(g) \in Int /\ After(h) \in Int
    BY Allowances
  <2> QED BY <2>1, AllowancesRead
<1> QED BY <1>1 DEF Within

LEMMA AtRestRead ==
  ASSUME NEW g \in Nat, NEW h \in Nat, Reads(g, h), NEW z \in Int,
         NEW r \in Nat, NEW q \in Nat, q = r + 1 \/ (q = r /\ r >= 4),
         NEW found \in BOOLEAN, NEW ex \in BOOLEAN, NEW fx \in BOOLEAN,
         NEW inz \in BOOLEAN, NEW ine \in BOOLEAN,
         AtRest("EncoderUpdate", r, g, found, inz, ine, z, ex)
  PROVE  AtRest("DefineCalibParams", q, h, found, inz, ine, z, fx)
<1>1. PICK b \in Int, a \in Int, i \in Int, c \in Int :
        b = Before(h) /\ a = After(g) /\ i = Idle(g) /\ c = After(h) /\ b <= a - 1 /\ c <= i - 1
  <2>1. Before(h) \in Int /\ After(g) \in Int /\ Idle(g) \in Int /\ After(h) \in Int
    BY Allowances
  <2> QED BY <2>1, AllowancesRead
<1> QED BY <1>1 DEF AtRest

LEMMA BadReadings ==
  ASSUME Types, EncoderUpdate
  PROVE  Reads(good, good') /\ good \in Nat /\ good' \in Nat
<1>1. good \in 0 .. GoodRun /\ GoodRun \in Nat /\ GoodRun >= 3
  BY Parameters, EndsAssumption DEF Types
<1>2. \/ good' = IF good < GoodRun THEN good + 1 ELSE good
      \/ good = GoodRun /\ good' = 0
  BY DEF EncoderUpdate
<1> QED BY <1>1, <1>2 DEF Reads

-----------------------------------------------------------------------------
(* A reading and the true count, seen along the stroke.                    *)
Off(delta) == /\ -RevMisc <= delta /\ delta <= RevMisc
              /\ Along(Revolution) - Along(Pos) \in {delta - N, delta, delta + N}
              /\ Along(Pos) - Along(Revolution) \in {-delta - N, -delta, -delta + N}

LEMMA ReadingOff ==
  ASSUME Types
  PROVE  /\ revolution = shaft => Off(0)
         /\ Near => \E delta \in Int : Off(delta)
<1>1. /\ shaft \in Int /\ shaft >= 0 /\ shaft <= RevMax
      /\ revolution \in Int /\ revolution >= 0 /\ revolution <= RevMax
      /\ RevMax \in Nat /\ RevMisc \in Nat /\ N = RevMax + 1 /\ N \in Nat
  BY Circle DEF Types, Counts
<1>2. PICK r \in Counts, p \in Counts : r = Revolution /\ p = Pos
  BY RevolutionType, PosType
<1>3. r - p = shaft - revolution /\ p - r = revolution - shaft
  BY <1>1, <1>2 DEF Revolution, Pos
<1>4. /\ Along(r) - Along(p) = Sign * (r - p) /\ Along(p) - Along(r) = Sign * (p - r)
      /\ Sign \in {-1, 1}
  BY Signs
<1>5. PICK x \in Int : x = shaft - revolution
  <2>1. shaft - revolution \in Int
    BY <1>1
  <2> QED BY <2>1
<1>6. PICK y \in Int : y = Sign * x
  <2>1. Sign * x \in Int
    BY <1>4
  <2> QED BY <2>1
<1>7. Along(r) - Along(p) = y /\ Along(p) - Along(r) = -y /\ (y = x \/ y = -x)
  BY <1>1, <1>3, <1>4, <1>5, <1>6
<1>8. \A delta \in Int : -RevMisc <= delta /\ delta <= RevMisc
           /\ (y = delta - N \/ y = delta \/ y = delta + N) => Off(delta)
  BY <1>1, <1>2, <1>7 DEF Off
<1>9. revolution = shaft => Off(0)
  <2>1. revolution = shaft => y = 0
    BY <1>1, <1>5, <1>7
  <2> QED BY <1>1, <1>8, <2>1
<1>10. ASSUME Near PROVE \E delta \in Int : Off(delta)
  <2>1. \/ -RevMisc <= x /\ x <= RevMisc
        \/ x >= N - RevMisc
        \/ x <= -(N - RevMisc)
    <3>1. Abs(revolution - shaft) = IF x <= 0 THEN -x ELSE x
      BY <1>1, <1>5 DEF Abs
    <3> QED BY <1>1, <1>5, <1>10, <3>1 DEF Near
  <2>2. -N < x /\ x < N
    BY <1>1, <1>5
  <2>3. \/ -RevMisc <= y /\ y <= RevMisc
        \/ y >= N - RevMisc /\ y < N
        \/ y <= -(N - RevMisc) /\ y > -N
    BY <1>1, <1>7, <2>1, <2>2
  <2>4. CASE -RevMisc <= y /\ y <= RevMisc
    BY <1>8, <2>4
  <2>5. CASE y >= N - RevMisc /\ y < N
    <3>1. PICK delta \in Int : delta = y - N
      <4>1. y - N \in Int
        BY <1>1
      <4> QED BY <4>1
    <3>2. -RevMisc <= delta /\ delta <= RevMisc /\ y = delta + N
      BY <1>1, <2>5, <3>1
    <3> QED BY <1>8, <3>2
  <2>6. CASE y <= -(N - RevMisc) /\ y > -N
    <3>1. PICK delta \in Int : delta = y + N
      <4>1. y + N \in Int
        BY <1>1
      <4> QED BY <4>1
    <3>2. -RevMisc <= delta /\ delta <= RevMisc /\ y = delta - N
      BY <1>1, <2>6, <3>1
    <3> QED BY <1>8, <3>2
  <2> QED BY <2>3, <2>4, <2>5, <2>6
<1> QED BY <1>9, <1>10

(* What LagInv says of a reading that DefineCalibParams measures.          *)
LEMMA ReadingAtRest ==
  ASSUME Types, LagInv, Stopped, drive.rest >= 2
  PROVE  \E delta \in Int : Off(delta) /\ (good >= 2 => delta = 0)
<1>1. good \in Nat
  BY Parameters DEF Types
<1>2. CASE good >= 2
  BY <1>2, ReadingOff DEF LagInv
<1>3. CASE good <= 1
  <2>1. Near
    BY <1>1, <1>3 DEF LagInv, Types, DriveType
  <2> QED BY <1>1, <1>3, <2>1, ReadingOff
<1> QED BY <1>1, <1>2, <1>3

(* Where the stroke leaves room DefineCalibParams finds the place exactly  *)
(* as far off as the reading.                                              *)
LEMMA PlaceMeasured ==
  ASSUME Types, FreshInv, Roomy, clb.FullStep # 0, NEW x \in Int, At(x), NEW delta \in Int, Off(delta)
  PROVE  LinePosition(clb, Along(Revolution), Along(clb.ClosePos)) = x + delta
<1>1. PICK line : line = LinePosition(clb, Along(Revolution), Along(clb.ClosePos))
  OBVIOUS
<1>2. EndTypes /\ Revolution \in Counts /\ Pos \in Counts /\ Stroke \in 0 .. N - 1 /\ N \in Nat
  BY StrokeType, RevolutionType, PosType, Circle
<1>3. clb.BasePos = Opposite(clb)
  BY DEF FreshInv, Roomy
<1>4. line \in Ways(Revolution) /\ Far(line) <= N + 3
  BY <1>1, <1>2, <1>3, LineIsPlace
<1>5. PICK y \in Int : y = x + delta
  OBVIOUS
<1>6. /\ -OVERRUN <= x /\ x <= Stroke + OVERRUN
      /\ 2 * (OVERRUN + RevMisc + 2) <= N - Stroke
      /\ -RevMisc <= delta /\ delta <= RevMisc
  BY DEF At, Roomy, Off
<1>7. -N <= y /\ y <= N /\ 2 * y - Stroke <= N - 4 /\ 2 * y - Stroke >= -(N - 4)
  BY <1>2, <1>5, <1>6, Sizes
<1>8. y \in Ways(Revolution)
  BY <1>2, <1>5, <1>7, WayAway DEF At, Off
<1>9. Far(y) <= N - 4
  BY <1>2, <1>7 DEF Far, Abs
<1> QED BY <1>1, <1>2, <1>4, <1>5, <1>8, <1>9, OneWay

LEMMA OutsideZones ==
  ASSUME Types, clb.FullWay = CalcClbGearRev(Stroke), NEW line \in Int, NEW e \in Ends,
         e \notin Zones(clb, CalcClbGearRev(line))
  PROVE  Depth(e, line) >= 1
<1>1. Stroke \in Int
  BY StrokeType, Circle
<1>2. PICK way \in Int : way = CalcClbGearRev(line)
  BY GearOrdered
<1>3. PICK full \in Int : full = CalcClbGearRev(Stroke)
  BY <1>1, GearOrdered
<1>4. CASE e = "close"
  <2>1. way > PositionAccTmp
    BY <1>2, <1>4, Accuracy DEF Zones
  <2>2. line <= 0 => way <= 0
    BY <1>2, GearOrdered, GearOfNothing
  <2> QED BY <1>4, <2>1, <2>2, Accuracy DEF Depth
<1>5. CASE e = "open"
  <2>1. way < full - PositionAccTmp
    BY <1>2, <1>3, <1>5, Accuracy DEF Zones
  <2>2. line >= Stroke => way >= full
    BY <1>1, <1>2, <1>3, GearOrdered
  <2> QED BY <1>1, <1>5, <2>1, <2>2, Accuracy DEF Depth
<1> QED BY <1>4, <1>5 DEF Ends

(* Where an end is set the drive lies at this end, but for the reading.    *)
EndHere ==
  Types /\ LagInv /\ Roomy /\ Stopped /\ drive.rest >= 2
    /\ (clb.ClosePos = Revolution \/ clb.OpenPos = Revolution)
  => \A x \in Int : At(x) => \A e \in Ends :
       Depth(e, x) >= -RevMisc /\ (good >= 2 => Depth(e, x) >= 0)

LEMMA EndIsHere == EndHere
<1>1. SUFFICES ASSUME Types, LagInv, Roomy, Stopped, drive.rest >= 2,
                      clb.ClosePos = Revolution \/ clb.OpenPos = Revolution,
                      NEW x \in Int, At(x), NEW e \in Ends
               PROVE  Depth(e, x) >= -RevMisc /\ (good >= 2 => Depth(e, x) >= 0)
  BY DEF EndHere
<1>2. EndTypes /\ Revolution \in Counts /\ Pos \in Counts /\ Stroke \in 0 .. N - 1 /\ N \in Nat
  BY <1>1, StrokeType, RevolutionType, PosType, Circle
<1>3. PICK delta \in Int : Off(delta) /\ (good >= 2 => delta = 0)
  BY <1>1, ReadingAtRest
<1>4. PICK back \in Int : back = -delta
  OBVIOUS
<1>5. /\ Along(Pos) - Along(Revolution) \in {back - N, back, back + N}
      /\ -RevMisc <= back /\ back <= RevMisc
  BY <1>3, <1>4, Sizes DEF Off
<1>6. 2 * (OVERRUN + RevMisc + 2) <= N - Stroke
  BY <1>1 DEF Roomy
<1>7. CASE clb.ClosePos = Revolution
  <2>1. 0 \in Ways(Revolution)
    <3>1. PICK a \in Nat : a = Along(clb.ClosePos)
      BY <1>2, Signs DEF EndTypes
    <3>2. a - a = 0
      BY <3>1
    <3> QED BY <1>2, <1>7, <3>1, <3>2, WayTypes
  <2>2. PICK zero \in Int : zero = 0
    OBVIOUS
  <2>3. -N <= zero + back /\ zero + back <= N
    BY <1>2, <1>5, <1>6, <2>2, Sizes
  <2>4. zero + back \in Ways(Pos)
    BY <1>2, <1>5, <2>1, <2>2, <2>3, WayAway
  <2>5. back \in Ways(Pos)
    BY <2>2, <2>4
  <2>6. At(back)
    BY <1>2, <1>5, <1>6, <2>5, Sizes DEF At
  <2>7. x = back
    BY <1>1, <2>6, OneAt
  <2> QED BY <1>2, <1>3, <1>4, <1>5, <1>6, <2>7, Sizes DEF Depth
<1>8. CASE clb.OpenPos = Revolution
  <2>1. PICK s \in Int : s = Stroke
    BY <1>2
  <2>2. s \in Ways(Revolution)
    <3>5. PICK o \in Nat, c \in Nat : /\ o = Along(clb.OpenPos) /\ c = Along(clb.ClosePos)
                                     /\ o - c < N /\ c - o < N
      BY Signs, <1>2 DEF EndTypes
    <3>1. PICK w \in Int : w = o - c
      OBVIOUS
    <3>2. Ways(Revolution) = {w - N, w, w + N} /\ w < N /\ -w < N
      <4>1. Ways(Revolution) = {w - N, w, w + N}
        BY <1>2, <1>8, <3>1, <3>5, WayTypes
      <4> QED BY <1>2, <3>1, <3>5, <4>1
    <3>3. Stroke = w % N
      BY <1>2, <3>1, <3>5, WayTypes
    <3>4. w % N = IF w < 0 THEN w + N ELSE IF w < N THEN w ELSE w - N
      BY <1>2, <3>2, OnCircle
    <3> QED BY <2>1, <3>2, <3>3, <3>4
  <2>3. -N <= s + back /\ s + back <= N
    BY <1>2, <1>5, <1>6, <2>1, Sizes
  <2>4. s + back \in Ways(Pos)
    BY <1>2, <1>5, <2>2, <2>3, WayAway
  <2>5. PICK y \in Int : y = s + back
    OBVIOUS
  <2>6. At(y)
    BY <1>2, <1>5, <1>6, <2>1, <2>4, <2>5, Sizes DEF At
  <2>7. x = y
    BY <1>1, <2>6, OneAt
  <2> QED BY <1>2, <1>3, <1>4, <1>5, <1>6, <2>1, <2>5, <2>7, Sizes DEF Depth
<1> QED BY <1>1, <1>7, <1>8

LEMMA EndIsHereNext == EndHere'
  BY EndIsHere, PTL

LEMMA SamePlace ==
  ASSUME EndsKept(clb, clb'), shaft' = shaft
  PROVE  /\ Stroke' = Stroke /\ (Roomy' <=> Roomy)
         /\ \A x : At(x)' <=> At(x)
         /\ \A e, x : Depth(e, x)' = Depth(e, x)
<1>1. /\ Stroke' = Stroke /\ (FoundStroke' <=> FoundStroke) /\ \A m : Ways(m)' = Ways(m)
  BY SameStroke
<1>2. Pos' = Pos
  BY DEF Pos
<1>3. \A x : At(x)' <=> At(x)
  BY <1>1, <1>2 DEF At
<1> QED BY <1>1, <1>3 DEF Depth, Roomy, EndsKept

LEMMA OtherCount ==
  ASSUME NEW s \in Counts
  PROVE  RevMax - s \in Counts
  BY Circle DEF Counts

(* One mark further, if any, in the direction of the movement.             *)
LEMMA DriveTurns ==
  ASSUME Types, EncoderUpdate, ~Stopped, Roomy, NEW x \in Int, At(x)
  PROVE  \E y \in Int : /\ y \in Ways(Pos')
                        /\ IF drive.dir = "close" THEN y = x \/ y = x - 1
                           ELSE y = x \/ y = x + 1
<1>1. EndTypes /\ Pos \in Counts /\ Stroke \in 0 .. N - 1 /\ N \in Nat
  BY StrokeType, PosType, Circle
<1>2. PICK to \in Ends : to = (IF RodType THEN "open" ELSE "close") /\ shaft' \in Turned(to)
  BY DEF EncoderUpdate, Ends
<1>3. shaft' \in Counts
  BY <1>2, OneMark
<1>4. /\ shaft \in Int /\ shaft >= 0 /\ shaft <= RevMax
      /\ shaft' \in Int /\ shaft' >= 0 /\ shaft' <= RevMax
      /\ RevMax \in Nat /\ N = RevMax + 1
  BY <1>3, Circle DEF Types, Counts
<1>5. /\ drive.dir = to => shaft' = shaft \/ shaft' = shaft + 1 \/ (shaft = RevMax /\ shaft' = 0)
      /\ drive.dir # to => shaft' = shaft \/ shaft' = shaft - 1 \/ (shaft = 0 /\ shaft' = RevMax)
  BY <1>2, OneMark
<1>6. PICK p \in Counts : p = Pos'
  <2>1. PICK s \in Counts : s = shaft'
    BY <1>3
  <2>2. RevMax - s \in Counts
    BY OtherCount
  <2> QED BY <2>1, <2>2 DEF Pos
<1>7. PICK q \in Counts : q = Pos
  BY <1>1
<1>8. p - q = shaft - shaft' /\ Along(p) - Along(q) = Sign * (p - q)
  BY <1>4, <1>6, <1>7, Signs DEF Pos
<1>9. drive.dir \in Ends /\ RodType \in BOOLEAN
  BY PositionAssumption DEF Types, DriveType, Stopped
<1>10. PICK delta \in Int : /\ IF drive.dir = "close" THEN delta = 0 \/ delta = -1
                               ELSE delta = 0 \/ delta = 1
                            /\ \/ Along(p) - Along(q) = delta - N
                               \/ Along(p) - Along(q) = delta
                               \/ Along(p) - Along(q) = delta + N
  <2>1. CASE RodType
    <3>1. Along(p) - Along(q) = shaft' - shaft
      BY <1>4, <1>8, <2>1 DEF Sign
    <3>2. CASE drive.dir = "close"
      <4>1. shaft' = shaft \/ shaft' = shaft - 1 \/ (shaft = 0 /\ shaft' = RevMax)
        BY <1>2, <1>5, <2>1, <3>2
      <4> QED BY <1>4, <3>1, <3>2, <4>1
    <3>3. CASE drive.dir = "open"
      <4>1. shaft' = shaft \/ shaft' = shaft + 1 \/ (shaft = RevMax /\ shaft' = 0)
        BY <1>2, <1>5, <2>1, <3>3
      <4> QED BY <1>4, <3>1, <3>3, <4>1
    <3> QED BY <1>9, <3>2, <3>3 DEF Ends
  <2>2. CASE ~RodType
    <3>1. Along(p) - Along(q) = shaft - shaft'
      BY <1>4, <1>8, <2>2 DEF Sign
    <3>2. CASE drive.dir = "close"
      <4>1. shaft' = shaft \/ shaft' = shaft + 1 \/ (shaft = RevMax /\ shaft' = 0)
        BY <1>2, <1>5, <2>2, <3>2
      <4> QED BY <1>4, <3>1, <3>2, <4>1
    <3>3. CASE drive.dir = "open"
      <4>1. shaft' = shaft \/ shaft' = shaft - 1 \/ (shaft = 0 /\ shaft' = RevMax)
        BY <1>2, <1>5, <2>2, <3>3
      <4> QED BY <1>4, <3>1, <3>3, <4>1
    <3> QED BY <1>9, <3>2, <3>3 DEF Ends
  <2> QED BY <1>9, <2>1, <2>2
<1>11. /\ -OVERRUN <= x /\ x <= Stroke + OVERRUN
       /\ 2 * (OVERRUN + RevMisc + 2) <= N - Stroke
  BY DEF At, Roomy
<1>12. PICK y \in Int : y = x + delta
  OBVIOUS
<1>13. -1 <= delta /\ delta <= 1
  BY <1>10
<1>14. -N <= y /\ y <= N
  BY <1>1, <1>11, <1>12, <1>13, Sizes
<1>15. y \in Ways(p)
  BY <1>1, <1>7, <1>10, <1>12, <1>14, WayAway DEF At
<1> QED BY <1>6, <1>10, <1>12, <1>15

-----------------------------------------------------------------------------
(* At rest.                                                                *)
Inv == Basic /\ FreshInv /\ LagInv /\ ResetInv /\ TargetInv

LEMMA AtRestHalted ==
  ASSUME NEW s, NEW g, NEW found, NEW inz, NEW ine, NEW z, NEW ex
  PROVE  AtRest(s, 0, g, found, inz, ine, z, ex)
  BY DEF AtRest

(* A step that leaves the ends, the shaft, and what is looked at alone.    *)
LEMMA RestKept ==
  ASSUME RestInv, EndsKept(clb, clb'), shaft' = shaft, Stopped' => Stopped,
         \A e \in Ends : \A x, z \in Int :
           AtRest(slot, drive.rest, good, clb.FullStep # 0, e \in clb.Zone, e \in drive.ends,
                  z, clb.LinePos = x)
           => AtRest(slot', drive'.rest, good', clb'.FullStep # 0, e \in clb'.Zone,
                     e \in drive'.ends, z, clb'.LinePos = x),
         Types
  PROVE  RestInv'
<1>1. /\ Stroke' = Stroke /\ (Roomy' <=> Roomy)
      /\ \A x : At(x)' <=> At(x)
      /\ \A e, x : Depth(e, x)' = Depth(e, x)
  BY SamePlace
<1>2. \A e \in Ends : \A x \in Int : Depth(e, x) \in Int
  BY StrokeType, Circle DEF Depth
<1> QED BY <1>1, <1>2 DEF RestInv

LEMMA RestMeasured ==
  ASSUME Inv, RestInv, DefineCalibParams
  PROVE  RestInv'
<1> USE DEF Inv, Basic
<1>1. PICK d : d = clb' /\ d = Located(clb)
  BY DEF DefineCalibParams
<1>2. EndsKept(clb, clb') /\ shaft' = shaft /\ drive' = drive /\ good' = good
  BY <1>1, LocatedFields DEF EndsKept, DefineCalibParams, sensorVars
<1>3. /\ Stroke' = Stroke /\ (Roomy' <=> Roomy)
      /\ \A x : At(x)' <=> At(x)
      /\ \A e, x : Depth(e, x)' = Depth(e, x)
  BY <1>2, SamePlace
<1>4. slot = "DefineCalibParams" /\ slot' = "ClbControl"
  BY DEF DefineCalibParams
<1>5. SUFFICES ASSUME Stopped, Roomy, NEW x \in Int, At(x), NEW e \in Ends
      PROVE AtRest("ClbControl", drive.rest, good, clb'.FullStep # 0, e \in clb'.Zone,
                   e \in drive.ends, Depth(e, x), clb'.LinePos = x)
  BY <1>2, <1>3, <1>4 DEF RestInv, Stopped
<1>6. AtRest("DefineCalibParams", drive.rest, good, clb.FullStep # 0, e \in clb.Zone,
             e \in drive.ends, Depth(e, x), clb.LinePos = x)
  BY <1>4, <1>5 DEF RestInv
<1>7. PICK g \in Nat, r \in Nat : g = good /\ r = drive.rest
  BY Parameters DEF Types, DriveType
<1>8. PICK z \in Int : z = Depth(e, x)
  BY StrokeType, Circle DEF Depth
<1>9. PICK a \in Int, b \in Int :
        a = After(g) /\ b = Before(g) /\ b <= a /\ (g <= 1 => b = a) /\ a <= 1
        /\ (g <= 1 => a <= -RevMisc + 1)
  <2>1. Before(g) \in Int /\ After(g) \in Int
    BY Allowances
  <2> QED BY <2>1, Allowances
<1>10. CASE clb.FullStep = 0
  <2>1. clb'.FullStep = Stroke /\ clb'.Zone = {} /\ Stroke # 0
    BY <1>1, <1>5, <1>10, LocatedFields, NoStroke DEF Roomy
  <2>2. r >= 3 => z >= a
    BY <1>6, <1>7, <1>8, <1>9, <1>10 DEF AtRest
  <2> QED BY <1>7, <1>8, <1>9, <2>1, <2>2 DEF AtRest
<1>11. CASE clb.FullStep # 0
  <2>1. PICK line : line = LinePosition(clb, Along(Revolution), Along(clb.ClosePos))
    OBVIOUS
  <2>2. /\ clb'.FullStep # 0 /\ clb'.LinePos = line
        /\ clb'.Zone = Zones(clb, CalcClbGearRev(line))
    BY <1>1, <1>5, <1>11, <2>1, LocatedFields DEF Roomy
  <2>3. CASE r < 3
    BY <1>7, <2>2, <2>3 DEF AtRest
  <2>4. CASE r >= 3
    <3>1. PICK delta \in Int : Off(delta) /\ (good >= 2 => delta = 0)
      BY <1>5, <1>7, <2>4, ReadingAtRest
    <3>2. line = x + delta
      BY <1>5, <1>11, <2>1, <3>1, PlaceMeasured
    <3>3. line \in Int /\ clb.FullWay = CalcClbGearRev(Stroke)
      BY <1>5, <1>11, <3>2 DEF FreshInv, Roomy
    <3>4. e \notin clb'.Zone => Depth(e, line) >= 1
      BY <1>5, <2>2, <3>3, OutsideZones
    <3>5. Depth(e, line) = z + delta \/ Depth(e, line) = z - delta
      BY <1>8, <3>2, StrokeType, Circle DEF Depth
    <3>6. -RevMisc <= delta /\ delta <= RevMisc
      BY <3>1 DEF Off
    <3>7. e \notin clb'.Zone => z >= a
      <4>1. PICK m \in Int : m = Depth(e, line) /\ (m = z + delta \/ m = z - delta)
        BY <1>8, <3>5
      <4> QED BY <1>7, <1>9, <3>1, <3>4, <3>6, <4>1, Sizes
    <3>8. r >= 4 /\ e \notin drive.ends => z >= b /\ (z >= a \/ line = x)
      <4>1. r >= 4 /\ e \notin drive.ends => z >= b
        BY <1>6, <1>7, <1>8, <1>9, <1>11 DEF AtRest
      <4>2. g >= 2 => line = x
        BY <1>7, <3>1, <3>2
      <4> QED BY <1>9, <4>1, <4>2
    <3> QED BY <1>7, <1>8, <1>9, <2>2, <3>7, <3>8 DEF AtRest
  <2> QED BY <2>3, <2>4
<1> QED BY <1>10, <1>11

StrokeFits == Types => Stroke \in 0 .. N - 1
LEMMA StrokeFitsAlways == StrokeFits
  BY StrokeType DEF StrokeFits

LEMMA StrokeFitsNext == StrokeFits'
  BY StrokeFitsAlways, PTL

LEMMA RestCalibrated ==
  ASSUME Inv, Inv', RestInv, Calibration
  PROVE  RestInv'
<1> USE DEF Inv, Basic
<1>1. Outcome(clb, clb')
  BY CalibrationDoes
<1>2. UNCHANGED sensorVars /\ drive' = drive /\ slot' = slot /\ rounds = ROUNDS /\ ROUNDS >= 2
  BY EndsAssumption DEF Calibration
<1>3. CASE EndsKept(clb, clb')
  <2>1. clb'.FullStep = clb.FullStep /\ clb'.Zone = clb.Zone /\ clb'.LinePos = clb.LinePos
    BY <1>1 DEF Outcome, Measured
  <2>2. shaft' = shaft /\ good' = good /\ (Stopped' => Stopped)
    BY <1>2 DEF sensorVars, Stopped
  <2> QED BY <1>2, <1>3, <2>1, <2>2, RestKept
<1>4. CASE clb'.Status # CLB_FLAG
  BY <1>4 DEF RestInv, Roomy
<1>5. CASE EndSetNow(clb, clb')
  <2>1. clb'.FullStep = 0
    <3>1. ~Early
      BY <1>2, Parameters DEF Early
    <3> QED BY <1>1, <1>5, <3>1 DEF FreshInv, EndSetNow, Outcome, Measured
  <2>2. SUFFICES ASSUME Stopped', Roomy', NEW x \in Int, At(x)', NEW e \in Ends
        PROVE AtRest(slot, drive'.rest, good', FALSE, e \in clb'.Zone, e \in drive'.ends,
                     Depth(e, x)', clb'.LinePos = x)
    BY <1>2, <2>1 DEF RestInv
  <2>3. clb'.ClosePos = Revolution' \/ clb'.OpenPos = Revolution'
    BY <1>2, <1>5 DEF EndSetNow, sensorVars, Revolution
  <2>4. PICK g \in Nat, r \in Nat : g = good' /\ r = drive'.rest
    <3>1. good' \in Nat /\ drive'.rest \in Nat
      BY Parameters DEF Types, DriveType
    <3> QED BY <3>1
  <2>5. PICK z \in Int : z = Depth(e, x)'
    <3>1. Stroke' \in 0 .. N - 1
      BY StrokeFitsNext DEF StrokeFits
    <3>2. Depth(e, x)' \in Int
      BY <3>1, Circle DEF Depth
    <3> QED BY <3>2
  <2>6. r >= 2 => z >= -RevMisc /\ (g >= 2 => z >= 0)
    BY <2>2, <2>3, <2>4, <2>5, EndIsHereNext DEF EndHere
  <2>7. PICK a \in Int, i \in Int : a = After(g) /\ i = Idle(g) /\ i >= a /\ i <= 0
                                    /\ (g <= 1 => i <= -RevMisc)
    <3>1. Idle(g) \in Int /\ After(g) \in Int
      BY Allowances
    <3> QED BY <3>1, Allowances
  <2>8. r >= 2 => z >= i
    BY <2>6, <2>7, Sizes
  <2> QED BY <2>4, <2>5, <2>7, <2>8 DEF AtRest
<1> QED BY <1>1, <1>3, <1>4, <1>5 DEF Outcome

LEMMA RestNext ==
  ASSUME Inv, Inv', RestInv, [Next]_vars
  PROVE  RestInv'
<1> USE DEF Inv, Basic
<1>1. CASE DefineCalibParams
  BY <1>1, RestMeasured
<1>2. CASE Calibration
  BY <1>2, RestCalibrated
<1>3. CASE ClbControl
  <2>1. /\ drive'.dir = drive.dir /\ drive'.rest = drive.rest /\ drive'.ends = clb.Zone
    <3>1. ~CalibStop
      BY <1>3 DEF ClbControl, CalibStop
    <3> QED BY <1>3, <3>1, TaskOfList
  <2>2. shaft' = shaft /\ good' = good /\ slot = "ClbControl" /\ slot' = "CalibStop"
    BY <1>3 DEF ClbControl, sensorVars
  <2>3. /\ EndsKept(clb, clb') /\ clb'.FullStep = clb.FullStep
        /\ clb'.LinePos = clb.LinePos /\ clb'.Zone = clb.Zone
    BY <1>3, ControlDoes
  <2>4. \A e \in Ends : \A x, z \in Int :
           AtRest(slot, drive.rest, good, clb.FullStep # 0, e \in clb.Zone, e \in drive.ends,
                  z, clb.LinePos = x)
           => AtRest(slot', drive'.rest, good', clb'.FullStep # 0, e \in clb'.Zone,
                     e \in drive'.ends, z, clb'.LinePos = x)
    BY <2>1, <2>2, <2>3 DEF AtRest
  <2> QED BY <2>1, <2>2, <2>3, <2>4, RestKept DEF Stopped
<1>4. CASE CalibStop
  <2>1. /\ UNCHANGED sensorVars /\ clb' = clb /\ slot = "CalibStop" /\ slot' = "EncoderUpdate"
    BY <1>4 DEF CalibStop
  <2>2. EndsKept(clb, clb') /\ shaft' = shaft /\ good' = good
    BY <2>1 DEF EndsKept, sensorVars
  <2>3. CASE drive' = drive
    <3>1. \A e \in Ends : \A x, z \in Int :
           AtRest(slot, drive.rest, good, clb.FullStep # 0, e \in clb.Zone, e \in drive.ends,
                  z, clb.LinePos = x)
           => AtRest(slot', drive'.rest, good', clb'.FullStep # 0, e \in clb'.Zone,
                     e \in drive'.ends, z, clb'.LinePos = x)
      BY <2>1, <2>2, <2>3 DEF AtRest
    <3> QED BY <2>2, <2>3, <3>1, RestKept DEF Stopped
  <2>4. CASE drive'.rest = 0
    BY <2>4, AtRestHalted DEF RestInv
  <2>5. ~ClbControl
    BY <1>4 DEF ClbControl, CalibStop
  <2> QED BY <1>4, <2>3, <2>4, <2>5, TaskOfList
<1>5. CASE EncoderUpdate
  <2>1. SUFFICES ASSUME Stopped PROVE RestInv'
    BY <1>5, ReadingKeeps DEF RestInv, Stopped
  <2>2. shaft' = shaft /\ clb' = clb /\ slot = "EncoderUpdate" /\ slot' = "DefineCalibParams"
    BY <1>5, <2>1, OneMark DEF EncoderUpdate, Ends
  <2>3. /\ drive'.dir = drive.dir /\ drive'.ends = drive.ends
        /\ drive'.rest = IF drive.rest < REST THEN drive.rest + 1 ELSE drive.rest
    BY <1>5, <2>1, ReadingKeeps
  <2>4. Reads(good, good') /\ good \in Nat /\ good' \in Nat
    BY <1>5, BadReadings
  <2>5. PICK r \in Nat, q \in Nat : r = drive.rest /\ q = drive'.rest /\ (q = r + 1 \/ (q = r /\ r >= 4))
    <3>1. drive.rest \in 0 .. REST /\ REST \in Nat /\ REST >= 4
      BY Parameters, EndsAssumption DEF Types, DriveType
    <3> QED BY <2>3, <3>1
  <2>6. EndsKept(clb, clb')
    BY <2>2 DEF EndsKept
  <2>7. \A e \in Ends : \A x, z \in Int :
           AtRest(slot, drive.rest, good, clb.FullStep # 0, e \in clb.Zone, e \in drive.ends,
                  z, clb.LinePos = x)
           => AtRest(slot', drive'.rest, good', clb'.FullStep # 0, e \in clb'.Zone,
                     e \in drive'.ends, z, clb'.LinePos = x)
    <3>1. SUFFICES ASSUME NEW e \in Ends, NEW x \in Int, NEW z \in Int,
             AtRest("EncoderUpdate", r, good, clb.FullStep # 0, e \in clb.Zone, e \in drive.ends,
                    z, clb.LinePos = x)
           PROVE AtRest("DefineCalibParams", q, good', clb.FullStep # 0, e \in clb.Zone,
                     e \in drive.ends, z, clb.LinePos = x)
      BY <2>2, <2>3, <2>5
    <3>2. PICK f \in BOOLEAN, inz \in BOOLEAN, ine \in BOOLEAN, ex \in BOOLEAN :
            /\ f <=> clb.FullStep # 0
            /\ inz <=> e \in clb.Zone
            /\ ine <=> e \in drive.ends
            /\ ex <=> clb.LinePos = x
      OBVIOUS
    <3>4. PICK g \in Nat, h \in Nat : g = good /\ h = good' /\ Reads(g, h)
      BY <2>4
    <3>3. AtRest("EncoderUpdate", r, g, f, inz, ine, z, ex)
      BY <3>1, <3>2, <3>4 DEF AtRest
    <3>6. r \in Nat /\ q \in Nat /\ (q = r + 1 \/ (q = r /\ r >= 4))
      BY <2>5
    <3>5. AtRest("DefineCalibParams", q, h, f, inz, ine, z, ex)
      BY <3>3, <3>4, <3>6, AtRestRead
    <3> QED BY <3>2, <3>4, <3>5 DEF AtRest
  <2> QED BY <2>1, <2>2, <2>6, <2>7, RestKept
<1>6. CASE ValveDrive
  <2>1. /\ UNCHANGED sensorVars /\ clb' = clb /\ slot' = slot
    BY <1>6 DEF ValveDrive, listVars
  <2>2. EndsKept(clb, clb') /\ shaft' = shaft /\ good' = good
    BY <2>1 DEF EndsKept, sensorVars
  <2>3. CASE SameDrive
    <3>1. \A e \in Ends : \A x, z \in Int :
           AtRest(slot, drive.rest, good, clb.FullStep # 0, e \in clb.Zone, e \in drive.ends,
                  z, clb.LinePos = x)
           => AtRest(slot', drive'.rest, good', clb'.FullStep # 0, e \in clb'.Zone,
                     e \in drive'.ends, z, clb'.LinePos = x)
      BY <2>1, <2>2, <2>3 DEF AtRest, SameDrive
    <3> QED BY <2>2, <2>3, <3>1, RestKept DEF Stopped, SameDrive
  <2>4. CASE drive'.rest = 0
    BY <2>4, AtRestHalted DEF RestInv
  <2>5. CASE \E end \in Ends : Started(end)
    BY <2>5 DEF RestInv, Stopped, Started, Ends
  <2> QED BY <1>6, <2>3, <2>4, <2>5, ValveDriveDoes
<1>7. CASE Operator \/ UNCHANGED vars
  <2>1. /\ UNCHANGED sensorVars /\ clb' = clb /\ slot' = slot /\ drive' = drive
    BY <1>7 DEF Operator, vars, listVars
  <2>2. EndsKept(clb, clb') /\ shaft' = shaft /\ good' = good
    BY <2>1 DEF EndsKept, sensorVars
  <2>3. \A e \in Ends : \A x, z \in Int :
           AtRest(slot, drive.rest, good, clb.FullStep # 0, e \in clb.Zone, e \in drive.ends,
                  z, clb.LinePos = x)
           => AtRest(slot', drive'.rest, good', clb'.FullStep # 0, e \in clb'.Zone,
                     e \in drive'.ends, z, clb'.LinePos = x)
      BY <2>1, <2>2
  <2> QED BY <2>1, <2>2, <2>3, RestKept DEF Stopped
<1>8. CASE Settings
  <2>1. /\ clb' = clb /\ slot' = slot /\ shaft' = shaft /\ good' = good
        /\ drive'.dir = drive.dir /\ drive'.rest = drive.rest /\ drive'.ends = drive.ends
        /\ EndsKept(clb, clb')
    BY <1>8, SettingsDo
  <2>2. \A e \in Ends : \A x, z \in Int :
           AtRest(slot, drive.rest, good, clb.FullStep # 0, e \in clb.Zone, e \in drive.ends,
                  z, clb.LinePos = x)
           => AtRest(slot', drive'.rest, good', clb'.FullStep # 0, e \in clb'.Zone,
                     e \in drive'.ends, z, clb'.LinePos = x)
    BY <2>1 DEF AtRest
  <2> QED BY <2>1, <2>2, RestKept DEF Stopped
<1> QED BY <1>1, <1>2, <1>3, <1>4, <1>5, <1>6, <1>7, <1>8 DEF Next, Settings

-----------------------------------------------------------------------------
(* On the way to a target.  A movement that began on the stroke is under   *)
(* way, and has had no camera test.                                        *)
StopInv == drive.inside => ~Stopped /\ ~TestCamera

LEMMA MoveKept ==
  ASSUME Types, MoveInv, EndsKept(clb, clb'), shaft' = shaft, drive'.dir = drive.dir,
         Aimed' => Aimed, drive'.inside => drive.inside,
         \A x, z \in Int :
           Within(slot, good, clb.FullStep # 0, z, clb.LinePos = x)
           => Within(slot', good', clb'.FullStep # 0, z, clb'.LinePos = x)
  PROVE  MoveInv'
<1>1. /\ Stroke' = Stroke /\ (Roomy' <=> Roomy)
      /\ \A x : At(x)' <=> At(x)
      /\ \A e, x : Depth(e, x)' = Depth(e, x)
  BY SamePlace
<1>2. \A e : \A x \in Int : Depth(e, x) \in Int
  BY StrokeType, Circle DEF Depth
<1> QED BY <1>1, <1>2 DEF MoveInv

(* A reading that comes after two sound ones shows the place as it is.     *)
LEMMA MoveMeasured ==
  ASSUME Inv, MoveInv, DefineCalibParams
  PROVE  MoveInv'
<1> USE DEF Inv, Basic
<1>1. PICK d : d = clb' /\ d = Located(clb)
  BY DEF DefineCalibParams
<1>2. EndsKept(clb, clb') /\ shaft' = shaft /\ drive' = drive /\ good' = good
  BY <1>1, LocatedFields DEF EndsKept, DefineCalibParams, sensorVars
<1>3. /\ Stroke' = Stroke /\ (Roomy' <=> Roomy)
      /\ \A x : At(x)' <=> At(x)
      /\ \A e, x : Depth(e, x)' = Depth(e, x)
  BY <1>2, SamePlace
<1>4. slot = "DefineCalibParams" /\ slot' = "ClbControl"
  BY DEF DefineCalibParams
<1>5. SUFFICES ASSUME Aimed, drive.inside, Roomy
      PROVE \E x \in Int : At(x) /\ Within("ClbControl", good, clb'.FullStep # 0,
                                           Depth(drive.dir, x), clb'.LinePos = x)
  BY <1>2, <1>3, <1>4 DEF MoveInv, Aimed, Stopped
<1>6. PICK x \in Int : /\ At(x)
                       /\ Within("DefineCalibParams", good, clb.FullStep # 0,
                                 Depth(drive.dir, x), clb.LinePos = x)
  BY <1>4, <1>5 DEF MoveInv
<1>7. PICK g \in Nat : g = good
  BY Parameters DEF Types
<1>8. PICK z \in Int : z = Depth(drive.dir, x)
  BY StrokeType, Circle DEF Depth
<1>9. PICK a \in Int, b \in Int : a = After(g) /\ b = Before(g) /\ b <= a /\ (g <= 1 => b = a)
  <2>1. Before(g) \in Int /\ After(g) \in Int
    BY Allowances
  <2> QED BY <2>1, Allowances
<1>10. CASE clb.FullStep = 0
  <2>1. clb'.FullStep # 0
    BY <1>1, <1>5, <1>10, LocatedFields, NoStroke DEF Roomy
  <2>2. z >= a
    BY <1>6, <1>7, <1>8, <1>9, <1>10 DEF Within
  <2> QED BY <1>6, <1>7, <1>8, <1>9, <2>1, <2>2 DEF Within
<1>11. CASE clb.FullStep # 0
  <2>1. PICK line : line = LinePosition(clb, Along(Revolution), Along(clb.ClosePos))
    OBVIOUS
  <2>2. clb'.FullStep # 0 /\ clb'.LinePos = line
    BY <1>1, <1>5, <1>11, <2>1, LocatedFields DEF Roomy
  <2>3. g >= 2 => line = x
    <3>1. SUFFICES ASSUME good >= 2 PROVE line = x
      BY <1>7
    <3>2. Off(0)
      BY <3>1, ReadingOff DEF LagInv
    <3>3. PICK delta \in Int : delta = 0
      OBVIOUS
    <3>4. line = x + delta
      BY <1>5, <1>6, <1>11, <2>1, <3>2, <3>3, PlaceMeasured
    <3> QED BY <3>3, <3>4
  <2>4. z >= b
    BY <1>6, <1>7, <1>8, <1>9, <1>11 DEF Within
  <2>5. z >= a \/ line = x
    BY <1>9, <2>3, <2>4
  <2> QED BY <1>6, <1>7, <1>8, <1>9, <2>2, <2>4, <2>5 DEF Within
<1> QED BY <1>10, <1>11

LEMMA MoveRead ==
  ASSUME Inv, MoveInv, EncoderUpdate
  PROVE  MoveInv'
<1> USE DEF Inv, Basic
<1>1. clb' = clb /\ slot = "EncoderUpdate" /\ slot' = "DefineCalibParams"
  BY DEF EncoderUpdate
<1>2. drive'.dir = drive.dir /\ drive'.target = drive.target /\ drive'.inside = drive.inside
  BY ReadingKeeps
<1>3. EndsKept(clb, clb')
  BY <1>1 DEF EndsKept
<1>4. Stroke' = Stroke /\ (FoundStroke' <=> FoundStroke) /\ \A m : Ways(m)' = Ways(m)
  BY <1>3, SameStroke
<1>5. Roomy' <=> Roomy
  BY <1>1, <1>4 DEF Roomy
<1>6. SUFFICES ASSUME Aimed, drive.inside, Roomy
      PROVE \E y \in Int : At(y)' /\ Within("DefineCalibParams", good', clb.FullStep # 0,
                                            Depth(drive.dir, y), clb.LinePos = y)
  BY <1>1, <1>2, <1>4, <1>5 DEF MoveInv, Aimed, Stopped, Depth
<1>7. PICK x \in Int : /\ At(x)
                       /\ Within("EncoderUpdate", good, clb.FullStep # 0,
                                 Depth(drive.dir, x), clb.LinePos = x)
  BY <1>1, <1>6 DEF MoveInv
<1>8. PICK y \in Int : /\ y \in Ways(Pos')
                       /\ IF drive.dir = "close" THEN y = x \/ y = x - 1
                          ELSE y = x \/ y = x + 1
  BY <1>6, <1>7, DriveTurns DEF Aimed
<1>9. PICK s \in Int : s = Stroke /\ s >= 0
  BY StrokeType, Circle
<1>10. PICK z \in Int, u \in Int : /\ z = Depth(drive.dir, x) /\ u = Depth(drive.dir, y)
                                   /\ (u = z \/ u = z - 1)
  <2>1. CASE drive.dir = "close"
    BY <1>8, <2>1 DEF Depth
  <2>2. CASE drive.dir # "close"
    <3>1. Depth(drive.dir, x) = s - x /\ Depth(drive.dir, y) = s - y
      BY <1>9, <2>2 DEF Depth
    <3>2. PICK z \in Int, u \in Int : z = s - x /\ u = s - y
      <4>1. s - x \in Int /\ s - y \in Int
        OBVIOUS
      <4> QED BY <4>1
    <3>3. u = z \/ u = z - 1
      BY <1>8, <2>2, <3>2
    <3> QED BY <3>1, <3>2, <3>3
  <2> QED BY <2>1, <2>2
<1>11. PICK g \in Nat, h \in Nat : g = good /\ h = good' /\ Reads(g, h)
  BY BadReadings
<1>12. PICK f \in BOOLEAN, ex \in BOOLEAN, fx \in BOOLEAN :
         (f <=> clb.FullStep # 0) /\ (ex <=> clb.LinePos = x) /\ (fx <=> clb.LinePos = y)
  OBVIOUS
<1>13. Within("EncoderUpdate", g, f, z, ex)
  BY <1>7, <1>10, <1>11, <1>12 DEF Within
<1>14. u >= z - 1
  BY <1>10
<1>15. Within("DefineCalibParams", h, f, u, fx)
  BY <1>11, <1>13, <1>14, WithinRead
<1>16. u >= -OVERRUN
  <2>1. PICK a \in Int, b \in Int : a = After(h) /\ b = Before(h) /\ b <= a /\ b >= -RevMisc - 2
    <3>1. Before(h) \in Int /\ After(h) \in Int
      BY Allowances
    <3> QED BY <3>1, Allowances
  <2>2. u >= b
    BY <1>15, <2>1 DEF Within
  <2> QED BY <2>1, <2>2, Sizes
<1>17. At(y)'
  <2>1. -OVERRUN <= x /\ x <= s + OVERRUN
    BY <1>7, <1>9 DEF At
  <2>2. -OVERRUN <= y /\ y <= s + OVERRUN
    <3>1. CASE drive.dir = "close"
      <4>1. u = y /\ (y = x \/ y = x - 1)
        BY <1>8, <1>10, <3>1 DEF Depth
      <4> QED BY <1>16, <2>1, <4>1, Sizes
    <3>2. CASE drive.dir # "close"
      <4>1. u = s - y /\ (y = x \/ y = x + 1)
        BY <1>8, <1>9, <1>10, <3>2 DEF Depth
      <4> QED BY <1>16, <2>1, <4>1, Sizes
    <3> QED BY <3>1, <3>2
  <2>3. Ways(Pos)' = Ways(Pos')
    BY <1>4, <1>1 DEF Ways
  <2> QED BY <1>4, <1>8, <1>9, <2>2, <2>3 DEF At
<1> QED BY <1>10, <1>11, <1>12, <1>15, <1>17 DEF Within

(* A drive that is not at its target is not past it.                       *)
LEMMA MovePassed ==
  ASSUME Inv, StopInv, MoveInv, CalibStop
  PROVE  MoveInv'
<1> USE DEF Inv, Basic
<1>1. ~ClbControl
  BY DEF ClbControl, CalibStop
<1>2. CASE drive'.dir = "stop"
  BY <1>2 DEF MoveInv, Aimed, Stopped
<1>3. CASE ~AtTarget /\ drive' = drive
  <2>1. clb' = clb /\ shaft' = shaft /\ good' = good /\ slot = "CalibStop" /\ slot' = "EncoderUpdate"
    BY DEF CalibStop, sensorVars
  <2>2. EndsKept(clb, clb')
    BY <2>1 DEF EndsKept
  <2>3. /\ Stroke' = Stroke /\ (Roomy' <=> Roomy)
        /\ \A x : At(x)' <=> At(x)
        /\ \A e, x : Depth(e, x)' = Depth(e, x)
    BY <2>1, <2>2, SamePlace
  <2>4. SUFFICES ASSUME Aimed, drive.inside, Roomy
        PROVE \E x \in Int : At(x) /\ Within("EncoderUpdate", good, clb.FullStep # 0,
                                             Depth(drive.dir, x), clb.LinePos = x)
    BY <1>3, <2>1, <2>3 DEF MoveInv, Aimed, Stopped
  <2>5. PICK x \in Int : /\ At(x)
                         /\ Within("CalibStop", good, clb.FullStep # 0,
                                   Depth(drive.dir, x), clb.LinePos = x)
    BY <2>1, <2>4 DEF MoveInv
  <2>6. PICK g \in Nat : g = good
    BY Parameters DEF Types
  <2>7. PICK z \in Int : z = Depth(drive.dir, x)
    BY StrokeType, Circle DEF Depth
  <2>8. PICK a \in Int : a = After(g) /\ a <= 1
    BY Allowances
  <2>12. ~TestCamera
    BY <2>4 DEF StopInv
  <2>9. clb.LinePos = x => z >= 1
    <3>1. SUFFICES ASSUME clb.LinePos = x PROVE z >= 1
      OBVIOUS
    <3>2. PICK t \in Int : t = drive.target
      BY DEF Types, DriveType
    <3>3. PICK s \in Int : s = Stroke
      BY StrokeType, Circle
    <3>4. CASE drive.dir = "close"
      <4>1. t = 0 /\ ~(x - t <= BrakeZone)
        BY <1>3, <2>4, <2>12, <3>1, <3>2, <3>4 DEF AtTarget, TargetInv, Aimed, Roomy
      <4>2. z = x
        BY <2>7, <3>4 DEF Depth
      <4> QED BY <4>1, <4>2, Parameters
    <3>5. CASE drive.dir # "close"
      <4>1. t <= s /\ ~(x - t >= -BrakeZone)
        BY <1>3, <2>4, <2>12, <3>1, <3>2, <3>3, <3>5 DEF AtTarget, TargetInv, Aimed, Roomy
      <4>2. z = s - x
        BY <2>7, <3>3, <3>5 DEF Depth
      <4> QED BY <3>2, <3>3, <4>1, <4>2, Parameters
    <3> QED BY <3>4, <3>5
  <2>10. CASE clb.FullStep = 0
    BY <2>5, <2>10 DEF Within
  <2>11. CASE clb.FullStep # 0
    <3>1. z >= a
      BY <2>5, <2>6, <2>7, <2>8, <2>9, <2>11 DEF Within
    <3> QED BY <2>5, <2>6, <2>7, <2>8, <2>11, <3>1 DEF Within
  <2> QED BY <2>10, <2>11
<1> QED BY <1>1, <1>2, <1>3, TaskOfList

LEMMA SomePlace ==
  ASSUME EndTypes, NEW m \in Counts
  PROVE  \E d \in Ways(m) : d \in Places(m, 0)
<1>1. PICK w \in Int : Ways(m) = {w - N, w, w + N}
  BY WayTypes
<1>2. N \in Int /\ Stroke \in Int
  BY WayTypes, Circle
<1>3. \A d \in Int : Far(d) \in Int
  <2>1. SUFFICES ASSUME NEW d \in Int PROVE Far(d) \in Int
    OBVIOUS
  <2>2. PICK k \in Int : k = 2 * d - Stroke
    <3>1. 2 * d - Stroke \in Int
      BY <1>2
    <3> QED BY <3>1
  <2> QED BY <2>2 DEF Far, Abs
<1>4. PICK x \in Int, y \in Int : x = w - N /\ y = w + N
  <2>1. w - N \in Int /\ w + N \in Int
    BY <1>2
  <2> QED BY <2>1
<1>5. PICK i \in Int, j \in Int, k \in Int : i = Far(x) /\ j = Far(w) /\ k = Far(y)
  BY <1>3
<1>6. \/ i <= i + 0 /\ i <= j + 0 /\ i <= k + 0
      \/ j <= i + 0 /\ j <= j + 0 /\ j <= k + 0
      \/ k <= i + 0 /\ k <= j + 0 /\ k <= k + 0
  OBVIOUS
<1>7. \/ \A e \in Ways(m) : Far(x) <= Far(e) + 0
      \/ \A e \in Ways(m) : Far(w) <= Far(e) + 0
      \/ \A e \in Ways(m) : Far(y) <= Far(e) + 0
  BY <1>1, <1>4, <1>5, <1>6
<1> QED BY <1>1, <1>4, <1>7 DEF Places

(* A start from a stroke on which the end is not known to be reached.      *)
LEMMA MoveStarted ==
  ASSUME Inv, RestInv, ValveDrive, Stopped, drive.rest = REST,
         NEW end \in Ends, end \notin drive.ends, Started(end)
  PROVE  MoveInv'
<1> USE DEF Inv, Basic
<1>1. UNCHANGED sensorVars /\ clb' = clb /\ slot' = slot
  BY DEF ValveDrive, listVars
<1>2. EndsKept(clb, clb') /\ shaft' = shaft /\ good' = good
  BY <1>1 DEF EndsKept, sensorVars
<1>3. /\ Stroke' = Stroke /\ (Roomy' <=> Roomy)
      /\ \A x : At(x)' <=> At(x)
      /\ \A e, x : Depth(e, x)' = Depth(e, x)
  BY <1>2, SamePlace
<1>4. SUFFICES ASSUME OnTheStroke, Roomy
      PROVE \E x \in Int : At(x) /\ Within(slot, good, clb.FullStep # 0, Depth(end, x), clb.LinePos = x)
  BY <1>1, <1>2, <1>3 DEF MoveInv, Started
<1>5. PICK x \in Ways(Pos) : x \in Places(Pos, 0)
  BY PosType, StrokeType, SomePlace
<1>6. x \in Int
  BY <1>5, PosType, StrokeType, WayTypes
<1>7. At(x)
  <2>1. x \in -OVERRUN .. (clb.FullStep + OVERRUN)
    BY <1>4, <1>5 DEF OnTheStroke, Pos
  <2>2. PICK f \in Int, s \in Int : f = clb.FullStep /\ s = Stroke /\ f <= s
    <3>1. clb.FullStep \in Nat /\ Stroke \in Nat
      BY StrokeType, Circle DEF Types, ClbType
    <3>2. clb.FullStep = 0 \/ clb.FullStep = Stroke
      BY <1>4 DEF FreshInv, Roomy
    <3> QED BY <3>1, <3>2
  <2> QED BY <1>5, <1>6, <2>1, <2>2, Sizes DEF At
<1>8. AtRest(slot, drive.rest, good, clb.FullStep # 0, end \in clb.Zone, end \in drive.ends,
             Depth(end, x), clb.LinePos = x)
  BY <1>4, <1>6, <1>7 DEF RestInv
<1>9. PICK g \in Nat, r \in Nat : g = good /\ r = drive.rest /\ r >= 4
  BY Parameters, EndsAssumption DEF Types, DriveType
<1>10. PICK z \in Int : z = Depth(end, x)
  BY <1>6, StrokeType, Circle DEF Depth
<1>11. PICK a \in Int, b \in Int : a = After(g) /\ b = Before(g) /\ b <= a
  <2>1. Before(g) \in Int /\ After(g) \in Int
    BY Allowances
  <2> QED BY <2>1, Allowances
<1>12. slot \in Slots
  BY DEF Types
<1>13. CASE clb.FullStep = 0
  BY <1>6, <1>7, <1>8, <1>9, <1>12, <1>13 DEF AtRest, Within, Slots
<1>14. CASE clb.FullStep # 0
  <2>1. slot # "EncoderUpdate" => z >= b
    BY <1>8, <1>9, <1>10, <1>11, <1>12, <1>14 DEF AtRest, Slots
  <2>2. slot = "EncoderUpdate" => z >= a
    BY <1>8, <1>9, <1>10, <1>11, <1>14 DEF AtRest
  <2>3. slot \in {"ClbControl", "CalibStop"} => z >= a \/ clb.LinePos = x
    BY <1>8, <1>9, <1>10, <1>11, <1>14 DEF AtRest
  <2> QED BY <1>6, <1>7, <1>9, <1>10, <1>11, <1>14, <2>1, <2>2, <2>3 DEF Within
<1> QED BY <1>13, <1>14

LEMMA MoveNext ==
  ASSUME Inv, StopInv, RestInv, MoveInv, [Next]_vars
  PROVE  MoveInv'
<1> USE DEF Inv, Basic
<1>1. CASE DefineCalibParams
  BY <1>1, MoveMeasured
<1>2. CASE CalibStop
  BY <1>2, MovePassed
<1>3. CASE EncoderUpdate
  BY <1>3, MoveRead
<1>4. CASE ClbControl
  <2>1. shaft' = shaft /\ good' = good /\ slot = "ClbControl" /\ slot' = "CalibStop"
    BY <1>4 DEF ClbControl, sensorVars
  <2>2. EndsKept(clb, clb') /\ clb'.FullStep = clb.FullStep /\ clb'.LinePos = clb.LinePos
    BY <1>4, ControlDoes
  <2>3. drive'.dir = drive.dir /\ drive'.inside = drive.inside /\ (Aimed' => Aimed)
    <3>1. ~CalibStop
      BY <2>1 DEF CalibStop
    <3> QED BY <1>4, <3>1, TaskOfList, AimKept
  <2>4. \A x, z \in Int :
           Within(slot, good, clb.FullStep # 0, z, clb.LinePos = x)
           => Within(slot', good', clb'.FullStep # 0, z, clb'.LinePos = x)
    BY <2>1, <2>2 DEF Within
  <2> QED BY <2>1, <2>2, <2>3, <2>4, MoveKept
<1>5. CASE Calibration
  <2>1. Outcome(clb, clb')
    BY <1>5, CalibrationDoes
  <2>2. UNCHANGED sensorVars /\ drive' = drive /\ slot' = slot
    BY <1>5 DEF Calibration
  <2>3. CASE EndsKept(clb, clb')
    <3>1. clb'.FullStep = clb.FullStep /\ clb'.LinePos = clb.LinePos
      BY <2>1 DEF Outcome, Measured
    <3>2. shaft' = shaft /\ good' = good /\ (Aimed' => Aimed)
      BY <2>2 DEF sensorVars, Aimed, Stopped
    <3> QED BY <2>2, <2>3, <3>1, <3>2, MoveKept
  <2>4. CASE clb'.Status # CLB_FLAG
    BY <2>4 DEF MoveInv, Roomy
  <2>5. CASE EndSetNow(clb, clb')
    <3>1. ~Aimed
      BY <1>5, <2>5, NoEndSet
    <3> QED BY <2>2, <3>1 DEF MoveInv, Aimed, Stopped
  <2> QED BY <2>1, <2>3, <2>4, <2>5 DEF Outcome
<1>6. CASE ValveDrive
  <2>1. UNCHANGED sensorVars /\ clb' = clb /\ slot' = slot
    BY <1>6 DEF ValveDrive, listVars
  <2>2. CASE SameDrive
    <3>1. EndsKept(clb, clb') /\ shaft' = shaft /\ good' = good
      BY <2>1 DEF EndsKept, sensorVars
    <3>2. drive'.dir = drive.dir /\ drive'.inside = drive.inside /\ (Aimed' => Aimed)
      BY <2>2 DEF SameDrive, Aimed, Stopped
    <3>3. \A x, z \in Int :
           Within(slot, good, clb.FullStep # 0, z, clb.LinePos = x)
           => Within(slot', good', clb'.FullStep # 0, z, clb'.LinePos = x)
      BY <2>1, <3>1
    <3> QED BY <3>1, <3>2, <3>3, MoveKept
  <2>3. CASE drive'.dir = "stop"
    BY <2>3 DEF MoveInv, Aimed, Stopped
  <2>4. CASE \E end \in Ends : /\ Stopped /\ drive.rest = REST /\ end \notin drive.ends
                               /\ Started(end)
    BY <1>6, <2>4, MoveStarted
  <2> QED BY <1>6, <2>2, <2>3, <2>4, ValveDriveDoes
<1>7. CASE Operator \/ UNCHANGED vars
  <2>1. /\ UNCHANGED sensorVars /\ clb' = clb /\ slot' = slot /\ drive' = drive
    BY <1>7 DEF Operator, vars, listVars
  <2>2. EndsKept(clb, clb') /\ shaft' = shaft /\ good' = good /\ (Aimed' => Aimed)
    BY <2>1 DEF EndsKept, sensorVars, Aimed, Stopped
  <2> QED BY <2>1, <2>2, MoveKept
<1>8. CASE Settings
  <2>1. /\ clb' = clb /\ slot' = slot /\ shaft' = shaft /\ good' = good
        /\ drive'.dir = drive.dir /\ (drive'.inside => drive.inside)
        /\ EndsKept(clb, clb') /\ (Aimed' => Aimed)
    BY <1>8, SettingsDo, AimKept
  <2>2. \A x, z \in Int :
           Within(slot, good, clb.FullStep # 0, z, clb.LinePos = x)
           => Within(slot', good', clb'.FullStep # 0, z, clb'.LinePos = x)
    BY <2>1
  <2> QED BY <2>1, <2>2, MoveKept
<1> QED BY <1>1, <1>2, <1>3, <1>4, <1>5, <1>6, <1>7, <1>8 DEF Next, Settings

LEMMA StopNext ==
  ASSUME Basic, StopInv, [Next]_vars
  PROVE  StopInv'
<1> USE DEF Basic
<1>1. CASE /\ drive'.dir = drive.dir
           /\ drive'.inside => drive.inside /\ TestCamera' = TestCamera
  BY <1>1 DEF StopInv, Stopped
<1>2. CASE EncoderUpdate
  BY <1>1, <1>2, ReadingKeeps DEF EncoderUpdate, settings
<1>3. CASE CalibStop \/ ClbControl \/ DefineCalibParams \/ Calibration \/ Operator
             \/ UNCHANGED vars
  <2>1. TestCamera' = TestCamera
    BY <1>3 DEF CalibStop, ClbControl, DefineCalibParams, Calibration, Operator, vars, settings
  <2>2. CASE ~drive'.inside
    BY <2>2 DEF StopInv
  <2> QED BY <1>1, <1>3, <2>1, <2>2, TaskOfList
<1>4. CASE ValveDrive
  <2>1. TestCamera' = TestCamera
    BY <1>4 DEF ValveDrive, settings
  <2>2. CASE ~drive'.inside
    BY <2>2 DEF StopInv
  <2>3. CASE \E end \in Ends : Started(end)
    BY <2>1, <2>3 DEF Started, StopInv, Stopped, Ends
  <2>4. CASE SameDrive
    BY <1>1, <2>1, <2>4 DEF SameDrive
  <2> QED BY <1>4, <2>2, <2>3, <2>4, ValveDriveDoes
<1>5. CASE Settings
  BY <1>1, <1>5, SettingsDo
<1> QED BY <1>2, <1>3, <1>4, <1>5 DEF Next, Settings

(* EndsRespected: the drive stops at the end it goes to, wherever the end  *)
(* lies on the circle and whatever a single bad reading shows.  Its        *)
(* invariant says, for every place of the next task in the list and every  *)
(* age of the last bad reading, how far past the end the drive may be, at  *)
(* rest and on the way.                                                    *)
THEOREM EndsAreRespected == Spec => []EndsRespected
<1> DEFINE Whole == Inv /\ StopInv /\ RestInv /\ MoveInv
<1>1. Init => Whole
  <2>1. SUFFICES ASSUME Init PROVE Whole
    OBVIOUS
  <2>2. Inv
    <3>1. Stopped
      BY <2>1 DEF Init, Stopped
    <3> QED BY <2>1, <3>1, BasicInit, FreshInit, LagInit DEF Inv, ResetInv, TargetInv, Aimed
  <2>3. clb.Status # CLB_FLAG
    BY <2>1 DEF Init, CLB_FLAG, Ends
  <2>4. StopInv
    BY <2>1 DEF Init, StopInv
  <2> QED BY <2>2, <2>3, <2>4 DEF RestInv, MoveInv, Roomy
<1>2. Whole /\ [Next]_vars => Whole'
  <2>1. SUFFICES ASSUME Inv, StopInv, RestInv, MoveInv, [Next]_vars PROVE Whole'
    OBVIOUS
  <2>2. Inv'
    BY <2>1, BasicNext, FreshNext, LagNext, ResetNext, TargetNext DEF Inv
  <2>3. StopInv'
    BY <2>1, StopNext DEF Inv
  <2> QED BY <2>1, <2>2, <2>3, RestNext, MoveNext
<1>3. Whole => EndsRespected
  <2>1. SUFFICES ASSUME Basic, FreshInv, StopInv, MoveInv, ToItsEnd, NEW d \in Places(Pos, 0)
                 PROVE  IF drive.dir = "close" THEN d >= -OVERRUN
                        ELSE d <= clb.FullStep + OVERRUN
    BY DEF Inv, EndsRespected, Pos
  <2>2. Types /\ EndTypes /\ Pos \in Counts /\ Stroke \in 0 .. N - 1 /\ N \in Nat
    BY <2>1, StrokeType, PosType, Circle DEF Basic
  <2>3. Aimed /\ drive.inside
    BY <2>1 DEF ToItsEnd, StopInv, Aimed
  <2>4. /\ Roomy /\ clb.FullStep = Stroke /\ clb.FullStep # 0
        /\ 2 * (OVERRUN + RevMisc + 2) <= N - Stroke
    <3>1. clb.Status = CLB_FLAG /\ clb.FullStep # 0
      BY <2>1, <2>2 DEF ToItsEnd, Types, ClbType
    <3>2. clb.FullStep = Stroke
      BY <2>1, <3>1 DEF FreshInv
    <3>3. FoundStroke
      BY <2>1, <3>2 DEF ToItsEnd, FoundStroke
    <3> QED BY <2>1, <3>1, <3>2, <3>3 DEF ToItsEnd, Roomy
  <2>5. PICK x \in Int : /\ At(x)
                         /\ Within(slot, good, clb.FullStep # 0, Depth(drive.dir, x), clb.LinePos = x)
    BY <2>1, <2>3, <2>4 DEF MoveInv
  <2>6. PICK z \in Int : z = Depth(drive.dir, x)
    <3>1. PICK s \in Int : s = Stroke
      BY <2>2
    <3>2. s - x \in Int
      OBVIOUS
    <3> QED BY <3>1, <3>2 DEF Depth
  <2>7. z >= -OVERRUN
    <3>1. PICK g \in Nat : g = good
      BY <2>2, Parameters DEF Types
    <3>2. PICK a \in Int, b \in Int : a = After(g) /\ b = Before(g) /\ b <= a /\ b >= -RevMisc - 2
      <4>1. Before(g) \in Int /\ After(g) \in Int
        BY Allowances
      <4> QED BY <4>1, Allowances
    <3>3. z >= a \/ z >= b
      BY <2>4, <2>5, <2>6, <3>1, <3>2 DEF Within
    <3> QED BY <3>2, <3>3, Sizes
  <2>8. x = d
    <3>1. d \in Ways(Pos) /\ x \in Ways(Pos) /\ Far(d) <= Far(x) + 0
      BY <2>1, <2>5 DEF Places, At
    <3>2. PICK s \in Int : s = Stroke /\ s >= 0
      BY <2>2
    <3>3. d \in Int
      BY <2>2, <3>1, WayTypes
    <3>4. PICK k \in Int, l \in Int : k = 2 * x - s /\ l = 2 * d - s
      <4>1. 2 * x - s \in Int /\ 2 * d - s \in Int
        BY <3>3
      <4> QED BY <4>1
    <3>5. Far(x) = Abs(k) /\ Far(d) = Abs(l)
      BY <3>2, <3>4 DEF Far
    <3>6. k <= N - 4 /\ k >= -(N - 4)
      <4>1. -OVERRUN <= x /\ x <= s + OVERRUN
        BY <2>5, <3>2 DEF At
      <4> QED BY <2>2, <2>4, <3>2, <3>4, <4>1, Sizes
    <3>7. Abs(k) <= N - 4 /\ Abs(k) \in Int /\ Abs(l) \in Int
      BY <2>2, <3>6 DEF Abs
    <3>8. Far(x) <= N - 4 /\ Far(d) <= N + 3
      BY <2>2, <3>1, <3>5, <3>7
    <3> QED BY <2>2, <3>1, <3>8, OneWay
  <2>9. PICK s \in Int : s = Stroke /\ s = clb.FullStep
    BY <2>2, <2>4
  <2>10. CASE drive.dir = "close"
    BY <2>6, <2>7, <2>8, <2>10 DEF Depth
  <2>11. CASE drive.dir # "close"
    <3>1. z = s - x
      BY <2>6, <2>9, <2>11 DEF Depth
    <3> QED BY <2>7, <2>8, <2>9, <2>11, <3>1, Sizes
  <2> QED BY <2>10, <2>11
<1> QED BY <1>1, <1>2, <1>3, PTL DEF Spec
=============================================================================
