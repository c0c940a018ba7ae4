SPECIFICATION Spec
CONSTANTS
  RevMax = 19
  RevMisc = 2
  GearRatio = 1000
  PosSensPow = 0
  PositionAcc = 1
  BrakeZone = 0
  MuffTime = 0
  RodType = TRUE
  Turns = {4}
  Orders = {"revClose", "calibReset"}
  Marks = {1}
  ROUNDS = 2
  REST = 4
  GoodRun = 3
  OVERRUN = 4
  BadBy = {2, 8}
  Starts = {18}
INVARIANT EndsRespected
PROPERTY PlaceFound
