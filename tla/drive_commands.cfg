SPECIFICATION FairSpec
CONSTANTS
  ReverseType = "rvtStop"
  ReleMode = TRUE
  LockSeal = FALSE
  MuDuSetup = "mdSelect"
  DuSource = "mdsAll"
  BreakMode = "vtNone"
  BurM90to60 = FALSE
  Calibrated = TRUE
  ReversMove = FALSE
  PosSensEnable = "pmSignStop"
  StopKinds = {}
  UporOnly = FALSE
  KickCount = 2
  StartDelayTime = 3
  BlockDelay = 5
  TestStateTime = 3
  PrestartTime = 1
  UporStateTime = 1
  AccelTime = 1
  UporSwitchTime = 1
  PauseStateTime = 1
  KickSt1Time = 1
  ZazorTime = 1
  NoCurrPause = 2
  BrakeTime = 1
  FaultDelayTime = 0
  LowPowerTime = 1
  PowerTout = 1
  PowerOffCount = 2
  BtnKeys = {"none", "stop", "close"}
  PduKeys = {"none", "open"}
  TuStates <- MCRelayTu
  PhaseOrders <- MCForward
  Zones = {"none", "opened", "closed"}
  Words = {"TestOpen"}
  Faulty = {}
INVARIANTS DriveInv NoLockoutWhileMoving
PROPERTIES RestBeforeStart ReversalStops MotionSpec LockoutEnds TestPhaseEnds
