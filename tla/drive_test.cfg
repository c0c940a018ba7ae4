SPECIFICATION ServiceSpec
CONSTANTS
  ReverseType = "rvtStop"
  ReleMode = FALSE
  LockSeal = TRUE
  MuDuSetup = "mdOff"
  DuSource = "mdsAll"
  BreakMode = "vtOpen"
  BurM90to60 = FALSE
  Calibrated = TRUE
  ReversMove = FALSE
  PosSensEnable = "pmSignStop"
  StopKinds = {"Net", "ShC", "PhOrd"}
  UporOnly = FALSE
  KickCount = 0
  StartDelayTime = 2
  BlockDelay = 3
  TestStateTime = 1
  PrestartTime = 0
  UporStateTime = 1
  AccelTime = 0
  UporSwitchTime = 0
  PauseStateTime = 0
  KickSt1Time = 1
  ZazorTime = 0
  NoCurrPause = 2
  BrakeTime = 1
  FaultDelayTime = 0
  LowPowerTime = 1
  PowerTout = 1
  PowerOffCount = 2
  BtnKeys = {"none", "open", "close"}
  PduKeys = {"none"}
  TuStates <- MCNoTu
  PhaseOrders <- MCForward
  Zones = {"none"}
  Words = {"TestOpen"}
  Events = {"test"}
  Faulty = {}
INVARIANT BrakeAtRest

