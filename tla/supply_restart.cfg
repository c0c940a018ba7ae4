SPECIFICATION ServiceSpec
CONSTANTS
  ReverseType = "rvtStop"
  ReleMode = FALSE
  LockSeal = TRUE
  MuDuSetup = "mdMuOnly"
  DuSource = "mdsAll"
  BreakMode = "vtNone"
  BurM90to60 = FALSE
  Calibrated = TRUE
  ReversMove = FALSE
  PosSensEnable = "pmSignStop"
  StopKinds = {"Net", "ShC"}
  UporOnly = FALSE
  KickCount = 0
  StartDelayTime = 2
  BlockDelay = 4
  TestStateTime = 1
  PrestartTime = 0
  UporStateTime = 0
  AccelTime = 0
  UporSwitchTime = 0
  PauseStateTime = 0
  KickSt1Time = 1
  ZazorTime = 0
  NoCurrPause = 2
  BrakeTime = 1
  FaultDelayTime = 0
  LowPowerTime = 2
  PowerTout = 1
  PowerOffCount = 1
  BtnKeys = {"none", "open"}
  PduKeys = {"none"}
  TuStates <- MCNoTu
  PhaseOrders <- MCForward
  Zones = {"none"}
  Words = {}
  Faulty = {"ShC"}
  Events = {"supply", "restart"}
INVARIANT ShcRemembered
PROPERTY FaultCoasts
