SPECIFICATION InfoSpec
CONSTANTS
  COMMAND = 1
  BT_TIMER = 1
  BT_RX_BUFFER_SIZE = 2
  RING = 82
  LineEnd = 10
  NO_CARRIER <- MCNoCarrier
  Requests <- MCRequests
  DATA = 1
  IM_RD_BUFFER_SIZE = 4
  IM_TIMEOUT = 2
  MaxFaults = 1
  MaxOthers = 1
INVARIANT RecordTrue
PROPERTY Served
