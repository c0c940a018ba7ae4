SPECIFICATION Spec
CONSTANTS
  Contacts <- MCContacts
  LIST = 8
  DacSlot = 6
  RemoteSlot = 2
  DriveSlot = 4
  PI_FRAME_SIZE = 3
  PI_CONN_TOUT = 7
  TuTime = 1
  MuDuTime = 0
INVARIANTS BusOwned DacServed ConnectTimed FalseInputFiltered SwitchFaultKnown
PROPERTY SwitchAtRest
