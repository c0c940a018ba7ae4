SPECIFICATION Spec
CONSTANTS
  PROGON_DELAY = 0
  STOP_DELAY = 0
  ORDERED = 1
  ON_TIMEOUT = 1
  DELAY_TIMEOUT = 1
  LED_TEST_TIMEOUT = 1
  LAMP = 1
  PAUSE = 1
  OutputReg <- MCOutputReg
  Settings <- MCSettings
INVARIANTS CycleCounted CyclesBounded
PROPERTY ContactsTell
