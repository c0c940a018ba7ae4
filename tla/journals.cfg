SPECIFICATION Spec
CONSTANTS
  EEPROM_RETRY = 2
  LOG_EV_CNT = 2
  LOG_CMD_CNT = 1
  LOG_EV_DATA_CNT = 1
  LOG_CMD_DATA_CNT = 1
  LOG_EV_BUF_DATA_CNT = 1
  LOG_EV_BUF_CELL_COUNT = 2
  LOG_START_TOUT = 2
  ByteBase = 2
  Samples <- MCOnlyZero
  Positions <- MCFirst
  Resets <- MCNever
  CommandGap = 3
  Lossy <- MCParLossy
  MaxLosses = 2
INVARIANTS EventCellsWhole PointersStored
VIEW MCView
PROPERTY ParStoreSpec
