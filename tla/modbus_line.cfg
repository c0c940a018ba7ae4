SPECIFICATION FairSpec
CONSTANTS
  None = None
  Requests <- MCAll
  FRAME = 2
  MB_FRAME_MAX = 3
  TOUT_3_5 = 2
  TOUT_PREAMBLE = 0
  TOUT_POSTAMBLE = 2
  TOUT_TESTSCI = 0
  TOUT_CONN = 8
  ModbusPauseStart = 1
  Slaves <- MCSlaves
  MidFrame = FALSE
  MaxErrors = 2
INVARIANTS HalfDuplex ConnectionTimed
PROPERTIES AnswerWhole ExchangeSpec Listens Recovers
