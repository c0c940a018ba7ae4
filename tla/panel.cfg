SPECIFICATION FairSpec
CONSTANTS
  SLOTS = 2
  PRE = 2
  POST = 2
  PULT_CAP_RESET = 3
  CONFIRM_TOUT = 2
  CANCEL_TOUT = 2
  BLOCKED_TOUT = 1
  EnableControlPDU = "confirm"
  SleepTime = TRUE
  Remote <- MCRemote

PROPERTIES KeysInTime ConfirmationSpec StopsObeyed
