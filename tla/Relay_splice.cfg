\* A viewer that sends again while it is being sent to.
CONSTANTS
  MAX_USERS = 2
  MAX_CH = 1
  MAX_LIST_LEN = 2
  Channels = {0}
  ReqIds = {0}
  UINT16 = 4
  UserLimit = 2
  PktLen = 2
  MaxPackets = 3
  Draining = {}
SPECIFICATION Spec
PROPERTIES ReplyAtFrameBoundary
CHECK_DEADLOCK FALSE
