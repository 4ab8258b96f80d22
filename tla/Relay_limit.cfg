\* Two viewers under a limit of one.
CONSTANTS
  MAX_USERS = 3
  MAX_CH = 1
  MAX_LIST_LEN = 2
  Channels = {0}
  ReqIds = {0}
  UINT16 = 4
  UserLimit = 1
  PktLen = 2
  MaxPackets = 3
  Draining = {}
SPECIFICATION Spec
INVARIANTS OnlineWithinLimit
CHECK_DEADLOCK FALSE
