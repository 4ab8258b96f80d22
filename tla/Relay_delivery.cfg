\* Slot 2 keeps reading; whoever sits in slots 1 and 3 need not.
CONSTANTS
  MAX_USERS = 3
  MAX_CH = 1
  MAX_LIST_LEN = 1
  Channels = {0}
  ReqIds = {0}
  UINT16 = 4
  UserLimit = 2
  PktLen = 2
  MaxPackets = 2
  Draining = {2}
SPECIFICATION FairSpec
PROPERTIES Delivery
CHECK_DEADLOCK FALSE
