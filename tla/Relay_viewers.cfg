\* Two viewers and the ingest connection on one channel.
CONSTANTS
  MAX_USERS = 3
  MAX_CH = 1
  MAX_LIST_LEN = 2
  Channels = {0}
  ReqIds = {0}
  UINT16 = 4
  UserLimit = 3
  PktLen = 2
  MaxPackets = 3
  Draining = {}
SPECIFICATION Spec
INVARIANTS CursorLive ListLenExact NoLostWakeup
PROPERTIES EvictsOnlyLaggards StreamSpec
CHECK_DEADLOCK FALSE
