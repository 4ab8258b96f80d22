\* One viewer that may switch between channels; a third channel finds the
\* channel table full.
CONSTANTS
  MAX_USERS = 2
  MAX_CH = 2
  MAX_LIST_LEN = 2
  Channels = {0, 1, 2}
  ReqIds = {0, 1, 4}
  UINT16 = 4
  UserLimit = 2
  PktLen = 2
  MaxPackets = 3
  Draining = {}
SPECIFICATION Spec
INVARIANTS TypeOK AuthBeforeMedia FollowsRequest
CHECK_DEADLOCK FALSE
