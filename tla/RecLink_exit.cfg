\* Two rooms of two servers that stay up; a web thread exits the links of either.
CONSTANTS
  CHANNEL_CONNECT_MAX_NUM = 2
  ROOM_ID_MAX = 1
  Boxes = {"boxA", "boxB"}
  Boot <- TwoBoxes
  Requests <- ExitAll
  Webs = {"w1"}
  Links = {1, 2}
  MaxRequests = 1
  MaxHearts = 2
  MaxFirewalls = 1
  Faults = {}
SPECIFICATION FairSpec
INVARIANT ExitSticks
PROPERTY Released
CHECK_DEADLOCK FALSE
