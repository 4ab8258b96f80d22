\* The media centre connects one room, then another while the first is cut.
CONSTANTS
  CHANNEL_CONNECT_MAX_NUM = 2
  ROOM_ID_MAX = 1
  Boxes = {"boxA"}
  Boot <- NoRoom
  Requests <- ConnectTwo
  Webs = {"w1"}
  Links = {1, 2}
  MaxRequests = 2
  MaxHearts = 2
  MaxFirewalls = 1
  Faults = {"fin"}
SPECIFICATION FairSpec
PROPERTY Reconnects
CHECK_DEADLOCK FALSE
