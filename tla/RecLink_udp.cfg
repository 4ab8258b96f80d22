\* One room whose UDP data fails to come for more than three seconds.
CONSTANTS
  CHANNEL_CONNECT_MAX_NUM = 1
  ROOM_ID_MAX = 1
  Boxes = {"boxA"}
  Boot <- OneRoom
  Requests = {}
  Webs = {}
  Links = {1}
  MaxRequests = 0
  MaxHearts = 2
  MaxFirewalls = 1
  Faults = {"udp"}
SPECIFICATION FairSpec
PROPERTY Reconnects
CHECK_DEADLOCK FALSE
