\* One room, cut at any point of a login or of an established link, in a table with a
\* slot to spare, and the reports of its state to the media centre.
CONSTANTS
  CHANNEL_CONNECT_MAX_NUM = 2
  ROOM_ID_MAX = 1
  Boxes = {"boxA"}
  Boot <- OneRoom
  Requests = {}
  Webs = {}
  Links = {1}
  MaxRequests = 0
  MaxHearts = 2
  MaxFirewalls = 1
  Faults = {"fin", "send", "thread"}
SPECIFICATION RepFairSpec
INVARIANTS OKConnected NeverAbandoned RepTypeOK OKReported
PROPERTIES Reconnects OKLearned
CHECK_DEADLOCK FALSE
