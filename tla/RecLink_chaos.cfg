\* One slot, a web thread that connects or exits, every fault: two link threads
\* may end up on the slot.
CONSTANTS
  CHANNEL_CONNECT_MAX_NUM = 1
  ROOM_ID_MAX = 1
  Boxes = {"boxA"}
  Boot <- OneRoom
  Requests <- Mixed
  Webs = {"w1"}
  Links = {1, 2}
  MaxRequests = 1
  MaxHearts = 2
  MaxFirewalls = 1
  Faults = {"fin", "udp", "send", "thread"}
SPECIFICATION Spec
INVARIANTS TypeOK HeartWhileOK SocketOwned
CHECK_DEADLOCK FALSE
