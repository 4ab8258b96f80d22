\* One slot, one viewer that leaves and comes back; the media centre asks nothing itself.
CONSTANTS
  MAX_USERS = 1
  Viewers = {"v1"}
  Webs = {}
SPECIFICATION UserSpec
PROPERTY UsersKnown
CHECK_DEADLOCK FALSE
