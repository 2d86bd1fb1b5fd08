SPECIFICATION FairSpec
CONSTANTS
  Setups <- Four
  Socks = {k1}
  MaxFds = 1
  Backlog = 1
CHECK_DEADLOCK FALSE
INVARIANTS WinsockOwn
PROPERTIES ListenConverges
