SPECIFICATION Spec
CONSTANTS
  Setups <- Rfcomm
  Socks = {}
  MaxFds = 2
  Backlog = 1
CHECK_DEADLOCK FALSE
INVARIANTS StrandedOnlyByRace ProfilesStayUsable
