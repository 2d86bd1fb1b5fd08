SPECIFICATION FairSpec
CONSTANTS
  Children = {k1}
  Parents = {p1, p2}
  StopMayExpire = TRUE
  None = None
CHECK_DEADLOCK FALSE
PROPERTIES Reattach
