SPECIFICATION FairSpec
CONSTANTS
  Children = {k1}
  Parents = {p1, p2}
  StopMayExpire = TRUE
  None = None
CHECK_DEADLOCK FALSE
INVARIANTS OneParent
PROPERTIES ReattachUnlessEarly CancelReleases StopEnds LivesAsPromised
