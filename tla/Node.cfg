SPECIFICATION Spec
CONSTANTS
  Transports = {"none", "tcp", "quic", "android", "channel", "windows"}
  NodeIDs = {1, 2}
  MaxNotices = 1
  Members = {1, 2}
  Roles = {"node", "admin"}
  Perms = {"*", "p"}
  Wildcard = "*"
  Handlers = {"h1", "h2"}
  Settings <- Texts
  Addresses = {1, 2}
  MaxChanges = 2
  payload <- LongEmptyShort
  HdrLen = 3
  Prefix = 2
  W = 8
  R = 4
  Pipes = {"plain", "windows"}
CHECK_DEADLOCK FALSE
INVARIANTS OutcomeAsAnswered ForeignOnlyAfterCancel OneShared SyncedUnlessEmpty DeliveredAsSent OkIffWritten
PROPERTIES EndsReleased WriteEnds
