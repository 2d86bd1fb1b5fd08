SPECIFICATION FairSpec
CONSTANTS
  t1 = t1  t2 = t2  t3 = t3  a = a  b = b
  Tasks = {t1, t2}
  Conns = {a, b}
  Shards = {s1}
  connOf <- MCconnOf
  shardOf <- MCshardOf
  ShardCap = 1
  ConnCap = 1
  HasTimeout = FALSE
  CtxMayEnd = {t1}
  Removable = {a, b}
  Stalling = {a}
  Fragile = {a}
  MaxWriters = 2
  None = None
CHECK_DEADLOCK FALSE
ACTION_CONSTRAINT Bounded
PROPERTIES AcceptedCompletes ShutdownEnds RemoveCloses
