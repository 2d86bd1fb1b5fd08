SPECIFICATION Spec
CONSTANTS
  t1 = t1  t2 = t2  t3 = t3  a = a  b = b
  Tasks = {t1, t2}
  Conns = {a}
  Shards = {s1}
  connOf <- MCconnOf
  shardOf <- MCshardOf
  ShardCap = 1
  ConnCap = 1
  HasTimeout = TRUE
  CtxMayEnd = {}
  Removable = {a}
  Stalling = {}
  Fragile = {}
  MaxWriters = 3
  None = None
CHECK_DEADLOCK FALSE
INVARIANTS FrameIntegrity
