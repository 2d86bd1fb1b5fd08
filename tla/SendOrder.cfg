SPECIFICATION Spec
CONSTANTS
  t1 = t1  t2 = t2  t3 = t3  a = a  b = b
  Tasks = {t1, t2, t3}
  Conns = {a, b}
  Shards = {s1}
  connOf <- MCconnOf
  shardOf <- MCshardOf
  ShardCap = 1
  ConnCap = 1
  HasTimeout = TRUE
  CtxMayEnd = {t2}
  Removable = {b}
  Stalling = {}
  Fragile = {a}
  MaxWriters = 4
  None = None
CHECK_DEADLOCK FALSE
INVARIANTS WholeFramesInOrder CallbackOnce OpenWhileOwned
