SPECIFICATION FairSpec
CONSTANTS
  c1 = c1  c2 = c2  c3 = c3  i1 = i1  i2 = i2
  Conns = {c1, c2, c3}
  Ids = {i1, i2}
  idOf <- SharedIds
  Nodes = {n1}
  Devices = {d1}
  WithDevice = {c3}
  None = None
  MaxEvict = 1
ACTION_CONSTRAINT OneCompanion
INVARIANTS RemovedOnce NoLeak StaleOnlyByLateBind DirectUniqueUndisturbed
PROPERTIES RemovedIsClosed LivesAsPromised
