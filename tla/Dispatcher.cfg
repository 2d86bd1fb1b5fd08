SPECIFICATION FairSpec
CONSTANTS
  f1 = f1  f2 = f2  g1 = g1  h1 = h1
  c1 = c1  c2 = c2  c3 = c3  ab = ab  cd = cd
  Frames = {f1, f2, g1, h1}
  connOf <- MCconnOf
  subOf <- MCsubOf
  pairOf <- MCpairOf
  hash <- MChash
  ConfigTexts = {"subproto", "source_target", "roundrobin", "unknown"}
  QueueCount = 2
  Workers = 1
  Cap = 2
  None = None
CHECK_DEADLOCK FALSE
INVARIANTS RoutedInOrder
PROPERTIES QueuedIsRouted
