SPECIFICATION FairSpec
CONSTANTS
  r = r  a = a  b = b  c = c
  up = up  down = down  cast = cast  zero = zero  anon = anon
  Nodes = {r, a, b, c}
  parentOf <- TreeParent
  Initial <- TreeLinks
  Bound <- TreeLinks
  Index0 <- TreeIndex
  Frames = {up, down, cast, zero, anon}
  hdr <- Headers
  firstHop <- FirstHops
  Handles <- Handlers
  AllowSourceMismatch = {anon}
  AcceptCmd = {zero}
  ForwardMode = {r, a, b, c}
  DefaultHop = 4
  Movable = {b, r}
  MaxFaults = 2
  None = None
CHECK_DEADLOCK FALSE
INVARIANTS HopBudget BroadcastGoesDown NeverDuplicated
PROPERTIES Quiesces Reaches
